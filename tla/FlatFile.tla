------------------------------ MODULE FlatFile ------------------------------
(***************************************************************************)
(* What a File promises (src/edbFile.h): a row of bytes that grows when it *)
(* is written past its end, zeros where nothing was written, and a         *)
(* position that reads and writes start from.  A file that was closed and  *)
(* is opened again has the bytes it had, and its position at the start.    *)
(***************************************************************************)
EXTENDS Naturals, Sequences

CONSTANTS Bytes, Zero, Chunks    \* Chunks: what a write may write

VARIABLES
  data,      \* the bytes
  pos,       \* the position
  status     \* "absent", "closed" or "open"

vars == <<data, pos, status>>

FlatInit == data = << >> /\ pos = 0 /\ status = "open"

\* The bytes once those of chunk are at `at`.
Overwrite(d, at, chunk) ==
  [i \in 1 .. IF at + Len(chunk) > Len(d) THEN at + Len(chunk) ELSE Len(d) |->
     IF i \in at + 1 .. at + Len(chunk) THEN chunk[i - at]
     ELSE IF i <= Len(d) THEN d[i] ELSE Zero]

Resize(d, size) == [i \in 1 .. size |-> IF i <= Len(d) THEN d[i] ELSE Zero]

Put(chunk) ==
  /\ status = "open" /\ UNCHANGED status
  /\ data' = Overwrite(data, pos, chunk)
  /\ pos' = pos + Len(chunk)

\* Reading and seeking only move the position.
MoveTo == status = "open" /\ pos' \in Nat /\ UNCHANGED <<data, status>>

Cut == /\ status = "open" /\ UNCHANGED <<pos, status>>
       /\ data' = Resize(data, Len(data'))

Shut   == status = "open"   /\ status' = "closed" /\ pos' = 0 /\ UNCHANGED data
Reopen == status = "closed" /\ status' = "open" /\ pos' = 0 /\ UNCHANGED data
Erase  == status = "closed" /\ status' = "absent" /\ data' = << >> /\ UNCHANGED pos
Create == status = "absent" /\ status' = "open" /\ pos' = 0 /\ UNCHANGED data

FlatNext == \/ \E chunk \in Chunks : Put(chunk)
            \/ MoveTo \/ Cut \/ Shut \/ Reopen \/ Erase \/ Create

FlatSpec == FlatInit /\ [][FlatNext]_vars

=============================================================================
