--------------------------- MODULE RecordNumbers ----------------------------
(***************************************************************************)
(* What a storage of records of one length promises (src/edbFStorage.h):   *)
(* records are numbered in the order they are allocated, a number is never *)
(* given again, a record holds what was written in it last until it is     *)
(* freed, and the records in use are counted.                              *)
(***************************************************************************)
EXTENDS Integers, Sequences

CONSTANTS Values, Unwritten, Freed

VARIABLES
  recs,      \* recs[n + 1]: what record n holds
  count      \* the number of records in use

vars == <<recs, count>>

NumbersInit == recs = <<>> /\ count = 0

\* A storage is initialized on the file: the records it had are gone.
Start == recs' = <<>> /\ count' = 0

Alloc == \E x \in Values \cup {Unwritten} : recs' = Append(recs, x) /\ count' = count + 1

InUse == {i \in DOMAIN recs : recs[i] # Freed}

Write == \E i \in InUse, v \in Values : recs' = [recs EXCEPT ![i] = v] /\ count' = count

Free == \E i \in InUse : recs' = [recs EXCEPT ![i] = Freed] /\ count' = count - 1

NumbersSpec == NumbersInit /\ [][Start \/ Alloc \/ Write \/ Free]_vars

=============================================================================
