---------------------------- MODULE RecordStore ----------------------------
(***************************************************************************)
(* What the record storage promises its clients (the interface VStorage of *)
(* src/edbVStorage.h): a map from locators to the contents of records.     *)
(* An operation on one record never changes another one; a record changes  *)
(* its locator only when it is resized or spliced, and then to one that no *)
(* record has.  A cell that is not in Values is a cell no client has       *)
(* written, and nothing is promised about it.                              *)
(***************************************************************************)
EXTENDS Naturals, Sequences, FiniteSetsExt

CONSTANTS Locators, Lens, Values

VARIABLES
  recs,    \* locator -> sequence of cells
  isopen

vars == <<recs, isopen>>

RecordsInit == recs = << >> /\ isopen = TRUE

\* Every record but loc stays as it is, and loc's contents are now at dest.
OnlyMoves(loc, dest) ==
  /\ isopen /\ UNCHANGED isopen
  /\ loc \in DOMAIN recs
  /\ dest = loc \/ dest \notin DOMAIN recs
  /\ DOMAIN recs' = (DOMAIN recs \ {loc}) \cup {dest}
  /\ \A l \in DOMAIN recs \ {loc} : recs'[l] = recs[l]

\* Cell by cell, new holds what was written in old.
Keeps(old, new) == old \in Values => new = old

Create(loc) ==
  /\ isopen /\ UNCHANGED isopen
  /\ loc \notin DOMAIN recs
  /\ DOMAIN recs' = DOMAIN recs \cup {loc}
  /\ \A l \in DOMAIN recs : recs'[l] = recs[l]

Delete(loc) ==
  /\ isopen /\ UNCHANGED isopen
  /\ loc \in DOMAIN recs
  /\ recs' = [l \in DOMAIN recs \ {loc} |-> recs[l]]

\* Contents of the resized record.
Resized(loc, dest) ==
  \A i \in 1 .. Min({Len(recs[loc]), Len(recs'[dest])}) : Keeps(recs[loc][i], recs'[dest][i])

\* The n cells at off are written, the others stay.
Written(loc, off, n) ==
  LET old == recs[loc]
      new == recs'[loc]
  IN  /\ off + n <= Len(old) /\ Len(new) = Len(old)
      /\ \A i \in 1 .. Len(old) : IF i \in off + 1 .. off + n THEN new[i] \in Values
                                                             ELSE new[i] = old[i]

\* At off, n cells replace cut cells of the record's first `full` cells.
Spliced(loc, dest, off, cut, full, n) ==
  LET new == recs'[dest]
  IN  /\ full <= Len(recs[loc])
      /\ off + n <= Len(new) /\ full + n <= Len(new) + cut
      /\ \A i \in 1 .. Min({off, full}) : Keeps(recs[loc][i], new[i])
      /\ \A i \in off + 1 .. off + n : new[i] \in Values
      /\ \A i \in off + cut + 1 .. full : Keeps(recs[loc][i], new[i - cut + n])

Shut   == isopen  /\ isopen' = FALSE /\ UNCHANGED recs
Reopen == ~isopen /\ isopen' = TRUE  /\ UNCHANGED recs

RecordsNext ==
  \/ \E loc \in Locators : Create(loc) \/ Delete(loc)
  \/ \E loc \in Locators, off, n \in Lens : OnlyMoves(loc, loc) /\ Written(loc, off, n)
  \/ \E loc, dest \in Locators :
       /\ OnlyMoves(loc, dest)
       /\ \/ Resized(loc, dest)
          \/ \E off, cut, full \in Lens, n \in Lens \cup {0} :
               Spliced(loc, dest, off, cut, full, n)
  \/ Shut \/ Reopen

RecordsSpec == RecordsInit /\ [][RecordsNext]_vars

=============================================================================
