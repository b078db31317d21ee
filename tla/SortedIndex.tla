---------------------------- MODULE SortedIndex -----------------------------
(***************************************************************************)
(* What an index promises (src/edbBTree.h): it holds a set of entries;     *)
(* inserting an entry it has is refused as a duplicate and changes         *)
(* nothing, removing takes the entries a query names and no other, and no  *)
(* call finds the index broken.                                            *)
(***************************************************************************)
EXTENDS Integers, FiniteSets

CONSTANTS
  Entries,   \* the entries: natural numbers, in the order of the index
  Most       \* bound: how many entries a call removes

VARIABLES
  entries,   \* the entries it has
  result     \* the result of the last call

\* The first entries of a set, n of them or all there are.
Lowest(S, n) == {e \in S : Cardinality({f \in S : f < e}) < n}

Init == entries = {} /\ result = "ok"

\* The calls, on what the index had and has then: a new entry,
Insert(had, has) == result' = "ok" /\ \E e \in Entries \ had : has = had \cup {e}

\* the entries from one on, as many as the query is for, or all there are.
Remove(had, has) ==
  /\ result' = "ok"
  /\ \E e \in had, n \in 1 .. Most : has = had \ Lowest({f \in had : f >= e}, n)

\* All others change nothing: an entry that is there is not inserted again,
\* one that is not there is not found, and a walk only reads.
Read(had, has) ==
  /\ has = had
  /\ result' \in {"ok", "notfound", "nomore"} \/ (result' = "duplicate" /\ had # {})

Next ==
  LET had == entries
      has == entries'
  IN  Read(had, has) \/ Insert(had, has) \/ Remove(had, has)

Spec == Init /\ [][Next]_<<entries, result>>
=============================================================================
