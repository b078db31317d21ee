----------------------------- MODULE PageStore ------------------------------
(***************************************************************************)
(* What a Pager promises (src/edbPager.h): whichever of its pages are in   *)
(* memory, dirty, locked or on disk only, each page of each file holds     *)
(* what a client wrote in it last.  Only a write changes a page, and only  *)
(* a step that makes its file shorter takes one away, past the new end.  A *)
(* page that is not in Values holds nothing anybody has written, and       *)
(* nothing is promised about it.                                           *)
(***************************************************************************)
EXTENDS Naturals

CONSTANTS Files, Pages, Values, Junk

VARIABLES
  pages,     \* pages[f][p]: the contents of page p of file f
  sizes,     \* the pages each file has on disk
  wrote      \* whether the last call was one that writes in pages

vars == <<pages, sizes, wrote>>

StoreInit ==
  /\ pages = [f \in Files |-> [p \in Pages |-> Junk]]
  /\ sizes = [f \in Files |-> 0]
  /\ wrote = FALSE

\* Pages written between two states of the store are kept, and none but those
\* of a set is given up.
Kept(old, new, given) ==
  \A f \in Files, p \in Pages :
    old[f][p] \in Values /\ <<f, p>> \notin given => new[f][p] = old[f][p]

NoneShorter == \A f \in Files : sizes'[f] >= sizes[f]

\* Fetching, locking, committing or detaching changes nothing anybody can see.
Read ==
  /\ wrote' = FALSE /\ NoneShorter
  /\ Kept(pages, pages', {})

Written(old, new) ==
  \E f \in Files, first \in Pages, last \in Pages :
    /\ \E v \in Values : \A p \in first .. last : new[f][p] = v
    /\ Kept(old, new, {f} \X (first .. last))

Write ==
  /\ wrote' = TRUE /\ NoneShorter
  /\ Written(pages, pages')

Cut ==
  /\ wrote' = FALSE
  /\ \E f \in Files :
       /\ sizes'[f] < sizes[f]
       /\ Kept(pages, pages', {f} \X {p \in Pages : p >= sizes'[f]})

StoreSpec == StoreInit /\ [][Read \/ Write \/ Cut]_vars

=============================================================================
