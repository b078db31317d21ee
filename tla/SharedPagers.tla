---------------------------- MODULE SharedPagers ----------------------------
(***************************************************************************)
(* The pager manager (src/edbPagerMgr_imp.cpp), which keeps one pager for  *)
(* each page size and counts its uses, and the simple cache over a pager   *)
(* (src/edbSimpleCache_imp.cpp), which gives cached files access to bytes. *)
(*                                                                         *)
(* A pager is taken for what module Pager shows of it: pages of files in   *)
(* memory, each with its contents and whether it is dirty, that may be     *)
(* written and dropped at any time.  A file is a row of cells.  A page     *)
(* past the end of its file holds what was in memory before, Junk.         *)
(*                                                                         *)
(* Operators take s, the files and the pagers, and give them as they are   *)
(* then.                                                                   *)
(***************************************************************************)
EXTENDS Integers, Sequences, FiniteSets

CONSTANTS
  Files,       \* the files
  PageSizes,   \* the page sizes clients ask for, in cells
  MaxPages     \* bound: the pages in memory

ASSUME PagersAssumption == PageSizes \subseteq Nat \ {0} /\ MaxPages \in Nat

VARIABLES
  disk,        \* disk[f]: the cells of file f
  pagers,      \* pagers_: page size -> the uses and the pages of a pager
  cachePg      \* the page size of the pager the system cache has

Stores == [disk |-> disk, pagers |-> pagers]

InPool(s) ==
  LET held(size) == IF size \in DOMAIN s.pagers THEN {size} \X DOMAIN s.pagers[size].pages ELSE {}
  IN  Cardinality(UNION {held(size) : size \in PageSizes}) <= MaxPages

Becomes(s) == InPool(s) /\ disk' = s.disk /\ pagers' = s.pagers

Junk == -1
Zero == 0

\* A map with the entries of f, and those of g under other keys.
Joined(f, g) == [k \in DOMAIN f \cup DOMAIN g |-> IF k \in DOMAIN f THEN f[k] ELSE g[k]]

-----------------------------------------------------------------------------
(* Pages.                                                                  *)

PagesIn(s, size) == s.pagers[size].pages

PagesFor(s, size, f) == {k \in DOMAIN PagesIn(s, size) : k[1] = f}

\* A page as it is read from its file.
Image(s, size, f, page) ==
  [i \in 1 .. size |-> LET c == page * size + i
                       IN  IF c <= Len(s.disk[f]) THEN s.disk[f][c] ELSE Junk]

WithPage(s, size, f, page, data) ==
  IF <<f, page>> \in DOMAIN PagesIn(s, size) THEN s
  ELSE [s EXCEPT !.pagers[size].pages =
          Joined(@, [k \in {<<f, page>>} |-> [data |-> data, dirty |-> FALSE]])]

\* fetch reads the page, fake does not.
Fetch(s, size, f, page) == WithPage(s, size, f, page, Image(s, size, f, page))
Fake(s, size, f, page) == WithPage(s, size, f, page, [i \in 1 .. size |-> Junk])

\* Writing those of some pages that are dirty, each as a whole.  A file grows
\* with zeros where nothing is written.
Dirty(s, size, keys) == {k \in keys : PagesIn(s, size)[k].dirty}

Extents(s, size, dirty, f) ==
  {Len(s.disk[f])} \cup {(k[2] + 1) * size : k \in {d \in dirty : d[1] = f}}

WrittenLen(s, size, dirty, f) ==
  CHOOSE e \in Extents(s, size, dirty, f) : \A d \in Extents(s, size, dirty, f) : d <= e

WrittenCell(s, size, dirty, f, c) ==
  LET k == <<f, (c - 1) \div size>>
  IN  IF k \in dirty THEN PagesIn(s, size)[k].data[((c - 1) % size) + 1]
      ELSE IF c <= Len(s.disk[f]) THEN s.disk[f][c] ELSE Zero

Written(s, size, dirty) ==
  [f \in Files |->
     [c \in 1 .. WrittenLen(s, size, dirty, f) |-> WrittenCell(s, size, dirty, f, c)]]

Dump(s, size, keys) ==
  [s EXCEPT !.disk = Written(s, size, Dirty(s, size, keys)),
            !.pagers[size].pages =
               [k \in DOMAIN @ |-> IF k \in keys THEN [@[k] EXCEPT !.dirty = FALSE] ELSE @[k]]]

Drop(s, size, keys) ==
  [s EXCEPT !.pagers[size].pages = [k \in DOMAIN @ \ keys |-> @[k]]]

\* commit, and detach, which close does first.
Commit(s, size, f) == Dump(s, size, PagesFor(s, size, f))

\* (mutant) detach drops the pages without writing them.
DetachUnwritten(s, size, f) == Drop(s, size, PagesFor(s, size, f))

Detach(s, size, f) == Drop(Commit(s, size, f), size, PagesFor(s, size, f))

\* chsize of a file,
Resize(s, f, size) ==
  [s EXCEPT !.disk[f] = [c \in 1 .. size |-> IF c <= Len(@) THEN @[c] ELSE Zero]]

\* and of a pager: pages past the new end are dropped, if the file itself is
\* made shorter.
Chsize(s, size, f, newSize) ==
  LET past == {k \in PagesFor(s, size, f) : k[2] >= (newSize + size - 1) \div size}
  IN  Resize(IF newSize < Len(s.disk[f]) THEN Drop(s, size, past) ELSE s, f, newSize)

-----------------------------------------------------------------------------
(* The pager manager.                                                      *)

NewPager(size) == [z \in {size} |-> [use |-> 1, pages |-> <<>>]]

\* (mutant) a pager that exists is given without counting the use.
GetPagerUncounted(s, size) ==
  IF size \in DOMAIN s.pagers THEN s
  ELSE [s EXCEPT !.pagers = Joined(@, NewPager(size))]

GetPager(s, size) ==
  IF size \in DOMAIN s.pagers THEN [s EXCEPT !.pagers[size].use = @ + 1]
  ELSE [s EXCEPT !.pagers = Joined(@, NewPager(size))]

\* (mutant) the pager is kept when the last use is gone.
ReleasePagerKept(s, size) == [s EXCEPT !.pagers[size].use = @ - 1]

\* The last use gone the pager is deleted, and writes all its pages.
ReleasePager(s, size) ==
  IF s.pagers[size].use > 1 THEN [s EXCEPT !.pagers[size].use = @ - 1]
  ELSE LET t == Dump(s, size, DOMAIN PagesIn(s, size))
       IN  [t EXCEPT !.pagers = [z \in DOMAIN @ \ {size} |-> @[z]]]

\* setPageSize of the cache, and of a paged file.
SetPageSize(s, from, to) == ReleasePager(GetPager(s, to), from)

\* The pager makes room by writing and dropping a page.
Evict ==
  /\ \E size \in DOMAIN pagers : \E k \in DOMAIN pagers[size].pages :
       Becomes(Drop(Dump(Stores, size, {k}), size, {k}))
  /\ UNCHANGED cachePg

-----------------------------------------------------------------------------
(* The simple cache.  Clients read and write at least one cell.            *)

FirstPage(offset, size) == offset \div size
LastPage(end, size) == IF end % size = 0 THEN end \div size - 1 ELSE end \div size

PageSpan(offset, n, size) == FirstPage(offset, size) .. LastPage(offset + n, size)

\* The cells as a client of the pager of a size sees them.
Seen(s, size, f, c) ==
  LET k == <<f, (c - 1) \div size>>
  IN  IF k \in DOMAIN PagesIn(s, size) THEN PagesIn(s, size)[k].data[((c - 1) % size) + 1]
      ELSE IF c <= Len(s.disk[f]) THEN s.disk[f][c] ELSE Junk

\* read: each page is fetched.  It gives the cells as they are Seen, n of them
\* whatever the length of the file.
CacheRead(s, size, f, offset, n) ==
  [s EXCEPT !.pagers[size].pages =
     Joined(@, [k \in {f} \X PageSpan(offset, n, size) |->
                  [data |-> Image(s, size, f, k[2]), dirty |-> FALSE]])]

\* write: the first and the last page are fetched, those between are not read.
Ends(span) == {page \in span : page - 1 \notin span \/ page + 1 \notin span}

CacheWrite(s, size, f, offset, data) ==
  LET span == PageSpan(offset, Len(data), size)
      image(page) == IF <<f, page>> \in DOMAIN PagesIn(s, size) THEN PagesIn(s, size)[<<f, page>>].data
                     ELSE IF page \in Ends(span) THEN Image(s, size, f, page)
                     ELSE [i \in 1 .. size |-> Junk]
      filled(page) == [i \in 1 .. size |->
                         LET c == (page * size + i) - offset
                         IN  IF c \in DOMAIN data THEN data[c] ELSE image(page)[i]]
  IN  [s EXCEPT !.pagers[size].pages =
         Joined([k \in {f} \X span |-> [data |-> filled(k[2]), dirty |-> TRUE]], @)]

-----------------------------------------------------------------------------
PageType(size) == [data : [1 .. size -> Int], dirty : BOOLEAN]

PagersTyped ==
  /\ DOMAIN disk = Files /\ \A f \in Files : disk[f] \in Seq(Int)
  /\ DOMAIN pagers \subseteq PageSizes
  /\ \A size \in DOMAIN pagers :
       /\ pagers[size].use \in Nat \ {0}
       /\ \A k \in DOMAIN pagers[size].pages :
            k \in Files \X Nat /\ pagers[size].pages[k] \in PageType(size)
  /\ cachePg \in PageSizes
=============================================================================
