----------------------------- MODULE PagedFile ------------------------------
(***************************************************************************)
(* Two clients of the shared pagers: a paged file                          *)
(* (src/edbPagedFile_imp.cpp), which gives the pages of one file, and a    *)
(* cached file (src/edbCachedFile_imp.cpp), which reads and writes bytes   *)
(* of another through the system cache.  Each may change the page size,    *)
(* which takes it to another pager while the pagers still hold pages.      *)
(*                                                                         *)
(* A client keeps the rules the code does not enforce, unless Liberties    *)
(* has them:                                                               *)
(*   "move"     it changes the page size while the pager it leaves stays   *)
(*              and holds pages of the file                                *)
(*   "bypass"   it changes the size of a cached file while pages of it are *)
(*              in the cache                                               *)
(*   "hasty"    it changes the size of a paged file before it has flushed  *)
(*              its pages                                                  *)
(*   "partial"  it cuts a paged file within a page                         *)
(***************************************************************************)
EXTENDS SharedPagers

CONSTANTS
  Paged,       \* the file under the paged file
  Cached,      \* the file under the cached file
  Values,      \* what clients write
  MaxLength,   \* bound: the cells of a file
  MaxUse,      \* bound: the uses of a pager
  Liberties

VARIABLES
  pg,          \* pager_: the page size of the paged file's pager, None if closed
  flen,        \* flen_
  curPos,      \* curPos_ of the cached file, None if closed
  wrote        \* history: whether the last step wrote cells

vars == <<disk, pagers, cachePg, pg, flen, curPos, wrote>>

None == -1

ASSUME PagedFileAssumption ==
  /\ Files = {Paged, Cached} /\ Paged # Cached
  /\ Values \subseteq Nat \ {Zero}
  /\ {MaxLength, MaxUse} \subseteq Nat
  /\ \A size \in PageSizes : MaxLength % size = 0

Init ==
  /\ disk = [f \in Files |-> <<>>]
  /\ cachePg \in PageSizes
  /\ pagers = NewPager(cachePg)
  /\ pg = None /\ flen = 0
  /\ curPos = 0
  /\ wrote = FALSE

InBound(page) == (page + 1) * pg <= MaxLength

\* Whether a client that leaves a pager takes everything of its file along.
LeavesNothing(size, f) == pagers[size].use = 1 \/ PagesFor(Stores, size, f) = {}

Unleaked(size) == size \in DOMAIN pagers => pagers[size].use < MaxUse

-----------------------------------------------------------------------------
(* The paged file.                                                         *)

\* (mutant) the page itself is not counted.
CheckLenBefore(page) == flen' = IF flen < page * pg THEN page * pg ELSE flen

\* checkLen_
CheckLen(page) == flen' = IF flen < (page + 1) * pg THEN (page + 1) * pg ELSE flen

WrapPaged(size) ==
  /\ pg = None /\ Unleaked(size)
  /\ Becomes(GetPager(Stores, size))
  /\ pg' = size /\ flen' = Len(disk[Paged])
  /\ wrote' = FALSE /\ UNCHANGED <<cachePg, curPos>>

FetchPage(page) ==
  /\ pg # None /\ InBound(page)
  /\ Becomes(Fetch(Stores, pg, Paged, page))
  /\ CheckLen(page)
  /\ wrote' = FALSE /\ UNCHANGED <<cachePg, pg, curPos>>

\* A client writes in a page it fetched, and marks it,
Overwritten(s, page, from, to, v) ==
  [s EXCEPT !.pagers[pg].pages[<<Paged, page>>] =
     [data |-> [i \in 1 .. pg |-> IF i \in from .. to THEN v ELSE @.data[i]], dirty |-> TRUE]]

PutFetched(page, v) ==
  /\ pg # None /\ InBound(page)
  /\ \E from \in 1 .. pg : \E to \in from .. pg :
       Becomes(Overwritten(Fetch(Stores, pg, Paged, page), page, from, to, v))
  /\ CheckLen(page)
  /\ wrote' = TRUE /\ UNCHANGED <<cachePg, pg, curPos>>

\* or fills one it faked.
PutFaked(page, v) ==
  /\ pg # None /\ InBound(page)
  /\ Becomes(Overwritten(Fake(Stores, pg, Paged, page), page, 1, pg, v))
  /\ CheckLen(page)
  /\ wrote' = TRUE /\ UNCHANGED <<cachePg, pg, curPos>>

Flush ==
  /\ pg # None
  /\ Becomes(Commit(Stores, pg, Paged))
  /\ wrote' = FALSE /\ UNCHANGED <<cachePg, pg, flen, curPos>>

ChsizePaged(newSize) ==
  /\ pg # None
  /\ "hasty" \in Liberties
       \/ \A k \in PagesFor(Stores, pg, Paged) :
            ~pagers[pg].pages[k].dirty /\ (k[2] + 1) * pg <= Len(disk[Paged])
  /\ "partial" \in Liberties \/ newSize % pg = 0
  /\ Becomes(Chsize(Stores, pg, Paged, newSize))
  /\ flen' = newSize
  /\ wrote' = FALSE /\ UNCHANGED <<cachePg, pg, curPos>>

\* close, or the destructor.  The use of the pager stays.
ClosePaged ==
  /\ pg # None
  /\ Becomes(Detach(Stores, pg, Paged))
  /\ pg' = None /\ flen' = 0
  /\ wrote' = FALSE /\ UNCHANGED <<cachePg, curPos>>

SetPageSizePaged(size) ==
  /\ pg # None /\ Unleaked(size)
  /\ "move" \in Liberties \/ LeavesNothing(pg, Paged)
  /\ Becomes(SetPageSize(Stores, pg, size))
  /\ pg' = size
  /\ wrote' = FALSE /\ UNCHANGED <<cachePg, flen, curPos>>

-----------------------------------------------------------------------------
(* The cached file.                                                        *)

WrapCached ==
  /\ curPos = None
  /\ curPos' = 0
  /\ wrote' = FALSE /\ UNCHANGED <<disk, pagers, cachePg, pg, flen>>

Seek(pos) ==
  /\ curPos # None
  /\ curPos' = pos
  /\ wrote' = FALSE /\ UNCHANGED <<disk, pagers, cachePg, pg, flen>>

Read(n) ==
  /\ curPos # None /\ curPos + n <= MaxLength
  /\ Becomes(CacheRead(Stores, cachePg, Cached, curPos, n))
  /\ curPos' = curPos + n
  /\ wrote' = FALSE /\ UNCHANGED <<cachePg, pg, flen>>

Write(n, v) ==
  /\ curPos # None /\ curPos + n <= MaxLength
  /\ Becomes(CacheWrite(Stores, cachePg, Cached, curPos, [i \in 1 .. n |-> v]))
  /\ curPos' = curPos + n
  /\ wrote' = TRUE /\ UNCHANGED <<cachePg, pg, flen>>

CommitCached ==
  /\ curPos # None
  /\ Becomes(Commit(Stores, cachePg, Cached))
  /\ wrote' = FALSE /\ UNCHANGED <<cachePg, pg, flen, curPos>>

\* The file itself is resized, whatever the cache holds.
ChsizeCached(newSize) ==
  /\ curPos # None
  /\ "bypass" \in Liberties \/ PagesFor(Stores, cachePg, Cached) = {}
  /\ Becomes(Resize(Stores, Cached, newSize))
  /\ wrote' = FALSE /\ UNCHANGED <<cachePg, pg, flen, curPos>>

CloseCached ==
  /\ curPos # None
  /\ Becomes(Detach(Stores, cachePg, Cached))
  /\ curPos' = None
  /\ wrote' = FALSE /\ UNCHANGED <<cachePg, pg, flen>>

\* setPageSize of the system cache.
SetPageSizeCache(size) ==
  /\ Unleaked(size)
  /\ "move" \in Liberties \/ LeavesNothing(cachePg, Cached)
  /\ Becomes(SetPageSize(Stores, cachePg, size))
  /\ cachePg' = size
  /\ wrote' = FALSE /\ UNCHANGED <<pg, flen, curPos>>

EvictPage == Evict /\ wrote' = FALSE /\ UNCHANGED <<pg, flen, curPos>>

Next ==
  \/ \E size \in PageSizes : WrapPaged(size) \/ SetPageSizePaged(size) \/ SetPageSizeCache(size)
  \/ \E page \in 0 .. MaxLength - 1 :
       FetchPage(page) \/ \E v \in Values : PutFetched(page, v) \/ PutFaked(page, v)
  \/ Flush \/ ClosePaged
  \/ \E newSize \in 0 .. MaxLength : ChsizePaged(newSize) \/ ChsizeCached(newSize)
  \/ WrapCached \/ CommitCached \/ CloseCached
  \/ \E pos \in 0 .. MaxLength - 1 : Seek(pos)
  \/ \E n \in 1 .. MaxLength : Read(n) \/ \E v \in Values : Write(n, v)
  \/ EvictPage

Spec == Init /\ [][Next]_vars

-----------------------------------------------------------------------------
TypeOK ==
  /\ PagersTyped
  /\ pg \in PageSizes \cup {None} /\ flen \in Nat
  /\ curPos \in 0 .. MaxLength \cup {None}
  /\ wrote \in BOOLEAN

\* A client's pager is never deleted under it: releasePager deletes a pager
\* with the last use (src/edbPagerMgr_imp.cpp:56), and each client, the cache
\* and the paged file, keeps a use of the pager it has through every change
\* of page size.
PagersLive ==
  LET clients(size) == (IF cachePg = size THEN 1 ELSE 0) + (IF pg = size THEN 1 ELSE 0)
  IN  /\ cachePg \in DOMAIN pagers
      /\ pg # None => pg \in DOMAIN pagers
      /\ \A size \in DOMAIN pagers : pagers[size].use >= clients(size)

\* length of a paged file (src/edbPagedFile_imp.cpp:92), which is kept beside
\* the file, is never less than the file is now or than it will be when the
\* pages that are dirty are written.
FlenCovers ==
  pg # None =>
    /\ flen >= Len(disk[Paged])
    /\ \A k \in PagesFor(Stores, pg, Paged) :
         pagers[pg].pages[k].dirty => flen >= (k[2] + 1) * pg

\* The cells of each file as its client sees them, and as they are on disk
\* when it has none.
Cells(f) ==
  LET cached(size) == [c \in 0 .. MaxLength - 1 |-> Seen(Stores, size, f, c + 1)]
      bare == [c \in 0 .. MaxLength - 1 |-> IF c < Len(disk[f]) THEN disk[f][c + 1] ELSE Junk]
  IN  IF f = Cached THEN cached(cachePg) ELSE IF pg # None THEN cached(pg) ELSE bare

\* Through changes of page size, evictions, commits and closes both files
\* hold what was written last, as a pager promises it for pages
\* (src/edbPager.h): only a write changes a cell, and only a cut takes one.
Store == INSTANCE PageStore WITH
           Pages <- 0 .. MaxLength - 1,
           pages <- [f \in Files |-> Cells(f)],
           sizes <- [f \in Files |-> Len(disk[f])]

Implements == Store!StoreSpec
=============================================================================
