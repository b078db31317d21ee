------------------------------- MODULE Pager --------------------------------
(***************************************************************************)
(* The page cache (src/edbPager_imp.cpp): a pool of slots, each as large   *)
(* as a page.  Clients ask for rows of pages that must be contiguous in    *)
(* memory, so consecutive slots form slot ranges: the first slot of a      *)
(* range is its master and keeps the length of the range and its lock and  *)
(* mark counts for all of it; a slot that is not a master has masters 0.   *)
(* Only masters are in addrmap_.                                           *)
(*                                                                         *)
(* A request for pages that are cached in other ranges cuts these: what is *)
(* before and after the request stays cached, the pages in common are      *)
(* joined where they are or copied to the place of the new range.          *)
(*                                                                         *)
(* Files keep the promise of module FlatFile and are rows of pages here.   *)
(* A page read past the end of its file is left as it was in memory:       *)
(* nothing is promised about it, and it is Junk.  mrulist_ and the weights *)
(* made of useno_ only order the candidates for replacement: any of them   *)
(* may be taken, and they are left out with the counters of statistics.    *)
(***************************************************************************)
EXTENDS Integers, Sequences, FiniteSets, FiniteSetsExt

CONSTANTS
  Files,        \* the files
  NoFile,       \* the file of a free slot
  MaxPage,      \* bound: the last page clients ask for
  MaxCount,     \* bound: the most pages in a row clients ask for
  PoolSizes,    \* the sizes given to the pool
  MarkMod,      \* markcnt_ is a number modulo this (2^32)
  MaxLock,      \* bound: how often clients lock a range
  Values, Zero, \* what clients write in a page; what a hole in a file holds
  Junk,         \* what is in a page nobody has written
  Liberties     \* what else clients do, see below

\* Without a liberty clients never
\*   "wrap"  join marked ranges until a mark count reaches its modulus,
\*   "full"  ask for cached pages for which there is no other place,
\*   "cut"   cut a file in the middle of a cached range.
ASSUME PagerAssumption ==
  /\ NoFile \notin Files
  /\ MaxPage \in Nat /\ MaxCount \in Nat \ {0}
  /\ PoolSizes \subseteq Nat \ {0} /\ PoolSizes # {}
  /\ MarkMod \in Nat \ {0, 1} /\ MaxLock \in Nat
  /\ Junk \notin Values /\ Zero \in Values \cup {Junk}
  /\ Liberties \subseteq {"wrap", "full", "cut"}

Pages == 0 .. MaxPage

VARIABLES
  slots,     \* pages_, with the contents of the arena
  addrmap,   \* addrmap_: (file, first page) -> master slot
  disk,      \* the pages of each file
  wrote      \* whether the last call was one that writes in pages

vars == <<slots, addrmap, disk, wrote>>

Cache == [slots |-> slots, addrmap |-> addrmap, disk |-> disk]

\* A slot on the free list; what it held is not looked at again.
FreeSlot == [free |-> TRUE, file |-> NoFile, page |-> 0, masters |-> 0,
             mark |-> 0, lock |-> 0, data |-> Junk]

Become(s) == slots' = s.slots /\ addrmap' = s.addrmap /\ disk' = s.disk

-----------------------------------------------------------------------------
(* Slot ranges.                                                            *)

\* getmaster_: the nearest master at or before a slot.
Master(sl, x) == Max({m \in 0 .. x : sl[m].masters > 0})

RangeOf(sl, m) == m .. m + sl[m].masters - 1

Key(sl, m) == <<sl[m].file, sl[m].page>>

AddMaster(am, sl, m) ==
  [k \in DOMAIN am \cup {Key(sl, m)} |-> IF k = Key(sl, m) THEN m ELSE am[k]]

RemoveMasters(am, sl, S) ==
  [k \in DOMAIN am \ {Key(sl, m) : m \in S} |-> am[k]]

MarkFree(sl, S) == [x \in DOMAIN sl |-> IF x \in S THEN FreeSlot ELSE sl[x]]

\* free_: whole ranges, by their masters.
FreeRanges(s, S) ==
  [s EXCEPT !.slots = MarkFree(s.slots, UNION {RangeOf(s.slots, m) : m \in S}),
            !.addrmap = RemoveMasters(s.addrmap, s.slots, S)]

\* dumpslots_: the files once the contents of these slots are written.
DumpSlots(d, sl, S) ==
  [f \in Files |->
     LET mine == {x \in S : sl[x].file = f}
         size == Max({Len(d[f])} \cup {sl[x].page + 1 : x \in mine})
     IN  [i \in 1 .. size |->
            IF \E x \in mine : sl[x].page = i - 1
            THEN sl[CHOOSE x \in mine : sl[x].page = i - 1].data
            ELSE IF i <= Len(d[f]) THEN d[f][i] ELSE Zero]]

\* dump_: the ranges of these masters that are marked are written and clean.
Dump(s, S) ==
  LET dirty == {m \in S : s.slots[m].mark > 0}
  IN  [s EXCEPT !.disk = DumpSlots(s.disk, s.slots,
                                   UNION {RangeOf(s.slots, m) : m \in dirty}),
                !.slots = [x \in DOMAIN @ |-> IF x \in dirty THEN [@[x] EXCEPT !.mark = 0]
                                                             ELSE @[x]]]

\* The masters of a file.
MastersOf(f) == {addrmap[k] : k \in {k \in DOMAIN addrmap : k[1] = f}}

-----------------------------------------------------------------------------
(* Requests that overlap cached ranges.                                    *)

\* (mutant) a range that starts before the request is not looked at.
OverlappingLater(s, f, p, n) ==
  {s.addrmap[k] : k \in {k \in DOMAIN s.addrmap : k[1] = f /\ k[2] \in p .. p + n - 1}}

\* The masters of the ranges that have a page in p .. p+n-1.
Overlapping(s, f, p, n) ==
  {s.addrmap[k] : k \in {k \in DOMAIN s.addrmap :
                           /\ k[1] = f /\ k[2] < p + n
                           /\ k[2] + s.slots[s.addrmap[k]].masters > p}}

\* hlpbuf_: the slots of these pages.
Common(s, f, p, n) ==
  {x \in UNION {RangeOf(s.slots, m) : m \in Overlapping(s, f, p, n)} :
     s.slots[x].page \in p .. p + n - 1}

ShrunkLate(first, next) == next - first + 1    \* (mutant) one too many

\* How many slots or pages a range keeps that is cut before `next`.
Shrunk(first, next) == next - first

\* The slots, at most one, of the page behind the request in a range it cuts.
Behind(s, f, p, n) ==
  {x \in UNION {RangeOf(s.slots, m) : m \in Overlapping(s, f, p, n)} : s.slots[x].page = p + n}

\* What is before and after the request become ranges of their own; the slots
\* in common have a mark count each and no master.
CutSlots(s, f, p, n) ==
  LET sl     == s.slots
      common == Common(s, f, p, n)
      behind == Behind(s, f, p, n)
      over   == Overlapping(s, f, p, n)
      Of(x)  == sl[Master(sl, x)]
  IN  [x \in DOMAIN sl |->
         IF x \in common THEN [sl[x] EXCEPT !.masters = 0, !.mark = Of(x).mark]
         ELSE IF x \in behind
         THEN [sl[x] EXCEPT !.masters = (Of(x).page + Of(x).masters) - (p + n),
                            !.mark = Of(x).mark]
         ELSE IF x \in over THEN [sl[x] EXCEPT !.masters = Shrunk(sl[x].page, p)]
         ELSE sl[x]]

\* process_overlaps_
ProcessOverlaps(s, f, p, n) ==
  LET cut    == CutSlots(s, f, p, n)
      behind == Behind(s, f, p, n)
      kept   == RemoveMasters(s.addrmap, s.slots,
                              {m \in Overlapping(s, f, p, n) : s.slots[m].page >= p})
  IN  [s EXCEPT !.slots = cut,
                !.addrmap = IF behind = {} THEN kept
                            ELSE AddMaster(kept, cut, CHOOSE x \in behind : TRUE)]

\* uninterrupted_hlp_range_, for all n pages of a request.
Uninterrupted(sl, common, n) ==
  /\ Cardinality(common) = n
  /\ \A x, y \in common : x - y = sl[x].page - sl[y].page

MarkSum(sl, common) == MapThenSumSet(LAMBDA x : sl[x].mark, common)

\* (mutant) only the first slot's mark count is carried.
CarriedFirst(sl, common) == IF common = {} THEN 0 ELSE sl[Min(common)].mark

Carried(sl, common) == MarkSum(sl, common) % MarkMod

\* assemble_hlp_slotrange_
Assemble(s, common) ==
  LET first == Min(common)
      sl    == [x \in DOMAIN s.slots |->
                  IF x = first THEN [s.slots[x] EXCEPT !.masters = Cardinality(common),
                                                       !.mark = Carried(s.slots, common)]
                  ELSE IF x \in common THEN [s.slots[x] EXCEPT !.mark = 0] ELSE s.slots[x]]
  IN  [s EXCEPT !.slots = sl, !.addrmap = AddMaster(@, sl, first)]

-----------------------------------------------------------------------------
(* Allocation.                                                             *)

\* (mutant) locks are not looked at.
AvailUnlocked(sl, at, n, common) ==
  /\ at + n - 1 \in DOMAIN sl
  /\ \A x \in at .. at + n - 1 : x \notin common

\* check_avail_left_
Avail(sl, at, n, common) ==
  /\ at + n - 1 \in DOMAIN sl
  /\ \A x \in at .. at + n - 1 :
       ~sl[x].free => x \notin common /\ sl[Master(sl, x)].lock = 0

\* lookupfree_: the new range starts at a free slot or at a master.
Places(s, n, common) ==
  {x \in {x \in DOMAIN s.slots : s.slots[x].free} \cup {s.addrmap[k] : k \in DOMAIN s.addrmap} :
     Avail(s.slots, x, n, common)}

RestNone(sl, hit, x) == {}    \* (mutant) what is behind the new range is forgotten

\* The range, if any, that goes on at slot x.
Rest(sl, hit, x) == {m \in hit : x \in RangeOf(sl, m)}

\* The masters of the ranges in the way of a new one.
Hit(sl, at, n) == {Master(sl, x) : x \in {x \in at .. at + n - 1 : ~sl[x].free}}

\* The new range in its place, and what is left of those in the way.
MadeRange(sl, hit, at, n) ==
  [x \in DOMAIN sl |->
     IF x \in at .. at + n - 1
     THEN [sl[x] EXCEPT !.free = FALSE, !.mark = 0, !.masters = IF x = at THEN n ELSE 0]
     ELSE IF x \in hit THEN [sl[x] EXCEPT !.masters = Shrunk(x, at)]
     ELSE IF x = at + n /\ Rest(sl, hit, x) # {}
     THEN LET m == Master(sl, x)
          IN  [sl[x] EXCEPT !.masters = (m + sl[m].masters) - x, !.mark = sl[m].mark]
     ELSE sl[x]]

\* makerange_: the ranges in the way are cut, and what is dirty of them within
\* the new range is written.
MakeRange(s, at, n) ==
  LET sl   == s.slots
      row  == at .. at + n - 1
      hit  == Hit(sl, at, n)
      made == MadeRange(sl, hit, at, n)
      kept == RemoveMasters(s.addrmap, sl, hit \cap row)
  IN  [slots |-> made,
       addrmap |-> IF Rest(sl, hit, at + n) = {} THEN kept
                   ELSE AddMaster(kept, made, at + n),
       disk |-> DumpSlots(s.disk, sl, {x \in row : ~sl[x].free /\ sl[Master(sl, x)].mark > 0})]

\* read_: what is in the file.
Stored(d, f, p) == IF p < Len(d[f]) THEN d[f][p + 1] ELSE Junk

CopiesNone(sl, common, q) == {}    \* (mutant) pages in common are read again

\* The slot in common that holds page q.
Copies(sl, common, q) == {x \in common : sl[x].page = q}

\* The slots from `at` hold the row of pages from p on, which data and mark
\* are given of; the slots in common are free.
FillRange(s, at, n, f, p, common, data, mark) ==
  LET sl == [x \in DOMAIN s.slots |->
               IF x \in at .. at + n - 1
               THEN [s.slots[x] EXCEPT !.file = f, !.page = p + x - at,
                                       !.data = data[p + x - at],
                                       !.mark = IF x = at THEN mark ELSE 0]
               ELSE s.slots[x]]
  IN  [s EXCEPT !.slots = MarkFree(sl, common), !.addrmap = AddMaster(@, sl, at)]

\* fill_: the pages in common are copied, the others read.
Fill(s, at, n, f, p, common) ==
  LET sl == s.slots
      Contents(q) == IF Copies(sl, common, q) # {}
                     THEN sl[CHOOSE x \in Copies(sl, common, q) : TRUE].data
                     ELSE Stored(s.disk, f, q)
  IN  FillRange(s, at, n, f, p, common, [q \in p .. p + n - 1 |-> Contents(q)],
                Carried(sl, common))

-----------------------------------------------------------------------------
(* The interface.  `lk` asks for the range to be locked.                   *)

Locked(sl, m, lk) == IF lk THEN [sl EXCEPT ![m].lock = @ + 1] ELSE sl

CanLock(sl, m, lk) == lk => sl[m].lock < MaxLock

\* A request for exactly the pages of a range.
Exact(f, p, n) == <<f, p>> \in DOMAIN addrmap /\ slots[addrmap[<<f, p>>]].masters = n

\* Other requests: clients do not ask for pages of a locked range ("overlap
\* with locked slotrange" is an error in the debugging build).
Other(f, p, n) ==
  /\ p + n - 1 \in Pages
  /\ ~Exact(f, p, n)
  /\ \A m \in Overlapping(Cache, f, p, n) : slots[m].lock = 0

Joins(f, p, n) ==
  Uninterrupted(slots, Common(Cache, f, p, n), n)

\* The mark counts of ranges that are joined add up to the modulus only where
\* clients take that liberty; no client marks a range that often.
MarksFit(sum) == sum < MarkMod \/ "wrap" \in Liberties
CanMark(m)    == slots[m].mark + 1 < MarkMod

FetchHit(f, p, n, lk) ==
  /\ Exact(f, p, n)
  /\ LET m == addrmap[<<f, p>>]
     IN  /\ CanLock(slots, m, lk)
         /\ slots' = Locked(slots, m, lk)
  /\ wrote' = FALSE
  /\ UNCHANGED <<addrmap, disk>>

\* All pages are cached in a row: their ranges are joined where they are.
FetchJoin(f, p, n, lk) ==
  /\ Other(f, p, n)
  /\ Joins(f, p, n)
  /\ LET cut == ProcessOverlaps(Cache, f, p, n)
         common == Common(Cache, f, p, n)
         s == Assemble(cut, common)
     IN  /\ MarksFit(MarkSum(cut.slots, common))
         /\ CanLock(s.slots, Min(common), lk)
         /\ Become([s EXCEPT !.slots = Locked(@, Min(common), lk)])
  /\ wrote' = FALSE

FetchMiss(f, p, n, lk) ==
  /\ Other(f, p, n)
  /\ ~Joins(f, p, n)
  /\ LET cut == ProcessOverlaps(Cache, f, p, n)
         common == Common(Cache, f, p, n)
     IN  /\ MarksFit(MarkSum(cut.slots, common))
         /\ \E at \in Places(cut, n, common) :
              LET s == Fill(MakeRange(cut, at, n), at, n, f, p, common)
              IN  /\ CanLock(s.slots, at, lk)
                  /\ Become([s EXCEPT !.slots = Locked(@, at, lk)])
  /\ wrote' = FALSE

\* lookupfree_ throws NoCacheSpace when the overlaps have been processed.
NoCacheSpace(f, p, n) ==
  /\ Other(f, p, n)
  /\ LET cut == ProcessOverlaps(Cache, f, p, n)
         common == Common(Cache, f, p, n)
     IN  /\ Places(cut, n, common) = {}
         /\ common = {} \/ "full" \in Liberties
         /\ Become(cut)
  /\ wrote' = FALSE

FetchFails(f, p, n) == ~Joins(f, p, n) /\ NoCacheSpace(f, p, n)
FakeFails(f, p, n)  == NoCacheSpace(f, p, n)

\* Slots D of a range are written and the range is marked.
WithData(sl, D, m, v) ==
  [x \in DOMAIN sl |-> [sl[x] EXCEPT !.data = IF x \in D THEN v ELSE @,
                                     !.mark = IF x = m THEN @ + 1 ELSE @]]

\* A page of a range is written through its address, and the range marked.
Put(m, x, v) ==
  /\ m \in {addrmap[k] : k \in DOMAIN addrmap} /\ x \in RangeOf(slots, m)
  /\ CanMark(m)
  /\ slots' = WithData(slots, {x}, m, v)
  /\ wrote' = TRUE
  /\ UNCHANGED <<addrmap, disk>>

\* fake() returns pages to be overwritten completely: its callers do so, and
\* mark them, before they call anything else.
Overwritten(sl, m, v) == WithData(sl, RangeOf(sl, m), m, v)

FakeHit(f, p, n, v) ==
  /\ Exact(f, p, n)
  /\ LET m == addrmap[<<f, p>>]
     IN  /\ CanMark(m)
         /\ slots' = Overwritten(slots, m, v)
  /\ wrote' = TRUE
  /\ UNCHANGED <<addrmap, disk>>

\* fakefill_: nothing is copied or read, and no mark is carried.
FakeMiss(f, p, n, v) ==
  /\ Other(f, p, n)
  /\ LET cut == ProcessOverlaps(Cache, f, p, n)
         common == Common(Cache, f, p, n)
     IN  \E at \in Places(cut, n, common) :
           LET s == FillRange(MakeRange(cut, at, n), at, n, f, p, common,
                              [q \in p .. p + n - 1 |-> Junk], 0)
           IN  Become([s EXCEPT !.slots = Overwritten(@, at, v)])
  /\ wrote' = TRUE

Lock(m) ==
  /\ m \in {addrmap[k] : k \in DOMAIN addrmap}
  /\ CanLock(slots, m, TRUE)
  /\ slots' = Locked(slots, m, TRUE)
  /\ wrote' = FALSE
  /\ UNCHANGED <<addrmap, disk>>

UnlockBelow(n) == n - 1    \* (mutant) below zero

\* unlock_ and unmark_ do nothing at zero.
Less(n) == IF n > 0 THEN n - 1 ELSE 0

Unlock(m) ==
  /\ m \in {addrmap[k] : k \in DOMAIN addrmap}
  /\ slots' = [slots EXCEPT ![m].lock = Less(@)]
  /\ wrote' = FALSE
  /\ UNCHANGED <<addrmap, disk>>

\* Clients unmark only what is on disk or marked more than once.
Unmark(m) ==
  /\ m \in {addrmap[k] : k \in DOMAIN addrmap}
  /\ \/ slots[m].mark # 1
     \/ \A x \in RangeOf(slots, m) :
          slots[x].data = Stored(disk, slots[x].file, slots[x].page)
  /\ slots' = [slots EXCEPT ![m].mark = Less(@)]
  /\ wrote' = FALSE
  /\ UNCHANGED <<addrmap, disk>>

Commit(f) ==
  /\ Become(Dump(Cache, MastersOf(f)))
  /\ wrote' = FALSE

\* detach, and what close does of it, frees the ranges of a file; clients have
\* unlocked them before.
Detach(f) ==
  /\ \A m \in MastersOf(f) : slots[m].lock = 0
  /\ Become(FreeRanges(Dump(Cache, MastersOf(f)), MastersOf(f)))
  /\ wrote' = FALSE

\* Cached ranges that start past the new end are freed and not written.
Chsize(f, size) ==
  LET past == {m \in MastersOf(f) : slots[m].page >= size}
      s    == IF size < Len(disk[f]) THEN FreeRanges(Cache, past) ELSE Cache
  IN  /\ size < Len(disk[f]) =>
           /\ \A m \in past : slots[m].lock = 0
           /\ \/ "cut" \in Liberties
              \/ \A m \in MastersOf(f) \ past : slots[m].page + slots[m].masters <= size
      /\ Become([s EXCEPT !.disk[f] = [i \in 1 .. size |-> IF i <= Len(@) THEN @[i] ELSE Zero]])
      /\ wrote' = FALSE

\* setPoolSize writes everything and starts again with slots that are all free.
SetPoolSize(size) ==
  /\ size # Cardinality(DOMAIN slots)
  /\ \A x \in DOMAIN slots : slots[x].lock = 0
  /\ disk' = Dump(Cache, {addrmap[k] : k \in DOMAIN addrmap}).disk
  /\ slots' = [x \in 0 .. size - 1 |-> FreeSlot]
  /\ addrmap' = << >>
  /\ wrote' = FALSE

Counts == 1 .. MaxCount

Init ==
  /\ \E size \in PoolSizes : slots = [x \in 0 .. size - 1 |-> FreeSlot]
  /\ addrmap = << >>
  /\ disk = [f \in Files |-> << >>]
  /\ wrote = FALSE

Next ==
  \/ \E f \in Files, p \in Pages, n \in Counts, lk \in BOOLEAN :
       FetchHit(f, p, n, lk) \/ FetchJoin(f, p, n, lk) \/ FetchMiss(f, p, n, lk)
  \/ \E f \in Files, p \in Pages, n \in Counts : FetchFails(f, p, n) \/ FakeFails(f, p, n)
  \/ \E f \in Files, p \in Pages, n \in Counts, v \in Values :
       FakeHit(f, p, n, v) \/ FakeMiss(f, p, n, v)
  \/ \E m \in DOMAIN slots : Lock(m) \/ Unlock(m) \/ Unmark(m)
  \/ \E m, x \in DOMAIN slots, v \in Values : Put(m, x, v)
  \/ \E f \in Files : Commit(f) \/ Detach(f)
  \/ \E f \in Files, size \in 0 .. MaxPage + 1 : Chsize(f, size)
  \/ \E size \in PoolSizes : SetPoolSize(size)

Spec == Init /\ [][Next]_vars

-----------------------------------------------------------------------------
(* Properties.                                                             *)

Used    == {x \in DOMAIN slots : ~slots[x].free}
Masters == {x \in Used : slots[x].masters > 0}

\* Everything is of its type; in particular no count drops below zero.
TypeOK ==
  /\ slots \in [DOMAIN slots -> [free : BOOLEAN, file : Files \cup {NoFile}, page : Pages,
                                masters : 0 .. MaxCount, mark : 0 .. MarkMod - 1,
                                lock : 0 .. MaxLock, data : Values \cup {Junk}]]
  /\ DOMAIN addrmap \subseteq Files \X Pages
  /\ \A k \in DOMAIN addrmap : addrmap[k] \in DOMAIN slots
  /\ \A f \in Files : disk[f] \in Seq(Values \cup {Junk})
  /\ wrote \in BOOLEAN

\* Every slot that is used is in a range, so that it can be replaced some day:
\* cutting and joining ranges loses none.
NoSlotLost == \A x \in Used : \E m \in Masters : x \in RangeOf(slots, m)

\* Ranges hold consecutive pages of one file and end before the next range,
\* and addrmap_ finds exactly the masters, under their first pages.
RangesWhole ==
  /\ \A m \in Masters : \A x \in RangeOf(slots, m) :
       /\ x \in Used /\ (x # m => slots[x].masters = 0)
       /\ slots[x].file = slots[m].file /\ slots[x].page = slots[m].page + x - m
  /\ DOMAIN addrmap = {Key(slots, m) : m \in Masters}
  /\ \A m \in Masters : addrmap[Key(slots, m)] = m

\* No page is cached twice, or one of the copies would go stale.
CachedOnce ==
  \A x, y \in Used : slots[x].file = slots[y].file /\ slots[x].page = slots[y].page => x = y

\* A cached page that is not what is on disk is in a marked range: cutting,
\* joining and moving ranges loses no mark, so no write is forgotten.
DirtyIsMarked ==
  \A m \in Masters : slots[m].mark = 0 =>
    \A x \in RangeOf(slots, m) :
      slots[x].data \in Values => slots[x].data = Stored(disk, slots[x].file, slots[x].page)

\* "locks the page(s) in memory": the pages of a locked range stay in their
\* slots, whatever clients do, until they unlock it.
LockedStays ==
  [][\A m \in DOMAIN slots : slots[m].lock > 0 =>
       /\ m \in DOMAIN slots' /\ Key(slots', m) = Key(slots, m)
       /\ slots'[m].masters = slots[m].masters /\ slots'[m].lock >= slots[m].lock - 1]_vars

Holds(x, f, p) == ~slots[x].free /\ slots[x].file = f /\ slots[x].page = p

\* What a client sees in a page, in the cache if it is there.
View(f, p) ==
  IF \E x \in DOMAIN slots : Holds(x, f, p)
  THEN slots[CHOOSE x \in DOMAIN slots : Holds(x, f, p)].data ELSE Stored(disk, f, p)

\* The pager is transparent: whatever is replaced, cut, joined, committed or
\* detached, every page reads as it was written last.
Store == INSTANCE PageStore WITH
  pages <- [f \in Files |-> [p \in Pages |-> View(f, p)]],
  sizes <- [f \in Files |-> Len(disk[f])]

ImplementsPageStore == Store!StoreSpec

\* chsize "changes size of a file and releases cache pages which are no longer valid".
CutReleases ==
  [][\A f \in Files : Len(disk'[f]) < Len(disk[f]) =>
       \A x \in Used' : slots'[x].file = f => slots'[x].page < Len(disk'[f])]_vars

=============================================================================
