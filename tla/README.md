# TLA+ models of the edb library

edb is a small embedded database library in C++: files kept in parts, a pool of
OS handles, a page cache, record storages and a B-tree. It is a single-threaded
library. What makes it hard is not concurrency but state that lives in several
places at once (a file pointer in a handle and in a slot, a page in a file and
in the cache, a block in the file and in a free list) and must agree after any
sequence of legal calls.

The models here are written from the code. `PROJECT.json` names, for every
definition, the lines it stands for.

## 1. Inventory

The layers, from the bottom up. Calls go downwards only; there are no callbacks.
Shared state between clients of a layer is what the layer caches: several files
share one handle manager and one pager.

    B-tree                 records of variable / fixed length
      |                        |            |
    PagedFile              CachedFile   (or any File)
      |                        |
      |                    SimpleCache
      +------- Pager ----------+       PagerMgr shares pagers by page size
                 |
             SplitFile                 (the only File that is built)
                 |
           FileHandleMgr
                 |
            OS handles

| component | state | operations | hard behaviour | correct when |
|---|---|---|---|---|
| File handle manager (`edbFileHandleMgr*`) | slots with name, handle, saved position; list of open handles in MRU order; pool size | open, create, close, handle, setPoolSize | handles are closed and reopened behind the clients' backs; reopening may fail | each file keeps its file pointer; the list is exact; no more handles than the pool allows |
| Split file and factory (`edbSplitFile*`) | parts of `SPLIT_FACTOR` bytes, a file pointer each, curPos_, curFile_, cpsync_, length_ | open, create, read, write, seek, chsize, close, erase | each part keeps the pointer the last operation left; cpsync_ says whether it may be trusted | the parts behave as one file of bytes with one position |
| Pager (`edbPager*`) | page slots with file, page, lock and mark counts, ranges of slots; address map; free and MRU lists | fetch, fake, lock, unlock, mark, unmark, commit, chsize, detach, close, setPoolSize | rows of pages must be contiguous: ranges are cut, joined, moved and replaced | every page reads as it was written last; locked pages stay; no slot is lost |
| Pager manager (`edbPagerMgr*`, `edbThePagerMgr`) | pagers by page size with use counts | getPager, releasePager | uses that are never given back | a pager lives as long as it is used |
| Cached file, simple cache, system cache (`edbCachedFile*`, `edbSimpleCache*`, `edbSystemCache`) | a position; the pager | read, write, seek, length, chsize, commit, close | reads and writes go through the cache, length and chsize do not | bytes read are the bytes written |
| Paged file (`edbPagedFile*`) | flen_, the pager | fetch, fake, lock, mark, flush, chsize, setPageSize, close | the length counts pages that are not in the file yet; setPageSize changes the pager | as for the pager, and the length covers every page asked for |
| Variable-length records (`edbVStorage*`) | blocks with headers in the file, free lists by bands of length, totals | alloc, add, realloc, slice, read, write, free, iteration, isValid, close, wrap | coalescing, splitting and moving of blocks whose headers link each other | blocks tile the file, no two free ones in a row, free lists and totals exact, contents kept |
| Fixed-length records (`edbFStorage*`) | header with two counters in memory; a flag per record in the file | alloc, add, read, write, free, flush, close, wrap | counters in memory, flags in the file | a record number names one record |
| B-tree (`edbBTree*`) | nodes in pages, master page with a chain of free nodes, handlers per kind of key | find, insert, remove, cursors, attach, init | splits, rotation, counters, dangling references | keys ordered, counters right, leaves reachable |

Not part of the system's logic: exception classes, type names and system-call
wrappers (`edbError`, `edbTypes.h`, `portability.h`, `i64out`), interfaces that
nothing implements (`edbTable.h`, `edbIndex.h`, `edbRecStorage.h`,
`edbIdMap.h`), files that are not in the Makefile's `LIB_MODULES` (the dummy
cache and buffered file, the simple pager, the VL caches, `edbPagedCache_imp`),
the Python wrapper and the test driver.

`PROJECT.json` lists the hazards, each at its line with the properties that
guard against it, or with a note that says why none does.

## 2. Plan

Bottom-up in what matters most: first the parts whose state machine is largest
and whose faults destroy data. All of the models are written:

1. `VStorage` (allocator and contents), with `RecordStore` as what it promises.
2. `FileHandleMgr` with `FilePointers`, and `FileHandleMgrProofs`.
3. `SplitFile` over those pointers, with `FlatFile`.
4. `Pager` over flat files, with `PageStore`.
5. `SharedPagers` (pager manager and simple cache) as operators; over it
   `PagedFile`, which composes a paged file and a cached file and implements
   `PageStore` again, cell by cell.
6. `FStorage` over the same cache, with `RecordNumbers`.
7. `BTree` over pages, with `SortedIndex`.

Each layer is modelled over the promise of the one below and not over its
detailed module: `SplitFile` over the pointers of `FilePointers`, `Pager` over
the bytes of `FlatFile`, `SharedPagers` and `BTree` over the pages of
`PageStore`.

Theorems, in this order: the handle manager; `SplitFile` down to
`ImplementsFlatFile`; `PagedFile` over the facts about `SharedPagers`, down to
both `PageStore`s; `Pager`, where `RangesWhole`, `CachedOnce` and `NoSlotLost`
are one inductive statement (ranges partition the used slots), then
`LockedStays`, `DirtyIsMarked` and `PageStore`; `FStorage` over the same facts
about `SharedPagers`; the layout of `VStorage`, over an explicit set of blocks
instead of a walk, then the contents of its records and `RecordStore`. These are
done. Next: of `BTree`, that the steps which change
one node keep it ordered. Not modelled yet and worth it: the range index of the
B-tree.

## 3. Modules and code

In every module an operation that returns an error or throws before it changed anything is no step,
and one that throws after it has changed something is an action of its own.
A definition marked `(mutant)` is a plausible mistake in the definition that
follows it; no specification uses it, it is there to show that a property
notices.

### VStorage, RecordStore, MCVStorage, VStorageProofs, VStorageContentsProofs

The file is a function from cells to header fields, FreePos fields, record data
or `Junk`. A header takes `BH` cells and a FreePos `FP`, with its fields in the
first cell, so overwriting a header by data, or reading a stale one, happens in
the model as in the file. `hdr` and `bands` are what `FileHdr` and the band
array hold in memory. Each method of `VStorage_imp` is an operator from storage
state to storage state (`FreeRec`, `AllocRec`, `ReallocRec`, `SliceRec` with
their helpers `FreeRemoveRec`, `FreeAdd`, `SplitFree`, `SplitUsed`,
`ResizeLast`, `ResizeMid`, `JoinBlocks`, `MoveAndFill`, ...) and an action that
applies it (`Alloc`, `Add`, `WriteRec`, `Free`, `Realloc`, `Slice`,
`SliceFails`, `Close`, `Wrap`). Clients pass locators of records they own.

Abstractions. Offsets count from the first block. The model does not keep the
physical length of the file: a slice that copies beyond the sentinel may throw
or not (`SliceFails`), depending on it. The gap that a slice with an offset
beyond the record leaves holds `Junk`. With `Residue = FALSE` bytes in free
space are forgotten, which no operation can tell except `isValid` on a stale
locator; with `Residue = TRUE` they stay. `Close` is complete: a crash without
a close is not modelled, because no operation recovers from it.

`RecordStore` is the promise: a map from locators to contents; creating,
writing, resizing, splicing or freeing one record leaves the others alone; a
write changes the cells it is given and no more; a record only moves to a
locator that is free. Cells nobody wrote are promised nothing. The map of the
model is `Contents`: the walk through the blocks gives its locators, the headers
their lengths.

### FileHandleMgr, FilePointers, FileHandleMgrProofs

`files` is `files_` with `open` for `handle_ # -1`; `mru` is `mru_`; `ospos` is
the place of the OS file pointer of each open handle. `handle(fid)` is three
actions: `HandleHit`, `HandleMiss` (which drops the least recently used handle
and saves its position when the pool is full) and `HandleFails` (the reopen
fails after the drop). `Move` is what a client does with the handle it was given
last; older handles may be closed already, and no code of the library uses them.
`Remove` takes a file away from the directory, so that a reopen can fail.

`FilePointers` promises a file pointer per managed file, moved by its client
only, and only of the file handed out last.

### SplitFile, FlatFile, SplitFileProofs

The parts are `disk`, and `ptr` is the file pointer the handle manager keeps of
each part, as `FilePointers` promises. `Read`, `Write`, `Seek`, `Chsize`,
`Open`, `Create`, `Close` and `Erase` are the methods of `SplitFile_imp` and its
factory, each a single action: nothing runs between the parts of an operation.
A read of a part that turns out too short throws after pointers have moved; that
is part of `Read`.

Abstractions: disk-full errors, writes and reads of no bytes, and the handles an
`open` that throws leaves behind are left out. `PastEnd = FALSE` keeps clients
from reading past the end while `cpsync_` is set, which is where the code is
wrong (section 6); `PastEnd = TRUE` lifts that.

`FlatFile` promises a row of bytes with a position, zeros in holes, and its
bytes back after closing and opening.

### Pager, PageStore, PagerProofs

`slots` is `pages_` with the contents of the arena, `addrmap` is `addrmap_`.
The helpers carry the names of the methods: `ProcessOverlaps` cuts the cached
ranges a request overlaps, `Assemble` joins them where they lie, `Places` and
`MakeRange` find and clear slots, `Fill` copies and reads. A request is a hit
(`FetchHit`, `FakeHit`), a join in place (`FetchJoin`), a miss (`FetchMiss`,
`FakeMiss`), or it throws `NoCacheSpace` (`FetchFails`, `FakeFails`). `Put` is a
client that writes in a page it has and marks it.

Abstractions. Files are rows of whole pages that keep the promise of `FlatFile`,
and do not fail. The weights and the MRU order choose among candidates for
replacement: any candidate may be chosen, so the properties hold for every
policy. `fake()` includes what all its callers in the library do next, overwrite
the pages and mark them. Clients lock and unlock, but do not ask for rows that
cut a locked range, nor detach, cut off or resize the pool over a locked range
(the debugging build refuses this, the other does not check). `close` is
`Detach` and the closing of the file.

`Liberties` names what clients do where the code is wrong (section 6): `"wrap"`,
`"full"` and `"cut"`. Without liberties the guards named in `MarksFit`,
`NoCacheSpace` and `Chsize` keep clients from it.

`PageStore` promises that every page holds what was written in it last; only a
write changes a page, and only a step that makes its file shorter takes pages
away, those past its new end. `wrote` tells the steps of clients that write from
the others.

### SharedPagers, PagedFile, SharedPagersProofs, PagedFileProofs

`SharedPagers` has no specification of its own: it holds the variables `disk`
(the files, as cells), `pagers` (`pagers_`, each with its uses and its pages)
and `cachePg` (the pager of the system cache), and operators named for the
methods, `GetPager`, `ReleasePager`, `Fetch`, `Fake`, `Commit`, `Detach`,
`Chsize`, `CacheRead`, `CacheWrite`. A pager is here what `Pager` shows to
implement, pages with contents and a dirty flag; where slots lie and which range
goes first is left out, and `Evict` may write and drop any page at any time.
Locks keep pages in place and change no contents, so they are left out. A page
past the end of its file holds what was in memory before (`Junk`): `read_` does
not clear it.

`PagedFile` composes one client of each kind: `pg` and `flen` are `pager_` and
`flen_` of a paged file, `curPos` is `curPos_` of a cached one. Every method of
both is an action, and `SetPageSizePaged`, `SetPageSizeCache` change the pager
of one while the other may use the same. `wrap` takes a use that `close` does not give
back, as in the code. `PutFetched` and `PutFaked` are a client that fetches or
fakes a page, writes in it and marks it.

What the code leaves to clients is in `Liberties`, and a run has none of it:
`"move"` changes the page size while the old pager keeps pages of the file,
`"bypass"` resizes a cached file that has pages in the cache, `"hasty"` resizes a
paged file with pages not flushed, `"partial"` cuts a paged file within a page.
None is an idle rule: with `"move"`, `"bypass"` or `"partial"` TLC finds
`Implements` violated, with `"move"` or `"hasty"` `FlenCovers`.

### FStorage, RecordNumbers, FStorageProofs

`hdr` holds the two counters of `hdr_`; the header in the file takes five cells,
one for each field, and then follow the client's cells and the records, a flag
cell and the data. Each method seeks before it reads or writes, so the position
of the cached file is left out. `readRec`, `writeRec` and `freeRec` of a free
record are `Refused`; those of a number never given return at once and are no
step. `InitStorage` may be called again on a file that was used, while the cache
has pages of it: it cuts the file under them, and every cell that is read later
has been written again first, which is why nothing old comes back.

`RecordNumbers` promises numbers in the order of allocation, the last contents
written, a freed number never in use again, and a count.

### BTree, SortedIndex

`nodes` maps pages to nodes: keys, references and counts, and the links to both
neighbours. `free` is the chain of free pages and `flen` the number of pages.
The helpers carry the names of the methods: on the way down `Makeroom` calls
`Rotated` (even a node out with a neighbour: `MoveLeft`, `MoveRightLeaf`,
`MoveRightInner`; or make three of two: `AddChild`) or `SplitRoot`, and
`IncrementCounter` follows the trace up; removal is `RemoveEntries`, leaf by leaf
with `ReclaimNodeChain`, then `DecrementCounter` with `RemoveLeftKeys`.
`Find`, `FindFirst` (by the first part of a key), `FindByPos`, `GetPos` and
`StepCursor` are reads. `Insert`, `RemoveFrom`, `BeginOf`, `BeginAt`, `Fetch` and
`Drop` are the calls.

Abstractions. A node is full by its number of keys: entries have one length, as
in the fixed-length handlers. Values of a unique index go where their keys go.
In an index with duplicates an entry is the pair, and the comparison of fewer
bytes than the pair has is modelled by what it compares. References are taken
modulo `RefMod`, for 48 bits. Overlapping copies within a node act like a move.

What further calls lead to is reached with `Liberties` only: `"empty"` (remove the
last entry of a leaf that has others to its right, which frees the leaf, and an
inner node with its last leaf), `"drain"` (remove the last entry of the last leaf,
which stays), `"drifted"` (remove when counts are wrong), `"backward"` (walk
backwards) and `"again"` (insert a pair twice where duplicates are allowed).
`btree_deep` takes `"empty"`, the passing runs none of the others, since the code
breaks on them; section 6 says how. No client both walks and empties leaves: a
cursor keeps a page, and reads on in it after it was freed. Nor is a
leaf emptied when that frees more than `MaxFree` pages in all.

`SortedIndex` promises a set of entries; a duplicate is refused; a query removes
the entries from its first on; nothing is reported broken.

## 4. Runs

| run | instance | what it shows |
|---|---|---|
| `vstorage_layout` | 18 cells, header 2, FreePos 1, bands of 3 and 1, lengths 0, 1, 3, 5, no data | blocks tile the file (`BlocksTile`), no free block has a free neighbour or is the last (`Coalesced`), lists hold exactly the free blocks of their band in both directions (`BandsLinked`), totals are right (`Accounted`) |
| `vstorage_content` | 8 cells, header 1, FreePos 1, two values | `ReallocKeepsContents` and `SliceSplices` in every reachable state for every argument; the storage implements `RecordStore` |
| `vstorage_isvalid` | 6 cells, residue kept | finding 1 |
| `handles` | 3 slots, 2 names, 2 places, pool sizes 0 to 3 | the list of handles is exact (`MruIsOpen`), a step that does not shrink the pool never takes the handles beyond it (`PoolKept`), the manager implements `FilePointers` |
| `splitfile` | parts of 2 bytes, 5 bytes, reads and writes of 1 to 3 | parts are full and the length right (`PartsWhole`), reads return what is there (`ReadsRight`), the parts implement `FlatFile` |
| `splitfile_sync` | the same, `PastEnd` | finding 2 |
| `pager` | one file, pages 0 to 2, rows of up to 3, pools of 1 and 3 slots, mark counts modulo 3, one lock | no slot is lost, ranges are whole and found, pages cached once, changed pages marked, locked pages stay, `PageStore` is implemented |
| `pagedfile` | two files of up to 2 cells, page sizes 1 and 2, two uses of a pager, two pages in memory | no pager is deleted under a client (`PagersLive`), a paged file's length covers what is on disk and what is dirty (`FlenCovers`), both files implement `PageStore` cell by cell |
| `fstorage` | pages of 2 cells, 3 in memory, header 5 and 2, two records of 1 | the storage implements `RecordNumbers`; after flush and close the disk has the counts, flags and data (`FlushedRight`) |
| `btree` | entries 1 to 8 in pairs with the same first part, 4 keys in a node, 5 in the root leaf, removals of 1 and 2 | built up from nothing in every order: ordered, linked and filled (`WellFormed`), every entry found and no other, and one that is there refused (`Found`), positions right where counts are, and found but for first entries of leaves (`PositionsRight`), steps in order (`StepsInOrder`), `SortedIndex` implemented |
| `btree_deep` | 45 entries inserted first, two levels of inner nodes; then entries 1 and 45 inserted and removed, removals of 1 and 2 until 7 pages are free, or one walk from an end or the middle | the same shape two levels up, with leaves and inner nodes freed and references that dangle (`WellFormed`); each of the 47 entries found when it is there and only then (`Found`); removals leave right counts right (`RemovesKeepCounts`); walks end (`WalkEnds`) |
| `btree_counts` | as `btree` | finding 3 |

Why the bounds are enough.

- *VStorage.* All choices of `freeRec` and the resizes depend on a block, its two
  neighbours and the sentinel. Lengths 0, 1 and 3 with bands 3 and 1 make free
  blocks that are in no list, in the lower and in the upper band; the remainder
  of a split falls below, on and above what a header and a FreePos need. Length 5
  makes the slice that allocates a block and then fails in copying (`SliceFails`),
  after which the block is still accounted for. The
  longer file holds five blocks, so a middle block has a complete neighbourhood on
  both sides, and lists of two and more elements occur. The content run needs
  fewer blocks but records whose data moves over itself in both directions.
- *Handles.* Three slots and a pool of two make a drop, a reopen and a reuse of a
  closed slot. Pool sizes pass the number of open handles in both directions, and
  0 is refused.
- *SplitFile.* Five bytes are three parts, the last half full, so an operation can
  start, end and pass exactly at a boundary, leave a hole over a whole part and
  cross two boundaries. Only equality of bytes matters; 0 and 1 tell a written
  byte from a hole.
- *Pager.* Three pages and three slots make every way in which one request can
  overlap others: before, after, both, inside, several. Pool size 1 makes
  requests that cannot be met and changes the pool size. One written value is
  enough: the control never looks at data, and a write that is lost shows as
  `Junk`, since a file that is made longer has `Junk` in its new pages
  (`Zero = Junk`). One file is enough since ranges of different files meet only in
  replacement, which does not look at the file. Mark counts: `MarkMod` stands for
  2^32; under the guard of `MarksFit` counts 0, 1 and 2 tell clean, dirty, and
  dirty in more than one way.
- *PagedFile.* Pages of one and of two cells lie over the same cells, so a page
  left in one pager overlaps others in the next. Two uses are what two clients of
  one pager, or a client and a use never given back, make. Here zeros of a file
  that was made longer, junk and the written value differ, so a stale or lost
  page shows.
- *FStorage.* The header ends in the middle of a page and so does every record,
  so each write shares its first and last page with others; the header dump
  covers three pages, the middle one faked. One value for data is enough since the
  flags and the counts are cells that are written again with other values.
- *BTree.* Eight entries in nodes of four keys split the root leaf, and then
  rotate and add leaves, in every order of insertion. The other run begins with
  45 entries inserted in descending order, enough for two levels of inner nodes, so
  that an insertion at an end makes room in both by rotating and by splitting.
  Removals of two cross from leaf to leaf. Seven freed pages are enough for both
  ends: leaves are freed under one inner node until it is freed too, and references
  that dangle arise at the left and the right of a node and at both inner levels.

All runs check for deadlock: in each of these modules a client can always go on.

### Fairness

The library is passive: nothing happens unless a client calls, each call runs to
its end, and no code justifies that a client makes a given call. One client has a
loop: a walk, which fetches until it is told there is no more
(`src/edbBTree_test.cpp:334`). `WalkSpec` gives it weak fairness
of `Fetch`, and nothing else: inserts and removals may come between any two
fetches. Under it `WalkEnds` holds.

## 5. Proofs

Each theorem holds for every value of the constants that its assumption allows;
what else it assumes is said with it. An assumption on `Liberties` or `PastEnd`
is always one about clients: where they do what it excludes, the code breaks the
promise (section 6, or the liberties of `PagedFile` in section 3), and TLC shows
that it does.

### FileHandleMgrProofs

With `ManagerAssumption` alone (the slots are numbered from 0, places contain 0,
pool sizes are integers and the default is positive):

- `TypeCorrect`: `Spec => []TypeOK`;
- `HandlesListed`: `Spec => []MruIsOpen`;
- `PoolKeeps`: `Spec => PoolKept`, the action property of the run;
- `PoolBounded`: `CarefulSpec => []PoolBound`: clients that never shrink the
  pool below what is open never see more handles than the pool size;
- `ManagerKeepsPointers`: `Spec => ImplementsFilePointers`.

The argument. `IInv == TypeOK /\ MruIsOpen` is inductive. Dropping a handle takes
the last element of the list: without `MruIsOpen` that element need not have a
handle, and could still occur elsewhere in the list afterwards. The lemmas about
sequences (`ErasedAt`, `Erased`, `PushedFront`, `PoppedBack`) say what erasing
from and pushing on a list without duplicates does to the set of its elements;
`MruMeans` restates `MruIsOpen` through that set; one lemma per action concludes
`IInv'`. The bound needs `IInv` because the pool counts as full only when it is
exactly full: the drop makes room for one.

The refinement maps each managed slot to its pointer: the OS pointer while it has
a handle, else the saved one. `DroppedPointers` says that the drop does not
change that map. A hit, a miss and a failed miss are then `Hand`, a move of the
OS pointer is `Seek`, and `Last`, the head of the list, says whose pointer may
move.

### SplitFileProofs

For any size of parts, any bytes and any lengths, provided clients do not read
past the end (`PastEnd = FALSE`):

- `TypeCorrect`: `Spec => []TypeOK`;
- `PartsStayWhole`: `Spec => []PartsWhole`;
- `ReadsAreRight`: `Spec => []ReadsRight`;
- `ImplementsFile`: `Spec => ImplementsFlatFile`.

The invariant is `Intact /\ InSync`. `Intact` has the types, the parts filled as
they must be, and a length that is theirs together; `InSync` says that while
`cpsync_` is set nothing but the first part has been touched since the file was
opened, which is why a part whose pointer is trusted has it at the position. The
bytes of a file are the concatenation of its parts, a fold over a sequence of any
length: that byte `i` lies in part `i \div SPLIT_FACTOR` is proved from the
recursive equation of the fold, by the least length for which it were false.
Every operation is shown to do to the concatenation what `FlatFile` does to one
file; a hole over several parts and a part that is exactly full are cases of
`OverwriteIs` and of the lemmas on chunks.

### SharedPagersProofs, PagedFileProofs

`SharedPagersProofs` says of each operator of `SharedPagers` what it does to the
files and the pages in memory (`...Sound`), and that it changes nothing that is
seen (`...Keeps`): a cell is seen in the pager the file is at home in, or else on
disk. `Home` says that a file has pages in one pager only, `Clean` that a page
that is not dirty is as it is on disk. `PagedFileProofs` puts them together, for
any page sizes, lengths and numbers of uses:

- `TypeCorrect`: `Spec => []TypeOK` and `PagersStayLive`: `Spec => []PagersLive`,
  for all clients, whatever their liberties;
- `FlenCovered`: `Spec => []FlenCovers`, unless clients take `"move"` or `"hasty"`;
- `ImplementsStore`: `Spec => Implements`, unless clients take `"move"`,
  `"bypass"` or `"partial"`.

The first two need each other (`IInv`): a pager can be given back only because
it is there. `FlenCovers` needs `Home` (`FInv`), since a dirty page in another
pager would lengthen the file on disk later; the refinement needs `Home` and
`Clean` (`CInv`).

### PagerProofs

For pools of any size, ranges of any length, any files and pages and any modulus
of the mark counts:

- `TypeCorrect` (`TypeOK`), `SlotsStayOwned` (`NoSlotLost`), `RangesStayWhole`
  (`RangesWhole`), `PagesCachedOnce` (`CachedOnce`) and `LocksHold`
  (`LockedStays`), unless clients take `"full"`: a request that fails then leaves
  cut slots in no range;
- `DirtyStaysMarked` (`DirtyIsMarked`) and `ImplementsStore`
  (`ImplementsPageStore`), for clients that take no liberties: a mark count that
  wraps marks nothing, and a range kept beyond the end of its file is not on disk.

The argument. `Sound(s, N, H)` says that a pool of `N` slots, all but those of
`H`, is parted into ranges: the ranges are whole (`Rows`), every used slot is in
one (`Owned`), no page is in two slots (`Once`), free slots are empty and only
masters locked (`Plain`), and the map has the masters (`Mapped`). Between calls
`H` is empty (`IInv`), and the properties above follow. None of the parts could
be left out: cutting a range needs the master of each of its slots, which
`findmaster` walks back to, and that walk is right only because all ranges are
whole. Within a request some slots are in no range: those in common with it and
those of the new range. Hence the `H`, and one fact about each stage:
`ProcessSound` (cut), `AssembleSound` (join in place), `MakeSound` (clear a
place), `FillSound` (copy and free). They rest on facts about the sums of mark
counts of a joined range (`MarkSum`, a fold over a set) and about the disk after
slots are written.

What is promised of contents and locks goes through the same stages: `Firm` (a
locked range is where it was), `Passes` (a page that showed what was written in
it still does), and `CleanRows` with `CleanLoose` (what is not marked is on
disk), which is the rest of the invariant (`CInv`). A joined range carries the
sum of the marks of its parts, which is zero only if all were, unless it wraps.
Every action is then one of three kinds (`NextIs`): it answers and changes
nothing that is seen, it writes in pages, or it makes a file shorter; these are
the steps of `PageStore`.

### FStorageProofs

For records of any length and number, over pages of any size, and with nothing
assumed of the clients:

- `TypeCorrect`: `Spec => []TypeOK`;
- `ImplementsNumbers`: `Spec => Implements`;
- `FlushIsRight`: `Spec => FlushedRight`.

`Clean`, on which `PagedFileProofs` rests, is not true here: `InitStorage` cuts
the file under pages that stay in memory, and these differ from the disk
without being dirty. What holds is said of cells: one is `Solid` if its page is
dirty, or if it is on disk as it is seen. A solid cell stays solid and is seen as
before when pages are read, written and dropped, and when other cells are
written (`Quiet`); writing a cell makes it solid; and after flush or detach every
solid cell is on disk as it was seen (`Lands`).

`Stand` relates the files, the pages and the counts to a row of records: the flag
of each record is solid and says whether it is free, the data of each one that was
written are solid and hold it, and `freetotal` is the number of free ones. The
cells of two records are apart, since `Offset` grows by the length of a record. So
every operation, which writes a few cells and is quiet about the others, does one
of five things to the row (`ChangesRow`): it makes it empty, leaves it, adds to it,
writes a record or frees one. `Invariance` is the conjunction of these,
`ImplementsNumbers` reads the row off the cells, and `FlushIsRight` applies `Lands`
to the cells of the header and of the row.

### VStorageProofs, VStorageContentsProofs

For files of any length, headers and FreePos of any size, any bands that
`BandsAssumption` allows and any lengths that clients ask for, with and without
`Residue`:

- `StorageTyped`: `Spec => []TypeOK`;
- `StorageTiled`: `Spec => []BlocksTile`;
- `StorageCoalesced`: `Spec => []Coalesced`;
- `StorageLinked`: `Spec => []BandsLinked`;
- `StorageAccounted`: `Spec => []Accounted`

and in `VStorageContentsProofs`, which starts from these:

- `ReallocKeepsText`: `Spec => []ReallocKeepsContents`;
- `SliceSplicesText`: `Spec => []SliceSplices`;
- `StorageImplements`: `Spec => ImplementsRecordStore`, the refinement of
  `RecordStore`.

The invariant (`IInv`) says that there are a set of blocks `B`, a sentinel
`last` and the lengths `W` of the free blocks and `V` of the records for which
the storage `Stands`:

- `Row`: the header of each block of `B` names the next one, which names it back
  and lies beyond its own header, no free block is before a free block or the
  sentinel, and there is nothing between two blocks;
- `Sized`: `W` and `V` are the lengths that these headers give;
- `Pooled`: for each band a sequence without repetition of the blocks of `W` in
  it, of which the FreePos in the file are the links (`Linked`), and the band's
  count and space (`Weighs`);
- `Weighs` again for all free blocks and for all records.

The blocks are given and not computed, so each operation is a change of `B`,
`W` and `V`: one block is split in two (`RowPart`), two or three become one
(`RowJoin`), the file is cut or made longer (`RowCut`, `RowTail`). The header
cells, the FreePos cells of the blocks in lists and the cells of records are
apart (`HdrApart`, `PostsOff`, `RecordOff`), so what writes one of them leaves
the others. Each of the five conjuncts of the goal needs the rest: to unlink a
block its neighbours in the list must be free blocks with a FreePos of their
own, which is `Pooled` over `Sized`; to merge with the block before it `prev`
must be right; and that a total never drops below zero is that it is a sum over
blocks of which this one is a term. Where headers are written before lists, or
lists before headers, the state in between is no storage: `Kin` and `Headers`
say how far it is from one. `freeRec` has six cases, by which neighbours are
free and whether one is the sentinel (`FreeRecIs`); `Fit` has six (`FitIs`,
`ResizeAsIs`, `ReallocRecIs`, `SliceRecIs`). That a block at the end stays within
the modelled cells follows from `Bounded` of the state after the operation: the
lemmas on `Past` carry the new end through what comes after the allocation.

`BlocksTile`, `Coalesced` and `Accounted` speak of the blocks that a walk from
the first one finds. `BlocksAre` shows that they are those of `B`, by the last
block at which walk and row would differ; `ReachesAll` shows in the same way,
by the first one, that following `nextfree` from `first_` for as many steps as
the band has blocks reaches all of them.

The contents follow from the same case analysis. For each operation the layout
proof also says which records it leaves cell by cell as they are (`Held`), and
what happens to its own: `Reallocated` and `Sliced` list the ways a record is
resized in place, or moved into a new block before the old one is freed. From
these, `ReallocText` and `SliceText` say where its cells are afterwards
(`Carried`, `Contained`, `Splices`). `MoveAndFill` copies the head, the gap, the
tail and the data in this order, in place or between two blocks that are apart;
`SplicedCells` shows that each step reads cells that the steps before it left, in
either direction of the move: a tail cell that is still to be moved lies neither
in the head that was copied nor in the gap that was filled. `WantedIs` takes
apart the concatenation that `SliceSplices` states.

For the refinement, `RecsAre` shows that `Contents` is the map `Text` of the
cells of the records of `V`, so each operation is a change of `V` and of these
cells: `Creates`, `Deletes`, `Overwrites`, `Resizes` or `Grafts`, with `Moves` for
what becomes of the other records. The invariant (`MapInv`) adds `Clean` to the
layout: with `Residue = FALSE` the records hold only what was written or `Junk`,
so that forgetting free space after a step changes no record (`ForgetText`,
`BecomeText`). `Close` cuts the file behind the sentinel, which is behind every
record (`CloseText`).

### What is left to TLC

`BTree` altogether: its invariants rest on counts that have not drifted and on
fewer pages than `RefMod`, and each of them speaks of every node of the tree at
once. Liveness (`WalkEnds`) and `ENABLED` are out of the reach of the prover. So
are the induction theorems of its library, since they take an operator as a
parameter; where a fact about a sum or a concatenation needs induction over its
size, the proofs take the least counterexample instead, which serves for folds
and walks whose recursive equation is at hand. It does not serve yet for the
descent in a tree. No module declares a recursive operator.

## 6. Where code and promise disagree

Three runs find a property violated that the code's own comments or interface
state:

1. `vstorage_isvalid`: the locator of a freed record passes `isValid` when its
   block was merged into the free block before it or cut off with the sentinel:
   its own header is not rewritten.
2. `splitfile_sync`: after a read past the end, `cpsync_` is still set although
   the pointer of the part is not at the position. The next write goes elsewhere.
3. `btree_counts`: `findLeaf` puts the position of a child in the trace that it
   had before `makeroom` moved it, and the new entry is counted below the wrong
   child, though the count "should be updated on each insert/remove for each
   search path" (`src/edbBTree.cpp:37-39`). Positions are wrong from then on, and
   a removal may drop the reference to a node that still has entries.

Others can be seen with the same modules by changing the constants of a run and
checking the property named:

4. Handles, `ManagedOnce`: `open` never notices that a file is managed already,
   because nothing enters names in `name2fid_` (`src/edbFileHandleMgr_imp.cpp:66`).
5. Handles, `NeverBeyondPool`: after the pool is made smaller than what is open,
   nothing is dropped any more and the number of handles grows (line 136).
6. Pager, liberty `"wrap"` with mark counts modulo 4, `DirtyIsMarked`: mark counts
   double each time a marked range is cut and joined, and wrap to zero, which means
   clean, after 32 rounds (`src/edbPager_imp.cpp:232`, `:290`).
7. Pager, liberty `"full"`, `NoSlotLost`: a request that throws `NoCacheSpace` has
   already taken cached pages out of their ranges; their slots are lost, with what
   was dirty in them (line 1060).
8. Pager, liberty `"cut"`, `CutReleases`: `chsize` keeps a cached range that begins
   before the new end and goes on past it (line 1281), against
   `src/edbPager.h:35`.
9. B-tree, `Dup = TRUE`, `Found`: `makeroom` compares only the key part of a pair
   (`src/edbBTree.cpp:1244`, `:1263`); the pair can go to the wrong leaf and not be
   found. The test for an existing pair reads past the user's key (line 1107).
10. B-tree, liberty `"drain"`, `WellFormed`: the last leaf is not freed when it is
    emptied, but stays linked without a key, and a walk throws.
11. B-tree, liberty `"backward"`: a step back sets the position to the last key of
    the page whatever it was (line 738); the walk never ends.

Some more the models follow, and their properties leave out by name:

- `findByPos` goes on with `<` where `<=` is meant (`src/edbBTree.cpp:925`), so that
  the first entry of a leaf may not be found by its position. `PositionsRight`
  leaves out these entries and no others.
- A search by the first part of a key may miss when the entry that separates two
  nodes was removed. `Found` claims it while separators are entries.
- A page that was freed can never be used again, since `newNode` fetches it as a
  node and throws (lines 474-503, 267-274). While one is free, `Found` allows an
  insertion to fail.
- The code for dangling references (lines 1272-1337) never runs: a reference has
  48 bits and is compared with 64 set ones. A search that comes to one throws,
  where the comment at lines 577-590 has it miss. `Found` allows both.
- A slice that has taken a new block and then throws in copying leaves that block
  allocated, with no client knowing its locator (`src/edbVStorage_imp.cpp:1161`). `BlocksTile` and
  `Accounted` hold all the same: the space is lost to its client, not to the storage.
- A cached file resizes past its cache and `setPageSize` leaves pages in the old pager
  (liberties `"bypass"` and `"move"`, section 3).

Seen while reading, with no run: `BTREE_LAST` moves one variable and uses the other
(line 1102); the range index ignores an insertion of an existing key but counts
it (line 1841), and its cursors remove without marking the page (lines
1726-1758); `detach` says it throws for locked buffers and does so in the
debugging build only (`src/edbPager.h:37`); `FStorage_imp::open_` reads no header
(`src/edbFStorage_imp.cpp:59`), so an existing fixed-length storage is never
recognised; reading no bytes at offset 0 through the simple cache walks through
all pages (`src/edbSimpleCache_imp.cpp:41`); `pageaddr` accepts an address one
past the arena (`src/edbPager_imp.cpp:1357`).

## 7. Not modelled

- The range index of the B-tree (`RangeNodeHandler` and its cursors), and walks of
  clients who also empty leaves. Walks while others insert and remove are
  modelled (`WalkEnds`).
- Opening a fixed-length storage, which the code cannot do.
- Crashes: headers are written on flush and close only and nothing recovers, so
  there is no promise to check.
- Failures of the disk below `SplitFile` and `Pager`.
- Statistics, hints, and the choice among candidates for replacement.
- The components listed at the end of section 1.
