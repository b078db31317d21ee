------------------------------ MODULE VStorage ------------------------------
(***************************************************************************)
(* The variable-length record storage (src/edbVStorage_imp.cpp): a         *)
(* boundary-tag allocator laid out in one file.                            *)
(*                                                                         *)
(* The file after the storage header is a row of blocks.  Each block       *)
(* starts with a BlockHdr (free flag, prev and next block), the row ends   *)
(* with a sentinel, a header without data at hdr.last_off.  A free block   *)
(* at least as long as the smallest band also carries a FreePos in its     *)
(* data area: its links in the free list of its band.  A shorter free      *)
(* block is in no list.                                                    *)
(*                                                                         *)
(* The module keeps the file as cells.  A header takes BH cells and a      *)
(* FreePos takes FP cells, the first of which holds its fields: whatever   *)
(* is written over that cell destroys it, whatever is not stays there to   *)
(* be read again, also when it is stale.  Offsets count from the first     *)
(* block (firstoff_ is 0): the storage header and the bands are the        *)
(* variables hdr and bands, in memory while the storage is open and the    *)
(* copy close() wrote in the file while it is not.                         *)
(*                                                                         *)
(* Each method is an operator from a state of the storage (a record with   *)
(* the fields file, hdr, bands) to the state it leaves, and an       *)
(* action that applies it.                                                 *)
(***************************************************************************)
EXTENDS Integers, Sequences, FiniteSets, FiniteSetsExt

CONSTANTS
  MaxOff,          \* bound: the last cell of the file a model may write
  BH, FP,          \* sizeof (BlockHdr), sizeof (FreePos), in cells
  MinSize,         \* minsize_ of the bands, in decreasing order
  Lens,            \* record lengths the clients ask for
  Values,          \* values the clients write
  Junk,            \* a byte nobody promised anything about
  Residue,         \* whether free space keeps the bytes written there before
  RECLOCATOR_MAX   \* the "no block" locator

ASSUME SizesAssumption ==
  /\ MaxOff \in Nat /\ BH \in Nat \ {0} /\ FP \in Nat \ {0}
  /\ Lens \subseteq Nat

\* init_ refuses no bands and bounds that are not decreasing; a FreePos must
\* fit in a block of the last band (16 Kb by default).
ASSUME BandsAssumption ==
  /\ MinSize \in Seq(Nat) /\ MinSize # << >>
  /\ \A i, j \in DOMAIN MinSize : i < j => MinSize[i] > MinSize[j]
  /\ \A i \in DOMAIN MinSize : MinSize[i] >= FP

ASSUME ValuesAssumption ==
  /\ RECLOCATOR_MAX \notin 0 .. MaxOff
  /\ Junk \notin Values

Off     == 0 .. MaxOff
Locator == Off \cup {RECLOCATOR_MAX}
Band    == DOMAIN MinSize
NoBand  == Len(MinSize) + 1      \* band_count_: the index of no band

BlockHdr == [free : BOOLEAN, prev : Locator, next : Locator]
FreePos  == [prevfree : Locator, nextfree : Locator]
Cell     == BlockHdr \cup FreePos \cup Values \cup {Junk}

VARIABLES
  file,    \* the cells of the file
  hdr,     \* FileHdr: last_off and the totals
  bands,   \* per band: count, space, first and last free block
  isopen   \* the storage is open

vars == <<file, hdr, bands, isopen>>

Storage == [file |-> file, hdr |-> hdr, bands |-> bands]

-----------------------------------------------------------------------------
(* Reading and writing the file.                                           *)

Write(s, at, cells) ==
  [s EXCEPT !.file = [c \in Off |-> IF c \in at .. at + Len(cells) - 1
                                    THEN cells[c - at + 1] ELSE s.file[c]]]

\* (Cells past MaxOff are only looked at in steps that Bounded then refuses.)
Read(s, from, to) ==
  [i \in 1 .. Max({0, to - from}) |-> IF from + i - 1 \in Off THEN s.file[from + i - 1] ELSE Junk]

Fill(len, v) == [i \in 1 .. len |-> v]

\* The cells of a structure of the given size.
Packed(fields, size) == [i \in 1 .. size |-> IF i = 1 THEN fields ELSE Junk]

WriteBhdr(s, loc, b)     == Write(s, loc, Packed(b, BH))
ReadFreepos(s, loc)      == s.file[loc + BH]
WriteFreepos(s, loc, fp) == Write(s, loc + BH, Packed(fp, FP))

DataLen(b, loc) == IF b.next = RECLOCATOR_MAX THEN 0 ELSE b.next - loc - BH

BlockLen(s, loc) == DataLen(s.file[loc], loc)

\* Position of the first band a block of this length belongs to.
CalcBand(len) == Min({i \in Band : len >= MinSize[i]} \cup {NoBand})

JoinBhdrs(s, loc, b, nextLoc, nb) ==
  WriteBhdr(WriteBhdr(s, loc, [b EXCEPT !.next = nextLoc]),
            nextLoc, [nb EXCEPT !.prev = loc])

\* The offsets of the blocks: firstRec_ and nextRec_ walk over them by their
\* lengths and stop at the sentinel.
BlocksIn(f) ==
  LET Walk[loc \in Off] ==
        IF f[loc] \in BlockHdr /\ f[loc].next \in loc + BH .. MaxOff
        THEN {loc} \cup Walk[f[loc].next] ELSE {}
  IN  Walk[0]

\* The cells whose fields something still reads: the headers of the blocks and
\* of the sentinel, and the FreePos of the free blocks that are in a list.
LiveCells(s) ==
  LET blocks == BlocksIn(s.file)
      listed == {l \in blocks : s.file[l].free /\ CalcBand(BlockLen(s, l)) # NoBand}
  IN  blocks \cup {s.hdr.last_off} \cup {l + BH : l \in listed}

\* Outside of those no operation looks at what a cell holds: records move
\* their cells whatever they are, and what a new record holds before it is
\* written is promised to nobody.  Without Residue, a cell there that was not
\* written as record data is forgotten, and so is the data of freed records.
Forget(s) ==
  LET live  == LiveCells(s)
      inUse == UNION {l + BH .. s.file[l].next - 1 :
                        l \in {b \in BlocksIn(s.file) : ~s.file[b].free}}
  IN  [c \in Off |-> IF c \in live \/ (c \in inUse /\ s.file[c] \in Values)
                     THEN s.file[c] ELSE Junk]

Become(s) ==
  /\ file'  = IF Residue THEN s.file ELSE Forget(s)
  /\ hdr'   = s.hdr
  /\ bands' = s.bands

-----------------------------------------------------------------------------
(* The free lists.                                                         *)

\* What points forward to the list's element after loc now points to `to`:
\* the band's first_ when there is no loc, loc's FreePos otherwise.
SetNextFree(s, band, loc, to) ==
  IF loc = RECLOCATOR_MAX
  THEN [s EXCEPT !.bands[band].first = to]
  ELSE WriteFreepos(s, loc, [ReadFreepos(s, loc) EXCEPT !.nextfree = to])

SetPrevFree(s, band, loc, to) ==
  IF loc = RECLOCATOR_MAX
  THEN [s EXCEPT !.bands[band].last = to]
  ELSE WriteFreepos(s, loc, [ReadFreepos(s, loc) EXCEPT !.prevfree = to])

\* n more free blocks and `space` more free cells, in the band and in total.
CountFree(s, band, n, space) ==
  LET t == [s EXCEPT !.hdr.free_count = @ + n, !.hdr.free_space = @ + space]
  IN  IF band = NoBand THEN t
      ELSE [t EXCEPT !.bands[band].count = @ + n, !.bands[band].space = @ + space]

CountUsed(s, n, space) ==
  [s EXCEPT !.hdr.used_count = @ + n, !.hdr.used_space = @ + space]

\* Unlinks the block whose FreePos was fp from its list.
FreeRemoveRec(s, fp, len) ==
  LET band == CalcBand(len)
      t == IF band = NoBand THEN s
           ELSE SetPrevFree(SetNextFree(s, band, fp.prevfree, fp.nextfree),
                            band, fp.nextfree, fp.prevfree)
  IN  CountFree(t, band, -1, -len)

FreeRemove(s, loc, len) == FreeRemoveRec(s, ReadFreepos(s, loc), len)

\* Appends the block to the tail of the list of its band.
FreeAdd(s, loc, len) ==
  LET band == CalcBand(len)
      last == s.bands[band].last
      new  == [prevfree |-> last, nextfree |-> RECLOCATOR_MAX]
      t == IF band = NoBand THEN s
           ELSE [WriteFreepos(SetNextFree(s, band, last, loc), loc, new)
                   EXCEPT !.bands[band].last = loc]
  IN  CountFree(t, band, 1, len)

\* (mutant) the block's neighbours in the list still point where it was.
MoveFreeAlone(s, fp, loc, oldLen, newLen) ==
  LET band == CalcBand(oldLen)
  IN  IF CalcBand(newLen) # band
      THEN FreeAdd(FreeRemoveRec(s, fp, oldLen), loc, newLen)
      ELSE CountFree(IF band = NoBand THEN s ELSE WriteFreepos(s, loc, fp),
                     band, 0, newLen - oldLen)

\* A free block whose FreePos was fp, of length oldLen, is now at loc and of
\* length newLen: within its band it keeps its place in the list.
MoveFree(s, fp, loc, oldLen, newLen) ==
  LET band == CalcBand(oldLen)
  IN  IF CalcBand(newLen) # band
      THEN FreeAdd(FreeRemoveRec(s, fp, oldLen), loc, newLen)
      ELSE CountFree(IF band = NoBand THEN s
                     ELSE WriteFreepos(SetNextFree(SetPrevFree(s, band, fp.nextfree, loc),
                                                   band, fp.prevfree, loc),
                                       loc, fp),
                     band, 0, newLen - oldLen)

\* (mutant) the space of the band is not adjusted.
GrowFreeUncounted(s, loc, oldLen, newLen) ==
  IF CalcBand(oldLen) # CalcBand(newLen)
  THEN FreeAdd(FreeRemove(s, loc, oldLen), loc, newLen)
  ELSE CountFree(s, NoBand, 0, newLen - oldLen)

\* The free block at loc has grown from oldLen to newLen.
GrowFree(s, loc, oldLen, newLen) ==
  IF CalcBand(oldLen) # CalcBand(newLen)
  THEN FreeAdd(FreeRemove(s, loc, oldLen), loc, newLen)
  ELSE CountFree(s, CalcBand(oldLen), 0, newLen - oldLen)

-----------------------------------------------------------------------------
(* Allocation.                                                             *)

AllocAtEnd(s, len) ==
  LET loc == s.hdr.last_off
      end == loc + BH + len
      t   == WriteBhdr([s EXCEPT !.hdr.last_off = end], loc,
                       [s.file[loc] EXCEPT !.free = FALSE, !.next = end])
  IN  CountUsed(WriteBhdr(t, end, [free |-> TRUE, prev |-> loc, next |-> RECLOCATOR_MAX]),
                1, len)

\* The free block at loc becomes a record as it is.
ReuseBlock(s, loc) ==
  LET len == BlockLen(s, loc)
      t   == WriteBhdr(s, loc, [s.file[loc] EXCEPT !.free = FALSE])
  IN  CountUsed(FreeRemove(t, loc, len), 1, len)

\* Puts a new free block at `split`, between the block at loc, which ends
\* there, and the one that followed it.
InsertFree(s, loc, split) ==
  LET b  == s.file[loc]
      t  == WriteBhdr(WriteBhdr(s, loc, [b EXCEPT !.free = FALSE, !.next = split]),
                      split, [free |-> TRUE, prev |-> loc, next |-> b.next])
  IN  WriteBhdr(t, b.next, [s.file[b.next] EXCEPT !.prev = split])

\* The free block at loc becomes a record of length len; the rest stays free.
SplitFree(s, loc, len) ==
  LET split  == loc + BH + len
      oldLen == BlockLen(s, loc)
  IN  CountUsed(MoveFree(InsertFree(s, loc, split), ReadFreepos(s, loc), split,
                         oldLen, oldLen - len - BH),
                1, len)

\* Too short a remainder to hold a header and a FreePos is not split off.
Splits(len, room) == len + BH + FP <= room

\* (mutant) the first block of the band is taken without a look at its length.
AllocRecUnchecked(s, len) ==
  LET band == Min({i \in Band : s.bands[i].count > 0} \cup {NoBand})
      loc  == s.bands[band].first
  IN  IF band = NoBand
      THEN [loc |-> s.hdr.last_off, s |-> AllocAtEnd(s, len)]
      ELSE [loc |-> loc, s |-> IF Splits(len, BlockLen(s, loc)) THEN SplitFree(s, loc, len)
                                                                ELSE ReuseBlock(s, loc)]

\* Only the first block of the non-empty band with the longest blocks is
\* tried: from another band than the first, a length that a longer band would
\* hold goes to the end of the file at once.
AllocRec(s, len) ==
  LET band == Min({i \in Band : s.bands[i].count > 0} \cup {NoBand})
      loc  == s.bands[band].first
      room == BlockLen(s, loc)
  IN  IF \/ band = NoBand
         \/ band > 1 /\ len >= MinSize[band - 1]
         \/ len > room
      THEN [loc |-> s.hdr.last_off, s |-> AllocAtEnd(s, len)]
      ELSE [loc |-> loc, s |-> IF Splits(len, room) THEN SplitFree(s, loc, len)
                                                    ELSE ReuseBlock(s, loc)]

-----------------------------------------------------------------------------
(* Freeing: the block is joined with the free blocks on its sides, so that *)
(* no two free blocks ever touch and none touches the sentinel.  Joined to *)
(* a free block before it, the freed block's own header is not rewritten.  *)

FreeRec(s, loc) ==
  LET cur      == s.file[loc]
      len      == DataLen(cur, loc)
      prevLoc  == cur.prev
      nextLoc  == cur.next
      next     == s.file[nextLoc]
      prevFree == prevLoc # RECLOCATOR_MAX /\ s.file[prevLoc].free
      start    == IF prevFree THEN prevLoc ELSE loc
      startLen == BlockLen(s, start)
      block    == [s.file[start] EXCEPT !.free = TRUE]
      \* the free block from start to the block at `to`
      Join(to) == JoinBhdrs(s, start, block, to, s.file[to])
      FreeTo(t, to) == IF prevFree THEN GrowFree(t, start, startLen, to - start - BH)
                                   ELSE FreeAdd(t, start, to - start - BH)
      freed    ==
        CASE next.free /\ next.next = RECLOCATOR_MAX ->    \* next is the sentinel
               LET t == IF prevFree THEN FreeRemove(s, start, startLen) ELSE s
               IN  WriteBhdr([t EXCEPT !.hdr.last_off = start], start,
                             [block EXCEPT !.next = RECLOCATOR_MAX])
          [] next.free /\ next.next # RECLOCATOR_MAX ->
               FreeTo(FreeRemove(Join(next.next), nextLoc, BlockLen(s, nextLoc)), next.next)
          [] ~next.free /\ prevFree -> FreeTo(Join(nextLoc), nextLoc)
          [] ~next.free /\ ~prevFree -> FreeTo(WriteBhdr(s, loc, block), nextLoc)
  IN  CountUsed(freed, -1, -len)

-----------------------------------------------------------------------------
(* Resizing, shared by reallocRec and sliceRec, which take the same        *)
(* decision from the same conditions.                                      *)

\* (mutant) a record that gets shorter is split whatever follows it.
FitSplitFirst(s, loc, len) ==
  LET b      == s.file[loc]
      next   == s.file[b.next]
      oldLen == DataLen(b, loc)
      united == oldLen + BH + DataLen(next, b.next)
  IN  CASE next.next = RECLOCATOR_MAX -> "last"
        [] next.next # RECLOCATOR_MAX /\ len <= oldLen ->
             IF Splits(len, oldLen) THEN "split" ELSE "keep"
        [] next.next # RECLOCATOR_MAX /\ len > oldLen ->
             IF ~next.free \/ len > united THEN "move"
             ELSE IF Splits(len, united) THEN "mid" ELSE "join"

Fit(s, loc, len) ==
  LET b      == s.file[loc]
      next   == s.file[b.next]
      oldLen == DataLen(b, loc)
      united == oldLen + BH + DataLen(next, b.next)
  IN  CASE next.next = RECLOCATOR_MAX                               -> "last"
        [] next.next # RECLOCATOR_MAX /\ next.free /\ len > united  -> "move"
        [] next.next # RECLOCATOR_MAX /\ next.free /\ len <= united ->
             IF Splits(len, united) THEN "mid" ELSE "join"
        [] ~next.free /\ len > oldLen                               -> "move"
        [] ~next.free /\ len <= oldLen ->
             IF Splits(len, oldLen) THEN "split" ELSE "keep"

\* The last block: the sentinel moves.
ResizeLast(s, loc, len) ==
  LET b   == s.file[loc]
      end == loc + BH + len
      t   == WriteBhdr([s EXCEPT !.hdr.last_off = end], end, s.file[b.next])
  IN  CountUsed(WriteBhdr(t, loc, [b EXCEPT !.next = end]), 0, len - DataLen(b, loc))

\* (mutant) the block after the moved boundary still points at the old header.
ResizeMidStalePrev(s, loc, len) ==
  LET b       == s.file[loc]
      next    == s.file[b.next]
      end     == loc + BH + len
      nextLen == DataLen(next, b.next)
      t       == WriteBhdr(WriteBhdr(s, end, next), loc, [b EXCEPT !.next = end])
  IN  CountUsed(MoveFree(t, ReadFreepos(s, b.next), end, nextLen, next.next - end - BH),
                0, len - DataLen(b, loc))

\* The boundary with the free block that follows moves.
ResizeMid(s, loc, len) ==
  LET b       == s.file[loc]
      next    == s.file[b.next]
      end     == loc + BH + len
      nextLen == DataLen(next, b.next)
      t       == WriteBhdr(WriteBhdr(s, end, next), loc, [b EXCEPT !.next = end])
      u       == WriteBhdr(t, next.next, [s.file[next.next] EXCEPT !.prev = end])
  IN  CountUsed(MoveFree(u, ReadFreepos(s, b.next), end, nextLen, next.next - end - BH),
                0, len - DataLen(b, loc))

\* (mutant) the space of the header that disappears is not counted.
JoinBlocksNoHeader(s, loc) ==
  LET b       == s.file[loc]
      next    == s.file[b.next]
      nextLen == DataLen(next, b.next)
      t       == FreeRemove(s, b.next, nextLen)
  IN  CountUsed(JoinBhdrs(t, loc, b, next.next, t.file[next.next]), 0, nextLen)

\* The block takes the whole of the free block that follows.
JoinBlocks(s, loc) ==
  LET b       == s.file[loc]
      next    == s.file[b.next]
      nextLen == DataLen(next, b.next)
      t       == FreeRemove(s, b.next, nextLen)
  IN  CountUsed(JoinBhdrs(t, loc, b, next.next, t.file[next.next]), 0, nextLen + BH)

\* The tail of a record followed by another record becomes free.
SplitUsed(s, loc, len) ==
  LET split  == loc + BH + len
      oldLen == BlockLen(s, loc)
  IN  CountUsed(FreeAdd(InsertFree(s, loc, split), split, oldLen - len - BH), 0, len - oldLen)

ResizeAs(fit, s, loc, len) ==
  CASE fit = "last"  -> ResizeLast(s, loc, len)
    [] fit = "mid"   -> ResizeMid(s, loc, len)
    [] fit = "join"  -> JoinBlocks(s, loc)
    [] fit = "split" -> SplitUsed(s, loc, len)
    [] fit = "keep"  -> s

-----------------------------------------------------------------------------
(* Moving record data.                                                     *)

\* move_data_ copies in the direction that keeps overlapping ranges right.
MoveData(s, src, srcEnd, dst) == Write(s, dst, Read(s, src, srcEnd))

MoveRec(s, src, srcLen, dst) ==
  MoveData(s, src + BH, src + BH + Min({srcLen, BlockLen(s, dst)}), dst + BH)

\* A splice: `cut` cells at off are replaced by the cells of data; the record
\* holds `full` meaningful cells.  When off lies past those, the gap between
\* is filled with whatever follows the record in the file.
MoveAndFill(s, src, dst, x) ==
  LET kept == Min({x.off, x.full})
      head == MoveData(s, src + BH, src + BH + kept, dst + BH)
      gap  == Write(head, dst + BH + kept, Fill(x.off - kept, Junk))
      tail == MoveData(gap, src + BH + x.off + x.cut, src + BH + x.full,
                       dst + BH + x.off + Len(x.data))
  IN  Write(tail, dst + BH + x.off, x.data)

SliceLen(x) == IF x.off > x.full THEN x.off + Len(x.data)
                                 ELSE x.full + Len(x.data) - x.cut

-----------------------------------------------------------------------------
(* reallocRec and sliceRec: the locator and the storage they leave.        *)

\* (mutant) the old block is freed before its data moves.
ReallocRecFreeFirst(s, loc, len) ==
  LET fit == Fit(s, loc, len)
      r   == AllocRec(FreeRec(s, loc), len)
  IN  IF fit = "move"
      THEN [loc |-> r.loc, s |-> MoveRec(r.s, loc, BlockLen(s, loc), r.loc)]
      ELSE [loc |-> loc, s |-> ResizeAs(fit, s, loc, len)]

ReallocRec(s, loc, len) ==
  LET fit == Fit(s, loc, len)
      r   == AllocRec(s, len)
  IN  IF fit = "move"
      THEN [loc |-> r.loc, s |-> FreeRec(MoveRec(r.s, loc, BlockLen(s, loc), r.loc), loc)]
      ELSE [loc |-> loc, s |-> ResizeAs(fit, s, loc, len)]

\* (mutant) in place, the record is always resized first.
SliceRecResizeFirst(s, loc, x) ==
  LET len == SliceLen(x)
      fit == Fit(s, loc, len)
      r   == AllocRec(s, len)
  IN  IF fit = "move"
      THEN [loc |-> r.loc, s |-> FreeRec(MoveAndFill(r.s, loc, r.loc, x), loc)]
      ELSE [loc |-> loc, s |-> MoveAndFill(ResizeAs(fit, s, loc, len), loc, loc, x)]

\* In place, a record that gets longer is resized before its data moves, one
\* that gets shorter after; a block that is joined is joined first and one
\* that is split is split last.
SliceRec(s, loc, x) ==
  LET len   == SliceLen(x)
      fit   == Fit(s, loc, len)
      r     == AllocRec(s, len)
      first == \/ fit = "join"
               \/ fit \in {"last", "mid"} /\ len > x.full
  IN  IF fit = "move"
      THEN [loc |-> r.loc, s |-> FreeRec(MoveAndFill(r.s, loc, r.loc, x), loc)]
      ELSE [loc |-> loc,
            s   |-> IF first THEN MoveAndFill(ResizeAs(fit, s, loc, len), loc, loc, x)
                             ELSE ResizeAs(fit, MoveAndFill(s, loc, loc, x), loc, len)]

\* sliceRec allocates the new block first: when the gap reaches past the
\* sentinel the copy throws ReadError, if the file ends there too, and the new
\* block stays allocated.
SliceMayThrow(s, loc, x) ==
  /\ Fit(s, loc, SliceLen(x)) = "move"
  /\ x.off > x.full
  /\ loc + x.off > AllocRec(s, SliceLen(x)).s.hdr.last_off

-----------------------------------------------------------------------------
(* What the file holds.                                                    *)

Blocks  == BlocksIn(file)
Records == {l \in Blocks : ~file[l].free}
Frees   == {l \in Blocks : file[l].free}

Content(loc) == LET b == file[loc] IN [i \in 1 .. DataLen(b, loc) |-> file[loc + BH + i - 1]]

Contents == [l \in Records |-> Content(l)]

IsValid(loc) == file[loc] \in BlockHdr /\ ~file[loc].free

-----------------------------------------------------------------------------
(* The operations of the interface.  Clients pass locators of records they *)
(* own.  Bounded says that the file stays within the cells of the model.   *)

Bounded(s) == s.hdr.last_off + BH - 1 <= MaxOff

Patches == {<< >>} \cup {Fill(n, v) : n \in Lens, v \in Values}

\* What a caller may ask of sliceRec for a record: it refuses a full length
\* longer than the block and a cut that is not within the full length.
Slices(loc) ==
  {x \in [off : Lens, cut : Lens, full : Lens, data : Patches] :
     /\ x.full <= BlockLen(Storage, loc)
     /\ x.cut > 0 => x.off + x.cut <= x.full
     /\ SliceLen(x) \in Lens}

Alloc(len) ==
  /\ isopen
  /\ Bounded(AllocRec(Storage, len).s)
  /\ Become(AllocRec(Storage, len).s)
  /\ UNCHANGED isopen

Add(len, v) ==
  LET r == AllocRec(Storage, len)
  IN  /\ isopen
      /\ Bounded(r.s)
      /\ Become(Write(r.s, r.loc + BH, Fill(len, v)))
      /\ UNCHANGED isopen

\* writeRec refuses a range that is not within the block.
WriteRec(loc, off, len, v) ==
  /\ isopen
  /\ off + len <= BlockLen(Storage, loc)
  /\ Become(Write(Storage, loc + BH + off, Fill(len, v)))
  /\ UNCHANGED isopen

Free(loc) ==
  /\ isopen
  /\ Become(FreeRec(Storage, loc))
  /\ UNCHANGED isopen

Realloc(loc, len) ==
  /\ isopen
  /\ Bounded(ReallocRec(Storage, loc, len).s)
  /\ Become(ReallocRec(Storage, loc, len).s)
  /\ UNCHANGED isopen

Slice(loc, x) ==
  /\ isopen
  /\ Bounded(SliceRec(Storage, loc, x).s)
  /\ Become(SliceRec(Storage, loc, x).s)
  /\ UNCHANGED isopen

SliceFails(loc, x) ==
  /\ isopen
  /\ SliceMayThrow(Storage, loc, x)
  /\ Bounded(AllocRec(Storage, SliceLen(x)).s)
  /\ Become(AllocRec(Storage, SliceLen(x)).s)
  /\ UNCHANGED isopen

\* close() writes the header and the bands and cuts the file after the
\* sentinel; wrap() reads them back.
Close ==
  /\ isopen
  /\ isopen' = FALSE
  /\ file' = [c \in Off |-> IF c < hdr.last_off + BH THEN file[c] ELSE Junk]
  /\ UNCHANGED <<hdr, bands>>

Wrap ==
  /\ ~isopen
  /\ isopen' = TRUE
  /\ UNCHANGED <<file, hdr, bands>>

Init ==
  /\ file  = [c \in Off |-> IF c = 0 THEN [free |-> TRUE, prev |-> RECLOCATOR_MAX,
                                           next |-> RECLOCATOR_MAX] ELSE Junk]
  /\ hdr   = [last_off |-> 0, used_count |-> 0, free_count |-> 0,
              used_space |-> 0, free_space |-> 0]
  /\ bands = [i \in Band |-> [count |-> 0, space |-> 0,
                              first |-> RECLOCATOR_MAX, last |-> RECLOCATOR_MAX]]
  /\ isopen = TRUE

Next ==
  \/ \E len \in Lens : Alloc(len)
  \/ \E len \in Lens, v \in Values : Add(len, v)
  \/ \E loc \in Records, off \in Lens, len \in Lens, v \in Values : WriteRec(loc, off, len, v)
  \/ \E loc \in Records : Free(loc)
  \/ \E loc \in Records, len \in Lens : Realloc(loc, len)
  \/ \E loc \in Records : \E x \in Slices(loc) : Slice(loc, x) \/ SliceFails(loc, x)
  \/ Close
  \/ Wrap

Spec == Init /\ [][Next]_vars

-----------------------------------------------------------------------------
(* Properties.                                                             *)

FreeIn(band) == {l \in Frees : CalcBand(BlockLen(Storage, l)) = band}

TotalLen(S) == MapThenSumSet(LAMBDA l : BlockLen(Storage, l), S)

\* Every cell, locator and total is of its type: none of the 64-bit totals
\* that the code subtracts from ever drops below zero.
TypeOK ==
  /\ file \in [Off -> Cell]
  /\ hdr \in [last_off : Off, used_count : Nat, free_count : Nat,
              used_space : Nat, free_space : Nat]
  /\ bands \in [Band -> [count : Nat, space : Nat, first : Locator, last : Locator]]
  /\ isopen \in BOOLEAN

\* The blocks tile the file from its first block to the sentinel, and each
\* one's prev is the block whose next it is: no operation loses a block, makes
\* two overlap or leaves a neighbour pointing at a header that has moved.
BlocksTile ==
  LET all == Blocks \cup {hdr.last_off}
  IN  /\ 0 \in all /\ file[0].prev = RECLOCATOR_MAX
      /\ file[hdr.last_off] \in BlockHdr
      /\ file[hdr.last_off].free /\ file[hdr.last_off].next = RECLOCATOR_MAX
      /\ hdr.last_off \notin Blocks
      /\ \A l \in Blocks : file[l].next \in all /\ file[file[l].next].prev = l

\* Free space is never fragmented without need: two free blocks do not touch
\* and none touches the sentinel.  So every free block is followed by a record,
\* and a storage whose records are all freed is empty again.
Coalesced == \A l \in Frees : file[l].next \in Records

\* The list of each band links, in both directions and from its first to its
\* last, exactly the free blocks of its lengths: no block in a wrong list, none
\* missing, none linked after it was reused or merged.
BandsLinked ==
  \A band \in Band :
    LET members == FreeIn(band)
        end     == {RECLOCATOR_MAX}
        After[n \in Nat] ==
          IF n = 0 THEN {bands[band].first} \ end
          ELSE After[n - 1] \cup ({ReadFreepos(Storage, l).nextfree : l \in After[n - 1]} \ end)
    IN  /\ bands[band].first \in members \cup end
        /\ bands[band].last \in members \cup end
        /\ \A l \in members :
             LET fp == ReadFreepos(Storage, l)
             IN  /\ fp \in FreePos
                 /\ fp.nextfree \in members \cup end /\ fp.prevfree \in members \cup end
                 /\ (fp.prevfree = RECLOCATOR_MAX) <=> (l = bands[band].first)
                 /\ (fp.nextfree = RECLOCATOR_MAX) <=> (l = bands[band].last)
                 /\ fp.nextfree # RECLOCATOR_MAX =>
                      ReadFreepos(Storage, fp.nextfree).prevfree = l
        /\ After[Cardinality(members)] = members

\* The totals of the header and of the bands are those of the blocks, through
\* every split, merge and resize, and no cell of the file is unaccounted for.
Accounted ==
  /\ hdr.used_count = Cardinality(Records) /\ hdr.used_space = TotalLen(Records)
  /\ hdr.free_count = Cardinality(Frees)   /\ hdr.free_space = TotalLen(Frees)
  /\ \A band \in Band : /\ bands[band].count = Cardinality(FreeIn(band))
                        /\ bands[band].space = TotalLen(FreeIn(band))
  /\ hdr.last_off = hdr.used_space + hdr.free_space + BH * (hdr.used_count + hdr.free_count)

\* Whatever the state of the free lists, reallocRec returns a record at least
\* as long as asked that starts with the contents of the old one.
ReallocKeepsContents ==
  isopen =>
    \A loc \in Records, len \in Lens :
      LET r   == ReallocRec(Storage, loc, len)
          old == Content(loc)
          new == Read(r.s, r.loc + BH, r.s.file[r.loc].next)
      IN  Bounded(r.s) =>
            /\ Len(new) >= len
            /\ \A i \in 1 .. Min({Len(old), Len(new)}) : old[i] \in Values => new[i] = old[i]

\* Whatever way sliceRec finds room, in place or not, the record it returns
\* holds the old contents with the cut cells replaced by the data: the resize
\* never overwrites data that is still to be moved.
SliceSplices ==
  isopen =>
    \A loc \in Records : \A x \in Slices(loc) :
      LET r    == SliceRec(Storage, loc, x)
          old  == Content(loc)
          new  == Read(r.s, r.loc + BH, r.s.file[r.loc].next)
          head == SubSeq(old, 1, Min({x.off, x.full}))
          want == head \o Fill(x.off - Len(head), Junk) \o x.data
                       \o SubSeq(old, x.off + x.cut + 1, x.full)
      IN  Bounded(r.s) =>
            /\ Len(new) >= SliceLen(x)
            /\ \A i \in 1 .. SliceLen(x) : want[i] \in Values => new[i] = want[i]

\* The storage implements the map from locators to record contents: no
\* operation on one record, and no reuse of space, disturbs another record.
RecordMap == INSTANCE RecordStore WITH
  Locators <- Off, recs <- Contents, isopen <- isopen

ImplementsRecordStore == RecordMap!RecordsSpec

\* isValid, documented to tell whether a locator is that of a record in use,
\* accepts no other locator.
ValidOnlyRecords == \A l \in Off : IsValid(l) => l \in Records

=============================================================================
