------------------------------ MODULE FStorage ------------------------------
(***************************************************************************)
(* Storage of records of one length (src/edbFStorage_imp.cpp) in a cached  *)
(* file, as src/edbFStorage_test.cpp builds it: a header, room for what    *)
(* the client puts beside it, and a row of records, each with a flag       *)
(* before its data.  The counts live in memory and go to the file with     *)
(* flush and close; everything else goes through the system cache, which   *)
(* may write and drop pages at any time.                                   *)
(*                                                                         *)
(* Every operation seeks before it reads or writes, so the position of the *)
(* cached file is left out.  The operations that open a storage are too:   *)
(* open_ reads no header (src/edbFStorage_imp.cpp:59) and takes no file    *)
(* for a storage.                                                          *)
(***************************************************************************)
EXTENDS SharedPagers

CONSTANTS
  File,        \* the file
  Values,      \* what clients write
  HdrSize,     \* hdrsize_: the cells a client may use beside the header
  RecLen,      \* reclen_
  MaxRecs      \* bound: the records ever allocated

ASSUME FStorageAssumption ==
  /\ Files = {File}
  /\ Values \subseteq Nat
  /\ {HdrSize, RecLen} \subseteq Nat \ {0} /\ MaxRecs \in Nat

VARIABLES
  hdr,         \* hdr_: rectotal_ and freetotal_
  isOpen,      \* whether the storage is open
  written      \* history: the records written since they were allocated

vars == <<disk, pagers, cachePg, hdr, isOpen, written>>

UsedFlag == 0
FreeFlag == 255

Unwritten == -2
Freed == -3
Broken == -4

Recs == 0 .. MaxRecs - 1

-----------------------------------------------------------------------------
(* The layout of the file, and access to it.                               *)

HdrLen == 5

First == HdrLen + HdrSize

\* (mutant) the flag is not counted.
OffsetNoFlag(n) == First + n * RecLen

Offset(n) == First + n * (RecLen + 1)

Reading(s, offset, n) == CacheRead(s, cachePg, File, offset, n)

Writing(s, offset, data) == CacheWrite(s, cachePg, File, offset, data)

Sign == 70

\* dump_hdr_
DumpHdr(s, h) == Writing(s, 0, <<Sign, RecLen, h.rectotal, h.freetotal, HdrSize>>)

ReadFlag(s, n) == Reading(s, Offset(n), 1)

\* What a read gives of one cell.
CellAt(offset) == Seen(Stores, cachePg, File, offset + 1)

IsFree(n) == CellAt(Offset(n)) = FreeFlag

SetFlag(s, n, flag) == Writing(s, Offset(n), <<flag>>)

SetData(s, n, v) == Writing(s, Offset(n) + 1, [i \in 1 .. RecLen |-> v])

-----------------------------------------------------------------------------
(* Operations.                                                             *)

Init ==
  /\ disk = [f \in Files |-> <<>>]
  /\ cachePg \in PageSizes
  /\ pagers = NewPager(cachePg)
  /\ hdr = [rectotal |-> 0, freetotal |-> 0]
  /\ isOpen = FALSE
  /\ written = {}

\* init, on whatever the file holds.  It cuts the file, not what is cached.
InitStorage ==
  /\ hdr' = [rectotal |-> 0, freetotal |-> 0]
  /\ Becomes(DumpHdr(Resize(Stores, File, 0), hdr'))
  /\ isOpen' = TRUE /\ written' = {}
  /\ UNCHANGED cachePg

\* isValid
IsValid(n) ==
  /\ isOpen /\ n < hdr.rectotal
  /\ Becomes(ReadFlag(Stores, n))
  /\ UNCHANGED <<cachePg, hdr, isOpen, written>>

AllocRec ==
  /\ isOpen /\ hdr.rectotal < MaxRecs
  /\ Becomes(SetFlag(Stores, hdr.rectotal, UsedFlag))
  /\ hdr' = [hdr EXCEPT !.rectotal = @ + 1]
  /\ UNCHANGED <<cachePg, isOpen, written>>

AddRec(v) ==
  /\ isOpen /\ hdr.rectotal < MaxRecs
  /\ LET n == hdr.rectotal
     IN  /\ Becomes(SetData(ReadFlag(SetFlag(Stores, n, UsedFlag), n), n, v))
         /\ written' = written \cup {n}
  /\ hdr' = [hdr EXCEPT !.rectotal = @ + 1]
  /\ UNCHANGED <<cachePg, isOpen>>

\* readRec and writeRec leave a record that is free alone, but for its flag
\* they have read.
ReadRec(n) ==
  /\ isOpen /\ n < hdr.rectotal /\ ~IsFree(n)
  /\ Becomes(Reading(ReadFlag(Stores, n), Offset(n) + 1, RecLen))
  /\ UNCHANGED <<cachePg, hdr, isOpen, written>>

WriteRec(n, v) ==
  /\ isOpen /\ n < hdr.rectotal /\ ~IsFree(n)
  /\ Becomes(SetData(ReadFlag(Stores, n), n, v))
  /\ written' = written \cup {n}
  /\ UNCHANGED <<cachePg, hdr, isOpen>>

\* (mutant) a record that is free is freed again.
FreeRecAgain(n) ==
  /\ isOpen /\ n < hdr.rectotal
  /\ Becomes(SetFlag(ReadFlag(Stores, n), n, FreeFlag))
  /\ hdr' = [hdr EXCEPT !.freetotal = @ + 1]
  /\ UNCHANGED <<cachePg, isOpen, written>>

FreeRec(n) ==
  /\ isOpen /\ n < hdr.rectotal /\ ~IsFree(n)
  /\ Becomes(SetFlag(ReadFlag(Stores, n), n, FreeFlag))
  /\ hdr' = [hdr EXCEPT !.freetotal = @ + 1]
  /\ UNCHANGED <<cachePg, isOpen, written>>

\* Any of these three on a record that is free.
Refused(n) ==
  /\ isOpen /\ n < hdr.rectotal /\ IsFree(n)
  /\ Becomes(ReadFlag(Stores, n))
  /\ UNCHANGED <<cachePg, hdr, isOpen, written>>

\* readHeader and writeHeader, of at most HdrSize cells
ReadHeader(n) ==
  /\ isOpen
  /\ Becomes(Reading(Stores, HdrLen, n))
  /\ UNCHANGED <<cachePg, hdr, isOpen, written>>

WriteHeader(n, v) ==
  /\ isOpen
  /\ Becomes(Writing(Stores, HdrLen, [i \in 1 .. n |-> v]))
  /\ UNCHANGED <<cachePg, hdr, isOpen, written>>

\* (mutant) the header is written after the pages are.
FlushHeaderLast ==
  /\ isOpen
  /\ Becomes(DumpHdr(Commit(Stores, cachePg, File), hdr))
  /\ UNCHANGED <<cachePg, hdr, isOpen, written>>

Flush ==
  /\ isOpen
  /\ Becomes(Commit(DumpHdr(Stores, hdr), cachePg, File))
  /\ UNCHANGED <<cachePg, hdr, isOpen, written>>

Close ==
  /\ isOpen /\ isOpen' = FALSE
  /\ Becomes(Detach(DumpHdr(Stores, hdr), cachePg, File))
  /\ UNCHANGED <<cachePg, hdr, written>>

EvictPage == Evict /\ UNCHANGED <<hdr, isOpen, written>>

Next ==
  \/ InitStorage \/ AllocRec \/ Flush \/ Close \/ EvictPage
  \/ \E n \in Recs : IsValid(n) \/ ReadRec(n) \/ FreeRec(n) \/ Refused(n)
  \/ \E v \in Values : AddRec(v) \/ \E n \in Recs : WriteRec(n, v)
  \/ \E n \in 1 .. HdrSize : ReadHeader(n) \/ \E v \in Values : WriteHeader(n, v)

Spec == Init /\ [][Next]_vars

-----------------------------------------------------------------------------
TypeOK ==
  /\ PagersTyped
  /\ hdr.rectotal \in 0 .. MaxRecs /\ hdr.freetotal \in 0 .. hdr.rectotal
  /\ isOpen \in BOOLEAN
  /\ written \subseteq 0 .. hdr.rectotal - 1

\* What a read gives of a record: every record there is has a good flag, or
\* the storage stops with an error (src/edbFStorage_imp.cpp:86).
Record(n) ==
  LET data == {CellAt(Offset(n) + i) : i \in 1 .. RecLen}
  IN  IF IsFree(n) THEN Freed
      ELSE IF CellAt(Offset(n)) # UsedFlag THEN Broken
      ELSE IF n \notin written THEN Unwritten
      ELSE IF Cardinality(data) = 1 THEN CHOOSE v \in data : TRUE ELSE Broken

\* Whatever pages the cache has and has dropped, and however the pages lie
\* over the records, the storage is a row of numbered records
\* (src/edbFStorage.h): one that was written holds what was written last, one
\* that was freed stays free, and getRecCount counts the others.
Numbers == INSTANCE RecordNumbers WITH
             recs <- [i \in 1 .. hdr.rectotal |-> Record(i - 1)],
             count <- hdr.rectotal - hdr.freetotal

Implements == Numbers!NumbersSpec

\* After flush and close (src/edbFStorage_imp.cpp:214-224) the file itself
\* holds the counts, the flag of each record and the data of each written.
Saved ==
  LET cell(c) == IF c <= Len(disk[File]) THEN disk[File][c] ELSE Junk
  IN  /\ cell(3) = hdr.rectotal /\ cell(4) = hdr.freetotal
      /\ \A n \in 0 .. hdr.rectotal - 1 :
           /\ cell(Offset(n) + 1) = IF Record(n) = Freed THEN FreeFlag ELSE UsedFlag
           /\ Record(n) \in Values =>
                \A i \in 1 .. RecLen : cell(Offset(n) + 1 + i) = Record(n)

FlushedRight == [][Flush \/ Close => Saved']_vars
=============================================================================
