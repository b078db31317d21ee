------------------------------ MODULE SplitFile -----------------------------
(***************************************************************************)
(* A file kept in parts (src/edbSplitFile_imp.cpp, edbSplitFileFactory_    *)
(* imp.cpp): base.0.edb, base.1.edb, ..., each of SPLIT_FACTOR bytes but   *)
(* the last.  Every part is a file of the handle manager, which gives it a *)
(* file pointer that stays where it was left (module FilePointers).        *)
(*                                                                         *)
(* cpsync_ says that the pointer of the current part is where curPos_ says *)
(* it is, so that the next read or write need not seek.  It is true of a   *)
(* new object, and false for good once a seek, a chsize or the end of a    *)
(* part has changed anything.                                              *)
(***************************************************************************)
EXTENDS Integers, SequencesExt, FiniteSetsExt

CONSTANTS
  SPLIT_FACTOR,   \* bytes in a part
  MaxLen,         \* bound: the last position clients use
  Bytes, Zero,    \* values of a byte; what the OS fills a hole with
  Sizes,          \* numbers of bytes clients read and write
  PastEnd         \* whether clients start by reading past the end of the file

ASSUME SplitAssumption ==
  /\ SPLIT_FACTOR \in Nat \ {0} /\ MaxLen \in Nat
  /\ Zero \in Bytes
  /\ Sizes \subseteq Nat \ {0}
  /\ PastEnd \in BOOLEAN

VARIABLES
  disk,       \* the bytes of the parts, << >> when there is no file
  open,       \* open_
  ptr,        \* fids_: the file pointer of each part while the file is open
  curPos,     \* curPos_
  curFile,    \* curFile_
  cpsync,     \* cpsync_
  length      \* length_

vars == <<disk, open, ptr, curPos, curFile, cpsync, length>>

fileNo(offset)  == offset \div SPLIT_FACTOR
fileOff(offset) == offset % SPLIT_FACTOR

\* The part in which the bytes before `end` end, and where in it.
LastFile(end) == IF fileOff(end) = 0 THEN fileNo(end) - 1 ELSE fileNo(end)
ToOff(end)    == IF fileOff(end) = 0 THEN SPLIT_FACTOR ELSE fileOff(end)

\* Part fno's share of the bytes from..end-1: it starts and ends at these places.
Start(fno, from) == IF fno = fileNo(from) THEN fileOff(from) ELSE 0
End(fno, end)    == IF fno = LastFile(end) THEN ToOff(end) ELSE SPLIT_FACTOR

Part(fno) == IF fno < Len(disk) THEN disk[fno + 1] ELSE << >>
Ptr(fno)  == IF fno < Len(ptr)  THEN ptr[fno + 1]  ELSE 0

\* sci_write and sci_chsize.
Overwrite(d, at, chunk) ==
  [i \in 1 .. Max({Len(d), at + Len(chunk)}) |->
     IF i \in at + 1 .. at + Len(chunk) THEN chunk[i - at]
     ELSE IF i <= Len(d) THEN d[i] ELSE Zero]

Resize(d, size) == [i \in 1 .. size |-> IF i <= Len(d) THEN d[i] ELSE Zero]

\* seek() at the end of a read or write that reached pos.
Arrive(pos) ==
  /\ curPos' = pos
  /\ curFile' = fileNo(pos)
  /\ cpsync' = (cpsync /\ curFile = fileNo(pos))

-----------------------------------------------------------------------------
(* Reading.                                                                *)

\* Only up to the file end.
ReadEnd(n)   == IF curPos + n < length THEN curPos + n ELSE length
ReadFiles(n) == fileNo(curPos) .. LastFile(ReadEnd(n))

\* (mutant) the parts after the first one are read where their pointer is.
ReadPlaceFirst(fno) ==
  IF fno # fileNo(curPos) \/ cpsync THEN Ptr(fno) ELSE Start(fno, curPos)

\* Where a read of a part happens: its pointer is trusted in the first one.
ReadPlace(fno) ==
  IF fno = fileNo(curPos) /\ cpsync THEN Ptr(fno) ELSE Start(fno, curPos)

Wanted(n, fno) == Max({0, End(fno, ReadEnd(n)) - Start(fno, curPos)})

\* sci_read: the bytes there are.
Got(n, fno) == SubSeq(Part(fno), ReadPlace(fno) + 1,
                      Min({Len(Part(fno)), ReadPlace(fno) + Wanted(n, fno)}))

\* The bytes read() returns.
ReadResult(n) ==
  LET first == fileNo(curPos)
  IN  FlattenSeq([i \in 1 .. Max({0, LastFile(ReadEnd(n)) - first + 1}) |->
                    Got(n, first + i - 1)])

\* A part that is too short throws, after the pointers of the parts read have moved.
Read(n) ==
  LET short == {fno \in ReadFiles(n) :
                  ReadPlace(fno) + Wanted(n, fno) > Max({Len(Part(fno)), ReadPlace(fno)})}
      done  == {fno \in ReadFiles(n) : \A s \in short : fno <= s}
  IN  /\ open
      /\ curPos + n <= MaxLen
      /\ PastEnd \/ ~cpsync \/ curPos + n <= length
      /\ ptr' = [i \in DOMAIN ptr |-> IF i - 1 \in done
                                      THEN ReadPlace(i - 1) + Len(Got(n, i - 1)) ELSE ptr[i]]
      /\ IF short = {} THEN Arrive(curPos + n) ELSE UNCHANGED <<curPos, curFile, cpsync>>
      /\ UNCHANGED <<disk, open, length>>

-----------------------------------------------------------------------------
(* Writing and resizing.                                                   *)

WriteFiles(end) == fileNo(curPos) .. LastFile(end)

\* The pointer of what was the last part is trusted, not that of the first
\* part written.
WritePlace(fno) ==
  IF fno = Len(disk) - 1 /\ cpsync THEN Ptr(fno) ELSE Start(fno, curPos)

\* (mutant) the parts before the one written are not filled up.
FilledNever(fno, end) == FALSE

\* Before a new part is written, the last one and the new ones before it are
\* filled up with zeros.
Filled(fno, end) == fno >= Len(disk) - 1 /\ \E g \in WriteFiles(end) : fno < g

\* How many parts there are then.
PartsTo(end) == Max({Len(disk)} \cup {fno + 1 : fno \in WriteFiles(end)})

\* What of the chunk goes to a part, and the part with it.
Share(chunk, fno) ==
  LET before == curPos - fno * SPLIT_FACTOR
  IN  SubSeq(chunk, Start(fno, curPos) - before + 1, End(fno, curPos + Len(chunk)) - before)

Written(chunk, fno) ==
  IF fno \in WriteFiles(curPos + Len(chunk))
  THEN Overwrite(Part(fno), WritePlace(fno), Share(chunk, fno)) ELSE Part(fno)

Write(chunk) ==
  LET end == curPos + Len(chunk)
  IN  /\ open
      /\ end <= MaxLen
      /\ disk' = [i \in 1 .. PartsTo(end) |->
                    IF Filled(i - 1, end) THEN Resize(Written(chunk, i - 1), SPLIT_FACTOR)
                    ELSE Written(chunk, i - 1)]
      /\ ptr' = [i \in 1 .. PartsTo(end) |->
                   IF i - 1 \in WriteFiles(end)
                   THEN WritePlace(i - 1) + Len(Share(chunk, i - 1)) ELSE Ptr(i - 1)]
      /\ length' = Max({length, end})
      /\ Arrive(end)
      /\ UNCHANGED open

\* (mutant) within the current part the pointer is still trusted.
SeekInPart(pos) ==
  /\ open
  /\ curPos' = pos
  /\ curFile' = fileNo(pos)
  /\ cpsync' = (cpsync /\ curFile = fileNo(pos))
  /\ UNCHANGED <<disk, open, ptr, length>>

Seek(pos) ==
  /\ open
  /\ curPos' = pos
  /\ curFile' = fileNo(pos)
  /\ cpsync' = (cpsync /\ curPos = pos /\ curFile = fileNo(pos))
  /\ UNCHANGED <<disk, open, ptr, length>>

LastSizeWhole(size) == size    \* (mutant) the parts before are not subtracted

\* The last part of a file of this size, and its size.
NewLast(size)  == IF size = 0 THEN 0 ELSE LastFile(size)
LastSize(size) == IF size = 0 THEN 0 ELSE ToOff(size)

\* What is kept or added of the parts; position and pointers stay.
Chsize(size) ==
  LET last  == NewLast(size)
      grown == [i \in 1 .. Max({Len(disk), last + 1}) |->
                  IF i < Len(disk) \/ i - 1 > last THEN disk[i]
                  ELSE Resize(Part(i - 1), IF i - 1 = last THEN LastSize(size) ELSE SPLIT_FACTOR)]
      cut   == [i \in 1 .. last + 1 |-> IF i - 1 = last THEN Resize(Part(last), LastSize(size))
                                                        ELSE disk[i]]
  IN  /\ open
      /\ disk' = IF size > length THEN grown ELSE IF size < length THEN cut ELSE disk
      /\ ptr' = [i \in DOMAIN disk' |-> Ptr(i - 1)]
      /\ length' = size
      /\ cpsync' = FALSE
      /\ UNCHANGED <<open, curPos, curFile>>

-----------------------------------------------------------------------------
(* The factory.  An object that was closed is not used again.              *)

NewObject(isOpen) ==
  /\ open' = isOpen
  /\ ptr' = IF isOpen THEN [i \in DOMAIN disk' |-> 0] ELSE << >>
  /\ curPos' = 0 /\ curFile' = 0 /\ cpsync' = TRUE
  /\ length' = IF isOpen THEN Len(FlattenSeq(disk')) ELSE 0

Close == open /\ NewObject(FALSE) /\ UNCHANGED disk

\* open throws FileStructureCorrupt when a part but the last is not full.
Open ==
  /\ ~open /\ disk # << >>
  /\ \A i \in 1 .. Len(disk) - 1 : Len(disk[i]) = SPLIT_FACTOR
  /\ UNCHANGED disk
  /\ NewObject(TRUE)

Create ==
  /\ ~open /\ disk = << >>
  /\ disk' = << << >> >>
  /\ NewObject(TRUE)

Erase == /\ ~open /\ disk # << >>
         /\ disk' = << >>
         /\ UNCHANGED <<open, ptr, curPos, curFile, cpsync, length>>

Chunks == UNION {[1 .. n -> Bytes] : n \in Sizes}

Init ==
  /\ disk = << << >> >> /\ ptr = <<0>> /\ open = TRUE
  /\ curPos = 0 /\ curFile = 0 /\ cpsync = TRUE /\ length = 0

Next ==
  \/ \E n \in Sizes : Read(n)
  \/ \E chunk \in Chunks : Write(chunk)
  \/ \E pos \in 0 .. MaxLen : Seek(pos) \/ Chsize(pos)
  \/ Close \/ Open \/ Create \/ Erase

Spec == Init /\ [][Next]_vars

-----------------------------------------------------------------------------
(* Properties.                                                             *)

\* Everything is of its type; in particular no part is longer than SPLIT_FACTOR.
TypeOK ==
  /\ disk \in Seq(Seq(Bytes)) /\ \A i \in DOMAIN disk : Len(disk[i]) <= SPLIT_FACTOR
  /\ open \in BOOLEAN /\ cpsync \in BOOLEAN
  /\ ptr \in [1 .. IF open THEN Len(disk) ELSE 0 -> 0 .. SPLIT_FACTOR]
  /\ {curPos, length} \subseteq 0 .. MaxLen
  /\ curFile = fileNo(curPos)

\* Whatever was written, cut or grown, every part but the last is full, so the
\* file can be opened again, and length_, which no operation measures, is the
\* number of bytes that open() will find.
PartsWhole ==
  /\ \A i \in 1 .. Len(disk) - 1 : Len(disk[i]) = SPLIT_FACTOR
  /\ open => length = Len(FlattenSeq(disk))

\* A read returns the bytes from the position on, up to the end of the file,
\* whichever parts they are in and wherever the pointers of those are.
ReadsRight ==
  open => \A n \in Sizes :
            ReadResult(n) = SubSeq(FlattenSeq(disk), curPos + 1, ReadEnd(n))

\* The parts together are one file: every byte goes to its place in it.
Flat == INSTANCE FlatFile WITH
  data <- FlattenSeq(disk), pos <- curPos,
  status <- IF open THEN "open" ELSE IF disk = << >> THEN "absent" ELSE "closed"

ImplementsFlatFile == Flat!FlatSpec

\* "to adjust curFile_ and cpsync_ if necessary": after every operation, while
\* cpsync_ is set, the pointer of the current part is at the current position.
PointerInSync ==
  open /\ cpsync /\ curFile < Len(ptr) => Ptr(curFile) = fileOff(curPos)

=============================================================================
