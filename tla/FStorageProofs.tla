--------------------------- MODULE FStorageProofs ---------------------------
(***************************************************************************)
(* Theorems about a storage of records of one length, for any length and   *)
(* number of the records and any page size: its state is well typed, it    *)
(* implements the row of numbered records whatever pages the cache writes  *)
(* and drops, and after flush and close the file itself holds it.          *)
(*                                                                         *)
(* A cell that is in the file or in a page the cache will write is Solid.  *)
(* It is what keeps its contents when pages come and go; a cell no one has *)
(* written may change when its page is dropped and read again.             *)
(***************************************************************************)
EXTENDS FStorage, SharedPagersProofs, FiniteSetTheorems, SequenceTheorems

-----------------------------------------------------------------------------
(* Cells that keep their contents.                                         *)

\* Cells are numbered from 1.
Cells == Nat \ {0}

\* The page of pager z that has cell c.
PageAt(z, c) == <<File, (c - 1) \div z>>

\* Cell c of the file as it is on disk.
Stored(s, c) == s.disk[File][c]

\* Cell c is one of those the file has on disk.
InFile(s, c) == c <= Len(s.disk[File])

\* What is seen in cell c is on disk, or its page is written before it goes.
Solid(s, z, c) ==
  IF PageAt(z, c) \in DOMAIN PagesIn(s, z)
  THEN \/ PagesIn(s, z)[PageAt(z, c)].dirty
       \/ InFile(s, c) /\ Stored(s, c) = Seen(s, z, File, c)
  ELSE InFile(s, c)

\* A solid cell is one still, and is seen as before.
Stays(s, t, z, c) ==
  Solid(s, z, c) => Solid(t, z, c) /\ Seen(t, z, File, c) = Seen(s, z, File, c)

\* The pager of the cache is the only one.
Only(s, z) == DOMAIN s.pagers = {z}

\* Solid cells stay, but for those given.
Quiet(s, t, z, given) ==
  /\ Only(t, z)
  /\ \A c \in Cells \ given : Stays(s, t, z, c)

\* What two steps keep both keep.
LEMMA QuietTwice ==
  ASSUME NEW s, NEW t, NEW u, NEW z, NEW given, NEW some, NEW more,
         some \subseteq given, more \subseteq given,
         Quiet(s, t, z, some), Quiet(t, u, z, more)
  PROVE  Quiet(s, u, z, given)
BY DEF Quiet, Stays

\* The place of a cell in its page.
LEMMA PlaceIn ==
  ASSUME NEW z \in Nat \ {0}, NEW c \in Cells
  PROVE  /\ ((c - 1) \div z) \in Nat /\ ((c - 1) % z) + 1 \in 1 .. z
         /\ c = ((c - 1) \div z) * z + (((c - 1) % z) + 1)
BY CellPlace DEF Cells

\* A cell is seen in its page, if that is in memory, and else on disk.
LEMMA SeenIn ==
  ASSUME NEW s, NEW z \in Nat \ {0}, NEW c \in Cells
  PROVE  Seen(s, z, File, c) =
           IF PageAt(z, c) \in DOMAIN PagesIn(s, z)
           THEN PagesIn(s, z)[PageAt(z, c)].data[((c - 1) % z) + 1]
           ELSE IF InFile(s, c) THEN Stored(s, c) ELSE Junk
BY DEF Seen, PageAt, InFile, Stored

\* A page read has its cells as they are on disk.
LEMMA ImageAt ==
  ASSUME NEW s, NEW z \in Nat \ {0}, NEW c \in Cells
  PROVE  Image(s, z, File, (c - 1) \div z)[((c - 1) % z) + 1] =
           IF InFile(s, c) THEN Stored(s, c) ELSE Junk
<1> DEFINE p == (c - 1) \div z
           i == ((c - 1) % z) + 1
<1>1. p \in Nat /\ i \in 1 .. z /\ c = p * z + i
  BY PlaceIn
<1> HIDE DEF p, i
<1>2. Image(s, z, File, p)[i] = OnDisk(s, File, c)
  BY <1>1, ImageSeen
<1>3. QED  BY <1>2 DEF p, i, OnDisk, InFile, Stored

\* A read leaves every solid cell.
LEMMA ReadQuiet ==
  ASSUME NEW b \in Nat, NEW s, Sound(s, b), NEW z, Only(s, z),
         NEW offset \in Nat, NEW n \in Nat \ {0}, InReach(b, z, offset, n)
  PROVE  LET t == CacheRead(s, z, File, offset, n)
         IN  Sound(t, b) /\ Quiet(s, t, z, {})
<1> DEFINE t == CacheRead(s, z, File, offset, n)
           r == ReadPages(s, z, File, offset, n)
<1>1. File \in Files /\ z \in DOMAIN s.pagers
  BY FStorageAssumption DEF Only
<1>2. z \in Nat \ {0}
  BY <1>1, SoundAt
<1>3. Sound(t, b) /\ t.disk = s.disk /\ OnlyPages(s, t, z, Joined(PagesIn(s, z), r))
  BY <1>1, CacheReadSound
<1>4. /\ DOMAIN r = {File} \X PageSpan(offset, n, z)
      /\ \A k \in DOMAIN r : r[k].data = Image(s, z, File, k[2])
  BY DEF ReadPages
<1> HIDE DEF t, r
<1>5. /\ DOMAIN PagesIn(t, z) = DOMAIN PagesIn(s, z) \cup DOMAIN r
      /\ \A k \in DOMAIN PagesIn(t, z) :
           PagesIn(t, z)[k] = IF k \in DOMAIN PagesIn(s, z) THEN PagesIn(s, z)[k] ELSE r[k]
  BY <1>3 DEF OnlyPages, Joined
<1>6. Only(t, z)
  BY <1>3 DEF Only, OnlyPages
<1>7. ASSUME NEW c \in Cells PROVE Stays(s, t, z, c)
  <2>1. InFile(t, c) = InFile(s, c) /\ Stored(t, c) = Stored(s, c)
    BY <1>3 DEF InFile, Stored
  <2>2. CASE PageAt(z, c) \in DOMAIN PagesIn(s, z)
    BY <1>2, <1>5, <2>1, <2>2, SeenIn DEF Stays, Solid
  <2>3. CASE PageAt(z, c) \notin DOMAIN PagesIn(t, z)
    BY <1>2, <1>5, <2>1, <2>3, SeenIn DEF Stays, Solid
  <2>4. CASE PageAt(z, c) \in DOMAIN PagesIn(t, z) \ DOMAIN PagesIn(s, z)
    <3>1. PageAt(z, c)[2] = (c - 1) \div z
      BY DEF PageAt
    <3>2. PagesIn(t, z)[PageAt(z, c)].data = Image(s, z, File, (c - 1) \div z)
      BY <1>4, <1>5, <2>4, <3>1
    <3>3. Seen(t, z, File, c) = IF InFile(s, c) THEN Stored(s, c) ELSE Junk
      BY <1>2, <2>4, <3>2, SeenIn, ImageAt
    <3>4. Seen(s, z, File, c) = IF InFile(s, c) THEN Stored(s, c) ELSE Junk
      BY <1>2, <2>4, SeenIn
    <3>5. QED  BY <2>1, <2>4, <3>3, <3>4 DEF Stays, Solid
  <2>5. QED  BY <2>2, <2>3, <2>4
<1>8. QED  BY <1>3, <1>6, <1>7 DEF Quiet, t

\* Cells that hold data: they are solid, and it is seen in them.
Has(s, z, offset, n, data) ==
  \A i \in 1 .. n : Solid(s, z, offset + i) /\ Seen(s, z, File, offset + i) = data[i]

\* A write leaves every solid cell but those it writes, which are solid then.
LEMMA WriteQuiet ==
  ASSUME NEW b \in Nat, NEW s, Sound(s, b), NEW z, Only(s, z),
         NEW offset \in Nat, NEW n \in Nat \ {0}, InReach(b, z, offset, n),
         NEW data \in [1 .. n -> Int]
  PROVE  LET t == CacheWrite(s, z, File, offset, data)
         IN  /\ Sound(t, b) /\ Quiet(s, t, z, RowCells(offset, n))
             /\ Has(t, z, offset, n, data)
<1> DEFINE t == CacheWrite(s, z, File, offset, data)
           span == PageSpan(offset, n, z)
           keys == {File} \X span
           row == RowCells(offset, n)
<1>1. File \in Files /\ z \in DOMAIN s.pagers
  BY FStorageAssumption DEF Only
<1>2. z \in Nat \ {0}
  BY <1>1, SoundAt
<1>3. /\ Sound(t, b) /\ PutsOnly(s, t, z, keys, {File} \X row)
      /\ Shows(t, z, File, offset, n, data)
  BY <1>1, CacheWriteSound, CacheWritePuts
<1>4. \A c \in row : PageAt(z, c) \in keys
  BY <1>2, SpanCells DEF PageAt, RowCells
<1> HIDE DEF t, row, keys
<1>5. Only(t, z)
  BY <1>1, <1>3 DEF Only, PutsOnly
<1>6. \A c \in Cells : PageAt(z, c) \in keys => Solid(t, z, c)
  BY <1>3 DEF PutsOnly, Solid
<1>7. ASSUME NEW c \in Cells \ row PROVE Stays(s, t, z, c)
  <2>1. InFile(t, c) = InFile(s, c) /\ Stored(t, c) = Stored(s, c)
    BY <1>3 DEF PutsOnly, InFile, Stored
  <2>2. CASE PageAt(z, c) \in keys
    <3> DEFINE p == (c - 1) \div z
               i == ((c - 1) % z) + 1
    <3>1. p \in Nat /\ i \in 1 .. z /\ c = p * z + i
      BY <1>2, PlaceIn
    <3>2. PageAt(z, c)[1] = File /\ PageAt(z, c)[2] = p
      BY DEF PageAt
    <3>3. PageAt(z, c) \in DOMAIN PagesIn(t, z)
      BY <1>3, <2>2 DEF PutsOnly
    <3>4. Seen(t, z, File, c) = PagesIn(t, z)[PageAt(z, c)].data[i]
      BY <1>2, <3>3, SeenIn
    <3> HIDE DEF p, i
    <3>5. <<File, c>> \notin {File} \X row
      OBVIOUS
    <3>6. PagesIn(t, z)[PageAt(z, c)].data[i] = Seen(s, z, File, c)
      BY <1>3, <2>2, <3>1, <3>2, <3>5 DEF PutsOnly
    <3>7. QED  BY <1>6, <2>2, <3>4, <3>6 DEF Stays
  <2>3. CASE PageAt(z, c) \notin keys
    <3>1. /\ PageAt(z, c) \in DOMAIN PagesIn(t, z) <=> PageAt(z, c) \in DOMAIN PagesIn(s, z)
          /\ PageAt(z, c) \in DOMAIN PagesIn(s, z) =>
               PagesIn(t, z)[PageAt(z, c)] = PagesIn(s, z)[PageAt(z, c)]
      BY <1>3, <2>3 DEF PutsOnly
    <3>2. QED  BY <1>2, <2>1, <3>1, SeenIn DEF Stays, Solid
  <2>4. QED  BY <2>2, <2>3
<1>8. Has(t, z, offset, n, data)
  <2>1. \A i \in 1 .. n : offset + i \in row /\ offset + i \in Cells
    BY DEF row, RowCells, Cells
  <2>2. QED  BY <1>3, <1>4, <1>6, <2>1 DEF Has, Shows
<1>9. QED  BY <1>3, <1>5, <1>7, <1>8 DEF Quiet, t, row

\* What was seen in a solid cell is on disk.
Lands(s, t, z, c) ==
  Solid(s, z, c) => InFile(t, c) /\ Stored(t, c) = Seen(s, z, File, c)

\* Writing pages leaves every solid cell, and those of the pages land on disk.
LEMMA DumpQuiet ==
  ASSUME NEW b \in Nat, NEW s, Sound(s, b), NEW z, Only(s, z),
         NEW keys, keys \subseteq DOMAIN PagesIn(s, z)
  PROVE  LET t == Dump(s, z, keys)
         IN  /\ Sound(t, b) /\ Quiet(s, t, z, {})
             /\ DOMAIN PagesIn(t, z) = DOMAIN PagesIn(s, z)
             /\ \A k \in keys : ~ PagesIn(t, z)[k].dirty
             /\ \A c \in Cells : PageAt(z, c) \in keys => Lands(s, t, z, c)
<1> DEFINE t == Dump(s, z, keys)
           dirty == Dirty(s, z, keys)
           long == WrittenLen(s, z, dirty, File)
           q == [k \in DOMAIN PagesIn(s, z) |->
                   IF k \in keys THEN [PagesIn(s, z)[k] EXCEPT !.dirty = FALSE]
                   ELSE PagesIn(s, z)[k]]
<1>1. File \in Files /\ z \in DOMAIN s.pagers
  BY FStorageAssumption DEF Only
<1>2. /\ z \in Nat \ {0}
      /\ \A k \in DOMAIN PagesIn(s, z) : PagesIn(s, z)[k] \in PageType(z)
  BY <1>1, SoundAt DEF PageMap
<1>3. Sound(t, b) /\ t.disk = Written(s, z, dirty) /\ OnlyPages(s, t, z, q)
  BY <1>1, DumpSound
<1>4. dirty \subseteq DOMAIN PagesIn(s, z)
  BY DEF Dirty
<1>5. /\ Len(t.disk[File]) = long
      /\ \A c \in 1 .. long : Stored(t, c) = WrittenCell(s, z, dirty, File, c)
  BY <1>1, <1>3, <1>4, WrittenTyped DEF Stored
<1>6. /\ long \in Nat /\ long >= Len(s.disk[File]) /\ Len(s.disk[File]) \in Nat
      /\ \A k \in dirty : k[1] = File => long >= (k[2] + 1) * z
  BY <1>1, <1>4, SoundAt, WrittenLenRight
<1>7. Only(t, z)
  BY <1>3 DEF Only, OnlyPages
<1>8. /\ DOMAIN PagesIn(t, z) = DOMAIN PagesIn(s, z)
      /\ \A k \in DOMAIN PagesIn(s, z) :
           /\ PagesIn(t, z)[k].data = PagesIn(s, z)[k].data
           /\ k \in keys => ~ PagesIn(t, z)[k].dirty
           /\ k \notin keys => PagesIn(t, z)[k] = PagesIn(s, z)[k]
  BY <1>2, <1>3 DEF OnlyPages, PageType
<1> HIDE DEF t, q, dirty, long
<1>9. ASSUME NEW c \in Cells
      PROVE  /\ PageAt(z, c) \in dirty => InFile(t, c) /\ Stored(t, c) = Seen(s, z, File, c)
             /\ PageAt(z, c) \notin dirty /\ InFile(s, c) =>
                  InFile(t, c) /\ Stored(t, c) = Stored(s, c)
  <2> DEFINE p == (c - 1) \div z
             i == ((c - 1) % z) + 1
  <2>1. p \in Nat /\ i \in 1 .. z /\ c = p * z + i
    BY <1>2, PlaceIn
  <2>2. PageAt(z, c)[1] = File /\ PageAt(z, c)[2] = p
    BY DEF PageAt
  <2>3. ASSUME PageAt(z, c) \in dirty
        PROVE  InFile(t, c) /\ Stored(t, c) = Seen(s, z, File, c)
    <3>1. Seen(s, z, File, c) = PagesIn(s, z)[PageAt(z, c)].data[i]
      BY <1>2, <1>4, <2>3, SeenIn
    <3>2. WrittenCell(s, z, dirty, File, c) = PagesIn(s, z)[PageAt(z, c)].data[i]
      BY <2>3 DEF WrittenCell, PageAt
    <3> HIDE DEF p, i
    <3>3. long >= (p + 1) * z
      BY <1>6, <2>2, <2>3
    <3>4. (p + 1) * z = p * z + z /\ p * z \in Nat
      BY <1>2, <2>1
    <3>5. c \in 1 .. long
      BY <1>2, <1>6, <2>1, <3>3, <3>4
    <3>6. QED  BY <1>5, <3>1, <3>2, <3>5 DEF InFile
  <2>4. ASSUME PageAt(z, c) \notin dirty, InFile(s, c)
        PROVE  InFile(t, c) /\ Stored(t, c) = Stored(s, c)
    <3>1. WrittenCell(s, z, dirty, File, c) = Stored(s, c)
      BY <2>4 DEF WrittenCell, PageAt, InFile, Stored
    <3>2. c \in 1 .. long
      BY <1>6, <2>4 DEF InFile, Cells
    <3>3. QED  BY <1>5, <3>1, <3>2 DEF InFile
  <2>5. QED  BY <2>3, <2>4
<1>10. \A k \in keys : k \in dirty <=> PagesIn(s, z)[k].dirty
  BY DEF dirty, Dirty
<1>11. ASSUME NEW c \in Cells, PageAt(z, c) \in keys PROVE Lands(s, t, z, c)
  BY <1>9, <1>10, <1>11 DEF Lands, Solid
<1>12. ASSUME NEW c \in Cells PROVE Stays(s, t, z, c)
  <2>1. CASE PageAt(z, c) \in DOMAIN PagesIn(s, z)
    <3>1. Seen(t, z, File, c) = Seen(s, z, File, c)
      BY <1>2, <1>8, <2>1, SeenIn
    <3>2. CASE PageAt(z, c) \in keys
      BY <1>8, <1>11, <2>1, <3>1, <3>2 DEF Lands, Stays, Solid
    <3>3. CASE PageAt(z, c) \notin keys
      <4>1. PageAt(z, c) \notin dirty
        BY <3>3 DEF dirty, Dirty
      <4>2. QED  BY <1>8, <1>9, <2>1, <3>1, <3>3, <4>1 DEF Stays, Solid
    <3>4. QED  BY <3>2, <3>3
  <2>2. CASE PageAt(z, c) \notin DOMAIN PagesIn(s, z)
    BY <1>2, <1>4, <1>8, <1>9, <2>2, SeenIn DEF Stays, Solid
  <2>3. QED  BY <2>1, <2>2
<1>13. QED  BY <1>3, <1>7, <1>8, <1>11, <1>12 DEF Quiet, t

\* Dropping pages that are not dirty leaves every solid cell.
LEMMA DropQuiet ==
  ASSUME NEW b \in Nat, NEW s, Sound(s, b), NEW z, Only(s, z),
         NEW keys, \A k \in keys \cap DOMAIN PagesIn(s, z) : ~ PagesIn(s, z)[k].dirty
  PROVE  LET t == Drop(s, z, keys)
         IN  Sound(t, b) /\ Quiet(s, t, z, {}) /\ t.disk = s.disk
<1> DEFINE t == Drop(s, z, keys)
           q == [k \in DOMAIN PagesIn(s, z) \ keys |-> PagesIn(s, z)[k]]
<1>1. z \in DOMAIN s.pagers
  BY DEF Only
<1>2. z \in Nat \ {0}
  BY <1>1, SoundAt
<1>3. Sound(t, b) /\ t.disk = s.disk /\ OnlyPages(s, t, z, q)
  BY <1>1, DropSound
<1> HIDE DEF t
<1>4. /\ Only(t, z) /\ DOMAIN PagesIn(t, z) = DOMAIN PagesIn(s, z) \ keys
      /\ \A k \in DOMAIN PagesIn(t, z) : PagesIn(t, z)[k] = PagesIn(s, z)[k]
  BY <1>3 DEF Only, OnlyPages
<1>5. ASSUME NEW c \in Cells PROVE Stays(s, t, z, c)
  <2>1. InFile(t, c) = InFile(s, c) /\ Stored(t, c) = Stored(s, c)
    BY <1>3 DEF InFile, Stored
  <2>2. CASE PageAt(z, c) \in keys
    BY <1>2, <1>4, <2>1, <2>2, SeenIn DEF Stays, Solid
  <2>3. CASE PageAt(z, c) \notin keys
    BY <1>2, <1>4, <2>1, <2>3, SeenIn DEF Stays, Solid
  <2>4. QED  BY <2>2, <2>3
<1>6. QED  BY <1>3, <1>4, <1>5 DEF Quiet, t

\* Committing leaves every solid cell, and all land on disk.
LEMMA CommitQuiet ==
  ASSUME NEW b \in Nat, NEW s, Sound(s, b), NEW z, Only(s, z)
  PROVE  LET t == Commit(s, z, File)
         IN  /\ Sound(t, b) /\ Quiet(s, t, z, {}) /\ AllClean(t, z, File)
             /\ \A c \in Cells : Lands(s, t, z, c)
<1> DEFINE keys == PagesFor(s, z, File)
           t == Commit(s, z, File)
<1>1. t = Dump(s, z, keys) /\ keys \subseteq DOMAIN PagesIn(s, z)
  BY DEF Commit, PagesFor
<1> HIDE DEF t
<1>2. /\ Sound(t, b) /\ Quiet(s, t, z, {})
      /\ DOMAIN PagesIn(t, z) = DOMAIN PagesIn(s, z)
      /\ \A k \in keys : ~ PagesIn(t, z)[k].dirty
      /\ \A c \in Cells : PageAt(z, c) \in keys => Lands(s, t, z, c)
  <2> HIDE DEF keys
  <2>1. QED  BY <1>1, DumpQuiet
<1>3. AllClean(t, z, File)
  BY <1>2 DEF AllClean, PagesFor
<1>4. ASSUME NEW c \in Cells PROVE Lands(s, t, z, c)
  <2>1. CASE PageAt(z, c) \in DOMAIN PagesIn(s, z)
    BY <1>2, <2>1 DEF PagesFor, PageAt
  <2>2. CASE PageAt(z, c) \notin DOMAIN PagesIn(s, z)
    <3>1. Stays(s, t, z, c)
      BY <1>2 DEF Quiet
    <3>2. z \in Nat \ {0}
      BY SoundAt DEF Only
    <3>3. Solid(s, z, c) => InFile(t, c) /\ Seen(t, z, File, c) = Stored(t, c)
      BY <1>2, <2>2, <3>1, <3>2, SeenIn DEF Stays, Solid
    <3>4. QED  BY <3>1, <3>3 DEF Lands, Stays
  <2>3. QED  BY <2>1, <2>2
<1>5. QED  BY <1>2, <1>3, <1>4 DEF t

\* So does detaching.
LEMMA DetachQuiet ==
  ASSUME NEW b \in Nat, NEW s, Sound(s, b), NEW z, Only(s, z)
  PROVE  LET t == Detach(s, z, File)
         IN  /\ Sound(t, b) /\ Quiet(s, t, z, {})
             /\ \A c \in Cells : Lands(s, t, z, c)
<1> DEFINE u == Commit(s, z, File)
           t == Drop(u, z, PagesFor(s, z, File))
<1>1. /\ Sound(u, b) /\ Quiet(s, u, z, {}) /\ AllClean(u, z, File)
      /\ \A c \in Cells : Lands(s, u, z, c)
  BY CommitQuiet
<1>2. Detach(s, z, File) = t
  BY DEF Detach
<1> HIDE DEF u
<1>3. \A k \in PagesFor(s, z, File) \cap DOMAIN PagesIn(u, z) : ~ PagesIn(u, z)[k].dirty
  BY <1>1 DEF AllClean, PagesFor
<1>4. Only(u, z)
  BY <1>1 DEF Quiet
<1>5. Sound(t, b) /\ Quiet(u, t, z, {}) /\ t.disk = u.disk
  BY <1>1, <1>3, <1>4, DropQuiet
<1> HIDE DEF t
<1>6. Quiet(s, t, z, {})
  BY <1>1, <1>5, QuietTwice
<1>7. \A c \in Cells : Lands(s, t, z, c)
  BY <1>1, <1>5 DEF Lands, InFile, Stored
<1>8. QED  BY <1>2, <1>5, <1>6, <1>7

\* Replacing a page leaves every solid cell.
LEMMA EvictQuiet ==
  ASSUME NEW b \in Nat, NEW s, Sound(s, b), NEW z, Only(s, z),
         NEW key \in DOMAIN PagesIn(s, z)
  PROVE  LET t == Drop(Dump(s, z, {key}), z, {key})
         IN  Sound(t, b) /\ Quiet(s, t, z, {})
<1> DEFINE u == Dump(s, z, {key})
           t == Drop(u, z, {key})
<1>1. /\ Sound(u, b) /\ Quiet(s, u, z, {})
      /\ ~ PagesIn(u, z)[key].dirty
  <2>1. {key} \subseteq DOMAIN PagesIn(s, z) /\ key \in {key}
    OBVIOUS
  <2>2. QED  BY <2>1, DumpQuiet
<1> HIDE DEF u
<1>2. Only(u, z) /\ \A k \in {key} \cap DOMAIN PagesIn(u, z) : ~ PagesIn(u, z)[k].dirty
  BY <1>1 DEF Quiet
<1>3. Sound(t, b) /\ Quiet(u, t, z, {})
  BY <1>1, <1>2, DropQuiet
<1> HIDE DEF t
<1>4. Quiet(s, t, z, {})
  BY <1>1, <1>3, QuietTwice
<1>5. QED  BY <1>3, <1>4 DEF t, u

-----------------------------------------------------------------------------
(* Where records lie.                                                      *)

\* The constants are what their assumptions say.
LEMMA Givens ==
  /\ File \in Files /\ Files = {File}
  /\ PageSizes \subseteq Nat \ {0}
  /\ Values \subseteq Nat
  /\ HdrSize \in Nat \ {0} /\ RecLen \in Nat \ {0} /\ MaxRecs \in Nat
BY FStorageAssumption, PagersAssumption

\* Records follow the header and each other.
LEMMA Offsets ==
  ASSUME NEW n \in Nat
  PROVE  /\ Offset(n) \in Nat /\ First <= Offset(n) /\ First = 5 + HdrSize
         /\ \A m \in Nat : n < m => Offset(n) + (RecLen + 1) <= Offset(m)
<1> DEFINE b == RecLen + 1
<1>1. b \in Nat \ {0} /\ First \in Nat /\ First = 5 + HdrSize
  BY Givens DEF First, HdrLen
<1> HIDE DEF b
<1>2. \A m \in Nat : m * b \in Nat /\ Offset(m) = First + m * b
  BY <1>1, Product DEF Offset, b
<1>3. Offset(n) \in Nat /\ First <= Offset(n)
  BY <1>1, <1>2
<1>4. ASSUME NEW m \in Nat, n < m PROVE Offset(n) + b <= Offset(m)
  <2>1. (n + 1) * b <= m * b
    BY <1>1, <1>4, Later
  <2>2. (n + 1) * b = n * b + b
    BY <1>1
  <2> DEFINE x == n * b
             y == m * b
  <2>3. x \in Nat /\ y \in Nat /\ Offset(n) = First + x /\ Offset(m) = First + y /\ x + b <= y
    BY <1>2, <2>1, <2>2
  <2> HIDE DEF x, y
  <2>4. QED  BY <1>1, <2>3
<1>5. QED  BY <1>1, <1>3, <1>4 DEF b

\* The cells of a record,
RecordCells(n) == RowCells(Offset(n), RecLen + 1)

\* that of its flag,
FlagCells(n) == RowCells(Offset(n), 1)

\* and those of its data.
DataCells(n) == RowCells(Offset(n) + 1, RecLen)

\* No two records have a cell in common, and none has one with the header.
LEMMA Apart ==
  ASSUME NEW n \in Nat
  PROVE  /\ \A m \in Nat : m # n => RecordCells(m) \cap RecordCells(n) = {}
         /\ RowCells(0, First) \cap RecordCells(n) = {}
         /\ FlagCells(n) \subseteq RecordCells(n) /\ DataCells(n) \subseteq RecordCells(n)
         /\ FlagCells(n) \cap DataCells(n) = {}
         /\ RecordCells(n) \subseteq Cells
<1>1. RecLen \in Nat \ {0} /\ First \in Nat
  BY Givens DEF First, HdrLen
<1>2. \A m \in Nat : Offset(m) \in Nat /\ First <= Offset(m)
  BY Offsets
<1>3. ASSUME NEW m \in Nat, m # n PROVE RecordCells(m) \cap RecordCells(n) = {}
  <2>1. m < n \/ n < m
    BY <1>3
  <2>2. Offset(m) + (RecLen + 1) <= Offset(n) \/ Offset(n) + (RecLen + 1) <= Offset(m)
    BY <2>1, Offsets
  <2>3. QED  BY <1>1, <1>2, <2>2 DEF RecordCells, RowCells
<1>4. RowCells(0, First) \cap RecordCells(n) = {} /\ RecordCells(n) \subseteq Cells
  BY <1>1, <1>2 DEF RecordCells, RowCells, Cells
<1>5. /\ FlagCells(n) \subseteq RecordCells(n) /\ DataCells(n) \subseteq RecordCells(n)
      /\ FlagCells(n) \cap DataCells(n) = {}
  BY <1>1, <1>2 DEF RecordCells, FlagCells, DataCells, RowCells
<1>6. QED  BY <1>3, <1>4, <1>5

\* All pages of size z that the storage may use lie within this many cells.
Bound(z) == Offset(MaxRecs) * z

\* The header and the records that may be there are within it.
LEMMA Reach ==
  ASSUME NEW z \in Nat \ {0}
  PROVE  /\ Bound(z) \in Nat
         /\ \A offset \in Nat, n \in Nat \ {0} :
              offset + n <= Offset(MaxRecs) => InReach(Bound(z), z, offset, n)
<1> DEFINE m == Offset(MaxRecs)
<1>1. m \in Nat
  BY Givens, Offsets
<1> HIDE DEF m
<1>2. m * z \in Nat
  BY <1>1, Product
<1>3. (m * z + 0) % z = 0
  BY <1>1, Placed
<1>4. m * z + 0 = m * z
  BY <1>2
<1>5. m <= m * z
  <2>1. PICK w \in Nat : z = w + 1
    <3>1. z - 1 \in Nat /\ z = (z - 1) + 1
      OBVIOUS
    <3>2. QED  BY <3>1
  <2>2. m * (w + 1) = m * w + m /\ m * w \in Nat
    BY <1>1, Product
  <2>3. QED  BY <1>1, <2>1, <2>2
<1>6. Bound(z) = m * z
  BY DEF Bound, m
<1>7. WholePages(Bound(z), z)
  BY <1>3, <1>4, <1>6 DEF WholePages
<1>8. ASSUME NEW offset \in Nat, NEW n \in Nat \ {0}, offset + n <= m
      PROVE  InReach(Bound(z), z, offset, n)
  BY <1>1, <1>2, <1>5, <1>6, <1>7, <1>8 DEF InReach
<1>9. QED  BY <1>2, <1>6, <1>8 DEF m

\* The parts of a record and of the header are.
LEMMA PartsReach ==
  ASSUME NEW z \in Nat \ {0}
  PROVE  /\ \A n \in 0 .. MaxRecs - 1 :
              /\ Offset(n) \in Nat
              /\ InReach(Bound(z), z, Offset(n), 1)
              /\ InReach(Bound(z), z, Offset(n) + 1, RecLen)
         /\ InReach(Bound(z), z, 0, HdrLen)
         /\ \A n \in 1 .. HdrSize : InReach(Bound(z), z, HdrLen, n)
<1>1. RecLen \in Nat \ {0} /\ HdrSize \in Nat \ {0} /\ MaxRecs \in Nat
  BY Givens
<1>2. Offset(MaxRecs) \in Nat /\ 5 + HdrSize <= Offset(MaxRecs)
  BY <1>1, Offsets
<1>3. ASSUME NEW n \in 0 .. MaxRecs - 1
      PROVE  /\ Offset(n) \in Nat
             /\ InReach(Bound(z), z, Offset(n), 1)
             /\ InReach(Bound(z), z, Offset(n) + 1, RecLen)
  <2>1. n \in Nat /\ n < MaxRecs
    BY <1>1
  <2>2. Offset(n) \in Nat /\ Offset(n) + (RecLen + 1) <= Offset(MaxRecs)
    BY <1>1, <2>1, Offsets
  <2>3. /\ Offset(n) + 1 \in Nat /\ Offset(n) + 1 <= Offset(MaxRecs)
        /\ (Offset(n) + 1) + RecLen <= Offset(MaxRecs)
    BY <1>1, <1>2, <2>2
  <2>4. QED  BY <1>1, <2>2, <2>3, Reach
<1>4. InReach(Bound(z), z, 0, HdrLen)
  <2>1. 0 \in Nat /\ HdrLen \in Nat \ {0} /\ 0 + HdrLen <= Offset(MaxRecs)
    BY <1>1, <1>2 DEF HdrLen
  <2>2. QED  BY <2>1, Reach
<1>5. ASSUME NEW n \in 1 .. HdrSize PROVE InReach(Bound(z), z, HdrLen, n)
  <2>1. HdrLen \in Nat /\ n \in Nat \ {0} /\ HdrLen + n <= Offset(MaxRecs)
    BY <1>1, <1>2 DEF HdrLen
  <2>2. QED  BY <2>1, Reach
<1>6. QED  BY <1>3, <1>4, <1>5

-----------------------------------------------------------------------------
(* Access to the parts of a record.                                        *)

\* Files and pagers of a storage whose cache has pages of size z.
Fine(s, z) ==
  /\ z \in PageSizes
  /\ Sound(s, Bound(z))
  /\ Only(s, z)

\* What Fine says of the page size and the bound.
LEMMA FineFacts ==
  ASSUME NEW s, NEW z, Fine(s, z)
  PROVE  z \in Nat \ {0} /\ Bound(z) \in Nat /\ Sound(s, Bound(z)) /\ Only(s, z)
<1>1. z \in Nat \ {0}
  BY Givens DEF Fine
<1>2. QED  BY <1>1, Reach DEF Fine

\* The flag of a record,
Flagged(s, z, n, flag) ==
  Solid(s, z, Offset(n) + 1) /\ Seen(s, z, File, Offset(n) + 1) = flag

\* and its data.
Holding(s, z, n, v) == Has(s, z, Offset(n) + 1, RecLen, Row(RecLen, v))

\* Reading a flag leaves all there is.
LEMMA FlagRead ==
  ASSUME NEW s, NEW z, Fine(s, z), NEW n \in 0 .. MaxRecs - 1
  PROVE  LET t == CacheRead(s, z, File, Offset(n), 1)
         IN  Fine(t, z) /\ Quiet(s, t, z, {})
<1> DEFINE t == CacheRead(s, z, File, Offset(n), 1)
<1>1. Offset(n) \in Nat /\ InReach(Bound(z), z, Offset(n), 1)
  BY FineFacts, PartsReach
<1>2. Sound(t, Bound(z)) /\ Quiet(s, t, z, {})
  BY <1>1, FineFacts, ReadQuiet
<1> HIDE DEF t
<1>3. QED  BY <1>2 DEF Fine, Quiet, t

\* Writing a flag leaves all but the flag.
LEMMA FlagSet ==
  ASSUME NEW s, NEW z, Fine(s, z), NEW n \in 0 .. MaxRecs - 1, NEW flag \in Int
  PROVE  LET t == CacheWrite(s, z, File, Offset(n), <<flag>>)
         IN  Fine(t, z) /\ Quiet(s, t, z, FlagCells(n)) /\ Flagged(t, z, n, flag)
<1> DEFINE data == <<flag>>
           t == CacheWrite(s, z, File, Offset(n), data)
<1>1. Offset(n) \in Nat /\ InReach(Bound(z), z, Offset(n), 1) /\ 1 \in Nat \ {0}
  BY FineFacts, PartsReach
<1>2. data \in [1 .. 1 -> Int] /\ data[1] = flag
  OBVIOUS
<1> HIDE DEF data
<1>3. /\ Sound(t, Bound(z)) /\ Quiet(s, t, z, RowCells(Offset(n), 1))
      /\ Has(t, z, Offset(n), 1, data)
  BY <1>1, <1>2, FineFacts, WriteQuiet
<1> HIDE DEF t
<1>4. Flagged(t, z, n, flag)
  <2>1. 1 \in 1 .. 1 /\ data[1] = flag
    BY <1>2
  <2>2. QED  BY <1>3, <2>1 DEF Has, Flagged
<1>5. QED  BY <1>3, <1>4 DEF Fine, Quiet, FlagCells, t, data

\* Writing the data of a record leaves all else.
LEMMA DataSet ==
  ASSUME NEW s, NEW z, Fine(s, z), NEW n \in 0 .. MaxRecs - 1, NEW v \in Values
  PROVE  LET t == CacheWrite(s, z, File, Offset(n) + 1, Row(RecLen, v))
         IN  Fine(t, z) /\ Quiet(s, t, z, DataCells(n)) /\ Holding(t, z, n, v)
<1> DEFINE t == CacheWrite(s, z, File, Offset(n) + 1, Row(RecLen, v))
<1>1. Offset(n) + 1 \in Nat /\ InReach(Bound(z), z, Offset(n) + 1, RecLen)
  BY FineFacts, PartsReach
<1>2. RecLen \in Nat \ {0} /\ Row(RecLen, v) \in [1 .. RecLen -> Int]
  BY Givens, RowIs
<1>3. /\ Sound(t, Bound(z)) /\ Quiet(s, t, z, RowCells(Offset(n) + 1, RecLen))
      /\ Has(t, z, Offset(n) + 1, RecLen, Row(RecLen, v))
  BY <1>1, <1>2, FineFacts, WriteQuiet
<1> HIDE DEF t
<1>4. QED  BY <1>3 DEF Fine, Quiet, DataCells, Holding, t

\* The header, as it is written.
HdrData(h) == <<Sign, RecLen, h.rectotal, h.freetotal, HdrSize>>

\* Writing it leaves all else.
LEMMA HdrSet ==
  ASSUME NEW s, NEW z, Fine(s, z), NEW h, h.rectotal \in Int, h.freetotal \in Int
  PROVE  LET t == CacheWrite(s, z, File, 0, HdrData(h))
         IN  /\ Fine(t, z) /\ Quiet(s, t, z, RowCells(0, HdrLen))
             /\ Has(t, z, 0, HdrLen, HdrData(h))
<1> DEFINE t == CacheWrite(s, z, File, 0, HdrData(h))
<1>1. InReach(Bound(z), z, 0, HdrLen) /\ 0 \in Nat /\ HdrLen \in Nat \ {0}
  BY FineFacts, PartsReach DEF HdrLen
<1>2. HdrData(h) \in [1 .. HdrLen -> Int]
  BY Givens DEF HdrData, HdrLen, Sign
<1>3. /\ Sound(t, Bound(z)) /\ Quiet(s, t, z, RowCells(0, HdrLen))
      /\ Has(t, z, 0, HdrLen, HdrData(h))
  BY <1>1, <1>2, FineFacts, WriteQuiet
<1> HIDE DEF t
<1>4. QED  BY <1>3 DEF Fine, Quiet, t

-----------------------------------------------------------------------------
(* Records.                                                                *)

\* What a record may be taken for.
Contents == Values \cup {Freed, Unwritten}

\* Record n holds x, where those in w were written.
RecordIs(s, z, w, n, x) ==
  \/ x = Freed /\ Flagged(s, z, n, FreeFlag)
  \/ x = Unwritten /\ Flagged(s, z, n, UsedFlag) /\ n \notin w
  \/ x \in Values /\ Flagged(s, z, n, UsedFlag) /\ n \in w /\ Holding(s, z, n, x)

\* What a read gives of the data of a record.
DataSeen(s, z, n) == {Seen(s, z, File, Offset(n) + i + 1) : i \in 1 .. RecLen}

\* Record, for any files and pagers.
RecordIn(s, z, w, n) ==
  IF Seen(s, z, File, Offset(n) + 1) = FreeFlag THEN Freed
  ELSE IF Seen(s, z, File, Offset(n) + 1) # UsedFlag THEN Broken
  ELSE IF n \notin w THEN Unwritten
  ELSE IF Cardinality(DataSeen(s, z, n)) = 1 THEN CHOOSE v \in DataSeen(s, z, n) : TRUE
  ELSE Broken

\* Record is that, now and after a step.
LEMMA RecordNow ==
  ASSUME NEW n
  PROVE  /\ Record(n) = RecordIn(Stores, cachePg, written, n)
         /\ Record(n)' = RecordIn(Stores', cachePg', written', n)
         /\ IsFree(n) <=> Seen(Stores, cachePg, File, Offset(n) + 1) = FreeFlag
BY DEF Record, RecordIn, IsFree, CellAt, DataSeen

\* What a record holds is what is read of it.
LEMMA RecordRight ==
  ASSUME NEW s, NEW z, NEW w, NEW n \in Nat, NEW x, RecordIs(s, z, w, n, x)
  PROVE  x \in Contents /\ RecordIn(s, z, w, n) = x
<1>1. CASE x = Freed /\ Flagged(s, z, n, FreeFlag)
  BY <1>1 DEF Flagged, RecordIn, Contents
<1>2. CASE x = Unwritten /\ Flagged(s, z, n, UsedFlag) /\ n \notin w
  BY <1>2 DEF Flagged, RecordIn, Contents, UsedFlag, FreeFlag
<1>3. CASE x \in Values /\ Flagged(s, z, n, UsedFlag) /\ n \in w /\ Holding(s, z, n, x)
  <2>1. RecLen \in Nat \ {0} /\ Offset(n) \in Nat
    BY Givens, Offsets
  <2>2. ASSUME NEW i \in 1 .. RecLen
        PROVE  Seen(s, z, File, Offset(n) + i + 1) = x
    <3>1. (Offset(n) + 1) + i = Offset(n) + i + 1
      BY <2>1
    <3>2. Seen(s, z, File, (Offset(n) + 1) + i) = x
      BY <1>3 DEF Holding, Has, Row
    <3>3. QED  BY <3>1, <3>2
  <2>3. 1 \in 1 .. RecLen
    BY <2>1
  <2>4. DataSeen(s, z, n) = {x}
    BY <2>2, <2>3 DEF DataSeen
  <2>5. Cardinality({x}) = 1
    BY FS_Singleton
  <2>6. (CHOOSE v \in {x} : TRUE) = x
    OBVIOUS
  <2>7. RecordIn(s, z, w, n) =
          IF Cardinality(DataSeen(s, z, n)) = 1 THEN CHOOSE v \in DataSeen(s, z, n) : TRUE
          ELSE Broken
    BY <1>3 DEF RecordIn, Flagged, UsedFlag, FreeFlag
  <2>8. QED  BY <1>3, <2>4, <2>5, <2>6, <2>7 DEF Contents
<1>4. QED  BY <1>1, <1>2, <1>3 DEF RecordIs

\* A record none of whose cells is given holds what it held.
LEMMA RecordStays ==
  ASSUME NEW s, NEW t, NEW z, NEW given, Quiet(s, t, z, given),
         NEW n \in Nat, given \cap RecordCells(n) = {},
         NEW w, NEW new, n \in w <=> n \in new,
         NEW x, RecordIs(s, z, w, n, x)
  PROVE  RecordIs(t, z, new, n, x)
<1>1. \A c \in RecordCells(n) : Stays(s, t, z, c)
  BY Apart DEF Quiet
<1>2. /\ Offset(n) + 1 \in FlagCells(n)
      /\ \A i \in 1 .. RecLen : (Offset(n) + 1) + i \in DataCells(n)
  BY Givens, Offsets DEF FlagCells, DataCells, RowCells
<1>3. \A flag : Flagged(s, z, n, flag) => Flagged(t, z, n, flag)
  BY <1>1, <1>2, Apart DEF Flagged, Stays
<1>4. \A v : Holding(s, z, n, v) => Holding(t, z, n, v)
  BY <1>1, <1>2, Apart DEF Holding, Has, Stays
<1>5. QED  BY <1>3, <1>4 DEF RecordIs

\* The row of records, as they are read.
Row0 == [n \in 0 .. hdr.rectotal - 1 |-> Record(n)]

\* The records that are free among those in a row.
Free(r) == {n \in DOMAIN r : r[n] = Freed}

\* The files, the pagers and the counts are those of a row r of records.
Stand(s, z, w, h, r) ==
  /\ Fine(s, z)
  /\ h = [rectotal |-> h.rectotal, freetotal |-> h.freetotal]
  /\ h.rectotal \in 0 .. MaxRecs
  /\ r = [n \in 0 .. h.rectotal - 1 |-> r[n]]
  /\ \A n \in 0 .. h.rectotal - 1 : RecordIs(s, z, w, n, r[n])
  /\ h.freetotal = Cardinality(Free(r))
  /\ w \subseteq 0 .. h.rectotal - 1

\* What every step keeps.
IInv == isOpen \in BOOLEAN /\ Stand(Stores, cachePg, written, hdr, Row0)

\* The row there is, is the row that is read.
LEMMA StandRight ==
  ASSUME NEW r, Stand(Stores', cachePg', written', hdr', r), isOpen' \in BOOLEAN
  PROVE  Row0' = r /\ IInv'
<1>1. hdr'.rectotal \in Nat /\ \A n \in 0 .. hdr'.rectotal - 1 : n \in Nat
  BY Givens DEF Stand
<1>2. \A n \in 0 .. hdr'.rectotal - 1 : Record(n)' = r[n]
  BY <1>1, RecordNow, RecordRight DEF Stand
<1>3. Row0' = [n \in 0 .. hdr'.rectotal - 1 |-> Record(n)']
  BY DEF Row0
<1>4. r = [n \in 0 .. hdr'.rectotal - 1 |-> r[n]]
  BY DEF Stand
<1>5. Row0' = r
  BY <1>2, <1>3, <1>4
<1>6. QED  BY <1>5 DEF IInv

\* The free records are some of those there are.
LEMMA FreeSome ==
  ASSUME NEW s, NEW z, NEW w, NEW h, NEW r, Stand(s, z, w, h, r)
  PROVE  /\ IsFiniteSet(Free(r)) /\ h.freetotal \in 0 .. h.rectotal
         /\ Free(r) \subseteq 0 .. h.rectotal - 1
         /\ \A n \in 0 .. h.rectotal - 1 : r[n] \in Contents
<1> DEFINE m == h.rectotal
<1>1. m \in Nat
  BY Givens DEF Stand
<1>2. DOMAIN r = 0 .. m - 1
  BY DEF Stand
<1>3. Free(r) \subseteq 0 .. m - 1
  BY <1>2 DEF Free
<1>4. IsFiniteSet(0 .. m - 1) /\ Cardinality(0 .. m - 1) = m
  <2> HIDE DEF m
  <2>1. 0 \in Int /\ m - 1 \in Int
    BY <1>1
  <2>2. IsFiniteSet(0 .. m - 1)
        /\ Cardinality(0 .. m - 1) = IF 0 > m - 1 THEN 0 ELSE (m - 1) - 0 + 1
    BY <2>1, FS_Interval
  <2>3. QED  BY <1>1, <2>2
<1>5. IsFiniteSet(Free(r)) /\ Cardinality(Free(r)) \in Nat /\ Cardinality(Free(r)) <= m
  BY <1>3, <1>4, FS_Subset, FS_CardinalityType
<1>6. h.freetotal \in 0 .. m
  BY <1>1, <1>5 DEF Stand
<1>7. ASSUME NEW n \in 0 .. m - 1 PROVE r[n] \in Contents
  <2>1. n \in Nat
    BY <1>1
  <2>2. RecordIs(s, z, w, n, r[n])
    BY DEF Stand
  <2>3. QED  BY <2>1, <2>2, RecordRight
<1>8. QED  BY <1>3, <1>5, <1>6, <1>7

\* Changes of nothing but the header leave the row.
LEMMA StandStill ==
  ASSUME NEW s, NEW z, NEW w, NEW h, NEW r, Stand(s, z, w, h, r),
         NEW t, Fine(t, z), NEW given, given \subseteq RowCells(0, First),
         Quiet(s, t, z, given)
  PROVE  Stand(t, z, w, h, r)
<1>1. ASSUME NEW n \in 0 .. h.rectotal - 1 PROVE RecordIs(t, z, w, n, r[n])
  <2>1. n \in Nat /\ RecordIs(s, z, w, n, r[n])
    BY Givens DEF Stand
  <2>2. given \cap RecordCells(n) = {}
    BY <2>1, Apart
  <2>3. QED  BY <2>1, <2>2, RecordStays
<1>2. QED  BY <1>1 DEF Stand

\* All records but n hold what is in row r.
OthersAre(t, z, w, h, r, n) ==
  \A m \in 0 .. h.rectotal - 1 : m # n => RecordIs(t, z, w, m, r[m])

\* Changes of one record leave the others.
LEMMA OthersStand ==
  ASSUME NEW s, NEW z, NEW w, NEW h, NEW r, Stand(s, z, w, h, r),
         NEW t, NEW n \in Nat, NEW given, given \subseteq RecordCells(n),
         Quiet(s, t, z, given), NEW new, w \subseteq new, new \subseteq w \cup {n}
  PROVE  OthersAre(t, z, new, h, r, n)
<1> SUFFICES ASSUME NEW m \in 0 .. h.rectotal - 1, m # n
             PROVE  RecordIs(t, z, new, m, r[m])
  BY DEF OthersAre
<1>1. m \in Nat /\ RecordIs(s, z, w, m, r[m])
  BY Givens DEF Stand
<1>2. given \cap RecordCells(m) = {}
  BY <1>1, Apart
<1>3. m \in w <=> m \in new
  OBVIOUS
<1>4. QED  BY <1>1, <1>2, <1>3, RecordStays

\* A record that is in use has the flag of one.
LEMMA InUseFlagged ==
  ASSUME NEW s, NEW z, NEW w, NEW h, NEW r, Stand(s, z, w, h, r),
         NEW n \in 0 .. h.rectotal - 1
  PROVE  /\ n \in Nat /\ n \in 0 .. MaxRecs - 1
         /\ r[n] # Freed => Flagged(s, z, n, UsedFlag)
         /\ r[n] = Freed => Flagged(s, z, n, FreeFlag)
<1>1. n \in Nat /\ n \in 0 .. MaxRecs - 1
  BY Givens DEF Stand
<1>2. Freed \notin Values /\ Freed # Unwritten
  BY Givens DEF Freed, Unwritten
<1>3. RecordIs(s, z, w, n, r[n])
  BY DEF Stand
<1>4. QED  BY <1>1, <1>2, <1>3 DEF RecordIs

\* Row r with x in place n.
Put(r, n, x) == [r EXCEPT ![n] = x]

\* A record in use is written.
LEMMA StandWritten ==
  ASSUME NEW s, NEW z, NEW w, NEW h, NEW r, Stand(s, z, w, h, r),
         NEW n \in 0 .. h.rectotal - 1, r[n] # Freed, NEW v \in Values,
         NEW t, Fine(t, z), Quiet(s, t, z, DataCells(n)), Holding(t, z, n, v)
  PROVE  Stand(t, z, w \cup {n}, h, Put(r, n, v))
<1>1. n \in Nat /\ Flagged(s, z, n, UsedFlag)
  BY InUseFlagged
<1>2. v # Freed
  BY Givens DEF Freed
<1>3. OthersAre(t, z, w \cup {n}, h, r, n)
  <2>1. DataCells(n) \subseteq RecordCells(n) /\ w \subseteq w \cup {n}
    BY <1>1, Apart
  <2>2. QED  BY <1>1, <2>1, OthersStand
<1>4. Flagged(t, z, n, UsedFlag)
  <2>1. Offset(n) \in Nat
    BY <1>1, Offsets
  <2>2. Offset(n) + 1 \in FlagCells(n) /\ Offset(n) + 1 \in Cells
    BY <2>1 DEF FlagCells, RowCells, Cells
  <2>3. Offset(n) + 1 \notin DataCells(n)
    BY <1>1, <2>2, Apart
  <2>4. QED  BY <1>1, <2>2, <2>3 DEF Quiet, Stays, Flagged
<1>5. RecordIs(t, z, w \cup {n}, n, v)
  BY <1>4 DEF RecordIs
<1>6. r = [m \in 0 .. h.rectotal - 1 |-> r[m]]
  BY DEF Stand
<1>7. /\ Put(r, n, v) = [m \in 0 .. h.rectotal - 1 |-> Put(r, n, v)[m]]
      /\ \A m \in 0 .. h.rectotal - 1 : Put(r, n, v)[m] = IF m = n THEN v ELSE r[m]
      /\ DOMAIN Put(r, n, v) = DOMAIN r /\ DOMAIN r = 0 .. h.rectotal - 1
  BY <1>6 DEF Put
<1>8. Free(Put(r, n, v)) = Free(r)
  BY <1>2, <1>7 DEF Free
<1>9. \A m \in 0 .. h.rectotal - 1 : RecordIs(t, z, w \cup {n}, m, Put(r, n, v)[m])
  BY <1>3, <1>5, <1>7 DEF OthersAre
<1>10. w \cup {n} \subseteq 0 .. h.rectotal - 1
  BY DEF Stand
<1>11. QED  BY <1>7, <1>8, <1>9, <1>10 DEF Stand

\* A record in use is freed.
LEMMA StandFreed ==
  ASSUME NEW s, NEW z, NEW w, NEW h, NEW r, Stand(s, z, w, h, r),
         NEW n \in 0 .. h.rectotal - 1, r[n] # Freed,
         NEW t, Fine(t, z), Quiet(s, t, z, FlagCells(n)), Flagged(t, z, n, FreeFlag),
         NEW g, g = [h EXCEPT !.freetotal = @ + 1]
  PROVE  Stand(t, z, w, g, Put(r, n, Freed))
<1>1. n \in Nat
  BY InUseFlagged
<1>2. OthersAre(t, z, w, h, r, n)
  <2>1. FlagCells(n) \subseteq RecordCells(n) /\ w \subseteq w \cup {n}
    BY <1>1, Apart
  <2>2. QED  BY <1>1, <2>1, OthersStand
<1>3. RecordIs(t, z, w, n, Freed)
  BY DEF RecordIs
<1>4. r = [m \in 0 .. h.rectotal - 1 |-> r[m]]
  BY DEF Stand
<1>5. /\ Put(r, n, Freed) = [m \in 0 .. h.rectotal - 1 |-> Put(r, n, Freed)[m]]
      /\ \A m \in 0 .. h.rectotal - 1 : Put(r, n, Freed)[m] = IF m = n THEN Freed ELSE r[m]
      /\ DOMAIN Put(r, n, Freed) = DOMAIN r /\ DOMAIN r = 0 .. h.rectotal - 1
  BY <1>4 DEF Put
<1>6. Free(Put(r, n, Freed)) = Free(r) \cup {n} /\ n \notin Free(r)
  BY <1>5 DEF Free
<1>7. Cardinality(Free(Put(r, n, Freed))) = Cardinality(Free(r)) + 1
  BY <1>6, FreeSome, FS_AddElement
<1>8. \A m \in 0 .. h.rectotal - 1 : RecordIs(t, z, w, m, Put(r, n, Freed)[m])
  BY <1>2, <1>3, <1>5 DEF OthersAre
<1>9. /\ g = [rectotal |-> g.rectotal, freetotal |-> g.freetotal]
      /\ g.rectotal = h.rectotal /\ g.freetotal = h.freetotal + 1
  BY DEF Stand
<1>10. QED  BY <1>5, <1>7, <1>8, <1>9 DEF Stand

\* Row r of m records with x after them.
More(r, m, x) == [n \in 0 .. m |-> IF n = m THEN x ELSE r[n]]

\* A record is added at the end.
LEMMA StandMore ==
  ASSUME NEW s, NEW z, NEW w, NEW h, NEW r, Stand(s, z, w, h, r), h.rectotal < MaxRecs,
         NEW t, Fine(t, z), Quiet(s, t, z, RecordCells(h.rectotal)),
         NEW new, w \subseteq new, new \subseteq w \cup {h.rectotal},
         NEW x, x # Freed, RecordIs(t, z, new, h.rectotal, x),
         NEW g, g = [h EXCEPT !.rectotal = @ + 1]
  PROVE  Stand(t, z, new, g, More(r, h.rectotal, x))
<1> DEFINE m == h.rectotal
           q == More(r, m, x)
<1>1. m \in Nat /\ m + 1 \in 0 .. MaxRecs /\ 0 .. m = 0 .. (m + 1) - 1
  BY Givens DEF Stand
<1>2. OthersAre(t, z, new, h, r, m)
  <2>1. RecordCells(m) \subseteq RecordCells(m)
    OBVIOUS
  <2>2. QED  BY <1>1, <2>1, OthersStand
<1>3. DOMAIN r = 0 .. m - 1 /\ w \subseteq 0 .. m - 1
  BY DEF Stand
<1>4. /\ q = [n \in 0 .. m |-> q[n]]
      /\ \A n \in 0 .. m : q[n] = IF n = m THEN x ELSE r[n]
      /\ DOMAIN q = 0 .. m
  BY DEF More
<1>5. /\ g = [rectotal |-> g.rectotal, freetotal |-> g.freetotal]
      /\ g.rectotal = m + 1 /\ g.freetotal = h.freetotal
  BY DEF Stand
<1>6. RecordIs(t, z, new, m, x)
  OBVIOUS
<1>7. new \subseteq w \cup {m}
  OBVIOUS
<1>8. \A n \in 0 .. m - 1 : n # m => RecordIs(t, z, new, n, r[n])
  BY <1>2 DEF OthersAre
<1> HIDE DEF m, q
<1>9. \A n \in 0 .. m : n = m \/ n \in 0 .. m - 1
  BY <1>1
<1>10. \A n \in 0 .. m - 1 : n \in 0 .. m /\ n # m
  BY <1>1
<1>11. Free(q) = Free(r)
  BY <1>3, <1>4, <1>9, <1>10 DEF Free
<1>12. \A n \in 0 .. m : RecordIs(t, z, new, n, q[n])
  BY <1>4, <1>6, <1>8, <1>9, <1>10
<1>13. new \subseteq 0 .. m
  BY <1>1, <1>3, <1>7, <1>10
<1>14. h.freetotal = Cardinality(Free(r))
  BY DEF Stand
<1>15. Stand(t, z, new, g, q)
  BY <1>1, <1>4, <1>5, <1>11, <1>12, <1>13, <1>14 DEF Stand
<1>16. QED  BY <1>15 DEF m, q

\* The counts of no records,
NoRecords == [rectotal |-> 0, freetotal |-> 0]

\* and the row of none.
NoRow == [n \in 0 .. -1 |-> Freed]

\* A storage that is initialized has no records.
LEMMA StandEmpty ==
  ASSUME NEW t, NEW z, Fine(t, z)
  PROVE  Stand(t, z, {}, NoRecords, NoRow)
<1>1. 0 .. 0 - 1 = {} /\ 0 .. -1 = {} /\ 0 \in 0 .. MaxRecs
  BY Givens
<1>2. Free(NoRow) = {}
  BY <1>1 DEF Free, NoRow
<1>3. Cardinality({}) = 0
  BY FS_EmptySet
<1>4. NoRow = [n \in 0 .. 0 - 1 |-> NoRow[n]]
  BY <1>1 DEF NoRow
<1>5. QED  BY <1>1, <1>2, <1>3, <1>4 DEF Stand, NoRecords

-----------------------------------------------------------------------------
(* The operations.                                                         *)

\* The state of the files and pagers after a step is what the step makes of
\* it.
LEMMA BecomesIs ==
  ASSUME NEW z, NEW t, Becomes(t), Fine(t, z)
  PROVE  Stores' = t
BY DEF Becomes, Fine, Sound, Stores

\* What the invariant says of the state.
LEMMA Facts ==
  ASSUME IInv
  PROVE  /\ Fine(Stores, cachePg) /\ Stand(Stores, cachePg, written, hdr, Row0)
         /\ hdr.rectotal \in Nat /\ hdr.rectotal \in Int /\ hdr.freetotal \in Int
         /\ hdr.rectotal <= MaxRecs
<1>1. Stand(Stores, cachePg, written, hdr, Row0)
  BY DEF IInv
<1>2. hdr.freetotal \in 0 .. hdr.rectotal
  BY <1>1, FreeSome
<1>3. QED  BY <1>1, <1>2, Givens DEF Stand

\* A record there is.
LEMMA Place ==
  ASSUME IInv, NEW n \in Recs, n < hdr.rectotal
  PROVE  /\ n \in Nat /\ n \in 0 .. hdr.rectotal - 1 /\ n \in 0 .. MaxRecs - 1
         /\ IsFree(n) <=> Row0[n] = Freed
<1>1. n \in Nat /\ n \in 0 .. hdr.rectotal - 1 /\ n \in 0 .. MaxRecs - 1
  BY Facts, Givens DEF Recs
<1>2. /\ Row0[n] # Freed => Flagged(Stores, cachePg, n, UsedFlag)
      /\ Row0[n] = Freed => Flagged(Stores, cachePg, n, FreeFlag)
  BY <1>1, Facts, InUseFlagged
<1>3. IsFree(n) <=> Seen(Stores, cachePg, File, Offset(n) + 1) = FreeFlag
  BY RecordNow
<1>4. QED  BY <1>1, <1>2, <1>3 DEF Flagged, UsedFlag, FreeFlag

\* Steps that leave the records and the counts.
ReadStep ==
  \/ \E n \in Recs : IsValid(n) \/ ReadRec(n) \/ Refused(n)
  \/ \E n \in 1 .. HdrSize : ReadHeader(n) \/ \E v \in Values : WriteHeader(n, v)
  \/ EvictPage

\* Files and pagers that differ at most in the header.
HdrOnly(s, t, z) == Fine(t, z) /\ Quiet(s, t, z, RowCells(0, First))

\* A step between two such is one.
LEMMA HdrOnlyIs ==
  ASSUME NEW s, NEW t, NEW z, NEW given, Fine(t, z), Quiet(s, t, z, given),
         given \subseteq RowCells(0, First)
  PROVE  HdrOnly(s, t, z)
BY DEF HdrOnly, Quiet

\* Two reads differ in nothing.
LEMMA ReadTwice ==
  ASSUME NEW s, NEW z, Fine(s, z), NEW n \in 0 .. MaxRecs - 1
  PROVE  LET t == CacheRead(CacheRead(s, z, File, Offset(n), 1), z, File, Offset(n) + 1, RecLen)
         IN  HdrOnly(s, t, z)
<1> DEFINE u == CacheRead(s, z, File, Offset(n), 1)
           t == CacheRead(u, z, File, Offset(n) + 1, RecLen)
<1>1. Fine(u, z) /\ Quiet(s, u, z, {})
  BY FlagRead
<1> HIDE DEF u
<1>2. Offset(n) + 1 \in Nat /\ InReach(Bound(z), z, Offset(n) + 1, RecLen)
  BY FineFacts, PartsReach
<1>3. Sound(t, Bound(z)) /\ Quiet(u, t, z, {})
  <2>1. /\ Bound(z) \in Nat /\ Sound(u, Bound(z)) /\ Only(u, z)
        /\ RecLen \in Nat \ {0}
    BY <1>1, FineFacts, Givens
  <2>2. QED  BY <1>2, <2>1, ReadQuiet
<1> HIDE DEF t
<1>4. Quiet(s, t, z, {})
  <2>1. {} \subseteq {}
    OBVIOUS
  <2>2. QED  BY <1>1, <1>3, <2>1, QuietTwice
<1>5. Fine(t, z)
  BY <1>3, <1>4 DEF Fine, Quiet
<1>6. HdrOnly(s, t, z)
  BY <1>4, <1>5, HdrOnlyIs
<1>7. QED  BY <1>6 DEF t, u

\* Steps that read, and those that write beside the header, leave the records.
LEMMA ReadStepStill ==
  ASSUME IInv, ReadStep
  PROVE  HdrOnly(Stores, Stores', cachePg) /\ UNCHANGED <<cachePg, hdr, isOpen, written>>
<1>1. Fine(Stores, cachePg) /\ cachePg \in Nat \ {0} /\ Bound(cachePg) \in Nat
  BY Facts, FineFacts
<1>2. ASSUME NEW n \in Recs, IsValid(n) \/ Refused(n)
      PROVE  HdrOnly(Stores, Stores', cachePg) /\ UNCHANGED <<cachePg, hdr, isOpen, written>>
  <2> DEFINE t == CacheRead(Stores, cachePg, File, Offset(n), 1)
  <2>1. Becomes(t) /\ n < hdr.rectotal /\ UNCHANGED <<cachePg, hdr, isOpen, written>>
    BY <1>2 DEF IsValid, Refused, ReadFlag, Reading
  <2>2. Fine(t, cachePg) /\ Quiet(Stores, t, cachePg, {})
    BY <1>1, <2>1, Place, FlagRead
  <2> HIDE DEF t
  <2>3. QED  BY <2>1, <2>2, BecomesIs, HdrOnlyIs
<1>3. ASSUME NEW n \in Recs, ReadRec(n)
      PROVE  HdrOnly(Stores, Stores', cachePg) /\ UNCHANGED <<cachePg, hdr, isOpen, written>>
  <2> DEFINE t == CacheRead(CacheRead(Stores, cachePg, File, Offset(n), 1),
                            cachePg, File, Offset(n) + 1, RecLen)
  <2>1. Becomes(t) /\ n < hdr.rectotal /\ UNCHANGED <<cachePg, hdr, isOpen, written>>
    BY <1>3 DEF ReadRec, ReadFlag, Reading
  <2>2. HdrOnly(Stores, t, cachePg)
    BY <1>1, <2>1, Place, ReadTwice
  <2> HIDE DEF t
  <2>3. QED  BY <2>1, <2>2, BecomesIs DEF HdrOnly
<1>4. ASSUME NEW n \in 1 .. HdrSize, ReadHeader(n)
      PROVE  HdrOnly(Stores, Stores', cachePg) /\ UNCHANGED <<cachePg, hdr, isOpen, written>>
  <2> DEFINE t == CacheRead(Stores, cachePg, File, HdrLen, n)
  <2>1. Becomes(t) /\ UNCHANGED <<cachePg, hdr, isOpen, written>>
    BY <1>4 DEF ReadHeader, Reading
  <2>2. HdrLen \in Nat /\ n \in Nat \ {0} /\ InReach(Bound(cachePg), cachePg, HdrLen, n)
    BY <1>1, Givens, PartsReach DEF HdrLen
  <2>3. Sound(t, Bound(cachePg)) /\ Quiet(Stores, t, cachePg, {})
    BY <1>1, <2>2, FineFacts, ReadQuiet
  <2> HIDE DEF t
  <2>4. Fine(t, cachePg)
    BY <1>1, <2>3 DEF Fine, Quiet
  <2>5. QED  BY <2>1, <2>3, <2>4, BecomesIs, HdrOnlyIs
<1>5. ASSUME NEW n \in 1 .. HdrSize, NEW v \in Values, WriteHeader(n, v)
      PROVE  HdrOnly(Stores, Stores', cachePg) /\ UNCHANGED <<cachePg, hdr, isOpen, written>>
  <2> DEFINE t == CacheWrite(Stores, cachePg, File, HdrLen, Row(n, v))
  <2>1. Becomes(t) /\ UNCHANGED <<cachePg, hdr, isOpen, written>>
    BY <1>5 DEF WriteHeader, Writing, Row
  <2>2. HdrLen \in Nat /\ n \in Nat \ {0} /\ InReach(Bound(cachePg), cachePg, HdrLen, n)
    BY <1>1, Givens, PartsReach DEF HdrLen
  <2>3. Row(n, v) \in [1 .. n -> Int]
    BY <2>2, Givens, RowIs
  <2>4. Sound(t, Bound(cachePg)) /\ Quiet(Stores, t, cachePg, RowCells(HdrLen, n))
    BY <1>1, <2>2, <2>3, FineFacts, WriteQuiet
  <2> HIDE DEF t
  <2>5. Fine(t, cachePg)
    BY <1>1, <2>4 DEF Fine, Quiet
  <2>6. RowCells(HdrLen, n) \subseteq RowCells(0, First)
    BY Givens DEF RowCells, HdrLen, First
  <2>7. QED  BY <2>1, <2>4, <2>5, <2>6, BecomesIs, HdrOnlyIs
<1>6. ASSUME EvictPage
      PROVE  HdrOnly(Stores, Stores', cachePg) /\ UNCHANGED <<cachePg, hdr, isOpen, written>>
  <2>1. UNCHANGED <<cachePg, hdr, isOpen, written>> /\ DOMAIN pagers = {cachePg}
    BY <1>1, <1>6 DEF EvictPage, Evict, Fine, Only, Stores
  <2>2. PICK key \in DOMAIN PagesIn(Stores, cachePg) :
          Becomes(Drop(Dump(Stores, cachePg, {key}), cachePg, {key}))
    BY <1>6, <2>1 DEF EvictPage, Evict, PagesIn, Stores
  <2> DEFINE t == Drop(Dump(Stores, cachePg, {key}), cachePg, {key})
  <2>3. Sound(t, Bound(cachePg)) /\ Quiet(Stores, t, cachePg, {})
    BY <1>1, FineFacts, EvictQuiet
  <2>4. Becomes(t)
    BY <2>2
  <2> HIDE DEF t
  <2>5. Fine(t, cachePg)
    BY <1>1, <2>3 DEF Fine, Quiet
  <2>6. QED  BY <2>1, <2>3, <2>4, <2>5, BecomesIs, HdrOnlyIs
<1>7. QED  BY <1>2, <1>3, <1>4, <1>5, <1>6 DEF ReadStep

\* All that is solid once the header is written lands on disk with flush and
\* with close.
LEMMA SaveStep ==
  ASSUME IInv, Flush \/ Close
  PROVE  \E u : /\ HdrOnly(Stores, u, cachePg) /\ HdrOnly(u, Stores', cachePg)
                /\ Has(u, cachePg, 0, HdrLen, HdrData(hdr))
                /\ \A c \in Cells : Lands(u, Stores', cachePg, c)
                /\ UNCHANGED <<cachePg, hdr, written>> /\ isOpen' \in BOOLEAN
<1> DEFINE u == CacheWrite(Stores, cachePg, File, 0, HdrData(hdr))
<1>1. Fine(Stores, cachePg) /\ Bound(cachePg) \in Nat
  BY Facts, FineFacts
<1>2. /\ Fine(u, cachePg) /\ Quiet(Stores, u, cachePg, RowCells(0, HdrLen))
      /\ Has(u, cachePg, 0, HdrLen, HdrData(hdr))
  BY <1>1, Facts, HdrSet
<1>3. /\ UNCHANGED <<cachePg, hdr, written>> /\ isOpen' \in BOOLEAN
      /\ \/ Becomes(Commit(u, cachePg, File))
         \/ Becomes(Detach(u, cachePg, File))
  BY DEF Flush, Close, DumpHdr, Writing, HdrData, IInv
<1> HIDE DEF u
<1>4. Sound(u, Bound(cachePg)) /\ Only(u, cachePg)
  BY <1>2 DEF Fine
<1>5. /\ Fine(Stores', cachePg) /\ Quiet(u, Stores', cachePg, {})
      /\ \A c \in Cells : Lands(u, Stores', cachePg, c)
  <2>1. ASSUME NEW t, Becomes(t), Sound(t, Bound(cachePg)), Quiet(u, t, cachePg, {}),
               \A c \in Cells : Lands(u, t, cachePg, c)
        PROVE  /\ Fine(Stores', cachePg) /\ Quiet(u, Stores', cachePg, {})
               /\ \A c \in Cells : Lands(u, Stores', cachePg, c)
    <3>1. Fine(t, cachePg)
      BY <1>1, <2>1 DEF Fine, Quiet
    <3>2. QED  BY <2>1, <3>1, BecomesIs
  <2>2. CASE Becomes(Commit(u, cachePg, File))
    <3> DEFINE t == Commit(u, cachePg, File)
    <3>1. /\ Sound(t, Bound(cachePg)) /\ Quiet(u, t, cachePg, {})
          /\ \A c \in Cells : Lands(u, t, cachePg, c)
      BY <1>1, <1>4, CommitQuiet
    <3>2. Becomes(t)
      BY <2>2
    <3> HIDE DEF t
    <3>3. QED  BY <2>1, <3>1, <3>2
  <2>3. CASE Becomes(Detach(u, cachePg, File))
    <3> DEFINE t == Detach(u, cachePg, File)
    <3>1. /\ Sound(t, Bound(cachePg)) /\ Quiet(u, t, cachePg, {})
          /\ \A c \in Cells : Lands(u, t, cachePg, c)
      BY <1>1, <1>4, DetachQuiet
    <3>2. Becomes(t)
      BY <2>3
    <3> HIDE DEF t
    <3>3. QED  BY <2>1, <3>1, <3>2
  <2>4. QED  BY <1>3, <2>2, <2>3
<1>6. RowCells(0, HdrLen) \subseteq RowCells(0, First) /\ {} \subseteq RowCells(0, First)
  BY Givens DEF RowCells, HdrLen, First
<1>7. HdrOnly(Stores, u, cachePg) /\ HdrOnly(u, Stores', cachePg)
  BY <1>2, <1>5, <1>6, HdrOnlyIs
<1>8. QED  BY <1>2, <1>3, <1>5, <1>7

\* What each step makes of the row of records: it starts a new one,
StartsRow == hdr' = NoRecords /\ Stand(Stores', cachePg', written', hdr', NoRow)

\* or leaves it,
LeavesRow ==
  /\ UNCHANGED <<cachePg, hdr, written>>
  /\ Stand(Stores', cachePg', written', hdr', Row0)

\* or adds x at its end,
AddsRow(x) ==
  /\ hdr' = [hdr EXCEPT !.rectotal = @ + 1]
  /\ Stand(Stores', cachePg', written', hdr', More(Row0, hdr.rectotal, x))

\* or writes v in a record in use,
WritesRow(n, v) ==
  /\ n \in 0 .. hdr.rectotal - 1 /\ Row0[n] # Freed /\ hdr' = hdr
  /\ Stand(Stores', cachePg', written', hdr', Put(Row0, n, v))

\* or frees one.
FreesRow(n) ==
  /\ n \in 0 .. hdr.rectotal - 1 /\ Row0[n] # Freed
  /\ hdr' = [hdr EXCEPT !.freetotal = @ + 1]
  /\ Stand(Stores', cachePg', written', hdr', Put(Row0, n, Freed))

\* One of these.
ChangesRow ==
  \/ StartsRow \/ LeavesRow
  \/ \E x \in Values \cup {Unwritten} : AddsRow(x)
  \/ \E n \in Nat : FreesRow(n) \/ \E v \in Values : WritesRow(n, v)

\* init makes the storage one of no records, whatever is cached of the file.
LEMMA InitStarts ==
  ASSUME IInv, InitStorage
  PROVE  StartsRow
<1> DEFINE u == Resize(Stores, File, 0)
           t == CacheWrite(u, cachePg, File, 0, HdrData(NoRecords))
<1>1. Fine(Stores, cachePg) /\ Bound(cachePg) \in Nat
  BY Facts, FineFacts
<1>2. /\ Becomes(t) /\ hdr' = NoRecords /\ UNCHANGED cachePg /\ written' = {}
  BY DEF InitStorage, DumpHdr, Writing, HdrData, NoRecords
<1>3. Sound(u, Bound(cachePg)) /\ u.pagers = Stores.pagers
  <2>1. 0 \in Nat
    OBVIOUS
  <2>2. QED  BY <1>1, <2>1, FineFacts, Givens, ResizeSound
<1> HIDE DEF u
<1>4. Fine(u, cachePg)
  BY <1>1, <1>3 DEF Fine, Only
<1>5. NoRecords.rectotal \in Int /\ NoRecords.freetotal \in Int
  BY DEF NoRecords
<1>6. Fine(t, cachePg)
  BY <1>4, <1>5, HdrSet
<1> HIDE DEF t
<1>7. Fine(Stores', cachePg')
  BY <1>2, <1>6, BecomesIs
<1>8. QED  BY <1>2, <1>7, StandEmpty DEF StartsRow

\* Steps that read, flush or close leave the records.
LEMMA StillLeaves ==
  ASSUME IInv, ReadStep \/ Flush \/ Close
  PROVE  LeavesRow /\ isOpen' \in BOOLEAN
<1>1. CASE ReadStep
  <2>1. HdrOnly(Stores, Stores', cachePg) /\ UNCHANGED <<cachePg, hdr, isOpen, written>>
    BY <1>1, ReadStepStill
  <2>2. Stand(Stores', cachePg, written, hdr, Row0)
    BY <2>1, Facts, StandStill DEF HdrOnly
  <2>3. QED  BY <2>1, <2>2 DEF LeavesRow, IInv
<1>2. CASE Flush \/ Close
  <2>1. PICK u : /\ HdrOnly(Stores, u, cachePg) /\ HdrOnly(u, Stores', cachePg)
                 /\ UNCHANGED <<cachePg, hdr, written>> /\ isOpen' \in BOOLEAN
    BY <1>2, SaveStep
  <2>2. Stand(u, cachePg, written, hdr, Row0)
    BY <2>1, Facts, StandStill DEF HdrOnly
  <2>3. Stand(Stores', cachePg, written, hdr, Row0)
    BY <2>1, <2>2, StandStill DEF HdrOnly
  <2>4. QED  BY <2>1, <2>3 DEF LeavesRow
<1>3. QED  BY <1>1, <1>2

\* allocRec adds a record that is not written.
LEMMA AllocAdds ==
  ASSUME IInv, AllocRec
  PROVE  AddsRow(Unwritten)
<1> DEFINE m == hdr.rectotal
           t == CacheWrite(Stores, cachePg, File, Offset(m), <<UsedFlag>>)
<1>1. /\ Becomes(t) /\ m < MaxRecs /\ UNCHANGED <<cachePg, isOpen, written>>
      /\ hdr' = [hdr EXCEPT !.rectotal = @ + 1]
  BY DEF AllocRec, SetFlag, Writing
<1>2. m \in Nat /\ m \in 0 .. MaxRecs - 1 /\ UsedFlag \in Int
  BY <1>1, Facts, Givens DEF UsedFlag
<1>3. /\ Fine(t, cachePg) /\ Quiet(Stores, t, cachePg, FlagCells(m))
      /\ Flagged(t, cachePg, m, UsedFlag)
  BY <1>2, Facts, FlagSet
<1> HIDE DEF t
<1>4. Stores' = t
  BY <1>1, <1>3, BecomesIs
<1>5. Quiet(Stores, t, cachePg, RecordCells(m))
  BY <1>2, <1>3, Apart DEF Quiet
<1>6. m \notin written
  BY <1>2, Facts DEF Stand
<1>7. RecordIs(t, cachePg, written, m, Unwritten) /\ Unwritten # Freed
  BY <1>3, <1>6 DEF RecordIs, Unwritten, Freed
<1>8. written \subseteq written /\ written \subseteq written \cup {m}
  OBVIOUS
<1>9. Stand(t, cachePg, written, hdr', More(Row0, m, Unwritten))
  BY <1>1, <1>3, <1>5, <1>7, <1>8, Facts, StandMore
<1>10. QED  BY <1>1, <1>4, <1>9 DEF AddsRow

\* addRec adds one that is.
LEMMA AddAdds ==
  ASSUME IInv, NEW v \in Values, AddRec(v)
  PROVE  AddsRow(v)
<1> DEFINE m == hdr.rectotal
           a == CacheWrite(Stores, cachePg, File, Offset(m), <<UsedFlag>>)
           d == CacheRead(a, cachePg, File, Offset(m), 1)
           t == CacheWrite(d, cachePg, File, Offset(m) + 1, Row(RecLen, v))
<1>1. /\ Becomes(t) /\ m < MaxRecs /\ UNCHANGED <<cachePg, isOpen>>
      /\ written' = written \cup {m}
      /\ hdr' = [hdr EXCEPT !.rectotal = @ + 1]
  BY DEF AddRec, SetFlag, SetData, ReadFlag, Reading, Writing, Row
<1>2. m \in Nat /\ m \in 0 .. MaxRecs - 1 /\ UsedFlag \in Int
  BY <1>1, Facts, Givens DEF UsedFlag
<1>3. /\ Fine(a, cachePg) /\ Quiet(Stores, a, cachePg, FlagCells(m))
      /\ Flagged(a, cachePg, m, UsedFlag)
  BY <1>2, Facts, FlagSet
<1> HIDE DEF a
<1>4. Fine(d, cachePg) /\ Quiet(a, d, cachePg, {})
  BY <1>2, <1>3, FlagRead
<1> HIDE DEF d
<1>5. Fine(t, cachePg) /\ Quiet(d, t, cachePg, DataCells(m)) /\ Holding(t, cachePg, m, v)
  BY <1>2, <1>4, DataSet
<1> HIDE DEF t
<1>6. /\ FlagCells(m) \subseteq RecordCells(m) /\ DataCells(m) \subseteq RecordCells(m)
      /\ {} \subseteq RecordCells(m) /\ {} \subseteq DataCells(m)
  BY <1>2, Apart
<1>7. Quiet(a, t, cachePg, DataCells(m))
  BY <1>4, <1>5, <1>6, QuietTwice
<1>8. Quiet(Stores, t, cachePg, RecordCells(m))
  BY <1>3, <1>6, <1>7, QuietTwice
<1>9. Flagged(t, cachePg, m, UsedFlag)
  <2>1. Offset(m) + 1 \in FlagCells(m) /\ Offset(m) + 1 \in Cells
    BY <1>2, Offsets DEF FlagCells, RowCells, Cells
  <2>2. Offset(m) + 1 \notin DataCells(m)
    BY <1>2, <2>1, Apart
  <2>3. QED  BY <1>3, <1>7, <2>1, <2>2 DEF Quiet, Stays, Flagged
<1>10. RecordIs(t, cachePg, written \cup {m}, m, v) /\ v # Freed
  BY <1>5, <1>9, Givens DEF RecordIs, Freed
<1>11. Stores' = t
  BY <1>1, <1>5, BecomesIs
<1>12. Stand(t, cachePg, written \cup {m}, hdr', More(Row0, m, v))
  <2>1. written \subseteq written \cup {m}
    OBVIOUS
  <2>2. QED  BY <1>1, <1>5, <1>8, <1>10, <2>1, Facts, StandMore
<1>13. QED  BY <1>1, <1>11, <1>12 DEF AddsRow

\* writeRec writes in a record in use.
LEMMA WriteWrites ==
  ASSUME IInv, NEW n \in Recs, NEW v \in Values, WriteRec(n, v)
  PROVE  WritesRow(n, v)
<1> DEFINE d == CacheRead(Stores, cachePg, File, Offset(n), 1)
           t == CacheWrite(d, cachePg, File, Offset(n) + 1, Row(RecLen, v))
<1>1. /\ Becomes(t) /\ n < hdr.rectotal /\ ~ IsFree(n) /\ UNCHANGED <<cachePg, hdr, isOpen>>
      /\ written' = written \cup {n}
  BY DEF WriteRec, SetData, ReadFlag, Reading, Writing, Row
<1>2. /\ n \in Nat /\ n \in 0 .. hdr.rectotal - 1 /\ n \in 0 .. MaxRecs - 1
      /\ Row0[n] # Freed
  BY <1>1, Place
<1>3. Fine(d, cachePg) /\ Quiet(Stores, d, cachePg, {})
  BY <1>2, Facts, FlagRead
<1> HIDE DEF d
<1>4. Fine(t, cachePg) /\ Quiet(d, t, cachePg, DataCells(n)) /\ Holding(t, cachePg, n, v)
  BY <1>2, <1>3, DataSet
<1> HIDE DEF t
<1>5. Quiet(Stores, t, cachePg, DataCells(n))
  <2>1. {} \subseteq DataCells(n)
    OBVIOUS
  <2>2. QED  BY <1>3, <1>4, <2>1, QuietTwice
<1>6. Stores' = t
  BY <1>1, <1>4, BecomesIs
<1>7. Stand(t, cachePg, written \cup {n}, hdr, Put(Row0, n, v))
  BY <1>2, <1>4, <1>5, Facts, StandWritten
<1>8. QED  BY <1>1, <1>2, <1>6, <1>7 DEF WritesRow

\* freeRec frees a record in use.
LEMMA FreeFrees ==
  ASSUME IInv, NEW n \in Recs, FreeRec(n)
  PROVE  FreesRow(n)
<1> DEFINE d == CacheRead(Stores, cachePg, File, Offset(n), 1)
           t == CacheWrite(d, cachePg, File, Offset(n), <<FreeFlag>>)
<1>1. /\ Becomes(t) /\ n < hdr.rectotal /\ ~ IsFree(n)
      /\ UNCHANGED <<cachePg, isOpen, written>>
      /\ hdr' = [hdr EXCEPT !.freetotal = @ + 1]
  BY DEF FreeRec, SetFlag, ReadFlag, Reading, Writing
<1>2. /\ n \in Nat /\ n \in 0 .. hdr.rectotal - 1 /\ n \in 0 .. MaxRecs - 1
      /\ Row0[n] # Freed /\ FreeFlag \in Int
  BY <1>1, Place DEF FreeFlag
<1>3. Fine(d, cachePg) /\ Quiet(Stores, d, cachePg, {})
  BY <1>2, Facts, FlagRead
<1> HIDE DEF d
<1>4. Fine(t, cachePg) /\ Quiet(d, t, cachePg, FlagCells(n)) /\ Flagged(t, cachePg, n, FreeFlag)
  BY <1>2, <1>3, FlagSet
<1> HIDE DEF t
<1>5. Quiet(Stores, t, cachePg, FlagCells(n))
  <2>1. {} \subseteq FlagCells(n)
    OBVIOUS
  <2>2. QED  BY <1>3, <1>4, <2>1, QuietTwice
<1>6. Stores' = t
  BY <1>1, <1>4, BecomesIs
<1>7. Stand(t, cachePg, written, hdr', Put(Row0, n, Freed))
  BY <1>1, <1>2, <1>4, <1>5, Facts, StandFreed
<1>8. QED  BY <1>1, <1>2, <1>6, <1>7 DEF FreesRow

\* Every step changes the row in one of those ways.
LEMMA StepRow ==
  ASSUME IInv, Next
  PROVE  ChangesRow /\ isOpen' \in BOOLEAN
<1>1. CASE InitStorage
  BY <1>1, InitStarts DEF ChangesRow, InitStorage
<1>2. CASE ReadStep \/ Flush \/ Close
  BY <1>2, StillLeaves DEF ChangesRow
<1>3. CASE AllocRec
  BY <1>3, AllocAdds DEF ChangesRow, AllocRec, IInv
<1>4. ASSUME NEW v \in Values, AddRec(v) PROVE ChangesRow /\ isOpen' \in BOOLEAN
  BY <1>4, AddAdds DEF ChangesRow, AddRec, IInv
<1>5. ASSUME NEW n \in Recs, NEW v \in Values, WriteRec(n, v)
      PROVE  ChangesRow /\ isOpen' \in BOOLEAN
  BY <1>5, WriteWrites, Givens DEF ChangesRow, WriteRec, IInv, Recs
<1>6. ASSUME NEW n \in Recs, FreeRec(n) PROVE ChangesRow /\ isOpen' \in BOOLEAN
  BY <1>6, FreeFrees, Givens DEF ChangesRow, FreeRec, IInv, Recs
<1>7. QED  BY <1>1, <1>2, <1>3, <1>4, <1>5, <1>6 DEF Next, ReadStep

-----------------------------------------------------------------------------
(* The storage is well typed.                                              *)

\* The invariant holds at the start.
LEMMA InitInv == Init => IInv
<1> SUFFICES ASSUME Init PROVE IInv
  OBVIOUS
<1>1. /\ disk = [f \in Files |-> <<>>] /\ cachePg \in PageSizes
      /\ pagers = [y \in {cachePg} |-> [use |-> 1, pages |-> <<>>]]
      /\ hdr = NoRecords /\ isOpen = FALSE /\ written = {}
  BY DEF Init, NewPager, NoRecords
<1>2. disk \in [Files -> Seq(Int)]
  BY <1>1
<1>3. ASSUME NEW b \in Nat, NEW y PROVE PagerWhole(y, b, [use |-> 1, pages |-> <<>>])
  BY DEF PagerWhole, PageMap
<1>4. Fine(Stores, cachePg)
  <2>1. Bound(cachePg) \in Nat
    BY <1>1, Givens, Reach
  <2>2. Sound(Stores, Bound(cachePg))
    BY <1>1, <1>2, <1>3, <2>1 DEF Sound, Stores
  <2>3. QED  BY <1>1, <2>2 DEF Fine, Only, Stores
<1>5. Stand(Stores, cachePg, written, hdr, NoRow)
  BY <1>1, <1>4, StandEmpty
<1>6. Row0 = NoRow
  <2>1. 0 .. hdr.rectotal - 1 = {} /\ 0 .. -1 = {}
    BY <1>1 DEF NoRecords
  <2>2. QED  BY <2>1 DEF Row0, NoRow
<1>7. QED  BY <1>1, <1>5, <1>6 DEF IInv

\* Every step keeps it, and the row of records is the one the step makes.
LEMMA StepInv ==
  ASSUME IInv, [Next]_vars
  PROVE  IInv'
<1>1. CASE Next
  <2>1. \E r : Stand(Stores', cachePg', written', hdr', r)
    BY <1>1, StepRow DEF ChangesRow, StartsRow, LeavesRow, AddsRow, WritesRow, FreesRow
  <2>2. QED  BY <1>1, <2>1, StepRow, StandRight
<1>2. CASE UNCHANGED vars
  <2>1. Stores' = Stores /\ UNCHANGED <<cachePg, hdr, isOpen, written>>
    BY <1>2 DEF vars, Stores
  <2>2. Stand(Stores', cachePg', written', hdr', Row0)
    BY <2>1 DEF IInv
  <2>3. QED  BY <2>1, <2>2, StandRight DEF IInv
<1>3. QED  BY <1>1, <1>2

\* The invariant holds always.
THEOREM Invariance == Spec => []IInv
<1>1. Init => IInv
  BY InitInv
<1>2. IInv /\ [Next]_vars => IInv'
  BY StepInv
<1>3. QED  BY <1>1, <1>2, PTL DEF Spec

\* The state is well typed: no more records are free than there are, and none
\* was written that there is not.
THEOREM TypeCorrect == Spec => []TypeOK
<1>1. IInv => TypeOK
  <2> SUFFICES ASSUME IInv PROVE TypeOK
    OBVIOUS
  <2>1. Stand(Stores, cachePg, written, hdr, Row0) /\ isOpen \in BOOLEAN
    BY DEF IInv
  <2>2. Sound(Stores, Bound(cachePg)) /\ cachePg \in PageSizes
    BY <2>1 DEF Stand, Fine
  <2>3. /\ disk \in [Files -> Seq(Int)] /\ DOMAIN pagers \subseteq PageSizes
        /\ \A z \in DOMAIN pagers : PagerWhole(z, Bound(cachePg), pagers[z])
    BY <2>2 DEF Sound, Stores
  <2>4. PagersTyped
    BY <2>2, <2>3 DEF PagersTyped, PagerWhole, PageMap
  <2>5. /\ hdr.rectotal \in 0 .. MaxRecs /\ hdr.freetotal \in 0 .. hdr.rectotal
        /\ written \subseteq 0 .. hdr.rectotal - 1
    BY <2>1, FreeSome DEF Stand
  <2>6. QED  BY <2>1, <2>4, <2>5 DEF TypeOK
<1>2. QED  BY <1>1, Invariance, PTL

-----------------------------------------------------------------------------
(* The storage is a row of numbered records.                               *)

\* A row of m records as a sequence.
AsSeq(r, m) == [i \in 1 .. m |-> r[i - 1]]

\* The sequence of a row with one more record.
LEMMA SeqMore ==
  ASSUME NEW m \in Nat, NEW r, \A n \in 0 .. m - 1 : r[n] \in Contents, NEW x \in Contents
  PROVE  AsSeq(More(r, m, x), m + 1) = Append(AsSeq(r, m), x)
<1> DEFINE s == AsSeq(r, m)
           q == More(r, m, x)
           t == AsSeq(q, m + 1)
<1>1. \A i \in 1 .. m : i - 1 \in 0 .. m - 1 /\ i - 1 # m /\ i \in 1 .. m + 1 /\ i - 1 \in 0 .. m
  OBVIOUS
<1>2. /\ s \in [1 .. m -> Contents]
      /\ \A i \in 1 .. m : s[i] = r[i - 1]
  BY <1>1 DEF AsSeq
<1>3. \A i \in 1 .. m : t[i] = r[i - 1]
  BY <1>1 DEF More, AsSeq
<1>4. t[m + 1] = x /\ DOMAIN t = 1 .. m + 1 /\ t = [i \in 1 .. m + 1 |-> t[i]]
  BY DEF More, AsSeq
<1> HIDE DEF s, t
<1>5. s \in Seq(Contents) /\ Len(s) = m
  BY <1>2
<1>6. /\ DOMAIN Append(s, x) = 1 .. m + 1
      /\ \A i \in 1 .. m : Append(s, x)[i] = s[i]
      /\ Append(s, x)[m + 1] = x
      /\ Append(s, x) = [i \in 1 .. m + 1 |-> Append(s, x)[i]]
  <2> DEFINE a == Append(s, x)
  <2>1. a \in Seq(Contents) /\ Len(a) = m + 1
    BY <1>5, AppendProperties
  <2>2. (\A i \in 1 .. m : a[i] = s[i]) /\ a[m + 1] = x
    BY <1>5, AppendProperties
  <2> HIDE DEF a
  <2>3. a \in [1 .. Len(a) -> Contents]
    BY <2>1, LenProperties
  <2>4. QED  BY <2>1, <2>2, <2>3 DEF a
<1>7. \A i \in 1 .. m + 1 : i = m + 1 \/ i \in 1 .. m
  OBVIOUS
<1>8. \A i \in 1 .. m + 1 : Append(s, x)[i] = t[i]
  BY <1>2, <1>3, <1>4, <1>6, <1>7
<1>9. Append(s, x) = t
  BY <1>4, <1>6, <1>8
<1>10. QED  BY <1>9 DEF s, t

\* The sequence of a row with another record.
LEMMA SeqPut ==
  ASSUME NEW m \in Nat, NEW r, DOMAIN r = 0 .. m - 1, NEW n \in 0 .. m - 1, NEW x
  PROVE  /\ AsSeq(Put(r, n, x), m) = [AsSeq(r, m) EXCEPT ![n + 1] = x]
         /\ n + 1 \in DOMAIN AsSeq(r, m) /\ AsSeq(r, m)[n + 1] = r[n]
<1>1. n + 1 \in 1 .. m /\ (n + 1) - 1 = n
  OBVIOUS
<1>2. \A i \in 1 .. m : i - 1 \in 0 .. m - 1 /\ (i - 1 = n <=> i = n + 1)
  OBVIOUS
<1>3. \A k \in 0 .. m - 1 : Put(r, n, x)[k] = IF k = n THEN x ELSE r[k]
  BY DEF Put
<1>4. QED  BY <1>1, <1>2, <1>3 DEF AsSeq

\* What a storage shows of its records.
Shown == [i \in 1 .. hdr.rectotal |-> Record(i - 1)]

\* It is the row there is, now and after a step.
LEMMA ShownIs ==
  /\ hdr.rectotal \in Nat => Shown = AsSeq(Row0, hdr.rectotal)
  /\ hdr'.rectotal \in Nat => Shown' = AsSeq(Row0', hdr'.rectotal)
<1>1. ASSUME hdr.rectotal \in Nat PROVE Shown = AsSeq(Row0, hdr.rectotal)
  <2>1. \A i \in 1 .. hdr.rectotal : Row0[i - 1] = Record(i - 1)
    BY <1>1 DEF Row0
  <2>2. QED  BY <2>1 DEF Shown, AsSeq
<1>2. ASSUME hdr'.rectotal \in Nat PROVE Shown' = AsSeq(Row0', hdr'.rectotal)
  <2>1. \A i \in 1 .. hdr'.rectotal : Row0'[i - 1] = Record(i - 1)'
    BY <1>2 DEF Row0
  <2>2. QED  BY <2>1 DEF Shown, AsSeq
<1>3. QED  BY <1>1, <1>2

\* Each step of a storage is one of a row of numbered records, or shows
\* nothing: it implements these, whatever the cache does.
THEOREM ImplementsNumbers == Spec => Implements
<1>1. Init => Numbers!NumbersInit
  BY DEF Init, Numbers!NumbersInit
<1>2. IInv /\ IInv' /\ [Next]_vars =>
        [Numbers!Start \/ Numbers!Alloc \/ Numbers!Write \/ Numbers!Free]_Numbers!vars
  <2> SUFFICES ASSUME IInv, IInv', [Next]_vars
               PROVE  \/ Numbers!Start \/ Numbers!Alloc \/ Numbers!Write \/ Numbers!Free
                      \/ UNCHANGED Numbers!vars
    OBVIOUS
  <2> DEFINE m == hdr.rectotal
  <2>1. Shown = AsSeq(Row0, m) /\ Shown' = AsSeq(Row0', hdr'.rectotal)
    <3>1. hdr.rectotal \in Nat /\ hdr'.rectotal \in Nat
      BY Givens DEF IInv, Stand
    <3>2. QED  BY <3>1, ShownIs
  <2>2. /\ m \in Nat /\ hdr.freetotal \in Int
        /\ DOMAIN Row0 = 0 .. m - 1
        /\ \A n \in 0 .. m - 1 : Row0[n] \in Contents
        /\ hdr = [rectotal |-> m, freetotal |-> hdr.freetotal]
    <3>1. Stand(Stores, cachePg, written, hdr, Row0) /\ DOMAIN Row0 = 0 .. m - 1
      BY Facts DEF Row0
    <3>2. \A n \in 0 .. m - 1 : Row0[n] \in Contents
      BY <3>1, FreeSome
    <3>3. QED  BY <3>1, <3>2, Facts DEF Stand
  <2>3. \A r : Stand(Stores', cachePg', written', hdr', r) => Row0' = r
    BY StandRight DEF IInv
  <2>4. CASE StartsRow
    <3>1. Shown' = <<>> /\ hdr'.rectotal - hdr'.freetotal = 0
      BY <2>1, <2>4 DEF StartsRow, NoRecords, AsSeq
    <3>2. QED  BY <3>1 DEF Numbers!Start, Shown
  <2>5. CASE LeavesRow \/ UNCHANGED vars
    <3>1. Row0' = Row0 /\ hdr' = hdr
      <4>1. CASE LeavesRow
        BY <2>3, <4>1 DEF LeavesRow
      <4>2. CASE UNCHANGED vars
        BY <4>2 DEF vars, Row0, Record, CellAt, IsFree, Stores
      <4>3. QED  BY <2>5, <4>1, <4>2
    <3>2. Shown' = Shown
      BY <2>1, <3>1
    <3>3. QED  BY <3>1, <3>2 DEF Numbers!vars, Shown
  <2>6. ASSUME NEW x \in Values \cup {Unwritten}, AddsRow(x)
        PROVE  Numbers!Alloc
    <3>1. Row0' = More(Row0, m, x) /\ hdr'.rectotal = m + 1 /\ hdr'.freetotal = hdr.freetotal
      BY <2>2, <2>3, <2>6 DEF AddsRow
    <3>2. Shown' = Append(Shown, x)
      BY <2>1, <2>2, <3>1, SeqMore DEF Contents
    <3>3. hdr'.rectotal - hdr'.freetotal = (hdr.rectotal - hdr.freetotal) + 1
      BY <2>2, <3>1
    <3>4. QED  BY <3>2, <3>3 DEF Numbers!Alloc, Shown
  <2>7. ASSUME NEW n \in Nat, NEW v \in Values, WritesRow(n, v)
        PROVE  Numbers!Write
    <3>1. /\ n \in 0 .. m - 1 /\ Row0[n] # Freed /\ hdr' = hdr
          /\ Row0' = Put(Row0, n, v)
      BY <2>3, <2>7 DEF WritesRow
    <3>2. /\ Shown' = [Shown EXCEPT ![n + 1] = v]
          /\ n + 1 \in DOMAIN Shown /\ Shown[n + 1] # Freed
      <4>1. Shown' = AsSeq(Put(Row0, n, v), m) /\ Shown = AsSeq(Row0, m)
        BY <2>1, <3>1
      <4>2. m \in Nat /\ DOMAIN Row0 = 0 .. m - 1 /\ n \in 0 .. m - 1 /\ Row0[n] # Freed
        BY <2>2, <3>1
      <4> HIDE DEF m
      <4>3. QED  BY <4>1, <4>2, SeqPut
    <3>3. QED  BY <3>1, <3>2 DEF Numbers!Write, Numbers!InUse, Shown
  <2>8. ASSUME NEW n \in Nat, FreesRow(n)
        PROVE  Numbers!Free
    <3>1. /\ n \in 0 .. m - 1 /\ Row0[n] # Freed
          /\ hdr'.rectotal = m /\ hdr'.freetotal = hdr.freetotal + 1
          /\ Row0' = Put(Row0, n, Freed)
      BY <2>2, <2>3, <2>8 DEF FreesRow
    <3>2. /\ Shown' = [Shown EXCEPT ![n + 1] = Freed]
          /\ n + 1 \in DOMAIN Shown /\ Shown[n + 1] # Freed
      <4>1. Shown' = AsSeq(Put(Row0, n, Freed), m) /\ Shown = AsSeq(Row0, m)
        BY <2>1, <3>1
      <4>2. m \in Nat /\ DOMAIN Row0 = 0 .. m - 1 /\ n \in 0 .. m - 1 /\ Row0[n] # Freed
        BY <2>2, <3>1
      <4> HIDE DEF m
      <4>3. QED  BY <4>1, <4>2, SeqPut
    <3>3. hdr'.rectotal - hdr'.freetotal = (hdr.rectotal - hdr.freetotal) - 1
      BY <2>2, <3>1
    <3>4. QED  BY <3>1, <3>2, <3>3 DEF Numbers!Free, Numbers!InUse, Shown
  <2>9. QED  BY <2>4, <2>5, <2>6, <2>7, <2>8, StepRow DEF ChangesRow
<1>3. QED  BY <1>1, <1>2, Invariance, PTL DEF Spec, Implements, Numbers!NumbersSpec

-----------------------------------------------------------------------------
(* What flush and close leave on disk.                                     *)

\* After flush and close the file has the counts, the flags and what was
\* written, whatever pages were in memory.
THEOREM FlushIsRight == Spec => FlushedRight
<1>1. IInv /\ IInv' /\ [Next]_vars => [Flush \/ Close => Saved']_vars
  <2> SUFFICES ASSUME IInv, Flush \/ Close PROVE Saved'
    OBVIOUS
  <2> DEFINE cell(c) == IF c <= Len(disk'[File]) THEN disk'[File][c] ELSE Junk
             z == cachePg
             m == hdr.rectotal
  <2>1. PICK u : /\ HdrOnly(Stores, u, z) /\ HdrOnly(u, Stores', z)
                 /\ Has(u, z, 0, HdrLen, HdrData(hdr))
                 /\ \A c \in Cells : Lands(u, Stores', z, c)
                 /\ UNCHANGED <<cachePg, hdr, written>>
    BY SaveStep
  <2>2. Stand(u, z, written, hdr, Row0)
    BY <2>1, Facts, StandStill DEF HdrOnly
  <2>3. \A n \in 0 .. m - 1 : Record(n)' = Row0[n]
    <3>1. LeavesRow /\ isOpen' \in BOOLEAN
      BY StillLeaves
    <3>2. Row0' = Row0 /\ hdr' = hdr
      BY <3>1, StandRight DEF LeavesRow
    <3>3. Row0' = [n \in 0 .. hdr'.rectotal - 1 |-> Record(n)']
      BY DEF Row0
    <3>4. QED  BY <3>2, <3>3
  <2>4. \A c \in Cells : Solid(u, z, c) => cell(c) = Seen(u, z, File, c)
    BY <2>1 DEF Lands, InFile, Stored, Stores
  <2> HIDE DEF cell
  <2>5. cell(3) = hdr.rectotal /\ cell(4) = hdr.freetotal
    <3>1. \A i \in 1 .. 5 : i \in Cells /\ 0 + i = i
      BY DEF Cells
    <3>2. \A i \in 1 .. 5 : Solid(u, z, i) /\ Seen(u, z, File, i) = HdrData(hdr)[i]
      BY <2>1, <3>1 DEF Has, HdrLen
    <3>3. HdrData(hdr)[3] = hdr.rectotal /\ HdrData(hdr)[4] = hdr.freetotal
      BY DEF HdrData
    <3>4. QED  BY <2>4, <3>1, <3>2, <3>3
  <2>6. ASSUME NEW n \in 0 .. m - 1
        PROVE  /\ cell(Offset(n) + 1) = IF Row0[n] = Freed THEN FreeFlag ELSE UsedFlag
               /\ Row0[n] \in Values =>
                    \A i \in 1 .. RecLen : cell(Offset(n) + 1 + i) = Row0[n]
    <3>1. n \in Nat
      BY Facts
    <3>2. Offset(n) \in Nat /\ RecLen \in Nat
      BY <3>1, Offsets, Givens
    <3>3. /\ Offset(n) + 1 \in Cells
          /\ \A i \in 1 .. RecLen : (Offset(n) + 1) + i \in Cells
      BY <3>2 DEF Cells
    <3>4. /\ Row0[n] # Freed => Flagged(u, z, n, UsedFlag)
          /\ Row0[n] = Freed => Flagged(u, z, n, FreeFlag)
      BY <2>2, InUseFlagged
    <3>5. cell(Offset(n) + 1) = IF Row0[n] = Freed THEN FreeFlag ELSE UsedFlag
      BY <2>4, <3>3, <3>4 DEF Flagged
    <3>6. ASSUME Row0[n] \in Values, NEW i \in 1 .. RecLen
          PROVE  cell(Offset(n) + 1 + i) = Row0[n]
      <4>1. Row0[n] # Freed /\ Row0[n] # Unwritten
        BY <3>6, Givens DEF Freed, Unwritten
      <4>2. RecordIs(u, z, written, n, Row0[n])
        BY <2>2 DEF Stand
      <4>3. Holding(u, z, n, Row0[n])
        BY <4>1, <4>2 DEF RecordIs
      <4>4. /\ Solid(u, z, (Offset(n) + 1) + i)
            /\ Seen(u, z, File, (Offset(n) + 1) + i) = Row0[n]
        BY <4>3 DEF Holding, Has, Row
      <4>5. QED  BY <2>4, <3>3, <4>4
    <3>7. QED  BY <3>5, <3>6
  <2>7. hdr' = hdr
    BY <2>1
  <2>8. QED  BY <2>3, <2>5, <2>6, <2>7 DEF Saved, cell
<1>2. QED  BY <1>1, Invariance, PTL DEF Spec, FlushedRight
=============================================================================
