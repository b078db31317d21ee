------------------------- MODULE SharedPagersProofs -------------------------
(***************************************************************************)
(* What the operations of SharedPagers keep and change, stated for any     *)
(* files and pagers s that are Sound.  The theorems about their clients    *)
(* rest on these lemmas.                                                   *)
(***************************************************************************)
EXTENDS SharedPagers, TLAPS, WellFoundedInduction

-----------------------------------------------------------------------------
(* About natural numbers.                                                  *)

\* The least element is what proofs by induction here start from: that of the
\* numbers for which a claim fails.
LEMMA Least ==
  ASSUME NEW T, T \subseteq Nat, T # {}
  PROVE  \E x \in T : \A y \in T : x <= y
<1> DEFINE R == OpToRel(<, Nat)
<1>1. \A x, y \in Nat : y < x => <<y, x>> \in R
  BY DEF OpToRel
<1>2. IsWellFoundedOn(R, Nat)
  BY NatLessThanWellFounded
<1> HIDE DEF R
<1>3. \E x \in T : \A y \in T : ~ (<<y, x>> \in R)
  BY <1>2, WFMin
<1>4. PICK x \in T : \A y \in T : ~ (<<y, x>> \in R)
  BY <1>3
<1>5. \A y \in T : y \in Nat /\ x \in Nat /\ ~(y < x)
  BY <1>1, <1>4
<1>6. \A y \in T : x <= y
  BY <1>5
<1>7. QED  BY <1>6

\* A bounded set of numbers has a greatest element.
LEMMA Greatest ==
  ASSUME NEW T, T \subseteq Nat, T # {}, NEW b \in Nat, \A x \in T : x <= b
  PROVE  \E x \in T : \A y \in T : y <= x
<1> DEFINE bounds == {m \in Nat : \A x \in T : x <= m}
<1>1. PICK m \in bounds : \A y \in bounds : m <= y
  <2>1. bounds \subseteq Nat /\ b \in bounds
    OBVIOUS
  <2> HIDE DEF bounds
  <2>2. QED  BY <2>1, Least
<1>2. CASE m \in T
  BY <1>2
<1>3. CASE m \notin T
  <2>1. \A x \in T : x <= m - 1
    BY <1>3
  <2>2. m - 1 \in Nat
    <3>1. PICK x \in T : TRUE
      OBVIOUS
    <3>2. x \in Nat /\ m \in Nat /\ x <= m - 1
      BY <2>1
    <3>3. QED  BY <3>2
  <2>3. m - 1 \in bounds
    BY <2>1, <2>2
  <2>4. QED  BY <1>1, <2>3
<1>4. QED  BY <1>2, <1>3

\* Products of natural numbers are natural numbers.
LEMMA Product == ASSUME NEW a \in Nat, NEW b \in Nat PROVE a * b \in Nat
  OBVIOUS

\* Number a is in block a \div b, at place a % b.
LEMMA Divided ==
  ASSUME NEW a \in Nat, NEW b \in Nat \ {0}
  PROVE  /\ a \div b \in Nat /\ a % b \in 0 .. b - 1
         /\ a = (a \div b) * b + (a % b)
  OBVIOUS

\* Place i of row p, in rows of b places.
LEMMA Placed ==
  ASSUME NEW p \in Nat, NEW b \in Nat \ {0}, NEW i \in 0 .. b - 1
  PROVE  (p * b + i) \div b = p /\ (p * b + i) % b = i
  OBVIOUS

\* Blocks follow each other.
LEMMA Later ==
  ASSUME NEW p \in Nat, NEW q \in Nat, NEW b \in Nat \ {0}, p < q
  PROVE  (p + 1) * b <= q * b
  OBVIOUS

\* Division keeps the order.
LEMMA DividedMono ==
  ASSUME NEW x \in Nat, NEW y \in Nat, NEW b \in Nat \ {0}, x <= y
  PROVE  x \div b <= y \div b
<1> DEFINE p == x \div b
           q == y \div b
<1>1. p \in Nat /\ q \in Nat /\ p * b <= x /\ y < (q + 1) * b
  BY Divided
<1> HIDE DEF p, q
<1>2. CASE p <= q
  BY <1>2 DEF p, q
<1>3. CASE q < p
  BY <1>1, <1>3, Later
<1>4. QED  BY <1>1, <1>2, <1>3

\* Blocks fit in a row whose length is a multiple of theirs.
LEMMA Fits ==
  ASSUME NEW m \in Nat, NEW b \in Nat \ {0}, m % b = 0, NEW a \in Nat, a < m
  PROVE  (a \div b + 1) * b <= m
<1> DEFINE p == a \div b
           q == m \div b
<1>1. p \in Nat /\ q \in Nat /\ p * b <= a /\ m = q * b
  BY Divided
<1> HIDE DEF p, q
<1>2. p < q
  <2> SUFFICES ASSUME q <= p PROVE FALSE
    BY <1>1
  <2>1. q * b <= p * b
    BY <1>1
  <2>2. q * b \in Nat /\ p * b \in Nat
    BY <1>1
  <2>3. QED  BY <1>1, <2>1, <2>2
<1>3. QED  BY <1>1, <1>2, Later DEF p

-----------------------------------------------------------------------------
(* Pagers and their pages.                                                 *)

\* Pages of size z, within the first b cells of their files.
PageMap(z, b, q) ==
  /\ q \in [DOMAIN q -> PageType(z)]
  /\ \A k \in DOMAIN q : k \in Files \X Nat /\ (k[2] + 1) * z <= b

\* A pager is in use and its pages are a map of pages of size z, within b.
PagerWhole(z, b, p) ==
  /\ p = [use |-> p.use, pages |-> p.pages]
  /\ p.use \in Nat \ {0}
  /\ PageMap(z, b, p.pages)

\* The files and pagers are well typed, all pages within b.
Sound(s, b) ==
  /\ s = [disk |-> s.disk, pagers |-> s.pagers]
  /\ s.disk \in [Files -> Seq(Int)]
  /\ DOMAIN s.pagers \subseteq PageSizes
  /\ s.pagers = [z \in DOMAIN s.pagers |-> s.pagers[z]]
  /\ \A z \in DOMAIN s.pagers : PagerWhole(z, b, s.pagers[z])

\* Of the pagers nothing but the pages of pager z differs, which are q.
OnlyPages(s, t, z, q) ==
  /\ DOMAIN t.pagers = DOMAIN s.pagers
  /\ PagesIn(t, z) = q
  /\ \A y \in DOMAIN s.pagers :
       t.pagers[y].use = s.pagers[y].use /\ (y # z => PagesIn(t, y) = PagesIn(s, y))

\* Other pages in one pager leave the files and the other pagers.
LEMMA PutPages ==
  ASSUME NEW b \in Nat, NEW s, Sound(s, b),
         NEW z \in DOMAIN s.pagers, NEW q, PageMap(z, b, q)
  PROVE  LET t == [s EXCEPT !.pagers[z].pages = q]
         IN  Sound(t, b) /\ t.disk = s.disk /\ OnlyPages(s, t, z, q)
<1> DEFINE t == [s EXCEPT !.pagers[z].pages = q]
<1>1. PICK d, p : s = [disk |-> d, pagers |-> p]
  BY DEF Sound
<1>2. t = [disk |-> d, pagers |-> [p EXCEPT ![z].pages = q]]
  BY <1>1
<1>3. /\ t.disk = s.disk
      /\ t.pagers = [s.pagers EXCEPT ![z] = [s.pagers[z] EXCEPT !.pages = q]]
      /\ t = [disk |-> t.disk, pagers |-> t.pagers]
  BY <1>1, <1>2
<1> HIDE DEF t
<1>4. /\ DOMAIN t.pagers = DOMAIN s.pagers
      /\ t.pagers = [y \in DOMAIN t.pagers |-> t.pagers[y]]
      /\ t.pagers[z] = [use |-> s.pagers[z].use, pages |-> q]
      /\ \A y \in DOMAIN s.pagers \ {z} : t.pagers[y] = s.pagers[y]
  BY <1>3 DEF Sound, PagerWhole
<1>5. /\ t.pagers[z].use = s.pagers[z].use /\ t.pagers[z].pages = q
      /\ t.pagers[z] = [use |-> t.pagers[z].use, pages |-> t.pagers[z].pages]
  BY <1>4
<1>6. \A y \in DOMAIN t.pagers : PagerWhole(y, b, t.pagers[y])
  BY <1>4, <1>5 DEF Sound, PagerWhole
<1>7. Sound(t, b)
  BY <1>3, <1>4, <1>6 DEF Sound
<1>8. t.disk = s.disk /\ OnlyPages(s, t, z, q)
  BY <1>3, <1>4, <1>5 DEF OnlyPages, PagesIn
<1>9. QED  BY <1>7, <1>8 DEF t

\* Other contents of the files leave the pagers.
LEMMA PutDisk ==
  ASSUME NEW b \in Nat, NEW s, Sound(s, b), NEW d \in [Files -> Seq(Int)]
  PROVE  LET t == [s EXCEPT !.disk = d]
         IN  Sound(t, b) /\ t.disk = d /\ t.pagers = s.pagers
<1> DEFINE t == [s EXCEPT !.disk = d]
<1>1. t = [disk |-> d, pagers |-> s.pagers]
  <2>1. PICK e, p : s = [disk |-> e, pagers |-> p]
    BY DEF Sound
  <2>2. QED  BY <2>1
<1>2. t.disk = d /\ t.pagers = s.pagers /\ t = [disk |-> t.disk, pagers |-> t.pagers]
  BY <1>1
<1> HIDE DEF t
<1>3. Sound(t, b)
  BY <1>2 DEF Sound
<1>4. QED  BY <1>2, <1>3 DEF t

-----------------------------------------------------------------------------
(* What the operations make of something Sound is Sound.                   *)

\* What Sound says of one pager and of the files.
LEMMA SoundAt ==
  ASSUME NEW b \in Nat, NEW s, Sound(s, b), NEW z \in DOMAIN s.pagers
  PROVE  /\ z \in PageSizes /\ z \in Nat \ {0}
         /\ PageMap(z, b, PagesIn(s, z))
         /\ s.pagers[z].use \in Nat \ {0}
         /\ \A f \in Files : s.disk[f] \in Seq(Int) /\ Len(s.disk[f]) \in Nat
BY PagersAssumption DEF Sound, PagerWhole, PagesIn

\* Two maps of pages joined are one.
LEMMA JoinedMap ==
  ASSUME NEW b \in Nat, NEW z, NEW q, NEW r, PageMap(z, b, q), PageMap(z, b, r)
  PROVE  PageMap(z, b, Joined(q, r))
BY DEF PageMap, Joined

\* A page read from disk is a page.
LEMMA ImageTyped ==
  ASSUME NEW b \in Nat, NEW s, Sound(s, b), NEW z \in PageSizes,
         NEW f \in Files, NEW page \in Nat
  PROVE  Image(s, z, f, page) \in [1 .. z -> Int]
<1>1. z \in Nat \ {0} /\ s.disk[f] \in Seq(Int)
  BY PagersAssumption DEF Sound
<1>2. \A i \in 1 .. z : page * z + i \in Nat \ {0}
  BY SMTT(40), <1>1
<1>3. \A c \in Nat \ {0} : c <= Len(s.disk[f]) => s.disk[f][c] \in Int
  BY <1>1
<1>4. QED  BY <1>2, <1>3 DEF Image, Junk

\* Page lies within the first b cells of its file.
PageFits(b, z, page) == (page + 1) * z <= b

\* A page that comes into memory.
OnePage(f, page, data) == [k \in {<<f, page>>} |-> [data |-> data, dirty |-> FALSE]]

\* Putting a page in a pager puts that page and no other.
LEMMA WithPageSound ==
  ASSUME NEW b \in Nat, NEW s, Sound(s, b), NEW z \in DOMAIN s.pagers,
         NEW f \in Files, NEW page \in Nat, PageFits(b, z, page),
         NEW data \in [1 .. z -> Int]
  PROVE  LET t == WithPage(s, z, f, page, data)
         IN  /\ Sound(t, b) /\ t.disk = s.disk
             /\ OnlyPages(s, t, z, Joined(PagesIn(s, z), OnePage(f, page, data)))
<1> DEFINE q == PagesIn(s, z)
           r == OnePage(f, page, data)
<1>1. PageMap(z, b, q) /\ PageMap(z, b, r)
  <2>1. (page + 1) * z <= b
    BY DEF PageFits
  <2>2. QED  BY <2>1, SoundAt DEF PageMap, PageType, OnePage
<1>2. PageMap(z, b, Joined(q, r))
  BY <1>1, JoinedMap
<1>3. CASE <<f, page>> \in DOMAIN q
  <2>1. Joined(q, r) = q
    BY <1>1, <1>3 DEF PageMap, Joined, OnePage
  <2>2. WithPage(s, z, f, page, data) = s
    BY <1>3 DEF WithPage
  <2>3. QED  BY <2>1, <2>2 DEF OnlyPages
<1>4. CASE <<f, page>> \notin DOMAIN q
  <2>1. WithPage(s, z, f, page, data) = [s EXCEPT !.pagers[z].pages = Joined(q, r)]
    BY <1>4 DEF WithPage, PagesIn, OnePage
  <2> HIDE DEF q, r
  <2>2. QED  BY <1>2, <2>1, PutPages DEF q, r
<1>5. QED  BY <1>3, <1>4

\* Dropping pages leaves the others as they are,
LEMMA DropSound ==
  ASSUME NEW b \in Nat, NEW s, Sound(s, b), NEW z \in DOMAIN s.pagers, NEW keys
  PROVE  LET t == Drop(s, z, keys)
             q == [k \in DOMAIN PagesIn(s, z) \ keys |-> PagesIn(s, z)[k]]
         IN  Sound(t, b) /\ t.disk = s.disk /\ OnlyPages(s, t, z, q)
<1> DEFINE q == [k \in DOMAIN PagesIn(s, z) \ keys |-> PagesIn(s, z)[k]]
<1>1. PageMap(z, b, q)
  BY SoundAt DEF PageMap
<1>2. Drop(s, z, keys) = [s EXCEPT !.pagers[z].pages = q]
  BY DEF Drop, PagesIn
<1> HIDE DEF q
<1>3. QED  BY <1>1, <1>2, PutPages DEF q

\* and takes just these.
LEMMA DropPages ==
  ASSUME NEW b \in Nat, NEW s, Sound(s, b), NEW z \in DOMAIN s.pagers, NEW keys
  PROVE  LET t == Drop(s, z, keys)
         IN  /\ Sound(t, b) /\ t.disk = s.disk
             /\ DOMAIN PagesIn(t, z) = DOMAIN PagesIn(s, z) \ keys
<1> DEFINE t == Drop(s, z, keys)
           q == [k \in DOMAIN PagesIn(s, z) \ keys |-> PagesIn(s, z)[k]]
<1>1. Sound(t, b) /\ t.disk = s.disk /\ OnlyPages(s, t, z, q)
  BY DropSound
<1> HIDE DEF t
<1>2. PagesIn(t, z) = q
  BY <1>1 DEF OnlyPages
<1>3. QED  BY <1>1, <1>2 DEF t

\* The length a file gets when pages are written is that it had or reaches to
\* the end of the last of them.
LEMMA WrittenLenRight ==
  ASSUME NEW b \in Nat, NEW s, Sound(s, b), NEW z \in DOMAIN s.pagers,
         NEW dirty, dirty \subseteq DOMAIN PagesIn(s, z), NEW f \in Files
  PROVE  LET n == WrittenLen(s, z, dirty, f)
         IN  /\ n \in Nat
             /\ n \in Extents(s, z, dirty, f)
             /\ n >= Len(s.disk[f])
             /\ \A k \in dirty : k[1] = f => n >= (k[2] + 1) * z
<1> DEFINE T == Extents(s, z, dirty, f)
<1>1. /\ Len(s.disk[f]) \in Nat /\ z \in Nat
      /\ \A k \in dirty : k[2] \in Nat /\ (k[2] + 1) * z \in Nat /\ (k[2] + 1) * z <= b
  BY SoundAt, Product DEF PageMap
<1>2. T \subseteq Nat /\ T # {} /\ \A e \in T : e <= b + Len(s.disk[f])
  BY <1>1 DEF Extents
<1>3. b + Len(s.disk[f]) \in Nat
  BY <1>1
<1> HIDE DEF T
<1>4. \E e \in T : \A d \in T : d <= e
  BY <1>2, <1>3, Greatest
<1>5. WrittenLen(s, z, dirty, f) \in T /\ \A d \in T : d <= WrittenLen(s, z, dirty, f)
  BY <1>4 DEF WrittenLen, T
<1>6. QED  BY <1>1, <1>2, <1>5 DEF T, Extents

\* Dirty pages written to disk are cells of their files, which grow as far as
\* the pages reach.
LEMMA WrittenTyped ==
  ASSUME NEW b \in Nat, NEW s, Sound(s, b), NEW z \in DOMAIN s.pagers,
         NEW dirty, dirty \subseteq DOMAIN PagesIn(s, z)
  PROVE  /\ Written(s, z, dirty) \in [Files -> Seq(Int)]
         /\ \A f \in Files :
              /\ Len(Written(s, z, dirty)[f]) = WrittenLen(s, z, dirty, f)
              /\ \A c \in 1 .. WrittenLen(s, z, dirty, f) :
                   Written(s, z, dirty)[f][c] = WrittenCell(s, z, dirty, f, c)
<1>1. ASSUME NEW f \in Files, NEW c \in 1 .. WrittenLen(s, z, dirty, f)
      PROVE  WrittenCell(s, z, dirty, f, c) \in Int
  <2> DEFINE k == <<f, (c - 1) \div z>>
  <2>1. WrittenLen(s, z, dirty, f) \in Nat
    BY WrittenLenRight
  <2>2. c \in Nat \ {0} /\ c - 1 \in Nat
    BY <2>1
  <2>3. CASE k \in dirty
    <3>1. k \in DOMAIN PagesIn(s, z) /\ z \in Nat \ {0}
      BY <2>3, SoundAt
    <3>2. PagesIn(s, z)[k].data \in [1 .. z -> Int]
      <4> HIDE DEF k
      <4>1. QED  BY <3>1, SoundAt DEF PageMap, PageType
    <3>3. ((c - 1) % z) + 1 \in 1 .. z
      BY <2>2, <3>1
    <3>4. QED  BY <2>3, <3>2, <3>3 DEF WrittenCell
  <2>4. CASE k \notin dirty
    BY <2>2, <2>4, SoundAt DEF WrittenCell, Zero
  <2>5. QED  BY <2>3, <2>4
<1>2. \A f \in Files : WrittenLen(s, z, dirty, f) \in Nat
  BY WrittenLenRight
<1>3. ASSUME NEW f \in Files
      PROVE  /\ Written(s, z, dirty)[f] \in Seq(Int)
             /\ Len(Written(s, z, dirty)[f]) = WrittenLen(s, z, dirty, f)
             /\ \A c \in 1 .. WrittenLen(s, z, dirty, f) :
                   Written(s, z, dirty)[f][c] = WrittenCell(s, z, dirty, f, c)
  <2> DEFINE n == WrittenLen(s, z, dirty, f)
             e(c) == WrittenCell(s, z, dirty, f, c)
  <2>1. n \in Nat /\ \A c \in 1 .. n : e(c) \in Int
    BY <1>1, <1>2
  <2>2. Written(s, z, dirty)[f] = [c \in 1 .. n |-> e(c)]
    BY DEF Written
  <2> HIDE DEF n, e
  <2>3. [c \in 1 .. n |-> e(c)] \in Seq(Int) /\ Len([c \in 1 .. n |-> e(c)]) = n
    BY <2>1
  <2>4. QED  BY <2>2, <2>3 DEF n, e
<1>4. QED  BY <1>3 DEF Written

\* Dumping writes the dirty pages among the given ones and marks these clean.
LEMMA DumpSound ==
  ASSUME NEW b \in Nat, NEW s, Sound(s, b), NEW z \in DOMAIN s.pagers,
         NEW keys, keys \subseteq DOMAIN PagesIn(s, z)
  PROVE  LET t == Dump(s, z, keys)
             q == [k \in DOMAIN PagesIn(s, z) |->
                     IF k \in keys THEN [PagesIn(s, z)[k] EXCEPT !.dirty = FALSE]
                     ELSE PagesIn(s, z)[k]]
         IN  /\ Sound(t, b)
             /\ t.disk = Written(s, z, Dirty(s, z, keys))
             /\ OnlyPages(s, t, z, q)
<1> DEFINE d == Written(s, z, Dirty(s, z, keys))
           u == [s EXCEPT !.disk = d]
           q == [k \in DOMAIN PagesIn(s, z) |->
                   IF k \in keys THEN [PagesIn(s, z)[k] EXCEPT !.dirty = FALSE]
                   ELSE PagesIn(s, z)[k]]
<1>1. PageMap(z, b, q)
  <2> DEFINE old == PagesIn(s, z)
  <2>1. PageMap(z, b, old)
    BY SoundAt
  <2> HIDE DEF old
  <2>2. \A k \in DOMAIN old : old[k] \in PageType(z) /\ [old[k] EXCEPT !.dirty = FALSE] \in PageType(z)
    BY <2>1 DEF PageMap, PageType
  <2>3. QED  BY <2>1, <2>2 DEF PageMap, old
<1>2. d \in [Files -> Seq(Int)]
  BY WrittenTyped DEF Dirty
<1> HIDE DEF d
<1>3. Sound(u, b) /\ u.disk = d /\ u.pagers = s.pagers
  BY <1>2, PutDisk
<1>4. Dump(s, z, keys) = [s EXCEPT !.disk = d, !.pagers[z].pages = q]
  BY DEF Dump, PagesIn, d
<1> HIDE DEF q
<1>5. Dump(s, z, keys) = [u EXCEPT !.pagers[z].pages = q]
  <2>1. PICK e, p : s = [disk |-> e, pagers |-> p]
    BY DEF Sound
  <2>2. QED  BY <1>4, <2>1
<1> HIDE DEF u
<1>6. /\ Sound(Dump(s, z, keys), b) /\ Dump(s, z, keys).disk = u.disk
      /\ OnlyPages(u, Dump(s, z, keys), z, q)
  BY <1>1, <1>3, <1>5, PutPages
<1>7. QED  BY <1>3, <1>6 DEF OnlyPages, PagesIn, d, q

-----------------------------------------------------------------------------
(* What is in the files, for clients.                                      *)

\* Cell c of file f, as it is on disk.
OnDisk(s, f, c) == IF c <= Len(s.disk[f]) THEN s.disk[f][c] ELSE Junk

\* Every file has its pages in one pager.
Home(s, home) ==
  \A z \in DOMAIN s.pagers : \A k \in DOMAIN PagesIn(s, z) : home[k[1]] = z

\* Cell c of file f as its client sees it.
View(s, home, f, c) ==
  IF home[f] \in DOMAIN s.pagers THEN Seen(s, home[f], f, c) ELSE OnDisk(s, f, c)

\* What a page that is not dirty holds of the values in v is on disk.
Clean(s, v) ==
  \A z \in DOMAIN s.pagers : \A k \in DOMAIN PagesIn(s, z) :
    ~ PagesIn(s, z)[k].dirty =>
      \A i \in 1 .. z : PagesIn(s, z)[k].data[i] \in v =>
        OnDisk(s, k[1], k[2] * z + i) = PagesIn(s, z)[k].data[i]

\* Whoever sees a value sees it still, but for the cells given.
Keeps(s, home, t, new, v, given) ==
  \A f \in Files, c \in Nat \ {0} :
    View(s, home, f, c) \in v /\ <<f, c>> \notin given =>
      View(t, new, f, c) = View(s, home, f, c)

\* The place of a cell in its page.
LEMMA CellPlace ==
  ASSUME NEW z \in Nat \ {0}, NEW c \in Nat \ {0}
  PROVE  LET p == (c - 1) \div z
             i == ((c - 1) % z) + 1
         IN  p \in Nat /\ i \in 1 .. z /\ c = p * z + i
<1>1. c - 1 \in Nat
  OBVIOUS
<1>2. QED  BY <1>1, Divided

\* A cell of a page lies in that page, at its place.
LEMMA PlaceCell ==
  ASSUME NEW z \in Nat \ {0}, NEW p \in Nat, NEW i \in 1 .. z
  PROVE  LET c == p * z + i
         IN  c \in Nat \ {0} /\ (c - 1) \div z = p /\ ((c - 1) % z) + 1 = i
<1>1. i - 1 \in 0 .. z - 1 /\ p * z \in Nat
  OBVIOUS
<1>2. /\ (p * z + (i - 1)) \div z = p
      /\ (p * z + (i - 1)) % z = i - 1
  BY <1>1, Placed
<1>3. p * z + i - 1 = p * z + (i - 1) /\ p * z + i \in Nat \ {0}
  BY <1>1
<1>4. QED  BY <1>2, <1>3

\* Cell c is at place i of page p.
IsCell(z, p, i, c) == c = p * z + i

\* So does a cell named by its page and place,
LEMMA PlaceIs ==
  ASSUME NEW z \in Nat \ {0}, NEW p \in Nat, NEW i \in 1 .. z, NEW c, IsCell(z, p, i, c)
  PROVE  c \in Nat \ {0} /\ (c - 1) \div z = p /\ ((c - 1) % z) + 1 = i
BY PlaceCell DEF IsCell

\* or by its number.
LEMMA PlaceOf ==
  ASSUME NEW z \in Nat \ {0}, NEW p \in Nat, NEW i \in 1 .. z, NEW c, c = p * z + i
  PROVE  c \in Nat \ {0} /\ (c - 1) \div z = p /\ ((c - 1) % z) + 1 = i
BY PlaceCell

\* A page reads as it is seen.
LEMMA ImageSeen ==
  ASSUME NEW s, NEW z \in Nat \ {0}, NEW f, NEW page \in Nat, NEW i \in 1 .. z
  PROVE  Image(s, z, f, page)[i] = OnDisk(s, f, page * z + i)
BY DEF Image, OnDisk

\* What is on disk once pages are written.
LEMMA DumpOnDisk ==
  ASSUME NEW b \in Nat, NEW s, Sound(s, b), NEW z \in DOMAIN s.pagers,
         NEW keys, keys \subseteq DOMAIN PagesIn(s, z),
         NEW f \in Files, NEW c \in Nat \ {0}, NEW v, Junk \notin v, Zero \notin v
  PROVE  LET t == Dump(s, z, keys)
             k == <<f, (c - 1) \div z>>
         IN  IF k \in Dirty(s, z, keys)
             THEN OnDisk(t, f, c) = PagesIn(s, z)[k].data[((c - 1) % z) + 1]
             ELSE OnDisk(s, f, c) \in v => OnDisk(t, f, c) = OnDisk(s, f, c)
<1> DEFINE t == Dump(s, z, keys)
           dirty == Dirty(s, z, keys)
           k == <<f, (c - 1) \div z>>
           n == WrittenLen(s, z, dirty, f)
<1>1. dirty \subseteq DOMAIN PagesIn(s, z)
  BY DEF Dirty
<1>2. z \in Nat \ {0} /\ Len(s.disk[f]) \in Nat
  BY SoundAt
<1>3. /\ n \in Nat /\ n >= Len(s.disk[f])
      /\ \A d \in dirty : d[1] = f => n >= (d[2] + 1) * z
  BY <1>1, WrittenLenRight
<1>4. /\ Len(t.disk[f]) = n
      /\ \A e \in 1 .. n : t.disk[f][e] = WrittenCell(s, z, dirty, f, e)
  <2>1. t.disk = Written(s, z, dirty)
    BY DumpSound
  <2> HIDE DEF t, dirty, n
  <2>2. /\ Len(Written(s, z, dirty)[f]) = n
        /\ \A e \in 1 .. n : Written(s, z, dirty)[f][e] = WrittenCell(s, z, dirty, f, e)
    BY <1>1, WrittenTyped DEF n
  <2>3. QED  BY <2>1, <2>2
<1> HIDE DEF t, dirty, n
<1>5. ASSUME k \in dirty
      PROVE  OnDisk(t, f, c) = PagesIn(s, z)[k].data[((c - 1) % z) + 1]
  <2>1. n >= ((c - 1) \div z + 1) * z
    BY <1>3, <1>5
  <2>2. c <= ((c - 1) \div z + 1) * z
    <3> DEFINE p == (c - 1) \div z
               i == ((c - 1) % z) + 1
    <3>1. p \in Nat /\ i \in 1 .. z /\ c = p * z + i
      BY <1>2, CellPlace
    <3> HIDE DEF p, i
    <3>2. c <= (p + 1) * z
      BY <1>2, <3>1
    <3>3. QED  BY <3>2 DEF p
  <2>3. ((c - 1) \div z + 1) * z \in Nat
    BY SMTT(40), <1>2, CellPlace
  <2>4. c \in 1 .. n
    BY <1>2, <1>3, <2>1, <2>2, <2>3
  <2>5. OnDisk(t, f, c) = WrittenCell(s, z, dirty, f, c)
    BY <1>4, <2>4 DEF OnDisk
  <2>6. QED  BY <1>5, <2>5 DEF WrittenCell
<1>6. ASSUME k \notin dirty, OnDisk(s, f, c) \in v
      PROVE  OnDisk(t, f, c) = OnDisk(s, f, c)
  <2>1. c <= Len(s.disk[f])
    BY <1>6 DEF OnDisk
  <2>2. c \in 1 .. n
    BY <1>2, <1>3, <2>1
  <2>3. QED  BY <1>3, <1>4, <1>6, <2>1, <2>2 DEF OnDisk, WrittenCell
<1>7. QED  BY <1>5, <1>6 DEF t, dirty

\* Writing pages, of a pager that has all the pages of their files, changes
\* nothing that is seen.
LEMMA DumpKeeps ==
  ASSUME NEW b \in Nat, NEW s, Sound(s, b), NEW home, Home(s, home),
         NEW v, Junk \notin v, Zero \notin v, Clean(s, v),
         NEW z \in DOMAIN s.pagers, NEW keys, keys \subseteq DOMAIN PagesIn(s, z)
  PROVE  LET t == Dump(s, z, keys)
         IN  Home(t, home) /\ Clean(t, v) /\ Keeps(s, home, t, home, v, {})
<1> DEFINE t == Dump(s, z, keys)
           dirty == Dirty(s, z, keys)
           q == [k \in DOMAIN PagesIn(s, z) |->
                   IF k \in keys THEN [PagesIn(s, z)[k] EXCEPT !.dirty = FALSE]
                   ELSE PagesIn(s, z)[k]]
<1>1. Sound(t, b) /\ OnlyPages(s, t, z, q)
  BY DumpSound
<1>2. z \in Nat \ {0} /\ \A y \in DOMAIN s.pagers : y \in Nat \ {0}
  BY SoundAt
<1>3. /\ dirty \subseteq keys
      /\ \A k \in dirty : k \in DOMAIN PagesIn(s, z) /\ home[k[1]] = z
      /\ \A k \in keys \ dirty : ~ PagesIn(s, z)[k].dirty
  BY DEF Dirty, Home
<1>4. \A f \in Files, c \in Nat \ {0} :
        LET k == <<f, (c - 1) \div z>>
        IN  IF k \in dirty
            THEN OnDisk(t, f, c) = PagesIn(s, z)[k].data[((c - 1) % z) + 1]
            ELSE OnDisk(s, f, c) \in v => OnDisk(t, f, c) = OnDisk(s, f, c)
  BY DumpOnDisk
<1> HIDE DEF t, dirty
<1>5. /\ DOMAIN t.pagers = DOMAIN s.pagers
      /\ \A y \in DOMAIN s.pagers :
           /\ DOMAIN PagesIn(t, y) = DOMAIN PagesIn(s, y)
           /\ y # z => PagesIn(t, y) = PagesIn(s, y)
           /\ \A k \in DOMAIN PagesIn(s, y) :
                /\ PagesIn(t, y)[k].data = PagesIn(s, y)[k].data
                /\ ~ PagesIn(t, y)[k].dirty =>
                     ~ PagesIn(s, y)[k].dirty \/ (y = z /\ k \in dirty)
  <2>1. \A k \in DOMAIN PagesIn(s, z) : PagesIn(s, z)[k] \in PageType(z)
    BY SoundAt DEF PageMap
  <2>2. \A k \in DOMAIN PagesIn(s, z) :
          /\ q[k].data = PagesIn(s, z)[k].data
          /\ ~ q[k].dirty => ~ PagesIn(s, z)[k].dirty \/ k \in dirty
    BY <1>3, <2>1 DEF PageType
  <2>3. DOMAIN q = DOMAIN PagesIn(s, z)
    OBVIOUS
  <2> HIDE DEF q
  <2>4. QED  BY <1>1, <2>2, <2>3 DEF OnlyPages
<1>6. Home(t, home)
  BY <1>5 DEF Home
<1>7. Clean(t, v)
  <2> SUFFICES ASSUME NEW y \in DOMAIN s.pagers, NEW k \in DOMAIN PagesIn(s, y),
                      ~ PagesIn(t, y)[k].dirty,
                      NEW i \in 1 .. y, PagesIn(s, y)[k].data[i] \in v
               PROVE  OnDisk(t, k[1], k[2] * y + i) = PagesIn(s, y)[k].data[i]
    BY <1>5 DEF Clean
  <2> DEFINE c == k[2] * y + i
  <2>1. k = <<k[1], k[2]>> /\ k[1] \in Files /\ k[2] \in Nat
    BY SoundAt DEF PageMap
  <2>2. c \in Nat \ {0} /\ (c - 1) \div y = k[2] /\ ((c - 1) % y) + 1 = i
    <3>1. y \in Nat \ {0} /\ k[2] \in Nat /\ IsCell(y, k[2], i, c)
      BY <1>2, <2>1 DEF IsCell
    <3> HIDE DEF c
    <3>2. QED  BY <3>1, PlaceIs
  <2>3. CASE y = z /\ k \in dirty
    BY <1>4, <2>1, <2>2, <2>3
  <2>4. CASE ~ (y = z /\ k \in dirty)
    <3>1. ~ PagesIn(s, y)[k].dirty
      BY <1>5, <2>4
    <3>2. OnDisk(s, k[1], c) = PagesIn(s, y)[k].data[i]
      BY <3>1 DEF Clean
    <3>3. <<k[1], (c - 1) \div z>> \notin dirty
      <4>1. CASE y = z
        BY <2>1, <2>2, <2>4, <4>1
      <4>2. CASE y # z
        BY <1>3, <4>2 DEF Home
      <4>3. QED  BY <4>1, <4>2
    <3>4. QED  BY <1>4, <2>1, <2>2, <3>2, <3>3
  <2>5. QED  BY <2>3, <2>4
<1>8. Keeps(s, home, t, home, v, {})
  <2> SUFFICES ASSUME NEW f \in Files, NEW c \in Nat \ {0}, View(s, home, f, c) \in v
               PROVE  View(t, home, f, c) = View(s, home, f, c)
    BY DEF Keeps
  <2>1. CASE home[f] \notin DOMAIN s.pagers
    <3>1. <<f, (c - 1) \div z>> \notin dirty
      BY <1>3, <2>1
    <3>2. QED  BY <1>4, <1>5, <2>1, <3>1 DEF View
  <2>2. CASE home[f] \in DOMAIN s.pagers
    <3> DEFINE y == home[f]
               k == <<f, (c - 1) \div y>>
    <3>1. CASE k \in DOMAIN PagesIn(s, y)
      BY <1>5, <2>2, <3>1 DEF View, Seen
    <3>2. CASE k \notin DOMAIN PagesIn(s, y)
      <4>1. <<f, (c - 1) \div z>> \notin dirty
        BY <1>3, <3>2
      <4>2. Seen(s, y, f, c) = OnDisk(s, f, c) /\ Seen(t, y, f, c) = OnDisk(t, f, c)
        BY <1>5, <2>2, <3>2 DEF Seen, OnDisk
      <4>3. QED  BY <1>4, <1>5, <2>2, <4>1, <4>2 DEF View
    <3>3. QED  BY <3>1, <3>2
  <2>3. QED  BY <2>1, <2>2
<1>9. QED  BY <1>6, <1>7, <1>8 DEF t

\* Pages that are not dirty can be dropped, others give up their cells.
LEMMA DropKeeps ==
  ASSUME NEW b \in Nat, NEW s, Sound(s, b), NEW home, Home(s, home),
         NEW v, Clean(s, v), NEW z \in DOMAIN s.pagers, NEW keys, NEW given,
         \A k \in keys \cap DOMAIN PagesIn(s, z) :
           \/ ~ PagesIn(s, z)[k].dirty
           \/ \A i \in 1 .. z : <<k[1], k[2] * z + i>> \in given
  PROVE  LET t == Drop(s, z, keys)
         IN  Home(t, home) /\ Clean(t, v) /\ Keeps(s, home, t, home, v, given)
<1> DEFINE t == Drop(s, z, keys)
           q == [k \in DOMAIN PagesIn(s, z) \ keys |-> PagesIn(s, z)[k]]
<1>1. t.disk = s.disk /\ OnlyPages(s, t, z, q)
  BY DropSound
<1>2. \A y \in DOMAIN s.pagers : y \in Nat \ {0}
  BY SoundAt
<1> HIDE DEF t
<1>3. /\ DOMAIN t.pagers = DOMAIN s.pagers
      /\ \A y \in DOMAIN s.pagers :
           /\ DOMAIN PagesIn(t, y) = DOMAIN PagesIn(s, y) \ (IF y = z THEN keys ELSE {})
           /\ \A k \in DOMAIN PagesIn(t, y) : PagesIn(t, y)[k] = PagesIn(s, y)[k]
  BY <1>1 DEF OnlyPages
<1>4. \A f, c : OnDisk(t, f, c) = OnDisk(s, f, c)
  BY <1>1 DEF OnDisk
<1>5. Home(t, home)
  BY <1>3 DEF Home
<1>6. Clean(t, v)
  <2> SUFFICES ASSUME NEW y \in DOMAIN s.pagers, NEW k \in DOMAIN PagesIn(t, y),
                      ~ PagesIn(t, y)[k].dirty,
                      NEW i \in 1 .. y, PagesIn(t, y)[k].data[i] \in v
               PROVE  OnDisk(s, k[1], k[2] * y + i) = PagesIn(t, y)[k].data[i]
    BY <1>3, <1>4 DEF Clean
  <2>1. k \in DOMAIN PagesIn(s, y) /\ PagesIn(t, y)[k] = PagesIn(s, y)[k]
    BY <1>3
  <2>2. QED  BY <2>1 DEF Clean
<1>7. Keeps(s, home, t, home, v, given)
  <2> SUFFICES ASSUME NEW f \in Files, NEW c \in Nat \ {0},
                      <<f, c>> \notin given, View(s, home, f, c) \in v
               PROVE  View(t, home, f, c) = View(s, home, f, c)
    BY DEF Keeps
  <2>1. CASE home[f] \notin DOMAIN s.pagers
    BY <1>3, <1>4, <2>1 DEF View
  <2>2. CASE home[f] \in DOMAIN s.pagers
    <3> DEFINE y == home[f]
               k == <<f, (c - 1) \div y>>
               i == ((c - 1) % y) + 1
    <3>1. View(s, home, f, c) = Seen(s, y, f, c) /\ View(t, home, f, c) = Seen(t, y, f, c)
      BY <1>3, <2>2 DEF View
    <3>2. /\ Seen(s, y, f, c) = IF k \in DOMAIN PagesIn(s, y) THEN PagesIn(s, y)[k].data[i]
                                ELSE OnDisk(s, f, c)
          /\ Seen(t, y, f, c) = IF k \in DOMAIN PagesIn(t, y) THEN PagesIn(t, y)[k].data[i]
                                ELSE OnDisk(t, f, c)
      BY DEF Seen, OnDisk
    <3>3. CASE y = z /\ k \in keys \cap DOMAIN PagesIn(s, z)
      <4>1. i \in 1 .. y /\ c = k[2] * y + i
        BY <1>2, <2>2, CellPlace
      <4>2. PagesIn(s, z)[k].data[i] \in v
        BY <3>1, <3>2, <3>3
      <4>3. OnDisk(s, f, c) = PagesIn(s, z)[k].data[i]
        <5>1. ~ PagesIn(s, z)[k].dirty
          BY <3>3, <4>1
        <5>2. QED  BY <3>3, <4>1, <4>2, <5>1 DEF Clean
      <4>4. k \notin DOMAIN PagesIn(t, z)
        BY <1>3, <3>3
      <4>5. QED  BY <1>4, <3>1, <3>2, <3>3, <4>3, <4>4
    <3>4. CASE ~ (y = z /\ k \in keys \cap DOMAIN PagesIn(s, z))
      <4>1. k \in DOMAIN PagesIn(t, y) <=> k \in DOMAIN PagesIn(s, y)
        BY <1>3, <2>2, <3>4
      <4>2. QED  BY <1>3, <1>4, <2>2, <3>1, <3>2, <4>1
    <3>5. QED  BY <3>3, <3>4
  <2>3. QED  BY <2>1, <2>2
<1>8. QED  BY <1>5, <1>6, <1>7 DEF t

\* Pages that are read hold what was seen before.
LEMMA LoadKeeps ==
  ASSUME NEW b \in Nat, NEW s, Sound(s, b), NEW home, Home(s, home),
         NEW v, Clean(s, v), NEW z \in DOMAIN s.pagers,
         NEW keys, keys \subseteq Files \X Nat, \A k \in keys : home[k[1]] = z,
         NEW t, t.disk = s.disk,
         OnlyPages(s, t, z, Joined(PagesIn(s, z),
           [k \in keys |-> [data |-> Image(s, z, k[1], k[2]), dirty |-> FALSE]]))
  PROVE  Home(t, home) /\ Clean(t, v) /\ Keeps(s, home, t, home, v, {})
<1> DEFINE r == [k \in keys |-> [data |-> Image(s, z, k[1], k[2]), dirty |-> FALSE]]
<1>1. \A y \in DOMAIN s.pagers : y \in Nat \ {0}
  BY SoundAt
<1>2. /\ DOMAIN t.pagers = DOMAIN s.pagers
      /\ \A y \in DOMAIN s.pagers : y # z => PagesIn(t, y) = PagesIn(s, y)
      /\ DOMAIN PagesIn(t, z) = DOMAIN PagesIn(s, z) \cup keys
      /\ \A k \in DOMAIN PagesIn(s, z) : PagesIn(t, z)[k] = PagesIn(s, z)[k]
      /\ \A k \in keys \ DOMAIN PagesIn(s, z) :
           PagesIn(t, z)[k] = [data |-> Image(s, z, k[1], k[2]), dirty |-> FALSE]
  BY DEF OnlyPages, Joined
<1>3. \A f, c : OnDisk(t, f, c) = OnDisk(s, f, c)
  BY DEF OnDisk
<1>4. Home(t, home)
  BY <1>2 DEF Home
<1>5. ASSUME NEW k \in keys \ DOMAIN PagesIn(s, z), NEW i \in 1 .. z
      PROVE  PagesIn(t, z)[k].data[i] = OnDisk(s, k[1], k[2] * z + i)
  <2>1. k[2] \in Nat /\ z \in Nat \ {0}
    BY <1>1
  <2>2. Image(s, z, k[1], k[2])[i] = OnDisk(s, k[1], k[2] * z + i)
    BY SMTT(40), <2>1, ImageSeen
  <2>3. QED  BY <1>2, <2>2
<1>6. Clean(t, v)
  <2> SUFFICES ASSUME NEW y \in DOMAIN s.pagers, NEW k \in DOMAIN PagesIn(t, y),
                      ~ PagesIn(t, y)[k].dirty,
                      NEW i \in 1 .. y, PagesIn(t, y)[k].data[i] \in v
               PROVE  OnDisk(s, k[1], k[2] * y + i) = PagesIn(t, y)[k].data[i]
    BY <1>2, <1>3 DEF Clean
  <2>1. CASE y = z /\ k \notin DOMAIN PagesIn(s, z)
    BY <1>2, <1>5, <2>1
  <2>2. CASE ~ (y = z /\ k \notin DOMAIN PagesIn(s, z))
    BY <1>2, <2>2 DEF Clean
  <2>3. QED  BY <2>1, <2>2
<1>7. Keeps(s, home, t, home, v, {})
  <2> SUFFICES ASSUME NEW f \in Files, NEW c \in Nat \ {0}
               PROVE  View(t, home, f, c) = View(s, home, f, c)
    BY DEF Keeps
  <2>1. CASE home[f] \notin DOMAIN s.pagers
    BY <1>2, <1>3, <2>1 DEF View
  <2>2. CASE home[f] \in DOMAIN s.pagers
    <3> DEFINE y == home[f]
               k == <<f, (c - 1) \div y>>
               i == ((c - 1) % y) + 1
    <3>1. View(s, home, f, c) = Seen(s, y, f, c) /\ View(t, home, f, c) = Seen(t, y, f, c)
      BY <1>2, <2>2 DEF View
    <3>2. /\ Seen(s, y, f, c) = IF k \in DOMAIN PagesIn(s, y) THEN PagesIn(s, y)[k].data[i]
                                ELSE OnDisk(s, f, c)
          /\ Seen(t, y, f, c) = IF k \in DOMAIN PagesIn(t, y) THEN PagesIn(t, y)[k].data[i]
                                ELSE OnDisk(t, f, c)
      BY DEF Seen, OnDisk
    <3>3. CASE y = z /\ k \in keys \ DOMAIN PagesIn(s, z)
      <4>1. i \in 1 .. y /\ c = k[2] * y + i
        BY <1>1, <2>2, CellPlace
      <4>2. PagesIn(t, z)[k].data[i] = OnDisk(s, f, c)
        <5>1. k[1] = f /\ k \in keys \ DOMAIN PagesIn(s, z) /\ i \in 1 .. z /\ c = k[2] * z + i
          BY <3>3, <4>1
        <5> HIDE DEF k, i
        <5>2. PagesIn(t, z)[k].data[i] = OnDisk(s, k[1], k[2] * z + i)
          BY <1>5, <5>1
        <5>3. QED  BY <5>1, <5>2
      <4>3. k \in DOMAIN PagesIn(t, z)
        BY <1>2, <3>3
      <4>4. QED  BY <3>1, <3>2, <3>3, <4>2, <4>3
    <3>4. CASE ~ (y = z /\ k \in keys \ DOMAIN PagesIn(s, z))
      <4>1. k \in DOMAIN PagesIn(t, y) <=> k \in DOMAIN PagesIn(s, y)
        BY <1>2, <2>2, <3>4
      <4>2. k \in DOMAIN PagesIn(s, y) => PagesIn(t, y)[k] = PagesIn(s, y)[k]
        BY <1>2, <2>2
      <4>3. QED  BY <1>3, <3>1, <3>2, <4>1, <4>2
    <3>5. QED  BY <3>3, <3>4
  <2>3. QED  BY <2>1, <2>2
<1>8. QED  BY <1>4, <1>6, <1>7

\* The pages in keys are written to, and so are dirty, in the cells given.
PutsOnly(s, t, z, keys, given) ==
  /\ t.disk = s.disk
  /\ DOMAIN t.pagers = DOMAIN s.pagers
  /\ \A y \in DOMAIN s.pagers : y # z => PagesIn(t, y) = PagesIn(s, y)
  /\ DOMAIN PagesIn(t, z) = DOMAIN PagesIn(s, z) \cup keys
  /\ \A k \in DOMAIN PagesIn(s, z) \ keys : PagesIn(t, z)[k] = PagesIn(s, z)[k]
  /\ \A k \in keys :
       /\ PagesIn(t, z)[k].dirty
       /\ \A i \in 1 .. z :
            LET c == k[2] * z + i
            IN  <<k[1], c>> \notin given =>
                  PagesIn(t, z)[k].data[i] = Seen(s, z, k[1], c)

\* Putting pages of files that are at home in the pager, with what is seen of
\* them but for the cells given, keeps all other cells.
LEMMA PutKeeps ==
  ASSUME NEW b \in Nat, NEW s, Sound(s, b), NEW home, Home(s, home),
         NEW v, Clean(s, v), NEW z \in DOMAIN s.pagers, NEW given,
         NEW keys, keys \subseteq Files \X Nat, \A k \in keys : home[k[1]] = z,
         NEW t, PutsOnly(s, t, z, keys, given)
  PROVE  Home(t, home) /\ Clean(t, v) /\ Keeps(s, home, t, home, v, given)
<1>1. \A y \in DOMAIN s.pagers : y \in Nat \ {0}
  BY SoundAt
<1>2. \A f, c : OnDisk(t, f, c) = OnDisk(s, f, c)
  BY DEF OnDisk, PutsOnly
<1>3. Home(t, home)
  BY DEF Home, PutsOnly
<1>4. Clean(t, v)
  <2> SUFFICES ASSUME NEW y \in DOMAIN s.pagers, NEW k \in DOMAIN PagesIn(t, y),
                      ~ PagesIn(t, y)[k].dirty,
                      NEW i \in 1 .. y, PagesIn(t, y)[k].data[i] \in v
               PROVE  OnDisk(s, k[1], k[2] * y + i) = PagesIn(t, y)[k].data[i]
    BY <1>2 DEF Clean, PutsOnly
  <2>1. k \in DOMAIN PagesIn(s, y) /\ PagesIn(t, y)[k] = PagesIn(s, y)[k]
    BY DEF PutsOnly
  <2>2. QED  BY <2>1 DEF Clean
<1>5. Keeps(s, home, t, home, v, given)
  <2> SUFFICES ASSUME NEW f \in Files, NEW c \in Nat \ {0}, <<f, c>> \notin given
               PROVE  View(t, home, f, c) = View(s, home, f, c)
    BY DEF Keeps
  <2>1. CASE home[f] \notin DOMAIN s.pagers
    BY <1>2, <2>1 DEF View, PutsOnly
  <2>2. CASE home[f] \in DOMAIN s.pagers
    <3> DEFINE y == home[f]
               k == <<f, (c - 1) \div y>>
               i == ((c - 1) % y) + 1
    <3>1. View(s, home, f, c) = Seen(s, y, f, c) /\ View(t, home, f, c) = Seen(t, y, f, c)
      BY <2>2 DEF View, PutsOnly
    <3>2. /\ Seen(s, y, f, c) = IF k \in DOMAIN PagesIn(s, y) THEN PagesIn(s, y)[k].data[i]
                                ELSE OnDisk(s, f, c)
          /\ Seen(t, y, f, c) = IF k \in DOMAIN PagesIn(t, y) THEN PagesIn(t, y)[k].data[i]
                                ELSE OnDisk(t, f, c)
      BY DEF Seen, OnDisk
    <3>3. CASE y = z /\ k \in keys
      <4>1. i \in 1 .. y /\ c = k[2] * y + i
        BY <1>1, <2>2, CellPlace
      <4>2. PagesIn(t, z)[k].data[i] = Seen(s, z, f, c)
        <5>1. k[1] = f /\ k \in keys /\ i \in 1 .. z /\ c = k[2] * z + i
          BY <3>3, <4>1
        <5>2. <<k[1], k[2] * z + i>> \notin given
          BY <5>1
        <5> HIDE DEF k, i
        <5>3. PagesIn(t, z)[k].data[i] = Seen(s, z, k[1], k[2] * z + i)
          BY <5>1, <5>2 DEF PutsOnly
        <5>4. QED  BY <5>1, <5>3
      <4>3. k \in DOMAIN PagesIn(t, z)
        BY <3>3 DEF PutsOnly
      <4>4. QED  BY <3>1, <3>2, <3>3, <4>2, <4>3
    <3>4. CASE ~ (y = z /\ k \in keys)
      <4>1. k \in DOMAIN PagesIn(t, y) <=> k \in DOMAIN PagesIn(s, y)
        BY <2>2, <3>4 DEF PutsOnly
      <4>2. k \in DOMAIN PagesIn(s, y) => PagesIn(t, y)[k] = PagesIn(s, y)[k]
        BY <2>2, <3>4 DEF PutsOnly
      <4>3. QED  BY <1>2, <3>1, <3>2, <4>1, <4>2
    <3>5. QED  BY <3>3, <3>4
  <2>3. QED  BY <2>1, <2>2
<1>6. QED  BY <1>3, <1>4, <1>5

\* Files that change on disk in cells no page holds give up those.
LEMMA DiskKeeps ==
  ASSUME NEW b \in Nat, NEW s, Sound(s, b), NEW home, Home(s, home),
         NEW v, Clean(s, v), NEW given,
         NEW t, t.pagers = s.pagers,
         \A f \in Files, c \in Nat \ {0} :
           OnDisk(s, f, c) \in v /\ <<f, c>> \notin given => OnDisk(t, f, c) = OnDisk(s, f, c),
         \A z \in DOMAIN s.pagers : \A k \in DOMAIN PagesIn(s, z) : \A i \in 1 .. z :
           <<k[1], k[2] * z + i>> \notin given
  PROVE  Home(t, home) /\ Clean(t, v) /\ Keeps(s, home, t, home, v, given)
<1>1. \A y \in DOMAIN s.pagers : PagesIn(t, y) = PagesIn(s, y)
  BY DEF PagesIn
<1>2. Home(t, home)
  BY <1>1 DEF Home
<1>3. Clean(t, v)
  <2> SUFFICES ASSUME NEW y \in DOMAIN s.pagers, NEW k \in DOMAIN PagesIn(s, y),
                      ~ PagesIn(s, y)[k].dirty,
                      NEW i \in 1 .. y, PagesIn(s, y)[k].data[i] \in v
               PROVE  OnDisk(t, k[1], k[2] * y + i) = PagesIn(s, y)[k].data[i]
    BY <1>1 DEF Clean
  <2>1. OnDisk(s, k[1], k[2] * y + i) = PagesIn(s, y)[k].data[i]
    BY DEF Clean
  <2>2. k[1] \in Files /\ k[2] \in Nat /\ y \in Nat \ {0}
    BY SoundAt DEF PageMap
  <2>3. k[2] * y + i \in Nat \ {0}
    BY <2>2, PlaceCell
  <2>4. QED  BY <2>1, <2>2, <2>3
<1>4. Keeps(s, home, t, home, v, given)
  <2> SUFFICES ASSUME NEW f \in Files, NEW c \in Nat \ {0}, <<f, c>> \notin given,
                      View(s, home, f, c) \in v
               PROVE  View(t, home, f, c) = View(s, home, f, c)
    BY DEF Keeps
  <2>1. \/ View(s, home, f, c) = OnDisk(s, f, c) /\ View(t, home, f, c) = OnDisk(t, f, c)
        \/ View(t, home, f, c) = View(s, home, f, c)
    BY <1>1 DEF View, Seen, OnDisk
  <2>2. QED  BY <2>1
<1>5. QED  BY <1>2, <1>3, <1>4

\* A file none of whose pages are in memory may be given to any pager.
LEMMA Rehome ==
  ASSUME NEW s, NEW home, Home(s, home), NEW v, NEW new,
         \A f \in Files :
           \/ new[f] = home[f]
           \/ \A z \in DOMAIN s.pagers : \A k \in DOMAIN PagesIn(s, z) : k[1] # f,
         \A z \in DOMAIN s.pagers : \A k \in DOMAIN PagesIn(s, z) : k[1] \in Files
  PROVE  Home(s, new) /\ Keeps(s, home, s, new, v, {})
<1>1. Home(s, new)
  BY DEF Home
<1>2. ASSUME NEW f \in Files, NEW c
      PROVE  View(s, new, f, c) = View(s, home, f, c)
  <2>1. CASE new[f] = home[f]
    BY <2>1 DEF View
  <2>2. CASE \A z \in DOMAIN s.pagers : \A k \in DOMAIN PagesIn(s, z) : k[1] # f
    <3>1. \A z \in DOMAIN s.pagers : <<f, (c - 1) \div z>> \notin DOMAIN PagesIn(s, z)
      BY <2>2
    <3>2. \A z \in DOMAIN s.pagers : Seen(s, z, f, c) = OnDisk(s, f, c)
      BY <3>1 DEF Seen, OnDisk
    <3>3. QED  BY <3>2 DEF View
  <2>3. QED  BY <2>1, <2>2
<1>3. QED  BY <1>1, <1>2 DEF Keeps

\* What two steps keep both keep.
LEMMA KeepsTwice ==
  ASSUME NEW s, NEW t, NEW u, NEW h, NEW i, NEW j, NEW v, NEW given,
         NEW some, NEW more, some \subseteq given, more \subseteq given,
         Keeps(s, h, t, i, v, some), Keeps(t, i, u, j, v, more)
  PROVE  Keeps(s, h, u, j, v, given)
BY DEF Keeps

-----------------------------------------------------------------------------
(* Files resized.                                                          *)

\* Resizing a file keeps its cells within the new size; the others are Zero.
LEMMA ResizeSound ==
  ASSUME NEW b \in Nat, NEW s, Sound(s, b), NEW f \in Files, NEW size \in Nat
  PROVE  LET t == Resize(s, f, size)
         IN  /\ Sound(t, b) /\ t.pagers = s.pagers
             /\ Len(t.disk[f]) = size
             /\ \A g \in Files \ {f} : t.disk[g] = s.disk[g]
             /\ \A c \in 1 .. size :
                  t.disk[f][c] = IF c <= Len(s.disk[f]) THEN s.disk[f][c] ELSE Zero
<1> DEFINE e(c) == IF c <= Len(s.disk[f]) THEN s.disk[f][c] ELSE Zero
           x == [c \in 1 .. size |-> e(c)]
           d == [s.disk EXCEPT ![f] = x]
<1>1. s.disk \in [Files -> Seq(Int)] /\ s.disk[f] \in Seq(Int)
  BY DEF Sound
<1>2. \A c \in 1 .. size : e(c) \in Int
  BY <1>1 DEF Zero
<1>3. Resize(s, f, size) = [s EXCEPT !.disk = d]
  <2>1. PICK g, p : s = [disk |-> g, pagers |-> p]
    BY DEF Sound
  <2>2. QED  BY <2>1 DEF Resize
<1> HIDE DEF e
<1>4. x \in Seq(Int) /\ Len(x) = size /\ \A c \in 1 .. size : x[c] = e(c)
  BY <1>2
<1> HIDE DEF x
<1>5. d \in [Files -> Seq(Int)] /\ d[f] = x /\ \A g \in Files \ {f} : d[g] = s.disk[g]
  BY <1>1, <1>4
<1> HIDE DEF d
<1>6. LET t == [s EXCEPT !.disk = d]
      IN  Sound(t, b) /\ t.disk = d /\ t.pagers = s.pagers
  BY <1>5, PutDisk
<1>7. QED  BY <1>3, <1>4, <1>5, <1>6 DEF e

\* What a resize leaves as it is.
LEMMA ResizeKept ==
  ASSUME NEW b \in Nat, NEW s, Sound(s, b), NEW f \in Files, NEW size \in Nat
  PROVE  /\ Sound(Resize(s, f, size), b) /\ Resize(s, f, size).pagers = s.pagers
         /\ \A g \in Files \ {f} : Resize(s, f, size).disk[g] = s.disk[g]
  BY ResizeSound

\* A cell that is written is on disk as it was, if it is not cut off.
LEMMA ResizeOnDisk ==
  ASSUME NEW b \in Nat, NEW s, Sound(s, b), NEW f \in Files, NEW size \in Nat,
         NEW v, Junk \notin v, NEW g \in Files, NEW c \in Nat \ {0},
         OnDisk(s, g, c) \in v, g # f \/ c <= size
  PROVE  OnDisk(Resize(s, f, size), g, c) = OnDisk(s, g, c)
<1>1. c <= Len(s.disk[g])
  BY DEF OnDisk
<1>2. CASE g # f
  <2>1. Resize(s, f, size).disk[g] = s.disk[g]
    BY <1>2, ResizeSound
  <2>2. QED  BY <2>1 DEF OnDisk
<1>3. CASE g = f
  <2>1. c \in 1 .. size
    BY <1>3
  <2>2. QED  BY <1>1, <1>3, <2>1, ResizeSound DEF OnDisk
<1>4. QED  BY <1>2, <1>3

-----------------------------------------------------------------------------
(* commit and detach.                                                      *)

\* No page of file f is dirty, of those in pager z; and none is in memory.
AllClean(s, z, f) == \A k \in PagesFor(s, z, f) : ~ PagesIn(s, z)[k].dirty
\* The pager has no page of the file.
Gone(s, z, f) == PagesFor(s, z, f) = {}

\* Only pages of f differ, and only in what is in them.
OthersSame(s, t, z, f) ==
  /\ DOMAIN t.pagers = DOMAIN s.pagers
  /\ \A y \in DOMAIN s.pagers :
       /\ t.pagers[y].use = s.pagers[y].use
       /\ y # z => PagesIn(t, y) = PagesIn(s, y)
       /\ DOMAIN PagesIn(t, y) \subseteq DOMAIN PagesIn(s, y)
       /\ \A k \in DOMAIN PagesIn(s, y) :
            k[1] # f => k \in DOMAIN PagesIn(t, y) /\ PagesIn(t, y)[k] = PagesIn(s, y)[k]

\* Files grow only up to the end of a page that was dirty.
Grown(s, t, z, dirty) ==
  \A f \in Files : Len(t.disk[f]) \in Extents(s, z, dirty, f) /\ Len(t.disk[f]) >= Len(s.disk[f])

\* Dumping in terms of what the pagers have before and after.
LEMMA DumpSet ==
  ASSUME NEW b \in Nat, NEW s, Sound(s, b), NEW z \in DOMAIN s.pagers,
         NEW keys, keys \subseteq DOMAIN PagesIn(s, z)
  PROVE  LET t == Dump(s, z, keys)
         IN  /\ Sound(t, b)
             /\ DOMAIN t.pagers = DOMAIN s.pagers
             /\ \A y \in DOMAIN s.pagers :
                  /\ t.pagers[y].use = s.pagers[y].use
                  /\ y # z => PagesIn(t, y) = PagesIn(s, y)
                  /\ DOMAIN PagesIn(t, y) = DOMAIN PagesIn(s, y)
             /\ \A k \in keys : ~ PagesIn(t, z)[k].dirty
             /\ \A k \in DOMAIN PagesIn(s, z) \ keys : PagesIn(t, z)[k] = PagesIn(s, z)[k]
             /\ Grown(s, t, z, Dirty(s, z, keys))
<1> DEFINE t == Dump(s, z, keys)
           q == [k \in DOMAIN PagesIn(s, z) |->
                   IF k \in keys THEN [PagesIn(s, z)[k] EXCEPT !.dirty = FALSE]
                   ELSE PagesIn(s, z)[k]]
<1>1. /\ Sound(t, b) /\ t.disk = Written(s, z, Dirty(s, z, keys))
      /\ OnlyPages(s, t, z, q)
  BY DumpSound
<1> HIDE DEF t
<1>2. \A k \in keys : PagesIn(s, z)[k] \in PageType(z)
  BY SoundAt DEF PageMap
<1>3. /\ DOMAIN q = DOMAIN PagesIn(s, z)
      /\ \A k \in keys : ~ q[k].dirty
      /\ \A k \in DOMAIN PagesIn(s, z) \ keys : q[k] = PagesIn(s, z)[k]
  BY <1>2 DEF PageType
<1> HIDE DEF q
<1>4. /\ DOMAIN t.pagers = DOMAIN s.pagers
      /\ \A y \in DOMAIN s.pagers :
           /\ t.pagers[y].use = s.pagers[y].use
           /\ y # z => PagesIn(t, y) = PagesIn(s, y)
           /\ DOMAIN PagesIn(t, y) = DOMAIN PagesIn(s, y)
      /\ \A k \in keys : ~ PagesIn(t, z)[k].dirty
      /\ \A k \in DOMAIN PagesIn(s, z) \ keys : PagesIn(t, z)[k] = PagesIn(s, z)[k]
  BY <1>1, <1>3 DEF OnlyPages
<1>5. Grown(s, t, z, Dirty(s, z, keys))
  <2> DEFINE dirty == Dirty(s, z, keys)
  <2>1. dirty \subseteq DOMAIN PagesIn(s, z)
    BY DEF Dirty
  <2>2. t.disk = Written(s, z, dirty)
    BY <1>1
  <2> HIDE DEF dirty
  <2>3. \A f \in Files : Len(t.disk[f]) = WrittenLen(s, z, dirty, f)
    BY <2>1, <2>2, WrittenTyped
  <2>4. \A f \in Files :
          /\ WrittenLen(s, z, dirty, f) \in Extents(s, z, dirty, f)
          /\ WrittenLen(s, z, dirty, f) >= Len(s.disk[f])
    BY <2>1, WrittenLenRight
  <2>5. QED  BY <2>3, <2>4 DEF Grown, dirty
<1>6. QED  BY <1>1, <1>4, <1>5 DEF t

\* Committing a file writes its dirty pages and leaves all others.
LEMMA CommitSound ==
  ASSUME NEW b \in Nat, NEW s, Sound(s, b), NEW z \in DOMAIN s.pagers, NEW f \in Files
  PROVE  LET t == Commit(s, z, f)
         IN  /\ Sound(t, b) /\ OthersSame(s, t, z, f) /\ AllClean(t, z, f)
             /\ DOMAIN PagesIn(t, z) = DOMAIN PagesIn(s, z)
             /\ Grown(s, t, z, Dirty(s, z, PagesFor(s, z, f)))
<1> DEFINE keys == PagesFor(s, z, f)
           t == Dump(s, z, keys)
<1>1. keys \subseteq DOMAIN PagesIn(s, z) /\ \A k \in DOMAIN PagesIn(s, z) : k \in keys <=> k[1] = f
  BY DEF PagesFor
<1> HIDE DEF keys
<1>2. /\ Sound(t, b) /\ DOMAIN t.pagers = DOMAIN s.pagers
      /\ \A y \in DOMAIN s.pagers :
           /\ t.pagers[y].use = s.pagers[y].use
           /\ y # z => PagesIn(t, y) = PagesIn(s, y)
           /\ DOMAIN PagesIn(t, y) = DOMAIN PagesIn(s, y)
      /\ \A k \in keys : ~ PagesIn(t, z)[k].dirty
      /\ \A k \in DOMAIN PagesIn(s, z) \ keys : PagesIn(t, z)[k] = PagesIn(s, z)[k]
  BY <1>1, DumpSet
<1>3. Grown(s, t, z, Dirty(s, z, keys))
  BY <1>1, DumpSet
<1>4. t = Commit(s, z, f) /\ keys = PagesFor(s, z, f)
  BY DEF Commit, keys
<1> HIDE DEF t
<1>5. OthersSame(s, t, z, f)
  BY <1>1, <1>2 DEF OthersSame
<1>6. AllClean(t, z, f)
  BY <1>1, <1>2 DEF AllClean, PagesFor
<1>7. QED  BY <1>2, <1>3, <1>4, <1>5, <1>6

\* Committing changes no cell that is seen.
LEMMA CommitKeeps ==
  ASSUME NEW b \in Nat, NEW s, Sound(s, b), NEW home, Home(s, home),
         NEW v, Junk \notin v, Zero \notin v, Clean(s, v),
         NEW z \in DOMAIN s.pagers, NEW f \in Files
  PROVE  LET t == Commit(s, z, f)
         IN  Home(t, home) /\ Clean(t, v) /\ Keeps(s, home, t, home, v, {})
<1>1. PagesFor(s, z, f) \subseteq DOMAIN PagesIn(s, z)
  BY DEF PagesFor
<1>2. QED  BY <1>1, DumpKeeps DEF Commit

\* Detaching a file writes its dirty pages and drops its pages.
LEMMA DetachSound ==
  ASSUME NEW b \in Nat, NEW s, Sound(s, b), NEW z \in DOMAIN s.pagers, NEW f \in Files
  PROVE  LET t == Detach(s, z, f)
         IN  /\ Sound(t, b) /\ OthersSame(s, t, z, f) /\ Gone(t, z, f)
             /\ Grown(s, t, z, Dirty(s, z, PagesFor(s, z, f)))
<1> DEFINE u == Commit(s, z, f)
           keys == PagesFor(s, z, f)
           t == Drop(u, z, keys)
<1>1. /\ Sound(u, b) /\ OthersSame(s, u, z, f)
      /\ DOMAIN PagesIn(u, z) = DOMAIN PagesIn(s, z)
      /\ Grown(s, u, z, Dirty(s, z, keys))
  BY CommitSound
<1>2. z \in DOMAIN u.pagers
  BY <1>1 DEF OthersSame
<1>3. \A k \in DOMAIN PagesIn(s, z) : k \in keys <=> k[1] = f
  BY DEF PagesFor
<1> HIDE DEF u, keys
<1>4. /\ Sound(t, b) /\ t.disk = u.disk
      /\ OnlyPages(u, t, z, [k \in DOMAIN PagesIn(u, z) \ keys |-> PagesIn(u, z)[k]])
  BY <1>1, <1>2, DropSound
<1>5. t = Detach(s, z, f)
  BY DEF Detach, u, keys
<1> HIDE DEF t
<1>6. OthersSame(s, t, z, f)
  BY <1>1, <1>3, <1>4 DEF OthersSame, OnlyPages
<1>7. Gone(t, z, f)
  BY <1>1, <1>3, <1>4 DEF Gone, OnlyPages, PagesFor
<1>8. Grown(s, t, z, Dirty(s, z, keys))
  BY <1>1, <1>4 DEF Grown
<1>9. QED  BY <1>4, <1>5, <1>6, <1>7, <1>8 DEF keys

\* Detaching changes no cell that is seen.
LEMMA DetachKeeps ==
  ASSUME NEW b \in Nat, NEW s, Sound(s, b), NEW home, Home(s, home),
         NEW v, Junk \notin v, Zero \notin v, Clean(s, v),
         NEW z \in DOMAIN s.pagers, NEW f \in Files
  PROVE  LET t == Detach(s, z, f)
         IN  Home(t, home) /\ Clean(t, v) /\ Keeps(s, home, t, home, v, {})
<1> DEFINE u == Commit(s, z, f)
<1>1. /\ Sound(u, b) /\ OthersSame(s, u, z, f) /\ AllClean(u, z, f)
      /\ DOMAIN PagesIn(u, z) = DOMAIN PagesIn(s, z)
  BY CommitSound
<1>2. Home(u, home) /\ Clean(u, v) /\ Keeps(s, home, u, home, v, {})
  BY CommitKeeps
<1> HIDE DEF u
<1>3. /\ z \in DOMAIN u.pagers
      /\ \A k \in PagesFor(s, z, f) : ~ PagesIn(u, z)[k].dirty
  BY <1>1 DEF OthersSame, AllClean, PagesFor
<1>4. LET t == Drop(u, z, PagesFor(s, z, f))
      IN  Home(t, home) /\ Clean(t, v) /\ Keeps(u, home, t, home, v, {})
  BY <1>1, <1>2, <1>3, DropKeeps
<1>5. QED  BY <1>2, <1>4, KeepsTwice DEF Detach, u

\* A page is written and dropped.
LEMMA EvictSound ==
  ASSUME NEW b \in Nat, NEW s, Sound(s, b), NEW z \in DOMAIN s.pagers,
         NEW key \in DOMAIN PagesIn(s, z)
  PROVE  LET t == Drop(Dump(s, z, {key}), z, {key})
         IN  /\ Sound(t, b)
             /\ DOMAIN t.pagers = DOMAIN s.pagers
             /\ \A y \in DOMAIN s.pagers :
                  /\ t.pagers[y].use = s.pagers[y].use
                  /\ \A k \in DOMAIN PagesIn(t, y) :
                       k \in DOMAIN PagesIn(s, y) /\ PagesIn(t, y)[k] = PagesIn(s, y)[k]
             /\ Grown(s, t, z, Dirty(s, z, {key}))
<1> DEFINE u == Dump(s, z, {key})
           t == Drop(u, z, {key})
<1>1. /\ Sound(u, b) /\ DOMAIN u.pagers = DOMAIN s.pagers
      /\ \A y \in DOMAIN s.pagers :
           /\ u.pagers[y].use = s.pagers[y].use
           /\ y # z => PagesIn(u, y) = PagesIn(s, y)
           /\ DOMAIN PagesIn(u, y) = DOMAIN PagesIn(s, y)
      /\ \A k \in DOMAIN PagesIn(s, z) \ {key} : PagesIn(u, z)[k] = PagesIn(s, z)[k]
  BY DumpSet
<1>2. Grown(s, u, z, Dirty(s, z, {key}))
  BY DumpSet
<1> HIDE DEF u
<1>3. /\ Sound(t, b) /\ t.disk = u.disk
      /\ OnlyPages(u, t, z, [k \in DOMAIN PagesIn(u, z) \ {key} |-> PagesIn(u, z)[k]])
  BY <1>1, DropSound
<1> HIDE DEF t
<1>4. /\ DOMAIN t.pagers = DOMAIN s.pagers
      /\ \A y \in DOMAIN s.pagers :
           /\ t.pagers[y].use = s.pagers[y].use
           /\ \A k \in DOMAIN PagesIn(t, y) :
                k \in DOMAIN PagesIn(s, y) /\ PagesIn(t, y)[k] = PagesIn(s, y)[k]
  BY <1>1, <1>3 DEF OnlyPages
<1>5. Grown(s, t, z, Dirty(s, z, {key}))
  BY <1>2, <1>3 DEF Grown
<1>6. QED  BY <1>3, <1>4, <1>5 DEF t, u

\* Replacing a page, which is written first if it is dirty, changes no cell
\* that is seen.
LEMMA EvictKeeps ==
  ASSUME NEW b \in Nat, NEW s, Sound(s, b), NEW home, Home(s, home),
         NEW v, Junk \notin v, Zero \notin v, Clean(s, v),
         NEW z \in DOMAIN s.pagers, NEW key \in DOMAIN PagesIn(s, z)
  PROVE  LET t == Drop(Dump(s, z, {key}), z, {key})
         IN  Home(t, home) /\ Clean(t, v) /\ Keeps(s, home, t, home, v, {})
<1> DEFINE u == Dump(s, z, {key})
<1>1. /\ Sound(u, b) /\ DOMAIN u.pagers = DOMAIN s.pagers
      /\ ~ PagesIn(u, z)[key].dirty
  BY DumpSet
<1>2. Home(u, home) /\ Clean(u, v) /\ Keeps(s, home, u, home, v, {})
  BY DumpKeeps
<1> HIDE DEF u
<1>3. LET t == Drop(u, z, {key})
      IN  Home(t, home) /\ Clean(t, v) /\ Keeps(u, home, t, home, v, {})
  BY <1>1, <1>2, DropKeeps
<1>4. QED  BY <1>2, <1>3, KeepsTwice DEF u

-----------------------------------------------------------------------------
(* The pager manager.                                                      *)

\* Other pagers leave the files.
LEMMA PutPagers ==
  ASSUME NEW b \in Nat, NEW s, Sound(s, b), NEW p,
         p = [z \in DOMAIN p |-> p[z]], DOMAIN p \subseteq PageSizes,
         \A z \in DOMAIN p : PagerWhole(z, b, p[z])
  PROVE  LET t == [s EXCEPT !.pagers = p]
         IN  Sound(t, b) /\ t.disk = s.disk /\ t.pagers = p
<1> DEFINE t == [s EXCEPT !.pagers = p]
<1>1. t = [disk |-> s.disk, pagers |-> p]
  <2>1. PICK e, r : s = [disk |-> e, pagers |-> r]
    BY DEF Sound
  <2>2. QED  BY <2>1
<1>2. t.disk = s.disk /\ t.pagers = p /\ t = [disk |-> t.disk, pagers |-> t.pagers]
  BY <1>1
<1> HIDE DEF t
<1>3. Sound(t, b)
  BY <1>2 DEF Sound
<1>4. QED  BY <1>2, <1>3 DEF t

\* Only the uses of pager z differ.
OnlyUse(s, t, z, n) ==
  /\ t.disk = s.disk
  /\ DOMAIN t.pagers = DOMAIN s.pagers
  /\ t.pagers[z].use = n
  /\ \A y \in DOMAIN s.pagers :
       PagesIn(t, y) = PagesIn(s, y) /\ (y # z => t.pagers[y].use = s.pagers[y].use)

\* Another number of uses leaves all else.
LEMMA PutUse ==
  ASSUME NEW b \in Nat, NEW s, Sound(s, b), NEW z \in DOMAIN s.pagers, NEW n \in Nat \ {0}
  PROVE  LET t == [s EXCEPT !.pagers[z].use = n]
         IN  Sound(t, b) /\ OnlyUse(s, t, z, n)
<1> DEFINE t == [s EXCEPT !.pagers[z].use = n]
           p == [s.pagers EXCEPT ![z] = [s.pagers[z] EXCEPT !.use = n]]
<1>1. t = [s EXCEPT !.pagers = p]
  <2>1. PICK e, r : s = [disk |-> e, pagers |-> r]
    BY DEF Sound
  <2>2. QED  BY <2>1
<1>2. /\ DOMAIN p = DOMAIN s.pagers
      /\ p = [y \in DOMAIN p |-> p[y]]
      /\ p[z] = [use |-> n, pages |-> s.pagers[z].pages]
      /\ \A y \in DOMAIN s.pagers \ {z} : p[y] = s.pagers[y]
  BY SMTT(40) DEF Sound, PagerWhole
<1> HIDE DEF p
<1>3. p[z].use = n /\ p[z].pages = s.pagers[z].pages
  BY <1>2
<1>4. \A y \in DOMAIN p : PagerWhole(y, b, p[y])
  BY <1>2, <1>3 DEF Sound, PagerWhole
<1>5. DOMAIN p \subseteq PageSizes
  BY <1>2 DEF Sound
<1> HIDE DEF t
<1>6. Sound(t, b) /\ t.disk = s.disk /\ t.pagers = p
  BY <1>1, <1>2, <1>4, <1>5, PutPagers
<1>7. OnlyUse(s, t, z, n)
  BY <1>2, <1>3, <1>6 DEF OnlyUse, PagesIn
<1>8. QED  BY <1>6, <1>7 DEF t

\* The number of uses is not seen.
LEMMA UseKeeps ==
  ASSUME NEW s, NEW t, NEW z, NEW n, OnlyUse(s, t, z, n),
         NEW home, Home(s, home), NEW v, Clean(s, v)
  PROVE  Home(t, home) /\ Clean(t, v) /\ Keeps(s, home, t, home, v, {})
<1>1. \A f, c : OnDisk(t, f, c) = OnDisk(s, f, c)
  BY DEF OnDisk, OnlyUse
<1>2. \A y \in DOMAIN s.pagers : \A f, c : Seen(t, y, f, c) = Seen(s, y, f, c)
  BY DEF Seen, OnlyUse
<1>3. QED  BY <1>1, <1>2 DEF OnlyUse, Home, Clean, Keeps, View

\* A new pager holds no pages.
Added(s, t, z) ==
  /\ t.disk = s.disk
  /\ DOMAIN t.pagers = DOMAIN s.pagers \cup {z}
  /\ t.pagers[z].use = 1
  /\ DOMAIN PagesIn(t, z) = {}
  /\ \A y \in DOMAIN s.pagers :
       PagesIn(t, y) = PagesIn(s, y) /\ t.pagers[y].use = s.pagers[y].use

\* getPager counts a use of the pager there is, or makes one.
LEMMA GetPagerSound ==
  ASSUME NEW b \in Nat, NEW s, Sound(s, b), NEW z \in PageSizes
  PROVE  LET t == GetPager(s, z)
         IN  /\ Sound(t, b)
             /\ IF z \in DOMAIN s.pagers THEN OnlyUse(s, t, z, s.pagers[z].use + 1)
                ELSE Added(s, t, z)
<1>1. CASE z \in DOMAIN s.pagers
  <2>1. s.pagers[z].use + 1 \in Nat \ {0}
    BY <1>1, SoundAt
  <2>2. GetPager(s, z) = [s EXCEPT !.pagers[z].use = s.pagers[z].use + 1]
    BY <1>1 DEF GetPager
  <2>3. QED  BY <1>1, <2>1, <2>2, PutUse
<1>2. CASE z \notin DOMAIN s.pagers
  <2> DEFINE p == Joined(s.pagers, NewPager(z))
             t == [s EXCEPT !.pagers = p]
  <2>1. /\ DOMAIN p = DOMAIN s.pagers \cup {z}
        /\ p = [y \in DOMAIN p |-> p[y]]
        /\ p[z] = [use |-> 1, pages |-> <<>>]
        /\ \A y \in DOMAIN s.pagers : p[y] = s.pagers[y]
    BY <1>2 DEF Joined, NewPager
  <2> HIDE DEF p
  <2>2. p[z].use = 1 /\ p[z].pages = <<>> /\ DOMAIN p[z].pages = {}
    BY <2>1
  <2>3. PagerWhole(z, b, p[z])
    BY <2>1, <2>2 DEF PagerWhole, PageMap
  <2>4. \A y \in DOMAIN p : PagerWhole(y, b, p[y])
    BY <2>1, <2>3 DEF Sound
  <2>5. DOMAIN p \subseteq PageSizes
    BY <2>1 DEF Sound
  <2>6. GetPager(s, z) = t
    BY <1>2 DEF GetPager, p
  <2> HIDE DEF t
  <2>7. Sound(t, b) /\ t.disk = s.disk /\ t.pagers = p
    BY <2>1, <2>4, <2>5, PutPagers DEF t
  <2>8. Added(s, t, z)
    BY <2>1, <2>2, <2>7 DEF Added, PagesIn
  <2>9. QED  BY <1>2, <2>6, <2>7, <2>8
<1>3. QED  BY <1>1, <1>2

\* getPager changes no cell that is seen.
LEMMA GetPagerKeeps ==
  ASSUME NEW b \in Nat, NEW s, Sound(s, b), NEW z \in PageSizes,
         NEW home, Home(s, home), NEW v, Clean(s, v)
  PROVE  LET t == GetPager(s, z)
         IN  Home(t, home) /\ Clean(t, v) /\ Keeps(s, home, t, home, v, {})
<1> DEFINE t == GetPager(s, z)
<1>1. IF z \in DOMAIN s.pagers THEN OnlyUse(s, t, z, s.pagers[z].use + 1) ELSE Added(s, t, z)
  BY GetPagerSound
<1> HIDE DEF t
<1>2. CASE z \in DOMAIN s.pagers
  BY <1>1, <1>2, UseKeeps DEF t
<1>3. CASE z \notin DOMAIN s.pagers
  <2>1. \A f, c : OnDisk(t, f, c) = OnDisk(s, f, c)
    BY <1>1, <1>3 DEF OnDisk, Added
  <2>2. \A y \in DOMAIN s.pagers : \A f, c : Seen(t, y, f, c) = Seen(s, y, f, c)
    BY <1>1, <1>3 DEF Seen, Added
  <2>3. \A f, c : Seen(t, z, f, c) = OnDisk(t, f, c)
    BY <1>1, <1>3 DEF Seen, Added, OnDisk
  <2>4. Home(t, home)
    BY <1>1, <1>3 DEF Added, Home
  <2>5. Clean(t, v)
    BY <1>1, <1>3, <2>1 DEF Added, Clean
  <2>6. Keeps(s, home, t, home, v, {})
    BY <1>1, <1>3, <2>1, <2>2, <2>3 DEF Added, Keeps, View
  <2>7. QED  BY <2>4, <2>5, <2>6 DEF t
<1>4. QED  BY <1>2, <1>3

\* A pager that goes takes nothing with it that is not on disk.
Removed(s, t, z) ==
  /\ Grown(s, t, z, Dirty(s, z, DOMAIN PagesIn(s, z)))
  /\ DOMAIN t.pagers = DOMAIN s.pagers \ {z}
  /\ \A y \in DOMAIN s.pagers \ {z} :
       PagesIn(t, y) = PagesIn(s, y) /\ t.pagers[y].use = s.pagers[y].use

\* releasePager takes a use off, or writes the pager's pages and deletes it
\* with the last.
LEMMA ReleasePagerSound ==
  ASSUME NEW b \in Nat, NEW s, Sound(s, b), NEW z \in DOMAIN s.pagers
  PROVE  LET t == ReleasePager(s, z)
         IN  /\ Sound(t, b)
             /\ IF s.pagers[z].use > 1 THEN OnlyUse(s, t, z, s.pagers[z].use - 1)
                ELSE Removed(s, t, z)
<1>1. CASE s.pagers[z].use > 1
  <2> DEFINE n == s.pagers[z].use - 1
  <2>1. n \in Nat \ {0}
    BY <1>1, SoundAt
  <2>2. ReleasePager(s, z) = [s EXCEPT !.pagers[z].use = n]
    BY <1>1 DEF ReleasePager
  <2> HIDE DEF n
  <2>3. Sound(ReleasePager(s, z), b) /\ OnlyUse(s, ReleasePager(s, z), z, n)
    BY <2>1, <2>2, PutUse
  <2>4. QED  BY <1>1, <2>3 DEF n
<1>2. CASE ~ (s.pagers[z].use > 1)
  <2> DEFINE u == Dump(s, z, DOMAIN PagesIn(s, z))
             p == [y \in DOMAIN u.pagers \ {z} |-> u.pagers[y]]
             t == [u EXCEPT !.pagers = p]
  <2>1. /\ Sound(u, b) /\ Grown(s, u, z, Dirty(s, z, DOMAIN PagesIn(s, z)))
        /\ DOMAIN u.pagers = DOMAIN s.pagers
        /\ \A y \in DOMAIN s.pagers :
             u.pagers[y].use = s.pagers[y].use /\ (y # z => PagesIn(u, y) = PagesIn(s, y))
    BY DumpSet
  <2>2. ReleasePager(s, z) = t
    BY <1>2 DEF ReleasePager
  <2> HIDE DEF u
  <2>3. /\ DOMAIN p = DOMAIN s.pagers \ {z} /\ p = [y \in DOMAIN p |-> p[y]]
        /\ \A y \in DOMAIN p : p[y] = u.pagers[y] /\ PagerWhole(y, b, p[y])
        /\ DOMAIN p \subseteq PageSizes
    BY <2>1 DEF Sound
  <2> HIDE DEF p
  <2>4. Sound(t, b) /\ t.disk = u.disk /\ t.pagers = p
    BY <2>1, <2>3, PutPagers
  <2> HIDE DEF t
  <2>5. Removed(s, t, z)
    BY <2>1, <2>3, <2>4 DEF Removed, Grown, PagesIn
  <2>6. QED  BY <1>2, <2>2, <2>4, <2>5
<1>3. QED  BY <1>1, <1>2

\* releasePager changes no cell that is seen, even if it deletes the pager.
LEMMA ReleasePagerKeeps ==
  ASSUME NEW b \in Nat, NEW s, Sound(s, b), NEW z \in DOMAIN s.pagers,
         NEW home, Home(s, home), NEW v, Junk \notin v, Zero \notin v, Clean(s, v)
  PROVE  LET t == ReleasePager(s, z)
         IN  Home(t, home) /\ Clean(t, v) /\ Keeps(s, home, t, home, v, {})
<1>1. CASE s.pagers[z].use > 1
  BY <1>1, ReleasePagerSound, UseKeeps
<1>2. CASE ~ (s.pagers[z].use > 1)
  <2> DEFINE all == DOMAIN PagesIn(s, z)
             u == Dump(s, z, all)
             w == Drop(u, z, all)
             t == ReleasePager(s, z)
  <2>1. /\ Sound(u, b) /\ DOMAIN u.pagers = DOMAIN s.pagers
        /\ \A k \in all : ~ PagesIn(u, z)[k].dirty
        /\ DOMAIN PagesIn(u, z) = all
    BY DumpSet
  <2>2. Home(u, home) /\ Clean(u, v) /\ Keeps(s, home, u, home, v, {})
    BY DumpKeeps
  <2>3. t = [u EXCEPT !.pagers = [y \in DOMAIN u.pagers \ {z} |-> u.pagers[y]]]
    BY <1>2 DEF ReleasePager
  <2> HIDE DEF u, all
  <2>4. /\ Sound(w, b) /\ w.disk = u.disk
        /\ OnlyPages(u, w, z, [k \in DOMAIN PagesIn(u, z) \ all |-> PagesIn(u, z)[k]])
    <3>1. z \in DOMAIN u.pagers /\ Sound(u, b)
      BY <2>1
    <3>2. QED  BY <3>1, DropSound
  <2>5. Home(w, home) /\ Clean(w, v) /\ Keeps(u, home, w, home, v, {})
    BY <2>1, <2>2, DropKeeps
  <2>6. t.disk = u.disk /\ t.pagers = [y \in DOMAIN u.pagers \ {z} |-> u.pagers[y]]
    <3>1. PICK e, r : u = [disk |-> e, pagers |-> r]
      BY <2>1 DEF Sound
    <3>2. QED  BY <2>3, <3>1
  <2> HIDE DEF w, t
  <2>7. /\ t.disk = w.disk /\ DOMAIN t.pagers = DOMAIN w.pagers \ {z}
        /\ DOMAIN PagesIn(w, z) = {}
        /\ \A y \in DOMAIN t.pagers : PagesIn(t, y) = PagesIn(w, y)
    BY <2>1, <2>4, <2>6 DEF OnlyPages, PagesIn
  <2>8. \A f, c : OnDisk(t, f, c) = OnDisk(w, f, c)
    BY <2>7 DEF OnDisk
  <2>9. Home(t, home)
    BY <2>5, <2>7 DEF Home
  <2>10. Clean(t, v)
    BY <2>5, <2>7, <2>8 DEF Clean
  <2>11. \A f, c : Seen(w, z, f, c) = OnDisk(w, f, c)
    BY <2>7 DEF Seen, OnDisk
  <2>12. \A y \in DOMAIN t.pagers : \A f, c : Seen(t, y, f, c) = Seen(w, y, f, c)
    BY <2>7 DEF Seen
  <2>13. \A f, c : View(t, home, f, c) = View(w, home, f, c)
    BY <2>7, <2>8, <2>11, <2>12 DEF View
  <2>14. Keeps(s, home, t, home, v, {})
    BY <2>2, <2>5, <2>13 DEF Keeps
  <2>15. QED  BY <2>9, <2>10, <2>14 DEF t
<1>3. QED  BY <1>1, <1>2

\* What a change of page size makes of the pagers.
SizeSet(s, t, from, to) ==
  /\ Grown(s, t, from, Dirty(s, from, DOMAIN PagesIn(s, from)))
  /\ DOMAIN t.pagers = (DOMAIN s.pagers \cup {to}) \
                         (IF from # to /\ s.pagers[from].use = 1 THEN {from} ELSE {})
  /\ \A y \in DOMAIN t.pagers :
       /\ y \in DOMAIN s.pagers =>
            /\ PagesIn(t, y) = PagesIn(s, y)
            /\ t.pagers[y].use = s.pagers[y].use + (IF y = to THEN 1 ELSE 0)
                                                 - (IF y = from THEN 1 ELSE 0)
       /\ y \notin DOMAIN s.pagers => t.pagers[y].use = 1 /\ DOMAIN PagesIn(t, y) = {}

\* setPageSize moves one use from a pager to another and leaves the others.
LEMMA SetPageSizeSound ==
  ASSUME NEW b \in Nat, NEW s, Sound(s, b), NEW from \in DOMAIN s.pagers, NEW to \in PageSizes
  PROVE  LET t == SetPageSize(s, from, to)
         IN  Sound(t, b) /\ SizeSet(s, t, from, to)
<1> DEFINE u == GetPager(s, to)
           t == ReleasePager(u, from)
           n == s.pagers[from].use
<1>1. /\ Sound(u, b)
      /\ IF to \in DOMAIN s.pagers THEN OnlyUse(s, u, to, s.pagers[to].use + 1) ELSE Added(s, u, to)
  BY GetPagerSound
<1>2. t = SetPageSize(s, from, to)
  BY DEF SetPageSize
<1> HIDE DEF u
<1>3. /\ DOMAIN u.pagers = DOMAIN s.pagers \cup {to}
      /\ u.disk = s.disk
      /\ \A y \in DOMAIN s.pagers :
           /\ PagesIn(u, y) = PagesIn(s, y)
           /\ u.pagers[y].use = s.pagers[y].use + (IF y = to THEN 1 ELSE 0)
      /\ to \notin DOMAIN s.pagers => u.pagers[to].use = 1 /\ DOMAIN PagesIn(u, to) = {}
  <2>1. \A y \in DOMAIN s.pagers : s.pagers[y].use \in Nat \ {0}
    BY SoundAt
  <2>2. CASE to \in DOMAIN s.pagers
    BY <1>1, <2>1, <2>2 DEF OnlyUse
  <2>3. CASE to \notin DOMAIN s.pagers
    BY <1>1, <2>1, <2>3 DEF Added
  <2>4. QED  BY <2>2, <2>3
<1>4. from \in DOMAIN u.pagers
  BY <1>3
<1>5. /\ Sound(t, b)
      /\ IF u.pagers[from].use > 1 THEN OnlyUse(u, t, from, u.pagers[from].use - 1)
         ELSE Removed(u, t, from)
  BY <1>1, <1>4, ReleasePagerSound
<1> HIDE DEF t
<1>6. n \in Nat \ {0} /\ \A y \in DOMAIN s.pagers : s.pagers[y].use \in Nat \ {0}
  BY SoundAt
<1>7. u.pagers[from].use > 1 <=> ~ (from # to /\ n = 1)
  BY <1>3, <1>6
<1>8. CASE u.pagers[from].use > 1
  <2>1. OnlyUse(u, t, from, u.pagers[from].use - 1)
    BY <1>5, <1>8
  <2>2. Grown(s, t, from, Dirty(s, from, DOMAIN PagesIn(s, from)))
    <3>1. \A f \in Files : Len(s.disk[f]) \in Nat
      BY SoundAt
    <3>2. QED  BY <1>3, <2>1, <3>1 DEF OnlyUse, Grown, Extents
  <2>3. DOMAIN t.pagers = DOMAIN s.pagers \cup {to}
    BY <1>3, <2>1 DEF OnlyUse
  <2>4. ASSUME NEW y \in DOMAIN s.pagers
        PROVE  /\ PagesIn(t, y) = PagesIn(s, y)
               /\ t.pagers[y].use = s.pagers[y].use + (IF y = to THEN 1 ELSE 0)
                                                    - (IF y = from THEN 1 ELSE 0)
    BY SMTT(40), <1>3, <1>6, <2>1 DEF OnlyUse
  <2>5. to \notin DOMAIN s.pagers => t.pagers[to].use = 1 /\ DOMAIN PagesIn(t, to) = {}
    BY <1>3, <2>1 DEF OnlyUse
  <2>6. SizeSet(s, t, from, to)
    BY <1>7, <1>8, <2>2, <2>3, <2>4, <2>5 DEF SizeSet
  <2>7. QED  BY <1>2, <1>5, <2>6
<1>9. CASE ~ (u.pagers[from].use > 1)
  <2>1. Removed(u, t, from)
    BY <1>5, <1>9
  <2>2. PagesIn(u, from) = PagesIn(s, from)
    BY <1>3
  <2>3. Dirty(u, from, DOMAIN PagesIn(u, from)) = Dirty(s, from, DOMAIN PagesIn(s, from))
    BY <2>2 DEF Dirty
  <2>4. Grown(s, t, from, Dirty(s, from, DOMAIN PagesIn(s, from)))
    BY <1>3, <2>1, <2>3 DEF Removed, Grown, Extents
  <2>5. DOMAIN t.pagers = (DOMAIN s.pagers \cup {to}) \ {from}
    BY <1>3, <2>1 DEF Removed
  <2>6. ASSUME NEW y \in DOMAIN s.pagers \ {from}
        PROVE  /\ PagesIn(t, y) = PagesIn(s, y)
               /\ t.pagers[y].use = s.pagers[y].use + (IF y = to THEN 1 ELSE 0)
                                                    - (IF y = from THEN 1 ELSE 0)
    BY <1>3, <1>6, <2>1 DEF Removed
  <2>7. to \notin DOMAIN s.pagers => t.pagers[to].use = 1 /\ DOMAIN PagesIn(t, to) = {}
    BY <1>3, <2>1 DEF Removed
  <2>8. SizeSet(s, t, from, to)
    BY <1>7, <1>9, <2>4, <2>5, <2>6, <2>7 DEF SizeSet
  <2>9. QED  BY <1>2, <1>5, <2>8
<1>10. QED  BY <1>8, <1>9

\* setPageSize changes no cell that is seen, of files at home in pagers that
\* stay.
LEMMA SetPageSizeKeeps ==
  ASSUME NEW b \in Nat, NEW s, Sound(s, b), NEW from \in DOMAIN s.pagers, NEW to \in PageSizes,
         NEW home, Home(s, home), NEW v, Junk \notin v, Zero \notin v, Clean(s, v)
  PROVE  LET t == SetPageSize(s, from, to)
         IN  Home(t, home) /\ Clean(t, v) /\ Keeps(s, home, t, home, v, {})
<1> DEFINE u == GetPager(s, to)
           t == ReleasePager(u, from)
<1>1. /\ Sound(u, b)
      /\ IF to \in DOMAIN s.pagers THEN OnlyUse(s, u, to, s.pagers[to].use + 1) ELSE Added(s, u, to)
  BY GetPagerSound
<1>2. Home(u, home) /\ Clean(u, v) /\ Keeps(s, home, u, home, v, {})
  BY GetPagerKeeps
<1>3. t = SetPageSize(s, from, to)
  BY DEF SetPageSize
<1> HIDE DEF u
<1>4. from \in DOMAIN u.pagers
  BY <1>1 DEF OnlyUse, Added
<1>5. Home(t, home) /\ Clean(t, v) /\ Keeps(u, home, t, home, v, {})
  BY <1>1, <1>2, <1>4, ReleasePagerKeeps
<1> HIDE DEF t
<1>6. Keeps(s, home, t, home, v, {})
  BY <1>2, <1>5, KeepsTwice
<1>7. QED  BY <1>3, <1>5, <1>6

-----------------------------------------------------------------------------
(* chsize of a pager.                                                      *)

\* The first page past the end of a file of this size.
PagesOf(size, z) == (size + z - 1) \div z

\* Resizing through a pager drops the pages past the new end and leaves the
\* others.
LEMMA ChsizeSound ==
  ASSUME NEW b \in Nat, NEW s, Sound(s, b), NEW z \in DOMAIN s.pagers,
         NEW f \in Files, NEW size \in Nat
  PROVE  LET t == Chsize(s, z, f, size)
         IN  /\ Sound(t, b) /\ OthersSame(s, t, z, f)
             /\ \A k \in DOMAIN PagesIn(t, z) : PagesIn(t, z)[k] = PagesIn(s, z)[k]
             /\ \A k \in PagesFor(t, z, f) : size < Len(s.disk[f]) => k[2] < PagesOf(size, z)
             /\ Len(t.disk[f]) = size
             /\ \A g \in Files \ {f} : t.disk[g] = s.disk[g]
<1> DEFINE past == {k \in PagesFor(s, z, f) : k[2] >= PagesOf(size, z)}
           u == IF size < Len(s.disk[f]) THEN Drop(s, z, past) ELSE s
           t == Resize(u, f, size)
<1>1. t = Chsize(s, z, f, size)
  BY DEF Chsize, PagesOf
<1>2. /\ z \in Nat \ {0} /\ PagesOf(size, z) \in Int
      /\ \A k \in DOMAIN PagesIn(s, z) : k[2] \in Nat
  BY SoundAt DEF PageMap, PagesOf
<1>3. \A k \in DOMAIN PagesIn(s, z) :
        k \in past <=> k[1] = f /\ ~ (k[2] < PagesOf(size, z))
  BY <1>2 DEF PagesFor
<1> HIDE DEF past
<1>4. CASE size < Len(s.disk[f])
  <2>1. /\ Sound(u, b) /\ u.disk = s.disk
        /\ OnlyPages(s, u, z, [k \in DOMAIN PagesIn(s, z) \ past |-> PagesIn(s, z)[k]])
    <3> DEFINE v == Drop(s, z, past)
    <3>1. /\ Sound(v, b) /\ v.disk = s.disk
          /\ OnlyPages(s, v, z, [k \in DOMAIN PagesIn(s, z) \ past |-> PagesIn(s, z)[k]])
      BY DropSound
    <3>2. u = v
      BY <1>4
    <3> HIDE DEF u, v
    <3>3. QED  BY <3>1, <3>2
  <2> HIDE DEF u
  <2>2. /\ Sound(t, b) /\ t.pagers = u.pagers /\ Len(t.disk[f]) = size
        /\ \A g \in Files \ {f} : t.disk[g] = u.disk[g]
    <3>1. Sound(u, b)
      BY <2>1
    <3>2. QED  BY <3>1, ResizeSound
  <2> HIDE DEF t
  <2>3. /\ DOMAIN t.pagers = DOMAIN s.pagers
        /\ DOMAIN PagesIn(t, z) = DOMAIN PagesIn(s, z) \ past
        /\ \A k \in DOMAIN PagesIn(t, z) : PagesIn(t, z)[k] = PagesIn(s, z)[k]
        /\ \A y \in DOMAIN s.pagers :
             t.pagers[y].use = s.pagers[y].use /\ (y # z => PagesIn(t, y) = PagesIn(s, y))
    BY <2>1, <2>2 DEF OnlyPages, PagesIn
  <2>4. OthersSame(s, t, z, f)
    BY <1>3, <2>3 DEF OthersSame
  <2>5. \A k \in PagesFor(t, z, f) : k[2] < PagesOf(size, z)
    BY <1>3, <2>3 DEF PagesFor
  <2>6. QED  BY <1>1, <2>1, <2>2, <2>3, <2>4, <2>5
<1>5. CASE ~ (size < Len(s.disk[f]))
  <2>1. u = s
    BY <1>5
  <2> HIDE DEF u
  <2>2. /\ Sound(t, b) /\ t.pagers = s.pagers /\ Len(t.disk[f]) = size
        /\ \A g \in Files \ {f} : t.disk[g] = s.disk[g]
    BY <2>1, ResizeSound
  <2> HIDE DEF t
  <2>3. OthersSame(s, t, z, f) /\ PagesIn(t, z) = PagesIn(s, z)
    BY <2>2 DEF OthersSame, PagesIn
  <2>4. QED  BY <1>1, <1>5, <2>2, <2>3
<1>6. QED  BY <1>4, <1>5

\* The cells of a file past a size.
Past(f, size) == {f} \X {c \in Nat : c > size}

\* At a page's end: the pages that are kept end there, those dropped start there.
LEMMA PagesCut ==
  ASSUME NEW z \in Nat \ {0}, NEW size \in Nat, size % z = 0, NEW p \in Nat, NEW i \in 1 .. z
  PROVE  p * z + i > size <=> p >= PagesOf(size, z)
<1> DEFINE q == size \div z
<1>1. q \in Nat /\ size = q * z
  BY Divided
<1> HIDE DEF q
<1>2. q * z + (z - 1) = size + z - 1
  BY <1>1
<1>3. PagesOf(size, z) = q
  <2>1. z - 1 \in 0 .. z - 1
    OBVIOUS
  <2>2. (q * z + (z - 1)) \div z = q
    BY <1>1, <2>1, Placed
  <2>3. QED  BY <1>2, <2>2 DEF PagesOf
<1>4. p * z \in Nat /\ q * z \in Nat
  BY <1>1
<1>5. CASE p >= q
  <2>1. q * z <= p * z
    BY <1>1, <1>5
  <2>2. QED  BY <1>1, <1>3, <1>4, <1>5, <2>1
<1>6. CASE p < q
  <2>1. (p + 1) * z <= q * z
    BY <1>1, <1>6, Later
  <2>2. (p + 1) * z = p * z + z
    OBVIOUS
  <2>3. QED  BY <1>1, <1>3, <1>4, <1>6, <2>1, <2>2
<1>7. QED  BY <1>1, <1>5, <1>6

\* A size is a whole number of pages.
WholePages(size, z) == size % z = 0
\* A file gets shorter.
Shorter(s, f, size) == size < Len(s.disk[f])

\* A file made longer keeps all its client sees, one cut at a page's end what
\* is before the cut.
LEMMA ChsizeKeeps ==
  ASSUME NEW b \in Nat, NEW s, Sound(s, b), NEW z \in DOMAIN s.pagers,
         NEW f \in Files, NEW size \in Nat,
         NEW home, Home(s, home), home[f] = z,
         NEW v, Junk \notin v, Clean(s, v),
         Shorter(s, f, size) => WholePages(size, z)
  PROVE  LET t == Chsize(s, z, f, size)
             given == IF Shorter(s, f, size) THEN Past(f, size) ELSE {}
         IN  Home(t, home) /\ Clean(t, v) /\ Keeps(s, home, t, home, v, given)
<1> DEFINE past == {k \in PagesFor(s, z, f) : k[2] >= PagesOf(size, z)}
           u == Drop(s, z, past)
<1>1. /\ z \in Nat \ {0} /\ Len(s.disk[f]) \in Nat
      /\ \A k \in DOMAIN PagesIn(s, z) : k[2] \in Nat
  BY SoundAt DEF PageMap
<1>2. CASE Shorter(s, f, size)
  <2>1. \A k \in past : k[1] = f /\ k \in DOMAIN PagesIn(s, z) /\ k[2] >= PagesOf(size, z)
    BY DEF PagesFor
  <2>2. \A k \in DOMAIN PagesIn(s, z) \ past : k[1] = f => ~ (k[2] >= PagesOf(size, z))
    BY DEF PagesFor
  <2>3. Chsize(s, z, f, size) = Resize(u, f, size)
    BY <1>2 DEF Chsize, PagesOf, Shorter
  <2> HIDE DEF past
  <2>4. \A k \in past : \A i \in 1 .. z : <<k[1], k[2] * z + i>> \in Past(f, size)
    <3> SUFFICES ASSUME NEW k \in past, NEW i \in 1 .. z
                 PROVE  k[1] = f /\ k[2] * z + i \in Nat /\ k[2] * z + i > size
      BY DEF Past
    <3>1. k[2] * z + i \in Nat
      BY SMTT(40), <1>1, <2>1
    <3>2. size % z = 0
      BY <1>1, <1>2 DEF WholePages
    <3>3. QED  BY <1>1, <2>1, <3>1, <3>2, PagesCut
  <2>5. /\ Sound(u, b) /\ u.disk = s.disk
        /\ DOMAIN PagesIn(u, z) = DOMAIN PagesIn(s, z) \ past
    BY DropPages
  <2>6. Home(u, home) /\ Clean(u, v) /\ Keeps(s, home, u, home, v, Past(f, size))
    BY <2>4, DropKeeps
  <2> HIDE DEF u
  <2> DEFINE t == Resize(u, f, size)
  <2>7. t.pagers = u.pagers
    BY <2>5, ResizeKept
  <2>8. \A g \in Files, c \in Nat \ {0} :
          OnDisk(u, g, c) \in v /\ <<g, c>> \notin Past(f, size) => OnDisk(t, g, c) = OnDisk(u, g, c)
    <3> SUFFICES ASSUME NEW g \in Files, NEW c \in Nat \ {0},
                        OnDisk(u, g, c) \in v, <<g, c>> \notin Past(f, size)
                 PROVE  OnDisk(t, g, c) = OnDisk(u, g, c)
      OBVIOUS
    <3>1. g # f \/ c <= size
      BY DEF Past
    <3>2. QED  BY <2>5, <3>1, ResizeOnDisk
  <2>9. \A y \in DOMAIN u.pagers : \A k \in DOMAIN PagesIn(u, y) : \A i \in 1 .. y :
          <<k[1], k[2] * y + i>> \notin Past(f, size)
    <3> SUFFICES ASSUME NEW y \in DOMAIN u.pagers, NEW k \in DOMAIN PagesIn(u, y),
                        NEW i \in 1 .. y, k[1] = f
                 PROVE  ~ (k[2] * y + i > size)
      BY DEF Past
    <3>1. y = z
      BY <2>6 DEF Home
    <3>2. k \in DOMAIN PagesIn(s, z) \ past
      BY <2>5, <3>1
    <3>3. k[2] \in Nat /\ ~ (k[2] >= PagesOf(size, z))
      BY <1>1, <2>2, <3>2
    <3>4. size % z = 0
      BY <1>1, <1>2 DEF WholePages
    <3>5. QED  BY <1>1, <3>1, <3>3, <3>4, PagesCut
  <2> HIDE DEF t
  <2>10. Home(t, home) /\ Clean(t, v) /\ Keeps(u, home, t, home, v, Past(f, size))
    BY <2>5, <2>6, <2>7, <2>8, <2>9, DiskKeeps
  <2>11. Keeps(s, home, t, home, v, Past(f, size))
    BY <2>6, <2>10, KeepsTwice
  <2>12. QED  BY <1>2, <2>3, <2>10, <2>11 DEF t
<1>3. CASE ~ Shorter(s, f, size)
  <2> DEFINE t == Resize(s, f, size)
  <2>1. Chsize(s, z, f, size) = t
    BY <1>3 DEF Chsize, Shorter
  <2>2. t.pagers = s.pagers
    BY ResizeSound
  <2>3. \A g \in Files, c \in Nat \ {0} :
          OnDisk(s, g, c) \in v => OnDisk(t, g, c) = OnDisk(s, g, c)
    <3> SUFFICES ASSUME NEW g \in Files, NEW c \in Nat \ {0}, OnDisk(s, g, c) \in v
                 PROVE  OnDisk(t, g, c) = OnDisk(s, g, c)
      OBVIOUS
    <3>1. g # f \/ c <= size
      BY <1>1, <1>3 DEF OnDisk, Shorter
    <3>2. QED  BY <3>1, ResizeOnDisk
  <2> HIDE DEF t
  <2>4. Home(t, home) /\ Clean(t, v) /\ Keeps(s, home, t, home, v, {})
    BY <2>2, <2>3, DiskKeeps
  <2>5. QED  BY <1>3, <2>1, <2>4
<1>4. QED  BY <1>2, <1>3

-----------------------------------------------------------------------------
(* The simple cache.                                                       *)

\* The pages of a span are those that have one of the cells.
LEMMA SpanPages ==
  ASSUME NEW z \in Nat \ {0}, NEW offset \in Nat, NEW n \in Nat \ {0},
         NEW page \in PageSpan(offset, n, z)
  PROVE  page \in Nat /\ page * z < offset + n /\ offset < (page + 1) * z
<1> DEFINE first == offset \div z
           end == offset + n
           q == end \div z
           r == end % z
<1>1. first \in Nat /\ offset < (first + 1) * z
  <2>1. /\ first \in Nat /\ offset % z \in 0 .. z - 1
        /\ offset = first * z + (offset % z)
    BY Divided
  <2> HIDE DEF first
  <2>2. (first + 1) * z = first * z + z
    BY <2>1
  <2>3. QED  BY <2>1, <2>2
<1>2. q \in Nat /\ r \in 0 .. z - 1 /\ end = q * z + r
  <2>1. end \in Nat
    OBVIOUS
  <2> HIDE DEF end
  <2>2. QED  BY <2>1, Divided
<1>3. page \in first .. (IF r = 0 THEN q - 1 ELSE q)
  BY DEF PageSpan, FirstPage, LastPage
<1> HIDE DEF first, q, r, end
<1>4. page \in Nat
  BY <1>1, <1>2, <1>3
<1>5. (first + 1) * z <= (page + 1) * z
  BY <1>1, <1>3, <1>4
<1>6. page * z < end
  <2>1. CASE r = 0
    <3>1. page < q
      BY <1>2, <1>3, <2>1
    <3>2. (page + 1) * z <= q * z /\ (page + 1) * z = page * z + z
      BY <1>2, <1>4, <3>1, Later
    <3>3. QED  BY <1>2, <1>4, <3>2, Product
  <2>2. CASE r # 0
    <3>1. page * z <= q * z
      BY <1>2, <1>3, <1>4, <2>2
    <3>2. QED  BY <1>2, <1>4, <2>2, <3>1, Product
  <2>3. QED  BY <2>1, <2>2
<1>7. offset < (page + 1) * z
  BY <1>1, <1>4, <1>5, Product
<1>8. QED  BY <1>4, <1>6, <1>7 DEF end

\* Every cell of a row of cells is in a page of its span,
LEMMA SpanCells ==
  ASSUME NEW z \in Nat \ {0}, NEW offset \in Nat, NEW n \in Nat \ {0},
         NEW c \in offset + 1 .. offset + n
  PROVE  (c - 1) \div z \in PageSpan(offset, n, z)
<1> DEFINE end == offset + n
           q == end \div z
           r == end % z
           p == (c - 1) \div z
<1>1. c - 1 \in Nat /\ offset <= c - 1 /\ end \in Nat /\ c - 1 < end
  OBVIOUS
<1>2. q \in Nat /\ r \in 0 .. z - 1 /\ end = q * z + r
  BY <1>1, Divided
<1>3. p \in Nat /\ p * z <= c - 1
  <2>1. p \in Nat /\ (c - 1) % z \in 0 .. z - 1 /\ c - 1 = p * z + ((c - 1) % z)
    BY <1>1, Divided
  <2> HIDE DEF p
  <2>2. QED  BY <2>1, Product
<1>4. offset \div z <= p /\ offset \div z \in Nat
  BY <1>1, DividedMono, Divided
<1>5. p <= q
  BY <1>1, DividedMono
<1> HIDE DEF end, p
<1>6. r = 0 => p # q
  BY <1>1, <1>2, <1>3
<1> HIDE DEF q, r
<1>7. p \in offset \div z .. (IF r = 0 THEN q - 1 ELSE q)
  BY <1>2, <1>3, <1>4, <1>5, <1>6
<1>8. QED  BY <1>7 DEF PageSpan, FirstPage, LastPage, end, p, q, r

\* The cells after offset are within the first b, which pages fill.
InReach(b, z, offset, n) == WholePages(b, z) /\ offset + n <= b

\* and these pages are within the bound.
LEMMA SpanFits ==
  ASSUME NEW z \in Nat \ {0}, NEW offset \in Nat, NEW n \in Nat \ {0},
         NEW b \in Nat, InReach(b, z, offset, n),
         NEW page \in PageSpan(offset, n, z)
  PROVE  page \in Nat /\ (page + 1) * z <= b
<1>1. page \in Nat /\ page * z < offset + n
  BY SpanPages
<1> DEFINE a == page * z
<1>2. a \in Nat /\ a < b
  BY <1>1 DEF InReach
<1>3. a \div z = page
  <2>1. (page * z + 0) \div z = page
    BY <1>1, Placed
  <2>2. page * z + 0 = page * z
    BY <1>1
  <2>3. QED  BY <2>1, <2>2
<1> HIDE DEF a
<1>4. (a \div z + 1) * z <= b
  BY <1>2, Fits DEF InReach, WholePages
<1>5. QED  BY <1>1, <1>3, <1>4

\* The pages a read brings.
ReadPages(s, z, f, offset, n) ==
  [k \in {f} \X PageSpan(offset, n, z) |-> [data |-> Image(s, z, f, k[2]), dirty |-> FALSE]]

\* A read caches the pages of its span and leaves the files.
LEMMA CacheReadSound ==
  ASSUME NEW b \in Nat, NEW s, Sound(s, b), NEW z \in DOMAIN s.pagers, NEW f \in Files,
         NEW offset \in Nat, NEW n \in Nat \ {0}, InReach(b, z, offset, n)
  PROVE  LET t == CacheRead(s, z, f, offset, n)
         IN  /\ Sound(t, b) /\ t.disk = s.disk
             /\ OnlyPages(s, t, z, Joined(PagesIn(s, z), ReadPages(s, z, f, offset, n)))
<1> DEFINE r == ReadPages(s, z, f, offset, n)
           q == Joined(PagesIn(s, z), r)
<1>1. z \in Nat \ {0} /\ z \in PageSizes
  BY SoundAt
<1>2. \A page \in PageSpan(offset, n, z) :
        /\ page \in Nat /\ (page + 1) * z <= b
        /\ Image(s, z, f, page) \in [1 .. z -> Int]
  BY <1>1, SpanFits, ImageTyped
<1>3. PageMap(z, b, r)
  BY <1>2 DEF PageMap, PageType, ReadPages
<1>4. PageMap(z, b, q)
  <2> HIDE DEF r
  <2>1. QED  BY <1>3, SoundAt, JoinedMap
<1>5. CacheRead(s, z, f, offset, n) = [s EXCEPT !.pagers[z].pages = q]
  BY DEF CacheRead, ReadPages, PagesIn
<1> HIDE DEF q
<1>6. QED  BY <1>4, <1>5, PutPages DEF q

\* A read changes no cell that is seen.
LEMMA CacheReadKeeps ==
  ASSUME NEW b \in Nat, NEW s, Sound(s, b), NEW z \in DOMAIN s.pagers, NEW f \in Files,
         NEW offset \in Nat, NEW n \in Nat \ {0}, InReach(b, z, offset, n),
         NEW home, Home(s, home), home[f] = z, NEW v, Clean(s, v)
  PROVE  LET t == CacheRead(s, z, f, offset, n)
         IN  Home(t, home) /\ Clean(t, v) /\ Keeps(s, home, t, home, v, {})
<1> DEFINE keys == {f} \X PageSpan(offset, n, z)
           t == CacheRead(s, z, f, offset, n)
           r == [k \in keys |-> [data |-> Image(s, z, k[1], k[2]), dirty |-> FALSE]]
<1>1. t.disk = s.disk /\ OnlyPages(s, t, z, Joined(PagesIn(s, z), ReadPages(s, z, f, offset, n)))
  BY CacheReadSound
<1>2. r = ReadPages(s, z, f, offset, n)
  BY DEF ReadPages
<1>3. keys \subseteq Files \X Nat /\ \A k \in keys : home[k[1]] = z
  <2>1. z \in Nat \ {0}
    BY SoundAt
  <2>2. \A page \in PageSpan(offset, n, z) : page \in Nat
    BY <2>1, SpanPages
  <2>3. QED  BY <2>2
<1>4. OnlyPages(s, t, z, Joined(PagesIn(s, z), r))
  BY <1>1, <1>2
<1> HIDE DEF keys, t
<1>5. QED  BY <1>1, <1>3, <1>4, LoadKeeps DEF t

\* A row of n cells, all x.
Row(n, x) == [i \in 1 .. n |-> x]

\* It is a row of numbers, if x is one.
LEMMA RowIs == ASSUME NEW n \in Nat, NEW x \in Int PROVE Row(n, x) \in [1 .. n -> Int]
  BY DEF Row

\* Cell c is one of n cells from offset on.
InRow(offset, n, c) == c - offset \in 1 .. n

\* The pages a write leaves.
WrittenPages(s, z, f, offset, n, data) ==
  LET span == PageSpan(offset, n, z)
      image(page) == IF <<f, page>> \in DOMAIN PagesIn(s, z) THEN PagesIn(s, z)[<<f, page>>].data
                     ELSE IF page \in Ends(span) THEN Image(s, z, f, page)
                     ELSE [i \in 1 .. z |-> Junk]
  IN  [k \in {f} \X span |->
         [data |-> [i \in 1 .. z |->
                      IF InRow(offset, n, k[2] * z + i) THEN data[(k[2] * z + i) - offset]
                      ELSE image(k[2])[i]],
          dirty |-> TRUE]]

\* A write puts dirty pages for its span and leaves the files.
LEMMA CacheWriteSound ==
  ASSUME NEW b \in Nat, NEW s, Sound(s, b), NEW z \in DOMAIN s.pagers, NEW f \in Files,
         NEW offset \in Nat, NEW n \in Nat \ {0}, InReach(b, z, offset, n),
         NEW data \in [1 .. n -> Int]
  PROVE  LET t == CacheWrite(s, z, f, offset, data)
         IN  /\ Sound(t, b) /\ t.disk = s.disk
             /\ OnlyPages(s, t, z, Joined(WrittenPages(s, z, f, offset, n, data), PagesIn(s, z)))
<1> DEFINE span == PageSpan(offset, n, z)
           image(page) == IF <<f, page>> \in DOMAIN PagesIn(s, z)
                          THEN PagesIn(s, z)[<<f, page>>].data
                          ELSE IF page \in Ends(span) THEN Image(s, z, f, page)
                          ELSE [i \in 1 .. z |-> Junk]
           r == WrittenPages(s, z, f, offset, n, data)
           q == Joined(r, PagesIn(s, z))
<1>1. z \in Nat \ {0} /\ z \in PageSizes
  BY SoundAt
<1>2. \A page \in span : page \in Nat /\ (page + 1) * z <= b
  BY <1>1, SpanFits
<1>3. \A page \in span : image(page) \in [1 .. z -> Int]
  <2> SUFFICES ASSUME NEW page \in span PROVE image(page) \in [1 .. z -> Int]
    OBVIOUS
  <2>1. CASE <<f, page>> \in DOMAIN PagesIn(s, z)
    <3>1. PagesIn(s, z)[<<f, page>>] \in PageType(z)
      BY <2>1, SoundAt DEF PageMap
    <3>2. QED  BY <2>1, <3>1 DEF PageType
  <2>2. CASE <<f, page>> \notin DOMAIN PagesIn(s, z)
    <3>1. Image(s, z, f, page) \in [1 .. z -> Int]
      BY <1>1, <1>2, ImageTyped
    <3>2. [i \in 1 .. z |-> Junk] \in [1 .. z -> Int]
      BY DEF Junk
    <3>3. QED  BY <2>2, <3>1, <3>2
  <2>3. QED  BY <2>1, <2>2
<1>4. r = [k \in {f} \X span |->
             [data |-> [i \in 1 .. z |->
                          IF InRow(offset, n, k[2] * z + i) THEN data[(k[2] * z + i) - offset]
                          ELSE image(k[2])[i]],
              dirty |-> TRUE]]
  BY DEF WrittenPages
<1> HIDE DEF image, r
<1>5. PageMap(z, b, r)
  <2> DEFINE d(p) == [i \in 1 .. z |-> IF InRow(offset, n, p * z + i) THEN data[(p * z + i) - offset]
                                       ELSE image(p)[i]]
  <2>1. \A p \in span : d(p) \in [1 .. z -> Int]
    <3>1. \A c : InRow(offset, n, c) => data[c - offset] \in Int
      BY DEF InRow
    <3>2. ASSUME NEW p \in span, NEW i \in 1 .. z
          PROVE  (IF InRow(offset, n, p * z + i) THEN data[(p * z + i) - offset]
                  ELSE image(p)[i]) \in Int
      BY <1>3, <3>1
    <3>3. QED  BY <3>2
  <2>2. r = [k \in {f} \X span |-> [data |-> d(k[2]), dirty |-> TRUE]]
    BY <1>4
  <2> HIDE DEF d
  <2>3. QED  BY <1>2, <2>1, <2>2 DEF PageMap, PageType
<1>6. PageMap(z, b, q)
  BY <1>5, SoundAt, JoinedMap
<1>7. CacheWrite(s, z, f, offset, data) = [s EXCEPT !.pagers[z].pages = q]
  <2>1. Len(data) = n /\ DOMAIN data = 1 .. n
    OBVIOUS
  <2> DEFINE w == [k \in {f} \X span |->
                     [data |-> [i \in 1 .. z |->
                                  LET c == (k[2] * z + i) - offset
                                  IN  IF c \in DOMAIN data THEN data[c] ELSE image(k[2])[i]],
                      dirty |-> TRUE]]
  <2>2. CacheWrite(s, z, f, offset, data) = [s EXCEPT !.pagers[z].pages = Joined(w, PagesIn(s, z))]
    BY <2>1 DEF CacheWrite, PagesIn, image
  <2>3. w = r
    <3> DEFINE dataOf(p, i) == LET c == (p * z + i) - offset
                               IN  IF c \in DOMAIN data THEN data[c] ELSE image(p)[i]
               rowOf(p, i) == IF InRow(offset, n, p * z + i) THEN data[(p * z + i) - offset]
                              ELSE image(p)[i]
    <3>1. \A c : IF c - offset \in DOMAIN data THEN InRow(offset, n, c)
                ELSE ~ InRow(offset, n, c)
      BY <2>1 DEF InRow
    <3>2. \A p, i : dataOf(p, i) = rowOf(p, i)
      BY <3>1
    <3>3. /\ w = [k \in {f} \X span |-> [data |-> [i \in 1 .. z |-> dataOf(k[2], i)], dirty |-> TRUE]]
          /\ r = [k \in {f} \X span |-> [data |-> [i \in 1 .. z |-> rowOf(k[2], i)], dirty |-> TRUE]]
      BY <1>4
    <3> HIDE DEF dataOf, rowOf, w
    <3>4. QED  BY <3>2, <3>3
  <2>4. QED  BY <2>2, <2>3
<1> HIDE DEF q
<1>8. QED  BY <1>6, <1>7, PutPages DEF q, r

\* The cells of a row.
RowCells(offset, n) == offset + 1 .. offset + n

\* A client of pager z sees the data in the cells after offset.
Shows(s, z, f, offset, n, data) == \A i \in 1 .. n : Seen(s, z, f, offset + i) = data[i]

\* A write puts the pages of its span, with the data in its cells.
LEMMA CacheWritePuts ==
  ASSUME NEW b \in Nat, NEW s, Sound(s, b), NEW z \in DOMAIN s.pagers, NEW f \in Files,
         NEW offset \in Nat, NEW n \in Nat \ {0}, InReach(b, z, offset, n),
         NEW data \in [1 .. n -> Int]
  PROVE  LET t == CacheWrite(s, z, f, offset, data)
         IN  /\ PutsOnly(s, t, z, {f} \X PageSpan(offset, n, z), {f} \X RowCells(offset, n))
             /\ Shows(t, z, f, offset, n, data)
<1> DEFINE t == CacheWrite(s, z, f, offset, data)
           span == PageSpan(offset, n, z)
           keys == {f} \X span
           r == WrittenPages(s, z, f, offset, n, data)
           given == {f} \X (offset + 1 .. offset + n)
           Put(p, i, c) ==
             IF InRow(offset, n, c) THEN data[c - offset]
             ELSE IF <<f, p>> \in DOMAIN PagesIn(s, z) THEN PagesIn(s, z)[<<f, p>>].data[i]
             ELSE IF p \in Ends(span) THEN Image(s, z, f, p)[i] ELSE Junk
<1>1. t.disk = s.disk /\ OnlyPages(s, t, z, Joined(r, PagesIn(s, z)))
  BY CacheWriteSound
<1>2. z \in Nat \ {0}
  BY SoundAt
<1>3. \A p \in span : p \in Nat /\ p * z < offset + n /\ offset < (p + 1) * z
  BY <1>2, SpanPages
<1>4. keys \subseteq Files \X Nat
  BY <1>3
<1>5. /\ DOMAIN r = keys
      /\ \A k \in keys : r[k].dirty
      /\ \A p \in span, i \in 1 .. z : r[<<f, p>>].data[i] = Put(p, i, p * z + i)
  <2>1. DOMAIN r = keys /\ \A k \in keys : r[k].dirty
    BY DEF WrittenPages
  <2>2. ASSUME NEW p \in span, NEW i \in 1 .. z
        PROVE  r[<<f, p>>].data[i] = Put(p, i, p * z + i)
    <3> DEFINE image == IF <<f, p>> \in DOMAIN PagesIn(s, z) THEN PagesIn(s, z)[<<f, p>>].data
                        ELSE IF p \in Ends(span) THEN Image(s, z, f, p)
                        ELSE [j \in 1 .. z |-> Junk]
    <3>1. <<f, p>> \in keys /\ <<f, p>>[2] = p
      OBVIOUS
    <3>2. r[<<f, p>>].data =
            [j \in 1 .. z |-> IF InRow(offset, n, p * z + j) THEN data[(p * z + j) - offset]
                              ELSE image[j]]
      BY <3>1 DEF WrittenPages
    <3>3. image[i] = IF <<f, p>> \in DOMAIN PagesIn(s, z) THEN PagesIn(s, z)[<<f, p>>].data[i]
                     ELSE IF p \in Ends(span) THEN Image(s, z, f, p)[i] ELSE Junk
      OBVIOUS
    <3> HIDE DEF image, r, span
    <3>4. r[<<f, p>>].data[i] = IF InRow(offset, n, p * z + i) THEN data[(p * z + i) - offset]
                                ELSE image[i]
      BY <3>2
    <3>5. QED  BY <3>3, <3>4
  <2>3. QED  BY <2>1, <2>2
<1> HIDE DEF r, t, Put
<1>6. /\ DOMAIN t.pagers = DOMAIN s.pagers
      /\ \A y \in DOMAIN s.pagers : y # z => PagesIn(t, y) = PagesIn(s, y)
      /\ DOMAIN PagesIn(t, z) = DOMAIN PagesIn(s, z) \cup keys
      /\ \A k \in DOMAIN PagesIn(s, z) \ keys : PagesIn(t, z)[k] = PagesIn(s, z)[k]
      /\ \A k \in keys : PagesIn(t, z)[k] = r[k]
  BY <1>1, <1>5 DEF OnlyPages, Joined
<1>7. ASSUME NEW p \in span, NEW i \in 1 .. z, NEW c, c = p * z + i, <<f, c>> \notin given
      PROVE  PagesIn(t, z)[<<f, p>>].data[i] = Seen(s, z, f, c)
  <2>1. p \in Nat /\ p * z < offset + n /\ offset < (p + 1) * z
    BY <1>3
  <2>2. c \in Nat \ {0} /\ (c - 1) \div z = p /\ ((c - 1) % z) + 1 = i
    <3>1. p \in Nat /\ c = p * z + i
      BY <1>7, <2>1
    <3>2. z \in Nat \ {0}
      BY <1>2
    <3>3. IsCell(z, p, i, c)
      BY <3>1 DEF IsCell
    <3>4. QED  BY <3>1, <3>2, <3>3, PlaceIs
  <2>3. c \notin offset + 1 .. offset + n
    BY <1>7
  <2>4. c - offset \notin 1 .. n
    BY <2>2, <2>3
  <2>5. <<f, p>> \in keys /\ <<f, p>>[2] = p
    OBVIOUS
  <2>6. r[<<f, p>>].data[i] = Put(p, i, c)
    BY <1>5, <1>7
  <2>7. Seen(s, z, f, c) = IF <<f, p>> \in DOMAIN PagesIn(s, z) THEN PagesIn(s, z)[<<f, p>>].data[i]
                           ELSE OnDisk(s, f, c)
    BY <2>2 DEF Seen, OnDisk
  <2>8. Image(s, z, f, p)[i] = OnDisk(s, f, c)
    BY <1>2, <1>7, <2>1, ImageSeen
  <2>9. p \in Ends(span)
    <3> SUFFICES ASSUME p \notin Ends(span) PROVE FALSE
      OBVIOUS
    <3>1. p - 1 \in span /\ p + 1 \in span
      BY DEF Ends
    <3>2. offset < ((p - 1) + 1) * z /\ (p + 1) * z < offset + n /\ p - 1 \in Nat
      BY <1>3, <3>1
    <3>3. ((p - 1) + 1) * z = p * z /\ (p + 1) * z = p * z + z /\ p * z \in Nat
      BY <1>2, <2>1
    <3> DEFINE a == p * z
    <3>4. a \in Nat /\ offset < a /\ a + z < offset + n /\ c = a + i
      BY <1>7, <3>2, <3>3
    <3> HIDE DEF a
    <3>5. c > offset /\ c <= offset + n
      BY <1>2, <3>4
    <3>6. QED  BY <2>2, <2>3, <3>5
  <2>10. PagesIn(t, z)[<<f, p>>] = r[<<f, p>>]
    BY <1>6, <2>5
  <2>11. QED  BY <2>4, <2>6, <2>7, <2>8, <2>9, <2>10 DEF Put, InRow
<1>8. PutsOnly(s, t, z, keys, given)
  <2>1. ASSUME NEW k \in keys
        PROVE  /\ PagesIn(t, z)[k].dirty
               /\ \A i \in 1 .. z : <<k[1], k[2] * z + i>> \notin given =>
                    PagesIn(t, z)[k].data[i] = Seen(s, z, k[1], k[2] * z + i)
    <3>1. PICK p \in span : k = <<f, p>>
      OBVIOUS
    <3>2. PagesIn(t, z)[k].dirty
      BY <1>5, <1>6
    <3> HIDE DEF given, span, keys
    <3>3. QED  BY <1>7, <3>1, <3>2
  <2> HIDE DEF keys, given
  <2>2. QED  BY <1>1, <1>6, <2>1 DEF PutsOnly
<1>9. \A c \in offset + 1 .. offset + n : Seen(t, z, f, c) = data[c - offset]
  <2> SUFFICES ASSUME NEW c \in offset + 1 .. offset + n
               PROVE  Seen(t, z, f, c) = data[c - offset]
    OBVIOUS
  <2> DEFINE p == (c - 1) \div z
             i == ((c - 1) % z) + 1
  <2>1. c \in Nat \ {0} /\ c - offset \in 1 .. n
    OBVIOUS
  <2>2. i \in 1 .. z /\ c = p * z + i
    BY <1>2, <2>1, CellPlace
  <2>3. p \in span
    BY <1>2, SpanCells
  <2>4. <<f, p>> \in keys
    BY <2>3
  <2>5. Seen(t, z, f, c) = PagesIn(t, z)[<<f, p>>].data[i]
    BY <1>6, <2>4 DEF Seen
  <2>6. PagesIn(t, z)[<<f, p>>] = r[<<f, p>>]
    BY <1>6, <2>4
  <2>7. r[<<f, p>>].data[i] = data[c - offset]
    <3> HIDE DEF p, i, span, keys
    <3>1. r[<<f, p>>].data[i] = Put(p, i, c)
      BY <1>5, <2>2, <2>3
    <3>2. QED  BY <2>1, <3>1 DEF Put, InRow
  <2>8. QED  BY <2>5, <2>6, <2>7
<1>10. \A i \in 1 .. n : offset + i \in offset + 1 .. offset + n /\ (offset + i) - offset = i
  OBVIOUS
<1>11. QED  BY <1>8, <1>9, <1>10 DEF t, RowCells, Shows

\* The cells after offset hold data, as they are seen.
Holds(s, home, f, offset, n, data) == \A i \in 1 .. n : View(s, home, f, offset + i) = data[i]

\* A write is seen in its cells, and changes no other.
LEMMA CacheWriteKeeps ==
  ASSUME NEW b \in Nat, NEW s, Sound(s, b), NEW z \in DOMAIN s.pagers, NEW f \in Files,
         NEW offset \in Nat, NEW n \in Nat \ {0}, InReach(b, z, offset, n),
         NEW data \in [1 .. n -> Int], NEW home, Home(s, home), home[f] = z, NEW v, Clean(s, v)
  PROVE  LET t == CacheWrite(s, z, f, offset, data)
         IN  /\ Home(t, home) /\ Clean(t, v)
             /\ Keeps(s, home, t, home, v, {f} \X RowCells(offset, n))
             /\ Holds(t, home, f, offset, n, data)
<1> DEFINE t == CacheWrite(s, z, f, offset, data)
           keys == {f} \X PageSpan(offset, n, z)
           given == {f} \X RowCells(offset, n)
<1>1. PutsOnly(s, t, z, keys, given) /\ Shows(t, z, f, offset, n, data)
  BY CacheWritePuts
<1>2. keys \subseteq Files \X Nat /\ \A k \in keys : home[k[1]] = z
  <2>1. z \in Nat \ {0}
    BY SoundAt
  <2>2. \A page \in PageSpan(offset, n, z) : page \in Nat
    BY <2>1, SpanPages
  <2>3. QED  BY <2>2
<1> HIDE DEF t, keys, given
<1>3. Home(t, home) /\ Clean(t, v) /\ Keeps(s, home, t, home, v, given)
  BY <1>1, <1>2, PutKeeps
<1>4. Holds(t, home, f, offset, n, data)
  <2>1. DOMAIN t.pagers = DOMAIN s.pagers
    BY <1>1 DEF PutsOnly
  <2>2. QED  BY <1>1, <2>1 DEF Holds, View, Shows
<1>5. QED  BY <1>3, <1>4 DEF t, given
=============================================================================
