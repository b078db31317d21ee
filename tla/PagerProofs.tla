---------------------------- MODULE PagerProofs -----------------------------
(***************************************************************************)
(* Theorems about the page cache, for pools of any size, ranges of any     *)
(* length, any number of files and pages: the pool is well typed, every    *)
(* slot is free or in the one range it belongs to, the map of masters is   *)
(* right, no page is cached twice, a locked range stays where it is, a     *)
(* page that differs from the disk is in a marked range, and what clients  *)
(* see is a page store.                                                    *)
(*                                                                         *)
(* The invariant is Sound with nothing loose (IInv): TypeOK, NoSlotLost,   *)
(* RangesWhole and CachedOnce follow from it.  What is promised of         *)
(* contents needs CleanRows as well (CInv).                                *)
(*                                                                         *)
(* A request is served in stages: the cuts around it (processOverlaps_),   *)
(* the choice and the clearing of a place for a new range (makeRange_),    *)
(* joining and copying the pages that are cached.  Between them some slots *)
(* are in no range: the ones that hold pages asked for, and the ones of    *)
(* the new range.  Facts about the stages are therefore about the slots    *)
(* but for a set H of loose ones; between calls H is empty.  Each stage    *)
(* keeps what was locked (Firm) and what a page reads as (Passes).         *)
(***************************************************************************)
EXTENDS Pager, TLAPS, WellFoundedInduction, FiniteSetTheorems

-----------------------------------------------------------------------------
(* About natural numbers.                                                  *)

\* The least element is what proofs by induction here start from: that of the
\* numbers for which a claim fails.
LEMMA Least ==
  ASSUME NEW T, T \subseteq Nat, T # {}
  PROVE  \E x \in T : \A y \in T : x <= y
<1> DEFINE R == OpToRel(<, Nat)
<1>1. \A x, y \in Nat : y < x => <<y, x>> \in R
  BY DEF OpToRel
<1>2. IsWellFoundedOn(R, Nat)
  BY NatLessThanWellFounded
<1> HIDE DEF R
<1>3. \E x \in T : \A y \in T : ~ (<<y, x>> \in R)
  BY <1>2, WFMin
<1>4. PICK x \in T : \A y \in T : ~ (<<y, x>> \in R)
  BY <1>3
<1>5. \A y \in T : y \in Nat /\ x \in Nat /\ ~(y < x)
  BY <1>1, <1>4
<1>6. \A y \in T : x <= y
  BY <1>5
<1>7. QED  BY <1>6

\* A bounded set of numbers has a greatest element.
LEMMA Greatest ==
  ASSUME NEW T, T \subseteq Nat, T # {}, NEW b \in Nat, \A x \in T : x <= b
  PROVE  \E x \in T : \A y \in T : y <= x
<1> DEFINE bounds == {m \in Nat : \A x \in T : x <= m}
<1>1. PICK m \in bounds : \A y \in bounds : m <= y
  <2>1. bounds \subseteq Nat /\ b \in bounds
    OBVIOUS
  <2> HIDE DEF bounds
  <2>2. QED  BY <2>1, Least
<1>2. CASE m \in T
  BY <1>2
<1>3. CASE m \notin T
  <2>1. \A x \in T : x <= m - 1
    BY <1>3
  <2>2. m - 1 \in Nat
    <3>1. PICK x \in T : TRUE
      OBVIOUS
    <3>2. x \in Nat /\ m \in Nat /\ x <= m - 1
      BY <2>1
    <3>3. QED  BY <3>2
  <2>3. m - 1 \in bounds
    BY <2>1, <2>2
  <2>4. QED  BY <1>1, <2>3
<1>4. QED  BY <1>2, <1>3

-----------------------------------------------------------------------------
(* Slots and ranges.                                                       *)

\* A slot whose counts are within the bounds of the model (SBMemPage).
SlotType == [free : BOOLEAN, file : Files \cup {NoFile}, page : Pages,
             masters : 0 .. MaxCount, mark : 0 .. MarkMod - 1,
             lock : 0 .. MaxLock, data : Values \cup {Junk}]

\* The slots in use, but for the loose ones.
Kept(sl, H) == {x \in DOMAIN sl \ H : ~sl[x].free}
\* The masters among them.
Heads(sl, H) == {m \in Kept(sl, H) : sl[m].masters > 0}

\* The slots of a range are in use, hold the pages of one file one after the
\* other, and only the first is a master.
Rows(sl, H) ==
  \A m \in Heads(sl, H) : \A x \in RangeOf(sl, m) :
    /\ x \in Kept(sl, H) /\ (x # m => sl[x].masters = 0)
    /\ sl[x].file = sl[m].file /\ sl[x].page = (sl[m].page + x) - m

\* Every slot in use is in a range.
Owned(sl, H) == \A x \in Kept(sl, H) : \E m \in Heads(sl, H) : x \in RangeOf(sl, m)

\* No page is in two slots.
Once(sl, H) ==
  \A x, y \in Kept(sl, H) : sl[x].file = sl[y].file /\ sl[x].page = sl[y].page => x = y

\* A free slot holds nothing, a slot in use is of a file, and only masters are
\* locked.
Plain(sl, H) ==
  \A x \in DOMAIN sl :
    /\ sl[x].free => sl[x] = FreeSlot
    /\ x \in Kept(sl, H) => sl[x].file \in Files
    /\ sl[x].lock > 0 => x \in Heads(sl, H)

\* The slots but for the loose ones are parted into ranges.
Parted(sl, H) == Rows(sl, H) /\ Owned(sl, H) /\ Once(sl, H) /\ Plain(sl, H)

\* A map has the masters M, each under the file and first page of its range.
MapsTo(am, sl, M) ==
  /\ DOMAIN am = {Key(sl, m) : m \in M}
  /\ \A m \in M : am[Key(sl, m)] = m

\* addrmap_ has all masters and nothing else.
Mapped(am, sl, H) == MapsTo(am, sl, Heads(sl, H))

\* What the fields of a slot are.
LEMMA Fields ==
  ASSUME NEW N \in Nat, NEW sl \in [0 .. N - 1 -> SlotType], NEW x \in 0 .. N - 1
  PROVE  /\ sl[x].masters \in 0 .. MaxCount /\ sl[x].page \in Pages /\ sl[x].mark \in 0 .. MarkMod - 1
         /\ sl[x].lock \in 0 .. MaxLock /\ sl[x].data \in Values \cup {Junk} /\ sl[x].free \in BOOLEAN
         /\ sl[x].masters \in Nat /\ sl[x].page \in Nat /\ sl[x].mark \in Nat /\ sl[x].lock \in Nat
         /\ sl[x].file \in Files \cup {NoFile}
  BY PagerAssumption DEF SlotType, Pages

\* A slot of a range lies between the master and the end of the range.
LEMMA InRange ==
  ASSUME NEW N \in Nat, NEW sl \in [0 .. N - 1 -> SlotType], NEW m \in 0 .. N - 1, NEW x \in RangeOf(sl, m)
  PROVE  x \in Int /\ m <= x /\ x <= (m + sl[m].masters) - 1 /\ sl[m].masters > 0
  BY PagerAssumption DEF RangeOf, SlotType

\* The slots of a range are exactly those.
LEMMA RangeHas ==
  ASSUME NEW N \in Nat, NEW sl \in [0 .. N - 1 -> SlotType], NEW m \in 0 .. N - 1, NEW x \in Int
  PROVE  x \in RangeOf(sl, m) <=> m <= x /\ x <= (m + sl[m].masters) - 1
  BY PagerAssumption DEF RangeOf, SlotType

\* A master is the first slot of its range.
LEMMA HeadIn ==
  ASSUME NEW N \in Nat, NEW sl \in [0 .. N - 1 -> SlotType], NEW H, NEW m \in Heads(sl, H)
  PROVE  m \in 0 .. N - 1 /\ m \in Kept(sl, H) /\ m \in RangeOf(sl, m)
<1>1. m \in 0 .. N - 1 /\ m \in Kept(sl, H) /\ sl[m].masters > 0
  BY DEF Heads, Kept
<1>2. QED  BY <1>1, PagerAssumption DEF RangeOf, SlotType

\* The master that findmaster walks back to is the one of the range the slot is
\* in.
LEMMA OwnerIs ==
  ASSUME NEW N \in Nat, NEW sl \in [0 .. N - 1 -> SlotType], NEW H, Rows(sl, H),
         NEW m \in Heads(sl, H), NEW x \in RangeOf(sl, m)
  PROVE  Master(sl, x) = m
<1>1. x \in Int /\ m <= x /\ x <= (m + sl[m].masters) - 1 /\ m \in 0 .. N - 1 /\ sl[m].masters > 0
  BY InRange, HeadIn DEF Heads
<1>2. x \in 0 .. N - 1 /\ sl[m].masters \in Nat
  BY <1>1, Fields DEF Rows, Kept
<1>3. m \in {k \in 0 .. x : sl[k].masters > 0}
  BY <1>1
<1>4. ASSUME NEW k \in {k \in 0 .. x : sl[k].masters > 0} PROVE m >= k
  <2>1. k \in 0 .. N - 1 /\ k <= x /\ sl[k].masters > 0
    BY <1>2, <1>4
  <2>2. CASE k > m
     <3>1. k \in RangeOf(sl, m)
       BY <1>1, <1>2, <2>1, <2>2, RangeHas
     <3>2. sl[k].masters = 0 BY <2>2, <3>1, <2>1, <1>1 DEF Rows
     <3> QED BY <3>2, <2>1
  <2> QED BY <2>2, <2>1, <1>1
<1>5. QED
  BY <1>3, <1>4 DEF Master, Max

\* Every slot in use has such a master.
LEMMA Owner ==
  ASSUME NEW N \in Nat, NEW sl \in [0 .. N - 1 -> SlotType], NEW H, Rows(sl, H), Owned(sl, H),
         NEW x \in Kept(sl, H)
  PROVE  Master(sl, x) \in Heads(sl, H) /\ x \in RangeOf(sl, Master(sl, x))
<1>1. PICK m \in Heads(sl, H) : x \in RangeOf(sl, m)
  BY DEF Owned
<1>2. QED  BY <1>1, OwnerIs

\* Ranges that share a slot are one.
LEMMA Apart ==
  ASSUME NEW N \in Nat, NEW sl \in [0 .. N - 1 -> SlotType], NEW H, Rows(sl, H),
         NEW m \in Heads(sl, H), NEW k \in Heads(sl, H), NEW x, x \in RangeOf(sl, m), x \in RangeOf(sl, k)
  PROVE  m = k
<1>1. Master(sl, x) = m
  BY OwnerIs
<1>2. Master(sl, x) = k
  BY OwnerIs
<1>3. QED  BY <1>1, <1>2

\* A master found in addrmap_ is a master, under its own key.
LEMMA HeadOfMapped ==
  ASSUME NEW N \in Nat, NEW sl \in [0 .. N - 1 -> SlotType], NEW H, Rows(sl, H), Once(sl, H), NEW am, Mapped(am, sl, H)
  PROVE  /\ {am[k] : k \in DOMAIN am} = Heads(sl, H)
         /\ \A k \in DOMAIN am : am[k] \in Heads(sl, H) /\ k = Key(sl, am[k])
  BY DEF Mapped, MapsTo

-----------------------------------------------------------------------------
\* The pool, the map and the disk are well typed and fit together, but for the
\* loose slots H.
Sound(s, N, H) ==
  /\ s = [slots |-> s.slots, addrmap |-> s.addrmap, disk |-> s.disk]
  /\ s.slots \in [0 .. N - 1 -> SlotType]
  /\ Parted(s.slots, H)
  /\ Mapped(s.addrmap, s.slots, H)
  /\ s.disk \in [Files -> Seq(Values \cup {Junk})]

\* A request, for the pages p .. p+n-1 of file f.
Asked(f, p, n) == f \in Files /\ p \in Pages /\ n \in Counts /\ (p + n) - 1 \in Pages

\* What a request is made of.
LEMMA AskedTypes ==
  ASSUME NEW f, NEW p, NEW n, Asked(f, p, n)
  PROVE  f \in Files /\ p \in Nat /\ n \in Nat /\ n > 0 /\ n <= MaxCount /\ (p + n) - 1 <= MaxPage /\ MaxPage \in Nat /\ MaxCount \in Nat
  BY PagerAssumption DEF Asked, Counts, Pages

\* findOverlaps finds the ranges of the file that have a page asked for.
LEMMA OverlapSet ==
  ASSUME NEW N \in Nat, NEW s, Sound(s, N, {}), NEW f, NEW p, NEW n
  PROVE  Overlapping(s, f, p, n) =
           {m \in Heads(s.slots, {}) : s.slots[m].file = f /\ s.slots[m].page < p + n
                                       /\ s.slots[m].page + s.slots[m].masters > p}
<1> DEFINE am == s.addrmap  sl == s.slots
<1>1. sl \in [0 .. N - 1 -> SlotType] /\ Rows(sl, {}) /\ Once(sl, {}) /\ Mapped(am, sl, {})
  BY DEF Sound, Parted
<1> HIDE DEF am, sl
<1>2. \A k \in DOMAIN am : am[k] \in Heads(sl, {}) /\ k = Key(sl, am[k])
  BY <1>1, HeadOfMapped
<1>3. \A m \in Heads(sl, {}) : Key(sl, m) \in DOMAIN am /\ am[Key(sl, m)] = m
  BY <1>1 DEF Mapped, MapsTo
<1>4. \A m : Key(sl, m)[1] = sl[m].file /\ Key(sl, m)[2] = sl[m].page
  BY DEF Key
<1>5. Overlapping(s, f, p, n) = {am[k] : k \in {k \in DOMAIN am :
                           /\ k[1] = f /\ k[2] < p + n
                           /\ k[2] + sl[am[k]].masters > p}}
  BY DEF Overlapping, am, sl
<1>6. ASSUME NEW m \in Overlapping(s, f, p, n)
      PROVE  m \in Heads(sl, {}) /\ sl[m].file = f /\ sl[m].page < p + n /\ sl[m].page + sl[m].masters > p
  <2>1. PICK k \in DOMAIN am : k[1] = f /\ k[2] < p + n /\ k[2] + sl[am[k]].masters > p /\ m = am[k]
    BY <1>5, <1>6
  <2>2. m \in Heads(sl, {}) /\ k = Key(sl, m)
    BY <2>1, <1>2
  <2>3. k[1] = sl[m].file /\ k[2] = sl[m].page
    BY <2>2, <1>4
  <2>4. QED  BY <2>1, <2>2, <2>3
<1>7. ASSUME NEW m \in Heads(sl, {}), sl[m].file = f, sl[m].page < p + n, sl[m].page + sl[m].masters > p
      PROVE  m \in Overlapping(s, f, p, n)
  <2> DEFINE k == Key(sl, m)
  <2>1. k \in DOMAIN am /\ am[k] = m
    BY <1>3
  <2>2. k[1] = f /\ k[2] = sl[m].page
    BY <1>7, <1>4
  <2>3. k[1] = f /\ k[2] < p + n /\ k[2] + sl[am[k]].masters > p
    BY <2>1, <2>2, <1>7
  <2> HIDE DEF k
  <2>4. QED  BY <2>1, <2>3, <1>5
<1>8. QED  BY <1>6, <1>7 DEF sl

\* In the range of master m, where a page lies.
LEMMA Cell ==
  ASSUME NEW N \in Nat, NEW sl \in [0 .. N - 1 -> SlotType], NEW H, Rows(sl, H),
         NEW m \in Heads(sl, H), NEW x \in RangeOf(sl, m)
  PROVE  /\ x \in 0 .. N - 1 /\ m \in 0 .. N - 1 /\ m <= x /\ x <= (m + sl[m].masters) - 1
         /\ sl[x].file = sl[m].file /\ sl[x].page = (sl[m].page + x) - m
         /\ sl[m].page <= sl[x].page /\ sl[x].page < sl[m].page + sl[m].masters
         /\ x \in Kept(sl, H) /\ (x # m => sl[x].masters = 0) /\ x - m = sl[x].page - sl[m].page
         /\ sl[x].page \in Nat /\ sl[m].page \in Nat /\ sl[m].masters \in Nat /\ sl[m].masters > 0
<1>1. x \in 0 .. N - 1 /\ m \in 0 .. N - 1
  BY HeadIn DEF Rows, Kept
<1>2. x \in Int /\ m <= x /\ x <= (m + sl[m].masters) - 1 /\ sl[m].masters > 0
  BY <1>1, InRange
<1>3. sl[x].page \in Nat /\ sl[m].page \in Nat /\ sl[m].masters \in Nat
  BY <1>1, Fields
<1>4. x \in Kept(sl, H) /\ sl[x].file = sl[m].file /\ sl[x].page = (sl[m].page + x) - m /\ (x # m => sl[x].masters = 0)
  BY DEF Rows
<1>5. QED  BY SMTT(40), <1>1, <1>2, <1>3, <1>4

\* A page within the range of a master is there.
LEMMA CellAt ==
  ASSUME NEW N \in Nat, NEW sl \in [0 .. N - 1 -> SlotType], NEW H, Rows(sl, H),
         NEW m \in Heads(sl, H), NEW q \in Nat, sl[m].page <= q, q < sl[m].page + sl[m].masters
  PROVE  /\ (m + q) - sl[m].page \in RangeOf(sl, m)
         /\ sl[(m + q) - sl[m].page].page = q
<1>1. m \in 0 .. N - 1
  BY HeadIn
<1>2. sl[m].page \in Nat /\ sl[m].masters \in Nat
  BY <1>1, Fields
<1> DEFINE x == (m + q) - sl[m].page
<1>3. x \in Int /\ m <= x /\ x <= (m + sl[m].masters) - 1
  BY <1>1, <1>2
<1>4. (sl[m].page + x) - m = q
  BY <1>1, <1>2
<1> HIDE DEF x
<1>5. x \in RangeOf(sl, m)
  BY <1>1, <1>3, RangeHas
<1>6. sl[x].page = q
  BY <1>4, <1>5 DEF Rows
<1>7. QED  BY <1>5, <1>6 DEF x

\* The slots in common are those that hold pages asked for, and they are in
\* ranges that overlap.
LEMMA CommonSet ==
  ASSUME NEW N \in Nat, NEW s, Sound(s, N, {}), NEW f, NEW p, NEW n, Asked(f, p, n)
  PROVE  /\ Common(s, f, p, n) =
              {x \in Kept(s.slots, {}) : s.slots[x].file = f /\ s.slots[x].page \in p .. p + n - 1}
         /\ \A x \in Common(s, f, p, n) : Master(s.slots, x) \in Overlapping(s, f, p, n)
<1> DEFINE sl == s.slots  over == Overlapping(s, f, p, n)
<1>1. sl \in [0 .. N - 1 -> SlotType] /\ Rows(sl, {}) /\ Owned(sl, {})
  BY DEF Sound, Parted
<1>2. over = {m \in Heads(sl, {}) : sl[m].file = f /\ sl[m].page < p + n /\ sl[m].page + sl[m].masters > p}
  BY OverlapSet
<1>3. Common(s, f, p, n) = {x \in UNION {RangeOf(sl, m) : m \in over} : sl[x].page \in p .. p + n - 1}
  BY DEF Common
<1>4. p \in Nat /\ n \in Nat
  BY AskedTypes
<1> HIDE DEF sl, over
<1>5. ASSUME NEW x \in Common(s, f, p, n)
      PROVE  x \in Kept(sl, {}) /\ sl[x].file = f /\ sl[x].page \in p .. p + n - 1 /\ Master(sl, x) \in over
  <2>1. PICK m \in over : x \in RangeOf(sl, m) /\ sl[x].page \in p .. p + n - 1
    BY <1>3, <1>5
  <2>2. m \in Heads(sl, {}) /\ sl[m].file = f
    BY <1>2
  <2>3. x \in Kept(sl, {}) /\ sl[x].file = f
    BY <1>1, <2>1, <2>2, Cell
  <2>4. Master(sl, x) = m
    BY <1>1, <2>1, <2>2, OwnerIs
  <2>5. QED  BY <2>1, <2>3, <2>4
<1>6. ASSUME NEW x \in Kept(sl, {}), sl[x].file = f, sl[x].page \in p .. p + n - 1
      PROVE  x \in Common(s, f, p, n)
  <2>1. PICK m \in Heads(sl, {}) : x \in RangeOf(sl, m)
    BY <1>1 DEF Owned
  <2>2. /\ sl[x].file = sl[m].file /\ sl[m].page <= sl[x].page /\ sl[x].page < sl[m].page + sl[m].masters
        /\ sl[x].page \in Nat /\ sl[m].page \in Nat /\ sl[m].masters \in Nat
    BY <1>1, <2>1, Cell
  <2>3. sl[m].page < p + n /\ sl[m].page + sl[m].masters > p
    BY <2>2, <1>4, <1>6
  <2>4. m \in over
    BY <1>2, <1>6, <2>2, <2>3
  <2>5. QED  BY <1>3, <1>6, <2>1, <2>4
<1>7. QED  BY <1>5, <1>6 DEF sl, over

\* At most one slot starts what is left behind a request: the one with the page
\* after the last, in a range it does not start.
LEMMA BehindSet ==
  ASSUME NEW N \in Nat, NEW s, Sound(s, N, {}), NEW f, NEW p, NEW n, Asked(f, p, n),
         NEW x \in Behind(s, f, p, n)
  PROVE  /\ x \in Kept(s.slots, {}) /\ s.slots[x].file = f /\ s.slots[x].page = p + n
         /\ Master(s.slots, x) \in Overlapping(s, f, p, n) /\ Master(s.slots, x) # x
         /\ s.slots[x].masters = 0 /\ x \in RangeOf(s.slots, Master(s.slots, x))
         /\ \A y \in Behind(s, f, p, n) : y = x
<1> DEFINE sl == s.slots  over == Overlapping(s, f, p, n)
<1>1. sl \in [0 .. N - 1 -> SlotType] /\ Rows(sl, {}) /\ Owned(sl, {}) /\ Once(sl, {})
  BY DEF Sound, Parted
<1>2. over = {m \in Heads(sl, {}) : sl[m].file = f /\ sl[m].page < p + n /\ sl[m].page + sl[m].masters > p}
  BY OverlapSet
<1>3. Behind(s, f, p, n) = {y \in UNION {RangeOf(sl, m) : m \in over} : sl[y].page = p + n}
  BY DEF Behind
<1>4. p \in Nat /\ n \in Nat
  BY AskedTypes
<1> HIDE DEF sl, over
<1>5. ASSUME NEW y \in Behind(s, f, p, n)
      PROVE  y \in Kept(sl, {}) /\ sl[y].file = f /\ sl[y].page = p + n /\ Master(sl, y) \in over
             /\ Master(sl, y) # y /\ sl[y].masters = 0 /\ y \in RangeOf(sl, Master(sl, y))
  <2>1. PICK m \in over : y \in RangeOf(sl, m) /\ sl[y].page = p + n
    BY <1>3, <1>5
  <2>2. m \in Heads(sl, {}) /\ sl[m].file = f /\ sl[m].page < p + n
    BY <1>2
  <2>3. y \in Kept(sl, {}) /\ sl[y].file = f /\ (y # m => sl[y].masters = 0) /\ sl[m].page \in Nat
    BY <1>1, <2>1, <2>2, Cell
  <2>4. Master(sl, y) = m
    BY <1>1, <2>1, <2>2, OwnerIs
  <2>5. m # y
    BY <2>1, <2>2, <2>3, <1>4
  <2>6. QED  BY <2>1, <2>3, <2>4, <2>5
<1>6. QED  BY <1>1, <1>5 DEF sl, over, Once

-----------------------------------------------------------------------------
\* What cutting changes of a slot.
IsCut(s, f, p, n, c, x) ==
  /\ c[x].free = s.slots[x].free /\ c[x].file = s.slots[x].file /\ c[x].page = s.slots[x].page
  /\ c[x].lock = s.slots[x].lock /\ c[x].data = s.slots[x].data
  /\ x \in Common(s, f, p, n) => c[x].masters = 0 /\ c[x].mark = s.slots[Master(s.slots, x)].mark
  /\ x \notin Common(s, f, p, n) /\ x \in Behind(s, f, p, n) =>
       /\ c[x].masters = (s.slots[Master(s.slots, x)].page + s.slots[Master(s.slots, x)].masters) - (p + n)
       /\ c[x].mark = s.slots[Master(s.slots, x)].mark
  /\ x \notin Common(s, f, p, n) /\ x \notin Behind(s, f, p, n) /\ x \in Overlapping(s, f, p, n) =>
       c[x].masters = p - s.slots[x].page /\ c[x].mark = s.slots[x].mark
  /\ x \notin Common(s, f, p, n) /\ x \notin Behind(s, f, p, n) /\ x \notin Overlapping(s, f, p, n) =>
       c[x] = s.slots[x]
  /\ c[x] = [s.slots[x] EXCEPT !.masters = c[x].masters, !.mark = c[x].mark]

\* Each slot is cut as IsCut says.
LEMMA CutFields ==
  ASSUME NEW N \in Nat, NEW s, Sound(s, N, {}), NEW f, NEW p, NEW n, Asked(f, p, n), NEW x \in 0 .. N - 1
  PROVE  IsCut(s, f, p, n, CutSlots(s, f, p, n), x)
<1> DEFINE sl == s.slots  common == Common(s, f, p, n)  behind == Behind(s, f, p, n)
           over == Overlapping(s, f, p, n)  cut == CutSlots(s, f, p, n)
<1>1. sl \in [0 .. N - 1 -> SlotType]
  BY DEF Sound
<1>2. cut = [y \in DOMAIN sl |->
         IF y \in common THEN [sl[y] EXCEPT !.masters = 0, !.mark = sl[Master(sl, y)].mark]
         ELSE IF y \in behind
         THEN [sl[y] EXCEPT !.masters = (sl[Master(sl, y)].page + sl[Master(sl, y)].masters) - (p + n),
                            !.mark = sl[Master(sl, y)].mark]
         ELSE IF y \in over THEN [sl[y] EXCEPT !.masters = p - sl[y].page]
         ELSE sl[y]]
  BY DEF CutSlots, Shrunk
<1> HIDE DEF sl, common, behind, over, cut
<1>3. DOMAIN sl = 0 .. N - 1 /\ DOMAIN cut = 0 .. N - 1
  BY <1>1, <1>2
<1>4. sl[x] \in SlotType
  BY <1>1
<1>5. cut[x] =
         IF x \in common THEN [sl[x] EXCEPT !.masters = 0, !.mark = sl[Master(sl, x)].mark]
         ELSE IF x \in behind
         THEN [sl[x] EXCEPT !.masters = (sl[Master(sl, x)].page + sl[Master(sl, x)].masters) - (p + n),
                            !.mark = sl[Master(sl, x)].mark]
         ELSE IF x \in over THEN [sl[x] EXCEPT !.masters = p - sl[x].page]
         ELSE sl[x]
  BY <1>2, <1>3
<1> DEFINE A == sl[Master(sl, x)].mark
           B == (sl[Master(sl, x)].page + sl[Master(sl, x)].masters) - (p + n)
           C == p - sl[x].page
<1>6. cut[x] = IF x \in common THEN [sl[x] EXCEPT !.masters = 0, !.mark = A]
               ELSE IF x \in behind THEN [sl[x] EXCEPT !.masters = B, !.mark = A]
               ELSE IF x \in over THEN [sl[x] EXCEPT !.masters = C] ELSE sl[x]
  BY <1>5
<1> HIDE DEF A, B, C
<1>7. /\ cut[x].free = sl[x].free /\ cut[x].file = sl[x].file
      /\ cut[x].page = sl[x].page /\ cut[x].lock = sl[x].lock
      /\ cut[x].data = sl[x].data
      /\ x \in common => cut[x].masters = 0 /\ cut[x].mark = A
      /\ x \notin common /\ x \in behind => cut[x].masters = B /\ cut[x].mark = A
      /\ x \notin common /\ x \notin behind /\ x \in over => cut[x].masters = C /\ cut[x].mark = sl[x].mark
      /\ x \notin common /\ x \notin behind /\ x \notin over => cut[x] = sl[x]
  BY <1>4, <1>6 DEF SlotType
<1>8. cut[x] = [sl[x] EXCEPT !.masters = cut[x].masters, !.mark = cut[x].mark]
  BY <1>4, <1>6 DEF SlotType
<1>9. QED  BY <1>3, <1>7, <1>8 DEF sl, common, behind, over, cut, A, B, C, IsCut

-----------------------------------------------------------------------------
\* Once the ranges around a request are cut, the slots in common are loose, the
\* others are in ranges again, and each new range has the mark count of the one
\* it was cut from.
LEMMA CutParted ==
  ASSUME NEW N \in Nat, NEW s, Sound(s, N, {}), NEW f, NEW p, NEW n, Asked(f, p, n),
         \A m \in Overlapping(s, f, p, n) : s.slots[m].lock = 0
  PROVE  LET c == CutSlots(s, f, p, n)
             H == Common(s, f, p, n)
             over == Overlapping(s, f, p, n)
             behind == Behind(s, f, p, n)
         IN  /\ c \in [0 .. N - 1 -> SlotType] /\ Parted(c, H)
             /\ Kept(c, H) = Kept(s.slots, {}) \ H
             /\ Heads(c, H) = (Heads(s.slots, {}) \ H) \cup behind
             /\ \A m \in Heads(c, H) : \A x \in RangeOf(c, m) :
                  c[m].mark = s.slots[Master(s.slots, x)].mark
<1> DEFINE sl == s.slots  H == Common(s, f, p, n)  behind == Behind(s, f, p, n)
           over == Overlapping(s, f, p, n)  c == CutSlots(s, f, p, n)
           Own(x) == Master(sl, x)
<1>1. sl \in [0 .. N - 1 -> SlotType] /\ Rows(sl, {}) /\ Owned(sl, {}) /\ Once(sl, {}) /\ Plain(sl, {})
  BY DEF Sound, Parted
<1>2. f \in Files /\ p \in Nat /\ n \in Nat /\ n > 0
  BY AskedTypes
<1>3. over = {m \in Heads(sl, {}) : sl[m].file = f /\ sl[m].page < p + n /\ sl[m].page + sl[m].masters > p}
  BY OverlapSet
<1>4. /\ H = {x \in Kept(sl, {}) : sl[x].file = f /\ sl[x].page \in p .. p + n - 1}
      /\ \A x \in H : Own(x) \in over
  BY CommonSet
<1>5. \A x \in behind :
        /\ x \in Kept(sl, {}) /\ sl[x].file = f /\ sl[x].page = p + n
        /\ Own(x) \in over /\ Own(x) # x /\ sl[x].masters = 0 /\ x \in RangeOf(sl, Own(x))
        /\ \A y \in behind : y = x
  BY BehindSet
<1>6. \A x \in 0 .. N - 1 :
        /\ c[x].free = sl[x].free /\ c[x].file = sl[x].file /\ c[x].page = sl[x].page
        /\ c[x].lock = sl[x].lock /\ c[x].data = sl[x].data
        /\ x \in H => c[x].masters = 0 /\ c[x].mark = sl[Own(x)].mark
        /\ x \notin H /\ x \in behind =>
             /\ c[x].masters = (sl[Own(x)].page + sl[Own(x)].masters) - (p + n)
             /\ c[x].mark = sl[Own(x)].mark
        /\ x \notin H /\ x \notin behind /\ x \in over => c[x].masters = p - sl[x].page /\ c[x].mark = sl[x].mark
        /\ x \notin H /\ x \notin behind /\ x \notin over => c[x] = sl[x]
        /\ c[x] = [sl[x] EXCEPT !.masters = c[x].masters, !.mark = c[x].mark]
  <2>1. \A x \in 0 .. N - 1 : IsCut(s, f, p, n, c, x)
    BY CutFields
  <2>2. QED  BY <2>1 DEF IsCut
<1>7. c = [x \in 0 .. N - 1 |-> c[x]]
  BY <1>1 DEF CutSlots
<1>8. \A m \in over : sl[m].lock = 0
  OBVIOUS
<1>9. Kept(sl, {}) \subseteq 0 .. N - 1 /\ Heads(sl, {}) \subseteq Kept(sl, {})
  BY <1>1 DEF Heads, Kept
<1> HIDE DEF sl, H, behind, over, c
<1>10. behind \cap H = {} /\ behind \cap over = {}
  <2>1. ASSUME NEW x \in behind, x \in H PROVE FALSE
    BY <1>2, <1>4, <1>5, <2>1
  <2>2. ASSUME NEW x \in behind, x \in over PROVE FALSE
    BY <1>2, <1>3, <1>5, <2>2
  <2>3. QED  BY <2>1, <2>2
<1>11. \A x \in Kept(sl, {}) : Own(x) \in Heads(sl, {}) /\ x \in RangeOf(sl, Own(x))
  BY <1>1, Owner
<1>12. Kept(c, H) = Kept(sl, {}) \ H
  <2>1. DOMAIN c = 0 .. N - 1 /\ DOMAIN sl = 0 .. N - 1
    BY <1>1, <1>7
  <2>2. QED  BY <2>1, <1>6 DEF Kept
\* The three kinds of masters: those that stay, those before and those behind
\* the request.
<1>13. ASSUME NEW m \in Heads(sl, {}), m \notin over
       PROVE  /\ m \notin H /\ m \in Heads(c, H) /\ RangeOf(c, m) = RangeOf(sl, m)
              /\ \A x \in RangeOf(sl, m) : x \in Kept(c, H) /\ c[x] = sl[x]
  <2>1. ASSUME NEW x \in RangeOf(sl, m) PROVE x \in Kept(c, H) /\ c[x] = sl[x] /\ x \notin H
    <3>1. Own(x) = m /\ x \in Kept(sl, {})
      BY <1>1, <1>13, <2>1, OwnerIs, Cell
    <3>2. x \notin H /\ x \notin behind
      BY <1>4, <1>5, <1>13, <3>1
    <3>3. x \notin over
      <4>1. CASE x \in over
        <5>1. x \in Heads(sl, {}) /\ x \in RangeOf(sl, x)
          BY <1>1, <1>3, <4>1, HeadIn
        <5>2. Own(x) = x
          BY <1>1, <5>1, OwnerIs
        <5>3. QED  BY <1>13, <3>1, <4>1, <5>2
      <4>2. QED  BY <4>1
    <3>4. QED  BY <1>6, <1>9, <1>12, <3>1, <3>2, <3>3
  <2>2. m \in RangeOf(sl, m) /\ m \in 0 .. N - 1
    BY <1>1, HeadIn
  <2>3. c[m] = sl[m] /\ m \in Kept(c, H) /\ m \notin H
    BY <2>1, <2>2
  <2>4. m \in Heads(c, H)
    BY <2>3 DEF Heads
  <2>5. RangeOf(c, m) = RangeOf(sl, m)
    BY <2>3 DEF RangeOf
  <2>6. QED  BY <2>1, <2>3, <2>4, <2>5
<1>14. ASSUME NEW m \in over, m \notin H
       PROVE  /\ sl[m].page < p /\ c[m].masters = p - sl[m].page /\ c[m].masters \in 0 .. MaxCount /\ c[m].mark = sl[m].mark
              /\ m \in Heads(c, H)
              /\ RangeOf(c, m) = {x \in RangeOf(sl, m) : sl[x].page < p}
  <2>1. m \in Heads(sl, {}) /\ m \in Kept(sl, {}) /\ m \in 0 .. N - 1 /\ sl[m].page < p + n /\ sl[m].file = f
        /\ sl[m].page + sl[m].masters > p
    BY <1>3, <1>9
  <2>2. sl[m].page \in Nat /\ sl[m].masters \in 0 .. MaxCount /\ MaxCount \in Nat
    BY <1>1, <2>1, Fields, PagerAssumption
  <2>3. sl[m].page < p
    BY <1>2, <1>4, <1>14, <2>1, <2>2
  <2>4. c[m].masters = p - sl[m].page /\ c[m].mark = sl[m].mark
    BY <1>6, <1>10, <1>14, <2>1
  <2>5. m \in Kept(c, H) /\ c[m].masters > 0
    BY <1>2, <1>12, <1>14, <2>1, <2>2, <2>3, <2>4
  <2>6. m \in Heads(c, H)
    BY <2>5 DEF Heads
  <2>7. c[m].masters \in 0 .. MaxCount
    BY <1>2, <2>1, <2>2, <2>3, <2>4
  <2>8. ASSUME NEW x \in RangeOf(c, m) PROVE x \in RangeOf(sl, m) /\ sl[x].page < p
    <3>1. x \in Int /\ m <= x /\ x <= (m + (p - sl[m].page)) - 1
      BY <2>1, <2>2, <2>4, <2>8, <1>2 DEF RangeOf
    <3>2. x <= (m + sl[m].masters) - 1
      BY <1>2, <2>1, <2>2, <3>1
    <3>3. x \in RangeOf(sl, m)
      BY <1>1, <2>1, <3>1, <3>2, RangeHas
    <3>4. sl[x].page = (sl[m].page + x) - m
      BY <1>1, <2>1, <3>3, Cell
    <3>5. QED  BY <1>2, <2>1, <2>2, <3>1, <3>3, <3>4
  <2>9. ASSUME NEW x \in RangeOf(sl, m), sl[x].page < p PROVE x \in RangeOf(c, m)
    <3>1. x \in 0 .. N - 1 /\ m <= x /\ sl[x].page = (sl[m].page + x) - m
      BY <1>1, <2>1, <2>9, Cell
    <3>2. x <= (m + (p - sl[m].page)) - 1
      BY <1>2, <2>1, <2>2, <2>9, <3>1
    <3>3. QED  BY <1>2, <2>1, <2>2, <2>4, <3>1, <3>2 DEF RangeOf
  <2>10. QED  BY <2>3, <2>4, <2>6, <2>7, <2>8, <2>9
<1>15. ASSUME NEW a \in behind
       PROVE  /\ a \in Heads(c, H) /\ c[a].mark = sl[Own(a)].mark /\ c[a].masters \in 0 .. MaxCount
              /\ RangeOf(c, a) = {x \in RangeOf(sl, Own(a)) : sl[x].page >= p + n}
              /\ Own(a) \in over /\ a \in RangeOf(sl, Own(a)) /\ a \notin H /\ a \in Kept(sl, {})
  <2> DEFINE m == Own(a)
  <2>1. a \in Kept(sl, {}) /\ a \in 0 .. N - 1 /\ sl[a].page = p + n /\ m \in over /\ a \in RangeOf(sl, m) /\ m # a /\ a \notin H
    BY <1>5, <1>9, <1>10, <1>15
  <2>2. m \in Heads(sl, {})
    BY <1>3, <2>1
  <2>3. c[a].masters = (sl[m].page + sl[m].masters) - (p + n) /\ c[a].mark = sl[m].mark
    BY <1>6, <1>15, <2>1
  <2> HIDE DEF m
  <2>4. /\ m \in 0 .. N - 1 /\ m <= a /\ a <= (m + sl[m].masters) - 1
        /\ sl[a].page = (sl[m].page + a) - m /\ sl[m].page <= sl[a].page
        /\ sl[m].page \in Nat /\ sl[m].masters \in Nat
    BY <1>1, <2>1, <2>2, Cell
  <2>5. sl[m].masters \in 0 .. MaxCount /\ MaxCount \in Nat
    BY <1>1, <2>4, Fields, PagerAssumption
  <2>6. c[a].masters = (m + sl[m].masters) - a
    BY <1>2, <2>1, <2>3, <2>4
  <2>7. c[a].masters > 0 /\ c[a].masters \in 0 .. MaxCount
    BY <2>1, <2>4, <2>5, <2>6
  <2>8. a \in Heads(c, H)
    BY <1>12, <2>1, <2>7 DEF Heads
  <2>9. ASSUME NEW x \in RangeOf(c, a) PROVE x \in RangeOf(sl, m) /\ sl[x].page >= p + n
    <3>1. x \in Int /\ a <= x /\ x <= (a + ((m + sl[m].masters) - a)) - 1
      BY <2>1, <2>4, <2>6, <2>9 DEF RangeOf
    <3>2. m <= x /\ x <= (m + sl[m].masters) - 1
      BY <2>1, <2>4, <3>1
    <3>3. x \in RangeOf(sl, m)
      BY <1>1, <2>4, <3>1, <3>2, RangeHas
    <3>4. sl[x].page = (sl[m].page + x) - m
      BY <1>1, <2>2, <3>3, Cell
    <3>5. QED  BY <1>2, <2>1, <2>4, <3>1, <3>3, <3>4
  <2>10. ASSUME NEW x \in RangeOf(sl, m), sl[x].page >= p + n PROVE x \in RangeOf(c, a)
    <3>1. x \in 0 .. N - 1 /\ sl[x].page = (sl[m].page + x) - m /\ x <= (m + sl[m].masters) - 1
      BY <1>1, <2>2, <2>10, Cell
    <3>2. a <= x /\ x <= (a + ((m + sl[m].masters) - a)) - 1
      BY <1>2, <2>1, <2>4, <2>10, <3>1
    <3>3. QED  BY <2>1, <2>4, <2>6, <3>1, <3>2 DEF RangeOf
  <2>11. QED  BY <2>1, <2>3, <2>7, <2>8, <2>9, <2>10 DEF m
<1>16. ASSUME NEW m \in Heads(c, H)
       PROVE  m \in 0 .. N - 1 /\ m \notin H /\ ((m \in Heads(sl, {}) /\ m \notin over) \/ m \in over \/ m \in behind)
  <2>1. m \in Kept(sl, {}) /\ m \notin H /\ m \in 0 .. N - 1 /\ c[m].masters > 0
    BY <1>9, <1>12 DEF Heads
  <2>2. CASE m \notin over /\ m \notin behind
    <3>1. c[m] = sl[m]
      BY <1>6, <2>1, <2>2
    <3>2. m \in Heads(sl, {})
      BY <2>1, <3>1 DEF Heads
    <3>3. QED  BY <2>1, <2>2, <3>2
  <2>3. QED  BY <2>1, <2>2
<1>17. Heads(c, H) = (Heads(sl, {}) \ H) \cup behind
  <2>1. ASSUME NEW m \in Heads(c, H) PROVE m \in (Heads(sl, {}) \ H) \cup behind
    BY <1>3, <1>16, <2>1
  <2>2. ASSUME NEW m \in (Heads(sl, {}) \ H) \cup behind PROVE m \in Heads(c, H)
    BY <1>13, <1>14, <1>15, <2>2
  <2>3. QED  BY <2>1, <2>2
\* Every new range is part of an old one.
<1>18. ASSUME NEW m \in Heads(c, H)
       PROVE  /\ RangeOf(c, m) \subseteq RangeOf(sl, Own(m)) /\ Own(m) \in Heads(sl, {})
              /\ m \in RangeOf(sl, Own(m)) /\ c[m].mark = sl[Own(m)].mark /\ c[m].masters \in 0 .. MaxCount
              /\ \A x \in RangeOf(c, m) : x \in Kept(c, H) /\ (x # m => c[x].masters = 0)
  <2>1. m \in 0 .. N - 1
    BY <1>16
  <2>2. CASE m \in Heads(sl, {}) /\ m \notin over
    <3>1. /\ RangeOf(c, m) = RangeOf(sl, m)
          /\ \A x \in RangeOf(sl, m) : x \in Kept(c, H) /\ c[x] = sl[x]
      BY <1>13, <2>2
    <3>2. m \in RangeOf(sl, m) /\ Own(m) = m
      BY <1>1, <2>2, HeadIn, OwnerIs
    <3>3. sl[m].masters \in 0 .. MaxCount
      BY <1>1, <2>1, Fields
    <3>4. \A x \in RangeOf(sl, m) : x # m => sl[x].masters = 0
      BY <1>1, <2>2 DEF Rows
    <3>5. QED  BY <2>2, <3>1, <3>2, <3>3, <3>4
  <2>3. CASE m \in over
    <3>1. m \notin H /\ m \in Heads(sl, {})
      BY <1>3, <1>16, <2>3
    <3>2. /\ RangeOf(c, m) = {x \in RangeOf(sl, m) : sl[x].page < p}
          /\ c[m].mark = sl[m].mark /\ c[m].masters \in 0 .. MaxCount
      BY <1>14, <2>3, <3>1
    <3>3. m \in RangeOf(sl, m) /\ Own(m) = m
      BY <1>1, <3>1, HeadIn, OwnerIs
    <3>4. ASSUME NEW x \in RangeOf(c, m) PROVE x \in Kept(c, H) /\ (x # m => c[x].masters = 0)
      <4>1. x \in RangeOf(sl, m) /\ sl[x].page < p
        BY <3>2, <3>4
      <4>2. x \in Kept(sl, {}) /\ (x # m => sl[x].masters = 0) /\ sl[x].page \in Nat /\ x \in 0 .. N - 1
        BY <1>1, <3>1, <4>1, Cell
      <4>3. x \notin H /\ x \notin behind
        BY <1>2, <1>4, <1>5, <4>1, <4>2
      <4>4. x # m => x \notin over
        <5>1. ASSUME x # m, x \in over PROVE FALSE
          <6>1. x \in Heads(sl, {})
            BY <1>3, <5>1
          <6>2. sl[x].masters > 0
            BY <6>1 DEF Heads
          <6>3. QED  BY <4>2, <5>1, <6>2
        <5>2. QED  BY <5>1
      <4>5. QED  BY <1>6, <1>12, <4>2, <4>3, <4>4
    <3>5. QED  BY <3>1, <3>2, <3>3, <3>4
  <2>4. CASE m \in behind
    <3>1. /\ RangeOf(c, m) = {x \in RangeOf(sl, Own(m)) : sl[x].page >= p + n}
          /\ Own(m) \in over /\ m \in RangeOf(sl, Own(m)) /\ c[m].mark = sl[Own(m)].mark /\ c[m].masters \in 0 .. MaxCount
      BY <1>15, <2>4
    <3>2. Own(m) \in Heads(sl, {}) /\ Own(m) # m
      BY <1>3, <1>5, <2>4, <3>1
    <3>3. ASSUME NEW x \in RangeOf(c, m) PROVE x \in Kept(c, H) /\ (x # m => c[x].masters = 0)
      <4>1. x \in RangeOf(sl, Own(m)) /\ sl[x].page >= p + n
        BY <3>1, <3>3
      <4>2. x \in Kept(sl, {}) /\ (x # Own(m) => sl[x].masters = 0) /\ sl[x].page \in Nat /\ x \in 0 .. N - 1
        BY <1>1, <3>2, <4>1, Cell
      <4>3. x \notin H
        BY <1>2, <1>4, <4>1, <4>2
      <4>4. x \notin over
        <5>1. ASSUME x \in over PROVE FALSE
          <6>1. x \in Heads(sl, {}) /\ sl[x].page < p + n
            BY <1>3, <5>1
          <6>2. QED  BY <1>2, <4>1, <4>2, <6>1
        <5>2. QED  BY <5>1
      <4>5. x # Own(m)
        BY <3>1, <4>1, <4>4
      <4>6. x # m => x \notin behind
        BY <1>5, <2>4
      <4>7. QED  BY <1>6, <1>12, <4>2, <4>3, <4>4, <4>5, <4>6
    <3>4. QED  BY <3>1, <3>2, <3>3
  <2>5. QED  BY <1>16, <2>2, <2>3, <2>4
<1>19. Rows(c, H)
  <2> SUFFICES ASSUME NEW m \in Heads(c, H), NEW x \in RangeOf(c, m)
               PROVE  /\ x \in Kept(c, H) /\ (x # m => c[x].masters = 0)
                      /\ c[x].file = c[m].file /\ c[x].page = (c[m].page + x) - m
    BY DEF Rows
  <2> DEFINE k == Own(m)
  <2>1. x \in RangeOf(sl, k) /\ k \in Heads(sl, {}) /\ m \in RangeOf(sl, k) /\ x \in Kept(c, H) /\ (x # m => c[x].masters = 0)
    BY <1>18
  <2> HIDE DEF k
  <2>2. /\ x \in 0 .. N - 1 /\ sl[x].file = sl[k].file /\ sl[x].page = (sl[k].page + x) - k
        /\ k \in 0 .. N - 1 /\ sl[k].page \in Nat
    BY <1>1, <2>1, Cell
  <2>3. m \in 0 .. N - 1 /\ sl[m].file = sl[k].file /\ sl[m].page = (sl[k].page + m) - k
    BY <1>1, <2>1, Cell
  <2>4. sl[x].page = (sl[m].page + x) - m
    BY <2>2, <2>3
  <2>5. c[x].file = sl[x].file /\ c[x].page = sl[x].page /\ c[m].file = sl[m].file /\ c[m].page = sl[m].page
    BY <1>6, <2>2, <2>3
  <2>6. QED  BY <2>1, <2>2, <2>3, <2>4, <2>5
<1>20. Owned(c, H)
  <2> SUFFICES ASSUME NEW x \in Kept(c, H) PROVE \E m \in Heads(c, H) : x \in RangeOf(c, m)
    BY DEF Owned
  <2>1. x \in Kept(sl, {}) /\ x \notin H
    BY <1>12
  <2>2. PICK m \in Heads(sl, {}) : x \in RangeOf(sl, m)
    BY <1>1, <2>1 DEF Owned
  <2>3. CASE m \notin over
    BY <1>13, <2>2, <2>3
  <2>4. CASE m \in over
    <3>1. sl[m].file = f /\ sl[m].page < p + n
      BY <1>3, <2>4
    <3>2. /\ sl[x].file = f /\ sl[x].page \in Nat /\ sl[m].page \in Nat /\ sl[m].page <= sl[x].page
          /\ sl[x].page < sl[m].page + sl[m].masters /\ sl[m].masters \in Nat
      BY <1>1, <2>2, <3>1, Cell
    <3>3. sl[x].page < p \/ sl[x].page >= p + n
      BY <1>2, <1>4, <2>1, <3>2
    <3>4. CASE sl[x].page < p
      <4>1. m \notin H
        BY <1>2, <1>4, <3>2, <3>4
      <4>2. QED  BY <1>14, <2>2, <2>4, <3>4, <4>1
    <3>5. CASE sl[x].page >= p + n
      <4> DEFINE a == (m + (p + n)) - sl[m].page
      <4>1. a \in RangeOf(sl, m) /\ sl[a].page = p + n
        <5>1. p + n \in Nat /\ sl[m].page <= p + n /\ p + n < sl[m].page + sl[m].masters
          BY <1>2, <3>1, <3>2, <3>5
        <5>2. QED  BY <1>1, <2>2, <5>1, CellAt
      <4> HIDE DEF a
      <4>2. a \in behind
        BY <2>4, <4>1 DEF behind, Behind, over, sl
      <4>3. Own(a) = m
        BY <1>1, <2>2, <4>1, OwnerIs
      <4>4. QED  BY <1>15, <2>2, <3>5, <4>2, <4>3
    <3>6. QED  BY <3>3, <3>4, <3>5
  <2>5. QED  BY <2>3, <2>4
<1>21. Once(c, H)
  <2>1. \A x \in Kept(c, H) : x \in Kept(sl, {}) /\ c[x].file = sl[x].file /\ c[x].page = sl[x].page
    BY <1>6, <1>9, <1>12
  <2>2. QED  BY <1>1, <2>1 DEF Once
<1>22. Plain(c, H)
  <2>1. DOMAIN c = 0 .. N - 1 /\ DOMAIN sl = 0 .. N - 1
    BY <1>1, <1>7
  <2> SUFFICES ASSUME NEW x \in 0 .. N - 1
               PROVE  /\ c[x].free => c[x] = FreeSlot
                      /\ x \in Kept(c, H) => c[x].file \in Files
                      /\ c[x].lock > 0 => x \in Heads(c, H)
    BY <2>1 DEF Plain
  <2>2. /\ sl[x].free => sl[x] = FreeSlot
        /\ x \in Kept(sl, {}) => sl[x].file \in Files
        /\ sl[x].lock > 0 => x \in Heads(sl, {})
    BY <1>1, <2>1 DEF Plain
  <2>3. sl[x].free => x \notin H /\ x \notin behind /\ x \notin over
    BY <1>3, <1>4, <1>5 DEF Kept, Heads
  <2>4. c[x].lock > 0 => x \in Heads(c, H)
    <3>1. ASSUME sl[x].lock > 0 PROVE x \in Heads(sl, {}) /\ x \notin over
      BY <1>8, <2>2, <3>1
    <3>2. QED  BY <1>6, <1>13, <3>1
  <2>5. QED  BY <1>6, <1>12, <2>2, <2>3, <2>4
<1>23. c \in [0 .. N - 1 -> SlotType]
  <2>1. ASSUME NEW x \in 0 .. N - 1 PROVE c[x] \in SlotType
    <3>1. sl[x] \in SlotType
      BY <1>1
    <3>2. c[x].masters \in 0 .. MaxCount
      <4>1. 0 \in 0 .. MaxCount
        BY PagerAssumption
      <4>2. CASE x \in H
        BY <1>6, <4>1, <4>2
      <4>3. CASE x \in behind
        BY <1>15, <4>3
      <4>4. CASE x \in over /\ x \notin H
        BY <1>14, <4>4
      <4>5. CASE x \notin over /\ x \notin H /\ x \notin behind
        BY <1>1, <1>6, <4>5, Fields
      <4>6. QED  BY <4>2, <4>3, <4>4, <4>5
    <3>3. c[x].mark \in 0 .. MarkMod - 1
      <4>1. CASE x \in H
        <5>1. Own(x) \in over
          BY <1>4, <4>1
        <5>2. Own(x) \in 0 .. N - 1
          BY <1>3, <1>9, <5>1
        <5>3. sl[Own(x)].mark \in 0 .. MarkMod - 1
          BY <1>1, <5>2, Fields
        <5>4. c[x].mark = sl[Own(x)].mark
          BY <1>6, <4>1
        <5>5. QED  BY <5>3, <5>4
      <4>2. CASE x \in behind
        <5>1. Own(x) \in 0 .. N - 1 /\ c[x].mark = sl[Own(x)].mark
          BY <1>3, <1>9, <1>15, <4>2
        <5>2. QED  BY <1>1, <5>1, Fields
      <4>3. CASE x \in over /\ x \notin H
        BY <1>1, <1>14, <4>3, Fields
      <4>4. CASE x \notin over /\ x \notin H /\ x \notin behind
        BY <1>1, <1>6, <4>4, Fields
      <4>5. QED  BY <4>1, <4>2, <4>3, <4>4
    <3>4. c[x] = [sl[x] EXCEPT !.masters = c[x].masters, !.mark = c[x].mark]
      BY <1>6
    <3> DEFINE A == c[x].masters  B == c[x].mark
    <3> HIDE DEF A, B
    <3>5. [sl[x] EXCEPT !.masters = A, !.mark = B] \in SlotType
      BY <3>1, <3>2, <3>3 DEF A, B, SlotType
    <3>6. QED  BY <3>4, <3>5 DEF A, B
  <2>2. QED  BY <1>7, <2>1
<1>24. \A m \in Heads(c, H) : \A x \in RangeOf(c, m) : c[m].mark = sl[Own(x)].mark
  <2> SUFFICES ASSUME NEW m \in Heads(c, H), NEW x \in RangeOf(c, m) PROVE c[m].mark = sl[Own(x)].mark
    OBVIOUS
  <2>1. x \in RangeOf(sl, Own(m)) /\ Own(m) \in Heads(sl, {}) /\ c[m].mark = sl[Own(m)].mark
    BY <1>18
  <2>2. Own(x) = Own(m)
    BY <1>1, <2>1, OwnerIs
  <2>3. QED  BY <2>1, <2>2
<1>25. QED
  BY <1>12, <1>17, <1>19, <1>20, <1>21, <1>22, <1>23, <1>24 DEF Parted, sl, H, behind, over, c

-----------------------------------------------------------------------------
\* Masters removed from the map are not in it.
LEMMA Unmapped ==
  ASSUME NEW am, NEW sl, NEW M, MapsTo(am, sl, M), NEW S, S \subseteq M,
         \A m, k \in M : Key(sl, m) = Key(sl, k) => m = k
  PROVE  MapsTo(RemoveMasters(am, sl, S), sl, M \ S)
  BY DEF MapsTo, RemoveMasters

\* A master added to the map is in it.
LEMMA AddedMaster ==
  ASSUME NEW am, NEW sl, NEW M, MapsTo(am, sl, M), NEW m, \A k \in M : Key(sl, k) # Key(sl, m)
  PROVE  MapsTo(AddMaster(am, sl, m), sl, M \cup {m})
  BY DEF MapsTo, AddMaster

\* The map is right for other slots with the same keys.
LEMMA MapsAlso ==
  ASSUME NEW am, NEW sl, NEW M, MapsTo(am, sl, M), NEW t, \A m \in M : Key(t, m) = Key(sl, m)
  PROVE  MapsTo(am, t, M)
  BY DEF MapsTo

\* Two masters with the same key are one.
LEMMA KeysOnce ==
  ASSUME NEW sl, NEW H, Once(sl, H), NEW x \in Kept(sl, H), NEW y \in Kept(sl, H), Key(sl, x) = Key(sl, y)
  PROVE  x = y
<1>1. sl[x].file = sl[y].file /\ sl[x].page = sl[y].page
  BY DEF Key
<1>2. QED  BY <1>1 DEF Once

\* The slots in common with a request, once their ranges are cut.
Loose(sl, H, f, p, n) ==
  /\ \A x \in H :
       /\ x \in DOMAIN sl /\ ~sl[x].free /\ sl[x].file = f /\ sl[x].page \in p .. p + n - 1
       /\ sl[x].lock = 0 /\ sl[x].masters = 0
  /\ \A x, y \in H : sl[x].page = sl[y].page => x = y
  /\ \A x \in Kept(sl, H) : sl[x].file = f => sl[x].page \notin p .. p + n - 1

\* processOverlaps_ leaves a sound pool, with the slots in common loose.
LEMMA ProcessSound ==
  ASSUME NEW N \in Nat, NEW s, Sound(s, N, {}), NEW f, NEW p, NEW n, Asked(f, p, n),
         \A m \in Overlapping(s, f, p, n) : s.slots[m].lock = 0
  PROVE  LET c == ProcessOverlaps(s, f, p, n)
             H == Common(s, f, p, n)
         IN  /\ Sound(c, N, H) /\ c.slots = CutSlots(s, f, p, n) /\ c.disk = s.disk
             /\ Loose(c.slots, H, f, p, n)
<1> DEFINE sl == s.slots  H == Common(s, f, p, n)  behind == Behind(s, f, p, n)
           over == Overlapping(s, f, p, n)  cut == CutSlots(s, f, p, n)
           c == ProcessOverlaps(s, f, p, n)
           S == {m \in over : sl[m].page >= p}
           kept == RemoveMasters(s.addrmap, sl, S)
           all == IF behind = {} THEN kept ELSE AddMaster(kept, cut, CHOOSE x \in behind : TRUE)
<1>1. /\ sl \in [0 .. N - 1 -> SlotType] /\ Rows(sl, {}) /\ Owned(sl, {}) /\ Once(sl, {}) /\ Plain(sl, {})
      /\ MapsTo(s.addrmap, sl, Heads(sl, {})) /\ s.disk \in [Files -> Seq(Values \cup {Junk})]
      /\ s = [slots |-> s.slots, addrmap |-> s.addrmap, disk |-> s.disk]
  BY DEF Sound, Parted, Mapped
<1>2. f \in Files /\ p \in Nat /\ n \in Nat /\ n > 0
  BY AskedTypes
<1>3. c = [slots |-> cut, addrmap |-> all, disk |-> s.disk]
  <2>1. c = [s EXCEPT !.slots = cut, !.addrmap = all]
    BY DEF ProcessOverlaps
  <2> HIDE DEF c, cut, all
  <2>2. QED  BY <1>1, <2>1
<1>4. /\ cut \in [0 .. N - 1 -> SlotType] /\ Parted(cut, H)
      /\ Kept(cut, H) = Kept(sl, {}) \ H
      /\ Heads(cut, H) = (Heads(sl, {}) \ H) \cup behind
  BY CutParted
<1>5. \A x \in 0 .. N - 1 :
        /\ cut[x].free = sl[x].free /\ cut[x].file = sl[x].file /\ cut[x].page = sl[x].page
        /\ cut[x].lock = sl[x].lock /\ cut[x].data = sl[x].data
        /\ x \in H => cut[x].masters = 0
  <2>1. \A x \in 0 .. N - 1 : IsCut(s, f, p, n, cut, x)
    BY CutFields
  <2>2. QED  BY <2>1 DEF IsCut
<1>6. over = {m \in Heads(sl, {}) : sl[m].file = f /\ sl[m].page < p + n /\ sl[m].page + sl[m].masters > p}
  BY OverlapSet
<1>7. /\ H = {x \in Kept(sl, {}) : sl[x].file = f /\ sl[x].page \in p .. p + n - 1}
      /\ \A x \in H : Master(sl, x) \in over
  BY CommonSet
<1>8. \A x \in behind :
        /\ x \in Kept(sl, {}) /\ sl[x].masters = 0 /\ \A y \in behind : y = x
  BY BehindSet
<1>9. Kept(sl, {}) \subseteq 0 .. N - 1 /\ Heads(sl, {}) \subseteq Kept(sl, {})
  BY <1>1 DEF Heads, Kept
<1>10. \A m \in over : sl[m].lock = 0
  OBVIOUS
<1> HIDE DEF sl, H, behind, over, cut, c, kept, all
<1>11. \A x \in Kept(sl, {}) : sl[x].page \in Nat
  BY <1>1, <1>9, Fields
<1>12. \A x \in 0 .. N - 1 : Key(cut, x) = Key(sl, x)
  BY <1>5 DEF Key
<1>13. S = Heads(sl, {}) \cap H
  <2>1. ASSUME NEW m \in S PROVE m \in Heads(sl, {}) \cap H
    <3>1. m \in Heads(sl, {}) /\ sl[m].file = f /\ sl[m].page < p + n /\ sl[m].page >= p
      BY <1>6, <2>1
    <3>2. m \in Kept(sl, {}) /\ sl[m].page \in Nat
      BY <1>9, <1>11, <3>1
    <3>3. QED  BY <1>2, <1>7, <3>1, <3>2
  <2>2. ASSUME NEW m \in Heads(sl, {}) \cap H PROVE m \in S
    <3>1. m \in Kept(sl, {}) /\ sl[m].page \in Nat /\ sl[m].page >= p
      BY <1>2, <1>7, <1>11, <2>2
    <3>2. Master(sl, m) = m
      BY <1>1, <2>2, HeadIn, OwnerIs
    <3>3. QED  BY <1>7, <2>2, <3>1, <3>2
  <2>3. QED  BY <2>1, <2>2
<1>14. MapsTo(kept, sl, Heads(sl, {}) \ H)
  <2>1. S \subseteq Heads(sl, {})
    BY <1>13
  <2>2. \A m, k \in Heads(sl, {}) : Key(sl, m) = Key(sl, k) => m = k
    BY <1>1, <1>9, KeysOnce
  <2> HIDE DEF S
  <2>3. MapsTo(kept, sl, Heads(sl, {}) \ S)
    BY <1>1, <2>1, <2>2, Unmapped DEF kept
  <2>4. Heads(sl, {}) \ S = Heads(sl, {}) \ H
    BY <1>13
  <2>5. QED  BY <2>3, <2>4
<1>15. MapsTo(kept, cut, Heads(sl, {}) \ H)
  <2>1. \A m \in Heads(sl, {}) \ H : Key(cut, m) = Key(sl, m)
    BY <1>9, <1>12
  <2>2. QED  BY <1>14, <2>1, MapsAlso
<1>16. MapsTo(all, cut, Heads(cut, H))
  <2>1. CASE behind = {}
    BY <1>4, <1>15, <2>1 DEF all
  <2>2. CASE behind # {}
    <3> DEFINE a == CHOOSE x \in behind : TRUE
    <3>1. a \in behind /\ all = AddMaster(kept, cut, a)
      BY <2>2 DEF all
    <3> HIDE DEF a
    <3>2. behind = {a}
      BY <1>8, <3>1
    <3>3. ASSUME NEW k \in Heads(sl, {}) \ H PROVE Key(cut, k) # Key(cut, a)
      <4> SUFFICES ASSUME Key(cut, k) = Key(cut, a) PROVE FALSE
        OBVIOUS
      <4>1. k \in Kept(sl, {}) /\ a \in Kept(sl, {}) /\ sl[a].masters = 0
        BY <1>8, <1>9, <3>1
      <4>2. Key(sl, k) = Key(sl, a)
        BY <1>9, <1>12, <4>1
      <4>3. k = a
        BY <1>1, <4>1, <4>2, KeysOnce
      <4>4. sl[k].masters > 0
        BY DEF Heads
      <4>5. QED  BY <4>1, <4>3, <4>4
    <3>4. MapsTo(all, cut, (Heads(sl, {}) \ H) \cup {a})
      BY <1>15, <3>1, <3>3, AddedMaster
    <3>5. QED  BY <1>4, <3>2, <3>4
  <2>3. QED  BY <2>1, <2>2
<1>17. Sound(c, N, H) /\ c.slots = cut /\ c.disk = s.disk
  <2>1. c.slots = cut /\ c.addrmap = all /\ c.disk = s.disk
    BY <1>3
  <2>2. QED  BY <1>1, <1>3, <1>4, <1>16, <2>1 DEF Sound, Mapped
<1>18. Loose(cut, H, f, p, n)
  <2>1. DOMAIN cut = 0 .. N - 1
    BY <1>4
  <2>2. ASSUME NEW x \in H
        PROVE  /\ x \in DOMAIN cut /\ ~cut[x].free /\ cut[x].file = f /\ cut[x].page \in p .. p + n - 1
               /\ cut[x].lock = 0 /\ cut[x].masters = 0
    <3>1. x \in Kept(sl, {}) /\ sl[x].file = f /\ sl[x].page \in p .. p + n - 1 /\ x \in 0 .. N - 1 /\ Master(sl, x) \in over
      BY <1>7, <1>9
    <3>2. ~ sl[x].free /\ x \in DOMAIN sl
      BY <3>1 DEF Kept
    <3>3. sl[x].lock = 0
      <4>1. CASE x \in Heads(sl, {})
        <5>1. Master(sl, x) = x
          BY <1>1, <4>1, HeadIn, OwnerIs
        <5>2. QED  BY <1>10, <3>1, <5>1
      <4>2. CASE x \notin Heads(sl, {})
        <5>1. ~(sl[x].lock > 0)
          BY <1>1, <3>2, <4>2 DEF Plain
        <5>2. sl[x].lock \in Nat
          BY <1>1, <3>1, Fields
        <5>3. QED  BY <5>1, <5>2
      <4>3. QED  BY <4>1, <4>2
    <3>4. QED  BY <1>5, <2>1, <3>1, <3>2, <3>3
  <2>3. ASSUME NEW x \in H, NEW y \in H, cut[x].page = cut[y].page PROVE x = y
    <3>1. x \in Kept(sl, {}) /\ y \in Kept(sl, {}) /\ sl[x].file = sl[y].file /\ x \in 0 .. N - 1 /\ y \in 0 .. N - 1
      BY <1>7, <1>9
    <3>2. QED  BY <1>1, <1>5, <2>3, <3>1 DEF Once
  <2>4. ASSUME NEW x \in Kept(cut, H), cut[x].file = f PROVE cut[x].page \notin p .. p + n - 1
    <3>1. x \in Kept(sl, {}) /\ x \notin H /\ x \in 0 .. N - 1
      BY <1>4, <1>9
    <3>2. QED  BY <1>5, <1>7, <2>4, <3>1
  <2>5. QED  BY <2>2, <2>3, <2>4 DEF Loose
<1>19. QED  BY <1>17, <1>18 DEF c, cut, H, sl

-----------------------------------------------------------------------------
\* The sum of the mark counts of some slots, as it is computed.
SumStep(sl, h, s) ==
  IF s = {} THEN 0
  ELSE LET x == CHOOSE x \in s : TRUE IN sl[x].mark + h[s \ {x}]

\* The function that computes the sum for every set of T.
Sums(sl, T, h) == h = [s \in T |-> SumStep(sl, h, s)]

\* The sum of mark counts is a value of such a function.
LEMMA MarkSumIs ==
  ASSUME NEW sl, NEW S, NEW g, Sums(sl, SUBSET S, g)
  PROVE  \E h : Sums(sl, SUBSET S, h) /\ MarkSum(sl, S) = h[S]
<1> DEFINE h == CHOOSE h : h = [s \in SUBSET S |-> IF s = {} THEN 0
                         ELSE sl[CHOOSE x \in s : TRUE].mark + h[s \ {CHOOSE x \in s : TRUE}]]
<1>1. MarkSum(sl, S) = h[S]
  BY Zenon DEF MarkSum, MapThenSumSet, MapThenFoldSet
<1>2. \E k : k = [s \in SUBSET S |-> IF s = {} THEN 0
                         ELSE sl[CHOOSE x \in s : TRUE].mark + k[s \ {CHOOSE x \in s : TRUE}]]
  BY Zenon DEF Sums, SumStep
<1>3. h = [s \in SUBSET S |-> IF s = {} THEN 0
                         ELSE sl[CHOOSE x \in s : TRUE].mark + h[s \ {CHOOSE x \in s : TRUE}]]
  BY Zenon, <1>2
<1>4. Sums(sl, SUBSET S, h)
  BY Zenon, <1>3 DEF Sums, SumStep
<1>5. QED  BY <1>1, <1>4

\* The sets of at most n slots.
Small(S, n) == {s \in SUBSET S : Cardinality(s) <= n}

\* A set without one of its elements is smaller.
LEMMA SmallLess ==
  ASSUME NEW S, IsFiniteSet(S), NEW n \in Nat \ {0}, NEW s \in Small(S, n), s # {}
  PROVE  /\ (CHOOSE x \in s : TRUE) \in s
         /\ s \ {CHOOSE x \in s : TRUE} \in Small(S, n - 1)
         /\ Cardinality(s \ {CHOOSE x \in s : TRUE}) = Cardinality(s) - 1
<1> DEFINE x == CHOOSE x \in s : TRUE
<1>1. x \in s
  OBVIOUS
<1> HIDE DEF x
<1>2. s \in SUBSET S /\ IsFiniteSet(s) /\ Cardinality(s) \in Nat /\ Cardinality(s) <= n
  BY FS_Subset, FS_CardinalityType DEF Small
<1>3. Cardinality(s \ {x}) = Cardinality(s) - 1
  BY <1>1, <1>2, FS_RemoveElement
<1>4. s \ {x} \in Small(S, n - 1)
  BY <1>2, <1>3 DEF Small
<1>5. QED  BY <1>1, <1>3, <1>4 DEF x

\* The sum of mark counts is defined for every finite set of slots. By the
\* least number of elements for which it were not.
LEMMA SumsExist ==
  ASSUME NEW sl, NEW S, IsFiniteSet(S)
  PROVE  \E g : Sums(sl, SUBSET S, g)
<1> DEFINE bad == {n \in Nat : ~ \E g : Sums(sl, Small(S, n), g)}
<1>1. bad = {}
  <2> SUFFICES ASSUME bad # {} PROVE FALSE
    OBVIOUS
  <2>1. PICK n \in bad : \A k \in bad : n <= k
    <3>1. bad \subseteq Nat
      OBVIOUS
    <3> HIDE DEF bad
    <3>2. QED  BY <3>1, Least
  <2>2. n \in Nat /\ ~ \E g : Sums(sl, Small(S, n), g)
    BY <2>1
  <2>3. CASE n = 0
    <3> DEFINE g == [s \in Small(S, 0) |-> 0]
    <3>1. ASSUME NEW s \in Small(S, 0) PROVE s = {}
      <4>1. s \in SUBSET S /\ IsFiniteSet(s) /\ Cardinality(s) \in Nat /\ Cardinality(s) <= 0
        BY FS_Subset, FS_CardinalityType DEF Small
      <4>2. Cardinality(s) = 0
        BY <4>1
      <4>3. QED  BY <4>1, <4>2, FS_EmptySet
    <3>2. g = [s \in Small(S, 0) |-> SumStep(sl, g, s)]
      BY <3>1 DEF SumStep
    <3>3. Sums(sl, Small(S, 0), g)
      BY <3>2 DEF Sums
    <3>4. QED  BY <2>2, <2>3, <3>3
  <2>4. CASE n # 0
    <3>1. n - 1 \in Nat /\ n - 1 \notin bad /\ n \in Nat \ {0}
      BY <2>1, <2>2, <2>4
    <3>2. PICK g : Sums(sl, Small(S, n - 1), g)
      BY <3>1
    <3> DEFINE h == [s \in Small(S, n) |-> SumStep(sl, g, s)]
    <3>3. ASSUME NEW s \in Small(S, n) PROVE SumStep(sl, g, s) = SumStep(sl, h, s)
      <4>1. CASE s = {}
        BY <4>1 DEF SumStep
      <4>2. CASE s # {}
        <5> DEFINE t == s \ {CHOOSE x \in s : TRUE}
        <5>1. t \in Small(S, n - 1)
          BY <3>1, <4>2, SmallLess
        <5>2. t \in Small(S, n)
          <6>1. t \in SUBSET S /\ IsFiniteSet(t) /\ Cardinality(t) \in Nat /\ Cardinality(t) <= n - 1
            BY <5>1, FS_Subset, FS_CardinalityType DEF Small
          <6>2. QED  BY <3>1, <6>1 DEF Small
        <5> HIDE DEF t
        <5>3. g[t] = SumStep(sl, g, t) /\ h[t] = SumStep(sl, g, t)
          BY <3>2, <5>1, <5>2 DEF Sums
        <5>4. g[t] = h[t]
          BY <5>3
        <5> HIDE DEF h
        <5>5. QED  BY <4>2, <5>4 DEF SumStep, t
      <4>3. QED  BY <4>1, <4>2
    <3>4. h = [s \in Small(S, n) |-> SumStep(sl, h, s)]
      <4>1. h = [s \in Small(S, n) |-> SumStep(sl, g, s)]
        OBVIOUS
      <4> HIDE DEF h
      <4>2. QED  BY <3>3, <4>1
    <3>5. Sums(sl, Small(S, n), h)
      BY <3>4 DEF Sums
    <3>6. QED  BY <2>2, <3>5
  <2>5. QED  BY <2>3, <2>4
<1>2. Cardinality(S) \in Nat
  BY FS_CardinalityType
<1>3. Small(S, Cardinality(S)) = SUBSET S
  BY FS_Subset DEF Small
<1>4. \A n \in Nat : \E g : Sums(sl, Small(S, n), g)
  BY <1>1
<1>5. \E g : Sums(sl, Small(S, Cardinality(S)), g)
  BY <1>2, <1>4
<1>6. QED  BY <1>3, <1>5

\* A sum of mark counts is a number, and at least each of them.
LEMMA SumsBound ==
  ASSUME NEW sl, NEW S, IsFiniteSet(S), \A x \in S : sl[x].mark \in Nat, NEW h, Sums(sl, SUBSET S, h)
  PROVE  h[S] \in Nat /\ \A x \in S : sl[x].mark <= h[S]
<1> DEFINE Fine(s) == h[s] \in Nat /\ \A x \in s : sl[x].mark <= h[s]
           bad == {n \in Nat : \E s \in Small(S, n) : ~Fine(s)}
<1>1. bad = {}
  <2> SUFFICES ASSUME bad # {} PROVE FALSE
    OBVIOUS
  <2>1. PICK n \in bad : \A k \in bad : n <= k
    <3>1. bad \subseteq Nat
      OBVIOUS
    <3> HIDE DEF bad
    <3>2. QED  BY <3>1, Least
  <2>2. PICK s \in Small(S, n) : ~Fine(s)
    BY <2>1
  <2>3. n \in Nat /\ s \in SUBSET S
    BY <2>1 DEF Small
  <2>4. h[s] = SumStep(sl, h, s)
    BY <2>3 DEF Sums
  <2>5. CASE s = {}
    BY <2>2, <2>4, <2>5 DEF SumStep
  <2>6. CASE s # {}
    <3> DEFINE x == CHOOSE x \in s : TRUE
               t == s \ {x}
    <3>1. n # 0
      <4>1. IsFiniteSet(s) /\ Cardinality(s) \in Nat /\ Cardinality(s) <= n /\ Cardinality(s) # 0
        BY <2>3, <2>6, FS_Subset, FS_CardinalityType, FS_EmptySet DEF Small
      <4>2. QED  BY <2>3, <4>1
    <3>2. n \in Nat \ {0} /\ n - 1 \in Nat /\ n - 1 \notin bad
      BY <2>1, <2>3, <3>1
    <3>3. x \in s /\ t \in Small(S, n - 1)
      BY <2>6, <3>2, SmallLess
    <3>4. Fine(t)
      BY <3>2, <3>3
    <3>5. h[s] = sl[x].mark + h[t]
      BY <2>4, <2>6 DEF SumStep
    <3>6. sl[x].mark \in Nat /\ \A y \in s : sl[y].mark \in Nat /\ (y = x \/ y \in t)
      BY <2>3, <3>3
    <3> HIDE DEF x, t, bad
    <3>7. PICK a \in Nat : a = h[t]
      BY <3>4
    <3>8. PICK b \in Nat : b = sl[x].mark
      BY <3>6
    <3>9. h[s] = b + a /\ h[s] \in Nat
      BY <3>5, <3>7, <3>8
    <3>10. ASSUME NEW y \in s PROVE sl[y].mark <= h[s]
      <4>1. PICK k \in Nat : k = sl[y].mark
        BY <3>6
      <4>2. k <= a \/ k = b
        BY <3>4, <3>6, <3>7, <3>8, <4>1
      <4>3. QED  BY <3>9, <4>1, <4>2
    <3>11. QED  BY <2>2, <3>9, <3>10
  <2>7. QED  BY <2>5, <2>6
<1>2. Cardinality(S) \in Nat
  BY FS_CardinalityType
<1>3. S \in Small(S, Cardinality(S))
  BY <1>2 DEF Small
<1>4. Fine(S)
  BY <1>1, <1>2, <1>3
<1>5. QED  BY <1>4

\* No mark count is more than their sum.
LEMMA MarkSumBound ==
  ASSUME NEW sl, NEW S, IsFiniteSet(S), \A x \in S : sl[x].mark \in Nat
  PROVE  MarkSum(sl, S) \in Nat /\ \A x \in S : sl[x].mark <= MarkSum(sl, S)
<1>1. PICK g : Sums(sl, SUBSET S, g)
  BY SumsExist
<1>2. PICK h : Sums(sl, SUBSET S, h) /\ MarkSum(sl, S) = h[S]
  BY <1>1, MarkSumIs
<1>3. QED  BY <1>2, SumsBound

\* The mark count a joined range carries is within its width, and if the sum
\* did not wrap it is 0 only when all marks were.
LEMMA CarriedFits ==
  ASSUME NEW sl, NEW S, IsFiniteSet(S), \A x \in S : sl[x].mark \in Nat
  PROVE  /\ Carried(sl, S) \in 0 .. MarkMod - 1
         /\ MarkSum(sl, S) < MarkMod /\ Carried(sl, S) = 0 => \A x \in S : sl[x].mark = 0
<1>1. PICK a \in Nat : a = MarkSum(sl, S)
  BY MarkSumBound
<1>2. PICK b \in Nat \ {0} : b = MarkMod
  BY PagerAssumption
<1>3. Carried(sl, S) = a % b
  BY <1>1, <1>2 DEF Carried
<1>4. a % b \in 0 .. b - 1 /\ (a < b => a % b = a)
  OBVIOUS
<1>5. a < b /\ a % b = 0 => a = 0
  BY <1>4
<1>6. \A x \in S : sl[x].mark <= a /\ sl[x].mark \in Nat
  BY <1>1, MarkSumBound
<1>7. a = 0 => \A x \in S : sl[x].mark = 0
  BY <1>6
<1>8. QED  BY <1>1, <1>2, <1>3, <1>4, <1>5, <1>7

-----------------------------------------------------------------------------
\* The slots in common that are not interrupted are a row of consecutive slots,
\* in the order of their pages.
LEMMA RowOfCommon ==
  ASSUME NEW N \in Nat, NEW sl \in [0 .. N - 1 -> SlotType], NEW H, NEW f, NEW p, NEW n, Asked(f, p, n),
         Loose(sl, H, f, p, n), Uninterrupted(sl, H, n)
  PROVE  /\ Min(H) \in H /\ H = Min(H) .. Min(H) + n - 1
         /\ \A x \in H : sl[x].page = (p + x) - Min(H)
<1>1. p \in Nat /\ n \in Nat /\ n > 0
  BY AskedTypes
<1>2. H \subseteq 0 .. N - 1 /\ \A x \in H : sl[x].page \in p .. p + n - 1
  BY DEF Loose
<1>3. \A x, y \in H : sl[x].page = sl[y].page => x = y
  BY DEF Loose
<1>4. Cardinality(H) = n /\ \A x, y \in H : x - y = sl[x].page - sl[y].page
  BY DEF Uninterrupted
<1> DEFINE g == [x \in H |-> sl[x].page]
<1>5. g \in Injection(H, p .. p + n - 1)
  BY <1>2, <1>3 DEF Injection, IsInjective
<1>6. IsFiniteSet(p .. p + n - 1) /\ Cardinality(p .. p + n - 1) = n
  <2> DEFINE b == p + n - 1
  <2>1. b \in Int /\ b >= p /\ (b - p) + 1 = n
    BY <1>1
  <2>2. p \in Int /\ ~ (p > b)
    BY <1>1, <2>1
  <2> HIDE DEF b
  <2>3. IsFiniteSet(p .. b) /\ Cardinality(p .. b) = IF p > b THEN 0 ELSE b - p + 1
    BY <2>1, <2>2, FS_Interval
  <2>4. QED  BY <2>1, <2>2, <2>3 DEF b
<1>7. g \in Surjection(H, p .. p + n - 1)
  BY <1>4, <1>5, <1>6, FS_Injection
<1>8. \A q \in p .. p + n - 1 : \E x \in H : sl[x].page = q
  BY <1>7 DEF Surjection
<1>9. PICK x \in H : sl[x].page = p
  BY <1>1, <1>8
<1>10. \A y \in H : y = (x + sl[y].page) - p /\ y \in Int /\ sl[y].page \in Int /\ x <= y
  <2> SUFFICES ASSUME NEW y \in H PROVE y = (x + sl[y].page) - p /\ y \in Int /\ sl[y].page \in Int /\ x <= y
    OBVIOUS
  <2>1. PICK q \in Int : q = sl[y].page /\ q >= p
    BY <1>1, <1>2
  <2>2. x \in Int /\ y \in Int /\ y - x = q - p
    BY <1>2, <1>4, <1>9, <2>1
  <2>3. QED  BY <1>1, <2>1, <2>2, SMTT(40)
<1>11. x = Min(H)
  <2>1. ASSUME NEW y \in H, \A z \in H : y <= z PROVE y = x
    <3>1. y <= x /\ x <= y /\ x \in Int /\ y \in Int
      BY <1>2, <1>10, <2>1
    <3>2. QED  BY <3>1
  <2>2. QED  BY <1>10, <2>1, SMTT(40) DEF Min
<1>12. ASSUME NEW y \in H PROVE y \in x .. x + n - 1
  <2>1. PICK q \in p .. p + n - 1 : q = sl[y].page
    BY <1>2
  <2>2. x \in Int /\ y \in Int /\ y = (x + q) - p
    BY <1>2, <1>10, <2>1
  <2>3. QED  BY <1>1, <2>1, <2>2, SMTT(40)
<1>13. ASSUME NEW z \in x .. x + n - 1 PROVE z \in H
  <2>1. x \in Int
    BY <1>2
  <2>2. (p + z) - x \in p .. p + n - 1
    BY <1>1, <2>1
  <2>3. PICK y \in H : sl[y].page = (p + z) - x
    BY <1>8, <2>2
  <2>4. y = (x + ((p + z) - x)) - p
    BY <1>10, <2>3
  <2>5. y = z
    BY <1>1, <2>1, <2>4
  <2>6. QED  BY <2>5
<1>14. H = x .. x + n - 1
  BY <1>12, <1>13
<1>15. \A y \in H : sl[y].page = (p + y) - x
  <2> SUFFICES ASSUME NEW y \in H PROVE sl[y].page = (p + y) - x
    OBVIOUS
  <2>1. PICK q \in Int : q = sl[y].page
    BY <1>10
  <2>2. x \in Int /\ y \in Int /\ y = (x + q) - p
    BY <1>2, <1>10, <2>1
  <2>3. QED  BY <1>1, <2>1, <2>2, SMTT(40)
<1>16. QED  BY <1>11, <1>14, <1>15

-----------------------------------------------------------------------------
\* A bounded set of numbers has a largest element.
LEMMA LargestIs ==
  ASSUME NEW T, T \subseteq Nat, T # {}, NEW b \in Nat, \A x \in T : x <= b
  PROVE  Max(T) \in T /\ \A y \in T : y <= Max(T)
<1>1. PICK x \in T : \A y \in T : y <= x
  BY Greatest
<1>2. x \in T /\ \A y \in T : x >= y
  BY <1>1
<1>3. Max(T) \in T /\ \A y \in T : Max(T) >= y
  BY <1>2 DEF Max
<1>4. QED  BY <1>3

\* What files may contain.
Disks == [Files -> Seq(Values \cup {Junk})]

\* One file, once slots are written.
IsDumped(d, sl, S, f, e) ==
  /\ e \in Seq(Values \cup {Junk})
  /\ Len(e) >= Len(d[f])
  /\ \A x \in S : sl[x].file = f => sl[x].page < Len(e) /\ e[sl[x].page + 1] = sl[x].data
  /\ \A i \in 1 .. Len(d[f]) : (\A x \in S : sl[x].file = f => sl[x].page # i - 1) => e[i] = d[f][i]

\* Writing slots that hold different pages leaves each file as IsDumped says.
LEMMA DumpedFile ==
  ASSUME NEW N \in Nat, NEW sl \in [0 .. N - 1 -> SlotType], NEW d \in Disks, NEW S, S \subseteq 0 .. N - 1,
         \A x, y \in S : sl[x].file = sl[y].file /\ sl[x].page = sl[y].page => x = y, NEW f \in Files
  PROVE  IsDumped(d, sl, S, f, DumpSlots(d, sl, S)[f])
<1> DEFINE mine == {x \in S : sl[x].file = f}
           T == {Len(d[f])} \cup {sl[x].page + 1 : x \in mine}
           At(i) == IF \E x \in mine : sl[x].page = i - 1
                    THEN sl[CHOOSE x \in mine : sl[x].page = i - 1].data
                    ELSE IF i <= Len(d[f]) THEN d[f][i] ELSE Zero
           e == [i \in 1 .. Max(T) |-> At(i)]
<1>1. DumpSlots(d, sl, S)[f] = e
  BY DEF DumpSlots
<1>2. d[f] \in Seq(Values \cup {Junk}) /\ Len(d[f]) \in Nat
  BY DEF Disks
<1>3. \A x \in mine : sl[x].page \in Nat /\ sl[x].page <= MaxPage /\ sl[x].data \in Values \cup {Junk} /\ MaxPage \in Nat
  BY PagerAssumption, Fields DEF Pages
<1> HIDE DEF mine
<1>4. Max(T) \in T /\ \A y \in T : y <= Max(T)
  <2>1. T \subseteq Nat /\ T # {}
    BY <1>2, <1>3
  <2>2. PICK b \in Nat : b = Len(d[f]) + MaxPage + 1
    BY <1>2, PagerAssumption
  <2>3. \A y \in T : y <= b
    <3>1. PICK a \in Nat : a = Len(d[f])
      BY SMTT(40), <1>2
    <3>2. a <= b /\ MaxPage + 1 <= b
      BY <2>2, <3>1, PagerAssumption
    <3>3. \A x \in mine : sl[x].page + 1 <= b
      BY <1>3, <2>2, <3>2
    <3>4. ASSUME NEW y \in T PROVE y = Len(d[f]) \/ \E x \in mine : y = sl[x].page + 1
      BY Zenon
    <3>5. QED  BY <3>1, <3>2, <3>3, <3>4
  <2> HIDE DEF T
  <2>4. QED  BY <2>1, <2>3, LargestIs
<1>5. Max(T) \in Nat /\ Len(d[f]) <= Max(T) /\ \A x \in mine : sl[x].page + 1 <= Max(T)
  BY <1>2, <1>3, <1>4
<1> HIDE DEF T
<1>6. \A x \in mine : At(sl[x].page + 1) = sl[x].data
  <2> SUFFICES ASSUME NEW x \in mine PROVE At(sl[x].page + 1) = sl[x].data
    OBVIOUS
  <2> DEFINE y == CHOOSE y \in mine : sl[y].page = (sl[x].page + 1) - 1
  <2>1. sl[x].page = (sl[x].page + 1) - 1
    BY <1>3
  <2>2. y \in mine /\ sl[y].page = sl[x].page
    BY <2>1
  <2>3. y = x
    BY <2>2 DEF mine
  <2>4. QED  BY <2>1, <2>3
<1>7. \A i \in 1 .. Max(T) : At(i) \in Values \cup {Junk}
  <2> SUFFICES ASSUME NEW i \in 1 .. Max(T) PROVE At(i) \in Values \cup {Junk}
    OBVIOUS
  <2>1. CASE \E x \in mine : sl[x].page = i - 1
    BY <1>3, <2>1
  <2>2. CASE ~ \E x \in mine : sl[x].page = i - 1
    <3>1. i <= Len(d[f]) => d[f][i] \in Values \cup {Junk}
      BY <1>2
    <3>2. QED  BY <2>2, <3>1, PagerAssumption
  <2>3. QED  BY <2>1, <2>2
<1>8. \A i \in 1 .. Len(d[f]) : (\A x \in mine : sl[x].page # i - 1) => At(i) = d[f][i]
  BY <1>2
<1> HIDE DEF At
<1>9. e \in Seq(Values \cup {Junk}) /\ Len(e) = Max(T)
  <2>1. e \in [1 .. Max(T) -> Values \cup {Junk}]
    BY <1>7
  <2> HIDE DEF e
  <2>2. QED  BY <1>5, <2>1
<1>10. \A x \in mine : sl[x].page < Len(e) /\ e[sl[x].page + 1] = sl[x].data
  BY <1>3, <1>5, <1>6, <1>9
<1>11. \A i \in 1 .. Len(d[f]) : (\A x \in mine : sl[x].page # i - 1) => e[i] = d[f][i]
  BY <1>2, <1>5, <1>8
<1> HIDE DEF e
<1>12. QED  BY <1>1, <1>2, <1>5, <1>9, <1>10, <1>11 DEF IsDumped, mine

\* The disk, once slots that hold different pages are written.
IsWritten(d, sl, S, e) ==
  /\ e \in Disks /\ \A f \in Files : Len(e[f]) >= Len(d[f])
  /\ \A x \in S : Stored(e, sl[x].file, sl[x].page) = sl[x].data
  /\ \A f \in Files, q \in Nat :
       /\ \A x \in S : ~ (sl[x].file = f /\ sl[x].page = q)
       /\ Stored(d, f, q) \in Values
       => Stored(e, f, q) = Stored(d, f, q)

\* Writing slots that hold different pages leaves the disk as IsWritten says.
LEMMA Dumped ==
  ASSUME NEW N \in Nat, NEW sl \in [0 .. N - 1 -> SlotType], NEW d \in Disks, NEW S, S \subseteq 0 .. N - 1,
         \A x, y \in S : sl[x].file = sl[y].file /\ sl[x].page = sl[y].page => x = y,
         \A x \in S : sl[x].file \in Files
  PROVE  IsWritten(d, sl, S, DumpSlots(d, sl, S))
<1> DEFINE e == DumpSlots(d, sl, S)
<1>1. \A f \in Files : IsDumped(d, sl, S, f, e[f])
  BY DumpedFile
<1>2. e = [f \in Files |-> e[f]]
  BY DEF DumpSlots
<1> HIDE DEF e
<1>3. e \in Disks
  BY <1>1, <1>2 DEF Disks, IsDumped
<1>4. \A f \in Files : Len(e[f]) >= Len(d[f])
  BY <1>1 DEF IsDumped
<1>5. \A x \in S : Stored(e, sl[x].file, sl[x].page) = sl[x].data
  BY <1>1 DEF IsDumped, Stored
<1>6. ASSUME NEW f \in Files, NEW q \in Nat, \A x \in S : ~ (sl[x].file = f /\ sl[x].page = q), Stored(d, f, q) \in Values
      PROVE  Stored(e, f, q) = Stored(d, f, q)
  <2>1. q < Len(d[f]) /\ Stored(d, f, q) = d[f][q + 1]
    BY <1>6, PagerAssumption DEF Stored
  <2>2. Len(d[f]) \in Nat /\ Len(e[f]) \in Nat /\ Len(e[f]) >= Len(d[f])
    BY <1>3, <1>4 DEF Disks
  <2>3. q + 1 \in 1 .. Len(d[f]) /\ (q + 1) - 1 = q
    BY <2>1, <2>2
  <2>4. e[f][q + 1] = d[f][q + 1]
    BY <1>1, <1>6, <2>3 DEF IsDumped
  <2>5. QED  BY <2>1, <2>2, <2>4 DEF Stored
<1>7. QED  BY <1>3, <1>4, <1>5, <1>6 DEF e, IsWritten

-----------------------------------------------------------------------------
\* What a slot of a new range for the pages from p on holds.
InRow(t, at, n, f, p, x) ==
  /\ t[x].free = FALSE /\ t[x].file = f /\ t[x].page = (p + x) - at /\ t[x].lock = 0
  /\ t[x].masters = IF x = at THEN n ELSE 0

\* Slots t are those of sl, but for a new range for a request.
Fresh(sl, G, t, N, at, n, f, p) ==
  /\ at .. at + n - 1 \subseteq G /\ (at + n) - 1 \in 0 .. N - 1
  /\ \A x \in Kept(sl, G) : t[x] = sl[x] /\ (sl[x].file = f => sl[x].page \notin p .. p + n - 1)
  /\ \A x \in at .. at + n - 1 : InRow(t, at, n, f, p, x)
  /\ \A x \in 0 .. N - 1 : x \notin Kept(sl, G) /\ x \notin at .. at + n - 1 => t[x] = FreeSlot

\* With a new range in place of all loose slots, everything in use is in ranges
\* and the map is right.
LEMMA JoinRow ==
  ASSUME NEW N \in Nat, NEW sl \in [0 .. N - 1 -> SlotType], NEW G, Parted(sl, G), NEW am, Mapped(am, sl, G),
         NEW t \in [0 .. N - 1 -> SlotType], NEW f, NEW p, NEW n, Asked(f, p, n), NEW at \in Nat,
         Fresh(sl, G, t, N, at, n, f, p)
  PROVE  /\ Parted(t, {}) /\ Kept(t, {}) = Kept(sl, G) \cup (at .. at + n - 1)
         /\ Heads(t, {}) = Heads(sl, G) \cup {at} /\ RangeOf(t, at) = at .. at + n - 1
         /\ Mapped(AddMaster(am, t, at), t, {})
<1> DEFINE row == at .. at + n - 1
           K == Kept(sl, G)
<1>1. f \in Files /\ p \in Nat /\ n \in Nat /\ n > 0
  BY AskedTypes
<1>2. Rows(sl, G) /\ Owned(sl, G) /\ Once(sl, G) /\ Plain(sl, G)
  BY DEF Parted
<1>3. row \subseteq 0 .. N - 1 /\ at \in row /\ K \subseteq 0 .. N - 1 /\ K \cap row = {}
  BY <1>1 DEF Fresh, Kept
<1>4. \A x \in row :
        /\ t[x].free = FALSE /\ t[x].file = f /\ t[x].page = (p + x) - at /\ t[x].lock = 0
        /\ x # at => t[x].masters = 0
  BY DEF Fresh, InRow
<1>5. t[at].masters = n
  BY <1>3 DEF Fresh, InRow
<1>6. \A x \in K : sl[x].free # TRUE
  BY DEF Kept
<1>7. FreeSlot.free = TRUE /\ FreeSlot.lock = 0
  BY DEF FreeSlot
<1>8. \A x \in K : t[x] = sl[x] /\ (sl[x].file = f => sl[x].page \notin p .. p + n - 1)
  BY DEF Fresh
<1>9. \A x \in 0 .. N - 1 : x \notin K /\ x \notin row => t[x] = FreeSlot
  BY DEF Fresh
<1> HIDE DEF K
<1>10. Kept(t, {}) = K \cup row
  <2>1. DOMAIN t = 0 .. N - 1
    OBVIOUS
  <2>2. ASSUME NEW x \in 0 .. N - 1 PROVE ~t[x].free <=> x \in K \/ x \in row
    <3>1. CASE x \in K
      BY <1>6, <1>8, <3>1
    <3>2. CASE x \in row
      BY <1>4, <3>2
    <3>3. CASE x \notin K /\ x \notin row
      BY <1>7, <1>9, <3>3
    <3>4. QED  BY <3>1, <3>2, <3>3
  <2>3. QED  BY <1>3, <2>1, <2>2 DEF Kept
<1>11. Heads(sl, G) = {m \in K : sl[m].masters > 0}
  BY DEF Heads, K
<1>12. Heads(t, {}) = Heads(sl, G) \cup {at}
  <2>1. \A m \in K : t[m].masters > 0 <=> sl[m].masters > 0
    BY <1>8
  <2>2. \A m \in row : t[m].masters > 0 <=> m = at
    <3>1. \A m \in row : m # at => ~(t[m].masters > 0)
      BY <1>4
    <3>2. QED  BY <1>1, <1>5, <3>1
  <2>3. QED  BY <1>3, <1>10, <1>11, <2>1, <2>2 DEF Heads
<1>13. RangeOf(t, at) = row
  BY <1>5 DEF RangeOf
<1>14. ASSUME NEW m \in Heads(sl, G)
       PROVE  /\ m \in K /\ RangeOf(t, m) = RangeOf(sl, m) /\ RangeOf(sl, m) \subseteq K
  <2>1. m \in K
    BY <1>11
  <2>2. t[m].masters = sl[m].masters
    BY <1>8, <2>1
  <2>3. RangeOf(sl, m) \subseteq K
    BY <1>2 DEF Rows, K
  <2>4. QED  BY <2>1, <2>2, <2>3 DEF RangeOf
<1>15. Rows(t, {})
  <2> SUFFICES ASSUME NEW m \in Heads(t, {}), NEW x \in RangeOf(t, m)
               PROVE  /\ x \in Kept(t, {}) /\ (x # m => t[x].masters = 0)
                      /\ t[x].file = t[m].file /\ t[x].page = (t[m].page + x) - m
    BY DEF Rows
  <2>1. CASE m = at
    <3>1. x \in row
      BY <1>13, <2>1
    <3>2. t[at].page = (p + at) - at /\ t[at].file = f /\ t[x].page = (p + x) - at /\ t[x].file = f
      BY <1>3, <1>4, <3>1
    <3>3. t[x].page = (t[at].page + x) - at
      BY <1>1, <3>1, <3>2
    <3>4. QED  BY <1>4, <1>10, <2>1, <3>1, <3>2, <3>3
  <2>2. CASE m \in Heads(sl, G)
    <3>1. m \in K /\ x \in RangeOf(sl, m) /\ x \in K
      BY <1>14, <2>2
    <3>2. (x # m => sl[x].masters = 0) /\ sl[x].file = sl[m].file /\ sl[x].page = (sl[m].page + x) - m
      BY <1>2, <2>2, <3>1 DEF Rows
    <3>3. QED  BY <1>8, <1>10, <3>1, <3>2
  <2>3. QED  BY <1>12, <2>1, <2>2
<1>16. Owned(t, {})
  <2> SUFFICES ASSUME NEW x \in Kept(t, {}) PROVE \E m \in Heads(t, {}) : x \in RangeOf(t, m)
    BY DEF Owned
  <2>1. CASE x \in row
    BY <1>12, <1>13, <2>1
  <2>2. CASE x \in K
    <3>1. PICK m \in Heads(sl, G) : x \in RangeOf(sl, m)
      BY <1>2, <2>2 DEF Owned, K
    <3>2. QED  BY <1>12, <1>14, <3>1
  <2>3. QED  BY <1>10, <2>1, <2>2
<1>17. ASSUME NEW x \in K, NEW y \in row PROVE ~ (t[x].file = t[y].file /\ t[x].page = t[y].page)
  <2>1. t[x].file = f => t[x].page \notin p .. p + n - 1
    BY <1>8
  <2>2. (p + y) - at \in p .. p + n - 1
    BY <1>1
  <2>3. QED  BY <1>4, <2>1, <2>2
<1>18. Once(t, {})
  <2> SUFFICES ASSUME NEW x \in Kept(t, {}), NEW y \in Kept(t, {}), t[x].file = t[y].file, t[x].page = t[y].page
               PROVE  x = y
    BY DEF Once
  <2>1. CASE x \in K /\ y \in K
    <3>1. sl[x].file = sl[y].file /\ sl[x].page = sl[y].page
      BY <1>8, <2>1
    <3>2. QED  BY <1>2, <2>1, <3>1 DEF Once, K
  <2>2. CASE x \in row /\ y \in row
    <3>1. (p + x) - at = (p + y) - at
      BY <1>4, <2>2
    <3>2. QED  BY <1>1, <2>2, <3>1
  <2>3. CASE x \in K /\ y \in row
    BY <1>17, <2>3
  <2>4. CASE x \in row /\ y \in K
    BY <1>17, <2>4
  <2>5. QED  BY <1>10, <2>1, <2>2, <2>3, <2>4
<1>19. Plain(t, {})
  <2> SUFFICES ASSUME NEW x \in 0 .. N - 1
               PROVE  /\ t[x].free => t[x] = FreeSlot
                      /\ x \in Kept(t, {}) => t[x].file \in Files
                      /\ t[x].lock > 0 => x \in Heads(t, {})
    BY DEF Plain
  <2>1. CASE x \in K
    <3>1. sl[x].file \in Files /\ (sl[x].lock > 0 => x \in Heads(sl, G))
      BY <1>2, <1>3, <2>1 DEF Plain, K
    <3>2. QED  BY <1>6, <1>8, <1>12, <2>1, <3>1
  <2>2. CASE x \in row
    BY <1>1, <1>4, <2>2
  <2>3. CASE x \notin K /\ x \notin row
    <3>1. t[x] = FreeSlot
      BY <1>9, <2>3
    <3>2. x \notin Kept(t, {})
      BY <1>10, <2>3
    <3>3. QED  BY <1>7, <3>1, <3>2
  <2>4. QED  BY <2>1, <2>2, <2>3
<1>20. Mapped(AddMaster(am, t, at), t, {})
  <2>1. \A m \in Heads(sl, G) : Key(t, m) = Key(sl, m)
    BY <1>8, <1>14 DEF Key
  <2>2. MapsTo(am, t, Heads(sl, G))
    BY <2>1, MapsAlso DEF Mapped
  <2>3. \A m \in Heads(sl, G) : Key(t, m) # Key(t, at)
    BY <1>3, <1>14, <1>17 DEF Key
  <2>4. MapsTo(AddMaster(am, t, at), t, Heads(sl, G) \cup {at})
    BY <2>2, <2>3, AddedMaster
  <2>5. QED  BY <1>12, <2>4 DEF Mapped
<1>21. QED  BY <1>10, <1>12, <1>13, <1>15, <1>16, <1>18, <1>19, <1>20 DEF Parted, K

-----------------------------------------------------------------------------
\* A set of slots is finite.
LEMMA FiniteSlots ==
  ASSUME NEW N \in Nat, NEW S, S \subseteq 0 .. N - 1
  PROVE  IsFiniteSet(S)
<1>1. N - 1 \in Int
  OBVIOUS
<1>2. IsFiniteSet(0 .. N - 1)
  BY <1>1, FS_Interval
<1>3. QED  BY <1>2, FS_Subset

\* The slots that were in ranges stay as they were, those of `row` are a range
\* of their own, and nothing is loose any more.
Joined(s, G, t, N, at, n, f, p) ==
  /\ Sound(t, N, {})
  /\ Kept(t.slots, {}) = Kept(s.slots, G) \cup (at .. at + n - 1)
  /\ Heads(t.slots, {}) = Heads(s.slots, G) \cup {at} /\ RangeOf(t.slots, at) = at .. at + n - 1
  /\ \A x \in Kept(s.slots, G) : t.slots[x] = s.slots[x]
  /\ \A x \in at .. at + n - 1 : InRow(t.slots, at, n, f, p, x)

\* Joining the slots in common where they are (the branch of fetch that needs
\* no other place) leaves a sound pool with a range for the request.
LEMMA AssembleSound ==
  ASSUME NEW N \in Nat, NEW s, NEW H, Sound(s, N, H), NEW f, NEW p, NEW n, Asked(f, p, n),
         Loose(s.slots, H, f, p, n), Uninterrupted(s.slots, H, n)
  PROVE  LET t == Assemble(s, H)
             at == Min(H)
         IN  /\ at \in Nat /\ H = at .. at + n - 1
             /\ Joined(s, H, t, N, at, n, f, p)
             /\ t.disk = s.disk /\ t.slots[at].mark = Carried(s.slots, H)
             /\ \A x \in H : t.slots[x].data = s.slots[x].data /\ t.slots[x].page = s.slots[x].page
                             /\ t.slots[x].file = s.slots[x].file
<1> DEFINE t == Assemble(s, H)
           sl == s.slots
           at == Min(H)
           row == at .. at + n - 1
           ts == t.slots
<1>1. /\ sl \in [0 .. N - 1 -> SlotType] /\ Parted(sl, H) /\ Mapped(s.addrmap, sl, H) /\ Plain(sl, H)
      /\ s.disk \in [Files -> Seq(Values \cup {Junk})]
      /\ s = [slots |-> s.slots, addrmap |-> s.addrmap, disk |-> s.disk]
  BY DEF Sound, Parted
<1>2. f \in Files /\ p \in Nat /\ n \in Nat /\ n > 0 /\ n <= MaxCount /\ MaxCount \in Nat
  BY AskedTypes
<1>3. at \in H /\ H = row /\ \A x \in H : sl[x].page = (p + x) - at
  BY <1>1, RowOfCommon
<1>4. /\ H \subseteq 0 .. N - 1
      /\ \A x \in H : ~sl[x].free /\ sl[x].file = f /\ sl[x].lock = 0
      /\ \A x \in Kept(sl, H) : sl[x].file = f => sl[x].page \notin p .. p + n - 1
  BY <1>1 DEF Loose
<1>5. Cardinality(H) = n
  BY DEF Uninterrupted
<1> DEFINE c == Carried(sl, H)
<1>6. c \in 0 .. MarkMod - 1
  <2>1. IsFiniteSet(H)
    BY <1>4, FiniteSlots
  <2>2. \A x \in H : sl[x].mark \in Nat
    BY <1>1, <1>4, Fields
  <2>3. QED  BY <2>1, <2>2, CarriedFits
<1> DEFINE joined == [x \in DOMAIN sl |->
                  IF x = at THEN [sl[x] EXCEPT !.masters = Cardinality(H), !.mark = c]
                  ELSE IF x \in H THEN [sl[x] EXCEPT !.mark = 0] ELSE sl[x]]
<1>7. t = [s EXCEPT !.slots = joined, !.addrmap = AddMaster(s.addrmap, joined, at)]
  BY DEF Assemble
<1> HIDE DEF joined
<1>8. t = [slots |-> joined, addrmap |-> AddMaster(s.addrmap, joined, at), disk |-> s.disk]
  BY <1>1, <1>7
<1>9. ts = joined
  BY <1>8
<1>10. /\ ts = [x \in DOMAIN sl |->
                   IF x = at THEN [sl[x] EXCEPT !.masters = Cardinality(H), !.mark = c]
                   ELSE IF x \in H THEN [sl[x] EXCEPT !.mark = 0] ELSE sl[x]]
       /\ t = [slots |-> ts, addrmap |-> AddMaster(s.addrmap, ts, at), disk |-> s.disk]
  BY <1>8, <1>9 DEF joined
<1> HIDE DEF sl, at, c, t, ts
<1>11. at \in Nat /\ at \in 0 .. N - 1 /\ (at + n) - 1 \in 0 .. N - 1
  <2>1. at \in 0 .. N - 1
    BY <1>3, <1>4
  <2>2. (at + n) - 1 \in row
    BY <1>2, <2>1
  <2>3. QED  BY <1>3, <1>4, <2>1, <2>2
<1>12. ASSUME NEW x \in 0 .. N - 1 PROVE ts[x] \in SlotType
  <2>1. sl[x] \in SlotType /\ x \in DOMAIN sl /\ 0 \in 0 .. MarkMod - 1 /\ n \in 0 .. MaxCount
    BY <1>1, <1>2, PagerAssumption
  <2>2. ts[x] = IF x = at THEN [sl[x] EXCEPT !.masters = n, !.mark = c]
                ELSE IF x \in H THEN [sl[x] EXCEPT !.mark = 0] ELSE sl[x]
    BY <1>5, <1>10, <2>1
  <2>3. QED  BY <1>6, <2>1, <2>2 DEF SlotType
<1>13. ts \in [0 .. N - 1 -> SlotType]
  BY <1>1, <1>10, <1>12
<1>14. \A x \in Kept(sl, H) : ts[x] = sl[x]
  BY <1>3, <1>10 DEF Kept
<1>15. \A x \in H : sl[x].masters = 0
  BY DEF Loose, sl
<1>16. ASSUME NEW x \in row PROVE InRow(ts, at, n, f, p, x) /\ ts[x].data = sl[x].data
             /\ ts[x].page = sl[x].page /\ ts[x].file = sl[x].file
  <2>1. x \in H /\ x \in DOMAIN sl /\ sl[x] \in SlotType /\ sl[x].free \in BOOLEAN
    BY <1>1, <1>3, <1>4, Fields
  <2>2. ts[x] = IF x = at THEN [sl[x] EXCEPT !.masters = n, !.mark = c]
                ELSE [sl[x] EXCEPT !.mark = 0]
    BY <1>5, <1>10, <2>1
  <2>3. /\ ts[x].free = sl[x].free /\ ts[x].file = sl[x].file /\ ts[x].page = sl[x].page
        /\ ts[x].lock = sl[x].lock /\ ts[x].data = sl[x].data
        /\ ts[x].masters = IF x = at THEN n ELSE sl[x].masters
    BY <2>1, <2>2 DEF SlotType
  <2>4. QED  BY <1>3, <1>4, <1>15, <2>1, <2>3 DEF InRow
<1>17. \A x \in 0 .. N - 1 : x \notin Kept(sl, H) /\ x \notin row => ts[x] = FreeSlot
  <2> SUFFICES ASSUME NEW x \in 0 .. N - 1, x \notin Kept(sl, H), x \notin row PROVE ts[x] = FreeSlot
    OBVIOUS
  <2>1. x \in DOMAIN sl /\ x \notin H /\ x # at
    BY <1>1, <1>3
  <2>2. sl[x].free
    BY <2>1 DEF Kept
  <2>3. sl[x] = FreeSlot
    BY <1>1, <2>1, <2>2 DEF Plain
  <2>4. QED  BY <1>10, <2>1, <2>3
<1>18. /\ Parted(ts, {}) /\ Kept(ts, {}) = Kept(sl, H) \cup row
       /\ Heads(ts, {}) = Heads(sl, H) \cup {at} /\ RangeOf(ts, at) = row
       /\ Mapped(AddMaster(s.addrmap, ts, at), ts, {})
  <2>1. \A x \in Kept(sl, H) : ts[x] = sl[x] /\ (sl[x].file = f => sl[x].page \notin p .. p + n - 1)
    BY <1>4, <1>14
  <2>2. row \subseteq H
    BY <1>3
  <2>3. \A x \in row : InRow(ts, at, n, f, p, x)
    BY <1>16
  <2> DEFINE am == s.addrmap
  <2>4. Mapped(am, sl, H)
    BY <1>1
  <2> HIDE DEF am
  <2>5. /\ Parted(ts, {}) /\ Kept(ts, {}) = Kept(sl, H) \cup row
        /\ Heads(ts, {}) = Heads(sl, H) \cup {at} /\ RangeOf(ts, at) = row
        /\ Mapped(AddMaster(am, ts, at), ts, {})
    <3>1. Fresh(sl, H, ts, N, at, n, f, p)
      BY <1>11, <1>17, <2>1, <2>2, <2>3 DEF Fresh
    <3>2. QED  BY <1>1, <1>11, <1>13, <2>4, <3>1, JoinRow
  <2>6. QED  BY <2>5 DEF am
<1>19. Sound(t, N, {})
  <2>1. t.slots = ts /\ t.addrmap = AddMaster(s.addrmap, ts, at) /\ t.disk = s.disk
    BY <1>10
  <2>2. QED  BY <1>1, <1>10, <1>13, <1>18, <2>1 DEF Sound
<1>20. Joined(s, H, t, N, at, n, f, p)
  BY <1>14, <1>16, <1>18, <1>19 DEF Joined, ts, sl
<1>21. t.disk = s.disk /\ ts[at].mark = c
  <2>1. at \in DOMAIN sl /\ sl[at] \in SlotType
    BY <1>1, <1>11
  <2>2. ts[at] = [sl[at] EXCEPT !.masters = Cardinality(H), !.mark = c]
    BY <1>10, <2>1
  <2>3. QED  BY <1>10, <2>1, <2>2 DEF SlotType
<1>22. QED  BY <1>3, <1>11, <1>16, <1>20, <1>21 DEF t, at, c, sl, ts

-----------------------------------------------------------------------------
\* The dirty slots that a new range takes the place of.
Spilled(sl, at, n) == {x \in at .. at + n - 1 : ~sl[x].free /\ sl[Master(sl, x)].mark > 0}

\* The slots of a new range are empty, and the others stay in ranges.
Made(s, H, r, N, at, n) ==
  /\ at \in Nat /\ (at + n) - 1 \in 0 .. N - 1 /\ H \cap (at .. at + n - 1) = {}
  /\ Sound(r, N, H \cup (at .. at + n - 1))
  /\ Kept(r.slots, H \cup (at .. at + n - 1)) = Kept(s.slots, H) \ (at .. at + n - 1)
  /\ \A x \in at .. at + n - 1 :
       /\ r.slots[x].free = FALSE /\ r.slots[x].lock = 0 /\ r.slots[x].masters = IF x = at THEN n ELSE 0
  /\ \A x \in 0 .. N - 1 : x \notin at .. at + n - 1 =>
       /\ r.slots[x].free = s.slots[x].free /\ r.slots[x].file = s.slots[x].file
       /\ r.slots[x].page = s.slots[x].page /\ r.slots[x].data = s.slots[x].data
       /\ x \in H \/ s.slots[x].lock > 0 => r.slots[x] = s.slots[x]
  /\ \A x \in at .. at + n - 1 : s.slots[x].lock = 0
  /\ \A m \in Heads(r.slots, H \cup (at .. at + n - 1)) : \A x \in RangeOf(r.slots, m) :
       r.slots[m].mark = s.slots[Master(s.slots, x)].mark

\* makeRange_ leaves a sound pool but for the slots of the new range and the
\* ones in common, having written the dirty slots it takes.
LEMMA MakeSound ==
  ASSUME NEW N \in Nat, NEW s, NEW H, Sound(s, N, H), NEW n \in Nat, n > 0, n <= MaxCount,
         \A x \in H : x \in DOMAIN s.slots /\ ~s.slots[x].free,
         NEW at \in Places(s, n, H)
  PROVE  /\ Made(s, H, MakeRange(s, at, n), N, at, n)
         /\ MakeRange(s, at, n).disk = DumpSlots(s.disk, s.slots, Spilled(s.slots, at, n))
         /\ Spilled(s.slots, at, n) \subseteq Kept(s.slots, H)
<1> DEFINE sl == s.slots
           row == at .. at + n - 1
           hit == Hit(sl, at, n)
           r == MakeRange(s, at, n)
           t == MadeRange(sl, hit, at, n)
           G == H \cup row
           spilled == Spilled(sl, at, n)
           Own(x) == Master(sl, x)
           K == Kept(sl, H)
           rest == Rest(sl, hit, at + n)
           kept == RemoveMasters(s.addrmap, sl, hit \cap row)
           am == IF rest = {} THEN kept ELSE AddMaster(kept, t, at + n)
           e == DumpSlots(s.disk, sl, spilled)
<1>1. /\ sl \in [0 .. N - 1 -> SlotType] /\ Rows(sl, H) /\ Owned(sl, H) /\ Once(sl, H) /\ Plain(sl, H)
      /\ Mapped(s.addrmap, sl, H) /\ s.disk \in Disks
  BY DEF Sound, Parted, Disks
<1>2. r = [slots |-> t, addrmap |-> am, disk |-> e]
  BY DEF MakeRange, Spilled
<1>3. /\ at \in {x \in DOMAIN sl : sl[x].free} \cup {s.addrmap[k] : k \in DOMAIN s.addrmap}
      /\ Avail(sl, at, n, H)
  BY DEF Places
<1>4. {s.addrmap[k] : k \in DOMAIN s.addrmap} = Heads(sl, H)
  BY <1>1, HeadOfMapped
<1>5. K = {x \in 0 .. N - 1 : x \notin H /\ ~sl[x].free} /\ Heads(sl, H) = {m \in K : sl[m].masters > 0}
  BY <1>1 DEF Kept, Heads
<1>6. at \in 0 .. N - 1 /\ (sl[at].free \/ at \in Heads(sl, H))
  BY <1>1, <1>3, <1>4, <1>5
<1>7. at \in Nat /\ (at + n) - 1 \in 0 .. N - 1 /\ row \subseteq 0 .. N - 1 /\ at \in row
  <2>1. at + n - 1 \in 0 .. N - 1
    BY <1>1, <1>3 DEF Avail
  <2>2. QED  BY <1>6, <2>1
<1>8. \A x \in row : ~sl[x].free => x \notin H /\ sl[Own(x)].lock = 0
  BY <1>3 DEF Avail
<1>9. \A x \in H : x \in 0 .. N - 1 /\ ~sl[x].free
  BY <1>1
<1>10. hit = {Own(x) : x \in {x \in row : ~sl[x].free}}
  BY DEF Hit
<1>11. spilled = {x \in row : ~sl[x].free /\ sl[Own(x)].mark > 0}
  BY DEF Spilled
<1> HIDE DEF sl, hit, r, t, spilled, K, rest, kept, am, e
<1>12. H \cap row = {}
  BY <1>8, <1>9
<1>13. \A x \in row : ~sl[x].free => x \in K /\ Own(x) \in Heads(sl, H) /\ x \in RangeOf(sl, Own(x)) /\ Own(x) \in hit
  <2> SUFFICES ASSUME NEW x \in row, ~sl[x].free
               PROVE x \in K /\ Own(x) \in Heads(sl, H) /\ x \in RangeOf(sl, Own(x)) /\ Own(x) \in hit
    OBVIOUS
  <2>1. x \in K
    BY <1>5, <1>7, <1>8
  <2>2. QED  BY <1>1, <1>10, <2>1, Owner DEF K
\* The new range starts where a range does, if anything is there.
<1>14. hit \subseteq row
  <2> SUFFICES ASSUME NEW x \in row, ~sl[x].free PROVE Own(x) \in row
    BY <1>10
  <2> DEFINE m == Own(x)
  <2>1. m \in Heads(sl, H) /\ x \in RangeOf(sl, m)
    BY <1>13
  <2> HIDE DEF m
  <2>2. m \in 0 .. N - 1 /\ x \in Int /\ m <= x /\ x <= (m + sl[m].masters) - 1
    BY <1>1, <2>1, HeadIn, InRange
  <2>3. CASE m >= at
    <3>1. x <= at + n - 1
      BY <1>7
    <3>2. QED  BY <1>7, <2>2, <2>3, <3>1 DEF m
  <2>4. CASE m < at
    <3>1. sl[m].masters \in Nat
      BY <1>1, <2>2, Fields
    <3>2. at <= x
      BY <1>7
    <3>3. m <= at /\ at <= (m + sl[m].masters) - 1 /\ at \in Int
      BY <1>7, <2>2, <2>4, <3>1, <3>2
    <3>4. at \in RangeOf(sl, m)
      BY <1>1, <2>2, <3>3, RangeHas
    <3>5. at \in Kept(sl, H)
      BY <1>1, <2>1, <3>4 DEF Rows
    <3>6. at \in Heads(sl, H)
      BY <1>6, <3>5 DEF Kept
    <3>7. at \in RangeOf(sl, at)
      BY <1>1, <3>6, HeadIn
    <3>8. m = at
      BY <1>1, <2>1, <3>4, <3>6, <3>7, Apart
    <3>9. QED  BY <1>7, <2>4, <3>8
  <2>5. QED  BY <1>7, <2>2, <2>3, <2>4
<1>15. hit = Heads(sl, H) \cap row
  <2>1. hit \subseteq Heads(sl, H)
    BY <1>10, <1>13
  <2>2. ASSUME NEW m \in Heads(sl, H), m \in row PROVE m \in hit
    <3>1. ~sl[m].free
      BY <1>5
    <3>2. Own(m) = m
      BY <1>1, HeadIn, OwnerIs
    <3>3. QED  BY <1>10, <2>2, <3>1, <3>2
  <2>3. QED  BY <1>14, <2>1, <2>2
<1>16. rest = {m \in hit : at + n \in RangeOf(sl, m)}
  BY DEF rest, Rest
<1>17. ASSUME rest # {}
       PROVE  /\ at + n \in K /\ Own(at + n) \in hit /\ at + n \in RangeOf(sl, Own(at + n))
              /\ sl[at + n].masters = 0 /\ at + n \in 0 .. N - 1 /\ at + n \notin row
              /\ Own(at + n) \in Heads(sl, H)
  <2>1. PICK m \in hit : at + n \in RangeOf(sl, m)
    BY <1>16, <1>17
  <2>2. m \in Heads(sl, H) /\ m \in row
    BY <1>15
  <2>3. Own(at + n) = m
    BY <1>1, <2>1, <2>2, OwnerIs
  <2>4. at + n \notin row
    BY <1>7
  <2>5. at + n \in K /\ sl[at + n].masters = 0
    BY <1>1, <2>1, <2>2, <2>4 DEF Rows, K
  <2>6. QED  BY <1>5, <2>1, <2>2, <2>3, <2>4, <2>5
<1> DEFINE A == (Own(at + n) + sl[Own(at + n)].masters) - (at + n)
           B == sl[Own(at + n)].mark
<1>18. t = [x \in DOMAIN sl |->
     IF x \in row
     THEN [sl[x] EXCEPT !.free = FALSE, !.mark = 0, !.masters = IF x = at THEN n ELSE 0]
     ELSE IF x \in hit THEN [sl[x] EXCEPT !.masters = Shrunk(x, at)]
     ELSE IF x = at + n /\ Rest(sl, hit, x) # {}
     THEN LET m == Master(sl, x)
          IN  [sl[x] EXCEPT !.masters = (m + sl[m].masters) - x, !.mark = sl[m].mark]
     ELSE sl[x]]
  BY DEF MadeRange, t
<1>19. \A x \in 0 .. N - 1 : x \in row =>
         t[x] = [sl[x] EXCEPT !.free = FALSE, !.mark = 0, !.masters = IF x = at THEN n ELSE 0]
  BY <1>1, <1>18
<1>20. \A x \in 0 .. N - 1 : x \notin row /\ ~(x = at + n /\ rest # {}) => t[x] = sl[x]
  BY <1>1, <1>14, <1>18 DEF rest
<1>21. rest # {} => t[at + n] = [sl[at + n] EXCEPT !.masters = A, !.mark = B]
  <2> SUFFICES ASSUME rest # {} PROVE t[at + n] = [sl[at + n] EXCEPT !.masters = A, !.mark = B]
    OBVIOUS
  <2>1. at + n \in DOMAIN sl /\ at + n \notin row /\ at + n \notin hit
    BY <1>1, <1>14, <1>17
  <2>2. QED  BY <1>18, <2>1 DEF rest
<1>22. rest # {} => /\ A \in Nat /\ A > 0 /\ A <= MaxCount /\ B \in 0 .. MarkMod - 1
  <2> SUFFICES ASSUME rest # {} PROVE A \in Nat /\ A > 0 /\ A <= MaxCount /\ B \in 0 .. MarkMod - 1
    OBVIOUS
  <2> DEFINE m == Own(at + n)
  <2>1. m \in 0 .. N - 1 /\ at + n \in RangeOf(sl, m)
    BY <1>5, <1>17
  <2> HIDE DEF m
  <2>2. at + n \in Int /\ m <= at + n /\ at + n <= (m + sl[m].masters) - 1
    BY <1>1, <2>1, InRange
  <2>3. sl[m].masters \in 0 .. MaxCount /\ sl[m].mark \in 0 .. MarkMod - 1 /\ MaxCount \in Nat
    BY <1>1, <2>1, Fields, PagerAssumption
  <2>4. (m + sl[m].masters) - (at + n) \in Nat /\ (m + sl[m].masters) - (at + n) > 0
        /\ (m + sl[m].masters) - (at + n) <= MaxCount
    BY <2>1, <2>2, <2>3
  <2>5. QED  BY <2>3, <2>4 DEF m
<1> HIDE DEF A, B
<1>23. t \in [0 .. N - 1 -> SlotType]
  <2>1. ASSUME NEW x \in 0 .. N - 1 PROVE t[x] \in SlotType
    <3>1. sl[x] \in SlotType /\ 0 \in 0 .. MarkMod - 1 /\ n \in 0 .. MaxCount /\ 0 \in 0 .. MaxCount
      BY <1>1, PagerAssumption
    <3>2. CASE x \in row
      <4>1. PICK k \in 0 .. MaxCount : k = IF x = at THEN n ELSE 0
        BY <3>1
      <4>2. t[x] = [sl[x] EXCEPT !.free = FALSE, !.mark = 0, !.masters = k]
        BY <1>19, <3>2, <4>1
      <4>3. QED  BY <3>1, <4>2 DEF SlotType
    <3>3. CASE x = at + n /\ rest # {}
      <4>1. A \in 0 .. MaxCount /\ B \in 0 .. MarkMod - 1
        BY <1>22, <3>3, PagerAssumption
      <4>2. QED  BY <1>21, <3>1, <3>3, <4>1 DEF SlotType
    <3>4. CASE x \notin row /\ ~(x = at + n /\ rest # {})
      BY <1>20, <3>1, <3>4
    <3>5. QED  BY <3>2, <3>3, <3>4
  <2>2. DOMAIN t = 0 .. N - 1
    BY <1>1, <1>18
  <2>3. QED  BY <1>18, <2>1, <2>2
<1>24. \A x \in row : t[x].free = FALSE /\ t[x].lock = sl[x].lock /\ t[x].masters = IF x = at THEN n ELSE 0
  <2> SUFFICES ASSUME NEW x \in row
      PROVE t[x].free = FALSE /\ t[x].lock = sl[x].lock /\ t[x].masters = IF x = at THEN n ELSE 0
    OBVIOUS
  <2>1. sl[x] \in SlotType /\ x \in 0 .. N - 1
    BY <1>1, <1>7
  <2>2. QED  BY <1>19, <2>1 DEF SlotType
<1>25. rest # {} =>
         /\ t[at + n].free = sl[at + n].free /\ t[at + n].file = sl[at + n].file
         /\ t[at + n].page = sl[at + n].page /\ t[at + n].data = sl[at + n].data
         /\ t[at + n].lock = sl[at + n].lock /\ t[at + n].masters = A /\ t[at + n].mark = B
  <2> SUFFICES ASSUME rest # {}
      PROVE  /\ t[at + n].free = sl[at + n].free /\ t[at + n].file = sl[at + n].file
             /\ t[at + n].page = sl[at + n].page /\ t[at + n].data = sl[at + n].data
             /\ t[at + n].lock = sl[at + n].lock /\ t[at + n].masters = A /\ t[at + n].mark = B
    OBVIOUS
  <2>1. sl[at + n] \in SlotType
    BY <1>1, <1>17
  <2>2. QED  BY <1>21, <2>1 DEF SlotType
<1>26. \A x \in 0 .. N - 1 : x \notin row =>
         /\ t[x].free = sl[x].free /\ t[x].file = sl[x].file
         /\ t[x].page = sl[x].page /\ t[x].data = sl[x].data /\ t[x].lock = sl[x].lock
  BY <1>20, <1>25
<1>27. Kept(t, G) = K \ row
  <2>1. DOMAIN t = 0 .. N - 1
    BY <1>23
  <2>2. QED  BY <1>5, <1>26, <2>1 DEF Kept
<1>28. Heads(t, G) = (Heads(sl, H) \ row) \cup (IF rest = {} THEN {} ELSE {at + n})
  <2>1. CASE rest = {}
    <3>1. \A x \in K \ row : t[x] = sl[x]
      BY <1>5, <1>20, <2>1
    <3>2. QED  BY <1>5, <1>27, <2>1, <3>1 DEF Heads
  <2>2. CASE rest # {}
    <3>1. \A x \in K \ row : x # at + n => t[x] = sl[x]
      BY <1>5, <1>20
    <3>2. at + n \in K \ row /\ t[at + n].masters > 0
      BY <1>17, <1>22, <1>25, <2>2
    <3>3. QED  BY <1>5, <1>27, <2>2, <3>1, <3>2 DEF Heads
  <2>3. QED  BY <2>1, <2>2
\* Ranges that are not in the way stay.
<1>29. ASSUME NEW m \in Heads(sl, H), m \notin row
       PROVE  /\ m \in K \ row /\ t[m] = sl[m] /\ RangeOf(t, m) = RangeOf(sl, m)
              /\ \A x \in RangeOf(sl, m) : x \in K \ row /\ t[x] = sl[x] /\ Own(x) = m
  <2>1. \A x \in RangeOf(sl, m) : x \in K /\ Own(x) = m
    BY <1>1, OwnerIs DEF Rows, K
  <2>2. \A x \in RangeOf(sl, m) : x \notin row
    <3>1. m \notin hit
      BY <1>14, <1>29
    <3>2. QED  BY <1>5, <1>13, <2>1, <3>1
  <2>3. rest # {} => at + n \notin RangeOf(sl, m)
    <3>1. m \notin hit
      BY <1>14, <1>29
    <3>2. QED  BY <1>17, <2>1, <3>1
  <2>4. \A x \in RangeOf(sl, m) : t[x] = sl[x]
    BY <1>5, <1>20, <2>1, <2>2, <2>3
  <2>5. m \in RangeOf(sl, m)
    BY <1>1, HeadIn
  <2>6. t[m] = sl[m]
    BY <2>4, <2>5
  <2>7. RangeOf(t, m) = RangeOf(sl, m)
    BY <2>6 DEF RangeOf
  <2>8. QED  BY <2>1, <2>2, <2>4, <2>5, <2>6, <2>7
\* What goes on behind the new range is a range.
<1>30. ASSUME rest # {}
       PROVE  \A x \in RangeOf(t, at + n) :
                /\ x \in RangeOf(sl, Own(at + n)) /\ x \in K \ row /\ Own(x) = Own(at + n)
                /\ (x # at + n => t[x].masters = 0)
                /\ t[x].file = t[at + n].file /\ t[x].page = (t[at + n].page + x) - (at + n)
  <2> DEFINE k == Own(at + n)
             b == at + n
  <2>1. k \in Heads(sl, H) /\ b \in RangeOf(sl, k) /\ k \in row /\ b \in 0 .. N - 1 /\ b \in Nat
    <3>1. k \in Heads(sl, H) /\ b \in RangeOf(sl, k) /\ b \in 0 .. N - 1 /\ k \in hit
      BY <1>17, <1>30
    <3> HIDE DEF k
    <3>2. k \in row
      BY <1>14, <3>1
    <3>3. b \in Nat
      BY <1>7
    <3>4. QED  BY <3>1, <3>2, <3>3
  <2>2. t[b].masters = (k + sl[k].masters) - b /\ t[b].page = sl[b].page /\ t[b].file = sl[b].file
    BY <1>25, <1>30 DEF A
  <2> HIDE DEF k
  <2>3. k \in 0 .. N - 1 /\ sl[k].masters \in Nat
    BY <1>1, <2>1, HeadIn, Fields
  <2>4. k < b /\ \A y \in row : y < b
    BY <1>7, <2>1
  <2> SUFFICES ASSUME NEW x \in RangeOf(t, b)
               PROVE /\ x \in RangeOf(sl, k) /\ x \in K \ row /\ Own(x) = k
                     /\ (x # b => t[x].masters = 0)
                     /\ t[x].file = t[b].file /\ t[x].page = (t[b].page + x) - b
    BY DEF k
  <2>5. x \in Int /\ b <= x /\ x <= (b + t[b].masters) - 1
    BY <1>23, <2>1, InRange
  <2>6. k <= x /\ x <= (k + sl[k].masters) - 1
    BY <2>1, <2>2, <2>3, <2>4, <2>5
  <2>7. x \in RangeOf(sl, k)
    BY <1>1, <2>3, <2>5, <2>6, RangeHas
  <2>8. x \notin row
    BY <2>1, <2>4, <2>5
  <2>9. Own(x) = k
    BY <1>1, <2>1, <2>7, OwnerIs
  <2>10. /\ x \in K /\ x \in 0 .. N - 1 /\ sl[x].file = sl[k].file /\ sl[x].page = (sl[k].page + x) - k
         /\ (x # k => sl[x].masters = 0) /\ sl[k].page \in Nat
    <3>1. /\ x \in 0 .. N - 1 /\ k \in 0 .. N - 1 /\ k <= x /\ x <= (k + sl[k].masters) - 1
          /\ sl[x].file = sl[k].file /\ sl[x].page = (sl[k].page + x) - k
          /\ sl[k].page <= sl[x].page /\ sl[x].page < sl[k].page + sl[k].masters
          /\ x \in Kept(sl, H) /\ (x # k => sl[x].masters = 0) /\ x - k = sl[x].page - sl[k].page
          /\ sl[x].page \in Nat /\ sl[k].page \in Nat /\ sl[k].masters \in Nat /\ sl[k].masters > 0
      BY <1>1, <2>1, <2>7, Cell
    <3>2. QED  BY <3>1 DEF K
  <2>11. sl[b].file = sl[k].file /\ sl[b].page = (sl[k].page + b) - k
    BY <1>1, <2>1, Cell
  <2>12. x # b => t[x].masters = 0
    <3>1. x # k
      BY <2>1, <2>8
    <3>2. x # b => t[x] = sl[x]
      BY <1>20, <2>8, <2>10
    <3>3. QED  BY <2>10, <3>1, <3>2
  <2>13. t[x].file = sl[x].file /\ t[x].page = sl[x].page
    BY <1>26, <2>8, <2>10
  <2>14. t[x].page = (t[b].page + x) - b
    BY <2>1, <2>2, <2>3, <2>5, <2>10, <2>11, <2>13
  <2>15. QED  BY <2>2, <2>7, <2>8, <2>9, <2>10, <2>11, <2>12, <2>13, <2>14
<1>31. Rows(t, G)
  <2> SUFFICES ASSUME NEW m \in Heads(t, G), NEW x \in RangeOf(t, m)
               PROVE  /\ x \in Kept(t, G) /\ (x # m => t[x].masters = 0)
                      /\ t[x].file = t[m].file /\ t[x].page = (t[m].page + x) - m
    BY DEF Rows
  <2>1. CASE m \in Heads(sl, H) \ row
    <3>1. x \in RangeOf(sl, m) /\ x \in K \ row /\ t[x] = sl[x] /\ t[m] = sl[m]
      BY <1>29, <2>1
    <3>2. (x # m => sl[x].masters = 0) /\ sl[x].file = sl[m].file /\ sl[x].page = (sl[m].page + x) - m
      BY <1>1, <2>1, <3>1 DEF Rows
    <3>3. QED  BY <1>27, <3>1, <3>2
  <2>2. CASE rest # {} /\ m = at + n
    BY <1>27, <1>30, <2>2
  <2>3. QED  BY <1>28, <2>1, <2>2
<1>32. Owned(t, G)
  <2> SUFFICES ASSUME NEW x \in K, x \notin row PROVE \E m \in Heads(t, G) : x \in RangeOf(t, m)
    BY <1>27 DEF Owned
  <2> DEFINE m == Own(x)
  <2>1. m \in Heads(sl, H) /\ x \in RangeOf(sl, m)
    BY <1>1, Owner DEF K
  <2> HIDE DEF m
  <2>2. CASE m \notin row
    BY <1>28, <1>29, <2>1, <2>2
  <2>3. CASE m \in row
    <3> DEFINE b == at + n
    <3>1. m \in hit /\ m \in 0 .. N - 1
      BY <1>7, <1>15, <2>1, <2>3
    <3>2. x \in Int /\ m <= x /\ x <= (m + sl[m].masters) - 1 /\ sl[m].masters \in Nat
      BY <1>1, <2>1, <3>1, InRange, Fields
    <3>3. b <= x /\ m <= b /\ b \in Int
      BY <1>7, <2>3, <3>2
    <3>4. b \in RangeOf(sl, m)
      BY <1>1, <3>1, <3>2, <3>3, RangeHas
    <3>5. rest # {}
      BY <1>16, <3>1, <3>4
    <3>6. Own(b) = m
      BY <1>1, <2>1, <3>4, OwnerIs
    <3>7. t[b].masters = (m + sl[m].masters) - b /\ b \in 0 .. N - 1
      BY <1>17, <1>25, <3>5, <3>6 DEF A
    <3>8. x <= (b + t[b].masters) - 1
      BY <3>1, <3>2, <3>3, <3>7
    <3>9. x \in RangeOf(t, b)
      BY <1>23, <3>2, <3>3, <3>7, <3>8, RangeHas
    <3>10. QED  BY <1>28, <3>5, <3>9
  <2>4. QED  BY <2>2, <2>3
<1>33. Once(t, G)
  <2> SUFFICES ASSUME NEW x \in K \ row, NEW y \in K \ row, t[x].file = t[y].file, t[x].page = t[y].page PROVE x = y
    BY <1>27 DEF Once
  <2>1. sl[x].file = sl[y].file /\ sl[x].page = sl[y].page
    BY <1>5, <1>26
  <2>2. QED  BY <1>1, <2>1 DEF Once, K
<1>34. \A x \in 0 .. N - 1 : sl[x].lock > 0 => x \in Heads(sl, H) /\ x \notin row
  <2> SUFFICES ASSUME NEW x \in 0 .. N - 1, sl[x].lock > 0 PROVE x \in Heads(sl, H) /\ x \notin row
    OBVIOUS
  <2>1. x \in Heads(sl, H)
    BY <1>1 DEF Plain
  <2>2. Own(x) = x /\ ~sl[x].free
    BY <1>1, <1>5, <2>1, HeadIn, OwnerIs
  <2>3. QED  BY <1>8, <2>1, <2>2
<1>35. \A x \in row : sl[x].lock = 0
  <2> SUFFICES ASSUME NEW x \in row PROVE sl[x].lock = 0
    OBVIOUS
  <2>1. sl[x].lock \in Nat
    BY <1>1, <1>7, Fields
  <2>2. QED  BY <1>7, <1>34, <2>1
<1>36. Plain(t, G)
  <2> SUFFICES ASSUME NEW x \in 0 .. N - 1
               PROVE  /\ t[x].free => t[x] = FreeSlot
                      /\ x \in Kept(t, G) => t[x].file \in Files
                      /\ t[x].lock > 0 => x \in Heads(t, G)
    BY <1>23 DEF Plain
  <2>1. x \in DOMAIN sl
    BY <1>1
  <2>2. CASE x \in row
    <3>1. t[x].free = FALSE /\ t[x].lock = 0 /\ x \notin Kept(t, G)
      BY <1>24, <1>27, <1>35, <2>2
    <3>2. QED  BY <3>1
  <2>3. CASE x \notin row
    <3>1. /\ sl[x].free => sl[x] = FreeSlot
          /\ x \in K => sl[x].file \in Files
          /\ sl[x].lock > 0 => x \in Heads(sl, H)
      BY <1>1, <2>1 DEF Plain, K
    <3>2. sl[x].free => ~(x = at + n /\ rest # {})
      BY <1>5, <1>17
    <3>3. t[x].free => t[x] = FreeSlot
      BY <1>20, <1>26, <2>3, <3>1, <3>2
    <3>4. QED  BY <1>26, <1>27, <1>28, <2>3, <3>1, <3>3
  <2>4. QED  BY <2>2, <2>3
<1>37. Mapped(am, t, G)
  <2>1. hit \cap row \subseteq Heads(sl, H) /\ Heads(sl, H) \ (hit \cap row) = Heads(sl, H) \ row
    BY <1>15
  <2>2. \A m, k \in Heads(sl, H) : Key(sl, m) = Key(sl, k) => m = k
    BY <1>1, <1>5, KeysOnce DEF K
  <2>3. MapsTo(kept, sl, Heads(sl, H) \ row)
    <3>1. MapsTo(s.addrmap, sl, Heads(sl, H))
      BY <1>1 DEF Mapped
    <3>2. MapsTo(RemoveMasters(s.addrmap, sl, hit \cap row), sl, Heads(sl, H) \ (hit \cap row))
      BY <2>1, <2>2, <3>1, Unmapped
    <3>3. QED  BY <2>1, <3>2 DEF kept
  <2>4. \A m \in Heads(sl, H) \ row : Key(t, m) = Key(sl, m)
    BY <1>29 DEF Key
  <2>5. MapsTo(kept, t, Heads(sl, H) \ row)
    BY <2>3, <2>4, MapsAlso
  <2>6. CASE rest = {}
    BY <1>28, <2>5, <2>6 DEF Mapped, am
  <2>7. CASE rest # {}
    <3>1. am = AddMaster(kept, t, at + n) /\ Heads(t, G) = (Heads(sl, H) \ row) \cup {at + n}
      BY <1>28, <2>7 DEF am
    <3>2. \A m \in Heads(sl, H) \ row : Key(t, m) # Key(t, at + n)
      <4> SUFFICES ASSUME NEW m \in Heads(sl, H) \ row, Key(t, m) = Key(t, at + n) PROVE FALSE
        OBVIOUS
      <4>1. m \in K /\ at + n \in K /\ Key(t, at + n) = Key(sl, at + n)
        BY <1>5, <1>17, <1>25, <2>7 DEF Key
      <4>2. m = at + n
        BY <1>1, <2>4, <4>1, KeysOnce DEF K
      <4>3. sl[at + n].masters > 0 /\ sl[at + n].masters = 0
        BY <1>5, <1>17, <2>7, <4>2
      <4>4. QED  BY <4>3
    <3>3. MapsTo(AddMaster(kept, t, at + n), t, (Heads(sl, H) \ row) \cup {at + n})
      BY <2>5, <3>2, AddedMaster
    <3>4. QED  BY <3>1, <3>3 DEF Mapped
  <2>8. QED  BY <2>6, <2>7
<1>38. spilled \subseteq K
  BY <1>11, <1>13
<1>39. e \in Disks
  <2>1. \A x, y \in spilled : sl[x].file = sl[y].file /\ sl[x].page = sl[y].page => x = y
    BY <1>1, <1>38 DEF Once, K
  <2>2. \A x \in spilled : sl[x].file \in Files
    <3>1. \A x \in K : x \in DOMAIN sl
      BY <1>1, <1>5
    <3>2. QED  BY <1>1, <1>38, <3>1 DEF Plain, K
  <2>3. spilled \subseteq 0 .. N - 1
    BY <1>5, <1>38
  <2>4. DumpSlots(s.disk, sl, spilled) \in Disks
    <3> DEFINE d == s.disk
    <3>1. d \in Disks
      BY <1>1
    <3> HIDE DEF d
    <3>2. DumpSlots(d, sl, spilled) \in Disks
      BY <1>1, <2>1, <2>2, <2>3, <3>1, Dumped DEF IsWritten
    <3>3. QED  BY <3>2 DEF d
  <2>5. QED  BY <2>4 DEF e
<1>40. Sound(r, N, G)
  <2>1. r.slots = t /\ r.addrmap = am /\ r.disk = e
    BY <1>2
  <2>2. QED  BY <1>2, <1>23, <1>31, <1>32, <1>33, <1>36, <1>37, <1>39, <2>1 DEF Sound, Parted, Disks
<1>41. \A m \in Heads(t, G) : \A x \in RangeOf(t, m) : t[m].mark = sl[Own(x)].mark
  <2> SUFFICES ASSUME NEW m \in Heads(t, G), NEW x \in RangeOf(t, m) PROVE t[m].mark = sl[Own(x)].mark
    OBVIOUS
  <2>1. CASE m \in Heads(sl, H) \ row
    BY <1>29, <2>1
  <2>2. CASE rest # {} /\ m = at + n
    BY <1>25, <1>30, <2>2 DEF B
  <2>3. QED  BY <1>28, <2>1, <2>2
<1>42. \A x \in 0 .. N - 1 : x \notin row /\ (x \in H \/ sl[x].lock > 0) => t[x] = sl[x]
  <2> SUFFICES ASSUME NEW x \in 0 .. N - 1, x \notin row, x \in H \/ sl[x].lock > 0 PROVE t[x] = sl[x]
    OBVIOUS
  <2>1. ~(x = at + n /\ rest # {})
    <3>1. ASSUME x = at + n, rest # {} PROVE FALSE
      <4>1. x \in K /\ sl[x].masters = 0
        BY <1>17, <3>1
      <4>2. x \notin H
        BY <1>5, <4>1
      <4>3. x \in Heads(sl, H)
        BY <1>34, <4>2
      <4>4. sl[x].masters > 0
        BY <1>5, <4>3
      <4>5. QED  BY <4>1, <4>4
    <3>2. QED  BY <3>1
  <2>2. QED  BY <1>20, <2>1
<1>43. Made(s, H, r, N, at, n)
  <2>1. r.slots = t
    BY <1>2
  <2>2. Kept(r.slots, H \cup (at .. at + n - 1)) = Kept(s.slots, H) \ (at .. at + n - 1)
    BY <1>27, <2>1 DEF K, sl
  <2>3. \A x \in at .. at + n - 1 :
         r.slots[x].free = FALSE /\ r.slots[x].lock = 0 /\ r.slots[x].masters = IF x = at THEN n ELSE 0
    BY <1>24, <1>35, <2>1
  <2>4. \A x \in 0 .. N - 1 : x \notin at .. at + n - 1 =>
       /\ r.slots[x].free = s.slots[x].free /\ r.slots[x].file = s.slots[x].file
       /\ r.slots[x].page = s.slots[x].page /\ r.slots[x].data = s.slots[x].data
       /\ x \in H \/ s.slots[x].lock > 0 => r.slots[x] = s.slots[x]
    BY <1>26, <1>42, <2>1 DEF sl
  <2>5. \A x \in at .. at + n - 1 : s.slots[x].lock = 0
    BY <1>35 DEF sl
  <2>6. \A m \in Heads(r.slots, H \cup (at .. at + n - 1)) : \A x \in RangeOf(r.slots, m) :
       r.slots[m].mark = s.slots[Master(s.slots, x)].mark
    BY <1>41, <2>1 DEF sl
  <2>7. QED  BY <1>7, <1>12, <1>40, <2>2, <2>3, <2>4, <2>5, <2>6 DEF Made
<1>44. r.disk = DumpSlots(s.disk, sl, spilled)
  BY <1>2 DEF e
<1>45. QED  BY <1>38, <1>43, <1>44 DEF r, spilled, sl, K

-----------------------------------------------------------------------------
\* The new range holds the given data, and its master the given mark count.
IsFilled(r, H, t, N, at, n, f, p, data, mark) ==
  /\ Joined(r, H \cup (at .. at + n - 1), t, N, at, n, f, p)
  /\ t.disk = r.disk /\ t.slots[at].mark = mark
  /\ \A x \in at .. at + n - 1 : t.slots[x].data = data[(p + x) - at]

\* Filling the new range and freeing the slots that were copied leaves a sound
\* pool.
LEMMA FillSound ==
  ASSUME NEW N \in Nat, NEW c, NEW H, Sound(c, N, H), NEW f, NEW p, NEW n, Asked(f, p, n),
         Loose(c.slots, H, f, p, n), NEW r, NEW at, Made(c, H, r, N, at, n),
         NEW data \in [p .. p + n - 1 -> Values \cup {Junk}], NEW mark \in 0 .. MarkMod - 1
  PROVE  IsFilled(r, H, FillRange(r, at, n, f, p, H, data, mark), N, at, n, f, p, data, mark)
<1> DEFINE t == FillRange(r, at, n, f, p, H, data, mark)
           sl == r.slots
           row == at .. at + n - 1
           G == H \cup row
           filled == [x \in DOMAIN sl |->
               IF x \in at .. at + n - 1
               THEN [sl[x] EXCEPT !.file = f, !.page = p + x - at, !.data = data[p + x - at],
                                  !.mark = IF x = at THEN mark ELSE 0]
               ELSE sl[x]]
           ts == MarkFree(filled, H)
           am == r.addrmap
<1>1. /\ at \in Nat /\ (at + n) - 1 \in 0 .. N - 1 /\ H \cap row = {}
      /\ Sound(r, N, G) /\ Kept(sl, G) = Kept(c.slots, H) \ row
      /\ \A x \in row : sl[x].free = FALSE /\ sl[x].lock = 0 /\ sl[x].masters = IF x = at THEN n ELSE 0
      /\ \A x \in 0 .. N - 1 : x \notin row => sl[x].file = c.slots[x].file /\ sl[x].page = c.slots[x].page
  BY DEF Made
<1>2. /\ sl \in [0 .. N - 1 -> SlotType] /\ Parted(sl, G) /\ Mapped(am, sl, G) /\ Plain(sl, G)
      /\ r.disk \in Disks
      /\ r = [slots |-> r.slots, addrmap |-> r.addrmap, disk |-> r.disk]
  BY <1>1 DEF Sound, Parted, Disks
<1>3. f \in Files /\ p \in Nat /\ n \in Nat /\ n > 0 /\ (p + n) - 1 <= MaxPage /\ MaxPage \in Nat
  BY AskedTypes
<1>4. t = [r EXCEPT !.slots = ts, !.addrmap = AddMaster(am, filled, at)]
  BY DEF FillRange
<1>5. AddMaster(am, filled, at) = AddMaster(am, ts, at)
  <2>1. at \in row /\ at \in DOMAIN sl
    BY <1>1, <1>2, <1>3
  <2> HIDE DEF sl, am
  <2>2. at \in DOMAIN filled /\ at \notin H
    BY <1>1, <2>1
  <2> HIDE DEF filled
  <2>3. ts[at] = filled[at]
    BY <2>2 DEF MarkFree
  <2>4. QED  BY <2>3 DEF AddMaster, Key
<1>6. t = [r EXCEPT !.slots = ts, !.addrmap = AddMaster(am, ts, at)]
  BY <1>4, <1>5
<1> HIDE DEF ts
<1>7. t = [slots |-> ts, addrmap |-> AddMaster(am, ts, at), disk |-> r.disk]
  BY <1>2, <1>6
<1> HIDE DEF t, sl, am
<1>8. row \subseteq 0 .. N - 1 /\ at \in row
  BY <1>1, <1>3
<1>9. \A x \in 0 .. N - 1 :
        ts[x] = IF x \in H THEN FreeSlot
                ELSE IF x \in row
                THEN [sl[x] EXCEPT !.file = f, !.page = p + x - at, !.data = data[p + x - at],
                                   !.mark = IF x = at THEN mark ELSE 0]
                ELSE sl[x]
  BY <1>2 DEF ts, MarkFree
<1>10. ASSUME NEW x \in row
       PROVE  /\ InRow(ts, at, n, f, p, x) /\ ts[x].data = data[(p + x) - at]
              /\ ts[x].mark = IF x = at THEN mark ELSE 0
              /\ ts[x] \in SlotType
  <2> DEFINE q == (p + x) - at
             u == IF x = at THEN mark ELSE 0
  <2>1. q \in p .. p + n - 1 /\ q \in Pages /\ p + x - at = q
    BY SMTT(40), <1>1, <1>3 DEF Pages
  <2>2. data[q] \in Values \cup {Junk} /\ u \in 0 .. MarkMod - 1
    BY <2>1, PagerAssumption
  <2>3. ts[x] = [sl[x] EXCEPT !.file = f, !.page = q, !.data = data[q], !.mark = u]
    BY <1>1, <1>8, <1>9, <2>1
  <2>4. sl[x] \in SlotType
    BY <1>2, <1>8
  <2> HIDE DEF q, u
  <2>5. /\ ts[x].free = sl[x].free /\ ts[x].lock = sl[x].lock /\ ts[x].masters = sl[x].masters
        /\ ts[x].file = f /\ ts[x].page = q /\ ts[x].data = data[q] /\ ts[x].mark = u
        /\ ts[x] \in SlotType
    BY <1>3, <2>1, <2>2, <2>3, <2>4 DEF SlotType
  <2>6. QED  BY <1>1, <2>5 DEF InRow, q, u
<1>11. \A x \in 0 .. N - 1 : x \notin row =>
         /\ ts[x] = IF x \in H THEN FreeSlot ELSE sl[x]
         /\ ts[x] \in SlotType
  <2>1. FreeSlot \in SlotType
    BY PagerAssumption DEF FreeSlot, SlotType, Pages
  <2>2. QED  BY <1>2, <1>9, <2>1
<1>12. ts \in [0 .. N - 1 -> SlotType]
  <2>1. ts = [x \in 0 .. N - 1 |-> ts[x]]
    BY <1>2 DEF ts, MarkFree
  <2>2. \A x \in 0 .. N - 1 : ts[x] \in SlotType
    BY <1>10, <1>11
  <2>3. QED  BY <2>1, <2>2
<1>13. \A x \in Kept(sl, G) : x \in 0 .. N - 1 /\ x \notin H /\ x \notin row /\ ts[x] = sl[x]
  <2>1. \A x \in Kept(sl, G) : x \in 0 .. N - 1 /\ x \notin H /\ x \notin row
    BY <1>2 DEF Kept
  <2>2. QED  BY <1>11, <2>1
<1>14. \A x \in Kept(sl, G) : sl[x].file = f => sl[x].page \notin p .. p + n - 1
  <2>1. \A x \in Kept(c.slots, H) : c.slots[x].file = f => c.slots[x].page \notin p .. p + n - 1
    BY DEF Loose
  <2>2. QED  BY <1>1, <1>13, <2>1
<1>15. \A x \in 0 .. N - 1 : x \notin Kept(sl, G) /\ x \notin row => ts[x] = FreeSlot
  <2> SUFFICES ASSUME NEW x \in 0 .. N - 1, x \notin Kept(sl, G), x \notin row PROVE ts[x] = FreeSlot
    OBVIOUS
  <2>1. x \notin H => sl[x].free
    BY <1>2 DEF Kept
  <2>2. x \notin H => sl[x] = FreeSlot
    BY <1>2, <2>1 DEF Plain
  <2>3. QED  BY <1>11, <2>2
<1>16. /\ Parted(ts, {}) /\ Kept(ts, {}) = Kept(sl, G) \cup row
       /\ Heads(ts, {}) = Heads(sl, G) \cup {at} /\ RangeOf(ts, at) = row
       /\ Mapped(AddMaster(am, ts, at), ts, {})
  <2>1. Fresh(sl, G, ts, N, at, n, f, p)
    <3>1. \A x \in row : InRow(ts, at, n, f, p, x)
      BY <1>10
    <3>2. \A x \in Kept(sl, G) : ts[x] = sl[x] /\ (sl[x].file = f => sl[x].page \notin p .. p + n - 1)
      BY <1>13, <1>14
    <3>3. row \subseteq G
      OBVIOUS
    <3>4. QED  BY <1>1, <1>15, <3>1, <3>2, <3>3 DEF Fresh
  <2>2. QED  BY <1>1, <1>2, <1>12, <2>1, JoinRow
<1>17. t.slots = ts /\ t.addrmap = AddMaster(am, ts, at) /\ t.disk = r.disk
  BY <1>7
<1>18. Sound(t, N, {})
  BY <1>2, <1>7, <1>12, <1>16, <1>17 DEF Sound, Disks
<1>19. Joined(r, G, t, N, at, n, f, p)
  BY <1>10, <1>13, <1>16, <1>17, <1>18 DEF Joined, sl
<1>20. QED  BY <1>8, <1>10, <1>17, <1>19 DEF t, IsFilled

-----------------------------------------------------------------------------
\* Sums of equal mark counts are equal. By the least number of elements for
\* which they were not.
LEMMA SumsSame ==
  ASSUME NEW sl, NEW t, NEW S, IsFiniteSet(S), \A x \in S : sl[x].mark = t[x].mark,
         NEW h, Sums(sl, SUBSET S, h), NEW k, Sums(t, SUBSET S, k)
  PROVE  h[S] = k[S]
<1> DEFINE bad == {n \in Nat : \E s \in Small(S, n) : h[s] # k[s]}
<1>1. bad = {}
  <2> SUFFICES ASSUME bad # {} PROVE FALSE
    OBVIOUS
  <2>1. PICK n \in bad : \A i \in bad : n <= i
    <3>1. bad \subseteq Nat
      OBVIOUS
    <3> HIDE DEF bad
    <3>2. QED  BY <3>1, Least
  <2>2. PICK s \in Small(S, n) : h[s] # k[s]
    BY <2>1
  <2>3. n \in Nat /\ s \in SUBSET S
    BY <2>1 DEF Small
  <2>4. h[s] = SumStep(sl, h, s) /\ k[s] = SumStep(t, k, s)
    BY <2>3 DEF Sums
  <2>5. CASE s = {}
    BY <2>2, <2>4, <2>5 DEF SumStep
  <2>6. CASE s # {}
    <3> DEFINE x == CHOOSE x \in s : TRUE
               r == s \ {x}
    <3>1. n # 0
      <4>1. IsFiniteSet(s) /\ Cardinality(s) \in Nat /\ Cardinality(s) <= n /\ Cardinality(s) # 0
        BY <2>3, <2>6, FS_Subset, FS_CardinalityType, FS_EmptySet DEF Small
      <4>2. QED  BY <2>3, <4>1
    <3>2. n \in Nat \ {0} /\ n - 1 \in Nat /\ n - 1 \notin bad
      BY <2>1, <2>3, <3>1
    <3>3. x \in s /\ r \in Small(S, n - 1)
      BY <2>6, <3>2, SmallLess
    <3>4. h[r] = k[r]
      BY <3>2, <3>3
    <3>5. h[s] = sl[x].mark + h[r] /\ k[s] = t[x].mark + k[r]
      BY <2>4, <2>6 DEF SumStep
    <3>6. sl[x].mark = t[x].mark
      BY <2>3, <3>3
    <3>7. QED  BY <2>2, <3>4, <3>5, <3>6
  <2>7. QED  BY <2>5, <2>6
<1>2. Cardinality(S) \in Nat
  BY FS_CardinalityType
<1>3. S \in Small(S, Cardinality(S))
  BY <1>2 DEF Small
<1>4. QED  BY <1>1, <1>2, <1>3

\* Slots with equal mark counts have the same sum.
LEMMA MarkSumSame ==
  ASSUME NEW sl, NEW t, NEW S, IsFiniteSet(S), \A x \in S : sl[x].mark = t[x].mark
  PROVE  MarkSum(sl, S) = MarkSum(t, S)
<1>1. PICK h : Sums(sl, SUBSET S, h) /\ MarkSum(sl, S) = h[S]
  BY SumsExist, MarkSumIs
<1>2. PICK k : Sums(t, SUBSET S, k) /\ MarkSum(t, S) = k[S]
  BY SumsExist, MarkSumIs
<1>3. QED  BY <1>1, <1>2, SumsSame

-----------------------------------------------------------------------------
\* What is written in a slot is on disk.
Good(d, sl, x) == sl[x].data \in Values => sl[x].data = Stored(d, sl[x].file, sl[x].page)

\* What is in ranges without a mark is on disk.
CleanRows(sl, d, H) ==
  \A m \in Heads(sl, H) : sl[m].mark = 0 => \A x \in RangeOf(sl, m) : Good(d, sl, x)
\* What is in loose slots without a mark is on disk.
CleanLoose(sl, d, H) == \A x \in H : sl[x].mark = 0 => Good(d, sl, x)

\* A locked range is where it was.
Firm(sl, t) ==
  \A m \in DOMAIN sl : sl[m].lock > 0 =>
    m \in DOMAIN t /\ Key(t, m) = Key(sl, m) /\ t[m].masters = sl[m].masters /\ t[m].lock = sl[m].lock

\* A page reads as v, the slots of A not counted.
Shows(sl, d, A, f, p, v) ==
  /\ \A x \in Kept(sl, A) : sl[x].file = f /\ sl[x].page = p => sl[x].data = v
  /\ (\A x \in Kept(sl, A) : ~(sl[x].file = f /\ sl[x].page = p)) => Stored(d, f, p) = v

\* What was written in a page, but for some, still reads as it was.
Passes(sl, d, A, t, e, B, given) ==
  \A f \in Files, p \in Pages, v \in Values :
    <<f, p>> \notin given /\ Shows(sl, d, A, f, p, v) => Shows(t, e, B, f, p, v)

\* Locked ranges that stay in two steps stay in both.
LEMMA FirmTrans ==
  ASSUME NEW sl, NEW t, NEW u, Firm(sl, t), Firm(t, u)
  PROVE  Firm(sl, u)
  BY DEF Firm

\* What passes two steps passes both.
LEMMA PassesTrans ==
  ASSUME NEW sl, NEW d, NEW A, NEW t, NEW e, NEW B, NEW u, NEW g, NEW C, NEW given,
         Passes(sl, d, A, t, e, B, given), Passes(t, e, B, u, g, C, given)
  PROVE  Passes(sl, d, A, u, g, C, given)
  BY DEF Passes

\* More pages may be given up.
LEMMA PassesMore ==
  ASSUME NEW sl, NEW d, NEW A, NEW t, NEW e, NEW B, Passes(sl, d, A, t, e, B, {}), NEW given
  PROVE  Passes(sl, d, A, t, e, B, given)
  BY DEF Passes

\* Slots that are used hold different pages, also where some are loose.
LEMMA LooseOnce ==
  ASSUME NEW N \in Nat, NEW s, NEW H, Sound(s, N, H), NEW f, NEW p, NEW n, Asked(f, p, n),
         Loose(s.slots, H, f, p, n)
  PROVE  /\ Once(s.slots, {})
         /\ \A x \in Kept(s.slots, {}) : s.slots[x].file \in Files /\ s.slots[x].page \in Pages
<1> DEFINE sl == s.slots
<1>1. sl \in [0 .. N - 1 -> SlotType] /\ Once(sl, H) /\ Plain(sl, H)
  BY DEF Sound, Parted
<1>2. /\ \A x \in H : sl[x].file = f /\ sl[x].page \in p .. p + n - 1
      /\ \A x, y \in H : sl[x].page = sl[y].page => x = y
      /\ \A x \in Kept(sl, H) : sl[x].file = f => sl[x].page \notin p .. p + n - 1
  BY DEF Loose
<1>3. f \in Files
  BY AskedTypes
<1> HIDE DEF sl
<1>4. \A x \in Kept(sl, {}) : x \in 0 .. N - 1 /\ x \in DOMAIN sl /\ (x \in H \/ x \in Kept(sl, H))
  BY <1>1 DEF Kept
<1>5. Once(sl, {})
  BY <1>1, <1>2, <1>4 DEF Once
<1>6. \A x \in Kept(sl, {}) : sl[x].file \in Files
  BY <1>1, <1>2, <1>3, <1>4 DEF Plain
<1>7. \A x \in Kept(sl, {}) : sl[x].page \in Pages
  BY <1>1, <1>4, Fields
<1>8. QED  BY <1>5, <1>6, <1>7 DEF sl

\* Cutting ranges loses no mark and no contents, and moves no locked range.
LEMMA ProcessKeeps ==
  ASSUME NEW N \in Nat, NEW s, Sound(s, N, {}), NEW f, NEW p, NEW n, Asked(f, p, n),
         \A m \in Overlapping(s, f, p, n) : s.slots[m].lock = 0
  PROVE  LET c == ProcessOverlaps(s, f, p, n)
             H == Common(s, f, p, n)
         IN  /\ CleanRows(s.slots, s.disk, {}) =>
                  CleanRows(c.slots, c.disk, H) /\ CleanLoose(c.slots, c.disk, H)
             /\ Firm(s.slots, c.slots)
             /\ Passes(s.slots, s.disk, {}, c.slots, c.disk, {}, {})
<1> DEFINE sl == s.slots
           c == ProcessOverlaps(s, f, p, n)
           t == c.slots
           H == Common(s, f, p, n)
           over == Overlapping(s, f, p, n)
           behind == Behind(s, f, p, n)
           Own(x) == Master(sl, x)
<1>1. /\ sl \in [0 .. N - 1 -> SlotType] /\ Rows(sl, {}) /\ Owned(sl, {}) /\ Plain(sl, {})
  BY DEF Sound, Parted
<1>2. t = CutSlots(s, f, p, n) /\ c.disk = s.disk /\ Sound(c, N, H)
  BY ProcessSound
<1>3. /\ t \in [0 .. N - 1 -> SlotType] /\ Kept(t, H) = Kept(sl, {}) \ H
      /\ \A m \in Heads(t, H) : \A x \in RangeOf(t, m) : t[m].mark = sl[Own(x)].mark
      /\ Rows(t, H)
  BY <1>2, CutParted DEF Parted
<1>4. \A x \in 0 .. N - 1 :
        /\ t[x].free = sl[x].free /\ t[x].file = sl[x].file /\ t[x].page = sl[x].page
        /\ t[x].lock = sl[x].lock /\ t[x].data = sl[x].data
        /\ x \in H => t[x].mark = sl[Own(x)].mark
        /\ x \notin H /\ x \notin behind /\ x \notin over => t[x] = sl[x]
  <2>1. \A x \in 0 .. N - 1 : IsCut(s, f, p, n, t, x)
    BY <1>2, CutFields
  <2>2. QED  BY <2>1 DEF IsCut
<1>5. H \subseteq Kept(sl, {}) /\ \A x \in H : Own(x) \in over
  BY CommonSet
<1>6. \A x \in behind : sl[x].masters = 0
  BY BehindSet
<1>7. \A m \in over : sl[m].lock = 0
  OBVIOUS
<1> HIDE DEF sl, c, t, H, over, behind
<1>8. Kept(sl, {}) \subseteq 0 .. N - 1 /\ Kept(t, H) \subseteq 0 .. N - 1
  BY <1>1, <1>3 DEF Kept
<1>9. ASSUME NEW x \in Kept(sl, {}), CleanRows(sl, s.disk, {}), sl[Own(x)].mark = 0 PROVE Good(c.disk, t, x)
  <2>1. Own(x) \in Heads(sl, {}) /\ x \in RangeOf(sl, Own(x))
    BY <1>1, Owner
  <2>2. Good(s.disk, sl, x)
    BY <1>9, <2>1 DEF CleanRows
  <2>3. QED  BY <1>2, <1>4, <1>8, <2>2 DEF Good
<1>10. CleanRows(sl, s.disk, {}) => CleanRows(t, c.disk, H)
  <2> SUFFICES ASSUME CleanRows(sl, s.disk, {}), NEW m \in Heads(t, H), t[m].mark = 0, NEW x \in RangeOf(t, m)
               PROVE  Good(c.disk, t, x)
    BY DEF CleanRows
  <2>1. x \in Kept(sl, {})
    BY <1>3 DEF Rows
  <2>2. QED  BY <1>3, <1>9, <2>1
<1>11. CleanRows(sl, s.disk, {}) => CleanLoose(t, c.disk, H)
  BY <1>4, <1>5, <1>8, <1>9 DEF CleanLoose
<1>12. Firm(sl, t)
  <2> SUFFICES ASSUME NEW m \in 0 .. N - 1, sl[m].lock > 0 PROVE t[m] = sl[m]
    BY <1>1, <1>3 DEF Firm, Key
  <2>1. m \in Heads(sl, {}) /\ Own(m) = m /\ sl[m].masters > 0
    <3>1. m \in Heads(sl, {})
      BY <1>1 DEF Plain
    <3>2. QED  BY <1>1, <3>1, HeadIn, OwnerIs DEF Heads
  <2>2. m \notin over /\ m \notin H /\ m \notin behind
    BY <1>5, <1>6, <1>7, <2>1
  <2>3. QED  BY <1>4, <2>2
<1>13. Passes(sl, s.disk, {}, t, c.disk, {}, {})
  <2>1. Kept(t, {}) = Kept(sl, {})
    BY <1>1, <1>3, <1>4 DEF Kept
  <2>2. QED  BY <1>2, <1>4, <1>8, <2>1 DEF Passes, Shows
<1>14. QED  BY <1>10, <1>11, <1>12, <1>13 DEF c, t, sl, H

-----------------------------------------------------------------------------
\* Clearing a place for a range writes what was marked there, so that nothing
\* is lost, and moves no locked range.
LEMMA MakeKeeps ==
  ASSUME NEW N \in Nat, NEW s, NEW H, Sound(s, N, H), NEW n \in Nat, n > 0, n <= MaxCount,
         \A x \in H : x \in DOMAIN s.slots /\ ~s.slots[x].free,
         NEW at \in Places(s, n, H), Once(s.slots, {}),
         \A x \in Kept(s.slots, {}) : s.slots[x].file \in Files /\ s.slots[x].page \in Pages
  PROVE  LET r == MakeRange(s, at, n)
             row == at .. at + n - 1
         IN  /\ CleanRows(s.slots, s.disk, H) =>
                  /\ CleanRows(r.slots, r.disk, H \cup row)
                  /\ CleanLoose(s.slots, s.disk, H) => CleanLoose(r.slots, r.disk, H)
                  /\ Passes(s.slots, s.disk, {}, r.slots, r.disk, row, {})
             /\ Firm(s.slots, r.slots)
             /\ \A g \in Files : Len(r.disk[g]) >= Len(s.disk[g])
<1> DEFINE sl == s.slots
           d == s.disk
           r == MakeRange(s, at, n)
           t == r.slots
           e == r.disk
           row == at .. at + n - 1
           G == H \cup row
           S == Spilled(sl, at, n)
           Own(x) == Master(sl, x)
<1>1. /\ sl \in [0 .. N - 1 -> SlotType] /\ Rows(sl, H) /\ Owned(sl, H) /\ Plain(sl, H)
      /\ d \in Disks
  BY DEF Sound, Parted, Disks
<1>2. /\ Made(s, H, r, N, at, n) /\ e = DumpSlots(d, sl, S) /\ S \subseteq Kept(sl, H)
  BY MakeSound
<1>3. /\ H \cap row = {} /\ Kept(t, G) = Kept(sl, H) \ row /\ row \subseteq 0 .. N - 1
      /\ \A x \in 0 .. N - 1 : x \notin row =>
           /\ t[x].free = sl[x].free /\ t[x].file = sl[x].file /\ t[x].page = sl[x].page /\ t[x].data = sl[x].data
           /\ x \in H \/ sl[x].lock > 0 => t[x] = sl[x]
      /\ \A x \in row : sl[x].lock = 0
      /\ \A m \in Heads(t, G) : \A x \in RangeOf(t, m) : t[m].mark = sl[Own(x)].mark
  <2>1. Made(s, H, r, N, at, n)
    BY <1>2
  <2>2. H \cap row = {} /\ Kept(t, G) = Kept(sl, H) \ row
    BY <2>1 DEF Made
  <2>3. at \in Nat /\ (at + n) - 1 \in 0 .. N - 1 /\ \A x \in row : sl[x].lock = 0
    BY <2>1 DEF Made
  <2>4. \A x \in 0 .. N - 1 : x \notin row =>
           /\ t[x].free = sl[x].free /\ t[x].file = sl[x].file /\ t[x].page = sl[x].page /\ t[x].data = sl[x].data
           /\ x \in H \/ sl[x].lock > 0 => t[x] = sl[x]
    BY <2>1 DEF Made
  <2>5. \A m \in Heads(t, G) : \A x \in RangeOf(t, m) : t[m].mark = sl[Own(x)].mark
    BY <2>1 DEF Made
  <2>6. row \subseteq 0 .. N - 1
    BY <2>3
  <2>7. QED  BY <2>2, <2>3, <2>4, <2>5, <2>6
<1>4. t \in [0 .. N - 1 -> SlotType] /\ Rows(t, G)
  BY <1>2 DEF Made, Sound, Parted
<1>5. S = {x \in row : ~sl[x].free /\ sl[Own(x)].mark > 0}
  BY DEF Spilled
<1>6. \A x, y \in Kept(sl, {}) : sl[x].file = sl[y].file /\ sl[x].page = sl[y].page => x = y
  BY DEF Once
<1>7. \A x \in Kept(sl, {}) : sl[x].file \in Files /\ sl[x].page \in Pages /\ sl[x].page \in Nat
  <2>1. Pages \subseteq Nat
    BY DEF Pages
  <2>2. QED  BY <2>1
<1>8. \A x \in H : x \in 0 .. N - 1 /\ ~sl[x].free
  BY <1>1
<1> HIDE DEF sl, d, r, t, e, S
<1>9. Kept(sl, {}) = {x \in 0 .. N - 1 : ~sl[x].free} /\ Kept(sl, H) \subseteq Kept(sl, {}) /\ H \subseteq Kept(sl, {})
  BY <1>1, <1>8 DEF Kept
<1>10. /\ \A g \in Files : Len(e[g]) >= Len(d[g])
       /\ \A x \in S : Stored(e, sl[x].file, sl[x].page) = sl[x].data
       /\ \A g \in Files, q \in Nat :
            /\ \A x \in S : ~ (sl[x].file = g /\ sl[x].page = q)
            /\ Stored(d, g, q) \in Values
            => Stored(e, g, q) = Stored(d, g, q)
  <2>1. S \subseteq Kept(sl, {}) /\ S \subseteq 0 .. N - 1
    BY <1>2, <1>9
  <2>2. \A x, y \in S : sl[x].file = sl[y].file /\ sl[x].page = sl[y].page => x = y
    BY <1>6, <2>1
  <2>3. \A x \in S : sl[x].file \in Files
    BY <1>7, <2>1
  <2>4. DumpSlots(d, sl, S) = e
    BY <1>2
  <2> HIDE DEF S
  <2>5. IsWritten(d, sl, S, DumpSlots(d, sl, S))
    BY <1>1, <2>1, <2>2, <2>3, Dumped
  <2>6. QED  BY <2>4, <2>5 DEF IsWritten
<1>11. ASSUME NEW x \in Kept(sl, {}), x \notin row, Good(d, sl, x) PROVE Good(e, t, x)
  <2>1. \A y \in S : ~ (sl[y].file = sl[x].file /\ sl[y].page = sl[x].page)
    BY <1>2, <1>5, <1>6, <1>9, <1>11
  <2>2. x \in 0 .. N - 1
    BY <1>9
  <2>3. t[x].file = sl[x].file /\ t[x].page = sl[x].page /\ t[x].data = sl[x].data
    BY <1>3, <1>11, <2>2
  <2>4. QED  BY <1>7, <1>10, <1>11, <2>1, <2>3 DEF Good
<1>12. ASSUME CleanRows(sl, d, H), NEW x \in Kept(sl, H), sl[Own(x)].mark = 0 PROVE Good(d, sl, x)
  <2>1. Own(x) \in Heads(sl, H) /\ x \in RangeOf(sl, Own(x))
    BY <1>1, Owner
  <2>2. QED  BY <1>12, <2>1 DEF CleanRows
<1>13. CleanRows(sl, d, H) => CleanRows(t, e, G)
  <2> SUFFICES ASSUME CleanRows(sl, d, H), NEW m \in Heads(t, G), t[m].mark = 0, NEW x \in RangeOf(t, m)
               PROVE  Good(e, t, x)
    BY DEF CleanRows
  <2>1. x \in Kept(sl, H) /\ x \notin row
    BY <1>3, <1>4 DEF Rows
  <2>2. QED  BY <1>3, <1>9, <1>11, <1>12, <2>1
<1>14. CleanLoose(sl, d, H) => CleanLoose(t, e, H)
  <2> SUFFICES ASSUME CleanLoose(sl, d, H), NEW x \in H, t[x].mark = 0 PROVE Good(e, t, x)
    BY DEF CleanLoose
  <2>1. x \in 0 .. N - 1 /\ x \notin row /\ x \in Kept(sl, {})
    BY <1>3, <1>8, <1>9
  <2>2. t[x] = sl[x]
    BY <1>3, <2>1
  <2>3. Good(d, sl, x)
    BY <2>2 DEF CleanLoose
  <2>4. QED  BY <1>11, <2>1, <2>3
<1>15. Firm(sl, t)
  <2>1. \A m \in 0 .. N - 1 : sl[m].lock > 0 => m \notin row
    BY <1>3
  <2>2. \A m \in 0 .. N - 1 : sl[m].lock > 0 => t[m] = sl[m]
    BY <1>3, <2>1
  <2>3. DOMAIN t = 0 .. N - 1 /\ DOMAIN sl = 0 .. N - 1
    BY <1>1, <1>4
  <2>4. QED  BY <2>2, <2>3 DEF Firm, Key
<1>16. Kept(t, row) = Kept(sl, {}) \ row
  <2>1. DOMAIN t = 0 .. N - 1
    BY <1>4
  <2>2. QED  BY <1>3, <1>9, <2>1 DEF Kept
<1>17. CleanRows(sl, d, H) => Passes(sl, d, {}, t, e, row, {})
  <2> SUFFICES ASSUME CleanRows(sl, d, H), NEW f \in Files, NEW p \in Pages, NEW v \in Values, Shows(sl, d, {}, f, p, v)
               PROVE  Shows(t, e, row, f, p, v)
    BY DEF Passes
  <2>1. \A x \in Kept(t, row) : /\ x \in Kept(sl, {}) /\ x \notin row
                                /\ t[x].file = sl[x].file /\ t[x].page = sl[x].page /\ t[x].data = sl[x].data
    BY <1>3, <1>9, <1>16
  <2>2. \A x \in Kept(t, row) : t[x].file = f /\ t[x].page = p => t[x].data = v
    BY <2>1 DEF Shows
  <2>3. ASSUME \A x \in Kept(t, row) : ~(t[x].file = f /\ t[x].page = p)
        PROVE  Stored(e, f, p) = v
    <3>1. p \in Nat
      BY DEF Pages
    <3>2. CASE \E x \in Kept(sl, {}) : sl[x].file = f /\ sl[x].page = p
      <4>1. PICK x \in Kept(sl, {}) : sl[x].file = f /\ sl[x].page = p
        BY <3>2
      <4>2. sl[x].data = v
        BY <4>1 DEF Shows
      <4>3. x \in row /\ ~sl[x].free
        BY <1>9, <1>16, <2>1, <2>3, <4>1
      <4>4. x \notin H /\ x \in Kept(sl, H)
        BY <1>1, <1>3, <4>3 DEF Kept
      <4>5. CASE x \in S
        BY <1>10, <4>1, <4>2, <4>5
      <4>6. CASE x \notin S
        <5>1. ~ (sl[Own(x)].mark > 0)
          BY <1>5, <4>3, <4>6
        <5>2. Own(x) \in 0 .. N - 1
          BY <1>1, <4>4, Owner, HeadIn
        <5>3. sl[Own(x)].mark = 0
          <6>1. sl[Own(x)].mark \in Nat
            BY <1>1, <5>2, Fields
          <6>2. QED  BY <5>1, <6>1
        <5>4. Good(d, sl, x)
          BY <1>12, <4>4, <5>3
        <5>5. Stored(d, f, p) = v
          BY <4>1, <4>2, <5>4 DEF Good
        <5>6. \A y \in S : ~ (sl[y].file = f /\ sl[y].page = p)
          BY <1>2, <1>6, <1>9, <4>1, <4>6
        <5>7. QED  BY <1>10, <3>1, <5>5, <5>6
      <4>7. QED  BY <4>5, <4>6
    <3>3. CASE ~ \E x \in Kept(sl, {}) : sl[x].file = f /\ sl[x].page = p
      <4>1. Stored(d, f, p) = v
        BY <3>3 DEF Shows
      <4>2. \A y \in S : ~ (sl[y].file = f /\ sl[y].page = p)
        BY <1>2, <1>9, <3>3
      <4>3. QED  BY <1>10, <3>1, <4>1, <4>2
    <3>4. QED  BY <3>2, <3>3
  <2>4. QED  BY <2>2, <2>3 DEF Shows
<1>18. QED  BY <1>10, <1>13, <1>14, <1>15, <1>17 DEF t, e, r, sl, d

-----------------------------------------------------------------------------
\* What is kept when a new range takes the place of loose slots.
JoinedKeeps(r, G, t, at, n, f, p) ==
  /\ /\ CleanRows(r.slots, r.disk, G)
     /\ t.slots[at].mark = 0 => \A x \in at .. at + n - 1 : Good(t.disk, t.slots, x)
     => CleanRows(t.slots, t.disk, {})
  /\ Firm(r.slots, t.slots)
  /\ \A A, given :
       /\ A \subseteq G
       /\ \A x \in G \ A : r.slots[x].file = f /\ r.slots[x].page \in p .. p + n - 1
       /\ \A x \in at .. at + n - 1, v \in Values :
            <<f, t.slots[x].page>> \notin given /\ Shows(r.slots, r.disk, A, f, t.slots[x].page, v)
            => t.slots[x].data = v
       => Passes(r.slots, r.disk, A, t.slots, t.disk, {}, given)

\* A new range in place of loose slots shows of each page what they showed.
LEMMA JoinKeeps ==
  ASSUME NEW N \in Nat, NEW r, NEW G, Sound(r, N, G), NEW f, NEW p, NEW n, Asked(f, p, n),
         NEW at \in Nat, NEW t, Joined(r, G, t, N, at, n, f, p), t.disk = r.disk
  PROVE  JoinedKeeps(r, G, t, at, n, f, p)
<1> DEFINE sl == r.slots
           ts == t.slots
           d == r.disk
           row == at .. at + n - 1
<1>1. sl \in [0 .. N - 1 -> SlotType] /\ Rows(sl, G) /\ Plain(sl, G)
  BY DEF Sound, Parted
<1>2. /\ ts \in [0 .. N - 1 -> SlotType]
      /\ Kept(ts, {}) = Kept(sl, G) \cup row
      /\ Heads(ts, {}) = Heads(sl, G) \cup {at} /\ RangeOf(ts, at) = row
      /\ \A x \in Kept(sl, G) : ts[x] = sl[x]
      /\ \A x \in row : ts[x].file = f /\ ts[x].page = (p + x) - at
  BY DEF Joined, InRow, Sound
<1>3. p \in Nat /\ n \in Nat /\ n > 0
  BY AskedTypes
<1>4. t.disk = d
  OBVIOUS
<1> HIDE DEF sl, ts, d
<1>5. ASSUME CleanRows(sl, d, G), ts[at].mark = 0 => \A x \in row : Good(d, ts, x)
      PROVE  CleanRows(ts, d, {})
  <2> SUFFICES ASSUME NEW m \in Heads(ts, {}), ts[m].mark = 0, NEW x \in RangeOf(ts, m) PROVE Good(d, ts, x)
    BY DEF CleanRows
  <2>1. CASE m = at
    BY <1>2, <1>5, <2>1
  <2>2. CASE m \in Heads(sl, G)
    <3>1. ts[m] = sl[m]
      BY <1>2, <2>2 DEF Heads
    <3>2. x \in RangeOf(sl, m)
      BY <3>1 DEF RangeOf
    <3>3. ts[x] = sl[x]
      BY <1>1, <1>2, <2>2, <3>2 DEF Rows
    <3>4. Good(d, sl, x)
      BY <1>5, <2>2, <3>1, <3>2 DEF CleanRows
    <3>5. QED  BY <3>3, <3>4 DEF Good
  <2>3. QED  BY <1>2, <2>1, <2>2
<1>6. Firm(sl, ts)
  <2>1. \A m \in 0 .. N - 1 : sl[m].lock > 0 => ts[m] = sl[m]
    BY <1>1, <1>2 DEF Plain, Heads
  <2>2. DOMAIN sl = 0 .. N - 1 /\ DOMAIN ts = 0 .. N - 1
    BY <1>1, <1>2
  <2>3. QED  BY <2>1, <2>2 DEF Firm, Key
<1>7. ASSUME NEW A, NEW given, A \subseteq G,
             \A x \in G \ A : sl[x].file = f /\ sl[x].page \in p .. p + n - 1,
             \A x \in row, v \in Values :
               <<f, ts[x].page>> \notin given /\ Shows(sl, d, A, f, ts[x].page, v) => ts[x].data = v
      PROVE  Passes(sl, d, A, ts, d, {}, given)
  <2> SUFFICES ASSUME NEW g \in Files, NEW q \in Pages, NEW v \in Values, <<g, q>> \notin given,
                      Shows(sl, d, A, g, q, v)
               PROVE  Shows(ts, d, {}, g, q, v)
    BY DEF Passes
  <2>1. Kept(sl, G) \subseteq Kept(sl, A)
    BY <1>7 DEF Kept
  <2>2. ASSUME NEW x \in Kept(ts, {}), ts[x].file = g, ts[x].page = q PROVE ts[x].data = v
    <3>1. CASE x \in Kept(sl, G)
      BY <1>2, <2>1, <2>2, <3>1 DEF Shows
    <3>2. CASE x \in row
      BY <1>2, <1>7, <2>2, <3>2
    <3>3. QED  BY <1>2, <3>1, <3>2
  <2>3. ASSUME \A x \in Kept(ts, {}) : ~(ts[x].file = g /\ ts[x].page = q) PROVE Stored(d, g, q) = v
    <3>1. ~ (g = f /\ q \in p .. p + n - 1)
      <4> SUFFICES ASSUME g = f, q \in p .. p + n - 1 PROVE FALSE
        OBVIOUS
      <4> DEFINE x == (at + q) - p
      <4>1. x \in row /\ (p + x) - at = q
        BY <1>3
      <4> HIDE DEF x
      <4>2. QED  BY <1>2, <2>3, <4>1
    <3>2. \A x \in Kept(sl, A) : ~(sl[x].file = g /\ sl[x].page = q)
      <4> SUFFICES ASSUME NEW x \in Kept(sl, A), sl[x].file = g, sl[x].page = q PROVE FALSE
        OBVIOUS
      <4>1. x \in Kept(sl, G) \/ x \in G \ A
        BY DEF Kept
      <4>2. CASE x \in Kept(sl, G)
        BY <1>2, <2>3, <4>2
      <4>3. CASE x \in G \ A
        BY <1>7, <3>1, <4>3
      <4>4. QED  BY <4>1, <4>2, <4>3
    <3>3. QED  BY <3>2 DEF Shows
  <2>4. QED  BY <2>2, <2>3 DEF Shows
<1>8. QED  BY <1>4, <1>5, <1>6, <1>7 DEF sl, ts, d, JoinedKeeps

-----------------------------------------------------------------------------
\* What a call keeps.
Steps(s, t, given) ==
  /\ Firm(s.slots, t.slots)
  /\ \A g \in Files : Len(t.disk[g]) >= Len(s.disk[g])
  /\ CleanRows(s.slots, s.disk, {}) => Passes(s.slots, s.disk, {}, t.slots, t.disk, {}, given)

-----------------------------------------------------------------------------
\* The result of a request: a range at `at` for the pages asked for, the last
\* of them possibly given another contents.
Serves(s, t, N, at, f, p, n, given) ==
  /\ Sound(t, N, {})
  /\ Steps(s, t, given)
  /\ at \in Heads(t.slots, {}) /\ RangeOf(t.slots, at) = at .. at + n - 1
  /\ \A x \in at .. at + n - 1 : InRow(t.slots, at, n, f, p, x)

\* A request whose pages are cached in a row is served, and no mark is lost
\* unless the sum of the counts wraps.
LEMMA JoinRequest ==
  ASSUME NEW N \in Nat, NEW s, Sound(s, N, {}), NEW f, NEW p, NEW n, Asked(f, p, n),
         \A m \in Overlapping(s, f, p, n) : s.slots[m].lock = 0,
         Uninterrupted(s.slots, Common(s, f, p, n), n)
  PROVE  LET H == Common(s, f, p, n)
             c == ProcessOverlaps(s, f, p, n)
             t == Assemble(c, H)
         IN  /\ Serves(s, t, N, Min(H), f, p, n, {})
             /\ CleanRows(s.slots, s.disk, {}) /\ MarkSum(c.slots, H) < MarkMod
                => CleanRows(t.slots, t.disk, {})
<1> DEFINE H == Common(s, f, p, n)
           c == ProcessOverlaps(s, f, p, n)
           t == Assemble(c, H)
           at == Min(H)
           cs == c.slots
           ts == t.slots
           sum == MarkSum(cs, H)
<1>1. Sound(c, N, H) /\ c.disk = s.disk /\ Loose(cs, H, f, p, n) /\ cs = CutSlots(s, f, p, n)
  BY ProcessSound
<1>2. /\ CleanRows(s.slots, s.disk, {}) => CleanRows(cs, c.disk, H) /\ CleanLoose(cs, c.disk, H)
      /\ Firm(s.slots, cs)
      /\ Passes(s.slots, s.disk, {}, cs, c.disk, {}, {})
  BY ProcessKeeps
<1>3. H \subseteq 0 .. N - 1 /\ s.slots \in [0 .. N - 1 -> SlotType]
  <2>1. s.slots \in [0 .. N - 1 -> SlotType] /\ H \subseteq Kept(s.slots, {})
    BY CommonSet DEF Sound
  <2>2. QED  BY <2>1 DEF Kept
<1>4. Uninterrupted(cs, H, n)
  <2>1. \A x \in 0 .. N - 1 : cs[x].page = s.slots[x].page
    <3>1. \A x \in 0 .. N - 1 : IsCut(s, f, p, n, cs, x)
      BY <1>1, CutFields
    <3> HIDE DEF cs
    <3>2. QED  BY <3>1 DEF IsCut
  <2>2. QED  BY <1>3, <2>1 DEF Uninterrupted
<1> HIDE DEF H, c
<1>5. /\ at \in Nat /\ H = at .. at + n - 1
      /\ Joined(c, H, t, N, at, n, f, p)
      /\ t.disk = c.disk /\ ts[at].mark = Carried(cs, H)
      /\ \A x \in H : ts[x].data = cs[x].data /\ ts[x].page = cs[x].page /\ ts[x].file = cs[x].file
  BY <1>1, <1>4, AssembleSound
<1> HIDE DEF t, cs, ts, at
<1>6. IsFiniteSet(H) /\ \A x \in H : cs[x].mark \in Nat
  <2>1. cs \in [0 .. N - 1 -> SlotType]
    BY <1>1 DEF Sound, cs
  <2>2. QED  BY <1>3, <2>1, FiniteSlots, Fields
<1>7. /\ CleanRows(cs, c.disk, H) /\ (ts[at].mark = 0 => \A x \in at .. at + n - 1 : Good(t.disk, ts, x))
            => CleanRows(ts, t.disk, {})
      /\ Firm(cs, ts)
      /\ \A A, given :
              /\ A \subseteq H
              /\ \A x \in H \ A : cs[x].file = f /\ cs[x].page \in p .. p + n - 1
              /\ \A x \in at .. at + n - 1, v \in Values :
                   <<f, ts[x].page>> \notin given /\ Shows(cs, c.disk, A, f, ts[x].page, v)
                   => ts[x].data = v
              => Passes(cs, c.disk, A, ts, t.disk, {}, given)
  <2>1. JoinedKeeps(c, H, t, at, n, f, p)
    BY <1>1, <1>5, JoinKeeps
  <2>2. QED  BY <2>1 DEF JoinedKeeps, cs, ts
<1>8. ASSUME CleanRows(s.slots, s.disk, {}), sum < MarkMod PROVE CleanRows(ts, t.disk, {})
  <2>1. CleanRows(cs, c.disk, H) /\ CleanLoose(cs, c.disk, H)
    BY <1>2, <1>8
  <2>2. ASSUME ts[at].mark = 0, NEW x \in at .. at + n - 1 PROVE Good(t.disk, ts, x)
    <3>1. x \in H /\ cs[x].mark = 0
      BY <1>5, <1>6, <1>8, <2>2, CarriedFits
    <3>2. Good(c.disk, cs, x)
      BY <2>1, <3>1 DEF CleanLoose
    <3>3. QED  BY <1>5, <3>1, <3>2 DEF Good
  <2>3. QED  BY <1>7, <2>1, <2>2
<1>9. \A x \in H : x \in Kept(cs, {}) /\ cs[x].file = f /\ cs[x].page \in p .. p + n - 1
  BY <1>1 DEF Loose, Kept
<1>10. Passes(cs, c.disk, {}, ts, t.disk, {}, {})
  <2>1. \A x \in at .. at + n - 1, v \in Values : Shows(cs, c.disk, {}, f, ts[x].page, v) => ts[x].data = v
    BY <1>5, <1>9 DEF Shows
  <2>2. QED  BY <1>7, <1>9, <2>1
<1>11. Steps(s, t, {})
  <2>1. Firm(s.slots, ts)
    BY <1>2, <1>7, FirmTrans
  <2>2. Passes(s.slots, s.disk, {}, ts, t.disk, {}, {})
    BY <1>2, <1>10, PassesTrans
  <2>3. \A g \in Files : Len(t.disk[g]) >= Len(s.disk[g])
    <3>1. \A g \in Files : Len(s.disk[g]) \in Nat
      BY DEF Sound
    <3>2. QED  BY <1>1, <1>5, <3>1
  <2>4. QED  BY <2>1, <2>2, <2>3 DEF Steps, ts
<1>12. Serves(s, t, N, at, f, p, n, {})
  BY <1>5, <1>11 DEF Joined, Serves
<1>13. QED  BY <1>8, <1>12 DEF ts, t, at, c, H, cs

-----------------------------------------------------------------------------
\* A place is made for a request, whose pages are cached in loose slots or not
\* at all.
Ready(s, c, H, r, N, at, n, f, p) ==
  /\ Made(c, H, r, N, at, n) /\ Loose(c.slots, H, f, p, n) /\ Sound(c, N, H)
  /\ CleanRows(s.slots, s.disk, {}) =>
       /\ CleanRows(r.slots, r.disk, H \cup (at .. at + n - 1)) /\ CleanLoose(r.slots, r.disk, H)
       /\ Passes(s.slots, s.disk, {}, r.slots, r.disk, at .. at + n - 1, {})
  /\ Firm(s.slots, r.slots)
  /\ \A g \in Files : Len(r.disk[g]) >= Len(s.disk[g])
  /\ H \subseteq 0 .. N - 1 /\ MarkSum(r.slots, H) = MarkSum(c.slots, H)
  /\ \A y \in H : /\ y \in Kept(r.slots, at .. at + n - 1)
                  /\ r.slots[y].file = f /\ r.slots[y].page \in p .. p + n - 1
  /\ \A x, y \in H : r.slots[x].page = r.slots[y].page => x = y
  /\ \A y \in Kept(r.slots, at .. at + n - 1) :
       y \in H \/ (r.slots[y].file = f => r.slots[y].page \notin p .. p + n - 1)

\* A place is made for a request, with the pages that are cached still in loose
\* slots.
LEMMA MakeRequest ==
  ASSUME NEW N \in Nat, NEW s, Sound(s, N, {}), NEW f, NEW p, NEW n, Asked(f, p, n),
         \A m \in Overlapping(s, f, p, n) : s.slots[m].lock = 0,
         NEW at \in Places(ProcessOverlaps(s, f, p, n), n, Common(s, f, p, n))
  PROVE  LET H == Common(s, f, p, n)
             c == ProcessOverlaps(s, f, p, n)
         IN  Ready(s, c, H, MakeRange(c, at, n), N, at, n, f, p)
<1> DEFINE H == Common(s, f, p, n)
           c == ProcessOverlaps(s, f, p, n)
           r == MakeRange(c, at, n)
           row == at .. at + n - 1
           cs == c.slots
           rs == r.slots
<1>1. Sound(c, N, H) /\ c.disk = s.disk /\ Loose(cs, H, f, p, n)
  BY ProcessSound
<1>2. /\ CleanRows(s.slots, s.disk, {}) => CleanRows(cs, c.disk, H) /\ CleanLoose(cs, c.disk, H)
      /\ Firm(s.slots, cs)
      /\ Passes(s.slots, s.disk, {}, cs, c.disk, {}, {})
  BY ProcessKeeps
<1>3. n \in Nat /\ n > 0 /\ n <= MaxCount
  BY AskedTypes
<1>4. at \in Places(c, n, H)
  OBVIOUS
<1>5. \A g \in Files : Len(s.disk[g]) \in Nat
  BY DEF Sound
<1> HIDE DEF H, c
<1>6. \A x \in H : x \in DOMAIN c.slots /\ ~c.slots[x].free
  BY <1>1 DEF Loose
<1>7. Made(c, H, r, N, at, n)
  BY <1>1, <1>3, <1>4, <1>6, MakeSound
<1>8. Once(c.slots, {}) /\ \A x \in Kept(c.slots, {}) : c.slots[x].file \in Files /\ c.slots[x].page \in Pages
  BY <1>1, LooseOnce
<1>9. /\ CleanRows(c.slots, c.disk, H) =>
                  /\ CleanRows(r.slots, r.disk, H \cup row)
                  /\ CleanLoose(c.slots, c.disk, H) => CleanLoose(r.slots, r.disk, H)
                  /\ Passes(c.slots, c.disk, {}, r.slots, r.disk, row, {})
      /\ Firm(c.slots, r.slots)
      /\ \A g \in Files : Len(r.disk[g]) >= Len(c.disk[g])
  BY <1>1, <1>3, <1>4, <1>6, <1>8, MakeKeeps
<1> HIDE DEF r, cs, rs
<1>10. /\ H \cap row = {} /\ cs \in [0 .. N - 1 -> SlotType] /\ rs \in [0 .. N - 1 -> SlotType]
       /\ \A x \in 0 .. N - 1 : x \notin row =>
           /\ rs[x].free = cs[x].free /\ rs[x].file = cs[x].file /\ rs[x].page = cs[x].page
           /\ x \in H => rs[x] = cs[x]
  <2>1. cs \in [0 .. N - 1 -> SlotType]
    BY <1>1 DEF Sound, cs
  <2>2. H \cap row = {} /\ rs \in [0 .. N - 1 -> SlotType]
    BY <1>7 DEF Made, Sound, rs
  <2>3. \A x \in 0 .. N - 1 : x \notin row =>
           /\ rs[x].free = cs[x].free /\ rs[x].file = cs[x].file /\ rs[x].page = cs[x].page
           /\ x \in H => rs[x] = cs[x]
    BY <1>7 DEF Made, rs, cs
  <2>4. QED  BY <2>1, <2>2, <2>3
<1>11. \A x \in H : x \in 0 .. N - 1 /\ ~cs[x].free /\ cs[x].file = f /\ cs[x].page \in p .. p + n - 1
  BY <1>1, <1>10 DEF Loose
<1>12. \A x \in H : x \notin row /\ rs[x] = cs[x]
  BY <1>10, <1>11
<1>13. \A y \in H : y \in Kept(rs, row) /\ rs[y].file = f /\ rs[y].page \in p .. p + n - 1
  <2>1. DOMAIN rs = 0 .. N - 1
    BY <1>10
  <2>2. QED  BY <1>11, <1>12, <2>1 DEF Kept
<1>14. \A x, y \in H : rs[x].page = rs[y].page => x = y
  BY <1>1, <1>12 DEF Loose
<1>15. ASSUME NEW y \in Kept(rs, row), y \notin H, rs[y].file = f PROVE rs[y].page \notin p .. p + n - 1
  <2>1. y \in 0 .. N - 1 /\ y \notin row /\ ~rs[y].free
    BY <1>10 DEF Kept
  <2>2. y \in Kept(cs, H)
    BY <1>10, <1>15, <2>1 DEF Kept
  <2>3. QED  BY <1>1, <1>10, <1>15, <2>1, <2>2 DEF Loose
<1>16. MarkSum(rs, H) = MarkSum(cs, H)
  <2>1. H \subseteq 0 .. N - 1
    BY <1>11
  <2>2. IsFiniteSet(H)
    BY <2>1, FiniteSlots
  <2>3. \A x \in H : rs[x].mark = cs[x].mark
    BY <1>12
  <2>4. QED  BY <2>2, <2>3, MarkSumSame
<1>17. CleanRows(s.slots, s.disk, {}) =>
       /\ CleanRows(rs, r.disk, H \cup row) /\ CleanLoose(rs, r.disk, H)
       /\ Passes(s.slots, s.disk, {}, rs, r.disk, row, {})
  BY <1>2, <1>9, PassesTrans DEF cs, rs
<1>18. Firm(s.slots, rs)
  BY <1>2, <1>9, FirmTrans DEF cs, rs
<1>19. \A g \in Files : Len(r.disk[g]) >= Len(s.disk[g])
  BY <1>1, <1>9
<1>20. Loose(c.slots, H, f, p, n)
  BY <1>1 DEF cs
<1>21. H \subseteq 0 .. N - 1
  BY <1>11
<1>22. Ready(s, c, H, r, N, at, n, f, p)
  <2>1. MarkSum(r.slots, H) = MarkSum(c.slots, H)
    BY <1>16 DEF rs, cs
  <2>2. \A y \in Kept(r.slots, row) : y \in H \/ (r.slots[y].file = f => r.slots[y].page \notin p .. p + n - 1)
    BY <1>15 DEF rs
  <2>3. \A y \in H : y \in Kept(r.slots, row) /\ r.slots[y].file = f /\ r.slots[y].page \in p .. p + n - 1
    BY <1>13 DEF rs
  <2>4. \A x, y \in H : r.slots[x].page = r.slots[y].page => x = y
    BY <1>14 DEF rs
  <2>5. QED  BY <1>1, <1>7, <1>17, <1>18, <1>19, <1>20, <1>21, <2>1, <2>2, <2>3, <2>4 DEF Ready, rs
<1>23. QED  BY <1>22 DEF H, c, r

-----------------------------------------------------------------------------
\* A request for which a place was made is served, from the slots that were
\* cached and from the disk.
LEMMA FillRequest ==
  ASSUME NEW N \in Nat, NEW s, Sound(s, N, {}), NEW f, NEW p, NEW n, Asked(f, p, n),
         NEW c, NEW H, NEW at, NEW r, Ready(s, c, H, r, N, at, n, f, p)
  PROVE  LET t == Fill(r, at, n, f, p, H)
         IN  /\ Serves(s, t, N, at, f, p, n, {})
             /\ CleanRows(s.slots, s.disk, {}) /\ MarkSum(c.slots, H) < MarkMod
                => CleanRows(t.slots, t.disk, {})
<1> DEFINE t == Fill(r, at, n, f, p, H)
           ts == t.slots
           rs == r.slots
           row == at .. at + n - 1
           G == H \cup row
           k == Carried(rs, H)
           Contents(q) == IF Copies(rs, H, q) # {}
                          THEN rs[CHOOSE x \in Copies(rs, H, q) : TRUE].data
                          ELSE Stored(r.disk, f, q)
           data == [q \in p .. p + n - 1 |-> Contents(q)]
<1>1. /\ Made(c, H, r, N, at, n) /\ Loose(c.slots, H, f, p, n) /\ Sound(c, N, H)
      /\ CleanRows(s.slots, s.disk, {}) =>
           /\ CleanRows(rs, r.disk, G) /\ CleanLoose(rs, r.disk, H)
           /\ Passes(s.slots, s.disk, {}, rs, r.disk, row, {})
      /\ Firm(s.slots, rs)
      /\ \A g \in Files : Len(r.disk[g]) >= Len(s.disk[g])
      /\ H \subseteq 0 .. N - 1 /\ MarkSum(rs, H) = MarkSum(c.slots, H)
  BY DEF Ready
<1>2. /\ \A y \in H : y \in Kept(rs, row) /\ rs[y].file = f /\ rs[y].page \in p .. p + n - 1
      /\ \A x, y \in H : rs[x].page = rs[y].page => x = y
      /\ \A y \in Kept(rs, row) : y \in H \/ (rs[y].file = f => rs[y].page \notin p .. p + n - 1)
  BY DEF Ready
<1>3. f \in Files /\ p \in Nat /\ n \in Nat /\ n > 0
  BY AskedTypes
<1>4. Sound(r, N, G) /\ at \in Nat /\ (at + n) - 1 \in 0 .. N - 1
  BY <1>1 DEF Made
<1>5. rs \in [0 .. N - 1 -> SlotType] /\ r.disk \in Disks
  BY <1>4 DEF Sound, Disks
<1>6. t = FillRange(r, at, n, f, p, H, data, k)
  BY DEF Fill
<1>7. IsFiniteSet(H) /\ \A x \in H : rs[x].mark \in Nat
  BY <1>1, <1>5, FiniteSlots, Fields
<1>8. k \in 0 .. MarkMod - 1
  BY <1>7, CarriedFits
<1>9. ASSUME NEW q \in p .. p + n - 1
      PROVE  /\ \A y \in H : rs[y].page = q => Contents(q) = rs[y].data
             /\ (\A y \in H : rs[y].page # q) => Contents(q) = Stored(r.disk, f, q)
             /\ Contents(q) \in Values \cup {Junk}
  <2>1. Copies(rs, H, q) = {x \in H : rs[x].page = q}
    BY DEF Copies
  <2>2. \A y \in H : rs[y].page = q => Contents(q) = rs[y].data
    <3> SUFFICES ASSUME NEW y \in H, rs[y].page = q PROVE Contents(q) = rs[y].data
      OBVIOUS
    <3> DEFINE x == CHOOSE x \in Copies(rs, H, q) : TRUE
    <3>1. y \in Copies(rs, H, q)
      BY <2>1
    <3>2. x \in Copies(rs, H, q)
      BY <3>1
    <3>3. x = y
      BY <1>2, <2>1, <3>2
    <3>4. QED  BY <3>1, <3>3
  <2>3. (\A y \in H : rs[y].page # q) => Contents(q) = Stored(r.disk, f, q)
    BY <2>1
  <2>4. Stored(r.disk, f, q) \in Values \cup {Junk}
    <3>1. r.disk[f] \in Seq(Values \cup {Junk}) /\ q \in Nat
      BY <1>3, <1>5 DEF Disks
    <3>2. QED  BY <3>1 DEF Stored
  <2>5. Contents(q) \in Values \cup {Junk}
    <3>1. CASE \E y \in H : rs[y].page = q
      <4>1. PICK y \in H : rs[y].page = q
        BY <3>1
      <4>2. y \in 0 .. N - 1
        BY <1>1
      <4>3. rs[y].data \in Values \cup {Junk}
        BY <1>5, <4>2, Fields
      <4>4. Contents(q) = rs[y].data
        BY <2>2, <4>1
      <4> HIDE DEF Contents
      <4>5. QED  BY <4>3, <4>4
    <3>2. CASE ~ \E y \in H : rs[y].page = q
      BY <2>3, <2>4, <3>2
    <3>3. QED  BY <3>1, <3>2
  <2> HIDE DEF Contents
  <2>6. QED  BY <2>2, <2>3, <2>5
<1>10. data \in [p .. p + n - 1 -> Values \cup {Junk}]
  BY <1>9
<1>11. \A q \in p .. p + n - 1 : data[q] = Contents(q)
  OBVIOUS
<1> HIDE DEF t, ts, k, Contents, data
<1>12. /\ Joined(r, G, t, N, at, n, f, p) /\ t.disk = r.disk /\ ts[at].mark = k
       /\ \A x \in row : ts[x].data = data[(p + x) - at]
  <2> DEFINE u == FillRange(r, at, n, f, p, H, data, k)
  <2>1. IsFilled(r, H, u, N, at, n, f, p, data, k)
    BY <1>1, <1>8, <1>10, FillSound
  <2>2. t = u
    BY <1>6
  <2> HIDE DEF u
  <2>3. QED  BY <2>1, <2>2 DEF ts, IsFilled
<1> HIDE DEF rs
<1>13. \A x \in row : ts[x].file = f /\ ts[x].page = (p + x) - at /\ (p + x) - at \in p .. p + n - 1
  <2>1. \A x \in row : InRow(ts, at, n, f, p, x)
    BY <1>12 DEF Joined, ts
  <2>2. QED  BY <1>3, <1>4, <2>1 DEF InRow
<1>14. JoinedKeeps(r, G, t, at, n, f, p)
  BY <1>4, <1>12, JoinKeeps
<1>15. ASSUME CleanRows(s.slots, s.disk, {}), MarkSum(c.slots, H) < MarkMod PROVE CleanRows(ts, t.disk, {})
  <2>1. CleanRows(rs, r.disk, G) /\ CleanLoose(rs, r.disk, H)
    BY <1>1, <1>15
  <2>2. ASSUME ts[at].mark = 0, NEW x \in row PROVE Good(t.disk, ts, x)
    <3> DEFINE q == (p + x) - at
    <3>1. q \in p .. p + n - 1 /\ ts[x].data = Contents(q) /\ ts[x].file = f /\ ts[x].page = q
      BY <1>11, <1>12, <1>13
    <3> HIDE DEF q
    <3>2. CASE \E y \in H : rs[y].page = q
      <4>1. PICK y \in H : rs[y].page = q
        BY <3>2
      <4>2. ts[x].data = rs[y].data
        BY <1>9, <3>1, <4>1
      <4>3. MarkSum(rs, H) < MarkMod /\ Carried(rs, H) = 0
        BY <1>1, <1>12, <1>15, <2>2 DEF k
      <4>4. rs[y].mark = 0
        BY <1>7, <4>3, CarriedFits
      <4>5. Good(r.disk, rs, y)
        BY <2>1, <4>4 DEF CleanLoose
      <4>6. QED  BY <1>2, <1>12, <3>1, <4>1, <4>2, <4>5 DEF Good
    <3>3. CASE ~ \E y \in H : rs[y].page = q
      BY <1>9, <1>12, <3>1, <3>3 DEF Good
    <3>4. QED  BY <3>2, <3>3
  <2>3. QED  BY <1>14, <2>1, <2>2 DEF JoinedKeeps, rs, ts
<1>16. Passes(rs, r.disk, row, ts, t.disk, {}, {})
  <2>1. ASSUME NEW x \in row, NEW v \in Values, Shows(rs, r.disk, row, f, ts[x].page, v) PROVE ts[x].data = v
    <3> DEFINE q == (p + x) - at
    <3>1. q \in p .. p + n - 1 /\ ts[x].data = Contents(q) /\ ts[x].page = q
      BY <1>11, <1>12, <1>13
    <3> HIDE DEF q
    <3>2. CASE \E y \in H : rs[y].page = q
      <4>1. PICK y \in H : rs[y].page = q
        BY <3>2
      <4>2. ts[x].data = rs[y].data
        BY <1>9, <3>1, <4>1
      <4>3. y \in Kept(rs, row) /\ rs[y].file = f
        BY <1>2
      <4>4. QED  BY <2>1, <3>1, <4>1, <4>2, <4>3 DEF Shows
    <3>3. CASE ~ \E y \in H : rs[y].page = q
      <4>1. \A y \in Kept(rs, row) : ~(rs[y].file = f /\ rs[y].page = q)
        BY <1>2, <3>1, <3>3
      <4>2. Stored(r.disk, f, q) = v
        BY <2>1, <3>1, <4>1 DEF Shows
      <4>3. QED  BY <1>9, <3>1, <3>3, <4>2
    <3>4. QED  BY <3>2, <3>3
  <2>2. row \subseteq G /\ \A x \in G \ row : rs[x].file = f /\ rs[x].page \in p .. p + n - 1
    BY <1>2
  <2>3. \A x \in row, v \in Values :
            <<f, ts[x].page>> \notin {} /\ Shows(rs, r.disk, row, f, ts[x].page, v) => ts[x].data = v
    BY <2>1
  <2>4. QED  BY <1>14, <2>2, <2>3 DEF JoinedKeeps, rs, ts
<1>17. Steps(s, t, {})
  <2>1. Firm(rs, ts)
    BY <1>14 DEF JoinedKeeps, rs, ts
  <2>2. Firm(s.slots, ts)
    BY <1>1, <2>1, FirmTrans
  <2>3. CleanRows(s.slots, s.disk, {}) => Passes(s.slots, s.disk, {}, ts, t.disk, {}, {})
    BY <1>1, <1>16, PassesTrans
  <2>4. \A g \in Files : Len(t.disk[g]) >= Len(s.disk[g])
    BY <1>1, <1>12
  <2>5. QED  BY <2>2, <2>3, <2>4 DEF Steps, ts
<1>18. Serves(s, t, N, at, f, p, n, {})
  BY <1>12, <1>17 DEF Joined, Serves
<1>19. QED  BY <1>15, <1>18 DEF ts, t

-----------------------------------------------------------------------------
\* Ranges are the same, only locks, marks and contents may be others.
Alike(sl, t, N) ==
  \A x \in 0 .. N - 1 :
    /\ t[x].free = sl[x].free /\ t[x].file = sl[x].file /\ t[x].page = sl[x].page
    /\ t[x].masters = sl[x].masters /\ (sl[x].free => t[x] = sl[x])
    /\ t[x].lock > 0 => x \in Heads(sl, {})

\* The same slots are in use, in the same ranges.
SameRanges(sl, t, N) ==
  /\ Kept(t, {}) = Kept(sl, {}) /\ Heads(t, {}) = Heads(sl, {})
  /\ \A m \in 0 .. N - 1 : RangeOf(t, m) = RangeOf(sl, m)

\* Another lock, mark or contents leaves a pool sound.
LEMMA AlikeSound ==
  ASSUME NEW N \in Nat, NEW s, Sound(s, N, {}), NEW t \in [0 .. N - 1 -> SlotType], Alike(s.slots, t, N),
         NEW d \in Disks
  PROVE  /\ Sound([slots |-> t, addrmap |-> s.addrmap, disk |-> d], N, {})
         /\ SameRanges(s.slots, t, N)
<1> DEFINE sl == s.slots
           am == s.addrmap
<1>1. /\ sl \in [0 .. N - 1 -> SlotType] /\ Rows(sl, {}) /\ Owned(sl, {}) /\ Once(sl, {}) /\ Plain(sl, {})
      /\ MapsTo(am, sl, Heads(sl, {}))
  BY DEF Sound, Parted, Mapped
<1>2. \A x \in 0 .. N - 1 :
    /\ t[x].free = sl[x].free /\ t[x].file = sl[x].file /\ t[x].page = sl[x].page
    /\ t[x].masters = sl[x].masters /\ (sl[x].free => t[x] = sl[x])
    /\ t[x].lock > 0 => x \in Heads(sl, {})
  BY DEF Alike
<1> HIDE DEF sl, am
<1>3. DOMAIN t = 0 .. N - 1 /\ DOMAIN sl = 0 .. N - 1
  BY <1>1
<1>4. Kept(t, {}) = Kept(sl, {}) /\ Kept(sl, {}) \subseteq 0 .. N - 1
  BY <1>2, <1>3 DEF Kept
<1>5. Heads(t, {}) = Heads(sl, {}) /\ Heads(sl, {}) \subseteq 0 .. N - 1
  BY <1>2, <1>4 DEF Heads
<1>6. \A m \in 0 .. N - 1 : RangeOf(t, m) = RangeOf(sl, m)
  BY <1>2 DEF RangeOf
<1>7. Rows(t, {})
  <2> SUFFICES ASSUME NEW m \in Heads(sl, {}), NEW x \in RangeOf(sl, m)
               PROVE  /\ x \in Kept(t, {}) /\ (x # m => t[x].masters = 0)
                      /\ t[x].file = t[m].file /\ t[x].page = (t[m].page + x) - m
    BY <1>5, <1>6 DEF Rows
  <2>1. /\ x \in Kept(sl, {}) /\ (x # m => sl[x].masters = 0)
        /\ sl[x].file = sl[m].file /\ sl[x].page = (sl[m].page + x) - m
    BY <1>1 DEF Rows
  <2>2. x \in 0 .. N - 1 /\ m \in 0 .. N - 1
    BY <1>4, <1>5, <2>1
  <2>3. QED  BY <1>2, <1>4, <2>1, <2>2
<1>8. Owned(t, {})
  BY <1>1, <1>4, <1>5, <1>6 DEF Owned
<1>9. Once(t, {})
  BY <1>1, <1>2, <1>4 DEF Once
<1>10. Plain(t, {})
  <2> SUFFICES ASSUME NEW x \in 0 .. N - 1
               PROVE  /\ t[x].free => t[x] = FreeSlot
                      /\ x \in Kept(t, {}) => t[x].file \in Files
                      /\ t[x].lock > 0 => x \in Heads(t, {})
    BY <1>3 DEF Plain
  <2>1. (sl[x].free => sl[x] = FreeSlot) /\ (x \in Kept(sl, {}) => sl[x].file \in Files)
    BY <1>1, <1>3 DEF Plain
  <2>2. QED  BY <1>2, <1>4, <1>5, <2>1
<1>11. MapsTo(am, t, Heads(t, {}))
  <2>1. \A m \in Heads(sl, {}) : Key(t, m) = Key(sl, m)
    BY <1>2, <1>5 DEF Key
  <2>2. QED  BY <1>1, <1>5, <2>1, MapsAlso
<1> DEFINE u == [slots |-> t, addrmap |-> am, disk |-> d]
<1>12. u = [slots |-> u.slots, addrmap |-> u.addrmap, disk |-> u.disk] /\ u.slots = t /\ u.addrmap = am /\ u.disk = d
  OBVIOUS
<1> HIDE DEF u
<1>13. Sound(u, N, {})
  BY <1>7, <1>8, <1>9, <1>10, <1>11, <1>12 DEF Sound, Parted, Mapped, Disks
<1>14. SameRanges(sl, t, N)
  BY <1>4, <1>5, <1>6 DEF SameRanges
<1>15. QED  BY <1>13, <1>14 DEF u, sl, am

\* What is written in a page is seen while its slot has the same contents.
LEMMA AlikePasses ==
  ASSUME NEW N \in Nat, NEW sl \in [0 .. N - 1 -> SlotType], NEW t, Alike(sl, t, N), SameRanges(sl, t, N), NEW d, NEW given,
         \A x \in 0 .. N - 1 : <<sl[x].file, sl[x].page>> \notin given => t[x].data = sl[x].data
  PROVE  Passes(sl, d, {}, t, d, {}, given)
<1>1. Kept(t, {}) = Kept(sl, {}) /\ Kept(sl, {}) \subseteq 0 .. N - 1
  BY DEF SameRanges, Kept
<1>2. \A x \in 0 .. N - 1 : t[x].file = sl[x].file /\ t[x].page = sl[x].page
  BY DEF Alike
<1>3. QED  BY <1>1, <1>2 DEF Passes, Shows

\* What is on disk of a range is so still, if only its lock or its mark is
\* another.
LEMMA AlikeClean ==
  ASSUME NEW N \in Nat, NEW sl \in [0 .. N - 1 -> SlotType], Rows(sl, {}), NEW t, Alike(sl, t, N), SameRanges(sl, t, N), NEW d,
         CleanRows(sl, d, {}),
         \A m \in Heads(sl, {}) : t[m].mark = 0 =>
           \/ sl[m].mark = 0 /\ \A x \in RangeOf(sl, m) : t[x].data = sl[x].data
           \/ \A x \in RangeOf(sl, m) : Good(d, t, x)
  PROVE  CleanRows(t, d, {})
<1> SUFFICES ASSUME NEW m \in Heads(sl, {}), t[m].mark = 0, NEW x \in RangeOf(sl, m) PROVE Good(d, t, x)
  <2>1. Heads(t, {}) = Heads(sl, {}) /\ \A m \in Heads(sl, {}) : RangeOf(t, m) = RangeOf(sl, m)
    BY DEF SameRanges, Heads, Kept
  <2>2. QED  BY <2>1 DEF CleanRows
<1>1. CASE \A y \in RangeOf(sl, m) : Good(d, t, y)
  BY <1>1
<1>2. CASE sl[m].mark = 0 /\ \A y \in RangeOf(sl, m) : t[y].data = sl[y].data
  <2>1. Good(d, sl, x) /\ t[x].data = sl[x].data
    BY <1>2 DEF CleanRows
  <2>2. x \in 0 .. N - 1
    BY DEF Rows, Kept
  <2>3. t[x].file = sl[x].file /\ t[x].page = sl[x].page
    BY <2>2 DEF Alike
  <2>4. QED  BY <2>1, <2>3 DEF Good
<1>3. QED  BY <1>1, <1>2

\* Locked ranges stay where they are; at most one lock is taken off.
Held(sl, t) ==
  \A m \in DOMAIN sl : sl[m].lock > 0 =>
    /\ m \in DOMAIN t /\ Key(t, m) = Key(sl, m)
    /\ t[m].masters = sl[m].masters /\ t[m].lock >= sl[m].lock - 1

-----------------------------------------------------------------------------
\* A call that leaves the ranges as they are.
Marks(s, u, N) ==
  /\ Sound(u, N, {}) /\ SameRanges(s.slots, u.slots, N) /\ Alike(s.slots, u.slots, N)

\* Locking a range leaves the pool sound and all contents.
LEMMA LockSound ==
  ASSUME NEW N \in Nat, NEW s, Sound(s, N, {}), NEW m \in Heads(s.slots, {}), NEW lk \in BOOLEAN, CanLock(s.slots, m, lk)
  PROVE  LET u == [slots |-> Locked(s.slots, m, lk), addrmap |-> s.addrmap, disk |-> s.disk]
         IN  /\ Marks(s, u, N)
             /\ \A x \in 0 .. N - 1 : u.slots[x].lock >= s.slots[x].lock /\ u.slots[x].data = s.slots[x].data
             /\ CleanRows(s.slots, s.disk, {}) => CleanRows(u.slots, u.disk, {})
<1> DEFINE sl == s.slots
           t == Locked(sl, m, lk)
           u == [slots |-> t, addrmap |-> s.addrmap, disk |-> s.disk]
<1>1. sl \in [0 .. N - 1 -> SlotType] /\ s.disk \in Disks /\ Plain(sl, {}) /\ Rows(sl, {})
  BY DEF Sound, Parted, Disks
<1>2. m \in 0 .. N - 1 /\ ~sl[m].free
  BY <1>1 DEF Heads, Kept
<1>3. lk => sl[m].lock + 1 \in 0 .. MaxLock
  <2>1. sl[m].lock \in 0 .. MaxLock /\ MaxLock \in Nat
    BY <1>1, <1>2, Fields, PagerAssumption
  <2>2. QED  BY <2>1 DEF CanLock
<1>4. t \in [0 .. N - 1 -> SlotType]
  <2>1. CASE lk
    <3>1. [sl[m] EXCEPT !.lock = sl[m].lock + 1] \in SlotType
      BY <1>1, <1>2, <1>3, <2>1 DEF SlotType
    <3>2. t = [sl EXCEPT ![m] = [sl[m] EXCEPT !.lock = sl[m].lock + 1]]
      BY <2>1 DEF Locked
    <3>3. QED  BY <1>1, <1>2, <3>1, <3>2
  <2>2. CASE ~lk
    BY <1>1, <2>2 DEF Locked
  <2>3. QED  BY <2>1, <2>2
<1>5. \A x \in 0 .. N - 1 : x # m => t[x] = sl[x]
  BY <1>1 DEF Locked
<1>6. /\ t[m].free = sl[m].free /\ t[m].file = sl[m].file /\ t[m].page = sl[m].page
      /\ t[m].masters = sl[m].masters /\ t[m].mark = sl[m].mark /\ t[m].data = sl[m].data
      /\ t[m].lock >= sl[m].lock
  <2>1. CASE lk
    <3>1. t[m] = [sl[m] EXCEPT !.lock = sl[m].lock + 1]
      BY <1>1, <1>2, <2>1 DEF Locked
    <3>2. sl[m] \in SlotType /\ sl[m].lock \in Nat
      BY <1>1, <1>2, Fields
    <3>3. QED  BY <3>1, <3>2 DEF SlotType
  <2>2. CASE ~lk
    <3>1. sl[m].lock \in Nat /\ t = sl
      BY <1>1, <1>2, <2>2, Fields DEF Locked
    <3>2. QED  BY <3>1
  <2>3. QED  BY <2>1, <2>2
<1> HIDE DEF sl, t
<1>7. \A x \in 0 .. N - 1 : t[x].mark = sl[x].mark /\ t[x].data = sl[x].data
  BY <1>5, <1>6
<1>8. \A x \in 0 .. N - 1 : t[x].lock >= sl[x].lock
  <2>1. \A x \in 0 .. N - 1 : sl[x].lock \in Nat
    BY <1>1, Fields
  <2>2. QED  BY <1>5, <1>6, <2>1
<1>9. Alike(sl, t, N)
  <2> SUFFICES ASSUME NEW x \in 0 .. N - 1
      PROVE  /\ t[x].free = sl[x].free /\ t[x].file = sl[x].file /\ t[x].page = sl[x].page
             /\ t[x].masters = sl[x].masters /\ (sl[x].free => t[x] = sl[x])
             /\ t[x].lock > 0 => x \in Heads(sl, {})
    BY DEF Alike
  <2>1. CASE x = m
    BY <1>2, <1>6, <2>1 DEF sl
  <2>2. CASE x # m
    BY <1>1, <1>5, <2>2 DEF Plain
  <2>3. QED  BY <2>1, <2>2
<1>10. Sound(u, N, {}) /\ SameRanges(sl, t, N)
  BY <1>1, <1>4, <1>9, AlikeSound DEF sl
<1>11. CleanRows(sl, s.disk, {}) => CleanRows(t, s.disk, {})
  <2> SUFFICES ASSUME CleanRows(sl, s.disk, {}) PROVE CleanRows(t, s.disk, {})
    OBVIOUS
  <2>1. \A k \in Heads(sl, {}) : \A x \in RangeOf(sl, k) : t[x].data = sl[x].data
    BY <1>7, <1>1 DEF Rows, Kept
  <2>2. \A k \in Heads(sl, {}) : t[k].mark = sl[k].mark
    BY <1>1, <1>7 DEF Heads, Kept
  <2>3. QED  BY <1>1, <1>9, <1>10, <2>1, <2>2, AlikeClean
<1>12. u.slots = t /\ u.disk = s.disk
  OBVIOUS
<1> HIDE DEF u
<1>13. Marks(s, u, N)
  BY <1>9, <1>10, <1>12 DEF Marks, sl
<1>14. QED  BY <1>7, <1>8, <1>11, <1>12, <1>13 DEF u, t, sl

\* A range that stays firm and loses at most one lock is held.
LEMMA FirmHeld ==
  ASSUME NEW N \in Nat, NEW sl \in [0 .. N - 1 -> SlotType], NEW t \in [0 .. N - 1 -> SlotType], Firm(sl, t),
         NEW u \in [0 .. N - 1 -> SlotType],
         Alike(t, u, N), \A x \in 0 .. N - 1 : u[x].lock >= t[x].lock - 1
  PROVE  Held(sl, u)
<1> SUFFICES ASSUME NEW m \in 0 .. N - 1, sl[m].lock > 0
             PROVE  /\ m \in DOMAIN u /\ Key(u, m) = Key(sl, m)
                    /\ u[m].masters = sl[m].masters /\ u[m].lock >= sl[m].lock - 1
  BY DEF Held
<1>1. Key(t, m) = Key(sl, m) /\ t[m].masters = sl[m].masters /\ t[m].lock = sl[m].lock
  BY DEF Firm
<1>2. u[m].file = t[m].file /\ u[m].page = t[m].page /\ u[m].masters = t[m].masters
  BY DEF Alike
<1>3. QED  BY <1>1, <1>2 DEF Key

\* The results of calls, once what is asked for is locked.
Called(s, u, N, given) ==
  /\ Sound(u, N, {}) /\ Held(s.slots, u.slots)
  /\ \A g \in Files : Len(u.disk[g]) >= Len(s.disk[g])
  /\ CleanRows(s.slots, s.disk, {}) => Passes(s.slots, s.disk, {}, u.slots, u.disk, {}, given)

\* A request that was served and then locked is an answer to the call.
LEMMA ServedLocked ==
  ASSUME NEW N \in Nat, NEW s, Sound(s, N, {}), NEW t, NEW at, NEW f, NEW p, NEW n,
         Serves(s, t, N, at, f, p, n, {}), NEW lk \in BOOLEAN, CanLock(t.slots, at, lk)
  PROVE  LET u == [t EXCEPT !.slots = Locked(@, at, lk)]
         IN  /\ Called(s, u, N, {})
             /\ CleanRows(t.slots, t.disk, {}) => CleanRows(u.slots, u.disk, {})
<1> DEFINE u == [slots |-> Locked(t.slots, at, lk), addrmap |-> t.addrmap, disk |-> t.disk]
<1>1. Sound(t, N, {}) /\ Steps(s, t, {}) /\ at \in Heads(t.slots, {})
  BY DEF Serves
<1>2. t = [slots |-> t.slots, addrmap |-> t.addrmap, disk |-> t.disk]
      /\ t.slots \in [0 .. N - 1 -> SlotType] /\ s.slots \in [0 .. N - 1 -> SlotType]
  BY <1>1 DEF Sound
<1>3. [t EXCEPT !.slots = Locked(@, at, lk)] = u
  BY <1>2
<1>4. /\ Marks(t, u, N)
      /\ \A x \in 0 .. N - 1 : u.slots[x].lock >= t.slots[x].lock /\ u.slots[x].data = t.slots[x].data
      /\ CleanRows(t.slots, t.disk, {}) => CleanRows(u.slots, u.disk, {})
  BY <1>1, LockSound
<1>5. u.disk = t.disk
  OBVIOUS
<1> HIDE DEF u
<1>6. Sound(u, N, {}) /\ SameRanges(t.slots, u.slots, N) /\ Alike(t.slots, u.slots, N) /\ u.slots \in [0 .. N - 1 -> SlotType]
  BY <1>4 DEF Marks, Sound
<1>7. Held(s.slots, u.slots)
  <2>1. \A x \in 0 .. N - 1 : t.slots[x].lock \in Nat /\ u.slots[x].lock \in Nat
    BY <1>2, <1>6, Fields
  <2>2. \A x \in 0 .. N - 1 : u.slots[x].lock >= t.slots[x].lock - 1
    BY <1>4, <2>1
  <2>3. QED  BY <1>1, <1>2, <1>6, <2>2, FirmHeld DEF Steps
<1>8. Passes(t.slots, t.disk, {}, u.slots, t.disk, {}, {})
  BY <1>2, <1>4, <1>6, AlikePasses
<1>9. CleanRows(s.slots, s.disk, {}) => Passes(s.slots, s.disk, {}, u.slots, u.disk, {}, {})
  BY <1>1, <1>5, <1>8, PassesTrans DEF Steps
<1>10. Called(s, u, N, {})
  BY <1>1, <1>5, <1>6, <1>7, <1>9 DEF Called, Steps
<1>11. QED  BY <1>3, <1>4, <1>10

-----------------------------------------------------------------------------
\* Writing in slots of a range and marking it leaves the pool sound: the range
\* is not clean any more.
LEMMA WrittenSound ==
  ASSUME NEW N \in Nat, NEW s, Sound(s, N, {}), NEW m \in Heads(s.slots, {}), s.slots[m].mark + 1 < MarkMod,
         NEW v \in Values, NEW D, D \subseteq RangeOf(s.slots, m)
  PROVE  LET u == [slots |-> WithData(s.slots, D, m, v), addrmap |-> s.addrmap, disk |-> s.disk]
         IN  /\ Marks(s, u, N)
             /\ \A x \in 0 .. N - 1 : u.slots[x].lock = s.slots[x].lock
             /\ \A x \in D : u.slots[x].data = v
             /\ \A x \in 0 .. N - 1 : x \notin D => u.slots[x].data = s.slots[x].data
             /\ CleanRows(s.slots, s.disk, {}) => CleanRows(u.slots, u.disk, {})
<1> DEFINE sl == s.slots
           t == WithData(sl, D, m, v)
           u == [slots |-> t, addrmap |-> s.addrmap, disk |-> s.disk]
<1>1. sl \in [0 .. N - 1 -> SlotType] /\ s.disk \in Disks /\ Plain(sl, {}) /\ Rows(sl, {})
  BY DEF Sound, Parted, Disks
<1>2. m \in Heads(sl, {}) /\ m \in 0 .. N - 1 /\ D \subseteq Kept(sl, {}) /\ D \subseteq RangeOf(sl, m)
      /\ Kept(sl, {}) \subseteq 0 .. N - 1 /\ Heads(sl, {}) \subseteq Kept(sl, {})
  BY <1>1 DEF Heads, Kept, Rows
<1>3. sl[m].mark \in Nat /\ sl[m].mark + 1 \in 0 .. MarkMod - 1
  <2>1. sl[m].mark \in Nat /\ sl[m].mark + 1 < MarkMod /\ MarkMod \in Nat
    BY <1>1, <1>2, Fields, PagerAssumption
  <2>2. QED  BY <2>1
<1>4. DOMAIN sl = 0 .. N - 1 /\ t = [x \in DOMAIN sl |->
                     [sl[x] EXCEPT !.data = IF x \in D THEN v ELSE sl[x].data,
                                   !.mark = IF x = m THEN sl[x].mark + 1 ELSE sl[x].mark]]
  BY <1>1 DEF WithData
<1> HIDE DEF sl, t
<1>5. ASSUME NEW x \in 0 .. N - 1
      PROVE  /\ t[x] \in SlotType
             /\ t[x].free = sl[x].free /\ t[x].file = sl[x].file /\ t[x].page = sl[x].page
             /\ t[x].masters = sl[x].masters /\ t[x].lock = sl[x].lock
             /\ t[x].data = (IF x \in D THEN v ELSE sl[x].data)
             /\ t[x].mark = (IF x = m THEN sl[x].mark + 1 ELSE sl[x].mark)
             /\ (x \notin D /\ x # m => t[x] = sl[x])
  <2> DEFINE a == IF x \in D THEN v ELSE sl[x].data
             b == IF x = m THEN sl[x].mark + 1 ELSE sl[x].mark
  <2>1. sl[x] \in SlotType
    BY <1>1
  <2>2. a \in Values \cup {Junk} /\ b \in 0 .. MarkMod - 1
    BY <1>1, <1>3, Fields
  <2>3. t[x] = [sl[x] EXCEPT !.data = a, !.mark = b]
    BY <1>4
  <2>4. x \notin D /\ x # m => a = sl[x].data /\ b = sl[x].mark
    OBVIOUS
  <2> HIDE DEF a, b
  <2>5. /\ t[x] \in SlotType
        /\ t[x].free = sl[x].free /\ t[x].file = sl[x].file /\ t[x].page = sl[x].page
        /\ t[x].masters = sl[x].masters /\ t[x].lock = sl[x].lock
        /\ t[x].data = a /\ t[x].mark = b
    BY <2>1, <2>2, <2>3 DEF SlotType
  <2>6. x \notin D /\ x # m => t[x] = sl[x]
    BY <2>1, <2>3, <2>4 DEF SlotType
  <2>7. QED  BY <2>5, <2>6 DEF a, b
<1>6. t \in [0 .. N - 1 -> SlotType]
  <2>1. t = [x \in 0 .. N - 1 |-> t[x]]
    BY <1>4
  <2>2. QED  BY <1>5, <2>1
<1>7. Alike(sl, t, N)
  <2>1. \A x \in 0 .. N - 1 : sl[x].free => t[x] = sl[x]
    BY <1>2, <1>5 DEF Kept
  <2>2. \A x \in 0 .. N - 1 : sl[x].lock > 0 => x \in Heads(sl, {})
    BY <1>1, <1>4 DEF Plain
  <2>3. QED  BY <1>5, <2>1, <2>2 DEF Alike
<1>8. Sound(u, N, {}) /\ SameRanges(sl, t, N)
  BY <1>1, <1>6, <1>7, AlikeSound DEF sl
<1>9. CleanRows(sl, s.disk, {}) => CleanRows(t, s.disk, {})
  <2> SUFFICES ASSUME CleanRows(sl, s.disk, {}) PROVE CleanRows(t, s.disk, {})
    OBVIOUS
  <2>1. ASSUME NEW k \in Heads(sl, {}), t[k].mark = 0
        PROVE  sl[k].mark = 0 /\ \A x \in RangeOf(sl, k) : t[x].data = sl[x].data
    <3>1. k # m
      <4>1. t[m].mark = sl[m].mark + 1
        BY <1>2, <1>5
      <4>2. QED  BY <1>3, <2>1, <4>1
    <3>2. k \in 0 .. N - 1 /\ sl[k].mark = 0
      BY <1>2, <1>5, <2>1, <3>1
    <3>3. \A x \in RangeOf(sl, k) : x \notin D
      BY <1>1, <1>2, <3>1, Apart
    <3>4. \A x \in RangeOf(sl, k) : x \in 0 .. N - 1
      BY <1>1, <1>2 DEF Rows
    <3>5. QED  BY <1>5, <3>2, <3>3, <3>4
  <2>2. QED  BY <1>1, <1>7, <1>8, <2>1, AlikeClean
<1>10. u.slots = t /\ u.disk = s.disk
  OBVIOUS
<1> HIDE DEF u
<1>11. Marks(s, u, N)
  BY <1>7, <1>8, <1>10 DEF Marks, sl
<1>12. D \subseteq 0 .. N - 1
  BY <1>2
<1>13. QED  BY <1>5, <1>9, <1>10, <1>11, <1>12 DEF u, t, sl

\* A request whose pages are to be overwritten (fake) is served without reading
\* them, and shows what is written then.
LEMMA FakeRequest ==
  ASSUME NEW N \in Nat, NEW s, Sound(s, N, {}), NEW f, NEW p, NEW n, Asked(f, p, n),
         NEW c, NEW H, NEW at, NEW r, Ready(s, c, H, r, N, at, n, f, p), NEW v \in Values
  PROVE  LET t == FillRange(r, at, n, f, p, H, [q \in p .. p + n - 1 |-> Junk], 0)
             u == [t EXCEPT !.slots = Overwritten(@, at, v)]
         IN  /\ Called(s, u, N, {f} \X (p .. p + n - 1))
             /\ CleanRows(s.slots, s.disk, {}) => CleanRows(u.slots, u.disk, {})
             /\ \A q \in p .. p + n - 1 : Shows(u.slots, u.disk, {}, f, q, v)
<1> DEFINE junk == [q \in p .. p + n - 1 |-> Junk]
           t == FillRange(r, at, n, f, p, H, junk, 0)
           ts == t.slots
           rs == r.slots
           row == at .. at + n - 1
           G == H \cup row
           given == {f} \X (p .. p + n - 1)
           u == [slots |-> WithData(ts, row, at, v), addrmap |-> t.addrmap, disk |-> t.disk]
           us == u.slots
<1>1. /\ Made(c, H, r, N, at, n) /\ Loose(c.slots, H, f, p, n) /\ Sound(c, N, H)
      /\ CleanRows(s.slots, s.disk, {}) =>
           CleanRows(rs, r.disk, G) /\ Passes(s.slots, s.disk, {}, rs, r.disk, row, {})
      /\ Firm(s.slots, rs)
      /\ \A g \in Files : Len(r.disk[g]) >= Len(s.disk[g])
      /\ \A y \in H : rs[y].file = f /\ rs[y].page \in p .. p + n - 1
  BY DEF Ready
<1>2. f \in Files /\ p \in Nat /\ n \in Nat /\ n > 0 /\ (p + n) - 1 <= MaxPage /\ MaxPage \in Nat
  BY AskedTypes
<1>3. Sound(r, N, G) /\ at \in Nat /\ (at + n) - 1 \in 0 .. N - 1
  BY <1>1 DEF Made
<1>4. junk \in [p .. p + n - 1 -> Values \cup {Junk}] /\ 0 \in 0 .. MarkMod - 1
  BY PagerAssumption
<1> HIDE DEF junk
<1>5. IsFilled(r, H, t, N, at, n, f, p, junk, 0)
  BY <1>1, <1>4, FillSound
<1>6. Joined(r, G, t, N, at, n, f, p) /\ t.disk = r.disk /\ ts[at].mark = 0
  BY <1>5 DEF IsFilled
<1> HIDE DEF t
<1>7. JoinedKeeps(r, G, t, at, n, f, p)
  BY <1>3, <1>6, JoinKeeps
<1>8. /\ Sound(t, N, {}) /\ at \in Heads(ts, {}) /\ RangeOf(ts, at) = row
      /\ t = [slots |-> ts, addrmap |-> t.addrmap, disk |-> t.disk] /\ ts \in [0 .. N - 1 -> SlotType]
      /\ \A x \in row : ts[x].file = f /\ ts[x].page = (p + x) - at
  BY <1>6 DEF Joined, Sound, InRow
<1>9. [t EXCEPT !.slots = Overwritten(@, at, v)] = u
  <2>1. Overwritten(ts, at, v) = WithData(ts, row, at, v)
    BY <1>8 DEF Overwritten
  <2>2. [t EXCEPT !.slots = Overwritten(@, at, v)] = [t EXCEPT !.slots = Overwritten(ts, at, v)]
    OBVIOUS
  <2>3. QED  BY <1>8, <2>1, <2>2
<1>10. /\ Marks(t, u, N)
       /\ \A x \in 0 .. N - 1 : us[x].lock = ts[x].lock
       /\ \A x \in row : us[x].data = v
       /\ \A x \in 0 .. N - 1 : x \notin row => us[x].data = ts[x].data
       /\ CleanRows(ts, t.disk, {}) => CleanRows(us, u.disk, {})
  <2>1. ts[at].mark + 1 < MarkMod
    BY <1>6, PagerAssumption
  <2>2. row \subseteq RangeOf(ts, at)
    BY <1>8
  <2> HIDE DEF row
  <2>3. QED  BY <1>8, <2>1, <2>2, WrittenSound
<1>11. u.disk = t.disk
  OBVIOUS
<1> HIDE DEF u
<1>12. /\ Sound(u, N, {}) /\ SameRanges(ts, us, N) /\ Alike(ts, us, N) /\ us \in [0 .. N - 1 -> SlotType]
  BY <1>10 DEF Marks, Sound
<1>13. \A x \in row : <<ts[x].file, ts[x].page>> \in given
  <2>1. \A x \in row : (p + x) - at \in p .. p + n - 1
    BY <1>2, <1>3
  <2>2. \A x \in row : ts[x].file = f /\ ts[x].page \in p .. p + n - 1
    BY <1>8, <2>1
  <2> HIDE DEF ts, row
  <2>3. QED  BY <2>2
<1> HIDE DEF ts, us, rs
<1>14. Passes(ts, t.disk, {}, us, t.disk, {}, given)
  <2>1. \A x \in 0 .. N - 1 : <<ts[x].file, ts[x].page>> \notin given => us[x].data = ts[x].data
    BY <1>10, <1>13
  <2> HIDE DEF given
  <2>2. QED  BY <1>8, <1>12, <2>1, AlikePasses
<1>15. Passes(rs, r.disk, row, ts, t.disk, {}, given)
  <2>1. row \subseteq G /\ \A x \in G \ row : rs[x].file = f /\ rs[x].page \in p .. p + n - 1
    BY <1>1
  <2>2. \A x \in row, w \in Values :
            <<f, ts[x].page>> \notin given /\ Shows(rs, r.disk, row, f, ts[x].page, w) => ts[x].data = w
    BY <1>8, <1>13
  <2>3. QED  BY <1>7, <2>1, <2>2 DEF JoinedKeeps, rs, ts
<1>16. CleanRows(s.slots, s.disk, {}) => Passes(s.slots, s.disk, {}, us, u.disk, {}, given)
  <2> SUFFICES ASSUME CleanRows(s.slots, s.disk, {}) PROVE Passes(s.slots, s.disk, {}, us, u.disk, {}, given)
    OBVIOUS
  <2>1. Passes(s.slots, s.disk, {}, rs, r.disk, row, given)
    BY <1>1, PassesMore
  <2>2. Passes(s.slots, s.disk, {}, ts, t.disk, {}, given)
    BY <1>15, <2>1, PassesTrans
  <2>3. QED  BY <1>11, <1>14, <2>2, PassesTrans
<1>17. Held(s.slots, us)
  <2>1. Firm(s.slots, ts)
    BY <1>1, <1>7, FirmTrans DEF JoinedKeeps, rs, ts
  <2>2. \A x \in 0 .. N - 1 : us[x].lock >= ts[x].lock - 1
    <3>1. \A x \in 0 .. N - 1 : ts[x].lock \in Nat
      BY <1>8, Fields
    <3>2. QED  BY <1>10, <3>1
  <2>3. s.slots \in [0 .. N - 1 -> SlotType]
    BY DEF Sound
  <2>4. QED  BY <1>8, <1>12, <2>1, <2>2, <2>3, FirmHeld
<1>18. Called(s, u, N, given)
  BY <1>1, <1>6, <1>11, <1>12, <1>16, <1>17 DEF Called, us
<1>19. CleanRows(s.slots, s.disk, {}) => CleanRows(us, u.disk, {})
  <2>1. CleanRows(s.slots, s.disk, {}) => CleanRows(ts, t.disk, {})
    <3> SUFFICES ASSUME CleanRows(s.slots, s.disk, {}) PROVE CleanRows(ts, t.disk, {})
      OBVIOUS
    <3>1. \A x \in row : Good(t.disk, ts, x)
      <4> SUFFICES ASSUME NEW x \in row PROVE ts[x].data \notin Values
        BY DEF Good
      <4>1. ts[x].data = junk[(p + x) - at] /\ (p + x) - at \in p .. p + n - 1
        BY <1>2, <1>3, <1>5 DEF IsFilled, ts
      <4>2. QED  BY <4>1, PagerAssumption DEF junk
    <3>2. QED  BY <1>1, <1>7, <3>1 DEF JoinedKeeps, ts, rs
  <2>2. QED  BY <1>10, <2>1
<1>20. \A q \in p .. p + n - 1 : Shows(us, u.disk, {}, f, q, v)
  <2> SUFFICES ASSUME NEW q \in p .. p + n - 1 PROVE Shows(us, u.disk, {}, f, q, v)
    OBVIOUS
  <2> DEFINE x == (at + q) - p
  <2>1. x \in row /\ (p + x) - at = q
    BY <1>2, <1>3
  <2> HIDE DEF x
  <2>2. /\ x \in Kept(us, {}) /\ us[x].file = f /\ us[x].page = q /\ us[x].data = v
    <3>1. x \in Kept(ts, {}) /\ x \in 0 .. N - 1
      <4>1. row \subseteq Kept(ts, {})
        BY <1>8 DEF Sound, Parted, Rows, ts
      <4>2. QED  BY <1>8, <2>1, <4>1 DEF Kept
    <3>2. Kept(us, {}) = Kept(ts, {}) /\ us[x].file = ts[x].file /\ us[x].page = ts[x].page
      BY <1>12, <3>1 DEF SameRanges, Alike
    <3>3. QED  BY <1>8, <1>10, <2>1, <3>1, <3>2
  <2>3. \A y \in Kept(us, {}) : us[y].file = f /\ us[y].page = q => y = x
    BY <1>12, <2>2 DEF Sound, Parted, Once, us
  <2>4. QED  BY <2>2, <2>3 DEF Shows
<1>21. QED  BY <1>9, <1>18, <1>19, <1>20 DEF us, junk, t

-----------------------------------------------------------------------------
\* The slots of some ranges.
Spread(sl, S) == UNION {RangeOf(sl, m) : m \in S}

\* A slot is in one of some ranges exactly when its master is among theirs.
LEMMA SpreadIs ==
  ASSUME NEW N \in Nat, NEW sl \in [0 .. N - 1 -> SlotType], Rows(sl, {}), NEW S, S \subseteq Heads(sl, {})
  PROVE  /\ Spread(sl, S) \subseteq Kept(sl, {}) /\ Spread(sl, S) \subseteq 0 .. N - 1
         /\ \A m \in Heads(sl, {}) : \A x \in RangeOf(sl, m) : x \in Spread(sl, S) <=> m \in S
<1>1. Spread(sl, S) \subseteq Kept(sl, {})
  BY DEF Spread, Rows
<1>2. Kept(sl, {}) \subseteq 0 .. N - 1
  BY DEF Kept
<1>3. ASSUME NEW m \in Heads(sl, {}), NEW x \in RangeOf(sl, m), x \in Spread(sl, S) PROVE m \in S
  <2>1. PICK k \in S : x \in RangeOf(sl, k)
    BY <1>3 DEF Spread
  <2>2. k = m
    BY <2>1, Apart
  <2>3. QED  BY <2>1, <2>2
<1>4. \A m \in S : \A x \in RangeOf(sl, m) : x \in Spread(sl, S)
  BY DEF Spread
<1>5. QED  BY <1>1, <1>2, <1>3, <1>4

\* Ranges are written and their marks taken off.
IsDump(s, S, u, N) ==
  /\ Marks(s, u, N)
  /\ \A x \in 0 .. N - 1 : u.slots[x].lock = s.slots[x].lock /\ u.slots[x].data = s.slots[x].data
  /\ u.addrmap = s.addrmap
  /\ \A m \in S : u.slots[m].mark = 0
  /\ \A g \in Files : Len(u.disk[g]) >= Len(s.disk[g])
  /\ CleanRows(s.slots, s.disk, {}) => CleanRows(u.slots, u.disk, {})
  /\ Passes(s.slots, s.disk, {}, u.slots, u.disk, {}, {})

\* Writing marked ranges to disk and taking their marks off leaves the pool
\* sound and all pages as they are seen.
LEMMA DumpSound ==
  ASSUME NEW N \in Nat, NEW s, Sound(s, N, {}), NEW S, S \subseteq Heads(s.slots, {})
  PROVE  IsDump(s, S, Dump(s, S), N)
<1> DEFINE sl == s.slots
           d == s.disk
           dirty == {m \in S : sl[m].mark > 0}
           F == Spread(sl, dirty)
           e == DumpSlots(d, sl, F)
           t == [x \in DOMAIN sl |-> IF x \in dirty THEN [sl[x] EXCEPT !.mark = 0] ELSE sl[x]]
           u == [slots |-> t, addrmap |-> s.addrmap, disk |-> e]
<1>1. /\ sl \in [0 .. N - 1 -> SlotType] /\ d \in Disks /\ Plain(sl, {}) /\ Rows(sl, {}) /\ Once(sl, {})
      /\ s = [slots |-> sl, addrmap |-> s.addrmap, disk |-> d]
  BY DEF Sound, Parted, Disks
<1>2. Dump(s, S) = u
  <2>1. Dump(s, S) = [s EXCEPT !.disk = e, !.slots = t]
    BY DEF Dump, Spread
  <2> HIDE DEF e, t
  <2>2. QED  BY <1>1, <2>1
<1>3. dirty \subseteq Heads(sl, {}) /\ S \subseteq Heads(sl, {}) /\ Heads(sl, {}) \subseteq Kept(sl, {}) /\ Kept(sl, {}) \subseteq 0 .. N - 1
  BY <1>1 DEF Heads, Kept
<1>4. DOMAIN sl = 0 .. N - 1
  BY <1>1
<1>5. S \ dirty = {m \in S : ~(sl[m].mark > 0)}
  OBVIOUS
<1> HIDE DEF sl, d, dirty
<1>6. /\ F \subseteq Kept(sl, {}) /\ F \subseteq 0 .. N - 1
      /\ \A m \in Heads(sl, {}) : \A x \in RangeOf(sl, m) : x \in F <=> m \in dirty
  BY <1>1, <1>3, SpreadIs
<1> HIDE DEF F
<1>7. \A x \in Kept(sl, {}) : sl[x].file \in Files /\ sl[x].page \in Nat
  BY <1>1, <1>3, <1>4, Fields DEF Plain
<1>8. IsWritten(d, sl, F, e)
  <2>1. \A x, y \in F : sl[x].file = sl[y].file /\ sl[x].page = sl[y].page => x = y
    BY <1>1, <1>6 DEF Once
  <2>2. \A x \in F : sl[x].file \in Files
    BY <1>6, <1>7
  <2>3. QED  BY <1>1, <1>6, <2>1, <2>2, Dumped
<1>9. ASSUME NEW x \in 0 .. N - 1
      PROVE  /\ t[x] \in SlotType
             /\ t[x].free = sl[x].free /\ t[x].file = sl[x].file /\ t[x].page = sl[x].page
             /\ t[x].masters = sl[x].masters /\ t[x].lock = sl[x].lock /\ t[x].data = sl[x].data
             /\ (x \in dirty => t[x].mark = 0) /\ (x \notin dirty => t[x] = sl[x])
  <2>1. sl[x] \in SlotType /\ 0 \in 0 .. MarkMod - 1
    BY <1>1, PagerAssumption
  <2>2. t[x] = IF x \in dirty THEN [sl[x] EXCEPT !.mark = 0] ELSE sl[x]
    BY <1>4
  <2> HIDE DEF t
  <2>3. QED  BY <2>1, <2>2 DEF SlotType
<1>10. t \in [0 .. N - 1 -> SlotType]
  <2>1. t = [x \in 0 .. N - 1 |-> t[x]]
    BY <1>4
  <2> HIDE DEF t
  <2>2. QED  BY <1>9, <2>1
<1> HIDE DEF t, e
<1>11. Alike(sl, t, N)
  <2>1. \A x \in 0 .. N - 1 : sl[x].free => t[x] = sl[x]
    BY <1>3, <1>9 DEF Kept
  <2>2. \A x \in 0 .. N - 1 : sl[x].lock > 0 => x \in Heads(sl, {})
    BY <1>1, <1>4 DEF Plain
  <2>3. QED  BY <1>9, <2>1, <2>2 DEF Alike
<1>12. e \in Disks /\ \A g \in Files : Len(e[g]) >= Len(d[g])
  BY <1>8 DEF IsWritten
<1>13. Sound(u, N, {}) /\ SameRanges(sl, t, N)
  BY <1>10, <1>11, <1>12, AlikeSound DEF sl
<1>14. \A m \in S : t[m].mark = 0
  <2> SUFFICES ASSUME NEW m \in S PROVE t[m].mark = 0
    OBVIOUS
  <2>1. m \in 0 .. N - 1
    BY <1>3
  <2>2. CASE m \in dirty
    BY <1>9, <2>1, <2>2
  <2>3. CASE m \notin dirty
    <3>1. ~(sl[m].mark > 0) /\ sl[m].mark \in Nat
      BY <1>1, <1>5, <2>1, <2>3, Fields
    <3>2. QED  BY <1>9, <2>1, <2>3, <3>1
  <2>4. QED  BY <2>2, <2>3
\* What was in the file, and of no page that is written, is there still.
<1>15. ASSUME NEW g \in Files, NEW q \in Nat, \A x \in F : ~(sl[x].file = g /\ sl[x].page = q), Stored(d, g, q) \in Values
       PROVE  Stored(e, g, q) = Stored(d, g, q)
  BY <1>8, <1>15 DEF IsWritten
<1>16. CleanRows(sl, d, {}) => CleanRows(t, e, {})
  <2> SUFFICES ASSUME CleanRows(sl, d, {}), NEW m \in Heads(sl, {}), t[m].mark = 0, NEW x \in RangeOf(sl, m)
               PROVE  Good(e, t, x)
    <3>1. Heads(t, {}) = Heads(sl, {}) /\ \A m \in Heads(sl, {}) : RangeOf(t, m) = RangeOf(sl, m)
      BY <1>3, <1>13 DEF SameRanges
    <3>2. QED  BY <3>1 DEF CleanRows
  <2>1. x \in Kept(sl, {}) /\ x \in 0 .. N - 1
    BY <1>1, <1>3 DEF Rows
  <2>2. t[x].file = sl[x].file /\ t[x].page = sl[x].page /\ t[x].data = sl[x].data
    BY <1>9, <2>1
  <2>3. CASE m \in dirty
    <3>1. Stored(e, sl[x].file, sl[x].page) = sl[x].data
      BY <1>6, <1>8, <2>3 DEF IsWritten
    <3>2. QED  BY <2>2, <3>1 DEF Good
  <2>4. CASE m \notin dirty
    <3>1. sl[m].mark = 0
      BY <1>3, <1>9, <2>4
    <3>2. Good(d, sl, x)
      BY <3>1 DEF CleanRows
    <3>3. x \notin F
      BY <1>6, <2>4
    <3>4. \A y \in F : ~(sl[y].file = sl[x].file /\ sl[y].page = sl[x].page)
      BY <1>1, <1>6, <2>1, <3>3 DEF Once
    <3>5. QED  BY <1>7, <1>15, <2>1, <2>2, <3>2, <3>4 DEF Good
  <2>5. QED  BY <2>3, <2>4
<1>17. Passes(sl, d, {}, t, e, {}, {})
  <2> SUFFICES ASSUME NEW g \in Files, NEW q \in Pages, NEW v \in Values, Shows(sl, d, {}, g, q, v)
               PROVE  Shows(t, e, {}, g, q, v)
    BY DEF Passes
  <2>1. Kept(t, {}) = Kept(sl, {}) /\ q \in Nat
    BY <1>13 DEF SameRanges, Pages
  <2>2. \A x \in Kept(sl, {}) : t[x].file = sl[x].file /\ t[x].page = sl[x].page /\ t[x].data = sl[x].data
    BY <1>3, <1>9
  <2>3. ASSUME \A x \in Kept(t, {}) : ~(t[x].file = g /\ t[x].page = q) PROVE Stored(e, g, q) = v
    <3>1. \A x \in Kept(sl, {}) : ~(sl[x].file = g /\ sl[x].page = q)
      BY <2>1, <2>2, <2>3
    <3>2. Stored(d, g, q) = v
      BY <3>1 DEF Shows
    <3>3. QED  BY <1>6, <1>15, <2>1, <3>1, <3>2
  <2>4. QED  BY <2>1, <2>2, <2>3 DEF Shows
<1>18. u.slots = t /\ u.disk = e /\ u.addrmap = s.addrmap
  OBVIOUS
<1> HIDE DEF u
<1>19. IsDump(s, S, u, N)
  BY <1>9, <1>11, <1>12, <1>13, <1>14, <1>16, <1>17, <1>18 DEF IsDump, Marks, sl, d
<1>20. QED  BY <1>2, <1>19

-----------------------------------------------------------------------------
\* Ranges that are not locked are freed.
IsFreed(s, S, u, N) ==
  /\ Sound(u, N, {}) /\ u.disk = s.disk
  /\ Kept(u.slots, {}) = Kept(s.slots, {}) \ Spread(s.slots, S)
  /\ Heads(u.slots, {}) = Heads(s.slots, {}) \ S
  /\ \A x \in Kept(u.slots, {}) : u.slots[x] = s.slots[x]
  /\ Firm(s.slots, u.slots)
  /\ CleanRows(s.slots, s.disk, {}) => CleanRows(u.slots, u.disk, {})

\* Freeing ranges that are not locked leaves a sound pool, without them.
LEMMA FreeSound ==
  ASSUME NEW N \in Nat, NEW s, Sound(s, N, {}), NEW S, S \subseteq Heads(s.slots, {}),
         \A m \in S : s.slots[m].lock = 0
  PROVE  IsFreed(s, S, FreeRanges(s, S), N)
<1> DEFINE sl == s.slots  am == s.addrmap  F == Spread(sl, S)
           t == MarkFree(sl, F)  bm == RemoveMasters(am, sl, S)
           u == [slots |-> t, addrmap |-> bm, disk |-> s.disk]
<1>1. /\ sl \in [0 .. N - 1 -> SlotType] /\ Parted(sl, {}) /\ Mapped(am, sl, {}) /\ s.disk \in Disks
      /\ s = [slots |-> sl, addrmap |-> am, disk |-> s.disk]
  BY DEF Sound, Disks
<1>2. Rows(sl, {}) /\ Owned(sl, {}) /\ Once(sl, {}) /\ Plain(sl, {})
  BY <1>1 DEF Parted
<1>3. FreeRanges(s, S) = u
  <2>1. UNION {RangeOf(s.slots, m) : m \in S} = F
    BY DEF Spread
  <2>2. FreeRanges(s, S) = [s EXCEPT !.slots = t, !.addrmap = bm]
    BY <2>1 DEF FreeRanges
  <2> HIDE DEF t, bm
  <2>3. QED  BY <1>1, <2>2
<1>4. DOMAIN sl = 0 .. N - 1 /\ S \subseteq Heads(sl, {}) /\ \A m \in S : sl[m].lock = 0
  BY <1>1
<1>5. F \subseteq Kept(sl, {}) /\ \A m \in Heads(sl, {}) : \A x \in RangeOf(sl, m) : x \in F <=> m \in S
  BY <1>1, <1>2, <1>4, SpreadIs
<1>6. \A x \in 0 .. N - 1 : t[x] = IF x \in F THEN FreeSlot ELSE sl[x]
  BY <1>4 DEF MarkFree
<1>7. FreeSlot \in SlotType
  BY PagerAssumption DEF FreeSlot, SlotType, Pages
<1>8. t \in [0 .. N - 1 -> SlotType]
  BY <1>1, <1>4, <1>7 DEF MarkFree
<1>9. FreeSlot.free = TRUE /\ FreeSlot.lock = 0
  BY DEF FreeSlot
<1> HIDE DEF F, t, bm
<1>10. Kept(t, {}) = Kept(sl, {}) \ F
  BY <1>4, <1>6, <1>8, <1>9 DEF Kept
<1>11. \A x \in Kept(t, {}) : t[x] = sl[x] /\ x \in Kept(sl, {})
  BY <1>6, <1>10, <1>4 DEF Kept
<1>12. Heads(t, {}) = Heads(sl, {}) \ S
  <2>1. \A m \in Heads(sl, {}) : m \in RangeOf(sl, m)
    BY <1>1, HeadIn
  <2>2. \A m \in Heads(sl, {}) : m \in F <=> m \in S
    BY <1>5, <2>1
  <2>3. QED  BY <1>10, <1>11, <2>2 DEF Heads
<1>13. \A m \in Heads(t, {}) : RangeOf(t, m) = RangeOf(sl, m) /\ RangeOf(t, m) \cap F = {} /\ t[m] = sl[m]
                               /\ m \in Heads(sl, {})
  <2> TAKE m \in Heads(t, {})
  <2>1. m \in Kept(t, {}) /\ t[m] = sl[m] /\ m \in Heads(sl, {}) /\ m \notin S
    BY <1>11, <1>12 DEF Heads
  <2>2. RangeOf(t, m) = RangeOf(sl, m)
    BY <2>1 DEF RangeOf
  <2>3. QED  BY <1>5, <2>1, <2>2
<1>14. ASSUME NEW m \in Heads(t, {}), NEW x \in RangeOf(t, m)
       PROVE  x \in Kept(t, {}) /\ t[x] = sl[x] /\ t[m] = sl[m] /\ m \in Heads(sl, {}) /\ x \in RangeOf(sl, m)
  <2>1. x \in RangeOf(sl, m) /\ m \in Heads(sl, {}) /\ x \notin F /\ t[m] = sl[m]
    BY <1>13
  <2>2. x \in Kept(sl, {})
    BY <1>2, <2>1 DEF Rows
  <2>3. QED  BY <1>10, <1>11, <2>1, <2>2
<1>15. Parted(t, {})
  <2>1. Rows(t, {})
    BY <1>2, <1>14 DEF Rows
  <2>2. Owned(t, {})
    <3> SUFFICES ASSUME NEW x \in Kept(t, {}) PROVE \E m \in Heads(t, {}) : x \in RangeOf(t, m)
      BY DEF Owned
    <3>1. x \in Kept(sl, {}) /\ x \notin F
      BY <1>10
    <3>2. PICK m \in Heads(sl, {}) : x \in RangeOf(sl, m)
      BY <1>2, <3>1 DEF Owned
    <3>3. m \in Heads(t, {})
      BY <1>5, <1>12, <3>1, <3>2
    <3>4. QED  BY <1>13, <3>2, <3>3
  <2>3. Once(t, {})
    BY <1>2, <1>11 DEF Once
  <2>4. Plain(t, {})
    <3> SUFFICES ASSUME NEW x \in 0 .. N - 1
                 PROVE  /\ t[x].free => t[x] = FreeSlot
                        /\ x \in Kept(t, {}) => t[x].file \in Files
                        /\ t[x].lock > 0 => x \in Heads(t, {})
      BY <1>8 DEF Plain
    <3>1. CASE x \in F
      BY <1>6, <1>9, <1>10, <3>1
    <3>2. CASE x \notin F
      <4>1. t[x] = sl[x] /\ (x \in Kept(t, {}) => x \in Kept(sl, {}))
        BY <1>6, <1>10, <3>2
      <4>2. /\ sl[x].free => sl[x] = FreeSlot
            /\ x \in Kept(sl, {}) => sl[x].file \in Files
            /\ sl[x].lock > 0 => x \in Heads(sl, {})
        BY <1>2, <1>4 DEF Plain
      <4>3. sl[x].lock > 0 => x \notin S
        BY <1>4
      <4>4. QED  BY <1>12, <4>1, <4>2, <4>3
    <3>3. QED  BY <3>1, <3>2
  <2>5. QED  BY <2>1, <2>2, <2>3, <2>4 DEF Parted
<1>16. Mapped(bm, t, {})
  <2>1. \A m, k \in Heads(sl, {}) : Key(sl, m) = Key(sl, k) => m = k
    BY <1>2, KeysOnce DEF Heads
  <2>2. MapsTo(bm, sl, Heads(sl, {}) \ S)
    BY <1>1, <1>4, <2>1, Unmapped DEF Mapped, bm
  <2>3. \A m \in Heads(sl, {}) \ S : Key(t, m) = Key(sl, m)
    BY <1>12, <1>13 DEF Key
  <2>4. QED  BY <1>12, <2>2, <2>3, MapsAlso DEF Mapped
<1>17. Firm(sl, t)
  <2> SUFFICES ASSUME NEW m \in 0 .. N - 1, sl[m].lock > 0
               PROVE  m \in DOMAIN t /\ Key(t, m) = Key(sl, m) /\ t[m].masters = sl[m].masters /\ t[m].lock = sl[m].lock
    BY <1>4 DEF Firm
  <2>1. m \in Heads(sl, {}) /\ m \notin S
    BY <1>2, <1>4 DEF Plain
  <2>2. t[m] = sl[m]
    BY <1>12, <1>13, <2>1
  <2>3. QED  BY <1>8, <2>2 DEF Key
<1>18. CleanRows(sl, s.disk, {}) => CleanRows(t, s.disk, {})
  BY <1>14 DEF CleanRows, Good
<1>19. u.slots = t /\ u.addrmap = bm /\ u.disk = s.disk
  OBVIOUS
<1>20. Sound(u, N, {})
  BY <1>1, <1>8, <1>15, <1>16, <1>19 DEF Sound, Disks
<1> HIDE DEF u
<1>21. IsFreed(s, S, u, N)
  BY <1>10, <1>11, <1>12, <1>17, <1>18, <1>19, <1>20 DEF IsFreed, sl, F
<1>22. QED  BY <1>3, <1>21

\* A page that is freed is on disk, or it is given up.
LEMMA FreePasses ==
  ASSUME NEW N \in Nat, NEW s, Sound(s, N, {}), NEW S, S \subseteq Heads(s.slots, {}),
         NEW u, IsFreed(s, S, u, N), NEW given,
         \A x \in Spread(s.slots, S) : Good(s.disk, s.slots, x) \/ <<s.slots[x].file, s.slots[x].page>> \in given
  PROVE  Passes(s.slots, s.disk, {}, u.slots, u.disk, {}, given)
<1> DEFINE sl == s.slots  t == u.slots  d == s.disk  F == Spread(sl, S)
<1>1. Kept(t, {}) = Kept(sl, {}) \ F /\ u.disk = d /\ \A x \in Kept(t, {}) : t[x] = sl[x]
  BY DEF IsFreed
<1>2. \A x \in F : Good(d, sl, x) \/ <<sl[x].file, sl[x].page>> \in given
  OBVIOUS
<1> HIDE DEF sl, t, d, F
<1> SUFFICES ASSUME NEW f \in Files, NEW p \in Pages, NEW v \in Values,
                    <<f, p>> \notin given, Shows(sl, d, {}, f, p, v)
             PROVE  Shows(t, d, {}, f, p, v)
  BY <1>1 DEF Passes, sl, t, d
<1>3. \A x \in Kept(sl, {}) : sl[x].file = f /\ sl[x].page = p => sl[x].data = v
  BY DEF Shows
<1>4. ASSUME \A x \in Kept(t, {}) : ~(t[x].file = f /\ t[x].page = p) PROVE Stored(d, f, p) = v
  <2>1. CASE \E x \in Kept(sl, {}) : sl[x].file = f /\ sl[x].page = p
    <3>1. PICK x \in Kept(sl, {}) : sl[x].file = f /\ sl[x].page = p
      BY <2>1
    <3>2. x \in F
      BY <1>1, <1>4, <3>1
    <3>3. Good(d, sl, x)
      BY <1>2, <3>1, <3>2
    <3>4. QED  BY <1>3, <3>1, <3>3 DEF Good
  <2>2. CASE \A x \in Kept(sl, {}) : ~(sl[x].file = f /\ sl[x].page = p)
    BY <2>2 DEF Shows
  <2>3. QED  BY <2>1, <2>2
<1>5. QED  BY <1>1, <1>3, <1>4 DEF Shows

\* A file gets another size.
Sized(s, f, size) ==
  [s EXCEPT !.disk[f] = [i \in 1 .. size |-> IF i <= Len(s.disk[f]) THEN s.disk[f][i] ELSE Zero]]

\* What lies past the new end of a file is given up, and the pool is as it was.
IsSized(s, f, size, u, N) ==
  /\ Sound(u, N, {}) /\ u.slots = s.slots /\ u.addrmap = s.addrmap /\ Len(u.disk[f]) = size
  /\ \A g \in Files : g # f => u.disk[g] = s.disk[g]
  /\ \A given :
       (\A q \in Pages : size <= q /\ q < Len(s.disk[f]) => <<f, q>> \in given)
       => Passes(s.slots, s.disk, {}, u.slots, u.disk, {}, given)
  /\ CleanRows(s.slots, s.disk, {})
     /\ (\A x \in Kept(s.slots, {}) : s.slots[x].file = f /\ size < Len(s.disk[f]) => s.slots[x].page < size)
     => CleanRows(u.slots, u.disk, {})

\* Resizing a file does what IsSized says.
LEMMA SizeSound ==
  ASSUME NEW N \in Nat, NEW s, Sound(s, N, {}), NEW f \in Files, NEW size \in Nat
  PROVE  IsSized(s, f, size, Sized(s, f, size), N)
<1> DEFINE sl == s.slots  d == s.disk
           e == [i \in 1 .. size |-> IF i <= Len(d[f]) THEN d[f][i] ELSE Zero]
           h == [d EXCEPT ![f] = e]
           u == [slots |-> sl, addrmap |-> s.addrmap, disk |-> h]
<1>1. /\ sl \in [0 .. N - 1 -> SlotType] /\ Parted(sl, {}) /\ Mapped(s.addrmap, sl, {}) /\ d \in Disks
      /\ s = [slots |-> sl, addrmap |-> s.addrmap, disk |-> d]
  BY DEF Sound, Disks
<1>2. Rows(sl, {}) /\ Plain(sl, {})
  BY <1>1 DEF Parted
<1>3. d[f] \in Seq(Values \cup {Junk}) /\ Len(d[f]) \in Nat
  BY <1>1 DEF Disks
<1>4. e \in Seq(Values \cup {Junk}) /\ Len(e) = size
  <2>1. \A i \in 1 .. size : (IF i <= Len(d[f]) THEN d[f][i] ELSE Zero) \in Values \cup {Junk}
    BY <1>3, PagerAssumption
  <2>2. e \in [1 .. size -> Values \cup {Junk}]
    BY <2>1
  <2> HIDE DEF e
  <2>3. QED  BY <2>2
<1>5. \A i \in 1 .. size : e[i] = IF i <= Len(d[f]) THEN d[f][i] ELSE Zero
  OBVIOUS
<1>6. Sized(s, f, size) = u
  <2>1. Sized(s, f, size) = [s EXCEPT !.disk[f] = e]
    BY DEF Sized
  <2> HIDE DEF e, sl
  <2>2. QED  BY <1>1, <2>1
<1> HIDE DEF e
<1>7. h \in Disks /\ h[f] = e /\ \A g \in Files : g # f => h[g] = d[g]
  BY <1>1, <1>4 DEF Disks
<1> HIDE DEF h
<1>8. u.slots = sl /\ u.addrmap = s.addrmap /\ u.disk = h
  OBVIOUS
<1>9. Sound(u, N, {})
  BY <1>1, <1>7, <1>8 DEF Sound, Disks
<1> HIDE DEF u
<1>10. ASSUME NEW g \in Files, NEW q \in Nat, Stored(d, g, q) \in Values, g = f /\ size < Len(d[f]) => q < size
       PROVE  Stored(h, g, q) = Stored(d, g, q)
  <2>1. CASE g # f
    BY <1>7, <2>1 DEF Stored
  <2>2. CASE g = f
    <3>1. q < Len(d[f])
      BY <1>10, <2>2, PagerAssumption DEF Stored
    <3>2. q < size
      BY <1>3, <1>10, <2>2, <3>1
    <3>3. q + 1 \in 1 .. size /\ q + 1 <= Len(d[f])
      BY <1>3, <3>1, <3>2
    <3>4. e[q + 1] = d[f][q + 1]
      BY <1>5, <3>3
    <3>5. QED  BY <1>4, <1>7, <2>2, <3>1, <3>2, <3>4 DEF Stored
  <2>3. QED  BY <2>1, <2>2
<1>11. ASSUME NEW given, \A q \in Pages : size <= q /\ q < Len(d[f]) => <<f, q>> \in given
       PROVE  Passes(sl, d, {}, sl, h, {}, given)
  <2> SUFFICES ASSUME NEW g \in Files, NEW p \in Pages, NEW v \in Values,
                      <<g, p>> \notin given, Shows(sl, d, {}, g, p, v)
               PROVE  Shows(sl, h, {}, g, p, v)
    BY DEF Passes
  <2>1. ASSUME \A x \in Kept(sl, {}) : ~(sl[x].file = g /\ sl[x].page = p) PROVE Stored(h, g, p) = v
    <3>1. Stored(d, g, p) = v /\ p \in Nat
      BY <2>1 DEF Shows, Pages
    <3>2. g = f => ~(size <= p /\ p < Len(d[f]))
      BY <1>11
    <3>3. g = f => p < Len(d[f])
      BY <3>1, PagerAssumption DEF Stored
    <3>4. g = f /\ size < Len(d[f]) => p < size
      BY <1>3, <3>1, <3>2, <3>3
    <3>5. QED  BY <1>10, <3>1, <3>4
  <2>2. QED  BY <2>1 DEF Shows
<1>12. ASSUME CleanRows(sl, d, {}), \A x \in Kept(sl, {}) : sl[x].file = f /\ size < Len(d[f]) => sl[x].page < size
       PROVE  CleanRows(sl, h, {})
  <2> SUFFICES ASSUME NEW m \in Heads(sl, {}), sl[m].mark = 0, NEW x \in RangeOf(sl, m), sl[x].data \in Values
               PROVE  sl[x].data = Stored(h, sl[x].file, sl[x].page)
    BY DEF CleanRows, Good
  <2>1. x \in Kept(sl, {}) /\ x \in 0 .. N - 1
    BY <1>1, <1>2 DEF Rows, Kept
  <2>2. sl[x].file \in Files /\ sl[x].page \in Nat
    BY <1>1, <1>2, <2>1, Fields DEF Plain
  <2>3. sl[x].data = Stored(d, sl[x].file, sl[x].page)
    BY <1>12 DEF CleanRows, Good
  <2>4. QED  BY <1>10, <1>12, <2>1, <2>2, <2>3
<1>13. Len(h[f]) = size
  BY <1>4, <1>7
<1>14. /\ Sound(u, N, {}) /\ u.slots = sl /\ u.addrmap = s.addrmap /\ Len(u.disk[f]) = size
       /\ \A g \in Files : g # f => u.disk[g] = d[g]
       /\ \A given :
            (\A q \in Pages : size <= q /\ q < Len(d[f]) => <<f, q>> \in given)
            => Passes(sl, d, {}, u.slots, u.disk, {}, given)
       /\ CleanRows(sl, d, {})
          /\ (\A x \in Kept(sl, {}) : sl[x].file = f /\ size < Len(d[f]) => sl[x].page < size)
          => CleanRows(u.slots, u.disk, {})
  BY <1>7, <1>8, <1>9, <1>11, <1>12, <1>13
<1>15. IsSized(s, f, size, u, N)
  BY <1>14 DEF IsSized, sl, d
<1>16. QED  BY <1>6, <1>15

\* A pool of free slots is sound, and clean.
LEMMA PoolSound ==
  ASSUME NEW N \in Nat \ {0}, NEW d \in Disks
  PROVE  LET u == [slots |-> [x \in 0 .. N - 1 |-> FreeSlot], addrmap |-> << >>, disk |-> d]
         IN  /\ Sound(u, N, {}) /\ Kept(u.slots, {}) = {} /\ Heads(u.slots, {}) = {}
             /\ CleanRows(u.slots, d, {})
<1> DEFINE t == [x \in 0 .. N - 1 |-> FreeSlot]  u == [slots |-> t, addrmap |-> << >>, disk |-> d]
<1>1. FreeSlot \in SlotType /\ FreeSlot.free = TRUE /\ FreeSlot.lock = 0
  BY PagerAssumption DEF FreeSlot, SlotType, Pages
<1>2. t \in [0 .. N - 1 -> SlotType] /\ \A x \in 0 .. N - 1 : t[x] = FreeSlot
  BY <1>1
<1> HIDE DEF t
<1>3. Kept(t, {}) = {} /\ Heads(t, {}) = {}
  BY <1>1, <1>2 DEF Kept, Heads
<1>4. Parted(t, {})
  BY <1>1, <1>2, <1>3 DEF Parted, Rows, Owned, Once, Plain
<1>5. Mapped(<< >>, t, {})
  BY <1>3 DEF Mapped, MapsTo
<1>6. CleanRows(t, d, {})
  BY <1>3 DEF CleanRows
<1>7. u.slots = t /\ u.addrmap = << >> /\ u.disk = d /\ u = [slots |-> t, addrmap |-> << >>, disk |-> d]
  OBVIOUS
<1>8. Sound(u, N, {})
  BY <1>2, <1>4, <1>5, <1>7 DEF Sound, Disks
<1>9. QED  BY <1>3, <1>6, <1>7, <1>8 DEF t
-----------------------------------------------------------------------------
\* A call that only changes locks and marks is an answer.
LEMMA MarksCalled ==
  ASSUME NEW N \in Nat, NEW s, Sound(s, N, {}), NEW u, Marks(s, u, N), u.disk = s.disk,
         \A x \in 0 .. N - 1 : u.slots[x].lock >= s.slots[x].lock - 1,
         NEW given,
         \A x \in 0 .. N - 1 : <<s.slots[x].file, s.slots[x].page>> \notin given => u.slots[x].data = s.slots[x].data
  PROVE  Called(s, u, N, given)
<1> DEFINE sl == s.slots  t == u.slots
<1>1. sl \in [0 .. N - 1 -> SlotType] /\ t \in [0 .. N - 1 -> SlotType] /\ Sound(u, N, {}) /\ s.disk \in Disks
  BY DEF Sound, Marks, Disks
<1>2. SameRanges(sl, t, N) /\ Alike(sl, t, N)
  BY DEF Marks
<1>3. Firm(sl, sl)
  BY DEF Firm
<1>4. /\ \A x \in 0 .. N - 1 : t[x].lock >= sl[x].lock - 1
      /\ \A x \in 0 .. N - 1 : <<sl[x].file, sl[x].page>> \notin given => t[x].data = sl[x].data
  OBVIOUS
<1> HIDE DEF sl, t
<1>5. Held(sl, t)
  BY <1>1, <1>2, <1>3, <1>4, FirmHeld
<1>6. Passes(sl, s.disk, {}, t, s.disk, {}, given)
  BY <1>1, <1>2, <1>4, AlikePasses
<1>7. \A g \in Files : Len(s.disk[g]) \in Nat
  BY <1>1 DEF Disks
<1>8. QED  BY <1>1, <1>5, <1>6, <1>7 DEF Called, sl, t

\* What a step of the pager keeps.
Answers(given) ==
  \E K \in Nat \ {0} :
    /\ Called(Cache, Cache', K, given)
    /\ Liberties = {} /\ CleanRows(slots, disk, {}) => CleanRows(slots', disk', {})

\* The fields of the cache are the variables.
LEMMA CacheParts ==
  /\ Cache.slots = slots /\ Cache.addrmap = addrmap /\ Cache.disk = disk
  /\ Cache' = [slots |-> slots', addrmap |-> addrmap', disk |-> disk']
  /\ Cache'.slots = slots' /\ Cache'.disk = disk'
BY DEF Cache

\* A step that gives the cache a sound state gives the variables its fields.
LEMMA Becomes ==
  ASSUME NEW u, NEW K, Sound(u, K, {}), Become(u)
  PROVE  Cache' = u /\ slots' = u.slots /\ disk' = u.disk
<1>1. u = [slots |-> u.slots, addrmap |-> u.addrmap, disk |-> u.disk]
  BY DEF Sound
<1>2. QED  BY <1>1, CacheParts DEF Become

\* A step that leads to an answer is one.
LEMMA Answered ==
  ASSUME NEW K \in Nat \ {0}, NEW u, Cache' = u, NEW given, Called(Cache, u, K, given),
         Liberties = {} /\ CleanRows(slots, disk, {}) => CleanRows(u.slots, u.disk, {})
  PROVE  Answers(given)
<1>1. slots' = u.slots /\ disk' = u.disk
  BY CacheParts
<1>2. QED  BY <1>1 DEF Answers

\* The masters in addrmap_ are the masters of the pool.
LEMMA HeadOf ==
  ASSUME NEW N \in Nat, Sound(Cache, N, {})
  PROVE  /\ {addrmap[k] : k \in DOMAIN addrmap} = Heads(slots, {})
         /\ \A k \in DOMAIN addrmap : addrmap[k] \in Heads(slots, {}) /\ k = Key(slots, addrmap[k])
         /\ slots \in [0 .. N - 1 -> SlotType] /\ Parted(slots, {}) /\ Mapped(addrmap, slots, {})
         /\ disk \in Disks
<1>1. slots \in [0 .. N - 1 -> SlotType] /\ Parted(slots, {}) /\ Mapped(addrmap, slots, {}) /\ disk \in Disks
  BY CacheParts DEF Sound, Disks
<1>2. QED  BY <1>1, HeadOfMapped DEF Parted

\* A step that locks a range is an answer.
LEMMA LockedAnswers ==
  ASSUME NEW N \in Nat \ {0}, Sound(Cache, N, {}), NEW m \in Heads(slots, {}), NEW lk \in BOOLEAN,
         CanLock(slots, m, lk), slots' = Locked(slots, m, lk), addrmap' = addrmap, disk' = disk
  PROVE  Answers({})
<1> DEFINE u == [slots |-> Locked(slots, m, lk), addrmap |-> addrmap, disk |-> disk]
<1>1. /\ Marks(Cache, u, N)
      /\ \A x \in 0 .. N - 1 : u.slots[x].lock >= slots[x].lock /\ u.slots[x].data = slots[x].data
      /\ CleanRows(slots, disk, {}) => CleanRows(u.slots, u.disk, {})
  BY LockSound, CacheParts
<1>2. Cache' = u /\ u.disk = disk
  BY CacheParts
<1> HIDE DEF u
<1>3. \A x \in 0 .. N - 1 : slots[x].lock \in Nat /\ u.slots[x].lock \in Nat
  BY <1>1, HeadOf, Fields DEF Marks, Sound
<1>4. \A x \in 0 .. N - 1 : u.slots[x].lock >= slots[x].lock - 1
  BY <1>1, <1>3
<1>5. Called(Cache, u, N, {})
  BY <1>1, <1>2, <1>4, MarksCalled, CacheParts
<1>6. QED  BY <1>1, <1>2, <1>5, Answered

\* A request found in one range is an answer.
LEMMA FetchHitAnswers ==
  ASSUME NEW N \in Nat \ {0}, Sound(Cache, N, {}), NEW f \in Files, NEW p \in Pages, NEW n \in Counts,
         NEW lk \in BOOLEAN, FetchHit(f, p, n, lk)
  PROVE  Answers({})
<1> DEFINE m == addrmap[<<f, p>>]
<1>1. m \in Heads(slots, {}) /\ CanLock(slots, m, lk) /\ slots' = Locked(slots, m, lk)
      /\ addrmap' = addrmap /\ disk' = disk
  BY HeadOf DEF FetchHit, Exact
<1> HIDE DEF m
<1>2. QED  BY <1>1, LockedAnswers

\* A request not found in one range is a request, and nothing it overlaps is
\* locked.
LEMMA OtherAsked ==
  ASSUME NEW f \in Files, NEW p \in Pages, NEW n \in Counts, Other(f, p, n)
  PROVE  Asked(f, p, n) /\ \A m \in Overlapping(Cache, f, p, n) : Cache.slots[m].lock = 0
<1>1. p \in Int /\ n \in Int
  BY PagerAssumption DEF Pages, Counts
<1>2. (p + n) - 1 \in Pages
  BY <1>1 DEF Other
<1>3. QED  BY <1>2, CacheParts DEF Other, Asked

\* Without liberties a sum of mark counts does not wrap.
LEMMA SumFits ==
  ASSUME Liberties = {}, NEW sum, MarksFit(sum)
  PROVE  sum < MarkMod
BY DEF MarksFit

\* A request that joins ranges where they are is an answer.
LEMMA FetchJoinAnswers ==
  ASSUME NEW N \in Nat \ {0}, Sound(Cache, N, {}), NEW f \in Files, NEW p \in Pages, NEW n \in Counts,
         NEW lk \in BOOLEAN, FetchJoin(f, p, n, lk)
  PROVE  Answers({})
<1> DEFINE H == Common(Cache, f, p, n)  c == ProcessOverlaps(Cache, f, p, n)  t == Assemble(c, H)
           u == [t EXCEPT !.slots = Locked(@, Min(H), lk)]
<1>1. Asked(f, p, n) /\ \A m \in Overlapping(Cache, f, p, n) : Cache.slots[m].lock = 0
  BY OtherAsked DEF FetchJoin
<1>2. Uninterrupted(Cache.slots, H, n)
  BY CacheParts DEF FetchJoin, Joins
<1>3. MarksFit(MarkSum(c.slots, H)) /\ CanLock(t.slots, Min(H), lk) /\ Become(u)
  BY DEF FetchJoin
<1>4. /\ Serves(Cache, t, N, Min(H), f, p, n, {})
      /\ CleanRows(Cache.slots, Cache.disk, {}) /\ MarkSum(c.slots, H) < MarkMod
         => CleanRows(t.slots, t.disk, {})
  BY <1>1, <1>2, JoinRequest
<1>5. Cache.slots = slots /\ Cache.disk = disk
  BY CacheParts
<1> HIDE DEF H, c, t
<1>6. /\ Called(Cache, u, N, {})
      /\ CleanRows(t.slots, t.disk, {}) => CleanRows(u.slots, u.disk, {})
  BY <1>3, <1>4, ServedLocked
<1> HIDE DEF u
<1>7. Sound(u, N, {})
  BY <1>6 DEF Called
<1>8. Cache' = u
  BY <1>3, <1>7, Becomes
<1>9. Liberties = {} => MarkSum(c.slots, H) < MarkMod
  BY <1>3, SumFits
<1>10. QED  BY <1>4, <1>5, <1>6, <1>8, <1>9, Answered

\* A request that makes a new range is an answer.
LEMMA FetchMissAnswers ==
  ASSUME NEW N \in Nat \ {0}, Sound(Cache, N, {}), NEW f \in Files, NEW p \in Pages, NEW n \in Counts,
         NEW lk \in BOOLEAN, FetchMiss(f, p, n, lk)
  PROVE  Answers({})
<1> DEFINE H == Common(Cache, f, p, n)  c == ProcessOverlaps(Cache, f, p, n)
<1>1. Asked(f, p, n) /\ \A m \in Overlapping(Cache, f, p, n) : Cache.slots[m].lock = 0
  BY OtherAsked DEF FetchMiss
<1>2. PICK at \in Places(c, n, H) :
         LET t == Fill(MakeRange(c, at, n), at, n, f, p, H)
         IN  CanLock(t.slots, at, lk) /\ Become([t EXCEPT !.slots = Locked(@, at, lk)])
  BY DEF FetchMiss
<1> DEFINE r == MakeRange(c, at, n)  t == Fill(r, at, n, f, p, H)  u == [t EXCEPT !.slots = Locked(@, at, lk)]
<1>3. MarksFit(MarkSum(c.slots, H)) /\ CanLock(t.slots, at, lk) /\ Become(u)
  BY <1>2 DEF FetchMiss
<1>4. Ready(Cache, c, H, r, N, at, n, f, p)
  BY <1>1, MakeRequest
<1>5. Cache.slots = slots /\ Cache.disk = disk
  BY CacheParts
<1> HIDE DEF H, c, r
<1>6. /\ Serves(Cache, t, N, at, f, p, n, {})
      /\ CleanRows(Cache.slots, Cache.disk, {}) /\ MarkSum(c.slots, H) < MarkMod
         => CleanRows(t.slots, t.disk, {})
  BY <1>1, <1>4, FillRequest
<1> HIDE DEF t
<1>7. /\ Called(Cache, u, N, {})
      /\ CleanRows(t.slots, t.disk, {}) => CleanRows(u.slots, u.disk, {})
  BY <1>3, <1>6, ServedLocked
<1> HIDE DEF u
<1>8. Cache' = u
  BY <1>3, <1>7, Becomes DEF Called
<1>9. Liberties = {} => MarkSum(c.slots, H) < MarkMod
  BY <1>3, SumFits
<1>10. QED  BY <1>5, <1>6, <1>7, <1>8, <1>9, Answered

\* A request that finds no place fails, and has cut nothing that is lost, if
\* none of its pages was cached.
LEMMA FailsAnswers ==
  ASSUME NEW N \in Nat \ {0}, Sound(Cache, N, {}), NEW f \in Files, NEW p \in Pages, NEW n \in Counts,
         NoCacheSpace(f, p, n), "full" \notin Liberties
  PROVE  Answers({})
<1> DEFINE H == Common(Cache, f, p, n)  c == ProcessOverlaps(Cache, f, p, n)
<1>1. Asked(f, p, n) /\ \A m \in Overlapping(Cache, f, p, n) : Cache.slots[m].lock = 0
  BY OtherAsked DEF NoCacheSpace
<1>2. H = {} /\ Become(c)
  BY DEF NoCacheSpace
<1>3. Cache.slots = slots /\ Cache.disk = disk
  BY CacheParts
<1>4. Sound(c, N, H) /\ c.disk = Cache.disk
  BY <1>1, ProcessSound
<1>5. /\ CleanRows(Cache.slots, Cache.disk, {}) =>
           CleanRows(c.slots, c.disk, H) /\ CleanLoose(c.slots, c.disk, H)
      /\ Firm(Cache.slots, c.slots)
      /\ Passes(Cache.slots, Cache.disk, {}, c.slots, c.disk, {}, {})
  BY <1>1, ProcessKeeps
<1> HIDE DEF H, c
<1>6. Sound(c, N, {})
  BY <1>2, <1>4
<1>7. Cache' = c
  BY <1>2, <1>6, Becomes
<1>8. Held(Cache.slots, c.slots)
  <2>1. \A m \in DOMAIN slots : slots[m].lock \in Nat
    BY HeadOf, Fields
  <2>2. QED  BY <1>3, <1>5, <2>1 DEF Held, Firm
<1>9. \A g \in Files : Len(c.disk[g]) >= Len(Cache.disk[g])
  <2>1. \A g \in Files : Len(disk[g]) \in Nat
    BY HeadOf DEF Disks
  <2>2. QED  BY <1>3, <1>4, <2>1
<1>10. Called(Cache, c, N, {})
  BY <1>5, <1>6, <1>8, <1>9 DEF Called
<1>11. QED  BY <1>2, <1>3, <1>5, <1>7, <1>10, Answered

\* lock changes nothing that is seen.
LEMMA LockAnswers ==
  ASSUME NEW N \in Nat \ {0}, Sound(Cache, N, {}), NEW m, Lock(m)
  PROVE  Answers({})
<1>1. PICK lk \in BOOLEAN : lk = TRUE
  OBVIOUS
<1>2. m \in Heads(slots, {}) /\ CanLock(slots, m, lk) /\ slots' = Locked(slots, m, lk)
      /\ addrmap' = addrmap /\ disk' = disk
  BY <1>1, HeadOf DEF Lock
<1>3. QED  BY <1>2, LockedAnswers

\* unlock changes nothing that is seen.
LEMMA UnlockAnswers ==
  ASSUME NEW N \in Nat \ {0}, Sound(Cache, N, {}), NEW m, Unlock(m)
  PROVE  Answers({})
<1> DEFINE t == [slots EXCEPT ![m].lock = Less(@)]  u == [slots |-> t, addrmap |-> addrmap, disk |-> disk]
<1>1. m \in Heads(slots, {}) /\ slots' = t /\ addrmap' = addrmap /\ disk' = disk
  BY HeadOf DEF Unlock
<1>2. /\ slots \in [0 .. N - 1 -> SlotType] /\ Parted(slots, {}) /\ Mapped(addrmap, slots, {}) /\ disk \in Disks
      /\ m \in 0 .. N - 1
  BY <1>1, HeadOf, HeadIn
<1>3. slots[m].lock \in 0 .. MaxLock /\ MaxLock \in Nat
  BY <1>2, Fields, PagerAssumption
<1>4. /\ Less(slots[m].lock) \in 0 .. MaxLock /\ Less(slots[m].lock) >= slots[m].lock - 1
      /\ Less(slots[m].lock) <= slots[m].lock
  BY <1>3 DEF Less
<1>5. \A x \in 0 .. N - 1 : t[x] = IF x = m THEN [slots[m] EXCEPT !.lock = Less(@)] ELSE slots[x]
  BY <1>2
<1>6. DOMAIN t = 0 .. N - 1 /\ t = [x \in 0 .. N - 1 |-> t[x]]
  BY <1>2
<1> HIDE DEF t
<1>7. ASSUME NEW x \in 0 .. N - 1
      PROVE  /\ t[x] \in SlotType
             /\ t[x].free = slots[x].free /\ t[x].file = slots[x].file /\ t[x].page = slots[x].page
             /\ t[x].masters = slots[x].masters /\ t[x].data = slots[x].data /\ t[x].mark = slots[x].mark
             /\ (x # m => t[x] = slots[x]) /\ (x = m => t[x].lock = Less(slots[m].lock))
  <2>1. slots[x] \in SlotType
    BY <1>2
  <2>2. t[x] = IF x = m THEN [slots[x] EXCEPT !.lock = Less(slots[m].lock)] ELSE slots[x]
    BY <1>5
  <2>3. QED  BY <1>4, <2>1, <2>2 DEF SlotType
<1>8. t \in [0 .. N - 1 -> SlotType]
  BY <1>6, <1>7
<1>9. \A x \in 0 .. N - 1 : slots[x].lock \in Nat
  BY <1>2, Fields
<1>10. Alike(slots, t, N)
  <2>1. slots[m].free = FALSE
    BY <1>1, <1>2, Fields DEF Heads, Kept
  <2>2. \A x \in 0 .. N - 1 : slots[x].free => t[x] = slots[x]
    BY <1>7, <2>1
  <2>3. \A x \in 0 .. N - 1 : slots[x].lock > 0 => x \in Heads(slots, {})
    BY <1>2 DEF Parted, Plain
  <2>4. \A x \in 0 .. N - 1 : t[x].lock > 0 => x \in Heads(slots, {})
    BY <1>1, <1>7, <2>3
  <2>5. QED  BY <1>7, <2>2, <2>4 DEF Alike
<1>11. Cache' = u /\ u.slots = t /\ u.disk = disk
  BY <1>1, CacheParts
<1>12. Sound(u, N, {}) /\ SameRanges(slots, t, N)
  BY <1>2, <1>8, <1>10, AlikeSound, CacheParts
<1> HIDE DEF u
<1>13. Marks(Cache, u, N)
  BY <1>10, <1>11, <1>12, CacheParts DEF Marks
<1>14. \A x \in 0 .. N - 1 : t[x].lock >= slots[x].lock - 1
  BY <1>4, <1>7, <1>9
<1>15. Called(Cache, u, N, {})
  BY <1>7, <1>11, <1>13, <1>14, MarksCalled, CacheParts
<1>16. CleanRows(slots, disk, {}) => CleanRows(t, disk, {})
  <2>1. Rows(slots, {})
    BY <1>2 DEF Parted
  <2>2. \A k \in Heads(slots, {}) : \A x \in RangeOf(slots, k) : t[x].data = slots[x].data
    BY <1>2, <1>7, <2>1 DEF Rows, Kept
  <2>3. \A k \in Heads(slots, {}) : t[k].mark = slots[k].mark
    BY <1>2, <1>7 DEF Heads, Kept
  <2>4. QED  BY <1>2, <1>10, <1>12, <2>1, <2>2, <2>3, AlikeClean
<1>17. QED  BY <1>11, <1>15, <1>16, Answered
\* Taking a mark off changes nothing that is seen; clients take the last one
\* off when the range is on disk as it is.
LEMMA UnmarkAnswers ==
  ASSUME NEW N \in Nat \ {0}, Sound(Cache, N, {}), NEW m, Unmark(m)
  PROVE  Answers({})
<1> DEFINE t == [slots EXCEPT ![m].mark = Less(@)]  u == [slots |-> t, addrmap |-> addrmap, disk |-> disk]
<1>1. m \in Heads(slots, {}) /\ slots' = t /\ addrmap' = addrmap /\ disk' = disk
  BY HeadOf DEF Unmark
<1>2. /\ slots \in [0 .. N - 1 -> SlotType] /\ Parted(slots, {}) /\ Mapped(addrmap, slots, {}) /\ disk \in Disks
      /\ m \in 0 .. N - 1
  BY <1>1, HeadOf, HeadIn
<1>3. slots[m].mark \in 0 .. MarkMod - 1 /\ MarkMod \in Nat
  BY <1>2, Fields, PagerAssumption
<1>4. /\ Less(slots[m].mark) \in 0 .. MarkMod - 1
      /\ (slots[m].mark # 1 /\ Less(slots[m].mark) = 0 => slots[m].mark = 0)
  BY <1>3 DEF Less
<1>5. \A x \in 0 .. N - 1 : t[x] = IF x = m THEN [slots[m] EXCEPT !.mark = Less(@)] ELSE slots[x]
  BY <1>2
<1>6. DOMAIN t = 0 .. N - 1 /\ t = [x \in 0 .. N - 1 |-> t[x]]
  BY <1>2
<1> HIDE DEF t
<1>7. ASSUME NEW x \in 0 .. N - 1
      PROVE  /\ t[x] \in SlotType
             /\ t[x].free = slots[x].free /\ t[x].file = slots[x].file /\ t[x].page = slots[x].page
             /\ t[x].masters = slots[x].masters /\ t[x].data = slots[x].data /\ t[x].lock = slots[x].lock
             /\ (x # m => t[x] = slots[x]) /\ (x = m => t[x].mark = Less(slots[m].mark))
  <2>1. slots[x] \in SlotType
    BY <1>2
  <2>2. t[x] = IF x = m THEN [slots[x] EXCEPT !.mark = Less(slots[m].mark)] ELSE slots[x]
    BY <1>5
  <2>3. QED  BY <1>4, <2>1, <2>2 DEF SlotType
<1>8. t \in [0 .. N - 1 -> SlotType]
  BY <1>6, <1>7
<1>9. \A x \in 0 .. N - 1 : slots[x].lock \in Nat
  BY <1>2, Fields
<1>10. Alike(slots, t, N)
  <2>1. slots[m].free = FALSE
    BY <1>1, <1>2, Fields DEF Heads, Kept
  <2>2. \A x \in 0 .. N - 1 : slots[x].free => t[x] = slots[x]
    BY <1>7, <2>1
  <2>3. \A x \in 0 .. N - 1 : slots[x].lock > 0 => x \in Heads(slots, {})
    BY <1>2 DEF Parted, Plain
  <2>4. \A x \in 0 .. N - 1 : t[x].lock > 0 => x \in Heads(slots, {})
    BY <1>1, <1>7, <2>3
  <2>5. QED  BY <1>7, <2>2, <2>4 DEF Alike
<1>11. Cache' = u /\ u.slots = t /\ u.disk = disk
  BY <1>1, CacheParts
<1>12. Sound(u, N, {}) /\ SameRanges(slots, t, N)
  BY <1>2, <1>8, <1>10, AlikeSound, CacheParts
<1> HIDE DEF u
<1>13. Marks(Cache, u, N)
  BY <1>10, <1>11, <1>12, CacheParts DEF Marks
<1>14. \A x \in 0 .. N - 1 : t[x].lock >= slots[x].lock - 1
  BY <1>7, <1>9
<1>15. Called(Cache, u, N, {})
  BY <1>7, <1>11, <1>13, <1>14, MarksCalled, CacheParts
<1>16. CleanRows(slots, disk, {}) => CleanRows(t, disk, {})
  <2>1. Rows(slots, {})
    BY <1>2 DEF Parted
  <2>2. \A k \in Heads(slots, {}) : \A x \in RangeOf(slots, k) : t[x].data = slots[x].data
    BY <1>2, <1>7, <2>1 DEF Rows, Kept
  <2>3. ASSUME NEW k \in Heads(slots, {}), t[k].mark = 0, slots[k].mark # 0
        PROVE  \A x \in RangeOf(slots, k) : Good(disk, t, x)
    <3>1. k \in 0 .. N - 1 /\ k = m
      BY <1>2, <1>7, <2>3 DEF Heads, Kept
    <3>2. slots[m].mark = 1
      BY <1>4, <1>7, <2>3, <3>1
    <3>3. \A x \in RangeOf(slots, m) : slots[x].data = Stored(disk, slots[x].file, slots[x].page)
      BY <3>2 DEF Unmark
    <3>4. \A x \in RangeOf(slots, m) : x \in 0 .. N - 1
      BY <1>1, <1>2, <2>1 DEF Rows, Kept
    <3>5. QED  BY <1>7, <3>1, <3>3, <3>4 DEF Good
  <2>4. \A k \in Heads(slots, {}) : t[k].mark = 0 =>
           \/ slots[k].mark = 0 /\ \A x \in RangeOf(slots, k) : t[x].data = slots[x].data
           \/ \A x \in RangeOf(slots, k) : Good(disk, t, x)
    BY <2>2, <2>3
  <2>5. QED  BY <1>2, <1>10, <1>12, <2>1, <2>4, AlikeClean
<1>17. QED  BY <1>11, <1>15, <1>16, Answered

-----------------------------------------------------------------------------
\* The masters of a file are those in the pool.
LEMMA MastersAre ==
  ASSUME NEW N \in Nat, Sound(Cache, N, {}), NEW f
  PROVE  MastersOf(f) = {m \in Heads(slots, {}) : slots[m].file = f}
<1>1. \A k \in DOMAIN addrmap : addrmap[k] \in Heads(slots, {}) /\ k[1] = slots[addrmap[k]].file
  BY HeadOf DEF Key
<1>2. \A m \in Heads(slots, {}) : <<slots[m].file, slots[m].page>> \in DOMAIN addrmap
                                  /\ addrmap[<<slots[m].file, slots[m].page>>] = m
  BY HeadOf DEF Key, Mapped, MapsTo
<1>3. ASSUME NEW m \in Heads(slots, {}), slots[m].file = f PROVE m \in MastersOf(f)
  <2> DEFINE k == <<slots[m].file, slots[m].page>>
  <2>1. k \in DOMAIN addrmap /\ addrmap[k] = m /\ k[1] = f
    BY <1>2, <1>3
  <2> HIDE DEF k
  <2>2. QED  BY <2>1 DEF MastersOf
<1>4. QED  BY <1>1, <1>3 DEF MastersOf

\* What is firm is held.
LEMMA FirmIsHeld ==
  ASSUME NEW N \in Nat, NEW sl \in [0 .. N - 1 -> SlotType], NEW t, Firm(sl, t)
  PROVE  Held(sl, t)
<1>1. \A m \in DOMAIN sl : sl[m].lock \in Nat
  BY Fields
<1>2. QED  BY <1>1 DEF Held, Firm

\* Writing ranges moves nothing that is locked.
LEMMA DumpFirm ==
  ASSUME NEW N \in Nat, NEW s, Sound(s, N, {}), NEW S, NEW u, IsDump(s, S, u, N)
  PROVE  Firm(s.slots, u.slots)
<1>1. s.slots \in [0 .. N - 1 -> SlotType] /\ u.slots \in [0 .. N - 1 -> SlotType]
  BY DEF Sound, IsDump, Marks
<1>2. \A x \in 0 .. N - 1 : /\ u.slots[x].lock = s.slots[x].lock /\ u.slots[x].file = s.slots[x].file
                           /\ u.slots[x].page = s.slots[x].page /\ u.slots[x].masters = s.slots[x].masters
  BY DEF IsDump, Marks, Alike
<1>3. QED  BY <1>1, <1>2 DEF Firm, Key

\* commit changes nothing that is seen.
LEMMA CommitAnswers ==
  ASSUME NEW N \in Nat \ {0}, Sound(Cache, N, {}), NEW f, Commit(f)
  PROVE  Answers({})
<1> DEFINE S == MastersOf(f)  u == Dump(Cache, S)
<1>1. S \subseteq Heads(Cache.slots, {})
  BY MastersAre, CacheParts
<1>2. IsDump(Cache, S, u, N)
  BY <1>1, DumpSound
<1>3. Become(u)
  BY DEF Commit
<1>4. Cache.slots = slots /\ Cache.disk = disk
  BY CacheParts
<1> HIDE DEF S, u
<1>5. Sound(u, N, {})
  BY <1>2 DEF IsDump, Marks
<1>6. Firm(Cache.slots, u.slots) /\ Cache.slots \in [0 .. N - 1 -> SlotType]
  BY <1>2, DumpFirm DEF Sound
<1>7. Held(Cache.slots, u.slots)
  BY <1>6, FirmIsHeld
<1>8. Called(Cache, u, N, {}) /\ (CleanRows(slots, disk, {}) => CleanRows(u.slots, u.disk, {}))
  BY <1>2, <1>4, <1>5, <1>7 DEF Called, IsDump
<1>9. QED  BY <1>3, <1>5, <1>8, Becomes, Answered

\* detach writes what it frees, so that nothing is lost.
LEMMA DetachAnswers ==
  ASSUME NEW N \in Nat \ {0}, Sound(Cache, N, {}), NEW f, Detach(f)
  PROVE  Answers({})
<1> DEFINE S == MastersOf(f)  w == Dump(Cache, S)  u == FreeRanges(w, S)
<1>1. S \subseteq Heads(Cache.slots, {}) /\ \A m \in S : slots[m].lock = 0
  BY MastersAre, CacheParts DEF Detach
<1>2. IsDump(Cache, S, w, N)
  BY <1>1, DumpSound
<1>3. Become(u)
  BY DEF Detach
<1>4. Cache.slots = slots /\ Cache.disk = disk /\ slots \in [0 .. N - 1 -> SlotType]
  BY CacheParts DEF Sound
<1> HIDE DEF S, w
<1>5. Sound(w, N, {}) /\ SameRanges(slots, w.slots, N) /\ Firm(slots, w.slots)
  BY <1>2, <1>4, DumpFirm DEF IsDump, Marks
<1>6. S \subseteq Heads(w.slots, {}) /\ \A m \in S : w.slots[m].lock = 0 /\ w.slots[m].mark = 0
  <2>1. \A m \in S : m \in 0 .. N - 1
    BY <1>1, <1>4 DEF Heads, Kept
  <2>2. QED  BY <1>1, <1>2, <1>4, <1>5, <2>1 DEF IsDump, SameRanges
<1>7. IsFreed(w, S, u, N)
  BY <1>5, <1>6, FreeSound
<1> HIDE DEF u
<1>8. Sound(u, N, {}) /\ u.disk = w.disk /\ Firm(w.slots, u.slots)
  BY <1>7 DEF IsFreed
<1>9. Held(slots, u.slots)
  BY <1>4, <1>5, <1>8, FirmTrans, FirmIsHeld
<1>10. ASSUME CleanRows(slots, disk, {})
       PROVE  CleanRows(u.slots, u.disk, {}) /\ Passes(slots, disk, {}, u.slots, u.disk, {}, {})
  <2>1. CleanRows(w.slots, w.disk, {}) /\ Passes(slots, disk, {}, w.slots, w.disk, {}, {})
    BY <1>2, <1>4, <1>10 DEF IsDump
  <2>2. \A x \in Spread(w.slots, S) : Good(w.disk, w.slots, x)
    BY <1>6, <2>1 DEF Spread, CleanRows
  <2>3. Passes(w.slots, w.disk, {}, u.slots, u.disk, {}, {})
    BY <1>5, <1>6, <1>7, <2>2, FreePasses
  <2>4. CleanRows(u.slots, u.disk, {})
    BY <1>7, <1>8, <2>1 DEF IsFreed
  <2>5. QED  BY <2>1, <2>3, <2>4, PassesTrans
<1>11. \A g \in Files : Len(u.disk[g]) >= Len(Cache.disk[g])
  BY <1>2, <1>8 DEF IsDump
<1>12. Called(Cache, u, N, {})
  BY <1>4, <1>8, <1>9, <1>10, <1>11 DEF Called
<1>13. QED  BY <1>3, <1>8, <1>10, <1>12, Becomes, Answered

\* setPoolSize writes all of the pool before it makes another.
LEMMA SetPoolSizeAnswers ==
  ASSUME NEW N \in Nat \ {0}, Sound(Cache, N, {}), NEW size \in PoolSizes, SetPoolSize(size)
  PROVE  Answers({})
<1> DEFINE S == {addrmap[k] : k \in DOMAIN addrmap}  w == Dump(Cache, S)
           t == [x \in 0 .. size - 1 |-> FreeSlot]
           u == [slots |-> t, addrmap |-> << >>, disk |-> w.disk]
<1>1. S = Heads(slots, {}) /\ S \subseteq Heads(Cache.slots, {})
  BY HeadOf, CacheParts
<1>2. IsDump(Cache, S, w, N)
  BY <1>1, DumpSound
<1>3. disk' = w.disk /\ slots' = t /\ addrmap' = << >> /\ \A x \in DOMAIN slots : slots[x].lock = 0
  BY DEF SetPoolSize
<1>4. Cache.slots = slots /\ Cache.disk = disk /\ slots \in [0 .. N - 1 -> SlotType] /\ size \in Nat \ {0}
  BY PagerAssumption, CacheParts DEF Sound
<1>5. Cache' = u /\ u.disk = w.disk
  BY <1>3, CacheParts
<1> HIDE DEF S, w
<1>6. Sound(w, N, {}) /\ SameRanges(slots, w.slots, N) /\ w.disk \in Disks
  BY <1>2, <1>4 DEF IsDump, Marks, Sound, Disks
<1>7. /\ Sound(u, size, {}) /\ Kept(u.slots, {}) = {}
      /\ CleanRows(u.slots, u.disk, {})
  BY <1>4, <1>5, <1>6, PoolSound
<1> HIDE DEF u
<1>8. Held(slots, u.slots)
  <2>1. \A m \in DOMAIN slots : ~(slots[m].lock > 0)
    BY <1>3
  <2>2. QED  BY <2>1 DEF Held
<1>9. ASSUME CleanRows(slots, disk, {})
      PROVE  Passes(slots, disk, {}, u.slots, u.disk, {}, {})
  <2>1. CleanRows(w.slots, w.disk, {}) /\ Passes(slots, disk, {}, w.slots, w.disk, {}, {})
    BY <1>2, <1>4, <1>9 DEF IsDump
  <2>2. \A m \in Heads(w.slots, {}) : w.slots[m].mark = 0
    BY <1>1, <1>2, <1>6 DEF IsDump, SameRanges
  <2>3. \A x \in Kept(w.slots, {}) : Good(w.disk, w.slots, x)
    BY <1>6, <2>1, <2>2 DEF CleanRows, Sound, Parted, Owned
  <2>4. ASSUME NEW g \in Files, NEW p \in Pages, NEW v \in Values, Shows(w.slots, w.disk, {}, g, p, v)
        PROVE  Shows(u.slots, u.disk, {}, g, p, v)
    <3>1. Stored(w.disk, g, p) = v
      BY <2>3, <2>4 DEF Shows, Good
    <3>2. QED  BY <1>5, <1>7, <3>1 DEF Shows
  <2>5. Passes(w.slots, w.disk, {}, u.slots, u.disk, {}, {})
    BY <2>4 DEF Passes
  <2>6. QED  BY <2>1, <2>5, PassesTrans
<1>10. \A g \in Files : Len(u.disk[g]) >= Len(Cache.disk[g])
  BY <1>2, <1>5 DEF IsDump
<1>11. Called(Cache, u, size, {})
  BY <1>4, <1>7, <1>8, <1>9, <1>10 DEF Called
<1>12. QED  BY <1>4, <1>5, <1>7, <1>11, Answered
-----------------------------------------------------------------------------
\* A step that writes in pages.
Writes ==
  \E f \in Files, first \in Pages, last \in Pages :
    /\ Answers({f} \X (first .. last))
    /\ \E v \in Values : \A q \in first .. last : Shows(slots', disk', {}, f, q, v)

\* A slot that holds a page shows what it contains.
LEMMA ShowsIt ==
  ASSUME NEW t, Once(t, {}), NEW d, NEW x \in Kept(t, {})
  PROVE  Shows(t, d, {}, t[x].file, t[x].page, t[x].data)
BY DEF Shows, Once

\* Writing in a cached page and marking it is a step that writes.
LEMMA PutWrites ==
  ASSUME NEW N \in Nat \ {0}, Sound(Cache, N, {}), NEW m, NEW x, NEW v \in Values, Put(m, x, v)
  PROVE  Writes
<1> DEFINE t == WithData(slots, {x}, m, v)
           u == [slots |-> t, addrmap |-> addrmap, disk |-> disk]
           f == slots[x].file  q == slots[x].page
<1>1. /\ m \in Heads(slots, {}) /\ x \in RangeOf(slots, m) /\ slots[m].mark + 1 < MarkMod
      /\ addrmap' = addrmap /\ disk' = disk
  <2>1. m \in {addrmap[k] : k \in DOMAIN addrmap} /\ x \in RangeOf(slots, m) /\ CanMark(m)
        /\ addrmap' = addrmap /\ disk' = disk
    BY DEF Put
  <2>2. QED  BY <2>1, HeadOf DEF CanMark
<1>2. slots' = t
  BY DEF Put
<1>3. /\ slots \in [0 .. N - 1 -> SlotType] /\ Rows(slots, {}) /\ Once(slots, {}) /\ Plain(slots, {})
      /\ Cache.slots = slots /\ Cache.addrmap = addrmap /\ Cache.disk = disk
  BY HeadOf, CacheParts DEF Parted
<1>4. x \in Kept(slots, {}) /\ x \in 0 .. N - 1
  BY <1>1, <1>3 DEF Rows, Kept
<1>5. f \in Files /\ q \in Pages /\ q \in Nat
  BY <1>3, <1>4, Fields DEF Plain
<1>6. q .. q = {q}
  BY <1>5
<1>7. /\ Marks(Cache, u, N)
      /\ \A y \in 0 .. N - 1 : u.slots[y].lock = slots[y].lock
      /\ \A y \in {x} : u.slots[y].data = v
      /\ \A y \in 0 .. N - 1 : y \notin {x} => u.slots[y].data = slots[y].data
      /\ CleanRows(slots, disk, {}) => CleanRows(u.slots, u.disk, {})
  <2>1. {x} \subseteq RangeOf(slots, m)
    BY <1>1
  <2> DEFINE w == [slots |-> WithData(Cache.slots, {x}, m, v), addrmap |-> Cache.addrmap, disk |-> Cache.disk]
  <2>2. m \in Heads(Cache.slots, {}) /\ Cache.slots[m].mark + 1 < MarkMod /\ {x} \subseteq RangeOf(Cache.slots, m)
    BY <1>1, <1>3, <2>1
  <2>3. /\ Marks(Cache, w, N)
        /\ \A y \in 0 .. N - 1 : w.slots[y].lock = Cache.slots[y].lock
        /\ \A y \in {x} : w.slots[y].data = v
        /\ \A y \in 0 .. N - 1 : y \notin {x} => w.slots[y].data = Cache.slots[y].data
        /\ CleanRows(Cache.slots, Cache.disk, {}) => CleanRows(w.slots, w.disk, {})
    BY <2>2, WrittenSound
  <2>4. w = u
    BY <1>3
  <2> HIDE DEF w, u, t
  <2>5. QED  BY <1>3, <2>3, <2>4
<1>8. Cache' = u /\ u.disk = disk /\ u.slots = t
  BY <1>1, <1>2, CacheParts
<1> HIDE DEF t, u
<1>9. \A y \in 0 .. N - 1 : u.slots[y].lock >= slots[y].lock - 1
  <2>1. \A y \in 0 .. N - 1 : slots[y].lock \in Nat
    BY <1>3, Fields
  <2>2. QED  BY <1>7, <2>1
<1>10. \A y \in 0 .. N - 1 : <<slots[y].file, slots[y].page>> \notin {f} \X (q .. q) => u.slots[y].data = slots[y].data
  BY <1>6, <1>7
<1>11. Called(Cache, u, N, {f} \X (q .. q))
  <2> DEFINE given == {f} \X (q .. q)
  <2>1. \A y \in 0 .. N - 1 : <<slots[y].file, slots[y].page>> \notin given => u.slots[y].data = slots[y].data
    BY <1>10
  <2> HIDE DEF given
  <2>2. Called(Cache, u, N, given)
    BY <1>3, <1>7, <1>8, <1>9, <2>1, MarksCalled
  <2>3. QED  BY <2>2 DEF given
<1>12. Answers({f} \X (q .. q))
  BY <1>7, <1>8, <1>11, Answered
<1>13. Shows(slots', disk', {}, f, q, v)
  <2>1. x \in Kept(t, {}) /\ t[x].file = f /\ t[x].page = q /\ t[x].data = v
    BY <1>3, <1>4, <1>7, <1>8 DEF Marks, SameRanges, Alike
  <2>2. Once(t, {})
    BY <1>7, <1>8 DEF Marks, Sound, Parted
  <2>3. QED  BY <1>2, <2>1, <2>2, ShowsIt
<1>14. \A r \in q .. q : Shows(slots', disk', {}, f, r, v)
  BY <1>6, <1>13
<1>15. QED  BY <1>5, <1>12, <1>14 DEF Writes

\* So is a fake request found in one range,
LEMMA FakeHitWrites ==
  ASSUME NEW N \in Nat \ {0}, Sound(Cache, N, {}), NEW f \in Files, NEW p \in Pages, NEW n \in Counts,
         NEW v \in Values, FakeHit(f, p, n, v)
  PROVE  Writes
<1> DEFINE m == addrmap[<<f, p>>]  D == RangeOf(slots, m)  t == WithData(slots, D, m, v)
           u == [slots |-> t, addrmap |-> addrmap, disk |-> disk]
           last == p + n - 1  given == {f} \X (p .. last)
<1>1. /\ m \in Heads(slots, {}) /\ <<f, p>> = Key(slots, m) /\ slots[m].masters = n
      /\ slots[m].mark + 1 < MarkMod /\ addrmap' = addrmap /\ disk' = disk
  BY HeadOf DEF FakeHit, Exact, CanMark
<1>2. slots' = t
  <2>1. slots' = Overwritten(slots, m, v)
    BY DEF FakeHit
  <2>2. Overwritten(slots, m, v) = WithData(slots, D, m, v)
    BY DEF Overwritten
  <2>3. QED  BY <2>1, <2>2
<1>3. /\ slots \in [0 .. N - 1 -> SlotType] /\ Rows(slots, {}) /\ Once(slots, {}) /\ Plain(slots, {})
      /\ Cache.slots = slots /\ Cache.addrmap = addrmap /\ Cache.disk = disk
  BY HeadOf, CacheParts DEF Parted
<1>4. p \in Nat /\ n \in Nat /\ n > 0
  BY PagerAssumption DEF Pages, Counts
<1> HIDE DEF m
<1>5. slots[m].file = f /\ slots[m].page = p /\ D \subseteq RangeOf(slots, m) /\ m \in 0 .. N - 1
  BY <1>1, <1>3, HeadIn DEF Key
<1>6. /\ Marks(Cache, u, N)
      /\ \A y \in 0 .. N - 1 : u.slots[y].lock = slots[y].lock
      /\ \A y \in D : u.slots[y].data = v
      /\ \A y \in 0 .. N - 1 : y \notin D => u.slots[y].data = slots[y].data
      /\ CleanRows(slots, disk, {}) => CleanRows(u.slots, u.disk, {})
  <2> DEFINE w == [slots |-> WithData(Cache.slots, D, m, v), addrmap |-> Cache.addrmap, disk |-> Cache.disk]
  <2> HIDE DEF D
  <2>1. m \in Heads(Cache.slots, {}) /\ Cache.slots[m].mark + 1 < MarkMod /\ D \subseteq RangeOf(Cache.slots, m)
    BY <1>1, <1>3, <1>5
  <2>2. /\ Marks(Cache, w, N)
        /\ \A y \in 0 .. N - 1 : w.slots[y].lock = Cache.slots[y].lock
        /\ \A y \in D : w.slots[y].data = v
        /\ \A y \in 0 .. N - 1 : y \notin D => w.slots[y].data = Cache.slots[y].data
        /\ CleanRows(Cache.slots, Cache.disk, {}) => CleanRows(w.slots, w.disk, {})
    BY <2>1, WrittenSound
  <2>3. w = u
    BY <1>3
  <2> HIDE DEF w, u, t
  <2>4. QED  BY <1>3, <2>2, <2>3
<1>7. Cache' = u /\ u.disk = disk /\ u.slots = t
  BY <1>1, <1>2, CacheParts
<1> HIDE DEF t, u
<1>8. \A y \in 0 .. N - 1 : u.slots[y].lock >= slots[y].lock - 1
  <2>1. \A y \in 0 .. N - 1 : slots[y].lock \in Nat
    BY <1>3, Fields
  <2>2. QED  BY <1>6, <2>1
<1>9. \A y \in D : slots[y].file = f /\ slots[y].page \in p .. last /\ y \in Kept(slots, {}) /\ y \in 0 .. N - 1
  <2> SUFFICES ASSUME NEW y \in D
               PROVE  slots[y].file = f /\ slots[y].page \in p .. last /\ y \in Kept(slots, {}) /\ y \in 0 .. N - 1
    OBVIOUS
  <2>1. /\ slots[y].file = slots[m].file /\ slots[m].page <= slots[y].page
        /\ slots[y].page < slots[m].page + slots[m].masters /\ slots[y].page \in Nat
        /\ y \in Kept(slots, {}) /\ y \in 0 .. N - 1
    BY SMTT(40), <1>1, <1>3, Cell
  <2>2. QED  BY <1>1, <1>4, <1>5, <2>1
<1>10. \A q \in p .. last : \E y \in D : slots[y].page = q
  <2> SUFFICES ASSUME NEW q \in p .. last PROVE \E y \in D : slots[y].page = q
    OBVIOUS
  <2>1. q \in Nat /\ slots[m].page <= q /\ q < slots[m].page + slots[m].masters
    BY <1>1, <1>4, <1>5
  <2>2. (m + q) - slots[m].page \in RangeOf(slots, m) /\ slots[(m + q) - slots[m].page].page = q
    BY <1>1, <1>3, <2>1, CellAt, SMTT(30)
  <2>3. QED  BY <2>2
<1> HIDE DEF D
<1>11. last \in Pages
  <2>1. last \in p .. last
    BY <1>4
  <2>2. PICK y \in D : slots[y].page = last
    BY <1>10, <2>1
  <2>3. QED  BY <1>3, <1>9, <2>2, Fields
<1>12. Answers(given)
  <2>1. \A y \in 0 .. N - 1 : <<slots[y].file, slots[y].page>> \notin given => u.slots[y].data = slots[y].data
    BY <1>6, <1>9
  <2> HIDE DEF given
  <2>2. Called(Cache, u, N, given)
    BY <1>3, <1>6, <1>7, <1>8, <2>1, MarksCalled
  <2>3. QED  BY <1>6, <1>7, <2>2, Answered
<1>13. ASSUME NEW q \in p .. last PROVE Shows(slots', disk', {}, f, q, v)
  <2>1. PICK x \in D : slots[x].page = q
    BY <1>10, <1>13
  <2>2. x \in Kept(t, {}) /\ t[x].file = f /\ t[x].page = q /\ t[x].data = v
    BY <1>3, <1>6, <1>7, <1>9, <2>1 DEF Marks, SameRanges, Alike
  <2>3. Once(t, {})
    BY <1>6, <1>7 DEF Marks, Sound, Parted
  <2>4. QED  BY <1>2, <2>2, <2>3, ShowsIt
<1> HIDE DEF last
<1>14. QED  BY <1>11, <1>12, <1>13 DEF Writes

\* and a fake request that makes a new range.
LEMMA FakeMissWrites ==
  ASSUME NEW N \in Nat \ {0}, Sound(Cache, N, {}), NEW f \in Files, NEW p \in Pages, NEW n \in Counts,
         NEW v \in Values, FakeMiss(f, p, n, v)
  PROVE  Writes
<1> DEFINE H == Common(Cache, f, p, n)  c == ProcessOverlaps(Cache, f, p, n)  last == p + n - 1
<1>1. /\ Asked(f, p, n) /\ \A m \in Overlapping(Cache, f, p, n) : Cache.slots[m].lock = 0
      /\ last \in Pages
  BY OtherAsked DEF FakeMiss, Other
<1>2. PICK at \in Places(c, n, H) :
         LET t == FillRange(MakeRange(c, at, n), at, n, f, p, H, [q \in p .. p + n - 1 |-> Junk], 0)
         IN  Become([t EXCEPT !.slots = Overwritten(@, at, v)])
  BY DEF FakeMiss
<1> DEFINE r == MakeRange(c, at, n)  t == FillRange(r, at, n, f, p, H, [q \in p .. p + n - 1 |-> Junk], 0)
           u == [t EXCEPT !.slots = Overwritten(@, at, v)]
<1>3. Become(u)
  BY <1>2
<1>4. Ready(Cache, c, H, r, N, at, n, f, p)
  BY <1>1, MakeRequest
<1>5. Cache.slots = slots /\ Cache.disk = disk
  BY CacheParts
<1> HIDE DEF H, c, r
<1>6. /\ Called(Cache, u, N, {f} \X (p .. p + n - 1))
      /\ CleanRows(Cache.slots, Cache.disk, {}) => CleanRows(u.slots, u.disk, {})
      /\ \A q \in p .. p + n - 1 : Shows(u.slots, u.disk, {}, f, q, v)
  BY <1>1, <1>4, FakeRequest
<1> HIDE DEF u
<1>7. Cache' = u /\ slots' = u.slots /\ disk' = u.disk
  BY <1>3, <1>6, Becomes DEF Called
<1>8. Answers({f} \X (p .. last))
  BY <1>5, <1>6, <1>7, Answered
<1>9. \A q \in p .. last : Shows(slots', disk', {}, f, q, v)
  BY <1>6, <1>7
<1> HIDE DEF last
<1>10. QED  BY <1>1, <1>8, <1>9 DEF Writes
-----------------------------------------------------------------------------
\* A step that takes what lies past the new end of a file.
Cuts ==
  \E f \in Files :
    /\ Len(disk'[f]) < Len(disk[f])
    /\ Held(slots, slots')
    /\ \E K \in Nat \ {0} : Sound(Cache', K, {})
    /\ CleanRows(slots, disk, {}) =>
         Passes(slots, disk, {}, slots', disk', {}, {f} \X {p \in Pages : p >= Len(disk'[f])})
    /\ Liberties = {} /\ CleanRows(slots, disk, {}) => CleanRows(slots', disk', {})

\* A file grows, or stays as long as it is.
LEMMA GrowAnswers ==
  ASSUME NEW N \in Nat \ {0}, Sound(Cache, N, {}), NEW f \in Files, NEW size \in Nat,
         Chsize(f, size), ~(size < Len(disk[f]))
  PROVE  Answers({})
<1> DEFINE u == Sized(Cache, f, size)
<1>1. Become(u)
  BY DEF Chsize, Sized
<1>2. IsSized(Cache, f, size, u, N)
  BY SizeSound
<1> HIDE DEF u
<1>3. /\ Sound(u, N, {}) /\ u.slots = Cache.slots /\ Len(u.disk[f]) = size
      /\ \A g \in Files : g # f => u.disk[g] = Cache.disk[g]
      /\ \A given :
           (\A q \in Pages : size <= q /\ q < Len(Cache.disk[f]) => <<f, q>> \in given)
           => Passes(Cache.slots, Cache.disk, {}, u.slots, u.disk, {}, given)
      /\ CleanRows(Cache.slots, Cache.disk, {})
         /\ (\A x \in Kept(Cache.slots, {}) :
               Cache.slots[x].file = f /\ size < Len(Cache.disk[f]) => Cache.slots[x].page < size)
         => CleanRows(u.slots, u.disk, {})
  BY <1>2 DEF IsSized
<1>4. Cache.slots = slots /\ Cache.disk = disk /\ slots \in [0 .. N - 1 -> SlotType] /\ disk \in Disks
  BY HeadOf, CacheParts
<1>5. \A g \in Files : Len(disk[g]) \in Nat
  BY <1>4 DEF Disks
<1>6. \A q \in Pages : ~(size <= q /\ q < Len(disk[f]))
  BY <1>5, PagerAssumption DEF Pages
<1>7. Passes(Cache.slots, Cache.disk, {}, u.slots, u.disk, {}, {})
  BY <1>3, <1>4, <1>6
<1>8. Held(Cache.slots, u.slots)
  <2>1. Firm(slots, u.slots)
    BY <1>3, <1>4 DEF Firm
  <2>2. QED  BY <1>4, <2>1, FirmIsHeld
<1>9. \A g \in Files : Len(u.disk[g]) >= Len(Cache.disk[g])
  BY <1>3, <1>4, <1>5
<1>10. Called(Cache, u, N, {})
  BY <1>3, <1>7, <1>8, <1>9 DEF Called
<1>11. CleanRows(slots, disk, {}) => CleanRows(u.slots, u.disk, {})
  BY <1>3, <1>4
<1>12. QED  BY <1>1, <1>3, <1>10, <1>11, Becomes, Answered

\* A file shrinks.
LEMMA ShrinkCuts ==
  ASSUME NEW N \in Nat \ {0}, Sound(Cache, N, {}), NEW f \in Files, NEW size \in Nat,
         Chsize(f, size), size < Len(disk[f])
  PROVE  Cuts
<1> DEFINE past == {m \in MastersOf(f) : slots[m].page >= size}
           w == FreeRanges(Cache, past)
           u == Sized(w, f, size)
           given == {f} \X {p \in Pages : p >= size}
<1>1. Become(u)
  BY DEF Chsize, Sized
<1>2. /\ \A m \in past : slots[m].lock = 0
      /\ "cut" \in Liberties \/ \A m \in MastersOf(f) \ past : slots[m].page + slots[m].masters <= size
  BY DEF Chsize
<1>3. Cache.slots = slots /\ Cache.disk = disk /\ slots \in [0 .. N - 1 -> SlotType] /\ disk \in Disks
      /\ Rows(slots, {}) /\ Owned(slots, {})
  BY HeadOf, CacheParts DEF Parted
<1>4. MastersOf(f) = {m \in Heads(slots, {}) : slots[m].file = f}
  BY MastersAre
<1>5. past \subseteq Heads(Cache.slots, {}) /\ \A m \in past : Cache.slots[m].lock = 0
  BY <1>2, <1>3, <1>4
<1>6. \A m \in past : m \in Heads(slots, {}) /\ slots[m].file = f /\ slots[m].page >= size
  BY <1>4
<1>7. \A m \in Heads(slots, {}) \ past : slots[m].file = f => m \in MastersOf(f) \ past
  BY <1>4
<1> HIDE DEF past
<1>8. IsFreed(Cache, past, w, N)
  BY <1>5, FreeSound
<1> HIDE DEF w
<1>9. /\ Sound(w, N, {}) /\ w.disk = disk /\ Firm(slots, w.slots)
      /\ Kept(w.slots, {}) = Kept(slots, {}) \ Spread(slots, past)
      /\ \A x \in Kept(w.slots, {}) : w.slots[x] = slots[x]
      /\ (CleanRows(slots, disk, {}) => CleanRows(w.slots, w.disk, {}))
  BY <1>3, <1>8 DEF IsFreed
<1>10. IsSized(w, f, size, u, N)
  BY <1>9, SizeSound
<1> HIDE DEF u
<1>11. /\ Sound(u, N, {}) /\ u.slots = w.slots /\ Len(u.disk[f]) = size
       /\ \A a :
            (\A q \in Pages : size <= q /\ q < Len(w.disk[f]) => <<f, q>> \in a)
            => Passes(w.slots, w.disk, {}, u.slots, u.disk, {}, a)
       /\ CleanRows(w.slots, w.disk, {})
          /\ (\A x \in Kept(w.slots, {}) :
                w.slots[x].file = f /\ size < Len(w.disk[f]) => w.slots[x].page < size)
          => CleanRows(u.slots, u.disk, {})
  BY <1>10 DEF IsSized
<1>12. Held(slots, u.slots)
  BY <1>3, <1>9, <1>11, FirmIsHeld
<1>13. Passes(slots, disk, {}, u.slots, u.disk, {}, given)
  <2>1. ASSUME NEW x \in Spread(slots, past) PROVE <<slots[x].file, slots[x].page>> \in given
    <3>1. PICK m \in past : x \in RangeOf(slots, m)
      BY DEF Spread
    <3>2. m \in Heads(slots, {}) /\ slots[m].file = f /\ slots[m].page >= size
      BY <1>6
    <3>3. slots[x].file = slots[m].file /\ slots[m].page <= slots[x].page /\ slots[x].page \in Nat /\ slots[m].page \in Nat
          /\ x \in 0 .. N - 1
      BY SMTT(40), <1>3, <3>1, <3>2, Cell
    <3>4. slots[x].page \in Pages
      BY <1>3, <3>3, Fields
    <3>5. slots[x].page >= size
      BY <3>2, <3>3
    <3>6. QED  BY <3>2, <3>3, <3>4, <3>5
  <2>2. \A q \in Pages : size <= q => <<f, q>> \in given
    BY PagerAssumption DEF Pages
  <2> HIDE DEF given
  <2>3. Passes(slots, disk, {}, w.slots, w.disk, {}, given)
    BY <1>3, <1>5, <1>8, <2>1, FreePasses
  <2>4. Passes(w.slots, w.disk, {}, u.slots, u.disk, {}, given)
    BY <1>11, <2>2
  <2>5. QED  BY <2>3, <2>4, PassesTrans
<1>14. ASSUME "cut" \notin Liberties, CleanRows(slots, disk, {}) PROVE CleanRows(u.slots, u.disk, {})
  <2>1. ASSUME NEW x \in Kept(w.slots, {}), w.slots[x].file = f PROVE w.slots[x].page < size
    <3>1. x \in Kept(slots, {}) /\ x \notin Spread(slots, past) /\ w.slots[x] = slots[x]
      BY <1>9
    <3>2. PICK m \in Heads(slots, {}) : x \in RangeOf(slots, m)
      BY <1>3, <3>1 DEF Owned
    <3>3. m \notin past
      BY <3>1, <3>2 DEF Spread
    <3>4. slots \in [0 .. N - 1 -> SlotType] /\ Rows(slots, {}) /\ x \in RangeOf(slots, m)
      BY <1>3, <3>2
    <3>5. slots[x].file = slots[m].file /\ slots[x].page < slots[m].page + slots[m].masters
          /\ slots[x].page \in Nat /\ slots[m].page \in Nat /\ slots[m].masters \in Nat
      BY SMTT(40), <3>4, Cell
    <3>6. m \in MastersOf(f) \ past
      BY <1>7, <2>1, <3>1, <3>2, <3>3, <3>5
    <3>7. slots[m].page + slots[m].masters <= size
      BY <1>2, <1>14, <3>6
    <3>8. QED  BY SMTT(40), <3>1, <3>5, <3>7
  <2>2. CleanRows(w.slots, w.disk, {})
    BY <1>9, <1>14
  <2>3. QED  BY <1>11, <2>1, <2>2
<1>15. Cache' = u /\ slots' = u.slots /\ disk' = u.disk
  BY <1>1, <1>11, Becomes
<1>16. Len(disk'[f]) = size
  BY <1>11, <1>15
<1>17. QED  BY <1>11, <1>12, <1>13, <1>14, <1>15, <1>16 DEF Cuts
-----------------------------------------------------------------------------
(* The invariant.                                                          *)

\* Between calls every slot that is used is in a range, and addrmap_ is right.
IInv == wrote \in BOOLEAN /\ \E N \in Nat \ {0} : Sound(Cache, N, {})

\* And a page that is not what is on disk is in a marked range.
CInv == IInv /\ CleanRows(slots, disk, {})

\* The pool is sound and clean before the first call.
LEMMA InitInv == Init => CInv
<1> SUFFICES ASSUME Init PROVE CInv
  OBVIOUS
<1>1. PICK size \in PoolSizes : slots = [x \in 0 .. size - 1 |-> FreeSlot]
  BY DEF Init
<1>2. addrmap = << >> /\ disk = [f \in Files |-> << >>] /\ wrote = FALSE
  BY DEF Init
<1>3. disk \in Disks /\ size \in Nat \ {0}
  BY <1>2, PagerAssumption DEF Disks
<1> DEFINE u == [slots |-> [x \in 0 .. size - 1 |-> FreeSlot], addrmap |-> << >>, disk |-> disk]
<1>4. Sound(u, size, {}) /\ CleanRows(u.slots, disk, {})
  BY <1>3, PoolSound
<1>5. Cache = u /\ u.slots = slots
  BY <1>1, <1>2 DEF Cache
<1> HIDE DEF u
<1>6. QED  BY <1>2, <1>3, <1>4, <1>5 DEF CInv, IInv

\* What a call is: it changes nothing that is written, or writes, or cuts.
LEMMA NextIs ==
  ASSUME IInv, Next, "full" \notin Liberties
  PROVE  \/ wrote' = FALSE /\ Answers({})
         \/ wrote' = TRUE /\ Writes
         \/ wrote' = FALSE /\ Cuts
<1>1. PICK N \in Nat \ {0} : Sound(Cache, N, {})
  BY DEF IInv
<1>2. CASE \E f \in Files, p \in Pages, n \in Counts, lk \in BOOLEAN :
             FetchHit(f, p, n, lk) \/ FetchJoin(f, p, n, lk) \/ FetchMiss(f, p, n, lk)
  <2>1. PICK f \in Files, p \in Pages, n \in Counts, lk \in BOOLEAN :
             FetchHit(f, p, n, lk) \/ FetchJoin(f, p, n, lk) \/ FetchMiss(f, p, n, lk)
    BY <1>2
  <2>2. CASE FetchHit(f, p, n, lk)
    BY <1>1, <2>2, FetchHitAnswers DEF FetchHit
  <2>3. CASE FetchJoin(f, p, n, lk)
    BY <1>1, <2>3, FetchJoinAnswers DEF FetchJoin
  <2>4. CASE FetchMiss(f, p, n, lk)
    BY <1>1, <2>4, FetchMissAnswers DEF FetchMiss
  <2>5. QED  BY <2>1, <2>2, <2>3, <2>4
<1>3. CASE \E f \in Files, p \in Pages, n \in Counts : FetchFails(f, p, n) \/ FakeFails(f, p, n)
  <2>1. PICK f \in Files, p \in Pages, n \in Counts : FetchFails(f, p, n) \/ FakeFails(f, p, n)
    BY <1>3
  <2>2. NoCacheSpace(f, p, n)
    BY <2>1 DEF FetchFails, FakeFails
  <2>3. wrote' = FALSE
    BY <2>2 DEF NoCacheSpace
  <2>4. QED  BY <1>1, <2>2, <2>3, FailsAnswers
<1>4. CASE \E f \in Files, p \in Pages, n \in Counts, v \in Values :
             FakeHit(f, p, n, v) \/ FakeMiss(f, p, n, v)
  <2>1. PICK f \in Files, p \in Pages, n \in Counts, v \in Values :
             FakeHit(f, p, n, v) \/ FakeMiss(f, p, n, v)
    BY <1>4
  <2>2. CASE FakeHit(f, p, n, v)
    BY <1>1, <2>2, FakeHitWrites DEF FakeHit
  <2>3. CASE FakeMiss(f, p, n, v)
    BY <1>1, <2>3, FakeMissWrites DEF FakeMiss
  <2>4. QED  BY <2>1, <2>2, <2>3
<1>5. CASE \E m \in DOMAIN slots : Lock(m) \/ Unlock(m) \/ Unmark(m)
  <2>1. PICK m \in DOMAIN slots : Lock(m) \/ Unlock(m) \/ Unmark(m)
    BY <1>5
  <2>2. wrote' = FALSE
    BY <2>1 DEF Lock, Unlock, Unmark
  <2>3. QED  BY <1>1, <2>1, <2>2, LockAnswers, UnlockAnswers, UnmarkAnswers
<1>6. CASE \E m, x \in DOMAIN slots, v \in Values : Put(m, x, v)
  <2>1. PICK m \in DOMAIN slots, x \in DOMAIN slots, v \in Values : Put(m, x, v)
    BY <1>6
  <2>2. wrote' = TRUE
    BY <2>1 DEF Put
  <2>3. QED  BY <1>1, <2>1, <2>2, PutWrites
<1>7. CASE \E f \in Files : Commit(f) \/ Detach(f)
  <2>1. PICK f \in Files : Commit(f) \/ Detach(f)
    BY <1>7
  <2>2. wrote' = FALSE
    BY <2>1 DEF Commit, Detach
  <2>3. QED  BY <1>1, <2>1, <2>2, CommitAnswers, DetachAnswers
<1>8. CASE \E f \in Files, size \in 0 .. MaxPage + 1 : Chsize(f, size)
  <2>1. PICK f \in Files, size \in 0 .. MaxPage + 1 : Chsize(f, size)
    BY <1>8
  <2>2. wrote' = FALSE
    BY <2>1 DEF Chsize
  <2>3. size \in Nat
    BY PagerAssumption
  <2>4. QED  BY <1>1, <2>1, <2>2, <2>3, GrowAnswers, ShrinkCuts
<1>9. CASE \E size \in PoolSizes : SetPoolSize(size)
  <2>1. PICK size \in PoolSizes : SetPoolSize(size)
    BY <1>9
  <2>2. wrote' = FALSE
    BY <2>1 DEF SetPoolSize
  <2>3. QED  BY <1>1, <2>1, <2>2, SetPoolSizeAnswers
<1>10. QED  BY <1>2, <1>3, <1>4, <1>5, <1>6, <1>7, <1>8, <1>9 DEF Next

\* What all steps keep.
LEMMA StepKeeps ==
  ASSUME IInv, [Next]_vars, "full" \notin Liberties
  PROVE  /\ wrote' \in BOOLEAN /\ \E K \in Nat \ {0} : Sound(Cache', K, {})
         /\ Held(slots, slots')
         /\ Liberties = {} /\ CleanRows(slots, disk, {}) => CleanRows(slots', disk', {})
<1>1. ASSUME NEW given, Answers(given)
      PROVE  /\ \E K \in Nat \ {0} : Sound(Cache', K, {})
             /\ Held(slots, slots')
             /\ Liberties = {} /\ CleanRows(slots, disk, {}) => CleanRows(slots', disk', {})
  BY <1>1, CacheParts DEF Answers, Called
<1>2. CASE Next
  <2>1. CASE wrote' = FALSE /\ Answers({})
    BY <1>1, <2>1
  <2>2. CASE wrote' = TRUE /\ Writes
    BY <1>1, <2>2 DEF Writes
  <2>3. CASE wrote' = FALSE /\ Cuts
    BY <2>3 DEF Cuts
  <2>4. QED  BY <1>2, <2>1, <2>2, <2>3, NextIs
<1>3. CASE UNCHANGED vars
  <2>1. PICK N \in Nat \ {0} : Sound(Cache, N, {})
    BY DEF IInv
  <2>2. slots' = slots /\ disk' = disk /\ wrote' = wrote /\ Cache' = Cache
    BY <1>3 DEF vars, Cache
  <2>3. Held(slots, slots)
    <3>1. Firm(slots, slots)
      BY DEF Firm
    <3>2. QED  BY <2>1, <3>1, HeadOf, FirmIsHeld
  <2>4. QED  BY <2>1, <2>2, <2>3 DEF IInv
<1>4. QED  BY <1>2, <1>3

\* Every step keeps the invariant.
LEMMA NextInv == "full" \notin Liberties /\ IInv /\ [Next]_vars => IInv'
<1> SUFFICES ASSUME "full" \notin Liberties, IInv, [Next]_vars PROVE IInv'
  OBVIOUS
<1>1. wrote' \in BOOLEAN /\ \E K \in Nat \ {0} : Sound(Cache', K, {})
  BY StepKeeps
<1>2. QED  BY <1>1 DEF IInv

\* Without liberties every step keeps the marks right, too.
LEMMA NextClean == Liberties = {} /\ CInv /\ [Next]_vars => CInv'
<1> SUFFICES ASSUME Liberties = {}, CInv, [Next]_vars PROVE CInv'
  OBVIOUS
<1>1. "full" \notin Liberties /\ IInv
  BY DEF CInv
<1>2. CleanRows(slots', disk', {})
  BY <1>1, StepKeeps DEF CInv
<1>3. IInv'
  BY <1>1, NextInv
<1>4. QED  BY <1>2, <1>3 DEF CInv

\* The invariant holds at all times.
LEMMA Always == ASSUME "full" \notin Liberties PROVE Spec => []IInv
<1>1. Init => IInv
  BY InitInv DEF CInv
<1>2. IInv /\ [Next]_vars => IInv'
  BY NextInv
<1>3. QED  BY <1>1, <1>2, PTL DEF Spec

\* Without liberties no dirty range is ever without a mark.
LEMMA AlwaysClean == ASSUME Liberties = {} PROVE Spec => []CInv
<1>1. CInv /\ [Next]_vars => CInv'
  BY NextClean
<1>2. QED  BY <1>1, InitInv, PTL DEF Spec

\* The slots in use and the masters, as the properties name them.
LEMMA UsedAre ==
  ASSUME NEW N \in Nat, Sound(Cache, N, {})
  PROVE  Used = Kept(slots, {}) /\ Masters = Heads(slots, {})
BY DEF Used, Masters, Kept, Heads

\* Locks and marks stay within their width, pages and masters within the pool
\* (SBMemPage, setPoolSize), unless a request for cached pages fails for want
\* of a place.
THEOREM TypeCorrect == ASSUME "full" \notin Liberties PROVE Spec => []TypeOK
<1>1. IInv => TypeOK
  <2> SUFFICES ASSUME IInv PROVE TypeOK
    OBVIOUS
  <2>1. PICK N \in Nat \ {0} : Sound(Cache, N, {})
    BY DEF IInv
  <2>2. /\ slots \in [0 .. N - 1 -> SlotType] /\ disk \in Disks
        /\ \A k \in DOMAIN addrmap : addrmap[k] \in Heads(slots, {}) /\ k = <<slots[addrmap[k]].file, slots[addrmap[k]].page>>
        /\ Plain(slots, {})
    BY <2>1, HeadOf DEF Key, Parted
  <2>3. slots \in [DOMAIN slots -> SlotType]
    BY <2>2
  <2>4. \A m \in Heads(slots, {}) : m \in 0 .. N - 1 /\ m \in DOMAIN slots /\ slots[m].file \in Files /\ slots[m].page \in Pages
    BY <2>2, Fields DEF Heads, Kept, Plain
  <2>5. DOMAIN addrmap \subseteq Files \X Pages /\ \A k \in DOMAIN addrmap : addrmap[k] \in DOMAIN slots
    BY <2>2, <2>4
  <2>6. \A f \in Files : disk[f] \in Seq(Values \cup {Junk})
    BY <2>2 DEF Disks
  <2>7. wrote \in BOOLEAN
    BY DEF IInv
  <2>8. QED  BY <2>3, <2>5, <2>6, <2>7 DEF TypeOK, SlotType
<1>2. QED  BY <1>1, Always, PTL

\* Every slot in use is in a range whose master is in addrmap_:
\* processOverlaps_, makeRange_ and the copies lose no slot (it could never be
\* freed again).
THEOREM SlotsStayOwned == ASSUME "full" \notin Liberties PROVE Spec => []NoSlotLost
<1>1. IInv => NoSlotLost
  BY HeadOf, UsedAre DEF IInv, NoSlotLost, Parted, Owned
<1>2. QED  BY <1>1, Always, PTL

\* A range holds consecutive pages of one file, has no other master in it, and
\* is in addrmap_ under its first page.
THEOREM RangesStayWhole == ASSUME "full" \notin Liberties PROVE Spec => []RangesWhole
<1>1. IInv => RangesWhole
  <2> SUFFICES ASSUME IInv PROVE RangesWhole
    OBVIOUS
  <2>1. PICK N \in Nat \ {0} : Sound(Cache, N, {})
    BY DEF IInv
  <2>2. /\ slots \in [0 .. N - 1 -> SlotType] /\ Rows(slots, {}) /\ Mapped(addrmap, slots, {})
        /\ Used = Kept(slots, {}) /\ Masters = Heads(slots, {})
    BY <2>1, HeadOf, UsedAre DEF Parted
  <2>3. ASSUME NEW m \in Masters, NEW x \in RangeOf(slots, m)
        PROVE  /\ x \in Used /\ (x # m => slots[x].masters = 0)
               /\ slots[x].file = slots[m].file /\ slots[x].page = slots[m].page + x - m
    <3>1. /\ x \in 0 .. N - 1 /\ m \in 0 .. N - 1 /\ slots[x].file = slots[m].file
          /\ slots[x].page = (slots[m].page + x) - m /\ slots[m].page \in Nat
          /\ x \in Kept(slots, {}) /\ (x # m => slots[x].masters = 0)
      BY <2>2, Cell
    <3>2. slots[x].page = slots[m].page + x - m
      BY <3>1
    <3>3. QED  BY <2>2, <3>1, <3>2
  <2>4. DOMAIN addrmap = {Key(slots, m) : m \in Masters} /\ \A m \in Masters : addrmap[Key(slots, m)] = m
    BY <2>2 DEF Mapped, MapsTo
  <2>5. QED  BY <2>3, <2>4 DEF RangesWhole
<1>2. QED  BY <1>1, Always, PTL

\* However requests cut and join ranges, no page is ever in two slots: a change
\* in one of them would be lost.
THEOREM PagesCachedOnce == ASSUME "full" \notin Liberties PROVE Spec => []CachedOnce
<1>1. IInv => CachedOnce
  BY HeadOf, UsedAre DEF IInv, CachedOnce, Parted, Once
<1>2. QED  BY <1>1, Always, PTL

\* A page that differs from the disk is in a marked range, whatever cuts, joins
\* and copies its range went through: commit and replacement would not write it
\* otherwise. Clients take no liberties.
THEOREM DirtyStaysMarked == ASSUME Liberties = {} PROVE Spec => []DirtyIsMarked
<1>1. CInv => DirtyIsMarked
  BY UsedAre DEF CInv, IInv, DirtyIsMarked, CleanRows, Good
<1>2. QED  BY <1>1, AlwaysClean, PTL

\* A locked range stays in its slots with all its pages until it is unlocked:
\* clients hold pointers into it.
THEOREM LocksHold == ASSUME "full" \notin Liberties PROVE Spec => LockedStays
<1> DEFINE Stays == \A m \in DOMAIN slots : slots[m].lock > 0 =>
                      /\ m \in DOMAIN slots' /\ Key(slots', m) = Key(slots, m)
                      /\ slots'[m].masters = slots[m].masters /\ slots'[m].lock >= slots[m].lock - 1
<1>1. IInv /\ [Next]_vars => [Stays]_vars
  BY StepKeeps DEF Held
<1>2. Spec => [][Stays]_vars
  BY <1>1, Always, PTL DEF Spec
<1>3. QED  BY <1>2 DEF LockedStays
-----------------------------------------------------------------------------
(* The pager is transparent.                                               *)

\* What is seen of a page.
SeenIn(sl, d, f, p) ==
  IF \E x \in DOMAIN sl : ~sl[x].free /\ sl[x].file = f /\ sl[x].page = p
  THEN sl[CHOOSE x \in DOMAIN sl : ~sl[x].free /\ sl[x].file = f /\ sl[x].page = p].data
  ELSE Stored(d, f, p)

\* A page shows v exactly when v is seen of it.
LEMMA SeenShows ==
  ASSUME NEW sl, Once(sl, {}), NEW d, NEW f, NEW p, NEW v
  PROVE  Shows(sl, d, {}, f, p, v) <=> SeenIn(sl, d, f, p) = v
<1> DEFINE At(x) == ~sl[x].free /\ sl[x].file = f /\ sl[x].page = p
<1>1. Kept(sl, {}) = {x \in DOMAIN sl : ~sl[x].free}
  BY DEF Kept
<1>2. CASE \E x \in DOMAIN sl : At(x)
  <2> DEFINE y == CHOOSE x \in DOMAIN sl : At(x)
  <2>1. y \in DOMAIN sl /\ At(y)
    BY <1>2
  <2>2. SeenIn(sl, d, f, p) = sl[y].data
    BY <1>2 DEF SeenIn
  <2> HIDE DEF y
  <2>3. \A x \in Kept(sl, {}) : sl[x].file = f /\ sl[x].page = p => x = y
    BY <1>1, <2>1 DEF Once
  <2>4. y \in Kept(sl, {}) /\ sl[y].file = f /\ sl[y].page = p
    BY <1>1, <2>1
  <2>5. QED  BY <2>2, <2>3, <2>4 DEF Shows
<1>3. CASE ~\E x \in DOMAIN sl : At(x)
  <2>1. SeenIn(sl, d, f, p) = Stored(d, f, p)
    BY <1>3 DEF SeenIn
  <2>2. \A x \in Kept(sl, {}) : ~(sl[x].file = f /\ sl[x].page = p)
    BY <1>1, <1>3
  <2>3. QED  BY <2>1, <2>2 DEF Shows
<1>4. QED  BY <1>2, <1>3

\* What the abstract store has for pages.
Contents == [f \in Files |-> [p \in Pages |-> View(f, p)]]
\* What the abstract store has for the sizes of files.
Sizes == [f \in Files |-> Len(disk[f])]

\* These are the pages as they are seen.
LEMMA ContentsAre ==
  ASSUME NEW f \in Files, NEW p \in Pages
  PROVE  /\ Contents[f][p] = SeenIn(slots, disk, f, p)
         /\ Contents'[f][p] = SeenIn(slots', disk', f, p)
<1>1. Contents[f][p] = View(f, p) /\ Contents'[f][p] = View(f, p)'
  BY DEF Contents
<1>2. View(f, p) = SeenIn(slots, disk, f, p)
  BY DEF View, Holds, SeenIn
<1>3. View(f, p)' = SeenIn(slots', disk', f, p)
  BY DEF View, Holds, SeenIn
<1>4. QED  BY <1>1, <1>2, <1>3

\* What passes a step is kept by the abstract store.
LEMMA StoreKept ==
  ASSUME IInv, IInv', NEW given, Passes(slots, disk, {}, slots', disk', {}, given)
  PROVE  Store!Kept(Contents, Contents', given)
<1>1. Once(slots, {}) /\ Once(slots', {})
  <2>1. Once(slots, {})
    BY HeadOf DEF IInv, Parted
  <2>2. PICK K \in Nat \ {0} : Sound(Cache', K, {})
    BY DEF IInv
  <2>3. Once(Cache'.slots, {})
    BY <2>2 DEF Sound, Parted
  <2>4. QED  BY <2>1, <2>3, CacheParts
<1> SUFFICES ASSUME NEW f \in Files, NEW p \in Pages, Contents[f][p] \in Values, <<f, p>> \notin given
             PROVE  Contents'[f][p] = Contents[f][p]
  BY DEF Store!Kept
<1> DEFINE v == Contents[f][p]
<1>2. v = SeenIn(slots, disk, f, p) /\ Contents'[f][p] = SeenIn(slots', disk', f, p) /\ v \in Values
  BY ContentsAre
<1> HIDE DEF v
<1>3. Shows(slots, disk, {}, f, p, v)
  BY <1>1, <1>2, SeenShows
<1>4. Shows(slots', disk', {}, f, p, v)
  BY <1>2, <1>3 DEF Passes
<1>5. Contents'[f][p] = v
  BY <1>1, <1>2, <1>4, SeenShows
<1>6. QED  BY <1>5 DEF v

\* An answer keeps what the store has.
LEMMA AnswersStore ==
  ASSUME CInv, CInv', NEW given, Answers(given)
  PROVE  Store!NoneShorter /\ Store!Kept(Contents, Contents', given)
<1>1. PICK K \in Nat \ {0} : Called(Cache, Cache', K, given)
  BY DEF Answers
<1>2. /\ Passes(slots, disk, {}, slots', disk', {}, given)
      /\ \A f \in Files : Len(disk'[f]) >= Len(disk[f])
  BY <1>1, CacheParts DEF Called, CInv
<1>3. Store!Kept(Contents, Contents', given)
  BY <1>2, StoreKept DEF CInv
<1>4. Store!NoneShorter
  BY <1>2 DEF Store!NoneShorter
<1>5. QED  BY <1>3, <1>4

\* A step that writes is a write of the store.
LEMMA WritesStore ==
  ASSUME CInv, CInv', wrote' = TRUE, Writes
  PROVE  Store!Write
<1>1. PICK f \in Files, first \in Pages, last \in Pages :
        /\ Answers({f} \X (first .. last))
        /\ \E v \in Values : \A q \in first .. last : Shows(slots', disk', {}, f, q, v)
  BY DEF Writes
<1>2. PICK v \in Values : \A q \in first .. last : Shows(slots', disk', {}, f, q, v)
  BY <1>1
<1>3. Store!NoneShorter /\ Store!Kept(Contents, Contents', {f} \X (first .. last))
  BY <1>1, AnswersStore
<1>4. Once(slots', {})
  <2>1. PICK K \in Nat \ {0} : Sound(Cache', K, {})
    BY DEF CInv, IInv
  <2>2. Once(Cache'.slots, {})
    BY <2>1 DEF Sound, Parted
  <2>3. QED  BY <2>2, CacheParts
<1>5. \A q \in first .. last : Contents'[f][q] = v
  <2> SUFFICES ASSUME NEW q \in first .. last PROVE Contents'[f][q] = v
    OBVIOUS
  <2>1. q \in Pages
    BY PagerAssumption DEF Pages
  <2>2. SeenIn(slots', disk', f, q) = v
    BY <1>2, <1>4, SeenShows
  <2>3. QED  BY <2>1, <2>2, ContentsAre
<1>6. Store!Written(Contents, Contents')
  BY <1>3, <1>5 DEF Store!Written
<1>7. QED  BY <1>3, <1>6 DEF Store!Write, Contents

\* A step that cuts a file is a cut of the store.
LEMMA CutsStore ==
  ASSUME CInv, CInv', wrote' = FALSE, Cuts
  PROVE  Store!Cut
<1>1. PICK f \in Files :
        /\ Len(disk'[f]) < Len(disk[f])
        /\ CleanRows(slots, disk, {}) =>
             Passes(slots, disk, {}, slots', disk', {}, {f} \X {p \in Pages : p >= Len(disk'[f])})
  BY DEF Cuts
<1>2. Store!Kept(Contents, Contents', {f} \X {p \in Pages : p >= Len(disk'[f])})
  BY <1>1, StoreKept DEF CInv
<1>3. Sizes[f] = Len(disk[f]) /\ Sizes'[f] = Len(disk'[f])
  BY DEF Sizes
<1>4. Sizes'[f] < Sizes[f] /\ Store!Kept(Contents, Contents', {f} \X {p \in Pages : p >= Sizes'[f]})
  BY <1>1, <1>2, <1>3
<1>5. QED  BY <1>4 DEF Store!Cut, Contents, Sizes

\* What clients see through the cache is a page store: a page reads as it was
\* last written until it is cut off its file, whatever was fetched, joined,
\* replaced, committed, detached or resized in between. Clients take no
\* liberties.
THEOREM ImplementsStore == ASSUME Liberties = {} PROVE Spec => ImplementsPageStore
<1>1. CInv /\ [Next]_vars => CInv'
  BY NextClean
<1>2. Init => Store!StoreInit
  <2> SUFFICES ASSUME Init PROVE Store!StoreInit
    OBVIOUS
  <2>1. disk = [f \in Files |-> << >>] /\ wrote = FALSE
    BY DEF Init
  <2>2. \A x \in DOMAIN slots : slots[x].free
    BY DEF Init, FreeSlot
  <2>3. ASSUME NEW f \in Files, NEW p \in Pages PROVE View(f, p) = Junk
    <3>1. ~\E x \in DOMAIN slots : Holds(x, f, p)
      BY <2>2 DEF Holds
    <3>2. Stored(disk, f, p) = Junk
      BY <2>1, PagerAssumption DEF Stored, Pages
    <3>3. QED  BY <3>1, <3>2 DEF View
  <2>4. \A f \in Files : Len(disk[f]) = 0
    BY <2>1
  <2>5. QED  BY <2>1, <2>3, <2>4 DEF Store!StoreInit
<1>3. CInv /\ CInv' /\ [Next]_vars => [Store!Read \/ Store!Write \/ Store!Cut]_Store!vars
  <2> SUFFICES ASSUME CInv, CInv', [Next]_vars
               PROVE  Store!Read \/ Store!Write \/ Store!Cut \/ UNCHANGED Store!vars
    OBVIOUS
  <2>1. CASE Next
    <3>1. CASE wrote' = FALSE /\ Answers({})
      BY <3>1, AnswersStore DEF Store!Read, Contents
    <3>2. CASE wrote' = TRUE /\ Writes
      BY <3>2, WritesStore
    <3>3. CASE wrote' = FALSE /\ Cuts
      BY <3>3, CutsStore
    <3>4. QED  BY <2>1, <3>1, <3>2, <3>3, NextIs DEF CInv
  <2>2. CASE UNCHANGED vars
    BY <2>2 DEF vars, Store!vars, View, Holds, Stored
  <2>3. QED  BY <2>1, <2>2
<1>4. QED  BY <1>1, <1>2, <1>3, InitInv, PTL DEF Spec, ImplementsPageStore, Store!StoreSpec

=============================================================================
