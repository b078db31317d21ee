--------------------------- MODULE SplitFileProofs --------------------------
(***************************************************************************)
(* What module SplitFile promises holds for every size of a part, every    *)
(* length of a file and all bytes, as long as clients that have not sought *)
(* yet do not read past the end of the file (PastEnd = FALSE; module       *)
(* SplitFile says what becomes of cpsync_ if they do).                     *)
(*                                                                         *)
(* The proofs rest on SplitOf: the parts hold the bytes w when part f is   *)
(* the row of those of w that lie in it.  Each operation is shown to keep  *)
(* this for the bytes as the operation of FlatFile makes them, part by     *)
(* part, and SplitFlat says that the parts put together are w again.       *)
(***************************************************************************)
EXTENDS SplitFile, TLAPS, WellFoundedInduction

-----------------------------------------------------------------------------
(* About natural numbers.                                                  *)

\* The least element is what proofs by induction here start from: that of the
\* numbers for which a claim fails.
LEMMA Least ==
  ASSUME NEW T, T \subseteq Nat, T # {}
  PROVE  \E x \in T : \A y \in T : x <= y
<1> DEFINE R == OpToRel(<, Nat)
<1>1. \A x, y \in Nat : y < x => <<y, x>> \in R
  BY DEF OpToRel
<1>2. IsWellFoundedOn(R, Nat)
  BY NatLessThanWellFounded
<1> HIDE DEF R
<1>3. \E x \in T : \A y \in T : ~ (<<y, x>> \in R)
  BY <1>2, WFMin
<1>4. PICK x \in T : \A y \in T : ~ (<<y, x>> \in R)
  BY <1>3
<1>5. \A y \in T : y \in Nat /\ x \in Nat /\ ~(y < x)
  BY <1>1, <1>4
<1>6. \A y \in T : x <= y
  BY <1>5
<1>7. QED  BY <1>6

\* Number a is in block a \div b, at place a % b.
LEMMA Divided ==
  ASSUME NEW a \in Nat, NEW b \in Nat \ {0}
  PROVE  /\ a \div b \in Nat /\ a % b \in 0 .. b - 1
         /\ a = (a \div b) * b + (a % b)
  OBVIOUS

\* Blocks follow each other.
LEMMA Later ==
  ASSUME NEW p \in Nat, NEW q \in Nat, NEW b \in Nat \ {0}, p < q
  PROVE  (p + 1) * b <= q * b
  OBVIOUS

-----------------------------------------------------------------------------
(* Parts one after the other.                                              *)

\* FlattenSeq is the last element of a function that is defined by recursion.
LEMMA FlattenIs ==
  ASSUME NEW s, Len(s) \in Nat \ {0}
  PROVE  FlattenSeq(s) = (CHOOSE flatten : flatten = [i \in 1..Len(s) |-> IF i = 1 THEN s[i] ELSE flatten[i-1] \o s[i]])[Len(s)]
<1>1. Len(s) # 0
  OBVIOUS
<1> QED BY <1>1, Zenon DEF FlattenSeq

\* Any function that satisfies that recursion gives FlattenSeq.
LEMMA FlattenUnique ==
  ASSUME NEW s, Len(s) \in Nat \ {0},
         NEW g, g = [i \in 1 .. Len(s) |-> IF i = 1 THEN s[i] ELSE g[i - 1] \o s[i]]
  PROVE  FlattenSeq(s) = g[Len(s)]
<1> DEFINE Rec(f) == f = [i \in 1 .. Len(s) |-> IF i = 1 THEN s[i] ELSE f[i-1] \o s[i]]
           f == CHOOSE flatten : Rec(flatten)
<1>1. FlattenSeq(s) = f[Len(s)]
  BY FlattenIs, Zenon
<1>2. Rec(f)
  BY Zenon
<1> HIDE DEF f
<1> DEFINE bad == {i \in 1 .. Len(s) : f[i] # g[i]}
<1>3. bad = {} => f[Len(s)] = g[Len(s)]
  <2> SUFFICES ASSUME f[Len(s)] # g[Len(s)] PROVE Len(s) \in bad
    OBVIOUS
  <2>1. Len(s) \in 1 .. Len(s)
    OBVIOUS
  <2>2. QED  BY <2>1
<1>4. SUFFICES ASSUME bad # {} PROVE FALSE
  BY <1>1, <1>3
<1>5. bad \subseteq Nat
  OBVIOUS
<1> HIDE DEF bad
<1>6. PICK i \in bad : \A j \in bad : i <= j
  BY <1>4, <1>5, Least
<1>7. i \in 1 .. Len(s) /\ f[i] # g[i] /\ ~(i - 1 \in bad)
  BY <1>6 DEF bad
<1>8. f[i] = IF i = 1 THEN s[i] ELSE f[i - 1] \o s[i]
  BY <1>2, <1>7
<1>9. g[i] = IF i = 1 THEN s[i] ELSE g[i - 1] \o s[i]
  BY <1>7
<1>10. i # 1 => f[i - 1] = g[i - 1]
  BY <1>7 DEF bad
<1>11. QED BY <1>7, <1>8, <1>9, <1>10

\* The larger and the smaller of two numbers.
LEMMA MaxOfTwo ==
  ASSUME NEW a \in Int, NEW b \in Int
  PROVE  Max({a, b}) = IF a >= b THEN a ELSE b
<1>1. \A m \in {a, b} : (\A y \in {a, b} : m >= y) <=> m = IF a >= b THEN a ELSE b
  OBVIOUS
<1>2. (IF a >= b THEN a ELSE b) \in {a, b}
  OBVIOUS
<1>3. QED  BY <1>1, <1>2 DEF Max

\* The same for the least.
LEMMA MinOfTwo ==
  ASSUME NEW a \in Int, NEW b \in Int
  PROVE  Min({a, b}) = IF a <= b THEN a ELSE b
<1>1. \A m \in {a, b} : (\A y \in {a, b} : m =< y) <=> m = IF a <= b THEN a ELSE b
  OBVIOUS
<1>2. (IF a <= b THEN a ELSE b) \in {a, b}
  OBVIOUS
<1>3. QED  BY <1>1, <1>2 DEF Min

\* Where the elements of two sequences are when they are joined.
LEMMA Joined ==
  ASSUME NEW X, NEW a \in Seq(X), NEW b \in Seq(X), NEW k \in 1 .. Len(a) + Len(b)
  PROVE  (a \o b)[k] = IF k <= Len(a) THEN a[k] ELSE b[k - Len(a)]
  OBVIOUS

-----------------------------------------------------------------------------
(* Where the parts are.                                                    *)

\* The offset at which part fno starts.
At(fno) == fno * SPLIT_FACTOR

\* Parts start one behind the other,
LEMMA AtNat == ASSUME NEW f \in Nat PROVE At(f) \in Nat /\ At(f + 1) = At(f) + SPLIT_FACTOR
  BY SplitAssumption DEF At

\* a later part behind all of an earlier one,
LEMMA AtLater ==
  ASSUME NEW f \in Nat, NEW g \in Nat, f < g
  PROVE  At(f) + SPLIT_FACTOR <= At(g)
<1>1. (f + 1) * SPLIT_FACTOR <= g * SPLIT_FACTOR
  BY SplitAssumption, Later
<1>2. QED  BY <1>1, SplitAssumption DEF At

\* the first one where the file starts.
LEMMA AtZero == At(0) = 0
  BY SplitAssumption DEF At

\* An offset is in part fileNo(o), at place fileOff(o).
LEMMA OffsetIn ==
  ASSUME NEW o \in Nat
  PROVE  /\ fileNo(o) \in Nat /\ fileOff(o) \in 0 .. SPLIT_FACTOR - 1
         /\ o = At(fileNo(o)) + fileOff(o)
  BY SplitAssumption, Divided DEF At, fileNo, fileOff

\* An offset is in one part only.
LEMMA PartOf ==
  ASSUME NEW o \in Nat, NEW f \in Nat, At(f) <= o, o < At(f) + SPLIT_FACTOR
  PROVE  fileNo(o) = f
<1>1. fileNo(o) \in Nat /\ At(fileNo(o)) \in Nat /\ At(fileNo(o)) <= o
      /\ o < At(fileNo(o)) + SPLIT_FACTOR /\ At(f) \in Nat
  <2>1. fileNo(o) \in Nat /\ fileOff(o) \in 0 .. SPLIT_FACTOR - 1
        /\ o = At(fileNo(o)) + fileOff(o)
    BY OffsetIn
  <2>2. At(fileNo(o)) \in Nat /\ At(f) \in Nat
    BY <2>1, AtNat
  <2>3. QED  BY <2>1, <2>2, SplitAssumption
<1>2. ~ (fileNo(o) < f)
  BY <1>1, AtLater, SplitAssumption
<1>3. ~ (f < fileNo(o))
  BY <1>1, AtLater, SplitAssumption
<1>4. QED  BY <1>1, <1>2, <1>3

\* The bytes before `end` end in part LastFile(end).
LEMMA EndIn ==
  ASSUME NEW end \in Nat \ {0}
  PROVE  /\ LastFile(end) \in Nat /\ ToOff(end) \in 1 .. SPLIT_FACTOR
         /\ end = At(LastFile(end)) + ToOff(end)
         /\ fileNo(end) \in {LastFile(end), LastFile(end) + 1}
<1>1. /\ fileNo(end) \in Nat /\ fileOff(end) \in 0 .. SPLIT_FACTOR - 1
      /\ end = At(fileNo(end)) + fileOff(end)
  BY OffsetIn
<1>2. CASE fileOff(end) = 0
  <2>1. fileNo(end) # 0
    BY <1>1, <1>2, AtZero
  <2>2. fileNo(end) - 1 \in Nat
    BY <1>1, <2>1
  <2>3. At(fileNo(end)) = At(fileNo(end) - 1) + SPLIT_FACTOR /\ At(fileNo(end) - 1) \in Nat
    BY <1>1, <2>2, AtNat
  <2>4. QED  BY <1>1, <1>2, <2>2, <2>3, SplitAssumption DEF LastFile, ToOff
<1>3. CASE fileOff(end) # 0
  BY <1>1, <1>3, SplitAssumption DEF LastFile, ToOff
<1>4. QED  BY <1>2, <1>3

\* No part holds the last byte of an empty file.
LEMMA NoEnd == LastFile(0) = -1
  BY SplitAssumption DEF LastFile, fileNo, fileOff

\* The bytes of part fno in a file that holds w.
CellsLen(w, f) == IF Len(w) <= At(f) THEN 0
                  ELSE IF Len(w) <= At(f) + SPLIT_FACTOR THEN Len(w) - At(f)
                  ELSE SPLIT_FACTOR

\* The cells of one part, out of those of the whole file.
Cells(w, f) == [k \in 1 .. CellsLen(w, f) |-> w[At(f) + k]]

\* The parts d hold w: all but the last are full.
SplitOf(d, w) ==
  /\ d \in Seq(Seq(Bytes)) /\ w \in Seq(Bytes) /\ Len(d) # 0
  /\ At(Len(d) - 1) <= Len(w) /\ Len(w) <= At(Len(d))
  /\ \A i \in 1 .. Len(d) : d[i] = Cells(w, i - 1)

\* The share of a part is no longer than a part, and lies within w.
LEMMA CellsTyped ==
  ASSUME NEW w \in Seq(Bytes), NEW f \in Nat
  PROVE  /\ CellsLen(w, f) \in 0 .. SPLIT_FACTOR
         /\ Cells(w, f) \in Seq(Bytes) /\ Len(Cells(w, f)) = CellsLen(w, f)
         /\ \A k \in 1 .. CellsLen(w, f) : At(f) + k \in 1 .. Len(w)
<1>1. At(f) \in Nat
  BY AtNat
<1>2. CellsLen(w, f) \in 0 .. SPLIT_FACTOR
      /\ \A k \in 1 .. CellsLen(w, f) : At(f) + k \in 1 .. Len(w)
  BY <1>1, SplitAssumption DEF CellsLen
<1> HIDE DEF CellsLen
<1>3. QED  BY <1>2 DEF Cells

\* Putting the parts together gives w.
LEMMA SplitFlat ==
  ASSUME NEW d, NEW w, SplitOf(d, w)
  PROVE  FlattenSeq(d) = w
<1> DEFINE To(i) == IF At(i) < Len(w) THEN At(i) ELSE Len(w)
           g == [i \in 1 .. Len(d) |-> [k \in 1 .. To(i) |-> w[k]]]
<1>1. /\ d \in Seq(Seq(Bytes)) /\ w \in Seq(Bytes) /\ Len(d) \in Nat \ {0} /\ Len(w) \in Nat
      /\ At(Len(d) - 1) <= Len(w) /\ Len(w) <= At(Len(d))
  BY DEF SplitOf
<1>2. \A i \in 1 .. Len(d) : g[i] = IF i = 1 THEN d[i] ELSE g[i - 1] \o d[i]
  <2> SUFFICES ASSUME NEW i \in 1 .. Len(d)
               PROVE  g[i] = IF i = 1 THEN d[i] ELSE g[i - 1] \o d[i]
    OBVIOUS
  <2>1. d[i] = Cells(w, i - 1)
    BY DEF SplitOf
  <2>2. i - 1 \in Nat /\ At(i - 1) \in Nat /\ At(i) = At(i - 1) + SPLIT_FACTOR
    <3>1. i - 1 \in Nat /\ i = (i - 1) + 1
      BY <1>1
    <3>2. QED  BY <3>1, AtNat
  <2>3. At(i - 1) <= Len(w)
    <3>1. CASE i = Len(d)
      BY <1>1, <3>1
    <3>2. CASE i # Len(d)
      <4>1. i - 1 < Len(d) - 1 /\ Len(d) - 1 \in Nat
        BY <1>1, <3>2
      <4>2. At(i - 1) + SPLIT_FACTOR <= At(Len(d) - 1) /\ At(Len(d) - 1) \in Nat
        BY <2>2, <4>1, AtLater, AtNat
      <4>3. QED  BY <1>1, <2>2, <4>2, SplitAssumption
    <3>3. QED  BY <3>1, <3>2
  <2>4. CellsLen(w, i - 1) = To(i) - At(i - 1) /\ To(i) \in Nat
    BY <1>1, <2>2, <2>3, SplitAssumption DEF CellsLen
  <2>5. CASE i = 1
    <3>1. At(i - 1) = 0
      BY <2>5, AtZero
    <3>2. d[i] = [k \in 1 .. To(i) |-> w[k]]
      BY <2>1, <2>4, <3>1, <1>1 DEF Cells
    <3>3. QED  BY <2>5, <3>2
  <2>6. CASE i # 1
    <3>1. g[i - 1] = [k \in 1 .. At(i - 1) |-> w[k]]
      <4>1. i - 1 \in 1 .. Len(d)
        BY <1>1, <2>6
      <4>2. To(i - 1) = At(i - 1)
        BY <1>1, <2>2, <2>3
      <4>3. QED  BY <4>1, <4>2
    <3> DEFINE a == [k \in 1 .. At(i - 1) |-> w[k]]
    <3>2. a \in Seq(Bytes) /\ Len(a) = At(i - 1)
      <4>1. \A k \in 1 .. At(i - 1) : w[k] \in Bytes
        BY <1>1, <2>2, <2>3
      <4>2. QED  BY <2>2, <4>1
    <3>3. d[i] \in Seq(Bytes) /\ Len(d[i]) = To(i) - At(i - 1)
      BY <1>1, <2>1, <2>2, <2>4, CellsTyped
    <3>4. \A k \in 1 .. Len(d[i]) : d[i][k] = w[At(i - 1) + k]
      BY <2>1, <2>4, <3>3 DEF Cells
    <3>5. \A k \in 1 .. At(i - 1) : a[k] = w[k]
      OBVIOUS
    <3> HIDE DEF a
    <3>6. a \o d[i] = [k \in 1 .. To(i) |-> w[k]]
      <4>1. a \o d[i] \in Seq(Bytes) /\ Len(a \o d[i]) = To(i)
        BY SMTT(40), <2>2, <2>4, <3>2, <3>3
      <4>2. \A k \in 1 .. To(i) : (a \o d[i])[k] = w[k]
        <5> SUFFICES ASSUME NEW k \in 1 .. To(i) PROVE (a \o d[i])[k] = w[k]
          OBVIOUS
        <5>1. (a \o d[i])[k] = IF k <= At(i - 1) THEN a[k] ELSE d[i][k - At(i - 1)]
          <6>1. k \in 1 .. Len(a) + Len(d[i])
            BY <2>2, <2>4, <3>2, <3>3
          <6>2. QED  BY <3>2, <3>3, <6>1, Joined
        <5>2. CASE k <= At(i - 1)
          BY <2>2, <2>4, <3>5, <5>1, <5>2
        <5>3. CASE k > At(i - 1)
          <6>1. k - At(i - 1) \in 1 .. Len(d[i]) /\ At(i - 1) + (k - At(i - 1)) = k
            BY <2>2, <2>4, <3>3, <5>3
          <6>2. (a \o d[i])[k] = d[i][k - At(i - 1)]
            BY <2>2, <2>4, <5>1, <5>3
          <6>3. QED  BY <3>4, <6>1, <6>2
        <5>4. k <= At(i - 1) \/ k > At(i - 1)
          BY <2>2, <2>4
        <5>5. QED  BY <5>2, <5>3, <5>4
      <4> HIDE DEF To
      <4>3. QED  BY <4>1, <4>2, <2>4
    <3>7. QED  BY <2>6, <3>1, <3>6 DEF a
  <2>7. QED  BY <2>5, <2>6
<1>3. g = [i \in 1 .. Len(d) |-> IF i = 1 THEN d[i] ELSE g[i - 1] \o d[i]]
  <2> DEFINE h(i) == IF i = 1 THEN d[i] ELSE g[i - 1] \o d[i]
  <2>1. \A i \in 1 .. Len(d) : g[i] = h(i)
    BY <1>2
  <2>2. g = [i \in 1 .. Len(d) |-> g[i]]
    OBVIOUS
  <2> HIDE DEF g, h
  <2>3. g = [i \in 1 .. Len(d) |-> h(i)]
    BY <2>1, <2>2
  <2>4. QED  BY <2>3 DEF h
<1>4. g[Len(d)] = w
  <2>1. To(Len(d)) = Len(w)
    BY <1>1, AtNat
  <2>2. g[Len(d)] = [k \in 1 .. Len(w) |-> w[k]]
    <3>1. Len(d) \in 1 .. Len(d)
      BY <1>1
    <3> HIDE DEF To
    <3>2. QED  BY <2>1, <3>1
  <2>3. w = [k \in 1 .. Len(w) |-> w[k]]
    BY <1>1
  <2>4. QED  BY <2>2, <2>3
<1> HIDE DEF g
<1>5. QED  BY <1>1, <1>3, <1>4, FlattenUnique

\* The parts d hold what they hold put together.
LEMMA SplitWhole ==
  ASSUME NEW d, NEW w, SplitOf(d, w)
  PROVE  \A i \in 1 .. Len(d) : Len(d[i]) <= SPLIT_FACTOR
                                /\ (i < Len(d) => Len(d[i]) = SPLIT_FACTOR)
<1> SUFFICES ASSUME NEW i \in 1 .. Len(d)
             PROVE  Len(d[i]) <= SPLIT_FACTOR /\ (i < Len(d) => Len(d[i]) = SPLIT_FACTOR)
  OBVIOUS
<1>1. /\ d \in Seq(Seq(Bytes)) /\ w \in Seq(Bytes) /\ Len(d) \in Nat \ {0} /\ Len(w) \in Nat
      /\ At(Len(d) - 1) <= Len(w)
  BY DEF SplitOf
<1>2. i - 1 \in Nat /\ At(i - 1) \in Nat /\ i \in Nat
  <2>1. i - 1 \in Nat /\ i \in Nat
    BY <1>1
  <2>2. QED  BY <2>1, AtNat
<1>3. Len(d[i]) = CellsLen(w, i - 1) /\ CellsLen(w, i - 1) \in 0 .. SPLIT_FACTOR
  BY <1>1, <1>2, CellsTyped DEF SplitOf
<1>4. ASSUME i < Len(d) PROVE CellsLen(w, i - 1) = SPLIT_FACTOR
  <2>1. i - 1 < Len(d) - 1 /\ Len(d) - 1 \in Nat
    BY <1>1, <1>4
  <2>2. At(i - 1) + SPLIT_FACTOR <= At(Len(d) - 1) /\ At(Len(d) - 1) \in Nat
    BY <1>2, <2>1, AtLater, AtNat
  <2>3. At(i - 1) + SPLIT_FACTOR <= Len(w)
    BY <1>1, <1>2, <2>2, SplitAssumption
  <2>4. QED  BY <1>1, <1>2, <2>3, SplitAssumption DEF CellsLen
<1>5. QED  BY <1>3, <1>4, SplitAssumption

-----------------------------------------------------------------------------
(* Operations on one part.                                                 *)

\* sci_write on a part does what a write of FlatFile does on a file.
LEMMA OverwriteFlat ==
  ASSUME NEW d \in Seq(Bytes), NEW at \in Nat, NEW chunk \in Seq(Bytes)
  PROVE  Overwrite(d, at, chunk) = Flat!Overwrite(d, at, chunk)
<1>1. Len(d) \in Nat /\ Len(chunk) \in Nat
  OBVIOUS
<1>2. Max({Len(d), at + Len(chunk)}) = IF at + Len(chunk) > Len(d) THEN at + Len(chunk) ELSE Len(d)
  BY <1>1, MaxOfTwo
<1>3. QED  BY <1>2 DEF Overwrite, Flat!Overwrite

\* The length of an overwritten row of bytes, and each byte of it.
LEMMA OverwriteTyped ==
  ASSUME NEW d \in Seq(Bytes), NEW at \in Nat, NEW chunk \in Seq(Bytes)
  PROVE  /\ Overwrite(d, at, chunk) \in Seq(Bytes)
         /\ Len(Overwrite(d, at, chunk)) = IF at + Len(chunk) > Len(d) THEN at + Len(chunk) ELSE Len(d)
         /\ \A i \in 1 .. Len(Overwrite(d, at, chunk)) :
              Overwrite(d, at, chunk)[i] = IF at < i /\ i <= at + Len(chunk) THEN chunk[i - at]
                                           ELSE IF i <= Len(d) THEN d[i] ELSE Zero
<1> DEFINE m == IF at + Len(chunk) > Len(d) THEN at + Len(chunk) ELSE Len(d)
           o == Overwrite(d, at, chunk)
           v(i) == IF at < i /\ i <= at + Len(chunk) THEN chunk[i - at]
                   ELSE IF i <= Len(d) THEN d[i] ELSE Zero
<1>1. Len(d) \in Nat /\ Len(chunk) \in Nat /\ m \in Nat
  OBVIOUS
<1>2. o = [i \in 1 .. m |-> IF i \in at + 1 .. at + Len(chunk) THEN chunk[i - at]
                            ELSE IF i <= Len(d) THEN d[i] ELSE Zero]
  <2>1. Overwrite(d, at, chunk) = Flat!Overwrite(d, at, chunk)
    BY OverwriteFlat
  <2>2. QED  BY <2>1, Zenon DEF Flat!Overwrite
<1>3. \A i \in 1 .. m : o[i] = v(i)
  BY <1>1, <1>2
<1>4. \A i \in 1 .. m : v(i) \in Bytes
  BY <1>1, SplitAssumption
<1>5. o = [i \in 1 .. m |-> o[i]]
  BY <1>2
<1> HIDE DEF o, m, v
<1>6. o \in Seq(Bytes) /\ Len(o) = m
  BY <1>1, <1>3, <1>4, <1>5
<1>7. QED  BY <1>3, <1>6 DEF o, m, v

\* A write at a place of a file replaces what is there and fills the hole
\* before it.
LEMMA OverwriteIs ==
  ASSUME NEW d \in Seq(Bytes), NEW at \in Nat, NEW chunk \in Seq(Bytes),
         NEW o, o = Overwrite(d, at, chunk)
  PROVE  /\ o \in Seq(Bytes)
         /\ Len(o) = IF at + Len(chunk) > Len(d) THEN at + Len(chunk) ELSE Len(d)
         /\ \A i \in 1 .. Len(o) :
              o[i] = IF at < i /\ i <= at + Len(chunk) THEN chunk[i - at]
                     ELSE IF i <= Len(d) THEN d[i] ELSE Zero
  BY OverwriteTyped

\* The length of a resized row of bytes, and each byte of it.
LEMMA ResizeTyped ==
  ASSUME NEW d \in Seq(Bytes), NEW size \in Nat
  PROVE  /\ Resize(d, size) \in Seq(Bytes) /\ Len(Resize(d, size)) = size
         /\ \A i \in 1 .. size : Resize(d, size)[i] = IF i <= Len(d) THEN d[i] ELSE Zero
  BY SplitAssumption DEF Resize

\* sci_chsize on a part does what a resize of FlatFile does on a file.
LEMMA ResizeFlat ==
  ASSUME NEW d, NEW size PROVE Resize(d, size) = Flat!Resize(d, size)
  BY DEF Resize, Flat!Resize

\* Two rows of bytes of one length are the same if they agree everywhere.
LEMMA SameRow ==
  ASSUME NEW a \in Seq(Bytes), NEW b \in Seq(Bytes), Len(a) = Len(b),
         \A i \in 1 .. Len(a) : a[i] = b[i]
  PROVE  a = b
  OBVIOUS

\* Part fno's share of the bytes from pos on.
LEMMA StartAt ==
  ASSUME NEW pos \in Nat, NEW f \in Nat, fileNo(pos) <= f
  PROVE  /\ At(f) \in Nat /\ Start(f, pos) \in 0 .. SPLIT_FACTOR - 1
         /\ At(f) + Start(f, pos) = IF At(f) <= pos THEN pos ELSE At(f)
         /\ pos < At(f) + SPLIT_FACTOR
<1>1. /\ fileNo(pos) \in Nat /\ fileOff(pos) \in 0 .. SPLIT_FACTOR - 1
      /\ pos = At(fileNo(pos)) + fileOff(pos)
  BY OffsetIn
<1>2. At(f) \in Nat
  BY AtNat
<1>3. CASE f = fileNo(pos)
  BY <1>1, <1>2, <1>3, SplitAssumption DEF Start
<1>4. CASE f # fileNo(pos)
  <2>1. fileNo(pos) < f
    BY <1>1, <1>4
  <2>2. At(fileNo(pos)) + SPLIT_FACTOR <= At(f)
    BY <1>1, <2>1, AtLater
  <2>3. At(fileNo(pos)) \in Nat
    BY <1>1, AtNat
  <2>4. QED  BY <1>1, <1>2, <1>4, <2>2, <2>3, SplitAssumption DEF Start
<1>5. QED  BY <1>3, <1>4

\* The parts before that of an offset end before it.
LEMMA BeforeStart ==
  ASSUME NEW pos \in Nat, NEW f \in Nat, f < fileNo(pos)
  PROVE  At(f) \in Nat /\ At(f) + SPLIT_FACTOR <= pos
<1>1. /\ fileNo(pos) \in Nat /\ fileOff(pos) \in 0 .. SPLIT_FACTOR - 1
      /\ pos = At(fileNo(pos)) + fileOff(pos)
  BY OffsetIn
<1>2. At(f) + SPLIT_FACTOR <= At(fileNo(pos))
  BY <1>1, AtLater
<1>3. At(f) \in Nat
  BY AtNat
<1>4. At(fileNo(pos)) \in Nat
  BY <1>1, AtNat
<1>5. QED  BY <1>1, <1>2, <1>3, <1>4, SplitAssumption

\* Part f's share of the bytes up to end.
LEMMA EndAt ==
  ASSUME NEW end \in Nat \ {0}, NEW f \in Nat, f <= LastFile(end)
  PROVE  /\ At(f) \in Nat /\ End(f, end) \in 1 .. SPLIT_FACTOR
         /\ At(f) + End(f, end) = IF end <= At(f) + SPLIT_FACTOR THEN end ELSE At(f) + SPLIT_FACTOR
         /\ At(f) < end
         /\ f # LastFile(end) => At(f) + SPLIT_FACTOR < end
<1>1. /\ LastFile(end) \in Nat /\ ToOff(end) \in 1 .. SPLIT_FACTOR
      /\ end = At(LastFile(end)) + ToOff(end)
  BY EndIn
<1>2. At(f) \in Nat
  BY AtNat
<1>3. CASE f = LastFile(end)
  BY <1>1, <1>2, <1>3, SplitAssumption DEF End
<1>4. CASE f # LastFile(end)
  <2>1. f < LastFile(end)
    BY <1>1, <1>4
  <2>2. At(f) + SPLIT_FACTOR <= At(LastFile(end))
    BY <1>1, <2>1, AtLater
  <2>3. At(LastFile(end)) \in Nat
    BY <1>1, AtNat
  <2>4. QED  BY <1>1, <1>2, <1>4, <2>2, <2>3, SplitAssumption DEF End
<1>5. QED  BY <1>3, <1>4

\* The parts after the last one start where the bytes end, or later.
LEMMA AfterEnd ==
  ASSUME NEW end \in Nat, NEW f \in Nat, LastFile(end) < f
  PROVE  At(f) \in Nat /\ end <= At(f)
<1>1. At(f) \in Nat
  BY AtNat
<1>2. CASE end = 0
  BY <1>1, <1>2
<1>3. CASE end # 0
  <2>1. /\ LastFile(end) \in Nat /\ ToOff(end) \in 1 .. SPLIT_FACTOR
        /\ end = At(LastFile(end)) + ToOff(end)
    BY <1>3, EndIn
  <2>2. At(LastFile(end)) + SPLIT_FACTOR <= At(f)
    BY <2>1, AtLater
  <2>3. At(LastFile(end)) \in Nat
    BY <2>1, AtNat
  <2>4. QED  BY <1>1, <2>1, <2>2, <2>3, SplitAssumption
<1>4. QED  BY <1>2, <1>3

\* The elements of a slice of a sequence.
LEMMA SliceOf ==
  ASSUME NEW X, NEW s \in Seq(X), NEW i \in 1 .. Len(s), NEW j \in i .. Len(s)
  PROVE  /\ SubSeq(s, i, j) \in Seq(X) /\ Len(SubSeq(s, i, j)) = (j - i) + 1
         /\ \A k \in 1 .. (j - i) + 1 : SubSeq(s, i, j)[k] = s[(i - 1) + k]
  OBVIOUS

\* A slice that ends before it starts is empty.
LEMMA NoSlice ==
  ASSUME NEW X, NEW s \in Seq(X), NEW i \in Nat \ {0}, NEW j \in Nat, j < i
  PROVE  SubSeq(s, i, j) = << >>
  OBVIOUS

\* Part f is one of those that a write of the chunk at pos touches.
Touched(f, pos, chunk) == fileNo(pos) <= f /\ f <= LastFile(pos + Len(chunk))

\* What of the chunk that is written at pos goes to part f.
ShareOf(chunk, pos, f) ==
  SubSeq(chunk, Start(f, pos) - (pos - At(f)) + 1, End(f, pos + Len(chunk)) - (pos - At(f)))

\* A part of the bytes w with those of chunk over them, and what a write makes
\* of that part: its share of the chunk over what it held.
LEMMA PartWritten ==
  ASSUME NEW w \in Seq(Bytes), NEW chunk \in Seq(Bytes), Len(chunk) # 0,
         NEW pos \in Nat, NEW f \in Nat,
         Touched(f, pos, chunk)
  PROVE  /\ ShareOf(chunk, pos, f) \in Seq(Bytes)
         /\ Start(f, pos) + Len(ShareOf(chunk, pos, f)) = End(f, pos + Len(chunk))
         /\ Overwrite(Cells(w, f), Start(f, pos), ShareOf(chunk, pos, f))
              = Cells(Overwrite(w, pos, chunk), f)
<1> DEFINE share == ShareOf(chunk, pos, f)
           W == Overwrite(w, pos, chunk)
<1>1. PICK n \in Nat \ {0} : n = Len(chunk)
  OBVIOUS
<1>2. PICK L \in Nat : L = Len(w)
  OBVIOUS
<1>3. PICK end \in Nat \ {0} : end = pos + n
  OBVIOUS
<1>4. PICK A \in Nat : A = At(f)
  BY AtNat
<1>5. PICK from \in Nat : /\ from = Start(f, pos) /\ from < SPLIT_FACTOR
                          /\ A + from = IF A <= pos THEN pos ELSE A
                          /\ pos < A + SPLIT_FACTOR
  <2>1. /\ Start(f, pos) \in 0 .. SPLIT_FACTOR - 1 /\ pos < At(f) + SPLIT_FACTOR
        /\ At(f) + Start(f, pos) = IF At(f) <= pos THEN pos ELSE At(f)
    BY StartAt DEF Touched
  <2>2. QED  BY <1>4, <2>1, SplitAssumption
<1>6. PICK to \in Nat \ {0} :
        /\ to = End(f, end) /\ to <= SPLIT_FACTOR /\ A < end
        /\ A + to = IF end <= A + SPLIT_FACTOR THEN end ELSE A + SPLIT_FACTOR
  <2>1. f <= LastFile(end)
    BY <1>1, <1>3 DEF Touched
  <2>2. /\ End(f, end) \in 1 .. SPLIT_FACTOR /\ At(f) < end
        /\ At(f) + End(f, end) = IF end <= At(f) + SPLIT_FACTOR THEN end ELSE At(f) + SPLIT_FACTOR
    BY <2>1, EndAt
  <2>3. QED  BY <1>4, <2>2, SplitAssumption
<1>7. /\ from < SPLIT_FACTOR /\ A + from = IF A <= pos THEN pos ELSE A
      /\ pos < A + SPLIT_FACTOR
      /\ to <= SPLIT_FACTOR /\ A < end
      /\ A + to = IF end <= A + SPLIT_FACTOR THEN end ELSE A + SPLIT_FACTOR
  BY <1>5, <1>6
<1>8. PICK i \in Int : i = from - (pos - A) + 1
  OBVIOUS
<1>9. PICK j \in Int : j = to - (pos - A)
  OBVIOUS
<1>10. share = SubSeq(chunk, i, j)
  BY <1>1, <1>3, <1>4, <1>5, <1>6, <1>8, <1>9 DEF ShareOf
<1> HIDE DEF share
<1>11. 1 <= i /\ i <= j /\ j <= n /\ from <= to
  BY <1>3, <1>7, <1>8, <1>9, SplitAssumption
<1>12. /\ share \in Seq(Bytes) /\ Len(share) = to - from
       /\ \A k \in 1 .. to - from : share[k] = chunk[(A + k + from) - pos]
  <2>1. i \in 1 .. Len(chunk) /\ j \in i .. Len(chunk)
    BY <1>1, <1>11
  <2>2. share \in Seq(Bytes) /\ Len(share) = (j - i) + 1
        /\ \A k \in 1 .. (j - i) + 1 : share[k] = chunk[(i - 1) + k]
    BY <1>10, <2>1, SliceOf
  <2>3. (j - i) + 1 = to - from /\ i - 1 = (A + from) - pos
    BY <1>8, <1>9
  <2>4. \A k \in 1 .. to - from : (A + k + from) - pos = (i - 1) + k
    BY <1>8
  <2>5. QED  BY <2>2, <2>3, <2>4
<1>13. from + Len(share) = to
  BY <1>12
<1>14. /\ W \in Seq(Bytes) /\ Len(W) = IF end > L THEN end ELSE L
       /\ \A k \in 1 .. Len(W) : W[k] = IF pos < k /\ k <= end THEN chunk[k - pos]
                                        ELSE IF k <= L THEN w[k] ELSE Zero
  BY <1>1, <1>2, <1>3, OverwriteTyped
<1> DEFINE O == Overwrite(Cells(w, f), from, share)
<1>15. PICK M \in Nat : M = Len(W) /\ M = IF end > L THEN end ELSE L
  BY <1>14
<1>16. PICK c \in Nat : c = CellsLen(w, f)
  BY CellsTyped
<1>17. c <= SPLIT_FACTOR
       /\ c = IF L <= A THEN 0 ELSE IF L <= A + SPLIT_FACTOR THEN L - A ELSE SPLIT_FACTOR
  <2>1. CellsLen(w, f) \in 0 .. SPLIT_FACTOR
    BY CellsTyped
  <2>2. QED  BY <1>2, <1>4, <1>16, <2>1, SplitAssumption DEF CellsLen
<1>18. /\ Cells(w, f) \in Seq(Bytes) /\ Len(Cells(w, f)) = c
       /\ \A k \in 1 .. c : Cells(w, f)[k] = w[A + k]
  <2>1. /\ Cells(w, f) \in Seq(Bytes) /\ Len(Cells(w, f)) = CellsLen(w, f)
        /\ CellsLen(w, f) \in 0 .. SPLIT_FACTOR
    BY CellsTyped
  <2>2. \A k \in 1 .. CellsLen(w, f) : Cells(w, f)[k] = w[A + k]
    BY <1>4 DEF Cells
  <2>3. QED  BY <1>16, <2>1, <2>2
<1>19. /\ O \in Seq(Bytes) /\ Len(O) = IF to > c THEN to ELSE c
       /\ \A k \in 1 .. Len(O) : O[k] = IF from < k /\ k <= to THEN share[k - from]
                                        ELSE IF k <= c THEN Cells(w, f)[k] ELSE Zero
  <2>1. /\ O \in Seq(Bytes)
        /\ Len(O) = IF from + Len(share) > Len(Cells(w, f)) THEN from + Len(share) ELSE Len(Cells(w, f))
        /\ \A k \in 1 .. Len(O) :
             O[k] = IF from < k /\ k <= from + Len(share) THEN share[k - from]
                    ELSE IF k <= Len(Cells(w, f)) THEN Cells(w, f)[k] ELSE Zero
    <3>1. share \in Seq(Bytes) /\ Cells(w, f) \in Seq(Bytes) /\ from \in Nat
      BY <1>12, <1>18
    <3> DEFINE d == Cells(w, f)
    <3>2. O = Overwrite(d, from, share)
      OBVIOUS
    <3>3. d \in Seq(Bytes)
      BY <3>1
    <3> HIDE DEF W, O, d
    <3>4. /\ O \in Seq(Bytes)
          /\ Len(O) = IF from + Len(share) > Len(d) THEN from + Len(share) ELSE Len(d)
          /\ \A k \in 1 .. Len(O) :
               O[k] = IF from < k /\ k <= from + Len(share) THEN share[k - from]
                      ELSE IF k <= Len(d) THEN d[k] ELSE Zero
      BY <3>1, <3>2, <3>3, OverwriteIs
    <3>5. QED  BY <3>4 DEF d
  <2>2. QED  BY <1>13, <1>18, <2>1
<1>20. /\ Cells(W, f) \in Seq(Bytes) /\ Len(Cells(W, f)) = CellsLen(W, f)
       /\ CellsLen(W, f) \in 0 .. SPLIT_FACTOR
       /\ \A k \in 1 .. CellsLen(W, f) : At(f) + k \in 1 .. Len(W)
  BY <1>14, CellsTyped
<1>21. PICK C \in Nat : C = CellsLen(W, f)
  BY <1>20
<1>22. C <= SPLIT_FACTOR /\ C = IF to > c THEN to ELSE c
  <2>1. C = IF M <= A THEN 0 ELSE IF M <= A + SPLIT_FACTOR THEN M - A ELSE SPLIT_FACTOR
    BY <1>15, <1>21, <1>4 DEF CellsLen
  <2>2. C <= SPLIT_FACTOR
    BY <1>20, <1>21, SplitAssumption
  <2> HIDE DEF W
  <2>3. M = IF end > L THEN end ELSE L
    BY <1>15
  <2>4. QED  BY <2>1, <2>2, <2>3, <1>7, <1>17, SplitAssumption
<1>23. /\ Cells(W, f) \in Seq(Bytes) /\ Len(Cells(W, f)) = C
       /\ \A k \in 1 .. C : Cells(W, f)[k] = W[A + k]
       /\ \A k \in 1 .. C : A + k \in 1 .. Len(W)
  <2>1. \A k \in 1 .. CellsLen(W, f) : Cells(W, f)[k] = W[A + k]
    BY <1>4 DEF Cells
  <2> HIDE DEF W
  <2>2. QED  BY <1>4, <1>20, <1>21, <2>1
<1> HIDE DEF O, W
<1>24. ASSUME NEW k \in 1 .. Len(O) PROVE O[k] = Cells(W, f)[k]
  <2>1. k \in 1 .. C /\ k \in Nat
    BY <1>19, <1>22
  <2>2. Cells(W, f)[k] = IF pos < A + k /\ A + k <= end THEN chunk[(A + k) - pos]
                         ELSE IF A + k <= L THEN w[A + k] ELSE Zero
    BY <1>14, <1>23, <2>1
  <2>3. (pos < A + k /\ A + k <= end) <=> (from < k /\ k <= to)
    BY <1>3, <1>7, <1>22, <2>1, SplitAssumption
  <2>4. CASE from < k /\ k <= to
    <3>1. k - from \in 1 .. to - from /\ (A + (k - from) + from) - pos = (A + k) - pos
      BY <2>1, <2>4
    <3>2. O[k] = share[k - from]
      BY <1>19, <2>4
    <3>3. share[k - from] = chunk[(A + k) - pos]
      BY <1>12, <3>1
    <3>4. QED  BY <2>2, <2>3, <2>4, <3>2, <3>3
  <2>5. CASE ~(from < k /\ k <= to)
    <3>1. O[k] = IF k <= c THEN Cells(w, f)[k] ELSE Zero
      BY <1>19, <2>5
    <3>2. Cells(W, f)[k] = IF A + k <= L THEN w[A + k] ELSE Zero
      BY <2>2, <2>3, <2>5
    <3>3. k <= c <=> A + k <= L
      BY <1>17, <1>22, <2>1, SplitAssumption
    <3>4. QED  BY <1>18, <2>1, <3>1, <3>2, <3>3
  <2>6. QED  BY <2>4, <2>5
<1>25. Len(O) = Len(Cells(W, f))
  BY <1>19, <1>23, <1>22
<1>26. O = Cells(W, f)
  BY <1>19, <1>23, <1>24, <1>25, SameRow
<1>27. Start(f, pos) + Len(ShareOf(chunk, pos, f)) = End(f, pos + Len(chunk))
  BY <1>1, <1>3, <1>5, <1>6, <1>13 DEF share
<1>28. QED  BY <1>5, <1>12, <1>26, <1>27 DEF O, W, share

\* A part that is not written is as it was, or filled up where the bytes grow
\* past it.
LEMMA PartFilled ==
  ASSUME NEW w \in Seq(Bytes), NEW W \in Seq(Bytes), NEW f \in Nat, NEW n \in Nat,
         CellsLen(W, f) = n,
         \A k \in 1 .. n : W[At(f) + k] = IF At(f) + k <= Len(w) THEN w[At(f) + k] ELSE Zero
  PROVE  Resize(Cells(w, f), n) = Cells(W, f)
<1>1. /\ Cells(w, f) \in Seq(Bytes) /\ Len(Cells(w, f)) = CellsLen(w, f)
      /\ \A k \in 1 .. CellsLen(w, f) : Cells(w, f)[k] = w[At(f) + k]
      /\ CellsLen(w, f) \in 0 .. SPLIT_FACTOR
  BY CellsTyped DEF Cells
<1>2. /\ Cells(W, f) \in Seq(Bytes) /\ Len(Cells(W, f)) = n /\ n \in 0 .. SPLIT_FACTOR
      /\ \A k \in 1 .. n : Cells(W, f)[k] = W[At(f) + k]
  BY CellsTyped DEF Cells
<1> DEFINE R == Resize(Cells(w, f), n)
<1>3. /\ R \in Seq(Bytes) /\ Len(R) = n
      /\ \A k \in 1 .. n : R[k] = IF k <= Len(Cells(w, f)) THEN Cells(w, f)[k] ELSE Zero
  BY <1>1, ResizeTyped
<1> HIDE DEF R
<1>4. At(f) \in Nat /\ Len(w) \in Nat
  BY AtNat
<1>5. ASSUME NEW k \in 1 .. n PROVE R[k] = Cells(W, f)[k]
  <2>1. k <= CellsLen(w, f) <=> At(f) + k <= Len(w)
    BY <1>2, <1>4, SplitAssumption DEF CellsLen
  <2>2. CASE k <= CellsLen(w, f)
    <3>1. k \in 1 .. CellsLen(w, f)
      BY <1>1, <2>2
    <3>2. QED  BY <1>1, <1>2, <1>3, <2>1, <2>2, <3>1
  <2>3. CASE ~(k <= CellsLen(w, f))
    BY <1>1, <1>2, <1>3, <2>1, <2>3
  <2>4. QED  BY <2>2, <2>3
<1>6. QED  BY <1>2, <1>3, <1>5, SameRow DEF R

\* A part whose bytes are the same in two files is the same.
LEMMA SameCells ==
  ASSUME NEW w \in Seq(Bytes), NEW W \in Seq(Bytes), NEW f \in Nat,
         CellsLen(W, f) = CellsLen(w, f),
         \A k \in 1 .. CellsLen(w, f) : W[At(f) + k] = w[At(f) + k]
  PROVE  Cells(w, f) = Cells(W, f)
<1>1. /\ Cells(w, f) \in Seq(Bytes) /\ Len(Cells(w, f)) = CellsLen(w, f)
      /\ \A k \in 1 .. CellsLen(w, f) : Cells(w, f)[k] = w[At(f) + k]
  BY CellsTyped DEF Cells
<1>2. /\ Cells(W, f) \in Seq(Bytes) /\ Len(Cells(W, f)) = CellsLen(w, f)
      /\ \A k \in 1 .. CellsLen(w, f) : Cells(W, f)[k] = W[At(f) + k]
  BY CellsTyped DEF Cells
<1>3. QED  BY <1>1, <1>2, SameRow

-----------------------------------------------------------------------------
(* The inductive invariant.                                                *)

\* The parts one after the other.
Whole == FlattenSeq(disk)

\* The parts hold the file, with all but the last full, and the counts fit it.
Intact ==
  /\ disk \in Seq(Seq(Bytes)) /\ (Len(disk) # 0 => SplitOf(disk, Whole))
  /\ Whole \in Seq(Bytes) /\ Len(Whole) <= MaxLen
  /\ open \in BOOLEAN /\ cpsync \in BOOLEAN
  /\ ptr \in [1 .. IF open THEN Len(disk) ELSE 0 -> 0 .. SPLIT_FACTOR]
  /\ curPos \in 0 .. MaxLen /\ length \in 0 .. MaxLen
  /\ curFile = fileNo(curPos)
  /\ open => Len(disk) # 0 /\ length = Len(Whole)
  /\ ~open => curPos = 0

\* While cpsync_ is set nothing but the first part was ever touched: its
\* pointer is at the position, the others are where they were at the start.
InSync ==
  open /\ cpsync => /\ curFile = 0 /\ Ptr(0) = curPos
                    /\ \A f \in Nat \ {0} : Ptr(f) = 0

\* What is kept by every step: the parts are whole, and their lengths are what
\* the object takes them to be.
IInv == Intact /\ InSync

\* No parts hold no bytes.
LEMMA EmptyFlat == FlattenSeq(<< >>) = << >>
  BY DEF FlattenSeq

\* A part holds its share of the file, whether there is such a part or not.
LEMMA PartCells ==
  ASSUME Intact, open, NEW f \in Nat
  PROVE  Part(f) = Cells(Whole, f)
<1>1. disk \in Seq(Seq(Bytes)) /\ Len(disk) \in Nat \ {0}
  BY DEF Intact
<1>2. SplitOf(disk, Whole) /\ Whole \in Seq(Bytes)
  BY DEF Intact
<1>3. CASE f < Len(disk)
  <2>1. f + 1 \in 1 .. Len(disk) /\ (f + 1) - 1 = f
    BY <1>1, <1>3
  <2>2. QED  BY <1>2, <1>3, <2>1 DEF Part, SplitOf
<1>4. CASE ~(f < Len(disk))
  <2>1. At(Len(disk)) <= At(f)
    <3>1. CASE f = Len(disk)
      <4>1. At(f) \in Nat
        BY AtNat
      <4>2. QED  BY <3>1, <4>1
    <3>2. CASE f # Len(disk)
      <4>1. Len(disk) < f
        BY <1>1, <1>4, <3>2
      <4>2. At(Len(disk)) + SPLIT_FACTOR <= At(f)
        BY <1>1, <4>1, AtLater
      <4>3. At(Len(disk)) \in Nat
        BY <1>1, AtNat
      <4>4. At(f) \in Nat
        BY AtNat
      <4>5. QED  BY <4>2, <4>3, <4>4, SplitAssumption
    <3>3. QED  BY <3>1, <3>2
  <2>2. Len(Whole) <= At(Len(disk))
    BY <1>2 DEF SplitOf
  <2>3. Len(Whole) \in Nat
    BY <1>2
  <2>4. At(f) \in Nat
    BY AtNat
  <2>5. At(Len(disk)) \in Nat
    BY <1>1, AtNat
  <2>6. Len(Whole) <= At(f)
    BY <2>1, <2>2, <2>3, <2>4, <2>5
  <2>7. CellsLen(Whole, f) = 0
    BY <2>6 DEF CellsLen
  <2>8. Cells(Whole, f) = << >>
    BY <2>7 DEF Cells
  <2>9. QED  BY <1>4, <2>8 DEF Part
<1>5. QED  BY <1>3, <1>4

\* Where the pointer of a part is trusted it is where the part's share starts.
LEMMA PlacesRight ==
  ASSUME IInv, open, NEW f \in Nat, fileNo(curPos) <= f
  PROVE  WritePlace(f) = Start(f, curPos) /\ ReadPlace(f) = Start(f, curPos)
<1>1. curPos \in Nat /\ curFile = fileNo(curPos) /\ cpsync \in BOOLEAN
  BY SplitAssumption DEF IInv, Intact
<1>2. CASE cpsync
  <2>1. fileNo(curPos) = 0 /\ Ptr(0) = curPos /\ \A g \in Nat \ {0} : Ptr(g) = 0
    BY <1>1, <1>2 DEF IInv, InSync
  <2>2. Start(f, curPos) = Ptr(f)
    <3>1. fileOff(curPos) \in 0 .. SPLIT_FACTOR - 1 /\ curPos = At(fileNo(curPos)) + fileOff(curPos)
      BY <1>1, OffsetIn
    <3>2. curPos = fileOff(curPos)
      BY <2>1, <3>1, AtZero, SplitAssumption
    <3>3. QED  BY <2>1, <3>2 DEF Start
  <2>3. QED  BY <2>2 DEF WritePlace, ReadPlace
<1>3. CASE ~cpsync
  BY <1>3 DEF WritePlace, ReadPlace
<1>4. QED  BY <1>2, <1>3

\* A chunk is a row of bytes, and not empty.
LEMMA ChunkIs ==
  ASSUME NEW chunk \in Chunks
  PROVE  chunk \in Seq(Bytes) /\ Len(chunk) \in Nat \ {0}
<1>1. PICK n \in Sizes : chunk \in [1 .. n -> Bytes]
  BY DEF Chunks
<1>2. n \in Nat \ {0}
  BY SplitAssumption
<1>3. QED  BY <1>1, <1>2

\* The largest of a set of numbers.
LEMMA MaxOf ==
  ASSUME NEW T, T \subseteq Nat, NEW m \in T, \A x \in T : x <= m
  PROVE  Max(T) = m
<1>1. \A x \in T : (\A y \in T : x >= y) <=> x = m
  OBVIOUS
<1>2. QED  BY <1>1 DEF Max

\* There are as many parts after a write as its last byte needs.
LEMMA PartsToIs ==
  ASSUME NEW end \in Nat \ {0}, curPos \in Nat, curPos < end, Len(disk) \in Nat
  PROVE  PartsTo(end) = IF LastFile(end) + 1 > Len(disk) THEN LastFile(end) + 1 ELSE Len(disk)
<1>1. PICK z \in Nat : z = LastFile(end)
  BY EndIn
<1>2. PICK N \in Nat : N = Len(disk)
  OBVIOUS
<1>3. PICK a \in Nat : a = fileNo(curPos)
  BY OffsetIn
<1>4. a <= z
  <2> SUFFICES ASSUME z < a PROVE FALSE
    OBVIOUS
  <2>1. At(z) \in Nat /\ At(z) + SPLIT_FACTOR <= curPos
    BY <1>3, BeforeStart
  <2>2. At(z) + ToOff(end) = end /\ ToOff(end) \in 1 .. SPLIT_FACTOR
    BY <1>1, EndIn
  <2>3. QED  BY <2>1, <2>2, SplitAssumption
<1> DEFINE T == {N} \cup {fno + 1 : fno \in a .. z}
           m == IF z + 1 > N THEN z + 1 ELSE N
<1>5. T \subseteq Nat /\ m \in T /\ \A x \in T : x <= m
  BY <1>4
<1>6. PartsTo(end) = Max(T)
  BY <1>1, <1>2, <1>3 DEF PartsTo, WriteFiles
<1> HIDE DEF T
<1>7. Max(T) = m
  BY <1>5, MaxOf
<1>8. QED  BY <1>1, <1>2, <1>6, <1>7

\* Of every part there is after a write: it holds its share of the bytes with
\* those of the chunk over them.
LEMMA WritePart ==
  ASSUME IInv, open, NEW chunk \in Chunks, NEW f \in Nat,
         f < PartsTo(curPos + Len(chunk))
  PROVE  (IF Filled(f, curPos + Len(chunk)) THEN Resize(Written(chunk, f), SPLIT_FACTOR)
          ELSE Written(chunk, f)) = Cells(Overwrite(Whole, curPos, chunk), f)
<1> DEFINE w == Whole
           W == Overwrite(Whole, curPos, chunk)
           new == IF Filled(f, curPos + Len(chunk)) THEN Resize(Written(chunk, f), SPLIT_FACTOR)
                  ELSE Written(chunk, f)
<1>1. Intact
  BY DEF IInv
<1>2. chunk \in Seq(Bytes) /\ Len(chunk) \in Nat \ {0} /\ w \in Seq(Bytes)
  BY <1>1, ChunkIs DEF Intact
<1>3. PICK pos \in Nat : pos = curPos
  BY <1>1, SplitAssumption DEF Intact
<1>4. PICK L \in Nat : L = Len(w)
  BY <1>2
<1>5. PICK end \in Nat \ {0} : end = pos + Len(chunk) /\ pos < end
  BY <1>2
<1>6. PICK N \in Nat \ {0} : N = Len(disk)
  BY <1>1 DEF Intact
<1>7. PICK z \in Nat : z = LastFile(end)
  BY EndIn
<1>8. PICK a \in Nat : a = fileNo(pos)
  BY OffsetIn
<1>9. PICK A \in Nat : A = At(f)
  BY AtNat
<1>10. f < IF z + 1 > N THEN z + 1 ELSE N
  <2>1. PartsTo(end) = IF LastFile(end) + 1 > Len(disk) THEN LastFile(end) + 1 ELSE Len(disk)
    BY <1>3, <1>5, <1>6, PartsToIs
  <2>2. PartsTo(end) = IF z + 1 > N THEN z + 1 ELSE N
    BY <2>1, <1>6, <1>7
  <2>3. QED  BY <1>3, <1>5, <2>2
<1>11. Part(f) = Cells(w, f)
  BY <1>1, PartCells
<1>12. WriteFiles(curPos + Len(chunk)) = a .. z
  BY <1>3, <1>5, <1>7, <1>8 DEF WriteFiles
<1>13. Filled(f, curPos + Len(chunk)) <=> f >= N - 1 /\ \E g \in a .. z : f < g
  BY <1>6, <1>12 DEF Filled
<1>14. /\ W \in Seq(Bytes) /\ Len(W) = IF end > L THEN end ELSE L
       /\ \A k \in 1 .. Len(W) : W[k] = IF pos < k /\ k <= end THEN chunk[k - pos]
                                        ELSE IF k <= L THEN w[k] ELSE Zero
  <2>1. W = Overwrite(w, pos, chunk)
    BY <1>3
  <2> HIDE DEF W, w
  <2> DEFINE O == Overwrite(w, pos, chunk)
  <2>2. /\ O \in Seq(Bytes)
        /\ Len(O) = IF pos + Len(chunk) > Len(w) THEN pos + Len(chunk) ELSE Len(w)
        /\ \A k \in 1 .. Len(O) :
             O[k] = IF pos < k /\ k <= pos + Len(chunk) THEN chunk[k - pos]
                    ELSE IF k <= Len(w) THEN w[k] ELSE Zero
    BY <1>2, OverwriteTyped
  <2> HIDE DEF O
  <2>3. QED  BY <1>4, <1>5, <2>1, <2>2 DEF O
<1>15. PICK M \in Nat : M = Len(W) /\ M = IF end > L THEN end ELSE L
  BY <1>14
<1>16. CellsLen(w, f) = IF L <= A THEN 0 ELSE IF L <= A + SPLIT_FACTOR THEN L - A ELSE SPLIT_FACTOR
  BY <1>4, <1>9 DEF CellsLen
<1>17. CellsLen(W, f) = IF M <= A THEN 0 ELSE IF M <= A + SPLIT_FACTOR THEN M - A ELSE SPLIT_FACTOR
  <2>1. M = Len(W)
    BY <1>15
  <2> HIDE DEF W
  <2>2. QED  BY <1>9, <2>1 DEF CellsLen
\* Where the file as it was covers the part, the part is full.
<1>18. f < N - 1 => A + SPLIT_FACTOR <= L
  <2> SUFFICES ASSUME f < N - 1 PROVE A + SPLIT_FACTOR <= L
    OBVIOUS
  <2>1. N - 1 \in Nat /\ At(N - 1) <= L
    BY <1>1, <1>4, <1>6 DEF Intact, SplitOf
  <2>2. At(f) + SPLIT_FACTOR <= At(N - 1)
    BY <2>1, AtLater
  <2>3. At(N - 1) \in Nat
    BY <2>1, AtNat
  <2>4. QED  BY <1>9, <2>1, <2>2, <2>3, SplitAssumption
<1> HIDE DEF w, W
<1>19. CASE f \in a .. z
  <2>1. Touched(f, pos, chunk)
    BY <1>3, <1>5, <1>7, <1>8, <1>19 DEF Touched
  <2>2. /\ ShareOf(chunk, pos, f) \in Seq(Bytes)
        /\ Start(f, pos) + Len(ShareOf(chunk, pos, f)) = End(f, pos + Len(chunk))
        /\ Overwrite(Cells(w, f), Start(f, pos), ShareOf(chunk, pos, f))
              = Cells(Overwrite(w, pos, chunk), f)
    BY <1>2, <2>1, PartWritten
  <2>3. WritePlace(f) = Start(f, pos)
    <3>1. fileNo(curPos) <= f
      BY <1>3, <1>8, <1>19
    <3>2. QED  BY <1>3, <3>1, PlacesRight
  <2>4. Share(chunk, f) = ShareOf(chunk, pos, f)
    BY <1>3 DEF Share, ShareOf, At
  <2>5. Written(chunk, f) = Cells(W, f)
    BY <1>3, <1>11, <1>12, <1>19, <2>2, <2>3, <2>4 DEF Written, W, w
  <2>6. CASE Filled(f, curPos + Len(chunk))
    <3>1. f <= LastFile(end) /\ f # LastFile(end)
      BY <1>7, <1>13, <1>19, <2>6
    <3>2. A + SPLIT_FACTOR < end
      BY <1>9, <3>1, EndAt
    <3>3. CellsLen(W, f) = SPLIT_FACTOR
      BY <1>15, <1>17, <3>2, SplitAssumption
    <3>4. Cells(W, f) \in Seq(Bytes) /\ Len(Cells(W, f)) = SPLIT_FACTOR
      BY <1>14, <3>3, CellsTyped
    <3>5. Resize(Cells(W, f), SPLIT_FACTOR) = Cells(W, f)
      <4>1. SPLIT_FACTOR \in Nat
        BY SplitAssumption
      <4> DEFINE c == Cells(W, f)
                 R == Resize(c, SPLIT_FACTOR)
      <4> HIDE DEF c
      <4>2. c \in Seq(Bytes) /\ Len(c) = SPLIT_FACTOR
        BY <3>4 DEF c
      <4>3. /\ R \in Seq(Bytes) /\ Len(R) = SPLIT_FACTOR
            /\ \A i \in 1 .. SPLIT_FACTOR : R[i] = IF i <= Len(c) THEN c[i] ELSE Zero
        BY <4>1, <4>2, ResizeTyped
      <4> HIDE DEF R
      <4>4. \A i \in 1 .. Len(R) : R[i] = c[i]
        BY <4>1, <4>2, <4>3
      <4>5. R = c
        BY <4>2, <4>3, <4>4, SameRow
      <4>6. QED  BY <4>5 DEF R, c
    <3>6. QED  BY <2>5, <2>6, <3>5 DEF W
  <2>7. CASE ~Filled(f, curPos + Len(chunk))
    BY <2>5, <2>7 DEF W
  <2>8. QED  BY <2>6, <2>7
<1>20. CASE f \notin a .. z
  <2>1. Written(chunk, f) = Cells(w, f)
    BY <1>11, <1>12, <1>20 DEF Written
  <2>2. CASE f < a
    <3>1. A + SPLIT_FACTOR <= pos
      BY <1>8, <1>9, <2>2, BeforeStart
    <3>2. CellsLen(W, f) = SPLIT_FACTOR
      BY <1>5, <1>15, <1>17, <3>1, SplitAssumption
    <3>3. \A k \in 1 .. SPLIT_FACTOR : W[A + k] = IF A + k <= L THEN w[A + k] ELSE Zero
      <4> SUFFICES ASSUME NEW k \in Nat, 1 <= k, k <= SPLIT_FACTOR
                   PROVE  W[A + k] = IF A + k <= L THEN w[A + k] ELSE Zero
        BY SplitAssumption
      <4>1. A + k <= pos /\ 1 <= A + k /\ A + k <= M
        BY <1>5, <1>15, <3>1, SplitAssumption
      <4>2. A + k \in 1 .. Len(W)
        BY <1>15, <4>1
      <4>3. QED  BY <1>14, <4>1, <4>2
    <3>4. a <= z
      <4> SUFFICES ASSUME z < a PROVE FALSE
        OBVIOUS
      <4>1. At(z) \in Nat /\ At(z) + SPLIT_FACTOR <= pos
        BY <1>8, BeforeStart
      <4>2. At(z) + ToOff(end) = end /\ ToOff(end) \in 1 .. SPLIT_FACTOR
        BY <1>7, EndIn
      <4>3. QED  BY <1>5, <4>1, <4>2, SplitAssumption
    <3>5. CASE f >= N - 1
      <4>1. Filled(f, curPos + Len(chunk))
        BY <1>13, <2>2, <3>4, <3>5
      <4>2. Resize(Cells(w, f), SPLIT_FACTOR) = Cells(W, f)
        <5>1. \A k \in 1 .. SPLIT_FACTOR : W[At(f) + k] = IF At(f) + k <= Len(w) THEN w[At(f) + k] ELSE Zero
          BY <1>4, <1>9, <3>3
        <5>2. SPLIT_FACTOR \in Nat
          BY SplitAssumption
        <5>3. QED  BY <1>2, <1>14, <3>2, <5>1, <5>2, PartFilled
      <4>3. QED  BY <2>1, <4>1, <4>2 DEF W
    <3>6. CASE f < N - 1
      <4>1. ~Filled(f, curPos + Len(chunk))
        BY <1>13, <3>6
      <4>2. CellsLen(w, f) = SPLIT_FACTOR
        BY <1>16, <1>18, <3>6, SplitAssumption
      <4>3. \A k \in 1 .. CellsLen(w, f) : W[At(f) + k] = w[At(f) + k]
        <5>1. A + SPLIT_FACTOR <= L
          BY <1>18, <3>6
        <5>2. \A k \in 1 .. SPLIT_FACTOR : A + k <= L
          BY <5>1, SplitAssumption
        <5>3. QED  BY <1>9, <3>3, <4>2, <5>2
      <4>4. Cells(w, f) = Cells(W, f)
        BY <1>2, <1>14, <3>2, <4>2, <4>3, SameCells
      <4>5. QED  BY <2>1, <4>1, <4>4 DEF W
    <3>7. QED  BY <3>5, <3>6
  <2>3. CASE z < f
    <3>1. ~Filled(f, curPos + Len(chunk))
      BY <1>13, <2>3
    <3>2. end <= A
      BY <1>7, <1>9, <2>3, AfterEnd
    <3>3. CellsLen(W, f) = CellsLen(w, f)
      BY <1>15, <1>16, <1>17, <3>2, SplitAssumption
    <3>4. \A k \in 1 .. CellsLen(w, f) : W[At(f) + k] = w[At(f) + k]
      <4>1. PICK c \in Nat : c = CellsLen(w, f)
        BY <1>2, CellsTyped
      <4> SUFFICES ASSUME NEW k \in Nat, 1 <= k, k <= c PROVE W[A + k] = w[A + k]
        BY <1>9, <4>1
      <4>2. A + k <= L
        BY <1>16, <4>1, SplitAssumption
      <4>3. ~(A + k <= end) /\ A + k <= M /\ 1 <= A + k
        BY <1>15, <3>2, <4>2
      <4>4. A + k \in 1 .. Len(W)
        BY <1>15, <4>3
      <4>5. QED  BY <1>14, <4>2, <4>3, <4>4
    <3>5. Cells(w, f) = Cells(W, f)
      BY <1>2, <1>14, <3>3, <3>4, SameCells
    <3>6. QED  BY <2>1, <3>1, <3>5 DEF W
  <2>4. QED  BY <1>20, <2>2, <2>3
<1>21. QED  BY <1>19, <1>20

\* Parts that are each a share of W, as many as W needs, hold W.
LEMMA SplitMade ==
  ASSUME NEW n \in Nat \ {0}, NEW W \in Seq(Bytes), NEW d, d = [i \in 1 .. n |-> d[i]],
         \A i \in 1 .. n : d[i] = Cells(W, i - 1),
         At(n - 1) <= Len(W), Len(W) <= At(n)
  PROVE  SplitOf(d, W) /\ Len(d) = n /\ FlattenSeq(d) = W
<1>1. \A i \in 1 .. n : d[i] \in Seq(Bytes)
  <2> SUFFICES ASSUME NEW i \in 1 .. n PROVE Cells(W, i - 1) \in Seq(Bytes)
    OBVIOUS
  <2>1. i - 1 \in Nat
    OBVIOUS
  <2>2. QED  BY <2>1, CellsTyped
<1>2. d \in Seq(Seq(Bytes)) /\ Len(d) = n
  BY SMTT(40), <1>1
<1>3. SplitOf(d, W)
  BY <1>2 DEF SplitOf
<1>4. QED  BY <1>2, <1>3, SplitFlat

\* A function on 1 .. n is a sequence.
LEMMA RowTyped ==
  ASSUME NEW T, NEW n \in Nat, NEW p \in [1 .. n -> T]
  PROVE  p \in Seq(T) /\ Len(p) = n
  OBVIOUS

\* The pointer of a part is within it, and at the start of one that is missing.
LEMMA PtrTyped ==
  ASSUME Intact, open, NEW f \in Nat
  PROVE  /\ Ptr(f) \in 0 .. SPLIT_FACTOR
         /\ ptr \in Seq(0 .. SPLIT_FACTOR) /\ Len(ptr) = Len(disk)
         /\ f < Len(disk) => Ptr(f) = ptr[f + 1]
<1>1. Len(disk) \in Nat /\ ptr \in [1 .. Len(disk) -> 0 .. SPLIT_FACTOR]
  BY DEF Intact
<1>2. ptr \in Seq(0 .. SPLIT_FACTOR) /\ Len(ptr) = Len(disk)
  <2>1. PICK n \in Nat : n = Len(disk)
    BY <1>1
  <2>2. ptr \in [1 .. n -> 0 .. SPLIT_FACTOR]
    BY <1>1, <2>1
  <2>3. ptr \in Seq(0 .. SPLIT_FACTOR) /\ Len(ptr) = n
    BY <2>2, RowTyped
  <2>4. QED  BY <2>1, <2>3
<1>3. f < Len(disk) => f + 1 \in 1 .. Len(disk)
  BY <1>1
<1>4. QED  BY <1>1, <1>2, <1>3, SplitAssumption DEF Ptr

\* What ends in the first part has its last byte there too.
LEMMA FirstPart ==
  ASSUME NEW e \in Nat \ {0}, fileNo(e) = 0
  PROVE  LastFile(e) = 0 /\ ToOff(e) = e
<1>1. /\ LastFile(e) \in Nat /\ ToOff(e) \in 1 .. SPLIT_FACTOR
      /\ e = At(LastFile(e)) + ToOff(e)
      /\ fileNo(e) \in {LastFile(e), LastFile(e) + 1}
  BY EndIn
<1>2. LastFile(e) = 0
  BY <1>1
<1>3. QED  BY <1>1, <1>2, AtZero, SplitAssumption

\* A write keeps the invariant, and the file is as FlatFile's write makes it.
LEMMA WriteKeeps ==
  ASSUME IInv, NEW chunk \in Chunks, Write(chunk)
  PROVE  IInv' /\ Whole' = Overwrite(Whole, curPos, chunk)
<1> DEFINE W == Overwrite(Whole, curPos, chunk)
<1>1. Intact /\ open
  BY DEF IInv, Write
<1>2. chunk \in Seq(Bytes) /\ Len(chunk) \in Nat \ {0} /\ Whole \in Seq(Bytes)
  BY <1>1, ChunkIs DEF Intact
<1>3. PICK pos \in Nat : pos = curPos
  BY <1>1, SplitAssumption DEF Intact
<1>4. PICK L \in Nat : L = Len(Whole)
  BY <1>2
<1>5. PICK end \in Nat \ {0} : end = pos + Len(chunk) /\ pos < end
  BY <1>2
<1>6. PICK N \in Nat \ {0} : N = Len(disk)
  BY <1>1 DEF Intact
<1>7. PICK z \in Nat : z = LastFile(end)
  BY EndIn
<1>8. PICK n \in Nat \ {0} : n = PartsTo(end) /\ n = IF z + 1 > N THEN z + 1 ELSE N
  <2>1. PartsTo(end) = IF LastFile(end) + 1 > Len(disk) THEN LastFile(end) + 1 ELSE Len(disk)
    BY <1>3, <1>5, <1>6, PartsToIs
  <2>2. QED  BY <1>6, <1>7, <2>1
<1>9. end = curPos + Len(chunk)
  BY <1>3, <1>5
<1>10. W \in Seq(Bytes) /\ Len(W) = IF end > L THEN end ELSE L
  <2>1. W = Overwrite(Whole, pos, chunk)
    BY <1>3
  <2>2. Overwrite(Whole, pos, chunk) \in Seq(Bytes)
        /\ Len(Overwrite(Whole, pos, chunk))
             = IF pos + Len(chunk) > Len(Whole) THEN pos + Len(chunk) ELSE Len(Whole)
    BY <1>2, OverwriteTyped
  <2>3. QED  BY <1>4, <1>5, <2>1, <2>2
<1>11. PICK M \in Nat : M = Len(W) /\ M = IF end > L THEN end ELSE L
  BY <1>10
<1>12. /\ disk' = [i \in 1 .. n |->
                     IF Filled(i - 1, end) THEN Resize(Written(chunk, i - 1), SPLIT_FACTOR)
                     ELSE Written(chunk, i - 1)]
       /\ ptr' = [i \in 1 .. n |->
                    IF i - 1 \in WriteFiles(end)
                    THEN WritePlace(i - 1) + Len(Share(chunk, i - 1)) ELSE Ptr(i - 1)]
       /\ length' = Max({length, end}) /\ end <= MaxLen
       /\ Arrive(end) /\ open' = open
  BY <1>8, <1>9 DEF Write
<1>13. \A i \in 1 .. n : disk'[i] = Cells(W, i - 1)
  <2> SUFFICES ASSUME NEW i \in 1 .. n PROVE disk'[i] = Cells(W, i - 1)
    OBVIOUS
  <2> DEFINE f == i - 1
  <2>1. f \in Nat /\ f < n
    OBVIOUS
  <2>2. disk'[i] = IF Filled(f, end) THEN Resize(Written(chunk, f), SPLIT_FACTOR)
                   ELSE Written(chunk, f)
    BY <1>12
  <2> HIDE DEF f
  <2>3. (IF Filled(f, curPos + Len(chunk)) THEN Resize(Written(chunk, f), SPLIT_FACTOR)
          ELSE Written(chunk, f)) = Cells(Overwrite(Whole, curPos, chunk), f)
    BY <1>1, <1>8, <1>9, <2>1, WritePart
  <2>4. QED  BY <1>9, <2>2, <2>3 DEF f
<1>14. At(n - 1) <= M /\ M <= At(n)
  <2>1. n - 1 \in Nat
    OBVIOUS
  <2>2. PICK A \in Nat : A = At(n - 1)
    BY <2>1, AtNat
  <2>3. At((n - 1) + 1) = A + SPLIT_FACTOR /\ (n - 1) + 1 = n
    BY <2>1, <2>2, AtNat
  <2>4. SplitOf(disk, Whole)
    BY <1>1 DEF Intact
  <2>5. N - 1 \in Nat /\ At(N - 1) <= L /\ L <= At(N)
    BY <1>4, <1>6, <2>4 DEF SplitOf
  <2>6. PICK B \in Nat : B = At(N - 1)
    BY <2>5, AtNat
  <2>7. At((N - 1) + 1) = B + SPLIT_FACTOR /\ (N - 1) + 1 = N
    BY <2>5, <2>6, AtNat
  <2>8. PICK Z \in Nat : Z = At(z)
    BY AtNat
  <2>9. Z < end /\ end <= Z + SPLIT_FACTOR
    <3>1. /\ ToOff(end) \in 1 .. SPLIT_FACTOR /\ end = At(LastFile(end)) + ToOff(end)
      BY EndIn
    <3>2. QED  BY <1>7, <2>8, <3>1, SplitAssumption
  <2>10. B <= L /\ L <= B + SPLIT_FACTOR
    BY <2>5, <2>6, <2>7
  <2>11. M = IF end > L THEN end ELSE L
    BY <1>11
  <2>12. CASE z + 1 > N
    <3>1. n - 1 = z
      BY <1>8, <2>12
    <3>2. A = Z
      BY <2>2, <2>8, <3>1
    <3>3. N - 1 < z
      BY <2>12
    <3>4. B + SPLIT_FACTOR <= Z
      BY <2>5, <2>6, <2>8, <3>3, AtLater
    <3>5. A <= M /\ M <= A + SPLIT_FACTOR
      BY <2>9, <2>10, <2>11, <3>2, <3>4, SplitAssumption
    <3>6. QED  BY <2>2, <2>3, <3>5
  <2>13. CASE ~(z + 1 > N)
    <3>1. n = N
      BY <1>8, <2>13
    <3>2. A = B
      BY <2>2, <2>6, <3>1
    <3>3. Z <= B
      <4>1. CASE z = N - 1
        BY <2>6, <2>8, <4>1
      <4>2. CASE z # N - 1
        <5>1. z < N - 1
          BY <2>13, <4>2
        <5>2. Z + SPLIT_FACTOR <= B
          BY <2>5, <2>6, <2>8, <5>1, AtLater
        <5>3. QED  BY <5>2, SplitAssumption
      <4>3. QED  BY <4>1, <4>2
    <3>4. A <= M /\ M <= A + SPLIT_FACTOR
      BY <2>9, <2>10, <2>11, <3>2, <3>3, SplitAssumption
    <3>5. QED  BY <2>2, <2>3, <3>4
  <2>14. QED  BY <2>12, <2>13
<1>15. disk' = [i \in 1 .. n |-> disk'[i]]
  BY <1>12
<1> HIDE DEF W
<1>16. SplitOf(disk', W) /\ Len(disk') = n /\ FlattenSeq(disk') = W
  BY <1>10, <1>11, <1>13, <1>14, <1>15, SplitMade
<1>17. Whole' = W
  BY <1>16 DEF Whole
<1>18. length' = M /\ length' \in 0 .. MaxLen
  <2>1. length \in 0 .. MaxLen /\ length = L
    BY <1>1, <1>4 DEF Intact
  <2>2. length' = IF L >= end THEN L ELSE end
    BY <1>12, <2>1, MaxOfTwo
  <2>3. M = IF end > L THEN end ELSE L
    BY <1>11
  <2>4. L <= MaxLen /\ end <= MaxLen
    BY <1>12, <2>1
  <2>5. QED  BY <2>2, <2>3, <2>4, SplitAssumption
<1>19. curPos' = end /\ curFile' = fileNo(end) /\ cpsync' = (cpsync /\ curFile = fileNo(end))
  BY <1>12 DEF Arrive
\* The pointers, and where those of the parts that were written are left.
<1>20. \A f \in Nat : f < n =>
         ptr'[f + 1] = IF fileNo(pos) <= f /\ f <= z THEN End(f, end) ELSE Ptr(f)
  <2> SUFFICES ASSUME NEW f \in Nat, f < n
               PROVE  ptr'[f + 1] = IF fileNo(pos) <= f /\ f <= z THEN End(f, end) ELSE Ptr(f)
    OBVIOUS
  <2>1. f + 1 \in 1 .. n /\ (f + 1) - 1 = f
    OBVIOUS
  <2>2. ptr'[f + 1] = IF f \in WriteFiles(end) THEN WritePlace(f) + Len(Share(chunk, f)) ELSE Ptr(f)
    BY <1>12, <2>1
  <2>3. f \in WriteFiles(end) <=> fileNo(pos) <= f /\ f <= z
    <3>1. fileNo(pos) \in Nat
      BY OffsetIn
    <3>2. QED  BY <1>3, <1>7, <3>1 DEF WriteFiles
  <2>4. ASSUME fileNo(pos) <= f, f <= z
        PROVE  WritePlace(f) + Len(Share(chunk, f)) = End(f, end)
    <3>1. WritePlace(f) = Start(f, pos)
      BY <1>1, <1>3, <2>4, PlacesRight
    <3>2. Touched(f, pos, chunk)
      BY <1>5, <1>7, <2>4 DEF Touched
    <3>3. Start(f, pos) + Len(ShareOf(chunk, pos, f)) = End(f, pos + Len(chunk))
      BY <1>2, <3>2, PartWritten
    <3>4. Share(chunk, f) = ShareOf(chunk, pos, f)
      BY <1>3 DEF Share, ShareOf, At
    <3>5. QED  BY <1>5, <3>1, <3>3, <3>4
  <2>5. QED  BY <2>2, <2>3, <2>4
<1>21. ptr' \in [1 .. n -> 0 .. SPLIT_FACTOR]
  <2> SUFFICES ASSUME NEW i \in 1 .. n PROVE ptr'[i] \in 0 .. SPLIT_FACTOR
    BY <1>12
  <2>1. PICK f \in Nat : f = i - 1 /\ f < n /\ f + 1 = i
    OBVIOUS
  <2>2. ptr'[i] = IF fileNo(pos) <= f /\ f <= z THEN End(f, end) ELSE Ptr(f)
    BY <1>20, <2>1
  <2>3. ASSUME f <= z PROVE End(f, end) \in 0 .. SPLIT_FACTOR
    <3>1. End(f, end) \in 1 .. SPLIT_FACTOR
      BY <1>7, <2>3, EndAt
    <3>2. QED  BY <3>1, SplitAssumption
  <2>4. Ptr(f) \in 0 .. SPLIT_FACTOR
    BY <1>1, PtrTyped
  <2>5. QED  BY <2>2, <2>3, <2>4
<1>22. InSync'
  <2> SUFFICES ASSUME cpsync'
               PROVE  curFile' = 0 /\ Ptr(0)' = curPos' /\ \A f \in Nat \ {0} : Ptr(f)' = 0
    BY DEF InSync
  <2>1. cpsync /\ curFile = fileNo(end)
    BY <1>19
  <2>2. curFile = 0 /\ \A f \in Nat \ {0} : Ptr(f) = 0
    BY <1>1, <2>1 DEF IInv, InSync
  <2>3. z = 0 /\ ToOff(end) = end /\ fileNo(pos) = 0
    BY <1>1, <1>3, <1>7, <2>1, <2>2, FirstPart DEF Intact
  <2>4. Len(ptr') = n
    BY <1>21
  <2>5. Ptr(0)' = end
    <3>1. ptr'[0 + 1] = End(0, end)
      BY <1>20, <2>3
    <3>2. End(0, end) = end
      BY <1>7, <2>3 DEF End
    <3>3. Ptr(0)' = IF 0 < n THEN ptr'[0 + 1] ELSE 0
      BY <2>4 DEF Ptr
    <3>4. QED  BY <3>1, <3>2, <3>3
  <2>6. ASSUME NEW f \in Nat \ {0} PROVE Ptr(f)' = 0
    <3>1. f < n => ptr'[f + 1] = Ptr(f)
      BY <1>20, <2>3
    <3>2. Ptr(f) = 0
      BY <2>2
    <3>3. Ptr(f)' = IF f < n THEN ptr'[f + 1] ELSE 0
      BY <2>4 DEF Ptr
    <3>4. QED  BY <3>1, <3>2, <3>3
  <2>7. QED  BY <1>19, <2>1, <2>2, <2>5, <2>6
<1>23. Intact'
  <2>1. disk' \in Seq(Seq(Bytes)) /\ Len(disk') = n
    BY <1>16 DEF SplitOf
  <2>2. curPos' \in 0 .. MaxLen
    BY <1>12, <1>19, SplitAssumption
  <2>3. open' \in BOOLEAN /\ cpsync' \in BOOLEAN /\ open'
    BY <1>1, <1>12, <1>19 DEF Intact
  <2>4. length' = Len(Whole') /\ length' \in 0 .. MaxLen /\ Len(Whole') <= MaxLen
    <3>1. length' = Len(Whole') /\ length' \in 0 .. MaxLen
      BY <1>11, <1>17, <1>18
    <3>2. length' <= MaxLen
      BY <3>1, SplitAssumption
    <3>3. QED  BY <3>1, <3>2
  <2>5. SplitOf(disk', Whole') /\ Whole' \in Seq(Bytes)
    BY <1>10, <1>16, <1>17
  <2>6. QED  BY <1>19, <1>21, <2>1, <2>2, <2>3, <2>4, <2>5 DEF Intact
<1>24. QED  BY <1>17, <1>22, <1>23 DEF IInv, W

-----------------------------------------------------------------------------
(* Reading.                                                                *)

\* What a read wants of a part is there.
LEMMA ReadPart ==
  ASSUME IInv, open, NEW n \in Sizes, NEW f \in Nat, f \in ReadFiles(n)
  PROVE  /\ ReadPlace(f) = Start(f, curPos)
         /\ Start(f, curPos) + Wanted(n, f) \in 0 .. SPLIT_FACTOR
         /\ Wanted(n, f) \in Nat
         /\ Len(Part(f)) \in Nat
         /\ Wanted(n, f) = 0 \/ Start(f, curPos) + Wanted(n, f) <= Len(Part(f))
         /\ Got(n, f) \in Seq(Bytes) /\ Len(Got(n, f)) = Wanted(n, f)
         /\ \A k \in 1 .. Wanted(n, f) : Got(n, f)[k] = Whole[At(f) + Start(f, curPos) + k]
<1>1. Intact
  BY DEF IInv
<1>2. PICK pos \in Nat : pos = curPos
  BY <1>1, SplitAssumption DEF Intact
<1>3. PICK L \in Nat : L = Len(Whole) /\ L = length
  BY <1>1 DEF Intact
<1>4. n \in Nat \ {0} /\ Whole \in Seq(Bytes)
  BY <1>1, SplitAssumption DEF Intact
<1>5. PICK e \in Nat : e = ReadEnd(n) /\ e <= L
  BY <1>2, <1>3, <1>4 DEF ReadEnd
<1>6. fileNo(pos) \in Nat /\ LastFile(e) \in Int
  <2>1. e # 0 => LastFile(e) \in Nat
    BY EndIn
  <2>2. QED  BY <2>1, OffsetIn, NoEnd
<1>7. fileNo(pos) <= f /\ f <= LastFile(e)
  BY <1>2, <1>5, <1>6 DEF ReadFiles
<1>8. e # 0
  BY <1>6, <1>7, NoEnd
<1>9. PICK A \in Nat : A = At(f)
  BY AtNat
<1>10. PICK from \in Nat : from = Start(f, pos)
  BY <1>7, StartAt
<1>11. /\ from < SPLIT_FACTOR /\ A + from = IF A <= pos THEN pos ELSE A
  <2>1. /\ Start(f, pos) \in 0 .. SPLIT_FACTOR - 1
        /\ At(f) + Start(f, pos) = IF At(f) <= pos THEN pos ELSE At(f)
    BY <1>7, StartAt
  <2>2. QED  BY <1>9, <1>10, <2>1, SplitAssumption
<1>12. PICK to \in Nat : to = End(f, e)
  BY <1>7, <1>8, EndAt
<1>13. to <= SPLIT_FACTOR /\ A < e
       /\ A + to = IF e <= A + SPLIT_FACTOR THEN e ELSE A + SPLIT_FACTOR
  <2>1. /\ End(f, e) \in 1 .. SPLIT_FACTOR /\ At(f) < e
        /\ At(f) + End(f, e) = IF e <= At(f) + SPLIT_FACTOR THEN e ELSE At(f) + SPLIT_FACTOR
    BY <1>7, <1>8, EndAt
  <2>2. QED  BY <1>9, <1>12, <2>1, SplitAssumption
<1>14. PICK m \in Nat : m = Wanted(n, f) /\ m = IF to >= from THEN to - from ELSE 0
  <2>1. Wanted(n, f) = Max({0, to - from})
    BY <1>2, <1>5, <1>10, <1>12 DEF Wanted
  <2>2. Max({0, to - from}) = IF 0 >= to - from THEN 0 ELSE to - from
    BY MaxOfTwo
  <2>3. QED  BY <2>1, <2>2
<1>15. /\ Part(f) \in Seq(Bytes) /\ Len(Part(f)) = CellsLen(Whole, f)
       /\ CellsLen(Whole, f) \in 0 .. SPLIT_FACTOR
       /\ \A k \in 1 .. CellsLen(Whole, f) : Part(f)[k] = Whole[A + k]
  <2>1. Part(f) = Cells(Whole, f)
    BY <1>1, PartCells
  <2>2. /\ Cells(Whole, f) \in Seq(Bytes) /\ Len(Cells(Whole, f)) = CellsLen(Whole, f)
        /\ CellsLen(Whole, f) \in 0 .. SPLIT_FACTOR
    BY <1>4, CellsTyped
  <2>3. \A k \in 1 .. CellsLen(Whole, f) : Cells(Whole, f)[k] = Whole[A + k]
    BY <1>9 DEF Cells
  <2>4. QED  BY <2>1, <2>2, <2>3
<1>16. PICK c \in Nat : c = CellsLen(Whole, f)
  BY <1>15
<1>17. to <= c /\ c <= SPLIT_FACTOR
  <2>1. c = IF L <= A THEN 0 ELSE IF L <= A + SPLIT_FACTOR THEN L - A ELSE SPLIT_FACTOR
    BY <1>3, <1>9, <1>16 DEF CellsLen
  <2>2. QED  BY <1>5, <1>13, <2>1, SplitAssumption
<1>18. m # 0 => from + m = to
  BY <1>14
<1>19. ReadPlace(f) = from
  BY <1>1, <1>2, <1>7, <1>10, PlacesRight
<1>20. from + m <= SPLIT_FACTOR /\ (m = 0 \/ from + m <= c)
  BY <1>11, <1>13, <1>17, <1>18, SplitAssumption
<1>21. /\ Got(n, f) \in Seq(Bytes) /\ Len(Got(n, f)) = m
       /\ \A k \in 1 .. m : Got(n, f)[k] = Whole[A + from + k]
  <2>1. Got(n, f) = SubSeq(Part(f), from + 1, Min({c, from + m}))
    BY <1>14, <1>15, <1>16, <1>19 DEF Got
  <2>2. Min({c, from + m}) = IF c <= from + m THEN c ELSE from + m
    BY MinOfTwo
  <2>3. CASE m = 0
    <3>1. PICK j \in Nat : j = Min({c, from + m}) /\ j <= from
      BY <2>2, <2>3
    <3>2. Got(n, f) = SubSeq(Part(f), from + 1, j) /\ j < from + 1
      BY <2>1, <3>1
    <3>3. SubSeq(Part(f), from + 1, j) = << >>
      BY <3>1, <1>15, NoSlice
    <3>4. QED  BY <2>3, <3>2, <3>3
  <2>4. CASE m # 0
    <3>1. Got(n, f) = SubSeq(Part(f), from + 1, from + m)
      <4>1. from + m <= c
        BY <1>20, <2>4
      <4>2. (IF c <= from + m THEN c ELSE from + m) = from + m
        BY <4>1
      <4>3. QED  BY <2>1, <2>2, <4>2
    <3>2. from + 1 \in 1 .. Len(Part(f)) /\ from + m \in from + 1 .. Len(Part(f))
      BY <1>15, <1>16, <1>20, <2>4
    <3> DEFINE s == SubSeq(Part(f), from + 1, from + m)
    <3>3. s \in Seq(Bytes) /\ Len(s) = ((from + m) - (from + 1)) + 1
          /\ \A k \in 1 .. ((from + m) - (from + 1)) + 1 : s[k] = Part(f)[((from + 1) - 1) + k]
      BY SMTT(40), <1>15, <3>2, SliceOf
    <3> HIDE DEF s
    <3>4. ((from + m) - (from + 1)) + 1 = m /\ (from + 1) - 1 = from
      OBVIOUS
    <3>5. s \in Seq(Bytes) /\ Len(s) = m /\ \A k \in 1 .. m : s[k] = Part(f)[from + k]
      BY <3>3, <3>4
    <3>6. \A k \in 1 .. m : Part(f)[from + k] = Whole[A + from + k]
      <4> SUFFICES ASSUME NEW k \in 1 .. m PROVE Part(f)[from + k] = Whole[A + from + k]
        OBVIOUS
      <4>1. from + k \in 1 .. CellsLen(Whole, f) /\ A + (from + k) = A + from + k
        BY <1>16, <1>20, <2>4
      <4>2. Part(f)[from + k] = Whole[A + (from + k)]
        BY <1>15, <4>1
      <4>3. QED  BY <4>1, <4>2
    <3>7. QED  BY <3>1, <3>5, <3>6 DEF s
  <2>5. QED  BY <2>3, <2>4
<1>22. Start(f, curPos) = from
  BY <1>2, <1>10
<1>23. from + m \in 0 .. SPLIT_FACTOR
  BY <1>20, SplitAssumption
<1>24. QED  BY <1>9, <1>14, <1>15, <1>16, <1>19, <1>20, <1>21, <1>22, <1>23

\* No part is too short for a read, and the pointers move to the end of what
\* was read.
LEMMA ReadKeeps ==
  ASSUME IInv, PastEnd = FALSE, NEW n \in Sizes, Read(n)
  PROVE  IInv' /\ Whole' = Whole /\ open /\ curPos' \in Nat
<1>1. Intact /\ open
  BY DEF IInv, Read
<1> DEFINE short == {fno \in ReadFiles(n) :
                  ReadPlace(fno) + Wanted(n, fno) > Max({Len(Part(fno)), ReadPlace(fno)})}
           done  == {fno \in ReadFiles(n) : \A s \in short : fno <= s}
<1>2. PICK pos \in Nat : pos = curPos
  BY <1>1, SplitAssumption DEF Intact
<1>3. PICK L \in Nat : L = Len(Whole) /\ L = length
  BY <1>1 DEF Intact
<1>4. n \in Nat \ {0} /\ Whole \in Seq(Bytes)
  BY <1>1, SplitAssumption DEF Intact
<1>5. PICK e \in Nat : e = ReadEnd(n) /\ e = IF pos + n < L THEN pos + n ELSE L
  BY <1>2, <1>3, <1>4 DEF ReadEnd
<1>6. fileNo(pos) \in Nat /\ LastFile(e) \in Int
  <2>1. e # 0 => LastFile(e) \in Nat
    BY EndIn
  <2>2. QED  BY <2>1, OffsetIn, NoEnd
<1>7. ReadFiles(n) = fileNo(pos) .. LastFile(e) /\ ReadFiles(n) \subseteq Nat
  BY <1>2, <1>5, <1>6 DEF ReadFiles
<1>8. short = {}
  <2> SUFFICES ASSUME NEW f \in ReadFiles(n)
               PROVE  ~(ReadPlace(f) + Wanted(n, f) > Max({Len(Part(f)), ReadPlace(f)}))
    OBVIOUS
  <2>1. f \in Nat /\ fileNo(pos) <= f
    BY <1>6, <1>7
  <2>2. PICK a \in Nat : a = ReadPlace(f) /\ a = Start(f, curPos)
    <3>1. Start(f, pos) \in 0 .. SPLIT_FACTOR - 1
      BY <2>1, StartAt
    <3>2. ReadPlace(f) = Start(f, curPos)
      BY <1>1, <2>1, ReadPart
    <3>3. QED  BY <1>2, <3>1, <3>2, SplitAssumption
  <2>3. PICK m \in Nat : m = Wanted(n, f)
    BY <1>1, <2>1, ReadPart
  <2>4. PICK c \in Nat : c = Len(Part(f))
    BY <1>1, <2>1, ReadPart
  <2>5. m = 0 \/ a + m <= c
    <3>1. Wanted(n, f) = 0 \/ Start(f, curPos) + Wanted(n, f) <= Len(Part(f))
      BY <1>1, <2>1, ReadPart
    <3>2. QED  BY <2>2, <2>3, <2>4, <3>1
  <2>6. Max({c, a}) = IF c >= a THEN c ELSE a
    BY MaxOfTwo
  <2>7. ~(a + m > Max({c, a}))
    BY <2>5, <2>6
  <2>8. QED  BY <2>2, <2>3, <2>4, <2>7
<1>9. done = ReadFiles(n)
  BY <1>8
<1>10. /\ ptr' = [i \in DOMAIN ptr |-> IF i - 1 \in done
                                       THEN ReadPlace(i - 1) + Len(Got(n, i - 1)) ELSE ptr[i]]
       /\ IF short = {} THEN Arrive(curPos + n) ELSE UNCHANGED <<curPos, curFile, cpsync>>
       /\ UNCHANGED <<disk, open, length>>
       /\ curPos + n <= MaxLen
       /\ PastEnd \/ ~cpsync \/ curPos + n <= length
  BY DEF Read
<1> HIDE DEF short, done
<1>11. PICK next \in Nat : next = pos + n /\ next # 0
  BY <1>4
<1>12. /\ curPos' = next /\ curFile' = fileNo(next)
       /\ cpsync' = (cpsync /\ curFile = fileNo(next))
  BY <1>2, <1>8, <1>10, <1>11 DEF Arrive
<1>13. PICK N \in Nat \ {0} : N = Len(disk)
  BY <1>1 DEF Intact
<1>14. ptr \in [1 .. N -> 0 .. SPLIT_FACTOR]
  BY <1>1, <1>13 DEF Intact
<1>15. ASSUME NEW f \in Nat, f < N
       PROVE  /\ ptr'[f + 1] = IF f \in ReadFiles(n) THEN Start(f, curPos) + Wanted(n, f) ELSE Ptr(f)
              /\ ptr'[f + 1] \in 0 .. SPLIT_FACTOR
  <2>1. f + 1 \in 1 .. N /\ (f + 1) - 1 = f
    BY <1>15
  <2>2. ptr'[f + 1] = IF f \in ReadFiles(n) THEN ReadPlace(f) + Len(Got(n, f)) ELSE ptr[f + 1]
    BY <1>9, <1>10, <1>14, <2>1
  <2>3. Ptr(f) = ptr[f + 1] /\ Ptr(f) \in 0 .. SPLIT_FACTOR
    BY <1>1, <1>13, <1>15, PtrTyped
  <2>4. ASSUME f \in ReadFiles(n)
        PROVE  /\ ReadPlace(f) + Len(Got(n, f)) = Start(f, curPos) + Wanted(n, f)
               /\ Start(f, curPos) + Wanted(n, f) \in 0 .. SPLIT_FACTOR
    <3>1. ReadPlace(f) = Start(f, curPos) /\ Len(Got(n, f)) = Wanted(n, f)
      BY <1>1, <2>4, ReadPart
    <3>2. Start(f, curPos) + Wanted(n, f) \in 0 .. SPLIT_FACTOR
      BY <1>1, <2>4, ReadPart
    <3>3. QED  BY <3>1, <3>2
  <2>5. QED  BY <2>2, <2>3, <2>4
<1>16. ptr' \in [1 .. N -> 0 .. SPLIT_FACTOR]
  <2> SUFFICES ASSUME NEW i \in 1 .. N PROVE ptr'[i] \in 0 .. SPLIT_FACTOR
    BY <1>10, <1>14
  <2>1. PICK f \in Nat : f = i - 1 /\ f < N /\ f + 1 = i
    OBVIOUS
  <2>2. ptr'[f + 1] \in 0 .. SPLIT_FACTOR
    BY <1>15, <2>1
  <2>3. QED  BY <2>1, <2>2
<1>17. Whole' = Whole
  BY <1>10 DEF Whole
<1>18. Intact'
  <2>1. curPos' \in 0 .. MaxLen
    BY <1>2, <1>10, <1>11, <1>12, SplitAssumption
  <2>2. cpsync' \in BOOLEAN
    BY <1>12
  <2>3. QED  BY <1>1, <1>10, <1>12, <1>13, <1>16, <1>17, <2>1, <2>2 DEF Intact
<1>19. InSync'
  <2> SUFFICES ASSUME cpsync'
               PROVE  curFile' = 0 /\ Ptr(0)' = curPos' /\ \A f \in Nat \ {0} : Ptr(f)' = 0
    BY DEF InSync
  <2>1. cpsync /\ curFile = fileNo(next)
    BY <1>12
  <2>2. curFile = 0 /\ \A f \in Nat \ {0} : Ptr(f) = 0
    BY <1>1, <2>1 DEF IInv, InSync
  <2>3. fileNo(next) = 0 /\ LastFile(next) = 0 /\ ToOff(next) = next /\ fileNo(pos) = 0
    BY <1>1, <1>2, <1>11, <2>1, <2>2, FirstPart DEF Intact
  <2>4. e = next
    <3>1. curPos + n <= length
      BY <1>10, <2>1
    <3>2. QED  BY <1>2, <1>3, <1>5, <1>11, <3>1
  <2>5. ReadFiles(n) = {0}
    BY <1>7, <2>3, <2>4
  <2>6. Len(ptr') = N
    BY <1>16, RowTyped
  <2>7. Ptr(0)' = next
    <3>1. ptr'[0 + 1] = Start(0, curPos) + Wanted(n, 0)
      BY <1>15, <2>5
    <3>2. Start(0, pos) + 0 = pos
      <4>1. At(0) + Start(0, pos) = IF At(0) <= pos THEN pos ELSE At(0)
        BY <2>3, StartAt
      <4>2. Start(0, pos) \in 0 .. SPLIT_FACTOR - 1
        BY <2>3, StartAt
      <4>3. QED  BY <4>1, <4>2, AtZero, SplitAssumption
    <3>3. Start(0, pos) = pos
      <4>1. Start(0, pos) \in 0 .. SPLIT_FACTOR - 1
        BY <2>3, StartAt
      <4>2. QED  BY <3>2, <4>1, SplitAssumption
    <3>4. End(0, e) = next
      BY <2>3, <2>4 DEF End
    <3>5. Wanted(n, 0) = Max({0, next - pos})
      BY <1>2, <1>5, <3>3, <3>4 DEF Wanted
    <3>6. Max({0, next - pos}) = n
      <4>1. Max({0, next - pos}) = IF 0 >= next - pos THEN 0 ELSE next - pos
        BY MaxOfTwo
      <4>2. next - pos = n
        BY <1>4, <1>11
      <4>3. QED  BY <1>4, <4>1, <4>2
    <3>7. Ptr(0)' = IF 0 < N THEN ptr'[0 + 1] ELSE 0
      BY <2>6 DEF Ptr
    <3>8. QED  BY <1>2, <1>11, <3>1, <3>3, <3>5, <3>6, <3>7
  <2>8. ASSUME NEW f \in Nat \ {0} PROVE Ptr(f)' = 0
    <3>1. f < N => ptr'[f + 1] = Ptr(f)
      BY <1>15, <2>5
    <3>2. Ptr(f) = 0
      BY <2>2
    <3>3. Ptr(f)' = IF f < N THEN ptr'[f + 1] ELSE 0
      BY <2>6 DEF Ptr
    <3>4. QED  BY <3>1, <3>2, <3>3
  <2>9. QED  BY <1>12, <2>1, <2>2, <2>7, <2>8
<1>20. QED  BY <1>1, <1>12, <1>17, <1>18, <1>19 DEF IInv

\* What a read returns is what the whole file holds there.
LEMMA ReadRight ==
  ASSUME IInv, open, NEW n \in Sizes
  PROVE  ReadResult(n) = SubSeq(Whole, curPos + 1, ReadEnd(n))
<1>1. Intact
  BY DEF IInv
<1>2. PICK pos \in Nat : pos = curPos
  BY <1>1, SplitAssumption DEF Intact
<1>3. PICK L \in Nat : L = Len(Whole) /\ L = length
  BY <1>1 DEF Intact
<1>4. n \in Nat \ {0} /\ Whole \in Seq(Bytes)
  BY <1>1, SplitAssumption DEF Intact
<1>5. PICK e \in Nat : e = ReadEnd(n) /\ e <= L
  BY <1>2, <1>3, <1>4 DEF ReadEnd
<1>6. PICK a \in Nat : a = fileNo(pos)
  BY OffsetIn
<1>7. PICK z \in Int : z = LastFile(e) /\ (e = 0 => z = -1) /\ (e # 0 => z \in Nat)
  <2>1. e # 0 => LastFile(e) \in Nat
    BY EndIn
  <2>2. QED  BY <2>1, NoEnd
<1>8. PICK m \in Nat : m = Max({0, LastFile(e) - fileNo(pos) + 1}) /\ m = IF z >= a THEN (z - a) + 1 ELSE 0
  <2>1. Max({0, (z - a) + 1}) = IF 0 >= (z - a) + 1 THEN 0 ELSE (z - a) + 1
    BY MaxOfTwo
  <2>2. QED  BY <1>6, <1>7, <2>1
<1> DEFINE pieces == [i \in 1 .. m |-> Got(n, a + i - 1)]
<1>9. ReadResult(n) = FlattenSeq(pieces)
  BY <1>2, <1>5, <1>6, <1>8 DEF ReadResult
<1>10. Len(pieces) = m
  OBVIOUS
\* Of a piece: where it comes from and how long it is.
<1>11. ASSUME NEW f \in Nat, a <= f, f <= z
       PROVE  \E A \in Nat, from \in Nat, to \in Nat :
                /\ A = At(f) /\ A + SPLIT_FACTOR = At(f + 1)
                /\ A + from = IF A <= pos THEN pos ELSE A
                /\ pos < A + SPLIT_FACTOR
                /\ A + to = IF e <= A + SPLIT_FACTOR THEN e ELSE A + SPLIT_FACTOR
                /\ A < e
                /\ Got(n, f) \in Seq(Bytes) /\ Len(Got(n, f)) = IF to >= from THEN to - from ELSE 0
                /\ \A k \in 1 .. Len(Got(n, f)) : Got(n, f)[k] = Whole[A + from + k]
  <2>1. f \in ReadFiles(n)
    BY <1>2, <1>5, <1>6, <1>7, <1>11 DEF ReadFiles
  <2>2. PICK A \in Nat : A = At(f)
    BY AtNat
  <2>3. PICK from \in Nat : from = Start(f, pos) /\ A + from = IF A <= pos THEN pos ELSE A
    <3>1. /\ Start(f, pos) \in 0 .. SPLIT_FACTOR - 1
          /\ At(f) + Start(f, pos) = IF At(f) <= pos THEN pos ELSE At(f)
      BY <1>6, <1>11, StartAt
    <3>2. QED  BY <2>2, <3>1, SplitAssumption
  <2>4. pos < A + SPLIT_FACTOR
    BY <1>6, <1>11, <2>2, StartAt
  <2>5. e # 0
    BY <1>7, <1>11
  <2>6. PICK to \in Nat : to = End(f, e)
                          /\ A + to = IF e <= A + SPLIT_FACTOR THEN e ELSE A + SPLIT_FACTOR
    <3>1. /\ End(f, e) \in 1 .. SPLIT_FACTOR
          /\ At(f) + End(f, e) = IF e <= At(f) + SPLIT_FACTOR THEN e ELSE At(f) + SPLIT_FACTOR
      BY <1>7, <1>11, <2>5, EndAt
    <3>2. QED  BY <2>2, <3>1, SplitAssumption
  <2>7. A < e
    BY <1>7, <1>11, <2>2, <2>5, EndAt
  <2>8. Wanted(n, f) = IF to >= from THEN to - from ELSE 0
    <3>1. Wanted(n, f) = Max({0, to - from})
      BY <1>2, <1>5, <2>3, <2>6 DEF Wanted
    <3>2. Max({0, to - from}) = IF 0 >= to - from THEN 0 ELSE to - from
      BY MaxOfTwo
    <3>3. QED  BY <3>1, <3>2
  <2>9. /\ Got(n, f) \in Seq(Bytes) /\ Len(Got(n, f)) = Wanted(n, f)
        /\ \A k \in 1 .. Wanted(n, f) : Got(n, f)[k] = Whole[At(f) + Start(f, curPos) + k]
    BY <1>1, <2>1, ReadPart
  <2>10. Got(n, f) \in Seq(Bytes) /\ Len(Got(n, f)) = IF to >= from THEN to - from ELSE 0
    BY <2>8, <2>9
  <2>11. \A k \in 1 .. Len(Got(n, f)) : Got(n, f)[k] = Whole[A + from + k]
    BY <1>2, <2>2, <2>3, <2>9
  <2>12. A + SPLIT_FACTOR = At(f + 1)
    BY <2>2, AtNat
  <2>13. /\ A = At(f) /\ A + SPLIT_FACTOR = At(f + 1)
         /\ A + from = IF A <= pos THEN pos ELSE A
         /\ pos < A + SPLIT_FACTOR
         /\ A + to = IF e <= A + SPLIT_FACTOR THEN e ELSE A + SPLIT_FACTOR
         /\ A < e
         /\ Got(n, f) \in Seq(Bytes) /\ Len(Got(n, f)) = IF to >= from THEN to - from ELSE 0
         /\ \A k \in 1 .. Len(Got(n, f)) : Got(n, f)[k] = Whole[A + from + k]
    BY <2>2, <2>3, <2>4, <2>6, <2>7, <2>10, <2>11, <2>12
  <2>14. QED  BY <2>13
<1>12. CASE e <= pos
  <2>1. SubSeq(Whole, pos + 1, e) = << >>
    BY <1>4, <1>12, NoSlice
  <2>2. m = 0 \/ m = 1
    <3> SUFFICES ASSUME z > a PROVE FALSE
      BY <1>8
    <3>1. e # 0 /\ z \in Nat
      BY <1>7
    <3>2. a <= LastFile(e) /\ a # LastFile(e)
      BY <1>7, <3>1
    <3>3. At(a) \in Nat /\ At(a) + SPLIT_FACTOR < e
      BY <3>1, <3>2, EndAt
    <3>4. pos < At(a) + SPLIT_FACTOR
      BY <1>6, StartAt
    <3>5. QED  BY <1>12, <3>3, <3>4, SplitAssumption
  <2>3. CASE m = 0
    <3>1. FlattenSeq(pieces) = pieces
      BY <1>10, <2>3 DEF FlattenSeq
    <3>2. pieces = << >>
      BY <2>3
    <3>3. QED  BY <1>2, <1>5, <1>9, <2>1, <3>1, <3>2
  <2>4. CASE m = 1
    <3>1. PICK f \in Nat : f = a /\ a <= f /\ f <= z
      BY <1>8, <2>4
    <3>2. PICK A \in Nat, from \in Nat, to \in Nat :
                /\ A = At(f) /\ A + SPLIT_FACTOR = At(f + 1)
                /\ A + from = IF A <= pos THEN pos ELSE A
                /\ pos < A + SPLIT_FACTOR
                /\ A + to = IF e <= A + SPLIT_FACTOR THEN e ELSE A + SPLIT_FACTOR
                /\ A < e
                /\ Got(n, f) \in Seq(Bytes) /\ Len(Got(n, f)) = IF to >= from THEN to - from ELSE 0
                /\ \A k \in 1 .. Len(Got(n, f)) : Got(n, f)[k] = Whole[A + from + k]
      BY <1>11, <3>1
    <3>3. /\ A + from = IF A <= pos THEN pos ELSE A
          /\ A + to = IF e <= A + SPLIT_FACTOR THEN e ELSE A + SPLIT_FACTOR
          /\ A < e
      BY <3>2
    <3>4. A + from = pos /\ A + to <= e
      BY <1>12, <3>3, SplitAssumption
    <3>5. (IF to >= from THEN to - from ELSE 0) = 0
      BY <1>12, <3>4
    <3>6. Got(n, a) = << >>
      <4>1. Got(n, f) \in Seq(Bytes) /\ Len(Got(n, f)) = 0
        BY <3>2, <3>5
      <4>2. QED  BY <3>1, <4>1
    <3>7. a + 1 - 1 = a
      OBVIOUS
    <3>8. pieces[1] = << >> /\ 1 \in 1 .. 1
      BY <2>4, <3>6, <3>7
    <3>9. pieces = [i \in 1 .. Len(pieces) |-> IF i = 1 THEN pieces[i] ELSE pieces[i - 1] \o pieces[i]]
      <4>1. \A i \in 1 .. 1 : i = 1
        OBVIOUS
      <4>2. pieces = [i \in 1 .. 1 |-> pieces[i]]
        BY <2>4
      <4>3. Len(pieces) = 1
        BY <1>10, <2>4
      <4> HIDE DEF pieces
      <4>4. pieces = [i \in 1 .. 1 |-> IF i = 1 THEN pieces[i] ELSE pieces[i - 1] \o pieces[i]]
        BY <4>1, <4>2
      <4>5. QED  BY <4>3, <4>4
    <3> HIDE DEF pieces
    <3>10. Len(pieces) \in Nat \ {0}
      BY <1>10, <2>4
    <3>11. FlattenSeq(pieces) = pieces[Len(pieces)]
      BY <3>9, <3>10, FlattenUnique
    <3>12. QED  BY <1>2, <1>5, <1>9, <1>10, <2>1, <2>4, <3>8, <3>11
  <2>5. QED  BY <2>2, <2>3, <2>4
<1>13. CASE pos < e
  <2> DEFINE To(i) == IF At(a + i) < e THEN At(a + i) - pos ELSE e - pos
             g == [i \in 1 .. m |-> [k \in 1 .. To(i) |-> Whole[pos + k]]]
  <2>1. z \in Nat /\ e # 0
    BY <1>7, <1>13
  <2>2. a <= z
    <3> SUFFICES ASSUME z < a PROVE FALSE
      BY <2>1
    <3>1. At(z) \in Nat /\ At(z) + SPLIT_FACTOR <= pos
      BY <1>6, <2>1, BeforeStart
    <3>2. At(z) + ToOff(e) = e /\ ToOff(e) \in 1 .. SPLIT_FACTOR
      BY <1>7, <2>1, EndIn
    <3>3. QED  BY <1>13, <3>1, <3>2, SplitAssumption
  <2>3. m = (z - a) + 1 /\ m \in Nat \ {0}
    BY <1>8, <2>1, <2>2
  <2>4. ASSUME NEW i \in 1 .. m
        PROVE  g[i] = IF i = 1 THEN pieces[i] ELSE g[i - 1] \o pieces[i]
    <3>1. PICK f \in Nat : f = a + i - 1 /\ a <= f /\ f <= z /\ f + 1 = a + i
      BY <2>3
    <3>2. pieces[i] = Got(n, f)
      BY <3>1
    <3>3. PICK A \in Nat, from \in Nat, to \in Nat :
                /\ A = At(f) /\ A + SPLIT_FACTOR = At(f + 1)
                /\ A + from = IF A <= pos THEN pos ELSE A
                /\ pos < A + SPLIT_FACTOR
                /\ A + to = IF e <= A + SPLIT_FACTOR THEN e ELSE A + SPLIT_FACTOR
                /\ A < e
                /\ Got(n, f) \in Seq(Bytes) /\ Len(Got(n, f)) = IF to >= from THEN to - from ELSE 0
                /\ \A k \in 1 .. Len(Got(n, f)) : Got(n, f)[k] = Whole[A + from + k]
      BY <1>11, <3>1
    <3>4. /\ A + from = IF A <= pos THEN pos ELSE A
          /\ A + to = IF e <= A + SPLIT_FACTOR THEN e ELSE A + SPLIT_FACTOR
          /\ A < e /\ pos < A + SPLIT_FACTOR
      BY <3>3
    <3>5. A = At(f) /\ A + SPLIT_FACTOR = At(f + 1)
      BY <3>3
    <3>6. PICK B \in Nat : B = At(a + i) /\ B = A + SPLIT_FACTOR
      BY <3>1, <3>5, SplitAssumption
    <3>7. PICK t \in Nat : t = To(i) /\ t = IF B < e THEN B - pos ELSE e - pos
      <4>1. B = A + SPLIT_FACTOR /\ B = At(a + i)
        BY <3>6
      <4>2. pos < B
        BY <3>4, <4>1
      <4>3. To(i) = IF B < e THEN B - pos ELSE e - pos
        BY <4>1
      <4> HIDE DEF To
      <4>4. (IF B < e THEN B - pos ELSE e - pos) \in Nat
        BY <1>13, <4>2
      <4>5. QED  BY <4>3, <4>4
    <3>8. t = IF B < e THEN B - pos ELSE e - pos
      BY <3>7
    <3>9. B = A + SPLIT_FACTOR
      BY <3>6
    <3>10. A + to = pos + t /\ to >= from
      BY <1>13, <3>4, <3>8, <3>9, SplitAssumption
    <3> HIDE DEF To
    <3>11. g[i] = [k \in 1 .. t |-> Whole[pos + k]]
      BY <3>7
    <3>12. Len(Got(n, f)) = to - from
      BY <3>3, <3>10
    <3>13. \A k \in 1 .. t : pos + k \in 1 .. Len(Whole) /\ Whole[pos + k] \in Bytes
      <4>1. pos + t <= L
        BY <1>5, <1>13, <3>6, <3>7
      <4>2. \A k \in 1 .. t : pos + k \in 1 .. Len(Whole)
        BY <1>3, <4>1
      <4>3. QED  BY <1>4, <4>2
    <3>14. g[i] \in Seq(Bytes) /\ Len(g[i]) = t /\ \A k \in 1 .. t : g[i][k] = Whole[pos + k]
      <4> DEFINE s == [k \in 1 .. t |-> Whole[pos + k]]
      <4>1. s \in Seq(Bytes) /\ Len(s) = t /\ \A k \in 1 .. t : s[k] = Whole[pos + k]
        BY <3>13
      <4> HIDE DEF s
      <4>2. g[i] = s
        BY <3>11 DEF s
      <4> HIDE DEF g
      <4>3. QED  BY <4>1, <4>2
    <3>15. CASE i = 1
      <4>1. A <= pos
        <5>1. f = fileNo(pos)
          BY <1>6, <3>1, <3>15
        <5>2. At(fileNo(pos)) + fileOff(pos) = pos /\ fileOff(pos) \in 0 .. SPLIT_FACTOR - 1
          BY OffsetIn
        <5>3. A + fileOff(pos) = pos
          BY <3>5, <5>1, <5>2
        <5>4. QED  BY <5>2, <5>3, SplitAssumption
      <4>2. A + from = pos /\ to - from = t
        BY <3>4, <3>10, <4>1
      <4> HIDE DEF g, pieces
      <4>3. Len(Got(n, f)) = t /\ \A k \in 1 .. t : Got(n, f)[k] = Whole[pos + k]
        <5>1. Len(Got(n, f)) = t
          BY <3>12, <4>2
        <5>2. \A k \in 1 .. Len(Got(n, f)) : Got(n, f)[k] = Whole[A + from + k]
          BY <3>3
        <5>3. QED  BY <4>2, <5>1, <5>2
      <4>4. \A k \in 1 .. Len(g[i]) : g[i][k] = Got(n, f)[k]
        BY <3>14, <4>3
      <4>5. g[i] = Got(n, f)
        BY <3>3, <3>14, <4>3, <4>4, SameRow
      <4>6. QED  BY <3>2, <3>15, <4>5
    <3>16. CASE i # 1
      <4>1. pos < A /\ from = 0
        <5>1. a < f
          BY <3>1, <3>16
        <5>2. At(a) + SPLIT_FACTOR <= At(f)
          BY <5>1, AtLater
        <5>3. At(a) \in Nat /\ pos < At(a) + SPLIT_FACTOR
          BY <1>6, StartAt
        <5>4. pos < A
          <6>1. PICK Q \in Nat : Q = At(a)
            BY <5>3
          <6>2. Q + SPLIT_FACTOR <= A /\ pos < Q + SPLIT_FACTOR
            BY <3>5, <5>2, <5>3, <6>1
          <6>3. QED  BY <6>2, SplitAssumption
        <5>5. QED  BY <3>4, <5>4
      <4>2. i - 1 \in 1 .. m /\ a + (i - 1) = f
        BY <3>1, <3>16
      <4>3. To(i - 1) = A - pos
        BY <3>3, <4>2 DEF To
      <4>4. g[i - 1] = [k \in 1 .. A - pos |-> Whole[pos + k]]
        BY <4>2, <4>3
      <4>5. PICK u \in Nat : u = A - pos /\ u + to = t
        BY <3>10, <4>1
      <4>6. g[i - 1] \in Seq(Bytes) /\ Len(g[i - 1]) = u /\ \A k \in 1 .. u : g[i - 1][k] = Whole[pos + k]
        <5> DEFINE s == [k \in 1 .. u |-> Whole[pos + k]]
        <5>1. \A k \in 1 .. u : k \in 1 .. t
          BY <4>5
        <5>2. s \in Seq(Bytes) /\ Len(s) = u /\ \A k \in 1 .. u : s[k] = Whole[pos + k]
          BY <3>13, <5>1
        <5> HIDE DEF s
        <5>3. g[i - 1] = s
          BY <4>4, <4>5 DEF s
        <5> HIDE DEF g
        <5>4. QED  BY <5>2, <5>3
      <4> DEFINE b == g[i - 1]
                 p == Got(n, f)
                 j == b \o p
      <4> HIDE DEF g, pieces
      <4>7. b \in Seq(Bytes) /\ Len(b) = u /\ p \in Seq(Bytes) /\ Len(p) = to
        BY <3>3, <3>12, <4>1, <4>6
      <4>8. \A k \in 1 .. u : b[k] = Whole[pos + k]
        BY <4>6
      <4>9. \A k \in 1 .. to : p[k] = Whole[A + k]
        BY SMTT(40), <3>3, <4>1, <4>7
      <4> HIDE DEF b, p
      <4>10. j \in Seq(Bytes) /\ Len(j) = t
        BY <4>5, <4>7
      <4>11. \A k \in 1 .. t : j[k] = Whole[pos + k]
        <5> SUFFICES ASSUME NEW k \in 1 .. t PROVE j[k] = Whole[pos + k]
          OBVIOUS
        <5>1. k \in 1 .. Len(b) + Len(p)
          BY <4>5, <4>7
        <5>2. j[k] = IF k <= Len(b) THEN b[k] ELSE p[k - Len(b)]
          BY <4>7, <5>1, Joined
        <5>3. CASE k <= u
          BY <4>7, <4>8, <5>2, <5>3
        <5>4. CASE ~(k <= u)
          <6>1. k - u \in 1 .. to /\ A + (k - u) = pos + k
            BY <4>5, <5>4
          <6>2. j[k] = p[k - u]
            BY <4>7, <5>2, <5>4
          <6>3. QED  BY <4>9, <6>1, <6>2
        <5>5. QED  BY <5>3, <5>4
      <4> HIDE DEF j
      <4>12. g[i] = j
        <5>1. g[i] \in Seq(Bytes) /\ Len(g[i]) = Len(j)
          BY <3>14, <4>10
        <5>2. \A k \in 1 .. Len(g[i]) : g[i][k] = j[k]
          BY <3>14, <4>11
        <5>3. QED  BY <4>10, <5>1, <5>2, SameRow
      <4>13. QED  BY <3>2, <3>16, <4>12 DEF j, b, p
    <3>17. QED  BY <3>15, <3>16
  <2>5. g = [i \in 1 .. Len(pieces) |-> IF i = 1 THEN pieces[i] ELSE g[i - 1] \o pieces[i]]
    <3> DEFINE h(i) == IF i = 1 THEN pieces[i] ELSE g[i - 1] \o pieces[i]
    <3>1. \A i \in 1 .. m : g[i] = h(i)
      BY <2>4
    <3>2. g = [i \in 1 .. m |-> g[i]]
      OBVIOUS
    <3> HIDE DEF g, h, pieces
    <3>3. g = [i \in 1 .. m |-> h(i)]
      BY <3>1, <3>2
    <3>4. QED  BY <1>10, <3>3 DEF h
  <2>6. g[m] = SubSeq(Whole, pos + 1, e)
    <3>1. m \in 1 .. m /\ a + m = z + 1
      BY <2>1, <2>3
    <3>2. e <= At(z + 1)
      <4>1. At(z + 1) = At(z) + SPLIT_FACTOR /\ At(z) \in Nat
        BY <2>1, AtNat
      <4>2. At(z) + ToOff(e) = e /\ ToOff(e) \in 1 .. SPLIT_FACTOR
        BY <1>7, <2>1, EndIn
      <4>3. QED  BY <4>1, <4>2, SplitAssumption
    <3>3. PICK B \in Nat : B = At(a + m) /\ e <= B
      <4>1. At(z + 1) \in Nat
        BY <2>1, AtNat
      <4>2. QED  BY <3>1, <3>2, <4>1
    <3>4. To(m) = e - pos
      BY <3>3
    <3> HIDE DEF To
    <3>5. g[m] = [k \in 1 .. e - pos |-> Whole[pos + k]]
      BY <3>1, <3>4
    <3>6. SubSeq(Whole, pos + 1, e) = [k \in 1 .. e - pos |-> Whole[pos + k]]
      <4>1. pos + 1 \in 1 .. Len(Whole) /\ e \in pos + 1 .. Len(Whole)
        BY <1>3, <1>5, <1>13
      <4> DEFINE s == SubSeq(Whole, pos + 1, e)
      <4>2. s \in Seq(Bytes) /\ Len(s) = (e - (pos + 1)) + 1
            /\ \A k \in 1 .. (e - (pos + 1)) + 1 : s[k] = Whole[((pos + 1) - 1) + k]
        BY <1>4, <4>1, SliceOf
      <4> HIDE DEF s
      <4>3. (e - (pos + 1)) + 1 = e - pos /\ (pos + 1) - 1 = pos
        OBVIOUS
      <4>4. s \in Seq(Bytes) /\ Len(s) = e - pos /\ \A k \in 1 .. e - pos : s[k] = Whole[pos + k]
        BY <4>2, <4>3
      <4>5. s = [k \in 1 .. Len(s) |-> s[k]]
        BY <4>4
      <4>6. s = [k \in 1 .. e - pos |-> Whole[pos + k]]
        BY <4>4, <4>5
      <4>7. QED  BY <4>6 DEF s
    <3>7. QED  BY <3>5, <3>6
  <2> HIDE DEF g, pieces
  <2>7. FlattenSeq(pieces) = g[Len(pieces)]
    BY <1>10, <2>3, <2>5, FlattenUnique
  <2>8. QED  BY <1>2, <1>5, <1>9, <1>10, <2>6, <2>7
<1>14. QED  BY <1>12, <1>13

-----------------------------------------------------------------------------
(* Resizing, and the other operations.                                     *)

\* The last part of a file of this size, and how much of it there is.
LEMMA NewLastIs ==
  ASSUME NEW size \in Nat
  PROVE  /\ NewLast(size) \in Nat /\ LastSize(size) \in 0 .. SPLIT_FACTOR
         /\ At(NewLast(size)) \in Nat
         /\ size = At(NewLast(size)) + LastSize(size)
         /\ size # 0 => LastSize(size) # 0
<1>1. CASE size = 0
  BY <1>1, AtZero, SplitAssumption DEF NewLast, LastSize
<1>2. CASE size # 0
  <2>1. /\ LastFile(size) \in Nat /\ ToOff(size) \in 1 .. SPLIT_FACTOR
        /\ size = At(LastFile(size)) + ToOff(size)
    BY <1>2, EndIn
  <2>2. At(LastFile(size)) \in Nat
    BY <2>1, AtNat
  <2>3. NewLast(size) = LastFile(size) /\ LastSize(size) = ToOff(size)
    BY <1>2 DEF NewLast, LastSize
  <2>4. QED  BY <1>2, <2>1, <2>2, <2>3, SplitAssumption
<1>3. QED  BY <1>1, <1>2

\* A resize keeps the invariant, and the file is as FlatFile's resize makes it.
LEMMA ChsizeKeeps ==
  ASSUME IInv, NEW size \in 0 .. MaxLen, Chsize(size)
  PROVE  IInv' /\ Whole' = Resize(Whole, size) /\ Len(Whole') = size
<1> DEFINE W == Resize(Whole, size)
<1>1. Intact /\ open
  BY DEF IInv, Chsize
<1>2. size \in Nat /\ Whole \in Seq(Bytes)
  BY <1>1, SplitAssumption DEF Intact
<1>3. PICK L \in Nat : L = Len(Whole) /\ L = length
  BY <1>1 DEF Intact
<1>4. PICK N \in Nat \ {0} : N = Len(disk)
  BY <1>1 DEF Intact
<1>5. SplitOf(disk, Whole) /\ disk \in Seq(Seq(Bytes))
  BY <1>1 DEF Intact
<1>6. PICK last \in Nat : last = NewLast(size)
  BY <1>2, NewLastIs
<1>7. PICK A \in Nat : A = At(last)
  BY AtNat
<1>8. PICK rest \in Nat : rest = LastSize(size) /\ rest <= SPLIT_FACTOR /\ size = A + rest
                          /\ (size # 0 => rest # 0)
  <2>1. /\ LastSize(size) \in 0 .. SPLIT_FACTOR
        /\ size = At(NewLast(size)) + LastSize(size) /\ (size # 0 => LastSize(size) # 0)
    BY <1>2, NewLastIs
  <2>2. QED  BY <1>6, <1>7, <2>1, SplitAssumption
<1>9. W \in Seq(Bytes) /\ Len(W) = size
      /\ \A k \in 1 .. size : W[k] = IF k <= L THEN Whole[k] ELSE Zero
  BY <1>2, <1>3, ResizeTyped
<1>10. PICK B \in Nat : B = At(N - 1) /\ B <= L /\ L <= B + SPLIT_FACTOR
  <2>1. N - 1 \in Nat /\ (N - 1) + 1 = N
    OBVIOUS
  <2>2. At(N - 1) \in Nat /\ At((N - 1) + 1) = At(N - 1) + SPLIT_FACTOR
    BY <2>1, AtNat
  <2>3. At(N - 1) <= L /\ L <= At(N)
    BY <1>3, <1>4, <1>5 DEF SplitOf
  <2>4. QED  BY <2>1, <2>2, <2>3
<1> HIDE DEF W
\* A part up to the last is as large as W wants it.
<1>11. ASSUME NEW f \in Nat, f <= last
       PROVE  CellsLen(W, f) = IF f = last THEN rest ELSE SPLIT_FACTOR
  <2>1. PICK F \in Nat : F = At(f)
    BY AtNat
  <2>2. CellsLen(W, f) = IF size <= F THEN 0 ELSE IF size <= F + SPLIT_FACTOR THEN size - F ELSE SPLIT_FACTOR
    BY <1>9, <2>1 DEF CellsLen
  <2>3. CASE f = last
    <3>1. F = A
      BY <1>7, <2>1, <2>3
    <3>2. rest <= SPLIT_FACTOR /\ size = A + rest
      BY <1>8
    <3>3. (IF size <= A THEN 0 ELSE IF size <= A + SPLIT_FACTOR THEN size - A ELSE SPLIT_FACTOR) = rest
      BY <1>2, <3>2, SplitAssumption
    <3>4. QED  BY <2>2, <2>3, <3>1, <3>3
  <2>4. CASE f # last
    <3>1. f < last
      BY <1>11, <2>4
    <3>2. F + SPLIT_FACTOR <= A
      BY <1>7, <2>1, <3>1, AtLater
    <3>3. F + SPLIT_FACTOR <= size
      BY <1>8, <3>2, SplitAssumption
    <3>4. QED  BY <2>2, <2>4, <3>3, SplitAssumption
  <2>5. QED  BY <2>3, <2>4
<1>12. ASSUME NEW f \in Nat, f <= last
       PROVE  Resize(Part(f), IF f = last THEN LastSize(size) ELSE SPLIT_FACTOR) = Cells(W, f)
  <2>1. PICK n \in Nat : n = CellsLen(W, f) /\ n = IF f = last THEN LastSize(size) ELSE SPLIT_FACTOR
    BY <1>8, <1>11, <1>12, SplitAssumption
  <2>2. \A k \in 1 .. n : At(f) + k \in 1 .. Len(W)
    BY <1>9, <2>1, CellsTyped
  <2>3. \A k \in 1 .. n : W[At(f) + k] = IF At(f) + k <= Len(Whole) THEN Whole[At(f) + k] ELSE Zero
    BY <1>3, <1>9, <2>2
  <2>4. Resize(Cells(Whole, f), n) = Cells(W, f)
    <3>1. CellsLen(W, f) = n /\ W \in Seq(Bytes)
      BY <1>9, <2>1
    <3>2. QED  BY <1>2, <2>3, <3>1, PartFilled
  <2>5. Part(f) = Cells(Whole, f)
    BY <1>1, PartCells
  <2>6. QED  BY <2>1, <2>4, <2>5
\* A part that was full and is not the last one now stays as it is.
<1>13. ASSUME NEW f \in Nat, f < N, f <= last, f < N - 1, f < last
       PROVE  disk[f + 1] = Cells(W, f)
  <2>1. f + 1 \in 1 .. Len(disk) /\ (f + 1) - 1 = f
    BY <1>4, <1>13
  <2>2. disk[f + 1] = Cells(Whole, f)
    BY <1>5, <2>1 DEF SplitOf
  <2>3. PICK F \in Nat : F = At(f)
    BY AtNat
  <2>4. F + SPLIT_FACTOR <= B
    <3>1. N - 1 \in Nat
      OBVIOUS
    <3>2. QED  BY <1>10, <1>13, <2>3, <3>1, AtLater
  <2>5. CellsLen(Whole, f) = SPLIT_FACTOR
    <3>1. CellsLen(Whole, f) = IF L <= F THEN 0 ELSE IF L <= F + SPLIT_FACTOR THEN L - F ELSE SPLIT_FACTOR
      BY <1>3, <2>3 DEF CellsLen
    <3>2. F + SPLIT_FACTOR <= L
      BY <1>10, <2>4, SplitAssumption
    <3>3. QED  BY <3>1, <3>2, SplitAssumption
  <2>6. CellsLen(W, f) = SPLIT_FACTOR
    BY <1>11, <1>13
  <2>7. \A k \in 1 .. CellsLen(Whole, f) : W[At(f) + k] = Whole[At(f) + k]
    <3>1. \A k \in 1 .. CellsLen(W, f) : At(f) + k \in 1 .. Len(W)
      BY <1>9, CellsTyped
    <3>2. \A k \in 1 .. CellsLen(Whole, f) : At(f) + k \in 1 .. Len(Whole)
      BY <1>2, CellsTyped
    <3>3. QED  BY <1>3, <1>9, <2>5, <2>6, <3>1, <3>2
  <2>8. QED  BY <1>2, <1>9, <2>2, <2>5, <2>6, <2>7, SameCells
<1>14. /\ disk' = IF size > length
                  THEN [i \in 1 .. Max({N, last + 1}) |->
                          IF i < N \/ i - 1 > last THEN disk[i]
                          ELSE Resize(Part(i - 1), IF i - 1 = last THEN LastSize(size) ELSE SPLIT_FACTOR)]
                  ELSE IF size < length
                  THEN [i \in 1 .. last + 1 |-> IF i - 1 = last THEN Resize(Part(last), LastSize(size))
                                                                ELSE disk[i]]
                  ELSE disk
       /\ ptr' = [i \in DOMAIN disk' |-> Ptr(i - 1)]
       /\ length' = size /\ cpsync' = FALSE
       /\ UNCHANGED <<open, curPos, curFile>>
  BY <1>4, <1>6 DEF Chsize
<1>15. PICK n \in Nat \ {0} : SplitOf(disk', W) /\ Len(disk') = n /\ FlattenSeq(disk') = W
  <2>1. PICK n \in Nat \ {0} : n = last + 1 /\ (n - 1) = last
    OBVIOUS
  <2>2. At(n - 1) <= Len(W) /\ Len(W) <= At(n)
    <3>1. At(last + 1) = A + SPLIT_FACTOR
      BY <1>7, AtNat
    <3>2. A <= size /\ size <= A + SPLIT_FACTOR
      BY <1>8, SplitAssumption
    <3>3. QED  BY <1>7, <1>9, <2>1, <3>1, <3>2
  <2>3. CASE size > L
    <3>1. N - 1 <= last
      <4> SUFFICES ASSUME last < N - 1 PROVE FALSE
        OBVIOUS
      <4>1. A + SPLIT_FACTOR <= B
        <5>1. N - 1 \in Nat
          OBVIOUS
        <5>2. QED  BY <1>7, <1>10, <5>1, AtLater
      <4>2. QED  BY <1>8, <1>10, <2>3, <4>1, SplitAssumption
    <3>2. Max({N, last + 1}) = n
      <4>1. Max({N, last + 1}) = IF N >= last + 1 THEN N ELSE last + 1
        BY MaxOfTwo
      <4>2. QED  BY <2>1, <3>1, <4>1
    <3>3. disk' = [i \in 1 .. n |->
                     IF i < N \/ i - 1 > last THEN disk[i]
                     ELSE Resize(Part(i - 1), IF i - 1 = last THEN LastSize(size) ELSE SPLIT_FACTOR)]
      BY <1>3, <1>14, <2>3, <3>2
    <3>4. \A i \in 1 .. n : disk'[i] = Cells(W, i - 1)
      <4> SUFFICES ASSUME NEW i \in 1 .. n PROVE disk'[i] = Cells(W, i - 1)
        OBVIOUS
      <4>1. PICK f \in Nat : f = i - 1 /\ f + 1 = i /\ f <= last
        BY <2>1
      <4>2. disk'[i] = IF i < N \/ f > last THEN disk[i]
                       ELSE Resize(Part(f), IF f = last THEN LastSize(size) ELSE SPLIT_FACTOR)
        BY <3>3, <4>1
      <4>3. CASE i < N
        <5>1. f < N /\ f < N - 1 /\ f < last
          BY <3>1, <4>1, <4>3
        <5>2. QED  BY <1>13, <4>1, <4>2, <4>3, <5>1
      <4>4. CASE ~(i < N)
        BY <1>12, <4>1, <4>2, <4>4
      <4>5. QED  BY <4>3, <4>4
    <3>5. disk' = [i \in 1 .. n |-> disk'[i]]
      BY <3>3
    <3>6. SplitOf(disk', W) /\ Len(disk') = n /\ FlattenSeq(disk') = W
      BY <1>9, <2>2, <3>4, <3>5, SplitMade
    <3>7. QED  BY <3>6
  <2>4. CASE size < L
    <3>1. last < N
      <4>1. CASE last = 0
        BY <4>1
      <4>2. CASE last # 0
        <5> SUFFICES ASSUME N <= last PROVE FALSE
          OBVIOUS
        <5>1. N - 1 \in Nat /\ N - 1 < last
          OBVIOUS
        <5>2. B + SPLIT_FACTOR <= A
          BY <1>7, <1>10, <5>1, AtLater
        <5>3. QED  BY <1>8, <1>10, <2>4, <5>2, SplitAssumption
      <4>3. QED  BY <4>1, <4>2
    <3>2. disk' = [i \in 1 .. n |-> IF i - 1 = last THEN Resize(Part(last), LastSize(size))
                                                    ELSE disk[i]]
      BY <1>3, <1>14, <2>1, <2>4
    <3>3. \A i \in 1 .. n : disk'[i] = Cells(W, i - 1)
      <4> SUFFICES ASSUME NEW i \in 1 .. n PROVE disk'[i] = Cells(W, i - 1)
        OBVIOUS
      <4>1. PICK f \in Nat : f = i - 1 /\ f + 1 = i /\ f <= last
        BY <2>1
      <4>2. disk'[i] = IF f = last THEN Resize(Part(f), LastSize(size)) ELSE disk[i]
        BY <3>2, <4>1
      <4>3. CASE f = last
        BY <1>12, <4>1, <4>2, <4>3
      <4>4. CASE f # last
        <5>1. f < N /\ f < N - 1 /\ f < last
          BY <3>1, <4>1, <4>4
        <5>2. QED  BY <1>13, <4>1, <4>2, <4>4, <5>1
      <4>5. QED  BY <4>3, <4>4
    <3>4. disk' = [i \in 1 .. n |-> disk'[i]]
      BY <3>2
    <3>5. SplitOf(disk', W) /\ Len(disk') = n /\ FlattenSeq(disk') = W
      BY <1>9, <2>2, <3>3, <3>4, SplitMade
    <3>6. QED  BY <3>5
  <2>5. CASE size = L
    <3>1. disk' = disk
      BY <1>3, <1>14, <2>5
    <3>2. W = Whole
      <4>1. \A k \in 1 .. Len(W) : W[k] = Whole[k]
        BY <1>9, <2>5
      <4>2. QED  BY <1>2, <1>3, <1>9, <2>5, <4>1, SameRow
    <3>3. QED  BY <1>4, <1>5, <3>1, <3>2 DEF Whole
  <2>6. QED  BY <2>3, <2>4, <2>5
<1>16. ptr' \in [1 .. n -> 0 .. SPLIT_FACTOR]
  <2>1. DOMAIN disk' = 1 .. n
    BY <1>15 DEF SplitOf
  <2>2. \A i \in 1 .. n : Ptr(i - 1) \in 0 .. SPLIT_FACTOR
    <3> SUFFICES ASSUME NEW i \in 1 .. n PROVE Ptr(i - 1) \in 0 .. SPLIT_FACTOR
      OBVIOUS
    <3>1. i - 1 \in Nat
      OBVIOUS
    <3>2. QED  BY <1>1, <3>1, PtrTyped
  <2>3. QED  BY <1>14, <2>1, <2>2
<1>17. Whole' = W
  BY <1>15 DEF Whole
<1>18. Intact'
  <2>1. disk' \in Seq(Seq(Bytes)) /\ SplitOf(disk', Whole') /\ Whole' \in Seq(Bytes)
    BY <1>9, <1>15, <1>17 DEF SplitOf
  <2>2. Len(Whole') = size /\ Len(Whole') <= MaxLen
    BY <1>9, <1>17, SplitAssumption
  <2>3. QED  BY <1>1, <1>14, <1>15, <1>16, <2>1, <2>2 DEF Intact
<1>19. InSync'
  BY <1>14 DEF InSync
<1>20. QED  BY <1>9, <1>17, <1>18, <1>19 DEF IInv, W

\* Offset 0 is in the first part.
LEMMA NoneAt == fileNo(0) = 0
  BY SplitAssumption DEF fileNo

\* Seeking keeps the invariant and the file.
LEMMA SeekKeeps ==
  ASSUME IInv, NEW pos \in 0 .. MaxLen, Seek(pos)
  PROVE  IInv' /\ Whole' = Whole /\ open /\ curPos' \in Nat
<1>1. Intact /\ InSync /\ open
  BY DEF IInv, Seek
<1>2. /\ curPos' = pos /\ curFile' = fileNo(pos)
      /\ cpsync' = (cpsync /\ curPos = pos /\ curFile = fileNo(pos))
      /\ UNCHANGED <<disk, open, ptr, length>>
  BY DEF Seek
<1>3. Whole' = Whole
  BY <1>2 DEF Whole
<1>4. Intact'
  <2>1. cpsync' \in BOOLEAN
    BY <1>2
  <2>2. QED  BY <1>1, <1>2, <1>3, <2>1 DEF Intact
<1>5. InSync'
  BY <1>1, <1>2 DEF InSync, Ptr
<1>6. QED  BY <1>1, <1>2, <1>3, <1>4, <1>5, SplitAssumption DEF IInv

\* A new object: open on what the parts hold, or not open.
LEMMA NewObjectKeeps ==
  ASSUME NEW o \in BOOLEAN, NewObject(o), disk' \in Seq(Seq(Bytes)),
         Len(disk') # 0 => SplitOf(disk', Whole'), Whole' \in Seq(Bytes),
         Len(Whole') <= MaxLen, o => Len(disk') # 0
  PROVE  IInv'
<1>1. /\ open' = o /\ ptr' = IF o THEN [i \in DOMAIN disk' |-> 0] ELSE << >>
      /\ curPos' = 0 /\ curFile' = 0 /\ cpsync' = TRUE
      /\ length' = IF o THEN Len(Whole') ELSE 0
  BY DEF NewObject, Whole
<1>2. length' \in 0 .. MaxLen
  BY <1>1, SplitAssumption
<1>3. PICK n \in Nat : n = Len(disk') /\ DOMAIN disk' = 1 .. n
  OBVIOUS
<1>4. ptr' \in [1 .. IF open' THEN n ELSE 0 -> 0 .. SPLIT_FACTOR]
  <2>1. 0 \in 0 .. SPLIT_FACTOR
    BY SplitAssumption
  <2>2. CASE o
    BY <1>1, <1>3, <2>1, <2>2
  <2>3. CASE ~o
    <3>1. ptr' = << >> /\ ~open'
      BY <1>1, <2>3
    <3>2. << >> \in [1 .. 0 -> 0 .. SPLIT_FACTOR]
      OBVIOUS
    <3>3. QED  BY <3>1, <3>2
  <2>4. QED  BY <2>2, <2>3
<1>5. curPos' \in 0 .. MaxLen /\ curFile' = fileNo(curPos')
  BY <1>1, NoneAt, SplitAssumption
<1>6. Intact'
  <2>1. open' \in BOOLEAN /\ cpsync' \in BOOLEAN
    BY <1>1
  <2>2. open' => Len(disk') # 0 /\ length' = Len(Whole')
    BY <1>1
  <2>3. ~open' => curPos' = 0
    BY <1>1
  <2>4. ptr' \in [1 .. IF open' THEN Len(disk') ELSE 0 -> 0 .. SPLIT_FACTOR]
    BY <1>3, <1>4
  <2>5. QED  BY <1>2, <1>5, <2>1, <2>2, <2>3, <2>4 DEF Intact
<1>7. InSync'
  <2> SUFFICES ASSUME open'
               PROVE  curFile' = 0 /\ Ptr(0)' = curPos' /\ \A f \in Nat \ {0} : Ptr(f)' = 0
    BY DEF InSync
  <2>1. ptr' = [i \in 1 .. n |-> 0]
    BY <1>1, <1>3
  <2>2. Len(ptr') = n
    BY <2>1
  <2>3. ASSUME NEW f \in Nat PROVE Ptr(f)' = 0
    <3>1. f < n => f + 1 \in 1 .. n
      OBVIOUS
    <3>2. Ptr(f)' = IF f < n THEN ptr'[f + 1] ELSE 0
      BY <2>2 DEF Ptr
    <3>3. QED  BY <2>1, <3>1, <3>2
  <2>4. Ptr(0)' = 0
    BY <2>3
  <2>5. QED  BY <1>1, <2>3, <2>4
<1>8. QED  BY <1>6, <1>7 DEF IInv

\* An empty file has one part.
LEMMA EmptySplit ==
  SplitOf(<< << >> >>, << >>) /\ FlattenSeq(<< << >> >>) = << >> /\ Len(<< << >> >>) = 1
<1> DEFINE d == << << >> >>
           w == << >>
<1>1. w \in Seq(Bytes) /\ Len(w) = 0
  OBVIOUS
<1>2. CellsLen(w, 0) = 0
  BY <1>1, AtZero DEF CellsLen
<1>3. Cells(w, 0) = << >>
  BY <1>2 DEF Cells
<1>4. d = [i \in 1 .. 1 |-> d[i]]
  OBVIOUS
<1>5. \A i \in 1 .. 1 : d[i] = Cells(w, i - 1)
  <2>1. d[1] = << >>
    OBVIOUS
  <2>2. \A i \in 1 .. 1 : i = 1 /\ i - 1 = 0
    OBVIOUS
  <2> HIDE DEF d, w
  <2>3. QED  BY <1>3, <2>1, <2>2
<1>6. At(1 - 1) <= Len(w) /\ Len(w) <= At(1)
  <2>1. At(1) \in Nat
    BY AtNat
  <2>2. QED  BY <1>1, <2>1, AtZero
<1> HIDE DEF d, w
<1>7. SplitOf(d, w) /\ Len(d) = 1 /\ FlattenSeq(d) = w
  <2>1. PICK n \in Nat \ {0} : n = 1
    OBVIOUS
  <2>2. /\ d = [i \in 1 .. n |-> d[i]] /\ \A i \in 1 .. n : d[i] = Cells(w, i - 1)
        /\ At(n - 1) <= Len(w) /\ Len(w) <= At(n)
    BY <1>4, <1>5, <1>6, <2>1
  <2>3. SplitOf(d, w) /\ Len(d) = n /\ FlattenSeq(d) = w
    BY <1>1, <2>2, SplitMade
  <2>4. QED  BY <2>1, <2>3
<1>8. QED  BY <1>7 DEF d, w

\* So do closing,
LEMMA CloseKeeps ==
  ASSUME IInv, Close
  PROVE  IInv' /\ Whole' = Whole
<1>1. Intact
  BY DEF IInv
<1>2. open /\ NewObject(FALSE) /\ disk' = disk
  BY DEF Close
<1>3. Whole' = Whole
  BY <1>2 DEF Whole
<1>4. /\ disk' \in Seq(Seq(Bytes)) /\ (Len(disk') # 0 => SplitOf(disk', Whole'))
      /\ Whole' \in Seq(Bytes) /\ Len(Whole') <= MaxLen
  BY <1>1, <1>2, <1>3 DEF Intact
<1>5. QED  BY <1>2, <1>3, <1>4, NewObjectKeeps

\* opening,
LEMMA OpenKeeps ==
  ASSUME IInv, Open
  PROVE  IInv' /\ Whole' = Whole
<1>1. Intact
  BY DEF IInv
<1>2. disk # << >> /\ NewObject(TRUE) /\ disk' = disk
  BY DEF Open
<1>3. Whole' = Whole
  BY <1>2 DEF Whole
<1>4. /\ disk' \in Seq(Seq(Bytes)) /\ (Len(disk') # 0 => SplitOf(disk', Whole'))
      /\ Whole' \in Seq(Bytes) /\ Len(Whole') <= MaxLen /\ Len(disk') # 0
  BY <1>1, <1>2, <1>3 DEF Intact
<1>5. QED  BY <1>2, <1>3, <1>4, NewObjectKeeps

\* and creating a file;
LEMMA CreateKeeps ==
  ASSUME IInv, Create
  PROVE  IInv' /\ Whole' = Whole
<1>1. disk = << >> /\ NewObject(TRUE) /\ disk' = << << >> >>
  BY DEF Create
<1>2. Whole = << >> /\ Whole' = << >>
  BY <1>1, EmptyFlat, EmptySplit DEF Whole
<1>3. /\ disk' \in Seq(Seq(Bytes)) /\ SplitOf(disk', Whole') /\ Len(disk') # 0
      /\ Whole' \in Seq(Bytes) /\ Len(Whole') <= MaxLen
  <2>1. SplitOf(disk', Whole') /\ Len(disk') = 1
    BY <1>1, <1>2, EmptySplit
  <2>2. Whole' \in Seq(Bytes) /\ Len(Whole') = 0
    BY <1>2
  <2>3. QED  BY <2>1, <2>2, SplitAssumption DEF SplitOf
<1>4. QED  BY <1>1, <1>2, <1>3, NewObjectKeeps

\* erasing leaves no parts.
LEMMA EraseKeeps ==
  ASSUME IInv, Erase
  PROVE  IInv' /\ Whole' = << >>
<1>1. Intact
  BY DEF IInv
<1>2. /\ ~open /\ disk' = << >>
      /\ UNCHANGED <<open, ptr, curPos, curFile, cpsync, length>>
  BY DEF Erase
<1>3. Whole' = << >>
  BY <1>2, EmptyFlat DEF Whole
<1>4. disk' \in Seq(Seq(Bytes)) /\ Len(disk') = 0 /\ Whole' \in Seq(Bytes) /\ Len(Whole') = 0
  BY <1>2, <1>3
<1>5. Intact'
  <2>1. Len(Whole') <= MaxLen
    BY <1>4, SplitAssumption
  <2>2. QED  BY <1>1, <1>2, <1>4, <2>1 DEF Intact
<1>6. InSync'
  BY <1>2 DEF InSync
<1>7. QED  BY <1>3, <1>5, <1>6 DEF IInv

\* The invariant holds of an object for a new file.
LEMMA InitInv ==
  ASSUME Init PROVE IInv /\ Whole = << >>
<1>1. /\ disk = << << >> >> /\ ptr = <<0>> /\ open = TRUE
      /\ curPos = 0 /\ curFile = 0 /\ cpsync = TRUE /\ length = 0
  BY DEF Init
<1>2. SplitOf(disk, Whole) /\ Whole = << >> /\ Len(disk) = 1
  BY <1>1, EmptySplit DEF Whole
<1>3. Whole \in Seq(Bytes) /\ Len(Whole) = 0
  BY <1>2
<1>4. ptr \in [1 .. 1 -> 0 .. SPLIT_FACTOR] /\ Len(ptr) = 1 /\ ptr[1] = 0
  <2>1. 0 \in 0 .. SPLIT_FACTOR
    BY SplitAssumption
  <2>2. QED  BY <1>1, <2>1
<1>5. Intact
  <2>1. disk \in Seq(Seq(Bytes)) /\ open \in BOOLEAN /\ cpsync \in BOOLEAN
    BY <1>1, <1>2 DEF SplitOf
  <2>2. curPos \in 0 .. MaxLen /\ length \in 0 .. MaxLen /\ curFile = fileNo(curPos)
        /\ Len(Whole) <= MaxLen
    BY <1>1, <1>3, NoneAt, SplitAssumption
  <2>3. ptr \in [1 .. IF open THEN Len(disk) ELSE 0 -> 0 .. SPLIT_FACTOR]
    BY <1>1, <1>2, <1>4
  <2>4. QED  BY <1>1, <1>2, <1>3, <2>1, <2>2, <2>3 DEF Intact
<1>6. InSync
  <2>1. Ptr(0) = 0
    BY <1>4 DEF Ptr
  <2>2. ASSUME NEW f \in Nat \ {0} PROVE Ptr(f) = 0
    <3>1. ~(f < Len(ptr))
      BY <1>4
    <3>2. QED  BY <3>1 DEF Ptr
  <2>3. QED  BY <1>1, <2>1, <2>2 DEF InSync
<1>7. QED  BY <1>2, <1>5, <1>6 DEF IInv

\* Every operation keeps the invariant,
LEMMA NextKeeps ==
  ASSUME PastEnd = FALSE, IInv, [Next]_vars PROVE IInv'
<1>1. ASSUME NEW n \in Sizes, Read(n) PROVE IInv'
  BY <1>1, ReadKeeps
<1>2. ASSUME NEW chunk \in Chunks, Write(chunk) PROVE IInv'
  BY <1>2, WriteKeeps
<1>3. ASSUME NEW pos \in 0 .. MaxLen, Seek(pos) PROVE IInv'
  BY <1>3, SeekKeeps
<1>4. ASSUME NEW pos \in 0 .. MaxLen, Chsize(pos) PROVE IInv'
  BY <1>4, ChsizeKeeps
<1>5. CASE Close
  BY <1>5, CloseKeeps
<1>6. CASE Open
  BY <1>6, OpenKeeps
<1>7. CASE Create
  BY <1>7, CreateKeeps
<1>8. CASE Erase
  BY <1>8, EraseKeeps
<1>9. CASE UNCHANGED vars
  BY <1>9 DEF vars, IInv, Intact, InSync, Whole, Ptr
<1>10. QED  BY <1>1, <1>2, <1>3, <1>4, <1>5, <1>6, <1>7, <1>8, <1>9 DEF Next

\* so it holds always.
LEMMA Invariance ==
  ASSUME PastEnd = FALSE PROVE Spec => []IInv
<1>1. Init => IInv
  BY InitInv
<1>2. IInv /\ [Next]_vars => IInv'
  BY NextKeeps
<1>3. QED  BY <1>1, <1>2, PTL DEF Spec

-----------------------------------------------------------------------------
(* What follows.                                                           *)

\* Every variable of src/edbSplitFile_imp.h:30-37 stays of its type, no part
\* grows past SPLIT_FACTOR and no pointer leaves its part, if clients that
\* have not sought yet do not read past the end of the file.
THEOREM TypeCorrect == ASSUME PastEnd = FALSE PROVE Spec => []TypeOK
<1>1. IInv => TypeOK
  <2> SUFFICES ASSUME IInv PROVE TypeOK
    OBVIOUS
  <2>1. Intact
    BY DEF IInv
  <2>2. ASSUME NEW i \in DOMAIN disk PROVE Len(disk[i]) <= SPLIT_FACTOR
    <3>1. disk \in Seq(Seq(Bytes))
      BY <2>1 DEF Intact
    <3>2. Len(disk) # 0 /\ i \in 1 .. Len(disk)
      BY <3>1
    <3>3. SplitOf(disk, Whole)
      BY <2>1, <3>2 DEF Intact
    <3>4. QED  BY <3>2, <3>3, SplitWhole
  <2>3. QED  BY <2>1, <2>2 DEF Intact, TypeOK
<1>2. QED  BY <1>1, Invariance, PTL

\* Whatever was written, cut or grown, by clients that do not read past the end:
\* every part but the last is full, and length_ is the number of bytes in the
\* parts together, which open() will find.
THEOREM PartsStayWhole == ASSUME PastEnd = FALSE PROVE Spec => []PartsWhole
<1>1. IInv => PartsWhole
  <2> SUFFICES ASSUME IInv PROVE PartsWhole
    OBVIOUS
  <2>1. Intact
    BY DEF IInv
  <2>2. ASSUME NEW i \in 1 .. Len(disk) - 1 PROVE Len(disk[i]) = SPLIT_FACTOR
    <3>1. disk \in Seq(Seq(Bytes))
      BY <2>1 DEF Intact
    <3>2. Len(disk) # 0 /\ i \in 1 .. Len(disk) /\ i < Len(disk)
      BY <3>1
    <3>3. SplitOf(disk, Whole)
      BY <2>1, <3>2 DEF Intact
    <3>4. QED  BY <3>2, <3>3, SplitWhole
  <2>3. QED  BY <2>1, <2>2 DEF Intact, PartsWhole, Whole
<1>2. QED  BY <1>1, Invariance, PTL

\* A read returns the bytes of the whole file from the position on
\* (src/edbSplitFile_imp.cpp:139-187), whichever parts they are in.
THEOREM ReadsAreRight == ASSUME PastEnd = FALSE PROVE Spec => []ReadsRight
<1>1. IInv => ReadsRight
  BY ReadRight DEF ReadsRight, Whole
<1>2. QED  BY <1>1, Invariance, PTL


\* The parts are a refinement of one flat file: every step is a step of
\* FlatFile's, or changes nothing it sees.
LEMMA NextFlat ==
  ASSUME PastEnd = FALSE, IInv, [Next]_vars
  PROVE  [Flat!FlatNext]_(Flat!vars)
<1>1. IInv' /\ Intact /\ Intact'
  BY NextKeeps DEF IInv
<1> USE DEF Flat!FlatNext, Flat!vars
<1>2. ASSUME NEW n \in Sizes, Read(n) PROVE Flat!MoveTo
  <2>1. Whole' = Whole /\ open /\ curPos' \in Nat
    BY <1>2, ReadKeeps
  <2>2. open' = open /\ disk' = disk
    BY <1>2 DEF Read
  <2>3. QED  BY <2>1, <2>2 DEF Flat!MoveTo, Whole
<1>3. ASSUME NEW chunk \in Chunks, Write(chunk) PROVE Flat!Put(chunk)
  <2>1. Whole' = Overwrite(Whole, curPos, chunk)
    BY <1>3, WriteKeeps
  <2>2. open /\ open' = open /\ curPos' = curPos + Len(chunk)
    BY <1>3 DEF Write, Arrive
  <2>3. chunk \in Seq(Bytes) /\ Whole \in Seq(Bytes) /\ curPos \in Nat
    BY <1>1, ChunkIs, SplitAssumption DEF Intact
  <2>4. Whole' = Flat!Overwrite(Whole, curPos, chunk)
    BY <2>1, <2>3, OverwriteFlat
  <2>5. QED  BY <2>2, <2>4, Zenon DEF Flat!Put, Whole
<1>4. ASSUME NEW pos \in 0 .. MaxLen, Seek(pos) PROVE Flat!MoveTo
  <2>1. Whole' = Whole /\ open /\ curPos' \in Nat
    BY <1>4, SeekKeeps
  <2>2. open' = open /\ disk' = disk
    BY <1>4 DEF Seek
  <2>3. QED  BY <2>1, <2>2 DEF Flat!MoveTo, Whole
<1>5. ASSUME NEW size \in 0 .. MaxLen, Chsize(size) PROVE Flat!Cut
  <2>1. Whole' = Resize(Whole, size) /\ Len(Whole') = size
    BY <1>5, ChsizeKeeps
  <2>2. open /\ open' = open /\ curPos' = curPos
    BY <1>5 DEF Chsize
  <2>3. Whole' = Flat!Resize(Whole, Len(Whole'))
    BY <2>1, ResizeFlat
  <2>4. QED  BY <2>2, <2>3, Zenon DEF Flat!Cut, Whole
<1>6. CASE Close
  <2>1. Whole' = Whole
    BY <1>6, CloseKeeps
  <2>2. open /\ open' = FALSE /\ curPos' = 0 /\ disk' = disk
    BY <1>6 DEF Close, NewObject
  <2>3. disk # << >>
    BY <1>1, <2>2 DEF Intact
  <2>4. Flat!Shut
    BY <2>1, <2>2, <2>3 DEF Flat!Shut, Whole
  <2>5. QED  BY <2>4
<1>7. CASE Open
  <2>1. Whole' = Whole
    BY <1>7, OpenKeeps
  <2>2. ~open /\ disk # << >> /\ open' = TRUE /\ curPos' = 0
    BY <1>7 DEF Open, NewObject
  <2>3. Flat!Reopen
    BY <2>1, <2>2 DEF Flat!Reopen, Whole
  <2>4. QED  BY <2>3
<1>8. CASE Create
  <2>1. Whole' = Whole
    BY <1>8, CreateKeeps
  <2>2. ~open /\ disk = << >> /\ open' = TRUE /\ curPos' = 0
    BY <1>8 DEF Create, NewObject
  <2>3. Flat!Create
    BY <2>1, <2>2 DEF Flat!Create, Whole
  <2>4. QED  BY <2>3
<1>9. CASE Erase
  <2>1. Whole' = << >>
    BY <1>9, EraseKeeps
  <2>2. ~open /\ disk # << >> /\ disk' = << >> /\ open' = open /\ curPos' = curPos
    BY <1>9 DEF Erase
  <2>3. Flat!Erase
    BY <2>1, <2>2 DEF Flat!Erase, Whole
  <2>4. QED  BY <2>3
<1>10. CASE UNCHANGED vars
  BY <1>10 DEF vars
<1>11. QED
  BY <1>2, <1>3, <1>4, <1>5, <1>6, <1>7, <1>8, <1>9, <1>10 DEF Next

\* The parts together are the one file that src/edbFile.h promises: every byte
\* is written, kept, cut and found at its place in it.
THEOREM ImplementsFile == ASSUME PastEnd = FALSE PROVE Spec => ImplementsFlatFile
<1>1. Init => Flat!FlatInit
  <2> SUFFICES ASSUME Init PROVE Flat!FlatInit
    OBVIOUS
  <2>1. Whole = << >>
    BY InitInv
  <2>2. curPos = 0 /\ open = TRUE
    BY DEF Init
  <2>3. QED  BY <2>1, <2>2 DEF Flat!FlatInit, Whole
<1>2. IInv /\ [Next]_vars => [Flat!FlatNext]_(Flat!vars)
  BY NextFlat
<1>3. QED  BY <1>1, <1>2, Invariance, PTL DEF Spec, ImplementsFlatFile, Flat!FlatSpec
=============================================================================
