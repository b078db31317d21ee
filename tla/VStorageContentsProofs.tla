----------------------- MODULE VStorageContentsProofs -----------------------
(***************************************************************************)
(* Theorems about what the records of the storage hold: how reallocation   *)
(* and slices treat it, and that the storage implements the map of         *)
(* RecordStore.  Where the records and the free ranges lie, which every    *)
(* proof here starts from, is in VStorageProofs.                           *)
(***************************************************************************)
EXTENDS VStorageProofs

-----------------------------------------------------------------------------
(* What moving and filling a record puts where.                            *)

\* Cell by cell, what the file holds after n cells were copied from a to d.
CopiedTo(f, g, a, d, n) ==
  \A c \in Off : /\ d <= c /\ c < d + n => g[c] = f[a + (c - d)]
                 /\ c < d \/ d + n <= c => g[c] = f[c]

\* g has the m cells at d, and is f otherwise.
WrittenTo(f, g, d, m, cells) ==
  \A c \in Off : /\ d <= c /\ c < d + m => g[c] = cells[c - d + 1]
                 /\ c < d \/ d + m <= c => g[c] = f[c]

\* f and g agree in the cells of S.
Agree(f, g, S) == \A c \in S : g[c] = f[c]

\* What is written is where it was asked to go.
LEMMA DataIs ==
  ASSUME NEW s \in State, NEW d \in Int, NEW m \in Nat, NEW cells, cells \in [1 .. m -> Cell]
  PROVE  /\ Write(s, d, cells) \in State
         /\ WrittenTo(s.file, Write(s, d, cells).file, d, m, cells)
<1>1. Write(s, d, cells) \in State /\ \A c \in Off : Write(s, d, cells).file[c] =
        IF c \in d .. d + m - 1 THEN cells[c - d + 1] ELSE s.file[c]
  BY WriteIs
<1>2. \A c \in Off : /\ c < d \/ d + m <= c => c \notin d .. d + m - 1
                     /\ d <= c /\ c < d + m => c \in d .. d + m - 1
  BY DEF Off
<1>3. QED  BY <1>1, <1>2 DEF WrittenTo

\* The cells that MoveData copies are as they were.
LEMMA MoveDataIs ==
  ASSUME NEW s \in State, NEW a \in Int, NEW e \in Int, NEW d \in Int,
         NEW n \in Nat, Spans(n, a, e), n > 0 => 0 <= a /\ a + n <= MaxOff + 1
  PROVE  MoveData(s, a, e, d) \in State /\ CopiedTo(s.file, MoveData(s, a, e, d).file, a, d, n)
<1>1. PICK k \in Nat : Copied(Read(s, a, e), k, s, a) /\ Spans(k, a, e)
  BY ReadIs
<1>2. k = n
  BY <1>1 DEF Spans
<1>3. PICK cells \in [1 .. n -> Cell] : cells = Read(s, a, e)
  BY <1>1, <1>2 DEF Copied
<1>4. \A i \in 1 .. n : a + i - 1 \in Off => cells[i] = s.file[a + i - 1]
  BY <1>1, <1>2, <1>3 DEF Copied
<1>5. PICK t : t = Write(s, d, cells)
  OBVIOUS
<1>6. t \in State /\ \A c \in Off :
        /\ d <= c /\ c < d + n => t.file[c] = cells[c - d + 1]
        /\ c < d \/ d + n <= c => t.file[c] = s.file[c]
  <2>1. t \in State /\ WrittenTo(s.file, t.file, d, n, cells)
    BY <1>5, DataIs
  <2>2. QED  BY <2>1 DEF WrittenTo
<1>7. ASSUME NEW c \in Off
      PROVE  /\ d <= c /\ c < d + n => t.file[c] = s.file[a + (c - d)]
             /\ c < d \/ d + n <= c => t.file[c] = s.file[c]
  <2>1. c \in Int
    BY DEF Off
  <2>2. CASE d <= c /\ c < d + n
    <3>1. PICK i \in 1 .. n : i = c - d + 1
      BY <2>1, <2>2
    <3>2. a + i - 1 \in Off
      BY <2>1, <2>2, <3>1, SizesAssumption DEF Off
    <3>3. t.file[c] = cells[i] /\ cells[i] = s.file[a + i - 1]
      BY <1>4, <1>6, <2>1, <2>2, <3>1, <3>2
    <3>4. a + i - 1 = a + (c - d)
      BY <2>1, <3>1
    <3>5. QED  BY <2>1, <2>2, <3>3, <3>4
  <2>3. CASE c < d \/ d + n <= c
    BY <1>6, <2>1, <2>3
  <2>4. QED  BY <2>1, <2>2, <2>3
<1>8. CopiedTo(s.file, t.file, a, d, n)
  BY <1>7 DEF CopiedTo
<1>9. MoveData(s, a, e, d) = t
  BY <1>3, <1>5 DEF MoveData
<1>10. QED  BY <1>6, <1>8, <1>9

\* The cells of a record that is moved; as many as there are in both places.
LEMMA MovedCells ==
  ASSUME NEW s \in State, NEW src \in Nat, NEW len \in Nat, NEW dst \in Nat, NEW k \in Nat,
         BlockLen(s, dst) = k, src + BH + len <= MaxOff + 1, dst + BH + k <= MaxOff + 1,
         NEW i \in Nat, 1 <= i, i <= len, i <= k
  PROVE  MoveRec(s, src, len, dst).file[dst + BH + i - 1] = s.file[src + BH + i - 1]
<1>1. PICK m : m = Min({len, k})
  OBVIOUS
<1>2. m \in Nat /\ m <= k /\ m <= len /\ i <= m
  <2>1. len \in Int /\ k \in Int
    OBVIOUS
  <2>2. Min({len, k}) \in {len, k} /\ Min({len, k}) <= len /\ Min({len, k}) <= k
    BY <2>1, MinOf
  <2>3. QED  BY <1>1, <2>2
<1>3. BH \in Nat /\ MaxOff \in Nat
  BY SizesAssumption
<1>4. PICK a \in Int, e \in Int, d \in Int : a = src + BH /\ e = src + BH + m /\ d = dst + BH
  BY <1>2, <1>3
<1>5. PICK t : t = MoveData(s, a, e, d)
  OBVIOUS
<1>6. MoveRec(s, src, len, dst) = t
  BY <1>1, <1>4, <1>5 DEF MoveRec
<1>7. Spans(m, a, e) /\ 0 <= a /\ a + m <= MaxOff + 1
  BY <1>2, <1>3, <1>4 DEF Spans
<1>8. CopiedTo(s.file, t.file, a, d, m)
  BY <1>2, <1>5, <1>7, MoveDataIs
<1>9. PICK c \in Off : c = d + i - 1
  BY <1>2, <1>3, <1>4 DEF Off
<1>10. d <= c /\ c < d + m /\ a + (c - d) = src + BH + i - 1 /\ c = dst + BH + i - 1
  BY <1>2, <1>3, <1>4, <1>9
<1>11. t.file[c] = s.file[a + (c - d)]
  BY <1>8, <1>9, <1>10 DEF CopiedTo
<1>12. QED  BY <1>6, <1>10, <1>11

\* At dst, g has the cells that f has at src, those that x cuts replaced by its
\* m cells of data.
Splices(f, g, src, dst, x, m) ==
  /\ \A i \in Nat : 1 <= i /\ i <= x.off /\ i <= x.full
                    => g[dst + BH + i - 1] = f[src + BH + i - 1]
  /\ \A i \in 1 .. m : g[dst + BH + x.off + i - 1] = x.data[i]
  /\ \A i \in Nat : x.off + x.cut < i /\ i <= x.full
                    => g[dst + BH + (i - x.cut + m) - 1] = f[src + BH + i - 1]

\* The n cells at a and the k cells at d are apart.
Aside(a, n, d, k) == a + n <= d \/ d + k <= a

\* A gap is filled.
LEMMA GapIs ==
  ASSUME NEW s \in State, NEW d \in Int, NEW n \in Nat
  PROVE  /\ Write(s, d, Fill(n, Junk)) \in State
         /\ \A c \in Off : c < d \/ d + n <= c => Write(s, d, Fill(n, Junk)).file[c] = s.file[c]
<1>1. Fill(n, Junk) \in [1 .. n -> Cell]
  BY DEF Fill, Cell
<1>2. Write(s, d, Fill(n, Junk)) \in State /\ \A c \in Off : Write(s, d, Fill(n, Junk)).file[c] =
        IF c \in d .. d + n - 1 THEN Fill(n, Junk)[c - d + 1] ELSE s.file[c]
  BY <1>1, WriteIs
<1>3. \A c \in Off : c < d \/ d + n <= c => c \notin d .. d + n - 1
  BY DEF Off
<1>4. QED  BY <1>2, <1>3

\* Moving and filling a record splices it, in place or into a block apart from
\* it, however the cells that move overlap.
LEMMA SplicedCells ==
  ASSUME NEW s \in State, NEW src \in Nat, NEW dst \in Nat, NEW x, NEW m, Asked(x, m),
         NEW k \in Nat, SliceLen(x) <= k, dst + BH + k <= MaxOff + 1,
         src + BH + x.full <= MaxOff + 1,
         src = dst \/ Aside(src + BH, x.full, dst + BH, k)
  PROVE  Splices(s.file, MoveAndFill(s, src, dst, x).file, src, dst, x, m)
<1>1. PICK off \in Nat, cut \in Nat, full \in Nat : off = x.off /\ cut = x.cut /\ full = x.full
  BY DEF Asked
<1>2. PICK cells \in [1 .. m -> Values] : cells = x.data
  BY DEF Asked
<1>3. m \in Nat /\ Len(cells) = m /\ (cut > 0 => off + cut <= full)
  <2>1. m \in Nat /\ (cut > 0 => off + cut <= full)
    BY <1>1 DEF Asked
  <2>2. QED  BY <2>1
<1>4. PICK len \in Int : len = (IF off > full THEN off + m ELSE full + m - cut)
  <2>1. off + m \in Int /\ full + m - cut \in Int
    BY <1>3
  <2>2. (IF off > full THEN off + m ELSE full + m - cut) \in Int
    BY <2>1
  <2>3. QED  BY <2>2
<1>5. len <= k
  BY <1>1, <1>2, <1>3, <1>4 DEF SliceLen
<1>6. BH \in Nat /\ MaxOff \in Nat
  BY SizesAssumption
<1>7. PICK kept \in Nat : /\ kept = Min({off, full}) /\ kept <= off /\ kept <= full
                         /\ (kept = off \/ kept = full)
  <2>1. off \in Int /\ full \in Int
    OBVIOUS
  <2>2. Min({off, full}) \in {off, full} /\ Min({off, full}) <= off /\ Min({off, full}) <= full
    BY <2>1, MinOf
  <2>3. QED  BY <2>2
<1>8. PICK a \in Nat, d \in Nat : a = src + BH /\ d = dst + BH
  BY <1>6
<1>9. PICK n \in Nat : n = (IF off + cut <= full THEN full - off - cut ELSE 0)
  <2>1. off + cut <= full => full - off - cut \in Nat
    OBVIOUS
  <2>2. (IF off + cut <= full THEN full - off - cut ELSE 0) \in Nat
    BY <2>1
  <2>3. QED  BY <2>2
<1>10. a + full <= MaxOff + 1 /\ d + k <= MaxOff + 1 /\ (a = d \/ a + full <= d \/ d + k <= a)
  BY <1>1, <1>8 DEF Aside
<1>11. off + m <= k /\ off + m + n <= k /\ kept <= k
  BY <1>3, <1>4, <1>5, <1>7, <1>9
<1>12. PICK head : head = MoveData(s, a, a + kept, d)
  OBVIOUS
<1>13. PICK gap : gap = Write(head, d + kept, Fill(off - kept, Junk))
  OBVIOUS
<1>14. PICK tail : tail = MoveData(gap, a + off + cut, a + full, d + off + m)
  OBVIOUS
<1>15. PICK u : u = Write(tail, d + off, cells)
  OBVIOUS
<1>16. MoveAndFill(s, src, dst, x) = u
  BY <1>1, <1>2, <1>3, <1>7, <1>8, <1>12, <1>13, <1>14, <1>15 DEF MoveAndFill
<1>17. head \in State /\ CopiedTo(s.file, head.file, a, d, kept)
  <2>1. PICK e \in Int : e = a + kept
    OBVIOUS
  <2>2. Spans(kept, a, e) /\ 0 <= a /\ a + kept <= MaxOff + 1
    BY <1>6, <1>7, <1>10, <2>1 DEF Spans
  <2>3. QED  BY <1>12, <2>1, <2>2, MoveDataIs
<1>18. /\ gap \in State
       /\ \A c \in Off : c < d + kept \/ d + off <= c => gap.file[c] = head.file[c]
  <2>1. PICK y \in Int, z \in Nat : y = d + kept /\ z = off - kept /\ y + z = d + off
    BY <1>7
  <2>2. gap = Write(head, y, Fill(z, Junk))
    BY <1>13, <2>1
  <2>3. /\ gap \in State
        /\ \A c \in Off : c < y \/ y + z <= c => gap.file[c] = head.file[c]
    <3>1. PICK h \in State : h = head
      BY <1>17
    <3>2. /\ Write(h, y, Fill(z, Junk)) \in State
          /\ \A c \in Off : c < y \/ y + z <= c
                             => Write(h, y, Fill(z, Junk)).file[c] = h.file[c]
      BY GapIs
    <3>3. QED  BY <2>2, <3>1, <3>2
  <2>4. QED  BY <2>1, <2>3
<1>19. tail \in State /\ CopiedTo(gap.file, tail.file, a + off + cut, d + off + m, n)
  <2>1. PICK y \in Int, e \in Int, z \in Int : y = a + off + cut /\ e = a + full /\ z = d + off + m
    BY <1>3
  <2>2. Spans(n, y, e) /\ (n > 0 => 0 <= y /\ y + n <= MaxOff + 1)
    BY <1>6, <1>9, <1>10, <2>1 DEF Spans
  <2>3. tail = MoveData(gap, y, e, z)
    BY <1>14, <2>1
  <2>4. tail \in State /\ CopiedTo(gap.file, tail.file, y, z, n)
    BY <1>18, <2>2, <2>3, MoveDataIs
  <2>5. QED  BY <2>1, <2>4
<1>20. \A c \in Off : /\ d + off <= c /\ c < d + off + m => u.file[c] = cells[c - (d + off) + 1]
                      /\ c < d + off \/ d + off + m <= c => u.file[c] = tail.file[c]
  <2>1. PICK y \in Int : y = d + off
    OBVIOUS
  <2>2. \A c \in Off : /\ y <= c /\ c < y + m => u.file[c] = cells[c - y + 1]
                       /\ c < y \/ y + m <= c => u.file[c] = tail.file[c]
    <3>1. cells \in [1 .. m -> Cell]
      BY DEF Cell
    <3>2. tail \in State /\ m \in Nat
      BY <1>3, <1>19
    <3>3. u = Write(tail, y, cells)
      BY <1>15, <2>1
    <3>4. WrittenTo(tail.file, u.file, y, m, cells)
      BY <3>1, <3>2, <3>3, DataIs
    <3>5. QED  BY <3>4 DEF WrittenTo
  <2>3. QED  BY <2>1, <2>2
<1>21. ASSUME NEW i \in Nat, 1 <= i, i <= off, i <= full
       PROVE  u.file[d + i - 1] = s.file[a + i - 1]
  <2>1. i <= kept
    BY <1>7, <1>21
  <2>2. PICK c \in Off : c = d + i - 1
    BY <1>6, <1>10, <1>11, <1>21, <2>1 DEF Off
  <2>3. c \in Int /\ c < d + kept /\ c < d + off /\ c < d + off + m /\ d <= c /\ a + (c - d) = a + i - 1
    BY <1>3, <1>21, <2>1, <2>2
  <2>4. u.file[c] = tail.file[c]
    BY <1>20, <2>3
  <2>5. tail.file[c] = gap.file[c]
    BY <1>19, <2>3 DEF CopiedTo
  <2>6. gap.file[c] = head.file[c]
    BY <1>18, <2>3
  <2>7. head.file[c] = s.file[a + (c - d)]
    BY <1>17, <2>3 DEF CopiedTo
  <2>8. QED  BY <2>2, <2>3, <2>4, <2>5, <2>6, <2>7
<1>22. ASSUME NEW i \in 1 .. m
       PROVE  u.file[d + off + i - 1] = cells[i]
  <2>1. PICK c \in Off : c = d + off + i - 1
    BY <1>3, <1>6, <1>10, <1>11 DEF Off
  <2>2. d + off <= c /\ c < d + off + m /\ c - (d + off) + 1 = i
    BY <1>3, <2>1
  <2>3. QED  BY <1>20, <2>1, <2>2
<1>23. ASSUME NEW i \in Nat, off + cut < i, i <= full
       PROVE  u.file[d + (i - cut + m) - 1] = s.file[a + i - 1]
  <2>1. kept = off /\ n = full - off - cut
    BY <1>7, <1>9, <1>23
  <2>2. PICK c \in Off : c = d + (i - cut + m) - 1
    BY <1>3, <1>6, <1>10, <1>11, <1>23, <2>1 DEF Off
  <2>3. PICK p \in Off : p = a + i - 1
    BY <1>6, <1>10, <1>23 DEF Off
  <2>4. c \in Int /\ d + off + m <= c /\ c < d + off + m + n /\ a + off + cut + (c - (d + off + m)) = p
    BY <1>3, <1>23, <2>1, <2>2, <2>3
  <2>5. u.file[c] = tail.file[c]
    BY <1>20, <2>4
  <2>6. tail.file[c] = gap.file[p]
    BY <1>19, <2>4 DEF CopiedTo
  <2>7. p \in Int /\ (p < d + kept \/ d + off <= p) /\ (p < d \/ d + kept <= p)
    <3>1. p \in Int /\ p = a + i - 1
      BY <2>3
    <3>2. CASE a = d
      BY <1>23, <2>1, <3>1, <3>2
    <3>3. CASE a + full <= d
      BY <1>23, <2>1, <3>1, <3>3
    <3>4. CASE d + k <= a
      BY <1>11, <1>23, <2>1, <3>1, <3>4
    <3>5. QED  BY <1>10, <3>1, <3>2, <3>3, <3>4
  <2>8. gap.file[p] = head.file[p]
    BY <1>18, <2>7
  <2>9. head.file[p] = s.file[p]
    BY <1>17, <2>7 DEF CopiedTo
  <2>10. QED  BY <2>2, <2>3, <2>5, <2>6, <2>8, <2>9
<1>24. Splices(s.file, u.file, src, dst, x, m)
  <2>1. \A i \in Nat : 1 <= i /\ i <= off /\ i <= full
                       => u.file[dst + BH + i - 1] = s.file[src + BH + i - 1]
    BY <1>8, <1>21
  <2>2. \A i \in 1 .. m : u.file[dst + BH + off + i - 1] = cells[i]
    BY <1>8, <1>22
  <2>3. \A i \in Nat : off + cut < i /\ i <= full
                       => u.file[dst + BH + (i - cut + m) - 1] = s.file[src + BH + i - 1]
    BY <1>8, <1>23
  <2>4. QED  BY <1>1, <1>2, <2>1, <2>2, <2>3 DEF Splices
<1>25. QED  BY <1>16, <1>24

\* It depends on the cells of the record and on those that are asked for only.
LEMMA SplicesSame ==
  ASSUME NEW src \in Nat, NEW dst \in Nat, NEW x, NEW m, Asked(x, m), NEW f, NEW g,
         Splices(f, g, src, dst, x, m), NEW e, NEW h, NEW j \in Nat, x.full <= j,
         Agree(e, f, DataAt(src, j)),
         NEW k \in Nat, SliceLen(x) <= k, Agree(g, h, DataAt(dst, k))
  PROVE  Splices(e, h, src, dst, x, m)
<1>1. PICK off \in Nat, cut \in Nat, full \in Nat : off = x.off /\ cut = x.cut /\ full = x.full
  BY DEF Asked
<1>2. PICK cells \in [1 .. m -> Values] : cells = x.data
  BY DEF Asked
<1>3. m \in Nat /\ Len(cells) = m /\ (cut > 0 => off + cut <= full)
  <2>1. m \in Nat /\ (cut > 0 => off + cut <= full)
    BY <1>1 DEF Asked
  <2>2. QED  BY <2>1
<1>4. (off > full => off + m <= k) /\ (off <= full => full + m - cut <= k)
  BY <1>1, <1>2, <1>3 DEF SliceLen
<1>5. BH \in Nat /\ full <= j
  BY <1>1, SizesAssumption
<1>6. ASSUME NEW i \in Nat, 1 <= i, i <= off, i <= full
      PROVE  h[dst + BH + i - 1] = e[src + BH + i - 1]
  <2>1. g[dst + BH + i - 1] = f[src + BH + i - 1]
    BY <1>1, <1>6 DEF Splices
  <2>2. src + BH + i - 1 \in DataAt(src, j)
    BY <1>1, <1>5, <1>6 DEF DataAt
  <2>3. dst + BH + i - 1 \in DataAt(dst, k)
    BY <1>3, <1>4, <1>5, <1>6 DEF DataAt
  <2>4. QED  BY <2>1, <2>2, <2>3 DEF Agree
<1>7. ASSUME NEW i \in 1 .. m
      PROVE  h[dst + BH + off + i - 1] = x.data[i]
  <2>1. g[dst + BH + off + i - 1] = x.data[i]
    BY <1>1, <1>7 DEF Splices
  <2>2. dst + BH + off + i - 1 \in DataAt(dst, k)
    BY <1>3, <1>4, <1>5 DEF DataAt
  <2>3. QED  BY <2>1, <2>2 DEF Agree
<1>8. ASSUME NEW i \in Nat, off + cut < i, i <= full
      PROVE  h[dst + BH + (i - cut + m) - 1] = e[src + BH + i - 1]
  <2>1. g[dst + BH + (i - cut + m) - 1] = f[src + BH + i - 1]
    BY <1>1, <1>8 DEF Splices
  <2>2. src + BH + i - 1 \in DataAt(src, j)
    BY <1>1, <1>5, <1>8 DEF DataAt
  <2>3. dst + BH + (i - cut + m) - 1 \in DataAt(dst, k)
    BY <1>3, <1>4, <1>5, <1>8 DEF DataAt
  <2>4. QED  BY <2>1, <2>2, <2>3 DEF Agree
<1>9. QED  BY <1>1, <1>6, <1>7, <1>8 DEF Splices

-----------------------------------------------------------------------------
(* Where the records of a storage are after one of them was resized or     *)
(* spliced.                                                                *)

\* Record x of s is record loc of t, and the others of V are as they were.
Carried(s, t, V, U, x, loc) ==
  /\ loc = x \/ loc \notin DOMAIN V
  /\ \A y : y \in DOMAIN U <=> (y \in DOMAIN V /\ y # x) \/ y = loc
  /\ \A y \in DOMAIN V : y # x => U[y] = V[y] /\ \A c \in DataAt(y, V[y]) : t.file[c] = s.file[c]

\* u has both blocks: the data of the old one, and room for the new one in which
\* t has what w has.
Between(s, u, w, t, V, U, x, loc) ==
  /\ u \in State /\ x \in Nat /\ loc \in Nat /\ BlockLen(u, loc) = U[loc]
  /\ x + BH + V[x] <= MaxOff + 1 /\ loc + BH + U[loc] <= MaxOff + 1
  /\ Aside(x + BH, V[x], loc + BH, U[loc])
  /\ Agree(s.file, u.file, DataAt(x, V[x]))
  /\ Agree(w.file, t.file, DataAt(loc, U[loc]))

\* A record ends within the file.
LEMMA RecordEnds ==
  ASSUME NEW s, NEW B, NEW last, NEW W, NEW V, Stands(s, B, last, W, V), NEW x \in DOMAIN V
  PROVE  /\ s \in State /\ Row(s.file, B, last) /\ Sized(s.file, B, W, V) /\ Lengths(V)
         /\ x \in B /\ x \in Nat /\ x \in Off /\ V[x] \in Nat /\ ~s.file[x].free
         /\ s.file[x].next = x + BH + V[x] /\ BlockLen(s, x) = V[x]
         /\ x + BH + V[x] <= MaxOff + 1 /\ x + BH + V[x] <= last
<1>1. InRow(s, B, last, W, V) /\ s \in State
  BY DEF Stands, Counted
<1>2. Row(s.file, B, last) /\ Sized(s.file, B, W, V) /\ Lengths(V)
  BY <1>1 DEF InRow, Sized
<1>3. x \in B /\ ~s.file[x].free
  BY <1>2, SizedIs
<1>4. V[x] \in Nat /\ s.file[x].next = x + BH + V[x]
  BY <1>2, <1>3, UsedSize
<1>5. x \in Nat /\ x \in Off /\ last \in Off /\ last \in Nat
  BY <1>2, <1>3, RowNat
<1>6. BlockLen(s, x) = V[x]
  BY <1>1, <1>3, LenIs
<1>7. s.file[x].next <= last
  BY <1>2, <1>3, RowNext
<1>8. x + BH + V[x] <= last /\ x + BH + V[x] <= MaxOff + 1
  <2>1. PICK e \in Nat : e = x + BH + V[x]
    BY <1>4, <1>5, SizesAssumption
  <2>2. e <= last /\ last <= MaxOff /\ MaxOff \in Nat
    BY <1>4, <1>5, <1>7, <2>1, SizesAssumption DEF Off
  <2>3. QED  BY <1>5, <2>1, <2>2
<1>9. QED  BY <1>1, <1>2, <1>3, <1>4, <1>5, <1>6, <1>8

\* Two records are apart.
LEMMA RecordsAside ==
  ASSUME NEW s, NEW B, NEW last, NEW W, NEW V, Stands(s, B, last, W, V), NEW x \in DOMAIN V,
         NEW y \in DOMAIN V, x # y
  PROVE  /\ Aside(x + BH, V[x], y + BH, V[y])
         /\ \A c \in DataAt(x, V[x]) : c \in Off /\ c \notin DataAt(y, V[y])
<1>1. /\ Row(s.file, B, last) /\ Sized(s.file, B, W, V)
      /\ x \in B /\ x \in Nat /\ V[x] \in Nat /\ s.file[x].next = x + BH + V[x]
      /\ y \in B /\ y \in Nat /\ V[y] \in Nat /\ s.file[y].next = y + BH + V[y]
  BY RecordEnds
<1>2. (x < y => s.file[x].next <= y) /\ (y < x => s.file[y].next <= x)
  BY <1>1, RowNext
<1>3. PICK j \in Nat, k \in Nat : j = V[x] /\ k = V[y]
  BY <1>1
<1>4. (x < y => x + BH + j <= y) /\ (y < x => y + BH + k <= x) /\ (x < y \/ y < x)
  BY <1>1, <1>2, <1>3
<1>5. x + BH + j <= y + BH \/ y + BH + k <= x + BH
  BY <1>1, <1>4, SizesAssumption
<1>6. Aside(x + BH, V[x], y + BH, V[y])
  BY <1>3, <1>5 DEF Aside
<1>7. ASSUME NEW c \in DataAt(x, V[x]) PROVE c \in Off /\ c \notin DataAt(y, V[y])
  <2>1. c \in Off
    BY <1>1, RecordOff
  <2>2. c \notin DataAt(y, k)
    BY <1>1, <1>3, <1>5, <1>7, SizesAssumption DEF DataAt
  <2>3. QED  BY <1>3, <2>1, <2>2
<1>8. QED  BY <1>6, <1>7

\* A record that is moved.
LEMMA MovedText ==
  ASSUME NEW s, NEW u, NEW w, NEW t, NEW V, Lengths(V), NEW x \in DOMAIN V, NEW loc, NEW len,
         MovedTo(s, u, w, t, V, x, loc, len)
  PROVE  \E D, z, H, U : /\ Stands(t, D, z, H, U) /\ loc \in DOMAIN U /\ len <= U[loc]
                         /\ Carried(s, t, V, U, x, loc) /\ Between(s, u, w, t, V, U, x, loc)
<1>1. PICK C, l, G, D, z, H : \E k \in Nat :
        /\ len <= k /\ loc \notin DOMAIN V
        /\ Stands(u, C, l, G, With(V, loc, k)) /\ Held(s, u, V)
        /\ Filled(u, w, loc, k)
        /\ Stands(t, D, z, H, Without(With(V, loc, k), x))
        /\ Held(w, t, Without(With(V, loc, k), x))
  BY DEF MovedTo
<1>2. PICK k \in Nat :
        /\ len <= k /\ loc \notin DOMAIN V
        /\ Stands(u, C, l, G, With(V, loc, k)) /\ Held(s, u, V)
        /\ Filled(u, w, loc, k)
        /\ Stands(t, D, z, H, Without(With(V, loc, k), x))
        /\ Held(w, t, Without(With(V, loc, k), x))
  BY <1>1
<1>3. PICK Y : Y = With(V, loc, k)
  OBVIOUS
<1>4. /\ \A y : y \in DOMAIN Y <=> y \in DOMAIN V \/ y = loc
      /\ Y[loc] = k /\ Lengths(Y) /\ \A y \in DOMAIN V : Y[y] = V[y]
  BY <1>2, <1>3, WithIs
<1>5. PICK U : U = Without(Y, x)
  OBVIOUS
<1>6. /\ \A y : y \in DOMAIN U <=> y \in DOMAIN Y /\ y # x
      /\ \A y \in DOMAIN Y : y # x => U[y] = Y[y]
  BY <1>4, <1>5, WithoutIs
<1>7. loc # x /\ loc \in DOMAIN Y /\ loc \in DOMAIN U /\ U[loc] = k /\ x \in DOMAIN Y /\ Y[x] = V[x]
  BY <1>2, <1>4, <1>6
<1>8. Stands(u, C, l, G, Y) /\ Stands(t, D, z, H, U) /\ Held(w, t, U) /\ Held(s, u, V)
  BY <1>2, <1>3, <1>5
<1>9. ASSUME NEW y \in DOMAIN V, y # x
      PROVE  U[y] = V[y] /\ \A c \in DataAt(y, V[y]) : t.file[c] = s.file[c]
  <2>1. y \in DOMAIN Y /\ y \in DOMAIN U /\ U[y] = V[y] /\ Y[y] = V[y] /\ y # loc
    BY <1>2, <1>4, <1>6, <1>9
  <2>2. ASSUME NEW c \in DataAt(y, V[y]) PROVE t.file[c] = s.file[c]
    <3>1. c \in Off /\ c \notin DataAt(loc, k)
      BY <1>7, <1>8, <2>1, <2>2, <1>4, RecordsAside
    <3>2. u.file[c] = s.file[c]
      BY <1>8, <2>2 DEF Held
    <3>3. w.file[c] = u.file[c]
      BY <1>2, <3>1 DEF Filled
    <3>4. t.file[c] = w.file[c]
      BY <1>8, <2>1, <2>2 DEF Held
    <3>5. QED  BY <3>2, <3>3, <3>4
  <2>3. QED  BY <2>1, <2>2
<1>10. Carried(s, t, V, U, x, loc)
  BY <1>2, <1>4, <1>6, <1>7, <1>9 DEF Carried
<1>11. Between(s, u, w, t, V, U, x, loc)
  <2>1. u \in State /\ loc \in Nat /\ BlockLen(u, loc) = k /\ loc + BH + k <= MaxOff + 1
    BY <1>4, <1>7, <1>8, RecordEnds
  <2>2. x \in Nat /\ x + BH + V[x] <= MaxOff + 1
    BY <1>7, <1>8, RecordEnds
  <2>3. Aside(x + BH, V[x], loc + BH, k)
    BY <1>4, <1>7, <1>8, RecordsAside
  <2>4. Agree(s.file, u.file, DataAt(x, V[x]))
    BY <1>8 DEF Held, Agree
  <2>5. Agree(w.file, t.file, DataAt(loc, U[loc]))
    BY <1>7, <1>8 DEF Held, Agree
  <2>6. QED  BY <1>7, <2>1, <2>2, <2>3, <2>4, <2>5 DEF Between
<1>12. QED  BY <1>2, <1>7, <1>8, <1>10, <1>11

\* A record that is resized where it is.
LEMMA ReshapedText ==
  ASSUME NEW s, NEW t, NEW V, Lengths(V), NEW x \in DOMAIN V, NEW len, Reshaped(s, t, V, x, len)
  PROVE  \E D, z, H, U : /\ Stands(t, D, z, H, U) /\ x \in DOMAIN U /\ len <= U[x]
                         /\ Carried(s, t, V, U, x, x)
                         /\ Agree(s.file, t.file, DataAt(x, U[x]))
<1>1. PICK D, z, H : \E k \in Nat :
        len <= k /\ Stands(t, D, z, H, Resized(V, x, k)) /\ Held(s, t, Resized(V, x, k))
  BY DEF Reshaped
<1>2. PICK k \in Nat :
        len <= k /\ Stands(t, D, z, H, Resized(V, x, k)) /\ Held(s, t, Resized(V, x, k))
  BY <1>1
<1>3. PICK U : U = Resized(V, x, k)
  OBVIOUS
<1>4. /\ \A y : y \in DOMAIN U <=> y \in DOMAIN V
      /\ U[x] = k /\ \A y \in DOMAIN V : y # x => U[y] = V[y]
  BY <1>3, ResizedIs
<1>5. Stands(t, D, z, H, U) /\ Held(s, t, U) /\ x \in DOMAIN U
  BY <1>2, <1>3, <1>4
<1>6. \A y \in DOMAIN U : \A c \in DataAt(y, U[y]) : t.file[c] = s.file[c]
  BY <1>5 DEF Held
<1>7. ASSUME NEW y \in DOMAIN V, y # x
      PROVE  U[y] = V[y] /\ \A c \in DataAt(y, V[y]) : t.file[c] = s.file[c]
  <2>1. y \in DOMAIN U /\ U[y] = V[y]
    BY <1>4, <1>7
  <2>2. QED  BY <1>6, <2>1
<1>8. Carried(s, t, V, U, x, x)
  BY <1>4, <1>7 DEF Carried
<1>9. Agree(s.file, t.file, DataAt(x, U[x]))
  BY <1>5, <1>6 DEF Agree
<1>10. QED  BY <1>2, <1>4, <1>5, <1>8, <1>9

-----------------------------------------------------------------------------
(* Resizing.                                                               *)

\* Record x of s keeps its contents as record loc of t, as far as there is room.
Contained(s, t, V, U, x, loc) ==
  \A i \in Nat : 1 <= i /\ i <= V[x] /\ i <= U[loc]
                 => t.file[loc + BH + i - 1] = s.file[x + BH + i - 1]

\* What reallocRec does to the records.
LEMMA ReallocText ==
  ASSUME NEW s, NEW B, NEW last, NEW W, NEW V, Stands(s, B, last, W, V), NEW x \in DOMAIN V,
         NEW t, NEW loc, NEW len, Reallocated(s, t, V, x, loc, len)
  PROVE  \E D, z, H, U : /\ Stands(t, D, z, H, U) /\ loc \in DOMAIN U /\ len <= U[loc]
                         /\ Carried(s, t, V, U, x, loc) /\ Contained(s, t, V, U, x, loc)
<1>1. Lengths(V) /\ V[x] \in Nat /\ BH \in Nat /\ x \in Nat
  BY RecordEnds, SizesAssumption
<1>2. ASSUME NEW u, NEW w, w = MoveRec(u, x, V[x], loc), MovedTo(s, u, w, t, V, x, loc, len)
      PROVE  \E D, z, H, U : /\ Stands(t, D, z, H, U) /\ loc \in DOMAIN U /\ len <= U[loc]
                             /\ Carried(s, t, V, U, x, loc) /\ Contained(s, t, V, U, x, loc)
  <2>1. PICK D, z, H, U : /\ Stands(t, D, z, H, U) /\ loc \in DOMAIN U /\ len <= U[loc]
                          /\ Carried(s, t, V, U, x, loc) /\ Between(s, u, w, t, V, U, x, loc)
    BY <1>1, <1>2, MovedText
  <2>2. U[loc] \in Nat
    BY <2>1, RecordEnds
  <2>3. /\ u \in State /\ loc \in Nat /\ BlockLen(u, loc) = U[loc]
        /\ x + BH + V[x] <= MaxOff + 1 /\ loc + BH + U[loc] <= MaxOff + 1
    BY <2>1 DEF Between
  <2>4. ASSUME NEW i \in Nat, 1 <= i, i <= V[x], i <= U[loc]
        PROVE  t.file[loc + BH + i - 1] = s.file[x + BH + i - 1]
    <3>1. w.file[loc + BH + i - 1] = u.file[x + BH + i - 1]
      BY <1>1, <1>2, <2>2, <2>3, <2>4, MovedCells
    <3>2. loc + BH + i - 1 \in DataAt(loc, U[loc]) /\ x + BH + i - 1 \in DataAt(x, V[x])
      BY <1>1, <2>2, <2>3, <2>4 DEF DataAt
    <3>3. \A c \in DataAt(x, V[x]) : u.file[c] = s.file[c]
      BY <2>1 DEF Between, Agree
    <3>4. \A c \in DataAt(loc, U[loc]) : t.file[c] = w.file[c]
      BY <2>1 DEF Between, Agree
    <3>5. QED  BY <3>1, <3>2, <3>3, <3>4
  <2>5. Contained(s, t, V, U, x, loc)
    BY <2>4 DEF Contained
  <2>6. QED  BY <2>1, <2>5
<1>3. ASSUME loc = x, Reshaped(s, t, V, x, len)
      PROVE  \E D, z, H, U : /\ Stands(t, D, z, H, U) /\ loc \in DOMAIN U /\ len <= U[loc]
                             /\ Carried(s, t, V, U, x, loc) /\ Contained(s, t, V, U, x, loc)
  <2>1. PICK D, z, H, U : /\ Stands(t, D, z, H, U) /\ x \in DOMAIN U /\ len <= U[x]
                          /\ Carried(s, t, V, U, x, x)
                          /\ Agree(s.file, t.file, DataAt(x, U[x]))
    BY <1>1, <1>3, ReshapedText
  <2>2. U[x] \in Nat
    BY <2>1, RecordEnds
  <2>3. ASSUME NEW i \in Nat, 1 <= i, i <= V[x], i <= U[x]
        PROVE  t.file[x + BH + i - 1] = s.file[x + BH + i - 1]
    <3>1. x + BH + i - 1 \in DataAt(x, U[x])
      BY <1>1, <2>2, <2>3 DEF DataAt
    <3>2. QED  BY <2>1, <3>1 DEF Agree
  <2>4. Contained(s, t, V, U, x, x)
    BY <2>3 DEF Contained
  <2>5. QED  BY <1>3, <2>1, <2>4
<1>4. QED  BY <1>2, <1>3 DEF Reallocated

-----------------------------------------------------------------------------
(* Splicing.                                                               *)

\* What sliceRec does to the records.
LEMMA SliceText ==
  ASSUME NEW s, NEW B, NEW last, NEW W, NEW V, Stands(s, B, last, W, V), NEW x \in DOMAIN V,
         NEW t, NEW loc, NEW q, NEW m, Asked(q, m), q.full <= V[x], Sliced(s, t, V, x, loc, q)
  PROVE  \E D, z, H, U : /\ Stands(t, D, z, H, U) /\ loc \in DOMAIN U /\ SliceLen(q) <= U[loc]
                         /\ Carried(s, t, V, U, x, loc)
                         /\ Splices(s.file, t.file, x, loc, q, m)
<1>1. /\ Lengths(V) /\ V[x] \in Nat /\ BH \in Nat /\ x \in Nat /\ s \in State
      /\ x + BH + V[x] <= MaxOff + 1 /\ MaxOff \in Nat
  BY RecordEnds, SizesAssumption
<1>2. q.full \in Nat /\ SliceLen(q) \in Int
  BY SliceLenInt DEF Asked
<1>3. ASSUME NEW u, NEW w, w = MoveAndFill(u, x, loc, q),
             MovedTo(s, u, w, t, V, x, loc, SliceLen(q))
      PROVE  \E D, z, H, U : /\ Stands(t, D, z, H, U) /\ loc \in DOMAIN U /\ SliceLen(q) <= U[loc]
                             /\ Carried(s, t, V, U, x, loc)
                             /\ Splices(s.file, t.file, x, loc, q, m)
  <2>1. PICK D, z, H, U : /\ Stands(t, D, z, H, U) /\ loc \in DOMAIN U /\ SliceLen(q) <= U[loc]
                          /\ Carried(s, t, V, U, x, loc) /\ Between(s, u, w, t, V, U, x, loc)
    BY <1>1, <1>3, MovedText
  <2>2. PICK k \in Nat : k = U[loc]
    BY <2>1, RecordEnds
  <2>3. /\ u \in State /\ loc \in Nat /\ loc + BH + k <= MaxOff + 1
        /\ Aside(x + BH, V[x], loc + BH, k)
        /\ Agree(s.file, u.file, DataAt(x, V[x])) /\ Agree(w.file, t.file, DataAt(loc, k))
    BY <2>1, <2>2 DEF Between
  <2>4. Aside(x + BH, q.full, loc + BH, k) /\ x + BH + q.full <= MaxOff + 1
    <3>1. PICK j \in Nat, full \in Nat : j = V[x] /\ full = q.full /\ full <= j
      BY <1>1, <1>2
    <3>2. x + BH + j <= loc + BH \/ loc + BH + k <= x + BH
      BY <2>3, <3>1 DEF Aside
    <3>3. x + BH + full <= loc + BH \/ loc + BH + k <= x + BH
      BY <1>1, <2>3, <3>1, <3>2
    <3>4. x + BH + full <= MaxOff + 1
      BY <1>1, <3>1
    <3>5. QED  BY <3>1, <3>3, <3>4 DEF Aside
  <2>5. Splices(u.file, w.file, x, loc, q, m)
    BY <1>1, <1>3, <2>1, <2>2, <2>3, <2>4, SplicedCells
  <2>6. Splices(s.file, t.file, x, loc, q, m)
    BY <1>1, <2>1, <2>2, <2>3, <2>5, SplicesSame
  <2>7. QED  BY <2>1, <2>6
<1>4. ASSUME loc = x, NEW u, NEW n \in Nat, SliceLen(q) <= n, q.full <= n,
             Reshaped(s, u, V, x, n), t = MoveAndFill(u, x, x, q)
      PROVE  \E D, z, H, U : /\ Stands(t, D, z, H, U) /\ loc \in DOMAIN U /\ SliceLen(q) <= U[loc]
                             /\ Carried(s, t, V, U, x, loc)
                             /\ Splices(s.file, t.file, x, loc, q, m)
  <2>1. PICK D, z, H, U : /\ Stands(u, D, z, H, U) /\ x \in DOMAIN U /\ n <= U[x]
                          /\ Carried(s, u, V, U, x, x)
                          /\ Agree(s.file, u.file, DataAt(x, U[x]))
    BY <1>1, <1>4, ReshapedText
  <2>2. PICK k \in Nat : k = U[x] /\ x + BH + k <= MaxOff + 1
    BY <2>1, RecordEnds
  <2>3. u \in State
    BY <2>1, RecordEnds
  <2>4. SliceLen(q) <= k /\ q.full <= k /\ x + BH + q.full <= MaxOff + 1
    BY <1>1, <1>2, <1>4, <2>1, <2>2
  <2>5. Filled(u, t, x, k)
    BY <1>1, <1>4, <2>3, <2>4, MoveAndFillIs
  <2>6. Filled(u, t, x, U[x])
    BY <2>2, <2>5
  <2>7. Stands(t, D, z, H, U) /\ Held(u, t, Without(U, x))
    BY <2>1, <2>6, DataStands
  <2>8. ASSUME NEW y \in DOMAIN V, y # x
        PROVE  U[y] = V[y] /\ \A c \in DataAt(y, V[y]) : t.file[c] = s.file[c]
    <3>1. U[y] = V[y] /\ y \in DOMAIN U /\ \A c \in DataAt(y, V[y]) : u.file[c] = s.file[c]
      BY <2>1, <2>8 DEF Carried
    <3>2. \A c \in DataAt(y, U[y]) : c \in Off /\ c \notin DataAt(x, U[x])
      BY <2>1, <2>8, <3>1, RecordsAside
    <3>3. \A c \in DataAt(y, U[y]) : t.file[c] = u.file[c]
      BY <2>6, <3>2 DEF Filled
    <3>4. QED  BY <3>1, <3>3
  <2>9. Carried(s, t, V, U, x, x)
    BY <2>1, <2>8 DEF Carried
  <2>10. Splices(u.file, t.file, x, x, q, m)
    BY <1>1, <1>4, <2>2, <2>3, <2>4, SplicedCells
  <2>11. Agree(s.file, u.file, DataAt(x, k)) /\ Agree(t.file, t.file, DataAt(x, k))
    BY <2>1, <2>2 DEF Agree
  <2>12. Splices(s.file, t.file, x, x, q, m)
    BY <1>1, <2>2, <2>4, <2>10, <2>11, SplicesSame
  <2>13. SliceLen(q) <= U[x]
    BY <2>2, <2>4
  <2>14. QED  BY <1>4, <2>1, <2>7, <2>9, <2>12, <2>13
<1>5. ASSUME loc = x, SliceLen(q) <= V[x], NEW u, u = MoveAndFill(s, x, x, q),
             Filled(s, u, x, V[x]), Reshaped(u, t, V, x, SliceLen(q))
      PROVE  \E D, z, H, U : /\ Stands(t, D, z, H, U) /\ loc \in DOMAIN U /\ SliceLen(q) <= U[loc]
                             /\ Carried(s, t, V, U, x, loc)
                             /\ Splices(s.file, t.file, x, loc, q, m)
  <2>1. PICK D, z, H, U : /\ Stands(t, D, z, H, U) /\ x \in DOMAIN U /\ SliceLen(q) <= U[x]
                          /\ Carried(u, t, V, U, x, x)
                          /\ Agree(u.file, t.file, DataAt(x, U[x]))
    BY <1>1, <1>5, ReshapedText
  <2>2. PICK k \in Nat : k = U[x]
    BY <2>1, RecordEnds
  <2>3. PICK j \in Nat : j = V[x]
    BY <1>1
  <2>4. SliceLen(q) <= j /\ x + BH + j <= MaxOff + 1 /\ x + BH + q.full <= MaxOff + 1 /\ q.full <= j
    BY <1>1, <1>2, <1>5, <2>3
  <2>5. Splices(s.file, u.file, x, x, q, m)
    BY <1>1, <1>5, <2>3, <2>4, SplicedCells
  <2>6. Agree(s.file, s.file, DataAt(x, j))
    BY DEF Agree
  <2>7. SliceLen(q) <= k /\ Agree(u.file, t.file, DataAt(x, k))
    BY <2>1, <2>2
  <2>8. Splices(s.file, t.file, x, x, q, m)
    BY <1>1, <2>4, <2>5, <2>6, <2>7, SplicesSame
  <2>9. ASSUME NEW y \in DOMAIN V, y # x
        PROVE  U[y] = V[y] /\ \A c \in DataAt(y, V[y]) : t.file[c] = s.file[c]
    <3>1. U[y] = V[y] /\ \A c \in DataAt(y, V[y]) : t.file[c] = u.file[c]
      BY <2>1, <2>9 DEF Carried
    <3>2. \A c \in DataAt(y, V[y]) : c \in Off /\ c \notin DataAt(x, V[x])
      BY <2>9, RecordsAside
    <3>3. \A c \in DataAt(y, V[y]) : u.file[c] = s.file[c]
      BY <1>5, <3>2 DEF Filled
    <3>4. QED  BY <3>1, <3>3
  <2>10. Carried(s, t, V, U, x, x)
    BY <2>1, <2>9 DEF Carried
  <2>11. QED  BY <1>5, <2>1, <2>8, <2>10
<1>6. QED  BY <1>3, <1>4, <1>5 DEF Sliced

-----------------------------------------------------------------------------
(* What is read of a record.                                               *)

\* All of its cells.
LEMMA RecordRead ==
  ASSUME NEW t, NEW D, NEW z, NEW H, NEW U, Stands(t, D, z, H, U), NEW y \in DOMAIN U,
         NEW cells, cells = Read(t, y + BH, t.file[y].next)
  PROVE  /\ cells \in [1 .. U[y] -> Cell] /\ Len(cells) = U[y]
         /\ \A i \in 1 .. U[y] : cells[i] = t.file[y + BH + i - 1]
<1>1. /\ t \in State /\ y \in Nat /\ BH \in Nat /\ MaxOff \in Nat
      /\ t.file[y].next = y + BH + U[y] /\ y + BH + U[y] <= MaxOff + 1
  BY RecordEnds, SizesAssumption
<1>2. PICK k \in Nat : k = U[y]
  BY RecordEnds
<1>3. PICK a \in Int, e \in Int : a = y + BH /\ e = y + BH + k
  BY <1>1
<1>4. PICK n \in Nat : Copied(Read(t, a, e), n, t, a) /\ Spans(n, a, e)
  BY <1>1, ReadIs
<1>5. n = k
  BY <1>1, <1>3, <1>4 DEF Spans
<1>6. cells = Read(t, a, e)
  BY <1>1, <1>2, <1>3
<1>7. cells \in [1 .. k -> Cell] /\ \A i \in 1 .. k : a + i - 1 \in Off => cells[i] = t.file[a + i - 1]
  BY <1>4, <1>5, <1>6 DEF Copied
<1>8. ASSUME NEW i \in 1 .. k PROVE cells[i] = t.file[y + BH + i - 1]
  <2>1. a + i - 1 \in Off /\ a + i - 1 = y + BH + i - 1
    BY <1>1, <1>2, <1>3 DEF Off
  <2>2. QED  BY <1>7, <2>1
<1>9. Len(cells) = k
  BY <1>7
<1>10. QED  BY <1>2, <1>7, <1>8, <1>9

\* So it is for those of the storage.
LEMMA ContentIs ==
  ASSUME NEW B, NEW last, NEW W, NEW V, Stands(Storage, B, last, W, V), NEW x \in Records
  PROVE  /\ x \in DOMAIN V /\ V[x] \in Nat
         /\ Content(x) = [i \in 1 .. V[x] |-> file[x + BH + i - 1]]
         /\ Content(x) \in [1 .. V[x] -> Cell] /\ Len(Content(x)) = V[x]
<1>1. x \in DOMAIN V /\ BlockLen(Storage, x) = V[x] /\ V[x] \in Nat /\ x \in Nat
  BY RecordsAre
<1>2. Storage.file = file
  BY DEF Storage
<1>3. DataLen(file[x], x) = V[x]
  BY <1>1, <1>2 DEF BlockLen
<1>4. Content(x) = [i \in 1 .. V[x] |-> file[x + BH + i - 1]]
  BY <1>3 DEF Content
<1>5. ASSUME NEW i \in 1 .. V[x] PROVE file[x + BH + i - 1] \in Cell
  <2>1. Storage \in State /\ x + BH + V[x] <= MaxOff + 1 /\ BH \in Nat /\ MaxOff \in Nat
    BY <1>1, RecordEnds, SizesAssumption
  <2>2. x + BH + i - 1 \in Off
    BY <1>1, <2>1 DEF Off
  <2>3. file \in [Off -> Cell]
    BY <1>2, <2>1 DEF State
  <2>4. QED  BY <2>2, <2>3
<1>6. Content(x) \in [1 .. V[x] -> Cell]
  BY <1>4, <1>5
<1>7. Len(Content(x)) = V[x]
  BY <1>1, <1>6
<1>8. QED  BY <1>1, <1>4, <1>6, <1>7

\* new is of len cells at least and begins as old does.
Begins(old, new, len) ==
  Len(new) >= len /\ \A i \in 1 .. Min({Len(old), Len(new)}) : new[i] = old[i]

\* A record that is resized begins with what the old one held.
LEMMA ReallocRight ==
  ASSUME NEW B, NEW last, NEW W, NEW V, Stands(Storage, B, last, W, V), NEW x \in Records,
         NEW len \in Lens, NEW t, NEW loc, Reallocated(Storage, t, V, x, loc, len),
         NEW new, new = Read(t, loc + BH, t.file[loc].next)
  PROVE  Begins(Content(x), new, len)
<1>1. /\ x \in DOMAIN V /\ V[x] \in Nat /\ Len(Content(x)) = V[x]
      /\ Content(x) = [i \in 1 .. V[x] |-> file[x + BH + i - 1]]
  BY ContentIs
<1>2. PICK D, z, H, U : /\ Stands(t, D, z, H, U) /\ loc \in DOMAIN U /\ len <= U[loc]
                        /\ Contained(Storage, t, V, U, x, loc)
  BY <1>1, ReallocText
<1>3. U[loc] \in Nat /\ len \in Nat
  BY <1>2, RecordEnds, SizesAssumption
<1>4. Len(new) = U[loc] /\ \A i \in 1 .. U[loc] : new[i] = t.file[loc + BH + i - 1]
  BY <1>2, RecordRead
<1>5. PICK n \in Int : n = Min({Len(Content(x)), Len(new)}) /\ n <= V[x] /\ n <= U[loc]
  <2>1. PICK a \in Int, b \in Int : a = V[x] /\ b = U[loc]
    BY <1>1, <1>3
  <2>2. Min({a, b}) \in Int /\ Min({a, b}) <= a /\ Min({a, b}) <= b
    BY MinOf
  <2>3. a = Len(Content(x)) /\ b = Len(new)
    BY <1>1, <1>4, <2>1
  <2>4. QED  BY <2>1, <2>2, <2>3
<1>6. ASSUME NEW i \in 1 .. n PROVE new[i] = Content(x)[i]
  <2>1. i \in Nat /\ 1 <= i /\ i <= V[x] /\ i <= U[loc]
    BY <1>1, <1>3, <1>5
  <2>2. Storage.file = file
    BY DEF Storage
  <2>3. t.file[loc + BH + i - 1] = file[x + BH + i - 1]
    BY <1>2, <2>1, <2>2 DEF Contained
  <2>4. QED  BY <1>1, <1>4, <1>3, <2>1, <2>3
<1>7. QED  BY <1>2, <1>3, <1>4, <1>5, <1>6 DEF Begins

\* reallocRec keeps the contents of the record it resizes, wherever it finds
\* room for it.
THEOREM ReallocKeepsText == Spec => []ReallocKeepsContents
<1>1. ASSUME InOrder(Storage), NEW x \in Records, NEW len \in Lens,
             NEW r, r = ReallocRec(Storage, x, len), Bounded(r.s),
             NEW new, new = Read(r.s, r.loc + BH, r.s.file[r.loc].next)
      PROVE  Begins(Content(x), new, len)
  <2>1. PICK B, last, W, V : Stands(Storage, B, last, W, V)
    BY <1>1 DEF InOrder
  <2>2. x \in DOMAIN V /\ len \in Nat
    BY <2>1, RecordsAre, SizesAssumption
  <2>3. Reallocated(Storage, r.s, V, x, r.loc, len)
    BY <1>1, <2>1, <2>2, ReallocRecIs
  <2>4. QED  BY <1>1, <2>1, <2>3, ReallocRight
<1>2. IInv => ReallocKeepsContents
  <2>1. ASSUME IInv, NEW x \in Records, NEW len \in Lens, Bounded(ReallocRec(Storage, x, len).s)
        PROVE  LET r == ReallocRec(Storage, x, len)
               IN  Begins(Content(x), Read(r.s, r.loc + BH, r.s.file[r.loc].next), len)
    <3>1. InOrder(Storage)
      BY <2>1 DEF IInv
    <3>2. PICK r : r = ReallocRec(Storage, x, len)
      OBVIOUS
    <3>3. PICK new : new = Read(r.s, r.loc + BH, r.s.file[r.loc].next)
      OBVIOUS
    <3>4. Begins(Content(x), new, len)
      BY <1>1, <2>1, <3>1, <3>2, <3>3
    <3>5. QED  BY <3>2, <3>3, <3>4
  <2>2. QED  BY <2>1 DEF ReallocKeepsContents, Begins
<1>3. QED  BY <1>2, Invariant, PTL

\* h is the a cells of f and the b cells of g behind them.
OneByOne(h, f, a, g, b) ==
  /\ h \in [1 .. a + b -> Cell]
  /\ \A i \in 1 .. a : h[i] = f[i]
  /\ \A i \in 1 .. b : h[a + i] = g[i]

\* Two sequences one after the other.
LEMMA Behind ==
  ASSUME NEW a \in Nat, NEW f, f \in [1 .. a -> Cell], NEW b \in Nat, NEW g, g \in [1 .. b -> Cell]
  PROVE  OneByOne(f \o g, f, a, g, b)
<1>1. f \in Seq(Cell) /\ Len(f) = a /\ g \in Seq(Cell) /\ Len(g) = b
  OBVIOUS
<1>2. f \o g \in Seq(Cell) /\ Len(f \o g) = a + b
  BY <1>1
<1>3. f \o g \in [1 .. a + b -> Cell]
  <2>1. \A h \in Seq(Cell) : h \in [1 .. Len(h) -> Cell]
    OBVIOUS
  <2>2. QED  BY <1>2, <2>1
<1>4. ASSUME NEW i \in 1 .. a PROVE (f \o g)[i] = f[i]
  BY <1>1
<1>5. ASSUME NEW i \in 1 .. b PROVE (f \o g)[a + i] = g[i]
  BY <1>1
<1>6. QED  BY <1>3, <1>4, <1>5 DEF OneByOne

\* h is the n cells of f from p on.
Part(h, f, p, n) == h \in [1 .. n -> Cell] /\ \A i \in 1 .. n : h[i] = f[p + i - 1]

\* A part of a sequence.
LEMMA PartIs ==
  ASSUME NEW k \in Nat, NEW f \in [1 .. k -> Cell], NEW p \in Nat, NEW q \in Nat, p >= 1, q <= k,
         NEW n \in Nat, (p <= q /\ n = q - p + 1) \/ (q < p /\ n = 0)
  PROVE  Part(SubSeq(f, p, q), f, p, n)
<1>1. f \in Seq(Cell) /\ Len(f) = k
  OBVIOUS
<1>2. CASE p <= q /\ n = q - p + 1
  <2>1. SubSeq(f, p, q) \in Seq(Cell) /\ Len(SubSeq(f, p, q)) = n
    BY <1>1, <1>2
  <2>2. \A i \in 1 .. n : SubSeq(f, p, q)[i] = f[p + i - 1]
    BY <1>1, <1>2
  <2>3. \A h \in Seq(Cell) : h \in [1 .. Len(h) -> Cell]
    OBVIOUS
  <2>4. QED  BY <2>1, <2>2, <2>3 DEF Part
<1>3. CASE q < p /\ n = 0
  <2>1. SubSeq(f, p, q) \in Seq(Cell) /\ Len(SubSeq(f, p, q)) = 0
    BY <1>1, <1>3
  <2>2. \A h \in Seq(Cell) : h \in [1 .. Len(h) -> Cell]
    OBVIOUS
  <2>3. QED  BY <1>3, <2>1, <2>2 DEF Part
<1>4. QED  BY <1>2, <1>3

\* What a slice should make of a record, as SliceSplices has it.
Wanted(old, x) ==
  LET head == SubSeq(old, 1, Min({x.off, x.full}))
  IN  head \o Fill(x.off - Len(head), Junk) \o x.data \o SubSeq(old, x.off + x.cut + 1, x.full)

\* Cell i of want is one of the gap, of the data or of the old record.
Drawn(want, i, old, x, m) ==
  \/ want[i] = Junk
  \/ i <= x.off /\ i <= x.full /\ want[i] = old[i]
  \/ \E j \in 1 .. m : i = x.off + j /\ want[i] = x.data[j]
  \/ \E j \in Nat : /\ x.off + x.cut < j /\ j <= x.full
                    /\ i = j - x.cut + m /\ want[i] = old[j]

\* That is where each of them comes from.
LEMMA WantedIs ==
  ASSUME NEW x, NEW m, Asked(x, m), NEW k \in Nat, x.full <= k, NEW old, old \in [1 .. k -> Cell],
         NEW i \in 1 .. SliceLen(x), NEW want, want = Wanted(old, x)
  PROVE  Drawn(want, i, old, x, m)
<1>1. PICK off \in Nat, cut \in Nat, full \in Nat : off = x.off /\ cut = x.cut /\ full = x.full
  BY DEF Asked
<1>2. PICK cells \in [1 .. m -> Values] : cells = x.data
  BY DEF Asked
<1>3. m \in Nat /\ Len(cells) = m /\ (cut > 0 => off + cut <= full)
  <2>1. m \in Nat /\ (cut > 0 => off + cut <= full)
    BY <1>1 DEF Asked
  <2>2. QED  BY <2>1
<1>4. PICK len \in Int : len = (IF off > full THEN off + m ELSE full + m - cut)
  <2>1. off + m \in Int /\ full + m - cut \in Int
    BY <1>3
  <2>2. (IF off > full THEN off + m ELSE full + m - cut) \in Int
    BY <2>1
  <2>3. QED  BY <2>2
<1>5. len = SliceLen(x) /\ i \in 1 .. len
  BY <1>1, <1>2, <1>3, <1>4 DEF SliceLen
<1>6. PICK kept \in Nat : /\ kept = Min({off, full}) /\ kept <= off /\ kept <= full
                         /\ (kept = off \/ kept = full)
  <2>1. off \in Int /\ full \in Int
    OBVIOUS
  <2>2. Min({off, full}) \in {off, full} /\ Min({off, full}) <= off /\ Min({off, full}) <= full
    BY <2>1, MinOf
  <2>3. QED  BY <2>2
<1>7. PICK n \in Nat : (off + cut + 1 <= full /\ n = full - (off + cut + 1) + 1)
                       \/ (full < off + cut + 1 /\ n = 0)
  <2>1. off + cut + 1 <= full => full - (off + cut + 1) + 1 \in Nat
    OBVIOUS
  <2>2. off + cut + 1 <= full \/ full < off + cut + 1
    OBVIOUS
  <2>3. QED  BY <2>1, <2>2
<1>8. PICK gap \in Nat : gap = off - kept
  BY <1>6
<1>9. PICK head : head = SubSeq(old, 1, kept)
  OBVIOUS
<1>10. PICK rest : rest = SubSeq(old, off + cut + 1, full)
  OBVIOUS
<1>11. full <= k
  BY <1>1
<1>12. head \in [1 .. kept -> Cell] /\ \A j \in 1 .. kept : head[j] = old[j]
  <2>1. PICK p \in Nat : p = 1
    OBVIOUS
  <2>2. kept <= k /\ p >= 1 /\ ((p <= kept /\ kept = kept - p + 1) \/ (kept < p /\ kept = 0))
    BY <1>6, <1>11, <2>1
  <2>3. head = SubSeq(old, p, kept)
    BY <1>9, <2>1
  <2>4. Part(head, old, p, kept)
    BY <2>2, <2>3, PartIs
  <2>5. head \in [1 .. kept -> Cell] /\ \A j \in 1 .. kept : head[j] = old[p + j - 1]
    BY <2>4 DEF Part
  <2>6. \A j \in 1 .. kept : p + j - 1 = j
    BY <2>1
  <2>7. QED  BY <2>5, <2>6
<1>13. rest \in [1 .. n -> Cell] /\ \A j \in 1 .. n : rest[j] = old[off + cut + 1 + j - 1]
  <2>1. PICK p \in Nat : p = off + cut + 1
    OBVIOUS
  <2>2. p >= 1 /\ ((p <= full /\ n = full - p + 1) \/ (full < p /\ n = 0))
    BY <1>7, <2>1
  <2>3. rest = SubSeq(old, p, full)
    BY <1>10, <2>1
  <2>4. Part(rest, old, p, n)
    BY <1>11, <2>2, <2>3, PartIs
  <2>5. rest \in [1 .. n -> Cell] /\ \A j \in 1 .. n : rest[j] = old[p + j - 1]
    BY <2>4 DEF Part
  <2>6. QED  BY <2>1, <2>5
<1>14. PICK fill : fill = Fill(gap, Junk)
  OBVIOUS
<1>15. fill \in [1 .. gap -> Cell] /\ \A j \in 1 .. gap : fill[j] = Junk
  BY <1>14 DEF Fill, Cell
<1>16. cells \in [1 .. m -> Cell]
  BY DEF Cell
<1>17. Len(head) = kept
  BY <1>12
<1>18. want = head \o fill \o cells \o rest
  BY <1>1, <1>2, <1>6, <1>8, <1>9, <1>10, <1>14, <1>17 DEF Wanted
<1>19. PICK a : a = head \o fill
  OBVIOUS
<1>20. PICK b : b = a \o cells
  OBVIOUS
<1>21. /\ a \in [1 .. off -> Cell]
       /\ \A j \in 1 .. kept : a[j] = old[j]
       /\ \A j \in 1 .. gap : a[kept + j] = Junk
  <2>1. /\ a \in [1 .. kept + gap -> Cell]
        /\ \A j \in 1 .. kept : a[j] = head[j]
        /\ \A j \in 1 .. gap : a[kept + j] = fill[j]
    <3>1. OneByOne(a, head, kept, fill, gap)
      BY <1>12, <1>15, <1>19, Behind
    <3>2. QED  BY <3>1 DEF OneByOne
  <2>2. kept + gap = off
    BY <1>6, <1>8
  <2>3. QED  BY <1>12, <1>15, <2>1, <2>2
<1>22. /\ b \in [1 .. off + m -> Cell]
       /\ \A j \in 1 .. off : b[j] = a[j]
       /\ \A j \in 1 .. m : b[off + j] = cells[j]
  <2>1. OneByOne(b, a, off, cells, m)
    BY <1>3, <1>16, <1>20, <1>21, Behind
  <2>2. QED  BY <2>1 DEF OneByOne
<1>23. /\ \A j \in 1 .. off + m : want[j] = b[j]
       /\ \A j \in 1 .. n : want[off + m + j] = rest[j]
  <2>1. PICK p \in Nat : p = off + m
    BY <1>3
  <2>2. want = b \o rest
    BY <1>18, <1>19, <1>20
  <2>3. b \in [1 .. p -> Cell]
    BY <1>22, <2>1
  <2>4. /\ \A j \in 1 .. p : want[j] = b[j]
        /\ \A j \in 1 .. n : want[p + j] = rest[j]
    <3>1. OneByOne(want, b, p, rest, n)
      BY <1>13, <2>2, <2>3, Behind
    <3>2. QED  BY <3>1 DEF OneByOne
  <2>5. QED  BY <2>1, <2>4
<1>24. CASE i <= kept
  <2>1. i \in 1 .. kept /\ i \in 1 .. off /\ i \in 1 .. off + m /\ i <= off /\ i <= full
    BY <1>3, <1>5, <1>6, <1>24
  <2>2. want[i] = old[i]
    BY <1>21, <1>22, <1>23, <2>1
  <2>3. QED  BY <1>1, <2>1, <2>2 DEF Drawn
<1>25. CASE kept < i /\ i <= off
  <2>1. PICK j \in 1 .. gap : i = kept + j
    <3>1. PICK h \in Int : h = i
      BY <1>5
    <3>2. h - kept \in 1 .. gap /\ h = kept + (h - kept)
      BY <1>6, <1>8, <1>25, <3>1
    <3>3. QED  BY <3>1, <3>2
  <2>2. i \in 1 .. off /\ i \in 1 .. off + m
    BY <1>3, <1>5, <1>25
  <2>3. want[i] = Junk
    BY <1>21, <1>22, <1>23, <2>1, <2>2
  <2>4. QED  BY <2>3 DEF Drawn
<1>26. CASE off < i /\ i <= off + m
  <2>1. PICK j \in 1 .. m : i = off + j
    BY <1>3, <1>5, <1>26
  <2>2. i \in 1 .. off + m
    BY <1>3, <1>5, <1>26
  <2>3. want[i] = cells[j]
    BY <1>22, <1>23, <2>1, <2>2
  <2>4. QED  BY <1>1, <1>2, <2>1, <2>3 DEF Drawn
<1>27. CASE off + m < i
  <2>1. off + cut + 1 <= full /\ n = full - off - cut /\ off <= full /\ len = off + m + n
    BY <1>3, <1>4, <1>5, <1>7, <1>27
  <2>2. PICK j \in 1 .. n : i = off + m + j
    BY <1>3, <1>5, <1>27, <2>1
  <2>3. PICK p \in Nat : p = off + cut + j
    OBVIOUS
  <2>4. off + cut < p /\ p <= full /\ i = p - cut + m /\ off + cut + 1 + j - 1 = p
    BY <1>3, <2>1, <2>2, <2>3
  <2>5. want[i] = old[p]
    BY <1>13, <1>23, <2>2, <2>4
  <2>6. QED  BY <1>1, <2>4, <2>5 DEF Drawn
<1>28. QED  BY <1>3, <1>5, <1>6, <1>24, <1>25, <1>26, <1>27

\* new is of len cells at least and has what want has of values.
Reads(new, want, len) ==
  Len(new) >= len /\ \A i \in 1 .. len : want[i] \in Values => new[i] = want[i]

\* A record that is spliced holds what it should.
LEMMA SliceRight ==
  ASSUME NEW B, NEW last, NEW W, NEW V, Stands(Storage, B, last, W, V), NEW loc \in Records,
         NEW x, NEW m, Asked(x, m), x.full <= V[loc], NEW t, NEW dst,
         Sliced(Storage, t, V, loc, dst, x),
         NEW new, new = Read(t, dst + BH, t.file[dst].next),
         NEW want, want = Wanted(Content(loc), x)
  PROVE  Reads(new, want, SliceLen(x))
<1>1. /\ loc \in DOMAIN V /\ V[loc] \in Nat /\ Content(loc) \in [1 .. V[loc] -> Cell]
      /\ Content(loc) = [i \in 1 .. V[loc] |-> file[loc + BH + i - 1]]
  BY ContentIs
<1>2. PICK D, z, H, U : /\ Stands(t, D, z, H, U) /\ dst \in DOMAIN U /\ SliceLen(x) <= U[dst]
                        /\ Splices(Storage.file, t.file, loc, dst, x, m)
  BY <1>1, SliceText
<1>3. PICK k \in Nat : k = U[dst]
  BY <1>2, RecordEnds
<1>4. Len(new) = k /\ \A i \in 1 .. k : new[i] = t.file[dst + BH + i - 1]
  BY <1>2, <1>3, RecordRead
<1>5. PICK len \in Int : len = SliceLen(x) /\ len <= k
  BY <1>2, <1>3, SliceLenInt
<1>6. PICK off \in Nat, cut \in Nat, full \in Nat : off = x.off /\ cut = x.cut /\ full = x.full
  BY DEF Asked
<1>7. m \in Nat /\ (cut > 0 => off + cut <= full)
  BY <1>6 DEF Asked
<1>8. PICK f : f = Storage.file
  OBVIOUS
<1>9. f = file
  BY <1>8 DEF Storage
<1>10. PICK g : g = t.file
  OBVIOUS
<1>11. /\ \A i \in Nat : 1 <= i /\ i <= off /\ i <= full => g[dst + BH + i - 1] = f[loc + BH + i - 1]
       /\ \A i \in 1 .. m : g[dst + BH + off + i - 1] = x.data[i]
       /\ \A i \in Nat : off + cut < i /\ i <= full
                         => g[dst + BH + (i - cut + m) - 1] = f[loc + BH + i - 1]
  BY <1>2, <1>6, <1>8, <1>10 DEF Splices
<1>12. full <= V[loc] /\ BH \in Nat /\ dst \in Nat
  <2>1. dst \in Nat
    BY <1>2, RecordEnds
  <2>2. QED  BY <1>6, <2>1, SizesAssumption
<1>13. ASSUME NEW i \in 1 .. len, want[i] \in Values
       PROVE  new[i] = want[i]
  <2>1. i \in 1 .. k /\ new[i] = g[dst + BH + i - 1] /\ i \in 1 .. SliceLen(x)
    BY <1>4, <1>5, <1>10
  <2>2. want[i] # Junk
    BY <1>13, ValuesAssumption
  <2>3. \/ i <= off /\ i <= full /\ want[i] = Content(loc)[i]
        \/ \E j \in 1 .. m : i = off + j /\ want[i] = x.data[j]
        \/ \E j \in Nat : off + cut < j /\ j <= full /\ i = j - cut + m /\ want[i] = Content(loc)[j]
    <3>1. Drawn(want, i, Content(loc), x, m)
      BY <1>1, <2>1, WantedIs
    <3>2. QED  BY <1>6, <2>2, <3>1 DEF Drawn
  <2>4. CASE i <= off /\ i <= full /\ want[i] = Content(loc)[i]
    <3>1. i \in Nat /\ 1 <= i /\ i \in 1 .. V[loc]
      BY <1>1, <1>12, <2>4
    <3>2. Content(loc)[i] = f[loc + BH + i - 1]
      BY <1>1, <1>9, <3>1
    <3>3. QED  BY <1>11, <2>1, <2>4, <3>1, <3>2
  <2>5. ASSUME NEW j \in 1 .. m, i = off + j, want[i] = x.data[j] PROVE new[i] = want[i]
    <3>1. dst + BH + i - 1 = dst + BH + off + j - 1
      BY <1>7, <1>12, <2>5
    <3>2. QED  BY <1>11, <2>1, <2>5, <3>1
  <2>6. ASSUME NEW j \in Nat, off + cut < j, j <= full, i = j - cut + m, want[i] = Content(loc)[j]
        PROVE  new[i] = want[i]
    <3>1. j \in 1 .. V[loc]
      BY <1>1, <1>12, <2>6
    <3>2. Content(loc)[j] = f[loc + BH + j - 1]
      BY <1>1, <1>9, <3>1
    <3>3. g[dst + BH + i - 1] = f[loc + BH + j - 1]
      BY <1>11, <2>6
    <3>4. QED  BY <2>1, <2>6, <3>2, <3>3
  <2>7. QED  BY <2>3, <2>4, <2>5, <2>6
<1>14. QED  BY <1>4, <1>5, <1>13 DEF Reads

\* sliceRec returns the record with the data in place of what is cut, wherever
\* it finds room for it and however the cells overlap that it moves.
THEOREM SliceSplicesText == Spec => []SliceSplices
<1>1. ASSUME InOrder(Storage), NEW loc \in Records, NEW x \in Slices(loc),
             NEW r, r = SliceRec(Storage, loc, x), Bounded(r.s),
             NEW new, new = Read(r.s, r.loc + BH, r.s.file[r.loc].next),
             NEW want, want = Wanted(Content(loc), x)
      PROVE  Reads(new, want, SliceLen(x))
  <2>1. PICK B, last, W, V : Stands(Storage, B, last, W, V)
    BY <1>1 DEF InOrder
  <2>2. loc \in DOMAIN V /\ BlockLen(Storage, loc) = V[loc]
    BY <2>1, RecordsAre
  <2>3. SliceLen(x) \in Nat /\ x.full <= V[loc]
    BY <2>2, SlicesAsked
  <2>4. PICK m : Asked(x, m)
    BY SlicesAsked
  <2>5. Sliced(Storage, r.s, V, loc, r.loc, x)
    BY <1>1, <2>1, <2>2, <2>3, <2>4, SliceRecIs
  <2>6. QED  BY <1>1, <2>1, <2>3, <2>4, <2>5, SliceRight
<1>2. IInv => SliceSplices
  <2>1. ASSUME IInv, NEW loc \in Records, NEW x \in Slices(loc), Bounded(SliceRec(Storage, loc, x).s)
        PROVE  LET r == SliceRec(Storage, loc, x)
               IN  Reads(Read(r.s, r.loc + BH, r.s.file[r.loc].next), Wanted(Content(loc), x), SliceLen(x))
    <3>1. InOrder(Storage)
      BY <2>1 DEF IInv
    <3>2. PICK r : r = SliceRec(Storage, loc, x)
      OBVIOUS
    <3>3. PICK new : new = Read(r.s, r.loc + BH, r.s.file[r.loc].next)
      OBVIOUS
    <3>4. PICK want : want = Wanted(Content(loc), x)
      OBVIOUS
    <3>5. Reads(new, want, SliceLen(x))
      BY <1>1, <2>1, <3>1, <3>2, <3>3, <3>4
    <3>6. QED  BY <3>2, <3>3, <3>4, <3>5
  <2>2. QED  BY <2>1 DEF SliceSplices, Reads, Wanted
<1>3. QED  BY <1>2, Invariant, PTL

-----------------------------------------------------------------------------
(* The records as a map.                                                   *)

\* The contents of the records of V in f.
Text(f, V) == [l \in DOMAIN V |-> [i \in 1 .. V[l] |-> f[l + BH + i - 1]]]

\* A record as it is in the map.
LEMMA TextIs ==
  ASSUME NEW s, NEW B, NEW last, NEW W, NEW V, Stands(s, B, last, W, V)
  PROVE  /\ DOMAIN Text(s.file, V) = DOMAIN V
         /\ \A l \in DOMAIN V :
              /\ Text(s.file, V)[l] \in [1 .. V[l] -> Cell] /\ Len(Text(s.file, V)[l]) = V[l]
              /\ \A i \in 1 .. V[l] : /\ Text(s.file, V)[l][i] = s.file[l + BH + i - 1]
                                      /\ l + BH + i - 1 \in DataAt(l, V[l])
<1>1. ASSUME NEW l \in DOMAIN V
      PROVE  /\ Text(s.file, V)[l] \in [1 .. V[l] -> Cell] /\ Len(Text(s.file, V)[l]) = V[l]
             /\ \A i \in 1 .. V[l] : /\ Text(s.file, V)[l][i] = s.file[l + BH + i - 1]
                                     /\ l + BH + i - 1 \in DataAt(l, V[l])
  <2>1. s \in State /\ Row(s.file, B, last) /\ Sized(s.file, B, W, V) /\ l \in Nat /\ V[l] \in Nat
    BY RecordEnds
  <2>2. PICK k \in Nat : k = V[l]
    BY <2>1
  <2>3. Text(s.file, V)[l] = [i \in 1 .. k |-> s.file[l + BH + i - 1]]
    BY <2>2 DEF Text
  <2>4. ASSUME NEW i \in 1 .. k
        PROVE  l + BH + i - 1 \in DataAt(l, V[l]) /\ s.file[l + BH + i - 1] \in Cell
    <3>1. PICK c : c = l + BH + i - 1
      OBVIOUS
    <3>2. c \in DataAt(l, V[l])
      BY <2>1, <2>2, <3>1, SizesAssumption DEF DataAt
    <3>3. c \in Off
      BY <2>1, <3>2, RecordOff
    <3>4. QED  BY <2>1, <3>1, <3>2, <3>3 DEF State
  <2>5. PICK cells : cells = Text(s.file, V)[l]
    OBVIOUS
  <2>6. cells \in [1 .. k -> Cell]
    BY <2>3, <2>4, <2>5
  <2>7. Len(cells) = k
    BY <2>6
  <2>8. QED  BY <2>2, <2>3, <2>4, <2>5, <2>6, <2>7
<1>2. QED  BY <1>1 DEF Text

\* The records that the headers of the file show.
RecsOf(f) == [l \in {k \in BlocksIn(f) : ~f[k].free} |->
                [i \in 1 .. DataLen(f[l], l) |-> f[l + BH + i - 1]]]

\* They are those of V.
LEMMA RecsAre ==
  ASSUME NEW s, NEW B, NEW last, NEW W, NEW V, Stands(s, B, last, W, V)
  PROVE  RecsOf(s.file) = Text(s.file, V)
<1>1. InRow(s, B, last, W, V) /\ Row(s.file, B, last) /\ Sized(s.file, B, W, V)
  BY DEF Stands, InRow
<1>2. PICK S : S = {k \in BlocksIn(s.file) : ~s.file[k].free}
  OBVIOUS
<1>3. S = DOMAIN V
  <2>1. BlocksIn(s.file) = B
    BY <1>1, BlocksAre
  <2>2. ASSUME NEW k PROVE k \in S <=> k \in DOMAIN V
    <3>1. k \in S <=> k \in B /\ ~s.file[k].free
      BY <1>2, <2>1
    <3>2. k \in B /\ ~s.file[k].free => k \in DOMAIN V
      BY <1>1, UsedSize
    <3>3. k \in DOMAIN V => k \in B /\ ~s.file[k].free
      BY <1>1, SizedIs
    <3>4. QED  BY <3>1, <3>2, <3>3
  <2>3. QED  BY <2>2
<1>4. ASSUME NEW l \in DOMAIN V PROVE DataLen(s.file[l], l) = V[l]
  <2>1. l \in B /\ ~s.file[l].free
    BY <1>1, SizedIs
  <2>2. QED  BY <1>1, <2>1, LenIs
<1>5. \A l \in S : [i \in 1 .. DataLen(s.file[l], l) |-> s.file[l + BH + i - 1]]
                   = [i \in 1 .. V[l] |-> s.file[l + BH + i - 1]]
  BY <1>3, <1>4
<1>6. RecsOf(s.file) = [l \in S |-> [i \in 1 .. DataLen(s.file[l], l) |-> s.file[l + BH + i - 1]]]
  BY <1>2 DEF RecsOf
<1>7. QED  BY <1>3, <1>5, <1>6 DEF Text

\* So are those of the storage, before a step and after it.
LEMMA ContentsAre == Contents = RecsOf(file) /\ Contents' = RecsOf(file')
  BY DEF Contents, Records, Blocks, Content, RecsOf

-----------------------------------------------------------------------------
(* What is forgotten.                                                      *)

\* The cell a of a record is b after a step: it is forgotten unless it was
\* written, where the model forgets cells.
Recall(a, b) ==
  /\ Residue \/ a \in Values \cup {Junk} => b = a
  /\ Residue \/ b \in Values \cup {Junk}

\* The cells of the records of U are so.
Recalled(f, g, U) == \A y \in DOMAIN U : \A c \in DataAt(y, U[y]) : Recall(f[c], g[c])

\* No record has a cell that would be forgotten.
Clean(f, V) == \A y \in DOMAIN V : \A c \in DataAt(y, V[y]) : Residue \/ f[c] \in Values \cup {Junk}

\* The cells of a record that are forgotten.
LEMMA ForgetText ==
  ASSUME NEW s, NEW B, NEW last, NEW W, NEW V, Stands(s, B, last, W, V), NEW y \in DOMAIN V,
         NEW c \in DataAt(y, V[y])
  PROVE  /\ s.file[c] \in Values => Forget(s)[c] = s.file[c]
         /\ s.file[c] \notin Values => Forget(s)[c] = Junk
<1>1. InRow(s, B, last, W, V) /\ Row(s.file, B, last) /\ Sized(s.file, B, W, V)
      /\ s.hdr.last_off = last /\ BlocksIn(s.file) = B
  BY BlocksAre DEF Stands, InRow
<1>2. /\ c \in Off /\ c \in Int /\ y \in B /\ y + BH <= c /\ c < s.file[y].next
      /\ c \notin Posts(W) /\ \A z \in B \cup {last} : c \notin HdrAt(z)
  BY <1>1, RecordOff
<1>3. c \notin B \cup {last}
  <2>1. ASSUME c \in B \cup {last} PROVE FALSE
    <3>1. c \in Nat
      BY <1>1, <2>1, RowNat
    <3>2. c \in HdrAt(c)
      BY <3>1, SizesAssumption DEF HdrAt
    <3>3. QED  BY <1>2, <2>1, <3>2
  <2>2. QED  BY <2>1
<1>4. ASSUME NEW l \in B, s.file[l].free, CalcBand(BlockLen(s, l)) # NoBand
      PROVE  c # l + BH
  <2>1. l \in DOMAIN W /\ BlockLen(s, l) = W[l]
    <3>1. l \in DOMAIN W
      BY <1>1, <1>4 DEF Sized
    <3>2. QED  BY <1>1, <1>4, <3>1, LenIs
  <2>2. W[l] \in Nat
    BY <1>1, <2>1 DEF Sized, Lengths
  <2>3. CalcBand(W[l]) \in Band
    BY <1>4, <2>1, <2>2, BandOf
  <2>4. l \in Listed(W)
    BY <2>1, <2>3 DEF Listed
  <2>5. Apart(W)
    BY <1>1, RowApart
  <2>6. l + BH \in Posts(W)
    BY <2>4, <2>5, ApartIs
  <2>7. QED  BY <1>2, <2>6
<1>5. c \notin LiveCells(s)
  <2>1. PICK S : S = {l + BH : l \in {k \in B : s.file[k].free /\ CalcBand(BlockLen(s, k)) # NoBand}}
    OBVIOUS
  <2>2. c \notin S
    BY <1>4, <2>1
  <2>3. LiveCells(s) = B \cup {last} \cup S
    BY <1>1, <2>1 DEF LiveCells
  <2>4. QED  BY <1>3, <2>2, <2>3
<1>6. c \in UNION {l + BH .. s.file[l].next - 1 : l \in {b \in BlocksIn(s.file) : ~s.file[b].free}}
  <2>1. y \in {b \in BlocksIn(s.file) : ~s.file[b].free}
    BY <1>1, <1>2, SizedIs
  <2>2. c \in y + BH .. s.file[y].next - 1
    <3>1. s.file[y].next = y + BH + V[y] /\ y \in Nat /\ V[y] \in Nat
      BY RecordEnds
    <3>2. QED  BY <1>2, <3>1, SizesAssumption
  <2>3. QED  BY <2>1, <2>2
<1>7. QED  BY <1>2, <1>5, <1>6 DEF Forget

\* What the storage becomes has the records of t, but for what is forgotten.
LEMMA BecomeText ==
  ASSUME NEW t, NEW D, NEW z, NEW H, NEW U, Stands(t, D, z, H, U), Become(t)
  PROVE  /\ Stands(Storage', D, z, H, U) /\ Recalled(t.file, file', U) /\ Clean(file', U)
         /\ Contents' = Text(file', U)
<1>1. Stands(Storage', D, z, H, U)
  BY BecomeStands
<1>2. Storage'.file = file'
  BY DEF Storage
<1>3. Contents' = Text(file', U)
  BY <1>1, <1>2, RecsAre, ContentsAre
<1>4. ASSUME NEW y \in DOMAIN U, NEW c \in DataAt(y, U[y]) PROVE Recall(t.file[c], file'[c])
  <2>1. CASE Residue
    BY <2>1 DEF Become, Recall
  <2>2. CASE ~Residue
    <3>1. file' = Forget(t)
      BY <2>2 DEF Become
    <3>2. PICK f : f = Forget(t)
      OBVIOUS
    <3>3. /\ t.file[c] \in Values => f[c] = t.file[c]
          /\ t.file[c] \notin Values => f[c] = Junk
      BY <3>2, ForgetText
    <3>4. QED  BY <2>2, <3>1, <3>2, <3>3 DEF Recall
  <2>3. QED  BY <2>1, <2>2
<1>5. Recalled(t.file, file', U)
  BY <1>4 DEF Recalled
<1>6. Clean(file', U)
  BY <1>5 DEF Recalled, Recall, Clean
<1>7. QED  BY <1>1, <1>3, <1>5, <1>6

-----------------------------------------------------------------------------
(* Steps of the map, from R to S.                                          *)

\* Every record but x stays as it is, and x is now loc.
Moves(R, S, x, loc) ==
  /\ x \in DOMAIN R /\ (loc = x \/ loc \notin DOMAIN R)
  /\ DOMAIN S = (DOMAIN R \ {x}) \cup {loc}
  /\ \A l \in DOMAIN R \ {x} : S[l] = R[l]

\* There is a new record.
Creates(R, S, loc) ==
  /\ loc \notin DOMAIN R /\ DOMAIN S = DOMAIN R \cup {loc}
  /\ \A l \in DOMAIN R : S[l] = R[l]

\* Record x is gone.
Deletes(R, S, x) == x \in DOMAIN R /\ S = [l \in DOMAIN R \ {x} |-> R[l]]

\* What was written in x is in loc, as far as there is room.
Resizes(R, S, x, loc) ==
  /\ Len(R[x]) \in Nat /\ Len(S[loc]) \in Nat
  /\ \A i \in Nat : 1 <= i /\ i <= Len(R[x]) /\ i <= Len(S[loc]) /\ R[x][i] \in Values
                    => S[loc][i] = R[x][i]

\* n cells at off are written, the others stay.
Overwrites(R, S, x, off, n) ==
  /\ Len(R[x]) \in Nat /\ off + n <= Len(R[x]) /\ Len(S[x]) = Len(R[x])
  /\ \A i \in 1 .. Len(R[x]) : /\ off < i /\ i <= off + n => S[x][i] \in Values
                               /\ i <= off \/ off + n < i => S[x][i] = R[x][i]

\* n cells at off replace cut ones of the first `full` cells.
Grafts(R, S, x, loc, off, cut, full, n) ==
  /\ full <= Len(R[x]) /\ off + n <= Len(S[loc]) /\ full + n <= Len(S[loc]) + cut
  /\ \A i \in Nat : 1 <= i /\ i <= off /\ i <= full /\ R[x][i] \in Values => S[loc][i] = R[x][i]
  /\ \A i \in Nat : off < i /\ i <= off + n => S[loc][i] \in Values
  /\ \A i \in Nat : off + cut < i /\ i <= full /\ R[x][i] \in Values
                    => S[loc][i - cut + n] = R[x][i]

\* A record whose cells stay is the same in both maps.
LEMMA SameText ==
  ASSUME NEW f, NEW h, NEW g, NEW V, NEW U, NEW l \in DOMAIN V, l \in DOMAIN U, U[l] = V[l],
         l \in Nat, V[l] \in Nat, Clean(f, V), Recalled(h, g, U), Agree(f, h, DataAt(l, V[l]))
  PROVE  Text(g, U)[l] = Text(f, V)[l]
<1>1. PICK k \in Nat : k = V[l]
  OBVIOUS
<1>2. ASSUME NEW i \in 1 .. k PROVE g[l + BH + i - 1] = f[l + BH + i - 1]
  <2>1. PICK c : c = l + BH + i - 1
    OBVIOUS
  <2>2. c \in DataAt(l, V[l]) /\ c \in DataAt(l, U[l])
    BY <1>1, <2>1, SizesAssumption DEF DataAt
  <2>3. Residue \/ f[c] \in Values \cup {Junk}
    BY <2>2 DEF Clean
  <2>4. h[c] = f[c]
    BY <2>2 DEF Agree
  <2>5. Recall(h[c], g[c])
    BY <2>2 DEF Recalled
  <2>6. g[c] = f[c]
    BY <2>3, <2>4, <2>5 DEF Recall
  <2>7. QED  BY <2>1, <2>6
<1>3. Text(f, V)[l] = [i \in 1 .. k |-> f[l + BH + i - 1]]
  BY <1>1 DEF Text
<1>4. Text(g, U)[l] = [i \in 1 .. k |-> g[l + BH + i - 1]]
  BY <1>1 DEF Text
<1>5. QED  BY <1>2, <1>3, <1>4

\* What is in the cells of t, and was written, is in the map.
LEMMA CellText ==
  ASSUME NEW t, NEW D, NEW z, NEW H, NEW U, Stands(t, D, z, H, U), NEW u, Stands(u, D, z, H, U),
         Recalled(t.file, u.file, U), NEW l \in DOMAIN U, NEW i \in Nat, 1 <= i, i <= U[l]
  PROVE  Recall(t.file[l + BH + i - 1], Text(u.file, U)[l][i])
<1>1. U[l] \in Nat
  BY RecordEnds
<1>2. i \in 1 .. U[l]
  BY <1>1
<1>3. PICK c : c = l + BH + i - 1
  OBVIOUS
<1>4. Text(u.file, U)[l][i] = u.file[c] /\ c \in DataAt(l, U[l])
  BY <1>2, <1>3, TextIs
<1>5. Recall(t.file[c], u.file[c])
  BY <1>4 DEF Recalled
<1>6. QED  BY <1>3, <1>4, <1>5

\* The other records of one that moves.
LEMMA MovesText ==
  ASSUME NEW s, NEW B, NEW last, NEW W, NEW V, Stands(s, B, last, W, V), Clean(s.file, V),
         NEW x \in DOMAIN V, NEW t, NEW U, NEW loc, Carried(s, t, V, U, x, loc),
         NEW g, Recalled(t.file, g, U)
  PROVE  Moves(Text(s.file, V), Text(g, U), x, loc)
<1>1. DOMAIN Text(s.file, V) = DOMAIN V /\ DOMAIN Text(g, U) = DOMAIN U
  BY DEF Text
<1>2. loc = x \/ loc \notin DOMAIN V
  BY DEF Carried
<1>3. DOMAIN U = (DOMAIN V \ {x}) \cup {loc}
  <2>1. \A y : y \in DOMAIN U <=> (y \in DOMAIN V /\ y # x) \/ y = loc
    BY DEF Carried
  <2>2. QED  BY <2>1
<1>4. ASSUME NEW l \in DOMAIN V, l # x PROVE Text(g, U)[l] = Text(s.file, V)[l]
  <2>1. l \in Nat /\ V[l] \in Nat
    BY RecordEnds
  <2>2. U[l] = V[l] /\ Agree(s.file, t.file, DataAt(l, V[l]))
    BY <1>4 DEF Carried, Agree
  <2>3. l \in DOMAIN U
    BY <1>3, <1>4
  <2>4. PICK f : f = s.file
    OBVIOUS
  <2>5. PICK h : h = t.file
    OBVIOUS
  <2>6. Clean(f, V) /\ Recalled(h, g, U) /\ Agree(f, h, DataAt(l, V[l]))
    BY <2>2, <2>4, <2>5
  <2>7. Text(g, U)[l] = Text(f, V)[l]
    BY <2>1, <2>2, <2>3, <2>6, SameText
  <2>8. QED  BY <2>4, <2>7
<1>5. QED  BY <1>1, <1>2, <1>3, <1>4 DEF Moves

\* A new record.
LEMMA CreatesText ==
  ASSUME NEW s, NEW B, NEW last, NEW W, NEW V, Stands(s, B, last, W, V), Clean(s.file, V),
         NEW loc, loc \notin DOMAIN V, NEW k \in Nat, NEW t, Held(s, t, V),
         NEW g, Recalled(t.file, g, With(V, loc, k))
  PROVE  Creates(Text(s.file, V), Text(g, With(V, loc, k)), loc)
<1>1. PICK U : U = With(V, loc, k)
  OBVIOUS
<1>2. DOMAIN U = DOMAIN V \cup {loc} /\ \A l \in DOMAIN V : U[l] = V[l]
  BY <1>1 DEF With
<1>3. DOMAIN Text(s.file, V) = DOMAIN V /\ DOMAIN Text(g, U) = DOMAIN U
  BY DEF Text
<1>4. ASSUME NEW l \in DOMAIN V PROVE Text(g, U)[l] = Text(s.file, V)[l]
  <2>1. l \in Nat /\ V[l] \in Nat
    BY RecordEnds
  <2>2. l \in DOMAIN U /\ U[l] = V[l]
    BY <1>2
  <2>3. PICK f : f = s.file
    OBVIOUS
  <2>4. PICK h : h = t.file
    OBVIOUS
  <2>5. Clean(f, V) /\ Recalled(h, g, U) /\ Agree(f, h, DataAt(l, V[l]))
    BY <1>1, <2>3, <2>4 DEF Held, Agree
  <2>6. Text(g, U)[l] = Text(f, V)[l]
    BY <2>1, <2>2, <2>5, SameText
  <2>7. QED  BY <2>3, <2>6
<1>5. Creates(Text(s.file, V), Text(g, U), loc)
  BY <1>2, <1>3, <1>4 DEF Creates
<1>6. QED  BY <1>1, <1>5

\* A record that is freed.
LEMMA DeletesText ==
  ASSUME NEW s, NEW B, NEW last, NEW W, NEW V, Stands(s, B, last, W, V), Clean(s.file, V),
         NEW x \in DOMAIN V, NEW t, Held(s, t, Without(V, x)),
         NEW g, Recalled(t.file, g, Without(V, x))
  PROVE  Deletes(Text(s.file, V), Text(g, Without(V, x)), x)
<1>1. PICK U : U = Without(V, x)
  OBVIOUS
<1>2. DOMAIN U = DOMAIN V \ {x} /\ \A l \in DOMAIN U : U[l] = V[l]
  BY <1>1 DEF Without
<1>3. DOMAIN Text(s.file, V) = DOMAIN V
  BY DEF Text
<1>4. ASSUME NEW l \in DOMAIN U PROVE Text(g, U)[l] = Text(s.file, V)[l]
  <2>1. l \in DOMAIN V
    BY <1>2
  <2>2. l \in Nat /\ V[l] \in Nat
    BY <2>1, RecordEnds
  <2>3. PICK f : f = s.file
    OBVIOUS
  <2>4. PICK h : h = t.file
    OBVIOUS
  <2>5. Agree(f, h, DataAt(l, V[l]))
    <3>1. \A c \in DataAt(l, U[l]) : h[c] = f[c]
      BY <1>1, <2>3, <2>4 DEF Held
    <3>2. QED  BY <1>2, <3>1 DEF Agree
  <2>6. Clean(f, V) /\ Recalled(h, g, U) /\ U[l] = V[l]
    BY <1>1, <1>2, <2>3, <2>4
  <2>7. Text(g, U)[l] = Text(f, V)[l]
    BY <2>1, <2>2, <2>5, <2>6, SameText
  <2>8. QED  BY <2>3, <2>7
<1>5. Text(g, U) = [l \in DOMAIN U |-> Text(g, U)[l]]
  BY DEF Text
<1>6. Text(g, U) = [l \in DOMAIN U |-> Text(s.file, V)[l]]
  BY <1>4, <1>5
<1>7. QED  BY <1>1, <1>2, <1>3, <1>6 DEF Deletes

\* A record that is resized.
LEMMA ResizesText ==
  ASSUME NEW s, NEW B, NEW last, NEW W, NEW V, Stands(s, B, last, W, V), NEW x \in DOMAIN V,
         NEW t, NEW D, NEW z, NEW H, NEW U, Stands(t, D, z, H, U), NEW loc \in DOMAIN U,
         Contained(s, t, V, U, x, loc), NEW u, Stands(u, D, z, H, U), Recalled(t.file, u.file, U)
  PROVE  Resizes(Text(s.file, V), Text(u.file, U), x, loc)
<1>1. PICK R, S : R = Text(s.file, V) /\ S = Text(u.file, U)
  OBVIOUS
<1>2. V[x] \in Nat /\ Len(R[x]) = V[x] /\ \A i \in 1 .. V[x] : R[x][i] = s.file[x + BH + i - 1]
  BY <1>1, TextIs, RecordEnds
<1>3. U[loc] \in Nat /\ Len(S[loc]) = U[loc]
  BY <1>1, TextIs, RecordEnds
<1>4. ASSUME NEW i \in Nat, 1 <= i, i <= V[x], i <= U[loc], R[x][i] \in Values
      PROVE  S[loc][i] = R[x][i]
  <2>1. R[x][i] = s.file[x + BH + i - 1]
    BY <1>2, <1>4
  <2>2. t.file[loc + BH + i - 1] = s.file[x + BH + i - 1]
    BY <1>4 DEF Contained
  <2>3. Recall(t.file[loc + BH + i - 1], S[loc][i])
    BY <1>1, <1>4, CellText
  <2>4. QED  BY <1>4, <2>1, <2>2, <2>3 DEF Recall
<1>5. Resizes(R, S, x, loc)
  BY <1>2, <1>3, <1>4 DEF Resizes
<1>6. QED  BY <1>1, <1>5

\* A record that is spliced.
LEMMA GraftsText ==
  ASSUME NEW s, NEW B, NEW last, NEW W, NEW V, Stands(s, B, last, W, V), NEW x \in DOMAIN V,
         NEW t, NEW D, NEW z, NEW H, NEW U, Stands(t, D, z, H, U), NEW loc \in DOMAIN U,
         NEW q, NEW m, Asked(q, m), q.full <= V[x], SliceLen(q) <= U[loc],
         Splices(s.file, t.file, x, loc, q, m),
         NEW u, Stands(u, D, z, H, U), Recalled(t.file, u.file, U)
  PROVE  Grafts(Text(s.file, V), Text(u.file, U), x, loc, q.off, q.cut, q.full, m)
<1>1. PICK R, S : R = Text(s.file, V) /\ S = Text(u.file, U)
  OBVIOUS
<1>2. PICK k \in Nat : k = V[x]
  BY RecordEnds
<1>3. PICK n \in Nat : n = U[loc]
  BY RecordEnds
<1>4. Len(R[x]) = k /\ \A i \in 1 .. k : R[x][i] = s.file[x + BH + i - 1]
  BY <1>1, <1>2, TextIs
<1>5. Len(S[loc]) = n
  BY <1>1, <1>3, TextIs
<1>6. PICK off \in Nat, cut \in Nat, full \in Nat : off = q.off /\ cut = q.cut /\ full = q.full
  BY DEF Asked
<1>7. PICK cells \in [1 .. m -> Values] : cells = q.data
  BY DEF Asked
<1>8. m \in Nat /\ Len(cells) = m /\ (cut > 0 => off + cut <= full)
  <2>1. m \in Nat /\ (cut > 0 => off + cut <= full)
    BY <1>6 DEF Asked
  <2>2. QED  BY <2>1
<1>9. (off > full => off + m <= n) /\ (off <= full => full + m - cut <= n)
  BY <1>3, <1>6, <1>7, <1>8 DEF SliceLen
<1>10. full <= k /\ off + m <= n /\ full + m <= n + cut
  <2>1. full <= k
    BY <1>2, <1>6
  <2>2. CASE off > full
    BY <1>8, <1>9, <2>1, <2>2
  <2>3. CASE off <= full
    BY <1>8, <1>9, <2>1, <2>3
  <2>4. QED  BY <2>2, <2>3
<1>11. ASSUME NEW i \in Nat, 1 <= i, i <= n
       PROVE  Recall(t.file[loc + BH + i - 1], S[loc][i])
  BY <1>1, <1>3, <1>11, CellText
<1>12. ASSUME NEW i \in Nat, 1 <= i, i <= off, i <= full, R[x][i] \in Values
       PROVE  S[loc][i] = R[x][i]
  <2>1. t.file[loc + BH + i - 1] = s.file[x + BH + i - 1]
    BY <1>6, <1>12 DEF Splices
  <2>2. i <= n /\ i \in 1 .. k
    BY <1>8, <1>10, <1>12
  <2>3. Recall(t.file[loc + BH + i - 1], S[loc][i])
    BY <1>11, <1>12, <2>2
  <2>4. QED  BY <1>4, <1>12, <2>1, <2>2, <2>3 DEF Recall
<1>13. ASSUME NEW i \in Nat, off < i, i <= off + m
       PROVE  S[loc][i] \in Values
  <2>1. PICK j \in 1 .. m : j = i - off
    BY <1>8, <1>13
  <2>2. t.file[loc + BH + off + j - 1] = q.data[j]
    BY <1>6 DEF Splices
  <2>3. loc \in Nat
    BY RecordEnds
  <2>4. loc + BH + off + j - 1 = loc + BH + i - 1
    BY <2>1, <2>3, SizesAssumption
  <2>5. t.file[loc + BH + i - 1] \in Values
    BY <1>7, <2>2, <2>4
  <2>6. 1 <= i /\ i <= n
    BY <1>8, <1>10, <1>13
  <2>7. Recall(t.file[loc + BH + i - 1], S[loc][i])
    BY <1>11, <2>6
  <2>8. QED  BY <2>5, <2>7 DEF Recall
<1>14. ASSUME NEW i \in Nat, off + cut < i, i <= full, R[x][i] \in Values
       PROVE  S[loc][i - cut + m] = R[x][i]
  <2>1. t.file[loc + BH + (i - cut + m) - 1] = s.file[x + BH + i - 1]
    BY <1>6, <1>14 DEF Splices
  <2>2. PICK j \in Nat : j = i - cut + m
    BY <1>8, <1>14
  <2>3. 1 <= j /\ j <= n /\ i \in 1 .. k
    BY <1>8, <1>10, <1>14, <2>2
  <2>4. Recall(t.file[loc + BH + j - 1], S[loc][j])
    BY <1>11, <2>3
  <2>5. R[x][i] = s.file[x + BH + i - 1]
    BY <1>4, <2>3
  <2>6. S[loc][j] = R[x][i]
    BY <1>14, <2>1, <2>2, <2>4, <2>5 DEF Recall
  <2>7. QED  BY <2>2, <2>6
<1>15. Grafts(R, S, x, loc, off, cut, full, m)
  BY <1>4, <1>5, <1>10, <1>12, <1>13, <1>14 DEF Grafts
<1>16. QED  BY <1>1, <1>6, <1>15

\* A record that is written.
LEMMA OverwritesText ==
  ASSUME NEW s, NEW B, NEW last, NEW W, NEW V, Stands(s, B, last, W, V), Clean(s.file, V),
         NEW x \in DOMAIN V, NEW off \in Nat, NEW n \in Nat, off + n <= V[x], NEW v \in Values,
         NEW t, t = Write(s, x + BH + off, Fill(n, v))
  PROVE  /\ Stands(t, B, last, W, V)
         /\ \A u : Stands(u, B, last, W, V) /\ Recalled(t.file, u.file, V)
                   => /\ Moves(Text(s.file, V), Text(u.file, V), x, x)
                      /\ Overwrites(Text(s.file, V), Text(u.file, V), x, off, n)
<1>1. s \in State /\ x \in Nat /\ Lengths(V)
  BY RecordEnds
<1>2. PICK k \in Nat : k = V[x]
  BY RecordEnds
<1>3. PICK at \in Int : at = x + BH + off
  BY <1>1, SizesAssumption
<1>4. v \in Cell /\ n \in Int /\ t = Write(s, at, Fill(n, v))
  BY <1>3 DEF Cell
<1>5. Inside(at, n, x, k)
  BY <1>1, <1>2, <1>3, SizesAssumption DEF Inside
<1>6. Filled(s, t, x, k)
  BY <1>1, <1>4, <1>5, FillIs
<1>7. Filled(s, t, x, V[x])
  BY <1>2, <1>6
<1>8. Stands(t, B, last, W, V) /\ Held(s, t, Without(V, x))
  BY <1>7, DataStands
<1>9. Carried(s, t, V, V, x, x)
  <2>1. ASSUME NEW y \in DOMAIN V, y # x PROVE \A c \in DataAt(y, V[y]) : t.file[c] = s.file[c]
    <3>1. y \in DOMAIN Without(V, x) /\ Without(V, x)[y] = V[y]
      BY <2>1 DEF Without
    <3>2. QED  BY <1>8, <3>1 DEF Held
  <2>2. QED  BY <2>1 DEF Carried
<1>10. WrittenTo(s.file, t.file, at, n, Fill(n, v))
  <2>1. PICK cells : cells = Fill(n, v)
    OBVIOUS
  <2>2. cells \in [1 .. n -> Cell]
    BY <1>4, <2>1 DEF Fill
  <2>3. WrittenTo(s.file, Write(s, at, cells).file, at, n, cells)
    BY <1>1, <2>2, DataIs
  <2>4. QED  BY <1>4, <2>1, <2>3
<1>11. ASSUME NEW u, Stands(u, B, last, W, V), Recalled(t.file, u.file, V)
       PROVE  /\ Moves(Text(s.file, V), Text(u.file, V), x, x)
              /\ Overwrites(Text(s.file, V), Text(u.file, V), x, off, n)
  <2>1. Moves(Text(s.file, V), Text(u.file, V), x, x)
    BY <1>9, <1>11, MovesText
  <2>2. PICK R, S : R = Text(s.file, V) /\ S = Text(u.file, V)
    OBVIOUS
  <2>3. Len(R[x]) = k /\ \A i \in 1 .. k : /\ R[x][i] = s.file[x + BH + i - 1]
                                           /\ x + BH + i - 1 \in DataAt(x, V[x])
    BY <1>2, <2>2, TextIs
  <2>4. Len(S[x]) = k
    BY <1>2, <1>11, <2>2, TextIs
  <2>5. ASSUME NEW i \in 1 .. k
        PROVE  /\ off < i /\ i <= off + n => S[x][i] \in Values
               /\ i <= off \/ off + n < i => S[x][i] = R[x][i]
    <3>1. PICK c : c = x + BH + i - 1
      OBVIOUS
    <3>2. c \in DataAt(x, V[x]) /\ R[x][i] = s.file[c]
      BY <2>3, <3>1
    <3>3. c \in Off /\ c \in Int
      <4>1. Row(s.file, B, last) /\ Sized(s.file, B, W, V)
        BY RecordEnds
      <4>2. QED  BY <3>2, <4>1, RecordOff
    <3>4. Recall(t.file[c], S[x][i])
      <4>1. i \in Nat /\ 1 <= i /\ i <= V[x]
        BY <1>2
      <4>2. Recall(t.file[x + BH + i - 1], Text(u.file, V)[x][i])
        BY <1>8, <1>11, <4>1, CellText
      <4>3. QED  BY <2>2, <3>1, <4>2
    <3>5. CASE off < i /\ i <= off + n
      <4>1. at <= c /\ c < at + n
        BY <1>1, <1>3, <3>1, <3>5, SizesAssumption
      <4>2. t.file[c] = Fill(n, v)[c - at + 1]
        BY <1>10, <3>3, <4>1 DEF WrittenTo
      <4>3. c - at + 1 \in 1 .. n
        BY <3>3, <4>1
      <4>4. t.file[c] = v
        BY <4>2, <4>3 DEF Fill
      <4>5. S[x][i] \in Values
        BY <3>4, <4>4 DEF Recall
      <4>6. QED  BY <3>5, <4>5
    <3>6. CASE i <= off \/ off + n < i
      <4>1. c < at \/ at + n <= c
        BY <1>1, <1>3, <3>1, <3>6, SizesAssumption
      <4>2. t.file[c] = s.file[c]
        BY <1>10, <3>3, <4>1 DEF WrittenTo
      <4>3. Residue \/ s.file[c] \in Values \cup {Junk}
        BY <3>2 DEF Clean
      <4>4. S[x][i] = R[x][i]
        BY <3>2, <3>4, <4>2, <4>3 DEF Recall
      <4>5. ~(off < i /\ i <= off + n)
        BY <3>6
      <4>6. QED  BY <4>4, <4>5
    <3>7. QED  BY <3>5, <3>6
  <2>6. off + n <= k
    BY <1>2
  <2>7. Overwrites(R, S, x, off, n)
    BY <2>3, <2>4, <2>5, <2>6 DEF Overwrites
  <2>8. QED  BY <2>1, <2>2, <2>7
<1>12. QED  BY <1>8, <1>11

-----------------------------------------------------------------------------
(* What the operations do to the records.                                  *)

\* The storage is in order, and no record has a cell that would be forgotten.
Clear == \E B, last, W, V : Stands(Storage, B, last, W, V) /\ Clean(file, V)

\* Its records are those of V.
LEMMA ClearText ==
  ASSUME NEW B, NEW last, NEW W, NEW V, Stands(Storage, B, last, W, V), Clean(file, V)
  PROVE  Contents = Text(Storage.file, V) /\ Clean(Storage.file, V)
<1>1. Storage.file = file
  BY DEF Storage
<1>2. QED  BY <1>1, RecsAre, ContentsAre

\* A storage that becomes t is clear again.
LEMMA BecomeClear ==
  ASSUME NEW t, NEW D, NEW z, NEW H, NEW U, Stands(t, D, z, H, U), Become(t)
  PROVE  /\ Clear' /\ Stands(Storage', D, z, H, U) /\ Recalled(t.file, Storage'.file, U)
         /\ Contents' = Text(Storage'.file, U)
<1>1. Storage'.file = file'
  BY DEF Storage
<1>2. /\ Stands(Storage', D, z, H, U) /\ Recalled(t.file, file', U) /\ Clean(file', U)
      /\ Contents' = Text(file', U)
  BY BecomeText
<1>3. Clear'
  BY <1>2 DEF Clear
<1>4. QED  BY <1>1, <1>2, <1>3

\* A storage that becomes t, with a new record.
LEMMA NewText ==
  ASSUME NEW B, NEW last, NEW W, NEW V, Stands(Storage, B, last, W, V), Clean(file, V),
         NEW loc, loc \notin DOMAIN V, NEW k \in Nat, NEW t, NEW C, NEW l, NEW G,
         Stands(t, C, l, G, With(V, loc, k)), Held(Storage, t, V), Become(t)
  PROVE  Clear' /\ loc \in Off /\ Creates(Contents, Contents', loc)
<1>1. Contents = Text(Storage.file, V) /\ Clean(Storage.file, V)
  BY ClearText
<1>2. PICK U : U = With(V, loc, k)
  OBVIOUS
<1>3. Stands(t, C, l, G, U)
  BY <1>2
<1>4. /\ Clear' /\ Recalled(t.file, Storage'.file, U)
      /\ Contents' = Text(Storage'.file, U)
  BY <1>3, BecomeClear
<1>5. PICK g : g = Storage'.file
  OBVIOUS
<1>6. Recalled(t.file, g, With(V, loc, k)) /\ Contents' = Text(g, With(V, loc, k))
  BY <1>2, <1>4, <1>5
<1>7. Creates(Text(Storage.file, V), Text(g, With(V, loc, k)), loc)
  BY <1>1, <1>6, CreatesText
<1>8. loc \in DOMAIN U
  BY <1>2 DEF With
<1>9. loc \in Off
  BY <1>3, <1>8, RecordEnds
<1>10. QED  BY <1>1, <1>4, <1>6, <1>7, <1>9

\* alloc, and a sliceRec that throws after it allocated.
LEMMA AllocText ==
  ASSUME Clear, NEW len \in Nat, Bounded(AllocRec(Storage, len).s), Become(AllocRec(Storage, len).s)
  PROVE  Clear' /\ \E loc \in Off : Creates(Contents, Contents', loc)
<1>1. PICK B, last, W, V : Stands(Storage, B, last, W, V) /\ Clean(file, V)
  BY DEF Clear
<1>2. Alloced(Storage, AllocRec(Storage, len).s, AllocRec(Storage, len).loc, V, len)
  BY <1>1, AllocOrder
<1>3. PICK t, loc : t = AllocRec(Storage, len).s /\ loc = AllocRec(Storage, len).loc
  OBVIOUS
<1>4. Alloced(Storage, t, loc, V, len) /\ Become(t)
  BY <1>2, <1>3
<1>5. PICK C, l, G : \E k \in Nat : /\ loc \notin DOMAIN V /\ Stands(t, C, l, G, With(V, loc, k))
                                    /\ Held(Storage, t, V)
  BY <1>4 DEF Alloced
<1>6. PICK k \in Nat : /\ loc \notin DOMAIN V /\ Stands(t, C, l, G, With(V, loc, k))
                       /\ Held(Storage, t, V)
  BY <1>5
<1>7. Clear' /\ loc \in Off /\ Creates(Contents, Contents', loc)
  BY <1>1, <1>4, <1>6, NewText
<1>8. QED  BY <1>7

\* add.
LEMMA AddText ==
  ASSUME Clear, NEW len \in Lens, NEW v \in Values, Add(len, v)
  PROVE  Clear' /\ \E loc \in Off : Creates(Contents, Contents', loc)
<1>1. PICK B, last, W, V : Stands(Storage, B, last, W, V) /\ Clean(file, V)
  BY DEF Clear
<1>2. PICK t, loc : t = AllocRec(Storage, len).s /\ loc = AllocRec(Storage, len).loc
  OBVIOUS
<1>3. Bounded(t) /\ Become(Write(t, loc + BH, Fill(len, v))) /\ len \in Nat
  BY <1>2, SizesAssumption DEF Add
<1>4. Alloced(Storage, AllocRec(Storage, len).s, AllocRec(Storage, len).loc, V, len)
  BY <1>1, <1>2, <1>3, AllocOrder
<1>5. Alloced(Storage, t, loc, V, len)
  BY <1>2, <1>4
<1>6. PICK C, l, G : \E k \in Nat : /\ len <= k /\ loc \notin DOMAIN V
                                    /\ Stands(t, C, l, G, With(V, loc, k)) /\ Held(Storage, t, V)
  BY <1>5 DEF Alloced
<1>7. PICK k \in Nat : /\ len <= k /\ loc \notin DOMAIN V
                       /\ Stands(t, C, l, G, With(V, loc, k)) /\ Held(Storage, t, V)
  BY <1>6
<1>8. PICK U : U = With(V, loc, k)
  OBVIOUS
<1>9. Stands(t, C, l, G, U) /\ loc \in DOMAIN U /\ U[loc] = k
  BY <1>7, <1>8 DEF With
<1>10. t \in State /\ loc \in Nat
  BY <1>9, RecordEnds
<1>11. PICK at \in Int : at = loc + BH
  BY <1>10, SizesAssumption
<1>12. PICK u : u = Write(t, at, Fill(len, v))
  OBVIOUS
<1>13. Filled(t, u, loc, U[loc])
  <2>1. Inside(at, len, loc, k)
    BY <1>3, <1>7, <1>10, <1>11, SizesAssumption DEF Inside
  <2>2. len \in Int /\ v \in Cell
    BY <1>3 DEF Cell
  <2>3. Filled(t, u, loc, k)
    BY <1>10, <1>12, <2>1, <2>2, FillIs
  <2>4. QED  BY <1>9, <2>3
<1>14. Stands(u, C, l, G, U) /\ Held(t, u, Without(U, loc))
  BY <1>9, <1>13, DataStands
<1>15. Held(Storage, u, V)
  <2>1. Lengths(V)
    BY <1>1, RecordsAre
  <2>2. Without(U, loc) = V
    BY <1>7, <1>8, <2>1, WithIs
  <2>3. Held(t, u, V)
    BY <1>14, <2>2
  <2>4. QED  BY <1>7, <2>3 DEF Held
<1>16. Become(u) /\ Stands(u, C, l, G, With(V, loc, k))
  BY <1>3, <1>8, <1>11, <1>12, <1>14
<1>17. Clear' /\ loc \in Off /\ Creates(Contents, Contents', loc)
  BY <1>1, <1>7, <1>15, <1>16, NewText
<1>18. QED  BY <1>17

\* writeRec.
LEMMA WriteText ==
  ASSUME Clear, NEW loc \in Records, NEW off \in Lens, NEW len \in Lens, NEW v \in Values,
         WriteRec(loc, off, len, v)
  PROVE  /\ Clear' /\ loc \in Off /\ Moves(Contents, Contents', loc, loc)
         /\ Overwrites(Contents, Contents', loc, off, len)
<1>1. PICK B, last, W, V : Stands(Storage, B, last, W, V) /\ Clean(file, V)
  BY DEF Clear
<1>2. loc \in DOMAIN V /\ BlockLen(Storage, loc) = V[loc] /\ off \in Nat /\ len \in Nat
  BY <1>1, RecordsAre, SizesAssumption
<1>3. loc \in Off
  BY <1>1, <1>2, RecordEnds
<1>4. PICK t : t = Write(Storage, loc + BH + off, Fill(len, v))
  OBVIOUS
<1>5. off + len <= V[loc] /\ Become(t)
  BY <1>2, <1>4 DEF WriteRec
<1>6. Contents = Text(Storage.file, V) /\ Clean(Storage.file, V)
  BY <1>1, ClearText
<1>7. /\ Stands(t, B, last, W, V)
      /\ \A u : Stands(u, B, last, W, V) /\ Recalled(t.file, u.file, V)
                => /\ Moves(Text(Storage.file, V), Text(u.file, V), loc, loc)
                   /\ Overwrites(Text(Storage.file, V), Text(u.file, V), loc, off, len)
  BY <1>1, <1>2, <1>4, <1>5, <1>6, OverwritesText
<1>8. /\ Clear' /\ Stands(Storage', B, last, W, V) /\ Recalled(t.file, Storage'.file, V)
      /\ Contents' = Text(Storage'.file, V)
  BY <1>5, <1>7, BecomeClear
<1>9. QED  BY <1>3, <1>6, <1>7, <1>8

\* freeRec.
LEMMA FreeText ==
  ASSUME Clear, NEW loc \in Records, Free(loc)
  PROVE  Clear' /\ loc \in Off /\ Deletes(Contents, Contents', loc)
<1>1. PICK B, last, W, V : Stands(Storage, B, last, W, V) /\ Clean(file, V)
  BY DEF Clear
<1>2. loc \in DOMAIN V
  BY <1>1, RecordsAre
<1>3. loc \in Off
  BY <1>1, <1>2, RecordEnds
<1>4. PICK t : t = FreeRec(Storage, loc)
  OBVIOUS
<1>5. Freed(Storage, t, V, loc)
  BY <1>1, <1>2, <1>4, FreeRecIs
<1>6. PICK C, l, G : Stands(t, C, l, G, Without(V, loc)) /\ Held(Storage, t, Without(V, loc))
  BY <1>5 DEF Freed
<1>7. Become(t)
  BY <1>4 DEF Free
<1>8. /\ Clear' /\ Recalled(t.file, Storage'.file, Without(V, loc))
      /\ Contents' = Text(Storage'.file, Without(V, loc))
  BY <1>6, <1>7, BecomeClear
<1>9. Contents = Text(Storage.file, V) /\ Clean(Storage.file, V)
  BY <1>1, ClearText
<1>10. Deletes(Text(Storage.file, V), Text(Storage'.file, Without(V, loc)), loc)
  BY <1>1, <1>2, <1>6, <1>8, <1>9, DeletesText
<1>11. QED  BY <1>3, <1>8, <1>9, <1>10

\* reallocRec.
LEMMA ResizeText ==
  ASSUME Clear, NEW x \in Records, NEW len \in Lens, Realloc(x, len)
  PROVE  /\ Clear' /\ x \in Off
         /\ \E loc \in Off : Moves(Contents, Contents', x, loc) /\ Resizes(Contents, Contents', x, loc)
<1>1. PICK B, last, W, V : Stands(Storage, B, last, W, V) /\ Clean(file, V)
  BY DEF Clear
<1>2. x \in DOMAIN V /\ len \in Nat
  BY <1>1, RecordsAre, SizesAssumption
<1>3. x \in Off
  BY <1>1, <1>2, RecordEnds
<1>4. Bounded(ReallocRec(Storage, x, len).s)
  BY DEF Realloc
<1>5. Reallocated(Storage, ReallocRec(Storage, x, len).s, V, x, ReallocRec(Storage, x, len).loc, len)
  BY <1>1, <1>2, <1>4, ReallocRecIs
<1>6. PICK t, loc : t = ReallocRec(Storage, x, len).s /\ loc = ReallocRec(Storage, x, len).loc
  OBVIOUS
<1>7. Reallocated(Storage, t, V, x, loc, len) /\ Become(t)
  BY <1>5, <1>6 DEF Realloc
<1>8. PICK D, z, H, U : /\ Stands(t, D, z, H, U) /\ loc \in DOMAIN U
                        /\ Carried(Storage, t, V, U, x, loc) /\ Contained(Storage, t, V, U, x, loc)
  BY <1>1, <1>2, <1>7, ReallocText
<1>9. /\ Clear' /\ Stands(Storage', D, z, H, U) /\ Recalled(t.file, Storage'.file, U)
      /\ Contents' = Text(Storage'.file, U)
  BY <1>7, <1>8, BecomeClear
<1>10. Contents = Text(Storage.file, V) /\ Clean(Storage.file, V)
  BY <1>1, ClearText
<1>11. Moves(Text(Storage.file, V), Text(Storage'.file, U), x, loc)
  BY <1>1, <1>2, <1>8, <1>9, <1>10, MovesText
<1>12. Resizes(Text(Storage.file, V), Text(Storage'.file, U), x, loc)
  BY <1>1, <1>2, <1>8, <1>9, ResizesText
<1>13. loc \in Off
  BY <1>8, RecordEnds
<1>14. QED  BY <1>3, <1>9, <1>10, <1>11, <1>12, <1>13

\* sliceRec.
LEMMA GraftText ==
  ASSUME Clear, NEW x \in Records, NEW q \in Slices(x), Slice(x, q)
  PROVE  /\ Clear' /\ x \in Off
         /\ \E loc \in Off, off, cut, full \in Lens, n \in Lens \cup {0} :
              /\ Moves(Contents, Contents', x, loc)
              /\ Grafts(Contents, Contents', x, loc, off, cut, full, n)
<1>1. PICK B, last, W, V : Stands(Storage, B, last, W, V) /\ Clean(file, V)
  BY DEF Clear
<1>2. x \in DOMAIN V /\ BlockLen(Storage, x) = V[x]
  BY <1>1, RecordsAre
<1>3. x \in Off
  BY <1>1, <1>2, RecordEnds
<1>4. SliceLen(q) \in Nat /\ q.full <= V[x]
  BY <1>2, SlicesAsked
<1>5. PICK m : Asked(q, m)
  BY SlicesAsked
<1>6. m \in Lens \cup {0} /\ q.off \in Lens /\ q.cut \in Lens /\ q.full \in Lens
  <2>1. q \in [off : Lens, cut : Lens, full : Lens, data : Patches]
    BY DEF Slices
  <2>2. m \in Nat /\ q.data \in [1 .. m -> Values]
    BY <1>5 DEF Asked
  <2>3. Len(q.data) = m
    BY <2>2
  <2>4. CASE q.data = << >>
    BY <2>1, <2>3, <2>4
  <2>5. ASSUME NEW n \in Lens, NEW v \in Values, q.data = Fill(n, v)
        PROVE  m \in Lens
    <3>1. n \in Nat
      BY SizesAssumption
    <3>2. Len(q.data) = n
      BY <2>5, <3>1 DEF Fill
    <3>3. QED  BY <2>3, <3>2
  <2>6. QED  BY <2>1, <2>4, <2>5 DEF Patches
<1>7. Bounded(SliceRec(Storage, x, q).s)
  BY DEF Slice
<1>8. Sliced(Storage, SliceRec(Storage, x, q).s, V, x, SliceRec(Storage, x, q).loc, q)
  BY <1>1, <1>2, <1>4, <1>5, <1>7, SliceRecIs
<1>9. PICK t, loc : t = SliceRec(Storage, x, q).s /\ loc = SliceRec(Storage, x, q).loc
  OBVIOUS
<1>10. Sliced(Storage, t, V, x, loc, q) /\ Become(t)
  BY <1>8, <1>9 DEF Slice
<1>11. PICK D, z, H, U : /\ Stands(t, D, z, H, U) /\ loc \in DOMAIN U /\ SliceLen(q) <= U[loc]
                         /\ Carried(Storage, t, V, U, x, loc)
                         /\ Splices(Storage.file, t.file, x, loc, q, m)
  BY <1>1, <1>2, <1>4, <1>5, <1>10, SliceText
<1>12. /\ Clear' /\ Stands(Storage', D, z, H, U) /\ Recalled(t.file, Storage'.file, U)
       /\ Contents' = Text(Storage'.file, U)
  BY <1>10, <1>11, BecomeClear
<1>13. Contents = Text(Storage.file, V) /\ Clean(Storage.file, V)
  BY <1>1, ClearText
<1>14. Moves(Text(Storage.file, V), Text(Storage'.file, U), x, loc)
  BY <1>1, <1>2, <1>11, <1>12, <1>13, MovesText
<1>15. Grafts(Text(Storage.file, V), Text(Storage'.file, U), x, loc, q.off, q.cut, q.full, m)
  BY <1>1, <1>2, <1>4, <1>5, <1>11, <1>12, GraftsText
<1>16. loc \in Off
  BY <1>11, RecordEnds
<1>17. QED  BY <1>3, <1>6, <1>12, <1>13, <1>14, <1>15, <1>16

\* close and wrap.
LEMMA CloseText ==
  ASSUME Clear, Close \/ Wrap
  PROVE  Clear' /\ Contents' = Contents
<1>1. PICK B, last, W, V : Stands(Storage, B, last, W, V) /\ Clean(file, V)
  BY DEF Clear
<1>2. CASE Wrap
  <2>1. file' = file /\ Storage' = Storage
    BY <1>2 DEF Wrap, Storage
  <2>2. QED  BY <1>1, <2>1, ContentsAre DEF Clear
<1>3. CASE Close
  <2>1. Stands(Storage', B, last, W, V)
    BY <1>1, <1>3, CloseStands
  <2>2. ASSUME NEW y \in DOMAIN V, NEW c \in DataAt(y, V[y]) PROVE file'[c] = file[c]
    <3>1. /\ Row(Storage.file, B, last) /\ Sized(Storage.file, B, W, V)
          /\ y \in Nat /\ V[y] \in Nat /\ y + BH + V[y] <= last
      BY <1>1, RecordEnds
    <3>2. c \in Off /\ c \in Int
      BY <3>1, RecordOff
    <3>3. hdr.last_off = last /\ last \in Nat
      BY <1>1, <3>1, RowNat DEF Stands, Storage
    <3>4. c < last + BH
      BY <3>1, <3>2, <3>3, SizesAssumption DEF DataAt
    <3>5. file' = [d \in Off |-> IF d < hdr.last_off + BH THEN file[d] ELSE Junk]
      BY <1>3 DEF Close
    <3>6. QED  BY <3>2, <3>3, <3>4, <3>5
  <2>3. Clean(file', V)
    BY <1>1, <2>2 DEF Clean
  <2>4. Clear'
    BY <2>1, <2>3 DEF Clear
  <2>5. Contents = Text(file, V) /\ Contents' = Text(file', V)
    <3>1. Storage.file = file /\ Storage'.file = file'
      BY DEF Storage
    <3>2. QED  BY <1>1, <2>1, <3>1, RecsAre, ContentsAre
  <2>6. ASSUME NEW l \in DOMAIN V
        PROVE  [i \in 1 .. V[l] |-> file'[l + BH + i - 1]] = [i \in 1 .. V[l] |-> file[l + BH + i - 1]]
    <3>1. l \in Nat /\ V[l] \in Nat
      BY <1>1, RecordEnds
    <3>2. PICK k \in Nat : k = V[l]
      BY <3>1
    <3>3. ASSUME NEW i \in 1 .. k PROVE file'[l + BH + i - 1] = file[l + BH + i - 1]
      <4>1. l + BH + i - 1 \in DataAt(l, V[l])
        BY <3>1, <3>2, SizesAssumption DEF DataAt
      <4>2. QED  BY <2>2, <4>1
    <3>4. QED  BY <3>2, <3>3
  <2>7. Text(file', V) = Text(file, V)
    BY <2>6 DEF Text
  <2>8. QED  BY <2>4, <2>5, <2>7
<1>4. QED  BY <1>2, <1>3

-----------------------------------------------------------------------------
(* The storage implements the map.                                         *)

\* It begins without records.
LEMMA FirstMap ==
  ASSUME Init
  PROVE  Clear /\ RecordMap!RecordsInit
<1>1. PICK B, last, W, V : Stands(Storage, B, last, W, V)
  BY InitInOrder DEF InOrder
<1>2. Row(file, B, last) /\ Sized(file, B, W, V) /\ hdr.last_off = last
  BY <1>1, BlocksOf
<1>3. last = 0
  BY <1>2 DEF Init
<1>4. DOMAIN V = {}
  <2>1. ASSUME NEW x \in DOMAIN V PROVE FALSE
    <3>1. x \in B
      BY <1>2, <2>1, SizedIs
    <3>2. x \in Nat /\ x < last
      BY <1>2, <3>1, RowNat
    <3>3. QED  BY <1>3, <3>2
  <2>2. QED  BY <2>1
<1>5. Clear
  BY <1>1, <1>4 DEF Clear, Clean
<1>6. Contents = << >>
  <2>1. Contents = Text(file, V)
    BY <1>1, RecsAre, ContentsAre DEF Storage
  <2>2. Text(file, V) = [l \in {} |-> [i \in 1 .. V[l] |-> file[l + BH + i - 1]]]
    BY <1>4 DEF Text
  <2>3. QED  BY <2>1, <2>2
<1>7. isopen = TRUE
  BY DEF Init
<1>8. QED  BY <1>5, <1>6, <1>7 DEF RecordMap!RecordsInit

\* One record moves, in the terms of the map.
LEMMA MovesMap ==
  ASSUME NEW x, NEW loc, Moves(Contents, Contents', x, loc), isopen, isopen' = isopen
  PROVE  RecordMap!OnlyMoves(x, loc)
  BY DEF Moves, RecordMap!OnlyMoves

\* What the storage does is a step of the map.
MapStep == RecordMap!RecordsNext \/ UNCHANGED RecordMap!vars

\* A new record.
LEMMA CreatesMap ==
  ASSUME isopen, isopen' = isopen, NEW loc \in Off, Creates(Contents, Contents', loc)
  PROVE  MapStep
<1>1. RecordMap!Create(loc)
  BY DEF Creates, RecordMap!Create
<1>2. QED  BY <1>1 DEF MapStep, RecordMap!RecordsNext

\* A record that is gone.
LEMMA DeletesMap ==
  ASSUME isopen, isopen' = isopen, NEW loc \in Off, Deletes(Contents, Contents', loc)
  PROVE  MapStep
<1>1. RecordMap!Delete(loc)
  BY DEF Deletes, RecordMap!Delete
<1>2. QED  BY <1>1 DEF MapStep, RecordMap!RecordsNext

\* A record that is written.
LEMMA OverwritesMap ==
  ASSUME isopen, isopen' = isopen, NEW loc \in Off, NEW off \in Lens, NEW n \in Lens,
         Moves(Contents, Contents', loc, loc), Overwrites(Contents, Contents', loc, off, n)
  PROVE  MapStep
<1>1. RecordMap!OnlyMoves(loc, loc)
  BY MovesMap
<1>2. off \in Nat /\ n \in Nat
  BY SizesAssumption
<1>3. PICK old, new : old = Contents[loc] /\ new = Contents'[loc]
  OBVIOUS
<1>4. /\ Len(old) \in Nat /\ off + n <= Len(old) /\ Len(new) = Len(old)
      /\ \A i \in 1 .. Len(old) : /\ off < i /\ i <= off + n => new[i] \in Values
                                  /\ i <= off \/ off + n < i => new[i] = old[i]
  BY <1>3 DEF Overwrites
<1>5. PICK k \in Nat : k = Len(old)
  BY <1>4
<1>6. ASSUME NEW i \in 1 .. k
      PROVE  IF i \in off + 1 .. off + n THEN new[i] \in Values ELSE new[i] = old[i]
  BY <1>2, <1>4, <1>5
<1>7. RecordMap!Written(loc, off, n)
  BY <1>3, <1>4, <1>5, <1>6 DEF RecordMap!Written
<1>8. QED  BY <1>1, <1>7 DEF MapStep, RecordMap!RecordsNext

\* The least of two numbers, as the map has it.
LEMMA MapMin ==
  ASSUME NEW a \in Int, NEW b \in Int, NEW k, k = RecordMap!Min({a, b})
  PROVE  k \in Int /\ k <= a /\ k <= b
<1>1. RecordMap!Min({a, b}) = Min({a, b})
  BY DEF RecordMap!Min, Min
<1>2. QED  BY <1>1, MinOf

\* A record that is resized.
LEMMA ResizesMap ==
  ASSUME isopen, isopen' = isopen, NEW x \in Off, NEW loc \in Off,
         Moves(Contents, Contents', x, loc), Resizes(Contents, Contents', x, loc)
  PROVE  MapStep
<1>1. RecordMap!OnlyMoves(x, loc)
  BY MovesMap
<1>2. PICK old, new : old = Contents[x] /\ new = Contents'[loc]
  OBVIOUS
<1>3. /\ Len(old) \in Nat /\ Len(new) \in Nat
      /\ \A i \in Nat : 1 <= i /\ i <= Len(old) /\ i <= Len(new) /\ old[i] \in Values => new[i] = old[i]
  BY <1>2 DEF Resizes
<1>4. PICK k \in Int : /\ k = RecordMap!Min({Len(old), Len(new)}) /\ k <= Len(old) /\ k <= Len(new)
  <2>1. PICK k : k = RecordMap!Min({Len(old), Len(new)})
    OBVIOUS
  <2>2. PICK a \in Int, b \in Int : a = Len(old) /\ b = Len(new)
    BY <1>3
  <2>3. k = RecordMap!Min({a, b})
    BY <2>1, <2>2
  <2>4. k \in Int /\ k <= a /\ k <= b
    BY <2>3, MapMin
  <2>5. QED  BY <2>1, <2>2, <2>4
<1>5. ASSUME NEW i \in 1 .. k PROVE RecordMap!Keeps(old[i], new[i])
  BY <1>3, <1>4 DEF RecordMap!Keeps
<1>6. RecordMap!Resized(x, loc)
  BY <1>2, <1>4, <1>5 DEF RecordMap!Resized
<1>7. QED  BY <1>1, <1>6 DEF MapStep, RecordMap!RecordsNext

\* A record that is spliced.
LEMMA GraftsMap ==
  ASSUME isopen, isopen' = isopen, NEW x \in Off, NEW loc \in Off, NEW off \in Lens, NEW cut \in Lens,
         NEW full \in Lens, NEW n \in Lens \cup {0}, Moves(Contents, Contents', x, loc),
         Grafts(Contents, Contents', x, loc, off, cut, full, n)
  PROVE  MapStep
<1>1. RecordMap!OnlyMoves(x, loc)
  BY MovesMap
<1>2. off \in Nat /\ cut \in Nat /\ full \in Nat /\ n \in Nat
  BY SizesAssumption
<1>3. PICK old, new : old = Contents[x] /\ new = Contents'[loc]
  OBVIOUS
<1>4. /\ full <= Len(old) /\ off + n <= Len(new) /\ full + n <= Len(new) + cut
      /\ \A i \in Nat : 1 <= i /\ i <= off /\ i <= full /\ old[i] \in Values => new[i] = old[i]
      /\ \A i \in Nat : off < i /\ i <= off + n => new[i] \in Values
      /\ \A i \in Nat : off + cut < i /\ i <= full /\ old[i] \in Values => new[i - cut + n] = old[i]
  BY <1>3 DEF Grafts
<1>5. PICK k \in Int : k = RecordMap!Min({off, full}) /\ k <= off /\ k <= full
  <2>1. PICK k : k = RecordMap!Min({off, full})
    OBVIOUS
  <2>2. off \in Int /\ full \in Int
    BY <1>2
  <2>3. k \in Int /\ k <= off /\ k <= full
    BY <2>1, <2>2, MapMin
  <2>4. QED  BY <2>1, <2>3
<1>6. ASSUME NEW i \in 1 .. k PROVE RecordMap!Keeps(old[i], new[i])
  BY <1>2, <1>4, <1>5 DEF RecordMap!Keeps
<1>7. ASSUME NEW i \in off + 1 .. off + n PROVE new[i] \in Values
  BY <1>2, <1>4
<1>8. ASSUME NEW i \in off + cut + 1 .. full PROVE RecordMap!Keeps(old[i], new[i - cut + n])
  BY <1>2, <1>4 DEF RecordMap!Keeps
<1>9. RecordMap!Spliced(x, loc, off, cut, full, n)
  BY <1>3, <1>4, <1>5, <1>6, <1>7, <1>8 DEF RecordMap!Spliced
<1>10. QED  BY <1>1, <1>9 DEF MapStep, RecordMap!RecordsNext

\* Every step of the storage is a step of the map, or none of its records
\* changes.
LEMMA MapSteps ==
  ASSUME Clear, isopen \in BOOLEAN, [Next]_vars
  PROVE  Clear' /\ isopen' \in BOOLEAN /\ MapStep
<1>1. ASSUME NEW len \in Lens, Alloc(len) PROVE Clear' /\ isopen' \in BOOLEAN /\ MapStep
  <2>1. isopen /\ isopen' = isopen /\ len \in Nat
    BY <1>1, SizesAssumption DEF Alloc
  <2>2. Bounded(AllocRec(Storage, len).s) /\ Become(AllocRec(Storage, len).s)
    BY <1>1 DEF Alloc
  <2>3. Clear' /\ \E loc \in Off : Creates(Contents, Contents', loc)
    BY <2>1, <2>2, AllocText
  <2>4. QED  BY <2>1, <2>3, CreatesMap
<1>2. ASSUME NEW len \in Lens, NEW v \in Values, Add(len, v)
      PROVE  Clear' /\ isopen' \in BOOLEAN /\ MapStep
  <2>1. isopen /\ isopen' = isopen
    BY <1>2 DEF Add
  <2>2. Clear' /\ \E loc \in Off : Creates(Contents, Contents', loc)
    BY <1>2, AddText
  <2>3. QED  BY <2>1, <2>2, CreatesMap
<1>3. ASSUME NEW loc \in Records, NEW off \in Lens, NEW len \in Lens, NEW v \in Values,
             WriteRec(loc, off, len, v)
      PROVE  Clear' /\ isopen' \in BOOLEAN /\ MapStep
  <2>1. isopen /\ isopen' = isopen
    BY <1>3 DEF WriteRec
  <2>2. /\ Clear' /\ loc \in Off /\ Moves(Contents, Contents', loc, loc)
        /\ Overwrites(Contents, Contents', loc, off, len)
    BY <1>3, WriteText
  <2>3. QED  BY <2>1, <2>2, OverwritesMap
<1>4. ASSUME NEW loc \in Records, Free(loc) PROVE Clear' /\ isopen' \in BOOLEAN /\ MapStep
  <2>1. isopen /\ isopen' = isopen
    BY <1>4 DEF Free
  <2>2. Clear' /\ loc \in Off /\ Deletes(Contents, Contents', loc)
    BY <1>4, FreeText
  <2>3. QED  BY <2>1, <2>2, DeletesMap
<1>5. ASSUME NEW loc \in Records, NEW len \in Lens, Realloc(loc, len)
      PROVE  Clear' /\ isopen' \in BOOLEAN /\ MapStep
  <2>1. isopen /\ isopen' = isopen
    BY <1>5 DEF Realloc
  <2>2. /\ Clear' /\ loc \in Off
        /\ \E d \in Off : Moves(Contents, Contents', loc, d) /\ Resizes(Contents, Contents', loc, d)
    BY <1>5, ResizeText
  <2>3. QED  BY <2>1, <2>2, ResizesMap
<1>6. ASSUME NEW loc \in Records, NEW x \in Slices(loc), Slice(loc, x)
      PROVE  Clear' /\ isopen' \in BOOLEAN /\ MapStep
  <2>1. isopen /\ isopen' = isopen
    BY <1>6 DEF Slice
  <2>2. /\ Clear' /\ loc \in Off
        /\ \E d \in Off, off, cut, full \in Lens, n \in Lens \cup {0} :
             /\ Moves(Contents, Contents', loc, d)
             /\ Grafts(Contents, Contents', loc, d, off, cut, full, n)
    BY <1>6, GraftText
  <2>3. QED  BY <2>1, <2>2, GraftsMap
<1>7. ASSUME NEW loc \in Records, NEW x \in Slices(loc), SliceFails(loc, x)
      PROVE  Clear' /\ isopen' \in BOOLEAN /\ MapStep
  <2>1. isopen /\ isopen' = isopen
    BY <1>7 DEF SliceFails
  <2>2. PICK len \in Nat : len = SliceLen(x)
    BY SlicesAsked
  <2>3. Bounded(AllocRec(Storage, len).s) /\ Become(AllocRec(Storage, len).s)
    BY <1>7, <2>2 DEF SliceFails
  <2>4. Clear' /\ \E d \in Off : Creates(Contents, Contents', d)
    BY <2>3, AllocText
  <2>5. QED  BY <2>1, <2>4, CreatesMap
<1>8. ASSUME Close \/ Wrap PROVE Clear' /\ isopen' \in BOOLEAN /\ MapStep
  <2>1. Clear' /\ Contents' = Contents
    BY <1>8, CloseText
  <2>2. RecordMap!Shut \/ RecordMap!Reopen
    BY <1>8, <2>1 DEF Close, Wrap, RecordMap!Shut, RecordMap!Reopen
  <2>3. isopen' \in BOOLEAN
    BY <1>8 DEF Close, Wrap
  <2>4. QED  BY <2>1, <2>2, <2>3 DEF MapStep, RecordMap!RecordsNext
<1>9. ASSUME UNCHANGED vars PROVE Clear' /\ isopen' \in BOOLEAN /\ MapStep
  <2>1. file' = file /\ isopen' = isopen /\ Storage' = Storage
    BY <1>9 DEF vars, Storage
  <2>2. Contents' = Contents
    BY <2>1, ContentsAre
  <2>3. Clear'
    BY <2>1 DEF Clear
  <2>4. QED  BY <2>1, <2>2, <2>3 DEF MapStep, RecordMap!vars
<1>10. QED
  BY <1>1, <1>2, <1>3, <1>4, <1>5, <1>6, <1>7, <1>8, <1>9 DEF Next

\* What holds of the storage in every state.
MapInv == Clear /\ isopen \in BOOLEAN

\* The storage implements the map from locators to the contents of records:
\* no operation on one record, and no reuse of space, disturbs another one, and
\* what is written in a record is there until it is written over, cut or freed.
THEOREM StorageImplements == Spec => ImplementsRecordStore
<1>1. Init => MapInv /\ RecordMap!RecordsInit
  BY FirstMap DEF Init, MapInv
<1>2. MapInv /\ [Next]_vars => MapInv' /\ [RecordMap!RecordsNext]_(RecordMap!vars)
  BY MapSteps DEF MapStep, MapInv
<1>3. QED  BY <1>1, <1>2, PTL DEF Spec, ImplementsRecordStore, RecordMap!RecordsSpec

=============================================================================
