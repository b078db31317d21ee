------------------------------- MODULE BTree --------------------------------
(***************************************************************************)
(* The B*-tree index (src/edbBTree.cpp) with keys of fixed length, unique  *)
(* or with duplicates.  Nodes are pages of a paged file; the root is       *)
(* larger than the others and never moves.  Inner nodes alternate          *)
(* references and keys, and with each reference keep how many entries are  *)
(* below it; a key is at least as large as every entry to its left.  A     *)
(* node and its neighbours at the same level are linked.                   *)
(*                                                                         *)
(* An insertion makes room on its way down: a full node is evened out with *)
(* a neighbour, or it and a full neighbour become three; a full root is    *)
(* split below itself.  Removing goes along the leaves and corrects the    *)
(* counts afterwards, dropping the references to what it believes empty.   *)
(*                                                                         *)
(* An entry is a number: key * Vals + rest.  In an index with duplicates   *)
(* the rest is the value, which is kept and compared as part of the key;   *)
(* in a unique one keys are of two parts and may be looked up by the first *)
(* one.  Values of a unique index go where their keys go and are left out. *)
(* What fills a node is the number of its keys.  Page 0 is the root, and   *)
(* as a reference none; a page on the free list is in no node.             *)
(***************************************************************************)
EXTENDS Integers, Sequences, FiniteSets, SequencesExt

CONSTANTS
  Entries,        \* the entries clients use
  Vals,           \* how many entries share the first part of the key
  Dup,            \* whether the index allows for duplicate keys
  LeafCap,        \* a leaf with so many keys has no space for one more
  InnerCap,       \* an inner node
  RootLeafCap,    \* the root while it is a leaf
  RootInnerCap,   \* the root above other nodes
  RefMod,         \* references are numbers modulo this (2^48)
  Loaded,         \* clients insert 2 * Loaded, .. , 4, 2 first, in this order
  MaxRemove,      \* bound: how many entries a call of remove takes
  MaxCursors,     \* bound: how many walks clients begin
  MaxFree,        \* bound: how many pages become free
  Positions,      \* bound: the positions at which walks by position begin
  Liberties       \* what else clients do, see below

\* Without a liberty clients never
\*   "empty"    remove the last entry of a leaf that has others to its right,
\*   "drain"    remove the last entry of the last leaf,
\*   "drifted"  remove when the counts are wrong,
\*   "backward" walk towards smaller entries,
\*   "again"    insert a pair that is there in an index with duplicates.
\* No client both walks and empties leaves: a walk reads on in a page that was
\* freed under it.
ASSUME BTreeAssumption ==
  /\ Entries \subseteq Nat /\ Vals \in Nat \ {0} /\ Dup \in BOOLEAN
  /\ LeafCap \in Nat /\ LeafCap >= 4 /\ InnerCap \in Nat /\ InnerCap >= 4
  /\ RootLeafCap \in Nat /\ RootLeafCap > LeafCap
  /\ RootInnerCap \in Nat /\ RootInnerCap > InnerCap
  /\ RefMod \in Nat /\ RefMod > 2
  /\ Loaded \in Nat /\ MaxRemove \in Nat \ {0} /\ MaxCursors \in Nat
  /\ MaxFree \in Nat
  /\ Positions \subseteq Nat
  /\ Liberties \subseteq {"empty", "drain", "drifted", "backward", "again"}

VARIABLES
  nodes,     \* page -> node
  free,      \* the chain of free pages, from rootfreenodeoff_ on
  flen,      \* the length of the file in pages, with pages only fetched
  cursor,    \* the cursor of a walk
  walks,     \* how many walks were begun
  loaded,    \* how many of the first entries were inserted
  result     \* the result of the last call

vars == <<nodes, free, flen, cursor, walks, loaded, result>>

Tree == [nodes |-> nodes, free |-> free, flen |-> flen, err |-> "ok"]

Become(t) == nodes' = t.nodes /\ free' = t.free /\ flen' = t.flen

Root == 0
None == 0
Ref(page) == page % RefMod
Dangling == RefMod - 1

FirstPart(e) == e \div Vals

Closed == [on |-> FALSE, page |-> Root, pos |-> 0, forward |-> TRUE]

-----------------------------------------------------------------------------
(* Nodes.                                                                  *)

Node(level, keys, refs, cnts, left, right) ==
  [level |-> level, keys |-> keys, refs |-> refs, cnts |-> cnts,
   left |-> left, right |-> right]

EmptyRoot == Node(0, <<>>, <<>>, <<>>, None, None)

Nkeys(n) == Len(n.keys)

Total(s) == FoldLeft(LAMBDA a, b : a + b, 0, s)

\* countPairs: the entries at or below a node, as far as it knows.
CountPairs(n) == IF n.level = 0 THEN Nkeys(n) ELSE Total(n.cnts)

\* The keys from..to of a node, with the references around them.
Part(n, from, to) ==
  [n EXCEPT !.keys = SubSeq(@, from, to),
            !.refs = IF n.level = 0 THEN <<>> ELSE SubSeq(@, from, to + 1),
            !.cnts = IF n.level = 0 THEN <<>> ELSE SubSeq(@, from, to + 1)]

Capacity(page, level) ==
  IF page = Root THEN (IF level = 0 THEN RootLeafCap ELSE RootInnerCap)
                 ELSE (IF level = 0 THEN LeafCap ELSE InnerCap)

EnoughSpace(t, page) ==
  Nkeys(t.nodes[page]) < Capacity(page, t.nodes[page].level)

\* findEntry: how many keys are below what is looked for (they are sorted).
LowerBound(keys, e) == Cardinality({i \in DOMAIN keys : keys[i] < e})

\* (mutant)
LowerBoundPast(keys, f) == Cardinality({i \in DOMAIN keys : FirstPart(keys[i]) <= f})
LowerBoundFirst(keys, f) == Cardinality({i \in DOMAIN keys : FirstPart(keys[i]) < f})

\* Fetching a node: a page that is none is past the end, which makes the file
\* longer, or signed as free.
IsNode(t, page) == page \in DOMAIN t.nodes \ {Root}
Fetched(t, page) == [t EXCEPT !.flen = IF page >= @ THEN page + 1 ELSE @]
Broken(t, page) == [Fetched(t, page) EXCEPT !.err = "broken"]

SetLeft(ns, page, to) ==
  IF page \in DOMAIN ns \ {None} THEN [ns EXCEPT ![page].left = to] ELSE ns
SetRight(ns, page, to) ==
  IF page \in DOMAIN ns \ {None} THEN [ns EXCEPT ![page].right = to] ELSE ns

\* newNode: at the end of the file.  While a page is on the free list it is
\* fetched as a node first, which fails.
NoNewNode(t) == t.free # <<>>

WithNode(ns, page, n) ==
  [p \in DOMAIN ns \cup {page} |-> IF p = page THEN n ELSE ns[p]]

-----------------------------------------------------------------------------
(* Making room.                                                            *)

\* (mutant)
SplitRootShort(t) ==
  LET root == t.nodes[Root]
      half == Nkeys(root) \div 2
      l == t.flen
      r == t.flen + 1
      lnode == [Part(root, 1, IF root.level = 0 THEN half ELSE half - 1)
                  EXCEPT !.left = None, !.right = Ref(r)]
      rnode == [Part(root, half + 1, Nkeys(root)) EXCEPT !.left = Ref(l), !.right = None]
      top == Node(root.level + 1, <<root.keys[half]>>, <<Ref(l), Ref(r)>>,
                  <<CountPairs(lnode), CountPairs(rnode)>>, None, None)
  IN  [t EXCEPT !.nodes = WithNode(WithNode([@ EXCEPT ![Root] = top], l, lnode), r, rnode),
                !.flen = @ + 1]

\* splitRoot: the halves of the root become two nodes below it.  The key
\* between them is the last one of the left half, which an inner node loses.
SplitRoot(t) ==
  LET root == t.nodes[Root]
      half == Nkeys(root) \div 2
      l == t.flen
      r == t.flen + 1
      lnode == [Part(root, 1, IF root.level = 0 THEN half ELSE half - 1)
                  EXCEPT !.left = None, !.right = Ref(r)]
      rnode == [Part(root, half + 1, Nkeys(root)) EXCEPT !.left = Ref(l), !.right = None]
      top == Node(root.level + 1, <<root.keys[half]>>, <<Ref(l), Ref(r)>>,
                  <<CountPairs(lnode), CountPairs(rnode)>>, None, None)
  IN  IF NoNewNode(t) THEN [t EXCEPT !.err = "broken"]
      ELSE [t EXCEPT !.nodes = WithNode(WithNode([@ EXCEPT ![Root] = top], l, lnode), r, rnode),
                     !.flen = @ + 2]

\* The last n keys of l in front of those of r, and the key between them.
MoveRightLeaf(l, r, n) ==
  LET k == Nkeys(l)
  IN  <<Part(l, 1, k - n), [r EXCEPT !.keys = SubSeq(l.keys, k - n + 1, k) \o @], l.keys[k - n]>>

\* (mutant)
MoveRightLast(l, r, between, n, new) ==
  LET k == Nkeys(l)
  IN  <<Part(l, 1, k - n),
        [r EXCEPT !.keys = SubSeq(l.keys, k - n + 2, k)
                             \o (IF new THEN <<>> ELSE <<between>>) \o @,
                  !.refs = SubSeq(l.refs, k - n + 2, k + 1) \o @,
                  !.cnts = SubSeq(l.cnts, k - n + 2, k + 1) \o @], l.keys[k]>>

\* The last n references; the old key between them comes along, unless r is new
\* and has none.
MoveRightInner(l, r, between, n, new) ==
  LET k == Nkeys(l)
  IN  <<Part(l, 1, k - n),
        [r EXCEPT !.keys = SubSeq(l.keys, k - n + 2, k)
                             \o (IF new THEN <<>> ELSE <<between>>) \o @,
                  !.refs = SubSeq(l.refs, k - n + 2, k + 1) \o @,
                  !.cnts = SubSeq(l.cnts, k - n + 2, k + 1) \o @], l.keys[k - n + 1]>>

MoveLeft(l, r, between, n) ==
  IF l.level = 0
  THEN <<[l EXCEPT !.keys = @ \o SubSeq(r.keys, 1, n)], Part(r, n + 1, Nkeys(r)), r.keys[n]>>
  ELSE <<[l EXCEPT !.keys = @ \o <<between>> \o SubSeq(r.keys, 1, n - 1),
                   !.refs = @ \o SubSeq(r.refs, 1, n),
                   !.cnts = @ \o SubSeq(r.cnts, 1, n)],
         Part(r, n + 1, Nkeys(r)), r.keys[n]>>

Moved(l, r, between, n, new) ==
  IF n < 0 THEN MoveLeft(l, r, between, -n)
  ELSE IF l.level = 0 THEN MoveRightLeaf(l, r, n)
  ELSE MoveRightInner(l, r, between, n, new)

\* What was moved goes into the children and between them.
Refilled(t, parent, pos, m) ==
  LET p == t.nodes[parent]
  IN  [t EXCEPT !.nodes[p.refs[pos + 1]] = m[1], !.nodes[p.refs[pos + 2]] = m[2],
                !.nodes[parent] = [p EXCEPT !.keys[pos + 1] = m[3],
                                            !.cnts[pos + 1] = CountPairs(m[1]),
                                            !.cnts[pos + 2] = CountPairs(m[2])]]

\* rotate: between the children at pos and pos + 1 of a node.
Rotated(t, parent, pos, n, new) ==
  LET p == t.nodes[parent]
  IN  Refilled(t, parent, pos,
               Moved(t.nodes[p.refs[pos + 1]], t.nodes[p.refs[pos + 2]], p.keys[pos + 1], n, new))

\* (mutant)
AddChildOneWay(t, parent, pos) ==
  LET p == t.nodes[parent]
      l == p.refs[pos + 1]
      r == t.flen
      above == [p EXCEPT !.keys = InsertAt(@, pos + 1, p.keys[pos]),
                         !.refs = InsertAt(@, pos + 2, Ref(r)),
                         !.cnts = InsertAt(@, pos + 2, 0)]
      new == Node(p.level - 1, <<>>, <<>>, <<>>, l, t.nodes[l].right)
  IN  [t EXCEPT !.nodes = WithNode(SetRight([@ EXCEPT ![parent] = above], l, Ref(r)), r, new),
                !.flen = @ + 1]

\* rotate with a new node, to the right of the child at pos: first it gets
\* the key before it again as its own, and the links.
AddChild(t, parent, pos) ==
  LET p == t.nodes[parent]
      l == p.refs[pos + 1]
      r == t.flen
      above == [p EXCEPT !.keys = InsertAt(@, pos + 1, p.keys[pos]),
                         !.refs = InsertAt(@, pos + 2, Ref(r)),
                         !.cnts = InsertAt(@, pos + 2, 0)]
      new == Node(p.level - 1, <<>>, <<>>, <<>>, l, t.nodes[l].right)
      linked == SetLeft(SetRight([t.nodes EXCEPT ![parent] = above], l, Ref(r)),
                        t.nodes[l].right, Ref(r))
  IN  [t EXCEPT !.nodes = WithNode(linked, r, new), !.flen = @ + 1]

\* (mutant)
AboveFirst(e, key) == FirstPart(e) > FirstPart(key)

\* The child at which an entry is looked for again: only the first parts of
\* the keys are compared (memcmp over klen) in an index with duplicates.
Above(e, key) == IF Dup THEN FirstPart(e) > FirstPart(key) ELSE e > key

\* Which of two children, or of three.
Chosen(t, parent, at, e) ==
  [t |-> t, pos |-> IF Above(e, t.nodes[parent].keys[at + 1]) THEN at + 1 ELSE at]

ChosenOfThree(t, parent, at, e) ==
  IF Above(e, t.nodes[parent].keys[at + 2]) THEN [t |-> t, pos |-> at + 2]
  ELSE Chosen(t, parent, at, e)

Thirds(t, parent, at, sum) ==
  Rotated(Rotated(AddChild(t, parent, at + 1), parent, at + 1, sum \div 3, TRUE),
          parent, at, sum \div 6, FALSE)

\* The neighbours of a node in makeroom, the right one first.
Neighbours(p, pos, node) ==
  (IF pos < Nkeys(p) THEN <<node.right>> ELSE <<>>) \o (IF pos > 0 THEN <<node.left>> ELSE <<>>)

\* With the first neighbour that has two keys less, or else the first one.
RoomWith(t, parent, pos, e, node, sibs, fit) ==
  LET sib == sibs[IF fit = {} \/ 1 \in fit THEN 1 ELSE 2]
      at == IF sib = node.left THEN pos - 1 ELSE pos
      more == (Nkeys(node) - Nkeys(t.nodes[sib])) \div 2
  IN  IF fit # {}
      THEN Chosen(Rotated(t, parent, at, IF sib = node.left THEN -more ELSE more, FALSE),
                  parent, at, e)
      ELSE IF NoNewNode(t) THEN [t |-> [t EXCEPT !.err = "broken"], pos |-> pos]
      ELSE ChosenOfThree(Thirds(t, parent, at, Nkeys(node) + Nkeys(t.nodes[sib])), parent, at, e)

\* makeroom: nodePos is its copy, the caller's pos stays as it was.
Makeroom(t, parent, pos, e) ==
  LET p == t.nodes[parent]
      node == t.nodes[p.refs[pos + 1]]
      sibs == Neighbours(p, pos, node)
      asReferred == /\ pos < Nkeys(p) => node.right = p.refs[pos + 2]
                    /\ pos > 0 => node.left = p.refs[pos]
  IN  IF ~asReferred \/ \E i \in DOMAIN sibs : ~IsNode(t, sibs[i])
      THEN [t |-> [t EXCEPT !.err = "broken"], pos |-> pos]
      ELSE RoomWith(t, parent, pos, e, node, sibs,
                    {i \in DOMAIN sibs : Nkeys(t.nodes[sibs[i]]) + 1 < Nkeys(node)})

-----------------------------------------------------------------------------
(* The way down.                                                           *)

\* One turn of the loop of findLeaf: to the child at pos of w.page.
\* The trace gets pos as it was before room was made.
Stepdown(w, pos, room) ==
  [t |-> room.t, page |-> room.t.nodes[w.page].refs[room.pos + 1],
   trace |-> Append(w.trace, <<w.page, pos>>)]

Down(w, pos, e, expand) ==
  LET page == w.t.nodes[w.page].refs[pos + 1]
  IN  IF ~IsNode(w.t, page) THEN [w EXCEPT !.t = Broken(@, page)]
      ELSE Stepdown(w, pos, IF expand /\ ~EnoughSpace(w.t, page) THEN Makeroom(w.t, w.page, pos, e)
                            ELSE [t |-> w.t, pos |-> pos])

\* Each turn goes one level down.
FromRoot(t, e, expand) ==
  LET turn(w, i) == IF w.t.err # "ok" THEN w
                    ELSE Down(w, LowerBound(w.t.nodes[w.page].keys, e), e, expand)
  IN  FoldLeft(turn, [t |-> t, page |-> Root, trace |-> <<>>],
               [i \in 1 .. t.nodes[Root].level |-> i])

\* findLeaf for an entry.
FindLeaf(t, e, expand) ==
  FromRoot(IF expand /\ ~EnoughSpace(t, Root) THEN SplitRoot(t) ELSE t, e, expand)

\* findLeaf by the first part of a key.
FindLeafFirst(t, f) ==
  LET turn(w, i) == IF w.t.err # "ok" THEN w
                    ELSE Down(w, LowerBoundFirst(w.t.nodes[w.page].keys, f), 0, FALSE)
  IN  FoldLeft(turn, [t |-> t, page |-> Root, trace |-> <<>>],
               [i \in 1 .. t.nodes[Root].level |-> i])

-----------------------------------------------------------------------------
(* Insertion.                                                              *)

\* incrementCounter: one more below every reference of the trace.
IncrementCounter(t, trace) ==
  [t EXCEPT !.nodes =
     [p \in DOMAIN @ |->
        [@[p] EXCEPT !.cnts = [i \in DOMAIN @ |->
           @[i] + Cardinality({j \in DOMAIN trace : trace[j] = <<p, i - 1>>})]]]]

\* insertAt
InsertKey(n, pos, e) == [n EXCEPT !.keys = InsertAt(@, pos + 1, e)]

\* searchLeaf for insertion.  With duplicates the comparison reads on behind the
\* key it is given, and seen says whether the value happens to be there.
Occupied(n, pos, e, seen) == pos < Nkeys(n) /\ n.keys[pos + 1] = e /\ seen

\* insert into a leaf.
InsertLeaf(t, page, e, seen) ==
  LET pos == LowerBound(t.nodes[page].keys, e)
  IN  IF Occupied(t.nodes[page], pos, e, seen) THEN [t EXCEPT !.err = "duplicate"]
      ELSE [t EXCEPT !.nodes[page] = InsertKey(@, pos, e)]

\* insert of the handler, w being where findLeaf came to.  An entry that is
\* there is refused when the way down is made.
Counted(t, trace) == IF t.err # "ok" THEN t ELSE IncrementCounter(t, trace)

InsertAtLeaf(w, e, seen) ==
  IF w.t.err # "ok" THEN w.t ELSE Counted(InsertLeaf(w.t, w.page, e, seen), w.trace)

InsertEntry(t, e, seen) == InsertAtLeaf(FindLeaf(t, e, TRUE), e, seen)

-----------------------------------------------------------------------------
(* Looking up.                                                             *)

\* find: the leaf and the place of an entry, or of the first one with a first
\* part.  When the place is behind the leaf's last entry there is none.
Place(w, pos, found) ==
  [t |-> w.t, page |-> w.page, pos |-> pos, trace |-> w.trace,
   result |-> IF w.t.err # "ok" THEN w.t.err ELSE IF found THEN "ok" ELSE "notfound"]

PlaceOf(w, e) ==
  LET keys == w.t.nodes[w.page].keys
      pos == LowerBound(keys, e)
  IN  Place(w, pos, pos < Len(keys) /\ keys[pos + 1] = e)

PlaceOfFirst(w, f) ==
  LET keys == w.t.nodes[w.page].keys
      pos == LowerBoundFirst(keys, f)
  IN  Place(w, pos, pos < Len(keys) /\ FirstPart(keys[pos + 1]) = f)

Find(t, e) == PlaceOf(FindLeaf(t, e, FALSE), e)

FindFirst(t, f) == PlaceOfFirst(FindLeafFirst(t, f), f)

\* (mutant)
PosThrough(t, c) ==
  LET before(j) == Total(SubSeq(t.nodes[c.trace[j][1]].cnts, 1, c.trace[j][2] + 1))
  IN  c.pos + Total([j \in DOMAIN c.trace |-> before(j)])

\* getpos: how many entries are before one, going by the counts.
PosOf(t, c) ==
  LET before(j) == Total(SubSeq(t.nodes[c.trace[j][1]].cnts, 1, c.trace[j][2]))
  IN  c.pos + Total([j \in DOMAIN c.trace |-> before(j)])

GetPos(t, e) == PosOf(t, Find(t, e))

\* findByPos: the place a number of entries from the start.
NodeByCount(cnts, count) ==
  Cardinality({n \in 1 .. Len(cnts) - 1 : Total(SubSeq(cnts, 1, n)) < count})

FindByPos(t, position) ==
  LET down(w, n, pos) ==
        IF ~IsNode(w.t, n.refs[pos + 1]) THEN [w EXCEPT !.t = Broken(@, n.refs[pos + 1])]
        ELSE [w EXCEPT !.page = n.refs[pos + 1], !.count = @ - Total(SubSeq(n.cnts, 1, pos))]
      turn(w, i) ==
        LET n == w.t.nodes[w.page]
        IN  IF w.t.err # "ok" THEN w ELSE down(w, n, NodeByCount(n.cnts, w.count))
      leaf == FoldLeft(turn, [t |-> t, page |-> Root, count |-> position, trace |-> <<>>],
                       [i \in 1 .. t.nodes[Root].level |-> i])
  IN  Place(leaf, leaf.count, leaf.count < Nkeys(t.nodes[leaf.page]))

-----------------------------------------------------------------------------
(* Cursors.                                                                *)

\* removeEntry: n keys from pos on, each with the reference left or right of it.
RemoveEntry(n, pos, right) ==
  LET ref == IF right THEN pos + 2 ELSE pos + 1
  IN  [n EXCEPT !.keys = RemoveAt(@, pos + 1),
                !.refs = IF n.level = 0 THEN @ ELSE RemoveAt(@, ref),
                !.cnts = IF n.level = 0 THEN @ ELSE RemoveAt(@, ref)]

\* chainToFreeList
ChainToFree(t, page) ==
  [t EXCEPT !.nodes = [p \in DOMAIN @ \ {page} |-> @[p]], !.free = <<page>> \o @]

\* reclaimNode: an empty leaf with a neighbour to the right.
ReclaimNode(t, page) ==
  LET n == t.nodes[page]
  IN  ChainToFree([t EXCEPT !.nodes = SetLeft(SetRight(@, n.left, n.right), n.right, n.left)], page)

\* stepCursor: c is a cursor with the tree it is in, on is FALSE at the end.
\* It fetches the next page without looking at its signature: a page that was
\* freed, or is past the end, is one without keys.
KeysAt(t, page) == IF page \in DOMAIN t.nodes THEN Nkeys(t.nodes[page]) ELSE 0

\* (mutants)
SteppedPast(c, page, pos) ==
  [c EXCEPT !.page = page,
            !.pos = IF ~c.forward THEN KeysAt(c.t, page) - 1
                    ELSE IF page # c.page THEN 1 ELSE pos]
SteppedSame(c, page, pos) ==
  [c EXCEPT !.pos = IF c.forward THEN pos ELSE KeysAt(c.t, page) - 1]

Stepped(c, page, pos) ==
  [c EXCEPT !.page = page,
            !.pos = IF c.forward THEN pos ELSE KeysAt(c.t, page) - 1]

\* (mutant)
NextPosAhead(c, remove) == c.pos + (IF c.forward THEN 1 ELSE -1)
NextPos(c, remove) ==
  (IF remove THEN c.pos - 1 ELSE c.pos) + (IF c.forward THEN 1 ELSE -1)

StepCursor(c, remove) ==
  LET t1 == IF remove THEN [c.t EXCEPT !.nodes[c.page] = RemoveEntry(@, c.pos, FALSE)] ELSE c.t
      n == t1.nodes[c.page]
      pos == NextPos(c, remove)
      page == IF c.forward THEN n.right ELSE n.left
      t2 == IF remove /\ Nkeys(n) = 0 THEN ReclaimNode(t1, c.page) ELSE t1
  IN  IF pos \in 0 .. Nkeys(n) - 1 THEN Stepped([c EXCEPT !.t = t1], c.page, pos)
      ELSE IF page = None THEN [c EXCEPT !.t = t1, !.on = FALSE]
      ELSE Stepped([c EXCEPT !.t = Fetched(t2, page)], page, 0)

\* What is read through a cursor: there may be nothing where it is.
OnEntry(t, page, pos) == pos \in 0 .. KeysAt(t, page) - 1

-----------------------------------------------------------------------------
(* Removal.  The counts are corrected from the level above the leaves      *)
(* upwards, and references are dropped, by what the counts say.            *)

Sums(s, n) == Total(SubSeq(s, 1, n))

\* The largest number in 0 .. n at which P is still true, P(0) being true.
Largest(n, P(_)) == CHOOSE j \in 0 .. n : P(j) /\ \A i \in j + 1 .. n : ~P(i)

\* A reference that would leave a node without keys is made a dangling one.
Dangle(n, i) == [n EXCEPT !.refs[i] = Dangling, !.cnts[i] = 0]

\* (mutant)
RemoveLeftKeysWhole(n, dcr) ==
  Part(n, Largest(Nkeys(n) - 1, LAMBDA i : Sums(n.cnts, i) <= dcr) + 1, Nkeys(n))

\* removeLeftKeys: dcr entries less, from the left.
LessAtLeft(n, rest) ==
  IF n.cnts[1] <= rest THEN [Dangle(n, 1) EXCEPT !.cnts[2] = @ - (rest - n.cnts[1])]
  ELSE [n EXCEPT !.cnts[1] = @ - rest]

RemoveLeftKeys(n, dcr) ==
  LET j == Largest(Nkeys(n) - 1, LAMBDA i : Sums(n.cnts, i) <= dcr)
  IN  LessAtLeft(Part(n, j + 1, Nkeys(n)), dcr - Sums(n.cnts, j))

\* The nodes from a page on, to the right.
Rightwards(t, page) ==
  LET chain[p \in DOMAIN t.nodes] ==
        IF t.nodes[p].right \in DOMAIN t.nodes \ {None, p}
        THEN <<p>> \o chain[t.nodes[p].right] ELSE <<p>>
  IN  chain[page]

\* reclaimNodeChain: nodes the counts say are empty are freed, but the last.
Unchained(t, gone, left, last) ==
  LET t1 == FoldLeft(ChainToFree, t, gone)
  IN  IF gone = <<>> THEN t
      ELSE [t1 EXCEPT !.nodes = SetRight(SetLeft(@, last, left), left, last)]

Reclaimed(t, chain, totals, full, count) ==
  LET freed == IF full = Len(chain) THEN full - 1 ELSE full
  IN  [t |-> Unchained(t, SubSeq(chain, 1, freed), t.nodes[chain[1]].left, chain[freed + 1]),
       page |-> chain[freed + 1], rest |-> count - Sums(totals, full)]

ReclaimNodeChain(t, page, count) ==
  LET chain == Rightwards(t, page)
      totals == [i \in DOMAIN chain |-> CountPairs(t.nodes[chain[i]])]
  IN  Reclaimed(t, chain, totals, Largest(Len(chain), LAMBDA i : Sums(totals, i) <= count), count)

\* The references from pos on of a node that lost dcr entries there, pos > 0.
LessAt(n, pos, rest) ==
  IF pos > Nkeys(n) THEN [n |-> n, dcr |-> rest]
  ELSE IF n.cnts[pos + 1] <= rest
       THEN [n |-> Dangle(n, pos + 1), dcr |-> rest - n.cnts[pos + 1]]
       ELSE [n |-> [n EXCEPT !.cnts[pos + 1] = @ - rest], dcr |-> 0]

DropRight(n, pos, dcr) ==
  LET sum(i) == Total(SubSeq(n.cnts, pos + 1, pos + i))
      most == IF Nkeys(n) - pos + 1 < Nkeys(n) - 1 THEN Nkeys(n) - pos + 1 ELSE Nkeys(n) - 1
      j == Largest(most, LAMBDA i : sum(i) <= dcr)
  IN  LessAt(FoldLeft(LAMBDA m, i : RemoveEntry(m, pos - 1, TRUE), n, [i \in 1 .. j |-> i]),
             pos, dcr - sum(j))

\* The node a chain ends at loses the rest.
Trimmed(chain) ==
  IF chain.rest = 0 THEN chain.t
  ELSE [chain.t EXCEPT !.nodes[chain.page] = RemoveLeftKeys(@, chain.rest)]

\* decrementCounter at one level: where nothing stays to the left ..
FromFirst(t, page, dec) ==
  IF dec >= CountPairs(t.nodes[page]) THEN Trimmed(ReclaimNodeChain(t, page, dec))
  ELSE [t EXCEPT !.nodes[page] = RemoveLeftKeys(@, dec)]

\* .. and where something does: in the node itself, and on from its right neighbour.
Onwards(t, right, dcr) ==
  IF dcr = 0 THEN t
  ELSE IF right = None THEN [t EXCEPT !.err = "broken"]
  ELSE Trimmed(ReclaimNodeChain(t, right, dcr))

FromWithin(t, page, drop) ==
  Onwards([t EXCEPT !.nodes[page] = drop.n], drop.n.right, drop.dcr)

\* The part of the decrement below the reference that has left entries before it.
OfFirst(cnt, left, dec) ==
  IF left = 0 THEN 0 ELSE IF cnt - left \in 0 .. dec - 1 THEN cnt - left ELSE dec

Begun(n, pos, left, dec, mine) ==
  DropRight([n EXCEPT !.cnts[pos + 1] = (@ - mine) % RefMod],
            IF left > 0 THEN pos + 1 ELSE pos, dec - mine)

\* a is the tree and what was to the left of the first removed entry in the
\* nodes below.
DecrementAt(a, page, pos, dec) ==
  LET n == a.t.nodes[page]
  IN  [t |-> IF pos = 0 /\ a.cumulLeft = 0 THEN FromFirst(a.t, page, dec)
             ELSE FromWithin(a.t, page, Begun(n, pos, a.cumulLeft, dec,
                                              OfFirst(n.cnts[pos + 1], a.cumulLeft, dec))),
       cumulLeft |-> a.cumulLeft + Sums(n.cnts, pos)]

DecrementCounter(t, trace, leafStart, dec) ==
  FoldRight(LAMBDA at, a : IF a.t.err # "ok" THEN a ELSE DecrementAt(a, at[1], at[2], dec),
            trace, [t |-> t, cumulLeft |-> leafStart]).t

\* remove: n entries from that at place c on, or all there are (the query ends
\* after n of them).
Removed(c, end) ==
  IF end.t.err # "ok" THEN end.t ELSE DecrementCounter(end.t, c.trace, c.pos, end.cnt)

RemoveEntries(c, n) ==
  LET start == [t |-> c.t, page |-> c.page, pos |-> c.pos, on |-> TRUE, forward |-> TRUE, cnt |-> 0]
      step(cur, i) ==
        IF ~cur.on \/ cur.t.err # "ok" THEN cur
        ELSE IF ~OnEntry(cur.t, cur.page, cur.pos) THEN [cur EXCEPT !.t.err = "broken"]
        ELSE [StepCursor(cur, TRUE) EXCEPT !.cnt = @ + 1]
  IN  Removed(c, FoldLeft(step, start, [i \in 1 .. n |-> i]))

-----------------------------------------------------------------------------
(* What is in the tree.                                                    *)

\* The entries below each node, in the order of the references.
InOrder(t) ==
  LET below[p \in DOMAIN t.nodes] ==
        LET n == t.nodes[p]
        IN  IF n.level = 0 THEN n.keys
            ELSE FlattenSeq([i \in DOMAIN n.refs |->
                               IF IsNode(t, n.refs[i]) THEN below[n.refs[i]] ELSE <<>>])
  IN  below

Inner(t) == {p \in DOMAIN t.nodes : t.nodes[p].level > 0}

CountsTrueIn(t) ==
  LET below == InOrder(t)
  IN  \A p \in Inner(t) : LET n == t.nodes[p] IN
        \A i \in DOMAIN n.refs :
          n.cnts[i] = IF IsNode(t, n.refs[i]) THEN Len(below[n.refs[i]]) ELSE 0

\* A leaf is without entries and still there, being the last one.
Drained(t) == \E p \in DOMAIN t.nodes \ {Root} : t.nodes[p].keys = <<>>

-----------------------------------------------------------------------------
(* The calls.                                                              *)

\* init
Init ==
  /\ nodes = [p \in {Root} |-> EmptyRoot]
  /\ free = <<>>
  /\ flen = 2
  /\ cursor = Closed
  /\ walks = 0
  /\ loaded = 0
  /\ result = "ok"

\* insert
Insert(e) ==
  /\ Dup /\ e \in Range(InOrder(Tree)[Root]) => "again" \in Liberties
  /\ \E seen \in IF Dup THEN BOOLEAN ELSE {TRUE} :
       LET t == InsertEntry(Tree, e, seen)
       IN  Become(t) /\ result' = t.err /\ UNCHANGED <<cursor, walks>>

Load == loaded < Loaded /\ Insert(2 * (Loaded - loaded)) /\ loaded' = loaded + 1

\* initcursor and remove, with a query that ends after n entries: it may empty
\* leaves, and the last one of them stays.
BecomeWith(t, res) ==
  /\ Drained(t) => "drain" \in Liberties
  /\ t.free # free => "empty" \in Liberties /\ walks = 0 /\ Len(t.free) <= MaxFree
  /\ Become(t)
  /\ result' = IF res = "ok" THEN t.err ELSE res
  /\ UNCHANGED <<cursor, walks>>

RemoveFound(c, n) == BecomeWith(IF c.result = "ok" THEN RemoveEntries(c, n) ELSE c.t, c.result)

RemoveFrom(e, n) ==
  /\ "drifted" \notin Liberties => CountsTrueIn(Tree)
  /\ RemoveFound(Find(Tree, e), n)

\* initcursor and the first fetch, of an entry or of a place, by clients that
\* have emptied no leaf.
Begin(c, forward) ==
  /\ walks < MaxCursors
  /\ free = <<>>
  /\ ~cursor.on
  /\ forward \/ "backward" \in Liberties
  /\ result' = c.result
  /\ cursor' = IF c.result = "ok" THEN [on |-> TRUE, page |-> c.page, pos |-> c.pos, forward |-> forward]
                                  ELSE Closed
  /\ walks' = walks + 1

BeginOn(c, forward) == Begin(c, forward) /\ Become(c.t)
BeginOf(e, forward) == BeginOn(Find(Tree, e), forward)

BeginAt(position, forward) == BeginOn(FindByPos(Tree, position), forward)

\* The next fetch; the query may end the walk.
Fetch ==
  /\ cursor.on
  /\ cursor.page \in DOMAIN nodes
  /\ LET c == StepCursor([cursor EXCEPT !.on = TRUE] @@ [t |-> Tree], FALSE)
         there == [on |-> TRUE, page |-> c.page, pos |-> c.pos, forward |-> c.forward]
     IN  /\ Become(c.t)
         /\ \/ /\ ~c.on
               /\ cursor' = Closed
               /\ result' = IF c.t.err = "ok" THEN "nomore" ELSE c.t.err
            \/ /\ c.on /\ ~OnEntry(c.t, c.page, c.pos)
               /\ cursor' = there /\ result' = "broken"
            \/ /\ c.on /\ OnEntry(c.t, c.page, c.pos)
               /\ \/ cursor' = there /\ result' = "ok"
                  \/ cursor' = Closed /\ result' = "nomore"
  /\ UNCHANGED walks

\* The client gives the cursor up.
Drop == cursor.on /\ cursor' = Closed /\ result' = "ok" /\ UNCHANGED <<nodes, free, flen, walks>>

Call ==
  \/ \E e \in Entries : Insert(e)
  \/ \E e \in Entries, n \in 1 .. MaxRemove : RemoveFrom(e, n)
  \/ \E e \in Entries, forward \in BOOLEAN : BeginOf(e, forward)
  \/ \E position \in Positions, forward \in BOOLEAN : BeginAt(position, forward)
  \/ Fetch
  \/ Drop

Next == Load \/ (loaded = Loaded /\ Call /\ UNCHANGED loaded)

Spec == Init /\ [][Next]_vars

\* A client that walks goes on fetching until it is told there is no more, as
\* the loop of edbBTree_test.cpp does.
WalkSpec == Spec /\ WF_vars(loaded = Loaded /\ Fetch /\ UNCHANGED loaded)

-----------------------------------------------------------------------------
(* Properties.                                                             *)

TypeOK ==
  /\ Root \in DOMAIN nodes /\ DOMAIN nodes \subseteq 0 .. flen - 1
  /\ \A p \in DOMAIN nodes : LET n == nodes[p] IN
       /\ n.level \in Nat /\ n.keys \in Seq(Nat)
       /\ n.refs \in Seq(0 .. RefMod - 1) /\ n.cnts \in Seq(0 .. RefMod - 1)
       /\ n.left \in 0 .. RefMod - 1 /\ n.right \in 0 .. RefMod - 1
       /\ n.level > 0 => Len(n.refs) = Nkeys(n) + 1 /\ Len(n.cnts) = Nkeys(n) + 1
  /\ free \in Seq(2 .. flen - 1) /\ flen \in Nat /\ walks \in 0 .. MaxCursors
  /\ loaded \in 0 .. Loaded
  /\ cursor \in [on : BOOLEAN, page : Nat, pos : Int, forward : BOOLEAN]
  /\ result \in {"ok", "duplicate", "notfound", "nomore", "broken"}

StoredIn(t) == Range(InOrder(t)[Root])
Stored == StoredIn(Tree)

\* Every key of an inner node separates what is to its left and right.
Separated ==
  LET below == InOrder(Tree)
  IN  \A p \in Inner(Tree) : LET n == nodes[p] IN
        \A i \in 1 .. Nkeys(n) :
          /\ n.refs[i] # Dangling => \A e \in Range(below[n.refs[i]]) : e <= n.keys[i]
          /\ n.refs[i + 1] # Dangling => \A e \in Range(below[n.refs[i + 1]]) : e > n.keys[i]

\* The nodes of a level from left to right.
Row(level) ==
  LET row[l \in 0 .. nodes[Root].level] ==
        IF l = nodes[Root].level THEN <<Root>>
        ELSE FlattenSeq([i \in DOMAIN row[l + 1] |->
                           SelectSeq(nodes[row[l + 1][i]].refs, LAMBDA r : r # Dangling)])
  IN  row[level]

\* Every reference that does not dangle is to a node, every node is referenced
\* once, from the level above, and linked with the ones next to it.
Linked ==
  /\ \A p \in Inner(Tree) : Range(nodes[p].refs) \subseteq (DOMAIN nodes \cup {Dangling}) \ {Root}
  /\ \A level \in 0 .. nodes[Root].level : LET row == Row(level) IN
       \A i \in DOMAIN row :
         /\ nodes[row[i]].level = level
         /\ nodes[row[i]].left = IF i = 1 THEN None ELSE row[i - 1]
         /\ nodes[row[i]].right = IF i = Len(row) THEN None ELSE row[i + 1]
  /\ Total([i \in 1 .. nodes[Root].level + 1 |-> Len(Row(i - 1))]) = Cardinality(DOMAIN nodes)

\* No node is overfull, and none but the root is empty.
Filled ==
  \A p \in DOMAIN nodes :
    /\ Nkeys(nodes[p]) <= Capacity(p, nodes[p].level)
    /\ p # Root => nodes[p].keys # <<>>

WellFormed == Separated /\ Linked /\ Filled

\* The entries of the clients, those of the beginning as well.
Keys == Entries \cup {2 * i : i \in 1 .. Loaded}

Dangles == \E p \in Inner(Tree) : Dangling \in Range(nodes[p].refs)

\* How a search ends that finds nothing: the code takes a dangling reference for
\* one to a page.  Nor does it get a new node while a page is free.
Missed == IF Dangles THEN {"notfound", "broken"} ELSE {"notfound"}

\* An entry is found when the index has it, and only then; an insertion is
\* refused then, and only then, whatever it moves on its way down.  So is the
\* first one with a first part found, as long as the keys that separate are
\* still entries.
Found ==
  LET stored == Stored
      missed == Missed
      separateStored == \A p \in Inner(Tree) : Range(nodes[p].keys) \subseteq stored
  IN  /\ \A e \in Keys : Find(Tree, e).result \in IF e \in stored THEN {"ok"} ELSE missed
      /\ \A e \in Entries :
           InsertEntry(Tree, e, TRUE).err \in
             (IF free = <<>> THEN {} ELSE {"broken"})
               \cup (IF e \in stored THEN {"duplicate"} ELSE {"ok"})
      /\ separateStored =>
           \A f \in {FirstPart(e) : e \in Keys} :
             LET c == FindFirst(Tree, f)
                 mine == {e \in stored : FirstPart(e) = f}
             IN  IF mine = {} THEN c.result \in missed
                 ELSE c.result = "ok" /\ \A e \in mine : nodes[c.page].keys[c.pos + 1] <= e

\* The first entry of a leaf that has others to its left.
AtEdge(e) == LET c == Find(Tree, e) IN c.pos = 0 /\ nodes[c.page].left # None

\* When the counts are right getpos gives the position of an entry, and a
\* position up to the last one, and no other, finds the entry that is there; but
\* the first entry of a leaf may not be found by its position.
PositionsRight ==
  LET inOrder == InOrder(Tree)[Root]
  IN  CountsTrueIn(Tree) =>
        /\ \A i \in DOMAIN inOrder :
             /\ GetPos(Tree, inOrder[i]) = i - 1
             /\ LET c == FindByPos(Tree, i - 1)
                IN  IF c.result = "ok" THEN nodes[c.page].keys[c.pos + 1] = inOrder[i]
                    ELSE AtEdge(inOrder[i])
        /\ FindByPos(Tree, Len(inOrder)).result = "notfound"

\* A forward walk meets the entries in ascending order and leaves none out.
StepsInOrder ==
  LET inOrder == InOrder(Tree)[Root]
      next(e) == LET c == Find(Tree, e)
                 IN  StepCursor([t |-> Tree, on |-> TRUE, page |-> c.page, pos |-> c.pos,
                                 forward |-> TRUE], FALSE)
  IN  \A i \in DOMAIN inOrder :
        LET d == next(inOrder[i])
        IN  IF i = Len(inOrder) THEN ~d.on
            ELSE /\ inOrder[i] < inOrder[i + 1]
                 /\ d.on /\ OnEntry(d.t, d.page, d.pos)
                 /\ nodes[d.page].keys[d.pos + 1] = inOrder[i + 1]

\* Every count is right: it is updated on each insert and remove for each
\* search path.
CountsTrue == CountsTrueIn(Tree)

\* The tree keeps the promise of an index.
Index == INSTANCE SortedIndex WITH
           entries <- Stored,
           Entries <- Keys,
           Most <- MaxRemove
Implements == Index!Spec

\* When the counts are right, removing entries leaves them right at every level:
\* they are corrected afterwards, by how many entries were taken and from where.
RemovesKeepCounts ==
  [][LET after == [nodes |-> nodes', free |-> free', flen |-> flen', err |-> "ok"]
     IN  StoredIn(after) \subseteq Stored /\ CountsTrueIn(Tree) => CountsTrueIn(after)]_nodes

\* A walk that goes on ends, whatever is inserted and removed meanwhile.
WalkEnds == cursor.on ~> ~cursor.on
=============================================================================
