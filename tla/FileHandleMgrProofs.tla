------------------------ MODULE FileHandleMgrProofs ------------------------
(***************************************************************************)
(* Theorems about FileHandleMgr, for any number of files, names, places    *)
(* and pool sizes.  TypeOK and MruIsOpen together are inductive: that the  *)
(* list of handles has no duplicates and holds the slots that have one is  *)
(* what makes the drop of its last element meaningful, and everything else *)
(* rests on it.                                                            *)
(***************************************************************************)
EXTENDS FileHandleMgr, TLAPS

\* What is kept by every step.
IInv == TypeOK /\ MruIsOpen

-----------------------------------------------------------------------------
(* Lemmas about the list of handles: what remains of a list without        *)
(* duplicates when an element is erased, and what push_front adds to it.   *)

\* A sequence has no element twice.
Distinct(s) == \A i, j \in 1 .. Len(s) : s[i] = s[j] => i = j
\* A sequence has x among its elements.
Holds(s, x) == \E i \in 1 .. Len(s) : s[i] = x

\* Erasing the p-th element moves those behind it up by one.
LEMMA ErasedAt ==
  ASSUME NEW S, NEW s \in Seq(S), NEW p \in 1 .. Len(s)
  PROVE  /\ Erase(s, p) \in Seq(S) /\ Len(Erase(s, p)) = Len(s) - 1
         /\ \A i \in 1 .. Len(Erase(s, p)) :
              Erase(s, p)[i] = IF i < p THEN s[i] ELSE s[i + 1]
<1> DEFINE head == SubSeq(s, 1, p - 1)
           tail == SubSeq(s, p + 1, Len(s))
           t    == head \o tail
<1>1. head \in Seq(S) /\ Len(head) = p - 1 /\ \A i \in 1 .. p - 1 : head[i] = s[i]
  OBVIOUS
<1>2. /\ tail \in Seq(S) /\ Len(tail) = Len(s) - p
      /\ \A i \in 1 .. Len(s) - p : tail[i] = s[p + i]
  OBVIOUS
<1> HIDE DEF head, tail
<1>3. /\ t \in Seq(S) /\ Len(t) = Len(head) + Len(tail)
      /\ \A i \in 1 .. Len(t) :
           t[i] = IF i <= Len(head) THEN head[i] ELSE tail[i - Len(head)]
  <2>1. head \in Seq(S) /\ tail \in Seq(S)
    BY <1>1, <1>2
  <2>2. t \in Seq(S)
    BY <2>1
  <2>3. Len(t) = Len(head) + Len(tail)
    BY <2>1
  <2>4. \A i \in 1 .. Len(head) + Len(tail) :
          t[i] = IF i <= Len(head) THEN head[i] ELSE tail[i - Len(head)]
    BY <2>1
  <2>5. QED
    BY <2>2, <2>3, <2>4
<1> HIDE DEF t
<1>4. Len(t) = Len(s) - 1
  BY <1>1, <1>2, <1>3
<1>5. ASSUME NEW i \in 1 .. Len(t)
      PROVE  t[i] = IF i < p THEN s[i] ELSE s[i + 1]
  <2>1. CASE i < p
    BY <2>1, <1>1, <1>3, <1>4
  <2>2. CASE ~(i < p)
    <3>1. t[i] = tail[i - (p - 1)] /\ i - (p - 1) \in 1 .. Len(s) - p
      BY <2>2, <1>1, <1>3, <1>4
    <3>2. tail[i - (p - 1)] = s[p + (i - (p - 1))]
      BY <3>1, <1>2
    <3>3. p + (i - (p - 1)) = i + 1
      BY <1>4
    <3>4. QED  BY <3>1, <3>2, <3>3, <2>2
  <2>3. QED  BY <2>1, <2>2
<1>6. Erase(s, p) = t
  BY DEF Erase, head, tail, t
<1>7. QED
  BY <1>3, <1>4, <1>5, <1>6

\* Erasing an element of a list without duplicates removes it and nothing else.
LEMMA Erased ==
  ASSUME NEW S, NEW s \in Seq(S), NEW p \in 1 .. Len(s), Distinct(s)
  PROVE  /\ Erase(s, p) \in Seq(S) /\ Len(Erase(s, p)) = Len(s) - 1
         /\ Distinct(Erase(s, p))
         /\ \A x : Holds(Erase(s, p), x) <=> x # s[p] /\ Holds(s, x)
<1> DEFINE t == Erase(s, p)
<1>1. /\ t \in Seq(S) /\ Len(t) = Len(s) - 1
      /\ \A i \in 1 .. Len(t) : t[i] = IF i < p THEN s[i] ELSE s[i + 1]
  BY ErasedAt
<1> HIDE DEF t
<1>2. Distinct(t)
  BY <1>1 DEF Distinct
<1>3. ASSUME NEW i \in 1 .. Len(t)
      PROVE  t[i] # s[p] /\ \E j \in 1 .. Len(s) : s[j] = t[i]
  BY <1>1 DEF Distinct
<1>4. ASSUME NEW j \in 1 .. Len(s), s[j] # s[p]
      PROVE  \E i \in 1 .. Len(t) : t[i] = s[j]
  <2>1. CASE j < p
    BY <2>1, <1>1
  <2>2. CASE j > p
    <3>1. j - 1 \in 1 .. Len(t) /\ t[j - 1] = s[j]
      BY <2>2, <1>1
    <3>2. QED  BY <3>1
  <2>3. QED  BY <1>4, <2>1, <2>2
<1>5. ASSUME NEW x PROVE Holds(t, x) <=> x # s[p] /\ Holds(s, x)
  <2>1. Holds(t, x) => x # s[p] /\ Holds(s, x)
    BY <1>3 DEF Holds
  <2>2. ASSUME x # s[p], NEW j \in 1 .. Len(s), s[j] = x PROVE Holds(t, x)
    BY <1>4, <2>2 DEF Holds
  <2>3. QED  BY <2>1, <2>2 DEF Holds
<1>6. QED
  BY <1>1, <1>2, <1>5 DEF t

\* push_front of a new element to a list without duplicates adds it and nothing else.
LEMMA PushedFront ==
  ASSUME NEW S, NEW s \in Seq(S), NEW f \in S, Distinct(s), ~Holds(s, f)
  PROVE  /\ <<f>> \o s \in Seq(S) /\ Len(<<f>> \o s) = Len(s) + 1
         /\ Distinct(<<f>> \o s)
         /\ \A x : Holds(<<f>> \o s, x) <=> x = f \/ Holds(s, x)
<1> DEFINE t == <<f>> \o s
<1>1. t \in Seq(S) /\ Len(t) = Len(s) + 1
  OBVIOUS
<1>2. t[1] = f /\ \A i \in 1 .. Len(s) : t[i + 1] = s[i]
  OBVIOUS
<1> HIDE DEF t
<1>3. \A i \in 2 .. Len(t) : t[i] = s[i - 1] /\ i - 1 \in 1 .. Len(s)
  <2>1. \A i \in 2 .. Len(t) : i - 1 \in 1 .. Len(s) /\ (i - 1) + 1 = i
    BY <1>1
  <2>2. QED  BY <1>2, <2>1
<1>4. Distinct(t)
  <2> SUFFICES ASSUME NEW i \in 1 .. Len(t), NEW j \in 1 .. Len(t), t[i] = t[j]
               PROVE  i = j
    BY DEF Distinct
  <2>1. CASE i = 1 \/ j = 1
    <3>1. \A k \in 2 .. Len(t) : t[k] # t[1]
      BY <1>2, <1>3 DEF Holds
    <3>2. i \notin 2 .. Len(t) /\ j \notin 2 .. Len(t)
      BY <2>1, <3>1
    <3>3. QED  BY <3>2, <1>1
  <2>2. CASE i # 1 /\ j # 1
    <3>1. i \in 2 .. Len(t) /\ j \in 2 .. Len(t)
      BY <2>2, <1>1
    <3>2. i - 1 = j - 1
      BY <3>1, <1>3 DEF Distinct
    <3>3. QED  BY <3>2
  <2>3. QED  BY <2>1, <2>2
<1>5. ASSUME NEW i \in 1 .. Len(t) PROVE t[i] = f \/ Holds(s, t[i])
  BY <1>1, <1>2, <1>3 DEF Holds
<1>6. Holds(t, f)
  BY <1>1, <1>2 DEF Holds
<1>7. ASSUME NEW j \in 1 .. Len(s) PROVE Holds(t, s[j])
  <2>1. j + 1 \in 1 .. Len(t) /\ t[j + 1] = s[j]
    BY <1>1, <1>2
  <2>2. QED  BY <2>1 DEF Holds
<1>8. ASSUME NEW x PROVE Holds(t, x) <=> x = f \/ Holds(s, x)
  BY <1>5, <1>6, <1>7 DEF Holds
<1>9. QED
  BY <1>1, <1>4, <1>8 DEF t

\* pop_back, when there is something to pop.
LEMMA PoppedBack ==
  ASSUME NEW S, NEW s \in Seq(S), Len(s) > 0
  PROVE  /\ Len(s) \in 1 .. Len(s) /\ s[Len(s)] \in S
         /\ SubSeq(s, 1, Len(s) - 1) = Erase(s, Len(s))
<1>1. Len(s) \in 1 .. Len(s) /\ s[Len(s)] \in S
  OBVIOUS
<1>2. SubSeq(s, Len(s) + 1, Len(s)) = << >>
  OBVIOUS
<1>3. SubSeq(s, 1, Len(s) - 1) \in Seq(S)
  OBVIOUS
<1>4. SubSeq(s, 1, Len(s) - 1) \o << >> = SubSeq(s, 1, Len(s) - 1)
  BY <1>3
<1>5. QED
  BY <1>1, <1>2, <1>4 DEF Erase

\* The list of handles, in the terms of the lemmas.
LEMMA MruMeans ==
  IInv <=> /\ TypeOK
           /\ Distinct(mru)
           /\ \A f \in Fid : files[f].open <=> Holds(mru, f)
           /\ \A f \in Fid : files[f].open => ~files[f].free
BY DEF IInv, MruIsOpen, Distinct, Holds

\* Erasing the place of a slot that has a handle takes that slot out, and no other.
LEMMA ErasedSlot ==
  ASSUME IInv, NEW f \in Fid, files[f].open
  PROVE  LET t == Erase(mru, MruPos(f))
         IN  /\ t \in Seq(Fid) /\ Len(t) = Len(mru) - 1
             /\ Distinct(t)
             /\ \A x : Holds(t, x) <=> x # f /\ Holds(mru, x)
<1>1. mru \in Seq(Fid) /\ Distinct(mru) /\ Holds(mru, f)
  BY MruMeans DEF TypeOK
<1>2. MruPos(f) \in 1 .. Len(mru) /\ mru[MruPos(f)] = f
  BY <1>1 DEF MruPos, Holds
<1>3. QED
  BY <1>1, <1>2, Erased

\* A drop leaves the list and the handles in agreement.
LEMMA Dropped ==
  ASSUME IInv
  PROVE  /\ KeptFiles \in [Fid -> FileInfo]
         /\ KeptPos \in [Fid -> Positions]
         /\ KeptMru \in Seq(Fid)
         /\ Len(KeptMru) = IF PoolFull THEN Len(mru) - 1 ELSE Len(mru)
         /\ Distinct(KeptMru)
         /\ \A f \in Fid : KeptFiles[f].open <=> Holds(KeptMru, f)
         /\ \A f \in Fid : KeptFiles[f].open => files[f].open
         /\ \A f \in Fid : KeptFiles[f].free = files[f].free
<1>1. CASE ~PoolFull
  BY <1>1, MruMeans DEF KeptFiles, KeptPos, KeptMru, TypeOK
<1>2. CASE PoolFull
  <2>1. mru \in Seq(Fid) /\ Distinct(mru) /\ Len(mru) > 0
    BY <1>2, MruMeans DEF PoolFull, TypeOK
  <2>2. Len(mru) \in 1 .. Len(mru) /\ Lru \in Fid /\ KeptMru = Erase(mru, Len(mru))
    BY <1>2, <2>1, PoppedBack DEF Lru, KeptMru
  <2>3. /\ KeptMru \in Seq(Fid) /\ Len(KeptMru) = Len(mru) - 1
        /\ Distinct(KeptMru)
        /\ \A x : Holds(KeptMru, x) <=> x # Lru /\ Holds(mru, x)
    BY <2>1, <2>2, Erased DEF Lru
  <2>4. /\ KeptFiles = [files EXCEPT ![Lru].position = ospos[Lru], ![Lru].open = FALSE]
        /\ KeptPos = [ospos EXCEPT ![Lru] = 0]
    BY <1>2 DEF KeptFiles, KeptPos
  <2>5. KeptFiles \in [Fid -> FileInfo] /\ KeptPos \in [Fid -> Positions]
    BY <2>2, <2>4, ManagerAssumption DEF IInv, TypeOK, FileInfo
  <2>6. \A f \in Fid : /\ KeptFiles[f].open = (f # Lru /\ files[f].open)
                       /\ KeptFiles[f].free = files[f].free
    BY <2>2, <2>4 DEF IInv, TypeOK, FileInfo
  <2>7. QED
    BY <1>2, <2>3, <2>5, <2>6, MruMeans
<1>3. QED
  BY <1>1, <1>2

-----------------------------------------------------------------------------
(* The invariant, action by action.                                        *)

\* The constructor of the manager establishes the invariant.
LEMMA InitInvariant == Init => IInv
BY ManagerAssumption DEF Init, IInv, TypeOK, MruIsOpen, FileInfo, Fid

\* add(), which open() and create() end with, takes a slot that has no handle.
LEMMA AddFileInvariant ==
  ASSUME IInv, NEW name \in Names, AddFile(name), exists' \subseteq Names
  PROVE  IInv'
<1>1. PICK f \in Fid :
        /\ files[f].free
        /\ files' = [files EXCEPT ![f] = [name |-> name, open |-> FALSE,
                                          position |-> 0, free |-> FALSE]]
        /\ UNCHANGED <<name2fid, mru, poolSize, ospos>>
  BY DEF AddFile
<1>2. ~files[f].open
  BY <1>1 DEF IInv, MruIsOpen
<1>3. TypeOK'
  BY <1>1, ManagerAssumption DEF IInv, TypeOK, FileInfo
<1>4. \A g \in Fid : files'[g].open = files[g].open /\ (files'[g].open => ~files'[g].free)
  BY <1>1, <1>2, MruMeans DEF TypeOK, FileInfo
<1>5. MruIsOpen'
  BY <1>1, <1>4 DEF IInv, MruIsOpen
<1>6. QED
  BY <1>3, <1>5 DEF IInv

\* close() takes the slot out of the list exactly when it has a handle.
LEMMA CloseInvariant ==
  ASSUME IInv, NEW f \in Fid, Close(f)
  PROVE  IInv'
<1>1. /\ files' = [files EXCEPT ![f].open = FALSE, ![f].free = TRUE]
      /\ mru' = IF files[f].open THEN Erase(mru, MruPos(f)) ELSE mru
      /\ name2fid' = [n \in DOMAIN name2fid \ {files[f].name} |-> name2fid[n]]
      /\ ospos' = [ospos EXCEPT ![f] = 0]
      /\ UNCHANGED <<poolSize, exists>>
  BY DEF Close
<1>2. /\ mru' \in Seq(Fid) /\ Distinct(mru')
      /\ \A x : Holds(mru', x) <=> x # f /\ Holds(mru, x)
  <2>1. CASE files[f].open
    BY <2>1, <1>1, ErasedSlot
  <2>2. CASE ~files[f].open
    <3>1. mru' = mru /\ ~Holds(mru, f)
      BY <2>2, <1>1, MruMeans
    <3>2. QED
      BY <3>1, MruMeans DEF TypeOK
  <2>3. QED
    BY <2>1, <2>2
<1>3. files' \in [Fid -> FileInfo] /\ ospos' \in [Fid -> Positions]
  BY <1>1, ManagerAssumption DEF IInv, TypeOK, FileInfo
<1>4. TypeOK'
  BY <1>1, <1>2, <1>3 DEF IInv, TypeOK
<1>5. \A g \in Fid : /\ files'[g].open <=> g # f /\ files[g].open
                     /\ files'[g].free <=> g = f \/ files[g].free
  BY <1>1 DEF IInv, TypeOK, FileInfo
<1>6. /\ \A g \in Fid : files'[g].open <=> Holds(mru', g)
      /\ \A g \in Fid : files'[g].open => ~files'[g].free
  BY <1>2, <1>5, MruMeans
<1>7. MruIsOpen'
  BY <1>2, <1>6 DEF MruIsOpen, Distinct, Holds
<1>8. QED
  BY <1>4, <1>7 DEF IInv

\* handle() on a slot with a handle moves it to the front of the list.
LEMMA HandleHitInvariant ==
  ASSUME IInv, NEW f \in Fid, HandleHit(f)
  PROVE  IInv'
<1> DEFINE t == Erase(mru, MruPos(f))
<1>1. /\ files[f].open
      /\ mru' = <<f>> \o t
      /\ UNCHANGED <<files, name2fid, poolSize, ospos, exists>>
  BY DEF HandleHit
<1>2. t \in Seq(Fid) /\ Distinct(t) /\ \A x : Holds(t, x) <=> x # f /\ Holds(mru, x)
  BY <1>1, ErasedSlot
<1> HIDE DEF t
<1>3. /\ mru' \in Seq(Fid) /\ Distinct(mru')
      /\ \A x : Holds(mru', x) <=> x = f \/ Holds(t, x)
  BY <1>1, <1>2, PushedFront
<1>4. TypeOK'
  BY <1>1, <1>3 DEF IInv, TypeOK
<1>5. \A g \in Fid : files'[g].open <=> Holds(mru', g)
  BY <1>1, <1>2, <1>3, MruMeans
<1>6. MruIsOpen'
  BY <1>1, <1>3, <1>5, MruMeans DEF MruIsOpen, Distinct, Holds
<1>7. QED
  BY <1>4, <1>6 DEF IInv

\* handle() on a slot without one drops a handle if it must and adds one.
LEMMA HandleMissInvariant ==
  ASSUME IInv, NEW f \in Fid, HandleMiss(f)
  PROVE  IInv'
<1>1. /\ ~files[f].open /\ ~files[f].free
      /\ files' = [KeptFiles EXCEPT ![f].open = TRUE]
      /\ ospos' = [KeptPos EXCEPT ![f] = files[f].position]
      /\ mru' = <<f>> \o KeptMru
      /\ UNCHANGED <<name2fid, poolSize, exists>>
  BY DEF HandleMiss, Managed
<1>2. /\ KeptFiles \in [Fid -> FileInfo] /\ KeptPos \in [Fid -> Positions]
      /\ KeptMru \in Seq(Fid) /\ Distinct(KeptMru)
      /\ \A g \in Fid : /\ KeptFiles[g].open <=> Holds(KeptMru, g)
                        /\ KeptFiles[g].open => files[g].open
                        /\ KeptFiles[g].free = files[g].free
  BY Dropped
<1>3. /\ mru' \in Seq(Fid) /\ Distinct(mru')
      /\ \A x : Holds(mru', x) <=> x = f \/ Holds(KeptMru, x)
  BY <1>1, <1>2, PushedFront
<1>4. files' \in [Fid -> FileInfo] /\ ospos' \in [Fid -> Positions]
  <2>1. files[f].position \in Positions
    BY DEF IInv, TypeOK, FileInfo
  <2>2. QED
    BY <2>1, <1>1, <1>2 DEF FileInfo
<1>5. TypeOK'
  BY <1>1, <1>3, <1>4 DEF IInv, TypeOK
<1>6. \A g \in Fid : /\ files'[g].open <=> g = f \/ KeptFiles[g].open
                     /\ files'[g].free = KeptFiles[g].free
  BY <1>1, <1>2 DEF FileInfo
<1>7. /\ \A g \in Fid : files'[g].open <=> Holds(mru', g)
      /\ \A g \in Fid : files'[g].open => ~files'[g].free
  BY <1>1, <1>2, <1>3, <1>6, MruMeans
<1>8. MruIsOpen'
  BY <1>3, <1>7 DEF MruIsOpen, Distinct, Holds
<1>9. QED
  BY <1>5, <1>8 DEF IInv

\* handle() that throws because the file is gone has dropped a handle at most.
LEMMA HandleFailsInvariant ==
  ASSUME IInv, NEW f \in Fid, HandleFails(f)
  PROVE  IInv'
<1>1. /\ files' = KeptFiles /\ ospos' = KeptPos /\ mru' = KeptMru
      /\ UNCHANGED <<name2fid, poolSize, exists>>
  BY DEF HandleFails
<1>2. TypeOK'
  BY <1>1, Dropped DEF IInv, TypeOK
<1>3. /\ Distinct(mru')
      /\ \A g \in Fid : files'[g].open <=> Holds(mru', g)
      /\ \A g \in Fid : files'[g].open => ~files'[g].free
  BY <1>1, Dropped, MruMeans
<1>4. MruIsOpen'
  BY <1>3 DEF MruIsOpen, Distinct, Holds
<1>5. QED
  BY <1>2, <1>4 DEF IInv

\* Every operation of the manager, and every step of its clients, keeps the invariant.
LEMMA StepInvariant ==
  ASSUME IInv, [Next]_vars
  PROVE  IInv'
<1>1. ASSUME NEW name \in Names, Open(name) PROVE IInv'
  BY <1>1, AddFileInvariant DEF Open, IInv, TypeOK
<1>2. ASSUME NEW name \in Names, Create(name) PROVE IInv'
  BY <1>2, AddFileInvariant DEF Create, IInv, TypeOK
<1>3. ASSUME NEW name \in Names, Remove(name) PROVE IInv'
  BY <1>3 DEF Remove, IInv, TypeOK, MruIsOpen
<1>4. ASSUME NEW f \in Fid, Close(f) PROVE IInv'
  BY <1>4, CloseInvariant
<1>5. ASSUME NEW f \in Fid, HandleHit(f) PROVE IInv'
  BY <1>5, HandleHitInvariant
<1>6. ASSUME NEW f \in Fid, HandleMiss(f) PROVE IInv'
  BY <1>6, HandleMissInvariant
<1>7. ASSUME NEW f \in Fid, HandleFails(f) PROVE IInv'
  BY <1>7, HandleFailsInvariant
<1>8. ASSUME NEW f \in Fid, NEW pos \in Positions, Move(f, pos) PROVE IInv'
  BY <1>8 DEF Move, IInv, TypeOK, MruIsOpen
<1>9. ASSUME NEW n \in PoolSizes, SetPoolSize(n) PROVE IInv'
  BY <1>9, ManagerAssumption DEF SetPoolSize, IInv, TypeOK, MruIsOpen
<1>10. CASE UNCHANGED vars
  BY <1>10 DEF vars, IInv, TypeOK, MruIsOpen
<1>11. QED
  BY <1>1, <1>2, <1>3, <1>4, <1>5, <1>6, <1>7, <1>8, <1>9, <1>10 DEF Next

-----------------------------------------------------------------------------
(* The theorems.                                                           *)

\* TypeOK and MruIsOpen hold together in every state of every behaviour.
LEMMA Invariance == Spec => []IInv
<1>1. QED
  BY InitInvariant, StepInvariant, PTL DEF Spec

\* The state of the manager is always of its type, whatever its clients do.
THEOREM TypeCorrect == Spec => []TypeOK
<1>1. IInv => TypeOK
  BY DEF IInv
<1>2. QED
  BY <1>1, Invariance, PTL

\* The list of handles is exactly the slots that have one: close() and the
\* drop of handle() leak no handle and leave no slot in the list without one.
THEOREM HandlesListed == Spec => []MruIsOpen
<1>1. IInv => MruIsOpen
  BY DEF IInv
<1>2. QED
  BY <1>1, Invariance, PTL

\* Only setPoolSize can take the number of handles beyond the pool: handle() drops one
\* handle before it opens another in a full pool.
LEMMA StepPoolBound ==
  ASSUME IInv, PoolBound, [Next /\ NoShrink]_vars
  PROVE  PoolBound'
<1> USE DEF PoolBound
<1>1. Len(mru) \in Nat /\ poolSize \in Nat \ {0}
  BY DEF IInv, TypeOK
<1>2. CASE UNCHANGED <<mru, poolSize>>
  BY <1>2
<1>3. ASSUME NEW f \in Fid, Close(f) PROVE PoolBound'
  <2>1. poolSize' = poolSize /\ (mru' = mru \/ (files[f].open /\ mru' = Erase(mru, MruPos(f))))
    BY <1>3 DEF Close
  <2>2. QED
    BY <2>1, <1>1, ErasedSlot
<1>4. ASSUME NEW f \in Fid, HandleHit(f) PROVE PoolBound'
  <2> DEFINE t == Erase(mru, MruPos(f))
  <2>1. files[f].open /\ mru' = <<f>> \o t /\ poolSize' = poolSize
    BY <1>4 DEF HandleHit
  <2>2. t \in Seq(Fid) /\ Len(t) = Len(mru) - 1
    BY <2>1, ErasedSlot
  <2> HIDE DEF t
  <2>3. QED
    BY <2>1, <2>2, <1>1
<1>5. ASSUME NEW f \in Fid, HandleMiss(f) PROVE PoolBound'
  <2>1. mru' = <<f>> \o KeptMru /\ poolSize' = poolSize
    BY <1>5 DEF HandleMiss
  <2>2. /\ KeptMru \in Seq(Fid)
        /\ Len(KeptMru) = IF PoolFull THEN Len(mru) - 1 ELSE Len(mru)
    BY Dropped
  <2>3. Len(KeptMru) < poolSize
    BY <2>2, <1>1 DEF PoolFull
  <2>4. QED
    BY <2>1, <2>2, <2>3, <1>1
<1>6. ASSUME NEW f \in Fid, HandleFails(f) PROVE PoolBound'
  <2>1. mru' = KeptMru /\ poolSize' = poolSize
    BY <1>6 DEF HandleFails
  <2>2. Len(KeptMru) = IF PoolFull THEN Len(mru) - 1 ELSE Len(mru)
    BY Dropped
  <2>3. QED
    BY <2>1, <2>2, <1>1
<1>7. ASSUME NEW n \in PoolSizes, SetPoolSize(n), NoShrink PROVE PoolBound'
  BY <1>1, <1>7 DEF SetPoolSize, NoShrink
<1>8. QED
  BY <1>2, <1>3, <1>4, <1>5, <1>6, <1>7
  DEF Next, vars, Open, Create, AddFile, Remove, Move

\* Only setPoolSize can make the number of open handles exceed the pool's size.
THEOREM PoolKeeps == Spec => PoolKept
<1>1. IInv /\ [Next]_vars => [PoolBound /\ NoShrink => PoolBound']_vars
  <2> SUFFICES ASSUME IInv, [Next]_vars, PoolBound, NoShrink PROVE PoolBound'
    OBVIOUS
  <2>1. [Next /\ NoShrink]_vars
    OBVIOUS
  <2>2. QED
    BY <2>1, StepPoolBound
<1>2. QED
  BY <1>1, Invariance, PTL DEF Spec, PoolKept

\* As long as no client shrinks the pool below the number of open handles, the
\* manager never has more handles open than the size of the pool.
THEOREM PoolBounded == CarefulSpec => []PoolBound
<1>1. Init => IInv /\ PoolBound
  BY InitInvariant, ManagerAssumption DEF Init, PoolBound
<1>2. IInv /\ PoolBound /\ [Next /\ NoShrink]_vars => IInv' /\ PoolBound'
  <2>1. [Next /\ NoShrink]_vars => [Next]_vars
    OBVIOUS
  <2>2. QED
    BY <2>1, StepInvariant, StepPoolBound
<1>3. QED
  BY <1>1, <1>2, PTL DEF CarefulSpec

-----------------------------------------------------------------------------
(* The manager implements FilePointers.  Only a drop moves the pointer of  *)
(* a file from its handle to its slot, and only a reopening moves it back: *)
(* neither changes it.                                                     *)

\* The drop moves the place of a file from the handle to the slot, and changes none.
LEMMA DroppedPointers ==
  ASSUME IInv, NEW f \in Fid
  PROVE  (IF KeptFiles[f].open THEN KeptPos[f] ELSE KeptFiles[f].position) = Pointer(f)
<1>1. CASE ~PoolFull
  BY <1>1 DEF KeptFiles, KeptPos, Pointer
<1>2. CASE PoolFull
  <2>1. mru \in Seq(Fid) /\ Len(mru) > 0
    BY <1>2 DEF PoolFull, IInv, TypeOK
  <2>2. Lru \in Fid /\ Holds(mru, Lru)
    BY <2>1, PoppedBack DEF Lru, Holds
  <2>3. files[Lru].open
    BY <2>2, MruMeans
  <2>4. /\ KeptFiles = [files EXCEPT ![Lru].position = ospos[Lru], ![Lru].open = FALSE]
        /\ KeptPos = [ospos EXCEPT ![Lru] = 0]
    BY <1>2 DEF KeptFiles, KeptPos
  <2>5. QED
    BY <2>2, <2>3, <2>4 DEF Pointer, IInv, TypeOK, FileInfo
<1>3. QED
  BY <1>1, <1>2

\* A step that keeps the set of managed files and their pointers hands out a
\* file, at most.
LEMMA SamePointers ==
  ASSUME TypeOK', Managed' = Managed, \A f \in Managed : Pointer(f)' = Pointer(f)
  PROVE  Pointers!PointersNext
<1>1. UNCHANGED PointerMap
  BY DEF PointerMap
<1>2. Last' \in Fid \cup {NoFid}
  BY DEF TypeOK, Last
<1>3. QED
  BY <1>1, <1>2 DEF Pointers!Hand, Pointers!PointersNext

\* A manager without files has no pointers.
LEMMA RefineInit == Init => Pointers!PointersInit
<1> SUFFICES ASSUME Init PROVE Pointers!PointersInit
  OBVIOUS
<1>1. Managed = {}
  BY DEF Init, Managed
<1>2. QED
  BY <1>1 DEF PointerMap, Pointers!PointersInit, Last, Init

\* add() gives a file a pointer at its start.
LEMMA RefineAddFile ==
  ASSUME IInv, NEW name \in Names, AddFile(name)
  PROVE  Pointers!PointersNext
<1>1. PICK f \in Fid :
        /\ files[f].free
        /\ files' = [files EXCEPT ![f] = [name |-> name, open |-> FALSE,
                                          position |-> 0, free |-> FALSE]]
        /\ UNCHANGED <<mru, ospos>>
  BY DEF AddFile
<1>2. f \notin Managed /\ Managed' = Managed \cup {f}
  BY <1>1 DEF Managed, IInv, TypeOK
<1>3. \A g \in Managed' : Pointer(g)' = IF g = f THEN 0 ELSE Pointer(g)
  BY <1>1 DEF Pointer, Managed, IInv, TypeOK
<1>4. Pointers!Manage(f)
  BY <1>1, <1>2, <1>3 DEF Pointers!Manage, PointerMap, Last
<1>5. QED
  BY <1>4 DEF Pointers!PointersNext

\* close() releases the pointer of its file and keeps all others.
LEMMA RefineClose ==
  ASSUME IInv, NEW f \in Fid, Close(f), TypeOK'
  PROVE  Pointers!PointersNext
<1>1. /\ f \in Managed
      /\ files' = [files EXCEPT ![f].open = FALSE, ![f].free = TRUE]
      /\ ospos' = [ospos EXCEPT ![f] = 0]
  BY DEF Close
<1>2. Managed' = Managed \ {f}
  BY <1>1 DEF Managed, IInv, TypeOK, FileInfo
<1>3. \A g \in Managed' : Pointer(g)' = Pointer(g)
  BY <1>1, <1>2 DEF Pointer, Managed, IInv, TypeOK
<1>4. Last' \in Fid \cup {NoFid}
  BY DEF TypeOK, Last
<1>5. Pointers!Release(f)
  BY <1>1, <1>2, <1>3, <1>4 DEF Pointers!Release, PointerMap
<1>6. QED
  BY <1>5 DEF Pointers!PointersNext

\* A drop and a reopening move no pointer.
LEMMA RefineHandleMiss ==
  ASSUME IInv, NEW f \in Fid, HandleMiss(f), TypeOK'
  PROVE  Pointers!PointersNext
<1>1. /\ ~files[f].open
      /\ files' = [KeptFiles EXCEPT ![f].open = TRUE]
      /\ ospos' = [KeptPos EXCEPT ![f] = files[f].position]
  BY DEF HandleMiss
<1>2. /\ KeptFiles \in [Fid -> FileInfo] /\ KeptPos \in [Fid -> Positions]
      /\ \A g \in Fid : KeptFiles[g].free = files[g].free
  BY Dropped
<1>3. Managed' = Managed
  BY <1>1, <1>2 DEF Managed, FileInfo
<1>4. \A g \in Managed : Pointer(g)' = Pointer(g)
  <2> SUFFICES ASSUME NEW g \in Fid PROVE Pointer(g)' = Pointer(g)
    BY DEF Managed
  <2>1. CASE g = f
    BY <2>1, <1>1, <1>2 DEF Pointer, FileInfo
  <2>2. CASE g # f
    <3>1. files'[g] = KeptFiles[g] /\ ospos'[g] = KeptPos[g]
      BY <2>2, <1>1, <1>2
    <3>2. QED
      BY <3>1, DroppedPointers DEF Pointer
  <2>3. QED
    BY <2>1, <2>2
<1>5. QED
  BY <1>3, <1>4, SamePointers

\* A drop after which the reopening fails moves no pointer.
LEMMA RefineHandleFails ==
  ASSUME IInv, NEW f \in Fid, HandleFails(f), TypeOK'
  PROVE  Pointers!PointersNext
<1>1. files' = KeptFiles /\ ospos' = KeptPos
  BY DEF HandleFails
<1>2. Managed' = Managed
  BY <1>1, Dropped DEF Managed
<1>3. \A g \in Managed : Pointer(g)' = Pointer(g)
  BY <1>1, DroppedPointers DEF Pointer, Managed
<1>4. QED
  BY <1>2, <1>3, SamePointers

\* A client moves the pointer of the file it was given last.
LEMMA RefineMove ==
  ASSUME IInv, NEW f \in Fid, NEW pos \in Positions, Move(f, pos)
  PROVE  Pointers!PointersNext
<1>1. /\ mru # << >> /\ f = mru[1]
      /\ ospos' = [ospos EXCEPT ![f] = pos] /\ UNCHANGED <<files, mru>>
  BY DEF Move
<1>2. files[f].open /\ f \in Managed /\ Managed' = Managed
  <2>1. mru \in Seq(Fid) /\ 1 \in 1 .. Len(mru)
    BY <1>1 DEF IInv, TypeOK
  <2>2. files[f].open
    BY <1>1, <2>1 DEF IInv, MruIsOpen
  <2>3. QED
    BY <1>1, <2>2 DEF Managed, IInv, MruIsOpen
<1>3. \A g \in Managed : Pointer(g)' = IF g = f THEN pos ELSE Pointer(g)
  BY <1>1, <1>2 DEF Pointer, Managed, IInv, TypeOK
<1>4. Pointers!Seek(f, pos)
  BY <1>1, <1>2, <1>3 DEF Pointers!Seek, PointerMap, Last
<1>5. QED
  BY <1>4 DEF Pointers!PointersNext

\* Every step maps to a step of FilePointers or a stutter.
LEMMA RefineStep ==
  ASSUME IInv, [Next]_vars
  PROVE  [Pointers!PointersNext]_<<PointerMap, Last>>
<1>1. TypeOK'
  BY StepInvariant DEF IInv
<1>2. ASSUME NEW name \in Names, Open(name) \/ Create(name) PROVE Pointers!PointersNext
  BY <1>2, RefineAddFile DEF Open, Create
<1>3. ASSUME NEW f \in Fid, Close(f) PROVE Pointers!PointersNext
  BY <1>1, <1>3, RefineClose
<1>4. ASSUME NEW f \in Fid, HandleMiss(f) \/ HandleFails(f) PROVE Pointers!PointersNext
  BY <1>1, <1>4, RefineHandleMiss, RefineHandleFails
<1>5. ASSUME NEW f \in Fid, NEW pos \in Positions, Move(f, pos) PROVE Pointers!PointersNext
  BY <1>5, RefineMove
<1>6. CASE UNCHANGED <<files, ospos>>
  BY <1>1, <1>6, SamePointers DEF Managed, Pointer
<1>7. ASSUME NEW name \in Names, Remove(name) PROVE UNCHANGED <<files, ospos>>
  BY <1>7 DEF Remove
<1>8. ASSUME NEW f \in Fid, HandleHit(f) PROVE UNCHANGED <<files, ospos>>
  BY <1>8 DEF HandleHit
<1>9. ASSUME NEW n \in PoolSizes, SetPoolSize(n) PROVE UNCHANGED <<files, ospos>>
  BY <1>9 DEF SetPoolSize
<1>10. CASE UNCHANGED vars
  BY <1>10, <1>6 DEF vars
<1>11. QED
  BY <1>2, <1>3, <1>4, <1>5, <1>6, <1>7, <1>8, <1>9, <1>10 DEF Next

\* The manager implements one file pointer per managed file: however often
\* handles are dropped, reopened, closed and their slots reused, handle() gives
\* a file "positioned at the place last operation leaved it".
THEOREM ManagerKeepsPointers == Spec => ImplementsFilePointers
<1>1. QED
  BY Invariance, RefineInit, RefineStep, PTL
  DEF Spec, ImplementsFilePointers, Pointers!PointersSpec, Pointers!vars
=============================================================================
