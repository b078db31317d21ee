-------------------------- MODULE PagedFileProofs ---------------------------
(***************************************************************************)
(* Theorems about the clients of the shared pagers, for any page sizes,    *)
(* lengths and numbers of uses: the state is well typed, no pager is       *)
(* deleted under a client, the length of a paged file covers its pages,    *)
(* and both files keep what is written in them.                            *)
(***************************************************************************)
EXTENDS PagedFile, SharedPagersProofs

\* What TypeOK says, with all pages within the bound of their files.
Typed ==
  /\ Sound(Stores, MaxLength)
  /\ cachePg \in PageSizes
  /\ pg \in PageSizes \cup {None} /\ flen \in Nat
  /\ curPos \in 0 .. MaxLength \cup {None}
  /\ wrote \in BOOLEAN

\* What is kept by every step: the two depend on each other.
IInv == Typed /\ PagersLive

\* The constants are what their assumptions say.
LEMMA Givens ==
  /\ MaxLength \in Nat
  /\ Paged \in Files /\ Cached \in Files /\ Paged # Cached
  /\ PageSizes \subseteq Nat \ {0} /\ None \notin PageSizes
  /\ \A z \in PageSizes : WholePages(MaxLength, z)
  /\ Values \subseteq Int /\ Junk \notin Values /\ Zero \notin Values
BY PagedFileAssumption, PagersAssumption DEF None, Junk, Zero, WholePages

\* The state of the files and pagers after a step is what the step makes of
\* it.
LEMMA BecomesIs ==
  ASSUME NEW t, Becomes(t), Sound(t, MaxLength)
  PROVE  Stores' = t
BY DEF Becomes, Sound, Stores

\* Typed says what TypeOK says.
LEMMA TypedOK == Typed => TypeOK
<1> SUFFICES ASSUME Typed PROVE TypeOK
  OBVIOUS
<1>1. /\ disk \in [Files -> Seq(Int)] /\ DOMAIN pagers \subseteq PageSizes
      /\ \A z \in DOMAIN pagers : PagerWhole(z, MaxLength, pagers[z])
  BY DEF Typed, Sound, Stores
<1>2. PagersTyped
  BY <1>1 DEF PagersTyped, PagerWhole, PageMap, Typed
<1>3. QED  BY <1>2 DEF TypeOK, Typed

\* A pager a client has: its pages and its uses are sound.
LEMMA ClientPagers ==
  ASSUME IInv
  PROVE  /\ cachePg \in DOMAIN Stores.pagers
         /\ pg # None => pg \in DOMAIN Stores.pagers
         /\ Stores.disk = disk /\ Stores.pagers = pagers
BY DEF IInv, PagersLive, Stores

\* The invariant holds before the first call.
LEMMA InitTyped == Init => IInv
<1> SUFFICES ASSUME Init PROVE IInv
  OBVIOUS
<1>1. pagers = [z \in {cachePg} |-> [use |-> 1, pages |-> <<>>]] /\ cachePg \in PageSizes
  BY DEF Init, NewPager
<1>2. DOMAIN pagers = {cachePg} /\ pagers[cachePg] = [use |-> 1, pages |-> <<>>]
  BY <1>1
<1>3. PageMap(cachePg, MaxLength, <<>>)
  BY DEF PageMap
<1>4. PagerWhole(cachePg, MaxLength, pagers[cachePg])
  BY <1>2, <1>3 DEF PagerWhole
<1>5. disk \in [Files -> Seq(Int)]
  BY DEF Init
<1>6. Sound(Stores, MaxLength)
  BY <1>1, <1>2, <1>4, <1>5 DEF Sound, Stores
<1>7. Typed
  <2>1. flen \in Nat /\ curPos \in 0 .. MaxLength /\ pg = None
    BY Givens DEF Init
  <2>2. wrote \in BOOLEAN
    BY DEF Init
  <2>3. QED  BY <1>1, <1>6, <2>1, <2>2 DEF Typed
<1>8. PagersLive
  BY <1>2, Givens DEF PagersLive, Init
<1>9. QED  BY <1>7, <1>8 DEF IInv

\* The uses of the pagers stay, and so do the clients of each.
SameUses(s, t) ==
  DOMAIN t.pagers = DOMAIN s.pagers /\ \A z \in DOMAIN s.pagers : t.pagers[z].use = s.pagers[z].use

\* Pagers stay live while nothing changes their uses.
LEMMA LiveSame ==
  ASSUME PagersLive, SameUses(Stores, Stores'), UNCHANGED <<cachePg, pg>>
  PROVE  PagersLive'
<1>1. DOMAIN pagers' = DOMAIN pagers /\ \A z \in DOMAIN pagers : pagers'[z].use = pagers[z].use
  BY DEF SameUses, Stores
<1>2. QED  BY <1>1 DEF PagersLive

-----------------------------------------------------------------------------
(* A client writes in a page of the paged file.                            *)

\* Where the pager of the paged file has a page.
Key(page) == <<Paged, page>>

\* A page of that pager with v written in some of its cells.
Entry(s, page, from, to, v) ==
  [data |-> [i \in 1 .. pg |-> IF i \in from .. to THEN v ELSE PagesIn(s, pg)[Key(page)].data[i]],
   dirty |-> TRUE]

\* The client may write a page its pager has, and nothing else changes.
LEMMA OverwrittenSound ==
  ASSUME NEW b \in Nat, NEW s, Sound(s, b), pg \in DOMAIN s.pagers, NEW page,
         Key(page) \in DOMAIN PagesIn(s, pg), NEW from \in Nat, NEW to \in Nat, NEW v \in Int
  PROVE  LET t == Overwritten(s, page, from, to, v)
             q == [PagesIn(s, pg) EXCEPT ![Key(page)] = Entry(s, page, from, to, v)]
         IN  Sound(t, b) /\ t.disk = s.disk /\ OnlyPages(s, t, pg, q)
<1> DEFINE e == Entry(s, page, from, to, v)
           q == [PagesIn(s, pg) EXCEPT ![Key(page)] = e]
<1>1. PageMap(pg, b, PagesIn(s, pg))
  BY SoundAt
<1>2. PagesIn(s, pg)[Key(page)] \in PageType(pg)
  BY <1>1 DEF PageMap
<1>3. e \in PageType(pg)
  BY <1>2 DEF PageType, Entry
<1>4. DOMAIN q = DOMAIN PagesIn(s, pg)
  OBVIOUS
<1>5. \A k \in DOMAIN q : q[k] = IF k = Key(page) THEN e ELSE PagesIn(s, pg)[k]
  OBVIOUS
<1>6. q = [k \in DOMAIN q |-> q[k]]
  BY <1>1 DEF PageMap
<1>7. Overwritten(s, page, from, to, v) = [s EXCEPT !.pagers[pg].pages = q]
  BY DEF Overwritten, PagesIn, Key, Entry
<1> HIDE DEF e, q
<1>8. PageMap(pg, b, q)
  BY <1>1, <1>3, <1>4, <1>5, <1>6 DEF PageMap
<1>9. QED  BY <1>7, <1>8, PutPages DEF q, e

\* A page that is fetched or faked is in the pager then.
LEMMA PageLoaded ==
  ASSUME IInv, pg # None, NEW page \in Nat, InBound(page), NEW data \in [1 .. pg -> Int]
  PROVE  LET t == WithPage(Stores, pg, Paged, page, data)
         IN  /\ Sound(t, MaxLength) /\ t.disk = disk /\ SameUses(Stores, t)
             /\ OnlyPages(Stores, t, pg, Joined(PagesIn(Stores, pg), OnePage(Paged, page, data)))
             /\ pg \in DOMAIN t.pagers
             /\ Key(page) \in DOMAIN PagesIn(t, pg)
<1> DEFINE t == WithPage(Stores, pg, Paged, page, data)
<1>1. MaxLength \in Nat /\ Paged \in Files /\ Sound(Stores, MaxLength) /\ pg \in DOMAIN Stores.pagers
  BY ClientPagers, Givens DEF IInv, Typed
<1>2. /\ Sound(t, MaxLength) /\ t.disk = Stores.disk
      /\ OnlyPages(Stores, t, pg, Joined(PagesIn(Stores, pg), OnePage(Paged, page, data)))
  <2>1. PageFits(MaxLength, pg, page)
    BY DEF InBound, PageFits
  <2>2. QED  BY <1>1, <2>1, WithPageSound
<1> HIDE DEF t
<1>3. SameUses(Stores, t) /\ pg \in DOMAIN t.pagers
  BY <1>1, <1>2 DEF OnlyPages, SameUses
<1>4. Key(page) \in DOMAIN PagesIn(t, pg)
  BY <1>2 DEF OnlyPages, Joined, OnePage, Key
<1>5. QED  BY <1>2, <1>3, <1>4, ClientPagers DEF t

\* The contents of a page that is fetched, and of one that is not read.
LEMMA LoadedData ==
  ASSUME IInv, pg # None, NEW page \in Nat
  PROVE  /\ Image(Stores, pg, Paged, page) \in [1 .. pg -> Int]
         /\ [i \in 1 .. pg |-> Junk] \in [1 .. pg -> Int]
<1>1. MaxLength \in Nat /\ Paged \in Files /\ Sound(Stores, MaxLength) /\ pg \in PageSizes
  BY Givens DEF IInv, Typed
<1>2. QED  BY <1>1, ImageTyped DEF Junk

\* What a write in a page makes of the files and pagers.
LEMMA PutSound ==
  ASSUME IInv, pg # None, NEW page \in Nat, InBound(page), NEW data \in [1 .. pg -> Int],
         NEW from \in Nat, NEW to \in Nat, NEW v \in Values,
         NEW t, t = Overwritten(WithPage(Stores, pg, Paged, page, data), page, from, to, v)
  PROVE  Sound(t, MaxLength) /\ SameUses(Stores, t)
<1> DEFINE u == WithPage(Stores, pg, Paged, page, data)
           q == [PagesIn(u, pg) EXCEPT ![Key(page)] = Entry(u, page, from, to, v)]
<1>1. /\ Sound(u, MaxLength) /\ SameUses(Stores, u) /\ pg \in DOMAIN u.pagers
      /\ Key(page) \in DOMAIN PagesIn(u, pg)
  BY PageLoaded
<1> HIDE DEF u
<1>2. Sound(t, MaxLength) /\ OnlyPages(u, t, pg, q)
  <2>1. MaxLength \in Nat /\ v \in Int /\ t = Overwritten(u, page, from, to, v)
    BY Givens DEF u
  <2>2. QED  BY <1>1, <2>1, OverwrittenSound
<1>3. QED  BY <1>1, <1>2 DEF SameUses, OnlyPages

-----------------------------------------------------------------------------
(* Type correctness, and that clients keep their pagers.                   *)

\* The steps of a paged file that neither take nor give back a pager.
PagedStep ==
  \/ \E page \in 0 .. MaxLength - 1 :
       FetchPage(page) \/ \E v \in Values : PutFetched(page, v) \/ PutFaked(page, v)
  \/ Flush \/ ClosePaged
  \/ \E newSize \in 0 .. MaxLength : ChsizePaged(newSize)

\* Those steps leave the uses of the pagers as they are.
LEMMA PagedStepSame ==
  ASSUME IInv, PagedStep
  PROVE  Sound(Stores', MaxLength) /\ SameUses(Stores, Stores')
<1>1. /\ pg # None /\ pg \in DOMAIN Stores.pagers /\ pg \in Nat \ {0}
      /\ MaxLength \in Nat /\ Paged \in Files /\ Sound(Stores, MaxLength)
  <2>1. pg # None
    BY DEF PagedStep, FetchPage, PutFetched, PutFaked, Flush, ClosePaged, ChsizePaged
  <2>2. QED  BY <2>1, ClientPagers, Givens, PagersAssumption DEF IInv, Typed
<1>2. ASSUME NEW page \in 0 .. MaxLength - 1, FetchPage(page)
      PROVE  Sound(Stores', MaxLength) /\ SameUses(Stores, Stores')
  <2>1. page \in Nat /\ InBound(page) /\ Becomes(Fetch(Stores, pg, Paged, page))
    BY <1>2 DEF FetchPage
  <2>2. /\ Sound(Fetch(Stores, pg, Paged, page), MaxLength)
        /\ SameUses(Stores, Fetch(Stores, pg, Paged, page))
    BY <1>1, <2>1, LoadedData, PageLoaded DEF Fetch
  <2>3. QED  BY <2>1, <2>2, BecomesIs
<1>3. ASSUME NEW page \in 0 .. MaxLength - 1, NEW v \in Values, PutFetched(page, v)
      PROVE  Sound(Stores', MaxLength) /\ SameUses(Stores, Stores')
  <2>1. PICK from \in 1 .. pg : \E to \in from .. pg :
          Becomes(Overwritten(Fetch(Stores, pg, Paged, page), page, from, to, v))
    BY <1>3 DEF PutFetched
  <2>2. PICK to \in from .. pg :
          Becomes(Overwritten(Fetch(Stores, pg, Paged, page), page, from, to, v))
    BY <2>1
  <2>3. page \in Nat /\ from \in Nat /\ to \in Nat /\ InBound(page)
    BY <1>1, <1>3 DEF PutFetched
  <2> DEFINE t == Overwritten(Fetch(Stores, pg, Paged, page), page, from, to, v)
  <2>4. Sound(t, MaxLength) /\ SameUses(Stores, t)
    BY <1>1, <2>3, LoadedData, PutSound DEF Fetch
  <2> HIDE DEF t
  <2>5. QED  BY <2>2, <2>4, BecomesIs DEF t
<1>4. ASSUME NEW page \in 0 .. MaxLength - 1, NEW v \in Values, PutFaked(page, v)
      PROVE  Sound(Stores', MaxLength) /\ SameUses(Stores, Stores')
  <2> DEFINE t == Overwritten(Fake(Stores, pg, Paged, page), page, 1, pg, v)
  <2>1. page \in Nat /\ InBound(page) /\ Becomes(t)
    BY <1>4 DEF PutFaked
  <2>2. Sound(t, MaxLength) /\ SameUses(Stores, t)
    BY <1>1, <2>1, LoadedData, PutSound DEF Fake
  <2> HIDE DEF t
  <2>3. QED  BY <2>1, <2>2, BecomesIs
<1>5. CASE Flush
  <2>1. Sound(Commit(Stores, pg, Paged), MaxLength) /\ SameUses(Stores, Commit(Stores, pg, Paged))
    BY <1>1, CommitSound DEF OthersSame, SameUses
  <2>2. QED  BY <1>5, <2>1, BecomesIs DEF Flush
<1>6. CASE ClosePaged
  <2>1. Sound(Detach(Stores, pg, Paged), MaxLength) /\ SameUses(Stores, Detach(Stores, pg, Paged))
    BY <1>1, DetachSound DEF OthersSame, SameUses
  <2>2. QED  BY <1>6, <2>1, BecomesIs DEF ClosePaged
<1>7. ASSUME NEW newSize \in 0 .. MaxLength, ChsizePaged(newSize)
      PROVE  Sound(Stores', MaxLength) /\ SameUses(Stores, Stores')
  <2> DEFINE t == Chsize(Stores, pg, Paged, newSize)
  <2>1. newSize \in Nat
    BY <1>1
  <2>2. Sound(t, MaxLength) /\ OthersSame(Stores, t, pg, Paged)
    BY <1>1, <2>1, ChsizeSound
  <2> HIDE DEF t
  <2>3. SameUses(Stores, t)
    BY <2>2 DEF OthersSame, SameUses
  <2>4. QED  BY <1>7, <2>2, <2>3, BecomesIs DEF ChsizePaged, t
<1>8. QED  BY <1>2, <1>3, <1>4, <1>5, <1>6, <1>7 DEF PagedStep

\* The steps of a cached file that change the files or the pages in memory,
\* and evictions.
CachedStep ==
  \/ \E n \in 1 .. MaxLength : Read(n) \/ \E v \in Values : Write(n, v)
  \/ CommitCached \/ CloseCached
  \/ \E newSize \in 0 .. MaxLength : ChsizeCached(newSize)
  \/ EvictPage

\* A cached file reads and writes within the bound of its file.
LEMMA CacheReach ==
  ASSUME IInv, curPos # None, NEW n \in 1 .. MaxLength, curPos + n <= MaxLength
  PROVE  /\ curPos \in Nat /\ n \in Nat \ {0}
         /\ InReach(MaxLength, cachePg, curPos, n)
<1>1. curPos \in 0 .. MaxLength /\ MaxLength \in Nat /\ WholePages(MaxLength, cachePg)
  BY Givens DEF IInv, Typed
<1>2. QED  BY <1>1 DEF InReach

\* Those steps leave the uses of the pagers as they are, too.
LEMMA CachedStepSame ==
  ASSUME IInv, CachedStep
  PROVE  Sound(Stores', MaxLength) /\ SameUses(Stores, Stores')
<1>1. /\ cachePg \in DOMAIN Stores.pagers
      /\ MaxLength \in Nat /\ Cached \in Files /\ Sound(Stores, MaxLength)
  BY ClientPagers, Givens DEF IInv, Typed
<1>2. ASSUME NEW n \in 1 .. MaxLength, Read(n)
      PROVE  Sound(Stores', MaxLength) /\ SameUses(Stores, Stores')
  <2> DEFINE t == CacheRead(Stores, cachePg, Cached, curPos, n)
  <2>1. Becomes(t) /\ curPos # None /\ curPos + n <= MaxLength
    BY <1>2 DEF Read
  <2>2. curPos \in Nat /\ n \in Nat \ {0} /\ InReach(MaxLength, cachePg, curPos, n)
    BY <2>1, CacheReach
  <2>3. Sound(t, MaxLength)
        /\ OnlyPages(Stores, t, cachePg,
                     Joined(PagesIn(Stores, cachePg), ReadPages(Stores, cachePg, Cached, curPos, n)))
    BY <1>1, <2>2, CacheReadSound
  <2> HIDE DEF t
  <2>4. SameUses(Stores, t)
    BY <2>3 DEF OnlyPages, SameUses
  <2>5. QED  BY <2>1, <2>3, <2>4, BecomesIs
<1>3. ASSUME NEW n \in 1 .. MaxLength, NEW v \in Values, Write(n, v)
      PROVE  Sound(Stores', MaxLength) /\ SameUses(Stores, Stores')
  <2> DEFINE t == CacheWrite(Stores, cachePg, Cached, curPos, Row(n, v))
             q == Joined(WrittenPages(Stores, cachePg, Cached, curPos, n, Row(n, v)),
                         PagesIn(Stores, cachePg))
  <2>1. Becomes(t) /\ curPos # None /\ curPos + n <= MaxLength
    BY <1>3 DEF Write, Row
  <2>2. /\ curPos \in Nat /\ n \in Nat \ {0} /\ InReach(MaxLength, cachePg, curPos, n)
        /\ Row(n, v) \in [1 .. n -> Int]
    BY <2>1, CacheReach, Givens, RowIs
  <2>3. Sound(t, MaxLength) /\ OnlyPages(Stores, t, cachePg, q)
    BY <1>1, <2>2, CacheWriteSound
  <2> HIDE DEF t, q
  <2>4. SameUses(Stores, t)
    BY <2>3 DEF OnlyPages, SameUses
  <2>5. QED  BY <2>1, <2>3, <2>4, BecomesIs
<1>4. CASE CommitCached
  <2> DEFINE t == Commit(Stores, cachePg, Cached)
  <2>1. Sound(t, MaxLength) /\ SameUses(Stores, t)
    BY <1>1, CommitSound DEF OthersSame, SameUses
  <2>2. QED  BY <1>4, <2>1, BecomesIs DEF CommitCached
<1>5. CASE CloseCached
  <2> DEFINE t == Detach(Stores, cachePg, Cached)
  <2>1. Sound(t, MaxLength) /\ SameUses(Stores, t)
    BY <1>1, DetachSound DEF OthersSame, SameUses
  <2>2. QED  BY <1>5, <2>1, BecomesIs DEF CloseCached
<1>6. ASSUME NEW newSize \in 0 .. MaxLength, ChsizeCached(newSize)
      PROVE  Sound(Stores', MaxLength) /\ SameUses(Stores, Stores')
  <2> DEFINE t == Resize(Stores, Cached, newSize)
  <2>1. newSize \in Nat
    BY <1>1
  <2>2. Sound(t, MaxLength) /\ t.pagers = Stores.pagers
    BY <1>1, <2>1, ResizeSound
  <2> HIDE DEF t
  <2>3. SameUses(Stores, t)
    BY <2>2 DEF SameUses
  <2>4. QED  BY <1>6, <2>2, <2>3, BecomesIs DEF ChsizeCached, t
<1>7. CASE EvictPage
  <2>1. PICK z \in DOMAIN Stores.pagers : \E k \in DOMAIN PagesIn(Stores, z) :
          Becomes(Drop(Dump(Stores, z, {k}), z, {k}))
    BY <1>7, ClientPagers DEF EvictPage, Evict, PagesIn
  <2>2. PICK k \in DOMAIN PagesIn(Stores, z) : Becomes(Drop(Dump(Stores, z, {k}), z, {k}))
    BY <2>1
  <2> DEFINE t == Drop(Dump(Stores, z, {k}), z, {k})
  <2>3. Sound(t, MaxLength) /\ SameUses(Stores, t)
    BY <1>1, EvictSound DEF SameUses
  <2> HIDE DEF t
  <2>4. QED  BY <2>2, <2>3, BecomesIs DEF t
<1>8. QED  BY <1>2, <1>3, <1>4, <1>5, <1>6, <1>7 DEF CachedStep

\* The steps of a cached file that touch neither files nor pagers.
IdleStep == WrapCached \/ \E pos \in 0 .. MaxLength - 1 : Seek(pos)

\* The steps that take a pager, or take another one and give one back.
MoveStep == \E size \in PageSizes : WrapPaged(size) \/ SetPageSizePaged(size) \/ SetPageSizeCache(size)

\* Steps by the file they are about.
LEMMA NextSteps == Next <=> PagedStep \/ CachedStep \/ IdleStep \/ MoveStep
BY DEF Next, PagedStep, CachedStep, IdleStep, MoveStep

\* What a step that takes or changes a pager makes of the files and pagers.
LEMMA MoveSound ==
  ASSUME IInv, NEW size \in PageSizes
  PROVE  /\ WrapPaged(size) =>
               /\ Sound(Stores', MaxLength)
               /\ IF size \in DOMAIN pagers THEN OnlyUse(Stores, Stores', size, pagers[size].use + 1)
                  ELSE Added(Stores, Stores', size)
         /\ SetPageSizePaged(size) =>
               Sound(Stores', MaxLength) /\ SizeSet(Stores, Stores', pg, size)
         /\ SetPageSizeCache(size) =>
               Sound(Stores', MaxLength) /\ SizeSet(Stores, Stores', cachePg, size)
<1>1. MaxLength \in Nat /\ Sound(Stores, MaxLength)
  BY Givens DEF IInv, Typed
<1>2. ASSUME WrapPaged(size)
      PROVE  /\ Sound(Stores', MaxLength)
             /\ IF size \in DOMAIN pagers THEN OnlyUse(Stores, Stores', size, pagers[size].use + 1)
                ELSE Added(Stores, Stores', size)
  <2>1. Stores' = GetPager(Stores, size)
    BY <1>1, <1>2, GetPagerSound, BecomesIs DEF WrapPaged
  <2>2. QED  BY <1>1, <2>1, GetPagerSound, ClientPagers
<1>3. ASSUME SetPageSizePaged(size)
      PROVE  Sound(Stores', MaxLength) /\ SizeSet(Stores, Stores', pg, size)
  <2>1. pg \in DOMAIN Stores.pagers
    BY <1>3, ClientPagers DEF SetPageSizePaged
  <2>2. Stores' = SetPageSize(Stores, pg, size)
    BY <1>1, <1>3, <2>1, SetPageSizeSound, BecomesIs DEF SetPageSizePaged
  <2>3. QED  BY <1>1, <2>1, <2>2, SetPageSizeSound
<1>4. ASSUME SetPageSizeCache(size)
      PROVE  Sound(Stores', MaxLength) /\ SizeSet(Stores, Stores', cachePg, size)
  <2>1. cachePg \in DOMAIN Stores.pagers
    BY <1>4, ClientPagers DEF SetPageSizeCache
  <2>2. Stores' = SetPageSize(Stores, cachePg, size)
    BY <1>1, <1>4, <2>1, SetPageSizeSound, BecomesIs DEF SetPageSizeCache
  <2>3. QED  BY <1>1, <2>1, <2>2, SetPageSizeSound
<1>5. QED  BY <1>2, <1>3, <1>4

\* A paged file that is opened, and a client that takes another pager, keep
\* a use of the pager they have.
LEMMA MoveLive ==
  ASSUME IInv, MoveStep
  PROVE  PagersLive'
<1>1. /\ Stores'.pagers = pagers' /\ Stores.pagers = pagers
      /\ cachePg \in PageSizes /\ pg \in PageSizes \cup {None} /\ None \notin PageSizes
      /\ cachePg \in DOMAIN pagers /\ (pg # None => pg \in DOMAIN pagers)
      /\ DOMAIN pagers \subseteq PageSizes
      /\ \A z \in DOMAIN pagers : pagers[z].use \in Nat \ {0}
  BY Givens DEF Stores, IInv, Typed, PagersLive, Sound, PagerWhole
<1>2. \A z \in DOMAIN pagers :
        pagers[z].use >= (IF cachePg = z THEN 1 ELSE 0) + (IF pg = z THEN 1 ELSE 0)
  BY DEF IInv, PagersLive
<1>3. ASSUME NEW size \in PageSizes, WrapPaged(size)
      PROVE  PagersLive'
  <2>1. pg = None /\ pg' = size /\ cachePg' = cachePg
    BY <1>3 DEF WrapPaged
  <2>2. CASE size \in DOMAIN pagers
    <3>1. OnlyUse(Stores, Stores', size, pagers[size].use + 1)
      BY <1>3, <2>2, MoveSound
    <3>2. /\ DOMAIN pagers' = DOMAIN pagers
          /\ \A z \in DOMAIN pagers : pagers'[z].use = IF z = size THEN pagers[z].use + 1 ELSE pagers[z].use
      BY <1>1, <3>1 DEF OnlyUse
    <3>3. QED  BY <1>1, <1>2, <2>1, <2>2, <3>2 DEF PagersLive
  <2>3. CASE size \notin DOMAIN pagers
    <3>1. Added(Stores, Stores', size)
      BY <1>3, <2>3, MoveSound
    <3>2. /\ DOMAIN pagers' = DOMAIN pagers \cup {size}
          /\ pagers'[size].use = 1
          /\ \A z \in DOMAIN pagers : pagers'[z].use = pagers[z].use
      BY <1>1, <3>1 DEF Added
    <3>3. QED  BY <1>1, <1>2, <2>1, <2>3, <3>2 DEF PagersLive
  <2>4. QED  BY <2>2, <2>3
<1>4. ASSUME NEW from \in DOMAIN pagers, NEW size \in PageSizes, SizeSet(Stores, Stores', from, size)
      PROVE  /\ DOMAIN pagers' = (DOMAIN pagers \cup {size}) \
                                   (IF from # size /\ pagers[from].use = 1 THEN {from} ELSE {})
             /\ \A z \in DOMAIN pagers' :
                  /\ z \in DOMAIN pagers =>
                       pagers'[z].use = pagers[z].use + (IF z = size THEN 1 ELSE 0)
                                                      - (IF z = from THEN 1 ELSE 0)
                  /\ z \notin DOMAIN pagers => pagers'[z].use = 1
  BY <1>1, <1>4 DEF SizeSet
<1>5. ASSUME NEW size \in PageSizes, SetPageSizePaged(size)
      PROVE  PagersLive'
  <2>1. pg # None /\ pg' = size /\ cachePg' = cachePg /\ pg \in DOMAIN pagers
    BY <1>1, <1>5 DEF SetPageSizePaged
  <2>2. SizeSet(Stores, Stores', pg, size)
    BY <1>5, MoveSound
  <2>3. /\ DOMAIN pagers' = (DOMAIN pagers \cup {size}) \
                             (IF pg # size /\ pagers[pg].use = 1 THEN {pg} ELSE {})
        /\ \A z \in DOMAIN pagers' :
             /\ z \in DOMAIN pagers =>
                  pagers'[z].use = pagers[z].use + (IF z = size THEN 1 ELSE 0)
                                                 - (IF z = pg THEN 1 ELSE 0)
             /\ z \notin DOMAIN pagers => pagers'[z].use = 1
    BY <1>1, <1>4, <2>1, <2>2
  <2>4. cachePg # None => cachePg \in DOMAIN pagers'
    BY <1>1, <1>2, <2>3
  <2>5. ASSUME NEW z \in DOMAIN pagers'
        PROVE  pagers'[z].use >= (IF cachePg' = z THEN 1 ELSE 0) + (IF pg' = z THEN 1 ELSE 0)
    <3>1. CASE z \in DOMAIN pagers
      BY <1>1, <1>2, <2>1, <2>3, <3>1
    <3>2. CASE z \notin DOMAIN pagers
      BY <1>1, <2>1, <2>3, <3>2
    <3>3. QED  BY <3>1, <3>2
  <2>6. QED  BY <1>1, <2>1, <2>3, <2>4, <2>5 DEF PagersLive
<1>6. ASSUME NEW size \in PageSizes, SetPageSizeCache(size)
      PROVE  PagersLive'
  <2>1. cachePg' = size /\ pg' = pg
    BY <1>6 DEF SetPageSizeCache
  <2>2. SizeSet(Stores, Stores', cachePg, size)
    BY <1>6, MoveSound
  <2>3. /\ DOMAIN pagers' = (DOMAIN pagers \cup {size}) \
                             (IF cachePg # size /\ pagers[cachePg].use = 1 THEN {cachePg} ELSE {})
        /\ \A z \in DOMAIN pagers' :
             /\ z \in DOMAIN pagers =>
                  pagers'[z].use = pagers[z].use + (IF z = size THEN 1 ELSE 0)
                                                 - (IF z = cachePg THEN 1 ELSE 0)
             /\ z \notin DOMAIN pagers => pagers'[z].use = 1
    BY <1>1, <1>4, <2>1, <2>2
  <2>4. pg # None => pg \in DOMAIN pagers'
    BY <1>1, <1>2, <2>3
  <2>5. ASSUME NEW z \in DOMAIN pagers'
        PROVE  pagers'[z].use >= (IF cachePg' = z THEN 1 ELSE 0) + (IF pg' = z THEN 1 ELSE 0)
    <3>1. CASE z \in DOMAIN pagers
      BY <1>1, <1>2, <2>1, <2>3, <3>1
    <3>2. CASE z \notin DOMAIN pagers
      BY <1>1, <2>1, <2>3, <3>2
    <3>3. QED  BY <3>1, <3>2
  <2>6. QED  BY <1>1, <2>1, <2>3, <2>4, <2>5 DEF PagersLive
<1>7. QED  BY <1>3, <1>5, <1>6 DEF MoveStep

\* The page sizes, the length and the position of the clients stay within
\* their types.
LEMMA ClientsTyped ==
  ASSUME IInv, [Next]_vars
  PROVE  /\ cachePg' \in PageSizes /\ pg' \in PageSizes \cup {None} /\ flen' \in Nat
         /\ curPos' \in 0 .. MaxLength \cup {None} /\ wrote' \in BOOLEAN
<1>1. /\ cachePg \in PageSizes /\ pg \in PageSizes \cup {None} /\ flen \in Nat
      /\ curPos \in 0 .. MaxLength \cup {None} /\ wrote \in BOOLEAN
      /\ MaxLength \in Nat /\ PageSizes \subseteq Nat /\ None \notin PageSizes
      /\ Len(disk[Paged]) \in Nat
  <2>1. disk[Paged] \in Seq(Int)
    BY Givens DEF IInv, Typed, Sound, Stores
  <2>2. QED  BY <2>1, Givens DEF IInv, Typed
<1>2. CASE PagedStep
  <2>1. ASSUME NEW page \in 0 .. MaxLength - 1, CheckLen(page), pg # None
        PROVE  flen' \in Nat
    <3>1. pg \in Nat /\ page \in Nat
      BY <1>1, <2>1
    <3>2. (page + 1) * pg \in Nat
      BY <3>1
    <3>3. QED  BY <1>1, <2>1, <3>2 DEF CheckLen
  <2>2. UNCHANGED <<cachePg, curPos>> /\ wrote' \in BOOLEAN
    BY <1>2 DEF PagedStep, FetchPage, PutFetched, PutFaked, Flush, ClosePaged, ChsizePaged
  <2>3. pg' \in {pg, None}
    BY <1>2 DEF PagedStep, FetchPage, PutFetched, PutFaked, Flush, ClosePaged, ChsizePaged
  <2>4. flen' \in Nat
    BY <1>1, <1>2, <2>1 DEF PagedStep, FetchPage, PutFetched, PutFaked, Flush, ClosePaged, ChsizePaged
  <2>5. QED  BY <1>1, <2>2, <2>3, <2>4
<1>3. CASE CachedStep
  <2>1. UNCHANGED <<cachePg, pg, flen>> /\ wrote' \in BOOLEAN
    BY <1>3 DEF CachedStep, Read, Write, CommitCached, CloseCached, ChsizeCached, EvictPage, Evict
  <2>2. curPos' \in 0 .. MaxLength \cup {None}
    <3>1. ASSUME NEW n \in 1 .. MaxLength, curPos # None, curPos + n <= MaxLength, curPos' = curPos + n
          PROVE  curPos' \in 0 .. MaxLength
      BY <1>1, <3>1
    <3>2. QED
      BY <1>1, <1>3, <3>1 DEF CachedStep, Read, Write, CommitCached, CloseCached, ChsizeCached, EvictPage
  <2>3. QED  BY <1>1, <2>1, <2>2
<1>4. CASE IdleStep
  <2>1. UNCHANGED <<cachePg, pg, flen>> /\ wrote' \in BOOLEAN
    BY <1>4 DEF IdleStep, WrapCached, Seek
  <2>2. curPos' \in 0 .. MaxLength
    BY <1>1, <1>4 DEF IdleStep, WrapCached, Seek
  <2>3. QED  BY <1>1, <2>1, <2>2
<1>5. CASE MoveStep
  <2>1. UNCHANGED curPos /\ wrote' \in BOOLEAN /\ flen' \in {flen, Len(disk[Paged])}
    BY <1>5 DEF MoveStep, WrapPaged, SetPageSizePaged, SetPageSizeCache
  <2>2. cachePg' \in PageSizes /\ pg' \in PageSizes \cup {None}
    BY <1>1, <1>5 DEF MoveStep, WrapPaged, SetPageSizePaged, SetPageSizeCache
  <2>3. QED  BY <1>1, <2>1, <2>2
<1>6. CASE UNCHANGED vars
  BY <1>1, <1>6 DEF vars
<1>7. QED  BY <1>2, <1>3, <1>4, <1>5, <1>6, NextSteps

\* IInv is inductive.
LEMMA StepTyped == IInv /\ [Next]_vars => IInv'
<1> SUFFICES ASSUME IInv, [Next]_vars PROVE IInv'
  OBVIOUS
<1>1. Sound(Stores', MaxLength) /\ PagersLive'
  <2>1. CASE PagedStep
    <3>1. Sound(Stores', MaxLength) /\ SameUses(Stores, Stores')
      BY <2>1, PagedStepSame
    <3>2. UNCHANGED cachePg /\ pg' \in {pg, None}
      BY <2>1 DEF PagedStep, FetchPage, PutFetched, PutFaked, Flush, ClosePaged, ChsizePaged
    <3>3. CASE pg' = pg
      BY <3>1, <3>2, <3>3, LiveSame DEF IInv
    <3>4. CASE pg' = None
      <4>1. /\ DOMAIN pagers' = DOMAIN pagers
            /\ \A z \in DOMAIN pagers : pagers'[z].use = pagers[z].use /\ pagers[z].use \in Nat
            /\ None \notin DOMAIN pagers
        BY <3>1, Givens DEF SameUses, Stores, IInv, Typed, Sound, PagerWhole
      <4>2. QED  BY <3>1, <3>2, <3>4, <4>1 DEF IInv, PagersLive
    <3>5. QED  BY <3>2, <3>3, <3>4
  <2>2. CASE CachedStep
    <3>1. UNCHANGED <<cachePg, pg>>
      BY <2>2 DEF CachedStep, Read, Write, CommitCached, CloseCached, ChsizeCached, EvictPage, Evict
    <3>2. QED  BY <2>2, <3>1, CachedStepSame, LiveSame DEF IInv
  <2>3. CASE IdleStep \/ UNCHANGED vars
    <3>1. UNCHANGED <<disk, pagers, cachePg, pg>>
      BY <2>3 DEF IdleStep, WrapCached, Seek, vars
    <3>2. QED  BY <3>1 DEF IInv, Typed, PagersLive, Stores
  <2>4. CASE MoveStep
    BY <2>4, MoveLive, MoveSound DEF MoveStep
  <2>5. QED  BY <2>1, <2>2, <2>3, <2>4, NextSteps
<1>2. QED  BY <1>1, ClientsTyped DEF IInv, Typed

\* The state of the files, the pagers and their clients is well typed
\* whatever clients do, and all pages lie within their files.
THEOREM TypeCorrect == Spec => []TypeOK
<1>1. IInv => TypeOK
  BY TypedOK DEF IInv
<1>2. QED  BY <1>1, InitTyped, StepTyped, PTL DEF Spec

\* releasePager (src/edbPagerMgr_imp.cpp:56) never deletes a pager a client
\* has, however the paged file and the cache change their page sizes.
THEOREM PagersStayLive == Spec => []PagersLive
<1>1. IInv => PagersLive
  BY DEF IInv
<1>2. QED  BY <1>1, InitTyped, StepTyped, PTL DEF Spec

-----------------------------------------------------------------------------
(* What steps keep of what is written.  A file belongs to the pager its    *)
(* client has, and no other has pages of it unless a client changes its    *)
(* page size and leaves some behind.                                       *)

\* The page size of the pager each file is at home in.
Owners == [f \in Files |-> IF f = Cached THEN cachePg ELSE pg]

\* v is what clients write.  For v empty only the pages' places are kept.
Orderly(v) ==
  /\ IInv
  /\ Junk \notin v /\ Zero \notin v
  /\ Home(Stores, Owners) /\ Clean(Stores, v)

\* A step keeps files at home, clean pages as they are on disk, and all cells
\* but the given ones.
StepKeeps(v, given) ==
  /\ Home(Stores', Owners') /\ Clean(Stores', v)
  /\ Keeps(Stores, Owners, Stores', Owners', v, given)

\* The pagers of the two files.
LEMMA OwnersAre ==
  /\ Owners[Paged] = pg /\ Owners[Cached] = cachePg
  /\ UNCHANGED <<cachePg, pg>> => Owners' = Owners
BY Givens DEF Owners

\* What every step can rely on.
LEMMA KeptFacts ==
  ASSUME NEW v, Orderly(v)
  PROVE  /\ MaxLength \in Nat /\ Sound(Stores, MaxLength) /\ Home(Stores, Owners)
         /\ Junk \notin v /\ Zero \notin v /\ Clean(Stores, v)
         /\ Stores.disk = disk /\ Stores.pagers = pagers
         /\ cachePg \in DOMAIN Stores.pagers
         /\ pg # None => pg \in DOMAIN Stores.pagers
         /\ Paged \in Files /\ Cached \in Files
         /\ Owners[Paged] = pg /\ Owners[Cached] = cachePg
BY ClientPagers, Givens, OwnersAre DEF Orderly, IInv, Typed

\* What t keeps the step keeps that makes t of the files and pagers.
LEMMA KeptBy ==
  ASSUME NEW v, NEW given, NEW t, Becomes(t), Sound(t, MaxLength), UNCHANGED <<cachePg, pg>>,
         Home(t, Owners), Clean(t, v), Keeps(Stores, Owners, t, Owners, v, given)
  PROVE  StepKeeps(v, given)
<1>1. Stores' = t /\ Owners' = Owners
  BY BecomesIs, OwnersAre
<1>2. QED  BY <1>1 DEF StepKeeps

\* A client that leaves no page behind may have any other pager.
LEMMA KeptByMove ==
  ASSUME NEW v, NEW t, Becomes(t), Sound(t, MaxLength), Home(t, Owners), Clean(t, v),
         Keeps(Stores, Owners, t, Owners, v, {}),
         \A f \in Files : Owners'[f] = Owners[f]
           \/ \A z \in DOMAIN t.pagers : \A k \in DOMAIN PagesIn(t, z) : k[1] # f
  PROVE  StepKeeps(v, {})
<1>1. Stores' = t
  BY BecomesIs
<1>2. \A z \in DOMAIN t.pagers : \A k \in DOMAIN PagesIn(t, z) : k[1] \in Files
  BY DEF Sound, PagerWhole, PageMap, PagesIn
<1>3. Home(t, Owners') /\ Keeps(t, Owners, t, Owners', v, {})
  BY <1>2, Rehome
<1>4. Keeps(Stores, Owners, t, Owners', v, {})
  BY <1>3, KeepsTwice
<1>5. QED  BY <1>1, <1>3, <1>4 DEF StepKeeps

\* A page of the paged file that is loaded changes nothing that is kept.
LEMMA LoadedKeeps ==
  ASSUME NEW v, Orderly(v), pg # None, NEW page \in Nat, InBound(page)
  PROVE  LET t == Fetch(Stores, pg, Paged, page)
         IN  /\ Sound(t, MaxLength) /\ Home(t, Owners) /\ Clean(t, v)
             /\ Keeps(Stores, Owners, t, Owners, v, {})
<1> DEFINE t == Fetch(Stores, pg, Paged, page)
           r == [k \in {Key(page)} |-> [data |-> Image(Stores, pg, k[1], k[2]), dirty |-> FALSE]]
<1>1. /\ MaxLength \in Nat /\ Sound(Stores, MaxLength) /\ Home(Stores, Owners) /\ Clean(Stores, v)
      /\ pg \in DOMAIN Stores.pagers /\ Paged \in Files /\ Owners[Paged] = pg
      /\ Stores.disk = disk
  BY KeptFacts
<1>2. /\ Sound(t, MaxLength) /\ t.disk = disk
      /\ OnlyPages(Stores, t, pg, Joined(PagesIn(Stores, pg),
                     OnePage(Paged, page, Image(Stores, pg, Paged, page))))
  BY LoadedData, PageLoaded DEF Fetch, Orderly
<1>3. OnePage(Paged, page, Image(Stores, pg, Paged, page)) = r
  <2> DEFINE o == OnePage(Paged, page, Image(Stores, pg, Paged, page))
  <2>1. DOMAIN o = {Key(page)} /\ DOMAIN r = {Key(page)}
    BY DEF OnePage, Key
  <2>2. \A k \in {Key(page)} : o[k] = r[k]
    <3>1. Key(page)[1] = Paged /\ Key(page)[2] = page
      BY DEF Key
    <3>2. r[Key(page)] = [data |-> Image(Stores, pg, Key(page)[1], Key(page)[2]), dirty |-> FALSE]
      OBVIOUS
    <3>3. r[Key(page)] = [data |-> Image(Stores, pg, Paged, page), dirty |-> FALSE]
      BY <3>1, <3>2
    <3>4. o[Key(page)] = [data |-> Image(Stores, pg, Paged, page), dirty |-> FALSE]
      BY DEF OnePage, Key
    <3>5. QED  BY <3>3, <3>4
  <2>3. o = [k \in DOMAIN o |-> o[k]] /\ r = [k \in DOMAIN r |-> r[k]]
    BY DEF OnePage
  <2> HIDE DEF o, r
  <2>4. QED  BY <2>1, <2>2, <2>3 DEF o
<1>4. {Key(page)} \subseteq Files \X Nat /\ \A k \in {Key(page)} : Owners[k[1]] = pg
  BY <1>1 DEF Key
<1> HIDE DEF t
<1>5. OnlyPages(Stores, t, pg, Joined(PagesIn(Stores, pg), r))
  BY <1>2, <1>3
<1>6. Home(t, Owners) /\ Clean(t, v) /\ Keeps(Stores, Owners, t, Owners, v, {})
  BY <1>1, <1>2, <1>4, <1>5, LoadKeeps
<1>7. QED  BY <1>2, <1>6 DEF t

\* The steps that do nothing a client sees, and leave the pagers as they
\* are.
LEMMA QuietKeeps ==
  ASSUME NEW v, Orderly(v),
         \/ \E page \in 0 .. MaxLength - 1 : FetchPage(page)
         \/ \E n \in 1 .. MaxLength : Read(n)
         \/ Flush \/ CommitCached \/ CloseCached \/ EvictPage \/ IdleStep \/ UNCHANGED vars
  PROVE  StepKeeps(v, {})
<1>1. /\ MaxLength \in Nat /\ Sound(Stores, MaxLength) /\ Home(Stores, Owners)
      /\ Junk \notin v /\ Zero \notin v /\ Clean(Stores, v)
      /\ cachePg \in DOMAIN Stores.pagers /\ (pg # None => pg \in DOMAIN Stores.pagers)
      /\ Paged \in Files /\ Cached \in Files
      /\ Owners[Paged] = pg /\ Owners[Cached] = cachePg
  BY KeptFacts
<1>2. ASSUME NEW page \in 0 .. MaxLength - 1, FetchPage(page)
      PROVE  StepKeeps(v, {})
  <2> DEFINE t == Fetch(Stores, pg, Paged, page)
  <2>1. page \in Nat /\ pg # None /\ InBound(page) /\ Becomes(t) /\ UNCHANGED <<cachePg, pg>>
    BY <1>2 DEF FetchPage
  <2>2. /\ Sound(t, MaxLength) /\ Home(t, Owners) /\ Clean(t, v)
        /\ Keeps(Stores, Owners, t, Owners, v, {})
    BY <2>1, LoadedKeeps
  <2> HIDE DEF t
  <2>3. QED  BY <2>1, <2>2, KeptBy
<1>3. ASSUME NEW n \in 1 .. MaxLength, Read(n)
      PROVE  StepKeeps(v, {})
  <2> DEFINE t == CacheRead(Stores, cachePg, Cached, curPos, n)
  <2>1. Becomes(t) /\ curPos # None /\ curPos + n <= MaxLength /\ UNCHANGED <<cachePg, pg>>
    BY <1>3 DEF Read
  <2>2. curPos \in Nat /\ n \in Nat \ {0} /\ InReach(MaxLength, cachePg, curPos, n)
    BY <2>1, CacheReach DEF Orderly
  <2>3. Sound(t, MaxLength)
    BY <1>1, <2>2, CacheReadSound
  <2>4. Home(t, Owners) /\ Clean(t, v) /\ Keeps(Stores, Owners, t, Owners, v, {})
    BY <1>1, <2>2, CacheReadKeeps
  <2> HIDE DEF t
  <2>5. QED  BY <2>1, <2>3, <2>4, KeptBy
<1>4. CASE Flush
  <2> DEFINE t == Commit(Stores, pg, Paged)
  <2>1. pg # None /\ Becomes(t) /\ UNCHANGED <<cachePg, pg>>
    BY <1>4 DEF Flush
  <2>2. Sound(t, MaxLength)
    BY <1>1, <2>1, CommitSound
  <2>3. Home(t, Owners) /\ Clean(t, v) /\ Keeps(Stores, Owners, t, Owners, v, {})
    BY <1>1, <2>1, CommitKeeps
  <2> HIDE DEF t
  <2>4. QED  BY <2>1, <2>2, <2>3, KeptBy
<1>5. CASE CommitCached
  <2> DEFINE t == Commit(Stores, cachePg, Cached)
  <2>1. Becomes(t) /\ UNCHANGED <<cachePg, pg>>
    BY <1>5 DEF CommitCached
  <2>2. Sound(t, MaxLength)
    BY <1>1, CommitSound
  <2>3. Home(t, Owners) /\ Clean(t, v) /\ Keeps(Stores, Owners, t, Owners, v, {})
    BY <1>1, CommitKeeps
  <2> HIDE DEF t
  <2>4. QED  BY <2>1, <2>2, <2>3, KeptBy
<1>6. CASE CloseCached
  <2> DEFINE t == Detach(Stores, cachePg, Cached)
  <2>1. Becomes(t) /\ UNCHANGED <<cachePg, pg>>
    BY <1>6 DEF CloseCached
  <2>2. Sound(t, MaxLength)
    BY <1>1, DetachSound
  <2>3. Home(t, Owners) /\ Clean(t, v) /\ Keeps(Stores, Owners, t, Owners, v, {})
    BY <1>1, DetachKeeps
  <2> HIDE DEF t
  <2>4. QED  BY <2>1, <2>2, <2>3, KeptBy
<1>7. CASE EvictPage
  <2>1. UNCHANGED <<cachePg, pg>> /\ \E z \in DOMAIN Stores.pagers : \E k \in DOMAIN PagesIn(Stores, z) :
          Becomes(Drop(Dump(Stores, z, {k}), z, {k}))
    BY <1>7, KeptFacts DEF EvictPage, Evict, PagesIn
  <2>2. PICK z \in DOMAIN Stores.pagers : \E k \in DOMAIN PagesIn(Stores, z) :
          Becomes(Drop(Dump(Stores, z, {k}), z, {k}))
    BY <2>1
  <2>3. PICK k \in DOMAIN PagesIn(Stores, z) : Becomes(Drop(Dump(Stores, z, {k}), z, {k}))
    BY <2>2
  <2> DEFINE t == Drop(Dump(Stores, z, {k}), z, {k})
  <2>4. Sound(t, MaxLength)
    BY <1>1, EvictSound
  <2>5. Home(t, Owners) /\ Clean(t, v) /\ Keeps(Stores, Owners, t, Owners, v, {})
    BY <1>1, EvictKeeps
  <2> HIDE DEF t
  <2>6. QED  BY <2>1, <2>3, <2>4, <2>5, KeptBy DEF t
<1>8. CASE IdleStep \/ UNCHANGED vars
  <2>1. Stores' = Stores /\ Owners' = Owners
    BY <1>8, OwnersAre DEF IdleStep, WrapCached, Seek, vars, Stores
  <2>2. QED  BY <1>1, <2>1 DEF StepKeeps, Keeps
<1>9. QED  BY <1>2, <1>3, <1>4, <1>5, <1>6, <1>7, <1>8

-----------------------------------------------------------------------------
(* Writes.                                                                 *)

\* The cells a client writes of a page.
PutCells(page, from, to) == page * pg + from .. page * pg + to

\* The page written, as it is then.
LEMMA OverwrittenPage ==
  ASSUME NEW s, Sound(s, MaxLength), pg \in DOMAIN s.pagers, pg \in Nat \ {0}, NEW page \in Nat,
         Key(page) \in DOMAIN PagesIn(s, pg), NEW from \in 1 .. pg, NEW to \in from .. pg,
         NEW v \in Int
  PROVE  LET t == Overwritten(s, page, from, to, v)
         IN  /\ Sound(t, MaxLength) /\ t.disk = s.disk
             /\ DOMAIN t.pagers = DOMAIN s.pagers
             /\ \A y \in DOMAIN s.pagers : y # pg => PagesIn(t, y) = PagesIn(s, y)
             /\ DOMAIN PagesIn(t, pg) = DOMAIN PagesIn(s, pg)
             /\ \A k \in DOMAIN PagesIn(s, pg) \ {Key(page)} : PagesIn(t, pg)[k] = PagesIn(s, pg)[k]
             /\ PagesIn(t, pg)[Key(page)].dirty
             /\ \A i \in 1 .. pg :
                  PagesIn(t, pg)[Key(page)].data[i] =
                    IF i \in from .. to THEN v ELSE PagesIn(s, pg)[Key(page)].data[i]
<1> DEFINE t == Overwritten(s, page, from, to, v)
           e == Entry(s, page, from, to, v)
           q == [PagesIn(s, pg) EXCEPT ![Key(page)] = e]
<1>1. MaxLength \in Nat /\ from \in Nat /\ to \in Nat
  BY Givens
<1>2. Sound(t, MaxLength) /\ t.disk = s.disk /\ OnlyPages(s, t, pg, q)
  BY <1>1, OverwrittenSound
<1>3. DOMAIN q = DOMAIN PagesIn(s, pg) /\ q[Key(page)] = e
      /\ \A k \in DOMAIN PagesIn(s, pg) \ {Key(page)} : q[k] = PagesIn(s, pg)[k]
  OBVIOUS
<1>4. /\ e.dirty
      /\ \A i \in 1 .. pg :
           e.data[i] = IF i \in from .. to THEN v ELSE PagesIn(s, pg)[Key(page)].data[i]
  BY DEF Entry
<1> HIDE DEF t, e, q
<1>5. QED  BY <1>2, <1>3, <1>4 DEF OnlyPages, t

\* A cell of a page is among those written if its place is.
LEMMA PutPlace ==
  ASSUME pg \in Nat \ {0}, NEW page \in Nat, NEW from \in 1 .. pg, NEW to \in from .. pg,
         NEW i \in 1 .. pg
  PROVE  page * pg + i \in PutCells(page, from, to) <=> i \in from .. to
<1>1. page * pg \in Nat
  OBVIOUS
<1>2. QED  BY <1>1 DEF PutCells

\* Each of those cells is in the page.
LEMMA PutPlaces ==
  ASSUME pg \in Nat \ {0}, NEW page \in Nat, NEW from \in 1 .. pg, NEW to \in from .. pg,
         NEW c \in PutCells(page, from, to)
  PROVE  \E i \in from .. to : /\ i \in 1 .. pg /\ c = page * pg + i
                              /\ (c - 1) \div pg = page /\ ((c - 1) % pg) + 1 = i
<1>1. page * pg \in Nat
  OBVIOUS
<1>2. c - page * pg \in from .. to /\ c = page * pg + (c - page * pg)
  BY <1>1 DEF PutCells
<1>3. PICK i \in from .. to : i \in 1 .. pg /\ c = page * pg + i
  BY <1>2
<1>4. (c - 1) \div pg = page /\ ((c - 1) % pg) + 1 = i
  <2>1. i - 1 \in 0 .. pg - 1 /\ c - 1 = page * pg + (i - 1)
    BY <1>1, <1>3
  <2>2. (page * pg + (i - 1)) \div pg = page /\ (page * pg + (i - 1)) % pg = i - 1
    BY <2>1, Placed
  <2>3. (c - 1) \div pg = page /\ (c - 1) % pg = i - 1
    BY <2>1, <2>2
  <2>4. QED  BY <1>3, <2>3
<1>5. QED  BY <1>3, <1>4

\* A client that writes in a page its pager has changes those cells only.
LEMMA OverwrittenKeeps ==
  ASSUME NEW w, NEW s, Sound(s, MaxLength), Home(s, Owners), Clean(s, w),
         pg \in DOMAIN s.pagers, pg \in Nat \ {0}, NEW page \in Nat,
         Key(page) \in DOMAIN PagesIn(s, pg), NEW from \in 1 .. pg, NEW to \in from .. pg,
         NEW v \in Int
  PROVE  LET t == Overwritten(s, page, from, to, v)
         IN  /\ Sound(t, MaxLength) /\ Home(t, Owners) /\ Clean(t, w)
             /\ Keeps(s, Owners, t, Owners, w, {Paged} \X PutCells(page, from, to))
             /\ \A c \in PutCells(page, from, to) : View(t, Owners, Paged, c) = v
<1> DEFINE t == Overwritten(s, page, from, to, v)
           given == {Paged} \X PutCells(page, from, to)
<1>1. /\ Sound(t, MaxLength) /\ t.disk = s.disk
      /\ DOMAIN t.pagers = DOMAIN s.pagers
      /\ \A y \in DOMAIN s.pagers : y # pg => PagesIn(t, y) = PagesIn(s, y)
      /\ DOMAIN PagesIn(t, pg) = DOMAIN PagesIn(s, pg)
      /\ \A k \in DOMAIN PagesIn(s, pg) \ {Key(page)} : PagesIn(t, pg)[k] = PagesIn(s, pg)[k]
      /\ PagesIn(t, pg)[Key(page)].dirty
      /\ \A i \in 1 .. pg :
           PagesIn(t, pg)[Key(page)].data[i] =
             IF i \in from .. to THEN v ELSE PagesIn(s, pg)[Key(page)].data[i]
  BY OverwrittenPage
<1>2. MaxLength \in Nat /\ Paged \in Files /\ Owners[Paged] = pg
  BY Givens, OwnersAre
<1> HIDE DEF t
<1>3. Key(page)[1] = Paged /\ Key(page)[2] = page
  BY DEF Key
<1>4. ASSUME NEW i \in 1 .. pg, <<Paged, page * pg + i>> \notin given
      PROVE  PagesIn(t, pg)[Key(page)].data[i] = Seen(s, pg, Paged, page * pg + i)
  <2>1. i \notin from .. to
    BY <1>4, PutPlace
  <2>2. PICK c : c = page * pg + i
    OBVIOUS
  <2>3. (c - 1) \div pg = page /\ ((c - 1) % pg) + 1 = i
    BY <2>2, PlaceOf
  <2>4. Seen(s, pg, Paged, c) = PagesIn(s, pg)[Key(page)].data[i]
    BY <2>3 DEF Seen, Key
  <2>5. QED  BY <1>1, <2>1, <2>2, <2>4
<1>5. ASSUME NEW c \in PutCells(page, from, to)
      PROVE  View(t, Owners, Paged, c) = v
  <2>1. PICK i \in from .. to : /\ i \in 1 .. pg /\ c = page * pg + i
                              /\ (c - 1) \div pg = page /\ ((c - 1) % pg) + 1 = i
    BY PutPlaces
  <2>2. Seen(t, pg, Paged, c) = PagesIn(t, pg)[Key(page)].data[i]
    BY <1>1, <2>1 DEF Seen, Key
  <2>3. QED  BY <1>1, <1>2, <2>1, <2>2 DEF View
<1>6. \A k \in {Key(page)} : \A i \in 1 .. pg :
        <<k[1], k[2] * pg + i>> \notin given =>
          PagesIn(t, pg)[k].data[i] = Seen(s, pg, k[1], k[2] * pg + i)
  <2> HIDE DEF given
  <2>1. SUFFICES ASSUME NEW k \in {Key(page)}, NEW i \in 1 .. pg, <<k[1], k[2] * pg + i>> \notin given
                 PROVE  PagesIn(t, pg)[k].data[i] = Seen(s, pg, k[1], k[2] * pg + i)
    OBVIOUS
  <2>2. k = Key(page) /\ k[1] = Paged /\ k[2] = page
    BY <1>3
  <2>3. QED  BY <1>4, <2>1, <2>2
<1> HIDE DEF given
<1>7. PutsOnly(s, t, pg, {Key(page)}, given)
  BY <1>1, <1>6 DEF PutsOnly
<1>8. {Key(page)} \subseteq Files \X Nat /\ \A k \in {Key(page)} : Owners[k[1]] = pg
  BY <1>2 DEF Key
<1>9. Home(t, Owners) /\ Clean(t, w) /\ Keeps(s, Owners, t, Owners, w, given)
  BY <1>2, <1>7, <1>8, PutKeeps
<1>10. QED  BY <1>1, <1>5, <1>9 DEF t, given

\* Cells of file f all hold x, as they are seen.
AllHold(s, home, f, cells, x) == \A c \in cells : View(s, home, f, c) = x

\* A step that writes v in some cells of file f.
StepWrites(w, f, cells, v) ==
  /\ StepKeeps(w, {f} \X cells)
  /\ AllHold(Stores', Owners', f, cells, v)

\* A client that writes in a page it fetched changes those cells only.
LEMMA PutFetchedWrites ==
  ASSUME NEW w, Orderly(w), NEW page \in 0 .. MaxLength - 1, NEW v \in Values, PutFetched(page, v)
  PROVE  \E from \in 1 .. pg : \E to \in from .. pg : StepWrites(w, Paged, PutCells(page, from, to), v)
<1>1. /\ pg # None /\ page \in Nat /\ InBound(page) /\ UNCHANGED <<cachePg, pg>>
      /\ pg \in Nat \ {0} /\ v \in Int
  BY Givens, PagersAssumption DEF PutFetched, Orderly, IInv, Typed
<1>2. PICK from \in 1 .. pg : \E to \in from .. pg :
        Becomes(Overwritten(Fetch(Stores, pg, Paged, page), page, from, to, v))
  BY DEF PutFetched
<1>3. PICK to \in from .. pg :
        Becomes(Overwritten(Fetch(Stores, pg, Paged, page), page, from, to, v))
  BY <1>2
<1> DEFINE u == Fetch(Stores, pg, Paged, page)
           t == Overwritten(u, page, from, to, v)
           given == {Paged} \X PutCells(page, from, to)
<1>4. /\ Sound(u, MaxLength) /\ Home(u, Owners) /\ Clean(u, w)
      /\ Keeps(Stores, Owners, u, Owners, w, {})
  BY <1>1, LoadedKeeps
<1>5. pg \in DOMAIN u.pagers /\ Key(page) \in DOMAIN PagesIn(u, pg)
  BY <1>1, LoadedData, PageLoaded DEF Orderly, Fetch
<1>6. Becomes(t)
  BY <1>3
<1> HIDE DEF u
<1>7. /\ Sound(t, MaxLength) /\ Home(t, Owners) /\ Clean(t, w)
      /\ Keeps(u, Owners, t, Owners, w, given)
      /\ \A c \in PutCells(page, from, to) : View(t, Owners, Paged, c) = v
  BY <1>1, <1>4, <1>5, OverwrittenKeeps
<1> HIDE DEF t, given
<1>8. Keeps(Stores, Owners, t, Owners, w, given)
  <2>1. {} \subseteq given /\ given \subseteq given
    OBVIOUS
  <2>2. QED  BY <1>4, <1>7, <2>1, KeepsTwice
<1>9. StepKeeps(w, given)
  BY <1>1, <1>6, <1>7, <1>8, KeptBy
<1>10. Stores' = t /\ Owners' = Owners
  BY <1>1, <1>6, <1>7, BecomesIs, OwnersAre
<1>11. StepWrites(w, Paged, PutCells(page, from, to), v)
  BY <1>7, <1>9, <1>10 DEF StepWrites, AllHold, given
<1>12. QED  BY <1>11

\* So does one that fills a page it faked: the page need not be read, since
\* all its cells are written.
LEMMA PutFakedWrites ==
  ASSUME NEW w, Orderly(w), NEW page \in 0 .. MaxLength - 1, NEW v \in Values, PutFaked(page, v)
  PROVE  StepWrites(w, Paged, PutCells(page, 1, pg), v)
<1> DEFINE u == Fake(Stores, pg, Paged, page)
           t == Overwritten(u, page, 1, pg, v)
           given == {Paged} \X PutCells(page, 1, pg)
           junk == OnePage(Paged, page, [i \in 1 .. pg |-> Junk])
<1>1. /\ pg # None /\ page \in Nat /\ InBound(page) /\ UNCHANGED <<cachePg, pg>> /\ Becomes(t)
      /\ pg \in Nat \ {0} /\ v \in Int
  BY Givens, PagersAssumption DEF PutFaked, Orderly, IInv, Typed
<1>2. /\ MaxLength \in Nat /\ Sound(Stores, MaxLength) /\ Home(Stores, Owners) /\ Clean(Stores, w)
      /\ pg \in DOMAIN Stores.pagers /\ Paged \in Files /\ Owners[Paged] = pg
      /\ Stores.disk = disk
  BY <1>1, KeptFacts
<1>3. /\ Sound(u, MaxLength) /\ u.disk = disk
      /\ OnlyPages(Stores, u, pg, Joined(PagesIn(Stores, pg), junk))
      /\ pg \in DOMAIN u.pagers /\ Key(page) \in DOMAIN PagesIn(u, pg)
  BY <1>1, LoadedData, PageLoaded DEF Fake, Orderly
<1>4. /\ DOMAIN PagesIn(u, pg) = DOMAIN PagesIn(Stores, pg) \cup {Key(page)}
      /\ \A k \in DOMAIN PagesIn(Stores, pg) : PagesIn(u, pg)[k] = PagesIn(Stores, pg)[k]
      /\ DOMAIN u.pagers = DOMAIN Stores.pagers
      /\ \A y \in DOMAIN Stores.pagers : y # pg => PagesIn(u, y) = PagesIn(Stores, y)
  BY <1>3 DEF OnlyPages, Joined, OnePage, Key
<1> HIDE DEF u
<1>5. /\ Sound(t, MaxLength) /\ t.disk = u.disk
      /\ DOMAIN t.pagers = DOMAIN u.pagers
      /\ \A y \in DOMAIN u.pagers : y # pg => PagesIn(t, y) = PagesIn(u, y)
      /\ DOMAIN PagesIn(t, pg) = DOMAIN PagesIn(u, pg)
      /\ \A k \in DOMAIN PagesIn(u, pg) \ {Key(page)} : PagesIn(t, pg)[k] = PagesIn(u, pg)[k]
      /\ PagesIn(t, pg)[Key(page)].dirty
      /\ \A i \in 1 .. pg : PagesIn(t, pg)[Key(page)].data[i] = v
  <2>1. 1 \in 1 .. pg /\ pg \in 1 .. pg /\ \A i \in 1 .. pg : i \in 1 .. pg
    BY <1>1
  <2>2. QED  BY <1>1, <1>3, <2>1, OverwrittenPage
<1> HIDE DEF t
<1>6. \A k \in {Key(page)} : \A i \in 1 .. pg : <<k[1], k[2] * pg + i>> \in given
  <2>1. 1 \in 1 .. pg /\ pg \in 1 .. pg
    BY <1>1
  <2>2. \A i \in 1 .. pg : page * pg + i \in PutCells(page, 1, pg)
    BY <1>1, <2>1, PutPlace
  <2>3. Key(page)[1] = Paged /\ Key(page)[2] = page
    BY DEF Key
  <2>4. QED  BY <2>2, <2>3
<1> HIDE DEF given
<1>7. PutsOnly(Stores, t, pg, {Key(page)}, given)
  BY <1>2, <1>3, <1>4, <1>5, <1>6 DEF PutsOnly
<1>8. {Key(page)} \subseteq Files \X Nat /\ \A k \in {Key(page)} : Owners[k[1]] = pg
  BY <1>1, <1>2 DEF Key
<1>9. Home(t, Owners) /\ Clean(t, w) /\ Keeps(Stores, Owners, t, Owners, w, given)
  BY <1>2, <1>7, <1>8, PutKeeps
<1>10. StepKeeps(w, given)
  BY <1>1, <1>5, <1>9, KeptBy
<1>11. ASSUME NEW c \in PutCells(page, 1, pg)
       PROVE  View(t, Owners, Paged, c) = v
  <2>1. PICK i \in 1 .. pg : (c - 1) \div pg = page /\ ((c - 1) % pg) + 1 = i
    <3>1. 1 \in 1 .. pg /\ pg \in 1 .. pg
      BY <1>1
    <3>2. QED  BY <1>1, <3>1, PutPlaces
  <2>2. Seen(t, pg, Paged, c) = PagesIn(t, pg)[Key(page)].data[i]
    BY <1>3, <1>5, <2>1 DEF Seen, Key
  <2>3. QED  BY <1>2, <1>3, <1>5, <2>1, <2>2 DEF View
<1>12. Stores' = t /\ Owners' = Owners
  BY <1>1, <1>5, BecomesIs, OwnersAre
<1>13. QED  BY <1>10, <1>11, <1>12 DEF StepWrites, AllHold, given

\* A cached file writes the cells from its position on, and no others.
LEMMA WriteWrites ==
  ASSUME NEW w, Orderly(w), NEW n \in 1 .. MaxLength, NEW v \in Values, Write(n, v)
  PROVE  /\ curPos \in Nat /\ curPos + n <= MaxLength
         /\ StepWrites(w, Cached, RowCells(curPos, n), v)
<1> DEFINE t == CacheWrite(Stores, cachePg, Cached, curPos, Row(n, v))
           given == {Cached} \X RowCells(curPos, n)
<1>1. Becomes(t) /\ curPos # None /\ curPos + n <= MaxLength /\ UNCHANGED <<cachePg, pg>>
  BY DEF Write, Row
<1>2. /\ curPos \in Nat /\ n \in Nat \ {0} /\ InReach(MaxLength, cachePg, curPos, n)
      /\ Row(n, v) \in [1 .. n -> Int]
  BY <1>1, CacheReach, Givens, RowIs DEF Orderly
<1>3. /\ MaxLength \in Nat /\ Sound(Stores, MaxLength) /\ Home(Stores, Owners) /\ Clean(Stores, w)
      /\ cachePg \in DOMAIN Stores.pagers /\ Cached \in Files /\ Owners[Cached] = cachePg
  BY KeptFacts
<1>4. Sound(t, MaxLength)
  BY <1>2, <1>3, CacheWriteSound
<1>5. /\ Home(t, Owners) /\ Clean(t, w)
      /\ Keeps(Stores, Owners, t, Owners, w, given)
      /\ Holds(t, Owners, Cached, curPos, n, Row(n, v))
  BY <1>2, <1>3, CacheWriteKeeps
<1>6. AllHold(t, Owners, Cached, RowCells(curPos, n), v)
  <2> SUFFICES ASSUME NEW c \in RowCells(curPos, n) PROVE View(t, Owners, Cached, c) = v
    BY DEF AllHold
  <2>1. c - curPos \in 1 .. n /\ curPos + (c - curPos) = c
    BY <1>2 DEF RowCells
  <2> HIDE DEF t
  <2>2. QED  BY <1>5, <2>1 DEF Holds, Row
<1> HIDE DEF t, given
<1>7. StepKeeps(w, given)
  BY <1>1, <1>4, <1>5, KeptBy
<1>8. Stores' = t /\ Owners' = Owners
  BY <1>1, <1>4, BecomesIs, OwnersAre
<1>9. QED  BY <1>1, <1>2, <1>6, <1>7, <1>8 DEF StepWrites, given

-----------------------------------------------------------------------------
(* Changes of the pager, and of the size of a file.                        *)

\* A client that leaves its pager for another leaves no page of its file in
\* any pager.
LEMMA LeftNothing ==
  ASSUME IInv, NEW t, Sound(t, MaxLength), Home(t, Owners), NEW f \in Files, NEW from \in DOMAIN pagers,
         Owners[f] = from, LeavesNothing(from, f), NEW to, from # to, SizeSet(Stores, t, from, to)
  PROVE  \A z \in DOMAIN t.pagers : \A k \in DOMAIN PagesIn(t, z) : k[1] # f
<1> SUFFICES ASSUME NEW z \in DOMAIN t.pagers, NEW k \in DOMAIN PagesIn(t, z), k[1] = f
             PROVE  FALSE
  OBVIOUS
<1>1. z = from
  BY DEF Home
<1>2. Stores.pagers = pagers
  BY DEF Stores
<1>3. pagers[from].use # 1
  BY <1>1, <1>2 DEF SizeSet
<1>4. PagesIn(t, z) = PagesIn(Stores, from)
  BY <1>1, <1>2 DEF SizeSet
<1>5. PagesFor(Stores, from, f) = {}
  BY <1>3 DEF LeavesNothing
<1>6. QED  BY <1>4, <1>5 DEF PagesFor

\* Clients that take every page along see the same after they take a pager.
LEMMA MoveKeeps ==
  ASSUME NEW v, Orderly(v), "move" \notin Liberties, MoveStep
  PROVE  StepKeeps(v, {})
<1>1. /\ MaxLength \in Nat /\ Sound(Stores, MaxLength) /\ Home(Stores, Owners)
      /\ Junk \notin v /\ Zero \notin v /\ Clean(Stores, v)
      /\ Stores.pagers = pagers
      /\ cachePg \in DOMAIN pagers /\ (pg # None => pg \in DOMAIN pagers)
      /\ Paged \in Files /\ Cached \in Files
      /\ Owners[Paged] = pg /\ Owners[Cached] = cachePg
  BY KeptFacts
<1>2. /\ None \notin PageSizes /\ Files = {Paged, Cached} /\ Paged # Cached
  BY Givens, PagedFileAssumption
<1>3. ASSUME NEW size \in PageSizes, WrapPaged(size)
      PROVE  StepKeeps(v, {})
  <2> DEFINE t == GetPager(Stores, size)
  <2>1. Becomes(t) /\ pg = None /\ cachePg' = cachePg
    BY <1>3 DEF WrapPaged
  <2>2. Sound(t, MaxLength)
    BY <1>1, GetPagerSound
  <2>3. Home(t, Owners) /\ Clean(t, v) /\ Keeps(Stores, Owners, t, Owners, v, {})
    BY <1>1, GetPagerKeeps
  <2> HIDE DEF t
  <2>4. \A z \in DOMAIN t.pagers : \A k \in DOMAIN PagesIn(t, z) : k[1] # Paged
    BY <1>1, <1>2, <2>1, <2>2, <2>3 DEF Home, Sound
  <2>5. Owners'[Cached] = Owners[Cached]
    BY <1>2, <2>1 DEF Owners
  <2>6. QED  BY <1>2, <2>1, <2>2, <2>3, <2>4, <2>5, KeptByMove
<1>4. ASSUME NEW size \in PageSizes, SetPageSizePaged(size)
      PROVE  StepKeeps(v, {})
  <2> DEFINE t == SetPageSize(Stores, pg, size)
  <2>1. Becomes(t) /\ pg \in DOMAIN pagers /\ cachePg' = cachePg /\ pg' = size /\ LeavesNothing(pg, Paged)
    BY <1>1, <1>4 DEF SetPageSizePaged
  <2>2. Sound(t, MaxLength) /\ SizeSet(Stores, t, pg, size)
    BY <1>1, <2>1, SetPageSizeSound
  <2>3. Home(t, Owners) /\ Clean(t, v) /\ Keeps(Stores, Owners, t, Owners, v, {})
    BY <1>1, <2>1, SetPageSizeKeeps
  <2> HIDE DEF t
  <2>4. pg # size => \A z \in DOMAIN t.pagers : \A k \in DOMAIN PagesIn(t, z) : k[1] # Paged
    BY <1>1, <2>1, <2>2, <2>3, LeftNothing DEF Orderly
  <2>5. Owners'[Cached] = Owners[Cached] /\ Owners'[Paged] = size
    BY <1>2, <2>1 DEF Owners
  <2>6. QED  BY <1>1, <1>2, <2>1, <2>2, <2>3, <2>4, <2>5, KeptByMove
<1>5. ASSUME NEW size \in PageSizes, SetPageSizeCache(size)
      PROVE  StepKeeps(v, {})
  <2> DEFINE t == SetPageSize(Stores, cachePg, size)
  <2>1. Becomes(t) /\ cachePg' = size /\ pg' = pg /\ LeavesNothing(cachePg, Cached)
    BY <1>1, <1>5 DEF SetPageSizeCache
  <2>2. Sound(t, MaxLength) /\ SizeSet(Stores, t, cachePg, size)
    BY <1>1, <2>1, SetPageSizeSound
  <2>3. Home(t, Owners) /\ Clean(t, v) /\ Keeps(Stores, Owners, t, Owners, v, {})
    BY <1>1, <2>1, SetPageSizeKeeps
  <2> HIDE DEF t
  <2>4. cachePg # size => \A z \in DOMAIN t.pagers : \A k \in DOMAIN PagesIn(t, z) : k[1] # Cached
    BY <1>1, <2>1, <2>2, <2>3, LeftNothing DEF Orderly
  <2>5. Owners'[Paged] = Owners[Paged] /\ Owners'[Cached] = size
    BY <1>2, <2>1 DEF Owners
  <2>6. QED  BY <1>1, <1>2, <2>1, <2>2, <2>3, <2>4, <2>5, KeptByMove
<1>6. QED  BY <1>3, <1>4, <1>5 DEF MoveStep

\* So do they after a paged file is closed, whose pages are all gone.
LEMMA CloseKeeps ==
  ASSUME NEW v, Orderly(v), ClosePaged
  PROVE  StepKeeps(v, {})
<1> DEFINE t == Detach(Stores, pg, Paged)
<1>1. /\ MaxLength \in Nat /\ Sound(Stores, MaxLength) /\ Home(Stores, Owners)
      /\ Junk \notin v /\ Zero \notin v /\ Clean(Stores, v)
      /\ Paged \in Files /\ Cached \in Files /\ Files = {Paged, Cached} /\ Paged # Cached
      /\ Owners[Paged] = pg /\ Owners[Cached] = cachePg
  BY KeptFacts, PagedFileAssumption
<1>2. Becomes(t) /\ pg \in DOMAIN Stores.pagers /\ cachePg' = cachePg
  BY KeptFacts DEF ClosePaged
<1>3. Sound(t, MaxLength) /\ Gone(t, pg, Paged)
  BY <1>1, <1>2, DetachSound
<1>4. Home(t, Owners) /\ Clean(t, v) /\ Keeps(Stores, Owners, t, Owners, v, {})
  BY <1>1, <1>2, DetachKeeps
<1> HIDE DEF t
<1>5. \A z \in DOMAIN t.pagers : \A k \in DOMAIN PagesIn(t, z) : k[1] # Paged
  BY <1>1, <1>3, <1>4 DEF Home, Gone, PagesFor
<1>6. Owners'[Cached] = Owners[Cached]
  BY <1>1, <1>2 DEF Owners
<1>7. QED  BY <1>1, <1>2, <1>3, <1>4, <1>5, <1>6, KeptByMove

\* What a change of size gives up: the cells past the new end.
CutAway(f, size) == IF Shorter(Stores, f, size) THEN Past(f, size) ELSE {}

\* A paged file that is cut at a page, or grows, keeps all other cells.
LEMMA ChsizePagedKeeps ==
  ASSUME NEW v, Orderly(v), "partial" \notin Liberties, NEW newSize \in 0 .. MaxLength, ChsizePaged(newSize)
  PROVE  StepKeeps(v, CutAway(Paged, newSize)) /\ Len(Stores'.disk[Paged]) = newSize
<1> DEFINE t == Chsize(Stores, pg, Paged, newSize)
<1>1. /\ MaxLength \in Nat /\ Sound(Stores, MaxLength) /\ Home(Stores, Owners)
      /\ Junk \notin v /\ Zero \notin v /\ Clean(Stores, v)
      /\ Paged \in Files /\ Owners[Paged] = pg
  BY KeptFacts
<1>2. /\ Becomes(t) /\ pg \in DOMAIN Stores.pagers /\ UNCHANGED <<cachePg, pg>>
      /\ WholePages(newSize, pg) /\ newSize \in Nat
  BY <1>1, KeptFacts DEF ChsizePaged, WholePages
<1>3. Sound(t, MaxLength) /\ Len(t.disk[Paged]) = newSize
  BY <1>1, <1>2, ChsizeSound
<1>4. Home(t, Owners) /\ Clean(t, v) /\ Keeps(Stores, Owners, t, Owners, v, CutAway(Paged, newSize))
  BY <1>1, <1>2, ChsizeKeeps DEF CutAway
<1> HIDE DEF t
<1>5. QED  BY <1>2, <1>3, <1>4, KeptBy, BecomesIs

\* So does a cached file that has no page in memory.
LEMMA ChsizeCachedKeeps ==
  ASSUME NEW v, Orderly(v), "bypass" \notin Liberties, NEW newSize \in 0 .. MaxLength, ChsizeCached(newSize)
  PROVE  StepKeeps(v, CutAway(Cached, newSize)) /\ Len(Stores'.disk[Cached]) = newSize
<1> DEFINE t == Resize(Stores, Cached, newSize)
           given == CutAway(Cached, newSize)
<1>1. /\ MaxLength \in Nat /\ Sound(Stores, MaxLength) /\ Home(Stores, Owners)
      /\ Junk \notin v /\ Zero \notin v /\ Clean(Stores, v)
      /\ Cached \in Files /\ Owners[Cached] = cachePg /\ newSize \in Nat
  BY KeptFacts
<1>2. Becomes(t) /\ UNCHANGED <<cachePg, pg>> /\ PagesFor(Stores, cachePg, Cached) = {}
  BY DEF ChsizeCached
<1>3. Sound(t, MaxLength) /\ t.pagers = Stores.pagers /\ Len(t.disk[Cached]) = newSize
  BY <1>1, ResizeSound
<1>4. ASSUME NEW f \in Files, NEW c \in Nat \ {0}, OnDisk(Stores, f, c) \in v, <<f, c>> \notin given
      PROVE  OnDisk(t, f, c) = OnDisk(Stores, f, c)
  <2>1. CASE f # Cached \/ c <= newSize
    BY <1>1, <1>4, <2>1, ResizeOnDisk
  <2>2. CASE f = Cached /\ ~ (c <= newSize)
    <3>1. c > newSize
      BY <1>1, <2>2
    <3>2. ~ Shorter(Stores, Cached, newSize)
      BY <1>4, <2>2, <3>1 DEF CutAway, Past
    <3>3. Len(Stores.disk[Cached]) \in Nat
      BY <1>1 DEF Sound
    <3>4. ~ (c <= Len(Stores.disk[Cached]))
      BY <1>1, <3>1, <3>2, <3>3 DEF Shorter
    <3>5. OnDisk(Stores, f, c) = Junk
      BY <2>2, <3>4 DEF OnDisk
    <3>6. QED  BY <1>1, <1>4, <3>5
  <2>3. QED  BY <2>1, <2>2
<1>5. \A z \in DOMAIN Stores.pagers : \A k \in DOMAIN PagesIn(Stores, z) : \A i \in 1 .. z :
        <<k[1], k[2] * z + i>> \notin given
  <2>1. \A z \in DOMAIN Stores.pagers : \A k \in DOMAIN PagesIn(Stores, z) : k[1] # Cached
    BY <1>1, <1>2 DEF Home, PagesFor
  <2>2. QED  BY <2>1 DEF CutAway, Past
<1> HIDE DEF t, given
<1>6. Home(t, Owners) /\ Clean(t, v) /\ Keeps(Stores, Owners, t, Owners, v, given)
  BY <1>1, <1>3, <1>4, <1>5, DiskKeeps
<1>7. StepKeeps(v, given)
  BY <1>2, <1>3, <1>6, KeptBy
<1>8. Stores' = t
  BY <1>2, <1>3, BecomesIs
<1>9. QED  BY <1>3, <1>7, <1>8 DEF given

-----------------------------------------------------------------------------
(* The length of a paged file.                                             *)

\* Writing pages that are dirty makes no file longer than its length says.
LEMMA FlenGrown ==
  ASSUME IInv, Home(Stores, Owners), FlenCovers, pg # None,
         NEW z \in DOMAIN Stores.pagers, NEW dirty, dirty \subseteq Dirty(Stores, z, DOMAIN PagesIn(Stores, z)),
         NEW t, Grown(Stores, t, z, dirty)
  PROVE  flen >= Len(t.disk[Paged])
<1>1. Paged \in Files /\ Owners[Paged] = pg /\ Stores.pagers = pagers /\ Stores.disk = disk
  BY Givens, OwnersAre DEF Stores
<1>2. Len(t.disk[Paged]) \in Extents(Stores, z, dirty, Paged)
  BY <1>1 DEF Grown
<1>3. flen >= Len(disk[Paged])
  BY DEF FlenCovers
<1>4. ASSUME NEW k \in dirty, k[1] = Paged
      PROVE  flen >= (k[2] + 1) * z
  <2>1. k \in DOMAIN PagesIn(Stores, z) /\ PagesIn(Stores, z)[k].dirty
    BY DEF Dirty
  <2>2. z = pg
    BY <1>1, <1>4, <2>1 DEF Home
  <2>3. k \in PagesFor(Stores, pg, Paged) /\ pagers[pg].pages[k].dirty
    BY <1>1, <1>4, <2>1, <2>2 DEF PagesFor, PagesIn
  <2>4. QED  BY <2>2, <2>3 DEF FlenCovers
<1>5. QED  BY <1>1, <1>2, <1>3, <1>4 DEF Extents

\* No page of the paged file is dirty in pager z that was not.
NoneDirtied(t, z) ==
  \A k \in PagesFor(t, z, Paged) :
    PagesIn(t, z)[k].dirty => k \in PagesFor(Stores, z, Paged) /\ PagesIn(Stores, z)[k].dirty

\* The length covers the file as long as nothing makes the file longer, or
\* a page of it dirty.
LEMMA FlenStill ==
  ASSUME FlenCovers, pg # None, UNCHANGED <<pg, flen>>,
         flen >= Len(Stores'.disk[Paged]), NoneDirtied(Stores', pg)
  PROVE  FlenCovers'
<1>1. Stores'.disk = disk' /\ Stores'.pagers = pagers' /\ Stores.disk = disk /\ Stores.pagers = pagers
  BY DEF Stores
<1>2. ASSUME NEW k \in PagesFor(Stores', pg, Paged), pagers'[pg].pages[k].dirty
      PROVE  flen >= (k[2] + 1) * pg
  <2>1. k \in PagesFor(Stores, pg, Paged) /\ pagers[pg].pages[k].dirty
    BY <1>1, <1>2 DEF NoneDirtied, PagesIn
  <2>2. QED  BY <2>1 DEF FlenCovers
<1>3. QED  BY <1>1, <1>2 DEF FlenCovers

\* A page a client has or fakes is counted in the length.
LEMMA FlenChecked ==
  ASSUME IInv, FlenCovers, pg # None, UNCHANGED pg, NEW page \in Nat, CheckLen(page),
         Stores'.disk = disk,
         \A k \in PagesFor(Stores', pg, Paged) \ {Key(page)} :
           k \in PagesFor(Stores, pg, Paged) /\ PagesIn(Stores', pg)[k] = PagesIn(Stores, pg)[k]
  PROVE  FlenCovers'
<1>1. Stores'.disk = disk' /\ Stores'.pagers = pagers' /\ Stores.pagers = pagers
  BY DEF Stores
<1>2. /\ flen \in Nat /\ pg \in Nat \ {0} /\ flen >= Len(disk[Paged]) /\ Len(disk[Paged]) \in Nat
      /\ (page + 1) * pg \in Nat
      /\ \A k \in PagesFor(Stores, pg, Paged) : k[2] \in Nat
  <2>1. pg \in Nat \ {0} /\ flen \in Nat
    BY Givens DEF IInv, Typed
  <2>2. disk[Paged] \in Seq(Int)
    BY Givens DEF IInv, Typed, Sound, Stores
  <2>3. pg \in DOMAIN Stores.pagers
    BY ClientPagers
  <2>4. PageMap(pg, MaxLength, PagesIn(Stores, pg))
    BY <2>3 DEF IInv, Typed, Sound, PagerWhole, PagesIn
  <2>5. \A k \in PagesFor(Stores, pg, Paged) : k[2] \in Nat
    BY <2>4 DEF PageMap, PagesFor
  <2>6. QED  BY <2>1, <2>2, <2>5 DEF FlenCovers
<1>3. flen' \in Nat /\ flen' >= flen /\ flen' >= (page + 1) * pg
  BY <1>2 DEF CheckLen
<1>4. ASSUME NEW k \in PagesFor(Stores', pg, Paged), pagers'[pg].pages[k].dirty
      PROVE  flen' >= (k[2] + 1) * pg
  <2>1. CASE k = Key(page)
    <3>1. k[2] = page
      BY <2>1 DEF Key
    <3>2. QED  BY <1>3, <3>1
  <2>2. CASE k # Key(page)
    <3>1. k \in PagesFor(Stores, pg, Paged) /\ pagers[pg].pages[k].dirty
      BY <1>1, <1>4, <2>2 DEF PagesIn
    <3>2. flen >= (k[2] + 1) * pg /\ (k[2] + 1) * pg \in Nat
      BY <1>2, <3>1 DEF FlenCovers
    <3>3. QED  BY <1>2, <1>3, <3>2
  <2>3. QED  BY <2>1, <2>2
<1>5. QED  BY <1>1, <1>2, <1>3, <1>4 DEF FlenCovers

\* What each step of a paged file makes of its length.
LEMMA PagedStepFlen ==
  ASSUME IInv, Home(Stores, Owners), FlenCovers, "hasty" \notin Liberties, PagedStep
  PROVE  FlenCovers'
<1>1. /\ pg # None /\ pg \in DOMAIN Stores.pagers /\ pg \in Nat \ {0}
      /\ MaxLength \in Nat /\ Paged \in Files /\ Sound(Stores, MaxLength)
      /\ Stores.disk = disk /\ Stores.pagers = pagers
  <2>1. pg # None
    BY DEF PagedStep, FetchPage, PutFetched, PutFaked, Flush, ClosePaged, ChsizePaged
  <2>2. QED  BY <2>1, ClientPagers, Givens, PagersAssumption DEF IInv, Typed
<1>2. ASSUME NEW page \in Nat, InBound(page), NEW data \in [1 .. pg -> Int], NEW u,
             u = WithPage(Stores, pg, Paged, page, data)
      PROVE  /\ Sound(u, MaxLength) /\ u.disk = disk /\ pg \in DOMAIN u.pagers
             /\ Key(page) \in DOMAIN PagesIn(u, pg)
             /\ \A k \in PagesFor(u, pg, Paged) \ {Key(page)} :
                  k \in PagesFor(Stores, pg, Paged) /\ PagesIn(u, pg)[k] = PagesIn(Stores, pg)[k]
  <2>1. /\ Sound(u, MaxLength) /\ u.disk = disk /\ pg \in DOMAIN u.pagers
        /\ Key(page) \in DOMAIN PagesIn(u, pg)
        /\ OnlyPages(Stores, u, pg, Joined(PagesIn(Stores, pg), OnePage(Paged, page, data)))
    BY <1>1, <1>2, PageLoaded
  <2>2. \A k \in PagesFor(u, pg, Paged) \ {Key(page)} :
          k \in PagesFor(Stores, pg, Paged) /\ PagesIn(u, pg)[k] = PagesIn(Stores, pg)[k]
    BY <2>1 DEF OnlyPages, Joined, OnePage, PagesFor, Key
  <2>3. QED  BY <2>1, <2>2
<1>3. ASSUME NEW page \in Nat, InBound(page), NEW data \in [1 .. pg -> Int], NEW u,
             u = WithPage(Stores, pg, Paged, page, data),
             NEW from \in Nat, NEW to \in Nat, NEW v \in Values,
             Becomes(Overwritten(u, page, from, to, v)), UNCHANGED pg, CheckLen(page)
      PROVE  FlenCovers'
  <2> DEFINE t == Overwritten(u, page, from, to, v)
  <2>1. /\ Sound(u, MaxLength) /\ u.disk = disk /\ pg \in DOMAIN u.pagers
        /\ Key(page) \in DOMAIN PagesIn(u, pg)
        /\ \A k \in PagesFor(u, pg, Paged) \ {Key(page)} :
             k \in PagesFor(Stores, pg, Paged) /\ PagesIn(u, pg)[k] = PagesIn(Stores, pg)[k]
    BY <1>2, <1>3
  <2>2. /\ Sound(t, MaxLength) /\ t.disk = u.disk
        /\ OnlyPages(u, t, pg, [PagesIn(u, pg) EXCEPT ![Key(page)] = Entry(u, page, from, to, v)])
    <3>1. v \in Int
      BY Givens
    <3>2. QED  BY <1>1, <2>1, <3>1, OverwrittenSound
  <2> HIDE DEF t
  <2>3. /\ PagesIn(t, pg) = [PagesIn(u, pg) EXCEPT ![Key(page)] = Entry(u, page, from, to, v)]
        /\ DOMAIN PagesIn(t, pg) = DOMAIN PagesIn(u, pg)
    BY <2>2 DEF OnlyPages
  <2>4. \A k \in PagesFor(t, pg, Paged) \ {Key(page)} :
          k \in PagesFor(u, pg, Paged) /\ PagesIn(t, pg)[k] = PagesIn(u, pg)[k]
    BY <2>3 DEF PagesFor
  <2>5. Stores' = t
    BY <1>3, <2>2, BecomesIs DEF t
  <2>6. QED  BY <1>1, <1>3, <2>1, <2>2, <2>4, <2>5, FlenChecked
<1>4. ASSUME NEW page \in 0 .. MaxLength - 1, FetchPage(page)
      PROVE  FlenCovers'
  <2> DEFINE t == Fetch(Stores, pg, Paged, page)
  <2>1. page \in Nat /\ InBound(page) /\ Becomes(t) /\ UNCHANGED pg /\ CheckLen(page)
    BY <1>4 DEF FetchPage
  <2>2. /\ Sound(t, MaxLength) /\ t.disk = disk
        /\ \A k \in PagesFor(t, pg, Paged) \ {Key(page)} :
             k \in PagesFor(Stores, pg, Paged) /\ PagesIn(t, pg)[k] = PagesIn(Stores, pg)[k]
    BY <1>1, <1>2, <2>1, LoadedData DEF Fetch
  <2> HIDE DEF t
  <2>3. Stores' = t
    BY <2>1, <2>2, BecomesIs
  <2>4. QED  BY <1>1, <2>1, <2>2, <2>3, FlenChecked
<1>5. ASSUME NEW page \in 0 .. MaxLength - 1, NEW v \in Values, PutFetched(page, v)
      PROVE  FlenCovers'
  <2>1. page \in Nat /\ InBound(page) /\ UNCHANGED pg /\ CheckLen(page)
    BY <1>5 DEF PutFetched
  <2>2. PICK from \in 1 .. pg : \E to \in from .. pg :
          Becomes(Overwritten(Fetch(Stores, pg, Paged, page), page, from, to, v))
    BY <1>5 DEF PutFetched
  <2>3. PICK to \in from .. pg :
          Becomes(Overwritten(Fetch(Stores, pg, Paged, page), page, from, to, v))
    BY <2>2
  <2>4. from \in Nat /\ to \in Nat
    BY <1>1
  <2>5. Image(Stores, pg, Paged, page) \in [1 .. pg -> Int]
    BY <1>1, <2>1, LoadedData
  <2>6. QED  BY <1>3, <2>1, <2>3, <2>4, <2>5 DEF Fetch
<1>6. ASSUME NEW page \in 0 .. MaxLength - 1, NEW v \in Values, PutFaked(page, v)
      PROVE  FlenCovers'
  <2>1. /\ page \in Nat /\ InBound(page) /\ UNCHANGED pg /\ CheckLen(page)
        /\ Becomes(Overwritten(Fake(Stores, pg, Paged, page), page, 1, pg, v))
    BY <1>6 DEF PutFaked
  <2>2. 1 \in Nat /\ pg \in Nat
    BY <1>1
  <2>3. [i \in 1 .. pg |-> Junk] \in [1 .. pg -> Int]
    BY <1>1, <2>1, LoadedData
  <2>4. QED  BY <1>3, <2>1, <2>2, <2>3 DEF Fake
<1>7. CASE Flush
  <2> DEFINE t == Commit(Stores, pg, Paged)
  <2>1. Becomes(t) /\ UNCHANGED <<pg, flen>>
    BY <1>7 DEF Flush
  <2>2. /\ Sound(t, MaxLength) /\ AllClean(t, pg, Paged)
        /\ Grown(Stores, t, pg, Dirty(Stores, pg, PagesFor(Stores, pg, Paged)))
    BY <1>1, CommitSound
  <2> HIDE DEF t
  <2>3. Dirty(Stores, pg, PagesFor(Stores, pg, Paged)) \subseteq Dirty(Stores, pg, DOMAIN PagesIn(Stores, pg))
    BY DEF Dirty, PagesFor
  <2>4. flen >= Len(t.disk[Paged])
    BY <1>1, <2>2, <2>3, FlenGrown
  <2>5. NoneDirtied(t, pg)
    BY <2>2 DEF NoneDirtied, AllClean
  <2>6. Stores' = t
    BY <2>1, <2>2, BecomesIs
  <2>7. QED  BY <1>1, <2>1, <2>4, <2>5, <2>6, FlenStill
<1>8. CASE ClosePaged
  BY <1>8 DEF ClosePaged, FlenCovers
<1>9. ASSUME NEW newSize \in 0 .. MaxLength, ChsizePaged(newSize)
      PROVE  FlenCovers'
  <2> DEFINE t == Chsize(Stores, pg, Paged, newSize)
  <2>1. /\ Becomes(t) /\ UNCHANGED pg /\ flen' = newSize /\ newSize \in Nat
        /\ \A k \in PagesFor(Stores, pg, Paged) : ~ pagers[pg].pages[k].dirty
    BY <1>1, <1>9 DEF ChsizePaged
  <2>2. /\ Sound(t, MaxLength) /\ OthersSame(Stores, t, pg, Paged)
        /\ \A k \in DOMAIN PagesIn(t, pg) : PagesIn(t, pg)[k] = PagesIn(Stores, pg)[k]
        /\ Len(t.disk[Paged]) = newSize
    BY <1>1, <2>1, ChsizeSound
  <2> HIDE DEF t
  <2>3. \A k \in PagesFor(t, pg, Paged) : ~ PagesIn(t, pg)[k].dirty
    BY <1>1, <2>1, <2>2 DEF OthersSame, PagesFor, PagesIn
  <2>4. t = [disk |-> disk', pagers |-> pagers']
    BY <2>1, <2>2, BecomesIs DEF Stores
  <2>5. Stores' = t
    BY <2>1, <2>2, BecomesIs
  <2>6. t.pagers = pagers' /\ t.disk = disk'
    BY <2>4
  <2>7. QED  BY <2>1, <2>2, <2>3, <2>5, <2>6 DEF FlenCovers, PagesIn
<1>10. QED  BY <1>4, <1>5, <1>6, <1>7, <1>8, <1>9 DEF PagedStep

\* No step of a cached file, and no eviction, makes it less than it must be.
LEMMA CachedStepFlen ==
  ASSUME IInv, Home(Stores, Owners), FlenCovers, pg # None, CachedStep
  PROVE  FlenCovers'
<1>1. /\ pg \in DOMAIN Stores.pagers /\ cachePg \in DOMAIN Stores.pagers
      /\ MaxLength \in Nat /\ Paged \in Files /\ Cached \in Files /\ Paged # Cached
      /\ Sound(Stores, MaxLength)
      /\ Stores.disk = disk /\ Stores.pagers = pagers
  BY ClientPagers, Givens DEF IInv, Typed
<1>2. UNCHANGED <<pg, flen>>
  BY DEF CachedStep, Read, Write, CommitCached, CloseCached, ChsizeCached, EvictPage
<1>3. flen >= Len(disk[Paged])
  BY DEF FlenCovers
<1>4. ASSUME NEW n \in 1 .. MaxLength, Read(n)
      PROVE  FlenCovers'
  <2> DEFINE t == CacheRead(Stores, cachePg, Cached, curPos, n)
  <2>1. Becomes(t) /\ curPos # None /\ curPos + n <= MaxLength
    BY <1>4 DEF Read
  <2>2. curPos \in Nat /\ n \in Nat \ {0} /\ InReach(MaxLength, cachePg, curPos, n)
    BY <2>1, CacheReach
  <2>3. /\ Sound(t, MaxLength) /\ t.disk = Stores.disk
        /\ OnlyPages(Stores, t, cachePg,
                     Joined(PagesIn(Stores, cachePg), ReadPages(Stores, cachePg, Cached, curPos, n)))
    BY <1>1, <2>2, CacheReadSound
  <2> HIDE DEF t
  <2>4. NoneDirtied(t, pg)
    <3>1. /\ \A k \in DOMAIN PagesIn(t, cachePg) \ DOMAIN PagesIn(Stores, cachePg) :
               ~ PagesIn(t, cachePg)[k].dirty
          /\ \A k \in DOMAIN PagesIn(Stores, cachePg) :
               PagesIn(t, cachePg)[k] = PagesIn(Stores, cachePg)[k]
      BY <2>3 DEF OnlyPages, Joined, ReadPages
    <3>2. pg # cachePg => PagesIn(t, pg) = PagesIn(Stores, pg)
      BY <1>1, <2>3 DEF OnlyPages
    <3>3. CASE pg = cachePg
      BY <3>1, <3>3 DEF NoneDirtied, PagesFor
    <3>4. CASE pg # cachePg
      BY <3>2, <3>4 DEF NoneDirtied, PagesFor
    <3>5. QED  BY <3>3, <3>4
  <2>5. Stores' = t
    BY <2>1, <2>3, BecomesIs
  <2>6. QED  BY <1>1, <1>2, <1>3, <2>3, <2>4, <2>5, FlenStill
<1>5. ASSUME NEW n \in 1 .. MaxLength, NEW v \in Values, Write(n, v)
      PROVE  FlenCovers'
  <2> DEFINE t == CacheWrite(Stores, cachePg, Cached, curPos, Row(n, v))
             r == WrittenPages(Stores, cachePg, Cached, curPos, n, Row(n, v))
             q == Joined(r, PagesIn(Stores, cachePg))
  <2>1. Becomes(t) /\ curPos # None /\ curPos + n <= MaxLength
    BY <1>5 DEF Write, Row
  <2>2. /\ curPos \in Nat /\ n \in Nat \ {0} /\ InReach(MaxLength, cachePg, curPos, n)
        /\ Row(n, v) \in [1 .. n -> Int]
    BY <2>1, CacheReach, Givens, RowIs
  <2>3. Sound(t, MaxLength) /\ t.disk = Stores.disk /\ OnlyPages(Stores, t, cachePg, q)
    BY <1>1, <2>2, CacheWriteSound
  <2>4. \A k \in DOMAIN r : k[1] = Cached
    BY DEF WrittenPages
  <2>5. \A k \in DOMAIN q : k[1] = Paged =>
          k \in DOMAIN PagesIn(Stores, cachePg) /\ q[k] = PagesIn(Stores, cachePg)[k]
    <3> HIDE DEF r
    <3>1. QED  BY <1>1, <2>4 DEF Joined
  <2> HIDE DEF t, q
  <2>6. NoneDirtied(t, pg)
    BY <1>1, <2>3, <2>5 DEF NoneDirtied, OnlyPages, PagesFor
  <2>7. Stores' = t
    BY <2>1, <2>3, BecomesIs
  <2>8. QED  BY <1>1, <1>2, <1>3, <2>3, <2>6, <2>7, FlenStill
<1>6. ASSUME NEW t, Sound(t, MaxLength), Becomes(t), OthersSame(Stores, t, cachePg, Cached),
             Grown(Stores, t, cachePg, Dirty(Stores, cachePg, PagesFor(Stores, cachePg, Cached)))
      PROVE  FlenCovers'
  <2>1. Dirty(Stores, cachePg, PagesFor(Stores, cachePg, Cached))
          \subseteq Dirty(Stores, cachePg, DOMAIN PagesIn(Stores, cachePg))
    BY DEF Dirty, PagesFor
  <2>2. flen >= Len(t.disk[Paged])
    BY <1>1, <1>6, <2>1, FlenGrown
  <2>3. NoneDirtied(t, pg)
    BY <1>1, <1>6 DEF NoneDirtied, OthersSame, PagesFor
  <2>4. Stores' = t
    BY <1>6, BecomesIs
  <2>5. QED  BY <1>2, <2>2, <2>3, <2>4, FlenStill
<1>7. CASE CommitCached
  <2>1. Becomes(Commit(Stores, cachePg, Cached))
    BY <1>7 DEF CommitCached
  <2>2. QED  BY <1>1, <1>6, <2>1, CommitSound
<1>8. CASE CloseCached
  <2>1. Becomes(Detach(Stores, cachePg, Cached))
    BY <1>8 DEF CloseCached
  <2>2. QED  BY <1>1, <1>6, <2>1, DetachSound
<1>9. ASSUME NEW newSize \in 0 .. MaxLength, ChsizeCached(newSize)
      PROVE  FlenCovers'
  <2> DEFINE t == Resize(Stores, Cached, newSize)
  <2>1. newSize \in Nat
    BY <1>1
  <2>2. Sound(t, MaxLength) /\ t.pagers = Stores.pagers /\ t.disk[Paged] = Stores.disk[Paged]
    BY <1>1, <2>1, ResizeKept
  <2>3. Becomes(t)
    BY <1>9 DEF ChsizeCached
  <2> HIDE DEF t
  <2>4. NoneDirtied(t, pg)
    BY <2>2 DEF NoneDirtied, PagesFor, PagesIn
  <2>5. Stores' = t
    BY <2>2, <2>3, BecomesIs
  <2>6. QED  BY <1>1, <1>2, <1>3, <2>2, <2>4, <2>5, FlenStill
<1>10. CASE EvictPage
  <2>1. PICK z \in DOMAIN Stores.pagers : \E k \in DOMAIN PagesIn(Stores, z) :
          Becomes(Drop(Dump(Stores, z, {k}), z, {k}))
    BY <1>1, <1>10 DEF EvictPage, Evict, PagesIn
  <2>2. PICK k \in DOMAIN PagesIn(Stores, z) : Becomes(Drop(Dump(Stores, z, {k}), z, {k}))
    BY <2>1
  <2> DEFINE t == Drop(Dump(Stores, z, {k}), z, {k})
  <2>3. /\ Sound(t, MaxLength)
        /\ \A y \in DOMAIN Stores.pagers :
             /\ t.pagers[y].use = Stores.pagers[y].use
             /\ \A j \in DOMAIN PagesIn(t, y) :
                  j \in DOMAIN PagesIn(Stores, y) /\ PagesIn(t, y)[j] = PagesIn(Stores, y)[j]
        /\ Grown(Stores, t, z, Dirty(Stores, z, {k}))
    BY <1>1, EvictSound
  <2> HIDE DEF t
  <2>4. Dirty(Stores, z, {k}) \subseteq Dirty(Stores, z, DOMAIN PagesIn(Stores, z))
    BY DEF Dirty
  <2>5. flen >= Len(t.disk[Paged])
    BY <2>3, <2>4, FlenGrown
  <2>6. NoneDirtied(t, pg)
    BY <1>1, <2>3 DEF NoneDirtied, PagesFor
  <2>7. Stores' = t
    BY <2>2, <2>3, BecomesIs DEF t
  <2>8. QED  BY <1>2, <2>5, <2>6, <2>7, FlenStill
<1>11. QED  BY <1>4, <1>5, <1>7, <1>8, <1>9, <1>10 DEF CachedStep

\* A paged file that is opened, or changes its page size, knows its length.
LEMMA MoveFlen ==
  ASSUME IInv, Home(Stores, Owners), FlenCovers, MoveStep, PagersLive'
  PROVE  FlenCovers'
<1>1. /\ Stores'.disk = disk' /\ Stores'.pagers = pagers'
      /\ Stores.disk = disk /\ Stores.pagers = pagers
  BY DEF Stores
<1>2. /\ cachePg \in DOMAIN pagers /\ (pg # None => pg \in DOMAIN pagers)
      /\ Paged \in Files /\ Cached \in Files /\ Owners[Paged] = pg /\ Owners[Cached] = cachePg
      /\ None \notin PageSizes /\ DOMAIN pagers \subseteq PageSizes
      /\ disk[Paged] \in Seq(Int)
  BY <1>1, ClientPagers, Givens, OwnersAre DEF IInv, Typed, Sound
<1>3. \A z \in DOMAIN pagers : z # pg => PagesFor(Stores, z, Paged) = {}
  BY <1>1, <1>2 DEF Home, PagesFor
<1>4. ASSUME NEW size \in PageSizes, WrapPaged(size)
      PROVE  FlenCovers'
  <2>1. pg = None /\ pg' = size /\ flen' = Len(disk[Paged])
    BY <1>4 DEF WrapPaged
  <2>2. /\ Stores'.disk = disk
        /\ \A y \in DOMAIN pagers : PagesIn(Stores', y) = PagesIn(Stores, y)
        /\ size \notin DOMAIN pagers => DOMAIN PagesIn(Stores', size) = {}
    BY <1>1, <1>4, MoveSound DEF OnlyUse, Added
  <2>3. PagesFor(Stores', size, Paged) = {}
    BY <1>2, <1>3, <2>1, <2>2 DEF PagesFor
  <2>4. QED  BY <1>1, <1>2, <2>1, <2>2, <2>3 DEF FlenCovers
<1>5. ASSUME NEW size \in PageSizes, SetPageSizePaged(size)
      PROVE  FlenCovers'
  <2>1. pg # None /\ pg' = size /\ flen' = flen /\ pg \in DOMAIN pagers
    BY <1>2, <1>5 DEF SetPageSizePaged
  <2>2. SizeSet(Stores, Stores', pg, size)
    BY <1>5, MoveSound
  <2>3. flen >= Len(Stores'.disk[Paged])
    BY <1>1, <2>1, <2>2, FlenGrown DEF SizeSet
  <2>4. size \in DOMAIN pagers'
    BY <1>1, <2>1, <2>2 DEF SizeSet
  <2>5. CASE size = pg
    <3>1. PagesIn(Stores', pg) = PagesIn(Stores, pg)
      BY <1>1, <2>1, <2>2, <2>4, <2>5 DEF SizeSet
    <3>2. NoneDirtied(Stores', pg)
      BY <3>1 DEF NoneDirtied, PagesFor
    <3>3. QED  BY <2>1, <2>3, <2>5, <3>2, FlenStill
  <2>6. CASE size # pg
    <3>1. PagesFor(Stores', size, Paged) = {}
      <4>1. CASE size \in DOMAIN pagers
        <5>1. PagesIn(Stores', size) = PagesIn(Stores, size)
          BY <1>1, <2>2, <2>4, <4>1 DEF SizeSet
        <5>2. QED  BY <1>3, <2>6, <4>1, <5>1 DEF PagesFor
      <4>2. CASE size \notin DOMAIN pagers
        <5>1. DOMAIN PagesIn(Stores', size) = {}
          BY <1>1, <2>2, <2>4, <4>2 DEF SizeSet
        <5>2. QED  BY <5>1 DEF PagesFor
      <4>3. QED  BY <4>1, <4>2
    <3>2. QED  BY <1>1, <2>1, <2>3, <3>1 DEF FlenCovers
  <2>7. QED  BY <2>5, <2>6
<1>6. ASSUME NEW size \in PageSizes, SetPageSizeCache(size), pg # None
      PROVE  FlenCovers'
  <2>1. UNCHANGED <<pg, flen>>
    BY <1>6 DEF SetPageSizeCache
  <2>2. SizeSet(Stores, Stores', cachePg, size)
    BY <1>6, MoveSound
  <2>3. flen >= Len(Stores'.disk[Paged])
    BY <1>1, <1>2, <1>6, <2>2, FlenGrown DEF SizeSet
  <2>4. pg \in DOMAIN pagers'
    BY <1>6, <2>1 DEF PagersLive
  <2>5. PagesIn(Stores', pg) = PagesIn(Stores, pg)
    BY <1>1, <1>2, <1>6, <2>2, <2>4 DEF SizeSet
  <2>6. NoneDirtied(Stores', pg)
    BY <2>5 DEF NoneDirtied, PagesFor
  <2>7. QED  BY <1>6, <2>1, <2>3, <2>6, FlenStill
<1>7. ASSUME pg = None, NEW size \in PageSizes, SetPageSizeCache(size)
      PROVE  FlenCovers'
  BY <1>7 DEF SetPageSizeCache, FlenCovers
<1>8. QED  BY <1>4, <1>5, <1>6, <1>7 DEF MoveStep

-----------------------------------------------------------------------------
(* The theorems about the length of a paged file and about the contents of *)
(* both files.                                                             *)

\* Before the first call both files are at home and nothing is cached.
LEMMA InitHome == Init => Home(Stores, Owners) /\ Clean(Stores, Values) /\ FlenCovers
<1> SUFFICES ASSUME Init PROVE Home(Stores, Owners) /\ Clean(Stores, Values) /\ FlenCovers
  OBVIOUS
<1>1. pagers = [z \in {cachePg} |-> [use |-> 1, pages |-> <<>>]]
  BY DEF Init, NewPager
<1>2. DOMAIN Stores.pagers = {cachePg} /\ DOMAIN PagesIn(Stores, cachePg) = {}
  BY <1>1 DEF Stores, PagesIn
<1>3. pg = None
  BY DEF Init
<1>4. QED  BY <1>2, <1>3 DEF Home, Clean, FlenCovers

\* No step leaves pages of a file in a pager its client does not have.
LEMMA HomeStep ==
  ASSUME IInv, Home(Stores, Owners), "move" \notin Liberties, [Next]_vars
  PROVE  Home(Stores', Owners')
<1>1. Orderly({})
  BY DEF Orderly, Clean
<1>2. CASE PagedStep
  <2>1. ASSUME NEW newSize \in 0 .. MaxLength, ChsizePaged(newSize)
        PROVE  Home(Stores', Owners')
    <3> DEFINE t == Chsize(Stores, pg, Paged, newSize)
    <3>1. Becomes(t) /\ pg \in DOMAIN Stores.pagers /\ UNCHANGED <<cachePg, pg>> /\ newSize \in Nat
      BY <2>1, ClientPagers, Givens DEF ChsizePaged
    <3>2. MaxLength \in Nat /\ Sound(Stores, MaxLength) /\ Paged \in Files
      BY Givens DEF IInv, Typed
    <3>3. Sound(t, MaxLength) /\ OthersSame(Stores, t, pg, Paged)
      BY <3>1, <3>2, ChsizeSound
    <3> HIDE DEF t
    <3>4. Home(t, Owners)
      BY <3>3 DEF OthersSame, Home
    <3>5. Stores' = t /\ Owners' = Owners
      BY <3>1, <3>3, BecomesIs, OwnersAre
    <3>6. QED  BY <3>4, <3>5
  <2>2. QED
    BY <1>1, <1>2, <2>1, QuietKeeps, CloseKeeps, PutFetchedWrites, PutFakedWrites
       DEF PagedStep, StepWrites, StepKeeps
<1>3. CASE CachedStep
  <2>1. ASSUME NEW newSize \in 0 .. MaxLength, ChsizeCached(newSize)
        PROVE  Home(Stores', Owners')
    <3> DEFINE t == Resize(Stores, Cached, newSize)
    <3>1. Becomes(t) /\ UNCHANGED <<cachePg, pg>> /\ newSize \in Nat
      BY <2>1, Givens DEF ChsizeCached
    <3>2. MaxLength \in Nat /\ Sound(Stores, MaxLength) /\ Cached \in Files
      BY Givens DEF IInv, Typed
    <3>3. Sound(t, MaxLength) /\ t.pagers = Stores.pagers
      BY <3>1, <3>2, ResizeSound
    <3> HIDE DEF t
    <3>4. Home(t, Owners)
      BY <3>3 DEF Home, PagesIn
    <3>5. Stores' = t /\ Owners' = Owners
      BY <3>1, <3>3, BecomesIs, OwnersAre
    <3>6. QED  BY <3>4, <3>5
  <2>2. QED  BY <1>1, <1>3, <2>1, QuietKeeps, WriteWrites DEF CachedStep, StepWrites, StepKeeps
<1>4. CASE IdleStep \/ UNCHANGED vars
  BY <1>1, <1>4, QuietKeeps DEF StepKeeps
<1>5. CASE MoveStep
  BY <1>1, <1>5, MoveKeeps DEF StepKeeps
<1>6. QED  BY <1>2, <1>3, <1>4, <1>5, NextSteps

\* The length of a paged file (src/edbPagedFile_imp.cpp:92) covers the file
\* and the pages of it that are dirty, as long as no client moves to another
\* pager while pages of its file stay behind, or changes the size of the file
\* before it has flushed its pages.
THEOREM FlenCovered ==
  ASSUME Liberties \cap {"move", "hasty"} = {}
  PROVE  Spec => []FlenCovers
<1> DEFINE FInv == IInv /\ Home(Stores, Owners) /\ FlenCovers
<1>1. "move" \notin Liberties /\ "hasty" \notin Liberties
  OBVIOUS
<1>2. Init => FInv
  BY InitTyped, InitHome
<1>3. FInv /\ [Next]_vars => FInv'
  <2> SUFFICES ASSUME FInv, [Next]_vars PROVE FInv'
    OBVIOUS
  <2>1. IInv' /\ Home(Stores', Owners')
    BY <1>1, StepTyped, HomeStep
  <2>2. FlenCovers'
    <3>1. CASE PagedStep
      BY <1>1, <3>1, PagedStepFlen
    <3>2. CASE CachedStep
      <4>1. CASE pg = None
        <5>1. UNCHANGED pg
          BY <3>2 DEF CachedStep, Read, Write, CommitCached, CloseCached, ChsizeCached, EvictPage
        <5>2. QED  BY <4>1, <5>1 DEF FlenCovers
      <4>2. QED  BY <3>2, <4>1, CachedStepFlen
    <3>3. CASE IdleStep \/ UNCHANGED vars
      <4>1. UNCHANGED <<disk, pagers, pg, flen>>
        BY <3>3 DEF IdleStep, WrapCached, Seek, vars
      <4>2. QED  BY <4>1 DEF FlenCovers, PagesFor, PagesIn, Stores
    <3>4. CASE MoveStep
      BY <2>1, <3>4, MoveFlen DEF IInv
    <3>5. QED  BY <3>1, <3>2, <3>3, <3>4, NextSteps
  <2>3. QED  BY <2>1, <2>2
<1>4. FInv => FlenCovers
  OBVIOUS
<1> HIDE DEF FInv
<1>5. QED  BY <1>2, <1>3, <1>4, PTL DEF Spec

\* What the abstract stores have for cells is what is seen of them.
CellsSeen ==
  \A f \in Files, p \in 0 .. MaxLength - 1 : Cells(f)[p] = View(Stores, Owners, f, p + 1)

\* The cells of a file are what is viewed of it.
LEMMA CellsView == IInv => CellsSeen
<1> SUFFICES ASSUME IInv, NEW f \in Files, NEW p \in 0 .. MaxLength - 1
             PROVE  Cells(f)[p] = View(Stores, Owners, f, p + 1)
  BY DEF CellsSeen
<1>1. /\ Stores.disk = disk /\ Stores.pagers = pagers
      /\ cachePg \in DOMAIN pagers /\ (pg # None => pg \in DOMAIN pagers) /\ None \notin DOMAIN pagers
      /\ MaxLength \in Nat /\ Owners[f] = (IF f = Cached THEN cachePg ELSE pg)
      /\ Len(disk[f]) \in Nat
  <2>1. Stores.disk = disk /\ Stores.pagers = pagers
    BY DEF Stores
  <2>2. DOMAIN pagers \subseteq PageSizes /\ disk[f] \in Seq(Int)
    BY <2>1 DEF IInv, Typed, Sound
  <2>3. QED  BY <2>1, <2>2, ClientPagers, Givens DEF Owners
<1>2. CASE f = Cached
  <2>1. Cells(f)[p] = Seen(Stores, cachePg, f, p + 1)
    BY <1>2 DEF Cells
  <2>2. QED  BY <1>1, <1>2, <2>1 DEF View
<1>3. CASE f # Cached /\ pg # None
  <2>1. Cells(f)[p] = Seen(Stores, pg, f, p + 1)
    BY <1>3 DEF Cells
  <2>2. QED  BY <1>1, <1>3, <2>1 DEF View
<1>4. CASE f # Cached /\ pg = None
  <2>1. Cells(f)[p] = IF p < Len(disk[f]) THEN disk[f][p + 1] ELSE Junk
    BY <1>4 DEF Cells
  <2>2. p < Len(disk[f]) <=> p + 1 <= Len(disk[f])
    BY <1>1
  <2>3. QED  BY <1>1, <1>4, <2>1, <2>2 DEF View, OnDisk
<1>5. QED  BY <1>2, <1>3, <1>4

\* It is so after a step, too.
LEMMA CellsViewNext == IInv' => CellsSeen'
BY CellsView, PTL

\* What the abstract store has for pages and sizes.
Contents == [f \in Files |-> Cells(f)]
\* What the abstract stores have for the lengths of files.
Sizes == [f \in Files |-> Len(disk[f])]

\* A step that gives up no more than some cells keeps the contents of the
\* store elsewhere.
LEMMA StoreKept ==
  ASSUME IInv, IInv', NEW given, NEW gone, StepKeeps(Values, given),
         \A f \in Files, p \in 0 .. MaxLength - 1 : <<f, p + 1>> \in given => <<f, p>> \in gone
  PROVE  Store!Kept(Contents, Contents', gone)
<1> SUFFICES ASSUME NEW f \in Files, NEW p \in 0 .. MaxLength - 1,
                    Contents[f][p] \in Values, <<f, p>> \notin gone
             PROVE  Contents'[f][p] = Contents[f][p]
  BY DEF Store!Kept
<1>1. Contents[f][p] = View(Stores, Owners, f, p + 1)
  BY CellsView DEF Contents, CellsSeen
<1>2. Contents'[f][p] = View(Stores', Owners', f, p + 1)
  BY CellsViewNext DEF Contents, CellsSeen
<1>3. p + 1 \in Nat \ {0}
  BY Givens
<1>4. View(Stores', Owners', f, p + 1) = View(Stores, Owners, f, p + 1)
  BY <1>1, <1>3 DEF StepKeeps, Keeps
<1>5. QED  BY <1>1, <1>2, <1>4

\* No file is longer in s than in t.
NotShorter(s, t) == \A f \in Files : Len(t.disk[f]) >= Len(s.disk[f])

\* The steps that change the size of a file.
SizeStep == \E newSize \in 0 .. MaxLength : ChsizePaged(newSize) \/ ChsizeCached(newSize)

\* Only a change of its size makes a file shorter.
LEMMA StepNotShorter ==
  ASSUME IInv, [Next]_vars, ~ SizeStep
  PROVE  NotShorter(Stores, Stores')
<1>1. /\ MaxLength \in Nat /\ Sound(Stores, MaxLength) /\ Paged \in Files /\ Cached \in Files
      /\ cachePg \in DOMAIN Stores.pagers /\ (pg # None => pg \in DOMAIN Stores.pagers)
      /\ Stores.disk = disk
  BY ClientPagers, Givens DEF IInv, Typed
<1>2. ASSUME NEW t, Sound(t, MaxLength), Becomes(t),
             \/ t.disk = Stores.disk
             \/ \E z, dirty : Grown(Stores, t, z, dirty)
      PROVE  NotShorter(Stores, Stores')
  <2>1. Stores' = t
    BY <1>2, BecomesIs
  <2>2. \A f \in Files : Len(Stores.disk[f]) \in Nat
    BY <1>1 DEF Sound
  <2>3. QED  BY <1>2, <2>1, <2>2 DEF Grown, NotShorter
<1>3. CASE PagedStep
  <2>1. ASSUME pg # None, NEW page \in Nat, InBound(page), NEW data \in [1 .. pg -> Int]
        PROVE  LET u == WithPage(Stores, pg, Paged, page, data)
               IN  /\ Sound(u, MaxLength) /\ u.disk = Stores.disk
                   /\ pg \in DOMAIN u.pagers /\ Key(page) \in DOMAIN PagesIn(u, pg)
    BY <1>1, <2>1, PageLoaded
  <2>2. ASSUME NEW page \in 0 .. MaxLength - 1, FetchPage(page)
        PROVE  NotShorter(Stores, Stores')
    <3>1. /\ pg # None /\ InBound(page) /\ Becomes(Fetch(Stores, pg, Paged, page)) /\ page \in Nat
      BY <1>1, <2>2 DEF FetchPage
    <3>2. QED  BY <1>2, <2>1, <3>1, LoadedData DEF Fetch
  <2>3. ASSUME pg # None, NEW page \in Nat, InBound(page), NEW data \in [1 .. pg -> Int],
               NEW u, u = WithPage(Stores, pg, Paged, page, data),
               NEW from \in Nat, NEW to \in Nat, NEW v \in Values,
               Becomes(Overwritten(u, page, from, to, v))
        PROVE  NotShorter(Stores, Stores')
    <3>1. /\ Sound(u, MaxLength) /\ u.disk = Stores.disk
          /\ pg \in DOMAIN u.pagers /\ Key(page) \in DOMAIN PagesIn(u, pg)
      BY <2>1, <2>3
    <3>2. v \in Int
      BY Givens
    <3> DEFINE t == Overwritten(u, page, from, to, v)
    <3>3. /\ Sound(t, MaxLength) /\ t.disk = u.disk
          /\ OnlyPages(u, t, pg, [PagesIn(u, pg) EXCEPT ![Key(page)] = Entry(u, page, from, to, v)])
      BY <1>1, <3>1, <3>2, OverwrittenSound
    <3> HIDE DEF t
    <3>4. QED  BY <1>2, <2>3, <3>1, <3>3 DEF t
  <2>4. ASSUME NEW page \in 0 .. MaxLength - 1, NEW v \in Values, PutFetched(page, v)
        PROVE  NotShorter(Stores, Stores')
    <3>1. /\ pg # None /\ InBound(page) /\ page \in Nat /\ pg \in Nat
      BY <1>1, <2>4, Givens DEF PutFetched, IInv, Typed
    <3>2. PICK from \in 1 .. pg : \E to \in from .. pg :
            Becomes(Overwritten(Fetch(Stores, pg, Paged, page), page, from, to, v))
      BY <2>4 DEF PutFetched
    <3>3. PICK to \in from .. pg :
            Becomes(Overwritten(Fetch(Stores, pg, Paged, page), page, from, to, v))
      BY <3>2
    <3>4. from \in Nat /\ to \in Nat
      BY <3>1
    <3>5. Image(Stores, pg, Paged, page) \in [1 .. pg -> Int]
      BY <3>1, LoadedData
    <3>6. QED  BY <2>3, <3>1, <3>3, <3>4, <3>5 DEF Fetch
  <2>5. ASSUME NEW page \in 0 .. MaxLength - 1, NEW v \in Values, PutFaked(page, v)
        PROVE  NotShorter(Stores, Stores')
    <3>1. /\ pg # None /\ InBound(page) /\ page \in Nat /\ pg \in Nat /\ 1 \in Nat
          /\ Becomes(Overwritten(Fake(Stores, pg, Paged, page), page, 1, pg, v))
      BY <1>1, <2>5, Givens DEF PutFaked, IInv, Typed
    <3>2. [i \in 1 .. pg |-> Junk] \in [1 .. pg -> Int]
      BY <3>1, LoadedData
    <3>3. QED  BY <2>3, <3>1, <3>2 DEF Fake
  <2>6. CASE Flush
    <3>1. Becomes(Commit(Stores, pg, Paged)) /\ pg \in DOMAIN Stores.pagers
      BY <1>1, <2>6 DEF Flush
    <3>2. QED  BY <1>1, <1>2, <3>1, CommitSound
  <2>7. CASE ClosePaged
    <3>1. Becomes(Detach(Stores, pg, Paged)) /\ pg \in DOMAIN Stores.pagers
      BY <1>1, <2>7 DEF ClosePaged
    <3>2. QED  BY <1>1, <1>2, <3>1, DetachSound
  <2>8. QED  BY <1>3, <2>2, <2>4, <2>5, <2>6, <2>7 DEF PagedStep, SizeStep
<1>4. CASE CachedStep
  <2>1. ASSUME NEW n \in 1 .. MaxLength, Read(n)
        PROVE  NotShorter(Stores, Stores')
    <3>1. /\ Becomes(CacheRead(Stores, cachePg, Cached, curPos, n))
          /\ curPos # None /\ curPos + n <= MaxLength
      BY <2>1 DEF Read
    <3>2. curPos \in Nat /\ n \in Nat \ {0} /\ InReach(MaxLength, cachePg, curPos, n)
      BY <3>1, CacheReach
    <3>3. QED  BY <1>1, <1>2, <3>1, <3>2, CacheReadSound
  <2>2. ASSUME NEW n \in 1 .. MaxLength, NEW v \in Values, Write(n, v)
        PROVE  NotShorter(Stores, Stores')
    <3> DEFINE t == CacheWrite(Stores, cachePg, Cached, curPos, Row(n, v))
    <3>1. Becomes(t) /\ curPos # None /\ curPos + n <= MaxLength
      BY <2>2 DEF Write, Row
    <3>2. /\ curPos \in Nat /\ n \in Nat \ {0} /\ InReach(MaxLength, cachePg, curPos, n)
          /\ Row(n, v) \in [1 .. n -> Int]
      BY <3>1, CacheReach, Givens, RowIs
    <3>3. Sound(t, MaxLength) /\ t.disk = Stores.disk
      BY <1>1, <3>2, CacheWriteSound
    <3> HIDE DEF t
    <3>4. QED  BY <1>2, <3>1, <3>3
  <2>3. CASE CommitCached
    BY <1>1, <1>2, <2>3, CommitSound DEF CommitCached
  <2>4. CASE CloseCached
    BY <1>1, <1>2, <2>4, DetachSound DEF CloseCached
  <2>5. CASE EvictPage
    <3>1. PICK z \in DOMAIN Stores.pagers : \E k \in DOMAIN PagesIn(Stores, z) :
            Becomes(Drop(Dump(Stores, z, {k}), z, {k}))
      BY <2>5, ClientPagers DEF EvictPage, Evict, PagesIn
    <3>2. PICK k \in DOMAIN PagesIn(Stores, z) : Becomes(Drop(Dump(Stores, z, {k}), z, {k}))
      BY <3>1
    <3> DEFINE t == Drop(Dump(Stores, z, {k}), z, {k})
    <3>3. Sound(t, MaxLength) /\ Grown(Stores, t, z, Dirty(Stores, z, {k}))
      BY <1>1, EvictSound
    <3>4. Becomes(t)
      BY <3>2
    <3> HIDE DEF t
    <3>5. QED  BY <1>2, <3>3, <3>4
  <2>6. QED  BY <1>4, <2>1, <2>2, <2>3, <2>4, <2>5 DEF CachedStep, SizeStep
<1>5. CASE IdleStep \/ UNCHANGED vars
  <2>1. Stores' = Stores
    BY <1>5 DEF IdleStep, WrapCached, Seek, vars, Stores
  <2>2. \A f \in Files : Len(Stores.disk[f]) \in Nat
    BY <1>1 DEF Sound
  <2>3. QED  BY <2>1, <2>2 DEF NotShorter
<1>6. CASE MoveStep
  <2>1. PICK size \in PageSizes : WrapPaged(size) \/ SetPageSizePaged(size) \/ SetPageSizeCache(size)
    BY <1>6 DEF MoveStep
  <2>2. CASE WrapPaged(size)
    <3>1. Becomes(GetPager(Stores, size))
      BY <2>2 DEF WrapPaged
    <3>2. Sound(GetPager(Stores, size), MaxLength) /\ GetPager(Stores, size).disk = Stores.disk
      BY <1>1, GetPagerSound DEF OnlyUse, Added
    <3>3. QED  BY <1>2, <3>1, <3>2
  <2>3. CASE SetPageSizePaged(size)
    <3>1. Becomes(SetPageSize(Stores, pg, size)) /\ pg \in DOMAIN Stores.pagers
      BY <1>1, <2>3 DEF SetPageSizePaged
    <3>2. QED  BY <1>1, <1>2, <3>1, SetPageSizeSound DEF SizeSet
  <2>4. CASE SetPageSizeCache(size)
    BY <1>1, <1>2, <2>4, SetPageSizeSound DEF SetPageSizeCache, SizeSet
  <2>5. QED  BY <2>1, <2>2, <2>3, <2>4
<1>7. QED  BY <1>3, <1>4, <1>5, <1>6, NextSteps

\* A step that writes a row of cells of one file writes in the store.
LEMMA StoreWritten ==
  ASSUME IInv, IInv', NEW f \in Files, NEW v \in Values,
         NEW first \in 0 .. MaxLength - 1, NEW last \in 0 .. MaxLength - 1,
         NEW cells, \A c \in Int : c \in cells <=> first <= c - 1 /\ c - 1 <= last,
         StepWrites(Values, f, cells, v)
  PROVE  Store!Written(Contents, Contents')
<1>1. MaxLength \in Nat
  BY Givens
<1>2. ASSUME NEW p \in 0 .. MaxLength - 1
      PROVE  p + 1 \in cells <=> p \in first .. last
  BY <1>1
<1>3. Store!Kept(Contents, Contents', {f} \X (first .. last))
  <2> DEFINE given == {f} \X cells
             gone == {f} \X (first .. last)
  <2>1. \A g \in Files, p \in 0 .. MaxLength - 1 : <<g, p + 1>> \in given => <<g, p>> \in gone
    BY <1>2
  <2>2. StepKeeps(Values, given)
    BY DEF StepWrites
  <2> HIDE DEF given, gone
  <2>3. Store!Kept(Contents, Contents', gone)
    BY <2>1, <2>2, StoreKept
  <2>4. QED  BY <2>3 DEF gone
<1>4. \A p \in first .. last : Contents'[f][p] = v
  <2> SUFFICES ASSUME NEW p \in first .. last
               PROVE  Contents'[f][p] = v
    OBVIOUS
  <2>1. p \in 0 .. MaxLength - 1
    BY <1>1
  <2>2. Contents'[f][p] = View(Stores', Owners', f, p + 1)
    BY <2>1, CellsViewNext DEF Contents, CellsSeen
  <2>3. p + 1 \in cells
    BY <1>2, <2>1
  <2>4. QED  BY <2>2, <2>3 DEF StepWrites, AllHold
<1>5. QED  BY <1>3, <1>4 DEF Store!Written

\* Each write of a client, with the row of cells it is.
LEMMA WriteStore ==
  ASSUME IInv, IInv', Orderly(Values), NEW v \in Values,
         \/ \E page \in 0 .. MaxLength - 1 : PutFetched(page, v) \/ PutFaked(page, v)
         \/ \E n \in 1 .. MaxLength : Write(n, v)
  PROVE  Store!Written(Contents, Contents')
<1>1. MaxLength \in Nat /\ Paged \in Files /\ Cached \in Files
  BY Givens
<1>2. ASSUME pg # None, NEW page \in Nat, InBound(page), NEW from \in 1 .. pg, NEW to \in from .. pg,
             StepWrites(Values, Paged, PutCells(page, from, to), v)
      PROVE  Store!Written(Contents, Contents')
  <2>1. pg \in Nat \ {0}
    BY <1>2, Givens DEF IInv, Typed
  <2>2. PICK base : base = page * pg
    OBVIOUS
  <2>3. base \in Nat /\ base + pg <= MaxLength
    <3>1. base \in Nat /\ (page + 1) * pg = base + pg
      BY <2>1, <2>2
    <3>2. QED  BY <1>2, <3>1 DEF InBound
  <2>4. \E first \in 0 .. MaxLength - 1 : first = base + (from - 1)
    BY <1>1, <2>1, <2>3
  <2>5. \E last \in 0 .. MaxLength - 1 : last = base + (to - 1)
    BY <1>1, <2>1, <2>3
  <2>6. PICK first \in 0 .. MaxLength - 1 : first = base + (from - 1)
    BY <2>4
  <2>7. PICK last \in 0 .. MaxLength - 1 : last = base + (to - 1)
    BY <2>5
  <2>8. PutCells(page, from, to) = base + from .. base + to
    BY <2>2 DEF PutCells
  <2>9. \A c \in Int : c \in base + from .. base + to <=> first <= c - 1 /\ c - 1 <= last
    BY <1>1, <2>1, <2>3, <2>6, <2>7
  <2>10. \A c \in Int : c \in PutCells(page, from, to) <=> first <= c - 1 /\ c - 1 <= last
    BY <2>8, <2>9
  <2> HIDE <2>2, <2>6, <2>7
  <2>11. QED  BY <1>1, <1>2, <2>10, StoreWritten
<1>3. ASSUME NEW page \in 0 .. MaxLength - 1, PutFetched(page, v)
      PROVE  Store!Written(Contents, Contents')
  <2>1. pg # None /\ page \in Nat /\ InBound(page)
    BY <1>1, <1>3 DEF PutFetched
  <2>2. \E from \in 1 .. pg : \E to \in from .. pg : StepWrites(Values, Paged, PutCells(page, from, to), v)
    BY <1>3, PutFetchedWrites
  <2>3. QED  BY <1>2, <2>1, <2>2
<1>4. ASSUME NEW page \in 0 .. MaxLength - 1, PutFaked(page, v)
      PROVE  Store!Written(Contents, Contents')
  <2>1. pg # None /\ page \in Nat /\ InBound(page)
    BY <1>1, <1>4 DEF PutFaked
  <2>2. 1 \in 1 .. pg /\ pg \in 1 .. pg
    BY <2>1, Givens DEF IInv, Typed
  <2>3. StepWrites(Values, Paged, PutCells(page, 1, pg), v)
    BY <1>4, PutFakedWrites
  <2>4. QED  BY <1>2, <2>1, <2>2, <2>3
<1>5. ASSUME NEW n \in 1 .. MaxLength, Write(n, v)
      PROVE  Store!Written(Contents, Contents')
  <2>1. /\ curPos \in Nat /\ curPos + n <= MaxLength
        /\ StepWrites(Values, Cached, RowCells(curPos, n), v)
    BY <1>5, WriteWrites
  <2>2. PICK first \in 0 .. MaxLength - 1 : first = curPos
    BY <1>1, <2>1
  <2>3. PICK last \in 0 .. MaxLength - 1 : last = (curPos + n) - 1
    BY <1>1, <2>1
  <2>4. \A c \in Int : c \in RowCells(curPos, n) <=> first <= c - 1 /\ c - 1 <= last
    BY <1>1, <2>1, <2>2, <2>3 DEF RowCells
  <2>5. QED  BY <1>1, <2>1, <2>4, StoreWritten
<1>6. QED  BY <1>3, <1>4, <1>5

\* A change of size keeps the store, or cuts it.
LEMMA SizeStore ==
  ASSUME IInv, IInv', Orderly(Values), NEW f \in Files, NEW newSize \in 0 .. MaxLength,
         StepKeeps(Values, CutAway(f, newSize)), Len(Stores'.disk[f]) = newSize,
         \A g \in Files \ {f} : Stores'.disk[g] = Stores.disk[g], wrote' = FALSE
  PROVE  Store!Read \/ Store!Cut
<1>1. MaxLength \in Nat /\ \A g \in Files : Len(disk[g]) \in Nat
  BY Givens DEF IInv, Typed, Sound, Stores
<1>2. Stores'.disk = disk' /\ Stores.disk = disk
  BY DEF Stores
<1>3. /\ \A g \in Files : Sizes[g] = Len(disk[g]) /\ Sizes'[g] = Len(disk'[g])
      /\ Sizes'[f] = newSize
      /\ \A g \in Files \ {f} : Sizes'[g] = Sizes[g]
  BY <1>2 DEF Sizes
<1>4. CASE Shorter(Stores, f, newSize)
  <2>1. Sizes'[f] < Sizes[f]
    BY <1>2, <1>3, <1>4 DEF Shorter
  <2> DEFINE given == CutAway(f, newSize)
             gone == {f} \X {p \in 0 .. MaxLength - 1 : p >= Sizes'[f]}
  <2>2. \A g \in Files, p \in 0 .. MaxLength - 1 : <<g, p + 1>> \in given => <<g, p>> \in gone
    BY <1>1, <1>3, <1>4 DEF CutAway, Past
  <2> HIDE DEF given, gone
  <2>3. Store!Kept(Contents, Contents', gone)
    BY <2>2, StoreKept DEF given
  <2>4. Store!Cut
    BY <2>1, <2>3 DEF Store!Cut, Contents, Sizes, gone
  <2>5. QED  BY <2>4
<1>5. CASE ~ Shorter(Stores, f, newSize)
  <2>1. Store!NoneShorter
    <3>1. \A g \in Files : Sizes'[g] >= Sizes[g]
      BY <1>1, <1>2, <1>3, <1>5 DEF Shorter
    <3>2. QED  BY <3>1 DEF Store!NoneShorter, Sizes
  <2>2. StepKeeps(Values, {})
    BY <1>5 DEF CutAway
  <2>3. Store!Kept(Contents, Contents', {})
    BY <2>2, StoreKept
  <2>4. QED  BY <2>1, <2>3 DEF Store!Read, Contents
<1>6. QED  BY <1>4, <1>5

\* What is true of all steps: nothing dirty is lost, and no page that is clean
\* differs from its file.
CInv == IInv /\ Home(Stores, Owners) /\ Clean(Stores, Values)

\* A step that neither writes nor changes a size.
QuietStep ==
  \/ \E page \in 0 .. MaxLength - 1 : FetchPage(page)
  \/ \E n \in 1 .. MaxLength : Read(n)
  \/ Flush \/ CommitCached \/ CloseCached \/ EvictPage \/ IdleStep \/ ClosePaged \/ MoveStep

\* The steps that write.
WriteStep ==
  \E v \in Values :
    \/ \E page \in 0 .. MaxLength - 1 : PutFetched(page, v) \/ PutFaked(page, v)
    \/ \E n \in 1 .. MaxLength : Write(n, v)

\* Steps by what they do to the abstract stores.
LEMMA StepKinds == Next <=> QuietStep \/ WriteStep \/ SizeStep
BY NextSteps DEF PagedStep, CachedStep, QuietStep, WriteStep, SizeStep

\* Whether a step wrote.
LEMMA WroteRight ==
  /\ QuietStep \/ SizeStep => wrote' = FALSE
  /\ WriteStep => wrote' = TRUE
<1>1. QuietStep => wrote' = FALSE
  BY DEF QuietStep, FetchPage, Read, Flush, CommitCached, CloseCached, EvictPage, IdleStep, WrapCached,
         Seek, ClosePaged, MoveStep, WrapPaged, SetPageSizePaged, SetPageSizeCache
<1>2. SizeStep => wrote' = FALSE
  BY DEF SizeStep, ChsizePaged, ChsizeCached
<1>3. WriteStep => wrote' = TRUE
  BY DEF WriteStep, PutFetched, PutFaked, Write
<1>4. QED  BY <1>1, <1>2, <1>3

\* A change of size leaves the other file as it is.
LEMMA SizeKeeps ==
  ASSUME CInv, Liberties \cap {"move", "bypass", "partial"} = {}, SizeStep
  PROVE  \E f \in Files : \E newSize \in 0 .. MaxLength :
           /\ StepKeeps(Values, CutAway(f, newSize)) /\ Len(Stores'.disk[f]) = newSize
           /\ \A g \in Files \ {f} : Stores'.disk[g] = Stores.disk[g]
<1>1. /\ Orderly(Values) /\ MaxLength \in Nat /\ Sound(Stores, MaxLength)
      /\ Paged \in Files /\ Cached \in Files
      /\ (pg # None => pg \in DOMAIN Stores.pagers)
  BY Givens, ClientPagers DEF CInv, Orderly, IInv, Typed
<1>2. ASSUME NEW newSize \in 0 .. MaxLength, ChsizePaged(newSize)
      PROVE  /\ StepKeeps(Values, CutAway(Paged, newSize)) /\ Len(Stores'.disk[Paged]) = newSize
             /\ \A g \in Files \ {Paged} : Stores'.disk[g] = Stores.disk[g]
  <2>1. StepKeeps(Values, CutAway(Paged, newSize)) /\ Len(Stores'.disk[Paged]) = newSize
    BY <1>1, <1>2, ChsizePagedKeeps
  <2> DEFINE t == Chsize(Stores, pg, Paged, newSize)
  <2>2. Becomes(t) /\ pg \in DOMAIN Stores.pagers /\ newSize \in Nat
    BY <1>1, <1>2 DEF ChsizePaged
  <2>3. Sound(t, MaxLength) /\ \A g \in Files \ {Paged} : t.disk[g] = Stores.disk[g]
    BY <1>1, <2>2, ChsizeSound
  <2> HIDE DEF t
  <2>4. QED  BY <2>1, <2>2, <2>3, BecomesIs
<1>3. ASSUME NEW newSize \in 0 .. MaxLength, ChsizeCached(newSize)
      PROVE  /\ StepKeeps(Values, CutAway(Cached, newSize)) /\ Len(Stores'.disk[Cached]) = newSize
             /\ \A g \in Files \ {Cached} : Stores'.disk[g] = Stores.disk[g]
  <2>1. StepKeeps(Values, CutAway(Cached, newSize)) /\ Len(Stores'.disk[Cached]) = newSize
    BY <1>1, <1>3, ChsizeCachedKeeps
  <2> DEFINE t == Resize(Stores, Cached, newSize)
  <2>2. Becomes(t) /\ newSize \in Nat
    BY <1>1, <1>3 DEF ChsizeCached
  <2>3. Sound(t, MaxLength) /\ \A g \in Files \ {Cached} : t.disk[g] = Stores.disk[g]
    BY <1>1, <2>2, ResizeSound
  <2> HIDE DEF t
  <2>4. QED  BY <2>1, <2>2, <2>3, BecomesIs
<1>4. QED  BY <1>1, <1>2, <1>3 DEF SizeStep

\* Every step keeps what is written but for what it writes or cuts.
LEMMA StepContents ==
  ASSUME CInv, Liberties \cap {"move", "bypass", "partial"} = {}, [Next]_vars
  PROVE  /\ CInv'
         /\ (QuietStep => StepKeeps(Values, {}))
<1>1. Orderly(Values) /\ "move" \notin Liberties
  BY Givens DEF CInv, Orderly
<1>2. IInv'
  BY StepTyped DEF CInv
<1>3. QuietStep => StepKeeps(Values, {})
  BY <1>1, QuietKeeps, CloseKeeps, MoveKeeps DEF QuietStep
<1>4. WriteStep => \E given : StepKeeps(Values, given)
  <2>1. ASSUME NEW v \in Values, NEW page \in 0 .. MaxLength - 1, PutFetched(page, v)
        PROVE  \E given : StepKeeps(Values, given)
    BY <1>1, <2>1, PutFetchedWrites DEF StepWrites
  <2>2. ASSUME NEW v \in Values, NEW page \in 0 .. MaxLength - 1, PutFaked(page, v)
        PROVE  \E given : StepKeeps(Values, given)
    BY <1>1, <2>2, PutFakedWrites DEF StepWrites
  <2>3. ASSUME NEW v \in Values, NEW n \in 1 .. MaxLength, Write(n, v)
        PROVE  \E given : StepKeeps(Values, given)
    BY <1>1, <2>3, WriteWrites DEF StepWrites
  <2>4. QED  BY <2>1, <2>2, <2>3 DEF WriteStep
<1>5. SizeStep => \E given : StepKeeps(Values, given)
  BY SizeKeeps
<1>6. UNCHANGED vars => StepKeeps(Values, {})
  BY <1>1, QuietKeeps
<1>7. Home(Stores', Owners') /\ Clean(Stores', Values)
  BY <1>3, <1>4, <1>5, <1>6, StepKinds DEF StepKeeps
<1>8. QED  BY <1>2, <1>3, <1>7 DEF CInv

\* Through changes of page size, evictions, commits and closes the paged file
\* and the cached file hold what was written last, as long as clients take
\* their pages along when they change the page size, cut files at pages, and
\* leave the size of a file alone while a cache has pages of it: then the
\* pagers and their clients do what a store of pages promises.
THEOREM ImplementsStore ==
  ASSUME Liberties \cap {"move", "bypass", "partial"} = {}
  PROVE  Spec => Implements
<1>1. Init => CInv
  BY InitTyped, InitHome DEF CInv
<1>2. CInv /\ [Next]_vars => CInv'
  BY StepContents
<1>3. Init => Store!StoreInit
  <2> SUFFICES ASSUME Init PROVE Store!StoreInit
    OBVIOUS
  <2>1. /\ disk = [f \in Files |-> <<>>] /\ pg = None /\ wrote = FALSE
        /\ pagers = [z \in {cachePg} |-> [use |-> 1, pages |-> <<>>]]
    BY DEF Init, NewPager
  <2>2. DOMAIN PagesIn(Stores, cachePg) = {}
    BY <2>1 DEF Stores, PagesIn
  <2>3. MaxLength \in Nat /\ Stores.disk = disk
    BY Givens DEF Stores
  <2>4. ASSUME NEW f \in Files
        PROVE  Cells(f) = [p \in 0 .. MaxLength - 1 |-> Junk] /\ Len(disk[f]) = 0
    <3>1. Len(disk[f]) = 0
      BY <2>1
    <3>2. CASE f = Cached
      <4>1. \A p \in 0 .. MaxLength - 1 : Seen(Stores, cachePg, f, p + 1) = Junk
        BY <2>2, <2>3, <3>1 DEF Seen
      <4>2. QED  BY <3>1, <3>2, <4>1 DEF Cells
    <3>3. CASE f # Cached
      <4>1. Cells(f) = [p \in 0 .. MaxLength - 1 |-> IF p < Len(disk[f]) THEN disk[f][p + 1] ELSE Junk]
        BY <2>1, <3>3 DEF Cells
      <4>2. \A p \in 0 .. MaxLength - 1 : ~ (p < Len(disk[f]))
        BY <2>3, <3>1
      <4>3. QED  BY <3>1, <4>1, <4>2
    <3>4. QED  BY <3>2, <3>3
  <2>5. QED  BY <2>1, <2>4 DEF Store!StoreInit
<1>4. CInv /\ CInv' /\ [Next]_vars => [Store!Read \/ Store!Write \/ Store!Cut]_Store!vars
  <2> SUFFICES ASSUME CInv, CInv', [Next]_vars
               PROVE  Store!Read \/ Store!Write \/ Store!Cut \/ UNCHANGED Store!vars
    OBVIOUS
  <2>1. IInv /\ IInv' /\ Orderly(Values)
    BY Givens DEF CInv, Orderly
  <2>2. ASSUME ~ SizeStep
        PROVE  Store!NoneShorter
    <3>1. \A f \in Files : Len(disk'[f]) >= Len(disk[f])
      BY <2>1, <2>2, StepNotShorter DEF NotShorter, Stores
    <3>2. QED  BY <3>1 DEF Store!NoneShorter
  <2>3. CASE SizeStep
    BY <2>1, <2>3, SizeKeeps, SizeStore, WroteRight
  <2>4. CASE QuietStep /\ ~ SizeStep
    <3>1. StepKeeps(Values, {})
      BY <2>4, StepContents
    <3>2. Store!Kept(Contents, Contents', {})
      BY <2>1, <3>1, StoreKept
    <3>3. Store!Read
      BY <2>2, <2>4, <3>2, WroteRight DEF Store!Read, Contents
    <3>4. QED  BY <3>3
  <2>5. CASE WriteStep /\ ~ SizeStep
    <3>1. Store!Written(Contents, Contents')
      BY <2>1, <2>5, WriteStore DEF WriteStep
    <3>2. Store!Write
      BY <2>2, <2>5, <3>1, WroteRight DEF Store!Write, Contents
    <3>3. QED  BY <3>2
  <2>6. CASE UNCHANGED vars
    BY <2>6 DEF vars, Store!vars, Cells, Stores
  <2>7. QED  BY <2>3, <2>4, <2>5, <2>6, StepKinds
<1>5. QED  BY <1>1, <1>2, <1>3, <1>4, PTL DEF Spec, Implements, Store!StoreSpec
=============================================================================
