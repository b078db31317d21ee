--------------------------- MODULE FileHandleMgr ---------------------------
(***************************************************************************)
(* The manager of OS file handles (src/edbFileHandleMgr_imp.cpp).  Files   *)
(* are managed under a number, Fid, and at most poolSize of them have an   *)
(* OS handle.  handle(fid) returns the handle of a file, reopening it if   *)
(* need be: the least recently used handle is then closed, and the place   *)
(* of its file pointer remembered until the file is reopened.              *)
(*                                                                         *)
(* files_ is a vector that only grows and whose slots are reused: a slot   *)
(* beyond its size and a slot marked free_ are both "free" here.  The drop *)
(* counter, a statistic, is left out, and so is commit(), which changes no *)
(* state of the manager.                                                   *)
(***************************************************************************)
EXTENDS Integers, Sequences

CONSTANTS
  MaxFid,        \* bound: the last slot of files_
  Names,         \* names of files
  Positions,     \* places a file pointer may be at
  PoolSizes,     \* sizes a client passes to setPoolSize
  DefaultSize    \* DEFAULT_HANDLE_POOL_SIZE

ASSUME ManagerAssumption ==
  /\ MaxFid \in Nat
  /\ 0 \in Positions
  /\ PoolSizes \subseteq Int
  /\ DefaultSize \in Nat \ {0}

Fid   == 0 .. MaxFid
NoFid == -1

FileInfo == [name : Names, open : BOOLEAN, position : Positions, free : BOOLEAN]

VARIABLES
  files,       \* files_: a FileInfo per slot; open is handle_ # -1
  name2fid,    \* name2fid_: a function on some of the names
  mru,         \* mru_: the slots with a handle, most recently used first
  poolSize,    \* poolSize_
  ospos,       \* the OS file pointer of the handle of each slot, 0 without one
  exists       \* the names under which a file exists

vars == <<files, name2fid, mru, poolSize, ospos, exists>>

Managed == {f \in Fid : ~files[f].free}    \* isValid

FindFid(name) == IF name \in DOMAIN name2fid THEN name2fid[name] ELSE NoFid

-----------------------------------------------------------------------------
(* The interface.  An operation that returns -1 or throws before it has    *)
(* changed anything is no step.                                            *)

\* add: the first free slot.
AddFile(name) ==
  \E f \in Fid :
    /\ files[f].free
    /\ \A g \in 0 .. f - 1 : ~files[g].free
    /\ files' = [files EXCEPT ![f] = [name |-> name, open |-> FALSE,
                                      position |-> 0, free |-> FALSE]]
    /\ UNCHANGED <<name2fid, mru, poolSize, ospos>>

Open(name) ==
  /\ FindFid(name) = NoFid
  /\ name \in exists
  /\ AddFile(name)
  /\ UNCHANGED exists

Create(name) ==
  /\ FindFid(name) = NoFid
  /\ name \notin exists
  /\ AddFile(name)
  /\ exists' = exists \cup {name}

\* list::erase: the list without its p-th element.
Erase(s, p) == SubSeq(s, 1, p - 1) \o SubSeq(s, p + 1, Len(s))

\* mrupos_: the place of the slot in the list.
MruPos(f) == CHOOSE i \in 1 .. Len(mru) : mru[i] = f

\* (mutant) the slot stays in the list.
CloseStaleMru(f) ==
  /\ f \in Managed
  /\ files' = [files EXCEPT ![f].open = FALSE, ![f].free = TRUE]
  /\ name2fid' = [n \in DOMAIN name2fid \ {files[f].name} |-> name2fid[n]]
  /\ ospos' = [ospos EXCEPT ![f] = 0]
  /\ UNCHANGED <<mru, poolSize, exists>>

Close(f) ==
  /\ f \in Managed
  /\ files' = [files EXCEPT ![f].open = FALSE, ![f].free = TRUE]
  /\ mru' = IF files[f].open THEN Erase(mru, MruPos(f)) ELSE mru
  /\ name2fid' = [n \in DOMAIN name2fid \ {files[f].name} |-> name2fid[n]]
  /\ ospos' = [ospos EXCEPT ![f] = 0]
  /\ UNCHANGED <<poolSize, exists>>

\* handle() on a file that has one.
HandleHit(f) ==
  /\ f \in Managed /\ files[f].open
  /\ mru' = <<f>> \o Erase(mru, MruPos(f))
  /\ UNCHANGED <<files, name2fid, poolSize, ospos, exists>>

\* The handles and the files once there is room for one more handle.
PoolFullLate == Len(mru) > poolSize    \* (mutant) off by one

PoolFull == Len(mru) = poolSize
Lru      == mru[Len(mru)]

KeptMru   == IF PoolFull THEN SubSeq(mru, 1, Len(mru) - 1) ELSE mru
\* (mutant) the place of the file pointer is not remembered.
KeptFilesUnsaved == IF PoolFull THEN [files EXCEPT ![Lru].open = FALSE] ELSE files

KeptFiles == IF PoolFull
             THEN [files EXCEPT ![Lru].position = ospos[Lru], ![Lru].open = FALSE]
             ELSE files
KeptPos   == IF PoolFull THEN [ospos EXCEPT ![Lru] = 0] ELSE ospos

\* handle() on a file that has none: it is reopened at the place remembered.
HandleMiss(f) ==
  /\ f \in Managed /\ ~files[f].open
  /\ files[f].name \in exists
  /\ files' = [KeptFiles EXCEPT ![f].open = TRUE]
  /\ ospos' = [KeptPos EXCEPT ![f] = files[f].position]
  /\ mru' = <<f>> \o KeptMru
  /\ UNCHANGED <<name2fid, poolSize, exists>>

\* The file cannot be reopened: handle() throws after the drop.
HandleFails(f) ==
  /\ f \in Managed /\ ~files[f].open
  /\ files[f].name \notin exists
  /\ files' = KeptFiles
  /\ ospos' = KeptPos
  /\ mru' = KeptMru
  /\ UNCHANGED <<name2fid, poolSize, exists>>

SetPoolSizeUnchecked(n) ==    \* (mutant)
  /\ poolSize' = n
  /\ UNCHANGED <<files, name2fid, mru, ospos, exists>>

\* setPoolSize refuses a size below one.
SetPoolSize(n) ==
  /\ n >= 1
  /\ poolSize' = n
  /\ UNCHANGED <<files, name2fid, mru, ospos, exists>>

-----------------------------------------------------------------------------
(* What happens outside of the manager: a client reads, writes or seeks    *)
(* with the handle it was given last, and files are removed.               *)

Move(f, pos) ==
  /\ mru # << >> /\ f = mru[1]
  /\ ospos' = [ospos EXCEPT ![f] = pos]
  /\ UNCHANGED <<files, name2fid, mru, poolSize, exists>>

Remove(name) ==
  /\ exists' = exists \ {name}
  /\ UNCHANGED <<files, name2fid, mru, poolSize, ospos>>

-----------------------------------------------------------------------------
Init ==
  /\ files \in [Fid -> {[name |-> n, open |-> FALSE, position |-> 0, free |-> TRUE] : n \in Names}]
  /\ \A f, g \in Fid : files[f] = files[g]
  /\ name2fid = << >>
  /\ mru = << >>
  /\ poolSize = DefaultSize
  /\ ospos = [f \in Fid |-> 0]
  /\ exists \in SUBSET Names

Next ==
  \/ \E name \in Names : Open(name) \/ Create(name) \/ Remove(name)
  \/ \E f \in Fid : Close(f) \/ HandleHit(f) \/ HandleMiss(f) \/ HandleFails(f)
  \/ \E f \in Fid, pos \in Positions : Move(f, pos)
  \/ \E n \in PoolSizes : SetPoolSize(n)

Spec == Init /\ [][Next]_vars

\* Clients that never make the pool smaller than the number of open handles.
NoShrink == poolSize' # poolSize => Len(mru) <= poolSize'

CarefulSpec == Init /\ [][Next /\ NoShrink]_vars

-----------------------------------------------------------------------------
(* Properties.                                                             *)

\* The state is of its type; in particular the pool never has size zero, with
\* which handle() would take the last of an empty list.
TypeOK ==
  /\ files \in [Fid -> FileInfo]
  /\ name2fid \in [DOMAIN name2fid -> Fid] /\ DOMAIN name2fid \subseteq Names
  /\ mru \in Seq(Fid)
  /\ poolSize \in Nat \ {0}
  /\ ospos \in [Fid -> Positions]
  /\ exists \subseteq Names

\* The list holds each slot with a handle exactly once and no other slot: no
\* handle leaks when its file is closed, and none is closed twice.
MruIsOpen ==
  /\ \A i, j \in 1 .. Len(mru) : mru[i] = mru[j] => i = j
  /\ \A f \in Fid : files[f].open <=> \E i \in 1 .. Len(mru) : mru[i] = f
  /\ \A f \in Fid : files[f].open => ~files[f].free

\* No step but one that shrinks the pool takes the number of open handles
\* beyond its size: handle() drops one before it opens one, when it must.
PoolBound == Len(mru) <= poolSize
PoolKept  == [][PoolBound /\ NoShrink => PoolBound']_vars

\* The place at which the next operation on a file happens.
Pointer(f)   == IF files[f].open THEN ospos[f] ELSE files[f].position
PointerMap   == [f \in Managed |-> Pointer(f)]

\* The manager implements a pointer per managed file: no drop, reopening or
\* reuse of a slot is seen in the place at which a file is read or written.
Last == IF mru = << >> THEN NoFid ELSE mru[1]

Pointers == INSTANCE FilePointers WITH Start <- 0, ptr <- PointerMap, last <- Last

ImplementsFilePointers == Pointers!PointersSpec

\* open() and create() refuse a file that is managed already ("if allready
\* open: ... throw FileAllreadyOpen"), so no file has two pointers.
ManagedOnce == \A f, g \in Managed : files[f].name = files[g].name => f = g

\* handle() never takes more handles than "handle pool size get and set" allows.
NeverBeyondPool == [][Len(mru') > Len(mru) => Len(mru') <= poolSize]_vars
=============================================================================
