---------------------------- MODULE FilePointers ----------------------------
(***************************************************************************)
(* What the file handle manager promises (src/edbFileHandleMgr.h): every   *)
(* managed file has a file pointer, "positioned at the place last          *)
(* operation leaved it", however many handles the manager closes and       *)
(* reopens behind its clients' backs.                                      *)
(***************************************************************************)
CONSTANTS Fid, NoFid, Positions, Start

VARIABLES
  ptr,     \* managed file -> its pointer
  last     \* the file a client may now read, write or seek, if any

vars == <<ptr, last>>

PointersInit == ptr = [f \in {} |-> Start] /\ last = NoFid

\* A client asks for a file: no pointer moves.
Hand == last' \in Fid \cup {NoFid} /\ UNCHANGED ptr

Manage(f) == /\ f \notin DOMAIN ptr
             /\ ptr' = [g \in DOMAIN ptr \cup {f} |-> IF g = f THEN Start ELSE ptr[g]]
             /\ UNCHANGED last

Release(f) == /\ f \in DOMAIN ptr
              /\ ptr' = [g \in DOMAIN ptr \ {f} |-> ptr[g]]
              /\ last' \in Fid \cup {NoFid}

\* Only the file handed out last is read, written or sought.
Seek(f, pos) == /\ f \in DOMAIN ptr /\ f = last
                /\ ptr' = [ptr EXCEPT ![f] = pos]
                /\ UNCHANGED last

PointersNext == \/ Hand
                \/ \E f \in Fid : \/ Manage(f)
                                  \/ Release(f)
                                  \/ \E pos \in Positions : Seek(f, pos)

PointersSpec == PointersInit /\ [][PointersNext]_vars

=============================================================================
