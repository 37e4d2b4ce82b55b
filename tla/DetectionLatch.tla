--------------------------- MODULE DetectionLatch ---------------------------
(***************************************************************************)
(* What shared/include/ipc_communication.h promises of the cached          *)
(* detection: the application "can get the last recorded/cached detection" *)
(* and getting it clears it.  One place, filled by a newer detection and   *)
(* emptied by the call; both happen in one step.                           *)
(***************************************************************************)
EXTENDS Naturals

CONSTANT MaxVerdicts    \* bound: detections are numbered up to this

VARIABLES
    pending,   \* the detection not yet handed out; 0: none
    newest     \* the newest detection ever recorded; 0: none

Init == pending = 0 /\ newest = 0

(* A newer detection replaces one that was not fetched in time.            *)
Record ==
    \E d \in 1 .. MaxVerdicts :
        /\ d > newest
        /\ pending' = d
        /\ newest' = d

GetAndClear ==
    /\ pending # 0
    /\ pending' = 0
    /\ UNCHANGED newest

Next == Record \/ GetAndClear

Spec == Init /\ [][Next]_<<pending, newest>>
=============================================================================
