---------------------------- MODULE FencedLease ----------------------------
(***************************************************************************)
(* What a fenced lease on one resource promises, whatever the backend is.  *)
(*                                                                         *)
(* A fence is the number of the latest grant.  It is live from its grant   *)
(* until it is retired, lapses or is replaced by the next grant, and it is *)
(* never live again after that: fences only grow, so a holder of an older  *)
(* fence can never write again.                                            *)
(***************************************************************************)
EXTENDS Naturals

VARIABLES
    fence,    \* the number of the latest grant, 0 before the first
    live,     \* whether that grant still holds the resource
    version,  \* writes accepted under that grant
    closed    \* the service has been torn down

vars == <<fence, live, version, closed>>

Init == fence = 0 /\ live = FALSE /\ version = 0 /\ closed = FALSE

(* A new grant takes the next number, whether or not the old one is live:  *)
(* a takeover may displace a live holder, who then holds an old fence.     *)
Grant ==
    /\ ~closed
    /\ fence' = fence + 1
    /\ live' = TRUE
    /\ version' = 0
    /\ UNCHANGED closed

(* The holder gives the lease up, or its term passes.                      *)
Retire ==
    /\ ~closed /\ live
    /\ live' = FALSE
    /\ UNCHANGED <<fence, version, closed>>

(* A write is accepted under the live fence only.                          *)
Put ==
    /\ ~closed /\ live
    /\ version' = version + 1
    /\ UNCHANGED <<fence, live, closed>>

(* Nothing is promised of a service that was torn down.                    *)
Close ==
    /\ ~closed
    /\ closed' = TRUE
    /\ fence' = 0 /\ live' = FALSE /\ version' = 0

Next == Grant \/ Retire \/ Put \/ Close

Spec == Init /\ [][Next]_vars
=============================================================================
