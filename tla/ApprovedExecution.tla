-------------------------- MODULE ApprovedExecution --------------------------
(***************************************************************************)
(* What the approval gate promises of one external action, without         *)
(* handlers, audit or n8n: an action is requested once, decided by an      *)
(* operator, and dispatched at most once for each approval; rejection and  *)
(* completion are final; a failed action needs a new approval.             *)
(***************************************************************************)
EXTENDS Naturals

VARIABLES
    phase,      \* the lifecycle status
    approvals,  \* approvals granted so far
    dispatched  \* the approvals that were used for a dispatch

aeVars == <<phase, approvals, dispatched>>

Init == phase = "absent" /\ approvals = 0 /\ dispatched = {}

Move(from, to) == phase \in from /\ phase' = to

Request == Move({"absent"}, "pending") /\ UNCHANGED <<approvals, dispatched>>

Grant ==
    /\ Move({"pending", "failed"}, "approved")
    /\ approvals' = approvals + 1
    /\ UNCHANGED dispatched

Refuse == Move({"pending"}, "rejected") /\ UNCHANGED <<approvals, dispatched>>

\* The approval a dispatch uses was not used before.
Start ==
    /\ Move({"approved"}, "executing")
    /\ approvals \notin dispatched
    /\ dispatched' = dispatched \union {approvals}
    /\ UNCHANGED approvals

Complete == Move({"executing"}, "completed") /\ UNCHANGED <<approvals, dispatched>>

Fail == Move({"approved", "executing"}, "failed") /\ UNCHANGED <<approvals, dispatched>>

Next == Request \/ Grant \/ Refuse \/ Start \/ Complete \/ Fail

Spec == Init /\ [][Next]_aeVars
=============================================================================
