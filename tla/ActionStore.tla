----------------------------- MODULE ActionStore -----------------------------
(***************************************************************************)
(* The rows behind one external action: the external_actions row and the   *)
(* external_action_events rows that audit it.  Every operator that changes *)
(* the row is one conditional UPDATE of SupabaseExternalActionRepository,  *)
(* so one atomic step: it applies only while the stored status is one of   *)
(* the expected statuses, and the caller learns whether it applied.        *)
(*                                                                         *)
(* A row is found by its id or by its unique idempotency key and no        *)
(* statement touches two rows, so rows evolve independently: the modules   *)
(* follow one row, the one of one idempotency key.                         *)
(***************************************************************************)
EXTENDS Naturals

CONSTANTS
    Types,      \* the allowlisted action types requests ask for
    EmailType,  \* send_approved_email, the type whose draft is audited
    NoType      \* the type of a row that does not exist yet

ASSUME TypesAssumption == NoType \notin Types
ASSUME EmailAssumption == EmailType # NoType

VARIABLES
    row,      \* the external_actions row
    audit,    \* the external_action_events rows, each with its round
    round,    \* history: approvals granted so far (first approval and retries)
    started   \* history: the rounds mark_executing has claimed

storeVars == <<row, audit, round, started>>

Statuses == {"pending", "approved", "executing", "completed", "failed", "rejected"}
StoredStatuses == Statuses \union {"absent"}

EventTypes == {"action_requested", "email_draft_created", "approval_granted",
               "action_rejected", "execution_started", "callback_received",
               "execution_completed", "execution_failed"}

\* The columns the properties tell apart: timestamps count as set or null, the
\* external reference and the error by who wrote them.
Row == [status : StoredStatuses,
        type : Types \union {NoType},
        approvedAt : {"null", "set"},
        executedAt : {"null", "set"},
        reference : {"null", "dispatch", "callback"},
        error : {"null", "dispatch", "callback"}]

Event == [type : EventTypes, round : Nat]

AbsentRow == [status |-> "absent", type |-> NoType, approvedAt |-> "null",
              executedAt |-> "null", reference |-> "null", error |-> "null"]

StoreInit ==
    /\ row = AbsentRow
    /\ audit = {}
    /\ round = 0
    /\ started = {}

-----------------------------------------------------------------------------
(* create_or_get: the upsert that ignores a duplicate idempotency key.      *)

CreateRow(t) ==
    /\ row.status = "absent"
    /\ row' = [AbsentRow EXCEPT !.status = "pending", !.type = t]
    /\ UNCHANGED <<round, started>>

(* The conditional updates.                                                 *)

MarkApproved ==
    /\ row.status = "pending"
    /\ row' = [row EXCEPT !.status = "approved", !.approvedAt = "set",
                          !.executedAt = "null", !.error = "null"]
    /\ round' = round + 1
    /\ UNCHANGED started

\* Faulty variant, for the mutation checks of the properties.
RetryKeepsExecutedAt ==
    /\ row.status = "failed"
    /\ row' = [row EXCEPT !.status = "approved", !.error = "null"]
    /\ round' = round + 1
    /\ UNCHANGED started

MarkRetryApproved ==
    /\ row.status = "failed"
    /\ row' = [row EXCEPT !.status = "approved", !.executedAt = "null",
                          !.error = "null"]
    /\ round' = round + 1
    /\ UNCHANGED started

\* Faulty variant.
RejectUnconditionally ==
    /\ row' = [row EXCEPT !.status = "rejected"]
    /\ UNCHANGED <<round, started>>

\* Faulty variant.
RejectApprovedToo ==
    /\ row.status \in {"pending", "approved"}
    /\ row' = [row EXCEPT !.status = "rejected"]
    /\ UNCHANGED <<round, started>>

MarkRejected ==
    /\ row.status = "pending"
    /\ row' = [row EXCEPT !.status = "rejected"]
    /\ UNCHANGED <<round, started>>

\* Faulty variant.
ClaimUnconditionally ==
    /\ row' = [row EXCEPT !.status = "executing", !.executedAt = "set", !.error = "null"]
    /\ started' = started \union {round}
    /\ UNCHANGED round

MarkExecuting ==
    /\ row.status = "approved"
    /\ row' = [row EXCEPT !.status = "executing", !.executedAt = "set",
                          !.error = "null"]
    /\ started' = started \union {round}
    /\ UNCHANGED round

\* Faulty variant.
ReferenceUnconditionally ==
    /\ row' = [row EXCEPT !.reference = "dispatch"]
    /\ UNCHANGED <<round, started>>

SetExternalReference ==
    /\ row.status = "executing"
    /\ row' = [row EXCEPT !.reference = "dispatch"]
    /\ UNCHANGED <<round, started>>

\* The callback may carry a reference; without one the column keeps its value.
MarkCompleted ==
    /\ row.status = "executing"
    /\ \E reference \in {row.reference, "callback"} :
        row' = [row EXCEPT !.status = "completed", !.error = "null",
                           !.reference = reference]
    /\ UNCHANGED <<round, started>>

MarkFailed(source) ==
    /\ row.status \in {"approved", "executing"}
    /\ row' = [row EXCEPT !.status = "failed", !.executedAt = "set",
                          !.error = source]
    /\ UNCHANGED <<round, started>>

(* create_event appends to the audit trail.  The round an event belongs to  *)
(* is history: the table identifies it only by its timestamp.               *)

CreateEvent(e, n) == audit' = audit \union {[type |-> e, round |-> n]}

Logged(e, n) == [type |-> e, round |-> n] \in audit
=============================================================================
