--------------------------- MODULE ExternalActions ---------------------------
(***************************************************************************)
(* One external action from its request to its settlement: the request     *)
(* handlers of ExternalActionService (request_action, approve, reject,     *)
(* process_callback), the two-attempt dispatch of N8nActionService, and the*)
(* n8n workflow that performs the effect and calls back.                   *)
(*                                                                         *)
(* Handlers run concurrently, each a record with a control state.  Every   *)
(* database call, audit insert and HTTP exchange is a step of its own, so  *)
(* anything another handler does may come between two of them.  Abort      *)
(* ends a handler between two steps: a crash, a failed database call, or a *)
(* call that was applied and whose response was lost.                      *)
(***************************************************************************)
EXTENDS ActionStore

CONSTANTS
    Requesters,        \* concurrent request_action calls
    Approvers,         \* concurrent approve calls, each dispatches on its own
    Rejecters,         \* concurrent reject calls
    Callbacks,         \* concurrent process_callback calls
    CallbackStatuses,  \* the statuses n8n reports
    EarlyAck,          \* may n8n answer the webhook before it calls back?
    MaxRounds,         \* bound: approvals of the action, retries included
    MaxDeliveries,     \* bound: deliveries of callbacks, duplicates included
    MaxFaults          \* bound: handlers that end between two steps

ASSUME BoundsAssumption ==
    /\ MaxRounds \in Nat
    /\ MaxDeliveries \in Nat
    /\ MaxFaults \in Nat

ASSUME WorkflowAssumption ==
    /\ CallbackStatuses \subseteq {"completed", "failed"}
    /\ EarlyAck \in BOOLEAN

VARIABLES
    requester,   \* request_action handlers
    approver,    \* approve handlers
    rejecter,    \* reject handlers
    callback,    \* process_callback handlers
    workflow,    \* n8n executions, one per webhook POST
    effected,    \* history: has the provider been called for the action?
    deliveries,  \* callbacks delivered so far
    faults       \* handlers aborted so far

handlerVars == <<requester, approver, rejecter, callback>>
worldVars == <<workflow, effected, deliveries, faults>>
vars == <<storeVars, handlerVars, worldVars>>

\* A POST is identified by the round it was sent for and by which of the
\* dispatcher's two attempts it was.
Posts == (1 .. MaxRounds) \X {1, 2}

Requester == [pc : {"idle", "log_requested", "log_draft"}, type : Types \union {NoType}]

\* round: the approval the handler granted, claimed or failed.
Approver == [pc : {"idle", "approve", "reapprove", "log_granted", "execute",
                   "log_started", "post", "wait", "reference", "fail",
                   "log_failed"},
             round : Nat,
             attempt : {0, 1, 2}]

\* post: the POST whose workflow sent this callback; status: what it reports;
\* seen: the row's status as read at the start, on which the handler acts later.
Callback == [pc : {"idle", "log_received", "settle", "reread", "log_settled"},
             post : Posts \union {<<0, 0>>},
             status : {"none", "completed", "failed"},
             seen : StoredStatuses,
             round : Nat]

\* work: how far the workflow has got; answer: the 2xx or 4xx response its POST
\* is waiting for, if it came (a 5xx, which the dispatcher treats like silence,
\* is none); sent: the status its signed callback carries, once it was sent.
Workflow == [work : {"none", "posted", "calling", "over"},
             answer : {"none", "ok", "refused"},
             sent : {"none", "completed", "failed"}]

IdleRequester == [pc |-> "idle", type |-> NoType]
IdleApprover == [pc |-> "idle", round |-> 0, attempt |-> 0]
IdleCallback == [pc |-> "idle", post |-> <<0, 0>>, status |-> "none",
                 seen |-> "absent", round |-> 0]

Init ==
    /\ StoreInit
    /\ requester = [r \in Requesters |-> IdleRequester]
    /\ approver = [d \in Approvers |-> IdleApprover]
    /\ rejecter = [j \in Rejecters |-> "idle"]
    /\ callback = [c \in Callbacks |-> IdleCallback]
    /\ workflow = [p \in Posts |-> [work |-> "none", answer |-> "none", sent |-> "none"]]
    /\ effected = FALSE
    /\ deliveries = 0
    /\ faults = 0

-----------------------------------------------------------------------------
(* request_action                                                           *)

\* The upsert under the action's idempotency key.  When the row exists already
\* the call answers with it, or with a conflict when it is of another type, and
\* leaves no trace.
RequestCreate(r, t) ==
    /\ requester[r].pc = "idle"
    /\ CreateRow(t)
    /\ requester' = [requester EXCEPT ![r] = [pc |-> "log_requested", type |-> t]]
    /\ UNCHANGED <<audit, approver, rejecter, callback, worldVars>>

RequestLog(r) ==
    /\ requester[r].pc = "log_requested"
    /\ CreateEvent("action_requested", 0)
    /\ requester' = [requester EXCEPT ![r] =
                        IF @.type = EmailType THEN [@ EXCEPT !.pc = "log_draft"]
                                              ELSE IdleRequester]
    /\ UNCHANGED <<row, round, started, approver, rejecter, callback, worldVars>>

RequestLogDraft(r) ==
    /\ requester[r].pc = "log_draft"
    /\ CreateEvent("email_draft_created", 0)
    /\ requester' = [requester EXCEPT ![r] = IdleRequester]
    /\ UNCHANGED <<row, round, started, approver, rejecter, callback, worldVars>>

-----------------------------------------------------------------------------
(* approve and _dispatch                                                    *)

ToApprover(d, pc, n, k) ==
    approver' = [approver EXCEPT ![d] = [pc |-> pc, round |-> n, attempt |-> k]]

EndApprover(d) == approver' = [approver EXCEPT ![d] = IdleApprover]

\* approve reads the row and decides on what it read; for an executing,
\* completed or rejected action it ends here and leaves no trace.
ApproveRead(d) ==
    /\ approver[d].pc = "idle"
    /\ \/ row.status = "pending" /\ ToApprover(d, "approve", 0, 0)
       \/ row.status = "failed" /\ ToApprover(d, "reapprove", 0, 0)
       \/ row.status = "approved" /\ ToApprover(d, "execute", 0, 0)
    /\ UNCHANGED <<storeVars, requester, rejecter, callback, worldVars>>

\* MaxRounds bounds how often operators approve.
ApproveGrant(d) ==
    /\ round < MaxRounds
    /\ \/ approver[d].pc = "approve" /\ MarkApproved
       \/ approver[d].pc = "reapprove" /\ MarkRetryApproved
    /\ ToApprover(d, "log_granted", round', 0)
    /\ UNCHANGED <<audit, requester, rejecter, callback, worldVars>>

\* The conditional update matched no row: approve reads again and answers with
\* the executing or completed action, or with a conflict.
ApproveLostRace(d) ==
    /\ \/ approver[d].pc = "approve" /\ row.status # "pending"
       \/ approver[d].pc = "reapprove" /\ row.status # "failed"
    /\ EndApprover(d)
    /\ UNCHANGED <<storeVars, requester, rejecter, callback, worldVars>>

ApproveLog(d) ==
    /\ approver[d].pc = "log_granted"
    /\ CreateEvent("approval_granted", approver[d].round)
    /\ ToApprover(d, "execute", 0, 0)
    /\ UNCHANGED <<row, round, started, requester, rejecter, callback, worldVars>>

DispatchClaim(d) ==
    /\ approver[d].pc = "execute"
    /\ MarkExecuting
    /\ ToApprover(d, "log_started", round, 0)
    /\ UNCHANGED <<audit, requester, rejecter, callback, worldVars>>

DispatchLostRace(d) ==
    /\ approver[d].pc = "execute"
    /\ row.status # "approved"
    /\ EndApprover(d)
    /\ UNCHANGED <<storeVars, requester, rejecter, callback, worldVars>>

\* Faulty variant: a failed audit insert does not stop the dispatch.
LogBestEffort(d) ==
    /\ approver[d].pc = "log_started"
    /\ CreateEvent("execution_started", approver[d].round) \/ UNCHANGED audit
    /\ ToApprover(d, "post", approver[d].round, 0)
    /\ UNCHANGED <<row, round, started, requester, rejecter, callback, worldVars>>

\* The EXECUTION_STARTED insert is outside the try block: when it fails the
\* action stays executing and nothing is dispatched (Abort).
DispatchLog(d) ==
    /\ approver[d].pc = "log_started"
    /\ CreateEvent("execution_started", approver[d].round)
    /\ ToApprover(d, "post", approver[d].round, 0)
    /\ UNCHANGED <<row, round, started, requester, rejecter, callback, worldVars>>

\* execute_action sends attempt k of the signed request to the webhook.
SendPost(d, k) ==
    /\ workflow' = [workflow EXCEPT ![<<approver[d].round, k>>].work = "posted"]
    /\ ToApprover(d, "wait", approver[d].round, k)
    /\ UNCHANGED <<storeVars, requester, rejecter, callback, effected, deliveries, faults>>

DispatchPost(d) == approver[d].pc = "post" /\ SendPost(d, 1)

\* The POST an approve call waits on.
Awaited(d) == <<approver[d].round, approver[d].attempt>>

\* Faulty variant: one attempt too many.
RetryTwice(d) ==
    /\ approver[d].pc = "wait" /\ approver[d].attempt \in {1, 2}
    /\ workflow[Awaited(d)].answer = "none"
    /\ SendPost(d, approver[d].attempt + 1)

\* The first attempt got a 5xx, lost its connection or timed out; a timeout may
\* strike whatever the workflow is doing.
DispatchRetry(d) ==
    /\ approver[d].pc = "wait" /\ approver[d].attempt = 1
    /\ workflow[Awaited(d)].answer = "none"
    /\ SendPost(d, 2)

\* A 2xx answer: the dispatch was accepted.  A 4xx answer to either attempt, or
\* no answer to the second: it failed.
DispatchAnswered(d) ==
    /\ approver[d].pc = "wait"
    /\ \/ workflow[Awaited(d)].answer = "ok" /\ ToApprover(d, "reference", approver[d].round, 0)
       \/ workflow[Awaited(d)].answer = "refused" /\ ToApprover(d, "fail", approver[d].round, 0)
       \/ /\ approver[d].attempt = 2 /\ workflow[Awaited(d)].answer = "none"
          /\ ToApprover(d, "fail", approver[d].round, 0)
    /\ workflow' = [workflow EXCEPT ![Awaited(d)].answer = "none"]
    /\ UNCHANGED <<storeVars, requester, rejecter, callback, effected, deliveries, faults>>

\* set_external_reference, when the answer carried a reference; its outcome
\* only decides which record approve answers with.
DispatchReference(d) ==
    /\ approver[d].pc = "reference"
    /\ \/ SetExternalReference
       \/ UNCHANGED <<row, round, started>>
    /\ EndApprover(d)
    /\ UNCHANGED <<audit, requester, rejecter, callback, worldVars>>

\* Faulty variants: the failure is not audited; the failure is only logged.
FailUnaudited(d) ==
    /\ approver[d].pc = "fail"
    /\ MarkFailed("dispatch") \/ UNCHANGED <<row, round, started>>
    /\ EndApprover(d)
    /\ UNCHANGED <<audit, requester, rejecter, callback, worldVars>>

FailOnlyLogged(d) ==
    /\ approver[d].pc = "fail"
    /\ EndApprover(d)
    /\ UNCHANGED <<storeVars, requester, rejecter, callback, worldVars>>

\* _record_dispatch_failure: the update names no attempt, so it fails whatever
\* round the row is in by now.
DispatchFail(d) ==
    /\ approver[d].pc = "fail"
    /\ \/ /\ MarkFailed("dispatch")
          /\ ToApprover(d, "log_failed", round, 0)
       \/ /\ row.status \notin {"approved", "executing"}
          /\ EndApprover(d)
          /\ UNCHANGED <<row, round, started>>
    /\ UNCHANGED <<audit, requester, rejecter, callback, worldVars>>

DispatchLogFailure(d) ==
    /\ approver[d].pc = "log_failed"
    /\ CreateEvent("execution_failed", approver[d].round)
    /\ EndApprover(d)
    /\ UNCHANGED <<row, round, started, requester, rejecter, callback, worldVars>>

-----------------------------------------------------------------------------
(* reject                                                                   *)

RejectRead(j) ==
    /\ rejecter[j] = "idle"
    /\ row.status = "pending"
    /\ rejecter' = [rejecter EXCEPT ![j] = "reject"]
    /\ UNCHANGED <<storeVars, requester, approver, callback, worldVars>>

\* Faulty variant: the outcome of the update is ignored.
RejectIgnoresRace(j) ==
    /\ rejecter[j] = "reject"
    /\ MarkRejected \/ (row.status # "pending" /\ UNCHANGED <<row, round, started>>)
    /\ rejecter' = [rejecter EXCEPT ![j] = "log_rejected"]
    /\ UNCHANGED <<audit, requester, approver, callback, worldVars>>

RejectMark(j) ==
    /\ rejecter[j] = "reject"
    /\ \/ /\ MarkRejected
          /\ rejecter' = [rejecter EXCEPT ![j] = "log_rejected"]
       \/ /\ row.status # "pending"
          /\ rejecter' = [rejecter EXCEPT ![j] = "idle"]
          /\ UNCHANGED <<row, round, started>>
    /\ UNCHANGED <<audit, requester, approver, callback, worldVars>>

RejectLog(j) ==
    /\ rejecter[j] = "log_rejected"
    /\ CreateEvent("action_rejected", 0)
    /\ rejecter' = [rejecter EXCEPT ![j] = "idle"]
    /\ UNCHANGED <<row, round, started, requester, approver, callback, worldVars>>

-----------------------------------------------------------------------------
(* The n8n workflow.  It runs once per POST; its last step before the       *)
(* answer is the callback, so an answer reflects how the callback went.     *)

\* An answer reaches the dispatcher only while it still waits on that POST.
Answered(p, a) ==
    IF \E d \in Approvers : approver[d].pc = "wait" /\ Awaited(d) = p
    THEN a ELSE workflow[p].answer

\* The provider is called and the signed callback sent: "completed" in the
\* exported workflow; a workflow that reports failures sends "failed" instead.
WorkflowCall(p) ==
    /\ workflow[p].work = "posted"
    /\ \E s \in CallbackStatuses :
        /\ workflow' = [workflow EXCEPT ![p].work = "calling", ![p].sent = s]
        /\ effected' = (effected \/ s = "completed")
    /\ UNCHANGED <<storeVars, handlerVars, deliveries, faults>>

\* A node throws before the callback; the provider may have acted or not.
WorkflowError(p) ==
    /\ workflow[p].work = "posted"
    /\ workflow' = [workflow EXCEPT ![p].work = "over"]
    /\ effected' \in {effected, TRUE}
    /\ UNCHANGED <<storeVars, handlerVars, deliveries, faults>>

\* The switch knows no such action type: HTTP 400.
WorkflowRefuse(p) ==
    /\ workflow[p].work = "posted" /\ workflow[p].answer = "none"
    /\ workflow' = [workflow EXCEPT ![p].work = "over", ![p].answer = Answered(p, "refused")]
    /\ UNCHANGED <<storeVars, handlerVars, effected, deliveries, faults>>

WorkflowAcknowledge(p) ==
    /\ EarlyAck
    /\ workflow[p].work = "posted"
    /\ workflow' = [workflow EXCEPT ![p].answer = Answered(p, "ok")]
    /\ UNCHANGED <<storeVars, handlerVars, effected, deliveries, faults>>

\* The first response to its callback is the one a workflow waits for: a 2xx
\* lets it answer 200, anything else makes it fail with a 500.
AnswerWorkflow(p, accepted) ==
    workflow' = IF workflow[p].work # "calling" THEN workflow
                ELSE [workflow EXCEPT ![p].work = "over",
                         ![p].answer = IF accepted THEN Answered(p, "ok") ELSE @]

-----------------------------------------------------------------------------
(* process_callback                                                         *)

\* A callback arrives, late or again within its signature's window, and
\* process_callback reads the row.
CallbackRead(c, p) ==
    /\ callback[c].pc = "idle"
    /\ deliveries < MaxDeliveries
    /\ workflow[p].sent # "none"
    /\ callback' = [callback EXCEPT ![c] =
            [pc |-> "log_received", post |-> p, status |-> workflow[p].sent,
             seen |-> row.status, round |-> 0]]
    /\ deliveries' = deliveries + 1
    /\ UNCHANGED <<storeVars, requester, approver, rejecter, workflow, effected, faults>>

EndCallback(c, accepted) ==
    /\ callback' = [callback EXCEPT ![c] = IdleCallback]
    /\ AnswerWorkflow(callback[c].post, accepted)

\* Faulty variant: n8n is answered before the callback is applied.
AnswersFirst(c) ==
    /\ callback[c].pc = "log_received"
    /\ CreateEvent("callback_received", callback[c].post[1])
    /\ callback' = [callback EXCEPT ![c].pc = "settle"]
    /\ AnswerWorkflow(callback[c].post, TRUE)
    /\ UNCHANGED <<row, round, started, requester, approver, rejecter, effected,
                   deliveries, faults>>

\* CALLBACK_RECEIVED is audited whatever the status; then the status read
\* before decides: settled alike, executing, or a conflict.
CallbackLog(c) ==
    /\ callback[c].pc = "log_received"
    /\ CreateEvent("callback_received", callback[c].post[1])
    /\ \/ /\ callback[c].seen = "executing"
          /\ callback' = [callback EXCEPT ![c].pc = "settle"]
          /\ UNCHANGED workflow
       \/ /\ callback[c].seen # "executing"
          /\ EndCallback(c, callback[c].seen = callback[c].status)
    /\ UNCHANGED <<row, round, started, requester, approver, rejecter, effected,
                   deliveries, faults>>

\* Faulty variant: the reported status is ignored.
SettleCompleted(s) == MarkCompleted

Settle(s) == IF s = "completed" THEN MarkCompleted ELSE MarkFailed("callback")

CallbackSettle(c) ==
    /\ callback[c].pc = "settle"
    /\ Settle(callback[c].status)
    /\ callback' = [callback EXCEPT ![c].pc = "log_settled", ![c].round = round]
    /\ UNCHANGED <<audit, requester, approver, rejecter, worldVars>>

CallbackLostRace(c) ==
    /\ callback[c].pc = "settle"
    /\ row.status \notin IF callback[c].status = "completed"
                           THEN {"executing"} ELSE {"approved", "executing"}
    /\ callback' = [callback EXCEPT ![c].pc = "reread"]
    /\ UNCHANGED <<storeVars, requester, approver, rejecter, worldVars>>

CallbackReread(c) ==
    /\ callback[c].pc = "reread"
    /\ EndCallback(c, row.status = callback[c].status)
    /\ UNCHANGED <<storeVars, requester, approver, rejecter, effected, deliveries, faults>>

CallbackLogSettled(c) ==
    /\ callback[c].pc = "log_settled"
    /\ CreateEvent(IF callback[c].status = "completed"
                     THEN "execution_completed" ELSE "execution_failed",
                   callback[c].round)
    /\ EndCallback(c, TRUE)
    /\ UNCHANGED <<row, round, started, requester, approver, rejecter, effected,
                   deliveries, faults>>

-----------------------------------------------------------------------------
(* Faults                                                                   *)

AbortRequester(r) ==
    /\ requester[r].pc # "idle"
    /\ requester' = [requester EXCEPT ![r] = IdleRequester]
    /\ UNCHANGED <<approver, rejecter, callback, workflow>>

AbortApprover(d) ==
    /\ approver[d].pc # "idle"
    /\ EndApprover(d)
    /\ UNCHANGED <<requester, rejecter, callback, workflow>>

AbortRejecter(j) ==
    /\ rejecter[j] # "idle"
    /\ rejecter' = [rejecter EXCEPT ![j] = "idle"]
    /\ UNCHANGED <<requester, approver, callback, workflow>>

AbortCallback(c) ==
    /\ callback[c].pc # "idle"
    /\ EndCallback(c, FALSE)
    /\ UNCHANGED <<requester, approver, rejecter>>

Abort ==
    /\ faults < MaxFaults
    /\ faults' = faults + 1
    /\ \/ \E r \in Requesters : AbortRequester(r)
       \/ \E d \in Approvers : AbortApprover(d)
       \/ \E j \in Rejecters : AbortRejecter(j)
       \/ \E c \in Callbacks : AbortCallback(c)
    /\ UNCHANGED <<storeVars, effected, deliveries>>

-----------------------------------------------------------------------------
Request(r) == (\E t \in Types : RequestCreate(r, t)) \/ RequestLog(r) \/ RequestLogDraft(r)

Approve(d) ==
    \/ ApproveRead(d) \/ ApproveGrant(d) \/ ApproveLostRace(d) \/ ApproveLog(d)

Dispatch(d) ==
    \/ DispatchClaim(d) \/ DispatchLostRace(d) \/ DispatchLog(d) \/ DispatchPost(d)
    \/ DispatchRetry(d) \/ DispatchAnswered(d) \/ DispatchReference(d)
    \/ DispatchFail(d) \/ DispatchLogFailure(d)

Reject(j) == RejectRead(j) \/ RejectMark(j) \/ RejectLog(j)

RunWorkflow(p) ==
    \/ WorkflowCall(p) \/ WorkflowError(p) \/ WorkflowRefuse(p)
    \/ WorkflowAcknowledge(p)

ProcessCallback(c) ==
    \/ \E p \in Posts : CallbackRead(c, p)
    \/ CallbackLog(c) \/ CallbackSettle(c) \/ CallbackLostRace(c)
    \/ CallbackReread(c) \/ CallbackLogSettled(c)

Next ==
    \/ \E r \in Requesters : Request(r)
    \/ \E d \in Approvers : Approve(d) \/ Dispatch(d)
    \/ \E j \in Rejecters : Reject(j)
    \/ \E p \in Posts : RunWorkflow(p)
    \/ \E c \in Callbacks : ProcessCallback(c)
    \/ Abort

Spec == Init /\ [][Next]_vars

-----------------------------------------------------------------------------
(* Properties                                                               *)

TypeOK ==
    /\ row \in Row
    /\ audit \subseteq Event
    /\ round \in Nat
    /\ started \subseteq Nat
    /\ requester \in [Requesters -> Requester]
    /\ approver \in [Approvers -> Approver]
    /\ rejecter \in [Rejecters -> {"idle", "reject", "log_rejected"}]
    /\ callback \in [Callbacks -> Callback]
    /\ workflow \in [Posts -> Workflow]
    /\ effected \in BOOLEAN
    /\ deliveries \in Nat
    /\ faults \in Nat

\* The table's state_consistency constraint holds of every row the handlers
\* write, whatever their order, so no conditional update is ever refused by the
\* database; and the error column explains exactly the failed rows.
RowConsistency ==
    /\ row.status \in {"absent", "pending"} => row.approvedAt = "null" /\ row.executedAt = "null"
    /\ row.status = "approved" => row.approvedAt = "set" /\ row.executedAt = "null"
    /\ row.status \in {"executing", "completed", "failed"}
        => row.approvedAt = "set" /\ row.executedAt = "set"
    /\ row.status = "rejected" => row.executedAt = "null"
    /\ row.error # "null" <=> row.status = "failed"

\* The handlers between winning mark_executing and the end of their dispatch.
Dispatching == {"log_started", "post", "wait", "reference", "fail"}

\* However many approve calls race and however often a failed action is retried,
\* an approval is used for one dispatch: a claimable row holds an unused approval
\* and no two approve calls ever dispatch for the same one.
OneDispatchPerApproval ==
    /\ row.status = "approved" => round \notin started
    /\ \A d1, d2 \in Approvers :
        /\ approver[d1].pc \in Dispatching /\ approver[d2].pc \in Dispatching
        /\ d1 # d2
        => approver[d1].round # approver[d2].round

\* n8n, and through it the provider, never receives a request for an action that
\* was not approved or was rejected: a POST exists only for a claimed approval of
\* a row that an operator has approved.
NoEffectWithoutApproval ==
    \A p \in Posts :
        workflow[p].work # "none"
        => /\ p[1] \in started
           /\ row.approvedAt = "set"
           /\ row.status \notin {"absent", "pending", "rejected"}

\* A request leaves for n8n only after its EXECUTION_STARTED event is stored,
\* also when audit inserts fail or handlers crash in between.
NoUnauditedDispatch ==
    \A p \in Posts : workflow[p].work # "none" => Logged("execution_started", p[1])

\* An action is completed only if the provider was called for it: callbacks that
\* are late, repeated or of an earlier approval never complete one without.
CompletedMeansEffected == row.status = "completed" => effected

\* What an event says of the row.
EventTrue(e) ==
    /\ e.type \in {"action_requested", "email_draft_created"} => row.status # "absent"
    /\ e.type = "email_draft_created" => row.type = EmailType
    /\ e.type = "action_rejected" => row.status = "rejected"
    /\ e.type = "approval_granted" => e.round \in 1 .. round
    /\ e.type = "execution_started" => e.round \in started
    /\ e.type = "execution_completed" => row.status = "completed" /\ e.round = round
    /\ e.type = "execution_failed" =>
        e.round < round \/ (e.round = round /\ row.status = "failed")

\* The audit trail never runs ahead of the row: whatever a stored event claims
\* did happen to the row, in the round the event belongs to.
AuditTruthful == \A e \in audit : EventTrue(e)

Quiet ==
    /\ \A r \in Requesters : requester[r].pc = "idle"
    /\ \A d \in Approvers : approver[d].pc = "idle"
    /\ \A j \in Rejecters : rejecter[j] = "idle"
    /\ \A c \in Callbacks : callback[c].pc = "idle"

\* When no call failed and none is running, the audit trail tells the whole story
\* of the row: every approval, claim, settlement and decision has its event.
AuditComplete ==
    Quiet /\ faults = 0 =>
        /\ row.status # "absent" => Logged("action_requested", 0)
        /\ row.type = EmailType => Logged("email_draft_created", 0)
        /\ row.status = "rejected" => Logged("action_rejected", 0)
        /\ \A n \in 1 .. round : Logged("approval_granted", n)
        /\ \A n \in started : Logged("execution_started", n)
        /\ row.status = "completed" => Logged("execution_completed", round)
        /\ \A n \in 1 .. round :
            n < round \/ row.status = "failed" => Logged("execution_failed", n)

\* With a workflow that answers only after its callback was accepted, as the
\* exported one, an accepted dispatch has been settled: approve never leaves an
\* accepted round executing, and set_external_reference finds nothing to update.
AcceptedMeansSettled ==
    ~EarlyAck =>
        \A d \in Approvers :
            approver[d].pc = "reference" /\ row.status = "executing"
            => round > approver[d].round

\* Without a failed handler nothing is abandoned: an approved action has an approve
\* call on its way to claim it, and an executing one, when n8n answers last, has the
\* approve call of its own round on its way to settle it.
NoneAbandoned ==
    faults = 0 =>
        /\ row.status = "approved" =>
            \E d \in Approvers : approver[d].pc \in {"log_granted", "execute"}
        /\ row.status = "executing" /\ ~EarlyAck =>
            \E d \in Approvers :
                /\ approver[d].pc \in {"log_started", "post", "wait", "fail"}
                /\ approver[d].round = round

\* Rejection and completion are final for the whole row: no late callback, stale
\* dispatcher or reference update touches it again.
SettledRowFrozen == [][row.status \in {"rejected", "completed"} => row' = row]_row

\* The lifecycle the README draws: an approved action can only go on to execute.
LifecycleDiagram ==
    [][row.status = "approved" => row'.status \in {"approved", "executing"}]_row

\* The handlers implement the approval gate's promise.
Gate == INSTANCE ApprovedExecution
            WITH phase <- row.status, approvals <- round, dispatched <- started

GateSpec == Gate!Spec

-----------------------------------------------------------------------------
(* Fairness: a running approve call keeps running, its HTTP client's timeout *)
(* included.  Nothing is assumed of operators, n8n or callbacks.             *)

FairSpec == Spec /\ \A d \in Approvers : WF_vars(Dispatch(d)) /\ WF_vars(ApproveLog(d))

\* Without crashes and database failures no action stays executing: the
\* dispatcher's timeout fails it if no callback settles it first.
ExecutingSettles == row.status = "executing" ~> row.status # "executing"
=============================================================================
