------------------------ MODULE ExternalActionsProofs ------------------------
(***************************************************************************)
(* Proofs about ExternalActions for every set of handlers and every bound. *)
(***************************************************************************)
EXTENDS ExternalActions, TLAPS

-----------------------------------------------------------------------------
(* Type correctness                                                         *)

LEMMA InitTypeOK == Init => TypeOK
<1> SUFFICES ASSUME Init PROVE TypeOK
  OBVIOUS
<1>1. /\ row \in Row
      /\ audit \subseteq Event
      /\ round \in Nat
      /\ started \subseteq Nat
  BY DEF Init, StoreInit, Row, AbsentRow, StoredStatuses
<1>2. requester \in [Requesters -> Requester]
  BY DEF Init, Requester, IdleRequester
<1>3. approver \in [Approvers -> Approver]
  BY DEF Init, Approver, IdleApprover
<1>4. callback \in [Callbacks -> Callback]
  BY DEF Init, Callback, IdleCallback, StoredStatuses
<1>5. workflow \in [Posts -> Workflow]
  BY DEF Init, Workflow
<1>6. /\ rejecter \in [Rejecters -> {"idle", "reject", "log_rejected"}]
      /\ effected \in BOOLEAN
      /\ deliveries \in Nat
      /\ faults \in Nat
  BY DEF Init
<1> QED
  BY <1>1, <1>2, <1>3, <1>4, <1>5, <1>6 DEF TypeOK

\* What every conditional update keeps, whichever it is.
LEMMA UpdateType ==
    ASSUME row \in Row, round \in Nat, started \subseteq Nat,
           \/ MarkApproved \/ MarkRetryApproved \/ MarkRejected \/ MarkExecuting
           \/ SetExternalReference \/ MarkCompleted
           \/ MarkFailed("dispatch") \/ MarkFailed("callback")
    PROVE  row' \in Row /\ round' \in Nat /\ started' \subseteq Nat
<1> USE DEF Row, StoredStatuses, Statuses
<1>1. CASE MarkApproved
  <2>1. row' \in Row
    BY <1>1 DEF MarkApproved
  <2>2. round' \in Nat /\ started' \subseteq Nat
    BY <1>1 DEF MarkApproved
  <2> QED
    BY <2>1, <2>2
<1>2. CASE MarkRetryApproved
  <2>1. row' \in Row
    BY <1>2 DEF MarkRetryApproved
  <2>2. round' \in Nat /\ started' \subseteq Nat
    BY <1>2 DEF MarkRetryApproved
  <2> QED
    BY <2>1, <2>2
<1>3. CASE MarkRejected
  BY <1>3 DEF MarkRejected
<1>4. CASE MarkExecuting
  BY <1>4 DEF MarkExecuting
<1>5. CASE SetExternalReference
  BY <1>5 DEF SetExternalReference
<1>6. CASE MarkCompleted
  BY <1>6 DEF MarkCompleted
<1>7. CASE MarkFailed("dispatch") \/ MarkFailed("callback")
  BY <1>7 DEF MarkFailed
<1> QED
  BY <1>1, <1>2, <1>3, <1>4, <1>5, <1>6, <1>7

LEMMA RequestTypeOK ==
    ASSUME TypeOK, NEW r \in Requesters, Request(r)
    PROVE  TypeOK'
<1>1. ASSUME NEW t \in Types, RequestCreate(r, t)
      PROVE  TypeOK'
  BY <1>1 DEF TypeOK, RequestCreate, CreateRow, worldVars, Row, AbsentRow, StoredStatuses,
       Statuses, Requester
<1>2. CASE RequestLog(r)
  BY <1>2 DEF TypeOK, RequestLog, CreateEvent, worldVars, Event, EventTypes, Requester, IdleRequester
<1>3. CASE RequestLogDraft(r)
  BY <1>3 DEF TypeOK, RequestLogDraft, CreateEvent, worldVars, Event, EventTypes, Requester, IdleRequester
<1> QED
  BY <1>1, <1>2, <1>3 DEF Request

LEMMA ApproveTypeOK ==
    ASSUME TypeOK, NEW d \in Approvers, Approve(d)
    PROVE  TypeOK'
<1> USE DEF TypeOK, ToApprover, EndApprover, Approver, IdleApprover, worldVars
<1>1. CASE ApproveRead(d)
  BY <1>1 DEF ApproveRead, storeVars
<1>2. CASE ApproveGrant(d)
  <2>1. row' \in Row /\ round' \in Nat /\ started' \subseteq Nat
    BY <1>2, UpdateType DEF ApproveGrant
  <2>2. approver' \in [Approvers -> Approver]
    BY <1>2, <2>1 DEF ApproveGrant
  <2> QED
    BY <1>2, <2>1, <2>2 DEF ApproveGrant
<1>3. CASE ApproveLostRace(d)
  BY <1>3 DEF ApproveLostRace, storeVars
<1>4. CASE ApproveLog(d)
  BY <1>4 DEF ApproveLog, CreateEvent, Event, EventTypes
<1> QED
  BY <1>1, <1>2, <1>3, <1>4 DEF Approve

LEMMA DispatchTypeOK ==
    ASSUME TypeOK, NEW d \in Approvers, Dispatch(d)
    PROVE  TypeOK'
<1> USE DEF TypeOK, ToApprover, EndApprover, Approver, IdleApprover, worldVars
<1>1. CASE DispatchClaim(d)
  BY <1>1, UpdateType DEF DispatchClaim
<1>2. CASE DispatchLostRace(d)
  BY <1>2 DEF DispatchLostRace, storeVars
<1>3. CASE DispatchLog(d)
  BY <1>3 DEF DispatchLog, CreateEvent, Event, EventTypes
<1>4. CASE DispatchPost(d)
  BY <1>4 DEF DispatchPost, SendPost, storeVars, Workflow
<1>5. CASE DispatchRetry(d)
  BY <1>5 DEF DispatchRetry, SendPost, storeVars, Workflow
<1>6. CASE DispatchAnswered(d)
  <2>1. approver' \in [Approvers -> Approver]
    BY <1>6 DEF DispatchAnswered
  <2>2. workflow' \in [Posts -> Workflow]
    BY <1>6 DEF DispatchAnswered, Workflow
  <2> QED
    BY <1>6, <2>1, <2>2 DEF DispatchAnswered, storeVars
<1>7. CASE DispatchReference(d)
  <2>1. row' \in Row /\ round' \in Nat /\ started' \subseteq Nat
    BY <1>7, UpdateType DEF DispatchReference
  <2> QED
    BY <1>7, <2>1 DEF DispatchReference
<1>8. CASE DispatchFail(d)
  <2>1. row' \in Row /\ round' \in Nat /\ started' \subseteq Nat
    BY <1>8, UpdateType DEF DispatchFail
  <2>2. approver' \in [Approvers -> Approver]
    BY <1>8 DEF DispatchFail
  <2> QED
    BY <1>8, <2>1, <2>2 DEF DispatchFail
<1>9. CASE DispatchLogFailure(d)
  BY <1>9 DEF DispatchLogFailure, CreateEvent, Event, EventTypes
<1> QED
  BY <1>1, <1>2, <1>3, <1>4, <1>5, <1>6, <1>7, <1>8, <1>9 DEF Dispatch

LEMMA RejectTypeOK ==
    ASSUME TypeOK, NEW j \in Rejecters, Reject(j)
    PROVE  TypeOK'
<1>1. CASE RejectRead(j)
  BY <1>1 DEF TypeOK, RejectRead, storeVars, worldVars
<1>2. CASE RejectMark(j)
  <2>1. row' \in Row /\ round' \in Nat /\ started' \subseteq Nat
    BY <1>2, UpdateType DEF RejectMark, TypeOK
  <2> QED
    BY <1>2, <2>1 DEF TypeOK, RejectMark, worldVars
<1>3. CASE RejectLog(j)
  BY <1>3 DEF TypeOK, RejectLog, CreateEvent, worldVars, Event, EventTypes
<1> QED
  BY <1>1, <1>2, <1>3 DEF Reject

LEMMA RunWorkflowTypeOK ==
    ASSUME TypeOK, NEW p \in Posts, RunWorkflow(p)
    PROVE  TypeOK'
<1> USE DEF TypeOK, storeVars, handlerVars, Workflow, Answered
<1>1. CASE WorkflowCall(p)
  <2>1. workflow' \in [Posts -> Workflow]
    <3>1. PICK s \in {"completed", "failed"} :
            workflow' = [workflow EXCEPT ![p].work = "calling", ![p].sent = s]
      BY <1>1, WorkflowAssumption DEF WorkflowCall
    <3>2. [workflow[p] EXCEPT !.work = "calling", !.sent = s] \in Workflow
      OBVIOUS
    <3> QED
      BY <3>1, <3>2
  <2>2. effected' \in BOOLEAN
    BY <1>1 DEF WorkflowCall
  <2> QED
    BY <1>1, <2>1, <2>2 DEF WorkflowCall
<1>2. CASE WorkflowError(p)
  BY <1>2 DEF WorkflowError
<1>3. CASE WorkflowRefuse(p)
  <2>1. workflow' \in [Posts -> Workflow]
    BY <1>3 DEF WorkflowRefuse
  <2> QED
    BY <1>3, <2>1 DEF WorkflowRefuse
<1>4. CASE WorkflowAcknowledge(p)
  BY <1>4 DEF WorkflowAcknowledge
<1> QED
  BY <1>1, <1>2, <1>3, <1>4 DEF RunWorkflow

LEMMA AnswerWorkflowType ==
    ASSUME workflow \in [Posts -> Workflow], NEW p, NEW a \in BOOLEAN, AnswerWorkflow(p, a)
    PROVE  workflow' \in [Posts -> Workflow]
BY DEF AnswerWorkflow, Workflow, Answered

LEMMA EndCallbackType ==
    ASSUME TypeOK, NEW c \in Callbacks, NEW a \in BOOLEAN, EndCallback(c, a)
    PROVE  /\ callback' \in [Callbacks -> Callback]
           /\ workflow' \in [Posts -> Workflow]
BY AnswerWorkflowType DEF TypeOK, EndCallback, Callback, IdleCallback, StoredStatuses

LEMMA ProcessCallbackTypeOK ==
    ASSUME TypeOK, NEW c \in Callbacks, ProcessCallback(c)
    PROVE  TypeOK'
<1>1. ASSUME NEW p \in Posts, CallbackRead(c, p)
      PROVE  TypeOK'
  <2>1. callback' \in [Callbacks -> Callback]
    <3>1. workflow[p].sent \in {"none", "completed", "failed"} /\ row.status \in StoredStatuses
      BY DEF TypeOK, Workflow, Row
    <3>2. [pc |-> "log_received", post |-> p, status |-> workflow[p].sent,
           seen |-> row.status, round |-> 0] \in Callback
      BY <3>1 DEF Callback
    <3> QED
      BY <1>1, <3>2 DEF CallbackRead, TypeOK
  <2> QED
    BY <1>1, <2>1 DEF TypeOK, CallbackRead, storeVars
<1>2. CASE CallbackLog(c)
  <2>1. /\ callback' \in [Callbacks -> Callback]
        /\ workflow' \in [Posts -> Workflow]
    BY <1>2, EndCallbackType DEF CallbackLog, TypeOK, Callback
  <2>2. audit' \subseteq Event
    BY <1>2 DEF CallbackLog, CreateEvent, TypeOK, Event, EventTypes, Callback, Posts
  <2> QED
    BY <1>2, <2>1, <2>2 DEF CallbackLog, TypeOK
<1>3. CASE CallbackSettle(c)
  <2>1. row' \in Row /\ round' \in Nat /\ started' \subseteq Nat
    BY <1>3, UpdateType DEF CallbackSettle, Settle, TypeOK
  <2>2. callback' \in [Callbacks -> Callback]
    <3>1. [callback[c] EXCEPT !.pc = "log_settled", !.round = round] \in Callback
      BY DEF TypeOK, Callback
    <3> QED
      BY <1>3, <3>1 DEF CallbackSettle, TypeOK
  <2> QED
    BY <1>3, <2>1, <2>2 DEF TypeOK, CallbackSettle, worldVars
<1>4. CASE CallbackLostRace(c)
  BY <1>4 DEF TypeOK, CallbackLostRace, storeVars, worldVars, Callback
<1>5. CASE CallbackReread(c)
  <2>1. /\ callback' \in [Callbacks -> Callback]
        /\ workflow' \in [Posts -> Workflow]
    BY <1>5, EndCallbackType DEF CallbackReread
  <2> QED
    BY <1>5, <2>1 DEF CallbackReread, TypeOK, storeVars
<1>6. CASE CallbackLogSettled(c)
  <2>1. /\ callback' \in [Callbacks -> Callback]
        /\ workflow' \in [Posts -> Workflow]
    BY <1>6, EndCallbackType DEF CallbackLogSettled
  <2>2. audit' \subseteq Event
    BY <1>6 DEF CallbackLogSettled, CreateEvent, TypeOK, Event, EventTypes, Callback
  <2> QED
    BY <1>6, <2>1, <2>2 DEF CallbackLogSettled, TypeOK
<1> QED
  BY <1>1, <1>2, <1>3, <1>4, <1>5, <1>6 DEF ProcessCallback

LEMMA AbortTypeOK == TypeOK /\ Abort => TypeOK'
<1> SUFFICES ASSUME TypeOK, Abort PROVE TypeOK'
  OBVIOUS
<1>1. CASE \E r \in Requesters : AbortRequester(r)
  BY <1>1 DEF TypeOK, Abort, AbortRequester, storeVars, Requester, IdleRequester
<1>2. CASE \E d \in Approvers : AbortApprover(d)
  BY <1>2 DEF TypeOK, Abort, AbortApprover, EndApprover, storeVars, Approver, IdleApprover
<1>3. CASE \E j \in Rejecters : AbortRejecter(j)
  BY <1>3 DEF TypeOK, Abort, AbortRejecter, storeVars
<1>4. ASSUME NEW c \in Callbacks, AbortCallback(c)
      PROVE  TypeOK'
  <2>1. /\ callback' \in [Callbacks -> Callback]
        /\ workflow' \in [Posts -> Workflow]
    BY <1>4, EndCallbackType DEF AbortCallback
  <2> QED
    BY <1>4, <2>1 DEF TypeOK, Abort, AbortCallback, storeVars
<1> QED
  BY <1>1, <1>2, <1>3, <1>4 DEF Abort

LEMMA NextTypeOK == TypeOK /\ [Next]_vars => TypeOK'
<1> SUFFICES ASSUME TypeOK, [Next]_vars PROVE TypeOK'
  OBVIOUS
<1>1. CASE UNCHANGED vars
  BY <1>1 DEF TypeOK, vars, storeVars, handlerVars, worldVars
<1> QED
  BY <1>1, RequestTypeOK, ApproveTypeOK, DispatchTypeOK, RejectTypeOK, RunWorkflowTypeOK,
     ProcessCallbackTypeOK, AbortTypeOK DEF Next

\* Every value the handlers, the tables and the workflows hold is of its type.
THEOREM TypeCorrect == Spec => []TypeOK
BY InitTypeOK, NextTypeOK, PTL DEF Spec
-----------------------------------------------------------------------------
(* What the conditional updates alone guarantee, whatever the handlers do:   *)
(* every step of the specification changes the row by one of the updates of  *)
(* ActionStore or not at all (RowStep), and each theorem follows from that.  *)

rowVars == <<row, round, started>>

RowStep ==
    \/ UNCHANGED rowVars
    \/ \E t \in Types : CreateRow(t)
    \/ MarkApproved \/ MarkRetryApproved \/ MarkRejected \/ MarkExecuting
    \/ SetExternalReference \/ MarkCompleted
    \/ MarkFailed("dispatch") \/ MarkFailed("callback")

LEMMA NextRowStep == [Next]_vars => RowStep
<1> SUFFICES ASSUME [Next]_vars PROVE RowStep
  OBVIOUS
<1> USE DEF RowStep, rowVars, storeVars
<1>1. ASSUME NEW r \in Requesters, Request(r)
      PROVE  RowStep
  BY <1>1 DEF Request, RequestCreate, RequestLog, RequestLogDraft
<1>2. ASSUME NEW d \in Approvers, Approve(d)
      PROVE  RowStep
  BY <1>2 DEF Approve, ApproveRead, ApproveGrant, ApproveLostRace, ApproveLog
<1>3. ASSUME NEW d \in Approvers, Dispatch(d)
      PROVE  RowStep
  BY <1>3 DEF Dispatch, DispatchClaim, DispatchLostRace, DispatchLog, DispatchPost, SendPost,
       DispatchRetry, DispatchAnswered, DispatchReference, DispatchFail, DispatchLogFailure
<1>4. ASSUME NEW j \in Rejecters, Reject(j)
      PROVE  RowStep
  BY <1>4 DEF Reject, RejectRead, RejectMark, RejectLog
<1>5. ASSUME NEW p \in Posts, RunWorkflow(p)
      PROVE  RowStep
  BY <1>5 DEF RunWorkflow, WorkflowCall, WorkflowError, WorkflowRefuse, WorkflowAcknowledge
<1>6. ASSUME NEW c \in Callbacks, ProcessCallback(c)
      PROVE  RowStep
  BY <1>6 DEF ProcessCallback, CallbackRead, CallbackLog, CallbackSettle, Settle,
       CallbackLostRace, CallbackReread, CallbackLogSettled
<1>7. CASE Abort
  BY <1>7 DEF Abort
<1>8. CASE UNCHANGED vars
  BY <1>8 DEF vars
<1> QED
  BY <1>1, <1>2, <1>3, <1>4, <1>5, <1>6, <1>7, <1>8 DEF Next

-----------------------------------------------------------------------------
(* The columns agree with the status                                        *)

LEMMA RowStepConsistency ==
    ASSUME row \in Row, RowConsistency, RowStep
    PROVE  RowConsistency'
<1> USE DEF RowConsistency, Row
<1>1. CASE UNCHANGED rowVars
  BY <1>1 DEF rowVars
<1>2. ASSUME NEW t \in Types, CreateRow(t)
      PROVE  RowConsistency'
  BY <1>2 DEF CreateRow, AbsentRow
<1>3. CASE MarkApproved \/ MarkRetryApproved
  BY <1>3 DEF MarkApproved, MarkRetryApproved
<1>4. CASE MarkRejected \/ SetExternalReference
  BY <1>4 DEF MarkRejected, SetExternalReference
<1>5. CASE MarkExecuting \/ MarkCompleted
  BY <1>5 DEF MarkExecuting, MarkCompleted
<1>6. CASE MarkFailed("dispatch") \/ MarkFailed("callback")
  BY <1>6 DEF MarkFailed
<1> QED
  BY <1>1, <1>2, <1>3, <1>4, <1>5, <1>6 DEF RowStep

\* The database's state_consistency constraint never refuses an update of the
\* handlers, and the error column is set on exactly the failed rows.
THEOREM RowConsistent == Spec => []RowConsistency
<1>1. Init => RowConsistency
  BY DEF Init, StoreInit, AbsentRow, RowConsistency
<1>2. TypeOK /\ RowConsistency /\ [Next]_vars => RowConsistency'
  BY NextRowStep, RowStepConsistency DEF TypeOK
<1> QED
  BY <1>1, <1>2, TypeCorrect, PTL DEF Spec

\* A rejected or completed row is never written again.
THEOREM SettledRowsFrozen == Spec => SettledRowFrozen
<1>1. RowStep => [row.status \in {"rejected", "completed"} => row' = row]_row
  BY DEF RowStep, rowVars, CreateRow, MarkApproved, MarkRetryApproved, MarkRejected,
     MarkExecuting, SetExternalReference, MarkCompleted, MarkFailed
<1> QED
  BY <1>1, NextRowStep, PTL DEF Spec, SettledRowFrozen

-----------------------------------------------------------------------------
(* Approvals and claims                                                     *)

\* Only granted approvals are claimed, each once; a row that no operator has
\* approved has none.
ApprovalInv ==
    /\ \A n \in started : 1 <= n /\ n <= round
    /\ row.status \in {"absent", "pending", "rejected"} => round = 0
    /\ row.status \notin {"absent", "pending", "rejected"} => 1 <= round
    /\ row.status = "approved" => round \notin started

LEMMA RowStepApprovalInv ==
    ASSUME TypeOK, ApprovalInv, RowStep
    PROVE  ApprovalInv'
<1>a. round \in Nat /\ started \subseteq Nat /\ row \in Row
  BY DEF TypeOK
<1> USE DEF ApprovalInv
<1>1. CASE UNCHANGED rowVars
  BY <1>1 DEF rowVars
<1>2. ASSUME NEW t \in Types, CreateRow(t)
      PROVE  ApprovalInv'
  BY <1>2 DEF CreateRow, AbsentRow
<1>3. CASE MarkApproved \/ MarkRetryApproved
  <2>1. row'.status = "approved" /\ round' = round + 1 /\ started' = started
    BY <1>3, <1>a DEF MarkApproved, MarkRetryApproved, Row
  <2>2. \A n \in started : n \in Nat /\ 1 <= n /\ n <= round
    BY <1>a
  <2>3. round + 1 \notin started /\ 1 <= round + 1
    BY <2>2, <1>a
  <2>4. \A n \in started : 1 <= n /\ n <= round + 1
    BY <2>2, <1>a
  <2> QED
    BY <2>1, <2>3, <2>4
<1>4. CASE MarkRejected
  <2>1. /\ row.status = "pending" /\ row'.status = "rejected"
        /\ round' = round /\ started' = started
    BY <1>4, <1>a DEF MarkRejected, Row
  <2> QED
    BY <2>1
<1>5. CASE SetExternalReference \/ MarkCompleted
  <2>1. /\ row.status = "executing" /\ row'.status \in {"executing", "completed"}
        /\ round' = round /\ started' = started
    BY <1>5, <1>a DEF SetExternalReference, MarkCompleted, Row
  <2> QED
    BY <2>1
<1>6. CASE MarkExecuting
  <2>1. /\ row.status = "approved" /\ row'.status = "executing"
        /\ round' = round /\ started' = started \union {round}
    BY <1>6, <1>a DEF MarkExecuting, Row
  <2> QED
    BY <2>1, <1>a
<1>7. CASE MarkFailed("dispatch") \/ MarkFailed("callback")
  <2>1. /\ row.status \in {"approved", "executing"} /\ row'.status = "failed"
        /\ round' = round /\ started' = started
    BY <1>7, <1>a DEF MarkFailed, Row
  <2> QED
    BY <2>1
<1> QED
  BY <1>1, <1>2, <1>3, <1>4, <1>5, <1>6, <1>7 DEF RowStep

LEMMA ApprovalInvariant == Spec => []ApprovalInv
<1>1. Init => ApprovalInv
  BY DEF Init, StoreInit, AbsentRow, ApprovalInv
<1>2. TypeOK /\ ApprovalInv /\ [Next]_vars => ApprovalInv'
  BY NextRowStep, RowStepApprovalInv
<1> QED
  BY <1>1, <1>2, TypeCorrect, PTL DEF Spec

\* The handlers implement the approval gate: with the status as its phase, the
\* rounds as its approvals and the claims as its dispatches, every step of the
\* handlers is a step of the gate or leaves it unchanged.
THEOREM ImplementsGate == Spec => GateSpec
<1>1. Init => Gate!Init
  BY DEF Init, StoreInit, AbsentRow, Gate!Init
<1>2. TypeOK /\ ApprovalInv /\ RowStep => [Gate!Next]_Gate!aeVars
  <2> SUFFICES ASSUME TypeOK, ApprovalInv, RowStep PROVE [Gate!Next]_Gate!aeVars
    OBVIOUS
  <2> USE DEF Gate!Next, Gate!aeVars, Gate!Move, TypeOK, Row
  <2>1. CASE UNCHANGED rowVars
    BY <2>1 DEF rowVars
  <2>2. ASSUME NEW t \in Types, CreateRow(t)
        PROVE  Gate!Next
    BY <2>2 DEF CreateRow, AbsentRow, Gate!Request
  <2>3. CASE MarkApproved \/ MarkRetryApproved
    BY <2>3 DEF MarkApproved, MarkRetryApproved, Gate!Grant
  <2>4. CASE MarkRejected
    BY <2>4 DEF MarkRejected, Gate!Refuse
  <2>5. CASE MarkExecuting
    BY <2>5 DEF MarkExecuting, Gate!Start, ApprovalInv
  <2>6. CASE SetExternalReference
    BY <2>6 DEF SetExternalReference
  <2>7. CASE MarkCompleted
    BY <2>7 DEF MarkCompleted, Gate!Complete
  <2>8. CASE MarkFailed("dispatch") \/ MarkFailed("callback")
    BY <2>8 DEF MarkFailed, Gate!Fail
  <2> QED
    BY <2>1, <2>2, <2>3, <2>4, <2>5, <2>6, <2>7, <2>8 DEF RowStep
<1>3. TypeOK /\ ApprovalInv /\ [Next]_vars => [Gate!Next]_Gate!aeVars
  BY <1>2, NextRowStep
<1> QED
  BY <1>1, <1>3, TypeCorrect, ApprovalInvariant, PTL DEF Spec, GateSpec, Gate!Spec
=============================================================================
