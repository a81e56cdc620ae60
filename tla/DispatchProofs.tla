---------------------------- MODULE DispatchProofs ----------------------------
(***************************************************************************)
(* What the row's conditional updates and the audit trail guarantee about  *)
(* the requests that leave for n8n, for any number of racing handlers,     *)
(* retries, duplicated callbacks and crashes.                              *)
(***************************************************************************)
EXTENDS ExternalActionsProofs, FiniteSetTheorems

\* The dispatchers between winning their claim and the end of their dispatch
\* hold distinct claimed rounds; once they have audited the start, its event is
\* stored; and so it is with every request that was sent.
DispatchInv ==
    /\ \A d \in Approvers :
        approver[d].pc \in Dispatching => approver[d].round \in started
    /\ \A d \in Approvers :
        approver[d].pc \in Dispatching \ {"log_started"}
        => Logged("execution_started", approver[d].round)
    /\ \A d1, d2 \in Approvers :
        /\ approver[d1].pc \in Dispatching /\ approver[d2].pc \in Dispatching
        /\ d1 # d2
        => approver[d1].round # approver[d2].round
    /\ \A p \in Posts :
        workflow[p].work # "none" => p[1] \in started /\ Logged("execution_started", p[1])

\* Claims and events are only ever added.
LEMMA NextMonotone ==
    ASSUME [Next]_vars
    PROVE  started \subseteq started' /\ audit \subseteq audit'
<1>1. started \subseteq started'
  BY NextRowStep DEF RowStep, rowVars, CreateRow, MarkApproved, MarkRetryApproved,
     MarkRejected, MarkExecuting, SetExternalReference, MarkCompleted, MarkFailed
<1>2. audit \subseteq audit'
  <2> USE DEF storeVars, CreateEvent
  <2>1. ASSUME NEW r \in Requesters, Request(r)
        PROVE  audit \subseteq audit'
    BY <2>1 DEF Request, RequestCreate, RequestLog, RequestLogDraft
  <2>2. ASSUME NEW d \in Approvers, Approve(d)
        PROVE  audit \subseteq audit'
    BY <2>2 DEF Approve, ApproveRead, ApproveGrant, ApproveLostRace, ApproveLog
  <2>3. ASSUME NEW d \in Approvers, Dispatch(d)
        PROVE  audit \subseteq audit'
    BY <2>3 DEF Dispatch, DispatchClaim, DispatchLostRace, DispatchLog, DispatchPost, SendPost,
         DispatchRetry, DispatchAnswered, DispatchReference, DispatchFail, DispatchLogFailure
  <2>4. ASSUME NEW j \in Rejecters, Reject(j)
        PROVE  audit \subseteq audit'
    BY <2>4 DEF Reject, RejectRead, RejectMark, RejectLog
  <2>5. ASSUME NEW p \in Posts, RunWorkflow(p)
        PROVE  audit \subseteq audit'
    BY <2>5 DEF RunWorkflow, WorkflowCall, WorkflowError, WorkflowRefuse, WorkflowAcknowledge
  <2>6. ASSUME NEW c \in Callbacks, ProcessCallback(c)
        PROVE  audit \subseteq audit'
    BY <2>6 DEF ProcessCallback, CallbackRead, CallbackLog, CallbackSettle,
         CallbackLostRace, CallbackReread, CallbackLogSettled
  <2>7. CASE Abort
    BY <2>7 DEF Abort
  <2>8. CASE UNCHANGED vars
    BY <2>8 DEF vars
  <2> QED
    BY <2>1, <2>2, <2>3, <2>4, <2>5, <2>6, <2>7, <2>8 DEF Next
<1> QED
  BY <1>1, <1>2

\* A step that sends nothing and moves no dispatcher keeps the invariant.
NothingSent ==
    \A p \in Posts : workflow'[p].work # "none" => workflow[p].work # "none"

LEMMA AnswerSendsNothing ==
    ASSUME TypeOK, NEW p, NEW a, AnswerWorkflow(p, a)
    PROVE  NothingSent
BY DEF AnswerWorkflow, NothingSent, TypeOK, Workflow

LEMMA WorkflowSendsNothing ==
    ASSUME TypeOK, NEW p \in Posts, RunWorkflow(p)
    PROVE  NothingSent
BY DEF RunWorkflow, WorkflowCall, WorkflowError, WorkflowRefuse, WorkflowAcknowledge,
   NothingSent, TypeOK, Workflow

LEMMA CallbackSendsNothing ==
    ASSUME TypeOK, NEW c \in Callbacks, ProcessCallback(c) \/ AbortCallback(c)
    PROVE  NothingSent
<1>1. CASE UNCHANGED workflow
  BY <1>1 DEF NothingSent
<1>2. CASE \E a \in BOOLEAN : EndCallback(c, a)
  BY <1>2, AnswerSendsNothing DEF EndCallback
<1> QED
  BY <1>1, <1>2 DEF ProcessCallback, AbortCallback, CallbackRead, CallbackLog, CallbackSettle,
     CallbackLostRace, CallbackReread, CallbackLogSettled, worldVars

LEMMA QuietDispatchInv ==
    ASSUME TypeOK, DispatchInv, [Next]_vars, UNCHANGED approver, NothingSent
    PROVE  DispatchInv'
BY NextMonotone DEF DispatchInv, NothingSent, Logged

\* A dispatcher that leaves its dispatch, or is not in one, keeps it too.
LEMMA LeavingDispatchInv ==
    ASSUME TypeOK, DispatchInv, [Next]_vars, NothingSent,
           NEW d \in Approvers, NEW a \in Approver,
           approver' = [approver EXCEPT ![d] = a],
           \/ a.pc \notin Dispatching
           \/ /\ approver[d].pc \in Dispatching
              /\ a.round = approver[d].round
              /\ approver[d].pc # "log_started" \/ Logged("execution_started", a.round)'
    PROVE  DispatchInv'
<1>1. approver'[d] = a /\ \A e \in Approvers : e # d => approver'[e] = approver[e]
  BY DEF TypeOK
<1> QED
  BY <1>1, NextMonotone DEF DispatchInv, NothingSent, Logged, Dispatching

LEMMA ApproveDispatchInv ==
    ASSUME TypeOK, DispatchInv, [Next]_vars, NEW d \in Approvers, Approve(d) \/ AbortApprover(d)
    PROVE  DispatchInv'
<1>1. NothingSent
  BY DEF Approve, AbortApprover, ApproveRead, ApproveGrant, ApproveLostRace, ApproveLog,
     worldVars, NothingSent
<1>2. \E a \in Approver : a.pc \notin Dispatching /\ approver' = [approver EXCEPT ![d] = a]
  <2> USE DEF ToApprover, EndApprover, IdleApprover, Approver, Dispatching
  <2>1. CASE ApproveRead(d)
    BY <2>1 DEF ApproveRead
  <2>2. CASE ApproveGrant(d)
    <3>1. round' \in Nat
      BY <2>2, UpdateType DEF ApproveGrant, TypeOK
    <3> QED
      BY <2>2, <3>1 DEF ApproveGrant
  <2>3. CASE ApproveLostRace(d)
    BY <2>3 DEF ApproveLostRace
  <2>4. CASE ApproveLog(d)
    BY <2>4 DEF ApproveLog
  <2>5. CASE AbortApprover(d)
    BY <2>5 DEF AbortApprover
  <2> QED
    BY <2>1, <2>2, <2>3, <2>4, <2>5 DEF Approve
<1> QED
  BY <1>1, <1>2, LeavingDispatchInv

LEMMA DispatchDispatchInv ==
    ASSUME TypeOK, ApprovalInv, DispatchInv, [Next]_vars, NEW d \in Approvers, Dispatch(d)
    PROVE  DispatchInv'
<1> USE DEF ToApprover, EndApprover, IdleApprover
<1>a. /\ approver \in [Approvers -> Approver]
      /\ round \in Nat
  BY DEF TypeOK
<1>b. approver[d].round \in Nat
  BY <1>a DEF Approver
<1>1. CASE DispatchClaim(d)
  <2>1. /\ approver' = [approver EXCEPT ![d] = [pc |-> "log_started", round |-> round, attempt |-> 0]]
        /\ started' = started \union {round}
        /\ audit' = audit /\ workflow' = workflow
        /\ round \notin started
    BY <1>1 DEF DispatchClaim, MarkExecuting, ApprovalInv, worldVars
  <2>2. /\ approver'[d].pc = "log_started" /\ approver'[d].round = round
        /\ \A e \in Approvers : e # d => approver'[e] = approver[e]
    BY <2>1, <1>a
  <2> QED
    BY <2>1, <2>2 DEF DispatchInv, Logged, Dispatching
<1>2. CASE DispatchLostRace(d)
  BY <1>2, LeavingDispatchInv DEF DispatchLostRace, Approver, Dispatching, NothingSent, worldVars
<1>3. CASE DispatchLog(d)
  <2>1. [pc |-> "post", round |-> approver[d].round, attempt |-> 0] \in Approver
    BY <1>b DEF Approver
  <2>2. Logged("execution_started", approver[d].round)'
    BY <1>3, <1>a DEF DispatchLog, CreateEvent, Logged
  <2> QED
    BY <1>3, <2>1, LeavingDispatchInv DEF DispatchLog, Dispatching, NothingSent, worldVars,
       CreateEvent, Logged
<1>4. CASE DispatchPost(d) \/ DispatchRetry(d)
  <2>1. PICK k \in {1, 2} : approver[d].pc \in {"post", "wait"} /\ SendPost(d, k)
    BY <1>4 DEF DispatchPost, DispatchRetry
  <2>2. /\ approver' = [approver EXCEPT ![d] = [pc |-> "wait", round |-> approver[d].round, attempt |-> k]]
        /\ UNCHANGED <<started, audit>>
        /\ \A p \in Posts : p # <<approver[d].round, k>> => workflow'[p] = workflow[p]
    BY <2>1 DEF SendPost, storeVars, TypeOK
  <2>3. \A e \in Approvers :
            /\ approver'[e].round = approver[e].round
            /\ e # d => approver'[e] = approver[e]
    BY <2>2, <1>a DEF Approver
  <2>4. approver[d].round \in started /\ Logged("execution_started", approver[d].round)
    BY <2>1 DEF DispatchInv, Dispatching
  <2>5. \A p \in Posts : workflow'[p].work # "none" => p[1] \in started /\ Logged("execution_started", p[1])
    BY <2>2, <2>4 DEF DispatchInv
  <2>6. \A e \in Approvers : approver'[e].pc \in Dispatching => approver[e].pc \in Dispatching
    BY <2>1, <2>2, <2>3 DEF Dispatching
  <2>7. \A e \in Approvers :
            approver'[e].pc \in Dispatching \ {"log_started"}
            => Logged("execution_started", approver'[e].round)
    BY <2>3, <2>4 DEF DispatchInv
  <2> QED
    BY <2>2, <2>3, <2>5, <2>6, <2>7 DEF DispatchInv, Logged
<1>5. CASE DispatchAnswered(d)
  <2>1. NothingSent
    BY <1>5 DEF DispatchAnswered, NothingSent, TypeOK, Workflow
  <2>2. PICK pc \in {"reference", "fail"} : ToApprover(d, pc, approver[d].round, 0)
    BY <1>5 DEF DispatchAnswered
  <2>3. [pc |-> pc, round |-> approver[d].round, attempt |-> 0] \in Approver
    BY <1>b DEF Approver
  <2>4. approver[d].pc = "wait"
    BY <1>5 DEF DispatchAnswered
  <2> QED
    BY <2>1, <2>2, <2>3, <2>4, LeavingDispatchInv DEF Dispatching
<1>6. CASE DispatchReference(d) \/ DispatchLogFailure(d)
  BY <1>6, LeavingDispatchInv DEF DispatchReference, DispatchLogFailure, Approver, Dispatching,
     NothingSent, worldVars
<1>7. CASE DispatchFail(d)
  BY <1>7, <1>a, LeavingDispatchInv DEF DispatchFail, MarkFailed, Approver, Dispatching,
     NothingSent, worldVars
<1> QED
  BY <1>1, <1>2, <1>3, <1>4, <1>5, <1>6, <1>7 DEF Dispatch

LEMMA NextDispatchInv == TypeOK /\ ApprovalInv /\ DispatchInv /\ [Next]_vars => DispatchInv'
<1> SUFFICES ASSUME TypeOK, ApprovalInv, DispatchInv, [Next]_vars PROVE DispatchInv'
  OBVIOUS
<1>1. ASSUME NEW r \in Requesters, Request(r) \/ AbortRequester(r)
      PROVE  DispatchInv'
  <2>1. UNCHANGED approver /\ NothingSent
    BY <1>1 DEF Request, AbortRequester, RequestCreate, RequestLog, RequestLogDraft, NothingSent, worldVars
  <2> QED
    BY <2>1, QuietDispatchInv
<1>2. ASSUME NEW d \in Approvers, Approve(d) \/ Dispatch(d) \/ AbortApprover(d)
      PROVE  DispatchInv'
  BY <1>2, ApproveDispatchInv, DispatchDispatchInv
<1>3. ASSUME NEW j \in Rejecters, Reject(j) \/ AbortRejecter(j)
      PROVE  DispatchInv'
  <2>1. UNCHANGED approver /\ NothingSent
    BY <1>3 DEF Reject, AbortRejecter, RejectRead, RejectMark, RejectLog, NothingSent, worldVars
  <2> QED
    BY <2>1, QuietDispatchInv
<1>4. ASSUME NEW p \in Posts, RunWorkflow(p)
      PROVE  DispatchInv'
  <2>1. UNCHANGED approver
    BY <1>4 DEF RunWorkflow, WorkflowCall, WorkflowError, WorkflowRefuse, WorkflowAcknowledge, handlerVars
  <2> QED
    BY <1>4, <2>1, WorkflowSendsNothing, QuietDispatchInv
<1>5. ASSUME NEW c \in Callbacks, ProcessCallback(c) \/ AbortCallback(c)
      PROVE  DispatchInv'
  <2>1. UNCHANGED approver
    BY <1>5 DEF ProcessCallback, AbortCallback, CallbackRead, CallbackLog, CallbackSettle,
       CallbackLostRace, CallbackReread, CallbackLogSettled
  <2> QED
    BY <1>5, <2>1, CallbackSendsNothing, QuietDispatchInv
<1>6. CASE UNCHANGED vars
  <2>1. UNCHANGED approver /\ NothingSent
    BY <1>6 DEF vars, handlerVars, worldVars, NothingSent
  <2> QED
    BY <2>1, QuietDispatchInv
<1> QED
  BY <1>1, <1>2, <1>3, <1>4, <1>5, <1>6 DEF Next, Abort

LEMMA DispatchInvariant == Spec => []DispatchInv
<1>1. Init => DispatchInv
  BY DEF Init, DispatchInv, IdleApprover, Dispatching
<1> QED
  BY <1>1, NextDispatchInv, TypeCorrect, ApprovalInvariant, PTL DEF Spec

-----------------------------------------------------------------------------
\* Each approval is dispatched by at most one approve call, and a claimable row
\* holds an approval that was never dispatched.
THEOREM OneDispatch == Spec => []OneDispatchPerApproval
<1>1. ApprovalInv /\ DispatchInv => OneDispatchPerApproval
  BY DEF ApprovalInv, DispatchInv, OneDispatchPerApproval
<1> QED
  BY <1>1, ApprovalInvariant, DispatchInvariant, PTL

\* No request leaves for n8n without an operator's approval.
THEOREM EffectsApproved == Spec => []NoEffectWithoutApproval
<1>1. ApprovalInv /\ DispatchInv /\ RowConsistency /\ TypeOK => NoEffectWithoutApproval
  <2> SUFFICES ASSUME ApprovalInv, DispatchInv, RowConsistency, TypeOK,
                      NEW p \in Posts, workflow[p].work # "none"
               PROVE  /\ p[1] \in started
                      /\ row.approvedAt = "set"
                      /\ row.status \notin {"absent", "pending", "rejected"}
    BY DEF NoEffectWithoutApproval
  <2>1. p[1] \in started
    BY DEF DispatchInv
  <2>2. row.status \notin {"absent", "pending", "rejected"}
    <3>1. p[1] \in Nat /\ 1 <= p[1] /\ p[1] <= round
      BY <2>1 DEF ApprovalInv, TypeOK
    <3>2. round # 0
      BY <3>1
    <3> QED
      BY <3>2 DEF ApprovalInv
  <2>3. row.status \in {"approved", "executing", "completed", "failed"}
    BY <2>2 DEF TypeOK, Row, StoredStatuses, Statuses
  <2> QED
    BY <2>1, <2>2, <2>3 DEF RowConsistency
<1> QED
  BY <1>1, ApprovalInvariant, DispatchInvariant, RowConsistent, TypeCorrect, PTL

\* No request leaves for n8n before its EXECUTION_STARTED event is stored.
THEOREM DispatchesAudited == Spec => []NoUnauditedDispatch
<1>1. DispatchInv => NoUnauditedDispatch
  BY DEF DispatchInv, NoUnauditedDispatch
<1> QED
  BY <1>1, DispatchInvariant, PTL

-----------------------------------------------------------------------------
\* Whoever reports or holds "completed" goes back to a workflow that called the
\* provider.
EffectInv ==
    /\ \A p \in Posts : workflow[p].sent = "completed" => effected
    /\ \A c \in Callbacks : callback[c].status = "completed" => effected
    /\ CompletedMeansEffected

LEMMA AnswerKeepsSent ==
    ASSUME TypeOK, NEW p, NEW a, AnswerWorkflow(p, a)
    PROVE  \A q \in Posts : workflow'[q].sent = workflow[q].sent
BY DEF AnswerWorkflow, TypeOK, Workflow

\* The three ways a step can matter: none of the three carriers gets a new
\* "completed", a workflow calls, or a callback settles.
LEMMA FrameEffectInv ==
    ASSUME EffectInv, effected => effected',
           \A p \in Posts : workflow'[p].sent = "completed" => workflow[p].sent = "completed" \/ effected',
           \A c \in Callbacks : callback'[c].status = "completed" => callback[c].status = "completed" \/ effected',
           row'.status = "completed" => row.status = "completed" \/ effected'
    PROVE  EffectInv'
BY DEF EffectInv, CompletedMeansEffected

LEMMA CallbackEffectInv ==
    ASSUME TypeOK, EffectInv, NEW c \in Callbacks,
           ProcessCallback(c) \/ (AbortCallback(c) /\ UNCHANGED <<storeVars, effected>>)
    PROVE  EffectInv'
<1> USE FrameEffectInv
<1>a. callback \in [Callbacks -> Callback]
  BY DEF TypeOK
<1>1. ASSUME NEW p \in Posts, CallbackRead(c, p)
      PROVE  EffectInv'
  <2>1. /\ callback'[c].status = workflow[p].sent
        /\ \A e \in Callbacks : e # c => callback'[e] = callback[e]
    BY <1>1, <1>a DEF CallbackRead
  <2>2. UNCHANGED <<row, workflow, effected>>
    BY <1>1 DEF CallbackRead, storeVars
  <2> QED
    BY <2>1, <2>2 DEF EffectInv
<1>2. ASSUME NEW a \in BOOLEAN, EndCallback(c, a), UNCHANGED <<row, effected>>
      PROVE  EffectInv'
  <2>1. \A q \in Posts : workflow'[q].sent = workflow[q].sent
    BY <1>2, AnswerKeepsSent DEF EndCallback
  <2>2. \A e \in Callbacks : callback'[e].status = "completed" => callback[e].status = "completed"
    BY <1>2, <1>a DEF EndCallback, IdleCallback
  <2> QED
    BY <1>2, <2>1, <2>2
<1>3. CASE CallbackLog(c)
  <2>1. CASE callback[c].seen = "executing"
    <3>1. UNCHANGED <<row, workflow, effected>> /\ callback' = [callback EXCEPT ![c].pc = "settle"]
      BY <1>3, <2>1 DEF CallbackLog
    <3>2. \A e \in Callbacks : callback'[e].status = callback[e].status
      BY <3>1, <1>a DEF Callback
    <3> QED
      BY <3>1, <3>2
  <2>2. CASE callback[c].seen # "executing"
    BY <1>3, <2>2, <1>2 DEF CallbackLog
  <2> QED
    BY <2>1, <2>2
<1>4. CASE CallbackSettle(c)
  <2>1. callback' = [callback EXCEPT ![c].pc = "log_settled", ![c].round = round] /\ UNCHANGED <<workflow, effected>>
    BY <1>4 DEF CallbackSettle, worldVars
  <2>2. \A e \in Callbacks : callback'[e].status = callback[e].status
    BY <2>1, <1>a DEF Callback
  <2>3. row'.status = "completed" => callback[c].status = "completed"
    BY <1>4 DEF CallbackSettle, Settle, MarkFailed, TypeOK, Row
  <2> QED
    BY <2>1, <2>2, <2>3 DEF EffectInv
<1>5. CASE CallbackLostRace(c)
  <2>1. UNCHANGED <<row, workflow, effected>> /\ callback' = [callback EXCEPT ![c].pc = "reread"]
    BY <1>5 DEF CallbackLostRace, storeVars, worldVars
  <2>2. \A e \in Callbacks : callback'[e].status = callback[e].status
    BY <2>1, <1>a DEF Callback
  <2> QED
    BY <2>1, <2>2
<1>6. CASE CallbackReread(c) \/ CallbackLogSettled(c)
  BY <1>6, <1>2 DEF CallbackReread, CallbackLogSettled, storeVars
<1>7. CASE AbortCallback(c) /\ UNCHANGED <<storeVars, effected>>
  BY <1>7, <1>2 DEF AbortCallback, storeVars
<1> QED
  BY <1>1, <1>3, <1>4, <1>5, <1>6, <1>7 DEF ProcessCallback

\* Outside process_callback nothing completes the row.
LEMMA OnlyCallbacksComplete ==
    ASSUME TypeOK, NEW d \in Approvers, Approve(d) \/ Dispatch(d)
    PROVE  /\ row'.status = "completed" => row.status = "completed"
           /\ \A p \in Posts : workflow'[p].sent = workflow[p].sent
           /\ UNCHANGED <<callback, effected>>
<1>1. row'.status = "completed" => row.status = "completed"
  BY DEF Approve, ApproveRead, ApproveGrant, ApproveLostRace, ApproveLog,
     Dispatch, DispatchClaim, DispatchLostRace, DispatchLog, DispatchPost, SendPost,
     DispatchRetry, DispatchAnswered, DispatchReference, DispatchFail, DispatchLogFailure,
     MarkApproved, MarkRetryApproved, MarkExecuting, SetExternalReference, MarkFailed,
     TypeOK, Row, storeVars
<1>2. \A p \in Posts : workflow'[p].sent = workflow[p].sent
  <2>1. CASE Approve(d)
    BY <2>1 DEF Approve, ApproveRead, ApproveGrant, ApproveLostRace, ApproveLog, worldVars
  <2>2. CASE DispatchClaim(d) \/ DispatchLostRace(d) \/ DispatchLog(d)
    BY <2>2 DEF DispatchClaim, DispatchLostRace, DispatchLog, worldVars
  <2>3. CASE DispatchReference(d) \/ DispatchFail(d) \/ DispatchLogFailure(d)
    BY <2>3 DEF DispatchReference, DispatchFail, DispatchLogFailure, worldVars
  <2>4. ASSUME NEW k \in {1, 2}, SendPost(d, k)
        PROVE  \A p \in Posts : workflow'[p].sent = workflow[p].sent
    BY <2>4 DEF SendPost, TypeOK, Workflow
  <2>5. CASE DispatchAnswered(d)
    BY <2>5 DEF DispatchAnswered, TypeOK, Workflow
  <2>6. DispatchPost(d) \/ DispatchRetry(d) => \E k \in {1, 2} : SendPost(d, k)
    BY DEF DispatchPost, DispatchRetry
  <2> QED
    BY <2>1, <2>2, <2>3, <2>4, <2>5, <2>6 DEF Dispatch
<1>3. UNCHANGED <<callback, effected>>
  BY DEF Approve, ApproveRead, ApproveGrant, ApproveLostRace, ApproveLog,
     Dispatch, DispatchClaim, DispatchLostRace, DispatchLog, DispatchPost, SendPost,
     DispatchRetry, DispatchAnswered, DispatchReference, DispatchFail, DispatchLogFailure,
     worldVars
<1> QED
  BY <1>1, <1>2, <1>3

LEMMA NextEffectInv == TypeOK /\ EffectInv /\ [Next]_vars => EffectInv'
<1> SUFFICES ASSUME TypeOK, EffectInv, [Next]_vars PROVE EffectInv'
  OBVIOUS
<1>1. ASSUME NEW r \in Requesters, Request(r)
      PROVE  EffectInv'
  <2>1. UNCHANGED <<callback, workflow, effected>>
    BY <1>1 DEF Request, RequestCreate, RequestLog, RequestLogDraft, worldVars
  <2>2. row'.status = "completed" => row.status = "completed"
    BY <1>1 DEF Request, RequestCreate, CreateRow, AbsentRow, RequestLog, RequestLogDraft
  <2> QED
    BY <2>1, <2>2, FrameEffectInv
<1>2. ASSUME NEW d \in Approvers, Approve(d) \/ Dispatch(d)
      PROVE  EffectInv'
  BY <1>2, OnlyCallbacksComplete, FrameEffectInv
<1>3. ASSUME NEW j \in Rejecters, Reject(j)
      PROVE  EffectInv'
  <2>1. UNCHANGED <<callback, workflow, effected>>
    BY <1>3 DEF Reject, RejectRead, RejectMark, RejectLog, worldVars
  <2>2. row'.status = "completed" => row.status = "completed"
    BY <1>3 DEF Reject, RejectRead, RejectMark, RejectLog, MarkRejected, storeVars, TypeOK, Row
  <2> QED
    BY <2>1, <2>2, FrameEffectInv
<1>4. ASSUME NEW p \in Posts, RunWorkflow(p)
      PROVE  EffectInv'
  <2>1. UNCHANGED <<row, callback>> /\ (effected => effected')
    BY <1>4 DEF RunWorkflow, WorkflowCall, WorkflowError, WorkflowRefuse, WorkflowAcknowledge,
         storeVars, handlerVars, TypeOK
  <2>2. \A q \in Posts : workflow'[q].sent = "completed" => workflow[q].sent = "completed" \/ effected'
    <3>1. CASE WorkflowCall(p)
      BY <3>1 DEF WorkflowCall, TypeOK, Workflow
    <3>2. CASE WorkflowError(p)
      BY <3>2 DEF WorkflowError, TypeOK, Workflow
    <3>3. CASE WorkflowRefuse(p)
      BY <3>3 DEF WorkflowRefuse, TypeOK, Workflow
    <3>4. CASE WorkflowAcknowledge(p)
      BY <3>4 DEF WorkflowAcknowledge, TypeOK, Workflow
    <3> QED
      BY <1>4, <3>1, <3>2, <3>3, <3>4 DEF RunWorkflow
  <2> QED
    BY <2>1, <2>2, FrameEffectInv
<1>5. ASSUME NEW c \in Callbacks, ProcessCallback(c) \/ (Abort /\ AbortCallback(c))
      PROVE  EffectInv'
  BY <1>5, CallbackEffectInv DEF Abort
<1>6. CASE Abort /\ UNCHANGED <<callback, workflow>>
  BY <1>6, FrameEffectInv DEF Abort, storeVars
<1>7. CASE UNCHANGED vars
  BY <1>7, FrameEffectInv DEF vars, storeVars, handlerVars, worldVars
<1> QED
  BY <1>1, <1>2, <1>3, <1>4, <1>5, <1>6, <1>7
     DEF Next, Abort, AbortRequester, AbortApprover, AbortRejecter

\* An action is completed only if the provider was called for it.
THEOREM CompletionsEffected == Spec => []CompletedMeansEffected
<1>1. Init => EffectInv
  BY DEF Init, StoreInit, AbsentRow, IdleCallback, EffectInv, CompletedMeansEffected
<1>2. EffectInv => CompletedMeansEffected
  BY DEF EffectInv
<1> QED
  BY <1>1, <1>2, NextEffectInv, TypeCorrect, PTL DEF Spec

-----------------------------------------------------------------------------
(* The audit trail never runs ahead of the row.  The strengthening: whoever *)
(* is about to insert an event already knows that it is true (the Ready     *)
(* predicates), and no update of the row makes a true event false.          *)

Ev(e, n) == [type |-> e, round |-> n]

RequesterReady(r) ==
    /\ requester[r].pc = "log_requested"
        => EventTrue(Ev("action_requested", 0)) /\ row.type = requester[r].type
    /\ requester[r].pc = "log_draft" => EventTrue(Ev("email_draft_created", 0))

ApproverReady(d) ==
    /\ approver[d].pc = "log_granted" => EventTrue(Ev("approval_granted", approver[d].round))
    /\ approver[d].pc = "log_started" => EventTrue(Ev("execution_started", approver[d].round))
    /\ approver[d].pc = "log_failed" => EventTrue(Ev("execution_failed", approver[d].round))

RejecterReady(j) == rejecter[j] = "log_rejected" => EventTrue(Ev("action_rejected", 0))

CallbackReady(c) ==
    callback[c].pc = "log_settled"
    => EventTrue(Ev(IF callback[c].status = "completed"
                      THEN "execution_completed" ELSE "execution_failed",
                    callback[c].round))

AuditInv ==
    /\ AuditTruthful
    /\ \A r \in Requesters : RequesterReady(r)
    /\ \A d \in Approvers : ApproverReady(d)
    /\ \A j \in Rejecters : RejecterReady(j)
    /\ \A c \in Callbacks : CallbackReady(c)

-----------------------------------------------------------------------------
(* True events stay true                                                    *)

\* What a step may do to the row, as far as events tell.
Onward ==
    /\ row.status # "absent" => row'.status # "absent" /\ row'.type = row.type
    /\ row.status = "rejected" => row'.status = "rejected"
    /\ row.status = "completed" => row'.status = "completed" /\ round' = round
    /\ row.status = "failed" => row'.status = "failed" \/ round < round'
    /\ round <= round'
    /\ started \subseteq started'

LEMMA RowStepOnward ==
    ASSUME TypeOK, RowStep
    PROVE  Onward
<1>a. row \in Row /\ round \in Nat
  BY DEF TypeOK
<1> USE DEF Onward
<1>1. CASE UNCHANGED rowVars
  BY <1>1, <1>a DEF rowVars
<1>2. ASSUME NEW t \in Types, CreateRow(t)
      PROVE  Onward
  BY <1>2, <1>a DEF CreateRow
<1>3. CASE MarkApproved \/ MarkRetryApproved
  <2>1. /\ row.status \in {"pending", "failed"} /\ row'.type = row.type
        /\ row'.status = "approved" /\ round' = round + 1 /\ started' = started
    BY <1>3, <1>a DEF MarkApproved, MarkRetryApproved, Row
  <2>2. round < round + 1 /\ round <= round + 1
    BY <1>a
  <2> QED
    BY <2>1, <2>2
<1>4. CASE MarkRejected \/ SetExternalReference \/ MarkCompleted
  <2>1. /\ row.status \in {"pending", "executing"} /\ row'.type = row.type
        /\ row'.status \in {"rejected", "executing", "completed"}
        /\ round' = round /\ started' = started
    BY <1>4, <1>a DEF MarkRejected, SetExternalReference, MarkCompleted, Row
  <2> QED
    BY <2>1, <1>a
<1>5. CASE MarkExecuting
  <2>1. /\ row.status = "approved" /\ row'.status = "executing" /\ row'.type = row.type
        /\ round' = round /\ started \subseteq started'
    BY <1>5, <1>a DEF MarkExecuting, Row
  <2> QED
    BY <2>1, <1>a
<1>6. CASE MarkFailed("dispatch") \/ MarkFailed("callback")
  <2>1. /\ row.status \in {"approved", "executing"} /\ row'.status = "failed"
        /\ row'.type = row.type /\ round' = round /\ started' = started
    BY <1>6, <1>a DEF MarkFailed, Row
  <2> QED
    BY <2>1, <1>a
<1> QED
  BY <1>1, <1>2, <1>3, <1>4, <1>5, <1>6 DEF RowStep

LEMMA EventStable ==
    ASSUME TypeOK, RowStep, NEW e \in Event, EventTrue(e)
    PROVE  EventTrue(e)'
<1>1. Onward /\ round' \in Nat /\ round \in Nat /\ e.round \in Nat
  <2>1. round' \in Nat
    BY UpdateType DEF TypeOK, RowStep, rowVars, CreateRow
  <2> QED
    BY <2>1, RowStepOnward DEF TypeOK, Event
<1>2. (e.type \in {"action_requested", "email_draft_created"} => row.status # "absent")'
  BY <1>1 DEF EventTrue, Onward
<1>3. (e.type = "email_draft_created" => row.type = EmailType)'
  BY <1>1 DEF EventTrue, Onward
<1>4. (e.type = "action_rejected" => row.status = "rejected")'
  BY <1>1 DEF EventTrue, Onward
<1>5. (e.type = "approval_granted" => e.round \in 1 .. round)'
  BY <1>1 DEF EventTrue, Onward
<1>6. (e.type = "execution_started" => e.round \in started)'
  BY <1>1 DEF EventTrue, Onward
<1>7. (e.type = "execution_completed" => row.status = "completed" /\ e.round = round)'
  BY <1>1 DEF EventTrue, Onward
<1>8. (e.type = "execution_failed" =>
          e.round < round \/ (e.round = round /\ row.status = "failed"))'
  BY <1>1 DEF EventTrue, Onward
<1> QED
  BY <1>2, <1>3, <1>4, <1>5, <1>6, <1>7, <1>8 DEF EventTrue

LEMMA EvStable ==
    ASSUME TypeOK, RowStep, NEW x \in EventTypes, NEW n \in Nat, EventTrue(Ev(x, n))
    PROVE  EventTrue(Ev(x, n))'
<1>1. Ev(x, n) \in Event
  BY DEF Ev, Event
<1> QED
  BY <1>1, EventStable DEF Ev

\* So a handler that does not move stays ready,
LEMMA ReadyStable ==
    ASSUME TypeOK, AuditInv, RowStep
    PROVE  /\ \A r \in Requesters : requester'[r] = requester[r] => RequesterReady(r)'
           /\ \A d \in Approvers : approver'[d] = approver[d] => ApproverReady(d)'
           /\ \A j \in Rejecters : rejecter'[j] = rejecter[j] => RejecterReady(j)'
           /\ \A c \in Callbacks : callback'[c] = callback[c] => CallbackReady(c)'
<1>1. ASSUME NEW r \in Requesters, requester'[r] = requester[r]
      PROVE  RequesterReady(r)'
  <2>1. CASE requester[r].pc = "log_requested"
    <3>1. EventTrue(Ev("action_requested", 0)) /\ row.type = requester[r].type
      BY <2>1 DEF AuditInv, RequesterReady
    <3>2. EventTrue(Ev("action_requested", 0))'
      BY <3>1, EvStable DEF EventTypes
    <3>3. row'.type = row.type
      BY <3>1, RowStepOnward DEF EventTrue, Ev, Onward
    <3> QED
      BY <1>1, <2>1, <3>1, <3>2, <3>3 DEF RequesterReady
  <2>2. CASE requester[r].pc = "log_draft"
    <3>1. EventTrue(Ev("email_draft_created", 0))'
      BY <2>2, EvStable DEF EventTypes, AuditInv, RequesterReady
    <3> QED
      BY <1>1, <2>2, <3>1 DEF RequesterReady
  <2> QED
    BY <1>1, <2>1, <2>2 DEF RequesterReady
<1>2. ASSUME NEW d \in Approvers, approver'[d] = approver[d]
      PROVE  ApproverReady(d)'
  <2>1. approver[d].round \in Nat
    BY DEF TypeOK, Approver
  <2> QED
    BY <1>2, <2>1, EvStable DEF ApproverReady, AuditInv, EventTypes
<1>3. ASSUME NEW j \in Rejecters, rejecter'[j] = rejecter[j]
      PROVE  RejecterReady(j)'
  BY <1>3, EvStable DEF RejecterReady, AuditInv, EventTypes
<1>4. ASSUME NEW c \in Callbacks, callback'[c] = callback[c]
      PROVE  CallbackReady(c)'
  <2>1. callback[c].round \in Nat
    BY DEF TypeOK, Callback
  <2> QED
    BY <1>4, <2>1, EvStable DEF CallbackReady, AuditInv, EventTypes
<1> QED
  BY <1>1, <1>2, <1>3, <1>4

\* and the trail stays truthful when a true event joins it.
LEMMA AuditStable ==
    ASSUME TypeOK, AuditTruthful, RowStep,
           \/ audit' = audit
           \/ \E x \in EventTypes, n \in Nat : CreateEvent(x, n) /\ EventTrue(Ev(x, n))
    PROVE  AuditTruthful'
<1>1. \A e \in audit : EventTrue(e)'
  BY EventStable DEF TypeOK, AuditTruthful
<1>2. ASSUME NEW x \in EventTypes, NEW n \in Nat, CreateEvent(x, n), EventTrue(Ev(x, n))
      PROVE  AuditTruthful'
  <2>1. audit' = audit \union {Ev(x, n)}
    BY <1>2 DEF CreateEvent, Ev
  <2>2. EventTrue(Ev(x, n))'
    BY <1>2, EvStable
  <2> QED
    BY <1>1, <2>1, <2>2 DEF AuditTruthful
<1> QED
  BY <1>1, <1>2 DEF AuditTruthful

-----------------------------------------------------------------------------
(* The handlers                                                             *)

LEMMA RequestAuditInv ==
    ASSUME TypeOK, AuditInv, RowStep, NEW r \in Requesters, Request(r)
    PROVE  AuditInv'
<1> USE DEF CreateEvent
<1>a. requester \in [Requesters -> Requester]
  BY DEF TypeOK
<1>1. /\ \A d \in Approvers : ApproverReady(d)'
      /\ \A j \in Rejecters : RejecterReady(j)'
      /\ \A c \in Callbacks : CallbackReady(c)'
      /\ \A q \in Requesters : q # r => RequesterReady(q)'
  BY <1>a, ReadyStable DEF Request, RequestCreate, RequestLog, RequestLogDraft
<1>2. ASSUME NEW t \in Types, RequestCreate(r, t)
      PROVE  RequesterReady(r)' /\ AuditTruthful'
  <2>1. row'.status = "pending" /\ row'.type = t /\ requester'[r] = [pc |-> "log_requested", type |-> t]
    BY <1>2, <1>a DEF RequestCreate, CreateRow, AbsentRow
  <2>2. RequesterReady(r)'
    BY <2>1 DEF RequesterReady, EventTrue, Ev
  <2> QED
    BY <1>2, <2>2, AuditStable DEF RequestCreate, AuditInv
<1>3. CASE RequestLog(r)
  <2>1. EventTrue(Ev("action_requested", 0)) /\ row.type = requester[r].type
    BY <1>3 DEF RequestLog, AuditInv, RequesterReady
  <2>2. AuditTruthful'
    BY <1>3, <2>1, AuditStable DEF RequestLog, AuditInv, EventTypes
  <2>3. RequesterReady(r)'
    BY <1>3, <1>a, <2>1 DEF RequestLog, IdleRequester, RequesterReady, EventTrue, Ev, Requester
  <2> QED
    BY <1>1, <2>2, <2>3 DEF AuditInv
<1>4. CASE RequestLogDraft(r)
  <2>1. EventTrue(Ev("email_draft_created", 0))
    BY <1>4 DEF RequestLogDraft, AuditInv, RequesterReady
  <2>2. AuditTruthful'
    BY <1>4, <2>1, AuditStable DEF RequestLogDraft, AuditInv, EventTypes
  <2>3. RequesterReady(r)'
    BY <1>4, <1>a DEF RequestLogDraft, IdleRequester, RequesterReady
  <2> QED
    BY <1>1, <2>2, <2>3 DEF AuditInv
<1> QED
  BY <1>1, <1>2, <1>3, <1>4 DEF Request, AuditInv

LEMMA ApproverAuditInv ==
    ASSUME TypeOK, AuditInv, RowStep, NEW d \in Approvers,
           Approve(d) \/ Dispatch(d)
    PROVE  AuditInv'
<1> USE DEF ToApprover, EndApprover, IdleApprover
<1>a. /\ approver \in [Approvers -> Approver]
      /\ approver[d].round \in Nat
      /\ round \in Nat
  BY DEF TypeOK, Approver
<1>1. /\ \A r \in Requesters : RequesterReady(r)'
      /\ \A j \in Rejecters : RejecterReady(j)'
      /\ \A c \in Callbacks : CallbackReady(c)'
  BY ReadyStable DEF Approve, ApproveRead, ApproveGrant, ApproveLostRace, ApproveLog,
     Dispatch, DispatchClaim, DispatchLostRace, DispatchLog, DispatchPost, SendPost,
     DispatchRetry, DispatchAnswered, DispatchReference, DispatchFail, DispatchLogFailure
<1>2. \A e \in Approvers : e # d => ApproverReady(e)'
  <2>1. \A e \in Approvers : e # d => approver'[e] = approver[e]
    BY <1>a DEF Approve, ApproveRead, ApproveGrant, ApproveLostRace, ApproveLog,
       Dispatch, DispatchClaim, DispatchLostRace, DispatchLog, DispatchPost, SendPost,
       DispatchRetry, DispatchAnswered, DispatchReference, DispatchFail, DispatchLogFailure
  <2> QED
    BY <2>1, ReadyStable
<1>3. AuditTruthful'
  <2>1. CASE ApproveLog(d)
    BY <2>1, <1>a, AuditStable DEF ApproveLog, AuditInv, ApproverReady, EventTypes
  <2>2. CASE DispatchLog(d)
    BY <2>2, <1>a, AuditStable DEF DispatchLog, AuditInv, ApproverReady, EventTypes
  <2>3. CASE DispatchLogFailure(d)
    BY <2>3, <1>a, AuditStable DEF DispatchLogFailure, AuditInv, ApproverReady, EventTypes
  <2>4. CASE audit' = audit
    BY <2>4, AuditStable DEF AuditInv
  <2> QED
    BY <2>1, <2>2, <2>3, <2>4 DEF Approve, ApproveRead, ApproveGrant, ApproveLostRace,
       Dispatch, DispatchClaim, DispatchLostRace, DispatchPost, SendPost,
       DispatchRetry, DispatchAnswered, DispatchReference, DispatchFail, storeVars
<1>4. ApproverReady(d)'
  <2>1. CASE ApproveGrant(d)
    <3>1. approver'[d] = [pc |-> "log_granted", round |-> round', attempt |-> 0] /\ round' = round + 1
      BY <2>1, <1>a DEF ApproveGrant, MarkApproved, MarkRetryApproved
    <3>2. round' \in 1 .. round'
      BY <3>1, <1>a
    <3> QED
      BY <3>1, <3>2 DEF ApproverReady, EventTrue, Ev
  <2>2. CASE DispatchClaim(d)
    <3>1. approver'[d] = [pc |-> "log_started", round |-> round, attempt |-> 0] /\ round \in started'
      BY <2>2, <1>a DEF DispatchClaim, MarkExecuting
    <3> QED
      BY <3>1 DEF ApproverReady, EventTrue, Ev
  <2>3. CASE DispatchFail(d)
    <3>1. CASE MarkFailed("dispatch") /\ ToApprover(d, "log_failed", round, 0)
      <4>1. /\ approver'[d] = [pc |-> "log_failed", round |-> round, attempt |-> 0]
            /\ row'.status = "failed" /\ round' = round
        BY <3>1, <1>a DEF MarkFailed, TypeOK, Row
      <4> QED
        BY <4>1 DEF ApproverReady, EventTrue, Ev
    <3>2. CASE EndApprover(d)
      BY <3>2, <1>a DEF ApproverReady
    <3> QED
      BY <2>3, <3>1, <3>2 DEF DispatchFail
  <2>4. CASE approver'[d].pc \notin {"log_granted", "log_started", "log_failed"}
    BY <2>4 DEF ApproverReady
  <2> QED
    BY <1>a, <2>1, <2>2, <2>3, <2>4 DEF Approve, ApproveRead, ApproveLostRace, ApproveLog,
       Dispatch, DispatchLostRace, DispatchLog, DispatchPost, SendPost,
       DispatchRetry, DispatchAnswered, DispatchReference, DispatchLogFailure
<1> QED
  BY <1>1, <1>2, <1>3, <1>4 DEF AuditInv

LEMMA RejectAuditInv ==
    ASSUME TypeOK, AuditInv, RowStep, NEW j \in Rejecters, Reject(j)
    PROVE  AuditInv'
<1>a. rejecter \in [Rejecters -> {"idle", "reject", "log_rejected"}]
  BY DEF TypeOK
<1>1. /\ \A r \in Requesters : RequesterReady(r)'
      /\ \A d \in Approvers : ApproverReady(d)'
      /\ \A c \in Callbacks : CallbackReady(c)'
      /\ \A i \in Rejecters : i # j => RejecterReady(i)'
  BY <1>a, ReadyStable DEF Reject, RejectRead, RejectMark, RejectLog
<1>2. AuditTruthful'
  BY AuditStable DEF Reject, RejectRead, RejectMark, RejectLog, storeVars, AuditInv,
     RejecterReady, EventTypes
<1>3. RejecterReady(j)'
  BY <1>a DEF Reject, RejectRead, RejectMark, RejectLog, MarkRejected, RejecterReady, EventTrue, Ev,
     TypeOK, Row
<1> QED
  BY <1>1, <1>2, <1>3 DEF AuditInv

LEMMA CallbackAuditInv ==
    ASSUME TypeOK, AuditInv, RowStep, NEW c \in Callbacks, ProcessCallback(c)
    PROVE  AuditInv'
<1> USE DEF EndCallback, IdleCallback
<1>a. callback \in [Callbacks -> Callback] /\ round \in Nat
  BY DEF TypeOK
<1>1. /\ \A r \in Requesters : RequesterReady(r)'
      /\ \A d \in Approvers : ApproverReady(d)'
      /\ \A j \in Rejecters : RejecterReady(j)'
      /\ \A e \in Callbacks : e # c => CallbackReady(e)'
  BY <1>a, ReadyStable DEF ProcessCallback, CallbackRead, CallbackLog, CallbackSettle,
     CallbackLostRace, CallbackReread, CallbackLogSettled
<1>2. AuditTruthful'
  <2>1. CASE CallbackLog(c)
    <3>1. callback[c].post[1] \in Nat
      BY <1>a DEF Callback, Posts
    <3>2. EventTrue(Ev("callback_received", callback[c].post[1]))
      BY DEF EventTrue, Ev
    <3> QED
      BY <2>1, <3>1, <3>2, AuditStable DEF CallbackLog, AuditInv, EventTypes
  <2>2. CASE CallbackLogSettled(c)
    <3>1. callback[c].round \in Nat
      BY <1>a DEF Callback
    <3> QED
      BY <2>2, <3>1, AuditStable DEF CallbackLogSettled, AuditInv, CallbackReady, EventTypes
  <2> QED
    BY <2>1, <2>2, AuditStable DEF ProcessCallback, CallbackRead, CallbackSettle,
       CallbackLostRace, CallbackReread, storeVars, AuditInv
<1>3. CallbackReady(c)'
  <2>1. CASE CallbackSettle(c)
    <3>1. [callback[c] EXCEPT !.pc = "log_settled", !.round = round] = callback'[c]
      BY <2>1, <1>a DEF CallbackSettle
    <3>2. callback'[c].round = round /\ callback'[c].status = callback[c].status /\ round' = round
      BY <2>1, <3>1, <1>a DEF CallbackSettle, Settle, MarkCompleted, MarkFailed, Callback
    <3>3. row'.status = IF callback[c].status = "completed" THEN "completed" ELSE "failed"
      BY <2>1 DEF CallbackSettle, Settle, MarkCompleted, MarkFailed, TypeOK, Row
    <3>4. CASE callback[c].status = "completed"
      BY <3>2, <3>3, <3>4 DEF CallbackReady, EventTrue, Ev
    <3>5. CASE callback[c].status # "completed"
      BY <3>2, <3>3, <3>5 DEF CallbackReady, EventTrue, Ev
    <3> QED
      BY <3>4, <3>5
  <2>2. CASE callback'[c].pc # "log_settled"
    BY <2>2 DEF CallbackReady
  <2>3. ASSUME NEW p \in Posts, CallbackRead(c, p)
        PROVE  callback'[c].pc # "log_settled"
    BY <1>a, <2>3 DEF CallbackRead
  <2>4. ASSUME NEW pc \in {"settle", "reread"}, callback' = [callback EXCEPT ![c].pc = pc]
        PROVE  callback'[c].pc # "log_settled"
    BY <1>a, <2>4 DEF Callback
  <2>5. ASSUME callback' = [callback EXCEPT ![c] = IdleCallback]
        PROVE  callback'[c].pc # "log_settled"
    BY <1>a, <2>5
  <2> QED
    BY <2>1, <2>2, <2>3, <2>4, <2>5 DEF ProcessCallback, CallbackLog,
       CallbackLostRace, CallbackReread, CallbackLogSettled
<1> QED
  BY <1>1, <1>2, <1>3 DEF AuditInv

LEMMA NextAuditInv == TypeOK /\ AuditInv /\ [Next]_vars => AuditInv'
<1> SUFFICES ASSUME TypeOK, AuditInv, [Next]_vars PROVE AuditInv'
  OBVIOUS
<1>a. RowStep
  BY NextRowStep
<1>1. ASSUME UNCHANGED <<audit, requester, approver, rejecter, callback>>
      PROVE  AuditInv'
  BY <1>1, <1>a, AuditStable, ReadyStable DEF AuditInv
<1>2. ASSUME NEW p \in Posts, RunWorkflow(p)
      PROVE  AuditInv'
  BY <1>2, <1>1 DEF RunWorkflow, WorkflowCall, WorkflowError, WorkflowRefuse,
     WorkflowAcknowledge, storeVars, handlerVars
<1>3. CASE UNCHANGED vars
  BY <1>1, <1>3 DEF vars, storeVars, handlerVars
<1>4. CASE Abort
  <2>1. AuditTruthful'
    BY <1>4, <1>a, AuditStable DEF Abort, storeVars, AuditInv
  <2>2. \A r \in Requesters : RequesterReady(r)'
    <3>1. \A r \in Requesters : requester'[r] = requester[r] \/ requester'[r].pc = "idle"
      <4>1. \/ requester' = requester
            \/ \E q \in Requesters : requester' = [requester EXCEPT ![q] = IdleRequester]
        BY <1>4 DEF Abort, AbortRequester, AbortApprover, AbortRejecter, AbortCallback
      <4> QED
        BY <4>1 DEF IdleRequester, TypeOK
    <3> QED
      BY <1>a, <3>1, ReadyStable DEF RequesterReady
  <2>3. \A d \in Approvers : ApproverReady(d)'
    <3>1. \A d \in Approvers : approver'[d] = approver[d] \/ approver'[d].pc = "idle"
      <4>1. \/ approver' = approver
            \/ \E e \in Approvers : approver' = [approver EXCEPT ![e] = IdleApprover]
        BY <1>4 DEF Abort, AbortRequester, AbortApprover, EndApprover, AbortRejecter, AbortCallback
      <4> QED
        BY <4>1 DEF IdleApprover, TypeOK
    <3> QED
      BY <1>a, <3>1, ReadyStable DEF ApproverReady
  <2>4. \A j \in Rejecters : RejecterReady(j)'
    <3>1. \A j \in Rejecters : rejecter'[j] = rejecter[j] \/ rejecter'[j] = "idle"
      BY <1>4 DEF Abort, AbortRequester, AbortApprover, AbortRejecter, AbortCallback, TypeOK
    <3> QED
      BY <1>a, <3>1, ReadyStable DEF RejecterReady
  <2>5. \A c \in Callbacks : CallbackReady(c)'
    <3>1. \A c \in Callbacks : callback'[c] = callback[c] \/ callback'[c].pc = "idle"
      <4>1. \/ callback' = callback
            \/ \E e \in Callbacks : callback' = [callback EXCEPT ![e] = IdleCallback]
        BY <1>4 DEF Abort, AbortRequester, AbortApprover, AbortRejecter, AbortCallback, EndCallback
      <4> QED
        BY <4>1 DEF IdleCallback, TypeOK
    <3> QED
      BY <1>a, <3>1, ReadyStable DEF CallbackReady
  <2> QED
    BY <2>1, <2>2, <2>3, <2>4, <2>5 DEF AuditInv
<1> QED
  BY <1>a, <1>2, <1>3, <1>4, RequestAuditInv, ApproverAuditInv, RejectAuditInv,
     CallbackAuditInv DEF Next

\* Whatever a stored event claims did happen to the row, in its round, whichever
\* handlers crash between their update and their event.
THEOREM AuditIsTruthful == Spec => []AuditTruthful
<1>1. Init => AuditInv
  BY DEF Init, StoreInit, IdleRequester, IdleApprover, IdleCallback, AuditInv, AuditTruthful,
     RequesterReady, ApproverReady, RejecterReady, CallbackReady
<1>2. AuditInv => AuditTruthful
  BY DEF AuditInv
<1> QED
  BY <1>1, <1>2, NextAuditInv, TypeCorrect, PTL DEF Spec
-----------------------------------------------------------------------------
(* An accepted dispatch has been settled.  The strengthening: a workflow    *)
(* answers 200 only after its callback was accepted, a callback is accepted *)
(* only when it finds or makes the row settled, and a settled round stays   *)
(* settled until a retry begins the next one.                               *)

Settled == {"completed", "failed"}

\* The round is settled, or a later one has begun.
Over(n) == n < round \/ (n <= round /\ row.status \in Settled)

PostOver(p) ==
    /\ workflow[p].sent # "none" => p[1] <= round
    /\ workflow[p].answer = "ok" => EarlyAck \/ Over(p[1])

ApproverOver(d) ==
    /\ approver[d].pc = "wait" => approver[d].attempt \in {1, 2}
    /\ approver[d].pc = "reference" => EarlyAck \/ Over(approver[d].round)

CallbackOver(c) ==
    callback[c].pc # "idle" =>
        /\ callback[c].post[1] <= round
        /\ callback[c].status \in Settled
        /\ callback[c].seen \in Settled \/ callback[c].pc = "log_settled"
            => Over(callback[c].post[1])

AcceptInv ==
    /\ round <= MaxRounds
    /\ \A p \in Posts : PostOver(p)
    /\ \A d \in Approvers : ApproverOver(d)
    /\ \A c \in Callbacks : CallbackOver(c)

LEMMA OverStays ==
    ASSUME TypeOK, RowStep, NEW n \in Nat
    PROVE  /\ round' \in Nat /\ (n <= round => n <= round')
           /\ Over(n) => Over(n)'
<1>1. Onward /\ round \in Nat /\ round' \in Nat
  <2>1. round' \in Nat
    BY UpdateType DEF TypeOK, RowStep, rowVars, CreateRow
  <2> QED
    BY <2>1, RowStepOnward DEF TypeOK
<1> QED
  BY <1>1 DEF Onward, Over, Settled

LEMMA OversStay ==
    ASSUME TypeOK, AcceptInv, RowStep
    PROVE  /\ \A p \in Posts :
                workflow'[p].sent = workflow[p].sent /\ workflow'[p].answer \in {workflow[p].answer, "none", "refused"}
                => PostOver(p)'
           /\ \A d \in Approvers : approver'[d] = approver[d] => ApproverOver(d)'
           /\ \A c \in Callbacks : callback'[c] = callback[c] => CallbackOver(c)'
<1>1. ASSUME NEW p \in Posts, workflow'[p].sent = workflow[p].sent,
             workflow'[p].answer \in {workflow[p].answer, "none", "refused"}
      PROVE  PostOver(p)'
  <2>1. p[1] \in Nat
    BY DEF Posts
  <2> QED
    BY <1>1, <2>1, OverStays DEF AcceptInv, PostOver
<1>2. ASSUME NEW d \in Approvers, approver'[d] = approver[d]
      PROVE  ApproverOver(d)'
  <2>1. approver[d].round \in Nat
    BY DEF TypeOK, Approver
  <2> QED
    BY <1>2, <2>1, OverStays DEF AcceptInv, ApproverOver
<1>3. ASSUME NEW c \in Callbacks, callback'[c] = callback[c]
      PROVE  CallbackOver(c)'
  <2>1. callback[c].post[1] \in Nat
    BY DEF TypeOK, Callback, Posts
  <2> QED
    BY <1>3, <2>1, OverStays DEF AcceptInv, CallbackOver
<1> QED
  BY <1>1, <1>2, <1>3

\* A workflow is told that its callback was accepted only when its round is over.
LEMMA AnswerOver ==
    ASSUME TypeOK, AcceptInv, RowStep, NEW q, NEW accepted \in BOOLEAN,
           AnswerWorkflow(q, accepted), q \in Posts /\ accepted => Over(q[1])
    PROVE  \A p \in Posts : PostOver(p)'
<1> SUFFICES ASSUME NEW p \in Posts PROVE PostOver(p)'
  OBVIOUS
<1>1. workflow \in [Posts -> Workflow]
  BY DEF TypeOK
<1>2. workflow'[p].sent = workflow[p].sent
  BY <1>1 DEF AnswerWorkflow, Workflow
<1>3. workflow'[p].answer = workflow[p].answer \/ (p = q /\ accepted)
  BY <1>1 DEF AnswerWorkflow, Workflow
<1>4. CASE workflow'[p].answer = workflow[p].answer
  BY <1>2, <1>4, OversStay
<1>5. CASE p = q /\ accepted
  <2>1. p[1] \in Nat /\ Over(p[1])
    BY <1>5 DEF Posts
  <2> QED
    BY <1>2, <2>1, OverStays DEF AcceptInv, PostOver
<1> QED
  BY <1>3, <1>4, <1>5

LEMMA ApproverAcceptInv ==
    ASSUME TypeOK, ApprovalInv, DispatchInv, AcceptInv, RowStep, NEW d \in Approvers,
           Approve(d) \/ Dispatch(d)
    PROVE  AcceptInv'
<1> USE DEF ToApprover, EndApprover, IdleApprover
<1>a. /\ approver \in [Approvers -> Approver] /\ workflow \in [Posts -> Workflow]
      /\ approver[d].round \in Nat /\ round \in Nat /\ MaxRounds \in Nat
  BY BoundsAssumption DEF TypeOK, Approver
<1>1. \A c \in Callbacks : CallbackOver(c)'
  BY OversStay DEF Approve, ApproveRead, ApproveGrant, ApproveLostRace, ApproveLog,
     Dispatch, DispatchClaim, DispatchLostRace, DispatchLog, DispatchPost, SendPost,
     DispatchRetry, DispatchAnswered, DispatchReference, DispatchFail, DispatchLogFailure
<1>2. \A e \in Approvers : e # d => ApproverOver(e)'
  <2>1. \A e \in Approvers : e # d => approver'[e] = approver[e]
    BY <1>a DEF Approve, ApproveRead, ApproveGrant, ApproveLostRace, ApproveLog,
       Dispatch, DispatchClaim, DispatchLostRace, DispatchLog, DispatchPost, SendPost,
       DispatchRetry, DispatchAnswered, DispatchReference, DispatchFail, DispatchLogFailure
  <2> QED
    BY <2>1, OversStay
<1>3. round' <= MaxRounds
  <2>1. CASE ApproveGrant(d)
    BY <2>1, <1>a DEF ApproveGrant, MarkApproved, MarkRetryApproved
  <2>2. CASE round' = round
    BY <2>2 DEF AcceptInv
  <2> QED
    BY <2>1, <2>2 DEF Approve, ApproveRead, ApproveLostRace, ApproveLog, Dispatch,
       DispatchClaim, MarkExecuting, DispatchLostRace, DispatchLog, DispatchPost, SendPost,
       DispatchRetry, DispatchAnswered, DispatchReference, SetExternalReference,
       DispatchFail, MarkFailed, DispatchLogFailure, storeVars
<1>4. \A p \in Posts : PostOver(p)'
  <2>1. \A p \in Posts : workflow'[p].sent = workflow[p].sent
                         /\ workflow'[p].answer \in {workflow[p].answer, "none", "refused"}
    <3>1. CASE UNCHANGED workflow
      BY <3>1
    <3>2. ASSUME NEW k \in {1, 2}, SendPost(d, k)
          PROVE  \A p \in Posts : workflow'[p].sent = workflow[p].sent
                                  /\ workflow'[p].answer = workflow[p].answer
      BY <3>2, <1>a DEF SendPost, Workflow
    <3>3. CASE DispatchAnswered(d)
      BY <3>3, <1>a DEF DispatchAnswered, Workflow
    <3> QED
      BY <3>1, <3>2, <3>3 DEF Approve, ApproveRead, ApproveGrant, ApproveLostRace, ApproveLog,
         Dispatch, DispatchClaim, DispatchLostRace, DispatchLog, DispatchPost,
         DispatchRetry, DispatchReference, DispatchFail, DispatchLogFailure, worldVars
  <2> QED
    BY <2>1, OversStay
<1>5. ApproverOver(d)'
  <2>1. CASE DispatchAnswered(d)
    <3>1. approver[d].round \in started /\ approver[d].attempt \in {1, 2}
      BY <2>1 DEF DispatchAnswered, DispatchInv, Dispatching, AcceptInv, ApproverOver
    <3>2. Awaited(d) \in Posts
      <4>1. 1 <= approver[d].round /\ approver[d].round <= round
        BY <3>1 DEF ApprovalInv
      <4>2. approver[d].round \in 1 .. MaxRounds
        BY <1>a, <4>1 DEF AcceptInv
      <4> QED
        BY <3>1, <4>2 DEF Awaited, Posts
    <3>3. approver'[d].pc = "reference" =>
            workflow[Awaited(d)].answer = "ok" /\ approver'[d].round = approver[d].round
      BY <2>1, <1>a DEF DispatchAnswered
    <3>4. approver'[d].pc = "reference" => EarlyAck \/ Over(approver[d].round)
      BY <3>2, <3>3 DEF AcceptInv, PostOver, Awaited
    <3>5. approver'[d].pc # "wait"
      BY <2>1, <1>a DEF DispatchAnswered
    <3> QED
      BY <1>a, <3>3, <3>4, <3>5, OverStays DEF ApproverOver
  <2>2. ASSUME NEW k \in {1, 2}, SendPost(d, k)
        PROVE  ApproverOver(d)'
    BY <2>2, <1>a DEF SendPost, ApproverOver
  <2>3. CASE approver'[d].pc \notin {"wait", "reference"}
    BY <2>3 DEF ApproverOver
  <2> QED
    BY <1>a, <2>1, <2>2, <2>3 DEF Approve, ApproveRead, ApproveGrant, ApproveLostRace,
       ApproveLog, Dispatch, DispatchClaim, DispatchLostRace, DispatchLog, DispatchPost,
       DispatchRetry, DispatchReference, DispatchFail, DispatchLogFailure
<1> QED
  BY <1>1, <1>2, <1>3, <1>4, <1>5 DEF AcceptInv

LEMMA WorkflowAcceptInv ==
    ASSUME TypeOK, ApprovalInv, DispatchInv, AcceptInv, RowStep, NEW p \in Posts,
           RunWorkflow(p)
    PROVE  AcceptInv'
<1>a. workflow \in [Posts -> Workflow] /\ round \in Nat
  BY DEF TypeOK
<1>1. UNCHANGED <<round, approver, callback>>
  BY DEF RunWorkflow, WorkflowCall, WorkflowError, WorkflowRefuse, WorkflowAcknowledge,
     storeVars, handlerVars
<1>2. \A q \in Posts : q # p => workflow'[q] = workflow[q]
  BY <1>a DEF RunWorkflow, WorkflowCall, WorkflowError, WorkflowRefuse, WorkflowAcknowledge
<1>3. PostOver(p)'
  <2>1. CASE WorkflowCall(p)
    <3>1. p[1] \in started
      BY <2>1 DEF WorkflowCall, DispatchInv
    <3>2. p[1] \in Nat /\ p[1] <= round
      BY <3>1 DEF ApprovalInv, Posts
    <3>3. workflow'[p].answer = workflow[p].answer
      BY <2>1, <1>a DEF WorkflowCall, Workflow
    <3> QED
      BY <1>1, <3>2, <3>3, OverStays DEF AcceptInv, PostOver
  <2>2. CASE WorkflowAcknowledge(p)
    <3>1. EarlyAck /\ workflow'[p].sent = workflow[p].sent
      BY <2>2, <1>a DEF WorkflowAcknowledge, Workflow
    <3> QED
      BY <1>1, <3>1 DEF AcceptInv, PostOver
  <2>3. CASE WorkflowError(p)
    <3>1. workflow'[p].sent = workflow[p].sent /\ workflow'[p].answer = workflow[p].answer
      BY <2>3, <1>a DEF WorkflowError, Workflow
    <3> QED
      BY <3>1, OversStay
  <2>4. CASE WorkflowRefuse(p)
    <3>1. Answered(p, "refused") \in {workflow[p].answer, "refused"}
      BY DEF Answered
    <3>2. workflow'[p].sent = workflow[p].sent
          /\ workflow'[p].answer = Answered(p, "refused")
      BY <2>4, <1>a DEF WorkflowRefuse, Workflow
    <3> QED
      BY <3>1, <3>2, OversStay
  <2> QED
    BY <2>1, <2>2, <2>3, <2>4 DEF RunWorkflow
<1> QED
  BY <1>1, <1>2, <1>3, OversStay DEF AcceptInv

LEMMA CallbackAcceptInv ==
    ASSUME TypeOK, AcceptInv, RowStep, NEW c \in Callbacks,
           ProcessCallback(c) \/ (AbortCallback(c) /\ UNCHANGED <<storeVars, approver>>)
    PROVE  AcceptInv'
<1>a. callback \in [Callbacks -> Callback] /\ round \in Nat /\ row \in Row
      /\ callback[c].post[1] \in Nat
  BY DEF TypeOK, Callback, Posts
<1>1. UNCHANGED <<round, approver>>
  BY DEF ProcessCallback, AbortCallback, CallbackRead, CallbackLog, CallbackSettle, Settle,
     MarkCompleted, MarkFailed, CallbackLostRace, CallbackReread, CallbackLogSettled,
     storeVars
<1>2. \A e \in Callbacks : e # c => callback'[e] = callback[e]
  BY <1>a DEF ProcessCallback, AbortCallback, CallbackRead, CallbackLog, CallbackSettle,
     CallbackLostRace, CallbackReread, CallbackLogSettled, EndCallback
<1>3. \A d \in Approvers : ApproverOver(d)'
  BY <1>1, OversStay
<1>4. ASSUME CallbackOver(c)', \A p \in Posts : PostOver(p)'
      PROVE  AcceptInv'
  BY <1>1, <1>2, <1>3, <1>4, OversStay DEF AcceptInv
<1>5. ASSUME UNCHANGED workflow
      PROVE  \A p \in Posts : PostOver(p)'
  BY <1>5, OversStay
<1>6. ASSUME NEW accepted \in BOOLEAN, EndCallback(c, accepted),
             accepted => Over(callback[c].post[1])
      PROVE  AcceptInv'
  <2>1. CallbackOver(c)'
    BY <1>6, <1>a DEF EndCallback, IdleCallback, CallbackOver
  <2>2. \A p \in Posts : PostOver(p)'
    BY <1>6, AnswerOver DEF EndCallback
  <2> QED
    BY <1>4, <2>1, <2>2
<1>7. ASSUME NEW p \in Posts, CallbackRead(c, p)
      PROVE  AcceptInv'
  <2>1. callback'[c] = [pc |-> "log_received", post |-> p, status |-> workflow[p].sent,
                        seen |-> row.status, round |-> 0]
    BY <1>7, <1>a DEF CallbackRead
  <2>2. p[1] <= round /\ workflow[p].sent \in Settled /\ p[1] \in Nat
    BY <1>7 DEF CallbackRead, AcceptInv, PostOver, TypeOK, Workflow, Settled, Posts
  <2>3. UNCHANGED <<row, round, workflow>>
    BY <1>7 DEF CallbackRead, storeVars
  <2>4. CallbackOver(c)'
    BY <2>1, <2>2, <2>3 DEF CallbackOver, Over
  <2> QED
    BY <1>4, <1>5, <2>3, <2>4
<1>8. CASE CallbackLog(c)
  <2>1. CallbackOver(c) /\ callback[c].pc = "log_received"
    BY <1>8 DEF CallbackLog, AcceptInv
  <2>2. ASSUME callback' = [callback EXCEPT ![c].pc = "settle"], UNCHANGED workflow
        PROVE  AcceptInv'
    <3>1. /\ callback'[c].pc = "settle" /\ callback'[c].post = callback[c].post
          /\ callback'[c].status = callback[c].status /\ callback'[c].seen = callback[c].seen
      BY <2>2, <1>a DEF Callback
    <3>2. CallbackOver(c)'
      BY <1>1, <1>a, <2>1, <3>1, OverStays DEF CallbackOver
    <3> QED
      BY <1>4, <1>5, <2>2, <3>2
  <2>3. CASE EndCallback(c, callback[c].seen = callback[c].status)
    <3>1. callback[c].seen = callback[c].status => Over(callback[c].post[1])
      BY <2>1 DEF CallbackOver
    <3> QED
      BY <1>6, <2>3, <3>1
  <2> QED
    BY <1>8, <2>2, <2>3 DEF CallbackLog
<1>9. CASE CallbackSettle(c)
  <2>1. CallbackOver(c) /\ callback[c].pc = "settle"
    BY <1>9 DEF CallbackSettle, AcceptInv
  <2>2. /\ callback'[c].pc = "log_settled" /\ callback'[c].post = callback[c].post
        /\ callback'[c].status = callback[c].status /\ UNCHANGED workflow
    BY <1>9, <1>a DEF CallbackSettle, Callback, worldVars
  <2>3. row'.status \in Settled
    BY <1>9, <1>a DEF CallbackSettle, Settle, MarkCompleted, MarkFailed, Row, Settled
  <2>4. CallbackOver(c)'
    BY <1>1, <2>1, <2>2, <2>3 DEF CallbackOver, Over
  <2> QED
    BY <1>4, <1>5, <2>2, <2>4
<1>10. CASE CallbackLostRace(c)
  <2>1. CallbackOver(c) /\ callback[c].pc = "settle"
    BY <1>10 DEF CallbackLostRace, AcceptInv
  <2>2. /\ callback'[c].pc = "reread" /\ callback'[c].post = callback[c].post
        /\ callback'[c].status = callback[c].status /\ callback'[c].seen = callback[c].seen
        /\ UNCHANGED workflow
    BY <1>10, <1>a DEF CallbackLostRace, Callback, worldVars
  <2>3. CallbackOver(c)'
    BY <1>1, <1>a, <2>1, <2>2, OverStays DEF CallbackOver
  <2> QED
    BY <1>4, <1>5, <2>2, <2>3
<1>11. CASE CallbackReread(c)
  <2>1. CallbackOver(c) /\ callback[c].pc = "reread"
    BY <1>11 DEF CallbackReread, AcceptInv
  <2>2. row.status = callback[c].status => Over(callback[c].post[1])
    BY <2>1 DEF CallbackOver, Over
  <2> QED
    BY <1>6, <1>11, <2>2 DEF CallbackReread
<1>12. CASE CallbackLogSettled(c)
  <2>1. CallbackOver(c) /\ callback[c].pc = "log_settled"
    BY <1>12 DEF CallbackLogSettled, AcceptInv
  <2>2. Over(callback[c].post[1])
    BY <2>1 DEF CallbackOver
  <2> QED
    BY <1>6, <1>12, <2>2 DEF CallbackLogSettled
<1>13. CASE AbortCallback(c)
  BY <1>6, <1>13 DEF AbortCallback
<1> QED
  BY <1>7, <1>8, <1>9, <1>10, <1>11, <1>12, <1>13 DEF ProcessCallback

LEMMA NextAcceptInv ==
    TypeOK /\ ApprovalInv /\ DispatchInv /\ AcceptInv /\ [Next]_vars => AcceptInv'
<1> SUFFICES ASSUME TypeOK, ApprovalInv, DispatchInv, AcceptInv, [Next]_vars PROVE AcceptInv'
  OBVIOUS
<1>a. RowStep
  BY NextRowStep
<1>1. ASSUME UNCHANGED <<round, workflow, callback>>,
             \A d \in Approvers : approver'[d] \in {approver[d], IdleApprover}
      PROVE  AcceptInv'
  <2>1. \A d \in Approvers : ApproverOver(d)'
    BY <1>1, <1>a, OversStay DEF ApproverOver, IdleApprover
  <2> QED
    BY <1>1, <1>a, <2>1, OversStay DEF AcceptInv
<1>2. ASSUME NEW r \in Requesters, Request(r) \/ (Abort /\ AbortRequester(r))
      PROVE  AcceptInv'
  BY <1>1, <1>2 DEF Request, RequestCreate, CreateRow, RequestLog, RequestLogDraft, Abort,
     AbortRequester, worldVars, storeVars
<1>3. ASSUME NEW j \in Rejecters, Reject(j) \/ (Abort /\ AbortRejecter(j))
      PROVE  AcceptInv'
  BY <1>1, <1>3 DEF Reject, RejectRead, RejectMark, MarkRejected, RejectLog, Abort,
     AbortRejecter, worldVars, storeVars
<1>4. ASSUME NEW d \in Approvers, Abort, AbortApprover(d)
      PROVE  AcceptInv'
  BY <1>1, <1>4 DEF Abort, AbortApprover, EndApprover, storeVars, TypeOK
<1>5. ASSUME NEW c \in Callbacks, ProcessCallback(c) \/ (Abort /\ AbortCallback(c))
      PROVE  AcceptInv'
  BY <1>5, <1>a, CallbackAcceptInv DEF Abort, AbortCallback
<1>6. CASE UNCHANGED vars
  BY <1>1, <1>6 DEF vars, storeVars, handlerVars, worldVars
<1> QED
  BY <1>a, <1>2, <1>3, <1>4, <1>5, <1>6, ApproverAcceptInv, WorkflowAcceptInv DEF Next, Abort

LEMMA AcceptInvariant == Spec => []AcceptInv
<1>1. Init => AcceptInv
  BY BoundsAssumption DEF Init, StoreInit, IdleApprover, IdleCallback, AcceptInv, PostOver,
     ApproverOver, CallbackOver
<1> QED
  BY <1>1, NextAcceptInv, TypeCorrect, ApprovalInvariant, DispatchInvariant, PTL DEF Spec

\* With a workflow that answers after its callback, approve never leaves a round that
\* n8n accepted executing, whatever retries, late callbacks and crashes come between.
THEOREM AcceptedIsSettled == Spec => []AcceptedMeansSettled
<1>1. TypeOK /\ AcceptInv => AcceptedMeansSettled
  BY DEF AcceptInv, ApproverOver, AcceptedMeansSettled, Over, Settled, TypeOK
<1> QED
  BY <1>1, AcceptInvariant, TypeCorrect, PTL

-----------------------------------------------------------------------------
(* Without a failure the audit trail misses nothing.  The strengthening:    *)
(* whatever event the row still lacks, a running handler is about to insert.*)

RequestDue == \E r \in Requesters : requester[r].pc = "log_requested"

DraftDue ==
    \E r \in Requesters :
        \/ requester[r].pc = "log_draft"
        \/ requester[r].pc = "log_requested" /\ requester[r].type = EmailType

RejectDue == \E j \in Rejecters : rejecter[j] = "log_rejected"

ApproverDue(pc, n) == \E d \in Approvers : approver[d].pc = pc /\ approver[d].round = n

CallbackDue(completed, n) ==
    \E c \in Callbacks :
        /\ callback[c].pc = "log_settled" /\ callback[c].round = n
        /\ callback[c].status = "completed" <=> completed

RequestTold ==
    /\ row.status # "absent" => Logged("action_requested", 0) \/ RequestDue
    /\ row.type = EmailType => Logged("email_draft_created", 0) \/ DraftDue

RejectTold == row.status = "rejected" => Logged("action_rejected", 0) \/ RejectDue

GrantsTold ==
    \A n \in 1 .. round : Logged("approval_granted", n) \/ ApproverDue("log_granted", n)

StartsTold ==
    \A n \in started : Logged("execution_started", n) \/ ApproverDue("log_started", n)

CompletionTold ==
    row.status = "completed" =>
        Logged("execution_completed", round) \/ CallbackDue(TRUE, round)

FailuresTold ==
    \A n \in 1 .. round : n < round \/ row.status = "failed" =>
        \/ Logged("execution_failed", n)
        \/ ApproverDue("log_failed", n)
        \/ CallbackDue(FALSE, n)

Told ==
    RequestTold /\ RejectTold /\ GrantsTold /\ StartsTold /\ CompletionTold /\ FailuresTold

LEMMA LoggedStays ==
    ASSUME audit \subseteq audit', NEW x, NEW n, Logged(x, n)
    PROVE  Logged(x, n)'
BY DEF Logged

LEMMA RequestKeepsTold ==
    ASSUME TypeOK, Told, audit \subseteq audit', NEW r \in Requesters, Request(r)
    PROVE  Told'
<1>a. requester \in [Requesters -> Requester]
  BY DEF TypeOK
<1>b. UNCHANGED <<round, started, approver, rejecter, callback>>
  BY DEF Request, RequestCreate, CreateRow, RequestLog, RequestLogDraft
<1>1. RequestTold'
  <2>1. ASSUME NEW t \in Types, RequestCreate(r, t)
        PROVE  RequestTold'
    <3>1. requester'[r] = [pc |-> "log_requested", type |-> t] /\ row'.type = t
      BY <2>1, <1>a DEF RequestCreate, CreateRow, AbsentRow
    <3> QED
      BY <3>1 DEF RequestTold, RequestDue, DraftDue
  <2>2. CASE RequestLog(r)
    <3>1. row' = row /\ Logged("action_requested", 0)'
      BY <2>2 DEF RequestLog, CreateEvent, Logged
    <3>2. DraftDue => DraftDue'
      <4>1. ASSUME NEW q \in Requesters,
                   \/ requester[q].pc = "log_draft"
                   \/ requester[q].pc = "log_requested" /\ requester[q].type = EmailType
            PROVE  DraftDue'
        <5>1. CASE q = r
          BY <2>2, <4>1, <5>1, <1>a DEF RequestLog, DraftDue, Requester
        <5>2. CASE q # r
          BY <2>2, <4>1, <5>2, <1>a DEF RequestLog, DraftDue
        <5> QED
          BY <5>1, <5>2
      <4> QED
        BY <4>1 DEF DraftDue
    <3> QED
      BY <3>1, <3>2, LoggedStays DEF RequestTold, Told
  <2>3. CASE RequestLogDraft(r)
    <3>1. row' = row /\ Logged("email_draft_created", 0)'
      BY <2>3 DEF RequestLogDraft, CreateEvent, Logged
    <3>2. RequestDue => RequestDue'
      BY <2>3, <1>a DEF RequestLogDraft, RequestDue
    <3> QED
      BY <3>1, <3>2, LoggedStays DEF RequestTold, Told
  <2> QED
    BY <2>1, <2>2, <2>3 DEF Request
<1>2. row'.status \in {row.status, "pending"}
  BY DEF Request, RequestCreate, CreateRow, AbsentRow, RequestLog, RequestLogDraft
<1>3. RejectTold'
  BY <1>b, <1>2, LoggedStays DEF RejectTold, RejectDue, Told
<1>4. GrantsTold' /\ StartsTold'
  BY <1>b, LoggedStays DEF GrantsTold, StartsTold, ApproverDue, Told
<1>5. CompletionTold' /\ FailuresTold'
  BY <1>b, <1>2, LoggedStays DEF CompletionTold, FailuresTold, ApproverDue, CallbackDue, Told
<1> QED
  BY <1>1, <1>3, <1>4, <1>5 DEF Told

LEMMA RejectKeepsTold ==
    ASSUME TypeOK, Told, audit \subseteq audit', NEW j \in Rejecters, Reject(j)
    PROVE  Told'
<1>a. rejecter \in [Rejecters -> {"idle", "reject", "log_rejected"}] /\ row \in Row
  BY DEF TypeOK
<1>b. UNCHANGED <<round, started, requester, approver, callback>>
  BY DEF Reject, RejectRead, RejectMark, MarkRejected, RejectLog, storeVars
<1>1. /\ row'.type = row.type
      /\ row'.status = row.status \/ (row.status = "pending" /\ row'.status = "rejected")
  BY <1>a DEF Reject, RejectRead, RejectMark, MarkRejected, RejectLog, storeVars, Row
<1>2. RequestTold'
  BY <1>b, <1>1, LoggedStays DEF RequestTold, RequestDue, DraftDue, Told
<1>3. RejectTold'
  <2>1. CASE RejectRead(j)
    BY <2>1, <1>a, LoggedStays DEF RejectRead, RejectTold, RejectDue, Told, storeVars
  <2>2. CASE RejectMark(j)
    <3>1. CASE MarkRejected /\ rejecter' = [rejecter EXCEPT ![j] = "log_rejected"]
      BY <3>1, <1>a DEF RejectTold, RejectDue
    <3>2. CASE row' = row /\ rejecter' = [rejecter EXCEPT ![j] = "idle"]
      BY <2>2, <3>2, <1>a, LoggedStays DEF RejectMark, RejectTold, RejectDue, Told
    <3> QED
      BY <2>2, <3>1, <3>2 DEF RejectMark
  <2>3. CASE RejectLog(j)
    BY <2>3 DEF RejectLog, CreateEvent, Logged, RejectTold
  <2> QED
    BY <2>1, <2>2, <2>3 DEF Reject
<1>4. GrantsTold' /\ StartsTold'
  BY <1>b, LoggedStays DEF GrantsTold, StartsTold, ApproverDue, Told
<1>5. CompletionTold' /\ FailuresTold'
  BY <1>b, <1>1, LoggedStays DEF CompletionTold, FailuresTold, ApproverDue, CallbackDue, Told
<1> QED
  BY <1>2, <1>3, <1>4, <1>5 DEF Told

\* An approver keeps what it is about to insert until it inserts it.
LEMMA ApproverInserts ==
    ASSUME TypeOK, NEW d \in Approvers, Approve(d) \/ Dispatch(d), NEW n
    PROVE  /\ ApproverDue("log_granted", n)
                => ApproverDue("log_granted", n)' \/ Logged("approval_granted", n)'
           /\ ApproverDue("log_started", n)
                => ApproverDue("log_started", n)' \/ Logged("execution_started", n)'
           /\ ApproverDue("log_failed", n)
                => ApproverDue("log_failed", n)' \/ Logged("execution_failed", n)'
<1>a. \A e \in Approvers : e # d => approver'[e] = approver[e]
  BY DEF TypeOK, ToApprover, EndApprover, Approve, ApproveRead, ApproveGrant,
     ApproveLostRace, ApproveLog, Dispatch, DispatchClaim, DispatchLostRace, DispatchLog,
     DispatchPost, SendPost, DispatchRetry, DispatchAnswered, DispatchReference,
     DispatchFail, DispatchLogFailure
<1>1. approver[d].pc = "log_granted" /\ approver[d].round = n => Logged("approval_granted", n)'
  BY DEF Approve, ApproveRead, ApproveGrant, ApproveLostRace, ApproveLog, CreateEvent, Logged,
     Dispatch, DispatchClaim, DispatchLostRace, DispatchLog, DispatchPost, DispatchRetry,
     DispatchAnswered, DispatchReference, DispatchFail, DispatchLogFailure
<1>2. approver[d].pc = "log_started" /\ approver[d].round = n => Logged("execution_started", n)'
  BY DEF Approve, ApproveRead, ApproveGrant, ApproveLostRace, ApproveLog, CreateEvent, Logged,
     Dispatch, DispatchClaim, DispatchLostRace, DispatchLog, DispatchPost, DispatchRetry,
     DispatchAnswered, DispatchReference, DispatchFail, DispatchLogFailure
<1>3. approver[d].pc = "log_failed" /\ approver[d].round = n => Logged("execution_failed", n)'
  BY DEF Approve, ApproveRead, ApproveGrant, ApproveLostRace, ApproveLog, CreateEvent, Logged,
     Dispatch, DispatchClaim, DispatchLostRace, DispatchLog, DispatchPost, DispatchRetry,
     DispatchAnswered, DispatchReference, DispatchFail, DispatchLogFailure
<1> QED
  BY <1>a, <1>1, <1>2, <1>3 DEF ApproverDue

\* What an approver does to the row, and who will tell of it.
LEMMA ApproverChanges ==
    ASSUME TypeOK, NEW d \in Approvers, Approve(d) \/ Dispatch(d)
    PROVE  \/ UNCHANGED <<row, round, started>>
           \/ /\ row.status \in {"pending", "failed"} /\ row'.status = "approved"
              /\ row'.type = row.type /\ round' = round + 1 /\ started' = started
              /\ ApproverDue("log_granted", round)'
           \/ /\ row.status = "approved" /\ row'.status = "executing"
              /\ row'.type = row.type /\ round' = round
              /\ started' = started \union {round} /\ ApproverDue("log_started", round)'
           \/ /\ row.status = "executing" /\ row'.status = "executing"
              /\ row'.type = row.type /\ round' = round /\ started' = started
           \/ /\ row.status \in {"approved", "executing"} /\ row'.status = "failed"
              /\ row'.type = row.type /\ round' = round /\ started' = started
              /\ ApproverDue("log_failed", round)'
<1> USE DEF ToApprover
<1>a. approver \in [Approvers -> Approver] /\ row \in Row /\ round \in Nat
  BY DEF TypeOK
<1>1. CASE ApproveGrant(d)
  <2>1. approver'[d] = [pc |-> "log_granted", round |-> round', attempt |-> 0]
    BY <1>1, <1>a DEF ApproveGrant
  <2>2. ApproverDue("log_granted", round)'
    BY <2>1 DEF ApproverDue
  <2> QED
    BY <1>1, <1>a, <2>2 DEF ApproveGrant, MarkApproved, MarkRetryApproved, Row
<1>2. CASE DispatchClaim(d)
  <2>1. approver'[d] = [pc |-> "log_started", round |-> round, attempt |-> 0]
    BY <1>2, <1>a DEF DispatchClaim
  <2>2. ApproverDue("log_started", round)'
    BY <1>2, <2>1 DEF ApproverDue, DispatchClaim, MarkExecuting
  <2> QED
    BY <1>2, <1>a, <2>2 DEF DispatchClaim, MarkExecuting, Row
<1>3. CASE DispatchReference(d)
  BY <1>3, <1>a DEF DispatchReference, SetExternalReference, Row
<1>4. CASE DispatchFail(d)
  <2>1. CASE MarkFailed("dispatch") /\ ToApprover(d, "log_failed", round, 0)
    <3>1. approver'[d] = [pc |-> "log_failed", round |-> round, attempt |-> 0]
      BY <2>1, <1>a
    <3>2. ApproverDue("log_failed", round)'
      BY <2>1, <3>1 DEF ApproverDue, MarkFailed
    <3> QED
      BY <2>1, <1>a, <3>2 DEF MarkFailed, Row
  <2> QED
    BY <1>4, <2>1 DEF DispatchFail
<1> QED
  BY <1>1, <1>2, <1>3, <1>4 DEF Approve, ApproveRead, ApproveLostRace, ApproveLog, Dispatch,
     DispatchLostRace, DispatchLog, DispatchPost, SendPost, DispatchRetry, DispatchAnswered,
     DispatchLogFailure, storeVars
LEMMA ApproverKeepsTold ==
    ASSUME TypeOK, ApprovalInv, Told, audit \subseteq audit', NEW d \in Approvers,
           Approve(d) \/ Dispatch(d)
    PROVE  Told'
<1>a. row \in Row /\ round \in Nat /\ started \subseteq Nat
  BY DEF TypeOK
<1>b. UNCHANGED <<requester, rejecter, callback>>
  BY DEF Approve, ApproveRead, ApproveGrant, ApproveLostRace, ApproveLog, Dispatch,
     DispatchClaim, DispatchLostRace, DispatchLog, DispatchPost, SendPost, DispatchRetry,
     DispatchAnswered, DispatchReference, DispatchFail, DispatchLogFailure
<1>c. \A n : CallbackDue(FALSE, n)' <=> CallbackDue(FALSE, n)
  BY <1>b DEF CallbackDue
<1>1. RequestTold'
  <2>1. row'.type = row.type /\ (row'.status # "absent" => row.status # "absent")
    BY ApproverChanges
  <2>2. (RequestDue => RequestDue') /\ (DraftDue => DraftDue')
    BY <1>b DEF RequestDue, DraftDue
  <2> QED
    BY <2>1, <2>2, LoggedStays DEF RequestTold, Told
<1>2. RejectTold'
  <2>1. row'.status = "rejected" => row.status = "rejected"
    BY ApproverChanges
  <2> QED
    BY <1>b, <2>1, LoggedStays DEF RejectTold, RejectDue, Told
<1>3. GrantsTold'
  <2> SUFFICES ASSUME NEW n \in 1 .. round'
               PROVE  Logged("approval_granted", n)' \/ ApproverDue("log_granted", n)'
    BY DEF GrantsTold
  <2>1. CASE n \in 1 .. round
    BY <2>1, ApproverInserts, LoggedStays DEF GrantsTold, Told
  <2>2. CASE n \notin 1 .. round
    <3>1. round' = round + 1 /\ ApproverDue("log_granted", round)'
      BY <2>2, ApproverChanges
    <3>2. n = round'
      BY <1>a, <2>2, <3>1
    <3> QED
      BY <3>1, <3>2
  <2> QED
    BY <2>1, <2>2
<1>4. StartsTold'
  <2> SUFFICES ASSUME NEW n \in started'
               PROVE  Logged("execution_started", n)' \/ ApproverDue("log_started", n)'
    BY DEF StartsTold
  <2>1. CASE n \in started
    BY <2>1, ApproverInserts, LoggedStays DEF StartsTold, Told
  <2>2. CASE n \notin started
    <3>1. n = round /\ round' = round /\ ApproverDue("log_started", round)'
      BY <2>2, ApproverChanges
    <3> QED
      BY <3>1
  <2> QED
    BY <2>1, <2>2
<1>5. CompletionTold'
  <2>1. row'.status = "completed" => row.status = "completed" /\ round' = round
    BY ApproverChanges
  <2>2. CallbackDue(TRUE, round) /\ round' = round => CallbackDue(TRUE, round)'
    BY <1>b DEF CallbackDue
  <2>3. Logged("execution_completed", round) /\ round' = round
          => Logged("execution_completed", round)'
    BY LoggedStays DEF Logged
  <2> QED
    BY <2>1, <2>2, <2>3 DEF CompletionTold, Told
<1>6. FailuresTold'
  <2> SUFFICES ASSUME NEW n \in 1 .. round', n < round' \/ row'.status = "failed"
               PROVE  \/ Logged("execution_failed", n)'
                      \/ ApproverDue("log_failed", n)'
                      \/ CallbackDue(FALSE, n)'
    BY DEF FailuresTold
  <2>1. CASE n \in 1 .. round /\ (n < round \/ row.status = "failed")
    BY <1>c, <2>1, ApproverInserts, LoggedStays DEF FailuresTold, Told
  <2>2. CASE ~(n \in 1 .. round /\ (n < round \/ row.status = "failed"))
    <3>1. row.status # "failed" \/ round' = round + 1
      BY <2>2, ApproverChanges
    <3>2. CASE row'.status = "failed"
      <4>1. round' = round /\ ApproverDue("log_failed", round)'
        <5>1. row.status # "failed" \/ round' # round
          BY <2>2
        <5> QED
          BY <3>2, <5>1, <2>2, ApproverChanges
      <4>2. n = round
        BY <1>a, <2>2, <4>1
      <4> QED
        BY <4>1, <4>2
    <3>3. CASE row'.status # "failed"
      <4>1. n < round'
        BY <3>3
      <4>2. round' = round + 1 /\ row.status \in {"pending", "failed"}
        BY <1>a, <2>2, <4>1, ApproverChanges
      <4>3. n = round
        BY <1>a, <2>2, <4>1, <4>2
      <4>4. row.status = "pending" => round = 0
        BY DEF ApprovalInv
      <4> QED
        BY <1>a, <2>2, <4>2, <4>3, <4>4
    <3> QED
      BY <3>2, <3>3
  <2> QED
    BY <2>1, <2>2
<1> QED
  BY <1>1, <1>2, <1>3, <1>4, <1>5, <1>6 DEF Told

\* A callback keeps what it is about to insert until it inserts it.
LEMMA CallbackInserts ==
    ASSUME TypeOK, NEW c \in Callbacks, ProcessCallback(c), NEW n
    PROVE  /\ CallbackDue(TRUE, n) => CallbackDue(TRUE, n)' \/ Logged("execution_completed", n)'
           /\ CallbackDue(FALSE, n) => CallbackDue(FALSE, n)' \/ Logged("execution_failed", n)'
<1>a. \A e \in Callbacks : e # c => callback'[e] = callback[e]
  BY DEF TypeOK, ProcessCallback, CallbackRead, CallbackLog, CallbackSettle,
     CallbackLostRace, CallbackReread, CallbackLogSettled, EndCallback
<1>1. callback[c].pc = "log_settled" /\ callback[c].round = n =>
        IF callback[c].status = "completed" THEN Logged("execution_completed", n)'
                                            ELSE Logged("execution_failed", n)'
  BY DEF ProcessCallback, CallbackRead, CallbackLog, CallbackSettle, CallbackLostRace,
     CallbackReread, CallbackLogSettled, CreateEvent, Logged
<1> QED
  BY <1>a, <1>1 DEF CallbackDue

\* What a callback does to the row, and who will tell of it.
LEMMA CallbackChanges ==
    ASSUME TypeOK, NEW c \in Callbacks, ProcessCallback(c)
    PROVE  /\ round' = round /\ started' = started
           /\ \/ row' = row
              \/ /\ row.status \in {"approved", "executing"} /\ row'.type = row.type
                 /\ \/ row'.status = "completed" /\ CallbackDue(TRUE, round)'
                    \/ row'.status = "failed" /\ CallbackDue(FALSE, round)'
<1>a. callback \in [Callbacks -> Callback] /\ row \in Row
  BY DEF TypeOK
<1>1. CASE CallbackSettle(c)
  <2>1. round' = round /\ started' = started
    BY <1>1 DEF CallbackSettle, Settle, MarkCompleted, MarkFailed
  <2>2. /\ callback'[c].pc = "log_settled" /\ callback'[c].round = round
        /\ callback'[c].status = callback[c].status
    BY <1>1, <1>a DEF CallbackSettle, Callback
  <2>3. CASE callback[c].status = "completed"
    <3>1. row.status = "executing" /\ row'.type = row.type /\ row'.status = "completed"
      BY <1>1, <1>a, <2>3 DEF CallbackSettle, Settle, MarkCompleted, Row
    <3>2. CallbackDue(TRUE, round)'
      BY <2>1, <2>2, <2>3 DEF CallbackDue
    <3> QED
      BY <2>1, <3>1, <3>2
  <2>4. CASE callback[c].status # "completed"
    <3>1. /\ row.status \in {"approved", "executing"} /\ row'.type = row.type
          /\ row'.status = "failed"
      BY <1>1, <1>a, <2>4 DEF CallbackSettle, Settle, MarkFailed, Row
    <3>2. CallbackDue(FALSE, round)'
      BY <2>1, <2>2, <2>4 DEF CallbackDue
    <3> QED
      BY <2>1, <3>1, <3>2
  <2> QED
    BY <2>3, <2>4
<1> QED
  BY <1>1 DEF ProcessCallback, CallbackRead, CallbackLog, CallbackLostRace, CallbackReread,
     CallbackLogSettled, storeVars

LEMMA CallbackKeepsTold ==
    ASSUME TypeOK, Told, audit \subseteq audit', NEW c \in Callbacks, ProcessCallback(c)
    PROVE  Told'
<1>a. row \in Row /\ round \in Nat /\ round' = round /\ started' = started
  BY CallbackChanges DEF TypeOK
<1>b. UNCHANGED <<requester, approver, rejecter>>
  BY DEF ProcessCallback, CallbackRead, CallbackLog, CallbackSettle, CallbackLostRace,
     CallbackReread, CallbackLogSettled
<1>1. RequestTold' /\ RejectTold'
  <2>1. row'.type = row.type /\ (row'.status # "absent" => row.status # "absent")
        /\ (row'.status = "rejected" => row.status = "rejected")
    BY CallbackChanges
  <2>2. (RequestDue => RequestDue') /\ (DraftDue => DraftDue') /\ (RejectDue => RejectDue')
    BY <1>b DEF RequestDue, DraftDue, RejectDue
  <2> QED
    BY <2>1, <2>2, LoggedStays DEF RequestTold, RejectTold, Told
<1>2. GrantsTold' /\ StartsTold'
  BY <1>a, <1>b, LoggedStays DEF GrantsTold, StartsTold, ApproverDue, Told
<1>3. CompletionTold'
  <2>1. ASSUME NEW n \in Nat, Logged("execution_completed", n) \/ CallbackDue(TRUE, n)
        PROVE  Logged("execution_completed", n)' \/ CallbackDue(TRUE, n)'
    BY <2>1, CallbackInserts, LoggedStays
  <2>2. row'.status = "completed" => row' = row \/ CallbackDue(TRUE, round)'
    BY CallbackChanges
  <2>3. row' = row /\ row.status = "completed" =>
          \E n \in Nat : n = round /\ (Logged("execution_completed", n)' \/ CallbackDue(TRUE, n)')
    BY <1>a, <2>1 DEF CompletionTold, Told
  <2> QED
    BY <1>a, <2>2, <2>3 DEF CompletionTold
<1>4. FailuresTold'
  <2> SUFFICES ASSUME NEW n \in 1 .. round', n < round' \/ row'.status = "failed"
               PROVE  \/ Logged("execution_failed", n)'
                      \/ ApproverDue("log_failed", n)'
                      \/ CallbackDue(FALSE, n)'
    BY DEF FailuresTold
  <2>1. CASE n < round \/ row.status = "failed"
    <3>1. Logged("execution_failed", n) \/ ApproverDue("log_failed", n) \/ CallbackDue(FALSE, n)
      BY <1>a, <2>1 DEF FailuresTold, Told
    <3>2. ApproverDue("log_failed", n) => ApproverDue("log_failed", n)'
      BY <1>b DEF ApproverDue
    <3> QED
      BY <3>1, <3>2, CallbackInserts, LoggedStays
  <2>2. CASE ~(n < round \/ row.status = "failed")
    <3>1. n = round /\ row'.status = "failed" /\ row' # row
      BY <1>a, <2>2
    <3> QED
      BY <1>a, <3>1, CallbackChanges
  <2> QED
    BY <2>1, <2>2
<1> QED
  BY <1>1, <1>2, <1>3, <1>4 DEF Told

LEMMA NextTold ==
    TypeOK /\ ApprovalInv /\ (faults = 0 => Told) /\ [Next]_vars => (faults = 0 => Told)'
<1> SUFFICES ASSUME TypeOK, ApprovalInv, faults = 0 => Told, [Next]_vars, faults' = 0
             PROVE  Told'
  OBVIOUS
<1>a. audit \subseteq audit'
  BY NextMonotone
<1>1. ~Abort
  BY DEF Abort, TypeOK
<1>2. ASSUME NEW r \in Requesters, Request(r)
      PROVE  Told'
  <2>1. faults' = faults
    BY <1>2 DEF Request, RequestCreate, RequestLog, RequestLogDraft, worldVars
  <2> QED
    BY <1>2, <1>a, <2>1, RequestKeepsTold
<1>3. ASSUME NEW d \in Approvers, Approve(d) \/ Dispatch(d)
      PROVE  Told'
  <2>1. faults' = faults
    BY <1>3 DEF Approve, ApproveRead, ApproveGrant, ApproveLostRace, ApproveLog, Dispatch,
       DispatchClaim, DispatchLostRace, DispatchLog, DispatchPost, SendPost, DispatchRetry,
       DispatchAnswered, DispatchReference, DispatchFail, DispatchLogFailure, worldVars
  <2> QED
    BY <1>3, <1>a, <2>1, ApproverKeepsTold
<1>4. ASSUME NEW j \in Rejecters, Reject(j)
      PROVE  Told'
  <2>1. faults' = faults
    BY <1>4 DEF Reject, RejectRead, RejectMark, RejectLog, worldVars
  <2> QED
    BY <1>4, <1>a, <2>1, RejectKeepsTold
<1>5. ASSUME NEW c \in Callbacks, ProcessCallback(c)
      PROVE  Told'
  <2>1. faults' = faults
    BY <1>5 DEF ProcessCallback, CallbackRead, CallbackLog, CallbackSettle, CallbackLostRace,
       CallbackReread, CallbackLogSettled, worldVars
  <2> QED
    BY <1>5, <1>a, <2>1, CallbackKeepsTold
<1>6. ASSUME UNCHANGED <<storeVars, handlerVars, faults>>
      PROVE  Told'
  BY <1>6 DEF storeVars, handlerVars, Told, RequestTold, RequestDue, DraftDue, RejectTold,
     RejectDue, GrantsTold, StartsTold, ApproverDue, CompletionTold, FailuresTold,
     CallbackDue, Logged
<1>7. ASSUME NEW p \in Posts, RunWorkflow(p)
      PROVE  Told'
  BY <1>6, <1>7 DEF RunWorkflow, WorkflowCall, WorkflowError, WorkflowRefuse,
     WorkflowAcknowledge
<1>8. CASE UNCHANGED vars
  BY <1>6, <1>8 DEF vars, worldVars
<1> QED
  BY <1>1, <1>2, <1>3, <1>4, <1>5, <1>7, <1>8 DEF Next

\* As long as no call fails, the audit trail tells the whole story of the row whenever no
\* handler is running: nothing that happened to the row is missing, however many handlers
\* raced, retried or lost their update to another.
THEOREM AuditIsComplete == Spec => []AuditComplete
<1>1. Init => Told
  BY EmailAssumption DEF Init, StoreInit, AbsentRow, Told, RequestTold, RejectTold,
     GrantsTold, StartsTold, CompletionTold, FailuresTold
<1>2. (faults = 0 => Told) => AuditComplete
  BY DEF AuditComplete, Quiet, Told, RequestTold, RequestDue, DraftDue, RejectTold, RejectDue,
     GrantsTold, StartsTold, ApproverDue, CompletionTold, FailuresTold, CallbackDue
<1> DEFINE ToldInv == faults = 0 => Told
<1>3. TypeOK /\ ApprovalInv /\ ToldInv /\ [Next]_vars => ToldInv'
  BY NextTold
<1>4. Init => ToldInv
  BY <1>1
<1>5. ToldInv => AuditComplete
  BY <1>2
<1> HIDE DEF ToldInv
<1> QED
  BY <1>3, <1>4, <1>5, TypeCorrect, ApprovalInvariant, PTL DEF Spec
-----------------------------------------------------------------------------
(* Nothing is abandoned.  Without a failed handler, an approve call that has *)
(* granted or found an approval goes on until the row is claimed, and the    *)
(* one that claimed a round until the row has left it.                       *)

Claiming == {"log_granted", "execute"}
Settling == {"log_started", "post", "wait", "fail"}

Claimed == \E d \in Approvers : approver[d].pc \in Claiming
Attended == \E d \in Approvers : approver[d].pc \in Settling /\ approver[d].round = round

Owned ==
    /\ row.status = "approved" => Claimed
    /\ row.status = "executing" /\ ~EarlyAck => Attended

\* Whoever leaves the approvers alone, leaves the row attended.
LEMMA OthersKeepOwned ==
    ASSUME Owned, UNCHANGED <<approver, round>>,
           row'.status \in {row.status, "pending", "rejected", "completed", "failed"}
    PROVE  Owned'
BY DEF Owned, Claimed, Attended

\* An approver keeps the row attended that goes on in its part.
LEMMA ApproverGoesOn ==
    ASSUME Owned, row'.status = row.status, round' = round, NEW d \in Approvers,
           \A e \in Approvers : e # d => approver'[e] = approver[e],
           row.status = "approved" /\ approver[d].pc \in Claiming
               => approver'[d].pc \in Claiming,
           row.status = "executing" /\ ~EarlyAck /\ approver[d].pc \in Settling
             /\ approver[d].round = round
               => approver'[d].pc \in Settling /\ approver'[d].round = round
    PROVE  Owned'
<1>1. row.status = "approved" /\ Claimed => Claimed'
  BY DEF Claimed
<1>2. row.status = "executing" /\ ~EarlyAck /\ Attended => Attended'
  <2> SUFFICES ASSUME row.status = "executing", ~EarlyAck, NEW e \in Approvers,
                      approver[e].pc \in Settling, approver[e].round = round
               PROVE  approver'[e].pc \in Settling /\ approver'[e].round = round'
    BY DEF Attended
  <2>1. CASE e = d
    BY <2>1
  <2>2. CASE e # d
    BY <2>2
  <2> QED
    BY <2>1, <2>2
<1> QED
  BY <1>1, <1>2 DEF Owned

LEMMA ApproverKeepsOwned ==
    ASSUME TypeOK, ApprovalInv, DispatchInv, AcceptInv, Owned, NEW d \in Approvers,
           Approve(d) \/ Dispatch(d)
    PROVE  Owned'
<1> USE DEF ToApprover, EndApprover, IdleApprover
<1>a. approver \in [Approvers -> Approver] /\ row \in Row /\ round \in Nat
  BY DEF TypeOK
<1>b. \A e \in Approvers : e # d => approver'[e] = approver[e]
  BY <1>a DEF Approve, ApproveRead, ApproveGrant, ApproveLostRace, ApproveLog, Dispatch,
     DispatchClaim, DispatchLostRace, DispatchLog, DispatchPost, SendPost, DispatchRetry,
     DispatchAnswered, DispatchReference, DispatchFail, DispatchLogFailure
<1>1. CASE ApproveRead(d) \/ ApproveLostRace(d) \/ DispatchLogFailure(d)
  <2>1. approver[d].pc \notin Claiming \union Settling /\ row' = row /\ round' = round
    BY <1>1 DEF ApproveRead, ApproveLostRace, DispatchLogFailure, Claiming, Settling, storeVars
  <2> QED
    BY <1>b, <2>1, ApproverGoesOn
<1>2. CASE ApproveGrant(d)
  <2>1. row'.status = "approved" /\ approver'[d].pc = "log_granted"
    BY <1>2, <1>a DEF ApproveGrant, MarkApproved, MarkRetryApproved, Row
  <2> QED
    BY <2>1 DEF Owned, Claimed, Claiming
<1>3. CASE ApproveLog(d)
  <2>1. /\ approver[d].pc = "log_granted" /\ approver'[d].pc = "execute"
        /\ row' = row /\ round' = round
    BY <1>3, <1>a DEF ApproveLog
  <2> QED
    BY <1>b, <2>1, ApproverGoesOn DEF Claiming, Settling
<1>4. CASE DispatchClaim(d)
  <2>1. /\ row'.status = "executing" /\ round' = round
        /\ approver'[d].pc = "log_started" /\ approver'[d].round = round
    BY <1>4, <1>a DEF DispatchClaim, MarkExecuting, Row
  <2>2. Attended'
    BY <2>1 DEF Attended, Settling
  <2> QED
    BY <2>1, <2>2 DEF Owned
<1>5. CASE DispatchLostRace(d)
  <2>1. approver[d].pc = "execute" /\ row.status # "approved" /\ row' = row /\ round' = round
    BY <1>5 DEF DispatchLostRace, storeVars
  <2> QED
    BY <1>b, <2>1, ApproverGoesOn DEF Settling
<1>6. CASE DispatchLog(d)
  <2>1. /\ approver[d].pc = "log_started" /\ approver'[d].pc = "post"
        /\ approver'[d].round = approver[d].round /\ row' = row /\ round' = round
    BY <1>6, <1>a DEF DispatchLog
  <2> QED
    BY <1>b, <2>1, ApproverGoesOn DEF Claiming, Settling
<1>7. CASE DispatchPost(d) \/ DispatchRetry(d)
  <2>1. /\ approver[d].pc \in {"post", "wait"} /\ approver'[d].pc = "wait"
        /\ approver'[d].round = approver[d].round /\ row' = row /\ round' = round
    BY <1>7, <1>a DEF DispatchPost, DispatchRetry, SendPost, storeVars
  <2> QED
    BY <1>b, <2>1, ApproverGoesOn DEF Claiming, Settling
<1>8. CASE DispatchAnswered(d)
  <2>1. /\ approver[d].pc = "wait" /\ approver'[d].pc \in {"reference", "fail"}
        /\ approver'[d].round = approver[d].round /\ row' = row /\ round' = round
        /\ approver'[d].pc = "reference" => workflow[Awaited(d)].answer = "ok"
    BY <1>8, <1>a DEF DispatchAnswered, storeVars
  <2>2. Awaited(d) \in Posts
    <3>1. approver[d].round \in started /\ approver[d].attempt \in {1, 2}
      BY <2>1 DEF DispatchInv, Dispatching, AcceptInv, ApproverOver
    <3>2. approver[d].round \in 1 .. MaxRounds
      <4>1. 1 <= approver[d].round /\ approver[d].round <= round
        BY <3>1 DEF ApprovalInv
      <4>2. round <= MaxRounds
        BY DEF AcceptInv
      <4>3. approver[d].round \in Nat
        BY <1>a DEF Approver
      <4> QED
        BY <1>a, <4>1, <4>2, <4>3, BoundsAssumption
    <3> QED
      BY <3>1, <3>2 DEF Awaited, Posts
  <2>3. ~EarlyAck /\ row.status = "executing" /\ approver[d].round = round
          => approver'[d].pc = "fail"
    <3>1. Awaited(d)[1] = approver[d].round
      BY DEF Awaited
    <3>2. ~EarlyAck /\ approver'[d].pc = "reference" => Over(approver[d].round)
      BY <2>1, <2>2, <3>1 DEF AcceptInv, PostOver
    <3> QED
      BY <1>a, <2>1, <3>2 DEF Over, Settled
  <2> QED
    BY <1>b, <2>1, <2>3, ApproverGoesOn DEF Claiming, Settling
<1>9. CASE DispatchReference(d)
  <2>1. approver[d].pc = "reference" /\ row'.status = row.status /\ round' = round
    BY <1>9, <1>a DEF DispatchReference, SetExternalReference, Row
  <2> QED
    BY <1>b, <2>1, ApproverGoesOn DEF Claiming, Settling
<1>10. CASE DispatchFail(d)
  <2>1. row'.status \notin {"approved", "executing"}
    BY <1>10, <1>a DEF DispatchFail, MarkFailed, Row
  <2> QED
    BY <2>1 DEF Owned
<1> QED
  BY <1>1, <1>2, <1>3, <1>4, <1>5, <1>6, <1>7, <1>8, <1>9, <1>10 DEF Approve, Dispatch

LEMMA NextOwned ==
    /\ TypeOK /\ ApprovalInv /\ DispatchInv /\ AcceptInv
    /\ faults = 0 => Owned
    /\ [Next]_vars
    => (faults = 0 => Owned)'
<1> SUFFICES ASSUME TypeOK, ApprovalInv, DispatchInv, AcceptInv, faults = 0 => Owned,
                    [Next]_vars, faults' = 0
             PROVE  Owned'
  OBVIOUS
<1>a. row \in Row
  BY DEF TypeOK
<1>1. ~Abort
  BY DEF Abort, TypeOK
<1>2. ASSUME NEW d \in Approvers, Approve(d) \/ Dispatch(d)
      PROVE  Owned'
  <2>1. faults' = faults
    BY <1>2 DEF Approve, ApproveRead, ApproveGrant, ApproveLostRace, ApproveLog, Dispatch,
       DispatchClaim, DispatchLostRace, DispatchLog, DispatchPost, SendPost, DispatchRetry,
       DispatchAnswered, DispatchReference, DispatchFail, DispatchLogFailure, worldVars
  <2> QED
    BY <1>2, <2>1, ApproverKeepsOwned
<1>3. ASSUME NEW r \in Requesters, Request(r)
      PROVE  Owned'
  <2>1. /\ faults' = faults /\ UNCHANGED <<approver, round>>
        /\ row'.status \in {row.status, "pending"}
    BY <1>3 DEF Request, RequestCreate, CreateRow, AbsentRow, RequestLog, RequestLogDraft,
       worldVars
  <2> QED
    BY <2>1, OthersKeepOwned
<1>4. ASSUME NEW j \in Rejecters, Reject(j)
      PROVE  Owned'
  <2>1. /\ faults' = faults /\ UNCHANGED <<approver, round>>
        /\ row'.status \in {row.status, "rejected"}
    BY <1>4, <1>a DEF Reject, RejectRead, RejectMark, MarkRejected, RejectLog, Row, worldVars,
       storeVars
  <2> QED
    BY <2>1, OthersKeepOwned
<1>5. ASSUME NEW c \in Callbacks, ProcessCallback(c)
      PROVE  Owned'
  <2>1. faults' = faults /\ UNCHANGED approver
    BY <1>5 DEF ProcessCallback, CallbackRead, CallbackLog, CallbackSettle, CallbackLostRace,
       CallbackReread, CallbackLogSettled, worldVars
  <2>2. round' = round /\ row'.status \in {row.status, "completed", "failed"}
    BY <1>5, CallbackChanges
  <2> QED
    BY <2>1, <2>2, OthersKeepOwned
<1>6. ASSUME NEW p \in Posts, RunWorkflow(p)
      PROVE  Owned'
  BY <1>6, OthersKeepOwned DEF RunWorkflow, WorkflowCall, WorkflowError, WorkflowRefuse,
     WorkflowAcknowledge, storeVars, handlerVars
<1>7. CASE UNCHANGED vars
  BY <1>7, OthersKeepOwned DEF vars, storeVars, handlerVars, worldVars
<1> QED
  BY <1>1, <1>2, <1>3, <1>4, <1>5, <1>6, <1>7 DEF Next

\* Without a failed handler an approved or executing action always has a handler that is
\* on its way to claim or to settle it: no race of approvals, no refused or unanswered
\* dispatch and no late callback leaves it with nobody in charge.
THEOREM ActionsAreAttended == Spec => []NoneAbandoned
<1> DEFINE OwnedInv == faults = 0 => Owned
<1>1. Init => OwnedInv
  BY DEF Init, StoreInit, AbsentRow, Owned
<1>2. TypeOK /\ ApprovalInv /\ DispatchInv /\ AcceptInv /\ OwnedInv /\ [Next]_vars => OwnedInv'
  BY NextOwned
<1>3. OwnedInv => NoneAbandoned
  BY DEF NoneAbandoned, Owned, Claimed, Claiming, Attended, Settling
<1> HIDE DEF OwnedInv
<1> QED
  BY <1>1, <1>2, <1>3, TypeCorrect, ApprovalInvariant, DispatchInvariant, AcceptInvariant,
     PTL DEF Spec
-----------------------------------------------------------------------------
(* What follows from the invariants taken together.                          *)

\* The POSTs that n8n received.
Sent == {p \in Posts : workflow[p].work # "none"}

\* n8n receives at most two requests per approval of the action, so the provider is
\* asked at most twice as often as operators approved, whatever races and retries.
PostsBounded ==
    IsFiniteSet(Sent) /\ Cardinality(Sent) <= 2 * round

\* Retries, lost answers and racing approve calls never add up to more than two requests
\* per approval: OneDispatchPerApproval counted over the whole life of the action.
THEOREM AtMostTwoPostsPerApproval == Spec => []PostsBounded
<1>1. TypeOK /\ ApprovalInv /\ DispatchInv => PostsBounded
  <2> SUFFICES ASSUME TypeOK, ApprovalInv, DispatchInv PROVE PostsBounded
    OBVIOUS
  <2> DEFINE Rounds == 1 .. round
             Tries == 1 .. 2
  <2>a. round \in Nat
    BY DEF TypeOK
  <2>1. IsFiniteSet(Rounds) /\ Cardinality(Rounds) = round
    <3>1. IsFiniteSet(1 .. round)
          /\ Cardinality(1 .. round) = IF 1 > round THEN 0 ELSE round - 1 + 1
      BY <2>a, FS_Interval
    <3> QED
      BY <2>a, <3>1
  <2>2. IsFiniteSet(Tries) /\ Cardinality(Tries) = 2
    <3>1. ASSUME NEW k \in Nat, k = 2
          PROVE  IsFiniteSet(1 .. k) /\ Cardinality(1 .. k) = 2
      <4>1. /\ IsFiniteSet(1 .. k)
            /\ Cardinality(1 .. k) = IF 1 > k THEN 0 ELSE k - 1 + 1
        BY FS_Interval
      <4> QED
        BY <3>1, <4>1
    <3> QED
      BY <3>1
  <2>3. Sent \in SUBSET (Rounds \X Tries)
    <3> SUFFICES ASSUME NEW p \in Posts, workflow[p].work # "none"
                 PROVE  p \in Rounds \X Tries
      BY DEF Sent
    <3>1. p[1] \in Nat /\ 1 <= p[1] /\ p[1] <= round
      BY DEF DispatchInv, ApprovalInv, TypeOK
    <3>2. p[2] \in Tries /\ p = <<p[1], p[2]>>
      BY DEF Posts
    <3>3. p[1] \in Rounds
      BY <2>a, <3>1
    <3> QED
      BY <3>2, <3>3
  <2> HIDE DEF Rounds, Tries
  <2>4. IsFiniteSet(Rounds \X Tries) /\ Cardinality(Rounds \X Tries) = round * 2
    BY <2>1, <2>2, FS_Product
  <2>5. IsFiniteSet(Sent) /\ Cardinality(Sent) <= Cardinality(Rounds \X Tries)
    BY <2>3, <2>4, FS_Subset
  <2> QED
    BY <2>a, <2>4, <2>5 DEF PostsBounded
<1> QED
  BY <1>1, TypeCorrect, ApprovalInvariant, DispatchInvariant, PTL

\* The rounds in which events of a type were stored.
RoundsOf(e) == {x.round : x \in {y \in audit : y.type = e}}

\* The history that the events give is the row's: its status, its approvals and its
\* dispatches can be read off the audit trail.
TrailTellsRow ==
    Quiet /\ faults = 0 =>
        /\ row.status # "absent" <=> Logged("action_requested", 0)
        /\ row.status = "rejected" <=> Logged("action_rejected", 0)
        /\ row.status = "completed" <=> Logged("execution_completed", round)
        /\ row.status = "failed" <=> Logged("execution_failed", round)
        /\ RoundsOf("approval_granted") = 1 .. round
        /\ RoundsOf("execution_started") = started

\* Once the handlers of an action are done and none has failed, the audit trail and the
\* row are two accounts of the same history: neither says anything the other does not.
THEOREM TrailIsAccount == Spec => []TrailTellsRow
<1>1. TypeOK /\ ApprovalInv /\ AuditTruthful /\ AuditComplete => TrailTellsRow
  <2> SUFFICES ASSUME TypeOK, ApprovalInv, AuditTruthful, AuditComplete, Quiet, faults = 0
               PROVE  TrailTellsRow
    BY DEF TrailTellsRow
  <2>a. round \in Nat /\ started \subseteq Nat
    BY DEF TypeOK
  <2>b. ASSUME NEW e, NEW n, Logged(e, n)
        PROVE  EventTrue([type |-> e, round |-> n])
    BY <2>b DEF AuditTruthful, Logged
  <2>1. row.status # "absent" <=> Logged("action_requested", 0)
    BY <2>b DEF AuditComplete, EventTrue
  <2>2. row.status = "rejected" <=> Logged("action_rejected", 0)
    BY <2>b DEF AuditComplete, EventTrue
  <2>3. row.status = "completed" <=> Logged("execution_completed", round)
    BY <2>b DEF AuditComplete, EventTrue
  <2>4. row.status = "failed" <=> Logged("execution_failed", round)
    <3>1. row.status = "failed" => round \in 1 .. round
      BY <2>a DEF ApprovalInv
    <3>2. row.status = "failed" => Logged("execution_failed", round)
      BY <3>1 DEF AuditComplete
    <3>3. Logged("execution_failed", round)
            => round < round \/ (round = round /\ row.status = "failed")
      BY <2>b DEF EventTrue
    <3> QED
      BY <2>a, <3>2, <3>3
  <2>5. ASSUME NEW e \in EventTypes
        PROVE  RoundsOf(e) \subseteq Nat /\ \A n \in Nat : n \in RoundsOf(e) <=> Logged(e, n)
    <3>1. \A x \in audit : x \in Event
      BY DEF TypeOK
    <3>2. \A x \in audit : x.round \in Nat /\ x = [type |-> x.type, round |-> x.round]
      BY <3>1 DEF Event
    <3>3. \A n \in Nat : Logged(e, n) => n \in RoundsOf(e)
      BY DEF Logged, RoundsOf
    <3>4. \A n \in Nat : n \in RoundsOf(e) => Logged(e, n)
      BY <3>2 DEF Logged, RoundsOf
    <3> QED
      BY <3>2, <3>3, <3>4 DEF RoundsOf
  <2>6. RoundsOf("approval_granted") = 1 .. round
    <3>1. \A n \in Nat : n \in 1 .. round <=> Logged("approval_granted", n)
      BY <2>b DEF AuditComplete, EventTrue
    <3>2. 1 .. round \subseteq Nat
      BY <2>a
    <3> QED
      BY <2>5, <3>1, <3>2 DEF EventTypes
  <2>7. RoundsOf("execution_started") = started
    <3>1. \A n \in Nat : n \in started <=> Logged("execution_started", n)
      BY <2>b DEF AuditComplete, EventTrue
    <3> QED
      BY <2>a, <2>5, <3>1 DEF EventTypes
  <2> QED
    BY <2>1, <2>2, <2>3, <2>4, <2>6, <2>7 DEF TrailTellsRow
<1> QED
  BY <1>1, TypeCorrect, ApprovalInvariant, AuditIsTruthful, AuditIsComplete, PTL

\* How many more steps an approve call can take.
StepsLeft(a) ==
    CASE a.pc = "idle" -> 0
      [] a.pc \in {"log_failed", "reference"} -> 1
      [] a.pc = "fail" -> 2
      [] a.pc = "wait" /\ a.attempt # 1 -> 3
      [] a.pc = "wait" /\ a.attempt = 1 -> 4
      [] a.pc = "post" -> 5
      [] a.pc = "log_started" -> 6
      [] a.pc = "execute" -> 7
      [] a.pc = "log_granted" -> 8
      [] a.pc \in {"approve", "reapprove"} -> 9

\* Every step of an approve call that has begun brings it nearer to its end.
DispatchAdvances ==
    [][\A d \in Approvers :
        approver[d].pc # "idle" /\ approver'[d] # approver[d]
        => StepsLeft(approver'[d]) < StepsLeft(approver[d])]_vars

\* An approve call ends after nine steps at most, its two attempts and their failure
\* included: no race and no answer of n8n sends it back to an earlier one.  With
\* NoneAbandoned and a handler that keeps running this is why no action stays executing.
THEOREM ApproveCallsEnd == Spec => DispatchAdvances
<1> USE DEF ToApprover, EndApprover, IdleApprover, StepsLeft
<1> DEFINE Nearer(d) ==
        approver[d].pc # "idle" /\ approver'[d] # approver[d]
        => StepsLeft(approver'[d]) < StepsLeft(approver[d])
<1>1. ASSUME TypeOK, [Next]_vars, NEW d \in Approvers
      PROVE  Nearer(d)
  <2>a. approver \in [Approvers -> Approver]
    BY <1>1 DEF TypeOK
  <2>b. UNCHANGED approver => Nearer(d)
    OBVIOUS
  <2>1. ASSUME NEW e \in Approvers, Approve(e)
        PROVE  Nearer(d)
    BY <2>1, <2>a DEF Approve, ApproveRead, ApproveGrant, ApproveLostRace, ApproveLog
  <2>2. ASSUME NEW e \in Approvers, Dispatch(e)
        PROVE  Nearer(d)
    <3>1. CASE DispatchClaim(e) \/ DispatchLostRace(e) \/ DispatchLog(e)
      BY <3>1, <2>a DEF DispatchClaim, DispatchLostRace, DispatchLog
    <3>2. CASE DispatchPost(e) \/ DispatchRetry(e)
      BY <3>2, <2>a DEF DispatchPost, DispatchRetry, SendPost
    <3>3. CASE DispatchAnswered(e)
      BY <3>3, <2>a DEF DispatchAnswered
    <3>4. CASE DispatchReference(e) \/ DispatchFail(e) \/ DispatchLogFailure(e)
      BY <3>4, <2>a DEF DispatchReference, DispatchFail, DispatchLogFailure
    <3> QED
      BY <2>2, <3>1, <3>2, <3>3, <3>4 DEF Dispatch
  <2>3. CASE Abort
    <3>1. ASSUME NEW e \in Approvers, AbortApprover(e)
          PROVE  Nearer(d)
      <4>1. approver'[d] = approver[d] \/ approver'[d].pc = "idle"
        BY <3>1, <2>a DEF AbortApprover
      <4>2. approver[d].pc # "idle" => StepsLeft(approver[d]) > 0
        BY <2>a DEF Approver
      <4> QED
        BY <4>1, <4>2
    <3> QED
      BY <2>3, <2>b, <3>1 DEF Abort, AbortRequester, AbortRejecter, AbortCallback
  <2>4. CASE \/ \E r \in Requesters : Request(r)
             \/ \E j \in Rejecters : Reject(j)
             \/ \E p \in Posts : RunWorkflow(p)
             \/ \E c \in Callbacks : ProcessCallback(c)
    <3>1. UNCHANGED approver
      BY <2>4 DEF Request, RequestCreate, RequestLog, RequestLogDraft, Reject, RejectRead,
         RejectMark, RejectLog, RunWorkflow, WorkflowCall, WorkflowError, WorkflowRefuse,
         WorkflowAcknowledge, ProcessCallback, CallbackRead, CallbackLog, CallbackSettle,
         CallbackLostRace, CallbackReread, CallbackLogSettled, handlerVars
    <3> QED
      BY <2>b, <3>1
  <2>5. CASE UNCHANGED vars
    BY <2>5, <2>b DEF vars, handlerVars
  <2> QED
    BY <1>1, <2>1, <2>2, <2>3, <2>4, <2>5 DEF Next
<1>2. TypeOK /\ [Next]_vars
        => [\A d \in Approvers :
              approver[d].pc # "idle" /\ approver'[d] # approver[d]
              => StepsLeft(approver'[d]) < StepsLeft(approver[d])]_vars
  BY <1>1
<1> QED
  BY <1>2, TypeCorrect, PTL DEF Spec, DispatchAdvances
=============================================================================
