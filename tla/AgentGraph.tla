------------------------------ MODULE AgentGraph ------------------------------
(***************************************************************************)
(* AgentOrchestrationService: the LangGraph workflow that takes one lead   *)
(* from its request to a stored, auditable run.  Orchestrations of the     *)
(* lead run concurrently, each with its own AgentState in memory, and share*)
(* the lead's row and its external actions.  The QualificationService call *)
(* of qualify_lead is part of the graph: it keeps an agent run of its own. *)
(*                                                                         *)
(* Each database, model or embedding call is one step, and any of them may *)
(* fail, a write also after it was applied, its response lost.  A process  *)
(* may crash between two steps.  The requests agree on the lead's identity,*)
(* so both ingests of an orchestration end at the same lead: module        *)
(* LeadIngestion says when they do.                                        *)
(***************************************************************************)
EXTENDS Naturals, Sequences

CONSTANTS
    Flows,        \* orchestrations of the lead
    NoFlow,       \* the requester of an action nobody requested
    Acting,       \* those whose service has the external action service configured
    LongNamed,    \* those whose request names a contact of 186 to 200 characters
    MaxFaults     \* bound: failed calls and crashes

ASSUME FlowsAssumption == NoFlow \notin Flows
ASSUME ActingAssumption == Acting \subseteq Flows
ASSUME NamesAssumption == LongNamed \subseteq Flows
ASSUME FaultsAssumption == MaxFaults \in Nat

VARIABLES
    pc,         \* the node, or the call inside a node, an orchestration is at
    state,      \* its AgentState
    runs,       \* the agent_runs row of each orchestration
    quals,      \* the agent_runs row of each orchestration's qualification
    trail,      \* the agent_state_transitions rows of each orchestration
    evidence,   \* the orchestrations whose rag_retrievals rows are stored
    leadClass,  \* the lead's classification column
    actions,    \* the lead's external actions: the orchestration that created each
    faults      \* failed calls and crashes so far

memory == <<pc, state>>
tables == <<runs, quals, trail, evidence, leadClass, actions>>
vars == <<memory, tables, faults>>

Classes == {"HOT", "WARM", "COLD"}

\* select_route, route_to_node and the next action of each branch.
RouteOf == [HOT |-> "research", WARM |-> "nurture", COLD |-> "stop"]
BranchOf == [research |-> "research_state", nurture |-> "nurture_state",
             stop |-> "stop_state"]

\* The external action a route plans; its idempotency key is lead, type and step,
\* so the lead has at most one of each.
ActionOf == [research |-> "send_approved_email", nurture |-> "create_follow_up_task"]
ActionTypes == {"send_approved_email", "create_follow_up_task"}

Steps == {"START", "load_lead", "qualify_lead", "route_by_classification",
          "research_state", "retrieve_gtm_knowledge", "build_research_context",
          "draft_outreach_email", "request_external_action", "nurture_state",
          "stop_state", "persist_agent_state", "END"}

Outcomes == {"none", "completed", "failed"}
RunStatuses == {"none", "started", "completed", "failed"}

\* run and lead: are agent_run_id and lead_id known?  branch: has the branch node
\* set next_action?  chunks and context: what retrieval and research gave.
AgentState ==
    [lead : BOOLEAN, run : BOOLEAN, class : Classes \union {"none"},
     route : {"none", "research", "nurture", "stop"}, branch : BOOLEAN,
     chunks : {"none", "empty", "some"}, context : {"none", "fallback", "grounded"},
     draft : BOOLEAN, error : BOOLEAN, step : Steps, path : Seq(Steps \X Steps)]

FreshState ==
    [lead |-> FALSE, run |-> FALSE, class |-> "none", route |-> "none",
     branch |-> FALSE, chunks |-> "none", context |-> "none", draft |-> FALSE,
     error |-> FALSE, step |-> "START", path |-> <<>>]

Nodes == {"load", "create_run", "qualify", "create_qualification", "assess",
          "save_qualification", "complete_qualification", "fail_qualification",
          "route", "branch", "retrieve", "research", "draft", "request",
          "persist", "evidence", "trail", "close", "give_up", "end", "crashed"}

Init ==
    /\ pc = [f \in Flows |-> "load"]
    /\ state = [f \in Flows |-> FreshState]
    /\ runs = [f \in Flows |-> "none"]
    /\ quals = [f \in Flows |-> "none"]
    /\ trail = [f \in Flows |-> [path |-> <<>>, outcome |-> "none"]]
    /\ evidence = {}
    /\ leadClass = "none"
    /\ actions = [t \in ActionTypes |-> NoFlow]
    /\ faults = 0

-----------------------------------------------------------------------------
\* A transition starts where the state stands and moves it.
Moved(s, to) == [s EXCEPT !.step = to, !.path = Append(@, <<s.step, to>>)]

Continue(f, s, next) ==
    /\ state' = [state EXCEPT ![f] = s]
    /\ pc' = [pc EXCEPT ![f] = next]

Done(f, s, next) == Continue(f, s, next) /\ UNCHANGED faults

\* Faulty variant: the state does not move to the failed node.
FailedInPlace(s, step) ==
    [s EXCEPT !.path = Append(@, <<s.step, step>>), !.error = TRUE]

\* _failed_node_update: the failure is a transition too, and the graph goes on to
\* persist it.
Failed(s, step) == [Moved(s, step) EXCEPT !.error = TRUE]

Fault == faults < MaxFaults /\ faults' = faults + 1

NodeFails(f, step) == Fault /\ Continue(f, Failed(state[f], step), "persist")

-----------------------------------------------------------------------------
(* load_lead                                                                *)

Load(f) ==
    /\ pc[f] = "load"
    /\ \/ Done(f, [state[f] EXCEPT !.lead = TRUE], "create_run")
       \/ NodeFails(f, "load_lead")
    /\ UNCHANGED tables

CreateRun(f) ==
    /\ pc[f] = "create_run"
    /\ \/ /\ runs' = [runs EXCEPT ![f] = "started"]
          /\ Done(f, [Moved(state[f], "load_lead") EXCEPT !.run = TRUE], "qualify")
       \/ /\ runs' \in {runs, [runs EXCEPT ![f] = "started"]}
          /\ NodeFails(f, "load_lead")
    /\ UNCHANGED <<quals, trail, evidence, leadClass, actions>>

-----------------------------------------------------------------------------
(* qualify_lead and QualificationService.qualify                            *)

\* The service first ingests the lead once more.
Qualify(f) ==
    /\ pc[f] = "qualify"
    /\ \/ Done(f, state[f], "create_qualification")
       \/ NodeFails(f, "qualify_lead")
    /\ UNCHANGED tables

CreateQualification(f) ==
    /\ pc[f] = "create_qualification"
    /\ \/ /\ quals' = [quals EXCEPT ![f] = "started"]
          /\ Done(f, state[f], "assess")
       \/ /\ quals' \in {quals, [quals EXCEPT ![f] = "started"]}
          /\ NodeFails(f, "qualify_lead")
    /\ UNCHANGED <<runs, trail, evidence, leadClass, actions>>

\* The class the model returns, kept by the call until the node ends.  An exception
\* that is no domain error fails the node past the qualification's own handler.
Assess(f) ==
    /\ pc[f] = "assess"
    /\ \/ \E c \in Classes :
            Done(f, [state[f] EXCEPT !.class = c], "save_qualification")
       \/ Fault /\ Continue(f, state[f], "fail_qualification")
       \/ NodeFails(f, "qualify_lead")
    /\ UNCHANGED tables

\* Two orchestrations of a lead: the last writer's class stays.
SaveQualification(f) ==
    /\ pc[f] = "save_qualification"
    /\ \/ /\ leadClass' = state[f].class
          /\ Done(f, state[f], "complete_qualification")
       \/ /\ leadClass' \in {leadClass, state[f].class}
          /\ Fault /\ Continue(f, state[f], "fail_qualification")
    /\ UNCHANGED <<runs, quals, trail, evidence, actions>>

CompleteQualification(f) ==
    /\ pc[f] = "complete_qualification"
    /\ \/ /\ quals' = [quals EXCEPT ![f] = "completed"]
          /\ Done(f, Moved(state[f], "qualify_lead"), "route")
       \/ /\ quals' \in {quals, [quals EXCEPT ![f] = "completed"]}
          /\ Fault /\ Continue(f, state[f], "fail_qualification")
    /\ UNCHANGED <<runs, trail, evidence, leadClass, actions>>

\* The node fails without a class; a failure to mark the run failed is swallowed.
FailQualification(f) ==
    /\ pc[f] = "fail_qualification"
    /\ \/ quals' = [quals EXCEPT ![f] = "failed"] /\ UNCHANGED faults
       \/ quals' \in {quals, [quals EXCEPT ![f] = "failed"]} /\ Fault
    /\ Continue(f, [Failed(state[f], "qualify_lead") EXCEPT !.class = "none"], "persist")
    /\ UNCHANGED <<runs, trail, evidence, leadClass, actions>>

-----------------------------------------------------------------------------
(* route_by_classification and the branches                                 *)

RouteByClassification(f) ==
    /\ pc[f] = "route"
    /\ Done(f, [Moved(state[f], "route_by_classification")
                    EXCEPT !.route = RouteOf[state[f].class]], "branch")
    /\ UNCHANGED tables

AfterBranch(f) ==
    CASE state[f].route = "research" -> "retrieve"
      [] state[f].route = "nurture" /\ f \in Acting -> "request"
      [] OTHER -> "persist"

Branch(f) ==
    /\ pc[f] = "branch"
    /\ Done(f, [Moved(state[f], BranchOf[state[f].route]) EXCEPT !.branch = TRUE],
            AfterBranch(f))
    /\ UNCHANGED tables

RetrieveKnowledge(f) ==
    /\ pc[f] = "retrieve"
    /\ \/ \E found \in {"empty", "some"} :
            Done(f, [Moved(state[f], "retrieve_gtm_knowledge") EXCEPT !.chunks = found],
                 "research")
       \/ NodeFails(f, "retrieve_gtm_knowledge")
    /\ UNCHANGED tables

\* Without evidence the context is a fixed fallback text and no model is asked; the
\* model's own text may be that one as well, and the graph does not look at it.
BuildResearchContext(f) ==
    /\ pc[f] = "research"
    /\ \/ /\ state[f].chunks = "empty"
          /\ Done(f, [Moved(state[f], "build_research_context")
                        EXCEPT !.context = "fallback"], "persist")
       \/ /\ state[f].chunks = "some"
          /\ \/ \E text \in {"fallback", "grounded"} :
                  Done(f, [Moved(state[f], "build_research_context")
                             EXCEPT !.context = text],
                       IF f \in Acting THEN "draft" ELSE "persist")
             \/ NodeFails(f, "build_research_context")
    /\ UNCHANGED tables

\* A node that refuses its state fails like one whose call failed.
Refuse(f, step) == Done(f, Failed(state[f], step), "persist")

\* Faulty variant: the retrieved chunks are taken for an answer.
AnyText(s) == s.chunks = "some"

Grounded(s) == s.chunks = "some" /\ s.context = "grounded"

DraftOutreachEmail(f) ==
    /\ pc[f] = "draft"
    /\ IF Grounded(state[f])
         THEN \/ Done(f, [Moved(state[f], "draft_outreach_email") EXCEPT !.draft = TRUE],
                      "request")
              \/ NodeFails(f, "draft_outreach_email")
         ELSE Refuse(f, "draft_outreach_email")
    /\ UNCHANGED tables

\* request_action under the lead's key: an action that exists is answered as it
\* is.  Its audit events may fail after the row was created.  The payload is checked
\* before: "Follow up with" and a long name is no title of a task.
Requested(f) ==
    [t \in ActionTypes |->
        IF t = ActionOf[state[f].route] /\ actions[t] = NoFlow THEN f ELSE actions[t]]

Plannable(s) ==
    s.lead /\ s.run /\ s.route \in DOMAIN ActionOf /\ (s.route = "research" => s.draft)

PayloadFits(f, s) == s.route = "nurture" => f \notin LongNamed

RequestExternalAction(f) ==
    /\ pc[f] = "request"
    /\ IF Plannable(state[f]) /\ PayloadFits(f, state[f])
         THEN \/ /\ actions' = Requested(f)
                 /\ Done(f, Moved(state[f], "request_external_action"), "persist")
              \/ /\ actions' \in {actions, Requested(f)}
                 /\ NodeFails(f, "request_external_action")
         ELSE Refuse(f, "request_external_action") /\ UNCHANGED actions
    /\ UNCHANGED <<runs, quals, trail, evidence, leadClass>>

-----------------------------------------------------------------------------
(* persist_agent_state                                                      *)

HasCompleteResult(s) ==
    /\ s.lead /\ s.run /\ s.class # "none" /\ s.route # "none" /\ s.branch
    /\ s.route = "research" => s.chunks # "none" /\ s.context # "none"

\* Without a known run there is no row to attach anything to.
Persist(f) ==
    /\ pc[f] = "persist"
    /\ LET error == state[f].error \/ ~HasCompleteResult(state[f])
           stored == state[f].run /\ state[f].lead
       IN  Done(f, [state[f] EXCEPT !.error = error],
                CASE ~stored -> "end"
                  [] stored /\ ~error /\ state[f].chunks = "some" -> "evidence"
                  [] OTHER -> "trail")
    /\ UNCHANGED tables

\* Faulty variant: evidence is best effort.
EvidenceBestEffort(f) ==
    /\ pc[f] = "evidence"
    /\ \/ evidence' = evidence \union {f} /\ Done(f, state[f], "trail")
       \/ UNCHANGED evidence /\ Fault /\ Continue(f, state[f], "trail")
    /\ UNCHANGED <<runs, quals, trail, leadClass, actions>>

StoreEvidence(f) ==
    /\ pc[f] = "evidence"
    /\ \/ evidence' = evidence \union {f} /\ Done(f, state[f], "trail")
       \/ /\ evidence' \in {evidence, evidence \union {f}}
          /\ Fault /\ Continue(f, [state[f] EXCEPT !.error = TRUE], "trail")
    /\ UNCHANGED <<runs, quals, trail, leadClass, actions>>

\* Faulty variant: the status of the state, which only the end of the node sets.
StaleOutcome(f) == IF state[f].error THEN "failed" ELSE "started"

Outcome(f) == IF state[f].error THEN "failed" ELSE "completed"

FinalTransitions(f) ==
    [path |-> state[f].path \o <<<<state[f].step, "persist_agent_state">>,
                                 <<"persist_agent_state", "END">>>>,
     outcome |-> Outcome(f)]

\* One insert for the whole trail.
StoreTrail(f) ==
    /\ pc[f] = "trail"
    /\ \/ /\ trail' = [trail EXCEPT ![f] = FinalTransitions(f)]
          /\ Done(f, state[f], "close")
       \/ /\ trail' \in {trail, [trail EXCEPT ![f] = FinalTransitions(f)]}
          /\ Fault /\ Continue(f, [state[f] EXCEPT !.error = TRUE], "give_up")
    /\ UNCHANGED <<runs, quals, evidence, leadClass, actions>>

\* Faulty variant: the client gets the result although its run could not be closed.
CloseBestEffort(f) ==
    /\ pc[f] = "close"
    /\ \/ runs' = [runs EXCEPT ![f] = Outcome(f)] /\ UNCHANGED faults
       \/ UNCHANGED runs /\ Fault
    /\ Continue(f, state[f], "end")
    /\ UNCHANGED <<quals, trail, evidence, leadClass, actions>>

\* mark_failed or mark_completed_payload.
CloseRun(f) ==
    /\ pc[f] = "close"
    /\ \/ runs' = [runs EXCEPT ![f] = Outcome(f)] /\ Done(f, state[f], "end")
       \/ /\ runs' \in {runs, [runs EXCEPT ![f] = Outcome(f)]}
          /\ Fault /\ Continue(f, [state[f] EXCEPT !.error = TRUE], "give_up")
    /\ UNCHANGED <<quals, trail, evidence, leadClass, actions>>

\* Faulty variant: only the answer reports the failure.
GiveUpSilently(f) ==
    /\ pc[f] = "give_up"
    /\ Done(f, state[f], "end")
    /\ UNCHANGED tables

\* _mark_graph_run_failed: once, and a failure to do so is swallowed.
GiveUp(f) ==
    /\ pc[f] = "give_up"
    /\ Continue(f, state[f], "end")
    /\ \/ runs' = [runs EXCEPT ![f] = "failed"] /\ UNCHANGED faults
       \/ runs' \in {runs, [runs EXCEPT ![f] = "failed"]} /\ Fault
    /\ UNCHANGED <<quals, trail, evidence, leadClass, actions>>

Crash(f) ==
    /\ pc[f] \notin {"end", "crashed"}
    /\ Fault
    /\ Continue(f, state[f], "crashed")
    /\ UNCHANGED tables

-----------------------------------------------------------------------------
Node(f) ==
    \/ Load(f) \/ CreateRun(f)
    \/ Qualify(f) \/ CreateQualification(f) \/ Assess(f) \/ SaveQualification(f)
    \/ CompleteQualification(f) \/ FailQualification(f)
    \/ RouteByClassification(f) \/ Branch(f) \/ RetrieveKnowledge(f)
    \/ BuildResearchContext(f) \/ DraftOutreachEmail(f) \/ RequestExternalAction(f)
    \/ Persist(f) \/ StoreEvidence(f) \/ StoreTrail(f) \/ CloseRun(f) \/ GiveUp(f)

Next == \E f \in Flows : Node(f) \/ Crash(f)

Spec == Init /\ [][Next]_vars

-----------------------------------------------------------------------------
(* Properties                                                               *)

TypeOK ==
    /\ pc \in [Flows -> Nodes]
    /\ state \in [Flows -> AgentState]
    /\ runs \in [Flows -> RunStatuses]
    /\ quals \in [Flows -> RunStatuses]
    /\ trail \in [Flows -> [path : Seq(Steps \X Steps), outcome : Outcomes]]
    /\ evidence \subseteq Flows
    /\ leadClass \in Classes \union {"none"}
    /\ actions \in [ActionTypes -> Flows \union {NoFlow}]
    /\ faults \in Nat

\* The action a completed run has planned.
Plans(f, t) ==
    f \in Acting /\ state[f].route \in DOMAIN ActionOf /\ t = ActionOf[state[f].route]
    /\ (state[f].route = "research" => state[f].chunks = "some")

\* The walk a completed orchestration leaves behind, as the states after START.
ExpectedWalk(s, acting) ==
    <<"load_lead", "qualify_lead", "route_by_classification", BranchOf[RouteOf[s.class]]>>
    \o (IF s.class = "HOT"
          THEN <<"retrieve_gtm_knowledge", "build_research_context">> ELSE <<>>)
    \o (IF s.class = "HOT" /\ s.chunks = "some" /\ acting
          THEN <<"draft_outreach_email">> ELSE <<>>)
    \o (IF acting /\ (s.class = "WARM" \/ (s.class = "HOT" /\ s.chunks = "some"))
          THEN <<"request_external_action">> ELSE <<>>)
    \o <<"persist_agent_state", "END">>

Visited(path) == [k \in 1 .. Len(path) |-> path[k][2]]

\* Everything is stored that a completed run claims: the whole trail of its class, a
\* completed qualification, the evidence of its research and the action it planned.
Backing(f) ==
    /\ trail[f].outcome = "completed"
    /\ Visited(trail[f].path) = ExpectedWalk(state[f], f \in Acting)
    /\ quals[f] = "completed"
    /\ leadClass # "none"
    /\ state[f].chunks = "some" => f \in evidence
    /\ "request_external_action" \in {trail[f].path[k][2] : k \in DOMAIN trail[f].path}
        => actions[ActionOf[state[f].route]] # NoFlow

\* A run that the database calls completed is backed by everything it claims,
\* whichever calls failed on the way.
CompletedRunIsBacked == \A f \in Flows : runs[f] = "completed" => Backing(f)

\* The edges of the compiled graph, with those a failed node takes.
GraphEdges ==
    {<<"START", "load_lead">>, <<"load_lead", "qualify_lead">>,
     <<"qualify_lead", "route_by_classification">>,
     <<"research_state", "retrieve_gtm_knowledge">>,
     <<"retrieve_gtm_knowledge", "build_research_context">>,
     <<"build_research_context", "draft_outreach_email">>,
     <<"draft_outreach_email", "request_external_action">>,
     <<"nurture_state", "request_external_action">>,
     <<"persist_agent_state", "END">>}
    \union {<<"route_by_classification", n>> :
                n \in {"research_state", "nurture_state", "stop_state"}}
    \union {<<n, "persist_agent_state">> :
                n \in Steps \ {"START", "persist_agent_state", "END",
                               "route_by_classification", "research_state"}}

\* A stored trail, of a failed run too, is a walk through the graph from START to
\* END without a gap.  It leaves and enters no step twice: its rows are inserted
\* together and share their created_at, by which readers order them, so only this
\* lets an auditor put them in order again.
TrailIsWalk ==
    \A f \in Flows : trail[f].outcome # "none" =>
        LET path == trail[f].path IN
        /\ path[1][1] = "START"
        /\ path[Len(path)][2] = "END"
        /\ \A k \in 1 .. Len(path) : path[k] \in GraphEdges
        /\ \A k \in 1 .. Len(path) - 1 : path[k][2] = path[k + 1][1]
        /\ \A j, k \in 1 .. Len(path) :
              path[j][1] = path[k][1] \/ path[j][2] = path[k][2] => j = k

\* A client that got a result finds the run completed.  And as long as only one
\* call failed, the run of a client that got an error is not left open and not
\* called completed.
ResponseMatchesRun ==
    \A f \in Flows : pc[f] = "end" =>
        /\ ~state[f].error => runs[f] = "completed"
        /\ state[f].error /\ state[f].run /\ faults <= 1 => runs[f] = "failed"

\* Every external action was planned by an orchestration whose own classification
\* asks for it; an email moreover rests on evidence, a grounded context and a
\* draft of that orchestration.  A COLD orchestration never acts.
ActionsAreGrounded ==
    \A t \in ActionTypes : actions[t] # NoFlow =>
        LET s == state[actions[t]] IN
        /\ s.class = IF t = "send_approved_email" THEN "HOT" ELSE "WARM"
        /\ t = "send_approved_email" =>
            s.chunks = "some" /\ s.context = "grounded" /\ s.draft

\* What the client of an orchestration was told.
Told(f) == IF pc[f] # "end" THEN "none" ELSE IF state[f].error THEN "error" ELSE "result"

\* The data that a later node of an acting orchestration refuses, whatever else works:
\* a name too long for the task its route plans, the fallback as the model's text.
Unfit(f, s) ==
    /\ f \in Acting
    /\ \/ s.chunks = "some" /\ s.context = "fallback"
       \/ s.route = "nurture" /\ f \in LongNamed

\* The graph keeps what an orchestration promises: it completes a run only when all is
\* stored, takes back no failure and no stored row, answers as the run ended, and
\* leaves a run alone once its client has the answer, which is an error only after a
\* failed call or for data that a node refuses, and then never a result.
Run == INSTANCE AuditedRun
           WITH status <- runs,
                known <- {f \in Flows : state[f].run},
                backed <- {f \in Flows : Backing(f)},
                unfit <- {f \in Flows : Unfit(f, state[f])},
                answer <- [f \in Flows |-> Told(f)]

RunSpec == Run!Spec
=============================================================================
