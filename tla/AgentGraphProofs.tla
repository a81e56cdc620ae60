--------------------------- MODULE AgentGraphProofs ---------------------------
(***************************************************************************)
(* What AgentGraph guarantees for any number of concurrent orchestrations  *)
(* and any number of failed calls and crashes.                             *)
(***************************************************************************)
EXTENDS AgentGraph, SequenceTheorems, TLAPS

-----------------------------------------------------------------------------
(* Transitions and failures                                                 *)

Path == Seq(Steps \X Steps)

\* What a transition leaves alone.
SameResult(s, t) ==
    /\ t.lead = s.lead /\ t.run = s.run /\ t.class = s.class /\ t.route = s.route
    /\ t.branch = s.branch /\ t.chunks = s.chunks /\ t.context = s.context
    /\ t.draft = s.draft

LEMMA AppendTyped ==
    ASSUME NEW p \in Path, NEW a \in Steps, NEW b \in Steps
    PROVE  Append(p, <<a, b>>) \in Path
    BY DEF Path

LEMMA MovedTyped ==
    ASSUME NEW s \in AgentState, NEW to \in Steps
    PROVE  /\ Moved(s, to) \in AgentState
           /\ SameResult(s, Moved(s, to))
           /\ Moved(s, to).error = s.error
<1>1. Append(s.path, <<s.step, to>>) \in Path
    BY AppendTyped DEF AgentState, Path
<1> DEFINE p == Append(s.path, <<s.step, to>>)
<1>2. Moved(s, to) = [s EXCEPT !.step = to, !.path = p]
    BY DEF Moved
<1> HIDE DEF p
<1>3. p \in Path
    BY <1>1 DEF p
<1>4. QED  BY <1>2, <1>3 DEF AgentState, SameResult, Path

LEMMA FailedTyped ==
    ASSUME NEW s \in AgentState, NEW step \in Steps
    PROVE  /\ Failed(s, step) \in AgentState
           /\ SameResult(s, Failed(s, step))
           /\ Failed(s, step).error = TRUE
<1> DEFINE m == Moved(s, step)
<1>1. m \in AgentState /\ SameResult(s, m)
    BY MovedTyped
<1>2. Failed(s, step) = [m EXCEPT !.error = TRUE]
    BY DEF Failed
<1> HIDE DEF m
<1>3. Failed(s, step) \in AgentState
    BY <1>1, <1>2 DEF AgentState
<1>4. Failed(s, step).error = TRUE
    BY <1>1, <1>2 DEF AgentState
<1>5. SameResult(m, Failed(s, step))
    BY <1>1, <1>2 DEF AgentState, SameResult
<1>6. QED  BY <1>1, <1>3, <1>4, <1>5 DEF SameResult

-----------------------------------------------------------------------------
(* The state of one orchestration                                           *)

Assessed == {"save_qualification", "complete_qualification", "route", "branch",
             "retrieve", "research", "draft", "request"}
Routed == {"branch", "retrieve", "research", "draft", "request"}
Undrafted == {"retrieve", "research"}

\* What the state at a node says of the way there.
Shape(n, s) ==
    /\ n \in Nodes
    /\ s \in AgentState
    /\ s.run => s.lead
    /\ n \in {"load", "create_run", "qualify", "create_qualification", "assess",
              "save_qualification", "complete_qualification", "fail_qualification",
              "route", "branch"} \union Undrafted => ~s.draft
    /\ n \in Assessed => s.class \in Classes
    /\ n \in Routed => s.route = RouteOf[s.class]
    /\ s.draft => Grounded(s)
    /\ n = "create_run" => s.lead
    /\ n = "give_up" => s.error

Shapes == pc \in [Flows -> Nodes] /\ state \in [Flows -> AgentState]
          /\ \A f \in Flows : Shape(pc[f], state[f])

Others(f) == \A g \in Flows \ {f} : pc'[g] = pc[g] /\ state'[g] = state[g]

LEMMA ContinueShape ==
    ASSUME Shapes, NEW f \in Flows, NEW s, NEW next, Continue(f, s, next), Shape(next, s)
    PROVE  /\ Shapes' /\ Others(f)
           /\ pc'[f] = next /\ state'[f] = s
    BY DEF Shapes, Shape, Continue, Others

\* A failed node leaves the shape of the node that persists it.
LEMMA FailShape ==
    ASSUME Shapes, NEW f \in Flows, NEW step \in Steps,
           Continue(f, Failed(state[f], step), "persist")
    PROVE  /\ Shapes' /\ Others(f)
           /\ pc'[f] = "persist" /\ state'[f] = Failed(state[f], step)
<1>1. state[f] \in AgentState /\ Shape(pc[f], state[f])
    BY DEF Shapes
<1>2. Failed(state[f], step) \in AgentState /\ SameResult(state[f], Failed(state[f], step))
    BY <1>1, FailedTyped
<1>3. Shape("persist", Failed(state[f], step))
    BY <1>1, <1>2 DEF Shape, SameResult, Grounded, Nodes, Assessed, Routed, Undrafted
<1>4. QED  BY <1>3, ContinueShape

LEMMA KeepShape ==
    ASSUME Shapes, NEW f \in Flows,
           NEW next \in {"create_qualification", "assess", "fail_qualification",
                         "complete_qualification", "close", "end", "crashed", "trail"},
           next \in {"create_qualification", "assess", "fail_qualification"}
                => pc[f] \in {"qualify", "create_qualification", "assess",
                              "save_qualification", "complete_qualification"},
           next = "complete_qualification" => pc[f] = "save_qualification",
           Continue(f, state[f], next)
    PROVE  /\ Shapes' /\ Others(f)
           /\ pc'[f] = next /\ state'[f] = state[f]
<1>1. Shape(pc[f], state[f])
    BY DEF Shapes
<1>2. Shape(next, state[f])
    BY <1>1 DEF Shape, Nodes, Assessed, Routed, Undrafted
<1>3. QED  BY <1>2, ContinueShape

\* An error recorded without a transition.
LEMMA ErrorShape ==
    ASSUME Shapes, NEW f \in Flows, NEW e \in BOOLEAN,
           NEW next \in {"trail", "give_up", "evidence", "end"}, next = "give_up" => e,
           Continue(f, [state[f] EXCEPT !.error = e], next)
    PROVE  /\ Shapes' /\ Others(f)
           /\ pc'[f] = next /\ state'[f] = [state[f] EXCEPT !.error = e]
<1> DEFINE s == [state[f] EXCEPT !.error = e]
<1>1. Shape(pc[f], state[f]) /\ state[f] \in AgentState
    BY DEF Shapes
<1>2. s \in AgentState /\ SameResult(state[f], s) /\ s.error = e
    BY <1>1 DEF AgentState, SameResult
<1> HIDE DEF s
<1>3. Shape(next, s)
    BY <1>1, <1>2 DEF Shape, SameResult, Grounded, Nodes, Assessed, Routed, Undrafted
<1>4. Continue(f, s, next)
    BY DEF s
<1>5. QED  BY <1>3, <1>4, ContinueShape DEF s

-----------------------------------------------------------------------------
(* The nodes keep the shape                                                 *)

LEMMA LoadShape ==
    ASSUME Shapes, NEW f \in Flows, pc[f] = "load",
           Continue(f, [state[f] EXCEPT !.lead = TRUE], "create_run")
    PROVE  Shapes' /\ Others(f)
<1> DEFINE s == [state[f] EXCEPT !.lead = TRUE]
<1>1. Shape("load", state[f]) /\ state[f] \in AgentState
    BY DEF Shapes
<1>2. s \in AgentState /\ s.lead /\ s.draft = state[f].draft
    BY <1>1 DEF AgentState
<1> HIDE DEF s
<1>3. Shape("create_run", s)
    BY <1>1, <1>2 DEF Shape, Nodes, Assessed, Routed, Undrafted
<1>4. QED  BY <1>3, ContinueShape DEF s

LEMMA CreateRunShape ==
    ASSUME Shapes, NEW f \in Flows, pc[f] = "create_run",
           Continue(f, [Moved(state[f], "load_lead") EXCEPT !.run = TRUE], "qualify")
    PROVE  Shapes' /\ Others(f)
<1> DEFINE m == Moved(state[f], "load_lead")
           s == [m EXCEPT !.run = TRUE]
<1>1. Shape("create_run", state[f]) /\ state[f] \in AgentState
    BY DEF Shapes
<1>2. m \in AgentState /\ SameResult(state[f], m)
    BY <1>1, MovedTyped DEF Steps
<1> HIDE DEF m
<1>3. s \in AgentState /\ s.lead = m.lead /\ s.draft = m.draft
    BY <1>2 DEF AgentState
<1> HIDE DEF s
<1>4. Shape("qualify", s)
    BY <1>1, <1>2, <1>3 DEF Shape, SameResult, Nodes, Assessed, Routed, Undrafted
<1>5. QED  BY <1>4, ContinueShape DEF s, m

LEMMA AssessShape ==
    ASSUME Shapes, NEW f \in Flows, pc[f] = "assess", NEW c \in Classes,
           Continue(f, [state[f] EXCEPT !.class = c], "save_qualification")
    PROVE  Shapes' /\ Others(f)
<1> DEFINE s == [state[f] EXCEPT !.class = c]
<1>1. Shape("assess", state[f]) /\ state[f] \in AgentState
    BY DEF Shapes
<1>2. s \in AgentState /\ s.class = c /\ s.draft = state[f].draft
      /\ s.run = state[f].run /\ s.lead = state[f].lead
    BY <1>1 DEF AgentState
<1> HIDE DEF s
<1>3. Shape("save_qualification", s)
    BY <1>1, <1>2 DEF Shape, Nodes, Assessed, Routed, Undrafted
<1>4. QED  BY <1>3, ContinueShape DEF s

LEMMA CompleteQualificationShape ==
    ASSUME Shapes, NEW f \in Flows, pc[f] = "complete_qualification",
           Continue(f, Moved(state[f], "qualify_lead"), "route")
    PROVE  Shapes' /\ Others(f)
<1>1. Shape("complete_qualification", state[f]) /\ state[f] \in AgentState
    BY DEF Shapes
<1>2. Moved(state[f], "qualify_lead") \in AgentState
      /\ SameResult(state[f], Moved(state[f], "qualify_lead"))
    BY <1>1, MovedTyped DEF Steps
<1>3. Shape("route", Moved(state[f], "qualify_lead"))
    BY <1>1, <1>2 DEF Shape, SameResult, Nodes, Assessed, Routed, Undrafted
<1>4. QED  BY <1>3, ContinueShape

LEMMA FailQualificationShape ==
    ASSUME Shapes, NEW f \in Flows, pc[f] = "fail_qualification",
           Continue(f, [Failed(state[f], "qualify_lead") EXCEPT !.class = "none"], "persist")
    PROVE  Shapes' /\ Others(f)
<1> DEFINE m == Failed(state[f], "qualify_lead")
           s == [m EXCEPT !.class = "none"]
<1>1. Shape("fail_qualification", state[f]) /\ state[f] \in AgentState
    BY DEF Shapes
<1>2. m \in AgentState /\ SameResult(state[f], m)
    BY <1>1, FailedTyped DEF Steps
<1> HIDE DEF m
<1>3. s \in AgentState /\ s.lead = m.lead /\ s.run = m.run /\ s.draft = m.draft
    BY <1>2 DEF AgentState
<1> HIDE DEF s
<1>4. Shape("persist", s)
    BY <1>1, <1>2, <1>3 DEF Shape, SameResult, Nodes, Assessed, Routed, Undrafted
<1>5. QED  BY <1>4, ContinueShape DEF s, m

LEMMA RouteShape ==
    ASSUME Shapes, NEW f \in Flows, pc[f] = "route",
           Continue(f, [Moved(state[f], "route_by_classification")
                            EXCEPT !.route = RouteOf[state[f].class]], "branch")
    PROVE  Shapes' /\ Others(f)
<1> DEFINE m == Moved(state[f], "route_by_classification")
           s == [m EXCEPT !.route = RouteOf[state[f].class]]
<1>1. Shape("route", state[f]) /\ state[f] \in AgentState
    BY DEF Shapes
<1>2. m \in AgentState /\ SameResult(state[f], m)
    BY <1>1, MovedTyped DEF Steps
<1>3. state[f].class \in Classes
    BY <1>1 DEF Shape, Assessed
<1>4. RouteOf[state[f].class] \in {"research", "nurture", "stop"}
    BY <1>3 DEF RouteOf, Classes
<1> HIDE DEF m
<1>5. s \in AgentState /\ s.route = RouteOf[m.class] /\ s.class = m.class
      /\ s.lead = m.lead /\ s.run = m.run /\ s.draft = m.draft
    BY <1>2, <1>4 DEF AgentState, SameResult
<1> HIDE DEF s
<1>6. Shape("branch", s)
    BY <1>1, <1>2, <1>3, <1>5
    DEF Shape, SameResult, Nodes, Assessed, Routed, Undrafted
<1>7. QED  BY <1>6, ContinueShape DEF s, m

LEMMA BranchShape ==
    ASSUME Shapes, NEW f \in Flows, pc[f] = "branch",
           Continue(f, [Moved(state[f], BranchOf[state[f].route]) EXCEPT !.branch = TRUE],
                    AfterBranch(f))
    PROVE  Shapes' /\ Others(f)
<1> DEFINE m == Moved(state[f], BranchOf[state[f].route])
           s == [m EXCEPT !.branch = TRUE]
<1>1. Shape("branch", state[f]) /\ state[f] \in AgentState
    BY DEF Shapes
<1>2. state[f].class \in Classes /\ state[f].route = RouteOf[state[f].class]
    BY <1>1 DEF Shape, Assessed, Routed
<1>3. BranchOf[state[f].route] \in Steps
    BY <1>2 DEF RouteOf, Classes, BranchOf, Steps
<1>4. m \in AgentState /\ SameResult(state[f], m)
    BY <1>1, <1>3, MovedTyped
<1> HIDE DEF m
<1>5. s \in AgentState /\ s.route = m.route /\ s.class = m.class
      /\ s.lead = m.lead /\ s.run = m.run /\ s.draft = m.draft
    BY <1>4 DEF AgentState
<1>6. AfterBranch(f) \in {"retrieve", "request", "persist"}
    BY DEF AfterBranch
<1> HIDE DEF s
<1>7. Shape(AfterBranch(f), s)
    BY <1>1, <1>2, <1>4, <1>5, <1>6
    DEF Shape, SameResult, Nodes, Assessed, Routed, Undrafted
<1>8. QED  BY <1>7, ContinueShape DEF s, m

LEMMA RetrieveShape ==
    ASSUME Shapes, NEW f \in Flows, pc[f] = "retrieve", NEW found \in {"empty", "some"},
           Continue(f, [Moved(state[f], "retrieve_gtm_knowledge") EXCEPT !.chunks = found],
                    "research")
    PROVE  Shapes' /\ Others(f)
<1> DEFINE m == Moved(state[f], "retrieve_gtm_knowledge")
           s == [m EXCEPT !.chunks = found]
<1>1. Shape("retrieve", state[f]) /\ state[f] \in AgentState
    BY DEF Shapes
<1>2. m \in AgentState /\ SameResult(state[f], m)
    BY <1>1, MovedTyped DEF Steps
<1> HIDE DEF m
<1>3. s \in AgentState /\ s.route = m.route /\ s.class = m.class
      /\ s.lead = m.lead /\ s.run = m.run /\ s.draft = m.draft
    BY <1>2 DEF AgentState
<1> HIDE DEF s
<1>4. Shape("research", s)
    BY <1>1, <1>2, <1>3 DEF Shape, SameResult, Nodes, Assessed, Routed, Undrafted
<1>5. QED  BY <1>4, ContinueShape DEF s, m

LEMMA ResearchShape ==
    ASSUME Shapes, NEW f \in Flows, pc[f] = "research",
           NEW context \in {"fallback", "grounded"}, NEW next \in {"draft", "persist"},
           Continue(f, [Moved(state[f], "build_research_context")
                            EXCEPT !.context = context], next)
    PROVE  Shapes' /\ Others(f)
<1> DEFINE m == Moved(state[f], "build_research_context")
           s == [m EXCEPT !.context = context]
<1>1. Shape("research", state[f]) /\ state[f] \in AgentState
    BY DEF Shapes
<1>2. m \in AgentState /\ SameResult(state[f], m)
    BY <1>1, MovedTyped DEF Steps
<1> HIDE DEF m
<1>3. s \in AgentState /\ s.route = m.route /\ s.class = m.class
      /\ s.lead = m.lead /\ s.run = m.run /\ s.draft = m.draft
    BY <1>2 DEF AgentState
<1> HIDE DEF s
<1>4. Shape(next, s)
    BY <1>1, <1>2, <1>3 DEF Shape, SameResult, Nodes, Assessed, Routed, Undrafted
<1>5. QED  BY <1>4, ContinueShape DEF s, m

LEMMA DraftShape ==
    ASSUME Shapes, NEW f \in Flows, pc[f] = "draft", Grounded(state[f]),
           Continue(f, [Moved(state[f], "draft_outreach_email") EXCEPT !.draft = TRUE],
                    "request")
    PROVE  Shapes' /\ Others(f)
<1> DEFINE m == Moved(state[f], "draft_outreach_email")
           s == [m EXCEPT !.draft = TRUE]
<1>1. Shape("draft", state[f]) /\ state[f] \in AgentState
    BY DEF Shapes
<1>2. m \in AgentState /\ SameResult(state[f], m)
    BY <1>1, MovedTyped DEF Steps
<1> HIDE DEF m
<1>3. s \in AgentState /\ s.route = m.route /\ s.class = m.class
      /\ s.lead = m.lead /\ s.run = m.run /\ s.chunks = m.chunks /\ s.context = m.context
    BY <1>2 DEF AgentState
<1> HIDE DEF s
<1>4. Shape("request", s)
    BY <1>1, <1>2, <1>3 DEF Shape, SameResult, Grounded, Nodes, Assessed, Routed, Undrafted
<1>5. QED  BY <1>4, ContinueShape DEF s, m

LEMMA RequestShape ==
    ASSUME Shapes, NEW f \in Flows, pc[f] = "request",
           Continue(f, Moved(state[f], "request_external_action"), "persist")
    PROVE  Shapes' /\ Others(f) /\ pc'[f] = "persist"
           /\ state'[f] = Moved(state[f], "request_external_action")
<1>1. Shape("request", state[f]) /\ state[f] \in AgentState
    BY DEF Shapes
<1>2. Moved(state[f], "request_external_action") \in AgentState
      /\ SameResult(state[f], Moved(state[f], "request_external_action"))
    BY <1>1, MovedTyped DEF Steps
<1>3. Shape("persist", Moved(state[f], "request_external_action"))
    BY <1>1, <1>2 DEF Shape, SameResult, Grounded, Nodes, Assessed, Routed, Undrafted
<1>4. QED  BY <1>3, ContinueShape

LEMMA NodeShape ==
    ASSUME Shapes, NEW f \in Flows, Node(f) \/ Crash(f)
    PROVE  Shapes' /\ Others(f)
<1>1. CASE Load(f)
    BY <1>1, LoadShape, FailShape DEF Load, Done, NodeFails, Steps
<1>2. CASE CreateRun(f)
    BY <1>2, CreateRunShape, FailShape DEF CreateRun, Done, NodeFails, Steps
<1>3. CASE Qualify(f)
    BY <1>3, KeepShape, FailShape DEF Qualify, Done, NodeFails, Steps
<1>4. CASE CreateQualification(f)
    BY <1>4, KeepShape, FailShape DEF CreateQualification, Done, NodeFails, Steps
<1>5. CASE Assess(f)
    BY <1>5, AssessShape, KeepShape, FailShape DEF Assess, Done, NodeFails, Steps
<1>6. CASE SaveQualification(f)
    BY <1>6, KeepShape DEF SaveQualification, Done
<1>7. CASE CompleteQualification(f)
    BY <1>7, CompleteQualificationShape, KeepShape DEF CompleteQualification, Done
<1>8. CASE FailQualification(f)
    BY <1>8, FailQualificationShape DEF FailQualification
<1>9. CASE RouteByClassification(f)
    BY <1>9, RouteShape DEF RouteByClassification, Done
<1>10. CASE Branch(f)
    BY <1>10, BranchShape DEF Branch, Done
<1>11. CASE RetrieveKnowledge(f)
    BY <1>11, RetrieveShape, FailShape DEF RetrieveKnowledge, Done, NodeFails, Steps
<1>12. CASE BuildResearchContext(f)
    <2>1. pc[f] = "research"
        BY <1>12 DEF BuildResearchContext
    <2>2. \/ Continue(f, [Moved(state[f], "build_research_context")
                            EXCEPT !.context = "fallback"], "persist")
          \/ \E text \in {"fallback", "grounded"} :
                Continue(f, [Moved(state[f], "build_research_context")
                                EXCEPT !.context = text],
                         IF f \in Acting THEN "draft" ELSE "persist")
          \/ Continue(f, Failed(state[f], "build_research_context"), "persist")
        BY <1>12 DEF BuildResearchContext, Done, NodeFails
    <2>3. QED  BY <2>1, <2>2, ResearchShape, FailShape DEF Steps
<1>13. CASE DraftOutreachEmail(f)
    BY <1>13, DraftShape, FailShape DEF DraftOutreachEmail, Refuse, Done, NodeFails, Steps
<1>14. CASE RequestExternalAction(f)
    BY <1>14, RequestShape, FailShape DEF RequestExternalAction, Refuse, Done, NodeFails, Steps
<1>15. CASE Persist(f)
    <2> DEFINE e == state[f].error \/ ~HasCompleteResult(state[f])
    <2>1. PICK next \in {"end", "evidence", "trail"} :
            Continue(f, [state[f] EXCEPT !.error = e], next)
        BY <1>15 DEF Persist, Done
    <2>2. e \in BOOLEAN
        OBVIOUS
    <2> HIDE DEF e
    <2>3. QED  BY <2>1, <2>2, ErrorShape
<1>16. CASE StoreEvidence(f)
    BY <1>16, KeepShape, ErrorShape DEF StoreEvidence, Done
<1>17. CASE StoreTrail(f)
    BY <1>17, KeepShape, ErrorShape DEF StoreTrail, Done
<1>18. CASE CloseRun(f)
    BY <1>18, KeepShape, ErrorShape DEF CloseRun, Done
<1>19. CASE GiveUp(f)
    BY <1>19, KeepShape DEF GiveUp
<1>20. CASE Crash(f)
    BY <1>20, KeepShape DEF Crash
<1>21. QED  BY <1>1, <1>2, <1>3, <1>4, <1>5, <1>6, <1>7, <1>8, <1>9, <1>10, <1>11, <1>12,
               <1>13, <1>14, <1>15, <1>16, <1>17, <1>18, <1>19, <1>20 DEF Node

-----------------------------------------------------------------------------
(* Types                                                                    *)

Tables ==
    /\ runs \in [Flows -> RunStatuses]
    /\ quals \in [Flows -> RunStatuses]
    /\ trail \in [Flows -> [path : Path, outcome : Outcomes]]
    /\ evidence \subseteq Flows
    /\ leadClass \in Classes \union {"none"}
    /\ actions \in [ActionTypes -> Flows \union {NoFlow}]
    /\ faults \in Nat

LEMMA FinalTransitionsTyped ==
    ASSUME Shapes, NEW f \in Flows
    PROVE  FinalTransitions(f) \in [path : Path, outcome : Outcomes]
<1>1. state[f] \in AgentState
    BY DEF Shapes
<1>2. state[f].path \in Path /\ state[f].step \in Steps
    BY <1>1 DEF AgentState, Path
<1> DEFINE ending == <<<<state[f].step, "persist_agent_state">>,
                       <<"persist_agent_state", "END">>>>
<1>3. ending \in Path
    BY <1>2 DEF Path, Steps
<1> HIDE DEF ending
<1>4. state[f].path \o ending \in Path
    BY <1>2, <1>3 DEF Path
<1>5. Outcome(f) \in Outcomes
    BY DEF Outcome, Outcomes
<1>6. QED  BY <1>4, <1>5 DEF FinalTransitions, ending

\* A call fails or it does not: faults only grow.
LEMMA FaultsGrow ==
    ASSUME faults \in Nat, NEW f \in Flows, Node(f) \/ Crash(f)
    PROVE  faults' \in Nat /\ faults' >= faults
<1>1. UNCHANGED faults \/ Fault
    BY DEF Node, Load, CreateRun, Qualify, CreateQualification, Assess, SaveQualification,
           CompleteQualification, FailQualification, RouteByClassification, Branch,
           RetrieveKnowledge, BuildResearchContext, DraftOutreachEmail, Refuse,
           RequestExternalAction, Persist, StoreEvidence, StoreTrail, CloseRun, GiveUp,
           Crash, Done, NodeFails
<1>2. QED  BY <1>1 DEF Fault

LEMMA NodeTables ==
    ASSUME Shapes, Tables, NEW f \in Flows, Node(f) \/ Crash(f)
    PROVE  Tables'
<1>0. state[f] \in AgentState /\ Shape(pc[f], state[f])
    BY DEF Shapes
<1>1. faults' \in Nat
    BY FaultsGrow DEF Tables
<1>2. runs' \in [Flows -> RunStatuses]
    <2>1. \/ UNCHANGED runs
          \/ \E status \in RunStatuses : runs' = [runs EXCEPT ![f] = status]
        BY DEF Node, Load, CreateRun, Qualify, CreateQualification, Assess,
               SaveQualification, CompleteQualification, FailQualification,
               RouteByClassification, Branch, RetrieveKnowledge, BuildResearchContext,
               DraftOutreachEmail, RequestExternalAction, Persist, StoreEvidence,
               StoreTrail, CloseRun, GiveUp, Crash, Outcome, RunStatuses, tables
    <2>2. QED  BY <2>1 DEF Tables
<1>3. quals' \in [Flows -> RunStatuses]
    <2>1. \/ UNCHANGED quals
          \/ \E status \in RunStatuses : quals' = [quals EXCEPT ![f] = status]
        BY DEF Node, Load, CreateRun, Qualify, CreateQualification, Assess,
               SaveQualification, CompleteQualification, FailQualification,
               RouteByClassification, Branch, RetrieveKnowledge, BuildResearchContext,
               DraftOutreachEmail, RequestExternalAction, Persist, StoreEvidence,
               StoreTrail, CloseRun, GiveUp, Crash, RunStatuses, tables
    <2>2. QED  BY <2>1 DEF Tables
<1>4. trail' \in [Flows -> [path : Path, outcome : Outcomes]]
    <2>1. UNCHANGED trail \/ trail' = [trail EXCEPT ![f] = FinalTransitions(f)]
        BY DEF Node, Load, CreateRun, Qualify, CreateQualification, Assess,
               SaveQualification, CompleteQualification, FailQualification,
               RouteByClassification, Branch, RetrieveKnowledge, BuildResearchContext,
               DraftOutreachEmail, RequestExternalAction, Persist, StoreEvidence,
               StoreTrail, CloseRun, GiveUp, Crash, tables
    <2>2. QED  BY <2>1, FinalTransitionsTyped DEF Tables
<1>5. evidence' \subseteq Flows
    <2>1. evidence' \subseteq evidence \union {f}
        BY DEF Node, Load, CreateRun, Qualify, CreateQualification, Assess,
               SaveQualification, CompleteQualification, FailQualification,
               RouteByClassification, Branch, RetrieveKnowledge, BuildResearchContext,
               DraftOutreachEmail, RequestExternalAction, Persist, StoreEvidence,
               StoreTrail, CloseRun, GiveUp, Crash, tables
    <2>2. QED  BY <2>1 DEF Tables
<1>6. leadClass' \in Classes \union {"none"}
    <2>1. leadClass' \in {leadClass, state[f].class}
        BY DEF Node, Load, CreateRun, Qualify, CreateQualification, Assess,
               SaveQualification, CompleteQualification, FailQualification,
               RouteByClassification, Branch, RetrieveKnowledge, BuildResearchContext,
               DraftOutreachEmail, RequestExternalAction, Persist, StoreEvidence,
               StoreTrail, CloseRun, GiveUp, Crash, tables
    <2>2. state[f].class \in Classes \union {"none"}
        BY <1>0 DEF AgentState
    <2>3. QED  BY <2>1, <2>2 DEF Tables
<1>7. actions' \in [ActionTypes -> Flows \union {NoFlow}]
    <2>1. actions' \in {actions, Requested(f)}
        BY DEF Node, Load, CreateRun, Qualify, CreateQualification, Assess,
               SaveQualification, CompleteQualification, FailQualification,
               RouteByClassification, Branch, RetrieveKnowledge, BuildResearchContext,
               DraftOutreachEmail, RequestExternalAction, Persist, StoreEvidence,
               StoreTrail, CloseRun, GiveUp, Crash, tables
    <2>2. Requested(f) \in [ActionTypes -> Flows \union {NoFlow}]
        BY DEF Requested, Tables
    <2>3. QED  BY <2>1, <2>2 DEF Tables
<1>8. QED  BY <1>1, <1>2, <1>3, <1>4, <1>5, <1>6, <1>7 DEF Tables

LEMMA InitTyped == Init => Shapes /\ Tables
<1> SUFFICES ASSUME Init PROVE Shapes /\ Tables
    OBVIOUS
<1>1. <<>> \in Path
    BY DEF Path
<1>2. FreshState \in AgentState
    BY DEF FreshState, AgentState, Steps
<1>3. Shape("load", FreshState)
    BY <1>2 DEF Shape, FreshState, Nodes, Assessed, Routed, Undrafted
<1>4. Shapes
    BY <1>2, <1>3 DEF Init, Shapes, Nodes
<1>5. Tables
    BY <1>1 DEF Init, Tables, RunStatuses, Outcomes
<1>6. QED  BY <1>4, <1>5

LEMMA NextTyped == Shapes /\ Tables /\ [Next]_vars => (Shapes /\ Tables)'
<1> SUFFICES ASSUME Shapes, Tables, [Next]_vars PROVE (Shapes /\ Tables)'
    OBVIOUS
<1>1. CASE Next
    BY <1>1, NodeShape, NodeTables DEF Next
<1>2. CASE UNCHANGED vars
    BY <1>2 DEF Shapes, Shape, Tables, vars, memory, tables
<1>3. QED  BY <1>1, <1>2

\* Every orchestration keeps its AgentState, its place in the graph and its rows
\* well typed, whatever fails: no path hands a node a state it cannot read.
THEOREM TypeCorrect == Spec => []TypeOK
<1>1. Shapes /\ Tables => TypeOK
    BY DEF Shapes, Tables, Path, TypeOK
<1>2. QED  BY <1>1, InitTyped, NextTyped, PTL DEF Spec

-----------------------------------------------------------------------------
(* What a client is told                                                    *)

\* An orchestration gives up only after a failed call, and what it answers at its
\* end is what its row says, unless a second call failed.
Answered(f) ==
    /\ pc[f] = "give_up" => faults >= 1
    /\ pc[f] = "end" =>
        /\ ~state[f].error => runs[f] = "completed"
        /\ state[f].error /\ state[f].run => runs[f] = "failed" \/ faults >= 2

LEMMA OthersAnswered ==
    ASSUME Shapes, Tables, NEW f \in Flows, Node(f) \/ Crash(f), \A g \in Flows : Answered(g),
           NEW g \in Flows \ {f}
    PROVE  Answered(g)'
<1>1. pc'[g] = pc[g] /\ state'[g] = state[g]
    BY NodeShape DEF Others
<1>2. runs'[g] = runs[g]
    BY DEF Node, Load, CreateRun, Qualify, CreateQualification, Assess,
           SaveQualification, CompleteQualification, FailQualification,
           RouteByClassification, Branch, RetrieveKnowledge, BuildResearchContext,
           DraftOutreachEmail, RequestExternalAction, Persist, StoreEvidence,
           StoreTrail, CloseRun, GiveUp, Crash, tables, Tables
<1>3. faults \in Nat /\ faults' \in Nat /\ faults' >= faults
    BY FaultsGrow DEF Tables
<1>4. QED  BY <1>1, <1>2, <1>3 DEF Answered

\* Only the last steps of the graph reach an answer.
LEMMA NoAnswerYet ==
    ASSUME Shapes, NEW f \in Flows, Node(f) \/ Crash(f),
           ~(Persist(f) \/ StoreTrail(f) \/ CloseRun(f) \/ GiveUp(f))
    PROVE  pc'[f] \notin {"give_up", "end"}
<1>1. pc \in [Flows -> Nodes]
    BY DEF Shapes
<1>2. CASE Load(f) \/ CreateRun(f) \/ Qualify(f) \/ CreateQualification(f)
    BY <1>1, <1>2 DEF Continue, Load, CreateRun, Qualify, CreateQualification, Done, NodeFails
<1>3. CASE Assess(f)
    BY <1>1, <1>3 DEF Continue, Assess, Done, NodeFails
<1>4. CASE SaveQualification(f) \/ CompleteQualification(f) \/ FailQualification(f)
    BY <1>1, <1>4 DEF Continue, SaveQualification, CompleteQualification, FailQualification, Done
<1>5. CASE RouteByClassification(f)
    BY <1>1, <1>5 DEF Continue, RouteByClassification, Done
<1>6. CASE Branch(f)
    BY <1>1, <1>6 DEF Continue, Branch, AfterBranch, Done
<1>7. CASE RetrieveKnowledge(f)
    BY <1>1, <1>7 DEF Continue, RetrieveKnowledge, Done, NodeFails
<1>8. CASE BuildResearchContext(f)
    BY <1>1, <1>8 DEF Continue, BuildResearchContext, Done, NodeFails
<1>9. CASE DraftOutreachEmail(f)
    BY <1>1, <1>9 DEF Continue, DraftOutreachEmail, Refuse, Done, NodeFails
<1>10. CASE RequestExternalAction(f)
    BY <1>1, <1>10 DEF Continue, RequestExternalAction, Refuse, Done, NodeFails
<1>11. CASE StoreEvidence(f)
    BY <1>1, <1>11 DEF Continue, StoreEvidence, Done
<1>12. CASE Crash(f)
    BY <1>1, <1>12 DEF Continue, Crash
<1>13. QED  BY <1>2, <1>3, <1>4, <1>5, <1>6, <1>7, <1>8, <1>9, <1>10, <1>11, <1>12 DEF Node

LEMMA NodeAnswered ==
    ASSUME Shapes, Tables, NEW f \in Flows, Node(f) \/ Crash(f), Answered(f)
    PROVE  Answered(f)'
<1>1. state[f] \in AgentState /\ Shape(pc[f], state[f]) /\ faults \in Nat
      /\ runs \in [Flows -> RunStatuses]
    BY DEF Shapes, Tables
<1>2. CASE Persist(f)
    <2> DEFINE e == state[f].error \/ ~HasCompleteResult(state[f])
    <2>1. PICK next :
            /\ Continue(f, [state[f] EXCEPT !.error = e], next)
            /\ next \in {"end", "evidence", "trail"}
            /\ next = "end" => ~(state[f].run /\ state[f].lead)
        BY <1>2 DEF Persist, Done
    <2>2. e \in BOOLEAN
        OBVIOUS
    <2>3. next = "end" => e
        BY <2>1 DEF HasCompleteResult
    <2> HIDE DEF e
    <2>4. pc'[f] = next /\ state'[f] = [state[f] EXCEPT !.error = e]
        BY <2>1, <2>2, ErrorShape
    <2>5. state'[f].error = e /\ state'[f].run = state[f].run
        BY <2>4, <1>1 DEF AgentState
    <2>6. next = "end" => ~state[f].run
        BY <2>1, <1>1 DEF Shape
    <2>7. QED  BY <2>1, <2>3, <2>4, <2>5, <2>6 DEF Answered
<1>3. CASE StoreTrail(f)
    <2>1. CASE Done(f, state[f], "close")
        BY <2>1, KeepShape DEF Done, Answered
    <2>2. CASE Fault /\ Continue(f, [state[f] EXCEPT !.error = TRUE], "give_up")
        <3>1. pc'[f] = "give_up"
            BY <2>2, ErrorShape
        <3>2. faults' >= 1
            BY <2>2, <1>1 DEF Fault
        <3>3. QED  BY <3>1, <3>2 DEF Answered
    <2>3. QED  BY <1>3, <2>1, <2>2 DEF StoreTrail
<1>4. CASE CloseRun(f)
    <2>1. CASE runs' = [runs EXCEPT ![f] = Outcome(f)] /\ Done(f, state[f], "end")
        <3>1. pc'[f] = "end" /\ state'[f] = state[f]
            BY <2>1, KeepShape DEF Done
        <3>2. runs'[f] = IF state[f].error THEN "failed" ELSE "completed"
            BY <2>1, <1>1 DEF Outcome
        <3>3. QED  BY <3>1, <3>2 DEF Answered
    <2>2. CASE Fault /\ Continue(f, [state[f] EXCEPT !.error = TRUE], "give_up")
        <3>1. pc'[f] = "give_up"
            BY <2>2, ErrorShape
        <3>2. faults' >= 1
            BY <2>2, <1>1 DEF Fault
        <3>3. QED  BY <3>1, <3>2 DEF Answered
    <2>3. QED  BY <1>4, <2>1, <2>2 DEF CloseRun
<1>5. CASE GiveUp(f)
    <2>1. pc[f] = "give_up" /\ Continue(f, state[f], "end")
        BY <1>5 DEF GiveUp
    <2>2. pc'[f] = "end" /\ state'[f] = state[f]
        BY <2>1, KeepShape
    <2>3. state[f].error /\ faults >= 1
        BY <2>1, <1>1 DEF Shape, Answered
    <2>4. runs'[f] = "failed" \/ faults' >= 2
        BY <1>5, <1>1, <2>3 DEF GiveUp, Fault
    <2>5. QED  BY <2>2, <2>3, <2>4 DEF Answered
<1>6. CASE ~(Persist(f) \/ StoreTrail(f) \/ CloseRun(f) \/ GiveUp(f))
    BY <1>6, NoAnswerYet DEF Answered
<1>7. QED  BY <1>2, <1>3, <1>4, <1>5, <1>6

\* A client that got a result finds the run completed, however many calls failed
\* before; with at most one failed call, a client that got an error never finds
\* the run left open or called completed.
THEOREM ResponsesMatch == Spec => []ResponseMatchesRun
<1> DEFINE Inv == Shapes /\ Tables /\ \A f \in Flows : Answered(f)
<1>1. Init => Inv
    BY InitTyped DEF Init, Answered
<1>2. Inv /\ [Next]_vars => Inv'
    <2> SUFFICES ASSUME Inv, [Next]_vars PROVE Inv'
        OBVIOUS
    <2>1. (Shapes /\ Tables)'
        BY NextTyped
    <2>2. \A g \in Flows : Answered(g)'
        <3>1. CASE Next
            <4>1. PICK f \in Flows : Node(f) \/ Crash(f)
                BY <3>1 DEF Next
            <4>2. QED  BY <4>1, NodeAnswered, OthersAnswered
        <3>2. CASE UNCHANGED vars
            BY <3>2 DEF vars, memory, tables, Answered
        <3>3. QED  BY <3>1, <3>2
    <2>3. QED  BY <2>1, <2>2
<1>3. Inv => ResponseMatchesRun
    BY DEF Tables, Answered, ResponseMatchesRun
<1>4. QED  BY <1>1, <1>2, <1>3, PTL DEF Spec

-----------------------------------------------------------------------------
(* What an action rests on                                                  *)

Acted == {"persist", "evidence", "trail", "close", "give_up", "end", "crashed"}

\* The orchestration asked for the action, and its state still says why.
Backs(f, t) ==
    /\ pc[f] \in Acted
    /\ state[f].class = IF t = "send_approved_email" THEN "HOT" ELSE "WARM"
    /\ t = "send_approved_email" => Grounded(state[f]) /\ state[f].draft

Backed == \A t \in ActionTypes : actions[t] \in Flows => Backs(actions[t], t)

\* Past the graph's own nodes only the error of a state changes.
LEMMA ActedStays ==
    ASSUME Shapes, NEW f \in Flows, Node(f) \/ Crash(f), pc[f] \in Acted
    PROVE  /\ pc'[f] \in Acted /\ SameResult(state[f], state'[f])
           /\ UNCHANGED actions
<1>1. state[f] \in AgentState
    BY DEF Shapes
<1>2. \A e \in BOOLEAN : SameResult(state[f], [state[f] EXCEPT !.error = e])
    BY <1>1 DEF AgentState, SameResult
<1>3. SameResult(state[f], state[f])
    BY DEF SameResult
<1>4. CASE Persist(f)
    <2> DEFINE e == state[f].error \/ ~HasCompleteResult(state[f])
    <2>1. PICK next \in {"end", "evidence", "trail"} :
            Continue(f, [state[f] EXCEPT !.error = e], next)
        BY <1>4 DEF Persist, Done
    <2>2. e \in BOOLEAN
        OBVIOUS
    <2> HIDE DEF e
    <2>3. pc'[f] = next /\ state'[f] = [state[f] EXCEPT !.error = e]
        BY <2>1, <2>2, ErrorShape
    <2>4. QED  BY <2>1, <2>2, <2>3, <1>2, <1>4 DEF Acted, Persist, tables
<1>5. CASE StoreEvidence(f)
    BY <1>2, <1>3, <1>5, KeepShape, ErrorShape DEF StoreEvidence, Done, Acted
<1>6. CASE StoreTrail(f)
    BY <1>2, <1>3, <1>6, KeepShape, ErrorShape DEF StoreTrail, Done, Acted
<1>7. CASE CloseRun(f)
    BY <1>2, <1>3, <1>7, KeepShape, ErrorShape DEF CloseRun, Done, Acted
<1>8. CASE GiveUp(f)
    BY <1>3, <1>8, KeepShape DEF GiveUp, Acted
<1>9. CASE Crash(f)
    BY <1>3, <1>9, KeepShape DEF Crash, Acted, tables
<1>10. Persist(f) \/ StoreEvidence(f) \/ StoreTrail(f) \/ CloseRun(f) \/ GiveUp(f) \/ Crash(f)
    BY DEF Acted, Node, Load, CreateRun, Qualify, CreateQualification, Assess,
           SaveQualification, CompleteQualification, FailQualification,
           RouteByClassification, Branch, RetrieveKnowledge, BuildResearchContext,
           DraftOutreachEmail, RequestExternalAction
<1>11. QED  BY <1>4, <1>5, <1>6, <1>7, <1>8, <1>9, <1>10

\* A request is for the action of the orchestration's own classification.
LEMMA RequestBacked ==
    ASSUME Shapes, NEW f \in Flows, RequestExternalAction(f),
           NEW t \in ActionTypes, actions'[t] # actions[t]
    PROVE  actions'[t] = f /\ Backs(f, t)'
<1>1. state[f] \in AgentState /\ Shape("request", state[f])
    BY DEF Shapes, RequestExternalAction
<1>2. actions' = Requested(f) /\ Plannable(state[f])
    BY DEF RequestExternalAction
<1>3. actions'[t] = f /\ t = ActionOf[state[f].route]
    BY <1>2 DEF Requested
<1>4. state[f].class \in Classes /\ state[f].route = RouteOf[state[f].class]
    BY <1>1 DEF Shape, Assessed, Routed
<1>5. state[f].route \in {"research", "nurture"} /\ (state[f].route = "research" => state[f].draft)
    BY <1>2 DEF Plannable, ActionOf
<1>6. state[f].class = IF t = "send_approved_email" THEN "HOT" ELSE "WARM"
    BY <1>3, <1>4, <1>5 DEF RouteOf, Classes, ActionOf
<1>7. t = "send_approved_email" => Grounded(state[f]) /\ state[f].draft
    BY <1>1, <1>3, <1>5 DEF Shape, ActionOf
<1>8. pc'[f] = "persist" /\ SameResult(state[f], state'[f])
    <2>1. \/ Continue(f, Moved(state[f], "request_external_action"), "persist")
          \/ Continue(f, Failed(state[f], "request_external_action"), "persist")
        BY DEF RequestExternalAction, Done, NodeFails, Refuse
    <2>2. pc[f] = "request" /\ "request_external_action" \in Steps
        BY DEF RequestExternalAction, Steps
    <2>3. CASE Continue(f, Moved(state[f], "request_external_action"), "persist")
        BY <1>1, <2>2, <2>3, RequestShape, MovedTyped
    <2>4. CASE Continue(f, Failed(state[f], "request_external_action"), "persist")
        BY <1>1, <2>2, <2>4, FailShape, FailedTyped
    <2>5. QED  BY <2>1, <2>3, <2>4
<1>9. QED  BY <1>3, <1>6, <1>7, <1>8 DEF Backs, Acted, SameResult, Grounded

LEMMA BackedStays ==
    ASSUME Shapes, Tables, NEW f \in Flows, Node(f) \/ Crash(f), Backed
    PROVE  Backed'
<1> SUFFICES ASSUME NEW t \in ActionTypes, actions'[t] \in Flows
             PROVE  Backs(actions[t], t)'
    BY DEF Backed
<1>1. CASE actions'[t] = actions[t]
    <2>1. PICK g \in Flows : g = actions[t] /\ Backs(g, t)
        BY <1>1 DEF Backed
    <2>2. Backs(g, t)'
        <3>1. CASE g = f
            BY <2>1, <3>1, ActedStays DEF Backs, SameResult, Grounded
        <3>2. CASE g # f
            BY <2>1, <3>2, NodeShape DEF Others, Backs
        <3>3. QED  BY <3>1, <3>2
    <2>3. QED  BY <1>1, <2>1, <2>2 DEF Backs
<1>2. CASE actions'[t] # actions[t]
    <2>1. RequestExternalAction(f)
        BY <1>2 DEF Node, Load, CreateRun, Qualify, CreateQualification, Assess,
               SaveQualification, CompleteQualification, FailQualification,
               RouteByClassification, Branch, RetrieveKnowledge, BuildResearchContext,
               DraftOutreachEmail, Persist, StoreEvidence, StoreTrail, CloseRun, GiveUp,
               Crash, tables
    <2>2. actions'[t] = f /\ Backs(f, t)'
        BY <1>2, <2>1, RequestBacked
    <2>3. QED  BY <2>2 DEF Backs
<1>3. QED  BY <1>1, <1>2

\* No external action without a reason: each was planned by an orchestration that
\* classified the lead HOT (email) or WARM (follow-up), and an email by one with
\* evidence, a grounded context and a draft.  Concurrent orchestrations of the same
\* lead that disagree about its class never lend each other their reasons.
THEOREM ActionsGrounded == Spec => []ActionsAreGrounded
<1> DEFINE Inv == Shapes /\ Tables /\ Backed
<1>1. Init => Inv
    BY InitTyped, FlowsAssumption DEF Init, Backed
<1>2. Inv /\ [Next]_vars => Inv'
    <2> SUFFICES ASSUME Inv, [Next]_vars PROVE Inv'
        OBVIOUS
    <2>1. (Shapes /\ Tables)'
        BY NextTyped
    <2>2. Backed'
        <3>1. CASE Next
            BY <3>1, BackedStays DEF Next
        <3>2. CASE UNCHANGED vars
            BY <3>2 DEF vars, memory, tables, Backed, Backs
        <3>3. QED  BY <3>1, <3>2
    <2>3. QED  BY <2>1, <2>2
<1>3. Inv => ActionsAreGrounded
    BY DEF Tables, Backed, Backs, Grounded, ActionsAreGrounded
<1>4. QED  BY <1>1, <1>2, <1>3, PTL DEF Spec

-----------------------------------------------------------------------------
(* Steps of an orchestration, as far as its rows tell                       *)

\* A step writes the rows of its own orchestration.
LEMMA OthersRows ==
    ASSUME Shapes, Tables, NEW f \in Flows, Node(f) \/ Crash(f), NEW g \in Flows \ {f}
    PROVE  /\ pc'[g] = pc[g] /\ state'[g] = state[g]
           /\ runs'[g] = runs[g] /\ quals'[g] = quals[g] /\ trail'[g] = trail[g]
<1>1. pc'[g] = pc[g] /\ state'[g] = state[g]
    BY NodeShape DEF Others
<1>2. runs'[g] = runs[g]
    BY DEF Node, Load, CreateRun, Qualify, CreateQualification, Assess,
           SaveQualification, CompleteQualification, FailQualification,
           RouteByClassification, Branch, RetrieveKnowledge, BuildResearchContext,
           DraftOutreachEmail, RequestExternalAction, Persist, StoreEvidence,
           StoreTrail, CloseRun, GiveUp, Crash, tables, Tables
<1>3. quals'[g] = quals[g]
    BY DEF Node, Load, CreateRun, Qualify, CreateQualification, Assess,
           SaveQualification, CompleteQualification, FailQualification,
           RouteByClassification, Branch, RetrieveKnowledge, BuildResearchContext,
           DraftOutreachEmail, RequestExternalAction, Persist, StoreEvidence,
           StoreTrail, CloseRun, GiveUp, Crash, tables, Tables
<1>4. trail'[g] = trail[g]
    BY DEF Node, Load, CreateRun, Qualify, CreateQualification, Assess,
           SaveQualification, CompleteQualification, FailQualification,
           RouteByClassification, Branch, RetrieveKnowledge, BuildResearchContext,
           DraftOutreachEmail, RequestExternalAction, Persist, StoreEvidence,
           StoreTrail, CloseRun, GiveUp, Crash, tables, Tables
<1>5. QED  BY <1>1, <1>2, <1>3, <1>4

\* Nothing that was stored is removed.
LEMMA RowsStay ==
    ASSUME Shapes, Tables, NEW f \in Flows, Node(f) \/ Crash(f)
    PROVE  /\ runs[f] # "none" => runs'[f] # "none"
           /\ quals[f] # "none" => quals'[f] # "none"
           /\ trail[f].outcome # "none" => trail'[f].outcome # "none"
           /\ evidence \subseteq evidence'
           /\ \A t \in ActionTypes : actions[t] \in Flows => actions'[t] = actions[t]
<1>1. runs[f] # "none" => runs'[f] # "none"
    <2>1. \/ UNCHANGED runs
          \/ \E status \in RunStatuses \ {"none"} : runs' = [runs EXCEPT ![f] = status]
        BY DEF Node, Load, CreateRun, Qualify, CreateQualification, Assess,
               SaveQualification, CompleteQualification, FailQualification,
               RouteByClassification, Branch, RetrieveKnowledge, BuildResearchContext,
               DraftOutreachEmail, RequestExternalAction, Persist, StoreEvidence,
               StoreTrail, CloseRun, GiveUp, Crash, Outcome, RunStatuses, tables
    <2>2. QED  BY <2>1 DEF Tables
<1>2. quals[f] # "none" => quals'[f] # "none"
    <2>1. \/ UNCHANGED quals
          \/ \E status \in RunStatuses \ {"none"} : quals' = [quals EXCEPT ![f] = status]
        BY DEF Node, Load, CreateRun, Qualify, CreateQualification, Assess,
               SaveQualification, CompleteQualification, FailQualification,
               RouteByClassification, Branch, RetrieveKnowledge, BuildResearchContext,
               DraftOutreachEmail, RequestExternalAction, Persist, StoreEvidence,
               StoreTrail, CloseRun, GiveUp, Crash, RunStatuses, tables
    <2>2. QED  BY <2>1 DEF Tables
<1>3. trail[f].outcome # "none" => trail'[f].outcome # "none"
    <2>1. UNCHANGED trail \/ trail' = [trail EXCEPT ![f] = FinalTransitions(f)]
        BY DEF Node, Load, CreateRun, Qualify, CreateQualification, Assess,
               SaveQualification, CompleteQualification, FailQualification,
               RouteByClassification, Branch, RetrieveKnowledge, BuildResearchContext,
               DraftOutreachEmail, RequestExternalAction, Persist, StoreEvidence,
               StoreTrail, CloseRun, GiveUp, Crash, tables
    <2>2. FinalTransitions(f).outcome # "none"
        BY DEF FinalTransitions, Outcome
    <2>3. QED  BY <2>1, <2>2 DEF Tables
<1>4. evidence \subseteq evidence'
    BY DEF Node, Load, CreateRun, Qualify, CreateQualification, Assess,
           SaveQualification, CompleteQualification, FailQualification,
           RouteByClassification, Branch, RetrieveKnowledge, BuildResearchContext,
           DraftOutreachEmail, RequestExternalAction, Persist, StoreEvidence,
           StoreTrail, CloseRun, GiveUp, Crash, tables
<1>5. \A t \in ActionTypes : actions[t] \in Flows => actions'[t] = actions[t]
    <2>1. actions' \in {actions, Requested(f)}
        BY DEF Node, Load, CreateRun, Qualify, CreateQualification, Assess,
               SaveQualification, CompleteQualification, FailQualification,
               RouteByClassification, Branch, RetrieveKnowledge, BuildResearchContext,
               DraftOutreachEmail, RequestExternalAction, Persist, StoreEvidence,
               StoreTrail, CloseRun, GiveUp, Crash, tables
    <2>2. QED  BY <2>1, FlowsAssumption DEF Requested
<1>6. QED  BY <1>1, <1>2, <1>3, <1>4, <1>5

\* The way up to the first write of persist_agent_state.
Working == {"load", "create_run", "qualify", "create_qualification", "assess",
            "save_qualification", "complete_qualification", "fail_qualification",
            "route", "branch", "retrieve", "research", "draft", "request"}

SameBranch(s, t) == t.class = s.class /\ t.route = s.route

\* A node of the graph that worked.
Works(f, n, s, m, t) ==
    \/ n = "load" /\ m = "create_run" /\ t.chunks = s.chunks
    \/ n = "create_run" /\ m = "qualify" /\ t.chunks = s.chunks /\ runs'[f] # "none"
    \/ n = "qualify" /\ m = "create_qualification" /\ t.chunks = s.chunks
    \/ n = "create_qualification" /\ m = "assess" /\ t.chunks = s.chunks
       /\ quals'[f] # "none"
    \/ n = "assess" /\ m = "save_qualification" /\ t.chunks = s.chunks
    \/ n \in {"assess", "save_qualification", "complete_qualification"}
       /\ m = "fail_qualification"
    \/ n = "save_qualification" /\ m = "complete_qualification" /\ t.chunks = s.chunks
    \/ n = "complete_qualification" /\ m = "route" /\ t.chunks = s.chunks
    \/ n = "route" /\ m = "branch" /\ t.chunks = s.chunks
    \/ n = "branch" /\ m = AfterBranch(f) /\ SameBranch(s, t) /\ t.chunks = s.chunks
    \/ n = "retrieve" /\ m = "research" /\ SameBranch(s, t) /\ t.chunks \in {"empty", "some"}
    \/ n = "research" /\ s.chunks = "empty" /\ m = "persist" /\ SameBranch(s, t)
       /\ t.chunks = s.chunks
    \/ n = "research" /\ s.chunks = "some" /\ SameBranch(s, t) /\ t.chunks = s.chunks
       /\ m = IF f \in Acting THEN "draft" ELSE "persist"
    \/ n = "draft" /\ m = "request" /\ SameBranch(s, t) /\ t.chunks = s.chunks /\ Grounded(s)
    \/ n = "request" /\ m = "persist" /\ SameBranch(s, t) /\ t.chunks = s.chunks
       /\ Plannable(s) /\ PayloadFits(f, s) /\ actions' = Requested(f)

\* The steps of persist_agent_state, and what ends an orchestration early.
Ends(f, n, s, m, t) ==
    /\ SameBranch(s, t) /\ t.chunks = s.chunks
    /\ s.error => t.error
    /\ \/ n = "persist" /\ m = "end" /\ t.error
       \/ n = "persist" /\ m = "evidence"
       \/ n = "persist" /\ m = "trail" /\ (t.error \/ t.chunks # "some")
       \/ n = "evidence" /\ m = "trail" /\ (t.error \/ f \in evidence')
       \/ n = "trail" /\ m = "close" /\ trail'[f].outcome # "none"
       \/ n = "trail" /\ m = "give_up"
       \/ n = "close" /\ m \in {"end", "give_up"}
          /\ (runs'[f] = runs[f] \/ s.error \/ runs'[f] = "completed")
          /\ (s.error => runs'[f] \in {runs[f], "failed"})
       \/ n = "give_up" /\ m = "end" /\ runs'[f] \in {runs[f], "failed"}
       \/ n \notin {"end", "crashed"} /\ m = "crashed"

StepOf(f) ==
    \/ Works(f, pc[f], state[f], pc'[f], state'[f])
    \/ Ends(f, pc[f], state[f], pc'[f], state'[f])
    \/ pc[f] \in Working /\ pc'[f] = "persist" /\ state'[f].error

LEMMA ContinueStep ==
    ASSUME Shapes, NEW f \in Flows, NEW s, NEW next, Continue(f, s, next)
    PROVE  pc'[f] = next /\ state'[f] = s
    BY DEF Shapes, Continue

LEMMA MovedSame ==
    ASSUME Shapes, NEW f \in Flows, NEW to \in Steps
    PROVE  /\ Moved(state[f], to) \in AgentState
           /\ SameBranch(state[f], Moved(state[f], to))
           /\ Moved(state[f], to).chunks = state[f].chunks
    BY MovedTyped DEF Shapes, SameResult, SameBranch

LEMMA FailsStep ==
    ASSUME Shapes, NEW f \in Flows, NEW step \in Steps, pc[f] \in Working,
           Continue(f, Failed(state[f], step), "persist")
    PROVE  StepOf(f)
<1>1. pc'[f] = "persist" /\ state'[f] = Failed(state[f], step)
    BY ContinueStep
<1>2. Failed(state[f], step).error = TRUE
    BY FailedTyped DEF Shapes
<1>3. QED  BY <1>1, <1>2 DEF StepOf

\* The records in which a node changes one field.
LEMMA FieldChanges ==
    ASSUME NEW s \in AgentState
    PROVE  /\ [s EXCEPT !.lead = TRUE].chunks = s.chunks
           /\ [s EXCEPT !.run = TRUE].chunks = s.chunks
           /\ \A c : [s EXCEPT !.class = c].chunks = s.chunks
           /\ \A r : [s EXCEPT !.route = r].chunks = s.chunks
           /\ LET t == [s EXCEPT !.branch = TRUE]
              IN  SameBranch(s, t) /\ t.chunks = s.chunks
           /\ \A c : LET t == [s EXCEPT !.chunks = c] IN SameBranch(s, t) /\ t.chunks = c
           /\ \A c : LET t == [s EXCEPT !.context = c]
                     IN  SameBranch(s, t) /\ t.chunks = s.chunks
           /\ LET t == [s EXCEPT !.draft = TRUE]
              IN  SameBranch(s, t) /\ t.chunks = s.chunks
           /\ \A e : LET t == [s EXCEPT !.error = e]
                     IN  SameBranch(s, t) /\ t.chunks = s.chunks /\ t.error = e
    BY DEF AgentState, SameBranch

LEMMA LoadStep ==
    ASSUME Shapes, Tables, NEW f \in Flows, Load(f) \/ CreateRun(f)
    PROVE  StepOf(f)
<1>1. state[f] \in AgentState
    BY DEF Shapes
<1>2. CASE NodeFails(f, "load_lead")
    <2>1. pc[f] \in Working
        BY DEF Load, CreateRun, Working
    <2>2. QED  BY <1>2, <2>1, FailsStep DEF NodeFails, Steps
<1>3. CASE pc[f] = "load" /\ Continue(f, [state[f] EXCEPT !.lead = TRUE], "create_run")
    <2>1. pc'[f] = "create_run" /\ state'[f] = [state[f] EXCEPT !.lead = TRUE]
        BY <1>3, ContinueStep
    <2>2. state'[f].chunks = state[f].chunks
        BY <1>1, <2>1, FieldChanges
    <2>3. QED  BY <1>3, <2>1, <2>2 DEF StepOf, Works
<1>4. CASE /\ pc[f] = "create_run" /\ runs' = [runs EXCEPT ![f] = "started"]
           /\ Continue(f, [Moved(state[f], "load_lead") EXCEPT !.run = TRUE], "qualify")
    <2> DEFINE m == Moved(state[f], "load_lead")
    <2>1. m \in AgentState /\ m.chunks = state[f].chunks
        BY MovedSame DEF Steps
    <2>2. pc'[f] = "qualify" /\ state'[f] = [m EXCEPT !.run = TRUE]
        BY <1>4, ContinueStep
    <2>3. runs'[f] = "started"
        BY <1>4 DEF Tables
    <2> HIDE DEF m
    <2>4. state'[f].chunks = state[f].chunks
        BY <2>1, <2>2, FieldChanges
    <2>5. QED  BY <1>4, <2>2, <2>3, <2>4 DEF StepOf, Works
<1>5. QED  BY <1>2, <1>3, <1>4 DEF Load, CreateRun, Done

LEMMA QualifyStep ==
    ASSUME Shapes, Tables, NEW f \in Flows,
           \/ Qualify(f) \/ CreateQualification(f) \/ Assess(f) \/ SaveQualification(f)
           \/ CompleteQualification(f) \/ FailQualification(f)
    PROVE  StepOf(f)
<1>1. state[f] \in AgentState
    BY DEF Shapes
<1>2. pc[f] \in Working
    BY DEF Qualify, CreateQualification, Assess, SaveQualification, CompleteQualification,
           FailQualification, Working
<1>3. CASE NodeFails(f, "qualify_lead")
    BY <1>2, <1>3, FailsStep DEF NodeFails, Steps
<1>4. CASE pc[f] = "qualify" /\ Continue(f, state[f], "create_qualification")
    BY <1>4, ContinueStep DEF StepOf, Works
<1>5. CASE /\ pc[f] = "create_qualification" /\ quals' = [quals EXCEPT ![f] = "started"]
           /\ Continue(f, state[f], "assess")
    <2>1. pc'[f] = "assess" /\ state'[f] = state[f]
        BY <1>5, ContinueStep
    <2>2. quals'[f] = "started"
        BY <1>5 DEF Tables
    <2>3. QED  BY <1>5, <2>1, <2>2 DEF StepOf, Works
<1>6. CASE /\ pc[f] = "assess"
           /\ \E c \in Classes :
                Continue(f, [state[f] EXCEPT !.class = c], "save_qualification")
    <2>1. PICK c \in Classes :
            Continue(f, [state[f] EXCEPT !.class = c], "save_qualification")
        BY <1>6
    <2>2. pc'[f] = "save_qualification" /\ state'[f] = [state[f] EXCEPT !.class = c]
        BY <2>1, ContinueStep
    <2>3. state'[f].chunks = state[f].chunks
        BY <1>1, <2>2, FieldChanges
    <2>4. QED  BY <1>6, <2>2, <2>3 DEF StepOf, Works
<1>7. CASE /\ pc[f] \in {"assess", "save_qualification", "complete_qualification"}
           /\ Continue(f, state[f], "fail_qualification")
    <2>1. pc'[f] = "fail_qualification"
        BY <1>7, ContinueStep
    <2>2. QED  BY <1>7, <2>1 DEF StepOf, Works
<1>8. CASE pc[f] = "save_qualification" /\ Continue(f, state[f], "complete_qualification")
    <2>1. pc'[f] = "complete_qualification" /\ state'[f] = state[f]
        BY <1>8, ContinueStep
    <2>2. QED  BY <1>8, <2>1 DEF StepOf, Works
<1>9. CASE /\ pc[f] = "complete_qualification"
           /\ Continue(f, Moved(state[f], "qualify_lead"), "route")
    <2>1. pc'[f] = "route" /\ state'[f].chunks = state[f].chunks
        BY <1>9, ContinueStep, MovedSame DEF Steps
    <2>2. QED  BY <1>9, <2>1 DEF StepOf, Works
<1>10. CASE FailQualification(f)
    <2> DEFINE m == Failed(state[f], "qualify_lead")
    <2>1. m \in AgentState /\ m.error = TRUE
        BY <1>1, FailedTyped DEF Steps
    <2>2. pc'[f] = "persist" /\ state'[f] = [m EXCEPT !.class = "none"]
        BY <1>10, ContinueStep DEF FailQualification
    <2> HIDE DEF m
    <2>3. state'[f].error
        BY <2>1, <2>2 DEF AgentState
    <2>4. QED  BY <1>2, <2>2, <2>3 DEF StepOf
<1>11. QED
    BY <1>3, <1>4, <1>5, <1>6, <1>7, <1>8, <1>9, <1>10
       DEF Qualify, CreateQualification, Assess, SaveQualification, CompleteQualification, Done

LEMMA BranchStep ==
    ASSUME Shapes, Tables, NEW f \in Flows, RouteByClassification(f) \/ Branch(f)
    PROVE  StepOf(f)
<1>1. state[f] \in AgentState
    BY DEF Shapes
<1>2. CASE RouteByClassification(f)
    <2> DEFINE m == Moved(state[f], "route_by_classification")
    <2>1. m \in AgentState /\ m.chunks = state[f].chunks
        BY MovedSame DEF Steps
    <2>2. pc[f] = "route" /\ pc'[f] = "branch"
          /\ state'[f] = [m EXCEPT !.route = RouteOf[state[f].class]]
        BY <1>2, ContinueStep DEF RouteByClassification, Done
    <2> HIDE DEF m
    <2>3. state'[f].chunks = state[f].chunks
        BY <2>1, <2>2, FieldChanges
    <2>4. QED  BY <2>2, <2>3 DEF StepOf, Works
<1>3. CASE Branch(f)
    <2> DEFINE m == Moved(state[f], BranchOf[state[f].route])
    <2>1. pc[f] = "branch" /\ pc'[f] = AfterBranch(f)
          /\ state'[f] = [m EXCEPT !.branch = TRUE]
        BY <1>3, ContinueStep DEF Branch, Done
    <2>2. BranchOf[state[f].route] \in Steps
        <3>1. state[f].class \in Classes /\ state[f].route = RouteOf[state[f].class]
            BY <2>1 DEF Shapes, Shape, Assessed, Routed
        <3>2. state[f].route \in {"research", "nurture", "stop"}
            BY <3>1 DEF RouteOf, Classes
        <3>3. QED  BY <3>2 DEF BranchOf, Steps
    <2>3. m \in AgentState /\ m.chunks = state[f].chunks /\ SameBranch(state[f], m)
        BY <2>2, MovedSame
    <2> HIDE DEF m
    <2>4. state'[f].chunks = state[f].chunks /\ SameBranch(state[f], state'[f])
        BY <2>1, <2>3, FieldChanges DEF SameBranch
    <2>5. QED  BY <2>1, <2>4 DEF StepOf, Works
<1>4. QED  BY <1>2, <1>3

LEMMA ResearchStep ==
    ASSUME Shapes, Tables, NEW f \in Flows,
           RetrieveKnowledge(f) \/ BuildResearchContext(f) \/ DraftOutreachEmail(f)
    PROVE  StepOf(f)
<1>1. pc[f] \in Working
    BY DEF RetrieveKnowledge, BuildResearchContext, DraftOutreachEmail, Working
<1>2. ASSUME NEW step \in Steps, Continue(f, Failed(state[f], step), "persist")
      PROVE  StepOf(f)
    BY <1>1, <1>2, FailsStep
<1>3. CASE RetrieveKnowledge(f)
    <2>1. CASE NodeFails(f, "retrieve_gtm_knowledge")
        BY <1>2, <2>1 DEF NodeFails, Steps
    <2>2. ASSUME NEW found \in {"empty", "some"},
                 Continue(f, [Moved(state[f], "retrieve_gtm_knowledge") EXCEPT !.chunks = found],
                          "research")
          PROVE  StepOf(f)
        <3> DEFINE m == Moved(state[f], "retrieve_gtm_knowledge")
        <3>1. m \in AgentState /\ SameBranch(state[f], m)
            BY MovedSame DEF Steps
        <3>2. pc[f] = "retrieve" /\ pc'[f] = "research"
              /\ state'[f] = [m EXCEPT !.chunks = found]
            BY <1>3, <2>2, ContinueStep DEF RetrieveKnowledge
        <3> HIDE DEF m
        <3>3. state'[f].chunks = found /\ SameBranch(state[f], state'[f])
            BY <3>1, <3>2, FieldChanges DEF SameBranch
        <3>4. QED  BY <3>2, <3>3 DEF StepOf, Works
    <2>3. QED  BY <1>3, <2>1, <2>2 DEF RetrieveKnowledge, Done
<1>4. CASE BuildResearchContext(f)
    <2> DEFINE m == Moved(state[f], "build_research_context")
    <2>1. m \in AgentState /\ SameBranch(state[f], m) /\ m.chunks = state[f].chunks
        BY MovedSame DEF Steps
    <2>2. CASE NodeFails(f, "build_research_context")
        BY <1>2, <2>2 DEF NodeFails, Steps
    <2>3. ASSUME NEW c, NEW next, Continue(f, [m EXCEPT !.context = c], next),
                 \/ state[f].chunks = "empty" /\ next = "persist"
                 \/ /\ state[f].chunks = "some"
                    /\ next = IF f \in Acting THEN "draft" ELSE "persist"
          PROVE  StepOf(f)
        <3>1. pc[f] = "research" /\ pc'[f] = next /\ state'[f] = [m EXCEPT !.context = c]
            BY <1>4, <2>3, ContinueStep DEF BuildResearchContext
        <3> HIDE DEF m
        <3>2. state'[f].chunks = state[f].chunks /\ SameBranch(state[f], state'[f])
            BY <2>1, <3>1, FieldChanges DEF SameBranch
        <3>3. QED  BY <2>3, <3>1, <3>2 DEF StepOf, Works
    <2>4. QED  BY <1>4, <2>2, <2>3 DEF BuildResearchContext, Done
<1>5. CASE DraftOutreachEmail(f)
    <2> DEFINE m == Moved(state[f], "draft_outreach_email")
    <2>1. m \in AgentState /\ SameBranch(state[f], m) /\ m.chunks = state[f].chunks
        BY MovedSame DEF Steps
    <2>2. CASE Continue(f, Failed(state[f], "draft_outreach_email"), "persist")
        BY <1>2, <2>2 DEF Steps
    <2>3. CASE Grounded(state[f]) /\ Continue(f, [m EXCEPT !.draft = TRUE], "request")
        <3>1. pc[f] = "draft" /\ pc'[f] = "request" /\ state'[f] = [m EXCEPT !.draft = TRUE]
            BY <1>5, <2>3, ContinueStep DEF DraftOutreachEmail
        <3> HIDE DEF m
        <3>2. state'[f].chunks = state[f].chunks /\ SameBranch(state[f], state'[f])
            BY <2>1, <3>1, FieldChanges DEF SameBranch
        <3>3. QED  BY <2>3, <3>1, <3>2 DEF StepOf, Works
    <2>4. QED  BY <1>5, <2>2, <2>3 DEF DraftOutreachEmail, Refuse, NodeFails, Done
<1>6. QED  BY <1>3, <1>4, <1>5

LEMMA RequestStep ==
    ASSUME Shapes, Tables, NEW f \in Flows, RequestExternalAction(f)
    PROVE  StepOf(f)
<1>1. pc[f] = "request" /\ pc[f] \in Working
    BY DEF RequestExternalAction, Working
<1>2. CASE Continue(f, Failed(state[f], "request_external_action"), "persist")
    BY <1>1, <1>2, FailsStep DEF Steps
<1>3. CASE /\ Plannable(state[f]) /\ PayloadFits(f, state[f])
           /\ actions' = Requested(f)
           /\ Continue(f, Moved(state[f], "request_external_action"), "persist")
    <2>1. pc'[f] = "persist" /\ state'[f] = Moved(state[f], "request_external_action")
        BY <1>3, ContinueStep
    <2>2. state'[f].chunks = state[f].chunks /\ SameBranch(state[f], state'[f])
        BY <2>1, MovedSame DEF Steps
    <2>3. QED  BY <1>1, <1>3, <2>1, <2>2 DEF StepOf, Works
<1>4. QED  BY <1>2, <1>3 DEF RequestExternalAction, Refuse, NodeFails, Done

\* The end changes nothing of a state but its error.
LEMMA ErrorChange ==
    ASSUME Shapes, NEW f \in Flows, NEW e, NEW next,
           Continue(f, [state[f] EXCEPT !.error = e], next)
    PROVE  /\ pc'[f] = next
           /\ SameBranch(state[f], state'[f]) /\ state'[f].chunks = state[f].chunks
           /\ state'[f].error = e
<1>1. pc'[f] = next /\ state'[f] = [state[f] EXCEPT !.error = e] /\ state[f] \in AgentState
    BY ContinueStep DEF Shapes
<1> DEFINE s == state[f]
           t == [s EXCEPT !.error = e]
<1>2. s \in AgentState
    BY <1>1
<1> HIDE DEF s
<1>3. SameBranch(s, t) /\ t.chunks = s.chunks /\ t.error = e
    BY <1>2, FieldChanges
<1>4. QED  BY <1>1, <1>3 DEF s

LEMMA NoChange ==
    ASSUME Shapes, NEW f \in Flows, NEW next, Continue(f, state[f], next)
    PROVE  /\ pc'[f] = next /\ state'[f] = state[f]
           /\ SameBranch(state[f], state'[f]) /\ state'[f].chunks = state[f].chunks
    BY ContinueStep DEF SameBranch

LEMMA PersistStep ==
    ASSUME Shapes, Tables, NEW f \in Flows, Persist(f) \/ StoreEvidence(f) \/ StoreTrail(f)
    PROVE  StepOf(f)
<1>1. CASE Persist(f)
    <2> DEFINE e == state[f].error \/ ~HasCompleteResult(state[f])
    <2>1. PICK next :
            /\ Continue(f, [state[f] EXCEPT !.error = e], next)
            /\ \/ next = "end" /\ ~(state[f].run /\ state[f].lead)
               \/ next = "evidence"
               \/ next = "trail" /\ (e \/ state[f].chunks # "some")
        BY <1>1 DEF Persist, Done
    <2>2. next = "end" => e
        BY <2>1 DEF HasCompleteResult
    <2>3. state[f].error => e
        OBVIOUS
    <2> HIDE DEF e
    <2>4. /\ pc'[f] = next
          /\ SameBranch(state[f], state'[f]) /\ state'[f].chunks = state[f].chunks
          /\ state'[f].error = e
        BY <2>1, ErrorChange
    <2>5. pc[f] = "persist"
        BY <1>1 DEF Persist
    <2>6. Ends(f, pc[f], state[f], pc'[f], state'[f])
        BY <2>1, <2>2, <2>3, <2>4, <2>5 DEF Ends
    <2>7. QED  BY <2>6 DEF StepOf
<1>2. CASE StoreEvidence(f)
    <2>1. pc[f] = "evidence"
        BY <1>2 DEF StepOf, StoreEvidence
    <2>2. CASE evidence' = evidence \union {f} /\ Continue(f, state[f], "trail")
        BY <2>1, <2>2, NoChange DEF StepOf, Ends
    <2>3. CASE Continue(f, [state[f] EXCEPT !.error = TRUE], "trail")
        <3>1. /\ pc'[f] = "trail" /\ state'[f].error = TRUE
              /\ SameBranch(state[f], state'[f]) /\ state'[f].chunks = state[f].chunks
            BY <2>3, ErrorChange
        <3>2. QED  BY <2>1, <3>1 DEF StepOf, Ends
    <2>4. QED  BY <1>2, <2>2, <2>3 DEF StoreEvidence, Done
<1>3. CASE StoreTrail(f)
    <2>1. pc[f] = "trail"
        BY <1>3 DEF StoreTrail
    <2>2. CASE trail' = [trail EXCEPT ![f] = FinalTransitions(f)] /\ Continue(f, state[f], "close")
        <3>1. trail'[f].outcome # "none"
            BY <2>2 DEF Tables, FinalTransitions, Outcome
        <3>2. QED  BY <2>1, <2>2, <3>1, NoChange DEF StepOf, Ends
    <2>3. CASE Continue(f, [state[f] EXCEPT !.error = TRUE], "give_up")
        <3>1. /\ pc'[f] = "give_up" /\ state'[f].error = TRUE
              /\ SameBranch(state[f], state'[f]) /\ state'[f].chunks = state[f].chunks
            BY <2>3, ErrorChange
        <3>2. QED  BY <2>1, <3>1 DEF StepOf, Ends
    <2>4. QED  BY <1>3, <2>2, <2>3 DEF StoreTrail, Done
<1>4. QED  BY <1>1, <1>2, <1>3

LEMMA CloseStep ==
    ASSUME Shapes, Tables, NEW f \in Flows, CloseRun(f) \/ GiveUp(f) \/ Crash(f)
    PROVE  StepOf(f)
<1>1. CASE CloseRun(f)
    <2>1. pc[f] = "close"
        BY <1>1 DEF CloseRun
    <2>2. runs'[f] \in {runs[f], IF state[f].error THEN "failed" ELSE "completed"}
        BY <1>1 DEF CloseRun, Outcome, Tables
    <2>3. \/ pc'[f] = "end" /\ state'[f] = state[f]
          \/ pc'[f] = "give_up" /\ state'[f].error = TRUE
        BY <1>1, NoChange, ErrorChange DEF CloseRun, Done
    <2>4. SameBranch(state[f], state'[f]) /\ state'[f].chunks = state[f].chunks
        BY <1>1, NoChange, ErrorChange DEF CloseRun, Done
    <2>5. Ends(f, pc[f], state[f], pc'[f], state'[f])
        BY <2>1, <2>2, <2>3, <2>4 DEF Ends
    <2>6. QED  BY <2>5 DEF StepOf
<1>2. CASE GiveUp(f)
    <2>1. pc[f] = "give_up" /\ runs'[f] \in {runs[f], "failed"}
        BY <1>2 DEF GiveUp, Tables
    <2>2. QED  BY <1>2, <2>1, NoChange DEF GiveUp, StepOf, Ends
<1>3. CASE Crash(f)
    BY <1>3, NoChange DEF Crash, StepOf, Ends
<1>4. QED  BY <1>1, <1>2, <1>3

\* Whatever an orchestration does next is one of these steps.
LEMMA EveryStep ==
    ASSUME Shapes, Tables, NEW f \in Flows, Node(f) \/ Crash(f)
    PROVE  StepOf(f)
    BY LoadStep, QualifyStep, BranchStep, ResearchStep, RequestStep, PersistStep, CloseStep
       DEF Node

\* A run is called completed only when it is closed, and only without an error.
LEMMA OnlyCloseCompletes ==
    ASSUME Shapes, Tables, NEW f \in Flows, Node(f) \/ Crash(f),
           runs'[f] = "completed", runs[f] # "completed"
    PROVE  pc[f] = "close" /\ pc'[f] \in {"end", "give_up"} /\ ~state[f].error
<1>1. CloseRun(f)
    BY DEF Node, Load, CreateRun, Qualify, CreateQualification, Assess,
           SaveQualification, CompleteQualification, FailQualification,
           RouteByClassification, Branch, RetrieveKnowledge, BuildResearchContext,
           DraftOutreachEmail, RequestExternalAction, Persist, StoreEvidence,
           StoreTrail, GiveUp, Crash, tables, Tables
<1>2. runs'[f] \in {runs[f], Outcome(f)}
    BY <1>1 DEF CloseRun, Tables
<1>3. ~state[f].error
    BY <1>2 DEF Outcome
<1>4. pc'[f] \in {"end", "give_up"}
    <2>1. \/ Continue(f, state[f], "end")
          \/ Continue(f, [state[f] EXCEPT !.error = TRUE], "give_up")
        BY <1>1 DEF CloseRun, Done
    <2>2. QED  BY <2>1, ContinueStep
<1>5. QED  BY <1>1, <1>3, <1>4 DEF CloseRun

-----------------------------------------------------------------------------
(* What is known of an orchestration at each of its nodes                   *)

Asking == {"qualify", "create_qualification", "assess", "save_qualification",
           "complete_qualification", "route", "branch", "retrieve", "research", "draft"}

\* The nodes of persist_agent_state before the run is closed.
Storing == {"persist", "evidence", "trail", "close"}

\* The chunks and the action of a branch that was taken to its end.
BranchDone(f) ==
    /\ state[f].class = "HOT" => state[f].chunks \in {"empty", "some"}
    /\ \A t \in ActionTypes : Plans(f, t) => actions[t] \in Flows

Place(f) ==
    /\ pc[f] \in Asking => runs[f] # "none"
    /\ pc[f] = "assess" => quals[f] # "none"
    /\ pc[f] \in (Asking \ {"research", "draft"}) \union {"load", "create_run"}
        => state[f].chunks = "none"
    /\ pc[f] \in {"retrieve", "research", "draft"}
        => state[f].class = "HOT" /\ state[f].route = "research"
    /\ pc[f] = "research" => state[f].chunks \in {"empty", "some"}
    /\ pc[f] = "draft" => state[f].chunks = "some" /\ f \in Acting
    /\ pc[f] = "request" =>
        \/ state[f].class = "HOT" /\ state[f].chunks = "some"
        \/ state[f].class = "WARM"
    /\ pc[f] = "request" => f \in Acting
    /\ pc[f] \in Storing /\ ~state[f].error => BranchDone(f)
    /\ pc[f] = "trail" /\ ~state[f].error /\ state[f].chunks = "some" => f \in evidence
    /\ pc[f] = "close" => trail[f].outcome # "none"
    /\ pc[f] = "close" /\ ~state[f].error /\ state[f].chunks = "some" => f \in evidence

\* Plans depend on the state's route and chunks, and actions are kept.
LEMMA BranchStays ==
    ASSUME Shapes, Tables, NEW f \in Flows, Node(f) \/ Crash(f), NEW g \in Flows,
           SameBranch(state[g], state'[g]), state'[g].chunks = state[g].chunks, BranchDone(g)
    PROVE  BranchDone(g)'
    BY RowsStay DEF BranchDone, Plans, SameBranch

LEMMA PlacesOfOthers ==
    ASSUME Shapes, Tables, NEW f \in Flows, Node(f) \/ Crash(f), NEW g \in Flows \ {f}, Place(g)
    PROVE  Place(g)'
<1>1. /\ pc'[g] = pc[g] /\ state'[g] = state[g]
      /\ runs'[g] = runs[g] /\ quals'[g] = quals[g] /\ trail'[g] = trail[g]
    BY OthersRows
<1>2. BranchDone(g) => BranchDone(g)'
    BY <1>1, BranchStays DEF SameBranch
<1>3. evidence \subseteq evidence'
    BY RowsStay
<1>4. QED  BY <1>1, <1>2, <1>3 DEF Place

LEMMA WorksPlace ==
    ASSUME Shapes, Tables, NEW f \in Flows, Node(f), Place(f),
           Works(f, pc[f], state[f], pc'[f], state'[f])
    PROVE  Place(f)'
<1> DEFINE n == pc[f]  s == state[f]  m == pc'[f]  t == state'[f]
<1>1. Shape(n, s) /\ Shape(m, t)
    BY NodeShape DEF Shapes
<1>2. runs[f] # "none" => runs'[f] # "none"
    BY RowsStay
<1>3. CASE n \in {"load", "create_run", "qualify", "create_qualification", "assess",
                  "save_qualification", "complete_qualification", "route"}
    BY <1>2, <1>3 DEF Works, Place, Asking, Storing
<1>4. CASE n = "branch"
    <2>1. s.class \in Classes /\ s.route = RouteOf[s.class] /\ s.chunks = "none"
        BY <1>1, <1>4 DEF Shape, Assessed, Routed, Place, Asking
    <2>2. t.class = s.class /\ t.route = s.route /\ t.chunks = "none"
          /\ m = AfterBranch(f)
        BY <1>4, <2>1 DEF Works, SameBranch
    <2>3. CASE s.class = "HOT"
        <3>1. m = "retrieve" /\ s.route = "research"
            BY <2>1, <2>2, <2>3 DEF AfterBranch, RouteOf
        <3>2. QED  BY <1>2, <1>4, <2>2, <2>3, <3>1 DEF Place, Asking, Storing
    <2>4. CASE s.class = "WARM" /\ f \in Acting
        <3>1. m = "request"
            BY <2>1, <2>2, <2>4 DEF AfterBranch, RouteOf
        <3>2. QED  BY <2>2, <2>4, <3>1 DEF Place, Asking, Storing
    <2>5. CASE s.class = "COLD" \/ (s.class = "WARM" /\ f \notin Acting)
        <3>1. m = "persist" /\ (f \in Acting => s.route = "stop")
            BY <2>1, <2>2, <2>5 DEF AfterBranch, RouteOf
        <3>2. \A a \in ActionTypes : ~Plans(f, a)'
            BY <2>2, <3>1 DEF Plans, ActionOf
        <3>3. QED  BY <2>2, <2>5, <3>1, <3>2 DEF Place, BranchDone, Asking, Storing
    <2>6. QED  BY <2>1, <2>3, <2>4, <2>5 DEF Classes
<1>5. CASE n = "retrieve"
    BY <1>2, <1>5 DEF Works, SameBranch, Place, Asking, Storing
<1>6. CASE n = "research"
    <2>1. s.class = "HOT" /\ s.route = "research" /\ s.chunks \in {"empty", "some"}
        BY <1>6 DEF Place
    <2>2. t.class = "HOT" /\ t.route = "research" /\ t.chunks = s.chunks
        BY <1>6, <2>1 DEF Works, SameBranch
    <2>3. m = IF s.chunks = "some" /\ f \in Acting THEN "draft" ELSE "persist"
        BY <1>6, <2>1 DEF Works
    <2>4. m = "persist" => \A a \in ActionTypes : ~Plans(f, a)'
        BY <2>1, <2>2, <2>3 DEF Plans
    <2>5. QED  BY <1>2, <1>6, <2>1, <2>2, <2>3, <2>4 DEF Place, BranchDone, Asking, Storing
<1>7. CASE n = "draft"
    BY <1>7 DEF Works, SameBranch, Place, Asking, Storing
<1>8. CASE n = "request"
    <2>1. m = "persist" /\ SameBranch(s, t) /\ t.chunks = s.chunks /\ Plannable(s)
          /\ actions' = Requested(f)
        BY <1>8 DEF Works
    <2>2. \A a \in ActionTypes : Plans(f, a)' => actions'[a] \in Flows
        BY <2>1 DEF Plans, Requested, SameBranch, Tables
    <2>3. t.class = "HOT" => t.chunks \in {"empty", "some"}
        BY <1>8, <2>1 DEF Place, SameBranch
    <2>4. QED  BY <2>1, <2>2, <2>3 DEF Place, BranchDone, Asking, Storing
<1>9. QED  BY <1>3, <1>4, <1>5, <1>6, <1>7, <1>8 DEF Works

LEMMA EndsPlace ==
    ASSUME Shapes, Tables, NEW f \in Flows, Node(f) \/ Crash(f), Place(f),
           Ends(f, pc[f], state[f], pc'[f], state'[f])
    PROVE  Place(f)'
<1> DEFINE n == pc[f]  s == state[f]  m == pc'[f]  t == state'[f]
<1>1. SameBranch(s, t) /\ t.chunks = s.chunks /\ (s.error => t.error)
    BY DEF Ends
<1>2. BranchDone(f) => BranchDone(f)'
    BY <1>1, BranchStays
<1>3. m \notin Storing => Place(f)'
    BY DEF Ends, Place, Asking, Storing
<1>4. CASE m \in Storing
    <2>1. n \in Storing
        BY <1>4 DEF Ends, Storing
    <2>2. ~t.error => BranchDone(f)'
        BY <1>1, <1>2, <2>1 DEF Place
    <2>3. (f \in evidence => f \in evidence')
          /\ (trail[f].outcome # "none" => trail'[f].outcome # "none")
        BY RowsStay
    <2>4. m = "trail" /\ ~t.error /\ t.chunks = "some" => f \in evidence'
        BY DEF Ends
    <2>5. m = "close" => n = "trail" /\ trail'[f].outcome # "none"
        BY DEF Ends
    <2>6. m = "close" /\ ~t.error /\ t.chunks = "some" => f \in evidence'
        BY <1>1, <2>3, <2>5 DEF Place
    <2>7. QED  BY <1>4, <2>2, <2>4, <2>5, <2>6 DEF Place, Asking, Storing
<1>5. QED  BY <1>3, <1>4

Places == \A f \in Flows : Place(f)

LEMMA NodePlaces ==
    ASSUME Shapes, Tables, Places, NEW f \in Flows, Node(f) \/ Crash(f)
    PROVE  Places'
<1>1. Place(f)'
    <2>1. CASE Works(f, pc[f], state[f], pc'[f], state'[f])
        <3>1. pc'[f] # "crashed"
            BY <2>1 DEF Works, AfterBranch
        <3>2. Node(f)
            BY <3>1, NoChange DEF Crash
        <3>3. QED  BY <2>1, <3>2, WorksPlace DEF Places
    <2>2. CASE Ends(f, pc[f], state[f], pc'[f], state'[f])
        BY <2>2, EndsPlace DEF Places
    <2>3. CASE pc'[f] = "persist" /\ state'[f].error
        BY <2>3 DEF Place, Asking, Storing
    <2>4. QED  BY <2>1, <2>2, <2>3, EveryStep DEF StepOf
<1>2. \A g \in Flows \ {f} : Place(g)'
    BY PlacesOfOthers DEF Places
<1>3. QED  BY <1>1, <1>2 DEF Places

-----------------------------------------------------------------------------
(* The rows of a run that was called completed                              *)

Closed == {"give_up", "end", "crashed"}

\* All rows of the run are stored, and will be whatever becomes of the run itself.
Whole(f) ==
    /\ pc[f] \in Closed
    /\ trail[f].outcome # "none"
    /\ state[f].chunks = "some" => f \in evidence
    /\ \A t \in ActionTypes : Plans(f, t) => actions[t] \in Flows

WholeInv == \A f \in Flows : runs[f] = "completed" => Whole(f)

LEMMA WholeStays ==
    ASSUME Shapes, Tables, NEW f \in Flows, Node(f) \/ Crash(f), NEW g \in Flows, Whole(g)
    PROVE  /\ Whole(g)'
           /\ SameBranch(state[g], state'[g]) /\ state'[g].chunks = state[g].chunks
           /\ \A t \in ActionTypes : Plans(g, t) => actions'[t] = actions[t]
<1>1. CASE g = f
    <2>1. Ends(f, pc[f], state[f], pc'[f], state'[f])
        <3>1. StepOf(f)
            BY EveryStep
        <3>2. ~Works(f, pc[f], state[f], pc'[f], state'[f])
            BY <1>1 DEF Works, Whole, Closed
        <3>3. pc[f] \notin Working
            BY <1>1 DEF Whole, Closed, Working
        <3>4. QED  BY <3>1, <3>2, <3>3 DEF StepOf
    <2>2. pc'[f] \in Closed /\ SameBranch(state[f], state'[f])
          /\ state'[f].chunks = state[f].chunks
        BY <1>1, <2>1 DEF Ends, Whole, Closed
    <2>3. QED  BY <1>1, <2>2, RowsStay DEF Whole, Plans, SameBranch
<1>2. CASE g # f
    <2>1. pc'[g] = pc[g] /\ state'[g] = state[g] /\ trail'[g] = trail[g]
        BY <1>2, OthersRows
    <2>2. QED  BY <2>1, RowsStay DEF Whole, Plans, SameBranch
<1>3. QED  BY <1>1, <1>2

LEMMA NodeWholeInv ==
    ASSUME Shapes, Tables, Places, WholeInv, NEW f \in Flows, Node(f) \/ Crash(f)
    PROVE  WholeInv'
<1> SUFFICES ASSUME NEW g \in Flows, runs'[g] = "completed" PROVE Whole(g)'
    BY DEF WholeInv
<1>1. CASE runs[g] = "completed"
    BY <1>1, WholeStays DEF WholeInv
<1>2. CASE runs[g] # "completed"
    <2>1. g = f
        BY <1>2, OthersRows
    <2>2. pc[f] = "close" /\ pc'[f] \in {"end", "give_up"} /\ ~state[f].error
        BY <1>2, <2>1, OnlyCloseCompletes
    <2>3. Place(f)
        BY DEF Places
    <2>4. /\ BranchDone(f) /\ trail[f].outcome # "none"
          /\ state[f].chunks = "some" => f \in evidence
        BY <2>2, <2>3 DEF Place, Storing
    <2>5. Ends(f, pc[f], state[f], pc'[f], state'[f])
        <3>1. StepOf(f)
            BY EveryStep
        <3>2. ~Works(f, pc[f], state[f], pc'[f], state'[f]) /\ pc[f] \notin Working
            BY <2>2 DEF Works, Working
        <3>3. QED  BY <3>1, <3>2 DEF StepOf
    <2>6. SameBranch(state[f], state'[f]) /\ state'[f].chunks = state[f].chunks
        BY <2>5 DEF Ends
    <2>7. BranchDone(f)'
        BY <2>4, <2>6, BranchStays
    <2>8. QED  BY <2>1, <2>2, <2>4, <2>6, <2>7, RowsStay DEF Whole, Closed, BranchDone
<1>3. QED  BY <1>1, <1>2

-----------------------------------------------------------------------------
(* How a step extends the path                                              *)

SamePath(s, t) == t.path = s.path /\ t.step = s.step

Goes(s, t, to) == t.path = Append(s.path, <<s.step, to>>) /\ t.step = to

Qualifying == {"qualify", "create_qualification", "assess", "save_qualification",
               "complete_qualification", "fail_qualification"}

\* The node of the graph that a step belongs to.
NodeOf(n, s) ==
    CASE n \in {"load", "create_run"} -> "load_lead"
      [] n \in Qualifying -> "qualify_lead"
      [] n = "route" -> "route_by_classification"
      [] n = "branch" -> BranchOf[s.route]
      [] n = "retrieve" -> "retrieve_gtm_knowledge"
      [] n = "research" -> "build_research_context"
      [] n = "draft" -> "draft_outreach_email"
      [] n = "request" -> "request_external_action"
      [] OTHER -> "END"

\* Steps within a node, or of its last node.
Within(n, m) ==
    \/ n = "load" /\ m = "create_run"
    \/ n \in Qualifying /\ m \in Qualifying
    \/ n \in Storing \union {"give_up"} /\ m \notin Working \union {"persist"}
    \/ m = "crashed"

\* Steps from a node that worked to the next.
Between(f, n, m) ==
    \/ n = "create_run" /\ m = "qualify"
    \/ n = "complete_qualification" /\ m = "route"
    \/ n = "route" /\ m = "branch"
    \/ n = "branch" /\ m = AfterBranch(f)
    \/ n = "retrieve" /\ m = "research"
    \/ n = "research" /\ m \in {"draft", "persist"}
    \/ n = "draft" /\ m = "request"
    \/ n = "request" /\ m = "persist"

PathStepOf(f) ==
    \/ SamePath(state[f], state'[f]) /\ Within(pc[f], pc'[f])
    \/ /\ Goes(state[f], state'[f], NodeOf(pc[f], state[f]))
       /\ \/ Between(f, pc[f], pc'[f])
          \/ pc[f] \in Working \ {"route", "branch"} /\ pc'[f] = "persist" /\ state'[f].error

LEMMA MovedGoes ==
    ASSUME NEW s \in AgentState, NEW to \in Steps
    PROVE  /\ Moved(s, to) \in AgentState /\ Failed(s, to) \in AgentState
           /\ Goes(s, Moved(s, to), to) /\ Goes(s, Failed(s, to), to)
<1>1. Moved(s, to) \in AgentState /\ Failed(s, to) \in AgentState
    BY MovedTyped, FailedTyped
<1> DEFINE p == Append(s.path, <<s.step, to>>)
           m == Moved(s, to)
<1>2. m = [s EXCEPT !.step = to, !.path = p]
    BY DEF Moved
<1> HIDE DEF p, m
<1>3. m.path = p /\ m.step = to
    BY <1>2 DEF AgentState
<1>4. Failed(s, to) = [m EXCEPT !.error = TRUE]
    BY DEF Failed, m
<1>5. m \in AgentState
    BY <1>1 DEF m
<1>6. Failed(s, to).path = p /\ Failed(s, to).step = to
    BY <1>3, <1>4, <1>5 DEF AgentState
<1>7. QED  BY <1>1, <1>3, <1>6 DEF Goes, p, m

\* No other field has to do with the path.
LEMMA FieldsKeepPath ==
    ASSUME NEW s \in AgentState
    PROVE  /\ SamePath(s, [s EXCEPT !.lead = TRUE])
           /\ SamePath(s, [s EXCEPT !.run = TRUE])
           /\ \A c : SamePath(s, [s EXCEPT !.class = c])
           /\ \A r : SamePath(s, [s EXCEPT !.route = r])
           /\ SamePath(s, [s EXCEPT !.branch = TRUE])
           /\ \A c : SamePath(s, [s EXCEPT !.chunks = c])
           /\ \A c : SamePath(s, [s EXCEPT !.context = c])
           /\ SamePath(s, [s EXCEPT !.draft = TRUE])
           /\ \A e : SamePath(s, [s EXCEPT !.error = e])
    BY DEF AgentState, SamePath

LEMMA FailsPath ==
    ASSUME Shapes, NEW f \in Flows, NEW step \in Steps, pc[f] \in Working \ {"route", "branch"},
           step = NodeOf(pc[f], state[f]), Continue(f, Failed(state[f], step), "persist")
    PROVE  PathStepOf(f)
<1>1. pc'[f] = "persist" /\ state'[f] = Failed(state[f], step)
    BY ContinueStep
<1>2. Goes(state[f], state'[f], step) /\ state'[f].error
    BY <1>1, MovedGoes, FailedTyped DEF Shapes
<1>3. QED  BY <1>1, <1>2 DEF PathStepOf

LEMMA MovesPath ==
    ASSUME Shapes, NEW f \in Flows, NEW step \in Steps, NEW s, NEW next,
           step = NodeOf(pc[f], state[f]), Between(f, pc[f], next),
           SamePath(Moved(state[f], step), s), Continue(f, s, next)
    PROVE  PathStepOf(f)
<1>1. pc'[f] = next /\ state'[f] = s
    BY ContinueStep
<1>2. Goes(state[f], Moved(state[f], step), step)
    BY MovedGoes DEF Shapes
<1>3. Goes(state[f], s, step)
    BY <1>2 DEF Goes, SamePath
<1>4. QED  BY <1>1, <1>3 DEF PathStepOf

LEMMA StaysPath ==
    ASSUME Shapes, NEW f \in Flows, NEW s, NEW next, Within(pc[f], next),
           SamePath(state[f], s), Continue(f, s, next)
    PROVE  PathStepOf(f)
    BY ContinueStep DEF PathStepOf

LEMMA LoadPath ==
    ASSUME Shapes, NEW f \in Flows, Load(f) \/ CreateRun(f)
    PROVE  PathStepOf(f)
<1>1. state[f] \in AgentState /\ NodeOf(pc[f], state[f]) = "load_lead" /\ "load_lead" \in Steps
      /\ pc[f] \in Working \ {"route", "branch"}
    BY DEF Shapes, Load, CreateRun, NodeOf, Qualifying, Steps, Working
<1>2. CASE NodeFails(f, "load_lead")
    BY <1>1, <1>2, FailsPath DEF NodeFails
<1>3. CASE pc[f] = "load" /\ Continue(f, [state[f] EXCEPT !.lead = TRUE], "create_run")
    <2>1. SamePath(state[f], [state[f] EXCEPT !.lead = TRUE])
        BY <1>1, FieldsKeepPath
    <2>2. QED  BY <1>3, <2>1, StaysPath DEF Within
<1>4. CASE /\ pc[f] = "create_run"
           /\ Continue(f, [Moved(state[f], "load_lead") EXCEPT !.run = TRUE], "qualify")
    <2>1. SamePath(Moved(state[f], "load_lead"),
                   [Moved(state[f], "load_lead") EXCEPT !.run = TRUE])
        BY <1>1, MovedGoes, FieldsKeepPath
    <2>2. QED  BY <1>1, <1>4, <2>1, MovesPath DEF Between
<1>5. QED  BY <1>2, <1>3, <1>4 DEF Load, CreateRun, Done

LEMMA QualifyPath ==
    ASSUME Shapes, NEW f \in Flows,
           \/ Qualify(f) \/ CreateQualification(f) \/ Assess(f) \/ SaveQualification(f)
           \/ CompleteQualification(f) \/ FailQualification(f)
    PROVE  PathStepOf(f)
<1>1. /\ state[f] \in AgentState /\ pc[f] \in Qualifying
      /\ NodeOf(pc[f], state[f]) = "qualify_lead" /\ "qualify_lead" \in Steps
      /\ pc[f] \in Working \ {"route", "branch"}
    BY DEF Shapes, Qualify, CreateQualification, Assess, SaveQualification,
           CompleteQualification, FailQualification, Qualifying, NodeOf, Steps, Working
<1>2. CASE NodeFails(f, "qualify_lead")
    BY <1>1, <1>2, FailsPath DEF NodeFails
<1>3. ASSUME NEW next \in Qualifying, Continue(f, state[f], next) PROVE PathStepOf(f)
    BY <1>1, <1>3, StaysPath DEF Within, SamePath
<1>4. ASSUME NEW c \in Classes,
             Continue(f, [state[f] EXCEPT !.class = c], "save_qualification")
      PROVE  PathStepOf(f)
    <2>1. SamePath(state[f], [state[f] EXCEPT !.class = c])
        BY <1>1, FieldsKeepPath
    <2>2. QED  BY <1>1, <1>4, <2>1, StaysPath DEF Within, Qualifying
<1>5. CASE /\ pc[f] = "complete_qualification"
           /\ Continue(f, Moved(state[f], "qualify_lead"), "route")
    BY <1>1, <1>5, MovesPath DEF Between, SamePath
<1>6. CASE FailQualification(f)
    <2> DEFINE m == Failed(state[f], "qualify_lead")
    <2>1. m \in AgentState /\ Goes(state[f], m, "qualify_lead") /\ m.error = TRUE
        BY <1>1, MovedGoes, FailedTyped
    <2>2. pc'[f] = "persist" /\ state'[f] = [m EXCEPT !.class = "none"]
        BY <1>6, ContinueStep DEF FailQualification
    <2> HIDE DEF m
    <2>3. SamePath(m, state'[f]) /\ state'[f].error
        BY <2>1, <2>2 DEF AgentState, SamePath
    <2>4. QED  BY <1>1, <2>1, <2>2, <2>3 DEF PathStepOf, Goes, SamePath
<1>7. QED
    BY <1>2, <1>3, <1>4, <1>5, <1>6
       DEF Qualify, CreateQualification, Assess, SaveQualification, CompleteQualification,
           Done, Qualifying

LEMMA BranchPath ==
    ASSUME Shapes, NEW f \in Flows, RouteByClassification(f) \/ Branch(f)
    PROVE  PathStepOf(f)
<1>1. state[f] \in AgentState
    BY DEF Shapes
<1>2. CASE RouteByClassification(f)
    <2> DEFINE m == Moved(state[f], "route_by_classification")
               s == [m EXCEPT !.route = RouteOf[state[f].class]]
    <2>1. m \in AgentState /\ "route_by_classification" \in Steps
        BY <1>1, MovedGoes DEF Steps
    <2>2. SamePath(m, s)
        BY <2>1, FieldsKeepPath
    <2>3. pc[f] = "route" /\ Continue(f, s, "branch")
        BY <1>2 DEF RouteByClassification, Done
    <2>4. QED  BY <2>1, <2>2, <2>3, MovesPath DEF Between, NodeOf, Qualifying
<1>3. CASE Branch(f)
    <2> DEFINE m == Moved(state[f], BranchOf[state[f].route])
               s == [m EXCEPT !.branch = TRUE]
    <2>1. pc[f] = "branch" /\ Continue(f, s, AfterBranch(f))
        BY <1>3 DEF Branch, Done
    <2>2. BranchOf[state[f].route] \in Steps
        <3>1. state[f].class \in Classes /\ state[f].route = RouteOf[state[f].class]
            BY <2>1 DEF Shapes, Shape, Assessed, Routed
        <3>2. state[f].route \in {"research", "nurture", "stop"}
            BY <3>1 DEF RouteOf, Classes
        <3>3. QED  BY <3>2 DEF BranchOf, Steps
    <2>3. m \in AgentState
        BY <1>1, <2>2, MovedGoes
    <2>4. SamePath(m, s)
        BY <2>3, FieldsKeepPath
    <2>5. QED  BY <2>1, <2>2, <2>4, MovesPath DEF Between, NodeOf, Qualifying
<1>4. QED  BY <1>2, <1>3

LEMMA ResearchPath ==
    ASSUME Shapes, NEW f \in Flows,
           \/ RetrieveKnowledge(f) \/ BuildResearchContext(f) \/ DraftOutreachEmail(f)
           \/ RequestExternalAction(f)
    PROVE  PathStepOf(f)
<1> DEFINE to == NodeOf(pc[f], state[f])
           m == Moved(state[f], to)
<1>1. /\ state[f] \in AgentState /\ to \in Steps
      /\ pc[f] \in Working \ {"route", "branch"}
    BY DEF Shapes, RetrieveKnowledge, BuildResearchContext, DraftOutreachEmail,
           RequestExternalAction, NodeOf, Qualifying, Steps, Working
<1>2. m \in AgentState
    BY <1>1, MovedGoes
<1>3. ASSUME Continue(f, Failed(state[f], to), "persist") PROVE PathStepOf(f)
    BY <1>1, <1>3, FailsPath
<1>4. ASSUME NEW s, NEW next, SamePath(m, s), Between(f, pc[f], next), Continue(f, s, next)
      PROVE  PathStepOf(f)
    BY <1>1, <1>4, MovesPath
<1>5. CASE RetrieveKnowledge(f)
    <2>1. pc[f] = "retrieve" /\ to = "retrieve_gtm_knowledge"
        BY <1>5 DEF RetrieveKnowledge, NodeOf, Qualifying
    <2>2. \A c : SamePath(m, [m EXCEPT !.chunks = c])
        BY <1>2, FieldsKeepPath
    <2>3. \/ Continue(f, Failed(state[f], to), "persist")
          \/ \E c : Continue(f, [m EXCEPT !.chunks = c], "research")
        BY <1>5, <2>1 DEF RetrieveKnowledge, Done, NodeFails
    <2> HIDE DEF m, to
    <2>4. QED  BY <1>3, <1>4, <2>1, <2>2, <2>3 DEF Between
<1>6. CASE BuildResearchContext(f)
    <2>1. pc[f] = "research" /\ to = "build_research_context"
        BY <1>6 DEF BuildResearchContext, NodeOf, Qualifying
    <2>2. \A c : SamePath(m, [m EXCEPT !.context = c])
        BY <1>2, FieldsKeepPath
    <2>3. \/ Continue(f, Failed(state[f], to), "persist")
          \/ \E c : \E next \in {"draft", "persist"} : Continue(f, [m EXCEPT !.context = c], next)
        BY <1>6, <2>1 DEF BuildResearchContext, Done, NodeFails
    <2> HIDE DEF m, to
    <2>4. QED  BY <1>3, <1>4, <2>1, <2>2, <2>3 DEF Between
<1>7. CASE DraftOutreachEmail(f)
    <2>1. pc[f] = "draft" /\ to = "draft_outreach_email"
        BY <1>7 DEF DraftOutreachEmail, NodeOf, Qualifying
    <2>2. SamePath(m, [m EXCEPT !.draft = TRUE])
        BY <1>2, FieldsKeepPath
    <2>3. \/ Continue(f, Failed(state[f], to), "persist")
          \/ Continue(f, [m EXCEPT !.draft = TRUE], "request")
        BY <1>7, <2>1 DEF DraftOutreachEmail, Done, Refuse, NodeFails
    <2> HIDE DEF m, to
    <2>4. QED  BY <1>3, <1>4, <2>1, <2>2, <2>3 DEF Between
<1>8. CASE RequestExternalAction(f)
    <2>1. pc[f] = "request" /\ to = "request_external_action"
        BY <1>8 DEF RequestExternalAction, NodeOf, Qualifying
    <2>2. SamePath(m, m)
        BY DEF SamePath
    <2>3. \/ Continue(f, Failed(state[f], to), "persist")
          \/ Continue(f, m, "persist")
        BY <1>8, <2>1 DEF RequestExternalAction, Done, Refuse, NodeFails
    <2> HIDE DEF m, to
    <2>4. QED  BY <1>3, <1>4, <2>1, <2>2, <2>3 DEF Between
<1>9. QED  BY <1>5, <1>6, <1>7, <1>8

LEMMA EndPath ==
    ASSUME Shapes, NEW f \in Flows,
           \/ Persist(f) \/ StoreEvidence(f) \/ StoreTrail(f) \/ CloseRun(f) \/ GiveUp(f)
           \/ Crash(f)
    PROVE  PathStepOf(f)
<1>1. ASSUME NEW next, Within(pc[f], next), Continue(f, state[f], next) PROVE PathStepOf(f)
    BY <1>1, StaysPath DEF SamePath
<1>2. ASSUME NEW e, NEW next, Within(pc[f], next), Continue(f, [state[f] EXCEPT !.error = e], next)
      PROVE  PathStepOf(f)
    <2>1. SamePath(state[f], [state[f] EXCEPT !.error = e])
        BY FieldsKeepPath DEF Shapes
    <2>2. QED  BY <1>2, <2>1, StaysPath
<1>3. CASE Crash(f)
    BY <1>1, <1>3 DEF Crash, Within
<1>4. CASE Persist(f)
    <2> DEFINE e == state[f].error \/ ~HasCompleteResult(state[f])
    <2>1. PICK next \in {"end", "evidence", "trail"} :
            Continue(f, [state[f] EXCEPT !.error = e], next)
        BY <1>4 DEF Persist, Done
    <2> HIDE DEF e
    <2>2. Within(pc[f], next)
        BY <1>4 DEF Persist, Within, Storing, Working
    <2>3. QED  BY <1>2, <2>1, <2>2
<1>5. CASE StoreEvidence(f) \/ StoreTrail(f) \/ CloseRun(f) \/ GiveUp(f)
    <2>1. pc[f] \in Storing \union {"give_up"}
        BY <1>5 DEF StoreEvidence, StoreTrail, CloseRun, GiveUp, Storing
    <2>2. \A next \in {"trail", "close", "end", "give_up"} : Within(pc[f], next)
        BY <2>1 DEF Within, Working
    <2>3. \E next \in {"trail", "close", "end", "give_up"} :
            \/ Continue(f, state[f], next)
            \/ Continue(f, [state[f] EXCEPT !.error = TRUE], next)
        BY <1>5 DEF StoreEvidence, StoreTrail, CloseRun, GiveUp, Done
    <2>4. QED  BY <1>1, <1>2, <2>2, <2>3
<1>6. QED  BY <1>3, <1>4, <1>5

LEMMA EveryPathStep ==
    ASSUME Shapes, NEW f \in Flows, Node(f) \/ Crash(f)
    PROVE  PathStepOf(f)
    BY LoadPath, QualifyPath, BranchPath, ResearchPath, EndPath DEF Node

-----------------------------------------------------------------------------
(* A trail is a walk through the graph                                      *)

\* Every edge climbs, so no step is visited twice.
Rank ==
    [x \in Steps |->
        CASE x = "START" -> 0
          [] x = "load_lead" -> 1
          [] x = "qualify_lead" -> 2
          [] x = "route_by_classification" -> 3
          [] x \in {"research_state", "nurture_state", "stop_state"} -> 4
          [] x = "retrieve_gtm_knowledge" -> 5
          [] x = "build_research_context" -> 6
          [] x = "draft_outreach_email" -> 7
          [] x = "request_external_action" -> 8
          [] x = "persist_agent_state" -> 9
          [] OTHER -> 10]

LEMMA EdgesClimb ==
    ASSUME NEW a, NEW b, <<a, b>> \in GraphEdges
    PROVE  a \in Steps /\ b \in Steps /\ Rank[a] \in Nat /\ Rank[b] \in Nat /\ Rank[a] < Rank[b]
<1>1. a \in Steps /\ b \in Steps
    BY DEF GraphEdges, Steps
<1>2. Rank[a] \in Nat /\ Rank[b] \in Nat
    BY <1>1 DEF Rank, Steps
<1>3. \/ <<a, b>> \in {<<"START", "load_lead">>, <<"load_lead", "qualify_lead">>,
                       <<"qualify_lead", "route_by_classification">>,
                       <<"research_state", "retrieve_gtm_knowledge">>,
                       <<"retrieve_gtm_knowledge", "build_research_context">>,
                       <<"build_research_context", "draft_outreach_email">>,
                       <<"draft_outreach_email", "request_external_action">>,
                       <<"nurture_state", "request_external_action">>,
                       <<"persist_agent_state", "END">>}
      \/ a = "route_by_classification"
         /\ b \in {"research_state", "nurture_state", "stop_state"}
      \/ b = "persist_agent_state" /\ a \in Steps \ {"START", "persist_agent_state", "END"}
    BY DEF GraphEdges
<1>4. QED  BY <1>1, <1>2, <1>3 DEF Rank, Steps

\* A walk from START that has come to last.
WalkTo(p, last) ==
    /\ p \in Path
    /\ last \in Steps
    /\ IF p = <<>> THEN last = "START" ELSE p[1][1] = "START" /\ p[Len(p)][2] = last
    /\ \A k \in 1 .. Len(p) : p[k] \in GraphEdges /\ Rank[p[k][2]] <= Rank[last]
    /\ \A k \in 1 .. Len(p) - 1 : p[k][2] = p[k + 1][1]
    /\ \A j, k \in 1 .. Len(p) : j < k => Rank[p[j][2]] <= Rank[p[k][1]]

LEMMA PairsInPath ==
    ASSUME NEW p \in Path, NEW k \in 1 .. Len(p)
    PROVE  p[k] = <<p[k][1], p[k][2]>> /\ p[k][1] \in Steps /\ p[k][2] \in Steps
    BY DEF Path

LEMMA WalkGrows ==
    ASSUME NEW p, NEW a, NEW b, WalkTo(p, a), <<a, b>> \in GraphEdges
    PROVE  WalkTo(Append(p, <<a, b>>), b)
<1> DEFINE q == Append(p, <<a, b>>)
           n == Len(p)
<1>1. /\ p \in Path /\ a \in Steps /\ b \in Steps
      /\ Rank[a] \in Nat /\ Rank[b] \in Nat /\ Rank[a] < Rank[b]
    BY EdgesClimb DEF WalkTo
<1>2. n \in Nat /\ q \in Path /\ Len(q) = n + 1 /\ q[n + 1] = <<a, b>> /\ q # <<>>
      /\ \A k \in 1 .. n : q[k] = p[k]
    BY <1>1 DEF Path
<1>3. IF n = 0 THEN a = "START" ELSE p[1][1] = "START" /\ p[n][2] = a
    BY <1>1 DEF WalkTo, Path
<1>4. \A k \in 1 .. n : Rank[p[k][2]] \in Nat /\ Rank[p[k][2]] <= Rank[a]
    BY <1>1, PairsInPath DEF WalkTo, Rank, Steps
<1>5. \A k \in 1 .. n : p[k] \in GraphEdges
    BY DEF WalkTo
<1>6. \A k \in 1 .. n - 1 : p[k][2] = p[k + 1][1]
    BY DEF WalkTo
<1>7. \A j, k \in 1 .. n : j < k => Rank[p[j][2]] <= Rank[p[k][1]]
    BY DEF WalkTo
<1>8. q[1][1] = "START" /\ q[Len(q)][2] = b
    BY <1>2, <1>3
<1> HIDE DEF q, n
<1>9. ASSUME NEW k \in 1 .. Len(q) PROVE q[k] \in GraphEdges /\ Rank[q[k][2]] <= Rank[b]
    BY <1>1, <1>2, <1>4, <1>5
<1>10. ASSUME NEW k \in 1 .. Len(q) - 1 PROVE q[k][2] = q[k + 1][1]
    <2>1. CASE k = n
        BY <1>2, <1>3, <2>1
    <2>2. CASE k # n
        <3>1. k \in 1 .. n - 1 /\ k \in 1 .. n /\ k + 1 \in 1 .. n
            BY <1>2, <2>2
        <3>2. QED  BY <1>2, <1>6, <3>1
    <2>3. QED  BY <2>1, <2>2
<1>11. ASSUME NEW j \in 1 .. Len(q), NEW k \in 1 .. Len(q), j < k
       PROVE  Rank[q[j][2]] <= Rank[q[k][1]]
    <2>1. j \in 1 .. n
        BY <1>2, <1>11
    <2>2. CASE k = n + 1
        BY <1>2, <1>4, <2>1, <2>2
    <2>3. CASE k # n + 1
        <3>1. k \in 1 .. n
            BY <1>2, <2>3
        <3>2. QED  BY <1>2, <1>7, <1>11, <2>1, <3>1
    <2>4. QED  BY <2>2, <2>3
<1>12. WalkTo(q, b)
    BY <1>1, <1>2, <1>8, <1>9, <1>10, <1>11 DEF WalkTo
<1>13. QED  BY <1>12 DEF q

\* What TrailIsWalk says of one trail.
FullWalk(path) ==
    /\ path[1][1] = "START"
    /\ path[Len(path)][2] = "END"
    /\ \A k \in 1 .. Len(path) : path[k] \in GraphEdges
    /\ \A k \in 1 .. Len(path) - 1 : path[k][2] = path[k + 1][1]
    /\ \A j, k \in 1 .. Len(path) :
          path[j][1] = path[k][1] \/ path[j][2] = path[k][2] => j = k

LEMMA WalkToEnd ==
    ASSUME NEW p, WalkTo(p, "END")
    PROVE  FullWalk(p)
<1>1. p \in Path /\ p # <<>> /\ Len(p) \in Nat
    BY DEF WalkTo, Path
<1>2. ASSUME NEW j \in 1 .. Len(p), NEW k \in 1 .. Len(p), j < k
      PROVE  p[j][1] # p[k][1] /\ p[j][2] # p[k][2]
    <2>1. <<p[j][1], p[j][2]>> \in GraphEdges /\ <<p[k][1], p[k][2]>> \in GraphEdges
        BY <1>1, PairsInPath DEF WalkTo
    <2>2. /\ Rank[p[j][1]] \in Nat /\ Rank[p[j][2]] \in Nat /\ Rank[p[j][1]] < Rank[p[j][2]]
          /\ Rank[p[k][1]] \in Nat /\ Rank[p[k][2]] \in Nat /\ Rank[p[k][1]] < Rank[p[k][2]]
        BY <2>1, EdgesClimb
    <2>3. Rank[p[j][2]] <= Rank[p[k][1]]
        BY <1>2 DEF WalkTo
    <2>4. Rank[p[j][1]] # Rank[p[k][1]] /\ Rank[p[j][2]] # Rank[p[k][2]]
        BY <2>2, <2>3
    <2>5. QED  BY <2>4
<1>3. ASSUME NEW j \in 1 .. Len(p), NEW k \in 1 .. Len(p),
             p[j][1] = p[k][1] \/ p[j][2] = p[k][2]
      PROVE  j = k
    <2>1. ~(j < k) /\ ~(k < j)
        BY <1>2, <1>3
    <2>2. j \in Nat /\ k \in Nat
        BY <1>1
    <2>3. QED  BY <2>1, <2>2
<1>4. p[1][1] = "START" /\ p[Len(p)][2] = "END"
    BY <1>1 DEF WalkTo
<1>5. QED  BY <1>3, <1>4 DEF WalkTo, FullWalk

\* The steps at which an orchestration's state stands, node by node.
StandsAt(n) ==
    CASE n \in {"load", "create_run"} -> {"START"}
      [] n \in Qualifying -> {"load_lead"}
      [] n = "route" -> {"qualify_lead"}
      [] n = "branch" -> {"route_by_classification"}
      [] n = "retrieve" -> {"research_state"}
      [] n = "research" -> {"retrieve_gtm_knowledge"}
      [] n = "draft" -> {"build_research_context"}
      [] n = "request" -> {"nurture_state", "draft_outreach_email"}
      [] OTHER -> Steps \ {"START", "persist_agent_state", "END",
                           "route_by_classification", "research_state"}

Walking(f) ==
    /\ pc[f] \in Working \union Storing =>
        state[f].step \in StandsAt(pc[f]) /\ WalkTo(state[f].path, state[f].step)
    /\ trail[f].outcome # "none" => FullWalk(trail[f].path)

\* A node that worked leads to a place of the next, along an edge.
LEMMA NodeEdge ==
    ASSUME Shapes, NEW f \in Flows, pc[f] \in Working, state[f].step \in StandsAt(pc[f]),
           NEW m,
           \/ Between(f, pc[f], m)
           \/ pc[f] \notin {"route", "branch"} /\ m = "persist"
    PROVE  /\ <<state[f].step, NodeOf(pc[f], state[f])>> \in GraphEdges
           /\ NodeOf(pc[f], state[f]) \in StandsAt(m)
<1> DEFINE n == pc[f]  s == state[f]
<1>1. CASE n \in {"load", "create_run"}
    BY <1>1 DEF StandsAt, NodeOf, Between, Qualifying, GraphEdges, Steps
<1>2. CASE n \in Qualifying
    BY <1>2 DEF StandsAt, NodeOf, Between, Qualifying, GraphEdges, Steps
<1>3. CASE n = "route"
    BY <1>3 DEF StandsAt, NodeOf, Between, Qualifying, GraphEdges, Steps
<1>4. CASE n = "branch"
    <2>1. s.class \in Classes /\ s.route = RouteOf[s.class]
        BY <1>4 DEF Shapes, Shape, Assessed, Routed
    <2>2. s.step = "route_by_classification" /\ m = AfterBranch(f)
        BY <1>4 DEF StandsAt, Between, Qualifying
    <2>3. NodeOf(n, s) = BranchOf[s.route]
        BY <1>4 DEF NodeOf, Qualifying
    <2>4. CASE s.route = "research"
        <3>1. NodeOf(n, s) = "research_state" /\ m = "retrieve"
            BY <2>2, <2>3, <2>4 DEF BranchOf, AfterBranch
        <3>2. QED  BY <2>2, <3>1 DEF StandsAt, Qualifying, GraphEdges
    <2>5. CASE s.route = "nurture"
        <3>1. NodeOf(n, s) = "nurture_state" /\ m \in {"request", "persist"}
            BY <2>2, <2>3, <2>5 DEF BranchOf, AfterBranch
        <3>2. QED  BY <2>2, <3>1 DEF StandsAt, Qualifying, GraphEdges, Steps
    <2>6. CASE s.route = "stop"
        <3>1. NodeOf(n, s) = "stop_state" /\ m = "persist"
            BY <2>2, <2>3, <2>6 DEF BranchOf, AfterBranch
        <3>2. QED  BY <2>2, <3>1 DEF StandsAt, Qualifying, GraphEdges, Steps
    <2>7. QED  BY <2>1, <2>4, <2>5, <2>6 DEF RouteOf, Classes
<1>5. CASE n \in {"retrieve", "research", "draft", "request"}
    BY <1>5 DEF StandsAt, NodeOf, Between, Qualifying, GraphEdges, Steps
<1>6. QED  BY <1>1, <1>2, <1>3, <1>4, <1>5 DEF Working, Qualifying

\* The two transitions that persist_agent_state adds close the walk.
LEMMA FinalWalk ==
    ASSUME Shapes, NEW f \in Flows, pc[f] = "trail", Walking(f)
    PROVE  FullWalk(FinalTransitions(f).path)
<1> DEFINE p == state[f].path
           a == state[f].step
<1>1. WalkTo(p, a) /\ a \in StandsAt("trail")
    BY DEF Walking, Storing
<1>2. a \in Steps /\ p \in Path /\ "persist_agent_state" \in Steps /\ "END" \in Steps
    BY <1>1 DEF WalkTo, Steps
<1>3. <<a, "persist_agent_state">> \in GraphEdges /\ <<"persist_agent_state", "END">> \in GraphEdges
    BY <1>1 DEF StandsAt, Qualifying, GraphEdges
<1>4. FinalTransitions(f).path =
        p \o <<<<a, "persist_agent_state">>, <<"persist_agent_state", "END">>>>
    BY DEF FinalTransitions
<1> HIDE DEF p, a
<1>5. p \o <<<<a, "persist_agent_state">>, <<"persist_agent_state", "END">>>>
        = Append(Append(p, <<a, "persist_agent_state">>), <<"persist_agent_state", "END">>)
    BY <1>2 DEF Path
<1>6. WalkTo(Append(Append(p, <<a, "persist_agent_state">>), <<"persist_agent_state", "END">>),
             "END")
    BY <1>1, <1>3, WalkGrows
<1>7. QED  BY <1>4, <1>5, <1>6, WalkToEnd

LEMMA NodeWalking ==
    ASSUME Shapes, Tables, NEW f \in Flows, Node(f) \/ Crash(f), Walking(f)
    PROVE  Walking(f)'
<1>1. trail'[f].outcome # "none" => FullWalk(trail'[f].path)
    <2>1. UNCHANGED trail
          \/ (pc[f] = "trail" /\ trail' = [trail EXCEPT ![f] = FinalTransitions(f)])
        BY DEF Node, Load, CreateRun, Qualify, CreateQualification, Assess,
               SaveQualification, CompleteQualification, FailQualification,
               RouteByClassification, Branch, RetrieveKnowledge, BuildResearchContext,
               DraftOutreachEmail, RequestExternalAction, Persist, StoreEvidence,
               StoreTrail, CloseRun, GiveUp, Crash, tables
    <2>2. CASE UNCHANGED trail
        BY <2>2 DEF Walking
    <2>3. CASE pc[f] = "trail" /\ trail' = [trail EXCEPT ![f] = FinalTransitions(f)]
        BY <2>3, FinalWalk DEF Tables
    <2>4. QED  BY <2>1, <2>2, <2>3
<1>2. ASSUME pc'[f] \in Working \union Storing
      PROVE  state'[f].step \in StandsAt(pc'[f]) /\ WalkTo(state'[f].path, state'[f].step)
    <2>1. CASE SamePath(state[f], state'[f]) /\ Within(pc[f], pc'[f])
        <3>1. pc'[f] # "crashed"
            BY <1>2 DEF Working, Storing
        <3>2. pc[f] \in Working \union Storing /\ StandsAt(pc[f]) \subseteq StandsAt(pc'[f])
            <4>1. CASE pc[f] = "load" /\ pc'[f] = "create_run"
                BY <4>1 DEF StandsAt, Qualifying, Working
            <4>2. CASE pc[f] \in Qualifying /\ pc'[f] \in Qualifying
                BY <4>2 DEF StandsAt, Working, Qualifying
            <4>3. CASE pc[f] \in Storing \union {"give_up"}
                       /\ pc'[f] \notin Working \union {"persist"}
                <5>1. pc[f] \in Storing
                    <6>1. pc[f] = "give_up" => pc'[f] \in {"end", "crashed"}
                        BY EveryStep DEF StepOf, Works, Ends, Working
                    <6>2. QED  BY <1>2, <4>3, <6>1 DEF Working, Storing
                <5>2. pc'[f] \in Storing
                    BY <1>2, <4>3
                <5>3. QED  BY <5>1, <5>2 DEF StandsAt, Storing, Qualifying
            <4>4. QED  BY <2>1, <3>1, <4>1, <4>2, <4>3 DEF Within
        <3>3. QED  BY <2>1, <3>2 DEF Walking, SamePath
    <2>2. CASE /\ Goes(state[f], state'[f], NodeOf(pc[f], state[f]))
               /\ \/ Between(f, pc[f], pc'[f])
                  \/ pc[f] \in Working \ {"route", "branch"} /\ pc'[f] = "persist"
        <3>1. pc[f] \in Working
            BY <2>2 DEF Between, Working
        <3>2. state[f].step \in StandsAt(pc[f]) /\ WalkTo(state[f].path, state[f].step)
            BY <3>1 DEF Walking
        <3>3. /\ <<state[f].step, NodeOf(pc[f], state[f])>> \in GraphEdges
              /\ NodeOf(pc[f], state[f]) \in StandsAt(pc'[f])
            BY <2>2, <3>1, <3>2, NodeEdge
        <3>4. QED  BY <2>2, <3>2, <3>3, WalkGrows DEF Goes
    <2>3. QED  BY <2>1, <2>2, EveryPathStep DEF PathStepOf
<1>3. QED  BY <1>1, <1>2 DEF Walking

\* Every stored trail, of a failed run too, is a walk along the edges of the compiled
\* graph from START to END that visits no step twice, whichever nodes failed and
\* whichever writes were lost: its rows can be put in order without their times.
THEOREM TrailsAreWalks == Spec => []TrailIsWalk
<1> DEFINE Inv == Shapes /\ Tables /\ \A f \in Flows : Walking(f)
<1>1. Init => Inv
    <2> SUFFICES ASSUME Init, NEW f \in Flows PROVE Walking(f)
        BY InitTyped
    <2>1. pc[f] = "load" /\ state[f].path = <<>> /\ state[f].step = "START"
          /\ trail[f].outcome = "none"
        BY DEF Init, FreshState
    <2>2. WalkTo(<<>>, "START")
        BY DEF WalkTo, Path, Steps
    <2>3. QED  BY <2>1, <2>2 DEF Walking, StandsAt, Qualifying
<1>2. Inv /\ [Next]_vars => Inv'
    <2> SUFFICES ASSUME Inv, [Next]_vars PROVE Inv'
        OBVIOUS
    <2>1. (Shapes /\ Tables)'
        BY NextTyped
    <2>2. CASE UNCHANGED vars
        BY <2>1, <2>2 DEF vars, memory, tables, Walking
    <2>3. ASSUME NEW f \in Flows, Node(f) \/ Crash(f) PROVE \A g \in Flows : Walking(g)'
        <3>1. \A g \in Flows \ {f} : Walking(g)'
            BY <2>3, OthersRows DEF Walking
        <3>2. QED  BY <2>3, <3>1, NodeWalking
    <2>4. QED  BY <2>1, <2>2, <2>3 DEF Next
<1>3. Inv => TrailIsWalk
    BY DEF Walking, FullWalk, TrailIsWalk
<1>4. QED  BY <1>1, <1>2, <1>3, PTL DEF Spec

-----------------------------------------------------------------------------
(* The walk of a completed orchestration                                    *)

LEMMA VisitedGrows ==
    ASSUME NEW p \in Path, NEW a \in Steps, NEW b \in Steps
    PROVE  /\ Visited(p) \in Seq(Steps)
           /\ Visited(Append(p, <<a, b>>)) = Append(Visited(p), b)
<1>1. Append(p, <<a, b>>) \in Path /\ Len(Append(p, <<a, b>>)) = Len(p) + 1
      /\ Append(p, <<a, b>>)[Len(p) + 1] = <<a, b>>
      /\ \A k \in 1 .. Len(p) : Append(p, <<a, b>>)[k] = p[k]
    BY DEF Path
<1>2. Visited(p) \in Seq(Steps) /\ Len(Visited(p)) = Len(p)
      /\ \A k \in 1 .. Len(p) : Visited(p)[k] = p[k][2]
    BY DEF Visited, Path
<1> DEFINE q == Append(p, <<a, b>>)
<1>3. Visited(q) \in Seq(Steps) /\ Len(Visited(q)) = Len(q)
      /\ \A k \in 1 .. Len(q) : Visited(q)[k] = q[k][2]
    BY <1>1 DEF Visited, Path
<1>4. /\ Append(Visited(p), b) \in Seq(Steps)
      /\ Len(Append(Visited(p), b)) = Len(p) + 1
      /\ Append(Visited(p), b)[Len(p) + 1] = b
      /\ \A k \in 1 .. Len(p) : Append(Visited(p), b)[k] = p[k][2]
    BY <1>2
<1>5. Len(p) \in Nat
    BY DEF Path
<1>6. \A k \in 1 .. Len(q) : Visited(q)[k] = Append(Visited(p), b)[k]
    BY <1>1, <1>3, <1>4, <1>5
<1>7. Visited(q) = Append(Visited(p), b)
    BY <1>1, <1>3, <1>4, <1>6, SeqEqual
<1>8. QED  BY <1>2, <1>7

\* Sequences written out, and their concatenations, are built by Append.
LEMMA AppendLiterals ==
    ASSUME NEW a, NEW b, NEW c
    PROVE  /\ Append(<<>>, a) = <<a>>
           /\ Append(<<a>>, b) = <<a, b>>
           /\ Append(<<a, b>>, c) = <<a, b, c>>
<1> DEFINE S == {a, b, c}
<1>0. a \in S /\ b \in S /\ c \in S
    OBVIOUS
<1> HIDE DEF S
<1>1. Append(<<>>, a) = <<a>>
    OBVIOUS
<1>2. Append(<<a>>, b) = <<a, b>>
    <2>1. <<a>> \in Seq(S) /\ <<a, b>> \in Seq(S)
          /\ Len(<<a>>) = 1 /\ Len(<<a, b>>) = 2
        BY <1>0
    <2>2. Append(<<a>>, b) \in Seq(S) /\ Len(Append(<<a>>, b)) = 2
        BY <1>0, <2>1
    <2>3. \A i \in 1 .. 2 : Append(<<a>>, b)[i] = <<a, b>>[i]
        BY <1>0, <2>1
    <2>4. QED  BY <2>1, <2>2, <2>3, SeqEqual
<1>3. Append(<<a, b>>, c) = <<a, b, c>>
    <2>1. <<a, b>> \in Seq(S) /\ <<a, b, c>> \in Seq(S)
          /\ Len(<<a, b>>) = 2 /\ Len(<<a, b, c>>) = 3
        BY <1>0
    <2>2. Append(<<a, b>>, c) \in Seq(S) /\ Len(Append(<<a, b>>, c)) = 3
        BY <1>0, <2>1
    <2>3. \A i \in 1 .. 3 : Append(<<a, b>>, c)[i] = <<a, b, c>>[i]
        BY <1>0, <2>1
    <2>4. QED  BY <2>1, <2>2, <2>3, SeqEqual
<1>4. QED  BY <1>1, <1>2, <1>3

LEMMA FourLiterals ==
    ASSUME NEW a, NEW b, NEW c, NEW d
    PROVE  Append(<<a, b, c>>, d) = <<a, b, c, d>>
<1> DEFINE S == {a, b, c, d}
<1>0. a \in S /\ b \in S /\ c \in S /\ d \in S
    OBVIOUS
<1> HIDE DEF S
<1>1. <<a, b, c>> \in Seq(S) /\ <<a, b, c, d>> \in Seq(S)
      /\ Len(<<a, b, c>>) = 3 /\ Len(<<a, b, c, d>>) = 4
    BY <1>0
<1>2. Append(<<a, b, c>>, d) \in Seq(S) /\ Len(Append(<<a, b, c>>, d)) = 4
    BY <1>0, <1>1
<1>3. \A i \in 1 .. 4 : Append(<<a, b, c>>, d)[i] = <<a, b, c, d>>[i]
    BY <1>0, <1>1
<1>4. QED  BY <1>1, <1>2, <1>3, SeqEqual

LEMMA OneMore ==
    ASSUME NEW S, NEW q \in Seq(S), NEW a \in S
    PROVE  q \o <<>> = q /\ q \o <<a>> = Append(q, a)
    OBVIOUS

LEMMA TwoMore ==
    ASSUME NEW S, NEW q \in Seq(S), NEW a \in S, NEW b \in S
    PROVE  q \o <<a, b>> = Append(Append(q, a), b)
    OBVIOUS

Head4(c) == <<"load_lead", "qualify_lead", "route_by_classification", BranchOf[RouteOf[c]]>>

Researched(c) == Append(Append(Head4(c), "retrieve_gtm_knowledge"), "build_research_context")

\* The walk up to persist_agent_state.
Planned(s, f) ==
    Head4(s.class)
    \o (IF s.class = "HOT"
          THEN <<"retrieve_gtm_knowledge", "build_research_context">> ELSE <<>>)
    \o (IF s.class = "HOT" /\ s.chunks = "some" /\ f \in Acting
          THEN <<"draft_outreach_email">> ELSE <<>>)
    \o (IF f \in Acting /\ (s.class = "WARM" \/ (s.class = "HOT" /\ s.chunks = "some"))
          THEN <<"request_external_action">> ELSE <<>>)

LEMMA Head4Typed ==
    ASSUME NEW c \in Classes
    PROVE  /\ Head4(c) \in Seq(Steps) /\ Researched(c) \in Seq(Steps)
           /\ BranchOf[RouteOf[c]] \in Steps
<1>1. BranchOf[RouteOf[c]] \in Steps
    BY DEF Classes, RouteOf, BranchOf, Steps
<1>2. "load_lead" \in Steps /\ "qualify_lead" \in Steps /\ "route_by_classification" \in Steps
      /\ "retrieve_gtm_knowledge" \in Steps /\ "build_research_context" \in Steps
    BY DEF Steps
<1> HIDE DEF Steps
<1>3. Head4(c) \in Seq(Steps)
    BY <1>1, <1>2 DEF Head4
<1>4. Researched(c) \in Seq(Steps)
    BY <1>2, <1>3 DEF Researched
<1>5. QED  BY <1>1, <1>3, <1>4

\* The three kinds of walk.
LEMMA PlannedCases ==
    ASSUME NEW s, s.class \in Classes, NEW f
    PROVE  Planned(s, f) =
             IF s.class = "HOT"
               THEN IF s.chunks = "some" /\ f \in Acting
                      THEN Append(Append(Researched(s.class), "draft_outreach_email"),
                                  "request_external_action")
                      ELSE Researched(s.class)
               ELSE IF s.class = "WARM" /\ f \in Acting
                      THEN Append(Head4(s.class), "request_external_action")
                      ELSE Head4(s.class)
<1> DEFINE h == Head4(s.class)
           r == Researched(s.class)
<1>1. h \in Seq(Steps) /\ r \in Seq(Steps)
    BY Head4Typed
<1>2. "retrieve_gtm_knowledge" \in Steps /\ "build_research_context" \in Steps
      /\ "draft_outreach_email" \in Steps /\ "request_external_action" \in Steps
    BY DEF Steps
<1>3. h \o <<"retrieve_gtm_knowledge", "build_research_context">> = r
    BY <1>1, <1>2, TwoMore DEF Researched
<1>4. /\ h \o <<>> = h /\ r \o <<>> = r
      /\ h \o <<"request_external_action">> = Append(h, "request_external_action")
      /\ r \o <<"draft_outreach_email">> = Append(r, "draft_outreach_email")
    BY <1>1, <1>2, OneMore
<1>5. Append(r, "draft_outreach_email") \o <<"request_external_action">>
        = Append(Append(r, "draft_outreach_email"), "request_external_action")
    <2>1. Append(r, "draft_outreach_email") \in Seq(Steps)
        BY <1>1, <1>2
    <2>2. QED  BY <1>2, <2>1, OneMore
<1>6. Planned(s, f) =
        ((h \o (IF s.class = "HOT"
                  THEN <<"retrieve_gtm_knowledge", "build_research_context">> ELSE <<>>))
         \o (IF s.class = "HOT" /\ s.chunks = "some" /\ f \in Acting
               THEN <<"draft_outreach_email">> ELSE <<>>))
        \o (IF f \in Acting /\ (s.class = "WARM" \/ (s.class = "HOT" /\ s.chunks = "some"))
              THEN <<"request_external_action">> ELSE <<>>)
    BY DEF Planned
<1> HIDE DEF h, r
<1>7. CASE s.class = "HOT" /\ s.chunks = "some" /\ f \in Acting
    BY <1>3, <1>4, <1>5, <1>6, <1>7 DEF h, r
<1>8. CASE s.class = "HOT" /\ ~(s.chunks = "some" /\ f \in Acting)
    BY <1>3, <1>4, <1>6, <1>8 DEF h, r
<1>9. CASE s.class = "WARM" /\ f \in Acting
    BY <1>4, <1>6, <1>9 DEF h, r
<1>10. CASE s.class # "HOT" /\ ~(s.class = "WARM" /\ f \in Acting)
    BY <1>4, <1>6, <1>10 DEF h, r
<1>11. QED  BY <1>7, <1>8, <1>9, <1>10

\* What an orchestration has visited at each node.
Way(n, s, f) ==
    CASE n \in {"load", "create_run"} -> <<>>
      [] n \in Qualifying -> <<"load_lead">>
      [] n = "route" -> <<"load_lead", "qualify_lead">>
      [] n = "branch" -> <<"load_lead", "qualify_lead", "route_by_classification">>
      [] n = "retrieve" -> Head4(s.class)
      [] n = "research" -> Append(Head4(s.class), "retrieve_gtm_knowledge")
      [] n = "draft" -> Researched(s.class)
      [] n = "request" -> IF s.class = "HOT"
                            THEN Append(Researched(s.class), "draft_outreach_email")
                            ELSE Head4(s.class)
      [] OTHER -> Planned(s, f)

OnCourse(f) ==
    \/ pc[f] \in Working \ {"fail_qualification"}
    \/ pc[f] \in Storing /\ ~state[f].error

\* The way of a node that worked leads on through it.
LEMMA WayLeads ==
    ASSUME Shapes, Tables, NEW f \in Flows, Node(f), Place(f),
           Works(f, pc[f], state[f], pc'[f], state'[f]), Between(f, pc[f], pc'[f])
    PROVE  Way(pc'[f], state'[f], f)
             = Append(Way(pc[f], state[f], f), NodeOf(pc[f], state[f]))
<1> DEFINE n == pc[f]  s == state[f]  m == pc'[f]  t == state'[f]
<1>1. Shape(n, s) /\ Shape(m, t)
    BY NodeShape DEF Shapes
<1>2. "load_lead" \in Steps /\ "qualify_lead" \in Steps /\ "route_by_classification" \in Steps
    BY DEF Steps
<1>3. CASE n \in {"create_run", "complete_qualification", "route"}
    <2>1. CASE n = "create_run"
        <3>1. Way(n, s, f) = <<>> /\ NodeOf(n, s) = "load_lead" /\ m = "qualify"
            BY <2>1 DEF Between, Way, NodeOf, Qualifying
        <3>2. Way(m, t, f) = <<"load_lead">>
            BY <3>1 DEF Way, Qualifying
        <3>3. QED  BY <1>2, <3>1, <3>2, AppendLiterals
    <2>2. CASE n = "complete_qualification"
        <3>1. Way(n, s, f) = <<"load_lead">> /\ NodeOf(n, s) = "qualify_lead" /\ m = "route"
            BY <2>2 DEF Between, Way, NodeOf, Qualifying
        <3>2. Way(m, t, f) = <<"load_lead", "qualify_lead">>
            BY <3>1 DEF Way, Qualifying
        <3>3. QED  BY <1>2, <3>1, <3>2, AppendLiterals
    <2>3. CASE n = "route"
        <3>1. Way(n, s, f) = <<"load_lead", "qualify_lead">>
              /\ NodeOf(n, s) = "route_by_classification" /\ m = "branch"
            BY <2>3 DEF Between, Way, NodeOf, Qualifying
        <3>2. Way(m, t, f) = <<"load_lead", "qualify_lead", "route_by_classification">>
            BY <3>1 DEF Way, Qualifying
        <3>3. QED  BY <1>2, <3>1, <3>2, AppendLiterals
    <2>4. QED  BY <1>3, <2>1, <2>2, <2>3
<1>4. CASE n = "branch"
    <2>1. s.class \in Classes /\ s.route = RouteOf[s.class]
        BY <1>1, <1>4 DEF Shape, Assessed, Routed
    <2>2. t.class = s.class /\ t.chunks = s.chunks /\ m = AfterBranch(f)
        BY <1>4 DEF Works, SameBranch
    <2>3. Append(Way(n, s, f), NodeOf(n, s)) = Head4(s.class)
        <3>1. BranchOf[RouteOf[s.class]] \in Steps
            BY <2>1, Head4Typed
        <3>2. Way(n, s, f) = <<"load_lead", "qualify_lead", "route_by_classification">>
              /\ NodeOf(n, s) = BranchOf[RouteOf[s.class]]
            BY <1>4, <2>1 DEF Way, NodeOf, Qualifying
        <3>3. Append(<<"load_lead", "qualify_lead", "route_by_classification">>,
                     BranchOf[RouteOf[s.class]]) = Head4(s.class)
            BY FourLiterals, Zenon DEF Head4
        <3>4. QED  BY <3>2, <3>3
    <2>4. CASE s.class = "HOT"
        <3>1. m = "retrieve"
            BY <2>1, <2>2, <2>4 DEF AfterBranch, RouteOf
        <3>2. QED  BY <2>2, <2>3, <3>1 DEF Way, Qualifying
    <2>5. CASE s.class = "WARM" /\ f \in Acting
        <3>1. m = "request"
            BY <2>1, <2>2, <2>5 DEF AfterBranch, RouteOf
        <3>2. QED  BY <2>2, <2>3, <2>5, <3>1 DEF Way, Qualifying
    <2>6. CASE s.class = "COLD" \/ (s.class = "WARM" /\ f \notin Acting)
        <3>1. m = "persist"
            BY <2>1, <2>2, <2>6 DEF AfterBranch, RouteOf
        <3>2. Planned(t, f) = Head4(s.class)
            BY <2>1, <2>2, <2>6, PlannedCases
        <3>3. QED  BY <2>3, <3>1, <3>2 DEF Way, Qualifying
    <2>7. QED  BY <2>1, <2>4, <2>5, <2>6 DEF Classes
<1>5. CASE n = "retrieve"
    BY <1>5 DEF Works, SameBranch, Way, NodeOf, Qualifying
<1>6. CASE n = "research"
    <2>1. s.class = "HOT" /\ s.chunks \in {"empty", "some"}
        BY <1>6 DEF Place
    <2>2. t.class = "HOT" /\ t.chunks = s.chunks
          /\ m = IF s.chunks = "some" /\ f \in Acting THEN "draft" ELSE "persist"
        BY <1>6, <2>1 DEF Works, SameBranch
    <2>3. Append(Way(n, s, f), NodeOf(n, s)) = Researched("HOT")
        BY <1>6, <2>1 DEF Way, NodeOf, Qualifying, Researched
    <2>4. ~(s.chunks = "some" /\ f \in Acting) => Planned(t, f) = Researched("HOT")
        BY <2>2, PlannedCases DEF Classes
    <2>5. QED  BY <2>2, <2>3, <2>4 DEF Way, Qualifying
<1>7. CASE n = "draft"
    <2>1. s.class = "HOT" /\ t.class = "HOT" /\ m = "request"
        BY <1>7 DEF Place, Works, SameBranch
    <2>2. QED  BY <1>7, <2>1 DEF Way, NodeOf, Qualifying
<1>8. CASE n = "request"
    <2>1. /\ f \in Acting /\ t.class = s.class /\ t.chunks = s.chunks /\ m = "persist"
          /\ (s.class = "HOT" /\ s.chunks = "some") \/ s.class = "WARM"
        BY <1>8 DEF Place, Works, SameBranch
    <2>2. Planned(t, f) = IF s.class = "HOT"
                            THEN Append(Append(Researched(s.class), "draft_outreach_email"),
                                        "request_external_action")
                            ELSE Append(Head4(s.class), "request_external_action")
        <3>1. CASE s.class = "HOT"
            <4>1. t.class = "HOT" /\ t.chunks = "some"
                BY <2>1, <3>1
            <4>2. QED  BY <2>1, <3>1, <4>1, PlannedCases DEF Classes
        <3>2. CASE s.class = "WARM"
            BY <2>1, <3>2, PlannedCases DEF Classes
        <3>3. QED  BY <2>1, <3>1, <3>2
    <2>3. QED  BY <1>8, <2>1, <2>2 DEF Way, NodeOf, Qualifying
<1>9. QED  BY <1>3, <1>4, <1>5, <1>6, <1>7, <1>8 DEF Between

LEMMA NodeWay ==
    ASSUME Shapes, Tables, NEW f \in Flows, Node(f) \/ Crash(f), Place(f), OnCourse(f)',
           OnCourse(f) => Visited(state[f].path) = Way(pc[f], state[f], f)
    PROVE  Visited(state'[f].path) = Way(pc'[f], state'[f], f)
<1>1. pc'[f] \notin {"crashed", "fail_qualification"}
      /\ (pc'[f] = "persist" => ~state'[f].error)
    BY DEF OnCourse, Working, Storing
<1>2. StepOf(f) /\ PathStepOf(f)
    BY EveryStep, EveryPathStep
<1>3. CASE SamePath(state[f], state'[f]) /\ Within(pc[f], pc'[f])
    <2>1. CASE pc[f] = "load" /\ pc'[f] = "create_run"
        <3>1. Way(pc[f], state[f], f) = <<>> /\ Way(pc'[f], state'[f], f) = <<>>
            BY <2>1 DEF Way, Qualifying
        <3>2. QED  BY <1>3, <2>1, <3>1 DEF OnCourse, Working, SamePath
    <2>2. CASE pc[f] \in Qualifying /\ pc'[f] \in Qualifying
        <3>1. pc[f] # "fail_qualification"
            BY <1>1, <1>2, <2>2 DEF StepOf, Works, Ends, Qualifying
        <3>2. QED  BY <1>3, <2>2, <3>1 DEF OnCourse, Working, Qualifying, Way, SamePath
    <2>3. CASE pc[f] \in Storing \union {"give_up"} /\ pc'[f] \notin Working \union {"persist"}
        <3>1. Ends(f, pc[f], state[f], pc'[f], state'[f])
            BY <1>2, <2>3 DEF StepOf, Works, Working, Storing
        <3>2. pc'[f] \in Storing /\ ~state'[f].error
            BY <2>3 DEF OnCourse
        <3>3. pc[f] \in Storing /\ ~state[f].error
            BY <2>3, <3>1, <3>2 DEF Ends, Storing
        <3>4. state'[f].class = state[f].class /\ state'[f].chunks = state[f].chunks
            BY <3>1 DEF Ends, SameBranch
        <3>5. Way(pc[f], state[f], f) = Planned(state[f], f)
              /\ Way(pc'[f], state'[f], f) = Planned(state'[f], f)
            BY <3>2, <3>3 DEF Way, Storing, Qualifying
        <3>6. Planned(state'[f], f) = Planned(state[f], f)
            BY <3>4 DEF Planned
        <3>7. QED  BY <1>3, <3>3, <3>5, <3>6 DEF OnCourse, SamePath
    <2>4. QED  BY <1>1, <1>3, <2>1, <2>2, <2>3 DEF Within
<1>4. CASE Goes(state[f], state'[f], NodeOf(pc[f], state[f])) /\ Between(f, pc[f], pc'[f])
    <2>1. pc[f] \in Working \ {"fail_qualification"}
        BY <1>4 DEF Between, Working
    <2>2. Works(f, pc[f], state[f], pc'[f], state'[f])
        BY <1>1, <1>2, <2>1 DEF StepOf, Ends, Working
    <2>3. Node(f)
        BY <1>1, NoChange DEF Crash
    <2>4. state[f].path \in Path /\ state[f].step \in Steps
        BY DEF Shapes, AgentState, Path
    <2>5. NodeOf(pc[f], state[f]) \in Steps
        <3>1. pc[f] = "branch" => state[f].class \in Classes
                                  /\ state[f].route = RouteOf[state[f].class]
            BY DEF Shapes, Shape, Assessed, Routed
        <3>2. pc[f] = "branch" => BranchOf[state[f].route] \in Steps
            BY <3>1, Head4Typed
        <3>3. QED  BY <1>4, <3>2 DEF Between, NodeOf, Qualifying, Steps
    <2>6. Visited(state'[f].path) = Append(Visited(state[f].path), NodeOf(pc[f], state[f]))
        BY <1>4, <2>4, <2>5, VisitedGrows DEF Goes
    <2>7. Visited(state[f].path) = Way(pc[f], state[f], f)
        BY <2>1 DEF OnCourse
    <2>8. QED  BY <1>4, <2>2, <2>3, <2>6, <2>7, WayLeads
<1>5. QED  BY <1>1, <1>2, <1>3, <1>4 DEF PathStepOf

-----------------------------------------------------------------------------
(* What a completed run claims                                              *)

\* The nodes of an orchestration that has been qualified without a failure since.
Qualified(f) ==
    \/ pc[f] \in Routed \union {"route"}
    \/ pc[f] \in Storing /\ ~state[f].error

Claims(f) ==
    /\ trail[f].outcome = "completed"
    /\ Visited(trail[f].path) = ExpectedWalk(state[f], f \in Acting)

Directed(f) == state[f].class \in Classes /\ state[f].route = RouteOf[state[f].class]

Assured == leadClass # "none"

\* What makes a completed run's claims come true, step by step.
Progress(f) ==
    /\ OnCourse(f) => Visited(state[f].path) = Way(pc[f], state[f], f)
    /\ pc[f] = "complete_qualification" => Assured
    /\ Qualified(f) => quals[f] = "completed" /\ Assured
    /\ pc[f] \in Storing /\ ~state[f].error => Directed(f)
    /\ pc[f] = "close" /\ ~state[f].error => Claims(f)
    /\ runs[f] = "completed" =>
        Claims(f) /\ Directed(f) /\ quals[f] = "completed" /\ Assured

\* A lead that has a class keeps one.
LEMMA AssuredStays ==
    ASSUME Shapes, Tables, NEW f \in Flows, Node(f) \/ Crash(f)
    PROVE  /\ Assured => Assured'
           /\ pc[f] = "save_qualification" /\ pc'[f] = "complete_qualification" => Assured'
<1>1. leadClass' = leadClass \/ SaveQualification(f)
    BY DEF Node, Load, CreateRun, Qualify, CreateQualification, Assess,
           CompleteQualification, FailQualification,
           RouteByClassification, Branch, RetrieveKnowledge, BuildResearchContext,
           DraftOutreachEmail, RequestExternalAction, Persist, StoreEvidence,
           StoreTrail, CloseRun, GiveUp, Crash, tables
<1>2. pc[f] = "save_qualification" => state[f].class \in Classes
    BY DEF Shapes, Shape, Assessed
<1>3. CASE SaveQualification(f)
    <2>1. state[f].class # "none"
        BY <1>2, <1>3 DEF SaveQualification, Classes
    <2>2. leadClass' \in {leadClass, state[f].class}
        BY <1>3 DEF SaveQualification
    <2>3. leadClass' = state[f].class \/ Continue(f, state[f], "fail_qualification")
        BY <1>3 DEF SaveQualification
    <2>4. Continue(f, state[f], "fail_qualification") => pc'[f] = "fail_qualification"
        BY ContinueStep
    <2>5. QED  BY <2>1, <2>2, <2>3, <2>4 DEF Assured
<1>4. CASE leadClass' = leadClass /\ ~SaveQualification(f)
    <2>1. pc[f] # "save_qualification" \/ Crash(f)
        BY <1>4 DEF Node, Load, CreateRun, Qualify, CreateQualification, Assess,
           CompleteQualification, FailQualification,
           RouteByClassification, Branch, RetrieveKnowledge, BuildResearchContext,
           DraftOutreachEmail, RequestExternalAction, Persist, StoreEvidence,
           StoreTrail, CloseRun, GiveUp
    <2>2. Crash(f) => pc'[f] = "crashed"
        BY NoChange DEF Crash
    <2>3. QED  BY <1>4, <2>1, <2>2 DEF Assured
<1>5. QED  BY <1>1, <1>3, <1>4

\* A qualification is completed before the lead is routed, and its row stays.
LEMMA QualStays ==
    ASSUME Shapes, Tables, NEW f \in Flows, Node(f) \/ Crash(f)
    PROVE  /\ pc[f] \notin {"create_qualification", "complete_qualification",
                            "fail_qualification"} => quals'[f] = quals[f]
           /\ pc[f] = "complete_qualification" /\ pc'[f] = "route"
                => quals'[f] = "completed"
<1>1. \/ UNCHANGED quals
      \/ pc[f] \in {"create_qualification", "complete_qualification", "fail_qualification"}
    BY DEF Node, Load, CreateRun, Qualify, CreateQualification, Assess, SaveQualification,
           CompleteQualification, FailQualification,
           RouteByClassification, Branch, RetrieveKnowledge, BuildResearchContext,
           DraftOutreachEmail, RequestExternalAction, Persist, StoreEvidence,
           StoreTrail, CloseRun, GiveUp, Crash, tables
<1>2. ASSUME pc[f] = "complete_qualification", pc'[f] = "route"
      PROVE  quals'[f] = "completed"
    <2>1. ~Crash(f)
        BY <1>2, NoChange DEF Crash
    <2>2. CompleteQualification(f)
        BY <1>2, <2>1
        DEF Node, Load, CreateRun, Qualify, CreateQualification, Assess,
           SaveQualification, FailQualification,
           RouteByClassification, Branch, RetrieveKnowledge, BuildResearchContext,
           DraftOutreachEmail, RequestExternalAction, Persist, StoreEvidence,
           StoreTrail, CloseRun, GiveUp
    <2>3. \/ quals' = [quals EXCEPT ![f] = "completed"]
          \/ Continue(f, state[f], "fail_qualification")
        BY <2>2 DEF CompleteQualification
    <2>4. Continue(f, state[f], "fail_qualification") => pc'[f] = "fail_qualification"
        BY ContinueStep
    <2>5. QED  BY <1>2, <2>3, <2>4 DEF Tables
<1>3. QED  BY <1>1, <1>2

\* The trail is written once, with the path the orchestration has taken.
LEMMA TrailWritten ==
    ASSUME Shapes, Tables, NEW f \in Flows, Node(f) \/ Crash(f)
    PROVE  /\ pc[f] # "trail" => trail'[f] = trail[f]
           /\ pc[f] = "trail" /\ pc'[f] = "close" =>
                trail'[f] = FinalTransitions(f) /\ state'[f] = state[f]
<1>1. UNCHANGED trail \/ StoreTrail(f)
    BY DEF Node, Load, CreateRun, Qualify, CreateQualification, Assess, SaveQualification,
           CompleteQualification, FailQualification,
           RouteByClassification, Branch, RetrieveKnowledge, BuildResearchContext,
           DraftOutreachEmail, RequestExternalAction, Persist, StoreEvidence,
           CloseRun, GiveUp, Crash, tables
<1>2. ASSUME pc[f] = "trail", pc'[f] = "close"
      PROVE  trail'[f] = FinalTransitions(f) /\ state'[f] = state[f]
    <2>1. ~Crash(f)
        BY <1>2, NoChange DEF Crash
    <2>2. StoreTrail(f)
        BY <1>2, <2>1
        DEF Node, Load, CreateRun, Qualify, CreateQualification, Assess,
           SaveQualification, CompleteQualification, FailQualification,
           RouteByClassification, Branch, RetrieveKnowledge, BuildResearchContext,
           DraftOutreachEmail, RequestExternalAction, Persist, StoreEvidence,
           CloseRun, GiveUp
    <2>3. \/ /\ trail' = [trail EXCEPT ![f] = FinalTransitions(f)]
             /\ Continue(f, state[f], "close")
          \/ Continue(f, [state[f] EXCEPT !.error = TRUE], "give_up")
        BY <2>2 DEF StoreTrail, Done
    <2>4. Continue(f, state[f], "close") => state'[f] = state[f]
        BY ContinueStep
    <2>5. Continue(f, [state[f] EXCEPT !.error = TRUE], "give_up") => pc'[f] = "give_up"
        BY ContinueStep
    <2>6. QED  BY <1>2, <2>3, <2>4, <2>5 DEF Tables
<1>3. QED  BY <1>1, <1>2 DEF StoreTrail

\* The stored trail of an orchestration without an error is the walk of its class.
LEMMA ClaimsStored ==
    ASSUME Shapes, NEW f \in Flows, ~state[f].error, state[f].class \in Classes,
           Visited(state[f].path) = Planned(state[f], f)
    PROVE  /\ FinalTransitions(f).outcome = "completed"
           /\ Visited(FinalTransitions(f).path) = ExpectedWalk(state[f], f \in Acting)
<1> DEFINE path == state[f].path  P == "persist_agent_state"
           one == Append(path, <<state[f].step, P>>)
<1>1. path \in Path /\ state[f].step \in Steps
    BY DEF Shapes, AgentState, Path
<1>2. P \in Steps /\ "END" \in Steps
    BY DEF Steps
<1>3. FinalTransitions(f).path = Append(one, <<P, "END">>)
    <2> DEFINE S == Steps \X Steps  a == <<state[f].step, P>>  b == <<P, "END">>
    <2>1. a \in S /\ b \in S /\ path \in Seq(S)
        BY <1>1, <1>2 DEF Path
    <2> HIDE DEF S, a, b, path
    <2>2. path \o <<a, b>> = Append(Append(path, a), b)
        BY <2>1, TwoMore
    <2>3. QED  BY <2>2 DEF FinalTransitions, a, b, path
<1>4. Visited(one) = Append(Visited(path), P) /\ one \in Path
    BY <1>1, <1>2, VisitedGrows, AppendTyped DEF Path
<1>5. Visited(Append(one, <<P, "END">>)) = Append(Visited(one), "END")
    BY <1>2, <1>4, VisitedGrows
<1>6. Visited(path) \in Seq(Steps)
    BY <1>1, <1>2, VisitedGrows
<1>7. Visited(path) \o <<P, "END">> = Append(Append(Visited(path), P), "END")
    BY <1>2, <1>6, TwoMore
<1>8. ExpectedWalk(state[f], f \in Acting) = Planned(state[f], f) \o <<P, "END">>
    BY DEF ExpectedWalk, Planned, Head4
<1>9. FinalTransitions(f).outcome = "completed"
    BY DEF FinalTransitions, Outcome
<1>10. QED  BY <1>3, <1>4, <1>5, <1>7, <1>8, <1>9

\* A step of an orchestration keeps what is known of it.
LEMMA NodeProgress ==
    ASSUME Shapes, Tables, Places, WholeInv, NEW f \in Flows, Node(f) \/ Crash(f), Progress(f)
    PROVE  Progress(f)'
<1> DEFINE n == pc[f]  s == state[f]  m == pc'[f]  t == state'[f]
<1>1. StepOf(f) /\ Place(f) /\ Shape(n, s)
    BY EveryStep DEF Places, Shapes
<1>2. Assured => Assured'
    BY AssuredStays
<1>3. OnCourse(f)' => Visited(t.path) = Way(m, t, f)
    BY <1>1, NodeWay DEF Progress
<1>4. m = "complete_qualification" => Assured'
    <2>1. m = "complete_qualification" => n = "save_qualification"
        BY <1>1 DEF StepOf, Works, Ends, Working, AfterBranch
    <2>2. QED  BY <2>1, AssuredStays
<1>5. Qualified(f)' => quals'[f] = "completed" /\ Assured'
    <2> SUFFICES ASSUME Qualified(f)' PROVE quals'[f] = "completed" /\ Assured'
        OBVIOUS
    <2>1. \/ n = "complete_qualification" /\ m = "route"
          \/ Qualified(f)
        BY <1>1 DEF Qualified, StepOf, Works, Ends, Working, Storing, Routed, AfterBranch
    <2>2. CASE n = "complete_qualification" /\ m = "route"
        BY <1>2, <2>2, QualStays DEF Progress
    <2>3. CASE Qualified(f)
        <3>1. n \notin {"create_qualification", "complete_qualification",
                        "fail_qualification"}
            BY <2>3 DEF Qualified, Routed, Storing
        <3>2. QED  BY <1>2, <2>3, <3>1, QualStays DEF Progress
    <2>4. QED  BY <2>1, <2>2, <2>3
<1>6. m \in Storing /\ ~t.error => Directed(f)'
    <2> SUFFICES ASSUME m \in Storing, ~t.error PROVE Directed(f)'
        OBVIOUS
    <2>1. SameBranch(s, t) /\ (n \in Routed \/ (n \in Storing /\ ~s.error))
        BY <1>1 DEF StepOf, Works, Ends, Working, Storing, Routed, AfterBranch
    <2>2. Directed(f)
        BY <1>1, <2>1 DEF Directed, Progress, Shape, Assessed, Routed
    <2>3. QED  BY <2>1, <2>2 DEF Directed, SameBranch
<1>7. m = "close" /\ ~t.error => Claims(f)'
    <2> SUFFICES ASSUME m = "close", ~t.error PROVE Claims(f)'
        OBVIOUS
    <2>1. n = "trail"
        BY <1>1 DEF StepOf, Works, Ends, Working, AfterBranch
    <2>2. trail'[f] = FinalTransitions(f) /\ t = s
        BY <2>1, TrailWritten
    <2>3. Directed(f) /\ OnCourse(f) /\ ~s.error
        BY <2>1, <2>2 DEF Progress, Storing, OnCourse
    <2>4. Way(n, s, f) = Planned(s, f)
        BY <2>1 DEF Way, Qualifying
    <2>5. Visited(s.path) = Planned(s, f)
        BY <2>3, <2>4 DEF Progress
    <2>6. QED  BY <2>2, <2>3, <2>5, ClaimsStored DEF Claims, Directed
<1>8. runs'[f] = "completed" =>
        Claims(f)' /\ Directed(f)' /\ quals'[f] = "completed" /\ Assured'
    <2> SUFFICES ASSUME runs'[f] = "completed"
                 PROVE  Claims(f)' /\ Directed(f)' /\ quals'[f] = "completed" /\ Assured'
        OBVIOUS
    <2>1. /\ n \in Closed \union {"close"}
          /\ Claims(f) /\ Directed(f) /\ quals[f] = "completed" /\ Assured
        <3>1. CASE runs[f] = "completed"
            BY <3>1 DEF Progress, WholeInv, Whole
        <3>2. CASE runs[f] # "completed"
            <4>1. n = "close" /\ ~s.error
                BY <3>2, OnlyCloseCompletes
            <4>2. QED  BY <4>1 DEF Progress, Qualified, Storing
        <3>3. QED  BY <3>1, <3>2
    <2>2. Ends(f, n, s, m, t)
        BY <1>1, <2>1 DEF StepOf, Works, Working, Closed
    <2>3. SameBranch(s, t) /\ t.chunks = s.chunks
        BY <2>2 DEF Ends
    <2>4. quals'[f] = quals[f] /\ trail'[f] = trail[f]
        BY <2>1, QualStays, TrailWritten DEF Closed
    <2>5. ExpectedWalk(t, f \in Acting) = ExpectedWalk(s, f \in Acting)
        BY <2>3 DEF ExpectedWalk, SameBranch
    <2>6. QED  BY <1>2, <2>1, <2>3, <2>4, <2>5 DEF Claims, Directed, SameBranch
<1>9. QED  BY <1>3, <1>4, <1>5, <1>6, <1>7, <1>8 DEF Progress

LEMMA OthersProgress ==
    ASSUME Shapes, Tables, NEW f \in Flows, Node(f) \/ Crash(f), NEW g \in Flows \ {f},
           Progress(g)
    PROVE  Progress(g)'
<1>1. /\ pc'[g] = pc[g] /\ state'[g] = state[g]
      /\ runs'[g] = runs[g] /\ quals'[g] = quals[g] /\ trail'[g] = trail[g]
    BY OthersRows
<1>2. Assured => Assured'
    BY AssuredStays
<1>3. /\ OnCourse(g)' => OnCourse(g)
      /\ Qualified(g)' => Qualified(g)
      /\ Claims(g) => Claims(g)'
      /\ Directed(g) => Directed(g)'
    BY <1>1 DEF OnCourse, Qualified, Claims, Directed
<1>4. QED  BY <1>1, <1>2, <1>3 DEF Progress

\* A step that a walk of the orchestration's class does not take is not in it.
LEMMA Unvisited ==
    ASSUME NEW q \in Seq(Steps), NEW a \in Steps, NEW x \in Steps \ {a},
           \A k \in 1 .. Len(q) : q[k] # x
    PROVE  /\ Append(q, a) \in Seq(Steps)
           /\ \A k \in 1 .. Len(Append(q, a)) : Append(q, a)[k] # x
    OBVIOUS

LEMMA NoRequestVisited ==
    ASSUME NEW s, s.class \in Classes, NEW f,
           ~(f \in Acting /\ (s.class = "WARM" \/ (s.class = "HOT" /\ s.chunks = "some")))
    PROVE  \A k \in 1 .. Len(ExpectedWalk(s, f \in Acting)) :
              ExpectedWalk(s, f \in Acting)[k] # "request_external_action"
<1> DEFINE x == "request_external_action"
           h == Head4(s.class)
           r == Researched(s.class)
           p == Planned(s, f)
<1>1. h \in Seq(Steps) /\ \A k \in 1 .. Len(h) : h[k] # x
    <2>1. BranchOf[RouteOf[s.class]] # x
        BY DEF Classes, RouteOf, BranchOf
    <2>2. \A k \in 1 .. 4 : h[k] # x
        BY <2>1 DEF Head4
    <2>3. Len(h) = 4
        BY DEF Head4
    <2>4. QED  BY <2>2, <2>3, Head4Typed
<1>2. x \in Steps /\ "retrieve_gtm_knowledge" \in Steps /\ "build_research_context" \in Steps
      /\ "persist_agent_state" \in Steps /\ "END" \in Steps
    BY DEF Steps
<1> HIDE DEF h
<1>3. r \in Seq(Steps) /\ \A k \in 1 .. Len(r) : r[k] # x
    <2> DEFINE u == Append(h, "retrieve_gtm_knowledge")
    <2>1. u \in Seq(Steps) /\ \A k \in 1 .. Len(u) : u[k] # x
        BY <1>1, <1>2, Unvisited
    <2>2. r = Append(u, "build_research_context")
        BY DEF Researched, h
    <2> HIDE DEF u, r
    <2>3. QED  BY <1>2, <2>1, <2>2, Unvisited
<1>4. p \in {h, r}
    BY PlannedCases DEF h, Classes
<1> HIDE DEF p, r
<1>5. p \in Seq(Steps) /\ \A k \in 1 .. Len(p) : p[k] # x
    BY <1>1, <1>3, <1>4
<1> DEFINE v == Append(p, "persist_agent_state")
<1>6. v \in Seq(Steps) /\ \A k \in 1 .. Len(v) : v[k] # x
    BY <1>2, <1>5, Unvisited
<1> HIDE DEF v
<1>7. \A k \in 1 .. Len(Append(v, "END")) : Append(v, "END")[k] # x
    BY <1>2, <1>6, Unvisited
<1>8. ExpectedWalk(s, f \in Acting) = Append(v, "END")
    <2>1. ExpectedWalk(s, f \in Acting) = p \o <<"persist_agent_state", "END">>
        BY DEF ExpectedWalk, Planned, Head4, p
    <2>2. p \o <<"persist_agent_state", "END">> = Append(v, "END")
        BY <1>2, <1>5, TwoMore DEF v
    <2>3. QED  BY <2>1, <2>2
<1>9. QED  BY <1>7, <1>8

\* Rows that bear out the claims of a trail back the run, whatever its row says.
LEMMA ClaimsBacked ==
    ASSUME Tables, NEW f \in Flows, Claims(f), Directed(f),
           quals[f] = "completed", Assured,
           state[f].chunks = "some" => f \in evidence,
           \A t \in ActionTypes : Plans(f, t) => actions[t] \in Flows
    PROVE  Backing(f)
<1>1. ASSUME NEW k \in DOMAIN trail[f].path,
             trail[f].path[k][2] = "request_external_action"
      PROVE  actions[ActionOf[state[f].route]] # NoFlow
    <2> DEFINE s == state[f]  t == ActionOf[state[f].route]
    <2>1. trail[f].path \in Path
        BY DEF Tables
    <2>2. k \in 1 .. Len(Visited(trail[f].path))
          /\ Visited(trail[f].path)[k] = "request_external_action"
        BY <1>1, <2>1 DEF Visited, Path
    <2>3. f \in Acting /\ (s.class = "WARM" \/ (s.class = "HOT" /\ s.chunks = "some"))
        BY <2>2, NoRequestVisited DEF Claims, Directed
    <2>4. t \in ActionTypes /\ Plans(f, t)
        BY <2>3 DEF Directed, RouteOf, ActionOf, ActionTypes, Plans
    <2>5. QED  BY <2>4, FlowsAssumption
<1>2. QED  BY <1>1 DEF Backing, Claims, Assured

\* The inductive invariant of the graph.
GraphInv == Shapes /\ Tables /\ Places /\ WholeInv /\ \A f \in Flows : Progress(f)

LEMMA InitGraphInv == Init => GraphInv
<1> SUFFICES ASSUME Init PROVE GraphInv
    OBVIOUS
<1>1. Shapes /\ Tables
    BY InitTyped
<1>2. ASSUME NEW f \in Flows
      PROVE  pc[f] = "load" /\ state[f] = FreshState /\ runs[f] = "none"
    BY DEF Init
<1>3. Places
    <2> SUFFICES ASSUME NEW f \in Flows PROVE Place(f)
        BY DEF Places
    <2>1. pc[f] = "load" /\ state[f].chunks = "none"
        BY <1>2 DEF FreshState
    <2>2. QED  BY <2>1 DEF Place, Asking, Storing
<1>4. WholeInv
    BY <1>2 DEF WholeInv
<1>5. ASSUME NEW f \in Flows PROVE Progress(f)
    <2>1. Visited(state[f].path) = <<>>
        BY <1>2 DEF Visited, FreshState
    <2>2. Way(pc[f], state[f], f) = <<>>
        BY <1>2 DEF Way, Qualifying
    <2>3. ~Qualified(f)
        BY <1>2 DEF Qualified, Routed, Storing
    <2>4. QED  BY <1>2, <2>1, <2>2, <2>3 DEF Progress, Storing
<1>6. QED  BY <1>1, <1>3, <1>4, <1>5 DEF GraphInv

LEMMA NextGraphInv == GraphInv /\ [Next]_vars => GraphInv'
<1> SUFFICES ASSUME GraphInv, [Next]_vars PROVE GraphInv'
    OBVIOUS
<1> USE DEF GraphInv
<1>1. (Shapes /\ Tables)'
    BY NextTyped
<1>2. CASE UNCHANGED vars
    BY <1>1, <1>2 DEF vars, memory, tables, Places, Place, BranchDone, Plans, WholeInv,
       Whole, Progress, OnCourse, Qualified, Claims, Directed, Assured
<1>3. ASSUME NEW f \in Flows, Node(f) \/ Crash(f)
      PROVE  (Places /\ WholeInv /\ \A g \in Flows : Progress(g))'
    <2>1. Places' /\ WholeInv'
        BY <1>3, NodePlaces, NodeWholeInv
    <2>2. Progress(f)'
        BY <1>3, NodeProgress
    <2>3. \A g \in Flows \ {f} : Progress(g)'
        BY <1>3, OthersProgress
    <2>4. QED  BY <2>1, <2>2, <2>3
<1>4. QED  BY <1>1, <1>2, <1>3 DEF Next

LEMMA GraphInvariant == Spec => []GraphInv
BY InitGraphInv, NextGraphInv, PTL DEF Spec

\* A run that the database calls completed is backed by everything it claims,
\* whichever calls of whichever orchestrations failed on the way: by the whole trail of
\* its class, a completed qualification, a class of the lead, the evidence of its
\* research and the external action that its trail says it requested.
THEOREM CompletedRunsBacked == Spec => []CompletedRunIsBacked
<1>1. GraphInv => CompletedRunIsBacked
    <2> SUFFICES ASSUME GraphInv, NEW f \in Flows, runs[f] = "completed"
                 PROVE  Backing(f)
        BY DEF CompletedRunIsBacked
    <2>1. /\ Claims(f) /\ Directed(f) /\ quals[f] = "completed" /\ Assured
          /\ Whole(f) /\ Tables
        BY DEF GraphInv, Progress, WholeInv
    <2>2. QED  BY <2>1, ClaimsBacked DEF Whole
<1>2. QED  BY <1>1, GraphInvariant, PTL

-----------------------------------------------------------------------------
(* Failures and the row of the run                                          *)

\* The nodes at which the run is open: after load_lead and before its row is closed.
Underway == (Working \ {"load", "create_run"}) \union {"evidence", "trail", "close"}

\* At node n with state s, the row of the run r, k failures so far, and data that a
\* node refuses if u: the service knows its run from the time the row is there, an error
\* means that a call failed or the data is refused, and what a node finds in its state
\* is complete.
Healthy(n, s, r, k, u) ==
    /\ n \in {"load", "create_run"} => ~s.run /\ r = "none"
    /\ n \in Underway => s.run /\ r = "started"
    /\ n = "persist" /\ s.run => r = "started"
    /\ n = "give_up" => s.run /\ r # "none" /\ k >= 1
    /\ n \in Working => ~s.error
    /\ s.error => k >= 1 \/ u
    /\ n = "fail_qualification" => k >= 1
    /\ n \in {"retrieve", "research", "draft", "request"} => s.branch
    /\ n = "draft" => s.context # "none"
    /\ n = "request" /\ s.route = "research" => s.draft
    /\ n = "persist" /\ ~s.error => HasCompleteResult(s)

Fit(f) == Healthy(pc[f], state[f], runs[f], faults, Unfit(f, state[f]))

\* Which data is refused depends on three fields of the state.
SameFindings(s, t) == t.route = s.route /\ t.chunks = s.chunks /\ t.context = s.context

LEMMA UnfitSame ==
    ASSUME NEW f, NEW s, NEW t, SameFindings(s, t)
    PROVE  Unfit(f, t) = Unfit(f, s)
    BY DEF SameFindings, Unfit

\* Which handlers write the run's row.
LEMMA RunsKept ==
    ASSUME NEW f \in Flows, Node(f) \/ Crash(f)
    PROVE  UNCHANGED runs \/ CreateRun(f) \/ CloseRun(f) \/ GiveUp(f)
    BY DEF Node, Load, Qualify, CreateQualification, Assess,
           SaveQualification, CompleteQualification, FailQualification,
           RouteByClassification, Branch, RetrieveKnowledge, BuildResearchContext,
           DraftOutreachEmail, RequestExternalAction, Persist, StoreEvidence,
           StoreTrail, Crash, tables

LEMMA ContinueFit ==
    ASSUME Shapes, NEW f \in Flows, NEW s, NEW next, Continue(f, s, next),
           Healthy(next, s, runs'[f], faults', Unfit(f, s))
    PROVE  Fit(f)'
    BY ContinueStep DEF Fit

LEMMA FailFit ==
    ASSUME Shapes, Tables, NEW f \in Flows, NEW step \in Steps, Fit(f),
           NodeFails(f, step), state[f].run => runs'[f] = "started"
    PROVE  Fit(f)'
<1>1. faults' >= 1
    BY DEF NodeFails, Fault, Tables
<1>2. Failed(state[f], step).error /\ Failed(state[f], step).run = state[f].run
    BY FailedTyped DEF Shapes, SameResult
<1>3. Healthy("persist", Failed(state[f], step), runs'[f], faults',
              Unfit(f, Failed(state[f], step)))
    BY <1>1, <1>2 DEF Healthy, Underway, Working
<1>4. QED  BY <1>3, ContinueFit DEF NodeFails

\* A call inside a node, after which the state is the same.
LEMMA KeepFit ==
    ASSUME Shapes, Tables, NEW f \in Flows, Fit(f), Node(f) \/ Crash(f), UNCHANGED runs,
           NEW next, Continue(f, state[f], next),
           \/ pc[f] \in Working \ {"load", "create_run"}
              /\ \/ next \in {"create_qualification", "assess", "complete_qualification"}
                 \/ next = "fail_qualification" /\ Fault
           \/ pc[f] \in {"evidence", "trail"} /\ next \in {"trail", "close"}
           \/ next = "crashed"
    PROVE  Fit(f)'
<1>1. faults \in Nat /\ faults' \in Nat /\ faults' >= faults
    BY FaultsGrow DEF Tables
<1>2. Fault => faults' >= 1
    BY <1>1 DEF Fault
<1>3. Healthy(next, state[f], runs'[f], faults', Unfit(f, state[f]))
    BY <1>1, <1>2 DEF Fit, Healthy, Underway, Working
<1>4. QED  BY <1>3, ContinueFit

LEMMA LoadFit ==
    ASSUME Shapes, Tables, NEW f \in Flows, Fit(f), Load(f) \/ CreateRun(f)
    PROVE  Fit(f)'
<1>1. state[f] \in AgentState /\ faults \in Nat
    BY DEF Shapes, Tables
<1>2. ~state[f].run /\ ~state[f].error /\ runs[f] = "none"
    BY DEF Load, CreateRun, Fit, Healthy, Working
<1>3. CASE NodeFails(f, "load_lead")
    BY <1>2, <1>3, FailFit DEF Steps
<1>4. CASE Load(f) /\ Done(f, [state[f] EXCEPT !.lead = TRUE], "create_run")
    <2> DEFINE s == [state[f] EXCEPT !.lead = TRUE]
    <2>1. s.run = state[f].run /\ s.error = state[f].error
        BY <1>1 DEF AgentState
    <2>2. runs'[f] = "none" /\ faults' = faults
        BY <1>2, <1>4 DEF Load, tables, Done
    <2> HIDE DEF s
    <2>3. Healthy("create_run", s, runs'[f], faults', Unfit(f, s))
        BY <1>2, <2>1, <2>2 DEF Healthy, Underway, Working
    <2>4. QED  BY <1>4, <2>3, ContinueFit DEF Done, s
<1>5. CASE /\ runs' = [runs EXCEPT ![f] = "started"]
           /\ Done(f, [Moved(state[f], "load_lead") EXCEPT !.run = TRUE], "qualify")
    <2> DEFINE m == Moved(state[f], "load_lead")
               s == [m EXCEPT !.run = TRUE]
    <2>1. m \in AgentState /\ m.error = state[f].error
        BY <1>1, MovedTyped DEF Steps
    <2> HIDE DEF m
    <2>2. s.run /\ s.error = state[f].error
        BY <2>1 DEF AgentState
    <2>3. runs'[f] = "started" /\ faults' = faults
        BY <1>5 DEF Tables, Done
    <2> HIDE DEF s
    <2>4. Healthy("qualify", s, runs'[f], faults', Unfit(f, s))
        BY <1>2, <2>2, <2>3 DEF Healthy, Underway, Working
    <2>5. QED  BY <1>5, <2>4, ContinueFit DEF Done, s, m
<1>6. QED  BY <1>3, <1>4, <1>5 DEF Load, CreateRun

LEMMA QualifyFit ==
    ASSUME Shapes, Tables, NEW f \in Flows, Fit(f),
           \/ Qualify(f) \/ CreateQualification(f) \/ Assess(f) \/ SaveQualification(f)
           \/ CompleteQualification(f) \/ FailQualification(f)
    PROVE  Fit(f)'
<1>1. state[f] \in AgentState /\ faults \in Nat
    BY DEF Shapes, Tables
<1>2. /\ pc[f] \in {"qualify", "create_qualification", "assess", "save_qualification",
                    "complete_qualification", "fail_qualification"}
      /\ UNCHANGED runs
    BY DEF Qualify, CreateQualification, Assess, SaveQualification, CompleteQualification,
           FailQualification, tables
<1>3. state[f].run /\ ~state[f].error /\ runs'[f] = "started"
    BY <1>2 DEF Fit, Healthy, Underway, Working
<1>4. Node(f)
    BY DEF Node
<1>5. CASE NodeFails(f, "qualify_lead")
    BY <1>3, <1>5, FailFit DEF Steps
<1>6. CASE \/ Continue(f, state[f], "create_qualification")
           \/ Continue(f, state[f], "assess")
           \/ Continue(f, state[f], "complete_qualification")
           \/ Fault /\ Continue(f, state[f], "fail_qualification")
    BY <1>2, <1>4, <1>6, KeepFit DEF Working
<1>7. CASE /\ pc[f] = "assess"
           /\ \E c \in Classes : Done(f, [state[f] EXCEPT !.class = c], "save_qualification")
    <2>1. PICK c \in Classes : Done(f, [state[f] EXCEPT !.class = c], "save_qualification")
        BY <1>7
    <2> DEFINE s == [state[f] EXCEPT !.class = c]
    <2>2. s.run = state[f].run /\ s.error = state[f].error
        BY <1>1 DEF AgentState
    <2>3. faults' = faults
        BY <2>1 DEF Done
    <2> HIDE DEF s
    <2>4. Healthy("save_qualification", s, runs'[f], faults', Unfit(f, s))
        BY <1>3, <2>2, <2>3 DEF Healthy, Underway, Working
    <2>5. QED  BY <2>1, <2>4, ContinueFit DEF Done, s
<1>8. CASE Done(f, Moved(state[f], "qualify_lead"), "route")
    <2> DEFINE s == Moved(state[f], "qualify_lead")
    <2>1. s.run = state[f].run /\ s.error = state[f].error
        BY <1>1, MovedTyped DEF Steps, SameResult
    <2>2. faults' = faults
        BY <1>8 DEF Done
    <2> HIDE DEF s
    <2>3. Healthy("route", s, runs'[f], faults', Unfit(f, s))
        BY <1>3, <2>1, <2>2 DEF Healthy, Underway, Working
    <2>4. QED  BY <1>8, <2>3, ContinueFit DEF Done, s
<1>9. CASE FailQualification(f)
    <2> DEFINE m == Failed(state[f], "qualify_lead")
               s == [m EXCEPT !.class = "none"]
    <2>1. m \in AgentState /\ m.error /\ m.run = state[f].run
        BY <1>1, FailedTyped DEF Steps, SameResult
    <2> HIDE DEF m
    <2>2. s.error /\ s.run = state[f].run
        BY <2>1 DEF AgentState
    <2>3. faults' >= 1
        BY <1>1, <1>9 DEF FailQualification, Fit, Healthy, Fault
    <2> HIDE DEF s
    <2>4. Healthy("persist", s, runs'[f], faults', Unfit(f, s))
        BY <1>3, <2>2, <2>3 DEF Healthy, Underway, Working
    <2>5. QED  BY <1>9, <2>4, ContinueFit DEF FailQualification, s, m
<1>10. QED
    BY <1>5, <1>6, <1>7, <1>8, <1>9
       DEF Qualify, CreateQualification, Assess, SaveQualification, CompleteQualification, Done

LEMMA BranchFit ==
    ASSUME Shapes, Tables, NEW f \in Flows, Fit(f), RouteByClassification(f) \/ Branch(f)
    PROVE  Fit(f)'
<1>1. state[f] \in AgentState /\ Shape(pc[f], state[f])
    BY DEF Shapes
<1>2. /\ pc[f] \in {"route", "branch"}
      /\ UNCHANGED <<runs, faults>>
    BY DEF RouteByClassification, Branch, tables, Done
<1>3. state[f].run /\ ~state[f].error /\ runs[f] = "started" /\ state[f].lead
    BY <1>1, <1>2 DEF Fit, Healthy, Underway, Working, Shape
<1>4. CASE RouteByClassification(f)
    <2> DEFINE m == Moved(state[f], "route_by_classification")
               s == [m EXCEPT !.route = RouteOf[state[f].class]]
    <2>1. m \in AgentState /\ m.run = state[f].run /\ m.error = state[f].error
        BY <1>1, MovedTyped DEF Steps, SameResult
    <2> HIDE DEF m
    <2>2. s.run = state[f].run /\ s.error = state[f].error
        BY <2>1 DEF AgentState
    <2> HIDE DEF s
    <2>3. Healthy("branch", s, runs'[f], faults', Unfit(f, s))
        BY <1>2, <1>3, <2>2 DEF Healthy, Underway, Working
    <2>4. QED  BY <1>4, <2>3, ContinueFit DEF RouteByClassification, Done, s, m
<1>5. CASE Branch(f)
    <2> DEFINE m == Moved(state[f], BranchOf[state[f].route])
               s == [m EXCEPT !.branch = TRUE]
    <2>1. state[f].class \in Classes /\ state[f].route = RouteOf[state[f].class]
        BY <1>1, <1>5 DEF Branch, Shape, Assessed, Routed
    <2>2. state[f].route \in {"research", "nurture", "stop"} /\ state[f].class # "none"
        BY <2>1 DEF RouteOf, Classes
    <2>3. BranchOf[state[f].route] \in Steps
        BY <2>2 DEF BranchOf, Steps
    <2>4. m \in AgentState /\ SameResult(state[f], m) /\ m.error = state[f].error
        BY <1>1, <2>3, MovedTyped
    <2> HIDE DEF m
    <2>5. /\ s.lead /\ s.run /\ ~s.error /\ s.branch
          /\ s.class = state[f].class /\ s.route = state[f].route
        BY <1>3, <2>4 DEF AgentState, SameResult
    <2>6. /\ AfterBranch(f) \in {"retrieve", "request", "persist"}
          /\ AfterBranch(f) \in {"request", "persist"} => state[f].route # "research"
        BY DEF AfterBranch
    <2> HIDE DEF s
    <2>7. HasCompleteResult(s) \/ s.route = "research"
        BY <2>2, <2>5 DEF HasCompleteResult
    <2>8. Healthy(AfterBranch(f), s, runs'[f], faults', Unfit(f, s))
        BY <1>2, <1>3, <2>5, <2>6, <2>7 DEF Healthy, Underway, Working
    <2>9. QED  BY <1>5, <2>8, ContinueFit DEF Branch, Done, s, m
<1>6. QED  BY <1>4, <1>5

LEMMA ResearchFit ==
    ASSUME Shapes, Tables, NEW f \in Flows, Fit(f), Place(f),
           RetrieveKnowledge(f) \/ BuildResearchContext(f)
    PROVE  Fit(f)'
<1>1. state[f] \in AgentState /\ Shape(pc[f], state[f])
    BY DEF Shapes
<1>2. /\ pc[f] \in {"retrieve", "research"}
      /\ UNCHANGED runs
    BY DEF RetrieveKnowledge, BuildResearchContext, tables
<1>3. /\ state[f].run /\ ~state[f].error /\ runs'[f] = "started" /\ state[f].lead
      /\ state[f].branch /\ state[f].class = "HOT" /\ state[f].route = "research"
    BY <1>1, <1>2 DEF Fit, Healthy, Underway, Working, Shape, Place
<1>4. ASSUME NEW step \in Steps, NodeFails(f, step) PROVE Fit(f)'
    BY <1>3, <1>4, FailFit
<1>5. CASE RetrieveKnowledge(f)
    <2> DEFINE m == Moved(state[f], "retrieve_gtm_knowledge")
    <2>1. m \in AgentState /\ SameResult(state[f], m) /\ m.error = state[f].error
        BY <1>1, MovedTyped DEF Steps
    <2>2. ASSUME NEW found, Done(f, [m EXCEPT !.chunks = found], "research")
          PROVE  Fit(f)'
        <3> DEFINE s == [m EXCEPT !.chunks = found]
        <3> HIDE DEF m
        <3>1. s.run /\ ~s.error /\ s.branch
            BY <1>3, <2>1 DEF AgentState, SameResult
        <3> HIDE DEF s
        <3>2. Healthy("research", s, runs'[f], faults', Unfit(f, s))
            BY <1>3, <3>1 DEF Healthy, Underway, Working
        <3>3. QED  BY <2>2, <3>2, ContinueFit DEF Done, s
    <2>3. QED  BY <1>4, <1>5, <2>2 DEF RetrieveKnowledge, Steps
<1>6. CASE BuildResearchContext(f)
    <2> DEFINE m == Moved(state[f], "build_research_context")
    <2>1. m \in AgentState /\ SameResult(state[f], m) /\ m.error = state[f].error
        BY <1>1, MovedTyped DEF Steps
    <2>2. ASSUME NEW c \in {"fallback", "grounded"}, NEW next \in {"draft", "persist"},
                 Done(f, [m EXCEPT !.context = c], next),
                 state[f].chunks \in {"empty", "some"}
          PROVE  Fit(f)'
        <3> DEFINE s == [m EXCEPT !.context = c]
        <3> HIDE DEF m
        <3>1. /\ s.lead /\ s.run /\ ~s.error /\ s.branch /\ s.class = "HOT"
              /\ s.route = "research" /\ s.chunks = state[f].chunks /\ s.context = c
            BY <1>3, <2>1 DEF AgentState, SameResult
        <3> HIDE DEF s
        <3>2. HasCompleteResult(s) /\ s.context # "none"
            BY <2>2, <3>1 DEF HasCompleteResult
        <3>3. Healthy(next, s, runs'[f], faults', Unfit(f, s))
            BY <1>3, <3>1, <3>2 DEF Healthy, Underway, Working
        <3>4. QED  BY <2>2, <3>3, ContinueFit DEF Done, s
    <2>3. \/ NodeFails(f, "build_research_context")
          \/ /\ state[f].chunks = "empty"
             /\ Done(f, [m EXCEPT !.context = "fallback"], "persist")
          \/ /\ state[f].chunks = "some"
             /\ \E text \in {"fallback", "grounded"} :
                    Done(f, [m EXCEPT !.context = text],
                         IF f \in Acting THEN "draft" ELSE "persist")
        BY <1>6 DEF BuildResearchContext
    <2> HIDE DEF m
    <2>4. QED  BY <1>4, <2>2, <2>3 DEF Steps
<1>7. QED  BY <1>5, <1>6

\* What both nodes refuse is the fallback as the model's text and a name too long for
\* the task; whatever else they ask for is there when they run.
LEMMA RequestFit ==
    ASSUME Shapes, Tables, NEW f \in Flows, Fit(f), Place(f),
           DraftOutreachEmail(f) \/ RequestExternalAction(f)
    PROVE  Fit(f)'
<1>1. state[f] \in AgentState /\ Shape(pc[f], state[f])
    BY DEF Shapes
<1>2. /\ pc[f] \in {"draft", "request"}
      /\ UNCHANGED runs
    BY DEF DraftOutreachEmail, RequestExternalAction, tables
<1>3. /\ state[f].run /\ ~state[f].error /\ runs'[f] = "started" /\ state[f].lead
      /\ state[f].branch
    BY <1>1, <1>2 DEF Fit, Healthy, Underway, Working, Shape
<1>4. ASSUME NEW step \in Steps, NodeFails(f, step) PROVE Fit(f)'
    BY <1>3, <1>4, FailFit
<1>5. ASSUME NEW step \in Steps, Refuse(f, step), Unfit(f, state[f])
            PROVE  Fit(f)'
    <2> DEFINE s == Failed(state[f], step)
    <2>1. s.error /\ SameResult(state[f], s)
        BY <1>1, <1>5, FailedTyped
    <2> HIDE DEF s
    <2>2. Unfit(f, s)
        BY <1>5, <2>1, UnfitSame DEF SameResult, SameFindings
    <2>3. Healthy("persist", s, runs'[f], faults', Unfit(f, s))
        BY <1>3, <2>1, <2>2 DEF Healthy, Underway, Working
    <2>4. QED  BY <1>5, <2>3, ContinueFit DEF Refuse, Done, s
<1>6. CASE DraftOutreachEmail(f)
    <2> DEFINE m == Moved(state[f], "draft_outreach_email")
               s == [m EXCEPT !.draft = TRUE]
    <2>1. ~Grounded(state[f]) => Unfit(f, state[f])
        BY <1>1, <1>6 DEF DraftOutreachEmail, Fit, Healthy, Place, Grounded, Unfit, AgentState
    <2>2. CASE Done(f, s, "request")
        <3>1. m \in AgentState /\ SameResult(state[f], m) /\ m.error = state[f].error
            BY <1>1, MovedTyped DEF Steps
        <3> HIDE DEF m
        <3>2. s.run /\ ~s.error /\ s.branch /\ s.draft
            BY <1>3, <3>1 DEF AgentState, SameResult
        <3> HIDE DEF s
        <3>3. Healthy("request", s, runs'[f], faults', Unfit(f, s))
            BY <1>3, <3>2 DEF Healthy, Underway, Working
        <3>4. QED  BY <2>2, <3>3, ContinueFit DEF Done
    <2>3. QED  BY <1>4, <1>5, <1>6, <2>1, <2>2 DEF DraftOutreachEmail, Steps
<1>7. CASE RequestExternalAction(f)
    <2> DEFINE s == Moved(state[f], "request_external_action")
    <2>1. /\ state[f].class \in Classes /\ state[f].route = RouteOf[state[f].class]
          /\ state[f].class \in {"HOT", "WARM"}
          /\ state[f].route = "research" => state[f].draft
        BY <1>1, <1>7 DEF RequestExternalAction, Shape, Assessed, Routed, Place, Fit, Healthy
    <2>2. state[f].route \in {"research", "nurture"}
        BY <2>1 DEF RouteOf
    <2>3. Plannable(state[f]) /\ (~PayloadFits(f, state[f]) => Unfit(f, state[f]))
        BY <1>3, <1>7, <2>1, <2>2
           DEF Plannable, PayloadFits, ActionOf, Unfit, Place, RequestExternalAction
    <2>4. state[f].draft => Grounded(state[f])
        BY <1>1 DEF Shape
    <2>5. CASE Done(f, s, "persist")
        <3>1. SameResult(state[f], s) /\ s.error = state[f].error
            BY <1>1, MovedTyped DEF Steps
        <3> HIDE DEF s
        <3>2. HasCompleteResult(s)
            BY <1>3, <2>1, <2>2, <2>4, <3>1
            DEF HasCompleteResult, SameResult, Grounded, Classes
        <3>3. Healthy("persist", s, runs'[f], faults', Unfit(f, s))
            BY <1>3, <3>1, <3>2 DEF Healthy, Underway, Working, SameResult
        <3>4. QED  BY <2>5, <3>3, ContinueFit DEF Done
    <2>6. QED  BY <1>4, <1>5, <1>7, <2>3, <2>5 DEF RequestExternalAction, Steps
<1>8. QED  BY <1>6, <1>7

LEMMA EndFit ==
    ASSUME Shapes, Tables, NEW f \in Flows, Fit(f),
           Persist(f) \/ StoreEvidence(f) \/ StoreTrail(f) \/ CloseRun(f) \/ GiveUp(f)
    PROVE  Fit(f)'
<1>1. state[f] \in AgentState /\ Shape(pc[f], state[f]) /\ faults \in Nat
    BY DEF Shapes, Tables
<1>2. faults' \in Nat /\ faults' >= faults /\ (Fault => faults' >= 1)
    BY <1>1, FaultsGrow DEF Node, Fault
<1>3. ASSUME NEW e \in BOOLEAN, NEW next,
             Continue(f, [state[f] EXCEPT !.error = e], next),
             Healthy(next, [state[f] EXCEPT !.error = e], runs'[f], faults',
                     Unfit(f, [state[f] EXCEPT !.error = e]))
      PROVE  Fit(f)'
    BY <1>3, ContinueFit
<1>4. ASSUME NEW e \in BOOLEAN
      PROVE  /\ [state[f] EXCEPT !.error = e].error = e
             /\ [state[f] EXCEPT !.error = e].run = state[f].run
             /\ Unfit(f, [state[f] EXCEPT !.error = e]) = Unfit(f, state[f])
    <2> DEFINE s == [state[f] EXCEPT !.error = e]
    <2>1. s.error = e /\ s.run = state[f].run /\ SameFindings(state[f], s)
        BY <1>1 DEF AgentState, SameFindings
    <2> HIDE DEF s
    <2>2. Unfit(f, s) = Unfit(f, state[f])
        BY <2>1, UnfitSame
    <2>3. QED  BY <2>1, <2>2 DEF s
<1>5. CASE Persist(f)
    <2> DEFINE e == state[f].error \/ ~HasCompleteResult(state[f])
               s == [state[f] EXCEPT !.error = e]
    <2>1. e = state[f].error /\ (state[f].error => faults >= 1 \/ Unfit(f, state[f]))
          /\ (state[f].run => runs[f] = "started")
        BY <1>1, <1>5 DEF Persist, Fit, Healthy, AgentState
    <2>2. PICK next :
            /\ Continue(f, s, next)
            /\ next \in {"end", "evidence", "trail"}
            /\ next # "end" => state[f].run
        BY <1>5 DEF Persist, Done
    <2>3. UNCHANGED <<runs, faults>>
        BY <1>5 DEF Persist, Done, tables
    <2>4. s.error = e /\ s.run = state[f].run /\ Unfit(f, s) = Unfit(f, state[f])
        BY <1>1, <1>4 DEF AgentState
    <2> HIDE DEF e, s
    <2>5. Healthy(next, s, runs'[f], faults', Unfit(f, s))
        BY <2>1, <2>2, <2>3, <2>4 DEF Healthy, Underway, Working
    <2>6. QED  BY <2>2, <2>5, ContinueFit
<1>6. CASE StoreEvidence(f) \/ StoreTrail(f)
    <2>1. UNCHANGED runs /\ pc[f] \in {"evidence", "trail"} /\ Node(f)
        BY <1>6 DEF StoreEvidence, StoreTrail, Node
    <2>2. state[f].run /\ runs'[f] = "started"
        BY <2>1 DEF Fit, Healthy, Underway
    <2>3. CASE Continue(f, state[f], "trail") \/ Continue(f, state[f], "close")
        BY <2>1, <2>3, KeepFit
    <2>4. ASSUME NEW next \in {"trail", "give_up"}, Fault,
                 Continue(f, [state[f] EXCEPT !.error = TRUE], next)
          PROVE  Fit(f)'
        <3> DEFINE s == [state[f] EXCEPT !.error = TRUE]
        <3>1. s.error /\ s.run
            BY <1>4, <2>2
        <3> HIDE DEF s
        <3>2. Healthy(next, s, runs'[f], faults', Unfit(f, s))
            BY <1>2, <2>2, <2>4, <3>1 DEF Healthy, Underway, Working
        <3>3. QED  BY <2>4, <3>2, ContinueFit DEF s
    <2>5. QED  BY <1>6, <2>3, <2>4 DEF StoreEvidence, StoreTrail, Done
<1>7. CASE CloseRun(f)
    <2>1. /\ state[f].run /\ runs[f] = "started"
          /\ state[f].error => faults >= 1 \/ Unfit(f, state[f])
        BY <1>7 DEF CloseRun, Fit, Healthy, Underway
    <2>2. runs'[f] # "none"
        BY <1>7, <2>1 DEF CloseRun, Outcome, Tables
    <2>3. CASE Continue(f, state[f], "end")
        <3>1. Healthy("end", state[f], runs'[f], faults', Unfit(f, state[f]))
            BY <1>1, <1>2, <2>1 DEF Healthy, Underway, Working
        <3>2. QED  BY <2>3, <3>1, ContinueFit
    <2>4. CASE Fault /\ Continue(f, [state[f] EXCEPT !.error = TRUE], "give_up")
        <3> DEFINE s == [state[f] EXCEPT !.error = TRUE]
        <3>1. s.error /\ s.run
            BY <1>4, <2>1
        <3> HIDE DEF s
        <3>2. Healthy("give_up", s, runs'[f], faults', Unfit(f, s))
            BY <1>2, <2>2, <2>4, <3>1 DEF Healthy, Underway, Working
        <3>3. QED  BY <2>4, <3>2, ContinueFit DEF s
    <2>5. QED  BY <1>7, <2>3, <2>4 DEF CloseRun, Done
<1>8. CASE GiveUp(f)
    <2>1. state[f].error => faults >= 1 \/ Unfit(f, state[f])
        BY DEF Fit, Healthy
    <2>2. Healthy("end", state[f], runs'[f], faults', Unfit(f, state[f]))
        BY <1>1, <1>2, <2>1 DEF Healthy, Underway, Working
    <2>3. QED  BY <1>8, <2>2, ContinueFit DEF GiveUp
<1>9. QED  BY <1>5, <1>6, <1>7, <1>8

LEMMA NodeFit ==
    ASSUME Shapes, Tables, NEW f \in Flows, Fit(f), Place(f), Node(f) \/ Crash(f)
    PROVE  Fit(f)'
<1>1. CASE Crash(f)
    <2>1. UNCHANGED runs /\ Continue(f, state[f], "crashed")
        BY <1>1 DEF Crash, tables
    <2>2. QED  BY <2>1, KeepFit
<1>2. CASE Node(f)
    BY <1>2, LoadFit, QualifyFit, BranchFit, ResearchFit, RequestFit, EndFit
       DEF Node
<1>3. QED  BY <1>1, <1>2

LEMMA OthersFit ==
    ASSUME Shapes, Tables, NEW f \in Flows, Node(f) \/ Crash(f), NEW g \in Flows \ {f},
           Fit(g)
    PROVE  Fit(g)'
<1>1. pc'[g] = pc[g] /\ state'[g] = state[g] /\ runs'[g] = runs[g]
    BY OthersRows
<1>2. faults \in Nat /\ faults' \in Nat /\ faults' >= faults
    BY FaultsGrow DEF Tables
<1>3. QED  BY <1>1, <1>2 DEF Fit, Healthy

\* The run an orchestration knows and what the branches found.
SameFacts(s, t) == t.run = s.run /\ SameFindings(s, t)

\* Each of these facts changes only in the one handler that sets it.
LEMMA FactsSet ==
    ASSUME Shapes, NEW f \in Flows, Node(f) \/ Crash(f)
    PROVE  LET s == state[f]
               t == state'[f]
           IN  \/ SameFacts(s, t)
               \/ /\ CreateRun(f) /\ runs' = [runs EXCEPT ![f] = "started"]
                  /\ UNCHANGED faults /\ pc'[f] = "qualify"
                  /\ t.run /\ SameFindings(s, t)
               \/ /\ RouteByClassification(f)
                  /\ t.run = s.run /\ t.chunks = s.chunks /\ t.context = s.context
               \/ /\ RetrieveKnowledge(f)
                  /\ t.run = s.run /\ t.route = s.route /\ t.context = s.context
               \/ /\ BuildResearchContext(f)
                  /\ t.run = s.run /\ t.route = s.route /\ t.chunks = s.chunks
<1> USE DEF SameFacts, SameFindings
<1>1. state[f] \in AgentState /\ Shape(pc[f], state[f])
    BY DEF Shapes
<1>2. ASSUME NEW to \in Steps
      PROVE  /\ Moved(state[f], to) \in AgentState
             /\ SameFacts(state[f], Moved(state[f], to))
             /\ Failed(state[f], to) \in AgentState
             /\ SameFacts(state[f], Failed(state[f], to))
    BY <1>1, MovedTyped, FailedTyped DEF SameResult
<1>3. ASSUME NEW next, NEW m \in AgentState, SameFacts(state[f], m),
             \/ Continue(f, m, next)
             \/ \E v : \/ Continue(f, [m EXCEPT !.lead = v], next)
                       \/ Continue(f, [m EXCEPT !.class = v], next)
                       \/ Continue(f, [m EXCEPT !.branch = v], next)
                       \/ Continue(f, [m EXCEPT !.draft = v], next)
                       \/ Continue(f, [m EXCEPT !.error = v], next)
      PROVE  SameFacts(state[f], state'[f])
    <2>1. PICK s : /\ Continue(f, s, next)
                   /\ \/ s = m
                      \/ \E v : \/ s = [m EXCEPT !.lead = v]
                                \/ s = [m EXCEPT !.class = v]
                                \/ s = [m EXCEPT !.branch = v]
                                \/ s = [m EXCEPT !.draft = v]
                                \/ s = [m EXCEPT !.error = v]
        BY <1>3
    <2>2. SameFacts(m, s)
        BY <2>1, <1>3 DEF AgentState
    <2>3. state'[f] = s
        BY <2>1, ContinueStep
    <2>4. QED  BY <1>3, <2>2, <2>3
<1>4. ASSUME NEW next, Continue(f, state[f], next) PROVE SameFacts(state[f], state'[f])
    BY <1>1, <1>3, <1>4
<1>5. ASSUME NEW step \in Steps, NodeFails(f, step) \/ Refuse(f, step)
      PROVE  SameFacts(state[f], state'[f])
    BY <1>2, <1>3, <1>5 DEF NodeFails, Refuse, Done
<1>6. CASE Load(f)
    BY <1>1, <1>3, <1>5, <1>6 DEF Load, Done, Steps
<1>7. CASE CreateRun(f)
    <2>1. CASE /\ runs' = [runs EXCEPT ![f] = "started"]
               /\ Done(f, [Moved(state[f], "load_lead") EXCEPT !.run = TRUE], "qualify")
        <3> DEFINE m == Moved(state[f], "load_lead")
        <3>1. m \in AgentState /\ SameFacts(state[f], m)
            BY <1>2 DEF Steps
        <3>2. state'[f] = [m EXCEPT !.run = TRUE] /\ pc'[f] = "qualify" /\ faults' = faults
            BY <2>1, ContinueStep DEF Done
        <3> HIDE DEF m
        <3>3. state'[f].run /\ SameFindings(state[f], state'[f])
            BY <3>1, <3>2 DEF AgentState
        <3>4. QED  BY <1>7, <2>1, <3>2, <3>3
    <2>2. CASE NodeFails(f, "load_lead")
        BY <1>5, <2>2 DEF Steps
    <2>3. QED  BY <1>7, <2>1, <2>2 DEF CreateRun
<1>8. CASE Qualify(f) \/ CreateQualification(f)
    BY <1>4, <1>5, <1>8 DEF Qualify, CreateQualification, Done, Steps
<1>9. CASE Assess(f)
    BY <1>1, <1>3, <1>4, <1>5, <1>9 DEF Assess, Done, Steps
<1>10. CASE SaveQualification(f)
    BY <1>4, <1>10 DEF SaveQualification, Done
<1>11. CASE CompleteQualification(f)
    BY <1>2, <1>3, <1>4, <1>11 DEF CompleteQualification, Done, Steps
<1>12. CASE FailQualification(f)
    <2> DEFINE m == Failed(state[f], "qualify_lead")
    <2>1. m \in AgentState /\ SameFacts(state[f], m)
        BY <1>2 DEF Steps
    <2>2. Continue(f, [m EXCEPT !.class = "none"], "persist")
        BY <1>12 DEF FailQualification
    <2> HIDE DEF m
    <2>3. QED  BY <1>3, <2>1, <2>2
<1>13. CASE RouteByClassification(f)
    <2> DEFINE m == Moved(state[f], "route_by_classification")
    <2>1. m \in AgentState /\ SameFacts(state[f], m)
        BY <1>2 DEF Steps
    <2>2. state'[f] = [m EXCEPT !.route = RouteOf[state[f].class]]
        BY <1>13, ContinueStep DEF RouteByClassification, Done
    <2> HIDE DEF m
    <2>3. QED  BY <1>13, <2>1, <2>2 DEF AgentState
<1>14. CASE Branch(f)
    <2> DEFINE m == Moved(state[f], BranchOf[state[f].route])
    <2>1. state[f].class \in Classes /\ state[f].route = RouteOf[state[f].class]
        BY <1>1, <1>14 DEF Branch, Shape, Assessed, Routed
    <2>2. BranchOf[state[f].route] \in Steps
        BY <2>1 DEF RouteOf, Classes, BranchOf, Steps
    <2>3. m \in AgentState /\ SameFacts(state[f], m)
        BY <1>2, <2>2
    <2>4. Continue(f, [m EXCEPT !.branch = TRUE], AfterBranch(f))
        BY <1>14 DEF Branch, Done
    <2> HIDE DEF m
    <2>5. QED  BY <1>3, <2>3, <2>4
<1>15. CASE RetrieveKnowledge(f)
    <2> DEFINE m == Moved(state[f], "retrieve_gtm_knowledge")
    <2>1. m \in AgentState /\ SameFacts(state[f], m)
        BY <1>2 DEF Steps
    <2>2. \/ \E found : state'[f] = [m EXCEPT !.chunks = found]
          \/ NodeFails(f, "retrieve_gtm_knowledge")
        BY <1>15, ContinueStep DEF RetrieveKnowledge, Done
    <2> HIDE DEF m
    <2>3. CASE \E found : state'[f] = [m EXCEPT !.chunks = found]
        BY <1>15, <2>1, <2>3 DEF AgentState
    <2>4. QED  BY <1>5, <2>2, <2>3 DEF Steps
<1>16. CASE BuildResearchContext(f)
    <2> DEFINE m == Moved(state[f], "build_research_context")
    <2>1. m \in AgentState /\ SameFacts(state[f], m)
        BY <1>2 DEF Steps
    <2>2. \/ \E c : state'[f] = [m EXCEPT !.context = c]
          \/ NodeFails(f, "build_research_context")
        BY <1>16, ContinueStep DEF BuildResearchContext, Done
    <2> HIDE DEF m
    <2>3. CASE \E c : state'[f] = [m EXCEPT !.context = c]
        BY <1>16, <2>1, <2>3 DEF AgentState
    <2>4. QED  BY <1>5, <2>2, <2>3 DEF Steps
<1>17. CASE DraftOutreachEmail(f)
    <2> DEFINE m == Moved(state[f], "draft_outreach_email")
    <2>1. m \in AgentState /\ SameFacts(state[f], m)
        BY <1>2 DEF Steps
    <2>2. \/ Continue(f, [m EXCEPT !.draft = TRUE], "request")
          \/ NodeFails(f, "draft_outreach_email") \/ Refuse(f, "draft_outreach_email")
        BY <1>17 DEF DraftOutreachEmail, Done
    <2> HIDE DEF m
    <2>3. QED  BY <1>3, <1>5, <2>1, <2>2 DEF Steps
<1>18. CASE RequestExternalAction(f)
    BY <1>2, <1>3, <1>5, <1>18 DEF RequestExternalAction, Done, Steps
<1>19. CASE Persist(f) \/ StoreEvidence(f) \/ StoreTrail(f) \/ CloseRun(f)
    <2>1. \/ \E next : Continue(f, state[f], next)
          \/ \E e, next : Continue(f, [state[f] EXCEPT !.error = e], next)
        BY <1>19 DEF Persist, StoreEvidence, StoreTrail, CloseRun, Done
    <2>2. QED  BY <1>1, <1>3, <2>1
<1>20. CASE GiveUp(f) \/ Crash(f)
    BY <1>4, <1>20 DEF GiveUp, Crash
<1>21. QED  BY <1>6, <1>7, <1>8, <1>9, <1>10, <1>11, <1>12, <1>13, <1>14, <1>15, <1>16,
               <1>17, <1>18, <1>19, <1>20 DEF Node

LEMMA RunKnown ==
    ASSUME Shapes, NEW f \in Flows, Node(f) \/ Crash(f)
    PROVE  \/ state'[f].run = state[f].run
           \/ CreateRun(f) /\ runs' = [runs EXCEPT ![f] = "started"] /\ UNCHANGED faults
              /\ pc'[f] = "qualify" /\ state'[f].run
BY FactsSet DEF SameFacts

-----------------------------------------------------------------------------
(* What backs a run stays                                                   *)

\* A trail is stored at the end, and as completed only when the orchestration has
\* taken the branch of its class.
TrailLast(f) ==
    trail[f].outcome # "none" =>
        /\ pc[f] \in Closed \union {"close"}
        /\ trail[f].outcome = "completed" => Directed(f)

\* Nothing is decided after the trail.
LEMMA LastSteps ==
    ASSUME Shapes, Tables, NEW f \in Flows, Node(f) \/ Crash(f),
           pc[f] \in Closed \union {"trail", "close"}
    PROVE  /\ SameBranch(state[f], state'[f]) /\ state'[f].chunks = state[f].chunks
           /\ pc'[f] \in Closed \union {"close"}
<1>1. StepOf(f)
    BY EveryStep
<1>2. Ends(f, pc[f], state[f], pc'[f], state'[f])
    BY <1>1 DEF StepOf, Works, Working, Closed
<1>3. QED  BY <1>2 DEF Ends, Closed

LEMMA NodeTrailLast ==
    ASSUME Shapes, Tables, NEW f \in Flows, Node(f) \/ Crash(f), Progress(f), TrailLast(f)
    PROVE  TrailLast(f)'
<1>1. CASE pc[f] = "trail"
    <2>1. trail'[f] \in {trail[f], FinalTransitions(f)}
        BY <1>1 DEF Tables, Node, Load, CreateRun, Qualify, CreateQualification, Assess,
           SaveQualification, CompleteQualification, FailQualification,
           RouteByClassification, Branch, RetrieveKnowledge, BuildResearchContext,
           DraftOutreachEmail, RequestExternalAction, Persist, StoreEvidence,
           StoreTrail, CloseRun, GiveUp, Crash, tables
    <2>2. trail[f].outcome = "none"
        BY <1>1 DEF TrailLast, Closed
    <2>3. trail'[f].outcome = "completed" => ~state[f].error
        BY <2>1, <2>2 DEF FinalTransitions, Outcome
    <2>4. trail'[f].outcome = "completed" => Directed(f)
        BY <1>1, <2>3 DEF Progress, Storing
    <2>5. QED  BY <1>1, <2>4, LastSteps DEF TrailLast, Directed, SameBranch
<1>2. CASE pc[f] # "trail"
    <2>1. trail'[f] = trail[f]
        BY <1>2, TrailWritten
    <2>2. QED  BY <2>1, LastSteps DEF TrailLast, Directed, SameBranch
<1>3. QED  BY <1>1, <1>2

\* Whatever any orchestration does, a run that is backed stays backed.
LEMMA BackingStays ==
    ASSUME Shapes, Tables, NEW f \in Flows, Node(f) \/ Crash(f),
           NEW g \in Flows, TrailLast(g), Backing(g)
    PROVE  Backing(g)'
<1>1. pc[g] \in Closed \union {"close"} /\ Directed(g)
    BY DEF Backing, TrailLast
<1>2. /\ SameBranch(state[g], state'[g]) /\ state'[g].chunks = state[g].chunks
      /\ quals'[g] = quals[g] /\ trail'[g] = trail[g]
    <2>1. CASE g = f
        BY <1>1, <2>1, LastSteps, QualStays, TrailWritten DEF Closed
    <2>2. CASE g # f
        BY <2>2, OthersRows DEF SameBranch
    <2>3. QED  BY <2>1, <2>2
<1>3. ExpectedWalk(state'[g], g \in Acting) = ExpectedWalk(state[g], g \in Acting)
    BY <1>2 DEF ExpectedWalk, SameBranch
<1>4. leadClass' # "none" /\ (state[g].chunks = "some" => g \in evidence')
    BY AssuredStays, RowsStay DEF Backing, Assured
<1>5. ASSUME NEW k \in DOMAIN trail[g].path,
             trail[g].path[k][2] = "request_external_action"
      PROVE  actions'[ActionOf[state'[g].route]] # NoFlow
    <2> DEFINE t == ActionOf[state[g].route]
    <2>1. trail[g].path \in Path
        BY DEF Tables
    <2>2. k \in 1 .. Len(Visited(trail[g].path))
          /\ Visited(trail[g].path)[k] = "request_external_action"
        BY <1>5, <2>1 DEF Visited, Path
    <2>3. state[g].class \in {"WARM", "HOT"}
        BY <1>1, <2>2, NoRequestVisited DEF Backing, Directed
    <2>4. t \in ActionTypes
        BY <1>1, <2>3 DEF Directed, RouteOf, ActionOf, ActionTypes
    <2>5. actions[t] \in Flows
        BY <1>5, <2>4 DEF Backing, Tables
    <2>6. actions'[t] \in Flows
        BY <2>4, <2>5, RowsStay
    <2>7. QED  BY <1>2, <2>6, FlowsAssumption DEF SameBranch
<1>6. QED  BY <1>2, <1>3, <1>4, <1>5 DEF Backing

-----------------------------------------------------------------------------
(* Refused data                                                             *)

\* A node that sets a fact finds it unset, and what would be refused further on reaches
\* the end of the run only as an error.
Suited(f) ==
    /\ pc[f] \in Working \ Routed => state[f].route = "none"
    /\ pc[f] \in Working \ {"draft", "request"} => state[f].context = "none"
    /\ pc[f] = "request" /\ state[f].route = "nurture" => state[f].context = "none"
    /\ pc[f] \in Storing \union {"end"} /\ ~state[f].error => ~Unfit(f, state[f])

LEMMA WorksSuited ==
    ASSUME Shapes, Tables, NEW f \in Flows, Node(f) \/ Crash(f), Suited(f), Place(f),
           Works(f, pc[f], state[f], pc'[f], state'[f])
    PROVE  Suited(f)'
<1>1. state[f] \in AgentState /\ Shape(pc[f], state[f])
    BY DEF Shapes
<1>2. SameFindings(state[f], state'[f])
      \/ RouteByClassification(f) \/ RetrieveKnowledge(f) \/ BuildResearchContext(f)
    BY FactsSet DEF SameFacts
<1>3. CASE pc[f] \in Working \ Routed
    <2>1. pc'[f] \in (Working \ Routed) \union {"branch"}
        BY <1>3 DEF Works, Working, Routed
    <2>2. state'[f].context = "none" /\ (pc'[f] # "branch" => state'[f].route = "none")
        <3>1. CASE SameFindings(state[f], state'[f])
            BY <1>3, <3>1 DEF Suited, SameFindings, Working, Routed
        <3>2. CASE RouteByClassification(f)
            BY <1>3, <3>2, FactsSet
               DEF Suited, SameFacts, SameFindings, Works, RouteByClassification, Working,
                   Routed, CreateRun, RetrieveKnowledge, BuildResearchContext
        <3>3. QED  BY <1>2, <1>3, <3>1, <3>2 DEF RetrieveKnowledge, BuildResearchContext, Routed
    <2>3. QED  BY <2>1, <2>2 DEF Suited, Working, Routed, Storing
<1>4. CASE pc[f] = "branch"
    <2>1. SameFindings(state[f], state'[f]) /\ pc'[f] = AfterBranch(f)
        BY <1>2, <1>4
           DEF Works, RouteByClassification, RetrieveKnowledge, BuildResearchContext
    <2>2. state'[f].context = "none" /\ state'[f].route = state[f].route
        BY <1>4, <2>1 DEF Suited, SameFindings, Working
    <2>3. CASE pc'[f] \in {"retrieve", "request"}
        BY <2>2, <2>3 DEF Suited, Working, Routed, Storing
    <2>4. CASE pc'[f] = "persist"
        <3>1. ~(state[f].route = "nurture" /\ f \in Acting)
            BY <2>1, <2>4 DEF AfterBranch
        <3>2. ~Unfit(f, state'[f])
            BY <2>2, <3>1 DEF Unfit
        <3>3. QED  BY <2>4, <3>2 DEF Suited, Working
    <2>5. QED  BY <2>1, <2>3, <2>4 DEF AfterBranch
<1>5. CASE pc[f] = "retrieve"
    <2>1. pc'[f] = "research" /\ state'[f].context = state[f].context
        BY <1>2, <1>5, FactsSet
           DEF Works, SameFacts, SameFindings, CreateRun, RouteByClassification,
               BuildResearchContext
    <2>2. QED  BY <1>5, <2>1 DEF Suited, Working, Routed, Storing
<1>6. CASE pc[f] = "research"
    <2>1. state'[f].route = "research" /\ state'[f].chunks = state[f].chunks
        BY <1>6 DEF Works, Place, SameBranch
    <2>2. CASE pc'[f] = "draft"
        BY <2>2 DEF Suited, Working, Routed, Storing
    <2>3. CASE pc'[f] = "persist"
        <3>1. f \notin Acting \/ state[f].chunks = "empty"
            BY <1>6, <2>3 DEF Works
        <3>2. ~Unfit(f, state'[f])
            BY <2>1, <3>1 DEF Unfit
        <3>3. QED  BY <2>3, <3>2 DEF Suited, Working
    <2>4. QED  BY <1>6, <2>2, <2>3 DEF Works
<1>7. CASE pc[f] = "draft"
    <2>1. pc'[f] = "request" /\ state'[f].route = "research"
        BY <1>7 DEF Works, Place, SameBranch
    <2>2. QED  BY <2>1 DEF Suited, Working, Routed, Storing
<1>8. CASE pc[f] = "request"
    <2>1. /\ SameFindings(state[f], state'[f]) /\ pc'[f] = "persist"
          /\ Plannable(state[f]) /\ PayloadFits(f, state[f])
        BY <1>2, <1>8
           DEF Works, RouteByClassification, RetrieveKnowledge, BuildResearchContext
    <2>2. state[f].route \in {"research", "nurture"}
        BY <2>1 DEF Plannable, ActionOf
    <2>3. state[f].context # "fallback"
        BY <1>1, <1>8, <2>1, <2>2 DEF Plannable, Shape, Grounded, Suited
    <2>4. ~Unfit(f, state'[f])
        BY <2>1, <2>3 DEF SameFindings, Unfit, PayloadFits
    <2>5. QED  BY <2>1, <2>4 DEF Suited, Working
<1>9. QED  BY <1>3, <1>4, <1>5, <1>6, <1>7, <1>8 DEF Works, Working, Routed

LEMMA NodeSuited ==
    ASSUME Shapes, Tables, NEW f \in Flows, Node(f) \/ Crash(f), Suited(f), Place(f)
    PROVE  Suited(f)'
<1>1. CASE Works(f, pc[f], state[f], pc'[f], state'[f])
    BY <1>1, WorksSuited
<1>2. CASE Ends(f, pc[f], state[f], pc'[f], state'[f]) /\ pc'[f] # "crashed"
    <2>1. pc[f] \in Storing \union {"give_up"}
          /\ pc'[f] \in {"evidence", "trail", "close", "give_up", "end"}
        BY <1>2 DEF Ends, Storing
    <2>2. SameFindings(state[f], state'[f])
        BY <2>1, FactsSet
           DEF SameFacts, CreateRun, RouteByClassification, RetrieveKnowledge,
               BuildResearchContext, Storing
    <2>3. Unfit(f, state'[f]) = Unfit(f, state[f])
        BY <2>2, UnfitSame
    <2>4. state[f].error => state'[f].error
        BY <1>2 DEF Ends
    <2>5. pc[f] = "give_up" => state[f].error
        BY DEF Shapes, Shape
    <2>6. QED  BY <2>1, <2>3, <2>4, <2>5 DEF Suited, Working, Storing
<1>3. CASE pc'[f] = "crashed" \/ (pc'[f] = "persist" /\ state'[f].error)
    BY <1>3 DEF Suited, Working, Storing
<1>4. StepOf(f)
    BY EveryStep
<1>5. QED  BY <1>1, <1>2, <1>3, <1>4 DEF StepOf

\* What a step does to the data that will be refused: more of it comes up only in the
\* step's own orchestration, while its run is open, and none is forgotten.
LEMMA UnfitGrows ==
    ASSUME Shapes, Tables, NEW f \in Flows, Node(f) \/ Crash(f), Suited(f), Place(f), Fit(f)
    PROVE  \/ Unfit(f, state'[f]) = Unfit(f, state[f])
           \/ /\ pc[f] \in {"route", "retrieve", "research"}
              /\ ~Unfit(f, state[f])
              /\ runs[f] = "started"
<1>1. CASE SameFindings(state[f], state'[f])
    BY <1>1, UnfitSame
<1>2. CASE ~SameFindings(state[f], state'[f])
    <2>1. pc[f] \in {"route", "retrieve", "research"}
        BY <1>2, FactsSet
           DEF SameFacts, RouteByClassification, RetrieveKnowledge, BuildResearchContext
    <2>2. state[f].context = "none" /\ state[f].route # "nurture"
        BY <2>1 DEF Suited, Place, Working, Routed
    <2>3. ~Unfit(f, state[f])
        BY <2>2 DEF Unfit
    <2>4. runs[f] = "started"
        BY <2>1 DEF Fit, Healthy, Underway, Working
    <2>5. QED  BY <2>1, <2>3, <2>4
<1>3. QED  BY <1>1, <1>2

-----------------------------------------------------------------------------
(* The graph implements AuditedRun                                          *)

RunInv ==
    GraphInv /\ \A f \in Flows : Fit(f) /\ Suited(f) /\ TrailLast(f) /\ Answered(f)

LEMMA InitRunInv == Init => RunInv
<1> SUFFICES ASSUME Init, NEW f \in Flows PROVE Fit(f) /\ Suited(f) /\ TrailLast(f) /\ Answered(f)
    BY InitGraphInv DEF RunInv
<1>1. /\ pc[f] = "load" /\ state[f] = FreshState /\ runs[f] = "none"
      /\ trail[f].outcome = "none"
    BY DEF Init
<1>2. Fit(f)
    BY <1>1 DEF Fit, Healthy, Underway, Working, FreshState
<1>3. Suited(f)
    BY <1>1 DEF Suited, Storing, FreshState
<1>4. QED  BY <1>1, <1>2, <1>3 DEF TrailLast, Answered

LEMMA NextRunInv == RunInv /\ [Next]_vars => RunInv'
<1> SUFFICES ASSUME RunInv, [Next]_vars PROVE RunInv'
    OBVIOUS
<1> USE DEF RunInv
<1>1. GraphInv'
    BY NextGraphInv
<1>2. CASE UNCHANGED vars
    BY <1>1, <1>2 DEF vars, memory, tables, Fit, Suited, TrailLast, Directed, Answered
<1>3. ASSUME NEW f \in Flows, Node(f) \/ Crash(f), NEW g \in Flows
      PROVE  (Fit(g) /\ Suited(g) /\ TrailLast(g) /\ Answered(g))'
    <2>1. CASE g = f
        BY <1>3, <2>1, NodeFit, NodeSuited, NodeTrailLast, NodeAnswered DEF GraphInv, Places
    <2>2. CASE g # f
        <3>1. Fit(g)' /\ Answered(g)'
            BY <1>3, <2>2, OthersFit, OthersAnswered DEF GraphInv
        <3>2. TrailLast(g)' /\ Suited(g)'
            BY <1>3, <2>2, OthersRows DEF GraphInv, TrailLast, Directed, Suited
        <3>3. QED  BY <3>1, <3>2
    <2>3. QED  BY <2>1, <2>2
<1>4. QED  BY <1>1, <1>2, <1>3 DEF Next

LEMMA RunInvariant == Spec => []RunInv
BY InitRunInv, NextRunInv, PTL DEF Spec

\* What the step of one orchestration leaves alone.
LEMMA RunFrame ==
    ASSUME RunInv, NEW f \in Flows, Node(f) \/ Crash(f)
    PROVE  /\ Run!Keeps
           /\ Told(f) = "none"
           /\ \A g \in Flows \ {f} : Told(g)' = Told(g)
           /\ \A g \in Flows \ {f} : state'[g].run = state[g].run
           /\ \A g \in Flows \ {f} : Unfit(g, state[g])' = Unfit(g, state[g])
           /\ faults' \in {faults, faults + 1}
<1> USE DEF RunInv, GraphInv
<1>1. \A g \in Flows : Backing(g) => Backing(g)'
    BY BackingStays
<1>2. Run!Keeps
    BY <1>1 DEF Run!Keeps
<1>3. pc[f] # "end"
    <2>1. StepOf(f)
        BY EveryStep
    <2>2. QED  BY <2>1 DEF StepOf, Works, Ends, Working
<1>4. \A g \in Flows \ {f} : pc'[g] = pc[g] /\ state'[g] = state[g]
    BY OthersRows
<1>5. \A g \in Flows \ {f} : /\ Told(g)' = Told(g)
                             /\ Unfit(g, state[g])' = Unfit(g, state[g])
    BY <1>4 DEF Told, Unfit
<1>6. faults' \in {faults, faults + 1}
    BY DEF Node, Load, CreateRun, Qualify, CreateQualification, Assess, SaveQualification,
           CompleteQualification, FailQualification, RouteByClassification, Branch,
           RetrieveKnowledge, BuildResearchContext, DraftOutreachEmail, Refuse,
           RequestExternalAction, Persist, StoreEvidence, StoreTrail, CloseRun, GiveUp,
           Crash, Done, NodeFails, Fault
<1>7. QED  BY <1>2, <1>3, <1>4, <1>5, <1>6 DEF Told

\* Handlers that set no finding leave the refused data as it is.
LEMMA UnfitStays ==
    ASSUME RunInv, NEW f \in Flows, Node(f) \/ Crash(f),
           pc[f] \notin {"route", "retrieve", "research"}
    PROVE  {g \in Flows : Unfit(g, state[g])}' = {g \in Flows : Unfit(g, state[g])}
<1>1. Unfit(f, state'[f]) = Unfit(f, state[f])
    BY UnfitGrows DEF RunInv, GraphInv, Places
<1>2. Unfit(f, state[f])' = Unfit(f, state'[f])
    BY DEF Unfit
<1>3. QED  BY <1>1, <1>2, RunFrame

\* A step that tells nobody anything and writes no run's row stores other rows.
LEMMA StoresOnly ==
    ASSUME RunInv, NEW f \in Flows, Node(f) \/ Crash(f),
           UNCHANGED runs, state'[f].run = state[f].run, pc'[f] # "end"
    PROVE  Run!Store
<1>1. {g \in Flows : state[g].run}' = {g \in Flows : state[g].run}
    BY RunFrame
<1>2. \A g \in Flows : Told(g)' = Told(g)
    BY RunFrame DEF Told
<1>3. /\ Unfit(f, state[f]) => Unfit(f, state[f])'
      /\ Unfit(f, state[f])' /\ ~Unfit(f, state[f]) => runs[f] = "started"
    <2>1. Unfit(f, state[f])' = Unfit(f, state'[f])
        BY DEF Unfit
    <2>2. QED  BY <2>1, UnfitGrows DEF RunInv, GraphInv, Places
<1> DEFINE unfit == {g \in Flows : Unfit(g, state[g])}
<1>4. unfit \subseteq unfit'
    BY <1>3, RunFrame
<1>5. \A g \in unfit' \ unfit : runs[g] = "started" /\ [h \in Flows |-> Told(h)][g] = "none"
    BY <1>3, RunFrame
<1>6. QED  BY <1>1, <1>2, <1>4, <1>5, RunFrame DEF Run!Store, Run!Works, Run!Fails

\* A run is complete only when everything it claims is stored.
LEMMA ClosesBacked ==
    ASSUME RunInv, NEW f \in Flows, pc[f] = "close", ~state[f].error
    PROVE  Backing(f)
<1>1. Place(f) /\ Progress(f) /\ Tables
    BY DEF RunInv, GraphInv, Places
<1>2. Claims(f) /\ Directed(f) /\ quals[f] = "completed" /\ Assured
    BY <1>1 DEF Progress, Storing, Qualified
<1>3. /\ state[f].chunks = "some" => f \in evidence
      /\ \A t \in ActionTypes : Plans(f, t) => actions[t] \in Flows
    BY <1>1 DEF Place, BranchDone, Storing
<1>4. QED  BY <1>1, <1>2, <1>3, ClaimsBacked

LEMMA OpensRun ==
    ASSUME RunInv, NEW f \in Flows, CreateRun(f)
    PROVE  Run!Store \/ Run!Open(f)
<1>1. Node(f) /\ pc[f] = "create_run" /\ Shapes /\ runs \in [Flows -> RunStatuses]
    BY DEF Node, CreateRun, RunInv, GraphInv, Tables
<1>2. runs[f] = "none" /\ ~state[f].run
    BY <1>1 DEF RunInv, Fit, Healthy
<1>3. pc'[f] \in {"qualify", "persist"}
    BY ContinueStep, <1>1 DEF CreateRun, Done, NodeFails
<1>4. /\ \A g \in Flows : Told(g)' = Told(g)
      /\ {g \in Flows : Unfit(g, state[g])}' = {g \in Flows : Unfit(g, state[g])}
    BY <1>1, <1>3, RunFrame, UnfitStays DEF Told
<1>5. CASE state'[f].run = state[f].run
    <2>1. \/ UNCHANGED runs
          \/ runs' = [runs EXCEPT ![f] = "started"] /\ faults' = faults + 1
        <3>1. ~Done(f, [Moved(state[f], "load_lead") EXCEPT !.run = TRUE], "qualify")
            <4> DEFINE m == Moved(state[f], "load_lead")
            <4>1. m \in AgentState
                BY <1>1, MovedTyped DEF Shapes, Steps
            <4> HIDE DEF m
            <4>2. [m EXCEPT !.run = TRUE].run
                BY <4>1 DEF AgentState
            <4>3. QED  BY <1>1, <1>2, <1>5, <4>2, ContinueStep DEF Done, m
        <3>2. QED  BY <3>1 DEF CreateRun, NodeFails, Fault
    <2>2. {g \in Flows : state[g].run}' = {g \in Flows : state[g].run}
        BY <1>1, <1>5, RunFrame
    <2>3. CASE UNCHANGED runs
        BY <1>1, <1>3, <1>5, <2>3, StoresOnly
    <2>4. CASE runs' = [runs EXCEPT ![f] = "started"] /\ faults' = faults + 1
        BY <1>1, <1>2, <1>4, <2>2, <2>4, RunFrame DEF Run!Open, Run!Fails
    <2>5. QED  BY <2>1, <2>3, <2>4
<1>6. CASE runs' = [runs EXCEPT ![f] = "started"] /\ UNCHANGED faults /\ state'[f].run
    <2>1. {g \in Flows : state[g].run}' = {g \in Flows : state[g].run} \union {f}
        BY <1>1, <1>6, RunFrame
    <2>2. QED  BY <1>1, <1>2, <1>4, <1>6, <2>1, RunFrame DEF Run!Open, Run!Works
<1>7. QED  BY <1>1, <1>5, <1>6, RunKnown

LEMMA ClosesRun ==
    ASSUME RunInv, NEW f \in Flows, CloseRun(f)
    PROVE  Run!Store \/ Run!Complete(f) \/ Run!Fail(f)
<1>1. /\ Node(f) /\ pc[f] = "close" /\ Shapes /\ runs \in [Flows -> RunStatuses]
      /\ faults \in Nat /\ state[f] \in AgentState
    BY DEF Node, CloseRun, RunInv, GraphInv, Tables, Shapes
<1>2. /\ runs[f] = "started" /\ state[f].run
      /\ IF state[f].error THEN faults >= 1 \/ Unfit(f, state[f])
                           ELSE ~Unfit(f, state[f])
    BY <1>1 DEF RunInv, Fit, Healthy, Underway, Suited, Storing
<1>3. state'[f].run = state[f].run
    BY <1>1, RunKnown DEF CreateRun
<1>4. /\ {g \in Flows : state[g].run}' = {g \in Flows : state[g].run}
      /\ {g \in Flows : Unfit(g, state[g])}' = {g \in Flows : Unfit(g, state[g])}
    BY <1>1, <1>3, RunFrame, UnfitStays
<1>5. Told(f) = "none" /\ Run!Keeps /\ \A g \in Flows \ {f} : Told(g)' = Told(g)
    BY <1>1, RunFrame
<1>6. /\ \/ pc'[f] = "end" /\ state'[f] = state[f] /\ faults' = faults
            /\ runs' = [runs EXCEPT ![f] = Outcome(f)]
         \/ pc'[f] = "give_up" /\ faults' = faults + 1
            /\ runs' \in {runs, [runs EXCEPT ![f] = Outcome(f)]}
    BY <1>1, ContinueStep DEF CloseRun, Done, Fault
<1>7. CASE UNCHANGED runs /\ pc'[f] = "give_up"
    BY <1>1, <1>3, <1>7, StoresOnly
<1>8. CASE runs' = [runs EXCEPT ![f] = Outcome(f)] /\ state[f].error
    <2>1. runs' = [runs EXCEPT ![f] = "failed"]
        BY <1>8 DEF Outcome
    <2>2. (faults' >= 1 \/ Unfit(f, state[f])) /\ faults' \in {faults, faults + 1}
        BY <1>1, <1>2, <1>6, <1>8
    <2>3. Told(f)' \in {"none", "error"}
        BY <1>6, <1>8 DEF Told
    <2>4. [g \in Flows |-> Told(g)]' \in
            {[g \in Flows |-> Told(g)], [[g \in Flows |-> Told(g)] EXCEPT ![f] = "error"]}
        BY <1>5, <2>3
    <2>5. QED  BY <1>2, <1>4, <1>5, <2>1, <2>2, <2>4
           DEF Run!Fail, Run!Caused, Run!Works, Run!Fails
<1>9. CASE runs' = [runs EXCEPT ![f] = Outcome(f)] /\ ~state[f].error
    <2>1. runs' = [runs EXCEPT ![f] = "completed"]
        BY <1>9 DEF Outcome
    <2>2. Backing(f)
        BY <1>1, <1>9, ClosesBacked
    <2>3. \/ Told(f)' = "result" /\ faults' = faults
          \/ Told(f)' = "none" /\ faults' = faults + 1
        BY <1>6, <1>9 DEF Told
    <2>4. \/ /\ [g \in Flows |-> Told(g)]'
                  = [[g \in Flows |-> Told(g)] EXCEPT ![f] = "result"]
             /\ faults' = faults
          \/ /\ [g \in Flows |-> Told(g)]' = [g \in Flows |-> Told(g)]
             /\ faults' = faults + 1
        BY <1>5, <2>3
    <2>5. QED
        BY <1>2, <1>4, <1>5, <1>9, <2>1, <2>2, <2>4 DEF Run!Complete, Run!Works, Run!Fails
<1>10. QED  BY <1>6, <1>7, <1>8, <1>9

LEMMA GivesUpRun ==
    ASSUME RunInv, NEW f \in Flows, GiveUp(f)
    PROVE  Run!Fail(f) \/ Run!Apologise(f)
<1>1. /\ Node(f) /\ pc[f] = "give_up" /\ Shapes /\ runs \in [Flows -> RunStatuses]
      /\ faults \in Nat
    BY DEF Node, GiveUp, RunInv, GraphInv, Tables
<1>2. state[f].run /\ runs[f] # "none" /\ state[f].error /\ faults >= 1
    BY <1>1 DEF RunInv, Fit, Healthy, GraphInv, Shapes, Shape
<1>3. pc'[f] = "end" /\ state'[f] = state[f]
    BY <1>1, ContinueStep DEF GiveUp
<1>4. /\ {g \in Flows : state[g].run}' = {g \in Flows : state[g].run}
      /\ {g \in Flows : Unfit(g, state[g])}' = {g \in Flows : Unfit(g, state[g])}
    BY <1>1, <1>3, RunFrame, UnfitStays
<1>5. Told(f) = "none" /\ Run!Keeps /\ \A g \in Flows \ {f} : Told(g)' = Told(g)
    BY <1>1, RunFrame
<1>6. Told(f)' = "error"
    BY <1>2, <1>3 DEF Told
<1>7. [g \in Flows |-> Told(g)]' = [[g \in Flows |-> Told(g)] EXCEPT ![f] = "error"]
    BY <1>5, <1>6
<1>8. \/ runs' = [runs EXCEPT ![f] = "failed"] /\ faults' \in {faults, faults + 1}
      \/ UNCHANGED runs /\ faults' = faults + 1
    BY DEF GiveUp, Fault
<1>9. faults' >= 1
    BY <1>1, <1>2, <1>8
<1>10. CASE runs[f] # "failed" /\ runs' = [runs EXCEPT ![f] = "failed"]
    <2>1. runs[f] \in {"started", "completed"}
        BY <1>1, <1>2, <1>10 DEF RunStatuses
    <2>2. QED
        BY <1>2, <1>4, <1>5, <1>7, <1>8, <1>9, <1>10, <2>1
           DEF Run!Fail, Run!Caused, Run!Works, Run!Fails
<1>11. CASE runs[f] = "failed" \/ UNCHANGED runs
    <2>1. UNCHANGED runs
        BY <1>1, <1>8, <1>11
    <2>2. runs[f] # "failed" => faults' >= 2
        BY <1>1, <1>2, <1>8, <1>11
    <2>3. QED
        BY <1>4, <1>5, <1>7, <1>8, <1>9, <2>1, <2>2
           DEF Run!Apologise, Run!Caused, Run!Works, Run!Fails
<1>12. QED  BY <1>8, <1>10, <1>11

\* Without a known run there is nothing to close, and the client gets the error.
LEMMA PersistsRun ==
    ASSUME RunInv, NEW f \in Flows, Persist(f)
    PROVE  Run!Store \/ Run!Apologise(f)
<1>1. /\ Node(f) /\ pc[f] = "persist" /\ Shapes /\ UNCHANGED <<runs, faults>>
      /\ faults \in Nat /\ state[f] \in AgentState /\ Shape("persist", state[f])
    BY DEF Node, Persist, Done, tables, RunInv, GraphInv, Tables, Shapes
<1>2. state'[f].run = state[f].run
    BY <1>1, RunKnown DEF CreateRun
<1>3. CASE pc'[f] # "end"
    BY <1>1, <1>2, <1>3, StoresOnly
<1>4. CASE pc'[f] = "end"
    <2>1. Ends(f, pc[f], state[f], pc'[f], state'[f])
        <3>1. StepOf(f)
            BY <1>1, EveryStep DEF RunInv, GraphInv
        <3>2. QED  BY <1>1, <3>1 DEF StepOf, Works, Working
    <2>2. Told(f)' = "error"
        BY <1>1, <1>4, <2>1 DEF Ends, Told
    <2>3. ~state[f].run
        <3>1. PICK s, next : /\ Continue(f, s, next)
                             /\ next = "end" => ~(state[f].run /\ state[f].lead)
            BY DEF Persist, Done
        <3>2. next = "end"
            BY <1>1, <1>4, <3>1, ContinueStep
        <3>3. QED  BY <1>1, <3>1, <3>2 DEF Shape
    <2>4. faults >= 1 \/ Unfit(f, state[f])
        <3>1. ~HasCompleteResult(state[f])
            BY <2>3 DEF HasCompleteResult
        <3>2. QED  BY <1>1, <3>1 DEF RunInv, Fit, Healthy
    <2>5. /\ {g \in Flows : state[g].run}' = {g \in Flows : state[g].run}
          /\ {g \in Flows : Unfit(g, state[g])}' = {g \in Flows : Unfit(g, state[g])}
        BY <1>1, <1>2, RunFrame, UnfitStays
    <2>6. Told(f) = "none" /\ Run!Keeps /\ \A g \in Flows \ {f} : Told(g)' = Told(g)
        BY <1>1, RunFrame
    <2>7. [g \in Flows |-> Told(g)]' = [[g \in Flows |-> Told(g)] EXCEPT ![f] = "error"]
        BY <2>2, <2>6
    <2>8. QED  BY <1>1, <2>3, <2>4, <2>5, <2>6, <2>7
           DEF Run!Apologise, Run!Caused, Run!Works
<1>5. QED  BY <1>3, <1>4

LEMMA EveryRunStep ==
    ASSUME RunInv, NEW f \in Flows, Node(f) \/ Crash(f)
    PROVE  Run!Next
<1>1. CASE CreateRun(f) \/ CloseRun(f) \/ GiveUp(f) \/ Persist(f)
    BY <1>1, OpensRun, ClosesRun, GivesUpRun, PersistsRun DEF Run!Next
<1>2. CASE ~(CreateRun(f) \/ CloseRun(f) \/ GiveUp(f) \/ Persist(f))
    <2>1. UNCHANGED runs
        BY <1>2, RunsKept
    <2>2. state'[f].run = state[f].run
        BY <1>2, RunKnown DEF RunInv, GraphInv
    <2>3. pc'[f] # "end"
        <3>1. CASE StoreTrail(f)
            BY <3>1, ContinueStep DEF StoreTrail, Done, RunInv, GraphInv
        <3>2. CASE ~StoreTrail(f)
            BY <1>2, <3>2, NoAnswerYet DEF RunInv, GraphInv
        <3>3. QED  BY <3>1, <3>2
    <2>4. QED  BY <2>1, <2>2, <2>3, StoresOnly DEF Run!Next
<1>3. QED  BY <1>1, <1>2

\* What the graph promises clients and auditors, for any number of orchestrations and
\* of failures: a run is completed only with everything stored that it claims, no row
\* that backs it is withdrawn, a failure is not taken back, an error is answered only
\* after a call failed or for data that a node refuses, which never gets a result, and
\* once the client has its answer the run stays as it is
\* (AgentOrchestrationService.persist_agent_state and _mark_graph_run_failed).
THEOREM ImplementsRun == Spec => RunSpec
<1>1. Init => Run!Init
    <2> SUFFICES ASSUME Init PROVE Run!Init
        OBVIOUS
    <2>1. /\ FreshState.run = FALSE /\ FreshState.route = "none"
          /\ FreshState.context = "none"
        BY DEF FreshState
    <2>2. \A f \in Flows : ~state[f].run /\ Told(f) = "none" /\ ~Unfit(f, state[f])
        BY <2>1 DEF Init, Told, Unfit
    <2>3. \A f \in Flows : ~Backing(f)
        BY DEF Init, Backing
    <2>4. runs = [f \in Flows |-> "none"] /\ faults = 0
        BY DEF Init
    <2>5. QED  BY <2>2, <2>3, <2>4 DEF Run!Init
<1>2. RunInv /\ [Next]_vars => [Run!Next]_(Run!arVars)
    <2> SUFFICES ASSUME RunInv, [Next]_vars PROVE [Run!Next]_(Run!arVars)
        OBVIOUS
    <2>1. CASE Next
        BY <2>1, EveryRunStep DEF Next
    <2>2. CASE UNCHANGED vars
        <3>1. \A f \in Flows : UNCHANGED <<state[f], Backing(f), Told(f), Unfit(f, state[f])>>
            BY <2>2 DEF vars, memory, tables, Backing, Told, Unfit
        <3>2. QED  BY <2>2, <3>1 DEF vars, memory, tables, Run!arVars
    <2>3. QED  BY <2>1, <2>2
<1>3. QED  BY <1>1, <1>2, RunInvariant, PTL DEF Spec, RunSpec, Run!Spec

\* An orchestration fails because a call failed or for one of two kinds of data: the
\* fallback as the model's research text, which draft_outreach_email refuses, and a name
\* too long for the task of a WARM lead, which request_action refuses.  Whatever else
\* these nodes and persist_agent_state check is always there, and with such data the
\* client never gets a result.
ErrorsHaveCauses == \A f \in Flows :
    /\ state[f].error => faults >= 1 \/ Unfit(f, state[f])
    /\ pc[f] = "draft" => state[f].chunks = "some" /\ state[f].context # "none"
    /\ pc[f] = "request" => Plannable(state[f])
    /\ pc[f] = "persist" /\ ~state[f].error => HasCompleteResult(state[f])
    /\ pc[f] = "end" /\ Unfit(f, state[f]) => state[f].error

\* Without a failed call an orchestration ends in an error exactly when its data is
\* refused: no class of lead and no configuration makes a node fail by itself.
THEOREM OnlyFailuresAndRefusals == Spec => []ErrorsHaveCauses
<1>1. RunInv => ErrorsHaveCauses
    <2> SUFFICES ASSUME RunInv, NEW f \in Flows
                 PROVE  /\ state[f].error => faults >= 1 \/ Unfit(f, state[f])
                        /\ pc[f] = "draft" => state[f].chunks = "some"
                                              /\ state[f].context # "none"
                        /\ pc[f] = "request" => Plannable(state[f])
                        /\ pc[f] = "persist" /\ ~state[f].error
                            => HasCompleteResult(state[f])
                        /\ pc[f] = "end" /\ Unfit(f, state[f]) => state[f].error
        BY DEF ErrorsHaveCauses
    <2>1. Fit(f) /\ Suited(f) /\ Place(f) /\ Shape(pc[f], state[f])
        BY DEF RunInv, GraphInv, Places, Shapes
    <2>2. pc[f] = "request" => Plannable(state[f])
        <3> SUFFICES ASSUME pc[f] = "request" PROVE Plannable(state[f])
            OBVIOUS
        <3>1. /\ state[f].route = RouteOf[state[f].class]
              /\ state[f].class \in {"HOT", "WARM"}
              /\ state[f].route = "research" => state[f].draft
              /\ state[f].run /\ state[f].lead
            BY <2>1 DEF Shape, Routed, Place, Fit, Healthy, Underway, Working
        <3>2. state[f].route \in {"research", "nurture"}
            BY <3>1 DEF RouteOf
        <3>3. QED  BY <3>1, <3>2 DEF Plannable, ActionOf
    <2>3. QED  BY <2>1, <2>2 DEF Fit, Healthy, Place, Suited
<1>2. QED  BY <1>1, RunInvariant, PTL

-----------------------------------------------------------------------------
(* Every orchestration ends                                                 *)

\* How many steps an orchestration can still take.
StepsLeft ==
    [n \in Nodes |->
        CASE n = "load" -> 18 [] n = "create_run" -> 17 [] n = "qualify" -> 16
          [] n = "create_qualification" -> 15 [] n = "assess" -> 14
          [] n = "save_qualification" -> 13 [] n = "complete_qualification" -> 12
          [] n = "route" -> 11 [] n = "branch" -> 10 [] n = "retrieve" -> 9
          [] n = "research" -> 8 [] n = "draft" -> 7
          [] n \in {"request", "fail_qualification"} -> 6 [] n = "persist" -> 5
          [] n = "evidence" -> 4 [] n = "trail" -> 3 [] n = "close" -> 2
          [] n = "give_up" -> 1 [] OTHER -> 0]

\* Every step of the system brings one orchestration nearer to its end and sends none
\* back; an answered or crashed one takes no step any more.
OrchestrationsAdvance ==
    [][\E f \in Flows : /\ StepsLeft[pc'[f]] < StepsLeft[pc[f]]
                        /\ \A g \in Flows \ {f} : pc'[g] = pc[g] /\ state'[g] = state[g]]_vars

LEMMA StepAdvances ==
    ASSUME Shapes, Tables, NEW f \in Flows, Node(f) \/ Crash(f)
    PROVE  StepsLeft[pc'[f]] < StepsLeft[pc[f]]
<1>1. StepOf(f)
    BY EveryStep
<1>2. CASE Works(f, pc[f], state[f], pc'[f], state'[f])
    BY <1>2 DEF Works, StepsLeft, Nodes, AfterBranch
<1>3. CASE Ends(f, pc[f], state[f], pc'[f], state'[f])
    <2>1. pc[f] \in Nodes
        BY DEF Shapes
    <2>2. QED  BY <1>3, <2>1 DEF Ends, StepsLeft, Nodes
<1>4. CASE pc[f] \in Working /\ pc'[f] = "persist"
    BY <1>4 DEF Working, StepsLeft, Nodes
<1>5. QED  BY <1>1, <1>2, <1>3, <1>4 DEF StepOf

\* An orchestration ends after at most eighteen steps, whatever fails on the way: no
\* edge, no handler of a failure and no retry of the compiled graph leads back.
THEOREM OrchestrationsEnd == Spec => OrchestrationsAdvance
<1> DEFINE Advance == \E f \in Flows :
        /\ StepsLeft[pc'[f]] < StepsLeft[pc[f]]
        /\ \A g \in Flows \ {f} : pc'[g] = pc[g] /\ state'[g] = state[g]
<1>1. RunInv /\ [Next]_vars => [Advance]_vars
    <2> SUFFICES ASSUME RunInv, NEW f \in Flows, Node(f) \/ Crash(f) PROVE Advance
        BY DEF Next
    <2>1. Shapes /\ Tables
        BY DEF RunInv, GraphInv
    <2>2. Others(f)
        BY <2>1, NodeShape
    <2>3. QED  BY <2>1, <2>2, StepAdvances DEF Others
<1>2. QED  BY <1>1, RunInvariant, PTL DEF Spec, OrchestrationsAdvance
=============================================================================
