---------------------------- MODULE Observability ----------------------------
(***************************************************************************)
(* The operator's views over the tables, while orchestrations write them:  *)
(* AgentGraph and AIUsage composed with ObservabilityService and with the  *)
(* lead history that MCP clients read.                                     *)
(*                                                                         *)
(* Each model call of the graph opens its usage context, is answered and   *)
(* recorded, and then ends the node.  A view is put together from several  *)
(* reads, each of one table at one moment; nothing locks the tables.  What *)
(* a view shows of a run is reduced to whether it shows it completed.      *)
(* Readers do not disturb anyone, so one reader stands for all of them.    *)
(***************************************************************************)
EXTENDS AgentGraph, AIUsage

CONSTANTS
    Embedders,  \* requests outside every run that embed a text
    Embeds,     \* what each of them embeds: a document to ingest or a query
    PageSize    \* the limit of a page of usage events

ASSUME CallersAssumption ==
    /\ Callers = Flows \union Embedders
    /\ Flows \cap Embedders = {}
ASSUME EmbedsAssumption ==
    \A k \in Embedders : Embeds[k] \in {"embedding_document", "embedding_query"}
ASSUME RunRowsAssumption == RunRows = {"qualification", "orchestration"} \X Flows
ASSUME PageSizeAssumption == PageSize \in Nat \ {0}

VARIABLES
    view,  \* the view of one lead or run that is being put together, or stands
    walk   \* the walk through the pages of usage events

readers == <<view, walk>>
systemVars == <<vars, usageVars, readers>>

\* Faulty variant: the runs are read last.
RunsLast ==
    [timeline |-> <<"transitions", "evidence", "actions", "runs">>,
     inspection |-> <<"evidence", "actions", "runs">>]

\* The order in which each view reads its tables.  The history that MCP clients read
\* is the first half of the timeline.
ReadOrder ==
    [timeline |-> <<"runs", "transitions", "evidence", "actions">>,
     inspection |-> <<"runs", "evidence", "actions">>]

Pages == {"timeline", "inspection"}

\* read: how many of its tables are read.  completed: the runs it shows completed.
View == [page : Pages \union {"none"}, scope : SUBSET Flows, read : 0 .. 4,
         completed : SUBSET Flows, trails : SUBSET Flows, evidence : SUBSET Flows,
         actions : SUBSET ActionTypes]

NoView == [page |-> "none", scope |-> {}, read |-> 0, completed |-> {}, trails |-> {},
           evidence |-> {}, actions |-> {}]

\* The rows of usage are known by the order of their inserts, 1 the oldest.
\* counted: the rows that the summary of the first page counts; seen: which of them.
Walk == [phase : {"none", "paging", "done"}, counted : Nat, offset : Nat, seen : SUBSET Nat]

NoWalk == [phase |-> "none", counted |-> 0, offset |-> 0, seen |-> {}]

SystemInit == Init /\ UsageInit /\ view = NoView /\ walk = NoWalk

-----------------------------------------------------------------------------
(* Orchestrations and their model calls                                     *)

\* Research without evidence and a draft without grounds ask no model.
ModelCall(f) ==
    CASE pc[f] = "assess" -> "qualification"
      [] pc[f] = "retrieve" -> "embedding_query"
      [] pc[f] = "research" /\ state[f].chunks = "some" -> "research_context"
      [] pc[f] = "draft" /\ Grounded(state[f]) -> "email_draft"
      [] OTHER -> "none"

\* The qualification has a run of its own.
RunRowOf(f) ==
    IF pc[f] = "assess" THEN <<"qualification", f>> ELSE <<"orchestration", f>>

AskModel(f) ==
    /\ ModelCall(f) # "none"
    /\ OpenContext(f, RunRowOf(f))
    /\ UNCHANGED <<vars, readers>>

ModelAnswers(f) ==
    /\ ModelCall(f) # "none"
    /\ context[f] # NoRun
    /\ Record(f, ModelCall(f))
    /\ UNCHANGED <<vars, readers>>

\* A node whose model call was not answered fails; one whose call was answered may
\* fail too: the answer may be refused, or the search after the embedding fail.
RunNode(f) ==
    /\ Node(f)
    /\ IF ModelCall(f) = "none"
         THEN UNCHANGED usageVars
         ELSE /\ context[f] # NoRun
              /\ f \in answered \/ faults' # faults
              /\ CloseContext(f)
    /\ UNCHANGED readers

CrashFlow(f) == Crash(f) /\ CloseContext(f) /\ UNCHANGED readers

\* A document or a query of the API or of an MCP client is embedded without context.
EmbedOutside(k) ==
    /\ Record(k, Embeds[k])
    /\ UNCHANGED <<vars, readers>>

-----------------------------------------------------------------------------
(* Views                                                                    *)

Idle == view = NoView /\ walk = NoWalk

\* The timeline lists the lead's actions, the inspection those of its run.
ShownActions(v) ==
    {t \in ActionTypes : actions[t] \in IF v.page = "timeline" THEN Flows ELSE v.scope}

\* View v with the next of its tables read.
ReadInto(v) ==
    LET next == [v EXCEPT !.read = @ + 1]
        table == ReadOrder[v.page][v.read + 1]
    IN  CASE table = "runs" ->
                [next EXCEPT !.completed = {f \in v.scope : runs[f] = "completed"}]
          [] table = "transitions" ->
                [next EXCEPT !.trails = {f \in v.scope : trail[f].outcome # "none"}]
          [] table = "evidence" -> [next EXCEPT !.evidence = v.scope \cap evidence]
          [] table = "actions" -> [next EXCEPT !.actions = ShownActions(v)]

\* The timeline shows a lead, the inspection one run.  Opening either is its first read.
OpenView(page, scope) ==
    /\ Idle
    /\ view' = ReadInto([NoView EXCEPT !.page = page, !.scope = scope])
    /\ UNCHANGED <<vars, usageVars, walk>>

ReadTable ==
    /\ view.page # "none"
    /\ view.read < Len(ReadOrder[view.page])
    /\ view' = ReadInto(view)
    /\ UNCHANGED <<vars, usageVars, walk>>

\* A page of usage starts with the summary of the whole table.
OpenUsage ==
    /\ Idle
    /\ walk' = [NoWalk EXCEPT !.phase = "paging", !.counted = Cardinality(usage)]
    /\ UNCHANGED <<vars, usageVars, view>>

\* Faulty variant: a page that is full is taken for the last one.
ReadFullPage ==
    /\ walk.phase = "paging"
    /\ LET stored == Cardinality(usage) IN
        walk' = [walk EXCEPT
            !.seen = @ \union {p \in 1 .. walk.counted :
                                 stored - walk.offset - PageSize < p /\ p <= stored - walk.offset},
            !.offset = @ + PageSize,
            !.phase = IF stored - walk.offset > PageSize + 1 THEN "paging" ELSE "done"]
    /\ UNCHANGED <<vars, usageVars, view>>

\* The newest rows first.  One row beyond the page is asked for, to tell whether
\* there is a next page; the walk goes on as long as there is one.
ReadPage ==
    /\ walk.phase = "paging"
    /\ LET stored == Cardinality(usage) IN
        walk' = [walk EXCEPT
            !.seen = @ \union {p \in 1 .. walk.counted :
                                 stored - walk.offset - PageSize < p /\ p <= stored - walk.offset},
            !.offset = @ + PageSize,
            !.phase = IF stored - walk.offset > PageSize THEN "paging" ELSE "done"]
    /\ UNCHANGED <<vars, usageVars, view>>

\* The reader turns to something else, for one when a read failed: then the whole
\* page is an error.
Leave ==
    /\ ~Idle
    /\ view' = NoView
    /\ walk' = NoWalk
    /\ UNCHANGED <<vars, usageVars>>

Reader ==
    \/ OpenView("timeline", Flows)
    \/ \E f \in Flows : OpenView("inspection", {f})
    \/ ReadTable \/ OpenUsage \/ ReadPage \/ Leave

\* Bound: failed inserts of usage rows count with the other faults.
FaultBound == faults' + Cardinality(lost') <= MaxFaults

Writer ==
    /\ \/ \E f \in Flows : AskModel(f) \/ ModelAnswers(f) \/ RunNode(f) \/ CrashFlow(f)
       \/ \E k \in Embedders : EmbedOutside(k)
    /\ FaultBound

SystemNext == Writer \/ Reader

SystemSpec == SystemInit /\ [][SystemNext]_systemVars

-----------------------------------------------------------------------------
(* Properties                                                               *)

\* Tables, contexts and views hold values of their types, and a request has a usage
\* context only while it is asking a model.
SystemTypeOK ==
    /\ TypeOK
    /\ UsageTypeOK
    /\ view \in View
    /\ walk \in Walk
    /\ \A f \in Flows : context[f] # NoRun => ModelCall(f) # "none"
    /\ answered \cap Flows \subseteq {f \in Flows : context[f] # NoRun}

\* Requests that ask models at the same time never have their usage mixed up: each
\* row names the run its call was made for, which is stored, and no run where the
\* call was made outside every run.  No count is invented: the row passes the
\* table's check, and has a cost only with a price and tokens to apply it to.
UsageTruthful ==
    \A e \in usage :
        /\ CASE e.caller \in Embedders -> e.run = NoRun
             [] e.caller \in Flows /\ e.operation = "qualification" ->
                    e.run = <<"qualification", e.caller>> /\ quals[e.caller] # "none"
             [] e.caller \in Flows /\ e.operation # "qualification" ->
                    e.run = <<"orchestration", e.caller>> /\ runs[e.caller] # "none"
        /\ Unknown \notin {e.input, e.output, e.total} => e.total = e.input + e.output
        /\ e.cost # Unknown => Prices[e.operation] # NoPrice /\ e.total # Unknown

\* The model calls behind a completed run.
CallsOf(s, acting) ==
    {"qualification"}
    \union (IF s.class = "HOT" THEN {"embedding_query"} ELSE {})
    \union (IF s.class = "HOT" /\ s.chunks = "some" THEN {"research_context"} ELSE {})
    \union (IF s.class = "HOT" /\ s.chunks = "some" /\ acting THEN {"email_draft"} ELSE {})

\* The usage table accounts for every completed run: it has one row for each model
\* call that the run's class implies, whether or not the provider reported usage,
\* except for the rows whose insert failed.
UsageAccountsForRuns ==
    \A f \in Flows : runs[f] = "completed" =>
        \A op \in Operations :
            LET rows == {e \in usage : e.caller = f /\ e.operation = op} IN
            IF op \in CallsOf(state[f], f \in Acting)
              THEN Cardinality(rows) = IF <<f, op>> \in lost THEN 0 ELSE 1
              ELSE rows = {}

Shows(table) ==
    view.page # "none" /\ \E k \in 1 .. view.read : ReadOrder[view.page][k] = table

\* A view that shows a run completed shows it whole, although it reads the tables at
\* different moments: its trail, its evidence and the action it planned.  The
\* orchestration closes its run last, and every view reads the runs first.
CompletedShownWhole ==
    \A f \in view.completed :
        /\ Shows("transitions") => f \in view.trails
        /\ Shows("evidence") /\ state[f].chunks = "some" => f \in view.evidence
        /\ Shows("actions") => \A t \in ActionTypes :
                Plans(f, t) /\ (view.page = "timeline" \/ actions[t] = f) => t \in view.actions

\* An operator who walks through the pages of usage to the last sees every row that
\* the summary on the first page counted, however many are added on the way.
WalkShowsSummary == walk.phase = "done" => 1 .. walk.counted \subseteq walk.seen
=============================================================================
