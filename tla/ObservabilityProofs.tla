-------------------------- MODULE ObservabilityProofs --------------------------
(***************************************************************************)
(* What the operator's views and the usage table guarantee, for any number *)
(* of orchestrations and other requests, any usage reports and prices, any *)
(* size of a page and any number of faults.                                *)
(*                                                                         *)
(* Recording usage and reading views do not touch the graph, so the whole  *)
(* system implements AgentGraph and inherits its theorems.                 *)
(***************************************************************************)
EXTENDS Observability, AgentGraphProofs, FiniteSetTheorems

-----------------------------------------------------------------------------
(* The system implements the graph                                          *)

LEMMA GraphStep == [SystemNext]_systemVars => [Next]_vars
<1> SUFFICES ASSUME SystemNext PROVE [Next]_vars
    BY DEF systemVars
<1>1. CASE Reader
    BY <1>1 DEF Reader, OpenView, ReadTable, OpenUsage, ReadPage, Leave
<1>2. CASE Writer
    <2>1. ASSUME NEW f \in Flows, AskModel(f) \/ ModelAnswers(f) PROVE UNCHANGED vars
        BY <2>1 DEF AskModel, ModelAnswers
    <2>2. ASSUME NEW f \in Flows, RunNode(f) \/ CrashFlow(f) PROVE Next
        BY <2>2 DEF RunNode, CrashFlow, Next
    <2>3. ASSUME NEW k \in Embedders, EmbedOutside(k) PROVE UNCHANGED vars
        BY <2>3 DEF EmbedOutside
    <2>4. QED  BY <1>2, <2>1, <2>2, <2>3 DEF Writer
<1>3. QED  BY <1>1, <1>2 DEF SystemNext

\* With its usage records and its readers, the system is still the graph: every
\* theorem about AgentGraph holds of it.
THEOREM SystemImplementsGraph == SystemSpec => Spec
<1>1. SystemInit => Init
    BY DEF SystemInit
<1>2. QED  BY <1>1, GraphStep, PTL DEF SystemSpec, Spec

\* And so it keeps what an orchestration promises: neither a usage row that is lost nor a
\* reader makes a run complete, fails it or changes it after its answer.
THEOREM SystemImplementsRun == SystemSpec => RunSpec
BY SystemImplementsGraph, ImplementsRun

-----------------------------------------------------------------------------
(* Usage rows                                                               *)

LEMMA TokenCountTyped ==
    ASSUME NEW v \in Int \union {Unknown}
    PROVE  TokenCount(v) \in Counts
    BY UnknownAssumption DEF TokenCount, Counts

LEMMA TotalTokensTyped ==
    ASSUME NEW i \in Counts, NEW o \in Counts, NEW n \in Counts
    PROVE  TotalTokens(i, o, n) \in Counts
    BY UnknownAssumption DEF TotalTokens, Counts

LEMMA ProductTyped ==
    ASSUME NEW m \in Nat, NEW n \in Nat
    PROVE  m * n \in Nat
    OBVIOUS

\* A cost is a number, and there is one only for a listed model and known tokens.
LEMMA EstimateTyped ==
    ASSUME NEW p, p = NoPrice \/ p \in Price, NEW i \in Counts, NEW o \in Counts,
           NEW n \in Counts, n = Unknown => i = Unknown \/ o = Unknown
    PROVE  /\ Estimate(p, i, o, n) \in Counts
           /\ Estimate(p, i, o, n) # Unknown => p # NoPrice /\ n # Unknown
<1>1. CASE p = NoPrice
    BY <1>1 DEF Estimate, Counts
<1>2. CASE p # NoPrice /\ p.total # Unknown /\ n # Unknown
    <2>1. p.total \in Nat /\ n \in Nat
        BY <1>2 DEF Price, Counts
    <2>2. n * p.total \in Nat
        BY <2>1, ProductTyped
    <2>3. Estimate(p, i, o, n) = n * p.total
        BY <1>2 DEF Estimate
    <2>4. QED  BY <1>2, <2>2, <2>3 DEF Counts
<1>3. CASE /\ p # NoPrice /\ (p.total = Unknown \/ n = Unknown)
           /\ Unknown \notin {p.input, p.output, i, o}
    <2>1. p.input \in Nat /\ p.output \in Nat /\ i \in Nat /\ o \in Nat
        BY <1>3 DEF Price, Counts
    <2>2. i * p.input \in Nat /\ o * p.output \in Nat
        BY <2>1, ProductTyped
    <2> DEFINE cost == i * p.input + o * p.output
    <2>3. cost \in Nat
        BY <2>2
    <2>4. Estimate(p, i, o, n) = cost
        BY <1>3 DEF Estimate
    <2>5. n # Unknown
        BY <1>3
    <2> HIDE DEF cost
    <2>6. QED  BY <1>3, <2>3, <2>4, <2>5 DEF Counts
<1>4. CASE /\ p # NoPrice /\ (p.total = Unknown \/ n = Unknown)
           /\ Unknown \in {p.input, p.output, i, o}
    BY <1>4 DEF Estimate, Counts
<1>5. QED  BY <1>1, <1>2, <1>3, <1>4

\* What the service writes: a row of the table, in the caller's context, that adds up.
LEMMA EventTyped ==
    ASSUME NEW c \in Callers, NEW op \in Operations, NEW r \in Reports[op],
           context \in [Callers -> RunRows \union {NoRun}]
    PROVE  LET e == EventOf(c, op, r) IN
           /\ e \in UsageEvent
           /\ e.caller = c /\ e.operation = op /\ e.run = context[c]
           /\ Unknown \notin {e.input, e.output, e.total} => e.total = e.input + e.output
           /\ e.cost # Unknown => Prices[op] # NoPrice /\ e.total # Unknown
<1> DEFINE i == TokenCount(r.input)
           o == TokenCount(r.output)
           m == TokenCount(r.total)
           n == TotalTokens(i, o, m)
           cost == Estimate(Prices[op], i, o, n)
<1>1. r \in Report /\ (r.total = Unknown \/ (r.input = Unknown /\ r.output = Unknown))
    BY ReportsAssumption
<1>2. r.input \in Int \union {Unknown} /\ r.output \in Int \union {Unknown}
      /\ r.total \in Int \union {Unknown}
    BY <1>1 DEF Report
<1>3. i \in Counts /\ o \in Counts /\ m \in Counts
    BY <1>2, TokenCountTyped
<1>4. m = Unknown \/ (i = Unknown /\ o = Unknown)
    BY <1>1 DEF TokenCount
<1>5. EventOf(c, op, r) = [caller |-> c, operation |-> op, run |-> context[c],
                           input |-> i, output |-> o, total |-> n, cost |-> cost]
    BY DEF EventOf
<1> HIDE DEF i, o, m
<1>6. n \in Counts
    BY <1>3, TotalTokensTyped
<1>7. n = Unknown => i = Unknown \/ o = Unknown
    BY <1>3, UnknownAssumption DEF TotalTokens, Counts
<1>8. Unknown \notin {i, o, n} => n = i + o
    BY <1>4 DEF TotalTokens
<1> HIDE DEF n
<1>9. Prices[op] = NoPrice \/ Prices[op] \in Price
    BY PricesAssumption
<1>10. cost \in Counts /\ (cost # Unknown => Prices[op] # NoPrice /\ n # Unknown)
    BY <1>3, <1>6, <1>7, <1>9, EstimateTyped
<1> HIDE DEF cost
<1>11. context[c] \in RunRows \union {NoRun}
    OBVIOUS
<1>12. EventOf(c, op, r) \in UsageEvent
    BY <1>3, <1>5, <1>6, <1>10, <1>11 DEF UsageEvent
<1>13. QED  BY <1>5, <1>8, <1>10, <1>12

\* A recorded answer adds one such row, or none and is lost.
LEMMA RecordRow ==
    ASSUME NEW c \in Callers, NEW op \in Operations, Record(c, op),
           context \in [Callers -> RunRows \union {NoRun}]
    PROVE  /\ answered' = answered \union {c}
           /\ \/ /\ \E e \in UsageEvent :
                        /\ usage' = usage \union {e}
                        /\ e.caller = c /\ e.operation = op /\ e.run = context[c]
                        /\ Unknown \notin {e.input, e.output, e.total}
                            => e.total = e.input + e.output
                        /\ e.cost # Unknown => Prices[op] # NoPrice /\ e.total # Unknown
                 /\ UNCHANGED lost
              \/ UNCHANGED usage /\ lost' = lost \union {<<c, op>>}
           /\ UNCHANGED context
    BY EventTyped DEF Record

-----------------------------------------------------------------------------
(* Types                                                                    *)

\* The usage context of an orchestration is open only around a model call, and names
\* the run of that call; outside the orchestrations none is ever open.
ContextInv ==
    /\ \A f \in Flows : context[f] # NoRun => ModelCall(f) # "none" /\ context[f] = RunRowOf(f)
    /\ \A k \in Embedders : context[k] = NoRun
    /\ answered \cap Flows \subseteq {f \in Flows : context[f] # NoRun}

ReadersTyped == view \in View /\ walk \in Walk

SystemTyped ==
    /\ Shapes /\ Tables
    /\ UsageTypeOK /\ IsFiniteSet(usage)
    /\ ContextInv
    /\ ReadersTyped

LEMMA ModelCallTyped ==
    ASSUME NEW f \in Flows, ModelCall(f) # "none"
    PROVE  ModelCall(f) \in Operations
    BY DEF ModelCall, Operations

\* Nothing but its own steps moves an orchestration.
LEMMA OtherCalls ==
    ASSUME Shapes, NEW f \in Flows, Node(f) \/ Crash(f), NEW g \in Flows \ {f}
    PROVE  ModelCall(g)' = ModelCall(g) /\ RunRowOf(g)' = RunRowOf(g)
<1>1. pc'[g] = pc[g] /\ state'[g] = state[g]
    BY NodeShape DEF Others
<1>2. QED  BY <1>1 DEF ModelCall, RunRowOf, Grounded

LEMMA IdleGraphCalls ==
    ASSUME UNCHANGED vars
    PROVE  \A f \in Flows : ModelCall(f)' = ModelCall(f) /\ RunRowOf(f)' = RunRowOf(f)
    BY DEF vars, memory, ModelCall, RunRowOf, Grounded

\* The kinds of step, as far as contexts and usage rows tell.
LEMMA AskContext ==
    ASSUME SystemTyped, NEW f \in Flows, AskModel(f)
    PROVE  UsageTypeOK' /\ IsFiniteSet(usage)' /\ ContextInv'
<1>1. RunRowOf(f) \in RunRows /\ f \in Callers
    BY RunRowsAssumption, CallersAssumption DEF RunRowOf
<1>2. context' = [context EXCEPT ![f] = RunRowOf(f)] /\ ModelCall(f) # "none"
      /\ UNCHANGED <<answered, usage, lost, vars>>
    BY DEF AskModel, OpenContext
<1>3. UsageTypeOK' /\ IsFiniteSet(usage)'
    BY <1>1, <1>2 DEF SystemTyped, UsageTypeOK
<1>4. \A g \in Flows : ModelCall(g)' = ModelCall(g) /\ RunRowOf(g)' = RunRowOf(g)
    BY <1>2, IdleGraphCalls
<1>5. ContextInv'
    BY <1>1, <1>2, <1>4, CallersAssumption, NoRunAssumption
       DEF SystemTyped, UsageTypeOK, ContextInv
<1>6. QED  BY <1>3, <1>5

LEMMA RecordContext ==
    ASSUME SystemTyped, NEW c \in Callers, NEW op \in Operations, Record(c, op),
           UNCHANGED vars, c \in Flows => context[c] # NoRun
    PROVE  UsageTypeOK' /\ IsFiniteSet(usage)' /\ ContextInv'
<1>1. context \in [Callers -> RunRows \union {NoRun}] /\ IsFiniteSet(usage)
    BY DEF SystemTyped, UsageTypeOK
<1>2. answered' = answered \union {c} /\ UNCHANGED context
    BY <1>1, RecordRow
<1>3. usage' \subseteq UsageEvent /\ IsFiniteSet(usage') /\ lost' \subseteq Callers \X Operations
    <2>1. CASE UNCHANGED usage /\ lost' = lost \union {<<c, op>>}
        BY <2>1, <1>1 DEF SystemTyped, UsageTypeOK
    <2>2. CASE (\E e \in UsageEvent : usage' = usage \union {e}) /\ UNCHANGED lost
        <3>1. PICK e \in UsageEvent : usage' = usage \union {e}
            BY <2>2
        <3>2. IsFiniteSet(usage')
            BY <3>1, <1>1, FS_AddElement
        <3>3. QED  BY <3>1, <3>2, <2>2 DEF SystemTyped, UsageTypeOK
    <2>3. QED  BY <1>1, <2>1, <2>2, RecordRow
<1>4. UsageTypeOK' /\ IsFiniteSet(usage)'
    BY <1>2, <1>3 DEF SystemTyped, UsageTypeOK
<1>5. \A g \in Flows : ModelCall(g)' = ModelCall(g) /\ RunRowOf(g)' = RunRowOf(g)
    BY IdleGraphCalls
<1>6. ContextInv'
    BY <1>2, <1>5 DEF SystemTyped, ContextInv
<1>7. QED  BY <1>4, <1>6

LEMMA NodeContext ==
    ASSUME SystemTyped, NEW f \in Flows, RunNode(f) \/ CrashFlow(f)
    PROVE  /\ UsageTypeOK' /\ IsFiniteSet(usage)' /\ ContextInv'
           /\ UNCHANGED <<usage, lost>> /\ f \notin answered'
           /\ \A c \in Callers : c # f => (c \in answered' <=> c \in answered)
<1>1. Node(f) \/ Crash(f)
    BY DEF RunNode, CrashFlow
<1>2. \A g \in Flows \ {f} : ModelCall(g)' = ModelCall(g) /\ RunRowOf(g)' = RunRowOf(g)
    BY <1>1, OtherCalls DEF SystemTyped
<1>3. CASE CloseContext(f)
    <2>1. f \in Callers
        BY CallersAssumption
    <2>2. UsageTypeOK' /\ IsFiniteSet(usage)'
        BY <1>3, <2>1 DEF CloseContext, SystemTyped, UsageTypeOK
    <2>3. ContextInv'
        BY <1>2, <1>3, <2>1, CallersAssumption
           DEF CloseContext, SystemTyped, UsageTypeOK, ContextInv
    <2>4. QED  BY <1>3, <2>2, <2>3 DEF CloseContext
<1>4. CASE ModelCall(f) = "none" /\ UNCHANGED usageVars
    <2>1. context[f] = NoRun /\ f \notin answered
        BY <1>4 DEF SystemTyped, ContextInv
    <2>2. UsageTypeOK' /\ IsFiniteSet(usage)'
        BY <1>4 DEF usageVars, SystemTyped, UsageTypeOK
    <2>3. ContextInv'
        BY <1>2, <1>4, <2>1 DEF usageVars, SystemTyped, ContextInv
    <2>4. QED  BY <1>4, <2>1, <2>2, <2>3 DEF usageVars
<1>5. QED  BY <1>3, <1>4 DEF RunNode, CrashFlow

LEMMA ReaderLeavesTables ==
    ASSUME Reader
    PROVE  UNCHANGED <<vars, usageVars>>
    BY DEF Reader, OpenView, ReadTable, OpenUsage, ReadPage, Leave

LEMMA WriterLeavesReaders ==
    ASSUME Writer
    PROVE  UNCHANGED readers
    BY DEF Writer, AskModel, ModelAnswers, RunNode, CrashFlow, EmbedOutside

LEMMA OrderLengths ==
    ASSUME NEW page \in Pages
    PROVE  Len(ReadOrder[page]) = IF page = "timeline" THEN 4 ELSE 3
<1>1. /\ ReadOrder["timeline"] = <<"runs", "transitions", "evidence", "actions">>
      /\ ReadOrder["inspection"] = <<"runs", "evidence", "actions">>
    BY DEF ReadOrder
<1>2. CASE page = "timeline"
    BY <1>1, <1>2
<1>3. CASE page = "inspection"
    BY <1>1, <1>3
<1>4. QED  BY <1>2, <1>3 DEF Pages

LEMMA TablesRead ==
    ASSUME NEW page \in Pages, NEW k \in 1 .. Len(ReadOrder[page])
    PROVE  ReadOrder[page][k] \in {"runs", "transitions", "evidence", "actions"}
<1>1. /\ ReadOrder["timeline"] = <<"runs", "transitions", "evidence", "actions">>
      /\ ReadOrder["inspection"] = <<"runs", "evidence", "actions">>
    BY DEF ReadOrder
<1>2. CASE page = "timeline"
    <2>1. k \in 1 .. 4
        BY <1>2, OrderLengths
    <2>2. QED  BY <1>1, <1>2, <2>1
<1>3. CASE page = "inspection"
    <2>1. k \in 1 .. 3
        BY <1>3, OrderLengths
    <2>2. QED  BY <1>1, <1>3, <2>1
<1>4. QED  BY <1>2, <1>3 DEF Pages

\* What one read of a view changes.
LEMMA OneRead ==
    ASSUME NEW v \in View, v.page \in Pages, v.read < Len(ReadOrder[v.page])
    PROVE  LET table == ReadOrder[v.page][v.read + 1]
               w == ReadInto(v)
           IN
           /\ w \in View
           /\ w.page = v.page /\ w.scope = v.scope /\ w.read = v.read + 1
           /\ \/ /\ table = "runs"
                 /\ w.completed = {f \in v.scope : runs[f] = "completed"}
              \/ /\ table = "transitions" /\ w.completed = v.completed
                 /\ w.trails = {f \in v.scope : trail[f].outcome # "none"}
                 /\ w.evidence = v.evidence /\ w.actions = v.actions
              \/ /\ table = "evidence" /\ w.completed = v.completed
                 /\ w.evidence = v.scope \cap evidence
                 /\ w.trails = v.trails /\ w.actions = v.actions
              \/ /\ table = "actions" /\ w.completed = v.completed
                 /\ w.actions = ShownActions(v)
                 /\ w.trails = v.trails /\ w.evidence = v.evidence
<1> DEFINE table == ReadOrder[v.page][v.read + 1]
           next == [v EXCEPT !.read = @ + 1]
           w == ReadInto(v)
<1>1. v.read + 1 \in 1 .. Len(ReadOrder[v.page]) /\ v.read + 1 \in 0 .. 4
    <2> DEFINE n == Len(ReadOrder[v.page])
    <2>1. n = 4 \/ n = 3
        BY OrderLengths
    <2>2. v.read \in 0 .. 4 /\ v.read < n
        BY DEF View
    <2> HIDE DEF n
    <2>3. v.read + 1 \in 1 .. n /\ v.read + 1 \in 0 .. 4
        BY <2>1, <2>2
    <2>4. QED  BY <2>3 DEF n
<1>2. table \in {"runs", "transitions", "evidence", "actions"}
    BY <1>1, TablesRead
<1>3. next \in View
    BY <1>1 DEF View
<1>4. v.scope \subseteq Flows /\ ShownActions(v) \subseteq ActionTypes
    BY DEF View, ShownActions
<1>5. /\ table = "runs" =>
            w = [next EXCEPT !.completed = {f \in v.scope : runs[f] = "completed"}]
      /\ table = "transitions" =>
            w = [next EXCEPT !.trails = {f \in v.scope : trail[f].outcome # "none"}]
      /\ table = "evidence" => w = [next EXCEPT !.evidence = v.scope \cap evidence]
      /\ table = "actions" => w = [next EXCEPT !.actions = ShownActions(v)]
    BY DEF ReadInto
<1>6. next.page = v.page /\ next.scope = v.scope /\ next.read = v.read + 1
      /\ next.completed = v.completed /\ next.trails = v.trails
      /\ next.evidence = v.evidence /\ next.actions = v.actions
    BY DEF View
<1> HIDE DEF table, next, w
<1>7. CASE table = "runs"
    BY <1>3, <1>4, <1>5, <1>6, <1>7 DEF View, table, w
<1>8. CASE table = "transitions"
    BY <1>3, <1>4, <1>5, <1>6, <1>8 DEF View, table, w
<1>9. CASE table = "evidence"
    BY <1>3, <1>4, <1>5, <1>6, <1>9 DEF View, table, w
<1>10. CASE table = "actions"
    BY <1>3, <1>4, <1>5, <1>6, <1>10 DEF View, table, w
<1>11. QED  BY <1>2, <1>7, <1>8, <1>9, <1>10

\* A view that is opened has its first table before it.
LEMMA Opened ==
    ASSUME NEW page \in Pages, NEW scope \in SUBSET Flows
    PROVE  LET v == [NoView EXCEPT !.page = page, !.scope = scope] IN
           /\ v \in View /\ v.page = page /\ v.scope = scope /\ v.read = 0
           /\ v.read < Len(ReadOrder[page])
<1>1. NoView \in View /\ NoView.read = 0
    BY DEF NoView, View
<1>2. 0 < Len(ReadOrder[page])
    BY OrderLengths
<1>3. QED  BY <1>1, <1>2 DEF NoView, View

LEMMA ViewTyped ==
    ASSUME view \in View, Reader
    PROVE  view' \in View
<1>1. NoView \in View
    BY DEF NoView, View
<1>2. ASSUME NEW page \in Pages, NEW scope \in SUBSET Flows, OpenView(page, scope)
      PROVE  view' \in View
    <2> DEFINE v == [NoView EXCEPT !.page = page, !.scope = scope]
    <2>1. v \in View /\ v.page = page /\ v.read < Len(ReadOrder[page])
        BY Opened
    <2>2. view' = ReadInto(v)
        BY <1>2 DEF OpenView
    <2> HIDE DEF v
    <2>3. QED  BY <2>1, <2>2, OneRead
<1>3. CASE ReadTable
    <2>1. view.page \in Pages /\ view.read < Len(ReadOrder[view.page])
        BY <1>3 DEF ReadTable, View
    <2>2. QED  BY <1>3, <2>1, OneRead DEF ReadTable
<1>4. CASE OpenUsage \/ ReadPage \/ Leave
    BY <1>1, <1>4 DEF OpenUsage, ReadPage, Leave
<1>5. QED  BY <1>2, <1>3, <1>4 DEF Reader, Pages

LEMMA WalkTyped ==
    ASSUME walk \in Walk, IsFiniteSet(usage), Reader
    PROVE  walk' \in Walk
<1>1. NoWalk \in Walk
    BY DEF NoWalk, Walk
<1>2. Cardinality(usage) \in Nat
    BY FS_CardinalityType
<1>3. CASE OpenUsage
    BY <1>1, <1>2, <1>3 DEF OpenUsage, Walk
<1>4. CASE ReadPage
    <2>1. walk.offset + PageSize \in Nat
        BY PageSizeAssumption DEF Walk
    <2>2. PICK p \in {"paging", "done"}, S \in SUBSET Nat :
            walk' = [walk EXCEPT !.seen = @ \union S, !.offset = @ + PageSize, !.phase = p]
        <3>1. 1 .. walk.counted \subseteq Nat
            BY DEF Walk
        <3> DEFINE T == {q \in 1 .. walk.counted :
                            /\ Cardinality(usage) - walk.offset - PageSize < q
                            /\ q <= Cardinality(usage) - walk.offset}
        <3>2. T \subseteq Nat
            BY <3>1
        <3>3. \E p \in {"paging", "done"} :
                walk' = [walk EXCEPT !.seen = @ \union T, !.offset = @ + PageSize, !.phase = p]
            BY <1>4 DEF ReadPage
        <3> HIDE DEF T
        <3>4. QED  BY <3>2, <3>3
    <2>3. walk.seen \union S \subseteq Nat
        BY DEF Walk
    <2>4. QED  BY <2>1, <2>2, <2>3 DEF Walk
<1>5. ASSUME NEW page, NEW scope, OpenView(page, scope) PROVE walk' = walk
    BY <1>5 DEF OpenView
<1>6. CASE ReadTable \/ Leave
    BY <1>1, <1>6 DEF ReadTable, Leave
<1>7. QED  BY <1>3, <1>4, <1>5, <1>6 DEF Reader

LEMMA NextSystemTyped == SystemTyped /\ [SystemNext]_systemVars => SystemTyped'
<1> SUFFICES ASSUME SystemTyped, [SystemNext]_systemVars PROVE SystemTyped'
    OBVIOUS
<1>1. (Shapes /\ Tables)'
    BY GraphStep, NextTyped DEF SystemTyped
<1>2. CASE Reader
    <2>1. UNCHANGED <<vars, usageVars>>
        BY <1>2, ReaderLeavesTables
    <2>2. \A f \in Flows : ModelCall(f)' = ModelCall(f) /\ RunRowOf(f)' = RunRowOf(f)
        BY <2>1, IdleGraphCalls
    <2>3. (UsageTypeOK /\ IsFiniteSet(usage) /\ ContextInv)'
        BY <2>1, <2>2 DEF SystemTyped, UsageTypeOK, usageVars, ContextInv
    <2>4. ReadersTyped'
        BY <1>2, ViewTyped, WalkTyped DEF SystemTyped, ReadersTyped
    <2>5. QED  BY <1>1, <2>3, <2>4 DEF SystemTyped
<1>3. CASE Writer
    <2>1. ReadersTyped'
        BY <1>3, WriterLeavesReaders DEF SystemTyped, ReadersTyped, readers
    <2>2. (UsageTypeOK /\ IsFiniteSet(usage) /\ ContextInv)'
        <3>1. ASSUME NEW f \in Flows, AskModel(f)
              PROVE  (UsageTypeOK /\ IsFiniteSet(usage) /\ ContextInv)'
            BY <3>1, AskContext
        <3>2. ASSUME NEW f \in Flows, ModelAnswers(f)
              PROVE  (UsageTypeOK /\ IsFiniteSet(usage) /\ ContextInv)'
            <4>1. ModelCall(f) \in Operations /\ f \in Callers /\ Record(f, ModelCall(f))
                  /\ UNCHANGED vars /\ context[f] # NoRun
                BY <3>2, ModelCallTyped, CallersAssumption DEF ModelAnswers
            <4>2. QED  BY <4>1, RecordContext
        <3>3. ASSUME NEW f \in Flows, RunNode(f) \/ CrashFlow(f)
              PROVE  (UsageTypeOK /\ IsFiniteSet(usage) /\ ContextInv)'
            BY <3>3, NodeContext
        <3>4. ASSUME NEW k \in Embedders, EmbedOutside(k)
              PROVE  (UsageTypeOK /\ IsFiniteSet(usage) /\ ContextInv)'
            <4>1. Embeds[k] \in Operations /\ k \in Callers /\ k \notin Flows
                  /\ Record(k, Embeds[k]) /\ UNCHANGED vars
                BY <3>4, EmbedsAssumption, CallersAssumption DEF EmbedOutside, Operations
            <4>2. QED  BY <4>1, RecordContext
        <3>5. QED  BY <1>3, <3>1, <3>2, <3>3, <3>4 DEF Writer
    <2>3. QED  BY <1>1, <2>1, <2>2 DEF SystemTyped
<1>4. CASE UNCHANGED systemVars
    <2>1. \A f \in Flows : ModelCall(f)' = ModelCall(f) /\ RunRowOf(f)' = RunRowOf(f)
        BY <1>4, IdleGraphCalls DEF systemVars
    <2>2. QED
        BY <1>1, <1>4, <2>1 DEF systemVars, usageVars, readers, SystemTyped, UsageTypeOK,
           ContextInv, ReadersTyped
<1>5. QED  BY <1>2, <1>3, <1>4 DEF SystemNext

LEMMA SystemInitTyped == SystemInit => SystemTyped
<1> SUFFICES ASSUME SystemInit PROVE SystemTyped
    OBVIOUS
<1>1. Shapes /\ Tables
    BY InitTyped DEF SystemInit
<1>2. UsageTypeOK /\ IsFiniteSet(usage)
    BY FS_EmptySet DEF SystemInit, UsageInit, UsageTypeOK
<1>3. ContextInv
    BY CallersAssumption DEF SystemInit, UsageInit, ContextInv
<1>4. ReadersTyped
    BY DEF SystemInit, ReadersTyped, NoView, View, NoWalk, Walk
<1>5. QED  BY <1>1, <1>2, <1>3, <1>4 DEF SystemTyped

\* Tables, contexts and views keep their types, and a usage context never outlives
\* the model call it was opened for.
THEOREM SystemTypeCorrect == SystemSpec => []SystemTypeOK
<1>1. SystemTyped => SystemTypeOK
    BY DEF SystemTyped, Shapes, Tables, Path, TypeOK, ContextInv, ReadersTyped, SystemTypeOK
<1>2. QED  BY <1>1, SystemInitTyped, NextSystemTyped, PTL DEF SystemSpec

-----------------------------------------------------------------------------
(* Paging through the usage                                                 *)

\* Of the rows counted on the first page, those newer than the offset were shown.
WalkInv ==
    /\ walk.phase # "none" => walk.counted <= Cardinality(usage)
    /\ walk.phase = "paging" =>
        \A p \in 1 .. walk.counted : p > Cardinality(usage) - walk.offset => p \in walk.seen
    /\ WalkShowsSummary

\* Rows of usage are only ever added.
LEMMA UsageGrows ==
    ASSUME SystemTyped, [SystemNext]_systemVars
    PROVE  /\ Cardinality(usage) \in Nat /\ Cardinality(usage') \in Nat
           /\ Cardinality(usage) <= Cardinality(usage')
<1>1. usage \subseteq usage'
    <2>1. CASE Writer
        <3>1. \A f \in Flows : RunNode(f) \/ CrashFlow(f) => UNCHANGED usage
            BY NodeContext
        <3>2. QED
            BY <2>1, <3>1 DEF Writer, AskModel, OpenContext, ModelAnswers, EmbedOutside, Record
    <2>2. CASE Reader
        BY <2>2, ReaderLeavesTables DEF usageVars
    <2>3. QED  BY <2>1, <2>2 DEF SystemNext, systemVars, usageVars
<1>2. IsFiniteSet(usage) /\ IsFiniteSet(usage')
    BY NextSystemTyped DEF SystemTyped
<1>3. QED  BY <1>1, <1>2, FS_CardinalityType, FS_Subset

LEMMA PageShowsRows ==
    ASSUME SystemTyped, WalkInv, ReadPage
    PROVE  WalkInv'
<1> DEFINE N == Cardinality(usage)
           T == {p \in 1 .. walk.counted : N - walk.offset - PageSize < p /\ p <= N - walk.offset}
<1>1. N \in Nat /\ N' = N
    BY FS_CardinalityType DEF SystemTyped, ReadPage, usageVars
<1>2. walk \in Walk /\ PageSize \in Nat
    BY PageSizeAssumption DEF SystemTyped, ReadersTyped
<1>3. /\ walk.phase = "paging"
      /\ walk' = [walk EXCEPT !.seen = @ \union T, !.offset = @ + PageSize,
                              !.phase = IF N - walk.offset > PageSize THEN "paging" ELSE "done"]
    BY DEF ReadPage
<1>4. /\ walk'.seen = walk.seen \union T
      /\ walk'.offset = walk.offset + PageSize
      /\ walk'.counted = walk.counted
      /\ walk'.phase = IF N - walk.offset > PageSize THEN "paging" ELSE "done"
    BY <1>2, <1>3 DEF Walk
<1>5. walk.counted \in Nat /\ walk.counted <= N /\ walk.offset \in Nat
    BY <1>2, <1>3 DEF WalkInv, Walk
<1>6. \A p \in 1 .. walk.counted : p > N - walk.offset - PageSize => p \in walk'.seen
    <2>1. SUFFICES ASSUME NEW p \in 1 .. walk.counted, p > N - walk.offset - PageSize
                   PROVE  p \in walk'.seen
        OBVIOUS
    <2>2. CASE p > N - walk.offset
        BY <1>3, <1>4, <2>2 DEF WalkInv
    <2>3. CASE p <= N - walk.offset
        <3>1. p \in T
            BY <1>1, <1>2, <1>5, <2>1, <2>3
        <3>2. QED  BY <3>1, <1>4
    <2>4. QED  BY <1>1, <1>5, <2>2, <2>3
<1> HIDE DEF N, T
<1>7. walk'.phase = "done" => 1 .. walk.counted \subseteq walk'.seen
    BY <1>1, <1>2, <1>4, <1>5, <1>6
<1>8. \A p \in 1 .. walk'.counted : p > N - walk'.offset => p \in walk'.seen
    BY <1>1, <1>2, <1>4, <1>5, <1>6
<1>9. QED  BY <1>1, <1>4, <1>5, <1>7, <1>8 DEF N, WalkInv, WalkShowsSummary

LEMMA NextWalkInv ==
    ASSUME SystemTyped, WalkInv, [SystemNext]_systemVars
    PROVE  WalkInv'
<1>1. /\ Cardinality(usage) \in Nat /\ Cardinality(usage') \in Nat
      /\ Cardinality(usage) <= Cardinality(usage')
    BY UsageGrows
<1>2. walk \in Walk
    BY DEF SystemTyped, ReadersTyped
<1>3. CASE walk' = walk
    BY <1>1, <1>2, <1>3 DEF WalkInv, WalkShowsSummary, Walk
<1>4. CASE walk' = NoWalk
    BY <1>4 DEF WalkInv, WalkShowsSummary, NoWalk
<1>5. CASE OpenUsage
    <2>1. walk'.phase = "paging" /\ walk'.counted = Cardinality(usage) /\ walk'.offset = 0
          /\ usage' = usage
        BY <1>5 DEF OpenUsage, NoWalk, usageVars
    <2>2. QED  BY <1>1, <2>1 DEF WalkInv, WalkShowsSummary
<1>6. CASE ReadPage
    BY <1>6, PageShowsRows
<1>7. CASE Reader
    <2>1. ASSUME NEW page, NEW scope, OpenView(page, scope) PROVE walk' = walk
        BY <2>1 DEF OpenView
    <2>2. ReadTable => walk' = walk
        BY DEF ReadTable
    <2>3. Leave => walk' = NoWalk
        BY DEF Leave
    <2>4. QED  BY <1>3, <1>4, <1>5, <1>6, <1>7, <2>1, <2>2, <2>3 DEF Reader
<1>8. CASE Writer \/ UNCHANGED systemVars
    BY <1>3, <1>8, WriterLeavesReaders DEF readers, systemVars
<1>9. QED  BY <1>7, <1>8 DEF SystemNext

\* However many rows are added while an operator pages through the usage, the pages
\* up to the last show every row that the first page's summary counted.
THEOREM PagesShowSummary == SystemSpec => []WalkShowsSummary
<1>1. SystemInit => WalkInv
    BY DEF SystemInit, NoWalk, WalkInv, WalkShowsSummary
<1>2. SystemTyped /\ WalkInv /\ [SystemNext]_systemVars => WalkInv'
    BY NextWalkInv
<1>3. WalkInv => WalkShowsSummary
    BY DEF WalkInv
<1>4. QED  BY <1>1, <1>2, <1>3, SystemInitTyped, NextSystemTyped, PTL DEF SystemSpec

-----------------------------------------------------------------------------
(* The places of the graph, in the system                                   *)

LEMMA NextPlaces ==
    ASSUME SystemTyped, Places, [SystemNext]_systemVars
    PROVE  Places'
<1>1. [Next]_vars
    BY GraphStep
<1>2. CASE Next
    BY <1>2, NodePlaces DEF Next, SystemTyped
<1>3. CASE UNCHANGED vars
    BY <1>3 DEF vars, memory, tables, Places, Place, BranchDone, Plans
<1>4. QED  BY <1>1, <1>2, <1>3

LEMMA InitPlaces == SystemInit => Places
<1> SUFFICES ASSUME SystemInit, NEW f \in Flows PROVE Place(f)
    BY DEF Places
<1>1. pc[f] = "load" /\ state[f].chunks = "none"
    BY DEF SystemInit, Init, FreshState
<1>2. QED  BY <1>1 DEF Place, Asking, Storing

-----------------------------------------------------------------------------
(* Usage rows are truthful                                                  *)

\* What UsageTruthful says of one row.
Truthful(e) ==
    /\ CASE e.caller \in Embedders -> e.run = NoRun
         [] e.caller \in Flows /\ e.operation = "qualification" ->
                e.run = <<"qualification", e.caller>> /\ quals[e.caller] # "none"
         [] e.caller \in Flows /\ e.operation # "qualification" ->
                e.run = <<"orchestration", e.caller>> /\ runs[e.caller] # "none"
    /\ Unknown \notin {e.input, e.output, e.total} => e.total = e.input + e.output
    /\ e.cost # Unknown => Prices[e.operation] # NoPrice /\ e.total # Unknown

\* The same without the case distinction.
TrueRun(e) ==
    /\ e.caller \in Embedders => e.run = NoRun
    /\ e.caller \in Flows /\ e.operation = "qualification" =>
            e.run = <<"qualification", e.caller>> /\ quals[e.caller] # "none"
    /\ e.caller \in Flows /\ e.operation # "qualification" =>
            e.run = <<"orchestration", e.caller>> /\ runs[e.caller] # "none"

TrueCounts(e) ==
    /\ Unknown \notin {e.input, e.output, e.total} => e.total = e.input + e.output
    /\ e.cost # Unknown => Prices[e.operation] # NoPrice /\ e.total # Unknown

TruthInv == \A e \in usage : TrueRun(e) /\ TrueCounts(e)

LEMMA TruthSuffices == UsageTypeOK /\ TruthInv => UsageTruthful
<1> SUFFICES ASSUME UsageTypeOK, TruthInv, NEW e \in usage PROVE Truthful(e)
    BY DEF UsageTruthful, Truthful
<1>1. e.caller \in Flows \/ e.caller \in Embedders
    BY CallersAssumption DEF UsageTypeOK, UsageEvent
<1>2. ~(e.caller \in Flows /\ e.caller \in Embedders)
    BY CallersAssumption
<1>3. TrueRun(e) /\ TrueCounts(e)
    BY DEF TruthInv
<1>4. QED  BY <1>1, <1>2, <1>3 DEF Truthful, TrueRun, TrueCounts

\* A true row stays true: the run it names is never removed.
LEMMA TruthStays ==
    ASSUME SystemTyped, [SystemNext]_systemVars, NEW e \in usage, TrueRun(e), TrueCounts(e)
    PROVE  TrueRun(e)' /\ TrueCounts(e)'
<1>1. \A g \in Flows : /\ runs[g] # "none" => runs'[g] # "none"
                       /\ quals[g] # "none" => quals'[g] # "none"
    <2>1. CASE Next
        BY <2>1, RowsStay, OthersRows DEF Next, SystemTyped
    <2>2. CASE UNCHANGED vars
        BY <2>2 DEF vars, tables
    <2>3. QED  BY <2>1, <2>2, GraphStep
<1>2. QED  BY <1>1 DEF TrueRun, TrueCounts

\* Where an orchestration asks a model, the run that it asks for is stored.
LEMMA RecordTruth ==
    ASSUME SystemTyped, Places, [SystemNext]_systemVars, TruthInv, UNCHANGED vars,
           NEW c \in Callers, NEW op \in Operations, Record(c, op),
           c \in Flows => op = ModelCall(c) /\ context[c] # NoRun
    PROVE  TruthInv'
<1>1. context \in [Callers -> RunRows \union {NoRun}]
    BY DEF SystemTyped, UsageTypeOK
<1>2. CASE UNCHANGED usage
    BY <1>2, TruthStays DEF TruthInv
<1>3. ASSUME NEW e \in UsageEvent, usage' = usage \union {e},
             e.caller = c, e.operation = op, e.run = context[c],
             Unknown \notin {e.input, e.output, e.total} => e.total = e.input + e.output,
             e.cost # Unknown => Prices[op] # NoPrice /\ e.total # Unknown
      PROVE  TruthInv'
    <2>1. CASE c \in Embedders
        <3>1. c \notin Flows /\ context[c] = NoRun
            BY <2>1, CallersAssumption DEF SystemTyped, ContextInv
        <3>2. TrueRun(e)' /\ TrueCounts(e)'
            BY <1>3, <3>1 DEF TrueRun, TrueCounts
        <3>3. QED  BY <1>3, <3>2, TruthStays DEF TruthInv
    <2>2. CASE c \in Flows
        <3>1. context[c] = RunRowOf(c) /\ op = ModelCall(c) /\ Place(c) /\ c \notin Embedders
            BY <2>2, CallersAssumption DEF SystemTyped, ContextInv, Places
        <3>2. op = "qualification" <=> pc[c] = "assess"
            BY <3>1 DEF ModelCall, Operations
        <3>3. pc[c] \in Asking
            BY <3>1 DEF ModelCall, Operations, Asking
        <3>4. runs'[c] # "none" /\ (pc[c] = "assess" => quals'[c] # "none")
            BY <3>1, <3>3 DEF Place, vars, tables
        <3>5. TrueRun(e)' /\ TrueCounts(e)'
            BY <1>3, <3>1, <3>2, <3>4 DEF TrueRun, TrueCounts, RunRowOf
        <3>6. QED  BY <1>3, <3>5, TruthStays DEF TruthInv
    <2>3. QED  BY <2>1, <2>2, CallersAssumption
<1>4. QED  BY <1>1, <1>2, <1>3, RecordRow

LEMMA NextTruthInv ==
    ASSUME SystemTyped, Places, TruthInv, [SystemNext]_systemVars
    PROVE  TruthInv'
<1>1. CASE UNCHANGED usage
    BY <1>1, TruthStays DEF TruthInv
<1>2. ASSUME NEW f \in Flows, ModelAnswers(f) PROVE TruthInv'
    <2>1. ModelCall(f) \in Operations /\ f \in Callers /\ Record(f, ModelCall(f))
          /\ UNCHANGED vars /\ context[f] # NoRun
        BY <1>2, ModelCallTyped, CallersAssumption DEF ModelAnswers
    <2>2. QED  BY <2>1, RecordTruth
<1>3. ASSUME NEW k \in Embedders, EmbedOutside(k) PROVE TruthInv'
    <2>1. Embeds[k] \in Operations /\ k \in Callers /\ k \notin Flows
          /\ Record(k, Embeds[k]) /\ UNCHANGED vars
        BY <1>3, EmbedsAssumption, CallersAssumption DEF EmbedOutside, Operations
    <2>2. QED  BY <2>1, RecordTruth
<1>4. ASSUME NEW f \in Flows, AskModel(f) \/ RunNode(f) \/ CrashFlow(f) PROVE UNCHANGED usage
    BY <1>4, NodeContext DEF AskModel, OpenContext
<1>5. Reader \/ UNCHANGED systemVars => UNCHANGED usage
    BY ReaderLeavesTables DEF systemVars, usageVars
<1>6. QED  BY <1>1, <1>2, <1>3, <1>4, <1>5 DEF SystemNext, Writer

\* However many requests ask models at the same time, each usage row names the run
\* that its call was made for, and that run is stored; what the row says of tokens
\* adds up, and a cost never comes without a price and tokens.
THEOREM UsageIsTruthful == SystemSpec => []UsageTruthful
<1> DEFINE Inv == SystemTyped /\ Places /\ TruthInv
<1>1. SystemInit => Inv
    BY SystemInitTyped, InitPlaces DEF SystemInit, UsageInit, TruthInv
<1>2. Inv /\ [SystemNext]_systemVars => Inv'
    BY NextSystemTyped, NextPlaces, NextTruthInv
<1>3. Inv => UsageTruthful
    BY TruthSuffices DEF SystemTyped
<1>4. QED  BY <1>1, <1>2, <1>3, PTL DEF SystemSpec

-----------------------------------------------------------------------------
(* Completed runs are shown whole                                           *)

\* A view holds completed runs only after it read them, and reads them first.
ViewInv ==
    /\ view.page = "timeline" => view.scope = Flows
    /\ view.read = 0 => view.completed = {}
    /\ view.completed \subseteq view.scope
    /\ \A f \in view.completed : Whole(f)
    /\ CompletedShownWhole

LEMMA RunsFirst ==
    ASSUME NEW page \in Pages, NEW k \in 1 .. Len(ReadOrder[page])
    PROVE  ReadOrder[page][k] = "runs" <=> k = 1
<1>1. /\ ReadOrder["timeline"] = <<"runs", "transitions", "evidence", "actions">>
      /\ ReadOrder["inspection"] = <<"runs", "evidence", "actions">>
    BY DEF ReadOrder
<1>2. CASE page = "timeline"
    <2>1. k \in 1 .. 4
        BY <1>2, OrderLengths
    <2>2. QED  BY <1>1, <1>2, <2>1
<1>3. CASE page = "inspection"
    <2>1. k \in 1 .. 3
        BY <1>3, OrderLengths
    <2>2. QED  BY <1>1, <1>3, <2>1
<1>4. QED  BY <1>2, <1>3 DEF Pages

LEMMA OrderLength == \A page \in Pages : Len(ReadOrder[page]) \in Nat
    BY OrderLengths

\* One more table is shown.
LEMMA ShowsOneMore ==
    ASSUME view \in View, ReadTable, NEW table, Shows(table)'
    PROVE  Shows(table) \/ table = ReadOrder[view.page][view.read + 1]
<1>1. /\ view.read \in Nat /\ view.page \in Pages
      /\ view.read < Len(ReadOrder[view.page]) /\ view' = ReadInto(view)
    BY DEF View, ReadTable
<1>2. view'.page = view.page /\ view'.read = view.read + 1
    BY <1>1, OneRead
<1>3. PICK k \in 1 .. view.read + 1 : ReadOrder[view.page][k] = table
    BY <1>2 DEF Shows
<1>4. k \in 1 .. view.read \/ k = view.read + 1
    BY <1>1
<1>5. view.page # "none"
    BY <1>1 DEF Pages
<1>6. QED  BY <1>1, <1>3, <1>4, <1>5 DEF Shows

\* A read of any table finds the rows of the runs that the view shows completed.
LEMMA ReadTableViewInv ==
    ASSUME SystemTyped, WholeInv, ViewInv, ReadTable
    PROVE  ViewInv'
<1> DEFINE table == ReadOrder[view.page][view.read + 1]
<1>1. view \in View /\ view.page \in Pages /\ view.read \in Nat
      /\ view.scope \in SUBSET Flows /\ view.read < Len(ReadOrder[view.page])
      /\ view' = ReadInto(view)
    BY DEF SystemTyped, ReadersTyped, ReadTable, View
<1>2. view.read + 1 \in 1 .. Len(ReadOrder[view.page])
    BY <1>1, OrderLength
<1>3. /\ view'.page = view.page /\ view'.scope = view.scope
      /\ view'.read = view.read + 1 /\ UNCHANGED vars
    BY <1>1, OneRead DEF ReadTable
<1>4. \A f \in Flows : Whole(f) => Whole(f)'
    BY <1>3 DEF vars, memory, tables, Whole, Plans
<1>5. \A x : Shows(x)' => Shows(x) \/ x = table
    BY <1>1, ShowsOneMore
<1>6. view.read = 0 <=> table = "runs"
    BY <1>1, <1>2, RunsFirst
<1>7. CASE table = "runs"
    <2>1. view'.completed = {f \in view.scope : runs[f] = "completed"}
        BY <1>1, <1>7, OneRead
    <2>2. \A x : Shows(x)' => x = "runs"
        <3>1. view.read = 0
            BY <1>6, <1>7
        <3>2. \A x : ~Shows(x)
            BY <3>1 DEF Shows
        <3>3. QED  BY <1>5, <1>7, <3>2
    <2>3. \A f \in view'.completed : Whole(f)'
        BY <1>1, <1>4, <2>1 DEF WholeInv
    <2>4. CompletedShownWhole'
        BY <2>2 DEF CompletedShownWhole
    <2>5. QED  BY <1>1, <1>3, <2>1, <2>3, <2>4 DEF ViewInv
<1>8. CASE table # "runs"
    <2>1. view'.completed = view.completed
        BY <1>1, <1>8, OneRead
    <2>2. \A f \in view.completed : Whole(f) /\ Whole(f)' /\ f \in view.scope /\ f \in Flows
        BY <1>1, <1>4 DEF ViewInv
    <2>3. ASSUME NEW f \in view.completed, Shows("transitions")' PROVE f \in view'.trails
        <3>1. CASE table = "transitions"
            BY <1>1, <2>2, <3>1, OneRead DEF Whole
        <3>2. CASE table # "transitions"
            <4>1. view'.trails = view.trails
                BY <1>1, <1>8, <3>2, OneRead
            <4>2. Shows("transitions")
                BY <1>5, <2>3, <3>2
            <4>3. QED  BY <4>1, <4>2 DEF ViewInv, CompletedShownWhole
        <3>3. QED  BY <3>1, <3>2
    <2>4. ASSUME NEW f \in view.completed, Shows("evidence")', state[f].chunks = "some"
          PROVE  f \in view'.evidence
        <3>1. CASE table = "evidence"
            BY <1>1, <2>2, <2>4, <3>1, OneRead DEF Whole
        <3>2. CASE table # "evidence"
            <4>1. view'.evidence = view.evidence
                BY <1>1, <1>8, <3>2, OneRead
            <4>2. Shows("evidence")
                BY <1>5, <2>4, <3>2
            <4>3. QED  BY <2>4, <4>1, <4>2 DEF ViewInv, CompletedShownWhole
        <3>3. QED  BY <3>1, <3>2
    <2>5. ASSUME NEW f \in view.completed, Shows("actions")', NEW t \in ActionTypes,
                 Plans(f, t), view.page = "timeline" \/ actions[t] = f
          PROVE  t \in view'.actions
        <3>1. CASE table = "actions"
            <4>1. view'.actions = ShownActions(view)
                BY <1>1, <3>1, OneRead
            <4>2. actions[t] \in Flows
                BY <2>2, <2>5 DEF Whole
            <4>3. actions[t] \in IF view.page = "timeline" THEN Flows ELSE view.scope
                BY <2>2, <2>5, <4>2
            <4>4. QED  BY <4>1, <4>3 DEF ShownActions
        <3>2. CASE table # "actions"
            <4>1. view'.actions = view.actions
                BY <1>1, <1>8, <3>2, OneRead
            <4>2. Shows("actions")
                BY <1>5, <2>5, <3>2
            <4>3. QED  BY <2>5, <4>1, <4>2 DEF ViewInv, CompletedShownWhole
        <3>3. QED  BY <3>1, <3>2
    <2>6. CompletedShownWhole'
        BY <1>3, <2>1, <2>3, <2>4, <2>5 DEF CompletedShownWhole, Plans, vars, memory, tables
    <2>7. QED  BY <1>1, <1>3, <2>1, <2>2, <2>6 DEF ViewInv
<1>9. QED  BY <1>7, <1>8

\* A view that was just opened has read the runs and shows nothing else of them.
LEMMA OpenViewInv ==
    ASSUME WholeInv, NEW page \in Pages, NEW scope \in SUBSET Flows,
           OpenView(page, scope), page = "timeline" => scope = Flows
    PROVE  ViewInv'
<1> DEFINE v == [NoView EXCEPT !.page = page, !.scope = scope]
<1>1. /\ v \in View /\ v.page = page /\ v.scope = scope /\ v.read = 0
      /\ v.read < Len(ReadOrder[page])
    BY Opened
<1>2. view' = ReadInto(v) /\ UNCHANGED vars
    BY DEF OpenView
<1> HIDE DEF v
<1>3. ReadOrder[page][1] = "runs"
    <2>1. 1 \in 1 .. Len(ReadOrder[page])
        BY OrderLengths
    <2>2. QED  BY <2>1, RunsFirst
<1>4. /\ view'.page = page /\ view'.scope = scope /\ view'.read = 1
      /\ view'.completed = {f \in scope : runs[f] = "completed"}
    BY <1>1, <1>2, <1>3, OneRead
<1>5. \A f \in view'.completed : Whole(f)'
    <2>1. \A f \in Flows : Whole(f) => Whole(f)'
        BY <1>2 DEF vars, memory, tables, Whole, Plans
    <2>2. QED  BY <1>4, <2>1 DEF WholeInv
<1>6. \A x : Shows(x)' => x = "runs"
    BY <1>3, <1>4 DEF Shows
<1>7. CompletedShownWhole'
    BY <1>6 DEF CompletedShownWhole
<1>8. QED  BY <1>4, <1>5, <1>7 DEF ViewInv

\* While the view stands, orchestrations only add to what it shows.
LEMMA WriterViewInv ==
    ASSUME SystemTyped, ViewInv, view' = view, [Next]_vars
    PROVE  ViewInv'
<1>1. view.scope \subseteq Flows /\ view.completed \subseteq Flows
    BY DEF SystemTyped, ReadersTyped, View, ViewInv
<1>2. \A f \in view.completed :
        /\ Whole(f)'
        /\ SameBranch(state[f], state'[f]) /\ state'[f].chunks = state[f].chunks
        /\ \A t \in ActionTypes : Plans(f, t) => actions'[t] = actions[t]
    <2>1. CASE Next
        BY <1>1, <2>1, WholeStays DEF Next, SystemTyped, ViewInv
    <2>2. CASE UNCHANGED vars
        BY <2>2 DEF vars, memory, tables, Whole, Plans, SameBranch, ViewInv
    <2>3. QED  BY <2>1, <2>2
<1>3. \A x : Shows(x)' <=> Shows(x)
    BY DEF Shows
<1>4. \A f \in view.completed, t \in ActionTypes :
        Plans(f, t)' => Plans(f, t) /\ actions'[t] = actions[t]
    BY <1>2 DEF Plans, SameBranch
<1>5. CompletedShownWhole'
    BY <1>2, <1>3, <1>4 DEF ViewInv, CompletedShownWhole
<1>6. QED  BY <1>2, <1>5 DEF ViewInv

LEMMA NextViewInv ==
    ASSUME SystemTyped, WholeInv, ViewInv, [SystemNext]_systemVars
    PROVE  ViewInv'
<1>1. [Next]_vars
    BY GraphStep
<1>2. CASE view' = view
    BY <1>1, <1>2, WriterViewInv
<1>3. CASE view' = NoView
    BY <1>3 DEF NoView, ViewInv, CompletedShownWhole, Shows
<1>4. CASE ReadTable
    BY <1>4, ReadTableViewInv
<1>5. ASSUME NEW page \in Pages, NEW scope \in SUBSET Flows, OpenView(page, scope),
             page = "timeline" => scope = Flows
      PROVE  ViewInv'
    BY <1>5, OpenViewInv
<1>6. CASE Reader
    BY <1>2, <1>3, <1>4, <1>5, <1>6 DEF Reader, OpenUsage, ReadPage, Leave, Pages
<1>7. CASE Writer \/ UNCHANGED systemVars
    BY <1>2, <1>7, WriterLeavesReaders DEF readers, systemVars
<1>8. QED  BY <1>6, <1>7 DEF SystemNext

LEMMA NextWholeInv ==
    ASSUME SystemTyped, Places, WholeInv, [SystemNext]_systemVars
    PROVE  WholeInv'
<1>1. CASE Next
    BY <1>1, NodeWholeInv DEF Next, SystemTyped
<1>2. CASE UNCHANGED vars
    BY <1>2 DEF vars, memory, tables, WholeInv, Whole, Plans
<1>3. QED  BY <1>1, <1>2, GraphStep

\* A timeline or an inspection that shows a run completed shows its trail, its
\* evidence and its planned action too, although each table is read at a moment of its
\* own while orchestrations go on, fail and close their runs.
THEOREM CompletedRunsShownWhole == SystemSpec => []CompletedShownWhole
<1> DEFINE Inv == SystemTyped /\ Places /\ WholeInv /\ ViewInv
<1>1. SystemInit => Inv
    <2> SUFFICES ASSUME SystemInit PROVE WholeInv /\ ViewInv
        BY SystemInitTyped, InitPlaces
    <2>1. WholeInv
        BY DEF SystemInit, Init, WholeInv
    <2>2. view.page = "none" /\ view.completed = {}
        BY DEF SystemInit, NoView
    <2>3. QED  BY <2>1, <2>2 DEF ViewInv, CompletedShownWhole
<1>2. Inv /\ [SystemNext]_systemVars => Inv'
    BY NextSystemTyped, NextPlaces, NextWholeInv, NextViewInv
<1>3. Inv => CompletedShownWhole
    BY DEF ViewInv
<1>4. QED  BY <1>1, <1>2, <1>3, PTL DEF SystemSpec

-----------------------------------------------------------------------------
(* The usage accounts for completed runs                                    *)

RowsIn(table, f, op) == {e \in table : e.caller = f /\ e.operation = op}

\* The calls in ops have their row, unless its insert failed; no other call has one.
Ledger(table, missing, f, ops) ==
    \A op \in Operations :
        IF op \in ops
          THEN IF <<f, op>> \in missing THEN RowsIn(table, f, op) = {}
                                        ELSE \E e : RowsIn(table, f, op) = {e}
          ELSE RowsIn(table, f, op) = {} /\ <<f, op>> \notin missing

\* The calls that an orchestration made before the node it is at, and with it.
CallsBefore(n, s, acting) ==
    IF n \in {"load", "create_run", "qualify", "create_qualification", "assess"} THEN {}
    ELSE IF n \in {"save_qualification", "complete_qualification", "route", "branch",
                   "retrieve"} THEN {"qualification"}
    ELSE IF n = "research" THEN {"qualification", "embedding_query"}
    ELSE IF n = "draft" THEN {"qualification", "embedding_query", "research_context"}
    ELSE CallsOf(s, acting)

Made(f) ==
    CallsBefore(pc[f], state[f], f \in Acting)
    \union (IF f \in answered THEN {ModelCall(f)} ELSE {})

Sound(f) ==
    /\ pc[f] \in Working \ {"fail_qualification"} => Ledger(usage, lost, f, Made(f))
    /\ pc[f] \in Storing /\ ~state[f].error
        => Ledger(usage, lost, f, CallsOf(state[f], f \in Acting))
    /\ runs[f] = "completed" => Ledger(usage, lost, f, CallsOf(state[f], f \in Acting))

LedgerInv == \A f \in Flows : Sound(f)

\* A model call is due only at its node, once.
LEMMA CallIsNew ==
    ASSUME NEW f \in Flows, ModelCall(f) # "none"
    PROVE  /\ pc[f] \in Working \ {"fail_qualification"}
           /\ pc[f] \notin Storing \union Closed
           /\ ModelCall(f) \notin CallsBefore(pc[f], state[f], f \in Acting)
<1>1. pc[f] \in {"assess", "retrieve", "research", "draft"}
    BY DEF ModelCall
<1>2. /\ pc[f] \in Working \ {"fail_qualification"}
      /\ pc[f] \notin Storing \union Closed
    BY <1>1 DEF Working, Storing, Closed
<1>3. ModelCall(f) \notin CallsBefore(pc[f], state[f], f \in Acting)
    BY <1>1 DEF ModelCall, CallsBefore
<1>4. QED  BY <1>2, <1>3

\* Two states with the same branch and chunks imply the same calls.
LEMMA CallsOfSame ==
    ASSUME NEW s, NEW t, NEW a, SameBranch(s, t), t.chunks = s.chunks
    PROVE  CallsOf(t, a) = CallsOf(s, a)
    BY DEF SameBranch, CallsOf

\* A call of another request leaves the ledger of f alone.
LEMMA LedgerOfOthers ==
    ASSUME NEW u, NEW l, NEW v, NEW k, NEW f, NEW ops, NEW c, NEW op, c # f,
           \/ v = u /\ k = l \union {<<c, op>>}
           \/ (\E e : e.caller = c /\ v = u \union {e}) /\ k = l
    PROVE  Ledger(u, l, f, ops) => Ledger(v, k, f, ops)
<1>1. \A o : RowsIn(v, f, o) = RowsIn(u, f, o)
    BY DEF RowsIn
<1>2. \A o : <<f, o>> \in k <=> <<f, o>> \in l
    OBVIOUS
<1>3. QED  BY <1>1, <1>2 DEF Ledger

\* A first answer to a call of f is entered in its ledger.
LEMMA LedgerOfCaller ==
    ASSUME NEW u, NEW l, NEW v, NEW k, NEW f, NEW ops, NEW op \in Operations, op \notin ops,
           \/ v = u /\ k = l \union {<<f, op>>}
           \/ (\E e : e.caller = f /\ e.operation = op /\ v = u \union {e}) /\ k = l,
           Ledger(u, l, f, ops)
    PROVE  Ledger(v, k, f, ops \union {op})
<1>1. RowsIn(u, f, op) = {} /\ <<f, op>> \notin l
    BY DEF Ledger
<1>2. \A o \in Operations : o # op =>
        RowsIn(v, f, o) = RowsIn(u, f, o) /\ (<<f, o>> \in k <=> <<f, o>> \in l)
    BY DEF RowsIn
<1>3. CASE v = u /\ k = l \union {<<f, op>>}
    BY <1>1, <1>2, <1>3 DEF Ledger
<1>4. CASE (\E e : e.caller = f /\ e.operation = op /\ v = u \union {e}) /\ k = l
    <2>1. PICK e : e.caller = f /\ e.operation = op /\ v = u \union {e}
        BY <1>4
    <2>2. RowsIn(v, f, op) = {e}
        BY <1>1, <2>1 DEF RowsIn
    <2>3. QED  BY <1>1, <1>2, <1>4, <2>2 DEF Ledger
<1>5. QED  BY <1>3, <1>4

LEMMA RecordLedger ==
    ASSUME SystemTyped, WholeInv, LedgerInv, UNCHANGED vars,
           NEW c \in Callers, NEW op \in Operations, Record(c, op),
           c \in Flows => op = ModelCall(c)
    PROVE  LedgerInv'
<1> SUFFICES ASSUME NEW f \in Flows PROVE Sound(f)'
    BY DEF LedgerInv
<1>0. op # "none"
    BY DEF Operations
<1>1. /\ answered' = answered \union {c} /\ c \notin answered
      /\ \/ usage' = usage /\ lost' = lost \union {<<c, op>>}
         \/ /\ \E e : e.caller = c /\ e.operation = op /\ usage' = usage \union {e}
            /\ lost' = lost
    BY RecordRow DEF Record, SystemTyped, UsageTypeOK
<1>2. /\ pc'[f] = pc[f] /\ state'[f] = state[f] /\ runs'[f] = runs[f]
      /\ ModelCall(f)' = ModelCall(f)
    BY IdleGraphCalls DEF vars, memory, tables
<1>3. CASE c # f
    <2>1. Made(f)' = Made(f)
        BY <1>1, <1>2, <1>3 DEF Made
    <2>2. \A ops : Ledger(usage, lost, f, ops) => Ledger(usage', lost', f, ops)
        BY <1>1, <1>3, LedgerOfOthers
    <2>3. QED  BY <1>2, <2>1, <2>2 DEF LedgerInv, Sound
<1>4. CASE c = f
    <2>1. /\ pc[f] \in Working \ {"fail_qualification"}
          /\ pc[f] \notin Storing \union Closed
          /\ op \notin CallsBefore(pc[f], state[f], f \in Acting)
        BY <1>0, <1>4, CallIsNew
    <2>2. runs[f] # "completed"
        BY <2>1 DEF WholeInv, Whole
    <2> DEFINE before == CallsBefore(pc[f], state[f], f \in Acting)
    <2>3. Made(f) = before /\ Made(f)' = before \union {op}
        BY <1>1, <1>2, <1>4 DEF Made
    <2>4. Ledger(usage, lost, f, before)
        BY <2>1, <2>3 DEF LedgerInv, Sound
    <2>5. op \notin before
        BY <2>1
    <2> HIDE DEF before
    <2>6. Ledger(usage', lost', f, before \union {op})
        BY <1>1, <1>4, <2>4, <2>5, LedgerOfCaller
    <2>7. QED  BY <1>2, <2>1, <2>2, <2>3, <2>6 DEF Sound
<1>5. QED  BY <1>3, <1>4

\* Where a model is asked, a fault is a failed call, and fails the node.
LEMMA FaultFails ==
    ASSUME Shapes, Tables, NEW f \in Flows, Node(f), ModelCall(f) # "none", faults' # faults
    PROVE  pc'[f] = "fail_qualification" \/ (pc'[f] = "persist" /\ state'[f].error)
<1>1. pc[f] \in {"assess", "retrieve", "research", "draft"}
    BY DEF ModelCall
<1>2. Assess(f) \/ RetrieveKnowledge(f) \/ BuildResearchContext(f) \/ DraftOutreachEmail(f)
    BY <1>1 DEF Node, Load, CreateRun, Qualify, CreateQualification, SaveQualification,
       CompleteQualification, FailQualification, RouteByClassification, Branch,
       RequestExternalAction, Persist, StoreEvidence, StoreTrail, CloseRun, GiveUp
<1>3. \/ Continue(f, state[f], "fail_qualification")
      \/ \E step \in Steps : Continue(f, Failed(state[f], step), "persist")
    BY <1>2 DEF Assess, RetrieveKnowledge, BuildResearchContext, DraftOutreachEmail, Refuse,
       NodeFails, Done, Steps
<1>4. \A step \in Steps : Failed(state[f], step).error
    BY FailedTyped DEF Shapes
<1>5. QED  BY <1>3, <1>4, ContinueStep

\* A node that worked took along its model's answer.
LEMMA WorksLedger ==
    ASSUME SystemTyped, Places, LedgerInv, NEW f \in Flows, RunNode(f),
           Works(f, pc[f], state[f], pc'[f], state'[f]),
           pc'[f] # "fail_qualification", pc'[f] = "persist" => ~state'[f].error
    PROVE  Made(f) = CallsBefore(pc'[f], state'[f], f \in Acting)
<1> DEFINE n == pc[f]  s == state[f]  m == pc'[f]  t == state'[f]
<1>1. Place(f) /\ Node(f)
    BY DEF Places, RunNode
<1>2. ModelCall(f) # "none" => f \in answered
    BY <1>1, FaultFails DEF RunNode, SystemTyped
<1>3. ModelCall(f) = "none" => f \notin answered
    BY DEF SystemTyped, ContextInv
<1>4. Made(f) = CallsBefore(n, s, f \in Acting)
                \union (IF ModelCall(f) = "none" THEN {} ELSE {ModelCall(f)})
    BY <1>2, <1>3 DEF Made
<1>5. CASE n \in {"load", "create_run", "qualify", "create_qualification"}
    <2>1. ModelCall(f) = "none"
        BY <1>5 DEF ModelCall
    <2>2. m \in {"create_run", "qualify", "create_qualification", "assess"}
        BY <1>5 DEF Works
    <2>3. QED  BY <1>4, <1>5, <2>1, <2>2 DEF CallsBefore
<1>6. CASE n = "assess"
    <2>1. ModelCall(f) = "qualification" /\ m = "save_qualification"
        BY <1>6 DEF ModelCall, Works
    <2>2. QED  BY <1>4, <1>6, <2>1 DEF CallsBefore
<1>7. CASE n \in {"save_qualification", "complete_qualification", "route"}
    <2>1. ModelCall(f) = "none"
        BY <1>7 DEF ModelCall
    <2>2. m \in {"complete_qualification", "route", "branch"}
        BY <1>7 DEF Works
    <2>3. QED  BY <1>4, <1>7, <2>1, <2>2 DEF CallsBefore
<1>8. CASE n = "branch"
    <2>1. ModelCall(f) = "none"
        BY <1>8 DEF ModelCall
    <2>2. m = AfterBranch(f) /\ t.class = s.class
        BY <1>8 DEF Works, SameBranch
    <2>3. s.class \in Classes /\ s.route = RouteOf[s.class]
        BY <1>8 DEF SystemTyped, Shapes, Shape, Assessed, Routed
    <2>4. CASE s.class = "HOT"
        <3>1. m = "retrieve"
            BY <2>2, <2>3, <2>4 DEF AfterBranch, RouteOf
        <3>2. QED  BY <1>4, <1>8, <2>1, <3>1 DEF CallsBefore
    <2>5. CASE s.class # "HOT"
        <3>1. m \in {"request", "persist"}
            BY <2>2, <2>3, <2>5 DEF AfterBranch, RouteOf, Classes
        <3>2. CallsOf(t, f \in Acting) = {"qualification"}
            BY <2>2, <2>5 DEF CallsOf
        <3>3. QED  BY <1>4, <1>8, <2>1, <3>1, <3>2 DEF CallsBefore
    <2>6. QED  BY <2>4, <2>5
<1>9. CASE n = "retrieve"
    <2>1. ModelCall(f) = "embedding_query" /\ m = "research"
        BY <1>9 DEF ModelCall, Works
    <2>2. QED  BY <1>4, <1>9, <2>1 DEF CallsBefore
<1>10. CASE n = "research"
    <2>1. s.class = "HOT" /\ s.chunks \in {"empty", "some"}
        BY <1>1, <1>10 DEF Place
    <2>2. t.class = "HOT" /\ t.chunks = s.chunks
        BY <1>10, <2>1 DEF Works, SameBranch
    <2>3. m = IF s.chunks = "some" /\ f \in Acting THEN "draft" ELSE "persist"
        BY <1>10, <2>1 DEF Works
    <2>4. ModelCall(f) = IF s.chunks = "some" THEN "research_context" ELSE "none"
        BY <1>10, <2>1 DEF ModelCall
    <2>5. QED  BY <1>4, <1>10, <2>1, <2>2, <2>3, <2>4 DEF CallsBefore, CallsOf
<1>11. CASE n = "draft"
    <2>1. s.class = "HOT" /\ s.chunks = "some" /\ f \in Acting
        BY <1>1, <1>11 DEF Place
    <2>2. t.class = "HOT" /\ t.chunks = "some" /\ m = "request" /\ Grounded(s)
        BY <1>11, <2>1 DEF Works, SameBranch
    <2>3. ModelCall(f) = "email_draft"
        BY <1>11, <2>2 DEF ModelCall
    <2>4. QED  BY <1>4, <1>11, <2>1, <2>2, <2>3 DEF CallsBefore, CallsOf
<1>12. CASE n = "request"
    <2>1. ModelCall(f) = "none"
        BY <1>12 DEF ModelCall
    <2>2. m = "persist" /\ SameBranch(s, t) /\ t.chunks = s.chunks
        BY <1>12 DEF Works
    <2>3. QED  BY <1>4, <1>12, <2>1, <2>2, CallsOfSame DEF CallsBefore
<1>13. QED
    BY <1>5, <1>6, <1>7, <1>8, <1>9, <1>10, <1>11, <1>12 DEF Works

\* Of a run that is called completed, nothing is at a node that works any more.
LEMMA CompletedAtClose ==
    ASSUME SystemTyped, WholeInv, NEW f \in Flows, Node(f) \/ Crash(f),
           runs'[f] = "completed"
    PROVE  /\ runs[f] # "completed" => pc[f] = "close" /\ ~state[f].error
           /\ pc[f] \notin Working
<1>1. CASE runs[f] = "completed"
    BY <1>1 DEF WholeInv, Whole, Closed, Working
<1>2. CASE runs[f] # "completed"
    <2>1. pc[f] = "close" /\ ~state[f].error
        BY <1>2, OnlyCloseCompletes DEF SystemTyped
    <2>2. QED  BY <2>1, <1>2 DEF Working
<1>3. QED  BY <1>1, <1>2

LEMMA NodeLedger ==
    ASSUME SystemTyped, Places, WholeInv, LedgerInv, NEW f \in Flows, RunNode(f) \/ CrashFlow(f)
    PROVE  LedgerInv'
<1>1. Node(f) \/ Crash(f)
    BY DEF RunNode, CrashFlow
<1>2. /\ usage' = usage /\ lost' = lost /\ f \notin answered'
      /\ \A c \in Callers : c # f => (c \in answered' <=> c \in answered)
    BY NodeContext
<1>3. ASSUME NEW g \in Flows \ {f} PROVE Sound(g)'
    <2>1. pc'[g] = pc[g] /\ state'[g] = state[g] /\ runs'[g] = runs[g]
        BY <1>1, OthersRows DEF SystemTyped
    <2>2. ModelCall(g)' = ModelCall(g)
        BY <1>1, OtherCalls DEF SystemTyped
    <2>3. g \in answered' <=> g \in answered
        BY <1>2, CallersAssumption
    <2>4. Made(g)' = Made(g)
        BY <2>1, <2>2, <2>3 DEF Made
    <2>5. QED  BY <1>2, <2>1, <2>4 DEF LedgerInv, Sound
<1>4. Sound(f)'
    <2> DEFINE calls == CallsOf(state[f], f \in Acting)
               callsAfter == CallsOf(state'[f], f \in Acting)
    <2>1. Sound(f)
        BY DEF LedgerInv
    <2>2. CASE Works(f, pc[f], state[f], pc'[f], state'[f])
        <3>1. pc[f] \in Working \ {"fail_qualification"}
            BY <2>2 DEF Works, Working
        <3>2. runs'[f] # "completed"
            BY <1>1, <3>1, CompletedAtClose
        <3>3. RunNode(f)
            <4>1. pc'[f] # "crashed"
                BY <2>2 DEF Works, AfterBranch
            <4>2. ~Crash(f)
                BY <4>1, ContinueStep DEF Crash, SystemTyped
            <4>3. QED  BY <4>2 DEF CrashFlow
        <3>4. Made(f)' = CallsBefore(pc'[f], state'[f], f \in Acting)
            BY <1>2 DEF Made
        <3>5. CASE pc'[f] = "fail_qualification"
            BY <3>2, <3>5 DEF Sound, Storing
        <3>6. CASE pc'[f] = "persist" /\ state'[f].error
            BY <3>2, <3>6 DEF Sound, Working
        <3>7. CASE pc'[f] # "fail_qualification" /\ (pc'[f] = "persist" => ~state'[f].error)
            <4>1. Made(f) = CallsBefore(pc'[f], state'[f], f \in Acting)
                BY <2>2, <3>3, <3>7, WorksLedger
            <4>2. Ledger(usage', lost', f, CallsBefore(pc'[f], state'[f], f \in Acting))
                BY <1>2, <2>1, <3>1, <4>1 DEF Sound
            <4>3. pc'[f] \in Storing => pc'[f] = "persist"
                BY <2>2 DEF Works, AfterBranch, Storing
            <4>4. pc'[f] = "persist" =>
                    CallsBefore(pc'[f], state'[f], f \in Acting) = callsAfter
                BY DEF CallsBefore
            <4>5. QED  BY <3>2, <3>4, <4>2, <4>3, <4>4 DEF Sound
        <3>8. QED  BY <3>5, <3>6, <3>7
    <2>3. CASE Ends(f, pc[f], state[f], pc'[f], state'[f])
        <3>1. callsAfter = calls
            BY <2>3, CallsOfSame DEF Ends
        <3>2. pc'[f] \notin Working
            BY <2>3 DEF Ends, Working
        <3>3. pc'[f] \in Storing /\ ~state'[f].error =>
                pc[f] \in Storing /\ ~state[f].error
            BY <2>3 DEF Ends, Storing
        <3>4. runs'[f] = "completed" => Ledger(usage, lost, f, calls)
            <4>1. CASE runs[f] = "completed"
                BY <2>1, <4>1 DEF Sound
            <4>2. CASE runs[f] # "completed" /\ runs'[f] = "completed"
                BY <1>1, <2>1, <4>2, CompletedAtClose DEF Sound, Storing
            <4>3. QED  BY <4>1, <4>2
        <3> HIDE DEF calls, callsAfter
        <3>5. pc'[f] \in Storing /\ ~state'[f].error => Ledger(usage, lost, f, calls)
            BY <2>1, <3>3 DEF Sound, calls
        <3>6. QED  BY <1>2, <3>1, <3>2, <3>4, <3>5 DEF Sound, callsAfter
    <2>4. CASE pc[f] \in Working /\ pc'[f] = "persist" /\ state'[f].error
        <3>1. runs'[f] # "completed"
            BY <1>1, <2>4, CompletedAtClose
        <3>2. QED  BY <2>4, <3>1 DEF Sound, Working
    <2>5. QED  BY <1>1, <2>2, <2>3, <2>4, EveryStep DEF StepOf, SystemTyped
<1>5. QED  BY <1>3, <1>4 DEF LedgerInv

LEMMA NextLedger ==
    ASSUME SystemTyped, Places, WholeInv, LedgerInv, [SystemNext]_systemVars
    PROVE  LedgerInv'
<1>1. ASSUME UNCHANGED <<vars, answered, usage, lost>> PROVE LedgerInv'
    <2>1. \A f \in Flows : ModelCall(f)' = ModelCall(f)
        BY <1>1, IdleGraphCalls
    <2>2. \A f \in Flows : Made(f)' = Made(f)
        BY <1>1, <2>1 DEF Made, vars, memory
    <2>3. QED  BY <1>1, <2>2 DEF LedgerInv, Sound, vars, memory, tables
<1>2. ASSUME NEW f \in Flows, ModelAnswers(f) PROVE LedgerInv'
    <2>1. ModelCall(f) \in Operations /\ f \in Callers /\ Record(f, ModelCall(f))
          /\ UNCHANGED vars
        BY <1>2, ModelCallTyped, CallersAssumption DEF ModelAnswers
    <2>2. QED  BY <2>1, RecordLedger
<1>3. ASSUME NEW k \in Embedders, EmbedOutside(k) PROVE LedgerInv'
    <2>1. Embeds[k] \in Operations /\ k \in Callers /\ k \notin Flows
          /\ Record(k, Embeds[k]) /\ UNCHANGED vars
        BY <1>3, EmbedsAssumption, CallersAssumption DEF EmbedOutside, Operations
    <2>2. QED  BY <2>1, RecordLedger
<1>4. ASSUME NEW f \in Flows, AskModel(f) PROVE LedgerInv'
    BY <1>1, <1>4 DEF AskModel, OpenContext
<1>5. ASSUME NEW f \in Flows, RunNode(f) \/ CrashFlow(f) PROVE LedgerInv'
    BY <1>5, NodeLedger
<1>6. CASE Reader \/ UNCHANGED systemVars
    BY <1>1, <1>6, ReaderLeavesTables DEF systemVars, usageVars
<1>7. QED  BY <1>2, <1>3, <1>4, <1>5, <1>6 DEF SystemNext, Writer

\* What the invariant says of a completed run, in numbers of rows.
LEMMA LedgerCounts ==
    ASSUME NEW f \in Flows, NEW ops, Ledger(usage, lost, f, ops), NEW op \in Operations
    PROVE  IF op \in ops
             THEN Cardinality(RowsIn(usage, f, op)) = IF <<f, op>> \in lost THEN 0 ELSE 1
             ELSE RowsIn(usage, f, op) = {}
<1>1. CASE op \in ops /\ <<f, op>> \in lost
    <2>1. RowsIn(usage, f, op) = {}
        BY <1>1 DEF Ledger
    <2>2. QED  BY <1>1, <2>1, FS_EmptySet
<1>2. CASE op \in ops /\ <<f, op>> \notin lost
    <2>1. PICK e : RowsIn(usage, f, op) = {e}
        BY <1>2 DEF Ledger
    <2>2. QED  BY <1>2, <2>1, FS_Singleton
<1>3. CASE op \notin ops
    BY <1>3 DEF Ledger
<1>4. QED  BY <1>1, <1>2, <1>3

\* A completed run has exactly the usage rows of the calls its class implies, one for
\* each call whose insert did not fail, however its nodes, other requests and their
\* faults are interleaved: no call is billed twice, and none goes unseen in silence.
THEOREM UsageAccounts == SystemSpec => []UsageAccountsForRuns
<1> DEFINE Inv == SystemTyped /\ Places /\ WholeInv /\ LedgerInv
<1>1. SystemInit => Inv
    <2> SUFFICES ASSUME SystemInit PROVE WholeInv /\ LedgerInv
        BY SystemInitTyped, InitPlaces
    <2>1. WholeInv
        BY DEF SystemInit, Init, WholeInv
    <2>2. ASSUME NEW f \in Flows PROVE Sound(f)
        <3>1. pc[f] = "load" /\ runs[f] = "none" /\ usage = {} /\ lost = {} /\ answered = {}
            BY DEF SystemInit, Init, UsageInit
        <3>2. Made(f) = {}
            BY <3>1 DEF Made, CallsBefore
        <3>3. Ledger(usage, lost, f, {})
            BY <3>1 DEF Ledger, RowsIn
        <3>4. QED  BY <3>1, <3>2, <3>3 DEF Sound, Storing
    <2>3. QED  BY <2>1, <2>2 DEF LedgerInv
<1>2. Inv /\ [SystemNext]_systemVars => Inv'
    BY NextSystemTyped, NextPlaces, NextWholeInv, NextLedger
<1>3. Inv => UsageAccountsForRuns
    <2> SUFFICES ASSUME Inv, NEW f \in Flows, runs[f] = "completed", NEW op \in Operations
                 PROVE  LET rows == RowsIn(usage, f, op) IN
                        IF op \in CallsOf(state[f], f \in Acting)
                          THEN Cardinality(rows) = IF <<f, op>> \in lost THEN 0 ELSE 1
                          ELSE rows = {}
        BY DEF UsageAccountsForRuns, RowsIn
    <2>1. Ledger(usage, lost, f, CallsOf(state[f], f \in Acting))
        BY DEF LedgerInv, Sound
    <2> DEFINE ops == CallsOf(state[f], f \in Acting)
    <2> HIDE DEF ops
    <2>2. Ledger(usage, lost, f, ops)
        BY <2>1 DEF ops
    <2>3. QED  BY <2>2, LedgerCounts DEF ops
<1>4. QED  BY <1>1, <1>2, <1>3, PTL DEF SystemSpec
=============================================================================
