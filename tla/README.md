# GTM AgentOS: a TLA+ verification project

This directory models GTM AgentOS, the FastAPI backend in `src/`, in TLA+. The
modules follow the code handler by handler; TLC checks them on small instances and
TLAPS proves the central invariants for every value of the constants.
`PROJECT.json` maps each definition to the lines it stands for and lists components,
runs, hazards, findings and theorems.

## 1. The system

| component | state it keeps | operations | talks to |
|---|---|---|---|
| Lead ingestion (`lead_service.py`, `lead_repository.py`) | `leads`, unique on `external_id` and on lower(email)+company | `ingest` = find, create, update | database |
| Qualification (`qualification_service.py`) | an `agent_runs` row of its own; the class columns of the lead | `qualify` | lead ingestion, LLM |
| Orchestration (`agent_orchestration_service.py`, `agents/`) | `AgentState` in memory; `agent_runs`, `agent_state_transitions` | `orchestrate`, a compiled graph of 10 nodes | all services below and above |
| Knowledge (`knowledge_ingestion_service.py`, `chunking_service.py`, `retrieval_service.py`) | `knowledge_documents`, `knowledge_chunks`, `rag_retrievals` | `ingest`, `search`, storing evidence | embedding provider, orchestration |
| External actions (`external_action_service.py`, `integrations/n8n.py`) | `external_actions` (a status machine), `external_action_events` (append-only audit) | `request_action`, `approve`, `reject`, `process_callback` | operators, n8n (signed webhooks both ways) |
| MCP tools (`mcp/`) | `tool_calls` audit rows | `tools/call` on six read-only tools | MCP clients over stdio |
| AI usage (`ai_usage_service.py`, `ai_pricing.py`) | `ai_usage_events`; a usage context per request, naming a run | `context` around a call, best-effort `record` of an answer with its tokens and cost | LLM and embedding adapters |
| Operator auth, webhook signing | none stored; clocks and secrets | session tokens, HMAC windows | operators, n8n |
| Observability (`observability_service.py`) | none of its own | overview, lists, lead timeline, run inspection, usage pages, each from several reads | every table |

Handlers run in a thread pool (sync routes) and share nothing but the database. There
are no transactions across statements: each Supabase call commits alone, and all
coordination is done by conditional updates, unique indexes, upserts and foreign keys.
So the hard behaviours are all of one kind, in several dresses:

* interleavings between the statements of two handlers (approvals racing, duplicate
  leads, orchestrations of one lead, rollback against retrieval);
* a handler that ends between two statements: a crash, a failed call, or a call that
  was applied and whose answer was lost;
* n8n: a POST that times out although the workflow runs on, a second attempt of the
  same POST, callbacks that come early, late or twice;
* state read before an external call and used after it;
* views put together from several reads while the tables grow and runs close.

Correctness per component:

* **External actions**: nothing reaches n8n without an approval and its audit event;
  one dispatch per approval; completed means the provider was called; rejected and
  completed are final; the audit trail neither lies nor, without faults, omits; nothing
  stays executing.
* **Leads**: no interleaving creates two leads for one request; a racing ingest never
  fails.
* **Orchestration**: a completed run is backed by trail, qualification, evidence and
  action; a trail can be put in order; client and database agree on the outcome;
  actions rest on the evidence and class of the orchestration that planned them.
* **Knowledge**: rollback never takes evidence away and leaves nothing behind silently;
  each chunk has its own embedding; the chunks lose no word, and only a document too long
  for one batch is refused.
* **AI usage**: requests that ask models at the same time never bill each other's runs;
  a completed run has exactly the rows its class implies, less those whose insert failed;
  no count or cost is invented.
* **Observability**: what is shown as completed is shown whole; a walk through the pages
  misses nothing the summary counted.
* **MCP**: one audit row per answered call, saying what the answer says; refused calls
  read nothing.

The hazards these properties are for are listed, each at its line, in `PROJECT.json`.

## 2. Modules

| module | models | extends |
|---|---|---|
| `ActionStore` | the row of one external action, its events, every conditional update | |
| `ExternalActions` | all handlers on that row, the two-attempt dispatch, n8n, faults | `ActionStore` |
| `ApprovedExecution` | abstract: what the approval gate promises | |
| `AuditedRun` | abstract: what an orchestration promises its client and its auditors | |
| `CitedKnowledge` | abstract: what the knowledge base promises publishers and readers | |
| `LeadIngestion` | `LeadService.ingest` over the two unique indexes | |
| `AgentGraph` | the orchestration graph with the qualification inside it | |
| `KnowledgeIngestion` | ingest, rollback, search, evidence | |
| `Chunking` | the loop that cuts a document, and the limit of an embedding batch | |
| `AIUsage` | usage contexts, recording, token counts and costs | |
| `Observability` | the orchestrations with their model calls recorded, beside an operator's views | `AgentGraph`, `AIUsage` |
| `ToolExecution` | MCP boundary, execution service, audit | |
| `MC...` | instances for TLC: model values and symmetry sets | the module checked |
| `...Proofs` | theorems: `DispatchProofs` extends `ExternalActionsProofs`, `ObservabilityProofs` extends `AgentGraphProofs`, and one for each other component | the module proved |

Each module keeps its properties at its end, and with them the instance of the abstract
module it implements (`Gate`, `Run`, `Base`). Definitions marked "Faulty variant" are
plausible bugs; no specification uses them. Each is put in place of the definition
it varies to see that a property notices.

### ExternalActions

Rows of different idempotency keys never meet in one statement, so the model follows
one row. A handler is a record with a control state; each database call, audit insert
and HTTP exchange is one step. `Abort` ends any handler between two steps, which covers
crashes, failed calls (raised to the client) and applied calls with a lost answer.
`round` and `started` are history: which approval an event or a dispatch belongs to.

n8n runs one workflow per POST. It may fail before its callback, refuse the type (400),
or call the provider and send a callback, whose response decides how it answers its own
POST. Answers of 5xx, timeouts and lost connections are the same to the dispatcher: no
answer. `EarlyAck` adds a workflow that answers before it calls back, as the dispatchers
in the tests do; the exported workflow has `EarlyAck = FALSE`. Status "failed" is in the
callback schema although the exported workflow only sends "completed".

Left out: the `result` column, metadata sanitizing, the HMAC, the case of no configured
dispatcher, and the request's checks of lead, run and payload. These precede all state, so
the module starts with a request that passed them; what a refused one does to its
orchestration is in `AgentGraph`.
The callback route is an `async def` that calls the synchronous service, so one worker
handles callbacks one at a time; the runs have one callback handler.

### LeadIngestion

A request is an external id, or none, with a contact (lower-cased email and company).
Other columns identify nothing. Leads are never deleted. `Abort` is a crash or a failed
or unanswered call. The CRM may give an external id to a second contact at any time;
`ContactsStable` says of the requests sent so far that it has not, and `IngestNeverFails`
promises exactly that long that no request is refused and no lead is overwritten with
another contact on the strength of a stale lookup. `moved` remembers the overwritten leads.

### AgentGraph

Every call inside a node is a step that may fail, a write also after it was applied.
Both ingests of an orchestration end at one lead; that this is so as long as external ids
stay with their contacts is the theorem `IngestsAgree` of `LeadIngestion`.
`request_external_action` is reduced to the payload check and create-or-get under the key of
lead and type; `ExternalActions` has what follows. Two nodes refuse their data without any
call failing. A contact's name may have 200 characters, and so may a task's title, but the
title of a WARM lead's task is "Follow up with" and the name: `LongNamed` are the
orchestrations whose name is too long for it, and `PayloadFits` is the check. And the research
text of the model may be the very text that stands for missing evidence, which the graph
passes on to the draft node and that node refuses. Other payloads always fit: the parts of an
email are validated against the same limits before, in the model's answer. AI-usage recording swallows its failures and is added
in `Observability`. A trail is kept in insert order, though its rows share one `created_at`.
`Acting` are orchestrations whose service has external actions configured.

`RunSpec` says that the graph implements `AuditedRun`: the runs' rows are its `status`, a run
is `known` once its orchestration has the id, `backed` when all it would claim is stored
(`Backing`), and the `answer` is what the client was told (`Told`). An error needs a cause,
a failed call or an orchestration that is `unfit` (`Unfit`: its data is one of the two above);
and an unfit orchestration never gets a result.

### KnowledgeIngestion

An embedding is known by the position of the text it was made from; the provider is
trusted to label its items with the right index, in any order. Which chunks match a
query is open. Provider failures are unlimited, database failures count as faults.

`BaseSpec` says that it implements `CitedKnowledge`. The `Status` of a document joins what
its publisher was told with what readers find: absent, shown before anyone was told, served,
gone, or kept although its publisher was told that it failed.

### Chunking

A step is an iteration of the loop in `TextChunker.chunk`, a window a pair of positions;
words are only counted. `Documents` pairs lengths with configurations the constructor
accepts. The last step is the size check of `embed_batch` with `MaxTexts` = 1000. In the
default configuration (160 words, overlap 24) a batch holds 136,024 words; a request of
at most 100,000 characters has at most 50,000, so only configurations whose windows
advance by fewer words can meet the refusal.

### AIUsage and Observability

`AIUsage` has the service: the context variable, one value per request; `Record`, which
stores an answer or loses its row without telling the caller; and the count and price
rules as operators. Counts may be missing, negative or known for one direction only, and
a model may have no price. An insert that is stored although its reply is lost counts as
stored. Each run belongs to one lead, so the context names the run only.

`Observability` composes it with `AgentGraph`. A node that asks a model becomes three
steps: the context opens (`AskModel`), the answer is recorded (`ModelAnswers`), and the
node ends (`RunNode`), when it may still fail on what was answered. `CrashFlow` closes the
context on the way. Requests outside every run embed documents or queries
(`EmbedOutside`). Writers run beside one reader, who opens a timeline, an inspection or
the usage pages and reads one table per step, the first with the opening. A walk remembers
which of the rows its summary counted it has shown. The lead history of the MCP tools is the
first half of the timeline. Rows of usage are known by the order of their inserts, so two
rows that share a `created_at` are taken to keep that order between two pages.

Left out: the lead's header row, tool calls and action events in a view, the overview and
the lists, what a row displays, a record's own validation errors, and answers that the
provider's client fails to parse, which are billed but never reach the service. A failed
read makes the whole page an error, which is the step `Leave`.

### ToolExecution

A call names a tool, has valid arguments or not, and names a lead or run that is stored,
missing, or none. Calls share no state, since all tools only read. Handlers may fail in any way.

## 3. Model checking

| run | asks | instance | distinct states |
|---|---|---|---|
| `ea_stale` | `RowConsistency`, `OneDispatchPerApproval`, `CompletedMeansEffected`, `SettledRowFrozen` | 2 approvers, early answers, failed callbacks, 2 approvals, 2 deliveries | 2,257,949 |
| `ea_faults` | `TypeOK`, `NoEffectWithoutApproval`, `NoUnauditedDispatch`, `AuditTruthful`, `AuditComplete`, `GateSpec` (refinement) | 2 approvers, 1 rejecter, 1 abort anywhere | 1,485,414 |
| `ea_settles` | `AcceptedMeansSettled`, `NoneAbandoned`, `ExecutingSettles` under `FairSpec` | the exported workflow, which only reports success, 2 approvals, 2 deliveries, no fault, no symmetry | 375,379 |
| `ea_lifecycle` | `LifecycleDiagram`: **violated** | stale dispatcher and retry | |
| `leads` | `TypeOK`, `IngestNeverFails`, `SecondLeadOnlyAfterMove` | 3 ingests, 3 ids, 6 calls; 5 requests with and without external ids, one of which may move to another contact | 629,054 |
| `lead_retry` | `RetriesReuseLead`: **violated** | 2 ingests, 4 calls | |
| `graph_faults` | `TypeOK`, `CompletedRunIsBacked`, `TrailIsWalk`, `ResponseMatchesRun`, `ActionsAreGrounded`, `RunSpec` (refinement) | 2 orchestrations (both acting, one with a long name), 4 faults | 171,495 |
| `observability` | `SystemTypeOK`, `UsageTruthful`, `UsageAccountsForRuns`, `CompletedShownWhole`, `WalkShowsSummary` | 2 orchestrations (1 acting, short names), 1 embedder, 1 fault or lost row, pages of 4 | 1,952,711 |
| `knowledge` | `TypeOK`, `EvidenceStands`, `CreatedIsSearchable`, `FailedLeavesNothing`, `BaseSpec` (refinement) | 2 ingests, 2 searches, 3 chunks, 3 faults | 14,487 |
| `chunking` | `TypeOK`, `EveryWordIsChunked`, `NeighboursOverlap`, `RefusedOnlyBeyondCapacity`, `AdvancesOrEnds` | all lengths to 64 in the two smallest sizes with all overlaps, and lengths around a full batch | 19,608 |
| `tools` | `TypeOK`, `AnswersAreRecorded`, `ReadsAreRecorded` | 2 calls, 3 names, 2 faults | 5,959 |
| `tools_attempts` | `AttemptsAreRecorded`: **violated** | the same without faults | |

**Bounds.** Two approvals give a first dispatch and a retry, so every stale dispatcher,
POST and callback of an earlier round exists; a third adds no new pair. Two approvers
are enough for each race of approvals, and an approver may approve again when it is done.
Two deliveries are a callback and its duplicate, or callbacks of two rounds. Three
ingests allow a winner, a loser and an update that erases the winner's key. Orchestrations meet only in the
lead's row and in the creation of an action, in pairs: two with three classes allow every
disagreement, one has a name that is too long for a task and the other has not, and both can
propose the email (one that cannot propose anything is in `observability`). Four faults let
both meet a failed call and then fail the call that should have recorded it. With usage and views, two
orchestrations overlap in every way two can, and the one fault is a failed call, a crash or
a lost usage row; the embedder gives calls outside every run. A page of four rows lets a
walk end on a full page, on a short one, and be overtaken by inserts. Three chunks give every order of a
batch. Lengths to 64 give up to 45 windows and each way a last one can fall; 1019, 1020
and 2017 to 2019 words surround a batch of exactly 1000. All bounds are guards on counters, named in the modules.
`CHECK_DEADLOCK FALSE` is everywhere: when all requests have been served and the
bounds are used up the system rightly rests.

**Symmetry** permutes handlers, ingests, lead ids and calls, only where no temporal property
with fairness is checked.

**Fairness.** `FairSpec` is weak fairness of `Dispatch(d)` and `ApproveLog(d)` for each
approve call: a request thread keeps running and its HTTP client has a timeout. Operators,
n8n and callbacks may stay silent forever. Without faults that is enough for
`ExecutingSettles`; with a crash after `mark_executing` it is false, since nothing
scans for abandoned actions.

**Disagreements with the documentation.**

1. `README.md:273` draws `approved` as leading only to `executing`. `mark_failed` accepts
   approved rows and names no attempt: a dispatcher that is still waiting when a callback
   fails its round and an operator approves the retry then fails the new approval
   (`ea_lifecycle`). The retry is lost until the next approval; nothing is dispatched twice.
2. `README.md:48` says retries are designed not to duplicate leads. An update without
   external id erases the stored one, after which a retry of the original request, whose
   contact changed meanwhile, creates a second lead (`lead_retry`). `leads` and the
   theorem `LeadsAreUnique` show that such a move is the only way.
3. `README.md:252` says rejected attempts are recorded. A rejected call whose name is no
   identifier, or whose arguments name a lead that is not stored, is answered with an
   internal error and leaves no row (`tools_attempts`). `ReadsRecorded` proves that this
   never happens to a call that read data.

## 4. Proofs

Every invariant and action property that a passing run checks is a theorem, for any number
of handlers, calls and faults, under the `ASSUME`s the modules name: types of bounds,
distinctness of the "nothing" values, and, in `AIUsage`, that an answer reports tokens per
direction or in total but not both. So are the three refinements of abstract modules, and
some results that no run checks.

* **ExternalActions**: `TypeCorrect`; `RowConsistent` and `SettledRowsFrozen` follow from
  `RowStep`, which says that every action leaves the row or makes one conditional update.
  `ImplementsGate` shows the refinement of `ApprovedExecution` step by step. `OneDispatch`,
  `EffectsApproved` and `DispatchesAudited` need an invariant linking each approver's round to
  the set of claimed rounds (`ApprovalInv`, `DispatchInv`): approvers in a dispatch hold
  distinct claimed rounds, and a POST exists only for a claimed and audited one.
  `CompletionsEffected` adds that a callback in flight carries the status its workflow
  sent. `AuditIsTruthful` adds what each handler about to write an event knows of the row.
  `AuditIsComplete` is its counterpart: as long as nothing failed, each event the row calls
  for is stored or owed by a handler still running (`Told`), so that none is missing once
  all are idle. The two give `TrailIsAccount`: at rest and without a failed handler, status,
  approvals and dispatches can be read off the trail. `AcceptedIsSettled` follows a round
  from the callback to the answer (`AcceptInv`): when a workflow that answers last has
  answered, its round is over. `AtMostTwoPostsPerApproval` bounds what n8n receives over the
  life of an action.
* **Liveness of the approval**, as far as the prover reaches: `ActionsAreAttended` proves
  `NoneAbandoned`, so that each approved or executing action of a system without failures has
  an approve call on its way to settle it, and `ApproveCallsEnd` gives that call a variant
  that each of its steps lowers. What is missing to `ExecutingSettles` is only that a handler
  keeps running, which is the fairness.
* **LeadIngestion**: `TypeCorrect`, `LeadsAreUnique` (an answered request's lead still has
  its contact unless it moved), `IngestsSucceed` (under stable contacts the row a
  call has seen is never lost to it, nor given to another contact). From these
  `IngestsAgree`: under stable contacts all answers to one contact, or to one external id,
  name one lead, which is the assumption of `AgentGraph`.
* **AgentGraph**: `TypeCorrect`; `ResponsesMatch` counts, per orchestration, which of the
  faults so far explains an open run; `ActionsGrounded` carries route, class, chunks, context
  and draft along the nodes between routing and the request. `EveryPathStep` reduces every
  action to what it does to an orchestration's path. On it rest `TrailsAreWalks`, where a
  rank of the nodes grows along every edge, so that no node is entered twice, and
  `CompletedRunsBacked`, where the path so far is the beginning of the walk planned for the
  class (`Way`) and each claim is stored before the node that follows it (`Progress`).
  `ImplementsRun` is the refinement. Beyond the invariant of those theorems (`GraphInv`) it
  needs to know what an open run looks like at each node (`Fit`): a state without an error
  has all that the next node asks for, except that its data may be refused, and an error was
  preceded by a failed call or is such a refusal; and that refused data comes up only in an
  open run and gets past none of the nodes without an error (`Suited`, over `FactsSet`: each
  fact of the state changes in one handler only).
  `Answered` says that a known row left open at an error cost a second failed call,
  `TrailLast` that nothing but the close follows the trail, and `BackingStays` that no step of any orchestration withdraws
  what backs a run. From the same invariant `OnlyFailuresAndRefusals`: without a failed call
  an orchestration ends in an error exactly when its data is one of the two kinds that a node
  refuses. `OrchestrationsEnd` gives every orchestration a
  variant: it ends within eighteen steps.
* **Observability**: `SystemImplementsGraph` maps every step to a step of `AgentGraph` or a
  stutter, so that the graph's theorems carry over, `SystemImplementsRun` among them.
  `UsageIsTruthful` needs that an open
  context names the run of the node its request is at (`ContextInv`); `UsageAccounts` keeps
  a ledger of the calls each node has behind it; `CompletedRunsShownWhole` uses that a
  completed run is whole and stays so (`WholeInv`), and that the runs were read first
  (`ViewInv`); `PagesShowSummary` that inserts only push rows to later pages (`WalkInv`).
* **KnowledgeIngestion**: all five properties. The invariant says what an ingest at each
  step has stored, that embeddings held are in order (`BatchesAlign`), and that evidence and
  the searches about to cite point at stored chunks or at failed ingests. For
  `ImplementsBase`, `IngestSeen` sorts the steps of an ingest by what they make of the
  document's status; the invariant supplies that a withdrawn document was not cited, that
  a kept one was or lost two calls, and that a refused search had found one now gone
  (`RefusalHasCause` says so of the concrete tables).
* **Chunking**: all five properties, for any length, accepted configuration and batch size.
  The loop invariant places `start` at a whole number of steps and says that everything
  before the overlap beyond it is in windows; `LastWindow` pins their number.
* **ToolExecution**: all three properties, from `AuditTrail`: what has been read, stored and
  answered at each step, that only accepted calls read, and that such a call never has a
  context the database refuses.

Only model-checked: `ExecutingSettles`, a liveness property under fairness, which is beyond
the prover; its two provable halves are named above. The variants show that handlers do not
run forever, not that a step is always enabled, which is out of reach too. The three
violated properties have counterexamples and no theorems.

## 5. Not modelled, and the plan

Not modelled:

* **Operator sessions and webhook signatures**: `ExternalActions` takes requests and
  callbacks that passed them. What can go wrong there is at the inclusive ends of two
  windows, on the clocks of several machines.
* **The thread pool**: the model's n8n answers or times out whatever the number of waiting
  approvals, so that a pool exhausted by approvals delays nobody.
* **`external_reference` after a retry**: the row keeps the reference of an earlier attempt;
  nothing in the repository says which attempt a reference is of.
* **Overview, lists and counters** of observability and of the MCP analytics tool: each is
  one read or a sum of reads, of which nothing is promised together.
* **Read-only or fixed parts**: the demo repository, HTTP translation and wiring,
  configuration, logging and the console page. The email and CRM adapters are not wired in.
* **Data**: prompts and the schemas of answers, embeddings' numbers, sanitizing of
  metadata, formatting, and similarity, where any stored chunk may match.

Next, in order:

1. `OperatorSession` and the webhook window as one module over two clocks with a bounded skew.
2. A pool of worker slots between approvals and callbacks, on `ExternalActions`.
3. Composition of `AgentGraph` with `LeadIngestion` for identities that do move, and with
   `KnowledgeIngestion` through `CitedKnowledge` (evidence refused after a withdrawal).
4. An abstract lead registry for `LeadIngestion` to implement, and the audit of tool calls as
   a log that `ToolExecution` implements.
5. Metadata sanitizing and the tool registry's context inference as functions against
   reference definitions.
