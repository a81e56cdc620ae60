-------------------------------- MODULE AIUsage --------------------------------
(***************************************************************************)
(* AIUsageService and the adapters that call it: each answer of a model is *)
(* recorded as one row of ai_usage_events, under the lead and run that the *)
(* request has in its usage context, with the tokens the provider reported *)
(* and a cost where the operator has set a price.                          *)
(*                                                                         *)
(* The context is a ContextVar, and every request runs in a context of its *)
(* own: a handler opens it around a call and closes it when the call ends, *)
(* however it ends.  A request of which the insert fails goes on as if the *)
(* row were there.  A run belongs to one lead, so naming the run names     *)
(* both.  Prices are per token, which leaves out the scale of a million.   *)
(***************************************************************************)
EXTENDS Integers, FiniteSets

CONSTANTS
    Callers,   \* the requests whose handlers ask a model
    RunRows,   \* the rows of agent_runs that a context can name
    NoRun,     \* the default context
    Unknown,   \* a count, price or cost that is not known
    Reports,   \* the usage that answers to each operation may carry
    Prices,    \* the catalog's price of the model that serves an operation
    NoPrice    \* the price of a model the catalog does not list

Operations == {"qualification", "research_context", "email_draft",
               "embedding_document", "embedding_query"}

\* A provider may report anything; no count is -1.
Report == [input : Int \union {Unknown}, output : Int \union {Unknown},
           total : Int \union {Unknown}]
Price == [input : Nat \union {Unknown}, output : Nat \union {Unknown},
          total : Nat \union {Unknown}]

ASSUME NoRunAssumption == NoRun \notin RunRows
ASSUME UnknownAssumption == Unknown \notin Int
\* An answer has tokens per direction (the language model's) or a total (the embedding
\* model's), never both.
ASSUME ReportsAssumption ==
    \A op \in Operations : \A r \in Reports[op] :
        /\ r \in Report
        /\ r.total = Unknown \/ (r.input = Unknown /\ r.output = Unknown)
ASSUME PricesAssumption ==
    /\ NoPrice \notin Price
    /\ \A op \in Operations : Prices[op] = NoPrice \/ Prices[op] \in Price

VARIABLES
    context,   \* the run each request's usage context names
    answered,  \* the requests whose current call was answered and recorded
    usage,     \* the ai_usage_events table
    lost       \* history: the requests and operations whose insert failed

usageVars == <<context, answered, usage, lost>>

Counts == Nat \union {Unknown}

\* caller is history: the request that made the call.
UsageEvent == [caller : Callers, operation : Operations, run : RunRows \union {NoRun},
               input : Counts, output : Counts, total : Counts, cost : Counts]

UsageInit ==
    /\ context = [c \in Callers |-> NoRun]
    /\ answered = {}
    /\ usage = {}
    /\ lost = {}

-----------------------------------------------------------------------------
(* Tokens and costs                                                         *)

\* Only a count that is a number and not negative is believed.
TokenCount(v) == IF v # Unknown /\ v >= 0 THEN v ELSE Unknown

TotalTokens(input, output, total) ==
    IF total = Unknown /\ input # Unknown /\ output # Unknown THEN input + output ELSE total

\* A price for all tokens comes first; prices per direction need both counts.
Estimate(price, input, output, total) ==
    CASE price = NoPrice -> Unknown
      [] price # NoPrice /\ price.total # Unknown /\ total # Unknown -> total * price.total
      [] /\ price # NoPrice /\ (price.total = Unknown \/ total = Unknown)
         /\ Unknown \notin {price.input, price.output, input, output}
            -> input * price.input + output * price.output
      [] OTHER -> Unknown

EventOf(c, op, report) ==
    LET input == TokenCount(report.input)
        output == TokenCount(report.output)
        total == TotalTokens(input, output, TokenCount(report.total))
    IN  [caller |-> c, operation |-> op, run |-> context[c],
         input |-> input, output |-> output, total |-> total,
         cost |-> Estimate(Prices[op], input, output, total)]

-----------------------------------------------------------------------------
(* The service                                                              *)

\* Faulty variant: a variable of the module, which all requests share.
OpenShared(c, run) ==
    /\ context[c] = NoRun
    /\ context' = [k \in Callers |-> run]
    /\ UNCHANGED <<answered, usage, lost>>

OpenContext(c, run) ==
    /\ context[c] = NoRun
    /\ context' = [context EXCEPT ![c] = run]
    /\ UNCHANGED <<answered, usage, lost>>

\* Faulty variant: the context stays open behind the call.
LeaveOpen(c) ==
    /\ answered' = answered \ {c}
    /\ UNCHANGED <<context, usage, lost>>

CloseContext(c) ==
    /\ context' = [context EXCEPT ![c] = NoRun]
    /\ answered' = answered \ {c}
    /\ UNCHANGED <<usage, lost>>

\* Faulty variant: an answer without usage is not worth a row.
RecordIfReported(c, op) ==
    /\ c \notin answered
    /\ answered' = answered \union {c}
    /\ \E r \in Reports[op] :
        usage' = IF TokenCount(r.input) = Unknown /\ TokenCount(r.total) = Unknown
                   THEN usage ELSE usage \union {EventOf(c, op, r)}
    /\ UNCHANGED <<context, lost>>

\* The adapter of the language model records an answer before it looks at what was
\* answered, that of the embedding model after.  An insert that is stored although its
\* reply is lost is like any other to the caller, and is the first alternative.
Record(c, op) ==
    /\ c \notin answered
    /\ answered' = answered \union {c}
    /\ \/ /\ \E r \in Reports[op] : usage' = usage \union {EventOf(c, op, r)}
          /\ UNCHANGED lost
       \/ /\ lost' = lost \union {<<c, op>>}
          /\ UNCHANGED usage
    /\ UNCHANGED context

UsageTypeOK ==
    /\ context \in [Callers -> RunRows \union {NoRun}]
    /\ answered \subseteq Callers
    /\ usage \subseteq UsageEvent
    /\ lost \subseteq Callers \X Operations
=============================================================================
