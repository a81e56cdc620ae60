----------------------------- MODULE ToolExecution -----------------------------
(***************************************************************************)
(* The MCP server: every tools/call passes the security boundary, which    *)
(* answers unknown tools and invalid arguments itself, and the execution   *)
(* service, which runs the handler and stores one tool_calls row for what  *)
(* it decided.  All tools are read-only, so that row is the only state a   *)
(* call changes, and it is stored before the client is answered.           *)
(*                                                                         *)
(* The insert of the row may fail, before or after it was applied, and the *)
(* server may crash between two steps.                                     *)
(***************************************************************************)
EXTENDS Naturals, Sequences

CONSTANTS
    Calls,        \* calls of the clients
    Names,        \* the tool names clients send
    Tools,        \* the six tools of the registry
    WellNamed,    \* the names tool_calls accepts
    MaxFaults     \* bound: failed inserts and crashes

ASSUME NamesAssumption == Tools \subseteq WellNamed /\ WellNamed \subseteq Names
ASSUME FaultsAssumption == MaxFaults \in Nat

VARIABLES
    call,       \* the calls: where they are and what they asked
    rows,       \* the tool_calls rows of each call
    ran,        \* history: the calls whose handler has run
    faults

vars == <<call, rows, ran, faults>>

Subjects == {"none", "stored", "missing"}

\* subject: the lead or run the arguments name, and whether it is stored; context:
\* what the boundary passes on of it.
Call == [pc : {"idle", "execute", "rejected", "failed", "completed", "end", "crashed"},
         name : Names \union {"none"}, valid : BOOLEAN,
         subject : Subjects, context : Subjects,
         answer : {"none", "result", "refused", "tool_error", "server_error"}]

Statuses == {"completed", "failed", "rejected"}

IdleCall == [pc |-> "idle", name |-> "none", valid |-> FALSE, subject |-> "none",
             context |-> "none", answer |-> "none"]

Init ==
    /\ call = [c \in Calls |-> IdleCall]
    /\ rows = [c \in Calls |-> <<>>]
    /\ ran = {}
    /\ faults = 0

Fault == faults < MaxFaults /\ faults' = faults + 1

Goto(c, pc) == call' = [call EXCEPT ![c].pc = pc]

Answer(c, answer) == call' = [call EXCEPT ![c].pc = "end", ![c].answer = answer]

-----------------------------------------------------------------------------
(* _ToolSecurityBoundary                                                    *)

Accepted(name, valid) == name \in Tools /\ valid

\* A call the registry or the input schema refuses never reaches the server's own
\* handler: the boundary only has the execution service record it, with the lead or
\* run its arguments name as context.  Other calls bring no context.
Boundary(c) ==
    /\ call[c].pc = "idle"
    /\ \E n \in Names, valid \in BOOLEAN, subject \in Subjects :
            call' = [call EXCEPT ![c] =
                        [IdleCall EXCEPT !.pc = "execute", !.name = n, !.valid = valid,
                            !.subject = subject,
                            !.context = IF Accepted(n, valid) THEN "none" ELSE subject]]
    /\ UNCHANGED <<rows, ran, faults>>

-----------------------------------------------------------------------------
(* ToolExecutionService.execute                                             *)

\* The handler reads: what it is asked for must be stored.  Any tool may fail, with
\* an error of the domain or not, or answer against its output schema.
Run(c) ==
    /\ ran' = ran \union {c}
    /\ \/ call[c].subject # "missing" /\ Goto(c, "completed")
       \/ Goto(c, "failed")

\* The service checks again what the boundary has checked.
Execute(c) ==
    /\ call[c].pc = "execute"
    /\ LET accepted == Accepted(call[c].name, call[c].valid)
       IN  \/ accepted /\ Run(c)
           \/ ~accepted /\ Goto(c, "rejected") /\ UNCHANGED ran
    /\ UNCHANGED <<rows, faults>>

\* _audit and the table's constraints: the name has the pattern of a tool name, and
\* a lead or run the row refers to is stored.
Storable(c, subject) == call[c].name \in WellNamed /\ subject # "missing"

\* Faulty variant: an insert that failed is tried again.
AuditTwice(c, status, subject, answer) ==
    \/ /\ Storable(c, subject)
       /\ rows' = [rows EXCEPT ![c] = Append(@, status)]
       /\ Answer(c, answer) /\ UNCHANGED faults
    \/ /\ Storable(c, subject)
       /\ rows' \in {rows, [rows EXCEPT ![c] = Append(@, status)]}
       /\ UNCHANGED call /\ Fault
    \/ /\ ~Storable(c, subject) /\ UNCHANGED <<rows, faults>>
       /\ Answer(c, "server_error")

\* The client gets its answer only with the row; without it, an internal error.
Audit(c, status, subject, answer) ==
    LET stored == [rows EXCEPT ![c] = Append(@, status)] IN
    \/ /\ Storable(c, subject)
       /\ rows' = stored /\ Answer(c, answer) /\ UNCHANGED faults
    \/ /\ rows' \in {rows} \union (IF Storable(c, subject) THEN {stored} ELSE {})
       /\ Answer(c, "server_error") /\ Fault
    \/ /\ ~Storable(c, subject) /\ UNCHANGED <<rows, faults>>
       /\ Answer(c, "server_error")

\* Faulty variant: the row says what the client is told.
RecordRefusal(c) ==
    /\ call[c].pc = "rejected"
    /\ Audit(c, "refused", call[c].context, "refused")
    /\ UNCHANGED ran

RecordRejection(c) ==
    /\ call[c].pc = "rejected"
    /\ Audit(c, "rejected", call[c].context, "refused")
    /\ UNCHANGED ran

\* Faulty variant: the row of a failed call refers to its subject too.
RecordFailureInContext(c) ==
    /\ call[c].pc = "failed"
    /\ Audit(c, "failed", call[c].subject, "tool_error")
    /\ UNCHANGED ran

\* The row of a failed call refers to no lead or run but the context.
RecordFailure(c) ==
    /\ call[c].pc = "failed"
    /\ Audit(c, "failed", call[c].context, "tool_error")
    /\ UNCHANGED ran

\* _infer_context: a result's row refers to the subject of its arguments.
RecordResult(c) ==
    /\ call[c].pc = "completed"
    /\ Audit(c, "completed", call[c].subject, "result")
    /\ UNCHANGED ran

Crash(c) ==
    /\ call[c].pc \notin {"idle", "end", "crashed"}
    /\ Goto(c, "crashed") /\ Fault
    /\ UNCHANGED <<rows, ran>>

Next == \E c \in Calls : \/ Boundary(c) \/ Execute(c)
                         \/ RecordRejection(c) \/ RecordFailure(c) \/ RecordResult(c) \/ Crash(c)

Spec == Init /\ [][Next]_vars

-----------------------------------------------------------------------------
(* Properties                                                               *)

TypeOK ==
    /\ call \in [Calls -> Call]
    /\ rows \in [Calls -> Seq(Statuses)]
    /\ ran \subseteq Calls
    /\ faults \in Nat

\* An answer that is not an internal error is backed by exactly one row, which says
\* the same; a call never leaves two rows, whichever insert lost its response.
AnswersAreRecorded == \A c \in Calls :
    /\ Len(rows[c]) <= 1
    /\ call[c].answer = "result" => rows[c] = <<"completed">>
    /\ call[c].answer = "refused" => rows[c] = <<"rejected">>
    /\ call[c].answer = "tool_error" => rows[c] = <<"failed">>

\* Data is read only for a call that the registry and the input schema accept, and
\* such a call is recorded, not as a rejection; without a row it ends only where a call
\* to the database failed.
ReadsAreRecorded == \A c \in ran :
    /\ Accepted(call[c].name, call[c].valid)
    /\ "rejected" \notin {rows[c][k] : k \in 1 .. Len(rows[c])}
    /\ call[c].pc = "end" /\ faults = 0 => rows[c] # <<>>

\* "Accepted, rejected, and failed attempts are recorded in tool_calls."
AttemptsAreRecorded == \A c \in Calls :
    call[c].pc = "end" /\ faults = 0 => rows[c] # <<>>
===============================================================================
