-------------------------- MODULE ToolExecutionProofs --------------------------
(***************************************************************************)
(* Proofs about ToolExecution, for any set of calls, registry and bound on *)
(* faults.  AuditTrail is the inductive invariant: it adds to the          *)
(* properties what a call has and has not done at each of its steps.       *)
(***************************************************************************)
EXTENDS ToolExecution, TLAPS

\* No row and no answer before the end, and nothing read before the service accepts.
StepsInOrder(c) ==
    /\ call[c].pc # "end" => rows[c] = <<>> /\ call[c].answer = "none"
    /\ call[c].pc \in {"idle", "execute", "rejected"} => c \notin ran
    /\ call[c].pc \in {"failed", "completed"} => c \in ran
    /\ call[c].pc = "completed" => call[c].subject # "missing"

\* Only an accepted call reads, and the boundary gives it no context.
ReadsAccepted(c) ==
    /\ Accepted(call[c].name, call[c].valid) => call[c].context = "none"
    /\ c \in ran => /\ Accepted(call[c].name, call[c].valid)
                    /\ rows[c] \in {<<>>, <<"completed">>, <<"failed">>}

\* At most one row, the one an answer other than an internal error stands for.
OneRow(c) ==
    /\ rows[c] \in {<<>>, <<"completed">>, <<"failed">>, <<"rejected">>}
    /\ call[c].answer = "result" => rows[c] = <<"completed">>
    /\ call[c].answer = "refused" => rows[c] = <<"rejected">>
    /\ call[c].answer = "tool_error" => rows[c] = <<"failed">>

\* Without a fault a call that read ends with its row.
ReadIsKept(c) == c \in ran /\ call[c].pc = "end" /\ faults = 0 => rows[c] # <<>>

CallOK(c) == StepsInOrder(c) /\ ReadsAccepted(c) /\ OneRow(c) /\ ReadIsKept(c)

AuditTrail == TypeOK /\ \A c \in Calls : CallOK(c)

-----------------------------------------------------------------------------
(* The steps keep the types                                                 *)

LEMMA InitTypes == Init => TypeOK
BY FaultsAssumption DEF Init, TypeOK, IdleCall, Call, Subjects

LEMMA AnswerTypes ==
    ASSUME TypeOK, NEW c \in Calls,
           NEW answer \in {"result", "refused", "tool_error", "server_error"},
           Answer(c, answer)
    PROVE  call' \in [Calls -> Call]
<1>1. [call[c] EXCEPT !.pc = "end", !.answer = answer] \in Call
    BY DEF TypeOK, Call
<1>2. call' = [call EXCEPT ![c] = [call[c] EXCEPT !.pc = "end", !.answer = answer]]
    BY DEF TypeOK, Call, Answer
<1>3. QED  BY <1>1, <1>2 DEF TypeOK

\* The audit of a call adds at most one row, to that call, and ends it.
LEMMA AuditTypes ==
    ASSUME TypeOK, NEW c \in Calls, NEW status \in Statuses, NEW subject \in Subjects,
           NEW answer \in {"result", "refused", "tool_error"},
           Audit(c, status, subject, answer), UNCHANGED ran
    PROVE  TypeOK'
<1>1. [rows EXCEPT ![c] = Append(@, status)] \in [Calls -> Seq(Statuses)]
    BY DEF TypeOK
<1>2. rows' \in {rows, [rows EXCEPT ![c] = Append(@, status)]}
    BY DEF Audit
<1>3. rows' \in [Calls -> Seq(Statuses)]
    BY <1>1, <1>2 DEF TypeOK
<1>4. Answer(c, answer) \/ Answer(c, "server_error")
    BY DEF Audit
<1>5. call' \in [Calls -> Call]
    BY <1>4, AnswerTypes
<1>6. faults' \in Nat
    BY DEF TypeOK, Audit, Fault
<1>7. QED  BY <1>3, <1>5, <1>6 DEF TypeOK

LEMMA GotoTypes ==
    ASSUME TypeOK, NEW c \in Calls,
           NEW pc \in {"rejected", "failed", "completed", "crashed"}, Goto(c, pc)
    PROVE  call' \in [Calls -> Call]
<1>1. [call[c] EXCEPT !.pc = pc] \in Call
    BY DEF TypeOK, Call
<1>2. QED  BY <1>1 DEF TypeOK, Goto

LEMMA StepTypes == ASSUME TypeOK, [Next]_vars PROVE TypeOK'
<1>1. ASSUME NEW c \in Calls, Boundary(c) PROVE TypeOK'
    <2>1. PICK n \in Names, valid \in BOOLEAN, subject \in Subjects :
            call' = [call EXCEPT ![c] =
                        [IdleCall EXCEPT !.pc = "execute", !.name = n, !.valid = valid,
                            !.subject = subject,
                            !.context = IF Accepted(n, valid) THEN "none" ELSE subject]]
        BY <1>1 DEF Boundary
    <2>2. [IdleCall EXCEPT !.pc = "execute", !.name = n, !.valid = valid,
            !.subject = subject,
            !.context = IF Accepted(n, valid) THEN "none" ELSE subject] \in Call
        BY DEF IdleCall, Call, Subjects
    <2>3. QED  BY <1>1, <2>1, <2>2 DEF TypeOK, Boundary
<1>2. ASSUME NEW c \in Calls, Execute(c) PROVE TypeOK'
    <2>1. Goto(c, "completed") \/ Goto(c, "failed") \/ Goto(c, "rejected")
        BY <1>2 DEF Execute, Run
    <2>2. call' \in [Calls -> Call]
        BY <2>1, GotoTypes
    <2>3. ran' \subseteq Calls
        BY <1>2 DEF TypeOK, Execute, Run
    <2>4. QED  BY <1>2, <2>2, <2>3 DEF TypeOK, Execute
<1>3. ASSUME NEW c \in Calls, RecordRejection(c) PROVE TypeOK'
    BY <1>3, AuditTypes DEF RecordRejection, TypeOK, Call, Statuses
<1>4. ASSUME NEW c \in Calls, RecordFailure(c) PROVE TypeOK'
    BY <1>4, AuditTypes DEF RecordFailure, TypeOK, Call, Statuses
<1>5. ASSUME NEW c \in Calls, RecordResult(c) PROVE TypeOK'
    BY <1>5, AuditTypes DEF RecordResult, TypeOK, Call, Statuses
<1>6. ASSUME NEW c \in Calls, Crash(c) PROVE TypeOK'
    BY <1>6, GotoTypes DEF Crash, Fault, TypeOK
<1>7. CASE UNCHANGED vars
    BY <1>7 DEF vars, TypeOK
<1>8. QED  BY <1>1, <1>2, <1>3, <1>4, <1>5, <1>6, <1>7 DEF Next

-----------------------------------------------------------------------------
(* The steps keep AuditTrail                                                *)

LEMMA InitTrail == Init => AuditTrail
BY InitTypes DEF Init, AuditTrail, CallOK, StepsInOrder, ReadsAccepted, OneRow,
    ReadIsKept, IdleCall

\* A step of one call leaves the others as they are: faults only grow.
LEMMA OthersStay ==
    ASSUME AuditTrail, NEW d \in Calls, UNCHANGED <<call[d], rows[d]>>,
           d \in ran' <=> d \in ran, faults' = faults \/ faults' # 0
    PROVE  CallOK(d)'
BY DEF AuditTrail, CallOK, StepsInOrder, ReadsAccepted, OneRow, ReadIsKept, Accepted

\* The audit of a call that has no row yet.
LEMMA AuditKeeps ==
    ASSUME AuditTrail, NEW c \in Calls, NEW status \in Statuses, NEW subject \in Subjects,
           NEW answer \in {"result", "refused", "tool_error"},
           <<status, answer>> \in {<<"completed", "result">>, <<"rejected", "refused">>,
                                   <<"failed", "tool_error">>},
           Audit(c, status, subject, answer), UNCHANGED ran, call[c].pc # "end",
           c \in ran => status # "rejected" /\ Storable(c, subject)
    PROVE  \A d \in Calls : CallOK(d)'
<1>. USE DEF AuditTrail, TypeOK
<1>1. rows[c] = <<>> /\ call[c].answer = "none"
    BY DEF CallOK, StepsInOrder
<1>2. Append(rows[c], status) = <<status>>
    BY <1>1
<1>3. rows' = rows \/ rows' = [rows EXCEPT ![c] = <<status>>]
    BY <1>2 DEF Audit
<1>4. /\ Answer(c, answer) /\ rows' = [rows EXCEPT ![c] = <<status>>] /\ UNCHANGED faults
      \/ /\ Answer(c, "server_error") /\ faults' = faults + 1
      \/ /\ Answer(c, "server_error") /\ UNCHANGED faults /\ ~Storable(c, subject)
    BY <1>2 DEF Audit, Fault
<1>5. /\ call'[c].pc = "end"
      /\ UNCHANGED <<call[c].name, call[c].valid, call[c].subject, call[c].context>>
      /\ call'[c].answer \in {answer, "server_error"}
      /\ \A d \in Calls \ {c} : call'[d] = call[d]
    BY <1>4 DEF Answer, Call
<1>6. ASSUME NEW d \in Calls, d # c PROVE CallOK(d)'
    BY <1>3, <1>4, <1>5, <1>6, OthersStay
<1>7. StepsInOrder(c)'
    BY <1>5 DEF StepsInOrder
<1>8. ReadsAccepted(c)'
    <2>1. UNCHANGED Accepted(call[c].name, call[c].valid)
        BY <1>5 DEF Accepted
    <2>2. c \in ran => rows'[c] \in {<<>>, <<"completed">>, <<"failed">>}
        BY <1>1, <1>3 DEF Statuses
    <2>3. ReadsAccepted(c)
        BY DEF CallOK
    <2>4. QED  BY <1>5, <2>1, <2>2, <2>3 DEF ReadsAccepted
<1>9. OneRow(c)'
    <2>1. rows'[c] \in {<<>>, <<status>>}
        BY <1>1, <1>3
    <2>2. call'[c].answer # "server_error" => call'[c].answer = answer /\ rows'[c] = <<status>>
        BY <1>4, <1>5 DEF Answer, Call
    <2>3. QED  BY <2>1, <2>2, <1>5 DEF OneRow, Statuses
<1>10. ReadIsKept(c)'
    <2>1. c \in ran /\ faults' = 0 => rows' = [rows EXCEPT ![c] = <<status>>]
        BY <1>4
    <2>2. [rows EXCEPT ![c] = <<status>>][c] = <<status>>
        OBVIOUS
    <2>3. <<status>> # <<>>
        OBVIOUS
    <2>4. QED  BY <2>1, <2>2, <2>3 DEF ReadIsKept
<1>11. CallOK(c)'
    BY <1>7, <1>8, <1>9, <1>10 DEF CallOK
<1>12. QED  BY <1>6, <1>11

LEMMA StepTrail == ASSUME AuditTrail, [Next]_vars PROVE AuditTrail'
<1>. USE DEF TypeOK
<1>. SUFFICES \A d \in Calls : CallOK(d)'
    BY StepTypes DEF AuditTrail
<1>0. TypeOK /\ \A d \in Calls : CallOK(d)
    BY DEF AuditTrail
<1>1. ASSUME NEW c \in Calls, Boundary(c) PROVE \A d \in Calls : CallOK(d)'
    <2>1. PICK n \in Names, valid \in BOOLEAN, subject \in Subjects :
            call' = [call EXCEPT ![c] =
                        [IdleCall EXCEPT !.pc = "execute", !.name = n, !.valid = valid,
                            !.subject = subject,
                            !.context = IF Accepted(n, valid) THEN "none" ELSE subject]]
        BY <1>1 DEF Boundary
    <2>2. /\ call'[c].pc = "execute" /\ call'[c].answer = "none"
          /\ Accepted(call'[c].name, call'[c].valid) => call'[c].context = "none"
          /\ \A d \in Calls \ {c} : call'[d] = call[d]
        BY <1>0, <2>1 DEF IdleCall
    <2>3. rows[c] = <<>> /\ c \notin ran
        BY <1>0, <1>1 DEF Boundary, CallOK, StepsInOrder
    <2>4. CallOK(c)'
        BY <1>1, <2>2, <2>3 DEF Boundary, CallOK, StepsInOrder, ReadsAccepted, OneRow, ReadIsKept
    <2>5. \A d \in Calls \ {c} : CallOK(d)'
        BY <1>1, <2>2, OthersStay DEF Boundary
    <2>6. QED  BY <2>4, <2>5
<1>2. ASSUME NEW c \in Calls, Execute(c) PROVE \A d \in Calls : CallOK(d)'
    <2>1. rows[c] = <<>> /\ c \notin ran /\ call[c].answer = "none" /\ ReadsAccepted(c)
        BY <1>0, <1>2 DEF Execute, CallOK, StepsInOrder
    <2>2. CASE Accepted(call[c].name, call[c].valid) /\ Run(c)
        <3>1. /\ call'[c].pc \in {"completed", "failed"}
              /\ call'[c].pc = "completed" => call[c].subject # "missing"
              /\ UNCHANGED <<call[c].name, call[c].valid, call[c].subject,
                             call[c].context, call[c].answer>>
              /\ \A d \in Calls \ {c} : call'[d] = call[d]
            BY <1>0, <2>2 DEF Run, Goto, Call
        <3>2. ran' = ran \union {c} /\ UNCHANGED <<rows, faults>>
            BY <1>2, <2>2 DEF Execute, Run
        <3>3. CallOK(c)'
            BY <2>1, <2>2, <3>1, <3>2
                DEF CallOK, StepsInOrder, ReadsAccepted, OneRow, ReadIsKept, Accepted
        <3>4. \A d \in Calls \ {c} : CallOK(d)'
            BY <3>1, <3>2, OthersStay
        <3>5. QED  BY <3>3, <3>4
    <2>3. CASE Goto(c, "rejected") /\ UNCHANGED ran
        <3>1. /\ call'[c].pc = "rejected"
              /\ UNCHANGED <<call[c].name, call[c].valid, call[c].subject,
                             call[c].context, call[c].answer>>
              /\ \A d \in Calls \ {c} : call'[d] = call[d]
            BY <1>0, <2>3 DEF Goto, Call
        <3>2. UNCHANGED <<rows, faults>>
            BY <1>2 DEF Execute
        <3>3. CallOK(c)'
            BY <2>1, <2>3, <3>1, <3>2
                DEF CallOK, StepsInOrder, ReadsAccepted, OneRow, ReadIsKept, Accepted
        <3>4. \A d \in Calls \ {c} : CallOK(d)'
            BY <2>3, <3>1, <3>2, OthersStay
        <3>5. QED  BY <3>3, <3>4
    <2>4. QED  BY <1>2, <2>2, <2>3 DEF Execute
<1>3. ASSUME NEW c \in Calls, RecordRejection(c) PROVE \A d \in Calls : CallOK(d)'
    <2>1. c \notin ran
        BY <1>0, <1>3 DEF RecordRejection, CallOK, StepsInOrder
    <2>2. call[c].context \in Subjects
        BY <1>0 DEF Call
    <2>3. QED  BY <1>3, <2>1, <2>2, AuditKeeps DEF RecordRejection, Statuses
<1>4. ASSUME NEW c \in Calls, RecordFailure(c) PROVE \A d \in Calls : CallOK(d)'
    <2>1. c \in ran => Storable(c, call[c].context)
        BY <1>0, NamesAssumption DEF CallOK, ReadsAccepted, Accepted, Storable
    <2>2. call[c].context \in Subjects
        BY <1>0 DEF Call
    <2>3. QED  BY <1>4, <2>1, <2>2, AuditKeeps DEF RecordFailure, Statuses
<1>5. ASSUME NEW c \in Calls, RecordResult(c) PROVE \A d \in Calls : CallOK(d)'
    <2>1. c \in ran => Storable(c, call[c].subject)
        BY <1>0, <1>5, NamesAssumption
            DEF RecordResult, CallOK, ReadsAccepted, StepsInOrder, Accepted, Storable
    <2>2. call[c].subject \in Subjects
        BY <1>0 DEF Call
    <2>3. QED  BY <1>5, <2>1, <2>2, AuditKeeps DEF RecordResult, Statuses
<1>6. ASSUME NEW c \in Calls, Crash(c) PROVE \A d \in Calls : CallOK(d)'
    <2>1. /\ call'[c].pc = "crashed"
          /\ UNCHANGED <<call[c].name, call[c].valid, call[c].subject,
                         call[c].context, call[c].answer>>
          /\ \A d \in Calls \ {c} : call'[d] = call[d]
        BY <1>0, <1>6 DEF Crash, Goto, Call
    <2>2. UNCHANGED <<rows, ran>> /\ faults' # 0 /\ call[c].pc # "end"
        BY <1>0, <1>6 DEF Crash, Fault
    <2>3. CallOK(c)'
        BY <1>0, <2>1, <2>2
            DEF CallOK, StepsInOrder, ReadsAccepted, OneRow, ReadIsKept, Accepted
    <2>4. \A d \in Calls \ {c} : CallOK(d)'
        BY <2>1, <2>2, OthersStay
    <2>5. QED  BY <2>3, <2>4
<1>7. CASE UNCHANGED vars
    BY <1>7, OthersStay DEF vars
<1>8. QED  BY <1>1, <1>2, <1>3, <1>4, <1>5, <1>6, <1>7 DEF Next

LEMMA TrailInvariant == Spec => []AuditTrail
BY InitTrail, StepTrail, PTL DEF Spec

-----------------------------------------------------------------------------
(* The theorems                                                             *)

\* Calls, their rows and answers stay in their types (ToolExecutionService.execute).
THEOREM TypeCorrect == Spec => []TypeOK
BY TrailInvariant, PTL DEF AuditTrail

\* The client's answer and the stored row agree, and there is never a second row,
\* whatever inserts fail or lose their response (ToolExecutionService._audit).
THEOREM AnswersRecorded == Spec => []AnswersAreRecorded
<1>1. ASSUME AuditTrail PROVE AnswersAreRecorded
    <2>1. ASSUME NEW c \in Calls PROVE OneRow(c)
        BY <1>1 DEF AuditTrail, CallOK
    <2>2. ASSUME NEW c \in Calls PROVE Len(rows[c]) <= 1
        <3>1. CASE rows[c] = <<>>
            BY <3>1
        <3>2. CASE \E s \in Statuses : rows[c] = <<s>>
            BY <3>2
        <3>3. QED  BY <2>1, <3>1, <3>2 DEF OneRow, Statuses
    <2>3. QED  BY <2>1, <2>2 DEF AnswersAreRecorded, OneRow
<1>2. QED  BY <1>1, TrailInvariant, PTL

\* A handler runs only for calls the registry and the input schema accept, and each
\* such call leaves a row that is no rejection, unless an insert failed: the row of a
\* failed call cannot break a foreign key (ToolExecutionService.execute, which checks
\* again what the boundary checked, and _infer_context).
THEOREM ReadsRecorded == Spec => []ReadsAreRecorded
<1>1. ASSUME AuditTrail PROVE ReadsAreRecorded
    <2>1. ASSUME NEW c \in ran
          PROVE  c \in Calls /\ ReadsAccepted(c) /\ ReadIsKept(c)
        BY <1>1 DEF AuditTrail, TypeOK, CallOK
    <2>2. ASSUME NEW c \in ran, NEW k \in 1 .. Len(rows[c])
          PROVE  rows[c][k] # "rejected"
        <3>1. CASE rows[c] = <<>>
            BY <2>2, <3>1
        <3>2. CASE \E s \in {"completed", "failed"} : rows[c] = <<s>>
            BY <2>2, <3>2
        <3>3. QED  BY <2>1, <2>2, <3>1, <3>2 DEF ReadsAccepted
    <2>3. QED  BY <2>1, <2>2 DEF ReadsAreRecorded, ReadsAccepted, ReadIsKept
<1>2. QED  BY <1>1, TrailInvariant, PTL
===============================================================================
