------------------------------ MODULE AuditedRun ------------------------------
(***************************************************************************)
(* What an orchestration promises its client and its auditors, without the *)
(* graph: a run is opened, it is called completed only when everything it  *)
(* claims is stored, a failure is never taken back, an answer agrees with  *)
(* the stored run, and after the answer the run stays as it is.  An error  *)
(* has a cause: a failed call, or data the work turns out to refuse.  Such *)
(* data comes up while the run is open, and no run with it is completed.   *)
(***************************************************************************)
EXTENDS Naturals

CONSTANTS Flows   \* the orchestrations

VARIABLES
    status,  \* the status of each run's row, "none" without a row
    known,   \* the orchestrations that know the id of their row
    backed,  \* those of whose run everything is stored that it would claim
    unfit,   \* those whose request or research text a later step refuses
    answer,  \* what the client was told: "none", "result" or "error"
    faults   \* failed calls and crashes so far

arVars == <<status, known, backed, unfit, answer, faults>>

Init ==
    /\ status = [f \in Flows |-> "none"]
    /\ known = {}
    /\ backed = {}
    /\ unfit = {}
    /\ answer = [f \in Flows |-> "none"]
    /\ faults = 0

Works == UNCHANGED faults
Fails == faults' = faults + 1

\* Rows of any orchestration are added, and none is withdrawn.
Keeps == backed \subseteq backed'

\* Besides rows, data that will be refused comes up, while the run is open; it stays.
Store ==
    /\ UNCHANGED <<status, known, answer>>
    /\ Works \/ Fails
    /\ Keeps
    /\ unfit \subseteq unfit'
    /\ \A f \in unfit' \ unfit : status[f] = "started" /\ answer[f] = "none"

\* The row is inserted; when that answer is lost nobody knows its id.
Open(f) ==
    /\ status[f] = "none" /\ answer[f] = "none"
    /\ status' = [status EXCEPT ![f] = "started"]
    /\ \/ known' = known \union {f} /\ Works
       \/ UNCHANGED known /\ Fails
    /\ UNCHANGED <<unfit, answer>>
    /\ Keeps

\* The client gets the result with the completion or, if that answer is lost, never.
Complete(f) ==
    /\ status[f] = "started" /\ answer[f] = "none"
    /\ f \in known /\ f \in backed \ unfit
    /\ status' = [status EXCEPT ![f] = "completed"]
    /\ \/ answer' = [answer EXCEPT ![f] = "result"] /\ Works
       \/ UNCHANGED answer /\ Fails
    /\ UNCHANGED <<known, unfit>>
    /\ Keeps

\* What a failure needs: a failed call, or data that is refused.
Caused(f) == faults' >= 1 \/ f \in unfit

\* Also a run that was called completed is failed as long as nobody was told.
Fail(f) ==
    /\ status[f] \in {"started", "completed"} /\ answer[f] = "none"
    /\ f \in known
    /\ status' = [status EXCEPT ![f] = "failed"]
    /\ Works \/ Fails
    /\ answer' \in {answer, [answer EXCEPT ![f] = "error"]}
    /\ Caused(f)
    /\ UNCHANGED <<known, unfit>>
    /\ Keeps

\* Only two failed calls, one of them in the failure handling, leave a run behind
\* that is not failed although its id was known.
Apologise(f) ==
    /\ answer[f] = "none"
    /\ answer' = [answer EXCEPT ![f] = "error"]
    /\ Works \/ Fails
    /\ Caused(f)
    /\ f \in known /\ status[f] # "failed" => faults' >= 2
    /\ UNCHANGED <<status, known, unfit>>
    /\ Keeps

Next == Store \/ \E f \in Flows : Open(f) \/ Complete(f) \/ Fail(f) \/ Apologise(f)

Spec == Init /\ [][Next]_arVars
=============================================================================
