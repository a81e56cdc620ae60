---------------------------- MODULE CitedKnowledge ----------------------------
(***************************************************************************)
(* What the knowledge base promises to those who publish documents and to  *)
(* those who cite them, without chunks, embeddings and calls: a document   *)
(* that is served stays, one that was withdrawn never returns, nothing is  *)
(* withdrawn once it is cited, and a citation is refused only when one of  *)
(* its documents was withdrawn.                                            *)
(***************************************************************************)
EXTENDS Naturals

CONSTANTS
    Documents,
    Readers      \* those who retrieve documents and then cite them

VARIABLES
    status,      \* of each document, as its publisher and its readers see it
    reader,      \* where each reader is, and the documents it retrieved
    citations,   \* which reader cites which document
    faults       \* failed calls and crashes so far

ckVars == <<status, reader, citations, faults>>

\* Served: the publisher was told so.  Shown: nobody was told anything yet.  Kept:
\* the publisher was told that it failed.
Visible == {d \in Documents : status[d] \in {"shown", "served", "kept"}}

CitedBySome(d) == \E r \in Readers : <<r, d>> \in citations

Init ==
    /\ status = [d \in Documents |-> "absent"]
    /\ reader = [r \in Readers |-> [pc |-> "idle", found |-> {}]]
    /\ citations = {}
    /\ faults = 0

Works == UNCHANGED faults
Fails == faults' = faults + 1

Waste == Fails /\ UNCHANGED <<status, reader, citations>>

Becomes(d, s) == status' = [status EXCEPT ![d] = s] /\ UNCHANGED <<reader, citations>>

\* Only when the answer of the store is lost is a document visible and its publisher
\* not told.
Publish(d) ==
    /\ status[d] = "absent"
    /\ \/ Becomes(d, "served") /\ Works
       \/ Becomes(d, "shown") /\ Fails

Withdraw(d) ==
    /\ status[d] \in {"absent", "shown"} /\ ~CitedBySome(d)
    /\ Becomes(d, "gone")
    /\ Works \/ Fails

\* A failed document stays visible when it is cited, or when withdrawing it failed
\* after publishing it had failed.
Keep(d) ==
    /\ status[d] = "shown"
    /\ Becomes(d, "kept")
    /\ Works \/ Fails
    /\ CitedBySome(d) \/ faults' >= 2

Retrieve(r) ==
    /\ reader[r].pc = "idle"
    /\ \E found \in SUBSET Visible \ {{}} :
          reader' = [reader EXCEPT ![r] = [pc |-> "found", found |-> found]]
    /\ UNCHANGED <<status, citations>> /\ Works

Ends(r, pc) ==
    /\ reader[r].pc = "found"
    /\ reader' = [reader EXCEPT ![r].pc = pc]
    /\ UNCHANGED status

Stored(r) ==
    /\ reader[r].found \subseteq Visible
    /\ citations' = citations \union {<<r, d>> : d \in reader[r].found}

Cite(r) == Ends(r, "stored") /\ Stored(r) /\ Works

Refuse(r) ==
    /\ Ends(r, "refused")
    /\ \E d \in reader[r].found : status[d] = "gone"
    /\ UNCHANGED citations /\ Works

\* A failed call may have stored what it was to store.
Fail(r) == Ends(r, "failed") /\ (Stored(r) \/ UNCHANGED citations) /\ Fails

Next ==
    \/ Waste
    \/ \E d \in Documents : Publish(d) \/ Withdraw(d) \/ Keep(d)
    \/ \E r \in Readers : Retrieve(r) \/ Cite(r) \/ Refuse(r) \/ Fail(r)

Spec == Init /\ [][Next]_ckVars
===============================================================================
