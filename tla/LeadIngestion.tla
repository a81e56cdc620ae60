---------------------------- MODULE LeadIngestion ----------------------------
(***************************************************************************)
(* LeadService.ingest: find the lead a request is about or create it, with *)
(* the two unique indexes of the leads table as the arbiter of races.      *)
(*                                                                         *)
(* Ingests run concurrently; each SELECT, INSERT and UPDATE is one step.   *)
(* A lead is identified by the external id a request carries, if any, and  *)
(* else by its contact, the lower-cased email together with the company.   *)
(* The columns that identify nothing are left out.                         *)
(***************************************************************************)
EXTENDS Naturals

CONSTANTS
    Ingests,     \* concurrent ingest calls
    LeadIds,     \* primary keys the database can generate
    Requests,    \* the requests clients send, each [external, contact]
    NoExternal,  \* the external id of a request without one
    NoLead,      \* the row of a primary key not generated yet, and no lead found
    MaxCalls     \* bound: ingest calls, retries included

ASSUME RequestsAssumption ==
    \A q \in Requests : DOMAIN q = {"external", "contact"}

ASSUME NoLeadAssumption == NoLead \notin LeadIds /\ NoLead \notin Requests

ASSUME CallsAssumption == MaxCalls \in Nat

VARIABLES
    leads,     \* the leads table: the identity each lead was last written with
    ingest,    \* the ingest calls
    calls,     \* ingest calls started so far
    begun,     \* history: the requests sent so far
    answered,  \* history: which lead each request was ingested into
    moved,     \* history: the leads whose contact was overwritten by another one
    failed     \* history: requests refused although every database call worked

vars == <<leads, ingest, calls, begun, answered, moved, failed>>

Stored == {id \in LeadIds : leads[id] # NoLead}

\* again: does the call look the lead up a second time, after its insert lost?
Ingest == [pc : {"idle", "find_external", "find_contact", "create", "update"},
           request : Requests \union {NoLead},
           again : BOOLEAN,
           found : LeadIds \union {NoLead}]

IdleIngest == [pc |-> "idle", request |-> NoLead, again |-> FALSE, found |-> NoLead]

Init ==
    /\ leads = [id \in LeadIds |-> NoLead]
    /\ ingest = [i \in Ingests |-> IdleIngest]
    /\ calls = 0
    /\ begun = {}
    /\ answered = {}
    /\ moved = {}
    /\ failed = {}

-----------------------------------------------------------------------------
SameExternal(q, r) == q.external # NoExternal /\ q.external = r.external

\* The leads whose unique keys request q would duplicate.
Conflicts(q) ==
    {id \in Stored : SameExternal(q, leads[id]) \/ q.contact = leads[id].contact}

\* find_existing asks by external id first, when there is one.
Lookup(i, q, again) ==
    ingest' = [ingest EXCEPT ![i] =
        [pc |-> IF q.external = NoExternal THEN "find_contact" ELSE "find_external",
         request |-> q, again |-> again, found |-> NoLead]]

Begin(i, q) ==
    /\ ingest[i].pc = "idle"
    /\ calls < MaxCalls
    /\ calls' = calls + 1
    /\ begun' = begun \union {q}
    /\ Lookup(i, q, FALSE)
    /\ UNCHANGED <<leads, answered, moved, failed>>

GoTo(i, pc, id) ==
    ingest' = [ingest EXCEPT ![i] =
        [pc |-> pc, request |-> @.request, again |-> @.again, found |-> id]]

FindByExternal(i) ==
    /\ ingest[i].pc = "find_external"
    /\ \/ \E id \in Stored :
            /\ leads[id].external = ingest[i].request.external
            /\ GoTo(i, "update", id)
       \/ /\ \A id \in Stored : leads[id].external # ingest[i].request.external
          /\ GoTo(i, "find_contact", NoLead)
    /\ UNCHANGED <<leads, calls, begun, answered, moved, failed>>

\* Faulty variant: the second lookup's result is used unchecked.
FindUnchecked(i) ==
    /\ ingest[i].pc = "find_contact"
    /\ \/ \E id \in Stored :
            /\ leads[id].contact = ingest[i].request.contact
            /\ GoTo(i, "update", id)
       \/ /\ \A id \in Stored : leads[id].contact # ingest[i].request.contact
          /\ GoTo(i, IF ingest[i].again THEN "update" ELSE "create", NoLead)
    /\ UNCHANGED <<leads, calls, begun, answered, moved, failed>>

\* A second lookup that finds nothing ends the call with an error.
FindByContact(i) ==
    /\ ingest[i].pc = "find_contact"
    /\ \/ \E id \in Stored :
            /\ leads[id].contact = ingest[i].request.contact
            /\ GoTo(i, "update", id)
            /\ UNCHANGED failed
       \/ /\ \A id \in Stored : leads[id].contact # ingest[i].request.contact
          /\ IF ingest[i].again
               THEN /\ ingest' = [ingest EXCEPT ![i] = IdleIngest]
                    /\ failed' = failed \union {ingest[i].request}
               ELSE /\ GoTo(i, "create", NoLead)
                    /\ UNCHANGED failed
    /\ UNCHANGED <<leads, calls, begun, answered, moved>>

Answer(i, id) ==
    /\ ingest' = [ingest EXCEPT ![i] = IdleIngest]
    /\ answered' = answered \union {[request |-> ingest[i].request, lead |-> id]}

\* Faulty variant: no unique index on email and company.
CreateUnchecked(i) ==
    /\ ingest[i].pc = "create"
    /\ \E id \in LeadIds \ Stored :
        /\ leads' = [leads EXCEPT ![id] = ingest[i].request]
        /\ Answer(i, id)
    /\ UNCHANGED <<calls, begun, moved, failed>>

\* Faulty variant: a lost race is an error.
CreateOrFail(i) ==
    /\ ingest[i].pc = "create"
    /\ \/ /\ Conflicts(ingest[i].request) = {}
          /\ \E id \in LeadIds \ Stored :
                /\ leads' = [leads EXCEPT ![id] = ingest[i].request]
                /\ Answer(i, id)
          /\ UNCHANGED failed
       \/ /\ Conflicts(ingest[i].request) # {}
          /\ ingest' = [ingest EXCEPT ![i] = IdleIngest]
          /\ failed' = failed \union {ingest[i].request}
          /\ UNCHANGED <<leads, answered>>
    /\ UNCHANGED <<calls, begun, moved>>

\* A unique index may have been taken since the lookup: then look up again.
Create(i) ==
    /\ ingest[i].pc = "create"
    /\ \/ /\ Conflicts(ingest[i].request) = {}
          /\ \E id \in LeadIds \ Stored :
                /\ leads' = [leads EXCEPT ![id] = ingest[i].request]
                /\ Answer(i, id)
       \/ /\ Conflicts(ingest[i].request) # {}
          /\ Lookup(i, ingest[i].request, TRUE)
          /\ UNCHANGED <<leads, answered>>
    /\ UNCHANGED <<calls, begun, moved, failed>>

\* Every column is written, a missing external id as NULL.  A key held by another
\* lead makes the update fail, which nothing retries.
Update(i) ==
    /\ ingest[i].pc = "update"
    /\ \/ /\ Conflicts(ingest[i].request) \subseteq {ingest[i].found}
          /\ leads' = [leads EXCEPT ![ingest[i].found] = ingest[i].request]
          /\ moved' = IF leads[ingest[i].found].contact = ingest[i].request.contact
                        THEN moved ELSE moved \union {ingest[i].found}
          /\ Answer(i, ingest[i].found)
          /\ UNCHANGED failed
       \/ /\ ~(Conflicts(ingest[i].request) \subseteq {ingest[i].found})
          /\ ingest' = [ingest EXCEPT ![i] = IdleIngest]
          /\ failed' = failed \union {ingest[i].request}
          /\ UNCHANGED <<leads, answered, moved>>
    /\ UNCHANGED <<calls, begun>>

\* The process dies or a database call fails, also after it was applied.
Abort(i) ==
    /\ ingest[i].pc # "idle"
    /\ ingest' = [ingest EXCEPT ![i] = IdleIngest]
    /\ UNCHANGED <<leads, calls, begun, answered, moved, failed>>

Step(i) ==
    \/ \E q \in Requests : Begin(i, q)
    \/ FindByExternal(i) \/ FindByContact(i) \/ Create(i) \/ Update(i) \/ Abort(i)

Next == \E i \in Ingests : Step(i)

Spec == Init /\ [][Next]_vars

-----------------------------------------------------------------------------
(* Properties                                                               *)

TypeOK ==
    /\ leads \in [LeadIds -> Requests \union {NoLead}]
    /\ ingest \in [Ingests -> Ingest]
    /\ \A i \in Ingests :
        /\ ingest[i].pc # "idle" => ingest[i].request \in Requests
        /\ ingest[i].pc = "update" => ingest[i].found \in Stored
    /\ calls \in Nat
    /\ begun \subseteq Requests
    /\ answered \subseteq [request : Requests, lead : LeadIds]
    /\ moved \subseteq LeadIds
    /\ failed \subseteq Requests

\* So far the CRM gave no external id to a second contact.
ContactsStable ==
    \A q, r \in begun : SameExternal(q, r) => q.contact = r.contact

\* As long as external ids stay with their contacts, concurrent ingests never refuse a
\* request: an insert that lost finds the winner, also when requests without the
\* external id erase it in between, no update runs into a unique index, and no lead is
\* overwritten with another contact on the strength of a lookup that is stale by then.
IngestNeverFails == ContactsStable => failed = {} /\ moved = {}

\* A request that carries its external id ends at the same lead whenever it is
\* sent again: by a retry, or by the second ingest of one orchestration.
RetriesReuseLead ==
    \A a, b \in answered :
        a.request = b.request /\ a.request.external # NoExternal => a.lead = b.lead

\* Without a stable CRM the only way to a second lead for a contact is that one
\* of the two was overwritten with another contact: no interleaving of lookups,
\* inserts and updates duplicates a lead, whatever external ids the requests carry.
SecondLeadOnlyAfterMove ==
    \A a, b \in answered :
        a.request.contact = b.request.contact /\ a.lead # b.lead
        => a.lead \in moved \/ b.lead \in moved
=============================================================================
