------------------------- MODULE LeadIngestionProofs -------------------------
(***************************************************************************)
(* What LeadIngestion guarantees for any number of concurrent ingests, any *)
(* requests and any number of retries.                                     *)
(***************************************************************************)
EXTENDS LeadIngestion, TLAPS

USE NoLeadAssumption

-----------------------------------------------------------------------------
(* Types                                                                    *)

LEMMA LookupTyped ==
    ASSUME TypeOK, NEW i \in Ingests, NEW q \in Requests, NEW again \in BOOLEAN,
           Lookup(i, q, again), leads' = leads
    PROVE  /\ ingest' \in [Ingests -> Ingest]
           /\ \A k \in Ingests :
                /\ ingest'[k].pc # "idle" => ingest'[k].request \in Requests
                /\ ingest'[k].pc = "update" => ingest'[k].found \in Stored'
    BY DEF TypeOK, Lookup, Ingest, Stored

LEMMA GoToTyped ==
    ASSUME TypeOK, NEW i \in Ingests, NEW pc \in {"find_contact", "create", "update"},
           NEW id \in LeadIds \union {NoLead}, ingest[i].pc # "idle",
           pc = "update" => id \in Stored,
           GoTo(i, pc, id), leads' = leads
    PROVE  /\ ingest' \in [Ingests -> Ingest]
           /\ \A k \in Ingests :
                /\ ingest'[k].pc # "idle" => ingest'[k].request \in Requests
                /\ ingest'[k].pc = "update" => ingest'[k].found \in Stored'
    BY DEF TypeOK, GoTo, Ingest, Stored

\* Ending a call keeps the types, also when it stored a lead.
LEMMA EndTyped ==
    ASSUME TypeOK, NEW i \in Ingests,
           ingest' = [ingest EXCEPT ![i] = IdleIngest], Stored \subseteq Stored'
    PROVE  /\ ingest' \in [Ingests -> Ingest]
           /\ \A k \in Ingests :
                /\ ingest'[k].pc # "idle" => ingest'[k].request \in Requests
                /\ ingest'[k].pc = "update" => ingest'[k].found \in Stored'
    BY DEF TypeOK, IdleIngest, Ingest

\* Writing a request to a row keeps every other lead stored.
LEMMA WriteTyped ==
    ASSUME TypeOK, NEW id \in LeadIds, NEW q \in Requests,
           leads' = [leads EXCEPT ![id] = q]
    PROVE  /\ leads' \in [LeadIds -> Requests \union {NoLead}]
           /\ Stored' = Stored \union {id}
    BY DEF TypeOK, Stored

LEMMA TypeInit == Init => TypeOK
    BY DEF Init, TypeOK, IdleIngest, Ingest

LEMMA TypeNext ==
    ASSUME TypeOK, [Next]_vars
    PROVE  TypeOK'
<1>1. ASSUME NEW i \in Ingests, NEW q \in Requests, Begin(i, q)
      PROVE  TypeOK'
    <2>1. leads' = leads /\ Lookup(i, q, FALSE)
        BY <1>1 DEF Begin
    <2>2. UNCHANGED <<answered, moved, failed>> /\ calls' \in Nat
          /\ begun' \subseteq Requests
        BY <1>1 DEF Begin, TypeOK
    <2>3. QED  BY <2>1, <2>2, LookupTyped DEF TypeOK
<1>2. ASSUME NEW i \in Ingests, FindByExternal(i)
      PROVE  TypeOK'
    <2>1. PICK id \in LeadIds \union {NoLead}, pc \in {"find_contact", "update"} :
            (pc = "update" => id \in Stored) /\ GoTo(i, pc, id)
        BY <1>2 DEF FindByExternal, Stored
    <2>2. ingest[i].pc # "idle" /\ UNCHANGED <<leads, calls, begun, answered, moved, failed>>
        BY <1>2 DEF FindByExternal
    <2>3. QED  BY <2>1, <2>2, GoToTyped DEF TypeOK
<1>3. ASSUME NEW i \in Ingests, FindByContact(i)
      PROVE  TypeOK'
    <2>1. ingest[i].pc # "idle" /\ UNCHANGED <<leads, calls, begun, answered, moved>>
        BY <1>3 DEF FindByContact
    <2>2. CASE ingest' = [ingest EXCEPT ![i] = IdleIngest]
               /\ failed' = failed \union {ingest[i].request}
        <3>1. Stored' = Stored
            BY <2>1 DEF Stored
        <3>2. QED  BY <2>1, <2>2, <3>1, EndTyped DEF TypeOK
    <2>3. ASSUME NEW id \in LeadIds \union {NoLead}, NEW pc \in {"create", "update"},
                 pc = "update" => id \in Stored, GoTo(i, pc, id), UNCHANGED failed
          PROVE  TypeOK'
        BY <2>1, <2>3, GoToTyped DEF TypeOK
    <2>4. QED  BY <1>3, <2>2, <2>3 DEF FindByContact, Stored
<1>4. ASSUME NEW i \in Ingests, Create(i)
      PROVE  TypeOK'
    <2>1. ingest[i].request \in Requests /\ UNCHANGED <<calls, begun, moved, failed>>
        BY <1>4 DEF Create, TypeOK
    <2>2. ASSUME NEW id \in LeadIds, leads' = [leads EXCEPT ![id] = ingest[i].request],
                 Answer(i, id)
          PROVE  TypeOK'
        <3>1. Stored \subseteq Stored'
              /\ leads' \in [LeadIds -> Requests \union {NoLead}]
            BY <2>1, <2>2, WriteTyped
        <3>2. ingest' = [ingest EXCEPT ![i] = IdleIngest]
              /\ answered' \subseteq [request : Requests, lead : LeadIds]
            BY <2>1, <2>2 DEF Answer, TypeOK
        <3>3. QED  BY <2>1, <3>1, <3>2, EndTyped DEF TypeOK
    <2>3. CASE Lookup(i, ingest[i].request, TRUE) /\ UNCHANGED <<leads, answered>>
        BY <2>1, <2>3, LookupTyped DEF TypeOK
    <2>4. QED  BY <1>4, <2>2, <2>3 DEF Create
<1>5. ASSUME NEW i \in Ingests, Update(i)
      PROVE  TypeOK'
    <2>1. ingest[i].request \in Requests /\ ingest[i].found \in Stored
          /\ UNCHANGED <<calls, begun>>
        BY <1>5 DEF Update, TypeOK
    <2>2. ingest[i].found \in LeadIds
        BY <2>1 DEF Stored
    <2>3. CASE leads' = [leads EXCEPT ![ingest[i].found] = ingest[i].request]
               /\ moved' = (IF leads[ingest[i].found].contact = ingest[i].request.contact
                             THEN moved ELSE moved \union {ingest[i].found})
               /\ Answer(i, ingest[i].found) /\ UNCHANGED failed
        <3>1. Stored \subseteq Stored'
              /\ leads' \in [LeadIds -> Requests \union {NoLead}]
            BY <2>1, <2>2, <2>3, WriteTyped
        <3>2. ingest' = [ingest EXCEPT ![i] = IdleIngest]
              /\ answered' \subseteq [request : Requests, lead : LeadIds]
              /\ moved' \subseteq LeadIds
            BY <2>1, <2>2, <2>3 DEF Answer, TypeOK
        <3>3. QED  BY <2>1, <2>3, <3>1, <3>2, EndTyped DEF TypeOK
    <2>4. CASE ingest' = [ingest EXCEPT ![i] = IdleIngest]
               /\ failed' = failed \union {ingest[i].request}
               /\ UNCHANGED <<leads, answered, moved>>
        <3>1. Stored' = Stored
            BY <2>4 DEF Stored
        <3>2. QED  BY <2>1, <2>4, <3>1, EndTyped DEF TypeOK
    <2>5. QED  BY <1>5, <2>3, <2>4 DEF Update
<1>6. ASSUME NEW i \in Ingests, Abort(i)
      PROVE  TypeOK'
    <2>1. Stored' = Stored
        BY <1>6 DEF Abort, Stored
    <2>2. QED  BY <1>6, <2>1, EndTyped DEF Abort, TypeOK
<1>7. CASE UNCHANGED vars
    BY <1>7 DEF vars, TypeOK, Stored
<1>8. QED  BY <1>1, <1>2, <1>3, <1>4, <1>5, <1>6, <1>7 DEF Next, Step

\* Ingests, rows and answers hold values of their types, and an update always has
\* a stored lead to write.
THEOREM TypeCorrect == Spec => []TypeOK
    BY TypeInit, TypeNext, PTL DEF Spec

-----------------------------------------------------------------------------
(* One lead per identity                                                    *)

UniqueKeys ==
    \A a, b \in Stored :
        leads[a].contact = leads[b].contact \/ SameExternal(leads[a], leads[b]) => a = b

\* An answered lead is there, with the contact of the request unless it moved.
AnswersKept ==
    \A a \in answered :
        /\ a.lead \in Stored
        /\ a.lead \in moved \/ leads[a.lead].contact = a.request.contact

IdentityInv == UniqueKeys /\ AnswersKept

LEMMA WriteKeepsKeys ==
    ASSUME TypeOK, UniqueKeys, NEW id \in LeadIds, NEW q \in Requests,
           Conflicts(q) \subseteq {id}, leads' = [leads EXCEPT ![id] = q]
    PROVE  UniqueKeys'
<1>1. Stored' = Stored \union {id} /\ leads'[id] = q
    BY WriteTyped DEF TypeOK
<1>2. \A a \in Stored' : a # id => a \in Stored /\ leads'[a] = leads[a]
    BY <1>1 DEF TypeOK, Stored
<1>3. \A a \in Stored : a # id => leads[a].contact # q.contact /\ ~SameExternal(q, leads[a])
    BY DEF Conflicts
<1>4. SUFFICES ASSUME NEW a \in Stored', NEW b \in Stored', a # b
               PROVE  /\ leads'[a].contact # leads'[b].contact
                      /\ ~SameExternal(leads'[a], leads'[b])
    BY DEF UniqueKeys, SameExternal
<1>5. CASE a = id
    BY <1>1, <1>2, <1>3, <1>4, <1>5
<1>6. CASE b = id
    BY <1>1, <1>2, <1>3, <1>4, <1>6 DEF SameExternal
<1>7. CASE a # id /\ b # id
    BY <1>2, <1>4, <1>7 DEF UniqueKeys
<1>8. QED  BY <1>5, <1>6, <1>7

LEMMA IdentityInit == Init => IdentityInv
    BY DEF Init, IdentityInv, UniqueKeys, AnswersKept, Stored

LEMMA IdentityNext ==
    ASSUME TypeOK, IdentityInv, [Next]_vars
    PROVE  IdentityInv'
<1>1. ASSUME UNCHANGED <<leads, answered, moved>>
      PROVE  IdentityInv'
    BY <1>1 DEF IdentityInv, UniqueKeys, AnswersKept, Stored, SameExternal
<1>2. ASSUME NEW i \in Ingests, NEW id \in LeadIds, ingest[i].request \in Requests,
             Conflicts(ingest[i].request) \subseteq {id},
             leads' = [leads EXCEPT ![id] = ingest[i].request], Answer(i, id),
             moved \subseteq moved', moved' \subseteq moved \union {id},
             id \in Stored /\ id \notin moved'
                => leads[id].contact = ingest[i].request.contact
      PROVE  IdentityInv'
    <2>1. UniqueKeys'
        BY <1>2, WriteKeepsKeys DEF IdentityInv
    <2>2. Stored' = Stored \union {id} /\ leads'[id] = ingest[i].request
        BY <1>2, WriteTyped DEF TypeOK
    <2>3. ASSUME NEW a \in answered
          PROVE  a.lead \in Stored' /\ (a.lead \in moved' \/ leads'[a.lead].contact = a.request.contact)
        <3>1. a.lead \in Stored /\ (a.lead \in moved \/ leads[a.lead].contact = a.request.contact)
            BY DEF IdentityInv, AnswersKept
        <3>2. CASE a.lead = id
            BY <1>2, <2>2, <3>1, <3>2
        <3>3. CASE a.lead # id
            BY <1>2, <2>2, <3>1, <3>3 DEF TypeOK, Stored
        <3>4. QED  BY <3>2, <3>3
    <2>4. \A a \in answered' :
            a \in answered \/ a = [request |-> ingest[i].request, lead |-> id]
        BY <1>2 DEF Answer
    <2>5. AnswersKept'
        BY <2>2, <2>3, <2>4 DEF AnswersKept
    <2>6. QED  BY <2>1, <2>5 DEF IdentityInv
<1>3. ASSUME NEW i \in Ingests, Create(i)
      PROVE  IdentityInv'
    BY <1>1, <1>2, <1>3 DEF Create, TypeOK
<1>4. ASSUME NEW i \in Ingests, Update(i)
      PROVE  IdentityInv'
    <2>1. ingest[i].request \in Requests /\ ingest[i].found \in LeadIds
        BY <1>4 DEF Update, TypeOK, Stored
    <2>2. QED  BY <1>1, <1>2, <1>4, <2>1 DEF Update
<1>5. QED  BY <1>1, <1>3, <1>4 DEF Next, Step, Begin, FindByExternal, FindByContact, Abort, vars

\* No interleaving of lookups, inserts and updates gives a contact a second lead,
\* unless one of the two was overwritten with another contact.
THEOREM LeadsAreUnique == Spec => []SecondLeadOnlyAfterMove
<1>1. TypeOK /\ IdentityInv => SecondLeadOnlyAfterMove
    BY DEF IdentityInv, UniqueKeys, AnswersKept, SecondLeadOnlyAfterMove
<1>2. QED  BY <1>1, TypeInit, TypeNext, IdentityInit, IdentityNext, PTL DEF Spec

-----------------------------------------------------------------------------
(* Ingests never fail                                                       *)

\* Calls, rows and answers carry requests that were sent.
SentInv ==
    /\ \A a \in answered : a.request \in begun
    /\ \A i \in Ingests : ingest[i].pc # "idle" => ingest[i].request \in begun
    /\ \A id \in Stored : leads[id] \in begun

LEMMA SentInit == Init => SentInv
    BY DEF Init, SentInv, IdleIngest, Stored

LEMMA SentNext ==
    ASSUME TypeOK, SentInv, [Next]_vars
    PROVE  SentInv'
<1>1. ASSUME NEW i \in Ingests, NEW q \in Requests, Begin(i, q)
      PROVE  SentInv'
    BY <1>1 DEF Begin, Lookup, SentInv, TypeOK, Stored
<1>2. ASSUME NEW i \in Ingests, ingest[i].pc # "idle", UNCHANGED <<leads, begun, answered>>,
             \/ ingest' = [ingest EXCEPT ![i] = IdleIngest]
             \/ Lookup(i, ingest[i].request, TRUE)
             \/ \E pc \in {"find_contact", "create", "update"},
                   id \in LeadIds \union {NoLead} : GoTo(i, pc, id)
      PROVE  SentInv'
    <2>1. \A k \in Ingests \ {i} : ingest'[k] = ingest[k]
        BY <1>2 DEF GoTo, Lookup, TypeOK
    <2>2. ingest'[i].pc = "idle" \/ ingest'[i].request = ingest[i].request
        BY <1>2 DEF GoTo, Lookup, IdleIngest, TypeOK
    <2>3. QED  BY <1>2, <2>1, <2>2 DEF SentInv, Stored
<1>3. ASSUME NEW i \in Ingests, NEW id \in LeadIds, ingest[i].pc # "idle",
             leads' = [leads EXCEPT ![id] = ingest[i].request], Answer(i, id),
             UNCHANGED begun
      PROVE  SentInv'
    BY <1>3 DEF Answer, IdleIngest, SentInv, Stored, TypeOK
<1>4. ASSUME NEW i \in Ingests, FindByExternal(i)
      PROVE  SentInv'
    BY <1>2, <1>4 DEF FindByExternal, Stored
<1>5. ASSUME NEW i \in Ingests, FindByContact(i)
      PROVE  SentInv'
    BY <1>2, <1>5 DEF FindByContact, Stored
<1>6. ASSUME NEW i \in Ingests, Create(i)
      PROVE  SentInv'
    BY <1>2, <1>3, <1>6 DEF Create
<1>7. ASSUME NEW i \in Ingests, Update(i)
      PROVE  SentInv'
    <2>1. ingest[i].found \in LeadIds /\ ingest[i].pc # "idle"
        BY <1>7 DEF Update, TypeOK, Stored
    <2>2. QED  BY <1>2, <1>3, <1>7, <2>1 DEF Update
<1>8. ASSUME NEW i \in Ingests, Abort(i)
      PROVE  SentInv'
    BY <1>2, <1>8 DEF Abort
<1>9. CASE UNCHANGED vars
    BY <1>9 DEF vars, SentInv, Stored
<1>10. QED  BY <1>1, <1>4, <1>5, <1>6, <1>7, <1>8, <1>9 DEF Next, Step

\* A call that is about to update, or that lost its insert, has a lead with its
\* contact to write.
HasTarget(i) ==
    /\ ingest[i].pc = "find_external" => ingest[i].request.external # NoExternal
    /\ ingest[i].pc = "update" => leads[ingest[i].found].contact = ingest[i].request.contact
    /\ ingest[i].again /\ ingest[i].pc \in {"find_external", "find_contact"}
        => \E id \in Stored : leads[id].contact = ingest[i].request.contact

NoFailureInv == failed = {} /\ moved = {} /\ \A i \in Ingests : HasTarget(i)

LEMMA ExternalGivesContact ==
    ASSUME SentInv, ContactsStable, NEW id \in Stored, NEW q \in begun,
           SameExternal(q, leads[id])
    PROVE  leads[id].contact = q.contact
    BY DEF ContactsStable, SentInv

LEMMA ConflictHasContact ==
    ASSUME SentInv, ContactsStable, NEW q \in begun, NEW id \in Conflicts(q)
    PROVE  id \in Stored /\ leads[id].contact = q.contact
    BY ExternalGivesContact DEF Conflicts

\* A step that writes no contact over another leaves the other calls' targets.
LEMMA OthersKeepTargets ==
    ASSUME TypeOK, NoFailureInv, NEW i \in Ingests,
           \A id \in Stored : id \in Stored' /\ leads'[id].contact = leads[id].contact,
           \A k \in Ingests \ {i} : ingest'[k] = ingest[k]
    PROVE  \A k \in Ingests \ {i} : HasTarget(k)'
<1> TAKE k \in Ingests \ {i}
<1>1. ingest[k].pc = "update" => ingest[k].found \in Stored
    BY DEF TypeOK
<1>2. QED  BY <1>1 DEF NoFailureInv, HasTarget

LEMMA NoFailureInit == Init => NoFailureInv
    BY DEF Init, NoFailureInv, HasTarget, IdleIngest

\* Without a write only the moving call's own target is in question.
LEMMA ReadKeepsTargets ==
    ASSUME TypeOK, NoFailureInv, NEW i \in Ingests, UNCHANGED <<leads, failed, moved>>,
           \A k \in Ingests \ {i} : ingest'[k] = ingest[k], HasTarget(i)'
    PROVE  NoFailureInv'
<1>1. \A id \in Stored : id \in Stored' /\ leads'[id].contact = leads[id].contact
    BY DEF Stored
<1>2. \A k \in Ingests \ {i} : HasTarget(k)'
    BY <1>1, OthersKeepTargets
<1>3. QED  BY <1>2 DEF NoFailureInv

LEMMA WriteKeepsTargets ==
    ASSUME TypeOK, NoFailureInv, NEW i \in Ingests, NEW id \in LeadIds, NEW q \in Requests,
           leads' = [leads EXCEPT ![id] = q],
           id \in Stored => leads[id].contact = q.contact,
           ingest' = [ingest EXCEPT ![i] = IdleIngest], UNCHANGED <<failed, moved>>
    PROVE  NoFailureInv'
<1>1. \A l \in Stored : l \in Stored' /\ leads'[l].contact = leads[l].contact
    BY WriteTyped DEF TypeOK, Stored
<1>2. \A k \in Ingests \ {i} : ingest'[k] = ingest[k]
    BY DEF TypeOK
<1>3. HasTarget(i)'
    BY DEF HasTarget, IdleIngest, TypeOK
<1>4. QED  BY <1>1, <1>2, <1>3, OthersKeepTargets DEF NoFailureInv

LEMMA NoFailureNext ==
    ASSUME ContactsStable, TypeOK, SentInv, IdentityInv, NoFailureInv, [Next]_vars
    PROVE  NoFailureInv'
<1>1. ASSUME NEW i \in Ingests, NEW q \in Requests, Begin(i, q)
      PROVE  NoFailureInv'
    <2>1. HasTarget(i)' /\ UNCHANGED <<leads, failed, moved>>
          /\ \A k \in Ingests \ {i} : ingest'[k] = ingest[k]
        BY <1>1 DEF Begin, Lookup, HasTarget, TypeOK
    <2>2. QED  BY <2>1, ReadKeepsTargets
<1>2. ASSUME NEW i \in Ingests, FindByExternal(i)
      PROVE  NoFailureInv'
    <2>1. UNCHANGED <<leads, failed, moved>>
          /\ \A k \in Ingests \ {i} : ingest'[k] = ingest[k]
        BY <1>2 DEF FindByExternal, GoTo, TypeOK
    <2>2. ingest[i].request \in begun
        BY <1>2 DEF FindByExternal, SentInv
    <2>3. ASSUME NEW id \in Stored, leads[id].external = ingest[i].request.external,
                 GoTo(i, "update", id)
          PROVE  HasTarget(i)'
        <3>1. ingest[i].request.external # NoExternal
            BY <1>2 DEF FindByExternal, NoFailureInv, HasTarget
        <3>2. leads[id].contact = ingest[i].request.contact
            BY <2>2, <2>3, <3>1, ExternalGivesContact DEF SameExternal
        <3>3. ingest'[i].found = id /\ ingest'[i].request = ingest[i].request
              /\ ingest'[i].pc = "update"
            BY <2>3 DEF GoTo, TypeOK
        <3>4. QED  BY <2>1, <3>2, <3>3 DEF HasTarget
    <2>4. CASE GoTo(i, "find_contact", NoLead)
        <3>1. ingest'[i].pc = "find_contact" /\ ingest'[i].request = ingest[i].request
              /\ ingest'[i].again = ingest[i].again
            BY <2>4 DEF GoTo, TypeOK
        <3>2. HasTarget(i) /\ ingest[i].pc = "find_external" /\ Stored' = Stored
            BY <1>2, <2>1 DEF NoFailureInv, FindByExternal, Stored
        <3>3. HasTarget(i)'
            BY <2>1, <3>1, <3>2 DEF HasTarget
        <3>4. QED  BY <2>1, <3>3, ReadKeepsTargets
    <2>5. QED  BY <1>2, <2>1, <2>3, <2>4, ReadKeepsTargets DEF FindByExternal
<1>3. ASSUME NEW i \in Ingests, FindByContact(i)
      PROVE  NoFailureInv'
    <2>1. HasTarget(i) /\ ingest[i].pc = "find_contact" /\ UNCHANGED <<leads, moved>>
        BY <1>3 DEF NoFailureInv, FindByContact
    <2>2. ASSUME NEW id \in Stored, leads[id].contact = ingest[i].request.contact,
                 GoTo(i, "update", id), UNCHANGED failed
          PROVE  NoFailureInv'
        <3>1. HasTarget(i)' /\ \A k \in Ingests \ {i} : ingest'[k] = ingest[k]
            BY <2>1, <2>2 DEF GoTo, HasTarget, TypeOK
        <3>2. QED  BY <2>1, <2>2, <3>1, ReadKeepsTargets
    <2>3. CASE ~ingest[i].again /\ GoTo(i, "create", NoLead) /\ UNCHANGED failed
        <3>1. HasTarget(i)' /\ \A k \in Ingests \ {i} : ingest'[k] = ingest[k]
            BY <2>1, <2>3 DEF GoTo, HasTarget, TypeOK
        <3>2. QED  BY <2>1, <2>3, <3>1, ReadKeepsTargets
    <2>4. ASSUME \A id \in Stored : leads[id].contact # ingest[i].request.contact
          PROVE  ~ingest[i].again
        BY <2>1, <2>4 DEF HasTarget
    <2>5. QED  BY <1>3, <2>2, <2>3, <2>4 DEF FindByContact
<1>4. ASSUME NEW i \in Ingests, Create(i)
      PROVE  NoFailureInv'
    <2>1. ingest[i].request \in Requests /\ ingest[i].request \in begun /\ UNCHANGED <<failed, moved>>
        BY <1>4 DEF Create, TypeOK, SentInv
    <2>2. ASSUME NEW id \in LeadIds \ Stored,
                 leads' = [leads EXCEPT ![id] = ingest[i].request], Answer(i, id)
          PROVE  NoFailureInv'
        BY <2>1, <2>2, WriteKeepsTargets DEF Answer
    <2>3. CASE /\ Conflicts(ingest[i].request) # {}
               /\ Lookup(i, ingest[i].request, TRUE)
               /\ UNCHANGED <<leads, moved>>
        <3>1. \E id \in Stored : leads[id].contact = ingest[i].request.contact
            BY <2>1, <2>3, ConflictHasContact
        <3>2. ingest'[i].request = ingest[i].request /\ ingest'[i].pc # "update"
              /\ (ingest'[i].pc = "find_external" => ingest'[i].request.external # NoExternal)
              /\ \A k \in Ingests \ {i} : ingest'[k] = ingest[k]
            BY <2>3 DEF Lookup, TypeOK
        <3>3. HasTarget(i)'
            BY <2>3, <3>1, <3>2 DEF HasTarget, Stored
        <3>4. QED  BY <2>1, <2>3, <3>2, <3>3, ReadKeepsTargets
    <2>4. QED  BY <1>4, <2>2, <2>3 DEF Create
<1>5. ASSUME NEW i \in Ingests, Update(i)
      PROVE  NoFailureInv'
    <2>1. /\ ingest[i].request \in Requests /\ ingest[i].request \in begun
          /\ ingest[i].found \in Stored
          /\ leads[ingest[i].found].contact = ingest[i].request.contact
        BY <1>5 DEF Update, TypeOK, SentInv, NoFailureInv, HasTarget
    <2>2. Conflicts(ingest[i].request) \subseteq {ingest[i].found}
        BY <2>1, ConflictHasContact DEF IdentityInv, UniqueKeys
    <2>3. ingest[i].found \in LeadIds
        BY <2>1 DEF Stored
    <2>4. QED  BY <1>5, <2>1, <2>2, <2>3, WriteKeepsTargets DEF Update, Answer
<1>6. ASSUME NEW i \in Ingests, Abort(i)
      PROVE  NoFailureInv'
    <2>1. HasTarget(i)' /\ \A k \in Ingests \ {i} : ingest'[k] = ingest[k]
        BY <1>6 DEF Abort, HasTarget, IdleIngest, TypeOK
    <2>2. QED  BY <1>6, <2>1, ReadKeepsTargets DEF Abort
<1>7. CASE UNCHANGED vars
    BY <1>7 DEF vars, NoFailureInv, HasTarget, Stored
<1>8. QED  BY <1>1, <1>2, <1>3, <1>4, <1>5, <1>6, <1>7 DEF Next, Step

\* While the CRM keeps external ids with their contacts, no ingest is ever refused,
\* however many race and whichever of them erase the external id.
THEOREM IngestsSucceed == Spec => []IngestNeverFails
<1> DEFINE Inv == ContactsStable => NoFailureInv
<1>1. Init => Inv
    BY NoFailureInit
<1>2. TypeOK /\ SentInv /\ IdentityInv /\ Inv /\ [Next]_vars => Inv'
    <2>1. [Next]_vars => begun \subseteq begun'
        BY DEF Next, Step, Begin, FindByExternal, FindByContact, Create, Update, Abort, vars
    <2>2. begun \subseteq begun' /\ ContactsStable' => ContactsStable
        BY DEF ContactsStable, SameExternal
    <2>3. QED  BY <2>1, <2>2, NoFailureNext
<1>3. Inv => IngestNeverFails
    BY DEF NoFailureInv, IngestNeverFails
<1>4. QED  BY <1>1, <1>2, <1>3, TypeInit, TypeNext, SentInit, SentNext,
             IdentityInit, IdentityNext, PTL DEF Spec

\* While external ids stay with their contacts, a lead is what it is meant to be: all
\* requests of one contact or of one external id are answered with the same lead.
OneLeadPerIdentity ==
    ContactsStable =>
        \A a, b \in answered :
            a.request.contact = b.request.contact \/ SameExternal(a.request, b.request)
            => a.lead = b.lead

\* A retry, a resend without the id and the second ingest of an orchestration all reach
\* the lead of the first, whatever ingests race with them: RetriesReuseLead fails only
\* when the CRM has moved an id to another contact.
THEOREM IngestsAgree == Spec => []OneLeadPerIdentity
<1>1. SentInv /\ SecondLeadOnlyAfterMove /\ IngestNeverFails => OneLeadPerIdentity
    <2> SUFFICES ASSUME SentInv, SecondLeadOnlyAfterMove, IngestNeverFails, ContactsStable,
                        NEW a \in answered, NEW b \in answered,
                        \/ a.request.contact = b.request.contact
                        \/ SameExternal(a.request, b.request)
                 PROVE  a.lead = b.lead
        BY DEF OneLeadPerIdentity
    <2>1. a.request.contact = b.request.contact
        BY DEF ContactsStable, SentInv
    <2>2. QED  BY <2>1 DEF SecondLeadOnlyAfterMove, IngestNeverFails
<1>2. QED  BY <1>1, LeadsAreUnique, IngestsSucceed, SentInit, SentNext, TypeInit, TypeNext,
             PTL DEF Spec
=============================================================================
