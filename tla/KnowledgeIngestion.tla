-------------------------- MODULE KnowledgeIngestion --------------------------
(***************************************************************************)
(* The knowledge base: KnowledgeIngestionService.ingest stores a document, *)
(* embeds its chunks and stores them, and deletes the document again when  *)
(* anything fails; HOT orchestrations search the chunks and, after a model *)
(* has read them, store which ones they rest on.  The database cascades the*)
(* deletion of a document to its chunks and refuses it while evidence      *)
(* references one of them.                                                 *)
(*                                                                         *)
(* Each database call is one step and may fail, before or after it was     *)
(* applied; a process may crash between two steps.                         *)
(***************************************************************************)
EXTENDS Naturals, Sequences

CONSTANTS
    Ingests,      \* ingest calls; each stores one document, named after it
    Searches,     \* orchestrations that retrieve and then record evidence
    MaxChunks,    \* bound: chunks of a document
    MaxFaults     \* bound: failed database calls and crashes

ASSUME ChunksAssumption == MaxChunks \in Nat
ASSUME FaultsAssumption == MaxFaults \in Nat

VARIABLES
    ingest,      \* the calls: where they are, and what they hold
    search,      \* the orchestrations: the chunks they retrieved
    documents,   \* the documents stored
    chunks,      \* for each document, the embeddings of its stored chunks, by index
    evidence,    \* the rag_retrievals rows: which search rests on which document
    faults

stored == <<documents, chunks, evidence>>
vars == <<ingest, search, stored, faults>>

\* An embedding is known by the position of the text it was made from.
Embeddings == UNION {[1 .. n -> 1 .. MaxChunks] : n \in 0 .. MaxChunks}

\* texts: how many chunks the document has.
Ingest == [pc : {"idle", "embed", "store", "rollback", "end", "crashed"},
           texts : 0 .. MaxChunks, embeddings : Embeddings,
           answer : {"none", "created", "error"}]

Search == [pc : {"idle", "found", "stored", "refused", "failed"}, found : SUBSET Ingests]

Init ==
    /\ ingest = [i \in Ingests |-> [pc |-> "idle", texts |-> 0, embeddings |-> <<>>,
                                    answer |-> "none"]]
    /\ search = [s \in Searches |-> [pc |-> "idle", found |-> {}]]
    /\ documents = {}
    /\ chunks = [i \in Ingests |-> <<>>]
    /\ evidence = {}
    /\ faults = 0

Searchable == {i \in Ingests : chunks[i] # <<>>}

Cited(i) == \E s \in Searches : <<s, i>> \in evidence

Fault == faults < MaxFaults /\ faults' = faults + 1

-----------------------------------------------------------------------------
(* KnowledgeIngestionService.ingest                                         *)

Goto(i, pc) == ingest' = [ingest EXCEPT ![i].pc = pc]

Answer(i, answer) ==
    ingest' = [ingest EXCEPT ![i].pc = "end", ![i].answer = answer]

\* The document row comes first, outside the handler that rolls back.  A request
\* is never blank, so the chunker returns at least one chunk.
CreateDocument(i) ==
    /\ ingest[i].pc = "idle"
    /\ \/ /\ documents' = documents \union {i}
          /\ \E n \in 1 .. MaxChunks :
                ingest' = [ingest EXCEPT ![i].pc = "embed", ![i].texts = n]
          /\ UNCHANGED faults
       \/ /\ documents' \in {documents, documents \union {i}}
          /\ Answer(i, "error") /\ Fault
    /\ UNCHANGED <<search, chunks, evidence>>

\* The provider's items, in the order they arrive: each carries the index of a
\* text and the embedding of that text.
Batches(n) == UNION {[1 .. k -> 1 .. n] : k \in 0 .. n}

\* _parse_embeddings: sorted by their index, the items are exactly 1 .. n.
Complete(batch, n) == Len(batch) = n /\ \A k \in 1 .. n : \E j \in 1 .. n : batch[j] = k

\* Faulty variant: the items are kept in the order of their arrival.
AsReceived(batch) == batch

\* Faulty variant: the index, counted from zero, is taken for the position.
FromZero(batch) == [k \in 1 .. Len(batch) |-> k - 1]

\* Sorted by index: the k-th embedding is the one whose item has index k.
ByIndex(batch) ==
    [k \in 1 .. Len(batch) |-> batch[CHOOSE j \in 1 .. Len(batch) : batch[j] = k]]

\* A timeout, a refusal and a batch that is not complete all end in a rollback.
Embed(i) ==
    /\ ingest[i].pc = "embed"
    /\ \/ \E batch \in Batches(ingest[i].texts) :
            /\ Complete(batch, ingest[i].texts)
            /\ ingest' = [ingest EXCEPT ![i].pc = "store", ![i].embeddings = ByIndex(batch)]
       \/ Goto(i, "rollback")
    /\ UNCHANGED <<search, stored, faults>>

\* One insert stores all chunks.
StoreChunks(i) ==
    /\ ingest[i].pc = "store"
    /\ LET inserted == [chunks EXCEPT ![i] = ingest[i].embeddings]
       IN  \/ chunks' = inserted /\ Answer(i, "created") /\ UNCHANGED faults
           \/ chunks' \in {chunks, inserted} /\ Goto(i, "rollback") /\ Fault
    /\ UNCHANGED <<search, documents, evidence>>

\* The cascade of delete_document.
Deleted(i) ==
    /\ documents' = documents \ {i}
    /\ chunks' = [chunks EXCEPT ![i] = <<>>]

\* Faulty variant: without a foreign key on the evidence nothing keeps a cited chunk.
RollbackUnrestricted(i) ==
    /\ ingest[i].pc = "rollback"
    /\ Deleted(i)
    /\ Answer(i, "error")
    /\ UNCHANGED <<search, evidence, faults>>

\* Faulty variant: an ingest that failed to embed is rolled back, one that failed
\* to store is not.
RollbackBeforeStore(i) ==
    /\ ingest[i].pc = "rollback"
    /\ IF ingest[i].embeddings = <<>> THEN Deleted(i) ELSE UNCHANGED <<documents, chunks>>
    /\ Answer(i, "error")
    /\ UNCHANGED <<search, evidence, faults>>

\* Failing to roll back is logged and changes nothing in the answer.
Rollback(i) ==
    /\ ingest[i].pc = "rollback"
    /\ Answer(i, "error")
    /\ \/ ~Cited(i) /\ Deleted(i) /\ UNCHANGED faults
       \/ Cited(i) /\ UNCHANGED <<documents, chunks, faults>>
       \/ UNCHANGED <<documents, chunks>> /\ Fault
       \/ ~Cited(i) /\ Deleted(i) /\ Fault
    /\ UNCHANGED <<search, evidence>>

Crash(i) ==
    /\ ingest[i].pc \in {"embed", "store", "rollback"}
    /\ Goto(i, "crashed") /\ Fault
    /\ UNCHANGED <<search, stored>>

-----------------------------------------------------------------------------
(* RetrievalService.search and create_many of the evidence                  *)

\* Faulty variant: a document is found as soon as its row exists.
FindDocuments(s) ==
    /\ search[s].pc = "idle"
    /\ \E found \in SUBSET documents \ {{}} :
          search' = [search EXCEPT ![s] = [pc |-> "found", found |-> found]]
    /\ UNCHANGED <<ingest, stored, faults>>

\* Which chunks are similar enough to a query is open.  Without any there is no
\* evidence to store.
Find(s) ==
    /\ search[s].pc = "idle"
    /\ \E found \in SUBSET Searchable \ {{}} :
          search' = [search EXCEPT ![s] = [pc |-> "found", found |-> found]]
    /\ UNCHANGED <<ingest, stored, faults>>

\* One insert, refused when a chunk it references is gone.
StoreEvidence(s) ==
    /\ search[s].pc = "found"
    /\ LET cited == evidence \union {<<s, i>> : i \in search[s].found}
           stands == search[s].found \subseteq Searchable
       IN  \/ /\ stands /\ evidence' = cited
              /\ search' = [search EXCEPT ![s].pc = "stored"] /\ UNCHANGED faults
           \/ /\ ~stands /\ UNCHANGED <<evidence, faults>>
              /\ search' = [search EXCEPT ![s].pc = "refused"]
           \/ /\ evidence' \in IF stands THEN {evidence, cited} ELSE {evidence}
              /\ search' = [search EXCEPT ![s].pc = "failed"] /\ Fault
    /\ UNCHANGED <<ingest, documents, chunks>>

Next ==
    \/ \E i \in Ingests : \/ CreateDocument(i) \/ Embed(i) \/ StoreChunks(i)
                          \/ Rollback(i) \/ Crash(i)
    \/ \E s \in Searches : Find(s) \/ StoreEvidence(s)

Spec == Init /\ [][Next]_vars

-----------------------------------------------------------------------------
(* Properties                                                               *)

TypeOK ==
    /\ ingest \in [Ingests -> Ingest]
    /\ search \in [Searches -> Search]
    /\ documents \subseteq Ingests
    /\ chunks \in [Ingests -> Embeddings]
    /\ evidence \subseteq Searches \X Ingests
    /\ faults \in Nat

\* What an auditor reads as evidence exists: the rollback of a document whose
\* chunks were already visible never takes away what a stored run rests on.
EvidenceStands == \A s \in Searches, i \in Ingests :
    <<s, i>> \in evidence => i \in documents /\ i \in Searchable

\* A created answer stands for a document that is searchable from then on, with as
\* many chunks as it has texts, each under the embedding of its own text, in
\* whatever order the provider returned them.
CreatedIsSearchable == \A i \in Ingests : ingest[i].answer = "created" =>
    /\ i \in documents
    /\ Len(chunks[i]) = ingest[i].texts
    /\ \A k \in 1 .. Len(chunks[i]) : chunks[i][k] = k

\* With at most one failed call, the document of an ingest that answered an error
\* is not searchable, unless a search cited its chunks before they were deleted.
FailedLeavesNothing == \A i \in Ingests :
    ingest[i].answer = "error" /\ faults <= 1 => i \notin Searchable \/ Cited(i)

\* Evidence is refused to an orchestration, whose run then fails, only because an
\* ingest it had retrieved from failed and was rolled back.
RefusedForFailedIngest == \A s \in Searches : search[s].pc = "refused" =>
    \E i \in search[s].found : ingest[i].answer = "error" /\ i \notin documents

\* What the publisher of a document and those who search see of it.
Status(i) ==
    CASE ingest[i].answer = "created" -> "served"
      [] ingest[i].answer = "error" -> IF chunks[i] = <<>> THEN "gone" ELSE "kept"
      [] OTHER -> IF chunks[i] = <<>> THEN "absent" ELSE "shown"

Base == INSTANCE CitedKnowledge WITH
    Documents <- Ingests, Readers <- Searches, status <- [i \in Ingests |-> Status(i)],
    reader <- search, citations <- evidence

\* Whatever fails on the way, publishers and readers see a knowledge base in which a
\* document that was cited or reported as created is never withdrawn, a withdrawn one
\* never returns, a failed one stays only when it is cited or its withdrawal failed
\* too, and evidence is refused only over a document that was withdrawn.
BaseSpec == Base!Spec
===============================================================================
