----------------------- MODULE KnowledgeIngestionProofs -----------------------
(***************************************************************************)
(* What KnowledgeIngestion guarantees for any number of ingests, searches, *)
(* chunks and failed calls.                                                *)
(***************************************************************************)
EXTENDS KnowledgeIngestion, TLAPS

Aligned(e, n) == Len(e) = n /\ \A k \in 1 .. n : e[k] = k

LEMMA EmptyTyped == <<>> \in Embeddings /\ Len(<<>>) = 0
<1>1. <<>> \in [1 .. 0 -> 1 .. MaxChunks]
    OBVIOUS
<1>2. 0 \in 0 .. MaxChunks
    BY ChunksAssumption
<1>3. QED  BY <1>1, <1>2 DEF Embeddings

\* Whatever the order the items of a complete batch arrived in, the k-th embedding
\* is that of the k-th text.
LEMMA BatchesAlign ==
    ASSUME NEW n \in 1 .. MaxChunks, NEW batch \in Batches(n), Complete(batch, n)
    PROVE  ByIndex(batch) \in Embeddings /\ Aligned(ByIndex(batch), n) /\ ByIndex(batch) # <<>>
<1>1. Len(batch) = n
    BY DEF Complete
<1>2. \A k \in 1 .. n : batch[CHOOSE j \in 1 .. n : batch[j] = k] = k
    BY DEF Complete
<1>3. ByIndex(batch) = [k \in 1 .. n |-> batch[CHOOSE j \in 1 .. n : batch[j] = k]]
    BY <1>1 DEF ByIndex
<1>4. ByIndex(batch) = [k \in 1 .. n |-> k]
    BY <1>2, <1>3
<1>5. n \in Nat /\ n <= MaxChunks /\ n >= 1
    BY ChunksAssumption
<1>6. ByIndex(batch) \in [1 .. n -> 1 .. MaxChunks]
    <2>1. \A k \in 1 .. n : k \in 1 .. MaxChunks
        BY <1>5, ChunksAssumption
    <2>2. [k \in 1 .. n |-> k] \in [1 .. n -> 1 .. MaxChunks]
        BY <2>1
    <2>3. QED  BY <1>4, <2>2, Zenon
<1>7. ByIndex(batch) \in Embeddings
    BY <1>5, <1>6 DEF Embeddings
<1>8. Len(ByIndex(batch)) = n
    BY <1>4, <1>5
<1>9. \A k \in 1 .. n : ByIndex(batch)[k] = k
    BY <1>4
<1>10. ByIndex(batch) # <<>>
    BY <1>5, <1>8, EmptyTyped
<1>11. QED  BY <1>7, <1>8, <1>9, <1>10 DEF Aligned

-----------------------------------------------------------------------------
(* One ingest, one search                                                   *)

\* Chunks belong to a stored document; a call that has not stored yet has none; an
\* ingest rolls chunks back only after a failed call, and answers with what it left.
IngestSound(i) ==
    /\ chunks[i] # <<>> => i \in documents
    /\ ingest[i].pc \in {"idle", "embed", "store"} =>
        chunks[i] = <<>> /\ ingest[i].answer = "none"
    /\ ingest[i].pc \in {"embed", "store"} => i \in documents
    /\ ingest[i].pc = "embed" => ingest[i].texts >= 1
    /\ ingest[i].pc = "store" =>
        Aligned(ingest[i].embeddings, ingest[i].texts) /\ ingest[i].embeddings # <<>>
    /\ ingest[i].pc \in {"rollback", "crashed"} => ingest[i].answer = "none"
    /\ ingest[i].pc = "rollback" /\ chunks[i] # <<>> => faults >= 1
    /\ ingest[i].answer = "created" =>
        i \in documents /\ Aligned(chunks[i], ingest[i].texts) /\ chunks[i] # <<>>
    /\ ingest[i].answer = "error" /\ chunks[i] # <<>> => Cited(i) \/ faults >= 2

\* What a search found is stored, or its ingest failed and took it back.
SearchSound(s) ==
    /\ search[s].pc = "idle" => search[s].found = {}
    /\ \A i \in search[s].found :
        chunks[i] # <<>> \/ (ingest[i].answer = "error" /\ i \notin documents)
    /\ search[s].pc = "refused" => \E i \in search[s].found : chunks[i] = <<>>

EvidenceSound == \A s \in Searches, i \in Ingests :
    <<s, i>> \in evidence => chunks[i] # <<>>

IInv ==
    /\ TypeOK
    /\ \A i \in Ingests : IngestSound(i)
    /\ \A s \in Searches : SearchSound(s)
    /\ EvidenceSound

LEMMA InitSound == Init => IInv
<1> SUFFICES ASSUME Init PROVE IInv
    OBVIOUS
<1>1. TypeOK
    BY EmptyTyped, ChunksAssumption DEF Init, TypeOK, Ingest, Search
<1>2. QED  BY <1>1 DEF Init, IInv, IngestSound, SearchSound, EvidenceSound

\* An ingest that only goes on leaves the other ingests, the searches and the
\* evidence sound when it takes no chunk away.
LEMMA OtherIngests ==
    ASSUME IInv, NEW i \in Ingests, NEW r \in Ingest, ingest' = [ingest EXCEPT ![i] = r],
           documents' \ {i} = documents \ {i},
           \A j \in Ingests \ {i} : chunks'[j] = chunks[j],
           faults' \in Nat, faults' >= faults, UNCHANGED <<search, evidence>>
    PROVE  \A j \in Ingests \ {i} : IngestSound(j)'
<1> SUFFICES ASSUME NEW j \in Ingests \ {i} PROVE IngestSound(j)'
    OBVIOUS
<1>1. ingest'[j] = ingest[j] /\ chunks'[j] = chunks[j] /\ (j \in documents' <=> j \in documents)
    BY DEF IInv, TypeOK
<1>2. Cited(j)' <=> Cited(j)
    BY DEF Cited
<1>3. IngestSound(j) /\ faults \in Nat
    BY DEF IInv, TypeOK
<1>4. QED  BY <1>1, <1>2, <1>3 DEF IngestSound

\* Chunks only go with the answer that tells of it, and never while they are cited.
LEMMA SearchesStaySound ==
    ASSUME IInv, NEW i \in Ingests, NEW r \in Ingest, ingest' = [ingest EXCEPT ![i] = r],
           documents' \ {i} = documents \ {i},
           \A j \in Ingests \ {i} : chunks'[j] = chunks[j],
           UNCHANGED <<search, evidence>>,
           chunks[i] # <<>> => \/ chunks'[i] # <<>>
                               \/ r.answer = "error" /\ i \notin documents' /\ ~Cited(i),
           ingest[i].answer = "error" =>
                /\ r.answer = "error" /\ (i \in documents' <=> i \in documents)
                /\ chunks[i] = <<>> => chunks'[i] = <<>>
    PROVE  (\A s \in Searches : SearchSound(s))' /\ EvidenceSound'
<1>1. \A j \in Ingests \ {i} : /\ ingest'[j] = ingest[j] /\ chunks'[j] = chunks[j]
                              /\ j \in documents' <=> j \in documents
    BY DEF IInv, TypeOK
<1>2. ingest'[i] = r
    BY DEF IInv, TypeOK
<1>3. \A s \in Searches : SearchSound(s)'
    <2> SUFFICES ASSUME NEW s \in Searches PROVE SearchSound(s)'
        OBVIOUS
    <2>1. SearchSound(s) /\ search' = search /\ search[s].found \subseteq Ingests
        BY DEF IInv, TypeOK, Search
    <2>2. \A j \in search[s].found :
            \/ chunks'[j] # <<>>
            \/ ingest'[j].answer = "error" /\ j \notin documents'
        BY <1>1, <1>2, <2>1 DEF SearchSound
    <2>3. \A j \in search[s].found : chunks[j] = <<>> => chunks'[j] = <<>>
        BY <1>1, <2>1 DEF SearchSound
    <2>4. QED  BY <2>1, <2>2, <2>3 DEF SearchSound
<1>4. EvidenceSound'
    BY <1>1 DEF IInv, EvidenceSound, Cited
<1>5. QED  BY <1>3, <1>4

-----------------------------------------------------------------------------
(* The steps                                                                *)

LEMMA CreateDocumentSound ==
    ASSUME IInv, NEW i \in Ingests, CreateDocument(i)
    PROVE  IInv'
<1>1. ingest[i] \in Ingest /\ ingest[i].pc = "idle" /\ IngestSound(i) /\ faults \in Nat
    BY DEF IInv, TypeOK, CreateDocument
<1>2. PICK r \in Ingest :
        /\ ingest' = [ingest EXCEPT ![i] = r]
        /\ \/ r.pc = "embed" /\ r.answer = "none" /\ r.texts >= 1
              /\ documents' = documents \union {i}
           \/ r.pc = "end" /\ r.answer = "error"
              /\ documents' \in {documents, documents \union {i}}
    <2>1. CASE /\ documents' = documents \union {i}
               /\ \E n \in 1 .. MaxChunks :
                    ingest' = [ingest EXCEPT ![i].pc = "embed", ![i].texts = n]
        <3>1. PICK n \in 1 .. MaxChunks :
                    ingest' = [ingest EXCEPT ![i].pc = "embed", ![i].texts = n]
            BY <2>1
        <3> DEFINE r == [ingest[i] EXCEPT !.pc = "embed", !.texts = n]
        <3>2. n \in 0 .. MaxChunks /\ n >= 1
            BY ChunksAssumption
        <3>3. r \in Ingest /\ r.pc = "embed" /\ r.answer = "none" /\ r.texts >= 1
            BY <1>1, <3>2 DEF Ingest, IngestSound
        <3>4. ingest' = [ingest EXCEPT ![i] = r]
            BY <3>1 DEF IInv, TypeOK
        <3> HIDE DEF r
        <3>5. QED  BY <2>1, <3>3, <3>4
    <2>2. CASE Answer(i, "error") /\ documents' \in {documents, documents \union {i}}
        <3> DEFINE r == [ingest[i] EXCEPT !.pc = "end", !.answer = "error"]
        <3>1. r \in Ingest /\ r.pc = "end" /\ r.answer = "error"
            BY <1>1 DEF Ingest
        <3>2. ingest' = [ingest EXCEPT ![i] = r]
            BY <2>2 DEF Answer, IInv, TypeOK
        <3> HIDE DEF r
        <3>3. QED  BY <2>2, <3>1, <3>2
    <2>3. QED  BY <2>1, <2>2 DEF CreateDocument
<1>3. faults' \in Nat /\ faults' >= faults /\ UNCHANGED <<search, chunks, evidence>>
    BY <1>1 DEF CreateDocument, Fault
<1>4. TypeOK'
    BY <1>2, <1>3 DEF IInv, TypeOK
<1>5. ingest'[i] = r
    BY <1>2 DEF IInv, TypeOK
<1>6. IngestSound(i)'
    BY <1>1, <1>2, <1>3, <1>5 DEF IngestSound, Cited
<1>7. \A j \in Ingests \ {i} : IngestSound(j)'
    BY <1>2, <1>3, OtherIngests
<1>8. (\A s \in Searches : SearchSound(s))' /\ EvidenceSound'
    BY <1>1, <1>2, <1>3, SearchesStaySound DEF IngestSound
<1>9. QED  BY <1>4, <1>6, <1>7, <1>8 DEF IInv

LEMMA EmbedSound ==
    ASSUME IInv, NEW i \in Ingests, Embed(i)
    PROVE  IInv'
<1>1. ingest[i] \in Ingest /\ ingest[i].pc = "embed" /\ IngestSound(i) /\ faults \in Nat
    BY DEF IInv, TypeOK, Embed
<1>2. PICK r \in Ingest :
        /\ ingest' = [ingest EXCEPT ![i] = r]
        /\ r.answer = "none" /\ r.texts = ingest[i].texts
        /\ \/ r.pc = "store" /\ Aligned(r.embeddings, r.texts) /\ r.embeddings # <<>>
           \/ r.pc = "rollback"
    <2>1. CASE \E batch \in Batches(ingest[i].texts) :
            /\ Complete(batch, ingest[i].texts)
            /\ ingest' = [ingest EXCEPT ![i].pc = "store", ![i].embeddings = ByIndex(batch)]
        <3>1. PICK batch \in Batches(ingest[i].texts) :
                /\ Complete(batch, ingest[i].texts)
                /\ ingest' = [ingest EXCEPT ![i].pc = "store",
                                            ![i].embeddings = ByIndex(batch)]
            BY <2>1
        <3>2. ingest[i].texts \in 1 .. MaxChunks
            BY <1>1, ChunksAssumption DEF IngestSound, Ingest
        <3> DEFINE e == ByIndex(batch)
                   r == [ingest[i] EXCEPT !.pc = "store", !.embeddings = e]
        <3>3. e \in Embeddings /\ Aligned(e, ingest[i].texts) /\ e # <<>>
            BY <3>1, <3>2, BatchesAlign
        <3>4. ingest' = [ingest EXCEPT ![i] = r]
            BY <3>1 DEF IInv, TypeOK
        <3> HIDE DEF e
        <3>5. r \in Ingest /\ r.pc = "store" /\ r.embeddings = e /\ r.answer = "none"
              /\ r.texts = ingest[i].texts
            BY <1>1, <3>3 DEF Ingest, IngestSound
        <3> HIDE DEF r
        <3>6. QED  BY <3>3, <3>4, <3>5
    <2>2. CASE Goto(i, "rollback")
        <3> DEFINE r == [ingest[i] EXCEPT !.pc = "rollback"]
        <3>1. r \in Ingest /\ r.pc = "rollback" /\ r.answer = "none" /\ r.texts = ingest[i].texts
            BY <1>1 DEF Ingest, IngestSound
        <3>2. ingest' = [ingest EXCEPT ![i] = r]
            BY <2>2 DEF Goto, IInv, TypeOK
        <3> HIDE DEF r
        <3>3. QED  BY <3>1, <3>2
    <2>3. QED  BY <2>1, <2>2 DEF Embed
<1>3. /\ UNCHANGED <<search, documents, chunks, evidence, faults>>
      /\ faults' \in Nat /\ faults' >= faults
    BY <1>1 DEF Embed, stored
<1>4. TypeOK'
    BY <1>2, <1>3 DEF IInv, TypeOK
<1>5. ingest'[i] = r
    BY <1>2 DEF IInv, TypeOK
<1>6. IngestSound(i)'
    BY <1>1, <1>2, <1>3, <1>5 DEF IngestSound, Cited
<1>7. \A j \in Ingests \ {i} : IngestSound(j)'
    BY <1>1, <1>2, <1>3, OtherIngests
<1>8. (\A s \in Searches : SearchSound(s))' /\ EvidenceSound'
    BY <1>1, <1>2, <1>3, SearchesStaySound DEF IngestSound
<1>9. QED  BY <1>4, <1>6, <1>7, <1>8 DEF IInv

\* Goto and Answer write one record, of the type of a call.
LEMMA GotoTyped ==
    ASSUME TypeOK, NEW i \in Ingests, NEW pc \in {"rollback", "crashed"}, Goto(i, pc)
    PROVE  \E r \in Ingest : /\ ingest' = [ingest EXCEPT ![i] = r]
                             /\ r.pc = pc /\ r.answer = ingest[i].answer
                             /\ r.texts = ingest[i].texts
<1> DEFINE r == [ingest[i] EXCEPT !.pc = pc]
<1>1. ingest[i] \in Ingest
    BY DEF TypeOK
<1>2. r \in Ingest /\ r.pc = pc /\ r.answer = ingest[i].answer /\ r.texts = ingest[i].texts
    BY <1>1 DEF Ingest
<1>3. ingest' = [ingest EXCEPT ![i] = r]
    BY DEF Goto, TypeOK
<1> HIDE DEF r
<1>4. QED  BY <1>2, <1>3

LEMMA AnswerTyped ==
    ASSUME TypeOK, NEW i \in Ingests, NEW answer \in {"created", "error"}, Answer(i, answer)
    PROVE  \E r \in Ingest : /\ ingest' = [ingest EXCEPT ![i] = r]
                             /\ r.pc = "end" /\ r.answer = answer
                             /\ r.texts = ingest[i].texts
<1> DEFINE r == [ingest[i] EXCEPT !.pc = "end", !.answer = answer]
<1>1. ingest[i] \in Ingest
    BY DEF TypeOK
<1>2. r \in Ingest /\ r.pc = "end" /\ r.answer = answer /\ r.texts = ingest[i].texts
    BY <1>1 DEF Ingest
<1>3. ingest' = [ingest EXCEPT ![i] = r]
    BY DEF Answer, TypeOK
<1> HIDE DEF r
<1>4. QED  BY <1>2, <1>3

LEMMA StoreChunksSound ==
    ASSUME IInv, NEW i \in Ingests, StoreChunks(i)
    PROVE  IInv'
<1>1. ingest[i] \in Ingest /\ ingest[i].pc = "store" /\ IngestSound(i) /\ faults \in Nat
    BY DEF IInv, TypeOK, StoreChunks
<1> DEFINE e == ingest[i].embeddings
<1>2. e \in Embeddings /\ Aligned(e, ingest[i].texts) /\ e # <<>>
    BY <1>1 DEF Ingest, IngestSound
<1>3. \/ Answer(i, "created") /\ chunks' = [chunks EXCEPT ![i] = e] /\ UNCHANGED faults
      \/ /\ Goto(i, "rollback") /\ chunks' \in {chunks, [chunks EXCEPT ![i] = e]}
         /\ faults' = faults + 1
    BY DEF StoreChunks, Fault
<1> HIDE DEF e
<1>4. PICK r \in Ingest :
        /\ ingest' = [ingest EXCEPT ![i] = r] /\ r.texts = ingest[i].texts
        /\ \/ /\ r.pc = "end" /\ r.answer = "created"
              /\ chunks' = [chunks EXCEPT ![i] = e] /\ UNCHANGED faults
           \/ /\ r.pc = "rollback" /\ r.answer = "none" /\ faults' = faults + 1
              /\ chunks' \in {chunks, [chunks EXCEPT ![i] = e]}
    BY <1>1, <1>3, GotoTyped, AnswerTyped DEF IInv, IngestSound
<1>5. UNCHANGED <<search, documents, evidence>> /\ faults' \in Nat /\ faults' >= faults
    BY <1>1, <1>4 DEF StoreChunks
<1>6. TypeOK'
    BY <1>2, <1>4, <1>5 DEF IInv, TypeOK
<1>7. ingest'[i] = r /\ (chunks'[i] = e \/ (chunks'[i] = chunks[i] /\ r.pc = "rollback"))
      /\ \A j \in Ingests \ {i} : chunks'[j] = chunks[j]
    BY <1>4 DEF IInv, TypeOK
<1>8. IngestSound(i)'
    BY <1>1, <1>2, <1>4, <1>5, <1>7 DEF IngestSound, Cited
<1>9. \A j \in Ingests \ {i} : IngestSound(j)'
    BY <1>4, <1>5, <1>7, OtherIngests
<1>10. (\A s \in Searches : SearchSound(s))' /\ EvidenceSound'
    BY <1>1, <1>4, <1>5, <1>7, SearchesStaySound DEF IngestSound
<1>11. QED  BY <1>6, <1>8, <1>9, <1>10 DEF IInv

LEMMA RollbackSound ==
    ASSUME IInv, NEW i \in Ingests, Rollback(i)
    PROVE  IInv'
<1>1. ingest[i] \in Ingest /\ ingest[i].pc = "rollback" /\ IngestSound(i) /\ faults \in Nat
    BY DEF IInv, TypeOK, Rollback
<1>2. PICK r \in Ingest : ingest' = [ingest EXCEPT ![i] = r] /\ r.pc = "end" /\ r.answer = "error"
    BY AnswerTyped DEF Rollback, IInv
<1>3. /\ \/ ~Cited(i) /\ Deleted(i)
         \/ UNCHANGED <<documents, chunks>> /\ (Cited(i) \/ faults' = faults + 1)
      /\ UNCHANGED <<search, evidence>> /\ faults' \in Nat /\ faults' >= faults
    BY <1>1 DEF Rollback, Fault
<1>4. TypeOK'
    BY <1>2, <1>3, EmptyTyped DEF IInv, TypeOK, Deleted
<1>5. /\ ingest'[i] = r
      /\ \/ ~Cited(i) /\ chunks'[i] = <<>> /\ i \notin documents'
         \/ /\ chunks'[i] = chunks[i] /\ documents' = documents
            /\ Cited(i) \/ faults' = faults + 1
      /\ documents' \ {i} = documents \ {i}
      /\ \A j \in Ingests \ {i} : chunks'[j] = chunks[j]
    BY <1>2, <1>3 DEF IInv, TypeOK, Deleted
<1>6. IngestSound(i)'
    BY <1>1, <1>2, <1>3, <1>5 DEF IngestSound, Cited
<1>7. \A j \in Ingests \ {i} : IngestSound(j)'
    BY <1>2, <1>3, <1>5, OtherIngests
<1>8. (\A s \in Searches : SearchSound(s))' /\ EvidenceSound'
    BY <1>1, <1>2, <1>3, <1>5, SearchesStaySound DEF IngestSound
<1>9. QED  BY <1>4, <1>6, <1>7, <1>8 DEF IInv

LEMMA CrashSound ==
    ASSUME IInv, NEW i \in Ingests, Crash(i)
    PROVE  IInv'
<1>1. /\ ingest[i] \in Ingest /\ IngestSound(i) /\ faults \in Nat
      /\ ingest[i].pc \in {"embed", "store", "rollback"}
    BY DEF IInv, TypeOK, Crash
<1>2. PICK r \in Ingest : ingest' = [ingest EXCEPT ![i] = r] /\ r.pc = "crashed" /\ r.answer = "none"
    BY <1>1, GotoTyped DEF Crash, IInv, IngestSound
<1>3. UNCHANGED <<search, documents, chunks, evidence>> /\ faults' \in Nat /\ faults' >= faults
    BY <1>1 DEF Crash, Fault, stored
<1>4. TypeOK' /\ ingest'[i] = r
    BY <1>2, <1>3 DEF IInv, TypeOK
<1>5. IngestSound(i)'
    BY <1>1, <1>2, <1>3, <1>4 DEF IngestSound, Cited
<1>6. \A j \in Ingests \ {i} : IngestSound(j)'
    BY <1>2, <1>3, OtherIngests
<1>7. (\A s \in Searches : SearchSound(s))' /\ EvidenceSound'
    BY <1>1, <1>2, <1>3, SearchesStaySound DEF IngestSound
<1>8. QED  BY <1>4, <1>5, <1>6, <1>7 DEF IInv

LEMMA FindSound ==
    ASSUME IInv, NEW s \in Searches, Find(s)
    PROVE  IInv'
<1>1. PICK found \in SUBSET Searchable \ {{}} :
        search' = [search EXCEPT ![s] = [pc |-> "found", found |-> found]]
    BY DEF Find
<1>2. UNCHANGED <<ingest, documents, chunks, evidence, faults>>
    BY DEF Find, stored
<1>3. found \subseteq Ingests /\ \A i \in found : chunks[i] # <<>>
    BY DEF Searchable
<1>4. TypeOK'
    BY <1>1, <1>2, <1>3 DEF IInv, TypeOK, Search
<1>5. \A i \in Ingests : IngestSound(i)'
    BY <1>2 DEF IInv, IngestSound, Cited
<1>6. \A t \in Searches : SearchSound(t)'
    <2> SUFFICES ASSUME NEW t \in Searches PROVE SearchSound(t)'
        OBVIOUS
    <2>1. CASE t = s
        <3>1. search'[t] = [pc |-> "found", found |-> found]
            BY <1>1, <2>1 DEF IInv, TypeOK
        <3>2. QED  BY <1>2, <1>3, <3>1 DEF SearchSound
    <2>2. CASE t # s
        <3>1. search'[t] = search[t] /\ SearchSound(t)
            BY <1>1, <2>2 DEF IInv, TypeOK
        <3>2. QED  BY <1>2, <3>1 DEF SearchSound
    <2>3. QED  BY <2>1, <2>2
<1>7. EvidenceSound'
    BY <1>2 DEF IInv, EvidenceSound
<1>8. QED  BY <1>4, <1>5, <1>6, <1>7 DEF IInv

LEMMA StoreEvidenceSound ==
    ASSUME IInv, NEW s \in Searches, StoreEvidence(s)
    PROVE  IInv'
<1> DEFINE found == search[s].found
<1>1. found \subseteq Ingests /\ faults \in Nat /\ search[s].pc = "found" /\ search[s] \in Search
    BY DEF IInv, TypeOK, Search, StoreEvidence
<1>2. PICK pc \in {"stored", "refused", "failed"} :
        /\ search' = [search EXCEPT ![s].pc = pc]
        /\ pc = "refused" => ~(found \subseteq Searchable)
        /\ \/ evidence' = evidence
           \/ /\ evidence' = evidence \union {<<s, i>> : i \in found}
              /\ found \subseteq Searchable
        /\ faults' \in Nat /\ faults' >= faults
    BY <1>1 DEF StoreEvidence, Fault
<1>3. UNCHANGED <<ingest, documents, chunks>>
    BY DEF StoreEvidence
<1>4. search'[s] = [search[s] EXCEPT !.pc = pc] /\ \A t \in Searches \ {s} : search'[t] = search[t]
    BY <1>2 DEF IInv, TypeOK
<1>5. search'[s].pc = pc /\ search'[s].found = found
    BY <1>1, <1>4 DEF Search
<1>6. TypeOK'
    <2>1. [search[s] EXCEPT !.pc = pc] \in Search
        BY <1>1 DEF Search
    <2>2. search' \in [Searches -> Search]
        BY <1>2, <2>1 DEF IInv, TypeOK
    <2>3. evidence' \subseteq Searches \X Ingests
        BY <1>1, <1>2 DEF IInv, TypeOK
    <2>4. QED  BY <1>2, <1>3, <2>2, <2>3 DEF IInv, TypeOK
<1>7. \A i \in Ingests : IngestSound(i)'
    <2> SUFFICES ASSUME NEW i \in Ingests PROVE IngestSound(i)'
        OBVIOUS
    <2>1. Cited(i) => Cited(i)'
        BY <1>2 DEF Cited
    <2>2. QED  BY <1>1, <1>2, <1>3, <2>1 DEF IInv, IngestSound
<1>8. \A t \in Searches : SearchSound(t)'
    <2>1. SearchSound(s)'
        <3>1. pc = "refused" => \E i \in found : chunks[i] = <<>>
            BY <1>1, <1>2 DEF Searchable
        <3>2. QED  BY <1>3, <1>5, <3>1 DEF IInv, SearchSound
    <2>2. \A t \in Searches \ {s} : SearchSound(t)'
        BY <1>3, <1>4 DEF IInv, SearchSound
    <2>3. QED  BY <2>1, <2>2
<1>9. EvidenceSound'
    BY <1>2, <1>3 DEF IInv, EvidenceSound, Searchable
<1>10. QED  BY <1>6, <1>7, <1>8, <1>9 DEF IInv

LEMMA NextSound == IInv /\ [Next]_vars => IInv'
<1> SUFFICES ASSUME IInv, [Next]_vars PROVE IInv'
    OBVIOUS
<1>1. CASE Next
    BY <1>1, CreateDocumentSound, EmbedSound, StoreChunksSound, RollbackSound, CrashSound,
       FindSound, StoreEvidenceSound DEF Next
<1>2. CASE UNCHANGED vars
    BY <1>2 DEF IInv, TypeOK, IngestSound, SearchSound, EvidenceSound, Cited, vars, stored
<1>3. QED  BY <1>1, <1>2

LEMMA Invariance == Spec => []IInv
    BY InitSound, NextSound, PTL DEF Spec

-----------------------------------------------------------------------------
(* The properties                                                           *)

\* Calls, rows and retrieved sets keep their types for any size of document.
THEOREM TypeCorrect == Spec => []TypeOK
<1>1. IInv => TypeOK
    BY DEF IInv
<1>2. QED  BY <1>1, Invariance, PTL

\* No rollback ever removes a chunk that a stored run cites as evidence, whichever
\* calls of the ingest failed and whenever the search saw its chunks.
THEOREM EvidenceIsKept == Spec => []EvidenceStands
<1>1. IInv => EvidenceStands
    BY DEF IInv, EvidenceSound, IngestSound, EvidenceStands, Searchable
<1>2. QED  BY <1>1, Invariance, PTL

\* A client told created finds its document, complete, each chunk under the
\* embedding of its own text, in whatever order the provider returned the batch.
THEOREM CreatedIsServed == Spec => []CreatedIsSearchable
<1>1. IInv => CreatedIsSearchable
    BY DEF IInv, IngestSound, Aligned, CreatedIsSearchable
<1>2. QED  BY <1>1, Invariance, PTL

\* An ingest that failed leaves chunks behind only where a search cited them in time
\* or a second call failed too.
THEOREM FailedIsRolledBack == Spec => []FailedLeavesNothing
<1>1. IInv => FailedLeavesNothing
    BY DEF IInv, TypeOK, IngestSound, Searchable, FailedLeavesNothing
<1>2. QED  BY <1>1, Invariance, PTL

\* Evidence is refused only to a search that read chunks of an ingest which failed
\* and was rolled back; nothing else costs an orchestration its run here.
THEOREM RefusalHasCause == Spec => []RefusedForFailedIngest
<1>1. IInv => RefusedForFailedIngest
    BY DEF IInv, SearchSound, RefusedForFailedIngest
<1>2. QED  BY <1>1, Invariance, PTL
-----------------------------------------------------------------------------
(* The knowledge base that publishers and readers see                       *)

Statuses == [i \in Ingests |-> Status(i)]

\* The status of a document is that of its ingest and of the chunks it left.
LEMMA StatusOf ==
    ASSUME IInv, NEW i \in Ingests
    PROVE  /\ ingest[i].answer = "created" => Status(i) = "served"
           /\ ingest[i].answer = "error" =>
                Status(i) = (IF chunks[i] = <<>> THEN "gone" ELSE "kept")
           /\ ingest[i].answer = "none" =>
                Status(i) = (IF chunks[i] = <<>> THEN "absent" ELSE "shown")
           /\ Status(i) \in {"shown", "served", "kept"} <=> chunks[i] # <<>>
           /\ Statuses[i] = Status(i)
<1>1. ingest[i].answer \in {"none", "created", "error"}
    BY DEF IInv, TypeOK, Ingest
<1>2. ingest[i].answer = "created" => chunks[i] # <<>>
    BY DEF IInv, IngestSound
<1>3. Statuses[i] = Status(i)
    BY DEF Statuses
<1>4. QED  BY <1>1, <1>2, <1>3 DEF Status

\* What readers see is what is searchable.
LEMMA VisibleIsSearchable == IInv => Base!Visible = Searchable
<1> SUFFICES ASSUME IInv PROVE Base!Visible = Searchable
    OBVIOUS
<1>1. Base!Visible = {i \in Ingests : Statuses[i] \in {"shown", "served", "kept"}}
    BY DEF Base!Visible, Statuses
<1>2. \A i \in Ingests : Statuses[i] \in {"shown", "served", "kept"} <=> chunks[i] # <<>>
    BY StatusOf
<1>3. QED  BY <1>1, <1>2 DEF Searchable

\* A step of one ingest touches the status of its own document only.
LEMMA OthersKeepStatus ==
    ASSUME NEW i \in Ingests, NEW s,
           \A j \in Ingests \ {i} : /\ ingest'[j].answer = ingest[j].answer
                                    /\ chunks'[j] = chunks[j],
           Status(i)' = s
    PROVE  Statuses' = [Statuses EXCEPT ![i] = s]
<1>1. \A j \in Ingests \ {i} : Status(j)' = Status(j)
    BY DEF Status
<1>2. Statuses' = [j \in Ingests |-> IF j = i THEN s ELSE Status(j)]
    BY <1>1 DEF Statuses
<1>3. QED  BY <1>2 DEF Statuses

\* What a step of an ingest does to the other calls.
LEMMA IngestAlone ==
    ASSUME IInv, NEW i \in Ingests,
           CreateDocument(i) \/ Embed(i) \/ StoreChunks(i) \/ Rollback(i) \/ Crash(i)
    PROVE  /\ \A j \in Ingests \ {i} : ingest'[j].answer = ingest[j].answer
           /\ \A j \in Ingests \ {i} : chunks'[j] = chunks[j]
           /\ UNCHANGED <<search, evidence>>
           /\ UNCHANGED faults \/ faults' = faults + 1
<1>1. ingest \in [Ingests -> Ingest] /\ chunks \in [Ingests -> Embeddings]
    BY DEF IInv, TypeOK
<1>2. CASE CreateDocument(i)
    BY <1>1, <1>2 DEF CreateDocument, Answer, Fault
<1>3. CASE Embed(i)
    BY <1>1, <1>3 DEF Embed, Goto, stored
<1>4. CASE StoreChunks(i)
    BY <1>1, <1>4 DEF StoreChunks, Answer, Goto, Fault
<1>5. CASE Rollback(i)
    BY <1>1, <1>5 DEF Rollback, Answer, Deleted, Fault
<1>6. CASE Crash(i)
    BY <1>1, <1>6 DEF Crash, Goto, Fault, stored
<1>7. QED  BY <1>2, <1>3, <1>4, <1>5, <1>6

\* A step of an ingest, by what it makes of the status of its document.
IngestSeen(i) ==
    \/ Status(i)' = Status(i)
    \/ Status(i) = "absent" /\ Status(i)' = "served" /\ UNCHANGED faults
    \/ Status(i) = "absent" /\ Status(i)' = "shown" /\ faults' = faults + 1
    \/ Status(i) \in {"absent", "shown"} /\ ~Cited(i) /\ Status(i)' = "gone"
    \/ Status(i) = "shown" /\ Status(i)' = "kept" /\ (Cited(i) \/ faults' >= 2)

LEMMA EveryIngestSeen ==
    ASSUME IInv, NEW i \in Ingests,
           CreateDocument(i) \/ Embed(i) \/ StoreChunks(i) \/ Rollback(i) \/ Crash(i)
    PROVE  IngestSeen(i)
<1>1. /\ ingest \in [Ingests -> Ingest] /\ chunks \in [Ingests -> Embeddings]
      /\ ingest[i] \in Ingest /\ faults \in Nat
    BY DEF IInv, TypeOK
<1>2. IngestSound(i) /\ (chunks[i] = <<>> => ~Cited(i))
    BY DEF IInv, EvidenceSound, Cited
<1>3. CASE CreateDocument(i)
    <2>1. chunks[i] = <<>> /\ ingest[i].answer = "none" /\ chunks' = chunks
        BY <1>2, <1>3 DEF IngestSound, CreateDocument
    <2>2. ingest'[i].answer \in {"none", "error"}
        BY <1>1, <1>3, <2>1 DEF CreateDocument, Answer, Ingest
    <2>3. Status(i) = "absent" /\ Status(i)' \in {"absent", "gone"}
        BY <2>1, <2>2 DEF Status
    <2>4. QED  BY <1>2, <2>1, <2>3 DEF IngestSeen
<1>4. CASE Embed(i) \/ Crash(i)
    <2>1. chunks' = chunks /\ ingest'[i].answer = ingest[i].answer
        BY <1>1, <1>4 DEF Embed, Crash, Goto, stored, Ingest
    <2>2. Status(i)' = Status(i)
        BY <2>1 DEF Status
    <2>3. QED  BY <2>2 DEF IngestSeen
<1>5. CASE StoreChunks(i)
    <2>1. chunks[i] = <<>> /\ ingest[i].answer = "none" /\ ingest[i].embeddings # <<>>
        BY <1>2, <1>5 DEF IngestSound, StoreChunks
    <2>2. \/ ingest'[i].answer = "created" /\ UNCHANGED faults
          \/ /\ ingest'[i].answer = "none" /\ faults' = faults + 1
             /\ chunks'[i] \in {<<>>, ingest[i].embeddings}
        BY <1>1, <1>5, <2>1 DEF StoreChunks, Answer, Goto, Fault, Ingest
    <2>3. Status(i) = "absent"
        BY <2>1 DEF Status
    <2>4. QED  BY <2>1, <2>2, <2>3 DEF Status, IngestSeen
<1>6. CASE Rollback(i)
    <2>1. ingest[i].answer = "none" /\ ingest'[i].answer = "error"
        BY <1>1, <1>2, <1>6 DEF IngestSound, Rollback, Answer, Ingest
    <2>2. \/ ~Cited(i) /\ chunks'[i] = <<>>
          \/ chunks' = chunks /\ (Cited(i) \/ faults' = faults + 1)
        BY <1>1, <1>6 DEF Rollback, Deleted, Fault
    <2>3. chunks[i] # <<>> => faults >= 1
        BY <1>2, <1>6 DEF IngestSound, Rollback
    <2>4. Status(i) = IF chunks[i] = <<>> THEN "absent" ELSE "shown"
        BY <2>1 DEF Status
    <2>5. Status(i)' = IF chunks'[i] = <<>> THEN "gone" ELSE "kept"
        BY <2>1 DEF Status
    <2>6. CASE chunks'[i] = <<>>
        <3>1. ~Cited(i)
            BY <1>2, <2>2, <2>6
        <3>2. QED  BY <2>4, <2>5, <2>6, <3>1 DEF IngestSeen
    <2>7. CASE chunks'[i] # <<>>
        <3>1. chunks[i] # <<>> /\ (Cited(i) \/ faults' >= 2)
            BY <1>1, <2>2, <2>3, <2>7
        <3>2. QED  BY <2>4, <2>5, <2>7, <3>1 DEF IngestSeen
    <2>8. QED  BY <2>6, <2>7
<1>7. QED  BY <1>3, <1>4, <1>5, <1>6

LEMMA IngestsImplement ==
    ASSUME IInv, NEW i \in Ingests,
           CreateDocument(i) \/ Embed(i) \/ StoreChunks(i) \/ Rollback(i) \/ Crash(i)
    PROVE  [Base!Next]_(Base!ckVars)
<1>1. IngestSeen(i)
    BY EveryIngestSeen
<1>2. Statuses' = [Statuses EXCEPT ![i] = Status(i)']
    <2> DEFINE s == Status(i)'
    <2>1. Statuses' = [Statuses EXCEPT ![i] = s]
        <3> HIDE DEF s
        <3>1. Status(i)' = s
            BY DEF s
        <3>2. QED  BY <3>1, IngestAlone, OthersKeepStatus
    <2>2. QED  BY <2>1
<1>3. Statuses[i] = Status(i) /\ (Base!CitedBySome(i) <=> Cited(i))
    BY DEF Statuses, Base!CitedBySome, Cited
<1>4. UNCHANGED <<search, evidence>> /\ (UNCHANGED faults \/ faults' = faults + 1)
    BY IngestAlone
<1>5. CASE Status(i)' = Status(i)
    <2>0. Statuses' = Statuses
        BY <1>2, <1>3, <1>5 DEF Statuses
    <2>1. UNCHANGED faults => UNCHANGED Base!ckVars
        BY <1>4, <2>0 DEF Base!ckVars, Statuses
    <2>2. faults' = faults + 1 => Base!Waste
        BY <1>4, <2>0 DEF Base!Waste, Base!Fails, Statuses
    <2>3. QED  BY <1>4, <2>1, <2>2 DEF Base!Next
<1>6. CASE Status(i) = "absent" /\ Status(i)' = "served" /\ UNCHANGED faults
    <2>1. Base!Publish(i)
        BY <1>2, <1>3, <1>4, <1>6 DEF Base!Publish, Base!Becomes, Base!Works, Statuses
    <2>2. QED  BY <2>1 DEF Base!Next
<1>7. CASE Status(i) = "absent" /\ Status(i)' = "shown" /\ faults' = faults + 1
    <2>1. Base!Publish(i)
        BY <1>2, <1>3, <1>4, <1>7 DEF Base!Publish, Base!Becomes, Base!Fails, Statuses
    <2>2. QED  BY <2>1 DEF Base!Next
<1>8. CASE Status(i) \in {"absent", "shown"} /\ ~Cited(i) /\ Status(i)' = "gone"
    <2>1. Base!Withdraw(i)
        BY <1>2, <1>3, <1>4, <1>8
           DEF Base!Withdraw, Base!Becomes, Base!Works, Base!Fails, Statuses
    <2>2. QED  BY <2>1 DEF Base!Next
<1>9. CASE Status(i) = "shown" /\ Status(i)' = "kept" /\ (Cited(i) \/ faults' >= 2)
    <2>1. Base!Keep(i)
        BY <1>2, <1>3, <1>4, <1>9
           DEF Base!Keep, Base!Becomes, Base!Works, Base!Fails, Statuses
    <2>2. QED  BY <2>1 DEF Base!Next
<1>10. QED  BY <1>1, <1>5, <1>6, <1>7, <1>8, <1>9 DEF IngestSeen

LEMMA SearchesImplement ==
    ASSUME IInv, NEW s \in Searches, Find(s) \/ StoreEvidence(s)
    PROVE  Base!Next
<1>1. Base!Visible = Searchable
    BY VisibleIsSearchable
<1>2. CASE Find(s)
    <2>1. UNCHANGED <<ingest, chunks, evidence, faults>>
        BY <1>2 DEF Find, stored
    <2>2. Statuses' = Statuses
        BY <2>1 DEF Statuses, Status
    <2>3. Base!Retrieve(s)
        BY <1>1, <1>2, <2>1, <2>2 DEF Find, Base!Retrieve, Base!Works, Statuses
    <2>4. QED  BY <2>3 DEF Base!Next
<1>3. CASE StoreEvidence(s)
    <2> DEFINE found == search[s].found
    <2>1. UNCHANGED <<ingest, chunks>>
        BY <1>3 DEF StoreEvidence
    <2>2. Statuses' = Statuses
        BY <2>1 DEF Statuses, Status
    <2>3. found \subseteq Ingests /\ search[s].pc = "found" /\ SearchSound(s)
        BY <1>3 DEF StoreEvidence, IInv, TypeOK, Search
    <2>4. \/ /\ found \subseteq Searchable /\ UNCHANGED faults
             /\ search' = [search EXCEPT ![s].pc = "stored"]
             /\ evidence' = evidence \union {<<s, i>> : i \in found}
          \/ /\ ~(found \subseteq Searchable) /\ UNCHANGED <<evidence, faults>>
             /\ search' = [search EXCEPT ![s].pc = "refused"]
          \/ /\ search' = [search EXCEPT ![s].pc = "failed"] /\ faults' = faults + 1
             /\ \/ UNCHANGED evidence
                \/ /\ found \subseteq Searchable
                   /\ evidence' = evidence \union {<<s, i>> : i \in found}
        BY <1>3 DEF StoreEvidence, Fault
    <2>5. ~(found \subseteq Searchable) => \E i \in found : Statuses[i] = "gone"
        <3>1. ASSUME NEW i \in found, i \notin Searchable PROVE Statuses[i] = "gone"
            <4>1. i \in Ingests /\ chunks[i] = <<>> /\ ingest[i].answer = "error"
                BY <2>3, <3>1 DEF Searchable, SearchSound
            <4>2. QED  BY <4>1, StatusOf
        <3>2. QED  BY <3>1
    <2>6. Base!Cite(s) \/ Base!Refuse(s) \/ Base!Fail(s)
        BY <1>1, <2>2, <2>3, <2>4, <2>5
           DEF Base!Cite, Base!Refuse, Base!Fail, Base!Ends, Base!Stored, Base!Works,
               Base!Fails, Statuses
    <2>7. QED  BY <2>6 DEF Base!Next
<1>4. QED  BY <1>2, <1>3

\* Publishers and readers see the knowledge base of CitedKnowledge, for any number of
\* documents, readers and failed calls: what is cited or reported as created is never
\* withdrawn, what was withdrawn never returns, and a refusal tells of a withdrawal
\* (KnowledgeIngestionService.ingest and the foreign key of rag_retrievals).
THEOREM ImplementsBase == Spec => BaseSpec
<1>1. Init => Base!Init
    <2> SUFFICES ASSUME Init PROVE Base!Init
        OBVIOUS
    <2>1. \A i \in Ingests : Status(i) = "absent"
        BY DEF Init, Status
    <2>2. QED  BY <2>1 DEF Init, Base!Init
<1>2. IInv /\ [Next]_vars => [Base!Next]_(Base!ckVars)
    <2> SUFFICES ASSUME IInv, [Next]_vars PROVE [Base!Next]_(Base!ckVars)
        OBVIOUS
    <2>1. CASE Next
        BY <2>1, IngestsImplement, SearchesImplement DEF Next
    <2>2. CASE UNCHANGED vars
        BY <2>2 DEF vars, stored, Base!ckVars, Status
    <2>3. QED  BY <2>1, <2>2
<1>3. QED  BY <1>1, <1>2, Invariance, PTL DEF Spec, BaseSpec, Base!Spec
=============================================================================
