---------------------------- MODULE ChunkingProofs ----------------------------
(***************************************************************************)
(* Proofs about Chunking for documents of any length and every             *)
(* configuration the constructor accepts.  LoopInv is the loop's invariant.*)
(***************************************************************************)
EXTENDS Chunking, TLAPS

Step == doc.size - doc.overlap

\* Where the loop stands: start counts whole steps, and all words up to the overlap
\* beyond it are in windows.
Position ==
    ~broke => /\ start = Len(chunks) * Step
              /\ start < doc.words \/ (start = 0 /\ doc.words = 0)
              /\ chunks # <<>> => /\ chunks[Len(chunks)][2] = start + doc.overlap
                                  /\ start + doc.overlap < doc.words

\* How the loop ended: the last window reaches the end and the one before did not.
LastWindow ==
    broke => /\ chunks # <<>>
             /\ chunks[Len(chunks)][2] = doc.words
             /\ doc.words <= doc.size + (Len(chunks) - 1) * Step
             /\ Len(chunks) > 1 => doc.size + (Len(chunks) - 2) * Step < doc.words

Bounded ==
    \A k \in 1 .. Len(chunks) :
        chunks[k][1] < chunks[k][2] /\ chunks[k][2] - chunks[k][1] <= doc.size

Windowed(w) == \E k \in 1 .. Len(chunks) : chunks[k][1] <= w /\ w < chunks[k][2]

Covered ==
    \A w \in Nat : w < doc.words /\ (broke \/ (chunks # <<>> /\ w < start + doc.overlap))
                    => Windowed(w)

Submitted ==
    batch # "none" => ~Looping /\ (batch = "refused" <=> ~Takes(Len(chunks)))

LoopInv ==
    TypeOK /\ Position /\ LastWindow /\ Bounded /\ NeighboursOverlap /\ Covered /\ Submitted

-----------------------------------------------------------------------------
(* Arithmetic                                                               *)

LEMMA OneMoreStep ==
    ASSUME NEW n \in Nat, NEW s \in Nat PROVE (n + 1) * s = n * s + s /\ n * s \in Nat
OBVIOUS

LEMMA NoStep == ASSUME NEW s \in Nat PROVE 0 * s = 0
OBVIOUS

LEMMA MoreStepsReachFurther ==
    ASSUME NEW m \in Nat, NEW n \in Nat, NEW s \in Nat, m <= n PROVE m * s <= n * s
OBVIOUS

\* What the types give: positions and sizes are numbers.
LEMMA Numbers ==
    ASSUME TypeOK
    PROVE  /\ doc.words \in Nat /\ doc.size \in Nat /\ doc.overlap \in Nat
           /\ doc.overlap < doc.size /\ doc.size > 0
           /\ Step \in Nat /\ Step > 0
           /\ start \in Nat /\ start <= doc.words
           /\ Len(chunks) \in Nat
           /\ \A k \in 1 .. Len(chunks) : chunks[k][1] \in Nat /\ chunks[k][2] \in Nat
<1>1. doc \in Documents
    BY DEF TypeOK
<1>2. doc.words \in Nat /\ doc.size \in Nat /\ doc.overlap \in Nat
      /\ doc.overlap < doc.size /\ doc.size > 0
    BY <1>1, DocumentsAssumption
<1>3. \A k \in 1 .. Len(chunks) : chunks[k] \in (0 .. doc.words) \X (0 .. doc.words)
    BY DEF TypeOK
<1>4. \A k \in 1 .. Len(chunks) : chunks[k][1] \in Nat /\ chunks[k][2] \in Nat
    BY <1>2, <1>3
<1>5. start \in Nat /\ start <= doc.words /\ Len(chunks) \in Nat
    BY <1>2 DEF TypeOK
<1>6. QED  BY <1>2, <1>4, <1>5 DEF Step

-----------------------------------------------------------------------------
(* The loop                                                                 *)

LEMMA InitLoop == Init => LoopInv
<1> SUFFICES ASSUME Init PROVE LoopInv
    OBVIOUS
<1>1. doc.words \in Nat
    BY DocumentsAssumption DEF Init
<1>2. TypeOK
    <2>1. chunks \in Seq((0 .. doc.words) \X (0 .. doc.words))
        BY DEF Init
    <2>2. start \in 0 .. doc.words
        BY <1>1 DEF Init
    <2>3. QED  BY <2>1, <2>2 DEF Init, TypeOK
<1>3. Step \in Nat
    BY <1>2, Numbers
<1>4. Len(chunks) = 0
    BY DEF Init
<1>5. 0 * Step = 0
    BY <1>3, NoStep
<1>6. Position
    BY <1>1, <1>4, <1>5 DEF Init, Position
<1>7. LastWindow /\ Bounded /\ NeighboursOverlap /\ Covered /\ Submitted
    BY <1>4 DEF Init, LastWindow, Bounded, NeighboursOverlap, Covered, Submitted
<1>8. QED  BY <1>2, <1>6, <1>7 DEF LoopInv

LEMMA CutLoop == ASSUME LoopInv, Cut PROVE LoopInv'
<1> DEFINE n == Len(chunks)
<1> TypeOK
    BY DEF LoopInv
<1> /\ doc.words \in Nat /\ doc.size \in Nat /\ doc.overlap \in Nat
    /\ doc.overlap < doc.size /\ doc.size > 0 /\ Step \in Nat /\ Step > 0
    /\ start \in Nat /\ n \in Nat
    /\ \A k \in 1 .. n : chunks[k][1] \in Nat /\ chunks[k][2] \in Nat
    BY Numbers
<1>1. /\ ~broke /\ start < doc.words /\ batch = "none"
      /\ UNCHANGED <<doc, batch>>
    BY DEF LoopInv, Submitted, Cut, Looping
<1>2. /\ End \in Nat /\ start < End /\ End <= doc.words /\ End <= start + doc.size
      /\ End < doc.words => End = start + doc.size
    BY <1>1 DEF End
<1>3. /\ Len(chunks') = n + 1
      /\ chunks'[n + 1] = <<start, End>>
      /\ \A k \in 1 .. n : chunks'[k] = chunks[k]
      /\ chunks' # <<>>
    BY DEF Cut, TypeOK
<1>4. \/ End = doc.words /\ broke' = TRUE /\ start' = start
      \/ End < doc.words /\ broke' = FALSE /\ start' = End - doc.overlap
    BY <1>1, <1>2 DEF Cut, AtTheEnd, NextStart
<1>5. TypeOK'
    <2>1. <<start, End>> \in (0 .. doc.words) \X (0 .. doc.words)
        BY <1>2
    <2>2. chunks' \in Seq((0 .. doc.words) \X (0 .. doc.words))
        BY <2>1 DEF Cut, TypeOK
    <2>3. start' \in 0 .. doc.words
        BY <1>2, <1>4
    <2>4. QED  BY <1>1, <1>4, <2>2, <2>3 DEF TypeOK
<1>6. start = n * Step /\ (n + 1) * Step = n * Step + Step
    BY <1>1, OneMoreStep DEF LoopInv, Position
<1>7. UNCHANGED Step
    BY <1>1 DEF Step
<1>8. Position'
    <2>1. CASE End < doc.words
        <3>1. start' = start + Step
            BY <1>2, <1>4, <2>1 DEF Step
        <3>2. start' = Len(chunks') * Step'
            BY <1>3, <1>6, <1>7, <3>1
        <3>3. start' + doc.overlap = End /\ start' < doc.words
            BY <1>2, <1>4, <2>1
        <3>4. chunks'[Len(chunks')][2] = End
            BY <1>3
        <3>5. QED  BY <1>1, <2>1, <3>2, <3>3, <3>4 DEF Position
    <2>2. QED  BY <1>4, <2>1 DEF Position
<1>9. LastWindow'
    <2>1. CASE End = doc.words
        <3>1. chunks'[Len(chunks')][2] = doc.words
            BY <1>3, <2>1
        <3>2. (n + 1) - 1 = n /\ (n + 1) - 2 = n - 1
            OBVIOUS
        <3>3. doc.words <= doc.size + n * Step
            BY <1>2, <1>6, <2>1
        <3>4. ASSUME n + 1 > 1 PROVE doc.size + (n - 1) * Step < doc.words
            <4>1. n - 1 \in Nat /\ (n - 1) + 1 = n /\ chunks # <<>>
                BY <3>4
            <4>2. n * Step = (n - 1) * Step + Step /\ (n - 1) * Step \in Nat
                BY <4>1, OneMoreStep
            <4>3. start + doc.overlap < doc.words
                BY <1>1, <4>1 DEF LoopInv, Position
            <4>4. doc.size = Step + doc.overlap
                BY DEF Step
            <4>5. QED  BY <1>6, <4>2, <4>3, <4>4
        <3>5. QED  BY <1>1, <1>3, <1>7, <3>1, <3>2, <3>3, <3>4 DEF LastWindow
    <2>2. QED  BY <1>4, <2>1 DEF LastWindow
<1>10. Bounded'
    <2>1. ASSUME NEW k \in 1 .. n + 1
          PROVE  chunks'[k][1] < chunks'[k][2] /\ chunks'[k][2] - chunks'[k][1] <= doc.size
        <3>1. CASE k = n + 1
            BY <1>2, <1>3, <3>1
        <3>2. CASE k \in 1 .. n
            BY <1>3, <3>2 DEF LoopInv, Bounded
        <3>3. QED  BY <3>1, <3>2
    <2>2. QED  BY <1>1, <1>3, <2>1 DEF Bounded
<1>11. NeighboursOverlap'
    <2>1. ASSUME NEW k \in 1 .. n
          PROVE  /\ chunks'[k][2] - chunks'[k + 1][1] = doc.overlap
                 /\ chunks'[k][2] < chunks'[k + 1][2]
        <3>1. CASE k = n
            <4>1. chunks # <<>>
                BY <3>1
            <4>2. chunks[n][2] = start + doc.overlap /\ start + doc.overlap < doc.words
                BY <1>1, <4>1 DEF LoopInv, Position
            <4>3. start + doc.overlap < End
                BY <1>2, <4>2
            <4>4. QED  BY <1>3, <3>1, <4>2, <4>3
        <3>2. CASE k \in 1 .. n - 1
            <4>1. k + 1 \in 1 .. n
                BY <3>2
            <4>2. QED  BY <1>3, <3>2, <4>1 DEF LoopInv, NeighboursOverlap
        <3>3. QED  BY <3>1, <3>2
    <2>2. QED  BY <1>1, <1>3, <2>1 DEF NeighboursOverlap
<1>12. Covered'
    <2>1. ASSUME NEW w \in Nat, w < End
          PROVE  \E k \in 1 .. n + 1 : chunks'[k][1] <= w /\ w < chunks'[k][2]
        <3>1. CASE w >= start
            BY <1>3, <2>1, <3>1
        <3>2. CASE w < start
            <4>1. chunks # <<>>
                BY <1>6, <3>2
            <4>2. w < doc.words /\ w < start + doc.overlap
                BY <1>1, <3>2
            <4>3. PICK k \in 1 .. n : chunks[k][1] <= w /\ w < chunks[k][2]
                BY <4>1, <4>2 DEF LoopInv, Covered, Windowed
            <4>4. QED  BY <1>3, <4>3
        <3>3. QED  BY <3>1, <3>2
    <2>2. ASSUME NEW w \in Nat, w < doc.words, broke' \/ w < start' + doc.overlap
          PROVE  w < End
        BY <1>1, <1>2, <1>4, <2>2
    <2>3. QED  BY <1>1, <1>3, <2>1, <2>2 DEF Covered, Windowed
<1>13. Submitted'
    BY <1>1 DEF Submitted
<1>14. QED
    BY <1>5, <1>8, <1>9, <1>10, <1>11, <1>12, <1>13 DEF LoopInv

LEMMA SubmitLoop == ASSUME LoopInv, Submit PROVE LoopInv'
<1>1. UNCHANGED <<doc, start, chunks, broke>>
    BY DEF Submit
<1>2. (TypeOK /\ Position /\ LastWindow /\ Bounded /\ NeighboursOverlap /\ Covered)'
    BY <1>1 DEF Submit, LoopInv, TypeOK, Position, LastWindow, Bounded, NeighboursOverlap,
        Covered, Windowed, Step
<1>3. Submitted'
    BY <1>1 DEF Submit, Submitted, Looping, Takes
<1>4. QED  BY <1>2, <1>3 DEF LoopInv

LEMMA StutterLoop == ASSUME LoopInv, UNCHANGED vars PROVE LoopInv'
BY DEF LoopInv, vars, TypeOK, Position, LastWindow, Bounded, NeighboursOverlap, Covered,
    Windowed, Submitted, Looping, Takes, Step

LEMMA LoopInvariant == Spec => []LoopInv
<1>1. LoopInv /\ [Next]_vars => LoopInv'
    BY CutLoop, SubmitLoop, StutterLoop DEF Next
<1>2. QED  BY InitLoop, <1>1, PTL DEF Spec

-----------------------------------------------------------------------------
(* The theorems                                                             *)

\* Every window the loop cuts lies within its document (TextChunker.chunk).
THEOREM TypeCorrect == Spec => []TypeOK
BY LoopInvariant, PTL DEF LoopInv

\* What is submitted for embedding covers each word of the document, in windows that
\* are neither empty nor too large (TextChunker.chunk, KnowledgeIngestionService.ingest).
THEOREM WordsAreChunked == Spec => []EveryWordIsChunked
<1>1. ASSUME LoopInv PROVE EveryWordIsChunked
    <2>1. ASSUME batch # "none", NEW w \in 0 .. doc.words - 1 PROVE Windowed(w)
        <3>1. doc.words \in Nat /\ start \in Nat
            BY <1>1, Numbers DEF LoopInv
        <3>2. w \in Nat /\ w < doc.words
            BY <3>1
        <3>3. broke
            BY <1>1, <2>1, <3>1, <3>2 DEF LoopInv, Submitted, Looping, Position
        <3>4. QED  BY <1>1, <3>2, <3>3 DEF LoopInv, Covered
    <2>2. QED  BY <1>1, <2>1 DEF LoopInv, EveryWordIsChunked, Windowed, Bounded
<1>2. QED  BY <1>1, LoopInvariant, PTL

\* Neighbouring chunks share the configured overlap and none is a part of the next or
\* the last one (TextChunker.chunk).
THEOREM ChunksOverlap == Spec => []NeighboursOverlap
BY LoopInvariant, PTL DEF LoopInv

\* Each iteration but the last moves the window forward (TextChunker.chunk).
THEOREM LoopAdvances == Spec => AdvancesOrEnds
<1>1. ASSUME LoopInv, [Next]_vars PROVE [chunks' # chunks => start' > start \/ broke']_vars
    <2>1. CASE Cut
        <3>1. /\ start \in Nat /\ doc.size \in Nat /\ doc.overlap \in Nat /\ doc.words \in Nat
              /\ doc.overlap < doc.size
            BY <1>1, Numbers DEF LoopInv
        <3>2. broke' \/ (End = start + doc.size /\ start' = End - doc.overlap)
            BY <2>1 DEF Cut, AtTheEnd, NextStart, End
        <3>3. QED  BY <3>1, <3>2
    <2>2. CASE Submit
        BY <2>2 DEF Submit
    <2>3. QED  BY <1>1, <2>1, <2>2 DEF Next, vars
<1>2. QED  BY <1>1, LoopInvariant, PTL DEF Spec, AdvancesOrEnds

\* embed_batch refuses a document of a request only when it has more words than
\* MaxTexts windows of its configuration hold (VoyageEmbeddingProvider.embed_batch).
THEOREM RefusalMeansCapacity == Spec => []RefusedOnlyBeyondCapacity
<1>1. ASSUME LoopInv, batch # "none"
      PROVE  batch = "refused" <=> doc.words = 0 \/ doc.words > Capacity
    <2> DEFINE n == Len(chunks)
    <2>1. /\ doc.words \in Nat /\ doc.size \in Nat /\ Step \in Nat /\ start \in Nat /\ n \in Nat
          /\ MaxTexts \in Nat /\ MaxTexts > 0 /\ doc.size > 0 /\ Step > 0
        BY <1>1, Numbers, TextsAssumption DEF LoopInv
    <2>2. batch = "refused" <=> ~(n > 0 /\ n <= MaxTexts)
        BY <1>1 DEF LoopInv, Submitted, Takes
    <2>3. CASE ~broke
        <3>1. doc.words = 0 /\ start = 0
            BY <1>1, <2>1, <2>3 DEF LoopInv, Submitted, Looping, Position
        <3>2. n * Step = 0
            BY <1>1, <2>3, <3>1 DEF LoopInv, Position
        <3>3. n = 0
            BY <2>1, <3>2
        <3>4. QED  BY <2>2, <3>1, <3>3
    <2>4. CASE broke
        <3>1. /\ n >= 1
              /\ doc.words <= doc.size + (n - 1) * Step
              /\ n > 1 => doc.size + (n - 2) * Step < doc.words
            BY <1>1, <2>1, <2>4 DEF LoopInv, LastWindow, TypeOK
        <3>2. doc.words > 0
            <4>1. n \in 1 .. n
                BY <2>1, <3>1
            <4>2. chunks[n][1] < chunks[n][2] /\ chunks[n][1] \in Nat /\ chunks[n][2] \in Nat
                BY <1>1, <4>1, Numbers DEF LoopInv, Bounded
            <4>3. chunks[n][2] = doc.words
                BY <1>1, <2>4 DEF LoopInv, LastWindow
            <4>4. QED  BY <4>2, <4>3
        <3>3. CASE n <= MaxTexts
            <4>1. (n - 1) * Step <= (MaxTexts - 1) * Step
                <5>1. n - 1 \in Nat /\ MaxTexts - 1 \in Nat /\ n - 1 <= MaxTexts - 1
                    BY <2>1, <3>1, <3>3
                <5>2. QED  BY <2>1, <5>1, MoreStepsReachFurther
            <4>2. (n - 1) * Step \in Nat /\ (MaxTexts - 1) * Step \in Nat
                <5>1. n - 1 \in Nat /\ MaxTexts - 1 \in Nat
                    BY <2>1, <3>1
                <5>2. QED  BY <2>1, <5>1, OneMoreStep
            <4>3. doc.words <= doc.size + (MaxTexts - 1) * Step
                BY <2>1, <3>1, <4>1, <4>2
            <4>4. ~(doc.words > Capacity)
                <5>1. Capacity = doc.size + (MaxTexts - 1) * Step
                    BY DEF Capacity, Step
                <5>2. QED  BY <2>1, <4>2, <4>3, <5>1
            <4>5. doc.words # 0 /\ n > 0
                BY <2>1, <3>1, <3>2
            <4>6. QED  BY <2>2, <3>3, <4>4, <4>5
        <3>4. CASE n > MaxTexts
            <4>1. (MaxTexts - 1) * Step <= (n - 2) * Step
                <5>1. n - 2 \in Nat /\ MaxTexts - 1 \in Nat /\ MaxTexts - 1 <= n - 2
                    BY <2>1, <3>4
                <5>2. QED  BY <2>1, <5>1, MoreStepsReachFurther
            <4>2. doc.words > Capacity
                BY <2>1, <3>1, <3>4, <4>1 DEF Capacity, Step
            <4>3. QED  BY <2>1, <2>2, <3>4, <4>2
        <3>5. QED  BY <2>1, <3>3, <3>4
    <2>5. QED  BY <2>3, <2>4
<1>2. ASSUME LoopInv PROVE RefusedOnlyBeyondCapacity
    BY <1>1, <1>2 DEF RefusedOnlyBeyondCapacity
<1>3. QED  BY <1>2, LoopInvariant, PTL
===============================================================================
