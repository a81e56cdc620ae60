------------------------------- MODULE Chunking -------------------------------
(***************************************************************************)
(* TextChunker.chunk cuts the words of a document into overlapping windows,*)
(* and embed_batch takes all of them in one request or none.               *)
(*                                                                         *)
(* One step is one iteration of the loop.  A window is the pair of its     *)
(* first position and the position after its last, counted from zero.      *)
(***************************************************************************)
EXTENDS Naturals, Sequences

CONSTANTS
    Documents,  \* what is cut: [words, size, overlap], the latter two configured
    MaxTexts    \* the texts embed_batch takes at most

\* The constructor of TextChunker and the settings refuse other configurations.
ASSUME DocumentsAssumption == \A d \in Documents :
    /\ d.words \in Nat
    /\ d.size \in Nat /\ d.size >= 20
    /\ d.overlap \in Nat /\ d.overlap < d.size

ASSUME TextsAssumption == MaxTexts \in Nat \ {0}

VARIABLES
    doc,      \* the document being cut
    start,    \* the loop's start
    chunks,   \* the windows cut so far
    broke,    \* was the loop left by its break?
    batch     \* what embed_batch said of them

vars == <<doc, start, chunks, broke, batch>>

Init ==
    /\ doc \in Documents
    /\ start = 0
    /\ chunks = <<>>
    /\ broke = FALSE
    /\ batch = "none"

Looping == ~broke /\ start < doc.words

\* Faulty variant: the end is not clamped.
Unclamped == start + doc.size

End == IF start + doc.size <= doc.words THEN start + doc.size ELSE doc.words

\* Faulty variant: a window that leaves only the overlap is taken for the last.
NearTheEnd(end) == end + doc.overlap >= doc.words

AtTheEnd(end) == end = doc.words

\* Faulty variants: the overlap forgotten; the settings swapped.
WithoutOverlap(end) == end

SizeForOverlap(end) == end - doc.size

NextStart(end) == end - doc.overlap

Cut ==
    /\ Looping
    /\ chunks' = Append(chunks, <<start, End>>)
    /\ IF AtTheEnd(End)
         THEN broke' = TRUE /\ UNCHANGED start
         ELSE start' = NextStart(End) /\ UNCHANGED broke
    /\ UNCHANGED <<doc, batch>>

\* Faulty variant: off by one.
FewerThanMax(n) == n > 0 /\ n < MaxTexts

Takes(n) == n > 0 /\ n <= MaxTexts

\* ingest refuses a document without chunks itself.
Submit ==
    /\ ~Looping /\ batch = "none"
    /\ batch' = IF Takes(Len(chunks)) THEN "sent" ELSE "refused"
    /\ UNCHANGED <<doc, start, chunks, broke>>

Next == Cut \/ Submit

Spec == Init /\ [][Next]_vars

-----------------------------------------------------------------------------
(* Properties                                                               *)

TypeOK ==
    /\ doc \in Documents
    /\ start \in 0 .. doc.words
    /\ chunks \in Seq((0 .. doc.words) \X (0 .. doc.words))
    /\ broke \in BOOLEAN
    /\ batch \in {"none", "sent", "refused"}

\* No word of a document is lost to the search: whatever is embedded covers all
\* words, in windows that are neither empty nor larger than configured.
EveryWordIsChunked ==
    batch # "none" =>
        /\ \A w \in 0 .. doc.words - 1 :
            \E k \in 1 .. Len(chunks) : chunks[k][1] <= w /\ w < chunks[k][2]
        /\ \A k \in 1 .. Len(chunks) :
            chunks[k][1] < chunks[k][2] /\ chunks[k][2] - chunks[k][1] <= doc.size

\* Neighbouring windows share exactly the configured overlap, and each adds words
\* to the one before it: no chunk is a part of its neighbour.
NeighboursOverlap ==
    \A k \in 1 .. Len(chunks) - 1 :
        /\ chunks[k][2] - chunks[k + 1][1] = doc.overlap
        /\ chunks[k][2] < chunks[k + 1][2]

\* Each iteration but the last moves the window forward, so the loop ends for
\* every configuration the constructor lets pass.
AdvancesOrEnds == [][chunks' # chunks => start' > start \/ broke']_vars

\* The longest document one batch can hold.
Capacity == doc.size + (MaxTexts - 1) * (doc.size - doc.overlap)

\* A document is refused exactly when it has no words or more than the capacity of
\* the configuration: rounding never costs a window.
RefusedOnlyBeyondCapacity ==
    batch # "none" => (batch = "refused" <=> doc.words = 0 \/ doc.words > Capacity)
===============================================================================
