------------------------------ MODULE MCChunking ------------------------------
(* Instances of Chunking for TLC: every length up to a few windows in the        *)
(* smallest sizes with every overlap, and documents around the capacity of one   *)
(* batch.                                                                        *)
EXTENDS Chunking

MaxWords == 64

Document(words, size, overlap) == [words |-> words, size |-> size, overlap |-> overlap]

SmallDocuments ==
    {Document(w, s, o) : w \in 0 .. MaxWords, s \in 20 .. 21, o \in 0 .. 19}

\* 1000 windows of 20 words that overlap in 19 hold 1019 words, in 18 hold 2018.
LongDocuments ==
    {Document(w, 20, 19) : w \in 1019 .. 1020} \union {Document(w, 20, 18) : w \in 2017 .. 2019}

AllDocuments == SmallDocuments \union LongDocuments
===============================================================================
