------------------------- MODULE MCKnowledgeIngestion -------------------------
(* Instances of KnowledgeIngestion for TLC.  Ingests are interchangeable, and so*)
(* are searches.                                                              *)
EXTENDS KnowledgeIngestion, TLC

CONSTANTS i1, i2, s1, s2

KnowledgeSymmetry == Permutations(Ingests) \union Permutations(Searches)
===============================================================================
