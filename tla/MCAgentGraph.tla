----------------------------- MODULE MCAgentGraph -----------------------------
(* Instances of AgentGraph for TLC: an orchestration with a short name and one   *)
(* with a long one are not interchangeable, so there is no symmetry.             *)
EXTENDS AgentGraph

CONSTANTS f1, f2, none
=============================================================================
