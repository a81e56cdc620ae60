---------------------------- MODULE MCToolExecution ----------------------------
(* Instances of ToolExecution for TLC: one registered tool, a name nobody        *)
(* registered and a name that is no identifier; calls are interchangeable.       *)
EXTENDS ToolExecution, TLC

CONSTANTS c1, c2

CallSymmetry == Permutations(Calls)
===============================================================================
