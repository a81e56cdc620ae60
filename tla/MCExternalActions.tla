-------------------------- MODULE MCExternalActions --------------------------
(* Instances of ExternalActions for TLC: handlers and action types are      *)
(* model values, approve handlers are interchangeable.                      *)
EXTENDS ExternalActions, TLC

CONSTANTS r1, j1, d1, d2, c1, email, crm, none

HandlerSymmetry == Permutations(Approvers)
=============================================================================
