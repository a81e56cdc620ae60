--------------------------- MODULE MCLeadIngestion ---------------------------
(* Instances of LeadIngestion for TLC.  Leads and calls are model values and *)
(* interchangeable.                                                          *)
EXTENDS LeadIngestion, TLC

CONSTANTS i1, i2, i3, l1, l2, l3, E1, E3, C1, C2, none

Request(e, c) == [external |-> e, contact |-> c]

\* Requests with and without their external id; one contact has two ids, and the CRM
\* entry E1 may change its contact from C1 to C2.
AllRequests ==
    {Request(E1, C1), Request(E1, C2), Request(none, C1), Request(none, C2), Request(E3, C1)}

\* Two versions of the entry and a form that knows the new contact only.
RetriedRequests == {Request(E1, C1), Request(E1, C2), Request(none, C2)}

CallSymmetry == Permutations(Ingests) \union Permutations(LeadIds)
=============================================================================
