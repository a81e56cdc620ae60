SPECIFICATION Spec
CONSTANTS
    i1 = i1
    i2 = i2
    i3 = i3
    l1 = l1
    l2 = l2
    l3 = l3
    E1 = E1
    E3 = E3
    C1 = C1
    C2 = C2
    none = none
    Ingests = {i1, i2, i3}
    LeadIds = {l1, l2, l3}
    Requests <- AllRequests
    NoExternal = none
    NoLead = none
    MaxCalls = 6
SYMMETRY CallSymmetry
INVARIANTS
    TypeOK
    IngestNeverFails
    SecondLeadOnlyAfterMove
CHECK_DEADLOCK FALSE
