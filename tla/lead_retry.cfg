SPECIFICATION Spec
CONSTANTS
    i1 = i1
    i2 = i2
    i3 = i3
    l1 = l1
    l2 = l2
    l3 = l3
    E1 = E1
    E3 = E3
    C1 = C1
    C2 = C2
    none = none
    Ingests = {i1, i2}
    LeadIds = {l1, l2, l3}
    Requests <- RetriedRequests
    NoExternal = none
    NoLead = none
    MaxCalls = 4
SYMMETRY CallSymmetry
INVARIANTS
    RetriesReuseLead
CHECK_DEADLOCK FALSE
