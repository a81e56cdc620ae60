SPECIFICATION Spec
CONSTANTS
    i1 = i1
    i2 = i2
    s1 = s1
    s2 = s2
    Ingests = {i1, i2}
    Searches = {s1, s2}
    MaxChunks = 3
    MaxFaults = 3
SYMMETRY KnowledgeSymmetry
INVARIANTS
    TypeOK
    EvidenceStands
    CreatedIsSearchable
    FailedLeavesNothing
PROPERTIES
    BaseSpec
CHECK_DEADLOCK FALSE
