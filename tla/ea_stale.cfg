SPECIFICATION Spec
CONSTANTS
    r1 = r1
    j1 = j1
    d1 = d1
    d2 = d2
    c1 = c1
    email = email
    crm = crm
    none = none
    Types = {crm}
    EmailType = email
    NoType = none
    Requesters = {r1}
    Approvers = {d1, d2}
    Rejecters = {}
    Callbacks = {c1}
    CallbackStatuses = {"completed", "failed"}
    EarlyAck = TRUE
    MaxRounds = 2
    MaxDeliveries = 2
    MaxFaults = 0
SYMMETRY HandlerSymmetry
INVARIANTS
    RowConsistency
    OneDispatchPerApproval
    CompletedMeansEffected
PROPERTIES
    SettledRowFrozen
CHECK_DEADLOCK FALSE
