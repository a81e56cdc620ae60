SPECIFICATION Spec
CONSTANTS
    r1 = r1
    j1 = j1
    d1 = d1
    d2 = d2
    c1 = c1
    email = email
    crm = crm
    none = none
    Types = {crm}
    EmailType = email
    NoType = none
    Requesters = {r1}
    Approvers = {d1, d2}
    Rejecters = {}
    Callbacks = {c1}
    CallbackStatuses = {"completed", "failed"}
    EarlyAck = FALSE
    MaxRounds = 2
    MaxDeliveries = 1
    MaxFaults = 0
SYMMETRY HandlerSymmetry
PROPERTIES
    LifecycleDiagram
CHECK_DEADLOCK FALSE
