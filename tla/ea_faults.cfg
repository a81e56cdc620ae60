SPECIFICATION Spec
CONSTANTS
    r1 = r1
    j1 = j1
    d1 = d1
    d2 = d2
    c1 = c1
    email = email
    crm = crm
    none = none
    Types = {email}
    EmailType = email
    NoType = none
    Requesters = {r1}
    Approvers = {d1, d2}
    Rejecters = {j1}
    Callbacks = {c1}
    CallbackStatuses = {"completed"}
    EarlyAck = FALSE
    MaxRounds = 2
    MaxDeliveries = 1
    MaxFaults = 1
SYMMETRY HandlerSymmetry
INVARIANTS
    TypeOK
    NoEffectWithoutApproval
    NoUnauditedDispatch
    AuditTruthful
    AuditComplete
PROPERTIES
    GateSpec
CHECK_DEADLOCK FALSE
