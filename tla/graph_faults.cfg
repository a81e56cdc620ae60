SPECIFICATION Spec
CONSTANTS
    f1 = f1
    f2 = f2
    none = none
    Flows = {f1, f2}
    NoFlow = none
    Acting = {f1, f2}
    LongNamed = {f2}
    MaxFaults = 4
INVARIANTS
    TypeOK
    CompletedRunIsBacked
    TrailIsWalk
    ResponseMatchesRun
    ActionsAreGrounded
PROPERTIES
    RunSpec
CHECK_DEADLOCK FALSE
