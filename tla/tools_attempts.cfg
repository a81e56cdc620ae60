SPECIFICATION Spec
CONSTANTS
    c1 = c1
    c2 = c2
    Calls = {c1, c2}
    Names = {"get_lead", "delete_lead", "Get-Lead"}
    Tools = {"get_lead"}
    WellNamed = {"get_lead", "delete_lead"}
    MaxFaults = 0
SYMMETRY CallSymmetry
INVARIANTS
    AttemptsAreRecorded
CHECK_DEADLOCK FALSE
