SPECIFICATION SystemSpec
CONSTANTS
    f1 = f1
    f2 = f2
    k1 = k1
    none = none
    unknown = unknown
    unlisted = unlisted
    Flows = {f1, f2}
    NoFlow = none
    Acting = {f1}
    LongNamed = {}
    MaxFaults = 1
    Embedders = {k1}
    Embeds <- AllEmbeds
    Callers = {f1, f2, k1}
    RunRows <- AllRunRows
    NoRun = none
    Unknown = unknown
    Reports <- AllReports
    Prices <- AllPrices
    NoPrice = unlisted
    PageSize = 4
INVARIANTS
    SystemTypeOK
    UsageTruthful
    UsageAccountsForRuns
    CompletedShownWhole
    WalkShowsSummary
CHECK_DEADLOCK FALSE
