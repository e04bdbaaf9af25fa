SPECIFICATION CrewSpec
CONSTANTS
    w1 = w1
    w2 = w2
    Worker <- TwoWorkers
    MaxDay = 2
    SharedDays = 2
    MinLookback = 1
    Buffer = 1
    MaxLookback = 2
    ManualLookback <- Manual
    Retained = FALSE
INVARIANT
    NoDuplicateCost
