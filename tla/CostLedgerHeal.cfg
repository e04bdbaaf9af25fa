SPECIFICATION CrewSpec
CONSTANTS
    w1 = w1
    w2 = w2
    Worker <- OneWorker
    MaxDay = 4
    SharedDays = 4
    MinLookback = 1
    Buffer = 1
    MaxLookback = 3
    ManualLookback <- Manual
    Retained = FALSE
PROPERTY
    SelfHeals
