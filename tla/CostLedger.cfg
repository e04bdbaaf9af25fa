SPECIFICATION CrewSpec
CONSTANTS
    w1 = w1
    w2 = w2
    Worker <- TwoWorkers
    MaxDay = 3
    SharedDays = 2
    MinLookback = 1
    Buffer = 1
    MaxLookback = 3
    ManualLookback <- Manual
    Retained = TRUE
SYMMETRY WorkerSymmetry
INVARIANTS
    TypeOK
    DuplicatesExplained
    MissingDaysExplained
    CheckpointedMeansLoaded
    CopiesBoundedByWorkers
