SPECIFICATION Spec
CONSTANTS
    x1 = x1
    x2 = x2
    w1 = w1
    w2 = w2
    Export <- OneExport
    Worker <- TwoLoops
    MaxRequeues = 3
    LockOutlivesBuild = TRUE
CHECK_DEADLOCK FALSE
INVARIANTS
    TypeOK
    ReadyIsWhole
    OneBuilder
    NobodyForgotten
PROPERTIES
 ExportsEnd
