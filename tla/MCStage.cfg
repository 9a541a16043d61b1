CONSTANTS
    NumTasks = 3
    NumWorkers = 2
    Hints <- MCHints
SPECIFICATION Spec
INVARIANTS
    TypeOK
    ResultsInOrder
    NoWorkerOversubscribed
    StoppedStageIsQuiet
PROPERTY StageImplementsStageRun
CHECK_DEADLOCK FALSE
