CONSTANTS
    NumTasks = 2
    NumWorkers = 1
    Hints <- MCHintsNone
SPECIFICATION Spec
PROPERTY
    StageTerminates
CHECK_DEADLOCK FALSE
