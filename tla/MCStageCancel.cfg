CONSTANTS
    NumTasks = 2
    NumWorkers = 2
    Hints <- MCHintsNone
SPECIFICATION Spec
PROPERTY
    NoDispatchAfterCancel
CHECK_DEADLOCK FALSE
