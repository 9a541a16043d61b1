SPECIFICATION Spec
CONSTANTS
    NumBlocks = 2
    NumWorkers = 3
INVARIANT MostAdvertisedChosen
