\* The jobs of one ride; nothing fails.
SPECIFICATION FairSpec
CONSTANTS
    MaxRounds = 2
    InitialRadius = 2
    MaxRadius = 3
    Attempts = 2
    MaxBatches = 2
    MaxQueued = 2
    MaxTrouble = 0
CHECK_DEADLOCK FALSE
PROPERTIES DispatchResumes
