\* The jobs of one ride, with two errors, deaths or other requests at any point.
SPECIFICATION FairSpec
CONSTANTS
    MaxRounds = 2
    InitialRadius = 2
    MaxRadius = 3
    Attempts = 2
    MaxBatches = 2
    MaxQueued = 2
    MaxTrouble = 2
CHECK_DEADLOCK FALSE
INVARIANTS TypeOK FirstJobSurvives
PROPERTIES NoEarlyTimeout RecoveryResumes
