SPECIFICATION StorageSpec
CONSTANTS
    MaxSaves = 4
    MaxCrashes = 3
INVARIANTS
    NeverTorn
    SavedVoteSurvives
CHECK_DEADLOCK FALSE
