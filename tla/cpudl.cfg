SPECIFICATION MC_Spec
CONSTANTS
    NCPU = 4
    MaxDl = 3
INVARIANTS
    IndexInverse
    RootIsLatest
    FindBestAlone
PROPERTY MapSpec
