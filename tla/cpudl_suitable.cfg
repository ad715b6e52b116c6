SPECIFICATION MC_Spec
CONSTANTS
    NCPU = 3
    MaxDl = 2
INVARIANT FindSuitable
