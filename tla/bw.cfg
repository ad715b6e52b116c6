SPECIFICATION BwSpec
CONSTANTS
    t1 = t1
    t2 = t2
    Task = {t1, t2}
    NCPU = 4
    rd <- MC_rd
    Params <- MC_Params
    Writes <- MC_Writes
    Default <- MC_Default
    Services = {}
    Unit = 4
    U64 = 64
INVARIANTS
    TotalIsSum
    UniformCap
    CycleNeedsFourRunqueues
PROPERTY OnlyKnobsOvercommit
SYMMETRY Symmetry
CONSTRAINT Calm
CHECK_DEADLOCK FALSE
