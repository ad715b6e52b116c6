SPECIFICATION BwSpec
CONSTANTS
    t1 = t1
    t2 = t2
    Task = {t1, t2}
    NCPU = 4
    rd <- MC_rd
    Params <- MC_Params
    Writes <- MC_Writes
    Default <- MC_Default
    Services = {"reenter"}
    Unit = 4
    U64 = 64
INVARIANT TotalIsSum
SYMMETRY Symmetry
