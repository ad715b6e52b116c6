SPECIFICATION Spec
CONSTANTS
    t1 = t1
    t2 = t2
    Task = {t1, t2}
    Idle = Idle
    NULL = NULL
    Params <- MC_One
    Services = {"yield", "setsched", "boost"}
    Prompt = FALSE
    MaxClock = 4
SYMMETRY Symmetry
CHECK_DEADLOCK FALSE
INVARIANT TypeOK
INVARIANT TreeCoherent
INVARIANT ExactlyRunnable
INVARIANT BugCauses
