SPECIFICATION FairSpec
CONSTANTS
    t1 = t1
    t2 = t2
    Task = {t1, t2}
    Idle = Idle
    NULL = NULL
    Params <- MC_Params
    Services = {"yield"}
    Prompt = FALSE
    MaxClock = 6
CHECK_DEADLOCK FALSE
INVARIANT BudgetRules
INVARIANT PreemptionPending
INVARIANT OnlyYieldStuck
PROPERTY Replenished
