SPECIFICATION Spec
CONSTANTS
    linear = linear
    other = other
    read = read
    write = write
    Flow = {f1, f2}
    Delivery = {d1, d2}
    Provider = {linear, other}
    Scope = {read, write}
    Envs <- SomeEnvs
    None = None
    Hour = 1
    MaxTime = 2
SYMMETRY ElicitationSymmetry
INVARIANTS
    TypeOK
    StateIsSingleUse
    VerifierStaysWithItsProvider
    StoredEndsItsOwnFlow
PROPERTIES
    YoungFlowSurvives
    FormIsHonoured
    FlowFinishesAsItStarted
CHECK_DEADLOCK FALSE
