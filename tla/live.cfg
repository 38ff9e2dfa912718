SPECIFICATION FairSpec
CONSTANTS
    Nobody = Nobody
    Proc = {v1}
    Request = {r1}
    Home <- OneProc
    NumProviders = 2
    Ops <- AllOps
    Faults = {"disconnect", "sql"}
    MaxGrant = 1
    MaxGen = 2
PROPERTIES
    RequestsAreAnswered
    LoopVisitsEveryProvider
    OnlyTheEndpointBlocks
    CallbackIsNotBlocked
