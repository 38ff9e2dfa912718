SPECIFICATION Spec
CONSTANTS
    Nobody = Nobody
    Proc = {v1, v2}
    Request = {r1, r2}
    Home <- Spread
    NumProviders = 1
    Ops = {"proxy", "callback"}
    Faults <- AllFaults
    MaxGrant = 1
    MaxGen = 2
INVARIANTS
    SingleFlight
    LockNeverLeaks
PROPERTIES
    RetryChangesToken
    RotationIsLostInFlight
