SPECIFICATION Spec
CONSTANTS
    Nobody = Nobody
    Proc = {v1}
    Request = {r1}
    Home <- OneProc
    NumProviders = 1
    Ops = {"proxy"}
    Faults = {"sigterm"}
    MaxGrant = 1
    MaxGen = 2
INVARIANTS
    RotatedTokenIsWrittenBack
