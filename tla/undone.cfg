SPECIFICATION Spec
CONSTANTS
    Nobody = Nobody
    Proc = {v1}
    Request = {r1}
    Home <- OneProc
    NumProviders = 1
    Ops = {"callback"}
    Faults = {}
    MaxGrant = 2
    MaxGen = 2
PROPERTIES
    ConnectIsNotUndone
