SPECIFICATION Spec
CONSTANTS
    Nobody = Nobody
    Proc = {v1}
    Request = {r1, r2}
    Home <- OneProc
    NumProviders = 1
    Ops <- AllOps
    Faults = {}
    MaxGrant = 2
    MaxGen = 3
SYMMETRY RequestSymmetry
INVARIANTS
    TypeOK
    StoredRefreshIsCurrent
    PresentedTokenIsCurrent
PROPERTIES
    AccessNeverGoesBack
    NoWastedRefresh
    RefinesAtomicCredential
