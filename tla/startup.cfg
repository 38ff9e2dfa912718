SPECIFICATION FairSpec
CONSTANTS
    Pod = {p1, p2}
    Db = {d1, d2}
    Key = {k1, k2}
    None = None
INVARIANTS
    TypeOK
    ServingPodCanLogIn
    ReconnectHeals
PROPERTIES
    VaultComesBack
