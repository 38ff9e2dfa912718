SPECIFICATION FairSpec
CONSTANTS
    Pod = {p1, p2}
    Db = {d1, d2}
    Key = {k1}
    None = None
PROPERTIES
    SelfHeals
