SPECIFICATION Spec
CONSTANTS
    Nobody = Nobody
    Foreign = Foreign
    Login = {l1, l2}
    MaxReload = 3
INVARIANTS
    TypeOK
    ListenerIsWaitedFor
    SuccessIsTrue
    TokensReachTheLogin
PROPERTIES
    LoginSettles
CHECK_DEADLOCK FALSE
