SPECIFICATION Spec
CONSTANTS
    Session = {s1, s2}
    MaxToken = 5
    MaxItem = 2
    Faults <- AllFaults
SYMMETRY SessionSymmetry
INVARIANTS
    TypeOK
    OneLoginIsEnough
PROPERTIES
    TokenIsNotErased
    UndisturbedSessionRepairs
