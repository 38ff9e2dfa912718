SPECIFICATION Spec
CONSTANTS
    Session = {s1, s2}
    MaxToken = 3
    MaxItem = 2
    Faults = {"kill"}
PROPERTIES
    NoReuse
