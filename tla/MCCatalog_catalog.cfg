CONSTANTS
    Revisions = {r1, r2}
    Prompts = {p1, p2}
    MaxId = 2
    Creators = {c1, c2}
    MaxCrashes = 1
    MaxRequests = 5
    None = none
SYMMETRY Contents
SPECIFICATION Spec
INVARIANTS OneDefault PinsRetained
PROPERTIES DefaultKept
CHECK_DEADLOCK FALSE
