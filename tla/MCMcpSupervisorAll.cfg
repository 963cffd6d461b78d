SPECIFICATION Spec
CONSTANTS
    s1 = s1
    c1 = c1
    c2 = c2
    c3 = c3
    Servers = {s1}
    Calls = {c1, c2, c3}
    MaxFails = 2
SYMMETRY AnyCall
INVARIANTS TypeOK ErrorsMatchState
PROPERTY NoLateVerdict
