CONSTANTS
    Proc = {p1, p2}
    Season = {s1}
    Match = {1, 2}
    Week = {{1, 2}}
    Nobody = Nobody
    MaxConns = 2
    Ops = {"simulate", "edit"}
SPECIFICATION Spec
INVARIANTS NoPoolDeadlock
SYMMETRY Symmetry
