CONSTANTS
    Proc = {p1, p2}
    Faults = FALSE
    MaxCommits = 3
CHECK_DEADLOCK FALSE
SPECIFICATION Spec
INVARIANTS FreshWhenQuiet
SYMMETRY Symmetry
