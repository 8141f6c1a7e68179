CONSTANTS
    Proc = {p1}
    Faults = TRUE
    MaxCommits = 3
CHECK_DEADLOCK FALSE
SPECIFICATION Spec
INVARIANTS FreshWhenQuiet
