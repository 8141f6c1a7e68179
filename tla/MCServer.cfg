CONSTANTS
    Proc = {p1, p2, p3}
    Season = {s1}
    Match = {1, 2}
    Week = {{1, 2}}
    Nobody = Nobody
    MaxConns = 4
    Ops = {"simulate", "edit", "reset"}
CHECK_DEADLOCK FALSE
SPECIFICATION ServerFairSpec
INVARIANTS NothingLeaks NoPoolDeadlock CleanStopDropsNobody
PROPERTIES RequestsServed ImplementsGracefulServer
