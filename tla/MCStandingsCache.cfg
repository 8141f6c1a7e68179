CONSTANTS
    Proc = {p1, p2, p3}
    Faults = TRUE
    MaxCommits = 2
CHECK_DEADLOCK FALSE
SPECIFICATION FairSpec
INVARIANTS StaleOnlyIfExcused HeadToHeadNotBehind WeekAsOfNow
PROPERTIES EventuallyFresh
