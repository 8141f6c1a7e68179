CONSTANTS
    Team <- MCTeam
    Match <- MCMatch
    Home <- MCHome
    Away <- MCAway
    WeekOf <- MCWeekOf
    Score <- MCScore
    TotalWeeks = 2
    PredictionStartWeek = 1
    MaxRecentResults = 1
    Proc = {p1}
    NoProc = NoProc
    Ops = {"edit"}
    MaxRequests = 1
CHECK_DEADLOCK FALSE
SPECIFICATION Spec
PROPERTIES EditRecomputesStandings
