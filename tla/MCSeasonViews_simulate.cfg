CONSTANTS
    Team <- MCTeam
    Match <- MCMatch
    Home <- MCHome
    Away <- MCAway
    WeekOf <- MCWeekOf
    Score <- MCScore
    TotalWeeks = 2
    PredictionStartWeek = 2
    MaxRecentResults = 2
    Proc = {p1, p2}
    NoProc = NoProc
    Ops = {"simulate", "playall"}
    MaxRequests = 2
    Reader = {r1}
CHECK_DEADLOCK FALSE
SPECIFICATION ViewsSpec
SYMMETRY Symmetry
INVARIANTS PlayedUpToCurrentWeek StandingsMatchResults FormMatchesResults CachedRankingKnowsItsMatches WeekTableCountsItsResults QuietCacheServesResults
