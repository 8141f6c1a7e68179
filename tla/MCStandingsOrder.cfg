CONSTANTS
    Team <- MCTeam
    Match <- MCMatch
    Home <- MCHome
    Away <- MCAway
    Score <- MCScore
CHECK_DEADLOCK FALSE
SPECIFICATION Spec
INVARIANTS RankedByRules TiesKeepTheirOrder
