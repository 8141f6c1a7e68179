CONSTANTS
    Team <- MCTeam
    Match <- MCMatch
    Home <- MCHome
    Away <- MCAway
    Score <- MCScore
    Attack <- MCAttack
    Defense <- MCDefense
    HomeAdvantage <- MCHomeAdvantage
    Draw <- MCDraw
    maxIterations = 12
    MaxRecentResults = 3
    Runs = 3
    Unit = 12
CHECK_DEADLOCK FALSE
SPECIFICATION Spec
INVARIANTS StoredSumToHundred NoCreditToTheEliminated RunsAreIndependent SimulatedScoresAreEditable
