CONSTANT TeamLists <- MCTeamLists
CHECK_DEADLOCK FALSE
SPECIFICATION Spec
INVARIANTS NoRematch DoubleRoundRobin OncePerWeek
PROPERTIES ScheduleEnds
