----------------------------- MODULE LeagueTable -----------------------------
(***************************************************************************)
(* The league table as StandingsService computes it: applyMatch credits    *)
(* one result to two rows, Calculate rebuilds the table from the fixtures  *)
(* that have been played.  A results map gives each fixture of the season  *)
(* its score <<home goals, away goals>>, or Unplayed.  goal_difference is  *)
(* the generated column goals_for - goals_against and is not stored.       *)
(***************************************************************************)
EXTENDS Integers, FiniteSetsExt

CONSTANTS Team,   \* the rows of table teams
          Match,  \* the fixtures of the schedule
          Home,   \* Home[m]: the home team of fixture m
          Away    \* Away[m]: the away team of fixture m

ASSUME ScheduleTyped == Home \in [Match -> Team] /\ Away \in [Match -> Team]
ASSUME SeasonFinite == IsFiniteSet(Team) /\ IsFiniteSet(Match)
ASSUME NobodyPlaysThemselves == \A m \in Match : Home[m] # Away[m]

Unplayed == <<>>

ZeroRow == [played |-> 0, won |-> 0, drawn |-> 0, lost |-> 0,
            goalsFor |-> 0, goalsAgainst |-> 0, points |-> 0]

ZeroTable == [t \in Team |-> ZeroRow]

PlayedIn(score) == {m \in Match : score[m] # Unplayed}
UnplayedIn(score) == {m \in Match : score[m] = Unplayed}

\* One side's share of a match it ended gf:ga.
Credit(row, gf, ga) ==
    [row EXCEPT !.played = @ + 1,
                !.goalsFor = @ + gf,
                !.goalsAgainst = @ + ga,
                !.won = IF gf > ga THEN @ + 1 ELSE @,
                !.drawn = IF gf = ga THEN @ + 1 ELSE @,
                !.lost = IF gf < ga THEN @ + 1 ELSE @,
                !.points = IF gf > ga THEN @ + 3 ELSE IF gf = ga THEN @ + 1 ELSE @]

ApplyMatch(table, home, away, goals) ==
    [table EXCEPT ![home] = Credit(@, goals[1], goals[2]),
                  ![away] = Credit(@, goals[2], goals[1])]

\* The order of the fixtures does not matter: ApplyMatch only adds.
Calculate(score) ==
    FoldSet(LAMBDA m, table : ApplyMatch(table, Home[m], Away[m], score[m]),
            ZeroTable, PlayedIn(score))

GoalDifference(row) == row.goalsFor - row.goalsAgainst

\* Row a comes before row b: points, then goal difference, then goals.
PrimaryLess(a, b) ==
    \/ a.points > b.points
    \/ /\ a.points = b.points
       /\ \/ GoalDifference(a) > GoalDifference(b)
          \/ GoalDifference(a) = GoalDifference(b) /\ a.goalsFor > b.goalsFor

PrimaryEqual(a, b) ==
    /\ a.points = b.points
    /\ GoalDifference(a) = GoalDifference(b)
    /\ a.goalsFor = b.goalsFor
==============================================================================
