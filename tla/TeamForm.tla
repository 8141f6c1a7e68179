------------------------------- MODULE TeamForm -------------------------------
(***************************************************************************)
(* The form of a team, its latest results: how FormService and the runs of *)
(* MonteCarloPrediction record a result, and what the simulator makes of   *)
(* it.                                                                     *)
(***************************************************************************)
EXTENDS LeagueTable, Sequences

CONSTANT MaxRecentResults  \* length of a team's form

ASSUME FormRemembers == MaxRecentResults \in Nat \ {0}

Plays(t, m) == t \in {Home[m], Away[m]}

\* "W", "D" or "L" of team t in match m that ended s.
ResultFromScore(m, s, t) ==
    LET gf == IF t = Home[m] THEN s[1] ELSE s[2]
        ga == IF t = Home[m] THEN s[2] ELSE s[1]
    IN  IF gf > ga THEN "W" ELSE IF gf < ga THEN "L" ELSE "D"

RecordResult(recent, result) ==
    LET longer == Append(recent, result)
    IN  IF Len(longer) > MaxRecentResults THEN Tail(longer) ELSE longer

\* The forms after match m ended s; both teams of m have played one match.
RecordMatch(forms, m, s) ==
    [t \in Team |-> IF Plays(t, m) THEN RecordResult(forms[t], ResultFromScore(m, s, t))
                                   ELSE forms[t]]
===============================================================================
