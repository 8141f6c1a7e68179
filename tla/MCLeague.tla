------------------------------- MODULE MCLeague -------------------------------
(* The first two weeks of the schedule GenerateSchedule makes for 4 teams. *)
EXTENDS League, TLC

MCTeam == 1 .. 4
MCMatch == 1 .. 4
MCWeekOf == <<1, 1, 2, 2>>
MCHome == <<1, 2, 1, 2>>
MCAway == <<4, 3, 3, 4>>

\* A home win and a draw.
MCScore == {<<1, 0>>, <<1, 1>>}

Symmetry == Permutations(Proc)
===============================================================================
