--------------------------- MODULE MCStandingsOrder ---------------------------
(* Three teams that meet twice. *)
EXTENDS StandingsOrder

MCTeam == 1 .. 3
MCMatch == 1 .. 6
MCHome == <<1, 2, 3, 2, 3, 1>>
MCAway == <<2, 3, 1, 1, 2, 3>>
MCScore == {<<1, 0>>, <<0, 1>>, <<2, 2>>}
===============================================================================
