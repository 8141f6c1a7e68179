----------------------------- MODULE MCPrediction -----------------------------
(* Two weeks of the four teams of 002_seed.sql, of which any fixtures have *)
(* been played.                                                            *)
EXTENDS Prediction

MCTeam == 1 .. 4
MCMatch == 1 .. 4
MCHome == <<1, 2, 1, 2>>
MCAway == <<4, 3, 3, 4>>
MCAttack == <<90, 84, 86, 79>>
MCDefense == <<85, 80, 78, 76>>
MCHomeAdvantage == <<7, 8, 8, 6>>
MCScore == {<<1, 0>>, <<1, 1>>}

\* One draw that is worth no goal or one, as the form decides, and one in the
\* tail of the distribution.
MCDraw == {2400, 9999}
===============================================================================
