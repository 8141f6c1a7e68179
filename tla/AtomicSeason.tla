----------------------------- MODULE AtomicSeason -----------------------------
(***************************************************************************)
(* What a client that never resets a season may rely on: its weeks are     *)
(* played one after the other, each in a single step that settles every    *)
(* fixture of the week still open, and an Edit replaces one score.         *)
(***************************************************************************)
EXTENDS Integers

CONSTANTS Match, WeekOf, TotalWeeks, Score, Unplayed

VARIABLES week,   \* weeks played
          score   \* score[m]: the result of fixture m, or Unplayed

Init == week = 0 /\ score = [m \in Match |-> Unplayed]

Open(w) == {m \in Match : WeekOf[m] = w /\ score[m] = Unplayed}

PlayNextWeek ==
    /\ week < TotalWeeks
    /\ Open(week + 1) # {}
    /\ week' = week + 1
    /\ \E results \in [Open(week + 1) -> Score] :
           score' = [m \in Match |-> IF m \in Open(week + 1) THEN results[m] ELSE score[m]]

EditMatch ==
    /\ \E m \in Match, s \in Score : score' = [score EXCEPT ![m] = s]
    /\ UNCHANGED week

Next == PlayNextWeek \/ EditMatch

Spec == Init /\ [][Next]_<<week, score>>
===============================================================================
