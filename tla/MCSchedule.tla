------------------------------ MODULE MCSchedule ------------------------------
EXTENDS Schedule, TLC

\* No, few, odd and even numbers of teams, in every order the ids may come in.
MCTeamLists == {<<>>} \cup UNION {SetToSeqs(1 .. k) : k \in 1 .. 5}
                 \cup {<<1>> \o s : s \in SetToSeqs(2 .. 6)} \cup {[i \in 1 .. 8 |-> i]}
===============================================================================
