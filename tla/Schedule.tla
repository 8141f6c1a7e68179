------------------------------- MODULE Schedule -------------------------------
(***************************************************************************)
(* GenerateSchedule: the circle method.  The first team keeps its place,   *)
(* the others rotate; round r pairs the places from the outside inwards.   *)
(* The second half repeats the first with home and away exchanged.  A step *)
(* is one turn of an outer loop: a round is paired, or one is written out. *)
(***************************************************************************)
EXTENDS Integers, SequencesExt

CONSTANT TeamLists  \* the lists of team ids the schedule is made for

ASSUME ListsTyped == \A ids \in TeamLists : ids \in Seq(ToSet(ids)) /\ IsInjective(ids)

VARIABLES teamIDs,    \* the argument
          positions,  \* the teams in their places
          round,      \* rounds of the first half done
          firstHalf,  \* the pairs of the first half: a sequence of rounds
          weeks,      \* weeks written to fixtures
          fixtures,   \* the result: [week, home, away]
          done

vars == <<teamIDs, positions, round, firstHalf, weeks, fixtures, done>>

n == Len(teamIDs)
RoundsPerHalf == n - 1
MatchesPerRoundShort == (n - 1) \div 2
MatchesPerRound == n \div 2
Pairable == n >= 2 /\ n % 2 = 0

\* The slot i = 1 of the fixed team is never swapped.
Pair(i) ==
    LET first == positions[i]
        last == positions[n + 1 - i]
    IN  IF i > 1 /\ round % 2 = 1 THEN [home |-> last, away |-> first]
                                  ELSE [home |-> first, away |-> last]

RotateAll == <<Last(positions)>> \o Front(positions)
Rotate == <<positions[1], Last(positions)>> \o SubSeq(positions, 2, n - 1)

Init ==
    /\ teamIDs \in TeamLists
    /\ positions = teamIDs
    /\ round = 0
    /\ firstHalf = <<>>
    /\ weeks = 0
    /\ fixtures = <<>>
    /\ done = FALSE

NoSchedule ==
    /\ ~done
    /\ ~Pairable
    /\ done' = TRUE
    /\ UNCHANGED <<teamIDs, positions, round, firstHalf, weeks, fixtures>>

PlayRound ==
    /\ Pairable
    /\ round < RoundsPerHalf
    /\ firstHalf' = Append(firstHalf, [i \in 1 .. MatchesPerRound |-> Pair(i)])
    /\ positions' = Rotate
    /\ round' = round + 1
    /\ UNCHANGED <<teamIDs, weeks, fixtures, done>>

Fixture(week, home, away) == [week |-> week, home |-> home, away |-> away]

RepeatUnchanged(r, m) ==
    LET pair == firstHalf[r][m] IN Fixture(RoundsPerHalf + r, pair.home, pair.away)
ReturnLegEarly(r, m) ==
    LET pair == firstHalf[r][m] IN Fixture(RoundsPerHalf + r - 1, pair.away, pair.home)
FirstLeg(r, m) == LET pair == firstHalf[r][m] IN Fixture(r, pair.home, pair.away)
ReturnLeg(r, m) ==
    LET pair == firstHalf[r][m] IN Fixture(RoundsPerHalf + r, pair.away, pair.home)

AddWeek(Leg(_, _), r) ==
    /\ fixtures' = fixtures \o [m \in 1 .. MatchesPerRound |-> Leg(r, m)]
    /\ weeks' = weeks + 1
    /\ UNCHANGED <<teamIDs, positions, round, firstHalf, done>>

AddFirstLegs ==
    /\ Pairable /\ round = RoundsPerHalf
    /\ weeks < RoundsPerHalf
    /\ AddWeek(FirstLeg, weeks + 1)

AddReturnLegs ==
    /\ Pairable /\ round = RoundsPerHalf
    /\ weeks \in RoundsPerHalf .. 2 * RoundsPerHalf - 1
    /\ AddWeek(ReturnLeg, weeks - RoundsPerHalf + 1)

Return ==
    /\ ~done
    /\ Pairable /\ weeks = 2 * RoundsPerHalf
    /\ done' = TRUE
    /\ UNCHANGED <<teamIDs, positions, round, firstHalf, weeks, fixtures>>

Next == NoSchedule \/ PlayRound \/ AddFirstLegs \/ AddReturnLegs \/ Return

Spec == Init /\ [][Next]_vars /\ WF_vars(Next)
-------------------------------------------------------------------------------
(* Properties *)

Teams == ToSet(teamIDs)
Complete == done /\ fixtures # <<>>

\* The rotation never brings two teams together again in the first half, and
\* never loses or doubles a team.
NoRematch ==
    /\ ToSet(positions) = Teams
    /\ \A r, s \in 1 .. Len(firstHalf) : \A i \in DOMAIN firstHalf[r], j \in DOMAIN firstHalf[s] :
           LET a == firstHalf[r][i]  b == firstHalf[s][j]
           IN  {a.home, a.away} = {b.home, b.away} => r = s /\ i = j

\* "Each pair playing once at home and once away": every ordered pair of two
\* teams is exactly one fixture.
DoubleRoundRobin ==
    Complete =>
        \A home \in Teams : \A away \in Teams \ {home} :
            Cardinality({i \in DOMAIN fixtures :
                            fixtures[i].home = home /\ fixtures[i].away = away}) = 1

\* Every team plays exactly once in every week, which is what a League needs
\* for the form of a team to be written once a week.
OncePerWeek ==
    Complete =>
        \A week \in 1 .. 2 * RoundsPerHalf, t \in Teams :
            Cardinality({i \in DOMAIN fixtures :
                fixtures[i].week = week /\ t \in {fixtures[i].home, fixtures[i].away}}) = 1

\* The schedule ends: with n (n - 1) fixtures, or none where the teams cannot
\* be paired.
ScheduleEnds ==
    <>(done /\ Len(fixtures) = IF Pairable THEN n * (n - 1) ELSE 0)
===============================================================================
