---------------------------- MODULE Schedule_proofs ----------------------------
(***************************************************************************)
(* GenerateSchedule makes a double round robin for every even number of    *)
(* teams.  After s rotations place j holds the team that began in place    *)
(* Place(size, j, s); everything follows from this closed form.            *)
(***************************************************************************)
EXTENDS Schedule, FiniteSetTheorems, SequenceTheorems, TLAPS

\* The first place of all is fixed, the others form a ring of size - 1 places.
Place(size, j, s) == IF j = 1 THEN 1 ELSE IF j - s >= 2 THEN j - s ELSE j - s + size - 1

\* The places that meet in slot i after s rotations, by where they began.
Meeting(size, i, s) == {Place(size, i, s), Place(size, size + 1 - i, s)}

-------------------------------------------------------------------------------
(* The arithmetic of the circle, for 2 h teams *)

LEMMA PlaceTyped ==
    ASSUME NEW h \in Nat \ {0}, NEW s \in 0 .. 2 * h - 1, NEW j \in 1 .. 2 * h
    PROVE  Place(2 * h, j, s) \in 1 .. 2 * h
BY DEF Place

\* No place is lost by rotating.
LEMMA PlaceOnto ==
    ASSUME NEW h \in Nat \ {0}, NEW s \in 0 .. 2 * h - 1, NEW x \in 1 .. 2 * h
    PROVE  \E j \in 1 .. 2 * h : Place(2 * h, j, s) = x
<1> DEFINE j == IF x = 1 THEN 1 ELSE IF x + s <= 2 * h THEN x + s ELSE x + s - 2 * h + 1
<1>1. j \in 1 .. 2 * h
  OBVIOUS
<1>2. Place(2 * h, j, s) = x
  BY DEF Place
<1> QED  BY <1>1, <1>2

LEMMA MeetingTyped ==
    ASSUME NEW h \in Nat \ {0}, NEW size, size = 2 * h,
           NEW s \in 0 .. 2 * h - 1, NEW i \in 1 .. h
    PROVE  Meeting(size, i, s) \subseteq 1 .. size
BY DEF Meeting, Place

\* Two places meet in one slot of one round only: rounds s and u apart they
\* would be 2 (s - u) apart on a ring of odd length.
LEMMA MeetOnce ==
    ASSUME NEW h \in Nat \ {0}, NEW s \in 0 .. 2 * h - 2, NEW u \in 0 .. 2 * h - 2,
           NEW i \in 1 .. h, NEW j \in 1 .. h, Meeting(2 * h, i, s) = Meeting(2 * h, j, u)
    PROVE  s = u /\ i = j
<1>1. \/ /\ Place(2 * h, i, s) = Place(2 * h, j, u)
         /\ Place(2 * h, 2 * h + 1 - i, s) = Place(2 * h, 2 * h + 1 - j, u)
      \/ /\ Place(2 * h, i, s) = Place(2 * h, 2 * h + 1 - j, u)
         /\ Place(2 * h, 2 * h + 1 - i, s) = Place(2 * h, j, u)
  BY DEF Meeting
<1> QED  BY <1>1 DEF Place

LEMMA MeetingHasTwo ==
    ASSUME NEW h \in Nat \ {0}, NEW s \in 0 .. 2 * h - 2, NEW i \in 1 .. h
    PROVE  Place(2 * h, i, s) # Place(2 * h, 2 * h + 1 - i, s)
BY DEF Place

\* Any two places meet: the round s solves 2 s = 2 h + 1 - x - y on the ring.
LEMMA EveryPairMeets ==
    ASSUME NEW h \in Nat \ {0}, NEW x \in 1 .. 2 * h, NEW y \in 1 .. 2 * h, x # y
    PROVE  \E s \in 0 .. 2 * h - 2, i \in 1 .. h : Meeting(2 * h, i, s) = {x, y}
<1> SUFFICES \E s \in 0 .. 2 * h - 2, i \in 1 .. h :
        \/ Place(2 * h, i, s) = x /\ Place(2 * h, 2 * h + 1 - i, s) = y
        \/ Place(2 * h, i, s) = y /\ Place(2 * h, 2 * h + 1 - i, s) = x
  BY DEF Meeting
<1>1. CASE x = 1
  <2>1. /\ 2 * h - y \in 0 .. 2 * h - 2
        /\ Place(2 * h, 1, 2 * h - y) = x /\ Place(2 * h, 2 * h + 1 - 1, 2 * h - y) = y
    BY <1>1 DEF Place
  <2> QED  BY <2>1
<1>2. CASE y = 1
  <2>1. /\ 2 * h - x \in 0 .. 2 * h - 2
        /\ Place(2 * h, 1, 2 * h - x) = y /\ Place(2 * h, 2 * h + 1 - 1, 2 * h - x) = x
    BY <1>2 DEF Place
  <2> QED  BY <2>1
<1>3. CASE x # 1 /\ y # 1
  <2> DEFINE v == 2 * h + 1 - x - y
  <2>1. \E s \in 0 .. 2 * h - 2 :
            2 * s = v \/ 2 * s = v + (2 * h - 1) \/ 2 * s = v + 2 * (2 * h - 1)
    <3>1. CASE v >= 0 /\ v % 2 = 0
      <4>1. v \div 2 \in 0 .. 2 * h - 2 /\ 2 * (v \div 2) = v
        BY <3>1
      <4> QED  BY <4>1
    <3>2. CASE v % 2 = 1
      <4> DEFINE w == v + (2 * h - 1)
      <4>1. w \div 2 \in 0 .. 2 * h - 2 /\ 2 * (w \div 2) = w
        BY <1>3, <3>2
      <4> QED  BY <4>1
    <3>3. CASE v < 0 /\ v % 2 = 0
      <4> DEFINE w == v + 2 * (2 * h - 1)
      <4>1. w \div 2 \in 0 .. 2 * h - 2 /\ 2 * (w \div 2) = w
        BY <1>3, <3>3
      <4> QED  BY <4>1
    <3> QED  BY <3>1, <3>2, <3>3
  <2>2. PICK s \in 0 .. 2 * h - 2 :
            2 * s = v \/ 2 * s = v + (2 * h - 1) \/ 2 * s = v + 2 * (2 * h - 1)
    BY <2>1
  \* Where x is by then, and the slot of that place.
  <2> DEFINE j == IF x + s <= 2 * h THEN x + s ELSE x + s - 2 * h + 1
             i == IF j <= h THEN j ELSE 2 * h + 1 - j
  <2>3. i \in 1 .. h
    BY <1>3
  <2>4. \/ Place(2 * h, i, s) = x /\ Place(2 * h, 2 * h + 1 - i, s) = y
        \/ Place(2 * h, i, s) = y /\ Place(2 * h, 2 * h + 1 - i, s) = x
    BY <1>3, <2>2 DEF Place
  <2> HIDE DEF i
  <2> QED  BY <2>3, <2>4
<1> QED  BY <1>1, <1>2, <1>3

\* Every place meets somebody in every round, in one slot only.
LEMMA OneSlotARound ==
    ASSUME NEW h \in Nat \ {0}, NEW s \in 0 .. 2 * h - 2, NEW x \in 1 .. 2 * h
    PROVE  \E i \in 1 .. h : /\ x \in Meeting(2 * h, i, s)
                             /\ \A j \in 1 .. h : x \in Meeting(2 * h, j, s) => j = i
<1> DEFINE j == IF x = 1 THEN 1 ELSE IF x + s <= 2 * h THEN x + s ELSE x + s - 2 * h + 1
           i == IF j <= h THEN j ELSE 2 * h + 1 - j
<1>1. i \in 1 .. h
  OBVIOUS
<1>2. x = Place(2 * h, i, s) \/ x = Place(2 * h, 2 * h + 1 - i, s)
  BY DEF Place
<1>3. ASSUME NEW k \in 1 .. h, x = Place(2 * h, k, s) \/ x = Place(2 * h, 2 * h + 1 - k, s)
      PROVE  k = i
  BY <1>3 DEF Place
<1> HIDE DEF i
<1> QED  BY <1>1, <1>2, <1>3 DEF Meeting

-------------------------------------------------------------------------------
(* The inductive invariant *)

\* What PlayRound pairs in slot i after s rotations.
PairOf(s, i) ==
    LET first == teamIDs[Place(n, i, s)]
        last == teamIDs[Place(n, n + 1 - i, s)]
    IN  IF i > 1 /\ s % 2 = 1 THEN [home |-> last, away |-> first]
                              ELSE [home |-> first, away |-> last]

\* The fixture of slot m in week w.
LegOf(w, m) == IF w <= RoundsPerHalf THEN FirstLeg(w, m) ELSE ReturnLeg(w - RoundsPerHalf, m)

Rotated ==
    /\ round \in 0 .. RoundsPerHalf
    /\ positions = [j \in 1 .. n |-> teamIDs[Place(n, j, round)]]
    /\ firstHalf = [s \in 1 .. round |-> [i \in 1 .. MatchesPerRound |-> PairOf(s - 1, i)]]

Game == [week : Nat, home : Teams, away : Teams]

Written ==
    /\ weeks \in 0 .. 2 * RoundsPerHalf
    /\ weeks > 0 => round = RoundsPerHalf
    /\ fixtures \in Seq(Game)
    /\ \A i \in 1 .. Len(fixtures) :
          \E w \in 1 .. weeks, m \in 1 .. MatchesPerRound : fixtures[i] = LegOf(w, m)
    /\ \A w \in 1 .. weeks, m \in 1 .. MatchesPerRound :
          \E i \in 1 .. Len(fixtures) : fixtures[i] = LegOf(w, m)
    /\ \A i, j \in 1 .. Len(fixtures) : fixtures[i] = fixtures[j] => i = j

NothingDone ==
    /\ round = 0 /\ weeks = 0
    /\ positions = teamIDs /\ firstHalf = <<>> /\ fixtures = <<>>

ScheduleInv ==
    /\ teamIDs \in TeamLists
    /\ done \in BOOLEAN
    /\ Pairable => Rotated /\ Written /\ (done => weeks = 2 * RoundsPerHalf)
    /\ ~Pairable => NothingDone

-------------------------------------------------------------------------------

\* The list of teams, and the size of half of it.
LEMMA TheTeams ==
    ASSUME teamIDs \in TeamLists
    PROVE  /\ n \in Nat
           /\ teamIDs \in [1 .. n -> Teams]
           /\ Teams = {teamIDs[x] : x \in 1 .. n}
           /\ \A x, y \in 1 .. n : teamIDs[x] = teamIDs[y] => x = y
           /\ Pairable => MatchesPerRound \in Nat \ {0} /\ n = 2 * MatchesPerRound
<1>1. teamIDs \in Seq(Teams) /\ IsInjective(teamIDs)
  BY ListsTyped DEF Teams
<1>2. n \in Nat /\ DOMAIN teamIDs = 1 .. n /\ teamIDs \in [1 .. n -> Teams]
  BY <1>1 DEF n
<1>3. Teams = {teamIDs[x] : x \in 1 .. n}
  BY <1>2 DEF Teams, ToSet
<1>4. \A x, y \in 1 .. n : teamIDs[x] = teamIDs[y] => x = y
  BY <1>1, <1>2 DEF IsInjective
<1>5. Pairable => MatchesPerRound \in Nat \ {0} /\ n = 2 * MatchesPerRound
  BY <1>2 DEF Pairable, MatchesPerRound
<1> QED  BY <1>2, <1>3, <1>4, <1>5

\* Sets of places are told apart by the teams that began there.
LEMMA SamePlaces ==
    ASSUME ScheduleInv, NEW A \in SUBSET (1 .. n), NEW B \in SUBSET (1 .. n),
           {teamIDs[x] : x \in A} = {teamIDs[x] : x \in B}
    PROVE  A = B
<1>1. \A x \in A : \E y \in B : teamIDs[x] = teamIDs[y]
  OBVIOUS
<1>2. \A y \in B : \E x \in A : teamIDs[x] = teamIDs[y]
  OBVIOUS
<1>3. \A x, y \in 1 .. n : teamIDs[x] = teamIDs[y] => x = y
  BY TheTeams DEF ScheduleInv
<1>4. A \subseteq B
  BY <1>1, <1>3
<1>5. B \subseteq A
  BY <1>2, <1>3
<1> QED  BY <1>4, <1>5

LEMMA InitScheduleInv == Init => ScheduleInv
<1> SUFFICES ASSUME Init PROVE ScheduleInv
  OBVIOUS
<1> teamIDs \in TeamLists
  BY DEF Init
<1>1. CASE ~Pairable
  BY <1>1 DEF Init, ScheduleInv, NothingDone
<1>2. CASE Pairable
  <2> DEFINE h == MatchesPerRound
  <2>1. h \in Nat \ {0} /\ n = 2 * h /\ RoundsPerHalf = 2 * h - 1
    BY <1>2, TheTeams DEF RoundsPerHalf
  <2>2. \A j \in 1 .. n : Place(n, j, 0) = j
    BY <2>1 DEF Place
  <2>3. round \in 0 .. RoundsPerHalf /\ positions = [j \in 1 .. n |-> teamIDs[Place(n, j, round)]]
    BY <2>1, <2>2, TheTeams DEF Init
  <2>4. firstHalf = [s \in 1 .. round |-> [i \in 1 .. h |-> PairOf(s - 1, i)]]
    <3> DEFINE played(s) == [i \in 1 .. h |-> PairOf(s - 1, i)]
    <3>1. round = 0 /\ firstHalf = <<>>
      BY DEF Init
    <3> HIDE DEF played
    <3>2. firstHalf = [s \in 1 .. round |-> played(s)]
      BY <3>1
    <3> QED  BY <3>2 DEF played
  <2>6. Rotated
    BY <2>3, <2>4, Zenon DEF Rotated
  <2>5. Written
    BY <2>1 DEF Init, Written
  <2> QED  BY <1>2, <2>5, <2>6 DEF Init, ScheduleInv
<1> QED  BY <1>1, <1>2

\* One turn of the first loop.
LEMMA PlayRoundRotates ==
    ASSUME ScheduleInv, PlayRound
    PROVE  ScheduleInv'
<1> USE DEF PlayRound
<1> DEFINE h == MatchesPerRound
<1>1. h \in Nat \ {0} /\ n = 2 * h /\ RoundsPerHalf = 2 * h - 1
  BY TheTeams DEF RoundsPerHalf, ScheduleInv
<1>2. /\ n' = n /\ h' = h /\ RoundsPerHalf' = RoundsPerHalf /\ Teams' = Teams
      /\ Pairable' /\ Pairable
  BY DEF n, MatchesPerRound, RoundsPerHalf, Teams, Pairable
<1>3. round \in 0 .. 2 * h - 2 /\ Rotated /\ Written /\ weeks = 0
  BY <1>1 DEF ScheduleInv, Rotated, Written
<1>4. positions' = [j \in 1 .. n |-> teamIDs[Place(n, j, round + 1)]]
  <2>1. positions \in Seq(Teams) /\ Len(positions) = n
    <3>1. \A j \in 1 .. n : Place(n, j, round) \in 1 .. n
      BY <1>1, <1>3, PlaceTyped
    <3>2. positions \in [1 .. n -> Teams]
      BY <1>3, <3>1, TheTeams DEF Rotated, ScheduleInv
    <3> QED  BY <1>1, <3>2
  <2>2. Last(positions) = positions[n]
    BY <2>1 DEF Last
  <2>3. ASSUME NEW j \in 1 .. n
        PROVE  Rotate[j] = IF j = 1 THEN positions[1]
                           ELSE IF j = 2 THEN positions[n] ELSE positions[j - 1]
    BY <1>1, <2>1, <2>2 DEF Rotate
  <2>4. Rotate = [j \in 1 .. n |-> Rotate[j]]
    BY <1>1, <2>1, <2>2 DEF Rotate
  <2>5. ASSUME NEW j \in 1 .. n PROVE Rotate[j] = teamIDs[Place(n, j, round + 1)]
    <3>1. CASE j = 1
      BY <1>1, <1>3, <2>3, <3>1 DEF Rotated, Place
    <3>2. CASE j = 2
      <4>1. Place(n, n, round) = Place(n, 2, round + 1)
        BY <1>1, <1>3 DEF Place
      <4> QED  BY <1>1, <1>3, <2>3, <3>2, <4>1 DEF Rotated
    <3>3. CASE j > 2
      <4>1. Place(n, j - 1, round) = Place(n, j, round + 1)
        BY <1>1, <1>3, <3>3 DEF Place
      <4> QED  BY <1>1, <1>3, <2>3, <3>3, <4>1 DEF Rotated
    <3> QED  BY <3>1, <3>2, <3>3
  <2> QED  BY <2>4, <2>5
<1>5. ASSUME NEW i \in 1 .. h PROVE Pair(i) = PairOf(round, i)
  <2>1. positions[i] = teamIDs[Place(n, i, round)]
        /\ positions[n + 1 - i] = teamIDs[Place(n, n + 1 - i, round)]
    BY <1>1, <1>3 DEF Rotated
  <2> QED  BY <2>1 DEF Pair, PairOf
<1>6. firstHalf' = [s \in 1 .. round' |-> [i \in 1 .. h |-> PairOf(s - 1, i)]]
  <2> DEFINE played(s) == [i \in 1 .. h |-> PairOf(s - 1, i)]
  <2>1. [i \in 1 .. h |-> Pair(i)] = played(round + 1)
    BY <1>3, <1>5
  <2>2. firstHalf = [s \in 1 .. round |-> played(s)]
    BY <1>3 DEF Rotated
  <2>3. firstHalf' = Append(firstHalf, played(round + 1)) /\ round' = round + 1
    BY <2>1
  <2> HIDE DEF played
  <2>4. firstHalf' = [s \in 1 .. round + 1 |-> played(s)]
    BY <1>3, <2>2, <2>3
  <2> QED  BY <2>3, <2>4 DEF played
<1>7. \A s, i : PairOf(s, i)' = PairOf(s, i)
  BY <1>2 DEF PairOf
<1>8. Rotated'
  BY <1>1, <1>2, <1>3, <1>4, <1>6, <1>7 DEF Rotated
<1>9. Written'
  BY <1>2, <1>3 DEF Written, Game
<1> QED  BY <1>2, <1>3, <1>8, <1>9 DEF ScheduleInv

-------------------------------------------------------------------------------
(* What is written from the rounds *)

\* The rotations done when the round of week w was paired.
RotationsOf(w) == IF w <= RoundsPerHalf THEN w - 1 ELSE w - RoundsPerHalf - 1

\* The two legs of a round, in terms of the pairs of the round.
LEMMA LegOfPair ==
    ASSUME ScheduleInv, Pairable, round = RoundsPerHalf,
           NEW w \in 1 .. 2 * RoundsPerHalf, NEW m \in 1 .. MatchesPerRound
    PROVE  LET pair == PairOf(RotationsOf(w), m)
           IN  LegOf(w, m) = IF w <= RoundsPerHalf
                             THEN [week |-> w, home |-> pair.home, away |-> pair.away]
                             ELSE [week |-> w, home |-> pair.away, away |-> pair.home]
<1> DEFINE R == RoundsPerHalf
           played(r) == [i \in 1 .. MatchesPerRound |-> PairOf(r - 1, i)]
<1>1. R \in Nat
  BY TheTeams DEF RoundsPerHalf, ScheduleInv, Pairable
<1>2. ASSUME NEW r \in 1 .. R PROVE firstHalf[r][m] = PairOf(r - 1, m)
  <2>1. firstHalf = [r_1 \in 1 .. round |-> played(r_1)]
    BY DEF ScheduleInv, Rotated
  <2> HIDE DEF played
  <2>2. firstHalf[r] = played(r)
    BY <2>1
  <2> QED  BY <2>2 DEF played
<1>3. CASE w <= R
  <2>1. firstHalf[w][m] = PairOf(w - 1, m)
    BY <1>1, <1>2, <1>3
  <2> QED  BY <1>3, <2>1 DEF LegOf, FirstLeg, Fixture, RotationsOf
<1>4. CASE ~(w <= R)
  <2>1. w - R \in 1 .. R /\ R + (w - R) = w
    BY <1>1, <1>4
  <2>2. firstHalf[w - R][m] = PairOf(w - R - 1, m)
    BY <1>2, <2>1
  <2> QED  BY <1>4, <2>1, <2>2 DEF LegOf, ReturnLeg, Fixture, RotationsOf
<1> QED  BY <1>3, <1>4

LEMMA LegFacts ==
    ASSUME ScheduleInv, Pairable, round = RoundsPerHalf,
           NEW w \in 1 .. 2 * RoundsPerHalf, NEW m \in 1 .. MatchesPerRound
    PROVE  /\ RotationsOf(w) \in 0 .. RoundsPerHalf - 1
           /\ LegOf(w, m) \in Game
           /\ LegOf(w, m).week = w
           /\ LegOf(w, m).home # LegOf(w, m).away
           /\ {LegOf(w, m).home, LegOf(w, m).away}
                 = {teamIDs[x] : x \in Meeting(n, m, RotationsOf(w))}
<1> DEFINE h == MatchesPerRound
           s == RotationsOf(w)
           pair == PairOf(s, m)
           first == Place(n, m, s)
           last == Place(n, n + 1 - m, s)
<1>1. h \in Nat \ {0} /\ n = 2 * h /\ RoundsPerHalf = 2 * h - 1
  BY TheTeams DEF RoundsPerHalf, ScheduleInv
<1>2. s \in 0 .. RoundsPerHalf - 1
  BY <1>1 DEF RotationsOf
<1>3. first \in 1 .. n /\ last \in 1 .. n /\ first # last
  BY <1>1, <1>2, PlaceTyped, MeetingHasTwo
<1>4. teamIDs[first] \in Teams /\ teamIDs[last] \in Teams /\ teamIDs[first] # teamIDs[last]
  BY <1>3, TheTeams DEF ScheduleInv
<1>5. {teamIDs[x] : x \in Meeting(n, m, s)} = {teamIDs[first], teamIDs[last]}
  BY DEF Meeting
<1>6. /\ pair.home \in Teams /\ pair.away \in Teams /\ pair.home # pair.away
      /\ {pair.home, pair.away} = {teamIDs[first], teamIDs[last]}
  BY <1>4 DEF PairOf
<1>7. LegOf(w, m) \in {[week |-> w, home |-> pair.home, away |-> pair.away],
                       [week |-> w, home |-> pair.away, away |-> pair.home]}
  BY LegOfPair
<1> HIDE DEF pair, s, first, last
<1>8. w \in Nat
  BY <1>1
<1>9. /\ LegOf(w, m) \in Game /\ LegOf(w, m).week = w /\ LegOf(w, m).home # LegOf(w, m).away
      /\ {LegOf(w, m).home, LegOf(w, m).away} = {pair.home, pair.away}
  BY <1>6, <1>7, <1>8 DEF Game
<1> QED  BY <1>2, <1>5, <1>6, <1>9 DEF s

\* No two slots are written as the same fixture.
LEMMA LegInjective ==
    ASSUME ScheduleInv, Pairable, round = RoundsPerHalf,
           NEW w \in 1 .. 2 * RoundsPerHalf, NEW u \in 1 .. 2 * RoundsPerHalf,
           NEW m \in 1 .. MatchesPerRound, NEW l \in 1 .. MatchesPerRound,
           {LegOf(w, m).home, LegOf(w, m).away} = {LegOf(u, l).home, LegOf(u, l).away}
    PROVE  RotationsOf(w) = RotationsOf(u) /\ m = l
<1> DEFINE h == MatchesPerRound
           s == RotationsOf(w)
           r == RotationsOf(u)
<1>1. h \in Nat \ {0} /\ n = 2 * h /\ RoundsPerHalf = 2 * h - 1
  BY TheTeams DEF RoundsPerHalf, ScheduleInv
<1>2. s \in 0 .. 2 * h - 2 /\ r \in 0 .. 2 * h - 2
  BY <1>1, LegFacts
<1>3. {teamIDs[x] : x \in Meeting(n, m, s)} = {teamIDs[x] : x \in Meeting(n, l, r)}
  BY LegFacts
<1>4. Meeting(n, m, s) \subseteq 1 .. n /\ Meeting(n, l, r) \subseteq 1 .. n
  BY <1>1, <1>2, PlaceTyped DEF Meeting
<1>5. Meeting(n, m, s) = Meeting(n, l, r)
  BY <1>3, <1>4, SamePlaces
<1> QED  BY <1>1, <1>2, <1>5, MeetOnce

\* One turn of the loops that write the weeks.
LEMMA AddWeekWrites ==
    ASSUME ScheduleInv, AddFirstLegs \/ AddReturnLegs
    PROVE  ScheduleInv'
<1> DEFINE h == MatchesPerRound
           R == RoundsPerHalf
           more == [m \in 1 .. h |-> LegOf(weeks + 1, m)]
<1>1. Pairable /\ round = R /\ h \in Nat \ {0} /\ n = 2 * h /\ R = 2 * h - 1
  BY TheTeams DEF RoundsPerHalf, ScheduleInv, AddFirstLegs, AddReturnLegs
<1>2. weeks \in 0 .. 2 * R - 1
  BY <1>1 DEF AddFirstLegs, AddReturnLegs, ScheduleInv, Written
<1>3. fixtures' = fixtures \o more
  <2>1. CASE AddFirstLegs
    <3>1. \A m \in 1 .. h : FirstLeg(weeks + 1, m) = LegOf(weeks + 1, m)
      BY <1>1, <1>2, <2>1 DEF AddFirstLegs, LegOf
    <3>2. fixtures' = fixtures \o [m \in 1 .. h |-> FirstLeg(weeks + 1, m)]
      BY <2>1 DEF AddFirstLegs, AddWeek
    <3> QED  BY <3>1, <3>2
  <2>2. CASE AddReturnLegs
    <3>1. ~(weeks + 1 <= R) /\ (weeks + 1) - R = weeks - R + 1
      BY <1>1, <2>2 DEF AddReturnLegs
    <3>2. \A m \in 1 .. h : ReturnLeg(weeks - R + 1, m) = LegOf(weeks + 1, m)
      <4>1. \A m \in 1 .. h : LegOf(weeks + 1, m) = ReturnLeg((weeks + 1) - R, m)
        BY <3>1 DEF LegOf
      <4> QED  BY <3>1, <4>1, Zenon
    <3>3. fixtures' = fixtures \o [m \in 1 .. h |-> ReturnLeg(weeks - R + 1, m)]
      BY <2>2 DEF AddReturnLegs, AddWeek
    <3> QED  BY <3>2, <3>3
  <2> QED  BY <2>1, <2>2
<1>4. weeks' = weeks + 1 /\ UNCHANGED <<teamIDs, positions, round, firstHalf, done>>
  BY DEF AddFirstLegs, AddReturnLegs, AddWeek
<1>5. /\ n' = n /\ MatchesPerRound' = h /\ RoundsPerHalf' = R /\ Game' = Game
      /\ Pairable' = Pairable
  BY <1>4 DEF n, MatchesPerRound, RoundsPerHalf, Teams, Pairable, Game
<1>6. /\ \A w, m : LegOf(w, m)' = LegOf(w, m)
      /\ \A s, i : PairOf(s, i)' = PairOf(s, i)
  BY <1>4, <1>5 DEF LegOf, FirstLeg, ReturnLeg, Fixture, PairOf
<1>7. Rotated' /\ ~done
  <2>1. ~done
    BY <1>1, <1>2 DEF ScheduleInv
  <2>2. Rotated
    BY <1>1 DEF ScheduleInv
  <2> QED  BY <1>4, <1>5, <1>6, <2>1, <2>2 DEF Rotated
<1>8. more \in Seq(Game) /\ Len(more) = h /\ \A m \in 1 .. h : more[m] = LegOf(weeks + 1, m)
  <2>1. \A m \in 1 .. h : LegOf(weeks + 1, m) \in Game
    <3>1. weeks + 1 \in 1 .. 2 * R
      BY <1>1, <1>2
    <3> QED  BY <1>1, <3>1, LegFacts
  <2> QED  BY <1>1, <2>1
<1> HIDE DEF more
<1>9. /\ fixtures \in Seq(Game) /\ Len(fixtures) \in Nat /\ fixtures' \in Seq(Game)
      /\ Len(fixtures') = Len(fixtures) + h
      /\ \A i \in 1 .. Len(fixtures) : fixtures'[i] = fixtures[i]
      /\ \A m \in 1 .. h : fixtures'[Len(fixtures) + m] = LegOf(weeks + 1, m)
  <2>1. fixtures \in Seq(Game) /\ Len(fixtures) \in Nat
    BY <1>1 DEF ScheduleInv, Written
  <2>2. /\ fixtures' \in Seq(Game) /\ Len(fixtures') = Len(fixtures) + h
        /\ \A i \in 1 .. Len(fixtures) + h :
              fixtures'[i] = IF i <= Len(fixtures) THEN fixtures[i] ELSE more[i - Len(fixtures)]
    BY <1>3, <1>8, <2>1, ConcatProperties
  <2>3. ASSUME NEW m \in 1 .. h PROVE fixtures'[Len(fixtures) + m] = LegOf(weeks + 1, m)
    <3>1. /\ Len(fixtures) + m \in 1 .. Len(fixtures) + h /\ ~(Len(fixtures) + m <= Len(fixtures))
          /\ Len(fixtures) + m - Len(fixtures) = m
      BY <1>1, <2>1
    <3> QED  BY <1>8, <2>2, <3>1
  <2>4. ASSUME NEW i \in 1 .. Len(fixtures) PROVE fixtures'[i] = fixtures[i]
    BY <1>1, <2>1, <2>2
  <2> QED  BY <2>1, <2>2, <2>3, <2>4
\* A place of fixtures' is an old one or one of the new week.
<1>10. ASSUME NEW i \in 1 .. Len(fixtures')
       PROVE  i \in 1 .. Len(fixtures) \/ \E m \in 1 .. h : i = Len(fixtures) + m
  <2>1. CASE i > Len(fixtures)
    <3>1. i - Len(fixtures) \in 1 .. h /\ i = Len(fixtures) + (i - Len(fixtures))
      BY <1>1, <1>9, <2>1
    <3> QED  BY <3>1
  <2> QED  BY <1>9, <2>1
<1>11. ASSUME NEW i \in 1 .. Len(fixtures')
       PROVE  \E w \in 1 .. weeks + 1, m \in 1 .. h : fixtures'[i] = LegOf(w, m)
  <2>1. CASE i \in 1 .. Len(fixtures)
    <3>1. PICK w \in 1 .. weeks, m \in 1 .. h : fixtures[i] = LegOf(w, m)
      BY <1>1, <2>1 DEF ScheduleInv, Written
    <3> QED  BY <1>2, <1>9, <2>1, <3>1
  <2>2. CASE \E m \in 1 .. h : i = Len(fixtures) + m
    BY <1>2, <1>9, <2>2
  <2> QED  BY <1>10, <2>1, <2>2
<1>12. ASSUME NEW w \in 1 .. weeks + 1, NEW m \in 1 .. h
       PROVE  \E i \in 1 .. Len(fixtures') : fixtures'[i] = LegOf(w, m)
  <2>1. CASE w \in 1 .. weeks
    <3>1. PICK i \in 1 .. Len(fixtures) : fixtures[i] = LegOf(w, m)
      BY <1>1, <2>1 DEF ScheduleInv, Written
    <3> QED  BY <1>1, <1>9, <3>1
  <2>2. CASE w = weeks + 1
    <3>1. Len(fixtures) + m \in 1 .. Len(fixtures')
      BY <1>1, <1>9
    <3> QED  BY <1>9, <2>2, <3>1
  <2> QED  BY <1>2, <2>1, <2>2
\* The week tells new fixtures from old ones.
<1>13. ASSUME NEW i \in 1 .. Len(fixtures), NEW m \in 1 .. h
       PROVE  fixtures[i].week # LegOf(weeks + 1, m).week
  <2>1. PICK w \in 1 .. weeks, l \in 1 .. h : fixtures[i] = LegOf(w, l)
    BY <1>1 DEF ScheduleInv, Written
  <2>2. fixtures[i].week = w
    <3>1. w \in 1 .. 2 * R
      BY <1>1, <1>2
    <3> QED  BY <1>1, <2>1, <3>1, LegFacts
  <2>3. LegOf(weeks + 1, m).week = weeks + 1
    BY <1>1, <1>2, LegFacts
  <2> QED  BY <1>2, <2>2, <2>3
<1>14. ASSUME NEW i \in 1 .. Len(fixtures'), NEW j \in 1 .. Len(fixtures'), fixtures'[i] = fixtures'[j]
       PROVE  i = j
  <2>1. CASE i \in 1 .. Len(fixtures) /\ j \in 1 .. Len(fixtures)
    BY <1>1, <1>9, <1>14, <2>1 DEF ScheduleInv, Written
  <2>2. CASE i \notin 1 .. Len(fixtures) /\ j \in 1 .. Len(fixtures)
    BY <1>9, <1>10, <1>13, <1>14, <2>2
  <2>3. CASE i \in 1 .. Len(fixtures) /\ j \notin 1 .. Len(fixtures)
    BY <1>9, <1>10, <1>13, <1>14, <2>3
  <2>4. CASE i \notin 1 .. Len(fixtures) /\ j \notin 1 .. Len(fixtures)
    <3>1. PICK m \in 1 .. h, l \in 1 .. h : i = Len(fixtures) + m /\ j = Len(fixtures) + l
      BY <1>10, <2>4
    <3>2. LegOf(weeks + 1, m) = LegOf(weeks + 1, l)
      BY <1>9, <1>14, <3>1
    <3>3. m = l
      <4>1. weeks + 1 \in 1 .. 2 * R
        BY <1>1, <1>2
      <4> QED  BY <1>1, <3>2, <4>1, LegInjective
    <3> QED  BY <3>1, <3>3
  <2> QED  BY <2>1, <2>2, <2>3, <2>4
<1>15. Written'
  <2>1. weeks' \in 0 .. 2 * R /\ round' = R
    BY <1>1, <1>2, <1>4
  <2>2. /\ \A i \in 1 .. Len(fixtures') :
              \E w \in 1 .. weeks', m \in 1 .. h : fixtures'[i] = LegOf(w, m)
        /\ \A w \in 1 .. weeks', m \in 1 .. h :
              \E i \in 1 .. Len(fixtures') : fixtures'[i] = LegOf(w, m)
    BY <1>4, <1>11, <1>12
  <2> QED  BY <1>5, <1>6, <1>9, <1>14, <2>1, <2>2, Zenon DEF Written
<1> QED  BY <1>1, <1>2, <1>4, <1>5, <1>7, <1>15 DEF ScheduleInv

-------------------------------------------------------------------------------
(* The theorems *)

LEMMA NextScheduleInv == ScheduleInv /\ [Next]_vars => ScheduleInv'
<1> SUFFICES ASSUME ScheduleInv, [Next]_vars PROVE ScheduleInv'
  OBVIOUS
\* What does not mention done.
<1>1. ASSUME UNCHANGED <<teamIDs, positions, round, firstHalf, weeks, fixtures>>
      PROVE  /\ Pairable' = Pairable /\ RoundsPerHalf' = RoundsPerHalf
             /\ Rotated' = Rotated /\ Written' = Written /\ NothingDone' = NothingDone
  BY <1>1 DEF Pairable, n, RoundsPerHalf, MatchesPerRound, Teams, Rotated, Written, NothingDone,
       PairOf, LegOf, FirstLeg, ReturnLeg, Fixture, Game
<1>2. CASE NoSchedule
  BY <1>1, <1>2 DEF NoSchedule, ScheduleInv
<1>3. CASE PlayRound
  BY <1>3, PlayRoundRotates
<1>4. CASE AddFirstLegs \/ AddReturnLegs
  BY <1>4, AddWeekWrites
<1>5. CASE Return
  BY <1>1, <1>5 DEF Return, ScheduleInv
<1>6. CASE UNCHANGED vars
  BY <1>1, <1>6 DEF vars, ScheduleInv
<1> QED  BY <1>2, <1>3, <1>4, <1>5, <1>6 DEF Next

\* The closed form of the rotation, and what has been written from it.
LEMMA ScheduleInvariant == Spec => []ScheduleInv
BY InitScheduleInv, NextScheduleInv, PTL DEF Spec

\* For any even number of teams, the rotation never brings two teams together
\* again in the first half, and never loses a team.
THEOREM RotationNeverRematches == Spec => []NoRematch
<1>1. ScheduleInv => NoRematch
  <2> SUFFICES ASSUME ScheduleInv PROVE NoRematch
    OBVIOUS
  <2>1. CASE ~Pairable
    BY <2>1 DEF ScheduleInv, NothingDone, NoRematch, Teams
  <2>2. CASE Pairable
    <3> DEFINE h == MatchesPerRound
    <3>1. h \in Nat \ {0} /\ n = 2 * h /\ RoundsPerHalf = 2 * h - 1 /\ round \in 0 .. 2 * h - 1
      BY <2>2, TheTeams DEF RoundsPerHalf, ScheduleInv, Rotated
    <3>2. ToSet(positions) = Teams
      <4>1. \A x \in 1 .. n : Place(n, x, round) \in 1 .. n
        BY <3>1, PlaceTyped
      <4>2. \A x \in 1 .. n : \E j \in 1 .. n : Place(n, j, round) = x
        BY <3>1, PlaceOnto
      <4>3. ToSet(positions) = {teamIDs[Place(n, j, round)] : j \in 1 .. n}
        BY <2>2 DEF ScheduleInv, Rotated, ToSet
      <4> QED  BY <4>1, <4>2, <4>3, TheTeams DEF ScheduleInv
    <3>3. ASSUME NEW r \in 1 .. Len(firstHalf)
          PROVE  /\ r \in 1 .. RoundsPerHalf /\ DOMAIN firstHalf[r] = 1 .. h
                 /\ \A i \in 1 .. h :
                       {firstHalf[r][i].home, firstHalf[r][i].away}
                           = {teamIDs[x] : x \in Meeting(n, i, r - 1)}
      <4> DEFINE played(s) == [i \in 1 .. h |-> PairOf(s - 1, i)]
      <4>1. firstHalf = [s \in 1 .. round |-> played(s)]
        BY <2>2 DEF ScheduleInv, Rotated
      <4> HIDE DEF played
      <4>2. r \in 1 .. round /\ firstHalf[r] = played(r)
        BY <3>1, <4>1
      <4>3. \A i \in 1 .. h : {PairOf(r - 1, i).home, PairOf(r - 1, i).away}
                                 = {teamIDs[x] : x \in Meeting(n, i, r - 1)}
        BY DEF PairOf, Meeting
      <4>4. \A i \in 1 .. h : firstHalf[r][i] = PairOf(r - 1, i)
        BY <4>2 DEF played
      <4>5. DOMAIN firstHalf[r] = 1 .. h
        BY <4>2 DEF played
      <4>6. r \in 1 .. RoundsPerHalf
        BY <3>1, <4>2
      <4> HIDE DEF h
      <4> QED  BY <4>3, <4>4, <4>5, <4>6
    <3>4. ASSUME NEW r \in 1 .. Len(firstHalf), NEW s \in 1 .. Len(firstHalf),
                 NEW i \in 1 .. h, NEW j \in 1 .. h,
                 {teamIDs[x] : x \in Meeting(n, i, r - 1)} = {teamIDs[x] : x \in Meeting(n, j, s - 1)}
          PROVE  r = s /\ i = j
      <4>1. r - 1 \in 0 .. 2 * h - 2 /\ s - 1 \in 0 .. 2 * h - 2
        BY <3>1, <3>3
      <4>2. Meeting(n, i, r - 1) \subseteq 1 .. n /\ Meeting(n, j, s - 1) \subseteq 1 .. n
        <5> HIDE DEF h
        <5>1. r - 1 \in 0 .. 2 * h - 1 /\ s - 1 \in 0 .. 2 * h - 1
          BY <3>1, <4>1
        <5> QED  BY <3>1, <5>1, MeetingTyped
      <4>3. Meeting(n, i, r - 1) = Meeting(n, j, s - 1)
        <5> DEFINE A == Meeting(n, i, r - 1)
                   B == Meeting(n, j, s - 1)
        <5>1. {teamIDs[x] : x \in A} = {teamIDs[x] : x \in B}
          BY <3>4
        <5>2. A \in SUBSET (1 .. n) /\ B \in SUBSET (1 .. n)
          BY <4>2
        <5> HIDE DEF A, B
        <5>3. A = B
          BY <5>1, <5>2, SamePlaces
        <5> QED  BY <5>3 DEF A, B
      <4>4. r - 1 = s - 1 /\ i = j
        <5> HIDE DEF h
        <5>1. Meeting(2 * h, i, r - 1) = Meeting(2 * h, j, s - 1)
          BY <3>1, <4>3
        <5> QED  BY <3>1, <4>1, <5>1, MeetOnce
      <4> QED  BY <3>1, <4>4
    <3>5. ASSUME NEW r \in 1 .. Len(firstHalf), NEW s \in 1 .. Len(firstHalf),
                 NEW i \in DOMAIN firstHalf[r], NEW j \in DOMAIN firstHalf[s],
                 {firstHalf[r][i].home, firstHalf[r][i].away}
                     = {firstHalf[s][j].home, firstHalf[s][j].away}
          PROVE  r = s /\ i = j
      <4> HIDE DEF h
      <4>1. i \in 1 .. h /\ j \in 1 .. h
        BY <3>3
      <4>2. {teamIDs[x] : x \in Meeting(n, i, r - 1)} = {teamIDs[x] : x \in Meeting(n, j, s - 1)}
        BY <3>3, <3>5, <4>1
      <4> QED  BY <3>4, <4>1, <4>2
    <3> QED  BY <3>2, <3>5 DEF NoRematch
  <2> QED  BY <2>1, <2>2
<1> QED  BY <1>1, ScheduleInvariant, PTL

LEMMA CompleteMeans ==
    ASSUME ScheduleInv, Complete
    PROVE  /\ Pairable /\ round = RoundsPerHalf /\ weeks = 2 * RoundsPerHalf
           /\ MatchesPerRound \in Nat \ {0} /\ n = 2 * MatchesPerRound
           /\ RoundsPerHalf = 2 * MatchesPerRound - 1
           /\ DOMAIN fixtures = 1 .. Len(fixtures)
<1>1. Pairable
  BY DEF ScheduleInv, Complete, NothingDone
<1>2. MatchesPerRound \in Nat \ {0} /\ n = 2 * MatchesPerRound
      /\ RoundsPerHalf = 2 * MatchesPerRound - 1
  BY <1>1, TheTeams DEF RoundsPerHalf, ScheduleInv
<1>3. weeks = 2 * RoundsPerHalf /\ Written
  BY <1>1 DEF ScheduleInv, Complete
<1> QED  BY <1>1, <1>2, <1>3 DEF Written

\* For any even number of teams, every ordered pair of teams is one fixture.
THEOREM EveryPairHomeAndAway == Spec => []DoubleRoundRobin
<1>1. ScheduleInv => DoubleRoundRobin
  <2> SUFFICES ASSUME ScheduleInv, Complete,
                      NEW home \in Teams, NEW away \in Teams \ {home}
               PROVE  Cardinality({i \in DOMAIN fixtures :
                          fixtures[i].home = home /\ fixtures[i].away = away}) = 1
    BY DEF DoubleRoundRobin
  <2> DEFINE h == MatchesPerRound
             R == RoundsPerHalf
             Found(k) == fixtures[k].home = home /\ fixtures[k].away = away
  <2>1. /\ Pairable /\ round = R /\ weeks = 2 * R
        /\ h \in Nat \ {0} /\ n = 2 * h /\ R = 2 * h - 1
        /\ DOMAIN fixtures = 1 .. Len(fixtures)
    BY CompleteMeans
  <2>2. PICK x \in 1 .. n, y \in 1 .. n : x # y /\ home = teamIDs[x] /\ away = teamIDs[y]
    BY TheTeams DEF ScheduleInv
  <2>3. PICK s \in 0 .. 2 * h - 2, i \in 1 .. h : Meeting(n, i, s) = {x, y}
    <3> HIDE DEF h
    <3>1. \E s \in 0 .. 2 * h - 2, i \in 1 .. h : Meeting(2 * h, i, s) = {x, y}
      BY <2>1, <2>2, EveryPairMeets
    <3> QED  BY <2>1, <3>1
  <2> DEFINE pair == PairOf(s, i)
             w == IF pair.home = home THEN s + 1 ELSE R + s + 1
  <2>4. {pair.home, pair.away} = {home, away}
    BY <2>2, <2>3 DEF PairOf, Meeting
  <2>5. w \in 1 .. 2 * R /\ RotationsOf(w) = s /\ (w <= R <=> pair.home = home)
    BY <2>1 DEF RotationsOf
  <2> HIDE DEF pair, w
  <2>6. LegOf(w, i).home = home /\ LegOf(w, i).away = away
    <3>1. LegOf(w, i) = IF w <= R THEN [week |-> w, home |-> pair.home, away |-> pair.away]
                                  ELSE [week |-> w, home |-> pair.away, away |-> pair.home]
      <4>1. LegOf(w, i) = LET q == PairOf(RotationsOf(w), i)
                          IN  IF w <= R THEN [week |-> w, home |-> q.home, away |-> q.away]
                                        ELSE [week |-> w, home |-> q.away, away |-> q.home]
        BY <2>1, <2>5, LegOfPair
      <4> QED  BY <2>5, <4>1 DEF pair
    <3>2. CASE pair.home = home
      BY <2>4, <2>5, <3>1, <3>2
    <3>3. CASE pair.home # home
      BY <2>4, <2>5, <3>1, <3>3
    <3> QED  BY <3>2, <3>3
  <2>7. PICK k \in 1 .. Len(fixtures) : fixtures[k] = LegOf(w, i)
    BY <2>1, <2>5 DEF ScheduleInv, Written
  <2>8. ASSUME NEW l \in 1 .. Len(fixtures), Found(l) PROVE l = k
    <3>1. PICK u \in 1 .. 2 * R, m \in 1 .. h : fixtures[l] = LegOf(u, m)
      BY <2>1 DEF ScheduleInv, Written
    <3>2. RotationsOf(u) = s /\ m = i
      BY <2>1, <2>5, <2>6, <2>8, <3>1, LegInjective
    <3>3. u <= R <=> pair.home = home
      BY <2>1, <2>4, <2>8, <3>1, <3>2, LegOfPair DEF pair
    <3>4. u = w
      BY <2>1, <2>5, <3>2, <3>3 DEF RotationsOf
    <3> QED  BY <2>1, <2>7, <3>1, <3>2, <3>4 DEF ScheduleInv, Written
  <2>9. {l \in DOMAIN fixtures : Found(l)} = {k}
    BY <2>1, <2>6, <2>7, <2>8
  <2> QED  BY <2>9, FS_Singleton
<1> QED  BY <1>1, ScheduleInvariant, PTL

\* For any even number of teams, every team plays exactly once in every week:
\* what League assumes of its schedule (OneMatchAWeek).
THEOREM EveryTeamOnceAWeek == Spec => []OncePerWeek
<1>1. ScheduleInv => OncePerWeek
  <2> SUFFICES ASSUME ScheduleInv, Complete,
                      NEW week \in 1 .. 2 * RoundsPerHalf, NEW t \in Teams
               PROVE  Cardinality({i \in DOMAIN fixtures :
                          fixtures[i].week = week /\ t \in {fixtures[i].home, fixtures[i].away}}) = 1
    BY DEF OncePerWeek
  <2> DEFINE h == MatchesPerRound
             s == RotationsOf(week)
             Found(l) == fixtures[l].week = week /\ t \in {fixtures[l].home, fixtures[l].away}
  <2>1. /\ Pairable /\ round = RoundsPerHalf /\ weeks = 2 * RoundsPerHalf
        /\ h \in Nat \ {0} /\ n = 2 * h /\ RoundsPerHalf = 2 * h - 1
        /\ DOMAIN fixtures = 1 .. Len(fixtures)
    BY CompleteMeans
  <2>2. PICK x \in 1 .. n : t = teamIDs[x]
    BY TheTeams DEF ScheduleInv
  <2>3. s \in 0 .. 2 * h - 2
    BY <2>1 DEF RotationsOf
  <2>4. ASSUME NEW m \in 1 .. h
        PROVE  /\ LegOf(week, m).week = week
               /\ t \in {LegOf(week, m).home, LegOf(week, m).away} <=> x \in Meeting(n, m, s)
    <3>1. /\ LegOf(week, m).week = week
          /\ {LegOf(week, m).home, LegOf(week, m).away} = {teamIDs[y] : y \in Meeting(n, m, s)}
      BY <2>1, LegFacts
    <3>2. Meeting(n, m, s) \subseteq 1 .. n
      <4> HIDE DEF s, h
      <4>1. s \in 0 .. 2 * h - 1
        BY <2>1, <2>3
      <4> QED  BY <2>1, <4>1, MeetingTyped
    <3>3. t \in {teamIDs[y] : y \in Meeting(n, m, s)} <=> x \in Meeting(n, m, s)
      <4> HIDE DEF s
      <4> QED  BY <2>2, <3>2, TheTeams DEF ScheduleInv
    <3> QED  BY <3>1, <3>3
  <2>5. PICK i \in 1 .. h : /\ x \in Meeting(n, i, s)
                            /\ \A j \in 1 .. h : x \in Meeting(n, j, s) => j = i
    <3> HIDE DEF s
    <3> QED  BY <2>1, <2>3, OneSlotARound
  <2>6. PICK k \in 1 .. Len(fixtures) : fixtures[k] = LegOf(week, i)
    BY <2>1 DEF ScheduleInv, Written
  <2>7. ASSUME NEW l \in 1 .. Len(fixtures), Found(l) PROVE l = k
    <3>1. PICK u \in 1 .. 2 * RoundsPerHalf, m \in 1 .. h : fixtures[l] = LegOf(u, m)
      BY <2>1 DEF ScheduleInv, Written
    <3>2. u = week
      BY <2>1, <2>7, <3>1, LegFacts
    <3>3. m = i
      BY <2>4, <2>5, <2>7, <3>1, <3>2
    <3> QED  BY <2>1, <2>6, <3>1, <3>2, <3>3 DEF ScheduleInv, Written
  <2>8. Found(k)
    BY <2>4, <2>5, <2>6
  <2>9. {l \in DOMAIN fixtures : Found(l)} = {k}
    BY <2>1, <2>7, <2>8
  <2> QED  BY <2>9, FS_Singleton
<1> QED  BY <1>1, ScheduleInvariant, PTL
================================================================================
