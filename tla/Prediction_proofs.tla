--------------------------- MODULE Prediction_proofs ---------------------------
(***************************************************************************)
(* What Predict promises of its percentages, for every league, every       *)
(* number of runs and every draw.                                          *)
(***************************************************************************)
EXTENDS Prediction, LeagueTable_proofs

-------------------------------------------------------------------------------
(* The sampler *)

\* The turn k of the sampling loop.
Turn(w, k, lambda, u) ==
    LET p == (w.p * lambda) \div (1000 * k)
    IN  IF u > w.cumulative THEN [p |-> p, cumulative |-> w.cumulative + p, goals |-> k] ELSE w

BeforeTheLoop(lambda) ==
    [p |-> ExpMinus(lambda), cumulative |-> ExpMinus(lambda), goals |-> 0]

\* walk is the loop up to turn k.
Walks(walk, k, lambda, u) ==
    walk = [j \in 0 .. k |-> IF j = 0 THEN BeforeTheLoop(lambda) ELSE Turn(walk[j - 1], j, lambda, u)]

LEMMA WalkAt ==
    ASSUME NEW k \in Nat, NEW lambda, NEW u, NEW walk
    PROVE  Walks(walk, k, lambda, u)
             <=> /\ walk = [j \in 0 .. k |-> walk[j]]
                 /\ \A j \in 0 .. k : walk[j] = IF j = 0 THEN BeforeTheLoop(lambda)
                                                ELSE Turn(walk[j - 1], j, lambda, u)
<1> DEFINE V(j) == IF j = 0 THEN BeforeTheLoop(lambda) ELSE Turn(walk[j - 1], j, lambda, u)
<1>1. Walks(walk, k, lambda, u) <=> walk = [j \in 0 .. k |-> V(j)]
  BY DEF Walks
<1> HIDE DEF V
<1>2. walk = [j \in 0 .. k |-> V(j)]
         <=> walk = [j \in 0 .. k |-> walk[j]] /\ \A j \in 0 .. k : walk[j] = V(j)
  OBVIOUS
<1> QED  BY <1>1, <1>2 DEF V

LEMMA WalkExists ==
    ASSUME NEW lambda, NEW u
    PROVE  \A k \in Nat : \E walk : Walks(walk, k, lambda, u)
<1> DEFINE P == {k \in Nat : \E walk : Walks(walk, k, lambda, u)}
<1>1. 0 \in P
  <2> DEFINE walk == [j \in 0 .. 0 |-> BeforeTheLoop(lambda)]
  <2>1. /\ walk = [j \in 0 .. 0 |-> walk[j]]
        /\ \A j \in 0 .. 0 : walk[j] = IF j = 0 THEN BeforeTheLoop(lambda)
                                       ELSE Turn(walk[j - 1], j, lambda, u)
    OBVIOUS
  <2> HIDE DEF walk
  <2>2. Walks(walk, 0, lambda, u)
    BY <2>1, WalkAt
  <2> QED  BY <2>2
<1>2. ASSUME NEW k \in Nat, k \in P PROVE k + 1 \in P
  <2>1. PICK walk : Walks(walk, k, lambda, u)
    BY <1>2
  <2>2. \A j \in 0 .. k : walk[j] = IF j = 0 THEN BeforeTheLoop(lambda)
                                    ELSE Turn(walk[j - 1], j, lambda, u)
    BY <2>1, WalkAt
  <2> DEFINE last == Turn(walk[k], k + 1, lambda, u)
             longer == [j \in 0 .. k + 1 |-> IF j = k + 1 THEN last ELSE walk[j]]
  <2> HIDE DEF last
  <2>3. \A j \in 0 .. k : longer[j] = walk[j]
    OBVIOUS
  <2>4. longer[k + 1] = last /\ longer = [j \in 0 .. k + 1 |-> longer[j]]
    OBVIOUS
  <2> HIDE DEF longer
  <2>5. ASSUME NEW j \in 0 .. k + 1
        PROVE  longer[j] = IF j = 0 THEN BeforeTheLoop(lambda)
                           ELSE Turn(longer[j - 1], j, lambda, u)
    <3>1. CASE j = k + 1
      <4>1. j - 1 = k /\ j # 0 /\ longer[j - 1] = walk[k]
        BY <2>3, <3>1
      <4> QED  BY <2>4, <3>1, <4>1 DEF last
    <3>2. CASE j = 0
      BY <2>2, <2>3, <3>2
    <3>3. CASE j # 0 /\ j # k + 1
      <4>1. j \in 0 .. k /\ j - 1 \in 0 .. k
        BY <3>3
      <4> QED  BY <2>2, <2>3, <3>3, <4>1
    <3> QED  BY <3>1, <3>2, <3>3
  <2>6. Walks(longer, k + 1, lambda, u)
    <3> DEFINE top == k + 1
    <3>1. top \in Nat
      OBVIOUS
    <3>2. longer = [j \in 0 .. top |-> longer[j]]
      BY <2>4
    <3>3. \A j \in 0 .. top : longer[j] = IF j = 0 THEN BeforeTheLoop(lambda)
                                          ELSE Turn(longer[j - 1], j, lambda, u)
      BY <2>5
    <3> HIDE DEF top
    <3>4. Walks(longer, top, lambda, u)
      BY <3>1, <3>2, <3>3, WalkAt
    <3> QED  BY <3>4 DEF top
  <2> QED  BY <2>6
<1> HIDE DEF P
<1>3. Nat \subseteq P
  BY <1>1, <1>2, SetInduction
<1> QED  BY <1>3 DEF P

\* The loop counts its turns, whatever it compares the draw with.
LEMMA WalkCounts ==
    ASSUME NEW N \in Nat, NEW lambda, NEW u, NEW walk, Walks(walk, N, lambda, u)
    PROVE  walk[N].goals \in Nat
<1> DEFINE P == {k \in Nat : k <= N => walk[k].goals \in Nat}
<1>1. \A j \in 0 .. N : walk[j] = IF j = 0 THEN BeforeTheLoop(lambda)
                                  ELSE Turn(walk[j - 1], j, lambda, u)
  BY WalkAt
<1>2. 0 \in P
  BY <1>1 DEF BeforeTheLoop
<1>3. ASSUME NEW k \in Nat, k \in P PROVE k + 1 \in P
  <2> SUFFICES ASSUME k + 1 <= N PROVE walk[k + 1].goals \in Nat
    OBVIOUS
  <2>1. walk[k + 1] = Turn(walk[k], k + 1, lambda, u)
    BY <1>1
  <2>2. Turn(walk[k], k + 1, lambda, u).goals \in {k + 1, walk[k].goals}
    BY DEF Turn
  <2> QED  BY <1>3, <2>1, <2>2
<1> HIDE DEF P
<1>4. Nat \subseteq P
  BY <1>2, <1>3, SetInduction
<1> QED  BY <1>4 DEF P

LEMMA SampleCounts ==
    ASSUME NEW lambda, NEW u
    PROVE  Sample(lambda, u) \in Nat
<1> DEFINE walk == CHOOSE w : Walks(w, maxIterations, lambda, u)
<1>1. SampleFromUniform(lambda, u) = walk[maxIterations].goals
  BY Zenon DEF SampleFromUniform, Walks, BeforeTheLoop, Turn
<1>2. Walks(walk, maxIterations, lambda, u)
  BY WalkExists, LoopBounded
<1> HIDE DEF walk
<1>3. SampleFromUniform(lambda, u) \in Nat
  BY <1>1, <1>2, WalkCounts, LoopBounded
<1> QED  BY <1>3 DEF Sample

\* The cap of the simulator.
LEMMA GoalsCapped ==
    ASSUME NEW lambda, NEW u
    PROVE  Goals(lambda, u) \in 0 .. maxGoalsPerTeam
BY SampleCounts DEF Goals, Lesser, maxGoalsPerTeam

LEMMA SimulateTyped ==
    ASSUME NEW m, NEW formsNow, NEW u
    PROVE  /\ Simulate(m, formsNow, u) \in Nat \X Nat
           /\ ValidateEditFixture(Simulate(m, formsNow, u))
<1> DEFINE a == Goals(HomeXG(Home[m], Away[m], formsNow[Home[m]]), u[1])
           b == Goals(AwayXG(Home[m], Away[m], formsNow[Away[m]]), u[2])
<1>1. a \in 0 .. 6 /\ b \in 0 .. 6
  BY GoalsCapped DEF maxGoalsPerTeam
<1>2. Simulate(m, formsNow, u) = <<a, b>>
  BY DEF Simulate
<1> HIDE DEF a, b
<1> QED  BY <1>1, <1>2 DEF ValidateEditFixture, MaxGoals

-------------------------------------------------------------------------------
(* The leaders of a table *)

\* Somebody leads: the credit of a run is never divided by zero.
LEMMA LeadersExist ==
    ASSUME NEW table \in [Team -> TableRow]
    PROVE  FindLeaders(table) # {}
<1> DEFINE Best(t, s) == \A u \in s : ~PrimaryLess(table[u], table[t])
           P == {s \in SUBSET Team : s = {} \/ \E t \in s : Best(t, s)}
<1>1. {} \in P
  OBVIOUS
<1>2. ASSUME NEW s \in SUBSET Team, s # {}, s \ {CHOOSE y \in s : TRUE} \in P PROVE s \in P
  <2> DEFINE x == CHOOSE y \in s : TRUE
             rest == s \ {x}
  <2>1. x \in s /\ x \in Team /\ s = rest \cup {x} /\ rest \subseteq Team
    BY <1>2
  <2>2. rest = {} \/ \E t \in rest : Best(t, rest)
    BY <1>2
  <2> HIDE DEF x, rest
  <2> SUFFICES \E t \in s : Best(t, s)
    OBVIOUS
  <2>3. CASE rest = {}
    <3>1. Best(x, s)
      BY <2>1, <2>3, PrimaryOrder
    <3> QED  BY <2>1, <3>1
  <2>4. CASE rest # {}
    <3>1. PICK t \in rest : Best(t, rest)
      BY <2>2, <2>4
    <3>2. CASE PrimaryLess(table[x], table[t])
      <4>1. ASSUME NEW u \in s PROVE ~PrimaryLess(table[u], table[x])
        <5>1. CASE u = x
          BY <2>1, <5>1, PrimaryOrder
        <5>2. CASE u # x
          <6>1. u \in rest /\ ~PrimaryLess(table[u], table[t])
            BY <2>1, <3>1, <5>2
          <6>2. table[u] \in TableRow /\ table[x] \in TableRow /\ table[t] \in TableRow
            BY <2>1, <3>1, <6>1
          <6> QED  BY <3>2, <6>1, <6>2, PrimaryOrder
        <5> QED  BY <5>1, <5>2
      <4> QED  BY <2>1, <4>1
    <3>3. CASE ~PrimaryLess(table[x], table[t])
      BY <2>1, <3>1, <3>3
    <3> QED  BY <3>2, <3>3
  <2> QED  BY <2>3, <2>4
<1> HIDE DEF P
<1>3. SUBSET Team \subseteq P
  BY <1>1, <1>2, SeasonFinite, SubsetInduction
<1>4. \E t \in Team : Best(t, Team)
  BY <1>3, SomebodyLeads DEF P
<1> QED  BY <1>4 DEF FindLeaders

\* The leaders share out exactly what a run is worth.
LEMMA LeadersShare ==
    ASSUME NEW table \in [Team -> TableRow]
    PROVE  LET leaders == FindLeaders(table)
           IN  /\ leaders \in SUBSET Team
               /\ Unit \div Cardinality(leaders) \in Nat
               /\ (Unit \div Cardinality(leaders)) * Cardinality(leaders) = Unit
<1> DEFINE L == FindLeaders(table)
           k == Cardinality(L)
<1>1. L \in SUBSET Team /\ L # {}
  BY LeadersExist DEF FindLeaders
<1> HIDE DEF L
<1>2. IsFiniteSet(L) /\ k \in Nat /\ k <= Cardinality(Team) /\ Cardinality(Team) \in Nat
  BY <1>1, SeasonFinite, FS_Subset, FS_CardinalityType
<1>3. k # 0
  BY <1>1, <1>2, FS_EmptySet
<1> HIDE DEF k
<1>4. Unit % k = 0 /\ Unit \in Nat /\ k \in Nat /\ k > 0
  BY <1>2, <1>3, UnitDivides DEF k
<1>5. Unit \div k \in Nat /\ (Unit \div k) * k = Unit
  BY <1>4
<1> QED  BY <1>1, <1>5 DEF L, k

-------------------------------------------------------------------------------
(* A run, played again from its draws *)

PlayedOn(s, m, u) ==
    LET goals == Simulate(m, s.forms, u)
    IN  [table |-> ApplyMatch(s.table, Home[m], Away[m], goals),
         forms |-> RecordMatch(s.forms, m, goals)]

\* What fixture j makes of s when its draws are d[j].
Turned(s, j, d) == IF j \in DOMAIN d THEN PlayedOn(s, j, d[j]) ELSE s

\* replay is the run from start up to fixture k.
Replays(replay, k, d, start) ==
    replay = [j \in 0 .. k |-> IF j = 0 THEN start ELSE Turned(replay[j - 1], j, d)]

Final(d, start) ==
    (CHOOSE replay : Replays(replay, Cardinality(Match), d, start))[Cardinality(Match)]

LEMMA ReplayAt ==
    ASSUME NEW k \in Nat, NEW d, NEW start, NEW replay
    PROVE  Replays(replay, k, d, start)
             <=> /\ replay = [j \in 0 .. k |-> replay[j]]
                 /\ \A j \in 0 .. k :
                       replay[j] = IF j = 0 THEN start ELSE Turned(replay[j - 1], j, d)
<1> DEFINE V(j) == IF j = 0 THEN start ELSE Turned(replay[j - 1], j, d)
<1>1. Replays(replay, k, d, start) <=> replay = [j \in 0 .. k |-> V(j)]
  BY DEF Replays
<1> HIDE DEF V
<1>2. replay = [j \in 0 .. k |-> V(j)]
         <=> replay = [j \in 0 .. k |-> replay[j]] /\ \A j \in 0 .. k : replay[j] = V(j)
  OBVIOUS
<1> QED  BY <1>1, <1>2 DEF V

LEMMA ReplayExists ==
    ASSUME NEW d, NEW start
    PROVE  \A k \in Nat : \E replay : Replays(replay, k, d, start)
<1> DEFINE P == {k \in Nat : \E replay : Replays(replay, k, d, start)}
<1>1. 0 \in P
  <2> DEFINE replay == [j \in 0 .. 0 |-> start]
  <2>1. /\ replay = [j \in 0 .. 0 |-> replay[j]]
        /\ \A j \in 0 .. 0 : replay[j] = IF j = 0 THEN start ELSE Turned(replay[j - 1], j, d)
    OBVIOUS
  <2> HIDE DEF replay
  <2>2. Replays(replay, 0, d, start)
    BY <2>1, ReplayAt
  <2> QED  BY <2>2
<1>2. ASSUME NEW k \in Nat, k \in P PROVE k + 1 \in P
  <2>1. PICK replay : Replays(replay, k, d, start)
    BY <1>2
  <2>2. \A j \in 0 .. k : replay[j] = IF j = 0 THEN start ELSE Turned(replay[j - 1], j, d)
    BY <2>1, ReplayAt
  <2> DEFINE last == Turned(replay[k], k + 1, d)
             longer == [j \in 0 .. k + 1 |-> IF j = k + 1 THEN last ELSE replay[j]]
             top == k + 1
  <2> HIDE DEF last
  <2>3. \A j \in 0 .. k : longer[j] = replay[j]
    OBVIOUS
  <2>4. longer[top] = last /\ longer = [j \in 0 .. top |-> longer[j]] /\ top \in Nat
    OBVIOUS
  <2> HIDE DEF longer
  <2>5. ASSUME NEW j \in 0 .. top
        PROVE  longer[j] = IF j = 0 THEN start ELSE Turned(longer[j - 1], j, d)
    <3>1. CASE j = top
      <4>1. j - 1 = k /\ j # 0 /\ longer[j - 1] = replay[k]
        BY <2>3, <3>1
      <4> QED  BY <2>4, <3>1, <4>1 DEF last
    <3>2. CASE j = 0
      BY <2>2, <2>3, <3>2
    <3>3. CASE j # 0 /\ j # top
      <4>1. j \in 0 .. k /\ j - 1 \in 0 .. k
        BY <3>3
      <4> QED  BY <2>2, <2>3, <3>3, <4>1
    <3> QED  BY <3>1, <3>2, <3>3
  <2> HIDE DEF top
  <2>6. Replays(longer, top, d, start)
    BY <2>4, <2>5, ReplayAt
  <2> QED  BY <2>4, <2>6 DEF top
<1> HIDE DEF P
<1>3. Nat \subseteq P
  BY <1>1, <1>2, SetInduction
<1> QED  BY <1>3 DEF P

LEMMA FinalOf ==
    ASSUME NEW d, NEW start
    PROVE  \E replay :
              /\ Final(d, start) = replay[Cardinality(Match)]
              /\ \A j \in 0 .. Cardinality(Match) :
                    replay[j] = IF j = 0 THEN start ELSE Turned(replay[j - 1], j, d)
<1> DEFINE N == Cardinality(Match)
           replay == CHOOSE r : Replays(r, N, d, start)
<1>1. N \in Nat
  BY SeasonFinite, FS_CardinalityType
<1>2. Replays(replay, N, d, start)
  BY <1>1, ReplayExists
<1>3. Final(d, start) = replay[N]
  BY DEF Final
<1> HIDE DEF replay
<1>4. \A j \in 0 .. N : replay[j] = IF j = 0 THEN start ELSE Turned(replay[j - 1], j, d)
  BY <1>1, <1>2, ReplayAt
<1> QED  BY <1>3, <1>4

\* Nothing played again ends where it starts.
LEMMA FinalOfNothing ==
    ASSUME NEW d, NEW start, DOMAIN d = {}
    PROVE  Final(d, start) = start
<1> DEFINE N == Cardinality(Match)
<1>1. N \in Nat
  BY SeasonFinite, FS_CardinalityType
<1>2. PICK replay :
          /\ Final(d, start) = replay[N]
          /\ \A j \in 0 .. N : replay[j] = IF j = 0 THEN start ELSE Turned(replay[j - 1], j, d)
  BY FinalOf
<1> HIDE DEF N
<1> DEFINE P == {k \in Nat : k <= N => replay[k] = start}
<1>3. 0 \in P
  BY <1>1, <1>2
<1>4. ASSUME NEW k \in Nat, k \in P PROVE k + 1 \in P
  <2> SUFFICES ASSUME k + 1 <= N PROVE replay[k + 1] = start
    OBVIOUS
  <2>1. replay[k + 1] = Turned(replay[k], k + 1, d)
    BY <1>1, <1>2
  <2> QED  BY <1>1, <1>4, <2>1 DEF Turned
<1> HIDE DEF P
<1>5. Nat \subseteq P
  BY <1>3, <1>4, SetInduction
<1> QED  BY <1>1, <1>2, <1>5 DEF P

\* e draws what d does, and u for fixture m, which comes after them all.
DrawsNext(e, d, m, u) ==
    /\ DOMAIN d \subseteq 1 .. Cardinality(Match)
    /\ m \in 1 .. Cardinality(Match)
    /\ \A k \in DOMAIN d : k < m
    /\ e = [k \in DOMAIN d \cup {m} |-> IF k = m THEN u ELSE d[k]]

\* A fixture drawn after all the others is played on what they end in.
LEMMA FinalOfMore ==
    ASSUME NEW d, NEW e, NEW start, NEW m, NEW u, DrawsNext(e, d, m, u)
    PROVE  Final(e, start) = PlayedOn(Final(d, start), m, u)
<1> DEFINE N == Cardinality(Match)
<1>0. DOMAIN d \subseteq 1 .. N /\ \A k \in DOMAIN d : k < m
  BY DEF DrawsNext
<1>1. N \in Nat /\ m \in 1 .. N
  BY SeasonFinite, FS_CardinalityType DEF DrawsNext
<1>2. PICK old :
          /\ Final(d, start) = old[N]
          /\ \A j \in 0 .. N : old[j] = IF j = 0 THEN start ELSE Turned(old[j - 1], j, d)
  BY FinalOf
<1>3. PICK new :
          /\ Final(e, start) = new[N]
          /\ \A j \in 0 .. N : new[j] = IF j = 0 THEN start ELSE Turned(new[j - 1], j, e)
  BY FinalOf
<1>4. /\ DOMAIN e = DOMAIN d \cup {m} /\ e[m] = u
      /\ \A k \in DOMAIN d : k # m => e[k] = d[k]
  BY DEF DrawsNext
<1> HIDE DEF N
<1>5. \A k \in m .. N : k \notin DOMAIN d
  BY <1>0, <1>1
\* Before m the two are the same.
<1>6. \A k \in 0 .. m - 1 : new[k] = old[k]
  <2> DEFINE P == {k \in Nat : k <= m - 1 => new[k] = old[k]}
  <2>1. 0 \in P
    BY <1>1, <1>2, <1>3
  <2>2. ASSUME NEW k \in Nat, k \in P PROVE k + 1 \in P
    <3> SUFFICES ASSUME k + 1 <= m - 1 PROVE new[k + 1] = old[k + 1]
      OBVIOUS
    <3>1. new[k + 1] = Turned(new[k], k + 1, e) /\ old[k + 1] = Turned(old[k], k + 1, d)
      <4>1. k + 1 \in 0 .. N /\ k + 1 # 0 /\ (k + 1) - 1 = k
        BY <1>1
      <4> QED  BY <1>2, <1>3, <4>1
    <3>2. new[k] = old[k] /\ k + 1 # m
      BY <1>1, <2>2
    <3> QED  BY <1>4, <3>1, <3>2 DEF Turned
  <2> HIDE DEF P
  <2>3. Nat \subseteq P
    BY <2>1, <2>2, SetInduction
  <2> QED  BY <1>1, <2>3 DEF P
\* From m on nothing was played of d, and m alone of the longer one.
<1>7. \A k \in m .. N : old[k] = old[m - 1] /\ new[k] = PlayedOn(old[m - 1], m, u)
  <2> DEFINE Q(k) == old[k] = old[m - 1] /\ new[k] = PlayedOn(old[m - 1], m, u)
             P == {k \in Nat : k \in m .. N => Q(k)}
  <2>1. 0 \in P
    BY <1>1
  <2>2. ASSUME NEW k \in Nat, k \in P PROVE k + 1 \in P
    <3> SUFFICES ASSUME k + 1 \in m .. N PROVE Q(k + 1)
      OBVIOUS
    <3>1. new[k + 1] = Turned(new[k], k + 1, e) /\ old[k + 1] = Turned(old[k], k + 1, d)
      <4>1. k + 1 \in 0 .. N /\ k + 1 # 0 /\ (k + 1) - 1 = k
        BY <1>1
      <4> QED  BY <1>2, <1>3, <4>1
    <3>2. old[k + 1] = old[k]
      BY <1>5, <3>1 DEF Turned
    <3>3. CASE k + 1 = m
      <4>1. k = m - 1 /\ new[k] = old[k]
        BY <1>1, <1>6, <3>3
      <4> QED  BY <1>4, <3>1, <3>2, <3>3, <4>1 DEF Turned
    <3>4. CASE k + 1 # m
      <4>1. k \in m .. N
        BY <1>1, <3>4
      <4>2. Q(k)
        BY <2>2, <4>1
      <4>3. k + 1 \notin DOMAIN e
        BY <1>4, <1>5, <3>4
      <4> QED  BY <3>1, <3>2, <4>2, <4>3 DEF Turned
    <3> QED  BY <3>3, <3>4
  <2> HIDE DEF P
  <2>3. Nat \subseteq P
    BY <2>1, <2>2, SetInduction
  <2> QED  BY <1>1, <2>3 DEF P
<1>8. Final(e, start) = PlayedOn(Final(d, start), m, u)
  BY <1>1, <1>2, <1>3, <1>7
<1> QED  BY <1>8

-------------------------------------------------------------------------------
(* The inductive invariant *)

\* The points a team has when it wins all it has left.
Most(t) == Standings[t].points + 3 * Cardinality({m \in UnplayedIn(score) : Plays(t, m)})
Eliminated(t) == \E u \in Team : Standings[u].points > Most(t)

StillToPlay(t) == {m \in Left : Plays(t, m)}

Typed ==
    /\ score \in [Match -> Score \cup {Unplayed}]
    /\ pc \in {"runs", "playing", "returned", "committed", "rolled_back"}
    /\ cancelled \in BOOLEAN
    /\ run \in 0 .. Runs
    /\ pc = "playing" => run < Runs
    /\ wins \in [Team -> Nat]
    /\ sim \in [Team -> TableRow]

\* What has been shared out, and that only a complete Predict is stored.
Shared ==
    /\ Sum(wins, Team) = run * Unit
    /\ pc = "returned" => run = Runs \/ cancelled
    /\ pc = "committed" => run = Runs /\ stored = wins

\* The run stays within what the standings and the fixtures left allow.
Race ==
    /\ \A t \in Team : Eliminated(t) => wins[t] = 0
    /\ pc = "playing" =>
          \A t \in Team : /\ Standings[t].points <= sim[t].points
                          /\ sim[t].points + 3 * Cardinality(StillToPlay(t)) <= Most(t)

\* The fixtures are played in their order, from the draws alone.
Replayed ==
    pc = "playing" =>
        /\ DOMAIN drawn \subseteq UnplayedIn(score)
        /\ \A m \in DOMAIN drawn, l \in Left : m < l
        /\ [table |-> sim, forms |-> forms]
              = Final(drawn, [table |-> Standings, forms |-> startForms])

PredictionInv == Typed /\ Shared /\ Race /\ Replayed

-------------------------------------------------------------------------------

\* The standings the runs start from.
LEMMA StandingsTyped ==
    ASSUME score \in [Match -> Score \cup {Unplayed}]
    PROVE  Standings \in [Team -> TableRow]
<1>1. \A m \in PlayedIn(score) : score[m] \in Nat \X Nat
  BY ScoresTyped DEF PlayedIn
<1> QED  BY <1>1, CalculateTyped DEF Standings

LEMMA SetsOfMatches ==
    ASSUME NEW S \in SUBSET Match
    PROVE  IsFiniteSet(S) /\ Cardinality(S) \in Nat
BY SeasonFinite, FS_Subset, FS_CardinalityType

\* Match of the season by their numbers.
LEMMA MatchNumbers == Cardinality(Match) \in Nat /\ Match = 1 .. Cardinality(Match)
BY SeasonFinite, FixturesNumbered, FS_CardinalityType

\* The next fixture is the first of those left.
LEMMA NextFixtureIsFirst ==
    ASSUME Left # {}, Left \subseteq Match
    PROVE  NextFixture \in Left /\ \A l \in Left : NextFixture <= l
<1>1. Left \subseteq Nat
  BY MatchNumbers
<1> DEFINE P == {k \in Nat : \A l \in Left : l > k}
<1>2. \E m \in Left : \A l \in Left : m <= l
  <2> SUFFICES ASSUME \A m \in Left : \E l \in Left : l < m PROVE FALSE
    BY <1>1
  <2>1. 0 \in P
    BY MatchNumbers
  <2>2. ASSUME NEW k \in Nat, k \in P PROVE k + 1 \in P
    <3>1. k + 1 \notin Left
      BY <1>1, <2>2
    <3> QED  BY <1>1, <2>2, <3>1
  <2> HIDE DEF P
  <2>3. Nat \subseteq P
    BY <2>1, <2>2, SetInduction
  <2>4. PICK l \in Left : l \in Nat
    BY <1>1
  <2>5. l > l
    BY <2>3, <2>4 DEF P
  <2> QED  BY <2>4, <2>5
<1> QED  BY <1>2 DEF NextFixture

LEMMA InitPredictionInv == Init => PredictionInv
<1> SUFFICES ASSUME Init PROVE PredictionInv
  OBVIOUS
<1>1. Typed
  <2>1. sim \in [Team -> TableRow]
    BY StandingsTyped DEF Init
  <2>2. run \in 0 .. Runs
    <3>1. run = 0
      BY DEF Init
    <3> QED  BY <3>1, RunsPositive
  <2>3. wins \in [Team -> Nat]
    BY DEF Init, NoPredictions
  <2> QED  BY <2>1, <2>2, <2>3 DEF Init, Typed
<1>2. Shared
  <2>1. Sum(wins, Team) = 0 /\ run = 0
    BY SumOfZeros, SeasonFinite DEF Init, NoPredictions
  <2>2. Sum(wins, Team) = run * Unit
    BY <2>1, UnitDivides
  <2>3. pc = "runs"
    BY DEF Init
  <2> QED  BY <2>2, <2>3 DEF Shared
<1>3. Race /\ Replayed
  BY DEF Init, Race, Replayed, NoPredictions
<1> QED  BY <1>1, <1>2, <1>3 DEF PredictionInv

\* The steps of Predict that play no fixture and end no run.
LEMMA QuietStep ==
    ASSUME PredictionInv, Return \/ Cancel \/ Store \/ Rollback \/ UNCHANGED vars
    PROVE  PredictionInv'
<1> USE DEF PredictionInv
<1>1. /\ UNCHANGED <<score, startForms, sim, forms, drawn, run, wins>>
      /\ pc' = "playing" => pc = "playing"
  BY DEF Return, Cancel, Store, Rollback, vars, given, game
<1>2. Typed'
  BY <1>1 DEF Typed, Return, Cancel, Store, Rollback, vars
<1>3. Shared'
  <2>1. Sum(wins, Team)' = run' * Unit
    BY <1>1 DEF Shared
  <2>2. pc' = "returned" => run' = Runs \/ cancelled'
    BY <1>1 DEF Shared, Typed, Return, Cancel, Store, Rollback, vars
  <2>3. pc' = "committed" => run' = Runs /\ stored' = wins'
    BY <1>1 DEF Shared, Typed, Return, Cancel, Store, Rollback, vars
  <2> QED  BY <2>1, <2>2, <2>3 DEF Shared
<1>4. Race'
  BY <1>1 DEF Race, Eliminated, Most, Standings, StillToPlay, Left
<1>5. Replayed'
  BY <1>1 DEF Replayed, Standings, Left
<1> QED  BY <1>2, <1>3, <1>4, <1>5

\* A run begins with the table and the forms of now.
LEMMA StartRunStep ==
    ASSUME PredictionInv, StartRun
    PROVE  PredictionInv'
<1> USE DEF PredictionInv
<1>1. /\ UNCHANGED <<score, startForms, run, wins, cancelled, stored>>
      /\ sim' = Standings /\ forms' = startForms /\ drawn' = NoDraws
      /\ pc' = "playing" /\ run < Runs
  BY DEF StartRun, given, CloneStandings, CloneForms
<1>2. Standings' = Standings /\ Standings \in [Team -> TableRow]
  BY <1>1, StandingsTyped DEF Typed, Standings
<1>3. Typed'
  BY <1>1, <1>2 DEF Typed
<1>4. Shared'
  BY <1>1 DEF Shared
<1>5. DOMAIN drawn' = {} /\ Left' = UnplayedIn(score)
  BY <1>1 DEF NoDraws, Left
<1>6. Race'
  <2>1. \A t \in Team : Most(t)' = Most(t) /\ (Eliminated(t)' <=> Eliminated(t))
    BY <1>1, <1>2 DEF Most, Eliminated
  <2>2. ASSUME NEW t \in Team
        PROVE  /\ Standings[t].points <= sim'[t].points
               /\ sim'[t].points + 3 * Cardinality(StillToPlay(t)') <= Most(t)
    <3>1. StillToPlay(t)' = {m \in UnplayedIn(score) : Plays(t, m)}
      BY <1>5 DEF StillToPlay
    <3>2. Cardinality(StillToPlay(t)') \in Nat
      BY <3>1, SetsOfMatches DEF UnplayedIn
    <3>3. Standings[t].points \in Nat
      BY <1>2 DEF TableRow
    <3> QED  BY <1>1, <3>1, <3>2, <3>3 DEF Most
  <2> QED  BY <1>1, <1>2, <2>1, <2>2 DEF Race
<1>7. Replayed'
  <2>1. Final(drawn', [table |-> Standings, forms |-> startForms])
            = [table |-> Standings, forms |-> startForms]
    BY <1>5, FinalOfNothing
  <2> QED  BY <1>1, <1>2, <1>5, <2>1 DEF Replayed
<1> QED  BY <1>3, <1>4, <1>6, <1>7

\* One fixture of a run.
LEMMA PlayFixtureStep ==
    ASSUME PredictionInv, PlayFixture
    PROVE  PredictionInv'
<1> USE DEF PredictionInv
<1> DEFINE m == NextFixture
<1>1. PICK u \in Draw \X Draw :
        /\ sim' = ApplyMatch(sim, Home[m], Away[m], Simulate(m, forms, u))
        /\ forms' = RecordMatch(forms, m, Simulate(m, forms, u))
        /\ drawn' = [k \in DOMAIN drawn \cup {m} |-> IF k = m THEN u ELSE drawn[k]]
  BY DEF PlayFixture
<1>2. /\ UNCHANGED <<score, startForms, run, wins, cancelled, pc, stored>>
      /\ pc = "playing" /\ Left # {} /\ Left \subseteq Match
  BY DEF PlayFixture, given, Left, UnplayedIn
<1>3. m \in Left /\ m \in Match /\ \A l \in Left : m <= l
  BY <1>2, NextFixtureIsFirst
<1> DEFINE goals == Simulate(m, forms, u)
<1>4. goals \in Nat \X Nat /\ goals[1] \in Nat /\ goals[2] \in Nat
  <2>1. goals \in Nat \X Nat
    BY SimulateTyped
  <2> HIDE DEF goals
  <2> QED  BY <2>1
<1> HIDE DEF m, goals
<1>5. /\ Home[m] \in Team /\ Away[m] \in Team /\ Home[m] # Away[m]
      /\ sim \in [Team -> TableRow] /\ sim' = ApplyMatch(sim, Home[m], Away[m], goals)
  BY <1>1, <1>3, ScheduleTyped, NobodyPlaysThemselves DEF Typed, goals, m
<1>6. Standings' = Standings /\ Standings \in [Team -> TableRow]
  BY <1>2, StandingsTyped DEF Typed, Standings
<1>7. DOMAIN drawn' = DOMAIN drawn \cup {m} /\ Left' = Left \ {m}
  <2>1. DOMAIN drawn' = DOMAIN drawn \cup {m}
    BY <1>1 DEF m
  <2> QED  BY <1>2, <2>1 DEF Left
<1>8. Typed'
  <2>1. sim' \in [Team -> TableRow]
    BY <1>4, <1>5, ApplyMatchTyped
  <2> QED  BY <1>2, <2>1 DEF Typed
<1>9. Shared'
  BY <1>2 DEF Shared
\* A team wins at most three points, in a match it had left.
<1>10. Race'
  <2>1. \A t \in Team : Most(t)' = Most(t) /\ (Eliminated(t)' <=> Eliminated(t))
    BY <1>2, <1>6 DEF Most, Eliminated
  <2>2. ASSUME NEW t \in Team
        PROVE  /\ Standings[t].points <= sim'[t].points
               /\ sim'[t].points + 3 * Cardinality(StillToPlay(t)') <= Most(t)
    <3> DEFINE k == Cardinality(StillToPlay(t))
               c == Cardinality(StillToPlay(t)')
    <3>1. /\ Standings[t].points <= sim[t].points
          /\ sim[t].points + 3 * k <= Most(t)
      BY <1>2 DEF Race
    <3>2. sim[t] \in TableRow /\ Standings[t] \in TableRow /\ sim[t].points \in Nat /\ Standings[t].points \in Nat
      BY <1>5, <1>6 DEF TableRow
    <3>3. StillToPlay(t) \subseteq Match /\ IsFiniteSet(StillToPlay(t)) /\ k \in Nat
      <4>1. StillToPlay(t) \subseteq Match
        BY <1>2 DEF StillToPlay
      <4> QED  BY <4>1, SetsOfMatches
    <3>4. Most(t) \in Nat
      <4>1. {l \in UnplayedIn(score) : Plays(t, l)} \subseteq Match
        BY DEF UnplayedIn
      <4>2. Cardinality({l \in UnplayedIn(score) : Plays(t, l)}) \in Nat
        BY <4>1, SetsOfMatches
      <4> QED  BY <3>2, <4>2 DEF Most
    <3>5. CASE Plays(t, m)
      <4>1. sim'[t] \in {Credit(sim[t], goals[1], goals[2]), Credit(sim[t], goals[2], goals[1])}
        BY <1>5, <3>5, ApplyMatchRows DEF Plays
      <4>2. sim'[t].points \in sim[t].points .. sim[t].points + 3
        <5>1. ASSUME NEW x \in Nat, NEW y \in Nat
              PROVE  Credit(sim[t], x, y).points \in sim[t].points .. sim[t].points + 3
          BY <3>2, CreditIs
        <5> QED  BY <1>4, <4>1, <5>1
      <4>3. m \in StillToPlay(t) /\ StillToPlay(t)' = StillToPlay(t) \ {m}
        BY <1>3, <1>7, <3>5 DEF StillToPlay, Plays
      <4>4. c = k - 1
        BY <3>3, <4>3, FS_RemoveElement
      <4> HIDE DEF k, c
      <4> QED  BY <3>1, <3>2, <3>3, <3>4, <4>2, <4>4 DEF c
    <3>6. CASE ~Plays(t, m)
      <4>1. sim'[t] = sim[t]
        BY <1>5, <3>6, ApplyMatchRows DEF Plays
      <4>2. StillToPlay(t)' = StillToPlay(t)
        BY <1>7, <3>6 DEF StillToPlay, Plays
      <4> QED  BY <3>1, <4>1, <4>2
    <3> QED  BY <3>5, <3>6
  <2> QED  BY <1>2, <1>6, <2>1, <2>2 DEF Race
<1>11. Replayed'
  <2> DEFINE start == [table |-> Standings, forms |-> startForms]
             N == Cardinality(Match)
  <2>1. /\ DOMAIN drawn \subseteq UnplayedIn(score)
        /\ \A k \in DOMAIN drawn, l \in Left : k < l
        /\ [table |-> sim, forms |-> forms] = Final(drawn, start)
    BY <1>2 DEF Replayed
  <2>2. N \in Nat /\ Match = 1 .. N
    BY MatchNumbers
  <2>3. DOMAIN drawn' \subseteq UnplayedIn(score)
    BY <1>3, <1>7, <2>1 DEF Left
  <2>4. ASSUME NEW k \in DOMAIN drawn', NEW l \in Left' PROVE k < l
    <3>1. l \in Left /\ l # m /\ m <= l /\ l \in Nat /\ m \in Nat
      BY <1>2, <1>3, <1>7, <2>2
    <3> QED  BY <1>7, <2>1, <3>1
  <2>5. DOMAIN drawn \subseteq 1 .. N /\ m \in 1 .. N /\ \A k \in DOMAIN drawn : k < m
    BY <1>3, <2>1, <2>2 DEF UnplayedIn
  <2> HIDE DEF N, start
  <2>6. Final(drawn', start) = PlayedOn(Final(drawn, start), m, u)
    <3>1. drawn' = [k \in DOMAIN drawn \cup {m} |-> IF k = m THEN u ELSE drawn[k]]
      BY <1>1 DEF m
    <3>2. DOMAIN drawn \subseteq 1 .. Cardinality(Match) /\ m \in 1 .. Cardinality(Match)
      BY <2>5 DEF N
    <3>3. DrawsNext(drawn', drawn, m, u)
      BY <2>5, <3>1, <3>2 DEF DrawsNext
    <3> QED  BY <3>3, FinalOfMore
  <2>7. PlayedOn([table |-> sim, forms |-> forms], m, u) = [table |-> sim', forms |-> forms']
    BY <1>1 DEF PlayedOn, m
  <2>8. [table |-> sim', forms |-> forms'] = Final(drawn', start)
    BY <2>1, <2>6, <2>7
  <2>9. start' = start
    BY <1>2, <1>6 DEF start
  <2> QED  BY <1>2, <2>3, <2>4, <2>8, <2>9 DEF Replayed, start
<1> QED  BY <1>8, <1>9, <1>10, <1>11

\* A run ends and shares out one unit among its leaders.
LEMMA EndRunStep ==
    ASSUME PredictionInv, EndRun
    PROVE  PredictionInv'
<1> USE DEF PredictionInv
<1> DEFINE leaders == FindLeaders(sim)
           share == Unit \div Cardinality(leaders)
<1>1. /\ UNCHANGED <<score, startForms, sim, forms, drawn, cancelled, stored>>
      /\ wins' = [t \in Team |-> IF t \in leaders THEN wins[t] + share ELSE wins[t]]
      /\ run' = run + 1 /\ pc' = "runs" /\ pc = "playing" /\ Left = {}
  BY DEF EndRun, given, game
<1>2. /\ leaders \in SUBSET Team /\ share \in Nat
      /\ share * Cardinality(leaders) = Unit
  BY LeadersShare DEF Typed
<1> HIDE DEF share
<1>3. run \in Nat /\ run < Runs /\ Runs \in Nat /\ Unit \in Nat
  BY <1>1, RunsPositive, UnitDivides DEF Typed
<1>4. wins \in [Team -> Nat] /\ wins' \in [Team -> Nat]
  <2> HIDE DEF leaders
  <2>1. wins \in [Team -> Nat]
    BY DEF Typed
  <2> QED  BY <1>1, <1>2, <2>1
<1>5. Typed'
  <2>1. run' \in 0 .. Runs
    BY <1>1, <1>3
  <2> QED  BY <1>1, <1>4, <2>1 DEF Typed
<1>6. Shared'
  <2>1. Sum(wins', Team) = Sum(wins, Team) + share * Cardinality(leaders)
    <3> HIDE DEF leaders
    <3>1. \A t \in Team : wins'[t] = IF t \in leaders THEN wins[t] + share ELSE wins[t]
      BY <1>1
    <3> QED  BY <1>2, <1>4, <3>1, SeasonFinite, SumOfMore
  <2>2. Sum(wins', Team) = run * Unit + Unit
    BY <1>2, <2>1 DEF Shared
  <2>3. run * Unit + Unit = (run + 1) * Unit
    BY <1>3
  <2> QED  BY <1>1, <2>2, <2>3 DEF Shared
\* With no fixture left, who cannot reach another team does not lead.
<1>7. Race'
  <2>1. Standings' = Standings /\ Standings \in [Team -> TableRow]
    BY <1>1, StandingsTyped DEF Typed, Standings
  <2>2. \A t \in Team : Most(t)' = Most(t) /\ (Eliminated(t)' <=> Eliminated(t))
    BY <1>1, <2>1 DEF Most, Eliminated
  <2>3. ASSUME NEW t \in Team, Eliminated(t) PROVE wins'[t] = 0
    <3>1. PICK u \in Team : Standings[u].points > Most(t)
      BY <2>3 DEF Eliminated
    <3>2. StillToPlay(t) = {}
      BY <1>1 DEF StillToPlay
    <3>3. sim[t].points <= Most(t) /\ Standings[u].points <= sim[u].points
      <4>1. Cardinality(StillToPlay(t)) = 0
        BY <3>2, FS_EmptySet
      <4>2. sim[t] \in TableRow /\ sim[t].points \in Nat
        BY DEF Typed, TableRow
      <4> QED  BY <1>1, <4>1, <4>2 DEF Race
    <3>4. /\ sim[t].points \in Nat /\ sim[u].points \in Nat /\ Standings[u].points \in Nat
      <4>1. sim[t] \in TableRow /\ sim[u] \in TableRow /\ Standings[u] \in TableRow
        BY <2>1 DEF Typed
      <4> QED  BY <4>1 DEF TableRow
    <3>5. Most(t) \in Int
      <4>1. {l \in UnplayedIn(score) : Plays(t, l)} \subseteq Match
        BY DEF UnplayedIn
      <4>2. Cardinality({l \in UnplayedIn(score) : Plays(t, l)}) \in Nat
        BY <4>1, SetsOfMatches
      <4>3. Standings[t] \in TableRow /\ Standings[t].points \in Nat
        BY <2>1 DEF TableRow
      <4> QED  BY <4>2, <4>3 DEF Most
    <3>6. PrimaryLess(sim[u], sim[t])
      BY <3>1, <3>3, <3>4, <3>5 DEF PrimaryLess
    <3>7. t \notin leaders
      BY <3>6 DEF FindLeaders
    <3>8. wins[t] = 0
      BY <2>3 DEF Race
    <3> HIDE DEF leaders
    <3> QED  BY <1>1, <3>7, <3>8
  <2> QED  BY <1>1, <2>2, <2>3 DEF Race
<1>8. Replayed'
  BY <1>1 DEF Replayed
<1> QED  BY <1>5, <1>6, <1>7, <1>8

LEMMA NextPredictionInv == PredictionInv /\ [Next]_vars => PredictionInv'
BY StartRunStep, PlayFixtureStep, EndRunStep, QuietStep DEF Next

LEMMA PredictionInvariant == Spec => []PredictionInv
BY InitPredictionInv, NextPredictionInv, PTL DEF Spec

-------------------------------------------------------------------------------

\* Whatever the number of runs, of teams and of leaders, the predictions that
\* reach the database share out exactly 100 per cent.
THEOREM StoredShareOutHundred == Spec => []StoredSumToHundred
<1>1. PredictionInv => StoredSumToHundred
  <2> SUFFICES ASSUME PredictionInv, pc = "committed" PROVE Total(stored) = Hundred
    BY DEF StoredSumToHundred
  <2>1. Total(stored) = Sum(stored, Team)
    BY DEF Total, Sum
  <2> QED  BY <2>1 DEF PredictionInv, Shared, Hundred
<1> QED  BY <1>1, PredictionInvariant, PTL

\* A team that cannot reach another one any more is never credited, whatever
\* is drawn.
THEOREM EliminatedGetNothing == Spec => []NoCreditToTheEliminated
<1>1. PredictionInv => NoCreditToTheEliminated
  BY DEF PredictionInv, Shared, Race, Eliminated, Most, NoCreditToTheEliminated
<1> QED  BY <1>1, PredictionInvariant, PTL

\* A run is a function of the given table, the given forms and its own draws.
THEOREM RunsStartAfresh == Spec => []RunsAreIndependent
<1>1. PredictionInv => RunsAreIndependent
  BY Zenon DEF PredictionInv, Replayed, RunsAreIndependent, Final, Replays, Turned, PlayedOn
<1> QED  BY <1>1, PredictionInvariant, PTL

\* Every score the simulator can return is one that an Edit may enter: the cap
\* holds even where only maxIterations stops the sampler.
THEOREM ScoresAreEditable == Spec => []SimulatedScoresAreEditable
<1>1. SimulatedScoresAreEditable
  BY SimulateTyped DEF SimulatedScoresAreEditable
<1> QED  BY <1>1, PTL
================================================================================
