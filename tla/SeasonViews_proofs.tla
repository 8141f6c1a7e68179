-------------------------- MODULE SeasonViews_proofs --------------------------
(*****************************************************************************)
(* With simulations only, any number of them at once, the rows that League   *)
(* commits fit together, although they are computed from reads before the    *)
(* transaction; and what the cache and the readers make of the rows that     *)
(* requests commit.                                                          *)
(*****************************************************************************)
EXTENDS SeasonViews, League_proofs, LeagueTable_proofs

-------------------------------------------------------------------------------
(*****************************************************************************)
(* With simulations only: results, week and standings.                       *)
(*****************************************************************************)

SimulateOnly == Ops \subseteq {"simulate", "playall"}

SimulatePC == {"idle", "play_next", "read_season", "read_form", "read_fixtures",
               "lock_week"} \cup SimulateTx

OnlySimulates == \A p \in Proc : pc[p] \in SimulatePC

\* A simulation whose week is next has read the results that are still stored.
ViewOK(p) ==
    /\ pc[p] \in {"lock_week"} \cup SimulateTx =>
          /\ local[p].viewGen = gen
          /\ local[p].week = week + 1 => local[p].view = score
    /\ pc[p] \in SimulateTx => local[p].gen = gen

ViewsCurrent == \A p \in Proc : ViewOK(p)

SimulateInv == /\ WeekInv /\ OnlySimulates /\ ViewsCurrent
               /\ PlayedUpToCurrentWeek /\ StandingsMatchResults

-------------------------------------------------------------------------------

\* The table of no results is ZeroTable.
LEMMA CalculateNothing ==
    ASSUME NEW results, PlayedIn(results) = {}
    PROVE  Calculate(results) = ZeroTable
PROOF
<1> DEFINE S == PlayedIn(results)
           R(f) == [s \in SUBSET S |->
                      IF s = {} THEN ZeroTable
                      ELSE LET x == CHOOSE y \in s : TRUE
                           IN  ApplyMatch(f[s \ {x}], Home[x], Away[x], results[x])]
           iter == CHOOSE f : f = R(f)
           g == [s \in SUBSET S |-> ZeroTable]
<1>1. Calculate(results) = iter[S]
  BY Zenon DEF Calculate, FoldSet, MapThenFoldSet
<1>2. \A s \in SUBSET S : s = {}
  OBVIOUS
<1>3. g = R(g)
  BY <1>2
<1> HIDE DEF R, g
<1>4. iter = R(iter)
  BY <1>3
<1>5. iter[S] = ZeroTable
  BY <1>4, <1>2 DEF R
<1> QED  BY <1>1, <1>5

\* A step of p that changes no row.
Calm(p) ==
    /\ UNCHANGED tables
    /\ \A q \in Proc \ {p} : pc'[q] = pc[q] /\ local'[q] = local[q]

\* The steps of a simulation other than its commit change no row, and keep
\* what it has read in step with what is stored.
LEMMA OwnSimulate ==
    ASSUME TypeOK, SimulateOnly, NEW p \in Proc, pc[p] \in SimulatePC, ViewOK(p),
           Arrive(p) \/ Step(p) \/ Fail(p) \/ DeadlockVictim(p), ~CommitWeek(p)
    PROVE  Calm(p) /\ pc'[p] \in SimulatePC /\ ViewOK(p)'
PROOF
<1> USE DEF TypeOK, SimulatePC, SimulateTx
<1>0. \A x : (UNCHANGED tables /\ x) => (gen' = gen /\ week' = week /\ score' = score)
  BY DEF tables, season
<1>1. CASE Arrive(p)
  BY <1>0, <1>1 DEF Arrive, AcceptSimulate, AcceptPlayAll, AcceptEdit, AcceptReset, Accept,
         SimulateOnly, Calm, ViewOK
<1>2. ASSUME Abort(p) PROVE Calm(p) /\ pc'[p] \in SimulatePC /\ ViewOK(p)'
  BY <1>2 DEF Abort, Calm, ViewOK
\* A statement that keeps the week and what has been read.
<1>3. ASSUME NEW from, NEW to \in SimulatePC, Goto(p, from, to),
             \A q \in Proc \ {p} : local'[q] = local[q],
             /\ local'[p].week = local[p].week /\ local'[p].gen = local[p].gen
             /\ local'[p].view = local[p].view /\ local'[p].viewGen = local[p].viewGen
             \/ to \notin {"lock_week"} \cup SimulateTx,
             to \in SimulateTx => from \in SimulateTx,
             to # "lock_week"
      PROVE  Calm(p) /\ pc'[p] \in SimulatePC /\ ViewOK(p)'
  BY <1>3 DEF Goto, Calm, ViewOK, tables, season
<1>4. CASE SimulateStep(p)
  <2>1. CASE PlayNext(p)
    BY <2>1, <1>2, <1>3 DEF PlayNext
  <2>2. CASE ReadSeason(p)
    <3>1. CASE /\ Goto(p, "read_season", "read_form")
               /\ local' = [local EXCEPT ![p].week = week + 1]
      BY <3>1, <1>3
    <3> QED  BY <2>2, <3>1, <1>2 DEF ReadSeason
  <2>3. CASE ReadForm(p)
    BY <2>3, <1>3 DEF ReadForm
  <2>4. CASE ReadFixtures(p)
    BY <2>4 DEF ReadFixtures, Goto, Calm, ViewOK, tables, season, Locals
  <2>5. CASE LockForWeek(p)
    <3>1. CASE Abort(p)
      BY <3>1, <1>2
    <3>2. CASE ~Abort(p)
      <4>1. PICK results \in [UnplayedOfWeek(local[p].week) -> Score] :
                local' = [local EXCEPT ![p].batch = results, ![p].gen = gen]
        BY <2>5, <3>2 DEF LockForWeek
      <4>2. Goto(p, "lock_week", "upsert_form")
        BY <2>5, <3>2 DEF LockForWeek
      <4>3. /\ local'[p].week = local[p].week /\ local'[p].gen = gen
            /\ local'[p].view = local[p].view /\ local'[p].viewGen = local[p].viewGen
            /\ \A q \in Proc \ {p} : local'[q] = local[q]
        BY <4>1 DEF Locals
      <4> QED  BY <4>2, <4>3 DEF Goto, Calm, ViewOK, tables, season
    <3> QED  BY <3>1, <3>2
  <2>6. CASE UpsertForm(p) \/ ReplaceStandings(p)
    BY <2>6, <1>3 DEF UpsertForm, ReplaceStandings
  <2>7. CASE UpdateCurrentWeek(p)
    BY <2>7, <1>3 DEF UpdateCurrentWeek
  <2>8. CASE ReplacePredictions(p)
    BY <2>8, <1>3 DEF ReplacePredictions, Locals
  <2> QED  BY <1>4, <2>1, <2>2, <2>3, <2>4, <2>5, <2>6, <2>7, <2>8 DEF SimulateStep
<1>5. ~EditStep(p) \/ Abort(p)
  BY DEF EditStep, LockByID, ReadPlayed, EditStandings, EditSeason, ReadRemaining,
         EditPredictions, CommitEdit, Goto
<1>6. ~ResetStep(p)
  BY DEF ResetStep, DeletePredictions, DeleteForm, DeleteStandings, DeleteFixtures,
         ResetSeason, CommitReset, Goto
<1>7. CASE Fail(p) \/ DeadlockVictim(p)
  BY <1>7, <1>2 DEF Fail, DeadlockVictim
<1> QED  BY <1>1, <1>2, <1>4, <1>5, <1>6, <1>7 DEF Step

-------------------------------------------------------------------------------

\* The simulation that commits has merged its results into the stored ones.
LEMMA CommitMerges ==
    ASSUME SimulateInv, NEW p \in Proc, CommitWeek(p)
    PROVE  /\ week' = week + 1 /\ local[p].week = week + 1
           /\ local[p].batch \in [UnplayedOfWeek(week + 1) -> Score]
           /\ score' = Overlay(score, local[p].batch)
           /\ MergePlayed(local[p]) = score'
           /\ \A q \in Proc \ {p} : pc[q] \notin SimulateTx
PROOF
<1>1. /\ week' = week + 1
      /\ local[p].batch \in [UnplayedOfWeek(week + 1) -> Score]
      /\ score' = Overlay(score, local[p].batch)
  BY CommitWeekPlays DEF SimulateInv
<1>2. pc[p] \in SimulateTx /\ week' = local[p].week
  BY DEF CommitWeek, SimulateTx
<1>3. local[p].viewGen = local[p].gen /\ local[p].view = score
  BY <1>1, <1>2 DEF SimulateInv, ViewsCurrent, ViewOK
<1>4. MergePlayed(local[p]) = score'
  BY <1>1, <1>3 DEF MergePlayed
<1>5. \A q \in Proc \ {p} : pc[q] \notin SimulateTx
  BY <1>2, OnlyOne DEF SimulateInv
<1> QED  BY <1>1, <1>2, <1>4, <1>5

\* The commit of a week keeps the invariant.
LEMMA CommitSimulateInv ==
    ASSUME SimulateInv, SimulateOnly, WeekInv', NEW p \in Proc, CommitWeek(p)
    PROVE  SimulateInv'
PROOF
<1>1. TypeOK
  BY DEF SimulateInv, WeekInv
<1>2. /\ week' = week + 1
      /\ local[p].batch \in [UnplayedOfWeek(week + 1) -> Score]
      /\ score' = Overlay(score, local[p].batch)
      /\ \A q \in Proc \ {p} : pc[q] \notin SimulateTx
  BY CommitMerges
<1>3. /\ \A q \in Proc \ {p} : pc'[q] = pc[q] /\ local'[q] = local[q]
      /\ pc'[p] \in {"idle", "play_next"}
  BY <1>1 DEF CommitWeek, Commit, TypeOK
<1>4. OnlySimulates'
  BY <1>3 DEF SimulateInv, OnlySimulates, SimulatePC
<1>5. StandingsMatchResults'
  BY CommitMerges DEF CommitWeek, StandingsMatchResults
<1>6. PlayedUpToCurrentWeek'
  <2> SUFFICES ASSUME NEW m \in Match PROVE score'[m] # Unplayed <=> WeekOf[m] <= week + 1
    BY <1>2 DEF PlayedUpToCurrentWeek
  <2>1. CASE m \in UnplayedOfWeek(week + 1)
    BY <1>1, <1>2, <2>1, ScoreNotUnplayed, WeeksTyped DEF Overlay, UnplayedOfWeek, TypeOK
  <2>2. CASE m \notin UnplayedOfWeek(week + 1)
    BY <1>1, <1>2, <2>2, WeeksTyped
       DEF Overlay, UnplayedOfWeek, SimulateInv, PlayedUpToCurrentWeek, TypeOK, Week
  <2> QED  BY <2>1, <2>2
<1>7. ViewsCurrent'
  <2>1. ViewOK(p)'
    BY <1>3 DEF ViewOK, SimulateTx
  <2> SUFFICES ASSUME NEW q \in Proc \ {p} PROVE ViewOK(q)'
    BY <2>1 DEF ViewsCurrent
  <2>2. local[q].week <= week + 1 /\ local[q].week \in Int /\ week \in Nat
    BY <1>1, WeeksTyped DEF SimulateInv, WeekInv, OneWeekAtATime, TypeOK, Locals
  <2>3. gen' = gen
    BY DEF CommitWeek
  <2> QED  BY <1>2, <1>3, <2>2, <2>3 DEF SimulateInv, ViewsCurrent, ViewOK
<1> QED  BY <1>4, <1>5, <1>6, <1>7 DEF SimulateInv

\* Every step keeps the invariant.
LEMMA SimulateInvStep == SimulateOnly /\ SimulateInv /\ WeekInv' /\ [Next]_vars => SimulateInv'
PROOF
<1> SUFFICES ASSUME SimulateOnly, SimulateInv, WeekInv', [Next]_vars PROVE SimulateInv'
  OBVIOUS
<1> USE DEF SimulateInv, OnlySimulates, ViewsCurrent, PlayedUpToCurrentWeek,
            StandingsMatchResults
<1>1. CASE UNCHANGED vars
  BY <1>1 DEF vars, tables, season, ViewOK
<1> SUFFICES ASSUME NEW p \in Proc, Arrive(p) \/ Step(p) \/ Fail(p) \/ DeadlockVictim(p),
                    ~CommitWeek(p)
             PROVE  SimulateInv'
  BY <1>1, CommitSimulateInv DEF Next
<1>2. Calm(p) /\ pc'[p] \in SimulatePC /\ ViewOK(p)'
  BY OwnSimulate DEF WeekInv
<1>3. gen' = gen /\ week' = week /\ score' = score /\ standings' = standings
  BY <1>2 DEF Calm, tables, season
<1>4. OnlySimulates'
  BY <1>2 DEF Calm
<1>5. ViewsCurrent'
  BY <1>2, <1>3 DEF Calm, ViewOK
<1> QED  BY <1>3, <1>4, <1>5

\* With simulations only the invariant holds in every behaviour.
LEMMA SimulateInvAlways == SimulateOnly => (Spec => []SimulateInv)
PROOF
<1> SUFFICES ASSUME SimulateOnly PROVE Spec => []SimulateInv
  OBVIOUS
<1>1. Init /\ WeekInv => SimulateInv
  <2> SUFFICES ASSUME Init, WeekInv PROVE SimulateInv
    OBVIOUS
  <2>1. OnlySimulates /\ ViewsCurrent
    BY DEF Init, OnlySimulates, SimulatePC, ViewsCurrent, ViewOK, SimulateTx
  <2>2. PlayedUpToCurrentWeek
    BY WeeksTyped DEF Init, PlayedUpToCurrentWeek, NoResults, Week
  <2>3. StandingsMatchResults
    BY CalculateNothing DEF Init, StandingsMatchResults, NoResults, PlayedIn
  <2> QED  BY <2>1, <2>2, <2>3 DEF SimulateInv
<1>2. SimulateInv /\ WeekInv' /\ [Next]_vars => SimulateInv'
  BY SimulateInvStep
<1>3. NoReset
  BY DEF SimulateOnly, NoReset
<1>4. Spec => []WeekInv
  BY <1>3, WeekInvAlways
<1> QED  BY <1>1, <1>2, <1>4, PTL DEF Spec

\* With simulations only, the fixtures played are those of the weeks up to
\* current_week: PlayAll can always go on.
THEOREM WeeksArePlayedInOrder == SimulateOnly => (Spec => []PlayedUpToCurrentWeek)
PROOF
<1> SUFFICES ASSUME SimulateOnly PROVE Spec => []PlayedUpToCurrentWeek
  OBVIOUS
<1>1. Spec => []SimulateInv
  BY SimulateInvAlways
<1>2. SimulateInv => PlayedUpToCurrentWeek
  BY DEF SimulateInv
<1> QED  BY <1>1, <1>2, PTL

\* With simulations only, the stored standings are always those of the stored
\* results, although they are computed from a read before the transaction.
THEOREM StandingsOfResults == SimulateOnly => (Spec => []StandingsMatchResults)
PROOF
<1> SUFFICES ASSUME SimulateOnly PROVE Spec => []StandingsMatchResults
  OBVIOUS
<1>1. Spec => []SimulateInv
  BY SimulateInvAlways
<1>2. SimulateInv => StandingsMatchResults
  BY DEF SimulateInv
<1> QED  BY <1>1, <1>2, PTL

-------------------------------------------------------------------------------
(* The form, with simulations only: the latest results in any scores sc *)

PlayedBy(sc, t) == {m \in PlayedIn(sc) : Plays(t, m)}
LaterThan(sc, t, m) == {x \in PlayedBy(sc, t) : WeekOf[x] > WeekOf[m]}
WithLater(sc, t, k) == CHOOSE m \in PlayedBy(sc, t) : Cardinality(LaterThan(sc, t, m)) = k
FormLength(sc, t) == Min({MaxRecentResults, Cardinality(PlayedBy(sc, t))})
ResultOf(sc, t, m) == ResultFromScore(m, sc[m], t)
Latest(sc, t) ==
    [i \in 1 .. FormLength(sc, t) |-> ResultOf(sc, t, WithLater(sc, t, FormLength(sc, t) - i))]

\* The matches of a team can be counted back from the latest one.
Ordered(sc, t) ==
    \A k \in 0 .. Cardinality(PlayedBy(sc, t)) - 1 :
        \E m \in PlayedBy(sc, t) : Cardinality(LaterThan(sc, t, m)) = k

LEMMA LatestIs ==
    ASSUME NEW t
    PROVE  LatestResults(t) = Latest(score, t) /\ LatestResults(t)' = Latest(score', t)
<1>1. LatestResults(t) = Latest(score, t)
  BY Zenon DEF LatestResults, MatchesPlayedBy, Latest, FormLength, WithLater, LaterThan, PlayedBy,
               ResultOf, PlayedIn
<1>2. LatestResults(t)' = Latest(score', t)
  BY Zenon DEF LatestResults, MatchesPlayedBy, Latest, FormLength, WithLater, LaterThan, PlayedBy,
               ResultOf, PlayedIn
<1> QED  BY <1>1, <1>2

LEMMA MatchesCounted ==
    ASSUME NEW sc, NEW t
    PROVE  /\ IsFiniteSet(PlayedBy(sc, t)) /\ Cardinality(PlayedBy(sc, t)) \in Nat
           /\ \A m : IsFiniteSet(LaterThan(sc, t, m)) /\ Cardinality(LaterThan(sc, t, m)) \in Nat
<1>1. IsFiniteSet(PlayedBy(sc, t))
  BY SeasonFinite, FS_Subset DEF PlayedBy, PlayedIn
<1>2. \A m : LaterThan(sc, t, m) \subseteq PlayedBy(sc, t)
  BY DEF LaterThan
<1> QED  BY <1>1, <1>2, FS_Subset, FS_CardinalityType

LEMMA FormLengthIs ==
    ASSUME NEW sc, NEW t
    PROVE  LET c == Cardinality(PlayedBy(sc, t))
           IN  FormLength(sc, t) = IF MaxRecentResults <= c THEN MaxRecentResults ELSE c
<1> DEFINE c == Cardinality(PlayedBy(sc, t))
<1>1. c \in Nat /\ MaxRecentResults \in Nat
  BY MatchesCounted, FormRemembers
<1> HIDE DEF c
<1>2. Min({MaxRecentResults, c}) = IF MaxRecentResults <= c THEN MaxRecentResults ELSE c
  BY <1>1 DEF Min
<1> QED  BY <1>2 DEF FormLength, c

LEMMA WithLaterIs ==
    ASSUME NEW sc, NEW t, Ordered(sc, t), NEW k \in 0 .. Cardinality(PlayedBy(sc, t)) - 1
    PROVE  /\ WithLater(sc, t, k) \in PlayedBy(sc, t)
           /\ Cardinality(LaterThan(sc, t, WithLater(sc, t, k))) = k
BY DEF Ordered, WithLater

\* Whoever plays no match keeps its latest results.
LEMMA LatestStay ==
    ASSUME NEW sc, NEW new, NEW t, Ordered(sc, t), PlayedBy(new, t) = PlayedBy(sc, t),
           \A m \in PlayedBy(sc, t) : new[m] = sc[m]
    PROVE  Ordered(new, t) /\ Latest(new, t) = Latest(sc, t)
<1>1. \A m : LaterThan(new, t, m) = LaterThan(sc, t, m)
  BY DEF LaterThan
<1>2. Ordered(new, t)
  BY <1>1 DEF Ordered
<1>3. \A k : WithLater(new, t, k) = WithLater(sc, t, k)
  BY <1>1 DEF WithLater
<1> DEFINE c == Cardinality(PlayedBy(sc, t))
           n == FormLength(sc, t)
<1>4. FormLength(new, t) = n
  BY DEF FormLength
<1>5. c \in Nat /\ n \in Nat /\ n <= c
  BY MatchesCounted, FormLengthIs, FormRemembers
<1> HIDE DEF n
<1>6. \A i \in 1 .. n : WithLater(sc, t, n - i) \in PlayedBy(sc, t)
  <2>1. \A i \in 1 .. n : n - i \in 0 .. c - 1
    BY <1>5
  <2> QED  BY <2>1, WithLaterIs
<1>7. \A i \in 1 .. n : ResultOf(new, t, WithLater(new, t, n - i))
                          = ResultOf(sc, t, WithLater(sc, t, n - i))
  BY <1>3, <1>6 DEF ResultOf
<1> QED  BY <1>2, <1>4, <1>7 DEF Latest, n

\* A match after all the others adds its result, and drops the oldest one of a
\* form that is full: RecordResult.
LEMMA LatestGrow ==
    ASSUME NEW sc, NEW new, NEW t, Ordered(sc, t), NEW last \in Match,
           last \notin PlayedBy(sc, t), PlayedBy(new, t) = PlayedBy(sc, t) \cup {last},
           \A m \in PlayedBy(sc, t) : new[m] = sc[m] /\ WeekOf[m] < WeekOf[last]
    PROVE  /\ Ordered(new, t)
           /\ Latest(new, t) = RecordResult(Latest(sc, t), ResultOf(new, t, last))
<1> DEFINE P == PlayedBy(sc, t)
           c == Cardinality(P)
           n == FormLength(sc, t)
           n2 == FormLength(new, t)
           r == ResultOf(new, t, last)
<1>1. IsFiniteSet(P) /\ c \in Nat
  BY MatchesCounted
<1>2. Cardinality(PlayedBy(new, t)) = c + 1
  BY <1>1, FS_AddElement
<1>3. /\ n = IF MaxRecentResults <= c THEN MaxRecentResults ELSE c
      /\ n2 = IF MaxRecentResults <= c + 1 THEN MaxRecentResults ELSE c + 1
      /\ MaxRecentResults \in Nat \ {0}
  BY <1>2, FormLengthIs, FormRemembers
<1>4. \A m \in Match : WeekOf[m] \in Int
  BY WeeksTyped DEF Week
<1>5. P \subseteq Match
  BY DEF PlayedBy, PlayedIn
<1>6. ASSUME NEW m \in P
      PROVE  Cardinality(LaterThan(new, t, m)) = Cardinality(LaterThan(sc, t, m)) + 1
  <2>1. LaterThan(new, t, m) = LaterThan(sc, t, m) \cup {last}
    BY DEF LaterThan
  <2>2. last \notin LaterThan(sc, t, m)
    BY DEF LaterThan
  <2> QED  BY <2>1, <2>2, MatchesCounted, FS_AddElement
<1>7. Cardinality(LaterThan(new, t, last)) = 0
  <2>1. LaterThan(new, t, last) = {}
    BY <1>4, <1>5 DEF LaterThan
  <2> QED  BY <2>1, FS_EmptySet
<1>8. \A m \in P : Cardinality(LaterThan(sc, t, m)) \in Nat
  BY MatchesCounted
<1>9. Ordered(new, t)
  <2> SUFFICES ASSUME NEW k \in 0 .. c
               PROVE  \E m \in PlayedBy(new, t) : Cardinality(LaterThan(new, t, m)) = k
    BY <1>1, <1>2 DEF Ordered
  <2>1. CASE k = 0
    BY <1>7, <2>1
  <2>2. CASE k # 0
    <3>1. k - 1 \in 0 .. c - 1
      BY <1>1, <2>2
    <3>2. PICK m \in P : Cardinality(LaterThan(sc, t, m)) = k - 1
      BY <3>1 DEF Ordered
    <3> QED  BY <1>6, <3>2
  <2> QED  BY <2>1, <2>2
<1>10. WithLater(new, t, 0) = last
  BY <1>6, <1>7, <1>8 DEF WithLater
<1>11. ASSUME NEW k \in Nat PROVE WithLater(new, t, k + 1) = WithLater(sc, t, k)
  <2>1. \A m : (m \in PlayedBy(new, t) /\ Cardinality(LaterThan(new, t, m)) = k + 1)
                 <=> (m \in P /\ Cardinality(LaterThan(sc, t, m)) = k)
    BY <1>6, <1>7, <1>8
  <2> QED  BY <2>1 DEF WithLater
<1>12. \A k \in 0 .. c - 1 : ResultOf(new, t, WithLater(sc, t, k)) = ResultOf(sc, t, WithLater(sc, t, k))
  BY WithLaterIs DEF ResultOf
<1>13. /\ n2 \in Nat \ {0} /\ DOMAIN Latest(new, t) = 1 .. n2
       /\ \A i \in 1 .. n2 : Latest(new, t)[i] = ResultOf(new, t, WithLater(new, t, n2 - i))
  BY <1>1, <1>3 DEF Latest
<1>14. /\ n \in Nat /\ DOMAIN Latest(sc, t) = 1 .. n
       /\ \A i \in 1 .. n : Latest(sc, t)[i] = ResultOf(sc, t, WithLater(sc, t, n - i))
  BY <1>1, <1>3 DEF Latest
<1> DEFINE L == Latest(sc, t)
           L2 == Latest(new, t)
           longer == Append(L, r)
           C == {"W", "D", "L"}
<1>15. \A s, m : ResultOf(s, t, m) \in C
  BY DEF ResultOf, ResultFromScore
<1>16. L \in Seq(C) /\ Len(L) = n
  <2>1. L \in [1 .. n -> C]
    BY <1>14, <1>15 DEF Latest
  <2> HIDE DEF L, n
  <2> QED  BY <1>14, <2>1
<1>17. L2 \in Seq(C) /\ Len(L2) = n2
  <2>1. L2 \in [1 .. n2 -> C]
    BY <1>13, <1>15 DEF Latest
  <2> HIDE DEF L2, n2
  <2> QED  BY <1>13, <2>1
<1>18. r \in C
  BY <1>15
<1> HIDE DEF L, L2, n, n2, r, C
<1>19. /\ longer \in Seq(C) /\ Len(longer) = n + 1 /\ longer[n + 1] = r
       /\ \A i \in 1 .. n : longer[i] = L[i]
  BY <1>14, <1>16, <1>18
<1> HIDE DEF longer
<1>20. L2[n2] = r
  BY <1>10, <1>13 DEF L2, r
<1>21. ASSUME NEW i \in 1 .. n2, i # n2, NEW j \in 1 .. n, n2 - i = (n - j) + 1
       PROVE  L2[i] = L[j]
  <2>1. n - j \in Nat /\ n - j \in 0 .. c - 1
    BY <1>1, <1>3, <1>14
  <2>2. WithLater(new, t, (n - j) + 1) = WithLater(sc, t, n - j)
    BY <1>11, <2>1
  <2>3. L2[i] = ResultOf(new, t, WithLater(new, t, (n - j) + 1))
    BY <1>13, <1>21 DEF L2
  <2>4. L[j] = ResultOf(sc, t, WithLater(sc, t, n - j))
    BY <1>14 DEF L
  <2> QED  BY <1>12, <2>1, <2>2, <2>3, <2>4
<1>22. CASE n < MaxRecentResults
  <2>1. n = c /\ n2 = n + 1
    BY <1>1, <1>3, <1>22
  <2>2. \A i \in 1 .. n : L2[i] = longer[i]
    BY <1>1, <1>19, <1>21, <2>1
  <2>3. L2[n2] = longer[n2]
    BY <1>19, <1>20, <2>1
  <2>4. \A i \in 1 .. Len(L2) : L2[i] = longer[i]
    BY <1>1, <1>17, <2>1, <2>2, <2>3
  <2>5. L2 = longer
    BY <1>17, <1>19, <2>1, <2>4, SMT
  <2>6. ~(Len(longer) > MaxRecentResults)
    BY <1>1, <1>3, <1>19, <2>1, <1>22
  <2> QED  BY <1>9, <2>5, <2>6 DEF RecordResult, longer, L, L2, r
<1>23. CASE ~(n < MaxRecentResults)
  <2>1. n = MaxRecentResults /\ n2 = n /\ n \in Nat \ {0}
    BY <1>1, <1>3, <1>23
  <2>2. Tail(longer) \in Seq(C) /\ Len(Tail(longer)) = n
        /\ \A i \in 1 .. n : Tail(longer)[i] = longer[i + 1]
    BY <1>19, <2>1
  <2>3. ASSUME NEW i \in 1 .. n PROVE L2[i] = longer[i + 1]
    <3>1. CASE i = n
      BY <1>19, <1>20, <2>1, <3>1
    <3>2. CASE i # n
      <4>1. i + 1 \in 1 .. n /\ n2 - i = (n - (i + 1)) + 1
        BY <2>1, <3>2
      <4>2. L2[i] = L[i + 1]
        BY <1>21, <2>1, <3>2, <4>1
      <4> QED  BY <1>19, <4>1, <4>2
    <3> QED  BY <3>1, <3>2
  <2>4. L2 = Tail(longer)
    BY <1>17, <2>1, <2>2, <2>3
  <2>5. Len(longer) > MaxRecentResults
    BY <1>19, <2>1
  <2> QED  BY <1>9, <2>4, <2>5 DEF RecordResult, longer, L, L2, r
<1> QED  BY <1>22, <1>23

\* A simulation whose week is next has read the forms that are still stored.
FormOK(p) ==
    pc[p] \in {"read_fixtures", "lock_week"} \cup SimulateTx /\ local[p].week = week + 1
        => local[p].forms = form

FormInv == /\ SimulateInv
           /\ \A p \in Proc : FormOK(p)
           /\ \A t \in Team : Ordered(score, t) /\ form[t] = Latest(score, t)

LEMMA InitFormInv == Init /\ SimulateInv => FormInv
<1> SUFFICES ASSUME Init, SimulateInv PROVE FormInv
  OBVIOUS
<1>1. \A p \in Proc : FormOK(p)
  BY DEF Init, FormOK, SimulateTx
<1>2. ASSUME NEW t \in Team PROVE Ordered(score, t) /\ form[t] = Latest(score, t)
  <2>1. PlayedBy(score, t) = {}
    BY DEF Init, NoResults, PlayedBy, PlayedIn
  <2>2. Cardinality(PlayedBy(score, t)) = 0
    BY <2>1, FS_EmptySet
  <2>3. FormLength(score, t) = 0
    BY <2>2, FormLengthIs, FormRemembers
  <2>4. Latest(score, t) = <<>>
    BY <2>3 DEF Latest
  <2> QED  BY <2>2, <2>4 DEF Ordered, Init, NoForm
<1> QED  BY <1>1, <1>2 DEF FormInv

\* The commit of a week writes the forms of its results.
LEMMA CommitForms ==
    ASSUME FormInv, NEW p \in Proc, CommitWeek(p), NEW t \in Team
    PROVE  Ordered(score', t) /\ form'[t] = Latest(score', t)
<1> DEFINE batch == local[p].batch
           now == UnplayedOfWeek(week + 1)
<1>1. /\ local[p].week = week + 1 /\ batch \in [now -> Score] /\ score' = Overlay(score, batch)
  BY CommitMerges DEF FormInv
<1>2. local[p].forms = form
  BY <1>1 DEF FormInv, FormOK, CommitWeek, SimulateTx
<1>3. TypeOK /\ PlayedUpToCurrentWeek
  BY DEF FormInv, SimulateInv, WeekInv
<1>4. \A m \in Match : WeekOf[m] \in Int /\ week \in Int
  BY <1>3, WeeksTyped DEF TypeOK, Week
<1>5. \A m \in Match : m \in now <=> WeekOf[m] = week + 1
  BY <1>3, <1>4 DEF UnplayedOfWeek, PlayedUpToCurrentWeek
<1>6. \A m \in Match : score'[m] = IF m \in now THEN batch[m] ELSE score[m]
  BY <1>1 DEF Overlay
<1>7. \A m \in now : m \in Match /\ score[m] = Unplayed /\ score'[m] # Unplayed
  BY <1>1, <1>6, ScoreNotUnplayed DEF UnplayedOfWeek
<1> HIDE DEF now
<1>8. /\ PlayedBy(score', t) = PlayedBy(score, t) \cup {m \in now : Plays(t, m)}
      /\ \A m \in PlayedBy(score, t) : m \notin now /\ score'[m] = score[m] /\ WeekOf[m] < week + 1
  <2>1. \A m \in PlayedBy(score, t) : m \in Match /\ score[m] # Unplayed
    BY DEF PlayedBy, PlayedIn
  <2>2. \A m \in PlayedBy(score, t) : m \notin now /\ score'[m] = score[m] /\ WeekOf[m] < week + 1
    BY <1>3, <1>4, <1>6, <1>7, <2>1 DEF PlayedUpToCurrentWeek
  <2>3. PlayedBy(score', t) = PlayedBy(score, t) \cup {m \in now : Plays(t, m)}
    BY <1>6, <1>7 DEF PlayedBy, PlayedIn
  <2> QED  BY <2>2, <2>3
<1>9. DOMAIN batch = now
  BY <1>1
<1>10. form'[t] = IF \E m \in now : Plays(t, m)
                  THEN LET m == CHOOSE x \in now : Plays(t, x)
                       IN  RecordResult(form[t], ResultFromScore(m, batch[m], t))
                  ELSE form[t]
  BY <1>2, <1>9 DEF CommitWeek, FormAfter
<1> HIDE DEF batch
<1>11. Ordered(score, t) /\ form[t] = Latest(score, t)
  BY DEF FormInv
<1>12. CASE \E m \in now : Plays(t, m)
  <2> DEFINE last == CHOOSE x \in now : Plays(t, x)
  <2>1. last \in now /\ Plays(t, last)
    BY <1>12
  <2> HIDE DEF last
  <2>2. ASSUME NEW m \in now, Plays(t, m) PROVE m = last
    <3>1. m \in Match /\ last \in Match /\ WeekOf[m] = WeekOf[last]
      BY <1>5, <1>7, <2>1
    <3> QED  BY <2>1, <2>2, <3>1, OneMatchAWeek DEF Plays
  <2>3. last \in Match /\ last \notin PlayedBy(score, t) /\ WeekOf[last] = week + 1
    BY <1>5, <1>7, <1>8, <2>1
  <2>4. PlayedBy(score', t) = PlayedBy(score, t) \cup {last}
    BY <1>8, <2>1, <2>2
  <2>5. /\ Ordered(score', t)
        /\ Latest(score', t) = RecordResult(Latest(score, t), ResultOf(score', t, last))
    BY <1>8, <1>11, <2>3, <2>4, LatestGrow
  <2>6. form'[t] = RecordResult(form[t], ResultFromScore(last, batch[last], t))
    BY <1>10, <1>12 DEF last
  <2>7. score'[last] = batch[last]
    BY <1>6, <2>1, <2>3
  <2> QED  BY <1>11, <2>5, <2>6, <2>7 DEF ResultOf
<1>13. CASE ~(\E m \in now : Plays(t, m))
  <2>1. PlayedBy(score', t) = PlayedBy(score, t)
    BY <1>8, <1>13
  <2>2. Ordered(score', t) /\ Latest(score', t) = Latest(score, t)
    BY <1>8, <1>11, <2>1, LatestStay
  <2> QED  BY <1>10, <1>11, <1>13, <2>2
<1> QED  BY <1>12, <1>13

\* A step of p other than a commit keeps the forms it has read in step with
\* those that are stored.
LEMMA OwnForm ==
    ASSUME TypeOK, OnlySimulates, NEW p \in Proc, FormOK(p),
           Arrive(p) \/ Step(p) \/ Fail(p) \/ DeadlockVictim(p), Calm(p), pc'[p] \in SimulatePC,
           ~CommitWeek(p)
    PROVE  FormOK(p)'
<1> USE DEF TypeOK, SimulateTx, SimulatePC
<1>1. form' = form /\ week' = week
  BY DEF Calm, tables, season
<1>2. ASSUME Abort(p) PROVE FormOK(p)'
  BY <1>2 DEF Abort, FormOK
<1>3. ASSUME NEW from, NEW to, Goto(p, from, to),
             from \in {"read_fixtures", "lock_week"} \cup SimulateTx
               \/ to \notin {"read_fixtures", "lock_week"} \cup SimulateTx,
             local'[p].week = local[p].week /\ local'[p].forms = local[p].forms
      PROVE  FormOK(p)'
  BY <1>1, <1>3 DEF Goto, FormOK
<1>4. CASE Arrive(p)
  BY <1>4 DEF Arrive, AcceptSimulate, AcceptPlayAll, AcceptEdit, AcceptReset, Accept, FormOK
<1>5. CASE SimulateStep(p)
  <2>1. CASE PlayNext(p)
    BY <2>1, <1>2, <1>3 DEF PlayNext
  <2>2. CASE ReadSeason(p)
    BY <2>2, <1>2 DEF ReadSeason, Goto, FormOK
  <2>3. CASE ReadForm(p)
    BY <1>1, <2>3 DEF ReadForm, Goto, FormOK, Locals
  <2>4. CASE ReadFixtures(p)
    <3>1. local'[p].week = local[p].week /\ local'[p].forms = local[p].forms
      BY <2>4 DEF ReadFixtures, Locals
    <3> QED  BY <2>4, <3>1, <1>3 DEF ReadFixtures
  <2>5. CASE LockForWeek(p)
    <3>1. CASE Abort(p)
      BY <3>1, <1>2
    <3>2. CASE ~Abort(p)
      <4>1. /\ Goto(p, "lock_week", "upsert_form")
            /\ \E results \in [UnplayedOfWeek(local[p].week) -> Score] :
                  local' = [local EXCEPT ![p].batch = results, ![p].gen = gen]
        BY <2>5, <3>2 DEF LockForWeek
      <4>2. local'[p].week = local[p].week /\ local'[p].forms = local[p].forms
        BY <4>1 DEF Locals
      <4> QED  BY <4>1, <4>2, <1>3
    <3> QED  BY <3>1, <3>2
  <2>6. CASE UpsertForm(p) \/ ReplaceStandings(p)
    BY <2>6, <1>3 DEF UpsertForm, ReplaceStandings
  <2>7. CASE UpdateCurrentWeek(p)
    BY <2>7, <1>3 DEF UpdateCurrentWeek
  <2>8. CASE ReplacePredictions(p)
    <3>1. local'[p].week = local[p].week /\ local'[p].forms = local[p].forms
      BY <2>8 DEF ReplacePredictions, Locals
    <3> QED  BY <2>8, <3>1, <1>3 DEF ReplacePredictions
  <2> QED  BY <1>5, <2>1, <2>2, <2>3, <2>4, <2>5, <2>6, <2>7, <2>8 DEF SimulateStep
<1>6. ~EditStep(p) \/ Abort(p)
  BY DEF OnlySimulates, EditStep, LockByID, ReadPlayed, EditStandings, EditSeason, ReadRemaining,
         EditPredictions, CommitEdit, Goto
<1>7. ~ResetStep(p)
  BY DEF OnlySimulates, ResetStep, DeletePredictions, DeleteForm, DeleteStandings, DeleteFixtures,
         ResetSeason, CommitReset, Goto
<1>8. CASE Fail(p) \/ DeadlockVictim(p)
  BY <1>8, <1>2 DEF Fail, DeadlockVictim
<1> QED  BY <1>2, <1>4, <1>5, <1>6, <1>7, <1>8 DEF Step

LEMMA FormInvStep == SimulateOnly /\ FormInv /\ SimulateInv' /\ [Next]_vars => FormInv'
<1> SUFFICES ASSUME SimulateOnly, FormInv, SimulateInv', [Next]_vars PROVE FormInv'
  OBVIOUS
<1>1. CASE UNCHANGED vars
  BY <1>1 DEF vars, tables, season, FormInv, FormOK
<1> SUFFICES ASSUME NEW p \in Proc, Arrive(p) \/ Step(p) \/ Fail(p) \/ DeadlockVictim(p)
             PROVE  FormInv'
  BY <1>1 DEF Next
<1>2. /\ TypeOK /\ OnlySimulates /\ \A q \in Proc : FormOK(q) /\ pc[q] \in SimulatePC /\ ViewOK(q)
      /\ \A q \in Proc : local[q].week <= week + 1 /\ local[q].week \in Int /\ week \in Nat
  BY WeeksTyped DEF FormInv, SimulateInv, OnlySimulates, ViewsCurrent, WeekInv, OneWeekAtATime,
                    TypeOK, Locals
<1>3. CASE CommitWeek(p)
  <2>1. \A t \in Team : Ordered(score', t) /\ form'[t] = Latest(score', t)
    BY <1>3, CommitForms
  <2>2. /\ \A q \in Proc \ {p} : pc'[q] = pc[q] /\ local'[q] = local[q] /\ pc[q] \notin SimulateTx
        /\ pc'[p] \in {"idle", "play_next"} /\ week' = week + 1
    BY <1>2, <1>3, CommitMerges DEF CommitWeek, Commit, TypeOK, FormInv
  <2>3. \A q \in Proc : FormOK(q)'
    BY <1>2, <2>2 DEF FormOK, SimulateTx
  <2> QED  BY <2>1, <2>3 DEF FormInv
<1>4. CASE ~CommitWeek(p)
  <2>1. Calm(p) /\ pc'[p] \in SimulatePC
    BY <1>2, <1>4, OwnSimulate
  <2>2. FormOK(p)'
    BY <1>2, <1>4, <2>1, OwnForm
  <2>3. form' = form /\ week' = week /\ score' = score
    BY <2>1 DEF Calm, tables, season
  <2>4. \A q \in Proc : FormOK(q)'
    BY <1>2, <2>1, <2>2, <2>3 DEF Calm, FormOK
  <2> QED  BY <2>3, <2>4 DEF FormInv
<1> QED  BY <1>3, <1>4

\* With simulations only, team_form holds the latest results of every team in
\* the order of the weeks, although SimulateNextWeek records them on forms that
\* it has read before the transaction.
THEOREM FormsOfResults == SimulateOnly => (Spec => []FormMatchesResults)
<1> SUFFICES ASSUME SimulateOnly PROVE Spec => []FormMatchesResults
  OBVIOUS
<1>1. Spec => []SimulateInv
  BY SimulateInvAlways
<1>2. SimulateInv /\ Init => FormInv
  BY InitFormInv
<1>3. FormInv /\ SimulateInv' /\ [Next]_vars => FormInv'
  BY FormInvStep
<1>4. FormInv => FormMatchesResults
  BY LatestIs DEF FormInv, FormMatchesResults
<1> QED  BY <1>1, <1>2, <1>3, <1>4, PTL DEF Spec

-------------------------------------------------------------------------------
(*****************************************************************************)
(* What readers are shown.  SeasonViews moves League and StandingsCache by    *)
(* steps of their own, so that both keep what is proved of them alone; the    *)
(* log of the tables connects the versions of the one to rows of the other.   *)
(*****************************************************************************)

CacheP == INSTANCE StandingsCache_proofs WITH
              Proc <- Proc \cup Reader,
              Faults <- TRUE,
              MaxCommits <- MaxRequests * TotalWeeks,
              version <- Len(log) - 1,
              pc <- handler

LEMMA SameCache == /\ Cache!Init = CacheP!Init
                   /\ Cache!vars = CacheP!vars
                   /\ Cache!Next = CacheP!Next
                   /\ Cache!Quiet = CacheP!Quiet
<1>1. Cache!Init = CacheP!Init /\ Cache!vars = CacheP!vars /\ Cache!Quiet = CacheP!Quiet
  BY Zenon DEF Cache!Init, Cache!vars, Cache!Nothing, Cache!Quiet,
               CacheP!Init, CacheP!vars, CacheP!Nothing, CacheP!Quiet
<1>2. Cache!Next = CacheP!Next
  BY Zenon
     DEF Cache!Next, Cache!Miss, Cache!GetWeek, Cache!Read, Cache!ReadWeek, Cache!ReadRows,
         Cache!ReadPlayed, Cache!Fill, Cache!AnswerWeek, Cache!ReadFails, Cache!WriteOnce,
         Cache!PlayAll, Cache!Commit, Cache!Evict, Cache!WriteFails, Cache!Expire, Cache!Restart,
         Cache!Arrive, Cache!Goto, Cache!Reading, Cache!Nothing, Cache!Fresh, Cache!vars,
         CacheP!Next, CacheP!Miss, CacheP!GetWeek, CacheP!Read, CacheP!ReadWeek, CacheP!ReadRows,
         CacheP!ReadPlayed, CacheP!Fill, CacheP!AnswerWeek, CacheP!ReadFails, CacheP!WriteOnce,
         CacheP!PlayAll, CacheP!Commit, CacheP!Evict, CacheP!WriteFails, CacheP!Expire,
         CacheP!Restart, CacheP!Arrive, CacheP!Goto, CacheP!Reading, CacheP!Nothing, CacheP!Fresh,
         CacheP!vars
<1> QED  BY <1>1, <1>2

\* Every step is one of League and one of StandingsCache, or leaves them alone.
LEMMA ViewsSteps == [ViewsNext]_allVars => [Next]_vars /\ [Cache!Next]_(Cache!vars)
<1> SUFFICES ASSUME [ViewsNext]_allVars PROVE [Next]_vars /\ [Cache!Next]_(Cache!vars)
  OBVIOUS
<1>1. UNCHANGED <<log, views>> => UNCHANGED Cache!vars
  BY DEF views, Cache!vars
<1>2. CASE UNCHANGED allVars
  BY <1>1, <1>2 DEF allVars
<1>3. ASSUME NEW p \in Proc, Request(p) PROVE Next /\ Cache!Next
  BY <1>3 DEF Request, Arrive, Next, Cache!Next
<1>4. ASSUME NEW p \in Proc, Statement(p) PROVE Next /\ UNCHANGED Cache!vars
  BY <1>1, <1>4 DEF Statement, Next
<1>5. ASSUME NEW p \in Proc, CommitTables(p) PROVE Next /\ Cache!Next
  BY <1>5 DEF CommitTables, Next, Cache!Next
<1>6. ASSUME NEW p \in Proc, Returns(p) PROVE [Next]_vars /\ Cache!Next
  BY <1>6 DEF Returns, Next, Step, SimulateStep, Cache!Next
<1>7. ASSUME NEW p \in Proc, ReturnsError(p) PROVE [Next]_vars /\ Cache!Next
  BY <1>7 DEF ReturnsError, Next, Cache!Next
<1>8. ASSUME NEW r \in Reader, ReadRequest(r) PROVE UNCHANGED vars /\ Cache!Next
  BY <1>8 DEF ReadRequest, Cache!Next
<1>9. ASSUME Expire PROVE UNCHANGED vars /\ Cache!Next
  BY <1>9 DEF Expire, Cache!Next
<1> QED  BY <1>2, <1>3, <1>4, <1>5, <1>6, <1>7, <1>8, <1>9 DEF ViewsNext

\* The composed server is a season as League describes it, behind a cache as
\* StandingsCache describes it: neither needs a step the other does not allow.
THEOREM BothAreImplemented == ViewsSpec => Spec /\ Cache!Spec
<1>1. ViewsInit => Init /\ Cache!Init
  BY DEF ViewsInit
<1> QED  BY <1>1, ViewsSteps, PTL DEF ViewsSpec, Spec, Cache!Spec

\* What is proved of StandingsCache holds of the cache of a season.
LEMMA CacheKept == ViewsSpec => [](CacheP!ReadInv /\ CacheP!Past /\ CacheP!Accounted)
<1>1. MaxRequests * TotalWeeks \in Nat
  BY BoundsTyped, WeeksTyped
<1>2. CacheP!Spec => [](CacheP!ReadInv /\ CacheP!Past /\ CacheP!Accounted)
  BY <1>1, CacheP!CacheInvariant
<1>3. [Cache!Next]_(Cache!vars) => [CacheP!Next]_(CacheP!vars)
  BY SameCache, Zenon DEF Cache!vars, CacheP!vars
<1>4. Cache!Init => CacheP!Init
  BY SameCache
<1> QED  BY <1>2, <1>3, <1>4, BothAreImplemented, PTL DEF Cache!Spec, CacheP!Spec

-------------------------------------------------------------------------------
(* The matches a table counts *)

\* Calculate credits a team with one match for each it has played.
LEMMA PlayedCounted ==
    ASSUME NEW sc, \A m \in PlayedIn(sc) : sc[m] \in Nat \X Nat, NEW t \in Team
    PROVE  Calculate(sc)[t].played = Cardinality(MatchesOf(t, PlayedIn(sc)))
<1> DEFINE S == PlayedIn(sc)
<1>1. PICK iter \in [SUBSET S -> [Team -> TableRow]] :
          /\ Calculate(sc) = iter[S]
          /\ iter[{}] = ZeroTable
          /\ \A s \in SUBSET S : s # {} =>
                LET m == CHOOSE y \in s : TRUE
                IN  iter[s] = ApplyMatch(iter[s \ {m}], Home[m], Away[m], sc[m])
  BY CalculateFolds
<1> DEFINE P == {s \in SUBSET S : iter[s][t].played = Cardinality(MatchesOf(t, s))}
<1>2. IsFiniteSet(S) /\ S \subseteq Match
  BY SeasonFinite, FS_Subset DEF PlayedIn
<1> HIDE DEF S
<1>3. {} \in P
  <2>1. MatchesOf(t, {}) = {}
    BY DEF MatchesOf
  <2>2. iter[{}][t].played = 0
    BY <1>1 DEF ZeroTable, ZeroRow
  <2> QED  BY <2>1, <2>2, FS_EmptySet
<1>4. ASSUME NEW s \in SUBSET S, s # {}, s \ {CHOOSE y \in s : TRUE} \in P PROVE s \in P
  <2> DEFINE m == CHOOSE y \in s : TRUE
             r == s \ {m}
  <2>1. m \in s /\ m \in Match /\ r \in SUBSET S /\ IsFiniteSet(r)
    BY <1>2, <1>4, FS_Subset
  <2>2. /\ iter[r][t].played = Cardinality(MatchesOf(t, r))
        /\ iter[s] = ApplyMatch(iter[r], Home[m], Away[m], sc[m])
    BY <1>1, <1>4
  <2>3. iter[r] \in [Team -> TableRow] /\ iter[r][t] \in TableRow /\ iter[r][t].played \in Nat
    BY <2>1 DEF TableRow
  <2> HIDE DEF m, r
  <2>4. Home[m] \in Team /\ Away[m] \in Team /\ Home[m] # Away[m]
    BY <2>1, ScheduleTyped, NobodyPlaysThemselves
  <2>5. \A gf, ga : Credit(iter[r][t], gf, ga).played = iter[r][t].played + 1
    BY <2>3, CreditIs
  <2>6. iter[s][t].played = IF Plays(t, m) THEN iter[r][t].played + 1 ELSE iter[r][t].played
    BY <2>2, <2>3, <2>4, <2>5, ApplyMatchRows DEF Plays
  <2>7. MatchesOf(t, s) = IF Plays(t, m) THEN MatchesOf(t, r) \cup {m} ELSE MatchesOf(t, r)
    BY <2>1 DEF MatchesOf, r
  <2>8. m \notin MatchesOf(t, r) /\ IsFiniteSet(MatchesOf(t, r))
    BY <2>1, FS_Subset DEF MatchesOf, r
  <2>9. Cardinality(MatchesOf(t, r) \cup {m}) = Cardinality(MatchesOf(t, r)) + 1
    BY <2>8, FS_AddElement
  <2> QED  BY <2>2, <2>6, <2>7, <2>9
<1> HIDE DEF P
<1>5. SUBSET S \subseteq P
  BY <1>2, <1>3, <1>4, SubsetInduction
<1> QED  BY <1>1, <1>5 DEF P, S

LEMMA ResultsArePairs ==
    ASSUME NEW sc \in Results
    PROVE  \A m \in PlayedIn(sc) : sc[m] \in Nat \X Nat
BY ScoresArePlayed DEF Results, PlayedIn

LEMMA MatchesFinite ==
    ASSUME NEW S \in SUBSET Match, NEW t
    PROVE  IsFiniteSet(MatchesOf(t, S)) /\ Cardinality(MatchesOf(t, S)) \in Nat
BY SeasonFinite, FS_Subset, FS_CardinalityType DEF MatchesOf

\* More matches are at least as many, for every team.
LEMMA MoreMatches ==
    ASSUME NEW S \in SUBSET Match, NEW T \in SUBSET S, NEW t
    PROVE  Cardinality(MatchesOf(t, T)) <= Cardinality(MatchesOf(t, S))
<1>1. MatchesOf(t, T) \subseteq MatchesOf(t, S)
  BY DEF MatchesOf
<1> QED  BY <1>1, MatchesFinite, FS_Subset

\* The table of some results counts no match but theirs.
LEMMA CountsNoOther ==
    ASSUME NEW r \in Results, NEW S \in SUBSET Match, PlayedIn(r) \subseteq S
    PROVE  CountsOnly(Calculate(r), S)
BY ResultsArePairs, PlayedCounted, MoreMatches DEF CountsOnly

\* The table of some results counts at least any part of them.
LEMMA CountsAll ==
    ASSUME NEW r \in Results, NEW S \in SUBSET PlayedIn(r)
    PROVE  Counts(Calculate(r), S)
<1>1. PlayedIn(r) \in SUBSET Match
  BY DEF PlayedIn
<1> QED  BY <1>1, ResultsArePairs, PlayedCounted, MoreMatches, MatchesFinite DEF Counts

-------------------------------------------------------------------------------
(* The log of the tables, without Reset *)

\* No request works on a result that has not been committed.
ViewsBehind == \A p \in Proc : PlayedIn(local[p].view) \subseteq PlayedIn(score)

LogTyped == /\ log \in Seq([score : Results, table : [Team -> TableRow]])
            /\ Len(log) >= 1
            /\ log[Len(log)] = [score |-> score, table |-> standings]

\* Played fixtures stay played.
LogGrows ==
    \A i, j \in 1 .. Len(log) : i <= j => PlayedIn(log[i].score) \subseteq PlayedIn(log[j].score)

\* No table counts a match that was not committed with it.
LogCounts == \A i \in 1 .. Len(log) : CountsOnly(log[i].table, PlayedIn(log[i].score))

LogInv == WeekInv /\ ViewsBehind /\ LogTyped /\ LogGrows /\ LogCounts

\* A statement keeps what its request has read, reads the results of now, or
\* forgets them.
LEMMA ViewsRead ==
    ASSUME TypeOK, NobodyResets, NEW p \in Proc,
           Arrive(p) \/ Step(p) \/ Fail(p) \/ DeadlockVictim(p), NEW q \in Proc
    PROVE  local'[q].view \in {local[q].view, score, NoResults}
<1> DEFINE Goal == local'[q].view \in {local[q].view, score, NoResults}
<1>0. local \in [Proc -> Locals]
  BY DEF TypeOK
<1>1. CASE Arrive(p)
  <2>1. ASSUME NEW op, NEW first, NEW r, r.view = NoResults, Accept(p, op, first, r) PROVE Goal
    BY <1>0, <2>1 DEF Accept
  <2>2. NoLocals.view = NoResults /\ [NoLocals EXCEPT !.all = TRUE].view = NoResults
    BY DEF NoLocals
  <2>3. CASE AcceptSimulate(p) \/ AcceptPlayAll(p) \/ AcceptReset(p)
    BY <2>1, <2>2, <2>3 DEF AcceptSimulate, AcceptPlayAll, AcceptReset
  <2>4. CASE AcceptEdit(p)
    <3>1. PICK m \in Match, s \in Score :
              Accept(p, "edit", "lock_fixture",
                     [NoLocals EXCEPT !.gen = gen, !.batch = [x \in {m} |-> s]])
      BY <2>4 DEF AcceptEdit
    <3>2. [NoLocals EXCEPT !.gen = gen, !.batch = [x \in {m} |-> s]].view = NoResults
      BY DEF NoLocals
    <3> QED  BY <2>1, <3>1, <3>2
  <2> QED  BY <1>1, <2>3, <2>4 DEF Arrive
<1>2. ASSUME Abort(p) PROVE Goal
  BY <1>0, <1>2 DEF Abort, NoLocals
<1>3. ASSUME UNCHANGED local PROVE Goal
  BY <1>3
<1>4. CASE SimulateStep(p)
  <2>1. CASE PlayNext(p)
    BY <2>1, <1>2, <1>3 DEF PlayNext
  <2>2. CASE ReadSeason(p)
    BY <1>0, <2>2, <1>2 DEF ReadSeason, Locals
  <2>3. CASE ReadForm(p)
    BY <1>0, <2>3 DEF ReadForm, Locals
  <2>4. CASE ReadFixtures(p)
    BY <1>0, <2>4 DEF ReadFixtures, Locals
  <2>5. CASE LockForWeek(p)
    <3>1. CASE Abort(p)
      BY <3>1, <1>2
    <3>2. CASE ~Abort(p)
      <4>1. PICK results \in [UnplayedOfWeek(local[p].week) -> Score] :
                local' = [local EXCEPT ![p].batch = results, ![p].gen = gen]
        BY <2>5, <3>2 DEF LockForWeek
      <4> QED  BY <1>0, <4>1 DEF Locals
    <3> QED  BY <3>1, <3>2
  <2>6. CASE UpsertForm(p) \/ ReplaceStandings(p) \/ UpdateCurrentWeek(p)
    BY <2>6, <1>3 DEF UpsertForm, ReplaceStandings, UpdateCurrentWeek
  <2>7. CASE ReplacePredictions(p)
    BY <1>0, <2>7 DEF ReplacePredictions, Locals
  <2>8. CASE CommitWeek(p)
    BY <1>0, <2>8 DEF CommitWeek, Commit, NoLocals
  <2> QED  BY <1>4, <2>1, <2>2, <2>3, <2>4, <2>5, <2>6, <2>7, <2>8 DEF SimulateStep
<1>5. CASE EditStep(p)
  <2>1. CASE LockByID(p)
    BY <2>1, <1>2, <1>3 DEF LockByID
  <2>2. CASE ReadPlayed(p)
    BY <1>0, <2>2 DEF ReadPlayed, Locals
  <2>3. CASE EditStandings(p)
    BY <2>3, <1>2, <1>3 DEF EditStandings
  <2>4. CASE EditSeason(p)
    BY <1>0, <2>4 DEF EditSeason, Locals
  <2>5. CASE ReadRemaining(p)
    BY <1>0, <2>5 DEF ReadRemaining, Locals
  <2>6. CASE EditPredictions(p)
    BY <2>6, <1>3 DEF EditPredictions
  <2>7. CASE CommitEdit(p)
    BY <1>0, <2>7 DEF CommitEdit, Commit, NoLocals
  <2> QED  BY <1>5, <2>1, <2>2, <2>3, <2>4, <2>5, <2>6, <2>7 DEF EditStep
<1>6. ~ResetStep(p)
  BY DEF ResetStep, DeletePredictions, DeleteForm, DeleteStandings, DeleteFixtures,
         ResetSeason, CommitReset, Goto, NobodyResets, ResetPC
<1> QED  BY <1>1, <1>2, <1>4, <1>5, <1>6 DEF Step, Fail, DeadlockVictim

\* A commit leaves every played fixture played, and its table is that of results
\* which are played now.
LEMMA CommitLater ==
    ASSUME TypeOK, ViewsBehind, NEW p \in Proc, CommitWeek(p) \/ CommitEdit(p)
    PROVE  /\ PlayedIn(score) \subseteq PlayedIn(score')
           /\ \E r \in Results : standings' = Calculate(r) /\ PlayedIn(r) \subseteq PlayedIn(score')
<1> DEFINE batch == local[p].batch
<1>1. /\ score' = Overlay(score, batch)
      /\ local[p] \in Locals /\ local[p].view \in Results
      /\ PlayedIn(local[p].view) \subseteq PlayedIn(score)
  BY DEF CommitWeek, CommitEdit, ViewsBehind, TypeOK, Locals
<1>2. \A m \in DOMAIN batch : batch[m] # Unplayed
  <2>1. PICK S \in SUBSET Match : batch \in [S -> Score]
    BY <1>1 DEF Locals, Batches
  <2> QED  BY <2>1, ScoreNotUnplayed
<1>3. ASSUME NEW results, PlayedIn(results) \subseteq PlayedIn(score)
      PROVE  PlayedIn(Overlay(results, batch)) \subseteq PlayedIn(score')
  BY <1>1, <1>2, <1>3 DEF Overlay, PlayedIn
<1>4. PlayedIn(score) \subseteq PlayedIn(score')
  BY <1>1, <1>2 DEF Overlay, PlayedIn
<1>5. CASE CommitWeek(p)
  <2>1. standings' = Calculate(MergePlayed(local[p])) /\ MergePlayed(local[p]) \in Results
    BY <1>1, <1>5, MergePlayedType DEF CommitWeek
  <2>2. PlayedIn(MergePlayed(local[p])) \subseteq PlayedIn(score')
    BY <1>1, <1>3, <1>4 DEF MergePlayed
  <2> QED  BY <1>4, <2>1, <2>2
<1>6. CASE CommitEdit(p)
  BY <1>1, <1>4, <1>6 DEF CommitEdit
<1> QED  BY <1>5, <1>6

\* The log is a history: it grows by the tables of a commit, and nothing else
\* changes them.
LEMMA LogSteps ==
    ASSUME WeekInv, [ViewsNext]_allVars
    PROVE  \/ UNCHANGED <<log, score, standings, local>>
           \/ \E p \in Proc :
                 /\ Arrive(p) \/ Step(p) \/ Fail(p) \/ DeadlockVictim(p)
                 /\ UNCHANGED <<log, score, standings>>
           \/ \E p \in Proc :
                 /\ CommitWeek(p) \/ CommitEdit(p)
                 /\ log' = Append(log, [score |-> score', table |-> standings'])
<1>1. CASE UNCHANGED allVars
  BY <1>1 DEF allVars, vars, tables
<1>2. ASSUME NEW p \in Proc, pc[p] \notin CommitPC,
             Arrive(p) \/ Step(p) \/ Fail(p) \/ DeadlockVictim(p)
      PROVE  UNCHANGED <<score, standings>>
  <2>1. ~CommitWeek(p) /\ ~CommitEdit(p) /\ ~CommitReset(p)
    BY <1>2 DEF CommitWeek, CommitEdit, CommitReset, CommitPC
  <2>2. TablesKept(p)
    BY <1>2, <2>1, CommitsOrKeeps DEF WeekInv
  <2> QED  BY <2>2 DEF TablesKept, tables
<1>3. ASSUME NEW p \in Proc, Abort(p) PROVE UNCHANGED <<score, standings>>
  BY <1>3 DEF Abort, tables
<1>4. ASSUME NEW p \in Proc, PlayNext(p) PROVE Step(p) /\ pc[p] \notin CommitPC
  BY <1>4 DEF Step, SimulateStep, PlayNext, Goto, CommitPC
<1>5. ASSUME NEW p \in Proc, Request(p)
      PROVE  Arrive(p) /\ UNCHANGED <<log, score, standings>>
  BY <1>5 DEF Request, Arrive, AcceptSimulate, AcceptPlayAll, AcceptEdit, AcceptReset, Accept,
     tables
<1>6. ASSUME NEW p \in Proc, Statement(p) PROVE Step(p) /\ UNCHANGED <<log, score, standings>>
  BY <1>2, <1>6 DEF Statement
<1>7. ASSUME NEW p \in Proc, CommitTables(p)
      PROVE  /\ CommitWeek(p) \/ CommitEdit(p)
             /\ log' = Append(log, [score |-> score', table |-> standings'])
  <2>1. pc[p] \in {"commit_week", "commit_edit"} /\ Step(p)
    BY <1>7 DEF CommitTables, CommitPC, WeekInv, NobodyResets, ResetPC
  <2>2. CommitWeek(p) \/ CommitEdit(p)
    BY <2>1 DEF Step, SimulateStep, PlayNext, ReadSeason, ReadForm, ReadFixtures, LockForWeek,
       UpsertForm, ReplaceStandings, UpdateCurrentWeek, ReplacePredictions, EditStep, LockByID,
       ReadPlayed, EditStandings, EditSeason, ReadRemaining, EditPredictions, ResetStep,
       DeletePredictions, DeleteForm, DeleteStandings, DeleteFixtures, ResetSeason, CommitReset,
       Goto
  <2> QED  BY <1>7, <2>2 DEF CommitTables
<1>8. ASSUME NEW p \in Proc, Returns(p)
      PROVE  \/ UNCHANGED <<log, score, standings, local>>
             \/ Step(p) /\ UNCHANGED <<log, score, standings>>
  BY <1>2, <1>4, <1>8 DEF Returns, vars, tables
<1>9. ASSUME NEW p \in Proc, ReturnsError(p)
      PROVE  \/ UNCHANGED <<log, score, standings, local>>
             \/ /\ Step(p) \/ Fail(p) \/ DeadlockVictim(p)
                /\ UNCHANGED <<log, score, standings>>
  BY <1>2, <1>3, <1>9 DEF ReturnsError, Fail, DeadlockVictim, vars, tables
<1>10. ASSUME (\E r \in Reader : ReadRequest(r)) \/ Expire
       PROVE  UNCHANGED <<log, score, standings, local>>
  BY <1>10 DEF ReadRequest, Expire, vars, tables
<1> QED  BY <1>1, <1>5, <1>6, <1>7, <1>8, <1>9, <1>10 DEF ViewsNext

LEMMA TablesAreRows == ASSUME NEW r \in Results PROVE Calculate(r) \in [Team -> TableRow]
BY ResultsArePairs, CalculateTyped

\* A commit appends tables that the log allows.
LEMMA CommitLog ==
    ASSUME LogInv, TypeOK', NEW p \in Proc, CommitWeek(p) \/ CommitEdit(p),
           log' = Append(log, [score |-> score', table |-> standings'])
    PROVE  LogTyped' /\ LogGrows' /\ LogCounts'
<1> DEFINE n == Len(log)
           entry == [score |-> score', table |-> standings']
<1>1. PICK r \in Results : standings' = Calculate(r) /\ PlayedIn(r) \subseteq PlayedIn(score')
  BY CommitLater DEF LogInv, WeekInv
<1>2. PlayedIn(score) \subseteq PlayedIn(score')
  BY CommitLater DEF LogInv, WeekInv
<1>3. entry \in [score : Results, table : [Team -> TableRow]]
  BY <1>1, TablesAreRows DEF TypeOK
<1>4. /\ log \in Seq([score : Results, table : [Team -> TableRow]]) /\ n \in Nat /\ n >= 1
      /\ log[n].score = score
  BY DEF LogInv, LogTyped
<1> HIDE DEF entry
<1>5. /\ log' \in Seq([score : Results, table : [Team -> TableRow]])
      /\ Len(log') = n + 1 /\ log'[n + 1] = entry
      /\ \A i \in 1 .. n : log'[i] = log[i]
  BY <1>3, <1>4 DEF entry
<1> HIDE DEF n
<1>6. LogTyped'
  BY <1>4, <1>5 DEF LogTyped, entry
<1>7. \A i \in 1 .. n + 1 : PlayedIn(log'[i].score) \subseteq PlayedIn(score')
  <2> SUFFICES ASSUME NEW i \in 1 .. n + 1 PROVE PlayedIn(log'[i].score) \subseteq PlayedIn(score')
    OBVIOUS
  <2>1. CASE i = n + 1
    BY <1>5, <2>1 DEF entry
  <2>2. CASE i # n + 1
    <3>1. i \in 1 .. n /\ n \in 1 .. n /\ i <= n
      BY <1>4, <2>2
    <3>2. PlayedIn(log[i].score) \subseteq PlayedIn(log[n].score)
      BY <3>1 DEF LogInv, LogGrows, n
    <3> QED  BY <1>2, <1>4, <1>5, <3>1, <3>2
  <2> QED  BY <2>1, <2>2
<1>8. LogGrows'
  <2> SUFFICES ASSUME NEW i \in 1 .. n + 1, NEW j \in 1 .. n + 1, i <= j
               PROVE  PlayedIn(log'[i].score) \subseteq PlayedIn(log'[j].score)
    BY <1>5 DEF LogGrows, PlayedIn
  <2>1. CASE j = n + 1
    BY <1>5, <1>7, <2>1 DEF entry
  <2>2. CASE j # n + 1
    <3>1. i \in 1 .. n /\ j \in 1 .. n
      BY <1>4, <2>2
    <3> QED  BY <1>5, <3>1 DEF LogInv, LogGrows, n
  <2> QED  BY <2>1, <2>2
<1>9. LogCounts'
  <2> SUFFICES ASSUME NEW i \in 1 .. n + 1
               PROVE  CountsOnly(log'[i].table, PlayedIn(log'[i].score))
    BY <1>5 DEF LogCounts, CountsOnly, PlayedIn
  <2>1. CASE i = n + 1
    <3>1. PlayedIn(score') \in SUBSET Match
      BY DEF PlayedIn
    <3> QED  BY <1>1, <1>5, <2>1, <3>1, CountsNoOther DEF entry
  <2>2. CASE i # n + 1
    <3>1. i \in 1 .. n
      BY <1>4, <2>2
    <3> QED  BY <1>5, <3>1 DEF LogInv, LogCounts, n
  <2> QED  BY <2>1, <2>2
<1> QED  BY <1>6, <1>8, <1>9

LEMMA LogInvStep == LogInv /\ WeekInv' /\ [ViewsNext]_allVars => LogInv'
<1> SUFFICES ASSUME LogInv, WeekInv', [ViewsNext]_allVars PROVE LogInv'
  OBVIOUS
<1>1. WeekInv /\ TypeOK /\ NobodyResets /\ TypeOK'
  BY DEF LogInv, WeekInv
<1>2. ASSUME UNCHANGED <<log, score, standings>> PROVE LogTyped' /\ LogGrows' /\ LogCounts'
  BY <1>2 DEF LogInv, LogTyped, LogGrows, LogCounts, CountsOnly, PlayedIn
<1>3. ASSUME NEW p \in Proc, Arrive(p) \/ Step(p) \/ Fail(p) \/ DeadlockVictim(p),
             PlayedIn(score) \subseteq PlayedIn(score')
      PROVE  ViewsBehind'
  <2> SUFFICES ASSUME NEW q \in Proc PROVE PlayedIn(local'[q].view) \subseteq PlayedIn(score')
    BY DEF ViewsBehind, PlayedIn
  <2>1. local'[q].view \in {local[q].view, score, NoResults}
    BY <1>1, <1>3, ViewsRead
  <2>2. PlayedIn(NoResults) = {}
    BY DEF PlayedIn, NoResults
  <2>3. PlayedIn(local[q].view) \subseteq PlayedIn(score)
    BY DEF LogInv, ViewsBehind
  <2> QED  BY <1>3, <2>1, <2>2, <2>3
<1>4. CASE UNCHANGED <<log, score, standings, local>>
  <2>1. ViewsBehind'
    BY <1>4 DEF LogInv, ViewsBehind, PlayedIn
  <2> QED  BY <1>2, <1>4, <2>1 DEF LogInv
<1>5. ASSUME NEW p \in Proc, Arrive(p) \/ Step(p) \/ Fail(p) \/ DeadlockVictim(p),
             UNCHANGED <<log, score, standings>>
      PROVE  LogInv'
  <2>1. PlayedIn(score) \subseteq PlayedIn(score')
    BY <1>5
  <2> QED  BY <1>2, <1>3, <1>5, <2>1 DEF LogInv
<1>6. ASSUME NEW p \in Proc, CommitWeek(p) \/ CommitEdit(p),
             log' = Append(log, [score |-> score', table |-> standings'])
      PROVE  LogInv'
  <2>1. Step(p) /\ PlayedIn(score) \subseteq PlayedIn(score')
    BY <1>1, <1>6, CommitLater DEF Step, SimulateStep, EditStep, LogInv
  <2> QED  BY <1>1, <1>3, <1>6, <2>1, CommitLog DEF LogInv
<1> QED  BY <1>1, <1>4, <1>5, <1>6, LogSteps

LEMMA InitLog == ViewsInit /\ WeekInv => LogInv
<1> SUFFICES ASSUME ViewsInit, WeekInv PROVE LogInv
  OBVIOUS
<1>1. /\ log = <<[score |-> NoResults, table |-> ZeroTable]>>
      /\ score = NoResults /\ standings = ZeroTable /\ local = [p \in Proc |-> NoLocals]
  BY DEF ViewsInit, Init, Tables0
<1>2. PlayedIn(NoResults) = {} /\ NoResults \in Results
  BY DEF PlayedIn, NoResults, Results
<1>3. ZeroTable = Calculate(NoResults)
  BY <1>2, CalculateNothing
<1>4. ZeroTable \in [Team -> TableRow] /\ CountsOnly(ZeroTable, PlayedIn(NoResults))
  BY <1>2, <1>3, TablesAreRows, CountsNoOther
<1>5. ViewsBehind
  BY <1>1 DEF ViewsBehind, NoLocals
<1>6. Len(log) = 1 /\ log[1] = [score |-> NoResults, table |-> ZeroTable]
  BY <1>1
<1>7. LogTyped
  BY <1>1, <1>2, <1>4 DEF LogTyped
<1>8. LogGrows /\ LogCounts
  BY <1>4, <1>6 DEF LogGrows, LogCounts
<1> QED  BY <1>5, <1>7, <1>8 DEF LogInv

LEMMA LogInvAlways == NoReset => (ViewsSpec => []LogInv)
<1> SUFFICES ASSUME NoReset PROVE ViewsSpec => []LogInv
  OBVIOUS
<1>1. Spec => []WeekInv
  BY WeekInvAlways
<1> QED  BY <1>1, BothAreImplemented, InitLog, LogInvStep, PTL DEF ViewsSpec

-------------------------------------------------------------------------------

\* A version that the cache knows is an entry of the log.
LEMMA EntryOf ==
    ASSUME LogTyped, NEW v \in Nat, v <= Len(log) - 1
    PROVE  /\ v + 1 \in 1 .. Len(log)
           /\ At(v) = log[v + 1] /\ At(v).score \in Results /\ At(v).table \in [Team -> TableRow]
<1> DEFINE Entries == [score : Results, table : [Team -> TableRow]]
<1>1. log \in Seq(Entries) /\ v + 1 \in 1 .. Len(log)
  BY DEF LogTyped
<1> HIDE DEF Entries
<1>2. log[v + 1] \in Entries
  BY <1>1
<1> QED  BY <1>1, <1>2 DEF Entries, At

\* Without Reset, whatever runs beside it, no table in the cache counts a match
\* that is missing from the matches which break its ties.
THEOREM CacheRanksByItsMatches == NoReset => (ViewsSpec => []CachedRankingKnowsItsMatches)
<1> SUFFICES ASSUME NoReset PROVE ViewsSpec => []CachedRankingKnowsItsMatches
  OBVIOUS
<1>1. ViewsSpec => []LogInv
  BY LogInvAlways
<1>2. ASSUME LogInv, CacheP!ReadInv, CacheP!Past, NEW e \in cached
      PROVE  CountsOnly(At(e.rows).table, PlayedIn(At(e.played).score))
  <2>1. e.rows \in Nat /\ e.played \in Nat
    BY <1>2, BoundsTyped, WeeksTyped DEF CacheP!ReadInv, CacheP!TypeOK, CacheP!Entry
  <2>2. e.rows <= e.played /\ e.rows <= Len(log) - 1 /\ e.played <= Len(log) - 1
    BY <1>2 DEF CacheP!ReadInv, CacheP!HeadToHeadNotBehind, CacheP!Past
  <2>3. /\ e.rows + 1 \in 1 .. Len(log) /\ e.played + 1 \in 1 .. Len(log)
        /\ At(e.rows) = log[e.rows + 1] /\ At(e.played) = log[e.played + 1]
        /\ At(e.rows).table \in [Team -> TableRow]
    BY <1>2, <2>1, <2>2, EntryOf DEF LogInv
  <2>4. PlayedIn(At(e.rows).score) \subseteq PlayedIn(At(e.played).score)
    <3>1. e.rows + 1 <= e.played + 1
      BY <2>1, <2>2
    <3>2. PlayedIn(log[e.rows + 1].score) \subseteq PlayedIn(log[e.played + 1].score)
      BY <1>2, <2>3, <3>1, Zenon DEF LogInv, LogGrows
    <3> QED  BY <2>3, <3>2
  <2>5. CountsOnly(At(e.rows).table, PlayedIn(At(e.rows).score))
    BY <1>2, <2>3 DEF LogInv, LogCounts
  <2> SUFFICES ASSUME NEW t \in Team
               PROVE  At(e.rows).table[t].played
                        <= Cardinality(MatchesOf(t, PlayedIn(At(e.played).score)))
    BY DEF CountsOnly
  <2>6. PlayedIn(At(e.rows).score) \in SUBSET Match /\ PlayedIn(At(e.played).score) \in SUBSET Match
    BY DEF PlayedIn
  <2>7. At(e.rows).table[t].played \in Nat
    BY <2>3 DEF TableRow
  <2>8. At(e.rows).table[t].played <= Cardinality(MatchesOf(t, PlayedIn(At(e.rows).score)))
    BY <2>5 DEF CountsOnly
  <2> QED  BY <2>4, <2>6, <2>7, <2>8, MoreMatches, MatchesFinite
<1>3. LogInv /\ CacheP!ReadInv /\ CacheP!Past => CachedRankingKnowsItsMatches
  BY <1>2 DEF CachedRankingKnowsItsMatches
<1> QED  BY <1>1, <1>3, CacheKept, PTL

-------------------------------------------------------------------------------
(* With simulations only, the log holds tables and the results they are of. *)

LogOfResults == \A i \in 1 .. Len(log) : log[i].table = Calculate(log[i].score)

LEMMA LogOfResultsStep ==
    ASSUME LogInv, LogOfResults, StandingsMatchResults', [ViewsNext]_allVars
    PROVE  LogOfResults'
<1>1. CASE UNCHANGED log
  BY <1>1 DEF LogOfResults
<1>2. CASE log' = Append(log, [score |-> score', table |-> standings'])
  <2>1. /\ log \in Seq([score : Results, table : [Team -> TableRow]])
        /\ standings' = Calculate(score')
    BY DEF LogInv, LogTyped, StandingsMatchResults
  <2>2. /\ Len(log') = Len(log) + 1 /\ Len(log) \in Nat
        /\ log'[Len(log) + 1] = [score |-> score', table |-> standings']
        /\ \A i \in 1 .. Len(log) : log'[i] = log[i]
    BY <1>2, <2>1
  <2> SUFFICES ASSUME NEW i \in 1 .. Len(log) + 1 PROVE log'[i].table = Calculate(log'[i].score)
    BY <2>2 DEF LogOfResults
  <2>3. CASE i = Len(log) + 1
    BY <2>1, <2>2, <2>3
  <2>4. CASE i # Len(log) + 1
    <3>1. i \in 1 .. Len(log)
      BY <2>2, <2>4
    <3> QED  BY <2>2, <3>1 DEF LogOfResults
  <2> QED  BY <2>3, <2>4
<1> QED  BY <1>1, <1>2, LogSteps DEF LogInv

ViewsInv == LogInv /\ LogOfResults /\ SimulateInv
              /\ CacheP!ReadInv /\ CacheP!Past /\ CacheP!Accounted

LEMMA ViewsInvAlways == SimulateOnly => (ViewsSpec => []ViewsInv)
<1> SUFFICES ASSUME SimulateOnly PROVE ViewsSpec => []ViewsInv
  OBVIOUS
<1>1. ViewsSpec => []LogInv
  BY LogInvAlways DEF SimulateOnly, NoReset
<1>2. Spec => []SimulateInv
  BY SimulateInvAlways
<1>3. SimulateInv => StandingsMatchResults
  BY DEF SimulateInv
<1>4. LogInv /\ LogOfResults /\ StandingsMatchResults' /\ [ViewsNext]_allVars => LogOfResults'
  BY LogOfResultsStep
<1>5. ViewsInit => LogOfResults
  <2> SUFFICES ASSUME ViewsInit PROVE LogOfResults
    OBVIOUS
  <2>1. Len(log) = 1 /\ log[1] = [score |-> NoResults, table |-> ZeroTable]
    BY DEF ViewsInit, Tables0
  <2>2. PlayedIn(NoResults) = {}
    BY DEF PlayedIn, NoResults
  <2>3. ZeroTable = Calculate(NoResults)
    BY <2>2, CalculateNothing
  <2> QED  BY <2>1, <2>3 DEF LogOfResults
<1>6. ViewsSpec => []LogOfResults
  BY <1>1, <1>2, <1>3, <1>4, <1>5, BothAreImplemented, PTL DEF ViewsSpec
<1> QED  BY <1>1, <1>2, <1>6, BothAreImplemented, CacheKept, PTL DEF ViewsInv

\* With simulations only, the table that GetWeek shows under the results of a
\* week counts each of them, although the two are read apart.
THEOREM WeekTablesCount == SimulateOnly => (ViewsSpec => []WeekTableCountsItsResults)
<1> SUFFICES ASSUME SimulateOnly PROVE ViewsSpec => []WeekTableCountsItsResults
  OBVIOUS
<1>1. ViewsSpec => []ViewsInv
  BY ViewsInvAlways
<1>2. ASSUME ViewsInv, NEW r \in Reader, handler[r] = "week_answer"
      PROVE  Counts(At(seen[r].rows).table, PlayedIn(At(seen[r].fixtures).score))
  <2> DEFINE rows == seen[r].rows
             fixtures == seen[r].fixtures
  <2>1. rows \in Nat /\ fixtures \in Nat
    BY <1>2, BoundsTyped, WeeksTyped DEF ViewsInv, CacheP!ReadInv, CacheP!TypeOK, CacheP!Seen
  <2>2. fixtures <= rows /\ rows <= Len(log) - 1 /\ fixtures <= Len(log) - 1
    BY <1>2 DEF ViewsInv, CacheP!ReadInv, CacheP!InOrder, CacheP!Past
  <2> HIDE DEF rows, fixtures
  <2>3. /\ rows + 1 \in 1 .. Len(log) /\ fixtures + 1 \in 1 .. Len(log)
        /\ At(rows) = log[rows + 1] /\ At(fixtures) = log[fixtures + 1]
        /\ At(rows).score \in Results
    BY <1>2, <2>1, <2>2, EntryOf DEF ViewsInv, LogInv
  <2>4. PlayedIn(At(fixtures).score) \subseteq PlayedIn(At(rows).score)
    BY <1>2, <2>1, <2>2, <2>3 DEF ViewsInv, LogInv, LogGrows
  <2>5. At(rows).table = Calculate(At(rows).score)
    BY <1>2, <2>3 DEF ViewsInv, LogOfResults
  <2> QED  BY <2>3, <2>4, <2>5, CountsAll DEF rows, fixtures
<1>3. ViewsInv => WeekTableCountsItsResults
  BY <1>2 DEF WeekTableCountsItsResults
<1> QED  BY <1>1, <1>3, PTL

\* With simulations only, what the cache serves while no request runs is the
\* table of the committed results, unless a fill was overtaken or a handler
\* failed after a commit.
THEOREM QuietCacheIsTrue == SimulateOnly => (ViewsSpec => []QuietCacheServesResults)
<1> SUFFICES ASSUME SimulateOnly PROVE ViewsSpec => []QuietCacheServesResults
  OBVIOUS
<1>1. ViewsSpec => []ViewsInv
  BY ViewsInvAlways
<1>2. ASSUME ViewsInv, Cache!Quiet, ~excused, NEW e \in cached
      PROVE  At(e.rows).table = Calculate(score) /\ At(e.played).score = score
  <2>1. CacheP!Writing = {}
    BY <1>2, SameCache DEF CacheP!Quiet, CacheP!Writing
  <2>2. cached \subseteq {[rows |-> Len(log) - 1, played |-> Len(log) - 1]}
    BY <1>2, <2>1 DEF ViewsInv, CacheP!Accounted, CacheP!Fresh
  <2>3. e.rows = Len(log) - 1 /\ e.played = Len(log) - 1
    BY <2>2
  <2>4. Len(log) \in Nat /\ log[Len(log)] = [score |-> score, table |-> standings]
    BY <1>2 DEF ViewsInv, LogInv, LogTyped
  <2>5. At(e.rows) = log[Len(log)] /\ At(e.played) = log[Len(log)]
    BY <2>3, <2>4 DEF At
  <2>6. standings = Calculate(score)
    BY <1>2 DEF ViewsInv, SimulateInv, StandingsMatchResults
  <2> QED  BY <2>4, <2>5, <2>6
<1>3. ViewsInv => QuietCacheServesResults
  BY <1>2 DEF QuietCacheServesResults
<1> QED  BY <1>1, <1>3, PTL
===============================================================================
