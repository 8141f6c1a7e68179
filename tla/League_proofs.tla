---------------------------- MODULE League_proofs -----------------------------
(*****************************************************************************)
(* Theorems about League, for every schedule, set of requests and bound:     *)
(* its types and the rows its transactions hold; without Reset, that it      *)
(* implements AtomicSeason and locks rows in one order; and, Reset included, *)
(* that Edits and predictions work from committed data.                      *)
(*****************************************************************************)
EXTENDS League, TLAPS

-------------------------------------------------------------------------------
(* What the helpers return *)

\* Overlay of typed results with a typed batch is typed.
LEMMA OverlayType ==
    ASSUME NEW r \in Results, NEW b \in Batches
    PROVE  Overlay(r, b) \in Results
BY DEF Overlay, Results, Batches

\* Merging a request's batch into its view gives results.
LEMMA MergePlayedType ==
    ASSUME NEW r \in Locals
    PROVE  MergePlayed(r) \in Results
BY OverlayType DEF MergePlayed, Locals

\* RecordResult keeps forms sequences of results.
LEMMA RecordResultType ==
    ASSUME NEW recent \in Seq({"W", "D", "L"}), NEW x \in {"W", "D", "L"}
    PROVE  RecordResult(recent, x) \in Seq({"W", "D", "L"})
BY DEF RecordResult

\* A result is a win, a draw or a loss.
LEMMA ResultType ==
    ASSUME NEW m, NEW s, NEW t
    PROVE  ResultFromScore(m, s, t) \in {"W", "D", "L"}
BY DEF ResultFromScore

\* The forms a simulation writes are forms.
LEMMA FormAfterType ==
    ASSUME form \in Forms, NEW r \in Locals
    PROVE  FormAfter(r) \in Forms
BY RecordResultType, ResultType DEF FormAfter, Forms, Locals

\* What a DELETE of predictions misses is a sequence of sets.
LEMMA UnseenSetsType ==
    ASSUME TypeOK, NEW p, NEW w \in Week
    PROVE  UnseenSets(p, w) \in Seq(PredictionSets)
BY DEF UnseenSets, TypeOK

\* The predictions a request writes are typed, whatever table they are for.
LEMMA PredictionsAfterType ==
    ASSUME TypeOK, NEW p \in Proc, NEW table \in Tables
    PROVE  PredictionsAfter(p, table) \in [Week -> Seq(PredictionSets)]
PROOF
<1>1. CASE ~Predicts(p)
  BY <1>1 DEF PredictionsAfter, TypeOK
<1>2. CASE Predicts(p)
  <2> DEFINE w == local[p].week
             new == [table |-> table, remaining |-> local[p].remaining]
  <2>1. w \in Week
    BY <1>2, WeeksTyped, BoundsTyped DEF Predicts, TypeOK, Locals, Week
  <2>2. new \in PredictionSets
    BY DEF TypeOK, Locals, PredictionSets
  <2>3. UnseenSets(p, w) \in Seq(PredictionSets)
    BY <2>1, UnseenSetsType
  <2>4. Append(UnseenSets(p, w), new) \in Seq(PredictionSets)
    BY <2>2, <2>3
  <2> QED  BY <1>2, <2>4 DEF PredictionsAfter, TypeOK
<1> QED  BY <1>1, <1>2

\* The initial local variables are typed.
LEMMA NoLocalsType == NoLocals \in Locals
PROOF
<1>1. NoBatch \in Batches
  BY DEF NoBatch, Batches
<1>2. NoForm \in Forms /\ NoResults \in Results
  BY DEF NoForm, Forms, NoResults, Results
<1> QED  BY <1>1, <1>2, WeeksTyped DEF NoLocals, Locals

\* Locks, snapshots and control of a commit are typed.
LEMMA CommitType ==
    ASSUME TypeOK, NEW p \in Proc, NEW next \in PC, Commit(p, next)
    PROVE  /\ lock' \in [Row -> Proc \cup {NoProc}]
           /\ pc' \in [Proc -> PC]
           /\ local' \in [Proc -> Locals]
           /\ stale' \in [Proc -> SUBSET Row]
           /\ accepted' \in Nat
PROOF
<1>1. lock' \in [Row -> Proc \cup {NoProc}] /\ pc' \in [Proc -> PC] /\ accepted' \in Nat
  BY DEF Commit, Release, TypeOK
<1>2. [NoLocals EXCEPT !.all = TRUE] \in Locals
  BY NoLocalsType DEF Locals
<1>3. local' \in [Proc -> Locals]
  BY <1>2, NoLocalsType DEF Commit, TypeOK
<1>4. \A q \in Proc : Exposed(q) \subseteq Row
  BY DEF Exposed, Row
<1>5. \A q \in Proc : Missed(q, p) \subseteq Row
  BY <1>4 DEF Missed
<1>6. stale' \in [Proc -> SUBSET Row]
  BY <1>5 DEF Commit, TypeOK
<1> QED  BY <1>1, <1>3, <1>6

-------------------------------------------------------------------------------
(* Type correctness *)

\* A request that ends without a trace leaves every variable typed.
LEMMA AbortType ==
    ASSUME TypeOK, NEW p \in Proc, Abort(p)
    PROVE  TypeOK'
BY NoLocalsType DEF Abort, Release, TypeOK, tables, season, PC

\* Taking locks keeps the lock table typed.
LEMMA AcquireType ==
    ASSUME TypeOK, NEW p \in Proc, NEW rows, Acquire(p, rows)
    PROVE  lock' \in [Row -> Proc \cup {NoProc}]
BY DEF Acquire, TypeOK

\* A statement of a request keeps the tables and moves its control.
LEMMA GotoType ==
    ASSUME TypeOK, NEW p \in Proc, NEW from, NEW to \in PC, Goto(p, from, to),
           lock' \in [Row -> Proc \cup {NoProc}],
           local' \in [Proc -> Locals],
           stale' \in [Proc -> SUBSET Row]
    PROVE  TypeOK'
BY DEF Goto, TypeOK, tables, season

\* Arrivals keep the types.
LEMMA ArriveType ==
    ASSUME TypeOK, NEW p \in Proc, Arrive(p)
    PROVE  TypeOK'
PROOF
<1>1. ASSUME NEW op, NEW first \in PC, NEW r \in Locals, Accept(p, op, first, r)
      PROVE  TypeOK'
  BY <1>1 DEF Accept, TypeOK, tables, season
<1>2. [NoLocals EXCEPT !.all = TRUE] \in Locals
  BY NoLocalsType DEF Locals
<1>3. ASSUME NEW m \in Match, NEW s \in Score
      PROVE  [NoLocals EXCEPT !.gen = gen, !.batch = [x \in {m} |-> s]] \in Locals
  <2>1. [x \in {m} |-> s] \in [{m} -> Score] /\ {m} \in SUBSET Match
    OBVIOUS
  <2>2. [x \in {m} |-> s] \in Batches
    BY <2>1 DEF Batches
  <2> QED  BY <2>2, NoLocalsType DEF Locals, TypeOK
<1>4. {"read_season", "play_next", "lock_fixture", "delete_predictions"} \subseteq PC
  BY DEF PC
<1> QED
  BY <1>1, <1>2, <1>3, <1>4, NoLocalsType
     DEF Arrive, AcceptSimulate, AcceptPlayAll, AcceptEdit, AcceptReset

\* The steps of a simulation keep the types.
LEMMA SimulateType ==
    ASSUME TypeOK, NEW p \in Proc, SimulateStep(p)
    PROVE  TypeOK'
PROOF
<1> USE DEF PC, SimulateTx
<1>1. local[p] \in Locals
  BY DEF TypeOK
<1>2. ASSUME PlayNext(p) PROVE TypeOK'
  BY <1>2, AbortType, GotoType DEF PlayNext, TypeOK
<1>3. ASSUME ReadSeason(p) PROVE TypeOK'
  <2>1. CASE Abort(p)
    BY <2>1, AbortType
  <2>2. CASE ~SeasonOver /\ Goto(p, "read_season", "read_form")
             /\ local' = [local EXCEPT ![p].week = week + 1] /\ UNCHANGED <<lock, stale>>
    <3>1. week + 1 \in 0 .. TotalWeeks
      BY <2>2, WeeksTyped DEF SeasonOver, TypeOK
    <3>2. [local[p] EXCEPT !.week = week + 1] \in Locals
      BY <1>1, <3>1 DEF Locals
    <3>3. local' \in [Proc -> Locals]
      BY <2>2, <3>2 DEF TypeOK
    <3> QED  BY <2>2, <3>3, GotoType DEF TypeOK
  <2> QED  BY <1>3, <2>1, <2>2 DEF ReadSeason
<1>4. ASSUME ReadForm(p) PROVE TypeOK'
  <2>1. [local[p] EXCEPT !.forms = form] \in Locals
    BY <1>1 DEF Locals, TypeOK
  <2>2. local' \in [Proc -> Locals]
    BY <1>4, <2>1 DEF ReadForm, TypeOK
  <2> QED  BY <1>4, <2>2, GotoType DEF ReadForm, TypeOK
<1>5. ASSUME ReadFixtures(p) PROVE TypeOK'
  <2>1. [local[p] EXCEPT !.view = score, !.viewGen = gen] \in Locals
    BY <1>1 DEF Locals, TypeOK
  <2>2. local' \in [Proc -> Locals]
    BY <1>5, <2>1 DEF ReadFixtures, TypeOK
  <2> QED  BY <1>5, <2>2, GotoType DEF ReadFixtures, TypeOK
<1>6. ASSUME LockForWeek(p) PROVE TypeOK'
  <2>1. CASE Abort(p)
    BY <2>1, AbortType
  <2>2. CASE /\ Goto(p, "lock_week", "upsert_form")
             /\ Acquire(p, Needs(p))
             /\ \E results \in [UnplayedOfWeek(local[p].week) -> Score] :
                    local' = [local EXCEPT ![p].batch = results, ![p].gen = gen]
             /\ UNCHANGED stale
    <3>1. PICK results \in [UnplayedOfWeek(local[p].week) -> Score] :
              local' = [local EXCEPT ![p].batch = results, ![p].gen = gen]
      BY <2>2
    <3>2. results \in Batches
      BY DEF Batches, UnplayedOfWeek
    <3>3. [local[p] EXCEPT !.batch = results, !.gen = gen] \in Locals
      BY <1>1, <3>2 DEF Locals, TypeOK
    <3>4. local' \in [Proc -> Locals]
      BY <3>1, <3>3 DEF TypeOK
    <3> QED  BY <2>2, <3>4, AcquireType, GotoType DEF TypeOK
  <2> QED  BY <1>6, <2>1, <2>2 DEF LockForWeek
<1>7. ASSUME UpsertForm(p) PROVE TypeOK'
  BY <1>7, AcquireType, GotoType DEF UpsertForm, TypeOK
<1>8. ASSUME ReplaceStandings(p) PROVE TypeOK'
  BY <1>8, AcquireType, GotoType DEF ReplaceStandings, TypeOK
<1>9. ASSUME UpdateCurrentWeek(p) PROVE TypeOK'
  BY <1>9, AcquireType, GotoType DEF UpdateCurrentWeek, TypeOK
<1>10. ASSUME ReplacePredictions(p) PROVE TypeOK'
  <2>1. [local[p] EXCEPT !.remaining = UnplayedIn(MergePlayed(local[p]))] \in Locals
    BY <1>1 DEF Locals, UnplayedIn
  <2>2. local' \in [Proc -> Locals]
    BY <1>10, <2>1 DEF ReplacePredictions, TypeOK
  <2> QED  BY <1>10, <2>2, AcquireType, GotoType DEF ReplacePredictions, TypeOK
<1>11. ASSUME CommitWeek(p) PROVE TypeOK'
  <2>1. score' \in Results
    BY <1>1, <1>11, OverlayType DEF CommitWeek, TypeOK, Locals
  <2>2. form' \in Forms
    BY <1>1, <1>11, FormAfterType DEF CommitWeek, TypeOK
  <2>3. standings' \in Tables
    BY <1>1, <1>11, MergePlayedType DEF CommitWeek, Tables
  <2>4. predictions' \in [Week -> Seq(PredictionSets)]
    BY <1>11, <2>3, PredictionsAfterType DEF CommitWeek
  <2>5. week' \in 0 .. TotalWeeks /\ complete' \in BOOLEAN /\ gen' \in Nat
    BY <1>1, <1>11 DEF CommitWeek, TypeOK, Locals
  <2>6. PICK next \in PC : Commit(p, next)
    BY <1>11 DEF CommitWeek
  <2> QED  BY <2>1, <2>2, <2>3, <2>4, <2>5, <2>6, CommitType DEF TypeOK
<1> QED
  BY <1>2, <1>3, <1>4, <1>5, <1>6, <1>7, <1>8, <1>9, <1>10, <1>11 DEF SimulateStep

\* The steps of an Edit keep the types.
LEMMA EditType ==
    ASSUME TypeOK, NEW p \in Proc, EditStep(p)
    PROVE  TypeOK'
PROOF
<1> USE DEF PC, SimulateTx, EditTx
<1>1. local[p] \in Locals
  BY DEF TypeOK
<1>2. ASSUME LockByID(p) PROVE TypeOK'
  <2>1. CASE Abort(p)
    BY <2>1, AbortType
  <2>2. ASSUME NEW missed \in {{}, stale[p]}, Goto(p, "lock_fixture", "read_played"),
               Acquire(p, Needs(p)), stale' = [stale EXCEPT ![p] = missed], UNCHANGED local
        PROVE  TypeOK'
    <3>1. stale' \in [Proc -> SUBSET Row]
      BY <2>2 DEF TypeOK
    <3> QED  BY <2>2, <3>1, AcquireType, GotoType DEF TypeOK
  <2> QED  BY <1>2, <2>1, <2>2 DEF LockByID
<1>3. ASSUME ReadPlayed(p) PROVE TypeOK'
  <2>1. [local[p] EXCEPT !.view = score, !.viewGen = gen] \in Locals
    BY <1>1 DEF Locals, TypeOK
  <2>2. local' \in [Proc -> Locals]
    BY <1>3, <2>1 DEF ReadPlayed, TypeOK
  <2> QED  BY <1>3, <2>2, GotoType DEF ReadPlayed, TypeOK
<1>4. ASSUME EditStandings(p) PROVE TypeOK'
  BY <1>4, AbortType, AcquireType, GotoType DEF EditStandings, TypeOK
<1>5. ASSUME EditSeason(p) PROVE TypeOK'
  <2>1. [local[p] EXCEPT !.week = week] \in Locals
    BY <1>1 DEF Locals, TypeOK
  <2>2. local' \in [Proc -> Locals]
    BY <1>5, <2>1 DEF EditSeason, TypeOK
  <2> QED  BY <1>5, <2>2, GotoType DEF EditSeason, TypeOK
<1>6. ASSUME ReadRemaining(p) PROVE TypeOK'
  <2>1. [local[p] EXCEPT !.remaining = UnplayedIn(score)] \in Locals
    BY <1>1 DEF Locals, UnplayedIn
  <2>2. local' \in [Proc -> Locals]
    BY <1>6, <2>1 DEF ReadRemaining, TypeOK
  <2> QED  BY <1>6, <2>2, GotoType DEF ReadRemaining, TypeOK
<1>7. ASSUME EditPredictions(p) PROVE TypeOK'
  BY <1>7, AcquireType, GotoType DEF EditPredictions, TypeOK
<1>8. ASSUME CommitEdit(p) PROVE TypeOK'
  <2>1. score' \in Results
    BY <1>1, <1>8, OverlayType DEF CommitEdit, TypeOK, Locals
  <2>2. standings' \in Tables
    BY <1>1, <1>8 DEF CommitEdit, Tables, Locals
  <2>3. predictions' \in [Week -> Seq(PredictionSets)]
    BY <1>8, <2>2, PredictionsAfterType DEF CommitEdit
  <2> QED  BY <1>8, <2>1, <2>2, <2>3, CommitType DEF CommitEdit, TypeOK, season
<1> QED  BY <1>2, <1>3, <1>4, <1>5, <1>6, <1>7, <1>8 DEF EditStep

\* A DELETE keeps the types of locks and snapshots.
LEMMA DeleteType ==
    ASSUME TypeOK, NEW p \in Proc, NEW rows, DeleteForSeason(p, rows)
    PROVE  /\ lock' \in [Row -> Proc \cup {NoProc}]
           /\ local' \in [Proc -> Locals]
           /\ stale' \in [Proc -> SUBSET Row]
PROOF
<1>1. PICK unseen \in {{}, stale[p] \cap rows} :
          /\ Acquire(p, Needs(p) \ unseen)
          /\ stale' = [stale EXCEPT ![p] = (@ \ rows) \cup unseen]
  BY DEF DeleteForSeason
<1>2. stale[p] \subseteq Row /\ unseen \subseteq stale[p]
  BY DEF TypeOK
<1>3. stale' \in [Proc -> SUBSET Row]
  BY <1>1, <1>2 DEF TypeOK
<1>4. lock' \in [Row -> Proc \cup {NoProc}]
  BY <1>1, AcquireType
<1> QED  BY <1>3, <1>4 DEF DeleteForSeason, TypeOK

\* The steps of a Reset keep the types.
LEMMA ResetType ==
    ASSUME TypeOK, NEW p \in Proc, ResetStep(p)
    PROVE  TypeOK'
PROOF
<1> USE DEF PC, SimulateTx
<1>1. ASSUME DeletePredictions(p) PROVE TypeOK'
  BY <1>1, DeleteType, GotoType DEF DeletePredictions
<1>2. ASSUME DeleteForm(p) PROVE TypeOK'
  BY <1>2, DeleteType, GotoType DEF DeleteForm
<1>3. ASSUME DeleteStandings(p) PROVE TypeOK'
  BY <1>3, DeleteType, GotoType DEF DeleteStandings
<1>4. ASSUME DeleteFixtures(p) PROVE TypeOK'
  BY <1>4, AcquireType, GotoType DEF DeleteFixtures, TypeOK
<1>5. ASSUME ResetSeason(p) PROVE TypeOK'
  BY <1>5, AcquireType, GotoType DEF ResetSeason, TypeOK
<1>6. ASSUME CommitReset(p) PROVE TypeOK'
  <2>1. week' \in 0 .. TotalWeeks /\ gen' \in Nat
    BY <1>6, WeeksTyped DEF CommitReset, TypeOK
  <2>6. complete' \in BOOLEAN
    BY <1>6 DEF CommitReset
  <2>5. score' \in Results
    BY <1>6 DEF CommitReset, NoResults, Results
  <2>2. form' \in Forms
    BY <1>6 DEF CommitReset, TypeOK, NoForm, Forms
  <2>4. standings' \in Tables
    BY <1>6 DEF CommitReset, TypeOK, Tables
  <2>3. predictions' \in [Week -> Seq(PredictionSets)]
    BY <1>6, UnseenSetsType DEF CommitReset
  <2> QED  BY <1>6, <2>1, <2>2, <2>3, <2>4, <2>5, <2>6, CommitType DEF CommitReset, TypeOK
<1> QED  BY <1>1, <1>2, <1>3, <1>4, <1>5, <1>6 DEF ResetStep

\* The initial state is typed.
LEMMA InitialType == Init => TypeOK
PROOF
<1> SUFFICES ASSUME Init PROVE TypeOK
  OBVIOUS
<1>1. standings \in Tables /\ form \in Forms /\ score \in Results
  BY DEF Init, Tables, NoForm, Forms, NoResults, Results
<1>2. predictions \in [Week -> Seq(PredictionSets)]
  BY DEF Init, NoPredictions
<1>3. lock \in [Row -> Proc \cup {NoProc}] /\ stale \in [Proc -> SUBSET Row]
  BY DEF Init
<1>4. pc \in [Proc -> PC] /\ local \in [Proc -> Locals]
  BY NoLocalsType DEF Init, PC
<1>5. gen \in Nat /\ week \in 0 .. TotalWeeks /\ accepted \in Nat
  BY WeeksTyped DEF Init
<1>6. complete \in BOOLEAN
  BY DEF Init
<1> QED  BY <1>1, <1>2, <1>3, <1>4, <1>5, <1>6 DEF TypeOK

\* Every behaviour of League keeps every variable in its type.
THEOREM TypeCorrect == Spec => []TypeOK
PROOF
<1>2. TypeOK /\ [Next]_vars => TypeOK'
  <2> SUFFICES ASSUME TypeOK, [Next]_vars PROVE TypeOK'
    OBVIOUS
  <2>1. CASE UNCHANGED vars
    BY <2>1 DEF vars, tables, season, TypeOK
  <2>2. ASSUME NEW p \in Proc, Arrive(p) \/ Step(p) \/ Fail(p) \/ DeadlockVictim(p)
        PROVE  TypeOK'
    BY <2>2, ArriveType, SimulateType, EditType, ResetType, AbortType
       DEF Step, Fail, DeadlockVictim
  <2> QED  BY <2>1, <2>2 DEF Next
<1> QED  BY InitialType, <1>2, PTL DEF Spec

-------------------------------------------------------------------------------
(* A played fixture is not played again *)

\* Different fixtures are different rows.
LEMMA FixtureRows ==
    /\ \A m \in Match : FixtureRow(m) \in Row
    /\ \A m, n : FixtureRow(m) = FixtureRow(n) => m = n
BY DEF FixtureRow, Row

\* The batch of a request is a set of fixtures with scores.
LEMMA BatchType ==
    ASSUME TypeOK, NEW p \in Proc
    PROVE  DOMAIN local[p].batch \subseteq Match
BY DEF TypeOK, Locals, Batches

\* Taking locks takes none away from another request.
LEMMA AcquireKeeps ==
    ASSUME TypeOK, NEW p \in Proc, NEW rows, Acquire(p, rows),
           NEW r \in Row, lock[r] \in Proc
    PROVE  lock'[r] = lock[r]
BY NobodyIsNoProc DEF Acquire, Holders, TypeOK

\* Taking locks yields the locks.
LEMMA AcquireTakes ==
    ASSUME TypeOK, NEW p \in Proc, NEW rows, Acquire(p, rows), NEW r \in Row, r \in rows
    PROVE  lock'[r] = p
BY DEF Acquire, TypeOK

\* A statement of p that keeps its batch keeps the rows that are held.
LEMMA QuietHeld ==
    ASSUME TypeOK, RowsHeld, NEW p \in Proc, NEW to,
           score' = score, pc' = [pc EXCEPT ![p] = to],
           \A q \in Proc : local'[q].batch = local[q].batch,
           \A r \in Row : lock[r] \in Proc => lock'[r] = lock[r],
           to \in SimulateTx => pc[p] \in SimulateTx,
           to \in EditTx => pc[p] \in EditTx
    PROVE  RowsHeld'
PROOF
<1> SUFFICES ASSUME NEW q \in Proc, NEW m \in DOMAIN local[q].batch
             PROVE  /\ pc'[q] \in SimulateTx \cup EditTx => lock'[FixtureRow(m)] = q
                    /\ pc'[q] \in SimulateTx => score'[m] = Unplayed
  BY DEF RowsHeld
<1>1. FixtureRow(m) \in Row
  BY BatchType, FixtureRows
<1>2. /\ pc'[q] \in SimulateTx => pc[q] \in SimulateTx
      /\ pc'[q] \in EditTx => pc[q] \in EditTx
  BY DEF TypeOK
<1> QED  BY <1>1, <1>2 DEF RowsHeld

\* A request that ends, and writes no fixture another request holds, keeps
\* the rows the others hold.
LEMMA EndHeld ==
    ASSUME TypeOK, RowsHeld, NEW p \in Proc, NEW to, to \notin SimulateTx \cup EditTx,
           Release(p), pc' = [pc EXCEPT ![p] = to],
           \A q \in Proc \ {p} : local'[q] = local[q],
           \A m \in Match : lock[FixtureRow(m)] # p /\ score[m] = Unplayed => score'[m] = Unplayed
    PROVE  RowsHeld'
PROOF
<1> SUFFICES ASSUME NEW q \in Proc, q # p, NEW m \in DOMAIN local[q].batch
             PROVE  /\ pc'[q] \in SimulateTx \cup EditTx => lock'[FixtureRow(m)] = q
                    /\ pc'[q] \in SimulateTx => score'[m] = Unplayed
  BY DEF RowsHeld, TypeOK
<1>1. FixtureRow(m) \in Row /\ m \in Match
  BY BatchType, FixtureRows
<1>2. pc'[q] = pc[q]
  BY DEF TypeOK
<1> QED  BY <1>1, <1>2 DEF RowsHeld, Release

\* A rollback keeps the rows the others hold.
LEMMA AbortHeld ==
    ASSUME TypeOK, RowsHeld, NEW p \in Proc, Abort(p)
    PROVE  RowsHeld'
BY EndHeld DEF Abort, TypeOK, tables, SimulateTx, EditTx

\* An arriving request holds nothing yet.
LEMMA ArriveHeld ==
    ASSUME TypeOK, RowsHeld, NEW p \in Proc, Arrive(p)
    PROVE  RowsHeld'
PROOF
<1>0. {"read_season", "play_next", "lock_fixture", "delete_predictions"}
         \cap (SimulateTx \cup EditTx) = {}
  BY DEF SimulateTx, EditTx
<1>1. PICK op, first, r : Accept(p, op, first, r) /\ first \notin SimulateTx \cup EditTx
  <2>1. CASE AcceptSimulate(p) \/ AcceptPlayAll(p) \/ AcceptReset(p)
    BY <2>1, <1>0 DEF AcceptSimulate, AcceptPlayAll, AcceptReset
  <2>2. CASE AcceptEdit(p)
    BY <2>2, <1>0 DEF AcceptEdit
  <2> QED  BY <2>1, <2>2 DEF Arrive
<1> SUFFICES ASSUME NEW q \in Proc, NEW m \in DOMAIN local'[q].batch
             PROVE  /\ pc'[q] \in SimulateTx \cup EditTx => lock'[FixtureRow(m)] = q
                    /\ pc'[q] \in SimulateTx => score'[m] = Unplayed
  BY DEF RowsHeld
<1>2. CASE q = p
  BY <1>1, <1>2 DEF Accept, TypeOK
<1>3. CASE q # p
  BY <1>1, <1>3 DEF Accept, TypeOK, RowsHeld, tables
<1> QED  BY <1>2, <1>3

\* A commit of p leaves the fixtures alone that p does not hold.
LEMMA CommitWrites ==
    ASSUME TypeOK, RowsHeld, NEW p \in Proc, CommitWeek(p) \/ CommitEdit(p) \/ CommitReset(p),
           NEW m \in Match, lock[FixtureRow(m)] # p, score[m] = Unplayed
    PROVE  score'[m] = Unplayed
PROOF
<1>1. CASE CommitReset(p)
  BY <1>1 DEF CommitReset, NoResults
<1>2. CASE CommitWeek(p) \/ CommitEdit(p)
  <2>1. pc[p] \in SimulateTx \cup EditTx /\ score' = Overlay(score, local[p].batch)
    BY <1>2 DEF CommitWeek, CommitEdit, SimulateTx, EditTx
  <2>2. m \notin DOMAIN local[p].batch
    BY <2>1 DEF RowsHeld
  <2> QED  BY <2>1, <2>2 DEF Overlay
<1> QED  BY <1>1, <1>2

\* The commits keep the rows the others hold.
LEMMA CommitHeld ==
    ASSUME TypeOK, RowsHeld, NEW p \in Proc, CommitWeek(p) \/ CommitEdit(p) \/ CommitReset(p)
    PROVE  RowsHeld'
PROOF
<1>1. PICK next \in {"idle", "play_next"} : Commit(p, next)
  BY DEF CommitWeek, CommitEdit, CommitReset
<1>2. \A m \in Match : lock[FixtureRow(m)] # p /\ score[m] = Unplayed => score'[m] = Unplayed
  BY CommitWrites
<1>3. next \notin SimulateTx \cup EditTx
  BY DEF SimulateTx, EditTx
<1> QED  BY <1>1, <1>2, <1>3, EndHeld DEF Commit, TypeOK

\* LockForWeek locks the unplayed fixtures of its week, which it will play.
LEMMA LockForWeekHeld ==
    ASSUME TypeOK, RowsHeld, NEW p \in Proc, LockForWeek(p)
    PROVE  RowsHeld'
PROOF
<1>1. CASE Abort(p)
  BY <1>1, AbortHeld
<1>2. CASE /\ Goto(p, "lock_week", "upsert_form")
           /\ Acquire(p, Needs(p))
           /\ \E results \in [UnplayedOfWeek(local[p].week) -> Score] :
                  local' = [local EXCEPT ![p].batch = results, ![p].gen = gen]
  <2>1. PICK results \in [UnplayedOfWeek(local[p].week) -> Score] :
            local' = [local EXCEPT ![p].batch = results, ![p].gen = gen]
    BY <1>2
  <2> SUFFICES ASSUME NEW q \in Proc, NEW m \in DOMAIN local'[q].batch
               PROVE  /\ pc'[q] \in SimulateTx \cup EditTx => lock'[FixtureRow(m)] = q
                      /\ pc'[q] \in SimulateTx => score'[m] = Unplayed
    BY DEF RowsHeld
  <2>2. CASE q = p
    <3>1. m \in UnplayedOfWeek(local[p].week) /\ m \in Match
      BY <2>1, <2>2 DEF TypeOK, Locals, UnplayedOfWeek
    <3>2. FixtureRow(m) \in Needs(p) /\ FixtureRow(m) \in Row
      BY <1>2, <3>1, FixtureRows DEF Goto, Needs, SimulateNeeds, WeekRows
    <3> QED  BY <1>2, <2>2, <3>1, <3>2, AcquireTakes DEF Goto, tables, UnplayedOfWeek
  <2>3. CASE q # p
    <3>1. local'[q] = local[q] /\ pc'[q] = pc[q]
      BY <1>2, <2>1, <2>3 DEF Goto, TypeOK
    <3>2. FixtureRow(m) \in Row
      BY <3>1, BatchType, FixtureRows
    <3> QED  BY <1>2, <3>1, <3>2, AcquireKeeps DEF Goto, tables, RowsHeld
  <2> QED  BY <2>2, <2>3
<1> QED  BY <1>1, <1>2 DEF LockForWeek

\* LockByID locks the fixture it will edit.
LEMMA LockByIDHeld ==
    ASSUME TypeOK, RowsHeld, NEW p \in Proc, LockByID(p)
    PROVE  RowsHeld'
PROOF
<1>1. CASE Abort(p)
  BY <1>1, AbortHeld
<1>2. CASE /\ Goto(p, "lock_fixture", "read_played")
           /\ Acquire(p, Needs(p))
           /\ UNCHANGED local
  <2> SUFFICES ASSUME NEW q \in Proc, NEW m \in DOMAIN local[q].batch
               PROVE  /\ pc'[q] \in SimulateTx \cup EditTx => lock'[FixtureRow(m)] = q
                      /\ pc'[q] \in SimulateTx => score'[m] = Unplayed
    BY <1>2 DEF RowsHeld
  <2>1. FixtureRow(m) \in Row
    BY BatchType, FixtureRows
  <2>2. CASE q = p
    <3>1. FixtureRow(m) \in Needs(p)
      BY <1>2, <2>2 DEF Goto, Needs, EditNeeds
    <3>2. pc'[p] \notin SimulateTx
      BY <1>2 DEF Goto, TypeOK, SimulateTx
    <3> QED  BY <1>2, <2>1, <2>2, <3>1, <3>2, AcquireTakes
  <2>3. CASE q # p
    BY <1>2, <2>1, <2>3, AcquireKeeps DEF Goto, TypeOK, tables, RowsHeld
  <2> QED  BY <2>2, <2>3
<1> QED  BY <1>1, <1>2 DEF LockByID

\* Every step keeps the rows that transactions hold.
LEMMA HeldStep == TypeOK /\ RowsHeld /\ [Next]_vars => RowsHeld'
PROOF
<1> SUFFICES ASSUME TypeOK, RowsHeld, [Next]_vars PROVE RowsHeld'
  OBVIOUS
<1>1. CASE UNCHANGED vars
  BY <1>1 DEF vars, tables, RowsHeld
<1> SUFFICES ASSUME NEW p \in Proc, Arrive(p) \/ Step(p) \/ Fail(p) \/ DeadlockVictim(p)
             PROVE  RowsHeld'
  BY <1>1 DEF Next
<1>2. CASE Arrive(p) \/ Fail(p) \/ DeadlockVictim(p)
  BY <1>2, ArriveHeld, AbortHeld DEF Fail, DeadlockVictim
<1>3. ASSUME NEW rows, Acquire(p, rows)
      PROVE  \A r \in Row : lock[r] \in Proc => lock'[r] = lock[r]
  BY <1>3, AcquireKeeps
<1>4. ASSUME NEW from, NEW to, Goto(p, from, to),
             \A q \in Proc : local'[q].batch = local[q].batch,
             \A r \in Row : lock[r] \in Proc => lock'[r] = lock[r],
             to \in SimulateTx => from \in SimulateTx,
             to \in EditTx => from \in EditTx
      PROVE  RowsHeld'
  BY <1>4, QuietHeld DEF Goto, tables
<1>5. CASE SimulateStep(p)
  <2> USE DEF SimulateTx, EditTx, TypeOK
  <2>1. CASE PlayNext(p)
    <3>1. CASE Abort(p)
      BY <3>1, AbortHeld
    <3>2. CASE Goto(p, "play_next", "read_season") /\ UNCHANGED <<lock, local, stale>>
      BY <3>2, <1>4
    <3> QED  BY <2>1, <3>1, <3>2 DEF PlayNext
  <2>2. CASE ReadSeason(p)
    <3>1. CASE Abort(p)
      BY <3>1, AbortHeld
    <3>2. CASE /\ Goto(p, "read_season", "read_form")
               /\ local' = [local EXCEPT ![p].week = week + 1]
               /\ UNCHANGED <<lock, stale>>
      <4>1. \A q \in Proc : local'[q].batch = local[q].batch
        BY <3>2 DEF Locals
      <4> QED  BY <3>2, <4>1, <1>4
    <3> QED  BY <2>2, <3>1, <3>2 DEF ReadSeason
  <2>3. CASE ReadForm(p)
    <3>1. \A q \in Proc : local'[q].batch = local[q].batch
      BY <2>3 DEF ReadForm, Locals
    <3> QED  BY <2>3, <3>1, <1>4 DEF ReadForm
  <2>4. CASE ReadFixtures(p)
    <3>1. \A q \in Proc : local'[q].batch = local[q].batch
      BY <2>4 DEF ReadFixtures, Locals
    <3> QED  BY <2>4, <3>1, <1>4 DEF ReadFixtures
  <2>5. CASE LockForWeek(p)
    BY <2>5, LockForWeekHeld
  <2>6. CASE UpsertForm(p)
    BY <2>6, <1>3, <1>4 DEF UpsertForm
  <2>7. CASE ReplaceStandings(p)
    BY <2>7, <1>3, <1>4 DEF ReplaceStandings
  <2>8. CASE UpdateCurrentWeek(p)
    BY <2>8, <1>3, <1>4 DEF UpdateCurrentWeek
  <2>9. CASE ReplacePredictions(p)
    <3>1. \A q \in Proc : local'[q].batch = local[q].batch
      BY <2>9 DEF ReplacePredictions, Locals
    <3> QED  BY <2>9, <3>1, <1>3, <1>4 DEF ReplacePredictions
  <2>10. CASE CommitWeek(p)
    BY <2>10, CommitHeld
  <2> QED
    BY <1>5, <2>1, <2>2, <2>3, <2>4, <2>5, <2>6, <2>7, <2>8, <2>9, <2>10 DEF SimulateStep
<1>6. CASE EditStep(p)
  <2> USE DEF SimulateTx, EditTx, TypeOK
  <2>1. CASE LockByID(p)
    BY <2>1, LockByIDHeld
  <2>2. CASE ReadPlayed(p)
    <3>1. \A q \in Proc : local'[q].batch = local[q].batch
      BY <2>2 DEF ReadPlayed, Locals
    <3> QED  BY <2>2, <3>1, <1>4 DEF ReadPlayed
  <2>3. CASE EditStandings(p)
    <3>1. CASE Abort(p)
      BY <3>1, AbortHeld
    <3>2. CASE /\ Goto(p, "edit_standings", "edit_season")
               /\ Acquire(p, Needs(p))
               /\ UNCHANGED <<local, stale>>
      BY <3>2, <1>3, <1>4
    <3> QED  BY <2>3, <3>1, <3>2 DEF EditStandings
  <2>4. CASE EditSeason(p)
    <3>1. \A q \in Proc : local'[q].batch = local[q].batch
      BY <2>4 DEF EditSeason, Locals
    <3> QED  BY <2>4, <3>1, <1>4 DEF EditSeason
  <2>5. CASE ReadRemaining(p)
    <3>1. \A q \in Proc : local'[q].batch = local[q].batch
      BY <2>5 DEF ReadRemaining, Locals
    <3> QED  BY <2>5, <3>1, <1>4 DEF ReadRemaining
  <2>6. CASE EditPredictions(p)
    BY <2>6, <1>3, <1>4 DEF EditPredictions
  <2>7. CASE CommitEdit(p)
    BY <2>7, CommitHeld
  <2> QED  BY <1>6, <2>1, <2>2, <2>3, <2>4, <2>5, <2>6, <2>7 DEF EditStep
<1>7. CASE ResetStep(p)
  <2> USE DEF SimulateTx, EditTx, TypeOK
  <2>1. CASE DeletePredictions(p)
    BY <2>1, <1>3, <1>4 DEF DeletePredictions, DeleteForSeason
  <2>2. CASE DeleteForm(p)
    BY <2>2, <1>3, <1>4 DEF DeleteForm, DeleteForSeason
  <2>3. CASE DeleteStandings(p)
    BY <2>3, <1>3, <1>4 DEF DeleteStandings, DeleteForSeason
  <2>4. CASE DeleteFixtures(p)
    BY <2>4, <1>3, <1>4 DEF DeleteFixtures
  <2>5. CASE ResetSeason(p)
    BY <2>5, <1>3, <1>4 DEF ResetSeason
  <2>6. CASE CommitReset(p)
    BY <2>6, CommitHeld
  <2> QED  BY <1>7, <2>1, <2>2, <2>3, <2>4, <2>5, <2>6 DEF ResetStep
<1> QED  BY <1>2, <1>5, <1>6, <1>7 DEF Step

\* No transaction runs in the initial state.
LEMMA InitialHeld == Init => RowsHeld
BY DEF Init, RowsHeld, SimulateTx, EditTx

\* A transaction holds what it writes, in every behaviour of League.
THEOREM HeldAlways == Spec => []RowsHeld
BY InitialHeld, TypeCorrect, HeldStep, PTL DEF Spec

\* Whatever requests run together, a played fixture changes its score only
\* by an Edit of that fixture or a Reset.
THEOREM NeverPlayedTwice == Spec => NoDoublePlay
PROOF
<1> DEFINE A == gen' = gen =>
                   \A m \in PlayedIn(score) : score'[m] # score[m] =>
                      \E p \in Proc : CommitEdit(p) /\ m \in DOMAIN local[p].batch
<1>1. TypeOK /\ RowsHeld /\ [Next]_vars => [A]_vars
  <2> SUFFICES ASSUME TypeOK, RowsHeld, Next PROVE A
    OBVIOUS
  <2>1. PICK p \in Proc : Arrive(p) \/ Step(p) \/ Fail(p) \/ DeadlockVictim(p)
    BY DEF Next
  <2>2. CASE CommitWeek(p)
    BY <2>2 DEF CommitWeek, RowsHeld, SimulateTx, PlayedIn, Overlay
  <2>3. CASE CommitEdit(p)
    BY <2>3 DEF CommitEdit, PlayedIn, Overlay
  <2>4. CASE CommitReset(p)
    BY <2>4 DEF CommitReset, TypeOK
  <2>5. CASE UNCHANGED score
    BY <2>5
  <2>6. UNCHANGED score \/ CommitWeek(p) \/ CommitEdit(p) \/ CommitReset(p)
    BY <2>1 DEF Arrive, AcceptSimulate, AcceptPlayAll, AcceptEdit, AcceptReset, Accept,
                Step, SimulateStep, EditStep, ResetStep, Fail, DeadlockVictim, Abort, Goto,
                PlayNext, ReadSeason, ReadForm, ReadFixtures, LockForWeek, UpsertForm,
                ReplaceStandings, UpdateCurrentWeek, ReplacePredictions, LockByID,
                ReadPlayed, EditStandings, EditSeason, ReadRemaining, EditPredictions,
                DeletePredictions, DeleteForm, DeleteStandings, DeleteFixtures,
                ResetSeason, tables
  <2> QED  BY <2>2, <2>3, <2>4, <2>5, <2>6
<1>2. Spec => [][A]_vars
  BY <1>1, TypeCorrect, HeldAlways, PTL DEF Spec
<1> QED  BY <1>2 DEF NoDoublePlay

-------------------------------------------------------------------------------
(*****************************************************************************)
(* Without Reset, League implements AtomicSeason: the row locks make every   *)
(* simulation play the week after current_week, whole and alone.             *)
(*****************************************************************************)

NoReset == "reset" \notin Ops

ResetPC == {"delete_predictions", "delete_form", "delete_standings",
            "delete_fixtures", "reset_season", "commit_reset"}

NobodyResets == \A p \in Proc : pc[p] \notin ResetPC

\* An Edit writes one fixture.
EditsOne ==
    \A p \in Proc : pc[p] \in EditTx \cup {"lock_fixture"} =>
        \E m \in Match, s \in Score : local[p].batch = [x \in {m} |-> s]

\* No fixture ends Unplayed.
LEMMA ScoreNotUnplayed == Unplayed \notin Score
BY ScoresArePlayed DEF Unplayed

\* What a step may do to the fixtures, the season and the requests that are
\* not its own, by kind: a commit of a week or of an Edit, or neither.
QuietStep(p) ==
    /\ UNCHANGED <<score, week>>
    /\ \A q \in Proc \ {p} : pc'[q] = pc[q] /\ local'[q] = local[q]

\* The steps other than commits are quiet.
LEMMA QuietSteps ==
    ASSUME TypeOK, NobodyResets, NEW p \in Proc,
           Arrive(p) \/ Step(p) \/ Fail(p) \/ DeadlockVictim(p)
    PROVE  QuietStep(p) \/ CommitWeek(p) \/ CommitEdit(p)
PROOF
<1> USE DEF QuietStep, TypeOK, tables, season
<1>1. CASE Arrive(p)
  BY <1>1 DEF Arrive, AcceptSimulate, AcceptPlayAll, AcceptEdit, AcceptReset, Accept
<1>2. ASSUME Abort(p) PROVE QuietStep(p)
  BY <1>2 DEF Abort
<1>3. ASSUME NEW from, NEW to, Goto(p, from, to),
             \A q \in Proc \ {p} : local'[q] = local[q]
      PROVE  QuietStep(p)
  BY <1>3 DEF Goto
<1>4. CASE SimulateStep(p)
  <2>1. CASE PlayNext(p)
    BY <2>1, <1>2, <1>3 DEF PlayNext
  <2>2. CASE ReadSeason(p)
    BY <2>2, <1>2, <1>3 DEF ReadSeason
  <2>3. CASE ReadForm(p) \/ ReadFixtures(p)
    BY <2>3, <1>3 DEF ReadForm, ReadFixtures
  <2>4. CASE LockForWeek(p)
    BY <2>4, <1>2, <1>3 DEF LockForWeek
  <2>5. CASE UpsertForm(p) \/ ReplaceStandings(p) \/ UpdateCurrentWeek(p)
    BY <2>5, <1>3 DEF UpsertForm, ReplaceStandings, UpdateCurrentWeek
  <2>6. CASE ReplacePredictions(p)
    BY <2>6, <1>3 DEF ReplacePredictions
  <2> QED  BY <1>4, <2>1, <2>2, <2>3, <2>4, <2>5, <2>6 DEF SimulateStep
<1>5. CASE EditStep(p)
  <2>1. CASE LockByID(p)
    BY <2>1, <1>2, <1>3 DEF LockByID
  <2>2. CASE EditStandings(p)
    BY <2>2, <1>2, <1>3 DEF EditStandings
  <2>3. CASE ReadPlayed(p) \/ EditSeason(p) \/ ReadRemaining(p) \/ EditPredictions(p)
    BY <2>3, <1>3 DEF ReadPlayed, EditSeason, ReadRemaining, EditPredictions
  <2> QED  BY <1>5, <2>1, <2>2, <2>3 DEF EditStep
<1>6. CASE ResetStep(p)
  BY <1>6 DEF ResetStep, DeletePredictions, DeleteForm, DeleteStandings, DeleteFixtures,
              ResetSeason, CommitReset, Goto, NobodyResets, ResetPC
<1>7. CASE Fail(p) \/ DeadlockVictim(p)
  BY <1>7, <1>2 DEF Fail, DeadlockVictim
<1> QED  BY <1>1, <1>4, <1>5, <1>6, <1>7 DEF Step

\* The control of p itself moves only as follows.
LEMMA OwnControl ==
    ASSUME TypeOK, NoReset, NobodyResets, NEW p \in Proc,
           Arrive(p) \/ Step(p) \/ Fail(p) \/ DeadlockVictim(p)
    PROVE  pc'[p] \notin ResetPC
PROOF
<1> USE DEF ResetPC, TypeOK
<1>1. CASE Arrive(p)
  BY <1>1 DEF Arrive, AcceptSimulate, AcceptPlayAll, AcceptEdit, AcceptReset, Accept, NoReset
<1>2. ASSUME Abort(p) PROVE pc'[p] = "idle"
  BY <1>2 DEF Abort
<1>3. CASE SimulateStep(p)
  BY <1>2, <1>3 DEF SimulateStep, PlayNext, ReadSeason, ReadForm, ReadFixtures, LockForWeek,
         UpsertForm, ReplaceStandings, UpdateCurrentWeek, ReplacePredictions, CommitWeek,
         Goto, Commit
<1>4. CASE EditStep(p)
  BY <1>2, <1>4 DEF EditStep, LockByID, ReadPlayed, EditStandings, EditSeason, ReadRemaining,
         EditPredictions, CommitEdit, Goto, Commit
<1>5. CASE ResetStep(p)
  BY <1>5 DEF ResetStep, DeletePredictions, DeleteForm, DeleteStandings, DeleteFixtures,
              ResetSeason, CommitReset, Goto, NobodyResets
<1>6. CASE Fail(p) \/ DeadlockVictim(p)
  BY <1>6, <1>2 DEF Fail, DeadlockVictim
<1> QED  BY <1>1, <1>3, <1>4, <1>5, <1>6 DEF Step

\* An Edit keeps to its fixture.
LEMMA OwnEdit ==
    ASSUME TypeOK, NobodyResets, EditsOne, NEW p \in Proc,
           Arrive(p) \/ Step(p) \/ Fail(p) \/ DeadlockVictim(p),
           pc'[p] \in EditTx \cup {"lock_fixture"}
    PROVE  \E m \in Match, s \in Score : local'[p].batch = [x \in {m} |-> s]
PROOF
<1> USE DEF EditTx, TypeOK
<1>1. CASE Arrive(p)
  <2>1. PICK m \in Match, s \in Score :
            Accept(p, "edit", "lock_fixture",
                   [NoLocals EXCEPT !.gen = gen, !.batch = [x \in {m} |-> s]])
    BY <1>1 DEF Arrive, AcceptSimulate, AcceptPlayAll, AcceptEdit, AcceptReset, Accept
  <2> QED  BY <2>1 DEF Accept, NoLocals
<1>2. ~Abort(p)
  BY DEF Abort
<1>3. ~SimulateStep(p)
  BY <1>2 DEF SimulateStep, PlayNext, ReadSeason, ReadForm, ReadFixtures, LockForWeek,
         UpsertForm, ReplaceStandings, UpdateCurrentWeek, ReplacePredictions, CommitWeek,
         Goto, Commit
<1>4. ~ResetStep(p)
  BY DEF ResetStep, DeletePredictions, DeleteForm, DeleteStandings, DeleteFixtures,
         ResetSeason, CommitReset, Goto, NobodyResets, ResetPC
<1>5. CASE EditStep(p)
  <2>1. pc[p] \in EditTx \cup {"lock_fixture"}
    BY <1>2, <1>5 DEF EditStep, LockByID, ReadPlayed, EditStandings, EditSeason, ReadRemaining,
           EditPredictions, CommitEdit, Goto
  <2>2. local'[p].batch = local[p].batch
    BY <1>2, <1>5 DEF EditStep, LockByID, ReadPlayed, EditStandings, EditSeason, ReadRemaining,
           EditPredictions, CommitEdit, Commit, Locals
  <2>3. PICK m \in Match, s \in Score : local[p].batch = [x \in {m} |-> s]
    BY <2>1 DEF EditsOne
  <2> QED  BY <2>2, <2>3
<1> QED  BY <1>1, <1>2, <1>3, <1>4, <1>5 DEF Step, Fail, DeadlockVictim

-------------------------------------------------------------------------------

\* What OneWeekAtATime says of one request.
WeekOK(p) ==
    /\ local[p].week <= week + 1
    /\ pc[p] \in SimulateTx =>
          /\ local[p].week = week + 1
          /\ DOMAIN local[p].batch = UnplayedOfWeek(week + 1)
          /\ DOMAIN local[p].batch # {}

\* A statement of p that keeps its week and batch keeps WeekOK(p).
LEMMA SameWeek ==
    ASSUME TypeOK, NEW p \in Proc, WeekOK(p), NEW from, NEW to, Goto(p, from, to),
           local'[p].week = local[p].week, local'[p].batch = local[p].batch,
           to \in SimulateTx => from \in SimulateTx
    PROVE  WeekOK(p)'
BY DEF WeekOK, Goto, TypeOK, tables, season, UnplayedOfWeek

\* Locking the fixtures of its week shows a simulation that its week is next.
LEMMA LockForWeekOK ==
    ASSUME TypeOK, NoUnplayedWeekBehind, NEW p \in Proc, WeekOK(p), LockForWeek(p), ~Abort(p)
    PROVE  WeekOK(p)'
PROOF
<1>1. PICK results \in [UnplayedOfWeek(local[p].week) -> Score] :
          local' = [local EXCEPT ![p].batch = results, ![p].gen = gen]
  BY DEF LockForWeek
<1>2. local'[p].week = local[p].week /\ local'[p].batch = results
  BY <1>1 DEF TypeOK, Locals
<1>3. PICK m \in Match : WeekOf[m] = local[p].week /\ score[m] = Unplayed
  BY DEF LockForWeek, UnplayedOfWeek
<1>4. local[p].week = week + 1
  <2>1. week \in Nat /\ local[p].week \in Nat
    BY DEF TypeOK, Locals, Week
  <2>2. local[p].week <= week + 1
    BY DEF WeekOK
  <2>3. ~(local[p].week <= week)
    BY <1>3 DEF NoUnplayedWeekBehind
  <2> QED  BY <2>1, <2>2, <2>3
<1>5. week' = week /\ score' = score /\ UnplayedOfWeek(local[p].week) # {}
  BY DEF LockForWeek, Goto, tables, season
<1>6. UnplayedOfWeek(week + 1)' = UnplayedOfWeek(week + 1)
  BY <1>5 DEF UnplayedOfWeek
<1> QED  BY <1>2, <1>4, <1>5, <1>6 DEF WeekOK, TypeOK

\* The steps of p other than its commits keep WeekOK(p).
LEMMA OwnWeek ==
    ASSUME TypeOK, NoUnplayedWeekBehind, NobodyResets, NEW p \in Proc, WeekOK(p),
           Arrive(p) \/ Step(p) \/ Fail(p) \/ DeadlockVictim(p)
    PROVE  WeekOK(p)' \/ CommitWeek(p) \/ CommitEdit(p)
PROOF
<1>1. CASE Arrive(p)
  <2>1. ASSUME NEW op, NEW first, first \notin SimulateTx, NEW r, r.week = 0,
               Accept(p, op, first, r)
        PROVE  WeekOK(p)'
    BY <2>1 DEF Accept, WeekOK, TypeOK, tables, season
  <2>2. CASE AcceptSimulate(p) \/ AcceptPlayAll(p) \/ AcceptReset(p)
    BY <2>1, <2>2 DEF AcceptSimulate, AcceptPlayAll, AcceptReset, SimulateTx, NoLocals
  <2>3. CASE AcceptEdit(p)
    <3>1. PICK m \in Match, s \in Score :
              Accept(p, "edit", "lock_fixture",
                     [NoLocals EXCEPT !.gen = gen, !.batch = [x \in {m} |-> s]])
      BY <2>3 DEF AcceptEdit
    <3>2. [NoLocals EXCEPT !.gen = gen, !.batch = [x \in {m} |-> s]].week = 0
      BY DEF NoLocals
    <3>3. "lock_fixture" \notin SimulateTx
      BY DEF SimulateTx
    <3> QED  BY <2>1, <3>1, <3>2, <3>3
  <2> QED  BY <1>1, <2>2, <2>3 DEF Arrive
<1>2. ASSUME Abort(p) PROVE WeekOK(p)'
  BY <1>2 DEF Abort, WeekOK, TypeOK, tables, season, NoLocals, SimulateTx
<1>3. CASE SimulateStep(p)
  <2> USE DEF SimulateTx
  <2>1. CASE PlayNext(p)
    BY <2>1, <1>2, SameWeek DEF PlayNext
  <2>2. CASE ReadSeason(p)
    <3>1. CASE /\ Goto(p, "read_season", "read_form")
               /\ local' = [local EXCEPT ![p].week = week + 1]
      BY <3>1 DEF WeekOK, Goto, TypeOK, tables, season, Locals
    <3> QED  BY <2>2, <3>1, <1>2 DEF ReadSeason
  <2>3. CASE ReadForm(p)
    BY <2>3, SameWeek DEF ReadForm, TypeOK, Locals
  <2>4. CASE ReadFixtures(p)
    BY <2>4, SameWeek DEF ReadFixtures, TypeOK, Locals
  <2>5. CASE LockForWeek(p)
    BY <2>5, <1>2, LockForWeekOK
  <2>6. CASE UpsertForm(p) \/ ReplaceStandings(p)
    BY <2>6, SameWeek DEF UpsertForm, ReplaceStandings
  <2>7. CASE UpdateCurrentWeek(p)
    BY <2>7, SameWeek DEF UpdateCurrentWeek
  <2>8. CASE ReplacePredictions(p)
    BY <2>8, SameWeek DEF ReplacePredictions, TypeOK, Locals
  <2> QED  BY <1>3, <2>1, <2>2, <2>3, <2>4, <2>5, <2>6, <2>7, <2>8 DEF SimulateStep
<1>4. CASE EditStep(p)
  <2> USE DEF SimulateTx
  <2>1. CASE LockByID(p)
    BY <2>1, <1>2, SameWeek DEF LockByID
  <2>2. CASE ReadPlayed(p)
    BY <2>2, SameWeek DEF ReadPlayed, TypeOK, Locals
  <2>3. CASE EditStandings(p)
    BY <2>3, <1>2, SameWeek DEF EditStandings
  <2>4. CASE EditSeason(p)
    BY <2>4 DEF EditSeason, WeekOK, Goto, TypeOK, tables, season, Locals
  <2>5. CASE ReadRemaining(p)
    BY <2>5, SameWeek DEF ReadRemaining, TypeOK, Locals
  <2>6. CASE EditPredictions(p)
    BY <2>6, SameWeek DEF EditPredictions
  <2> QED  BY <1>4, <2>1, <2>2, <2>3, <2>4, <2>5, <2>6 DEF EditStep
<1>5. CASE ResetStep(p)
  BY <1>5 DEF ResetStep, DeletePredictions, DeleteForm, DeleteStandings, DeleteFixtures,
              ResetSeason, CommitReset, Goto, NobodyResets, ResetPC
<1>6. CASE Fail(p) \/ DeadlockVictim(p)
  BY <1>6, <1>2 DEF Fail, DeadlockVictim
<1> QED  BY <1>1, <1>3, <1>4, <1>5, <1>6 DEF Step

-------------------------------------------------------------------------------

WeekInv == /\ TypeOK /\ RowsHeld /\ NobodyResets /\ EditsOne
           /\ NoUnplayedWeekBehind /\ OneWeekAtATime

\* At most one simulation holds its week.
LEMMA OnlyOne ==
    ASSUME WeekInv, NEW p \in Proc, NEW q \in Proc,
           pc[p] \in SimulateTx, pc[q] \in SimulateTx
    PROVE  p = q
BY DEF WeekInv, OneWeekAtATime, RowsHeld

\* What the commit of a week does to the season.
LEMMA CommitWeekPlays ==
    ASSUME WeekInv, NEW p \in Proc, CommitWeek(p)
    PROVE  /\ week' = week + 1
           /\ UnplayedOfWeek(week + 1) # {}
           /\ local[p].batch \in [UnplayedOfWeek(week + 1) -> Score]
           /\ score' = Overlay(score, local[p].batch)
BY DEF WeekInv, OneWeekAtATime, CommitWeek, SimulateTx, TypeOK, Locals, Batches

\* The commit of a week keeps the invariant.
LEMMA CommitWeekInv ==
    ASSUME WeekInv, NEW p \in Proc, CommitWeek(p)
    PROVE  NoUnplayedWeekBehind' /\ OneWeekAtATime'
PROOF
<1>1. /\ week' = week + 1
      /\ local[p].batch \in [UnplayedOfWeek(week + 1) -> Score]
      /\ score' = Overlay(score, local[p].batch)
  BY CommitWeekPlays
<1>2. NoUnplayedWeekBehind'
  <2> SUFFICES ASSUME NEW m \in Match, WeekOf[m] <= week + 1 PROVE score'[m] # Unplayed
    BY <1>1 DEF NoUnplayedWeekBehind
  <2>1. CASE m \in UnplayedOfWeek(week + 1)
    BY <1>1, <2>1, ScoreNotUnplayed DEF Overlay
  <2>2. CASE m \notin UnplayedOfWeek(week + 1)
    BY <1>1, <2>2, WeeksTyped
       DEF Overlay, UnplayedOfWeek, WeekInv, NoUnplayedWeekBehind, TypeOK, Week
  <2> QED  BY <2>1, <2>2
<1>3. \A q \in Proc \ {p} : pc'[q] = pc[q] /\ local'[q] = local[q]
  BY DEF CommitWeek, Commit, WeekInv, TypeOK
<1>4. local'[p].week = 0 /\ pc'[p] \notin SimulateTx
  BY DEF CommitWeek, Commit, WeekInv, TypeOK, NoLocals, SimulateTx
<1>5. \A q \in Proc \ {p} : pc[q] \notin SimulateTx
  BY OnlyOne DEF CommitWeek, SimulateTx
<1> SUFFICES ASSUME NEW q \in Proc
             PROVE  local'[q].week <= week' + 1 /\ pc'[q] \notin SimulateTx
  BY <1>2 DEF OneWeekAtATime
<1>6. local[q].week <= week + 1 /\ local[q].week \in Int /\ week \in Nat
  BY WeeksTyped DEF WeekInv, OneWeekAtATime, TypeOK, Locals
<1>7. CASE q = p
  BY <1>1, <1>4, <1>6, <1>7
<1>8. CASE q # p
  BY <1>1, <1>3, <1>5, <1>6, <1>8
<1> QED  BY <1>7, <1>8

\* The commit of an Edit keeps the invariant.
LEMMA CommitEditInv ==
    ASSUME WeekInv, NEW p \in Proc, CommitEdit(p)
    PROVE  NoUnplayedWeekBehind' /\ OneWeekAtATime'
PROOF
<1>1. week' = week /\ score' = Overlay(score, local[p].batch)
  BY DEF CommitEdit, season
<1>2. \A m \in DOMAIN local[p].batch : local[p].batch[m] # Unplayed /\ lock[FixtureRow(m)] = p
  BY ScoreNotUnplayed DEF WeekInv, TypeOK, Locals, Batches, RowsHeld, CommitEdit, EditTx
<1>3. NoUnplayedWeekBehind'
  BY <1>1, <1>2 DEF NoUnplayedWeekBehind, WeekInv, Overlay
<1>4. \A q \in Proc \ {p} : pc'[q] = pc[q] /\ local'[q] = local[q]
  BY DEF CommitEdit, Commit, WeekInv, TypeOK
<1>5. local'[p].week = 0 /\ pc'[p] \notin SimulateTx
  BY DEF CommitEdit, Commit, WeekInv, TypeOK, NoLocals, SimulateTx
<1>6. ASSUME NEW q \in Proc \ {p}, pc[q] \in SimulateTx
      PROVE  UnplayedOfWeek(week + 1)' = UnplayedOfWeek(week + 1)
  <2>1. \A m \in UnplayedOfWeek(week + 1) : lock[FixtureRow(m)] = q
    BY <1>6 DEF WeekInv, OneWeekAtATime, RowsHeld
  <2>2. \A m \in UnplayedOfWeek(week + 1) : m \notin DOMAIN local[p].batch
    BY <1>2, <2>1
  <2>3. \A m \in Match : m \notin DOMAIN local[p].batch => score'[m] = score[m]
    BY <1>1 DEF Overlay
  <2>4. \A m \in Match : m \in DOMAIN local[p].batch => score'[m] # Unplayed
    BY <1>1, <1>2 DEF Overlay
  <2> QED  BY <1>1, <2>2, <2>3, <2>4 DEF UnplayedOfWeek
<1>7. OneWeekAtATime'
  BY <1>1, <1>4, <1>5, <1>6 DEF OneWeekAtATime, WeekInv, TypeOK
<1> QED  BY <1>3, <1>7

\* Every step keeps the invariant.
LEMMA WeekInvStep == NoReset /\ WeekInv /\ TypeOK' /\ RowsHeld' /\ [Next]_vars => WeekInv'
PROOF
<1> SUFFICES ASSUME NoReset, WeekInv, TypeOK', RowsHeld', [Next]_vars PROVE WeekInv'
  OBVIOUS
<1>1. CASE UNCHANGED vars
  BY <1>1 DEF vars, tables, season, WeekInv, NobodyResets, EditsOne, NoUnplayedWeekBehind,
              OneWeekAtATime, UnplayedOfWeek
<1> SUFFICES ASSUME NEW p \in Proc, Arrive(p) \/ Step(p) \/ Fail(p) \/ DeadlockVictim(p)
             PROVE  WeekInv'
  BY <1>1 DEF Next
<1>2. \A q \in Proc \ {p} : pc'[q] = pc[q]
  BY QuietSteps DEF QuietStep, CommitWeek, CommitEdit, Commit, WeekInv, TypeOK
<1>3. NobodyResets'
  BY <1>2, OwnControl DEF WeekInv, NobodyResets
<1>6. EditsOne'
  <2>1. \A q \in Proc \ {p} : local'[q] = local[q]
    BY QuietSteps DEF QuietStep, CommitWeek, CommitEdit, Commit, WeekInv, TypeOK
  <2> SUFFICES ASSUME NEW q \in Proc, pc'[q] \in EditTx \cup {"lock_fixture"}
               PROVE  \E m \in Match, s \in Score : local'[q].batch = [x \in {m} |-> s]
    BY DEF EditsOne
  <2>2. CASE q = p
    BY <2>2, OwnEdit DEF WeekInv
  <2>3. CASE q # p
    <3>1. PICK m \in Match, s \in Score : local[q].batch = [x \in {m} |-> s]
      BY <1>2, <2>3 DEF WeekInv, EditsOne
    <3> QED  BY <2>1, <2>3, <3>1
  <2> QED  BY <2>2, <2>3
<1>4. CASE CommitWeek(p) \/ CommitEdit(p)
  BY <1>3, <1>6, <1>4, CommitWeekInv, CommitEditInv DEF WeekInv
<1>5. CASE QuietStep(p) /\ ~CommitWeek(p) /\ ~CommitEdit(p)
  <2>1. WeekOK(p)
    BY DEF WeekInv, OneWeekAtATime, WeekOK
  <2>2. WeekOK(p)'
    BY <1>5, <2>1, OwnWeek DEF WeekInv
  <2>3. NoUnplayedWeekBehind'
    BY <1>5 DEF QuietStep, WeekInv, NoUnplayedWeekBehind
  <2>4. UnplayedOfWeek(week + 1)' = UnplayedOfWeek(week + 1) /\ week' = week
    BY <1>5 DEF QuietStep, UnplayedOfWeek
  <2>5. OneWeekAtATime'
    BY <1>5, <2>2, <2>4 DEF QuietStep, WeekInv, OneWeekAtATime, WeekOK
  <2> QED  BY <1>3, <1>6, <2>3, <2>5 DEF WeekInv
<1> QED  BY <1>4, <1>5, QuietSteps DEF WeekInv

\* Without Reset the invariant holds in every behaviour.
LEMMA WeekInvAlways == NoReset => (Spec => []WeekInv)
PROOF
<1> SUFFICES ASSUME NoReset PROVE Spec => []WeekInv
  OBVIOUS
<1>1. Init => WeekInv
  <2> SUFFICES ASSUME Init PROVE NobodyResets /\ EditsOne /\ NoUnplayedWeekBehind /\ OneWeekAtATime
    BY InitialType, InitialHeld DEF WeekInv
  <2>1. NobodyResets /\ EditsOne
    BY DEF Init, NobodyResets, ResetPC, EditsOne, EditTx
  <2>2. NoUnplayedWeekBehind
    BY WeeksTyped DEF Init, NoUnplayedWeekBehind, Week
  <2>3. OneWeekAtATime
    BY DEF Init, OneWeekAtATime, NoLocals, SimulateTx
  <2> QED  BY <2>1, <2>2, <2>3
<1>2. WeekInv /\ TypeOK' /\ RowsHeld' /\ [Next]_vars => WeekInv'
  BY WeekInvStep
<1> QED  BY <1>1, <1>2, TypeCorrect, HeldAlways, PTL DEF Spec

\* Without Reset no week is left behind unplayed.
THEOREM NothingLeftBehind == NoReset => (Spec => []NoUnplayedWeekBehind)
PROOF
<1> SUFFICES ASSUME NoReset PROVE Spec => []NoUnplayedWeekBehind
  OBVIOUS
<1>0. Spec => []WeekInv
  BY WeekInvAlways
<1>1. WeekInv => NoUnplayedWeekBehind
  BY DEF WeekInv
<1> QED  BY <1>0, <1>1, PTL

\* Without Reset a simulation that holds its week plays the next one whole,
\* and no other does.
THEOREM NextWeekWhole == NoReset => (Spec => []OneWeekAtATime)
PROOF
<1> SUFFICES ASSUME NoReset PROVE Spec => []OneWeekAtATime
  OBVIOUS
<1>0. Spec => []WeekInv
  BY WeekInvAlways
<1>1. WeekInv => OneWeekAtATime
  BY DEF WeekInv
<1> QED  BY <1>0, <1>1, PTL

\* Without Reset, League implements AtomicSeason.
THEOREM Implementation == NoReset => (Spec => ImplementsAtomicSeason)
PROOF
<1> SUFFICES ASSUME NoReset PROVE Spec => ImplementsAtomicSeason
  OBVIOUS
<1>0. Spec => []WeekInv
  BY WeekInvAlways
<1>1. Init => Atomic!Init
  BY DEF Init, Atomic!Init, NoResults
<1>2. WeekInv /\ [Next]_vars => [Atomic!Next]_<<week, score>>
  <2> SUFFICES ASSUME WeekInv, [Next]_vars PROVE [Atomic!Next]_<<week, score>>
    OBVIOUS
  <2>1. CASE UNCHANGED vars
    BY <2>1 DEF vars, tables, season
  <2> SUFFICES ASSUME NEW p \in Proc, Arrive(p) \/ Step(p) \/ Fail(p) \/ DeadlockVictim(p)
               PROVE  [Atomic!Next]_<<week, score>>
    BY <2>1 DEF Next
  <2>2. CASE QuietStep(p)
    BY <2>2 DEF QuietStep
  <2>3. CASE CommitWeek(p)
    <3>1. /\ week' = week + 1
          /\ UnplayedOfWeek(week + 1) # {}
          /\ local[p].batch \in [UnplayedOfWeek(week + 1) -> Score]
          /\ score' = Overlay(score, local[p].batch)
      BY <2>3, CommitWeekPlays
    <3>2. Atomic!Open(week + 1) = UnplayedOfWeek(week + 1)
      BY DEF Atomic!Open, UnplayedOfWeek
    <3>3. week < TotalWeeks
      <4>1. PICK m \in Match : WeekOf[m] = week + 1
        BY <3>1 DEF UnplayedOfWeek
      <4> QED  BY <4>1, WeeksTyped DEF Week, WeekInv, TypeOK
    <3>4. score' = [m \in Match |-> IF m \in Atomic!Open(week + 1)
                                    THEN local[p].batch[m] ELSE score[m]]
      BY <3>1, <3>2 DEF Overlay
    <3> QED  BY <3>1, <3>2, <3>3, <3>4 DEF Atomic!Next, Atomic!PlayNextWeek
  <2>4. CASE CommitEdit(p)
    <3>1. PICK m \in Match, s \in Score : local[p].batch = [x \in {m} |-> s]
      BY <2>4 DEF CommitEdit, WeekInv, EditsOne, EditTx
    <3>2. score' = [score EXCEPT ![m] = s]
      BY <2>4, <3>1 DEF CommitEdit, Overlay, WeekInv, TypeOK, Results
    <3>3. week' = week
      BY <2>4 DEF CommitEdit, season
    <3> QED  BY <3>1, <3>2, <3>3 DEF Atomic!Next, Atomic!EditMatch
  <2> QED  BY <2>2, <2>3, <2>4, QuietSteps DEF WeekInv
<1> QED  BY <1>0, <1>1, <1>2, PTL DEF Spec, ImplementsAtomicSeason, Atomic!Spec

-------------------------------------------------------------------------------
(*****************************************************************************)
(* Without Reset no requests ever wait for each other in a cycle: every      *)
(* transaction locks fixtures, then form, standings, season, predictions.    *)
(*****************************************************************************)

\* The place of a row in the order of the locks.
Rank(r) == CASE r[1] = "fixtures" -> 1
             [] r[1] = "team_form" -> 2
             [] r[1] = "standings" -> 3
             [] r[1] = "seasons" -> 4
             [] OTHER -> 5

\* The rank up to which a request may hold rows before its next statement.
HeldUpTo(c) == CASE c \in {"upsert_form", "read_played", "edit_standings"} -> 1
                 [] c = "replace_standings" -> 2
                 [] c \in {"update_season", "edit_season", "edit_remaining",
                           "edit_predictions"} -> 3
                 [] c = "replace_predictions" -> 4
                 [] c \in {"commit_week", "commit_edit"} -> 5
                 [] OTHER -> 0

\* The rank of the rows that the next statement of a request locks.
NeedRank(c) == CASE c \in {"lock_week", "lock_fixture"} -> 1
                 [] c = "upsert_form" -> 2
                 [] c \in {"replace_standings", "edit_standings"} -> 3
                 [] c = "update_season" -> 4
                 [] OTHER -> 5

InOrder(p) == \A r \in Row : lock[r] = p => Rank(r) <= HeldUpTo(pc[p])

\* An Edit replaces the predictions of a week of the season.
EditsAWeek(p) == pc[p] \in {"edit_remaining", "edit_predictions"} => local[p].week \in Week

LocksInOrder == \A p \in Proc : InOrder(p) /\ EditsAWeek(p)

\* The places of the statements.
LEMMA Order ==
    /\ \A c \in {"play_next", "read_season", "read_form", "read_fixtures", "lock_week",
                "lock_fixture"} : HeldUpTo(c) = 0
    /\ \A c \in {"upsert_form", "read_played", "edit_standings"} : HeldUpTo(c) = 1
    /\ HeldUpTo("replace_standings") = 2
    /\ \A c \in {"update_season", "edit_season", "edit_remaining", "edit_predictions"} :
            HeldUpTo(c) = 3
    /\ HeldUpTo("replace_predictions") = 4
    /\ \A c \in {"commit_week", "commit_edit"} : HeldUpTo(c) = 5
    /\ NeedRank("lock_week") = 1 /\ NeedRank("lock_fixture") = 1
    /\ NeedRank("upsert_form") = 2
    /\ NeedRank("replace_standings") = 3 /\ NeedRank("edit_standings") = 3
    /\ NeedRank("update_season") = 4
    /\ NeedRank("replace_predictions") = 5 /\ NeedRank("edit_predictions") = 5
BY DEF HeldUpTo, NeedRank

\* The ranks of the rows.
LEMMA Ranks ==
    /\ \A m \in Match : Rank(FixtureRow(m)) = 1
    /\ Rank(FormRow) = 2 /\ Rank(StandingsRow) = 3 /\ Rank(SeasonRow) = 4
    /\ \A w : Rank(PredictionRow(w)) = 5
BY DEF Rank, FixtureRow, FormRow, StandingsRow, SeasonRow, PredictionRow

\* A statement locks rows of one rank, above those its request holds.
LEMMA NeedsRanked ==
    ASSUME TypeOK, NobodyResets, NEW p \in Proc, NEW r \in Needs(p)
    PROVE  Rank(r) = NeedRank(pc[p]) /\ HeldUpTo(pc[p]) < NeedRank(pc[p])
PROOF
<1>1. ResetNeeds(p) = {}
  BY DEF ResetNeeds, NobodyResets, ResetPC
<1>2. CASE r \in SimulateNeeds(p)
  BY <1>2, Ranks DEF SimulateNeeds, NeedRank, HeldUpTo, WeekRows, UnplayedOfWeek, PredictionRowsOf
<1>3. CASE r \in EditNeeds(p)
  BY <1>3, Ranks DEF EditNeeds, NeedRank, HeldUpTo, PredictionRowsOf, TypeOK, Locals, Batches
<1> QED  BY <1>1, <1>2, <1>3 DEF Needs

\* A statement that takes no lock keeps the order.
LEMMA NoLockInOrder ==
    ASSUME TypeOK, NEW p \in Proc, InOrder(p), NEW from, NEW to, Goto(p, from, to),
           lock' = lock, HeldUpTo(from) <= HeldUpTo(to)
    PROVE  InOrder(p)'
PROOF
<1>1. pc[p] = from /\ pc'[p] = to
  BY DEF Goto, TypeOK
<1>2. HeldUpTo(from) \in Int /\ HeldUpTo(to) \in Int
  BY DEF HeldUpTo
<1>3. \A r : Rank(r) \in Int
  BY DEF Rank
<1> QED  BY <1>1, <1>2, <1>3 DEF InOrder

\* A statement that locks the rows of its rank keeps the order.
LEMMA AcquireInOrder ==
    ASSUME TypeOK, NobodyResets, NEW p \in Proc, InOrder(p), NEW from, NEW to, Goto(p, from, to),
           Acquire(p, Needs(p)), NeedRank(from) <= HeldUpTo(to)
    PROVE  InOrder(p)'
PROOF
<1>1. pc[p] = from /\ pc'[p] = to
  BY DEF Goto, TypeOK
<1>2. HeldUpTo(from) \in Int /\ HeldUpTo(to) \in Int /\ NeedRank(from) \in Int
  BY DEF HeldUpTo, NeedRank
<1> SUFFICES ASSUME NEW r \in Row, lock'[r] = p PROVE Rank(r) <= HeldUpTo(to)
  BY <1>1 DEF InOrder
<1>3. Rank(r) \in Int
  BY DEF Rank
<1>4. CASE r \in Needs(p)
  BY <1>1, <1>4, NeedsRanked
<1>5. CASE r \notin Needs(p)
  <2>1. lock[r] = p
    BY <1>5 DEF Acquire
  <2>2. Rank(r) <= HeldUpTo(from)
    BY <2>1, <1>1 DEF InOrder
  <2>3. HeldUpTo(from) <= NeedRank(from)
    BY DEF HeldUpTo, NeedRank
  <2> QED  BY <1>2, <1>3, <2>2, <2>3
<1> QED  BY <1>4, <1>5

\* The steps of p keep its own locks in order.
LEMMA OwnOrder ==
    ASSUME TypeOK, NobodyResets, NEW p \in Proc, InOrder(p),
           Arrive(p) \/ Step(p) \/ Fail(p) \/ DeadlockVictim(p)
    PROVE  InOrder(p)'
PROOF
<1>0. Release(p) => InOrder(p)'
  BY NobodyIsNoProc DEF Release, InOrder
<1>1. CASE Arrive(p)
  <2>1. PICK first \in PC : pc[p] = "idle" /\ pc'[p] = first /\ UNCHANGED lock
    BY <1>1 DEF Arrive, AcceptSimulate, AcceptPlayAll, AcceptEdit, AcceptReset, Accept, TypeOK, PC
  <2>2. HeldUpTo("idle") = 0 /\ HeldUpTo(first) \in Nat
    BY DEF HeldUpTo
  <2>3. \A r \in Row : ~(Rank(r) <= 0)
    BY DEF Rank
  <2>4. \A r \in Row : lock[r] # p
    BY <2>1, <2>2, <2>3 DEF InOrder
  <2>5. lock' = lock
    BY <2>1
  <2> QED  BY <2>4, <2>5, Zenon DEF InOrder
<1>2. Abort(p) => InOrder(p)'
  BY <1>0 DEF Abort
<1>6. ASSUME NEW from, NEW to, Goto(p, from, to), UNCHANGED lock,
             HeldUpTo(from) <= HeldUpTo(to)
      PROVE  InOrder(p)'
  BY <1>6, NoLockInOrder
<1>7. ASSUME NEW from, NEW to, Goto(p, from, to), Acquire(p, Needs(p)),
             NeedRank(from) <= HeldUpTo(to)
      PROVE  InOrder(p)'
  BY <1>7, AcquireInOrder
<1>3. CASE SimulateStep(p)
  <2> USE Order
  <2>1. PlayNext(p) => InOrder(p)'
    BY <1>2, <1>6, <1>7 DEF PlayNext
  <2>2. ReadSeason(p) => InOrder(p)'
    BY <1>2, <1>6, <1>7 DEF ReadSeason
  <2>3. ReadForm(p) \/ ReadFixtures(p) => InOrder(p)'
    BY <1>6, <1>7 DEF ReadForm, ReadFixtures
  <2>4. LockForWeek(p) => InOrder(p)'
    BY <1>2, <1>6, <1>7 DEF LockForWeek
  <2>5. UpsertForm(p) \/ ReplaceStandings(p) \/ ReplacePredictions(p) => InOrder(p)'
    BY <1>6, <1>7 DEF UpsertForm, ReplaceStandings, ReplacePredictions
  <2>6. UpdateCurrentWeek(p) => InOrder(p)'
    BY <1>6, <1>7 DEF UpdateCurrentWeek
  <2>7. CommitWeek(p) => InOrder(p)'
    BY <1>0 DEF CommitWeek, Commit
  <2> QED  BY <1>3, <2>1, <2>2, <2>3, <2>4, <2>5, <2>6, <2>7 DEF SimulateStep
<1>4. CASE EditStep(p)
  <2> USE Order
  <2>1. LockByID(p) => InOrder(p)'
    BY <1>2, <1>6, <1>7 DEF LockByID
  <2>2. EditStandings(p) => InOrder(p)'
    BY <1>2, <1>6, <1>7 DEF EditStandings
  <2>3. ReadPlayed(p) \/ ReadRemaining(p) \/ EditPredictions(p) => InOrder(p)'
    BY <1>6, <1>7 DEF ReadPlayed, ReadRemaining, EditPredictions
  <2>4. EditSeason(p) => InOrder(p)'
    BY <1>6, <1>7 DEF EditSeason
  <2>5. CommitEdit(p) => InOrder(p)'
    BY <1>0 DEF CommitEdit, Commit
  <2> QED  BY <1>4, <2>1, <2>2, <2>3, <2>4, <2>5 DEF EditStep
<1>5. ~ResetStep(p)
  BY DEF ResetStep, DeletePredictions, DeleteForm, DeleteStandings, DeleteFixtures,
         ResetSeason, CommitReset, Goto, NobodyResets, ResetPC
<1> QED  BY <1>1, <1>2, <1>3, <1>4, <1>5 DEF Step, Fail, DeadlockVictim

\* The steps of p keep its week.
LEMMA OwnEditWeek ==
    ASSUME TypeOK, NobodyResets, NEW p \in Proc, EditsAWeek(p),
           Arrive(p) \/ Step(p) \/ Fail(p) \/ DeadlockVictim(p)
    PROVE  EditsAWeek(p)'
PROOF
<1> USE DEF EditsAWeek, TypeOK
<1>1. Arrive(p) => EditsAWeek(p)'
  BY DEF Arrive, AcceptSimulate, AcceptPlayAll, AcceptEdit, AcceptReset, Accept
<1>2. Abort(p) => EditsAWeek(p)'
  BY DEF Abort
<1>3. SimulateStep(p) => EditsAWeek(p)'
  BY <1>2 DEF SimulateStep, PlayNext, ReadSeason, ReadForm, ReadFixtures, LockForWeek,
     UpsertForm, ReplaceStandings, UpdateCurrentWeek, ReplacePredictions, CommitWeek,
     Goto, Commit
<1>4. EditSeason(p) => EditsAWeek(p)'
  <2> SUFFICES ASSUME EditSeason(p), pc'[p] \in {"edit_remaining", "edit_predictions"}
               PROVE  local'[p].week \in Week
    OBVIOUS
  <2>1. ~(week < PredictionStartWeek) /\ local'[p].week = week
    BY DEF EditSeason, Goto, Locals
  <2> QED  BY <2>1, WeeksTyped, BoundsTyped DEF Week
<1>5. ReadRemaining(p) => EditsAWeek(p)'
  BY DEF ReadRemaining, Goto, Locals
<1>6. LockByID(p) \/ ReadPlayed(p) \/ EditStandings(p) \/ EditPredictions(p) \/ CommitEdit(p)
        => EditsAWeek(p)'
  BY <1>2 DEF LockByID, ReadPlayed, EditStandings, EditPredictions, CommitEdit, Goto, Commit
<1>7. ~ResetStep(p)
  BY DEF ResetStep, DeletePredictions, DeleteForm, DeleteStandings, DeleteFixtures,
         ResetSeason, CommitReset, Goto, NobodyResets, ResetPC
<1> QED  BY <1>1, <1>2, <1>3, <1>4, <1>5, <1>6, <1>7 DEF Step, EditStep, Fail, DeadlockVictim

\* No step gives rows to another request, or moves it.
LEMMA OthersLocks ==
    ASSUME TypeOK, NobodyResets, NEW p \in Proc, NEW q \in Proc \ {p},
           Arrive(p) \/ Step(p) \/ Fail(p) \/ DeadlockVictim(p)
    PROVE  /\ pc'[q] = pc[q] /\ local'[q] = local[q]
           /\ \A r \in Row : lock'[r] = q => lock[r] = q
PROOF
<1>1. pc'[q] = pc[q] /\ local'[q] = local[q]
  BY QuietSteps DEF QuietStep, CommitWeek, CommitEdit, Commit, TypeOK
<1> DEFINE Keeps == \A r \in Row : lock'[r] = q => lock[r] = q
<1>2. UNCHANGED lock => Keeps
  OBVIOUS
<1>3. \A rows : Acquire(p, rows) => Keeps
  BY DEF Acquire
<1>4. Release(p) => Keeps
  BY NobodyIsNoProc DEF Release
<1>5. Arrive(p) \/ Abort(p) => Keeps
  BY <1>2, <1>4 DEF Arrive, AcceptSimulate, AcceptPlayAll, AcceptEdit, AcceptReset, Accept, Abort
<1> HIDE DEF Keeps
<1>6. SimulateStep(p) => Keeps
  BY <1>2, <1>3, <1>4, <1>5 DEF SimulateStep, PlayNext, ReadSeason, ReadForm, ReadFixtures,
     LockForWeek, UpsertForm, ReplaceStandings, UpdateCurrentWeek, ReplacePredictions,
     CommitWeek, Commit
<1>7. EditStep(p) => Keeps
  BY <1>2, <1>3, <1>4, <1>5 DEF EditStep, LockByID, ReadPlayed, EditStandings, EditSeason,
     ReadRemaining, EditPredictions, CommitEdit, Commit
<1>8. ~ResetStep(p)
  BY DEF ResetStep, DeletePredictions, DeleteForm, DeleteStandings, DeleteFixtures,
         ResetSeason, CommitReset, Goto, NobodyResets, ResetPC
<1>9. Keeps
  BY <1>5, <1>6, <1>7, <1>8 DEF Step, Fail, DeadlockVictim
<1> QED  BY <1>1, <1>9 DEF Keeps

\* Every step keeps all locks in order.
LEMMA LocksInOrderStep ==
    WeekInv /\ WeekInv' /\ LocksInOrder /\ [Next]_vars => LocksInOrder'
PROOF
<1> SUFFICES ASSUME WeekInv, WeekInv', LocksInOrder, [Next]_vars PROVE LocksInOrder'
  OBVIOUS
<1>1. CASE UNCHANGED vars
  BY <1>1 DEF vars, LocksInOrder, InOrder, EditsAWeek
<1> SUFFICES ASSUME NEW p \in Proc, Arrive(p) \/ Step(p) \/ Fail(p) \/ DeadlockVictim(p)
             PROVE  LocksInOrder'
  BY <1>1 DEF Next
<1>2. InOrder(p)' /\ EditsAWeek(p)'
  BY OwnOrder, OwnEditWeek DEF WeekInv, LocksInOrder
<1>3. ASSUME NEW q \in Proc \ {p} PROVE InOrder(q)' /\ EditsAWeek(q)'
  BY OthersLocks DEF WeekInv, LocksInOrder, InOrder, EditsAWeek
<1> QED  BY <1>2, <1>3 DEF LocksInOrder

\* Who waits in a cycle waits for somebody whose next statement needs rows
\* further up the order.
LEMMA WaitsUpward ==
    ASSUME WeekInv, LocksInOrder, NEW S \in SUBSET Waiting, WaitCycle(S), NEW p \in S
    PROVE  \E q \in S : NeedRank(pc[p]) < NeedRank(pc[q])
PROOF
<1>1. TypeOK /\ NobodyResets /\ p \in Proc
  BY DEF WeekInv, Waiting
<1>2. PICK q \in S, r \in Needs(p) : lock[r] = q
  BY DEF WaitCycle, Holders
<1>3. q \in Proc /\ r \in Row
  <2>1. q \in Proc
    BY <1>2 DEF Waiting
  <2>2. UnplayedOfWeek(local[p].week) \subseteq Match /\ DOMAIN local[p].batch \subseteq Match
    BY <1>1 DEF UnplayedOfWeek, TypeOK, Locals, Batches
  <2>3. pc[p] \in {"replace_predictions", "edit_predictions"} => local[p].week \in Week
    <3>1. pc[p] = "replace_predictions" => local[p].week = week + 1
      BY <1>1 DEF WeekInv, OneWeekAtATime, SimulateTx
    <3> QED  BY <1>1, <3>1, WeeksTyped DEF LocksInOrder, EditsAWeek, TypeOK, Locals, Week
  <2>4. ResetNeeds(p) = {}
    BY <1>1 DEF ResetNeeds, NobodyResets, ResetPC
  <2>5. r \in SimulateNeeds(p) => r \in Row
    BY <2>2, <2>3 DEF SimulateNeeds, WeekRows, PredictionRowsOf, Row, PredictionRows
  <2>6. r \in EditNeeds(p) => r \in Row
    BY <2>2, <2>3 DEF EditNeeds, PredictionRowsOf, Row, PredictionRows
  <2> QED  BY <1>2, <2>1, <2>4, <2>5, <2>6 DEF Needs
<1>4. PICK x \in Needs(q) : TRUE
  BY <1>2 DEF Waiting, Holders
<1>5. Rank(r) = NeedRank(pc[p])
  BY <1>1, <1>2, NeedsRanked
<1>6. Rank(r) <= HeldUpTo(pc[q])
  BY <1>2, <1>3 DEF LocksInOrder, InOrder
<1>7. HeldUpTo(pc[q]) < NeedRank(pc[q])
  BY <1>1, <1>3, <1>4, NeedsRanked
<1>8. NeedRank(pc[p]) \in Int /\ NeedRank(pc[q]) \in Int /\ HeldUpTo(pc[q]) \in Int
  BY DEF NeedRank, HeldUpTo
<1> QED  BY <1>5, <1>6, <1>7, <1>8

-------------------------------------------------------------------------------

\* Nobody can be last in a cycle of waits: there are five ranks.
LEMMA OrderExcludesCycles == WeekInv /\ LocksInOrder => NoDeadlock
PROOF
<1> SUFFICES ASSUME WeekInv, LocksInOrder, NEW S \in SUBSET Waiting, WaitCycle(S) PROVE FALSE
  BY DEF NoDeadlock
<1> DEFINE Above(n) == \E p \in S : n < NeedRank(pc[p])
<1>1. \A p \in S : NeedRank(pc[p]) \in 1 .. 5
  BY DEF NeedRank
<1>2. Above(0)
  BY <1>1 DEF WaitCycle
<1>3. ASSUME NEW n \in Int, Above(n) PROVE Above(n + 1)
  <2>1. PICK p \in S : n < NeedRank(pc[p])
    BY <1>3
  <2>2. PICK q \in S : NeedRank(pc[p]) < NeedRank(pc[q])
    BY WaitsUpward
  <2> QED  BY <1>1, <2>1, <2>2
<1> HIDE DEF Above
<1>4. Above(1) /\ Above(2)
  <2>1. Above(1)
    BY <1>2, <1>3
  <2> QED  BY <2>1, <1>3
<1>5. Above(3) /\ Above(4)
  <2>1. Above(3)
    BY <1>4, <1>3
  <2> QED  BY <2>1, <1>3
<1>6. Above(5)
  BY <1>5, <1>3
<1> QED  BY <1>1, <1>6 DEF Above

\* Without Reset no set of requests ever waits for itself: the transactions of
\* simulations and Edits lock their rows in one order.
THEOREM OneLockOrder == NoReset => (Spec => []NoDeadlock)
PROOF
<1> SUFFICES ASSUME NoReset PROVE Spec => []NoDeadlock
  OBVIOUS
<1>1. Spec => []WeekInv
  BY WeekInvAlways
<1>2. Init => LocksInOrder
  BY NobodyIsNoProc DEF Init, LocksInOrder, InOrder, EditsAWeek
<1>3. WeekInv /\ WeekInv' /\ LocksInOrder /\ [Next]_vars => LocksInOrder'
  BY LocksInOrderStep
<1>4. WeekInv /\ LocksInOrder => NoDeadlock
  BY OrderExcludesCycles
<1> QED  BY <1>1, <1>2, <1>3, <1>4, PTL DEF Spec
-------------------------------------------------------------------------------
(*****************************************************************************)
(* Whatever runs beside it, Reset included, an Edit that has locked the      *)
(* standings works from committed data: what it has read through the pool    *)
(* stays true, for all who commit need the standings rows or, if they are    *)
(* Resets, the fixture that the Edit holds.                                  *)
(*****************************************************************************)

\* The places of an Edit, and of everybody, that come after the standings rows.
EditLate == {"edit_season", "edit_remaining", "edit_predictions", "commit_edit"}
AfterStandings == EditLate \cup {"update_season", "replace_predictions", "commit_week"}

ViewIsNow(p) == local[p].view = score /\ local[p].viewGen = gen

\* An Edit edits something.
HasFixture(p) == pc[p] \in HasSnapshot => DOMAIN local[p].batch # {}

HoldsStandings(p) == pc[p] \in AfterStandings => lock[StandingsRow] = p

\* A Reset has locked every fixture before it resets the season.
HoldsFixtures(p) ==
    pc[p] \in {"reset_season", "commit_reset"} => \A m \in Match : lock[FixtureRow(m)] = p

\* A commit since the Edit read the fixtures makes its snapshot stale.
ReadsOrFails(p) == pc[p] = "edit_standings" => ViewIsNow(p) \/ StandingsRow \in stale[p]

\* EditReadsCommitted, for one request, and a little more.
ReadsCommitted(p) ==
    /\ pc[p] \in EditLate => ViewIsNow(p)
    /\ pc[p] \in EditLate \ {"edit_season"} => local[p].week = week
    /\ pc[p] = "edit_predictions" => local[p].remaining = UnplayedIn(score)
    /\ pc[p] = "commit_edit" /\ Predicts(p) => local[p].remaining = UnplayedIn(score)

EditOK(p) == HasFixture(p) /\ HoldsStandings(p) /\ HoldsFixtures(p)
                 /\ ReadsOrFails(p) /\ ReadsCommitted(p)

EditInv == TypeOK /\ RowsHeld /\ \A p \in Proc : EditOK(p)

-------------------------------------------------------------------------------
(* What a step leaves alone *)

\* A step that commits nothing changes no table.
TablesKept(p) ==
    /\ UNCHANGED tables
    /\ \A q \in Proc \ {p} : stale'[q] = stale[q]

\* Every step commits or changes no table.
LEMMA CommitsOrKeeps ==
    ASSUME TypeOK, NEW p \in Proc, Arrive(p) \/ Step(p) \/ Fail(p) \/ DeadlockVictim(p)
    PROVE  TablesKept(p) \/ CommitWeek(p) \/ CommitEdit(p) \/ CommitReset(p)
PROOF
<1> USE DEF TablesKept, TypeOK
<1>1. Abort(p) => TablesKept(p)
  BY DEF Abort
<1>2. CASE Arrive(p) \/ Fail(p) \/ DeadlockVictim(p)
  BY <1>1, <1>2 DEF Arrive, AcceptSimulate, AcceptPlayAll, AcceptEdit, AcceptReset, Accept,
     Fail, DeadlockVictim
<1>3. CASE SimulateStep(p)
  BY <1>1, <1>3 DEF SimulateStep, PlayNext, ReadSeason, ReadForm, ReadFixtures, LockForWeek,
     UpsertForm, ReplaceStandings, UpdateCurrentWeek, ReplacePredictions, Goto
<1>4. CASE EditStep(p)
  BY <1>1, <1>4 DEF EditStep, LockByID, ReadPlayed, EditStandings, EditSeason, ReadRemaining,
     EditPredictions, Goto
<1>5. CASE ResetStep(p)
  BY <1>5 DEF ResetStep, DeletePredictions, DeleteForm, DeleteStandings, DeleteFixtures,
     ResetSeason, DeleteForSeason, Goto
<1> QED  BY <1>2, <1>3, <1>4, <1>5 DEF Step

\* No step moves another request or takes rows from it.
LEMMA OthersKeep ==
    ASSUME TypeOK, NEW p \in Proc, NEW q \in Proc \ {p},
           Arrive(p) \/ Step(p) \/ Fail(p) \/ DeadlockVictim(p)
    PROVE  /\ pc'[q] = pc[q] /\ local'[q] = local[q]
           /\ \A r \in Row : lock[r] = q => lock'[r] = q
PROOF
<1> DEFINE Stays == pc'[q] = pc[q] /\ local'[q] = local[q]
           Keeps == \A r \in Row : lock[r] = q => lock'[r] = q
<1>1. UNCHANGED lock => Keeps
  OBVIOUS
<1>2. \A rows : Acquire(p, rows) => Keeps
  BY AcquireKeeps
<1>3. Release(p) => Keeps
  BY DEF Release
<1>4. \A from, to : Goto(p, from, to) => pc'[q] = pc[q]
  BY DEF Goto, TypeOK
<1>5. Abort(p) => Stays /\ Keeps
  BY <1>3 DEF Abort, TypeOK
<1>6. \A next : Commit(p, next) => Stays /\ Keeps
  BY <1>3 DEF Commit, TypeOK
<1>7. Arrive(p) => Stays /\ Keeps
  BY <1>1 DEF Arrive, AcceptSimulate, AcceptPlayAll, AcceptEdit, AcceptReset, Accept, TypeOK
<1> HIDE DEF Keeps, Stays
<1>8. CASE SimulateStep(p)
  <2>1. PlayNext(p) \/ ReadSeason(p) => Stays /\ Keeps
    BY <1>1, <1>4, <1>5 DEF PlayNext, ReadSeason, Stays, TypeOK
  <2>2. ReadForm(p) \/ ReadFixtures(p) => Stays /\ Keeps
    BY <1>1, <1>4 DEF ReadForm, ReadFixtures, Stays, TypeOK
  <2>3. LockForWeek(p) => Stays /\ Keeps
    BY <1>2, <1>4, <1>5 DEF LockForWeek, Stays, TypeOK
  <2>4. UpsertForm(p) \/ ReplaceStandings(p) \/ UpdateCurrentWeek(p) => Stays /\ Keeps
    BY <1>2, <1>4 DEF UpsertForm, ReplaceStandings, UpdateCurrentWeek, Stays
  <2>5. ReplacePredictions(p) => Stays /\ Keeps
    BY <1>2, <1>4 DEF ReplacePredictions, Stays, TypeOK
  <2>6. CommitWeek(p) => Stays /\ Keeps
    BY <1>6 DEF CommitWeek
  <2> QED  BY <1>8, <2>1, <2>2, <2>3, <2>4, <2>5, <2>6 DEF SimulateStep, Stays, Keeps
<1>9. CASE EditStep(p)
  <2>1. LockByID(p) \/ EditStandings(p) => Stays /\ Keeps
    BY <1>2, <1>4, <1>5 DEF LockByID, EditStandings, Stays
  <2>2. ReadPlayed(p) \/ EditSeason(p) \/ ReadRemaining(p) => Stays /\ Keeps
    BY <1>1, <1>4 DEF ReadPlayed, EditSeason, ReadRemaining, Stays, TypeOK
  <2>3. EditPredictions(p) => Stays /\ Keeps
    BY <1>2, <1>4 DEF EditPredictions, Stays
  <2>4. CommitEdit(p) => Stays /\ Keeps
    BY <1>6 DEF CommitEdit
  <2> QED  BY <1>9, <2>1, <2>2, <2>3, <2>4 DEF EditStep, Stays, Keeps
<1>10. CASE ResetStep(p)
  <2>1. DeletePredictions(p) \/ DeleteForm(p) \/ DeleteStandings(p) => Stays /\ Keeps
    BY <1>2, <1>4 DEF DeletePredictions, DeleteForm, DeleteStandings, DeleteForSeason, Stays
  <2>2. DeleteFixtures(p) \/ ResetSeason(p) => Stays /\ Keeps
    BY <1>2, <1>4 DEF DeleteFixtures, ResetSeason, Stays
  <2>3. CommitReset(p) => Stays /\ Keeps
    BY <1>6 DEF CommitReset
  <2> QED  BY <1>10, <2>1, <2>2, <2>3 DEF ResetStep, Stays, Keeps
<1> QED  BY <1>5, <1>7, <1>8, <1>9, <1>10 DEF Step, Fail, DeadlockVictim, Keeps, Stays

-------------------------------------------------------------------------------
(* A commit meets no Edit that has locked the standings *)

\* The standings are a row.
LEMMA StandingsIsRow == StandingsRow \in Row
BY DEF Row

\* Neither a simulation nor an Edit commits under an Edit that relies on what
\* it has read; one that has not locked the standings learns of the commit.
LEMMA CommitMeetsEdit ==
    ASSUME EditInv, NEW p \in Proc, NEW q \in Proc \ {p}, CommitWeek(p) \/ CommitEdit(p)
    PROVE  /\ pc[q] \notin EditLate
           /\ pc[q] = "edit_standings" => StandingsRow \in stale'[q]
PROOF
<1>1. pc[p] \in {"commit_week", "commit_edit"}
  BY DEF CommitWeek, CommitEdit
<1>2. lock[StandingsRow] = p
  BY <1>1 DEF EditInv, EditOK, HoldsStandings, AfterStandings, EditLate
<1>3. pc[q] \notin EditLate
  BY <1>2 DEF EditInv, EditOK, HoldsStandings, AfterStandings
<1>4. ASSUME pc[q] = "edit_standings" PROVE StandingsRow \in stale'[q]
  <2>1. pc[q] \in HasSnapshot /\ Exposed(q) = Row
    BY <1>4 DEF HasSnapshot, EditTx, Exposed
  <2>2. StandingsRow \in Missed(q, p)
    BY <1>2, <2>1, StandingsIsRow DEF Missed
  <2>3. stale'[q] = stale[q] \cup Missed(q, p)
    BY DEF CommitWeek, CommitEdit, Commit, EditInv, TypeOK
  <2> QED  BY <2>2, <2>3
<1> QED  BY <1>3, <1>4

\* No Reset commits while an Edit holds its fixture.
LEMMA ResetMeetsNoEdit ==
    ASSUME EditInv, NEW p \in Proc, NEW q \in Proc \ {p}, CommitReset(p)
    PROVE  pc[q] \notin EditTx
PROOF
<1> SUFFICES ASSUME pc[q] \in EditTx PROVE FALSE
  OBVIOUS
<1>1. \A m \in Match : lock[FixtureRow(m)] = p
  BY DEF CommitReset, EditInv, EditOK, HoldsFixtures
<1>2. PICK m \in DOMAIN local[q].batch : TRUE
  BY DEF EditInv, EditOK, HasFixture, HasSnapshot
<1>3. m \in Match
  BY BatchType DEF EditInv
<1>4. lock[FixtureRow(m)] = q
  BY DEF EditInv, RowsHeld
<1> QED  BY <1>1, <1>3, <1>4

\* The steps of the others keep what an Edit relies on.
LEMMA OthersEditOK ==
    ASSUME EditInv, NEW p \in Proc, NEW q \in Proc \ {p},
           Arrive(p) \/ Step(p) \/ Fail(p) \/ DeadlockVictim(p)
    PROVE  EditOK(q)'
PROOF
<1>1. /\ pc'[q] = pc[q] /\ local'[q] = local[q]
      /\ \A r \in Row : lock[r] = q => lock'[r] = q
  BY OthersKeep DEF EditInv
<1>2. EditOK(q)
  BY DEF EditInv
<1>3. HasFixture(q)'
  BY <1>1, <1>2 DEF EditOK, HasFixture
<1>4. HoldsStandings(q)'
  BY <1>1, <1>2, StandingsIsRow DEF EditOK, HoldsStandings
<1>5. HoldsFixtures(q)'
  BY <1>1, <1>2, FixtureRows DEF EditOK, HoldsFixtures
<1>6. CASE TablesKept(p)
  <2>1. score' = score /\ gen' = gen /\ week' = week /\ stale'[q] = stale[q]
    BY <1>6 DEF TablesKept, tables, season
  <2>2. ReadsOrFails(q)' /\ ReadsCommitted(q)'
    BY <1>1, <1>2, <2>1 DEF EditOK, ReadsOrFails, ReadsCommitted, ViewIsNow, Predicts
  <2> QED  BY <1>3, <1>4, <1>5, <2>2 DEF EditOK
<1>7. CASE CommitWeek(p) \/ CommitEdit(p)
  <2>1. ReadsOrFails(q)' /\ ReadsCommitted(q)'
    BY <1>1, <1>7, CommitMeetsEdit DEF ReadsOrFails, ReadsCommitted, EditLate
  <2> QED  BY <1>3, <1>4, <1>5, <2>1 DEF EditOK
<1>8. CASE CommitReset(p)
  <2>1. ReadsOrFails(q)' /\ ReadsCommitted(q)'
    BY <1>1, <1>8, ResetMeetsNoEdit DEF ReadsOrFails, ReadsCommitted, EditLate, EditTx
  <2> QED  BY <1>3, <1>4, <1>5, <2>1 DEF EditOK
<1> QED  BY <1>6, <1>7, <1>8, CommitsOrKeeps DEF EditInv

-------------------------------------------------------------------------------
(* The steps of a request keep what it relies on *)

\* Who is about to lock fixtures or standings relies on nothing yet.
RelyingPC == HasSnapshot \cup AfterStandings \cup {"reset_season", "commit_reset"}

\* A request that is not in a transaction relies on nothing.
LEMMA OutsideEditOK ==
    ASSUME NEW p \in Proc, pc'[p] \notin RelyingPC
    PROVE  EditOK(p)'
BY DEF EditOK, HasFixture, HoldsStandings, HoldsFixtures, ReadsOrFails, ReadsCommitted,
       RelyingPC, AfterStandings, EditLate, HasSnapshot, EditTx

\* A request that ends or goes on to its next week relies on nothing.
LEMMA EndEditOK ==
    ASSUME TypeOK, NEW p \in Proc,
           Abort(p) \/ CommitWeek(p) \/ CommitEdit(p) \/ CommitReset(p)
    PROVE  EditOK(p)'
PROOF
<1>1. pc'[p] \in {"idle", "play_next"}
  BY DEF Abort, CommitWeek, CommitEdit, CommitReset, Commit, TypeOK
<1> QED  BY <1>1, OutsideEditOK DEF RelyingPC, HasSnapshot, EditTx, AfterStandings, EditLate

\* A new Edit has a fixture.
LEMMA ArriveEditOK ==
    ASSUME TypeOK, NEW p \in Proc, Arrive(p)
    PROVE  EditOK(p)'
PROOF
<1>1. CASE AcceptSimulate(p) \/ AcceptPlayAll(p) \/ AcceptReset(p)
  <2>1. pc'[p] \in {"read_season", "play_next", "delete_predictions"}
    BY <1>1 DEF AcceptSimulate, AcceptPlayAll, AcceptReset, Accept, TypeOK
  <2> QED  BY <2>1, OutsideEditOK DEF RelyingPC, HasSnapshot, EditTx, AfterStandings, EditLate
<1>2. CASE AcceptEdit(p)
  <2>1. PICK m \in Match, s \in Score :
            Accept(p, "edit", "lock_fixture",
                   [NoLocals EXCEPT !.gen = gen, !.batch = [x \in {m} |-> s]])
    BY <1>2 DEF AcceptEdit
  <2>2. pc'[p] = "lock_fixture" /\ DOMAIN local'[p].batch = {m}
    BY <2>1 DEF Accept, TypeOK, NoLocals
  <2> QED
    BY <2>2 DEF EditOK, HasFixture, HoldsStandings, HoldsFixtures, ReadsOrFails,
       ReadsCommitted, AfterStandings, EditLate
<1> QED  BY <1>1, <1>2 DEF Arrive

\* The statements of a simulation.
LEMMA SimulateEditOK ==
    ASSUME EditInv, NEW p \in Proc, SimulateStep(p)
    PROVE  EditOK(p)'
PROOF
<1> USE DEF RelyingPC, HasSnapshot, EditTx, AfterStandings, EditLate
<1>0. TypeOK /\ EditOK(p)
  BY DEF EditInv
<1>1. CASE Abort(p) \/ CommitWeek(p)
  BY <1>0, <1>1, EndEditOK
<1>2. ASSUME NEW from, NEW to, Goto(p, from, to), to \notin RelyingPC PROVE EditOK(p)'
  BY <1>0, <1>2, OutsideEditOK DEF Goto, TypeOK
<1>3. ASSUME NEW to, pc'[p] = to, to \in {"update_season", "replace_predictions", "commit_week"},
             lock'[StandingsRow] = p
      PROVE  EditOK(p)'
  BY <1>3 DEF EditOK, HasFixture, HoldsStandings, HoldsFixtures, ReadsOrFails, ReadsCommitted
<1>4. CASE PlayNext(p) \/ ReadSeason(p) \/ ReadForm(p) \/ ReadFixtures(p) \/ LockForWeek(p)
              \/ UpsertForm(p)
  BY <1>1, <1>2, <1>4 DEF PlayNext, ReadSeason, ReadForm, ReadFixtures, LockForWeek, UpsertForm
<1>5. CASE ReplaceStandings(p)
  <2>1. pc[p] = "replace_standings" /\ pc'[p] = "update_season"
    BY <1>0, <1>5 DEF ReplaceStandings, Goto, TypeOK
  <2>2. StandingsRow \in Needs(p)
    BY <2>1 DEF Needs, SimulateNeeds
  <2>3. lock'[StandingsRow] = p
    BY <1>0, <1>5, <2>2, StandingsIsRow, AcquireTakes DEF ReplaceStandings
  <2> QED  BY <2>1, <2>3, <1>3
<1>6. CASE UpdateCurrentWeek(p) \/ ReplacePredictions(p)
  <2>1. /\ pc[p] \in {"update_season", "replace_predictions"}
        /\ pc'[p] \in {"replace_predictions", "commit_week"}
    BY <1>0, <1>6 DEF UpdateCurrentWeek, ReplacePredictions, Goto, TypeOK
  <2>2. lock[StandingsRow] = p
    BY <1>0, <2>1 DEF EditOK, HoldsStandings
  <2>3. lock'[StandingsRow] = p
    BY <1>0, <1>6, <2>2, StandingsIsRow, AcquireKeeps DEF UpdateCurrentWeek, ReplacePredictions
  <2> QED  BY <2>1, <2>3, <1>3
<1> QED  BY <1>1, <1>4, <1>5, <1>6 DEF SimulateStep

\* The statements of a Reset.
LEMMA ResetEditOK ==
    ASSUME EditInv, NEW p \in Proc, ResetStep(p)
    PROVE  EditOK(p)'
PROOF
<1> USE DEF RelyingPC, HasSnapshot, EditTx, AfterStandings, EditLate
<1>0. TypeOK /\ EditOK(p)
  BY DEF EditInv
<1>1. CASE CommitReset(p)
  BY <1>0, <1>1, EndEditOK
<1>2. CASE DeletePredictions(p) \/ DeleteForm(p) \/ DeleteStandings(p)
  <2>1. pc'[p] \in {"delete_form", "delete_standings", "delete_fixtures"}
    BY <1>0, <1>2 DEF DeletePredictions, DeleteForm, DeleteStandings, Goto, TypeOK
  <2> QED  BY <2>1, OutsideEditOK
<1>3. ASSUME pc'[p] \in {"reset_season", "commit_reset"},
             \A m \in Match : lock'[FixtureRow(m)] = p
      PROVE  EditOK(p)'
  BY <1>3 DEF EditOK, HasFixture, HoldsStandings, HoldsFixtures, ReadsOrFails, ReadsCommitted
<1>4. CASE DeleteFixtures(p)
  <2>1. pc[p] = "delete_fixtures" /\ pc'[p] = "reset_season"
    BY <1>0, <1>4 DEF DeleteFixtures, Goto, TypeOK
  <2>2. \A m \in Match : FixtureRow(m) \in Needs(p)
    BY <2>1 DEF Needs, ResetNeeds
  <2>3. \A m \in Match : lock'[FixtureRow(m)] = p
    BY <1>0, <1>4, <2>2, FixtureRows, AcquireTakes DEF DeleteFixtures
  <2> QED  BY <2>1, <2>3, <1>3
<1>5. CASE ResetSeason(p)
  <2>1. pc[p] = "reset_season" /\ pc'[p] = "commit_reset"
    BY <1>0, <1>5 DEF ResetSeason, Goto, TypeOK
  <2>2. \A m \in Match : lock[FixtureRow(m)] = p
    BY <1>0, <2>1 DEF EditOK, HoldsFixtures
  <2>3. \A m \in Match : lock'[FixtureRow(m)] = p
    BY <1>0, <1>5, <2>2, FixtureRows, AcquireKeeps DEF ResetSeason
  <2> QED  BY <2>1, <2>3, <1>3
<1> QED  BY <1>1, <1>2, <1>4, <1>5 DEF ResetStep

\* The statements of an Edit: the view is that of now when the standings rows
\* are locked and the snapshot has not grown stale, and later reads, made
\* while the rows are held, are of the same state.
LEMMA EditEditOK ==
    ASSUME EditInv, NEW p \in Proc, EditStep(p)
    PROVE  EditOK(p)'
PROOF
<1> USE DEF HasSnapshot, EditTx, AfterStandings, EditLate
<1>0. TypeOK /\ EditOK(p)
  BY DEF EditInv
<1>1. CASE Abort(p) \/ CommitEdit(p)
  BY <1>0, <1>1, EndEditOK
<1>2. ASSUME pc[p] \in HasSnapshot, pc'[p] \in EditTx, local'[p].batch = local[p].batch
      PROVE  HasFixture(p)' /\ HoldsFixtures(p)'
  BY <1>0, <1>2 DEF EditOK, HasFixture, HoldsFixtures
<1>3. ASSUME pc[p] \in EditLate,
             \A r \in Row : lock[r] = p => lock'[r] = p
      PROVE  HoldsStandings(p)'
  BY <1>0, <1>3, StandingsIsRow DEF EditOK, HoldsStandings
<1>4. CASE LockByID(p) /\ ~Abort(p)
  <2>1. pc[p] = "lock_fixture" /\ pc'[p] = "read_played" /\ local' = local
    BY <1>0, <1>4 DEF LockByID, Goto, TypeOK
  <2> QED  BY <2>1, <1>2 DEF EditOK, HoldsStandings, ReadsOrFails, ReadsCommitted
<1>5. CASE ReadPlayed(p)
  <2>1. pc[p] = "read_played" /\ pc'[p] = "edit_standings" /\ UNCHANGED tables
    BY <1>0, <1>5 DEF ReadPlayed, Goto, TypeOK
  <2>2. /\ local'[p].batch = local[p].batch
        /\ local'[p].view = score /\ local'[p].viewGen = gen
    BY <1>0, <1>5 DEF ReadPlayed, TypeOK, Locals
  <2> QED
    BY <2>1, <2>2, <1>2
       DEF EditOK, HoldsStandings, ReadsOrFails, ReadsCommitted, ViewIsNow, tables
<1>6. CASE EditStandings(p) /\ ~Abort(p)
  <2>1. /\ pc[p] = "edit_standings" /\ pc'[p] = "edit_season"
        /\ UNCHANGED tables /\ local' = local /\ StandingsRow \notin stale[p]
    BY <1>0, <1>6 DEF EditStandings, Goto, TypeOK
  <2>2. lock'[StandingsRow] = p
    <3>1. StandingsRow \in Needs(p)
      BY <2>1 DEF Needs, EditNeeds
    <3> QED  BY <1>0, <1>6, <3>1, StandingsIsRow, AcquireTakes DEF EditStandings
  <2>3. ViewIsNow(p)'
    BY <1>0, <2>1 DEF EditOK, ReadsOrFails, ViewIsNow, tables
  <2> QED  BY <2>1, <2>2, <2>3, <1>2 DEF EditOK, HoldsStandings, ReadsOrFails, ReadsCommitted
<1>7. CASE EditSeason(p)
  <2>1. /\ pc[p] = "edit_season" /\ UNCHANGED tables /\ lock' = lock
        /\ \/ pc'[p] = "edit_remaining"
           \/ pc'[p] = "commit_edit" /\ week < PredictionStartWeek
    BY <1>0, <1>7 DEF EditSeason, Goto, TypeOK
  <2>2. /\ local'[p].batch = local[p].batch /\ local'[p].week = week
        /\ local'[p].view = local[p].view /\ local'[p].viewGen = local[p].viewGen
    BY <1>0, <1>7 DEF EditSeason, TypeOK, Locals
  <2>3. pc'[p] = "commit_edit" => ~Predicts(p)'
    BY <1>0, <2>1, <2>2, BoundsTyped, WeeksTyped DEF Predicts, TypeOK
  <2>4. ViewIsNow(p)'
    BY <1>0, <2>1, <2>2 DEF EditOK, ReadsCommitted, ViewIsNow, tables
  <2>5. HoldsStandings(p)'
    BY <2>1, <1>3
  <2> QED
    BY <2>1, <2>2, <2>3, <2>4, <2>5, <1>2
       DEF EditOK, ReadsOrFails, ReadsCommitted, tables, season
<1>8. CASE ReadRemaining(p)
  <2>1. /\ pc[p] = "edit_remaining" /\ pc'[p] = "edit_predictions"
        /\ UNCHANGED tables /\ lock' = lock
    BY <1>0, <1>8 DEF ReadRemaining, Goto, TypeOK
  <2>2. /\ local'[p].batch = local[p].batch /\ local'[p].week = local[p].week
        /\ local'[p].view = local[p].view /\ local'[p].viewGen = local[p].viewGen
        /\ local'[p].remaining = UnplayedIn(score)
    BY <1>0, <1>8 DEF ReadRemaining, TypeOK, Locals
  <2>3. HoldsStandings(p)'
    BY <2>1, <1>3
  <2>4. ReadsCommitted(p)' /\ ReadsOrFails(p)'
    BY <1>0, <2>1, <2>2 DEF EditOK, ReadsOrFails, ReadsCommitted, ViewIsNow, tables, season
  <2> QED  BY <2>1, <2>2, <2>3, <2>4, <1>2 DEF EditOK
<1>9. CASE EditPredictions(p)
  <2>1. /\ pc[p] = "edit_predictions" /\ pc'[p] = "commit_edit"
        /\ UNCHANGED tables /\ local' = local
    BY <1>0, <1>9 DEF EditPredictions, Goto, TypeOK
  <2>2. \A r \in Row : lock[r] = p => lock'[r] = p
    BY <1>0, <1>9, AcquireKeeps DEF EditPredictions
  <2>3. HoldsStandings(p)'
    BY <2>1, <2>2, <1>3
  <2>4. ReadsCommitted(p)' /\ ReadsOrFails(p)'
    BY <1>0, <2>1 DEF EditOK, ReadsOrFails, ReadsCommitted, ViewIsNow, tables, season
  <2> QED  BY <2>1, <2>3, <2>4, <1>2 DEF EditOK
<1> QED  BY <1>1, <1>4, <1>5, <1>6, <1>7, <1>8, <1>9 DEF EditStep

-------------------------------------------------------------------------------

\* Every step keeps what Edits rely on.
LEMMA EditInvStep == EditInv /\ TypeOK' /\ RowsHeld' /\ [Next]_vars => EditInv'
PROOF
<1> SUFFICES ASSUME EditInv, TypeOK', RowsHeld', [Next]_vars PROVE EditInv'
  OBVIOUS
<1>1. CASE UNCHANGED vars
  BY <1>1 DEF vars, tables, season, EditInv, EditOK, HasFixture, HoldsStandings,
     HoldsFixtures, ReadsOrFails, ReadsCommitted, ViewIsNow, Predicts
<1>2. ASSUME NEW p \in Proc, Arrive(p) \/ Step(p) \/ Fail(p) \/ DeadlockVictim(p)
      PROVE  EditInv'
  <2>1. EditOK(p)'
    BY <1>2, ArriveEditOK, SimulateEditOK, EditEditOK, ResetEditOK, EndEditOK
       DEF EditInv, Step, Fail, DeadlockVictim
  <2>2. \A q \in Proc \ {p} : EditOK(q)'
    BY <1>2, OthersEditOK
  <2> QED  BY <2>1, <2>2 DEF EditInv
<1> QED  BY <1>1, <1>2 DEF Next

\* Nobody edits in the initial state.
LEMMA InitialEditInv == Init /\ TypeOK /\ RowsHeld => EditInv
BY DEF Init, EditInv, EditOK, HasFixture, HoldsStandings, HoldsFixtures, ReadsOrFails,
       ReadsCommitted, HasSnapshot, EditTx, AfterStandings, EditLate

\* However simulations, Edits and Resets overlap, what an Edit has read through
\* the pool is still what is committed from when it locks the standings until
\* it ends: refreshPredictions and Calculate work on one state of the season.
THEOREM PoolReadsStayTrue == Spec => []EditReadsCommitted
PROOF
<1>1. EditInv => EditReadsCommitted
  BY DEF EditInv, EditOK, ReadsCommitted, ViewIsNow, EditReadsCommitted, EditTx, EditLate
<1> QED
  BY <1>1, InitialEditInv, EditInvStep, TypeCorrect, HeldAlways, PTL DEF Spec

-------------------------------------------------------------------------------
(* Predictions *)

\* Who can have missed predictions that others have inserted: a Reset, and an
\* Edit that will fail because it has missed the standings or its fixture, too.
PredictionsSeen(p) ==
    \A w : PredictionRow(w) \in stale[p] =>
        \/ pc[p] \in ResetPC
        \/ /\ pc[p] = "lock_fixture"
           /\ StandingsRow \in stale[p] \/ \A m \in Match : FixtureRow(m) \in stale[p]
        \/ pc[p] \in {"read_played", "edit_standings"} /\ StandingsRow \in stale[p]

PredictionInv ==
    /\ EditInv
    /\ \A p \in Proc : PredictionsSeen(p)
    /\ OnePredictionSetPerWeek
    /\ PredictionsMatchStandings

\* The tables are different rows.
LEMMA DifferentRows ==
    \A w, m : /\ PredictionRow(w) \notin {StandingsRow, FormRow, FixtureRow(m)}
              /\ FixtureRow(m) # StandingsRow
BY DEF PredictionRow, StandingsRow, FormRow, FixtureRow

\* A commit that a request cannot see at all adds nothing to what it missed.
LEMMA NothingExposed ==
    ASSUME TypeOK, NEW q \in Proc, pc[q] \notin HasSnapshot \cup ResetPC \cup {"commit_week"}
    PROVE  Exposed(q) = {}
BY DEF Exposed, ResetPC

\* What others commit under a request.
LEMMA OthersSeen ==
    ASSUME PredictionInv, NEW p \in Proc, NEW q \in Proc \ {p},
           Arrive(p) \/ Step(p) \/ Fail(p) \/ DeadlockVictim(p)
    PROVE  PredictionsSeen(q)'
PROOF
<1>1. TypeOK /\ EditInv /\ EditOK(p) /\ EditOK(q) /\ PredictionsSeen(q)
  BY DEF PredictionInv, EditInv
<1>2. pc'[q] = pc[q]
  BY <1>1, OthersKeep
<1>3. CASE TablesKept(p)
  BY <1>1, <1>2, <1>3 DEF TablesKept, PredictionsSeen
<1>4. CASE pc[q] \in ResetPC
  BY <1>2, <1>4 DEF PredictionsSeen
<1>5. ASSUME CommitWeek(p) \/ CommitEdit(p) \/ CommitReset(p)
      PROVE  stale'[q] = stale[q] \cup Missed(q, p)
  BY <1>1, <1>5 DEF CommitWeek, CommitEdit, CommitReset, Commit, TypeOK
<1>6. ASSUME CommitWeek(p) \/ CommitEdit(p) \/ CommitReset(p),
             pc[q] \notin HasSnapshot \cup ResetPC \cup {"commit_week"}
      PROVE  PredictionsSeen(q)'
  <2>1. Missed(q, p) = {}
    BY <1>1, <1>6, NothingExposed DEF Missed
  <2>2. stale'[q] = stale[q]
    BY <1>5, <1>6, <2>1
  <2> QED  BY <1>1, <1>2, <2>2 DEF PredictionsSeen
<1>7. CASE (CommitWeek(p) \/ CommitEdit(p)) /\ pc[q] \in HasSnapshot \cup {"commit_week"}
  <2>1. lock[StandingsRow] = p
    BY <1>1, <1>7 DEF CommitWeek, CommitEdit, EditOK, HoldsStandings, AfterStandings, EditLate
  <2>2. pc[q] \in HasSnapshot \ EditLate
    BY <1>1, <1>7, <2>1 DEF EditOK, HoldsStandings, AfterStandings
  <2>3. Exposed(q) = Row
    BY <2>2 DEF Exposed, HasSnapshot, EditTx, EditLate
  <2>4. StandingsRow \in stale'[q]
    BY <1>5, <1>7, <2>1, <2>2, <2>3, StandingsIsRow DEF Missed
  <2>5. pc[q] \in {"lock_fixture", "read_played", "edit_standings"}
    BY <2>2 DEF HasSnapshot, EditTx, EditLate
  <2> QED  BY <1>2, <2>4, <2>5 DEF PredictionsSeen
<1>8. CASE CommitReset(p) /\ pc[q] \in HasSnapshot
  <2>1. pc[q] = "lock_fixture"
    BY <1>1, <1>8, ResetMeetsNoEdit DEF HasSnapshot
  <2>2. Exposed(q) = Row
    BY <2>1 DEF Exposed, HasSnapshot
  <2>3. \A m \in Match : FixtureRow(m) \in Inserted(p)
    BY <1>8 DEF CommitReset, Inserted
  <2>4. \A m \in Match : FixtureRow(m) \in stale'[q]
    BY <1>5, <1>8, <2>2, <2>3, FixtureRows DEF Missed
  <2> QED  BY <1>2, <2>1, <2>4 DEF PredictionsSeen
<1>9. CASE CommitReset(p) /\ pc[q] = "commit_week"
  <2>1. pc[q] \notin HasSnapshot
    BY <1>9 DEF HasSnapshot, EditTx
  <2>2. \A w : PredictionRow(w) \notin Inserted(p)
    BY <1>9, DifferentRows DEF CommitReset, Inserted
  <2>3. \A w : PredictionRow(w) \in stale'[q] => PredictionRow(w) \in stale[q]
    BY <1>5, <1>9, <2>1, <2>2 DEF Missed
  <2> QED  BY <1>1, <1>2, <1>9, <2>3 DEF PredictionsSeen, ResetPC
<1>10. TablesKept(p) \/ CommitWeek(p) \/ CommitEdit(p) \/ CommitReset(p)
  BY <1>1, CommitsOrKeeps
<1> HIDE DEF PredictionsSeen
<1> QED  BY <1>3, <1>4, <1>6, <1>7, <1>8, <1>9, <1>10

\* A request that has missed nothing goes on having missed nothing.
LEMMA NothingMissed ==
    ASSUME NEW p \in Proc, PredictionsSeen(p), stale'[p] \in {stale[p], {}},
           pc[p] \notin ResetPC \cup {"lock_fixture", "read_played", "edit_standings"}
    PROVE  PredictionsSeen(p)'
BY DEF PredictionsSeen

\* What a request may have missed after a step of its own.
LEMMA OwnSeen ==
    ASSUME PredictionInv, NEW p \in Proc, Arrive(p) \/ Step(p) \/ Fail(p) \/ DeadlockVictim(p)
    PROVE  PredictionsSeen(p)'
PROOF
<1>1. TypeOK /\ EditOK(p) /\ PredictionsSeen(p)
  BY DEF PredictionInv, EditInv
<1>2. stale'[p] = {} => PredictionsSeen(p)'
  BY DEF PredictionsSeen
<1>3. ASSUME Abort(p) PROVE PredictionsSeen(p)'
  BY <1>1, <1>2, <1>3 DEF Abort, TypeOK
<1>4. ASSUME CommitWeek(p) \/ CommitEdit(p) \/ CommitReset(p) PROVE PredictionsSeen(p)'
  BY <1>1, <1>2, <1>4 DEF CommitWeek, CommitEdit, CommitReset, Commit, TypeOK
<1>5. CASE Arrive(p)
  <2>1. pc[p] = "idle" /\ UNCHANGED stale
    BY <1>5 DEF Arrive, AcceptSimulate, AcceptPlayAll, AcceptEdit, AcceptReset, Accept
  <2> QED  BY <1>1, <2>1, NothingMissed DEF ResetPC
<1>6. CASE SimulateStep(p) /\ ~CommitWeek(p) /\ ~Abort(p)
  <2>1. /\ UNCHANGED stale
        /\ pc[p] \in {"play_next", "read_season", "read_form", "read_fixtures", "lock_week"}
                          \cup SimulateTx
    BY <1>6 DEF SimulateStep, PlayNext, ReadSeason, ReadForm, ReadFixtures, LockForWeek,
       UpsertForm, ReplaceStandings, UpdateCurrentWeek, ReplacePredictions, Goto, SimulateTx
  <2> QED  BY <1>1, <2>1, NothingMissed DEF ResetPC, SimulateTx
<1>7. CASE LockByID(p) /\ ~Abort(p)
  <2>1. pc[p] = "lock_fixture" /\ pc'[p] = "read_played"
    BY <1>1, <1>7 DEF LockByID, Goto, TypeOK
  <2>2. PICK missed \in {{}, stale[p]} : Needs(p) \cap missed = {} /\ stale'[p] = missed
    BY <1>1, <1>7 DEF LockByID, TypeOK
  <2>3. CASE missed = {}
    BY <1>2, <2>2, <2>3
  <2>4. CASE missed = stale[p]
    <3>1. PICK m \in DOMAIN local[p].batch : TRUE
      BY <1>1, <2>1 DEF EditOK, HasFixture, HasSnapshot
    <3>2. FixtureRow(m) \in Needs(p) /\ m \in Match
      BY <1>1, <2>1, <3>1, BatchType DEF Needs, EditNeeds
    <3>3. ~\A n \in Match : FixtureRow(n) \in stale[p]
      BY <2>2, <2>4, <3>2
    <3> QED  BY <1>1, <2>1, <2>2, <2>4, <3>3 DEF PredictionsSeen, ResetPC
  <2> QED  BY <2>2, <2>3, <2>4
<1>8. CASE ReadPlayed(p)
  <2>1. pc[p] = "read_played" /\ pc'[p] = "edit_standings" /\ stale' = stale
    BY <1>1, <1>8 DEF ReadPlayed, Goto, TypeOK
  <2> QED  BY <1>1, <2>1 DEF PredictionsSeen, ResetPC
<1>9. CASE EditStandings(p) /\ ~Abort(p)
  <2>1. /\ pc[p] = "edit_standings" /\ pc'[p] = "edit_season" /\ stale' = stale
        /\ StandingsRow \notin stale[p]
    BY <1>1, <1>9 DEF EditStandings, Goto, TypeOK
  <2> QED  BY <1>1, <2>1 DEF PredictionsSeen, ResetPC
<1>10. CASE EditSeason(p) \/ ReadRemaining(p) \/ EditPredictions(p)
  <2>1. pc[p] \in EditLate /\ UNCHANGED stale
    BY <1>10 DEF EditSeason, ReadRemaining, EditPredictions, Goto, EditLate
  <2> QED  BY <1>1, <2>1, NothingMissed DEF ResetPC, EditLate
<1>11. CASE ResetStep(p) /\ ~CommitReset(p)
  <2>1. pc'[p] \in ResetPC
    BY <1>1, <1>11 DEF ResetStep, DeletePredictions, DeleteForm, DeleteStandings,
       DeleteFixtures, ResetSeason, Goto, ResetPC, TypeOK
  <2> QED  BY <2>1 DEF PredictionsSeen
<1> QED
  BY <1>3, <1>4, <1>5, <1>6, <1>7, <1>8, <1>9, <1>10, <1>11 DEF Step, EditStep, Fail, DeadlockVictim

\* A commit of a week or of an Edit stores one set of predictions for the
\* current week, made from the standings it stores, once predictions start.
LEMMA CommitPredictions ==
    ASSUME PredictionInv, NEW p \in Proc, CommitWeek(p) \/ CommitEdit(p)
    PROVE  /\ week' = local[p].week
           /\ week' < PredictionStartWeek => predictions' = predictions
           /\ week' >= PredictionStartWeek =>
                 /\ week' \in Week
                 /\ \E set : /\ set.table = standings'
                            /\ predictions' = [predictions EXCEPT ![week'] = <<set>>]
PROOF
<1>1. TypeOK /\ EditOK(p) /\ PredictionsSeen(p)
  BY DEF PredictionInv, EditInv
<1>2. pc[p] \in {"commit_week", "commit_edit"} /\ predictions' = PredictionsAfter(p, standings')
  BY DEF CommitWeek, CommitEdit
<1>3. week' = local[p].week
  BY <1>1 DEF CommitWeek, CommitEdit, season, EditOK, ReadsCommitted, EditLate
<1>4. week' \in 0 .. TotalWeeks
  BY <1>1, <1>3 DEF TypeOK, Locals
<1>5. week' < PredictionStartWeek <=> ~Predicts(p)
  BY <1>3, <1>4, WeeksTyped, BoundsTyped DEF Predicts
<1>6. week' >= PredictionStartWeek => week' \in Week
  BY <1>4, WeeksTyped, BoundsTyped DEF Week
<1>7. UnseenSets(p, week') = <<>>
  BY <1>1, <1>2 DEF PredictionsSeen, UnseenSets, ResetPC
<1>8. CASE ~Predicts(p)
  <2>1. predictions' = predictions /\ ~(week' >= PredictionStartWeek)
    BY <1>2, <1>3, <1>8 DEF PredictionsAfter, Predicts
  <2> QED  BY <1>3, <2>1
<1>9. CASE Predicts(p)
  <2> DEFINE set == [table |-> standings', remaining |-> local[p].remaining]
  <2>1. predictions' = [predictions EXCEPT ![week'] = Append(<<>>, set)]
    BY <1>2, <1>3, <1>7, <1>9 DEF PredictionsAfter
  <2>2. set.table = standings'
    OBVIOUS
  <2> HIDE DEF set
  <2>3. Append(<<>>, set) = <<set>>
    OBVIOUS
  <2> QED  BY <1>3, <1>5, <1>6, <1>9, <2>1, <2>2, <2>3
<1> QED  BY <1>8, <1>9

\* What CommitPredictions says keeps both properties of the predictions.
LEMMA OneSetStored ==
    ASSUME PredictionInv, NEW p \in Proc, CommitWeek(p) \/ CommitEdit(p)
    PROVE  OnePredictionSetPerWeek' /\ PredictionsMatchStandings'
PROOF
<1>1. predictions \in [Week -> Seq(PredictionSets)] /\ OnePredictionSetPerWeek
  BY DEF PredictionInv, EditInv, TypeOK
<1>2. week' \in Int /\ PredictionStartWeek \in Int
  <2>1. local[p].week \in 0 .. TotalWeeks
    BY DEF PredictionInv, EditInv, TypeOK, Locals
  <2> QED  BY <2>1, CommitPredictions, WeeksTyped, BoundsTyped
<1>3. CASE week' < PredictionStartWeek
  <2>1. predictions' = predictions
    BY <1>3, CommitPredictions
  <2>2. ~(week' >= PredictionStartWeek)
    BY <1>2, <1>3
  <2> QED  BY <1>1, <2>1, <2>2 DEF OnePredictionSetPerWeek, PredictionsMatchStandings
<1>4. CASE week' >= PredictionStartWeek
  <2>1. week' \in Week
    BY <1>4, CommitPredictions
  <2>2. PICK set : /\ set.table = standings'
                   /\ predictions' = [predictions EXCEPT ![week'] = <<set>>]
    BY <1>4, CommitPredictions
  <2>3. Len(<<set>>) = 1 /\ <<set>>[1] = set
    OBVIOUS
  <2>4. /\ predictions'[week'] = <<set>>
        /\ \A w \in Week \ {week'} : predictions'[w] = predictions[w]
    BY <1>1, <2>1, <2>2
  <2>5. Len(predictions'[week']) = 1 /\ predictions'[week'][1].table = standings'
    BY <2>2, <2>3, <2>4
  <2>6. OnePredictionSetPerWeek'
    <3> SUFFICES ASSUME NEW w \in Week PROVE Len(predictions'[w]) <= 1
      BY DEF OnePredictionSetPerWeek
    <3>1. CASE w = week'
      <4>1. Len(predictions'[w]) = 1
        BY <2>5, <3>1
      <4> QED  BY <4>1
    <3>2. CASE w # week'
      <4>1. Len(predictions[w]) <= 1
        BY <1>1 DEF OnePredictionSetPerWeek
      <4>2. predictions'[w] = predictions[w]
        BY <2>4, <3>2
      <4> QED  BY <4>1, <4>2
    <3> QED  BY <3>1, <3>2
  <2> QED  BY <2>5, <2>6 DEF PredictionsMatchStandings
<1> QED  BY <1>2, <1>3, <1>4

\* A Reset leaves in a week what was there, or nothing, and no current week.
LEMMA ResetPredictions ==
    ASSUME PredictionInv, NEW p \in Proc, CommitReset(p)
    PROVE  OnePredictionSetPerWeek' /\ PredictionsMatchStandings'
PROOF
<1>1. ~(week' >= PredictionStartWeek)
  BY BoundsTyped DEF CommitReset
<1>2. ASSUME NEW w \in Week PROVE Len(predictions'[w]) <= 1
  <2>1. predictions'[w] = predictions[w] \/ predictions'[w] = <<>>
    BY DEF CommitReset, UnseenSets
  <2>2. CASE predictions'[w] = predictions[w]
    <3>1. Len(predictions[w]) <= 1
      BY DEF PredictionInv, OnePredictionSetPerWeek
    <3> QED  BY <2>2, <3>1
  <2>3. CASE predictions'[w] = <<>>
    <3>1. Len(<<>>) = 0
      OBVIOUS
    <3>2. Len(predictions'[w]) = 0
      BY <2>3, <3>1, Zenon
    <3> QED  BY <3>2
  <2> QED  BY <2>1, <2>2, <2>3
<1> QED  BY <1>1, <1>2 DEF OnePredictionSetPerWeek, PredictionsMatchStandings

\* Every step keeps what is known of the predictions.
LEMMA PredictionInvStep == PredictionInv /\ EditInv' /\ [Next]_vars => PredictionInv'
PROOF
<1> SUFFICES ASSUME PredictionInv, EditInv', [Next]_vars PROVE PredictionInv'
  OBVIOUS
<1> USE DEF OnePredictionSetPerWeek, PredictionsMatchStandings
<1>1. CASE UNCHANGED vars
  BY <1>1 DEF vars, tables, season, PredictionInv, PredictionsSeen
<1>2. ASSUME NEW p \in Proc, Arrive(p) \/ Step(p) \/ Fail(p) \/ DeadlockVictim(p)
      PROVE  PredictionInv'
  <2>1. \A q \in Proc : PredictionsSeen(q)'
    BY <1>2, OwnSeen, OthersSeen
  <2>2. TypeOK
    BY DEF PredictionInv, EditInv
  <2>3. OnePredictionSetPerWeek' /\ PredictionsMatchStandings'
    <3>1. CASE TablesKept(p)
      BY <3>1 DEF PredictionInv, TablesKept, tables, season
    <3>2. CASE CommitWeek(p) \/ CommitEdit(p) \/ CommitReset(p)
      BY <3>2, OneSetStored, ResetPredictions
    <3> QED  BY <1>2, <2>2, <3>1, <3>2, CommitsOrKeeps
  <2> QED  BY <2>1, <2>3 DEF PredictionInv
<1> QED  BY <1>1, <1>2 DEF Next

LEMMA InitialPredictionInv == Init /\ EditInv => PredictionInv
PROOF
<1> SUFFICES ASSUME Init, EditInv PROVE PredictionInv
  OBVIOUS
<1>1. Len(<<>>) = 0
  OBVIOUS
<1>2. OnePredictionSetPerWeek
  BY <1>1 DEF Init, NoPredictions, OnePredictionSetPerWeek
<1>3. PredictionsMatchStandings
  BY BoundsTyped DEF Init, PredictionsMatchStandings
<1>4. \A p \in Proc : PredictionsSeen(p)
  BY DEF Init, PredictionsSeen
<1> QED  BY <1>2, <1>3, <1>4 DEF PredictionInv

\* However simulations, Edits and Resets overlap.
LEMMA PredictionInvAlways == Spec => []PredictionInv
BY InitialEditInv, EditInvStep, InitialPredictionInv, PredictionInvStep, TypeCorrect,
   HeldAlways, PTL DEF Spec

\* No overlap of DeleteForWeek and BulkInsert of different requests leaves two
\* sets of predictions for a week.
THEOREM NoPredictionsDoubled == Spec => []OnePredictionSetPerWeek
PROOF
<1>1. PredictionInv => OnePredictionSetPerWeek
  BY DEF PredictionInv
<1> QED  BY <1>1, PredictionInvAlways, PTL

\* Whoever wrote last, the predictions of the current week were made from the
\* standings that are stored.
THEOREM PredictionsFollowStandings == Spec => []PredictionsMatchStandings
PROOF
<1>1. PredictionInv => PredictionsMatchStandings
  BY DEF PredictionInv
<1> QED  BY <1>1, PredictionInvAlways, PTL

-------------------------------------------------------------------------------
(* The latest predictions *)

\* Without Reset no week after the current one has predictions.
NothingAhead == \A w \in Week : w > week => predictions[w] = <<>>

\* A commit moves the week forward, if at all, and stores no predictions ahead.
LEMMA NothingAheadStep ==
    WeekInv /\ NoReset /\ PredictionInv /\ NothingAhead /\ [Next]_vars => NothingAhead'
PROOF
<1> SUFFICES ASSUME WeekInv, PredictionInv, NothingAhead, [Next]_vars PROVE NothingAhead'
  OBVIOUS
<1>1. CASE UNCHANGED vars
  BY <1>1 DEF vars, tables, season, NothingAhead
<1>2. ASSUME NEW p \in Proc, Arrive(p) \/ Step(p) \/ Fail(p) \/ DeadlockVictim(p)
      PROVE  NothingAhead'
  <2>1. TypeOK
    BY DEF WeekInv
  <2>2. CASE TablesKept(p)
    BY <2>2 DEF TablesKept, tables, season, NothingAhead
  <2>3. CASE CommitWeek(p) \/ CommitEdit(p)
    <3>1. week' \in {week, week + 1} /\ week \in Int
      BY <2>1, <2>3, CommitWeekPlays DEF CommitEdit, season, TypeOK
    <3>2. \A w \in Week \ {week'} : predictions'[w] = predictions[w]
      <4>1. predictions \in [Week -> Seq(PredictionSets)]
        BY <2>1 DEF TypeOK
      <4>2. week' < PredictionStartWeek \/ week' >= PredictionStartWeek
        BY <3>1, BoundsTyped
      <4> QED  BY <2>3, <4>1, <4>2, CommitPredictions
    <3>3. \A w \in Week : w \in Int
      BY WeeksTyped DEF Week
    <3>4. ASSUME NEW w \in Week, w > week' PROVE predictions'[w] = <<>>
      <4>1. w > week /\ w # week'
        BY <3>1, <3>3, <3>4
      <4> QED  BY <3>2, <4>1 DEF NothingAhead
    <3> QED  BY <3>4 DEF NothingAhead
  <2>4. ~CommitReset(p)
    BY DEF CommitReset, WeekInv, NobodyResets, ResetPC
  <2> QED  BY <1>2, <2>1, <2>2, <2>3, <2>4, CommitsOrKeeps
<1> QED  BY <1>1, <1>2 DEF Next

\* Without Reset "the most recent set of predictions" is the one made from the
\* stored standings, although every request names the week of its set itself.
THEOREM LatestIsCurrent == NoReset => (Spec => []LatestPredictionsMatchStandings)
PROOF
<1> SUFFICES ASSUME NoReset PROVE Spec => []LatestPredictionsMatchStandings
  OBVIOUS
<1>0. Spec => []WeekInv
  BY WeekInvAlways
<1>1. Init => NothingAhead
  BY DEF Init, NothingAhead, NoPredictions
<1>2. PredictionInv /\ NothingAhead => LatestPredictionsMatchStandings
  <2> SUFFICES ASSUME PredictionInv, NothingAhead, week >= PredictionStartWeek
               PROVE  \E i \in 1 .. Len(GetLatest) : GetLatest[i].table = standings
    BY DEF LatestPredictionsMatchStandings
  <2> DEFINE weeks == {w \in Week : predictions[w] # <<>>}
  <2>1. PICK i \in 1 .. Len(predictions[week]) : predictions[week][i].table = standings
    BY DEF PredictionInv, PredictionsMatchStandings
  <2>2. week \in Week
    BY WeeksTyped, BoundsTyped DEF PredictionInv, EditInv, TypeOK, Week
  <2>3. predictions[week] # <<>>
    <3>1. Len(<<>>) = 0 /\ 1 .. 0 = {}
      OBVIOUS
    <3> QED  BY <2>1, <3>1, Zenon
  <2>4. \A w \in weeks : w \in Int /\ w <= week
    BY <2>2, WeeksTyped DEF Week, NothingAhead
  <2>5. Max(weeks) = week
    BY <2>2, <2>3, <2>4 DEF Max
  <2>6. GetLatest = predictions[week]
    BY <2>2, <2>3, <2>5 DEF GetLatest
  <2> QED  BY <2>1, <2>6
<1> QED
  BY <1>0, <1>1, <1>2, NothingAheadStep, PredictionInvAlways, PTL DEF Spec
===============================================================================
