-------------------------------- MODULE League --------------------------------
(***************************************************************************)
(* One season's rows in PostgreSQL under concurrent HTTP requests:         *)
(* SimulationService.SimulateNextWeek and PlayAll, FixtureService.Edit and *)
(* SeasonService.Reset, each statement a step of its own.                  *)
(*                                                                         *)
(* A request reads committed rows through the pool, then runs one          *)
(* transaction.  Inside a transaction a step takes the row locks of its    *)
(* statement; what the transaction writes becomes visible, all at once,    *)
(* when it commits.  SimulateNextWeek and Reset run at READ COMMITTED,     *)
(* Edit at SERIALIZABLE.  The database is external: it is modelled from    *)
(* the isolation levels and statements the repositories ask for.           *)
(*                                                                         *)
(* Abstractions.  The team_form rows of the season are locked as one unit, *)
(* as are its standings rows; a statement takes all its locks at once; a   *)
(* statement that meets rows deleted while it waited fails, where the code *)
(* would find none (both end the request); fixtures are never doubled,     *)
(* which would take four overlapping Resets.  Teams never change.          *)
(***************************************************************************)
EXTENDS TeamForm

CONSTANTS Proc,                 \* the request goroutines
          NoProc,               \* nobody, as the holder of a row lock
          TotalWeeks,           \* weeks of a season
          WeekOf,               \* WeekOf[m]: the week of fixture m
          PredictionStartWeek,  \* first week that gets predictions
          Score,                \* the scores a match may end with
          Ops,                  \* the requests the clients send
          MaxRequests           \* bound: requests accepted in a behaviour

Week == 1 .. TotalWeeks

ASSUME WeeksTyped == TotalWeeks \in Nat \ {0} /\ WeekOf \in [Match -> Week]
ASSUME OneMatchAWeek ==
    \A m, n \in Match : WeekOf[m] = WeekOf[n] /\ m # n =>
                            {Home[m], Away[m]} \cap {Home[n], Away[n]} = {}
ASSUME BoundsTyped == /\ PredictionStartWeek \in Nat \ {0}
                      /\ MaxRequests \in Nat
ASSUME ScoresArePlayed == Score \subseteq Nat \X Nat
ASSUME NobodyIsNoProc == NoProc \notin Proc

VARIABLES gen,          \* generation of the fixture rows: a Reset makes new ids
          week,         \* seasons.current_week
          complete,     \* seasons.is_complete
          score,        \* fixtures: home_goals and away_goals, or Unplayed
          form,         \* team_form.recent_results
          standings,    \* standings
          predictions,  \* predictions of each week: one entry per inserted set
          lock,         \* the transaction holding each row, or NoProc
          pc,           \* the next statement of each request
          local,        \* the local variables of each request
          stale,        \* rows written since the snapshot a request works from
          accepted      \* requests accepted so far

season == <<week, complete>>
tables == <<gen, season, score, form, standings, predictions>>
vars == <<tables, lock, pc, local, stale, accepted>>

-------------------------------------------------------------------------------
(* Rows *)

FixtureRow(m) == <<"fixtures", m>>
PredictionRow(w) == <<"predictions", w>>
FormRow == <<"team_form", 0>>
StandingsRow == <<"standings", 0>>
SeasonRow == <<"seasons", 0>>

PredictionRows == {PredictionRow(w) : w \in Week}
Row == {FixtureRow(m) : m \in Match} \cup PredictionRows
         \cup {FormRow, StandingsRow, SeasonRow}

NoResults == [m \in Match |-> Unplayed]
NoForm == [t \in Team |-> <<>>]
NoPredictions == [w \in Week |-> <<>>]
NoBatch == [m \in {} |-> Unplayed]

NoLocals == [all |-> FALSE, week |-> 0, gen |-> 0, forms |-> NoForm,
             view |-> NoResults, viewGen |-> 0, batch |-> NoBatch, remaining |-> {}]

-------------------------------------------------------------------------------
(* What the requests compute from their local variables *)

\* The rows of the matches in batch overwrite those of results.
Overlay(results, batch) ==
    [m \in Match |-> IF m \in DOMAIN batch THEN batch[m] ELSE results[m]]

MergePlayedForgetsWeek(r) == r.view

\* mergePlayed works on fixture ids: rows of another generation match none.
MergePlayed(r) == IF r.viewGen = r.gen THEN Overlay(r.view, r.batch) ELSE r.view

PredictsLate(p) == local[p].week > PredictionStartWeek
Predicts(p) == local[p].week >= PredictionStartWeek

-------------------------------------------------------------------------------
(* Locks and snapshots *)

UnplayedOfWeekSkipLocked(w) ==
    {m \in Match : WeekOf[m] = w /\ score[m] = Unplayed /\ lock[FixtureRow(m)] = NoProc}
UnplayedOfWeek(w) == {m \in Match : WeekOf[m] = w /\ score[m] = Unplayed}

\* The rows LockForWeek locks FOR UPDATE.
WeekRowsUnlocked(p) == {}
WeekRows(p) == {FixtureRow(m) : m \in UnplayedOfWeek(local[p].week)}

PredictionRowsOf(weeks) == {PredictionRow(w) : w \in {v \in weeks : predictions[v] # <<>>}}

SimulateNeeds(p) ==
    CASE pc[p] = "lock_week" -> WeekRows(p)
      [] pc[p] = "upsert_form" -> {FormRow}
      [] pc[p] = "replace_standings" -> {StandingsRow}
      [] pc[p] = "update_season" -> {SeasonRow}
      [] pc[p] = "replace_predictions" -> PredictionRowsOf({local[p].week})
      [] OTHER -> {}

EditNeedsStandingsFirst(p) ==
    CASE pc[p] = "lock_fixture" -> {StandingsRow}
      [] pc[p] = "edit_standings" -> {FixtureRow(m) : m \in DOMAIN local[p].batch}
      [] OTHER -> {}

EditNeeds(p) ==
    CASE pc[p] = "lock_fixture" -> {FixtureRow(m) : m \in DOMAIN local[p].batch}
      [] pc[p] = "edit_standings" -> {StandingsRow}
      [] pc[p] = "edit_predictions" -> PredictionRowsOf({local[p].week})
      [] OTHER -> {}

ResetNeeds(p) ==
    CASE pc[p] = "delete_predictions" -> PredictionRowsOf(Week)
      [] pc[p] = "delete_form" -> {FormRow}
      [] pc[p] = "delete_standings" -> {StandingsRow}
      [] pc[p] = "delete_fixtures" -> {FixtureRow(m) : m \in Match}
      [] pc[p] = "reset_season" -> {SeasonRow}
      [] OTHER -> {}

\* The rows the next statement of p locks, if it is issued now.
Needs(p) == SimulateNeeds(p) \cup EditNeeds(p) \cup ResetNeeds(p)

Holders(p, rows) == {lock[r] : r \in rows} \ {NoProc, p}

Acquire(p, rows) ==
    /\ Holders(p, rows) = {}
    /\ lock' = [r \in Row |-> IF r \in rows THEN p ELSE lock[r]]

Release(p) == lock' = [r \in Row |-> IF lock[r] = p THEN NoProc ELSE lock[r]]

SimulateTx == {"upsert_form", "replace_standings", "update_season",
               "replace_predictions", "commit_week"}
EditTx == {"read_played", "edit_standings", "edit_season", "edit_remaining",
           "edit_predictions", "commit_edit"}

\* An Edit has one snapshot of everything, from when it issued LockByID.
HasSnapshot == {"lock_fixture"} \cup EditTx

\* Rows that would be missing from the snapshot p's statements have used.  A
\* DELETE of predictions in a simulation or an Edit misses none: it holds the
\* standings rows, which every transaction that inserts predictions needs.
Exposed(p) ==
    CASE pc[p] \in HasSnapshot -> Row
      [] pc[p] \in {"delete_predictions", "commit_week"} -> PredictionRows
      [] pc[p] = "delete_form" -> PredictionRows \cup {FormRow}
      [] pc[p] \in {"delete_standings", "delete_fixtures", "reset_season", "commit_reset"} ->
             PredictionRows \cup {FormRow, StandingsRow}
      [] OTHER -> {}

\* New rows of p's transaction; InitForSeason inserts where no row is left.
Inserted(p) ==
    CASE pc[p] \in {"commit_week", "commit_edit"} ->
             {PredictionRow(w) : w \in {v \in {local[p].week} : Predicts(p)}}
      [] pc[p] = "commit_reset" ->
             {FixtureRow(m) : m \in Match} \cup ({FormRow, StandingsRow} \ stale[p])
      [] OTHER -> {}

MissedReadCommitted(q, p) == Inserted(p) \cap Exposed(q)

\* A READ COMMITTED statement that waited works on the updated row, and
\* misses only new rows; a serializable one conflicts with updates too.
Missed(q, p) ==
    (Inserted(p) \cup {r \in Row : lock[r] = p /\ pc[q] \in HasSnapshot}) \cap Exposed(q)

Commit(p, next) ==
    /\ Release(p)
    /\ stale' = [q \in Proc |-> IF q = p THEN {} ELSE stale[q] \cup Missed(q, p)]
    /\ pc' = [pc EXCEPT ![p] = next]
    /\ local' = [local EXCEPT ![p] =
                    IF next = "idle" THEN NoLocals ELSE [NoLocals EXCEPT !.all = TRUE]]
    /\ UNCHANGED accepted

\* The sets of week w that the DELETE of p's transaction did not see.
UnseenSets(p, w) == IF PredictionRow(w) \in stale[p] THEN predictions[w] ELSE <<>>

Goto(p, from, to) ==
    /\ pc[p] = from
    /\ pc' = [pc EXCEPT ![p] = to]
    /\ UNCHANGED <<tables, accepted>>

AbortKeepsLocks(p) ==
    /\ pc' = [pc EXCEPT ![p] = "idle"]
    /\ local' = [local EXCEPT ![p] = NoLocals]
    /\ stale' = [stale EXCEPT ![p] = {}]
    /\ UNCHANGED <<tables, lock, accepted>>

\* A request ends without a trace: an early return, a failed statement, a
\* cancelled context, a refused commit.  The transaction rolls back.
Abort(p) ==
    /\ Release(p)
    /\ pc' = [pc EXCEPT ![p] = "idle"]
    /\ local' = [local EXCEPT ![p] = NoLocals]
    /\ stale' = [stale EXCEPT ![p] = {}]
    /\ UNCHANGED <<tables, accepted>>

-------------------------------------------------------------------------------
(* Requests arrive *)

Accept(p, op, first, r) ==
    /\ op \in Ops
    /\ pc[p] = "idle"
    /\ accepted < MaxRequests
    /\ accepted' = accepted + 1
    /\ pc' = [pc EXCEPT ![p] = first]
    /\ local' = [local EXCEPT ![p] = r]
    /\ UNCHANGED <<tables, lock, stale>>

AcceptSimulate(p) == Accept(p, "simulate", "read_season", NoLocals)
AcceptPlayAll(p) == Accept(p, "playall", "play_next", [NoLocals EXCEPT !.all = TRUE])
AcceptReset(p) == Accept(p, "reset", "delete_predictions", NoLocals)

\* The client names a fixture id of the schedule it has seen.
AcceptEdit(p) ==
    \E m \in Match, s \in Score :
        Accept(p, "edit", "lock_fixture",
               [NoLocals EXCEPT !.gen = gen, !.batch = [x \in {m} |-> s]])

-------------------------------------------------------------------------------
(* SimulateNextWeek and PlayAll *)

SeasonOverLate == week > TotalWeeks
SeasonOver == complete \/ week >= TotalWeeks

\* The loop of PlayAll reads the season before every week.
PlayNext(p) ==
    \/ /\ ~SeasonOver
       /\ Goto(p, "play_next", "read_season")
       /\ UNCHANGED <<lock, local, stale>>
    \/ /\ SeasonOver
       /\ pc[p] = "play_next"
       /\ Abort(p)

ReadSeason(p) ==
    \/ /\ ~SeasonOver
       /\ Goto(p, "read_season", "read_form")
       /\ local' = [local EXCEPT ![p].week = week + 1]
       /\ UNCHANGED <<lock, stale>>
    \/ /\ SeasonOver
       /\ pc[p] = "read_season"
       /\ Abort(p)

ReadFormOnce(p) ==
    /\ Goto(p, "read_form", "read_fixtures")
    /\ local' = [local EXCEPT ![p].forms = IF local[p].all /\ local[p].week > 1 THEN @ ELSE form]
    /\ UNCHANGED <<lock, stale>>

ReadForm(p) ==
    /\ Goto(p, "read_form", "read_fixtures")
    /\ local' = [local EXCEPT ![p].forms = form]
    /\ UNCHANGED <<lock, stale>>

ReadFixtures(p) ==
    /\ Goto(p, "read_fixtures", "lock_week")
    /\ local' = [local EXCEPT ![p].view = score, ![p].viewGen = gen]
    /\ UNCHANGED <<lock, stale>>

\* LockForWeek, then the simulator picks every result of the week.
LockForWeek(p) ==
    \/ /\ UnplayedOfWeek(local[p].week) # {}
       /\ Goto(p, "lock_week", "upsert_form")
       /\ Acquire(p, Needs(p))
       /\ \E results \in [UnplayedOfWeek(local[p].week) -> Score] :
              local' = [local EXCEPT ![p].batch = results, ![p].gen = gen]
       /\ UNCHANGED stale
    \/ /\ UnplayedOfWeek(local[p].week) = {}
       /\ pc[p] = "lock_week"
       /\ Abort(p)

UpsertForm(p) ==
    /\ Goto(p, "upsert_form", "replace_standings")
    /\ Acquire(p, Needs(p))
    /\ UNCHANGED <<local, stale>>

ReplaceStandings(p) ==
    /\ Goto(p, "replace_standings", "update_season")
    /\ Acquire(p, Needs(p))
    /\ UNCHANGED <<local, stale>>

UpdateCurrentWeek(p) ==
    /\ Goto(p, "update_season", IF Predicts(p) THEN "replace_predictions" ELSE "commit_week")
    /\ Acquire(p, Needs(p))
    /\ UNCHANGED <<local, stale>>

ReplacePredictions(p) ==
    /\ Goto(p, "replace_predictions", "commit_week")
    /\ Acquire(p, Needs(p))
    /\ local' = [local EXCEPT ![p].remaining = UnplayedIn(MergePlayed(local[p]))]
    /\ UNCHANGED stale

FormAfter(r) ==
    [t \in Team |->
        IF \E m \in DOMAIN r.batch : Plays(t, m)
        THEN LET m == CHOOSE x \in DOMAIN r.batch : Plays(t, x)
             IN  RecordResult(r.forms[t], ResultFromScore(m, r.batch[m], t))
        ELSE form[t]]

PredictionsAfterNoDelete(p, table) ==
    IF Predicts(p)
    THEN [predictions EXCEPT ![local[p].week] =
             Append(@, [table |-> table, remaining |-> local[p].remaining])]
    ELSE predictions

\* DeleteForWeek and BulkInsert of the week in r, from table.
PredictionsAfter(p, table) ==
    IF Predicts(p)
    THEN [predictions EXCEPT ![local[p].week] =
             Append(UnseenSets(p, local[p].week),
                    [table |-> table, remaining |-> local[p].remaining])]
    ELSE predictions

CommitWeek(p) ==
    /\ pc[p] = "commit_week"
    /\ score' = Overlay(score, local[p].batch)
    /\ form' = FormAfter(local[p])
    /\ standings' = Calculate(MergePlayed(local[p]))
    /\ week' = local[p].week
    /\ complete' = (complete \/ local[p].week >= TotalWeeks)
    /\ predictions' = PredictionsAfter(p, standings')
    /\ UNCHANGED gen
    /\ Commit(p, IF local[p].all THEN "play_next" ELSE "idle")

-------------------------------------------------------------------------------
(* Edit *)

\* LockByID: a row of an older generation is gone.  Update follows at once,
\* on the same row.  The snapshot is that of now, or, if the statement has
\* waited, of the moment it was issued: then the row must be the same still.
LockByID(p) ==
    \/ /\ local[p].gen = gen
       /\ Goto(p, "lock_fixture", "read_played")
       /\ Acquire(p, Needs(p))
       /\ \E missed \in {{}, stale[p]} :
              /\ Needs(p) \cap missed = {}
              /\ stale' = [stale EXCEPT ![p] = missed]
       /\ UNCHANGED local
    \/ /\ local[p].gen # gen
       /\ pc[p] = "lock_fixture"
       /\ Abort(p)

\* GetPlayed goes through the pool, not the transaction.
ReadPlayed(p) ==
    /\ Goto(p, "read_played", "edit_standings")
    /\ local' = [local EXCEPT ![p].view = score, ![p].viewGen = gen]
    /\ UNCHANGED <<lock, stale>>

\* A row changed since the snapshot is a serialization failure (40001).
EditStandings(p) ==
    \/ /\ StandingsRow \notin stale[p]
       /\ Goto(p, "edit_standings", "edit_season")
       /\ Acquire(p, Needs(p))
       /\ UNCHANGED <<local, stale>>
    \/ /\ StandingsRow \in stale[p]
       /\ pc[p] = "edit_standings"
       /\ Abort(p)

EditSeasonOfFixture(p) ==
    \E m \in DOMAIN local[p].batch :
        /\ Goto(p, "edit_season", IF WeekOf[m] < PredictionStartWeek THEN "commit_edit"
                                                                   ELSE "edit_remaining")
        /\ local' = [local EXCEPT ![p].week = WeekOf[m]]
        /\ UNCHANGED <<lock, stale>>

EditSeason(p) ==
    /\ Goto(p, "edit_season", IF week < PredictionStartWeek THEN "commit_edit"
                                                            ELSE "edit_remaining")
    /\ local' = [local EXCEPT ![p].week = week]
    /\ UNCHANGED <<lock, stale>>

ReadRemaining(p) ==
    /\ Goto(p, "edit_remaining", "edit_predictions")
    /\ local' = [local EXCEPT ![p].remaining = UnplayedIn(score)]
    /\ UNCHANGED <<lock, stale>>

EditPredictions(p) ==
    /\ Goto(p, "edit_predictions", "commit_edit")
    /\ Acquire(p, Needs(p))
    /\ UNCHANGED <<local, stale>>

CommitEdit(p) ==
    /\ pc[p] = "commit_edit"
    /\ score' = Overlay(score, local[p].batch)
    /\ standings' = Calculate(local[p].view)
    /\ predictions' = PredictionsAfter(p, standings')
    /\ UNCHANGED <<gen, season, form>>
    /\ Commit(p, "idle")

-------------------------------------------------------------------------------
(* Reset *)

\* DELETE locks and removes the rows it sees.  It sees the rows of now, or,
\* if it has waited, those of the moment it was issued: newer ones survive.
DeleteForSeason(p, rows) ==
    \E unseen \in {{}, stale[p] \cap rows} :
        /\ Acquire(p, Needs(p) \ unseen)
        /\ stale' = [stale EXCEPT ![p] = (@ \ rows) \cup unseen]
        /\ UNCHANGED local

DeletePredictions(p) ==
    /\ Goto(p, "delete_predictions", "delete_form")
    /\ DeleteForSeason(p, PredictionRows)

DeleteForm(p) ==
    /\ Goto(p, "delete_form", "delete_standings")
    /\ DeleteForSeason(p, {FormRow})

DeleteStandings(p) ==
    /\ Goto(p, "delete_standings", "delete_fixtures")
    /\ DeleteForSeason(p, {StandingsRow})

DeleteFixtures(p) ==
    /\ Goto(p, "delete_fixtures", "reset_season")
    /\ Acquire(p, Needs(p))
    /\ UNCHANGED <<local, stale>>

ResetSeason(p) ==
    /\ Goto(p, "reset_season", "commit_reset")
    /\ Acquire(p, Needs(p))
    /\ UNCHANGED <<local, stale>>

\* BulkCreate inserts a fresh schedule; InitForSeason keeps rows that are there.
CommitReset(p) ==
    /\ pc[p] = "commit_reset"
    /\ gen' = gen + 1
    /\ score' = NoResults
    /\ week' = 0
    /\ complete' = FALSE
    /\ predictions' = [w \in Week |-> UnseenSets(p, w)]
    /\ form' = IF FormRow \in stale[p] THEN form ELSE NoForm
    /\ standings' = IF StandingsRow \in stale[p] THEN standings ELSE ZeroTable
    /\ Commit(p, "idle")

-------------------------------------------------------------------------------
(* Failures *)

\* Any statement may fail, and the client may go away, at any time.
Fail(p) == pc[p] # "idle" /\ Abort(p)

\* The requests whose next statement has to wait for rows.
Waiting == {p \in Proc : Holders(p, Needs(p)) # {}}

\* Everybody in S waits for somebody in S.
WaitCycle(S) == S # {} /\ \A p \in S : Holders(p, Needs(p)) \cap S # {}

\* PostgreSQL ends a deadlock by failing one of the statements in it.
DeadlockVictim(p) == (\E S \in SUBSET Waiting : p \in S /\ WaitCycle(S)) /\ Abort(p)

-------------------------------------------------------------------------------

\* The state SeasonService.Create commits.
Init ==
    /\ gen = 0
    /\ week = 0
    /\ complete = FALSE
    /\ score = NoResults
    /\ form = NoForm
    /\ standings = ZeroTable
    /\ predictions = NoPredictions
    /\ lock = [r \in Row |-> NoProc]
    /\ pc = [p \in Proc |-> "idle"]
    /\ local = [p \in Proc |-> NoLocals]
    /\ stale = [p \in Proc |-> {}]
    /\ accepted = 0

Arrive(p) == AcceptSimulate(p) \/ AcceptPlayAll(p) \/ AcceptEdit(p) \/ AcceptReset(p)

SimulateStep(p) ==
    \/ PlayNext(p) \/ ReadSeason(p) \/ ReadForm(p) \/ ReadFixtures(p)
    \/ LockForWeek(p) \/ UpsertForm(p) \/ ReplaceStandings(p)
    \/ UpdateCurrentWeek(p) \/ ReplacePredictions(p) \/ CommitWeek(p)

EditStep(p) ==
    \/ LockByID(p) \/ ReadPlayed(p) \/ EditStandings(p) \/ EditSeason(p)
    \/ ReadRemaining(p) \/ EditPredictions(p) \/ CommitEdit(p)

ResetStep(p) ==
    \/ DeletePredictions(p) \/ DeleteForm(p) \/ DeleteStandings(p)
    \/ DeleteFixtures(p) \/ ResetSeason(p) \/ CommitReset(p)

Step(p) == SimulateStep(p) \/ EditStep(p) \/ ResetStep(p)

Next == \E p \in Proc : Arrive(p) \/ Step(p) \/ Fail(p) \/ DeadlockVictim(p)

Spec == Init /\ [][Next]_vars

\* A request is a running goroutine, and PostgreSQL's deadlock detector
\* always runs; nothing makes a client send a request or a statement fail.
Fairness == \A p \in Proc : WF_vars(Step(p)) /\ WF_vars(DeadlockVictim(p))

FairSpec == Spec /\ Fairness
-------------------------------------------------------------------------------
(* Properties *)

Results == [Match -> Score \cup {Unplayed}]
Forms == [Team -> Seq({"W", "D", "L"})]
Batches == UNION {[S -> Score] : S \in SUBSET Match}

Locals == [all : BOOLEAN, week : 0 .. TotalWeeks, gen : Nat, forms : Forms,
           view : Results, viewGen : Nat, batch : Batches, remaining : SUBSET Match]

PC == {"idle", "play_next", "read_season", "read_form", "read_fixtures", "lock_week",
       "lock_fixture", "delete_predictions", "delete_form", "delete_standings",
       "delete_fixtures", "reset_season", "commit_reset"} \cup SimulateTx \cup EditTx

Tables == {Calculate(r) : r \in Results} \cup {ZeroTable}
PredictionSets == [table : Tables, remaining : SUBSET Match]

\* Every variable keeps its type; the standings are always a table that
\* Calculate made from some results, or the initial one.
TypeOK ==
    /\ gen \in Nat
    /\ week \in 0 .. TotalWeeks
    /\ complete \in BOOLEAN
    /\ score \in Results
    /\ form \in Forms
    /\ standings \in Tables
    /\ predictions \in [Week -> Seq(PredictionSets)]
    /\ lock \in [Row -> Proc \cup {NoProc}]
    /\ pc \in [Proc -> PC]
    /\ local \in [Proc -> Locals]
    /\ stale \in [Proc -> SUBSET Row]
    /\ accepted \in Nat

\* A transaction holds the rows of the fixtures it writes until it ends, and
\* the fixtures a simulation plays stay unplayed until it commits.
RowsHeld ==
    \A p \in Proc : \A m \in DOMAIN local[p].batch :
        /\ pc[p] \in SimulateTx \cup EditTx => lock[FixtureRow(m)] = p
        /\ pc[p] \in SimulateTx => score[m] = Unplayed

\* The row locks of LockForWeek keep two simulations from playing the same
\* fixture: the score of a played fixture changes only when an Edit of that
\* fixture commits, or when a Reset replaces every fixture.
NoDoublePlay ==
    [][gen' = gen =>
         \A m \in PlayedIn(score) : score'[m] # score[m] =>
            \E p \in Proc : CommitEdit(p) /\ m \in DOMAIN local[p].batch]_vars

\* Without Reset a week is never left behind: every fixture up to
\* current_week has been played, whatever Edits did meanwhile.
NoUnplayedWeekBehind == \A m \in Match : WeekOf[m] <= week => score[m] # Unplayed

\* Without Reset a simulation that holds its week plays the week after
\* current_week, and all that is left of it; nobody else can.
OneWeekAtATime ==
    \A p \in Proc :
        /\ local[p].week <= week + 1
        /\ pc[p] \in SimulateTx =>
              /\ local[p].week = week + 1
              /\ DOMAIN local[p].batch = UnplayedOfWeek(week + 1)
              /\ DOMAIN local[p].batch # {}

Atomic == INSTANCE AtomicSeason WITH week <- week, score <- score

\* Without Reset the statements of concurrent requests add up to whole weeks
\* played in order and single Edits, although every simulation computes its
\* week from a read before its transaction.
ImplementsAtomicSeason == Atomic!Spec

\* With simulations only, the fixtures played are those of the weeks up to
\* current_week, so that the next week can always be played.
PlayedUpToCurrentWeek == \A m \in Match : score[m] # Unplayed <=> WeekOf[m] <= week

\* The stored standings are those of the stored results.
StandingsMatchResults == standings = Calculate(score)

MatchesPlayedBy(t) == {m \in PlayedIn(score) : Plays(t, m)}

\* The last MaxRecentResults results of t, in the order of the weeks.
LatestResults(t) ==
    LET n == Min({MaxRecentResults, Cardinality(MatchesPlayedBy(t))})
        Later(m) == {x \in MatchesPlayedBy(t) : WeekOf[x] > WeekOf[m]}
        Nth(i) == CHOOSE m \in MatchesPlayedBy(t) : Cardinality(Later(m)) = n - i
    IN  [i \in 1 .. n |-> ResultFromScore(Nth(i), score[Nth(i)], t)]

\* team_form holds the latest results of every team (RecordResult works on
\* forms read before the transaction).
FormMatchesResults == \A t \in Team : form[t] = LatestResults(t)

\* Nothing in the schema keeps two sets of predictions of a week apart: no
\* interleaving of DeleteForWeek and BulkInsert leaves more than one.
OnePredictionSetPerWeek == \A w \in Week : Len(predictions[w]) <= 1

\* The predictions of the current week were made from the stored standings,
\* whoever wrote last.
PredictionsMatchStandings ==
    week >= PredictionStartWeek =>
        \E i \in 1 .. Len(predictions[week]) : predictions[week][i].table = standings

\* The predictions of the highest week that has any.
GetLatest ==
    LET weeks == {w \in Week : predictions[w] # <<>>}
    IN  IF weeks = {} THEN <<>> ELSE predictions[Max(weeks)]

\* Without Reset, "the most recent set of predictions" that a client gets is
\* the one made from the stored standings: no Edit or simulation has put
\* predictions under a week that is not, or not yet, the current one.
LatestPredictionsMatchStandings ==
    week >= PredictionStartWeek =>
        \E i \in 1 .. Len(GetLatest) : GetLatest[i].table = standings

\* What an Edit has read outside its transaction stays true until it ends,
\* once it holds the standings: its pool reads cannot go stale.
EditReadsCommitted ==
    \A p \in Proc :
        /\ pc[p] \in EditTx \ {"read_played", "edit_standings"} =>
               local[p].view = score /\ local[p].viewGen = gen
        /\ pc[p] \in {"edit_remaining", "edit_predictions"} => local[p].week = week
        /\ pc[p] = "commit_edit" /\ Predicts(p) =>
               local[p].week = week /\ local[p].remaining = UnplayedIn(score)

\* Simulations and Edits take their locks in compatible orders: without
\* Reset no set of requests ever waits for itself.
NoDeadlock == \A S \in SUBSET Waiting : ~WaitCycle(S)

\* Every accepted request is answered.
RequestsTerminate == \A p \in Proc : pc[p] # "idle" ~> pc[p] = "idle"

-------------------------------------------------------------------------------
(* What comments promise and the code does not keep *)

\* Edit "recomputes every downstream artifact (standings + predictions)":
\* the standings it commits count the score it commits.
EditRecomputesStandings == [][\A p \in Proc : CommitEdit(p) => standings' = Calculate(score')]_vars

\* "PlayAll simulates every remaining week": while the season is not over,
\* its next week has a fixture to play.
RemainingWeeksCanBePlayed == ~SeasonOver => UnplayedOfWeek(week + 1) # {}

\* "the predictor sees an up-to-date snapshot": the results a simulation
\* works from are those committed with it.
SimulatesOnUpToDateResults == [][\A p \in Proc : CommitWeek(p) => MergePlayed(local[p]) = score']_vars

\* "Reset wipes a season's fixtures / standings / form / predictions".
ResetWipesSeason ==
    [][\A p \in Proc : CommitReset(p) =>
          predictions' = NoPredictions /\ form' = NoForm /\ standings' = ZeroTable]_vars
===============================================================================
