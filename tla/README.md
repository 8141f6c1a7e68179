# A verification of league-api

TLA+ modules for the Premier League simulator of this repository: an HTTP
server that keeps seasons in PostgreSQL, plays weeks, lets clients edit
results and resets seasons. The modules model what several requests do to the
same season at the same time, the standings cache (alone and in front of the
tables), the connection pool, the shutdown of the server and the pure algorithms
(schedule, table, ranking, match simulator, predictions). TLC checks them on
small instances; TLAPS proves every safety invariant and action property that the passing
runs check for all values of the constants, under the same restrictions on the requests
(which section 3 gives for each run).

## 1. The system

| part (source) | state it keeps | operations |
|---|---|---|
| `SimulationService` (`internal/service/simulation_service.go`) | none; works on the rows of a season | `SimulateNextWeek`, `PlayAll` |
| `FixtureService` (`fixture_service.go`) | none | `Edit`, `GenerateSchedule` (pure) |
| `SeasonService` (`season_service.go`) | none | `Create`, `Reset`, `GetStandings`, `GetWeek` and other reads |
| `StandingsService` (`standings_service.go`) | none (pure) | `Calculate`, `SortWithHeadToHead` |
| `MonteCarloPrediction` (`prediction_service.go`) | none | `Predict` |
| `FormService` (`form_service.go`) | none | `RecordResult`, `ResultFromScore`, `FormMultiplier` |
| repositories, `PgxTxManager` (`internal/repository`) | the tables `seasons`, `fixtures`, `standings`, `team_form`, `predictions`; a bounded pool of connections | one SQL statement per method; transactions at READ COMMITTED or SERIALIZABLE |
| handlers, `pkg/cache` | one in-memory cache of standings per season | read-through, eviction after a successful write, expiry |
| `PoissonSimulator`, `pkg/poisson` | none | random scores from strengths and forms |
| `cmd/server/main.go`, `config` | the phase of the process | start, serve, shut down |
| validator, response, middleware | none | parsing, checking, formatting |

How they interact. Every HTTP request runs in its own goroutine. A handler
calls one service; the service reads committed rows through the pool
(`r.pool.Query`), opens one transaction with `PgxTxManager`, and issues its
writes through it. Requests share the database, the pool and the cache, and
nothing else: there is no lock in the Go code. All coordination is in row locks
(`SELECT ... FOR UPDATE` in `LockForWeek` and `LockByID`, and the locks that
UPDATE and DELETE take), in the isolation levels and in the number of
connections.

What is hard about it:

- `SimulateNextWeek` decides which week to play, and reads forms and fixtures,
  *before* its transaction; `Edit` does the opposite and reads through the pool
  *inside* its transaction, where it sees neither its own writes nor a
  consistent snapshot.
- Rows that a statement waits for may change, disappear or be joined by new
  rows while it waits.
- A request may fail at any statement, and `PlayAll` after some of its weeks.
- The cache is filled and evicted without any order with respect to commits, and
  an answer is put together from several statements, each with its own snapshot.
- A transaction that asks the pool for a second connection may wait for itself.
- A signal may come at any time: `Shutdown` gives up on slow requests, and the pool
  is closed while they run.
- A Monte Carlo run works on slices and pointers that the next run must not see.

What makes the parts correct: a fixture is played once; weeks are played whole
and in order; standings, form and predictions agree with the results; every
request is answered; an answer does not mix tables in the wrong order; the cache is
not stale for good; the pool neither starves nor leaks; a clean stop drops nobody;
the schedule is a double round robin; the ranking obeys its rules; predictions
share out exactly 100 per cent. `PROJECT.json` lists each hazard with the line
where it bites and the properties that watch it.

## 2. The modules

| module | models | extends |
|---|---|---|
| `LeagueTable` | `applyMatch`, `Calculate`, `primaryLess`, `primaryEqual` as operators | |
| `TeamForm` | `RecordResult`, `ResultFromScore`, the update of two forms by a match | `LeagueTable` |
| `League` | one season's rows under concurrent requests | `TeamForm` |
| `AtomicSeason` | what a client without Reset may rely on; `League` implements it | |
| `StandingsCache` | the cache and the handlers that read through, fill and evict it | |
| `SeasonViews` | `League` and `StandingsCache` composed: what readers are shown | `League`, an instance of `StandingsCache` |
| `ConnPool` | connections and row waits of concurrent requests | |
| `Server` | start, signal, shutdown and exit around the requests of `ConnPool` | `ConnPool` |
| `GracefulServer` | what a graceful shutdown promises; `Server` implements it | |
| `Schedule` | `GenerateSchedule`, round by round | |
| `StandingsOrder` | `SortWithHeadToHead`, group by group | `LeagueTable` |
| `MatchSimulator` | `Simulate`, the Poisson sampler, `FormMultiplier`, `ValidateEditFixture` as operators | `TeamForm` |
| `Prediction` | `Predict`, run by run and fixture by fixture, and the storing of its result | `MatchSimulator` |
| `MC...` | the instances TLC checks | each its module |
| `League_proofs` | theorems about `League` for every kind of request, and without Reset | `League` |
| `SeasonViews_proofs` | the rows with simulations only, and what readers are shown | `SeasonViews`, `League_proofs`, `LeagueTable_proofs`, an instance of `StandingsCache_proofs` |
| `StandingsCache_proofs` | the cache alone | `StandingsCache` |
| `Server_proofs` | the pool and the shutdown | `Server` |
| `Schedule_proofs` | the schedule, for any list of teams | `Schedule` |
| `LeagueTable_proofs` | lemmas: induction over finite sets, folds, sums, rows of a table | `LeagueTable` |
| `StandingsOrder_proofs`, `Prediction_proofs` | the ranking; a Monte Carlo prediction | their module, `LeagueTable_proofs` |

### League

The state is one season: `week` and `complete` (`seasons`), `score`
(`fixtures`), `form`, `standings`, `predictions`, and `gen`, the generation of
fixture ids, which a Reset renews. Beside the rows there are `lock` (who has
locked each row), and for each request its next statement `pc` and its Go
variables `local`. `stale` is what snapshot isolation needs: the rows another
transaction has written since the snapshot a request works from.

A statement is an action: `ReadSeason`, `ReadForm` and `ReadFixtures` are the
pool reads of `SimulateNextWeek`; `LockForWeek` to `CommitWeek` its
transaction. The simulator's results of the whole week are drawn at
`LockForWeek`, and the updates of the fixtures locked there need no further
lock. A transaction's writes stay in `local` and reach the tables in `CommitWeek`,
`CommitEdit` and `CommitReset`: no other transaction can see them before.
`Fail` ends a request at any statement, `DeadlockVictim` is PostgreSQL's
deadlock detector.

Isolation. READ COMMITTED statements see the newest committed rows; one that
waits re-reads the rows it waited for, but misses rows inserted meanwhile:
`DeleteForSeason` lets such rows survive. Edit is SERIALIZABLE: its snapshot
dates from the moment it issued its first statement, `LockByID`, which may have
waited since; it fails when a row it wants to update has changed meanwhile
(`LockByID`, `EditStandings`), and its DELETE does not see newer rows
(`UnseenSets`). Its pool reads use no snapshot.

Abstractions. The form rows of a season, its standings rows and each week's
predictions are locked as one row each; a statement takes its locks at once; a
row deleted while a statement waited for it ends the request, where the code
would find no row, which ends it too. A serializable Edit may also be refused for
read-write conflicts with another Edit; `Fail` covers that. Two Resets that
overlap could leave two schedules only when four of them interleave; fixtures are
therefore not doubled. Scores come from a small set: what the simulator favours does
not matter to any property.

### StandingsCache

The committed tables are a version number. `Miss`, `ReadRows`, `ReadPlayed` and `Fill`
are `GetStandings`: the rows and the played fixtures that order them are read by two
statements, so that an entry consists of two versions. `GetWeek`, `ReadWeek`, the same
two reads and `AnswerWeek` are `GetWeek`, which reads the fixtures of the week first
and never asks the cache. `WriteOnce` stands for next-week, edit and reset, `PlayAll`
commits any number of times before it evicts. With `Faults`, a service call may return
an error before or after a commit, and the handler then returns without eviction;
`Restart` is a crash of the process, which loses the cache and the requests and keeps
the tables. `Expire` is the TTL. `excused` is a history variable: it changes no
behaviour, and records why the entry may be stale. An answer from the cache changes
nothing and is not an action.

### SeasonViews

The composition: the service call of a write handler is a request of `League`
(`AcceptSimulate`, ..., up to the commit), and its handler a request of
`StandingsCache`, whose `pc` is `handler` here. `Request` starts both, `Statement` is a step of
`League` alone, `CommitTables` and `Returns` (or `ReturnsError`) are steps of both.
The version of `StandingsCache` is the length of `log`, the history of the tables each
commit made visible; with it "version v" becomes a table and results, and the properties
can ask what a client is actually shown. `Restart` is left to `StandingsCache`.

### ConnPool and Server

Each request of `ConnPool` takes connections and rows in the order of its code:

- a simulation reads through the pool, begins its transaction (which takes a connection), locks the
  fixtures of its week, then the standings, commits, and reads its answer;
- an Edit begins its transaction, locks its fixture, reads the results through the pool (`ReadResults`:
  `teams.List` and `GetPlayed`, `fixture_service.go:152` and `:156`), locks the standings, reads
  through the pool again (`EditRead`: season, remaining fixtures and forms, its answer) and commits;
- a Reset reads through the pool, and its transaction locks the standings before the fixtures.

Fixtures are locked one by one in the order of their ids (`LockFixture`, with `toLock` the ones still to
come); a request that waits for one keeps its connection and the rows it has. What else a
transaction locks (form, standings, season, predictions) counts as one row per season, the
standings. Cycles within that rest, as between a Reset that has the predictions and an Edit that has the
standings, are therefore left to `League`; PostgreSQL ends them like those between fixtures and
standings, which are here: it breaks a minimal cycle of row waits (`Circle`) at one of its
transactions (`DeadlockVictim`). A failure inside a
transaction (`Fail`) leaves connection and rows to the deferred `Rollback`, a step of its own. `op` is the
request a process serves, until its transaction ends. Which of several pool reads in a row a
request is at does not matter: each takes a connection and gives it back.

`Server` puts `run` of `cmd/server/main.go` around them: `Start` or `StartFails`,
`ServeFails`, `Signal`, then `Drained` or `DrainTimesOut` (the two results of `Shutdown`), and
`Exit`, which needs every connection back, as the deferred `pool.Close` does. Requests
start while it serves (`Accept`), go on while it drains (`Work`), and once the pool is closing are
refused a connection (`Refuse`). `net/http` and `pgxpool` are external: what they
do is taken from their contract, as the code relies on it.

### Schedule, StandingsOrder, Prediction

Each is the loop of a pure function, one iteration per action, so that the
properties can speak of every iteration as well as of the result. `Schedule` pairs a round
(`PlayRound`), then writes the rounds out twice (`AddFirstLegs`, `AddReturnLegs`). In `Prediction`
a run is worth `Unit`, which every number of leaders divides, so that shares are
exact; the code uses float64 and drifts by rounding. A step of a run plays one fixture
with two uniform draws, through `MatchSimulator`, on the copies of table and forms that the
run was started with. `Store` and `Rollback` are the statements after `Predict`, which
need a live context.

`MatchSimulator` computes in fixed point: expected goals in thousandths, probabilities in
units of 1/10000. It keeps what matters of float64: small terms stop adding up, so
that a draw in the tail runs into `maxIterations`, and then into the cap.

## 3. The runs

Every `League` instance has four teams and the first two weeks of the schedule
that `GenerateSchedule` makes for them, two fixtures a week, and two possible
scores (a home win and a draw). Two weeks are enough for a week to be played
before, at and after the one a slow request has in mind. Forms keep one result in the `League` runs, where
every match truncates, and two in `simulate`, so that a form recorded on an old read lacks a result that
another week has added. That old results are dropped for new ones beyond that is covered by the
theorem `FormsOfResults` only: it takes a third week, too many for a run. Predictions start in week 1, where requests can race
for them, except in `simulate`, whose first week has none. `edit` and `reset` send
play-all only: one that plays a single week and then fails takes every step of a
next-week request up to its commit. Three requests at once are what it takes in `edit`
for one to read before, and act after, what two others do to each other; in `simulate`
two are, since a play-all does the work of several. `CHECK_DEADLOCK FALSE` everywhere but
in `pool_edit`: the bounded number of requests (`MaxRequests`) or commits (`MaxCommits`), the
end of a pure function or the exit of the server lets the instance stop.

| run | instance | shows |
|---|---|---|
| `simulate` | `SeasonViews`: 2 requests, next-week and play-all, that may fail anywhere, and a reader | `PlayedUpToCurrentWeek`, `StandingsMatchResults`, `FormMatchesResults`: racing simulations keep the rows consistent, although they compute from reads before their transaction; `CachedRankingKnowsItsMatches`, `WeekTableCountsItsResults`, `QuietCacheServesResults`: what a client is shown, in terms of tables and results |
| `edit` | `League`: 3 requests at once, play-all and Edits | `NoUnplayedWeekBehind`, `OneWeekAtATime`, `NoDeadlock`, `LatestPredictionsMatchStandings`, `ImplementsAtomicSeason`: the weeks are still whole and in order, lock orders are compatible, and the latest predictions are those of the stored table |
| `reset` | `League`: 2 at once out of 3 requests: play-all, Edits and Resets | `RowsHeld`, `NoDoublePlay`, `OnePredictionSetPerWeek`, `PredictionsMatchStandings`, `EditReadsCommitted` |
| `live` | `League`: 2 requests of all kinds, with fairness | `TypeOK`, `RequestsTerminate` |
| `cache` | 3 requests at once, failures, restarts, 2 commits, fairness | `StaleOnlyIfExcused`: while no request runs, the cache is stale only after a `GetStandings` that a commit overtook or a handler that failed after a commit; `HeadToHeadNotBehind` and `WeekAsOfNow`: the order in which an answer mixes versions of the tables; `EventuallyFresh`: expiry repairs what is stale |
| `pool` | `Server`: 3 requests with Edits and Resets, 4 connections, failures, a signal at any time, fairness | `NothingLeaks`, `NoPoolDeadlock`, `RequestsServed`: one connection more than requests is enough, though requests wait for connections, for rows, and in cycles of rows; `CleanStopDropsNobody`, `ImplementsGracefulServer`: the shutdown ends, and is clean only when every request was answered |
| `schedule` | all orders of up to 5 teams, 120 orders of 6, and 8 teams | `NoRematch`, `DoubleRoundRobin`, `OncePerWeek`, `ScheduleEnds` |
| `order` | 3 teams that meet twice, 4 outcomes a match (one: not played), every order SQL may return | `RankedByRules`, `TiesKeepTheirOrder` |
| `prediction` | the seeded teams, 4 fixtures played or not, 3 runs, an ordinary draw and one in the tail, cancelled at any time | `StoredSumToHundred`, `NoCreditToTheEliminated`, `RunsAreIndependent`, `SimulatedScoresAreEditable` |

Each of these properties fails when one definition is replaced by a plausible
mistake (the operators named for the mistake, such as `WeekRowsUnlocked`,
`EditSeasonOfFixture`, `DrainedAtOnce`, `CloneFormsShared`; `PROJECT.json` pairs them up).

Two commits are enough in `cache`: the first makes the first read of an answer old, the
second its second read. In `pool` two fixtures, which a simulation locks both of and two Edits one each,
are enough for requests to wait for rows they hold in part; three transactions and the pool read of one
of them exhaust four connections, so that every kind of request to the pool (first reads, a transaction,
both reads of an Edit, the view) is kept waiting in some state, and Resets make cycles with
simulations and Edits. A tail draw matters in `prediction` because no other reaches the
bound of the sampling loop, and a bound above the cap is what makes the cap count.

### Where the code does not keep what its comments say

Each of the configurations below ends in a counterexample: a disagreement between the
code and its own text. The first three are runs of the project (`PROJECT.json` quotes
the text); the others are kept to replay the behaviour, with
`tlc -config <file> <module>`.

| configuration | property | what happens |
|---|---|---|
| `MCLeague_edit_standings` (run `edit_standings`) | `EditRecomputesStandings` | `Edit` recomputes standings from `GetPlayed` through the pool, which cannot see the score `Edit` has just written (`fixture_service.go:156`): the new table is the old one |
| `MCLeague_edit_ahead` (run `edit_ahead`) | `RemainingWeeksCanBePlayed` | `Edit` accepts unplayed fixtures; when all of the next week are edited, `SimulateNextWeek` answers `ErrWeekAlreadyPlayed` for ever |
| `MCConnPool_edit` (run `pool_edit`) | `NoPoolDeadlock` | two Edits of the same fixture exhaust a pool of two: one has the fixture and asks for a second connection, which the other's transaction has, waiting for the fixture |
| `MCLeague_edit_form` | `FormMatchesResults` | `Edit` leaves `team_form` with the old outcome |
| `MCLeague_stale_view` | `SimulatesOnUpToDateResults` | an Edit that commits between `SimulateNextWeek`'s read of the fixtures and its transaction is missing from the week's standings, which "an up-to-date snapshot" (`simulation_service.go:150-153`) rules out |
| `MCLeague_reset_leftovers` | `ResetWipesSeason` | predictions committed while a Reset waits survive it (`season_service.go:177`: "Reset wipes") |
| `MCLeague_reset_jump` | `NoUnplayedWeekBehind` | a simulation that read its week before a Reset plays a later week of the new schedule |
| `MCStandingsCache_race` | `FreshWhenQuiet` | a `GetStandings` overlapping a write re-fills the cache with the old rows, although the entry is "evicted on every write" (`main.go:141`) |
| `MCStandingsCache_failed_write` | `FreshWhenQuiet` | a write that commits and then errors evicts nothing |
| `MCPrediction_cancelled` | `ReturnedSumToHundred` | a cancelled `Predict` returns probabilities that sum to less than 100; the cancelled transaction never stores them |

### Fairness

`League`: `WF(Step(p))` for every request, for a goroutine with a statement to
issue issues it and PostgreSQL answers a statement whose rows are free; and
`WF(DeadlockVictim(p))`, for the deadlock detector always runs. No fairness makes
clients send requests or statements fail. `StandingsCache`: time passes
(`Expire`) and a read that has begun ends. `Server`: `SF(Work(p) \/ Refuse(p))` for every request,
because the pool and the lock queues of PostgreSQL serve waiters in order of
arrival, so that a request that can go on (or be refused) again and again does; and `WF` of what
the goroutine of `run` does by itself (`Drained \/ DrainTimesOut \/ Exit`). Nobody has to
send the signal. Nothing
makes a client give up: the server sets no deadline, and that is why
`pool_edit` is a deadlock.

## 4. The proofs

All are checked by `tlapm` to the last leaf, and between them they state every invariant
and every action property of the passing runs. What they assume are the named ASSUMEs of
the modules, which TLC evaluates on every instance: constants are typed and bounds are
natural numbers; scores are pairs of naturals; nobody plays against themselves, and no team
plays twice in a week (`OneMatchAWeek`: `EveryTeamOnceAWeek` below proves it of
`GenerateSchedule`); there are finitely many teams and fixtures (`SeasonFinite`: they are
rows of a table) and at least one team (`SomebodyLeads`: `findLeaders` takes the first row of
the table); `Prediction` numbers the matches by their place in the slice of fixtures that `Predict`
is given (`FixturesNumbered`).

The rows of a season:

- `TypeCorrect`: `Spec => []TypeOK` for any teams, schedule and processes.
- `HeldAlways`: `RowsHeld`. The inductive invariant adds to it that the batch of a
  request is empty before it locks, that locks are held only by running
  transactions, and that a locked fixture belongs to exactly one of them; commits
  then cannot touch a score another transaction works on.
- `NeverPlayedTwice`: the action property `NoDoublePlay` follows: only a commit
  changes a score, and a simulation's commit only writes fixtures that `RowsHeld`
  says are unplayed.
- `NothingLeftBehind`, `NextWeekWhole`: without Reset, `NoUnplayedWeekBehind` and
  `OneWeekAtATime`. The invariant relates the week a simulation has in mind, read
  long ago, to the current one: once it holds the open rows of that week, no other
  request can have moved `week`, for to do so it would have had to play those rows.
- `Implementation`: without Reset, `League` implements `AtomicSeason` with the
  identity on `week` and `score`: `CommitWeek` is `PlayNextWeek`, `CommitEdit` is
  `EditMatch`, every other step stutters.
- `WeeksArePlayedInOrder`, `StandingsOfResults`: with simulations only, and any number of
  them at once, `PlayedUpToCurrentWeek` and `StandingsMatchResults`. The invariant behind them (`SimulateInv`) adds that a simulation whose week is still the next one
  has read the results that are still stored: whoever commits moves the week, and leaves the
  others with a week that has no open rows. `CalculateNothing` supplies the initial table.
- `FormsOfResults`: with simulations only, `FormMatchesResults`. `FormInv` adds that a
  simulation whose week is still the next one has read the forms that are stored, and
  that the matches a team has played can be counted back from the latest one (`Ordered`),
  so that "the k-th last match" exists. A commit appends one result to the form of both teams of
  each match, and shifts every other match one place back (`LatestGrow`).
- `PoolReadsStayTrue`: `EditReadsCommitted` for every kind of request. Once an Edit has
  locked the standings rows, nobody can commit before it ends: simulations and other Edits
  commit holding those rows, and a Reset holds every fixture, one of which is the Edit's.
  Before that, a commit makes the Edit's snapshot stale and its statement fails.
- `NoPredictionsDoubled`, `PredictionsFollowStandings`: `OnePredictionSetPerWeek` and
  `PredictionsMatchStandings` for every kind of request. Whoever writes predictions holds the
  standings rows and has missed no set of them, because a set it had missed would have come
  with standings it had missed too; so its DELETE sees every set of the week.
- `LatestIsCurrent`: without Reset, `LatestPredictionsMatchStandings`, since then no week
  beyond the current one has predictions. With Reset it does not hold (`reset_leftovers`
  leaves predictions of later weeks).
- `OneLockOrder`: without Reset, `NoDeadlock`. Rows have a rank (fixtures, form,
  standings, season, predictions), a request holds rows only up to the rank its
  statement has reached and waits for a higher one, so ranks grow along a cycle of waits.

The pool and the shutdown:

- `PoolNeverDeadlocks` (from `PoolInvariant`): with more connections than requests,
  or without Edits, `NoPoolDeadlock`: some request can go on, or PostgreSQL has a cycle to break. If
  everybody waited, nobody would be reading, so a connection would be free, or no transaction would
  ever want a second one; then whoever has rows waits for rows, and those who wait for rows wait among
  themselves. `ServerPoolNeverDeadlocks` carries it over to a pool that is
  shut down under its requests, and `ServerLeaksNothing` is `NothingLeaks` there.
- `CleanStop`: `CleanStopDropsNobody`, because after a `Shutdown` without error no
  request runs and none can begin. `ServerIsGraceful`: every step of `Server` is one of
  `GracefulServer` or a stutter; its liveness half is `ImplementsGracefulServer` in `pool`.

The cache, alone and in front of the rows:

- `PlayedNotOlderThanRows`, `WeekAnswersAreOfNow`: `HeadToHeadNotBehind` and `WeekAsOfNow`,
  because versions only grow and each read remembers the one before it. Both speak of versions, for any
  commits, Resets included; what follows for the matches that are counted is
  `CacheRanksByItsMatches` below, which excludes Reset.
- `StaleAccounted`: `StaleOnlyIfExcused` for any number of clients, commits,
  failures and restarts. The invariant behind it says that a stale entry is excused or that a
  write which has committed is still to evict it.
- `FreshForOneClient`: `FreshWhenQuiet` for a single client without failures.

- `BothAreImplemented`: every step of `SeasonViews` is one of `League` and one of
  `StandingsCache`, or leaves them alone. What is proved of either therefore holds of the two together.
- `CacheRanksByItsMatches`: without Reset, `CachedRankingKnowsItsMatches`, with Edits too.
  The invariant of the log (`LogInv`) says that played fixtures stay played from one commit to
  the next, that no request works on a result which is not committed (`ViewsBehind`), and so that no
  table counts a match that was not committed with it; the cache contributes that the
  fixtures of an entry are not older than its rows. `PlayedCounted` is what connects the two:
  `Calculate` credits a team with exactly the matches it has played.
- `WeekTablesCount`, `QuietCacheIsTrue`: with simulations only, `WeekTableCountsItsResults` and
  `QuietCacheServesResults`, from the same invariant, `SimulateInv` and the theorems about the cache.

The algorithms:

- `RotationNeverRematches`, `EveryPairHomeAndAway`, `EveryTeamOnceAWeek`: `NoRematch`,
  `DoubleRoundRobin` and `OncePerWeek` for any list of distinct teams. After `s` rotations place
  `j` holds the team that began in place `Place(n, j, s)`; with this closed form the rounds are
  arithmetic on a ring of odd length: two places meet in one slot of one round only
  (`MeetOnce`), and any two meet (`EveryPairMeets`). The invariant (`ScheduleInv`) says that positions and
  pairs follow the closed form and that the fixtures written so far are the legs of the weeks
  done, in their places.
- `TableFollowsTheRules`, `InseparableTeamsStay`: `RankedByRules` and `TiesKeepTheirOrder`
  for any number of teams, fixtures and scores. The two stable sorts return the one list that the
  order "by key, then by place in the argument" allows (a total order, in which each element has its
  rank). `OrderInv` then says that the rows are always all the teams, each once, in the primary order;
  that the groups the scan has passed are in their final order, and the others still in
  that of the query; and that the scan never stands inside a group.
- `StoredShareOutHundred`, `EliminatedGetNothing`, `RunsStartAfresh`, `ScoresAreEditable`: the four
  invariants of `Prediction`, for any number of runs, teams and fixtures, from one
  invariant. `Shared`: the credits sum up to the runs done, each worth `Unit`. `Race`: a team of the
  run has at least the points it started with, and at most those it gets by winning what it has
  left. `Replayed`: the state of a run is what its own draws make of the given table and forms.

The proofs rest on a small library in `LeagueTable_proofs`. The library's induction theorems
take an operator, which the provers cannot instantiate, but the induction they express can be had for a
*set*: a set that has 0 and successors contains the natural numbers (`SetInduction`), and one that
has `{}` and grows with the element a fold takes next contains every subset of a finite set
(`SubsetInduction`). From it follow that folds over finite sets exist and
unfold (`FoldExists`, `CalculateFolds`, `SumFolds`), and the facts about tables and sums that the
proofs need (`CalculateTyped`, `SumOfMore`, `PlayedCounted`).

Only model-checked: liveness, which is out of the prover's reach (`RequestsTerminate`,
`RequestsServed`, `EventuallyFresh`, `ScheduleEnds` and the liveness half of
`ImplementsGracefulServer`), and the properties in section 3 that the code violates.

## 5. Not modelled

- The lock of the shared random generator, and the distribution of scores: the models
  let a match end as any draw makes it.
- Parsing and formatting of requests and responses, the middleware and the API
  documentation: no state is shared.
- The bodies of the answers of writes. One of them is worth knowing: `Edit` reads the
  standings and predictions it answers with through the pool, inside its transaction
  (`fixture_service.go:178` and `:225`), and so shows those from before the edit, where
  `fixture_handler.go:30` speaks of "full standings, fresh predictions". The cause is that of
  `edit_standings`.
- `Get`, `GetFixtures` and `GetByWeek` of predictions: each reads one table that changes,
  by one statement, so that there are no snapshots to mix.
- The teams, which only migrations write, and the repository methods without a caller
  (`Upsert` of standings, `MarkComplete`, `Delete` and `Create` of a fixture).
- Environment parsing and wiring at start, except that they may fail.
- Two seasons at once: their rows and cache entries are disjoint; they meet in the pool
  only, which `ConnPool` covers by its constant `Season`.

## 6. Plan

Done: the rows (`League`, `AtomicSeason`), the cache alone and in front of the rows, the
pool and the shutdown, the simulator and the other pure algorithms, and proofs of all
their invariants. What is left, in this order:

1. What Edits leave of the views: `SeasonViews` with Edits and Resets, under weaker properties than
   those checked now, which say what a cache over simulations promises.
2. What more there is to say of `Calculate` as a function: that points, wins and goals of a
   table add up (`PlayedCounted` shows how).
3. A single statement of what `SortWithHeadToHead` computes, as an abstract specification that
   `StandingsOrder` implements.
