------------------------------ MODULE Prediction ------------------------------
(***************************************************************************)
(* MonteCarloPrediction.Predict and the transaction that stores what it    *)
(* returns.  Each run plays the remaining fixtures, one after the other,   *)
(* on copies of the table and of the team forms, and splits one credit     *)
(* evenly among the teams tied for first place.  Between two runs the      *)
(* context of the request may be found cancelled.                          *)
(*                                                                         *)
(* Credits and percentages are kept exact: a run is worth Unit, a number   *)
(* that every possible number of leaders divides, and 100 per cent is      *)
(* Runs * Unit.                                                            *)
(***************************************************************************)
EXTENDS MatchSimulator

CONSTANTS Score,   \* the scores of the matches played
          Runs,    \* Monte Carlo runs
          Unit     \* what a run is worth

ASSUME ScoresTyped == Score \subseteq Nat \X Nat
ASSUME RunsPositive == Runs \in Nat \ {0}
\* findLeaders takes the first row of the table.
ASSUME SomebodyLeads == Team # {}
\* A match is numbered by its place in the list of fixtures.
ASSUME FixturesNumbered == Match = 1 .. Cardinality(Match)
ASSUME UnitDivides == Unit \in Nat \ {0} /\ \A k \in 1 .. Cardinality(Team) : Unit % k = 0

VARIABLES score,      \* the fixtures: those played and those remaining
          startForms, \* the team forms given to Predict
          sim,        \* the table of the run
          forms,      \* the team forms of the run
          drawn,      \* history: the two draws of each fixture of the run
          run,        \* runs done
          wins,       \* what the runs have credited to each team
          cancelled,  \* whether the context is cancelled
          pc,
          stored      \* the predictions in the database

given == <<score, startForms>>
game == <<sim, forms, drawn>>
vars == <<given, game, run, wins, cancelled, pc, stored>>

Standings == Calculate(score)
Hundred == Runs * Unit
NoPredictions == [t \in Team |-> 0]
NoDraws == [m \in {} |-> <<0, 0>>]

\* The fixture of a run that is simulated next.
Left == UnplayedIn(score) \ DOMAIN drawn
NextFixture == CHOOSE m \in Left : \A n \in Left : m <= n

\* findLeaders: the first row and the rows equal to it.
FindLeaders(table) == {t \in Team : \A u \in Team : ~PrimaryLess(table[u], table[t])}

CloneStandingsShared == sim
\* cloneStandingsMap: every run starts from the standings.
CloneStandings == Standings

CloneFormsShared == forms
\* cloneFormsMap: every run starts from the forms of now.
CloneForms == startForms

-------------------------------------------------------------------------------

\* The forms are those of a season played so far without an Edit.
Init ==
    /\ score \in [Match -> Score \cup {Unplayed}]
    /\ startForms = FoldSet(LAMBDA m, f : RecordMatch(f, m, score[m]),
                            [t \in Team |-> <<>>], PlayedIn(score))
    /\ sim = Standings
    /\ forms = startForms
    /\ drawn = NoDraws
    /\ run = 0
    /\ wins = NoPredictions
    /\ cancelled = FALSE
    /\ pc = "runs"
    /\ stored = NoPredictions

StartRun ==
    /\ pc = "runs" /\ ~cancelled
    /\ run < Runs
    /\ sim' = CloneStandings
    /\ forms' = CloneForms
    /\ drawn' = NoDraws
    /\ pc' = "playing"
    /\ UNCHANGED <<given, run, wins, cancelled, stored>>

PlayFixture ==
    /\ pc = "playing"
    /\ Left # {}
    /\ \E u \in Draw \X Draw :
          LET m == NextFixture
              goals == Simulate(m, forms, u)
          IN  /\ sim' = ApplyMatch(sim, Home[m], Away[m], goals)
              /\ forms' = RecordMatch(forms, m, goals)
              /\ drawn' = [n \in DOMAIN drawn \cup {m} |-> IF n = m THEN u ELSE drawn[n]]
    /\ UNCHANGED <<given, run, wins, cancelled, pc, stored>>

EndRun ==
    /\ pc = "playing"
    /\ Left = {}
    /\ LET leaders == FindLeaders(sim)
       IN  wins' = [t \in Team |-> IF t \in leaders THEN wins[t] + Unit \div Cardinality(leaders)
                                                    ELSE wins[t]]
    /\ run' = run + 1
    /\ pc' = "runs"
    /\ UNCHANGED <<given, game, cancelled, stored>>

\* The loop ends after the last run, or when it finds the context cancelled.
Return ==
    /\ pc = "runs"
    /\ run = Runs \/ cancelled
    /\ pc' = "returned"
    /\ UNCHANGED <<given, game, run, wins, cancelled, stored>>

Cancel ==
    /\ pc \in {"runs", "playing", "returned"}
    /\ ~cancelled
    /\ cancelled' = TRUE
    /\ UNCHANGED <<given, game, run, wins, pc, stored>>

StoreAnyway ==
    /\ pc = "returned"
    /\ stored' = wins
    /\ pc' = "committed"
    /\ UNCHANGED <<given, game, run, wins, cancelled>>

\* DeleteForWeek, BulkInsert and Commit, each of which needs a live context.
Store ==
    /\ pc = "returned" /\ ~cancelled
    /\ stored' = wins
    /\ pc' = "committed"
    /\ UNCHANGED <<given, game, run, wins, cancelled>>

Rollback ==
    /\ pc = "returned" /\ cancelled
    /\ pc' = "rolled_back"
    /\ UNCHANGED <<given, game, run, wins, cancelled, stored>>

Next ==
    \/ StartRun \/ PlayFixture \/ EndRun \/ Return
    \/ Cancel \/ Store \/ Rollback

Spec == Init /\ [][Next]_vars
-------------------------------------------------------------------------------
(* Properties *)

Total(credits) == MapThenSumSet(LAMBDA t : credits[t], Team)

\* The predictions that reach the database share out exactly 100 per cent,
\* although a cancelled Predict divides the credits of some runs by all Runs.
StoredSumToHundred == pc = "committed" => Total(stored) = Hundred

\* A team that cannot reach the points of another one any more, even if it won
\* all the matches it has left, has probability 0.
NoCreditToTheEliminated ==
    LET MostPoints(t) == Standings[t].points
                             + 3 * Cardinality({m \in UnplayedIn(score) : Plays(t, m)})
    IN  pc = "committed" =>
            \A t, u \in Team : Standings[u].points > MostPoints(t) => stored[t] = 0

\* The draws of a run alone decide how it ends: the remaining fixtures played
\* once from the given table and forms.  Nothing is left of earlier runs.
RunsAreIndependent ==
    LET Played(m, s) == LET goals == Simulate(m, s.forms, drawn[m])
                        IN  [table |-> ApplyMatch(s.table, Home[m], Away[m], goals),
                             forms |-> RecordMatch(s.forms, m, goals)]
        Start == [table |-> Standings, forms |-> startForms]
        replay[n \in 0 .. Cardinality(Match)] ==
            IF n = 0 THEN Start
            ELSE IF n \in DOMAIN drawn THEN Played(n, replay[n - 1]) ELSE replay[n - 1]
    IN  pc = "playing" => [table |-> sim, forms |-> forms] = replay[Cardinality(Match)]

\* Whatever is drawn, the simulator stays within the scores that
\* ValidateEditFixture accepts from a client: its cap and the validator's
\* bound are two constants, and the sampler alone may return maxIterations.
SimulatedScoresAreEditable ==
    pc = "playing" /\ Left # {} =>
        \A u \in Draw \X Draw : ValidateEditFixture(Simulate(NextFixture, forms, u))

\* "Across the league [the probabilities] sum to ~100", of whatever Predict
\* returns.
ReturnedSumToHundred == pc = "returned" => Total(wins) = Hundred
===============================================================================
