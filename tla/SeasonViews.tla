------------------------------ MODULE SeasonViews ------------------------------
(***************************************************************************)
(* The rows of a season (League) and the cache in front of them            *)
(* (StandingsCache) as one server: the handlers of the writes evict when   *)
(* their service call returns without an error, the readers answer from    *)
(* the cache or from the tables.                                           *)
(*                                                                         *)
(* What the cache takes for version v is entry v of the log, the rows of   *)
(* standings and fixtures that the commits of the season have made.        *)
(***************************************************************************)
EXTENDS League

CONSTANT Reader  \* the request goroutines that only read

ASSUME ReadersDoNotWrite == Reader \cap Proc = {}

VARIABLES log,      \* history: the tables that each commit made visible
          handler,  \* what each request does next, as its handler sees it
          seen,     \* the entries of the log that a read has met so far
          cached,   \* the cached ranking, if there is one
          excused   \* history: see StandingsCache

views == <<handler, seen, cached, excused>>
allVars == <<vars, log, views>>

Cache == INSTANCE StandingsCache WITH
             Proc <- Proc \cup Reader,
             Faults <- TRUE,
             MaxCommits <- MaxRequests * TotalWeeks,
             version <- Len(log) - 1,
             pc <- handler

Tables0 == [score |-> NoResults, table |-> ZeroTable]
CommitPC == {"commit_week", "commit_edit", "commit_reset"}

-------------------------------------------------------------------------------

\* The call of the service that each write handler makes.
Request(p) ==
    /\ UNCHANGED log
    /\ \/ AcceptPlayAll(p) /\ Cache!PlayAll(p)
       \/ AcceptSimulate(p) /\ Cache!WriteOnce(p)
       \/ AcceptEdit(p) /\ Cache!WriteOnce(p)
       \/ AcceptReset(p) /\ Cache!WriteOnce(p)

\* A statement of the service call.
Statement(p) ==
    /\ pc[p] \notin CommitPC
    /\ Step(p) /\ pc'[p] # "idle"
    /\ UNCHANGED <<log, views>>

CommitTables(p) ==
    /\ pc[p] \in CommitPC
    /\ Step(p)
    /\ log' = Append(log, [score |-> score', table |-> standings'])
    /\ Cache!Commit(p)

\* The service call returns without an error: PlayAll finds the season over,
\* the others have committed, and a simulation has read its view.
ReturnsSilently(p) ==
    /\ UNCHANGED log
    /\ \/ pc[p] = "play_next" /\ SeasonOver /\ PlayNext(p)
       \/ handler[p] = "committed" /\ UNCHANGED vars
    /\ Cache!EvictNothing(p)

Returns(p) ==
    /\ UNCHANGED log
    /\ \/ pc[p] = "play_next" /\ SeasonOver /\ PlayNext(p)
       \/ handler[p] = "committed" /\ UNCHANGED vars
    /\ Cache!Evict(p)

\* The service call returns an error, before or after a commit.
ReturnsError(p) ==
    /\ UNCHANGED log
    /\ \/ pc[p] \notin CommitPC \cup {"play_next"} /\ Step(p) /\ pc'[p] = "idle"
       \/ Fail(p) \/ DeadlockVictim(p)
       \/ handler[p] = "committed" /\ UNCHANGED vars
    /\ Cache!WriteFails(p)

ReadRequest(r) ==
    /\ UNCHANGED <<vars, log>>
    /\ Cache!Miss(r) \/ Cache!GetWeek(r) \/ Cache!Read(r)

Expire == UNCHANGED <<vars, log>> /\ Cache!Expire

-------------------------------------------------------------------------------

ViewsInit == Init /\ log = <<Tables0>> /\ Cache!Init

ViewsNext ==
    \/ \E p \in Proc : \/ Request(p) \/ Statement(p) \/ CommitTables(p)
                       \/ Returns(p) \/ ReturnsError(p)
    \/ \E r \in Reader : ReadRequest(r)
    \/ Expire

ViewsSpec == ViewsInit /\ [][ViewsNext]_allVars
-------------------------------------------------------------------------------
(* Properties *)

At(v) == log[v + 1]

\* The matches of a team among those of a set.
MatchesOf(t, matches) == {m \in matches : Plays(t, m)}

Counts(table, matches) ==
    \A t \in Team : table[t].played >= Cardinality(MatchesOf(t, matches))
CountsOnly(table, matches) ==
    \A t \in Team : table[t].played <= Cardinality(MatchesOf(t, matches))

\* Without Reset, the matches that break the ties of a cached table are at
\* least those that the table counts, although the two were read apart and the
\* table was computed from a read of its own.
CachedRankingKnowsItsMatches ==
    \A e \in cached : CountsOnly(At(e.rows).table, PlayedIn(At(e.played).score))

\* Without Edit and Reset, the table that GetWeek shows with the results of a
\* week counts each of them.
WeekTableCountsItsResults ==
    \A r \in Reader : handler[r] = "week_answer" =>
        Counts(At(seen[r].rows).table, PlayedIn(At(seen[r].fixtures).score))

\* Without Edit and Reset, what the cache serves while no request runs is the
\* table of the committed results, unless a fill was overtaken by a commit or a
\* handler has failed after one.
QuietCacheServesResults ==
    Cache!Quiet /\ ~excused =>
        \A e \in cached : /\ At(e.rows).table = Calculate(score)
                          /\ At(e.played).score = score
===============================================================================
