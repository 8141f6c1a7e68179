---------------------------- MODULE StandingsCache ----------------------------
(***************************************************************************)
(* The in-memory cache of one season's standings: SeasonHandler.           *)
(* GetStandings reads through it, the handlers of SimulateNext, PlayAll,   *)
(* Edit and Reset evict the entry once their service call has returned     *)
(* without an error, and an entry expires TTL after it was set.            *)
(*                                                                         *)
(* The tables of the season are a version number: every commit makes a new *)
(* one.  Every SELECT of a read sees the version of its own moment: rows   *)
(* and played fixtures of an answer may be of two versions.  An answer     *)
(* served from the cache changes nothing and is a stuttering step.         *)
(***************************************************************************)
EXTENDS Naturals

CONSTANTS Proc,       \* the request goroutines
          Faults,     \* whether a service call may return an error
          MaxCommits  \* bound: writes committed in a behaviour

ASSUME FaultsTyped == Faults \in BOOLEAN
ASSUME MaxCommitsTyped == MaxCommits \in Nat

VARIABLES version,  \* the committed tables
          cached,   \* the entries under StandingsKey: one or none
          pc,       \* what each request does next
          seen,     \* the versions a read has met so far
          excused   \* history: the entry was filled by a GetStandings that a
                    \* commit had overtaken, or left by a handler that failed

vars == <<version, cached, pc, seen, excused>>

\* An entry ranks the rows of one version by the played fixtures of another.
Entry == [rows : 0 .. MaxCommits, played : 0 .. MaxCommits]

Fresh == cached \subseteq {[rows |-> version, played |-> version]}

Seen == [fixtures : 0 .. MaxCommits, rows : 0 .. MaxCommits, played : 0 .. MaxCommits]
Nothing == [fixtures |-> 0, rows |-> 0, played |-> 0]

Goto(p, from, to) == pc[p] = from /\ pc' = [pc EXCEPT ![p] = to]

Arrive(p, request) ==
    /\ Goto(p, "idle", request)
    /\ UNCHANGED <<version, cached, seen, excused>>

-------------------------------------------------------------------------------
(* GetStandings, and GetWeek, which asks the service and not the cache *)

Miss(p) == cached = {} /\ Arrive(p, "rows")
GetWeek(p) == Arrive(p, "week")

ReadWeek(p) ==
    /\ Goto(p, "week", "week_rows")
    /\ seen' = [seen EXCEPT ![p].fixtures = version]
    /\ UNCHANGED <<version, cached, excused>>

ReadRowsCached(p) ==
    /\ Goto(p, "rows", "played") \/ Goto(p, "week_rows", "week_played")
    /\ \E v \in {e.rows : e \in cached} \cup {version} : seen' = [seen EXCEPT ![p].rows = v]
    /\ UNCHANGED <<version, cached, excused>>

ReadRows(p) ==
    /\ Goto(p, "rows", "played") \/ Goto(p, "week_rows", "week_played")
    /\ seen' = [seen EXCEPT ![p].rows = version]
    /\ UNCHANGED <<version, cached, excused>>

ReadRowsLast(p) ==
    /\ Goto(p, "played", "fill") \/ Goto(p, "week_played", "week_answer")
    /\ seen' = [seen EXCEPT ![p].played = seen[p].rows, ![p].rows = version]
    /\ UNCHANGED <<version, cached, excused>>

ReadPlayed(p) ==
    /\ Goto(p, "played", "fill") \/ Goto(p, "week_played", "week_answer")
    /\ seen' = [seen EXCEPT ![p].played = version]
    /\ UNCHANGED <<version, cached, excused>>

\* Set replaces whatever is there by now.
Fill(p) ==
    /\ Goto(p, "fill", "idle")
    /\ cached' = {[rows |-> seen[p].rows, played |-> seen[p].played]}
    /\ excused' = ({seen[p].rows, seen[p].played} # {version})
    /\ seen' = [seen EXCEPT ![p] = Nothing]
    /\ UNCHANGED version

\* GetWeek leaves the cache alone.
AnswerWeek(p) ==
    /\ Goto(p, "week_answer", "idle")
    /\ seen' = [seen EXCEPT ![p] = Nothing]
    /\ UNCHANGED <<version, cached, excused>>

Reading == {"rows", "played", "fill", "week", "week_rows", "week_played", "week_answer"}

ReadFails(p) ==
    /\ Faults
    /\ \E from \in Reading : Goto(p, from, "idle")
    /\ seen' = [seen EXCEPT ![p] = Nothing]
    /\ UNCHANGED <<version, cached, excused>>

-------------------------------------------------------------------------------
(* Writes *)

WriteOnce(p) == Arrive(p, "write")
PlayAll(p) == Arrive(p, "play_all")

Commit(p) ==
    /\ version < MaxCommits
    /\ Goto(p, "write", "committed") \/ Goto(p, "play_all", "play_all")
    /\ version' = version + 1
    /\ UNCHANGED <<cached, seen, excused>>

EvictNothing(p) ==
    /\ \E from \in {"committed", "play_all"} : Goto(p, from, "idle")
    /\ UNCHANGED <<version, cached, seen, excused>>

Evict(p) ==
    /\ \E from \in {"committed", "play_all"} : Goto(p, from, "idle")
    /\ cached' = {}
    /\ excused' = FALSE
    /\ UNCHANGED <<version, seen>>

\* The handler returns before Evict, whatever has been committed: the weeks
\* PlayAll has played, or the one whose view SimulateNextWeek cannot read.
WriteFails(p) ==
    /\ Faults
    /\ \E from \in {"write", "committed", "play_all"} : Goto(p, from, "idle")
    /\ excused' = (excused \/ (pc[p] # "write" /\ ~Fresh))
    /\ UNCHANGED <<version, cached, seen>>

ExpireNever == FALSE /\ UNCHANGED vars

Expire ==
    /\ cached # {}
    /\ cached' = {}
    /\ excused' = FALSE
    /\ UNCHANGED <<version, pc, seen>>

\* The process dies and is started again: what was committed stays, what was
\* running or cached is gone.
Restart ==
    /\ Faults
    /\ cached' = {}
    /\ pc' = [p \in Proc |-> "idle"]
    /\ seen' = [p \in Proc |-> Nothing]
    /\ excused' = FALSE
    /\ UNCHANGED version

-------------------------------------------------------------------------------

Init ==
    /\ version = 0
    /\ cached = {}
    /\ pc = [p \in Proc |-> "idle"]
    /\ seen = [p \in Proc |-> Nothing]
    /\ excused = FALSE

Read(p) ==
    \/ ReadWeek(p) \/ ReadRows(p) \/ ReadPlayed(p)
    \/ Fill(p) \/ AnswerWeek(p) \/ ReadFails(p)

Next ==
    \/ \E p \in Proc : \/ Miss(p) \/ GetWeek(p) \/ Read(p)
                       \/ WriteOnce(p) \/ PlayAll(p) \/ Commit(p) \/ Evict(p) \/ WriteFails(p)
    \/ Expire \/ Restart

Spec == Init /\ [][Next]_vars

\* A read that has begun ends, and time passes; nothing makes a
\* client write, or a write succeed.
FairSpec == Spec /\ WF_vars(Expire) /\ \A p \in Proc : WF_vars(Read(p))
-------------------------------------------------------------------------------
(* Properties *)

PC == Reading \cup {"idle", "write", "committed", "play_all"}

TypeOK ==
    /\ version \in 0 .. MaxCommits
    /\ cached \in SUBSET Entry
    /\ pc \in [Proc -> PC]
    /\ seen \in [Proc -> Seen]
    /\ excused \in BOOLEAN

Quiet == \A p \in Proc : pc[p] = "idle"

\* "Evicted on every write": while no request is running, the cache does not
\* hold standings older than the committed ones.
FreshWhenQuiet == Quiet => Fresh

\* However requests overlap and fail, there are only two ways to a stale entry
\* that no running write will evict: a GetStandings that a commit overtakes
\* between its first read and its Set, and a handler that fails after a commit.
StaleOnlyIfExcused == Quiet /\ ~excused => Fresh

\* GetStandings ranks rows by played fixtures of the same version or a newer
\* one, never of an older one, however reads, commits and restarts overlap.
\* Unless a Reset comes between the two reads, which leaves rows that count
\* matches no longer played, the head-to-head then knows every match that the
\* rows count (CachedRankingKnowsItsMatches of SeasonViews).
HeadToHeadNotBehind == \A e \in cached : e.rows <= e.played

\* GetWeek answers with the "standings snapshot AS OF NOW": whatever is cached,
\* the table under the fixtures of the week is not older than they are, nor
\* newer than the matches that break its ties.
WeekAsOfNow ==
    \A p \in Proc : pc[p] = "week_answer" =>
        seen[p].fixtures <= seen[p].rows /\ seen[p].rows <= seen[p].played

\* "TTL is a fallback": once the writes are over, the cache ends up fresh for
\* good, whatever stale entries failed handlers and fills that overlapped a
\* write have left.
EventuallyFresh == <>[]Fresh
===============================================================================
