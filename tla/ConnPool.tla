------------------------------- MODULE ConnPool -------------------------------
(***************************************************************************)
(* The connections of the pgxpool under concurrent requests.  Simulations  *)
(* and Resets read through the pool only outside their transaction; Edit   *)
(* reads through it while its own transaction holds a connection and rows: *)
(* first the fixture it has updated, then the standings as well.  Nothing  *)
(* bounds how long a request waits: neither the server nor the handlers    *)
(* set a deadline.                                                         *)
(*                                                                         *)
(* A transaction locks fixtures one by one, and the rest of a season       *)
(* (standings, form, season, predictions) as one row, its standings.       *)
(* A run of pool reads is one read: each takes a connection and gives it   *)
(* back.                                                                   *)
(***************************************************************************)
EXTENDS FiniteSets, Integers

CONSTANTS Proc,      \* the requests the server works on
          Season,    \* the seasons they work on
          Match,     \* the fixtures of a season, by their ids
          Week,      \* the fixtures of each week
          MaxConns,  \* connections of the pool
          Nobody,    \* holds a row that is not locked
          Ops        \* the requests the clients send

ASSUME ProcFinite == IsFiniteSet(Proc)
ASSUME MatchTyped == Match \subseteq Nat
ASSUME WeekTyped == Week \subseteq SUBSET Match
ASSUME MaxConnsPositive == MaxConns \in Nat \ {0}
ASSUME NobodyIsNoProc == Nobody \notin Proc
ASSUME OpsTyped == Ops \subseteq {"simulate", "edit", "reset"}

VARIABLES pc,               \* what each request does next
          op,               \* the request it serves, until its transaction ends
          season,           \* the season it works on
          toLock,           \* the fixtures it has still to lock
          inTx,             \* the requests whose transaction holds a connection
          inRead,           \* the requests whose pool read holds a connection
          fixtureHolder,    \* the transaction that has locked each fixture
          standingsHolder   \* the transaction that has locked the standings

request == <<op, season>>
locks == <<fixtureHolder, standingsHolder>>
vars == <<pc, request, toLock, inTx, inRead, locks>>

Free == MaxConns - Cardinality(inTx) - Cardinality(inRead)

Goto(p, from, to) == pc[p] = from /\ pc' = [pc EXCEPT ![p] = to]

\* Query acquires a connection; closing its rows gives it back.
Query(p, from, to) ==
    /\ Free > 0
    /\ Goto(p, from, to)
    /\ inRead' = inRead \cup {p}
    /\ UNCHANGED <<request, toLock, inTx, locks>>

CloseRowsForgotten(p, from, to) ==
    /\ Goto(p, from, to)
    /\ UNCHANGED <<request, toLock, inTx, inRead, locks>>

CloseRows(p, from, to) ==
    /\ Goto(p, from, to)
    /\ inRead' = inRead \ {p}
    /\ UNCHANGED <<request, toLock, inTx, locks>>

-------------------------------------------------------------------------------
(* The steps of a request *)

\* The fixtures a request locks: those of the week it plays, the one it edits,
\* or all of the season.
Targets(o) ==
    CASE o = "simulate" -> Week
      [] o = "edit" -> {{m} : m \in Match}
      [] o = "reset" -> {Match}

\* An Edit has nothing to read before its transaction.
Arrive(p) ==
    \E o \in Ops, s \in Season :
        /\ Goto(p, "idle", IF o = "edit" THEN "begin_tx" ELSE "read")
        /\ op' = [op EXCEPT ![p] = o]
        /\ season' = [season EXCEPT ![p] = s]
        /\ \E matches \in Targets(o) : toLock' = [toLock EXCEPT ![p] = matches]
        /\ UNCHANGED <<inTx, inRead, locks>>

ReadFirst(p) == Query(p, "read", "reading")
EndReadFirst(p) == CloseRows(p, "reading", "begin_tx")

\* Reset deletes the standings before the fixtures; the others lock fixtures
\* first.
BeginTx(p) ==
    /\ Free > 0
    /\ Goto(p, "begin_tx", IF op[p] = "reset" THEN "lock_standings" ELSE "lock_fixtures")
    /\ inTx' = inTx \cup {p}
    /\ UNCHANGED <<request, toLock, inRead, locks>>

\* Rows are locked in the order of their ids.
NextToLock(p) == {m \in toLock[p] : \A n \in toLock[p] : m <= n}

AfterFixtures(o) ==
    CASE o = "simulate" -> "lock_standings"
      [] o = "edit" -> "results"
      [] o = "reset" -> "end_tx"

AfterStandings(o) ==
    CASE o = "simulate" -> "end_tx"
      [] o = "edit" -> "edit_read"
      [] o = "reset" -> "lock_fixtures"

\* A statement that waits for a row keeps the connection, and the rows that it
\* and the statements before it have locked.
LockFixture(p) ==
    \E m \in NextToLock(p) :
        /\ fixtureHolder[<<season[p], m>>] = Nobody
        /\ Goto(p, "lock_fixtures",
                IF toLock[p] = {m} THEN AfterFixtures(op[p]) ELSE "lock_fixtures")
        /\ fixtureHolder' = [fixtureHolder EXCEPT ![<<season[p], m>>] = p]
        /\ toLock' = [toLock EXCEPT ![p] = @ \ {m}]
        /\ UNCHANGED <<request, inTx, inRead, standingsHolder>>

LockStandings(p) ==
    /\ standingsHolder[season[p]] = Nobody
    /\ Goto(p, "lock_standings", AfterStandings(op[p]))
    /\ standingsHolder' = [standingsHolder EXCEPT ![season[p]] = p]
    /\ UNCHANGED <<request, toLock, inTx, inRead, fixtureHolder>>

\* With its fixture updated, Edit asks the pool for the teams and GetPlayed.
ReadResults(p) == Query(p, "results", "reading_results")
EndReadResults(p) == CloseRows(p, "reading_results", "lock_standings")

\* GetByID, GetRemaining, GetByWeek and the view of Edit ask the pool.
EditRead(p) == Query(p, "edit_read", "edit_reading")
EndEditRead(p) == CloseRows(p, "edit_reading", "end_tx")

Unlock(p) ==
    /\ fixtureHolder' = [f \in Season \X Match |->
                            IF fixtureHolder[f] = p THEN Nobody ELSE fixtureHolder[f]]
    /\ standingsHolder' = [s \in Season |->
                            IF standingsHolder[s] = p THEN Nobody ELSE standingsHolder[s]]

\* Commit and Rollback give the connection and the rows back.
Release(p) ==
    /\ inTx' = inTx \ {p}
    /\ Unlock(p)
    /\ op' = [op EXCEPT ![p] = "none"]
    /\ UNCHANGED <<season, toLock, inRead>>

EndTx(p) == Goto(p, "end_tx", IF op[p] = "simulate" THEN "view" ELSE "idle") /\ Release(p)

\* The response of a simulation shows the committed standings.
View(p) == Query(p, "view", "viewing")
EndView(p) == CloseRows(p, "viewing", "idle")

FailSkipsRollback(p) ==
    /\ pc[p] \notin {"idle", "rollback"}
    /\ pc' = [pc EXCEPT ![p] = "idle"]
    /\ toLock' = [toLock EXCEPT ![p] = {}]
    /\ op' = [op EXCEPT ![p] = "none"]
    /\ inRead' = inRead \ {p}
    /\ UNCHANGED <<season, inTx, locks>>

\* A statement fails, or the client goes away; a transaction that is open keeps
\* its connection and its rows until the deferred Rollback.
Fail(p) ==
    /\ pc[p] \notin {"idle", "rollback"}
    /\ pc' = [pc EXCEPT ![p] = IF p \in inTx THEN "rollback" ELSE "idle"]
    /\ toLock' = [toLock EXCEPT ![p] = {}]
    /\ op' = [op EXCEPT ![p] = "none"]
    /\ inRead' = inRead \ {p}
    /\ UNCHANGED <<season, inTx, locks>>

Rollback(p) == Goto(p, "rollback", "idle") /\ Release(p)

\* The transaction that has the row p waits for: none, or one.
BlockedBy(p) ==
    {q \in Proc :
        \/ pc[p] = "lock_fixtures" /\ \E m \in NextToLock(p) : fixtureHolder[<<season[p], m>>] = q
        \/ pc[p] = "lock_standings" /\ standingsHolder[season[p]] = q}

WaitAmongThemselves(D) == \A p \in D : BlockedBy(p) \cap D # {}

Circle(D) ==
    /\ D # {} /\ WaitAmongThemselves(D)
    /\ \A E \in SUBSET D : WaitAmongThemselves(E) => E \in {{}, D}

\* PostgreSQL breaks a circle of row waits at one of its transactions.
DeadlockVictim(p) ==
    /\ BlockedBy(p) # {}
    /\ \E D \in SUBSET Proc : p \in D /\ Circle(D)
    /\ Fail(p)

-------------------------------------------------------------------------------

\* The season of an idle process says nothing.
Init ==
    /\ pc = [p \in Proc |-> "idle"]
    /\ op = [p \in Proc |-> "none"]
    /\ season \in [Proc -> Season]
    /\ toLock = [p \in Proc |-> {}]
    /\ inTx = {}
    /\ inRead = {}
    /\ fixtureHolder = [f \in Season \X Match |-> Nobody]
    /\ standingsHolder = [s \in Season |-> Nobody]

Step(p) ==
    \/ ReadFirst(p) \/ EndReadFirst(p) \/ BeginTx(p) \/ LockFixture(p) \/ LockStandings(p)
    \/ ReadResults(p) \/ EndReadResults(p) \/ EditRead(p) \/ EndEditRead(p)
    \/ EndTx(p) \/ View(p) \/ EndView(p) \/ Rollback(p) \/ DeadlockVictim(p)

Next == \E p \in Proc : Arrive(p) \/ Step(p) \/ Fail(p)

Spec == Init /\ [][Next]_vars

\* The pool and PostgreSQL serve their waiters first come, first served, so
\* a request that could go on again and again goes on; no client has to go
\* away and no statement has to fail.
FairSpec == Spec /\ \A p \in Proc : SF_vars(Step(p))
-------------------------------------------------------------------------------
(* Properties *)

PC == {"idle", "read", "reading", "begin_tx", "lock_fixtures", "results", "reading_results",
       "lock_standings", "edit_read", "edit_reading", "end_tx", "rollback", "view", "viewing"}

TypeOK ==
    /\ pc \in [Proc -> PC]
    /\ op \in [Proc -> Ops \cup {"none"}]
    /\ season \in [Proc -> Season]
    /\ toLock \in [Proc -> SUBSET Match]
    /\ inTx \in SUBSET Proc
    /\ inRead \in SUBSET Proc
    /\ fixtureHolder \in [Season \X Match -> Proc \cup {Nobody}]
    /\ standingsHolder \in [Season -> Proc \cup {Nobody}]

Acquiring == {"read", "begin_tx", "results", "edit_read", "view"}

WaitsForConn(p) == pc[p] \in Acquiring /\ Free <= 0
WaitsForRows(p) == BlockedBy(p) # {}

Busy == {p \in Proc : pc[p] # "idle"}

\* Some request that the server works on can go on, or PostgreSQL makes one go
\* on by breaking a circle of row waits: it is not the case that all of them
\* wait for connections and rows that they hold themselves.  No database sees
\* such a deadlock, for the pool is not part of it.
NoPoolDeadlock ==
    Busy # {} => \/ \E p \in Busy : ~WaitsForConn(p) /\ ~WaitsForRows(p)
                 \/ \E D \in (SUBSET Busy) \ {{}} : WaitAmongThemselves(D)

\* An answered request has given back its connections, and whoever holds rows
\* still has the connection of the transaction that locked them.
NothingLeaks ==
    /\ inTx \cup inRead \subseteq Busy
    /\ \A f \in Season \X Match : fixtureHolder[f] # Nobody => fixtureHolder[f] \in inTx
    /\ \A s \in Season : standingsHolder[s] # Nobody => standingsHolder[s] \in inTx

\* Every request is answered, however the pool and the rows are contended: no
\* process is stuck in one for ever.
RequestsServed == \A p \in Proc : []<>(pc[p] = "idle")
===============================================================================
