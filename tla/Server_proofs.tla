---------------------------- MODULE Server_proofs -----------------------------
(*****************************************************************************)
(* The connection pool cannot deadlock as long as it has more connections    *)
(* than there are requests, or nobody sends an Edit.  The shutdown of the    *)
(* server drops no request in silence, and until it exits the pool serves    *)
(* its requests as it does without a shutdown.                               *)
(*****************************************************************************)
EXTENDS Server, FiniteSetTheorems, TLAPS

Spare == Cardinality(Proc) < MaxConns \/ "edit" \notin Ops

\* Where a request is inside a transaction.
Tx == {"lock_fixtures", "results", "reading_results", "lock_standings", "edit_read",
       "edit_reading", "end_tx", "rollback"}

\* Who holds connections and rows follows from where the requests are.
IInv ==
    /\ TypeOK
    /\ inTx = {p \in Proc : pc[p] \in Tx}
    /\ inRead = {p \in Proc : pc[p] \in {"reading", "reading_results", "edit_reading", "viewing"}}
    /\ \A f \in Season \X Match : fixtureHolder[f] # Nobody => pc[fixtureHolder[f]] \in Tx
    /\ \A s \in Season : standingsHolder[s] # Nobody => pc[standingsHolder[s]] \in Tx
    /\ \A p \in Proc :
          /\ pc[p] \in {"results", "reading_results", "edit_read", "edit_reading"} => "edit" \in Ops
          /\ pc[p] \in {"read", "reading", "begin_tx", "lock_fixtures", "results",
                        "reading_results", "lock_standings"} => op[p] \in Ops

-------------------------------------------------------------------------------

LEMMA InitIInv == Init => IInv
BY NobodyIsNoProc DEF Init, IInv, TypeOK, PC, Tx

\* A step of one request moves its pc, its connections and its rows together.
LEMMA StepIInv == IInv /\ [Next]_vars => IInv'
<1> SUFFICES ASSUME IInv, [Next]_vars PROVE IInv'
    OBVIOUS
<1> USE NobodyIsNoProc DEF IInv, TypeOK, PC, Tx
<1>1. CASE UNCHANGED vars
    BY <1>1 DEF vars, request, locks
<1>2. ASSUME NEW p \in Proc, Arrive(p) PROVE IInv'
    BY <1>2, OpsTyped, WeekTyped DEF Arrive, Targets, Goto, locks
<1>3. ASSUME NEW p \in Proc, ReadFirst(p) PROVE IInv'
    BY <1>3 DEF ReadFirst, Query, Goto, request, locks
<1>4. ASSUME NEW p \in Proc, EndReadFirst(p) PROVE IInv'
    BY <1>4 DEF EndReadFirst, CloseRows, Goto, request, locks
<1>5. ASSUME NEW p \in Proc, BeginTx(p) PROVE IInv'
    BY <1>5 DEF BeginTx, Goto, request, locks
<1>6. ASSUME NEW p \in Proc, LockFixture(p) PROVE IInv'
    BY <1>6, OpsTyped DEF LockFixture, NextToLock, AfterFixtures, Goto, request
<1>7. ASSUME NEW p \in Proc, LockStandings(p) PROVE IInv'
    BY <1>7, OpsTyped DEF LockStandings, AfterStandings, Goto, request
<1>8. ASSUME NEW p \in Proc, ReadResults(p) PROVE IInv'
    BY <1>8 DEF ReadResults, Query, Goto, request, locks
<1>9. ASSUME NEW p \in Proc, EndReadResults(p) PROVE IInv'
    BY <1>9 DEF EndReadResults, CloseRows, Goto, request, locks
<1>10. ASSUME NEW p \in Proc, EditRead(p) PROVE IInv'
    BY <1>10 DEF EditRead, Query, Goto, request, locks
<1>11. ASSUME NEW p \in Proc, EndEditRead(p) PROVE IInv'
    BY <1>11 DEF EndEditRead, CloseRows, Goto, request, locks
<1>12. ASSUME NEW p \in Proc, EndTx(p) PROVE IInv'
    BY <1>12 DEF EndTx, Release, Unlock, Goto
<1>13. ASSUME NEW p \in Proc, View(p) PROVE IInv'
    BY <1>13 DEF View, Query, Goto, request, locks
<1>14. ASSUME NEW p \in Proc, EndView(p) PROVE IInv'
    BY <1>14 DEF EndView, CloseRows, Goto, request, locks
<1>15. ASSUME NEW p \in Proc, Rollback(p) PROVE IInv'
    BY <1>15 DEF Rollback, Release, Unlock, Goto
<1>16. ASSUME NEW p \in Proc, Fail(p) PROVE IInv'
    BY <1>16 DEF Fail, locks
<1>17. ASSUME NEW p \in Proc, DeadlockVictim(p) PROVE IInv'
    BY <1>16, <1>17 DEF DeadlockVictim
<1> QED
    BY <1>1, <1>2, <1>3, <1>4, <1>5, <1>6, <1>7, <1>8, <1>9, <1>10, <1>11, <1>12, <1>13, <1>14,
       <1>15, <1>16, <1>17
    DEF Next, Step

\* If everybody waited, nobody would be reading; then a connection is free or
\* no transaction ever asks for a second one, so that whoever waits for rows
\* waits for a transaction that waits for rows itself.
LEMMA IInvNoPoolDeadlock == Spare /\ IInv => NoPoolDeadlock
<1> DEFINE D == {p \in Busy : WaitsForRows(p)}
<1> SUFFICES ASSUME Spare, IInv, NEW b \in Busy,
                    \A p \in Busy : WaitsForConn(p) \/ WaitsForRows(p)
             PROVE  D # {} /\ WaitAmongThemselves(D)
  <2>1. D \subseteq Busy
      OBVIOUS
  <2>2. D # {} /\ WaitAmongThemselves(D) =>
            \E E \in (SUBSET Busy) \ {{}} : WaitAmongThemselves(E)
      BY <2>1
  <2> HIDE DEF D
  <2> QED
      BY <2>2 DEF NoPoolDeadlock
<1>1. Busy \subseteq Proc /\ \A p \in Proc : pc[p] # "idle" => p \in Busy
    BY DEF Busy
<1>2. \A p \in Proc : WaitsForRows(p) => pc[p] \in {"lock_fixtures", "lock_standings"}
    BY DEF WaitsForRows, BlockedBy
<1>3. inRead = {}
    BY <1>1, <1>2 DEF IInv, WaitsForConn, Acquiring
<1>4. IsFiniteSet(inTx) /\ Cardinality(inTx) \in Nat /\ Cardinality(inTx) <= Cardinality(Proc)
    BY ProcFinite, FS_Subset, FS_CardinalityType DEF IInv, TypeOK
<1>5. Free = MaxConns - Cardinality(inTx)
    BY <1>3, <1>4, FS_EmptySet, MaxConnsPositive DEF Free
<1>6. \A p \in Busy : pc[p] \in Tx => WaitsForRows(p)
  <2>1. CASE Cardinality(Proc) < MaxConns
    <3>1. ~ Free <= 0
        BY <2>1, <1>4, <1>5, ProcFinite, FS_CardinalityType, MaxConnsPositive
    <3> QED
        BY <3>1 DEF WaitsForConn
  <2>2. CASE "edit" \notin Ops
      BY <2>2, <1>1 DEF IInv, Tx, WaitsForConn, Acquiring
  <2> QED
      BY <2>1, <2>2 DEF Spare
<1>7. D # {}
  <2>1. SUFFICES ASSUME D = {} PROVE FALSE
      OBVIOUS
  <2>2. inTx = {}
      BY <2>1, <1>1, <1>6 DEF IInv, Tx
  <2>3. ~ Free <= 0
      BY <2>2, <1>5, FS_EmptySet, MaxConnsPositive
  <2> QED
      BY <2>1, <2>3 DEF WaitsForConn
<1>8. ASSUME NEW p \in D PROVE BlockedBy(p) \cap D # {}
  <2>1. PICK q \in BlockedBy(p) : TRUE
      BY DEF WaitsForRows
  <2>2. q \in Proc /\ pc[q] \in Tx
      BY <1>1, <2>1, NobodyIsNoProc DEF BlockedBy, NextToLock, IInv, TypeOK
  <2>3. q \in D
      BY <2>2, <1>1, <1>6 DEF Tx
  <2> QED
      BY <2>1, <2>3
<1> QED
    BY <1>7, <1>8 DEF WaitAmongThemselves

-------------------------------------------------------------------------------

\* Who holds what is always as IInv says.
THEOREM PoolInvariant == Spec => []IInv
<1>1. Init => IInv
    BY InitIInv
<1>2. IInv /\ [Next]_vars => IInv'
    BY StepIInv
<1> QED
    BY <1>1, <1>2, PTL DEF Spec

\* With more connections than requests, or without Edits, the requests never
\* starve one another of connections: in every state one of them can go on, or
\* PostgreSQL has a circle of row waits to break.
THEOREM PoolNeverDeadlocks == Spare => (Spec => []NoPoolDeadlock)
<1> SUFFICES ASSUME Spare PROVE Spec => []NoPoolDeadlock
    OBVIOUS
<1>1. IInv => NoPoolDeadlock
    BY IInvNoPoolDeadlock
<1> QED
    BY <1>1, PoolInvariant, PTL

-------------------------------------------------------------------------------
(*****************************************************************************)
(* The server around the pool                                                *)
(*****************************************************************************)

\* Once Shutdown has returned without an error no request runs, and none can
\* begin; a server that has not started or has exited runs none either.
NobodyLeft ==
    /\ phase \in {"starting", "exited"} => Busy = {}
    /\ phase = "closing" /\ ~failed => Busy = {}

ServerInv ==
    /\ IInv
    /\ phase \in Phase /\ failed \in BOOLEAN /\ dropped \in BOOLEAN
    /\ NobodyLeft
    /\ CleanStopDropsNobody

LEMMA InitServerInv == ServerInit => ServerInv
<1> SUFFICES ASSUME ServerInit PROVE ServerInv
    OBVIOUS
<1>1. IInv
    BY InitIInv DEF ServerInit
<1>2. Busy = {}
    BY DEF ServerInit, Init, Busy
<1>3. /\ phase \in Phase /\ failed \in BOOLEAN /\ dropped \in BOOLEAN
      /\ CleanStopDropsNobody
    BY Zenon DEF ServerInit, Phase, CleanStopDropsNobody
<1> QED
    BY <1>1, <1>2, <1>3, Zenon DEF ServerInv, NobodyLeft

\* The requests that run move as in ConnPool.
LEMMA StepPool ==
    ASSUME ServerNext, ~Exit
    PROVE  [Next]_vars
BY DEF ServerNext, Start, StartFails, ServeFails, Signal, Drained, DrainTimesOut,
       Accept, Work, Refuse, Stumble, Next

\* The end of the process takes no transaction with it: nobody holds anything.
LEMMA ExitIInv == IInv /\ Exit => IInv'
<1> SUFFICES ASSUME IInv, Exit PROVE IInv'
    OBVIOUS
<1>1. /\ \A f \in Season \X Match : fixtureHolder[f] = Nobody
      /\ \A s \in Season : standingsHolder[s] = Nobody
    BY DEF IInv, TypeOK, Exit
<1> QED
    BY <1>1 DEF IInv, TypeOK, Exit, Tx, PC, request, locks

LEMMA StepServerInv == ServerInv /\ [ServerNext]_serverVars => ServerInv'
<1> SUFFICES ASSUME ServerInv, [ServerNext]_serverVars PROVE ServerInv'
    OBVIOUS
<1>1. IInv'
  <2>1. CASE UNCHANGED serverVars
      BY <2>1, StepIInv, Zenon DEF serverVars, ServerInv
  <2>2. CASE Exit
      BY <2>2, ExitIInv DEF ServerInv
  <2>3. CASE ServerNext /\ ~Exit
      BY <2>3, StepPool, StepIInv DEF ServerInv
  <2> QED
      BY <2>1, <2>2, <2>3
<1>2. phase' \in Phase /\ failed' \in BOOLEAN /\ dropped' \in BOOLEAN
  <2>1. phase' \in Phase
      BY DEF ServerInv, ServerNext, serverVars, life, Start, StartFails, ServeFails, Signal, Drained,
             DrainTimesOut, Exit, Accept, Work, Refuse, Stumble, Enter, Phase
  <2>2. failed' \in BOOLEAN
      BY Zenon DEF ServerInv, ServerNext, serverVars, life, Start, StartFails, ServeFails, Signal,
             Drained, DrainTimesOut, Exit, Accept, Work, Refuse, Stumble
  <2>3. dropped' \in BOOLEAN
      BY DEF ServerInv, ServerNext, serverVars, life, Start, StartFails, ServeFails, Signal, Drained,
             DrainTimesOut, Exit, Accept, Work, Refuse, Stumble, Busy
  <2> QED
      BY <2>1, <2>2, <2>3
<1>3. NobodyLeft' /\ CleanStopDropsNobody'
  <2> USE DEF ServerInv, NobodyLeft, CleanStopDropsNobody, Busy, Enter, vars
  <2>1. CASE UNCHANGED serverVars
      BY <2>1 DEF serverVars, life
  <2>2. CASE Start \/ Signal
      BY <2>2 DEF Start, Signal
  <2>3. CASE StartFails \/ ServeFails \/ DrainTimesOut
      BY <2>3 DEF StartFails, ServeFails, DrainTimesOut
  <2>4. CASE Drained
      BY <2>4 DEF Drained
  <2>5. CASE Exit
      BY <2>5 DEF Exit
  <2>6. ASSUME NEW p \in Proc, Accept(p) PROVE NobodyLeft' /\ CleanStopDropsNobody'
      BY <2>6 DEF Accept, life
  <2>7. ASSUME NEW p \in Proc, Work(p) \/ Stumble(p)
        PROVE  NobodyLeft' /\ CleanStopDropsNobody'
    <3>1. pc[p] # "idle"
        BY <2>7 DEF Work, Stumble, Step, Fail, ReadFirst, EndReadFirst, BeginTx, LockFixture,
               LockStandings, ReadResults, EndReadResults, EditRead, EndEditRead, EndTx, View,
               EndView, Rollback, DeadlockVictim, Query, CloseRows, Goto
    <3> QED
        BY <2>7, <3>1 DEF Work, Stumble, life
  <2>8. ASSUME NEW p \in Proc, Refuse(p) PROVE NobodyLeft' /\ CleanStopDropsNobody'
      BY <2>8 DEF Refuse, Fail
  <2> QED
      BY <2>1, <2>2, <2>3, <2>4, <2>5, <2>6, <2>7, <2>8 DEF ServerNext
<1> QED
    BY <1>1, <1>2, <1>3, Zenon DEF ServerInv

THEOREM ServerInvariant == ServerSpec => []ServerInv
BY InitServerInv, StepServerInv, PTL DEF ServerSpec

\* However the requests and the signal interleave, a run that returns nil has
\* refused no request a connection and has cut none off.
THEOREM CleanStop == ServerSpec => []CleanStopDropsNobody
<1>1. ServerInv => CleanStopDropsNobody
    BY DEF ServerInv
<1> QED
    BY <1>1, ServerInvariant, PTL

\* Whatever fails and however the server stops, no answered request keeps a
\* connection or rows.
THEOREM ServerLeaksNothing == ServerSpec => []NothingLeaks
PROOF
<1>1. ServerInv => NothingLeaks
    BY DEF ServerInv, IInv, TypeOK, NothingLeaks, Busy, Tx
<1> QED
    BY <1>1, ServerInvariant, PTL

\* With more connections than requests, or without Edits, some request can
\* always go on, or a circle of row waits be broken, before and during the
\* shutdown.
THEOREM ServerPoolNeverDeadlocks == Spare => (ServerSpec => []NoPoolDeadlock)
<1> SUFFICES ASSUME Spare PROVE ServerSpec => []NoPoolDeadlock
    OBVIOUS
<1>1. ServerInv => NoPoolDeadlock
    BY IInvNoPoolDeadlock DEF ServerInv
<1> QED
    BY <1>1, ServerInvariant, PTL

-------------------------------------------------------------------------------
(* The server implements GracefulServer *)

\* A step of a request takes it, answers it, or nobody outside notices.
LEMMA RequestGraceful ==
    ASSUME ServerInv, NEW p \in Proc, Accept(p) \/ Work(p) \/ Refuse(p) \/ Stumble(p)
    PROVE  [Graceful!Next]_(Graceful!vars)
<1>1. phase' = phase /\ failed' = failed
    BY DEF Accept, Work, Refuse, Stumble, life
<1>2. Busy' = Busy \/ Busy' = Busy \ {p} \/ (Accept(p) /\ Busy' = Busy \cup {p})
  <2>0. \A q \in Proc : q # p => pc'[q] = pc[q]
      BY DEF ServerInv, IInv, TypeOK, Accept, Arrive, Work, Refuse, Stumble, Step, Fail, ReadFirst, EndReadFirst, BeginTx, LockFixture,
               LockStandings, ReadResults, EndReadResults, EditRead, EndEditRead, EndTx, View,
               EndView, Rollback, DeadlockVictim,
             Query, CloseRows, Goto
  <2>1. Accept(p) => pc'[p] # "idle"
      BY DEF ServerInv, IInv, TypeOK, Accept, Arrive, Goto
  <2>2. Work(p) \/ Refuse(p) \/ Stumble(p) => pc[p] # "idle"
      BY DEF Work, Refuse, Stumble, Step, Fail, ReadFirst, EndReadFirst, BeginTx, LockFixture,
               LockStandings, ReadResults, EndReadResults, EditRead, EndEditRead, EndTx, View,
               EndView, Rollback, DeadlockVictim, Query, CloseRows, Goto
  <2> QED
      BY <2>0, <2>1, <2>2 DEF Busy
<1>3. CASE Busy' = Busy
    BY <1>1, <1>3 DEF Graceful!vars
<1>4. CASE p \in Busy /\ Busy' = Busy \ {p}
    BY <1>1, <1>4 DEF Graceful!Next, Graceful!Answer
<1>5. CASE Accept(p) /\ p \notin Busy /\ Busy' = Busy \cup {p}
    BY <1>1, <1>5 DEF Graceful!Next, Graceful!Take, Accept
<1>6. CASE p \in Busy /\ Busy' = Busy \cup {p}
    BY <1>3, <1>6
<1>7. CASE p \notin Busy /\ Busy' = Busy \ {p}
    BY <1>3, <1>7
<1> QED
    BY <1>2, <1>3, <1>4, <1>5, <1>6, <1>7

\* Safety only: the server takes requests between its start and the signal,
\* and goes down with requests unanswered only if it then reports an error.
THEOREM ServerIsGraceful == ServerSpec => Graceful!Spec
<1>1. ServerInit => Graceful!Init
    BY DEF ServerInit, Init, Busy, Graceful!Init
<1>2. ServerInv /\ [ServerNext]_serverVars => [Graceful!Next]_(Graceful!vars)
  <2> SUFFICES ASSUME ServerInv, [ServerNext]_serverVars
               PROVE  [Graceful!Next]_(Graceful!vars)
      OBVIOUS
  <2> USE DEF Enter, Busy, vars
  <2>1. CASE UNCHANGED serverVars
      BY <2>1 DEF serverVars, life, Graceful!vars
  <2>2. CASE Start
      BY <2>2 DEF Start, Graceful!Next, Graceful!Up
  <2>3. CASE StartFails
      BY <2>3 DEF StartFails, Graceful!Next, Graceful!FailToStart
  <2>4. CASE ServeFails
      BY <2>4 DEF ServeFails, Graceful!Next, Graceful!Stop
  <2>5. CASE Signal
      BY <2>5 DEF Signal, ServerInv, Graceful!Next, Graceful!Stop
  <2>6. CASE Drained
      BY <2>6 DEF Drained, Graceful!vars
  <2>7. CASE DrainTimesOut
      BY <2>7 DEF DrainTimesOut, Graceful!Next, Graceful!GiveUp
  <2>8. CASE Exit
      BY <2>8 DEF Exit, ServerInv, NobodyLeft, Graceful!Next, Graceful!Down
  <2>9. ASSUME NEW p \in Proc, Accept(p) \/ Work(p) \/ Refuse(p) \/ Stumble(p)
        PROVE  [Graceful!Next]_(Graceful!vars)
      BY <2>9, RequestGraceful
  <2> QED
      BY <2>1, <2>2, <2>3, <2>4, <2>5, <2>6, <2>7, <2>8, <2>9 DEF ServerNext
<1> QED
    BY <1>1, <1>2, ServerInvariant, PTL DEF ServerSpec, Graceful!Spec
===============================================================================
