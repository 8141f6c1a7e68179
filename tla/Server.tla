-------------------------------- MODULE Server --------------------------------
(***************************************************************************)
(* The life of the process, run of cmd/server/main.go, around the requests *)
(* of ConnPool: configuration and pool, ListenAndServe, Shutdown with its  *)
(* timeout on the first signal, and the deferred pool.Close.               *)
(*                                                                         *)
(* net/http and pgxpool are external: Shutdown takes no request any more,  *)
(* waits for those that run and cancels none of them; Close refuses to     *)
(* hand out a connection and returns once all have been given back.        *)
(***************************************************************************)
EXTENDS ConnPool

VARIABLES phase,    \* where run is
          failed,   \* whether run returns an error
          dropped   \* history: a request was refused a connection by the closed
                    \* pool, or was running when the process ended

life == <<phase, failed, dropped>>
serverVars == <<vars, life>>

Phase == {"starting", "serving", "draining", "closing", "exited"}

Enter(from, to) == phase = from /\ phase' = to

-------------------------------------------------------------------------------
(* run *)

\* Load finds DATABASE_URL and PORT, and the database answers the Ping.
Start ==
    /\ Enter("starting", "serving")
    /\ UNCHANGED <<vars, failed, dropped>>

\* A variable is missing, or the Ping fails; newPool closes the pool itself.
StartFails ==
    /\ Enter("starting", "exited")
    /\ failed' = TRUE
    /\ UNCHANGED <<vars, dropped>>

\* ListenAndServe returns: the port is taken, or Accept fails for good.  The
\* requests that run are not waited for.
ServeFails ==
    /\ Enter("serving", "closing")
    /\ failed' = TRUE
    /\ UNCHANGED <<vars, dropped>>

\* SIGINT or SIGTERM; later ones only repeat ctx.Done.
Signal ==
    /\ Enter("serving", "draining")
    /\ UNCHANGED <<vars, failed, dropped>>

DrainedAtOnce ==
    /\ Enter("draining", "closing")
    /\ UNCHANGED <<vars, failed, dropped>>

\* Shutdown finds no connection active and returns nil.
Drained ==
    /\ Busy = {}
    /\ Enter("draining", "closing")
    /\ UNCHANGED <<vars, failed, dropped>>

\* shutdownTimeout has passed.
DrainTimesOut ==
    /\ Enter("draining", "closing")
    /\ failed' = TRUE
    /\ UNCHANGED <<vars, dropped>>

\* pool.Close has all its connections back, and main returns: a request that
\* waits for anything but the database is cut off.
Exit ==
    /\ inTx = {} /\ inRead = {}
    /\ Enter("closing", "exited")
    /\ dropped' = (dropped \/ Busy # {})
    /\ pc' = [p \in Proc |-> "idle"]
    /\ UNCHANGED <<request, toLock, inTx, inRead, locks, failed>>

-------------------------------------------------------------------------------
(* The requests *)

Accept(p) == phase = "serving" /\ Arrive(p) /\ UNCHANGED life

Work(p) ==
    /\ phase \in {"serving", "draining"} \/ (phase = "closing" /\ pc[p] \notin Acquiring)
    /\ Step(p)
    /\ UNCHANGED life

RefuseNobody(p) == FALSE /\ UNCHANGED serverVars

\* Acquire on a closed pool fails once it gets as far as looking: while every
\* connection is out it waits for one first.
Refuse(p) ==
    /\ phase = "closing"
    /\ pc[p] \in Acquiring /\ Free > 0
    /\ Fail(p)
    /\ dropped' = TRUE
    /\ UNCHANGED <<phase, failed>>

Stumble(p) == phase # "exited" /\ Fail(p) /\ UNCHANGED life

-------------------------------------------------------------------------------

ServerInit == Init /\ phase = "starting" /\ failed = FALSE /\ dropped = FALSE

ServerNext ==
    \/ Start \/ StartFails \/ ServeFails \/ Signal \/ Drained \/ DrainTimesOut \/ Exit
    \/ \E p \in Proc : Accept(p) \/ Work(p) \/ Refuse(p) \/ Stumble(p)

ServerSpec == ServerInit /\ [][ServerNext]_serverVars

\* As in ConnPool, and the goroutine of run goes on; nobody has to stop it.
ServerFairSpec ==
    /\ ServerSpec
    /\ \A p \in Proc : SF_serverVars(Work(p) \/ Refuse(p))
    /\ WF_serverVars(Drained \/ DrainTimesOut \/ Exit)
-------------------------------------------------------------------------------
(* Properties *)

ServerTypeOK ==
    /\ TypeOK
    /\ phase \in Phase
    /\ failed \in BOOLEAN
    /\ dropped \in BOOLEAN

\* A run that ends without an error has answered every request it had taken:
\* Shutdown waits for them before the pool is closed under them.
CleanStopDropsNobody == dropped => failed

Graceful ==
    INSTANCE GracefulServer WITH
        Request <- Proc,
        status <- CASE phase = "starting" -> "starting"
                    [] phase = "serving" -> "up"
                    [] phase \in {"draining", "closing"} -> "stopping"
                    [] phase = "exited" -> "down",
        open <- Busy,
        clean <- ~failed

\* The server takes no request after the signal, exits whatever the requests
\* that run are waiting for, and claims a clean exit only after answering all.
\* The pool has to have a connection more than there are requests: Close waits
\* without a deadline for requests that wait for each other.
ImplementsGracefulServer == Graceful!FairSpec
===============================================================================
