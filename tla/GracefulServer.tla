---------------------------- MODULE GracefulServer ----------------------------
(***************************************************************************)
(* What a server that shuts down gracefully promises: it takes requests    *)
(* while it is up; asked to stop, it takes no more and goes down once it   *)
(* has answered those it has, unless it gives up on them, and then it does *)
(* not stop cleanly.                                                       *)
(***************************************************************************)
CONSTANT Request

VARIABLES status,  \* "starting", "up", "stopping" or "down"
          open,    \* the requests it has taken and not answered
          clean    \* it has given up on no request

vars == <<status, open, clean>>

Init == status = "starting" /\ open = {} /\ clean = TRUE

Up ==
    /\ status = "starting" /\ status' = "up"
    /\ UNCHANGED <<open, clean>>

Take(r) ==
    /\ status = "up" /\ r \notin open
    /\ open' = open \cup {r}
    /\ UNCHANGED <<status, clean>>

Answer(r) ==
    /\ r \in open
    /\ open' = open \ {r}
    /\ UNCHANGED <<status, clean>>

Stop ==
    /\ status = "up" /\ status' = "stopping"
    /\ clean' \in BOOLEAN
    /\ UNCHANGED open

GiveUp ==
    /\ status = "stopping"
    /\ clean' = FALSE
    /\ UNCHANGED <<status, open>>

Down ==
    /\ status = "stopping" /\ status' = "down"
    /\ open = {} \/ ~clean
    /\ open' = {}
    /\ UNCHANGED clean

FailToStart ==
    /\ status = "starting" /\ status' = "down"
    /\ clean' = FALSE
    /\ UNCHANGED open

Next ==
    \/ Up \/ Stop \/ GiveUp \/ Down \/ FailToStart
    \/ \E r \in Request : Take(r) \/ Answer(r)

Spec == Init /\ [][Next]_vars

\* Once asked to stop it goes down, however long the requests take.
FairSpec == Spec /\ WF_vars(GiveUp) /\ WF_vars(Down)
===============================================================================
