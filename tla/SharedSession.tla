--------------------------- MODULE SharedSession ---------------------------
(***************************************************************************)
(* What getGcSession promises to the jobs that share one session           *)
(* (worker/src/gc/session.ts): there is at most one session and it is      *)
(* never replaced, only ended and opened anew; nobody opens one beside it; *)
(* all who wait at the same time wait for the same opening and get the     *)
(* same outcome; whoever is served was served when there was a session;    *)
(* and every opening settles.  Accounts, proxies, clients and their events *)
(* are not seen here.                                                      *)
(***************************************************************************)
CONSTANTS Callers, NoSession

VARIABLES
    session,  \* the session, or NoSession
    opening,  \* the promise that "connecting" holds is not settled
    waiting,  \* the callers that await it
    served    \* the callers that have got a session and are not done with it

vars == <<session, opening, waiting, served>>

Init ==
    /\ session = NoSession
    /\ opening = FALSE
    /\ waiting = {}
    /\ served = {}

Free(j) == j \notin waiting \cup served

TakesSession(j) ==
    /\ Free(j) /\ session # NoSession
    /\ served' = served \cup {j}
    /\ UNCHANGED <<session, opening, waiting>>

\* A session that is there is given up by who prefers to wait.
Waits(j) ==
    /\ Free(j)
    /\ session' = NoSession
    /\ opening' = TRUE
    /\ waiting' = waiting \cup {j}
    /\ UNCHANGED served

Opens ==
    /\ opening /\ opening' = FALSE
    /\ session = NoSession /\ session' # NoSession
    /\ served' = served \cup waiting
    /\ waiting' = {}

Fails ==
    /\ opening /\ opening' = FALSE
    /\ waiting' = {}
    /\ UNCHANGED <<session, served>>

SessionEnds ==
    /\ session # NoSession /\ session' = NoSession
    /\ UNCHANGED <<opening, waiting, served>>

Done(j) ==
    /\ j \in served
    /\ served' = served \ {j}
    /\ UNCHANGED <<session, opening, waiting>>

Next ==
    \/ \E j \in Callers : TakesSession(j) \/ Waits(j) \/ Done(j)
    \/ Opens \/ Fails \/ SessionEnds

Safe == Init /\ [][Next]_vars

EveryOpeningSettles == opening ~> ~opening

Spec == Safe /\ EveryOpeningSettles
=============================================================================
