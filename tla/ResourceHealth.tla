--------------------------- MODULE ResourceHealth ---------------------------
(***************************************************************************)
(* What happens to one row of proxies, steam_accounts or steam_api_keys    *)
(* and to its rows of resource_attempts.  Nothing here looks at the status *)
(* it overwrites.                                                          *)
(***************************************************************************)
EXTENDS Integers, Sequences, FiniteSets

CONSTANTS
    Window,     \* <kind>_error_window
    Threshold,  \* failures of a full window that reach <kind>_error_threshold
    RetestMax   \* <kind>_retest_max

ASSUME HealthAssumption ==
    /\ Window \in Nat \ {0}
    /\ Threshold \in 1..Window
    /\ RetestMax \in Nat \ {0}

Statuses == {"ready", "active", "rate_limited", "disabled"}

\* attempts holds TRUE for a success; limited: rate_limited_until is ahead.
Resource == [status   : Statuses,
             limited  : BOOLEAN,
             retest   : 0..RetestMax,
             attempts : UNION {[1..n -> BOOLEAN] : n \in 0..Window}]

NewResource == [status |-> "ready", limited |-> FALSE, retest |-> 0,
                attempts |-> << >>]

InService(r) == r.status \in {"ready", "active"} /\ ~r.limited

disableResource(r, giveUp) ==
    [r EXCEPT !.status = "disabled", !.retest = IF giveUp THEN RetestMax ELSE 0]

restoreResource(r) == [r EXCEPT !.status = "ready", !.retest = 0]

\* Mutant: a failed probe is not counted.
bumpNothing(r) == r

\* The bound of the model: a retest beyond the maximum is not told apart.
bumpResourceRetest(r) ==
    [r EXCEPT !.retest = IF @ < RetestMax THEN @ + 1 ELSE @]

\* Mutant: the oldest attempt stays beyond the window.
LastOneMore(s) == IF Len(s) > Window + 1 THEN Tail(s) ELSE s

\* DELETE of the attempts older than the last Window; one is added at a time.
LastWindow(s) == IF Len(s) > Window THEN Tail(s) ELSE s

recordResourceAttempt(r, ok) ==
    [r EXCEPT !.attempts = LastWindow(Append(@, ok))]

Failures(s) == {i \in DOMAIN s : ~s[i]}

\* Mutant: a window that is not full is judged.
CrossedAnyLength(r) ==
    Cardinality(Failures(r.attempts)) * Window >= Threshold * Len(r.attempts)

\* A window that is not full is never judged.
Crossed(r) ==
    /\ Len(r.attempts) = Window
    /\ Cardinality(Failures(r.attempts)) >= Threshold
=============================================================================
