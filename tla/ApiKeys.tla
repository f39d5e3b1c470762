------------------------------ MODULE ApiKeys ------------------------------
(***************************************************************************)
(* Web API calls: a job picks a key, its sticky proxy is checked or        *)
(* replaced, the request is tried up to Tries times, and every answer is   *)
(* charged to the proxy or to the key.  retest_disabled_resources probes   *)
(* what is disabled.  Each statement on a row is a step of its own.        *)
(*                                                                         *)
(* Simplifications.  The accounts of the keys are in service.  What a      *)
(* request meets is the world's state: a proxy that is up, refuses or      *)
(* hangs, a key that Steam has banned or not, Steam up or not; a 429 can   *)
(* always come.                                                            *)
(* Proxies are of purpose "api".  Pacing (acquireSteamApiSlot) is left out. *)
(***************************************************************************)
EXTENDS ResourceHealth

CONSTANTS
    Keys,       \* steam_api_keys.id
    Proxies,    \* proxies.id
    Callers,    \* jobs that call the Web API at the same time
    Tries,      \* attempts of one request (4)
    MaxFaults,  \* bound of the model: changes of the world for the worse
    None

Retester == "retest_disabled_resources"

Actors == Callers \cup {Retester}

ASSUME ApiKeysAssumption ==
    /\ Tries \in Nat \ {0}
    /\ MaxFaults \in Nat
    /\ None \notin Keys \cup Proxies
    /\ Retester \notin Callers

VARIABLES
    key,     \* key[k]: the row of steam_api_keys
    bound,   \* bound[k]: steam_api_keys.proxy_id
    proxy,   \* proxy[p]: the row of proxies
    actor,   \* actor[a]: where a run stands, its key, its proxy, its failures
    listed,  \* the keys that the retest job has read as disabled
    line,    \* line[p]: a proxy is "up", "refuses" or "hangs"
    banned,  \* the keys that Steam answers with 403
    outage,  \* Steam answers with errors, or not at all
    past,    \* history: the keys banned and the proxies that refused, "hang" when
             \* a proxy has hung, "outage" when Steam was out
    faults   \* history: changes of the world for the worse

vars == <<key, bound, proxy, actor, listed, line, banned, outage, past, faults>>

world == <<line, banned, outage, past, faults>>

-----------------------------------------------------------------------------

IdleActor == [pc |-> "idle", key |-> None, proxy |-> None, tried |-> 0]

Init ==
    /\ key = [k \in Keys |-> NewResource]
    /\ bound = [k \in Keys |-> None]
    /\ proxy = [p \in Proxies |-> NewResource]
    /\ actor = [a \in Actors |-> IdleActor]
    /\ listed = {}
    /\ line = [p \in Proxies |-> "up"]
    /\ banned = {}
    /\ outage = FALSE
    /\ past = {}
    /\ faults = 0

At(a, pc) == actor[a].pc = pc

Goto(a, pc) == actor' = [actor EXCEPT ![a].pc = pc]

Usable == {p \in Proxies : InService(proxy[p])}

markProxyActive(p) ==
    IF InService(proxy[p]) THEN [proxy EXCEPT ![p].status = "active"] ELSE proxy

\* The request ended: a job is done with it, the retest job judges its probe.
Ends(a, ok) ==
    actor' = [actor EXCEPT ![a] =
        IF a # Retester THEN IdleActor
        ELSE [@ EXCEPT !.pc = IF ok THEN "restore" ELSE "bump"]]

-----------------------------------------------------------------------------
(* pickApiCredential *)

Pickable ==
    {k \in Keys : /\ key[k].status \in {"ready", "active", "rate_limited"}
                  /\ ~key[k].limited}

Pick(a) ==
    /\ At(a, "idle")
    /\ a \in Callers
    /\ \E k \in Pickable :
          actor' = [actor EXCEPT ![a].pc = "bind", ![a].key = k]
    /\ UNCHANGED <<key, bound, proxy, listed, world>>

\* ensureApiKeyProxy
EnsureProxy(a) ==
    LET k == actor[a].key
    IN  /\ At(a, "bind")
        /\ \/ /\ bound[k] \in Usable
              /\ actor' = [actor EXCEPT ![a].pc = "activate", ![a].proxy = bound[k]]
              /\ UNCHANGED <<bound, proxy>>
           \/ /\ bound[k] \notin Usable
              /\ \E p \in Usable :
                    /\ bound' = [bound EXCEPT ![k] = p]
                    /\ proxy' = markProxyActive(p)
                    /\ actor' = [actor EXCEPT ![a].pc = "activate", ![a].proxy = p]
           \/ /\ Usable = {}
              /\ Ends(a, FALSE)
              /\ UNCHANGED <<bound, proxy>>
        /\ UNCHANGED <<key, listed, world>>

\* The UPDATE of pickApiCredential has no condition on the status.
Activate(a) ==
    /\ At(a, "activate")
    /\ key' = [key EXCEPT ![actor[a].key].status = "active",
                          ![actor[a].key].limited = FALSE]
    /\ Goto(a, "send")
    /\ UNCHANGED <<bound, proxy, listed, world>>

-----------------------------------------------------------------------------
(* getJson *)

\* The next attempt, or the end of the request.
NextTry(a) ==
    IF actor[a].tried + 1 < Tries
    THEN actor' = [actor EXCEPT ![a].pc = "send", ![a].tried = @ + 1]
    ELSE Ends(a, FALSE)

\* An answer that parses: proxy and key get a success and the key is no
\* longer limited, unless it is disabled.
clearApiKeyRateLimit(r) ==
    IF r.status = "disabled" THEN r
    ELSE [r EXCEPT !.limited = FALSE,
                   !.status = IF @ = "rate_limited" THEN "active" ELSE @]

AnswerOk(a) ==
    LET k == actor[a].key
        p == actor[a].proxy
    IN  /\ At(a, "send")
        /\ line[p] = "up" /\ k \notin banned /\ ~outage
        /\ proxy' = [proxy EXCEPT ![p] = recordResourceAttempt(@, TRUE)]
        /\ key' = [key EXCEPT ![k] =
               clearApiKeyRateLimit(recordResourceAttempt(@, TRUE))]
        /\ Ends(a, TRUE)
        /\ UNCHANGED <<bound, listed, world>>

\* Mutant: a 403 is retested like any other failure.
AnswerForbiddenRetested(a) ==
    LET k == actor[a].key
    IN  /\ At(a, "send")
        /\ line[actor[a].proxy] = "up" /\ k \in banned /\ ~outage
        /\ key' = [key EXCEPT ![k] = disableResource(@, FALSE)]
        /\ Ends(a, FALSE)
        /\ UNCHANGED <<bound, proxy, listed, world>>

\* 403: no more attempts, and no retests.
AnswerForbidden(a) ==
    LET k == actor[a].key
    IN  /\ At(a, "send")
        /\ line[actor[a].proxy] = "up" /\ k \in banned /\ ~outage
        /\ key' = [key EXCEPT ![k] = disableResource(@, TRUE)]
        /\ Ends(a, FALSE)
        /\ UNCHANGED <<bound, proxy, listed, world>>

\* 429: the proxy has worked; after the last attempt the key is set aside,
\* unless it is disabled.
markApiKeyRateLimited(r) ==
    IF r.status = "disabled" THEN r
    ELSE [r EXCEPT !.status = "rate_limited", !.limited = TRUE]

AnswerTooMany(a) ==
    LET k == actor[a].key
        p == actor[a].proxy
    IN  /\ At(a, "send")
        /\ line[p] = "up" /\ ~outage
        /\ proxy' = [proxy EXCEPT ![p] = recordResourceAttempt(@, TRUE)]
        /\ key' = IF actor[a].tried + 1 < Tries THEN key
                  ELSE [key EXCEPT ![k] = markApiKeyRateLimited(@)]
        /\ NextTry(a)
        /\ UNCHANGED <<bound, listed, world>>

\* Mutant: a refused connection is charged to the key as well.
ChargedToKeyAlways(a) == outage \/ line[actor[a].proxy] # "up"

\* isProxyTransportError is not said of a timeout, of a 5xx, nor of an answer
\* that does not parse: they are failures of the key, whoever hangs.
ChargedToKey(a) == outage \/ line[actor[a].proxy] = "hangs"

\* A connection that is refused or reset, by the proxy or beyond it.
ChargedToProxy(a) == outage \/ line[actor[a].proxy] = "refuses"

\* The key is disabled by a further statement when the window crosses.
AnswerFails(a) ==
    LET k == actor[a].key
    IN  /\ At(a, "send")
        /\ ChargedToKey(a)
        /\ key' = [key EXCEPT ![k] = recordResourceAttempt(@, FALSE)]
        /\ IF Crossed(key'[k]) THEN Goto(a, "disableKey") ELSE NextTry(a)
        /\ UNCHANGED <<bound, proxy, listed, world>>

DisableKey(a) ==
    /\ At(a, "disableKey")
    /\ key' = [key EXCEPT ![actor[a].key] = disableResource(@, FALSE)]
    /\ NextTry(a)
    /\ UNCHANGED <<bound, proxy, listed, world>>

\* rotateDeadApiKeyProxy: a failure of the proxy, which may be disabled; then
\* another proxy, or the same when it is the only one in service.
ProxyRefuses(a) ==
    LET p == actor[a].proxy
    IN  /\ At(a, "send")
        /\ ChargedToProxy(a)
        /\ proxy' = [proxy EXCEPT ![p] = recordResourceAttempt(@, FALSE)]
        /\ Goto(a, IF Crossed(proxy'[p]) THEN "disableProxy" ELSE "rotate")
        /\ UNCHANGED <<key, bound, listed, world>>

DisableProxy(a) ==
    /\ At(a, "disableProxy")
    /\ proxy' = [proxy EXCEPT ![actor[a].proxy] = disableResource(@, FALSE)]
    /\ Goto(a, "rotate")
    /\ UNCHANGED <<key, bound, listed, world>>

RotationTargets(p) == IF Usable = {p} THEN {p} ELSE Usable \ {p}

Rotate(a) ==
    LET k == actor[a].key
        last == actor[a].tried + 1 = Tries
    IN  /\ At(a, "rotate")
        /\ \/ \E p \in RotationTargets(actor[a].proxy) :
                 /\ bound' = [bound EXCEPT ![k] = p]
                 /\ proxy' = markProxyActive(p)
                 /\ IF last THEN Ends(a, FALSE)
                    ELSE actor' = [actor EXCEPT ![a].pc = "send",
                             ![a].proxy = p, ![a].tried = @ + 1]
           \/ /\ RotationTargets(actor[a].proxy) = {}
              /\ Ends(a, FALSE)
              /\ UNCHANGED <<bound, proxy>>
        /\ UNCHANGED <<key, listed, world>>

-----------------------------------------------------------------------------
(* retest_disabled_resources: first the proxies, then the keys *)

ToRetest(r) == r.status = "disabled" /\ r.retest < RetestMax

RetestProxy(p) ==
    /\ At(Retester, "idle")
    /\ ToRetest(proxy[p])
    /\ proxy' = [proxy EXCEPT ![p] = IF line[p] = "up" /\ ~outage
                                     THEN restoreResource(@)
                                     ELSE bumpResourceRetest(@)]
    /\ UNCHANGED <<key, bound, actor, listed, world>>

ListKeys ==
    /\ At(Retester, "idle")
    /\ listed = {}
    /\ listed' = {k \in Keys : ToRetest(key[k])}
    /\ listed' # {}
    /\ UNCHANGED <<key, bound, proxy, actor, world>>

\* The probe is one request, through the bound proxy or one just picked.
RetestKey(k) ==
    /\ At(Retester, "idle")
    /\ k \in listed
    /\ listed' = listed \ {k}
    /\ \E p \in IF bound[k] \in Usable THEN {bound[k]}
              ELSE IF Usable = {} THEN {None} ELSE Usable :
          actor' = [actor EXCEPT ![Retester] =
              [pc |-> IF p = None THEN "bump" ELSE "send", key |-> k,
               proxy |-> p, tried |-> 0]]
    /\ UNCHANGED <<key, bound, proxy, world>>

RestoreKey ==
    /\ At(Retester, "restore")
    /\ key' = [key EXCEPT ![actor[Retester].key] = restoreResource(@)]
    /\ actor' = [actor EXCEPT ![Retester] = IdleActor]
    /\ UNCHANGED <<bound, proxy, listed, world>>

BumpKey ==
    /\ At(Retester, "bump")
    /\ key' = [key EXCEPT ![actor[Retester].key] = bumpResourceRetest(@)]
    /\ actor' = [actor EXCEPT ![Retester] = IdleActor]
    /\ UNCHANGED <<bound, proxy, listed, world>>

-----------------------------------------------------------------------------
(* The world *)

LimitPasses(k) ==
    /\ key[k].limited
    /\ key' = [key EXCEPT ![k].limited = FALSE]
    /\ UNCHANGED <<bound, proxy, actor, listed, world>>

Fault ==
    /\ faults < MaxFaults
    /\ faults' = faults + 1
    /\ \/ \E p \in Proxies, s \in {"refuses", "hangs"} :
             /\ line[p] = "up"
             /\ line' = [line EXCEPT ![p] = s]
             /\ past' = past \cup {IF s = "refuses" THEN p ELSE "hang"}
             /\ UNCHANGED <<banned, outage>>
       \/ \E k \in Keys \ banned :
             /\ banned' = banned \cup {k} /\ past' = past \cup {k}
             /\ UNCHANGED <<line, outage>>
       \/ /\ ~outage
          /\ outage' = TRUE /\ past' = past \cup {"outage"}
          /\ UNCHANGED <<line, banned>>
    /\ UNCHANGED <<key, bound, proxy, actor, listed>>

Recovery ==
    /\ \/ \E p \in Proxies : /\ line[p] # "up"
                              /\ line' = [line EXCEPT ![p] = "up"]
                              /\ UNCHANGED outage
       \/ outage /\ outage' = FALSE /\ UNCHANGED line
    /\ UNCHANGED <<key, bound, proxy, actor, listed, banned, past, faults>>

-----------------------------------------------------------------------------

CallStep(a) ==
    \/ EnsureProxy(a) \/ Activate(a)
    \/ AnswerOk(a) \/ AnswerForbidden(a) \/ AnswerTooMany(a) \/ AnswerFails(a)
    \/ DisableKey(a) \/ ProxyRefuses(a) \/ DisableProxy(a) \/ Rotate(a)

Retest ==
    \/ \E p \in Proxies : RetestProxy(p)
    \/ ListKeys \/ \E k \in Keys : RetestKey(k)
    \/ RestoreKey \/ BumpKey

Next ==
    \/ \E a \in Actors : Pick(a) \/ CallStep(a)
    \/ Retest
    \/ \E k \in Keys : LimitPasses(k)
    \/ Fault
    \/ Recovery

(* A job that awaits goes on; the retest job is scheduled again and again. *)
Fairness ==
    /\ \A a \in Actors : WF_vars(CallStep(a))
    /\ \A p \in Proxies : SF_vars(RetestProxy(p))
    /\ WF_vars(ListKeys \/ (\E k \in Keys : RetestKey(k)) \/ RestoreKey \/ BumpKey)

Spec == Init /\ [][Next]_vars /\ Fairness

-----------------------------------------------------------------------------
(* Properties *)

\* Types.
TypeOK ==
    /\ key \in [Keys -> Resource]
    /\ bound \in [Keys -> Proxies \cup {None}]
    /\ proxy \in [Proxies -> Resource]
    /\ actor \in [Actors -> [pc : {"idle", "bind", "activate", "send",
                                   "disableKey", "disableProxy", "rotate",
                                   "restore", "bump"},
                             key : Keys \cup {None},
                             proxy : Proxies \cup {None},
                             tried : 0..(Tries - 1)]]
    /\ listed \in SUBSET Keys
    /\ line \in [Proxies -> {"up", "refuses", "hangs"}]
    /\ banned \in SUBSET Keys
    /\ outage \in BOOLEAN
    /\ past \subseteq Keys \cup Proxies \cup {"hang", "outage"}
    /\ faults \in 0..MaxFaults

\* Calls and probes are charged beside each other, and between the statement that
\* judges a window and the one that disables.  All the same a proxy is out of
\* service only if it has refused connections or Steam was out.  A key is only if
\* Steam has refused it or was out, or if a proxy has hung: isProxyTransportError
\* is not said of a timeout, so that a hanging proxy costs the key, not itself.
DisabledForCause ==
    /\ \A p \in Proxies :
           proxy[p].status = "disabled" => p \in past \/ "outage" \in past
    /\ \A k \in Keys :
           key[k].status = "disabled" => k \in past \/ past \cap {"hang", "outage"} # {}

\* "disabled-proxy probes, then give up": a proxy does not stay disabled and
\* under retest for ever.
ProxyRetestsEnd ==
    \A p \in Proxies : ToRetest(proxy[p]) ~> ~ToRetest(proxy[p])

\* Once proxies and Steam work for good, no key stays under retest: a 403 comes
\* back or gives up, a 429 is counted, and what calls decide beside the probe, even
\* a key that they take into use while it is disabled, does not start it over.
KeysSettle ==
    <>[](~outage /\ \A p \in Proxies : line[p] = "up")
        => \A k \in Keys : <>[]~ToRetest(key[k])

\* marketplace-buy-account.md, as for proxies: a key does not stay disabled and
\* under retest for ever, whatever the world does.
KeyRetestsEnd ==
    \A k \in Keys : ToRetest(key[k]) ~> ~ToRetest(key[k])

\* worker-architecture.md, "Disable when the last *_error_window attempts are at
\* least *_error_threshold percent failures": when the disable is written, they are.
DisabledOnRecord ==
    [][\A k \in Keys :
           key[k].status # "disabled" /\ key'[k].status = "disabled"
               => k \in banned \/ Crossed(key[k])]_vars
=============================================================================
