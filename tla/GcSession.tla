----------------------------- MODULE GcSession -----------------------------
(***************************************************************************)
(* The one Game Coordinator session of a worker.  Jobs ask for it, the     *)
(* first of them opens it over the pool of accounts while the others wait  *)
(* for the same promise, and the events of a client come at any moment.    *)
(* retest_disabled_resources logs disabled accounts in with clients of its *)
(* own.                                                                    *)
(*                                                                         *)
(* Simplifications.  A failure and the verdict on its window are one step  *)
(* (ApiKeys has them apart).  The accounts have no Guard secret and no     *)
(* Web API key, as in the dedicated pool.  What Steam answers is a free    *)
(* choice; a proxy is up or down.  The probe of a proxy is in ApiKeys.     *)
(***************************************************************************)
EXTENDS ResourceHealth

CONSTANTS
    Accounts,      \* steam_accounts.id
    ImapAccounts,  \* those with a mailbox for Guard codes
    Proxies,       \* proxies.id
    Callers,       \* jobs that ask for match details at the same time
    Clients,       \* SteamUser objects; one is used again when it is garbage
    LogonAttempts, \* settings.gc_logon_attempts
    MaxFaults,     \* bound of the model: changes of the world for the worse
    None

ASSUME GcAssumption ==
    /\ ImapAccounts \subseteq Accounts
    /\ LogonAttempts \in Nat \ {0}
    /\ MaxFaults \in Nat
    /\ None \notin Accounts \cup Proxies \cup Clients

VARIABLES
    account,  \* account[a]: the row of steam_accounts
    token,    \* accounts with a usable refresh token
    boundTo,  \* boundTo[a]: steam_accounts.proxy_id
    proxy,    \* proxy[p]: the row of proxies
    live,     \* clients that are logged on
    leaving,  \* clients whose "disconnected" event is still to come
    session,  \* the module's session: [client, account, proxy], or NoSession
    open,     \* the run of openGcSession, which "connecting" stands for
    caller,   \* caller[j]: where a job stands, the proxy it asked about
    probe,    \* the retest of an account
    down,     \* proxies that refuse connections
    faults    \* history: proxies that have gone down

vars == <<account, token, boundTo, proxy, live, leaving, session, open,
          caller, probe, down, faults>>

rows == <<account, token, boundTo, proxy>>

world == <<down, faults>>

-----------------------------------------------------------------------------

NoSession == [client |-> None, account |-> None, proxy |-> None]

Closed == [pc |-> "off", pool |-> {}, account |-> None, proxy |-> None,
           client |-> None, imapDead |-> FALSE, noWelcome |-> FALSE]

NoCaller == [pc |-> "idle", asked |-> None]

NoProbe == [pc |-> "idle", account |-> None, client |-> None, tried |-> 0]

Init ==
    /\ account = [a \in Accounts |-> NewResource]
    /\ token = {}
    /\ boundTo = [a \in Accounts |-> None]
    /\ proxy = [p \in Proxies |-> NewResource]
    /\ live = {}
    /\ leaving = {}
    /\ session = NoSession
    /\ open = Closed
    /\ caller = [j \in Callers |-> NoCaller]
    /\ probe = NoProbe
    /\ down = {}
    /\ faults = 0

Usable == {p \in Proxies : InService(proxy[p])}

\* A new client: one of those nobody refers to, which makes no difference.
Garbage ==
    Clients \ (live \cup leaving \cup {session.client, open.client, probe.client})

Fresh == IF Garbage = {} THEN {} ELSE {CHOOSE c \in Garbage : TRUE}

\* Mutant: the failure is recorded and never judged.
FailedUnjudged(r) == recordResourceAttempt(r, FALSE)

\* recordResourceAttempt of a failure, with its verdict.
Failed(r) ==
    LET s == recordResourceAttempt(r, FALSE)
    IN  IF Crossed(s) THEN disableResource(s, FALSE) ELSE s

\* ensureAccountProxy and pickReadyProxy: the bound proxy when it is in
\* service, else any other that is.
ProxiesFor(a) == IF boundTo[a] \in Usable THEN {boundTo[a]} ELSE Usable

\* rotateAccountProxy: not the proxy that failed, unless it is the only one.
RotationTargets(p, usable) == IF usable = {p} THEN {p} ELSE usable \ {p}

\* dropClient
Dropped(c) ==
    /\ live' = live \ {c}
    /\ leaving' = leaving \cup (live \cap {c})

\* dropClient, and a new client for the next logon.
Replaced(c, d) ==
    /\ live' = (live \ {c}) \cup {d}
    /\ leaving' = leaving \cup (live \cap {c})

-----------------------------------------------------------------------------
(* getGcSession *)

\* The job waits for the run that is under way, or starts one.
Joins(j) ==
    /\ caller' = [caller EXCEPT ![j] =
           [NoCaller EXCEPT !.pc = "wait"]]
    /\ open' = IF open.pc = "off" THEN [Closed EXCEPT !.pc = "list"] ELSE open

\* A session that is there is checked in the database first.
AskSession(j) ==
    /\ caller[j].pc = "idle"
    /\ IF session = NoSession THEN Joins(j)
       ELSE /\ caller' = [caller EXCEPT ![j].pc = "check",
                                        ![j].asked = session.proxy]
            /\ UNCHANGED open
    /\ UNCHANGED <<rows, live, leaving, session, probe, world>>

\* The proxy that is asked about is the one of the session before the await;
\* the session that is returned, or dropped, is the one after it: it may be
\* another, or none, which the caller stumbles over.
CheckSession(j) ==
    /\ caller[j].pc = "check"
    /\ \/ /\ session # NoSession
          /\ caller[j].asked \in Usable
          /\ caller' = [caller EXCEPT ![j] =
                 [NoCaller EXCEPT !.pc = "request"]]
          /\ UNCHANGED <<live, leaving, session, open>>
       \/ /\ session # NoSession
          /\ caller[j].asked \notin Usable
          /\ Dropped(session.client)
          /\ session' = NoSession
          /\ Joins(j)
       \/ /\ session = NoSession
          /\ caller' = [caller EXCEPT ![j] = NoCaller]
          /\ UNCHANGED <<live, leaving, session, open>>
    /\ UNCHANGED <<rows, probe, world>>

\* requestMatchReplayLocator: an answer, or 15 s without one.  Neither does
\* anything to the session.
Request(j) ==
    /\ caller[j].pc = "request"
    /\ caller' = [caller EXCEPT ![j] = NoCaller]
    /\ UNCHANGED <<rows, live, leaving, session, open, probe, world>>

-----------------------------------------------------------------------------
(* openGcSession *)

\* Mutant: an opening that failed serves those who waited for it.
SettlesAnyhow(ok) ==
    /\ open' = Closed
    /\ caller' = [j \in Callers |->
           IF caller[j].pc # "wait" THEN caller[j]
           ELSE [NoCaller EXCEPT !.pc = "request"]]

\* The promise settles: those who wait for it get its session, or its error.
Settles(ok) ==
    /\ open' = Closed
    /\ caller' = [j \in Callers |->
           IF caller[j].pc # "wait" THEN caller[j]
           ELSE [NoCaller EXCEPT !.pc = IF ok THEN "request" ELSE "idle"]]

Skipped(a) ==
    \/ open.imapDead /\ a \in ImapAccounts /\ a \notin token
    \/ open.noWelcome

\* listGcAccounts: the accounts in service; the others are for nobody.
ListPool ==
    LET pool == {a \in Accounts : InService(account[a])}
    IN  /\ open.pc = "list"
        /\ \/ /\ pool # {}
              /\ open' = [open EXCEPT !.pc = "next", !.pool = pool]
              /\ UNCHANGED caller
           \/ /\ pool = {}
              /\ Settles(FALSE)
        /\ UNCHANGED <<rows, live, leaving, session, probe, world>>

\* Accounts with a token come first; an account is skipped for what a sibling
\* has met.
NextAccount ==
    /\ open.pc = "next"
    /\ \E a \in open.pool :
          /\ a \in token \/ open.pool \cap token = {}
          /\ open' = [open EXCEPT !.pool = @ \ {a},
                                  !.pc = IF Skipped(a) THEN "next" ELSE "bind",
                                  !.account = a]
    /\ UNCHANGED <<rows, live, leaving, session, caller, probe, world>>

PoolExhausted ==
    /\ open.pc = "next"
    /\ open.pool = {}
    /\ Settles(FALSE)
    /\ UNCHANGED <<rows, live, leaving, session, probe, world>>

\* Without a proxy the whole run ends.
BindProxy ==
    LET a == open.account
    IN  /\ open.pc = "bind"
        /\ \/ \E p \in ProxiesFor(a), c \in Fresh :
                 /\ boundTo' = [boundTo EXCEPT ![a] = p]
                 /\ open' = [open EXCEPT !.pc = "logon", !.proxy = p, !.client = c]
                 /\ live' = live \cup {c}
                 /\ UNCHANGED caller
           \/ /\ Usable = {}
              /\ Settles(FALSE)
              /\ UNCHANGED <<boundTo, live>>
        /\ UNCHANGED <<account, token, proxy, leaving, session, probe, world>>

\* The connection is refused: one failure of the proxy by the client's error
\* handler and one by rotateAccountProxy; the account goes on with another
\* proxy, and there is no count of how often.
ConnectRefused ==
    LET a == open.account
        p == open.proxy
        worse == [proxy EXCEPT ![p] = Failed(Failed(@))]
        left == RotationTargets(p, {q \in Proxies : InService(worse[q])})
    IN  /\ open.pc = "logon"
        /\ p \in down
        /\ proxy' = worse
        /\ \/ \E q \in left, c \in Fresh :
                 /\ boundTo' = [boundTo EXCEPT ![a] = q]
                 /\ open' = [open EXCEPT !.proxy = q, !.client = c]
                 /\ Replaced(open.client, c)
                 /\ UNCHANGED caller
           \/ /\ left = {}
              /\ Settles(FALSE)
              /\ Dropped(open.client)
              /\ UNCHANGED boundTo
        /\ UNCHANGED <<account, token, session, probe, world>>

\* The refresh token is refused: it is cleared and the password is used.
RefreshRefused ==
    /\ open.pc = "logon"
    /\ open.account \in token
    /\ open.proxy \notin down
    /\ token' = token \ {open.account}
    /\ \E c \in Fresh : /\ open' = [open EXCEPT !.client = c]
                        /\ Replaced(open.client, c)
    /\ UNCHANGED <<account, boundTo, proxy, session, caller, probe, world>>

\* recordConnectFailure, and on to the next account.
LogonFails(row, imapDead, noWelcome) ==
    LET a == open.account
    IN  /\ account' = [account EXCEPT ![a] = row]
        /\ open' = [open EXCEPT !.pc = "next", !.account = None, !.proxy = None,
                                !.client = None,
                                !.imapDead = @ \/ imapDead,
                                !.noWelcome = @ \/ noWelcome]
        /\ Dropped(open.client)
        /\ UNCHANGED <<token, boundTo, proxy, session, caller, probe, world>>

LogonError ==
    LET a == open.account
    IN  /\ open.pc = "logon"
        /\ open.proxy \notin down
        /\ \/ LogonFails(Failed(account[a]), FALSE, TRUE)  \* no GC welcome
           \/ /\ a \notin token
              /\ \/ LogonFails(disableResource(account[a], TRUE),  \* InvalidPassword
                               FALSE, FALSE)
                 \/ LogonFails([account[a] EXCEPT              \* rate limit
                        !.status = "rate_limited", !.limited = TRUE], FALSE, FALSE)
                 \/ /\ a \in ImapAccounts                      \* basic auth
                    /\ LogonFails(Failed(account[a]), TRUE, FALSE)
                 \/ LogonFails(Failed(account[a]), FALSE, FALSE)

\* clientWelcome; steam-user hands out a token after a password logon.
Welcome ==
    LET a == open.account
    IN  /\ open.pc = "logon"
        /\ open.proxy \notin down
        /\ token' = token \cup {a}
        /\ open' = [open EXCEPT !.pc = "welcomed"]
        /\ UNCHANGED <<account, boundTo, proxy, live, leaving, session,
                       caller, probe, world>>

\* markAccountLogin has no condition on the status it replaces.
MarkAccountLogin ==
    /\ open.pc = "welcomed"
    /\ account' = [account EXCEPT ![open.account].status = "active"]
    /\ open' = [open EXCEPT !.pc = "marked"]
    /\ UNCHANGED <<token, boundTo, proxy, live, leaving, session, caller,
                   probe, world>>

\* The attempts are recorded and the session is stored, be its client live
\* or not.
StoreSession ==
    /\ open.pc = "marked"
    /\ proxy' = [proxy EXCEPT ![open.proxy] = recordResourceAttempt(@, TRUE)]
    /\ account' = [account EXCEPT ![open.account] = recordResourceAttempt(@, TRUE)]
    /\ session' = [client |-> open.client, account |-> open.account,
                   proxy |-> open.proxy]
    /\ Settles(TRUE)
    /\ UNCHANGED <<token, boundTo, live, leaving, probe, world>>

-----------------------------------------------------------------------------
(* The events of a client, and the end of the worker *)

\* Mutant: the event of any client ends the session.
IsSessionOfAny(c) == session # NoSession

IsSessionOf(c) == session.client = c

Disconnected(c) ==
    /\ c \in live \cup leaving
    /\ open.client = c => open.pc \in {"welcomed", "marked"}
    /\ probe.client # c
    /\ live' = live \ {c}
    /\ leaving' = leaving \ {c}
    /\ session' = IF IsSessionOf(c) THEN NoSession ELSE session
    /\ UNCHANGED <<rows, open, caller, probe, world>>

\* closeGcSession
CloseSession ==
    /\ session # NoSession
    /\ Dropped(session.client)
    /\ session' = NoSession
    /\ UNCHANGED <<rows, open, caller, probe, world>>

-----------------------------------------------------------------------------
(* retestGcAccounts: loginGcAndMaybeTest with up to LogonAttempts logons *)

ProbeStart(a) ==
    /\ probe = NoProbe
    /\ account[a].status = "disabled"
    /\ account[a].retest < RetestMax
    /\ \/ \E p \in ProxiesFor(a), c \in Fresh :
             /\ boundTo' = [boundTo EXCEPT ![a] = p]
             /\ live' = live \cup {c}
             /\ probe' = [pc |-> "logon", account |-> a, client |-> c, tried |-> 0]
       \/ /\ Usable = {}
          /\ probe' = [NoProbe EXCEPT !.pc = "bump", !.account = a]
          /\ UNCHANGED <<boundTo, live>>
    /\ UNCHANGED <<account, token, proxy, leaving, session, open, caller, world>>

\* The connection to Steam breaks: the proxy is charged and the account bound
\* to another, until the attempts are used up; then it is a failure of the
\* account unless the proxy is to blame.
ProbeBreaks ==
    LET a == probe.account
        p == boundTo[a]
        worse == [proxy EXCEPT ![p] = Failed(@)]
        left == RotationTargets(p, {q \in Proxies : InService(worse[q])})
    IN  /\ probe.pc = "logon"
        /\ p \in down
        /\ \/ /\ probe.tried + 1 < LogonAttempts
              /\ proxy' = worse
              /\ \E q \in left : boundTo' = [boundTo EXCEPT ![a] = q]
              /\ \E c \in Fresh : /\ probe' = [probe EXCEPT !.tried = @ + 1,
                                                           !.client = c]
                                  /\ Replaced(probe.client, c)
           \/ /\ probe.tried + 1 = LogonAttempts \/ left = {}
              /\ proxy' = IF probe.tried + 1 = LogonAttempts THEN proxy ELSE worse
              /\ probe' = [probe EXCEPT !.pc = "bump", !.client = None]
              /\ Dropped(probe.client)
              /\ UNCHANGED boundTo
        /\ UNCHANGED <<account, token, session, open, caller, world>>

\* The logon works, or fails for the account; its client is dropped.
ProbeEnds ==
    LET a == probe.account
    IN  /\ probe.pc = "logon"
        /\ boundTo[a] \notin down
        /\ Dropped(probe.client)
        /\ \/ /\ proxy' = [proxy EXCEPT ![boundTo[a]] = recordResourceAttempt(@, TRUE)]
              /\ account' = [account EXCEPT ![a] = recordResourceAttempt(@, TRUE)]
              /\ probe' = [probe EXCEPT !.pc = "restore", !.client = None]
           \/ /\ \E r \in {disableResource(account[a], TRUE), Failed(account[a])} :
                    account' = [account EXCEPT ![a] = r]
              /\ probe' = [probe EXCEPT !.pc = "bump", !.client = None]
              /\ UNCHANGED proxy
        /\ UNCHANGED <<token, boundTo, session, open, caller, world>>

ProbeVerdict ==
    /\ probe.pc \in {"restore", "bump"}
    /\ account' = [account EXCEPT ![probe.account] =
           IF probe.pc = "restore" THEN restoreResource(@) ELSE bumpResourceRetest(@)]
    /\ probe' = NoProbe
    /\ UNCHANGED <<token, boundTo, proxy, live, leaving, session, open,
                   caller, world>>

-----------------------------------------------------------------------------
(* The world *)

LimitPasses(a) ==
    /\ account[a].limited
    /\ account' = [account EXCEPT ![a].limited = FALSE]
    /\ UNCHANGED <<token, boundTo, proxy, live, leaving, session, open,
                   caller, probe, world>>

Fault ==
    /\ faults < MaxFaults
    /\ faults' = faults + 1
    /\ \E p \in Proxies \ down : down' = down \cup {p}
    /\ UNCHANGED <<rows, live, leaving, session, open, caller, probe>>

-----------------------------------------------------------------------------

CallerStep(j) == CheckSession(j) \/ Request(j)

OpenStep ==
    \/ ListPool \/ NextAccount \/ PoolExhausted \/ BindProxy
    \/ ConnectRefused \/ RefreshRefused \/ LogonError
    \/ Welcome \/ MarkAccountLogin \/ StoreSession

ProbeStep ==
    \/ \E a \in Accounts : ProbeStart(a)
    \/ ProbeBreaks \/ ProbeEnds \/ ProbeVerdict

Next ==
    \/ \E j \in Callers : AskSession(j) \/ CallerStep(j)
    \/ OpenStep
    \/ \E c \in Clients : Disconnected(c)
    \/ CloseSession
    \/ ProbeStep
    \/ \E a \in Accounts : LimitPasses(a)
    \/ Fault

(* Jobs come again and again and what awaits goes on: the handlers of a    *)
(* logon settle it, by their timer at the latest.  Time passes.            *)
Fairness ==
    /\ WF_vars(\E j \in Callers : AskSession(j) \/ CallerStep(j))
    /\ WF_vars(OpenStep)
    /\ WF_vars(ProbeStep)
    /\ WF_vars(\E c \in leaving : Disconnected(c))
    /\ WF_vars(\E a \in Accounts : LimitPasses(a))

Spec == Init /\ [][Next]_vars /\ Fairness

-----------------------------------------------------------------------------
(* Properties *)

\* Types.
TypeOK ==
    /\ account \in [Accounts -> Resource]
    /\ token \in SUBSET Accounts
    /\ boundTo \in [Accounts -> Proxies \cup {None}]
    /\ proxy \in [Proxies -> Resource]
    /\ live \in SUBSET Clients
    /\ leaving \in SUBSET Clients
    /\ session \in [client : Clients \cup {None}, account : Accounts \cup {None},
                    proxy : Proxies \cup {None}]
    /\ open \in [pc : {"off", "list", "next", "bind", "logon", "welcomed", "marked"},
                 pool : SUBSET Accounts, account : Accounts \cup {None},
                 proxy : Proxies \cup {None}, client : Clients \cup {None},
                 imapDead : BOOLEAN, noWelcome : BOOLEAN]
    /\ caller \in [Callers -> [pc : {"idle", "check", "wait", "request"},
                               asked : Proxies \cup {None}]]
    /\ probe \in [pc : {"idle", "logon", "restore", "bump"},
                  account : Accounts \cup {None}, client : Clients \cup {None},
                  tried : 0..(LogonAttempts - 1)]
    /\ down \in SUBSET Proxies
    /\ faults \in 0..MaxFaults

\* No logged-on client is forgotten: late events of dropped clients, callers
\* that resume on another session, failed logons and the shutdown all leave
\* every live client in the hands of the session, of the run that opens one or
\* of the retest.  (A forgotten client keeps the account's only game session.)
NoOrphanClient == live \subseteq {session.client, open.client, probe.client}

Shared == INSTANCE SharedSession WITH
    opening <- open.pc # "off",
    waiting <- {j \in Callers : caller[j].pc = "wait"},
    served <- {j \in Callers : caller[j].pc = "request"}

\* getGcSession is one shared session to those who call it: they all wait for
\* one opening and get its one outcome, nobody opens a session beside the one
\* there is, whatever the database, the events and other callers do between the
\* check and its answer.  And every opening settles: the loop of connectAccount
\* over proxies has no count, but the windows of errors end it.
ImplementsSharedSession == Shared!Spec

\* markAccountLogin has no condition on the status it replaces, and a retest
\* works on the rows beside it; yet in one worker no login brings a disabled
\* account back: only a retest whose own logon went well does.
BackByRetestOnly ==
    [][\A a \in Accounts :
         account[a].status = "disabled" /\ account'[a].status # "disabled"
             => probe.pc = "restore" /\ probe.account = a]_vars

\* "cooldown after GC rate-limit logon": an account that Steam has limited
\* serves again when the time is over.
RateLimitedAccountReturns ==
    \A a \in Accounts :
        account[a].status = "rate_limited" ~> account[a].status # "rate_limited"
=============================================================================
