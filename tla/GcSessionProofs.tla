-------------------------- MODULE GcSessionProofs --------------------------
(***************************************************************************)
(* Safety of GcSession for every pool of accounts, every set of proxies,   *)
(* callers and clients, and every window of errors.                        *)
(*                                                                         *)
(* NoOrphanClient alone is not inductive: a step that overwrites one of    *)
(* the three references would forget the client it held.  It does not,     *)
(* because each of them is empty when it is written (HandsFree), which for *)
(* the session holds because only one run of openGcSession is ever under   *)
(* way, and none while there is a session (OneSession).                    *)
(*                                                                         *)
(* After the invariants come the refinement of SharedSession, and why no   *)
(* login of a worker revives a disabled account (Apart).                   *)
(*                                                                         *)
(* ApiKeys, the other component that stands on ResourceHealth, follows     *)
(* from "Safety of ApiKeys" on.                                            *)
(***************************************************************************)
EXTENDS GcSession, SequenceTheorems, FiniteSetTheorems, TLAPS

\* A run of openGcSession is under way only while there is no session.
OneSession == open.pc # "off" => session = NoSession

\* A reference to a client is empty where a step is going to write it.
HandsFree ==
    /\ open.pc \in {"off", "list", "next", "bind"} => open.client = None
    /\ probe.pc # "logon" => probe.client = None

\* The run has an account from the moment it looks for a proxy.
RunHasAccount ==
    open.pc \in {"bind", "logon", "welcomed", "marked"} => open.account \in Accounts

\* Who waits for the promise waits for a run that is there to settle it.
WaitersHaveARun == \A j \in Callers : caller[j].pc = "wait" => open.pc # "off"

-----------------------------------------------------------------------------
(* The row of a resource *)

Attempts == UNION {[1..n -> BOOLEAN] : n \in 0..Window}

\* The rows of resource_attempts are a sequence, and never more than the window.
LEMMA AttemptsAreSequences ==
    ASSUME HealthAssumption
    PROVE  Attempts = {s \in Seq(BOOLEAN) : Len(s) <= Window}
  <1>1. ASSUME NEW s \in Attempts
        PROVE  s \in Seq(BOOLEAN) /\ Len(s) <= Window
    <2>1. PICK n \in 0..Window : s \in [1..n -> BOOLEAN]
      BY <1>1 DEF Attempts
    <2>2. n \in Nat
      BY <2>1 DEF HealthAssumption
    <2>3. s \in Seq(BOOLEAN)
      BY <2>1, <2>2, SeqDef
    <2>4. DOMAIN s = 1..n /\ DOMAIN s = 1..Len(s) /\ Len(s) \in Nat
      BY <2>1, <2>3, LenProperties
    <2> QED
      BY <2>1, <2>2, <2>3, <2>4 DEF HealthAssumption
  <1>2. ASSUME NEW s \in Seq(BOOLEAN), Len(s) <= Window
        PROVE  s \in Attempts
    <2>1. Len(s) \in 0..Window /\ s \in [1..Len(s) -> BOOLEAN]
      BY <1>2, LenProperties DEF HealthAssumption
    <2> QED
      BY <2>1 DEF Attempts
  <1> QED
    BY <1>1, <1>2

LEMMA AttemptAdded ==
    ASSUME HealthAssumption, NEW s \in Attempts, NEW ok \in BOOLEAN
    PROVE  LastWindow(Append(s, ok)) \in Attempts
  <1> DEFINE t == Append(s, ok)
  <1>1. s \in Seq(BOOLEAN) /\ Len(s) <= Window /\ Len(s) \in Nat
    BY AttemptsAreSequences, LenProperties
  <1>2. t \in Seq(BOOLEAN) /\ t # << >> /\ Len(t) = Len(s) + 1
    BY <1>1, AppendProperties
  <1>3. Tail(t) \in Seq(BOOLEAN) /\ Len(Tail(t)) = Len(t) - 1
    BY <1>2, HeadTailProperties
  <1> HIDE DEF t
  <1>4. LastWindow(t) \in Seq(BOOLEAN) /\ Len(LastWindow(t)) <= Window
    <2>1. Len(t) \in Nat /\ Window \in Nat /\ Len(t) <= Window + 1
      BY <1>1, <1>2 DEF HealthAssumption
    <2>2. CASE Len(t) > Window
      <3>1. LastWindow(t) = Tail(t)
        BY <2>2 DEF LastWindow
      <3> QED
        BY <1>3, <2>1, <3>1
    <2>3. CASE ~(Len(t) > Window)
      <3>1. LastWindow(t) = t
        BY <2>3 DEF LastWindow
      <3> QED
        BY <1>2, <2>1, <2>3, <3>1
    <2> QED
      BY <2>2, <2>3
  <1> QED
    BY <1>4, AttemptsAreSequences DEF t

\* Every write of a resource leaves a resource.
LEMMA ResourceWritten ==
    ASSUME HealthAssumption, NEW r \in Resource, NEW ok \in BOOLEAN
    PROVE  /\ recordResourceAttempt(r, ok) \in Resource
           /\ disableResource(r, ok) \in Resource
           /\ restoreResource(r) \in Resource
           /\ bumpResourceRetest(r) \in Resource
           /\ Failed(r) \in Resource
  <1> DEFINE ResourceOf(A) == [status : Statuses, limited : BOOLEAN,
                               retest : 0..RetestMax, attempts : A]
  <1>1. Resource = ResourceOf(Attempts)
    BY DEF Resource, Attempts
  <1>2. ASSUME NEW q \in Resource, NEW b \in BOOLEAN
        PROVE  recordResourceAttempt(q, b) \in Resource
    <2>1. LastWindow(Append(q.attempts, b)) \in Attempts
      BY <1>1, AttemptAdded
    <2> QED
      BY <1>1, <2>1 DEF recordResourceAttempt
  <1>3. ASSUME NEW q \in Resource, NEW b \in BOOLEAN
        PROVE  disableResource(q, b) \in Resource
    <2> DEFINE n == IF b THEN RetestMax ELSE 0
    <2>1. n \in 0..RetestMax /\ "disabled" \in Statuses
      BY DEF HealthAssumption, Statuses
    <2>2. disableResource(q, b) = [q EXCEPT !.status = "disabled", !.retest = n]
      BY DEF disableResource
    <2> HIDE DEF n
    <2> QED
      BY <1>1, <2>1, <2>2
  <1>4. restoreResource(r) \in Resource
    <2>1. "ready" \in Statuses /\ 0 \in 0..RetestMax
      BY DEF Statuses, HealthAssumption
    <2> QED
      BY <1>1, <2>1 DEF restoreResource
  <1>5. bumpResourceRetest(r) \in Resource
    <2> DEFINE n == IF r.retest < RetestMax THEN r.retest + 1 ELSE r.retest
    <2>1. r.retest \in 0..RetestMax
      BY <1>1
    <2>2. n \in 0..RetestMax
      BY <2>1 DEF HealthAssumption
    <2>3. bumpResourceRetest(r) = [r EXCEPT !.retest = n]
      BY DEF bumpResourceRetest
    <2> HIDE DEF n
    <2> QED
      BY <1>1, <2>2, <2>3
  <1>6. Failed(r) \in Resource
    BY <1>2, <1>3 DEF Failed
  <1> QED
    BY <1>2, <1>3, <1>4, <1>5, <1>6

LEMMA NewIsResource ==
    ASSUME HealthAssumption
    PROVE  NewResource \in Resource
  <1>1. << >> \in Attempts
    <2>1. << >> \in Seq(BOOLEAN) /\ Len(<< >>) = 0 /\ 0 <= Window
      BY EmptySeq DEF HealthAssumption
    <2>2. << >> \in {s \in Seq(BOOLEAN) : Len(s) <= Window}
      BY <2>1
    <2> QED
      BY <2>2, AttemptsAreSequences, Zenon
  <1>2. "ready" \in Statuses /\ FALSE \in BOOLEAN /\ 0 \in 0..RetestMax
    BY DEF Statuses, HealthAssumption
  <1> QED
    BY <1>1, <1>2 DEF NewResource, Resource, Attempts

LEMMA StatusWritten ==
    ASSUME NEW r \in Resource, NEW st \in Statuses, NEW l \in BOOLEAN
    PROVE  /\ [r EXCEPT !.status = st] \in Resource
           /\ [r EXCEPT !.limited = l] \in Resource
           /\ [r EXCEPT !.status = st, !.limited = l] \in Resource
  BY DEF Resource

-----------------------------------------------------------------------------
(* One step at a time *)

OpenType == [pc : {"off", "list", "next", "bind", "logon", "welcomed", "marked"},
             pool : SUBSET Accounts, account : Accounts \cup {None},
             proxy : Proxies \cup {None}, client : Clients \cup {None},
             imapDead : BOOLEAN, noWelcome : BOOLEAN]

CallerType == [pc : {"idle", "check", "wait", "request"}, asked : Proxies \cup {None}]

ProbeType == [pc : {"idle", "logon", "restore", "bump"},
              account : Accounts \cup {None}, client : Clients \cup {None},
              tried : 0..(LogonAttempts - 1)]

SessionType == [client : Clients \cup {None}, account : Accounts \cup {None},
                proxy : Proxies \cup {None}]

RowsTyped ==
    /\ account \in [Accounts -> Resource]
    /\ token \in SUBSET Accounts
    /\ boundTo \in [Accounts -> Proxies \cup {None}]
    /\ proxy \in [Proxies -> Resource]

ClientsTyped ==
    /\ live \in SUBSET Clients
    /\ leaving \in SUBSET Clients
    /\ session \in SessionType

RunsTyped ==
    /\ open \in OpenType
    /\ caller \in [Callers -> CallerType]
    /\ probe \in ProbeType

WorldTyped == down \in SUBSET Proxies /\ faults \in 0..MaxFaults

LEMMA TypeParts == TypeOK <=> RowsTyped /\ ClientsTyped /\ RunsTyped /\ WorldTyped
  BY DEF TypeOK, RowsTyped, ClientsTyped, RunsTyped, WorldTyped, OpenType, CallerType,
         ProbeType, SessionType

LEMMA Constants == /\ NoSession \in SessionType /\ Closed \in OpenType /\ NoCaller \in CallerType
                   /\ NoSession.client = None /\ Closed.client = None /\ Closed.pc = "off"
                   /\ NoCaller.pc = "idle"
  BY DEF NoSession, SessionType, Closed, OpenType, NoCaller, CallerType

LEMMA NoProbeTyped ==
    ASSUME GcAssumption PROVE NoProbe \in ProbeType /\ NoProbe.pc = "idle" /\ NoProbe.client = None
  BY DEF NoProbe, ProbeType, GcAssumption

\* A job that joins finds a run or starts one.
LEMMA JoinsAndWaits ==
    ASSUME RunsTyped, WaitersHaveARun, NEW j \in Callers, Joins(j)
    PROVE  /\ open' \in OpenType
           /\ caller' \in [Callers -> CallerType]
           /\ WaitersHaveARun'
           /\ open'.client = IF open.pc = "off" THEN None ELSE open.client
           /\ open'.pc = IF open.pc = "off" THEN "list" ELSE open.pc
           /\ open.pc # "off" => open'.account = open.account
  <1> DEFINE first == [Closed EXCEPT !.pc = "list"]
             me == [NoCaller EXCEPT !.pc = "wait"]
  <1>1. first \in OpenType /\ first.pc = "list" /\ first.client = None
    BY DEF Closed, OpenType
  <1>2. me \in CallerType /\ me.pc = "wait"
    BY DEF NoCaller, CallerType
  <1>3. open' = IF open.pc = "off" THEN first ELSE open
    BY DEF Joins
  <1>4. caller' = [caller EXCEPT ![j] = me]
    BY DEF Joins
  <1> HIDE DEF first, me
  <1>5. open'.pc # "off"
    BY <1>1, <1>3
  <1> QED
    BY <1>1, <1>2, <1>3, <1>4, <1>5 DEF RunsTyped, WaitersHaveARun

\* When the promise settles nobody waits.
LEMMA SettlesAll ==
    ASSUME RunsTyped, NEW ok \in BOOLEAN, Settles(ok)
    PROVE  /\ open' \in OpenType /\ open'.client = None /\ open'.pc = "off"
           /\ caller' \in [Callers -> CallerType]
           /\ WaitersHaveARun'
  <1> DEFINE me == [NoCaller EXCEPT !.pc = IF ok THEN "request" ELSE "idle"]
  <1>1. me \in CallerType /\ me.pc # "wait"
    BY DEF NoCaller, CallerType
  <1>2. /\ open' = Closed
        /\ caller' = [j \in Callers |-> IF caller[j].pc # "wait" THEN caller[j] ELSE me]
    BY DEF Settles
  <1> HIDE DEF me
  <1>3. \A j \in Callers : caller'[j] \in CallerType /\ caller'[j].pc # "wait"
    BY <1>1, <1>2 DEF RunsTyped
  <1> QED
    BY <1>2, <1>3, Constants DEF WaitersHaveARun

LEMMA FreshIsFree ==
    ASSUME NEW c \in Fresh
    PROVE  c \in Clients /\ c \notin {session.client, open.client, probe.client}
  BY DEF Fresh, Garbage

-----------------------------------------------------------------------------
(* Steps of the jobs *)

\* All of the invariant, with the types by groups of variables.
Inv == RowsTyped /\ ClientsTyped /\ RunsTyped /\ WorldTyped
       /\ OneSession /\ HandsFree /\ RunHasAccount /\ WaitersHaveARun /\ NoOrphanClient

LEMMA SameTyped ==
    ASSUME RowsTyped, ClientsTyped, RunsTyped, WorldTyped
    PROVE  /\ UNCHANGED rows => RowsTyped'
           /\ UNCHANGED world => WorldTyped'
           /\ UNCHANGED <<live, leaving, session>> => ClientsTyped'
  BY DEF RowsTyped, ClientsTyped, WorldTyped, rows, world

LEMMA ReplacedTyped ==
    ASSUME ClientsTyped, NEW c, NEW d \in Clients, Replaced(c, d), UNCHANGED session
    PROVE  ClientsTyped'
  BY DEF ClientsTyped, Replaced

LEMMA DropTyped ==
    ASSUME ClientsTyped, NEW c, Dropped(c), session' \in SessionType
    PROVE  ClientsTyped'
  BY DEF ClientsTyped, Dropped

\* A caller who does not wait goes his way.
LEMMA CallerMoves ==
    ASSUME Inv, RowsTyped', WorldTyped', NEW j \in Callers, NEW pc \in {"idle", "request"},
           caller' = [caller EXCEPT ![j] = [NoCaller EXCEPT !.pc = pc]],
           UNCHANGED <<live, leaving, session, open, probe>>
    PROVE  Inv'
  <1> DEFINE me == [NoCaller EXCEPT !.pc = pc]
  <1>1. me \in CallerType /\ me.pc # "wait"
    BY DEF NoCaller, CallerType
  <1>2. caller' = [caller EXCEPT ![j] = me]
    OBVIOUS
  <1> HIDE DEF me
  <1>3. RunsTyped' /\ WaitersHaveARun'
    BY <1>1, <1>2 DEF Inv, RunsTyped, WaitersHaveARun
  <1>4. ClientsTyped' /\ OneSession' /\ HandsFree' /\ RunHasAccount' /\ NoOrphanClient'
    BY SameTyped DEF Inv, OneSession, HandsFree, RunHasAccount, NoOrphanClient
  <1> QED
    BY <1>3, <1>4 DEF Inv

LEMMA SameButRows ==
    ASSUME Inv, RowsTyped', UNCHANGED <<live, leaving, session, open, caller, probe, world>>
    PROVE  Inv'
  <1>1. ClientsTyped' /\ WorldTyped' /\ RunsTyped'
    BY SameTyped DEF Inv, RunsTyped
  <1> QED
    BY <1>1 DEF Inv, OneSession, HandsFree, RunHasAccount, WaitersHaveARun, NoOrphanClient

LEMMA AskSessionKeeps ==
    ASSUME GcAssumption, Inv, NEW j \in Callers, AskSession(j)
    PROVE  Inv'
  <1>1. RowsTyped' /\ ClientsTyped' /\ WorldTyped'
    BY SameTyped DEF Inv, AskSession
  <1>2. UNCHANGED <<live, session, probe>>
    BY DEF AskSession
  <1>3. CASE Joins(j) /\ session = NoSession
    <2>1. RunsTyped' /\ WaitersHaveARun'
      BY <1>2, <1>3, JoinsAndWaits DEF Inv, RunsTyped
    <2>2. OneSession' /\ HandsFree' /\ RunHasAccount' /\ NoOrphanClient'
      BY <1>2, <1>3, JoinsAndWaits
      DEF Inv, RunsTyped, OneSession, HandsFree, RunHasAccount, NoOrphanClient
    <2> QED
      BY <1>1, <2>1, <2>2 DEF Inv
  <1>4. CASE session # NoSession
    <2>1. /\ UNCHANGED open
          /\ caller' = [caller EXCEPT ![j] = [caller[j] EXCEPT !.pc = "check", !.asked = session.proxy]]
      BY <1>4 DEF AskSession
    <2> DEFINE me == [caller[j] EXCEPT !.pc = "check", !.asked = session.proxy]
    <2>2. me \in CallerType /\ me.pc # "wait"
      BY DEF Inv, RunsTyped, ClientsTyped, CallerType, SessionType
    <2> HIDE DEF me
    <2>3. RunsTyped' /\ WaitersHaveARun'
      BY <1>2, <2>1, <2>2 DEF Inv, RunsTyped, WaitersHaveARun, me
    <2>4. OneSession' /\ HandsFree' /\ RunHasAccount' /\ NoOrphanClient'
      BY <1>2, <2>1 DEF Inv, OneSession, HandsFree, RunHasAccount, NoOrphanClient
    <2> QED
      BY <1>1, <2>3, <2>4 DEF Inv
  <1> QED
    BY <1>3, <1>4 DEF AskSession

LEMMA CheckSessionKeeps ==
    ASSUME GcAssumption, Inv, NEW j \in Callers, CheckSession(j)
    PROVE  Inv'
  <1>1. RowsTyped' /\ WorldTyped' /\ UNCHANGED probe
    BY SameTyped DEF Inv, CheckSession
  <1>2. CASE /\ Dropped(session.client) /\ session' = NoSession /\ Joins(j)
    <2>1. RunsTyped' /\ WaitersHaveARun'
      BY <1>1, <1>2, JoinsAndWaits DEF Inv, RunsTyped
    <2>2. ClientsTyped'
      BY <1>2, DropTyped, Constants DEF Inv
    <2>3. /\ open'.client = IF open.pc = "off" THEN None ELSE open.client
          /\ open'.pc = IF open.pc = "off" THEN "list" ELSE open.pc
          /\ open.pc # "off" => open'.account = open.account
      BY <1>2, JoinsAndWaits DEF Inv
    <2>4. OneSession' /\ HandsFree' /\ RunHasAccount'
      BY <1>1, <1>2, <2>3 DEF Inv, OneSession, HandsFree, RunHasAccount
    <2>5. NoOrphanClient'
      BY <1>1, <1>2, <2>3 DEF Inv, HandsFree, NoOrphanClient, Dropped
    <2> QED
      BY <1>1, <2>1, <2>2, <2>4, <2>5 DEF Inv
  <1>3. ASSUME NEW pc \in {"idle", "request"},
               caller' = [caller EXCEPT ![j] = [NoCaller EXCEPT !.pc = pc]],
               UNCHANGED <<live, leaving, session, open>>
        PROVE  Inv'
    BY <1>1, <1>3, CallerMoves DEF Inv
  <1>4. NoCaller = [NoCaller EXCEPT !.pc = "idle"]
    BY DEF NoCaller
  <1> QED
    BY <1>2, <1>3, <1>4 DEF CheckSession

LEMMA RequestKeeps ==
    ASSUME GcAssumption, Inv, NEW j \in Callers, Request(j)
    PROVE  Inv'
  <1>1. NoCaller = [NoCaller EXCEPT !.pc = "idle"]
    BY DEF NoCaller
  <1>2. RowsTyped' /\ WorldTyped'
    BY SameTyped DEF Inv, Request
  <1> QED
    BY <1>1, <1>2, CallerMoves DEF Request

-----------------------------------------------------------------------------
(* Steps of openGcSession *)

\* None is never logged on.
LEMMA NoneIsNoClient ==
    ASSUME ClientsTyped
    PROVE  None \notin live
  BY GcAssumption DEF ClientsTyped

LEMMA BoundIsProxy ==
    ASSUME RowsTyped, NEW b, NEW q \in ProxiesFor(b)
    PROVE  q \in Proxies
  BY DEF ProxiesFor, Usable

\* The run that ends leaves its client to the session, or to nobody when it
\* has none.
LEMMA RunEnds ==
    ASSUME Inv, RowsTyped', WorldTyped', ClientsTyped', NEW ok \in BOOLEAN, Settles(ok),
           UNCHANGED probe, live' \subseteq {session'.client, probe.client}
    PROVE  Inv'
  <1>1. RunsTyped' /\ WaitersHaveARun' /\ open'.client = None /\ open'.pc = "off"
    BY SettlesAll DEF Inv, RunsTyped
  <1>2. OneSession' /\ HandsFree' /\ RunHasAccount' /\ NoOrphanClient'
    BY <1>1 DEF Inv, OneSession, HandsFree, RunHasAccount, NoOrphanClient
  <1> QED
    BY <1>1, <1>2 DEF Inv

\* The run goes on.
LEMMA RunGoesOn ==
    ASSUME Inv, RowsTyped', WorldTyped', ClientsTyped', open' \in OpenType,
           UNCHANGED <<session, caller, probe>>, open.pc # "off", open'.pc # "off",
           open'.pc \in {"list", "next", "bind"} => open'.client = None,
           open'.pc \in {"list", "next"} \/ open'.account \in Accounts,
           live' \subseteq {session.client, open'.client, probe.client}
    PROVE  Inv'
  <1>1. RunsTyped' /\ WaitersHaveARun'
    BY DEF Inv, RunsTyped, WaitersHaveARun
  <1>2. OneSession' /\ HandsFree' /\ RunHasAccount' /\ NoOrphanClient'
    BY DEF Inv, OneSession, HandsFree, RunHasAccount, NoOrphanClient
  <1> QED
    BY <1>1, <1>2 DEF Inv

LEMMA ListPoolKeeps ==
    ASSUME Inv, ListPool
    PROVE  Inv'
  <1>1. RowsTyped' /\ WorldTyped' /\ ClientsTyped' /\ UNCHANGED <<live, session, probe>>
    BY SameTyped DEF Inv, ListPool
  <1>2. /\ open.pc = "list" /\ open.client = None
        /\ open \in OpenType
        /\ live \subseteq {session.client, open.client, probe.client}
    BY DEF Inv, ListPool, HandsFree, RunsTyped, NoOrphanClient
  <1>3. ASSUME NEW pool \in SUBSET Accounts,
               open' = [open EXCEPT !.pc = "next", !.pool = pool], UNCHANGED caller
        PROVE  Inv'
    <2>1. open' \in OpenType /\ open'.pc = "next" /\ open'.client = None
      BY <1>2, <1>3 DEF OpenType
    <2> QED
      BY <1>1, <1>2, <1>3, <2>1, RunGoesOn
  <1>4. ASSUME Settles(FALSE)
        PROVE  Inv'
    <2>1. live' \subseteq {session'.client, probe.client}
      BY <1>1, <1>2, NoneIsNoClient DEF Inv
    <2> QED
      BY <1>1, <1>4, <2>1, RunEnds
  <1> QED
    BY <1>3, <1>4 DEF ListPool

LEMMA NextAccountKeeps ==
    ASSUME Inv, NextAccount
    PROVE  Inv'
  <1>1. RowsTyped' /\ WorldTyped' /\ ClientsTyped' /\ UNCHANGED <<live, session, caller, probe>>
    BY SameTyped DEF Inv, NextAccount
  <1>2. /\ open.pc = "next" /\ open.client = None
        /\ open \in OpenType
        /\ live \subseteq {session.client, open.client, probe.client}
    BY DEF Inv, NextAccount, HandsFree, RunsTyped, NoOrphanClient
  <1>3. PICK a \in open.pool, pc \in {"next", "bind"} :
            open' = [open EXCEPT !.pool = @ \ {a}, !.pc = pc, !.account = a]
    BY DEF NextAccount
  <1>4. /\ open' \in OpenType /\ open'.pc = pc /\ open'.client = None
        /\ open'.account \in Accounts
    BY <1>2, <1>3 DEF OpenType
  <1> QED
    BY <1>1, <1>2, <1>4, RunGoesOn

LEMMA PoolExhaustedKeeps ==
    ASSUME Inv, PoolExhausted
    PROVE  Inv'
  <1>1. RowsTyped' /\ WorldTyped' /\ ClientsTyped' /\ UNCHANGED <<live, session, probe>>
    BY SameTyped DEF Inv, PoolExhausted
  <1>2. live' \subseteq {session'.client, probe.client}
    BY <1>1, NoneIsNoClient DEF Inv, PoolExhausted, HandsFree, NoOrphanClient
  <1> QED
    BY <1>1, <1>2, RunEnds DEF PoolExhausted

LEMMA BindProxyKeeps ==
    ASSUME Inv, BindProxy
    PROVE  Inv'
  <1> DEFINE a == open.account
  <1>1. /\ WorldTyped' /\ UNCHANGED <<leaving, session, probe>>
        /\ open.pc = "bind" /\ open.client = None /\ open \in OpenType
        /\ a \in Accounts
        /\ live \subseteq {session.client, open.client, probe.client}
    BY SameTyped DEF Inv, BindProxy, HandsFree, RunHasAccount, RunsTyped, NoOrphanClient
  <1>2. CASE \E q \in ProxiesFor(a), c \in Fresh :
                /\ boundTo' = [boundTo EXCEPT ![a] = q]
                /\ open' = [open EXCEPT !.pc = "logon", !.proxy = q, !.client = c]
                /\ live' = live \cup {c}
                /\ UNCHANGED caller
    <2>1. PICK q \in ProxiesFor(a), c \in Fresh :
                /\ boundTo' = [boundTo EXCEPT ![a] = q]
                /\ open' = [open EXCEPT !.pc = "logon", !.proxy = q, !.client = c]
                /\ live' = live \cup {c}
                /\ UNCHANGED caller
      BY <1>2
    <2>2. q \in Proxies
      BY BoundIsProxy DEF Inv
    <2>3. c \in Clients
      BY FreshIsFree
    <2>4. RowsTyped'
      BY <2>1, <2>2 DEF Inv, RowsTyped, BindProxy
    <2>5. ClientsTyped'
      BY <1>1, <2>1, <2>3 DEF Inv, ClientsTyped
    <2>6. open' \in OpenType /\ open'.pc = "logon" /\ open'.client = c /\ open'.account = a
      BY <1>1, <2>1, <2>2, <2>3 DEF OpenType
    <2>7. live' \subseteq {session.client, open'.client, probe.client}
      BY <1>1, <2>1, <2>6, NoneIsNoClient DEF Inv
    <2> QED
      BY <1>1, <2>1, <2>4, <2>5, <2>6, <2>7, RunGoesOn
  <1>3. CASE Settles(FALSE) /\ UNCHANGED <<boundTo, live>>
    <2>1. RowsTyped' /\ ClientsTyped'
      BY <1>3, SameTyped DEF Inv, BindProxy, rows
    <2>2. live' \subseteq {session'.client, probe.client}
      BY <1>1, <1>3, NoneIsNoClient DEF Inv
    <2> QED
      BY <1>1, <1>3, <2>1, <2>2, RunEnds
  <1> QED
    BY <1>2, <1>3 DEF BindProxy

LEMMA ConnectRefusedKeeps ==
    ASSUME HealthAssumption, Inv, ConnectRefused
    PROVE  Inv'
  <1> DEFINE a == open.account
             p == open.proxy
             worse == [proxy EXCEPT ![p] = Failed(Failed(@))]
             left == RotationTargets(p, {q \in Proxies : InService(worse[q])})
  <1>1. /\ WorldTyped' /\ UNCHANGED <<account, token, session, probe>>
        /\ open.pc = "logon" /\ open \in OpenType /\ session = NoSession
        /\ open.account \in Accounts
        /\ live \subseteq {session.client, open.client, probe.client}
    BY SameTyped DEF Inv, ConnectRefused, OneSession, RunHasAccount, RunsTyped, NoOrphanClient
  <1>2. /\ proxy' = worse
        /\ \/ \E q \in left, c \in Fresh :
                 /\ boundTo' = [boundTo EXCEPT ![a] = q]
                 /\ open' = [open EXCEPT !.proxy = q, !.client = c]
                 /\ Replaced(open.client, c)
                 /\ UNCHANGED caller
           \/ Settles(FALSE) /\ Dropped(open.client) /\ UNCHANGED boundTo
    BY DEF ConnectRefused
  <1>3. worse \in [Proxies -> Resource]
    <2>1. proxy \in [Proxies -> Resource]
      BY DEF Inv, RowsTyped
    <2>2. \A q \in Proxies : Failed(Failed(proxy[q])) \in Resource
      <3>1. ASSUME NEW r \in Resource PROVE Failed(r) \in Resource
        BY ResourceWritten
      <3> QED
        BY <2>1, <3>1
    <2> QED
      BY <2>1, <2>2
  <1>4. left \subseteq Proxies \cup {p} /\ (p \notin Proxies => left \subseteq Proxies)
    BY DEF RotationTargets
  <1> HIDE DEF worse, left, a
  <1>5. CASE \E q \in left, c \in Fresh :
                /\ boundTo' = [boundTo EXCEPT ![a] = q]
                /\ open' = [open EXCEPT !.proxy = q, !.client = c]
                /\ Replaced(open.client, c)
                /\ UNCHANGED caller
    <2>1. PICK q \in left, c \in Fresh :
                /\ boundTo' = [boundTo EXCEPT ![a] = q]
                /\ open' = [open EXCEPT !.proxy = q, !.client = c]
                /\ Replaced(open.client, c)
                /\ UNCHANGED caller
      BY <1>5
    <2>2. q \in Proxies /\ c \in Clients
      BY <1>4, FreshIsFree
    <2>3. RowsTyped'
      BY <1>1, <1>2, <1>3, <2>1, <2>2 DEF Inv, RowsTyped
    <2>4. ClientsTyped'
      BY <1>1, <2>1, <2>2, ReplacedTyped DEF Inv
    <2>5. /\ open' \in OpenType /\ open'.pc = "logon" /\ open'.client = c
          /\ open'.account = open.account
      BY <1>1, <2>1, <2>2 DEF OpenType
    <2>6. live' \subseteq {session.client, open'.client, probe.client}
      BY <1>1, <2>1, <2>5 DEF Replaced
    <2> QED
      BY <1>1, <2>1, <2>3, <2>4, <2>5, <2>6, RunGoesOn
  <1>6. CASE Settles(FALSE) /\ Dropped(open.client) /\ UNCHANGED boundTo
    <2>1. RowsTyped'
      BY <1>1, <1>2, <1>3, <1>6 DEF Inv, RowsTyped
    <2>2. ClientsTyped'
      BY <1>1, <1>6, DropTyped DEF Inv, ClientsTyped
    <2>3. live' \subseteq {session'.client, probe.client}
      BY <1>1, <1>6 DEF Dropped
    <2> QED
      BY <1>1, <1>6, <2>1, <2>2, <2>3, RunEnds
  <1> QED
    BY <1>2, <1>5, <1>6

LEMMA RefreshRefusedKeeps ==
    ASSUME Inv, RefreshRefused
    PROVE  Inv'
  <1>1. /\ WorldTyped' /\ UNCHANGED <<account, boundTo, proxy, session, caller, probe>>
        /\ open.pc = "logon" /\ open \in OpenType /\ session = NoSession
        /\ open.account \in Accounts
        /\ live \subseteq {session.client, open.client, probe.client}
    BY SameTyped DEF Inv, RefreshRefused, OneSession, RunHasAccount, RunsTyped, NoOrphanClient
  <1>2. PICK c \in Fresh : /\ open' = [open EXCEPT !.client = c]
                          /\ Replaced(open.client, c)
    BY DEF RefreshRefused
  <1>3. c \in Clients
    BY FreshIsFree
  <1>4. RowsTyped'
    BY <1>1 DEF Inv, RowsTyped, RefreshRefused
  <1>5. ClientsTyped'
    BY <1>1, <1>2, <1>3, ReplacedTyped DEF Inv
  <1>6. /\ open' \in OpenType /\ open'.pc = "logon" /\ open'.client = c
        /\ open'.account = open.account
    BY <1>1, <1>2, <1>3 DEF OpenType
  <1>7. live' \subseteq {session.client, open'.client, probe.client}
    BY <1>1, <1>2, <1>6 DEF Replaced
  <1> QED
    BY <1>1, <1>4, <1>5, <1>6, <1>7, RunGoesOn

\* A logon that fails is nobody's and its client is dropped.
LEMMA LogonFailsKeeps ==
    ASSUME Inv, open.pc = "logon", NEW row \in Resource, NEW i \in BOOLEAN, NEW w \in BOOLEAN,
           LogonFails(row, i, w)
    PROVE  Inv'
  <1>1. /\ WorldTyped' /\ UNCHANGED <<token, boundTo, proxy, session, caller, probe>>
        /\ open \in OpenType
        /\ live \subseteq {session.client, open.client, probe.client}
    BY SameTyped DEF Inv, LogonFails, RunsTyped, NoOrphanClient
  <1>2. RowsTyped'
    BY <1>1 DEF Inv, RowsTyped, LogonFails
  <1>3. Dropped(open.client)
    BY DEF LogonFails
  <1>4. ClientsTyped'
    BY <1>1, <1>3, DropTyped DEF Inv, ClientsTyped
  <1> DEFINE dead == open.imapDead \/ i
             none == open.noWelcome \/ w
  <1>5. open' = [open EXCEPT !.pc = "next", !.account = None, !.proxy = None, !.client = None,
                             !.imapDead = dead, !.noWelcome = none]
    BY DEF LogonFails
  <1>6. dead \in BOOLEAN /\ none \in BOOLEAN
    BY <1>1 DEF OpenType
  <1> HIDE DEF dead, none
  <1>7. open' \in OpenType /\ open'.pc = "next" /\ open'.client = None
    BY <1>1, <1>5, <1>6 DEF OpenType
  <1>8. live' \subseteq {session.client, open'.client, probe.client}
    BY <1>1, <1>3 DEF Dropped
  <1> QED
    BY <1>1, <1>2, <1>4, <1>7, <1>8, RunGoesOn

LEMMA LogonErrorKeeps ==
    ASSUME HealthAssumption, Inv, LogonError
    PROVE  Inv'
  <1> DEFINE r == account[open.account]
  <1>1. CASE open.account \in Accounts
    <2>1. r \in Resource
      BY <1>1 DEF Inv, RowsTyped
    <2>2. Failed(r) \in Resource /\ disableResource(r, TRUE) \in Resource
      BY <2>1, ResourceWritten
    <2>3. [r EXCEPT !.status = "rate_limited", !.limited = TRUE] \in Resource
      BY <2>1, StatusWritten DEF Statuses
    <2> QED
      BY <2>2, <2>3, LogonFailsKeeps DEF LogonError
  <1>2. open.account \in Accounts
    BY DEF Inv, LogonError, RunHasAccount
  <1> QED
    BY <1>1, <1>2

LEMMA WelcomeKeeps ==
    ASSUME Inv, Welcome
    PROVE  Inv'
  <1>1. /\ WorldTyped' /\ ClientsTyped'
        /\ UNCHANGED <<account, boundTo, proxy, live, session, caller, probe>>
        /\ open.pc = "logon" /\ open \in OpenType /\ open.account \in Accounts
        /\ live \subseteq {session.client, open.client, probe.client}
    BY SameTyped DEF Inv, Welcome, RunsTyped, RunHasAccount, NoOrphanClient
  <1>2. /\ open' \in OpenType /\ open'.pc = "welcomed" /\ open'.client = open.client
        /\ open'.account = open.account
    BY <1>1 DEF Welcome, OpenType
  <1>3. RowsTyped'
    BY <1>1 DEF Inv, RowsTyped, Welcome
  <1> QED
    BY <1>1, <1>2, <1>3, RunGoesOn

LEMMA MarkAccountLoginKeeps ==
    ASSUME Inv, MarkAccountLogin
    PROVE  Inv'
  <1>1. /\ WorldTyped' /\ ClientsTyped'
        /\ UNCHANGED <<token, boundTo, proxy, live, session, caller, probe>>
        /\ open.pc = "welcomed" /\ open \in OpenType /\ open.account \in Accounts
        /\ live \subseteq {session.client, open.client, probe.client}
    BY SameTyped DEF Inv, MarkAccountLogin, RunsTyped, RunHasAccount, NoOrphanClient
  <1>2. /\ open' \in OpenType /\ open'.pc = "marked" /\ open'.client = open.client
        /\ open'.account = open.account
    BY <1>1 DEF MarkAccountLogin, OpenType
  <1>3. RowsTyped'
    <2>1. /\ account \in [Accounts -> Resource] /\ open.account \in Accounts
      BY <1>1 DEF Inv, RowsTyped
    <2> DEFINE row == [account[open.account] EXCEPT !.status = "active"]
    <2>2. row \in Resource
      BY <2>1, StatusWritten DEF Statuses
    <2>3. account' = [account EXCEPT ![open.account] = row]
      BY DEF MarkAccountLogin
    <2> HIDE DEF row
    <2> QED
      BY <1>1, <2>1, <2>2, <2>3 DEF Inv, RowsTyped
  <1> QED
    BY <1>1, <1>2, <1>3, RunGoesOn

LEMMA StoreSessionKeeps ==
    ASSUME HealthAssumption, Inv, StoreSession
    PROVE  Inv'
  <1>1. /\ WorldTyped' /\ UNCHANGED <<token, boundTo, live, leaving, probe>>
        /\ Settles(TRUE) /\ open.pc = "marked" /\ open \in OpenType /\ session = NoSession
        /\ live \subseteq {session.client, open.client, probe.client}
    BY SameTyped DEF Inv, StoreSession, OneSession, RunsTyped, NoOrphanClient
  <1>2. session' \in SessionType /\ session'.client = open.client
    BY <1>1 DEF StoreSession, SessionType, OpenType
  <1>3. RowsTyped'
    <2>1. ASSUME NEW r \in Resource PROVE recordResourceAttempt(r, TRUE) \in Resource
      BY ResourceWritten
    <2> QED
      BY <1>1, <2>1 DEF Inv, RowsTyped, StoreSession
  <1>4. ClientsTyped'
    BY <1>1, <1>2 DEF Inv, ClientsTyped
  <1>5. live' \subseteq {session'.client, probe.client}
    BY <1>1, <1>2, NoneIsNoClient DEF Inv, NoSession
  <1> QED
    BY <1>1, <1>3, <1>4, <1>5, RunEnds

-----------------------------------------------------------------------------
(* Events, the retest and the world *)

\* A client goes, or the session does, and neither the run nor a job moves.
LEMMA ClientGoes ==
    ASSUME Inv, RowsTyped', WorldTyped', ClientsTyped', probe' \in ProbeType,
           UNCHANGED <<open, caller>>,
           open.pc # "off" => session' = NoSession,
           probe'.pc # "logon" => probe'.client = None,
           live' \subseteq {session'.client, open.client, probe'.client}
    PROVE  Inv'
  BY DEF Inv, RunsTyped, OneSession, HandsFree, RunHasAccount, WaitersHaveARun, NoOrphanClient

LEMMA DisconnectedKeeps ==
    ASSUME Inv, NEW c \in Clients, Disconnected(c)
    PROVE  Inv'
  <1>1. /\ RowsTyped' /\ WorldTyped' /\ UNCHANGED <<open, caller, probe>>
        /\ probe \in ProbeType
        /\ live' = live \ {c} /\ leaving' = leaving \ {c}
        /\ session' = IF session.client = c THEN NoSession ELSE session
        /\ live \subseteq {session.client, open.client, probe.client}
    BY SameTyped DEF Inv, Disconnected, IsSessionOf, RunsTyped, NoOrphanClient
  <1>2. ClientsTyped'
    BY <1>1, Constants DEF Inv, ClientsTyped
  <1> QED
    BY <1>1, <1>2, ClientGoes DEF Inv, OneSession, HandsFree

LEMMA CloseSessionKeeps ==
    ASSUME Inv, CloseSession
    PROVE  Inv'
  <1>1. /\ RowsTyped' /\ WorldTyped' /\ UNCHANGED <<open, caller, probe>>
        /\ probe \in ProbeType
        /\ Dropped(session.client) /\ session' = NoSession
        /\ live \subseteq {session.client, open.client, probe.client}
    BY SameTyped DEF Inv, CloseSession, RunsTyped, NoOrphanClient
  <1>2. ClientsTyped'
    BY <1>1, DropTyped, Constants DEF Inv
  <1> QED
    BY <1>1, <1>2, ClientGoes DEF Inv, HandsFree, Dropped

\* The retest of an account moves, with the client it has.
LEMMA ProbeMoves ==
    ASSUME Inv, RowsTyped', WorldTyped', ClientsTyped', probe' \in ProbeType,
           UNCHANGED <<session, open, caller>>,
           probe'.pc # "logon" => probe'.client = None,
           live' \subseteq {session.client, open.client, probe'.client}
    PROVE  Inv'
  BY ClientGoes DEF Inv, OneSession

LEMMA ProbeStartKeeps ==
    ASSUME Inv, NEW a \in Accounts, ProbeStart(a)
    PROVE  Inv'
  <1>1. /\ WorldTyped' /\ UNCHANGED <<account, token, proxy, leaving, session, open, caller>>
        /\ probe.client = None
        /\ live \subseteq {session.client, open.client, probe.client}
    BY SameTyped, NoProbeTyped, GcAssumption DEF Inv, ProbeStart, NoOrphanClient
  <1>2. 0 \in 0..(LogonAttempts - 1)
    BY GcAssumption DEF GcAssumption
  <1>3. ASSUME NEW q \in ProxiesFor(a), NEW c \in Fresh,
               boundTo' = [boundTo EXCEPT ![a] = q], live' = live \cup {c},
               probe' = [pc |-> "logon", account |-> a, client |-> c, tried |-> 0]
        PROVE  Inv'
    <2>1. q \in Proxies /\ c \in Clients
      BY BoundIsProxy, FreshIsFree DEF Inv
    <2>2. RowsTyped'
      BY <1>1, <1>3, <2>1 DEF Inv, RowsTyped
    <2>3. ClientsTyped'
      BY <1>1, <1>3, <2>1 DEF Inv, ClientsTyped
    <2>4. probe' \in ProbeType /\ probe'.pc = "logon" /\ probe'.client = c
      BY <1>2, <1>3, <2>1 DEF ProbeType
    <2>5. live' \subseteq {session.client, open.client, probe'.client}
      BY <1>1, <1>3, <2>4, NoneIsNoClient DEF Inv
    <2> QED
      BY <1>1, <2>2, <2>3, <2>4, <2>5, ProbeMoves
  <1>4. ASSUME probe' = [NoProbe EXCEPT !.pc = "bump", !.account = a],
               UNCHANGED <<boundTo, live>>
        PROVE  Inv'
    <2>1. RowsTyped' /\ ClientsTyped'
      BY <1>1, <1>4 DEF Inv, RowsTyped, ClientsTyped
    <2>2. probe' \in ProbeType /\ probe'.pc = "bump" /\ probe'.client = None
      BY <1>2, <1>4 DEF NoProbe, ProbeType
    <2> QED
      BY <1>1, <1>4, <2>1, <2>2, ProbeMoves
  <1> QED
    BY <1>3, <1>4 DEF ProbeStart

LEMMA ProbeBreaksKeeps ==
    ASSUME HealthAssumption, Inv, ProbeBreaks
    PROVE  Inv'
  <1> DEFINE a == probe.account
             p == boundTo[a]
             worse == [proxy EXCEPT ![p] = Failed(@)]
             left == RotationTargets(p, {q \in Proxies : InService(worse[q])})
  <1>1. /\ WorldTyped' /\ UNCHANGED <<account, token, session, open, caller>>
        /\ probe.pc = "logon" /\ probe \in ProbeType
        /\ live \subseteq {session.client, open.client, probe.client}
    BY SameTyped DEF Inv, ProbeBreaks, RunsTyped, NoOrphanClient
  <1>2. worse \in [Proxies -> Resource]
    <2>1. ASSUME NEW r \in Resource PROVE Failed(r) \in Resource
      BY ResourceWritten
    <2> QED
      BY <2>1 DEF Inv, RowsTyped
  <1>3. left \subseteq Proxies
    BY DEF RotationTargets
  <1>4. ASSUME proxy' = worse, \E q \in left : boundTo' = [boundTo EXCEPT ![a] = q],
               probe.tried + 1 < LogonAttempts, NEW c \in Fresh,
               probe' = [probe EXCEPT !.tried = @ + 1, !.client = c],
               Replaced(probe.client, c)
        PROVE  Inv'
    <2>0. c \in Clients
      BY FreshIsFree
    <2>1. RowsTyped'
      <3> HIDE DEF worse, left, a
      <3> QED
        BY <1>1, <1>2, <1>3, <1>4 DEF Inv, RowsTyped
    <2>2. ClientsTyped'
      BY <1>1, <1>4, <2>0, ReplacedTyped DEF Inv
    <2>3. probe.tried + 1 \in 0..(LogonAttempts - 1)
      BY <1>1, <1>4, GcAssumption DEF ProbeType, GcAssumption
    <2>4. probe' \in ProbeType /\ probe'.pc = "logon" /\ probe'.client = c
      BY <1>1, <1>4, <2>0, <2>3 DEF ProbeType
    <2>5. live' \subseteq {session.client, open.client, probe'.client}
      BY <1>1, <1>4, <2>4 DEF Replaced
    <2> QED
      BY <1>1, <2>1, <2>2, <2>4, <2>5, ProbeMoves
  <1>5. ASSUME proxy' \in {proxy, worse}, probe' = [probe EXCEPT !.pc = "bump", !.client = None],
               Dropped(probe.client), UNCHANGED boundTo
        PROVE  Inv'
    <2>1. RowsTyped'
      <3> HIDE DEF worse
      <3> QED
        BY <1>1, <1>2, <1>5 DEF Inv, RowsTyped
    <2>2. ClientsTyped'
      BY <1>1, <1>5, DropTyped DEF Inv, ClientsTyped
    <2>3. probe' \in ProbeType /\ probe'.pc = "bump" /\ probe'.client = None
      BY <1>1, <1>5 DEF ProbeType
    <2>4. live' \subseteq {session.client, open.client, probe'.client}
      BY <1>1, <1>5 DEF Dropped
    <2> QED
      BY <1>1, <2>1, <2>2, <2>3, <2>4, ProbeMoves
  <1> QED
    BY <1>4, <1>5 DEF ProbeBreaks

LEMMA ProbeEndsKeeps ==
    ASSUME HealthAssumption, Inv, ProbeEnds
    PROVE  Inv'
  <1> DEFINE a == probe.account
  <1>1. /\ WorldTyped' /\ UNCHANGED <<token, boundTo, session, open, caller>>
        /\ probe.pc = "logon" /\ probe \in ProbeType /\ Dropped(probe.client)
        /\ live \subseteq {session.client, open.client, probe.client}
    BY SameTyped DEF Inv, ProbeEnds, RunsTyped, NoOrphanClient
  <1>2. ASSUME NEW r \in Resource
        PROVE  /\ recordResourceAttempt(r, TRUE) \in Resource
               /\ disableResource(r, TRUE) \in Resource
               /\ Failed(r) \in Resource
    BY ResourceWritten
  <1>3. account \in [Accounts -> Resource] /\ proxy \in [Proxies -> Resource]
    BY DEF Inv, RowsTyped
  <1>4. /\ account' \in [Accounts -> Resource] /\ proxy' \in [Proxies -> Resource]
        /\ \E pc \in {"restore", "bump"} : probe' = [probe EXCEPT !.pc = pc, !.client = None]
    <2>1. CASE /\ proxy' = [proxy EXCEPT ![boundTo[a]] = recordResourceAttempt(@, TRUE)]
               /\ account' = [account EXCEPT ![a] = recordResourceAttempt(@, TRUE)]
               /\ probe' = [probe EXCEPT !.pc = "restore", !.client = None]
      BY <1>2, <1>3, <2>1
    <2>2. ASSUME NEW r \in {disableResource(account[a], TRUE), Failed(account[a])},
                 account' = [account EXCEPT ![a] = r], UNCHANGED proxy,
                 probe' = [probe EXCEPT !.pc = "bump", !.client = None]
          PROVE  account' \in [Accounts -> Resource]
      <3>1. a \in Accounts => r \in Resource
        BY <1>2, <1>3, <2>2
      <3> QED
        BY <1>3, <2>2, <3>1
    <2> QED
      BY <1>3, <2>1, <2>2 DEF ProbeEnds
  <1>5. RowsTyped'
    BY <1>1, <1>4 DEF Inv, RowsTyped
  <1>6. ClientsTyped'
    BY <1>1, DropTyped DEF Inv, ClientsTyped
  <1>7. probe' \in ProbeType /\ probe'.pc # "logon" /\ probe'.client = None
    BY <1>1, <1>4 DEF ProbeType
  <1>8. live' \subseteq {session.client, open.client, probe'.client}
    BY <1>1 DEF Dropped
  <1> QED
    BY <1>1, <1>5, <1>6, <1>7, <1>8, ProbeMoves

LEMMA ProbeVerdictKeeps ==
    ASSUME HealthAssumption, Inv, ProbeVerdict
    PROVE  Inv'
  <1>1. /\ WorldTyped' /\ ClientsTyped'
        /\ UNCHANGED <<token, boundTo, proxy, live, leaving, session, open, caller>>
        /\ probe.client = None
        /\ live \subseteq {session.client, open.client, probe.client}
    BY SameTyped DEF Inv, ProbeVerdict, HandsFree, NoOrphanClient
  <1>2. RowsTyped'
    <2>1. ASSUME NEW r \in Resource
          PROVE  restoreResource(r) \in Resource /\ bumpResourceRetest(r) \in Resource
      BY ResourceWritten
    <2> QED
      BY <1>1, <2>1 DEF Inv, RowsTyped, ProbeVerdict
  <1> QED
    BY <1>1, <1>2, ProbeMoves, NoProbeTyped, GcAssumption DEF ProbeVerdict

LEMMA LimitPassesKeeps ==
    ASSUME Inv, NEW a \in Accounts, LimitPasses(a)
    PROVE  Inv'
  <1> DEFINE row == [account[a] EXCEPT !.limited = FALSE]
  <1>1. UNCHANGED <<token, boundTo, proxy, live, leaving, session, open, caller, probe, world>>
    BY DEF LimitPasses
  <1>2. account \in [Accounts -> Resource] /\ row \in Resource
    BY StatusWritten DEF Inv, RowsTyped, Statuses
  <1>3. account' = [account EXCEPT ![a] = row]
    BY DEF LimitPasses
  <1> HIDE DEF row
  <1>4. RowsTyped'
    BY <1>1, <1>2, <1>3 DEF Inv, RowsTyped
  <1> QED
    BY <1>1, <1>4, SameButRows

LEMMA FaultKeeps ==
    ASSUME Inv, Fault
    PROVE  Inv'
  <1>1. UNCHANGED <<rows, live, leaving, session, open, caller, probe>>
    BY DEF Fault
  <1>2. RowsTyped' /\ ClientsTyped' /\ RunsTyped'
    BY <1>1, SameTyped DEF Inv, RunsTyped
  <1>3. WorldTyped'
    BY GcAssumption DEF Inv, WorldTyped, Fault, GcAssumption
  <1> QED
    BY <1>1, <1>2, <1>3 DEF Inv, OneSession, HandsFree, RunHasAccount, WaitersHaveARun, NoOrphanClient

-----------------------------------------------------------------------------
(* The invariant *)

LEMMA InitInv == ASSUME HealthAssumption, Init PROVE Inv
  <1>1. RowsTyped
    <2>1. NewResource \in Resource
      BY NewIsResource
    <2> QED
      BY <2>1 DEF Init, RowsTyped
  <1>2. ClientsTyped /\ RunsTyped /\ WorldTyped
    BY Constants, NoProbeTyped, GcAssumption
    DEF Init, ClientsTyped, RunsTyped, WorldTyped, GcAssumption
  <1>3. OneSession /\ HandsFree /\ RunHasAccount /\ WaitersHaveARun /\ NoOrphanClient
    BY Constants, NoProbeTyped, GcAssumption
    DEF Init, OneSession, HandsFree, RunHasAccount, WaitersHaveARun, NoOrphanClient
  <1> QED
    BY <1>1, <1>2, <1>3 DEF Inv

LEMMA StepInv == ASSUME HealthAssumption, Inv, [Next]_vars PROVE Inv'
  <1>1. CASE \E j \in Callers : AskSession(j) \/ CallerStep(j)
    BY <1>1, GcAssumption, AskSessionKeeps, CheckSessionKeeps, RequestKeeps DEF CallerStep
  <1>2. CASE OpenStep
    BY <1>2, ListPoolKeeps, NextAccountKeeps, PoolExhaustedKeeps, BindProxyKeeps,
       ConnectRefusedKeeps, RefreshRefusedKeeps, LogonErrorKeeps, WelcomeKeeps,
       MarkAccountLoginKeeps, StoreSessionKeeps DEF OpenStep
  <1>3. CASE ProbeStep
    BY <1>3, ProbeStartKeeps, ProbeBreaksKeeps, ProbeEndsKeeps, ProbeVerdictKeeps DEF ProbeStep
  <1>4. CASE \/ \E c \in Clients : Disconnected(c)
             \/ CloseSession
             \/ \E a \in Accounts : LimitPasses(a)
             \/ Fault
    BY <1>4, DisconnectedKeeps, CloseSessionKeeps, LimitPassesKeeps, FaultKeeps
  <1>5. CASE UNCHANGED vars
    <2>1. RowsTyped' /\ UNCHANGED <<live, leaving, session, open, caller, probe, world>>
      BY <1>5, SameTyped DEF Inv, vars, rows, world
    <2> QED
      BY <2>1, SameButRows
  <1> QED
    BY <1>1, <1>2, <1>3, <1>4, <1>5 DEF Next

\* The inductive invariant of the session holds in every reachable state: each
\* client that is logged on is in the hands of the session, of the run that
\* opens it, or of the retest.
THEOREM Invariance == Spec => []Inv
  BY HealthAssumption, InitInv, StepInv, PTL DEF Spec

\* Types: every row, reference and run of the session, the retest and the
\* callers, for every pool and every window of errors.
THEOREM TypeCorrect == Spec => []TypeOK
  BY Invariance, TypeParts, PTL DEF Inv

\* Whatever the order in which clients log on, fail, are dropped and report
\* that they are disconnected, a client that is logged on is the session's, the
\* opening run's or the retest's: none is left logged on that nobody can close.
THEOREM NoClientIsForgotten == Spec => []NoOrphanClient
  BY Invariance, PTL DEF Inv

\* getGcSession never opens beside a session: the promise that the jobs share
\* is set only when the session is not, and cleared when the session is set.
THEOREM OneSessionAtATime == Spec => []OneSession
  BY Invariance, PTL DEF Inv

\* No job awaits a promise that nobody is going to settle.
THEOREM NobodyWaitsInVain == Spec => []WaitersHaveARun
  BY Invariance, PTL DEF Inv

-----------------------------------------------------------------------------
(***************************************************************************)
(* The runs implement what SharedSession promises to the jobs (its safety; *)
(* that an opening settles is liveness, which TLC checks).                 *)
(***************************************************************************)
Waiting == {j \in Callers : caller[j].pc = "wait"}

Served == {j \in Callers : caller[j].pc = "request"}

\* Steps inside a run, of the retest and of the world.
LEMMA NothingShared ==
    ASSUME UNCHANGED <<session, caller>>, open.pc # "off" <=> open'.pc # "off"
    PROVE  UNCHANGED Shared!vars
  BY DEF Shared!vars

\* A job that joins waits, and for one and the same opening.
LEMMA JoinsWaits ==
    ASSUME Inv, NEW j \in Callers, caller[j].pc \in {"idle", "check"}, Joins(j),
           session' = NoSession
    PROVE  Shared!Next
  <1>1. open'.pc # "off"
    BY JoinsAndWaits DEF Inv
  <1>2. caller \in [Callers -> CallerType]
    BY DEF Inv, RunsTyped
  <1>3. PICK me : me.pc = "wait" /\ caller' = [caller EXCEPT ![j] = me]
    BY DEF Joins, NoCaller
  <1>4. Waiting' = Waiting \cup {j} /\ Served' = Served
    BY <1>2, <1>3 DEF Waiting, Served
  <1>5. Shared!Waits(j)
    BY <1>1, <1>4 DEF Shared!Waits, Shared!Free, Waiting, Served
  <1> QED
    BY <1>5 DEF Shared!Next

\* The outcome of the promise is everybody's who waits for it.
LEMMA SettlesForAll ==
    ASSUME Inv, NEW ok \in BOOLEAN, Settles(ok)
    PROVE  /\ Waiting' = {}
           /\ Served' = IF ok THEN Served \cup Waiting ELSE Served
  <1>1. /\ \A j \in Callers : caller[j].pc # "wait" => caller'[j] = caller[j]
        /\ \A j \in Callers : caller[j].pc = "wait" =>
               caller'[j].pc = IF ok THEN "request" ELSE "idle"
    BY DEF Settles, NoCaller
  <1> QED
    BY <1>1 DEF Waiting, Served

LEMMA SettlesInError ==
    ASSUME Inv, Settles(FALSE), open.pc # "off", UNCHANGED session
    PROVE  Shared!Next
  <1>1. open'.pc = "off"
    BY SettlesAll DEF Inv
  <1>2. Shared!Fails
    BY <1>1, SettlesForAll DEF Shared!Fails, Waiting, Served
  <1> QED
    BY <1>2 DEF Shared!Next

LEMMA AskSessionShares ==
    ASSUME Inv, NEW j \in Callers, AskSession(j)
    PROVE  [Shared!Next]_(Shared!vars)
  <1>1. CASE session = NoSession
    BY <1>1, JoinsWaits DEF AskSession
  <1>2. CASE session # NoSession
    <2>1. /\ UNCHANGED <<session, open>>
          /\ caller[j].pc = "idle" /\ caller'[j].pc = "check"
          /\ \A i \in Callers : i # j => caller'[i] = caller[i]
      BY <1>2 DEF AskSession, Inv, RunsTyped, CallerType
    <2> QED
      BY <2>1 DEF Shared!vars
  <1> QED
    BY <1>1, <1>2

LEMMA CheckSessionShares ==
    ASSUME Inv, NEW j \in Callers, CheckSession(j)
    PROVE  [Shared!Next]_(Shared!vars)
  <1>1. caller[j].pc = "check" /\ caller \in [Callers -> CallerType]
    BY DEF CheckSession, Inv, RunsTyped
  <1>2. CASE /\ session # NoSession
             /\ caller' = [caller EXCEPT ![j] = [NoCaller EXCEPT !.pc = "request"]]
             /\ UNCHANGED <<session, open>>
    <2>1. caller'[j].pc = "request" /\ \A i \in Callers : i # j => caller'[i] = caller[i]
      BY <1>1, <1>2 DEF NoCaller
    <2>2. Waiting' = Waiting /\ Served' = Served \cup {j}
      BY <1>1, <2>1 DEF Waiting, Served
    <2>3. Shared!TakesSession(j)
      BY <1>1, <1>2, <2>2 DEF Shared!TakesSession, Shared!Free, Waiting, Served
    <2> QED
      BY <2>3 DEF Shared!Next
  <1>3. CASE session' = NoSession /\ Joins(j)
    BY <1>1, <1>3, JoinsWaits
  <1>4. CASE caller' = [caller EXCEPT ![j] = NoCaller] /\ UNCHANGED <<session, open>>
    <2>1. caller'[j].pc = "idle" /\ \A i \in Callers : i # j => caller'[i] = caller[i]
      BY <1>1, <1>4 DEF NoCaller
    <2> QED
      BY <1>1, <1>4, <2>1 DEF Shared!vars
  <1> QED
    BY <1>2, <1>3, <1>4 DEF CheckSession

LEMMA RequestShares ==
    ASSUME Inv, NEW j \in Callers, Request(j)
    PROVE  Shared!Next
  <1>1. /\ caller[j].pc = "request" /\ caller'[j].pc = "idle"
        /\ \A i \in Callers : i # j => caller'[i] = caller[i]
        /\ UNCHANGED <<session, open>>
    BY DEF Request, Inv, RunsTyped, CallerType, NoCaller
  <1>2. Waiting' = Waiting /\ Served' = Served \ {j} /\ j \in Served
    BY <1>1 DEF Waiting, Served
  <1>3. Shared!Done(j)
    BY <1>1, <1>2 DEF Shared!Done, Waiting, Served
  <1> QED
    BY <1>3 DEF Shared!Next

\* A step of the run stays inside it, ends it in an error or stores a session.
LEMMA OpenStepShares ==
    ASSUME GcAssumption, Inv, OpenStep
    PROVE  [Shared!Next]_(Shared!vars)
  <1>1. open \in OpenType
    BY DEF Inv, RunsTyped
  <1>2. CASE ListPool \/ PoolExhausted
    <2>1. UNCHANGED session /\ open.pc # "off"
      BY <1>2 DEF ListPool, PoolExhausted
    <2>2. CASE Settles(FALSE)
      BY <2>1, <2>2, SettlesInError
    <2>3. CASE UNCHANGED caller /\ \E pool : open' = [open EXCEPT !.pc = "next", !.pool = pool]
      <3>1. open'.pc = "next"
        BY <1>1, <2>3 DEF OpenType
      <3> QED
        BY <2>1, <2>3, <3>1, NothingShared
    <2> QED
      BY <1>2, <2>2, <2>3 DEF ListPool, PoolExhausted
  <1>3. CASE NextAccount
    <2>1. UNCHANGED <<session, caller>> /\ open.pc = "next" /\ open'.pc \in {"next", "bind"}
      BY <1>1, <1>3 DEF NextAccount, OpenType
    <2> QED
      BY <2>1, NothingShared
  <1>4. CASE BindProxy
    <2>1. UNCHANGED session /\ open.pc = "bind"
      BY <1>4 DEF BindProxy
    <2>2. CASE Settles(FALSE)
      BY <2>1, <2>2, SettlesInError
    <2>3. CASE UNCHANGED caller /\ \E p, c : open' = [open EXCEPT !.pc = "logon", !.proxy = p, !.client = c]
      <3>1. open'.pc = "logon"
        BY <1>1, <2>3 DEF OpenType
      <3> QED
        BY <2>1, <2>3, <3>1, NothingShared
    <2> QED
      BY <1>4, <2>2, <2>3 DEF BindProxy
  <1>5. CASE ConnectRefused
    <2>1. UNCHANGED session /\ open.pc = "logon"
      BY <1>5 DEF ConnectRefused
    <2>2. CASE Settles(FALSE)
      BY <2>1, <2>2, SettlesInError
    <2>3. CASE UNCHANGED caller /\ \E q, c : open' = [open EXCEPT !.proxy = q, !.client = c]
      <3>1. open'.pc = "logon"
        BY <1>1, <2>1, <2>3 DEF OpenType
      <3> QED
        BY <2>1, <2>3, <3>1, NothingShared
    <2> QED
      BY <1>5, <2>2, <2>3 DEF ConnectRefused
  <1>6. CASE RefreshRefused
    <2>1. UNCHANGED <<session, caller>> /\ open.pc = "logon" /\ open'.pc = "logon"
      BY <1>1, <1>6 DEF RefreshRefused, OpenType
    <2> QED
      BY <2>1, NothingShared
  <1>7. CASE LogonError
    <2>1. open.pc = "logon" /\ \E row, i, w : LogonFails(row, i, w)
      BY <1>7 DEF LogonError
    <2>2. UNCHANGED <<session, caller>> /\ open'.pc = "next"
      BY <1>1, <2>1 DEF LogonFails, OpenType
    <2> QED
      BY <2>1, <2>2, NothingShared
  <1>8. CASE Welcome \/ MarkAccountLogin
    <2>1. UNCHANGED <<session, caller>> /\ open.pc # "off" /\ open'.pc # "off"
      BY <1>1, <1>8 DEF Welcome, MarkAccountLogin, OpenType
    <2> QED
      BY <2>1, NothingShared
  <1>9. CASE StoreSession
    <2>1. open.pc = "marked" /\ Settles(TRUE) /\ session'.account = open.account
      BY <1>9 DEF StoreSession
    <2>2. session = NoSession /\ session' # NoSession
      BY <2>1, GcAssumption DEF Inv, OneSession, RunHasAccount, NoSession, GcAssumption
    <2>3. open'.pc = "off"
      BY <2>1, SettlesAll DEF Inv
    <2>4. Shared!Opens
      BY <2>1, <2>2, <2>3, SettlesForAll DEF Shared!Opens, Waiting, Served
    <2> QED
      BY <2>4 DEF Shared!Next
  <1> QED
    BY <1>2, <1>3, <1>4, <1>5, <1>6, <1>7, <1>8, <1>9 DEF OpenStep

\* The session ends with its own client, not with another.
LEMMA SessionEndsAlone ==
    ASSUME session' \in {session, NoSession}, UNCHANGED <<open, caller>>
    PROVE  [Shared!Next]_(Shared!vars)
  <1>1. CASE session' = session
    BY <1>1, NothingShared
  <1>2. CASE session' = NoSession /\ session # NoSession
    <2>1. Shared!SessionEnds
      BY <1>2 DEF Shared!SessionEnds
    <2> QED
      BY <2>1 DEF Shared!Next
  <1> QED
    BY <1>1, <1>2

LEMMA InitShares == ASSUME Init PROVE Shared!Init
  BY DEF Init, Shared!Init, Closed, NoCaller

LEMMA StepShares ==
    ASSUME GcAssumption, Inv, [Next]_vars
    PROVE  [Shared!Next]_(Shared!vars)
  <1>1. CASE \E j \in Callers : AskSession(j) \/ CallerStep(j)
    BY <1>1, AskSessionShares, CheckSessionShares, RequestShares DEF CallerStep
  <1>2. CASE OpenStep
    BY <1>2, OpenStepShares
  <1>3. CASE \/ \E c \in Clients : Disconnected(c)
             \/ CloseSession
    <2>1. session' \in {session, NoSession} /\ UNCHANGED <<open, caller>>
      BY <1>3 DEF Disconnected, CloseSession
    <2> QED
      BY <2>1, SessionEndsAlone
  <1>4. CASE \/ ProbeStep
             \/ \E a \in Accounts : LimitPasses(a)
             \/ Fault
             \/ UNCHANGED vars
    <2>1. UNCHANGED <<session, open, caller>>
      BY <1>4 DEF ProbeStep, ProbeStart, ProbeBreaks, ProbeEnds, ProbeVerdict,
         LimitPasses, Fault, vars
    <2> QED
      BY <2>1, NothingShared
  <1> QED
    BY <1>1, <1>2, <1>3, <1>4 DEF Next

\* getGcSession is a shared session to its jobs, for any number of jobs,
\* accounts, proxies and clients: a session is never put in the place of
\* another, all who wait at one time wait for one opening and get its one
\* outcome, and a job is served only when there is a session.
THEOREM SharesOneSession == Spec => Shared!Safe
  BY GcAssumption, Invariance, InitShares, StepShares, PTL DEF Spec, Shared!Safe

-----------------------------------------------------------------------------
(***************************************************************************)
(* Why no login overwrites "disabled": the run and the retest never hold   *)
(* the same account.                                                       *)
(***************************************************************************)
InRun(a) ==
    open.pc \in {"bind", "logon", "welcomed", "marked"} /\ open.account = a

\* What the run holds, in its list or in its hand, is in service; what the
\* retest holds is disabled.
Apart ==
    /\ \A a \in Accounts :
          /\ a \in open.pool \/ InRun(a) => account[a].status # "disabled"
          /\ InRun(a) => a \notin open.pool
    /\ probe.pc # "idle" =>
          probe.account \in Accounts /\ account[probe.account].status = "disabled"

\* An account that is put out of service is put back by a retest only.
OnlyRetest ==
    \A a \in Accounts :
        account[a].status = "disabled" /\ account'[a].status # "disabled"
            => probe.pc = "restore" /\ probe.account = a

\* The run goes on, or gives up, with what it holds.
LEMMA RunHoldsNoMore ==
    ASSUME Apart, UNCHANGED <<account, probe>>, open'.pool \subseteq open.pool,
           \A a \in Accounts : InRun(a)' => InRun(a)
    PROVE  Apart' /\ OnlyRetest
  <1>1. \A a \in Accounts :
            /\ a \in open'.pool \/ InRun(a)' => account'[a].status # "disabled"
            /\ InRun(a)' => a \notin open'.pool
    BY DEF Apart
  <1>2. probe'.pc # "idle" =>
            probe'.account \in Accounts /\ account'[probe'.account].status = "disabled"
    BY DEF Apart
  <1> QED
    BY <1>1, <1>2 DEF Apart, OnlyRetest

LEMMA RunEndsApart ==
    ASSUME Apart, UNCHANGED <<account, probe>>, NEW ok, Settles(ok)
    PROVE  Apart' /\ OnlyRetest
  <1>1. open'.pool = {} /\ open'.pc = "off"
    BY DEF Settles, Closed
  <1> QED
    BY <1>1, RunHoldsNoMore DEF InRun

LEMMA JoinsApart ==
    ASSUME Apart, UNCHANGED <<account, probe>>, NEW j, Joins(j)
    PROVE  Apart' /\ OnlyRetest
  <1>1. CASE open' = open
    BY <1>1, RunHoldsNoMore DEF InRun
  <1>2. CASE open' = [Closed EXCEPT !.pc = "list"]
    <2>1. open'.pool = {} /\ open'.pc = "list"
      BY <1>2 DEF Closed
    <2> QED
      BY <2>1, RunHoldsNoMore DEF InRun
  <1> QED
    BY <1>1, <1>2 DEF Joins

\* Writes of rows that leave the status of the disabled ones.
LEMMA RowsApart ==
    ASSUME Apart, UNCHANGED open,
           \A a \in Accounts : account'[a].status = account[a].status,
           probe'.pc # "idle" =>
               probe'.account \in Accounts /\ account[probe'.account].status = "disabled"
    PROVE  Apart' /\ OnlyRetest
  <1>1. \A a \in Accounts : InRun(a)' <=> InRun(a)
    BY DEF InRun
  <1>2. \A a \in Accounts :
            /\ a \in open'.pool \/ InRun(a)' => account'[a].status # "disabled"
            /\ InRun(a)' => a \notin open'.pool
    BY <1>1 DEF Apart
  <1> QED
    BY <1>2 DEF Apart, OnlyRetest

\* The row of the account in the run's hand is written, and the account kept
\* or let go.
LEMMA OwnRowApart ==
    ASSUME Inv, Apart, open.account \in Accounts, InRun(open.account), UNCHANGED probe,
           NEW row, account' = [account EXCEPT ![open.account] = row],
           open'.pool \subseteq open.pool,
           \A a \in Accounts : InRun(a)' => InRun(a) /\ row.status # "disabled"
    PROVE  Apart' /\ OnlyRetest
  <1> DEFINE me == open.account
  <1>1. account[me].status # "disabled" /\ me \notin open.pool
    BY DEF Apart
  <1>2. account'[me] = row /\ \A a \in Accounts : a # me => account'[a] = account[a]
    BY DEF Inv, RowsTyped
  <1>3. ASSUME NEW a \in Accounts, a \in open'.pool \/ InRun(a)'
        PROVE  account'[a].status # "disabled"
    <2>1. CASE a = me
      BY <1>1, <1>2, <1>3, <2>1
    <2>2. CASE a # me
      BY <1>2, <1>3, <2>2 DEF Apart
    <2> QED
      BY <2>1, <2>2
  <1>4. \A a \in Accounts : InRun(a)' => a \notin open'.pool
    BY DEF Apart
  <1>5. probe.pc # "idle" => probe.account \in Accounts \ {me}
    BY <1>1 DEF Apart
  <1>6. probe'.pc # "idle" =>
            probe'.account \in Accounts /\ account'[probe'.account].status = "disabled"
    BY <1>2, <1>5 DEF Apart
  <1> QED
    BY <1>1, <1>2, <1>3, <1>4, <1>6 DEF Apart, OnlyRetest

LEMMA StatusKept ==
    ASSUME HealthAssumption, NEW r \in Resource, NEW ok \in BOOLEAN
    PROVE  /\ recordResourceAttempt(r, ok).status = r.status
           /\ disableResource(r, ok).status = "disabled"
           /\ bumpResourceRetest(r).status = r.status
           /\ r.status = "disabled" => Failed(r).status = "disabled"
  <1>1. \A q \in Resource : recordResourceAttempt(q, ok).status = q.status
    BY DEF recordResourceAttempt, Resource
  <1>2. recordResourceAttempt(r, FALSE).status = r.status
    BY DEF recordResourceAttempt, Resource
  <1>3. \A q, b : disableResource(q, b).status = "disabled" \/ q \notin Resource
    BY DEF disableResource, Resource
  <1>4. bumpResourceRetest(r).status = r.status
    BY DEF bumpResourceRetest, Resource
  <1>5. recordResourceAttempt(r, FALSE) \in Resource
    BY ResourceWritten
  <1>6. r.status = "disabled" => Failed(r).status = "disabled"
    BY <1>2, <1>3, <1>5 DEF Failed
  <1> QED
    BY <1>1, <1>3, <1>4, <1>6

LEMMA CallerApart ==
    ASSUME Apart, NEW j \in Callers, AskSession(j) \/ CheckSession(j) \/ Request(j)
    PROVE  Apart' /\ OnlyRetest
  <1>1. UNCHANGED <<account, probe>> /\ (UNCHANGED open \/ Joins(j))
    BY DEF AskSession, CheckSession, Request, rows
  <1> QED
    BY <1>1, JoinsApart, RunHoldsNoMore DEF InRun

LEMMA ListPoolApart ==
    ASSUME Inv, Apart, ListPool
    PROVE  Apart' /\ OnlyRetest
  <1>1. UNCHANGED <<account, probe>> /\ open \in OpenType
    BY DEF ListPool, rows, Inv, RunsTyped
  <1> DEFINE pool == {a \in Accounts : InService(account[a])}
  <1>2. CASE open' = [open EXCEPT !.pc = "next", !.pool = pool]
    <2>1. open'.pc = "next" /\ open'.pool = pool
      BY <1>1, <1>2 DEF OpenType
    <2>2. \A a \in Accounts : a \in pool => account[a].status # "disabled"
      BY DEF InService
    <2>3. \A a \in Accounts : ~InRun(a)'
      BY <2>1 DEF InRun
    <2> HIDE DEF pool
    <2> QED
      BY <1>1, <2>1, <2>2, <2>3 DEF Apart, OnlyRetest
  <1>3. CASE Settles(FALSE)
    BY <1>1, <1>3, RunEndsApart
  <1> QED
    BY <1>2, <1>3 DEF ListPool

\* The account that is taken up leaves the list.
LEMMA NextAccountApart ==
    ASSUME Inv, Apart, NextAccount
    PROVE  Apart' /\ OnlyRetest
  <1>1. UNCHANGED <<account, probe>> /\ open \in OpenType
    BY DEF NextAccount, rows, Inv, RunsTyped
  <1>2. PICK b \in open.pool, pc \in {"next", "bind"} :
            open' = [open EXCEPT !.pool = @ \ {b}, !.pc = pc, !.account = b]
    BY DEF NextAccount
  <1>3. open'.pool = open.pool \ {b} /\ open'.account = b
    BY <1>1, <1>2 DEF OpenType
  <1>4. \A a \in Accounts :
            /\ a \in open'.pool \/ InRun(a)' => account'[a].status # "disabled"
            /\ InRun(a)' => a \notin open'.pool
    BY <1>1, <1>3 DEF Apart, InRun
  <1> QED
    BY <1>1, <1>4 DEF Apart, OnlyRetest

LEMMA RunStepApart ==
    ASSUME Inv, Apart,
           PoolExhausted \/ BindProxy \/ ConnectRefused \/ RefreshRefused \/ Welcome
    PROVE  Apart' /\ OnlyRetest
  <1>1. UNCHANGED <<account, probe>> /\ open \in OpenType
    BY DEF PoolExhausted, BindProxy, ConnectRefused, RefreshRefused, Welcome, rows,
       Inv, RunsTyped
  <1>2. CASE Settles(FALSE)
    BY <1>1, <1>2, RunEndsApart
  <1>3. CASE ~Settles(FALSE)
    <2>1. /\ open'.pool = open.pool /\ open'.account = open.account
          /\ open'.pc # open.pc => open.pc \in {"bind", "logon"}
      <3>1. CASE BindProxy
        BY <1>1, <1>3, <3>1 DEF BindProxy, OpenType
      <3>2. CASE ConnectRefused
        BY <1>1, <1>3, <3>2 DEF ConnectRefused, OpenType
      <3>3. CASE RefreshRefused \/ Welcome
        BY <1>1, <3>3 DEF RefreshRefused, Welcome, OpenType
      <3> QED
        BY <1>3, <3>1, <3>2, <3>3 DEF PoolExhausted
    <2> QED
      BY <1>1, <2>1, RunHoldsNoMore DEF InRun
  <1> QED
    BY <1>2, <1>3

LEMMA OwnRowStepApart ==
    ASSUME Inv, Apart, LogonError \/ MarkAccountLogin \/ StoreSession
    PROVE  Apart' /\ OnlyRetest
  <1>1. /\ open \in OpenType /\ account \in [Accounts -> Resource]
        /\ open.pc \in {"logon", "welcomed", "marked"}
        /\ open.account \in Accounts /\ InRun(open.account)
    BY DEF LogonError, MarkAccountLogin, StoreSession, Inv, RunsTyped, RowsTyped,
       RunHasAccount, InRun
  <1>2. account[open.account].status # "disabled"
    BY <1>1 DEF Apart
  <1>3. CASE LogonError
    <2>1. PICK row, i, w : LogonFails(row, i, w)
      BY <1>3 DEF LogonError
    <2>2. /\ account' = [account EXCEPT ![open.account] = row] /\ UNCHANGED probe
          /\ open'.pool = open.pool /\ open'.pc = "next"
      BY <1>1, <2>1 DEF LogonFails, OpenType
    <2>3. \A a \in Accounts : ~InRun(a)'
      BY <2>2 DEF InRun
    <2> QED
      BY <1>1, <2>2, <2>3, OwnRowApart
  <1>4. CASE MarkAccountLogin
    <2> DEFINE row == [account[open.account] EXCEPT !.status = "active"]
    <2>1. row.status = "active"
      BY <1>1 DEF Resource
    <2>2. /\ account' = [account EXCEPT ![open.account] = row] /\ UNCHANGED probe
          /\ open'.pool = open.pool /\ open'.account = open.account
      BY <1>1, <1>4 DEF MarkAccountLogin, OpenType
    <2>3. \A a \in Accounts : InRun(a)' => InRun(a)
      BY <1>1, <2>2 DEF InRun
    <2> HIDE DEF row
    <2> QED
      BY <1>1, <2>1, <2>2, <2>3, OwnRowApart
  <1>5. CASE StoreSession
    <2> DEFINE row == recordResourceAttempt(account[open.account], TRUE)
    <2>1. account' = [account EXCEPT ![open.account] = row] /\ UNCHANGED probe
      BY <1>5 DEF StoreSession
    <2>2. open'.pool = {} /\ open'.pc = "off"
      BY <1>5 DEF StoreSession, Settles, Closed
    <2>3. \A a \in Accounts : ~InRun(a)'
      BY <2>2 DEF InRun
    <2> HIDE DEF row
    <2> QED
      BY <1>1, <2>1, <2>2, <2>3, OwnRowApart
  <1> QED
    BY <1>3, <1>4, <1>5

\* The retest takes a disabled account, and leaves it disabled or restores it.
LEMMA ProbeApart ==
    ASSUME HealthAssumption, Inv, Apart, ProbeStep
    PROVE  Apart' /\ OnlyRetest
  <1>1. /\ account \in [Accounts -> Resource] /\ probe \in ProbeType /\ UNCHANGED open
        /\ NoProbe.pc = "idle"
    BY DEF Inv, RowsTyped, RunsTyped, NoProbe,
       ProbeStep, ProbeStart, ProbeBreaks, ProbeEnds, ProbeVerdict
  <1>2. ASSUME NEW a \in Accounts, ProbeStart(a)
        PROVE  Apart' /\ OnlyRetest
    <2>1. UNCHANGED account /\ account[a].status = "disabled"
      BY <1>2 DEF ProbeStart
    <2>2. ASSUME \E p \in ProxiesFor(a), c \in Fresh :
              probe' = [pc |-> "logon", account |-> a, client |-> c, tried |-> 0]
          PROVE  probe'.account = a
      <3>1. PICK c : probe' = [pc |-> "logon", account |-> a, client |-> c, tried |-> 0]
        BY <2>2
      <3> QED
        BY <3>1
    <2>3. probe'.account = a
      <3>1. CASE probe' = [NoProbe EXCEPT !.pc = "bump", !.account = a]
        BY <3>1 DEF NoProbe
      <3> QED
        BY <1>2, <2>2, <3>1 DEF ProbeStart
    <2> QED
      BY <1>1, <2>1, <2>3, RowsApart
  <1>3. CASE ProbeBreaks
    <2>1. UNCHANGED account /\ probe.pc = "logon" /\ probe'.account = probe.account
      BY <1>1, <1>3 DEF ProbeBreaks, ProbeType
    <2> QED
      BY <1>1, <2>1, RowsApart DEF Apart
  <1>4. CASE ProbeEnds
    <2> DEFINE b == probe.account
    <2>1. probe.pc = "logon" /\ probe'.account = b
      BY <1>1, <1>4 DEF ProbeEnds, ProbeType
    <2>2. b \in Accounts /\ account[b].status = "disabled" /\ account[b] \in Resource
      BY <1>1, <2>1 DEF Apart
    <2>3. PICK row \in {recordResourceAttempt(account[b], TRUE),
                        disableResource(account[b], TRUE), Failed(account[b])} :
              account' = [account EXCEPT ![b] = row]
      BY <1>4 DEF ProbeEnds
    <2>4. row.status = "disabled"
      BY <2>2, <2>3, StatusKept
    <2>5. \A a \in Accounts : account'[a].status = account[a].status
      BY <1>1, <2>2, <2>3, <2>4
    <2> QED
      BY <1>1, <2>1, <2>2, <2>5, RowsApart
  <1>5. CASE ProbeVerdict
    <2> DEFINE b == probe.account
               row == IF probe.pc = "restore" THEN restoreResource(account[b])
                                              ELSE bumpResourceRetest(account[b])
    <2>1. probe.pc \in {"restore", "bump"} /\ probe'.pc = "idle"
      BY <1>1, <1>5 DEF ProbeVerdict
    <2>2. b \in Accounts /\ account[b].status = "disabled" /\ account[b] \in Resource
      BY <1>1, <2>1 DEF Apart
    <2>3. account' = [account EXCEPT ![b] = row]
      BY <1>5 DEF ProbeVerdict
    <2> HIDE DEF row
    <2>4. \A a \in Accounts \ {b} : account'[a] = account[a]
      BY <1>1, <2>3
    <2>5. b \notin open.pool /\ ~InRun(b) /\ \A a \in Accounts : InRun(a)' <=> InRun(a)
      BY <1>1, <2>2 DEF Apart, InRun
    <2>6. Apart'
      BY <1>1, <2>1, <2>4, <2>5 DEF Apart
    <2>7. probe.pc = "bump" => account'[b].status = "disabled"
      <3>1. probe.pc = "bump" => row.status = "disabled"
        BY <2>2, StatusKept DEF row
      <3> QED
        BY <1>1, <2>2, <2>3, <3>1
    <2> QED
      BY <2>1, <2>4, <2>6, <2>7 DEF OnlyRetest
  <1> QED
    BY <1>2, <1>3, <1>4, <1>5 DEF ProbeStep

LEMMA OthersApart ==
    ASSUME Inv, Apart,
           \/ \E c \in Clients : Disconnected(c)
           \/ CloseSession
           \/ \E a \in Accounts : LimitPasses(a)
           \/ Fault
           \/ UNCHANGED vars
    PROVE  Apart' /\ OnlyRetest
  <1>1. UNCHANGED <<open, probe>>
    BY DEF Disconnected, CloseSession, LimitPasses, Fault, vars
  <1>2. CASE UNCHANGED account
    BY <1>1, <1>2, RunHoldsNoMore DEF InRun
  <1>3. ASSUME NEW b \in Accounts, LimitPasses(b)
        PROVE  Apart' /\ OnlyRetest
    <2>1. \A a \in Accounts : account'[a].status = account[a].status
      BY <1>3 DEF LimitPasses, Inv, RowsTyped, Resource
    <2> QED
      BY <1>1, <2>1, RowsApart DEF Apart
  <1> QED
    BY <1>2, <1>3 DEF Disconnected, CloseSession, Fault, vars, rows

LEMMA InitApart == ASSUME Init PROVE Apart
  BY DEF Init, Apart, InRun, Closed, NoProbe

LEMMA StepApart ==
    ASSUME HealthAssumption, Inv, Apart, [Next]_vars
    PROVE  Apart' /\ OnlyRetest
  <1>1. CASE \E j \in Callers : AskSession(j) \/ CallerStep(j)
    BY <1>1, CallerApart DEF CallerStep
  <1>2. CASE OpenStep
    BY <1>2, ListPoolApart, NextAccountApart, RunStepApart, OwnRowStepApart DEF OpenStep
  <1>3. CASE ProbeStep
    BY <1>3, ProbeApart
  <1> QED
    BY <1>1, <1>2, <1>3, OthersApart DEF Next

\* The accounts of the run are in service from listGcAccounts to the end of the
\* run, and the account of the retest is disabled from its start to its verdict,
\* whatever the other writes meanwhile.
THEOREM RunAndRetestApart == Spec => []Apart
  BY HealthAssumption, Invariance, InitApart, StepApart, PTL DEF Spec

\* In one worker no login puts a disabled account back into service, although
\* markAccountLogin and the resets look at no status: only the verdict of a
\* retest does, for the account whose own logon it was.
THEOREM DisabledUntilRetested == Spec => BackByRetestOnly
  <1>1. Inv /\ Apart /\ [Next]_vars
            => [\A a \in Accounts :
                  account[a].status = "disabled" /\ account'[a].status # "disabled"
                      => probe.pc = "restore" /\ probe.account = a]_vars
    BY HealthAssumption, StepApart DEF OnlyRetest
  <1> QED
    BY <1>1, Invariance, RunAndRetestApart, PTL DEF Spec, BackByRetestOnly

-----------------------------------------------------------------------------
(***************************************************************************)
(* Safety of ApiKeys, the other component on the rows of ResourceHealth,   *)
(* for every set of keys, proxies and callers, every window, threshold and *)
(* number of tries.  A name that both have stands for any value.           *)
(*                                                                         *)
(* That nothing is taken out of service without cause is decided in one    *)
(* statement and done in a later one: a row with a failure on record has a *)
(* cause (Counted), so a verdict in the hand of a run has one as well      *)
(* (HandOK), whatever others write before it is carried out.               *)
(***************************************************************************)
CONSTANTS Keys, Tries

VARIABLES key, bound, actor, listed, line, banned, outage, past

Api == INSTANCE ApiKeys

ApiPcs == {"idle", "bind", "activate", "send", "disableKey", "disableProxy",
           "rotate", "restore", "bump"}

ApiActorType == [pc : ApiPcs, key : Keys \cup {None}, proxy : Proxies \cup {None},
                 tried : 0..(Tries - 1)]

WithProxy == {"activate", "send", "disableKey", "disableProxy", "rotate"}

KeyCause(k, h) == k \in h \/ "hang" \in h \/ "outage" \in h

ProxyCause(p, h) == p \in h \/ "outage" \in h

\* A run has a key from its pick and a proxy from its bind; a verdict on either
\* has its cause.
HandOK(m, h) ==
    /\ m.pc # "idle" => m.key \in Keys
    /\ m.pc \in WithProxy => m.proxy \in Proxies
    /\ m.pc = "disableKey" => KeyCause(m.key, h)
    /\ m.pc = "disableProxy" => ProxyCause(m.proxy, h)

HandsOK == \A a \in Api!Actors : HandOK(actor[a], past)

\* No failure on record, and in service.
Sound(r) == Failures(r.attempts) = {} /\ r.status # "disabled"

\* A row that is not sound has its cause.
Counted ==
    /\ \A k \in Keys : Sound(key[k]) \/ KeyCause(k, past)
    /\ \A p \in Proxies : Sound(proxy[p]) \/ ProxyCause(p, past)

\* What is wrong now has gone wrong before.
Remembered ==
    /\ banned \subseteq past
    /\ outage => "outage" \in past
    /\ \A p \in Proxies :
           /\ line[p] = "hangs" => "hang" \in past
           /\ line[p] = "refuses" => p \in past

ApiInv == Api!TypeOK /\ HandsOK /\ Counted /\ Remembered

-----------------------------------------------------------------------------
(* What is on record against a row *)

\* A success on a clean record leaves it clean.
LEMMA SoundRecorded ==
    ASSUME HealthAssumption, NEW r \in Resource, Sound(r)
    PROVE  Sound(recordResourceAttempt(r, TRUE))
  <1>0. PICK ok \in BOOLEAN : ok = TRUE
    OBVIOUS
  <1> DEFINE s == r.attempts
             t == Append(s, ok)
  <1>1. s \in Seq(BOOLEAN)
    BY AttemptsAreSequences DEF Resource, Attempts
  <1>2. /\ t \in Seq(BOOLEAN) /\ Len(t) = Len(s) + 1 /\ Len(s) \in Nat
        /\ DOMAIN s = 1..Len(s) /\ DOMAIN t = 1..Len(t)
        /\ \A i \in 1..Len(s) : t[i] = s[i]
        /\ t[Len(s) + 1] = ok /\ t # << >>
    <2> HIDE DEF s
    <2>1. /\ t \in Seq(BOOLEAN) /\ t # << >> /\ Len(t) = Len(s) + 1
          /\ \A i \in 1..Len(s) : t[i] = s[i]
          /\ t[Len(s) + 1] = ok
      BY <1>1, AppendProperties
    <2> HIDE DEF t
    <2> QED
      BY <1>1, <2>1, LenProperties
  <1>3. \A i \in DOMAIN s : s[i]
    BY DEF Sound, Failures
  <1>4. recordResourceAttempt(r, TRUE).attempts = LastWindow(t)
        /\ recordResourceAttempt(r, TRUE).status = r.status
    BY <1>0 DEF recordResourceAttempt, Resource
  <1> HIDE DEF s, t
  <1>5. \A i \in 1..Len(t) : i \in 1..Len(s) \/ i = Len(s) + 1
    BY <1>2, SMT
  <1>6. \A i \in DOMAIN t : t[i]
    BY <1>0, <1>2, <1>3, <1>5, Zenon
  <1>7. \A i \in DOMAIN LastWindow(t) : LastWindow(t)[i]
    <2>1. /\ Tail(t) \in Seq(BOOLEAN) /\ Len(Tail(t)) = Len(t) - 1
          /\ \A i \in 1..Len(Tail(t)) : Tail(t)[i] = t[i + 1]
          /\ DOMAIN Tail(t) = 1..Len(Tail(t))
      BY <1>2, HeadTailProperties, LenProperties
    <2>2. \A i \in DOMAIN Tail(t) : i + 1 \in DOMAIN t
      BY <1>2, <2>1, SMT
    <2>3. \A i \in DOMAIN Tail(t) : Tail(t)[i]
      BY <1>6, <2>1, <2>2, Zenon
    <2> QED
      BY <1>6, <2>3, Zenon DEF LastWindow
  <1>8. Failures(LastWindow(t)) = {}
    BY <1>7, Zenon DEF Failures
  <1> QED
    BY <1>4, <1>8, Zenon DEF Sound

LEMMA CrossedIsUnsound ==
    ASSUME HealthAssumption, NEW r, Crossed(r)
    PROVE  ~Sound(r)
  <1>1. Cardinality(Failures(r.attempts)) >= Threshold
    BY DEF Crossed
  <1>2. Cardinality({}) = 0
    BY FS_EmptySet
  <1>3. Failures(r.attempts) # {}
    BY <1>1, <1>2 DEF HealthAssumption
  <1> QED
    BY <1>3 DEF Sound

-----------------------------------------------------------------------------
(* What a step of ApiKeys has to show *)

\* ApiKeys has the statements on a row from the same module.
LEMMA SameStatements ==
    /\ Api!Resource = Resource
    /\ Api!NewResource = NewResource
    /\ \A r : /\ Api!restoreResource(r) = restoreResource(r)
              /\ Api!bumpResourceRetest(r) = bumpResourceRetest(r)
              /\ Api!Crossed(r) <=> Crossed(r)
    /\ \A r, b : /\ Api!recordResourceAttempt(r, b) = recordResourceAttempt(r, b)
                 /\ Api!disableResource(r, b) = disableResource(r, b)
  <1>1. Api!Resource = Resource /\ Api!NewResource = NewResource
    BY DEF Api!Resource, Resource, Api!Statuses, Statuses, Api!NewResource, NewResource
  <1>2. \A r : /\ Api!restoreResource(r) = restoreResource(r)
               /\ Api!bumpResourceRetest(r) = bumpResourceRetest(r)
    BY DEF Api!restoreResource, restoreResource, Api!bumpResourceRetest, bumpResourceRetest
  <1>3. \A r : Api!Crossed(r) <=> Crossed(r)
    <2> SUFFICES ASSUME NEW r PROVE Api!Crossed(r) <=> Crossed(r)
      OBVIOUS
    <2>1. Api!Failures(r.attempts) = Failures(r.attempts)
      BY DEF Api!Failures, Failures
    <2>2. \A S : Api!Cardinality(S) = Cardinality(S)
      BY DEF Api!Cardinality, Cardinality
    <2> QED
      BY <2>1, <2>2, Zenon DEF Api!Crossed, Crossed
  <1>4. \A r, b : /\ Api!recordResourceAttempt(r, b) = recordResourceAttempt(r, b)
                  /\ Api!disableResource(r, b) = disableResource(r, b)
    BY DEF Api!recordResourceAttempt, recordResourceAttempt, Api!LastWindow, LastWindow,
           Api!disableResource, disableResource
  <1> QED
    BY <1>1, <1>2, <1>3, <1>4

Past == SUBSET (Keys \cup Proxies \cup {"hang", "outage"})

RestTyped ==
    /\ bound \in [Keys -> Proxies \cup {None}]
    /\ listed \in SUBSET Keys
    /\ line \in [Proxies -> {"up", "refuses", "hangs"}]
    /\ banned \in SUBSET Keys
    /\ outage \in BOOLEAN
    /\ faults \in 0..MaxFaults

LEMMA ApiTypes ==
    Api!TypeOK <=> /\ key \in [Keys -> Resource]
                   /\ proxy \in [Proxies -> Resource]
                   /\ actor \in [Api!Actors -> ApiActorType]
                   /\ past \in Past
                   /\ RestTyped
  BY SameStatements DEF Api!TypeOK, ApiActorType, ApiPcs, Past, RestTyped

\* The past grows; a row that is written is sound or has a cause, a run that moves
\* holds what it may hold.
PastGrows == past' \in Past /\ past \subseteq past'

KeyMoves ==
    /\ key' \in [Keys -> Resource]
    /\ \A k \in Keys : key'[k] = key[k] \/ Sound(key'[k]) \/ KeyCause(k, past')

ProxyMoves ==
    /\ proxy' \in [Proxies -> Resource]
    /\ \A p \in Proxies : proxy'[p] = proxy[p] \/ Sound(proxy'[p]) \/ ProxyCause(p, past')

HandMoves ==
    /\ actor' \in [Api!Actors -> ApiActorType]
    /\ \A a \in Api!Actors : actor'[a] = actor[a] \/ HandOK(actor'[a], past')

LEMMA CauseStays ==
    ASSUME PastGrows
    PROVE  /\ \A k : KeyCause(k, past) => KeyCause(k, past')
           /\ \A p : ProxyCause(p, past) => ProxyCause(p, past')
  BY DEF PastGrows, KeyCause, ProxyCause

LEMMA ApiMoves ==
    ASSUME HealthAssumption, ApiInv, PastGrows, KeyMoves, ProxyMoves, HandMoves,
           RestTyped', Remembered'
    PROVE  ApiInv'
  <1>1. Api!TypeOK'
    BY SameStatements DEF PastGrows, KeyMoves, ProxyMoves, HandMoves, RestTyped, Past,
       Api!TypeOK, ApiActorType, ApiPcs, Api!Actors, Api!Retester
  <1>2. Counted'
    BY CauseStays DEF ApiInv, Counted, KeyMoves, ProxyMoves
  <1>3. ASSUME NEW a \in Api!Actors PROVE HandOK(actor'[a], past')
    <2>1. HandOK(actor[a], past)
      BY DEF ApiInv, HandsOK
    <2> QED
      BY <2>1, CauseStays DEF HandMoves, HandOK
  <1>4. HandsOK'
    BY <1>3 DEF HandsOK, Api!Actors, Api!Retester
  <1> QED
    BY <1>1, <1>2, <1>4 DEF ApiInv

\* What a step leaves alone.
LEMMA PastStays ==
    ASSUME ApiInv, UNCHANGED <<line, banned, outage, past>> PROVE PastGrows /\ Remembered'
  BY ApiTypes DEF ApiInv, PastGrows, Remembered

LEMMA RowsStay ==
    ASSUME ApiInv
    PROVE  /\ UNCHANGED key => KeyMoves
           /\ UNCHANGED proxy => ProxyMoves
           /\ UNCHANGED actor => HandMoves
  BY ApiTypes DEF ApiInv, KeyMoves, ProxyMoves, HandMoves

LEMMA WorldStays ==
    ASSUME ApiInv, UNCHANGED <<bound, listed, line, banned, outage, faults>>
    PROVE  RestTyped'
  BY ApiTypes DEF ApiInv, RestTyped

-----------------------------------------------------------------------------
(* Rows and hands that steps of ApiKeys write *)

\* A row with the same record that is not newly disabled is as sound as it was.
LEMMA SameRecord ==
    ASSUME NEW r \in Resource, NEW q \in Resource, q.attempts = r.attempts,
           q.status = "disabled" => r.status = "disabled", Sound(r)
    PROVE  Sound(q)
  BY DEF Sound

LEMMA OthersWritten ==
    ASSUME HealthAssumption, NEW r \in Resource, NEW b \in BOOLEAN
    PROVE  /\ disableResource(r, b) \in Resource
           /\ disableResource(r, b).attempts = r.attempts
           /\ restoreResource(r) \in Resource
           /\ restoreResource(r).attempts = r.attempts
           /\ restoreResource(r).status = "ready"
           /\ bumpResourceRetest(r) \in Resource
           /\ bumpResourceRetest(r).attempts = r.attempts
           /\ bumpResourceRetest(r).status = r.status
  BY ResourceWritten DEF disableResource, restoreResource, bumpResourceRetest, Resource

\* One key and one proxy are written.
LEMMA KeyWritten ==
    ASSUME ApiInv, NEW k \in Keys, NEW q \in Resource, Sound(q) \/ KeyCause(k, past'),
           key' = [key EXCEPT ![k] = q]
    PROVE  KeyMoves
  BY ApiTypes DEF ApiInv, KeyMoves

LEMMA ProxyWritten ==
    ASSUME ApiInv, NEW p \in Proxies, NEW q \in Resource, Sound(q) \/ ProxyCause(p, past'),
           proxy' = [proxy EXCEPT ![p] = q]
    PROVE  ProxyMoves
  BY ApiTypes DEF ApiInv, ProxyMoves

LEMMA HandWritten ==
    ASSUME ApiInv, NEW a \in Api!Actors, NEW m \in ApiActorType, HandOK(m, past'),
           actor' = [actor EXCEPT ![a] = m]
    PROVE  HandMoves
  BY ApiTypes DEF ApiInv, HandMoves

LEMMA RowsNow ==
    ASSUME ApiInv
    PROVE  /\ \A k \in Keys : key[k] \in Resource /\ (Sound(key[k]) \/ KeyCause(k, past))
           /\ \A p \in Proxies : /\ proxy[p] \in Resource
                                 /\ Sound(proxy[p]) \/ ProxyCause(p, past)
           /\ \A a \in Api!Actors : actor[a] \in ApiActorType /\ HandOK(actor[a], past)
           /\ past \in Past
  BY ApiTypes DEF ApiInv, Counted, HandsOK

LEMMA GotoMoves ==
    ASSUME ApiInv, NEW a \in Api!Actors, NEW pc \in ApiPcs, Api!Goto(a, pc),
           actor[a].key \in Keys,
           pc \in WithProxy => actor[a].proxy \in Proxies,
           pc = "disableKey" => KeyCause(actor[a].key, past'),
           pc = "disableProxy" => ProxyCause(actor[a].proxy, past')
    PROVE  HandMoves
  <1> DEFINE m == [actor[a] EXCEPT !.pc = pc]
  <1>1. actor[a] \in ApiActorType
    BY RowsNow
  <1>2. m \in ApiActorType /\ m.pc = pc /\ m.key = actor[a].key /\ m.proxy = actor[a].proxy
    BY <1>1 DEF ApiActorType
  <1>3. actor' = [actor EXCEPT ![a] = m]
    BY DEF Api!Goto
  <1> HIDE DEF m
  <1>4. HandOK(m, past')
    BY <1>2 DEF HandOK
  <1> QED
    BY <1>2, <1>3, <1>4, HandWritten

LEMMA EndsMoves ==
    ASSUME Api!ApiKeysAssumption, ApiInv, NEW a \in Api!Actors, NEW ok \in BOOLEAN,
           Api!Ends(a, ok), actor[a].key \in Keys
    PROVE  HandMoves
  <1> DEFINE pc == IF ok THEN "restore" ELSE "bump"
             m == [actor[a] EXCEPT !.pc = pc]
  <1>1. actor[a] \in ApiActorType
    BY RowsNow
  <1>2. pc \in {"restore", "bump"}
    OBVIOUS
  <1>3. m \in ApiActorType /\ m.pc = pc /\ m.key = actor[a].key
    BY <1>1, <1>2 DEF ApiActorType, ApiPcs
  <1>4. Api!IdleActor \in ApiActorType /\ Api!IdleActor.pc = "idle"
    BY DEF Api!IdleActor, ApiActorType, ApiPcs, Api!ApiKeysAssumption
  <1>5. actor' = [actor EXCEPT ![a] = IF a # Api!Retester THEN Api!IdleActor ELSE m]
    BY DEF Api!Ends
  <1> HIDE DEF m, pc
  <1>6. HandOK(m, past') /\ HandOK(Api!IdleActor, past')
    BY <1>2, <1>3, <1>4 DEF HandOK, WithProxy
  <1> QED
    BY <1>3, <1>4, <1>5, <1>6, HandWritten

LEMMA NextTryMoves ==
    ASSUME Api!ApiKeysAssumption, ApiInv, NEW a \in Api!Actors, Api!NextTry(a),
           actor[a].key \in Keys, actor[a].proxy \in Proxies
    PROVE  HandMoves
  <1>1. CASE actor[a].tried + 1 < Tries
    <2> DEFINE m == [actor[a] EXCEPT !.pc = "send", !.tried = actor[a].tried + 1]
    <2>1. actor[a] \in ApiActorType
      BY RowsNow
    <2>2. actor[a].tried + 1 \in 0..(Tries - 1)
      BY <1>1, <2>1 DEF ApiActorType, Api!ApiKeysAssumption
    <2>3. /\ m \in ApiActorType /\ m.pc = "send"
          /\ m.key = actor[a].key /\ m.proxy = actor[a].proxy
      BY <2>1, <2>2 DEF ApiActorType, ApiPcs
    <2>4. actor' = [actor EXCEPT ![a] = m]
      BY <1>1 DEF Api!NextTry
    <2> HIDE DEF m
    <2>5. HandOK(m, past')
      BY <2>3 DEF HandOK
    <2> QED
      BY <2>3, <2>4, <2>5, HandWritten
  <1>2. CASE ~(actor[a].tried + 1 < Tries)
    <2>1. Api!Ends(a, FALSE)
      BY <1>2 DEF Api!NextTry
    <2> QED
      BY <2>1, EndsMoves
  <1> QED
    BY <1>1, <1>2

-----------------------------------------------------------------------------
(* The steps of ApiKeys *)

LEMMA ApiInitially == ASSUME HealthAssumption, Api!ApiKeysAssumption, Api!Init PROVE ApiInv
  <1>1. NewResource \in Resource
    BY NewIsResource
  <1>2. Api!IdleActor \in ApiActorType /\ Api!IdleActor.pc = "idle"
    BY DEF Api!IdleActor, ApiActorType, ApiPcs, Api!ApiKeysAssumption
  <1>3. 0 \in 0..MaxFaults
    BY DEF Api!ApiKeysAssumption
  <1>4. Api!TypeOK
    BY <1>1, <1>2, <1>3, SameStatements, ApiTypes DEF Api!Init, RestTyped, Past
  <1>5. HandsOK
    BY <1>2 DEF HandsOK, HandOK, WithProxy, Api!Init
  <1>6. Sound(NewResource)
    <2>1. << >> \in Seq(BOOLEAN) /\ Len(<< >>) = 0
      BY EmptySeq
    <2>2. DOMAIN << >> = {}
      BY <2>1, LenProperties
    <2> QED
      BY <2>2 DEF NewResource, Failures, Sound
  <1>7. Counted
    BY <1>6, SameStatements DEF Counted, Api!Init
  <1>8. Remembered
    BY DEF Remembered, Api!Init
  <1> QED
    BY <1>4, <1>5, <1>7, <1>8 DEF ApiInv

LEMMA PickKeeps ==
    ASSUME HealthAssumption, Api!ApiKeysAssumption, ApiInv, NEW a \in Api!Actors, Api!Pick(a)
    PROVE  ApiInv'
  <1>1. PICK k \in Keys : actor' = [actor EXCEPT ![a].pc = "bind", ![a].key = k]
    BY DEF Api!Pick, Api!Pickable
  <1> DEFINE m == [actor[a] EXCEPT !.pc = "bind", !.key = k]
  <1>2. actor[a] \in ApiActorType
    BY RowsNow
  <1>3. m \in ApiActorType /\ m.pc = "bind" /\ m.key = k
    BY <1>2 DEF ApiActorType, ApiPcs
  <1>4. actor' = [actor EXCEPT ![a] = m]
    BY <1>1
  <1> HIDE DEF m
  <1>5. HandMoves
    BY <1>3, <1>4, HandWritten DEF HandOK, WithProxy
  <1>6. UNCHANGED <<key, bound, proxy, listed, line, banned, outage, past, faults>>
    BY DEF Api!Pick, Api!world
  <1> QED
    BY <1>5, <1>6, PastStays, RowsStay, WorldStays, ApiMoves

\* The update of markProxyActive keeps the record.
LEMMA ProxyActive ==
    ASSUME HealthAssumption, ApiInv, UNCHANGED past, NEW p \in Proxies,
           proxy' = Api!markProxyActive(p)
    PROVE  ProxyMoves
  <1> DEFINE q == [proxy[p] EXCEPT !.status = "active"]
  <1>1. proxy[p] \in Resource /\ (Sound(proxy[p]) \/ ProxyCause(p, past))
    BY RowsNow
  <1>2. q \in Resource /\ q.attempts = proxy[p].attempts /\ q.status = "active"
    BY <1>1 DEF Resource, Statuses
  <1>3. proxy' = [proxy EXCEPT ![p] = q] \/ proxy' = proxy
    BY DEF Api!markProxyActive
  <1> HIDE DEF q
  <1>4. Sound(q) \/ ProxyCause(p, past')
    BY <1>1, <1>2, SameRecord
  <1> QED
    BY <1>2, <1>3, <1>4, ProxyWritten, RowsStay

LEMMA EnsureProxyKeeps ==
    ASSUME HealthAssumption, Api!ApiKeysAssumption, ApiInv, NEW a \in Api!Actors,
           Api!EnsureProxy(a)
    PROVE  ApiInv'
  <1>1. actor[a] \in ApiActorType /\ actor[a].key \in Keys
    BY RowsNow DEF Api!EnsureProxy, Api!At, HandOK
  <1>2. UNCHANGED <<key, listed, line, banned, outage, past, faults>>
    BY DEF Api!EnsureProxy, Api!world
  <1>3. RestTyped
    BY ApiTypes DEF ApiInv
  <1>4. ASSUME NEW p \in Proxies,
               actor' = [actor EXCEPT ![a].pc = "activate", ![a].proxy = p]
        PROVE  HandMoves
    <2> DEFINE m == [actor[a] EXCEPT !.pc = "activate", !.proxy = p]
    <2>1. m \in ApiActorType /\ m.pc = "activate" /\ m.key = actor[a].key /\ m.proxy = p
      BY <1>1 DEF ApiActorType, ApiPcs
    <2>2. actor' = [actor EXCEPT ![a] = m]
      BY <1>4
    <2> HIDE DEF m
    <2> QED
      BY <1>1, <2>1, <2>2, HandWritten DEF HandOK
  <1>5. HandMoves /\ ProxyMoves /\ bound' \in [Keys -> Proxies \cup {None}]
    <2>1. CASE /\ bound[actor[a].key] \in Api!Usable
               /\ actor' = [actor EXCEPT ![a].pc = "activate",
                                         ![a].proxy = bound[actor[a].key]]
               /\ UNCHANGED <<bound, proxy>>
      <3>1. bound[actor[a].key] \in Proxies
        BY <2>1 DEF Api!Usable
      <3> QED
        BY <1>3, <1>4, <2>1, <3>1, RowsStay DEF RestTyped
    <2>2. CASE \E p \in Api!Usable :
                 /\ bound' = [bound EXCEPT ![actor[a].key] = p]
                 /\ proxy' = Api!markProxyActive(p)
                 /\ actor' = [actor EXCEPT ![a].pc = "activate", ![a].proxy = p]
      <3>1. PICK p \in Proxies :
                 /\ bound' = [bound EXCEPT ![actor[a].key] = p]
                 /\ proxy' = Api!markProxyActive(p)
                 /\ actor' = [actor EXCEPT ![a].pc = "activate", ![a].proxy = p]
        BY <2>2 DEF Api!Usable
      <3>2. bound' \in [Keys -> Proxies \cup {None}]
        BY <1>3, <3>1 DEF RestTyped
      <3> QED
        BY <1>2, <1>4, <3>1, <3>2, ProxyActive
    <2>3. CASE Api!Ends(a, FALSE) /\ UNCHANGED <<bound, proxy>>
      BY <1>1, <1>3, <2>3, EndsMoves, RowsStay DEF RestTyped
    <2> QED
      BY <2>1, <2>2, <2>3 DEF Api!EnsureProxy
  <1>6. RestTyped'
    BY <1>2, <1>3, <1>5 DEF RestTyped
  <1> QED
    BY <1>2, <1>5, <1>6, PastStays, RowsStay, ApiMoves

LEMMA ActivateKeeps ==
    ASSUME HealthAssumption, Api!ApiKeysAssumption, ApiInv, NEW a \in Api!Actors,
           Api!Activate(a)
    PROVE  ApiInv'
  <1> DEFINE k == actor[a].key
             q == [key[k] EXCEPT !.status = "active", !.limited = FALSE]
  <1>1. k \in Keys /\ actor[a].proxy \in Proxies
    BY RowsNow DEF Api!Activate, Api!At, HandOK, WithProxy
  <1>2. UNCHANGED <<bound, proxy, listed, line, banned, outage, past, faults>>
    BY DEF Api!Activate, Api!world
  <1>3. key[k] \in Resource /\ (Sound(key[k]) \/ KeyCause(k, past))
    BY <1>1, RowsNow
  <1>4. q \in Resource /\ q.attempts = key[k].attempts /\ q.status = "active"
    BY <1>3 DEF Resource, Statuses
  <1>5. key' = [key EXCEPT ![k] = q]
    BY DEF Api!Activate
  <1>6. HandMoves
    BY <1>1, GotoMoves DEF Api!Activate, ApiPcs
  <1> HIDE DEF k, q
  <1>7. Sound(q) \/ KeyCause(k, past')
    BY <1>2, <1>3, <1>4, SameRecord
  <1>8. KeyMoves
    BY <1>1, <1>4, <1>5, <1>7, KeyWritten
  <1> QED
    BY <1>2, <1>6, <1>8, PastStays, RowsStay, WorldStays, ApiMoves

\* A run that sends has a key and a proxy, with their rows.
LEMMA SenderHas ==
    ASSUME ApiInv, NEW a \in Api!Actors,
           actor[a].pc \in {"send", "disableKey", "disableProxy", "rotate"}
    PROVE  LET k == actor[a].key
               p == actor[a].proxy
           IN  /\ actor[a] \in ApiActorType
               /\ k \in Keys /\ key[k] \in Resource
               /\ Sound(key[k]) \/ KeyCause(k, past)
               /\ p \in Proxies /\ proxy[p] \in Resource
               /\ Sound(proxy[p]) \/ ProxyCause(p, past)
               /\ actor[a].pc = "disableKey" => KeyCause(k, past)
               /\ actor[a].pc = "disableProxy" => ProxyCause(p, past)
  BY RowsNow DEF HandOK, WithProxy

LEMMA AnswerOkKeeps ==
    ASSUME HealthAssumption, Api!ApiKeysAssumption, ApiInv, NEW a \in Api!Actors,
           Api!AnswerOk(a)
    PROVE  ApiInv'
  <1> DEFINE k == actor[a].key
             p == actor[a].proxy
             r == recordResourceAttempt(key[k], TRUE)
             q == Api!clearApiKeyRateLimit(r)
             s == recordResourceAttempt(proxy[p], TRUE)
  <1>1. /\ k \in Keys /\ key[k] \in Resource
        /\ Sound(key[k]) \/ KeyCause(k, past)
        /\ p \in Proxies /\ proxy[p] \in Resource
        /\ Sound(proxy[p]) \/ ProxyCause(p, past)
    BY SenderHas DEF Api!AnswerOk, Api!At
  <1>2. /\ proxy' = [proxy EXCEPT ![p] = s]
        /\ key' = [key EXCEPT ![k] = q]
        /\ Api!Ends(a, TRUE)
        /\ UNCHANGED <<bound, listed, line, banned, outage, past, faults>>
    BY SameStatements DEF Api!AnswerOk, Api!world
  <1>3. HandMoves
    BY <1>1, <1>2, EndsMoves
  <1>4. r \in Resource /\ s \in Resource
    BY <1>1, ResourceWritten
  <1>5. /\ Sound(r) \/ KeyCause(k, past)
        /\ Sound(s) \/ ProxyCause(p, past)
    BY <1>1, SoundRecorded
  <1> HIDE DEF k, p, r, s
  <1>6. /\ q \in Resource /\ q.attempts = r.attempts
        /\ q.status = "disabled" => r.status = "disabled"
    BY <1>4 DEF Api!clearApiKeyRateLimit, Resource, Statuses
  <1> HIDE DEF q
  <1>7. Sound(q) \/ KeyCause(k, past)
    BY <1>4, <1>5, <1>6, SameRecord
  <1>8. KeyMoves /\ ProxyMoves
    BY <1>1, <1>2, <1>4, <1>5, <1>6, <1>7, KeyWritten, ProxyWritten
  <1> QED
    BY <1>2, <1>3, <1>8, PastStays, WorldStays, ApiMoves

LEMMA AnswerForbiddenKeeps ==
    ASSUME HealthAssumption, Api!ApiKeysAssumption, ApiInv, NEW a \in Api!Actors,
           Api!AnswerForbidden(a)
    PROVE  ApiInv'
  <1> DEFINE k == actor[a].key
             q == disableResource(key[k], TRUE)
  <1>1. k \in Keys /\ key[k] \in Resource
    BY SenderHas DEF Api!AnswerForbidden, Api!At
  <1>2. /\ k \in banned
        /\ key' = [key EXCEPT ![k] = q]
        /\ Api!Ends(a, FALSE)
        /\ UNCHANGED <<bound, proxy, listed, line, banned, outage, past, faults>>
    BY SameStatements DEF Api!AnswerForbidden, Api!world
  <1>3. HandMoves
    BY <1>1, <1>2, EndsMoves
  <1>4. KeyCause(k, past')
    BY <1>2 DEF ApiInv, Remembered, KeyCause
  <1>5. q \in Resource
    BY <1>1, OthersWritten
  <1> HIDE DEF k, q
  <1>6. KeyMoves /\ ProxyMoves
    BY <1>1, <1>2, <1>4, <1>5, KeyWritten, RowsStay
  <1> QED
    BY <1>2, <1>3, <1>6, PastStays, WorldStays, ApiMoves

LEMMA AnswerTooManyKeeps ==
    ASSUME HealthAssumption, Api!ApiKeysAssumption, ApiInv, NEW a \in Api!Actors,
           Api!AnswerTooMany(a)
    PROVE  ApiInv'
  <1> DEFINE k == actor[a].key
             p == actor[a].proxy
             q == Api!markApiKeyRateLimited(key[k])
             s == recordResourceAttempt(proxy[p], TRUE)
  <1>1. /\ k \in Keys /\ key[k] \in Resource
        /\ Sound(key[k]) \/ KeyCause(k, past)
        /\ p \in Proxies /\ proxy[p] \in Resource
        /\ Sound(proxy[p]) \/ ProxyCause(p, past)
    BY SenderHas DEF Api!AnswerTooMany, Api!At
  <1>2. /\ proxy' = [proxy EXCEPT ![p] = s]
        /\ key' = key \/ key' = [key EXCEPT ![k] = q]
        /\ Api!NextTry(a)
        /\ UNCHANGED <<bound, listed, line, banned, outage, past, faults>>
    BY SameStatements DEF Api!AnswerTooMany, Api!world
  <1>3. HandMoves
    BY <1>1, <1>2, NextTryMoves
  <1>4. s \in Resource
    BY <1>1, ResourceWritten
  <1>5. Sound(s) \/ ProxyCause(p, past)
    BY <1>1, SoundRecorded
  <1> HIDE DEF k, p, s
  <1>6. /\ q \in Resource /\ q.attempts = key[k].attempts
        /\ q.status = "disabled" => key[k].status = "disabled"
    BY <1>1 DEF Api!markApiKeyRateLimited, Resource, Statuses
  <1> HIDE DEF q
  <1>7. Sound(q) \/ KeyCause(k, past)
    BY <1>1, <1>6, SameRecord
  <1>8. KeyMoves /\ ProxyMoves
    BY <1>1, <1>2, <1>4, <1>5, <1>6, <1>7, KeyWritten, ProxyWritten, RowsStay
  <1> QED
    BY <1>2, <1>3, <1>8, PastStays, WorldStays, ApiMoves

\* A failure is charged to the key when Steam is out or the proxy hangs.
LEMMA AnswerFailsKeeps ==
    ASSUME HealthAssumption, Api!ApiKeysAssumption, ApiInv, NEW a \in Api!Actors,
           Api!AnswerFails(a)
    PROVE  ApiInv'
  <1> DEFINE k == actor[a].key
             q == recordResourceAttempt(key[k], FALSE)
  <1>1. k \in Keys /\ key[k] \in Resource /\ actor[a].proxy \in Proxies
    BY SenderHas DEF Api!AnswerFails, Api!At
  <1>2. /\ outage \/ line[actor[a].proxy] = "hangs"
        /\ key' = [key EXCEPT ![k] = q]
        /\ IF Crossed(key'[k]) THEN Api!Goto(a, "disableKey") ELSE Api!NextTry(a)
        /\ UNCHANGED <<bound, proxy, listed, line, banned, outage, past, faults>>
    BY SameStatements DEF Api!AnswerFails, Api!ChargedToKey, Api!world
  <1>3. KeyCause(k, past')
    <2>1. outage => "outage" \in past
      BY DEF ApiInv, Remembered
    <2>2. line[actor[a].proxy] = "hangs" => "hang" \in past
      BY <1>1 DEF ApiInv, Remembered
    <2>3. outage \/ line[actor[a].proxy] = "hangs"
      BY <1>2
    <2>4. "outage" \in past \/ "hang" \in past
      BY <2>1, <2>2, <2>3, Zenon
    <2>5. past' = past
      BY <1>2
    <2> QED
      BY <2>4, <2>5 DEF KeyCause
  <1>4. q \in Resource
    BY <1>1, ResourceWritten
  <1>5. HandMoves
    <2>1. CASE Crossed(key'[k])
      BY <1>1, <1>2, <1>3, <2>1, GotoMoves DEF ApiPcs
    <2>2. CASE ~Crossed(key'[k])
      BY <1>1, <1>2, <2>2, NextTryMoves
    <2> QED
      BY <2>1, <2>2
  <1> HIDE DEF k, q
  <1>6. KeyMoves /\ ProxyMoves
    BY <1>1, <1>2, <1>3, <1>4, KeyWritten, RowsStay
  <1> QED
    BY <1>2, <1>5, <1>6, PastStays, WorldStays, ApiMoves

LEMMA DisableKeyKeeps ==
    ASSUME HealthAssumption, Api!ApiKeysAssumption, ApiInv, NEW a \in Api!Actors,
           Api!DisableKey(a)
    PROVE  ApiInv'
  <1> DEFINE k == actor[a].key
             q == disableResource(key[k], FALSE)
  <1>1. /\ k \in Keys /\ key[k] \in Resource /\ KeyCause(k, past)
        /\ actor[a].proxy \in Proxies
    BY SenderHas DEF Api!DisableKey, Api!At
  <1>2. /\ key' = [key EXCEPT ![k] = q]
        /\ Api!NextTry(a)
        /\ UNCHANGED <<bound, proxy, listed, line, banned, outage, past, faults>>
    BY SameStatements DEF Api!DisableKey, Api!world
  <1>3. HandMoves
    BY <1>1, <1>2, NextTryMoves
  <1>4. q \in Resource
    BY <1>1, OthersWritten
  <1> HIDE DEF k, q
  <1>5. KeyMoves /\ ProxyMoves
    BY <1>1, <1>2, <1>4, KeyWritten, RowsStay
  <1> QED
    BY <1>2, <1>3, <1>5, PastStays, WorldStays, ApiMoves

LEMMA ProxyRefusesKeeps ==
    ASSUME HealthAssumption, Api!ApiKeysAssumption, ApiInv, NEW a \in Api!Actors,
           Api!ProxyRefuses(a)
    PROVE  ApiInv'
  <1> DEFINE p == actor[a].proxy
             q == recordResourceAttempt(proxy[p], FALSE)
  <1>1. p \in Proxies /\ proxy[p] \in Resource /\ actor[a].key \in Keys
    BY SenderHas DEF Api!ProxyRefuses, Api!At
  <1>2. /\ outage \/ line[p] = "refuses"
        /\ proxy' = [proxy EXCEPT ![p] = q]
        /\ Api!Goto(a, IF Crossed(proxy'[p]) THEN "disableProxy" ELSE "rotate")
        /\ UNCHANGED <<key, bound, listed, line, banned, outage, past, faults>>
    BY SameStatements DEF Api!ProxyRefuses, Api!ChargedToProxy, Api!world
  <1>3. ProxyCause(p, past')
    BY <1>1, <1>2 DEF ApiInv, Remembered, ProxyCause
  <1>4. q \in Resource
    BY <1>1, ResourceWritten
  <1>5. HandMoves
    <2>1. CASE Crossed(proxy'[p])
      BY <1>1, <1>2, <1>3, <2>1, GotoMoves DEF ApiPcs
    <2>2. CASE ~Crossed(proxy'[p])
      BY <1>1, <1>2, <2>2, GotoMoves DEF ApiPcs
    <2> QED
      BY <2>1, <2>2
  <1> HIDE DEF p, q
  <1>6. KeyMoves /\ ProxyMoves
    BY <1>1, <1>2, <1>3, <1>4, ProxyWritten, RowsStay
  <1> QED
    BY <1>2, <1>5, <1>6, PastStays, WorldStays, ApiMoves

LEMMA DisableProxyKeeps ==
    ASSUME HealthAssumption, Api!ApiKeysAssumption, ApiInv, NEW a \in Api!Actors,
           Api!DisableProxy(a)
    PROVE  ApiInv'
  <1> DEFINE p == actor[a].proxy
             q == disableResource(proxy[p], FALSE)
  <1>1. /\ p \in Proxies /\ proxy[p] \in Resource /\ ProxyCause(p, past)
        /\ actor[a].key \in Keys
    BY SenderHas DEF Api!DisableProxy, Api!At
  <1>2. /\ proxy' = [proxy EXCEPT ![p] = q]
        /\ Api!Goto(a, "rotate")
        /\ UNCHANGED <<key, bound, listed, line, banned, outage, past, faults>>
    BY SameStatements DEF Api!DisableProxy, Api!world
  <1>3. HandMoves
    BY <1>1, <1>2, GotoMoves DEF ApiPcs
  <1>4. q \in Resource
    BY <1>1, OthersWritten
  <1> HIDE DEF p, q
  <1>5. KeyMoves /\ ProxyMoves
    BY <1>1, <1>2, <1>4, ProxyWritten, RowsStay
  <1> QED
    BY <1>2, <1>3, <1>5, PastStays, WorldStays, ApiMoves

LEMMA RotateKeeps ==
    ASSUME HealthAssumption, Api!ApiKeysAssumption, ApiInv, NEW a \in Api!Actors,
           Api!Rotate(a)
    PROVE  ApiInv'
  <1>1. actor[a] \in ApiActorType /\ actor[a].key \in Keys
    BY SenderHas DEF Api!Rotate, Api!At
  <1>2. UNCHANGED <<key, listed, line, banned, outage, past, faults>>
    BY DEF Api!Rotate, Api!world
  <1>3. RestTyped
    BY ApiTypes DEF ApiInv
  <1>4. HandMoves /\ ProxyMoves /\ bound' \in [Keys -> Proxies \cup {None}]
    <2>1. CASE \E p \in Api!RotationTargets(actor[a].proxy) :
                 /\ bound' = [bound EXCEPT ![actor[a].key] = p]
                 /\ proxy' = Api!markProxyActive(p)
                 /\ IF actor[a].tried + 1 = Tries THEN Api!Ends(a, FALSE)
                    ELSE actor' = [actor EXCEPT ![a].pc = "send",
                             ![a].proxy = p, ![a].tried = @ + 1]
      <3>1. PICK p \in Proxies :
                 /\ bound' = [bound EXCEPT ![actor[a].key] = p]
                 /\ proxy' = Api!markProxyActive(p)
                 /\ IF actor[a].tried + 1 = Tries THEN Api!Ends(a, FALSE)
                    ELSE actor' = [actor EXCEPT ![a].pc = "send",
                             ![a].proxy = p, ![a].tried = @ + 1]
        <4>1. Api!RotationTargets(actor[a].proxy) \subseteq
                 Proxies \cup {actor[a].proxy}
          BY DEF Api!RotationTargets, Api!Usable
        <4>2. actor[a].proxy \in Proxies
          BY SenderHas DEF Api!Rotate, Api!At
        <4> QED
          BY <2>1, <4>1, <4>2
      <3>2. bound' \in [Keys -> Proxies \cup {None}]
        BY <1>3, <3>1 DEF RestTyped
      <3>3. CASE actor[a].tried + 1 = Tries
        BY <1>1, <1>2, <3>1, <3>2, <3>3, EndsMoves, ProxyActive
      <3>4. CASE actor[a].tried + 1 # Tries
        <4> DEFINE m == [actor[a] EXCEPT !.pc = "send", !.proxy = p,
                                         !.tried = actor[a].tried + 1]
        <4>1. actor[a].tried + 1 \in 0..(Tries - 1)
          BY <1>1, <3>4 DEF ApiActorType, Api!ApiKeysAssumption
        <4>2. m \in ApiActorType /\ m.pc = "send" /\ m.key = actor[a].key /\ m.proxy = p
          BY <1>1, <4>1 DEF ApiActorType, ApiPcs
        <4>3. actor' = [actor EXCEPT ![a] = m]
          BY <3>1, <3>4
        <4> HIDE DEF m
        <4>4. HandMoves
          BY <1>1, <4>2, <4>3, HandWritten DEF HandOK
        <4> QED
          BY <1>2, <3>1, <3>2, <4>4, ProxyActive
      <3> QED
        BY <3>3, <3>4
    <2>2. CASE Api!Ends(a, FALSE) /\ UNCHANGED <<bound, proxy>>
      BY <1>1, <1>3, <2>2, EndsMoves, RowsStay DEF RestTyped
    <2> QED
      BY <2>1, <2>2 DEF Api!Rotate
  <1>5. RestTyped'
    BY <1>2, <1>3, <1>4 DEF RestTyped
  <1> QED
    BY <1>2, <1>4, <1>5, PastStays, RowsStay, ApiMoves

LEMMA RetestProxyKeeps ==
    ASSUME HealthAssumption, ApiInv, NEW p \in Proxies, Api!RetestProxy(p)
    PROVE  ApiInv'
  <1> DEFINE q == IF line[p] = "up" /\ ~outage THEN restoreResource(proxy[p])
                  ELSE bumpResourceRetest(proxy[p])
  <1>1. proxy[p] \in Resource /\ (Sound(proxy[p]) \/ ProxyCause(p, past))
    BY RowsNow
  <1>2. /\ q \in Resource /\ q.attempts = proxy[p].attempts
        /\ q.status = "disabled" => proxy[p].status = "disabled"
    BY <1>1, OthersWritten
  <1>3. /\ proxy' = [proxy EXCEPT ![p] = q]
        /\ UNCHANGED <<key, bound, actor, listed, line, banned, outage, past, faults>>
    BY SameStatements DEF Api!RetestProxy, Api!world
  <1> HIDE DEF q
  <1>4. Sound(q) \/ ProxyCause(p, past')
    BY <1>1, <1>2, <1>3, SameRecord
  <1>5. ProxyMoves
    BY <1>2, <1>3, <1>4, ProxyWritten
  <1> QED
    BY <1>3, <1>5, PastStays, RowsStay, WorldStays, ApiMoves

LEMMA ListKeysKeeps ==
    ASSUME HealthAssumption, ApiInv, Api!ListKeys
    PROVE  ApiInv'
  <1>1. listed' \in SUBSET Keys
    BY DEF Api!ListKeys
  <1>2. UNCHANGED <<key, bound, proxy, actor, line, banned, outage, past, faults>>
    BY DEF Api!ListKeys, Api!world
  <1>3. RestTyped'
    BY <1>1, <1>2, ApiTypes DEF ApiInv, RestTyped
  <1> QED
    BY <1>2, <1>3, PastStays, RowsStay, ApiMoves

LEMMA RetestKeyKeeps ==
    ASSUME HealthAssumption, Api!ApiKeysAssumption, ApiInv, NEW k \in Keys, Api!RetestKey(k)
    PROVE  ApiInv'
  <1>1. PICK p \in Proxies \cup {None} :
           actor' = [actor EXCEPT ![Api!Retester] =
              [pc |-> IF p = None THEN "bump" ELSE "send", key |-> k,
               proxy |-> p, tried |-> 0]]
    BY DEF Api!RetestKey, Api!Usable
  <1> DEFINE m == [pc |-> IF p = None THEN "bump" ELSE "send", key |-> k,
                   proxy |-> p, tried |-> 0]
  <1>2. /\ m \in ApiActorType /\ m.key = k /\ m.proxy = p
        /\ m.pc = "bump" \/ (m.pc = "send" /\ p \in Proxies)
    BY DEF ApiActorType, ApiPcs, Api!ApiKeysAssumption
  <1>3. /\ listed' = listed \ {k}
        /\ UNCHANGED <<key, bound, proxy, line, banned, outage, past, faults>>
    BY DEF Api!RetestKey, Api!world
  <1>4. actor' = [actor EXCEPT ![Api!Retester] = m]
    BY <1>1
  <1> HIDE DEF m
  <1>5. HandMoves
    <2>1. HandOK(m, past')
      BY <1>2 DEF HandOK, WithProxy
    <2>2. Api!Retester \in Api!Actors
      BY DEF Api!Actors
    <2> QED
      BY <1>2, <1>4, <2>1, <2>2, HandWritten
  <1>6. RestTyped'
    BY <1>3, ApiTypes DEF ApiInv, RestTyped
  <1> QED
    BY <1>3, <1>5, <1>6, PastStays, RowsStay, ApiMoves

LEMMA ProbeJudgedKeeps ==
    ASSUME HealthAssumption, Api!ApiKeysAssumption, ApiInv, Api!RestoreKey \/ Api!BumpKey
    PROVE  ApiInv'
  <1> DEFINE k == actor[Api!Retester].key
  <1>1. PICK q \in {restoreResource(key[k]), bumpResourceRetest(key[k])} :
           /\ actor[Api!Retester].pc \in {"restore", "bump"}
           /\ key' = [key EXCEPT ![k] = q]
           /\ actor' = [actor EXCEPT ![Api!Retester] = Api!IdleActor]
           /\ UNCHANGED <<bound, proxy, listed, line, banned, outage, past, faults>>
    BY SameStatements DEF Api!RestoreKey, Api!BumpKey, Api!At, Api!world
  <1>2. Api!Retester \in Api!Actors
    BY DEF Api!Actors
  <1>3. /\ k \in Keys /\ key[k] \in Resource
        /\ Sound(key[k]) \/ KeyCause(k, past)
    BY <1>1, <1>2, RowsNow DEF HandOK
  <1>4. /\ q \in Resource /\ q.attempts = key[k].attempts
        /\ q.status = "disabled" => key[k].status = "disabled"
    BY <1>3, OthersWritten
  <1>5. Api!IdleActor \in ApiActorType /\ Api!IdleActor.pc = "idle"
    BY DEF Api!IdleActor, ApiActorType, ApiPcs, Api!ApiKeysAssumption
  <1>6. HandMoves
    BY <1>1, <1>2, <1>5, HandWritten DEF HandOK, WithProxy
  <1> HIDE DEF k
  <1>7. Sound(q) \/ KeyCause(k, past')
    BY <1>1, <1>3, <1>4, SameRecord
  <1>8. KeyMoves
    BY <1>1, <1>3, <1>4, <1>7, KeyWritten
  <1> QED
    BY <1>1, <1>6, <1>8, PastStays, RowsStay, WorldStays, ApiMoves

LEMMA ApiWorldKeeps ==
    ASSUME HealthAssumption, Api!ApiKeysAssumption, ApiInv,
           (\E k \in Keys : Api!LimitPasses(k)) \/ Api!Fault \/ Api!Recovery
    PROVE  ApiInv'
  <1>1. CASE \E k \in Keys : Api!LimitPasses(k)
    <2>1. PICK k \in Keys : Api!LimitPasses(k)
      BY <1>1
    <2> DEFINE q == [key[k] EXCEPT !.limited = FALSE]
    <2>2. key[k] \in Resource /\ (Sound(key[k]) \/ KeyCause(k, past))
      BY RowsNow
    <2>3. q \in Resource /\ q.attempts = key[k].attempts /\ q.status = key[k].status
      BY <2>2 DEF Resource
    <2>4. /\ key' = [key EXCEPT ![k] = q]
          /\ UNCHANGED <<bound, proxy, actor, listed, line, banned, outage, past, faults>>
      BY <2>1 DEF Api!LimitPasses, Api!world
    <2> HIDE DEF q
    <2>5. Sound(q) \/ KeyCause(k, past')
      BY <2>2, <2>3, <2>4, SameRecord
    <2>6. KeyMoves
      BY <2>3, <2>4, <2>5, KeyWritten
    <2> QED
      BY <2>4, <2>6, PastStays, RowsStay, WorldStays, ApiMoves
  <1>2. CASE Api!Fault \/ Api!Recovery
    <2>1. UNCHANGED <<key, bound, proxy, actor, listed>>
      BY <1>2 DEF Api!Fault, Api!Recovery
    <2>2. RestTyped
      BY ApiTypes DEF ApiInv
    <2>3. faults' \in 0..MaxFaults
      BY <1>2, <2>2 DEF Api!Fault, Api!Recovery, RestTyped, Api!ApiKeysAssumption
    <2>4. /\ line' \in [Proxies -> {"up", "refuses", "hangs"}]
          /\ banned' \in SUBSET Keys /\ outage' \in BOOLEAN
      <3>1. CASE Api!Fault
        BY <2>2, <3>1 DEF Api!Fault, RestTyped
      <3>2. CASE Api!Recovery
        BY <2>2, <3>2 DEF Api!Recovery, RestTyped
      <3> QED
        BY <1>2, <3>1, <3>2
    <2>5. RestTyped'
      BY <2>1, <2>2, <2>3, <2>4 DEF RestTyped
    <2>6. PastGrows /\ Remembered'
      <3>1. past \in Past /\ Remembered
        BY RowsNow DEF ApiInv
      <3>2. CASE \E p \in Proxies, s \in {"refuses", "hangs"} :
                   /\ line' = [line EXCEPT ![p] = s]
                   /\ past' = past \cup {IF s = "refuses" THEN p ELSE "hang"}
                   /\ UNCHANGED <<banned, outage>>
        BY <2>2, <3>1, <3>2 DEF PastGrows, Past, Remembered, RestTyped
      <3>3. CASE \E k \in Keys :
                   /\ banned' = banned \cup {k} /\ past' = past \cup {k}
                   /\ UNCHANGED <<line, outage>>
        BY <3>1, <3>3 DEF PastGrows, Past, Remembered
      <3>4. CASE past' = past \cup {"outage"} /\ UNCHANGED <<line, banned>>
        BY <3>1, <3>4 DEF PastGrows, Past, Remembered
      <3>5. CASE Api!Recovery
        BY <2>2, <3>1, <3>5 DEF Api!Recovery, PastGrows, Remembered, RestTyped
      <3> QED
        BY <1>2, <3>2, <3>3, <3>4, <3>5 DEF Api!Fault
    <2> QED
      BY <2>1, <2>5, <2>6, RowsStay, ApiMoves
  <1> QED
    BY <1>1, <1>2

LEMMA ApiStep ==
    ASSUME HealthAssumption, Api!ApiKeysAssumption, ApiInv, [Api!Next]_(Api!vars)
    PROVE  ApiInv'
  <1>1. CASE \E a \in Api!Actors : Api!Pick(a)
    BY <1>1, PickKeeps
  <1>2. CASE \E a \in Api!Actors : Api!CallStep(a)
    <2>1. PICK a \in Api!Actors : Api!CallStep(a)
      BY <1>2
    <2> QED
      BY <2>1, EnsureProxyKeeps, ActivateKeeps, AnswerOkKeeps, AnswerForbiddenKeeps,
         AnswerTooManyKeeps, AnswerFailsKeeps, DisableKeyKeeps, ProxyRefusesKeeps,
         DisableProxyKeeps, RotateKeeps DEF Api!CallStep
  <1>3. CASE Api!Retest
    BY <1>3, RetestProxyKeeps, ListKeysKeeps, RetestKeyKeeps, ProbeJudgedKeeps
       DEF Api!Retest
  <1>4. CASE (\E k \in Keys : Api!LimitPasses(k)) \/ Api!Fault \/ Api!Recovery
    BY <1>4, ApiWorldKeeps
  <1>5. CASE UNCHANGED Api!vars
    BY <1>5, PastStays, RowsStay, WorldStays, ApiMoves DEF Api!vars
  <1> QED
    BY <1>1, <1>2, <1>3, <1>4, <1>5 DEF Api!Next

\* The inductive invariant of the Web API calls holds in every reachable state.
THEOREM ApiInvariance ==
    ASSUME Api!ApiKeysAssumption PROVE Api!Spec => []ApiInv
  BY HealthAssumption, ApiInitially, ApiStep, PTL DEF Api!Spec

\* Types: every variable of the Web API calls, for every value of the constants.
THEOREM ApiTypeCorrect ==
    ASSUME Api!ApiKeysAssumption PROVE Api!Spec => []Api!TypeOK
  BY ApiInvariance, PTL DEF ApiInv

\* No proxy is out of service unless it has refused connections or Steam was out,
\* no key unless Steam refused it or was out or a proxy has hung, whatever calls
\* and probes write between the statement that judges and the one that disables.
THEOREM NothingIsDisabledForNothing ==
    ASSUME Api!ApiKeysAssumption PROVE Api!Spec => []Api!DisabledForCause
  <1>1. ApiInv => Api!DisabledForCause
    BY DEF ApiInv, Counted, Sound, KeyCause, ProxyCause, Api!DisabledForCause
  <1> QED
    BY <1>1, ApiInvariance, PTL
=============================================================================
