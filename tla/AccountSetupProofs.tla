------------------------- MODULE AccountSetupProofs -------------------------
(***************************************************************************)
(* Theorems about AccountSetup, for any set of runs and any bounds.  The   *)
(* four invariants of the run do not follow from one another: what a run   *)
(* that has yet to write holds has to be known as well (RunsOK), and that, *)
(* while no fault has lost a secret, whoever has yet to write a secret     *)
(* holds the one that is on the account (SaversAgree).  Two enrolments at  *)
(* once meet there: a second authenticator is handed out only while none   *)
(* is on, and then nobody may still hold an accepted secret.               *)
(***************************************************************************)
EXTENDS AccountSetup, FiniteSetTheorems, WellFoundedInduction, TLAPS

-----------------------------------------------------------------------------
(* The invariant *)

\* What a run is about to write is what Steam accepted, and a run that logs in
\* does so for a key or for a confirmation.
RunsOK ==
    \A r \in Runs :
        /\ Step(r, "saving") => run[r].secret \in final
        /\ Step(r, "savingKey") => requests[run[r].request] = "issued"
        /\ Step(r, "mobile") => run[r].goal # "setup"

\* Unless a fault lost one, a secret that has yet to be written is the one on
\* the account.
SaversAgree ==
    ~lost => \A r \in Runs :
        Step(r, "saving") => guard = "on" /\ run[r].secret = secret

Inv ==
    /\ TypeOK /\ RunsOK /\ SaversAgree
    /\ StoredSecretIsFinal /\ NotLockedOut /\ SavedKeyIsIssued

-----------------------------------------------------------------------------
(* Lemmas about the operators *)

\* A set of numbers up to n that is not empty has a greatest one.
LEMMA GreatestExists ==
    ASSUME NEW n \in Nat, NEW S, S \subseteq 1..n, S # {}
    PROVE  \E q \in S : \A p \in S : p <= q
<1> DEFINE T == {k \in Nat : n - k \in S}
<1>1. T \subseteq Nat /\ T # {}
  <2>1. PICK x : x \in S
    OBVIOUS
  <2>2. n - x \in Nat /\ n - (n - x) = x
    BY <2>1, SMT
  <2> QED
    BY <2>1, <2>2
<1>2. PICK k \in T : \A j \in T : ~ (<<j, k>> \in OpToRel(<, Nat))
  BY <1>1, NatLessThanWellFounded, WFMin
<1>3. \A j \in T : ~ (j < k)
  BY <1>2 DEF OpToRel
<1>4. n - k \in S /\ \A p \in S : p <= n - k
  <2> SUFFICES ASSUME NEW p \in S PROVE p <= n - k
    BY <1>2
  <2>1. n - p \in T
    <3>1. n - p \in Nat /\ n - (n - p) = p
      BY SMT
    <3> QED
      BY <3>1
  <2>2. ~ (n - p < k)
    BY <1>3, <2>1
  <2>3. k \in Nat /\ p \in Nat
    OBVIOUS
  <2> HIDE DEF T
  <2> QED
    BY <2>2, <2>3, SMT
<1> QED
  BY <1>4

\* The confirmations that cmdConfirm accepts are of requests that are pending.
LEMMA AcceptedArePending == confirmationsToAccept \subseteq Pending
<1>1. CASE Cardinality(Pending) <= 1
  BY <1>1 DEF confirmationsToAccept
<1>2. CASE ~ (Cardinality(Pending) <= 1)
  <2>1. Pending \subseteq 1..MaxRequests /\ MaxRequests \in Nat
    BY AccountSetupAssumption DEF Pending, Request
  <2>2. CASE Pending = {}
    BY <1>2, <2>2, FS_EmptySet
  <2>3. CASE Pending # {}
    <3>1. \E q \in Pending : \A p \in Pending : p <= q
      BY <2>1, <2>3, GreatestExists
    <3>2. MaxOf(Pending) \in Pending
      BY <3>1 DEF MaxOf
    <3> QED
      BY <1>2, <3>2 DEF confirmationsToAccept
  <2> QED
    BY <2>2, <2>3
<1> QED
  BY <1>1, <1>2

\* What a run in a given step carries.
LEMMA RunShapes ==
    ASSUME NEW x \in Run
    PROVE  /\ x = Idle \/ x.goal \in Goals
           /\ x.pc \in {"finalizing", "saving"} => x.secret \in Secret
           /\ x.pc \in {"waiting", "accepting", "polling", "savingKey"} =>
                  x.request \in Request
           /\ x.pc = "accepting" => x.confirmation \in Request
<1>1. CASE x = Idle
  BY <1>1 DEF Idle
<1>2. CASE x \in [pc : {"enroll", "adding", "persisting", "mobile"}, goal : Goals]
  BY <1>2
<1>3. CASE x \in [pc : {"finalizing", "saving"}, goal : Goals, secret : Secret]
  BY <1>3
<1>4. CASE x \in [pc : {"requesting"}, goal : {"issue"}]
           \/ x \in [pc : {"confirming"}, goal : {"confirm"}]
  BY <1>4 DEF Goals
<1>5. CASE x \in [pc : {"waiting", "polling", "savingKey"}, goal : {"issue"},
                 request : Request]
  BY <1>5 DEF Goals
<1>6. CASE x \in [pc : {"accepting"}, goal : {"issue"}, request : Request,
                 confirmation : Request]
  BY <1>6 DEF Goals
<1> QED
  BY <1>1, <1>2, <1>3, <1>4, <1>5, <1>6 DEF Run

\* A run takes a state of its own, and the others keep theirs.
LEMMA Gone ==
    ASSUME TypeOK, NEW r \in Runs, NEW s \in Run, Goto(r, s)
    PROVE  /\ run' \in [Runs -> Run]
           /\ run'[r] = s
           /\ \A t \in Runs : t # r => run'[t] = run[t]
BY DEF TypeOK, Goto

-----------------------------------------------------------------------------
(* Steps that write neither a secret nor a key *)

\* What such a step leaves alone or sets within its type.
Quiet ==
    /\ UNCHANGED <<steam, stored, apiKey, lost>>
    /\ broken' \in BOOLEAN
    /\ token' \in {"none", "mobile", "client"}
    /\ faults' \in 0..MaxFaults

\* The runs keep their states, but for r; requests that were issued stay so.
LEMMA QuietKeeps ==
    ASSUME Inv, NEW r \in Runs, NEW s \in Run, Goto(r, s), Quiet,
           ~Step(r, "saving"), s.pc # "saving",
           s.pc = "mobile" => s.goal # "setup",
           requests' \in [Request -> {"none", "hidden", "pending", "accepted", "issued"}],
           \A q \in Request : requests[q] = "issued" => requests'[q] = "issued",
           s.pc = "savingKey" => requests'[s.request] = "issued"
    PROVE  Inv'
<1> USE DEF Inv
<1>1. /\ run' \in [Runs -> Run]
      /\ run'[r] = s
      /\ \A t \in Runs : t # r => run'[t] = run[t]
  BY Gone
<1>2. \A t \in Runs : run[t] \in Run
  BY DEF TypeOK
<1>3. TypeOK'
  BY <1>1 DEF TypeOK, Quiet, steam
<1>4. RunsOK'
  <2> SUFFICES ASSUME NEW t \in Runs
               PROVE /\ Step(t, "saving")' => run'[t].secret \in final'
                     /\ Step(t, "savingKey")' =>
                            requests'[run'[t].request] = "issued"
                     /\ Step(t, "mobile")' => run'[t].goal # "setup"
    BY DEF RunsOK
  <2>1. CASE t = r
    BY <1>1, <2>1 DEF Step
  <2>2. CASE t # r
    <3>1. run'[t] = run[t] /\ final' = final
      BY <1>1, <2>2 DEF Quiet, steam
    <3>2. Step(t, "savingKey") => run[t].request \in Request
      BY <1>2, RunShapes DEF Step
    <3> QED
      BY <3>1, <3>2 DEF RunsOK, Step
  <2> QED
    BY <2>1, <2>2
<1>5. \A t \in Runs : Step(t, "saving")' => Step(t, "saving") /\ run'[t] = run[t]
  BY <1>1 DEF Step
<1>6. SaversAgree'
  BY <1>5 DEF SaversAgree, Quiet, steam
<1>7. \A t \in Runs : Step(t, "saving") => Step(t, "saving")' /\ run'[t] = run[t]
  BY <1>1 DEF Step
<1>8. NotLockedOut'
  BY <1>7 DEF NotLockedOut, Quiet, steam
<1>9. StoredSecretIsFinal' /\ SavedKeyIsIssued'
  BY DEF StoredSecretIsFinal, SavedKeyIsIssued, Quiet, steam, TypeOK, None
<1> QED
  BY <1>3, <1>4, <1>6, <1>8, <1>9
\* The states that the actions write as records.
LEMMA NewRuns ==
    /\ Idle \in Run
    /\ \A g \in Goals, c \in {"enroll", "adding", "persisting", "mobile"} :
           [pc |-> c, goal |-> g] \in Run
    /\ \A g \in Goals, s \in Secret :
           [pc |-> "finalizing", goal |-> g, secret |-> s] \in Run
    /\ [pc |-> "requesting", goal |-> "issue"] \in Run
    /\ [pc |-> "confirming", goal |-> "confirm"] \in Run
    /\ \A q \in Request, c \in {"waiting", "polling", "savingKey"} :
           [pc |-> c, goal |-> "issue", request |-> q] \in Run
    /\ \A q, p \in Request :
           [pc |-> "accepting", goal |-> "issue", request |-> q,
            confirmation |-> p] \in Run
BY DEF Run

\* Leaving the requests as they are is one way of keeping what was issued.
LEMMA SameRequests ==
    ASSUME TypeOK, UNCHANGED requests
    PROVE  /\ requests' \in [Request -> {"none", "hidden", "pending", "accepted", "issued"}]
           /\ \A q \in Request : requests[q] = "issued" => requests'[q] = "issued"
BY DEF TypeOK

LEMMA StartsKeep ==
    ASSUME Inv, NEW r \in Runs, StartIssue(r) \/ StartSetup(r) \/ StartConfirm(r)
    PROVE  Inv'
<1>1. TypeOK /\ UNCHANGED requests /\ Quiet /\ ~Step(r, "saving")
  BY DEF Inv, TypeOK, StartIssue, StartSetup, StartConfirm, Quiet, account, steam,
         Step, Idle
<1>2. \E c \in {"enroll", "mobile"}, g \in Goals :
          Goto(r, [pc |-> c, goal |-> g]) /\ (c = "mobile" => g # "setup")
  BY DEF StartIssue, StartSetup, StartConfirm, Goals
<1>3. PICK c \in {"enroll", "mobile"}, g \in Goals :
          Goto(r, [pc |-> c, goal |-> g]) /\ (c = "mobile" => g # "setup")
  BY <1>2
<1> DEFINE s == [pc |-> c, goal |-> g]
<1>4. s \in Run /\ s.pc = c /\ s.goal = g /\ Goto(r, s)
  BY <1>3, NewRuns
<1> HIDE DEF s
<1>5. s.pc # "saving" /\ s.pc # "savingKey" /\ (s.pc = "mobile" => s.goal # "setup")
  BY <1>3, <1>4
<1> QED
  BY <1>1, <1>4, <1>5, QuietKeeps, SameRequests

LEMMA FailsKeeps ==
    ASSUME Inv, NEW r \in Runs, Fails(r)
    PROVE  Inv'
<1>1. TypeOK /\ UNCHANGED requests /\ Quiet /\ ~Step(r, "saving") /\ Goto(r, Idle)
  BY DEF Inv, TypeOK, Fails, Ends, Quiet, account, steam, Step
<1>2. Idle \in Run /\ Idle.pc = "idle"
  BY NewRuns DEF Idle
<1> QED
  BY <1>1, <1>2, QuietKeeps, SameRequests

LEMMA LoginsKeep ==
    ASSUME Inv, NEW r \in Runs, LogsInByMail(r) \/ LogsInByHand(r)
    PROVE  Inv'
<1> DEFINE s == [run[r] EXCEPT !.pc = "adding"]
<1>1. TypeOK /\ UNCHANGED requests /\ Quiet /\ ~Step(r, "saving") /\ Goto(r, s)
  BY DEF Inv, TypeOK, LogsInByMail, LogsInByHand, Quiet, account, steam, Step
<1>2. run[r] \in Run /\ run[r].pc = "enroll"
  BY <1>1 DEF TypeOK, LogsInByMail, LogsInByHand, Step
<1>3. run[r] \in [pc : {"enroll", "adding", "persisting", "mobile"}, goal : Goals]
  BY <1>2 DEF Run, Idle
<1>4. s \in Run /\ s.pc = "adding"
  <2>1. s \in [pc : {"enroll", "adding", "persisting", "mobile"}, goal : Goals]
    BY <1>3
  <2> QED
    BY <1>3, <2>1 DEF Run
<1> HIDE DEF s
<1> QED
  BY <1>1, <1>4, QuietKeeps, SameRequests

LEMMA PersistsKeeps ==
    ASSUME Inv, NEW r \in Runs, PersistsSession(r)
    PROVE  Inv'
<1>1. TypeOK /\ UNCHANGED requests /\ Quiet /\ ~Step(r, "saving")
  BY DEF Inv, TypeOK, PersistsSession, Quiet, account, steam, Step
<1>2. CASE run[r].goal = "setup"
  <2>1. Goto(r, Idle)
    BY <1>2 DEF PersistsSession
  <2>2. Idle \in Run /\ Idle.pc = "idle"
    BY NewRuns DEF Idle
  <2> QED
    BY <1>1, <2>1, <2>2, QuietKeeps, SameRequests
<1>3. CASE run[r].goal # "setup"
  <2> DEFINE s == [pc |-> "mobile", goal |-> run[r].goal]
  <2>1. Goto(r, s)
    BY <1>3 DEF PersistsSession
  <2>2. run[r] \in Run /\ run[r] # Idle
    BY <1>1 DEF TypeOK, PersistsSession, Step, Idle
  <2>3. run[r].goal \in Goals
    BY <2>2, RunShapes
  <2>4. s \in Run /\ s.pc = "mobile" /\ s.goal # "setup"
    BY <1>3, <2>3, NewRuns
  <2> HIDE DEF s
  <2> QED
    BY <1>1, <2>1, <2>4, QuietKeeps, SameRequests
<1> QED
  BY <1>2, <1>3

LEMMA LogsInMobileKeeps ==
    ASSUME Inv, NEW r \in Runs, LogsInMobile(r)
    PROVE  Inv'
<1> DEFINE s == NextAfterLogin(r)
<1>1. /\ TypeOK /\ UNCHANGED requests /\ Quiet /\ ~Step(r, "saving") /\ Goto(r, s)
      /\ Step(r, "mobile")
  BY DEF Inv, TypeOK, LogsInMobile, Quiet, account, steam, Step
<1>2. run[r] \in Run /\ run[r] # Idle /\ run[r].goal # "setup"
  BY <1>1 DEF Inv, TypeOK, RunsOK, Step, Idle
<1>3. run[r].goal \in {"issue", "confirm"}
  BY <1>2, RunShapes DEF Goals
<1>4. s \in Run /\ s.pc \in {"confirming", "requesting"}
  BY <1>3, NewRuns DEF NextAfterLogin
<1> HIDE DEF s
<1> QED
  BY <1>1, <1>4, QuietKeeps, SameRequests
-----------------------------------------------------------------------------
(* Requests and confirmations *)

LEMMA RequestsKeyKeeps ==
    ASSUME Inv, NEW r \in Runs, RequestsKey(r)
    PROVE  Inv'
<1>1. TypeOK /\ Quiet /\ ~Step(r, "saving")
  BY DEF Inv, TypeOK, RequestsKey, Quiet, account, steam, Step
<1>2. PICK q \in Request, c \in {"issued", "hidden"} :
          /\ requests[q] = "none"
          /\ requests' = [requests EXCEPT ![q] = c]
          /\ Goto(r, [pc |-> IF c = "issued" THEN "savingKey" ELSE "waiting",
                      goal |-> "issue", request |-> q])
  BY DEF RequestsKey
<1> DEFINE d == IF c = "issued" THEN "savingKey" ELSE "waiting"
           s == [pc |-> d, goal |-> "issue", request |-> q]
<1>3. d \in {"waiting", "savingKey"} /\ (d = "savingKey" => c = "issued")
  OBVIOUS
<1>4. s \in Run /\ s.pc = d /\ s.request = q /\ Goto(r, s)
  <2> HIDE DEF d
  <2>1. s \in Run
    BY <1>3, NewRuns
  <2> QED
    BY <1>2, <2>1 DEF d
<1>5. /\ requests' \in [Request -> {"none", "hidden", "pending", "accepted", "issued"}]
      /\ \A p \in Request : requests[p] = "issued" => requests'[p] = "issued"
      /\ requests'[q] = c
  BY <1>1, <1>2 DEF TypeOK
<1>6. s.pc # "saving" /\ s.pc # "mobile"
      /\ (s.pc = "savingKey" => requests'[s.request] = "issued")
  <2> HIDE DEF s, d
  <2> QED
    BY <1>3, <1>4, <1>5
<1> HIDE DEF s, d
<1> QED
  BY <1>1, <1>4, <1>5, <1>6, QuietKeeps

LEMMA FindsConfirmationKeeps ==
    ASSUME Inv, NEW r \in Runs, FindsConfirmation(r)
    PROVE  Inv'
<1>1. TypeOK /\ UNCHANGED requests /\ Quiet /\ ~Step(r, "saving")
  BY DEF Inv, TypeOK, FindsConfirmation, Quiet, account, steam, Step
<1>2. PICK c \in confirmationForRequestId(run[r].request) :
          Goto(r, [pc |-> "accepting", goal |-> "issue",
                   request |-> run[r].request, confirmation |-> c])
  BY DEF FindsConfirmation
<1>3. c \in Request
  BY DEF confirmationForRequestId, Pending
<1>4. run[r].request \in Request
  BY <1>1, RunShapes DEF TypeOK, FindsConfirmation, Step
<1> DEFINE s == [pc |-> "accepting", goal |-> "issue",
                 request |-> run[r].request, confirmation |-> c]
<1>5. s \in Run /\ s.pc = "accepting" /\ Goto(r, s)
  BY <1>2, <1>3, <1>4, NewRuns
<1> HIDE DEF s
<1> QED
  BY <1>1, <1>5, QuietKeeps, SameRequests

LEMMA AcceptsKeeps ==
    ASSUME Inv, NEW r \in Runs, Accepts(r)
    PROVE  Inv'
<1>1. TypeOK /\ Quiet /\ ~Step(r, "saving")
  BY DEF Inv, TypeOK, Accepts, Quiet, account, steam, Step
<1>2. run[r].request \in Request
  BY <1>1, RunShapes DEF TypeOK, Accepts, Step
<1> DEFINE s == [pc |-> "polling", goal |-> "issue", request |-> run[r].request]
<1>3. s \in Run /\ s.pc = "polling" /\ Goto(r, s)
  BY <1>2, NewRuns DEF Accepts
<1>4. /\ requests' \in [Request -> {"none", "hidden", "pending", "accepted", "issued"}]
      /\ \A q \in Request : requests[q] = "issued" => requests'[q] = "issued"
  BY <1>1 DEF TypeOK, Accepts, Pending
<1> HIDE DEF s
<1> QED
  BY <1>1, <1>3, <1>4, QuietKeeps

LEMMA PollsKeeps ==
    ASSUME Inv, NEW r \in Runs, Polls(r)
    PROVE  Inv'
<1>1. TypeOK /\ Quiet /\ ~Step(r, "saving")
  BY DEF Inv, TypeOK, Polls, Quiet, account, steam, Step
<1>2. run[r].request \in Request
  BY <1>1, RunShapes DEF TypeOK, Polls, Step
<1> DEFINE s == [pc |-> "savingKey", goal |-> "issue", request |-> run[r].request]
<1>3. /\ s \in Run /\ s.pc = "savingKey" /\ s.request = run[r].request
      /\ Goto(r, s)
  BY <1>2, NewRuns DEF Polls
<1>4. requests' = [requests EXCEPT ![run[r].request] = "issued"]
  BY DEF Polls, Collectable
<1>5. /\ requests' \in [Request -> {"none", "hidden", "pending", "accepted", "issued"}]
      /\ \A q \in Request : requests[q] = "issued" => requests'[q] = "issued"
      /\ requests'[run[r].request] = "issued"
  BY <1>1, <1>2, <1>4 DEF TypeOK
<1> HIDE DEF s
<1> QED
  BY <1>1, <1>3, <1>5, QuietKeeps

LEMMA AcceptsAllKeeps ==
    ASSUME Inv, NEW r \in Runs, AcceptsAll(r)
    PROVE  Inv'
<1>1. TypeOK /\ Quiet /\ ~Step(r, "saving") /\ Goto(r, Idle)
  BY DEF Inv, TypeOK, AcceptsAll, Ends, Quiet, account, steam, Step
<1>2. Idle \in Run /\ Idle.pc = "idle"
  BY NewRuns DEF Idle
<1>3. requests' \in [Request -> {"none", "hidden", "pending", "accepted", "issued"}]
  BY <1>1 DEF TypeOK, AcceptsAll
<1>4. ASSUME NEW q \in Request, requests[q] = "issued"
      PROVE  requests'[q] = "issued"
  <2>1. q \notin confirmationsToAccept
    BY <1>4, AcceptedArePending DEF Pending
  <2> QED
    BY <1>4, <2>1 DEF AcceptsAll
<1> QED
  BY <1>1, <1>2, <1>3, <1>4, QuietKeeps

\* The steps of others leave the runs where they are.
LEMMA OthersKeep ==
    ASSUME Inv, UNCHANGED run, Quiet,
           requests' \in [Request -> {"none", "hidden", "pending", "accepted", "issued"}],
           \A q \in Request : requests[q] = "issued" => requests'[q] = "issued"
    PROVE  Inv'
<1> USE DEF Inv
<1>1. TypeOK'
  BY DEF TypeOK, Quiet, steam
<1>2. RunsOK'
  <2>1. \A t \in Runs : Step(t, "savingKey") => run[t].request \in Request
    BY RunShapes DEF TypeOK, Step
  <2> QED
    BY <2>1 DEF RunsOK, Step, Quiet, steam
<1>3. SaversAgree' /\ NotLockedOut'
  BY DEF SaversAgree, NotLockedOut, Step, Quiet, steam
<1>4. StoredSecretIsFinal' /\ SavedKeyIsIssued'
  BY DEF StoredSecretIsFinal, SavedKeyIsIssued, Quiet, steam, TypeOK, None
<1> QED
  BY <1>1, <1>2, <1>3, <1>4

LEMMA ListedKeeps ==
    ASSUME Inv, NEW q \in Request, Listed(q)
    PROVE  Inv'
<1>1. UNCHANGED run /\ Quiet
  BY DEF Inv, TypeOK, Listed, Quiet, account, steam
<1>2. /\ requests' \in [Request -> {"none", "hidden", "pending", "accepted", "issued"}]
      /\ \A p \in Request : requests[p] = "issued" => requests'[p] = "issued"
  BY DEF Inv, TypeOK, Listed
<1> QED
  BY <1>1, <1>2, OthersKeep

LEMMA GcLogsInKeeps ==
    ASSUME Inv, GcLogsIn
    PROVE  Inv'
<1>1. TypeOK /\ UNCHANGED <<run, requests>> /\ Quiet
  BY DEF Inv, TypeOK, GcLogsIn, Quiet, steam
<1> QED
  BY <1>1, OthersKeep, SameRequests
-----------------------------------------------------------------------------
(* Secrets and keys *)

\* A second authenticator: none is on, so, unless one was lost, nobody has yet to
\* write an accepted secret.
LEMMA AddsKeeps ==
    ASSUME Inv, NEW r \in Runs, AddsAuthenticator(r)
    PROVE  Inv'
<1> USE DEF Inv
<1> DEFINE s == [pc |-> "finalizing", goal |-> run[r].goal, secret |-> made']
<1>1. /\ TypeOK /\ Step(r, "adding") /\ guard # "on" /\ guard' = "pending"
      /\ secret' = made' /\ stored' = stored /\ Goto(r, s)
      /\ UNCHANGED <<final, broken, token, apiKey, requests, lost, faults>>
  BY DEF AddsAuthenticator, StoredWhenAdded
<1>2. made' \in Secret /\ made' \in 0..MaxSecrets
  BY <1>1, AccountSetupAssumption DEF TypeOK, AddsAuthenticator, Secret
<1>3. run[r].goal \in Goals
  <2>1. run[r] \in Run /\ run[r] # Idle
    BY <1>1 DEF TypeOK, Step, Idle
  <2> QED
    BY <2>1, RunShapes
<1>4. s \in Run /\ s.pc = "finalizing"
  BY <1>2, <1>3, NewRuns
<1> HIDE DEF s
<1>5. /\ run' \in [Runs -> Run]
      /\ run'[r] = s
      /\ \A t \in Runs : t # r => run'[t] = run[t]
  BY <1>1, <1>4, Gone
<1>6. TypeOK'
  BY <1>1, <1>2, <1>5 DEF TypeOK
<1>7. RunsOK'
  BY <1>1, <1>4, <1>5 DEF RunsOK, Step
<1>8. SaversAgree' /\ NotLockedOut'
  BY <1>1, <1>4, <1>5 DEF SaversAgree, NotLockedOut, Step
<1>9. StoredSecretIsFinal' /\ SavedKeyIsIssued'
  BY <1>1 DEF StoredSecretIsFinal, SavedKeyIsIssued
<1> QED
  BY <1>6, <1>7, <1>8, <1>9

LEMMA FinalizesKeeps ==
    ASSUME Inv, NEW r \in Runs, Finalizes(r)
    PROVE  Inv'
<1> USE DEF Inv
<1> DEFINE s == [run[r] EXCEPT !.pc = "saving"]
<1>1. /\ TypeOK /\ Step(r, "finalizing") /\ guard = "pending"
      /\ secret = run[r].secret /\ guard' = "on" /\ final' = final \cup {secret}
      /\ UNCHANGED <<secret, made, stored, broken, token, apiKey, requests>>
  BY DEF Finalizes, account
<1>2. run[r] \in Run /\ run[r].pc = "finalizing" /\ secret \in Secret
  BY <1>1, RunShapes DEF TypeOK, Step
<1>3. run[r] \in [pc : {"finalizing", "saving"}, goal : Goals, secret : Secret]
  BY <1>2 DEF Run, Idle
<1>4. s \in Run /\ s.pc = "saving" /\ s.secret = secret
  <2>1. s \in [pc : {"finalizing", "saving"}, goal : Goals, secret : Secret]
    BY <1>3
  <2> QED
    BY <1>1, <1>3, <2>1 DEF Run
<1>5. Idle \in Run /\ Idle.pc = "idle"
  BY NewRuns DEF Idle
<1> HIDE DEF s
<1>6. StoredSecretIsFinal' /\ SavedKeyIsIssued'
  BY <1>1 DEF StoredSecretIsFinal, SavedKeyIsIssued
<1>7. CASE Goto(r, s) /\ UNCHANGED <<lost, faults>>
  <2>1. /\ run' \in [Runs -> Run]
        /\ run'[r] = s
        /\ \A t \in Runs : t # r => run'[t] = run[t]
    BY <1>1, <1>4, <1>7, Gone
  <2>2. TypeOK'
    BY <1>1, <1>2, <1>7, <2>1 DEF TypeOK
  <2>3. RunsOK'
    BY <1>1, <1>4, <2>1 DEF RunsOK, Step
  <2>4. SaversAgree' /\ NotLockedOut'
    BY <1>1, <1>4, <1>7, <2>1 DEF SaversAgree, NotLockedOut, Step
  <2> QED
    BY <1>6, <2>2, <2>3, <2>4
<1>8. CASE Fault /\ lost' = TRUE /\ Ends(r)
  <2>1. /\ run' \in [Runs -> Run]
        /\ run'[r] = Idle
        /\ \A t \in Runs : t # r => run'[t] = run[t]
    BY <1>1, <1>5, <1>8, Gone DEF Ends
  <2>2. faults' \in 0..MaxFaults
    BY <1>1, <1>8, AccountSetupAssumption DEF TypeOK, Fault
  <2>3. TypeOK'
    BY <1>1, <1>2, <1>8, <2>1, <2>2 DEF TypeOK
  <2>4. RunsOK'
    BY <1>1, <1>5, <2>1 DEF RunsOK, Step
  <2>5. SaversAgree' /\ NotLockedOut'
    BY <1>8 DEF SaversAgree, NotLockedOut
  <2> QED
    BY <1>6, <2>3, <2>4, <2>5
<1>9. \/ Goto(r, s) /\ UNCHANGED <<lost, faults>>
      \/ Fault /\ lost' = TRUE /\ Ends(r)
  BY Zenon DEF Finalizes, s
<1> QED
  BY <1>7, <1>8, <1>9

\* Whoever writes, what others have yet to write is the same secret, unless one
\* was lost.
LEMMA SavesSecretKeeps ==
    ASSUME Inv, NEW r \in Runs, SavesSecret(r)
    PROVE  Inv'
<1> USE DEF Inv
<1> DEFINE s == [pc |-> "persisting", goal |-> run[r].goal]
<1>1. /\ TypeOK /\ Step(r, "saving") /\ stored' = run[r].secret /\ broken' = FALSE
      /\ Goto(r, s)
      /\ UNCHANGED <<guard, secret, final, made, token, apiKey, requests, lost, faults>>
  BY DEF SavesSecret, Upserted, steam
<1>2. run[r] \in Run /\ run[r] # Idle /\ run[r].pc = "saving"
  BY <1>1 DEF TypeOK, Step, Idle
<1>3. run[r].goal \in Goals /\ run[r].secret \in Secret
  BY <1>2, RunShapes
<1>4. s \in Run /\ s.pc = "persisting"
  BY <1>3, NewRuns
<1> HIDE DEF s
<1>5. /\ run' \in [Runs -> Run]
      /\ run'[r] = s
      /\ \A t \in Runs : t # r => run'[t] = run[t]
  BY <1>1, <1>4, Gone
<1>6. TypeOK'
  BY <1>1, <1>3, <1>5 DEF TypeOK
<1>7. RunsOK'
  BY <1>1, <1>4, <1>5 DEF RunsOK, Step
<1>8. SaversAgree'
  BY <1>1, <1>4, <1>5 DEF SaversAgree, Step
<1>9. NotLockedOut'
  BY <1>1 DEF NotLockedOut, SaversAgree
<1>10. StoredSecretIsFinal' /\ SavedKeyIsIssued'
  BY <1>1 DEF StoredSecretIsFinal, SavedKeyIsIssued, RunsOK
<1> QED
  BY <1>6, <1>7, <1>8, <1>9, <1>10

LEMMA SavesKeyKeeps ==
    ASSUME Inv, NEW r \in Runs, SavesKey(r)
    PROVE  Inv'
<1> USE DEF Inv
<1>1. /\ TypeOK /\ Step(r, "savingKey") /\ apiKey' = run[r].request
      /\ Goto(r, Idle)
      /\ UNCHANGED <<guard, secret, final, made, stored, broken, token, requests,
                     lost, faults>>
  BY DEF SavesKey, Ends, steam
<1>2. run[r].request \in Request
  BY <1>1, RunShapes DEF TypeOK, Step
<1>3. Idle \in Run /\ Idle.pc = "idle"
  BY NewRuns DEF Idle
<1>4. /\ run' \in [Runs -> Run]
      /\ run'[r] = Idle
      /\ \A t \in Runs : t # r => run'[t] = run[t]
  BY <1>1, <1>3, Gone
<1>5. TypeOK'
  BY <1>1, <1>2, <1>4 DEF TypeOK
<1>6. RunsOK'
  BY <1>1, <1>3, <1>4 DEF RunsOK, Step
<1>7. SaversAgree' /\ NotLockedOut'
  BY <1>1, <1>3, <1>4 DEF SaversAgree, NotLockedOut, Step
<1>8. StoredSecretIsFinal' /\ SavedKeyIsIssued'
  BY <1>1 DEF StoredSecretIsFinal, SavedKeyIsIssued, RunsOK
<1> QED
  BY <1>5, <1>6, <1>7, <1>8

-----------------------------------------------------------------------------
(* Faults *)

\* A run that dies before it has written its secret is the lost one.
LEMMA DiesKeeps ==
    ASSUME Inv, NEW r \in Runs, Dies(r)
    PROVE  Inv'
<1> USE DEF Inv
<1>1. /\ TypeOK /\ Goto(r, Idle) /\ Fault
      /\ UNCHANGED <<guard, secret, final, made, stored, broken, token, apiKey, requests>>
  BY DEF Dies, Ends, steam, account
<1>2. lost' \in BOOLEAN /\ (lost' <=> lost \/ Step(r, "saving"))
  BY Zenon DEF Dies
<1>3. Idle \in Run /\ Idle.pc = "idle"
  BY NewRuns DEF Idle
<1>4. /\ run' \in [Runs -> Run]
      /\ run'[r] = Idle
      /\ \A t \in Runs : t # r => run'[t] = run[t]
  BY <1>1, <1>3, Gone
<1>5. faults' \in 0..MaxFaults
  BY <1>1, AccountSetupAssumption DEF TypeOK, Fault
<1>6. TypeOK'
  BY <1>1, <1>2, <1>4, <1>5 DEF TypeOK
<1>7. RunsOK'
  BY <1>1, <1>3, <1>4 DEF RunsOK, Step
<1>8. SaversAgree' /\ NotLockedOut'
  BY <1>1, <1>2, <1>3, <1>4 DEF SaversAgree, NotLockedOut, Step
<1>9. StoredSecretIsFinal' /\ SavedKeyIsIssued'
  BY <1>1 DEF StoredSecretIsFinal, SavedKeyIsIssued
<1> QED
  BY <1>6, <1>7, <1>8, <1>9

LEMMA GuardRemovedKeeps ==
    ASSUME Inv, GuardRemoved
    PROVE  Inv'
<1> USE DEF Inv
<1>1. /\ TypeOK /\ guard' = "none" /\ Fault
      /\ UNCHANGED <<secret, final, made, stored, broken, token, apiKey, requests, run>>
  BY DEF GuardRemoved, account
<1>2. lost' \in BOOLEAN /\ (lost' <=> \E r \in Runs : Step(r, "saving"))
  BY Zenon DEF GuardRemoved
<1>3. faults' \in 0..MaxFaults
  BY <1>1, AccountSetupAssumption DEF TypeOK, Fault
<1>4. TypeOK'
  BY <1>1, <1>2, <1>3 DEF TypeOK
<1>5. RunsOK'
  BY <1>1 DEF RunsOK, Step
<1>6. SaversAgree' /\ NotLockedOut'
  BY <1>1, <1>2 DEF SaversAgree, NotLockedOut, Step
<1>7. StoredSecretIsFinal' /\ SavedKeyIsIssued'
  BY <1>1 DEF StoredSecretIsFinal, SavedKeyIsIssued
<1> QED
  BY <1>4, <1>5, <1>6, <1>7

-----------------------------------------------------------------------------
(* The theorems *)

LEMMA InitInv == Init => Inv
<1> SUFFICES ASSUME Init PROVE Inv
  OBVIOUS
<1>1. TypeOK
  <2>1. run \in [Runs -> Run]
    BY NewRuns DEF Init
  <2>2. made \in 0..MaxSecrets /\ faults \in 0..MaxFaults
    BY AccountSetupAssumption DEF Init
  <2> QED
    BY <2>1, <2>2 DEF Init, TypeOK
<1>2. RunsOK /\ SaversAgree
  BY DEF Init, RunsOK, SaversAgree, Step, Idle
<1>3. StoredSecretIsFinal /\ NotLockedOut /\ SavedKeyIsIssued
  BY DEF Init, StoredSecretIsFinal, NotLockedOut, SavedKeyIsIssued
<1> QED
  BY <1>1, <1>2, <1>3 DEF Inv

LEMMA StepInv == Inv /\ [Next]_vars => Inv'
<1> SUFFICES ASSUME Inv, [Next]_vars PROVE Inv'
  OBVIOUS
<1>1. CASE UNCHANGED vars
  BY <1>1 DEF Inv, vars, steam, account, TypeOK, RunsOK, SaversAgree,
              StoredSecretIsFinal, NotLockedOut, SavedKeyIsIssued, Step
<1>2. ASSUME NEW r \in Runs, StartIssue(r) \/ StartSetup(r) \/ StartConfirm(r)
      PROVE  Inv'
  BY <1>2, StartsKeep
<1>3. ASSUME NEW r \in Runs, Fails(r) \/ Dies(r)
      PROVE  Inv'
  BY <1>3, FailsKeeps, DiesKeeps
<1>4. ASSUME NEW r \in Runs,
             LogsInByMail(r) \/ LogsInByHand(r) \/ AddsAuthenticator(r) \/ Finalizes(r)
      PROVE  Inv'
  BY <1>4, LoginsKeep, AddsKeeps, FinalizesKeeps
<1>5. ASSUME NEW r \in Runs, SavesSecret(r) \/ PersistsSession(r)
      PROVE  Inv'
  BY <1>5, SavesSecretKeeps, PersistsKeeps
<1>6. ASSUME NEW r \in Runs,
             LogsInMobile(r) \/ RequestsKey(r) \/ FindsConfirmation(r) \/ Accepts(r)
      PROVE  Inv'
  BY <1>6, LogsInMobileKeeps, RequestsKeyKeeps, FindsConfirmationKeeps, AcceptsKeeps
<1>7. ASSUME NEW r \in Runs, Polls(r) \/ SavesKey(r) \/ AcceptsAll(r)
      PROVE  Inv'
  BY <1>7, PollsKeeps, SavesKeyKeeps, AcceptsAllKeeps
<1>8. ASSUME NEW q \in Request, Listed(q)
      PROVE  Inv'
  BY <1>8, ListedKeeps
<1>9. CASE GcLogsIn \/ GuardRemoved
  BY <1>9, GcLogsInKeeps, GuardRemovedKeeps
<1> QED
  BY <1>1, <1>2, <1>3, <1>4, <1>5, <1>6, <1>7, <1>8, <1>9 DEF Next

\* The inductive invariant: what is stored and what each run is about to write
\* agree with what Steam has accepted, through every interleaving of the runs.
THEOREM Invariance == Spec => []Inv
BY InitInv, StepInv, PTL DEF Spec

\* Every variable keeps its type; a run that logs in as the mobile client never
\* does so for the command setup, which ends with its session.
THEOREM TypeCorrect == Spec => []TypeOK
<1>1. Inv => TypeOK
  BY DEF Inv
<1> QED
  BY <1>1, Invariance, PTL

\* The row only ever holds a secret that FinalizeAddAuthenticator accepted.
THEOREM OnlyFinalSecretsAreStored == Spec => []StoredSecretIsFinal
<1>1. Inv => StoredSecretIsFinal
  BY DEF Inv
<1> QED
  BY <1>1, Invariance, PTL

\* Two enrolments at once, or a stale row, never lock the account: while an
\* authenticator is on, its secret is stored or about to be, unless a fault lost it.
THEOREM NoEnrolmentLocksOut == Spec => []NotLockedOut
<1>1. Inv => NotLockedOut
  BY DEF Inv
<1> QED
  BY <1>1, Invariance, PTL

\* A saved key answers the request that the saving run made, whichever run or
\* command accepted the confirmation.
THEOREM SavedKeysAreIssued == Spec => []SavedKeyIsIssued
<1>1. Inv => SavedKeyIsIssued
  BY DEF Inv
<1> QED
  BY <1>1, Invariance, PTL
=============================================================================
