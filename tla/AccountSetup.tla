---------------------------- MODULE AccountSetup ----------------------------
(***************************************************************************)
(* Getting a Steam Web API key for one bought account: enrolling a mobile  *)
(* authenticator (enrollViaEmail of provision-api-key.ts, and the command  *)
(* setup of steam-guard.ts), logging in as the mobile client, and          *)
(* registering the key with a confirmation that the program itself         *)
(* accepts.  Runs of the worker, the API and the command line may be under *)
(* way on one account at once, and each may die between two calls.         *)
(*                                                                         *)
(* Simplifications.  A secret is the number of the AddAuthenticator that   *)
(* made it.  An activation or login code that is late, missing or of       *)
(* another run is one outcome, the run fails; so are the refusals of       *)
(* Steam.  shared_secret and identity_secret come and go together.  A run  *)
(* logs in with what the row holds at the login, where the code has read   *)
(* the row a few calls before.  The operator's commands add and save, which *)
(* write whatever secret is typed, and add-phone are left out.             *)
(***************************************************************************)
EXTENDS Integers, FiniteSets

CONSTANTS
    Runs,          \* runs of the program on the account
    MaxSecrets,    \* bound of the model: authenticators Steam hands out
    MaxRequests,   \* bound of the model: requests for a key
    MaxFaults      \* bound of the model: deaths of a run, lost answers of Finalize,
                   \* authenticators that somebody removes

ASSUME AccountSetupAssumption ==
    /\ IsFiniteSet(Runs)
    /\ MaxSecrets \in Nat /\ MaxRequests \in Nat /\ MaxFaults \in Nat

VARIABLES
    guard,      \* Steam: "none", "pending" until Finalize, or "on"
    secret,     \* Steam: the secret of that authenticator
    stored,     \* steam_accounts.shared_secret, identity_secret
    broken,     \* steam_accounts.shared_secret_broken
    token,      \* steam_accounts.refresh_token: the audience it is for
    apiKey,     \* steam_api_keys: the request whose key is saved
    requests,   \* Steam: requests[q]: a request for a key
    run,        \* run[r]: what run r does
    final,      \* history: secrets that Finalize has accepted
    made,       \* history: secrets handed out
    lost,       \* history: a fault lost the secret of a final authenticator
    faults      \* history: faults so far

steam == <<guard, secret, final, made>>
account == <<stored, broken, token, apiKey>>
vars == <<steam, account, requests, run, lost, faults>>

None == 0
Secret == 1..MaxSecrets
Request == 1..MaxRequests
Idle == [pc |-> "idle"]

-----------------------------------------------------------------------------

\* accountHasUsableTotp
UsableTotp == stored # None /\ ~broken

\* What Steam makes of the code of a secret.
TotpAccepted(s) == guard = "on" /\ s = secret

Pending == {q \in Request : requests[q] = "pending"}
MaxOf(S) == CHOOSE q \in S : \A p \in S : p <= q

\* confirmationForRequestId: the confirmation of the request, or the only one.
confirmationForRequestId(q) ==
    IF q \in Pending THEN {q}
    ELSE IF Cardinality(Pending) = 1 THEN Pending ELSE {}

\* confirmationsToAccept: of several requests for a key only the newest.
confirmationsToAccept ==
    IF Cardinality(Pending) <= 1 THEN Pending ELSE {MaxOf(Pending)}

Fault ==
    /\ faults < MaxFaults
    /\ faults' = faults + 1

Step(r, pc) == run[r].pc = pc
Goto(r, state) == run' = [run EXCEPT ![r] = state]
Ends(r) == Goto(r, Idle)

-----------------------------------------------------------------------------

\* The account comes without an authenticator.
Init ==
    /\ guard = "none"
    /\ secret = None
    /\ stored = None
    /\ broken = FALSE
    /\ token = "none"
    /\ apiKey = None
    /\ requests = [q \in Request |-> "none"]
    /\ run = [r \in Runs |-> Idle]
    /\ final = {}
    /\ made = 0
    /\ lost = FALSE
    /\ faults = 0

-----------------------------------------------------------------------------
(* Commands *)

\* issueApiKeyForLogin: without a usable secret the run enrolls first.
StartIssue(r) ==
    /\ run[r] = Idle
    /\ Goto(r, [pc |-> IF UsableTotp THEN "mobile" ELSE "enroll", goal |-> "issue"])
    /\ UNCHANGED <<steam, account, requests, lost, faults>>

\* cmdSetup
StartSetup(r) ==
    /\ run[r] = Idle
    /\ Goto(r, [pc |-> "enroll", goal |-> "setup"])
    /\ UNCHANGED <<steam, account, requests, lost, faults>>

\* cmdConfirm
StartConfirm(r) ==
    /\ run[r] = Idle /\ UsableTotp
    /\ Goto(r, [pc |-> "mobile", goal |-> "confirm"])
    /\ UNCHANGED <<steam, account, requests, lost, faults>>

\* A call is refused, or a code does not come in time: the run throws.
Fails(r) ==
    /\ run[r] # Idle
    /\ run[r].pc \notin {"saving", "persisting", "savingKey"}
    /\ Ends(r)
    /\ UNCHANGED <<steam, account, requests, lost, faults>>

\* The process dies.
Dies(r) ==
    /\ run[r] # Idle
    /\ Fault
    /\ lost' = (lost \/ Step(r, "saving"))
    /\ Ends(r)
    /\ UNCHANGED <<steam, account, requests>>

-----------------------------------------------------------------------------
(* Enrolling the authenticator *)

\* enrollViaEmail, loginMobileSession: without a secret there is no code to give
\* where Steam asks for that of an authenticator.
LogsInByMail(r) ==
    /\ Step(r, "enroll") /\ run[r].goal = "issue"
    /\ guard # "on"
    /\ Goto(r, [run[r] EXCEPT !.pc = "adding"])
    /\ UNCHANGED <<steam, account, requests, lost, faults>>

\* enrollMobileAuthenticator, loginSteamSession: the person types any code.
LogsInByHand(r) ==
    /\ Step(r, "enroll") /\ run[r].goal = "setup"
    /\ Goto(r, [run[r] EXCEPT !.pc = "adding"])
    /\ UNCHANGED <<steam, account, requests, lost, faults>>

\* Mutant: the secret is stored before Steam has accepted it.
StoredWhenAddedAtOnce(s) == s

\* What addAuthenticator leaves in the row.
StoredWhenAdded(s) == stored

\* addAuthenticator; Steam refuses (DuplicateRequest) where one is on.
AddsAuthenticator(r) ==
    /\ Step(r, "adding")
    /\ guard # "on" /\ made < MaxSecrets
    /\ made' = made + 1
    /\ guard' = "pending"
    /\ secret' = made'
    /\ stored' = StoredWhenAdded(made')
    /\ Goto(r, [pc |-> "finalizing", goal |-> run[r].goal, secret |-> made'])
    /\ UNCHANGED <<final, broken, token, apiKey, requests, lost, faults>>

\* fetchSteamGuardFromMailbox or the person, then finalizeAuthenticator, again
\* while Steam wants more.
Finalizes(r) ==
    /\ Step(r, "finalizing")
    /\ guard = "pending" /\ secret = run[r].secret
    /\ guard' = "on"
    /\ final' = final \cup {secret}
    /\ \/ /\ Goto(r, [run[r] EXCEPT !.pc = "saving"])
          /\ UNCHANGED <<lost, faults>>
       \/ /\ Fault                    \* the answer is lost
          /\ lost' = TRUE
          /\ Ends(r)
    /\ UNCHANGED <<secret, made, account, requests>>

\* Mutant: the upsert keeps a secret that is there.
UpsertedKeeping(s) == IF stored # None THEN stored ELSE s

\* shared_secret = COALESCE(excluded.shared_secret, shared_secret)
Upserted(s) == s

\* saveSharedSecret, upsertSteamAccount
SavesSecret(r) ==
    /\ Step(r, "saving")
    /\ stored' = Upserted(run[r].secret)
    /\ broken' = FALSE
    /\ Goto(r, [pc |-> "persisting", goal |-> run[r].goal])
    /\ UNCHANGED <<steam, token, apiKey, requests, lost, faults>>

\* Mutant: a confirm goes on to ask for a key.
NextAfterLoginAsks(r) == [pc |-> "requesting", goal |-> run[r].goal]

\* What follows the login of a run.
NextAfterLogin(r) ==
    [pc |-> IF run[r].goal = "confirm" THEN "confirming" ELSE "requesting",
     goal |-> run[r].goal]

\* persistMobileSession after the enrolment; an issue logs in anew.
PersistsSession(r) ==
    /\ Step(r, "persisting")
    /\ token' = "mobile"
    /\ Goto(r, IF run[r].goal = "setup" THEN Idle
               ELSE [pc |-> "mobile", goal |-> run[r].goal])
    /\ UNCHANGED <<steam, stored, broken, apiKey, requests, lost, faults>>

-----------------------------------------------------------------------------
(* The key *)

\* communityGuardContext: loginMobileForAccount with a saved token for the mobile
\* client, else with the password and the code of the stored secret; then
\* persistMobileSession.
LogsInMobile(r) ==
    /\ Step(r, "mobile")
    /\ UsableTotp
    /\ token = "mobile" \/ TotpAccepted(stored)
    /\ token' = "mobile"
    /\ Goto(r, NextAfterLogin(r))
    /\ UNCHANGED <<steam, stored, broken, apiKey, requests, lost, faults>>

\* issueWebApiKey: Steam gives a key at once, or a request that must be confirmed.
RequestsKey(r) ==
    /\ Step(r, "requesting")
    /\ \E q \in Request :
           /\ requests[q] = "none" /\ \A p \in Request : p < q => requests[p] # "none"
           /\ \/ /\ requests' = [requests EXCEPT ![q] = "issued"]
                 /\ Goto(r, [pc |-> "savingKey", goal |-> "issue", request |-> q])
              \/ /\ requests' = [requests EXCEPT ![q] = "hidden"]
                 /\ Goto(r, [pc |-> "waiting", goal |-> "issue", request |-> q])
    /\ UNCHANGED <<steam, account, lost, faults>>

\* waitForApiKeyConfirmation
FindsConfirmation(r) ==
    /\ Step(r, "waiting")
    /\ \E c \in confirmationForRequestId(run[r].request) :
           Goto(r, [pc |-> "accepting", goal |-> "issue",
                    request |-> run[r].request, confirmation |-> c])
    /\ UNCHANGED <<steam, account, requests, lost, faults>>

\* acceptConfirmation; Steam refuses one that is gone.
Accepts(r) ==
    /\ Step(r, "accepting")
    /\ run[r].confirmation \in Pending
    /\ requests' = [requests EXCEPT ![run[r].confirmation] = "accepted"]
    /\ Goto(r, [pc |-> "polling", goal |-> "issue", request |-> run[r].request])
    /\ UNCHANGED <<steam, account, lost, faults>>

\* Mutant: the poll posts request_id 0 again, and takes whatever key is ready.
CollectableAny(q) == {p \in Request : requests[p] = "accepted"}

\* postRequestKey answers a request that was accepted.
Collectable(q) == {q} \cap {p \in Request : requests[p] = "accepted"}

\* pollRequestKey
Polls(r) ==
    /\ Step(r, "polling")
    /\ \E q \in Collectable(run[r].request) :
           /\ requests' = [requests EXCEPT ![q] = "issued"]
           /\ Goto(r, [pc |-> "savingKey", goal |-> "issue",
                       request |-> run[r].request])
    /\ UNCHANGED <<steam, account, lost, faults>>

\* saveApiKey
SavesKey(r) ==
    /\ Step(r, "savingKey")
    /\ apiKey' = run[r].request
    /\ Ends(r)
    /\ UNCHANGED <<steam, stored, broken, token, requests, lost, faults>>

\* cmdConfirm: acceptConfirmations of what confirmationsToAccept leaves
AcceptsAll(r) ==
    /\ Step(r, "confirming")
    /\ requests' = [q \in Request |->
           IF q \in confirmationsToAccept THEN "accepted" ELSE requests[q]]
    /\ Ends(r)
    /\ UNCHANGED <<steam, account, lost, faults>>

-----------------------------------------------------------------------------
(* Others *)

\* Steam lists the confirmation of a request some time after the request.
Listed(q) ==
    /\ requests[q] = "hidden"
    /\ requests' = [requests EXCEPT ![q] = "pending"]
    /\ UNCHANGED <<steam, account, run, lost, faults>>

\* A GC session logs in with the password and saves its own token, or learns
\* that Steam rejects the code of the stored secret.
GcLogsIn ==
    /\ \/ /\ token' = "client"
          /\ UNCHANGED broken
       \/ /\ stored # None /\ ~TotpAccepted(stored)
          /\ broken' = TRUE
          /\ UNCHANGED token
    /\ UNCHANGED <<steam, stored, apiKey, requests, run, lost, faults>>

\* The owner or the support takes the authenticator off the account.  A run that
\* has yet to save its secret will then save one that is dead.
GuardRemoved ==
    /\ guard # "none"
    /\ Fault
    /\ guard' = "none"
    /\ lost' = (\E r \in Runs : Step(r, "saving"))
    /\ UNCHANGED <<secret, final, made, account, requests, run>>

Next ==
    \/ \E r \in Runs :
           \/ StartIssue(r) \/ StartSetup(r) \/ StartConfirm(r)
           \/ Fails(r) \/ Dies(r)
           \/ LogsInByMail(r) \/ LogsInByHand(r)
           \/ AddsAuthenticator(r) \/ Finalizes(r)
           \/ SavesSecret(r) \/ PersistsSession(r)
           \/ LogsInMobile(r) \/ RequestsKey(r) \/ FindsConfirmation(r)
           \/ Accepts(r) \/ Polls(r) \/ SavesKey(r) \/ AcceptsAll(r)
    \/ \E q \in Request : Listed(q)
    \/ GcLogsIn \/ GuardRemoved

Spec == Init /\ [][Next]_vars

-----------------------------------------------------------------------------
(* Properties *)

Goals == {"issue", "setup", "confirm"}
Run ==
    {Idle}
    \cup [pc : {"enroll", "adding", "persisting", "mobile"}, goal : Goals]
    \cup [pc : {"finalizing", "saving"}, goal : Goals, secret : Secret]
    \cup [pc : {"requesting"}, goal : {"issue"}]
    \cup [pc : {"confirming"}, goal : {"confirm"}]
    \cup [pc : {"waiting", "polling", "savingKey"}, goal : {"issue"},
          request : Request]
    \cup [pc : {"accepting"}, goal : {"issue"}, request : Request,
          confirmation : Request]

TypeOK ==
    /\ guard \in {"none", "pending", "on"}
    /\ secret \in Secret \cup {None}
    /\ stored \in Secret \cup {None}
    /\ broken \in BOOLEAN
    /\ token \in {"none", "mobile", "client"}
    /\ apiKey \in Request \cup {None}
    /\ requests \in [Request -> {"none", "hidden", "pending", "accepted", "issued"}]
    /\ run \in [Runs -> Run]
    /\ final \subseteq Secret
    /\ made \in 0..MaxSecrets
    /\ lost \in BOOLEAN
    /\ faults \in 0..MaxFaults

\* steam-guard.ts, usage: a secret is written only after Finalize has succeeded,
\* whichever of two enrolments Steam accepts.
StoredSecretIsFinal == stored # None => stored \in final

\* While an authenticator is on, the row has its secret, or the run that got it
\* is about to write it; only a run that dies in between locks the account, not
\* two enrolments at once, nor a stale secret in the row.
NotLockedOut ==
    guard = "on" =>
        \/ stored = secret
        \/ \E r \in Runs : Step(r, "saving") /\ run[r].secret = secret
        \/ lost

\* A key in the database belongs to a request that Steam has answered for it,
\* whichever run accepted the confirmation.
SavedKeyIsIssued == apiKey # None => requests[apiKey] = "issued"
=============================================================================
