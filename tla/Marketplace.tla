---------------------------- MODULE Marketplace ----------------------------
(***************************************************************************)
(* Buying Steam accounts: replenish_accounts places orders, pays, waits    *)
(* and provisions; the settle job takes up every row still pending.  None  *)
(* of the updates of marketplace_orders looks at the status it             *)
(* overwrites, and every await is a step boundary.                         *)
(*                                                                         *)
(* Simplifications.  The store is configured and its products are          *)
(* whitelisted.  Order o buys account o.  The ready accounts are those     *)
(* that were bought.  Time is nondeterministic: a row passes its ttl at    *)
(* any moment after its buyer's own wait, the wait being shorter.  A       *)
(* message repeats only a store's id that the row has already.  An         *)
(* operator's buy-account is the same run without the count, and is left   *)
(* out, as are the alerts on failures.                                     *)
(***************************************************************************)
EXTENDS Integers, FiniteSets

CONSTANTS
    Kinds,                \* account_purchase_kind: "api_key" and "gc"
    desired_api_keys,     \* the settings of the same names
    desired_gc_accounts,
    BuyMax,               \* settings.marketplace_buy_max
    MaxOrders,            \* bound of the model: rows ever inserted
    MaxFaults             \* bound of the model: crashes and losses of accounts

Orders == 1..MaxOrders

Buyer == "replenish_accounts"

Settler == "settle_marketplace_orders"

Actors == {Buyer, Settler}

ASSUME MarketAssumption ==
    /\ Kinds \subseteq {"api_key", "gc"}
    /\ desired_api_keys \in Nat
    /\ desired_gc_accounts \in Nat
    /\ BuyMax \in Nat \ {0}  \* settings.ts reads it as a positive integer
    /\ MaxOrders \in Nat
    /\ MaxFaults \in Nat

VARIABLES
    order,    \* order[o]: the row of marketplace_orders
    store,    \* store[o]: the order at the store, paid unless "none"
    account,  \* account[o]: the rows of steam_accounts and steam_api_keys
    lost,     \* accounts that disableResource has taken out of the pools
    actor,    \* actor[a]: where a run stands, on which order, units left
    seen,     \* seen[o]: the row as the settle job's SELECT read it
    faults    \* history: crashes and losses so far

vars == <<order, store, account, lost, actor, seen, faults>>

-----------------------------------------------------------------------------

NoOrder == [status |-> "none", kind |-> "none", ext |-> FALSE, expired |-> FALSE]

IdleActor == [pc |-> "idle", order |-> 0, kind |-> "none", left |-> 0]

\* The row the settle job is not holding.
Unseen == [id |-> FALSE, expired |-> FALSE, todo |-> FALSE]

Pending == {o \in Orders : order[o].status = "pending"}

Desired(k) == IF k = "gc" THEN desired_gc_accounts ELSE desired_api_keys

countPendingOrders(k) == Cardinality({o \in Pending : order[o].kind = k})

\* An account without a secret and without a key counts for the gc pool,
\* whatever it was bought for.
Ready(k) ==
    {o \in Orders \ lost : account[o] = IF k = "gc" THEN "account" ELSE "key"}

\* Mutant: orders under way are not counted.
replenishGapReadyOnly(k, ready) == Desired(k) - ready

\* At most zero when nothing is to be bought.
replenishGap(k, ready) == Desired(k) - ready - countPendingOrders(k)

Init ==
    /\ order = [o \in Orders |-> NoOrder]
    /\ store = [o \in Orders |-> "none"]
    /\ account = [o \in Orders |-> "none"]
    /\ lost = {}
    /\ actor = [a \in Actors |-> IdleActor]
    /\ seen = [o \in Orders |-> Unseen]
    /\ faults = 0

Goto(a, pc) == actor' = [actor EXCEPT ![a].pc = pc]

At(a, pc) == actor[a].pc = pc

\* buyOne returned, or settleOne did: on to the next unit or row.
NextUnit(a) ==
    LET me == actor[a]
        more == [IdleActor EXCEPT !.pc = "insert", !.kind = me.kind, !.left = me.left - 1]
    IN  actor' = [actor EXCEPT ![a] =
            IF a = Settler THEN [IdleActor EXCEPT !.pc = "settle"]
            ELSE IF me.left > 1 THEN more
            ELSE IdleActor]

-----------------------------------------------------------------------------
(* buyAccounts *)

\* replenishKind counts what is ready and then, in another statement, what
\* is pending: an order that settles between the two is counted in neither.
ReplenishCounts(k) ==
    /\ At(Buyer, "idle")
    /\ order[MaxOrders].status = "none"
    /\ actor' = [actor EXCEPT ![Buyer] = [pc |-> "counted", order |-> 0,
           kind |-> k, left |-> Cardinality(Ready(k))]]
    /\ UNCHANGED <<order, store, account, lost, seen, faults>>

\* Mutant: only an exact fit stops the job.
NothingToBuyExactly(gap) == gap = 0

NothingToBuy(gap) == gap <= 0

ReplenishBuys ==
    LET me  == actor[Buyer]
        gap == replenishGap(me.kind, me.left)
    IN  /\ me.pc = "counted"
        /\ actor' = [actor EXCEPT ![Buyer] =
               IF NothingToBuy(gap) THEN IdleActor
               ELSE [@ EXCEPT !.pc = "insert",
                              !.left = IF gap < BuyMax THEN gap ELSE BuyMax]]
        /\ UNCHANGED <<order, store, account, lost, seen, faults>>

InsertOrder ==
    /\ At(Buyer, "insert")
    /\ \E o \in Orders :
          /\ order[o].status = "none"
          /\ \A p \in Orders : p < o => order[p].status # "none"
          /\ order' = [order EXCEPT ![o] = [NoOrder EXCEPT
                 !.status = "pending", !.kind = actor[Buyer].kind]]
          /\ actor' = [actor EXCEPT ![Buyer].pc = "create", ![Buyer].order = o]
    /\ UNCHANGED <<store, account, lost, seen, faults>>

\* order/create: paid and answered, with the goods at once or not; paid and
\* the answer lost; or refused.  A 408 parks the row, any other error fails it.
CreateDarkOrder ==
    LET o == actor[Buyer].order
    IN  /\ At(Buyer, "create")
        /\ \/ \E s \in {"in_process", "ready"} :
                 /\ store' = [store EXCEPT ![o] = s]
                 /\ Goto(Buyer, "setid")
           \/ /\ store' = [store EXCEPT ![o] = "in_process"]
              /\ \E pc \in {"fail", "park"} : Goto(Buyer, pc)
           \/ /\ UNCHANGED store
              /\ \E pc \in {"fail", "park"} : Goto(Buyer, pc)
        /\ UNCHANGED <<order, account, lost, seen, faults>>

SetExternalId ==
    /\ At(Buyer, "setid")
    /\ order' = [order EXCEPT ![actor[Buyer].order].ext = TRUE]
    /\ Goto(Buyer, "wait")
    /\ UNCHANGED <<store, account, lost, seen, faults>>

\* Mutant: a status the code does not know counts as ready.
DeliveredUnlessFailed(o) == store[o] \in {"ready", "in_process"}

\* classifyDarkOrderStatus is "ready".
Delivered(o) == store[o] = "ready"

\* waitMarketplaceDelivery: ready and downloaded; or parked, still in process
\* when the wait is over or a request of it answered 408; or failed.
WaitDelivery ==
    LET o == actor[Buyer].order
    IN  /\ At(Buyer, "wait")
        /\ \/ Delivered(o) /\ Goto(Buyer, "persist")
           \/ \E pc \in {"fail", "park"} : Goto(Buyer, pc)
        /\ UNCHANGED <<order, store, account, lost, seen, faults>>

\* markMarketplaceOrderPending writes the message and leaves the status.
MarkPending(a) ==
    /\ At(a, "park")
    /\ NextUnit(a)
    /\ UNCHANGED <<order, store, account, lost, seen, faults>>

-----------------------------------------------------------------------------
(* fulfillBoughtDelivery, by the buyer or by the settle job *)

\* The delivery may not parse; upsertSteamAccount makes the account ready
\* again and spares its secret and key; the mailbox may then fail.
PersistBoughtAccount(a) ==
    LET o == actor[a].order
    IN  /\ At(a, "persist")
        /\ \/ Goto(a, "fail") /\ UNCHANGED <<account, lost>>
           \/ /\ account' = [account EXCEPT ![o] =
                     IF @ = "none" THEN "account" ELSE @]
              /\ lost' = lost \ {o}
              /\ \E pc \in {"provision", "fail"} : Goto(a, pc)
        /\ UNCHANGED <<order, store, seen, faults>>

\* Enrolls Guard, issues a key and tests it; or logs the gc account in.  Each
\* call may fail, and what was saved before it stays.
ProvisionOrder(a) ==
    LET o == actor[a].order
    IN  /\ At(a, "provision")
        /\ \/ Goto(a, "fail") /\ UNCHANGED account
           \/ /\ order[o].kind = "gc"
              /\ Goto(a, "finish")
              /\ UNCHANGED account
           \/ /\ order[o].kind = "api_key"
              /\ account[o] = "account"
              /\ account' = [account EXCEPT ![o] = "guarded"]
              /\ UNCHANGED actor
           \/ /\ order[o].kind = "api_key"
              /\ account[o] \in {"guarded", "key"}
              /\ account' = [account EXCEPT ![o] = "key"]
              /\ \E pc \in {"finish", "fail"} : Goto(a, pc)
        /\ UNCHANGED <<order, store, lost, seen, faults>>

\* finishMarketplaceOrder has no condition on the status it replaces.  The
\* age of a finished row is read by nobody.
FinishOrder(a, status) ==
    /\ order' = [order EXCEPT ![actor[a].order].status = status,
                              ![actor[a].order].expired = FALSE]
    /\ NextUnit(a)
    /\ UNCHANGED <<store, account, lost, seen, faults>>

Succeed(a) == At(a, "finish") /\ FinishOrder(a, "success")

Fail(a) == At(a, "fail") /\ FinishOrder(a, "failed")

-----------------------------------------------------------------------------
(* settle_marketplace_orders *)

listPendingMarketplaceOrders ==
    /\ At(Settler, "idle")
    /\ seen' = [o \in Orders |->
           IF o \in Pending
           THEN [id |-> order[o].ext, expired |-> order[o].expired, todo |-> TRUE]
           ELSE Unseen]
    /\ Goto(Settler, "settle")
    /\ UNCHANGED <<order, store, account, lost, faults>>

Todo == {o \in Orders : seen[o].todo}

\* Mutant: the ttl of a row is looked at only after the store was asked.
NamelessOutcomeNeverExpires(o) == "settle"

\* A row without the store's id can only expire.
NamelessOutcome(o) == IF seen[o].expired THEN "fail" ELSE "settle"

\* settleOne up to its first request, with the id of the row that was read.
SettleOne ==
    /\ At(Settler, "settle")
    /\ \E o \in Todo :
          /\ \A p \in Todo : o <= p
          /\ seen' = [seen EXCEPT ![o] = Unseen]
          /\ actor' = [actor EXCEPT ![Settler] = [IdleActor EXCEPT
                 !.order = o,
                 !.pc = IF ~seen[o].id THEN NamelessOutcome(o)
                        ELSE IF seen[o].expired THEN "peekLate" ELSE "peek"]]
    /\ UNCHANGED <<order, store, account, lost, faults>>

SettleEnds ==
    /\ At(Settler, "settle")
    /\ Todo = {}
    /\ actor' = [actor EXCEPT ![Settler] = IdleActor]
    /\ UNCHANGED <<order, store, account, lost, seen, faults>>

\* peekMarketplaceDelivery answers, and settleOne acts on the answer.
PeekAnswered ==
    LET o == actor[Settler].order
    IN  /\ actor[Settler].pc \in {"peek", "peekLate"}
        /\ \/ Delivered(o) /\ Goto(Settler, "persist")
           \/ store[o] = "failed" /\ Goto(Settler, "fail")
           \/ /\ store[o] = "in_process"
              /\ Goto(Settler, IF At(Settler, "peekLate") THEN "fail" ELSE "park")
        /\ UNCHANGED <<order, store, account, lost, seen, faults>>

\* A request of the peek fails: the row is left for the next tick, expired
\* or not.
PeekThrows ==
    /\ actor[Settler].pc \in {"peek", "peekLate"}
    /\ NextUnit(Settler)
    /\ UNCHANGED <<order, store, account, lost, seen, faults>>

-----------------------------------------------------------------------------
(* The store, the clock, the pool and the process *)

StoreMoves(o) ==
    /\ store[o] = "in_process"
    /\ \E s \in {"ready", "failed"} : store' = [store EXCEPT ![o] = s]
    /\ UNCHANGED <<order, account, lost, actor, seen, faults>>

\* marketplace_pending_ttl_ms is longer than any buyer's own wait.
Expire(o) ==
    /\ o \in Pending
    /\ ~order[o].expired
    /\ ~(actor[Buyer].order = o /\ actor[Buyer].pc \in {"create", "setid", "wait"})
    /\ order' = [order EXCEPT ![o].expired = TRUE]
    /\ UNCHANGED <<store, account, lost, actor, seen, faults>>

\* disableResource on a bought account or on its key.
Lose(o) ==
    /\ order[o].status = "success"
    /\ o \notin lost
    /\ faults < MaxFaults
    /\ lost' = lost \cup {o}
    /\ faults' = faults + 1
    /\ UNCHANGED <<order, store, account, actor, seen>>

\* The worker dies with its two jobs.
Crash ==
    /\ faults < MaxFaults
    /\ \E a \in Actors : ~At(a, "idle")
    /\ actor' = [a \in Actors |-> IdleActor]
    /\ seen' = [o \in Orders |-> Unseen]
    /\ faults' = faults + 1
    /\ UNCHANGED <<order, store, account, lost>>

-----------------------------------------------------------------------------

BuyerStep ==
    \/ ReplenishBuys \/ InsertOrder
    \/ CreateDarkOrder \/ SetExternalId \/ WaitDelivery

FulfilStep(a) ==
    \/ MarkPending(a) \/ PersistBoughtAccount(a) \/ ProvisionOrder(a)
    \/ Succeed(a) \/ Fail(a)

SettleStep == listPendingMarketplaceOrders \/ SettleOne \/ SettleEnds

Next ==
    \/ \E k \in Kinds : ReplenishCounts(k)
    \/ BuyerStep
    \/ \E a \in Actors : FulfilStep(a)
    \/ SettleStep \/ PeekAnswered \/ PeekThrows
    \/ \E o \in Orders : StoreMoves(o) \/ Expire(o) \/ Lose(o)
    \/ Crash

(* The settle job runs again and again and a run that awaits goes on; the  *)
(* clock passes the ttl; a request that is repeated for ever is answered   *)
(* in the end.                                                             *)
Fairness ==
    /\ WF_vars(SettleStep)
    /\ \A a \in Actors : WF_vars(FulfilStep(a))
    /\ SF_vars(PeekAnswered)
    /\ WF_vars(CreateDarkOrder \/ SetExternalId \/ WaitDelivery)
    /\ \A o \in Orders : WF_vars(Expire(o))

Spec == Init /\ [][Next]_vars /\ Fairness

-----------------------------------------------------------------------------
(* Properties *)

\* Types.
TypeOK ==
    /\ order \in [Orders -> [status : {"none", "pending", "success", "failed"},
                             kind : Kinds \cup {"none"},
                             ext : BOOLEAN, expired : BOOLEAN]]
    /\ store \in [Orders -> {"none", "in_process", "ready", "failed"}]
    /\ account \in [Orders -> {"none", "account", "guarded", "key"}]
    /\ lost \in SUBSET Orders
    /\ actor \in [Actors -> [pc : {"idle", "counted", "insert", "create", "setid", "wait",
                                   "park", "persist",
                                   "provision", "finish", "fail", "settle",
                                   "peek", "peekLate"},
                             order : Orders \cup {0},
                             kind : Kinds \cup {"none"},
                             left : Nat]]
    /\ seen \in [Orders -> [id : BOOLEAN, expired : BOOLEAN, todo : BOOLEAN]]
    /\ faults \in 0..MaxFaults

\* What the replenish job is still going to insert.
Intended(k) ==
    LET me == actor[Buyer]
    IN  IF me.kind # k \/ me.pc = "counted" THEN 0
        ELSE IF me.pc = "insert" THEN me.left ELSE me.left - 1

\* Whatever crashes, settles or was counted too early, the orders that the
\* replenish job has under way and is going to place never exceed what the
\* settings desire: the money at risk is bounded.
UnderWayWithinDesired ==
    \A k \in Kinds :
        countPendingOrders(k) + Intended(k) <= Desired(k)

\* The orders whose goods the store handed over and whose account was saved.
Fulfilled ==
    {o \in Orders : /\ store[o] = "ready"
                    /\ account[o] = IF order[o].kind = "gc" THEN "account" ELSE "key"}

Life == INSTANCE OrderLife
        WITH life <- [o \in Orders |-> order[o].status], delivered <- Fulfilled

\* The rows of marketplace_orders keep the promise of an order, although two
\* runs write them without a look at the status they overwrite: a success has
\* its account, a settled row does not become pending again and so does not
\* hold a place of the pool, and every pending row is settled by its buyer or
\* by the settle job, at the ttl at the latest.
ImplementsOrderLife == Life!Spec
=============================================================================
