------------------------- MODULE MarketplaceProofs -------------------------
(***************************************************************************)
(* Safety of Marketplace for every desired size of the two pools, every    *)
(* marketplace_buy_max, every number of rows and every number of crashes.  *)
(*                                                                         *)
(* UnderWayWithinDesired is inductive once the units left are counted      *)
(* right (Counting).  That a success has its account needs what a run has  *)
(* learnt of its order and still knows when it writes the verdict (RunOK), *)
(* although the other run may be at the same row.                          *)
(***************************************************************************)
EXTENDS Marketplace, FiniteSetTheorems, TLAPS

Placed(o) == order[o].status # "none"

\* Where a run of either job has a row in its hand.
Holding == {"create", "setid", "wait", "park", "persist", "provision",
            "finish", "fail", "peek", "peekLate"}

\* Where it has the store's word that the goods are there.
AfterDelivery == {"persist", "provision", "finish"}

\* A row that is not placed has left no trace, and one that is has its kind;
\* a gc order never has more than an account; the settle job read what was
\* placed.
RowOK(o) ==
    /\ ~Placed(o) => order[o] = NoOrder /\ store[o] = "none" /\ account[o] = "none"
    /\ Placed(o) => order[o].kind # "none"
    /\ order[o].kind = "gc" => account[o] \in {"none", "account"}
    /\ seen[o].todo => Placed(o)

\* What a run knows of the row in its hand, and what the other run cannot
\* take from it: only the buyer orders at the store, and once for a row; goods
\* that are ready stay so; what was saved of the account is not unsaved.
RunOK(a) ==
    LET me == actor[a]
    IN  /\ me.pc \in Holding => me.order \in Orders /\ Placed(me.order)
        /\ me.pc = "create" => a = Buyer /\ store[me.order] = "none"
        /\ me.pc \in AfterDelivery => store[me.order] = "ready"
        /\ me.pc = "provision" => account[me.order] # "none"
        /\ me.pc = "finish" => me.order \in Fulfilled

\* The buyer has a unit to place or in his hand until he is done.
Counting ==
    LET me == actor[Buyer]
    IN  /\ me.pc = "idle" <=> me.kind = "none"
        /\ me.pc \notin {"idle", "counted"} => me.left >= 1
        /\ me.pc \notin {"settle", "peek", "peekLate"}

RowsOK == \A o \in Orders : RowOK(o)

RunsOK == \A a \in Actors : RunOK(a)

IInv == TypeOK /\ RowsOK /\ RunsOK /\ Counting /\ UnderWayWithinDesired

-----------------------------------------------------------------------------
(* What a step writes *)

RowType == [status : {"none", "pending", "success", "failed"},
            kind : Kinds \cup {"none"}, ext : BOOLEAN, expired : BOOLEAN]

Pcs == {"idle", "counted", "insert", "create", "setid", "wait", "park",
        "persist", "provision", "finish", "fail", "settle", "peek", "peekLate"}

ActorType == [pc : Pcs, order : Orders \cup {0}, kind : Kinds \cup {"none"}, left : Nat]

\* Run a is at pc now, at the same unit and row, and the other run as it was.
Moved(a, pc) ==
    /\ actor' \in [Actors -> ActorType]
    /\ actor'[a].pc = pc
    /\ actor'[a].order = actor[a].order
    /\ actor'[a].kind = actor[a].kind
    /\ actor'[a].left = actor[a].left
    /\ \A b \in Actors : b # a => actor'[b] = actor[b]

LEMMA GotoMoves ==
    ASSUME TypeOK, NEW a \in Actors, NEW pc \in Pcs, Goto(a, pc)
    PROVE  Moved(a, pc)
  <1> DEFINE me == [actor[a] EXCEPT !.pc = pc]
  <1>1. actor \in [Actors -> ActorType] /\ actor[a] \in ActorType
    BY DEF TypeOK, ActorType, Pcs
  <1>2. /\ me \in ActorType
        /\ me.pc = pc /\ me.order = actor[a].order
        /\ me.kind = actor[a].kind /\ me.left = actor[a].left
    BY <1>1 DEF ActorType
  <1>3. actor' = [actor EXCEPT ![a] = me]
    BY DEF Goto
  <1> HIDE DEF me
  <1> QED
    BY <1>1, <1>2, <1>3 DEF Moved

\* Run a has let its row go, and no unit of the buyer is lost or won.
Released(a) ==
    /\ actor' \in [Actors -> ActorType]
    /\ \A b \in Actors : b # a => actor'[b] = actor[b]
    /\ a = Settler => actor'[a].pc = "settle"
    /\ a = Buyer =>
           \/ /\ actor'[a].pc = "insert"
              /\ actor'[a].kind = actor[a].kind
              /\ actor'[a].left = actor[a].left - 1 /\ actor[a].left > 1
           \/ /\ actor'[a] = IdleActor
              /\ actor[a].left <= 1

LEMMA NextUnitTyped ==
    ASSUME NEW k \in Kinds \cup {"none"}, NEW n \in Nat
    PROVE  LET more == [IdleActor EXCEPT !.pc = "insert", !.kind = k, !.left = n]
           IN  /\ more \in ActorType
               /\ more.pc = "insert" /\ more.kind = k /\ more.left = n
  BY DEF IdleActor, ActorType, Pcs

LEMMA NextUnitReleases ==
    ASSUME TypeOK, NEW a \in Actors, NextUnit(a)
    PROVE  Released(a)
  <1>1. actor \in [Actors -> ActorType] /\ actor[a] \in ActorType
    BY DEF TypeOK, ActorType, Pcs
  <1>2. Buyer # Settler /\ IdleActor \in ActorType
    BY DEF Buyer, Settler, IdleActor, ActorType, Pcs
  <1> DEFINE more == [IdleActor EXCEPT !.pc = "insert", !.kind = actor[a].kind,
                                       !.left = actor[a].left - 1]
             rows == [IdleActor EXCEPT !.pc = "settle"]
  <1>3. rows \in ActorType /\ rows.pc = "settle"
    BY DEF IdleActor, ActorType, Pcs
  <1>4. ASSUME actor[a].left > 1
        PROVE  /\ more \in ActorType /\ more.pc = "insert"
               /\ more.kind = actor[a].kind /\ more.left = actor[a].left - 1
    <2>1. actor[a].kind \in Kinds \cup {"none"} /\ actor[a].left - 1 \in Nat
      BY <1>1, <1>4 DEF ActorType
    <2> QED
      BY <2>1, NextUnitTyped
  <1>5. actor' = [actor EXCEPT ![a] = IF a = Settler THEN rows
                                      ELSE IF actor[a].left > 1 THEN more ELSE IdleActor]
    BY DEF NextUnit
  <1>6. actor[a].left \in Nat
    BY <1>1 DEF ActorType
  <1> HIDE DEF more, rows
  <1> QED
    BY <1>1, <1>2, <1>3, <1>4, <1>5, <1>6 DEF Released

\* The rows that count for a pool are finite in number, and fewer rows are
\* not more.
LEMMA Counted ==
    ASSUME MarketAssumption, NEW k
    PROVE  countPendingOrders(k) \in Nat
  <1> DEFINE S == {o \in Pending : order[o].kind = k}
  <1>1. IsFiniteSet(Orders)
    BY FS_Interval DEF Orders, MarketAssumption
  <1>2. S \in SUBSET Orders
    BY DEF Pending
  <1>3. IsFiniteSet(S)
    BY <1>1, <1>2, FS_Subset
  <1> QED
    BY <1>3, FS_CardinalityType DEF countPendingOrders

-----------------------------------------------------------------------------
(* What every step but the insert of a row keeps *)

\* Rows keep their kind, and none of them becomes pending.
RowsKept ==
    /\ order' \in [Orders -> RowType]
    /\ \A o \in Orders :
           /\ order'[o].kind = order[o].kind
           /\ order'[o].status = "pending" => order[o].status = "pending"
           /\ Placed(o) => order'[o].status # "none"
           /\ ~Placed(o) => order'[o] = order[o]

\* The goods stay ready, and the accounts of placed rows what they are.
GoodsKept ==
    /\ store' \in [Orders -> {"none", "in_process", "ready", "failed"}]
    /\ account' \in [Orders -> {"none", "account", "guarded", "key"}]
    /\ \A o \in Orders :
           /\ store[o] = "ready" => store'[o] = "ready"
           /\ ~Placed(o) => store'[o] = store[o] /\ account'[o] = account[o]
           /\ account[o] # "none" => account'[o] # "none"
           /\ order[o].kind = "gc" => account'[o] \in {"none", "account"}
           /\ o \in Fulfilled => account'[o] = account[o]

RestTyped ==
    /\ lost' \in SUBSET Orders
    /\ seen' \in [Orders -> [id : BOOLEAN, expired : BOOLEAN, todo : BOOLEAN]]
    /\ faults' \in 0..MaxFaults
    /\ \A o \in Orders : seen'[o].todo => Placed(o)

Kept == RowsKept /\ GoodsKept /\ RestTyped

\* Nothing is ordered at the store.
NoneOrdered == \A o \in Orders : store[o] = "none" => store'[o] = "none"

LEMMA UnchangedKept ==
    ASSUME TypeOK, RowsOK
    PROVE  /\ UNCHANGED order => RowsKept
           /\ UNCHANGED <<store, account>> => GoodsKept
           /\ UNCHANGED store => NoneOrdered
           /\ UNCHANGED <<lost, seen, faults>> => RestTyped
  <1>1. UNCHANGED order => RowsKept
    BY DEF TypeOK, RowsKept, RowType, Placed
  <1>2. UNCHANGED <<store, account>> => GoodsKept
    BY DEF TypeOK, RowsOK, RowOK, GoodsKept
  <1>3. UNCHANGED store => NoneOrdered
    BY DEF NoneOrdered
  <1>4. UNCHANGED <<lost, seen, faults>> => RestTyped
    BY DEF TypeOK, RowsOK, RowOK, RestTyped
  <1> QED
    BY <1>1, <1>2, <1>3, <1>4

\* One row changes, and neither its kind nor, unless to a verdict, its status.
LEMMA RowChanged ==
    ASSUME order \in [Orders -> RowType], NEW o \in Orders, Placed(o),
           NEW row \in RowType, order' = [order EXCEPT ![o] = row],
           row.kind = order[o].kind, row.status # "none",
           row.status = "pending" => order[o].status = "pending"
    PROVE  RowsKept
  BY DEF RowsKept, Placed

LEMMA RowSettled ==
    ASSUME NEW r \in RowType, NEW status \in {"success", "failed"}
    PROVE  LET row == [r EXCEPT !.status = status, !.expired = FALSE]
           IN  row \in RowType /\ row.kind = r.kind /\ row.status = status
  BY DEF RowType

LEMMA RowsStayOK ==
    ASSUME TypeOK, RowsOK, Kept
    PROVE  RowsOK'
  BY DEF TypeOK, RowsOK, RowOK, Placed, Kept, RowsKept, GoodsKept, RestTyped, NoOrder

\* Fulfilled only grows.
LEMMA FulfilledStays ==
    ASSUME Kept, NEW o \in Fulfilled
    PROVE  o \in Fulfilled'
  BY DEF Kept, RowsKept, GoodsKept, Fulfilled

\* The run that does not move knows what it knew.
LEMMA OtherRunOK ==
    ASSUME TypeOK, Kept, NEW b \in Actors, RunOK(b), actor'[b] = actor[b],
           b = Buyer => NoneOrdered
    PROVE  RunOK(b)'
  <1> DEFINE o == actor[b].order
  <1>1. CASE actor[b].pc \in Holding
    <2>1. o \in Orders /\ Placed(o) /\ Placed(o)'
      BY <1>1 DEF RunOK, Kept, RowsKept, Placed
    <2>2. actor[b].pc = "finish" => o \in Fulfilled'
      BY FulfilledStays DEF RunOK
    <2> QED
      BY <2>1, <2>2 DEF RunOK, Kept, GoodsKept, NoneOrdered, AfterDelivery
  <1>2. CASE actor[b].pc \notin Holding
    BY <1>2 DEF RunOK, Holding, AfterDelivery
  <1> QED
    BY <1>1, <1>2

-----------------------------------------------------------------------------
(* What is pending and what is going to be placed *)

LEMMA FewerPending ==
    ASSUME MarketAssumption, RowsKept, NEW k
    PROVE  /\ countPendingOrders(k) \in Nat
           /\ countPendingOrders(k)' \in Nat
           /\ countPendingOrders(k)' <= countPendingOrders(k)
  <1> DEFINE S == {o \in Pending : order[o].kind = k}
             T == {o \in Orders : order'[o].status = "pending" /\ order'[o].kind = k}
  <1>1. IsFiniteSet(Orders)
    BY FS_Interval DEF Orders, MarketAssumption
  <1>2. IsFiniteSet(S) /\ countPendingOrders(k) = Cardinality(S)
    BY <1>1, FS_Subset DEF Pending, countPendingOrders
  <1>3. T \in SUBSET S
    BY DEF RowsKept, Pending
  <1>4. T = {o \in Pending : order[o].kind = k}'
    BY DEF Pending
  <1>5. countPendingOrders(k)' = Cardinality(T)
    BY <1>4 DEF countPendingOrders
  <1> QED
    BY <1>2, <1>3, <1>5, FS_Subset, FS_CardinalityType

LEMMA KindIsNamed == ASSUME MarketAssumption PROVE "none" \notin Kinds
  BY DEF MarketAssumption

LEMMA DesiredIsNat ==
    ASSUME MarketAssumption, NEW k
    PROVE  Desired(k) \in Nat
  BY DEF MarketAssumption, Desired

\* What the buyer is going to place is not negative.
LEMMA IntendedIsNat ==
    ASSUME MarketAssumption, TypeOK, Counting, NEW k \in Kinds
    PROVE  Intended(k) \in Nat
  <1>1. actor[Buyer].left \in Nat /\ actor[Buyer].pc \in Pcs
    BY DEF TypeOK, Buyer, Actors, Pcs
  <1>2. actor[Buyer].pc = "idle" => actor[Buyer].kind # k
    BY KindIsNamed DEF Counting
  <1> QED
    BY <1>1, <1>2 DEF Intended, Counting

\* As long as nothing becomes pending and the buyer intends no more.
LEMMA CountStays ==
    ASSUME MarketAssumption, RowsKept, UnderWayWithinDesired,
           \A k \in Kinds : /\ Intended(k) \in Int /\ Intended(k)' \in Int
                            /\ Intended(k)' <= Intended(k)
    PROVE  UnderWayWithinDesired'
  <1> SUFFICES ASSUME NEW k \in Kinds
               PROVE  countPendingOrders(k)' + Intended(k)' <= Desired(k)
    BY DEF UnderWayWithinDesired, Desired
  <1>1. countPendingOrders(k) + Intended(k) <= Desired(k)
    BY DEF UnderWayWithinDesired
  <1> QED
    BY <1>1, FewerPending, DesiredIsNat

\* Where the buyer has a unit in his hand and a row for it.
InHand == {"create", "setid", "wait", "park", "persist", "provision", "finish", "fail"}

\* The buyer waits, is one step further with his unit, or is done with it.
BuyerGoesOn ==
    \/ actor'[Buyer] = actor[Buyer]
    \/ actor[Buyer].pc \in InHand /\ \E pc \in InHand : Moved(Buyer, pc)
    \/ actor[Buyer].pc \in InHand /\ Released(Buyer)
    \/ actor'[Buyer] = IdleActor

LEMMA BuyerCounts ==
    ASSUME MarketAssumption, TypeOK, TypeOK', RowsKept, Counting, UnderWayWithinDesired,
           BuyerGoesOn
    PROVE  Counting' /\ UnderWayWithinDesired'
  <1> DEFINE me == actor[Buyer]
             then == actor'[Buyer]
  <1>0. BuyerGoesOn
    OBVIOUS
  <1>1. me \in ActorType /\ then \in ActorType
    BY DEF TypeOK, ActorType, Pcs, Buyer, Actors
  <1>2. \A k \in Kinds : Intended(k) \in Nat
    BY IntendedIsNat
  <1>3. /\ \A k \in Kinds : Intended(k)' \in Int /\ Intended(k)' <= Intended(k)
        /\ Counting'
    <2>1. CASE then = me
      <3>1. \A k \in Kinds : Intended(k)' = Intended(k)
        BY <2>1 DEF Intended
      <3>2. Counting'
        BY <2>1 DEF Counting
      <3> QED
        BY <1>2, <3>1, <3>2
    <2>2. CASE me.pc \in InHand /\ \E pc \in InHand : Moved(Buyer, pc)
      BY <1>1, <1>2, <2>2 DEF Intended, Counting, Moved, InHand
    <2>3. CASE me.pc \in InHand /\ Released(Buyer)
      BY <1>1, <1>2, <2>3, KindIsNamed DEF Intended, Counting, Released, InHand, IdleActor, ActorType
    <2>4. CASE then = IdleActor
      BY <1>1, <1>2, <2>4, KindIsNamed DEF Intended, Counting, IdleActor
    <2> QED
      BY <1>0, <2>1, <2>2, <2>3, <2>4 DEF BuyerGoesOn
  <1> QED
    BY <1>2, <1>3, CountStays

-----------------------------------------------------------------------------
(* One step at a time *)

\* A step of run a that keeps the rows leaves all but the buyer's units in
\* order, once a is right about its own row.
LEMMA RunsStayOK ==
    ASSUME TypeOK, RowsOK, RunsOK, Kept, NEW a \in Actors,
           actor' \in [Actors -> ActorType],
           \A b \in Actors : b # a => actor'[b] = actor[b],
           a # Buyer => NoneOrdered,
           RunOK(a)'
    PROVE  TypeOK' /\ RowsOK' /\ RunsOK'
  <1>1. TypeOK'
    BY DEF Kept, RowsKept, GoodsKept, RestTyped, TypeOK, RowType, ActorType, Pcs
  <1>2. RowsOK'
    BY RowsStayOK
  <1>3. RunsOK'
    <2> SUFFICES ASSUME NEW b \in Actors, b # a
                 PROVE  RunOK(b)'
      BY DEF RunsOK
    <2>1. a # Buyer \/ b # Buyer
      OBVIOUS
    <2>2. b = Buyer => NoneOrdered
      BY <2>1
    <2> QED
      BY <2>2, OtherRunOK DEF RunsOK
  <1> QED
    BY <1>1, <1>2, <1>3

LEMMA StepOfRun ==
    ASSUME MarketAssumption, IInv, Kept, NEW a \in Actors,
           actor' \in [Actors -> ActorType],
           \A b \in Actors : b # a => actor'[b] = actor[b],
           a # Buyer => NoneOrdered,
           RunOK(a)',
           BuyerGoesOn
    PROVE  IInv'
  <1>1. TypeOK' /\ RowsOK' /\ RunsOK'
    BY RunsStayOK DEF IInv
  <1>2. Counting' /\ UnderWayWithinDesired'
    BY <1>1, BuyerCounts DEF IInv, Kept
  <1> QED
    BY <1>1, <1>2 DEF IInv

\* A run that lets its row go knows nothing of any.
LEMMA ReleasedStep ==
    ASSUME MarketAssumption, IInv, Kept, NoneOrdered, NEW a \in Actors, Released(a),
           a = Buyer => actor[a].pc \in InHand
    PROVE  IInv'
  <1>1. actor'[a].pc \in {"settle", "insert", "idle"}
    BY DEF Released, Actors, IdleActor
  <1>2. RunOK(a)'
    BY <1>1 DEF RunOK, Holding, AfterDelivery
  <1>3. BuyerGoesOn
    BY DEF BuyerGoesOn, Released, Buyer, Actors
  <1> QED
    BY <1>2, <1>3, StepOfRun DEF Released

\* A step of the store, the clock or the pool.
LEMMA StepOutside ==
    ASSUME MarketAssumption, IInv, Kept, NoneOrdered, UNCHANGED actor
    PROVE  IInv'
  <1>1. Settler \in Actors /\ Settler # Buyer
    BY DEF Settler, Buyer, Actors
  <1>2. RunOK(Settler)'
    BY <1>1, OtherRunOK DEF IInv, RunsOK
  <1>3. actor' \in [Actors -> ActorType]
    BY DEF IInv, TypeOK, ActorType, Pcs
  <1> QED
    BY <1>1, <1>2, <1>3, StepOfRun DEF BuyerGoesOn

LEMMA StoreMovesKeeps ==
    ASSUME MarketAssumption, IInv, NEW o \in Orders, StoreMoves(o)
    PROVE  IInv'
  <1>1. /\ store[o] = "in_process"
        /\ \E s \in {"ready", "failed"} : store' = [store EXCEPT ![o] = s]
        /\ UNCHANGED <<order, account, lost, actor, seen, faults>>
    BY DEF StoreMoves
  <1>2. RowsKept /\ RestTyped
    BY <1>1, UnchangedKept DEF IInv
  <1>3. GoodsKept
    BY <1>1 DEF IInv, TypeOK, RowsOK, RowOK, GoodsKept
  <1>4. NoneOrdered
    BY <1>1 DEF IInv, TypeOK, NoneOrdered
  <1> QED
    BY <1>1, <1>2, <1>3, <1>4, StepOutside DEF Kept

LEMMA ExpireKeeps ==
    ASSUME MarketAssumption, IInv, NEW o \in Orders, Expire(o)
    PROVE  IInv'
  <1>1. /\ order[o].status = "pending"
        /\ order' = [order EXCEPT ![o] = [order[o] EXCEPT !.expired = TRUE]]
        /\ UNCHANGED <<store, account, lost, actor, seen, faults>>
    BY DEF Expire, Pending
  <1>2. order \in [Orders -> RowType]
    BY DEF IInv, TypeOK, RowType
  <1> DEFINE row == [order[o] EXCEPT !.expired = TRUE]
  <1>3. RowsKept
    <2>1. row \in RowType /\ row.kind = order[o].kind /\ row.status = "pending"
      BY <1>1, <1>2 DEF RowType
    <2>2. order' = [order EXCEPT ![o] = row] /\ Placed(o)
      BY <1>1 DEF Placed
    <2> HIDE DEF row
    <2> QED
      BY <1>1, <1>2, <2>1, <2>2, RowChanged
  <1>4. GoodsKept /\ RestTyped /\ NoneOrdered
    BY <1>1, UnchangedKept DEF IInv
  <1> QED
    BY <1>1, <1>3, <1>4, StepOutside DEF Kept

LEMMA LoseKeeps ==
    ASSUME MarketAssumption, IInv, NEW o \in Orders, Lose(o)
    PROVE  IInv'
  <1>1. RowsKept /\ GoodsKept /\ NoneOrdered
    BY UnchangedKept DEF IInv, Lose
  <1>2. RestTyped
    BY DEF Lose, IInv, TypeOK, RowsOK, RowOK, RestTyped, MarketAssumption
  <1> QED
    BY <1>1, <1>2, StepOutside DEF Kept, Lose

\* A crash leaves the rows and takes the runs.
LEMMA CrashKeeps ==
    ASSUME MarketAssumption, IInv, Crash
    PROVE  IInv'
  <1>1. RowsKept /\ GoodsKept
    BY UnchangedKept DEF IInv, Crash
  <1>2. RestTyped
    BY DEF Crash, Unseen, IInv, TypeOK, RestTyped, MarketAssumption
  <1>3. \A a \in Actors : actor'[a] = IdleActor /\ RunOK(a)'
    BY DEF Crash, RunOK, IdleActor, Holding, AfterDelivery
  <1>4. TypeOK'
    BY <1>1, <1>2 DEF Crash, RowsKept, GoodsKept, RestTyped, TypeOK, RowType, IdleActor
  <1>5. RowsOK'
    BY <1>1, <1>2, RowsStayOK DEF IInv, Kept
  <1>6. Counting' /\ UnderWayWithinDesired'
    BY <1>1, <1>3, <1>4, BuyerCounts DEF IInv, BuyerGoesOn, Buyer, Actors
  <1> QED
    BY <1>3, <1>4, <1>5, <1>6 DEF IInv, RunsOK

\* The run of a is a step further and has changed neither row nor goods.
LEMMA OnlyMoves ==
    ASSUME MarketAssumption, IInv, NEW a \in Actors, NEW pc \in Pcs,
           UNCHANGED <<order, store, account, lost, faults>>,
           RestTyped, Moved(a, pc), RunOK(a)',
           a = Buyer => actor[a].pc \in InHand /\ pc \in InHand
    PROVE  IInv'
  <1>1. RowsKept /\ GoodsKept /\ NoneOrdered
    BY UnchangedKept DEF IInv
  <1>2. BuyerGoesOn
    BY DEF BuyerGoesOn, Moved, Buyer, Actors
  <1> QED
    BY <1>1, <1>2, StepOfRun DEF Kept, Moved

LEMMA MarkPendingKeeps ==
    ASSUME MarketAssumption, IInv, NEW a \in Actors, MarkPending(a)
    PROVE  IInv'
  <1>1. Kept /\ NoneOrdered
    BY UnchangedKept DEF IInv, MarkPending, Kept
  <1>2. Released(a)
    BY NextUnitReleases DEF IInv, MarkPending
  <1>3. actor[a].pc \in InHand
    BY DEF MarkPending, At, InHand
  <1> QED
    BY <1>1, <1>2, <1>3, ReleasedStep

LEMMA PeekThrowsKeeps ==
    ASSUME MarketAssumption, IInv, PeekThrows
    PROVE  IInv'
  <1>1. Kept /\ NoneOrdered
    BY UnchangedKept DEF IInv, PeekThrows, Kept
  <1>2. Released(Settler) /\ Settler \in Actors /\ Settler # Buyer
    BY NextUnitReleases DEF IInv, PeekThrows, Settler, Buyer, Actors
  <1> QED
    BY <1>1, <1>2, ReleasedStep

LEMMA FinishOrderKeeps ==
    ASSUME MarketAssumption, IInv, NEW a \in Actors,
           NEW status \in {"success", "failed"},
           actor[a].pc \in {"finish", "fail"}, FinishOrder(a, status)
    PROVE  IInv'
  <1> DEFINE o == actor[a].order
             row == [order[o] EXCEPT !.status = status, !.expired = FALSE]
  <1>1. o \in Orders /\ Placed(o)
    BY DEF IInv, RunsOK, RunOK, Holding
  <1>2. order \in [Orders -> RowType]
    BY DEF IInv, TypeOK, RowType
  <1>3. order' = [order EXCEPT ![o] = row]
    BY DEF FinishOrder
  <1>4. row \in RowType /\ row.kind = order[o].kind /\ row.status = status
    <2>1. order[o] \in RowType
      BY <1>1, <1>2
    <2> HIDE DEF o
    <2> QED
      BY <2>1, RowSettled
  <1>5. RowsKept
    <2> HIDE DEF row, o
    <2> QED
      BY <1>1, <1>2, <1>3, <1>4, RowChanged
  <1>6. Kept /\ NoneOrdered
    BY <1>5, UnchangedKept DEF IInv, FinishOrder, Kept
  <1>7. Released(a)
    BY NextUnitReleases DEF IInv, FinishOrder
  <1> QED
    BY <1>6, <1>7, ReleasedStep DEF InHand

\* The run of a stays at its row and at its unit.
LEMMA StepAtRow ==
    ASSUME MarketAssumption, IInv, Kept, NoneOrdered, NEW a \in Actors,
           \/ UNCHANGED actor
           \/ \E pc \in InHand : Moved(a, pc) /\ RunOK(a)',
           actor[a].pc \in InHand \cup {"peek", "peekLate"},
           a = Buyer => actor[a].pc \in InHand
    PROVE  IInv'
  <1>1. CASE UNCHANGED actor
    BY <1>1, StepOutside
  <1>2. CASE \E pc \in InHand : Moved(a, pc) /\ RunOK(a)'
    <2>1. BuyerGoesOn
      BY <1>2 DEF BuyerGoesOn, Moved, Buyer, Actors
    <2> QED
      BY <1>2, <2>1, StepOfRun DEF Moved
  <1> QED
    BY <1>1, <1>2

LEMMA SetExternalIdKeeps ==
    ASSUME MarketAssumption, IInv, SetExternalId
    PROVE  IInv'
  <1> DEFINE o == actor[Buyer].order
             row == [order[o] EXCEPT !.ext = TRUE]
  <1>1. Buyer \in Actors /\ actor[Buyer].pc = "setid"
    BY DEF SetExternalId, At, Buyer, Actors
  <1>2. o \in Orders /\ Placed(o)
    BY <1>1 DEF IInv, RunsOK, RunOK, Holding
  <1>3. order \in [Orders -> RowType]
    BY DEF IInv, TypeOK, RowType
  <1>4. order' = [order EXCEPT ![o] = row]
    BY DEF SetExternalId
  <1>5. /\ row \in RowType /\ row.kind = order[o].kind /\ row.status = order[o].status
        /\ row.status # "none"
    BY <1>2, <1>3 DEF RowType, Placed
  <1>6. RowsKept
    <2> HIDE DEF row, o
    <2> QED
      BY <1>2, <1>3, <1>4, <1>5, RowChanged
  <1>7. Kept /\ NoneOrdered
    BY <1>6, UnchangedKept DEF IInv, SetExternalId, Kept
  <1>8. Moved(Buyer, "wait")
    BY <1>1, GotoMoves DEF IInv, SetExternalId, Pcs
  <1>9. RunOK(Buyer)'
    BY <1>2, <1>6, <1>8 DEF Moved, RunOK, RowsKept, Placed, AfterDelivery
  <1> QED
    BY <1>1, <1>7, <1>8, <1>9, StepAtRow DEF InHand

LEMMA WaitDeliveryKeeps ==
    ASSUME MarketAssumption, IInv, WaitDelivery
    PROVE  IInv'
  <1>1. Buyer \in Actors /\ actor[Buyer].pc = "wait"
    BY DEF WaitDelivery, At, Buyer, Actors
  <1>2. actor[Buyer].order \in Orders /\ Placed(actor[Buyer].order)
    BY <1>1 DEF IInv, RunsOK, RunOK, Holding
  <1>3. Kept /\ NoneOrdered
    BY UnchangedKept DEF IInv, WaitDelivery, Kept
  <1>4. PICK pc \in {"persist", "fail", "park"} :
            Goto(Buyer, pc) /\ (pc = "persist" => store[actor[Buyer].order] = "ready")
    BY DEF WaitDelivery, Delivered
  <1>5. Moved(Buyer, pc)
    BY <1>1, <1>4, GotoMoves DEF IInv, Pcs
  <1>6. RunOK(Buyer)'
    BY <1>2, <1>4, <1>5 DEF Moved, RunOK, Placed, AfterDelivery, WaitDelivery
  <1> QED
    BY <1>1, <1>3, <1>5, <1>6, StepAtRow DEF InHand

LEMMA PeekAnsweredKeeps ==
    ASSUME MarketAssumption, IInv, PeekAnswered
    PROVE  IInv'
  <1>1. Settler \in Actors /\ Settler # Buyer /\ actor[Settler].pc \in {"peek", "peekLate"}
    BY DEF PeekAnswered, Settler, Buyer, Actors
  <1>2. actor[Settler].order \in Orders /\ Placed(actor[Settler].order)
    BY <1>1 DEF IInv, RunsOK, RunOK, Holding
  <1>3. Kept /\ NoneOrdered
    BY UnchangedKept DEF IInv, PeekAnswered, Kept
  <1>4. PICK pc \in {"persist", "fail", "park"} :
            Goto(Settler, pc) /\ (pc = "persist" => store[actor[Settler].order] = "ready")
    BY DEF PeekAnswered, Delivered
  <1>5. Moved(Settler, pc)
    BY <1>1, <1>4, GotoMoves DEF IInv, Pcs
  <1>6. RunOK(Settler)'
    BY <1>2, <1>4, <1>5 DEF Moved, RunOK, Placed, AfterDelivery, PeekAnswered
  <1> QED
    BY <1>1, <1>3, <1>5, <1>6, StepAtRow DEF InHand

LEMMA PersistBoughtAccountKeeps ==
    ASSUME MarketAssumption, IInv, NEW a \in Actors, PersistBoughtAccount(a)
    PROVE  IInv'
  <1> DEFINE o == actor[a].order
  <1>1. actor[a].pc = "persist"
    BY DEF PersistBoughtAccount, At
  <1>2. o \in Orders /\ Placed(o) /\ store[o] = "ready"
    BY <1>1 DEF IInv, RunsOK, RunOK, Holding, AfterDelivery
  <1>3. RowsKept /\ NoneOrdered
    BY UnchangedKept DEF IInv, PersistBoughtAccount
  <1>4. GoodsKept
    BY <1>2 DEF IInv, TypeOK, RowsOK, RowOK, GoodsKept, PersistBoughtAccount, Fulfilled
  <1>5. RestTyped
    BY DEF IInv, TypeOK, RowsOK, RowOK, RestTyped, PersistBoughtAccount
  <1>6. PICK pc \in {"provision", "fail"} :
            Goto(a, pc) /\ (pc = "provision" => account'[o] # "none")
    BY <1>2 DEF PersistBoughtAccount, IInv, TypeOK
  <1>7. Moved(a, pc)
    BY <1>6, GotoMoves DEF IInv, Pcs
  <1>8. RunOK(a)'
    BY <1>2, <1>3, <1>4, <1>6, <1>7
    DEF Moved, RunOK, RowsKept, GoodsKept, Placed, AfterDelivery
  <1> QED
    BY <1>1, <1>3, <1>4, <1>5, <1>7, <1>8, StepAtRow DEF InHand, Kept

LEMMA ProvisionOrderKeeps ==
    ASSUME MarketAssumption, IInv, NEW a \in Actors, ProvisionOrder(a)
    PROVE  IInv'
  <1> DEFINE o == actor[a].order
  <1>1. actor[a].pc = "provision"
    BY DEF ProvisionOrder, At
  <1>2. o \in Orders /\ Placed(o) /\ store[o] = "ready" /\ account[o] # "none"
    BY <1>1 DEF IInv, RunsOK, RunOK, Holding, AfterDelivery
  <1>3. RowsKept /\ NoneOrdered /\ RestTyped
    BY UnchangedKept DEF IInv, ProvisionOrder
  <1>4. GoodsKept
    BY <1>2 DEF IInv, TypeOK, RowsOK, RowOK, GoodsKept, ProvisionOrder, Fulfilled
  <1>5. \/ UNCHANGED actor
        \/ \E pc \in {"finish", "fail"} :
               Goto(a, pc) /\ (pc = "finish" => o \in Fulfilled')
    <2>1. account \in [Orders -> {"none", "account", "guarded", "key"}]
      BY DEF IInv, TypeOK
    <2>2. order[o].kind = "gc" => account[o] = "account"
      BY <1>2 DEF IInv, RowsOK, RowOK
    <2> QED
      BY <1>2, <2>1, <2>2 DEF ProvisionOrder, Fulfilled
  <1>6. CASE UNCHANGED actor
    BY <1>1, <1>3, <1>4, <1>6, StepAtRow DEF InHand, Kept
  <1>7. CASE \E pc \in {"finish", "fail"} :
                Goto(a, pc) /\ (pc = "finish" => o \in Fulfilled')
    <2>1. PICK pc \in {"finish", "fail"} :
              Goto(a, pc) /\ (pc = "finish" => o \in Fulfilled')
      BY <1>7
    <2>2. Moved(a, pc)
      BY <2>1, GotoMoves DEF IInv, Pcs
    <2>3. RunOK(a)'
      BY <1>2, <1>3, <1>4, <2>1, <2>2
      DEF Moved, RunOK, RowsKept, GoodsKept, Placed, AfterDelivery
    <2> QED
      BY <1>1, <1>3, <1>4, <2>2, <2>3, StepAtRow DEF InHand, Kept
  <1> QED
    BY <1>5, <1>6, <1>7

LEMMA CreateDarkOrderKeeps ==
    ASSUME MarketAssumption, IInv, CreateDarkOrder
    PROVE  IInv'
  <1> DEFINE o == actor[Buyer].order
  <1>1. Buyer \in Actors /\ actor[Buyer].pc = "create"
    BY DEF CreateDarkOrder, At, Buyer, Actors
  <1>2. o \in Orders /\ Placed(o) /\ store[o] = "none"
    BY <1>1 DEF IInv, RunsOK, RunOK, Holding
  <1>3. RowsKept /\ RestTyped
    BY UnchangedKept DEF IInv, CreateDarkOrder
  <1>4. GoodsKept
    BY <1>2 DEF IInv, TypeOK, RowsOK, RowOK, GoodsKept, CreateDarkOrder
  <1>5. PICK pc \in {"setid", "fail", "park"} : Goto(Buyer, pc)
    BY DEF CreateDarkOrder
  <1>6. Moved(Buyer, pc)
    BY <1>1, <1>5, GotoMoves DEF IInv, Pcs
  <1>7. RunOK(Buyer)'
    BY <1>2, <1>3, <1>6 DEF Moved, RunOK, RowsKept, Placed, AfterDelivery
  <1>8. BuyerGoesOn
    BY <1>1, <1>6 DEF BuyerGoesOn, InHand
  <1> QED
    BY <1>1, <1>3, <1>4, <1>6, <1>7, <1>8, StepOfRun DEF Kept, Moved

-----------------------------------------------------------------------------
(* The settle job's list *)

LEMMA ListKeeps ==
    ASSUME MarketAssumption, IInv, listPendingMarketplaceOrders
    PROVE  IInv'
  <1>1. Settler \in Actors /\ Settler # Buyer
    BY DEF Settler, Buyer, Actors
  <1>2. RowsKept /\ GoodsKept /\ NoneOrdered
    BY UnchangedKept DEF IInv, listPendingMarketplaceOrders
  <1>3. RestTyped
    BY DEF IInv, TypeOK, RestTyped, listPendingMarketplaceOrders, Unseen, Pending, Placed
  <1>4. Moved(Settler, "settle")
    BY <1>1, GotoMoves DEF IInv, Pcs, listPendingMarketplaceOrders
  <1>5. RunOK(Settler)'
    BY <1>4 DEF Moved, RunOK, Holding, AfterDelivery
  <1> QED
    BY <1>1, <1>2, <1>3, <1>4, <1>5, StepOfRun DEF Kept, Moved, BuyerGoesOn, Actors

LEMMA SettleEndsKeeps ==
    ASSUME MarketAssumption, IInv, SettleEnds
    PROVE  IInv'
  <1>1. Settler \in Actors /\ Settler # Buyer /\ Buyer \in Actors
    BY DEF Settler, Buyer, Actors
  <1>2. Kept /\ NoneOrdered
    BY UnchangedKept DEF IInv, SettleEnds, Kept
  <1>3. /\ actor' \in [Actors -> ActorType]
        /\ actor'[Settler] = IdleActor
        /\ \A b \in Actors : b # Settler => actor'[b] = actor[b]
    <2>1. IdleActor \in ActorType /\ actor \in [Actors -> ActorType]
      BY DEF IdleActor, IInv, TypeOK, ActorType, Pcs
    <2> QED
      BY <1>1, <2>1 DEF SettleEnds
  <1>4. RunOK(Settler)'
    BY <1>3 DEF RunOK, IdleActor, Holding, AfterDelivery
  <1> QED
    BY <1>1, <1>2, <1>3, <1>4, StepOfRun DEF BuyerGoesOn

LEMMA SettleOneKeeps ==
    ASSUME MarketAssumption, IInv, SettleOne
    PROVE  IInv'
  <1>1. Settler \in Actors /\ Settler # Buyer /\ Buyer \in Actors
    BY DEF Settler, Buyer, Actors
  <1>2. PICK o \in Orders :
            /\ seen[o].todo
            /\ seen' = [seen EXCEPT ![o] = Unseen]
            /\ \E pc \in {"fail", "settle", "peekLate", "peek"} :
                   actor' = [actor EXCEPT ![Settler] =
                                [IdleActor EXCEPT !.order = o, !.pc = pc]]
    BY DEF SettleOne, Todo, NamelessOutcome
  <1>3. Placed(o)
    BY <1>2 DEF IInv, RowsOK, RowOK
  <1>4. RowsKept /\ GoodsKept /\ NoneOrdered
    BY UnchangedKept DEF IInv, SettleOne
  <1>5. RestTyped
    BY <1>2 DEF IInv, TypeOK, RowsOK, RowOK, RestTyped, SettleOne, Unseen
  <1>6. PICK pc \in {"fail", "settle", "peekLate", "peek"} :
            actor' = [actor EXCEPT ![Settler] = [IdleActor EXCEPT !.order = o, !.pc = pc]]
    BY <1>2
  <1> DEFINE me == [IdleActor EXCEPT !.order = o, !.pc = pc]
  <1>7. me \in ActorType /\ me.order = o /\ me.pc = pc
    BY DEF IdleActor, ActorType, Pcs
  <1>8. /\ actor' \in [Actors -> ActorType]
        /\ actor'[Settler] = me
        /\ \A b \in Actors : b # Settler => actor'[b] = actor[b]
    <2>1. actor \in [Actors -> ActorType]
      BY DEF IInv, TypeOK, ActorType, Pcs
    <2>2. actor' = [actor EXCEPT ![Settler] = me]
      BY <1>6
    <2> HIDE DEF me
    <2> QED
      BY <1>1, <1>7, <2>1, <2>2
  <1>9. RunOK(Settler)'
    <2> HIDE DEF me
    <2> QED
      BY <1>3, <1>4, <1>7, <1>8 DEF RunOK, RowsKept, Placed, AfterDelivery
  <1> QED
    BY <1>1, <1>4, <1>5, <1>8, <1>9, StepOfRun DEF Kept, BuyerGoesOn

-----------------------------------------------------------------------------
(* The buyer counts, decides and places *)

LEMMA ReplenishCountsKeeps ==
    ASSUME MarketAssumption, IInv, NEW k \in Kinds, ReplenishCounts(k)
    PROVE  IInv'
  <1> DEFINE me == [pc |-> "counted", order |-> 0, kind |-> k, left |-> Cardinality(Ready(k))]
  <1>1. Buyer \in Actors
    BY DEF Buyer, Actors
  <1>2. Cardinality(Ready(k)) \in Nat
    <2>1. IsFiniteSet(Orders)
      BY FS_Interval DEF Orders, MarketAssumption
    <2>2. Ready(k) \in SUBSET Orders
      BY DEF Ready
    <2> QED
      BY <2>1, <2>2, FS_Subset, FS_CardinalityType
  <1>3. /\ me \in ActorType /\ me.pc = "counted" /\ me.kind = k
    BY <1>2 DEF ActorType, Pcs
  <1>4. /\ actor' \in [Actors -> ActorType]
        /\ actor'[Buyer] = me
        /\ \A b \in Actors : b # Buyer => actor'[b] = actor[b]
    <2>1. actor \in [Actors -> ActorType]
      BY DEF IInv, TypeOK, ActorType, Pcs
    <2>2. actor' = [actor EXCEPT ![Buyer] = me]
      BY DEF ReplenishCounts
    <2> HIDE DEF me
    <2> QED
      BY <1>1, <1>3, <2>1, <2>2
  <1>5. Kept
    BY UnchangedKept DEF IInv, ReplenishCounts, Kept
  <1>6. RunOK(Buyer)'
    BY <1>3, <1>4 DEF RunOK, Holding, AfterDelivery
  <1>7. TypeOK' /\ RowsOK' /\ RunsOK'
    BY <1>1, <1>4, <1>5, <1>6, RunsStayOK DEF IInv
  <1>8. Counting'
    BY <1>3, <1>4, KindIsNamed DEF Counting
  <1>9. \A j \in Kinds : Intended(j)' = 0
    BY <1>3, <1>4 DEF Intended
  <1>10. \A j \in Kinds : Intended(j) \in Nat
    BY IntendedIsNat DEF IInv
  <1>11. UnderWayWithinDesired'
    BY <1>5, <1>9, <1>10, CountStays DEF IInv, Kept
  <1> QED
    BY <1>7, <1>8, <1>11 DEF IInv

\* The buyer places no more than the gap he found, and what is pending when
\* he looks is what fills the rest.
LEMMA ReplenishBuysKeeps ==
    ASSUME MarketAssumption, IInv, ReplenishBuys
    PROVE  IInv'
  <1> DEFINE me == actor[Buyer]
             gap == replenishGap(me.kind, me.left)
             units == IF gap < BuyMax THEN gap ELSE BuyMax
             buys == [me EXCEPT !.pc = "insert", !.left = units]
  <1>1. Buyer \in Actors /\ actor \in [Actors -> ActorType] /\ me \in ActorType
    BY DEF IInv, TypeOK, ActorType, Pcs, Buyer, Actors
  <1>2. /\ me.pc = "counted"
        /\ UNCHANGED <<order, store, account, lost, seen, faults>>
    BY DEF ReplenishBuys
  <1>3. Kept
    BY <1>2, UnchangedKept DEF IInv, Kept
  <1>4. CASE gap <= 0
    <2>1. actor' = [actor EXCEPT ![Buyer] = IdleActor]
      BY <1>4 DEF ReplenishBuys, NothingToBuy
    <2>2. IdleActor \in ActorType
      BY DEF IdleActor, ActorType, Pcs
    <2>3. /\ actor' \in [Actors -> ActorType]
          /\ actor'[Buyer] = IdleActor
          /\ \A b \in Actors : b # Buyer => actor'[b] = actor[b]
      BY <1>1, <2>1, <2>2
    <2>4. RunOK(Buyer)'
      BY <2>3 DEF RunOK, IdleActor, Holding, AfterDelivery
    <2> QED
      BY <1>1, <1>3, <2>3, <2>4, StepOfRun DEF BuyerGoesOn
  <1>5. CASE ~(gap <= 0)
    <2>1. actor' = [actor EXCEPT ![Buyer] = buys]
      BY <1>5 DEF ReplenishBuys, NothingToBuy
    <2>2. /\ countPendingOrders(me.kind) \in Nat
          /\ Desired(me.kind) \in Nat
          /\ me.left \in Nat
          /\ gap = Desired(me.kind) - me.left - countPendingOrders(me.kind)
      BY <1>1, Counted, DesiredIsNat DEF replenishGap, ActorType
    <2>3. /\ units \in Nat /\ units >= 1
          /\ countPendingOrders(me.kind) + units <= Desired(me.kind)
      <3> HIDE DEF me
      <3> QED
        BY <1>5, <2>2 DEF MarketAssumption
    <2>4. buys \in ActorType /\ buys.pc = "insert" /\ buys.kind = me.kind /\ buys.left = units
      <3> HIDE DEF units
      <3> QED
        BY <1>1, <2>3 DEF ActorType, Pcs
    <2>5. /\ actor' \in [Actors -> ActorType]
          /\ actor'[Buyer] = buys
          /\ \A b \in Actors : b # Buyer => actor'[b] = actor[b]
      <3> HIDE DEF buys
      <3> QED
        BY <1>1, <2>1, <2>4
    <2>6. RunOK(Buyer)'
      <3> HIDE DEF buys
      <3> QED
        BY <2>4, <2>5 DEF RunOK, Holding, AfterDelivery
    <2>7. TypeOK' /\ RowsOK' /\ RunsOK'
      BY <1>1, <1>3, <2>5, <2>6, RunsStayOK DEF IInv
    <2>8. Counting'
      <3> HIDE DEF buys, units
      <3> QED
        BY <1>2, <2>3, <2>4, <2>5 DEF Counting, IInv
    <2>9. UnderWayWithinDesired'
      <3> SUFFICES ASSUME NEW k \in Kinds
                   PROVE  countPendingOrders(k)' + Intended(k)' <= Desired(k)
        BY DEF UnderWayWithinDesired, Desired
      <3>1. countPendingOrders(k)' = countPendingOrders(k)
        BY <1>2 DEF countPendingOrders, Pending
      <3>2. Intended(k)' = IF me.kind = k THEN units ELSE 0
        <4> HIDE DEF buys, units
        <4> QED
          BY <2>4, <2>5 DEF Intended
      <3>3. countPendingOrders(k) + 0 <= Desired(k)
        BY <1>2 DEF IInv, UnderWayWithinDesired, Intended
      <3> QED
        BY <2>3, <3>1, <3>2, <3>3
    <2> QED
      BY <2>7, <2>8, <2>9 DEF IInv
  <1> QED
    BY <1>4, <1>5

\* What the insert of row o for the buyer's unit does to the variables.
Inserted(o) ==
    /\ ~Placed(o)
    /\ order' \in [Orders -> RowType]
    /\ order'[o].status = "pending" /\ order'[o].kind = actor[Buyer].kind
    /\ \A p \in Orders : p # o => order'[p] = order[p]
    /\ actor' \in [Actors -> ActorType]
    /\ actor'[Buyer].pc = "create" /\ actor'[Buyer].order = o
    /\ actor'[Buyer].kind = actor[Buyer].kind /\ actor'[Buyer].left = actor[Buyer].left
    /\ \A b \in Actors : b # Buyer => actor'[b] = actor[b]

LEMMA InsertWrites ==
    ASSUME TypeOK, InsertOrder
    PROVE  \E o \in Orders : Inserted(o)
  <1>1. PICK o \in Orders :
            /\ order[o].status = "none"
            /\ order' = [order EXCEPT ![o] = [NoOrder EXCEPT
                   !.status = "pending", !.kind = actor[Buyer].kind]]
            /\ actor' = [actor EXCEPT ![Buyer].pc = "create", ![Buyer].order = o]
    BY DEF InsertOrder
  <1>2. /\ Buyer \in Actors /\ actor \in [Actors -> ActorType]
        /\ actor[Buyer] \in ActorType /\ order \in [Orders -> RowType]
    BY DEF TypeOK, ActorType, RowType, Pcs, Buyer, Actors
  <1> DEFINE row == [NoOrder EXCEPT !.status = "pending", !.kind = actor[Buyer].kind]
             me == [actor[Buyer] EXCEPT !.pc = "create", !.order = o]
  <1>3. actor[Buyer].kind \in Kinds \cup {"none"}
    BY <1>2 DEF ActorType
  <1>4. row \in RowType /\ row.status = "pending" /\ row.kind = actor[Buyer].kind
    BY <1>3 DEF NoOrder, RowType
  <1>5. /\ me \in ActorType /\ me.pc = "create" /\ me.order = o
        /\ me.kind = actor[Buyer].kind /\ me.left = actor[Buyer].left
    BY <1>2 DEF ActorType, Pcs
  <1>6. order' = [order EXCEPT ![o] = row] /\ actor' = [actor EXCEPT ![Buyer] = me]
    BY <1>1, <1>2
  <1>7. ~Placed(o)
    BY <1>1 DEF Placed
  <1> HIDE DEF row, me
  <1>8. Inserted(o)
    BY <1>2, <1>4, <1>5, <1>6, <1>7 DEF Inserted
  <1> QED
    BY <1>8

LEMMA InsertOrderKeeps ==
    ASSUME MarketAssumption, IInv, InsertOrder
    PROVE  IInv'
  <1>1. PICK o \in Orders : Inserted(o)
    BY InsertWrites DEF IInv
  <1>2. UNCHANGED <<store, account, lost, seen, faults>> /\ actor[Buyer].pc = "insert"
    BY DEF InsertOrder, At
  <1>3. store[o] = "none" /\ account[o] = "none"
    BY <1>1 DEF Inserted, IInv, RowsOK, RowOK
  <1>4. actor[Buyer].kind # "none"
    BY <1>2 DEF IInv, Counting
  <1>5. TypeOK'
    BY <1>1, <1>2 DEF Inserted, IInv, TypeOK, RowType, ActorType, Pcs
  <1>6. RowsOK'
    BY <1>1, <1>2, <1>3, <1>4 DEF Inserted, IInv, RowsOK, RowOK, Placed
  <1>7. RunsOK'
    <2>1. RunOK(Buyer)'
      BY <1>1, <1>2, <1>3 DEF Inserted, RunOK, Placed, AfterDelivery
    <2>2. ASSUME NEW b \in Actors, b # Buyer
          PROVE  RunOK(b)'
      <3>1. actor'[b] = actor[b] /\ RunOK(b)
        BY <1>1, <2>2 DEF Inserted, IInv, RunsOK
      <3>2. \A p \in Orders : Placed(p) => p # o /\ order'[p] = order[p]
        BY <1>1 DEF Inserted
      <3> QED
        BY <1>2, <3>1, <3>2
        DEF RunOK, Placed, Fulfilled, AfterDelivery, Holding
    <2> QED
      BY <2>1, <2>2 DEF RunsOK
  <1>8. Counting'
    BY <1>1, <1>2 DEF Inserted, IInv, Counting
  <1>9. UnderWayWithinDesired'
    <2> SUFFICES ASSUME NEW k \in Kinds
                 PROVE  countPendingOrders(k)' + Intended(k)' <= Desired(k)
      BY DEF UnderWayWithinDesired, Desired
    <2> DEFINE S == {p \in Pending : order[p].kind = k}
               T == {p \in Orders : order'[p].status = "pending" /\ order'[p].kind = k}
    <2>1. IsFiniteSet(S) /\ countPendingOrders(k) = Cardinality(S)
      <3>1. IsFiniteSet(Orders)
        BY FS_Interval DEF Orders, MarketAssumption
      <3> QED
        BY <3>1, FS_Subset DEF Pending, countPendingOrders
    <2>2. countPendingOrders(k)' = Cardinality(T)
      <3>1. T = S'
        BY DEF Pending
      <3> QED
        BY <3>1 DEF countPendingOrders
    <2>3. o \notin S /\ T = IF actor[Buyer].kind = k THEN S \cup {o} ELSE S
      BY <1>1 DEF Inserted, Placed, Pending
    <2>4. Cardinality(S) \in Nat /\ Cardinality(S \cup {o}) = Cardinality(S) + 1
      BY <2>1, <2>3, FS_AddElement, FS_CardinalityType
    <2>5. actor[Buyer].left \in Nat /\ Desired(k) \in Nat
      BY DesiredIsNat DEF IInv, TypeOK, Buyer, Actors
    <2>6. /\ Intended(k) = IF actor[Buyer].kind = k THEN actor[Buyer].left ELSE 0
          /\ Intended(k)' = IF actor[Buyer].kind = k THEN actor[Buyer].left - 1 ELSE 0
      BY <1>1, <1>2 DEF Inserted, Intended
    <2>7. Cardinality(S) + Intended(k) <= Desired(k)
      BY <2>1 DEF IInv, UnderWayWithinDesired
    <2> HIDE DEF S, T
    <2> QED
      BY <2>2, <2>3, <2>4, <2>5, <2>6, <2>7
  <1> QED
    BY <1>5, <1>6, <1>7, <1>8, <1>9 DEF IInv

-----------------------------------------------------------------------------
(* The invariant *)

LEMMA InitIInv == ASSUME MarketAssumption, Init PROVE IInv
  <1>1. TypeOK
    BY DEF Init, TypeOK, NoOrder, IdleActor, Unseen, MarketAssumption
  <1>2. RowsOK /\ RunsOK
    BY DEF Init, RowsOK, RowOK, RunsOK, RunOK, Placed, NoOrder, IdleActor, Unseen,
           Holding, AfterDelivery
  <1>3. actor[Buyer] = IdleActor
    BY DEF Init, Buyer, Actors
  <1>4. Counting
    BY <1>3 DEF Counting, IdleActor
  <1>5. UnderWayWithinDesired
    <2> SUFFICES ASSUME NEW k \in Kinds
                 PROVE  countPendingOrders(k) + Intended(k) <= Desired(k)
      BY DEF UnderWayWithinDesired
    <2>1. Intended(k) = 0
      BY <1>3, KindIsNamed DEF Intended, IdleActor
    <2>2. {o \in Pending : order[o].kind = k} = {}
      BY DEF Init, Pending, NoOrder
    <2>3. countPendingOrders(k) = 0
      BY <2>2, FS_EmptySet DEF countPendingOrders
    <2> QED
      BY <2>1, <2>3, DesiredIsNat
  <1> QED
    BY <1>1, <1>2, <1>4, <1>5 DEF IInv

LEMMA StepIInv == ASSUME MarketAssumption, IInv, [Next]_vars PROVE IInv'
  <1>1. CASE \E k \in Kinds : ReplenishCounts(k)
    BY <1>1, ReplenishCountsKeeps
  <1>2. CASE BuyerStep
    BY <1>2, ReplenishBuysKeeps, InsertOrderKeeps, CreateDarkOrderKeeps,
       SetExternalIdKeeps, WaitDeliveryKeeps DEF BuyerStep
  <1>3. CASE \E a \in Actors : FulfilStep(a)
    <2>1. PICK a \in Actors : FulfilStep(a)
      BY <1>3
    <2>2. CASE Succeed(a) \/ Fail(a)
      BY <2>2, FinishOrderKeeps DEF Succeed, Fail, At
    <2> QED
      BY <2>1, <2>2, MarkPendingKeeps, PersistBoughtAccountKeeps, ProvisionOrderKeeps
      DEF FulfilStep
  <1>4. CASE SettleStep
    BY <1>4, ListKeeps, SettleOneKeeps, SettleEndsKeeps DEF SettleStep
  <1>5. CASE PeekAnswered \/ PeekThrows
    BY <1>5, PeekAnsweredKeeps, PeekThrowsKeeps
  <1>6. CASE \E o \in Orders : StoreMoves(o) \/ Expire(o) \/ Lose(o)
    BY <1>6, StoreMovesKeeps, ExpireKeeps, LoseKeeps
  <1>7. CASE Crash
    BY <1>7, CrashKeeps
  <1>8. CASE UNCHANGED vars
    <2>1. Kept /\ NoneOrdered /\ UNCHANGED actor
      BY <1>8, UnchangedKept DEF vars, IInv, Kept
    <2> QED
      BY <2>1, StepOutside
  <1> QED
    BY <1>1, <1>2, <1>3, <1>4, <1>5, <1>6, <1>7, <1>8 DEF Next

\* The inductive invariant of the orders holds in every reachable state: what a
\* run of either job remembers of its order agrees with the row, the store and
\* the account.
THEOREM Invariance == Spec => []IInv
  BY MarketAssumption, InitIInv, StepIInv, PTL DEF Spec

\* Types: every variable of the marketplace, for every value of the constants.
THEOREM TypeCorrect == Spec => []TypeOK
  BY Invariance, PTL DEF IInv

\* However the runs of replenish_accounts and settle_marketplace_orders
\* interleave, and whatever crashes or is counted too early, the orders under
\* way and those the replenish job is going to place never exceed the size of
\* the pool that the settings ask for.
THEOREM MoneyIsBounded == Spec => []UnderWayWithinDesired
  BY Invariance, PTL DEF IInv

-----------------------------------------------------------------------------
(* The rows keep the promise of an order: the safety of OrderLife *)

\* No status changes, and no account comes or goes.
LEMMA Stutters ==
    ASSUME \A o \in Orders : order'[o].status = order[o].status, Fulfilled' = Fulfilled
    PROVE  UNCHANGED Life!vars
  BY DEF Life!vars

LEMMA SameFulfilled ==
    ASSUME UNCHANGED <<store, account>>, \A o \in Orders : order'[o].kind = order[o].kind
    PROVE  Fulfilled' = Fulfilled
  BY DEF Fulfilled

\* The goods of one placed row change, and are not taken away.
LEMMA Delivers ==
    ASSUME UNCHANGED order, NEW o \in Orders, Placed(o),
           o \in Fulfilled => o \in Fulfilled',
           \A p \in Orders : p # o => store'[p] = store[p] /\ account'[p] = account[p]
    PROVE  [Life!Next]_(Life!vars)
  <1>1. \A p \in Orders : p # o => (p \in Fulfilled' <=> p \in Fulfilled)
    BY DEF Fulfilled
  <1>2. Fulfilled \subseteq Orders /\ Fulfilled' \subseteq Orders
    BY DEF Fulfilled
  <1>3. CASE o \in Fulfilled' /\ o \notin Fulfilled
    <2>1. Fulfilled' = Fulfilled \cup {o}
      BY <1>1, <1>2, <1>3
    <2>2. Life!Deliver(o)
      BY <1>3, <2>1 DEF Life!Deliver, Placed
    <2> QED
      BY <2>2 DEF Life!Next
  <1>4. CASE ~(o \in Fulfilled' /\ o \notin Fulfilled)
    <2>1. Fulfilled' = Fulfilled
      BY <1>1, <1>2, <1>4
    <2> QED
      BY <2>1, Stutters
  <1> QED
    BY <1>3, <1>4

LEMMA Settles ==
    ASSUME NEW o \in Orders, Placed(o), NEW v \in {"success", "failed"},
           order'[o].status = v, v = "success" => o \in Fulfilled,
           \A p \in Orders : p # o => order'[p].status = order[p].status,
           Fulfilled' = Fulfilled
    PROVE  [Life!Next]_(Life!vars)
  <1>1. CASE order[o].status = v
    BY <1>1, Stutters
  <1>2. CASE order[o].status # v
    <2>1. [p \in Orders |-> order'[p].status]
            = [[p \in Orders |-> order[p].status] EXCEPT ![o] = v]
      OBVIOUS
    <2>2. Life!Settle(o, v)
      BY <1>2, <2>1 DEF Life!Settle, Placed
    <2> QED
      BY <2>2 DEF Life!Next, Life!Verdict
  <1> QED
    BY <1>1, <1>2

LEMMA Places ==
    ASSUME RowsOK, NEW o \in Orders, Inserted(o), UNCHANGED <<store, account>>
    PROVE  Life!Next
  <1>1. ~Placed(o) /\ store[o] = "none"
    BY DEF Inserted, RowsOK, RowOK
  <1>2. Fulfilled' = Fulfilled
    BY <1>1 DEF Inserted, Fulfilled
  <1>3. [p \in Orders |-> order'[p].status]
          = [[p \in Orders |-> order[p].status] EXCEPT ![o] = "pending"]
    BY DEF Inserted
  <1>4. Life!Place(o)
    BY <1>1, <1>2, <1>3 DEF Life!Place, Placed
  <1> QED
    BY <1>4 DEF Life!Next

LEMMA InitRefines == ASSUME Init PROVE Life!Init
  BY DEF Init, Life!Init, Fulfilled, NoOrder

\* Every step places, delivers or settles one order, or changes none.
LEMMA StepRefines ==
    ASSUME MarketAssumption, IInv, [Next]_vars
    PROVE  [Life!Next]_(Life!vars)
  <1>1. ASSUME UNCHANGED <<order, store, account>>
        PROVE  [Life!Next]_(Life!vars)
    BY <1>1, Stutters, SameFulfilled
  <1>2. CASE CreateDarkOrder
    <2> DEFINE o == actor[Buyer].order
    <2>1. o \in Orders /\ Placed(o) /\ store[o] = "none"
      BY <1>2 DEF IInv, RunsOK, RunOK, Holding, CreateDarkOrder, At, Buyer, Actors
    <2>2. UNCHANGED <<order, account>>
      BY <1>2 DEF CreateDarkOrder
    <2>3. \A p \in Orders : p # o => store'[p] = store[p]
      BY <1>2 DEF CreateDarkOrder, IInv, TypeOK
    <2> QED
      BY <2>1, <2>2, <2>3, Delivers DEF Fulfilled
  <1>3. CASE SetExternalId
    <2>1. \A p \in Orders : order'[p].status = order[p].status /\ order'[p].kind = order[p].kind
      BY <1>3 DEF SetExternalId, IInv, TypeOK
    <2> QED
      BY <1>3, <2>1, Stutters, SameFulfilled DEF SetExternalId
  <1>4. CASE InsertOrder
    BY <1>4, InsertWrites, Places DEF IInv, InsertOrder
  <1>5. ASSUME NEW a \in Actors, PersistBoughtAccount(a)
        PROVE  [Life!Next]_(Life!vars)
    <2> DEFINE o == actor[a].order
    <2>1. o \in Orders /\ Placed(o)
      BY <1>5 DEF IInv, RunsOK, RunOK, Holding, PersistBoughtAccount, At
    <2>2. UNCHANGED <<order, store>>
      BY <1>5 DEF PersistBoughtAccount
    <2>3. /\ \A p \in Orders : p # o => account'[p] = account[p]
          /\ account[o] # "none" => account'[o] = account[o]
      BY <1>5 DEF PersistBoughtAccount, IInv, TypeOK
    <2>4. o \in Fulfilled => o \in Fulfilled'
      BY <2>2, <2>3 DEF Fulfilled
    <2> QED
      BY <2>1, <2>2, <2>3, <2>4, Delivers
  <1>6. ASSUME NEW a \in Actors, ProvisionOrder(a)
        PROVE  [Life!Next]_(Life!vars)
    <2> DEFINE o == actor[a].order
    <2>1. o \in Orders /\ Placed(o)
      BY <1>6 DEF IInv, RunsOK, RunOK, Holding, ProvisionOrder, At
    <2>2. UNCHANGED <<order, store>>
      BY <1>6 DEF ProvisionOrder
    <2>3. /\ \A p \in Orders : p # o => account'[p] = account[p]
          /\ order[o].kind = "gc" \/ account[o] = "key" => account'[o] = account[o]
      BY <1>6 DEF ProvisionOrder, IInv, TypeOK
    <2>4. o \in Fulfilled => o \in Fulfilled'
      BY <2>2, <2>3 DEF Fulfilled
    <2> QED
      BY <2>1, <2>2, <2>3, <2>4, Delivers
  <1>7. ASSUME NEW a \in Actors, NEW v \in {"success", "failed"}, FinishOrder(a, v),
               actor[a].pc \in {"finish", "fail"},
               v = "success" => actor[a].pc = "finish"
        PROVE  [Life!Next]_(Life!vars)
    <2> DEFINE o == actor[a].order
    <2>1. o \in Orders /\ Placed(o) /\ (v = "success" => o \in Fulfilled)
      BY <1>7 DEF IInv, RunsOK, RunOK, Holding
    <2>2. /\ order'[o].status = v /\ order'[o].kind = order[o].kind
          /\ \A p \in Orders : p # o => order'[p] = order[p]
      BY <1>7, <2>1 DEF FinishOrder, IInv, TypeOK
    <2>3. Fulfilled' = Fulfilled
      BY <1>7, <2>2, SameFulfilled DEF FinishOrder
    <2> QED
      BY <2>1, <2>2, <2>3, Settles
  <1>8. ASSUME NEW o \in Orders, StoreMoves(o)
        PROVE  [Life!Next]_(Life!vars)
    <2>1. Placed(o) /\ o \notin Fulfilled
      BY <1>8 DEF StoreMoves, IInv, RowsOK, RowOK, Fulfilled
    <2>2. \A p \in Orders : p # o => store'[p] = store[p]
      BY <1>8 DEF StoreMoves, IInv, TypeOK
    <2> QED
      BY <1>8, <2>1, <2>2, Delivers DEF StoreMoves
  <1>9. ASSUME NEW o \in Orders, Expire(o)
        PROVE  [Life!Next]_(Life!vars)
    <2>1. \A p \in Orders : order'[p].status = order[p].status /\ order'[p].kind = order[p].kind
      BY <1>9 DEF Expire, IInv, TypeOK
    <2> QED
      BY <1>9, <2>1, Stutters, SameFulfilled DEF Expire
  <1>10. CASE \E a \in Actors : FulfilStep(a)
    BY <1>1, <1>5, <1>6, <1>7, <1>10 DEF FulfilStep, MarkPending, Succeed, Fail, At
  <1>11. CASE SettleStep \/ PeekAnswered \/ PeekThrows \/ Crash \/ UNCHANGED vars
    BY <1>1, <1>11 DEF SettleStep, listPendingMarketplaceOrders, SettleOne, SettleEnds,
       PeekAnswered, PeekThrows, Crash, vars
  <1>12. CASE BuyerStep \/ \E k \in Kinds : ReplenishCounts(k)
    BY <1>1, <1>2, <1>3, <1>4, <1>12 DEF BuyerStep, ReplenishBuys, WaitDelivery, ReplenishCounts
  <1>13. CASE \E o \in Orders : StoreMoves(o) \/ Expire(o) \/ Lose(o)
    BY <1>1, <1>8, <1>9, <1>13 DEF Lose
  <1> QED
    BY <1>10, <1>11, <1>12, <1>13 DEF Next

\* The rows of marketplace_orders implement the safety of an order's life: an
\* order is placed once and as pending, a settled row never becomes pending
\* again, and success is written only when the store has handed the goods over
\* and the account they are for is saved, whichever of the two jobs writes it
\* and in spite of a write that looks at no status.
THEOREM KeepsOrderLife == Spec => Life!Safe
  BY MarketAssumption, Invariance, InitRefines, StepRefines, PTL DEF Spec, Life!Safe
=============================================================================
