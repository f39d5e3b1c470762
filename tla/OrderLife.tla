----------------------------- MODULE OrderLife -----------------------------
(***************************************************************************)
(* What an order of an account promises to those who place and count it    *)
(* (order_status in the schema, docs/specs/marketplace-buy-account.md): it *)
(* is pending from the moment it is placed until it is settled, it settles *)
(* one day, it is a success only if its account is at hand, and once       *)
(* settled it is not pending again.  Which of the runs settles it, how     *)
(* often, and what the store and the mailbox say is not seen here: the     *)
(* last verdict stands.                                                    *)
(***************************************************************************)
CONSTANT Orders

VARIABLES
    life,       \* life[o]: "none", "pending", "success" or "failed"
    delivered   \* the orders whose account was handed over and saved

vars == <<life, delivered>>

Verdict == {"success", "failed"}

Init ==
    /\ life = [o \in Orders |-> "none"]
    /\ delivered = {}

Place(o) ==
    /\ life[o] = "none"
    /\ life' = [life EXCEPT ![o] = "pending"]
    /\ UNCHANGED delivered

\* The account of an order that failed may still arrive.
Deliver(o) ==
    /\ life[o] # "none" /\ o \notin delivered
    /\ delivered' = delivered \cup {o}
    /\ UNCHANGED life

Settle(o, v) ==
    /\ life[o] \notin {"none", v}
    /\ v = "success" => o \in delivered
    /\ life' = [life EXCEPT ![o] = v]
    /\ UNCHANGED delivered

Next ==
    \E o \in Orders :
        Place(o) \/ Deliver(o) \/ \E v \in Verdict : Settle(o, v)

Safe == Init /\ [][Next]_vars

EveryOrderSettles == \A o \in Orders : life[o] = "pending" ~> life[o] \in Verdict

Spec == Safe /\ EveryOrderSettles
=============================================================================
