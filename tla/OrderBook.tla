----------------------------- MODULE OrderBook -----------------------------
(***************************************************************************)
(* What the order engine promises, without commitments, trees, proofs or   *)
(* nullifiers: an order is created and then listed; it is approved in a    *)
(* market that suits it, if its user can cover it; and what is executed    *)
(* was approved.  OrderEngine is shown to implement this.                  *)
(***************************************************************************)
EXTENDS Integers

CONSTANTS Orders, Markets, BalanceOf

VARIABLES created, listed, approved, executed

bookVars == <<created, listed, approved, executed>>

Suits(order, market) ==
    /\ order.deadline >= market.block_timestamp
    /\ order.target_price <= market.current_price

Covered(order) == order.amount_in <= BalanceOf[order.wallet_address]

BookInit ==
    /\ created = {} /\ listed = {} /\ approved = {}
    /\ executed = {}

Create(order) ==
    /\ created' = created \cup {order}
    /\ UNCHANGED <<listed, approved, executed>>

List(order) ==
    /\ order \in created
    /\ listed' = listed \cup {order}
    /\ UNCHANGED <<created, approved, executed>>

(* An approval is for good: the market may have moved on when the order is *)
(* executed.                                                               *)
Approve(order, market) ==
    /\ order \in listed /\ Covered(order) /\ Suits(order, market)
    /\ approved' = approved \cup {order}
    /\ UNCHANGED <<created, listed, executed>>

Fill(order) ==
    /\ order \in approved
    /\ executed' = executed \cup {order}
    /\ UNCHANGED <<created, listed, approved>>

BookNext ==
    \E order \in Orders :
        \/ Create(order) \/ List(order) \/ Fill(order)
        \/ \E market \in Markets : Approve(order, market)

BookSpec == BookInit /\ [][BookNext]_bookVars
=============================================================================
