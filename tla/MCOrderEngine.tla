--------------------------- MODULE MCOrderEngine ---------------------------
(***************************************************************************)
(* Two orders of Alice, who can cover each of them, and one of Bob, who    *)
(* cannot; a tree of up to MaxLeaves leaves.  In the smaller instance Bob  *)
(* can cover his order, which pays USDC.                                   *)
(***************************************************************************)
EXTENDS OrderEngine

CONSTANTS Alice, Bob

Order(user, token, amount, price) ==
    [wallet_address |-> user, token_in |-> token, amount_in |-> amount,
     min_amount_out |-> 1, target_price |-> price, deadline |-> 2]

MCBalanceOf == [u \in {Alice, Bob} |-> 2]
MCOrders == {Order(Alice, "ETH", 1, 2), Order(Alice, "ETH", 2, 2), Order(Bob, "USDC", 3, 1)}
MCOrdersOfTwo == {Order(Alice, "ETH", 1, 2), Order(Bob, "USDC", 2, 1)}

(* At the target price and the deadline; below the price; past the         *)
(* deadline.                                                               *)
MCMarkets == {[current_price |-> 2, block_timestamp |-> 2],
              [current_price |-> 1, block_timestamp |-> 2],
              [current_price |-> 2, block_timestamp |-> 3]}

(* A request may hold no path at all, and as the root the hash of a        *)
(* commitment nobody made: Bob's order with a balance that covers it and   *)
(* the nullifier of an order of Alice.                                     *)
MCOwnPaths == {[siblings |-> <<>>, indices |-> <<>>]}
OwnRootsOf(order, nullifierOf) ==
    {ComputeCommitmentHash(order, OrderNullifier(Alice, nullifierOf), 3)}
MCOwnRoots == OwnRootsOf(Order(Bob, "USDC", 3, 1), Order(Alice, "ETH", 1, 2))
MCOwnRootsOfTwo == OwnRootsOf(Order(Bob, "USDC", 2, 1), Order(Alice, "ETH", 1, 2))
=============================================================================
