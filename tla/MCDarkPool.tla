------------------------------ MODULE MCDarkPool ------------------------------
(***************************************************************************)
(* The contracts on two pools, A-B and B-C, with up to two tasks of amount *)
(* 1: the trader has one A and one B to sell, B in either pool, and a      *)
(* second hook, which setHook may name, records orders nobody escrowed     *)
(* for.  Batches hold one task or both, and carry lists that need not suit *)
(* their tasks: none, transfers of A or of A and B, a swap with an exact   *)
(* input or an exact output.                                               *)
(***************************************************************************)
EXTENDS DarkPool, SequencesExt

CONSTANTS A, B, C, u1, p1, p2, o1, NextHook

MCPoolKeyOf == p1 :> [currency0 |-> A, currency1 |-> B] @@
               p2 :> [currency0 |-> B, currency1 |-> C]
MCInitHeld == (u1   :> (A :> 1 @@ B :> 1 @@ C :> 0)) @@
              (Hook :> (A :> 0 @@ B :> 0 @@ C :> 0))
MCInitAmm == A :> 0 @@ B :> 1 @@ C :> 0

MCOrders == [zeroForOne : BOOLEAN, amountSpecified : {-1}, sender : Users, poolId : Pools]
Pay(c) == [amount |-> 1, currency |-> c, sender |-> u1]
SwapOf(amountSpecified) == [zeroForOne |-> TRUE, amountSpecified |-> amountSpecified]

MCTransferLists == {<<>>, <<Pay(A)>>, <<Pay(A), Pay(B)>>}
MCSwapLists == {<<>>, <<SwapOf(-1)>>, <<SwapOf(1)>>}
MCPayloads == {p \in [transfers : MCTransferLists, swaps : MCSwapLists] :
                  p.transfers = <<>> \/ p.swaps = <<>>}
MCRefLists == {<<0>>, <<1>>, <<1, 0>>}
=============================================================================
