---------------------------- MODULE MCDarkCoWHook ----------------------------
(***************************************************************************)
(* DarkCoWHook on three currencies, the two pools A-B and B-C, and two     *)
(* traders.  C starts without liquidity, so claims are all that backs it.  *)
(***************************************************************************)
EXTENDS DarkCoWHook, SequencesExt

CONSTANTS A, B, C, u1, u2, p1, p2

MCPoolKeyOf == (p1 :> [currency0 |-> A, currency1 |-> B]) @@
               (p2 :> [currency0 |-> B, currency1 |-> C])

MCInitHeld == (u1   :> (A :> 2 @@ B :> 0 @@ C :> 0)) @@
              (u2   :> (A :> 0 @@ B :> 0 @@ C :> 2)) @@
              (Hook :> (A :> 0 @@ B :> 0 @@ C :> 0))

MCInitAmm == A :> 0 @@ B :> 1 @@ C :> 0

Pay(a, c, u) == [amount |-> a, currency |-> c, sender |-> u]
MCTransferLists ==
    BoundedSeq({Pay(1, A, u2), Pay(1, C, u1), Pay(2, C, u1)}, 2)

Trade(z, a) == [zeroForOne |-> z, amountSpecified |-> a]
MCSwapLists == BoundedSeq({Trade(TRUE, -1), Trade(FALSE, -1), Trade(FALSE, 1)}, 2)
=============================================================================
