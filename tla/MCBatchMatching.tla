--------------------------- MODULE MCBatchMatching ---------------------------
(***************************************************************************)
(* All batches of up to five tasks over the three pools of a triangle of   *)
(* currencies (a circle beside a pair, two pairs, three tasks of which two *)
(* compete for the third), and all runs of the traffic script, cut into    *)
(* windows in every way.  The library searches batches of up to four.      *)
(***************************************************************************)
EXTENDS BatchMatching, SequencesExt

CONSTANTS alice, bob

MCPoolKeyOf == POOL_CONFIGS

(* Alice has two tasks of a batch, which may be in one circle.             *)
MCSenders == <<alice, bob, alice, account, bob>>

MCBatches == BoundedSeq(Task, 5) \ {<<>>}
=============================================================================
