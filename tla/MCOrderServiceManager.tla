------------------------ MODULE MCOrderServiceManager ------------------------
(***************************************************************************)
(* Two operators, two orders on two pools, and task ids 0..2, of which the *)
(* last is out of reach.  Batches refer to one or two tasks, repeated or   *)
(* not.                                                                    *)
(***************************************************************************)
EXTENDS OrderServiceManager, SequencesExt

CONSTANTS p1, p2

MCOrders == [poolId : {p1, p2}]
MCRefLists == BoundedSeq(TaskIds, 2)
=============================================================================
