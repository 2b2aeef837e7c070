-------------------------- MODULE MCOperatorService --------------------------
(***************************************************************************)
(* Three tasks, windows of two blocks, five blocks and one restart: up to  *)
(* two batches are processed while a third one is filled, and a process    *)
(* may find what its predecessor left of a registration.                   *)
(***************************************************************************)
EXTENDS OperatorService
=============================================================================
