---------------------------- MODULE MCVesConsumer ----------------------------
(***************************************************************************)
(* An instance of VesConsumer for TLC.                                     *)
(***************************************************************************)
EXTENDS VesConsumer
=============================================================================
