------------------------------ MODULE MCPmFeed ------------------------------
(***************************************************************************)
(* Instances of PmFeed for TLC.                                            *)
(***************************************************************************)
EXTENDS PmFeed
=============================================================================
