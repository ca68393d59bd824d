---------------------------- MODULE MCSdnrWrite ----------------------------
(***************************************************************************)
(* Instances of SdnrWrite for TLC: operators that write to one cell at the *)
(* same time, with the three attempts of the code.                         *)
(***************************************************************************)
EXTENDS SdnrWrite
=============================================================================
