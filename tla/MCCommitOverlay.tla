-------------------------- MODULE MCCommitOverlay --------------------------
(***************************************************************************)
(* Instances of CommitOverlay for TLC.  Threads and snapshots are          *)
(* interchangeable, so runs without temporal properties reduce by them.    *)
(***************************************************************************)
EXTENDS CommitOverlay, TLC

Symmetry == Permutations(Threads) \cup Permutations(Slots)
=============================================================================
