------------------------------ MODULE MCOutbox ------------------------------
(***************************************************************************)
(* Instances of Outbox for TLC.  A batch needs at most three tokens at a   *)
(* time: its file's, its fast path's and its drain's.  Batches and tokens  *)
(* are interchangeable, so the safety runs reduce by symmetry; the run     *)
(* that checks liveness does not.                                          *)
(***************************************************************************)
EXTENDS Outbox, TLC

MCSymmetry == Permutations(Batches) \cup Permutations(Leases)
=============================================================================
