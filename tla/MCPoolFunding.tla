--------------------------- MODULE MCPoolFunding ---------------------------
(***************************************************************************)
(* PoolFunding on small instances.                                         *)
(***************************************************************************)
EXTENDS PoolFunding, TLC

\* Keys and sessions are interchangeable in the runs that check no liveness and make every key foreign.
Interchangeable == Permutations(Keys) \cup Permutations(Sessions)
=============================================================================
