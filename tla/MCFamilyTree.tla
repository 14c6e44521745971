---------------------------- MODULE MCFamilyTree ----------------------------
(***************************************************************************)
(* FamilyTree on small instances.                                          *)
(***************************************************************************)
EXTENDS FamilyTree, TLC

Interchangeable == Permutations(Users) \cup Permutations(Sessions)
=============================================================================
