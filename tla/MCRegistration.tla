--------------------------- MODULE MCRegistration ---------------------------
(***************************************************************************)
(* Registration for TLC: the addresses are alike, and so are the slots in  *)
(* which the server handles requests.                                      *)
(***************************************************************************)
EXTENDS Registration, TLC

Symmetry == Permutations(Emails) \cup Permutations(Requests)
=============================================================================
