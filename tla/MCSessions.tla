----------------------------- MODULE MCSessions -----------------------------
(***************************************************************************)
(* Sessions for TLC: two addresses that differ in their first letters.     *)
(***************************************************************************)
EXTENDS Sessions

CONSTANTS ann, bek
MCStart == [e \in {ann, bek} |-> e]
=============================================================================
