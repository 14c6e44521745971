------------------------- MODULE MCWeddingRegistry -------------------------
(***************************************************************************)
(* WeddingRegistry for TLC: one account of each role and a second couple.  *)
(***************************************************************************)
EXTENDS WeddingRegistry

CONSTANTS guest, relative, couple, other, moderator, admin
OneOfEach == [u \in {guest, relative, couple, other, moderator, admin} |->
                CASE u = guest -> "GUEST" [] u = relative -> "FAMILY_MEMBER"
                  [] u \in {couple, other} -> "COUPLE"
                  [] u = moderator -> "MODERATOR" [] u = admin -> "SUPER_ADMIN"]
=============================================================================
