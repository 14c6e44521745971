------------------------- MODULE MCDeliveryTracking -------------------------
(***************************************************************************)
(* DeliveryTracking on small instances.                                    *)
(***************************************************************************)
EXTENDS DeliveryTracking, TLC

Interchangeable == Permutations(Sessions)
=============================================================================
