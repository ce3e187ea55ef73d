------------------------ MODULE MCDeliveryTracking -------------------------
(* DeliveryTracking with model values for TLC. *)
EXTENDS DeliveryTracking, TLC

CONSTANTS c1, c2, n1, n2

\* The contacts have different names or the same; which ones makes no difference.
MCInitialNames == {c1 :> n1 @@ c2 :> n2, c1 :> n1 @@ c2 :> n1}
=============================================================================
