------------------------ MODULE MCCompanionDelivery ------------------------
(* CompanionDelivery with model values for TLC. *)
EXTENDS CompanionDelivery, TLC

=============================================================================
