--------------------------- MODULE MCOutboxDelivery ---------------------------
(* OutboxDelivery on small instances. *)
EXTENDS OutboxDelivery, TLC

SlotSymmetry == Permutations(Slots)

================================================================================
