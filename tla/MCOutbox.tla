----------------------------- MODULE MCOutbox -----------------------------
(* Outbox with interchangeable relays and events. *)
EXTENDS Outbox, TLC
Symmetry == Permutations(Relays) \cup Permutations(Ids)
=============================================================================
