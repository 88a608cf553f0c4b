----------------------------- MODULE MCOutbox -----------------------------
(* Instances of OutboxRelay for TLC; relays are interchangeable, rows are not. *)
EXTENDS OutboxRelay, TLC

\* Refused rows alone do not fill a batch.
ASSUME RoomForHealthyRows == Cardinality(Poison) < BatchSize

Symmetry == Permutations(Relays)
=============================================================================
