------------------------------ MODULE MCAudit ------------------------------
(* Instances of DeliveryAudit for TLC. *)
EXTENDS DeliveryAudit, TLC

\* Payments and workers are interchangeable.
Symmetry == Permutations(Payments) \cup Permutations(Workers)
=============================================================================
