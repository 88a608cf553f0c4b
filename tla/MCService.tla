----------------------------- MODULE MCService -----------------------------
(* Instances of PaymentService for TLC. *)
EXTENDS PaymentService

\* Handlers are interchangeable.
Symmetry == Permutations(Workers)
=============================================================================
