--------------------------- MODULE MCProcessing ---------------------------
(* Instances of PaymentProcessing for TLC. *)
EXTENDS PaymentProcessing, TLC

\* Payments and workers are interchangeable.
Symmetry == Permutations(Payments) \cup Permutations(Workers)
=============================================================================
