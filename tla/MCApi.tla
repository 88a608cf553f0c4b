------------------------------- MODULE MCApi -------------------------------
(* Instances of PaymentApi for TLC. *)
EXTENDS PaymentApi, TLC

\* Requests, reads, keys and payload remainders are interchangeable.
Symmetry ==
  Permutations(Requests) \cup Permutations(Reads)
  \cup Permutations(Keys) \cup Permutations(Rests)
=============================================================================
