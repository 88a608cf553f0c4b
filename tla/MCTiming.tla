------------------------------ MODULE MCTiming ------------------------------
(* Instances of ClaimTiming for TLC. *)
EXTENDS ClaimTiming, TLC

CONSTANTS c1, c2, h1, h2

\* Two processes with a handler each, whose clocks may differ.
OneHandlerEach == (h1 :> c1) @@ (h2 :> c2)

\* The two processes are interchangeable, each with its handler.
Symmetry == {(c1 :> c2) @@ (c2 :> c1) @@ (h1 :> h2) @@ (h2 :> h1)}
=============================================================================
