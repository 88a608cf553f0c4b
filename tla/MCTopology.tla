----------------------------- MODULE MCTopology -----------------------------
(* Instances of TopologyBootstrap for TLC. *)
EXTENDS TopologyBootstrap
=============================================================================
