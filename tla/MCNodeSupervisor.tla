-------------------------- MODULE MCNodeSupervisor --------------------------
(* NodeSupervisor for TLC, with two FNNs.  f1 dials f2, but the model does  *)
(* not tell them apart; liveness is checked, so there is no symmetry.       *)
EXTENDS NodeSupervisor
=============================================================================
