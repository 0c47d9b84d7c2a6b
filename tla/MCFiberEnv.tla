----------------------------- MODULE MCFiberEnv -----------------------------
(* FiberEnv for TLC: one command of each kind. *)
EXTENDS FiberEnv
=============================================================================
