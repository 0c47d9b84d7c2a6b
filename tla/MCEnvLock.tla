----------------------------- MODULE MCEnvLock -----------------------------
(* EnvLock for TLC: the commands are model values and interchangeable. *)
EXTENDS EnvLock, TLC

Symmetry == Permutations(Procs)
=============================================================================
