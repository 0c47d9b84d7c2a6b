---------------------------- MODULE MCNodeDaemon ----------------------------
(* NodeDaemon for TLC: launchers and stoppers are interchangeable. *)
EXTENDS NodeDaemon, TLC

Symmetry == Permutations(Launchers) \cup Permutations(Stoppers)
=============================================================================
