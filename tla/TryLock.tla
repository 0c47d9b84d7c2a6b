------------------------------ MODULE TryLock ------------------------------
(***************************************************************************)
(* What a lock that is tried once, and never waited for, promises: a       *)
(* command that asks is granted the lock while nobody holds it, or is      *)
(* turned away; it leaves by itself or by dying, and leaving frees the     *)
(* lock.  EnvLock implements this when its commands come one at a time     *)
(* (TryLockPromise), and FiberEnv is built on it.                          *)
(***************************************************************************)
CONSTANT Procs

VARIABLE phase  \* phase[p]: "out", "asking", "holding" or "gone"

TypeOK == phase \in [Procs -> {"out", "asking", "holding", "gone"}]

Init == phase = [p \in Procs |-> "out"]

Ask(p) ==
  /\ phase[p] = "out"
  /\ phase' = [phase EXCEPT ![p] = "asking"]

Grant(p) ==
  /\ phase[p] = "asking"
  /\ \A q \in Procs : phase[q] # "holding"
  /\ phase' = [phase EXCEPT ![p] = "holding"]

Deny(p) ==
  /\ phase[p] = "asking"
  /\ phase' = [phase EXCEPT ![p] = "gone"]

Leave(p) ==
  /\ phase[p] = "holding"
  /\ phase' = [phase EXCEPT ![p] = "gone"]

Next == \E p \in Procs : Ask(p) \/ Grant(p) \/ Deny(p) \/ Leave(p)

Spec == Init /\ [][Next]_phase

(* The lock has at most one holder. *)
OneHolder ==
  \A p, q \in Procs : phase[p] = "holding" /\ phase[q] = "holding" => p = q
=============================================================================
