------------------------ MODULE NodeSupervisorProofs ------------------------
(***************************************************************************)
(* Proofs about NodeSupervisor for any set of FNN nodes.                   *)
(*                                                                         *)
(* The properties speak of the state in which the manager exits; that      *)
(* state is reached from a teardown of one of three kinds, and what each   *)
(* kind has done depends on where the flow was when it began.  The         *)
(* invariant ties the teardowns to the stages (TeardownStages), says what  *)
(* the shared teardown has done (TeardownWork), and that no Fiber state is *)
(* there before the FNNs are started (BeforeFnns).                         *)
(***************************************************************************)
EXTENDS NodeSupervisor, TLAPS

NoFnnRuns == \A f \in Fnns : ~Running(f)

NothingAlive == \A c \in Components : proc[c] # "alive"

(* Before the FNNs are started there is none of them, and no record.  The   *)
(* record is also gone when the flow has failed.  Without --fiber the flow  *)
(* does not get to the FNNs.                                                *)
BeforeFnns ==
  /\ stage \in {"ckbWait", "minerSpawn", "fnnPrep"} =>
       /\ runtime = "none"
       /\ \A f \in Fnns : proc[f] = "none"
  /\ stage \in {"ckbWait", "minerSpawn"} => proc["miner"] = "none"
  /\ stage = "failed" => runtime = "none"
  /\ ~fiber => stage \notin {"fnnPrep"} \cup FiberStartup

(* The flow's own teardown runs in fiberFailing; the shared one belongs to  *)
(* the service, and its stopFiberNodes call is its own.                     *)
TeardownStages ==
  /\ stops["flow"] = "running" => stage = "fiberFailing"
  /\ shutdown # "no" => stage = "serving"
  /\ stops["shutdown"] = "running" => shutdown = "running"

(* What the shared teardown has done, and that every teardown a signal or   *)
(* an exit began is known to the pipe handler.                              *)
TeardownWork ==
  /\ shutdown # "no" => NothingAlive
  /\ shutdown = "done" => runtime = "none" /\ NoFnnRuns
  /\ shutdown # "no" \/ stops["signal"] # "no" => graceful

Structure == BeforeFnns /\ TeardownStages /\ TeardownWork

Exits == CleanExit /\ ExitAwaitsCleanup /\ PipeSparesTeardown

-----------------------------------------------------------------------------
(* The manager starts with CKB alone, and has not exited. *)
LEMMA InitInv == Init => TypeOK /\ Structure /\ Exits
  BY FnnsAssumption
  DEF Init, TypeOK, Structure, BeforeFnns, TeardownStages, TeardownWork,
      NothingAlive, NoFnnRuns, Exits, CleanExit, ExitAwaitsCleanup,
      PipeSparesTeardown, Components, FiberStartup, Signals, Stoppers, Running,
      Ended
(* The shared teardown signals whatever is alive, once; only without FNNs   *)
(* does it end in the turn in which it begins.                              *)
LEMMA SharedTeardown ==
  ASSUME TypeOK, Structure, NEW failed, RunShutdownOnce(failed),
         failed \notin Components \/ proc[failed] = "dead"
  PROVE  /\ graceful' = TRUE
         /\ proxy' \in BOOLEAN
         /\ proc' \in [Components -> {"none", "alive", "term", "dead"}]
         /\ \A c \in Components :
              proc'[c] # "alive" /\ proc'[c] \in {proc[c], "term"}
         /\ \A c \in Components : proc[c] # "alive" => proc'[c] = proc[c]
         /\ shutdown' \in {"running", "done"}
         /\ shutdown' = "done" => shutdown = "done" \/ ~fiber
         /\ stops' \in [Stoppers -> {"no", "running", "done"}]
         /\ stops'["flow"] = stops["flow"]
         /\ stops'["signal"] = stops["signal"]
         /\ stops'["shutdown"] = "running" => shutdown' = "running"
  <1> USE DEF TypeOK, Structure, TeardownStages, TeardownWork, NothingAlive,
              Stoppers
  <1>1. CASE shutdown = "no"
    <2>1. /\ graceful' = TRUE /\ proc' = Killing(Components \ {failed})
          /\ proxy' = FALSE
          /\ shutdown' = IF fiber THEN "running" ELSE "done"
      BY <1>1 DEF RunShutdownOnce
    <2>2. CASE fiber
      <3>1. stops' = [stops EXCEPT !["shutdown"] = "running"]
        BY <1>1, <2>2 DEF RunShutdownOnce, StopsFnns
      <3> QED
        BY <2>1, <2>2, <3>1 DEF Killing
    <2>3. CASE ~fiber
      <3>1. stops' = stops
        BY <1>1, <2>3 DEF RunShutdownOnce
      <3> QED
        BY <1>1, <2>1, <2>3, <3>1 DEF Killing
    <2> QED
      BY <2>2, <2>3
  <1>2. CASE shutdown # "no"
    BY <1>2 DEF RunShutdownOnce
  <1> QED
    BY <1>1, <1>2

-----------------------------------------------------------------------------
(* Every step keeps the types, the structure and the properties; one step   *)
(* of the proofs for every action.                                          *)
LEMMA NextTyped == TypeOK /\ Structure /\ Exits /\ [Next]_vars => TypeOK'
  <1> SUFFICES ASSUME TypeOK, Structure, Exits, [Next]_vars
               PROVE  TypeOK'
    OBVIOUS
  <1> USE FnnsAssumption DEF TypeOK, Structure, BeforeFnns, TeardownStages,
          TeardownWork, NothingAlive, NoFnnRuns, Components, FiberStartup,
          Signals,
          Stoppers, Running, children, records, ending, flow
  <1>1. CASE CkbReady
    BY <1>1 DEF CkbReady, Flow
  <1>2. CASE CkbFails
    BY <1>2 DEF CkbFails, Flow, Throws, Killing
  <1>3. CASE MinerFails
    BY <1>3 DEF MinerFails, Flow, Throws, Killing
  <1>4. CASE CkbGoneAtMiner
    BY <1>4 DEF CkbGoneAtMiner, Flow, Gone
  <1>5. CASE ProxyListens
    BY <1>5 DEF ProxyListens, MinerSpawned, Flow
  <1>6. CASE ProxyPortTaken
    BY <1>6 DEF ProxyPortTaken, MinerSpawned, Flow
  <1>7. CASE StartFnns
    BY <1>7 DEF StartFnns, Flow
  <1>8. CASE PrepFails
    BY <1>8 DEF PrepFails, Flow, Throws, Killing
  <1>9. CASE SpawnFails
    BY <1>9 DEF SpawnFails, Flow, StopsFnns
  <1>9a. CASE RuntimeWriteFails
    BY <1>9a DEF RuntimeWriteFails, Flow, Killing
  <1>10. ASSUME NEW f \in Fnns, FnnAnswers(f)
       PROVE  TypeOK'
    BY <1>10 DEF FnnAnswers, Flow
  <1>11. CASE ChecksPass
    BY <1>11 DEF ChecksPass, Flow
  <1>12. CASE FiberReady
    BY <1>12 DEF FiberReady, Flow
  <1>13. CASE FiberFails
    BY <1>13 DEF FiberFails, Flow, StopsFnns, Killing
  <1>14. ASSUME NEW c \in Components, DispatchExit(c)
       PROVE  TypeOK'
    <2>1. /\ c \in unseen /\ unseen' = unseen \ {c} /\ exited = "no"
          /\ UNCHANGED <<flow, records, exitAfter, handled, exited>>
      BY <1>14 DEF DispatchExit
    <2>2. CASE stage = "serving"
      <3>1. RunShutdownOnce(c) /\ proc[c] = "dead"
        BY <1>14, <2>1, <2>2 DEF DispatchExit
      <3>2. /\ graceful' = TRUE /\ proxy' \in BOOLEAN
            /\ proc' \in [Components -> {"none", "alive", "term", "dead"}]
            /\ \A d \in Components : proc[d] # "alive" => proc'[d] = proc[d]
            /\ shutdown' \in {"running", "done"}
            /\ stops' \in [Stoppers -> {"no", "running", "done"}]
        BY <3>1, SharedTeardown
      <3>3. unseen' \subseteq {d \in Components : proc'[d] = "dead"}
        BY <2>1, <3>2
      <3>4. ~fiber => \A f \in Fnns : proc'[f] = "none"
        BY <3>2
      <3> QED
        BY <2>1, <2>2, <3>2, <3>3, <3>4
    <2>3. CASE stage # "serving"
      BY <1>14, <2>1, <2>3 DEF DispatchExit
    <2> QED
      BY <2>2, <2>3
  <1>15. ASSUME NEW w \in Stoppers, FnnsStopped(w)
       PROVE  TypeOK'
    BY <1>15 DEF FnnsStopped, Killing
  <1>16. CASE ExitAfterShutdown
    BY <1>16 DEF ExitAfterShutdown
  <1>17. CASE Drain
    BY <1>17 DEF Drain
  <1>18. ASSUME NEW sig \in Signals, NEW set \in {{}, Components}, Signal(sig, set)
       PROVE  TypeOK'
    <2>1. UNCHANGED <<flow, unseen, records>> /\ exited = "no"
      BY <1>18 DEF Signal
    <2>2. CASE sig \notin handled
      <3>1. /\ exited' = "killed" /\ proc' = Killing(set)
            /\ UNCHANGED <<handled, graceful, stops, shutdown, proxy, exitAfter>>
        BY <1>18, <2>2 DEF Signal
      <3> QED
        BY <2>1, <3>1 DEF Killing
    <2>3. CASE sig \in handled /\ stage = "serving"
      <3>1. /\ RunShutdownOnce("none") /\ exitAfter' = TRUE
            /\ handled' = handled \ {sig} /\ exited' = exited
        BY <1>18, <2>3 DEF Signal
      <3>2. /\ graceful' = TRUE /\ proxy' \in BOOLEAN
            /\ proc' \in [Components -> {"none", "alive", "term", "dead"}]
            /\ \A d \in Components : proc[d] # "alive" => proc'[d] = proc[d]
            /\ shutdown' \in {"running", "done"}
            /\ stops' \in [Stoppers -> {"no", "running", "done"}]
        BY <3>1, SharedTeardown
      <3>3. unseen' \subseteq {d \in Components : proc'[d] = "dead"}
        BY <2>1, <3>2
      <3>4. ~fiber => \A f \in Fnns : proc'[f] = "none"
        BY <3>2
      <3> QED
        BY <2>1, <2>3, <3>1, <3>2, <3>3, <3>4
    <2>4. CASE sig \in handled /\ stage # "serving"
      <3>1. /\ handled' = handled \ {sig} /\ graceful' = TRUE
            /\ proc' = Killing(Fnns \cup set)
            /\ stops' = [stops EXCEPT !["signal"] =
                            IF @ = "no" THEN "running" ELSE @]
            /\ UNCHANGED <<shutdown, proxy, exitAfter, exited>>
        BY <1>18, <2>4 DEF Signal
      <3> QED
        BY <2>1, <2>4, <3>1 DEF Killing
    <2> QED
      BY <2>2, <2>3, <2>4
  <1>19. CASE BrokenPipe
    BY <1>19 DEF BrokenPipe
  <1>20. ASSUME NEW c \in Components, ChildDies(c)
       PROVE  TypeOK'
    BY <1>20 DEF ChildDies
  <1>21. CASE UNCHANGED vars
    BY <1>21 DEF vars
  <1> QED
    BY <1>1, <1>2, <1>3, <1>4, <1>5, <1>6, <1>7, <1>8, <1>9, <1>9a, <1>10,
       <1>11, <1>12, <1>13, <1>14, <1>15, <1>16, <1>17, <1>18, <1>19, <1>20, <1>21
       DEF Next, FlowSteps, Environment

LEMMA NextStructure ==
  TypeOK /\ Structure /\ Exits /\ [Next]_vars => Structure'
  <1> SUFFICES ASSUME TypeOK, Structure, Exits, [Next]_vars
               PROVE  Structure'
    OBVIOUS
  <1> USE FnnsAssumption DEF TypeOK, Structure, BeforeFnns, TeardownStages,
          TeardownWork, NothingAlive, NoFnnRuns, Components, FiberStartup,
          Signals,
          Stoppers, Running, children, records, ending, flow
  <1>1. CASE CkbReady
    BY <1>1 DEF CkbReady, Flow
  <1>2. CASE CkbFails
    BY <1>2 DEF CkbFails, Flow, Throws, Killing
  <1>3. CASE MinerFails
    BY <1>3 DEF MinerFails, Flow, Throws, Killing
  <1>4. CASE CkbGoneAtMiner
    BY <1>4 DEF CkbGoneAtMiner, Flow, Gone
  <1>5. CASE ProxyListens
    BY <1>5 DEF ProxyListens, MinerSpawned, Flow
  <1>6. CASE ProxyPortTaken
    BY <1>6 DEF ProxyPortTaken, MinerSpawned, Flow
  <1>7. CASE StartFnns
    BY <1>7 DEF StartFnns, Flow
  <1>8. CASE PrepFails
    BY <1>8 DEF PrepFails, Flow, Throws, Killing
  <1>9. CASE SpawnFails
    BY <1>9 DEF SpawnFails, Flow, StopsFnns
  <1>9a. CASE RuntimeWriteFails
    BY <1>9a DEF RuntimeWriteFails, Flow, Killing
  <1>10. ASSUME NEW f \in Fnns, FnnAnswers(f)
       PROVE  Structure'
    BY <1>10 DEF FnnAnswers, Flow
  <1>11. CASE ChecksPass
    BY <1>11 DEF ChecksPass, Flow
  <1>12. CASE FiberReady
    BY <1>12 DEF FiberReady, Flow
  <1>13. CASE FiberFails
    BY <1>13 DEF FiberFails, Flow, StopsFnns, Killing
  <1>14. ASSUME NEW c \in Components, DispatchExit(c)
       PROVE  Structure'
    <2>1. /\ c \in unseen /\ unseen' = unseen \ {c} /\ exited = "no"
          /\ UNCHANGED <<flow, records, exitAfter, handled, exited>>
      BY <1>14 DEF DispatchExit
    <2>2. CASE stage = "serving"
      <3>1. RunShutdownOnce(c) /\ proc[c] = "dead"
        BY <1>14, <2>1, <2>2 DEF DispatchExit
      <3> QED
        BY <2>1, <2>2, <3>1, SharedTeardown, ZenonT(30)
    <2>3. CASE stage # "serving"
      BY <1>14, <2>1, <2>3 DEF DispatchExit
    <2> QED
      BY <2>2, <2>3
  <1>15. ASSUME NEW w \in Stoppers, FnnsStopped(w)
       PROVE  Structure'
    BY <1>15 DEF FnnsStopped, Killing
  <1>16. CASE ExitAfterShutdown
    BY <1>16 DEF ExitAfterShutdown
  <1>17. CASE Drain
    BY <1>17 DEF Drain
  <1>18. ASSUME NEW sig \in Signals, NEW set \in {{}, Components}, Signal(sig, set)
       PROVE  Structure'
    <2>1. UNCHANGED <<flow, unseen, records>> /\ exited = "no"
      BY <1>18 DEF Signal
    <2>2. CASE sig \notin handled
      <3>1. /\ exited' = "killed" /\ proc' = Killing(set)
            /\ UNCHANGED <<handled, graceful, stops, shutdown, proxy, exitAfter>>
        BY <1>18, <2>2 DEF Signal
      <3> QED
        BY <2>1, <3>1 DEF Killing
    <2>3. CASE sig \in handled /\ stage = "serving"
      <3>1. /\ RunShutdownOnce("none") /\ exitAfter' = TRUE
            /\ handled' = handled \ {sig} /\ exited' = exited
        BY <1>18, <2>3 DEF Signal
      <3> QED
        BY <2>1, <2>3, <3>1, SharedTeardown
    <2>4. CASE sig \in handled /\ stage # "serving"
      <3>1. /\ handled' = handled \ {sig} /\ graceful' = TRUE
            /\ proc' = Killing(Fnns \cup set)
            /\ stops' = [stops EXCEPT !["signal"] =
                            IF @ = "no" THEN "running" ELSE @]
            /\ UNCHANGED <<shutdown, proxy, exitAfter, exited>>
        BY <1>18, <2>4 DEF Signal
      <3> QED
        BY <2>1, <2>4, <3>1 DEF Killing
    <2> QED
      BY <2>2, <2>3, <2>4
  <1>19. CASE BrokenPipe
    BY <1>19 DEF BrokenPipe
  <1>20. ASSUME NEW c \in Components, ChildDies(c)
       PROVE  Structure'
    BY <1>20 DEF ChildDies
  <1>21. CASE UNCHANGED vars
    BY <1>21 DEF vars
  <1> QED
    BY <1>1, <1>2, <1>3, <1>4, <1>5, <1>6, <1>7, <1>8, <1>9, <1>9a, <1>10,
       <1>11, <1>12, <1>13, <1>14, <1>15, <1>16, <1>17, <1>18, <1>19, <1>20, <1>21
       DEF Next, FlowSteps, Environment

LEMMA NextExits == TypeOK /\ Structure /\ Exits /\ [Next]_vars => Exits'
  <1> SUFFICES ASSUME TypeOK, Structure, Exits, [Next]_vars
               PROVE  Exits'
    OBVIOUS
  <1> USE FnnsAssumption DEF TypeOK, Structure, BeforeFnns, TeardownStages,
          TeardownWork, NothingAlive, NoFnnRuns, Components, FiberStartup,
          Signals,
          Stoppers, Running, children, records, ending, flow,
          Exits, CleanExit, ExitAwaitsCleanup, PipeSparesTeardown, Ended
  <1>1. CASE CkbReady
    BY <1>1 DEF CkbReady, Flow
  <1>2. CASE CkbFails
    BY <1>2 DEF CkbFails, Flow, Throws, Killing
  <1>3. CASE MinerFails
    BY <1>3 DEF MinerFails, Flow, Throws, Killing
  <1>4. CASE CkbGoneAtMiner
    BY <1>4 DEF CkbGoneAtMiner, Flow, Gone
  <1>5. CASE ProxyListens
    BY <1>5 DEF ProxyListens, MinerSpawned, Flow
  <1>6. CASE ProxyPortTaken
    BY <1>6 DEF ProxyPortTaken, MinerSpawned, Flow
  <1>7. CASE StartFnns
    BY <1>7 DEF StartFnns, Flow
  <1>8. CASE PrepFails
    BY <1>8 DEF PrepFails, Flow, Throws, Killing
  <1>9. CASE SpawnFails
    BY <1>9 DEF SpawnFails, Flow, StopsFnns
  <1>9a. CASE RuntimeWriteFails
    BY <1>9a DEF RuntimeWriteFails, Flow, Killing
  <1>10. ASSUME NEW f \in Fnns, FnnAnswers(f)
       PROVE  Exits'
    BY <1>10 DEF FnnAnswers, Flow
  <1>11. CASE ChecksPass
    BY <1>11 DEF ChecksPass, Flow
  <1>12. CASE FiberReady
    BY <1>12 DEF FiberReady, Flow
  <1>13. CASE FiberFails
    BY <1>13 DEF FiberFails, Flow, StopsFnns, Killing
  <1>14. ASSUME NEW c \in Components, DispatchExit(c)
       PROVE  Exits'
    <2>1. /\ c \in unseen /\ unseen' = unseen \ {c} /\ exited = "no"
          /\ UNCHANGED <<flow, records, exitAfter, handled, exited>>
      BY <1>14 DEF DispatchExit
    <2>2. CASE stage = "serving"
      <3>1. RunShutdownOnce(c) /\ proc[c] = "dead"
        BY <1>14, <2>1, <2>2 DEF DispatchExit
      <3> QED
        BY <2>1, <2>2, <3>1, SharedTeardown
    <2>3. CASE stage # "serving"
      BY <1>14, <2>1, <2>3 DEF DispatchExit
    <2> QED
      BY <2>2, <2>3
  <1>15. ASSUME NEW w \in Stoppers, FnnsStopped(w)
       PROVE  Exits'
    <2>1. /\ exited = "no" /\ stops[w] = "running" /\ runtime' = "none"
          /\ stops' = [stops EXCEPT ![w] = "done"]
          /\ UNCHANGED <<fiber, answered, exitAfter, graceful>>
      BY <1>15 DEF FnnsStopped
    <2>2. CASE w = "flow"
      BY <1>15, <2>1, <2>2 DEF FnnsStopped
    <2>3. CASE w = "signal"
      <3>1. exited' = "exit" /\ stops'["signal"] = "done"
        BY <1>15, <2>1, <2>3 DEF FnnsStopped
      <3>2. \A f \in Fnns : ~Running(f)'
        BY <1>15 DEF FnnsStopped
      <3> QED
        BY <2>1, <3>1, <3>2
    <2>4. CASE w = "shutdown"
      <3>1. shutdown' = "done" /\ stops'["shutdown"] = "done"
        BY <1>15, <2>1, <2>4 DEF FnnsStopped
      <3>2. stops["flow"] # "running" /\ NothingAlive
        BY <2>1, <2>4
      <3>3. proc' = [c \in Components |->
                       IF c \in Fnns /\ Running(c) THEN "dead" ELSE proc[c]]
        BY <1>15, <2>4 DEF FnnsStopped
      <3>4. exited' \in {"no", "exit"}
        BY <1>15, <2>4 DEF FnnsStopped
      <3> QED
        BY <2>1, <2>4, <3>1, <3>2, <3>3, <3>4
    <2> QED
      BY <2>2, <2>3, <2>4
  <1>16. CASE ExitAfterShutdown
    BY <1>16 DEF ExitAfterShutdown
  <1>17. CASE Drain
    BY <1>17, ZenonT(30) DEF Drain
  <1>18. ASSUME NEW sig \in Signals, NEW set \in {{}, Components}, Signal(sig, set)
       PROVE  Exits'
    <2>1. UNCHANGED <<flow, unseen, records>> /\ exited = "no"
      BY <1>18 DEF Signal
    <2>2. CASE sig \notin handled
      <3>1. /\ exited' = "killed" /\ proc' = Killing(set)
            /\ UNCHANGED <<handled, graceful, stops, shutdown, proxy, exitAfter>>
        BY <1>18, <2>2 DEF Signal
      <3> QED
        BY <2>1, <3>1 DEF Killing
    <2>3. CASE sig \in handled /\ stage = "serving"
      <3>1. /\ RunShutdownOnce("none") /\ exitAfter' = TRUE
            /\ handled' = handled \ {sig} /\ exited' = exited
        BY <1>18, <2>3 DEF Signal
      <3> QED
        BY <2>1, <2>3, <3>1, SharedTeardown
    <2>4. CASE sig \in handled /\ stage # "serving"
      <3>1. /\ handled' = handled \ {sig} /\ graceful' = TRUE
            /\ proc' = Killing(Fnns \cup set)
            /\ stops' = [stops EXCEPT !["signal"] =
                            IF @ = "no" THEN "running" ELSE @]
            /\ UNCHANGED <<shutdown, proxy, exitAfter, exited>>
        BY <1>18, <2>4 DEF Signal
      <3> QED
        BY <2>1, <2>4, <3>1 DEF Killing
    <2> QED
      BY <2>2, <2>3, <2>4
  <1>19. CASE BrokenPipe
    BY <1>19 DEF BrokenPipe
  <1>20. ASSUME NEW c \in Components, ChildDies(c)
       PROVE  Exits'
    BY <1>20 DEF ChildDies
  <1>21. CASE UNCHANGED vars
    BY <1>21 DEF vars
  <1> QED
    BY <1>1, <1>2, <1>3, <1>4, <1>5, <1>6, <1>7, <1>8, <1>9, <1>9a, <1>10,
       <1>11, <1>12, <1>13, <1>14, <1>15, <1>16, <1>17, <1>18, <1>19, <1>20, <1>21
       DEF Next, FlowSteps, Environment

LEMMA Invariance == Spec => [](TypeOK /\ Structure /\ Exits)
  BY InitInv, NextTyped, NextStructure, NextExits, PTL DEF Spec

-----------------------------------------------------------------------------
(* Every variable has its type, and the exit of a child is pending only if  *)
(* the child is dead, for any number of FNNs.                               *)
THEOREM SupervisorTyped == Spec => []TypeOK
  BY Invariance, PTL

(* A manager that ends by itself leaves no FNN and no runtime record, and   *)
(* has told CKB and the miner to end unless a signal came while the FNNs    *)
(* were starting (stopFiberNodes, runShutdownOnce, onStartupSignal).        *)
THEOREM ExitIsClean == Spec => []CleanExit
  <1>1. Exits => CleanExit
    BY DEF Exits
  <1> QED
    BY <1>1, Invariance, PTL

(* Whoever asks second for the end awaits the teardown that is under way    *)
(* (runShutdownOnce, onSignal).                                             *)
THEOREM CleanupIsAwaited == Spec => []ExitAwaitsCleanup
  <1>1. Exits => ExitAwaitsCleanup
    BY DEF Exits
  <1> QED
    BY <1>1, Invariance, PTL

(* A broken pipe ends no process that is being torn down (the EPIPE handler *)
(* of util/shutdown.ts).                                                    *)
THEOREM TeardownSurvivesPipe == Spec => []PipeSparesTeardown
  <1>1. Exits => PipeSparesTeardown
    BY DEF Exits
  <1> QED
    BY <1>1, Invariance, PTL

=============================================================================
