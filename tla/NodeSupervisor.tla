--------------------------- MODULE NodeSupervisor ---------------------------
(***************************************************************************)
(* One run of offckb node, with or without --fiber: runNodeDevnet of       *)
(* src/src/cmd/node.ts and startFiberEnvironment, stopFiberNodes of        *)
(* src/src/fiber/manager.ts.                                               *)
(*                                                                         *)
(* The manager starts CKB, the miner, the RPC proxy and the FNNs one after *)
(* the other and then supervises them as one service.  A step is one turn  *)
(* of its event loop, or something a child process or the user does in     *)
(* between.  A child that dies is first seen when its exit event is        *)
(* dispatched; an event that is dispatched before a handler is installed   *)
(* is lost.                                                                *)
(***************************************************************************)
EXTENDS FiniteSets, Naturals

CONSTANT Fnns  \* the FNN nodes of the --fiber mode

Components == {"ckb", "miner"} \cup Fnns

ASSUME FnnsAssumption ==
  Fnns # {} /\ Fnns \cap {"ckb", "miner", "none"} = {}

VARIABLES
  fiber,    \* the --fiber mode
  stage,    \* where runNodeDevnet is
  answered, \* the FNNs whose RPC has answered
  proc,     \* proc[c]: the child process c
  unseen,   \* dead children whose exit event has not been dispatched
  proxy,    \* the RPC proxy listens
  lock,     \* the environment lock is held
  runtime,  \* what runtime.json says of this manager
  stops,    \* stops[w]: the stopFiberNodes call made by w
  shutdown, \* runShutdownOnce: "no", "running" or "done"
  exitAfter,\* a signal handler waits to call process.exit
  handled,  \* the signals that have a handler
  graceful, \* enterGracefulShutdown was called
  exited    \* how the manager ended, or "no"

children == <<proc, unseen>>
records  == <<lock, runtime>>
ending   == <<stops, shutdown, exitAfter, graceful>>
flow     == <<fiber, stage, answered>>
vars     == <<flow, children, proxy, records, ending, handled, exited>>

Signals == {"SIGINT", "SIGTERM"}
Stoppers == {"flow", "signal", "shutdown"}

(* The stages in which the handlers of startFiberEnvironment are installed. *)
FiberStartup == {"fiberWait", "fiberConnect", "fiberFailing"}

Running(c) == proc[c] \in {"alive", "term"}

(* The exit event of c was dispatched: exitCode or signalCode is set.      *)
Gone(c) == proc[c] = "dead" /\ c \notin unseen

(* Mutant: kill does not look whether there is a process. *)
Killing_Mutant(set) ==
  [c \in Components |-> IF c \in set THEN "term" ELSE proc[c]]

(* c.kill('SIGTERM') for each c in the set that still runs.                *)
Killing(set) ==
  [c \in Components |->
     IF c \in set /\ proc[c] = "alive" THEN "term" ELSE proc[c]]

Init ==
  /\ fiber \in BOOLEAN
  /\ stage = "ckbWait"
  /\ answered = {}
  /\ proc = [c \in Components |-> IF c = "ckb" THEN "alive" ELSE "none"]
  /\ unseen = {}
  /\ proxy = FALSE
  /\ lock = fiber
  /\ runtime = "none"
  /\ stops = [w \in Stoppers |-> "no"]
  /\ shutdown = "no"
  /\ exitAfter = FALSE
  /\ handled = {}
  /\ graceful = FALSE
  /\ exited = "no"

-----------------------------------------------------------------------------
(* The flow of runNodeDevnet *)

Flow(from) == exited = "no" /\ stage = from

(* The flow throws after signalling the children in the set; the lock is    *)
(* released on the way out.                                                 *)
Throws(set) ==
  /\ stage' = "failed"
  /\ proc' = Killing(set)
  /\ proxy' = FALSE
  /\ lock' = FALSE
  /\ handled' = {}

(* stopFiberNodes, called by w: SIGTERM to every FNN that runs. *)
StopsFnns(w) == stops' = [stops EXCEPT ![w] = "running"]

(* CKB is ready and its exit was not seen.  On a forked devnet the flow now *)
(* waits to clear the first-run marker; then it spawns the miner.           *)
CkbReady ==
  /\ Flow("ckbWait")
  /\ ~Gone("ckb")
  /\ stage' = "minerSpawn"
  /\ UNCHANGED <<fiber, answered, children, proxy, records, ending, handled, exited>>

(* CKB has exited, or does not answer in time. *)
CkbFails ==
  /\ Flow("ckbWait")
  /\ Throws({"ckb"})
  /\ UNCHANGED <<fiber, answered, unseen, runtime, ending, exited>>

(* spawn or waitForChildSpawn fails: there is no miner. *)
MinerFails ==
  /\ Flow("minerSpawn")
  /\ Throws({"ckb"})
  /\ UNCHANGED <<fiber, answered, unseen, runtime, ending, exited>>

(* CKB went away before the miner was there; the miner is signalled.       *)
CkbGoneAtMiner ==
  /\ Flow("minerSpawn")
  /\ Gone("ckb")
  /\ stage' = "failed"
  /\ proc' = [proc EXCEPT !["miner"] = "term"]
  /\ lock' = FALSE
  /\ UNCHANGED <<fiber, answered, unseen, proxy, runtime, ending, handled, exited>>

(* The miner is there and CKB's exit was not seen. *)
MinerSpawned ==
  /\ Flow("minerSpawn")
  /\ ~Gone("ckb")
  /\ stage' = IF fiber THEN "fnnPrep" ELSE "serving"
  /\ proc' = [proc EXCEPT !["miner"] = "alive"]
  /\ UNCHANGED <<fiber, answered, unseen, records, ending, handled>>

(* The proxy listens; without --fiber the exit handlers are installed in    *)
(* the same turn.                                                           *)
ProxyListens ==
  /\ MinerSpawned
  /\ proxy' = TRUE
  /\ UNCHANGED exited

(* The proxy port is taken: the server's error event has no handler.       *)
ProxyPortTaken ==
  /\ MinerSpawned
  /\ exited' = "crash"
  /\ UNCHANGED proxy

(* The FNN binary is there and the ports are free: signal handlers, FNNs    *)
(* and the runtime record, in one turn.                                     *)
StartFnns ==
  /\ Flow("fnnPrep")
  /\ stage' = "fiberWait"
  /\ handled' = Signals
  /\ proc' = [c \in Components |-> IF c \in Fnns THEN "alive" ELSE proc[c]]
  /\ runtime' = "starting"
  /\ UNCHANGED <<fiber, answered, unseen, proxy, lock, ending, exited>>

(* No binary, another live manager, or a port in use: stopStartedProcesses. *)
PrepFails ==
  /\ Flow("fnnPrep")
  /\ Throws({"ckb", "miner"})
  /\ UNCHANGED <<fiber, answered, unseen, runtime, ending, exited>>

(* A later spawn throws: the FNNs started so far are stopped again. *)
SpawnFails ==
  /\ Flow("fnnPrep")
  /\ \E started \in SUBSET Fnns \ {Fnns} :
       proc' = [c \in Components |-> IF c \in started THEN "term" ELSE proc[c]]
  /\ stage' = "fiberFailing"
  /\ handled' = Signals
  /\ StopsFnns("flow")
  /\ UNCHANGED <<fiber, answered, unseen, proxy, records, shutdown, exitAfter,
                 graceful, exited>>

(* The runtime record cannot be written.  That is outside the try that      *)
(* stops the FNNs, so CKB and the miner are signalled and the FNNs are not. *)
RuntimeWriteFails ==
  /\ Flow("fnnPrep")
  /\ stage' = "failed"
  /\ proc' = [c \in Components |->
                IF c \in Fnns THEN "alive" ELSE Killing({"ckb", "miner"})[c]]
  /\ proxy' = FALSE
  /\ lock' = FALSE
  /\ UNCHANGED <<fiber, answered, unseen, runtime, ending, handled, exited>>

(* waitForAllNodeInfo: f answers.  An FNN that has answered is not asked    *)
(* again.                                                                   *)
FnnAnswers(f) ==
  /\ Flow("fiberWait")
  /\ Running(f)
  /\ answered' = answered \cup {f}
  /\ UNCHANGED <<fiber, stage, children, proxy, records, ending, handled, exited>>

(* All have answered, and the chain and the account checks passed over      *)
(* CKB's RPC.                                                               *)
ChecksPass ==
  /\ Flow("fiberWait")
  /\ answered = Fnns
  /\ Running("ckb")
  /\ stage' = "fiberConnect"
  /\ UNCHANGED <<fiber, answered, children, proxy, records, ending, handled, exited>>

(* connectFiberPeers finds all peers connected, if there are any; then the  *)
(* environment is recorded, the startup handlers are replaced and the exit  *)
(* handlers installed, in one turn.                                         *)
FiberReady ==
  /\ Flow("fiberConnect")
  /\ Cardinality(Fnns) > 1 => \A f \in Fnns : Running(f)
  /\ stage' = "serving"
  /\ runtime' = "running"
  /\ lock' = FALSE
  /\ handled' = Signals
  /\ UNCHANGED <<fiber, answered, children, proxy, ending, exited>>

(* An FNN exited, did not answer in time, or a check failed.               *)
FiberFails ==
  /\ \/ Flow("fiberWait") \/ Flow("fiberConnect")
  /\ stage' = "fiberFailing"
  /\ StopsFnns("flow")
  /\ proc' = Killing(Fnns)
  /\ UNCHANGED <<fiber, answered, unseen, proxy, records, shutdown, exitAfter, graceful,
                 handled, exited>>

-----------------------------------------------------------------------------
(* Mutant: the teardown stops the FNNs and leaves CKB and the miner alone.  *)
RunShutdownOnce_MutantKeeps(failed) ==
  IF shutdown = "no"
    THEN /\ graceful' = TRUE
         /\ proc' = Killing(Fnns \ {failed})
         /\ proxy' = FALSE
         /\ shutdown' = IF fiber THEN "running" ELSE "done"
         /\ IF fiber THEN StopsFnns("shutdown") ELSE UNCHANGED stops
    ELSE UNCHANGED <<graceful, proc, proxy, shutdown, stops>>

(* Mutant: the teardown does not call enterGracefulShutdown. *)
RunShutdownOnce_MutantPipe(failed) ==
  IF shutdown = "no"
    THEN /\ proc' = Killing(Components \ {failed})
         /\ proxy' = FALSE
         /\ shutdown' = IF fiber THEN "running" ELSE "done"
         /\ IF fiber THEN StopsFnns("shutdown") ELSE UNCHANGED stops
         /\ UNCHANGED graceful
    ELSE UNCHANGED <<graceful, proc, proxy, shutdown, stops>>

(* runShutdownOnce: everything but the component that failed is signalled;  *)
(* without FNNs the teardown ends in the same turn.                         *)
RunShutdownOnce(failed) ==
  IF shutdown = "no"
    THEN /\ graceful' = TRUE
         /\ proc' = Killing(Components \ {failed})
         /\ proxy' = FALSE
         /\ shutdown' = IF fiber THEN "running" ELSE "done"
         /\ IF fiber THEN StopsFnns("shutdown") ELSE UNCHANGED stops
    ELSE UNCHANGED <<graceful, proc, proxy, shutdown, stops>>

(* Mutant: the miner has no exit handler. *)
DispatchExit_Mutant(c) ==
  /\ exited = "no"
  /\ c \in unseen
  /\ unseen' = unseen \ {c}
  /\ IF stage = "serving" /\ c # "miner"
       THEN RunShutdownOnce(c)
       ELSE UNCHANGED <<graceful, proc, proxy, shutdown, stops>>
  /\ UNCHANGED <<flow, records, exitAfter, handled, exited>>

(* The exit event of c reaches the handlers that are installed now.        *)
DispatchExit(c) ==
  /\ exited = "no"
  /\ c \in unseen
  /\ unseen' = unseen \ {c}
  /\ IF stage = "serving"
       THEN RunShutdownOnce(c)
       ELSE UNCHANGED <<graceful, proc, proxy, shutdown, stops>>
  /\ UNCHANGED <<flow, records, exitAfter, handled, exited>>

(* stopFiberNodes ends: all exits were seen, or the grace period is over    *)
(* and the rest gets SIGKILL.  The runtime record of this manager goes.     *)
FnnsStopped(w) ==
  /\ exited = "no"
  /\ stops[w] = "running"
  /\ LET rest == {f \in Fnns : Running(f)} IN
       /\ unseen' = unseen \cup rest
       /\ proc' = [c \in Components |->
                     CASE w = "flow" /\ c \in {"ckb", "miner"} -> Killing({c})[c]
                       [] c \in rest -> "dead"
                       [] OTHER      -> proc[c]]
  /\ runtime' = "none"
  /\ stops' = [stops EXCEPT ![w] = "done"]
  /\ CASE w = "flow" ->
            /\ stage' = "failed"
            /\ proxy' = FALSE
            /\ lock' = FALSE
            /\ handled' = {}
            /\ UNCHANGED <<shutdown, exited>>
       [] w = "signal" ->
            /\ exited' = "exit"
            /\ UNCHANGED <<stage, proxy, lock, handled, shutdown>>
       [] w = "shutdown" ->
            /\ shutdown' = "done"
            /\ lock' = FALSE
            /\ exited' = IF exitAfter THEN "exit" ELSE "no"
            /\ UNCHANGED <<stage, proxy, handled>>
  /\ UNCHANGED <<fiber, answered, exitAfter, graceful>>

(* Mutant: the signal handler does not await the shared cleanup. *)
ExitAfterShutdown_Mutant ==
  /\ exited = "no"
  /\ exitAfter
  /\ exited' = "exit"
  /\ UNCHANGED <<flow, children, proxy, records, ending, handled>>

(* A shutdown that was over when the signal came: process.exit at once.    *)
ExitAfterShutdown ==
  /\ exited = "no"
  /\ exitAfter /\ shutdown = "done"
  /\ exited' = "exit"
  /\ UNCHANGED <<flow, children, proxy, records, ending, handled>>

(* Nothing is left to keep the event loop alive. *)
Drain ==
  /\ exited = "no"
  /\ stage = "failed" \/ shutdown = "done"
  /\ \A c \in Components : ~Running(c)
  /\ unseen = {}
  /\ \A w \in Stoppers : stops[w] # "running"
  /\ exited' = "exit"
  /\ UNCHANGED <<flow, children, proxy, records, ending, handled>>

-----------------------------------------------------------------------------
(* A signal to the manager alone, or to the whole process group.  Each      *)
(* handler is installed with once(): a second signal of the same name ends  *)
(* the process, like a signal without a handler.                            *)
Signal(sig, set) ==
  /\ exited = "no"
  /\ IF sig \notin handled
       THEN /\ exited' = "killed"
            /\ proc' = Killing(set)
            /\ UNCHANGED <<handled, graceful, stops, shutdown, proxy, exitAfter>>
       ELSE /\ handled' = handled \ {sig}
            /\ UNCHANGED exited
            /\ IF stage = "serving"
                 THEN /\ exitAfter' = TRUE
                      /\ RunShutdownOnce("none")
                 ELSE /\ graceful' = TRUE
                      /\ proc' = Killing(Fnns \cup set)
                      /\ stops' = [stops EXCEPT !["signal"] =
                                     IF @ = "no" THEN "running" ELSE @]
                      /\ UNCHANGED <<shutdown, proxy, exitAfter>>
  /\ UNCHANGED <<flow, unseen, records>>

(* The reader of a piped stdout or stderr goes away. *)
BrokenPipe ==
  /\ exited = "no"
  /\ ~graceful
  /\ exited' = "pipe"
  /\ UNCHANGED <<flow, children, proxy, records, ending, handled>>

(* A child process ends, signalled or not. *)
ChildDies(c) ==
  /\ Running(c)
  /\ proc' = [proc EXCEPT ![c] = "dead"]
  /\ unseen' = unseen \cup {c}
  /\ UNCHANGED <<flow, proxy, records, ending, handled, exited>>

-----------------------------------------------------------------------------
FlowSteps ==
  \/ CkbReady \/ CkbFails \/ MinerFails \/ CkbGoneAtMiner
  \/ ProxyListens \/ ProxyPortTaken
  \/ StartFnns \/ PrepFails \/ SpawnFails \/ RuntimeWriteFails
  \/ \E f \in Fnns : FnnAnswers(f)
  \/ ChecksPass \/ FiberReady \/ FiberFails

Environment ==
  \/ \E sig \in Signals, set \in {{}, Components} : Signal(sig, set)
  \/ BrokenPipe
  \/ \E c \in Components : ChildDies(c)

Next ==
  \/ FlowSteps
  \/ \E c \in Components : DispatchExit(c)
  \/ \E w \in Stoppers : FnnsStopped(w)
  \/ ExitAfterShutdown
  \/ Drain
  \/ Environment

Spec == Init /\ [][Next]_vars

(* The event loop runs, every wait of the flow has a time limit, and a      *)
(* child that got SIGTERM ends.                                             *)
FairSpec ==
  /\ Spec
  /\ WF_vars(FlowSteps)
  /\ \A c \in Components :
       WF_vars(DispatchExit(c)) /\ WF_vars(proc[c] = "term" /\ ChildDies(c))
  /\ \A w \in Stoppers : WF_vars(FnnsStopped(w))
  /\ WF_vars(ExitAfterShutdown) /\ WF_vars(Drain)

-----------------------------------------------------------------------------
(* Properties *)

Ended == {"none", "term", "dead"}

(* Every variable has its type; without --fiber there is no FNN and no      *)
(* runtime record; only the exit of a dead child can be pending.            *)
TypeOK ==
  /\ fiber \in BOOLEAN /\ proxy \in BOOLEAN /\ lock \in BOOLEAN
  /\ exitAfter \in BOOLEAN /\ graceful \in BOOLEAN
  /\ stage \in {"ckbWait", "minerSpawn", "fnnPrep", "serving", "failed"}
              \cup FiberStartup
  /\ answered \subseteq Fnns
  /\ proc \in [Components -> {"none", "alive", "term", "dead"}]
  /\ unseen \subseteq {c \in Components : proc[c] = "dead"}
  /\ runtime \in {"none", "starting", "running"}
  /\ stops \in [Stoppers -> {"no", "running", "done"}]
  /\ shutdown \in {"no", "running", "done"}
  /\ handled \subseteq Signals
  /\ exited \in {"no", "exit", "killed", "pipe", "crash"}
  /\ ~fiber => runtime = "none" /\ \A f \in Fnns : proc[f] = "none"

(* A manager that ends by itself leaves no FNN behind and no runtime record *)
(* (stopFiberNodes), and CKB and the miner have got their SIGTERM, unless a *)
(* signal came while the FNNs were starting: onStartupSignal stops the FNNs *)
(* only.                                                                    *)
CleanExit ==
  exited = "exit" =>
    /\ runtime = "none"
    /\ \A f \in Fnns : ~Running(f)
    /\ stops["signal"] # "done" => \A c \in Components : proc[c] \in Ended

(* Whoever fires second awaits the cleanup in progress (the comment on      *)
(* runShutdownOnce): the process never exits in the middle of a teardown it *)
(* started itself.  Left out is the exit of a handler of fiber startup that *)
(* is still at work when the environment becomes ready.                     *)
ExitAwaitsCleanup ==
  exited = "exit" /\ stops["signal"] = "no" =>
    /\ shutdown # "running"
    /\ \A w \in Stoppers : stops[w] # "running"

(* A broken pipe does not cut a teardown that a signal or the exit of a     *)
(* component started (util/shutdown.ts).                                    *)
PipeSparesTeardown ==
  exited = "pipe" => shutdown = "no" /\ stops["signal"] = "no"

(* The start has failed, and FNNs run that nothing has signalled: the live  *)
(* children keep the manager up.                                            *)
FnnsForgotten == stage = "failed" /\ \E f \in Fnns : proc[f] = "alive"

(* A failed start, and the exit of any component that is seen while the     *)
(* service runs, end the service: the manager exits.  The exception is the  *)
(* start that fails on writeRuntime (manager.ts:373): the manager lives on  *)
(* for as long as the FNNs do that it has forgotten.                        *)
FailureEndsService ==
  (stage = "failed" /\ ~FnnsForgotten) \/ (stage = "serving" /\ unseen # {})
    ~> exited # "no"

(* "Treat CKB, miner, proxy and the FNNs as one service.  A dead component  *)
(* must not leave the rest looking healthy" (runNodeDevnet): once the       *)
(* service runs, a dead component brings the rest down.                     *)
NoHalfDeadService ==
  stage = "serving" /\ (\E c \in Components : proc[c] = "dead")
    ~> exited # "no" \/ \A c \in Components : proc[c] \in Ended

=============================================================================
