------------------------------ MODULE DevnetDir ------------------------------
(***************************************************************************)
(* The commands that share the devnet directory, together: offckb node     *)
(* (FirstRun), devnet fork and the signing commands (ForkDevnet), devnet   *)
(* config (ConfigTui).  None of them takes a lock.                         *)
(***************************************************************************)
EXTENDS ForkDevnet, ConfigTui

CONSTANTS
  Actors,      \* sets of commands: {"boot", "fork", "edit"}, ...
  InitialDirs  \* the directories they may find, by actors

(* The values that the files hold.                                          *)
Options == {"Net", "Terminal", CustomModule, "Sync", "Identify"}
Tomls ==
  [listen : {Missing, "ok", "bad"}, modules : {Missing} \cup SUBSET Options,
   protocols : {Missing} \cup SUBSET Options, tcp : {Missing, "ok", "odd"},
   isolated : BOOLEAN, addrs : {Missing} \cup Seq({"p", "q"}), layout : Layouts]
CkbFiles == {Missing, Broken} \cup Tomls
MinerUrls == {"raw", "rpc", "bad"}
Dirs ==
  [exists : BOOLEAN, ckb : CkbFiles, miner : {Missing, Broken} \cup MinerUrls,
   spec : {Missing, Broken, "bundled", "imported", "patched"},
   data : {"none", "own", "partial", "mixed", "copied"},
   stored : {"none", "own", "source"}, format : {"old", "new"}, fork : ForkStates,
   copied : 0 .. MaxTip, tip : 0 .. MaxTip]

ASSUME MarkerAssumption ==
  /\ Missing # Broken
  /\ \A marker \in {Missing, Broken} :
       /\ marker \notin Tomls
       /\ \A options \in SUBSET Options : marker # options
       /\ marker \notin {"ok", "bad", "odd", "raw", "rpc", "bundled", "imported", "patched"}

ASSUME TipAssumption == MaxTip \in Nat /\ MaxTip >= 2

(* What a command may find: a directory of the user's, or a fork that was   *)
(* completed.  ckb takes an empty rpc.modules; only the editor refuses it.  *)
ValidCkb(toml) ==
  /\ IsToml(toml) /\ toml.listen = "ok" /\ toml.modules # Missing
  /\ toml.protocols # Missing /\ {"Sync", "Identify"} \subseteq toml.protocols
FoundFork(d) ==
  /\ d.data = "copied" /\ d.spec = "patched" /\ d.format = "new"
  /\ d.ckb # Missing /\ d.ckb.isolated
  /\ d.fork.pending \/ (d.stored = "own" /\ d.copied <= d.fork.boundary)
Found(d) ==
  /\ d \in Dirs
  /\ ~d.exists => d = Absent
  /\ d.ckb # Missing => ValidCkb(d.ckb)
  /\ d.miner \in {Missing, "rpc"}
  /\ d.copied <= d.tip
  /\ \/ d.fork = NoFork /\ d.data \in {"none", "own"} /\ d.stored # "source"
     \/ d.fork # NoFork /\ FoundFork(d)

ASSUME FoundAssumption ==
  \A a \in Actors : \A d \in InitialDirs[a] : Found(d)

vars == <<dir, gaps, bootVars, forkVars, tuiVars, actors>>

Init ==
  /\ actors \in Actors
  /\ dir \in InitialDirs[actors]
  /\ gaps \in {{}, {"unlisted"}}
  /\ FirstRunInit /\ ForkInit /\ TuiInit

UnseenByBoot == IF fork.pc \in Replacing THEN {"overlap"} ELSE {}

Next ==
  /\ \/ "boot" \in actors /\ BootNext(UnseenByBoot) /\ UNCHANGED <<forkVars, tuiVars>>
     \/ "fork" \in actors /\ ForkSteps /\ UNCHANGED tuiVars
     \/ "sign" \in actors /\ SignSteps /\ UNCHANGED tuiVars
     \/ "other" \in actors /\ OtherNext /\ UNCHANGED <<forkVars, tuiVars>>
     \/ "edit" \in actors /\ TuiNext /\ UNCHANGED <<bootVars, forkVars>>
  /\ UNCHANGED actors

Spec == Init /\ [][Next]_vars

-----------------------------------------------------------------------------
(* Every variable has its type.                                             *)
Entries ==
  {<<>>, <<"rpc">>, <<"tcp">>, <<"addrs">>, <<"isolated">>, <<"modules">>, <<"protocols">>,
   <<"listen">>, <<"miner">>}
    \cup {"addrs"} \X Nat
Loaded == [ckb : Tomls, miner : {Missing} \cup MinerUrls]
BootTyped ==
  /\ boot \in [pc : {"idle", "copy", "adapt", "rewrite", "spawn", "wait", "clear", "tip", "mine", "up"},
               version : Versions \cup {"new"}, had : CkbFiles, minerWas : BOOLEAN,
               flags : BOOLEAN, left : SUBSET RequiredConfigFiles, text : CkbFiles, started : Nat]
  /\ ckb \in [proc : {"none", "starting", "up"}, mining : BOOLEAN, db : {"dir", "gone"}]
  /\ other \in {"none", "same", "different"}
ForkTyped ==
  /\ fork \in [pc : {"idle", "guard"} \cup Replacing, source : {"none"} \cup ForkSources,
               needsMigration : BOOLEAN, migrate : BOOLEAN, force : BOOLEAN, started : Nat]
  /\ fork.pc # "idle" => fork.source \in ForkSources
  /\ sign \in [pc : {"idle", "send"}, boundary : 0 .. NoCheck]
  /\ spent \in BOOLEAN
TuiTyped ==
  /\ IF tui.pc = "closed" THEN docs = NoDocs /\ loaded = NoDocs
     ELSE docs \in Loaded /\ loaded \in Loaded
  /\ tui \in [pc : {"closed", "open", "write", "writeMiner"},
              dialog : {"none", "select", "edit", "add", "insert", "move", "delete", "quit"},
              entry : Entries, selected : SUBSET Options, dirty : BOOLEAN, edits : Nat,
              left : {"no", "clean", "discarded", "refused", "saved", "threw"},
              unsaved : BOOLEAN, opened : Nat]
TypeOK ==
  /\ dir \in Dirs /\ gaps \subseteq Gaps
  /\ BootTyped /\ ForkTyped /\ TuiTyped

(* "Leave no half-forked devnet behind" (fork.ts:578): copied chain data is *)
(* in a directory that is not being forked only with its patched spec, its  *)
(* migrated database and its fork.json - unless the fork was killed, or a   *)
(* node was starting at the same time.                                      *)
ForkAllOrNothing ==
  (fork.pc = "idle" /\ dir.data \in {"partial", "mixed", "copied"} /\ ~Uncovered({"crash", "overlap"}))
    => Forked /\ dir.data = "copied" /\ dir.spec = "patched" /\ dir.format = "new"

(* "A forked devnet must boot once with --skip-spec-check --overwrite-spec" *)
(* (node.ts:185): the flags stay until the spec in the fork's own database  *)
(* was replaced, whoever answers on the port meanwhile - unless the owner   *)
(* of a port cannot be determined.                                          *)
FirstRunFlagged ==
  (Forked /\ dir.stored = "source" /\ ~Uncovered({"unlisted", "overlap"}))
    => dir.fork.pending

(* "The transaction layer [rejects] inputs created at or before the fork    *)
(* boundary" (fork-safety.ts:37): no signed transaction spends a cell       *)
(* copied from Mainnet - unless the boundary came from another node, or the *)
(* devnet was forked anew after the check.                                  *)
SignedInputsLocal == spent => Uncovered({"unlisted", "overlap", "stale"})

(* A fork has no peers (isolateForkCkbConfig), after any sequence of boots, *)
(* migrations and saves - unless the user changed the network keys himself, *)
(* which validateBeforeSave lets pass, or an editor that had read the       *)
(* configuration of an earlier devnet saved it over the fork's.             *)
ForkIsolated ==
  (Forked /\ IsToml(dir.ckb) /\ ~Uncovered({"overlap", "stale", "peers"}))
    => dir.ckb.isolated

(* initChainIfNeeded "repair[s] an incomplete directory" (init-chain.ts:31) *)
(* and never rewrites what the user has: when ckb is spawned, every file is *)
(* there, the miner has a URL that is not the template's, and a ckb.toml    *)
(* found before has lost nothing - unless an earlier initialisation was     *)
(* killed half way, another command changed the files, or the migration     *)
(* patched a text it is not made for (see ConfigStaysValid).                *)
KeptBy(had, toml) ==
  /\ IsToml(toml)
  /\ [toml EXCEPT !.modules = had.modules, !.tcp = had.tcp] = had
  /\ had.tcp # Missing => toml.tcp = had.tcp
  /\ had.modules \subseteq toml.modules /\ toml.modules \subseteq had.modules \cup {"Terminal"}
BootRepairs ==
  (boot.pc \in {"wait", "clear", "tip", "mine", "up"} /\ "edit" \notin actors
     /\ ~Uncovered({"crash", "overlap", "misfit"}))
    => /\ IsInitialized /\ dir.miner # "raw"
       /\ IsToml(boot.had) => KeptBy(boot.had, dir.ckb)
       /\ boot.version = "old" => ~DevnetConfigHasTerminalRpc(dir.ckb)

(* A configuration that was valid stays valid, whatever is edited, saved,   *)
(* migrated or forked (validateBeforeSave; "node startup must never break   *)
(* over a migration", init-chain.ts:238) - unless a start found something   *)
(* to migrate in a file where rpc.modules is empty or not of the plain      *)
(* layout, or where tcp_listen_address is no text: then it may write a file *)
(* that is no TOML; or a crash has cut off a file that is written in place, *)
(* which nothing repairs.                                                   *)
ConfigStaysValid ==
  ~Uncovered({"misfit", "torn"}) =>
    /\ dir.ckb # Missing => ValidCkb(dir.ckb)
    /\ dir.miner # Missing => SaveableMiner(dir.miner)

(* A session with edits is left without asking only by a save, or because   *)
(* the save or the process failed (quitFlow, hasUnsavedChanges).            *)
EditsTracked ==
  /\ (tui.pc = "open" /\ docs # loaded) => tui.dirty
  /\ tui.left = "clean" => ~tui.unsaved
=============================================================================
