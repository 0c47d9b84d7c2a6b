------------------------------ MODULE FirstRun ------------------------------
(***************************************************************************)
(* offckb node on the devnet directory: initChainIfNeeded, the checks      *)
(* before the spawn, the first run of a fork with its flags, and the       *)
(* moment they are cleared (src/src/node/init-chain.ts,                    *)
(* src/src/cmd/node.ts).  Children, signals and exit handlers are the      *)
(* subject of NodeSupervisor; here a stop or a crash ends manager and      *)
(* children together.                                                      *)
(***************************************************************************)
EXTENDS DevnetFiles

CONSTANTS
  Versions,  \* of the CKB binary: "old", or "new" for a later or an unknown one
  MaxBoots   \* bound, by actors: so many times the node is started

VARIABLES
  boot,   \* offckb node: where it is, and what it has read
  ckb,    \* the spawned ckb process
  other   \* a node that is not ours and answers on the RPC port

bootVars == <<boot, ckb, other>>

IdleBoot(n) == [pc |-> "idle", version |-> "new", had |-> Missing, minerWas |-> FALSE,
                flags |-> FALSE, left |-> {}, text |-> Missing, started |-> n]
(* db: whether its database is still that of the directory.                 *)
NoCkb == [proc |-> "none", mining |-> FALSE, db |-> "dir"]
Initialising == boot.pc \in {"copy", "adapt", "rewrite"}
At(pc) == boot' = [boot EXCEPT !.pc = pc]

FirstRunInit ==
  /\ boot = IdleBoot(0)
  /\ ckb = NoCkb
  /\ other = "none"

-----------------------------------------------------------------------------
(* initChainIfNeeded                                                        *)
(* beside: what runs at the same time without being noticed.                *)
InitReads(beside) ==
  /\ boot.pc = "idle" /\ boot.started < MaxBoots[actors]
  /\ \E v \in Versions :
       boot' = [pc |-> IF IsInitialized THEN "adapt" ELSE "copy", version |-> v,
                had |-> dir.ckb, minerWas |-> dir.miner = Missing,
                flags |-> FALSE, left |-> IF IsInitialized THEN {} ELSE RequiredConfigFiles,
                text |-> Missing, started |-> boot.started + 1]
  /\ dir' = [dir EXCEPT !.exists = TRUE]
  /\ Noted(beside)
  /\ UNCHANGED <<ckb, other>>

(* The folder of the spec is created, and with it the devnet directory.     *)
InitCopies ==
  /\ boot.pc = "copy"
  /\ \E f \in boot.left :
       /\ dir.exists \/ f = "spec"
       /\ dir' = [dir EXCEPT !.exists = TRUE, ![f] = IF @ = Missing THEN Template[f] ELSE @]
       /\ boot' = [boot EXCEPT !.left = @ \ {f}]
  /\ UNCHANGED <<gaps, ckb, other>>

(* The raw template URL is replaced only when the file was missing before.  *)
InitRewrites ==
  /\ boot.pc = "copy" /\ boot.left = {}
  /\ boot.minerWas => dir.exists
  /\ dir' = [dir EXCEPT !.miner = IF boot.minerWas THEN "rpc" ELSE @]
  /\ boot' = [boot EXCEPT !.pc = "adapt"]
  /\ UNCHANGED <<gaps, ckb, other>>

Rewrites(toml) ==
  boot' = IF toml = dir.ckb THEN [boot EXCEPT !.pc = "spawn"]
          ELSE [boot EXCEPT !.pc = "rewrite", !.text = toml]
(* Mutant: Terminal is taken out of a file the user had, too.               *)
InitAdaptsAny ==
  /\ boot.pc = "adapt"
  /\ LET toml == IF SupportsTerminalRpcModule(boot.version) THEN dir.ckb
                 ELSE RemoveTerminalRpcModule(dir.ckb)
     IN Rewrites(MigrateLegacyDevnetRpcConfig(toml, boot.version))
  /\ UNCHANGED <<dir, gaps, ckb, other>>

(* ckb.toml is read here and written in the next step, if it is to change.  *)
InitAdapts ==
  /\ boot.pc = "adapt"
  /\ LET strip == boot.had = Missing /\ ~SupportsTerminalRpcModule(boot.version)
         toml  == IF strip THEN RemoveTerminalRpcModule(dir.ckb) ELSE dir.ckb
         new   == MigrateLegacyDevnetRpcConfig(toml, boot.version)
     IN /\ Rewrites(new)
        /\ Noted(IF new # toml /\ Misfit(toml) THEN {"misfit"} ELSE {})
  /\ UNCHANGED <<dir, ckb, other>>

(* "Any failure is non-fatal", here that the directory is not there.        *)
InitWrites ==
  /\ boot.pc = "rewrite"
  /\ dir' = IF dir.exists THEN [dir EXCEPT !.ckb = boot.text] ELSE dir
  /\ boot' = [boot EXCEPT !.pc = "spawn", !.text = Missing]
  /\ UNCHANGED <<gaps, ckb, other>>

(* The directory was removed under it.                                      *)
InitFails ==
  /\ boot.pc = "copy" /\ ~dir.exists
  /\ boot.left \ {"spec"} # {} \/ (boot.left = {} /\ boot.minerWas)
  /\ boot' = IdleBoot(boot.started)
  /\ UNCHANGED <<dir, gaps, ckb, other>>

-----------------------------------------------------------------------------
(* runNodeDevnet up to its miner                                            *)
BootRefuses ==
  /\ boot.pc = "spawn"
  /\ ~SupportsTerminalRpcModule(boot.version) /\ DevnetConfigHasTerminalRpc(dir.ckb)
  /\ boot' = IdleBoot(boot.started)
  /\ UNCHANGED <<dir, gaps, ckb, other>>

BootSpawns ==
  /\ boot.pc = "spawn"
  /\ SupportsTerminalRpcModule(boot.version) \/ ~DevnetConfigHasTerminalRpc(dir.ckb)
  /\ boot' = [boot EXCEPT !.pc = "wait", !.flags = dir.fork.pending]
  /\ ckb' = [NoCkb EXCEPT !.proc = "starting"]
  /\ UNCHANGED <<dir, gaps, other>>

(* External: ckb opens the database, binds the port, and stores its spec    *)
(* when it is told to.                                                      *)
CkbCanOpen ==
  /\ IsToml(dir.ckb)
  /\ \/ dir.data \in {"none", "own", "partial"} /\ dir.spec = "bundled"
     \/ dir.data = "mixed" \* it may
     \/ dir.data = "copied" /\ dir.format = "new" /\ dir.spec \in {"imported", "patched"}
        /\ (boot.flags \/ dir.stored = "own")
CkbOpens ==
  /\ ckb.proc = "starting" /\ other = "none" /\ CkbCanOpen
  /\ ckb' = [ckb EXCEPT !.proc = "up"]
  /\ dir' = [dir EXCEPT !.stored = "own",
                         !.data = IF @ = "none" THEN "own"
                                  ELSE IF @ = "partial" THEN "mixed" ELSE @]
  /\ UNCHANGED <<gaps, boot, other>>

CkbExits ==
  /\ ckb.proc # "none"
  /\ ckb' = NoCkb
  /\ UNCHANGED <<dir, gaps, boot, other>>

(* External: a node of the source chain, or of another one.                 *)
OtherStarts ==
  /\ other = "none" /\ ckb.proc # "up"
  /\ other' \in {"same", "different"}
  /\ UNCHANGED <<dir, gaps, boot, ckb>>

OtherStops ==
  /\ other # "none" /\ other' = "none"
  /\ UNCHANGED <<dir, gaps, boot, ckb>>

Answering == IF ckb.proc = "up" THEN "own" ELSE other

(* waitForNodeReady: whoever answers at the URL.                            *)
BootIsReady ==
  /\ boot.pc = "wait" /\ Answering # "none" /\ ckb.proc # "none"
  /\ At(IF boot.flags THEN "clear" ELSE "mine")
  /\ UNCHANGED <<dir, gaps, ckb, other>>

BootFails ==
  /\ boot.pc \in {"wait", "mine"}
  /\ boot.pc = "mine" => ckb.proc = "none"
  /\ boot' = IdleBoot(boot.started) /\ ckb' = NoCkb
  /\ UNCHANGED <<dir, gaps, other>>

(* clearForkFirstRunWhenNodeUp                                              *)
(* Mutant: the owner of the port is not looked at.                          *)
AnyoneAnswers == Answering # "none"
NotKnownForeign == Answering = "own" \/ "unlisted" \in gaps

ClearSeesGenesis ==
  /\ boot.pc = "clear" /\ ckb.proc # "none" /\ Answering # "none"
  /\ \/ Answering = "different" /\ At("mine")
     \/ Answering # "different" /\ NotKnownForeign /\ At("tip")
  /\ UNCHANGED <<dir, gaps, ckb, other>>

ClearReadsTip ==
  /\ boot.pc = "tip"
  /\ \/ /\ Answering = "none"
        /\ At("clear") /\ UNCHANGED <<dir, gaps>>
     \/ /\ Answering = "own"
        /\ \E tip \in IF ckb.db = "dir" THEN {dir.tip} ELSE 0 .. MaxTip :
             dir' = MarkForkFirstRunComplete(dir, tip)
        /\ At("mine") /\ UNCHANGED gaps
     \/ /\ Answering \in {"same", "different"}
        /\ \E tip \in 0 .. MaxTip : dir' = MarkForkFirstRunComplete(dir, tip)
        /\ At("mine") /\ Noted(IF "unlisted" \in gaps THEN {} ELSE {"stale"})
  /\ UNCHANGED <<ckb, other>>

ClearGivesUp ==
  /\ boot.pc = "clear"
  /\ At("mine")
  /\ UNCHANGED <<dir, gaps, ckb, other>>

BootMines ==
  /\ boot.pc = "mine" /\ ckb.proc # "none"
  /\ ckb' = [ckb EXCEPT !.mining = dir.miner = "rpc"]
  /\ At("up")
  /\ UNCHANGED <<dir, gaps, other>>

Mine ==
  /\ ckb.proc = "up" /\ ckb.db = "dir" /\ ckb.mining /\ dir.tip < MaxTip
  /\ dir' = [dir EXCEPT !.tip = @ + 1]
  /\ UNCHANGED <<gaps, bootVars>>

BootStops ==
  /\ boot.pc = "up"
  /\ boot' = IdleBoot(boot.started) /\ ckb' = NoCkb
  /\ UNCHANGED <<dir, gaps, other>>

(* The files that are written in place: a crash leaves them cut off.        *)
BeingWritten ==
  {f \in RequiredConfigFiles :
     \/ boot.pc = "copy" /\ f \in boot.left /\ dir[f] = Missing
     \/ boot.pc = "copy" /\ boot.left = {} /\ boot.minerWas /\ f = "miner"
     \/ boot.pc = "rewrite" /\ f = "ckb"}
BootCrashes ==
  /\ boot.pc # "idle"
  /\ boot' = IdleBoot(boot.started) /\ ckb' = NoCkb
  /\ \/ /\ Noted(IF Initialising THEN {"crash"} ELSE {})
        /\ UNCHANGED dir
     \/ /\ dir.exists /\ \E f \in BeingWritten : dir' = [dir EXCEPT ![f] = Broken]
        /\ Noted({"crash", "torn"})
  /\ UNCHANGED other

BootNext(beside) ==
  \/ InitReads(beside) \/ InitCopies \/ InitRewrites \/ InitAdapts \/ InitWrites \/ InitFails
  \/ BootRefuses \/ BootSpawns \/ BootIsReady \/ BootFails
  \/ ClearSeesGenesis \/ ClearReadsTip \/ ClearGivesUp
  \/ BootMines \/ BootStops \/ BootCrashes
  \/ CkbOpens \/ CkbExits \/ Mine

OtherNext == OtherStarts \/ OtherStops
=============================================================================
