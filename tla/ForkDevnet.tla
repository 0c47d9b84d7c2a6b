----------------------------- MODULE ForkDevnet -----------------------------
(***************************************************************************)
(* offckb devnet fork (src/src/devnet/fork.ts), beside the node that       *)
(* shares its directory, and the commands that sign transactions on the    *)
(* fork (src/src/util/fork-safety.ts, src/src/sdk/ckb.ts).                 *)
(*                                                                         *)
(* The fork takes no lock.  It looks for a ckb process and a daemon of the *)
(* devnet once, before it removes the old directory; the copy that follows *)
(* may take hours.                                                         *)
(***************************************************************************)
EXTENDS FirstRun

CONSTANT
  MaxForks   \* bound, by actors: so many forks are begun

VARIABLES
  fork,   \* the fork command: where it is, its options and what it found
  sign,   \* a command that signs: where it is, and the boundary it read
  spent   \* history: whether a copied Mainnet cell was spent

forkVars == <<fork, sign, spent>>

IdleFork(n) == [pc |-> "idle", source |-> "none", needsMigration |-> FALSE,
                migrate |-> FALSE, force |-> FALSE, started |-> n]
Replacing == {"remove", "copy", "init", "patch", "align", "migrate", "record"}
NoCheck == MaxTip + 1
IdleSign == [pc |-> "idle", boundary |-> NoCheck]
Forking(pc) == fork' = [fork EXCEPT !.pc = pc]

ForkInit ==
  /\ fork = IdleFork(0)
  /\ sign = IdleSign
  /\ spent = FALSE

-----------------------------------------------------------------------------
(* A command that has checked the old fork, or none, before it signs.       *)
OutOfDate == IF sign.pc # "idle" THEN {"stale"} ELSE {}

(* Source directory, CKB binary, database version, chain spec and genesis:  *)
(* a preflight that fails, and a dry run, end here, with nothing changed.   *)
ForkPreflights ==
  /\ fork.pc = "idle" /\ fork.started < MaxForks[actors]
  /\ \E source \in ForkSources, needs, migrate, force, dryRun \in BOOLEAN :
       fork' = IF dryRun THEN IdleFork(fork.started + 1)
               ELSE [pc |-> "guard", source |-> source, needsMigration |-> needs,
                     migrate |-> migrate, force |-> force, started |-> fork.started + 1]
  /\ UNCHANGED <<dir, gaps, bootVars, sign, spent>>

(* assertOffckbDevnetStopped sees a ckb process, and the manager of a       *)
(* daemon; a manager in the foreground that has not spawned ckb is unseen.  *)
DevnetSeenRunning == ckb.proc # "none"

ForkRefuses ==
  /\ fork.pc = "guard"
  /\ \/ DevnetSeenRunning
     \/ boot.pc # "idle" \* a daemon
     \/ fork.needsMigration /\ ~fork.migrate
     \/ dir.exists /\ ~fork.force
  /\ fork' = IdleFork(fork.started)
  /\ UNCHANGED <<dir, gaps, bootVars, sign, spent>>

ForkChecks ==
  /\ fork.pc = "guard"
  /\ ~DevnetSeenRunning
  /\ fork.needsMigration => fork.migrate
  /\ dir.exists => fork.force
  /\ fork' = [fork EXCEPT !.pc = IF dir.exists THEN "remove" ELSE "copy",
                          !.migrate = FALSE, !.force = FALSE] \* not read again
  /\ Noted(IF boot.pc # "idle" THEN {"overlap"} ELSE {})
  /\ UNCHANGED <<dir, bootVars, sign, spent>>

(* A node that is up keeps the files it has open.                           *)
DirIsRemoved ==
  /\ dir' = Absent
  /\ ckb' = [ckb EXCEPT !.db = IF ckb.proc = "up" THEN "gone" ELSE @]
  /\ UNCHANGED <<boot, other>>

ForkRemoves ==
  /\ fork.pc = "remove"
  /\ DirIsRemoved
  /\ Forking("copy")
  /\ Noted(OutOfDate)
  /\ UNCHANGED <<sign, spent>>

CopyBegins ==
  /\ fork.pc = "copy" /\ dir.data \notin {"partial", "mixed"}
  /\ dir' = [dir EXCEPT !.exists = TRUE, !.data = IF @ = "none" THEN "partial" ELSE "mixed"]
  /\ UNCHANGED <<gaps, bootVars, forkVars>>

CopyEnds ==
  /\ fork.pc = "copy" /\ dir.data \in {"partial", "mixed"}
  /\ \E tip \in 1 .. 2 :
       dir' = [dir EXCEPT !.data = IF @ = "partial" THEN "copied" ELSE @,
                          !.stored = "source", !.copied = tip, !.tip = tip,
                          !.format = IF fork.needsMigration THEN "old" ELSE "new"]
  /\ Forking("init")
  /\ UNCHANGED <<gaps, bootVars, sign, spent>>

(* ckb init --import-spec --force: its own configuration, the spec as it is *)
RunCkbInit ==
  /\ fork.pc = "init"
  /\ dir' = [dir EXCEPT !.ckb = Legacy, !.miner = "rpc", !.spec = "imported"]
  /\ Forking("patch")
  /\ UNCHANGED <<gaps, bootVars, sign, spent>>

PatchesSpec ==
  /\ fork.pc = "patch"
  /\ dir' = [dir EXCEPT !.spec = "patched"]
  /\ Forking("align")
  /\ UNCHANGED <<gaps, bootVars, sign, spent>>

Aligns ==
  /\ fork.pc = "align"
  /\ dir' = AlignConfigsWithOffckb(dir)
  /\ Forking(IF fork.needsMigration THEN "migrate" ELSE "record")
  /\ UNCHANGED <<gaps, bootVars, sign, spent>>

MigrateDatabaseCopy ==
  /\ fork.pc = "migrate"
  /\ dir' = [dir EXCEPT !.format = "new"]
  /\ Forking("record")
  /\ UNCHANGED <<gaps, bootVars, sign, spent>>

ForkRecords ==
  /\ fork.pc = "record"
  /\ dir' = WriteForkState(dir, ForkState(fork.source, TRUE, 0))
  /\ fork' = IdleFork(fork.started)
  /\ Noted(OutOfDate)
  /\ UNCHANGED <<bootVars, sign, spent>>

(* Any step after the removal throws: no half-forked devnet is left behind. *)
(* Mutant: the failure is reported, and the directory stays.                *)
ForkOnlyReports ==
  /\ fork.pc \in Replacing \ {"remove"}
  /\ fork' = IdleFork(fork.started)
  /\ UNCHANGED <<dir, gaps, bootVars, sign, spent>>

ForkRollsBack ==
  /\ fork.pc \in Replacing \ {"remove"}
  /\ DirIsRemoved
  /\ fork' = IdleFork(fork.started)
  /\ UNCHANGED <<gaps, sign, spent>>

(* Killed, or a removal that fails: the old directory may have lost some of *)
(* its files, and a file that is written in place is cut off.               *)
ForkCrashes ==
  /\ fork.pc # "idle"
  /\ fork' = IdleFork(fork.started)
  /\ \/ /\ Noted(IF fork.pc \in Replacing THEN {"crash"} ELSE {})
        /\ \/ UNCHANGED dir
           \/ fork.pc = "remove" /\ dir' = [dir EXCEPT !.fork = NoFork]
     \/ /\ fork.pc = "align" /\ \E f \in {"ckb", "miner"} : dir' = [dir EXCEPT ![f] = Broken]
        /\ Noted({"crash", "torn"})
  /\ UNCHANGED <<bootVars, sign, spent>>

ForkSteps ==
  \/ ForkPreflights \/ ForkRefuses \/ ForkChecks \/ ForkRemoves \/ CopyBegins \/ CopyEnds
  \/ RunCkbInit \/ PatchesSpec \/ Aligns \/ MigrateDatabaseCopy \/ ForkRecords
  \/ ForkRollsBack \/ ForkCrashes

-----------------------------------------------------------------------------
(* validateMainnetForkSigning, then - after a prompt, or at once - a        *)
(* transaction whose inputs were created at one block of the chain.         *)
ValidateMainnetForkSigning ==
  /\ sign.pc = "idle"
  /\ \E builtIn, allowExternal \in BOOLEAN :
       IF dir.fork.source # "mainnet"
       THEN sign' = [pc |-> "send", boundary |-> NoCheck]
       ELSE /\ builtIn \/ allowExternal
            /\ ~dir.fork.pending
            /\ sign' = [pc |-> "send", boundary |-> dir.fork.boundary]
  /\ UNCHANGED <<dir, gaps, bootVars, fork, spent>>

(* Mutant: a cell created at the boundary itself passes.                    *)
AssertInputsCreatedFrom(origin, boundary) == boundary = NoCheck \/ origin >= boundary
AssertInputsCreatedAfter(origin, boundary) == boundary = NoCheck \/ origin > boundary

SendTransaction ==
  /\ sign.pc = "send" /\ ckb.proc = "up"
  /\ \/ ckb.db = "gone" /\ spent' \in {spent, TRUE}
     \/ /\ ckb.db = "dir"
        /\ \E origin \in 0 .. dir.tip :
             /\ AssertInputsCreatedAfter(origin, sign.boundary)
             /\ spent' = (spent \/ (dir.fork.source = "mainnet" /\ origin <= dir.copied))
  /\ sign' = IdleSign
  /\ UNCHANGED <<dir, gaps, bootVars, fork>>

SignGivesUp ==
  /\ sign.pc = "send"
  /\ sign' = IdleSign
  /\ UNCHANGED <<dir, gaps, bootVars, fork, spent>>

SignSteps == ValidateMainnetForkSigning \/ SendTransaction \/ SignGivesUp
=============================================================================
