------------------------------ MODULE Deployment ------------------------------
(***************************************************************************)
(* offckb deploy: code cells on the chain, the migration records beside    *)
(* the project, and scripts.json (src/src/deploy, cmd/deploy.ts, and the   *)
(* deployments of src/src/sdk/ckb.ts).  The records are written when every *)
(* binary of the run is on the chain; a run may fail, be killed, or be     *)
(* overtaken by a clean that starts the chain anew, at any step.           *)
(***************************************************************************)
EXTENDS Integers, Sequences, FiniteSets, SequencesExt, FiniteSetsExt

CONSTANTS
  Binaries,   \* a sequence: the names of the binaries in a folder
  Keys,
  MaxDeploys, \* bound: transactions sent
  MaxRuns     \* bound: runs of the command

(* The files of one folder have different names (listBinaryFilesInFolder).  *)
ASSUME BinariesAssumption ==
  /\ Binaries \in Seq(ToSet(Binaries))
  /\ \A i, j \in DOMAIN Binaries : Binaries[i] = Binaries[j] => i = j

VARIABLES
  code,       \* the code cells, in the order in which they were sent
  migrations, \* the migration files of each contract
  scripts,    \* scripts.json: the transaction of each contract, or 0
  deployRun,  \* the command
  clock,      \* the local time that names a migration file
  deployGaps, \* history: the clock was set back, a file is torn
  deployRuns  \* bound: see MaxRuns

deployVars == <<code, migrations, scripts, deployRun, clock, deployGaps, deployRuns>>

Contracts == ToSet(Binaries)
NoTypeId == 0
Torn_ == -1   \* a migration file that a crash left half written
IdleRun == [pc |-> "idle", todo |-> <<>>, typeId |-> FALSE, key |-> "none", sent |-> <<>>]
NoScripts == [c \in Contracts |-> 0]

DeployInit ==
  /\ code = <<>> /\ migrations = [c \in Contracts |-> {}] /\ scripts = NoScripts
  /\ deployRun = IdleRun /\ clock = 0 /\ deployGaps = {} /\ deployRuns = 0

-----------------------------------------------------------------------------
(* getNewestMigrationFile, by the time in the name; Migration.find.         *)
Newest(contract) ==
  CHOOSE file \in migrations[contract] : \A f \in migrations[contract] : f.at <= file.at
IsDeployed(contract) == migrations[contract] # {}
IsDeployedWithTypeId(contract) ==
  IsDeployed(contract) /\ Newest(contract).typeId # NoTypeId

DeployBegins ==
  /\ deployRun.pc = "idle" /\ deployRuns < MaxRuns
  /\ \E todo \in ({Binaries} \cup {<<c>> : c \in Contracts}) \ {<<>>},
        typeId \in BOOLEAN, key \in Keys :
       deployRun' = [IdleRun EXCEPT !.pc = "send", !.todo = todo, !.typeId = typeId, !.key = key]
  /\ deployRuns' = deployRuns + 1
  /\ UNCHANGED <<code, migrations, scripts, clock, deployGaps>>

Contract == Head(deployRun.todo)
NextTx == Len(code) + 1
Sent(cells, typeId, from) ==
  /\ NextTx <= MaxDeploys
  /\ code' = Append(cells, [name |-> Contract, typeId |-> typeId, lock |-> deployRun.key,
                            from |-> from, state |-> "pending"])
  /\ deployRun' = [deployRun EXCEPT !.pc = "wait", !.sent = Append(@, NextTx)]
  /\ UNCHANGED <<migrations, scripts, clock, deployGaps, deployRuns>>

DeployScript ==
  /\ deployRun.pc = "send" /\ ~deployRun.typeId
  /\ Sent(code, NoTypeId, 0)

DeployNewTypeIdScript ==
  /\ deployRun.pc = "send" /\ deployRun.typeId /\ ~IsDeployedWithTypeId(Contract)
  /\ Sent(code, NextTx, 0)

(* The cell of the record is there, has its type id, was not spent, and the *)
(* key opens its lock: the last two are the chain's checks.                 *)
Upgradable(tx) ==
  /\ tx \in DOMAIN code /\ code[tx].state = "live"
  /\ code[tx].typeId = Newest(Contract).typeId
  /\ code[tx].lock = deployRun.key
UpgradeTypeIdScript ==
  /\ deployRun.pc = "send" /\ deployRun.typeId /\ IsDeployedWithTypeId(Contract)
  /\ LET old == Newest(Contract).tx
     IN /\ Upgradable(old)
        /\ Sent([code EXCEPT ![old].state = "spent"], code[old].typeId, old)

TxCommits ==
  /\ \E n \in DOMAIN code :
       code[n].state = "pending" /\ code' = [code EXCEPT ![n].state = "live"]
  /\ UNCHANGED <<migrations, scripts, deployRun, clock, deployGaps, deployRuns>>

WaitForTxConfirm ==
  /\ deployRun.pc = "wait" /\ code[Last(deployRun.sent)].state = "live"
  /\ deployRun' = [deployRun EXCEPT !.todo = Tail(@),
                     !.pc = IF Len(deployRun.todo) = 1 THEN "save" ELSE "send"]
  /\ UNCHANGED <<code, migrations, scripts, clock, deployGaps, deployRuns>>

(* Refused, timed out, no record that can be read, or killed: what was sent *)
(* in this run has no record.                                               *)
DeployFails ==
  /\ deployRun.pc \in {"send", "wait"}
  /\ deployRun' = IdleRun
  /\ UNCHANGED <<code, migrations, scripts, clock, deployGaps, deployRuns>>

(* Mutant: the record of an upgrade has no type id.                         *)
RecipeOfPlain(tx) ==
  [tx |-> tx, typeId |-> IF code[tx].from # 0 THEN NoTypeId ELSE code[tx].typeId]
RecipeOf(tx) == [tx |-> tx, typeId |-> code[tx].typeId]

(* saveArtifacts, one contract: two transactions of it are seconds apart.   *)
Recorded == {n \in DOMAIN code : \E file \in migrations[code[n].name] : file.tx = n}
Unsaved == ToSet(deployRun.sent) \ Recorded
NextUnsaved(tx) == tx \in Unsaved /\ \A n \in Unsaved : tx <= n
GetFormattedMigrationDate == clock + 1
GenerateDeploymentMigrationFile(contract, recipe) ==
  /\ migrations' = [migrations EXCEPT ![contract] =
       {f \in @ : f.at # GetFormattedMigrationDate}
         \cup {[at |-> GetFormattedMigrationDate, tx |-> recipe.tx, typeId |-> recipe.typeId]}]
  /\ clock' = GetFormattedMigrationDate
SaveMigration ==
  /\ deployRun.pc = "save"
  /\ \E tx \in Unsaved :
       NextUnsaved(tx) /\ GenerateDeploymentMigrationFile(code[tx].name, RecipeOf(tx))
  /\ UNCHANGED <<code, scripts, deployRun, deployGaps, deployRuns>>

(* scripts.json of the network is replaced by the contracts of this run.    *)
GenerateScriptInfo ==
  /\ deployRun.pc = "save" /\ Unsaved = {}
  /\ scripts' = [c \in Contracts |->
       LET own == {n \in ToSet(deployRun.sent) : code[n].name = c}
       IN IF own = {} THEN 0 ELSE Max(own)]
  /\ deployRun' = IdleRun
  /\ UNCHANGED <<code, migrations, clock, deployGaps, deployRuns>>

(* Killed between two files, or in the middle of one.                       *)
SaveCrashes ==
  /\ deployRun.pc = "save"
  /\ \/ UNCHANGED <<migrations, clock>>
     \/ \E tx \in Unsaved :
          /\ NextUnsaved(tx)
          /\ GenerateDeploymentMigrationFile(code[tx].name, [tx |-> 0, typeId |-> Torn_])
  /\ deployGaps' = deployGaps \cup {"crash"}
  /\ deployRun' = IdleRun
  /\ UNCHANGED <<code, scripts, deployRuns>>

(* External: a new chain under the old records; summer time ends.           *)
ChainStartsAnew ==
  /\ code # <<>> /\ "reset" \notin deployGaps
  /\ code' = [n \in DOMAIN code |-> [code[n] EXCEPT !.state = "erased"]]
  /\ deployGaps' = deployGaps \cup {"reset"}
  /\ UNCHANGED <<migrations, scripts, deployRun, clock, deployRuns>>
ClockIsSetBack ==
  /\ clock > 1
  /\ clock' = clock - 2
  /\ deployGaps' = deployGaps \cup {"clock"}
  /\ UNCHANGED <<code, migrations, scripts, deployRun, deployRuns>>

DeployNext ==
  \/ DeployBegins \/ DeployScript \/ DeployNewTypeIdScript \/ UpgradeTypeIdScript
  \/ TxCommits \/ WaitForTxConfirm \/ DeployFails
  \/ SaveMigration \/ GenerateScriptInfo \/ SaveCrashes
  \/ ChainStartsAnew \/ ClockIsSetBack

-----------------------------------------------------------------------------
(* "Upgrade keeps the same type-id by consuming the old code Cell and       *)
(* creating a new one" (ckb.ts:624): a cell replaces one of the same        *)
(* contract and type id, and no two replace the same one.  As long as every *)
(* cell of a contract was deployed with a type id and recorded, and the     *)
(* clock was not set back, the contract has one live cell at most, and the  *)
(* newest record is of it.                                                  *)
OnChain(n) == code[n].state \in {"pending", "live"}
Lineage ==
  \A n, m \in DOMAIN code :
    /\ code[n].from # 0 => /\ code[code[n].from].typeId = code[n].typeId
                           /\ code[code[n].from].name = code[n].name
                           /\ code[code[n].from].state \in {"spent", "erased"}
    /\ (n # m /\ code[n].from # 0) => code[n].from # code[m].from
Followed(c) ==
  /\ "clock" \notin deployGaps
  /\ \A n \in DOMAIN code :
       code[n].name = c /\ n \notin Recorded => n \in ToSet(deployRun.sent) \/ ~OnChain(n)
  /\ \A n \in DOMAIN code : code[n].name = c => code[n].typeId # NoTypeId
OneTypeId ==
  \A c \in Contracts :
    Followed(c) =>
       /\ Cardinality({n \in DOMAIN code : code[n].name = c /\ OnChain(n)}) <= 1
       /\ \A n \in DOMAIN code :
            (OnChain(n) /\ code[n].name = c /\ deployRun.pc = "idle") =>
               Newest(c).tx \in {n, 0}
(* scripts.json names no cell that an upgrade has replaced.                 *)
ScriptsCurrent ==
  \A c \in Contracts :
    (deployRun.pc = "idle" /\ deployGaps = {} /\ Followed(c) /\ scripts[c] # 0) =>
       OnChain(scripts[c])
UpgradeKeepsTypeId == Lineage /\ OneTypeId /\ ScriptsCurrent
=============================================================================
