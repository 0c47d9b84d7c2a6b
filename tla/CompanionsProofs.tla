-------------------------- MODULE CompanionsProofs --------------------------
(***************************************************************************)
(* UpgradeKeepsTypeId, TokensConserved, and then every property of         *)
(* Companions, for every instance.  The parts share no variable, the       *)
(* proxy's log and its reader apart: each has an inductive invariant of its*)
(* own, and a step of another part leaves it alone.                        *)
(*                                                                         *)
(* UpgradeKeepsTypeId: the newest record of a contract names its one cell on*)
(* the chain (OneCell), because a run records what it sent before anything *)
(* else is sent (RunKnows).                                                *)
(*                                                                         *)
(* TokensConserved: while the inputs of a pending transaction are unspent  *)
(* its outputs balance them (TxKnows).  A sum over a set of cells is       *)
(* reasoned about by its least counterexample (LeastNatural).              *)
(***************************************************************************)
EXTENDS Companions, StreamProofs, InstallProofs, WellFoundedInduction

-----------------------------------------------------------------------------
(* Deployments.                                                             *)
CellStates == {"pending", "live", "spent", "erased"}
CodeCells ==
  [name : Contracts, typeId : Nat, lock : Keys \cup {"none"}, from : Nat, state : CellStates]
MigrationFiles == [at : Int, tx : Nat, typeId : Int]
DeployRuns ==
  [pc : {"idle", "send", "wait", "save"}, todo : Seq(Contracts), typeId : BOOLEAN,
   key : Keys \cup {"none"}, sent : Seq(Nat)]
DeployTypeOK ==
  /\ code \in Seq(CodeCells)
  /\ migrations \in [Contracts -> SUBSET MigrationFiles]
  /\ scripts \in [Contracts -> Nat]
  /\ deployRun \in DeployRuns
  /\ clock \in Int

(* A record names a cell of its contract, with its type id; the newest one  *)
(* can be told; and as long as the clock was not set back, none is newer    *)
(* than now.                                                                *)
IsRecordOf(file, c) ==
  \/ file.tx = 0 /\ file.typeId = Torn_
  \/ file.tx \in DOMAIN code /\ code[file.tx].name = c /\ file.typeId = code[file.tx].typeId
RecordsTrue ==
  \A c \in Contracts :
    /\ \A file \in migrations[c] : IsRecordOf(file, c)
    /\ migrations[c] # {} =>
         \E file \in migrations[c] : \A f \in migrations[c] : f.at <= file.at
    /\ "clock" \notin deployGaps => \A file \in migrations[c] : file.at <= clock

(* A new chain erases all cells, and only that erases any.                  *)
Chained ==
  /\ \A n \in DOMAIN code : code[n].from = 0 \/ code[n].from \in DOMAIN code
  /\ \A n, m \in DOMAIN code : m < n /\ code[n].state = "erased" => code[m].state = "erased"
  /\ "reset" \notin deployGaps => \A n \in DOMAIN code : code[n].state # "erased"

(* The command that runs has sent the last cells, one of a contract at      *)
(* most, and none is replaced or recorded before all are sent.              *)
SentNow == ToSet(deployRun.sent)
Sending == deployRun.pc \in {"send", "wait"}
RunKnows ==
  /\ SentNow \subseteq DOMAIN code
  /\ deployRun.pc = "idle" => deployRun.sent = <<>>
  /\ \A n \in SentNow, m \in DOMAIN code : m > n => m \in SentNow
  /\ \A n \in SentNow : code[n].state # "spent"
  /\ \A n, m \in SentNow : code[n].name = code[m].name => n = m
  /\ Sending =>
       /\ deployRun.todo # <<>>
       /\ \A n \in SentNow : n \notin Recorded
       /\ \A i, j \in DOMAIN deployRun.todo : deployRun.todo[i] = deployRun.todo[j] => i = j
       /\ \A n \in SentNow, i \in DOMAIN deployRun.todo :
            code[n].name = deployRun.todo[i] => deployRun.pc = "wait" /\ i = 1

OneCell ==
  \A c \in Contracts : Followed(c) =>
    \A n \in DOMAIN code : (code[n].name = c /\ OnChain(n)) =>
      /\ \A m \in DOMAIN code : code[m].name = c /\ OnChain(m) => m = n
      /\ n \in Recorded => Newest(c).tx \in {n, 0}

ScriptsKnown ==
  \A c \in Contracts : scripts[c] # 0 =>
    /\ scripts[c] \in DOMAIN code /\ code[scripts[c]].name = c
    /\ (deployGaps = {} /\ Followed(c) /\ \A n \in SentNow : code[n].name # c) =>
         OnChain(scripts[c])

DeployInv ==
  /\ DeployTypeOK /\ RecordsTrue /\ Chained /\ Lineage /\ RunKnows /\ OneCell /\ ScriptsKnown

LEMMA NewestIsLast ==
  ASSUME RecordsTrue, NEW c \in Contracts, migrations[c] # {}
  PROVE  /\ Newest(c) \in migrations[c]
         /\ \A f \in migrations[c] : f.at <= Newest(c).at
         /\ IsRecordOf(Newest(c), c)
  BY DEF RecordsTrue, Newest

LEMMA DeployInitInv == BinariesAssumption /\ DeployInit => DeployInv
  <1> SUFFICES ASSUME DeployInit PROVE DeployInv
    OBVIOUS
  <1>1. DeployTypeOK
    BY EmptySeq DEF DeployInit, DeployTypeOK, DeployRuns, IdleRun, NoScripts
  <1>2. DOMAIN code = {} /\ ToSet(deployRun.sent) = {}
    BY DEF DeployInit, ToSet, IdleRun
  <1>3. RecordsTrue /\ Chained /\ Lineage /\ RunKnows /\ OneCell /\ ScriptsKnown
    BY <1>2 DEF DeployInit, RecordsTrue, Chained, Lineage, RunKnows, OneCell, ScriptsKnown,
       SentNow, Sending, IdleRun, NoScripts
  <1> QED
    BY <1>1, <1>3 DEF DeployInv

-----------------------------------------------------------------------------
(* The three ways to send a transaction.  old is the cell that it spends.   *)
Spends(cells, old) ==
  /\ cells \in Seq(CodeCells) /\ Len(cells) = Len(code)
  /\ old # 0 => /\ old \in DOMAIN code /\ code[old].state = "live" /\ old \in Recorded
                /\ code[old].name = Contract
  /\ \A n \in DOMAIN code :
       /\ cells[n].name = code[n].name /\ cells[n].typeId = code[n].typeId
       /\ cells[n].from = code[n].from
       /\ cells[n].state = IF n = old THEN "spent" ELSE code[n].state

LEMMA SentInv ==
  ASSUME DeployInv, NEW cells, NEW typeId \in Nat, NEW old \in Nat, deployRun.pc = "send",
         Spends(cells, old), Sent(cells, typeId, old),
         old # 0 => typeId = code[old].typeId,
         NEW mine, mine = Contract,
         Followed(mine)' => \A m \in DOMAIN code : code[m].name = mine /\ OnChain(m) => m = old
  PROVE  DeployInv'
  <1> DEFINE new == [name |-> Contract, typeId |-> typeId, lock |-> deployRun.key,
                     from |-> old, state |-> "pending"]
  <1>1. /\ code \in Seq(CodeCells) /\ Len(code) \in Nat /\ DOMAIN code = 1 .. Len(code)
        /\ DOMAIN cells = DOMAIN code /\ NextTx \in Nat /\ NextTx \notin DOMAIN code
        /\ NextTx # 0
    BY LenProperties DEF DeployInv, DeployTypeOK, Spends, NextTx
  <1>2. /\ deployRun.todo \in Seq(Contracts) /\ deployRun.todo # <<>> /\ deployRun.key \in Keys \cup {"none"}
        /\ deployRun.sent \in Seq(Nat)
    BY DEF DeployInv, DeployTypeOK, DeployRuns, RunKnows, Sending
  <1>3. Contract \in Contracts /\ Contract = deployRun.todo[1] /\ 1 \in DOMAIN deployRun.todo
    BY <1>2, LenProperties, HeadTailProperties, ElementOfSeq, EmptySeq DEF Contract
  <1>4. new \in CodeCells
    BY <1>2, <1>3 DEF CodeCells, CellStates
  <1>5. code' = Append(cells, new)
    BY DEF Sent
  <1>6. /\ code' \in Seq(CodeCells)
        /\ DOMAIN code' = DOMAIN code \cup {NextTx}
        /\ code'[NextTx] = new
        /\ \A n \in DOMAIN code : code'[n] = cells[n]
    BY <1>1, <1>4, <1>5, AppendProperties, LenProperties DEF Spends, NextTx
  <1>7. /\ deployRun' \in DeployRuns /\ deployRun'.pc = "wait"
        /\ deployRun'.todo = deployRun.todo
        /\ SentNow' = SentNow \cup {NextTx}
    <2>1. deployRun \in DeployRuns
      BY DEF DeployInv, DeployTypeOK
    <2>2. deployRun' = [deployRun EXCEPT !.pc = "wait", !.sent = Append(@, NextTx)]
      BY DEF Sent
    <2>3. Append(deployRun.sent, NextTx) \in Seq(Nat)
      BY <1>1, <1>2, AppendProperties
    <2>4. /\ deployRun' \in DeployRuns /\ deployRun'.pc = "wait"
          /\ deployRun'.todo = deployRun.todo /\ deployRun'.sent = Append(deployRun.sent, NextTx)
      BY <2>1, <2>2, <2>3 DEF DeployRuns
    <2> QED
      BY <1>1, <1>2, <2>4, ToSetAppend DEF SentNow
  <1>8. UNCHANGED <<migrations, scripts, clock, deployGaps>>
    BY DEF Sent
  <1>9. DeployTypeOK'
    BY <1>6, <1>7, <1>8 DEF DeployInv, DeployTypeOK
  <1>10. RecordsTrue'
    BY <1>1, <1>6, <1>8, SMTT(30) DEF DeployInv, RecordsTrue, IsRecordOf, Spends
  <1>11. Recorded' = Recorded
    <2>1. \A n \in DOMAIN code : n \in Recorded' <=> n \in Recorded
      BY <1>6, <1>8 DEF Recorded, Spends
    <2>2. NextTx \notin Recorded'
      BY <1>1, <1>3, <1>4, <1>6, <1>8 DEF Recorded, DeployInv, RecordsTrue, IsRecordOf
    <2> QED
      BY <1>6, <2>1, <2>2 DEF Recorded
  <1>12. Chained'
    <2>1. \A n \in DOMAIN code' : code'[n].from = 0 \/ code'[n].from \in DOMAIN code'
      BY <1>6 DEF DeployInv, Chained, Spends
    <2>2. \A n \in DOMAIN code' : code'[n].state = "erased" =>
            n \in DOMAIN code /\ code[n].state = "erased"
      BY <1>6, SMTT(30) DEF Spends
    <2>3. \A n \in DOMAIN code : code[n].state = "erased" => code'[n].state = "erased"
      BY <1>6 DEF Spends
    <2>4. \A n, m \in DOMAIN code' : m < n /\ code'[n].state = "erased" => code'[m].state = "erased"
      BY <1>1, <1>6, <2>2, <2>3 DEF DeployInv, Chained, NextTx
    <2> QED
      BY <1>8, <2>1, <2>2, <2>4 DEF DeployInv, Chained
  <1>13. Lineage'
    <2>1. \A n \in DOMAIN code : code[n].from # 0 => code[n].from # old
      BY <1>1 DEF DeployInv, Lineage, Spends
    <2>2. ASSUME NEW n \in DOMAIN code', code'[n].from # 0
          PROVE  /\ code'[code'[n].from].typeId = code'[n].typeId
                 /\ code'[code'[n].from].name = code'[n].name
                 /\ code'[code'[n].from].state \in {"spent", "erased"}
      <3>1. CASE n = NextTx
        BY <1>6, <2>2, <3>1 DEF Spends
      <3>2. CASE n \in DOMAIN code
        <4>1. code'[n].from = code[n].from /\ code[n].from \in DOMAIN code
          BY <1>6, <2>2, <3>2 DEF DeployInv, Chained, Spends
        <4> QED
          BY <1>6, <2>2, <3>2, <4>1, <2>1, SMTT(30) DEF DeployInv, Lineage, Spends
      <3> QED
        BY <1>6, <3>1, <3>2
    <2>3. \A n, m \in DOMAIN code' : n # m /\ code'[n].from # 0 => code'[n].from # code'[m].from
      BY <1>6, <2>1, SMTT(30) DEF DeployInv, Lineage, Spends
    <2> QED
      BY <2>2, <2>3 DEF Lineage
  <1>14. RunKnows'
    <2>1. \A n \in SentNow : n # old
      BY DEF DeployInv, RunKnows, Sending, Spends
    <2>2. \A n \in SentNow : code[n].name # Contract
      BY <1>3 DEF DeployInv, RunKnows, Sending
    <2>3. /\ SentNow' \subseteq DOMAIN code' /\ deployRun'.pc # "idle"
          /\ \A n \in SentNow', m \in DOMAIN code' : m > n => m \in SentNow'
      BY <1>1, <1>6, <1>7 DEF DeployInv, RunKnows, NextTx
    <2>4. /\ \A n \in SentNow : code'[n].name = code[n].name /\ code'[n].state = code[n].state
          /\ \A n \in SentNow : n \in DOMAIN code
      BY <1>6, <2>1 DEF DeployInv, RunKnows, Spends
    <2>5. \A n \in SentNow' : code'[n].state # "spent"
      BY <1>6, <1>7, <2>4 DEF DeployInv, RunKnows
    <2>6. \A n, m \in SentNow' : code'[n].name = code'[m].name => n = m
      BY <1>6, <1>7, <2>2, <2>4 DEF DeployInv, RunKnows
    <2>7. \A n \in SentNow' : n \notin Recorded'
      BY <1>1, <1>7, <1>11 DEF DeployInv, RunKnows, Sending, Recorded
    <2>8. \A i, j \in DOMAIN deployRun.todo : deployRun.todo[i] = deployRun.todo[j] => i = j
      BY DEF DeployInv, RunKnows, Sending
    <2>9. \A n \in SentNow', i \in DOMAIN deployRun.todo : code'[n].name = deployRun.todo[i] => i = 1
      BY <1>3, <1>6, <1>7, <2>4, <2>8 DEF DeployInv, RunKnows, Sending
    <2> QED
      BY <1>2, <1>7, <2>3, <2>5, <2>6, <2>7, <2>8, <2>9 DEF RunKnows, Sending
  <1>15. ASSUME NEW c \in Contracts, Followed(c)' PROVE Followed(c)
    <2>1. \A n \in DOMAIN code : code[n].name = c => code[n].typeId # NoTypeId
      BY <1>6, <1>15 DEF Followed, Spends
    <2>2. ASSUME NEW n \in DOMAIN code, code[n].name = c, n \notin Recorded
          PROVE  n \in SentNow \/ ~OnChain(n)
      BY <1>1, <1>6, <1>7, <1>11, <1>15, <2>2 DEF Followed, Spends, OnChain, SentNow
    <2> QED
      BY <1>8, <1>15, <2>1, <2>2 DEF Followed, SentNow
  <1>16. OneCell'
    <2> SUFFICES ASSUME NEW c \in Contracts, Followed(c)',
                        NEW n \in DOMAIN code', code'[n].name = c, OnChain(n)'
                 PROVE  /\ \A m \in DOMAIN code' : code'[m].name = c /\ OnChain(m)' => m = n
                        /\ n \in Recorded' => Newest(c)'.tx \in {n, 0}
      BY DEF OneCell
    <2>1. CASE c = Contract
      <3>1. \A m \in DOMAIN code' : code'[m].name = c /\ OnChain(m)' => m = NextTx
        BY <1>1, <1>6, <2>1, SMTT(30) DEF Spends, OnChain
      <3> QED
        BY <1>1, <1>11, <3>1 DEF Recorded
    <2>2. CASE c # Contract
      <3>1. \A m \in DOMAIN code' : code'[m].name = c =>
              m \in DOMAIN code /\ code[m].name = c /\ (OnChain(m)' <=> OnChain(m))
        BY <1>6, <2>2, SMTT(30) DEF Spends, OnChain
      <3>2. Newest(c)' = Newest(c)
        BY <1>8 DEF Newest
      <3> QED
        BY <1>11, <1>15, <3>1, <3>2 DEF DeployInv, OneCell
    <2> QED
      BY <2>1, <2>2
  <1>17. ScriptsKnown'
    <2> SUFFICES ASSUME NEW c \in Contracts, scripts[c] # 0
                 PROVE  /\ scripts[c] \in DOMAIN code' /\ code'[scripts[c]].name = c
                        /\ (deployGaps = {} /\ Followed(c)' /\ \A n \in SentNow' : code'[n].name # c) =>
                             OnChain(scripts[c])'
      BY <1>8 DEF ScriptsKnown
    <2>1. /\ scripts[c] \in DOMAIN code /\ code[scripts[c]].name = c
          /\ (deployGaps = {} /\ Followed(c) /\ \A n \in SentNow : code[n].name # c) =>
                OnChain(scripts[c])
      BY DEF DeployInv, ScriptsKnown
    <2>2. \A n \in SentNow : n \in DOMAIN code /\ code'[n].name = code[n].name
      BY <1>6 DEF DeployInv, RunKnows, Spends
    <2>3. (\A n \in SentNow' : code'[n].name # c) => c # Contract
      BY <1>6, <1>7
    <2>4. ASSUME deployGaps = {}, Followed(c)', \A n \in SentNow' : code'[n].name # c
          PROVE  OnChain(scripts[c])'
      <3>1. OnChain(scripts[c]) /\ scripts[c] # old
        BY <1>7, <1>15, <2>1, <2>2, <2>3, <2>4 DEF Spends
      <3> QED
        BY <1>6, <1>8, <2>1, <3>1 DEF OnChain, Spends
    <2> QED
      BY <1>6, <2>1, <2>4 DEF Spends
  <1> QED
    BY <1>9, <1>10, <1>12, <1>13, <1>14, <1>16, <1>17 DEF DeployInv

LEMMA DeployScriptInv == ASSUME DeployInv, DeployScript PROVE DeployInv'
  <1>0. PICK mine : mine = Contract
    OBVIOUS
  <1>1. Spends(code, 0)
    BY DEF DeployInv, DeployTypeOK, Spends
  <1>2. deployRun.pc = "send" /\ Sent(code, 0, 0)
    BY DEF DeployScript, NoTypeId
  <1>3. /\ NextTx \in DOMAIN code' /\ code'[NextTx].name = mine /\ code'[NextTx].typeId = 0
    BY <1>0, <1>2, LenProperties, AppendProperties DEF Sent, NextTx, DeployInv, DeployTypeOK
  <1>4. ~Followed(mine)'
    BY <1>3 DEF Followed, NoTypeId
  <1> QED
    BY <1>0, <1>1, <1>2, <1>4, SentInv

LEMMA DeployNewInv == ASSUME DeployInv, DeployNewTypeIdScript PROVE DeployInv'
  <1>0. PICK mine : mine = Contract
    OBVIOUS
  <1>1. Spends(code, 0) /\ code \in Seq(CodeCells)
    BY DEF DeployInv, DeployTypeOK, Spends
  <1>2. deployRun.pc = "send" /\ Sent(code, NextTx, 0) /\ ~IsDeployedWithTypeId(Contract)
    BY DEF DeployNewTypeIdScript
  <1>3. /\ NextTx \in Nat /\ NextTx \notin DOMAIN code
        /\ DOMAIN code' = DOMAIN code \cup {NextTx}
        /\ \A n \in DOMAIN code : code'[n] = code[n]
    BY <1>1, <1>2, LenProperties, AppendProperties DEF Sent, NextTx
  <1>4. /\ deployRun.todo \in Seq(Contracts) /\ deployRun.todo # <<>>
        /\ deployRun.sent \in Seq(Nat)
    BY <1>2 DEF DeployInv, DeployTypeOK, DeployRuns, RunKnows, Sending
  <1>5. mine \in Contracts /\ mine = deployRun.todo[1] /\ 1 \in DOMAIN deployRun.todo
    BY <1>0, <1>4, LenProperties, HeadTailProperties, ElementOfSeq, EmptySeq DEF Contract
  <1>6. ToSet(deployRun'.sent) = SentNow \cup {NextTx}
    <2>1. deployRun' = [deployRun EXCEPT !.pc = "wait", !.sent = Append(@, NextTx)]
      BY <1>2 DEF Sent
    <2>2. deployRun'.sent = Append(deployRun.sent, NextTx)
      BY <2>1 DEF DeployInv, DeployTypeOK, DeployRuns
    <2> QED
      BY <1>3, <1>4, <2>2, ToSetAppend DEF SentNow
  <1>7. ASSUME Followed(mine)' PROVE migrations[mine] = {}
    <2> SUFFICES ASSUME migrations[mine] # {} PROVE FALSE
      OBVIOUS
    <2>1. IsRecordOf(Newest(mine), mine) /\ Newest(mine).typeId = 0
      BY <1>0, <1>2, <1>5, NewestIsLast DEF DeployInv, IsDeployedWithTypeId, IsDeployed, NoTypeId
    <2>2. \A n \in DOMAIN code : code[n].name = mine => code[n].typeId # 0
      BY <1>3, <1>7 DEF Followed, NoTypeId
    <2> QED
      BY <2>1, <2>2 DEF IsRecordOf, Torn_
  <1>8. ASSUME Followed(mine)', NEW m \in DOMAIN code, code[m].name = mine, OnChain(m)
        PROVE  FALSE
    <2>1. migrations'[mine] = {}
      BY <1>2, <1>7, <1>8 DEF Sent
    <2>2. m \notin Recorded' /\ code'[m].name = mine /\ OnChain(m)' /\ m \in DOMAIN code'
      BY <1>3, <1>8, <2>1 DEF Recorded, OnChain
    <2>3. m \in SentNow
      BY <1>3, <1>6, <1>8, <2>2 DEF Followed
    <2> QED
      BY <1>2, <1>5, <1>8, <2>3 DEF DeployInv, RunKnows, Sending
  <1> QED
    BY <1>0, <1>1, <1>2, <1>3, <1>8, SentInv

LEMMA UpgradeInv == ASSUME DeployInv, UpgradeTypeIdScript PROVE DeployInv'
  <1>0. PICK mine : mine = Contract
    OBVIOUS
  <1> DEFINE old == Newest(mine).tx
             cells == [code EXCEPT ![old].state = "spent"]
  <1>1. /\ deployRun.pc = "send" /\ IsDeployedWithTypeId(mine) /\ Upgradable(old)
        /\ Sent(cells, code[old].typeId, old)
    BY <1>0 DEF UpgradeTypeIdScript
  <1>2. /\ deployRun.todo \in Seq(Contracts) /\ deployRun.todo # <<>>
        /\ deployRun.sent \in Seq(Nat)
    BY <1>1 DEF DeployInv, DeployTypeOK, DeployRuns, RunKnows, Sending
  <1>3. mine \in Contracts /\ mine = deployRun.todo[1] /\ 1 \in DOMAIN deployRun.todo
    BY <1>0, <1>2, LenProperties, HeadTailProperties, ElementOfSeq, EmptySeq DEF Contract
  <1>4. Newest(mine) \in migrations[mine] /\ IsRecordOf(Newest(mine), mine)
    BY <1>1, <1>3, NewestIsLast DEF DeployInv, IsDeployedWithTypeId, IsDeployed
  <1>5. /\ code \in Seq(CodeCells) /\ Len(code) \in Nat /\ DOMAIN code = 1 .. Len(code)
        /\ old \in DOMAIN code /\ code[old].state = "live" /\ old \in Nat /\ old # 0
    BY <1>1, LenProperties DEF DeployInv, DeployTypeOK, Upgradable
  <1>6. code[old].name = mine /\ old \in Recorded
    BY <1>4, <1>5 DEF IsRecordOf, Recorded
  <1>7. /\ code[old] \in CodeCells
        /\ [code[old] EXCEPT !.state = "spent"] \in CodeCells
    <2>1. code[old] \in CodeCells
      BY <1>5, ElementOfSeq
    <2> QED
      BY <2>1 DEF CodeCells, CellStates
  <1>8. /\ cells \in Seq(CodeCells) /\ Len(cells) = Len(code)
        /\ \A n \in DOMAIN code :
             cells[n] = IF n = old THEN [code[old] EXCEPT !.state = "spent"] ELSE code[n]
    BY <1>5, <1>7, ExceptSeq
  <1>9. Spends(cells, old)
    BY <1>0, <1>5, <1>6, <1>7, <1>8 DEF Spends, CodeCells
  <1>10. /\ NextTx \in Nat /\ NextTx \notin DOMAIN code
         /\ DOMAIN code' = DOMAIN code \cup {NextTx}
         /\ \A n \in DOMAIN code : code'[n] = cells[n]
    BY <1>1, <1>5, <1>8, LenProperties, AppendProperties DEF Sent, NextTx
  <1>11. code[old].typeId \in Nat
    BY <1>7 DEF CodeCells
  <1>12. ToSet(deployRun'.sent) = SentNow \cup {NextTx}
    <2>1. deployRun' = [deployRun EXCEPT !.pc = "wait", !.sent = Append(@, NextTx)]
      BY <1>1 DEF Sent
    <2>2. deployRun'.sent = Append(deployRun.sent, NextTx)
      BY <2>1 DEF DeployInv, DeployTypeOK, DeployRuns
    <2> QED
      BY <1>2, <1>10, <2>2, ToSetAppend DEF SentNow
  <1>13. ASSUME Followed(mine)' PROVE Followed(mine)
    <2>1. /\ "clock" \notin deployGaps
          /\ \A n \in DOMAIN code : code[n].name = mine => code[n].typeId # NoTypeId
      <3>1. \A n \in DOMAIN code : code'[n].name = code[n].name /\ code'[n].typeId = code[n].typeId
        BY <1>9, <1>10 DEF Spends
      <3> QED
        BY <1>1, <1>10, <1>13, <3>1 DEF Followed, Sent
    <2>2. ASSUME NEW n \in DOMAIN code, code[n].name = mine, n \notin Recorded
          PROVE  n \in SentNow \/ ~OnChain(n)
      <3>1. n # old /\ code'[n] = code[n]
        BY <1>6, <1>8, <1>10, <2>2
      <3>2. n \notin Recorded'
        BY <1>1, <2>2, <3>1 DEF Recorded, Sent
      <3> QED
        BY <1>10, <1>12, <1>13, <2>2, <3>1, <3>2 DEF Followed, OnChain
    <2> QED
      BY <2>1, <2>2 DEF Followed, SentNow
  <1>14. Followed(mine)' => \A m \in DOMAIN code : code[m].name = mine /\ OnChain(m) => m = old
    BY <1>3, <1>5, <1>6, <1>13 DEF DeployInv, OneCell, OnChain
  <1> HIDE DEF old, cells
  <1> QED
    BY <1>0, <1>1, <1>5, <1>9, <1>11, <1>14, SentInv

-----------------------------------------------------------------------------
(* The steps that change the command alone.                                 *)
LEMMA RunInv ==
  ASSUME DeployInv, UNCHANGED <<code, migrations, scripts, clock, deployGaps>>,
         deployRun' \in DeployRuns, RunKnows',
         SentNow' = SentNow \/ (SentNow' = {} /\ Sending)
  PROVE  DeployInv'
  <1>1. DeployTypeOK' /\ RecordsTrue' /\ Chained' /\ Lineage'
    BY DEF DeployInv, DeployTypeOK, RecordsTrue, IsRecordOf, Chained, Lineage
  <1>2. Recorded' = Recorded /\ \A n \in DOMAIN code : OnChain(n)' <=> OnChain(n)
    BY DEF Recorded, OnChain
  <1>3. ASSUME NEW c \in Contracts, Followed(c)' PROVE Followed(c)
    <2>1. SentNow' \subseteq SentNow
      OBVIOUS
    <2> QED
      BY <1>2, <1>3, <2>1 DEF Followed, SentNow
  <1>4. OneCell'
    <2> SUFFICES ASSUME NEW c \in Contracts, Followed(c)'
                 PROVE \A n \in DOMAIN code : (code[n].name = c /\ OnChain(n)) =>
                         /\ \A m \in DOMAIN code : code[m].name = c /\ OnChain(m) => m = n
                         /\ n \in Recorded => Newest(c)'.tx \in {n, 0}
      BY <1>2 DEF OneCell, OnChain
    <2>1. Newest(c)' = Newest(c)
      BY DEF Newest
    <2> QED
      BY <1>3, <2>1 DEF DeployInv, OneCell
  <1>5. ScriptsKnown'
    <2> SUFFICES ASSUME NEW c \in Contracts, scripts[c] # 0, deployGaps = {}, Followed(c)',
                        \A n \in SentNow' : code[n].name # c
                 PROVE  OnChain(scripts[c])
      BY DEF DeployInv, ScriptsKnown, OnChain
    <2>1. ASSUME NEW n \in SentNow, code[n].name = c PROVE FALSE
      <3>1. SentNow' = {} /\ Sending
        BY <2>1
      <3>2. n \in DOMAIN code /\ n \notin Recorded /\ code[n].state \notin {"spent", "erased"}
        BY <3>1, <2>1 DEF DeployInv, RunKnows, Chained
      <3>3. code[n].state \in CellStates
        <4>1. code[n] \in CodeCells
          BY <3>2, ElementOfSeq, LenProperties DEF DeployInv, DeployTypeOK
        <4> QED
          BY <4>1 DEF CodeCells
      <3>4. OnChain(n)
        BY <3>2, <3>3 DEF OnChain, CellStates
      <3> QED
        BY <1>2, <2>1, <3>1, <3>2, <3>4 DEF Followed, SentNow
    <2> QED
      BY <1>3, <2>1 DEF DeployInv, ScriptsKnown
  <1> QED
    BY <1>1, <1>4, <1>5 DEF DeployInv

LEMMA DeployBeginsInv == ASSUME BinariesAssumption, DeployInv, DeployBegins PROVE DeployInv'
  <1>1. PICK todo \in ({Binaries} \cup {<<c>> : c \in Contracts}) \ {<<>>},
             typeId \in BOOLEAN, key \in Keys :
          deployRun' = [IdleRun EXCEPT !.pc = "send", !.todo = todo, !.typeId = typeId, !.key = key]
    BY DEF DeployBegins
  <1>2. todo \in Seq(Contracts) /\ \A i, j \in DOMAIN todo : todo[i] = todo[j] => i = j
    <2>1. CASE todo = Binaries
      BY <2>1 DEF BinariesAssumption, Contracts
    <2>2. CASE \E c \in Contracts : todo = <<c>>
      BY <2>2
    <2> QED
      BY <1>1, <2>1, <2>2
  <1>3. /\ deployRun' \in DeployRuns /\ deployRun'.pc = "send" /\ deployRun'.todo = todo
        /\ deployRun'.sent = <<>>
    BY <1>1, <1>2, EmptySeq DEF IdleRun, DeployRuns
  <1>4. SentNow' = {} /\ SentNow = {}
    BY <1>3 DEF SentNow, ToSet, DeployInv, RunKnows, DeployBegins
  <1>5. RunKnows'
    BY <1>1, <1>2, <1>3, <1>4 DEF RunKnows, Sending
  <1> QED
    BY <1>3, <1>4, <1>5, RunInv DEF DeployBegins

LEMMA WaitInv == ASSUME DeployInv, WaitForTxConfirm PROVE DeployInv'
  <1>1. /\ deployRun \in DeployRuns /\ deployRun.pc = "wait" /\ deployRun.todo # <<>>
        /\ deployRun.todo \in Seq(Contracts)
    BY DEF DeployInv, DeployTypeOK, DeployRuns, RunKnows, Sending, WaitForTxConfirm
  <1>2. /\ Tail(deployRun.todo) \in Seq(Contracts)
        /\ Len(deployRun.todo) \in Nat /\ DOMAIN deployRun.todo = 1 .. Len(deployRun.todo)
        /\ DOMAIN Tail(deployRun.todo) = 1 .. Len(deployRun.todo) - 1
        /\ \A i \in 1 .. Len(deployRun.todo) - 1 : Tail(deployRun.todo)[i] = deployRun.todo[i + 1]
    BY <1>1, HeadTailProperties, LenProperties
  <1>3. /\ deployRun' \in DeployRuns
        /\ deployRun'.pc = IF Len(deployRun.todo) = 1 THEN "save" ELSE "send"
        /\ deployRun'.todo = Tail(deployRun.todo) /\ deployRun'.sent = deployRun.sent
    BY <1>1, <1>2 DEF WaitForTxConfirm, DeployRuns
  <1>4. SentNow' = SentNow /\ Recorded' = Recorded
    BY <1>3 DEF SentNow, Recorded, WaitForTxConfirm
  <1>5. RunKnows'
    <2>1. CASE deployRun'.pc = "save"
      BY <1>1, <1>3, <1>4, <2>1 DEF DeployInv, RunKnows, Sending, WaitForTxConfirm
    <2>2. CASE deployRun'.pc = "send"
      <3>1. Len(deployRun.todo) # 1 /\ Len(deployRun.todo) # 0
        BY <1>1, <1>3, <2>2, EmptySeq, LenProperties
      <3>2. Tail(deployRun.todo) # <<>>
        <4>1. Len(Tail(deployRun.todo)) = Len(deployRun.todo) - 1
          BY <1>1, HeadTailProperties
        <4>2. Len(<<>>) = 0
          OBVIOUS
        <4>3. ASSUME Tail(deployRun.todo) = <<>> PROVE FALSE
          <5>1. Len(Tail(deployRun.todo)) = 0
            BY ONLY <4>2, <4>3, Zenon
          <5> QED
            BY <1>2, <3>1, <4>1, <5>1
        <4> QED
          BY <4>3
      <3>3. /\ \A i, j \in DOMAIN Tail(deployRun.todo) :
                 Tail(deployRun.todo)[i] = Tail(deployRun.todo)[j] => i = j
            /\ \A n \in SentNow, i \in DOMAIN Tail(deployRun.todo) :
                 code[n].name # Tail(deployRun.todo)[i]
        <4>1. /\ \A i, j \in DOMAIN deployRun.todo : deployRun.todo[i] = deployRun.todo[j] => i = j
              /\ \A n \in SentNow, i \in DOMAIN deployRun.todo : code[n].name = deployRun.todo[i] => i = 1
          BY <1>1 DEF DeployInv, RunKnows, Sending
        <4>2. \A i \in DOMAIN Tail(deployRun.todo) :
                i \in Nat /\ i + 1 \in DOMAIN deployRun.todo /\ i + 1 # 1
                /\ Tail(deployRun.todo)[i] = deployRun.todo[i + 1]
          BY <1>2
        <4>3. \A i, j \in DOMAIN Tail(deployRun.todo) :
                Tail(deployRun.todo)[i] = Tail(deployRun.todo)[j] => i = j
          <5> SUFFICES ASSUME NEW i \in DOMAIN Tail(deployRun.todo), NEW j \in DOMAIN Tail(deployRun.todo),
                              Tail(deployRun.todo)[i] = Tail(deployRun.todo)[j]
                       PROVE  i = j
            OBVIOUS
          <5>1. i + 1 = j + 1
            BY <4>1, <4>2
          <5> QED
            BY <4>2, <5>1
        <4> QED
          BY <4>1, <4>2, <4>3
      <3> QED
        BY <1>1, <1>3, <1>4, <2>2, <3>2, <3>3 DEF DeployInv, RunKnows, Sending, WaitForTxConfirm
    <2> QED
      BY <1>3, <2>1, <2>2
  <1> QED
    BY <1>3, <1>4, <1>5, RunInv DEF WaitForTxConfirm

LEMMA BackToIdle == ASSUME deployRun' = IdleRun PROVE deployRun' \in DeployRuns /\ SentNow' = {} /\ RunKnows'
  <1>1. deployRun' \in DeployRuns
    BY EmptySeq DEF IdleRun, DeployRuns
  <1>2. SentNow' = {}
    BY DEF SentNow, ToSet, IdleRun
  <1> QED
    BY <1>1, <1>2 DEF RunKnows, Sending, IdleRun

LEMMA DeployFailsInv == ASSUME DeployInv, DeployFails PROVE DeployInv'
  BY RunInv, BackToIdle DEF DeployFails, Sending

-----------------------------------------------------------------------------
(* The steps of the chain.                                                  *)
LEMMA TxCommitsInv == ASSUME DeployInv, TxCommits PROVE DeployInv'
  <1>1. PICK new \in DOMAIN code :
          code[new].state = "pending" /\ code' = [code EXCEPT ![new].state = "live"]
    BY DEF TxCommits
  <1>2. code \in Seq(CodeCells) /\ DOMAIN code = 1 .. Len(code)
    BY LenProperties DEF DeployInv, DeployTypeOK
  <1>3. code[new] \in CodeCells
    BY <1>1, <1>2, ElementOfSeq
  <1>4. [code[new] EXCEPT !.state = "live"] \in CodeCells
    BY <1>3 DEF CodeCells, CellStates
  <1>5. /\ code' \in Seq(CodeCells) /\ DOMAIN code' = DOMAIN code
        /\ \A n \in DOMAIN code :
             code'[n] = IF n = new THEN [code[new] EXCEPT !.state = "live"] ELSE code[n]
    BY <1>1, <1>2, <1>4, ExceptSeq
  <1>6. \A n \in DOMAIN code :
          /\ code'[n].name = code[n].name /\ code'[n].typeId = code[n].typeId
          /\ code'[n].from = code[n].from
          /\ OnChain(n)' <=> OnChain(n)
          /\ code'[n].state = "spent" <=> code[n].state = "spent"
          /\ code'[n].state = "erased" <=> code[n].state = "erased"
    BY <1>1, <1>3, <1>5 DEF CodeCells, OnChain
  <1>7. UNCHANGED <<migrations, scripts, deployRun, clock, deployGaps>>
    BY DEF TxCommits
  <1>8. DeployTypeOK' /\ RecordsTrue' /\ Chained'
    <2>1. DeployTypeOK'
      BY <1>5, <1>7 DEF DeployInv, DeployTypeOK
    <2>2. RecordsTrue'
      BY <1>5, <1>6, <1>7 DEF DeployInv, RecordsTrue, IsRecordOf
    <2>3. Chained'
      BY <1>5, <1>6, <1>7 DEF DeployInv, Chained
    <2> QED
      BY <2>1, <2>2, <2>3
  <1>9. Lineage'
    BY <1>5, <1>6, <1>7 DEF DeployInv, Chained, Lineage
  <1>10. Recorded' = Recorded /\ SentNow' = SentNow
    BY <1>5, <1>6, <1>7 DEF Recorded, SentNow
  <1>11. RunKnows'
    BY <1>5, <1>6, <1>7, <1>10 DEF DeployInv, RunKnows, Sending
  <1>12. \A c \in Contracts : Followed(c)' => Followed(c)
    BY <1>5, <1>6, <1>7, <1>10 DEF Followed, SentNow
  <1>13. \A c \in Contracts : Newest(c)' = Newest(c)
    BY <1>7 DEF Newest
  <1>14. OneCell'
    BY <1>5, <1>6, <1>10, <1>12, <1>13 DEF DeployInv, OneCell
  <1>15. ScriptsKnown'
    <2> SUFFICES ASSUME NEW c \in Contracts, scripts[c] # 0
                 PROVE  /\ scripts[c] \in DOMAIN code' /\ code'[scripts[c]].name = c
                        /\ (deployGaps = {} /\ Followed(c)' /\ \A n \in SentNow' : code'[n].name # c) =>
                             OnChain(scripts[c])'
      BY <1>7 DEF ScriptsKnown
    <2>1. /\ scripts[c] \in DOMAIN code /\ code[scripts[c]].name = c
          /\ (deployGaps = {} /\ Followed(c) /\ \A n \in SentNow : code[n].name # c) =>
                OnChain(scripts[c])
      BY DEF DeployInv, ScriptsKnown
    <2>2. \A n \in SentNow : n \in DOMAIN code /\ code'[n].name = code[n].name
      BY <1>6 DEF DeployInv, RunKnows
    <2>3. OnChain(scripts[c]) => OnChain(scripts[c])'
      <3>1. PICK n \in DOMAIN code : n = scripts[c]
        BY <2>1
      <3> QED
        BY <1>6, <1>7, <3>1 DEF OnChain
    <2> QED
      BY <1>5, <1>6, <1>10, <1>12, <2>1, <2>2, <2>3
  <1> QED
    BY <1>8, <1>9, <1>11, <1>14, <1>15 DEF DeployInv

LEMMA ChainStartsAnewInv == ASSUME DeployInv, ChainStartsAnew PROVE DeployInv'
  <1>1. code \in Seq(CodeCells) /\ DOMAIN code = 1 .. Len(code) /\ Len(code) \in Nat
    BY LenProperties DEF DeployInv, DeployTypeOK
  <1>2. \A n \in DOMAIN code : code[n] \in CodeCells
    BY <1>1, ElementOfSeq
  <1>3. \A n \in DOMAIN code :
          /\ [code[n] EXCEPT !.state = "erased"] \in CodeCells
          /\ [code[n] EXCEPT !.state = "erased"].name = code[n].name
          /\ [code[n] EXCEPT !.state = "erased"].typeId = code[n].typeId
          /\ [code[n] EXCEPT !.state = "erased"].from = code[n].from
          /\ [code[n] EXCEPT !.state = "erased"].state = "erased"
    BY <1>2 DEF CodeCells, CellStates
  <1>4. code' = [n \in 1 .. Len(code) |-> [code[n] EXCEPT !.state = "erased"]]
    BY <1>1 DEF ChainStartsAnew
  <1>5. code' \in Seq(CodeCells) /\ DOMAIN code' = DOMAIN code
    BY <1>1, <1>3, <1>4, IsASeq
  <1>6. \A n \in DOMAIN code :
          /\ code'[n].name = code[n].name /\ code'[n].typeId = code[n].typeId
          /\ code'[n].from = code[n].from /\ code'[n].state = "erased"
    BY <1>1, <1>3, <1>4
  <1>7. UNCHANGED <<migrations, scripts, deployRun, clock>>
        /\ deployGaps' = deployGaps \cup {"reset"}
    BY DEF ChainStartsAnew
  <1>8. DeployTypeOK' /\ RecordsTrue'
    BY <1>5, <1>6, <1>7 DEF DeployInv, DeployTypeOK, RecordsTrue, IsRecordOf
  <1>9. Chained' /\ Lineage'
    BY <1>5, <1>6, <1>7 DEF DeployInv, Chained, Lineage
  <1>10. Recorded' = Recorded /\ SentNow' = SentNow
    BY <1>5, <1>6, <1>7 DEF Recorded, SentNow
  <1>11. RunKnows'
    BY <1>5, <1>6, <1>7, <1>10 DEF DeployInv, RunKnows, Sending
  <1>12. OneCell' /\ ScriptsKnown'
    BY <1>5, <1>6, <1>7 DEF DeployInv, OneCell, ScriptsKnown, OnChain
  <1> QED
    BY <1>8, <1>9, <1>11, <1>12 DEF DeployInv

LEMMA ClockIsSetBackInv == ASSUME DeployInv, ClockIsSetBack PROVE DeployInv'
  <1>1. UNCHANGED <<code, migrations, scripts, deployRun>> /\ clock' \in Int
        /\ deployGaps' = deployGaps \cup {"clock"}
    BY DEF DeployInv, DeployTypeOK, ClockIsSetBack
  <1>2. DeployTypeOK' /\ RecordsTrue' /\ Chained' /\ Lineage'
    BY <1>1 DEF DeployInv, DeployTypeOK, RecordsTrue, IsRecordOf, Chained, Lineage
  <1>3. RunKnows'
    BY <1>1 DEF DeployInv, RunKnows, Sending, SentNow, Recorded
  <1>4. OneCell' /\ ScriptsKnown'
    BY <1>1 DEF DeployInv, OneCell, ScriptsKnown, Followed
  <1> QED
    BY <1>2, <1>3, <1>4 DEF DeployInv

-----------------------------------------------------------------------------
(* The steps that write records.                                            *)
LEMMA FileWritten ==
  ASSUME DeployInv, NEW c \in Contracts, NEW recipe \in [tx : Nat, typeId : Int],
         IsRecordOf(recipe, c), GenerateDeploymentMigrationFile(c, recipe),
         code' = code, deployGaps \subseteq deployGaps'
  PROVE  /\ migrations' \in [Contracts -> SUBSET MigrationFiles] /\ clock' \in Int
         /\ RecordsTrue'
         /\ \A d \in Contracts \ {c} : migrations'[d] = migrations[d]
         /\ \E file \in migrations'[c] : file.tx = recipe.tx
         /\ "clock" \notin deployGaps =>
              /\ \A f \in migrations[c] : f \in migrations'[c]
              /\ \A f \in migrations'[c] : f \in migrations[c] \/ f.tx = recipe.tx
              /\ Newest(c)'.tx = recipe.tx
  <1> DEFINE new == [at |-> clock + 1, tx |-> recipe.tx, typeId |-> recipe.typeId]
             kept == {f \in migrations[c] : f.at # clock + 1}
  <1>1. /\ new \in MigrationFiles /\ clock \in Int
        /\ migrations \in [Contracts -> SUBSET MigrationFiles]
    BY DEF DeployInv, DeployTypeOK, MigrationFiles
  <1>2. /\ migrations' = [migrations EXCEPT ![c] = kept \cup {new}]
        /\ clock' = clock + 1
    BY DEF GenerateDeploymentMigrationFile, GetFormattedMigrationDate
  <1>3. kept \subseteq migrations[c] /\ migrations[c] \subseteq MigrationFiles
    BY <1>1
  <1>4. migrations' \in [Contracts -> SUBSET MigrationFiles] /\ clock' \in Int
    BY <1>1, <1>2, <1>3
  <1>5. /\ migrations'[c] = kept \cup {new}
        /\ \A d \in Contracts \ {c} : migrations'[d] = migrations[d]
    BY <1>1, <1>2
  <1>6. IsRecordOf(new, c)
    BY DEF IsRecordOf
  <1>7. \A d \in Contracts : \A file \in migrations'[d] : IsRecordOf(file, d)'
    BY <1>3, <1>5, <1>6 DEF DeployInv, RecordsTrue, IsRecordOf
  <1>8. \E file \in migrations'[c] : \A f \in migrations'[c] : f.at <= file.at
    <2> HIDE DEF new
    <2>1. new.at = clock + 1 /\ new \in migrations'[c]
      BY <1>5 DEF new
    <2>2. CASE \A f \in migrations[c] : f.at <= clock + 1
      BY <1>1, <1>3, <1>5, <2>1, <2>2 DEF MigrationFiles
    <2>3. CASE \E f \in migrations[c] : ~(f.at <= clock + 1)
      <3>1. PICK last \in migrations[c] : \A f \in migrations[c] : f.at <= last.at
        BY <2>3 DEF DeployInv, RecordsTrue
      <3>2. last.at \in Int /\ clock + 1 <= last.at /\ last.at # clock + 1
        <4>1. PICK f \in migrations[c] : ~(f.at <= clock + 1)
          BY <2>3
        <4>2. f.at \in Int /\ last.at \in Int
          BY <1>3 DEF MigrationFiles
        <4> QED
          BY <1>1, <3>1, <4>1, <4>2
      <3>3. last \in migrations'[c]
        BY <1>5, <3>2
      <3> QED
        BY <1>3, <1>5, <2>1, <3>1, <3>2, <3>3
    <2> QED
      BY <2>2, <2>3
  <1>9. "clock" \notin deployGaps =>
          \A d \in Contracts : \A file \in migrations'[d] : file.at <= clock'
    <2> SUFFICES ASSUME "clock" \notin deployGaps, NEW d \in Contracts, NEW file \in migrations'[d]
                 PROVE  file.at <= clock'
      OBVIOUS
    <2>1. CASE file \in migrations[d]
      <3>1. file.at <= clock /\ file.at \in Int
        BY <1>1, <2>1 DEF DeployInv, RecordsTrue, MigrationFiles
      <3> QED
        BY <1>1, <1>2, <3>1
    <2>2. CASE file = new
      BY <1>1, <1>2, <2>2
    <2> QED
      BY <1>3, <1>5, <2>1, <2>2
  <1>10. RecordsTrue'
    BY <1>5, <1>7, <1>8, <1>9 DEF DeployInv, RecordsTrue
  <1>11. ASSUME "clock" \notin deployGaps
         PROVE  /\ kept = migrations[c]
                /\ Newest(c)'.tx = recipe.tx
    <2>1. \A f \in migrations[c] : f.at <= clock /\ f.at \in Int
      BY <1>3, <1>11 DEF DeployInv, RecordsTrue, MigrationFiles
    <2>2. kept = migrations[c]
      BY <1>1, <2>1
    <2>3. Newest(c)' \in migrations'[c] /\ \A f \in migrations'[c] : f.at <= Newest(c)'.at
      BY <1>8 DEF Newest
    <2>4. Newest(c)' = new
      BY <1>1, <1>5, <2>1, <2>3
    <2> QED
      BY <2>2, <2>4
  <1>12. new \in migrations'[c] /\ new.tx = recipe.tx
    BY <1>5
  <1>13. \A f \in migrations'[c] : f \in kept \/ f.tx = recipe.tx
    BY <1>5
  <1> HIDE DEF new, kept
  <1>14. "clock" \notin deployGaps => \A f \in migrations[c] : f \in migrations'[c]
    BY <1>5, <1>11
  <1> QED
    BY <1>4, <1>5, <1>10, <1>11, <1>12, <1>13, <1>14

LEMMA SaveMigrationInv == ASSUME DeployInv, SaveMigration PROVE DeployInv'
  <1>1. PICK tx \in Unsaved : GenerateDeploymentMigrationFile(code[tx].name, RecipeOf(tx))
    BY DEF SaveMigration
  <1>2. UNCHANGED <<code, scripts, deployRun, deployGaps>> /\ ~Sending /\ deployRun.pc # "idle"
    BY DEF SaveMigration, Sending
  <1>3. tx \in SentNow /\ tx \in DOMAIN code /\ tx \notin Recorded
    BY DEF Unsaved, SentNow, DeployInv, RunKnows
  <1>4. code[tx] \in CodeCells /\ tx \in Nat /\ tx # 0
    BY <1>3, ElementOfSeq, LenProperties DEF DeployInv, DeployTypeOK
  <1> DEFINE c == code[tx].name
             recipe == RecipeOf(tx)
  <1>5. c \in Contracts /\ recipe \in [tx : Nat, typeId : Int] /\ recipe.tx = tx
    BY <1>4 DEF CodeCells, RecipeOf
  <1>6. IsRecordOf(recipe, c)
    BY <1>3 DEF IsRecordOf, RecipeOf
  <1>7. PICK name \in Contracts : name = c
    BY <1>5
  <1>8. /\ migrations' \in [Contracts -> SUBSET MigrationFiles] /\ clock' \in Int
        /\ RecordsTrue'
        /\ \A d \in Contracts \ {name} : migrations'[d] = migrations[d]
        /\ \E file \in migrations'[name] : file.tx = tx
        /\ "clock" \notin deployGaps =>
             /\ \A f \in migrations[name] : f \in migrations'[name]
             /\ \A f \in migrations'[name] : f \in migrations[name] \/ f.tx = tx
             /\ Newest(name)'.tx = tx
    BY <1>1, <1>2, <1>5, <1>6, <1>7, FileWritten
  <1>9. DeployTypeOK' /\ Chained' /\ Lineage'
    BY <1>2, <1>8 DEF DeployInv, DeployTypeOK, Chained, Lineage
  <1>10. RunKnows'
    BY <1>2 DEF DeployInv, RunKnows, Sending, SentNow
  <1>11. "clock" \notin deployGaps => Recorded' = Recorded \cup {tx}
    <2> SUFFICES ASSUME "clock" \notin deployGaps, NEW n \in DOMAIN code
                 PROVE  n \in Recorded' <=> n \in Recorded \/ n = tx
      BY <1>2, <1>3 DEF Recorded
    <2>1. n \in Recorded' <=> \E file \in migrations'[code[n].name] : file.tx = n
      BY <1>2 DEF Recorded
    <2>2. n \in Recorded <=> \E file \in migrations[code[n].name] : file.tx = n
      BY DEF Recorded
    <2>3. code[n].name \in Contracts
      <3>1. code[n] \in CodeCells
        BY ElementOfSeq, LenProperties DEF DeployInv, DeployTypeOK
      <3> QED
        BY <3>1 DEF CodeCells
    <2>4. CASE code[n].name = name
      BY <1>7, <1>8, <2>1, <2>2, <2>4
    <2>5. CASE code[n].name # name
      BY <1>7, <1>8, <2>1, <2>2, <2>3, <2>5
    <2> QED
      BY <2>4, <2>5
  <1>12. ASSUME NEW d \in Contracts, Followed(d)' PROVE Followed(d)
    BY <1>2, <1>3, <1>11, <1>12 DEF Followed, SentNow, OnChain
  <1>13. OneCell'
    <2> SUFFICES ASSUME NEW d \in Contracts, Followed(d)',
                        NEW n \in DOMAIN code, code[n].name = d, OnChain(n)
                 PROVE  /\ \A m \in DOMAIN code : code[m].name = d /\ OnChain(m) => m = n
                        /\ n \in Recorded' => Newest(d)'.tx \in {n, 0}
      BY <1>2 DEF OneCell, OnChain
    <2>1. /\ \A m \in DOMAIN code : code[m].name = d /\ OnChain(m) => m = n
          /\ n \in Recorded => Newest(d).tx \in {n, 0}
          /\ "clock" \notin deployGaps
      BY <1>2, <1>12 DEF DeployInv, OneCell, Followed
    <2>2. CASE d # name
      <3>1. Newest(d)' = Newest(d)
        BY <1>8, <2>2 DEF Newest
      <3> QED
        BY <1>7, <1>11, <2>1, <2>2, <3>1
    <2>3. CASE d = name
      <3>1. code[tx].state \in {"pending", "live", "erased"}
        BY <1>3, <1>4 DEF CodeCells, CellStates, DeployInv, RunKnows
      <3>2. CASE OnChain(tx)
        BY <1>3, <1>7, <1>8, <2>1, <2>3, <3>2
      <3>3. CASE code[tx].state = "erased"
        <4>1. n # tx /\ code[n].state # "erased"
          BY <3>3 DEF OnChain
        <4>2. n \in Nat /\ tx \in Nat
          BY LenProperties, <1>3 DEF DeployInv, DeployTypeOK
        <4>3. n > tx
          BY <1>3, <3>3, <4>1, <4>2 DEF DeployInv, Chained
        <4>4. n \in SentNow
          BY <1>3, <4>3 DEF DeployInv, RunKnows
        <4> QED
          BY <1>3, <1>7, <2>3, <4>1, <4>4 DEF DeployInv, RunKnows
      <3> QED
        BY <3>1, <3>2, <3>3 DEF OnChain
    <2> QED
      BY <2>2, <2>3
  <1>14. ScriptsKnown'
    BY <1>2, <1>12 DEF DeployInv, ScriptsKnown, SentNow, OnChain
  <1> QED
    BY <1>8, <1>9, <1>10, <1>13, <1>14 DEF DeployInv

LEMMA SaveCrashesInv == ASSUME DeployInv, SaveCrashes PROVE DeployInv'
  <1>1. /\ UNCHANGED <<code, scripts>> /\ deployGaps' = deployGaps \cup {"crash"}
        /\ deployRun' \in DeployRuns /\ SentNow' = {} /\ RunKnows'
    BY BackToIdle DEF SaveCrashes
  <1>2. ScriptsKnown'
    BY <1>1 DEF DeployInv, ScriptsKnown
  <1>3. CASE UNCHANGED <<migrations, clock>>
    <2>1. DeployTypeOK' /\ RecordsTrue' /\ Chained' /\ Lineage'
      BY <1>1, <1>3 DEF DeployInv, DeployTypeOK, RecordsTrue, IsRecordOf, Chained, Lineage
    <2>2. Recorded' = Recorded
      BY <1>1, <1>3 DEF Recorded
    <2>3. \A c \in Contracts : Followed(c)' => Followed(c)
      BY <1>1, <2>2 DEF Followed, SentNow, OnChain
    <2>4. \A c \in Contracts : Newest(c)' = Newest(c)
      BY <1>3 DEF Newest
    <2>5. OneCell'
      BY <1>1, <2>2, <2>3, <2>4 DEF DeployInv, OneCell, OnChain
    <2> QED
      BY <1>1, <1>2, <2>1, <2>5 DEF DeployInv
  <1>4. ASSUME NEW tx \in Unsaved,
               GenerateDeploymentMigrationFile(code[tx].name, [tx |-> 0, typeId |-> Torn_])
        PROVE  DeployInv'
    <2>1. tx \in DOMAIN code
      BY DEF Unsaved, SentNow, DeployInv, RunKnows
    <2>2. code[tx] \in CodeCells
      BY <2>1, ElementOfSeq, LenProperties DEF DeployInv, DeployTypeOK
    <2>3. PICK name \in Contracts : name = code[tx].name
      BY <2>2 DEF CodeCells
    <2> DEFINE recipe == [tx |-> 0, typeId |-> Torn_]
    <2>4. recipe \in [tx : Nat, typeId : Int] /\ recipe.tx = 0 /\ IsRecordOf(recipe, name)
      BY DEF IsRecordOf, Torn_
    <2>5. /\ migrations' \in [Contracts -> SUBSET MigrationFiles] /\ clock' \in Int
          /\ RecordsTrue'
          /\ \A d \in Contracts \ {name} : migrations'[d] = migrations[d]
          /\ "clock" \notin deployGaps =>
               /\ \A f \in migrations[name] : f \in migrations'[name]
               /\ \A f \in migrations'[name] : f \in migrations[name] \/ f.tx = 0
               /\ Newest(name)'.tx = 0
      BY <1>1, <1>4, <2>3, <2>4, FileWritten
    <2>6. DeployTypeOK' /\ Chained' /\ Lineage'
      BY <1>1, <2>5 DEF DeployInv, DeployTypeOK, Chained, Lineage
    <2>7. 0 \notin DOMAIN code
      BY LenProperties DEF DeployInv, DeployTypeOK
    <2>8. "clock" \notin deployGaps => Recorded' = Recorded
      <3> SUFFICES ASSUME "clock" \notin deployGaps, NEW n \in DOMAIN code
                   PROVE  n \in Recorded' <=> n \in Recorded
        BY <1>1 DEF Recorded
      <3>1. n \in Recorded' <=> \E file \in migrations'[code[n].name] : file.tx = n
        BY <1>1 DEF Recorded
      <3>2. n \in Recorded <=> \E file \in migrations[code[n].name] : file.tx = n
        BY DEF Recorded
      <3>3. code[n].name \in Contracts
        <4>1. code[n] \in CodeCells
          BY ElementOfSeq, LenProperties DEF DeployInv, DeployTypeOK
        <4> QED
          BY <4>1 DEF CodeCells
      <3>4. n # 0
        BY <2>7
      <3>5. CASE code[n].name = name
        BY <2>5, <3>1, <3>2, <3>4, <3>5
      <3>6. CASE code[n].name # name
        BY <2>5, <3>1, <3>2, <3>3, <3>6
      <3> QED
        BY <3>5, <3>6
    <2>9. \A c \in Contracts : Followed(c)' => Followed(c) /\ "clock" \notin deployGaps
      BY <1>1, <2>8 DEF Followed, SentNow, OnChain
    <2>10. \A c \in Contracts \ {name} : Newest(c)' = Newest(c)
      BY <2>5 DEF Newest
    <2>11. OneCell'
      BY <1>1, <2>5, <2>8, <2>9, <2>10 DEF DeployInv, OneCell, OnChain
    <2> QED
      BY <1>1, <1>2, <2>5, <2>6, <2>11 DEF DeployInv
  <1> QED
    BY <1>3, <1>4 DEF SaveCrashes

LEMMA GenerateScriptInfoInv == ASSUME DeployInv, GenerateScriptInfo PROVE DeployInv'
  <1> DEFINE own(c) == {n \in SentNow : code[n].name = c}
  <1>1. /\ UNCHANGED <<code, migrations, clock, deployGaps>>
        /\ deployRun' \in DeployRuns /\ SentNow' = {} /\ RunKnows' /\ ~Sending
    BY BackToIdle DEF GenerateScriptInfo, Sending
  <1>2. scripts' = [c \in Contracts |-> IF own(c) = {} THEN 0 ELSE Max(own(c))]
    BY DEF GenerateScriptInfo, SentNow
  <1>3. ASSUME NEW c \in Contracts, own(c) # {}
        PROVE  Max(own(c)) \in SentNow /\ code[Max(own(c))].name = c
    <2>1. PICK n \in own(c) : TRUE
      BY <1>3
    <2>2. own(c) = {n}
      BY <2>1 DEF DeployInv, RunKnows
    <2>3. n \in Nat
      BY <2>1, LenProperties DEF DeployInv, RunKnows, DeployTypeOK
    <2>4. Max(own(c)) \in own(c)
      BY <2>1, <2>2, <2>3 DEF Max
    <2> QED
      BY <2>4
  <1>4. \A c \in Contracts : scripts'[c] # 0 =>
          scripts'[c] \in SentNow /\ code[scripts'[c]].name = c
    BY <1>2, <1>3
  <1>5. \A n \in SentNow : n \in DOMAIN code /\ n \in Nat /\ code[n] \in CodeCells
    BY ElementOfSeq, LenProperties DEF DeployInv, RunKnows, DeployTypeOK
  <1>6. scripts' \in [Contracts -> Nat]
    BY <1>2, <1>3, <1>5
  <1>7. DeployTypeOK' /\ RecordsTrue' /\ Chained' /\ Lineage'
    BY <1>1, <1>6 DEF DeployInv, DeployTypeOK, RecordsTrue, IsRecordOf, Chained, Lineage
  <1>8. Recorded' = Recorded
    BY <1>1 DEF Recorded
  <1>9. \A c \in Contracts : Followed(c)' => Followed(c)
    BY <1>1, <1>8 DEF Followed, SentNow, OnChain
  <1>10. \A c \in Contracts : Newest(c)' = Newest(c)
    BY <1>1 DEF Newest
  <1>11. OneCell'
    BY <1>1, <1>8, <1>9, <1>10 DEF DeployInv, OneCell, OnChain
  <1>12. ASSUME NEW n \in SentNow, deployGaps = {} PROVE OnChain(n)
    BY <1>5, <1>12 DEF DeployInv, RunKnows, Chained, OnChain, CodeCells, CellStates
  <1>13. ScriptsKnown'
    BY <1>1, <1>4, <1>5, <1>12 DEF ScriptsKnown, OnChain
  <1> QED
    BY <1>1, <1>7, <1>11, <1>13 DEF DeployInv

LEMMA DeployNextInv ==
  BinariesAssumption /\ DeployInv /\ [DeployNext]_deployVars => DeployInv'
  <1> SUFFICES ASSUME BinariesAssumption, DeployInv, [DeployNext]_deployVars PROVE DeployInv'
    OBVIOUS
  <1>1. CASE UNCHANGED deployVars
    <2>1. RunKnows' /\ SentNow' = SentNow /\ deployRun' \in DeployRuns
      BY <1>1 DEF deployVars, DeployInv, DeployTypeOK, RunKnows, SentNow, Sending, Recorded
    <2> QED
      BY <1>1, <2>1, RunInv DEF deployVars
  <1>2. CASE DeployNext
    BY <1>2, DeployBeginsInv, DeployScriptInv, DeployNewInv, UpgradeInv, TxCommitsInv, WaitInv,
       DeployFailsInv, SaveMigrationInv, GenerateScriptInfoInv, SaveCrashesInv,
       ChainStartsAnewInv, ClockIsSetBackInv DEF DeployNext
  <1> QED
    BY <1>1, <1>2

LEMMA DeployInvImplies == DeployInv => UpgradeKeepsTypeId
  <1> SUFFICES ASSUME DeployInv PROVE UpgradeKeepsTypeId
    OBVIOUS
  <1>1. ASSUME NEW c \in Contracts, Followed(c)
        PROVE  Cardinality({n \in DOMAIN code : code[n].name = c /\ OnChain(n)}) <= 1
    <2> DEFINE S == {n \in DOMAIN code : code[n].name = c /\ OnChain(n)}
    <2>1. CASE S = {}
      BY <2>1, FS_EmptySet
    <2>2. CASE \E n : S = {n}
      BY <2>2, FS_Singleton
    <2> QED
      BY <1>1, <2>1, <2>2 DEF DeployInv, OneCell
  <1>2. ASSUME NEW c \in Contracts, Followed(c), NEW n \in DOMAIN code,
               OnChain(n), code[n].name = c, deployRun.pc = "idle"
        PROVE  Newest(c).tx \in {n, 0}
    <2>1. n \in Recorded
      BY <1>2 DEF DeployInv, RunKnows, Followed, ToSet
    <2> QED
      BY <1>2, <2>1 DEF DeployInv, OneCell
  <1>3. ScriptsCurrent
    BY DEF DeployInv, RunKnows, ScriptsKnown, ScriptsCurrent, SentNow, ToSet
  <1> QED
    BY <1>1, <1>2, <1>3 DEF UpgradeKeepsTypeId, OneTypeId, DeployInv

-----------------------------------------------------------------------------
(* A set of naturals has a least element: what induction stands on here.    *)
LEMMA LeastNatural ==
  ASSUME NEW T \in SUBSET Nat, T # {}
  PROVE  \E n \in T : \A m \in T : n <= m
  <1>1. PICK n \in T : \A m \in T : ~(<<m, n>> \in OpToRel(<, Nat))
    BY NatLessThanWellFounded, WFMin
  <1>2. ASSUME NEW m \in T PROVE n <= m
    <2>1. ~(m < n)
      BY <1>1 DEF OpToRel
    <2> QED
      BY <2>1
  <1> QED
    BY <1>2

(* Sums of amounts.                                                         *)
SumOf(u, S) == MapThenSumSet(LAMBDA i : u[i].amount, S)
IsTotal(t, u, S) ==
  /\ t \in [SUBSET S -> Int]
  /\ t[{}] = 0
  /\ \A T \in SUBSET S : \A i \in T : t[T] = u[i].amount + t[T \ {i}]

LEMMA TotalExists ==
  ASSUME NEW u, NEW S, IsFiniteSet(S), \A i \in S : u[i].amount \in Int
  PROVE  \E t : IsTotal(t, u, S)
  <1> DEFINE Bad == {n \in Nat : \E T \in SUBSET S :
                        Cardinality(T) = n /\ ~\E t : IsTotal(t, u, T)}
  <1>1. SUFFICES ASSUME Bad # {} PROVE FALSE
    <2>1. Cardinality(S) \notin Bad /\ Cardinality(S) \in Nat
      BY <1>1, FS_CardinalityType
    <2> QED
      BY <2>1
  <1>2. PICK n \in Bad : \A m \in Bad : n <= m
    <2> HIDE DEF Bad
    <2>1. Bad \subseteq Nat
      BY DEF Bad
    <2> QED
      BY <1>1, <2>1, LeastNatural
  <1>3. PICK T \in SUBSET S : Cardinality(T) = n /\ ~\E t : IsTotal(t, u, T)
    BY <1>2
  <1>4. IsFiniteSet(T)
    BY FS_Subset
  <1>5. CASE T = {}
    <2>1. IsTotal([R \in SUBSET T |-> 0], u, T)
      BY <1>5 DEF IsTotal
    <2> QED
      BY <2>1, <1>3
  <1>6. CASE T # {}
    <2>1. PICK x \in T : TRUE
      BY <1>6
    <2>2. Cardinality(T \ {x}) = n - 1 /\ n - 1 \in Nat /\ T \ {x} \in SUBSET S
      <3>1. n \in Nat /\ n # 0
        BY <1>3, <1>4, <1>6, FS_CardinalityType, FS_EmptySet
      <3>2. Cardinality(T \ {x}) = n - 1
        BY <2>1, <1>3, <1>4, FS_RemoveElement
      <3> QED
        BY <3>1, <3>2
    <2>3. n - 1 \notin Bad
      <3> HIDE DEF Bad
      <3>1. n \in Nat
        BY <1>2 DEF Bad
      <3> QED
        BY <1>2, <3>1
    <2>4. PICK s : IsTotal(s, u, T \ {x})
      BY <2>2, <2>3
    <2> DEFINE t == [R \in SUBSET T |-> s[R \ {x}] + (IF x \in R THEN u[x].amount ELSE 0)]
    <2>5. \A R \in SUBSET T : R \ {x} \in SUBSET (T \ {x}) /\ s[R \ {x}] \in Int
      BY <2>4 DEF IsTotal
    <2>6. u[x].amount \in Int
      BY <2>1
    <2>7. t \in [SUBSET T -> Int] /\ t[{}] = 0
      <3>1. {} \ {x} = {}
        OBVIOUS
      <3> QED
        BY <2>4, <2>5, <2>6, <3>1 DEF IsTotal
    <2>8. ASSUME NEW R \in SUBSET T, NEW i \in R PROVE t[R] = u[i].amount + t[R \ {i}]
      <3>1. R \ {i} \in SUBSET T /\ u[i].amount \in Int
        OBVIOUS
      <3>0. /\ t[R] = s[R \ {x}] + (IF x \in R THEN u[x].amount ELSE 0)
            /\ t[R \ {i}] = s[(R \ {i}) \ {x}] + (IF x \in R \ {i} THEN u[x].amount ELSE 0)
        BY <3>1
      <3> HIDE DEF t
      <3>2. CASE i = x
        <4>1. (R \ {i}) \ {x} = R \ {x} /\ x \notin R \ {i}
          BY <3>2
        <4>2. t[R] = s[R \ {x}] + u[x].amount /\ t[R \ {i}] = s[R \ {x}] + 0
          BY <3>0, <3>2, <4>1
        <4>3. s[R \ {x}] \in Int
          BY <2>5
        <4> QED
          BY <3>2, <4>2, <4>3, <2>6
      <3>3. CASE i # x
        <4>1. (R \ {i}) \ {x} = (R \ {x}) \ {i} /\ (x \in R \ {i} <=> x \in R) /\ i \in R \ {x}
          BY <3>3
        <4>2. s[R \ {x}] = u[i].amount + s[(R \ {x}) \ {i}]
          BY <4>1, <2>4, <2>5 DEF IsTotal
        <4>3. s[(R \ {x}) \ {i}] \in Int
          BY <2>4, <2>5, <4>1 DEF IsTotal
        <4> DEFINE w == IF x \in R THEN u[x].amount ELSE 0
        <4>4. t[R] = s[R \ {x}] + w
          BY <3>0
        <4>5. t[R \ {i}] = s[(R \ {x}) \ {i}] + w
          <5>1. (IF x \in R \ {i} THEN u[x].amount ELSE 0) = w
            BY <4>1
          <5>2. s[(R \ {i}) \ {x}] = s[(R \ {x}) \ {i}]
            BY <4>1
          <5> QED
            BY <3>0, <5>1, <5>2
        <4>6. w \in Int
          BY <2>6
        <4> HIDE DEF w
        <4> QED
          BY <3>1, <4>2, <4>3, <4>4, <4>5, <4>6
      <3> QED
        BY <3>2, <3>3
    <2>9. IsTotal(t, u, T)
      BY <2>7, <2>8 DEF IsTotal
    <2> QED
      BY <2>9, <1>3
  <1> QED
    BY <1>5, <1>6

(* The sum is what any total says of the whole set.                         *)
LEMMA SumIsTotal ==
  ASSUME NEW u, NEW S, IsFiniteSet(S), NEW t, IsTotal(t, u, S)
  PROVE  SumOf(u, S) = t[S]
  <1> DEFINE Step(f) ==
        [s \in SUBSET S |-> IF s = {} THEN 0
           ELSE u[CHOOSE x \in s : TRUE].amount + f[s \ {CHOOSE x \in s : TRUE}]]
  <1>1. t = Step(t)
    <2>1. ASSUME NEW s \in SUBSET S PROVE t[s] = Step(t)[s]
      <3>1. CASE s = {}
        BY <3>1 DEF IsTotal
      <3>2. CASE s # {}
        <4>1. (CHOOSE x \in s : TRUE) \in s
          BY <3>2
        <4> QED
          BY <3>2, <4>1 DEF IsTotal
      <3> QED
        BY <3>1, <3>2
    <2>2. t = [s \in SUBSET S |-> t[s]]
      BY DEF IsTotal
    <2> QED
      BY <2>1, <2>2
  <1> DEFINE f == CHOOSE g : g = Step(g)
  <1>2. f = Step(f)
    <2> HIDE DEF Step
    <2> QED
      BY <1>1
  <1>3. SumOf(u, S) = f[S]
    BY DEF SumOf, MapThenSumSet, MapThenFoldSet
  <1> DEFINE Bad == {n \in Nat : \E s \in SUBSET S : Cardinality(s) = n /\ f[s] # t[s]}
  <1>4. SUFFICES ASSUME Bad # {} PROVE FALSE
    <2> HIDE DEF f
    <2>1. Cardinality(S) \notin Bad /\ Cardinality(S) \in Nat
      BY <1>4, FS_CardinalityType
    <2> QED
      BY <2>1, <1>3
  <1> HIDE DEF f
  <1>5. PICK n \in Bad : \A m \in Bad : n <= m
    <2> HIDE DEF Bad
    <2>1. Bad \subseteq Nat
      BY DEF Bad
    <2> QED
      BY <1>4, <2>1, LeastNatural
  <1>6. PICK s \in SUBSET S : Cardinality(s) = n /\ f[s] # t[s]
    BY <1>5
  <1>7. n \in Nat /\ n - 1 \notin Bad
    <2>1. n \in Nat
      BY <1>5
    <2> HIDE DEF Bad
    <2> QED
      BY <1>5, <2>1
  <1>8. f[s] = Step(f)[s] /\ t[s] = Step(t)[s]
    <2> HIDE DEF Step
    <2> QED
      BY <1>1, <1>2
  <1>9. s # {}
    BY <1>6, <1>8
  <1> DEFINE x == CHOOSE y \in s : TRUE
  <1>10. x \in s
    BY <1>9
  <1>11. Cardinality(s \ {x}) = n - 1 /\ n - 1 \in Nat /\ s \ {x} \in SUBSET S
    <2> HIDE DEF x
    <2>1. IsFiniteSet(s)
      BY FS_Subset
    <2>2. n # 0
      BY <2>1, <1>6, <1>9, FS_EmptySet
    <2>3. Cardinality(s \ {x}) = n - 1
      BY <2>1, <1>6, <1>10, FS_RemoveElement
    <2> QED
      BY <2>2, <2>3, <1>7
  <1>12. f[s \ {x}] = t[s \ {x}]
    BY <1>7, <1>11
  <1> QED
    BY <1>6, <1>8, <1>9, <1>12

LEMMA SumsAdd ==
  ASSUME NEW u, NEW S, IsFiniteSet(S), \A i \in S : u[i].amount \in Int
  PROVE  \E t : IsTotal(t, u, S) /\ \A T \in SUBSET S : SumOf(u, T) = t[T]
  <1>1. PICK t : IsTotal(t, u, S)
    BY TotalExists
  <1>2. ASSUME NEW T \in SUBSET S PROVE SumOf(u, T) = t[T]
    <2> DEFINE r == [R \in SUBSET T |-> t[R]]
    <2>1. IsTotal(r, u, T)
      BY <1>1 DEF IsTotal
    <2>2. IsFiniteSet(T)
      BY FS_Subset
    <2>3. SumOf(u, T) = r[T]
      <3> HIDE DEF r
      <3> QED
        BY <2>1, <2>2, SumIsTotal
    <2> QED
      BY <2>3
  <1> QED
    BY <1>1, <1>2

(* Sums over parts: one element, and a part that is taken away.             *)
LEMMA SumType ==
  ASSUME NEW u, NEW S, IsFiniteSet(S), \A i \in S : u[i].amount \in Int
  PROVE  SumOf(u, S) \in Int
  <1>1. PICK t : IsTotal(t, u, S) /\ SumOf(u, S) = t[S]
    BY SumsAdd
  <1> QED
    BY <1>1 DEF IsTotal

LEMMA SumEmpty == ASSUME NEW u PROVE SumOf(u, {}) = 0
  <1>1. IsTotal([R \in SUBSET {} |-> 0], u, {})
    BY DEF IsTotal
  <1> QED
    BY <1>1, SumIsTotal, FS_EmptySet

LEMMA SumWithout ==
  ASSUME NEW u, NEW S, IsFiniteSet(S), \A i \in S : u[i].amount \in Int, NEW x \in S
  PROVE  SumOf(u, S) = u[x].amount + SumOf(u, S \ {x})
  <1>1. PICK t : IsTotal(t, u, S) /\ \A T \in SUBSET S : SumOf(u, T) = t[T]
    BY SumsAdd
  <1>2. t[S] = u[x].amount + t[S \ {x}]
    BY <1>1 DEF IsTotal
  <1>3. SumOf(u, S) = t[S] /\ SumOf(u, S \ {x}) = t[S \ {x}]
    BY <1>1
  <1> QED
    BY <1>2, <1>3

LEMMA SumSame ==
  ASSUME NEW u, NEW v, NEW S, IsFiniteSet(S),
         \A i \in S : u[i].amount \in Int /\ u[i].amount = v[i].amount
  PROVE  SumOf(u, S) = SumOf(v, S)
  <1>1. PICK t : IsTotal(t, u, S)
    BY TotalExists
  <1>2. IsTotal(t, v, S)
    BY <1>1 DEF IsTotal
  <1> QED
    BY <1>1, <1>2, SumIsTotal

LEMMA SumMinus ==
  ASSUME NEW u, NEW S, IsFiniteSet(S), \A i \in S : u[i].amount \in Int, NEW T \in SUBSET S
  PROVE  SumOf(u, S) = SumOf(u, T) + SumOf(u, S \ T)
  <1> DEFINE Bad == {n \in Nat : \E R \in SUBSET S :
                        Cardinality(R) = n /\ SumOf(u, S) # SumOf(u, R) + SumOf(u, S \ R)}
  <1>1. SUFFICES ASSUME Bad # {} PROVE FALSE
    <2>1. Cardinality(T) \notin Bad /\ Cardinality(T) \in Nat
      BY <1>1, FS_CardinalityType, FS_Subset
    <2> QED
      BY <2>1
  <1>2. PICK n \in Bad : \A m \in Bad : n <= m
    <2> HIDE DEF Bad
    <2>1. Bad \subseteq Nat
      BY DEF Bad
    <2> QED
      BY <1>1, <2>1, LeastNatural
  <1>3. PICK R \in SUBSET S : Cardinality(R) = n /\ SumOf(u, S) # SumOf(u, R) + SumOf(u, S \ R)
    BY <1>2
  <1>4. n \in Nat /\ n - 1 \notin Bad
    <2>1. n \in Nat
      BY <1>2
    <2> HIDE DEF Bad
    <2> QED
      BY <1>2, <2>1
  <1>5. SumOf(u, S) \in Int
    BY SumType
  <1>6. R # {}
    <2>1. S \ {} = S /\ SumOf(u, {}) = 0
      BY SumEmpty
    <2>2. SumOf(u, S) = SumOf(u, {}) + SumOf(u, S \ {})
      BY <1>5, <2>1
    <2> QED
      BY <1>3, <2>2
  <1>7. PICK x \in R : TRUE
    BY <1>6
  <1>8. /\ IsFiniteSet(R) /\ IsFiniteSet(R \ {x}) /\ IsFiniteSet(S \ R)
        /\ Cardinality(R \ {x}) = n - 1 /\ n - 1 \in Nat /\ R \ {x} \in SUBSET S
    <2> HIDE DEF Bad
    <2>1. IsFiniteSet(R) /\ IsFiniteSet(S \ R)
      BY <1>3, FS_Subset, FS_Difference
    <2>2. IsFiniteSet(R \ {x}) /\ Cardinality(R \ {x}) = Cardinality(R) - 1
      BY <1>7, <2>1, FS_RemoveElement
    <2>3. Cardinality(R \ {x}) \in Nat
      BY <2>2, FS_CardinalityType
    <2>4. n - 1 \in Nat /\ Cardinality(R \ {x}) = n - 1
      BY <1>3, <2>2, <2>3
    <2> QED
      BY <1>3, <2>1, <2>2, <2>4
  <1>9. SumOf(u, S) = SumOf(u, R \ {x}) + SumOf(u, S \ (R \ {x}))
    BY <1>4, <1>8
  <1>10. SumOf(u, R) = u[x].amount + SumOf(u, R \ {x})
    BY <1>7, <1>8, SumWithout
  <1>11. SumOf(u, S \ (R \ {x})) = u[x].amount + SumOf(u, S \ R)
    <2>1. (S \ (R \ {x})) \ {x} = S \ R /\ x \in S \ (R \ {x}) /\ IsFiniteSet(S \ (R \ {x}))
      BY <1>7, FS_Difference
    <2> QED
      BY <2>1, SumWithout
  <1>12. SumOf(u, S \ R) \in Int /\ SumOf(u, R \ {x}) \in Int /\ u[x].amount \in Int
    BY <1>7, <1>8, SumType
  <1> QED
    BY <1>3, <1>9, <1>10, <1>11, <1>12

LEMMA SumOne == ASSUME NEW u, NEW x, u[x].amount \in Int PROVE SumOf(u, {x}) = u[x].amount
  <1>1. IsFiniteSet({x}) /\ {x} \ {x} = {}
    BY FS_Singleton
  <1>2. SumOf(u, {x}) = u[x].amount + SumOf(u, {x} \ {x})
    BY <1>1, SumWithout
  <1> QED
    BY <1>1, <1>2, SumEmpty

LEMMA SumTwo ==
  ASSUME NEW u, NEW x, NEW y, x # y, u[x].amount \in Int, u[y].amount \in Int
  PROVE  SumOf(u, {x, y}) = u[x].amount + u[y].amount
  <1>1. {x, y} \ {x} = {y} /\ {x, y} = {x} \cup {y}
    OBVIOUS
  <1>2. IsFiniteSet({x, y})
    <2>1. IsFiniteSet({x}) /\ IsFiniteSet({y})
      BY FS_Singleton
    <2>2. IsFiniteSet({x} \cup {y})
      BY <2>1, FS_Union
    <2> QED
      BY <1>1, <2>2
  <1>3. SumOf(u, {x, y}) = u[x].amount + SumOf(u, {x, y} \ {x})
    BY <1>2, SumWithout
  <1> QED
    BY <1>1, <1>3, SumOne

-----------------------------------------------------------------------------
(* What each transaction that is built but not sent knows.                  *)
Cells == [kind : Kinds, owner : Owners, amount : Nat \cup {Corrupted}]
Outputs == [owner : Owners, amount : Nat]
Txs ==
  [kind : Kinds, from : Owners, to : Owners, amount : Int, inputs : SUBSET Nat,
   outputs : Seq(Outputs)]
UdtCellsTypeOK == udtCells \in Seq(Cells \cup {Spent})
UdtTypeOK ==
  /\ UdtCellsTypeOK
  /\ sending \in [Commands -> Txs \cup {NoTx}]
  /\ ledger \in [Kinds -> [Owners -> Int]]

(* Its inputs were cells of its sender with an amount, and only a spend may *)
(* have changed them.                                                       *)
InputsKnown(tx) ==
  /\ tx.inputs \subseteq DOMAIN udtCells
  /\ \A i \in tx.inputs :
       \/ udtCells[i] = Spent
       \/ /\ udtCells[i].kind = tx.kind /\ udtCells[i].owner = tx.from
          /\ Readable(i)

(* As long as they are live, its outputs and what is booked are what they   *)
(* hold.                                                                    *)
Balanced(tx, total) ==
  \/ /\ tx.inputs = {} /\ tx.amount \in Nat
     /\ tx.outputs = <<[owner |-> tx.to, amount |-> tx.amount]>>
  \/ /\ tx.inputs # {} /\ tx.amount > 0 /\ total >= tx.amount
     /\ tx.outputs = TransferOutputs(tx.from, tx.to, tx.amount, total - tx.amount)
  \/ /\ tx.inputs # {} /\ tx.amount <= 0 /\ total + tx.amount \in Nat /\ tx.to = tx.from
     /\ tx.outputs = <<[owner |-> tx.from, amount |-> total + tx.amount]>>
AllLive(tx) == \A i \in tx.inputs : udtCells[i] # Spent
TxKnows(tx) ==
  InputsKnown(tx) /\ (AllLive(tx) => Balanced(tx, SumOf(udtCells, tx.inputs)))

UdtInv ==
  /\ UdtTypeOK
  /\ \A c \in Commands : sending[c] # NoTx => TxKnows(sending[c])
  /\ HoldingsTrue

-----------------------------------------------------------------------------
TokensOf(k, o) == {i \in FindCells(k, o) : Readable(i)}

LEMMA KindsTold ==
  /\ "none" \notin Kinds /\ Spent \notin Cells /\ Spent.kind = "none" /\ Spent.amount = 0
  /\ \A tx \in Txs : tx # NoTx
  BY DEF Kinds, Spent, Cells, Txs, NoTx

LEMMA CellsTyped ==
  ASSUME UdtCellsTypeOK, NEW i \in DOMAIN udtCells
  PROVE  /\ i \in Nat
         /\ udtCells[i] \in Cells \cup {Spent}
         /\ udtCells[i].amount \in Int
         /\ Readable(i) => udtCells[i].amount \in Nat
         /\ udtCells[i] # Spent => udtCells[i] \in Cells
  BY DEF UdtCellsTypeOK, Cells, Spent, Readable, Corrupted

LEMMA CellsFinite ==
  ASSUME UdtCellsTypeOK, NEW S \in SUBSET DOMAIN udtCells
  PROVE  IsFiniteSet(S) /\ \A i \in S : udtCells[i].amount \in Int
  <1>1. DOMAIN udtCells = 1 .. Len(udtCells) /\ Len(udtCells) \in Nat
    BY DEF UdtCellsTypeOK
  <1>2. IsFiniteSet(1 .. Len(udtCells))
    BY <1>1, FS_Interval
  <1>3. IsFiniteSet(S)
    BY <1>1, <1>2, FS_Subset
  <1> QED
    BY <1>3, CellsTyped

LEMMA SumOfReadable ==
  ASSUME NEW cells
  PROVE  Sum(cells) = SumOf(udtCells, {i \in cells : Readable(i)})
  BY DEF Sum, SumOf, MapThenSumSet, MapThenFoldSet

LEMMA HoldingIsSum == ASSUME NEW k, NEW o PROVE Sum(FindCells(k, o)) = SumOf(udtCells, TokensOf(k, o))
  BY SumOfReadable DEF TokensOf

LEMMA NextHoldingIsSum ==
  ASSUME NEW k, NEW o
  PROVE  Sum(FindCells(k, o))' = SumOf(udtCells', TokensOf(k, o)')
  BY DEF TokensOf, Sum, SumOf, MapThenSumSet, MapThenFoldSet

LEMMA SumOfInputs ==
  ASSUME NEW S, \A i \in S : Readable(i)
  PROVE  Sum(S) = SumOf(udtCells, S)
  <1>1. {i \in S : Readable(i)} = S
    OBVIOUS
  <1> QED
    BY <1>1, SumOfReadable

LEMMA HeldCells ==
  ASSUME UdtCellsTypeOK, NEW k \in Kinds, NEW o
  PROVE  /\ TokensOf(k, o) \in SUBSET DOMAIN udtCells /\ IsFiniteSet(TokensOf(k, o))
         /\ \A i \in TokensOf(k, o) :
              /\ udtCells[i] # Spent /\ udtCells[i].kind = k /\ udtCells[i].owner = o
              /\ Readable(i) /\ udtCells[i].amount \in Nat
         /\ SumOf(udtCells, TokensOf(k, o)) \in Int
  <1>1. TokensOf(k, o) \in SUBSET DOMAIN udtCells
    BY DEF TokensOf, FindCells
  <1>2. IsFiniteSet(TokensOf(k, o)) /\ SumOf(udtCells, TokensOf(k, o)) \in Int
    BY <1>1, CellsFinite, SumType
  <1>3. ASSUME NEW i \in TokensOf(k, o)
        PROVE  /\ udtCells[i] # Spent /\ udtCells[i].kind = k /\ udtCells[i].owner = o
               /\ Readable(i) /\ udtCells[i].amount \in Nat
    BY <1>1, CellsTyped, KindsTold DEF TokensOf, FindCells
  <1> QED
    BY <1>1, <1>2, <1>3

LEMMA UdtInitInv == UdtInit => UdtInv
  <1> SUFFICES ASSUME UdtInit PROVE UdtInv
    OBVIOUS
  <1>1. UdtCellsTypeOK
    <2> DEFINE Found == [kind : Kinds, owner : Owners, amount : Amounts \cup {Corrupted}]
    <2>1. Found \subseteq Cells \cup {Spent}
      BY LimitsAssumption DEF Cells, Amounts
    <2>2. udtCells \in Seq(Found)
      BY CellsAssumption DEF UdtInit
    <2> HIDE DEF Found
    <2> QED
      BY <2>1, <2>2 DEF UdtCellsTypeOK
  <1>2. \A k \in Kinds, o \in Owners : Sum(FindCells(k, o)) \in Int
    BY <1>1, HeldCells, HoldingIsSum
  <1>3. UdtTypeOK
    BY <1>1, <1>2 DEF UdtInit, UdtTypeOK
  <1>4. HoldingsTrue
    BY DEF UdtInit, HoldingsTrue
  <1>5. \A c \in Commands : sending[c] = NoTx
    BY DEF UdtInit
  <1> QED
    BY <1>3, <1>4, <1>5 DEF UdtInv

(* A command that builds a transaction from what it has read.               *)
LEMMA SendsInv ==
  ASSUME UdtInv, NEW c \in Commands, NEW tx \in Txs, TxKnows(tx), Sends(c, tx)
  PROVE  UdtInv'
  <1>1. udtCells' = udtCells /\ ledger' = ledger /\ sending' = [sending EXCEPT ![c] = tx]
    BY DEF Sends
  <1>2. UdtTypeOK'
    BY <1>1 DEF UdtInv, UdtTypeOK, UdtCellsTypeOK
  <1>3. ASSUME NEW d \in Commands, sending'[d] # NoTx PROVE TxKnows(sending'[d])
    BY <1>1, <1>3 DEF UdtInv, UdtTypeOK
  <1>4. \A d \in Commands : (sending[d] # NoTx => TxKnows(sending[d]))'
    BY <1>1, <1>3 DEF TxKnows, InputsKnown, AllLive, Readable
  <1>5. HoldingsTrue'
    <2>1. ASSUME NEW k \in Kinds, NEW o \in Owners
          PROVE  Sum(FindCells(k, o))' = ledger'[k][o]
      <3>1. TokensOf(k, o)' = TokensOf(k, o)
        BY <1>1 DEF TokensOf, FindCells, Readable
      <3>2. Sum(FindCells(k, o)) = ledger[k][o]
        BY DEF UdtInv, HoldingsTrue
      <3> QED
        BY <1>1, <3>1, <3>2, HoldingIsSum, NextHoldingIsSum
    <2> QED
      BY <2>1 DEF HoldingsTrue
  <1> QED
    BY <1>2, <1>4, <1>5 DEF UdtInv

(* What is read of held cells is known of the transaction.                  *)
LEMMA InputsHeld ==
  ASSUME UdtCellsTypeOK, NEW k \in Kinds, NEW o \in Owners, NEW S \in SUBSET TokensOf(k, o)
  PROVE  /\ S \in SUBSET DOMAIN udtCells /\ S \in SUBSET Nat
         /\ Sum(S) = SumOf(udtCells, S) /\ SumOf(udtCells, S) \in Int
         /\ \A tx \in Txs : tx.inputs = S /\ tx.kind = k /\ tx.from = o => InputsKnown(tx)
  <1>1. S \in SUBSET DOMAIN udtCells
    BY HeldCells
  <1>2. S \in SUBSET Nat
    BY <1>1, CellsTyped
  <1>3. \A i \in S : Readable(i)
    BY HeldCells
  <1>4. SumOf(udtCells, S) \in Int
    BY <1>1, CellsFinite, SumType
  <1>5. \A tx \in Txs : tx.inputs = S /\ tx.kind = k /\ tx.from = o => InputsKnown(tx)
    BY <1>1, HeldCells DEF InputsKnown
  <1> QED
    BY <1>1, <1>2, <1>3, <1>4, <1>5, SumOfInputs

LEMMA IssueInv ==
  ASSUME UdtInv, NEW c \in Commands, UdtIssue(c)
  PROVE  UdtInv'
  <1>1. PICK kind \in Kinds, from \in Owners, to \in Owners, amount \in Amounts :
          Sends(c, [kind |-> kind, from |-> from, to |-> to, amount |-> amount,
                    inputs |-> {}, outputs |-> <<[owner |-> to, amount |-> amount]>>])
    BY DEF UdtIssue
  <1> DEFINE tx == [kind |-> kind, from |-> from, to |-> to, amount |-> amount,
                    inputs |-> {}, outputs |-> <<[owner |-> to, amount |-> amount]>>]
  <1>2. amount \in Nat
    BY LimitsAssumption DEF Amounts
  <1>3. <<[owner |-> to, amount |-> amount]>> \in Seq(Outputs)
    BY <1>2 DEF Outputs
  <1>4. tx \in Txs
    BY <1>2, <1>3 DEF Txs
  <1>5. TxKnows(tx)
    BY <1>2 DEF TxKnows, InputsKnown, Balanced
  <1> HIDE DEF tx
  <1> QED
    BY <1>1, <1>4, <1>5, SendsInv DEF tx

LEMMA InputsByUdtPay ==
  ASSUME NEW k, NEW o, NEW amount, NEW inputs \in InputsByUdt(k, o, amount)
  PROVE  inputs \subseteq TokensOf(k, o) /\ Sum(inputs) >= amount
  <1> DEFINE enough == {n \in 1 .. Cardinality(TokensOf(k, o)) : Sum(First(n, TokensOf(k, o))) >= amount}
  <1>1. InputsByUdt(k, o, amount) =
          {First(n, TokensOf(k, o)) : n \in {m \in enough : m <= Min(enough) + 1}}
    BY DEF InputsByUdt, TokensOf
  <1>2. PICK n \in enough : inputs = First(n, TokensOf(k, o))
    BY <1>1
  <1>3. First(n, TokensOf(k, o)) \subseteq TokensOf(k, o)
    BY DEF First
  <1> QED
    BY <1>2, <1>3

LEMMA TransferInv ==
  ASSUME UdtInv, NEW c \in Commands, UdtTransfer(c)
  PROVE  UdtInv'
  <1>1. PICK kind \in Kinds, from \in Owners, to \in Owners, amount \in Amounts :
          \E inputs \in InputsByUdt(kind, from, amount) :
            LET change == Sum(inputs) - amount
            IN /\ change <= MaxAmount
               /\ Sends(c, [kind |-> kind, from |-> from, to |-> to, amount |-> amount,
                            inputs |-> inputs,
                            outputs |-> TransferOutputs(from, to, amount, change)])
    BY DEF UdtTransfer
  <1>5. PICK inputs \in InputsByUdt(kind, from, amount) :
          Sends(c, [kind |-> kind, from |-> from, to |-> to, amount |-> amount,
                    inputs |-> inputs,
                    outputs |-> TransferOutputs(from, to, amount, Sum(inputs) - amount)])
    BY <1>1
  <1> DEFINE total == SumOf(udtCells, inputs)
             tx == [kind |-> kind, from |-> from, to |-> to, amount |-> amount,
                    inputs |-> inputs,
                    outputs |-> TransferOutputs(from, to, amount, total - amount)]
  <1>2. amount \in Nat /\ amount > 0
    BY LimitsAssumption DEF Amounts
  <1>3. inputs \subseteq TokensOf(kind, from) /\ Sum(inputs) >= amount
    BY InputsByUdtPay
  <1>6. /\ inputs \in SUBSET Nat /\ Sum(inputs) = total /\ total \in Int
        /\ \A t \in Txs : t.inputs = inputs /\ t.kind = kind /\ t.from = from => InputsKnown(t)
    BY <1>3, InputsHeld DEF UdtInv, UdtTypeOK
  <1>4. inputs # {}
    BY <1>2, <1>3, <1>6, SumEmpty
  <1>7. TransferOutputs(from, to, amount, total - amount) \in Seq(Outputs)
    <2>1. total - amount \in Nat
      BY <1>2, <1>3, <1>6
    <2> HIDE DEF total
    <2>2. [owner |-> to, amount |-> amount] \in Outputs /\ [owner |-> from, amount |-> total - amount] \in Outputs
      BY <1>2, <2>1 DEF Outputs
    <2> QED
      BY <2>2 DEF TransferOutputs
  <1>8. tx \in Txs
    BY <1>2, <1>6, <1>7 DEF Txs
  <1>9. Balanced(tx, SumOf(udtCells, tx.inputs))
    BY <1>2, <1>3, <1>4, <1>6 DEF Balanced
  <1>10. TxKnows(tx)
    BY <1>6, <1>8, <1>9 DEF TxKnows
  <1>11. Sends(c, tx)
    BY <1>5, <1>6
  <1> HIDE DEF tx
  <1> QED
    BY <1>8, <1>10, <1>11, SendsInv

LEMMA DestroyInv ==
  ASSUME UdtInv, NEW c \in Commands, UdtDestroy(c)
  PROVE  UdtInv'
  <1>1. PICK kind \in Kinds, from \in Owners, amount \in Amounts :
          LET cells == FindCells(kind, from)
              inputs == {i \in cells : Readable(i)}
              remaining == Sum(inputs) - amount
          IN /\ remaining \in Amounts
             /\ Sends(c, [kind |-> kind, from |-> from, to |-> from, amount |-> -amount,
                          inputs |-> inputs,
                          outputs |-> <<[owner |-> from, amount |-> remaining]>>])
    BY DEF UdtDestroy
  <1> DEFINE inputs == TokensOf(kind, from)
             total  == SumOf(udtCells, inputs)
             tx == [kind |-> kind, from |-> from, to |-> from, amount |-> -amount,
                    inputs |-> inputs,
                    outputs |-> <<[owner |-> from, amount |-> total + (-amount)]>>]
  <1>2. amount \in Nat /\ amount > 0
    BY LimitsAssumption DEF Amounts
  <1>3. Sum(inputs) - amount \in Amounts
    BY <1>1 DEF TokensOf
  <1>6. /\ inputs \in SUBSET Nat /\ Sum(inputs) = total /\ total \in Int
        /\ \A t \in Txs : t.inputs = inputs /\ t.kind = kind /\ t.from = from => InputsKnown(t)
    <2>1. inputs \in SUBSET TokensOf(kind, from)
      OBVIOUS
    <2> HIDE DEF inputs
    <2> QED
      BY <2>1, InputsHeld DEF UdtInv, UdtTypeOK
  <1>4. Sends(c, tx)
    <2>1. Sum(inputs) - amount = total + (-amount)
      BY <1>2, <1>6
    <2> QED
      BY <1>1, <2>1 DEF TokensOf
  <1> HIDE DEF inputs
  <1>7. total + (-amount) \in Nat
    BY <1>2, <1>3, <1>6, LimitsAssumption DEF Amounts
  <1>5. inputs # {}
    BY <1>2, <1>7, SumEmpty
  <1>8. tx \in Txs
    <2> HIDE DEF total
    <2>1. <<[owner |-> from, amount |-> total + (-amount)]>> \in Seq(Outputs)
      BY <1>7 DEF Outputs
    <2> QED
      BY <1>2, <1>6, <2>1 DEF Txs
  <1>9. Balanced(tx, SumOf(udtCells, tx.inputs))
    BY <1>2, <1>5, <1>7 DEF Balanced
  <1>10. TxKnows(tx)
    BY <1>6, <1>8, <1>9 DEF TxKnows
  <1> HIDE DEF tx
  <1> QED
    BY <1>4, <1>8, <1>10, SendsInv

-----------------------------------------------------------------------------
(* What the cells are after a transaction was committed.                    *)
Made(tx) ==
  [n \in DOMAIN tx.outputs |-> Cell(tx.kind, tx.outputs[n].owner, tx.outputs[n].amount)]
Spending(tx) == [i \in DOMAIN udtCells |-> IF i \in tx.inputs THEN Spent ELSE udtCells[i]]
OwnedBy(o, outputs, n) == {i \in n + 1 .. n + Len(outputs) : outputs[i - n].owner = o}
NewCells(tx, o) == OwnedBy(o, tx.outputs, Len(udtCells))

LEMMA CommitCells ==
  ASSUME UdtCellsTypeOK, NEW tx \in Txs, udtCells' = Spending(tx) \o Made(tx)
  PROVE  /\ UdtCellsTypeOK'
         /\ Len(udtCells') = Len(udtCells) + Len(tx.outputs)
         /\ Len(tx.outputs) \in Nat /\ Len(udtCells) \in Nat
         /\ DOMAIN udtCells = 1 .. Len(udtCells)
         /\ DOMAIN udtCells' = 1 .. Len(udtCells')
         /\ \A i \in DOMAIN udtCells :
              udtCells'[i] = IF i \in tx.inputs THEN Spent ELSE udtCells[i]
         /\ \A i \in Len(udtCells) + 1 .. Len(udtCells) + Len(tx.outputs) :
              /\ udtCells'[i] = Cell(tx.kind, tx.outputs[i - Len(udtCells)].owner,
                                     tx.outputs[i - Len(udtCells)].amount)
              /\ tx.outputs[i - Len(udtCells)] \in Outputs
  <1> DEFINE C == Cells \cup {Spent}
             n  == Len(udtCells)
             m  == Len(tx.outputs)
  <1>1. n \in Nat /\ DOMAIN udtCells = 1 .. n /\ udtCells \in [1 .. n -> C]
    BY DEF UdtCellsTypeOK
  <1>2. m \in Nat /\ DOMAIN tx.outputs = 1 .. m /\ tx.outputs \in [1 .. m -> Outputs]
    BY DEF Txs
  <1>3. Spending(tx) \in [1 .. n -> C]
    BY <1>1 DEF Spending
  <1>4. Made(tx) \in [1 .. m -> C]
    <2>1. \A o \in Outputs : Cell(tx.kind, o.owner, o.amount) \in C
      BY DEF Outputs, Cell, Cells, Txs
    <2> HIDE DEF C
    <2> QED
      BY <1>2, <2>1 DEF Made
  <1>5. Spending(tx) \in Seq(C) /\ Made(tx) \in Seq(C) /\ Len(Spending(tx)) = n /\ Len(Made(tx)) = m
    <2> HIDE DEF C, n, m
    <2>1. Spending(tx) \in Seq(C) /\ Len(Spending(tx)) = n
      BY ONLY <1>1, <1>3
    <2>2. Made(tx) \in Seq(C) /\ Len(Made(tx)) = m
      BY ONLY <1>2, <1>4
    <2> QED
      BY <2>1, <2>2
  <1>6. Spending(tx) \o Made(tx) \in Seq(C) /\ Len(Spending(tx) \o Made(tx)) = n + m
    <2> HIDE DEF C, n, m
    <2> QED
      BY <1>5, ConcatProperties
  <1>7. /\ \A i \in 1 .. n : (Spending(tx) \o Made(tx))[i] = Spending(tx)[i]
        /\ \A i \in n + 1 .. n + m : (Spending(tx) \o Made(tx))[i] = Made(tx)[i - n]
    <2> HIDE DEF C, n, m
    <2> QED
      BY <1>1, <1>2, <1>5, ConcatProperties
  <1>8. UdtCellsTypeOK' /\ Len(udtCells') = n + m /\ DOMAIN udtCells' = 1 .. Len(udtCells')
    BY <1>6 DEF UdtCellsTypeOK, Cells, Spent, Kinds, Corrupted
  <1>9. ASSUME NEW i \in DOMAIN udtCells
        PROVE  udtCells'[i] = IF i \in tx.inputs THEN Spent ELSE udtCells[i]
    BY <1>1, <1>7 DEF Spending
  <1>10. ASSUME NEW i \in n + 1 .. n + m
         PROVE  /\ udtCells'[i] = Cell(tx.kind, tx.outputs[i - n].owner, tx.outputs[i - n].amount)
                /\ tx.outputs[i - n] \in Outputs
    <2>1. i - n \in 1 .. m
      BY <1>1, <1>2
    <2>2. udtCells'[i] = Made(tx)[i - n]
      BY <1>7
    <2> QED
      BY <1>2, <2>1, <2>2 DEF Made
  <1> QED
    BY <1>1, <1>2, <1>8, <1>9, <1>10

(* Who holds what after it: its sender no longer the inputs, the owners of  *)
(* the outputs the new cells.                                               *)
LEMMA CommitHeld ==
  ASSUME UdtCellsTypeOK, NEW tx \in Txs, udtCells' = Spending(tx) \o Made(tx),
         InputsKnown(tx), AllLive(tx), NEW k \in Kinds, NEW o \in Owners
  PROVE  /\ TokensOf(k, o)' = IF k # tx.kind THEN TokensOf(k, o)
                          ELSE (IF o = tx.from THEN TokensOf(k, o) \ tx.inputs ELSE TokensOf(k, o))
                                 \cup NewCells(tx, o)
         /\ TokensOf(k, o) \cap tx.inputs =
              IF k = tx.kind /\ o = tx.from THEN tx.inputs ELSE {}
         /\ tx.inputs \subseteq TokensOf(tx.kind, tx.from)
  <1>1. tx.inputs \subseteq TokensOf(tx.kind, tx.from)
    BY DEF InputsKnown, AllLive, TokensOf, FindCells
  <1>2. TokensOf(k, o) \cap tx.inputs = IF k = tx.kind /\ o = tx.from THEN tx.inputs ELSE {}
    BY <1>1 DEF InputsKnown, AllLive, TokensOf, FindCells
  <1> DEFINE old == {i \in TokensOf(k, o) : i \notin tx.inputs}
             new == IF k = tx.kind THEN NewCells(tx, o) ELSE {}
  <1>3. TokensOf(k, o)' = old \cup new
    <2> DEFINE n == Len(udtCells)
               m == Len(tx.outputs)
    <2>1. /\ n \in Nat /\ m \in Nat /\ DOMAIN udtCells = 1 .. n
          /\ DOMAIN udtCells' = 1 .. n + m
          /\ \A i \in 1 .. n : udtCells'[i] = IF i \in tx.inputs THEN Spent ELSE udtCells[i]
          /\ \A i \in n + 1 .. n + m :
               /\ udtCells'[i] = Cell(tx.kind, tx.outputs[i - n].owner, tx.outputs[i - n].amount)
               /\ tx.outputs[i - n] \in Outputs
      BY CommitCells
    <2>2. ASSUME NEW i \in 1 .. n PROVE i \in TokensOf(k, o)' <=> i \in old
      <3>1. i \in tx.inputs => udtCells'[i].kind # k
        BY <2>1, KindsTold
      <3>2. i \notin tx.inputs => udtCells'[i] = udtCells[i]
        BY <2>1
      <3>3. i \in 1 .. n + m
        BY <2>1
      <3> HIDE DEF n, m
      <3> QED
        BY <2>1, <3>1, <3>2, <3>3 DEF TokensOf, FindCells, Readable
    <2>3. ASSUME NEW i \in n + 1 .. n + m PROVE i \in TokensOf(k, o)' <=> i \in new
      <3>1. i \in 1 .. n + m
        BY <2>1
      <3>2. /\ udtCells'[i].kind = tx.kind /\ udtCells'[i].owner = tx.outputs[i - n].owner
            /\ udtCells'[i].amount # Corrupted
        <4>1. /\ udtCells'[i] = Cell(tx.kind, tx.outputs[i - n].owner, tx.outputs[i - n].amount)
              /\ tx.outputs[i - n] \in Outputs
          BY <2>1
        <4>2. tx.outputs[i - n].amount \in Nat
          BY <4>1 DEF Outputs
        <4> HIDE DEF n
        <4> QED
          BY <4>1, <4>2 DEF Cell, Corrupted
      <3>3. i \in NewCells(tx, o) <=> tx.outputs[i - n].owner = o
        BY DEF NewCells, OwnedBy
      <3> HIDE DEF n, m
      <3> QED
        BY <2>1, <3>1, <3>2, <3>3 DEF TokensOf, FindCells, Readable
    <2>4. old \subseteq 1 .. n /\ new \subseteq n + 1 .. n + m
      BY <2>1 DEF TokensOf, FindCells, NewCells, OwnedBy
    <2>5. TokensOf(k, o)' \subseteq 1 .. n + m
      BY <2>1 DEF TokensOf, FindCells
    <2>6. 1 .. n + m = (1 .. n) \cup (n + 1 .. n + m) /\ (1 .. n) \cap (n + 1 .. n + m) = {}
      BY <2>1
    <2> HIDE DEF n, m, old, new
    <2> QED
      BY <2>2, <2>3, <2>4, <2>5, <2>6
  <1>4. old = IF k = tx.kind /\ o = tx.from THEN TokensOf(k, o) \ tx.inputs ELSE TokensOf(k, o)
    BY <1>2
  <1> QED
    BY <1>1, <1>2, <1>3, <1>4

LEMMA CommitSums ==
  ASSUME UdtCellsTypeOK, NEW tx \in Txs, udtCells' = Spending(tx) \o Made(tx),
         InputsKnown(tx), AllLive(tx), NEW k \in Kinds, NEW o \in Owners
  PROVE  /\ Sum(FindCells(k, o))' =
              Sum(FindCells(k, o))
                - (IF k = tx.kind /\ o = tx.from THEN SumOf(udtCells, tx.inputs) ELSE 0)
                + (IF k = tx.kind THEN SumOf(udtCells', NewCells(tx, o)) ELSE 0)
         /\ k = tx.kind => SumOf(udtCells', NewCells(tx, o)) \in Int
  <1> DEFINE was  == TokensOf(k, o)
             rest == was \ tx.inputs
             new  == IF k = tx.kind THEN NewCells(tx, o) ELSE {}
             now  == rest \cup new
  <1>1. /\ TokensOf(k, o)' = now
        /\ was \cap tx.inputs = IF k = tx.kind /\ o = tx.from THEN tx.inputs ELSE {}
    BY CommitHeld
  <1>2. /\ was \in SUBSET DOMAIN udtCells /\ IsFiniteSet(was) /\ SumOf(udtCells, was) \in Int
        /\ \A i \in was : udtCells[i].amount \in Int
    BY HeldCells, CellsFinite
  <1>3. SumOf(udtCells, was) = SumOf(udtCells, was \cap tx.inputs) + SumOf(udtCells, rest)
    <2>1. was \ (was \cap tx.inputs) = rest /\ was \cap tx.inputs \in SUBSET was
      OBVIOUS
    <2> HIDE DEF was, rest
    <2> QED
      BY <1>2, <2>1, SumMinus
  <1>4. rest \in SUBSET was /\ IsFiniteSet(rest) /\ SumOf(udtCells, rest) \in Int
    <2>1. rest \in SUBSET was /\ IsFiniteSet(rest)
      BY <1>2, FS_Subset
    <2> HIDE DEF was, rest
    <2> QED
      BY <1>2, <2>1, SumType
  <1>5. SumOf(udtCells', rest) = SumOf(udtCells, rest)
    <2>1. \A i \in rest : udtCells'[i] = udtCells[i]
      BY <1>2, CommitCells
    <2> HIDE DEF was, rest
    <2> QED
      BY <1>2, <1>4, <2>1, SumSame
  <1>6. rest \cap new = {}
    <2>1. Len(udtCells) \in Nat /\ DOMAIN udtCells = 1 .. Len(udtCells)
      BY CommitCells
    <2>2. rest \subseteq 1 .. Len(udtCells)
      BY <1>2, <2>1
    <2>3. new \subseteq Len(udtCells) + 1 .. Len(udtCells) + Len(tx.outputs)
      BY DEF NewCells, OwnedBy
    <2> HIDE DEF rest, new
    <2> QED
      BY <2>1, <2>2, <2>3, CommitCells
  <1>7. IsFiniteSet(now) /\ \A i \in now : udtCells'[i].amount \in Int
    <2>1. new \in SUBSET (Len(udtCells) + 1 .. Len(udtCells) + Len(tx.outputs))
      BY DEF NewCells, OwnedBy
    <2>2. IsFiniteSet(new)
      <3>1. IsFiniteSet(Len(udtCells) + 1 .. Len(udtCells) + Len(tx.outputs))
        BY CommitCells, FS_Interval
      <3> HIDE DEF new
      <3> QED
        BY <2>1, <3>1, FS_Subset
    <2>3. \A i \in new : udtCells'[i].amount \in Int
      <3> SUFFICES ASSUME NEW i \in Len(udtCells) + 1 .. Len(udtCells) + Len(tx.outputs)
                   PROVE  udtCells'[i].amount \in Int
        BY <2>1
      <3>1. udtCells'[i] = Cell(tx.kind, tx.outputs[i - Len(udtCells)].owner,
                                tx.outputs[i - Len(udtCells)].amount)
            /\ tx.outputs[i - Len(udtCells)] \in Outputs
        BY CommitCells
      <3> QED
        BY <3>1 DEF Outputs, Cell
    <2>4. \A i \in rest : udtCells'[i].amount \in Int
      BY <1>2, CommitCells
    <2> HIDE DEF rest, new
    <2> QED
      BY <1>4, <2>2, <2>3, <2>4, FS_Union
  <1>8. SumOf(udtCells', now) = SumOf(udtCells', rest) + SumOf(udtCells', new)
    <2>1. now \ rest = new /\ rest \in SUBSET now
      BY <1>6
    <2> HIDE DEF now, rest, new
    <2>2. SumOf(udtCells', now) = SumOf(udtCells', rest) + SumOf(udtCells', now \ rest)
      <3>1. /\ IsFiniteSet(now) /\ rest \in SUBSET now
            /\ \A i \in now : udtCells'[i].amount \in Int
        BY <1>7, <2>1
      <3>2. PICK v, N, R : v = udtCells' /\ N = now /\ R = rest
        OBVIOUS
      <3>3. IsFiniteSet(N) /\ R \in SUBSET N /\ \A i \in N : v[i].amount \in Int
        BY <3>1, <3>2
      <3>4. SumOf(v, N) = SumOf(v, R) + SumOf(v, N \ R)
        BY <3>3, SumMinus
      <3> QED
        BY <3>2, <3>4
    <2> QED
      BY <2>1, <2>2
  <1>9. SumOf(udtCells', new) = IF k = tx.kind THEN SumOf(udtCells', NewCells(tx, o)) ELSE 0
    BY SumEmpty
  <1>10. SumOf(udtCells, was \cap tx.inputs) =
           IF k = tx.kind /\ o = tx.from THEN SumOf(udtCells, tx.inputs) ELSE 0
    BY <1>1, SumEmpty
  <1>11. SumOf(udtCells, was \cap tx.inputs) \in Int /\ SumOf(udtCells', new) \in Int
    <2>1. was \cap tx.inputs \in SUBSET was /\ new \in SUBSET now
      OBVIOUS
    <2> HIDE DEF was, now, new
    <2>2. IsFiniteSet(was \cap tx.inputs) /\ IsFiniteSet(new)
      BY <1>2, <1>7, <2>1, FS_Subset
    <2> QED
      BY <1>2, <1>7, <2>1, <2>2, SumType
  <1>12. /\ Sum(FindCells(k, o))' = SumOf(udtCells', now)
         /\ Sum(FindCells(k, o)) = SumOf(udtCells, was)
    BY <1>1, HoldingIsSum, NextHoldingIsSum
  <1> DEFINE spent == SumOf(udtCells, was \cap tx.inputs)
             paid  == SumOf(udtCells', new)
  <1>13. Sum(FindCells(k, o))' = Sum(FindCells(k, o)) - spent + paid
    <2> HIDE DEF was, rest, now, new
    <2> QED
      BY <1>2, <1>3, <1>4, <1>5, <1>8, <1>11, <1>12
  <1> HIDE DEF was, rest, now, new
  <1> QED
    BY <1>9, <1>10, <1>11, <1>13

(* A transaction has at most two outputs.                                   *)
PaidBy(outputs, n, o) == IF outputs[n].owner = o THEN outputs[n].amount ELSE 0
LEMMA SumOfNew ==
  ASSUME NEW u, NEW n \in Nat, NEW out, NEW o, Len(out) \in {1, 2},
         \A i \in n + 1 .. n + Len(out) :
           u[i].amount = out[i - n].amount /\ out[i - n].amount \in Nat
  PROVE  SumOf(u, OwnedBy(o, out, n)) =
           PaidBy(out, 1, o) + (IF Len(out) = 2 THEN PaidBy(out, 2, o) ELSE 0)
  <1> DEFINE N == OwnedBy(o, out, n)
  <1>1. u[n + 1].amount = out[1].amount /\ out[1].amount \in Nat
    <2>1. n + 1 - n = 1
      OBVIOUS
    <2>2. n + 1 \in n + 1 .. n + Len(out)
      <3>1. CASE Len(out) = 1
        BY <3>1
      <3>2. CASE Len(out) = 2
        BY <3>2
      <3> QED
        BY <3>1, <3>2
    <2> QED
      BY <2>1, <2>2
  <1>2. SumOf(u, {}) = 0 /\ SumOf(u, {n + 1}) = out[1].amount
    <2> DEFINE x == n + 1
    <2>1. u[x].amount = out[1].amount /\ out[1].amount \in Int
      BY <1>1
    <2> HIDE DEF x
    <2>2. SumOf(u, {x}) = out[1].amount
      BY <2>1, SumOne
    <2> QED
      BY <2>2, SumEmpty DEF x
  <1>3. CASE Len(out) = 1
    <2>1. N = IF out[1].owner = o THEN {n + 1} ELSE {}
      <3>1. n + 1 .. n + Len(out) = {n + 1} /\ n + 1 - n = 1
        BY <1>3
      <3> QED
        BY <3>1 DEF OwnedBy
    <2> HIDE DEF N
    <2>2. SumOf(u, N) = PaidBy(out, 1, o) + 0
      BY <1>1, <1>2, <2>1 DEF PaidBy
    <2> QED
      BY <1>3, <2>2 DEF N
  <1>4. CASE Len(out) = 2
    <2>1. n + 2 \in n + 1 .. n + Len(out) /\ n + 2 - n = 2
      BY <1>4
    <2>2. u[n + 2].amount = out[2].amount /\ out[2].amount \in Nat
      BY <2>1
    <2>3. /\ SumOf(u, {n + 2}) = out[2].amount
          /\ SumOf(u, {n + 1, n + 2}) = out[1].amount + out[2].amount
      <3> DEFINE x == n + 1
                 y == n + 2
      <3>1. /\ u[x].amount = out[1].amount /\ out[1].amount \in Int
            /\ u[y].amount = out[2].amount /\ out[2].amount \in Int /\ x # y
        BY <1>1, <2>2
      <3> HIDE DEF x, y
      <3>2. SumOf(u, {y}) = out[2].amount /\ SumOf(u, {x, y}) = out[1].amount + out[2].amount
        <4>1. SumOf(u, {y}) = out[2].amount
          BY <3>1, SumOne
        <4>2. u[x].amount \in Int /\ u[y].amount \in Int
          BY <3>1
        <4>3. SumOf(u, {x, y}) = u[x].amount + u[y].amount
          BY ONLY <3>1, <4>2, SumTwo, ZenonT(30)
        <4> QED
          BY <3>1, <4>1, <4>3
      <3> QED
        BY <3>2 DEF x, y
    <2>5. N = (IF out[1].owner = o THEN {n + 1} ELSE {})
                \cup (IF out[2].owner = o THEN {n + 2} ELSE {})
      <3>1. n + 1 .. n + Len(out) = {n + 1, n + 2} /\ n + 1 - n = 1 /\ n + 2 - n = 2
        BY <1>4
      <3> QED
        BY <3>1 DEF OwnedBy
    <2> HIDE DEF N
    <2>6. SumOf(u, N) = PaidBy(out, 1, o) + PaidBy(out, 2, o)
      <3>1. CASE out[1].owner = o /\ out[2].owner = o
        <4>1. N = {n + 1, n + 2}
          BY <2>5, <3>1
        <4> QED
          BY <2>3, <3>1, <4>1 DEF PaidBy
      <3>2. CASE out[1].owner = o /\ out[2].owner # o
        <4>1. N = {n + 1}
          BY <2>5, <3>2
        <4> QED
          BY <1>1, <1>2, <3>2, <4>1 DEF PaidBy
      <3>3. CASE out[1].owner # o /\ out[2].owner = o
        <4>1. N = {n + 2}
          BY <2>5, <3>3
        <4> QED
          BY <2>2, <2>3, <3>3, <4>1 DEF PaidBy
      <3>4. CASE out[1].owner # o /\ out[2].owner # o
        <4>1. N = {}
          BY <2>5, <3>4
        <4> QED
          BY <1>2, <3>4, <4>1 DEF PaidBy
      <3> QED
        BY <3>1, <3>2, <3>3, <3>4
    <2> QED
      BY <1>4, <2>6 DEF N
  <1> QED
    BY <1>3, <1>4

LEMMA NewSums ==
  ASSUME UdtCellsTypeOK, NEW tx \in Txs, udtCells' = Spending(tx) \o Made(tx),
         NEW o \in Owners, Len(tx.outputs) \in {1, 2}
  PROVE  SumOf(udtCells', NewCells(tx, o)) =
           PaidBy(tx.outputs, 1, o) + (IF Len(tx.outputs) = 2 THEN PaidBy(tx.outputs, 2, o) ELSE 0)
  <1>1. \A i \in Len(udtCells) + 1 .. Len(udtCells) + Len(tx.outputs) :
          /\ udtCells'[i].amount = tx.outputs[i - Len(udtCells)].amount
          /\ tx.outputs[i - Len(udtCells)].amount \in Nat
    <2> SUFFICES ASSUME NEW i \in Len(udtCells) + 1 .. Len(udtCells) + Len(tx.outputs)
                 PROVE  /\ udtCells'[i].amount = tx.outputs[i - Len(udtCells)].amount
                        /\ tx.outputs[i - Len(udtCells)].amount \in Nat
      OBVIOUS
    <2>1. /\ udtCells'[i] = Cell(tx.kind, tx.outputs[i - Len(udtCells)].owner,
                                 tx.outputs[i - Len(udtCells)].amount)
          /\ tx.outputs[i - Len(udtCells)] \in Outputs
      BY CommitCells
    <2> QED
      BY <2>1 DEF Cell, Outputs
  <1>2. Len(udtCells) \in Nat
    BY CommitCells
  <1>3. PICK v, n, out : v = udtCells' /\ n = Len(udtCells) /\ out = tx.outputs
    OBVIOUS
  <1>4. SumOf(v, OwnedBy(o, out, n)) =
          PaidBy(out, 1, o) + (IF Len(out) = 2 THEN PaidBy(out, 2, o) ELSE 0)
    <2>1. /\ n \in Nat /\ Len(out) \in {1, 2}
          /\ \A i \in n + 1 .. n + Len(out) :
               v[i].amount = out[i - n].amount /\ out[i - n].amount \in Nat
      BY <1>1, <1>2, <1>3
    <2> QED
      BY ONLY <2>1, SumOfNew
  <1> QED
    BY <1>3, <1>4 DEF NewCells

LEMMA OneOutput ==
  ASSUME UdtCellsTypeOK, NEW tx \in Txs, udtCells' = Spending(tx) \o Made(tx), NEW o \in Owners,
         NEW p, NEW a, Len(tx.outputs) = 1, tx.outputs[1] = [owner |-> p, amount |-> a]
  PROVE  SumOf(udtCells', NewCells(tx, o)) = (IF p = o THEN a ELSE 0) + 0
  <1>1. SumOf(udtCells', NewCells(tx, o)) =
          PaidBy(tx.outputs, 1, o) + (IF Len(tx.outputs) = 2 THEN PaidBy(tx.outputs, 2, o) ELSE 0)
    BY NewSums
  <1>2. PaidBy(tx.outputs, 1, o) = IF p = o THEN a ELSE 0
    BY DEF PaidBy
  <1>3. (IF Len(tx.outputs) = 2 THEN PaidBy(tx.outputs, 2, o) ELSE 0) = 0
    OBVIOUS
  <1> QED
    BY ONLY <1>1, <1>2, <1>3

LEMMA TwoOutputs ==
  ASSUME UdtCellsTypeOK, NEW tx \in Txs, udtCells' = Spending(tx) \o Made(tx), NEW o \in Owners,
         Len(tx.outputs) = 2
  PROVE  SumOf(udtCells', NewCells(tx, o)) = PaidBy(tx.outputs, 1, o) + PaidBy(tx.outputs, 2, o)
  BY NewSums

(* What is booked is what changes hands.                                    *)
LEMMA BookedIsPaid ==
  ASSUME UdtCellsTypeOK, NEW tx \in Txs, udtCells' = Spending(tx) \o Made(tx),
         InputsKnown(tx), AllLive(tx), NEW total \in Int,
         total = SumOf(udtCells, tx.inputs), Balanced(tx, total), NEW o \in Owners
  PROVE  SumOf(udtCells', NewCells(tx, o)) - (IF o = tx.from THEN total ELSE 0) =
           (IF o = tx.to THEN tx.amount ELSE 0)
             - (IF o = tx.from /\ tx.inputs # {} /\ tx.amount > 0 THEN tx.amount ELSE 0)
  <1>1. tx.amount \in Int
    BY DEF Txs
  <1>2. CASE /\ tx.inputs = {} /\ tx.amount \in Nat
             /\ tx.outputs = <<[owner |-> tx.to, amount |-> tx.amount]>>
    <2>1. Len(tx.outputs) = 1 /\ tx.outputs[1] = [owner |-> tx.to, amount |-> tx.amount]
      BY <1>2
    <2>2. total = 0
      BY <1>2, SumEmpty
    <2>3. SumOf(udtCells', NewCells(tx, o)) = (IF tx.to = o THEN tx.amount ELSE 0) + 0
      BY <2>1, OneOutput
    <2> QED
      BY <1>1, <1>2, <2>2, <2>3
  <1>3. CASE /\ tx.inputs # {} /\ tx.amount > 0 /\ total >= tx.amount
             /\ tx.outputs = TransferOutputs(tx.from, tx.to, tx.amount, total - tx.amount)
    <2>1. CASE total - tx.amount > 0
      <3> DEFINE a == [owner |-> tx.to, amount |-> tx.amount]
                 b == [owner |-> tx.from, amount |-> total - tx.amount]
      <3>1. tx.outputs = <<a>> \o <<b>>
        BY <1>3, <2>1 DEF TransferOutputs
      <3>2. Len(tx.outputs) = 2 /\ tx.outputs[1] = a /\ tx.outputs[2] = b
        <4> HIDE DEF a, b
        <4>1. /\ <<a>> \in Seq({a, b}) /\ Len(<<a>>) = 1 /\ <<a>>[1] = a
              /\ <<b>> \in Seq({a, b}) /\ Len(<<b>>) = 1 /\ <<b>>[1] = b
          OBVIOUS
        <4> QED
          BY <3>1, <4>1, ConcatProperties
      <3>3. SumOf(udtCells', NewCells(tx, o)) =
              (IF tx.to = o THEN tx.amount ELSE 0) + (IF tx.from = o THEN total - tx.amount ELSE 0)
        <4> DEFINE rest == total - tx.amount
        <4>1. /\ Len(tx.outputs) = 2
              /\ tx.outputs[1] = [owner |-> tx.to, amount |-> tx.amount]
              /\ tx.outputs[2] = [owner |-> tx.from, amount |-> rest]
          BY <3>2
        <4> HIDE DEF rest, a, b
        <4>2. SumOf(udtCells', NewCells(tx, o)) =
                PaidBy(tx.outputs, 1, o) + PaidBy(tx.outputs, 2, o)
          BY <4>1, TwoOutputs
        <4>3. /\ PaidBy(tx.outputs, 1, o) = IF tx.to = o THEN tx.amount ELSE 0
              /\ PaidBy(tx.outputs, 2, o) = IF tx.from = o THEN rest ELSE 0
          BY <4>1 DEF PaidBy
        <4> QED
          BY <4>2, <4>3 DEF rest
      <3> QED
        BY <1>1, <1>3, <3>3
    <2>2. CASE ~(total - tx.amount > 0)
      <3>1. tx.outputs = <<[owner |-> tx.to, amount |-> tx.amount]>>
        BY <1>3, <2>2 DEF TransferOutputs
      <3>2. Len(tx.outputs) = 1 /\ tx.outputs[1] = [owner |-> tx.to, amount |-> tx.amount]
        BY <3>1
      <3>3. total = tx.amount
        BY <1>1, <1>3, <2>2
      <3>4. SumOf(udtCells', NewCells(tx, o)) = (IF tx.to = o THEN tx.amount ELSE 0) + 0
        BY <3>2, OneOutput
      <3> QED
        BY <1>1, <1>3, <3>3, <3>4
    <2> QED
      BY <2>1, <2>2
  <1>4. CASE /\ tx.inputs # {} /\ tx.amount <= 0 /\ total + tx.amount \in Nat /\ tx.to = tx.from
             /\ tx.outputs = <<[owner |-> tx.from, amount |-> total + tx.amount]>>
    <2>1. Len(tx.outputs) = 1 /\ tx.outputs[1] = [owner |-> tx.from, amount |-> total + tx.amount]
      BY <1>4
    <2>2. SumOf(udtCells', NewCells(tx, o)) = (IF tx.from = o THEN total + tx.amount ELSE 0) + 0
      <3> DEFINE rest == total + tx.amount
      <3>1. tx.outputs[1] = [owner |-> tx.from, amount |-> rest]
        BY <2>1
      <3> HIDE DEF rest
      <3>2. SumOf(udtCells', NewCells(tx, o)) = (IF tx.from = o THEN rest ELSE 0) + 0
        BY <2>1, <3>1, OneOutput, Zenon
      <3> QED
        BY <3>2 DEF rest
    <2> QED
      BY <1>1, <1>4, <2>2
  <1> QED
    BY <1>2, <1>3, <1>4 DEF Balanced

LEMMA CommitHoldings ==
  ASSUME UdtInv, NEW c \in Commands, SendTransaction(c)
  PROVE  HoldingsTrue' /\ ledger' \in [Kinds -> [Owners -> Int]]
  <1> DEFINE tx    == sending[c]
             total == SumOf(udtCells, tx.inputs)
  <1>1. /\ tx \in Txs /\ InputsKnown(tx) /\ AllLive(tx) /\ Balanced(tx, total)
        /\ udtCells' = Spending(tx) \o Made(tx) /\ ledger' = Booked(tx)
    BY DEF SendTransaction, UdtInv, UdtTypeOK, TxKnows, Accepts, AllLive, Spending, Made
  <1>2. UdtCellsTypeOK /\ ledger \in [Kinds -> [Owners -> Int]]
    BY DEF UdtInv, UdtTypeOK
  <1>3. total \in Int
    <2>1. tx.inputs \in SUBSET DOMAIN udtCells
      BY <1>1 DEF InputsKnown
    <2> QED
      BY <1>2, <2>1, CellsFinite, SumType
  <1> HIDE DEF tx, total
  <1>4. tx.kind \in Kinds /\ tx.from \in Owners /\ tx.to \in Owners /\ tx.amount \in Int
    BY <1>1 DEF Txs
  <1> DEFINE booked(o) == (IF o = tx.to THEN tx.amount ELSE 0)
               - (IF o = tx.from /\ tx.inputs # {} /\ tx.amount > 0 THEN tx.amount ELSE 0)
  <1>5. \A o : booked(o) \in Int
    BY <1>4
  <1>6. /\ ledger' \in [Kinds -> [Owners -> Int]]
        /\ \A k \in Kinds, o \in Owners :
             ledger'[k][o] = ledger[k][o] + (IF k = tx.kind THEN booked(o) ELSE 0)
    <2>1. ledger' = [ledger EXCEPT ![tx.kind] = [o \in Owners |-> ledger[tx.kind][o]
            + (IF o = tx.to THEN tx.amount ELSE 0)
            - (IF o = tx.from /\ tx.inputs # {} /\ tx.amount > 0 THEN tx.amount ELSE 0)]]
      BY <1>1 DEF Booked
    <2>2. \A o \in Owners :
            ledger[tx.kind][o] + (IF o = tx.to THEN tx.amount ELSE 0)
              - (IF o = tx.from /\ tx.inputs # {} /\ tx.amount > 0 THEN tx.amount ELSE 0)
              = ledger[tx.kind][o] + booked(o)
      BY <1>2, <1>4
    <2> HIDE DEF booked
    <2>3. ledger' = [ledger EXCEPT ![tx.kind] = [o \in Owners |-> ledger[tx.kind][o] + booked(o)]]
      BY <2>1, <2>2
    <2>4. \A k \in Kinds, o \in Owners : ledger[k][o] \in Int
      BY <1>2
    <2> QED
      BY <1>2, <1>4, <1>5, <2>3, <2>4
  <1>7. ASSUME NEW k \in Kinds, NEW o \in Owners
        PROVE  Sum(FindCells(k, o))' = ledger'[k][o]
    <2> DEFINE new == SumOf(udtCells', NewCells(tx, o))
    <2>1. Sum(FindCells(k, o))' =
            Sum(FindCells(k, o)) - (IF k = tx.kind /\ o = tx.from THEN total ELSE 0)
              + (IF k = tx.kind THEN new ELSE 0)
      BY <1>1, <1>2, CommitSums DEF total
    <2>2. Sum(FindCells(k, o)) = ledger[k][o] /\ ledger[k][o] \in Int
      BY <1>2 DEF UdtInv, HoldingsTrue
    <2>3. new - (IF o = tx.from THEN total ELSE 0) = booked(o)
      BY <1>1, <1>2, <1>3, BookedIsPaid DEF total
    <2>4. new \in Int
      BY <1>1, <1>2, <1>4, CommitSums
    <2> HIDE DEF new, booked
    <2> QED
      BY <1>3, <1>5, <1>6, <2>1, <2>2, <2>3, <2>4
  <1> QED
    BY <1>6, <1>7 DEF HoldingsTrue

(* Other transactions in flight: a cell of theirs is as they read it, or    *)
(* spent.                                                                   *)
LEMMA CommitKnows ==
  ASSUME UdtCellsTypeOK, NEW tx \in Txs, udtCells' = Spending(tx) \o Made(tx),
         NEW other \in Txs, TxKnows(other)
  PROVE  TxKnows(other)'
  <1>1. /\ other.inputs \subseteq DOMAIN udtCells /\ DOMAIN udtCells \subseteq DOMAIN udtCells'
        /\ \A i \in other.inputs :
             udtCells'[i] = IF i \in tx.inputs THEN Spent ELSE udtCells[i]
    BY CommitCells, SMTT(30) DEF TxKnows, InputsKnown
  <1>2. InputsKnown(other)'
    BY <1>1 DEF TxKnows, InputsKnown, Readable
  <1>3. ASSUME AllLive(other)'
        PROVE  Balanced(other, SumOf(udtCells, other.inputs))' 
    <2>1. \A i \in other.inputs : udtCells'[i] = udtCells[i] /\ udtCells[i] # Spent
      BY <1>1, <1>3 DEF AllLive
    <2>2. Balanced(other, SumOf(udtCells, other.inputs))
      BY <2>1 DEF TxKnows, AllLive
    <2>3. IsFiniteSet(other.inputs) /\ \A i \in other.inputs : udtCells[i].amount \in Int
      BY <1>1, CellsFinite
    <2>4. SumOf(udtCells', other.inputs) = SumOf(udtCells, other.inputs)
      BY <2>1, <2>3, SumSame
    <2> QED
      BY <2>2, <2>4 DEF Balanced
  <1> QED
    BY <1>2, <1>3 DEF TxKnows

LEMMA CommitInv ==
  ASSUME UdtInv, NEW c \in Commands, SendTransaction(c)
  PROVE  UdtInv'
  <1>1. /\ sending[c] \in Txs /\ udtCells' = Spending(sending[c]) \o Made(sending[c])
        /\ sending' = [sending EXCEPT ![c] = NoTx] /\ UdtCellsTypeOK
    BY DEF SendTransaction, UdtInv, UdtTypeOK, Spending, Made
  <1>2. UdtTypeOK'
    <2>1. UdtCellsTypeOK'
      BY <1>1, CommitCells
    <2>2. sending' \in [Commands -> Txs \cup {NoTx}]
      BY <1>1 DEF UdtInv, UdtTypeOK
    <2> QED
      BY <2>1, <2>2, CommitHoldings DEF UdtTypeOK
  <1>3. ASSUME NEW d \in Commands, (sending[d] # NoTx)' PROVE TxKnows(sending[d])'
    <2>1. PICK other \in Txs : other = sending[d] /\ other = sending'[d] /\ TxKnows(other)
      BY <1>1, <1>3 DEF UdtInv, UdtTypeOK
    <2>2. TxKnows(other)'
      BY <1>1, <2>1, CommitKnows
    <2> QED
      BY <2>1, <2>2 DEF TxKnows, InputsKnown, AllLive, Readable
  <1>4. HoldingsTrue'
    BY CommitHoldings
  <1> QED
    BY <1>2, <1>3, <1>4 DEF UdtInv

(* A step that leaves the cells and what is booked, and forgets             *)
(* transactions at most.                                                    *)
LEMMA QuietInv ==
  ASSUME UdtInv, UNCHANGED <<udtCells, ledger>>,
         sending' \in [Commands -> Txs \cup {NoTx}],
         \A c \in Commands : sending'[c] \in {sending[c], NoTx}
  PROVE  UdtInv'
  <1>1. UdtTypeOK'
    BY DEF UdtInv, UdtTypeOK, UdtCellsTypeOK
  <1>2. ASSUME NEW d \in Commands, (sending[d] # NoTx)' PROVE TxKnows(sending[d])'
    <2>1. sending'[d] = sending[d] /\ TxKnows(sending[d])
      BY <1>2 DEF UdtInv
    <2> QED
      BY <2>1 DEF TxKnows, InputsKnown, AllLive, Readable
  <1>3. ASSUME NEW k \in Kinds, NEW o \in Owners
        PROVE  Sum(FindCells(k, o))' = ledger'[k][o]
    <2>1. TokensOf(k, o)' = TokensOf(k, o)
      BY DEF TokensOf, FindCells, Readable
    <2>2. Sum(FindCells(k, o)) = ledger[k][o]
      BY DEF UdtInv, HoldingsTrue
    <2> QED
      BY <2>1, <2>2, HoldingIsSum, NextHoldingIsSum
  <1>4. HoldingsTrue'
    BY <1>3 DEF HoldingsTrue
  <1> QED
    BY <1>1, <1>2, <1>4 DEF UdtInv

LEMMA UdtNextInv == UdtInv /\ [UdtNext]_udtVars => UdtInv'
  <1> SUFFICES ASSUME UdtInv, [UdtNext]_udtVars PROVE UdtInv'
    OBVIOUS
  <1>1. CASE UNCHANGED udtVars
    BY <1>1, QuietInv DEF udtVars, UdtInv, UdtTypeOK
  <1>2. ASSUME NEW c \in Commands, SendFails(c) PROVE UdtInv'
    BY <1>2, QuietInv DEF SendFails, UdtInv, UdtTypeOK
  <1> QED
    BY <1>1, <1>2, IssueInv, TransferInv, DestroyInv, CommitInv DEF UdtNext

(* A scan that was not cut off has seen every cell.                         *)
LEMMA WholeScan ==
  ASSUME UdtInv, NEW k \in Kinds, NEW o \in Owners,
         Cardinality(FindCells(k, o)) <= MaxScanCells
  PROVE  First(MaxScanCells, FindCells(k, o)) = FindCells(k, o)
  <1> DEFINE cells == FindCells(k, o)
  <1>1. IsFiniteSet(cells) /\ cells \subseteq Nat
    <2>1. cells \in SUBSET DOMAIN udtCells
      BY DEF FindCells
    <2> QED
      BY <2>1, CellsFinite, CellsTyped DEF UdtInv, UdtTypeOK
  <1>2. ASSUME NEW i \in cells PROVE Cardinality(Before(i, cells)) < MaxScanCells
    <2>1. Before(i, cells) \in SUBSET cells /\ i \notin Before(i, cells)
      BY <1>1 DEF Before
    <2> HIDE DEF cells
    <2>2. /\ IsFiniteSet(Before(i, cells))
          /\ Cardinality(Before(i, cells)) <= Cardinality(cells)
          /\ Cardinality(Before(i, cells)) # Cardinality(cells)
      BY <1>1, <1>2, <2>1, FS_Subset
    <2>3. Cardinality(cells) \in Nat /\ Cardinality(Before(i, cells)) \in Nat
      BY <1>1, <2>2, FS_CardinalityType
    <2>4. Cardinality(cells) <= MaxScanCells
      BY DEF cells
    <2> QED
      BY <2>2, <2>3, <2>4, LimitsAssumption
  <1> HIDE DEF cells
  <1>3. First(MaxScanCells, cells) = cells
    BY <1>2 DEF First
  <1> QED
    BY <1>3 DEF cells

LEMMA UdtInvImplies == UdtInv => TokensConserved
  <1> SUFFICES ASSUME UdtInv PROVE TokensConserved
    OBVIOUS
  <1>1. HoldingsTrue
    BY DEF UdtInv
  <1>2. ASSUME NEW k \in Kinds, NEW o \in Owners,
               Cardinality(FindCells(k, o)) <= MaxScanCells
        PROVE  DetectUdtBalances(o)[k] = ledger[k][o]
    <2>1. First(MaxScanCells, FindCells(k, o)) = FindCells(k, o)
      BY <1>2, WholeScan
    <2>2. DetectUdtBalances(o)[k] = Sum(FindCells(k, o))
      BY <2>1 DEF DetectUdtBalances, UdtBalance
    <2> QED
      BY <1>1, <2>2 DEF HoldingsTrue
  <1> QED
    BY <1>1, <1>2 DEF TokensConserved, BalancesTrue

-----------------------------------------------------------------------------
(* The parts together: a step of one is a step or a stutter of each.        *)
PartsInv == SubInv /\ LogInv /\ FollowInv /\ ToolInv /\ PackageInv /\ DeployInv /\ UdtInv

LEMMA StepOfParts ==
  ASSUME [Next]_vars
  PROVE  /\ [SubNext]_subVars /\ [ToolNext]_toolVars /\ [PackageNext]_pkgVars
         /\ [DeployNext]_deployVars /\ [UdtNext]_udtVars
         /\ \/ [ProxyLogNext]_logVars /\ UNCHANGED followVars
            \/ FollowNext /\ UNCHANGED logVars
  <1>1. CASE UNCHANGED vars
    BY <1>1 DEF vars, machines
  <1>2. CASE Next
    <2>1. CASE MovingTokens
      BY <2>1 DEF MovingTokens
    <2>2. CASE Subscribing
      BY <2>2 DEF Subscribing
    <2>3. CASE Logging
      BY <2>3 DEF Logging
    <2>4. CASE Following
      BY <2>4 DEF Following
    <2>5. CASE InstallingTool
      BY <2>5 DEF InstallingTool
    <2>6. CASE InstallingPackage
      BY <2>6 DEF InstallingPackage
    <2>7. CASE Deploying
      BY <2>7 DEF Deploying
    <2> QED
      BY <1>2, <2>1, <2>2, <2>3, <2>4, <2>5, <2>6, <2>7 DEF Next
  <1> QED
    BY <1>1, <1>2

LEMMA PartsInitInv == Init => PartsInv
  BY SizeAssumption, BinariesAssumption, SubInitInv, LogInitInv, FollowInitInv, ToolInitInv,
     PackageInitInv, DeployInitInv, UdtInitInv DEF Init, PartsInv

LEMMA PartsNextInv == PartsInv /\ [Next]_vars => PartsInv'
  <1> SUFFICES ASSUME PartsInv, [Next]_vars PROVE PartsInv'
    OBVIOUS
  <1>1. SubInv' /\ ToolInv' /\ PackageInv' /\ DeployInv' /\ UdtInv'
    BY BinariesAssumption, StepOfParts, SubNextInv, ToolNextInv, PackageNextInv, DeployNextInv,
       UdtNextInv DEF PartsInv
  <1>2. CASE [ProxyLogNext]_logVars /\ UNCHANGED followVars
    BY <1>1, <1>2, SizeAssumption, LogNextInv, FollowBeside DEF PartsInv
  <1>3. CASE FollowNext /\ UNCHANGED logVars
    BY <1>1, <1>3, SizeAssumption, TailAssumption, LogNextInv, FollowNextInv DEF PartsInv
  <1> QED
    BY <1>2, <1>3, StepOfParts

LEMMA PartsAlways == Spec => []PartsInv
  BY PartsInitInv, PartsNextInv, PTL DEF Spec

(* However many commands install at once, fail and are killed: nothing of   *)
(* the user's is lost (ToolsWhole), an archive with the wrong checksum is   *)
(* never an installed FNN, and a command that ran alone and says installed  *)
(* has left what can be used.                                               *)
THEOREM InstallsStaySafe == Spec => []InstallsSafe
  <1>1. PartsInv => InstallsSafe
    BY DEF PartsInv, ToolInv, ToolTypeOK, ShimUntouched, PackageInv, InstallsSafe, ToolsWhole,
           NeverPartial, ForeignShimKept, Paths, Files, None, UserDir
  <1> QED
    BY <1>1, PartsAlways, PTL

(* However often contracts are deployed and upgraded, with which key, and   *)
(* wherever a deployment fails or crashes: a cell replaces one of the same  *)
(* contract and type id; while its cells are recorded and the clock is not  *)
(* set back, a contract has one cell on the chain and its newest record is  *)
(* of it; and scripts.json then names no cell that was replaced.            *)
THEOREM UpgradesKeepTypeIds == Spec => []UpgradeKeepsTypeId
  <1>1. PartsInv => UpgradeKeepsTypeId
    BY DeployInvImplies DEF PartsInv
  <1> QED
    BY <1>1, PartsAlways, PTL

(* However transfers, issues and destructions of tokens overlap, and        *)
(* whichever of them fail: every address holds what the committed           *)
(* transactions have given and taken, of each kind, and a balance that was  *)
(* read from all of its cells says so.                                      *)
THEOREM TokensAreConserved == Spec => []TokensConserved
  <1>1. PartsInv => TokensConserved
    BY UdtInvImplies DEF PartsInv
  <1> QED
    BY <1>1, PartsAlways, PTL

(* For every cap, length of a line and number of events and faults: the     *)
(* proxy's log holds the end of what was appended, in order and without a   *)
(* gap, and a rollover that fails or is cut short does not lose the archive *)
(* it has set aside.                                                        *)
THEOREM ProxyEventsAreKept == Spec => []EventsKept
  <1>1. PartsInv => EventsKept
    BY LogInvImplies DEF PartsInv
  <1> QED
    BY <1>1, PartsAlways, PTL

(* Whatever the proxy does to the log, and however short the reads: what    *)
(* logs --follow prints are whole lines, each once and in their order, and  *)
(* of the file it follows none is missing up to its offset, unless that     *)
(* file was replaced between a stat and the read that relies on it.         *)
THEOREM FollowerShowsOnce == Spec => []ShownOnce
  <1>1. PartsInv => ShownOnce
    BY SizeAssumption, FollowInvImplies DEF PartsInv
  <1> QED
    BY <1>1, PartsAlways, PTL
=============================================================================
