----------------------------- MODULE MCDevnetDir -----------------------------
(* DevnetDir for TLC: the node alone on every directory it may find, the    *)
(* editor alone with more edits, and the commands that meet, each time on   *)
(* the directories that matter to them.                                     *)
EXTENDS DevnetDir

MCActors == {{"boot"}, {"edit"}, {"boot", "edit"}, {"fork", "edit"},
             {"boot", "fork", "other"}, {"boot", "sign", "other"}, {"boot", "fork", "sign"}}
AnyDir ==
  {Absent, LogsOnly, Devnet(Bundled), Devnet(Legacy), Devnet(Emptied),
   [Devnet(Legacy) EXCEPT !.miner = Missing], [Devnet(Bundled) EXCEPT !.spec = Missing]}
    \cup {Devnet([Legacy EXCEPT !.layout = l]) : l \in {"tail", "bracket"}}
    \cup {Devnet([Bundled EXCEPT !.layout = "tail"]), Devnet([Bundled EXCEPT !.tcp = "odd"])}
ForkOf(source) ==
  [LogsOnly EXCEPT !.ckb = [Bundled EXCEPT !.isolated = TRUE], !.miner = "rpc",
                   !.spec = "patched", !.data = "copied", !.stored = "source",
                   !.copied = 1, !.tip = 1, !.fork = ForkState(source, TRUE, 0)]
MCInitialDirs ==
  [a \in MCActors |->
     CASE a = {"boot"} -> AnyDir
       [] a = {"boot", "edit"} -> {Absent, Devnet(Legacy), Devnet([Legacy EXCEPT !.layout = "tail"])}
       [] a = {"boot", "fork", "other"} -> {Absent, ForkOf("testnet")}
       [] "sign" \in a -> {ForkOf("mainnet")}
       [] OTHER -> {Devnet(Bundled)}]
MCVersions == {"old", "new"}
MCMaxBoots == [a \in MCActors |-> 2]
MCMaxForks == [a \in MCActors |-> IF "edit" \in a THEN 2 ELSE 1]
MCMaxSessions == [a \in MCActors |-> 1]
MCMaxEdits == [a \in MCActors |-> IF a = {"edit"} THEN 3 ELSE 1]
=============================================================================
