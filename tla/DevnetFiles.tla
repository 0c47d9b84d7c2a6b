---------------------------- MODULE DevnetFiles ----------------------------
(***************************************************************************)
(* The devnet directory: the files that the node, the fork command and the *)
(* configuration editor share, and the operators of init-chain.ts and      *)
(* fork.ts on them (src/src/node/init-chain.ts, src/src/devnet/fork.ts).   *)
(* A file is reduced to the keys the program reads, repairs or checks.     *)
(***************************************************************************)
EXTENDS Naturals, Sequences, FiniteSets

CONSTANTS
  Missing, \* a file, or a key of a TOML table, that is not there
  Broken,  \* a TOML file that does not parse
  MaxTip   \* bound: the highest block of a chain

VARIABLES
  actors, \* the commands of this behaviour; the bounds depend on them
  dir,  \* the devnet directory
  gaps  \* history: what the guards of the program did not cover

(* "unlisted": the owner of a port cannot be determined (no lsof); "crash": *)
(* a command died half way; "overlap": a fork ran beside a starting node;   *)
(* "stale": what a command had read was replaced before it used it;         *)
(* "misfit": a start patched a ckb.toml that its textual patch is not made  *)
(* for; "peers": the user changed the network keys in the editor; "torn": a *)
(* command died between opening a file for writing and filling it.          *)
Gaps == {"unlisted", "crash", "overlap", "stale", "misfit", "peers", "torn"}
Noted(g) == gaps' = gaps \cup g
Uncovered(g) == gaps \cap g # {}

(* ckb.toml.  tcp: rpc.tcp_listen_address, "odd" when it is no text or an   *)
(* empty one; isolated: bootnodes, whitelist_only and max_outbound_peers    *)
(* leave the node without peers; addrs: network.listen_addresses, an array  *)
(* without a fixed list of options.  layout: how the text of rpc.modules    *)
(* ends - "tail": where appending an entry goes wrong, with a comma before  *)
(* the bracket of a single line, or in several lines with no comma behind   *)
(* the last entry when a comment follows or the entry is on the first line; *)
(* "bracket": after a comment that has a ] in it, and no default of tcp is  *)
(* commented out.                                                           *)
Layouts == {"plain", "tail", "bracket"}
Bundled == [listen |-> "ok", modules |-> {"Net", "Terminal"},
            protocols |-> {"Sync", "Identify"}, tcp |-> "ok",
            isolated |-> FALSE, addrs |-> <<"p">>, layout |-> "plain"]
Legacy  == [Bundled EXCEPT !.modules = {"Net"}, !.tcp = Missing]
Emptied == [Legacy EXCEPT !.modules = {}]
IsToml(file) == file \notin {Missing, Broken}

(* fork.json; the chain: data is what data/db holds ("mixed" when a node    *)
(* wrote where a fork was copying to), stored the spec in that database,    *)
(* copied and tip its last copied and its last block.                       *)
ForkState(source, pending, boundary) ==
  [source |-> source, pending |-> pending, boundary |-> boundary]
NoFork == ForkState("none", FALSE, 0)
Forked == dir.fork # NoFork
Absent == [exists |-> FALSE, ckb |-> Missing, miner |-> Missing, spec |-> Missing,
           data |-> "none", stored |-> "none", format |-> "new", fork |-> NoFork,
           copied |-> 0, tip |-> 0]
LogsOnly == [Absent EXCEPT !.exists = TRUE]
Devnet(toml) == [LogsOnly EXCEPT !.ckb = toml, !.miner = "rpc", !.spec = "bundled",
                                 !.data = "own", !.stored = "own"]

ForkSources == {"mainnet", "testnet"} \* a custom chain is as testnet here
ForkStates == {NoFork} \cup [source : ForkSources, pending : BOOLEAN, boundary : 0 .. MaxTip]

-----------------------------------------------------------------------------
(* init-chain.ts: the bundled template, one file at a time.                 *)
Template == [ckb |-> Bundled, miner |-> "raw", spec |-> "bundled"]
RequiredConfigFiles == DOMAIN Template
IsInitialized == dir.exists /\ \A f \in RequiredConfigFiles : dir[f] # Missing

SupportsTerminalRpcModule(version) == version # "old"
DevnetConfigHasTerminalRpc(toml) ==
  IsToml(toml) /\ toml.modules # Missing /\ "Terminal" \in toml.modules

(* addTerminalModule puts a comma and "Terminal" behind what it takes for   *)
(* the last entry: after nothing, after a comma, or where the comma is in a *)
(* comment or is left out, that is no TOML.                                 *)
AddTerminalModule(toml) ==
  IF toml.modules = {} \/ toml.layout = "tail" THEN Broken
  ELSE [toml EXCEPT !.modules = @ \cup {"Terminal"}]

RemoveTerminalRpcModule(toml) ==
  IF DevnetConfigHasTerminalRpc(toml)
  THEN [toml EXCEPT !.modules = @ \ {"Terminal"}]
  ELSE toml

(* A new line behind the list, or what it takes for its end: no TOML when   *)
(* the key is there already, or when the list goes on.                      *)
EnableTcpListenAddress(toml) ==
  IF toml = Broken \/ toml.tcp = "odd" \/ toml.layout = "bracket" THEN Broken
  ELSE [toml EXCEPT !.tcp = "ok"]

(* What the patches above are not made for.                                 *)
Misfit(toml) == toml.modules = {} \/ toml.layout # "plain" \/ toml.tcp = "odd"

MigrateLegacyDevnetRpcConfig(toml, version) ==
  LET needsTerminal == /\ SupportsTerminalRpcModule(version)
                       /\ toml.modules # Missing
                       /\ "Terminal" \notin toml.modules
      needsTcp == toml.tcp # "ok"
      upgraded == IF needsTerminal THEN AddTerminalModule(toml) ELSE toml
  IN IF ~IsToml(toml) THEN toml
     ELSE IF needsTcp THEN EnableTcpListenAddress(upgraded) ELSE upgraded

-----------------------------------------------------------------------------
(* fork.ts: the configuration of a fork, and its state file.                *)
IsolateForkCkbConfig(toml) == [toml EXCEPT !.isolated = TRUE]
(* Mutant: the template as it is, with its bootnodes.                       *)
AlignWithoutIsolation(d) == [d EXCEPT !.ckb = Bundled, !.miner = "rpc"]
AlignConfigsWithOffckb(d) ==
  [d EXCEPT !.ckb = IsolateForkCkbConfig(Bundled), !.miner = "rpc"]
WriteForkState(d, state) == [d EXCEPT !.fork = state]
(* Mutant: the first block after the boundary is taken for the boundary.    *)
MarkNextBlock(d, boundary) ==
  IF d.fork.pending THEN WriteForkState(d, ForkState(d.fork.source, FALSE, boundary + 1)) ELSE d
MarkForkFirstRunComplete(d, boundary) ==
  IF d.fork.pending
  THEN WriteForkState(d, ForkState(d.fork.source, FALSE, boundary))
  ELSE d
=============================================================================
