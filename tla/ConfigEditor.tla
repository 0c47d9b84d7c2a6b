---------------------------- MODULE ConfigEditor ----------------------------
(***************************************************************************)
(* The operations of DevnetConfigEditor on its two documents               *)
(* (src/src/devnet/config-editor.ts).  An operation returns the set of     *)
(* documents it may lead to: none when it throws, and then the documents   *)
(* are as before.  A document is reduced to the keys that are validated,   *)
(* to two arrays with a fixed list of options, and to one without; a       *)
(* string is "ok" or "bad" for its key.                                    *)
(***************************************************************************)
EXTENDS DevnetFiles, SequencesExt

CONSTANT
  MaxItems \* bound: items of an array without fixed options

(* What is parsed has lost its layout.                                      *)
Parsed(file) == IF IsToml(file) THEN [file EXCEPT !.layout = "plain"] ELSE file
Docs(d) == [ckb |-> Parsed(d.ckb), miner |-> d.miner]
NoDocs  == [ckb |-> Missing, miner |-> Missing]

(* Paths: the rpc table and its keys, an array and its items, the miner     *)
(* URL, and <<"isolated">> for the network keys that decide on peers.       *)
FixedArrays == {"modules", "protocols"}
ValidatedFields == {"listen", "miner"}
ItemPath(i) == <<"addrs", i>>
Items(docs) == IF docs.ckb.addrs = Missing THEN <<>> ELSE docs.ckb.addrs
EntryPaths(docs) ==
  {<<"rpc">>, <<"tcp">>, <<"addrs">>, <<"isolated">>} \cup {<<a>> : a \in FixedArrays} \cup {<<f>> : f \in ValidatedFields}
    \cup {ItemPath(i) : i \in DOMAIN Items(docs)}

RpcTable(docs) ==
  IF docs.ckb.modules = Missing /\ docs.ckb.tcp = Missing THEN docs.ckb.listen ELSE "table"
GetByPath(docs, path) ==
  CASE path = <<"miner">> -> docs.miner
    [] path = <<"rpc">>   -> RpcTable(docs)
    [] Len(path) = 2      -> docs.ckb.addrs[path[2]]
    [] OTHER              -> docs.ckb[path[1]]
SetByPath(docs, path, value) ==
  CASE path = <<"miner">> -> [docs EXCEPT !.miner = value]
    [] Len(path) = 2      -> [docs EXCEPT !.ckb.addrs[path[2]] = value]
    [] OTHER              -> [docs EXCEPT !.ckb[path[1]] = value]
GetEntriesForDocument(docs) == {p \in EntryPaths(docs) : GetByPath(docs, p) # Missing}

-----------------------------------------------------------------------------
(* createDevnetConfigEditor and the constructor: both files parse and have  *)
(* every field of the list, with its type.                                  *)
FilesPresent(d) == d.exists /\ d.ckb # Missing /\ d.miner # Missing
SupportedLayout(d) == Broken \notin {d.ckb, d.miner} /\ d.ckb.listen # Missing
CreateDevnetConfigEditor(d) ==
  IF FilesPresent(d) /\ SupportedLayout(d) THEN {Docs(d)} ELSE {}

(* setFieldValue: host:port, an http URL.                                   *)
SetFieldValue(docs, field, value) ==
  IF value = "bad" THEN {}
  ELSE {SetByPath(docs, <<field>>, IF field = "miner" THEN "rpc" ELSE value)}

(* Network keys: nothing keeps the user from giving a fork peers.           *)
SetNetworkKey(docs) == {SetByPath(docs, <<"isolated">>, without) : without \in BOOLEAN}
AddBootnode(docs) == {SetByPath(docs, <<"isolated">>, FALSE)}

(* A field of the list is validated; any other primitive keeps its type.    *)
SetDocumentValue(docs, path, value) ==
  CASE path[1] \in ValidatedFields -> SetFieldValue(docs, path[1], value)
    [] path = <<"isolated">>       -> SetNetworkKey(docs)
    [] path = <<"tcp">>            -> {docs}
    [] Len(path) = 2               -> {SetByPath(docs, path, "q")}
    [] OTHER                       -> {}

(* A new key under rpc or miner.client: its value is not validated.         *)
AddObjectEntry(docs, field, value) ==
  IF GetByPath(docs, <<field>>) # Missing \/ (field # "miner" /\ RpcTable(docs) = Missing)
  THEN {}
  ELSE {SetByPath(docs, <<field>>, value)}

AppendArrayEntry(docs, value) ==
  {SetByPath(docs, <<"addrs">>, Append(Items(docs), value))}

InsertArrayEntry(docs, index, value) ==
  IF index > Len(Items(docs)) THEN {}
  ELSE {SetByPath(docs, <<"addrs">>, InsertAt(Items(docs), index + 1, value))}

MoveArrayEntry(docs, from, to) ==
  LET array == Items(docs)
  IN IF from >= Len(array) \/ to >= Len(array) THEN {}
     ELSE {SetByPath(docs, <<"addrs">>,
                     InsertAt(RemoveAt(array, from + 1), to + 1, array[from + 1]))}

SetArrayValues(docs, array, values) ==
  IF GetByPath(docs, <<array>>) = Missing THEN {} ELSE {SetByPath(docs, <<array>>, values)}

DeleteDocumentPath(docs, path) ==
  CASE path = <<"rpc">>  -> {[docs EXCEPT !.ckb.listen = Missing, !.ckb.modules = Missing,
                                          !.ckb.tcp = Missing]}
    [] path = <<"isolated">> -> SetNetworkKey(docs)
    [] Len(path) = 2     -> {SetByPath(docs, <<"addrs">>, RemoveAt(Items(docs), path[2]))}
    [] OTHER             -> {SetByPath(docs, path, Missing)}

-----------------------------------------------------------------------------
(* validateBeforeSave                                                       *)
SaveableCkb(toml) ==
  /\ toml.listen = "ok"
  /\ toml.modules \notin {Missing, {}}
  /\ toml.protocols # Missing /\ {"Sync", "Identify"} \subseteq toml.protocols
SaveableMiner(url) == url \in {"raw", "rpc"}
(* Mutant: the miner's file is not looked at.                               *)
ValidateCkbOnly(docs) == SaveableCkb(docs.ckb)
ValidateBeforeSave(docs) == SaveableCkb(docs.ckb) /\ SaveableMiner(docs.miner)
=============================================================================
