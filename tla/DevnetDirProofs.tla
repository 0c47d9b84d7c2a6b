--------------------------- MODULE DevnetDirProofs ---------------------------
(***************************************************************************)
(* Proofs about DevnetDir for any set of commands that runs together, any  *)
(* number of boots, forks and editor sessions, and any directory that is   *)
(* the user's or a completed fork to start from.                           *)
(*                                                                         *)
(* The commands take no lock, so what is proved holds up to the gaps that  *)
(* a behaviour has noted.  While no fork has met a starting node (Beside), *)
(* a fork is alone with the directory from its removal to its record, and  *)
(* each of its steps knows what the steps before it have left (Progress);  *)
(* a node that is up has replaced the spec of the database (Flagged); the  *)
(* boundary that is recorded is a block of the fork (Bounded); and what    *)
(* the node and the editor have read of ckb.toml is still there when they  *)
(* write it (Isolated, Repaired, ValidFiles).                              *)
(***************************************************************************)
EXTENDS DevnetDir, SequenceTheorems, TLAPS

(* A directory that does not exist has nothing in it.                       *)
Removed ==
  ~dir.exists =>
    /\ dir.data = "none" /\ dir.fork = NoFork
    /\ dir.ckb = Missing /\ dir.miner = Missing /\ dir.spec = Missing

(* ckb runs only under a node that has spawned it, and a fork is alone with *)
(* the directory.                                                           *)
Unspawned == {"idle", "copy", "adapt", "rewrite", "spawn"}
Beside ==
  /\ boot.pc \in Unspawned => ckb.proc = "none"
  /\ ~Uncovered({"overlap"}) =>
       /\ fork.pc \in Replacing => boot.pc = "idle"
       /\ ckb.db = "dir"
       /\ boot.pc # "idle" => dir.exists

(* What the steps of a fork have left.                                      *)
Complete(d) ==
  d.fork # NoFork /\ d.data = "copied" /\ d.spec = "patched" /\ d.format = "new"
CopiedFormat == IF fork.needsMigration THEN "old" ELSE "new"
Progress ==
  /\ fork.pc \in Replacing \ {"remove"} => dir.fork = NoFork
  /\ fork.pc \in Replacing \ {"remove", "copy"} => dir.exists
  /\ ~Uncovered({"crash", "overlap"}) =>
       /\ fork.pc \in {"idle", "guard"} => dir.data \in {"none", "own"} \/ Complete(dir)
       /\ fork.pc = "copy" => dir.data \in {"none", "partial"}
       /\ fork.pc \in Replacing \ {"remove", "copy"} => dir.data = "copied"
       /\ fork.pc \in {"init", "patch", "align", "migrate"} => dir.format = CopiedFormat
       /\ fork.pc \in {"align", "migrate", "record"} => dir.spec = "patched"
       /\ fork.pc = "record" => dir.format = "new"

(* A node that has answered has put its own spec into the database.         *)
Flagged ==
  /\ FirstRunFlagged
  /\ ~Uncovered({"overlap"}) /\ ckb.proc = "up" => dir.stored = "own"
  /\ ~Uncovered({"unlisted", "overlap"}) /\ boot.pc = "tip" => dir.stored = "own"

(* The boundary is at or above what was copied, and what a command that     *)
(* signs has read is still the state of the fork.                           *)
Bounded ==
  /\ dir.copied <= dir.tip
  /\ ~Uncovered({"unlisted", "overlap", "stale"}) =>
       /\ Forked /\ ~dir.fork.pending => dir.copied <= dir.fork.boundary
       /\ sign.pc = "send" /\ dir.fork.source = "mainnet"
            => ~dir.fork.pending /\ sign.boundary = dir.fork.boundary
  /\ SignedInputsLocal

(* Every text of ckb.toml that may yet be written to a fork has no peers,   *)
(* unless the user has seen to that.                                        *)
KeepsIsolation(toml) == IsToml(toml) => toml.isolated
Isolated ==
  /\ Forked \/ fork.pc \in {"migrate", "record"} =>
       /\ dir.ckb # Missing
       /\ ~Uncovered({"overlap", "stale", "peers"}) => KeepsIsolation(dir.ckb)
  /\ boot.pc = "rewrite" =>
       /\ boot.text # Missing
       /\ Forked /\ ~Uncovered({"overlap", "stale", "peers"}) => KeepsIsolation(boot.text)

(* What each step of an initialisation has left of the user's files.        *)
FilesThere == IsInitialized /\ dir.miner # "raw"
Repairing ==
  /\ boot.pc = "copy" =>
       /\ \A f \in RequiredConfigFiles \ boot.left : dir[f] # Missing
       /\ ~boot.minerWas => dir.miner \notin {Missing, "raw"}
       /\ boot.had # Missing => dir.ckb = boot.had
  /\ boot.pc \in {"adapt", "rewrite", "spawn", "wait", "clear", "tip", "mine", "up"} => FilesThere
  /\ boot.pc \in {"adapt", "rewrite"} /\ boot.had # Missing => dir.ckb = boot.had
  /\ boot.pc = "rewrite" => /\ boot.text # Missing
                            /\ IsToml(boot.had) => KeptBy(boot.had, boot.text)
  /\ boot.pc \in {"spawn", "wait", "clear", "tip", "mine", "up"} /\ IsToml(boot.had)
       => KeptBy(boot.had, dir.ckb)
  /\ boot.pc \in {"wait", "clear", "tip", "mine", "up"} /\ boot.version = "old"
       => ~DevnetConfigHasTerminalRpc(dir.ckb)
  /\ dir.miner = "raw" => boot.pc = "copy" /\ boot.minerWas
Repaired ==
  /\ Uncovered({"torn"}) => Uncovered({"crash"})
  /\ "edit" \notin actors /\ ~Uncovered({"crash", "overlap", "misfit"}) => Repairing

(* Every text that may yet be written is valid. *)
ValidFiles ==
  ~Uncovered({"misfit", "torn"}) =>
    /\ dir.ckb # Missing => ValidCkb(dir.ckb)
    /\ dir.miner # Missing => SaveableMiner(dir.miner)
    /\ boot.pc = "rewrite" => ValidCkb(boot.text)
ValidDocs == tui.pc \in {"write", "writeMiner"} => ValidateBeforeSave(docs)

(* A dialog is open in an editor that is open.                              *)
Editing ==
  /\ tui.dialog # "none" => tui.pc = "open"
  /\ tui.dialog \in {"select", "edit", "add", "insert", "move", "delete"}
       => tui.entry \in GetEntriesForDocument(docs)
  /\ tui.dialog = "select" => ResolveFixedArrayTarget(tui.entry)
  /\ tui.dialog = "edit"
       => tui.entry[1] \in ValidatedFields \cup {"tcp", "isolated"} \/ Len(tui.entry) = 2
  /\ tui.dialog \in {"insert", "move"} => ResolveArrayTarget(tui.entry)
  /\ EditsTracked

Session == TuiTyped /\ Editing

DirInv ==
  /\ Removed /\ Beside /\ Progress /\ Flagged /\ Bounded
  /\ Isolated /\ Repaired /\ ValidFiles /\ ValidDocs /\ Session

-----------------------------------------------------------------------------
(* What the operations of the editor return. *)
LEMMA SetItem ==
  ASSUME NEW d, NEW v, NEW i
  PROVE  SetByPath(d, <<"addrs", i>>, v) = [d EXCEPT !.ckb.addrs[i] = v]
  <1>1. <<"addrs", i>> # <<"miner">> /\ Len(<<"addrs", i>>) = 2 /\ <<"addrs", i>>[2] = i
    OBVIOUS
  <1> QED
    BY <1>1 DEF SetByPath

LEMMA Inserting ==
  ASSUME NEW S, NEW s \in Seq(S), NEW e \in S, NEW i \in 1 .. Len(s) + 1
  PROVE  InsertAt(s, i, e) \in Seq(S)
  BY DEF InsertAt

LEMMA Deleting ==
  ASSUME NEW S, NEW s \in Seq(S), NEW i \in 1 .. Len(s)
  PROVE  RemoveAt(s, i) \in Seq(S) /\ Len(RemoveAt(s, i)) = Len(s) - 1
  <1> DEFINE before == SubSeq(s, 1, i - 1)
             after  == SubSeq(s, i + 1, Len(s))
  <1>1. before \in Seq(S) /\ Len(before) = i - 1
    BY SubSeqProperties
  <1>2. after \in Seq(S) /\ Len(after) = Len(s) - i
    BY SubSeqProperties
  <1> HIDE DEF before, after
  <1>3. before \o after \in Seq(S) /\ Len(before \o after) = Len(s) - 1
    BY <1>1, <1>2, ConcatProperties
  <1> QED
    BY <1>3 DEF RemoveAt, before, after

LEMMA SetKeeps ==
  ASSUME NEW d \in Loaded
  PROVE  /\ \A v \in {Missing, "raw", "rpc", "bad"} : SetByPath(d, <<"miner">>, v) \in Loaded
         /\ \A v \in {Missing, "ok", "bad"} : SetByPath(d, <<"listen">>, v) \in Loaded
         /\ \A v \in {Missing} \cup SUBSET Options :
              /\ SetByPath(d, <<"modules">>, v) \in Loaded
              /\ SetByPath(d, <<"protocols">>, v) \in Loaded
         /\ \A v \in {Missing} \cup Seq({"p", "q"}) : SetByPath(d, <<"addrs">>, v) \in Loaded
         /\ \A v \in {Missing, "ok", "odd"} : SetByPath(d, <<"tcp">>, v) \in Loaded
         /\ \A v \in BOOLEAN : SetByPath(d, <<"isolated">>, v) \in Loaded
  <1>1. ASSUME NEW v \in {Missing, "raw", "rpc", "bad"}
        PROVE  SetByPath(d, <<"miner">>, v) \in Loaded
    <2>1. [d EXCEPT !.miner = v] \in Loaded
      BY DEF Loaded, MinerUrls
    <2>2. SetByPath(d, <<"miner">>, v) = [d EXCEPT !.miner = v]
      BY DEF SetByPath
    <2> QED
      BY <2>1, <2>2
  <1>2. ASSUME NEW v \in {Missing, "ok", "bad"}
        PROVE  SetByPath(d, <<"listen">>, v) \in Loaded
    <2>1. [d EXCEPT !.ckb["listen"] = v] \in Loaded
      BY DEF Loaded, Tomls
    <2>2. SetByPath(d, <<"listen">>, v) = [d EXCEPT !.ckb["listen"] = v]
      <3>1. <<"listen">> # <<"miner">> /\ Len(<<"listen">>) # 2 /\ <<"listen">>[1] = "listen"
        OBVIOUS
      <3> QED
        BY <3>1 DEF SetByPath
    <2> QED
      BY <2>1, <2>2
  <1>3. ASSUME NEW v \in {Missing} \cup SUBSET Options
        PROVE  SetByPath(d, <<"modules">>, v) \in Loaded
    <2>1. [d EXCEPT !.ckb["modules"] = v] \in Loaded
      BY DEF Loaded, Tomls
    <2>2. SetByPath(d, <<"modules">>, v) = [d EXCEPT !.ckb["modules"] = v]
      <3>1. <<"modules">> # <<"miner">> /\ Len(<<"modules">>) # 2 /\ <<"modules">>[1] = "modules"
        OBVIOUS
      <3> QED
        BY <3>1 DEF SetByPath
    <2> QED
      BY <2>1, <2>2
  <1>4. ASSUME NEW v \in {Missing} \cup SUBSET Options
        PROVE  SetByPath(d, <<"protocols">>, v) \in Loaded
    <2>1. [d EXCEPT !.ckb["protocols"] = v] \in Loaded
      BY DEF Loaded, Tomls
    <2>2. SetByPath(d, <<"protocols">>, v) = [d EXCEPT !.ckb["protocols"] = v]
      <3>1. <<"protocols">> # <<"miner">> /\ Len(<<"protocols">>) # 2 /\ <<"protocols">>[1] = "protocols"
        OBVIOUS
      <3> QED
        BY <3>1 DEF SetByPath
    <2> QED
      BY <2>1, <2>2
  <1>5. ASSUME NEW v \in {Missing} \cup Seq({"p", "q"})
        PROVE  SetByPath(d, <<"addrs">>, v) \in Loaded
    <2>1. [d EXCEPT !.ckb["addrs"] = v] \in Loaded
      BY DEF Loaded, Tomls
    <2>2. SetByPath(d, <<"addrs">>, v) = [d EXCEPT !.ckb["addrs"] = v]
      <3>1. <<"addrs">> # <<"miner">> /\ Len(<<"addrs">>) # 2 /\ <<"addrs">>[1] = "addrs"
        OBVIOUS
      <3> QED
        BY <3>1 DEF SetByPath
    <2> QED
      BY <2>1, <2>2
  <1>6. ASSUME NEW v \in {Missing, "ok", "odd"}
        PROVE  SetByPath(d, <<"tcp">>, v) \in Loaded
    <2>1. [d EXCEPT !.ckb["tcp"] = v] \in Loaded
      BY DEF Loaded, Tomls
    <2>2. SetByPath(d, <<"tcp">>, v) = [d EXCEPT !.ckb["tcp"] = v]
      <3>1. <<"tcp">> # <<"miner">> /\ Len(<<"tcp">>) # 2 /\ <<"tcp">>[1] = "tcp"
        OBVIOUS
      <3> QED
        BY <3>1 DEF SetByPath
    <2> QED
      BY <2>1, <2>2
  <1>7. ASSUME NEW v \in BOOLEAN
        PROVE  SetByPath(d, <<"isolated">>, v) \in Loaded
    <2>1. [d EXCEPT !.ckb["isolated"] = v] \in Loaded
      BY DEF Loaded, Tomls
    <2>2. SetByPath(d, <<"isolated">>, v) = [d EXCEPT !.ckb["isolated"] = v]
      <3>1. <<"isolated">> # <<"miner">> /\ Len(<<"isolated">>) # 2 /\ <<"isolated">>[1] = "isolated"
        OBVIOUS
      <3> QED
        BY <3>1 DEF SetByPath
    <2> QED
      BY <2>1, <2>2
  <1> QED
    BY <1>1, <1>2, <1>3, <1>4, <1>5, <1>6, <1>7

LEMMA ItemKeeps ==
  ASSUME NEW d \in Loaded, d.ckb.addrs # Missing, NEW i \in 1 .. Len(d.ckb.addrs),
         NEW v \in {"p", "q"}
  PROVE  SetByPath(d, <<"addrs", i>>, v) \in Loaded
  <1>1. d.ckb.addrs \in Seq({"p", "q"})
    BY DEF Loaded, Tomls
  <1>2. [d.ckb.addrs EXCEPT ![i] = v] \in Seq({"p", "q"})
    BY <1>1, ExceptSeq
  <1>3. [d EXCEPT !.ckb.addrs[i] = v] \in Loaded
    BY <1>2 DEF Loaded, Tomls
  <1> QED
    BY <1>3, SetItem

LEMMA ItemsAreSeq ==
  ASSUME NEW d \in Loaded
  PROVE  Items(d) \in Seq({"p", "q"})
  <1>1. <<>> \in Seq({"p", "q"})
    OBVIOUS
  <1> QED
    BY <1>1 DEF Loaded, Tomls, Items

(* The entries that are listed, and what is at them. *)
Keys == {<<"rpc">>, <<"tcp">>, <<"addrs">>, <<"isolated">>, <<"modules">>, <<"protocols">>,
         <<"listen">>, <<"miner">>}

LEMMA Listed ==
  ASSUME NEW d \in Loaded, NEW p \in GetEntriesForDocument(d)
  PROVE  /\ p \in Entries
         /\ \/ p \in Keys
            \/ d.ckb.addrs # Missing /\ \E i \in 1 .. Len(d.ckb.addrs) : p = <<"addrs", i>>
  <1>1. ASSUME NEW i \in DOMAIN Items(d), p = ItemPath(i)
        PROVE  d.ckb.addrs # Missing /\ i \in 1 .. Len(d.ckb.addrs) /\ p \in Entries
    <2>1. d.ckb.addrs # Missing /\ d.ckb.addrs \in Seq({"p", "q"})
      BY <1>1 DEF Items, Loaded, Tomls
    <2>2. i \in 1 .. Len(d.ckb.addrs)
      BY <1>1, <2>1 DEF Items
    <2> QED
      BY <1>1, <2>1, <2>2 DEF ItemPath, Entries
  <1>2. p \in EntryPaths(d)
    BY DEF GetEntriesForDocument
  <1>3. \/ p \in Keys
        \/ \E i \in DOMAIN Items(d) : p = ItemPath(i)
    BY <1>2 DEF EntryPaths, FixedArrays, ValidatedFields, Keys
  <1> QED
    BY <1>1, <1>3 DEF Entries, ItemPath, Keys

LEMMA AtPath ==
  ASSUME NEW d
  PROVE  \A f \in {"listen", "modules", "protocols", "addrs", "tcp"} : GetByPath(d, <<f>>) = d.ckb[f]
  <1>1. ASSUME NEW f \in {"listen", "modules", "protocols", "addrs", "tcp"}
        PROVE  GetByPath(d, <<f>>) = d.ckb[f]
    <2>1. <<f>> # <<"miner">> /\ <<f>> # <<"rpc">> /\ Len(<<f>>) # 2 /\ <<f>>[1] = f
      OBVIOUS
    <2> QED
      BY <2>1 DEF GetByPath
  <1> QED
    BY <1>1

(* What is selected at first in a selection dialog. *)
LEMMA SelectedAtFirst ==
  ASSUME NEW d \in Loaded, NEW p \in GetEntriesForDocument(d), ResolveFixedArrayTarget(p)
  PROVE  GetByPath(d, p) \in SUBSET Options
  <1>1. p \in {<<"modules">>, <<"protocols">>}
    BY Listed DEF ResolveFixedArrayTarget, FixedArrays, Keys
  <1>2. GetByPath(d, p) # Missing
    BY DEF GetEntriesForDocument
  <1> QED
    BY <1>1, <1>2, AtPath DEF Loaded, Tomls

LEMMA SetKeepsFields ==
  ASSUME NEW d \in Loaded
  PROVE  /\ \A field \in ValidatedFields, v \in {"ok", "bad"} :
              SetFieldValue(d, field, v) \subseteq Loaded
         /\ \A values \in SUBSET Options, array \in FixedArrays :
              SetArrayValues(d, array, values) \subseteq Loaded
         /\ AppendArrayEntry(d, "q") \subseteq Loaded
         /\ \A i \in Nat : InsertArrayEntry(d, i, "q") \subseteq Loaded
         /\ \A v \in {"ok", "bad"} : AddObjectEntry(d, "listen", v) \subseteq Loaded
         /\ \A v \in {"rpc", "bad"} : AddObjectEntry(d, "miner", v) \subseteq Loaded
         /\ \A v \in {"ok", "odd"} : AddObjectEntry(d, "tcp", v) \subseteq Loaded
         /\ AddBootnode(d) \subseteq Loaded /\ SetNetworkKey(d) \subseteq Loaded
  <1>1. Items(d) \in Seq({"p", "q"})
    BY ItemsAreSeq
  <1>2. \A field \in ValidatedFields, v \in {"ok", "bad"} :
          SetFieldValue(d, field, v) \subseteq Loaded
    BY SetKeeps DEF SetFieldValue, ValidatedFields
  <1>3. \A values \in SUBSET Options, array \in FixedArrays :
          SetArrayValues(d, array, values) \subseteq Loaded
    BY SetKeeps DEF SetArrayValues, FixedArrays
  <1>4. Append(Items(d), "q") \in Seq({"p", "q"})
    BY <1>1
  <1>5. AppendArrayEntry(d, "q") \subseteq Loaded
    BY <1>4, SetKeeps DEF AppendArrayEntry
  <1>6. ASSUME NEW i \in Nat
        PROVE  InsertArrayEntry(d, i, "q") \subseteq Loaded
    <2>1. ASSUME i <= Len(Items(d))
          PROVE  InsertAt(Items(d), i + 1, "q") \in Seq({"p", "q"})
      <3>1. i + 1 \in 1 .. Len(Items(d)) + 1
        BY <1>1, <2>1
      <3> QED
        BY <1>1, <3>1, Inserting
    <2>2. i <= Len(Items(d)) => SetByPath(d, <<"addrs">>, InsertAt(Items(d), i + 1, "q")) \in Loaded
      BY <2>1, SetKeeps
    <2> QED
      BY <1>1, <2>2 DEF InsertArrayEntry
  <1>7. \A v \in {"ok", "bad"} : AddObjectEntry(d, "listen", v) \subseteq Loaded
    BY SetKeeps DEF AddObjectEntry
  <1>8. \A v \in {"rpc", "bad"} : AddObjectEntry(d, "miner", v) \subseteq Loaded
    BY SetKeeps DEF AddObjectEntry
  <1>9. \A v \in {"ok", "odd"} : AddObjectEntry(d, "tcp", v) \subseteq Loaded
    BY SetKeeps DEF AddObjectEntry
  <1>10. AddBootnode(d) \subseteq Loaded /\ SetNetworkKey(d) \subseteq Loaded
    BY SetKeeps DEF AddBootnode, SetNetworkKey
  <1> QED
    BY <1>2, <1>3, <1>5, <1>6, <1>7, <1>8, <1>9, <1>10

(* A move is a removal and an insertion. *)
LEMMA MoveKeeps ==
  ASSUME NEW d \in Loaded, NEW from \in Nat, NEW to \in Nat
  PROVE  MoveArrayEntry(d, from, to) \subseteq Loaded
  <1> DEFINE array == Items(d)
             moved == InsertAt(RemoveAt(array, from + 1), to + 1, array[from + 1])
  <1>1. array \in Seq({"p", "q"})
    BY ItemsAreSeq
  <1>2. ASSUME from < Len(array), to < Len(array)
        PROVE  moved \in Seq({"p", "q"})
    <2>1. from + 1 \in 1 .. Len(array) /\ array[from + 1] \in {"p", "q"}
      BY <1>1, <1>2
    <2>2. /\ RemoveAt(array, from + 1) \in Seq({"p", "q"})
          /\ Len(RemoveAt(array, from + 1)) = Len(array) - 1
      BY <1>1, <2>1, Deleting
    <2>3. to + 1 \in 1 .. Len(RemoveAt(array, from + 1)) + 1
      BY <1>1, <1>2, <2>2
    <2> QED
      BY <2>1, <2>2, <2>3, Inserting
  <1>3. from < Len(array) /\ to < Len(array) => SetByPath(d, <<"addrs">>, moved) \in Loaded
    BY <1>2, SetKeeps
  <1> QED
    BY <1>1, <1>3 DEF MoveArrayEntry

LEMMA ValueKeeps ==
  ASSUME NEW d \in Loaded, NEW p \in GetEntriesForDocument(d),
         p[1] \in ValidatedFields \cup {"tcp", "isolated"} \/ Len(p) = 2, NEW v \in {"ok", "bad"}
  PROVE  SetDocumentValue(d, p, v) \subseteq Loaded
  <1>1. CASE p \in {<<"listen">>, <<"miner">>}
    BY <1>1, SetKeepsFields DEF SetDocumentValue, ValidatedFields
  <1>2. ASSUME d.ckb.addrs # Missing, NEW i \in 1 .. Len(d.ckb.addrs), p = <<"addrs", i>>
        PROVE  SetDocumentValue(d, p, v) \subseteq Loaded
    <2>1. SetByPath(d, p, "q") \in Loaded
      BY <1>2, ItemKeeps
    <2>2. /\ p[1] \notin ValidatedFields /\ p # <<"isolated">> /\ p # <<"tcp">>
          /\ Len(p) = 2
      BY <1>2 DEF ValidatedFields
    <2> QED
      BY <2>1, <2>2 DEF SetDocumentValue
  <1>3. CASE p = <<"isolated">>
    BY <1>3, SetKeepsFields DEF SetDocumentValue, ValidatedFields
  <1>4. CASE p = <<"tcp">>
    <2>1. p[1] \notin ValidatedFields /\ p # <<"isolated">>
      BY <1>4 DEF ValidatedFields
    <2> QED
      BY <1>4, <2>1 DEF SetDocumentValue
  <1> QED
    BY <1>1, <1>2, <1>3, <1>4, Listed DEF ValidatedFields, Keys

LEMMA DeleteKeeps ==
  ASSUME NEW d \in Loaded, NEW p \in GetEntriesForDocument(d)
  PROVE  DeleteDocumentPath(d, p) \subseteq Loaded
  <1>1. CASE p = <<"rpc">>
    <2>1. DeleteDocumentPath(d, p) =
            {[d EXCEPT !.ckb.listen = Missing, !.ckb.modules = Missing, !.ckb.tcp = Missing]}
      BY <1>1 DEF DeleteDocumentPath
    <2>2. [d EXCEPT !.ckb.listen = Missing] \in Loaded
      BY DEF Loaded, Tomls
    <2>3. [d EXCEPT !.ckb.listen = Missing, !.ckb.modules = Missing] \in Loaded
      BY <2>2 DEF Loaded, Tomls
    <2>4. [d EXCEPT !.ckb.listen = Missing, !.ckb.modules = Missing, !.ckb.tcp = Missing] \in Loaded
      BY <2>3 DEF Loaded, Tomls
    <2> QED
      BY <2>1, <2>4
  <1>2. CASE p \in Keys \ {<<"rpc">>, <<"isolated">>}
    <2>1. p # <<"rpc">> /\ p # <<"isolated">> /\ Len(p) # 2
      BY <1>2 DEF Keys
    <2>2. DeleteDocumentPath(d, p) = {SetByPath(d, p, Missing)}
      BY <2>1 DEF DeleteDocumentPath
    <2> QED
      BY <1>2, <2>2, SetKeeps DEF Keys
  <1>4. CASE p = <<"isolated">>
    <2>1. p # <<"rpc">>
      BY <1>4
    <2> QED
      BY <1>4, <2>1, SetKeepsFields DEF DeleteDocumentPath
  <1>3. ASSUME d.ckb.addrs # Missing, NEW i \in 1 .. Len(d.ckb.addrs), p = <<"addrs", i>>
        PROVE  DeleteDocumentPath(d, p) \subseteq Loaded
    <2>1. p # <<"rpc">> /\ p # <<"isolated">> /\ Len(p) = 2 /\ p[2] = i
      BY <1>3
    <2>2. DeleteDocumentPath(d, p) = {SetByPath(d, <<"addrs">>, RemoveAt(Items(d), p[2]))}
      BY <2>1 DEF DeleteDocumentPath
    <2>3. RemoveAt(Items(d), i) \in Seq({"p", "q"})
      BY <1>3, ItemsAreSeq, Deleting DEF Items
    <2> QED
      BY <2>1, <2>2, <2>3, SetKeeps
  <1> QED
    BY <1>1, <1>2, <1>3, <1>4, Listed

-----------------------------------------------------------------------------
(* The steps of the editor.  First, leaving it. *)
LEMMA Left ==
  ASSUME Session, NEW left \in {"clean", "discarded", "refused", "saved", "threw"}, Leaves(left),
         left = "clean" => docs = loaded
  PROVE  Session'
  <1>1. <<>> \in Entries
    BY DEF Entries
  <1> QED
    BY <1>1 DEF Session, TuiTyped, Editing, EditsTracked, Leaves, Closed

(* A dialog that is answered. *)
LEMMA Answered ==
  ASSUME Session, tui.dialog # "none", NEW results \in SUBSET Loaded, Answers(results)
  PROVE  Session'
  <1>1. <<>> \in Entries
    BY DEF Entries
  <1>2. tui.pc = "open" /\ docs \in Loaded /\ loaded \in Loaded
    BY DEF Session, Editing, TuiTyped
  <1>3. docs' \in Loaded
    BY <1>2 DEF Answers
  <1>4. docs' # docs => results # {}
    BY DEF Answers
  <1> QED
    BY <1>1, <1>2, <1>3, <1>4
    DEF Session, TuiTyped, Editing, EditsTracked, Answers

(* What the kind of a dialog requires of its entry. *)
FitsEntry(kind, entry) ==
  /\ kind # "quit" => entry \in GetEntriesForDocument(docs)
  /\ kind = "select" => ResolveFixedArrayTarget(entry)
  /\ kind = "edit" => entry[1] \in ValidatedFields \cup {"tcp", "isolated"} \/ Len(entry) = 2
  /\ kind \in {"insert", "move"} => ResolveArrayTarget(entry)

LEMMA Opened ==
  ASSUME Session, NEW entry \in Entries, NEW selected \in SUBSET Options,
         NEW kind \in {"select", "edit", "add", "insert", "move", "delete", "quit"},
         FitsEntry(kind, entry), Opens(kind, entry, selected)
  PROVE  Session'
  <1>1. /\ tui.pc = "open"
        /\ UNCHANGED <<docs, loaded>>
    BY DEF Opens, Unlocked
  <1>2. PICK n \in Nat : tui' = [tui EXCEPT !.dialog = kind, !.entry = entry,
                                          !.selected = selected, !.edits = n]
    <2>1. tui.edits + (IF kind = "quit" THEN 0 ELSE 1) \in Nat
      BY DEF Session, TuiTyped
    <2> QED
      BY <2>1 DEF Opens
  <1>3. TuiTyped'
    BY <1>1, <1>2 DEF Session, TuiTyped
  <1>4. /\ tui'.dialog = kind /\ tui'.entry = entry /\ tui'.pc = "open"
        /\ tui'.dirty = tui.dirty /\ tui'.left = tui.left /\ tui'.unsaved = tui.unsaved
    BY <1>1, <1>2 DEF Session, TuiTyped
  <1>5. Editing'
    BY <1>1, <1>4 DEF Session, Editing, EditsTracked, FitsEntry
  <1> QED
    BY <1>1, <1>3, <1>4, <1>5 DEF Session

(* A key that opens a dialog. *)
LEMMA DialogOpened ==
  ASSUME Session, NEW kind \in {"edit", "add", "insert", "move", "delete"}, GuardedKey(kind)
  PROVE  Session'
  <1>1. Unlocked /\ docs \in Loaded
    BY DEF Session, TuiTyped, GuardedKey, Unlocked
  <1>2. PICK entry \in GetEntriesForDocument(docs) :
          \/ /\ ResolveFixedArrayTarget(entry)
             /\ Opens("select", entry, GetByPath(docs, entry))
          \/ /\ ~ResolveFixedArrayTarget(entry) /\ HasDialog(kind, entry)
             /\ Opens(kind, entry, {})
    BY DEF GuardedKey
  <1>3. entry \in Entries
    BY <1>1, Listed
  <1>4. CASE ResolveFixedArrayTarget(entry) /\ Opens("select", entry, GetByPath(docs, entry))
    <2>1. GetByPath(docs, entry) \in SUBSET Options
      BY <1>1, <1>4, SelectedAtFirst
    <2> QED
      BY <1>3, <1>4, <2>1, Opened DEF FitsEntry
  <1>5. CASE HasDialog(kind, entry) /\ Opens(kind, entry, {})
    BY <1>3, <1>5, Opened DEF FitsEntry, HasDialog, ResolveArrayTarget
  <1> QED
    BY <1>2, <1>4, <1>5

LEMMA Selecting ==
  ASSUME Session, tui.dialog = "select", NEW values \in SUBSET Options, Selects(values)
  PROVE  Session'
  BY DEF Session, TuiTyped, Editing, EditsTracked, Selects

LEMMA OptionsListed ==
  ASSUME Session, tui.dialog = "select"
  PROVE  OptionList \subseteq Options
  <1>1. docs \in Loaded /\ tui.entry \in GetEntriesForDocument(docs) /\ ResolveFixedArrayTarget(tui.entry)
    BY DEF Session, Editing, TuiTyped
  <1>2. GetByPath(docs, tui.entry) \subseteq Options
    BY <1>1, SelectedAtFirst
  <1> QED
    BY <1>2 DEF OptionList, KnownOptions, Options, Session, TuiTyped

LEMMA EditorSteps ==
  ASSUME Session, dir \in Dirs, TuiNext
  PROVE  Session'
  <1> USE DEF Session
  <1>1. CASE OpenEditor
    <2>1. dir.ckb \in Tomls /\ dir.miner \in MinerUrls /\ docs' = [ckb |-> Parsed(dir.ckb), miner |-> dir.miner]
      BY <1>1 DEF OpenEditor, CreateDevnetConfigEditor, FilesPresent, SupportedLayout, Docs, Dirs, CkbFiles
    <2>5. Parsed(dir.ckb) \in Tomls
      BY <2>1 DEF Parsed, Tomls, Layouts
    <2>2. <<>> \in Entries
      BY DEF Entries
    <2>3. docs' \in Loaded /\ loaded' = docs'
      BY <1>1, <2>1, <2>5 DEF OpenEditor, Loaded
    <2>4. tui' = [pc |-> "open", dialog |-> "none", entry |-> <<>>, selected |-> {}, dirty |-> FALSE,
                  edits |-> 0, left |-> "no", unsaved |-> FALSE, opened |-> tui.opened + 1]
      BY <1>1 DEF OpenEditor, Closed
    <2> QED
      BY <2>2, <2>3, <2>4 DEF TuiTyped, Editing, EditsTracked
  <1>2. CASE ApplySetItems
    <2>1. PICK listen \in {"ok", "bad"}, url \in {"ok", "bad"} :
            LET results == {new \in UNION {SetFieldValue(d, "miner", url) :
                                            d \in SetFieldValue(docs, "listen", listen)} :
                              ValidateBeforeSave(new)}
            IN IF results = {} THEN Leaves("refused")
               ELSE /\ docs' \in results
                    /\ tui' = [tui EXCEPT !.pc = "write"]
                    /\ UNCHANGED loaded
      BY <1>2 DEF ApplySetItems
    <2> DEFINE results == {new \in UNION {SetFieldValue(d, "miner", url) :
                                           d \in SetFieldValue(docs, "listen", listen)} :
                             ValidateBeforeSave(new)}
    <2>2. CASE results = {}
      BY <2>1, <2>2, Left
    <2>3. CASE results # {}
      <3>1. tui.pc = "open" /\ tui.dialog = "none" /\ docs \in Loaded
        BY <1>2 DEF ApplySetItems, Unlocked, TuiTyped
      <3>2. SetFieldValue(docs, "listen", listen) \subseteq Loaded
        BY <3>1, SetKeepsFields DEF ValidatedFields
      <3>3. \A d \in Loaded : SetFieldValue(d, "miner", url) \subseteq Loaded
        BY SetKeepsFields DEF ValidatedFields
      <3>4. docs' \in Loaded /\ tui' = [tui EXCEPT !.pc = "write"] /\ UNCHANGED loaded
        BY <2>1, <2>3, <3>2, <3>3
      <3> QED
        BY <3>1, <3>4 DEF TuiTyped, Editing, EditsTracked
    <2> QED
      BY <2>2, <2>3
  <1>3. CASE \E kind \in {"edit", "add", "insert", "move", "delete"} : GuardedKey(kind)
    BY <1>3, DialogOpened
  <1>4. CASE CancelDialog
    <2>1. <<>> \in Entries
      BY DEF Entries
    <2> QED
      BY <1>4, <2>1 DEF CancelDialog, TuiTyped, Editing, EditsTracked
  <1>5. CASE ToggleSelectedOption
    <2>1. tui.selected \subseteq Options
      BY DEF TuiTyped
    <2> QED
      BY <1>5, <2>1, OptionsListed, Selecting DEF ToggleSelectedOption
  <1>6. CASE SelectAllOrNone
    BY <1>6, OptionsListed, Selecting DEF SelectAllOrNone
  <1>7. CASE AddCustomValue
    <2>1. tui.selected \subseteq Options
      BY DEF TuiTyped
    <2> QED
      BY <1>7, <2>1, Selecting DEF AddCustomValue, Options
  <1>8. ASSUME tui.dialog # "none"
        PROVE  docs \in Loaded
    BY <1>8 DEF TuiTyped, Editing
  <1>9. CASE EditFixedArraySelection
    <2>1. tui.entry[1] \in FixedArrays /\ tui.selected \in SUBSET Options
      BY <1>9 DEF EditFixedArraySelection, Editing, ResolveFixedArrayTarget, TuiTyped
    <2>2. SetArrayValues(docs, tui.entry[1], tui.selected) \subseteq Loaded
      BY <1>8, <1>9, <2>1, SetKeepsFields DEF EditFixedArraySelection
    <2> QED
      BY <1>9, <2>2, Answered DEF EditFixedArraySelection
  <1>10. CASE EditCurrentEntry
    <2>1. PICK value \in {"ok", "bad"} : Answers(SetDocumentValue(docs, tui.entry, value))
      BY <1>10 DEF EditCurrentEntry
    <2>2. SetDocumentValue(docs, tui.entry, value) \subseteq Loaded
      BY <1>8, <1>10, ValueKeeps DEF EditCurrentEntry, Editing
    <2> QED
      BY <1>10, <2>1, <2>2, Answered DEF EditCurrentEntry
  <1>11. CASE AddEntry
    <2>1. AppendArrayEntry(docs, "q") \subseteq Loaded /\ AddBootnode(docs) \subseteq Loaded
      BY <1>8, <1>11, SetKeepsFields DEF AddEntry
    <2>2. \A field \in ValidatedFields \cup {"tcp"}, value \in {"ok", "bad"} :
            AddObjectEntry(docs, field, Entered(field, value)) \subseteq Loaded
      BY <1>8, <1>11, SetKeepsFields DEF AddEntry, ValidatedFields, Entered
    <2> QED
      BY <1>11, <2>1, <2>2, Answered DEF AddEntry
  <1>12. CASE InsertIntoArray
    <2>1. AddBootnode(docs) \subseteq Loaded
      BY <1>8, <1>12, SetKeepsFields DEF InsertIntoArray
    <2>2. \A index \in 0 .. MaxItems : InsertArrayEntry(docs, index, "q") \subseteq Loaded
      BY <1>8, <1>12, SetKeepsFields DEF InsertIntoArray
    <2> QED
      BY <1>12, <2>1, <2>2, Answered DEF InsertIntoArray
  <1>13. CASE MoveInArray
    <2>1. {docs} \subseteq Loaded
      BY <1>8, <1>13 DEF MoveInArray
    <2>2. \A from, to \in 0 .. MaxItems : MoveArrayEntry(docs, from, to) \subseteq Loaded
      BY <1>8, <1>13, MoveKeeps DEF MoveInArray
    <2> QED
      BY <1>13, <2>1, <2>2, Answered DEF MoveInArray
  <1>14. CASE DeleteEntry
    <2>1. DeleteDocumentPath(docs, tui.entry) \subseteq Loaded
      BY <1>8, <1>14, DeleteKeeps DEF DeleteEntry, Editing
    <2> QED
      BY <1>14, <2>1, Answered DEF DeleteEntry
  <1>15. CASE QuitFlow
    <2>1. CASE Opens("quit", <<>>, {})
      BY <2>1, Opened DEF FitsEntry, Entries
    <2>2. CASE Unlocked /\ ~tui.dirty /\ Leaves("clean")
      BY <2>2, Left DEF Unlocked, Editing, EditsTracked
    <2> QED
      BY <1>15, <2>1, <2>2 DEF QuitFlow
  <1>16. CASE ConfirmDiscard
    BY <1>16, Left DEF ConfirmDiscard
  <1>17. CASE SaveAndExit
    <2>1. CASE Leaves("threw")
      BY <2>1, Left
    <2>2. CASE Unlocked /\ tui' = [tui EXCEPT !.pc = "write"] /\ UNCHANGED <<docs, loaded>>
      BY <2>2 DEF Unlocked, TuiTyped, Editing, EditsTracked
    <2> QED
      BY <1>17, <2>1, <2>2 DEF SaveAndExit
  <1>18. CASE WriteCkbToml
    <2>1. CASE Leaves("threw")
      BY <2>1, Left
    <2>2. CASE tui.pc = "write" /\ tui' = [tui EXCEPT !.pc = "writeMiner"] /\ UNCHANGED <<docs, loaded>>
      BY <2>2 DEF TuiTyped, Editing, EditsTracked
    <2> QED
      BY <1>18, <2>1, <2>2 DEF WriteCkbToml
  <1>19. CASE WriteMinerToml
    BY <1>19, Left DEF WriteMinerToml
  <1>20. CASE TuiCrashes
    BY <1>20, Left DEF TuiCrashes
  <1> QED
    BY <1>1, <1>2, <1>3, <1>4, <1>5, <1>6, <1>7, <1>9, <1>10, <1>11, <1>12, <1>13, <1>14,
       <1>15, <1>16, <1>17, <1>18, <1>19, <1>20
    DEF TuiNext

-----------------------------------------------------------------------------
(* Types. *)
Typed == dir \in Dirs /\ gaps \subseteq Gaps /\ BootTyped /\ ForkTyped

LEMMA TemplatesTyped ==
  /\ Bundled \in Tomls /\ Legacy \in Tomls /\ IsolateForkCkbConfig(Bundled) \in Tomls
  /\ NoFork \in ForkStates /\ Absent \in Dirs
  <1>1. Bundled \in Tomls /\ Legacy \in Tomls
    <2>1. <<"p">> \in Seq({"p", "q"})
      OBVIOUS
    <2> QED
      BY <2>1 DEF Bundled, Legacy, Tomls, Options, Layouts
  <1>2. IsolateForkCkbConfig(Bundled) \in Tomls
    BY <1>1 DEF IsolateForkCkbConfig, Tomls
  <1>3. NoFork \in ForkStates
    BY DEF ForkStates
  <1>4. Absent \in Dirs
    BY <1>3, TipAssumption DEF Absent, Dirs, CkbFiles
  <1> QED
    BY <1>1, <1>2, <1>3, <1>4

LEMMA ForkFields ==
  ASSUME NEW state \in ForkStates
  PROVE  /\ state.pending \in BOOLEAN /\ state.boundary \in 0 .. MaxTip
         /\ state # NoFork <=> state.source \in ForkSources
         /\ state.pending => state # NoFork
  <1>1. CASE state = NoFork
    BY <1>1, TipAssumption DEF NoFork, ForkState, ForkSources
  <1>2. CASE state \in [source : ForkSources, pending : BOOLEAN, boundary : 0 .. MaxTip]
    BY <1>2, TipAssumption DEF NoFork, ForkState, ForkSources
  <1> QED
    BY <1>1, <1>2 DEF ForkStates

LEMMA MigrationTyped ==
  ASSUME NEW toml \in CkbFiles, NEW version
  PROVE  /\ RemoveTerminalRpcModule(toml) \in CkbFiles
         /\ MigrateLegacyDevnetRpcConfig(toml, version) \in CkbFiles
  <1>1. RemoveTerminalRpcModule(toml) \in CkbFiles
    <2>1. CASE DevnetConfigHasTerminalRpc(toml)
      <3>1. toml \in Tomls /\ toml.modules \in SUBSET Options
        BY <2>1 DEF DevnetConfigHasTerminalRpc, CkbFiles, IsToml, Tomls
      <3> QED
        BY <2>1, <3>1 DEF RemoveTerminalRpcModule, CkbFiles, Tomls
    <2> QED
      BY <2>1 DEF RemoveTerminalRpcModule
  <1>2. ASSUME toml \in Tomls, toml.modules # Missing
        PROVE  AddTerminalModule(toml) \in {Broken} \cup Tomls
    BY <1>2 DEF AddTerminalModule, Tomls, Options
  <1>3. ASSUME NEW file \in {Broken} \cup Tomls
        PROVE  EnableTcpListenAddress(file) \in {Broken} \cup Tomls
    BY <1>3, MarkerAssumption DEF EnableTcpListenAddress, Tomls
  <1> QED
    BY <1>1, <1>2, <1>3 DEF MigrateLegacyDevnetRpcConfig, CkbFiles, IsToml

LEMMA ForkTypedStep ==
  ASSUME Typed, ForkSteps \/ SignSteps
  PROVE  Typed'
  <1> USE TipAssumption DEF Typed
  <1>1. CASE ForkPreflights
    BY <1>1 DEF ForkPreflights, BootTyped, ForkTyped, IdleFork, ForkSources, bootVars
  <1>2. CASE ForkRefuses
    BY <1>2 DEF ForkRefuses, BootTyped, ForkTyped, IdleFork, bootVars
  <1>3. CASE ForkChecks
    <2>1. fork' \in [pc : {"idle", "guard"} \cup Replacing, source : {"none"} \cup ForkSources,
                     needsMigration : BOOLEAN, migrate : BOOLEAN, force : BOOLEAN, started : Nat]
      BY <1>3 DEF ForkChecks, ForkTyped, Replacing
    <2> QED
      BY <1>3, <2>1 DEF ForkChecks, BootTyped, ForkTyped, Noted, Gaps, bootVars
  <1>4. CASE ForkRemoves
    BY <1>4, TemplatesTyped
    DEF ForkRemoves, DirIsRemoved, BootTyped, ForkTyped, Forking, Replacing, Noted, OutOfDate, Gaps
  <1>5. CASE CopyBegins
    <2>1. dir' \in Dirs
      BY <1>5 DEF CopyBegins, Dirs
    <2> QED
      BY <1>5, <2>1 DEF CopyBegins, BootTyped, ForkTyped, bootVars, forkVars
  <1>6. CASE CopyEnds
    <2>1. dir' \in Dirs
      <3>1. PICK tip \in 1 .. 2 :
              dir' = [dir EXCEPT !.data = IF @ = "partial" THEN "copied" ELSE @,
                                 !.stored = "source", !.copied = tip, !.tip = tip,
                                 !.format = IF fork.needsMigration THEN "old" ELSE "new"]
        BY <1>6 DEF CopyEnds
      <3>2. tip \in 0 .. MaxTip
        OBVIOUS
      <3> QED
        BY <3>1, <3>2 DEF Dirs
    <2> QED
      BY <1>6, <2>1 DEF CopyEnds, BootTyped, ForkTyped, Forking, Replacing, bootVars
  <1>7. CASE RunCkbInit
    <2>1. dir' \in Dirs
      BY <1>7, TemplatesTyped DEF RunCkbInit, Dirs, CkbFiles, MinerUrls
    <2> QED
      BY <1>7, <2>1 DEF RunCkbInit, BootTyped, ForkTyped, Forking, Replacing, bootVars
  <1>8. CASE PatchesSpec
    BY <1>8 DEF PatchesSpec, BootTyped, ForkTyped, Forking, Replacing, Dirs, bootVars
  <1>9. CASE Aligns
    <2>1. dir' \in Dirs
      BY <1>9, TemplatesTyped DEF Aligns, AlignConfigsWithOffckb, Dirs, CkbFiles, MinerUrls
    <2> QED
      BY <1>9, <2>1 DEF Aligns, BootTyped, ForkTyped, Forking, Replacing, bootVars
  <1>10. CASE MigrateDatabaseCopy
    BY <1>10 DEF MigrateDatabaseCopy, BootTyped, ForkTyped, Forking, Replacing, Dirs, bootVars
  <1>11. CASE ForkRecords
    <2>1. ForkState(fork.source, TRUE, 0) \in ForkStates
      BY <1>11 DEF ForkRecords, ForkState, ForkStates, ForkTyped, Replacing
    <2>2. dir' \in Dirs
      BY <1>11, <2>1 DEF ForkRecords, WriteForkState, Dirs
    <2>3. gaps' \subseteq Gaps
      BY <1>11 DEF ForkRecords, Noted, OutOfDate, Gaps
    <2>4. ForkTyped'
      BY <1>11 DEF ForkRecords, ForkTyped, IdleFork
    <2>5. BootTyped'
      BY <1>11 DEF ForkRecords, BootTyped, bootVars
    <2> QED
      BY <2>2, <2>3, <2>4, <2>5
  <1>12. CASE ForkRollsBack
    BY <1>12, TemplatesTyped DEF ForkRollsBack, DirIsRemoved, BootTyped, ForkTyped, IdleFork
  <1>13. CASE ForkCrashes
    <2>1. dir' \in Dirs
      BY <1>13, TemplatesTyped DEF ForkCrashes, Dirs, CkbFiles
    <2> QED
      BY <1>13, <2>1 DEF ForkCrashes, BootTyped, ForkTyped, IdleFork, Noted, Gaps, bootVars
  <1>14. CASE ValidateMainnetForkSigning
    <2>1. dir.fork.boundary \in 0 .. MaxTip
      BY ForkFields DEF Dirs
    <2> QED
      BY <1>14, <2>1 DEF ValidateMainnetForkSigning, BootTyped, ForkTyped, NoCheck, bootVars
  <1>15. CASE SendTransaction
    <2>1. spent' \in BOOLEAN
      BY <1>15 DEF SendTransaction, ForkTyped
    <2> QED
      BY <1>15, <2>1 DEF SendTransaction, BootTyped, ForkTyped, IdleSign, NoCheck, bootVars
  <1>16. CASE SignGivesUp
    BY <1>16 DEF SignGivesUp, BootTyped, ForkTyped, IdleSign, NoCheck, bootVars
  <1> QED
    BY <1>1, <1>2, <1>3, <1>4, <1>5, <1>6, <1>7, <1>8, <1>9, <1>10, <1>11, <1>12, <1>13,
       <1>14, <1>15, <1>16
    DEF ForkSteps, SignSteps

LEMMA BootTypedStep ==
  ASSUME Typed, BootNext(UnseenByBoot) \/ OtherNext, UNCHANGED forkVars
  PROVE  Typed'
  <1> USE TipAssumption DEF Typed
  <1>1. ForkTyped'
    BY DEF ForkTyped, forkVars
  <1>2. CASE InitReads(UnseenByBoot)
    <2>1. dir' \in Dirs
      BY <1>2 DEF InitReads, Dirs
    <2>2. boot' \in [pc : {"idle", "copy", "adapt", "rewrite", "spawn", "wait", "clear", "tip", "mine", "up"},
               version : Versions \cup {"new"}, had : CkbFiles, minerWas : BOOLEAN,
               flags : BOOLEAN, left : SUBSET RequiredConfigFiles, text : CkbFiles, started : Nat]
      <3>1. dir.ckb \in CkbFiles /\ Missing \in CkbFiles /\ boot.started + 1 \in Nat
        BY DEF Dirs, BootTyped, CkbFiles
      <3>2. PICK v \in Versions :
              boot' = [pc |-> IF IsInitialized THEN "adapt" ELSE "copy", version |-> v,
                had |-> dir.ckb, minerWas |-> dir.miner = Missing,
                flags |-> FALSE, left |-> IF IsInitialized THEN {} ELSE RequiredConfigFiles,
                text |-> Missing, started |-> boot.started + 1]
        BY <1>2 DEF InitReads
      <3> QED
        BY <3>1, <3>2
    <2> QED
      BY <1>1, <1>2, <2>1, <2>2 DEF InitReads, UnseenByBoot, BootTyped, Noted, Gaps
  <1>3. CASE InitCopies
    <2>1. PICK f \in boot.left :
            /\ dir' = [dir EXCEPT !.exists = TRUE, ![f] = IF @ = Missing THEN Template[f] ELSE @]
            /\ boot' = [boot EXCEPT !.left = @ \ {f}]
      BY <1>3 DEF InitCopies
    <2>2. f \in {"ckb", "miner", "spec"}
      BY <2>1 DEF BootTyped, RequiredConfigFiles, Template
    <2>3. ASSUME f = "ckb"
          PROVE  dir' \in Dirs
      BY <2>1, <2>3, TemplatesTyped DEF Template, Dirs, CkbFiles
    <2>4. ASSUME f = "miner"
          PROVE  dir' \in Dirs
      BY <2>1, <2>4 DEF Template, Dirs, MinerUrls
    <2>5. ASSUME f = "spec"
          PROVE  dir' \in Dirs
      BY <2>1, <2>5 DEF Template, Dirs
    <2>6. dir' \in Dirs
      BY <2>2, <2>3, <2>4, <2>5
    <2> QED
      BY <1>1, <1>3, <2>1, <2>6 DEF InitCopies, BootTyped
  <1>4. CASE InitRewrites
    BY <1>1, <1>4 DEF InitRewrites, BootTyped, Dirs, MinerUrls
  <1>5. CASE InitAdapts
    <2>1. ASSUME NEW toml \in CkbFiles, Rewrites(toml)
          PROVE  boot' \in [pc : {"idle", "copy", "adapt", "rewrite", "spawn", "wait", "clear", "tip", "mine", "up"},
               version : Versions \cup {"new"}, had : CkbFiles, minerWas : BOOLEAN,
               flags : BOOLEAN, left : SUBSET RequiredConfigFiles, text : CkbFiles, started : Nat]
      BY <2>1 DEF Rewrites, BootTyped
    <2>2. dir.ckb \in CkbFiles
      BY DEF Dirs
    <2>3. \A version : MigrateLegacyDevnetRpcConfig(dir.ckb, version) \in CkbFiles
      BY <2>2, MigrationTyped
    <2>4. \A version : MigrateLegacyDevnetRpcConfig(RemoveTerminalRpcModule(dir.ckb), version) \in CkbFiles
      BY <2>2, MigrationTyped
    <2> QED
      BY <1>1, <1>5, <2>1, <2>3, <2>4 DEF InitAdapts, BootTyped, Noted, Gaps
  <1>6. CASE InitWrites
    <2>1. dir' \in Dirs
      BY <1>6 DEF InitWrites, BootTyped, Dirs
    <2> QED
      BY <1>1, <1>6, <2>1 DEF InitWrites, BootTyped, CkbFiles
  <1>7. CASE boot' = IdleBoot(boot.started) /\ ckb' \in {ckb, NoCkb} /\ UNCHANGED <<dir, gaps, other>>
    <2>1. boot' \in [pc : {"idle", "copy", "adapt", "rewrite", "spawn", "wait", "clear", "tip", "mine", "up"},
               version : Versions \cup {"new"}, had : CkbFiles, minerWas : BOOLEAN,
               flags : BOOLEAN, left : SUBSET RequiredConfigFiles, text : CkbFiles, started : Nat]
      BY <1>7 DEF IdleBoot, BootTyped, CkbFiles
    <2>2. ckb' \in [proc : {"none", "starting", "up"}, mining : BOOLEAN, db : {"dir", "gone"}]
      <3>1. NoCkb \in [proc : {"none", "starting", "up"}, mining : BOOLEAN, db : {"dir", "gone"}]
        BY DEF NoCkb
      <3> QED
        BY <1>7, <3>1 DEF BootTyped
    <2> QED
      BY <1>1, <1>7, <2>1, <2>2 DEF BootTyped
  <1>8. CASE BootSpawns
    <2>1. dir.fork.pending \in BOOLEAN
      BY ForkFields DEF Dirs
    <2> QED
      BY <1>1, <1>8, <2>1 DEF BootSpawns, BootTyped, NoCkb
  <1>9. CASE BootIsReady
    BY <1>1, <1>9 DEF BootIsReady, At, BootTyped
  <1>11. CASE ClearSeesGenesis
    BY <1>1, <1>11 DEF ClearSeesGenesis, At, BootTyped
  <1>12. CASE ClearReadsTip
    <2>1. ASSUME NEW tip \in 0 .. MaxTip
          PROVE  MarkForkFirstRunComplete(dir, tip) \in Dirs
      <3>1. dir.fork.pending => ForkState(dir.fork.source, FALSE, tip) \in ForkStates
        BY ForkFields DEF ForkState, ForkStates, Dirs
      <3> QED
        BY <3>1 DEF MarkForkFirstRunComplete, WriteForkState, Dirs
    <2>2. dir.tip \in 0 .. MaxTip
      BY DEF Dirs
    <2>3. dir' \in Dirs
      BY <1>12, <2>1, <2>2 DEF ClearReadsTip
    <2> QED
      BY <1>1, <1>12, <2>3 DEF ClearReadsTip, At, BootTyped, Noted, Gaps
  <1>13. CASE ClearGivesUp
    BY <1>1, <1>13 DEF ClearGivesUp, At, BootTyped
  <1>14. CASE BootMines
    BY <1>1, <1>14 DEF BootMines, At, BootTyped
  <1>16. CASE BootCrashes
    <2>1. dir' \in Dirs
      BY <1>16 DEF BootCrashes, BeingWritten, RequiredConfigFiles, Template, Dirs, CkbFiles
    <2> QED
      BY <1>1, <1>16, <2>1 DEF BootCrashes, IdleBoot, NoCkb, BootTyped, CkbFiles, Noted, Gaps
  <1>17. CASE CkbOpens
    <2>1. dir' \in Dirs
      BY <1>17 DEF CkbOpens, Dirs
    <2> QED
      BY <1>1, <1>17, <2>1 DEF CkbOpens, BootTyped
  <1>18. CASE CkbExits
    BY <1>1, <1>18 DEF CkbExits, NoCkb, BootTyped
  <1>19. CASE Mine
    BY <1>1, <1>19 DEF Mine, Dirs, BootTyped, bootVars
  <1>20. CASE OtherNext
    <2>1. other' \in {"none", "same", "different"} /\ UNCHANGED <<dir, gaps, boot, ckb>>
      BY <1>20 DEF OtherNext, OtherStarts, OtherStops
    <2> QED
      BY <1>1, <2>1 DEF BootTyped
  <1>21. CASE InitFails \/ BootRefuses \/ BootFails \/ BootStops
    BY <1>7, <1>21 DEF InitFails, BootRefuses, BootFails, BootStops
  <1> QED
    BY <1>2, <1>3, <1>4, <1>5, <1>6, <1>8, <1>9, <1>11, <1>12, <1>13,
       <1>14, <1>16, <1>17, <1>18, <1>19, <1>20, <1>21
    DEF BootNext

-----------------------------------------------------------------------------
(* The editor writes two files, each in one step. *)
SavesCkb ==
  /\ dir.exists /\ tui.pc = "write" /\ docs.ckb \in Tomls
  /\ dir' = [dir EXCEPT !.ckb = docs.ckb] /\ gaps' = gaps \cup OutdatedFiles \cup ChangedPeers
SavesMiner ==
  /\ dir.exists /\ tui.pc = "writeMiner" /\ docs.miner \in {Missing} \cup MinerUrls
  /\ dir' = [dir EXCEPT !.miner = docs.miner] /\ gaps \subseteq gaps'
  /\ gaps' \subseteq gaps \cup {"stale"}
SavesNothing == UNCHANGED dir /\ gaps \subseteq gaps' /\ gaps' \subseteq gaps \cup {"crash", "stale"}
Saves == SavesCkb \/ SavesMiner \/ SavesNothing
(* Whatever else the editor does leaves the files alone. *)
LEMMA Saving ==
  ASSUME TuiTyped, TuiNext
  PROVE  Saves
  <1>1. CASE WriteCkbToml
    BY <1>1 DEF WriteCkbToml, TuiTyped, Loaded, Saves, SavesCkb, SavesNothing, Noted
  <1>2. CASE WriteMinerToml
    BY <1>2 DEF WriteMinerToml, TuiTyped, Loaded, Saves, SavesMiner, SavesNothing, Noted
  <1>3. CASE TuiCrashes
    BY <1>3 DEF TuiCrashes, Saves, SavesNothing, Noted
  <1>4. CASE UNCHANGED <<dir, gaps>>
    BY <1>4 DEF Saves, SavesNothing
  <1>5. CASE OpenEditor \/ ApplySetItems \/ CancelDialog \/ QuitFlow \/ ConfirmDiscard \/ SaveAndExit
    BY <1>4, <1>5
    DEF OpenEditor, ApplySetItems, CancelDialog, QuitFlow, ConfirmDiscard, SaveAndExit, Opens
  <1>6. CASE \E kind \in {"edit", "add", "insert", "move", "delete"} : GuardedKey(kind)
    BY <1>4, <1>6 DEF GuardedKey, Opens
  <1>7. CASE ToggleSelectedOption \/ SelectAllOrNone \/ AddCustomValue
    BY <1>4, <1>7 DEF ToggleSelectedOption, SelectAllOrNone, AddCustomValue, Selects
  <1>8. CASE EditFixedArraySelection \/ EditCurrentEntry \/ AddEntry
    BY <1>4, <1>8 DEF EditFixedArraySelection, EditCurrentEntry, AddEntry, Answers
  <1>9. CASE InsertIntoArray \/ MoveInArray \/ DeleteEntry
    BY <1>4, <1>9 DEF InsertIntoArray, MoveInArray, DeleteEntry, Answers
  <1> QED
    BY <1>1, <1>2, <1>3, <1>5, <1>6, <1>7, <1>8, <1>9 DEF TuiNext

LEMMA NextTyped ==
  ASSUME TypeOK, Editing, [Next]_vars
  PROVE  TypeOK' /\ Session'
  <1> USE DEF TypeOK, Session
  <1>1. CASE BootNext(UnseenByBoot) /\ UNCHANGED <<forkVars, tuiVars>>
    BY <1>1, BootTypedStep DEF Typed, TuiTyped, Editing, EditsTracked, tuiVars
  <1>2. CASE (ForkSteps \/ SignSteps) /\ UNCHANGED tuiVars
    BY <1>2, ForkTypedStep DEF Typed, TuiTyped, Editing, EditsTracked, tuiVars
  <1>3. CASE OtherNext /\ UNCHANGED <<forkVars, tuiVars>>
    BY <1>3, BootTypedStep DEF Typed, TuiTyped, Editing, EditsTracked, tuiVars
  <1>4. CASE TuiNext /\ UNCHANGED <<bootVars, forkVars>>
    <2>1. Session'
      BY <1>4, EditorSteps
    <2>2. Saves
      BY <1>4, Saving
    <2>3. dir' \in Dirs /\ gaps' \subseteq Gaps
      BY <2>2 DEF Saves, SavesCkb, SavesMiner, SavesNothing, Dirs, CkbFiles, OutdatedFiles, ChangedPeers, Gaps
    <2>4. BootTyped' /\ ForkTyped'
      BY <1>4 DEF BootTyped, ForkTyped, bootVars, forkVars
    <2> QED
      BY <2>1, <2>3, <2>4
  <1>5. CASE UNCHANGED vars
    BY <1>5 DEF vars, bootVars, forkVars, tuiVars, BootTyped, ForkTyped, TuiTyped, Editing,
                EditsTracked
  <1> QED
    BY <1>1, <1>2, <1>3, <1>4, <1>5 DEF Next

(* What a step does to the directory, field by field. *)
SameChain ==
  /\ dir'.data = dir.data /\ dir'.stored = dir.stored /\ dir'.format = dir.format
  /\ dir'.fork = dir.fork /\ dir'.copied = dir.copied /\ dir'.tip = dir.tip
Copies(f) ==
  /\ dir'.exists /\ SameChain
  /\ boot' = [boot EXCEPT !.left = @ \ {f}] /\ UNCHANGED <<gaps, ckb, other>>
  /\ \A g \in RequiredConfigFiles \ {f} : dir'[g] = dir[g]
  /\ dir'[f] = IF dir[f] = Missing THEN Template[f] ELSE dir[f]

LEMMA Copying ==
  ASSUME TypeOK, InitCopies
  PROVE  boot.pc = "copy" /\ \E f \in boot.left : Copies(f)
  <1>1. PICK f \in boot.left :
          /\ dir' = [dir EXCEPT !.exists = TRUE, ![f] = IF @ = Missing THEN Template[f] ELSE @]
          /\ boot' = [boot EXCEPT !.left = @ \ {f}]
    BY DEF InitCopies
  <1>2. RequiredConfigFiles = {"ckb", "miner", "spec"} /\ f \in RequiredConfigFiles
    BY DEF TypeOK, BootTyped, RequiredConfigFiles, Template
  <1>3. CASE f = "ckb"
    BY <1>1, <1>2, <1>3 DEF InitCopies, Copies, SameChain, TypeOK, Dirs
  <1>4. CASE f = "miner"
    BY <1>1, <1>2, <1>4 DEF InitCopies, Copies, SameChain, TypeOK, Dirs
  <1>5. CASE f = "spec"
    BY <1>1, <1>2, <1>5 DEF InitCopies, Copies, SameChain, TypeOK, Dirs
  <1> QED
    BY <1>1, <1>2, <1>3, <1>4, <1>5 DEF InitCopies

Breaks(f) ==
  /\ dir'.exists = dir.exists /\ SameChain
  /\ \A g \in RequiredConfigFiles \ {f} : dir'[g] = dir[g]
  /\ dir'[f] = Broken

LEMMA Breaking ==
  ASSUME TypeOK, NEW f \in RequiredConfigFiles, dir' = [dir EXCEPT ![f] = Broken]
  PROVE  Breaks(f)
  <1>1. RequiredConfigFiles = {"ckb", "miner", "spec"}
    BY DEF RequiredConfigFiles, Template
  <1>2. CASE f = "ckb"
    BY <1>1, <1>2 DEF Breaks, SameChain, TypeOK, Dirs
  <1>3. CASE f = "miner"
    BY <1>1, <1>3 DEF Breaks, SameChain, TypeOK, Dirs
  <1>4. CASE f = "spec"
    BY <1>1, <1>4 DEF Breaks, SameChain, TypeOK, Dirs
  <1> QED
    BY <1>1, <1>2, <1>3, <1>4

BootDies ==
  /\ boot.pc # "idle" /\ boot' = IdleBoot(boot.started) /\ ckb' = NoCkb /\ UNCHANGED other
  /\ \/ UNCHANGED dir /\ Noted(IF Initialising THEN {"crash"} ELSE {})
     \/ dir.exists /\ Noted({"crash", "torn"}) /\ \E f \in BeingWritten : Breaks(f)
LEMMA BootDying ==
  ASSUME TypeOK, BootCrashes
  PROVE  BootDies
  BY Breaking DEF BootCrashes, BootDies, BeingWritten

ForkDies ==
  /\ fork.pc # "idle" /\ fork' = IdleFork(fork.started) /\ UNCHANGED <<bootVars, sign, spent>>
  /\ \/ /\ UNCHANGED dir \/ (fork.pc = "remove" /\ dir' = [dir EXCEPT !.fork = NoFork])
        /\ Noted(IF fork.pc \in Replacing THEN {"crash"} ELSE {})
     \/ fork.pc = "align" /\ Noted({"crash", "torn"}) /\ (Breaks("ckb") \/ Breaks("miner"))
LEMMA ForkDying ==
  ASSUME TypeOK, ForkCrashes
  PROVE  ForkDies
  <1>1. {"ckb", "miner"} \subseteq RequiredConfigFiles
    BY DEF RequiredConfigFiles, Template
  <1> QED
    BY <1>1, Breaking DEF ForkCrashes, ForkDies

MarksComplete(tip) ==
  /\ dir.fork.pending
  /\ dir' = [dir EXCEPT !.fork = [source |-> dir.fork.source, pending |-> FALSE, boundary |-> tip]]
ReadsTip ==
  \/ Answering = "none" /\ UNCHANGED <<dir, gaps>> /\ boot' = [boot EXCEPT !.pc = "clear"]
  \/ /\ Answering # "none" /\ boot' = [boot EXCEPT !.pc = "mine"]
     /\ \/ UNCHANGED dir /\ ~dir.fork.pending
        \/ \E tip \in 0 .. MaxTip :
             MarksComplete(tip) /\ (Answering = "own" /\ ckb.db = "dir" => tip = dir.tip)
     /\ gaps' = gaps \/ (Answering # "own" /\ gaps' = gaps \cup {"stale"})
     /\ Answering = "own" \/ "unlisted" \in gaps' \/ "stale" \in gaps'

LEMMA ReadingTip ==
  ASSUME TypeOK, ClearReadsTip
  PROVE  boot.pc = "tip" /\ ReadsTip /\ UNCHANGED <<ckb, other>>
  <1>1. ASSUME NEW tip \in 0 .. MaxTip, dir' = MarkForkFirstRunComplete(dir, tip)
        PROVE  (UNCHANGED dir /\ ~dir.fork.pending) \/ MarksComplete(tip)
    BY <1>1 DEF MarkForkFirstRunComplete, WriteForkState, ForkState, MarksComplete
  <1>2. dir.tip \in 0 .. MaxTip
    BY DEF TypeOK, Dirs
  <1>3. CASE Answering = "none"
    BY <1>3 DEF ClearReadsTip, ReadsTip, At
  <1>4. CASE Answering = "own"
    BY <1>1, <1>2, <1>4 DEF ClearReadsTip, ReadsTip, At
  <1>5. CASE Answering \in {"same", "different"}
    BY <1>1, <1>5 DEF ClearReadsTip, ReadsTip, At, Noted
  <1> QED
    BY <1>3, <1>4, <1>5 DEF ClearReadsTip

(* A fork makes the directory anew before it puts anything into it. *)
LEMMA RemovedStep ==
  ASSUME TypeOK, Removed, Progress, [Next]_vars
  PROVE  Removed'
  <1> USE TipAssumption, MarkerAssumption
      DEF TypeOK, bootVars, forkVars, tuiVars, Removed, Progress, Absent, IsToml, Noted, NoFork, ForkState, WriteForkState, DirIsRemoved, IdleFork, Replacing, Forking
  <1>1. CASE InitReads(UnseenByBoot) /\ UNCHANGED <<forkVars, tuiVars, actors>>
    BY <1>1 DEF InitReads, UnseenByBoot
  <1>2. CASE (boot.pc = "copy" /\ \E f \in boot.left : Copies(f)) /\ UNCHANGED <<forkVars, tuiVars, actors>>
    BY <1>2 DEF Copies, SameChain, RequiredConfigFiles, Template
  <1>3. CASE InitRewrites /\ UNCHANGED <<forkVars, tuiVars, actors>> BY <1>3 DEF InitRewrites
  <1>4. CASE InitAdapts /\ UNCHANGED <<forkVars, tuiVars, actors>> BY <1>4 DEF InitAdapts, Rewrites
  <1>5. CASE InitWrites /\ UNCHANGED <<forkVars, tuiVars, actors>> BY <1>5 DEF InitWrites
  <1>6. CASE InitFails /\ UNCHANGED <<forkVars, tuiVars, actors>> BY <1>6 DEF InitFails
  <1>7. CASE BootRefuses /\ UNCHANGED <<forkVars, tuiVars, actors>> BY <1>7 DEF BootRefuses
  <1>8. CASE BootSpawns /\ UNCHANGED <<forkVars, tuiVars, actors>> BY <1>8 DEF BootSpawns
  <1>9. CASE BootIsReady /\ UNCHANGED <<forkVars, tuiVars, actors>> BY <1>9 DEF BootIsReady
  <1>10. CASE BootFails /\ UNCHANGED <<forkVars, tuiVars, actors>> BY <1>10 DEF BootFails
  <1>11. CASE ClearSeesGenesis /\ UNCHANGED <<forkVars, tuiVars, actors>>
    BY <1>11 DEF ClearSeesGenesis
  <1>12. CASE (boot.pc = "tip" /\ ReadsTip /\ UNCHANGED <<ckb, other>>) /\ UNCHANGED <<forkVars, tuiVars, actors>>
    <2>1. CASE UNCHANGED dir
      BY <1>12, <2>1 DEF ReadsTip
    <2>2. ASSUME NEW tip \in 0 .. MaxTip, MarksComplete(tip),
                 Answering = "own" /\ ckb.db = "dir" => tip = dir.tip
          PROVE  Removed'
      BY <1>12, <2>2 DEF ReadsTip, MarksComplete
    <2> QED
      BY <1>12, <2>1, <2>2 DEF ReadsTip
  <1>13. CASE ClearGivesUp /\ UNCHANGED <<forkVars, tuiVars, actors>> BY <1>13 DEF ClearGivesUp
  <1>14. CASE BootMines /\ UNCHANGED <<forkVars, tuiVars, actors>> BY <1>14 DEF BootMines
  <1>15. CASE BootStops /\ UNCHANGED <<forkVars, tuiVars, actors>> BY <1>15 DEF BootStops
  <1>16. CASE BootDies /\ UNCHANGED <<forkVars, tuiVars, actors>>
    BY <1>16 DEF BootDies, BeingWritten, Breaks, SameChain, RequiredConfigFiles, Template
  <1>17. CASE CkbOpens /\ UNCHANGED <<forkVars, tuiVars, actors>> BY <1>17 DEF CkbOpens, CkbCanOpen
  <1>18. CASE CkbExits /\ UNCHANGED <<forkVars, tuiVars, actors>> BY <1>18 DEF CkbExits
  <1>19. CASE Mine /\ UNCHANGED <<forkVars, tuiVars, actors>> BY <1>19 DEF Mine
  <1>20. CASE OtherNext /\ UNCHANGED <<forkVars, tuiVars, actors>>
    BY <1>20 DEF OtherNext, OtherStarts, OtherStops
  <1>21. CASE ForkPreflights /\ UNCHANGED <<tuiVars, actors>> BY <1>21 DEF ForkPreflights
  <1>22. CASE ForkRefuses /\ UNCHANGED <<tuiVars, actors>> BY <1>22 DEF ForkRefuses
  <1>23. CASE ForkChecks /\ UNCHANGED <<tuiVars, actors>> BY <1>23 DEF ForkChecks
  <1>24. CASE ForkRemoves /\ UNCHANGED <<tuiVars, actors>> BY <1>24 DEF ForkRemoves
  <1>25. CASE CopyBegins /\ UNCHANGED <<tuiVars, actors>> BY <1>25 DEF CopyBegins
  <1>26. CASE CopyEnds /\ UNCHANGED <<tuiVars, actors>> BY <1>26 DEF CopyEnds
  <1>27. CASE RunCkbInit /\ UNCHANGED <<tuiVars, actors>> BY <1>27 DEF RunCkbInit
  <1>28. CASE PatchesSpec /\ UNCHANGED <<tuiVars, actors>> BY <1>28 DEF PatchesSpec
  <1>29. CASE Aligns /\ UNCHANGED <<tuiVars, actors>> BY <1>29 DEF Aligns, AlignConfigsWithOffckb
  <1>30. CASE MigrateDatabaseCopy /\ UNCHANGED <<tuiVars, actors>> BY <1>30 DEF MigrateDatabaseCopy
  <1>31. CASE ForkRecords /\ UNCHANGED <<tuiVars, actors>> BY <1>31 DEF ForkRecords
  <1>32. CASE ForkRollsBack /\ UNCHANGED <<tuiVars, actors>> BY <1>32 DEF ForkRollsBack
  <1>33. CASE ForkDies /\ UNCHANGED <<tuiVars, actors>>
    <2>1. CASE UNCHANGED dir
      BY <1>33, <2>1 DEF ForkDies
    <2>2. CASE fork.pc = "remove" /\ dir' = [dir EXCEPT !.fork = NoFork]
      BY <1>33, <2>2 DEF ForkDies
    <2>3. CASE fork.pc = "align" /\ (Breaks("ckb") \/ Breaks("miner"))
      BY <1>33, <2>3 DEF ForkDies, Breaks, SameChain, RequiredConfigFiles, Template
    <2> QED
      BY <1>33, <2>1, <2>2, <2>3 DEF ForkDies
  <1>34. CASE ValidateMainnetForkSigning /\ UNCHANGED <<tuiVars, actors>>
    BY <1>34 DEF ValidateMainnetForkSigning
  <1>35. CASE SendTransaction /\ UNCHANGED <<tuiVars, actors>> BY <1>35 DEF SendTransaction
  <1>36. CASE SignGivesUp /\ UNCHANGED <<tuiVars, actors>> BY <1>36 DEF SignGivesUp
  <1>37. CASE SavesCkb /\ UNCHANGED <<bootVars, forkVars, actors>> BY <1>37 DEF SavesCkb
  <1>38. CASE SavesMiner /\ UNCHANGED <<bootVars, forkVars, actors>> BY <1>38 DEF SavesMiner
  <1>39. CASE SavesNothing /\ UNCHANGED <<bootVars, forkVars, actors>> BY <1>39 DEF SavesNothing
  <1>40. CASE UNCHANGED vars BY <1>40 DEF vars
  <1> QED
    BY Copying, ReadingTip, BootDying, ForkDying, Saving, <1>1, <1>2, <1>3, <1>4, <1>5, <1>6, <1>7, <1>8, <1>9, <1>10, <1>11, <1>12, <1>13, <1>14, <1>15, <1>16, <1>17, <1>18, <1>19, <1>20, <1>21, <1>22, <1>23, <1>24, <1>25, <1>26, <1>27, <1>28, <1>29, <1>30, <1>31, <1>32, <1>33, <1>34, <1>35, <1>36, <1>37, <1>38, <1>39, <1>40
    DEF Next, Saves, BootNext, ForkSteps, SignSteps

(* The exclusion of node and fork, up to an overlap that is noted. *)
LEMMA BesideStep ==
  ASSUME TypeOK, Removed, Beside, Progress, [Next]_vars
  PROVE  Beside'
  <1> USE TipAssumption, MarkerAssumption
      DEF TypeOK, bootVars, forkVars, tuiVars, Removed, Beside, Progress, Unspawned, Absent, IsToml, Noted, Uncovered, NoFork, DirIsRemoved, IdleFork, Replacing, Forking, IdleBoot, NoCkb, At, WriteForkState, DevnetSeenRunning, BootTyped
  <1>1. CASE InitReads(UnseenByBoot) /\ UNCHANGED <<forkVars, tuiVars, actors>>
    BY <1>1 DEF InitReads, UnseenByBoot
  <1>2. CASE (boot.pc = "copy" /\ \E f \in boot.left : Copies(f)) /\ UNCHANGED <<forkVars, tuiVars, actors>>
    BY <1>2 DEF Copies, SameChain, RequiredConfigFiles, Template
  <1>3. CASE InitRewrites /\ UNCHANGED <<forkVars, tuiVars, actors>> BY <1>3 DEF InitRewrites
  <1>4. CASE InitAdapts /\ UNCHANGED <<forkVars, tuiVars, actors>> BY <1>4 DEF InitAdapts, Rewrites
  <1>5. CASE InitWrites /\ UNCHANGED <<forkVars, tuiVars, actors>> BY <1>5 DEF InitWrites
  <1>6. CASE InitFails /\ UNCHANGED <<forkVars, tuiVars, actors>> BY <1>6 DEF InitFails
  <1>7. CASE BootRefuses /\ UNCHANGED <<forkVars, tuiVars, actors>> BY <1>7 DEF BootRefuses
  <1>8. CASE BootSpawns /\ UNCHANGED <<forkVars, tuiVars, actors>> BY <1>8 DEF BootSpawns
  <1>9. CASE BootIsReady /\ UNCHANGED <<forkVars, tuiVars, actors>> BY <1>9 DEF BootIsReady
  <1>10. CASE BootFails /\ UNCHANGED <<forkVars, tuiVars, actors>> BY <1>10 DEF BootFails
  <1>11. CASE ClearSeesGenesis /\ UNCHANGED <<forkVars, tuiVars, actors>>
    BY <1>11 DEF ClearSeesGenesis
  <1>12. CASE (boot.pc = "tip" /\ ReadsTip /\ UNCHANGED <<ckb, other>>) /\ UNCHANGED <<forkVars, tuiVars, actors>>
    <2>1. CASE UNCHANGED dir
      BY <1>12, <2>1 DEF ReadsTip
    <2>2. ASSUME NEW tip \in 0 .. MaxTip, MarksComplete(tip),
                 Answering = "own" /\ ckb.db = "dir" => tip = dir.tip
          PROVE  Beside'
      BY <1>12, <2>2 DEF ReadsTip, MarksComplete
    <2> QED
      BY <1>12, <2>1, <2>2 DEF ReadsTip
  <1>13. CASE ClearGivesUp /\ UNCHANGED <<forkVars, tuiVars, actors>> BY <1>13 DEF ClearGivesUp
  <1>14. CASE BootMines /\ UNCHANGED <<forkVars, tuiVars, actors>> BY <1>14 DEF BootMines
  <1>15. CASE BootStops /\ UNCHANGED <<forkVars, tuiVars, actors>> BY <1>15 DEF BootStops
  <1>16. CASE BootDies /\ UNCHANGED <<forkVars, tuiVars, actors>>
    BY <1>16 DEF BootDies, BeingWritten, Breaks, SameChain, RequiredConfigFiles, Template
  <1>17. CASE CkbOpens /\ UNCHANGED <<forkVars, tuiVars, actors>> BY <1>17 DEF CkbOpens, CkbCanOpen
  <1>18. CASE CkbExits /\ UNCHANGED <<forkVars, tuiVars, actors>> BY <1>18 DEF CkbExits
  <1>19. CASE Mine /\ UNCHANGED <<forkVars, tuiVars, actors>> BY <1>19 DEF Mine
  <1>20. CASE OtherNext /\ UNCHANGED <<forkVars, tuiVars, actors>>
    BY <1>20 DEF OtherNext, OtherStarts, OtherStops
  <1>21. CASE ForkPreflights /\ UNCHANGED <<tuiVars, actors>> BY <1>21 DEF ForkPreflights
  <1>22. CASE ForkRefuses /\ UNCHANGED <<tuiVars, actors>> BY <1>22 DEF ForkRefuses
  <1>23. CASE ForkChecks /\ UNCHANGED <<tuiVars, actors>> BY <1>23 DEF ForkChecks
  <1>24. CASE ForkRemoves /\ UNCHANGED <<tuiVars, actors>> BY <1>24 DEF ForkRemoves
  <1>25. CASE CopyBegins /\ UNCHANGED <<tuiVars, actors>> BY <1>25 DEF CopyBegins
  <1>26. CASE CopyEnds /\ UNCHANGED <<tuiVars, actors>> BY <1>26 DEF CopyEnds
  <1>27. CASE RunCkbInit /\ UNCHANGED <<tuiVars, actors>> BY <1>27 DEF RunCkbInit
  <1>28. CASE PatchesSpec /\ UNCHANGED <<tuiVars, actors>> BY <1>28 DEF PatchesSpec
  <1>29. CASE Aligns /\ UNCHANGED <<tuiVars, actors>> BY <1>29 DEF Aligns, AlignConfigsWithOffckb
  <1>30. CASE MigrateDatabaseCopy /\ UNCHANGED <<tuiVars, actors>> BY <1>30 DEF MigrateDatabaseCopy
  <1>31. CASE ForkRecords /\ UNCHANGED <<tuiVars, actors>> BY <1>31 DEF ForkRecords
  <1>32. CASE ForkRollsBack /\ UNCHANGED <<tuiVars, actors>> BY <1>32 DEF ForkRollsBack
  <1>33. CASE ForkDies /\ UNCHANGED <<tuiVars, actors>>
    BY <1>33 DEF ForkDies, Breaks, SameChain, RequiredConfigFiles, Template
  <1>34. CASE ValidateMainnetForkSigning /\ UNCHANGED <<tuiVars, actors>>
    BY <1>34 DEF ValidateMainnetForkSigning
  <1>35. CASE SendTransaction /\ UNCHANGED <<tuiVars, actors>> BY <1>35 DEF SendTransaction
  <1>36. CASE SignGivesUp /\ UNCHANGED <<tuiVars, actors>> BY <1>36 DEF SignGivesUp
  <1>37. CASE SavesCkb /\ UNCHANGED <<bootVars, forkVars, actors>> BY <1>37 DEF SavesCkb
  <1>38. CASE SavesMiner /\ UNCHANGED <<bootVars, forkVars, actors>> BY <1>38 DEF SavesMiner
  <1>39. CASE SavesNothing /\ UNCHANGED <<bootVars, forkVars, actors>> BY <1>39 DEF SavesNothing
  <1>40. CASE UNCHANGED vars BY <1>40 DEF vars
  <1> QED
    BY Copying, ReadingTip, BootDying, ForkDying, Saving, <1>1, <1>2, <1>3, <1>4, <1>5, <1>6, <1>7, <1>8, <1>9, <1>10, <1>11, <1>12, <1>13, <1>14, <1>15, <1>16, <1>17, <1>18, <1>19, <1>20, <1>21, <1>22, <1>23, <1>24, <1>25, <1>26, <1>27, <1>28, <1>29, <1>30, <1>31, <1>32, <1>33, <1>34, <1>35, <1>36, <1>37, <1>38, <1>39, <1>40
    DEF Next, Saves, BootNext, ForkSteps, SignSteps

(* A step of the fork finds what the steps before it have left. *)
LEMMA ProgressStep ==
  ASSUME TypeOK, Removed, Beside, Progress, [Next]_vars
  PROVE  Progress'
  <1> USE TipAssumption, MarkerAssumption
      DEF TypeOK, bootVars, forkVars, tuiVars, Removed, Beside, Progress, Complete, CopiedFormat, Unspawned, Absent, IsToml, Noted, Uncovered, NoFork, ForkState, DirIsRemoved, IdleFork, Replacing, Forking, WriteForkState, DevnetSeenRunning, ForkTyped
  <1>1. CASE InitReads(UnseenByBoot) /\ UNCHANGED <<forkVars, tuiVars, actors>>
    BY <1>1 DEF InitReads, UnseenByBoot
  <1>2. CASE (boot.pc = "copy" /\ \E f \in boot.left : Copies(f)) /\ UNCHANGED <<forkVars, tuiVars, actors>>
    BY <1>2 DEF Copies, SameChain, RequiredConfigFiles, Template
  <1>3. CASE InitRewrites /\ UNCHANGED <<forkVars, tuiVars, actors>> BY <1>3 DEF InitRewrites
  <1>4. CASE InitAdapts /\ UNCHANGED <<forkVars, tuiVars, actors>> BY <1>4 DEF InitAdapts, Rewrites
  <1>5. CASE InitWrites /\ UNCHANGED <<forkVars, tuiVars, actors>> BY <1>5 DEF InitWrites
  <1>6. CASE InitFails /\ UNCHANGED <<forkVars, tuiVars, actors>> BY <1>6 DEF InitFails
  <1>7. CASE BootRefuses /\ UNCHANGED <<forkVars, tuiVars, actors>> BY <1>7 DEF BootRefuses
  <1>8. CASE BootSpawns /\ UNCHANGED <<forkVars, tuiVars, actors>> BY <1>8 DEF BootSpawns
  <1>9. CASE BootIsReady /\ UNCHANGED <<forkVars, tuiVars, actors>> BY <1>9 DEF BootIsReady
  <1>10. CASE BootFails /\ UNCHANGED <<forkVars, tuiVars, actors>> BY <1>10 DEF BootFails
  <1>11. CASE ClearSeesGenesis /\ UNCHANGED <<forkVars, tuiVars, actors>>
    BY <1>11 DEF ClearSeesGenesis
  <1>12. CASE (boot.pc = "tip" /\ ReadsTip /\ UNCHANGED <<ckb, other>>) /\ UNCHANGED <<forkVars, tuiVars, actors>>
    <2>1. CASE UNCHANGED dir
      BY <1>12, <2>1 DEF ReadsTip
    <2>2. ASSUME NEW tip \in 0 .. MaxTip, MarksComplete(tip),
                 Answering = "own" /\ ckb.db = "dir" => tip = dir.tip
          PROVE  Progress'
      <3>1. dir.fork # NoFork /\ dir'.fork # NoFork
        BY <2>2, ForkFields DEF MarksComplete, Dirs, NoFork, ForkState, ForkSources
      <3> QED
        BY <1>12, <2>2, <3>1 DEF ReadsTip, MarksComplete
    <2> QED
      BY <1>12, <2>1, <2>2 DEF ReadsTip
  <1>13. CASE ClearGivesUp /\ UNCHANGED <<forkVars, tuiVars, actors>> BY <1>13 DEF ClearGivesUp
  <1>14. CASE BootMines /\ UNCHANGED <<forkVars, tuiVars, actors>> BY <1>14 DEF BootMines
  <1>15. CASE BootStops /\ UNCHANGED <<forkVars, tuiVars, actors>> BY <1>15 DEF BootStops
  <1>16. CASE BootDies /\ UNCHANGED <<forkVars, tuiVars, actors>>
    BY <1>16 DEF BootDies, BeingWritten, Breaks, SameChain, RequiredConfigFiles, Template
  <1>17. CASE CkbOpens /\ UNCHANGED <<forkVars, tuiVars, actors>> BY <1>17 DEF CkbOpens, CkbCanOpen
  <1>18. CASE CkbExits /\ UNCHANGED <<forkVars, tuiVars, actors>> BY <1>18 DEF CkbExits
  <1>19. CASE Mine /\ UNCHANGED <<forkVars, tuiVars, actors>> BY <1>19 DEF Mine
  <1>20. CASE OtherNext /\ UNCHANGED <<forkVars, tuiVars, actors>>
    BY <1>20 DEF OtherNext, OtherStarts, OtherStops
  <1>21. CASE ForkPreflights /\ UNCHANGED <<tuiVars, actors>> BY <1>21 DEF ForkPreflights
  <1>22. CASE ForkRefuses /\ UNCHANGED <<tuiVars, actors>> BY <1>22 DEF ForkRefuses
  <1>23. CASE ForkChecks /\ UNCHANGED <<tuiVars, actors>> BY <1>23 DEF ForkChecks
  <1>24. CASE ForkRemoves /\ UNCHANGED <<tuiVars, actors>> BY <1>24 DEF ForkRemoves
  <1>25. CASE CopyBegins /\ UNCHANGED <<tuiVars, actors>> BY <1>25 DEF CopyBegins
  <1>26. CASE CopyEnds /\ UNCHANGED <<tuiVars, actors>> BY <1>26 DEF CopyEnds
  <1>27. CASE RunCkbInit /\ UNCHANGED <<tuiVars, actors>> BY <1>27 DEF RunCkbInit
  <1>28. CASE PatchesSpec /\ UNCHANGED <<tuiVars, actors>> BY <1>28 DEF PatchesSpec
  <1>29. CASE Aligns /\ UNCHANGED <<tuiVars, actors>> BY <1>29 DEF Aligns, AlignConfigsWithOffckb
  <1>30. CASE MigrateDatabaseCopy /\ UNCHANGED <<tuiVars, actors>> BY <1>30 DEF MigrateDatabaseCopy
  <1>31. CASE ForkRecords /\ UNCHANGED <<tuiVars, actors>> BY <1>31 DEF ForkRecords
  <1>32. CASE ForkRollsBack /\ UNCHANGED <<tuiVars, actors>> BY <1>32 DEF ForkRollsBack
  <1>33. CASE ForkDies /\ UNCHANGED <<tuiVars, actors>>
    BY <1>33 DEF ForkDies, Breaks, SameChain, RequiredConfigFiles, Template
  <1>34. CASE ValidateMainnetForkSigning /\ UNCHANGED <<tuiVars, actors>>
    BY <1>34 DEF ValidateMainnetForkSigning
  <1>35. CASE SendTransaction /\ UNCHANGED <<tuiVars, actors>> BY <1>35 DEF SendTransaction
  <1>36. CASE SignGivesUp /\ UNCHANGED <<tuiVars, actors>> BY <1>36 DEF SignGivesUp
  <1>37. CASE SavesCkb /\ UNCHANGED <<bootVars, forkVars, actors>> BY <1>37 DEF SavesCkb
  <1>38. CASE SavesMiner /\ UNCHANGED <<bootVars, forkVars, actors>> BY <1>38 DEF SavesMiner
  <1>39. CASE SavesNothing /\ UNCHANGED <<bootVars, forkVars, actors>> BY <1>39 DEF SavesNothing
  <1>40. CASE UNCHANGED vars BY <1>40 DEF vars
  <1> QED
    BY Copying, ReadingTip, BootDying, ForkDying, Saving, <1>1, <1>2, <1>3, <1>4, <1>5, <1>6, <1>7, <1>8, <1>9, <1>10, <1>11, <1>12, <1>13, <1>14, <1>15, <1>16, <1>17, <1>18, <1>19, <1>20, <1>21, <1>22, <1>23, <1>24, <1>25, <1>26, <1>27, <1>28, <1>29, <1>30, <1>31, <1>32, <1>33, <1>34, <1>35, <1>36, <1>37, <1>38, <1>39, <1>40
    DEF Next, Saves, BootNext, ForkSteps, SignSteps

(* Only a node that has opened the database replaces the spec in it. *)
LEMMA FlaggedStep ==
  ASSUME TypeOK, Removed, Beside, Progress, Flagged, [Next]_vars
  PROVE  Flagged'
  <1> USE TipAssumption, MarkerAssumption
      DEF TypeOK, bootVars, forkVars, tuiVars, Removed, Beside, Progress, Flagged, FirstRunFlagged, Unspawned, Absent, IsToml, Noted, Uncovered, Forked, NoFork, ForkState, DirIsRemoved, IdleFork, Replacing, Forking, WriteForkState, IdleBoot, NoCkb, At, NotKnownForeign, Answering, BootTyped
  <1>1. CASE InitReads(UnseenByBoot) /\ UNCHANGED <<forkVars, tuiVars, actors>>
    BY <1>1 DEF InitReads, UnseenByBoot
  <1>2. CASE (boot.pc = "copy" /\ \E f \in boot.left : Copies(f)) /\ UNCHANGED <<forkVars, tuiVars, actors>>
    BY <1>2 DEF Copies, SameChain, RequiredConfigFiles, Template
  <1>3. CASE InitRewrites /\ UNCHANGED <<forkVars, tuiVars, actors>> BY <1>3 DEF InitRewrites
  <1>4. CASE InitAdapts /\ UNCHANGED <<forkVars, tuiVars, actors>> BY <1>4 DEF InitAdapts, Rewrites
  <1>5. CASE InitWrites /\ UNCHANGED <<forkVars, tuiVars, actors>> BY <1>5 DEF InitWrites
  <1>6. CASE InitFails /\ UNCHANGED <<forkVars, tuiVars, actors>> BY <1>6 DEF InitFails
  <1>7. CASE BootRefuses /\ UNCHANGED <<forkVars, tuiVars, actors>> BY <1>7 DEF BootRefuses
  <1>8. CASE BootSpawns /\ UNCHANGED <<forkVars, tuiVars, actors>> BY <1>8 DEF BootSpawns
  <1>9. CASE BootIsReady /\ UNCHANGED <<forkVars, tuiVars, actors>> BY <1>9 DEF BootIsReady
  <1>10. CASE BootFails /\ UNCHANGED <<forkVars, tuiVars, actors>> BY <1>10 DEF BootFails
  <1>11. CASE ClearSeesGenesis /\ UNCHANGED <<forkVars, tuiVars, actors>>
    BY <1>11 DEF ClearSeesGenesis
  <1>12. CASE (boot.pc = "tip" /\ ReadsTip /\ UNCHANGED <<ckb, other>>) /\ UNCHANGED <<forkVars, tuiVars, actors>>
    <2>1. CASE UNCHANGED dir
      BY <1>12, <2>1 DEF ReadsTip
    <2>2. ASSUME NEW tip \in 0 .. MaxTip, MarksComplete(tip),
                 Answering = "own" /\ ckb.db = "dir" => tip = dir.tip
          PROVE  Flagged'
      <3>1. dir.fork # NoFork /\ dir'.fork # NoFork
        BY <2>2, ForkFields DEF MarksComplete, Dirs, NoFork, ForkState, ForkSources
      <3> QED
        BY <1>12, <2>2, <3>1 DEF ReadsTip, MarksComplete
    <2> QED
      BY <1>12, <2>1, <2>2 DEF ReadsTip
  <1>13. CASE ClearGivesUp /\ UNCHANGED <<forkVars, tuiVars, actors>> BY <1>13 DEF ClearGivesUp
  <1>14. CASE BootMines /\ UNCHANGED <<forkVars, tuiVars, actors>> BY <1>14 DEF BootMines
  <1>15. CASE BootStops /\ UNCHANGED <<forkVars, tuiVars, actors>> BY <1>15 DEF BootStops
  <1>16. CASE BootDies /\ UNCHANGED <<forkVars, tuiVars, actors>>
    BY <1>16 DEF BootDies, BeingWritten, Breaks, SameChain, RequiredConfigFiles, Template
  <1>17. CASE CkbOpens /\ UNCHANGED <<forkVars, tuiVars, actors>> BY <1>17 DEF CkbOpens, CkbCanOpen
  <1>18. CASE CkbExits /\ UNCHANGED <<forkVars, tuiVars, actors>> BY <1>18 DEF CkbExits
  <1>19. CASE Mine /\ UNCHANGED <<forkVars, tuiVars, actors>> BY <1>19 DEF Mine
  <1>20. CASE OtherNext /\ UNCHANGED <<forkVars, tuiVars, actors>>
    BY <1>20 DEF OtherNext, OtherStarts, OtherStops
  <1>21. CASE ForkPreflights /\ UNCHANGED <<tuiVars, actors>> BY <1>21 DEF ForkPreflights
  <1>22. CASE ForkRefuses /\ UNCHANGED <<tuiVars, actors>> BY <1>22 DEF ForkRefuses
  <1>23. CASE ForkChecks /\ UNCHANGED <<tuiVars, actors>> BY <1>23 DEF ForkChecks
  <1>24. CASE ForkRemoves /\ UNCHANGED <<tuiVars, actors>> BY <1>24 DEF ForkRemoves
  <1>25. CASE CopyBegins /\ UNCHANGED <<tuiVars, actors>> BY <1>25 DEF CopyBegins
  <1>26. CASE CopyEnds /\ UNCHANGED <<tuiVars, actors>> BY <1>26 DEF CopyEnds
  <1>27. CASE RunCkbInit /\ UNCHANGED <<tuiVars, actors>> BY <1>27 DEF RunCkbInit
  <1>28. CASE PatchesSpec /\ UNCHANGED <<tuiVars, actors>> BY <1>28 DEF PatchesSpec
  <1>29. CASE Aligns /\ UNCHANGED <<tuiVars, actors>> BY <1>29 DEF Aligns, AlignConfigsWithOffckb
  <1>30. CASE MigrateDatabaseCopy /\ UNCHANGED <<tuiVars, actors>> BY <1>30 DEF MigrateDatabaseCopy
  <1>31. CASE ForkRecords /\ UNCHANGED <<tuiVars, actors>> BY <1>31 DEF ForkRecords
  <1>32. CASE ForkRollsBack /\ UNCHANGED <<tuiVars, actors>> BY <1>32 DEF ForkRollsBack
  <1>33. CASE ForkDies /\ UNCHANGED <<tuiVars, actors>>
    <2>1. CASE UNCHANGED dir
      BY <1>33, <2>1 DEF ForkDies
    <2>2. CASE fork.pc = "remove" /\ dir' = [dir EXCEPT !.fork = NoFork]
      BY <1>33, <2>2 DEF ForkDies
    <2>3. CASE fork.pc = "align" /\ (Breaks("ckb") \/ Breaks("miner"))
      BY <1>33, <2>3 DEF ForkDies, Breaks, SameChain, RequiredConfigFiles, Template
    <2> QED
      BY <1>33, <2>1, <2>2, <2>3 DEF ForkDies
  <1>34. CASE ValidateMainnetForkSigning /\ UNCHANGED <<tuiVars, actors>>
    BY <1>34 DEF ValidateMainnetForkSigning
  <1>35. CASE SendTransaction /\ UNCHANGED <<tuiVars, actors>> BY <1>35 DEF SendTransaction
  <1>36. CASE SignGivesUp /\ UNCHANGED <<tuiVars, actors>> BY <1>36 DEF SignGivesUp
  <1>37. CASE SavesCkb /\ UNCHANGED <<bootVars, forkVars, actors>> BY <1>37 DEF SavesCkb
  <1>38. CASE SavesMiner /\ UNCHANGED <<bootVars, forkVars, actors>> BY <1>38 DEF SavesMiner
  <1>39. CASE SavesNothing /\ UNCHANGED <<bootVars, forkVars, actors>> BY <1>39 DEF SavesNothing
  <1>40. CASE UNCHANGED vars BY <1>40 DEF vars
  <1> QED
    BY Copying, ReadingTip, BootDying, ForkDying, Saving, <1>1, <1>2, <1>3, <1>4, <1>5, <1>6, <1>7, <1>8, <1>9, <1>10, <1>11, <1>12, <1>13, <1>14, <1>15, <1>16, <1>17, <1>18, <1>19, <1>20, <1>21, <1>22, <1>23, <1>24, <1>25, <1>26, <1>27, <1>28, <1>29, <1>30, <1>31, <1>32, <1>33, <1>34, <1>35, <1>36, <1>37, <1>38, <1>39, <1>40
    DEF Next, Saves, BootNext, ForkSteps, SignSteps

(* The boundary is read from a node that has what was copied. *)
LEMMA BoundedStep ==
  ASSUME TypeOK, Removed, Beside, Progress, Bounded, [Next]_vars
  PROVE  Bounded'
  <1> USE TipAssumption, MarkerAssumption
      DEF TypeOK, bootVars, forkVars, tuiVars, Beside, Progress, Bounded, SignedInputsLocal, Unspawned, Absent, Noted, Uncovered, OutOfDate, Forked, NoFork, ForkState, DirIsRemoved, IdleFork, Replacing, Forking, WriteForkState, IdleSign, NoCheck, AssertInputsCreatedAfter
  <1>1. CASE InitReads(UnseenByBoot) /\ UNCHANGED <<forkVars, tuiVars, actors>>
    BY <1>1 DEF InitReads, UnseenByBoot
  <1>2. CASE (boot.pc = "copy" /\ \E f \in boot.left : Copies(f)) /\ UNCHANGED <<forkVars, tuiVars, actors>>
    BY <1>2 DEF Copies, SameChain, RequiredConfigFiles, Template
  <1>3. CASE InitRewrites /\ UNCHANGED <<forkVars, tuiVars, actors>> BY <1>3 DEF InitRewrites
  <1>4. CASE InitAdapts /\ UNCHANGED <<forkVars, tuiVars, actors>> BY <1>4 DEF InitAdapts, Rewrites
  <1>5. CASE InitWrites /\ UNCHANGED <<forkVars, tuiVars, actors>> BY <1>5 DEF InitWrites
  <1>6. CASE InitFails /\ UNCHANGED <<forkVars, tuiVars, actors>> BY <1>6 DEF InitFails
  <1>7. CASE BootRefuses /\ UNCHANGED <<forkVars, tuiVars, actors>> BY <1>7 DEF BootRefuses
  <1>8. CASE BootSpawns /\ UNCHANGED <<forkVars, tuiVars, actors>> BY <1>8 DEF BootSpawns
  <1>9. CASE BootIsReady /\ UNCHANGED <<forkVars, tuiVars, actors>> BY <1>9 DEF BootIsReady
  <1>10. CASE BootFails /\ UNCHANGED <<forkVars, tuiVars, actors>> BY <1>10 DEF BootFails
  <1>11. CASE ClearSeesGenesis /\ UNCHANGED <<forkVars, tuiVars, actors>>
    BY <1>11 DEF ClearSeesGenesis
  <1>12. CASE (boot.pc = "tip" /\ ReadsTip /\ UNCHANGED <<ckb, other>>) /\ UNCHANGED <<forkVars, tuiVars, actors>>
    <2>1. CASE UNCHANGED dir
      BY <1>12, <2>1 DEF ReadsTip
    <2>2. ASSUME NEW tip \in 0 .. MaxTip, MarksComplete(tip),
                 Answering = "own" /\ ckb.db = "dir" => tip = dir.tip
          PROVE  Bounded'
      <3>1. dir.fork # NoFork /\ dir'.fork # NoFork
        BY <2>2, ForkFields DEF MarksComplete, Dirs, NoFork, ForkState, ForkSources
      <3>2. dir'.fork.boundary = tip /\ ~dir'.fork.pending /\ dir'.fork.source = dir.fork.source
        BY <2>2 DEF MarksComplete
      <3>3. dir'.copied = dir.copied /\ dir'.tip = dir.tip
        BY <2>2 DEF MarksComplete
      <3>4. CASE Answering = "own"
        <4>1. ckb.db = "dir" => tip = dir.tip
          BY <2>2, <3>4
        <4> QED
          BY <1>12, <2>2, <3>1, <3>2, <3>3, <4>1 DEF ReadsTip, MarksComplete
      <3>5. CASE Answering # "own"
        BY <1>12, <2>2, <3>1, <3>2, <3>3, <3>5 DEF ReadsTip, MarksComplete
      <3> QED
        BY <3>4, <3>5
    <2> QED
      BY <1>12, <2>1, <2>2 DEF ReadsTip
  <1>13. CASE ClearGivesUp /\ UNCHANGED <<forkVars, tuiVars, actors>> BY <1>13 DEF ClearGivesUp
  <1>14. CASE BootMines /\ UNCHANGED <<forkVars, tuiVars, actors>> BY <1>14 DEF BootMines
  <1>15. CASE BootStops /\ UNCHANGED <<forkVars, tuiVars, actors>> BY <1>15 DEF BootStops
  <1>16. CASE BootDies /\ UNCHANGED <<forkVars, tuiVars, actors>>
    BY <1>16 DEF BootDies, BeingWritten, Breaks, SameChain, RequiredConfigFiles, Template
  <1>17. CASE CkbOpens /\ UNCHANGED <<forkVars, tuiVars, actors>> BY <1>17 DEF CkbOpens, CkbCanOpen
  <1>18. CASE CkbExits /\ UNCHANGED <<forkVars, tuiVars, actors>> BY <1>18 DEF CkbExits
  <1>19. CASE Mine /\ UNCHANGED <<forkVars, tuiVars, actors>>
    BY <1>19 DEF Mine, Dirs
  <1>20. CASE OtherNext /\ UNCHANGED <<forkVars, tuiVars, actors>>
    BY <1>20 DEF OtherNext, OtherStarts, OtherStops
  <1>21. CASE ForkPreflights /\ UNCHANGED <<tuiVars, actors>> BY <1>21 DEF ForkPreflights
  <1>22. CASE ForkRefuses /\ UNCHANGED <<tuiVars, actors>> BY <1>22 DEF ForkRefuses
  <1>23. CASE ForkChecks /\ UNCHANGED <<tuiVars, actors>> BY <1>23 DEF ForkChecks
  <1>24. CASE ForkRemoves /\ UNCHANGED <<tuiVars, actors>> BY <1>24 DEF ForkRemoves
  <1>25. CASE CopyBegins /\ UNCHANGED <<tuiVars, actors>> BY <1>25 DEF CopyBegins
  <1>26. CASE CopyEnds /\ UNCHANGED <<tuiVars, actors>> BY <1>26 DEF CopyEnds
  <1>27. CASE RunCkbInit /\ UNCHANGED <<tuiVars, actors>> BY <1>27 DEF RunCkbInit
  <1>28. CASE PatchesSpec /\ UNCHANGED <<tuiVars, actors>> BY <1>28 DEF PatchesSpec
  <1>29. CASE Aligns /\ UNCHANGED <<tuiVars, actors>> BY <1>29 DEF Aligns, AlignConfigsWithOffckb
  <1>30. CASE MigrateDatabaseCopy /\ UNCHANGED <<tuiVars, actors>> BY <1>30 DEF MigrateDatabaseCopy
  <1>31. CASE ForkRecords /\ UNCHANGED <<tuiVars, actors>> BY <1>31 DEF ForkRecords
  <1>32. CASE ForkRollsBack /\ UNCHANGED <<tuiVars, actors>> BY <1>32 DEF ForkRollsBack
  <1>33. CASE ForkDies /\ UNCHANGED <<tuiVars, actors>>
    <2>1. CASE UNCHANGED dir
      BY <1>33, <2>1 DEF ForkDies
    <2>2. CASE fork.pc = "remove" /\ dir' = [dir EXCEPT !.fork = NoFork]
      BY <1>33, <2>2 DEF ForkDies
    <2>3. CASE fork.pc = "align" /\ (Breaks("ckb") \/ Breaks("miner"))
      BY <1>33, <2>3 DEF ForkDies, Breaks, SameChain, RequiredConfigFiles, Template
    <2> QED
      BY <1>33, <2>1, <2>2, <2>3 DEF ForkDies
  <1>34. CASE ValidateMainnetForkSigning /\ UNCHANGED <<tuiVars, actors>>
    BY <1>34 DEF ValidateMainnetForkSigning
  <1>35. CASE SendTransaction /\ UNCHANGED <<tuiVars, actors>>
    <2>1. CASE ckb.db = "gone"
      BY <1>35, <2>1 DEF SendTransaction
    <2>2. CASE ckb.db = "dir"
      <3>1. PICK origin \in 0 .. dir.tip :
              /\ AssertInputsCreatedAfter(origin, sign.boundary)
              /\ spent' = (spent \/ (dir.fork.source = "mainnet" /\ origin <= dir.copied))
        BY <1>35, <2>2 DEF SendTransaction
      <3>2. dir.copied \in Nat /\ dir.fork.boundary \in 0 .. MaxTip /\ spent \in BOOLEAN
        BY ForkFields DEF Dirs, ForkTyped
      <3>3. dir.fork.source = "mainnet" => Forked
        BY DEF Forked, NoFork, ForkState
      <3>4. SignedInputsLocal'
        BY <1>35, <3>1, <3>2, <3>3 DEF SendTransaction
      <3> QED
        BY <1>35, <3>4 DEF SendTransaction
    <2> QED
      BY <1>35, <2>1, <2>2 DEF SendTransaction
  <1>36. CASE SignGivesUp /\ UNCHANGED <<tuiVars, actors>> BY <1>36 DEF SignGivesUp
  <1>37. CASE SavesCkb /\ UNCHANGED <<bootVars, forkVars, actors>> BY <1>37 DEF SavesCkb
  <1>38. CASE SavesMiner /\ UNCHANGED <<bootVars, forkVars, actors>> BY <1>38 DEF SavesMiner
  <1>39. CASE SavesNothing /\ UNCHANGED <<bootVars, forkVars, actors>> BY <1>39 DEF SavesNothing
  <1>40. CASE UNCHANGED vars BY <1>40 DEF vars
  <1> QED
    BY Copying, ReadingTip, BootDying, ForkDying, Saving, <1>1, <1>2, <1>3, <1>4, <1>5, <1>6, <1>7, <1>8, <1>9, <1>10, <1>11, <1>12, <1>13, <1>14, <1>15, <1>16, <1>17, <1>18, <1>19, <1>20, <1>21, <1>22, <1>23, <1>24, <1>25, <1>26, <1>27, <1>28, <1>29, <1>30, <1>31, <1>32, <1>33, <1>34, <1>35, <1>36, <1>37, <1>38, <1>39, <1>40
    DEF Next, Saves, BootNext, ForkSteps, SignSteps

(* The migration adds Terminal and the TCP listener, and nothing else. *)
LEMMA MigrationKeeps ==
  ASSUME NEW toml \in Tomls, NEW version
  PROVE  LET new == MigrateLegacyDevnetRpcConfig(toml, version)
         IN \/ new = Broken /\ Misfit(toml)
            \/ /\ new \in Tomls /\ KeptBy(toml, new)
               /\ new.isolated = toml.isolated /\ new.listen = toml.listen
               /\ new.protocols = toml.protocols
               /\ toml.modules # Missing => new.modules # Missing
               /\ ~SupportsTerminalRpcModule(version) => new.modules = toml.modules
  <1> DEFINE kept(new) ==
               /\ new \in Tomls /\ [new EXCEPT !.modules = toml.modules, !.tcp = toml.tcp] = toml
               /\ toml.tcp # Missing => new.tcp = toml.tcp
               /\ toml.modules \subseteq new.modules
               /\ new.modules \subseteq toml.modules \cup {"Terminal"}
               /\ ~SupportsTerminalRpcModule(version) => new.modules = toml.modules
               /\ toml.modules # Missing => new.modules # Missing
  <1>1. IsToml(toml)
    BY MarkerAssumption DEF IsToml
  <1>2. kept(toml)
    BY DEF Tomls
  <1>3. ASSUME SupportsTerminalRpcModule(version), toml.modules # Missing
        PROVE  \/ AddTerminalModule(toml) = Broken /\ Misfit(toml)
               \/ kept(AddTerminalModule(toml)) /\ AddTerminalModule(toml).tcp = toml.tcp
    BY <1>3, MarkerAssumption DEF AddTerminalModule, Misfit, Tomls, Options
  <1>4. ASSUME NEW new, kept(new), new.tcp = toml.tcp, toml.tcp # "ok"
        PROVE  \/ EnableTcpListenAddress(new) = Broken /\ Misfit(toml)
               \/ kept(EnableTcpListenAddress(new))
    <2>1. new # Broken /\ new.layout = toml.layout
      BY <1>4, MarkerAssumption DEF Tomls
    <2>2. CASE toml.tcp = "odd" \/ toml.layout = "bracket"
      BY <1>4, <2>1, <2>2 DEF EnableTcpListenAddress, Misfit
    <2>3. CASE toml.tcp # "odd" /\ toml.layout # "bracket"
      <3>1. EnableTcpListenAddress(new) = [new EXCEPT !.tcp = "ok"]
        BY <1>4, <2>1, <2>3 DEF EnableTcpListenAddress
      <3>2. toml.tcp = Missing
        BY <1>4, <2>3 DEF Tomls
      <3> QED
        BY <1>4, <3>1, <3>2 DEF Tomls
    <2> QED
      BY <2>2, <2>3
  <1>5. \/ MigrateLegacyDevnetRpcConfig(toml, version) = Broken /\ Misfit(toml)
        \/ kept(MigrateLegacyDevnetRpcConfig(toml, version))
    <2>1. EnableTcpListenAddress(Broken) = Broken
      BY DEF EnableTcpListenAddress
    <2> DEFINE needsTerminal == /\ SupportsTerminalRpcModule(version)
                                /\ toml.modules # Missing
                                /\ "Terminal" \notin toml.modules
               upgraded == IF needsTerminal THEN AddTerminalModule(toml) ELSE toml
    <2>2. \/ upgraded = Broken /\ Misfit(toml)
          \/ kept(upgraded) /\ upgraded.tcp = toml.tcp
      BY <1>2, <1>3
    <2>3. MigrateLegacyDevnetRpcConfig(toml, version) =
            IF toml.tcp # "ok" THEN EnableTcpListenAddress(upgraded) ELSE upgraded
      BY <1>1 DEF MigrateLegacyDevnetRpcConfig
    <2> HIDE DEF kept, upgraded
    <2> QED
      BY <1>4, <2>1, <2>2, <2>3
  <1>6. ASSUME NEW new, kept(new)
        PROVE  /\ KeptBy(toml, new) /\ new.isolated = toml.isolated /\ new.listen = toml.listen
               /\ new.protocols = toml.protocols
    BY <1>6, MarkerAssumption DEF KeptBy, IsToml, Tomls
  <1> QED
    BY <1>5, <1>6

(* What initChainIfNeeded makes of ckb.toml. *)
Adapted(new) ==
  /\ dir.ckb \in {Missing, Broken} => new = dir.ckb
  /\ dir.ckb \in Tomls =>
       \/ new = Broken
       \/ /\ new \in Tomls /\ new.isolated = dir.ckb.isolated /\ new.listen = dir.ckb.listen
          /\ new.protocols = dir.ckb.protocols
  /\ dir.ckb \in Tomls /\ boot.had # Missing => new = Broken \/ KeptBy(dir.ckb, new)
  /\ dir.ckb \in Tomls /\ "misfit" \notin gaps'
       => new \in Tomls /\ (dir.ckb.modules # Missing => new.modules # Missing)

LEMMA Adapting ==
  ASSUME TypeOK, InitAdapts
  PROVE  /\ boot.pc = "adapt" /\ \E new : Rewrites(new) /\ Adapted(new)
         /\ gaps' = gaps \/ gaps' = gaps \cup {"misfit"}
         /\ UNCHANGED <<dir, ckb, other>>
  <1> DEFINE strip == boot.had = Missing /\ ~SupportsTerminalRpcModule(boot.version)
             toml  == IF strip THEN RemoveTerminalRpcModule(dir.ckb) ELSE dir.ckb
             new   == MigrateLegacyDevnetRpcConfig(toml, boot.version)
  <1>1. dir.ckb \in CkbFiles
    BY DEF TypeOK, Dirs
  <1>2. ASSUME dir.ckb \in {Missing, Broken}
        PROVE  Adapted(new)
    <2>1. toml = dir.ckb /\ dir.ckb \notin Tomls
      BY <1>2, MarkerAssumption DEF RemoveTerminalRpcModule, DevnetConfigHasTerminalRpc, IsToml
    <2>2. new = dir.ckb
      BY <1>2, <2>1 DEF MigrateLegacyDevnetRpcConfig, IsToml
    <2> HIDE DEF new, toml
    <2> QED
      BY <1>2, <2>1, <2>2 DEF Adapted
  <1>3. ASSUME dir.ckb \in Tomls
        PROVE  Adapted(new)
    <2>1. dir.ckb \notin {Missing, Broken}
      BY <1>3, MarkerAssumption
    <2>2. /\ toml \in Tomls /\ toml.isolated = dir.ckb.isolated /\ toml.listen = dir.ckb.listen
          /\ toml.protocols = dir.ckb.protocols
          /\ dir.ckb.modules # Missing => toml.modules # Missing
      <3>1. CASE DevnetConfigHasTerminalRpc(dir.ckb)
        <4>1. dir.ckb.modules \in SUBSET Options
          BY <1>3, <3>1 DEF DevnetConfigHasTerminalRpc, Tomls
        <4>2. dir.ckb.modules \ {"Terminal"} \in SUBSET Options
          BY <4>1
        <4> QED
          BY <1>3, <3>1, <4>2, MarkerAssumption DEF RemoveTerminalRpcModule, Tomls
      <3>2. CASE ~DevnetConfigHasTerminalRpc(dir.ckb)
        BY <1>3, <3>2 DEF RemoveTerminalRpcModule
      <3> QED
        BY <3>1, <3>2
    <2> HIDE DEF toml
    <2>3. \/ new = Broken /\ Misfit(toml)
          \/ /\ new \in Tomls /\ KeptBy(toml, new)
             /\ new.isolated = toml.isolated /\ new.listen = toml.listen
             /\ new.protocols = toml.protocols
             /\ toml.modules # Missing => new.modules # Missing
      BY <2>2, MigrationKeeps
    <2>4. boot.had # Missing => toml = dir.ckb
      BY DEF toml
    <2>5. new = Broken /\ Misfit(toml) => "misfit" \in gaps'
      <3>1. new = Broken => new # toml
        BY <2>2, MarkerAssumption
      <3>2. Noted(IF new # toml /\ Misfit(toml) THEN {"misfit"} ELSE {})
        BY DEF InitAdapts, toml
      <3> HIDE DEF new
      <3> QED
        BY <3>1, <3>2 DEF Noted
    <2> HIDE DEF new
    <2> QED
      BY <1>3, <2>1, <2>2, <2>3, <2>4, <2>5 DEF Adapted
  <1>4. Adapted(new)
    BY <1>1, <1>2, <1>3 DEF CkbFiles
  <1>5. Rewrites(new)
    BY DEF InitAdapts
  <1> QED
    BY <1>4, <1>5 DEF InitAdapts, Noted

(* Whoever writes ckb.toml writes what has no peers, if it had none. *)
LEMMA IsolatedStep ==
  ASSUME TypeOK, Removed, Beside, Progress, Isolated, [Next]_vars
  PROVE  Isolated'
  <1> USE TipAssumption, MarkerAssumption
      DEF TypeOK, bootVars, forkVars, tuiVars, Beside, Progress, Isolated, KeepsIsolation, Unspawned, Absent, IsToml, Noted, Uncovered, OutOfDate, Forked, NoFork, ForkState, DirIsRemoved, IdleFork, Replacing, Forking, WriteForkState, IdleBoot, NoCkb, At
  <1>1. CASE InitReads(UnseenByBoot) /\ UNCHANGED <<forkVars, tuiVars, actors>>
    BY <1>1 DEF InitReads, UnseenByBoot
  <1>2. CASE (boot.pc = "copy" /\ \E f \in boot.left : Copies(f)) /\ UNCHANGED <<forkVars, tuiVars, actors>>
    BY <1>2 DEF Copies, SameChain, RequiredConfigFiles, Template
  <1>3. CASE InitRewrites /\ UNCHANGED <<forkVars, tuiVars, actors>> BY <1>3 DEF InitRewrites
  <1>4. CASE InitAdapts /\ UNCHANGED <<forkVars, tuiVars, actors>>
    <2>1. PICK new : Rewrites(new) /\ Adapted(new)
      BY <1>4, Adapting
    <2>2. dir.ckb \in CkbFiles /\ boot.pc = "adapt" /\ UNCHANGED dir /\ gaps \subseteq gaps'
      BY <1>4, Adapting DEF Dirs
    <2>3. dir.ckb # Missing => new # Missing /\ (KeepsIsolation(dir.ckb) => KeepsIsolation(new))
      BY <2>1, <2>2, MarkerAssumption DEF Adapted, CkbFiles, KeepsIsolation, IsToml
    <2> QED
      BY <1>4, <2>1, <2>2, <2>3 DEF Rewrites, Adapted
  <1>5. CASE InitWrites /\ UNCHANGED <<forkVars, tuiVars, actors>> BY <1>5 DEF InitWrites
  <1>6. CASE InitFails /\ UNCHANGED <<forkVars, tuiVars, actors>> BY <1>6 DEF InitFails
  <1>7. CASE BootRefuses /\ UNCHANGED <<forkVars, tuiVars, actors>> BY <1>7 DEF BootRefuses
  <1>8. CASE BootSpawns /\ UNCHANGED <<forkVars, tuiVars, actors>> BY <1>8 DEF BootSpawns
  <1>9. CASE BootIsReady /\ UNCHANGED <<forkVars, tuiVars, actors>> BY <1>9 DEF BootIsReady
  <1>10. CASE BootFails /\ UNCHANGED <<forkVars, tuiVars, actors>> BY <1>10 DEF BootFails
  <1>11. CASE ClearSeesGenesis /\ UNCHANGED <<forkVars, tuiVars, actors>>
    <2>1. boot'.pc # "rewrite"
      BY <1>11 DEF ClearSeesGenesis, BootTyped
    <2> QED
      BY <1>11, <2>1 DEF ClearSeesGenesis
  <1>12. CASE (boot.pc = "tip" /\ ReadsTip /\ UNCHANGED <<ckb, other>>) /\ UNCHANGED <<forkVars, tuiVars, actors>>
    <2>1. boot'.pc # "rewrite" /\ gaps \subseteq gaps'
      BY <1>12 DEF ReadsTip, BootTyped
    <2>2. CASE UNCHANGED dir
      BY <1>12, <2>1, <2>2
    <2>3. ASSUME NEW tip \in 0 .. MaxTip, MarksComplete(tip)
          PROVE  Isolated'
      <3>1. dir.fork # NoFork /\ dir'.ckb = dir.ckb
        BY <2>3, ForkFields DEF MarksComplete, Dirs
      <3> QED
        BY <1>12, <2>1, <3>1
    <2> QED
      BY <1>12, <2>2, <2>3 DEF ReadsTip
  <1>13. CASE ClearGivesUp /\ UNCHANGED <<forkVars, tuiVars, actors>> BY <1>13 DEF ClearGivesUp
  <1>14. CASE BootMines /\ UNCHANGED <<forkVars, tuiVars, actors>> BY <1>14 DEF BootMines
  <1>15. CASE BootStops /\ UNCHANGED <<forkVars, tuiVars, actors>> BY <1>15 DEF BootStops
  <1>16. CASE BootDies /\ UNCHANGED <<forkVars, tuiVars, actors>>
    BY <1>16 DEF BootDies, BeingWritten, Breaks, SameChain, RequiredConfigFiles, Template
  <1>17. CASE CkbOpens /\ UNCHANGED <<forkVars, tuiVars, actors>> BY <1>17 DEF CkbOpens, CkbCanOpen
  <1>18. CASE CkbExits /\ UNCHANGED <<forkVars, tuiVars, actors>> BY <1>18 DEF CkbExits
  <1>19. CASE Mine /\ UNCHANGED <<forkVars, tuiVars, actors>> BY <1>19 DEF Mine
  <1>20. CASE OtherNext /\ UNCHANGED <<forkVars, tuiVars, actors>>
    BY <1>20 DEF OtherNext, OtherStarts, OtherStops
  <1>21. CASE ForkPreflights /\ UNCHANGED <<tuiVars, actors>> BY <1>21 DEF ForkPreflights
  <1>22. CASE ForkRefuses /\ UNCHANGED <<tuiVars, actors>> BY <1>22 DEF ForkRefuses
  <1>23. CASE ForkChecks /\ UNCHANGED <<tuiVars, actors>> BY <1>23 DEF ForkChecks
  <1>24. CASE ForkRemoves /\ UNCHANGED <<tuiVars, actors>> BY <1>24 DEF ForkRemoves
  <1>25. CASE CopyBegins /\ UNCHANGED <<tuiVars, actors>> BY <1>25 DEF CopyBegins
  <1>26. CASE CopyEnds /\ UNCHANGED <<tuiVars, actors>> BY <1>26 DEF CopyEnds
  <1>27. CASE RunCkbInit /\ UNCHANGED <<tuiVars, actors>> BY <1>27 DEF RunCkbInit
  <1>28. CASE PatchesSpec /\ UNCHANGED <<tuiVars, actors>> BY <1>28 DEF PatchesSpec
  <1>29. CASE Aligns /\ UNCHANGED <<tuiVars, actors>>
    <2>1. dir'.ckb \in Tomls /\ dir'.ckb.isolated /\ dir'.ckb # Missing
      <3>1. dir'.ckb = IsolateForkCkbConfig(Bundled)
        BY <1>29 DEF Aligns, AlignConfigsWithOffckb, Dirs
      <3> QED
        BY <3>1, TemplatesTyped DEF IsolateForkCkbConfig, Bundled
    <2> QED
      BY <1>29, <2>1 DEF Aligns
  <1>30. CASE MigrateDatabaseCopy /\ UNCHANGED <<tuiVars, actors>> BY <1>30 DEF MigrateDatabaseCopy
  <1>31. CASE ForkRecords /\ UNCHANGED <<tuiVars, actors>> BY <1>31 DEF ForkRecords
  <1>32. CASE ForkRollsBack /\ UNCHANGED <<tuiVars, actors>> BY <1>32 DEF ForkRollsBack
  <1>33. CASE ForkDies /\ UNCHANGED <<tuiVars, actors>>
    <2>1. CASE UNCHANGED dir
      BY <1>33, <2>1 DEF ForkDies
    <2>2. CASE fork.pc = "remove" /\ dir' = [dir EXCEPT !.fork = NoFork]
      BY <1>33, <2>2 DEF ForkDies
    <2>3. CASE fork.pc = "align" /\ (Breaks("ckb") \/ Breaks("miner"))
      BY <1>33, <2>3 DEF ForkDies, Breaks, SameChain, RequiredConfigFiles, Template
    <2> QED
      BY <1>33, <2>1, <2>2, <2>3 DEF ForkDies
  <1>34. CASE ValidateMainnetForkSigning /\ UNCHANGED <<tuiVars, actors>>
    BY <1>34 DEF ValidateMainnetForkSigning
  <1>35. CASE SendTransaction /\ UNCHANGED <<tuiVars, actors>> BY <1>35 DEF SendTransaction
  <1>36. CASE SignGivesUp /\ UNCHANGED <<tuiVars, actors>> BY <1>36 DEF SignGivesUp
  <1>37. CASE SavesCkb /\ UNCHANGED <<bootVars, forkVars, actors>>
    <2>1. dir'.ckb = docs.ckb /\ dir'.fork = dir.fork /\ docs.ckb # Missing /\ gaps \subseteq gaps'
      BY <1>37 DEF SavesCkb, Dirs
    <2>2. KeepsIsolation(dir.ckb) => loaded.ckb.isolated \/ "stale" \in gaps'
      <3>1. Parsed(dir.ckb) = loaded.ckb \/ "stale" \in gaps'
        BY <1>37 DEF SavesCkb, OutdatedFiles, Docs
      <3>2. loaded.ckb \in Tomls
        BY <1>37 DEF SavesCkb, TuiTyped, Loaded
      <3>3. dir.ckb \in Tomls => Parsed(dir.ckb).isolated = dir.ckb.isolated
        BY DEF Parsed, Tomls
      <3>4. dir.ckb \in {Missing, Broken} => Parsed(dir.ckb) \notin Tomls
        BY DEF Parsed
      <3> QED
        BY <3>1, <3>2, <3>3, <3>4 DEF KeepsIsolation, Dirs, CkbFiles
    <2>3. docs.ckb.isolated = loaded.ckb.isolated \/ "peers" \in gaps'
      BY <1>37 DEF SavesCkb, ChangedPeers
    <2> QED
      BY <1>37, <2>1, <2>2, <2>3
  <1>38. CASE SavesMiner /\ UNCHANGED <<bootVars, forkVars, actors>> BY <1>38 DEF SavesMiner
  <1>39. CASE SavesNothing /\ UNCHANGED <<bootVars, forkVars, actors>> BY <1>39 DEF SavesNothing
  <1>40. CASE UNCHANGED vars BY <1>40 DEF vars
  <1> QED
    BY Copying, ReadingTip, BootDying, ForkDying, Saving, <1>1, <1>2, <1>3, <1>4, <1>5, <1>6, <1>7, <1>8, <1>9, <1>10, <1>11, <1>12, <1>13, <1>14, <1>15, <1>16, <1>17, <1>18, <1>19, <1>20, <1>21, <1>22, <1>23, <1>24, <1>25, <1>26, <1>27, <1>28, <1>29, <1>30, <1>31, <1>32, <1>33, <1>34, <1>35, <1>36, <1>37, <1>38, <1>39, <1>40
    DEF Next, Saves, BootNext, ForkSteps, SignSteps

(* An editor that is writing has validated what it writes. *)
LEMMA ValidDocsStep ==
  ASSUME Session, ValidDocs, TuiNext
  PROVE  ValidDocs'
  <1> USE DEF ValidDocs
  <1>1. CASE tui'.pc = "closed" \/ tui'.pc = "open"
    BY <1>1
  <1>2. CASE UNCHANGED docs /\ tui'.pc = tui.pc
    BY <1>2
  <1>3. \A left : Leaves(left) => tui'.pc = "closed"
    BY DEF Leaves, Closed
  <1>4. tui.dialog # "none" => tui.pc = "open"
    BY DEF Session, Editing
  <1>5. CASE OpenEditor \/ CancelDialog \/ QuitFlow \/ ConfirmDiscard \/ TuiCrashes \/ WriteMinerToml
    BY <1>1, <1>2, <1>3, <1>4, <1>5
    DEF OpenEditor, CancelDialog, QuitFlow, ConfirmDiscard, TuiCrashes, WriteMinerToml, Closed, Opens,
        Unlocked, Session, TuiTyped
  <1>6. CASE ApplySetItems
    BY <1>1, <1>3, <1>6 DEF ApplySetItems
  <1>7. CASE SaveAndExit
    BY <1>1, <1>3, <1>7 DEF SaveAndExit
  <1>8. CASE WriteCkbToml
    BY <1>1, <1>3, <1>8 DEF WriteCkbToml
  <1>9. CASE \E kind \in {"edit", "add", "insert", "move", "delete"} : GuardedKey(kind)
    BY <1>1, <1>9 DEF GuardedKey, Opens, Unlocked, Session, TuiTyped
  <1>10. CASE ToggleSelectedOption \/ SelectAllOrNone \/ AddCustomValue
    BY <1>1, <1>4, <1>10 DEF ToggleSelectedOption, SelectAllOrNone, AddCustomValue, Selects, Session, TuiTyped
  <1>11. CASE EditFixedArraySelection \/ EditCurrentEntry \/ AddEntry
    BY <1>1, <1>4, <1>11 DEF EditFixedArraySelection, EditCurrentEntry, AddEntry, Answers, Session, TuiTyped
  <1>12. CASE InsertIntoArray \/ MoveInArray \/ DeleteEntry
    BY <1>1, <1>4, <1>12 DEF InsertIntoArray, MoveInArray, DeleteEntry, Answers, Session, TuiTyped
  <1> QED
    BY <1>5, <1>6, <1>7, <1>8, <1>9, <1>10, <1>11, <1>12 DEF TuiNext

LEMMA TemplatesValid ==
  ValidCkb(Bundled) /\ ValidCkb(Legacy) /\ ValidCkb(IsolateForkCkbConfig(Bundled))
  <1>1. {"Net", "Terminal"} \notin {Missing, {}} /\ {"Net"} \notin {Missing, {}} /\ {"Sync", "Identify"} # Missing
    BY MarkerAssumption DEF Options
  <1>2. \A toml \in Tomls : IsToml(toml)
    BY MarkerAssumption DEF IsToml
  <1> QED
    BY <1>1, <1>2, TemplatesTyped DEF ValidCkb, Bundled, Legacy, IsolateForkCkbConfig

(* Every writer of the two files leaves them valid. *)
LEMMA ValidFilesStep ==
  ASSUME TypeOK, ValidDocs, ValidFiles, [Next]_vars
  PROVE  ValidFiles'
  <1> USE TipAssumption, MarkerAssumption
      DEF TypeOK, bootVars, forkVars, tuiVars, ValidFiles, ValidDocs, Absent, Noted, Uncovered, DirIsRemoved, IdleFork, Forking, WriteForkState, IdleBoot, NoCkb, At, BootTyped
  <1>1. CASE InitReads(UnseenByBoot) /\ UNCHANGED <<forkVars, tuiVars, actors>>
    BY <1>1 DEF InitReads, UnseenByBoot
  <1>2. CASE (boot.pc = "copy" /\ \E f \in boot.left : Copies(f)) /\ UNCHANGED <<forkVars, tuiVars, actors>>
    <2>1. PICK f \in boot.left : Copies(f)
      BY <1>2
    <2>2. dir'.ckb \in {dir.ckb, Bundled} /\ dir'.miner \in {dir.miner, "raw"}
      BY <2>1 DEF Copies, RequiredConfigFiles, Template
    <2>3. boot'.pc = "copy" /\ gaps' = gaps
      BY <1>2, <2>1 DEF Copies
    <2> QED
      BY <2>2, <2>3, TemplatesValid DEF SaveableMiner
  <1>3. CASE InitRewrites /\ UNCHANGED <<forkVars, tuiVars, actors>>
    <2>1. dir'.ckb = dir.ckb /\ dir'.miner \in {dir.miner, "rpc"} /\ boot'.pc = "adapt" /\ gaps' = gaps
      BY <1>3 DEF InitRewrites, Dirs
    <2> QED
      BY <2>1 DEF SaveableMiner
  <1>4. CASE InitAdapts /\ UNCHANGED <<forkVars, tuiVars, actors>>
    <2>1. PICK new : Rewrites(new) /\ Adapted(new)
      BY <1>4, Adapting
    <2>2. dir.ckb \in CkbFiles /\ UNCHANGED dir /\ gaps \subseteq gaps' /\ boot.pc = "adapt"
      BY <1>4, Adapting DEF Dirs
    <2>3. ASSUME ~Uncovered({"misfit", "torn"})', boot'.pc = "rewrite"
          PROVE  ValidCkb(boot'.text)
      <3>1. new # dir.ckb /\ boot'.text = new
        BY <2>1, <2>2, <2>3 DEF Rewrites
      <3>2. dir.ckb \in Tomls
        BY <2>1, <2>2, <2>3, <3>1 DEF Adapted, CkbFiles, ValidCkb, IsToml
      <3>3. ValidCkb(dir.ckb)
        BY <2>2, <2>3, <3>2
      <3>4. /\ new \in Tomls /\ new.listen = dir.ckb.listen /\ new.protocols = dir.ckb.protocols
            /\ new.modules # Missing
        BY <2>1, <2>3, <3>2, <3>3 DEF Adapted, ValidCkb
      <3> QED
        BY <3>1, <3>3, <3>4 DEF ValidCkb, IsToml
    <2> QED
      BY <2>2, <2>3
  <1>5. CASE InitWrites /\ UNCHANGED <<forkVars, tuiVars, actors>> BY <1>5 DEF InitWrites
  <1>6. CASE InitFails /\ UNCHANGED <<forkVars, tuiVars, actors>> BY <1>6 DEF InitFails
  <1>7. CASE BootRefuses /\ UNCHANGED <<forkVars, tuiVars, actors>> BY <1>7 DEF BootRefuses
  <1>8. CASE BootSpawns /\ UNCHANGED <<forkVars, tuiVars, actors>> BY <1>8 DEF BootSpawns
  <1>9. CASE BootIsReady /\ UNCHANGED <<forkVars, tuiVars, actors>> BY <1>9 DEF BootIsReady
  <1>10. CASE BootFails /\ UNCHANGED <<forkVars, tuiVars, actors>> BY <1>10 DEF BootFails
  <1>11. CASE ClearSeesGenesis /\ UNCHANGED <<forkVars, tuiVars, actors>>
    BY <1>11 DEF ClearSeesGenesis
  <1>12. CASE (boot.pc = "tip" /\ ReadsTip /\ UNCHANGED <<ckb, other>>) /\ UNCHANGED <<forkVars, tuiVars, actors>>
    <2>1. boot'.pc # "rewrite" /\ gaps \subseteq gaps' /\ dir'.ckb = dir.ckb /\ dir'.miner = dir.miner
      BY <1>12 DEF ReadsTip, MarksComplete, Dirs
    <2> QED
      BY <2>1
  <1>13. CASE ClearGivesUp /\ UNCHANGED <<forkVars, tuiVars, actors>> BY <1>13 DEF ClearGivesUp
  <1>14. CASE BootMines /\ UNCHANGED <<forkVars, tuiVars, actors>> BY <1>14 DEF BootMines
  <1>15. CASE BootStops /\ UNCHANGED <<forkVars, tuiVars, actors>> BY <1>15 DEF BootStops
  <1>16. CASE BootDies /\ UNCHANGED <<forkVars, tuiVars, actors>>
    BY <1>16 DEF BootDies, BeingWritten, Breaks, SameChain, RequiredConfigFiles, Template
  <1>17. CASE CkbOpens /\ UNCHANGED <<forkVars, tuiVars, actors>> BY <1>17 DEF CkbOpens, CkbCanOpen
  <1>18. CASE CkbExits /\ UNCHANGED <<forkVars, tuiVars, actors>> BY <1>18 DEF CkbExits
  <1>19. CASE Mine /\ UNCHANGED <<forkVars, tuiVars, actors>> BY <1>19 DEF Mine
  <1>20. CASE OtherNext /\ UNCHANGED <<forkVars, tuiVars, actors>>
    BY <1>20 DEF OtherNext, OtherStarts, OtherStops
  <1>21. CASE ForkPreflights /\ UNCHANGED <<tuiVars, actors>> BY <1>21 DEF ForkPreflights
  <1>22. CASE ForkRefuses /\ UNCHANGED <<tuiVars, actors>> BY <1>22 DEF ForkRefuses
  <1>23. CASE ForkChecks /\ UNCHANGED <<tuiVars, actors>> BY <1>23 DEF ForkChecks
  <1>24. CASE ForkRemoves /\ UNCHANGED <<tuiVars, actors>> BY <1>24 DEF ForkRemoves
  <1>25. CASE CopyBegins /\ UNCHANGED <<tuiVars, actors>> BY <1>25 DEF CopyBegins
  <1>26. CASE CopyEnds /\ UNCHANGED <<tuiVars, actors>> BY <1>26 DEF CopyEnds
  <1>27. CASE RunCkbInit /\ UNCHANGED <<tuiVars, actors>>
    <2>1. dir'.ckb = Legacy /\ dir'.miner = "rpc" /\ gaps' = gaps /\ boot' = boot
      BY <1>27 DEF RunCkbInit, Dirs
    <2> QED
      BY <2>1, TemplatesValid DEF SaveableMiner
  <1>28. CASE PatchesSpec /\ UNCHANGED <<tuiVars, actors>> BY <1>28 DEF PatchesSpec
  <1>29. CASE Aligns /\ UNCHANGED <<tuiVars, actors>>
    <2>1. dir'.ckb = IsolateForkCkbConfig(Bundled) /\ dir'.miner = "rpc" /\ gaps' = gaps /\ boot' = boot
      BY <1>29 DEF Aligns, AlignConfigsWithOffckb, Dirs
    <2> QED
      BY <2>1, TemplatesValid DEF SaveableMiner
  <1>30. CASE MigrateDatabaseCopy /\ UNCHANGED <<tuiVars, actors>> BY <1>30 DEF MigrateDatabaseCopy
  <1>31. CASE ForkRecords /\ UNCHANGED <<tuiVars, actors>> BY <1>31 DEF ForkRecords
  <1>32. CASE ForkRollsBack /\ UNCHANGED <<tuiVars, actors>> BY <1>32 DEF ForkRollsBack
  <1>33. CASE ForkDies /\ UNCHANGED <<tuiVars, actors>>
    <2>1. CASE "torn" \in gaps'
      BY <2>1
    <2>2. CASE "torn" \notin gaps'
      <3>1. dir'.ckb = dir.ckb /\ dir'.miner = dir.miner /\ gaps \subseteq gaps' /\ boot' = boot
        BY <1>33, <2>2 DEF ForkDies, Dirs
      <3> QED
        BY <3>1
    <2> QED
      BY <2>1, <2>2
  <1>34. CASE ValidateMainnetForkSigning /\ UNCHANGED <<tuiVars, actors>>
    BY <1>34 DEF ValidateMainnetForkSigning
  <1>35. CASE SendTransaction /\ UNCHANGED <<tuiVars, actors>> BY <1>35 DEF SendTransaction
  <1>36. CASE SignGivesUp /\ UNCHANGED <<tuiVars, actors>> BY <1>36 DEF SignGivesUp
  <1>37. CASE SavesCkb /\ UNCHANGED <<bootVars, forkVars, actors>>
    <2>1. dir'.ckb = docs.ckb /\ dir'.miner = dir.miner /\ gaps \subseteq gaps' /\ boot' = boot
      BY <1>37 DEF SavesCkb, Dirs
    <2>2. ValidCkb(docs.ckb)
      BY <1>37 DEF SavesCkb, ValidateBeforeSave, SaveableCkb, ValidCkb, IsToml
    <2> QED
      BY <2>1, <2>2
  <1>38. CASE SavesMiner /\ UNCHANGED <<bootVars, forkVars, actors>>
    <2>1. dir'.ckb = dir.ckb /\ dir'.miner = docs.miner /\ gaps \subseteq gaps' /\ boot' = boot
      BY <1>38 DEF SavesMiner, Dirs
    <2>2. SaveableMiner(docs.miner)
      BY <1>38 DEF SavesMiner, ValidateBeforeSave
    <2> QED
      BY <2>1, <2>2
  <1>39. CASE SavesNothing /\ UNCHANGED <<bootVars, forkVars, actors>> BY <1>39 DEF SavesNothing
  <1>40. CASE UNCHANGED vars BY <1>40 DEF vars
  <1> QED
    BY Copying, ReadingTip, BootDying, ForkDying, Saving, <1>1, <1>2, <1>3, <1>4, <1>5, <1>6, <1>7, <1>8, <1>9, <1>10, <1>11, <1>12, <1>13, <1>14, <1>15, <1>16, <1>17, <1>18, <1>19, <1>20, <1>21, <1>22, <1>23, <1>24, <1>25, <1>26, <1>27, <1>28, <1>29, <1>30, <1>31, <1>32, <1>33, <1>34, <1>35, <1>36, <1>37, <1>38, <1>39, <1>40
    DEF Next, Saves, BootNext, ForkSteps, SignSteps

(* What was noted stays noted, and a torn file comes with a crash. *)
LEMMA GapsKept ==
  ASSUME TypeOK, [Next]_vars
  PROVE  /\ gaps \subseteq gaps'
         /\ "torn" \in gaps' => "torn" \in gaps \/ "crash" \in gaps'
  <1> USE DEF Noted, bootVars, forkVars
  <1>1. CASE InitReads(UnseenByBoot) \/ InitCopies \/ InitRewrites \/ InitAdapts \/ InitWrites \/ InitFails
    BY <1>1 DEF InitReads, UnseenByBoot, InitCopies, InitRewrites, InitAdapts, InitWrites, InitFails
  <1>2. CASE BootRefuses \/ BootSpawns \/ BootIsReady \/ BootFails
    BY <1>2 DEF BootRefuses, BootSpawns, BootIsReady, BootFails
  <1>3. CASE ClearSeesGenesis \/ ClearReadsTip \/ ClearGivesUp
    BY <1>3 DEF ClearSeesGenesis, ClearReadsTip, ClearGivesUp
  <1>4. CASE BootMines \/ BootStops \/ BootDies BY <1>4 DEF BootMines, BootStops, BootDies
  <1>5. CASE CkbOpens \/ CkbExits \/ Mine \/ OtherNext
    BY <1>5 DEF CkbOpens, CkbExits, Mine, OtherNext, OtherStarts, OtherStops
  <1>6. CASE ForkPreflights \/ ForkRefuses \/ ForkChecks \/ ForkRemoves \/ CopyBegins
    BY <1>6 DEF ForkPreflights, ForkRefuses, ForkChecks, ForkRemoves, CopyBegins, OutOfDate
  <1>7. CASE CopyEnds \/ RunCkbInit \/ PatchesSpec \/ Aligns \/ MigrateDatabaseCopy
    BY <1>7 DEF CopyEnds, RunCkbInit, PatchesSpec, Aligns, MigrateDatabaseCopy
  <1>8. CASE ForkRecords \/ ForkRollsBack \/ ForkDies
    BY <1>8 DEF ForkRecords, ForkRollsBack, ForkDies, OutOfDate
  <1>9. CASE SignSteps
    BY <1>9 DEF SignSteps, ValidateMainnetForkSigning, SendTransaction, SignGivesUp
  <1>10. CASE Saves BY <1>10 DEF Saves, SavesCkb, SavesMiner, SavesNothing, OutdatedFiles, ChangedPeers
  <1>11. CASE UNCHANGED vars BY <1>11 DEF vars
  <1> QED
    BY BootDying, ForkDying, Saving, <1>1, <1>2, <1>3, <1>4, <1>5, <1>6, <1>7, <1>8, <1>9, <1>10, <1>11
    DEF Next, BootNext, ForkSteps, TypeOK

Running == {"wait", "clear", "tip", "mine", "up"}
SameFiles ==
  dir'.exists = dir.exists /\ \A f \in RequiredConfigFiles : dir'[f] = dir[f]

(* With no crash, no overlap and no editor, each step of a boot keeps what *)
(* the steps before it have repaired. *)
LEMMA RepairingStep ==
  ASSUME TypeOK, Repairing,
         fork.pc \in Replacing => boot.pc = "idle", boot.pc # "idle" => dir.exists,
         dir.ckb # Missing => ValidCkb(dir.ckb), {"crash", "overlap", "misfit"} \cap gaps' = {},
         \/ BootNext(UnseenByBoot) \/ OtherNext \/ ForkSteps \/ SignSteps
         \/ UNCHANGED vars
  PROVE  Repairing'
  <1>1. RequiredConfigFiles = {"ckb", "miner", "spec"}
    BY DEF RequiredConfigFiles, Template
  <1>2. ASSUME boot'.pc = "idle", dir'.miner # "raw"
        PROVE  Repairing'
    BY <1>2 DEF Repairing
  <1>3. boot.pc # "copy" => dir.miner # "raw"
    BY DEF Repairing
  <1>4. CASE SameFiles /\ UNCHANGED boot
    BY <1>1, <1>4
    DEF SameFiles, Repairing, FilesThere, IsInitialized, DevnetConfigHasTerminalRpc, KeptBy
  <1>5. CASE /\ SameFiles /\ boot.pc \in Running /\ boot'.pc \in Running
             /\ boot'.had = boot.had /\ boot'.version = boot.version
    BY <1>1, <1>3, <1>5
    DEF Running, SameFiles, Repairing, FilesThere, IsInitialized, DevnetConfigHasTerminalRpc, KeptBy
  <1>6. CASE InitReads(UnseenByBoot)
    <2>1. /\ boot'.pc = IF IsInitialized THEN "adapt" ELSE "copy"
          /\ boot'.left = IF IsInitialized THEN {} ELSE RequiredConfigFiles
          /\ boot'.had = dir.ckb /\ boot'.minerWas = (dir.miner = Missing)
      BY <1>6 DEF InitReads
    <2>2. dir'.exists /\ \A f \in RequiredConfigFiles : dir'[f] = dir[f]
      BY <1>1, <1>6 DEF InitReads, TypeOK, Dirs
    <2>3. dir.miner # "raw" /\ dir'.ckb = dir.ckb /\ dir'.miner = dir.miner
      BY <1>1, <1>3, <1>6, <2>2 DEF InitReads
    <2>4. CASE IsInitialized
      <3>1. FilesThere'
        BY <2>2, <2>3, <2>4 DEF FilesThere, IsInitialized
      <3> QED
        BY <2>1, <2>3, <2>4, <3>1 DEF Repairing
    <2>5. CASE ~IsInitialized
      BY <2>1, <2>2, <2>3, <2>5 DEF Repairing
    <2> QED
      BY <2>4, <2>5
  <1>7. CASE boot.pc = "copy" /\ \E f \in boot.left : Copies(f)
    <2>1. PICK f \in boot.left : Copies(f)
      BY <1>7
    <2>2. f \in RequiredConfigFiles
      BY DEF TypeOK, BootTyped
    <2>3. /\ boot'.pc = "copy" /\ boot'.left = boot.left \ {f} /\ boot'.had = boot.had
          /\ boot'.minerWas = boot.minerWas
      BY <1>7, <2>1 DEF Copies, TypeOK, BootTyped
    <2>4. \A g \in RequiredConfigFiles : dir[g] # Missing => dir'[g] = dir[g]
      BY <2>1, <2>2 DEF Copies
    <2>5. dir'[f] # Missing
      BY <1>1, <2>1, <2>2, MarkerAssumption, TemplatesTyped DEF Copies, Template
    <2>6. \A g \in RequiredConfigFiles \ (boot.left \ {f}) : dir'[g] # Missing
      BY <1>7, <2>1, <2>4, <2>5 DEF Repairing
    <2>7. ~boot.minerWas => dir'.miner \notin {Missing, "raw"}
      BY <1>1, <1>7, <2>4 DEF Repairing
    <2>8. boot.had # Missing => dir'.ckb = boot.had
      BY <1>1, <1>7, <2>4 DEF Repairing
    <2> QED
      BY <2>3, <2>6, <2>7, <2>8 DEF Repairing, TypeOK, BootTyped
  <1>8. CASE InitRewrites
    <2>1. boot'.pc = "adapt" /\ boot'.had = boot.had /\ dir.exists /\ boot.pc = "copy" /\ boot.left = {}
      BY <1>8 DEF InitRewrites, TypeOK, BootTyped
    <2>2. /\ dir'.exists /\ dir'.ckb = dir.ckb /\ dir'.spec = dir.spec
          /\ dir'.miner = IF boot.minerWas THEN "rpc" ELSE dir.miner
      BY <1>8, <2>1 DEF InitRewrites, TypeOK, Dirs
    <2>3. dir.ckb # Missing /\ dir.spec # Missing /\ dir'.miner \notin {Missing, "raw"}
      BY <1>1, <2>1, <2>2, MarkerAssumption DEF Repairing
    <2>4. FilesThere'
      BY <1>1, <2>2, <2>3 DEF FilesThere, IsInitialized
    <2> QED
      BY <2>1, <2>2, <2>3, <2>4 DEF Repairing
  <1>9. CASE InitAdapts
    <2>1. PICK new : Rewrites(new) /\ Adapted(new)
      BY <1>9, Adapting
    <2>2. boot.pc = "adapt" /\ UNCHANGED dir /\ "misfit" \notin gaps' /\ dir.ckb \in CkbFiles
      BY <1>9, Adapting DEF TypeOK, Dirs
    <2>3. /\ boot'.pc = IF new = dir.ckb THEN "spawn" ELSE "rewrite"
          /\ boot'.had = boot.had /\ boot'.text = IF new = dir.ckb THEN boot.text ELSE new
      BY <2>1 DEF Rewrites, TypeOK, BootTyped
    <2>4. FilesThere /\ (boot.had # Missing => dir.ckb = boot.had) /\ ValidCkb(dir.ckb)
      BY <1>1, <2>2 DEF Repairing, FilesThere, IsInitialized
    <2>5. FilesThere'
      BY <2>2, <2>4 DEF FilesThere, IsInitialized
    <2>6. IsToml(boot.had) => KeptBy(boot.had, new)
      <3>1. dir.ckb \in Tomls
        BY <2>2, <2>4 DEF CkbFiles, ValidCkb, IsToml
      <3>2. new # Broken
        BY <2>1, <2>2, <3>1, MarkerAssumption DEF Adapted
      <3> QED
        BY <2>1, <2>4, <3>1, <3>2 DEF Adapted, IsToml
    <2>7. new # Missing
      BY <2>1, <2>2, <2>4, MarkerAssumption DEF Adapted, ValidCkb, IsToml, CkbFiles
    <2> QED
      BY <2>2, <2>3, <2>4, <2>5, <2>6, <2>7 DEF Repairing
  <1>10. CASE InitWrites
    <2>1. /\ boot.pc = "rewrite" /\ boot'.pc = "spawn" /\ boot'.had = boot.had
          /\ dir'.exists /\ dir'.ckb = boot.text /\ dir'.miner = dir.miner /\ dir'.spec = dir.spec
      BY <1>10 DEF InitWrites, TypeOK, BootTyped, Dirs
    <2>2. FilesThere /\ boot.text # Missing
      BY <1>10 DEF InitWrites, Repairing
    <2>3. FilesThere'
      BY <1>1, <2>1, <2>2 DEF FilesThere, IsInitialized
    <2>4. IsToml(boot.had) => KeptBy(boot.had, dir'.ckb)
      BY <2>1 DEF Repairing
    <2> QED
      BY <2>1, <2>3, <2>4 DEF Repairing, FilesThere
  <1>11. CASE InitFails \/ BootRefuses \/ BootFails \/ BootStops
    BY <1>2, <1>3, <1>11 DEF InitFails, BootRefuses, BootFails, BootStops, IdleBoot
  <1>12. CASE BootSpawns
    <2>1. /\ boot.pc = "spawn" /\ boot'.pc = "wait" /\ boot'.had = boot.had
          /\ boot'.version = boot.version /\ UNCHANGED dir
      BY <1>12 DEF BootSpawns, TypeOK, BootTyped
    <2>2. boot.version = "old" => ~DevnetConfigHasTerminalRpc(dir.ckb)
      BY <1>12 DEF BootSpawns, SupportsTerminalRpcModule
    <2> QED
      BY <1>3, <2>1, <2>2 DEF Repairing, FilesThere, IsInitialized, DevnetConfigHasTerminalRpc
  <1>13. CASE BootIsReady \/ ClearSeesGenesis \/ ClearGivesUp \/ BootMines
    BY <1>5, <1>13
    DEF BootIsReady, ClearSeesGenesis, ClearGivesUp, BootMines, At, Running, SameFiles, TypeOK, BootTyped
  <1>14. CASE boot.pc = "tip" /\ ReadsTip
    <2>1. SameFiles
      BY <1>1, <1>14 DEF ReadsTip, MarksComplete, SameFiles, TypeOK, Dirs
    <2> QED
      BY <1>5, <1>14, <2>1 DEF ReadsTip, Running, TypeOK, BootTyped
  <1>15. CASE BootDies
    <2>1. boot'.pc = "idle" /\ UNCHANGED dir /\ boot.pc # "copy"
      BY <1>15 DEF BootDies, IdleBoot, Noted, Initialising
    <2> QED
      BY <1>2, <1>3, <2>1
  <1>16. CASE CkbOpens \/ CkbExits \/ Mine \/ OtherNext \/ SignSteps \/ UNCHANGED vars
    BY <1>1, <1>4, <1>16
    DEF CkbOpens, CkbExits, Mine, OtherNext, OtherStarts, OtherStops, SignSteps, SendTransaction,
        ValidateMainnetForkSigning, SignGivesUp, vars, bootVars, SameFiles, TypeOK, Dirs
  <1>17. CASE ForkPreflights \/ ForkRefuses \/ ForkChecks
    BY <1>1, <1>4, <1>17 DEF ForkPreflights, ForkRefuses, ForkChecks, bootVars, SameFiles
  <1>18. CASE fork.pc \in Replacing /\ UNCHANGED boot /\ dir'.miner \in {dir.miner, "rpc", Missing}
    BY <1>2, <1>3, <1>18, MarkerAssumption
  <1>19. CASE ForkRemoves \/ ForkRollsBack \/ CopyBegins
    <2>1. CASE DirIsRemoved /\ fork.pc \in Replacing
      BY <1>18, <2>1 DEF DirIsRemoved, Absent
    <2>2. CASE CopyBegins
      BY <1>18, <2>2 DEF CopyBegins, Replacing, bootVars, TypeOK, Dirs
    <2> QED
      BY <1>19, <2>1, <2>2 DEF ForkRemoves, ForkRollsBack, Replacing
  <1>20. CASE CopyEnds \/ RunCkbInit \/ PatchesSpec
    BY <1>18, <1>20 DEF CopyEnds, RunCkbInit, PatchesSpec, Replacing, bootVars, TypeOK, Dirs
  <1>21. CASE Aligns \/ MigrateDatabaseCopy \/ ForkRecords
    BY <1>18, <1>21
    DEF Aligns, AlignConfigsWithOffckb, MigrateDatabaseCopy, ForkRecords, WriteForkState, Replacing,
        bootVars, TypeOK, Dirs
  <1>22. CASE ForkDies
    <2>1. UNCHANGED <<dir, boot>>
      BY <1>22 DEF ForkDies, Noted, Replacing, bootVars
    <2> QED
      BY <1>1, <1>4, <2>1 DEF SameFiles
  <1> QED
    BY Copying, ReadingTip, BootDying, ForkDying, <1>6, <1>7, <1>8, <1>9, <1>10, <1>11, <1>12, <1>13,
       <1>14, <1>15, <1>16, <1>17, <1>19, <1>20, <1>21, <1>22
    DEF BootNext, ForkSteps

LEMMA RepairedStep ==
  ASSUME TypeOK, Beside, Repaired, ValidFiles, [Next]_vars
  PROVE  Repaired'
  <1>1. gaps \subseteq gaps' /\ ("torn" \in gaps' => "torn" \in gaps \/ "crash" \in gaps')
    BY GapsKept
  <1>2. UNCHANGED actors
    BY DEF Next, vars
  <1>3. ASSUME "edit" \notin actors, {"crash", "overlap", "misfit"} \cap gaps' = {}
        PROVE  Repairing'
    <2>1. {"crash", "overlap", "misfit", "torn"} \cap gaps = {} /\ Repairing
      BY <1>1, <1>3 DEF Repaired, Uncovered
    <2>2. /\ fork.pc \in Replacing => boot.pc = "idle"
          /\ boot.pc # "idle" => dir.exists
          /\ dir.ckb # Missing => ValidCkb(dir.ckb)
      BY <2>1 DEF Beside, ValidFiles, Uncovered
    <2> QED
      BY <1>3, <2>1, <2>2, RepairingStep DEF Next
  <1> QED
    BY <1>1, <1>2, <1>3 DEF Repaired, Uncovered

-----------------------------------------------------------------------------
LEMMA InitFound ==
  ASSUME Init
  PROVE  Found(dir) /\ dir \in Dirs /\ gaps \subseteq Gaps /\ {"crash", "torn"} \cap gaps = {}
  <1>1. Found(dir)
    BY FoundAssumption DEF Init
  <1>2. gaps \in {{}, {"unlisted"}}
    BY DEF Init
  <1> QED
    BY <1>1, <1>2 DEF Found, Gaps

LEMMA InitTyped ==
  ASSUME Init
  PROVE  TypeOK
  <1>1. BootTyped
    BY DEF Init, FirstRunInit, IdleBoot, NoCkb, BootTyped, CkbFiles
  <1>2. ForkTyped
    <2>1. NoCheck \in 0 .. NoCheck
      BY TipAssumption DEF NoCheck
    <2>2. sign \in [pc : {"idle", "send"}, boundary : 0 .. NoCheck]
      BY <2>1 DEF Init, ForkInit, IdleSign
    <2> QED
      BY <2>2 DEF Init, ForkInit, IdleFork, ForkTyped
  <1>3. TuiTyped
    BY DEF Init, TuiInit, Closed, TuiTyped, Entries
  <1> QED
    BY <1>1, <1>2, <1>3, InitFound DEF TypeOK

(* What the commands find satisfies the invariant. *)
LEMMA InitInv ==
  ASSUME Init
  PROVE  DirInv
  <1> USE InitFound, MarkerAssumption
      DEF Init, FirstRunInit, ForkInit, TuiInit, IdleBoot, NoCkb, IdleFork, IdleSign, Closed
  <1>1. Removed
    <2>1. ~dir.exists => dir = Absent
      BY DEF Found
    <2> QED
      BY <2>1 DEF Removed, Absent
  <1>2. Beside
    BY DEF Beside, Replacing
  <1>3. Progress
    BY DEF Progress, Replacing, Found, FoundFork, Complete
  <1>4. Flagged
    BY DEF Flagged, FirstRunFlagged, Forked, Found, FoundFork
  <1>5. Bounded
    BY DEF Bounded, SignedInputsLocal, Forked, Found, FoundFork
  <1>6. Isolated
    BY DEF Isolated, Forked, Found, FoundFork, KeepsIsolation
  <1>7. Repaired
    BY DEF Repaired, Repairing, Uncovered, Found
  <1>8. ValidFiles
    <2>1. dir.ckb # Missing => ValidCkb(dir.ckb)
      BY DEF Found
    <2> QED
      BY <2>1 DEF ValidFiles, Uncovered, Found, SaveableMiner
  <1>9. ValidDocs
    BY DEF ValidDocs
  <1>10. Session
    BY InitTyped DEF Session, TypeOK, Editing, EditsTracked
  <1> QED
    BY <1>1, <1>2, <1>3, <1>4, <1>5, <1>6, <1>7, <1>8, <1>9, <1>10 DEF DirInv

(* The inductive step. *)
LEMMA NextInv ==
  ASSUME TypeOK, DirInv, [Next]_vars
  PROVE  TypeOK' /\ DirInv'
  <1>1. TypeOK' /\ Session'
    BY NextTyped DEF DirInv, Session
  <1>2. Removed' /\ Beside' /\ Progress'
    BY RemovedStep, BesideStep, ProgressStep DEF DirInv
  <1>3. Flagged' /\ Bounded'
    BY FlaggedStep, BoundedStep DEF DirInv
  <1>4. Isolated'
    BY IsolatedStep DEF DirInv, Session
  <1>5. ValidFiles' /\ Repaired'
    BY ValidFilesStep, RepairedStep DEF DirInv
  <1>6. ValidDocs'
    <2>1. CASE TuiNext
      BY <2>1, ValidDocsStep DEF DirInv
    <2>2. CASE UNCHANGED tuiVars
      BY <2>2 DEF DirInv, ValidDocs, tuiVars
    <2> QED
      BY <2>1, <2>2 DEF Next, vars, ForkSteps, SignSteps, tuiVars
  <1> QED
    BY <1>1, <1>2, <1>3, <1>4, <1>5, <1>6 DEF DirInv

LEMMA Invariance == Spec => [](TypeOK /\ DirInv)
  <1>1. Init => TypeOK /\ DirInv
    BY InitTyped, InitInv
  <1>2. TypeOK /\ DirInv /\ [Next]_vars => (TypeOK /\ DirInv)'
    BY NextInv
  <1> QED
    BY <1>1, <1>2, PTL DEF Spec

(* Every variable has its type: the commands write only files that the      *)
(* others can read.                                                         *)
THEOREM DirTyped == Spec => []TypeOK
  BY Invariance, PTL

(* No half-forked devnet is left behind: copied chain data stands only in a *)
(* directory with its patched spec, its migrated database and its           *)
(* fork.json, unless the fork was killed or a node was starting beside it   *)
(* (forkDevnet, fork.ts).                                                   *)
THEOREM ForkIsAllOrNothing == Spec => []ForkAllOrNothing
  <1>1. DirInv => ForkAllOrNothing
    BY DEF DirInv, Progress, ForkAllOrNothing, Complete, Forked, Uncovered
  <1> QED
    BY Invariance, <1>1, PTL

(* The first-run flags of a fork stay until its own database has its spec   *)
(* (clearForkFirstRunWhenNodeUp, node.ts).                                  *)
THEOREM FlagsStay == Spec => []FirstRunFlagged
  <1>1. DirInv => FirstRunFlagged
    BY DEF DirInv, Flagged
  <1> QED
    BY Invariance, <1>1, PTL

(* No signed transaction spends a cell copied from Mainnet                  *)
(* (validateMainnetForkSigning and assertInputsCreatedAfter,                *)
(* fork-safety.ts).                                                         *)
THEOREM NoCopiedInput == Spec => []SignedInputsLocal
  <1>1. DirInv => SignedInputsLocal
    BY DEF DirInv, Bounded
  <1> QED
    BY Invariance, <1>1, PTL

(* A fork has no peers, whatever boots, migrates and saves follow it        *)
(* (isolateForkCkbConfig, fork.ts).                                         *)
THEOREM ForkHasNoPeers == Spec => []ForkIsolated
  <1>1. DirInv => ForkIsolated
    BY DEF DirInv, Isolated, ForkIsolated, KeepsIsolation
  <1> QED
    BY Invariance, <1>1, PTL

(* A boot repairs an incomplete directory and keeps what the user has       *)
(* (initChainIfNeeded, init-chain.ts).                                      *)
THEOREM BootKeepsAndRepairs == Spec => []BootRepairs
  <1>1. DirInv => BootRepairs
    BY DEF DirInv, Repaired, Repairing, FilesThere, BootRepairs
  <1> QED
    BY Invariance, <1>1, PTL

(* A valid configuration stays valid, whatever is edited, saved, migrated   *)
(* or forked (validateBeforeSave, config-editor.ts).                        *)
THEOREM ConfigValid == Spec => []ConfigStaysValid
  <1>1. DirInv => ConfigStaysValid
    BY DEF DirInv, ValidFiles, ValidCkb, ConfigStaysValid
  <1> QED
    BY Invariance, <1>1, PTL

(* An editor with edits is not left without asking (quitFlow, tui).         *)
THEOREM EditsAreTracked == Spec => []EditsTracked
  <1>1. DirInv => EditsTracked
    BY DEF DirInv, Session, Editing
  <1> QED
    BY Invariance, <1>1, PTL
=============================================================================
