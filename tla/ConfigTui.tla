------------------------------ MODULE ConfigTui ------------------------------
(***************************************************************************)
(* offckb devnet config: the terminal interface of the editor and its      *)
(* --set form (src/src/tui, src/src/cmd/devnet-config.ts).                 *)
(*                                                                         *)
(* A key opens a dialog and locks the other keys until it is answered.     *)
(* The files are read once, and written one after the other at the end.    *)
(***************************************************************************)
EXTENDS ConfigEditor

CONSTANTS
  MaxSessions, \* bound, by actors: so many times the editor is opened
  MaxEdits,    \* bound, by actors: dialogs of one session
  CustomModule \* a module name that is not among the known options

VARIABLES
  docs,    \* the documents in memory
  loaded,  \* history: the documents as they were read
  tui      \* the rest of the session

tuiVars == <<docs, loaded, tui>>

Closed(n, left, unsaved) ==
  [pc |-> "closed", dialog |-> "none", entry |-> <<>>, selected |-> {}, dirty |-> FALSE,
   edits |-> 0, left |-> left, unsaved |-> unsaved, opened |-> n]
TuiInit ==
  /\ docs = NoDocs /\ loaded = NoDocs
  /\ tui = Closed(0, "no", FALSE)

Leaves(left) ==
  /\ tui' = Closed(tui.opened, left, docs # loaded)
  /\ docs' = NoDocs /\ loaded' = NoDocs
Unlocked == tui.pc = "open" /\ tui.dialog = "none"

OpenEditor ==
  /\ tui.pc = "closed" /\ tui.opened < MaxSessions[actors]
  /\ docs' \in CreateDevnetConfigEditor(dir)
  /\ loaded' = docs'
  /\ tui' = [Closed(tui.opened + 1, "no", FALSE) EXCEPT !.pc = "open"]
  /\ UNCHANGED <<dir, gaps>>

(* --set key=value ...: every item is applied, then all is saved; an item   *)
(* that is refused ends the command with nothing written.                   *)
ApplySetItems ==
  /\ Unlocked /\ tui.edits = 0
  /\ \E listen, url \in {"ok", "bad"} :
       LET results == {new \in UNION {SetFieldValue(d, "miner", url) :
                                       d \in SetFieldValue(docs, "listen", listen)} :
                         ValidateBeforeSave(new)}
       IN IF results = {} THEN Leaves("refused")
          ELSE /\ docs' \in results
               /\ tui' = [tui EXCEPT !.pc = "write"]
               /\ UNCHANGED loaded
  /\ UNCHANGED <<dir, gaps>>

-----------------------------------------------------------------------------
(* Dialogs.  An array with a fixed list of options is always edited by a    *)
(* selection, whichever key was pressed on it.                              *)
ResolveFixedArrayTarget(path) == Len(path) = 1 /\ path[1] \in FixedArrays

Opens(kind, entry, selected) ==
  /\ Unlocked
  /\ tui' = [tui EXCEPT !.dialog = kind, !.entry = entry, !.selected = selected,
                        !.edits = @ + IF kind = "quit" THEN 0 ELSE 1]
  /\ UNCHANGED <<dir, gaps, docs, loaded>>

ResolveArrayTarget(path) == path[1] \in {"addrs", "isolated"}
HasDialog(kind, path) ==
  \/ kind = "edit" /\ (path[1] \in ValidatedFields \cup {"tcp", "isolated"} \/ Len(path) = 2)
  \/ kind = "add" /\ path \in {<<"rpc">>, <<"addrs">>, <<"isolated">>}
  \/ kind \in {"insert", "move"} /\ ResolveArrayTarget(path)
  \/ kind = "delete"

GuardedKey(kind) ==
  /\ Unlocked /\ tui.edits < MaxEdits[actors]
  /\ \E entry \in GetEntriesForDocument(docs) :
       \/ /\ ResolveFixedArrayTarget(entry)
          /\ Opens("select", entry, GetByPath(docs, entry))
       \/ /\ ~ResolveFixedArrayTarget(entry) /\ HasDialog(kind, entry)
          /\ Opens(kind, entry, {})

CancelDialog ==
  /\ tui.dialog # "none"
  /\ tui' = [tui EXCEPT !.dialog = "none", !.entry = <<>>, !.selected = {}]
  /\ UNCHANGED <<dir, gaps, docs, loaded>>

(* The selection dialog: space, Ctrl+a, Ctrl+d, c.                          *)
KnownOptions(array) ==
  IF array = "modules" THEN {"Net", "Terminal"} ELSE {"Sync", "Identify"}
OptionList == KnownOptions(tui.entry[1]) \cup GetByPath(docs, tui.entry) \cup tui.selected
Selects(values) ==
  /\ tui.selected # values
  /\ tui' = [tui EXCEPT !.selected = values]
  /\ UNCHANGED <<dir, gaps, docs, loaded>>
ToggleSelectedOption ==
  /\ tui.dialog = "select"
  /\ \E o \in OptionList :
       Selects(IF o \in tui.selected THEN tui.selected \ {o} ELSE tui.selected \cup {o})
SelectAllOrNone ==
  /\ tui.dialog = "select"
  /\ \E values \in {OptionList, {}} : Selects(values)
AddCustomValue ==
  /\ tui.dialog = "select" /\ tui.entry = <<"modules">>
  /\ Selects(tui.selected \cup {CustomModule})

(* An answer: an operation that throws is reported and changes nothing.     *)
(* Mutant: the flag tells whether the last answer changed something.        *)
AnswersLast(results) ==
  /\ \/ results = {} /\ UNCHANGED docs
     \/ docs' \in results
  /\ tui' = [tui EXCEPT !.dialog = "none", !.entry = <<>>, !.selected = {},
                        !.dirty = results # {}]
  /\ UNCHANGED <<dir, gaps, loaded>>

Answers(results) ==
  /\ \/ results = {} /\ UNCHANGED docs
     \/ docs' \in results
  /\ tui' = [tui EXCEPT !.dialog = "none", !.entry = <<>>, !.selected = {},
                        !.dirty = @ \/ results # {}]
  /\ UNCHANGED <<dir, gaps, loaded>>

EditFixedArraySelection ==
  /\ tui.dialog = "select"
  /\ Answers(SetArrayValues(docs, tui.entry[1], tui.selected))

EditCurrentEntry ==
  /\ tui.dialog = "edit"
  /\ \E value \in {"ok", "bad"} : Answers(SetDocumentValue(docs, tui.entry, value))

(* What is stored for an answer that is valid for the key, or is not.       *)
Entered(field, value) ==
  CASE field = "miner" /\ value = "ok" -> "rpc"
    [] field = "tcp" /\ value = "bad"  -> "odd"
    [] OTHER -> value

AddEntry ==
  /\ tui.dialog = "add"
  /\ \/ /\ tui.entry = <<"rpc">>
        /\ \E field \in ValidatedFields \cup {"tcp"}, value \in {"ok", "bad"} :
             Answers(AddObjectEntry(docs, field, Entered(field, value)))
     \/ /\ tui.entry = <<"addrs">> /\ Len(Items(docs)) < MaxItems
        /\ Answers(AppendArrayEntry(docs, "q"))
     \/ tui.entry = <<"isolated">> /\ Answers(AddBootnode(docs))

InsertIntoArray ==
  /\ tui.dialog = "insert"
  /\ \/ /\ tui.entry[1] = "addrs" /\ Len(Items(docs)) < MaxItems
        /\ \E index \in 0 .. MaxItems : Answers(InsertArrayEntry(docs, index, "q"))
     \/ tui.entry = <<"isolated">> /\ Answers(AddBootnode(docs))

MoveInArray ==
  /\ tui.dialog = "move"
  /\ \/ /\ tui.entry[1] = "addrs"
        /\ \E from, to \in 0 .. MaxItems : Answers(MoveArrayEntry(docs, from, to))
     \/ tui.entry = <<"isolated">> /\ Answers({docs})

DeleteEntry ==
  /\ tui.dialog = "delete"
  /\ Answers(DeleteDocumentPath(docs, tui.entry))

-----------------------------------------------------------------------------
(* q: at once when nothing is unsaved, otherwise after a confirmation.      *)
QuitFlow ==
  \/ Unlocked /\ tui.dirty /\ Opens("quit", <<>>, {})
  \/ Unlocked /\ ~tui.dirty /\ Leaves("clean") /\ UNCHANGED <<dir, gaps>>
ConfirmDiscard ==
  /\ tui.dialog = "quit"
  /\ Leaves("discarded")
  /\ UNCHANGED <<dir, gaps>>

(* s: save() validates, then writes two files.  What it throws is caught by *)
(* nobody: the process ends, and the edits with it.                         *)
SaveAndExit ==
  /\ Unlocked
  /\ IF ValidateBeforeSave(docs)
     THEN tui' = [tui EXCEPT !.pc = "write"] /\ UNCHANGED <<docs, loaded>>
     ELSE Leaves("threw")
  /\ UNCHANGED <<dir, gaps>>

OutdatedFiles == IF Docs(dir) # loaded THEN {"stale"} ELSE {}
ChangedPeers == IF docs.ckb.isolated # loaded.ckb.isolated THEN {"peers"} ELSE {}
WriteCkbToml ==
  /\ tui.pc = "write"
  /\ IF dir.exists
     THEN /\ dir' = [dir EXCEPT !.ckb = docs.ckb]
          /\ tui' = [tui EXCEPT !.pc = "writeMiner"]
          /\ Noted(OutdatedFiles \cup ChangedPeers)
          /\ UNCHANGED <<docs, loaded>>
     ELSE Leaves("threw") /\ UNCHANGED <<dir, gaps>>

WriteMinerToml ==
  /\ tui.pc = "writeMiner"
  /\ IF dir.exists
     THEN dir' = [dir EXCEPT !.miner = docs.miner] /\ Leaves("saved")
     ELSE Leaves("threw") /\ UNCHANGED dir
  /\ Noted(IF dir.ckb # docs.ckb THEN {"stale"} ELSE {})

TuiCrashes ==
  /\ tui.pc # "closed"
  /\ Leaves("threw")
  /\ Noted(IF tui.pc = "writeMiner" THEN {"crash"} ELSE {})
  /\ UNCHANGED dir

TuiNext ==
  \/ OpenEditor \/ ApplySetItems
  \/ \E kind \in {"edit", "add", "insert", "move", "delete"} : GuardedKey(kind)
  \/ CancelDialog \/ ToggleSelectedOption \/ SelectAllOrNone \/ AddCustomValue
  \/ EditFixedArraySelection \/ EditCurrentEntry \/ AddEntry
  \/ InsertIntoArray \/ MoveInArray \/ DeleteEntry
  \/ QuitFlow \/ ConfirmDiscard \/ SaveAndExit \/ WriteCkbToml \/ WriteMinerToml
  \/ TuiCrashes
=============================================================================
