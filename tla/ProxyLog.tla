------------------------------- MODULE ProxyLog -------------------------------
(***************************************************************************)
(* The event log of the RPC proxy: what is recorded of a proxied request   *)
(* or response, and proxy.log with its single rollover                     *)
(* (src/src/tools/proxy-events.ts, src/src/tools/rpc-proxy.ts).            *)
(*                                                                         *)
(* An event is one line, here a number, of LineBytes bytes.  A file is an  *)
(* inode and its lines.  Each file-system call is a step: other processes  *)
(* read the file, and a crash comes between any two of them.               *)
(***************************************************************************)
EXTENDS Integers, Sequences, FiniteSets, SequencesExt

CONSTANTS
  LineBytes,  \* of an event, its newline included
  MaxBytes,   \* the size cap
  MaxEvents,  \* bound: events recorded
  MaxFaults,  \* bound: renames and appends that fail, crashes, cleans
  Inodes      \* inode numbers; that of a file that was removed is used again
ASSUME SizeAssumption == LineBytes \in Nat \ {0} /\ MaxBytes \in Nat

VARIABLES
  active, archive, backup,  \* proxy.log, .1, .1.bak
  logDir,  \* the directory is there
  proxy,   \* the process: its progress, dirReady and size
  written, \* history: the events that are in the log, since it was cleaned
  faults,  \* bound: see MaxFaults
  stranded \* history: a crash or a failed restore left the archive at .1.bak

logVars == <<active, archive, backup, logDir, proxy, written, faults, stranded>>

NoFile == [ino |-> 0, lines |-> <<>>]
There(file) == file # NoFile
SizeOf(file) == LineBytes * Len(file.lines)
FreshProxy(n) ==
  [pc |-> "idle", todo |-> <<>>, n |-> n, dirReady |-> FALSE, size |-> -1, hadArchive |-> FALSE]

ProxyLogInit ==
  /\ active = NoFile /\ archive = NoFile /\ backup = NoFile /\ logDir = FALSE
  /\ proxy = FreshProxy(0)
  /\ written = {} /\ faults = 0 /\ stranded = FALSE

-----------------------------------------------------------------------------
(* Bodies.  A batch is a sequence of members; a member that is no object is *)
(* skipped, and one whose handling throws does not stop the next.           *)
EventKinds == {"request", "hash", "error"}
HandleOneRequest(member, kind) ==
  \/ kind = "request" /\ member \in {"send", "call", "badSend"}
  \/ kind = "hash" /\ member = "send"
ErrorEvent(entry, kind) == kind = "error" /\ entry = "error"
Bodies == {<<"send">>, <<"junk", "call">>, <<"badSend">>, <<"error", "result">>}
EventsOf(body) ==
  LET events == {e \in (DOMAIN body) \X EventKinds :
                   HandleOneRequest(body[e[1]], e[2]) \/ ErrorEvent(body[e[1]], e[2])}
  IN [i \in 1 .. Cardinality(events) |-> proxy.n + i]

HandleProxyBody ==
  /\ proxy.pc = "idle" /\ proxy.todo = <<>>
  /\ \E body \in Bodies :
       /\ proxy.n + Len(EventsOf(body)) <= MaxEvents
       /\ proxy' = [proxy EXCEPT !.todo = EventsOf(body), !.n = @ + Len(EventsOf(body))]
  /\ UNCHANGED <<active, archive, backup, logDir, written, faults, stranded>>

(* event(): the directory, the size, the decision to roll over.             *)
EventBegins ==
  /\ proxy.pc = "idle" /\ proxy.todo # <<>>
  /\ logDir' = (logDir \/ ~proxy.dirReady)
  /\ LET size == IF proxy.size < 0 THEN SizeOf(active) ELSE proxy.size
         roll == size > 0 /\ size + LineBytes > MaxBytes
     IN proxy' = [proxy EXCEPT !.dirReady = TRUE, !.size = size,
                               !.pc = IF roll THEN "clear" ELSE "append"]
  /\ UNCHANGED <<active, archive, backup, written, faults, stranded>>

ProxyAt(pc) == proxy' = [proxy EXCEPT !.pc = pc]
Fault == faults < MaxFaults /\ faults' = faults + 1

RollClears ==
  /\ proxy.pc = "clear"
  /\ backup' = NoFile
  /\ ProxyAt("aside")
  /\ UNCHANGED <<active, archive, logDir, written, faults, stranded>>

(* Mutant: the previous archive is deleted up front.                        *)
RollDeletes ==
  /\ proxy.pc = "aside"
  /\ archive' = NoFile
  /\ proxy' = [proxy EXCEPT !.pc = "rename", !.hadArchive = FALSE]
  /\ UNCHANGED <<active, backup, logDir, written, faults, stranded>>

RollSetsAside ==
  /\ proxy.pc = "aside"
  /\ backup' = IF There(archive) THEN archive ELSE backup
  /\ archive' = NoFile
  /\ proxy' = [proxy EXCEPT !.pc = "rename", !.hadArchive = There(archive)]
  /\ UNCHANGED <<active, logDir, written, faults, stranded>>

RollAsideFails ==
  /\ proxy.pc = "aside" /\ There(archive) /\ Fault
  /\ proxy' = [proxy EXCEPT !.pc = "append", !.size = MaxBytes]
  /\ UNCHANGED <<active, archive, backup, logDir, written, stranded>>

RollRenames ==
  /\ proxy.pc = "rename" /\ There(active)
  /\ archive' = active /\ active' = NoFile /\ stranded' = FALSE
  /\ ProxyAt("drop")
  /\ UNCHANGED <<backup, logDir, written, faults>>

(* The file is locked, or is not there any more.                            *)
RollRenameFails ==
  /\ proxy.pc = "rename"
  /\ \/ There(active) /\ Fault
     \/ ~There(active) /\ UNCHANGED faults
  /\ proxy' = [proxy EXCEPT !.pc = IF proxy.hadArchive THEN "restore" ELSE "append",
                            !.size = MaxBytes]
  /\ UNCHANGED <<active, archive, backup, logDir, written, stranded>>

RollRestores ==
  /\ proxy.pc = "restore"
  /\ \/ There(backup) /\ archive' = backup /\ backup' = NoFile /\ UNCHANGED <<faults, stranded>>
     \/ There(backup) /\ Fault /\ stranded' = TRUE /\ UNCHANGED <<archive, backup>>
     \/ ~There(backup) /\ UNCHANGED <<archive, backup, faults, stranded>>
  /\ ProxyAt("append")
  /\ UNCHANGED <<active, logDir, written>>

RollEnds ==
  /\ proxy.pc = "drop"
  /\ backup' = NoFile
  /\ proxy' = [proxy EXCEPT !.pc = "append", !.size = 0]
  /\ UNCHANGED <<active, archive, logDir, written, faults, stranded>>

FreeInodes == Inodes \ {active.ino, archive.ino, backup.ino}
EventAppends ==
  /\ proxy.pc = "append" /\ logDir
  /\ LET e == Head(proxy.todo)
     IN /\ written' = written \cup {e}
        /\ \E ino \in IF There(active) THEN {active.ino} ELSE FreeInodes :
             active' = [ino |-> ino, lines |-> Append(active.lines, e)]
        /\ proxy' = [proxy EXCEPT !.pc = "idle", !.todo = Tail(@), !.size = @ + LineBytes]
  /\ UNCHANGED <<archive, backup, logDir, faults, stranded>>

(* "Logging must never break request forwarding": the event is lost.        *)
EventIsLost ==
  /\ proxy.pc = "append"
  /\ \/ logDir /\ Fault
     \/ ~logDir /\ UNCHANGED faults
  /\ proxy' = [proxy EXCEPT !.pc = "idle", !.todo = Tail(@), !.dirReady = FALSE, !.size = -1]
  /\ UNCHANGED <<active, archive, backup, logDir, written, stranded>>

ProxyCrashes ==
  /\ Fault
  /\ proxy' = FreshProxy(proxy.n)
  /\ stranded' = (stranded \/ There(backup))
  /\ UNCHANGED <<active, archive, backup, logDir, written>>

(* offckb clean, or a fork with --force, beside a proxy in the foreground.  *)
DirIsRemoved ==
  /\ logDir /\ Fault
  /\ active' = NoFile /\ archive' = NoFile /\ backup' = NoFile /\ logDir' = FALSE
  /\ written' = {} /\ stranded' = FALSE
  /\ UNCHANGED proxy

ProxyLogNext ==
  \/ HandleProxyBody \/ EventBegins
  \/ RollClears \/ RollSetsAside \/ RollAsideFails \/ RollRenames
  \/ RollRenameFails \/ RollRestores \/ RollEnds
  \/ EventAppends \/ EventIsLost \/ ProxyCrashes \/ DirIsRemoved

-----------------------------------------------------------------------------
Held == backup.lines \o archive.lines \o active.lines
(* "Keep appending so events are not lost" (proxy-events.ts:84): what the   *)
(* log's files hold is an unbroken end of the events that were appended, in *)
(* their order.  "The archive is restored instead of permanently lost"      *)
(* (line 69): while the log is longer than one file, only a rollover that   *)
(* has replaced the archive lets go of it - unless a crash, or a restore    *)
(* that failed too, has left it at .1.bak, which the next rollover deletes. *)
EventsInOrder == \A i, j \in DOMAIN Held : i < j => Held[i] < Held[j]
NoneMissing == \A e \in written \ ToSet(Held) : \A h \in ToSet(Held) : e < h
LastIsHeld == written # {} => ToSet(Held) # {}
ArchiveKept ==
  (~stranded /\ ToSet(active.lines) # written) => There(archive) \/ There(backup)
EventsKept == EventsInOrder /\ NoneMissing /\ LastIsHeld /\ ArchiveKept
=============================================================================
