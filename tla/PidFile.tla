------------------------------ MODULE PidFile ------------------------------
(***************************************************************************)
(* The PID file of a daemon and the operations of src/src/util/daemon.ts   *)
(* on it.  A launcher reserves the file with open(..., 'wx') and writes    *)
(* its own pid through that descriptor, so the reservation reaches the     *)
(* launcher's own inode only; every later write goes to the path.  Any     *)
(* command may unlink the path.  writeFileSync truncates and writes in one *)
(* step here: a reader in between would find the file empty, which is what *)
(* it finds between the two halves of a reservation.                       *)
(***************************************************************************)
CONSTANTS Launchers,  \* the commands that start a daemon, one daemon each
          OldPid,     \* the pid in a file left by an earlier session
          NoPid       \* no pid in the file

ASSUME PidAssumption ==
  /\ OldPid # NoPid
  /\ {OldPid, NoPid} \cap ({"launcher", "daemon"} \X Launchers) = {}

VARIABLE pidFile  \* the file at the path, or NoFile

LauncherPid(l) == <<"launcher", l>>
DaemonPid(l)   == <<"daemon", l>>

Pids == {"launcher", "daemon"} \X Launchers \cup {OldPid}

Statuses == {"starting", "running", "legacy", "blank", "invalid"}

Record(pid, status) == [pid |-> pid, status |-> status]

NoRecord == Record(NoPid, "blank")
Invalid  == Record(NoPid, "invalid")

Records ==
  [pid : Pids, status : Statuses \ {"blank", "invalid"}]
    \cup {NoRecord, Invalid}

(* ino names the launcher whose open created the inode, or OldPid.         *)
File(ino, record) == [ino |-> ino, record |-> record]

NoFile == File(NoPid, NoRecord)

Files == {NoFile} \cup [ino : Launchers \cup {OldPid}, record : Records]

(* What an earlier session can leave: nothing, an empty file, a plain pid   *)
(* of an older version, a full record, or text that is neither.            *)
LeftoverFiles ==
  {NoFile} \cup
  {File(OldPid, r) : r \in {NoRecord, Invalid, Record(OldPid, "legacy"),
                            Record(OldPid, "starting"),
                            Record(OldPid, "running")}}

(* readPidFile: a missing or empty file is no record. *)
ReadPidFile == pidFile.record

(* reservePidFile, first half: openSync(pidFile, 'wx'). *)
OpenReservation(l) ==
  /\ pidFile = NoFile
  /\ pidFile' = File(l, NoRecord)

(* reservePidFile, second half: the write through l's descriptor.          *)
WriteReservation(l) ==
  pidFile' = IF pidFile.ino = l
               THEN File(l, Record(LauncherPid(l), "starting"))
               ELSE pidFile

(* writePidFile: by path, whatever is there. *)
WritePidFile(l, status) ==
  pidFile' = File(IF pidFile = NoFile THEN l ELSE pidFile.ino,
                  Record(DaemonPid(l), status))

(* cleanupPidFile: by path; a missing file is the goal state.              *)
CleanupPidFile == pidFile' = NoFile
=============================================================================
