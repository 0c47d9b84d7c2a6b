----------------------------- MODULE ToolInstall -----------------------------
(***************************************************************************)
(* The installers of ckb-debugger and ckb-tui, which publish one binary    *)
(* under the tools folder (src/src/tools/ckb-debugger-install.ts,          *)
(* src/src/tools/ckb-tui.ts), run by several processes.  A file-system     *)
(* call is a step, and may fail; what is at the install path is a binary,  *)
(* a directory of the user's, or nothing.                                  *)
(***************************************************************************)
EXTENDS Naturals, FiniteSets

CONSTANTS
  Installers,      \* processes
  MaxInstallFaults \* bound: calls that fail, and kills

VARIABLES
  tool,     \* which of the two, its directory, and what was there; never changes
  target,   \* what is at the install path
  aside,    \* what each process has moved to a backup path of its own
  staging,  \* the staged copy of each process
  shim,     \* the ckb-debugger file next to the offckb binary
  install,  \* each process: pc, what it downloaded, what lstat saw, its result
  installFaults

toolVars == <<tool, target, aside, staging, shim, install, installFaults>>

None == "none"
UserDir == "directory"
(* "stale" runs but is not the configured release, "good" is it, "alien" is *)
(* it and does not run here, "part" is an unfinished copy.                  *)
Runs(file) == file \in {"stale", "good"}
IdleInstall == [pc |-> "idle", got |-> None, saw |-> FALSE, result |-> None]

ToolInit ==
  /\ tool \in [name : {"debugger", "tui"}, exdev : BOOLEAN, pinned : BOOLEAN,
               had : {None, UserDir, "stale", "alien"}, hadShim : {None, "legacy", "foreign"}]
  /\ target = tool.had /\ shim = tool.hadShim
  /\ tool.name = "debugger" => tool.pinned
  /\ tool.name = "tui" => tool.hadShim = None
  /\ aside = [p \in Installers |-> None]
  /\ staging = [p \in Installers |-> None]
  /\ install = [p \in Installers |-> IdleInstall]
  /\ installFaults = 0

-----------------------------------------------------------------------------
At(p, pc) == install[p].pc = pc
Goes(p, pc) == install' = [install EXCEPT ![p].pc = pc]
Ends(p, result) ==
  install' = [install EXCEPT ![p] = [IdleInstall EXCEPT !.pc = "ended", !.result = result]]
CallFails == installFaults < MaxInstallFaults /\ installFaults' = installFaults + 1

(* The version that the debugger prints; the digest of ckb-tui's binary, or *)
(* any file at all when no digest is pinned for the configured release.     *)
InstalledBinaryMatches ==
  IF tool.name = "debugger" THEN target = "good"
  ELSE IF tool.pinned THEN target \in {"good", "alien"}
  ELSE target \notin {None, UserDir}

ToolInstalls(p) ==
  /\ At(p, "idle")
  /\ IF ~InstalledBinaryMatches THEN Goes(p, "download")
     ELSE IF tool.name = "debugger" THEN Goes(p, "shim")
     ELSE Ends(p, "ok")
  /\ UNCHANGED <<tool, target, aside, staging, shim, installFaults>>

(* Downloaded, verified and unpacked in a private directory.  Without a     *)
(* pinned digest ckb-tui is refused; a corrupted archive is, in both.       *)
ToolDownloads(p) ==
  /\ At(p, "download")
  /\ \/ tool.pinned /\ \E got \in {"good", "alien"} :
          install' = [install EXCEPT ![p] = [@ EXCEPT !.pc = "look", !.got = got]]
     \/ Ends(p, "failed")
  /\ UNCHANGED <<tool, target, aside, staging, shim, installFaults>>

(* publishExtractedBinary: lstat, then the directory is moved aside.        *)
LooksAtTarget(p) ==
  /\ At(p, "look")
  /\ install' = [install EXCEPT ![p] =
       IF target = UserDir THEN [@ EXCEPT !.pc = "aside", !.saw = TRUE]
       ELSE [@ EXCEPT !.pc = "publish", !.saw = FALSE]]
  /\ UNCHANGED <<tool, target, aside, staging, shim, installFaults>>

SetsAside(p) ==
  /\ At(p, "aside")
  /\ \/ /\ target # None
        /\ aside' = [aside EXCEPT ![p] = target]
        /\ target' = None
        /\ Goes(p, "publish") /\ UNCHANGED installFaults
     \/ /\ target = None \/ installFaults < MaxInstallFaults
        /\ installFaults' = IF target = None THEN installFaults ELSE installFaults + 1
        /\ Ends(p, "failed") /\ UNCHANGED <<aside, target>>
  /\ UNCHANGED <<tool, staging, shim>>

(* A file cannot be renamed over a directory.                               *)
Published(p, file) ==
  /\ target # UserDir
  /\ target' = file
  /\ Goes(p, "chmod")

(* Mutant: across file systems the copy goes straight to the install path.  *)
RenameIntoPlaceUnstaged(p) ==
  /\ At(p, "publish")
  /\ IF tool.exdev THEN target # UserDir /\ target' = "part" /\ Goes(p, "publish2")
     ELSE Published(p, install[p].got)
  /\ UNCHANGED <<tool, aside, staging, shim, installFaults>>

RenameIntoPlace(p) ==
  /\ At(p, "publish")
  /\ IF tool.exdev
     THEN /\ staging' = [staging EXCEPT ![p] = "part"]
          /\ Goes(p, "stage") /\ UNCHANGED target
     ELSE Published(p, install[p].got) /\ UNCHANGED staging
  /\ UNCHANGED <<tool, aside, shim, installFaults>>

CopyIsStaged(p) ==
  /\ At(p, "stage")
  /\ staging' = [staging EXCEPT ![p] = install[p].got]
  /\ Goes(p, "publish2")
  /\ UNCHANGED <<tool, target, aside, shim, installFaults>>

RenamesStaged(p) ==
  /\ At(p, "publish2")
  /\ Published(p, staging[p])
  /\ staging' = [staging EXCEPT ![p] = None]
  /\ UNCHANGED <<tool, aside, shim, installFaults>>

PublishFails(p) ==
  /\ install[p].pc \in {"publish", "stage", "publish2"}
  /\ \/ target = UserDir /\ ~At(p, "stage") /\ UNCHANGED installFaults
     \/ CallFails
  /\ staging' = [staging EXCEPT ![p] = None]
  /\ IF install[p].saw THEN Goes(p, "restore") ELSE Ends(p, "failed")
  /\ UNCHANGED <<tool, target, aside, shim>>

(* A directory cannot be renamed over a file, nor the reverse.              *)
RestoresAside(p) ==
  /\ At(p, "restore")
  /\ \/ /\ target = None \/ (aside[p] # UserDir /\ target # UserDir)
        /\ target' = aside[p]
        /\ aside' = [aside EXCEPT ![p] = None]
        /\ UNCHANGED installFaults
     \/ CallFails /\ UNCHANGED <<target, aside>>
     \/ target # None /\ UNCHANGED <<target, aside, installFaults>>
  /\ Ends(p, "failed")
  /\ UNCHANGED <<tool, staging, shim>>

(* The debugger runs what is at the path; what does not run is removed, or  *)
(* what another process has put there by then.  A directory cannot be.      *)
VerifiesPublished(p) ==
  /\ At(p, "chmod")
  /\ IF target = None THEN Ends(p, "failed")
     ELSE IF tool.name = "tui" THEN Ends(p, "ok")
     ELSE Goes(p, IF Runs(target) THEN "shim" ELSE "remove")
  /\ UNCHANGED <<tool, target, aside, staging, shim, installFaults>>
RemovesBroken(p) ==
  /\ At(p, "remove")
  /\ target' = IF target = UserDir THEN UserDir ELSE None
  /\ Ends(p, "failed")
  /\ UNCHANGED <<tool, aside, staging, shim, installFaults>>

(* ensurePathShim: a file that is not offckb's own is left alone, also one  *)
(* that a crash has left empty, and an error does not fail the install.     *)
EnsurePathShim(p) ==
  /\ At(p, "shim")
  /\ \/ /\ shim \in {None, "legacy", "ours"}
        /\ shim' = "torn" /\ Goes(p, "shim2")
     \/ Ends(p, "ok") /\ UNCHANGED shim
  /\ UNCHANGED <<tool, target, aside, staging, installFaults>>
ShimIsWritten(p) ==
  /\ At(p, "shim2")
  /\ shim' = "ours"
  /\ Ends(p, "ok")
  /\ UNCHANGED <<tool, target, aside, staging, installFaults>>

ToolCrashes(p) ==
  /\ install[p].pc \notin {"idle", "ended"} /\ CallFails
  /\ install' = [install EXCEPT ![p] = IdleInstall]
  /\ UNCHANGED <<tool, target, aside, staging, shim>>
ToolRunsAgain(p) ==
  /\ At(p, "ended") /\ CallFails
  /\ install' = [install EXCEPT ![p] = IdleInstall]
  /\ UNCHANGED <<tool, target, aside, staging, shim>>

ToolNext ==
  \E p \in Installers :
    \/ ToolInstalls(p) \/ ToolDownloads(p) \/ LooksAtTarget(p) \/ SetsAside(p)
    \/ RenameIntoPlace(p) \/ CopyIsStaged(p) \/ RenamesStaged(p)
    \/ PublishFails(p) \/ RestoresAside(p) \/ VerifiesPublished(p)
    \/ RemovesBroken(p) \/ EnsurePathShim(p) \/ ShimIsWritten(p) \/ ToolCrashes(p) \/ ToolRunsAgain(p)
ToolSpec == ToolInit /\ [][ToolNext]_toolVars

-----------------------------------------------------------------------------
(* "A concurrent ensureInstalled() never sees a partially copied binary at  *)
(* the final path" (ckb-tui.ts:334); a directory found there is "set aside  *)
(* (never deleted)"; "a failed reinstall keeps the previous binary" (line   *)
(* 86), which holds of ckb-tui only: the debugger removes what does not run *)
(* after it has replaced what did.  A file beside the offckb binary that is *)
(* not offckb's stays.                                                      *)
NeverPartial == target # "part"
UserDirKept ==
  tool.had = UserDir => target = UserDir \/ \E p \in Installers : aside[p] = UserDir
PreviousKept ==
  (tool.name = "tui" /\ tool.had \notin {None, UserDir}) => target \notin {None, UserDir}
ForeignShimKept == tool.hadShim = "foreign" => shim = "foreign"
ToolsWhole == NeverPartial /\ UserDirKept /\ PreviousKept /\ ForeignShimKept
=============================================================================
