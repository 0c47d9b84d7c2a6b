--------------------------- MODULE InstallProofs ----------------------------
(***************************************************************************)
(* ToolsWhole and PackagesUsable, for any set of installing commands and any*)
(* number of failures and kills.                                           *)
(*                                                                         *)
(* ToolsWhole: the user's directory is in one place, at the install path or*)
(* at one backup path (OnePlace).  A process that is about to move it aside*)
(* has not got it, so no backup is lost; one that publishes holds a whole  *)
(* binary (Holds); and where there was no directory nobody ever moves      *)
(* anything aside (OnlyForDirectories), so that what was there stays until *)
(* it is replaced.                                                         *)
(*                                                                         *)
(* PackagesUsable: a command that installs alone leaves behind each step   *)
(* what the next one starts from (Left), and an FNN is unpacked only once  *)
(* verified (Verified).                                                    *)
(***************************************************************************)
EXTENDS ToolInstall, PackageInstall, TLAPS

(* ckb-debugger and ckb-tui.                                                *)
Files == {"stale", "good", "alien"}
Paths == Files \cup {None, UserDir}
InstallPcs ==
  {"idle", "download", "look", "aside", "publish", "stage", "publish2", "chmod",
   "remove", "restore", "shim", "shim2", "ended"}
InstallRecords ==
  [pc : InstallPcs, got : {None, "good", "alien"}, saw : BOOLEAN,
   result : {None, "ok", "failed"}]

ToolTypeOK ==
  /\ target \in Paths
  /\ aside \in [Installers -> Paths]
  /\ staging \in [Installers -> Files \cup {None, "part"}]
  /\ install \in [Installers -> InstallRecords]

OnePlace ==
  /\ \A p, q \in Installers : aside[p] = UserDir /\ aside[q] = UserDir => p = q
  /\ \A p \in Installers : aside[p] = UserDir => target # UserDir
  /\ \A p \in Installers : install[p].pc = "aside" => aside[p] # UserDir

Holds ==
  \A p \in Installers :
    /\ install[p].pc \in {"look", "aside", "publish", "stage", "publish2"} =>
         install[p].got \in Files
    /\ install[p].pc \in {"stage", "publish2"} => tool.exdev
    /\ install[p].pc = "remove" => tool.name # "tui"
    /\ install[p].pc = "publish2" => staging[p] \in Files
    /\ install[p].pc = "restore" \/ (install[p].pc \in {"publish", "stage", "publish2"} /\ install[p].saw) =>
         aside[p] # None

OnlyForDirectories ==
  tool.had # UserDir =>
    /\ target # UserDir
    /\ \A p \in Installers : ~install[p].saw /\ install[p].pc \notin {"aside", "restore"}

ShimUntouched ==
  tool.hadShim = "foreign" => shim = "foreign" /\ \A p \in Installers : install[p].pc # "shim2"

ToolInv ==
  /\ ToolTypeOK /\ OnePlace /\ Holds /\ OnlyForDirectories /\ ShimUntouched
  /\ UserDirKept /\ PreviousKept

LEMMA ToolInitInv == ToolInit => ToolInv
<1> SUFFICES ASSUME ToolInit PROVE ToolInv
  OBVIOUS
<1>1. ToolTypeOK
  BY DEF ToolInit, ToolTypeOK, InstallRecords, IdleInstall, InstallPcs, Paths, Files, None, UserDir
<1>2. OnePlace /\ Holds /\ OnlyForDirectories
  BY DEF ToolInit, OnePlace, Holds, OnlyForDirectories, IdleInstall, None, UserDir
<1>3. ShimUntouched /\ UserDirKept /\ PreviousKept
  BY DEF ToolInit, ShimUntouched, UserDirKept, PreviousKept, IdleInstall, None, UserDir
<1> QED
  BY <1>1, <1>2, <1>3 DEF ToolInv

(* What a step does to the record of the process that takes it.             *)
Frame(p) ==
  /\ install' \in [Installers -> InstallRecords]
  /\ \A q \in Installers \ {p} : install'[q] = install[q]

LEMMA GoesStep ==
  ASSUME ToolTypeOK, NEW p \in Installers, NEW pc \in InstallPcs, Goes(p, pc)
  PROVE  /\ Frame(p)
         /\ install'[p].pc = pc
         /\ install'[p].got = install[p].got /\ install'[p].saw = install[p].saw
  BY DEF ToolTypeOK, InstallRecords, Goes, Frame

LEMMA EndsStep ==
  ASSUME ToolTypeOK, NEW p \in Installers, NEW result \in {"ok", "failed"}, Ends(p, result)
  PROVE  Frame(p) /\ install'[p].pc = "ended" /\ ~install'[p].saw
  BY DEF ToolTypeOK, InstallRecords, InstallPcs, Ends, IdleInstall, None, Frame

LEMMA IdleStep ==
  ASSUME ToolTypeOK, NEW p \in Installers, install' = [install EXCEPT ![p] = IdleInstall]
  PROVE  Frame(p) /\ install'[p].pc = "idle" /\ ~install'[p].saw
  BY DEF ToolTypeOK, InstallRecords, InstallPcs, IdleInstall, None, Frame

LEMMA RecordStep ==
  ASSUME ToolTypeOK, NEW p \in Installers, NEW r \in InstallRecords,
         install' = [install EXCEPT ![p] = r]
  PROVE  Frame(p) /\ install'[p] = r
  BY DEF ToolTypeOK, Frame

(* Steps that leave the install path and the backups alone.                 *)
LEMMA PcStepInv ==
  ASSUME ToolInv, NEW p \in Installers,
         ToolInstalls(p) \/ ToolDownloads(p) \/ LooksAtTarget(p) \/ CopyIsStaged(p)
           \/ EnsurePathShim(p) \/ ShimIsWritten(p) \/ ToolCrashes(p) \/ ToolRunsAgain(p)
  PROVE  ToolInv'
<1> USE DEF ToolInv, ToolTypeOK, At, CallFails, InstallPcs, Paths, Files, None, UserDir
<1>1. CASE ToolInstalls(p)
  <2>0. /\ Frame(p)
        /\ install'[p].pc \in {"download", "shim", "ended"}
        /\ install'[p].saw => install[p].saw
    BY <1>1, GoesStep, EndsStep, IdleStep DEF ToolInstalls, InstalledBinaryMatches, Frame
  <2>1. ToolTypeOK'
    BY <1>1, <2>0 DEF ToolInstalls, InstalledBinaryMatches, Frame
  <2>2. OnePlace'
    BY <1>1, <2>0 DEF ToolInstalls, InstalledBinaryMatches, Frame, OnePlace
  <2>3. Holds'
    BY <1>1, <2>0 DEF ToolInstalls, InstalledBinaryMatches, Frame, Holds
  <2>4. OnlyForDirectories'
    BY <1>1, <2>0 DEF ToolInstalls, InstalledBinaryMatches, Frame, Holds, OnlyForDirectories
  <2>5. ShimUntouched'
    BY <1>1, <2>0 DEF ToolInstalls, InstalledBinaryMatches, Frame, ShimUntouched
  <2>6. UserDirKept' /\ PreviousKept'
    BY <1>1 DEF ToolInstalls, InstalledBinaryMatches, Holds, OnePlace, OnlyForDirectories, UserDirKept, PreviousKept
  <2> QED
    BY <2>1, <2>2, <2>3, <2>4, <2>5, <2>6 DEF ToolInv
<1>2. CASE ToolDownloads(p)
  <2>0. /\ Frame(p)
        /\ install'[p].pc = "ended" \/ (install'[p].pc = "look" /\ install'[p].got \in Files)
        /\ install'[p].saw => install[p].saw
    <3>1. CASE Ends(p, "failed")
      BY <3>1, EndsStep
    <3>2. CASE \E got \in {"good", "alien"} :
                 install' = [install EXCEPT ![p] = [@ EXCEPT !.pc = "look", !.got = got]]
      <4>1. PICK got \in {"good", "alien"} :
              install' = [install EXCEPT ![p] = [install[p] EXCEPT !.pc = "look", !.got = got]]
        BY <3>2
      <4> DEFINE r == [install[p] EXCEPT !.pc = "look", !.got = got]
      <4>2. /\ r \in InstallRecords
            /\ r.pc = "look" /\ r.got \in Files /\ r.saw = install[p].saw
        BY DEF InstallRecords
      <4>3. install' = [install EXCEPT ![p] = r]
        BY <4>1
      <4> HIDE DEF r
      <4>4. Frame(p) /\ install'[p] = r
        BY <4>2, <4>3, RecordStep
      <4> QED
        BY <4>2, <4>4
    <3> QED
      BY <1>2, <3>1, <3>2 DEF ToolDownloads
  <2>1. ToolTypeOK'
    BY <1>2, <2>0 DEF ToolDownloads, Frame
  <2>2. OnePlace'
    BY <1>2, <2>0 DEF ToolDownloads, Frame, OnePlace
  <2>3. Holds'
    BY <1>2, <2>0 DEF ToolDownloads, Frame, Holds
  <2>4. OnlyForDirectories'
    BY <1>2, <2>0 DEF ToolDownloads, Frame, Holds, OnlyForDirectories
  <2>5. ShimUntouched'
    BY <1>2, <2>0 DEF ToolDownloads, Frame, ShimUntouched
  <2>6. UserDirKept' /\ PreviousKept'
    BY <1>2 DEF ToolDownloads, Holds, OnePlace, OnlyForDirectories, UserDirKept, PreviousKept
  <2> QED
    BY <2>1, <2>2, <2>3, <2>4, <2>5, <2>6 DEF ToolInv
<1>3. CASE LooksAtTarget(p)
  <2> DEFINE r == IF target = UserDir THEN [install[p] EXCEPT !.pc = "aside", !.saw = TRUE]
                  ELSE [install[p] EXCEPT !.pc = "publish", !.saw = FALSE]
  <2>1. /\ r \in InstallRecords
        /\ r.got = install[p].got
        /\ target = UserDir => r.pc = "aside" /\ r.saw
        /\ target # UserDir => r.pc = "publish" /\ ~r.saw
    BY DEF InstallRecords
  <2>2. install' = [install EXCEPT ![p] = r]
    BY <1>3 DEF LooksAtTarget
  <2> HIDE DEF r
  <2>3. Frame(p) /\ install'[p] = r
    BY <2>1, <2>2, RecordStep
  <2>4. /\ install[p].pc = "look"
        /\ UNCHANGED <<tool, target, aside, staging, shim>>
    BY <1>3 DEF LooksAtTarget
  <2>5. ToolTypeOK'
    BY <2>3, <2>4 DEF Frame
  <2>6. OnePlace'
    BY <2>1, <2>3, <2>4 DEF Frame, OnePlace
  <2>7. Holds'
    BY <2>1, <2>3, <2>4 DEF Frame, Holds
  <2>8. OnlyForDirectories'
    BY <2>1, <2>3, <2>4 DEF Frame, OnlyForDirectories
  <2>9. ShimUntouched'
    BY <2>1, <2>3, <2>4 DEF Frame, ShimUntouched
  <2>10. UserDirKept' /\ PreviousKept'
    BY <2>4 DEF UserDirKept, PreviousKept
  <2> QED
    BY <2>5, <2>6, <2>7, <2>8, <2>9, <2>10 DEF ToolInv
<1>4. CASE CopyIsStaged(p)
  <2>0. /\ Frame(p)
        /\ install'[p].pc = "publish2"
        /\ install'[p].got = install[p].got /\ install'[p].saw = install[p].saw
    BY <1>4, GoesStep, EndsStep, IdleStep DEF CopyIsStaged, Frame
  <2>1. ToolTypeOK'
    <3>1. install[p].got \in Files
      BY <1>4 DEF CopyIsStaged, Holds
    <3>2. staging' \in [Installers -> Files \cup {None, "part"}]
      BY <1>4, <3>1 DEF CopyIsStaged
    <3> QED
      BY <1>4, <2>0, <3>2 DEF CopyIsStaged, Frame
  <2>2. OnePlace'
    BY <1>4, <2>0 DEF CopyIsStaged, Frame, OnePlace
  <2>3. Holds'
    <3>1. install[p].got \in Files /\ tool.exdev /\ (aside[p] # None \/ ~install[p].saw)
      BY <1>4 DEF CopyIsStaged, Holds
    <3>2. /\ staging'[p] = install[p].got
          /\ \A q \in Installers \ {p} : staging'[q] = staging[q]
      BY <1>4 DEF CopyIsStaged
    <3> QED
      BY <1>4, <2>0, <3>1, <3>2 DEF CopyIsStaged, Frame, Holds
  <2>4. OnlyForDirectories'
    BY <1>4, <2>0 DEF CopyIsStaged, Frame, Holds, OnlyForDirectories
  <2>5. ShimUntouched'
    BY <1>4, <2>0 DEF CopyIsStaged, Frame, ShimUntouched
  <2>6. UserDirKept' /\ PreviousKept'
    BY <1>4 DEF CopyIsStaged, Holds, OnePlace, OnlyForDirectories, UserDirKept, PreviousKept
  <2> QED
    BY <2>1, <2>2, <2>3, <2>4, <2>5, <2>6 DEF ToolInv
<1>5. CASE EnsurePathShim(p)
  <2>0. /\ Frame(p)
        /\ install'[p].pc = "ended" \/ (install'[p].pc = "shim2" /\ shim # "foreign")
        /\ install'[p].saw => install[p].saw
    BY <1>5, GoesStep, EndsStep, IdleStep DEF EnsurePathShim, Frame
  <2>1. ToolTypeOK'
    BY <1>5, <2>0 DEF EnsurePathShim, Frame
  <2>2. OnePlace'
    BY <1>5, <2>0 DEF EnsurePathShim, Frame, OnePlace
  <2>3. Holds'
    BY <1>5, <2>0 DEF EnsurePathShim, Frame, Holds
  <2>4. OnlyForDirectories'
    BY <1>5, <2>0 DEF EnsurePathShim, Frame, Holds, OnlyForDirectories
  <2>5. ShimUntouched'
    BY <1>5, <2>0 DEF EnsurePathShim, Frame, ShimUntouched
  <2>6. UserDirKept' /\ PreviousKept'
    BY <1>5 DEF EnsurePathShim, Holds, OnePlace, OnlyForDirectories, UserDirKept, PreviousKept
  <2> QED
    BY <2>1, <2>2, <2>3, <2>4, <2>5, <2>6 DEF ToolInv
<1>6. CASE ShimIsWritten(p)
  <2>0. /\ Frame(p)
        /\ install'[p].pc = "ended" /\ ~install'[p].saw
    BY <1>6, GoesStep, EndsStep, IdleStep DEF ShimIsWritten, Frame
  <2>1. ToolTypeOK'
    BY <1>6, <2>0 DEF ShimIsWritten, Frame
  <2>2. OnePlace'
    BY <1>6, <2>0 DEF ShimIsWritten, Frame, OnePlace
  <2>3. Holds'
    BY <1>6, <2>0 DEF ShimIsWritten, Frame, Holds
  <2>4. OnlyForDirectories'
    BY <1>6, <2>0 DEF ShimIsWritten, Frame, Holds, OnlyForDirectories
  <2>5. ShimUntouched'
    BY <1>6, <2>0 DEF ShimIsWritten, Frame, ShimUntouched
  <2>6. UserDirKept' /\ PreviousKept'
    BY <1>6 DEF ShimIsWritten, Holds, OnePlace, OnlyForDirectories, UserDirKept, PreviousKept
  <2> QED
    BY <2>1, <2>2, <2>3, <2>4, <2>5, <2>6 DEF ToolInv
<1>7. CASE ToolCrashes(p)
  <2>0. /\ Frame(p)
        /\ install'[p].pc = "idle" /\ ~install'[p].saw
    BY <1>7, GoesStep, EndsStep, IdleStep DEF ToolCrashes, Frame
  <2>1. ToolTypeOK'
    BY <1>7, <2>0 DEF ToolCrashes, Frame
  <2>2. OnePlace'
    BY <1>7, <2>0 DEF ToolCrashes, Frame, OnePlace
  <2>3. Holds'
    BY <1>7, <2>0 DEF ToolCrashes, Frame, Holds
  <2>4. OnlyForDirectories'
    BY <1>7, <2>0 DEF ToolCrashes, Frame, Holds, OnlyForDirectories
  <2>5. ShimUntouched'
    BY <1>7, <2>0 DEF ToolCrashes, Frame, ShimUntouched
  <2>6. UserDirKept' /\ PreviousKept'
    BY <1>7 DEF ToolCrashes, Holds, OnePlace, OnlyForDirectories, UserDirKept, PreviousKept
  <2> QED
    BY <2>1, <2>2, <2>3, <2>4, <2>5, <2>6 DEF ToolInv
<1>8. CASE ToolRunsAgain(p)
  <2>0. /\ Frame(p)
        /\ install'[p].pc = "idle" /\ ~install'[p].saw
    BY <1>8, GoesStep, EndsStep, IdleStep DEF ToolRunsAgain, Frame
  <2>1. ToolTypeOK'
    BY <1>8, <2>0 DEF ToolRunsAgain, Frame
  <2>2. OnePlace'
    BY <1>8, <2>0 DEF ToolRunsAgain, Frame, OnePlace
  <2>3. Holds'
    BY <1>8, <2>0 DEF ToolRunsAgain, Frame, Holds
  <2>4. OnlyForDirectories'
    BY <1>8, <2>0 DEF ToolRunsAgain, Frame, Holds, OnlyForDirectories
  <2>5. ShimUntouched'
    BY <1>8, <2>0 DEF ToolRunsAgain, Frame, ShimUntouched
  <2>6. UserDirKept' /\ PreviousKept'
    BY <1>8 DEF ToolRunsAgain, Holds, OnePlace, OnlyForDirectories, UserDirKept, PreviousKept
  <2> QED
    BY <2>1, <2>2, <2>3, <2>4, <2>5, <2>6 DEF ToolInv
<1> QED
  BY <1>1, <1>2, <1>3, <1>4, <1>5, <1>6, <1>7, <1>8

(* Steps that move something to or from the install path.                   *)
LEMMA PathStepInv ==
  ASSUME ToolInv, NEW p \in Installers,
         SetsAside(p) \/ RenameIntoPlace(p) \/ RenamesStaged(p) \/ PublishFails(p)
           \/ RestoresAside(p) \/ VerifiesPublished(p) \/ RemovesBroken(p)
  PROVE  ToolInv'
<1> USE DEF ToolInv, ToolTypeOK, At, CallFails, InstallPcs, Paths, Files, None, UserDir
<1>1. CASE SetsAside(p)
  <2>0. /\ Frame(p)
        /\ \/ install'[p].pc = "publish" /\ install'[p].got = install[p].got /\ install'[p].saw = install[p].saw
             /\ target # None /\ target' = None /\ aside' = [aside EXCEPT ![p] = target]
           \/ install'[p].pc = "ended" /\ ~install'[p].saw /\ UNCHANGED <<target, aside>>
    BY <1>1, GoesStep, EndsStep, IdleStep DEF SetsAside, Frame
  <2>1. ToolTypeOK'
    BY <1>1, <2>0 DEF SetsAside, Frame
  <2>2. OnePlace'
    BY <1>1, <2>0 DEF SetsAside, Frame, OnePlace
  <2>3. Holds'
    BY <1>1, <2>0 DEF SetsAside, Frame, Holds
  <2>4. OnlyForDirectories'
    BY <1>1, <2>0 DEF SetsAside, Frame, Holds, OnlyForDirectories
  <2>5. ShimUntouched'
    BY <1>1, <2>0 DEF SetsAside, Frame, ShimUntouched
  <2>6. UserDirKept' /\ PreviousKept'
    BY <1>1 DEF SetsAside, Holds, OnePlace, OnlyForDirectories, UserDirKept, PreviousKept
  <2> QED
    BY <2>1, <2>2, <2>3, <2>4, <2>5, <2>6 DEF ToolInv
<1>2. CASE RenameIntoPlace(p)
  <2>0. /\ Frame(p)
        /\ install'[p].pc = (IF tool.exdev THEN "stage" ELSE "chmod")
        /\ install'[p].got = install[p].got /\ install'[p].saw = install[p].saw
    BY <1>2, GoesStep, EndsStep, IdleStep DEF RenameIntoPlace, Published, Frame
  <2>7. /\ install[p].got \in Files
        /\ target' = target \/ (target # UserDir /\ target' = install[p].got)
        /\ aside' = aside
    BY <1>2 DEF RenameIntoPlace, Published, Holds
  <2>1. ToolTypeOK'
    <3>1. staging' \in [Installers -> Files \cup {None, "part"}]
      BY <1>2 DEF RenameIntoPlace
    <3> QED
      BY <2>0, <2>7, <3>1 DEF Frame
  <2>2. OnePlace'
    BY <2>0, <2>7 DEF Frame, OnePlace
  <2>3. Holds'
    BY <1>2, <2>0 DEF RenameIntoPlace, Published, Frame, Holds
  <2>4. OnlyForDirectories'
    BY <1>2, <2>0 DEF RenameIntoPlace, Published, Frame, Holds, OnlyForDirectories
  <2>5. ShimUntouched'
    BY <1>2, <2>0 DEF RenameIntoPlace, Published, Frame, ShimUntouched
  <2>6. UserDirKept' /\ PreviousKept'
    BY <1>2 DEF RenameIntoPlace, Published, Holds, OnePlace, OnlyForDirectories, UserDirKept, PreviousKept
  <2> QED
    BY <2>1, <2>2, <2>3, <2>4, <2>5, <2>6 DEF ToolInv
<1>3. CASE RenamesStaged(p)
  <2>0. /\ Frame(p)
        /\ install'[p].pc = "chmod"
        /\ install'[p].got = install[p].got /\ install'[p].saw = install[p].saw
    BY <1>3, GoesStep, EndsStep, IdleStep DEF RenamesStaged, Published, Frame
  <2>1. ToolTypeOK'
    <3>1. target' \in Files
      BY <1>3 DEF RenamesStaged, Published, Holds
    <3>2. staging' \in [Installers -> Files \cup {None, "part"}]
      BY <1>3 DEF RenamesStaged
    <3> QED
      BY <1>3, <2>0, <3>1, <3>2 DEF RenamesStaged, Frame
  <2>2. OnePlace'
    BY <1>3, <2>0 DEF RenamesStaged, Published, Frame, OnePlace
  <2>3. Holds'
    BY <1>3, <2>0 DEF RenamesStaged, Published, Frame, Holds
  <2>4. OnlyForDirectories'
    BY <1>3, <2>0 DEF RenamesStaged, Published, Frame, Holds, OnlyForDirectories
  <2>5. ShimUntouched'
    BY <1>3, <2>0 DEF RenamesStaged, Published, Frame, ShimUntouched
  <2>6. UserDirKept' /\ PreviousKept'
    BY <1>3 DEF RenamesStaged, Published, Holds, OnePlace, OnlyForDirectories, UserDirKept, PreviousKept
  <2> QED
    BY <2>1, <2>2, <2>3, <2>4, <2>5, <2>6 DEF ToolInv
<1>4. CASE PublishFails(p)
  <2>0. /\ Frame(p)
        /\ IF install[p].saw THEN install'[p].pc = "restore" ELSE install'[p].pc = "ended"
        /\ install'[p].saw => install[p].saw
    BY <1>4, GoesStep, EndsStep, IdleStep DEF PublishFails, Frame
  <2>1. ToolTypeOK'
    BY <1>4, <2>0 DEF PublishFails, Frame
  <2>2. OnePlace'
    BY <1>4, <2>0 DEF PublishFails, Frame, OnePlace
  <2>3. Holds'
    BY <1>4, <2>0 DEF PublishFails, Frame, Holds
  <2>4. OnlyForDirectories'
    BY <1>4, <2>0 DEF PublishFails, Frame, Holds, OnlyForDirectories
  <2>5. ShimUntouched'
    BY <1>4, <2>0 DEF PublishFails, Frame, ShimUntouched
  <2>6. UserDirKept' /\ PreviousKept'
    BY <1>4 DEF PublishFails, Holds, OnePlace, OnlyForDirectories, UserDirKept, PreviousKept
  <2> QED
    BY <2>1, <2>2, <2>3, <2>4, <2>5, <2>6 DEF ToolInv
<1>5. CASE RestoresAside(p)
  <2>0. /\ Frame(p)
        /\ install'[p].pc = "ended" /\ ~install'[p].saw
    BY <1>5, GoesStep, EndsStep, IdleStep DEF RestoresAside, Frame
  <2>1. ToolTypeOK'
    BY <1>5, <2>0 DEF RestoresAside, Frame
  <2>2. OnePlace'
    BY <1>5, <2>0 DEF RestoresAside, Frame, OnePlace
  <2>3. Holds'
    BY <1>5, <2>0 DEF RestoresAside, Frame, Holds
  <2>4. OnlyForDirectories'
    BY <1>5, <2>0 DEF RestoresAside, Frame, Holds, OnlyForDirectories
  <2>5. ShimUntouched'
    BY <1>5, <2>0 DEF RestoresAside, Frame, ShimUntouched
  <2>6. UserDirKept' /\ PreviousKept'
    BY <1>5 DEF RestoresAside, Holds, OnePlace, OnlyForDirectories, UserDirKept, PreviousKept
  <2> QED
    BY <2>1, <2>2, <2>3, <2>4, <2>5, <2>6 DEF ToolInv
<1>6. CASE VerifiesPublished(p)
  <2>0. /\ Frame(p)
        /\ install'[p].pc \in {"shim", "remove", "ended"}
        /\ install'[p].pc = "remove" => tool.name # "tui"
        /\ install'[p].saw => install[p].saw
    BY <1>6, GoesStep, EndsStep, IdleStep DEF VerifiesPublished, Runs, Frame
  <2>1. ToolTypeOK'
    BY <1>6, <2>0 DEF VerifiesPublished, Runs, Frame
  <2>2. OnePlace'
    BY <1>6, <2>0 DEF VerifiesPublished, Runs, Frame, OnePlace
  <2>3. Holds'
    BY <1>6, <2>0 DEF VerifiesPublished, Runs, Frame, Holds
  <2>4. OnlyForDirectories'
    BY <1>6, <2>0 DEF VerifiesPublished, Runs, Frame, Holds, OnlyForDirectories
  <2>5. ShimUntouched'
    BY <1>6, <2>0 DEF VerifiesPublished, Runs, Frame, ShimUntouched
  <2>6. UserDirKept' /\ PreviousKept'
    BY <1>6 DEF VerifiesPublished, Runs, Holds, OnePlace, OnlyForDirectories, UserDirKept, PreviousKept
  <2> QED
    BY <2>1, <2>2, <2>3, <2>4, <2>5, <2>6 DEF ToolInv
<1>7. CASE RemovesBroken(p)
  <2>0. /\ Frame(p)
        /\ install'[p].pc = "ended" /\ ~install'[p].saw
    BY <1>7, GoesStep, EndsStep, IdleStep DEF RemovesBroken, Frame
  <2>1. ToolTypeOK'
    BY <1>7, <2>0 DEF RemovesBroken, Frame
  <2>2. OnePlace'
    BY <1>7, <2>0 DEF RemovesBroken, Frame, OnePlace
  <2>3. Holds'
    BY <1>7, <2>0 DEF RemovesBroken, Frame, Holds
  <2>4. OnlyForDirectories'
    BY <1>7, <2>0 DEF RemovesBroken, Frame, Holds, OnlyForDirectories
  <2>5. ShimUntouched'
    BY <1>7, <2>0 DEF RemovesBroken, Frame, ShimUntouched
  <2>6. UserDirKept' /\ PreviousKept'
    BY <1>7 DEF RemovesBroken, Holds, OnePlace, OnlyForDirectories, UserDirKept, PreviousKept
  <2> QED
    BY <2>1, <2>2, <2>3, <2>4, <2>5, <2>6 DEF ToolInv
<1> QED
  BY <1>1, <1>2, <1>3, <1>4, <1>5, <1>6, <1>7

LEMMA ToolNextInv == ToolInv /\ [ToolNext]_toolVars => ToolInv'
<1>1. CASE UNCHANGED toolVars
  BY <1>1 DEF toolVars, ToolInv, ToolTypeOK, OnePlace, Holds, OnlyForDirectories,
     ShimUntouched, UserDirKept, PreviousKept
<1>2. ASSUME ToolInv, ToolNext PROVE ToolInv'
  <2>1. PICK p \in Installers :
          \/ ToolInstalls(p) \/ ToolDownloads(p) \/ LooksAtTarget(p) \/ CopyIsStaged(p)
             \/ EnsurePathShim(p) \/ ShimIsWritten(p) \/ ToolCrashes(p) \/ ToolRunsAgain(p)
          \/ SetsAside(p) \/ RenameIntoPlace(p) \/ RenamesStaged(p) \/ PublishFails(p)
             \/ RestoresAside(p) \/ VerifiesPublished(p) \/ RemovesBroken(p)
    BY <1>2 DEF ToolNext
  <2> QED
    BY <1>2, <2>1, PcStepInv, PathStepInv
<1> QED
  BY <1>1, <1>2

(* Whatever installers cross, fail or are killed: no partial copy at the    *)
(* install path, no directory of the user's lost, no previous ckb-tui       *)
(* without a successor, no foreign file next to the offckb binary replaced. *)
THEOREM ToolsStayWhole == ToolSpec => []ToolsWhole
<1>1. ToolInv => ToolsWhole
  BY DEF ToolInv, ToolsWhole, NeverPartial, ForeignShimKept, ShimUntouched, ToolTypeOK,
         Paths, Files, None, UserDir
<1> QED
  BY <1>1, ToolInitInv, ToolNextInv, PTL DEF ToolSpec

-----------------------------------------------------------------------------
(* The releases of CKB and of the FNN.                                      *)
Trees == [bin : {Nothing, "other", "part", "good", "bad"}, config : BOOLEAN]
PkgPcs ==
  {"idle", "download", "verify", "write", "unpack", "remove", "copy", "copying"}
PkgRecords == [pc : PkgPcs, got : {Nothing, "good", "bad"}, left : SUBSET Entries]
PackageTypeOK ==
  /\ package \in {"ckb", "fnn"}
  /\ tree \in Trees
  /\ tarball \in {Nothing, "part", "good", "bad"}
  /\ unpacked \in {Nothing, "part", "good", "bad"}
  /\ pkg \in [Processes -> PkgRecords]
  /\ outcome \in {"none", "ok", "failed", "killed"}
  /\ together \in BOOLEAN

(* Only what was verified is unpacked, and only by the commands of an FNN.  *)
Verified ==
  /\ \A p \in Processes : package = "fnn" =>
       /\ pkg[p].pc \notin {"write", "unpack"}
       /\ pkg[p].pc \in {"remove", "copy", "copying"} => pkg[p].got = "good"
  /\ package = "ckb" => \A p \in Processes : pkg[p].pc # "verify"
  /\ package = "fnn" => tree.bin # "bad"

(* What a command that installs alone has left behind it.                   *)
Whole(file) == file \in {"good", "bad"}
Left(p) ==
  /\ pkg[p].pc = "unpack" => Whole(tarball)
  /\ (package = "ckb" /\ pkg[p].pc \in {"remove", "copy", "copying"}) => Whole(unpacked)
  /\ (pkg[p].pc \in {"copy", "copying"} /\ "config" \notin pkg[p].left) => tree.config
  /\ pkg[p].pc = "copying" => "bin" \notin pkg[p].left
  /\ (pkg[p].pc = "copy" /\ "bin" \notin pkg[p].left) => tree.bin = SourceOf(p)
Alone ==
  ~together =>
    /\ \A p, q \in Processes : Installing(p) /\ Installing(q) => p = q
    /\ \A p \in Processes : Left(p)

PackageInv == PackageTypeOK /\ Verified /\ Alone /\ PackagesUsable

LEMMA PackageInitInv == PackageInit => PackageInv
  <1> SUFFICES ASSUME PackageInit PROVE PackageInv
    OBVIOUS
  <1>1. IdlePkg \in PkgRecords /\ EmptyTree \in Trees
    BY DEF IdlePkg, PkgRecords, PkgPcs, EmptyTree, Trees, Nothing
  <1>3. PackageTypeOK
    <2>1. tree \in Trees
      <3>1. \A file \in {"other", "good", "part"}, config \in BOOLEAN :
              [bin |-> file, config |-> config] \in Trees
        BY DEF Trees
      <3> QED
        BY <1>1, <3>1 DEF PackageInit
    <2>2. pkg \in [Processes -> PkgRecords]
      BY <1>1 DEF PackageInit
    <2> QED
      BY <2>1, <2>2 DEF PackageInit, PackageTypeOK, Nothing
  <1>2. Verified /\ Alone /\ PackagesUsable
    BY DEF PackageInit, Verified, Alone, Left, PackagesUsable, Installing, IdlePkg, EmptyTree, Nothing
  <1> QED
    BY <1>2, <1>3 DEF PackageInv

(* Where the record of the command that takes a step goes.                  *)
PkgFrame(p) ==
  /\ pkg' \in [Processes -> PkgRecords]
  /\ \A q \in Processes \ {p} : pkg'[q] = pkg[q]

LEMMA PkgStaysStep ==
  ASSUME PackageTypeOK, NEW p \in Processes, NEW now \in PkgRecords, PkgStays(p, now)
  PROVE  PkgFrame(p) /\ pkg'[p] = now /\ outcome' = outcome
  BY DEF PackageTypeOK, PkgStays, PkgFrame

LEMMA PkgEndsStep ==
  ASSUME PackageTypeOK, NEW p \in Processes, NEW result, PkgEnds(p, result)
  PROVE  PkgFrame(p) /\ pkg'[p] = IdlePkg /\ outcome' = result
  <1>1. IdlePkg \in PkgRecords
    BY DEF IdlePkg, PkgRecords, PkgPcs, Nothing
  <1> QED
    BY <1>1 DEF PackageTypeOK, PkgEnds, PkgFrame

LEMMA PkgGoesStep ==
  ASSUME PackageTypeOK, NEW p \in Processes, NEW pc \in PkgPcs, PkgGoes(p, pc)
  PROVE  /\ PkgFrame(p) /\ outcome' = outcome
         /\ pkg'[p].pc = pc /\ pkg'[p].got = pkg[p].got /\ pkg'[p].left = pkg[p].left
  BY DEF PackageTypeOK, PkgGoes, PkgStays, PkgFrame, PkgRecords

-----------------------------------------------------------------------------
(* A step of one command that leaves the tree, the archive and what is      *)
(* unpacked alone.                                                          *)
LEMMA PkgInstallBegins ==
  ASSUME PackageInv, NEW p \in Processes, InstallBegins(p) PROVE PackageInv'
  <1> USE DEF PackageInv
  <1>1. CASE Usable
    <2>1. PkgFrame(p) /\ pkg'[p] = IdlePkg /\ outcome' = "ok"
      BY <1>1, PkgEndsStep DEF InstallBegins
    <2>2. UNCHANGED <<package, tree, tarball, unpacked>> /\ together' \in BOOLEAN
      BY DEF InstallBegins, PackageTypeOK
    <2>3. \A q \in Processes : pkg'[q].pc # "idle" => pkg'[q] = pkg[q]
      BY <2>1 DEF PkgFrame, IdlePkg
    <2>4. ~together' => ~together
      BY DEF InstallBegins
    <2>5. PackageTypeOK'
      BY <2>1, <2>2 DEF PackageTypeOK, PkgFrame
    <2>6. Verified'
      BY <2>1, <2>2, <2>3 DEF Verified
    <2>7. Alone'
      BY <2>1, <2>2, <2>3, <2>4 DEF Alone, Left, Installing, SourceOf
    <2>8. PackagesUsable'
      BY <1>1, <2>2, <2>6 DEF PackagesUsable, Usable, Verified
    <2> QED
      BY <2>5, <2>6, <2>7, <2>8
  <1>2. CASE ~Usable
    <2>1. /\ PkgFrame(p) /\ outcome' = outcome
          /\ pkg'[p].pc = "download"
      BY <1>2, PkgGoesStep DEF InstallBegins, PkgPcs
    <2>2. UNCHANGED <<package, tree, tarball, unpacked>> /\ together' \in BOOLEAN
      BY DEF InstallBegins, PackageTypeOK
    <2>4. ~together' => ~together /\ \A q \in Processes \ {p} : ~Installing(q)
      BY DEF InstallBegins
    <2>5. PackageTypeOK'
      BY <2>1, <2>2 DEF PackageTypeOK, PkgFrame
    <2>6. Verified'
      BY <2>1, <2>2 DEF Verified, PkgFrame
    <2>7. Alone'
      BY <2>1, <2>2, <2>4 DEF Alone, Left, Installing, SourceOf, PkgFrame
    <2>8. PackagesUsable'
      BY <2>1, <2>2, <2>6 DEF PackagesUsable, Installing, Verified
    <2> QED
      BY <2>5, <2>6, <2>7, <2>8
  <1> QED
    BY <1>1, <1>2

(* A command that goes on, and one that gives up.                           *)
LEMMA PkgWorks ==
  ASSUME PackageInv, NEW p \in Processes, Installing(p), PkgFrame(p), pkg'[p].pc # "idle",
         outcome' = outcome, UNCHANGED <<package, together>>,
         tree' \in Trees, tarball' \in {Nothing, "part", "good", "bad"},
         unpacked' \in {Nothing, "part", "good", "bad"},
         package = "fnn" =>
           /\ pkg'[p].pc \notin {"write", "unpack"}
           /\ pkg'[p].pc \in {"remove", "copy", "copying"} => pkg'[p].got = "good"
           /\ tree'.bin # "bad",
         package = "ckb" => pkg'[p].pc # "verify",
         ~together => Left(p)'
  PROVE  PackageInv'
  <1> USE DEF PackageInv
  <1>1. PackageTypeOK'
    BY DEF PackageTypeOK, PkgFrame
  <1>2. Verified'
    BY DEF Verified, PkgFrame
  <1>3. ASSUME ~together PROVE \A q \in Processes : Left(q)'
    <2> SUFFICES ASSUME NEW q \in Processes, q # p PROVE Left(q)'
      BY <1>3
    <2>1. pkg'[q].pc = "idle"
      BY <1>3 DEF Alone, Installing, PkgFrame
    <2> QED
      BY <2>1 DEF Left
  <1>4. Alone'
    BY <1>3 DEF Alone, PkgFrame, Installing
  <1>5. PackagesUsable'
    BY <1>2 DEF PackagesUsable, Verified, Installing
  <1> QED
    BY <1>1, <1>2, <1>4, <1>5

LEMMA PkgGivesUp ==
  ASSUME PackageInv, NEW p \in Processes, NEW result \in {"failed", "killed"}, PkgEnds(p, result),
         UNCHANGED <<package, tree, tarball, unpacked, together>>
  PROVE  PackageInv'
  <1> USE DEF PackageInv
  <1>1. PkgFrame(p) /\ pkg'[p] = IdlePkg /\ outcome' = result
    BY PkgEndsStep
  <1>2. PackageTypeOK'
    BY <1>1 DEF PackageTypeOK, PkgFrame
  <1>3. Verified'
    BY <1>1 DEF Verified, PkgFrame, IdlePkg
  <1>4. Alone'
    BY <1>1 DEF Alone, Left, PkgFrame, Installing, SourceOf, IdlePkg
  <1>5. PackagesUsable'
    BY <1>1, <1>3 DEF PackagesUsable, Verified
  <1> QED
    BY <1>2, <1>3, <1>4, <1>5

LEMMA PkgDownloads ==
  ASSUME PackageInv, NEW p \in Processes,
         \/ FnnDownloads(p) \/ VerifyFnnPackageChecksum(p)
         \/ CkbDownloads(p) \/ CkbWritesArchive(p) \/ UnZipFile(p)
  PROVE  PackageInv'
  <1> USE DEF PackageInv
  <1>1. CASE FnnDownloads(p)
    <2>1. PICK got \in Archives : PkgStays(p, [pkg[p] EXCEPT !.pc = "verify", !.got = got])
      BY <1>1 DEF FnnDownloads
    <2>2. pkg[p] \in PkgRecords
      BY DEF PackageTypeOK
    <2>4. /\ [pkg[p] EXCEPT !.pc = "verify", !.got = got] \in PkgRecords
          /\ [pkg[p] EXCEPT !.pc = "verify", !.got = got].pc = "verify"
      BY <2>2 DEF PkgRecords, PkgPcs, Archives
    <2>3. PkgFrame(p) /\ pkg'[p].pc = "verify" /\ outcome' = outcome
      BY <2>1, <2>4, PkgStaysStep
    <2> QED
      BY <1>1, <2>3, PkgWorks
         DEF FnnDownloads, PkgAt, Installing, PackageTypeOK, Verified, Left
  <1>2. CASE VerifyFnnPackageChecksum(p)
    <2>1. CASE pkg[p].got = "good"
      <3>1. /\ PkgFrame(p) /\ outcome' = outcome
            /\ pkg'[p].pc = "remove" /\ pkg'[p].got = "good"
        BY <1>2, <2>1, PkgGoesStep DEF VerifyFnnPackageChecksum, PkgPcs
      <3>2. package = "fnn"
        BY <1>2 DEF VerifyFnnPackageChecksum, PkgAt, Verified, PackageTypeOK
      <3> QED
        BY <1>2, <3>1, <3>2, PkgWorks
           DEF VerifyFnnPackageChecksum, PkgAt, Installing, PackageTypeOK, Verified, Left
    <2>2. CASE pkg[p].got # "good"
      BY <1>2, <2>2, PkgGivesUp DEF VerifyFnnPackageChecksum
    <2> QED
      BY <2>1, <2>2
  <1>3. CASE CkbDownloads(p)
    <2>1. PkgFrame(p) /\ outcome' = outcome /\ pkg'[p].pc = "write"
      BY <1>3, PkgGoesStep DEF CkbDownloads, PkgPcs
    <2> QED
      BY <1>3, <2>1, PkgWorks DEF CkbDownloads, PkgAt, Installing, PackageTypeOK, Verified, Left
  <1>4. CASE CkbWritesArchive(p)
    <2>1. PkgFrame(p) /\ outcome' = outcome /\ pkg'[p].pc = "unpack"
      BY <1>4, PkgGoesStep DEF CkbWritesArchive, PkgPcs
    <2>2. package = "ckb"
      BY <1>4 DEF CkbWritesArchive, PkgAt, Verified, PackageTypeOK
    <2> QED
      BY <1>4, <2>1, <2>2, PkgWorks
         DEF CkbWritesArchive, Archives, Whole, PkgAt, Installing, PackageTypeOK, Left
  <1>5. CASE UnZipFile(p)
    <2>1. CASE PkgEnds(p, "failed") /\ UNCHANGED unpacked
      BY <1>5, <2>1, PkgGivesUp DEF UnZipFile
    <2>2. CASE tarball # Nothing /\ unpacked' = tarball /\ PkgGoes(p, "remove")
      <3>1. PkgFrame(p) /\ outcome' = outcome /\ pkg'[p].pc = "remove"
        BY <2>2, PkgGoesStep DEF PkgPcs
      <3>2. package = "ckb" /\ (~together => Whole(tarball))
        BY <1>5 DEF UnZipFile, PkgAt, Verified, PackageTypeOK, Alone, Left
      <3> QED
        BY <1>5, <2>2, <3>1, <3>2, PkgWorks
           DEF UnZipFile, PkgAt, Installing, PackageTypeOK, Left, Whole
    <2> QED
      BY <1>5, <2>1, <2>2 DEF UnZipFile
  <1> QED
    BY <1>1, <1>2, <1>3, <1>4, <1>5

LEMMA PkgUnpacks ==
  ASSUME PackageInv, NEW p \in Processes,
         RemovesTree(p) \/ CopiesConfig(p) \/ CopiesBinary(p) \/ BinaryIsCopied(p)
  PROVE  PackageInv'
  <1> USE DEF PackageInv
  <1>0. pkg[p] \in PkgRecords /\ tree \in Trees
    BY DEF PackageTypeOK
  <1>1. CASE RemovesTree(p)
    <2>1. /\ [pkg[p] EXCEPT !.pc = "copy", !.left = Entries] \in PkgRecords
          /\ [pkg[p] EXCEPT !.pc = "copy", !.left = Entries].pc = "copy"
          /\ [pkg[p] EXCEPT !.pc = "copy", !.left = Entries].got = pkg[p].got
          /\ [pkg[p] EXCEPT !.pc = "copy", !.left = Entries].left = Entries
      BY <1>0 DEF PkgRecords, PkgPcs
    <2>2. /\ PkgFrame(p) /\ outcome' = outcome /\ pkg'[p].pc = "copy"
          /\ pkg'[p].got = pkg[p].got /\ pkg'[p].left = Entries
      BY <1>1, <2>1, PkgStaysStep DEF RemovesTree
    <2>3. tree' \in Trees /\ tree'.bin = Nothing
      BY <1>1 DEF RemovesTree, Trees, EmptyTree
    <2> QED
      BY <1>1, <2>2, <2>3, PkgWorks
         DEF RemovesTree, PkgAt, Installing, PackageTypeOK, Verified, Alone, Left, Entries, Nothing
  <1>2. CASE CopiesConfig(p)
    <2>1. /\ [pkg[p] EXCEPT !.left = @ \ {"config"}] \in PkgRecords
          /\ [pkg[p] EXCEPT !.left = @ \ {"config"}].pc = pkg[p].pc
          /\ [pkg[p] EXCEPT !.left = @ \ {"config"}].got = pkg[p].got
          /\ [pkg[p] EXCEPT !.left = @ \ {"config"}].left = pkg[p].left \ {"config"}
      BY <1>0 DEF PkgRecords
    <2>2. /\ PkgFrame(p) /\ outcome' = outcome /\ pkg'[p].pc = "copy"
          /\ pkg'[p].got = pkg[p].got /\ pkg'[p].left = pkg[p].left \ {"config"}
      BY <1>2, <2>1, PkgStaysStep DEF CopiesConfig, PkgAt
    <2>3. tree' \in Trees /\ tree'.bin = tree.bin /\ tree'.config
      BY <1>0, <1>2 DEF CopiesConfig, Trees
    <2> QED
      BY <1>2, <2>2, <2>3, PkgWorks
         DEF CopiesConfig, PkgAt, Installing, PackageTypeOK, Verified, Alone, Left, SourceOf
  <1>3. CASE CopiesBinary(p)
    <2>1. /\ [pkg[p] EXCEPT !.pc = "copying", !.left = @ \ {"bin"}] \in PkgRecords
          /\ [pkg[p] EXCEPT !.pc = "copying", !.left = @ \ {"bin"}].pc = "copying"
          /\ [pkg[p] EXCEPT !.pc = "copying", !.left = @ \ {"bin"}].got = pkg[p].got
          /\ [pkg[p] EXCEPT !.pc = "copying", !.left = @ \ {"bin"}].left = pkg[p].left \ {"bin"}
      BY <1>0 DEF PkgRecords, PkgPcs
    <2>2. /\ PkgFrame(p) /\ outcome' = outcome /\ pkg'[p].pc = "copying"
          /\ pkg'[p].got = pkg[p].got /\ pkg'[p].left = pkg[p].left \ {"bin"}
      BY <1>3, <2>1, PkgStaysStep DEF CopiesBinary
    <2>3. tree' \in Trees /\ tree'.bin = "part" /\ tree'.config = tree.config
      BY <1>0, <1>3 DEF CopiesBinary, Trees
    <2> QED
      BY <1>3, <2>2, <2>3, PkgWorks
         DEF CopiesBinary, PkgAt, Installing, PackageTypeOK, Verified, Alone, Left
  <1>4. CASE BinaryIsCopied(p)
    <2>1. /\ PkgFrame(p) /\ outcome' = outcome /\ pkg'[p].pc = "copy"
          /\ pkg'[p].got = pkg[p].got /\ pkg'[p].left = pkg[p].left
      BY <1>4, PkgGoesStep DEF BinaryIsCopied, PkgPcs
    <2>2. SourceOf(p) \in {Nothing, "part", "good", "bad"} /\ SourceOf(p)' = SourceOf(p)
      BY <1>0, <1>4, <2>1 DEF SourceOf, PackageTypeOK, PkgRecords, BinaryIsCopied
    <2>3. tree' \in Trees /\ tree'.bin = SourceOf(p) /\ tree'.config = tree.config
      BY <1>0, <1>4, <2>2 DEF BinaryIsCopied, Trees
    <2>4. package = "fnn" => SourceOf(p) = "good"
      BY <1>4 DEF BinaryIsCopied, PkgAt, Verified, SourceOf
    <2> QED
      BY <1>4, <2>1, <2>2, <2>3, <2>4, PkgWorks
         DEF BinaryIsCopied, PkgAt, Installing, PackageTypeOK, Verified, Alone, Left
  <1> QED
    BY <1>1, <1>2, <1>3, <1>4

LEMMA PkgInstallEnds ==
  ASSUME PackageInv, NEW p \in Processes, InstallEnds(p) PROVE PackageInv'
  <1> USE DEF PackageInv
  <1> DEFINE result == IF tree.bin = Nothing \/ (package = "fnn" /\ ~Usable) THEN "failed" ELSE "ok"
  <1>1. PkgFrame(p) /\ pkg'[p] = IdlePkg /\ outcome' = result
    BY PkgEndsStep DEF InstallEnds
  <1>2. UNCHANGED <<package, tree, tarball, together>> /\ PkgAt(p, "copy") /\ pkg[p].left = {}
    BY DEF InstallEnds
  <1>3. unpacked' \in {Nothing, "part", "good", "bad"} /\ (package = "fnn" => unpacked' = unpacked)
    BY DEF InstallEnds, PackageTypeOK
  <1>4. PackageTypeOK'
    BY <1>1, <1>2, <1>3 DEF PackageTypeOK, PkgFrame
  <1>5. Verified'
    BY <1>1, <1>2 DEF Verified, PkgFrame, IdlePkg
  <1>6. Alone'
    <2> SUFFICES ASSUME ~together PROVE Alone'
      BY <1>2 DEF Alone
    <2>1. \A q \in Processes : pkg'[q].pc = "idle"
      BY <1>1, <1>2 DEF Alone, Installing, PkgFrame, PkgAt, IdlePkg
    <2> QED
      BY <2>1 DEF Alone, Installing, Left
  <1>7. PackagesUsable'
    <2> SUFFICES ASSUME outcome' = "ok", ~together
                 PROVE  Usable \/ (package = "ckb" /\ tree.bin = "bad")
      BY <1>2, <1>5 DEF PackagesUsable, Verified, Usable
    <2>1. package = "fnn" => Usable
      BY <1>1
    <2>2. package = "ckb" => tree.bin \in {"good", "bad"}
      BY <1>2 DEF Alone, Left, PkgAt, SourceOf, Whole
    <2> QED
      BY <2>1, <2>2 DEF Usable, PackageTypeOK
  <1> QED
    BY <1>4, <1>5, <1>6, <1>7

LEMMA PackageNextInv == PackageInv /\ [PackageNext]_pkgVars => PackageInv'
  <1>1. CASE UNCHANGED pkgVars
    BY <1>1 DEF pkgVars, PackageInv, PackageTypeOK, Verified, Alone, Left, PackagesUsable,
       Installing, SourceOf, Usable
  <1>2. ASSUME PackageInv, PackageNext PROVE PackageInv'
    <2>1. PICK p \in Processes :
            \/ InstallBegins(p) \/ FnnDownloads(p) \/ VerifyFnnPackageChecksum(p)
            \/ CkbDownloads(p) \/ CkbWritesArchive(p) \/ UnZipFile(p) \/ RemovesTree(p)
            \/ CopiesConfig(p) \/ CopiesBinary(p) \/ BinaryIsCopied(p) \/ InstallEnds(p)
            \/ InstallFails(p) \/ InstallIsKilled(p)
      BY <1>2 DEF PackageNext
    <2>2. CASE InstallFails(p) \/ InstallIsKilled(p)
      BY <1>2, <2>2, PkgGivesUp DEF InstallFails, InstallIsKilled
    <2> QED
      BY <1>2, <2>1, <2>2, PkgInstallBegins, PkgDownloads, PkgUnpacks, PkgInstallEnds
  <1> QED
    BY <1>1, <1>2
=============================================================================
