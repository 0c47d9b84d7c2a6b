---------------------------- MODULE PackageInstall ----------------------------
(***************************************************************************)
(* The installation of a CKB or an FNN release (src/src/node/install.ts,   *)
(* src/src/fiber/install.ts): check, download, verify, unpack, replace the *)
(* tree of the version.  An FNN needs its binary and its bundled           *)
(* configuration, a CKB its binary only.  Several processes may install at *)
(* once, and each may be killed; a binary is copied in two steps, the      *)
(* small configuration file in one.                                        *)
(***************************************************************************)
EXTENDS Naturals, FiniteSets

CONSTANTS
  Processes,
  MaxKills,     \* bound: kills and failing calls
  MaxInstalls   \* bound: commands

VARIABLES
  package,  \* "ckb" or "fnn"; never changes
  tree,     \* the install directory: its binary and its configuration
  tarball,  \* CKB: the archive under its fixed name in the temporary directory
  unpacked, \* CKB: the binary in the shared download directory
  pkg,      \* each process: pc, its private archive, the entries left to copy
  outcome,  \* history: of the installation that ended last
  together, \* history: two processes have installed at once
  kills, installs

pkgVars == <<package, tree, tarball, unpacked, pkg, outcome, together, kills, installs>>

Nothing == "none"
EmptyTree == [bin |-> Nothing, config |-> FALSE]
IdlePkg == [pc |-> "idle", got |-> Nothing, left |-> {}]

PackageInit ==
  /\ package \in {"ckb", "fnn"}
  /\ tree \in {EmptyTree, [bin |-> "other", config |-> TRUE], [bin |-> "good", config |-> FALSE],
               [bin |-> "part", config |-> TRUE]}
  /\ tarball = Nothing /\ unpacked = Nothing
  /\ pkg = [p \in Processes |-> IdlePkg]
  /\ outcome = "none" /\ together = FALSE /\ kills = 0 /\ installs = 0

-----------------------------------------------------------------------------
PkgAt(p, pc) == pkg[p].pc = pc
PkgStays(p, now) == pkg' = [pkg EXCEPT ![p] = now] /\ UNCHANGED outcome
PkgGoes(p, pc) == PkgStays(p, [pkg[p] EXCEPT !.pc = pc])
PkgEnds(p, result) == pkg' = [pkg EXCEPT ![p] = IdlePkg] /\ outcome' = result
Installing(p) == pkg[p].pc # "idle"
PkgCallFails == kills < MaxKills /\ kills' = kills + 1

(* getVersionFromBinary, and for an FNN isInstallComplete.                  *)
Usable == tree.bin = "good" /\ (package = "fnn" => tree.config)

InstallBegins(p) ==
  /\ ~Installing(p) /\ installs < MaxInstalls
  /\ installs' = installs + 1
  /\ IF Usable THEN PkgEnds(p, "ok")
     ELSE PkgGoes(p, "download")
  /\ together' = (together \/ \E q \in Processes \ {p} : Installing(q))
  /\ UNCHANGED <<package, tree, tarball, unpacked, kills>>

(* The archive as it comes: whole, or corrupted.                            *)
Archives == {"good", "bad"}
FnnDownloads(p) ==
  /\ package = "fnn" /\ PkgAt(p, "download")
  /\ \E got \in Archives : PkgStays(p, [pkg[p] EXCEPT !.pc = "verify", !.got = got])
  /\ UNCHANGED <<package, tree, tarball, unpacked, together, kills, installs>>

(* Mutant: whatever was downloaded is unpacked.                             *)
VerifiesNothing(p) ==
  /\ PkgAt(p, "verify")
  /\ PkgGoes(p, "remove")
  /\ UNCHANGED <<package, tree, tarball, unpacked, together, kills, installs>>

VerifyFnnPackageChecksum(p) ==
  /\ PkgAt(p, "verify")
  /\ IF pkg[p].got = "good" THEN PkgGoes(p, "remove") ELSE PkgEnds(p, "failed")
  /\ UNCHANGED <<package, tree, tarball, unpacked, together, kills, installs>>

(* The archive of CKB is written under one name by every process.           *)
CkbDownloads(p) ==
  /\ package = "ckb" /\ PkgAt(p, "download")
  /\ tarball' = "part"
  /\ PkgGoes(p, "write")
  /\ UNCHANGED <<package, tree, unpacked, together, kills, installs>>
CkbWritesArchive(p) ==
  /\ PkgAt(p, "write")
  /\ \E got \in Archives : tarball' = got
  /\ PkgGoes(p, "unpack")
  /\ UNCHANGED <<package, tree, unpacked, together, kills, installs>>
(* What is cut off or corrupted may or may not be noticed here.             *)
UnZipFile(p) ==
  /\ PkgAt(p, "unpack")
  /\ \/ tarball # Nothing /\ unpacked' = tarball /\ PkgGoes(p, "remove")
     \/ tarball \in {Nothing, "part", "bad"} /\ PkgEnds(p, "failed") /\ UNCHANGED unpacked
  /\ UNCHANGED <<package, tree, tarball, together, kills, installs>>

Entries == {"bin", "config"}
RemovesTree(p) ==
  /\ PkgAt(p, "remove")
  /\ tree' = EmptyTree
  /\ PkgStays(p, [pkg[p] EXCEPT !.pc = "copy", !.left = Entries])
  /\ UNCHANGED <<package, tarball, unpacked, together, kills, installs>>

SourceOf(p) == IF package = "fnn" THEN pkg[p].got ELSE unpacked
CopiesConfig(p) ==
  /\ PkgAt(p, "copy") /\ "config" \in pkg[p].left /\ SourceOf(p) # Nothing
  /\ tree' = [tree EXCEPT !.config = TRUE]
  /\ PkgStays(p, [pkg[p] EXCEPT !.left = @ \ {"config"}])
  /\ UNCHANGED <<package, tarball, unpacked, together, kills, installs>>
CopiesBinary(p) ==
  /\ PkgAt(p, "copy") /\ "bin" \in pkg[p].left /\ SourceOf(p) # Nothing
  /\ tree' = [tree EXCEPT !.bin = "part"]
  /\ PkgStays(p, [pkg[p] EXCEPT !.pc = "copying", !.left = @ \ {"bin"}])
  /\ UNCHANGED <<package, tarball, unpacked, together, kills, installs>>
BinaryIsCopied(p) ==
  /\ PkgAt(p, "copying")
  /\ tree' = [tree EXCEPT !.bin = SourceOf(p)]
  /\ PkgGoes(p, "copy")
  /\ UNCHANGED <<package, tarball, unpacked, together, kills, installs>>

(* CKB removes what it has unpacked; a missing binary fails the chmod.  FNN *)
(* runs the installed binary; CKB takes it as it is.                        *)
InstallEnds(p) ==
  /\ PkgAt(p, "copy") /\ pkg[p].left = {}
  /\ unpacked' = IF package = "ckb" THEN Nothing ELSE unpacked
  /\ PkgEnds(p, IF tree.bin = Nothing \/ (package = "fnn" /\ ~Usable) THEN "failed" ELSE "ok")
  /\ UNCHANGED <<package, tree, tarball, together, kills, installs>>

(* A copy that cannot be made: the source is gone, the disk is full.        *)
InstallFails(p) ==
  /\ Installing(p)
  /\ \/ PkgCallFails
     \/ PkgAt(p, "copy") /\ SourceOf(p) = Nothing /\ pkg[p].left # {} /\ UNCHANGED kills
  /\ PkgEnds(p, "failed")
  /\ UNCHANGED <<package, tree, tarball, unpacked, together, installs>>
InstallIsKilled(p) ==
  /\ Installing(p) /\ PkgCallFails
  /\ PkgEnds(p, "killed")
  /\ UNCHANGED <<package, tree, tarball, unpacked, together, installs>>

PackageNext ==
  \E p \in Processes :
    \/ InstallBegins(p) \/ FnnDownloads(p) \/ VerifyFnnPackageChecksum(p)
    \/ CkbDownloads(p) \/ CkbWritesArchive(p) \/ UnZipFile(p) \/ RemovesTree(p)
    \/ CopiesConfig(p) \/ CopiesBinary(p) \/ BinaryIsCopied(p) \/ InstallEnds(p)
    \/ InstallFails(p) \/ InstallIsKilled(p)

-----------------------------------------------------------------------------
(* An installation that succeeded leaves what can be used, also after one   *)
(* that was killed or failed half way ("a cached install whose binary is    *)
(* missing, won't run, reports a different version, or lost its bundled     *)
(* testnet config is replaced", fiber/install.ts:181); an FNN is never one  *)
(* that was "unverified" (line 115) - unless two commands install at once,  *)
(* or it is a CKB that came corrupted: its archive has no digest.           *)
PackagesUsable ==
  /\ (outcome = "ok" /\ ~together /\ \A p \in Processes : ~Installing(p)) =>
       Usable \/ (package = "ckb" /\ tree.bin = "bad")
  /\ package = "fnn" => tree.bin # "bad"
=============================================================================
