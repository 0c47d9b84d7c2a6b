------------------------------ MODULE Companions ------------------------------
(***************************************************************************)
(* The parts that work beside the devnet directory and share no state with *)
(* one another, in one specification: the log subscription, the proxy's    *)
(* log with its reader, the installers, the deployments, the UDT commands. *)
(* part, chosen at the start, is the one that moves.                       *)
(***************************************************************************)
EXTENDS LogSubscription, LogFollow, ToolInstall, PackageInstall, Deployment, UdtCells

VARIABLE part

Parts == {"subscription", "proxyLog", "tools", "packages", "deploy", "udt"}
machines == <<subVars, logVars, followVars, toolVars, pkgVars, deployVars, udtVars>>
vars == <<part, machines>>

(* A part that does not move has one initial state.                         *)
Init ==
  /\ part \in Parts
  /\ SubInit /\ (part # "subscription" => attempts = 1)
  /\ ProxyLogInit /\ FollowInit
  /\ ToolInit /\ (part # "tools" => tool.name = "debugger" /\ tool.exdev
                                      /\ tool.had = None /\ tool.hadShim = None)
  /\ PackageInit /\ (part # "packages" => package = "ckb" /\ tree = EmptyTree)
  /\ DeployInit
  /\ UdtInit /\ (part # "udt" => udtCells = <<>>)

Subscribing == SubNext /\ UNCHANGED <<logVars, followVars, toolVars, pkgVars, deployVars, udtVars>>
Logging == ProxyLogNext /\ UNCHANGED <<subVars, followVars, toolVars, pkgVars, deployVars, udtVars>>
Following == FollowNext /\ UNCHANGED <<subVars, logVars, toolVars, pkgVars, deployVars, udtVars>>
InstallingTool == ToolNext /\ UNCHANGED <<subVars, logVars, followVars, pkgVars, deployVars, udtVars>>
InstallingPackage ==
  PackageNext /\ UNCHANGED <<subVars, logVars, followVars, toolVars, deployVars, udtVars>>
Deploying == DeployNext /\ UNCHANGED <<subVars, logVars, followVars, toolVars, pkgVars, udtVars>>
MovingTokens == UdtNext /\ UNCHANGED <<subVars, logVars, followVars, toolVars, pkgVars, deployVars>>

Next ==
  /\ \/ part = "subscription" /\ Subscribing
     \/ part = "proxyLog" /\ (Logging \/ Following)
     \/ part = "tools" /\ InstallingTool
     \/ part = "packages" /\ InstallingPackage
     \/ part = "deploy" /\ Deploying
     \/ part = "udt" /\ MovingTokens
  /\ UNCHANGED part

Spec == Init /\ [][Next]_vars

-----------------------------------------------------------------------------
(* Both kinds of installation: nothing of the user's is lost, nothing half  *)
(* copied or unverified is taken for installed, and an interrupted one is   *)
(* made good by the next (ToolsWhole, PackagesUsable).                      *)
InstallsSafe == ToolsWhole /\ PackagesUsable
=============================================================================
