---------------------------- MODULE LogSubscription ----------------------------
(***************************************************************************)
(* The client of CKB's TCP log subscription in a foreground node           *)
(* (src/src/devnet/log-subscription.ts): connection events, the retry      *)
(* timer and close() are callbacks that come in any order.                 *)
(***************************************************************************)
EXTENDS Naturals

CONSTANT
  MaxAttempts   \* maxAttempts
ASSUME MaxAttemptsAssumption == MaxAttempts \in Nat \ {0}

VARIABLES
  conns,         \* the connection of each attempt
  socket,        \* the attempt whose connection is the current one, or 0
  retryTimer,    \* a retry is pending
  closed,        \* close() was called
  attempts,
  everConnected,
  reports        \* history: calls of onError

subVars == <<conns, socket, retryTimer, closed, attempts, everConnected, reports>>

Attempts == 1 .. MaxAttempts
NoSocket == 0
(* "broken": error was emitted; "destroyed": destroy() was called, an error *)
(* that was already queued still comes; "gone": close was emitted.          *)
ConnStates == {"none", "connecting", "open", "broken", "destroyed", "gone"}
Working(c) == conns[c] \in {"connecting", "open"}

(* connect() *)
Connects(n) ==
  /\ attempts' = n
  /\ conns' = [conns EXCEPT ![n] = "connecting"]
  /\ socket' = n
  /\ retryTimer' = FALSE

(* An address that is not host:port is reported at once.                    *)
SubscribeToNodeLogs ==
  /\ closed = FALSE /\ everConnected = FALSE /\ retryTimer = FALSE
  /\ \/ /\ attempts = 1 /\ socket = 1 /\ reports = 0
        /\ conns = [c \in Attempts |-> IF c = 1 THEN "connecting" ELSE "none"]
     \/ /\ attempts = 0 /\ socket = NoSocket /\ reports = 1
        /\ conns = [c \in Attempts |-> "none"]

ConnConnects(c) ==
  /\ conns[c] = "connecting"
  /\ conns' = [conns EXCEPT ![c] = "open"]
  /\ everConnected' = TRUE
  /\ UNCHANGED <<socket, retryTimer, closed, attempts, reports>>

Fail == reports' = reports + IF reports > 0 \/ closed THEN 0 ELSE 1

(* Mutant: the retry is set whether or not close() was called meanwhile.    *)
ConnFailsUnguarded(c) ==
  /\ Working(c) \/ conns[c] = "destroyed"
  /\ conns' = [conns EXCEPT ![c] = "broken"]
  /\ IF everConnected THEN UNCHANGED <<retryTimer, reports>>
     ELSE IF attempts < MaxAttempts THEN retryTimer' = TRUE /\ UNCHANGED reports
     ELSE Fail /\ UNCHANGED retryTimer
  /\ UNCHANGED <<socket, closed, attempts, everConnected>>

(* The error event.                                                         *)
ConnFails(c) ==
  /\ Working(c) \/ conns[c] = "destroyed"
  /\ conns' = [conns EXCEPT ![c] = "broken"]
  /\ IF closed \/ everConnected THEN UNCHANGED <<retryTimer, reports>>
     ELSE IF attempts < MaxAttempts THEN retryTimer' = TRUE /\ UNCHANGED reports
     ELSE Fail /\ UNCHANGED retryTimer
  /\ UNCHANGED <<socket, closed, attempts, everConnected>>

(* The close event: after an error, after destroy(), or because the node    *)
(* ended an open connection.                                                *)
ConnCloses(c) ==
  /\ conns[c] \in {"open", "broken", "destroyed"}
  /\ conns' = [conns EXCEPT ![c] = "gone"]
  /\ socket' = IF socket = c THEN NoSocket ELSE socket
  /\ UNCHANGED <<retryTimer, closed, attempts, everConnected, reports>>

RetryTimerFires ==
  /\ retryTimer /\ ~closed
  /\ Connects(attempts + 1)
  /\ UNCHANGED <<closed, everConnected, reports>>

Close ==
  /\ closed' = TRUE
  /\ retryTimer' = FALSE
  /\ conns' = [c \in Attempts |-> IF c = socket /\ Working(c) THEN "destroyed" ELSE conns[c]]
  /\ socket' = NoSocket
  /\ UNCHANGED <<attempts, everConnected, reports>>

SubInit == SubscribeToNodeLogs
SubNext ==
  \/ \E c \in Attempts : ConnConnects(c) \/ ConnFails(c) \/ ConnCloses(c)
  \/ RetryTimerFires \/ Close
SubSpec == SubInit /\ [][SubNext]_subVars

-----------------------------------------------------------------------------
(* "After maxAttempts the failure is reported via onError exactly once and  *)
(* the client gives up" (log-subscription.ts:99): never twice, never after  *)
(* a connection that worked or before the last attempt; and until it has    *)
(* connected, reported or been closed, an attempt or a retry is under way.  *)
ReportedOnce ==
  /\ reports <= 1
  /\ (reports = 1 /\ attempts > 0) => attempts = MaxAttempts /\ ~everConnected
NeverForgotten ==
  ~closed /\ ~everConnected /\ reports = 0 => retryTimer \/ \E c \in Attempts : Working(c)
(* close() leaves no timer that would keep trying, and no live connection.  *)
ClosedIsQuiet == closed => ~retryTimer /\ \A c \in Attempts : ~Working(c)

GivesUpOnce == ReportedOnce /\ NeverForgotten /\ ClosedIsQuiet
=============================================================================
