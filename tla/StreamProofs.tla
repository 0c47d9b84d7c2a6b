---------------------------- MODULE StreamProofs ----------------------------
(***************************************************************************)
(* GivesUpOnce, EventsKept and ShownOnce: the three streams of log lines.  *)
(*                                                                         *)
(* GivesUpOnce, for every number of attempts, says little of one connection;*)
(* the proof needs that only the connection of the last attempt can be at  *)
(* work, that it is then the current one and no retry is pending, and that *)
(* destroy() is called by close() only.                                    *)
(*                                                                         *)
(* EventsKept, for every cap and size of a line: the lines ascend through  *)
(* the three files (Ascending), what they hold is the end of what was      *)
(* written (Unbroken), and each step of a rollover knows which of the files*)
(* are there (Rolling).                                                    *)
(*                                                                         *)
(* ShownOnce, for every --tail and every read that returns fewer bytes than*)
(* were asked for: a file is known by its first line, which no file that is*)
(* created later has (Seen); a stat stays true of the file it is of        *)
(* (StatsTrue); and of the file that is followed the lines up to the offset*)
(* were shown, those after it are newer than all that were (FollowsFile).  *)
(***************************************************************************)
EXTENDS LogSubscription, LogFollow, SequenceTheorems, FiniteSetTheorems, TLAPS

(* The subscription.                                                        *)
SubTypeOK ==
  /\ conns \in [Attempts -> ConnStates]
  /\ socket \in Attempts \cup {NoSocket}
  /\ retryTimer \in BOOLEAN /\ closed \in BOOLEAN /\ everConnected \in BOOLEAN
  /\ attempts \in 0 .. MaxAttempts
  /\ reports \in {0, 1}

(* One connection works at most: that of the last attempt.                  *)
OneAtWork ==
  \A c \in Attempts :
    Working(c) => c = attempts /\ socket = c /\ ~retryTimer /\ ~closed /\ reports = 0
ConnsOrdered ==
  \A c \in Attempts :
    /\ conns[c] = "open" => everConnected
    /\ conns[c] = "destroyed" => closed
    /\ c > attempts => conns[c] = "none"
TimerMeansRetry ==
  retryTimer => ~closed /\ ~everConnected /\ attempts < MaxAttempts /\ reports = 0

SubInv ==
  /\ SubTypeOK /\ OneAtWork /\ ConnsOrdered /\ TimerMeansRetry
  /\ ReportedOnce /\ NeverForgotten

LEMMA SubInitInv == SubInit => SubInv
<1> SUFFICES ASSUME SubInit PROVE SubInv
  OBVIOUS
<1> USE MaxAttemptsAssumption
<1>1. SubTypeOK
  <2>1. retryTimer \in BOOLEAN /\ closed \in BOOLEAN /\ everConnected \in BOOLEAN
    BY DEF SubInit, SubscribeToNodeLogs
  <2>2. conns \in [Attempts -> ConnStates]
    BY DEF SubInit, SubscribeToNodeLogs, ConnStates
  <2>3. /\ socket \in Attempts \cup {NoSocket}
        /\ attempts \in 0 .. MaxAttempts
        /\ reports \in {0, 1}
    BY DEF SubInit, SubscribeToNodeLogs, Attempts, NoSocket
  <2> QED
    BY <2>1, <2>2, <2>3 DEF SubTypeOK
<1>2. OneAtWork /\ ConnsOrdered /\ TimerMeansRetry
  BY DEF SubInit, SubscribeToNodeLogs, OneAtWork, ConnsOrdered, TimerMeansRetry,
         Attempts, Working, NoSocket
<1>3. ReportedOnce /\ NeverForgotten
  BY DEF SubInit, SubscribeToNodeLogs, ReportedOnce, NeverForgotten, Attempts, Working, NoSocket
<1> QED
  BY <1>1, <1>2, <1>3 DEF SubInv

LEMMA SubNextInv == SubInv /\ [SubNext]_subVars => SubInv'
<1> SUFFICES ASSUME SubInv, [SubNext]_subVars PROVE SubInv'
  OBVIOUS
<1> USE MaxAttemptsAssumption DEF Attempts, NoSocket
<1> USE DEF SubInv, SubTypeOK, ConnStates
<1>1. ASSUME NEW c \in Attempts, ConnConnects(c) PROVE SubInv'
  BY <1>1 DEF ConnConnects, OneAtWork, ConnsOrdered, TimerMeansRetry, ReportedOnce,
              NeverForgotten, Working
<1>2. ASSUME NEW c \in Attempts, ConnFails(c) PROVE SubInv'
  <2>1. CASE closed \/ everConnected
    BY <1>2, <2>1 DEF ConnFails, OneAtWork, ConnsOrdered, TimerMeansRetry, ReportedOnce,
                      NeverForgotten, Working
  <2>2. CASE ~closed /\ ~everConnected
    <3>1. Working(c) /\ c = attempts /\ reports = 0
      BY <1>2, <2>2 DEF ConnFails, ConnsOrdered, OneAtWork
    <3>2. \A d \in Attempts : ~Working(d)'
      BY <1>2, <3>1 DEF ConnFails, OneAtWork, Working
    <3>3. CASE attempts < MaxAttempts
      BY <1>2, <2>2, <3>1, <3>2, <3>3 DEF ConnFails, OneAtWork, ConnsOrdered,
         TimerMeansRetry, ReportedOnce, NeverForgotten, Working
    <3>4. CASE ~(attempts < MaxAttempts)
      BY <1>2, <2>2, <3>1, <3>2, <3>4 DEF ConnFails, Fail, OneAtWork, ConnsOrdered,
         TimerMeansRetry, ReportedOnce, NeverForgotten, Working
    <3> QED
      BY <3>3, <3>4
  <2> QED
    BY <2>1, <2>2
<1>3. ASSUME NEW c \in Attempts, ConnCloses(c) PROVE SubInv'
  BY <1>3 DEF ConnCloses, OneAtWork, ConnsOrdered, TimerMeansRetry, ReportedOnce,
              NeverForgotten, Working
<1>4. CASE RetryTimerFires
  <2>1. attempts + 1 \in Attempts /\ \A c \in Attempts : ~Working(c)
    BY <1>4 DEF RetryTimerFires, OneAtWork, TimerMeansRetry
  <2>2. /\ attempts' = attempts + 1 /\ socket' = attempts'
        /\ conns' = [conns EXCEPT ![attempts'] = "connecting"]
        /\ ~retryTimer' /\ ~closed' /\ ~everConnected' /\ reports' = 0
    BY <1>4 DEF RetryTimerFires, Connects, TimerMeansRetry
  <2>3. \A c \in Attempts : conns'[c] = IF c = attempts' THEN "connecting" ELSE conns[c]
    BY <2>1, <2>2
  <2>4. SubTypeOK'
    <3>1. retryTimer' \in BOOLEAN /\ closed' \in BOOLEAN /\ everConnected' \in BOOLEAN
      BY <1>4 DEF RetryTimerFires, Connects
    <3>2. conns' \in [Attempts -> ConnStates]
      BY <2>1, <2>2
    <3>3. /\ socket' \in Attempts \cup {NoSocket} /\ attempts' \in 0 .. MaxAttempts
          /\ reports' \in {0, 1}
      BY <2>1, <2>2
    <3> QED
      BY <3>1, <3>2, <3>3
  <2>5. OneAtWork' /\ NeverForgotten'
    BY <2>1, <2>2, <2>3 DEF OneAtWork, NeverForgotten, Working
  <2>6. ConnsOrdered'
    BY <1>4, <2>1, <2>2, <2>3 DEF ConnsOrdered, RetryTimerFires
  <2>7. TimerMeansRetry' /\ ReportedOnce'
    BY <2>2 DEF TimerMeansRetry, ReportedOnce
  <2> QED
    BY <2>4, <2>5, <2>6, <2>7
<1>5. CASE Close
  BY <1>5 DEF Close, OneAtWork, ConnsOrdered, TimerMeansRetry, ReportedOnce,
              NeverForgotten, Working
<1>6. CASE UNCHANGED subVars
  BY <1>6 DEF subVars, OneAtWork, ConnsOrdered, TimerMeansRetry, ReportedOnce,
              NeverForgotten, Working
<1> QED
  BY <1>1, <1>2, <1>3, <1>4, <1>5, <1>6 DEF SubNext

(* "After maxAttempts the failure is reported via onError exactly once and  *)
(* the client gives up" (log-subscription.ts:99), for every maxAttempts:    *)
(* never two reports, none after a connection that worked, no client that   *)
(* forgets to try again, and no connection or timer left by close().        *)
THEOREM SubscriptionGivesUpOnce == SubSpec => []GivesUpOnce
<1>1. SubInv => GivesUpOnce
  BY DEF SubInv, GivesUpOnce, ClosedIsQuiet, OneAtWork, TimerMeansRetry
<1> QED
  BY <1>1, SubInitInv, SubNextInv, PTL DEF SubSpec

-----------------------------------------------------------------------------
(* Sequences.                                                               *)
LEMMA ToSetAppend ==
  ASSUME NEW S, NEW s \in Seq(S), NEW x \in S
  PROVE  ToSet(Append(s, x)) = ToSet(s) \cup {x}
  <1>1. /\ DOMAIN Append(s, x) = 1 .. Len(s) + 1
        /\ \A i \in 1 .. Len(s) : Append(s, x)[i] = s[i]
        /\ Append(s, x)[Len(s) + 1] = x
        /\ DOMAIN s = 1 .. Len(s) /\ Len(s) \in Nat
    BY AppendProperties, LenProperties
  <1>2. \A y : y \in ToSet(Append(s, x)) <=> y \in ToSet(s) \/ y = x
    BY <1>1 DEF ToSet
  <1> QED
    BY <1>2

-----------------------------------------------------------------------------
(* The proxy's log.                                                         *)
LogLines == Seq(Nat)
ProxyPcs == {"idle", "clear", "aside", "rename", "restore", "drop", "append"}
LogTypeOK ==
  /\ active.lines \in LogLines /\ archive.lines \in LogLines /\ backup.lines \in LogLines
  /\ There(active) => active.lines # <<>>
  /\ There(archive) => archive.lines # <<>>
  /\ There(backup) => backup.lines # <<>>
  /\ proxy \in [pc : ProxyPcs, todo : LogLines, n : Nat, dirReady : BOOLEAN, size : Int,
                hadArchive : BOOLEAN]
  /\ written \in SUBSET Nat
  /\ stranded \in BOOLEAN

(* The lines of the three files ascend, from the oldest file to the newest. *)
Sorted(s) == \A i, j \in DOMAIN s : i < j => s[i] < s[j]
Below(S, T) == \A e \in S, f \in T : e < f
Lines(file) == ToSet(file.lines)
Ascending ==
  /\ Sorted(backup.lines) /\ Sorted(archive.lines) /\ Sorted(active.lines)
  /\ Below(Lines(backup), Lines(archive))
  /\ Below(Lines(backup), Lines(active))
  /\ Below(Lines(archive), Lines(active))

(* What the files hold is the end of what was written, and what is to come  *)
(* is newer.                                                                *)
AllLines == Lines(backup) \cup Lines(archive) \cup Lines(active)
Unbroken ==
  /\ AllLines \subseteq written
  /\ Below(written \ AllLines, AllLines)
  /\ Sorted(proxy.todo)
  /\ Below(written, ToSet(proxy.todo))
  /\ \A e \in written \cup ToSet(proxy.todo) : e <= proxy.n
  /\ proxy.pc # "idle" => proxy.todo # <<>>

(* Where the active file and the archive are, step by step of a rollover.   *)
Rolling ==
  /\ proxy.pc \in {"idle", "append", "clear"} /\ ~stranded => ~There(backup)
  /\ proxy.pc = "aside" => ~There(backup)
  /\ proxy.pc \in {"rename", "restore"} => ~There(archive)
  /\ proxy.pc = "rename" /\ ~proxy.hadArchive => ~There(backup)
  /\ proxy.pc = "drop" => ~There(active)
  /\ written # {} =>
       /\ proxy.pc = "drop" => There(archive)
       /\ proxy.pc \in {"clear", "aside", "rename", "restore"} \/
            (proxy.pc \in {"idle", "append"} /\ proxy.size > 0) => There(active)
       /\ AllLines # {}

LogInv == LogTypeOK /\ Ascending /\ Unbroken /\ Rolling /\ ArchiveKept

LEMMA NoFileIsEmpty == NoFile.lines = <<>> /\ ~There(NoFile) /\ ToSet(NoFile.lines) = {} /\ <<>> \in LogLines
  BY EmptySeq DEF NoFile, There, ToSet, LogLines

LEMMA LogInitInv == ProxyLogInit => LogInv
  <1> SUFFICES ASSUME ProxyLogInit PROVE LogInv
    OBVIOUS
  <1>1. LogTypeOK
    <2>1. proxy = FreshProxy(0) /\ written = {} /\ stranded = FALSE
      BY DEF ProxyLogInit
    <2>2. proxy \in [pc : ProxyPcs, todo : LogLines, n : Nat, dirReady : BOOLEAN, size : Int,
                     hadArchive : BOOLEAN]
      BY <2>1, NoFileIsEmpty DEF FreshProxy, ProxyPcs
    <2> QED
      BY <2>1, <2>2, NoFileIsEmpty DEF ProxyLogInit, LogTypeOK
  <1>2. Ascending /\ Unbroken
    BY NoFileIsEmpty
       DEF ProxyLogInit, FreshProxy, Ascending, Unbroken, Sorted, Below, Lines, AllLines, NoFile, ToSet
  <1>3. Rolling /\ ArchiveKept
    BY NoFileIsEmpty DEF ProxyLogInit, FreshProxy, Rolling, ArchiveKept
  <1> QED
    BY <1>1, <1>2, <1>3 DEF LogInv

-----------------------------------------------------------------------------
(* The steps that leave the files alone.                                    *)
LEMMA FilesKept ==
  ASSUME LogInv, UNCHANGED <<active, archive, backup, written>>,
         proxy' \in [pc : ProxyPcs, todo : LogLines, n : Nat, dirReady : BOOLEAN, size : Int,
                     hadArchive : BOOLEAN],
         stranded' \in BOOLEAN, stranded => stranded',
         Sorted(proxy'.todo), Below(written, ToSet(proxy'.todo)),
         \A e \in written \cup ToSet(proxy'.todo) : e <= proxy'.n,
         proxy'.pc # "idle" => proxy'.todo # <<>>,
         Rolling'
  PROVE  LogInv'
  <1>1. LogTypeOK' /\ Ascending'
    BY DEF LogInv, LogTypeOK, Ascending, Lines, There, SizeOf
  <1>2. AllLines' = AllLines
    BY DEF AllLines, Lines
  <1>3. Unbroken'
    BY <1>2 DEF LogInv, Unbroken
  <1>4. ArchiveKept'
    BY DEF LogInv, ArchiveKept, There
  <1> QED
    BY <1>1, <1>3, <1>4 DEF LogInv

(* The ones of the proxy among them that go on with the same event.         *)
LEMMA SameEvent ==
  ASSUME LogInv, UNCHANGED <<active, archive, backup, written>>,
         NEW pc \in ProxyPcs, NEW size \in Int,
         proxy'.pc = pc, proxy'.size = size, proxy'.todo = proxy.todo, proxy'.n = proxy.n,
         proxy'.hadArchive = proxy.hadArchive,
         proxy' \in [pc : ProxyPcs, todo : LogLines, n : Nat, dirReady : BOOLEAN, size : Int,
                     hadArchive : BOOLEAN],
         stranded' \in BOOLEAN, stranded => stranded', proxy.todo # <<>>,
         Rolling'
  PROVE  LogInv'
  BY FilesKept DEF LogInv, Unbroken

LEMMA BodyIsCounted ==
  ASSUME LogTypeOK, NEW body \in Bodies
  PROVE  \E count \in Nat : EventsOf(body) = [i \in 1 .. count |-> proxy.n + i]
  <1> DEFINE events == {e \in (DOMAIN body) \X EventKinds :
                          HandleOneRequest(body[e[1]], e[2]) \/ ErrorEvent(body[e[1]], e[2])}
  <1> DEFINE members == {"send", "junk", "call", "badSend", "error", "result"}
  <1>1. body \in Seq(members)
    <2>1. <<"send">> \in Seq(members) /\ <<"badSend">> \in Seq(members)
      OBVIOUS
    <2>2. <<"junk", "call">> \in Seq(members) /\ <<"error", "result">> \in Seq(members)
      OBVIOUS
    <2> HIDE DEF members
    <2> QED
      BY <2>1, <2>2 DEF Bodies
  <1>2. IsFiniteSet(DOMAIN body)
    BY <1>1, LenProperties, FS_Interval
  <1>3. IsFiniteSet(EventKinds)
    <2>1. IsFiniteSet({"request"}) /\ IsFiniteSet({"hash"}) /\ IsFiniteSet({"error"})
      BY FS_Singleton
    <2>2. IsFiniteSet({"request"} \cup {"hash"})
      BY <2>1, FS_Union
    <2>3. IsFiniteSet(({"request"} \cup {"hash"}) \cup {"error"})
      BY <2>1, <2>2, FS_Union
    <2>4. EventKinds = ({"request"} \cup {"hash"}) \cup {"error"}
      BY DEF EventKinds
    <2> QED
      BY <2>3, <2>4
  <1>4. IsFiniteSet((DOMAIN body) \X EventKinds)
    BY <1>2, <1>3, FS_Product
  <1>5. events \subseteq (DOMAIN body) \X EventKinds
    OBVIOUS
  <1>6. IsFiniteSet(events)
    BY <1>4, <1>5, FS_Subset
  <1>7. Cardinality(events) \in Nat
    BY <1>6, FS_CardinalityType
  <1> QED
    BY <1>7 DEF EventsOf

LEMMA BodyInv == ASSUME LogInv, HandleProxyBody PROVE LogInv'
  <1>1. PICK body \in Bodies :
          proxy' = [proxy EXCEPT !.todo = EventsOf(body), !.n = @ + Len(EventsOf(body))]
    BY DEF HandleProxyBody
  <1>2. PICK count \in Nat : EventsOf(body) = [i \in 1 .. count |-> proxy.n + i]
    BY BodyIsCounted DEF LogInv
  <1>3. /\ proxy \in [pc : ProxyPcs, todo : LogLines, n : Nat, dirReady : BOOLEAN, size : Int,
                      hadArchive : BOOLEAN]
        /\ proxy.pc = "idle" /\ proxy.n \in Nat /\ written \subseteq Nat
    BY DEF LogInv, LogTypeOK, HandleProxyBody
  <1>4. \A i \in 1 .. count : proxy.n + i \in Nat
    BY <1>3
  <1>5. EventsOf(body) \in LogLines /\ Len(EventsOf(body)) = count
    BY <1>2, <1>4, IsASeq DEF LogLines
  <1>6. /\ proxy' \in [pc : ProxyPcs, todo : LogLines, n : Nat, dirReady : BOOLEAN, size : Int,
                       hadArchive : BOOLEAN]
        /\ proxy'.todo = EventsOf(body) /\ proxy'.n = proxy.n + count /\ proxy'.pc = "idle"
        /\ proxy'.size = proxy.size /\ proxy'.hadArchive = proxy.hadArchive
    <2>1. proxy.n + count \in Nat
      BY <1>3
    <2>2. proxy' = [proxy EXCEPT !.todo = EventsOf(body), !.n = proxy.n + count]
      BY <1>1, <1>5
    <2> QED
      BY <1>3, <1>5, <2>1, <2>2
  <1>7. /\ DOMAIN proxy'.todo = 1 .. count
        /\ \A i \in 1 .. count : proxy'.todo[i] = proxy.n + i
    BY <1>2, <1>6
  <1>8. Sorted(proxy'.todo)
    BY <1>3, <1>7 DEF Sorted
  <1>9. \A e \in ToSet(proxy'.todo) : e \in Nat /\ proxy.n < e /\ e <= proxy.n + count
    BY <1>3, <1>7 DEF ToSet
  <1>10. \A e \in written : e <= proxy.n
    BY DEF LogInv, Unbroken
  <1>11. /\ Below(written, ToSet(proxy'.todo))
         /\ \A e \in written \cup ToSet(proxy'.todo) : e <= proxy'.n
    BY <1>3, <1>6, <1>9, <1>10 DEF Below
  <1>12. UNCHANGED <<active, archive, backup, written, stranded>>
    BY DEF HandleProxyBody
  <1>13. Rolling'
    BY <1>3, <1>6, <1>12 DEF LogInv, Rolling, There, AllLines, Lines
  <1> QED
    BY <1>6, <1>8, <1>11, <1>12, <1>13, FilesKept DEF LogInv, LogTypeOK

LEMMA EventBeginsInv == ASSUME SizeAssumption, LogInv, EventBegins PROVE LogInv'
  <1> DEFINE size == IF proxy.size < 0 THEN SizeOf(active) ELSE proxy.size
             pc == IF size > 0 /\ size + LineBytes > MaxBytes THEN "clear" ELSE "append"
  <1>1. proxy' = [proxy EXCEPT !.dirReady = TRUE, !.size = size, !.pc = pc]
    BY DEF EventBegins
  <1>2. /\ proxy \in [pc : ProxyPcs, todo : LogLines, n : Nat, dirReady : BOOLEAN, size : Int,
                      hadArchive : BOOLEAN]
        /\ active.lines \in LogLines
    BY DEF LogInv, LogTypeOK
  <1>3. Len(active.lines) \in Nat
    BY <1>2, LenProperties DEF LogLines
  <1>4. SizeOf(active) \in Int /\ (~There(active) => SizeOf(active) = 0)
    BY <1>3 DEF SizeAssumption, SizeOf, There, NoFile
  <1>5. size \in Int /\ pc \in {"clear", "append"}
    BY <1>2, <1>4
  <1>6. /\ proxy' \in [pc : ProxyPcs, todo : LogLines, n : Nat, dirReady : BOOLEAN, size : Int,
                       hadArchive : BOOLEAN]
        /\ proxy'.pc = pc /\ proxy'.size = size /\ proxy'.todo = proxy.todo /\ proxy'.n = proxy.n
        /\ proxy'.hadArchive = proxy.hadArchive
    BY <1>1, <1>2, <1>5 DEF ProxyPcs
  <1>7. UNCHANGED <<active, archive, backup, written, stranded>>
        /\ proxy.pc = "idle" /\ proxy.todo # <<>>
    BY DEF EventBegins
  <1>8. size > 0 /\ written # {} => There(active)
    BY <1>2, <1>4, <1>7 DEF LogInv, Rolling
  <1>9. pc = "clear" => size > 0
    OBVIOUS
  <1> HIDE DEF size, pc
  <1>10. Rolling'
    BY <1>5, <1>6, <1>7, <1>8, <1>9 DEF LogInv, Rolling, There, AllLines, Lines
  <1> QED
    BY <1>5, <1>6, <1>7, <1>10, SameEvent DEF LogInv, LogTypeOK, ProxyPcs

-----------------------------------------------------------------------------
(* A rollover: files change their places, and the oldest goes.              *)
ProxyRecords ==
  [pc : ProxyPcs, todo : LogLines, n : Nat, dirReady : BOOLEAN, size : Int, hadArchive : BOOLEAN]
GoesOn(pc) ==
  /\ proxy' \in ProxyRecords /\ proxy'.pc = pc
  /\ proxy'.todo = proxy.todo /\ proxy'.n = proxy.n

LEMMA ProxyAtStep ==
  ASSUME LogInv, NEW pc \in ProxyPcs, ProxyAt(pc)
  PROVE  GoesOn(pc) /\ proxy'.hadArchive = proxy.hadArchive /\ proxy'.size = proxy.size
  BY DEF LogInv, LogTypeOK, ProxyAt, GoesOn, ProxyRecords

(* What is left after the oldest lines are dropped still ascends, and is    *)
(* the end of what was written.                                             *)
LEMMA MovedInv ==
  ASSUME LogInv, NEW pc \in ProxyPcs \ {"idle"}, GoesOn(pc), proxy.pc # "idle", written' = written,
         active'.lines \in LogLines, archive'.lines \in LogLines, backup'.lines \in LogLines,
         There(active') => active'.lines # <<>>, There(archive') => archive'.lines # <<>>,
         There(backup') => backup'.lines # <<>>,
         stranded' \in BOOLEAN, Ascending', Rolling', ArchiveKept',
         AllLines' \subseteq AllLines, Below(AllLines \ AllLines', AllLines')
  PROVE  LogInv'
  <1>1. LogTypeOK'
    BY DEF LogInv, LogTypeOK, GoesOn, ProxyRecords, There
  <1>2. AllLines' \subseteq written
    BY DEF LogInv, Unbroken
  <1>3. Below(written \ AllLines', AllLines')
    BY DEF LogInv, Unbroken, Below
  <1>4. Unbroken'
    BY <1>2, <1>3 DEF LogInv, Unbroken, GoesOn
  <1> QED
    BY <1>1, <1>4 DEF LogInv

LEMMA ThereHasLines ==
  ASSUME NEW file, file.lines \in LogLines, There(file) => file.lines # <<>>
  PROVE  There(file) => Lines(file) # {}
  <1> SUFFICES ASSUME There(file) PROVE Lines(file) # {}
    OBVIOUS
  <1>1. file.lines \in Seq(Nat) /\ file.lines # <<>>
    BY DEF LogLines
  <1>2. Len(file.lines) \in Nat /\ DOMAIN file.lines = 1 .. Len(file.lines)
    BY <1>1, LenProperties
  <1>3. Len(file.lines) # 0
    BY <1>1, EmptySeq
  <1>4. 1 \in DOMAIN file.lines
    BY <1>2, <1>3
  <1> QED
    BY <1>4 DEF Lines, ToSet

LEMMA RollClearsInv == ASSUME LogInv, RollClears PROVE LogInv'
  <1>1. /\ proxy.pc = "clear" /\ backup' = NoFile
        /\ UNCHANGED <<active, archive, written, stranded>>
        /\ GoesOn("aside")
    BY ProxyAtStep DEF RollClears, ProxyPcs
  <1>2. Ascending'
    BY <1>1, NoFileIsEmpty DEF LogInv, Ascending, Sorted, Below, Lines
  <1>3. AllLines' = Lines(archive) \cup Lines(active)
    BY <1>1, NoFileIsEmpty DEF AllLines, Lines
  <1>4. AllLines' \subseteq AllLines /\ Below(AllLines \ AllLines', AllLines')
    BY <1>3 DEF LogInv, Ascending, AllLines, Below
  <1>5. written # {} => There(active) /\ AllLines' # {}
    <2>1. There(active) => Lines(active) # {}
      BY ThereHasLines DEF LogInv, LogTypeOK
    <2> QED
      BY <1>1, <1>3, <2>1 DEF LogInv, Rolling
  <1>6. Rolling'
    BY <1>1, <1>5, NoFileIsEmpty DEF Rolling, GoesOn, There
  <1>7. ArchiveKept'
    BY <1>1 DEF LogInv, ArchiveKept, Rolling, There
  <1> QED
    BY <1>1, <1>2, <1>4, <1>6, <1>7, NoFileIsEmpty, MovedInv DEF LogInv, LogTypeOK, ProxyPcs, There

LEMMA RollSetsAsideInv == ASSUME LogInv, RollSetsAside PROVE LogInv'
  <1>1. /\ proxy.pc = "aside" /\ archive' = NoFile
        /\ backup' = (IF There(archive) THEN archive ELSE backup)
        /\ UNCHANGED <<active, written, stranded>>
        /\ GoesOn("rename") /\ proxy'.hadArchive = There(archive)
    BY DEF RollSetsAside, LogInv, LogTypeOK, GoesOn, ProxyRecords, ProxyPcs, There
  <1>2. backup = NoFile /\ (~There(archive) => archive = NoFile)
    BY <1>1 DEF LogInv, Rolling, There
  <1>3. backup' = archive
    BY <1>1, <1>2
  <1>4. Ascending' /\ AllLines' = AllLines
    BY <1>1, <1>2, <1>3, NoFileIsEmpty DEF LogInv, Ascending, Sorted, Below, Lines, AllLines
  <1>5. Rolling'
    BY <1>1, <1>3, <1>4, NoFileIsEmpty DEF LogInv, Rolling, GoesOn, There
  <1>6. ArchiveKept'
    BY <1>1, <1>2, <1>3 DEF LogInv, ArchiveKept, There
  <1>7. Below(AllLines \ AllLines', AllLines')
    BY <1>4 DEF Below
  <1> QED
    BY <1>1, <1>3, <1>4, <1>5, <1>6, <1>7, NoFileIsEmpty, MovedInv
       DEF LogInv, LogTypeOK, ProxyPcs, There

LEMMA RollRenamesInv == ASSUME LogInv, RollRenames PROVE LogInv'
  <1>1. /\ proxy.pc = "rename" /\ There(active)
        /\ archive' = active /\ active' = NoFile /\ stranded' = FALSE
        /\ UNCHANGED <<backup, written>>
        /\ GoesOn("drop")
    BY ProxyAtStep DEF RollRenames, ProxyPcs
  <1>2. archive = NoFile
    BY <1>1 DEF LogInv, Rolling, There
  <1>3. Ascending' /\ AllLines' = AllLines
    BY <1>1, <1>2, NoFileIsEmpty DEF LogInv, Ascending, Sorted, Below, Lines, AllLines
  <1>4. Rolling'
    BY <1>1, <1>3 DEF LogInv, Rolling, GoesOn, There
  <1>5. ArchiveKept'
    BY <1>1 DEF ArchiveKept, There
  <1>6. Below(AllLines \ AllLines', AllLines')
    BY <1>3 DEF Below
  <1> QED
    BY <1>1, <1>3, <1>4, <1>5, <1>6, NoFileIsEmpty, MovedInv
       DEF LogInv, LogTypeOK, ProxyPcs, There

LEMMA RollRestoresInv == ASSUME LogInv, RollRestores PROVE LogInv'
  <1>1. /\ proxy.pc = "restore" /\ UNCHANGED <<active, written>>
        /\ GoesOn("append") /\ proxy'.size = proxy.size
    BY ProxyAtStep DEF RollRestores, ProxyPcs
  <1>2. archive = NoFile
    BY <1>1 DEF LogInv, Rolling, There
  <1>3. CASE There(backup) /\ archive' = backup /\ backup' = NoFile /\ UNCHANGED <<faults, stranded>>
    <2>1. Ascending' /\ AllLines' = AllLines
      BY <1>1, <1>2, <1>3, NoFileIsEmpty DEF LogInv, Ascending, Sorted, Below, Lines, AllLines
    <2>2. Rolling'
      BY <1>1, <1>3, <2>1, NoFileIsEmpty DEF LogInv, Rolling, GoesOn, There
    <2>3. ArchiveKept'
      BY <1>1, <1>3 DEF ArchiveKept, There
    <2>4. Below(AllLines \ AllLines', AllLines')
      BY <2>1 DEF Below
    <2> QED
      BY <1>1, <1>3, <2>1, <2>2, <2>3, <2>4, NoFileIsEmpty, MovedInv
         DEF LogInv, LogTypeOK, ProxyPcs, There
  <1>4. CASE UNCHANGED <<archive, backup>> /\ (stranded' = TRUE \/ (~There(backup) /\ stranded' = stranded))
    <2>1. Ascending' /\ AllLines' = AllLines
      BY <1>1, <1>4 DEF LogInv, Ascending, Lines, AllLines
    <2>2. Rolling'
      BY <1>1, <1>4, <2>1 DEF LogInv, Rolling, GoesOn, There
    <2>3. ArchiveKept'
      BY <1>1, <1>4 DEF LogInv, ArchiveKept, There
    <2>4. Below(AllLines \ AllLines', AllLines')
      BY <2>1 DEF Below
    <2> QED
      BY <1>1, <1>4, <2>1, <2>2, <2>3, <2>4, MovedInv
         DEF LogInv, LogTypeOK, ProxyPcs, There
  <1> QED
    BY <1>3, <1>4 DEF RollRestores

LEMMA RollEndsInv == ASSUME LogInv, RollEnds PROVE LogInv'
  <1>1. /\ proxy.pc = "drop" /\ backup' = NoFile
        /\ UNCHANGED <<active, archive, written, stranded>>
        /\ GoesOn("append") /\ proxy'.size = 0
    <2>1. proxy \in ProxyRecords
      BY DEF LogInv, LogTypeOK, ProxyRecords
    <2>2. proxy' = [proxy EXCEPT !.pc = "append", !.size = 0]
      BY DEF RollEnds
    <2>3. proxy' \in ProxyRecords
      <3>1. "append" \in ProxyPcs /\ 0 \in Int
        BY DEF ProxyPcs
      <3> QED
        BY <2>1, <2>2, <3>1 DEF ProxyRecords
    <2>4. proxy'.pc = "append" /\ proxy'.size = 0 /\ proxy'.todo = proxy.todo /\ proxy'.n = proxy.n
      BY <2>1, <2>2 DEF ProxyRecords
    <2> QED
      BY <2>3, <2>4 DEF RollEnds, GoesOn
  <1>2. active = NoFile
    BY <1>1 DEF LogInv, Rolling, There
  <1>3. Ascending'
    BY <1>1, NoFileIsEmpty DEF LogInv, Ascending, Sorted, Below, Lines
  <1>4. AllLines' = Lines(archive) \cup Lines(active)
    BY <1>1, NoFileIsEmpty DEF AllLines, Lines
  <1>5. AllLines' \subseteq AllLines /\ Below(AllLines \ AllLines', AllLines')
    BY <1>4 DEF LogInv, Ascending, AllLines, Below
  <1>6. written # {} => There(archive) /\ AllLines' # {}
    <2>1. There(archive) => Lines(archive) # {}
      BY ThereHasLines DEF LogInv, LogTypeOK
    <2> QED
      BY <1>1, <1>4, <2>1 DEF LogInv, Rolling
  <1>7. Rolling'
    BY <1>1, <1>6, NoFileIsEmpty DEF Rolling, GoesOn, There
  <1>8. ArchiveKept'
    BY <1>1, <1>2, <1>6, NoFileIsEmpty DEF LogInv, ArchiveKept, There
  <1> QED
    BY <1>1, <1>3, <1>5, <1>7, <1>8, NoFileIsEmpty, MovedInv DEF LogInv, LogTypeOK, ProxyPcs, There

LEMMA RollFailsInv == ASSUME SizeAssumption, LogInv, RollAsideFails \/ RollRenameFails PROVE LogInv'
  <1>1. /\ UNCHANGED <<active, archive, backup, written, stranded>>
        /\ \E pc \in {"append", "restore"} : GoesOn(pc)
        /\ proxy'.size = MaxBytes /\ proxy'.hadArchive = proxy.hadArchive
        /\ proxy.pc \in {"aside", "rename"}
    <2>1. proxy \in ProxyRecords
      BY DEF LogInv, LogTypeOK, ProxyRecords
    <2>2. PICK pc \in {"append", "restore"} : proxy' = [proxy EXCEPT !.pc = pc, !.size = MaxBytes]
      <3>1. CASE RollAsideFails
        BY <3>1 DEF RollAsideFails
      <3>2. CASE RollRenameFails /\ proxy.hadArchive
        BY <3>2 DEF RollRenameFails
      <3>3. CASE RollRenameFails /\ ~proxy.hadArchive
        BY <3>3 DEF RollRenameFails
      <3> QED
        BY <3>1, <3>2, <3>3
    <2>3. proxy' \in ProxyRecords
      <3>1. pc \in ProxyPcs /\ MaxBytes \in Int
        BY DEF ProxyPcs, SizeAssumption
      <3> QED
        BY <2>1, <2>2, <3>1 DEF ProxyRecords
    <2>4. /\ proxy'.pc = pc /\ proxy'.size = MaxBytes /\ proxy'.todo = proxy.todo
          /\ proxy'.n = proxy.n /\ proxy'.hadArchive = proxy.hadArchive
      BY <2>1, <2>2 DEF ProxyRecords
    <2>5. GoesOn(pc)
      BY <2>3, <2>4 DEF GoesOn
    <2> QED
      BY <2>4, <2>5 DEF RollAsideFails, RollRenameFails
  <1>2. proxy'.pc = "append" => ~There(backup)
    <2>1. CASE RollAsideFails
      BY <2>1 DEF RollAsideFails, LogInv, Rolling
    <2>2. CASE RollRenameFails
      BY <2>2 DEF RollRenameFails, LogInv, LogTypeOK, Rolling
    <2> QED
      BY <2>1, <2>2
  <1>3. proxy'.pc = "restore" => proxy.pc = "rename"
    BY DEF RollAsideFails, RollRenameFails, LogInv, LogTypeOK
  <1>4. AllLines' = AllLines
    BY <1>1 DEF AllLines, Lines
  <1>5. Rolling'
    BY <1>1, <1>2, <1>3, <1>4 DEF LogInv, Rolling, GoesOn, There
  <1>6. proxy.todo # <<>>
    BY <1>1 DEF LogInv, Unbroken
  <1>7. stranded' \in BOOLEAN /\ proxy'.size \in Int /\ proxy'.pc \in ProxyPcs
    BY <1>1 DEF LogInv, LogTypeOK, SizeAssumption, GoesOn, ProxyPcs
  <1> QED
    BY <1>1, <1>5, <1>6, <1>7, SameEvent DEF GoesOn, ProxyRecords

-----------------------------------------------------------------------------
(* The line is appended, or lost; a crash; the directory goes.              *)
LEMMA TodoSplits ==
  ASSUME LogInv, proxy.todo # <<>>
  PROVE  /\ Head(proxy.todo) \in ToSet(proxy.todo) /\ Head(proxy.todo) \in Nat
         /\ Tail(proxy.todo) \in LogLines
         /\ ToSet(Tail(proxy.todo)) \subseteq ToSet(proxy.todo)
         /\ Sorted(Tail(proxy.todo))
         /\ Below({Head(proxy.todo)}, ToSet(Tail(proxy.todo)))
  <1> DEFINE todo == proxy.todo
  <1>1. todo \in Seq(Nat) /\ todo # <<>> /\ Sorted(todo)
    BY DEF LogInv, LogTypeOK, LogLines, Unbroken
  <1>2. Len(todo) \in Nat /\ DOMAIN todo = 1 .. Len(todo) /\ Len(todo) # 0
    BY <1>1, LenProperties, EmptySeq
  <1>3. /\ Head(todo) \in Nat /\ Head(todo) = todo[1]
        /\ Tail(todo) \in Seq(Nat) /\ Len(Tail(todo)) = Len(todo) - 1
        /\ \A i \in 1 .. Len(todo) - 1 : Tail(todo)[i] = todo[i + 1]
    <2>1. Head(todo) \in Nat /\ Tail(todo) \in Seq(Nat)
      BY <1>1, HeadTailProperties
    <2>2. Len(Tail(todo)) = Len(todo) - 1 /\ \A i \in 1 .. Len(Tail(todo)) : Tail(todo)[i] = todo[i + 1]
      BY <1>1, HeadTailProperties
    <2>3. Head(todo) = todo[1]
      BY <1>1
    <2> QED
      BY <2>1, <2>2, <2>3
  <1>4. DOMAIN Tail(todo) = 1 .. Len(todo) - 1
    BY <1>3, LenProperties
  <1> HIDE DEF todo
  <1>5. 1 \in DOMAIN todo /\ \A i \in 1 .. Len(todo) - 1 : i + 1 \in DOMAIN todo /\ 1 < i + 1
    BY <1>2
  <1>6. Head(todo) \in ToSet(todo)
    BY <1>3, <1>5 DEF ToSet
  <1>7. ToSet(Tail(todo)) \subseteq ToSet(todo)
    BY <1>3, <1>4, <1>5 DEF ToSet
  <1>8. Below({Head(todo)}, ToSet(Tail(todo)))
    BY <1>1, <1>3, <1>4, <1>5 DEF ToSet, Below, Sorted
  <1>9. Sorted(Tail(todo))
    BY <1>1, <1>2, <1>3, <1>4, <1>5 DEF Sorted
  <1> QED
    BY <1>3, <1>6, <1>7, <1>8, <1>9 DEF todo, LogLines

LEMMA EventAppendsInv == ASSUME SizeAssumption, LogInv, EventAppends PROVE LogInv'
  <1> DEFINE e == Head(proxy.todo)
  <1>1. /\ proxy.pc = "append" /\ written' = written \cup {e}
        /\ UNCHANGED <<archive, backup, stranded>>
        /\ proxy' = [proxy EXCEPT !.pc = "idle", !.todo = Tail(@), !.size = @ + LineBytes]
    BY DEF EventAppends
  <1>2. PICK ino : active' = [ino |-> ino, lines |-> Append(active.lines, e)]
    BY DEF EventAppends
  <1>3. /\ e \in ToSet(proxy.todo) /\ e \in Nat /\ Tail(proxy.todo) \in LogLines
        /\ ToSet(Tail(proxy.todo)) \subseteq ToSet(proxy.todo)
        /\ Sorted(Tail(proxy.todo)) /\ Below({e}, ToSet(Tail(proxy.todo)))
    BY <1>1, TodoSplits DEF LogInv, Unbroken
  <1> HIDE DEF e
  <1>4. /\ proxy' \in ProxyRecords /\ proxy'.pc = "idle" /\ proxy'.todo = Tail(proxy.todo)
        /\ proxy'.n = proxy.n /\ proxy'.size \in Int
    <2>1. proxy \in ProxyRecords /\ proxy.size + LineBytes \in Int
      BY DEF LogInv, LogTypeOK, ProxyRecords, SizeAssumption
    <2>2. proxy' = [proxy EXCEPT !.pc = "idle", !.todo = Tail(proxy.todo),
                                 !.size = proxy.size + LineBytes]
      BY <1>1
    <2>3. proxy' \in ProxyRecords
      BY <1>3, <2>1, <2>2 DEF ProxyRecords, ProxyPcs
    <2> QED
      BY <2>1, <2>2, <2>3 DEF ProxyRecords
  <1>5. /\ active.lines \in Seq(Nat) /\ active'.lines = Append(active.lines, e)
        /\ active'.lines \in Seq(Nat) /\ Len(active'.lines) = Len(active.lines) + 1
        /\ Len(active.lines) \in Nat
    BY <1>2, <1>3, AppendProperties, LenProperties DEF LogInv, LogTypeOK, LogLines
  <1>6. Lines(active') = Lines(active) \cup {e} /\ active'.lines # <<>> /\ There(active')
    <2>1. ToSet(active'.lines) = ToSet(active.lines) \cup {e}
      BY <1>3, <1>5, ToSetAppend
    <2>2. active'.lines # <<>>
      BY <1>5, EmptySeq
    <2> QED
      BY <2>1, <2>2, NoFileIsEmpty DEF Lines, There
  <1>7. AllLines' = AllLines \cup {e}
    BY <1>1, <1>6 DEF AllLines, Lines
  <1>8. Below(written, {e}) /\ e <= proxy.n
    BY <1>3 DEF LogInv, Unbroken, Below
  <1>9. AllLines \subseteq written /\ Below(AllLines, {e})
    BY <1>8 DEF LogInv, Unbroken, Below
  <1>10. LogTypeOK'
    BY <1>1, <1>3, <1>4, <1>5, <1>6 DEF LogInv, LogTypeOK, ProxyRecords, LogLines, There
  <1>11. Ascending'
    <2>1. Sorted(active'.lines)
      <3>1. /\ DOMAIN active'.lines = 1 .. Len(active.lines) + 1
            /\ DOMAIN active.lines = 1 .. Len(active.lines)
            /\ \A i \in 1 .. Len(active.lines) : active'.lines[i] = active.lines[i]
            /\ active'.lines[Len(active.lines) + 1] = e
        BY <1>3, <1>5, AppendProperties, LenProperties
      <3>2. \A i \in 1 .. Len(active.lines) : active.lines[i] < e
        BY <3>1, <1>9 DEF AllLines, Lines, ToSet, Below
      <3>3. Sorted(active.lines)
        BY DEF LogInv, Ascending
      <3> QED
        BY <1>5, <3>1, <3>2, <3>3 DEF Sorted
    <2>2. Below(Lines(backup), Lines(active')) /\ Below(Lines(archive), Lines(active'))
      BY <1>6, <1>9 DEF LogInv, Ascending, Below, AllLines
    <2> QED
      BY <1>1, <2>1, <2>2 DEF LogInv, Ascending, Lines, Sorted, Below
  <1>12. Unbroken'
    <2>1. AllLines' \subseteq written'
      BY <1>1, <1>7, <1>9
    <2>2. Below(written' \ AllLines', AllLines')
      BY <1>1, <1>7, <1>8 DEF LogInv, Unbroken, Below
    <2>3. Below(written', ToSet(proxy'.todo))
      BY <1>1, <1>3, <1>4 DEF LogInv, Unbroken, Below
    <2>4. \A f \in written' \cup ToSet(proxy'.todo) : f <= proxy'.n
      BY <1>1, <1>3, <1>4, <1>8 DEF LogInv, Unbroken
    <2> QED
      BY <1>3, <1>4, <2>1, <2>2, <2>3, <2>4 DEF Unbroken
  <1>13. Rolling'
    BY <1>1, <1>4, <1>6, <1>7 DEF LogInv, Rolling, There
  <1>14. ArchiveKept'
    BY <1>1, <1>6 DEF LogInv, ArchiveKept, There, Lines
  <1> QED
    BY <1>10, <1>11, <1>12, <1>13, <1>14 DEF LogInv

LEMMA EventIsLostInv == ASSUME LogInv, EventIsLost PROVE LogInv'
  <1>1. /\ proxy.pc = "append" /\ UNCHANGED <<active, archive, backup, written, stranded>>
        /\ proxy' = [proxy EXCEPT !.pc = "idle", !.todo = Tail(@), !.dirReady = FALSE, !.size = -1]
    BY DEF EventIsLost
  <1>2. /\ Tail(proxy.todo) \in LogLines /\ ToSet(Tail(proxy.todo)) \subseteq ToSet(proxy.todo)
        /\ Sorted(Tail(proxy.todo))
    BY <1>1, TodoSplits DEF LogInv, Unbroken
  <1>3. /\ proxy' \in ProxyRecords /\ proxy'.pc = "idle" /\ proxy'.todo = Tail(proxy.todo)
        /\ proxy'.n = proxy.n /\ proxy'.size = -1
    <2>1. proxy \in ProxyRecords
      BY DEF LogInv, LogTypeOK, ProxyRecords
    <2>2. proxy' = [proxy EXCEPT !.pc = "idle", !.todo = Tail(proxy.todo), !.dirReady = FALSE,
                                 !.size = -1]
      BY <1>1
    <2>3. proxy' \in ProxyRecords
      <3>1. "idle" \in ProxyPcs /\ -1 \in Int
        BY DEF ProxyPcs
      <3> QED
        BY <1>2, <2>1, <2>2, <3>1 DEF ProxyRecords
    <2> QED
      BY <2>1, <2>2, <2>3 DEF ProxyRecords
  <1>4. /\ Below(written, ToSet(proxy'.todo))
        /\ \A f \in written \cup ToSet(proxy'.todo) : f <= proxy'.n
    BY <1>2, <1>3 DEF LogInv, Unbroken, Below
  <1>5. AllLines' = AllLines
    BY <1>1 DEF AllLines, Lines
  <1>6. Rolling'
    BY <1>1, <1>3, <1>5 DEF LogInv, Rolling, There
  <1> QED
    BY <1>1, <1>2, <1>3, <1>4, <1>6, FilesKept DEF LogInv, LogTypeOK, ProxyRecords

LEMMA FreshProxyFacts ==
  ASSUME NEW n \in Nat
  PROVE  /\ FreshProxy(n) \in ProxyRecords /\ FreshProxy(n).pc = "idle"
         /\ FreshProxy(n).todo = <<>> /\ FreshProxy(n).n = n /\ FreshProxy(n).size = -1
  BY NoFileIsEmpty DEF FreshProxy, ProxyRecords, ProxyPcs

LEMMA ProxyCrashesInv == ASSUME LogInv, ProxyCrashes PROVE LogInv'
  <1>1. /\ UNCHANGED <<active, archive, backup, written>>
        /\ proxy' = FreshProxy(proxy.n) /\ stranded' = (stranded \/ There(backup))
    BY DEF ProxyCrashes
  <1>2. proxy.n \in Nat /\ stranded \in BOOLEAN
    BY DEF LogInv, LogTypeOK
  <1>3. /\ proxy' \in ProxyRecords /\ proxy'.pc = "idle" /\ proxy'.todo = <<>>
        /\ proxy'.n = proxy.n /\ proxy'.size = -1
    BY <1>1, <1>2, FreshProxyFacts
  <1>4. Sorted(proxy'.todo) /\ ToSet(proxy'.todo) = {}
    BY <1>3, NoFileIsEmpty DEF Sorted, NoFile, ToSet
  <1>5. /\ Below(written, ToSet(proxy'.todo))
        /\ \A f \in written \cup ToSet(proxy'.todo) : f <= proxy'.n
    BY <1>3, <1>4 DEF LogInv, Unbroken, Below
  <1>6. AllLines' = AllLines
    BY <1>1 DEF AllLines, Lines
  <1>7. Rolling'
    <2>1. ~stranded' => ~There(backup')
      BY <1>1, <1>2 DEF There
    <2>2. written' # {} => AllLines' # {}
      BY <1>1, <1>6 DEF LogInv, Rolling
    <2> QED
      BY <1>3, <2>1, <2>2 DEF Rolling
  <1> QED
    BY <1>1, <1>2, <1>3, <1>4, <1>5, <1>7, FilesKept DEF LogInv, LogTypeOK, ProxyRecords

LEMMA DirIsRemovedInv == ASSUME LogInv, DirIsRemoved PROVE LogInv'
  <1>1. /\ active' = NoFile /\ archive' = NoFile /\ backup' = NoFile
        /\ written' = {} /\ stranded' = FALSE /\ proxy' = proxy
    BY DEF DirIsRemoved
  <1>2. LogTypeOK'
    BY <1>1, NoFileIsEmpty DEF LogInv, LogTypeOK, There
  <1>3. Ascending'
    BY <1>1, NoFileIsEmpty DEF NoFile, Ascending, Sorted, Below, Lines
  <1>4. AllLines' = {}
    BY <1>1, NoFileIsEmpty DEF AllLines, Lines
  <1>5. Unbroken'
    BY <1>1, <1>4 DEF LogInv, Unbroken, Below
  <1>6. Rolling' /\ ArchiveKept'
    BY <1>1, NoFileIsEmpty DEF Rolling, ArchiveKept, There
  <1> QED
    BY <1>2, <1>3, <1>5, <1>6 DEF LogInv

LEMMA LogNextInv == SizeAssumption /\ LogInv /\ [ProxyLogNext]_logVars => LogInv'
  <1> SUFFICES ASSUME SizeAssumption, LogInv, [ProxyLogNext]_logVars PROVE LogInv'
    OBVIOUS
  <1>1. CASE UNCHANGED logVars
    BY <1>1 DEF logVars, LogInv, LogTypeOK, Ascending, Unbroken, Rolling, ArchiveKept, AllLines,
                Lines, There
  <1>2. CASE HandleProxyBody
    BY <1>2, BodyInv
  <1>3. CASE EventBegins
    BY <1>3, EventBeginsInv
  <1>4. CASE RollClears
    BY <1>4, RollClearsInv
  <1>5. CASE RollSetsAside
    BY <1>5, RollSetsAsideInv
  <1>6. CASE RollAsideFails \/ RollRenameFails
    BY <1>6, RollFailsInv
  <1>7. CASE RollRenames
    BY <1>7, RollRenamesInv
  <1>8. CASE RollRestores
    BY <1>8, RollRestoresInv
  <1>9. CASE RollEnds
    BY <1>9, RollEndsInv
  <1>10. CASE EventAppends
    BY <1>10, EventAppendsInv
  <1>11. CASE EventIsLost
    BY <1>11, EventIsLostInv
  <1>12. CASE ProxyCrashes
    BY <1>12, ProxyCrashesInv
  <1>13. CASE DirIsRemoved
    BY <1>13, DirIsRemovedInv
  <1> QED
    BY <1>1, <1>2, <1>3, <1>4, <1>5, <1>6, <1>7, <1>8, <1>9, <1>10, <1>11, <1>12, <1>13
       DEF ProxyLogNext

-----------------------------------------------------------------------------
(* The three files read one after the other are in order.                   *)
LEMMA SortedConcat ==
  ASSUME NEW s \in Seq(Nat), NEW t \in Seq(Nat), Sorted(s), Sorted(t), Below(ToSet(s), ToSet(t))
  PROVE  s \o t \in Seq(Nat) /\ Sorted(s \o t) /\ ToSet(s \o t) = ToSet(s) \cup ToSet(t)
  <1>1. /\ s \o t \in Seq(Nat) /\ Len(s \o t) = Len(s) + Len(t)
        /\ \A i \in 1 .. Len(s) + Len(t) :
             (s \o t)[i] = IF i <= Len(s) THEN s[i] ELSE t[i - Len(s)]
    BY ConcatProperties
  <1>2. /\ Len(s) \in Nat /\ Len(t) \in Nat /\ DOMAIN s = 1 .. Len(s) /\ DOMAIN t = 1 .. Len(t)
        /\ DOMAIN (s \o t) = 1 .. Len(s) + Len(t)
    BY <1>1, LenProperties
  <1>3. /\ \A i \in 1 .. Len(s) : i \in DOMAIN (s \o t) /\ (s \o t)[i] = s[i]
        /\ \A j \in 1 .. Len(t) : Len(s) + j \in DOMAIN (s \o t) /\ (s \o t)[Len(s) + j] = t[j]
    BY <1>1, <1>2
  <1>4. \A i \in DOMAIN (s \o t) :
          \/ i \in 1 .. Len(s) /\ (s \o t)[i] = s[i]
          \/ i - Len(s) \in 1 .. Len(t) /\ (s \o t)[i] = t[i - Len(s)]
    BY <1>1, <1>2
  <1>5. ToSet(s \o t) = ToSet(s) \cup ToSet(t)
    <2>1. ToSet(s \o t) \subseteq ToSet(s) \cup ToSet(t)
      BY <1>2, <1>4 DEF ToSet
    <2>2. ToSet(s) \subseteq ToSet(s \o t)
      BY <1>2, <1>3 DEF ToSet
    <2>3. ToSet(t) \subseteq ToSet(s \o t)
      BY <1>2, <1>3 DEF ToSet
    <2> QED
      BY <2>1, <2>2, <2>3
  <1>6. \A i \in 1 .. Len(s), j \in 1 .. Len(t) : s[i] < t[j]
    BY <1>2 DEF Below, ToSet
  <1>7. ASSUME NEW i \in DOMAIN (s \o t), NEW j \in DOMAIN (s \o t), i < j
        PROVE  (s \o t)[i] < (s \o t)[j]
    <2>1. CASE i <= Len(s) /\ j <= Len(s)
      <3>1. i \in DOMAIN s /\ j \in DOMAIN s /\ (s \o t)[i] = s[i] /\ (s \o t)[j] = s[j]
        BY <2>1, <1>2, <1>4, <1>1
      <3> QED
        BY <3>1, <1>7 DEF Sorted
    <2>2. CASE i <= Len(s) /\ j > Len(s)
      <3>1. /\ i \in 1 .. Len(s) /\ j - Len(s) \in 1 .. Len(t)
            /\ (s \o t)[i] = s[i] /\ (s \o t)[j] = t[j - Len(s)]
        BY <2>2, <1>2, <1>1
      <3> QED
        BY <3>1, <1>6
    <2>3. CASE i > Len(s)
      <3>1. /\ i - Len(s) \in DOMAIN t /\ j - Len(s) \in DOMAIN t /\ i - Len(s) < j - Len(s)
            /\ (s \o t)[i] = t[i - Len(s)] /\ (s \o t)[j] = t[j - Len(s)]
        BY <2>3, <1>2, <1>1, <1>7
      <3> QED
        BY <3>1 DEF Sorted
    <2> QED
      BY <2>1, <2>2, <2>3, <1>2
  <1> QED
    BY <1>1, <1>5, <1>7 DEF Sorted

LEMMA LogInvImplies == LogInv => EventsKept
  <1> SUFFICES ASSUME LogInv PROVE EventsKept
    OBVIOUS
  <1>1. /\ backup.lines \in Seq(Nat) /\ archive.lines \in Seq(Nat) /\ active.lines \in Seq(Nat)
        /\ Ascending
    BY DEF LogInv, LogTypeOK, LogLines
  <1> DEFINE older == backup.lines \o archive.lines
  <1>2. older \in Seq(Nat) /\ Sorted(older) /\ ToSet(older) = Lines(backup) \cup Lines(archive)
    BY <1>1, SortedConcat DEF Ascending, Lines
  <1> HIDE DEF older
  <1>3. Below(ToSet(older), ToSet(active.lines))
    BY <1>1, <1>2 DEF Ascending, Below, Lines
  <1>4. Sorted(older \o active.lines) /\ ToSet(older \o active.lines) = AllLines
    BY <1>1, <1>2, <1>3, SortedConcat DEF Ascending, Lines, AllLines
  <1>5. Held = older \o active.lines
    BY DEF Held, older
  <1>6. EventsInOrder
    BY <1>4, <1>5 DEF EventsInOrder, Sorted
  <1>7. NoneMissing
    BY <1>4, <1>5 DEF NoneMissing, LogInv, Unbroken, Below
  <1>8. LastIsHeld
    BY <1>4, <1>5 DEF LastIsHeld, LogInv, Rolling
  <1> QED
    BY <1>6, <1>7, <1>8 DEF LogInv, EventsKept

-----------------------------------------------------------------------------
(* Bytes and lines.                                                         *)
LEMMA LineOfByte ==
  ASSUME NEW d \in Nat \ {0}, NEW n \in Nat
  PROVE  /\ n \div d \in Nat /\ n % d \in Nat /\ n % d < d
         /\ n = d * (n \div d) + (n % d)
  OBVIOUS

LEMMA BytesOfLines ==
  ASSUME NEW d \in Nat \ {0}, NEW j \in Nat, NEW k \in Nat
  PROVE  /\ d * k \in Nat
         /\ j <= k => d * j <= d * k
         /\ j < k => d * j + d <= d * k
  OBVIOUS

LEMMA NotBeyond ==
  ASSUME NEW x \in Nat, NEW y \in Nat, NEW d \in Nat, NEW r \in Nat, r < d, x + r <= y
  PROVE  ~ y + d <= x
  OBVIOUS

LEMMA LinesUpTo ==
  ASSUME NEW d \in Nat \ {0}, NEW n \in Nat, NEW k \in Nat, n <= d * k
  PROVE  /\ n \div d <= k
         /\ n % d # 0 => n \div d < k
  <1> DEFINE q == n \div d
  <1>1. q \in Nat /\ n % d \in Nat /\ n % d < d /\ n = d * q + (n % d)
    BY LineOfByte
  <1>2. ~ k < q
    <2>1. k < q => d * k + d <= d * q
      BY <1>1, BytesOfLines
    <2>2. d * k \in Nat /\ d * q \in Nat
      BY <1>1, BytesOfLines
    <2>3. d * q + (n % d) <= d * k
      BY <1>1
    <2>4. ~ d * k + d <= d * q
      BY <1>1, <2>2, <2>3, NotBeyond
    <2> QED
      BY <2>1, <2>4
  <1>3. q = k => n % d = 0
    <2> SUFFICES ASSUME q = k PROVE n % d = 0
      OBVIOUS
    <2>1. d * k \in Nat /\ n = d * k + (n % d) /\ n <= d * k /\ n % d \in Nat
      BY <1>1, BytesOfLines
    <2>2. PICK x \in Nat : x = d * k
      BY <2>1
    <2>3. PICK r \in Nat : r = n % d
      BY <2>1
    <2>4. n = x + r /\ n <= x
      BY <2>1, <2>2, <2>3
    <2> QED
      BY <2>3, <2>4
  <1> HIDE DEF q
  <1>4. q <= k /\ (n % d # 0 => q < k)
    BY <1>1, <1>2, <1>3
  <1> QED
    BY <1>4 DEF q

LEMMA LinesAscend ==
  ASSUME NEW d \in Nat \ {0}, NEW m \in Nat, NEW n \in Nat, m <= n
  PROVE  m \div d <= n \div d
  <1> DEFINE p == m \div d
             q == n \div d
  <1>1. p \in Nat /\ m % d \in Nat /\ m = d * p + (m % d)
    BY LineOfByte
  <1>2. q \in Nat /\ n % d \in Nat /\ n % d < d /\ n = d * q + (n % d)
    BY LineOfByte
  <1>3. d * p \in Nat /\ d * q \in Nat /\ (q < p => d * q + d <= d * p)
    BY <1>1, <1>2, BytesOfLines
  <1>4. p <= q
    <2>1. d * p <= n
      <3>1. PICK x \in Nat : x = d * p
        BY <1>3
      <3>2. PICK r \in Nat : r = m % d
        BY <1>1
      <3>3. m = x + r
        BY <1>1, <3>1, <3>2
      <3> QED
        BY <3>1, <3>3
    <2>2. ~ n % d >= d /\ d * q + (n % d) = n
      BY <1>2
    <2>3. ~ d * q + d <= d * p
      <3>1. PICK x \in Nat : x = d * p
        BY <1>3
      <3>2. PICK y \in Nat : y = d * q
        BY <1>3
      <3>3. PICK r \in Nat : r = n % d
        BY <1>2
      <3>4. x <= n /\ r < d /\ n = y + r
        BY <1>2, <2>1, <3>1, <3>2, <3>3
      <3>5. ~ y + d <= x
        BY <3>4
      <3> QED
        BY <3>1, <3>2, <3>5
    <2> HIDE DEF p, q
    <2> QED
      BY <1>1, <1>2, <1>3, <2>3
  <1> QED
    BY <1>4 DEF p, q

LEMMA WholeLines ==
  ASSUME NEW d \in Nat \ {0}, NEW k \in Nat
  PROVE  (d * k) \div d = k /\ (d * k) % d = 0
  <1> DEFINE n == d * k
  <1>1. n \in Nat
    BY BytesOfLines
  <1>2. n \div d \in Nat /\ n % d \in Nat /\ n % d < d /\ n = d * (n \div d) + (n % d)
    BY <1>1, LineOfByte
  <1>3. n \div d <= k
    BY <1>1, LinesUpTo
  <1>4. n \div d < k => d * (n \div d) + d <= n
    BY <1>2, BytesOfLines
  <1>5. d * (n \div d) \in Nat
    BY <1>2, BytesOfLines
  <1> QED
    BY <1>1, <1>2, <1>3, <1>4, <1>5

-----------------------------------------------------------------------------
(* The reader that follows it.                                              *)
FollowPcs == {"idle", "start", "watch", "poll", "change"}
Stats == [ino : Inodes \cup {0}, size : Nat, first : Nat, last : Nat]
FollowRecords == [pc : FollowPcs, offset : Nat, partial : Nat, prev : Stats, curr : Stats]
FollowTypeOK ==
  /\ follow \in FollowRecords
  /\ shown \in Seq(Nat)
  /\ origin \in [first : Nat, from : Nat]
  /\ raced \in BOOLEAN
  /\ active.ino \in Inodes \cup {0}

(* A file is known by its first line: a file that is created later starts   *)
(* with a line that nobody has seen.                                        *)
Known(line) == line <= proxy.n /\ \A e \in ToSet(proxy.todo) : line < e
FirstLine(file) == StatOf(file).first
Is(first) == There(active) /\ FirstLine(active) = first
Seen ==
  /\ \A line \in ToSet(shown) \cup {origin.first, follow.prev.first, follow.curr.first} : Known(line)
  /\ \A e \in Lines(active) \cup ToSet(proxy.todo) : e > 0

(* What a stat says of the file stays true while the file is there.         *)
StatTrue(stat) == Is(stat.first) => active.ino = stat.ino /\ stat.size <= SizeOf(active)
StatsTrue ==
  /\ StatTrue(follow.prev) /\ StatTrue(follow.curr)
  /\ \A stat \in {follow.prev, follow.curr} :
       IF stat.first = 0 THEN stat = StatOf(NoFile) ELSE stat.size > 0

(* The file that is followed, up to the offset, has been shown, and what is *)
(* to be shown is newer than what was.                                      *)
Newer(lines) == \A line \in lines, s \in ToSet(shown) : s < line
AtOffset ==
  /\ follow.offset <= SizeOf(active)
  /\ \A i \in DOMAIN active.lines : i > follow.offset \div LineBytes => Newer({active.lines[i]})
  /\ EndsLine(follow.offset) \/ follow.partial = LineAt(follow.offset)
  /\ \A i \in origin.from \div LineBytes + 1 .. follow.offset \div LineBytes :
       active.lines[i] \in ToSet(shown)
FollowsFile ==
  ~raced =>
    /\ Sorted(shown) /\ Torn \notin ToSet(shown)
    /\ follow.pc \in {"watch", "poll", "change"} =>
         /\ Is(origin.first) => AtOffset
         /\ There(active) /\ ~Is(origin.first) => Newer(Lines(active))
         /\ origin.first = 0 => follow.offset = 0
    /\ follow.pc \in {"poll", "change"} =>
         follow.prev.first = origin.first /\ follow.offset <= follow.prev.size
    /\ follow.pc = "change" =>
         /\ follow.curr.first = follow.prev.first =>
              follow.curr.ino = follow.prev.ino /\ follow.prev.size <= follow.curr.size
         /\ follow.curr.first # follow.prev.first => ~Is(follow.prev.first)

FollowInv == FollowTypeOK /\ Seen /\ StatsTrue /\ FollowsFile

LEMMA NoFileStat ==
  ASSUME SizeAssumption
  PROVE  /\ StatOf(NoFile) = [ino |-> 0, size |-> 0, first |-> 0, last |-> 0]
         /\ StatOf(NoFile) \in Stats
  <1>1. SizeOf(NoFile) = LineBytes * 0 /\ LineBytes * 0 = 0
    BY NoFileIsEmpty DEF SizeAssumption, SizeOf
  <1>2. StatOf(NoFile) = [ino |-> 0, size |-> 0, first |-> 0, last |-> 0]
    BY <1>1, NoFileIsEmpty DEF StatOf, NoFile
  <1> QED
    BY <1>2 DEF Stats

LEMMA StatFacts ==
  ASSUME SizeAssumption, LogInv, FollowTypeOK
  PROVE  /\ StatOf(active) \in Stats
         /\ StatOf(active).ino = active.ino /\ StatOf(active).size = SizeOf(active)
         /\ Len(active.lines) \in Nat /\ DOMAIN active.lines = 1 .. Len(active.lines)
         /\ SizeOf(active) \in Nat /\ SizeOf(active) = LineBytes * Len(active.lines)
         /\ SizeOf(active) \div LineBytes = Len(active.lines) /\ EndsLine(SizeOf(active))
         /\ IF There(active)
            THEN FirstLine(active) \in Lines(active) /\ SizeOf(active) > 0
            ELSE FirstLine(active) = 0 /\ StatOf(active) = StatOf(NoFile)
  <1>1. active.lines \in Seq(Nat) /\ (There(active) => active.lines # <<>>)
    BY DEF LogInv, LogTypeOK, LogLines
  <1>2. Len(active.lines) \in Nat /\ DOMAIN active.lines = 1 .. Len(active.lines)
    BY <1>1, LenProperties
  <1>3. LineBytes \in Nat \ {0}
    BY DEF SizeAssumption
  <1>4. SizeOf(active) = LineBytes * Len(active.lines)
    BY DEF SizeOf
  <1>5. /\ SizeOf(active) \in Nat
        /\ SizeOf(active) \div LineBytes = Len(active.lines) /\ SizeOf(active) % LineBytes = 0
    BY <1>2, <1>3, <1>4, BytesOfLines, WholeLines
  <1>6. /\ StatOf(active).ino = active.ino /\ StatOf(active).size = SizeOf(active)
        /\ StatOf(active) = [ino |-> active.ino, size |-> SizeOf(active),
                             first |-> FirstLine(active), last |-> StatOf(active).last]
    BY DEF StatOf, FirstLine
  <1>7. CASE There(active)
    <2>1. Len(active.lines) # 0
      BY <1>1, <1>7, EmptySeq
    <2>2. 1 \in DOMAIN active.lines /\ Len(active.lines) \in DOMAIN active.lines
      BY <1>2, <2>1
    <2>3. FirstLine(active) = active.lines[1] /\ StatOf(active).last = active.lines[Len(active.lines)]
      BY <1>1, <1>7, <2>1 DEF FirstLine, StatOf, Last
    <2>4. FirstLine(active) \in Lines(active) /\ FirstLine(active) \in Nat /\ StatOf(active).last \in Nat
      BY <1>1, <2>2, <2>3, ElementOfSeq DEF Lines, ToSet
    <2>5. SizeOf(active) > 0
      <3>1. LineBytes * 0 + LineBytes <= SizeOf(active)
        BY <1>2, <1>3, <1>4, <2>1, BytesOfLines
      <3> QED
        BY <1>3, <1>5, <3>1
    <2>6. StatOf(active) \in Stats
      BY <1>5, <1>6, <2>4 DEF Stats, FollowTypeOK
    <2> QED
      BY <1>2, <1>4, <1>5, <1>6, <1>7, <2>4, <2>5, <2>6 DEF EndsLine
  <1>8. CASE ~There(active)
    <2>1. active = NoFile
      BY <1>8 DEF There
    <2>2. StatOf(active) = StatOf(NoFile) /\ StatOf(NoFile).first = 0
      BY <2>1, NoFileStat
    <2>3. StatOf(active) \in Stats /\ FirstLine(active) = 0
      BY <2>2, NoFileStat DEF FirstLine
    <2> QED
      BY <1>2, <1>4, <1>5, <1>6, <1>8, <2>2, <2>3 DEF EndsLine
  <1> QED
    BY <1>7, <1>8

LEMMA FollowInitInv == SizeAssumption /\ ProxyLogInit /\ FollowInit => FollowInv
  <1> SUFFICES ASSUME SizeAssumption, ProxyLogInit, FollowInit PROVE FollowInv
    OBVIOUS
  <1>1. /\ follow = [pc |-> "idle", offset |-> 0, partial |-> 0, prev |-> StatOf(NoFile), curr |-> StatOf(NoFile)]
        /\ shown = <<>> /\ origin = [first |-> 0, from |-> 0] /\ raced = FALSE /\ active = NoFile
        /\ proxy.n = 0 /\ proxy.todo = <<>>
    BY DEF FollowInit, ProxyLogInit, FreshProxy, NoPartial
  <1>2. StatOf(NoFile) \in Stats /\ StatOf(NoFile).first = 0
    BY NoFileStat
  <1>3. follow \in FollowRecords
    BY <1>1, <1>2 DEF FollowRecords, FollowPcs
  <1>4. FollowTypeOK
    BY <1>1, <1>3, NoFileIsEmpty DEF FollowTypeOK, NoFile, LogLines
  <1>5. ToSet(shown) = {} /\ ToSet(proxy.todo) = {} /\ Lines(active) = {} /\ ~There(active)
    BY <1>1, NoFileIsEmpty DEF ToSet, Lines, NoFile, There
  <1>6. Seen
    BY <1>1, <1>2, <1>5 DEF Seen, Known
  <1>7. StatsTrue
    BY <1>1, <1>2, <1>5 DEF StatsTrue, StatTrue, Is
  <1>8. FollowsFile
    BY <1>1, <1>5 DEF FollowsFile, Sorted
  <1> QED
    BY <1>4, <1>6, <1>7, <1>8 DEF FollowInv

-----------------------------------------------------------------------------
(* What a step of the proxy is to a reader.                                 *)
LogMoves ==
  /\ proxy.n \in Nat /\ proxy'.n \in Nat /\ proxy.n <= proxy'.n
  /\ \A e \in ToSet(proxy'.todo) : e \in ToSet(proxy.todo) \/ (e \in Nat /\ e > proxy.n)
  /\ \/ active' = active
     \/ active' = NoFile
     \/ \E e \in ToSet(proxy.todo), ino \in Inodes \cup {0} :
          /\ active' = [ino |-> ino, lines |-> Append(active.lines, e)]
          /\ There(active) => ino = active.ino
          /\ \A f \in ToSet(proxy'.todo) : e < f

LEMMA ProxyMoves ==
  ASSUME LogInv, FollowTypeOK, [ProxyLogNext]_logVars
  PROVE  LogMoves
  <1> DEFINE Todo == /\ proxy.n \in Nat /\ proxy'.n \in Nat /\ proxy.n <= proxy'.n
                     /\ \A e \in ToSet(proxy'.todo) :
                          e \in ToSet(proxy.todo) \/ (e \in Nat /\ e > proxy.n)
  <1>1. proxy \in ProxyRecords
    BY DEF LogInv, LogTypeOK, ProxyRecords
  <1>2. proxy.n \in Nat
    BY <1>1 DEF ProxyRecords
  <1>3. CASE UNCHANGED logVars
    BY <1>2, <1>3 DEF logVars, LogMoves
  <1>4. CASE HandleProxyBody
    <2>1. PICK body \in Bodies :
            proxy' = [proxy EXCEPT !.todo = EventsOf(body), !.n = @ + Len(EventsOf(body))]
      BY <1>4 DEF HandleProxyBody
    <2>2. PICK count \in Nat : EventsOf(body) = [i \in 1 .. count |-> proxy.n + i]
      BY BodyIsCounted DEF LogInv
    <2>3. \A i \in 1 .. count : proxy.n + i \in Nat /\ proxy.n + i > proxy.n
      BY <1>2
    <2>4. Len(EventsOf(body)) = count
      BY <2>2
    <2>5. proxy'.todo = EventsOf(body) /\ proxy'.n = proxy.n + count
      BY <1>1, <2>1, <2>4 DEF ProxyRecords
    <2>6. \A e \in ToSet(proxy'.todo) : e \in Nat /\ e > proxy.n
      BY <2>2, <2>3, <2>5 DEF ToSet
    <2>7. active' = active
      BY <1>4 DEF HandleProxyBody
    <2> QED
      BY <1>2, <2>5, <2>6, <2>7 DEF LogMoves
  <1>5. CASE EventBegins \/ RollClears \/ RollSetsAside \/ RollAsideFails \/ RollRenameFails
               \/ RollRestores \/ RollEnds
    <2>1. active' = active
      BY <1>5 DEF EventBegins, RollClears, RollSetsAside, RollAsideFails, RollRenameFails,
                  RollRestores, RollEnds
    <2>2. proxy'.n = proxy.n /\ proxy'.todo = proxy.todo
      <3>1. CASE EventBegins
        BY <1>1, <3>1 DEF EventBegins, ProxyRecords
      <3>2. CASE RollClears \/ RollRestores
        BY <1>1, <3>2 DEF RollClears, RollRestores, ProxyAt, ProxyRecords
      <3>3. CASE RollSetsAside \/ RollEnds
        BY <1>1, <3>3 DEF RollSetsAside, RollEnds, ProxyRecords
      <3>4. CASE RollAsideFails
        BY <1>1, <3>4 DEF RollAsideFails, ProxyRecords
      <3>5. CASE RollRenameFails
        BY <1>1, <3>5 DEF RollRenameFails, ProxyRecords
      <3> QED
        BY <1>5, <3>1, <3>2, <3>3, <3>4, <3>5
    <2> QED
      BY <1>2, <2>1, <2>2 DEF LogMoves
  <1>6. CASE RollRenames
    <2>1. active' = NoFile /\ proxy'.n = proxy.n /\ proxy'.todo = proxy.todo
      BY <1>1, <1>6 DEF RollRenames, ProxyAt, ProxyRecords
    <2> QED
      BY <1>2, <2>1 DEF LogMoves
  <1>7. CASE EventAppends
    <2> DEFINE line == Head(proxy.todo)
    <2>1. /\ line \in ToSet(proxy.todo) /\ ToSet(Tail(proxy.todo)) \subseteq ToSet(proxy.todo)
          /\ Below({line}, ToSet(Tail(proxy.todo)))
      BY <1>7, TodoSplits DEF EventAppends, LogInv, Unbroken
    <2>2. proxy'.n = proxy.n /\ proxy'.todo = Tail(proxy.todo)
      BY <1>1, <1>7 DEF EventAppends, ProxyRecords
    <2>3. PICK ino \in IF There(active) THEN {active.ino} ELSE FreeInodes :
            active' = [ino |-> ino, lines |-> Append(active.lines, line)]
      BY <1>7 DEF EventAppends
    <2>4. ino \in Inodes \cup {0} /\ (There(active) => ino = active.ino)
      BY <2>3 DEF FreeInodes, FollowTypeOK
    <2>5. \A f \in ToSet(proxy'.todo) : line < f
      BY <2>1, <2>2 DEF Below
    <2> HIDE DEF line
    <2>6. \E e \in ToSet(proxy.todo), i \in Inodes \cup {0} :
            /\ active' = [ino |-> i, lines |-> Append(active.lines, e)]
            /\ There(active) => i = active.ino
            /\ \A f \in ToSet(proxy'.todo) : e < f
      BY <2>1, <2>3, <2>4, <2>5
    <2> QED
      <3>1. \A e \in ToSet(proxy'.todo) : e \in ToSet(proxy.todo)
        BY <2>1, <2>2
      <3>2. proxy'.n \in Nat /\ proxy.n <= proxy'.n
        BY <1>2, <2>2
      <3> QED
        BY <1>2, <2>6, <3>1, <3>2, Zenon DEF LogMoves
  <1>8. CASE EventIsLost
    <2>1. proxy'.n = proxy.n /\ proxy'.todo = Tail(proxy.todo) /\ active' = active
      BY <1>1, <1>8 DEF EventIsLost, ProxyRecords
    <2>2. ToSet(Tail(proxy.todo)) \subseteq ToSet(proxy.todo)
      BY <1>8, TodoSplits DEF EventIsLost, LogInv, Unbroken
    <2> QED
      BY <1>2, <2>1, <2>2 DEF LogMoves
  <1>9. CASE ProxyCrashes
    <2>1. proxy'.n = proxy.n /\ proxy'.todo = <<>> /\ active' = active
      BY <1>9 DEF ProxyCrashes, FreshProxy
    <2>2. ToSet(proxy'.todo) = {}
      BY <2>1, NoFileIsEmpty DEF NoFile, ToSet
    <2> QED
      BY <1>2, <2>1, <2>2 DEF LogMoves
  <1>10. CASE DirIsRemoved
    BY <1>2, <1>10 DEF DirIsRemoved, LogMoves
  <1> QED
    BY <1>3, <1>4, <1>5, <1>6, <1>7, <1>8, <1>9, <1>10 DEF ProxyLogNext

LEMMA KnownStays ==
  ASSUME LogMoves, NEW line \in Nat, Known(line)
  PROVE  Known(line)'
  BY DEF LogMoves, Known

LEMMA LineIsKnown ==
  ASSUME LogInv, NEW line \in Lines(active) \cup {0}, \A e \in ToSet(proxy.todo) : e > 0
  PROVE  line \in Nat /\ Known(line)
  <1>1. proxy.n \in Nat
    BY DEF LogInv, LogTypeOK
  <1>2. CASE line = 0
    BY <1>1, <1>2 DEF Known
  <1>3. CASE line \in Lines(active)
    <2>1. line \in written /\ written \subseteq Nat
      BY <1>3 DEF LogInv, LogTypeOK, Unbroken, AllLines
    <2> QED
      BY <2>1 DEF LogInv, Unbroken, Known, Below
  <1> QED
    BY <1>2, <1>3

LEMMA SeenStays ==
  ASSUME FollowInv, LogMoves, UNCHANGED followVars
  PROVE  /\ \A line \in ToSet(shown) \cup {origin.first, follow.prev.first, follow.curr.first} :
              Known(line)'
         /\ \A e \in ToSet(proxy'.todo) : e > 0
  <1>1. /\ follow \in FollowRecords /\ shown \in Seq(Nat) /\ origin.first \in Nat
    BY DEF FollowInv, FollowTypeOK
  <1>2. follow.prev.first \in Nat /\ follow.curr.first \in Nat
    BY <1>1 DEF FollowRecords, Stats
  <1>3. \A line \in ToSet(shown) : line \in Nat
    BY <1>1, ElementOfSeq, LenProperties DEF ToSet
  <1>4. \A line \in ToSet(shown) \cup {origin.first, follow.prev.first, follow.curr.first} :
          Known(line)'
    BY <1>1, <1>2, <1>3, KnownStays DEF FollowInv, Seen
  <1>5. \A e \in ToSet(proxy'.todo) : e > 0
    BY DEF LogMoves, FollowInv, Seen
  <1> QED
    BY <1>4, <1>5

LEMMA FollowSame ==
  ASSUME FollowInv, LogMoves, UNCHANGED followVars, active' = active
  PROVE  FollowInv'
  <1>1. FollowTypeOK'
    BY DEF FollowInv, FollowTypeOK, followVars
  <1>2. Seen'
    BY SeenStays DEF FollowInv, Seen, followVars, Lines
  <1>3. StatsTrue'
    BY DEF FollowInv, StatsTrue, StatTrue, Is, FirstLine, StatOf, There, SizeOf, followVars
  <1>4. FollowsFile'
    BY DEF FollowInv, FollowsFile, AtOffset, Newer, Is, FirstLine, StatOf, There, SizeOf, LineAt, Lines,
           followVars
  <1> QED
    BY <1>1, <1>2, <1>3, <1>4 DEF FollowInv

LEMMA FollowGone ==
  ASSUME FollowInv, LogMoves, UNCHANGED followVars, active' = NoFile
  PROVE  FollowInv'
  <1>1. FollowTypeOK'
    BY DEF FollowInv, FollowTypeOK, followVars, NoFile
  <1>2. Seen'
    BY SeenStays, NoFileIsEmpty DEF FollowInv, Seen, followVars, Lines
  <1>3. ~There(active')
    BY NoFileIsEmpty
  <1>4. StatsTrue'
    BY <1>3 DEF FollowInv, StatsTrue, StatTrue, Is, followVars, There
  <1>5. FollowsFile'
    BY <1>3 DEF FollowInv, FollowsFile, Is, followVars, There
  <1> QED
    BY <1>1, <1>2, <1>4, <1>5 DEF FollowInv

LEMMA FollowGrows ==
  ASSUME SizeAssumption, LogInv, LogTypeOK', FollowInv, LogMoves, UNCHANGED followVars,
         NEW e \in ToSet(proxy.todo), NEW ino \in Inodes \cup {0},
         active' = [ino |-> ino, lines |-> Append(active.lines, e)],
         There(active) => ino = active.ino,
         \A f \in ToSet(proxy'.todo) : e < f
  PROVE  FollowInv'
  <1>1. /\ active.lines \in Seq(Nat) /\ e \in Nat /\ e > 0
    <2>1. proxy.todo \in Seq(Nat) /\ active.lines \in Seq(Nat)
      BY DEF LogInv, LogTypeOK, LogLines
    <2> QED
      BY <2>1, ElementOfSeq, LenProperties DEF ToSet, FollowInv, Seen
  <1>2. LineBytes \in Nat \ {0} /\ Len(active.lines) \in Nat
    BY <1>1, LenProperties DEF SizeAssumption
  <1>3. /\ active'.ino = ino /\ active'.lines = Append(active.lines, e)
        /\ Len(active'.lines) = Len(active.lines) + 1
        /\ DOMAIN active'.lines = 1 .. Len(active.lines) + 1
        /\ DOMAIN active.lines = 1 .. Len(active.lines)
        /\ \A i \in 1 .. Len(active.lines) : active'.lines[i] = active.lines[i]
        /\ active'.lines[Len(active.lines) + 1] = e
    BY <1>1, AppendProperties, LenProperties
  <1>4. Lines(active') = Lines(active) \cup {e}
    BY <1>1, <1>3, ToSetAppend DEF Lines
  <1>5. There(active') /\ SizeOf(active) <= SizeOf(active)'
    <2>1. active'.lines # <<>>
      BY <1>1, <1>3, LenProperties, EmptySeq
    <2>2. LineBytes * Len(active.lines) <= LineBytes * (Len(active.lines) + 1)
      BY <1>2, BytesOfLines
    <2> QED
      BY <1>3, <2>1, <2>2, NoFileIsEmpty DEF There, SizeOf
  <1>6. FollowTypeOK'
    BY <1>3 DEF FollowInv, FollowTypeOK, followVars
  <1>7. Seen'
    BY <1>1, <1>4, SeenStays DEF FollowInv, Seen, followVars
  <1>8. SizeOf(active)' \in Nat /\ SizeOf(active) \in Nat
    BY <1>2, <1>3, BytesOfLines DEF SizeOf
  <1>9. /\ follow' = follow /\ shown' = shown /\ origin' = origin /\ raced' = raced
        /\ follow \in FollowRecords /\ follow.prev \in Stats /\ follow.curr \in Stats
        /\ origin.first \in Nat /\ origin.from \in Nat /\ follow.offset \in Nat
    BY DEF followVars, FollowInv, FollowTypeOK, FollowRecords
  <1>10. \A s \in ToSet(shown) \cup {origin.first, follow.prev.first, follow.curr.first} : s < e
    BY DEF FollowInv, Seen, Known
  <1>11. CASE There(active)
    <2>1. FirstLine(active') = FirstLine(active) /\ active'.ino = active.ino
      <3>1. Len(active.lines) # 0
        BY <1>1, <1>11, EmptySeq DEF LogInv, LogTypeOK
      <3>2. active'.lines[1] = active.lines[1]
        BY <1>2, <1>3, <3>1
      <3>3. FirstLine(active) = active.lines[1] /\ FirstLine(active') = active'.lines[1]
        BY <1>1, <1>3, <1>5, <1>11, <3>1 DEF FirstLine, StatOf
      <3> QED
        BY <1>3, <1>11, <3>2, <3>3
    <2>2. \A first : Is(first)' <=> Is(first)
      BY <1>5, <1>11, <2>1 DEF Is
    <2>3. StatsTrue'
      <3>1. \A stat \in Stats : StatTrue(stat) => StatTrue(stat)'
        BY <1>5, <1>8, <2>1, <2>2 DEF StatTrue, Stats
      <3> QED
        BY <1>9, <3>1 DEF FollowInv, StatsTrue
    <2>4. AtOffset /\ ~raced => AtOffset'
      <3> SUFFICES ASSUME AtOffset PROVE AtOffset'
        OBVIOUS
      <3>1. follow.offset <= SizeOf(active)'
        BY <1>5, <1>8, <1>9 DEF AtOffset
      <3>2. /\ follow.offset \div LineBytes \in Nat /\ follow.offset \div LineBytes <= Len(active.lines)
            /\ ~EndsLine(follow.offset) => follow.offset \div LineBytes < Len(active.lines)
        BY <1>2, <1>9, LineOfByte, LinesUpTo DEF AtOffset, SizeOf, EndsLine
      <3>3. ASSUME NEW i \in DOMAIN active'.lines, i > follow.offset \div LineBytes,
                   NEW s \in ToSet(shown)
            PROVE  s < active'.lines[i]
        <4>1. CASE i = Len(active.lines) + 1
          BY <1>3, <1>10, <4>1
        <4>2. CASE i # Len(active.lines) + 1
          <5>1. i \in DOMAIN active.lines /\ active'.lines[i] = active.lines[i]
            BY <1>2, <1>3, <4>2
          <5> QED
            BY <3>3, <5>1 DEF AtOffset, Newer
        <4> QED
          BY <4>1, <4>2
      <3>4. EndsLine(follow.offset) \/ follow.partial = LineAt(follow.offset)'
        <4>1. CASE EndsLine(follow.offset)
          BY <4>1
        <4>2. CASE ~EndsLine(follow.offset)
          <5>1. follow.offset \div LineBytes + 1 \in 1 .. Len(active.lines)
            BY <1>2, <3>2, <4>2
          <5>2. active'.lines[follow.offset \div LineBytes + 1] = LineAt(follow.offset)
            BY <1>3, <5>1 DEF LineAt
          <5>3. LineAt(follow.offset)' = LineAt(follow.offset)
            BY <1>9, <5>2 DEF LineAt
          <5> QED
            BY <4>2, <5>3 DEF AtOffset
        <4> QED
          BY <4>1, <4>2
      <3>5. ASSUME NEW i \in origin.from \div LineBytes + 1 .. follow.offset \div LineBytes
            PROVE  active'.lines[i] \in ToSet(shown)
        <4>1. origin.from \div LineBytes \in Nat
          BY <1>2, <1>9, LineOfByte
        <4>2. i \in 1 .. Len(active.lines)
          BY <1>2, <3>2, <4>1
        <4> QED
          BY <1>3, <4>2 DEF AtOffset
      <3>6. \A i \in DOMAIN active'.lines :
              i > follow.offset \div LineBytes => Newer({active.lines[i]})'
        BY <1>9, <3>3 DEF Newer
      <3>7. LineAt(follow.offset)' = active'.lines[follow.offset \div LineBytes + 1]
        BY <1>9 DEF LineAt
      <3> QED
        BY <1>9, <3>1, <3>4, <3>5, <3>6, <3>7 DEF AtOffset, EndsLine, LineAt
    <2>5. \A line \in {e}, s \in ToSet(shown) : s < line
      BY <1>10
    <2>6. FollowsFile'
      BY <1>4, <1>9, <1>11, <2>2, <2>4, <2>5 DEF FollowInv, FollowsFile, Newer
    <2> QED
      BY <1>6, <1>7, <2>3, <2>6 DEF FollowInv
  <1>12. CASE ~There(active)
    <2>1. active.lines = <<>>
      BY <1>12 DEF There, NoFile
    <2>2. Len(active.lines) = 0 /\ Lines(active) = {}
      BY <1>12, <2>1, NoFileIsEmpty DEF Lines, NoFile
    <2>3. FirstLine(active') = e
      BY <1>3, <1>5, <2>2 DEF FirstLine, StatOf
    <2>4. ~Is(origin.first)' /\ ~Is(follow.prev.first)' /\ ~Is(follow.curr.first)'
      <3>1. origin.first # e /\ follow.prev.first # e /\ follow.curr.first # e
        <4>1. follow.prev.first \in Nat /\ follow.curr.first \in Nat
          BY <1>9 DEF Stats
        <4> QED
          BY <1>1, <1>9, <1>10, <4>1
      <3>2. FirstLine(active)' = e
        BY <2>3 DEF FirstLine, StatOf, There, SizeOf
      <3> QED
        BY <1>9, <3>1, <3>2 DEF Is
    <2>5. StatsTrue'
      BY <1>9, <2>4 DEF FollowInv, StatsTrue, StatTrue, Is
    <2>6. Newer(Lines(active))'
      BY <1>4, <1>9, <1>10, <2>2 DEF Newer
    <2>7. FollowsFile'
      BY <1>9, <2>4, <2>6 DEF FollowInv, FollowsFile, Is
    <2> QED
      BY <1>6, <1>7, <2>5, <2>7 DEF FollowInv
  <1> QED
    BY <1>11, <1>12

(* A step of the proxy leaves what the reader knows true.                   *)
LEMMA FollowBeside ==
  ASSUME SizeAssumption, LogInv, LogInv', FollowInv, [ProxyLogNext]_logVars, UNCHANGED followVars
  PROVE  FollowInv'
  <1>1. LogMoves
    BY ProxyMoves DEF FollowInv
  <1>2. CASE active' = active
    BY <1>1, <1>2, FollowSame
  <1>3. CASE active' = NoFile
    BY <1>1, <1>3, FollowGone
  <1>4. CASE \E e \in ToSet(proxy.todo), ino \in Inodes \cup {0} :
               /\ active' = [ino |-> ino, lines |-> Append(active.lines, e)]
               /\ There(active) => ino = active.ino
               /\ \A f \in ToSet(proxy'.todo) : e < f
    BY <1>1, <1>4, FollowGrows DEF LogInv
  <1> QED
    BY <1>1, <1>2, <1>3, <1>4 DEF LogMoves

-----------------------------------------------------------------------------
(* The steps of the reader.                                                 *)
LEMMA ReaderBegins ==
  ASSUME SizeAssumption, TailAssumption, LogInv, FollowInv, ReadLogTail, UNCHANGED logVars
  PROVE  FollowInv'
  <1> DEFINE n == Len(active.lines)
             a == IF n > Tail_ THEN n - Tail_ + 1 ELSE 1
  <1>1. /\ shown' = SubSeq(active.lines, a, n)
        /\ follow' = [follow EXCEPT !.pc = "start"] /\ origin' = origin /\ raced' = raced
        /\ active' = active /\ proxy' = proxy
    BY DEF ReadLogTail, FollowAt, logVars
  <1>2. active.lines \in Seq(Nat) /\ n \in Nat /\ DOMAIN active.lines = 1 .. n
    BY LenProperties DEF LogInv, LogTypeOK, LogLines
  <1>3. a \in Nat /\ 1 <= a /\ a <= n + 1
    BY <1>2 DEF TailAssumption
  <1> HIDE DEF n, a
  <1>4. /\ shown' \in Seq(Nat) /\ DOMAIN shown' = 1 .. n - a + 1
        /\ \A i \in 1 .. n - a + 1 : shown'[i] = active.lines[a + i - 1]
    <2>1. a \in 1 .. n + 1 /\ n \in a - 1 .. n
      BY <1>2, <1>3
    <2>2. /\ SubSeq(active.lines, a, n) \in Seq(Nat)
          /\ Len(SubSeq(active.lines, a, n)) = n - a + 1
          /\ \A i \in 1 .. n - a + 1 : SubSeq(active.lines, a, n)[i] = active.lines[a + i - 1]
      BY <1>2, <1>3, <2>1, SubSeqProperties DEF n
    <2>3. DOMAIN SubSeq(active.lines, a, n) = 1 .. n - a + 1
      BY <2>2, LenProperties
    <2> QED
      BY <1>1, <2>2, <2>3
  <1>5. \A i \in 1 .. n - a + 1 : a + i - 1 \in DOMAIN active.lines
    BY <1>2, <1>3
  <1>6. ToSet(shown') \subseteq Lines(active)
    BY <1>4, <1>5 DEF ToSet, Lines
  <1>7. Sorted(shown')
    <2>1. Sorted(active.lines)
      BY DEF LogInv, Ascending
    <2>2. ASSUME NEW i \in 1 .. n - a + 1, NEW j \in 1 .. n - a + 1, i < j
          PROVE  shown'[i] < shown'[j]
      <3>1. a + i - 1 \in DOMAIN active.lines /\ a + j - 1 \in DOMAIN active.lines
        BY <1>5
      <3>2. a + i - 1 < a + j - 1
        BY <1>2, <1>3, <2>2
      <3> QED
        BY <1>4, <2>1, <3>1, <3>2 DEF Sorted
    <2> QED
      BY <1>4, <2>2 DEF Sorted
  <1>8. follow \in FollowRecords
    BY DEF FollowInv, FollowTypeOK
  <1>9. /\ follow' \in FollowRecords /\ follow'.pc = "start"
        /\ follow'.prev = follow.prev /\ follow'.curr = follow.curr
    BY <1>1, <1>8 DEF FollowRecords, FollowPcs
  <1>10. FollowTypeOK'
    BY <1>1, <1>4, <1>9 DEF FollowInv, FollowTypeOK
  <1>11. Seen'
    <2>1. \A line \in Lines(active) : Known(line)
      BY LineIsKnown DEF FollowInv, Seen
    <2> QED
      BY <1>1, <1>6, <1>9, <2>1 DEF FollowInv, Seen, Known, Lines
  <1>12. StatsTrue'
    BY <1>1, <1>9 DEF FollowInv, StatsTrue, StatTrue, Is, FirstLine, StatOf, There, SizeOf
  <1>13. FollowsFile'
    BY <1>1, <1>6, <1>7, <1>9 DEF FollowInv, Seen, FollowsFile, Torn
  <1> QED
    BY <1>10, <1>11, <1>12, <1>13 DEF FollowInv

LEMMA ReaderFollows ==
  ASSUME SizeAssumption, LogInv, FollowInv, FollowLogFile, UNCHANGED logVars
  PROVE  FollowInv'
  <1>1. /\ follow' = [follow EXCEPT !.pc = "watch", !.offset = SizeOf(active)]
        /\ origin' = [first |-> FirstLine(active), from |-> SizeOf(active)]
        /\ shown' = shown /\ raced' = raced /\ active' = active /\ proxy' = proxy
    BY DEF FollowLogFile, logVars, FirstLine
  <1>2. /\ SizeOf(active) \in Nat /\ StatOf(active) \in Stats /\ EndsLine(SizeOf(active))
        /\ SizeOf(active) \div LineBytes = Len(active.lines)
        /\ DOMAIN active.lines = 1 .. Len(active.lines) /\ Len(active.lines) \in Nat
        /\ IF There(active) THEN FirstLine(active) \in Lines(active)
           ELSE FirstLine(active) = 0 /\ StatOf(active) = StatOf(NoFile)
        /\ StatOf(active).size = SizeOf(active)
    BY StatFacts DEF FollowInv
  <1>3. follow \in FollowRecords /\ FirstLine(active) \in Nat
    BY <1>2 DEF FollowInv, FollowTypeOK, FirstLine, Stats
  <1>4. /\ follow' \in FollowRecords /\ follow'.pc = "watch" /\ follow'.offset = SizeOf(active)
        /\ follow'.prev = follow.prev /\ follow'.curr = follow.curr
    BY <1>1, <1>2, <1>3 DEF FollowRecords, FollowPcs
  <1>5. origin'.first = FirstLine(active) /\ origin'.from = SizeOf(active)
    BY <1>1
  <1>6. FollowTypeOK'
    BY <1>1, <1>2, <1>3, <1>4 DEF FollowInv, FollowTypeOK
  <1>7. Seen'
    <2>1. Known(FirstLine(active))
      BY <1>2, LineIsKnown DEF FollowInv, Seen
    <2> QED
      BY <1>1, <1>4, <1>5, <2>1 DEF FollowInv, Seen, Known, Lines
  <1>8. StatsTrue'
    BY <1>1, <1>4 DEF FollowInv, StatsTrue, StatTrue, Is, FirstLine, StatOf, There, SizeOf
  <1>9. AtOffset'
    <2>1. SizeOf(active)' = SizeOf(active) /\ SizeOf(active) <= SizeOf(active)
      BY <1>1, <1>2 DEF SizeOf
    <2>2. \A i \in DOMAIN active.lines : ~ i > SizeOf(active) \div LineBytes
      BY <1>2
    <2>3. \A i \in SizeOf(active) \div LineBytes + 1 .. SizeOf(active) \div LineBytes : FALSE
      BY <1>2
    <2> QED
      BY <1>1, <1>2, <1>4, <1>5, <2>1, <2>2, <2>3 DEF AtOffset, EndsLine
  <1>10. There(active)' => Is(origin.first)'
    BY <1>1, <1>5 DEF Is, FirstLine, StatOf, There, SizeOf
  <1>11. origin'.first = 0 => follow'.offset = 0
    <2>1. There(active) => FirstLine(active) # 0
      BY <1>2 DEF FollowInv, Seen
    <2>2. ~There(active) => SizeOf(active) = 0
      BY <1>2, NoFileStat
    <2> QED
      BY <1>4, <1>5, <2>1, <2>2
  <1>12. FollowsFile'
    BY <1>1, <1>4, <1>9, <1>10, <1>11 DEF FollowInv, FollowsFile, There
  <1> QED
    BY <1>6, <1>7, <1>8, <1>12 DEF FollowInv

LEMMA ReaderWatches ==
  ASSUME SizeAssumption, LogInv, FollowInv, WatchFile, UNCHANGED logVars
  PROVE  FollowInv'
  <1>1. /\ follow.pc = "watch" /\ follow' = [follow EXCEPT !.pc = "poll", !.prev = StatOf(active)]
        /\ raced' = (raced \/ FirstLine(active) # origin.first)
        /\ shown' = shown /\ origin' = origin /\ active' = active /\ proxy' = proxy
    BY DEF WatchFile, logVars, FirstLine
  <1>2. /\ StatOf(active) \in Stats /\ StatOf(active).ino = active.ino
        /\ StatOf(active).size = SizeOf(active) /\ SizeOf(active) \in Nat
        /\ IF There(active) THEN FirstLine(active) \in Lines(active) /\ SizeOf(active) > 0
           ELSE FirstLine(active) = 0 /\ StatOf(active) = StatOf(NoFile)
        /\ StatOf(active).first = FirstLine(active)
    BY StatFacts DEF FollowInv, FirstLine
  <1>3. follow \in FollowRecords
    BY DEF FollowInv, FollowTypeOK
  <1>4. /\ follow' \in FollowRecords /\ follow'.pc = "poll" /\ follow'.offset = follow.offset
        /\ follow'.partial = follow.partial
        /\ follow'.prev = StatOf(active) /\ follow'.curr = follow.curr
    BY <1>1, <1>2, <1>3 DEF FollowRecords, FollowPcs
  <1>5. FollowTypeOK'
    BY <1>1, <1>4 DEF FollowInv, FollowTypeOK
  <1>6. Seen'
    <2>1. Known(FirstLine(active))
      BY <1>2, LineIsKnown DEF FollowInv, Seen
    <2> QED
      BY <1>1, <1>2, <1>4, <2>1 DEF FollowInv, Seen, Known, Lines
  <1>7. There(active) => FirstLine(active) # 0
    BY <1>2 DEF FollowInv, Seen
  <1>8. StatsTrue'
    <2>1. StatTrue(StatOf(active))
      BY <1>2 DEF StatTrue
    <2> QED
      BY <1>1, <1>2, <1>4, <1>7, <2>1
         DEF FollowInv, StatsTrue, StatTrue, Is, FirstLine, StatOf, There, SizeOf
  <1>9. ASSUME ~raced'
        PROVE  ~raced /\ follow'.prev.first = origin.first /\ follow.offset <= SizeOf(active)
    <2>1. ~raced /\ FirstLine(active) = origin.first
      BY <1>1, <1>9
    <2>2. CASE There(active)
      BY <1>1, <1>2, <1>4, <2>1, <2>2 DEF FollowInv, FollowsFile, Is, AtOffset
    <2>3. CASE ~There(active)
      BY <1>1, <1>2, <1>3, <1>4, <2>1, <2>3 DEF FollowInv, FollowsFile
    <2> QED
      BY <2>2, <2>3
  <1>10. UNCHANGED <<active, shown, origin, follow.offset, follow.partial>>
    BY <1>1, <1>4
  <1>11. AtOffset' <=> AtOffset
    BY <1>10 DEF AtOffset, Newer, EndsLine, LineAt, SizeOf
  <1>12. FollowsFile'
    BY <1>1, <1>2, <1>4, <1>9, <1>10, <1>11
       DEF FollowInv, FollowsFile, Is, FirstLine, StatOf, There, SizeOf, Newer, Lines
  <1> QED
    BY <1>5, <1>6, <1>8, <1>12 DEF FollowInv

LEMMA ReaderPolls ==
  ASSUME SizeAssumption, LogInv, FollowInv, Poll, UNCHANGED logVars
  PROVE  FollowInv'
  <1>1. /\ follow.pc = "poll" /\ StatOf(active) # follow.prev
        /\ follow' = [follow EXCEPT !.pc = "change", !.curr = StatOf(active)]
        /\ shown' = shown /\ origin' = origin /\ raced' = raced
        /\ active' = active /\ proxy' = proxy
    BY DEF Poll, logVars
  <1>2. /\ StatOf(active) \in Stats /\ StatOf(active).ino = active.ino
        /\ StatOf(active).size = SizeOf(active) /\ SizeOf(active) \in Nat
        /\ IF There(active) THEN FirstLine(active) \in Lines(active) /\ SizeOf(active) > 0
           ELSE FirstLine(active) = 0 /\ StatOf(active) = StatOf(NoFile)
        /\ StatOf(active).first = FirstLine(active)
    BY StatFacts DEF FollowInv, FirstLine
  <1>3. follow \in FollowRecords
    BY DEF FollowInv, FollowTypeOK
  <1>4. /\ follow' \in FollowRecords /\ follow'.pc = "change" /\ follow'.offset = follow.offset
        /\ follow'.partial = follow.partial
        /\ follow'.prev = follow.prev /\ follow'.curr = StatOf(active)
    BY <1>1, <1>2, <1>3 DEF FollowRecords, FollowPcs
  <1>5. FollowTypeOK'
    BY <1>1, <1>4 DEF FollowInv, FollowTypeOK
  <1>6. Seen'
    <2>1. Known(FirstLine(active))
      BY <1>2, LineIsKnown DEF FollowInv, Seen
    <2> QED
      BY <1>1, <1>2, <1>4, <2>1 DEF FollowInv, Seen, Known, Lines
  <1>7. There(active) => FirstLine(active) # 0
    BY <1>2 DEF FollowInv, Seen
  <1>8. StatsTrue'
    <2>1. StatTrue(StatOf(active))
      BY <1>2 DEF StatTrue
    <2> QED
      BY <1>1, <1>2, <1>4, <1>7, <2>1
         DEF FollowInv, StatsTrue, StatTrue, Is, FirstLine, StatOf, There, SizeOf
  <1>9. /\ FirstLine(active) = follow.prev.first =>
             active.ino = follow.prev.ino /\ follow.prev.size <= SizeOf(active)
        /\ FirstLine(active) # follow.prev.first => ~Is(follow.prev.first)
    <2>1. CASE There(active)
      BY <2>1 DEF FollowInv, StatsTrue, StatTrue, Is
    <2>2. CASE ~There(active)
      <3>1. follow.prev.first = 0 => follow.prev = StatOf(active)
        BY <1>2, <2>2 DEF FollowInv, StatsTrue
      <3> QED
        BY <1>1, <1>2, <2>2, <3>1 DEF Is
    <2> QED
      BY <2>1, <2>2
  <1>10. UNCHANGED <<active, shown, origin, follow.offset, follow.partial, follow.prev>>
    BY <1>1, <1>4
  <1>11. AtOffset' <=> AtOffset
    BY <1>10 DEF AtOffset, Newer, EndsLine, LineAt, SizeOf
  <1>12. \A first : Is(first)' <=> Is(first)
    BY <1>1 DEF Is, FirstLine, StatOf, There, SizeOf
  <1>13. FollowsFile'
    BY <1>1, <1>2, <1>4, <1>9, <1>10, <1>11, <1>12
       DEF FollowInv, FollowsFile, There, Newer, Lines
  <1> QED
    BY <1>5, <1>6, <1>8, <1>13 DEF FollowInv

-----------------------------------------------------------------------------
(* onChange: what is read, from where, and what is then known.              *)
AreLines(r, from, to, whole) ==
  LET k == from \div LineBytes
      m == to \div LineBytes
  IN /\ k \in Nat /\ m \in Nat /\ k <= m
     /\ r \in Seq(Nat) /\ DOMAIN r = 1 .. m - k
     /\ \A i \in 1 .. m - k :
          /\ k + i \in DOMAIN active.lines
          /\ r[i] \in {active.lines[k + i], Torn}
          /\ whole => r[i] = active.lines[k + i]

LEMMA LinesReadFacts ==
  ASSUME SizeAssumption, LogInv, FollowTypeOK,
         NEW from \in Nat, NEW to \in Nat, NEW partial \in Nat, from <= to,
         to <= SizeOf(active) \/ to = from
  PROVE  AreLines(LinesRead(from, to, partial), from, to,
                  EndsLine(from) \/ partial = LineAt(from))
  <1> DEFINE k == from \div LineBytes
             m == to \div LineBytes
             r == LinesRead(from, to, partial)
  <1>1. LineBytes \in Nat \ {0}
    BY DEF SizeAssumption
  <1>2. k \in Nat /\ m \in Nat /\ k <= m
    BY <1>1, LineOfByte, LinesAscend
  <1>3. active.lines \in Seq(Nat) /\ Len(active.lines) \in Nat /\ DOMAIN active.lines = 1 .. Len(active.lines)
    BY LenProperties DEF LogInv, LogTypeOK, LogLines
  <1>4. m <= Len(active.lines) \/ m = k
    BY <1>1, <1>3, LinesUpTo DEF SizeOf
  <1>5. r = [i \in 1 .. m - k |->
               IF i > 1 \/ EndsLine(from) \/ partial = LineAt(from) THEN active.lines[k + i] ELSE Torn]
    BY DEF LinesRead
  <1> HIDE DEF k, m, r
  <1>6. m - k \in Nat /\ \A i \in 1 .. m - k : k + i \in DOMAIN active.lines
    BY <1>2, <1>3, <1>4
  <1>7. \A i \in 1 .. m - k : active.lines[k + i] \in Nat
    BY <1>3, <1>6, ElementOfSeq
  <1>8. /\ DOMAIN r = 1 .. m - k
        /\ \A i \in 1 .. m - k :
             /\ r[i] \in {active.lines[k + i], Torn}
             /\ EndsLine(from) \/ partial = LineAt(from) => r[i] = active.lines[k + i]
    BY <1>5
  <1>9. r \in Seq(Nat)
    <2>1. \A i \in 1 .. m - k : r[i] \in Nat
      BY <1>7, <1>8 DEF Torn
    <2>2. r = [i \in 1 .. m - k |-> r[i]]
      BY <1>5
    <2> QED
      BY <1>6, <2>1, <2>2, IsASeq
  <1> QED
    BY <1>2, <1>6, <1>8, <1>9 DEF AreLines, k, m, r

Reads(from, to, partial) ==
  \/ to = from /\ shown' = shown /\ (follow.curr.size = from \/ ~There(active))
  \/ /\ follow.curr.size # from /\ There(active)
     /\ to <= SizeOf(active) \/ to = from
     /\ shown' = shown \o LinesRead(from, to, partial)

LEMMA ChangeStep ==
  ASSUME SizeAssumption, LogInv, FollowInv, OnChange
  PROVE  \E from, to, partial \in Nat :
           /\ from = (IF Replaced THEN 0 ELSE follow.offset)
           /\ partial = (IF Replaced THEN NoPartial ELSE follow.partial)
           /\ from <= to /\ to <= follow.curr.size /\ Reads(from, to, partial)
           /\ follow' \in FollowRecords /\ follow'.pc = "poll" /\ follow'.offset = to
           /\ follow'.prev = follow.curr /\ follow'.curr = follow.curr
           /\ follow'.partial = (IF to = from THEN partial
                                 ELSE IF EndsLine(to) THEN NoPartial ELSE LineAt(to))
           /\ origin' = [first |-> follow.curr.first, from |-> IF Replaced THEN 0 ELSE origin.from]
           /\ ~raced' => /\ ~raced
                         /\ follow.curr.ino = follow.prev.ino => follow.curr.first = follow.prev.first
                         /\ FirstLine(active) = follow.curr.first \/ follow.curr.size = from
           /\ raced' \in BOOLEAN
  <1> DEFINE from == IF Replaced THEN 0 ELSE follow.offset
             partial == IF Replaced THEN NoPartial ELSE follow.partial
             Partial(to) == IF to = from THEN partial
                            ELSE IF EndsLine(to) THEN NoPartial ELSE LineAt(to)
             Reaches(to) ==
               follow' = [follow EXCEPT !.pc = "poll", !.offset = to, !.prev = follow.curr,
                            !.partial = Partial(to)]
  <1>1. /\ follow \in FollowRecords /\ follow.offset \in Nat /\ follow.partial \in Nat
        /\ follow.curr \in Stats /\ follow.curr.size \in Nat /\ raced \in BOOLEAN
    BY DEF FollowInv, FollowTypeOK, FollowRecords, Stats
  <1>2. from \in Nat /\ partial \in Nat
    BY <1>1 DEF NoPartial
  <1>3. /\ origin' = [first |-> follow.curr.first, from |-> IF Replaced THEN 0 ELSE origin.from]
        /\ raced' = (raced \/ (follow.curr.ino = follow.prev.ino /\ follow.curr.first # follow.prev.first)
                           \/ (FirstLine(active) # follow.curr.first /\ follow.curr.size # from))
    BY DEF OnChange, FirstLine
  <1>4. PICK to \in Int :
          /\ Reaches(to) /\ Reads(from, to, partial)
          /\ from <= to /\ (to <= follow.curr.size \/ to = from)
    <2>1. CASE (follow.curr.size = from \/ ~There(active)) /\ Reaches(from) /\ UNCHANGED shown
      <3>1. Reads(from, from, partial)
        BY <2>1 DEF Reads
      <3>2. Reaches(from) /\ from \in Int /\ from <= from
        BY <1>2, <2>1
      <3> HIDE DEF from, partial, Reaches
      <3> QED
        BY <3>1, <3>2
    <2>2. CASE /\ follow.curr.size # from /\ There(active)
               /\ \E to \in from .. follow.curr.size :
                    /\ to = from => SizeOf(active) <= from
                    /\ to <= SizeOf(active) \/ to = from
                    /\ shown' = shown \o LinesRead(from, to, partial)
                    /\ Reaches(to)
      <3>1. PICK to \in from .. follow.curr.size :
              /\ to <= SizeOf(active) \/ to = from
              /\ shown' = shown \o LinesRead(from, to, partial)
              /\ Reaches(to)
        BY <2>2
      <3>2. Reads(from, to, partial)
        BY <2>2, <3>1 DEF Reads
      <3>3. to \in Int /\ from <= to /\ to <= follow.curr.size /\ Reaches(to)
        BY <1>1, <1>2, <3>1
      <3> HIDE DEF from, partial, Reaches
      <3> QED
        BY <3>2, <3>3
    <2> QED
      BY <2>1, <2>2 DEF OnChange
  <1>5. from <= follow.curr.size
    BY <1>1 DEF Replaced
  <1>6. Reaches(to) /\ from <= to /\ to <= follow.curr.size /\ to \in Nat
    BY <1>1, <1>2, <1>4, <1>5
  <1>7. Partial(to) \in Nat
    <2>1. ASSUME to # from, ~EndsLine(to) PROVE LineAt(to) \in Nat
      <3>1. LineBytes \in Nat \ {0} /\ Len(active.lines) \in Nat
            /\ active.lines \in Seq(Nat) /\ DOMAIN active.lines = 1 .. Len(active.lines)
        BY LenProperties DEF SizeAssumption, LogInv, LogTypeOK, LogLines
      <3>2. to <= LineBytes * Len(active.lines)
        BY <1>4, <2>1 DEF Reads, SizeOf
      <3>3. to \div LineBytes \in Nat /\ to \div LineBytes < Len(active.lines)
        BY <1>6, <2>1, <3>1, <3>2, LineOfByte, LinesUpTo DEF EndsLine
      <3>4. to \div LineBytes + 1 \in DOMAIN active.lines
        BY <3>1, <3>3
      <3> QED
        BY <3>1, <3>4, ElementOfSeq DEF LineAt
    <2> QED
      BY <1>2, <2>1 DEF NoPartial
  <1>8. follow' = [follow EXCEPT !.pc = "poll", !.offset = to, !.prev = follow.curr,
                                 !.partial = Partial(to)]
    BY <1>6
  <1> HIDE DEF Partial
  <1>9. /\ follow' \in FollowRecords /\ follow'.pc = "poll" /\ follow'.offset = to
        /\ follow'.prev = follow.curr /\ follow'.curr = follow.curr /\ follow'.partial = Partial(to)
    <2>1. "poll" \in FollowPcs
      BY DEF FollowPcs
    <2> QED
      BY <1>1, <1>6, <1>7, <1>8, <2>1 DEF FollowRecords
  <1>10. /\ raced' \in BOOLEAN
         /\ ~raced' => /\ ~raced
                       /\ follow.curr.ino = follow.prev.ino => follow.curr.first = follow.prev.first
                       /\ FirstLine(active) = follow.curr.first \/ follow.curr.size = from
    BY <1>1, <1>3
  <1> QED
    BY <1>2, <1>3, <1>4, <1>6, <1>9, <1>10 DEF Partial

(* When nothing was raced, the reading goes on where it should.             *)
ReadyAt(from, partial, start) ==
  /\ from <= SizeOf(active)
  /\ \A i \in DOMAIN active.lines : i > from \div LineBytes => Newer({active.lines[i]})
  /\ EndsLine(from) \/ partial = LineAt(from)
  /\ \A i \in start \div LineBytes + 1 .. from \div LineBytes : active.lines[i] \in ToSet(shown)

LEMMA ZeroBytes == SizeAssumption => 0 \div LineBytes = 0 /\ EndsLine(0)
  <1> SUFFICES ASSUME SizeAssumption PROVE 0 \div LineBytes = 0 /\ EndsLine(0)
    OBVIOUS
  <1>1. LineBytes \in Nat \ {0} /\ LineBytes * 0 = 0
    BY DEF SizeAssumption
  <1> QED
    BY <1>1, WholeLines DEF EndsLine

LEMMA SameOrNew ==
  ASSUME SizeAssumption, LogInv, FollowInv, ~raced, follow.pc = "change",
         follow.curr.ino = follow.prev.ino => follow.curr.first = follow.prev.first
  PROVE  /\ follow.prev.first = origin.first
         /\ ~Replaced => follow.curr.first = origin.first
         /\ Replaced /\ There(active) => ~Is(origin.first) /\ Newer(Lines(active))
         /\ Is(origin.first) => ReadyAt(follow.offset, follow.partial, origin.from)
         /\ There(active) /\ ~Is(origin.first) => Newer(Lines(active))
  <1>1. /\ follow.prev.first = origin.first /\ follow.offset <= follow.prev.size
        /\ follow.curr.first = follow.prev.first =>
              follow.curr.ino = follow.prev.ino /\ follow.prev.size <= follow.curr.size
        /\ follow.curr.first # follow.prev.first => ~Is(follow.prev.first)
        /\ Is(origin.first) => AtOffset
        /\ There(active) /\ ~Is(origin.first) => Newer(Lines(active))
    BY DEF FollowInv, FollowsFile
  <1>2. follow.offset \in Nat /\ follow.prev.size \in Nat /\ follow.curr.size \in Nat
    <2>1. follow.offset \in Nat /\ follow.prev \in Stats /\ follow.curr \in Stats
      BY DEF FollowInv, FollowTypeOK, FollowRecords
    <2> QED
      BY <2>1 DEF Stats
  <1>3. Replaced => follow.curr.first # follow.prev.first
    BY <1>1, <1>2 DEF Replaced
  <1>4. Is(origin.first) => ReadyAt(follow.offset, follow.partial, origin.from)
    BY <1>1 DEF AtOffset, ReadyAt
  <1> QED
    BY <1>1, <1>3, <1>4 DEF Replaced

LEMMA ReadsOn ==
  ASSUME SizeAssumption, LogInv, FollowInv, ~raced,
         NEW from \in Nat, NEW to \in Nat, NEW partial \in Nat, NEW start \in Nat, from <= to,
         to <= SizeOf(active) \/ to = from, ReadyAt(from, partial, start),
         shown' = shown \o LinesRead(from, to, partial), active' = active,
         origin'.from = start, follow'.offset = to,
         follow'.partial = (IF to = from THEN partial
                            ELSE IF EndsLine(to) THEN NoPartial ELSE LineAt(to))
  PROVE  Sorted(shown') /\ Torn \notin ToSet(shown') /\ AtOffset'
  <1> DEFINE k == from \div LineBytes
             m == to \div LineBytes
             r == LinesRead(from, to, partial)
  <1>1. /\ k \in Nat /\ m \in Nat /\ k <= m /\ r \in Seq(Nat) /\ DOMAIN r = 1 .. m - k
        /\ \A i \in 1 .. m - k : k + i \in DOMAIN active.lines /\ r[i] = active.lines[k + i]
    <2>1. EndsLine(from) \/ partial = LineAt(from)
      BY DEF ReadyAt
    <2>2. FollowTypeOK
      BY DEF FollowInv
    <2>3. AreLines(r, from, to, EndsLine(from) \/ partial = LineAt(from))
      BY <2>2, LinesReadFacts
    <2>4. AreLines(r, from, to, TRUE)
      BY <2>1, <2>3 DEF AreLines
    <2> HIDE DEF r
    <2> QED
      BY <2>4 DEF AreLines
  <1>2. /\ Sorted(shown) /\ Torn \notin ToSet(shown) /\ shown \in Seq(Nat)
        /\ \A i \in DOMAIN active.lines : i > k => Newer({active.lines[i]})
        /\ \A i \in start \div LineBytes + 1 .. k : active.lines[i] \in ToSet(shown)
        /\ EndsLine(from) \/ partial = LineAt(from)
        /\ from <= SizeOf(active)
    BY DEF FollowInv, FollowTypeOK, FollowsFile, ReadyAt
  <1>3. shown' = shown \o r
    OBVIOUS
  <1>4. /\ Sorted(active.lines) /\ SizeOf(active) \in Nat
        /\ DOMAIN active.lines = 1 .. Len(active.lines) /\ Len(active.lines) \in Nat
    BY StatFacts DEF LogInv, Ascending, FollowInv
  <1>5. start \div LineBytes \in Nat
    BY LineOfByte DEF SizeAssumption
  <1> HIDE DEF k, m, r
  <1>6. \A i \in 1 .. m - k : k + i > k
    BY <1>1
  <1>7. Below(ToSet(shown), ToSet(r))
    <2>1. ASSUME NEW e \in ToSet(shown), NEW f \in ToSet(r) PROVE e < f
      <3>1. PICK i \in 1 .. m - k : f = r[i] /\ k + i \in DOMAIN active.lines /\ r[i] = active.lines[k + i]
        BY <1>1, <2>1 DEF ToSet
      <3>2. Newer({active.lines[k + i]})
        BY <1>2, <1>6, <3>1
      <3> QED
        BY <2>1, <3>1, <3>2 DEF Newer
    <2> QED
      BY <2>1 DEF Below
  <1>8. Sorted(r)
    <2>1. ASSUME NEW i \in 1 .. m - k, NEW j \in 1 .. m - k, i < j PROVE r[i] < r[j]
      <3>1. k + i \in DOMAIN active.lines /\ k + j \in DOMAIN active.lines
        BY <1>1
      <3>2. k + i < k + j
        BY <1>1, <2>1
      <3> QED
        BY <1>1, <1>4, <3>1, <3>2 DEF Sorted
    <2> QED
      BY <1>1, <2>1 DEF Sorted
  <1>9. Sorted(shown') /\ ToSet(shown') = ToSet(shown) \cup ToSet(r)
    BY <1>1, <1>2, <1>3, <1>7, <1>8, SortedConcat
  <1>10. \A l \in ToSet(r) : l \in Lines(active)
    BY <1>1 DEF ToSet, Lines
  <1>11. Torn \notin ToSet(shown')
    BY <1>2, <1>9, <1>10 DEF FollowInv, Seen, Torn
  <1>12. AtOffset'
    <2>1. to <= SizeOf(active)
      BY <1>2
    <2>2. ASSUME NEW i \in DOMAIN active.lines, i > m, NEW s \in ToSet(shown) \cup ToSet(r)
          PROVE  s < active.lines[i]
      <3>1. CASE s \in ToSet(shown)
        <4>1. i > k
          BY <1>1, <1>4, <2>2
        <4> QED
          BY <1>2, <3>1, <4>1 DEF Newer
      <3>2. CASE s \in ToSet(r)
        <4>1. PICK j \in 1 .. m - k : s = active.lines[k + j] /\ k + j \in DOMAIN active.lines
          BY <1>1, <3>2 DEF ToSet
        <4>2. k + j < i
          BY <1>1, <1>4, <2>2, <4>1
        <4> QED
          BY <1>4, <4>1, <4>2 DEF Sorted
      <3> QED
        BY <2>2, <3>1, <3>2
    <2>3. EndsLine(to) \/ follow'.partial = LineAt(to)
      BY <1>2
    <2>4. ASSUME NEW i \in start \div LineBytes + 1 .. m
          PROVE  active.lines[i] \in ToSet(shown) \cup ToSet(r)
      <3>1. CASE i <= k
        <4>1. i \in start \div LineBytes + 1 .. k
          BY <1>1, <1>5, <2>4, <3>1
        <4> QED
          BY <1>2, <4>1
      <3>2. CASE i > k
        <4>1. i - k \in 1 .. m - k /\ k + (i - k) = i
          BY <1>1, <1>5, <3>2
        <4>2. r[i - k] = active.lines[i] /\ i - k \in DOMAIN r
          BY <1>1, <4>1
        <4> QED
          BY <4>2 DEF ToSet
      <3> QED
        BY <1>1, <1>5, <3>1, <3>2
    <2>5. SizeOf(active)' = SizeOf(active) /\ LineAt(to) = active.lines[m + 1]
      BY DEF SizeOf, LineAt, m
    <2>6. \A i \in DOMAIN active'.lines : i > m => Newer({active.lines[i]})'
      BY <1>9, <2>2 DEF Newer
    <2>7. \A i \in start \div LineBytes + 1 .. m : active'.lines[i] \in ToSet(shown')
      BY <1>9, <2>4
    <2> QED
      BY <2>1, <2>3, <2>5, <2>6, <2>7 DEF AtOffset, EndsLine, LineAt, m
  <1> QED
    BY <1>9, <1>11, <1>12

LEMMA ConcatElements ==
  ASSUME NEW s \in Seq(Nat), NEW t \in Seq(Nat)
  PROVE  ToSet(s \o t) \subseteq ToSet(s) \cup ToSet(t)
  <1>1. /\ Len(s) \in Nat /\ Len(t) \in Nat /\ DOMAIN s = 1 .. Len(s) /\ DOMAIN t = 1 .. Len(t)
        /\ s \o t \in Seq(Nat) /\ Len(s \o t) = Len(s) + Len(t)
        /\ \A i \in 1 .. Len(s) + Len(t) :
             (s \o t)[i] = IF i <= Len(s) THEN s[i] ELSE t[i - Len(s)]
    BY ConcatProperties, LenProperties
  <1>2. DOMAIN (s \o t) = 1 .. Len(s) + Len(t)
    BY <1>1, LenProperties
  <1>3. \A i \in DOMAIN (s \o t) :
          \/ i \in DOMAIN s /\ (s \o t)[i] = s[i]
          \/ i - Len(s) \in DOMAIN t /\ (s \o t)[i] = t[i - Len(s)]
    BY <1>1, <1>2
  <1> QED
    BY <1>3 DEF ToSet

LEMMA ReaderChanges ==
  ASSUME SizeAssumption, LogInv, FollowInv, OnChange, UNCHANGED logVars
  PROVE  FollowInv'
  <1>1. PICK from \in Nat, to \in Nat, partial \in Nat :
           /\ from = (IF Replaced THEN 0 ELSE follow.offset)
           /\ partial = (IF Replaced THEN NoPartial ELSE follow.partial)
           /\ from <= to /\ to <= follow.curr.size /\ Reads(from, to, partial)
           /\ follow' \in FollowRecords /\ follow'.pc = "poll" /\ follow'.offset = to
           /\ follow'.prev = follow.curr /\ follow'.curr = follow.curr
           /\ follow'.partial = (IF to = from THEN partial
                                 ELSE IF EndsLine(to) THEN NoPartial ELSE LineAt(to))
           /\ origin' = [first |-> follow.curr.first, from |-> IF Replaced THEN 0 ELSE origin.from]
           /\ ~raced' => /\ ~raced
                         /\ follow.curr.ino = follow.prev.ino => follow.curr.first = follow.prev.first
                         /\ FirstLine(active) = follow.curr.first \/ follow.curr.size = from
           /\ raced' \in BOOLEAN
    BY ChangeStep
  <1>2. /\ active' = active /\ proxy' = proxy /\ follow.pc = "change"
    BY DEF OnChange, logVars
  <1>3. /\ follow.curr \in Stats /\ follow.curr.first \in Nat /\ follow.curr.size \in Nat
        /\ origin.from \in Nat /\ shown \in Seq(Nat) /\ active.ino \in Inodes \cup {0}
    BY DEF FollowInv, FollowTypeOK, FollowRecords, Stats
  <1> DEFINE start == IF Replaced THEN 0 ELSE origin.from
  <1>4. start \in Nat /\ origin'.first = follow.curr.first /\ origin'.from = start
    BY <1>1, <1>3
  <1>5. /\ shown' \in Seq(Nat)
        /\ \A line \in ToSet(shown') : line \in ToSet(shown) \cup Lines(active) \cup {0}
    <2>1. CASE shown' = shown
      BY <1>3, <2>1
    <2>2. CASE shown' # shown
      <3> DEFINE r == LinesRead(from, to, partial)
      <3>1. shown' = shown \o r /\ (to <= SizeOf(active) \/ to = from)
        BY <1>1, <2>2 DEF Reads
      <3>2. AreLines(r, from, to, EndsLine(from) \/ partial = LineAt(from))
        BY <1>1, <3>1, LinesReadFacts DEF FollowInv
      <3> HIDE DEF r
      <3>3. shown' \in Seq(Nat)
        BY <1>3, <3>1, <3>2, ConcatProperties DEF AreLines
      <3>4. \A line \in ToSet(r) : line \in Lines(active) \cup {0}
        BY <3>2 DEF AreLines, ToSet, Lines, Torn
      <3>5. ToSet(shown') \subseteq ToSet(shown) \cup ToSet(r)
        BY <1>3, <3>1, <3>2, ConcatElements DEF AreLines
      <3> QED
        BY <3>3, <3>4, <3>5
    <2> QED
      BY <2>1, <2>2
  <1>6. FollowTypeOK'
    BY <1>1, <1>2, <1>3, <1>4, <1>5 DEF FollowTypeOK
  <1>7. Seen'
    <2>1. \A line \in Lines(active) \cup {0} : Known(line)
      BY LineIsKnown DEF FollowInv, Seen
    <2>2. \A line \in ToSet(shown') \cup {origin'.first, follow'.prev.first, follow'.curr.first} :
            Known(line)
      BY <1>1, <1>4, <1>5, <2>1 DEF FollowInv, Seen
    <2> QED
      BY <1>2, <2>2 DEF FollowInv, Seen, Known, Lines
  <1>8. StatsTrue'
    BY <1>1, <1>2 DEF FollowInv, StatsTrue, StatTrue, Is, FirstLine, StatOf, There, SizeOf
  <1>9. \A first : Is(first)' <=> Is(first)
    BY <1>2 DEF Is, FirstLine, StatOf, There, SizeOf
  <1>10. /\ IF follow.curr.first = 0 THEN follow.curr.size = 0 ELSE follow.curr.size > 0
         /\ There(active) => FirstLine(active) # 0
    <2>1. follow.curr.first = 0 => follow.curr.size = 0
      BY NoFileStat DEF FollowInv, StatsTrue
    <2>2. There(active) => FirstLine(active) # 0
      BY StatFacts DEF FollowInv, Seen
    <2> QED
      BY <2>1, <2>2 DEF FollowInv, StatsTrue
  <1>11. FollowsFile'
    <2> SUFFICES ASSUME ~raced'
                 PROVE  /\ Sorted(shown') /\ Torn \notin ToSet(shown')
                        /\ Is(follow.curr.first) => AtOffset'
                        /\ There(active) /\ ~Is(follow.curr.first) => Newer(Lines(active))'
      <3>1. follow.curr.first = 0 => to = 0
        BY <1>1, <1>10
      <3> QED
        BY <1>1, <1>2, <1>4, <1>9, <3>1 DEF FollowsFile, There
    <2>1. /\ ~raced
          /\ follow.curr.ino = follow.prev.ino => follow.curr.first = follow.prev.first
          /\ FirstLine(active) = follow.curr.first \/ follow.curr.size = from
      BY <1>1
    <2>2. /\ ~Replaced => follow.curr.first = origin.first
          /\ Replaced /\ There(active) => ~Is(origin.first) /\ Newer(Lines(active))
          /\ Is(origin.first) => ReadyAt(follow.offset, follow.partial, origin.from)
          /\ There(active) /\ ~Is(origin.first) => Newer(Lines(active))
      BY <1>2, <2>1, SameOrNew
    <2>3. Sorted(shown) /\ Torn \notin ToSet(shown)
      BY <2>1 DEF FollowInv, FollowsFile
    <2>4. Is(follow.curr.first) => ReadyAt(from, partial, start)
      <3>1. CASE Replaced
        <4> SUFFICES ASSUME Is(follow.curr.first) PROVE ReadyAt(0, NoPartial, 0)
          BY <1>1, <3>1
        <4>1. Newer(Lines(active))
          BY <2>2, <3>1 DEF Is
        <4>2. \A i \in DOMAIN active.lines : active.lines[i] \in Lines(active)
          BY DEF Lines, ToSet
        <4>3. SizeOf(active) \in Nat
          BY StatFacts DEF FollowInv
        <4> QED
          BY <4>1, <4>2, <4>3, ZeroBytes DEF ReadyAt, Newer
      <3>2. CASE ~Replaced
        BY <1>1, <2>2, <3>2
      <3> QED
        BY <3>1, <3>2
    <2>5. There(active) /\ ~Is(follow.curr.first) => Newer(Lines(active))
      BY <2>2 DEF Is
    <2>6. CASE to = from /\ shown' = shown /\ (follow.curr.size = from \/ ~There(active))
      <3>1. Is(follow.curr.first) => AtOffset'
        BY <1>1, <1>2, <1>4, <2>4, <2>6 DEF ReadyAt, AtOffset, Newer, EndsLine, LineAt, SizeOf
      <3>2. There(active) /\ ~Is(follow.curr.first) => Newer(Lines(active))'
        BY <1>2, <2>5, <2>6 DEF Newer, Lines
      <3> QED
        BY <2>3, <2>6, <3>1, <3>2
    <2>7. CASE /\ follow.curr.size # from /\ There(active)
               /\ to <= SizeOf(active) \/ to = from
               /\ shown' = shown \o LinesRead(from, to, partial)
      <3>1. Is(follow.curr.first)
        BY <2>1, <2>7 DEF Is
      <3>2. Sorted(shown') /\ Torn \notin ToSet(shown') /\ AtOffset'
        BY <1>1, <1>2, <1>4, <2>1, <2>4, <2>7, <3>1, ReadsOn
      <3> QED
        BY <3>1, <3>2
    <2> QED
      BY <1>1, <2>6, <2>7 DEF Reads
  <1> QED
    BY <1>6, <1>7, <1>8, <1>11 DEF FollowInv

LEMMA FollowNextInv ==
  ASSUME SizeAssumption, TailAssumption, LogInv, FollowInv, FollowNext, UNCHANGED logVars
  PROVE  FollowInv'
  BY ReaderBegins, ReaderFollows, ReaderWatches, ReaderPolls, ReaderChanges DEF FollowNext

LEMMA FollowInvImplies == SizeAssumption /\ LogInv /\ FollowInv => ShownOnce
  <1> SUFFICES ASSUME SizeAssumption, LogInv, FollowInv, ~raced PROVE
         /\ Sorted(shown)
         /\ Torn \notin ToSet(shown)
         /\ (There(active) /\ follow.pc \in {"poll", "change"} /\ Is(origin.first)) => AtOffset
    BY DEF ShownOnce, Sorted, ToSet, Is, FirstLine, AtOffset
  <1> QED
    BY DEF FollowInv, FollowsFile
=============================================================================
