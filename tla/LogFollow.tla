------------------------------ MODULE LogFollow ------------------------------
(***************************************************************************)
(* offckb logs rpc --follow beside the proxy that writes the log           *)
(* (src/src/devnet/log-file.ts, src/src/cmd/logs.ts).  fs.watchFile calls  *)
(* back with two stats when they differ; the file is opened after that,    *)
(* and a read may return fewer bytes than were asked for.                  *)
(***************************************************************************)
EXTENDS ProxyLog

CONSTANT
  Tail_   \* --tail
ASSUME TailAssumption == Tail_ \in Nat

VARIABLES
  follow,  \* the reader: pc, offset, partial, the two stats
  shown,   \* history: what it printed, line by line; Torn for a broken line
  origin,  \* history: the first line and the start of what it follows
  raced    \* history: the file was replaced between a stat and its use

followVars == <<follow, shown, origin, raced>>

Torn == 0
NoPartial == 0
(* A stat.  first and last stand for the times in it; first also tells two  *)
(* files with the same inode number apart, which the program does not see.  *)
StatOf(file) ==
  [ino |-> file.ino, size |-> SizeOf(file),
   first |-> IF There(file) THEN Head(file.lines) ELSE 0,
   last |-> IF There(file) THEN Last(file.lines) ELSE 0]

FollowInit ==
  /\ follow = [pc |-> "idle", offset |-> 0, partial |-> NoPartial,
               prev |-> StatOf(NoFile), curr |-> StatOf(NoFile)]
  /\ shown = <<>> /\ origin = [first |-> 0, from |-> 0] /\ raced = FALSE

FollowAt(pc) == follow' = [follow EXCEPT !.pc = pc]

(* readLogTail: without a file there is an error, and nothing is followed.  *)
ReadLogTail ==
  /\ follow.pc = "idle" /\ There(active)
  /\ shown' = LET n == Len(active.lines)
              IN SubSeq(active.lines, IF n > Tail_ THEN n - Tail_ + 1 ELSE 1, n)
  /\ FollowAt("start")
  /\ UNCHANGED <<origin, raced>>

FollowLogFile ==
  /\ follow.pc = "start"
  /\ follow' = [follow EXCEPT !.pc = "watch", !.offset = SizeOf(active)]
  /\ origin' = [first |-> StatOf(active).first, from |-> SizeOf(active)]
  /\ UNCHANGED <<shown, raced>>

(* The first stat of fs.watchFile is only what later ones are compared to.  *)
WatchFile ==
  /\ follow.pc = "watch"
  /\ follow' = [follow EXCEPT !.pc = "poll", !.prev = StatOf(active)]
  /\ raced' = (raced \/ StatOf(active).first # origin.first)
  /\ UNCHANGED <<shown, origin>>

Poll ==
  /\ follow.pc = "poll" /\ StatOf(active) # follow.prev
  /\ follow' = [follow EXCEPT !.pc = "change", !.curr = StatOf(active)]
  /\ UNCHANGED <<shown, origin, raced>>

(* Mutant: sizes only.                                                      *)
Shrunk == follow.curr.size < follow.prev.size \/ follow.curr.size < follow.offset

(* Truncated or rotated.                                                    *)
Replaced ==
  \/ follow.curr.size < follow.prev.size
  \/ follow.curr.size < follow.offset
  \/ follow.curr.ino # follow.prev.ino

(* The line that the byte after this one is part of, and the lines that end *)
(* among the bytes from + 1 .. to: the first of them starts with partial.   *)
LineAt(byte) == active.lines[byte \div LineBytes + 1]
EndsLine(byte) == byte % LineBytes = 0
LinesRead(from, to, partial) ==
  LET before == from \div LineBytes
      whole == EndsLine(from) \/ partial = LineAt(from)
  IN [i \in 1 .. to \div LineBytes - before |->
        IF i > 1 \/ whole THEN active.lines[before + i] ELSE Torn]

(* onChange.                                                                *)
OnChange ==
  /\ follow.pc = "change"
  /\ LET from == IF Replaced THEN 0 ELSE follow.offset
         partial == IF Replaced THEN NoPartial ELSE follow.partial
         same == StatOf(active).first = follow.curr.first
         reused == follow.curr.ino = follow.prev.ino /\ follow.curr.first # follow.prev.first
         Reaches(to) ==
           follow' = [follow EXCEPT !.pc = "poll", !.offset = to, !.prev = follow.curr,
                        !.partial = IF to = from THEN partial
                                    ELSE IF EndsLine(to) THEN NoPartial ELSE LineAt(to)]
     IN /\ raced' = (raced \/ reused \/ (~same /\ follow.curr.size # from))
        /\ origin' = [first |-> follow.curr.first,
                      from |-> IF Replaced THEN 0 ELSE origin.from]
        /\ \/ /\ follow.curr.size = from \/ ~There(active)
              /\ Reaches(from) /\ UNCHANGED shown
           \/ /\ follow.curr.size # from /\ There(active)
              /\ \E to \in from .. follow.curr.size :
                   /\ to = from => SizeOf(active) <= from
                   /\ to <= SizeOf(active) \/ to = from
                   /\ shown' = shown \o LinesRead(from, to, partial)
                   /\ Reaches(to)

FollowNext == ReadLogTail \/ FollowLogFile \/ WatchFile \/ Poll \/ OnChange

-----------------------------------------------------------------------------
(* followLogFile streams "appended lines [...] tail -f style": as long as   *)
(* the file was not replaced between a stat and the read that relies on it, *)
(* every line is printed whole, once and in its order, and of the file that *)
(* is being followed none is left out up to the offset, whether it grew, or *)
(* was rolled over to a larger or a smaller one.                            *)
ShownOnce ==
  ~raced =>
    /\ \A i, j \in DOMAIN shown : i < j => shown[i] < shown[j]
    /\ \A i \in DOMAIN shown : shown[i] # Torn
    /\ (There(active) /\ follow.pc \in {"poll", "change"}
          /\ StatOf(active).first = origin.first) =>
         \A i \in origin.from \div LineBytes + 1 .. follow.offset \div LineBytes :
           active.lines[i] \in ToSet(shown)
=============================================================================
