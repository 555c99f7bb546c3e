------------------------------- MODULE TaskLog -------------------------------
(* The event log between a task worker and its parent (tasklog.c; main.c:
   worker_on_*, task_on_event).

   The worker appends one line for each event, with as many writes as it
   takes; the parent reads whatever is there, whenever it looks, into a buffer
   of one line. A byte of the file is the event it belongs to and its place in
   that event's line, the last of which is the line end. *)
EXTENDS Naturals, Sequences, SequencesExt, FiniteSetsExt

CONSTANTS
    Scripts,     \* the events a worker has to tell, each [kind, n] with the bytes of its line
    LineBytes,   \* AGENT_TASK_LINE_MAX, and the room of TaskReader.line
    LogBytes     \* AGENT_TASK_LOG_BYTES

VARIABLES
    script,   \* what the worker tells
    upto,     \* how many of them it has begun
    rest,     \* what is left of the line it writes
    file,
    full,     \* TaskLog.full
    failed,   \* the events a write of which failed
    rdr,      \* TaskReader: the place in the file, the buffer, overflow
    heard     \* the events delivered

logVars == <<script, upto, rest, file, full, failed, rdr, heard>>

--------------------------------------------------------------------------------
LineOf(i) == [j \in 1..script[i].n |-> <<i, j>>]
IsEnd(c)  == c[2] = script[c[1]].n

LogInit == /\ script \in Scripts /\ upto = 0 /\ rest = <<>> /\ file = <<>> /\ full = FALSE /\ failed = {}
           /\ rdr = [at |-> 0, line |-> <<>>, overflow |-> FALSE] /\ heard = <<>>

\* A bug: the end is held back by a full log too.
HeldBack_End(i) == full
\* Of a log that is full only the end is still told.
HeldBack(i) == full /\ script[i].kind # "end"

\* tasklog_write up to the first write. A line that is too long is not written.
Tells ==
    /\ rest = <<>> /\ upto < Len(script)
    /\ upto' = upto + 1
    /\ rest' = IF HeldBack(upto') \/ script[upto'].n > LineBytes THEN <<>> ELSE LineOf(upto')
    /\ UNCHANGED <<script, file, full, failed, rdr, heard>>

\* One write, which may take only the first bytes.
Takes ==
    /\ rest # <<>>
    /\ \E k \in 1..Len(rest) :
          /\ file' = file \o SubSeq(rest, 1, k)
          /\ rest' = SubSeq(rest, k + 1, Len(rest))
          /\ full' = (full \/ (k = Len(rest) /\ Len(file') >= LogBytes))
    /\ UNCHANGED <<script, upto, failed, rdr, heard>>

\* The disk is full, or the file is gone: the line stays cut where it is.
DiskFails ==
    /\ rest # <<>> /\ rest' = <<>> /\ full' = TRUE /\ failed' = failed \cup {upto}
    /\ UNCHANGED <<script, upto, file, rdr, heard>>

--------------------------------------------------------------------------------
\* tasklog_parse: a line is an event when it is the whole of one.
WholeLine(line) == line # <<>> /\ line = Front(LineOf(line[1][1]))

\* A bug: what follows the last line end is dropped with the lines before it.
KeptOf_Dropped(line, at) == <<>>
\* What is kept of the buffer for the next read.
KeptOf(line, at) == SubSeq(line, at + 1, Len(line))

\* reader_lines: each line of the buffer, unless its beginning was dropped.
ReaderLines(r) ==
    LET step(a, j) ==
          IF ~IsEnd(r.line[j]) THEN a
          ELSE LET line == SubSeq(r.line, a.at + 1, j - 1)
               IN  [at |-> j, overflow |-> FALSE,
                    said |-> IF ~a.overflow /\ WholeLine(line) THEN Append(a.said, line[1][1]) ELSE a.said]
    IN  FoldLeft(step, [at |-> 0, overflow |-> r.overflow, said |-> <<>>], [j \in 1..Len(r.line) |-> j])

\* One read of tasklog_read. A full buffer with no line end in it is dropped first.
Reads ==
    /\ rdr.at < Len(file)
    /\ LET r == IF Len(rdr.line) = LineBytes THEN [rdr EXCEPT !.line = <<>>, !.overflow = TRUE] ELSE rdr
       IN  \E k \in 1..(LineBytes - Len(r.line)) :
              /\ r.at + k <= Len(file)
              /\ LET got == [r EXCEPT !.at = @ + k, !.line = @ \o SubSeq(file, r.at + 1, r.at + k)]
                     a == ReaderLines(got)
                 IN  /\ rdr' = [got EXCEPT !.line = IF a.at = 0 THEN @ ELSE KeptOf(@, a.at), !.overflow = a.overflow]
                     /\ heard' = heard \o a.said
    /\ UNCHANGED <<script, upto, rest, file, full, failed>>

LogNext == Tells \/ Takes \/ DiskFails \/ Reads

LogSpec == LogInit /\ [][LogNext]_logVars

--------------------------------------------------------------------------------
LogTypeOK == /\ Len(rdr.line) <= LineBytes /\ rdr.at <= Len(file) /\ upto <= Len(script)
             /\ \A j \in 1..Len(heard) : heard[j] \in 1..upto

\* However the bytes come, the parent hears each event once, in order, that has a line of its own
\* in what it has read: none that was not written, and none that was cut (tasklog.c:10-13).
LineEnds(n)     == {j \in 1..n : IsEnd(file[j])}
LineStart(j)    == Max({0} \cup LineEnds(j - 1))
WrittenWhole(n) == {file[j][1] : j \in {k \in LineEnds(n) : WholeLine(SubSeq(file, LineStart(k) + 1, k - 1))}}
HeardOfFile     == /\ ToSet(heard) = WrittenWhole(rdr.at)
                   /\ \A j \in 1..Len(heard) - 1 : heard[j] < heard[j + 1]

\* The end of a task whose log took every line before it is heard, although the log is full:
\* a worker that reported is not taken for one that stopped (main.c:6240, "every path out
\* writes a terminal event").
EndHeard == \A i \in 1..upto :
    script[i].kind = "end" /\ script[i].n <= LineBytes /\ (upto > i \/ rest = <<>>) /\ failed = {}
    /\ rdr.at = Len(file) => heard # <<>> /\ Last(heard) = i

EventsHeard == HeardOfFile /\ EndHeard
=============================================================================
