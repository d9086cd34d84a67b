------------------------------ MODULE LogStream ------------------------------
(***************************************************************************)
(* The wait loop of attempt_trusted_installer_relaunch (tasksched.rs) and  *)
(* the log file of the run (logging.rs).  The privileged worker appends    *)
(* its lines to the file, its parent reads them behind a cursor and shows  *)
(* them, and appends heartbeat lines of its own to the same file, which it *)
(* skips by moving the cursor on by their length.  RunHandoff has the rest *)
(* of the loop; what matters here is when the parent reads.                *)
(*                                                                         *)
(* The file is a sequence of units of text; a line is one or more units,   *)
(* the first of which holds all of its timestamp and level, and the last   *)
(* of which ends with the line break.                                      *)
(***************************************************************************)
EXTENDS Integers, SequencesExt

CONSTANTS
  Lines,      \* the worker writes lines 1 .. Lines
  Beats,      \* the lines after these, up to Lines + Beats, are heartbeats
  Length,     \* of each line in units; line 0 is the parent's before the launch
  Stamped,    \* lines that are timestamped records, not lines of a block
  Turns,      \* ti_wait_seconds, in turns of the loop
  Grace,      \* start_grace, in turns of the loop
  Worlds      \* sets of calls that may fail in one behaviour

AllFaults == {"metadata", "open", "append", "short", "poll", "stop", "abort"}
LineIds == 0 .. Lines + Beats

ASSUME StreamAssumption ==
  /\ Lines \in Nat /\ Beats \in Nat /\ Turns \in Nat /\ Grace \in Nat
  /\ Length \in [LineIds -> Nat \ {0}]
  /\ {0} \cup (Lines + 1 .. Lines + Beats) \subseteq Stamped
  /\ Stamped \subseteq LineIds
  /\ \A b \in Lines + 1 .. Lines + Beats : Length[b] = Length[Lines + Beats]
  /\ Worlds \subseteq SUBSET AllFaults

VARIABLES
  faults,     \* the calls that may fail in this behaviour
  log,        \* the file
  worker,     \* the process of the worker task
  written,    \* lines the worker has begun to write
  rest,       \* what a short write still has to write of the last one
  pc,         \* the place in the wait loop
  turn,       \* of the loop
  silent,     \* was nothing read in this turn
  seen,       \* the State of the task in this turn
  cursor,     \* log_cursor
  beats,      \* heartbeats so far
  shown,      \* what the parent has shown of the file
  ending,     \* why the wait ended
  mark,       \* where the cursor started (for the properties)
  drift       \* is the cursor known to be off its place (for the properties)

workerVars == <<worker, written, rest>>
vars == <<faults, log, workerVars, pc, turn, silent, seen, cursor, beats, shown,
          ending, mark, drift>>

Unit == [line : LineIds, at : Nat \ {0}]
Text(line) == [k \in 1 .. Length[line] |-> [line |-> line, at |-> k]]
EndsLine(u) == u.at = Length[u.line]

Endings == {"none", "finished", "cutOff", "neverStarted", "timedOut", "aborted"}

TypeOK ==
  /\ faults \in Worlds
  /\ log \in Seq(Unit) /\ rest \in Seq(Unit)
  /\ worker \in {"queued", "running", "ended"}
  /\ written \in 0 .. Lines
  /\ pc \in {"launched", "top", "poll", "result", "pause", "flush", "stop",
            "done"}
  /\ turn \in 0 .. Turns
  /\ silent \in BOOLEAN
  /\ seen \in {"unknown", "queued", "running", "ended"}
  /\ cursor \in Nat
  /\ ~drift => cursor <= Len(log)
  /\ beats \in 0 .. Beats
  /\ shown \in Seq([line : LineIds, whole : BOOLEAN])
  /\ ending \in Endings
  /\ mark \in Nat
  /\ drift \in BOOLEAN

\* The task was just run; the file holds what the parent has written so far.
Init ==
  /\ faults \in Worlds
  /\ log = Text(0)
  /\ worker = "queued" /\ written = 0 /\ rest = <<>>
  /\ pc = "launched" /\ turn = 0 /\ silent = FALSE /\ seen = "unknown"
  /\ cursor = 0 /\ beats = 0
  /\ shown = <<>>
  /\ ending = "none"
  /\ mark = 0 /\ drift = FALSE

(***************************************************************************)
(* Reading.                                                                *)
(***************************************************************************)
\* Faulty: would show every piece of text between line breaks.
AnyPiece(from) == TRUE

\* parse_log_record: a record starts with its timestamp.
IsRecord(from) == log[from].at = 1 /\ log[from].line \in Stamped

\* The numbers of a finite set from the smallest to the largest.
Ascending(S) ==
  [n \in 1 .. Cardinality(S) |->
     CHOOSE i \in S : Cardinality({j \in S : j <= i}) = n]

\* The text after c is split at its line breaks, into lines and an unended rest.
LineStarts(c, end) == {i \in c + 1 .. end : i = c + 1 \/ EndsLine(log[i - 1])}
LineStop(i, end) ==
  CHOOSE j \in i .. end : /\ j = end \/ EndsLine(log[j])
                          /\ \A k \in i .. j - 1 : ~EndsLine(log[k])

RecordStarts(c, end) == {i \in LineStarts(c, end) : IsRecord(i)}
Record(i, end) ==
  [line |-> log[i].line,
   whole |-> SubSeq(log, i, LineStop(i, end)) = Text(log[i].line)]

\* The records that begin in the text after c up to end.
Records(c, end) ==
  LET firsts == Ascending(RecordStarts(c, end))
  IN [n \in DOMAIN firsts |-> Record(firsts[n], end)]

\* Faulty: would take a line that is not finished yet.
ToTheEnd(flush, c) == Len(log)

\* Without flush only what ends with a line break is consumed.
ReadableEnd(flush, c) ==
  LET breaks == {i \in c + 1 .. Len(log) : EndsLine(log[i])}
  IN IF flush THEN Len(log)
     ELSE IF breaks = {} THEN c ELSE Max(breaks)

\* stream_child_log_lines: a file shorter than the cursor is read anew.
StreamLines(flush) ==
  \/ /\ "open" \in faults
     /\ silent' = TRUE
     /\ UNCHANGED <<cursor, shown>>
  \/ LET c == IF Len(log) < cursor THEN 0 ELSE cursor
         end == ReadableEnd(flush, c)
     IN /\ cursor' = end
        /\ silent' = (end = c)
        /\ shown' = shown \o Records(c, end)

(***************************************************************************)
(* The parent.                                                             *)
(***************************************************************************)
\* The cursor is taken after the task was run, 0 if the file cannot be asked.
SetCursor ==
  /\ pc = "launched"
  /\ \/ cursor' = Len(log) /\ drift' = drift
     \/ "metadata" \in faults /\ cursor' = 0 /\ drift' = TRUE
  /\ mark' = Len(log)
  /\ pc' = "top"
  /\ UNCHANGED <<faults, log, workerVars, turn, silent, seen, beats, shown,
                 ending>>

EndWith(e) == ending' = e /\ pc' = "flush"

TimedOut ==
  /\ pc = "top"
  /\ turn = Turns
  /\ EndWith("timedOut")
  /\ UNCHANGED <<faults, log, workerVars, turn, silent, seen, cursor, beats,
                 shown, mark, drift>>

AbortSeen ==
  /\ pc = "top"
  /\ turn < Turns
  /\ "abort" \in faults
  /\ EndWith("aborted")
  /\ UNCHANGED <<faults, log, workerVars, turn, silent, seen, cursor, beats,
                 shown, mark, drift>>

Stream ==
  /\ pc = "top"
  /\ turn < Turns
  /\ StreamLines(FALSE)
  /\ pc' = "poll"
  /\ UNCHANGED <<faults, log, workerVars, turn, seen, beats, ending, mark,
                 drift>>

PollState ==
  /\ pc = "poll"
  /\ \/ seen' = worker
     \/ "poll" \in faults /\ seen' = "unknown"
  /\ pc' = "result"
  /\ UNCHANGED <<faults, log, workerVars, turn, silent, cursor, beats, shown,
                 ending, mark, drift>>

\* ti_poll_decision.  The last result of a task that runs is a status code,
\* which counts as an exit code if the State was not read.
PollResult ==
  /\ pc = "result"
  /\ \/ seen \in {"queued", "running"} /\ pc' = "pause" /\ ending' = ending
     \/ /\ seen \in {"unknown", "ended"}
        /\ worker # "queued"
        /\ EndWith(IF worker = "ended" THEN "finished" ELSE "cutOff")
     \/ /\ seen \in {"unknown", "ended"}
        /\ worker = "queued" \/ "poll" \in faults
        /\ IF turn >= Grace THEN EndWith("neverStarted")
                            ELSE pc' = "pause" /\ ending' = ending
  /\ UNCHANGED <<faults, log, workerVars, turn, silent, seen, cursor, beats,
                 shown, mark, drift>>

Pause ==
  /\ pc = "pause"
  /\ turn' = turn + 1
  /\ pc' = "top"
  /\ UNCHANGED <<faults, silent, log, workerVars, seen, cursor, beats, shown,
                 ending, mark, drift>>

\* Faulty: would leave its own line to be streamed.
HeartbeatUnskipped ==
  /\ pc = "pause"
  /\ silent
  /\ beats < Beats
  /\ beats' = beats + 1
  /\ log' = log \o Text(Lines + beats + 1)
  /\ turn' = turn + 1
  /\ pc' = "top"
  /\ UNCHANGED <<faults, silent, workerVars, seen, cursor, shown, ending,
                 mark, drift>>

\* Faulty: would count the line before it is written.
HeartbeatUnwritten ==
  /\ pc = "pause"
  /\ silent
  /\ beats < Beats
  /\ beats' = beats + 1
  /\ cursor' = cursor + Length[Lines + beats + 1]
  /\ turn' = turn + 1
  /\ pc' = "top"
  /\ UNCHANGED <<faults, silent, log, workerVars, seen, shown, ending, mark,
                 drift>>

\* After 15 seconds without a line, at the end of any turn: the line is
\* skipped by its length, whatever lies between the cursor and it, and also
\* when it could not be appended.
Heartbeat ==
  /\ pc = "pause"
  /\ silent
  /\ beats < Beats
  /\ beats' = beats + 1
  /\ LET line == Lines + beats + 1
     IN /\ \/ log' = log \o Text(line) /\ drift' = (drift \/ cursor # Len(log))
           \/ "append" \in faults /\ log' = log /\ drift' = TRUE
        /\ cursor' = cursor + Length[line]
  /\ turn' = turn + 1
  /\ pc' = "top"
  /\ UNCHANGED <<faults, silent, workerVars, seen, shown, ending, mark>>

\* Faulty: would end without a last look at the file.
LeaveUnread ==
  /\ pc = "flush"
  /\ pc' = "stop"
  /\ UNCHANGED <<faults, log, workerVars, turn, silent, seen, cursor, beats,
                 shown, ending, mark, drift>>

Flush ==
  /\ pc = "flush"
  /\ StreamLines(TRUE)
  /\ pc' = "stop"
  /\ UNCHANGED <<faults, log, workerVars, turn, seen, beats, ending, mark,
                 drift>>

\* finish_task; nothing is read after it.
FinishTask ==
  /\ pc = "stop"
  /\ pc' = "done"
  /\ \/ worker' = "ended"
     \/ "stop" \in faults /\ worker' = worker
  /\ UNCHANGED <<faults, log, written, rest, turn, silent, seen, cursor,
                 beats, shown, ending, mark, drift>>

ParentStep ==
  \/ SetCursor \/ TimedOut \/ AbortSeen \/ Stream \/ PollState \/ PollResult
  \/ Pause \/ Heartbeat \/ Flush \/ FinishTask

(***************************************************************************)
(* The worker.                                                             *)
(***************************************************************************)
parentVars == <<faults, pc, turn, silent, seen, cursor, beats, shown, ending,
                 mark, drift>>

WorkerStarts ==
  /\ worker = "queued"
  /\ worker' = "running"
  /\ UNCHANGED <<log, written, rest, parentVars>>

\* append_utf8_file opens the file to append and writes all of the line, in
\* one write or, if that is a short one, in two.
WorkerLogs ==
  /\ worker = "running"
  /\ rest = <<>> /\ written < Lines
  /\ written' = written + 1
  /\ \/ log' = log \o Text(written + 1) /\ rest' = <<>>
     \/ /\ "short" \in faults
        /\ \E n \in 1 .. Length[written + 1] - 1 :
             /\ log' = log \o SubSeq(Text(written + 1), 1, n)
             /\ rest' = SubSeq(Text(written + 1), n + 1, Length[written + 1])
  /\ UNCHANGED <<worker, parentVars>>

WorkerLogsRest ==
  /\ worker = "running"
  /\ rest # <<>>
  /\ log' = log \o rest
  /\ rest' = <<>>
  /\ UNCHANGED <<worker, written, parentVars>>

WorkerEnds ==
  /\ worker = "running"
  /\ rest = <<>>
  /\ worker' = "ended"
  /\ UNCHANGED <<log, written, rest, parentVars>>

WorkerStep == WorkerStarts \/ WorkerLogs \/ WorkerLogsRest \/ WorkerEnds

Next == ParentStep \/ WorkerStep

Spec == Init /\ [][Next]_vars

(***************************************************************************)
(* Properties.                                                             *)
(***************************************************************************)
\* Where the worker's records begin after the mark up to end, and their lines
\* in the order of the file.
Begun(end) == {i \in mark + 1 .. end :
                 log[i].at = 1 /\ log[i].line \in Stamped \cap (1 .. Lines)}
Streamable ==
  LET firsts == Ascending(Begun(Len(log)))
  IN [n \in DOMAIN firsts |-> log[firsts[n]].line]

ShownLines == [n \in DOMAIN shown |-> shown[n].line]

\* As long as the cursor is in its place the parent shows the worker's
\* records in their order, each once, none left out between two, and never a
\* line of its own, however its reads, its heartbeats and the worker's writes
\* interleave (README "Logs & reports": the elevated window streams the
\* worker's lines).  The cursor loses its place when a heartbeat is appended
\* after lines not yet read, and when a call fails.
StreamIsFaithful == ~drift => IsPrefix(ShownLines, Streamable)

\* When the wait ends because the worker has ended, its last lines have been
\* shown before the outcome is announced: the last read comes after the end
\* was seen.  Needs that the file can be opened.
LastWordsAreShown ==
  /\ pc \in {"stop", "done"}
  /\ ending = "finished"
  /\ ~drift
  /\ "open" \notin faults
  => ShownLines = Streamable

\* No half of a line is shown as one, also when the cursor has lost its place
\* and points into a line, unless the worker's write itself was a short one.
NothingTornIsShown ==
  "short" \notin faults => \A n \in DOMAIN shown : shown[n].whole

\* While the cursor is in its place a line is shown in halves at most as the
\* last one: a short write is waited for except by the last read.
OnlyTheLastIsTorn ==
  ~drift => \A n \in DOMAIN shown :
              ~shown[n].whole => n = Len(shown) /\ pc \in {"stop", "done"}
=============================================================================
