----------------------------- MODULE MCLogStream -----------------------------
(* LogStream with three lines of a worker and two heartbeats: values for its *)
(* constants.                                                                *)
EXTENDS LogStream

\* A line shorter than a heartbeat, one as long, one longer: after an early
\* heartbeat the cursor is beyond a line, at its end, or in it.
MCLength == [l \in 0 .. 5 |-> IF l \in {1, 0} THEN 1 ELSE IF l = 3 THEN 3 ELSE 2]

\* The second line is in a block of the report.
MCStamped == 0 .. 5 \ {2}

\* What may fail in one behaviour: a short write of the worker, the reading of
\* the file, the polls.  The heartbeat's append and the stop fail with each.
MCWorlds ==
  {{"short", "append", "stop", "abort"},
   {"open", "append", "stop", "metadata"},
   {"poll", "append", "stop", "abort"}}
=============================================================================
