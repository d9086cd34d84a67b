-------------------------- MODULE CandidateRemoval --------------------------
(***************************************************************************)
(* The removal of one candidate: delete_candidate with its three probes,   *)
(* the best-effort removal of a tree in two passes, the diagnosis of what  *)
(* is left, its queueing for the next restart (deletion.rs, fsutil.rs,     *)
(* lockinfo.rs), the candidate's row of the post-run check (report.rs) and *)
(* the restart.                                                            *)
(*                                                                         *)
(* Every call that reads or changes the disk is a step of its own, and     *)
(* other programs open, close, create and delete entries of the tree       *)
(* between any two of them.                                                *)
(*                                                                         *)
(* A definition marked "Faulty" is a wrong version of the one after it:    *)
(* with it in place of that one, a property at the end of the module fails. *)
(***************************************************************************)
EXTENDS CandidateTree

CONSTANTS
  Worlds,      \* the surroundings a removal may find, a set of AWorld records
  Loaded,      \* entries an earlier inspection saw mapped by an NVIDIA container
  MaxListed    \* MAX_LISTED_ENTRIES

\* An attribute, an access list, an NVIDIA container or another program.
AllHolds == {"free", "readonly", "denied", "container", "other"}

\* Calls that fail: a probe, a listing, takeown, MoveFileExW.  Others: an
\* entry vanishes, appears, is closed, is opened.  The user: an abort.
AllFaults == {"stat", "list", "own", "queue",
              "vanish", "appear", "close", "open", "abort"}

\* The candidate, whether its path is a protected DriverStore one, what may
\* keep its entries from being deleted, and what may fail or interfere.
AWorld == [root : Roots, package : BOOLEAN, holds : SUBSET AllHolds,
           faults : SUBSET AllFaults]

ASSUME RemovalAssumption ==
  /\ Worlds \subseteq AWorld
  /\ Loaded \subseteq Tree
  /\ MaxListed \in Nat

VARIABLES
  present,    \* the entries that exist
  hold,       \* what keeps each entry from being deleted
  queue,      \* what MoveFileExW has queued for the next restart
  abort,      \* ABORT_REQUESTED
  given,      \* what does not change: the world, the options that matter here
  pc,         \* where delete_candidate is
  pass,       \* pass of remove_tree_with_retry
  stack,      \* the active calls of remove_tree_best_effort, innermost last
  failures,   \* TreeRemoval::failures of the pass
  verdict,    \* how the DeletePath action came out
  status,     \* latest DeletePath or ScheduleDelete status of the candidate
  aborted,    \* RunState.aborted
  work,       \* the stack of for_each_postorder
  listed,     \* entries of the listing for_each_postorder is in the middle of
  row         \* the candidate's row of the post-run check

diskVars == <<present, hold>>
callVars == <<pass, stack, failures>>
walkVars == <<work, listed>>
sayVars  == <<verdict, status, aborted, row>>
vars == <<diskVars, queue, abort, given, pc, callVars, sayVars, walkVars>>

Root == given.world.root
PackageDir == given.world.package
Faults == given.world.faults

Promise == INSTANCE TreeDeletion WITH root <- Root

-----------------------------------------------------------------------------
(* States.                                                                 *)

Given == [world : Worlds, execute : BOOLEAN, schedule : BOOLEAN, own : BOOLEAN]

Frames == [dir : Tree, open : BOOLEAN, todo : SUBSET Tree,
           before : SUBSET (Tree \X BOOLEAN)]

Works == {"expand", "emit"} \X Tree

\* A failure is an entry, and whether its code is one a lock gives.
Failures == Tree \X BOOLEAN

Places == {"probe", "safe", "own", "kind", "root", "pass", "file", "retry",
           "explain", "walk", "walking", "verify", "reported", "restart", "done"}

Queued == {queue[i] : i \in 1..Len(queue)}

TypeOK ==
  /\ present \subseteq Entries
  /\ hold \in [TreeOf[Root] -> AllHolds]
  /\ queue \in Seq(Tree)
  /\ abort \in BOOLEAN
  /\ given \in Given
  /\ pc \in Places
  /\ pass \in 1..2
  /\ stack \in Seq(Frames)
  /\ failures \subseteq Failures
  /\ verdict \in {"none", "skipped", "dryRun", "removed", "expected", "problem"}
  /\ status \in {"none", "SKIP", "DRYRUN", "INFO", "WARN"}
  /\ aborted \in BOOLEAN
  /\ work \in Seq(Works)
  /\ listed \subseteq Tree
  /\ row \in {"none", "gone", "error", "dryRun", "scheduled", "skipped",
              "failed", "noAction", "stillPresent"}

\* What exists lies in directories that exist.
Grown(there) ==
  \A n \in there : Ancestors[n] \subseteq there

Init ==
  /\ given \in Given
  /\ \E there \in SUBSET TreeOf[Root] :
       Grown(there) /\ present = there \cup Outside
  /\ hold \in [TreeOf[Root] -> given.world.holds]
  /\ queue = <<>>
  /\ abort = FALSE
  /\ pc = "probe"
  /\ pass = 1
  /\ stack = <<>>
  /\ failures = {}
  /\ verdict = "none"
  /\ status = "none"
  /\ aborted = FALSE
  /\ work = <<>>
  /\ listed = {}
  /\ row = "none"

Goto(from, to) == pc = from /\ pc' = to

Last(s) == s[Len(s)]
Front(s) == SubSeq(s, 1, Len(s) - 1)

\* delete_candidate returns with this verdict and action status.
Settle(from, v, s) ==
  /\ Goto(from, "verify")
  /\ verdict' = v
  /\ status' = s
  /\ UNCHANGED <<diskVars, queue, abort, given, callVars, aborted, row, walkVars>>

\* The answers of path_kind_no_follow for n.
KindProbes(n) ==
  {IF n \in present THEN Kind[n] ELSE "missing"}
    \cup (IF "stat" \in Faults THEN {"error"} ELSE {})

-----------------------------------------------------------------------------
(* delete_candidate up to the first call that deletes anything.            *)

ProbeAborts ==
  /\ abort
  /\ Goto("probe", "verify")
  /\ aborted' = TRUE
  /\ UNCHANGED <<diskVars, queue, abort, given, callVars, verdict, status, row,
                 walkVars>>

\* The first probe: absence is a SKIP, an unreadable state is not absence.
Probe ==
  /\ ~abort
  /\ \E k \in KindProbes(Root) :
       \/ k = "missing" /\ Settle("probe", "skipped", "SKIP")
       \/ /\ k # "missing"
          /\ Goto("probe", "safe")
          /\ UNCHANGED <<diskVars, queue, abort, given, callVars, sayVars,
                         walkVars>>

\* Faulty: what cannot be read is taken for a file.
UnsafeIfReadable(k) == PackageDir /\ k \in {"dir", "link"}
\* unsafe_recursive_directory_target, for the second probe's answer.
UnsafeTarget(k) == PackageDir /\ k \notin {"missing", "file"}

CheckSafe ==
  \E k \in KindProbes(Root) :
    \/ UnsafeTarget(k) /\ Settle("safe", "skipped", "SKIP")
    \/ ~UnsafeTarget(k) /\ ~given.execute /\ Settle("safe", "dryRun", "DRYRUN")
    \/ /\ ~UnsafeTarget(k) /\ given.execute
       /\ Goto("safe", "own")
       /\ UNCHANGED <<diskVars, queue, abort, given, callVars, sayVars, walkVars>>

\* hold after a call that clears what the given reason holds.
Cleared(reason, ns) ==
  [n \in TreeOf[Root] |-> IF n \in ns \cap present /\ hold[n] = reason
                     THEN "free" ELSE hold[n]]

\* take_ownership_if_requested: takeown and icacls over the whole tree.
TakeOwnership ==
  /\ Goto("own", "kind")
  /\ \/ given.own /\ hold' = Cleared("denied", Tree)
     \/ (given.own => abort \/ "own" \in Faults) /\ UNCHANGED hold
  /\ UNCHANGED <<present, queue, abort, given, callVars, sayVars, walkVars>>

\* The third probe decides how to delete; the kind discovery saw stands in
\* for one that cannot be read.
Dispatch ==
  /\ \E k \in KindProbes(Root) :
       \/ k \in {"dir", "link"} /\ Goto("kind", "root")
       \/ k \in {"missing", "file"} /\ Goto("kind", "file")
       \/ k = "error" /\ Kind[Root] # "file" /\ Goto("kind", "root")
       \/ k = "error" /\ Kind[Root] # "dir" /\ Goto("kind", "file")
  /\ UNCHANGED <<diskVars, queue, abort, given, callVars, sayVars, walkVars>>

-----------------------------------------------------------------------------
(* remove_tree_best_effort, one call to the system at a time.              *)

Fail(n, lock) == failures' = failures \cup {<<n, lock>>}

\* remove_file, or remove_dir on a link.
RemoveCall(n) ==
  \/ /\ n \in present /\ hold[n] = "free"
     /\ present' = present \ {n}
     /\ UNCHANGED failures
  \/ n \notin present /\ UNCHANGED <<present, failures>>
  \/ n \in present /\ hold[n] # "free" /\ Fail(n, TRUE) /\ UNCHANGED present

\* Faulty: a link to a directory is listed like a directory.
DescendsLinks(n) == Kind[n] \in {"dir", "link"}
\* Only a real directory is gone into.
Descends(n) == Kind[n] = "dir"

\* The call for n, which returns to the given frames: symlink_metadata, then
\* the removal of an entry or a frame for a directory.
CallFor(n, frames) ==
  \/ n \notin present /\ stack' = frames /\ UNCHANGED <<present, failures>>
  \/ /\ "stat" \in Faults
     /\ \E lock \in BOOLEAN : Fail(n, lock)
     /\ stack' = frames
     /\ UNCHANGED present
  \/ n \in present /\ ~Descends(n) /\ RemoveCall(n) /\ stack' = frames
  \/ /\ n \in present /\ Descends(n)
     /\ stack' = Append(frames, [dir |-> n, open |-> FALSE, todo |-> {},
                                 before |-> failures])
     /\ UNCHANGED <<present, failures>>

BeginPass ==
  /\ Goto("root", "pass")
  /\ CallFor(Root, <<>>)
  /\ UNCHANGED <<hold, queue, abort, given, pass, sayVars, walkVars>>

\* Within a frame nothing but the disk, the frames and the failures changes.
InFrame ==
  /\ pc = "pass" /\ stack # <<>>
  /\ UNCHANGED <<hold, queue, abort, given, pc, pass, sayVars, walkVars>>

\* read_dir.  A directory that went after symlink_metadata is a failure.
OpenDir ==
  /\ InFrame
  /\ LET top == Last(stack)
     IN  /\ ~top.open
         /\ \/ /\ top.dir \in present
               /\ stack' = Append(Front(stack),
                                  [top EXCEPT !.open = TRUE,
                                     !.todo = Children[top.dir] \cap present])
               /\ UNCHANGED failures
            \/ /\ top.dir \notin present \/ "list" \in Faults
               /\ Fail(top.dir, FALSE)
               /\ stack' = Front(stack)
  /\ UNCHANGED present

\* The next entry of the listing: files go at once, the rest by a call.
TakeEntry ==
  /\ InFrame
  /\ LET top == Last(stack)
     IN  /\ top.open
         /\ \E n \in top.todo :
              LET rest == Append(Front(stack), [top EXCEPT !.todo = @ \ {n}])
              IN  \/ Kind[n] = "file" /\ RemoveCall(n) /\ stack' = rest
                  \/ Kind[n] # "file" /\ CallFor(n, rest)

\* Faulty: any failure so far excuses a directory that stays.
BlamedOnAnything(frame) == failures # {}
\* A directory that stayed because an entry in it failed is no failure.
BlamedOnAnEntry(frame) == failures # frame.before

\* remove_dir on the directory itself.
LeaveDir ==
  /\ InFrame
  /\ LET top == Last(stack)
         gone == Removable(top.dir, present) /\ hold[top.dir] = "free"
     IN  /\ top.open /\ top.todo = {}
         /\ stack' = Front(stack)
         /\ present' = IF gone THEN present \ {top.dir} ELSE present
         /\ IF gone \/ top.dir \notin present \/ BlamedOnAnEntry(top)
              THEN UNCHANGED failures
              ELSE Fail(top.dir, hold[top.dir] # "free")

\* Faulty: passes go on until one has no failure.
PassesUntilClean == pass
\* Two passes: the second one's failures are final.
PassesLeft == 2 - pass

\* remove_tree_with_retry after a pass.  clear_blocking_attributes goes
\* through the tree; what it cannot list or change it leaves.
PassEnds ==
  /\ pc = "pass" /\ stack = <<>>
  /\ \/ failures = {} /\ Settle("pass", "removed", "INFO")
     \/ /\ failures # {} /\ PassesLeft > 0
        /\ \E missed \in IF "list" \in Faults THEN SUBSET TreeOf[Root] ELSE {{}} :
             hold' = Cleared("readonly", Tree \ missed)
        /\ failures' = {}
        /\ pass' = 2
        /\ pc' = "root"
        /\ UNCHANGED <<present, queue, abort, given, stack, sayVars, walkVars>>
     \/ /\ failures # {} /\ PassesLeft = 0
        /\ pc' = "explain"
        /\ UNCHANGED <<diskVars, queue, abort, given, callVars, sayVars, walkVars>>

-----------------------------------------------------------------------------
(* delete_single_file.                                                     *)

FileGone(from) ==
  /\ Goto(from, "verify")
  /\ present' = present \ {Root}
  /\ verdict' = "removed" /\ status' = "INFO"
  /\ UNCHANGED failures

FileStays(from, lock) ==
  /\ Goto(from, "explain")
  /\ failures' = {<<Root, lock>>}
  /\ UNCHANGED <<present, verdict, status>>

\* DeleteFileW: an absent file is an error here, access denied a reason to
\* try again, a sharing violation final.
DeleteFile ==
  /\ \/ /\ Root \in present /\ hold[Root] = "free" /\ Kind[Root] # "dir"
        /\ FileGone("file")
     \/ Root \notin present /\ FileStays("file", FALSE)
     \/ /\ Root \in present /\ hold[Root] \in {"container", "other"}
        /\ FileStays("file", TRUE)
     \/ /\ Root \in present
        /\ hold[Root] \in {"readonly", "denied", "container"} \/ Kind[Root] # "file"
        /\ Goto("file", "retry")
        /\ UNCHANGED <<present, failures, verdict, status>>
  /\ UNCHANGED <<hold, queue, abort, given, pass, stack, aborted, row, walkVars>>

\* Faulty: the attributes stay as they are.
NothingCleared == hold
\* set_attrs_normal takes the read-only attribute away.
AttrsCleared == Cleared("readonly", {Root})

\* set_attrs_normal, and DeleteFileW once more.
RetryFile ==
  /\ hold' = AttrsCleared
  /\ \/ /\ Root \in present /\ hold'[Root] = "free" /\ Kind[Root] # "dir"
        /\ FileGone("retry")
     \/ Root \notin present /\ FileStays("retry", FALSE)
     \/ /\ Root \in present /\ (hold'[Root] # "free" \/ Kind[Root] # "file")
        /\ FileStays("retry", TRUE)
  /\ UNCHANGED <<queue, abort, given, pass, stack, aborted, row, walkVars>>

-----------------------------------------------------------------------------
(* describe_delete_failure, and the queue for the next restart.            *)

\* A failure may be put down to NVIDIA containers alone: the earlier
\* inspection saw one map the entry, or the Restart Manager names one now.
ContainerOnly(f) == f[2] /\ (f[1] \in Loaded \/ hold[f[1]] = "container")

Explain ==
  /\ pc = "explain"
  /\ \E v \in {"expected", "problem"} :
       /\ v = "expected" =>
            /\ given.schedule /\ Cardinality(failures) <= MaxListed
            /\ \A f \in failures : ContainerOnly(f)
       /\ verdict' = v
       /\ status' = IF v = "expected" THEN "INFO" ELSE "WARN"
  /\ pc' = IF given.schedule THEN "walk" ELSE "verify"
  /\ UNCHANGED <<diskVars, queue, abort, given, callVars, aborted, row, walkVars>>

\* Faulty: a candidate that cannot be queued keeps its DeletePath status.
StatusKeptOnFailure(n, ok) == IF n = Root /\ ok THEN "INFO" ELSE status
\* The ScheduleDelete action of the candidate replaces its DeletePath status.
StatusAfter(n, ok) ==
  IF n # Root THEN status ELSE IF ok THEN "INFO" ELSE "WARN"

\* The visitor of schedule_delete_tree: it stops at an abort; a failed
\* MoveFileExW does not stop it.  next is where a visit that goes on leads.
Visit(n, next) ==
  \/ /\ abort
     /\ aborted' = TRUE /\ pc' = "verify"
     /\ UNCHANGED <<queue, status>>
  \/ /\ ~abort
     /\ queue' = Append(queue, n)
     /\ status' = StatusAfter(n, TRUE)
     /\ pc' = next
     /\ UNCHANGED aborted
  \/ /\ ~abort /\ ("queue" \in Faults \/ n \notin present)
     /\ status' = StatusAfter(n, FALSE)
     /\ pc' = next
     /\ UNCHANGED <<queue, aborted>>

\* Faulty: the root is listed unprobed.
WalkRootUnprobed ==
  /\ pc = "walk"
  /\ work' = <<<<"expand", Root>>>>
  /\ pc' = "walking"
  /\ UNCHANGED <<diskVars, queue, abort, given, callVars, sayVars, listed>>

\* for_each_postorder probes the root before it lists anything.
WalkRoot ==
  /\ pc = "walk"
  /\ \E k \in KindProbes(Root) :
       \/ /\ k \in {"missing", "dir"}
          /\ work' = <<<<"expand", Root>>>>
          /\ pc' = "walking"
          /\ UNCHANGED <<queue, status, aborted>>
       \/ /\ k \notin {"missing", "dir"}
          /\ Visit(Root, "verify")
          /\ UNCHANGED work
  /\ UNCHANGED <<diskVars, abort, given, callVars, verdict, row, listed>>

\* Faulty: directories wait in a queue.
PushedAtTheBottom(n) == <<<<"expand", n>>>> \o work
\* Directories wait on a stack, above the frame of the one they lie in.
Pushed(n) == Append(work, <<"expand", n>>)

\* Work::Expand: the frame that emits the directory lies below those of what
\* it holds.  A directory that cannot be listed has no entries.
WalkExpand ==
  /\ pc = "walking" /\ listed = {} /\ work # <<>> /\ Last(work)[1] = "expand"
  /\ LET d == Last(work)[2]
     IN  /\ work' = Append(Front(work), <<"emit", d>>)
         /\ \/ listed' = Children[d] \cap present /\ d \in present
            \/ listed' = {} /\ (d \notin present \/ "list" \in Faults)
  /\ UNCHANGED <<diskVars, queue, abort, given, pc, callVars, sayVars>>

\* An entry of the listing: a directory is expanded later, the rest visited.
WalkEntry ==
  /\ pc = "walking"
  /\ \E n \in listed :
       /\ listed' = listed \ {n}
       /\ \/ /\ Kind[n] = "dir"
             /\ work' = Pushed(n)
             /\ UNCHANGED <<queue, status, aborted, pc>>
          \/ /\ Kind[n] # "dir" \/ "stat" \in Faults
             /\ Visit(n, "walking")
             /\ UNCHANGED work
  /\ UNCHANGED <<diskVars, abort, given, callVars, verdict, row>>

\* Work::Emit.
WalkEmit ==
  /\ pc = "walking" /\ listed = {} /\ work # <<>> /\ Last(work)[1] = "emit"
  /\ Visit(Last(work)[2], "walking")
  /\ work' = Front(work)
  /\ UNCHANGED <<diskVars, abort, given, callVars, verdict, row, listed>>

WalkEnds ==
  /\ listed = {} /\ work = <<>>
  /\ Goto("walking", "verify")
  /\ UNCHANGED <<diskVars, queue, abort, given, callVars, sayVars, walkVars>>

-----------------------------------------------------------------------------
(* The post-run check of the candidate, and the restart.                   *)

\* verify_outcome_for, as the reason printed in the row.
VerifyOutcome(scheduled) ==
  IF ~given.execute \/ status = "DRYRUN" THEN "dryRun"
  ELSE IF scheduled /\ status \notin {"WARN", "SKIP"} THEN "scheduled"
  ELSE IF status = "SKIP" THEN "skipped"
  ELSE IF status = "WARN" THEN "failed"
  ELSE IF status = "none" THEN "noAction" ELSE "stillPresent"

\* verify_candidate_removal: one more probe.
Verify ==
  /\ Goto("verify", "reported")
  /\ \E k \in KindProbes(Root) :
       row' = IF k = "missing" THEN "gone"
              ELSE IF k = "error" THEN "error"
              ELSE VerifyOutcome(Root \in Queued)
  /\ UNCHANGED <<diskVars, queue, abort, given, callVars, verdict, status,
                 aborted, walkVars>>

\* Windows restarts: no program has anything open, and the deletions run with
\* rights no access list withstands.
PowerOff ==
  /\ Goto("reported", "restart")
  /\ hold' = [n \in TreeOf[Root] |-> IF hold[n] = "readonly" THEN hold[n] ELSE "free"]
  /\ UNCHANGED <<present, queue, abort, given, callVars, sayVars, walkVars>>

\* The queued deletions are carried out in order, each if it can be.
RestartDeletes ==
  /\ pc = "restart" /\ queue # <<>>
  /\ queue' = Tail(queue)
  /\ LET n == Head(queue)
     IN  present' = IF Removable(n, present) /\ hold[n] = "free"
                    THEN present \ {n} ELSE present
  /\ UNCHANGED <<hold, abort, given, pc, callVars, sayVars, walkVars>>

Restarted ==
  /\ queue = <<>>
  /\ Goto("restart", "done")
  /\ UNCHANGED <<diskVars, queue, abort, given, callVars, sayVars, walkVars>>

-----------------------------------------------------------------------------
(* Other programs, and the user.                                           *)

Vanish(n) ==
  /\ "vanish" \in Faults
  /\ Removable(n, present)
  /\ present' = present \ {n}
  /\ UNCHANGED hold

Appear(n) ==
  /\ "appear" \in Faults
  /\ n \notin present
  /\ n \notin Roots => Parent[n] \in present
  /\ present' = present \cup {n}
  /\ UNCHANGED hold

Close(n) ==
  /\ "close" \in Faults
  /\ hold[n] \in {"container", "other"}
  /\ hold' = [hold EXCEPT ![n] = "free"]
  /\ UNCHANGED present

Open(n) ==
  /\ "open" \in Faults
  /\ n \in present /\ hold[n] = "free"
  /\ \E h \in {"container", "other"} \cap given.world.holds : hold' = [hold EXCEPT ![n] = h]
  /\ UNCHANGED present

Others ==
  /\ pc \notin {"restart", "done"}
  /\ \E n \in TreeOf[Root] : Vanish(n) \/ Appear(n) \/ Close(n) \/ Open(n)
  /\ UNCHANGED <<queue, abort, given, pc, callVars, sayVars, walkVars>>

CtrlC ==
  /\ "abort" \in Faults
  /\ ~abort /\ pc \notin {"reported", "restart", "done"}
  /\ abort' = TRUE
  /\ UNCHANGED <<diskVars, queue, given, pc, callVars, sayVars, walkVars>>

-----------------------------------------------------------------------------
(* The specification.                                                      *)

Removal ==
  \/ ProbeAborts \/ Probe \/ CheckSafe \/ TakeOwnership \/ Dispatch
  \/ BeginPass \/ OpenDir \/ TakeEntry \/ LeaveDir \/ PassEnds
  \/ DeleteFile \/ RetryFile
  \/ Explain \/ WalkRoot \/ WalkExpand \/ WalkEntry \/ WalkEmit \/ WalkEnds
  \/ Verify

\* What Windows does at the restart.
AtRestart == PowerOff \/ RestartDeletes \/ Restarted

AllDone == pc = "done" /\ UNCHANGED vars

Next == Removal \/ AtRestart \/ Others \/ CtrlC \/ AllDone

Spec == Init /\ [][Next]_vars

\* The thread that removes is scheduled, whatever other programs do.
LiveSpec == Spec /\ WF_vars(Removal)

-----------------------------------------------------------------------------
(* Properties.                                                             *)

\* The removal keeps the promises of TreeDeletion: whatever is held, vanishes
\* or appears, only entries of the tree go, directories only when empty, and
\* the restart is given children before their parents.  Needs: no link
\* appears at the path of a candidate that vanished.
ImplementsTreeDeletion == Promise!Spec

\* A protected DriverStore directory that is there, or a link in its place, is
\* neither removed nor queued, whatever the probes answer.  Needs: it does not
\* come or go meanwhile.
ProtectedIsSkipped ==
  /\ PackageDir /\ Kind[Root] # "file" /\ Root \in present
  /\ {"vanish", "appear"} \cap Faults = {}
  => pc \notin {"own", "kind", "root", "pass", "file"} /\ queue = <<>>

\* After a pass every entry that is still there is put down to a failure: its
\* own, one below it, or one of a directory above it.  With no failure the
\* candidate is gone.  Needs: nothing appears.
LeftoversAreExplained ==
  pc = "pass" /\ stack = <<>> /\ "appear" \notin Faults =>
    \A n \in Tree \cap present :
      \E f \in failures : n = f[1] \/ n \in Ancestors[f[1]] \/ f[1] \in Ancestors[n]

\* A candidate whose row says it goes at the restart goes at the restart.
\* Needs: nothing appears, and probes, listings and MoveFileExW work; a
\* directory that cannot be probed is queued without what lies in it.
Smooth == {"appear", "stat", "list", "queue"} \cap Faults = {}
ScheduledGoesAtRestart ==
  pc = "done" /\ row = "scheduled" /\ Smooth => Root \notin present

\* A row with no reason for a candidate that stays is left to aborted runs:
\* otherwise a failure to delete or to queue reaches the report.  Needs: the
\* candidate does not come back after it was removed.
NoReasonOnlyIfAborted ==
  row \in {"stillPresent", "noAction"} /\ "appear" \notin Faults => aborted

\* The removal comes to its report, however other programs interfere.
RemovalEnds == <>(pc = "reported")

-----------------------------------------------------------------------------
(* What a comment says and the code does not keep.                         *)

\* types.rs: "failed schedules must never surface as 'scheduled for deletion
\* at next reboot'".
FailedSchedulesSurface ==
  pc = "reported" /\ row = "scheduled" => Tree \cap present \subseteq Queued
=============================================================================
