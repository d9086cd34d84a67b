-------------------------- MODULE RunHandoff_proofs --------------------------
(* Theorems about RunHandoff, for every set of runs, every set of modes and *)
(* faults that occur, and every time limit and grace period.               *)
EXTENDS RunHandoff, TLAPS

\* The clock of a run in the middle of a turn has not reached the limit.
ClockInTurn == \A r \in Runs : pc[r] \in {"state", "result"} => waited[r] < TiWait

TypeInv == TypeOK /\ ClockInTurn

\* Every outcome wmain_try and main report has one of the documented codes.
LEMMA OutcomesHaveCodes ==
  ASSUME NEW o \in Outcomes
  PROVE  ExitCode[o] \in ExitCodes \cup {NoExit}
BY DEF Outcomes, ExitCode, ExitCodes, NoExit, EXIT_OK, EXIT_FATAL_EXCEPTION,
       EXIT_FATAL_UNKNOWN, EXIT_ABORTED, EXIT_TI_RELAUNCH_FAILED,
       EXIT_TI_CHILD_FAILED, EXIT_ALREADY_RUNNING, EXIT_BAD_ARGS

LEMMA NamedOutcomes ==
  /\ {"none", "badArgs", "refused", "relaunchFailed", "neverStarted",
      "timedOut", "aborted", "completed", "fatal", "panicked",
      "childSucceeded", "childFailed"} = Outcomes
  /\ \A d, last : WaitOutcome(d, last) \in Outcomes
BY DEF Outcomes, ExitCode, WaitOutcome

\* What a step may do to the worker of a task: Stop it or fail to.
LEMMA StopTaskTyped ==
  ASSUME TypeOK, NEW t \in Runs, StopTask(t)
  PROVE  worker' \in [Runs -> Workers]
BY DEF TypeOK, StopTask, StopWorker, Workers, Live

LEMMA InitTyped == Init => TypeInv
BY RunHandoffAssumption, NamedOutcomes
   DEF Init, TypeInv, TypeOK, ClockInTurn, Places, Workers, Live

\* The type invariant is inductive together with the clock bound.
LEMMA TypeStep ==
  ASSUME TypeInv, [Next]_vars
  PROVE  TypeInv'
<1> USE RunHandoffAssumption
        DEF TypeInv, TypeOK, ClockInTurn, Places, Admitted, Relaunching,
            Waiting, Ended, runVars, waitVars, taskVars
<1>1. ASSUME NEW r \in Runs, BadArgs(r) \/ MutexUnavailable(r) \/ CleanupEnds(r)
                             \/ ConnectFails(r) \/ RegisterFails(r)
                             \/ RunFails(r)
      PROVE  TypeInv'
  BY <1>1, NamedOutcomes DEF BadArgs, MutexUnavailable, CleanupEnds,
     ConnectFails, RegisterFails, RunFails, Decide, Goto
<1>2. ASSUME NEW r \in Runs, AcquireMutex(r)
      PROVE  TypeInv'
  BY <1>2, NamedOutcomes DEF AcquireMutex, HandlesAfterAcquire
<1>3. ASSUME NEW r \in Runs, Preflight(r)
      PROVE  TypeInv'
  BY <1>3, NamedOutcomes DEF Preflight, Goto, AllModes
<1>4. ASSUME NEW r \in Runs, Connect(r)
      PROVE  TypeInv'
  BY <1>4 DEF Connect, Goto
<1>5. ASSUME NEW r \in Runs, SweepStaleTask(r)
      PROVE  TypeInv'
  <2>1. PICK t \in todo[r] : /\ todo' = [todo EXCEPT ![r] = @ \ {t}]
                             /\ StopTask(t)
                             /\ DeleteTask(t)
    BY <1>5 DEF SweepStaleTask
  <2>2. t \in Runs
    OBVIOUS
  <2>3. worker' \in [Runs -> Workers]
    BY <2>1, <2>2, StopTaskTyped
  <2>4. QED
    BY <1>5, <2>1, <2>3 DEF SweepStaleTask, DeleteTask
<1>6. ASSUME NEW r \in Runs, RegisterTask(r) \/ RunTask(r)
      PROVE  TypeInv'
  BY <1>6 DEF RegisterTask, RunTask, Goto, Workers, Live
<1>7. ASSUME NEW r \in Runs, WaitTimesOut(r) \/ WaitAborts(r) \/ WaitGoesOn(r)
      PROVE  TypeInv'
  BY <1>7, NamedOutcomes DEF WaitTimesOut, WaitAborts, WaitGoesOn, Decide, Goto
<1>8. ASSUME NEW r \in Runs, PollState(r)
      PROVE  TypeInv'
  <2>1. States(worker[r]) \subseteq {"running", "queued", "other"}
    BY DEF States
  <2>2. QED
    BY <1>8, <2>1 DEF PollState, Goto
<1>9. ASSUME NEW r \in Runs, PollResult(r)
      PROVE  TypeInv'
  <2>1. PICK d, last :
          \/ /\ d = "keepWaiting"
             /\ Goto(r, "result", "wait")
             /\ waited' = [waited EXCEPT ![r] = ClockAfterTurn(r)]
             /\ UNCHANGED outcome
          \/ /\ Goto(r, "result", "stop")
             /\ outcome' = [outcome EXCEPT ![r] = WaitOutcome(d, last)]
             /\ UNCHANGED waited
    BY <1>9 DEF PollResult
  <2>2. UNCHANGED <<mode, pauses, exit, handles, abort, polled, sawRunning, taskVars>>
    BY <1>9 DEF PollResult
  <2>3. waited[r] \in Nat /\ ClockAfterTurn(r) \in 0..TiWait
    BY <1>9 DEF PollResult, ClockAfterTurn
  <2>4. WaitOutcome(d, last) \in Outcomes
    BY NamedOutcomes
  <2>5. QED
    BY <2>1, <2>2, <2>3, <2>4 DEF Goto
<1>10. ASSUME NEW r \in Runs, FinishStop(r) \/ FinishDelete(r)
       PROVE  TypeInv'
  <2>1. worker' \in [Runs -> Workers]
    BY <1>10, StopTaskTyped DEF FinishStop, FinishDelete
  <2>2. QED
    BY <1>10, <2>1 DEF FinishStop, FinishDelete, DeleteTask, Goto
<1>11. ASSUME NEW r \in Runs, Return(r) \/ PressEnter(r)
       PROVE  TypeInv'
  BY <1>11, OutcomesHaveCodes DEF Return, PressEnter, Goto
<1>12. ASSUME NEW r \in Runs, Crash(r) \/ CtrlC(r)
       PROVE  TypeInv'
  <2>1. CASE Crash(r)
    BY <2>1 DEF Crash
  <2>2. CASE CtrlC(r)
    BY <2>2 DEF CtrlC
  <2>3. QED
    BY <1>12, <2>1, <2>2
<1>13. ASSUME NEW r \in Runs, WorkerStep(r)
       PROVE  TypeInv'
  BY <1>13 DEF WorkerStep, WorkerStarts, WorkerEnds, Workers, Live
<1>14. CASE UNCHANGED vars
  BY <1>14 DEF vars
<1>15. QED
  BY <1>1, <1>2, <1>3, <1>4, <1>5, <1>6, <1>7, <1>8, <1>9, <1>10, <1>11,
     <1>12, <1>13, <1>14 DEF Next, RunStep, AllEnded

\* Every variable of RunHandoff keeps its type, for every set of runs, modes
\* and faults and every limit; the clock of a wait never passes its limit.
THEOREM TypeCorrect == Spec => []TypeOK
<1>1. TypeInv /\ [Next]_vars => TypeInv'
  BY TypeStep
<1>2. TypeInv => TypeOK
  BY DEF TypeInv
<1>3. QED
  BY InitTyped, <1>1, <1>2, PTL DEF Spec

-----------------------------------------------------------------------------
(* The single-instance mutex.                                              *)

\* A run past the mutex keeps its handle open.
AdmittedHoldTheMutex == \A r \in Runs : pc[r] \in Admitted => r \in handles

MutexInv == AdmittedHoldTheMutex /\ ExclusiveAdmission

\* A step of a run other than the two about the mutex changes the place of
\* that run only, never brings it past the mutex and keeps every handle.
LEMMA StepsKeepHandles ==
  ASSUME TypeOK, NEW r \in Runs, RunStep(r), ~AcquireMutex(r), ~Return(r)
  PROVE  /\ handles' = handles
         /\ \A s \in Runs \ {r} : pc'[s] = pc[s]
         /\ pc'[r] \in Admitted => pc[r] \in Admitted
<1> USE DEF TypeOK, Goto, Decide, Admitted, Relaunching, Waiting, waitVars,
            taskVars, runVars
<1>1. CASE BadArgs(r) \/ MutexUnavailable(r) \/ Preflight(r) \/ CleanupEnds(r)
  BY <1>1 DEF BadArgs, MutexUnavailable, Preflight, CleanupEnds
<1>2. CASE \/ ConnectFails(r) \/ Connect(r) \/ SweepStaleTask(r)
           \/ RegisterTask(r) \/ RegisterFails(r) \/ RunTask(r) \/ RunFails(r)
  BY <1>2 DEF ConnectFails, Connect, SweepStaleTask, RegisterTask,
     RegisterFails, RunTask, RunFails
<1>3. CASE WaitTimesOut(r) \/ WaitAborts(r) \/ WaitGoesOn(r) \/ PollState(r)
  BY <1>3 DEF WaitTimesOut, WaitAborts, WaitGoesOn, PollState
<1>4. CASE PollResult(r) \/ FinishStop(r) \/ FinishDelete(r)
  BY <1>4 DEF PollResult, FinishStop, FinishDelete
<1>5. QED
  BY <1>1, <1>2, <1>3, <1>4 DEF RunStep

\* The mutex invariant is inductive: a run is admitted only when no handle is
\* open, and a run past the mutex has one.
LEMMA MutexStep ==
  ASSUME TypeOK, MutexInv, [Next]_vars
  PROVE  MutexInv'
<1> USE DEF TypeOK, MutexInv, AdmittedHoldTheMutex, ExclusiveAdmission
<1>1. ASSUME NEW r \in Runs, AcquireMutex(r)
      PROVE  MutexInv'
  BY <1>1 DEF AcquireMutex, HandlesAfterAcquire, Admitted, Relaunching, Waiting
<1>2. ASSUME NEW r \in Runs, Return(r)
      PROVE  MutexInv'
  BY <1>2 DEF Return, Goto, Admitted, Relaunching, Waiting
<1>3. ASSUME NEW r \in Runs, RunStep(r), ~AcquireMutex(r), ~Return(r)
      PROVE  MutexInv'
  BY <1>3, StepsKeepHandles
<1>4. ASSUME NEW r \in Runs, Crash(r)
      PROVE  MutexInv'
  BY <1>4 DEF Crash, Admitted, Relaunching, Waiting
<1>5. ASSUME NEW r \in Runs, CtrlC(r) \/ PressEnter(r) \/ WorkerStep(r)
      PROVE  MutexInv'
  BY <1>5 DEF CtrlC, PressEnter, Goto, Admitted, Relaunching, Waiting, WorkerStep,
     WorkerStarts, WorkerEnds, runVars
<1>6. CASE UNCHANGED vars
  BY <1>6 DEF vars, runVars
<1>7. QED
  BY <1>1, <1>2, <1>3, <1>4, <1>5, <1>6 DEF Next, AllEnded

LEMMA MutexHolds == Spec => []MutexInv
<1>1. Init => MutexInv
  BY DEF Init, MutexInv, AdmittedHoldTheMutex, ExclusiveAdmission, Admitted,
     Relaunching, Waiting
<1>2. TypeOK /\ MutexInv /\ [Next]_vars => MutexInv'
  BY MutexStep
<1>3. QED
  BY <1>1, <1>2, TypeCorrect, PTL DEF Spec

\* At most one run is past the mutex, for any number of runs, whatever calls
\* fail and whichever runs are killed.
THEOREM AdmissionIsExclusive == Spec => []ExclusiveAdmission
<1>1. MutexInv => ExclusiveAdmission
  BY DEF MutexInv
<1>2. QED
  BY <1>1, MutexHolds, PTL

-----------------------------------------------------------------------------
(* Steps that touch workers.                                               *)

\* The only steps that change a worker: Run, the two places that stop one,
\* and the worker itself.
LEMMA WorkerChanges ==
  ASSUME TypeOK, [Next]_vars, NEW s \in Runs, worker'[s] # worker[s]
  PROVE  \/ RunTask(s)
         \/ FinishStop(s) \/ FinishDelete(s)
         \/ \E r \in Runs : SweepStaleTask(r)
         \/ WorkerStep(s)
<1> USE DEF TypeOK, runVars, waitVars, taskVars
<1>1. ASSUME NEW r \in Runs,
             \/ BadArgs(r) \/ MutexUnavailable(r) \/ Preflight(r)
             \/ AcquireMutex(r) \/ CleanupEnds(r) \/ Return(r)
             \/ ConnectFails(r) \/ Connect(r) \/ RegisterTask(r)
             \/ RegisterFails(r) \/ RunFails(r)
      PROVE  FALSE
  BY <1>1 DEF BadArgs, MutexUnavailable, Preflight, AcquireMutex, CleanupEnds,
     Return, ConnectFails, Connect, RegisterTask, RegisterFails, RunFails
<1>2. ASSUME NEW r \in Runs,
             \/ WaitTimesOut(r) \/ WaitAborts(r) \/ WaitGoesOn(r)
             \/ PollState(r) \/ PollResult(r) \/ Crash(r) \/ CtrlC(r)
             \/ PressEnter(r)
      PROVE  FALSE
  BY <1>2 DEF WaitTimesOut, WaitAborts, WaitGoesOn, PollState, PollResult,
     PressEnter, Crash, CtrlC
<1>3. ASSUME NEW r \in Runs, RunTask(r) \/ FinishStop(r) \/ FinishDelete(r)
      PROVE  r = s
  BY <1>3 DEF RunTask, FinishStop, FinishDelete, StopTask, StopWorker
<1>4. ASSUME NEW r \in Runs, WorkerStep(r)
      PROVE  r = s
  BY <1>4 DEF WorkerStep, WorkerStarts, WorkerEnds
<1>5. CASE UNCHANGED vars
  BY <1>5 DEF vars
<1>6. QED
  BY <1>1, <1>2, <1>3, <1>4, <1>5 DEF Next, RunStep, AllEnded

\* The sweep of leftovers never stops the worker of a run that still waits,
\* for any number of runs and any faults: the sweeping run would have to be
\* past the mutex together with the waiting one.
THEOREM SweepLeavesServedWorkersAlone == Spec => ServedWorkersAreLeftAlone
<1>1. ASSUME TypeOK, MutexInv, [Next]_vars, NEW s \in Runs,
             worker[s] \in Live, worker'[s] = "stopped"
      PROVE  pc[s] \notin Waiting
  <2>1. worker'[s] # worker[s]
    BY <1>1 DEF Live
  <2>2. CASE RunTask(s) \/ WorkerStep(s)
    BY <1>1, <2>2 DEF RunTask, WorkerStep, WorkerStarts, WorkerEnds, TypeOK
  <2>3. CASE FinishStop(s) \/ FinishDelete(s)
    BY <2>3 DEF FinishStop, FinishDelete, Goto, Waiting
  <2>4. ASSUME NEW r \in Runs, SweepStaleTask(r), pc[s] \in Waiting
        PROVE  FALSE
    <3>1. pc[r] = "sweep"
      BY <2>4 DEF SweepStaleTask
    <3>2. pc[r] \in Admitted /\ pc[s] \in Admitted
      BY <2>4, <3>1 DEF Admitted, Relaunching
    <3>3. QED
      BY <1>1, <2>4, <3>1, <3>2 DEF MutexInv, ExclusiveAdmission, Waiting
  <2>5. QED
    BY <1>1, <2>1, <2>2, <2>3, <2>4, WorkerChanges
<1>2. TypeOK /\ MutexInv /\ [Next]_vars
        => [\A s \in Runs : worker[s] \in Live /\ worker'[s] = "stopped"
                            => pc[s] \notin Waiting]_vars
  BY <1>1
<1>3. QED
  BY <1>2, TypeCorrect, MutexHolds, PTL DEF Spec, ServedWorkersAreLeftAlone

-----------------------------------------------------------------------------
(* Exit code 0.                                                            *)

\* What a run that reports its worker's success, or its own, has behind it.
SuccessInv ==
  \A r \in Runs :
    /\ outcome[r] = "childSucceeded"
         => /\ worker[r] = "ok"
            /\ pc[r] \in {"stop", "delete", "returning", "paused"} \cup Ended
    /\ pc[r] = "cleanup" \/ outcome[r] = "completed" => mode[r] = "direct"
    /\ pc[r] = "exited" => exit[r] = ExitCode[outcome[r]]
    /\ pc[r] # "exited" => exit[r] = NoExit

\* Only the two ways to succeed have exit code 0.
LEMMA OnlySuccessExitsOk ==
  ASSUME NEW o \in Outcomes, ExitCode[o] = EXIT_OK
  PROVE  o \in {"childSucceeded", "completed"}
BY NamedOutcomes DEF ExitCode, NoExit, EXIT_OK, EXIT_FATAL_EXCEPTION,
   EXIT_FATAL_UNKNOWN, EXIT_ABORTED, EXIT_TI_RELAUNCH_FAILED,
   EXIT_TI_CHILD_FAILED, EXIT_ALREADY_RUNNING, EXIT_BAD_ARGS

LEMMA SuccessStep ==
  ASSUME TypeOK, SuccessInv, [Next]_vars
  PROVE  SuccessInv'
<1> USE DEF TypeOK, SuccessInv, Goto, Decide, Ended, runVars, waitVars,
            taskVars
<1>1. ASSUME NEW r \in Runs,
             \/ BadArgs(r) \/ MutexUnavailable(r) \/ CleanupEnds(r)
             \/ ConnectFails(r) \/ RegisterFails(r) \/ RunFails(r)
      PROVE  SuccessInv'
  BY <1>1 DEF BadArgs, MutexUnavailable, CleanupEnds, ConnectFails,
     RegisterFails, RunFails
<1>2. ASSUME NEW r \in Runs, AcquireMutex(r) \/ Preflight(r)
      PROVE  SuccessInv'
  BY <1>2 DEF AcquireMutex, Preflight
<1>3. ASSUME NEW r \in Runs, Connect(r) \/ RegisterTask(r) \/ RunTask(r)
      PROVE  SuccessInv'
  BY <1>3 DEF Connect, RegisterTask, RunTask
<1>4. ASSUME NEW r \in Runs, SweepStaleTask(r)
      PROVE  SuccessInv'
  <2>1. \A s \in Runs : worker[s] = "ok" => worker'[s] = "ok"
    BY <1>4 DEF SweepStaleTask, StopTask, StopWorker, Live
  <2>2. QED
    BY <1>4, <2>1 DEF SweepStaleTask
<1>5. ASSUME NEW r \in Runs,
             \/ WaitTimesOut(r) \/ WaitAborts(r) \/ WaitGoesOn(r)
             \/ PollState(r)
      PROVE  SuccessInv'
  BY <1>5 DEF WaitTimesOut, WaitAborts, WaitGoesOn, PollState
<1>6. ASSUME NEW r \in Runs, PollResult(r)
      PROVE  SuccessInv'
  <2>1. PICK last \in LastTaskResults(worker[r]) :
          \/ Goto(r, "result", "wait") /\ UNCHANGED outcome
          \/ /\ Goto(r, "result", "stop")
             /\ outcome' = [outcome EXCEPT ![r] =
                   WaitOutcome(TiPollDecision(polled[r], last, waited[r]), last)]
    BY <1>6 DEF PollResult
  <2>2. last = "ok" => worker[r] = "ok"
    BY DEF LastTaskResults
  <2>3. \A d : WaitOutcome(d, last) = "childSucceeded" => last = "ok"
    BY DEF WaitOutcome
  <2>4. \A d : WaitOutcome(d, last) # "completed"
    BY DEF WaitOutcome
  <2>5. UNCHANGED <<mode, exit, taskVars>>
    BY <1>6 DEF PollResult
  <2>6. QED
    BY <2>1, <2>2, <2>3, <2>4, <2>5
<1>7. ASSUME NEW r \in Runs, FinishStop(r) \/ FinishDelete(r)
      PROVE  SuccessInv'
  <2>1. \A s \in Runs : worker[s] = "ok" => worker'[s] = "ok"
    BY <1>7 DEF FinishStop, FinishDelete, StopTask, StopWorker, Live
  <2>2. QED
    BY <1>7, <2>1 DEF FinishStop, FinishDelete
<1>8. ASSUME NEW r \in Runs, Return(r) \/ PressEnter(r) \/ Crash(r) \/ CtrlC(r)
      PROVE  SuccessInv'
  BY <1>8 DEF Return, PressEnter, Crash, CtrlC
<1>9. ASSUME NEW r \in Runs, WorkerStep(r)
      PROVE  SuccessInv'
  BY <1>9 DEF WorkerStep, WorkerStarts, WorkerEnds
<1>10. CASE UNCHANGED vars
  BY <1>10 DEF vars
<1>11. QED
  BY <1>1, <1>2, <1>3, <1>4, <1>5, <1>6, <1>7, <1>8, <1>9, <1>10
     DEF Next, RunStep, AllEnded

\* A run that hands its work over and exits with code 0 has a worker that
\* ended with exit code 0, whatever the task service answers or fails to.
THEOREM SuccessIsReal == Spec => []SuccessIsTheWorkers
<1>1. Init => SuccessInv
  BY DEF Init, SuccessInv, ExitCode
<1>2. TypeOK /\ SuccessInv /\ [Next]_vars => SuccessInv'
  BY SuccessStep
<1>3. TypeOK /\ SuccessInv => SuccessIsTheWorkers
  <2>1. SUFFICES ASSUME TypeOK, SuccessInv, NEW r \in Runs,
                        mode[r] = "relaunch", exit[r] = EXIT_OK
                 PROVE  worker[r] = "ok"
    BY DEF SuccessIsTheWorkers
  <2>2. pc[r] = "exited" /\ ExitCode[outcome[r]] = EXIT_OK
    BY <2>1 DEF SuccessInv, NoExit, EXIT_OK
  <2>3. outcome[r] \in {"childSucceeded", "completed"}
    BY <2>1, <2>2, OnlySuccessExitsOk DEF TypeOK
  <2>4. QED
    BY <2>1, <2>3 DEF SuccessInv
<1>4. QED
  BY <1>1, <1>2, <1>3, TypeCorrect, PTL DEF Spec

-----------------------------------------------------------------------------
(* Workers, when Stop works.                                               *)

\* A live worker has a run that is waiting for it, is about to stop it, or
\* was killed.
LiveInv ==
  \A r \in Runs : worker[r] \in Live => pc[r] \in Waiting \cup {"stop", "crashed"}

\* No step of the process of a run other than Run makes a worker live, and
\* the steps that leave the wait stop it first.
LEMMA LiveStep ==
  ASSUME TypeOK, LiveInv, [Next]_vars, "stop" \notin Faults
  PROVE  LiveInv'
<1> USE DEF TypeOK, LiveInv, Goto, Decide, runVars, waitVars, taskVars,
            Waiting, Live
<1>1. ASSUME NEW r \in Runs,
             \/ BadArgs(r) \/ MutexUnavailable(r) \/ Preflight(r)
             \/ AcquireMutex(r) \/ CleanupEnds(r) \/ Return(r)
             \/ ConnectFails(r) \/ Connect(r) \/ RegisterTask(r)
             \/ RegisterFails(r) \/ RunFails(r) \/ RunTask(r)
      PROVE  LiveInv'
  BY <1>1 DEF BadArgs, MutexUnavailable, Preflight, AcquireMutex, CleanupEnds,
     Return, ConnectFails, Connect, RegisterTask, RegisterFails, RunFails,
     RunTask
<1>2. ASSUME NEW r \in Runs,
             \/ WaitTimesOut(r) \/ WaitAborts(r) \/ WaitGoesOn(r)
             \/ PollState(r) \/ PollResult(r) \/ Crash(r) \/ CtrlC(r)
             \/ PressEnter(r)
      PROVE  LiveInv'
  BY <1>2 DEF WaitTimesOut, WaitAborts, WaitGoesOn, PollState, PollResult,
     PressEnter, Crash, CtrlC, Ended
<1>3. ASSUME NEW r \in Runs, SweepStaleTask(r)
      PROVE  LiveInv'
  BY <1>3 DEF SweepStaleTask, StopTask, StopWorker
<1>4. ASSUME NEW r \in Runs, FinishStop(r) \/ FinishDelete(r)
      PROVE  LiveInv'
  BY <1>4 DEF FinishStop, FinishDelete, StopTask, StopWorker
<1>5. ASSUME NEW r \in Runs, WorkerStep(r)
      PROVE  LiveInv'
  BY <1>5 DEF WorkerStep, WorkerStarts, WorkerEnds
<1>6. CASE UNCHANGED vars
  BY <1>6 DEF vars
<1>7. QED
  BY <1>1, <1>2, <1>3, <1>4, <1>5, <1>6 DEF Next, RunStep, AllEnded

LEMMA LiveHolds ==
  ASSUME "stop" \notin Faults
  PROVE  Spec => []LiveInv
<1>1. Init => LiveInv
  BY DEF Init, LiveInv, Live
<1>2. TypeOK /\ LiveInv /\ [Next]_vars => LiveInv'
  BY LiveStep
<1>3. QED
  BY <1>1, <1>2, TypeCorrect, PTL DEF Spec

\* Where Stop works, a run that returns leaves no worker behind, whichever
\* other calls fail and whichever other runs are killed.
THEOREM ReturnLeavesNoWorker ==
  ASSUME "stop" \notin Faults
  PROVE  Spec => []ExitLeavesNoWorker
<1>1. LiveInv => ExitLeavesNoWorker
  BY DEF LiveInv, ExitLeavesNoWorker, Waiting
<1>2. QED
  BY <1>1, LiveHolds, PTL

\* Where Stop works, at most one process changes the machine as long as no
\* run was killed: a worker's run is past the mutex while the worker lives.
THEOREM OneProcessMutates ==
  ASSUME "stop" \notin Faults
  PROVE  Spec => []OneMutator
<1>1. MutexInv /\ LiveInv => OneMutator
  <2>1. SUFFICES ASSUME MutexInv, LiveInv, \A t \in Runs : pc[t] # "crashed",
                        NEW r \in Runs, NEW s \in Runs
                 PROVE  /\ worker[r] \in Live /\ worker[s] \in Live => r = s
                        /\ ~(pc[r] = "cleanup" /\ worker[s] \in Live)
                        /\ pc[r] = "cleanup" /\ pc[s] = "cleanup" => r = s
    BY DEF OneMutator, WorkersNeverOverlap
  <2>2. \A t \in Runs : worker[t] \in Live
                       => pc[t] \in Admitted /\ pc[t] # "cleanup"
    BY <2>1 DEF LiveInv, Admitted, Relaunching, Waiting
  <2>3. \A t \in Runs : pc[t] = "cleanup" => pc[t] \in Admitted
    BY DEF Admitted
  <2>4. \A t, u \in Runs : pc[t] \in Admitted /\ pc[u] \in Admitted => t = u
    BY <2>1 DEF MutexInv, ExclusiveAdmission
  <2>5. QED
    BY <2>2, <2>3, <2>4
<1>2. QED
  BY <1>1, MutexHolds, LiveHolds, PTL

-----------------------------------------------------------------------------
(* Workers of killed runs, when listing the tasks and Stop work.           *)

\* A run past its sweep: every live worker is its own.
PastSweep == {"run", "stop", "delete"} \cup Waiting

\* Every live worker has its task in the folder, so the sweep of a later run
\* finds it: during a sweep the live workers are among those still to visit,
\* and after it there is none but the run's own.
SweepInv ==
  /\ \A s \in Runs : worker[s] \in Live => s \in registered
  /\ \A r \in Runs : pc[r] = "run" => r \in registered
  /\ \A r, s \in Runs : pc[r] = "sweep" /\ worker[s] \in Live => s \in todo[r]
  /\ \A r, s \in Runs : pc[r] \in PastSweep /\ worker[s] \in Live => s = r
  /\ WorkersNeverOverlap

LEMMA SweepStep ==
  ASSUME TypeOK, MutexInv, LiveInv, SweepInv, [Next]_vars,
         "stop" \notin Faults, "sweep" \notin Faults
  PROVE  SweepInv'
<1> USE DEF TypeOK, SweepInv, WorkersNeverOverlap, PastSweep, Waiting, Goto,
            Decide, runVars, waitVars, taskVars
<1>1. ASSUME NEW r \in Runs,
             \/ BadArgs(r) \/ MutexUnavailable(r) \/ Preflight(r)
             \/ AcquireMutex(r) \/ CleanupEnds(r) \/ Return(r)
             \/ ConnectFails(r) \/ RegisterFails(r) \/ RunFails(r)
      PROVE  SweepInv'
  BY <1>1 DEF BadArgs, MutexUnavailable, Preflight, AcquireMutex, CleanupEnds,
     Return, ConnectFails, RegisterFails, RunFails
<1>2. ASSUME NEW r \in Runs, Connect(r)
      PROVE  SweepInv'
  BY <1>2 DEF Connect
<1>3. ASSUME NEW r \in Runs, SweepStaleTask(r)
      PROVE  SweepInv'
  <2>1. PICK t \in todo[r] : /\ todo' = [todo EXCEPT ![r] = @ \ {t}]
                             /\ StopTask(t)
                             /\ DeleteTask(t)
    BY <1>3 DEF SweepStaleTask
  <2>2. t \in Runs /\ pc[r] = "sweep" /\ pc' = pc
    BY <1>3 DEF SweepStaleTask
  <2>3. /\ worker'[t] \notin Live
        /\ \A s \in Runs : worker'[s] \in Live => worker[s] \in Live /\ s # t
    BY <2>1, <2>2 DEF StopTask, StopWorker, Live
  <2>4. \A s \in Runs : pc[s] \in {"sweep", "run"} => s = r
    BY <2>2 DEF MutexInv, ExclusiveAdmission, Admitted, Relaunching
  <2>5. registered \ {t} \subseteq registered' /\ registered' \subseteq registered
    BY <2>1 DEF DeleteTask
  <2>6. QED
    BY <2>1, <2>2, <2>3, <2>4, <2>5
<1>4. ASSUME NEW r \in Runs, RegisterTask(r)
      PROVE  SweepInv'
  <2>1. \A s \in Runs : worker[s] \notin Live
    BY <1>4 DEF RegisterTask
  <2>2. QED
    BY <1>4, <2>1 DEF RegisterTask
<1>5. ASSUME NEW r \in Runs, RunTask(r)
      PROVE  SweepInv'
  <2>1. \A s \in Runs : worker'[s] \in Live => s = r
    BY <1>5 DEF RunTask
  <2>2. \A s \in Runs : pc[s] \in {"sweep"} \cup PastSweep => s = r
    BY <1>5 DEF RunTask, MutexInv, ExclusiveAdmission, Admitted, Relaunching
  <2>3. QED
    BY <1>5, <2>1, <2>2 DEF RunTask
<1>6. ASSUME NEW r \in Runs,
             \/ WaitTimesOut(r) \/ WaitAborts(r) \/ WaitGoesOn(r)
             \/ PollState(r) \/ PollResult(r) \/ Crash(r) \/ CtrlC(r)
             \/ PressEnter(r)
      PROVE  SweepInv'
  BY <1>6 DEF WaitTimesOut, WaitAborts, WaitGoesOn, PollState, PollResult,
     PressEnter, Crash, CtrlC
<1>7. ASSUME NEW r \in Runs, FinishStop(r) \/ FinishDelete(r)
      PROVE  SweepInv'
  <2>1. /\ worker'[r] \notin Live
        /\ \A s \in Runs : worker'[s] \in Live => worker[s] \in Live /\ s # r
    BY <1>7 DEF FinishStop, FinishDelete, StopTask, StopWorker, Live
  <2>2. registered \ {r} \subseteq registered'
    BY <1>7 DEF FinishStop, FinishDelete, DeleteTask
  <2>3. pc[r] \in {"stop", "delete"} /\ pc' = [pc EXCEPT ![r] = pc'[r]]
          /\ pc'[r] \in {"delete", "returning"} /\ UNCHANGED todo
    BY <1>7 DEF FinishStop, FinishDelete
  <2>4. QED
    BY <2>1, <2>2, <2>3
<1>8. ASSUME NEW r \in Runs, WorkerStep(r)
      PROVE  SweepInv'
  <2>1. \A s \in Runs : worker'[s] \in Live => worker[s] \in Live
    BY <1>8 DEF WorkerStep, WorkerStarts, WorkerEnds, Live
  <2>2. QED
    BY <1>8, <2>1 DEF WorkerStep, WorkerStarts, WorkerEnds
<1>9. CASE UNCHANGED vars
  BY <1>9 DEF vars
<1>10. QED
  BY <1>1, <1>2, <1>3, <1>4, <1>5, <1>6, <1>7, <1>8, <1>9
     DEF Next, RunStep, AllEnded

\* Where listing the tasks and Stop work, two workers never work at the same
\* time, although workers outlive killed runs and take no mutex.
THEOREM OneWorkerAtATime ==
  ASSUME "stop" \notin Faults, "sweep" \notin Faults
  PROVE  Spec => []WorkersNeverOverlap
<1>1. Init => SweepInv
  BY DEF Init, SweepInv, WorkersNeverOverlap, Live, PastSweep, Waiting
<1>2. TypeOK /\ MutexInv /\ LiveInv /\ SweepInv /\ [Next]_vars => SweepInv'
  BY SweepStep
<1>3. SweepInv => WorkersNeverOverlap
  BY DEF SweepInv
<1>4. QED
  BY <1>1, <1>2, <1>3, TypeCorrect, MutexHolds, LiveHolds, PTL DEF Spec

-----------------------------------------------------------------------------
(* The task folder, when DeleteTask works.                                 *)

\* Where a run with a task in the folder may be.
LEMMA LeftoverStep ==
  ASSUME TypeOK, LeftoverTasksAreExplained, [Next]_vars, "delete" \notin Faults
  PROVE  LeftoverTasksAreExplained'
<1> USE DEF TypeOK, LeftoverTasksAreExplained, Goto, Decide, Relaunching,
            Waiting, runVars, waitVars, taskVars
<1>1. ASSUME NEW r \in Runs,
             \/ BadArgs(r) \/ MutexUnavailable(r) \/ Preflight(r)
             \/ AcquireMutex(r) \/ CleanupEnds(r) \/ Return(r)
             \/ ConnectFails(r) \/ Connect(r) \/ RegisterFails(r)
             \/ RunFails(r) \/ RunTask(r)
      PROVE  LeftoverTasksAreExplained'
  BY <1>1 DEF BadArgs, MutexUnavailable, Preflight, AcquireMutex, CleanupEnds,
     Return, ConnectFails, Connect, RegisterFails, RunFails, RunTask
<1>2. ASSUME NEW r \in Runs,
             \/ WaitTimesOut(r) \/ WaitAborts(r) \/ WaitGoesOn(r)
             \/ PollState(r) \/ PollResult(r) \/ Crash(r) \/ CtrlC(r)
             \/ PressEnter(r)
      PROVE  LeftoverTasksAreExplained'
  BY <1>2 DEF WaitTimesOut, WaitAborts, WaitGoesOn, PollState, PollResult,
     PressEnter, Crash, CtrlC, Ended
<1>3. ASSUME NEW r \in Runs, SweepStaleTask(r)
      PROVE  LeftoverTasksAreExplained'
  BY <1>3 DEF SweepStaleTask, DeleteTask
<1>4. ASSUME NEW r \in Runs, RegisterTask(r)
      PROVE  LeftoverTasksAreExplained'
  BY <1>4 DEF RegisterTask
<1>5. ASSUME NEW r \in Runs, FinishStop(r) \/ FinishDelete(r)
      PROVE  LeftoverTasksAreExplained'
  BY <1>5 DEF FinishStop, FinishDelete, DeleteTask
<1>6. ASSUME NEW r \in Runs, WorkerStep(r)
      PROVE  LeftoverTasksAreExplained'
  BY <1>6 DEF WorkerStep, WorkerStarts, WorkerEnds
<1>7. CASE UNCHANGED vars
  BY <1>7 DEF vars
<1>8. QED
  BY <1>1, <1>2, <1>3, <1>4, <1>5, <1>6, <1>7 DEF Next, RunStep, AllEnded

\* Where DeleteTask works, a task that is still in the folder belongs to a run
\* that is at work on it, was killed, or could not start it: no other way out
\* of attempt_trusted_installer_relaunch leaves one.
THEOREM LeftoversHaveAReason ==
  ASSUME "delete" \notin Faults
  PROVE  Spec => []LeftoverTasksAreExplained
<1>1. Init => LeftoverTasksAreExplained
  BY DEF Init, LeftoverTasksAreExplained
<1>2. TypeOK /\ LeftoverTasksAreExplained /\ [Next]_vars
        => LeftoverTasksAreExplained'
  BY LeftoverStep
<1>3. QED
  BY <1>1, <1>2, TypeCorrect, PTL DEF Spec

\* During a sweep what is in the folder is still to be visited; from the
\* registration to the end of the wait the folder holds the run's own task.
FolderInv ==
  \A r \in Runs :
    /\ pc[r] = "sweep" => registered \subseteq todo[r]
    /\ pc[r] \in {"run"} \cup Waiting => registered = {r}

\* Steps that change neither the folder nor what a sweep has to visit, and
\* bring no run to a place FolderInv speaks of from one it does not.
LEMMA FolderQuiet ==
  ASSUME TypeOK, FolderInv, UNCHANGED registered,
         \A r \in Runs :
           /\ pc'[r] = "sweep" => pc[r] = "sweep" /\ todo'[r] = todo[r]
           /\ pc'[r] \in {"run"} \cup Waiting => pc[r] \in {"run"} \cup Waiting
  PROVE  FolderInv'
BY DEF FolderInv

LEMMA FolderStep ==
  ASSUME TypeOK, MutexInv, FolderInv, [Next]_vars,
         "sweep" \notin Faults, "delete" \notin Faults
  PROVE  FolderInv'
<1> USE DEF TypeOK, Goto, Decide, runVars, waitVars, taskVars
<1>1. ASSUME NEW r \in Runs,
             \/ BadArgs(r) \/ MutexUnavailable(r) \/ Preflight(r)
             \/ AcquireMutex(r) \/ CleanupEnds(r) \/ Return(r)
             \/ ConnectFails(r) \/ RegisterFails(r) \/ RunFails(r) \/ RunTask(r)
      PROVE  FolderInv'
  BY <1>1, FolderQuiet DEF BadArgs, MutexUnavailable, Preflight, AcquireMutex,
     CleanupEnds, Return, ConnectFails, RegisterFails, RunFails, RunTask, Waiting
<1>2. ASSUME NEW r \in Runs,
             \/ WaitTimesOut(r) \/ WaitAborts(r) \/ WaitGoesOn(r)
             \/ PollState(r) \/ PollResult(r) \/ Crash(r) \/ CtrlC(r)
             \/ PressEnter(r)
      PROVE  FolderInv'
  BY <1>2, FolderQuiet DEF WaitTimesOut, WaitAborts, WaitGoesOn, PollState,
     PollResult, PressEnter, Crash, CtrlC, Waiting
<1>3. ASSUME NEW r \in Runs, Connect(r)
      PROVE  FolderInv'
  BY <1>3 DEF Connect, FolderInv, Waiting
<1>4. ASSUME NEW r \in Runs,
             SweepStaleTask(r) \/ RegisterTask(r) \/ FinishStop(r) \/ FinishDelete(r)
      PROVE  FolderInv'
  <2>1. \A s \in Runs : pc[s] \in {"sweep", "run"} \cup Waiting => s = r
    BY <1>4 DEF SweepStaleTask, RegisterTask, FinishStop, FinishDelete, MutexInv,
       ExclusiveAdmission, Admitted, Relaunching
  <2>2. CASE SweepStaleTask(r)
    <3>1. PICK t \in todo[r] : /\ todo' = [todo EXCEPT ![r] = @ \ {t}]
                               /\ registered' = registered \ {t}
      BY <2>2 DEF SweepStaleTask, DeleteTask
    <3>2. pc[r] = "sweep" /\ pc' = pc
      BY <2>2 DEF SweepStaleTask
    <3>3. QED
      BY <2>1, <3>1, <3>2 DEF FolderInv, Waiting
  <2>3. CASE RegisterTask(r)
    <3>1. registered = {} /\ registered' = {r}
      BY <2>3 DEF RegisterTask, FolderInv
    <3>2. pc' = [pc EXCEPT ![r] = "run"]
      BY <2>3 DEF RegisterTask
    <3>3. QED
      BY <2>1, <3>1, <3>2 DEF FolderInv, Waiting
  <2>4. CASE FinishStop(r) \/ FinishDelete(r)
    <3>1. /\ pc[r] \in {"stop", "delete"} /\ pc' = [pc EXCEPT ![r] = pc'[r]]
          /\ pc'[r] \in {"delete", "returning"}
      BY <2>4 DEF FinishStop, FinishDelete
    <3>2. QED
      BY <2>1, <3>1 DEF FolderInv, Waiting
  <2>5. QED
    BY <1>4, <2>2, <2>3, <2>4
<1>5. ASSUME NEW r \in Runs, WorkerStep(r)
      PROVE  FolderInv'
  BY <1>5, FolderQuiet DEF WorkerStep, WorkerStarts, WorkerEnds
<1>6. CASE UNCHANGED vars
  BY <1>6, FolderQuiet DEF vars
<1>7. QED
  BY <1>1, <1>2, <1>3, <1>4, <1>5, <1>6 DEF Next, RunStep, AllEnded

\* Where listing the tasks and DeleteTask work, a run that waits is alone in
\* the task folder, whatever tasks killed runs have left there.
THEOREM WaitsAlone ==
  ASSUME "sweep" \notin Faults, "delete" \notin Faults
  PROVE  Spec => []OneTaskWhileWaiting
<1>1. Init => FolderInv
  BY DEF Init, FolderInv, Waiting
<1>2. TypeOK /\ MutexInv /\ FolderInv /\ [Next]_vars => FolderInv'
  BY FolderStep
<1>3. FolderInv => OneTaskWhileWaiting
  BY DEF FolderInv, OneTaskWhileWaiting
<1>4. QED
  BY <1>1, <1>2, <1>3, TypeCorrect, MutexHolds, PTL DEF Spec
=============================================================================
