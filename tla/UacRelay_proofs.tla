--------------------------- MODULE UacRelay_proofs ---------------------------
(***************************************************************************)
(* What the UAC handoff keeps whatever goes wrong, for every set of faults.*)
(***************************************************************************)
EXTENDS UacRelay, TLAPS

\* A child in its wait has a worker that was started.
WorkerInv ==
  cpc \in {"waiting", "looking", "turn"} => worker \in {"running", "ok", "failed"}

\* There is no child before the prompt is answered.
ChildInv == lpc \in {"start", "prompt"} => cpc = "none" /\ childCode = "none"

\* The event is signalled, and the wait ended as aborted, only on request.
RequestInv ==
  /\ event = "set" => flag
  /\ ends = "aborted" => flag \/ childFlag

\* How the wait ended is known only after it, and a worker's success is its
\* last state.
EndsInv ==
  /\ ends # "none" => cpc \in {"stopping", "enter", "exited"}
  /\ ends = "ok" => worker = "ok"

\* What the codes of the two processes say; a worker is still at work after an
\* abort only if Stop failed.
CodeInv ==
  /\ childCode # "none" => cpc \in {"enter", "exited"}
  /\ childCode \in {"ok", "aborted"} => ends = childCode
  /\ childCode = "aborted" => worker # "running" \/ spared
  /\ lpc \in {"enter", "exited"} => cpc = "exited" /\ code = childCode

IInv == TypeOK /\ WorkerInv /\ ChildInv /\ RequestInv /\ EndsInv /\ CodeInv

LEMMA InitHolds == Init => IInv
BY DEF Init, IInv, TypeOK, WorkerInv, ChildInv, RequestInv, EndsInv, CodeInv, Codes

LEMMA LauncherKeeps ==
  ASSUME IInv, LauncherStep \/ ChildStarted \/ NoHandoff \/ CloseLauncher
  PROVE  IInv'
<1> USE DEF IInv, TypeOK, WorkerInv, ChildInv, RequestInv, EndsInv, CodeInv, Codes, launcherVars,
        childVars, EventAfterClose
<1>1. CASE PrepareRelay
  BY <1>1 DEF PrepareRelay
<1>2. CASE RelayTurn
  BY <1>2 DEF RelayTurn
<1>3. CASE LauncherReturns
  BY <1>3 DEF LauncherReturns
<1>4. CASE ChildStarted
  BY <1>4 DEF ChildStarted
<1>5. CASE NoHandoff
  BY <1>5 DEF NoHandoff
<1>6. CASE CloseLauncher
  BY <1>6 DEF CloseLauncher
<1>7. QED
  BY <1>1, <1>2, <1>3, <1>4, <1>5, <1>6 DEF LauncherStep

LEMMA ChildKeeps ==
  ASSUME IInv, ChildStep \/ ChildKilled
  PROVE  IInv'
<1> USE DEF IInv, TypeOK, WorkerInv, ChildInv, RequestInv, EndsInv, CodeInv, Codes, launcherVars
<1>1. CASE ChildBegins
  BY <1>1 DEF ChildBegins
<1>2. CASE Observe
  BY <1>2 DEF Observe
<1>3. CASE ReadEvent
  BY <1>3 DEF ReadEvent
<1>4. CASE WaitTurn
  BY <1>4 DEF WaitTurn
<1>5. CASE FinishTask
  <2>1. /\ cpc = "stopping" /\ cpc' = "enter" /\ childCode' = ends
        /\ UNCHANGED <<launcherVars, event, readable, childFlag, ends>>
    BY <1>5 DEF FinishTask
  <2>2. CASE worker = "running"
    <3>1. /\ worker' \in {"running", "stopped"} /\ spared' \in BOOLEAN
          /\ worker' = "running" => spared'
      BY <1>5, <2>2 DEF FinishTask
    <3>2. QED
      BY <2>1, <2>2, <3>1
  <2>3. CASE worker # "running"
    <3>1. worker' = worker /\ spared' = spared
      BY <1>5, <2>3 DEF FinishTask
    <3>2. QED
      BY <2>1, <2>3, <3>1
  <2>4. QED
    BY <2>2, <2>3
<1>6. CASE ChildKilled
  BY <1>6 DEF ChildKilled
<1>7. QED
  BY <1>1, <1>2, <1>3, <1>4, <1>5, <1>6 DEF ChildStep

LEMMA OthersKeep ==
  ASSUME IInv, WorkerEnds \/ CtrlC \/ PressEnter \/ UNCHANGED vars
  PROVE  IInv'
<1> USE DEF IInv, TypeOK, WorkerInv, ChildInv, RequestInv, EndsInv, CodeInv, Codes, launcherVars, childVars
<1>1. CASE WorkerEnds
  BY <1>1 DEF WorkerEnds
<1>2. CASE CtrlC
  <2>1. /\ UNCHANGED <<lpc, pauses, code, event, readable, cpc, ends, childCode, worker,
                       spared>>
        /\ \/ flag' = TRUE /\ childFlag' = childFlag
           \/ childFlag' = TRUE /\ flag' = flag
    BY <1>2 DEF CtrlC
  <2>2. flag' \in BOOLEAN /\ childFlag' \in BOOLEAN
    BY <2>1
  <2>3. (flag => flag') /\ (childFlag => childFlag')
    BY <2>1
  <2>4. TypeOK'
    BY <2>1, <2>2
  <2>5. RequestInv'
    BY <2>1, <2>3
  <2>6. WorkerInv' /\ ChildInv' /\ EndsInv' /\ CodeInv'
    BY <2>1
  <2>7. QED
    BY <2>4, <2>5, <2>6
<1>3. CASE UNCHANGED vars
  BY <1>3 DEF vars
<1>4. CASE PressEnter
  BY <1>4 DEF PressEnter
<1>5. QED
  BY <1>1, <1>2, <1>3, <1>4

LEMMA IInvHolds == Spec => []IInv
<1>1. IInv /\ [Next]_vars => IInv'
  BY LauncherKeeps, ChildKeeps, OthersKeep DEF Next
<1>2. QED
  BY <1>1, InitHolds, PTL DEF Spec

\* The type invariant, with the life of the event: it exists as long as the
\* launcher attends to the child or the child is looking at it.
THEOREM RelayTypeCorrect == Spec => []TypeOK
<1>1. IInv => TypeOK
  BY DEF IInv
<1>2. QED
  BY <1>1, IInvHolds, PTL

\* The launcher of a wizard run never reports before its elevated child has
\* exited, "ok" only when the worker succeeded, and "aborted" while a worker is
\* at work only after a Stop that failed.
THEOREM LauncherStaysAttached == Spec => []ReportIsTheChilds
<1>1. IInv => ReportIsTheChilds
  BY DEF IInv, EndsInv, CodeInv, ReportIsTheChilds
<1>2. QED
  BY <1>1, IInvHolds, PTL

\* No child of a UAC handoff ends as aborted unless one of the consoles asked.
THEOREM AbortsAreAsked == Spec => []NoAbortUnasked
<1>1. IInv => NoAbortUnasked
  BY DEF IInv, RequestInv, CodeInv, NoAbortUnasked
<1>2. QED
  BY <1>1, IInvHolds, PTL
===============================================================================
