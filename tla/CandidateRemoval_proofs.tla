----------------------- MODULE CandidateRemoval_proofs -----------------------
(* Theorems about CandidateRemoval, for every forest of entries and every  *)
(* set of worlds: types, and that the removal keeps the promises of        *)
(* TreeDeletion.                                                           *)
EXTENDS CandidateRemoval, SequenceTheorems, TLAPS

\* No world lets a link come up at the path of a candidate.
LinksStayAway ==
  \A w \in Worlds : Kind[w.root] = "link" => "appear" \notin w.faults

\* The same of the world a behaviour is in.
NoLinkAppears == Kind[Root] = "link" => "appear" \notin Faults

-----------------------------------------------------------------------------
(* Sequences used as stacks.                                               *)

LEMMA PrefixOf ==
  ASSUME NEW S, NEW s \in Seq(S), NEW m \in Nat, \A i \in 1..m : s[i] \in S
  PROVE  /\ SubSeq(s, 1, m) \in Seq(S)
         /\ Len(SubSeq(s, 1, m)) = m
         /\ \A i \in 1..m : SubSeq(s, 1, m)[i] = s[i]
<1>1. 1 \in Int /\ m \in Int
  OBVIOUS
<1>2. QED
  BY <1>1, SubSeqProperties, Z3

LEMMA StackTop ==
  ASSUME NEW S, NEW s \in Seq(S), s # <<>>
  PROVE  /\ Len(s) \in Nat \ {0}
         /\ Last(s) \in S
         /\ Front(s) \in Seq(S)
         /\ Len(Front(s)) = Len(s) - 1
         /\ \A i \in 1..Len(s) - 1 : Front(s)[i] = s[i]
<1>1. Len(s) \in Nat \ {0} /\ s[Len(s)] \in S
  OBVIOUS
<1>2. Len(s) - 1 \in Nat /\ \A i \in 1..Len(s) - 1 : s[i] \in S
  BY <1>1
<1>3. QED
  BY <1>1, <1>2, PrefixOf, ZenonT(30) DEF Last, Front

LEMMA StackPush ==
  ASSUME NEW S, NEW s \in Seq(S), NEW x \in S
  PROVE  /\ Append(s, x) \in Seq(S)
         /\ Len(Append(s, x)) = Len(s) + 1
         /\ Append(s, x)[Len(s) + 1] = x
         /\ \A i \in 1..Len(s) : Append(s, x)[i] = s[i]
OBVIOUS

LEMMA EmptyStack ==
  ASSUME NEW S
  PROVE  <<>> \in Seq(S)
OBVIOUS

LEMMA SeqOfMore ==
  ASSUME NEW S, NEW T, S \subseteq T, NEW s \in Seq(S)
  PROVE  s \in Seq(T)
OBVIOUS

-----------------------------------------------------------------------------
(* The forest.                                                             *)

\* What lies in a directory of a candidate belongs to that candidate.
LEMMA ListingStaysInside ==
  ASSUME NEW r \in Roots, NEW d \in TreeOf[r], Kind[d] # "link"
  PROVE  Children[d] \subseteq TreeOf[r]
<1>1. SUFFICES ASSUME NEW n \in Entries \ Roots, Parent[n] = d
               PROVE  n \in TreeOf[r]
  BY TreeAssumption DEF Children, Entries, TreeOf
<1>2. d \in Tree /\ (d = r \/ r \in Ancestors[d])
  BY DEF TreeOf
<1>3. n \in Tree
  BY <1>1, <1>2, TreeAssumption DEF Entries
<1>4. r \in Ancestors[n]
  BY <1>1, <1>2, TreeAssumption DEF Entries
<1>5. QED
  BY <1>3, <1>4 DEF TreeOf

LEMMA RootInTree ==
  ASSUME NEW r \in Roots
  PROVE  r \in TreeOf[r] /\ TreeOf[r] \subseteq Tree /\ TreeOf[r] \subseteq Entries
BY TreeAssumption DEF TreeOf, Entries

-----------------------------------------------------------------------------
(* Types.                                                                  *)

FramesOf(r) == [dir : {d \in TreeOf[r] : Kind[d] = "dir"}, open : BOOLEAN,
                todo : SUBSET TreeOf[r], before : SUBSET Failures]
WorksOf(r) == {"expand", "emit"} \X TreeOf[r]

\* The type invariant in parts, with what it takes to be inductive: only real
\* directories have frames, everything met belongs to the candidate, and what
\* is going to be listed is no link, or gone for good.
GivenTyped == given \in Given /\ Root \in Roots

DiskTyped ==
  /\ present \subseteq Entries
  /\ hold \in [TreeOf[Root] -> AllHolds]

CallTyped ==
  /\ pass \in 1..2
  /\ stack \in Seq(FramesOf(Root))
  /\ failures \subseteq Failures

ExpandsNoLink ==
  \A i \in 1..Len(work) :
    work[i][1] = "expand" =>
      \/ Kind[work[i][2]] # "link"
      \/ work[i][2] \notin present /\ "appear" \notin Faults

WalkTyped ==
  /\ queue \in Seq(Tree)
  /\ work \in Seq(WorksOf(Root))
  /\ listed \subseteq TreeOf[Root]
  /\ ExpandsNoLink

SayTyped ==
  /\ pc \in Places
  /\ verdict \in {"none", "skipped", "dryRun", "removed", "expected", "problem"}
  /\ status \in {"none", "SKIP", "DRYRUN", "INFO", "WARN"}
  /\ row \in {"none", "gone", "error", "dryRun", "scheduled", "skipped",
              "failed", "noAction", "stillPresent"}

FlagsTyped == abort \in BOOLEAN /\ aborted \in BOOLEAN

TypeInv == GivenTyped /\ DiskTyped /\ CallTyped /\ WalkTyped /\ SayTyped /\ FlagsTyped

LEMMA PartsMakeTypeOK == TypeInv => TypeOK
<1>1. SUFFICES ASSUME TypeInv PROVE TypeOK
  OBVIOUS
<1>2. Root \in Roots
  BY <1>1 DEF TypeInv, GivenTyped
<1>3. FramesOf(Root) \subseteq Frames
  BY <1>2, RootInTree DEF FramesOf, Frames, Failures
<1>4. WorksOf(Root) \subseteq Works /\ TreeOf[Root] \subseteq Tree
  BY <1>2, RootInTree DEF WorksOf, Works
<1>5. stack \in Seq(Frames) /\ work \in Seq(Works)
  BY <1>1, <1>3, <1>4, SeqOfMore DEF TypeInv, CallTyped, WalkTyped
<1>6. abort \in BOOLEAN /\ aborted \in BOOLEAN
  BY <1>1 DEF TypeInv, FlagsTyped
<1>7. QED
  BY <1>1, <1>4, <1>5, <1>6, Zenon
     DEF TypeInv, GivenTyped, DiskTyped, CallTyped, WalkTyped, SayTyped, TypeOK

LEMMA InitTyped == Init => TypeInv
<1>1. SUFFICES ASSUME Init PROVE TypeInv
  OBVIOUS
<1>2. given.world \in AWorld /\ GivenTyped
  BY <1>1, RemovalAssumption DEF Init, Given, Root, AWorld, GivenTyped
<1>3. given.world.holds \subseteq AllHolds
  BY <1>2 DEF AWorld
<1>4. DiskTyped
  BY <1>1, <1>2, <1>3, RootInTree DEF Init, DiskTyped, GivenTyped, Entries
<1>5. CallTyped /\ WalkTyped /\ SayTyped
  <2>1. /\ queue = <<>> /\ pc = "probe" /\ pass = 1 /\ stack = <<>>
        /\ failures = {} /\ verdict = "none" /\ status = "none"
        /\ work = <<>> /\ listed = {} /\ row = "none"
    BY <1>1 DEF Init
  <2>2. CallTyped
    <3>1. pass \in 1..2 /\ failures \subseteq Failures
      BY <2>1
    <3>2. QED
      BY <2>1, <3>1, EmptyStack, Zenon DEF CallTyped
  <2>3. WalkTyped
    <3>1. ExpandsNoLink /\ listed \subseteq TreeOf[Root]
      BY <2>1 DEF ExpandsNoLink
    <3>2. QED
      BY <2>1, <3>1, EmptyStack, Zenon DEF WalkTyped
  <2>4. SayTyped
    BY <2>1, Zenon DEF SayTyped, Places
  <2>5. QED
    BY <2>2, <2>3, <2>4
<1>6. FlagsTyped
  BY <1>1, Zenon DEF Init, FlagsTyped
<1>7. QED
  BY <1>2, <1>4, <1>5, <1>6 DEF TypeInv

\* What a behaviour starts with stays.
LEMMA GivenStays ==
  ASSUME [Next]_vars
  PROVE  given' = given /\ Root' = Root /\ Faults' = Faults
<1>1. given' = given
  <2>1. CASE UNCHANGED vars
    BY <2>1 DEF vars
  <2>2. CASE \/ ProbeAborts \/ Probe \/ CheckSafe \/ TakeOwnership \/ Dispatch
             \/ BeginPass \/ OpenDir \/ TakeEntry \/ LeaveDir \/ PassEnds
    BY <2>2, Zenon DEF ProbeAborts, Probe, CheckSafe, TakeOwnership, Dispatch, BeginPass,
       OpenDir, TakeEntry, LeaveDir, PassEnds, InFrame, Settle
  <2>3. CASE \/ DeleteFile \/ RetryFile \/ Explain \/ WalkRoot \/ WalkExpand
             \/ WalkEntry \/ WalkEmit \/ WalkEnds \/ Verify
    BY <2>3, Zenon DEF DeleteFile, RetryFile, Explain, WalkRoot, WalkExpand, WalkEntry,
       WalkEmit, WalkEnds, Verify
  <2>4. CASE AtRestart \/ Others \/ CtrlC \/ AllDone
    BY <2>4, Zenon DEF AtRestart, PowerOff, RestartDeletes, Restarted, Others, CtrlC,
       AllDone, vars
  <2>5. QED
    BY <2>1, <2>2, <2>3, <2>4, Zenon DEF Next, Removal
<1>2. QED
  BY <1>1 DEF Root, Faults

-----------------------------------------------------------------------------
(* The disk.                                                               *)

\* Which entries a step may take away or bring.
LEMMA PresentChanges ==
  ASSUME [Next]_vars
  PROVE  \/ present' \subseteq present
         \/ "appear" \in Faults /\ \E n \in TreeOf[Root] : present' = present \cup {n}
<1>1. CASE UNCHANGED vars
  BY <1>1 DEF vars, diskVars
<1>2. CASE ProbeAborts \/ Probe \/ CheckSafe \/ TakeOwnership \/ Dispatch \/ OpenDir
           \/ PassEnds \/ Explain \/ WalkRoot \/ WalkExpand \/ WalkEntry
           \/ WalkEmit \/ WalkEnds \/ Verify \/ PowerOff \/ Restarted \/ CtrlC
           \/ AllDone
  <2>1. present' = present
    BY <1>2, Zenon DEF ProbeAborts, Probe, CheckSafe, TakeOwnership, Dispatch,
       OpenDir, PassEnds, Explain, WalkRoot, WalkExpand, WalkEntry, WalkEmit,
       WalkEnds, Verify, PowerOff, Restarted, CtrlC, AllDone, Settle, diskVars,
       InFrame, vars
  <2>2. QED
    BY <2>1
<1>3. CASE BeginPass \/ TakeEntry
  BY <1>3 DEF BeginPass, TakeEntry, CallFor, RemoveCall
<1>4. CASE LeaveDir \/ RestartDeletes
  BY <1>4 DEF LeaveDir, RestartDeletes
<1>7. CASE DeleteFile \/ RetryFile
  <2>1. present' = present \/ present' = present \ {Root}
    BY <1>7, Zenon DEF DeleteFile, RetryFile, FileGone, FileStays
  <2>2. QED
    BY <2>1
<1>5. CASE Others
  BY <1>5 DEF Others, Vanish, Appear, Close, Open
<1>6. QED
  BY <1>1, <1>2, <1>3, <1>4, <1>5, <1>7 DEF Next, Removal, AtRestart

\* The disk is typed whatever a step does to it.
LEMMA DiskStep ==
  ASSUME GivenTyped, DiskTyped, [Next]_vars
  PROVE  DiskTyped'
<1>1. TreeOf[Root] \subseteq Entries
  BY RootInTree DEF GivenTyped
<1>2. present' \subseteq Entries
  BY <1>1, PresentChanges DEF DiskTyped
<1>3. Root' = Root
  BY GivenStays
<1>4. hold' \in [TreeOf[Root] -> AllHolds]
  <2> USE DEF DiskTyped
  <2>1. CASE hold' = hold
    BY <2>1
  <2>2. CASE \E reason, ns : hold' = Cleared(reason, ns)
    BY <2>2 DEF Cleared, AllHolds
  <2>3. CASE \E n, h : h \in AllHolds /\ hold' = [hold EXCEPT ![n] = h]
    BY <2>3
  <2>4. CASE PowerOff
    BY <2>4 DEF PowerOff, AllHolds
  <2>5. \/ hold' = hold
        \/ \E reason, ns : hold' = Cleared(reason, ns)
        \/ \E n, h : h \in AllHolds /\ hold' = [hold EXCEPT ![n] = h]
        \/ PowerOff
    <3>1. CASE UNCHANGED vars
      BY <3>1 DEF vars, diskVars
    <3>2. CASE TakeOwnership \/ PassEnds \/ RetryFile
      BY <3>2, Zenon DEF TakeOwnership, PassEnds, RetryFile, AttrsCleared, Settle,
         diskVars
    <3>3. CASE Others
      BY <3>3 DEF Others, Vanish, Appear, Close, Open, AllHolds
    <3>4. CASE \/ ProbeAborts \/ Probe \/ CheckSafe \/ Dispatch \/ BeginPass
               \/ OpenDir \/ TakeEntry \/ LeaveDir \/ DeleteFile \/ Explain
               \/ WalkRoot \/ WalkExpand \/ WalkEntry \/ WalkEmit \/ WalkEnds
               \/ Verify \/ RestartDeletes \/ Restarted \/ CtrlC \/ AllDone
      <4>1. hold' = hold
        BY <3>4, Zenon DEF ProbeAborts, Probe, CheckSafe, Dispatch, BeginPass,
           OpenDir, TakeEntry, LeaveDir, DeleteFile, Explain, WalkRoot,
           WalkExpand, WalkEntry, WalkEmit, WalkEnds, Verify, RestartDeletes,
           Restarted, CtrlC, AllDone, Settle, InFrame, diskVars, vars
      <4>2. QED
        BY <4>1
    <3>5. QED
      BY <3>1, <3>2, <3>3, <3>4 DEF Next, Removal, AtRestart
  <2>6. QED
    BY <2>1, <2>2, <2>3, <2>4, <2>5
<1>5. QED
  BY <1>2, <1>3, <1>4 DEF DiskTyped

-----------------------------------------------------------------------------
(* The calls of remove_tree_best_effort.                                   *)

\* A recorded failure is an entry of the candidate.
LEMMA FailTyped ==
  ASSUME NEW n \in Tree, NEW lock \in BOOLEAN, failures \subseteq Failures,
         Fail(n, lock)
  PROVE  failures' \subseteq Failures
BY DEF Fail, Failures

\* The call for an entry of the candidate leaves the frames typed.
LEMMA CallForTyped ==
  ASSUME NEW r \in Roots, NEW n \in TreeOf[r], NEW frames \in Seq(FramesOf(r)),
         failures \subseteq Failures, CallFor(n, frames)
  PROVE  stack' \in Seq(FramesOf(r)) /\ failures' \subseteq Failures
<1>1. n \in Tree
  BY RootInTree
<1>2. CASE n \in present /\ Descends(n) /\ UNCHANGED <<present, failures>>
           /\ stack' = Append(frames, [dir |-> n, open |-> FALSE, todo |-> {},
                                       before |-> failures])
  <2>1. [dir |-> n, open |-> FALSE, todo |-> {}, before |-> failures]
          \in FramesOf(r)
    BY <1>2 DEF FramesOf, Descends
  <2>2. QED
    BY <1>2, <2>1, StackPush
<1>3. CASE stack' = frames
           /\ (UNCHANGED failures \/ \E lock \in BOOLEAN : Fail(n, lock))
  BY <1>1, <1>3, FailTyped
<1>4. QED
  BY <1>2, <1>3 DEF CallFor, RemoveCall

\* The calls in progress are typed whatever a step does to them.
LEMMA CallStep ==
  ASSUME GivenTyped, CallTyped, [Next]_vars
  PROVE  CallTyped'
<1>1. Root' = Root /\ Root \in Roots
  BY GivenStays DEF GivenTyped
<1>2. Root \in TreeOf[Root] /\ TreeOf[Root] \subseteq Tree
  BY <1>1, RootInTree
<1>3. SUFFICES /\ pass' \in 1..2
               /\ stack' \in Seq(FramesOf(Root))
               /\ failures' \subseteq Failures
  BY <1>1 DEF CallTyped
<1> USE DEF CallTyped
<1>4. CASE UNCHANGED callVars
  BY <1>4 DEF callVars
<1>5. CASE BeginPass
  <2>1. <<>> \in Seq(FramesOf(Root))
    BY EmptyStack
  <2>2. CallFor(Root, <<>>) /\ UNCHANGED pass
    BY <1>5 DEF BeginPass
  <2>3. QED
    BY <1>1, <1>2, <2>1, <2>2, CallForTyped
<1>6. CASE OpenDir \/ TakeEntry \/ LeaveDir
  <2> DEFINE top == Last(stack)
             under == Front(stack)
  <2>1. stack # <<>> /\ UNCHANGED pass
    BY <1>6, Zenon DEF OpenDir, TakeEntry, LeaveDir, InFrame
  <2>2. top \in FramesOf(Root) /\ under \in Seq(FramesOf(Root))
    BY <2>1, StackTop
  <2>3. /\ top.dir \in TreeOf[Root] /\ Kind[top.dir] = "dir"
        /\ top.open \in BOOLEAN /\ top.todo \subseteq TreeOf[Root]
        /\ top.before \subseteq Failures
    BY <2>2 DEF FramesOf
  <2>4. CASE OpenDir
    <3>1. Children[top.dir] \cap present \subseteq TreeOf[Root]
      BY <1>1, <2>3, ListingStaysInside
    <3>2. [top EXCEPT !.open = TRUE, !.todo = Children[top.dir] \cap present]
            \in FramesOf(Root)
      BY <2>2, <3>1 DEF FramesOf
    <3>3. CASE /\ stack' = Append(under, [top EXCEPT !.open = TRUE,
                                   !.todo = Children[top.dir] \cap present])
               /\ UNCHANGED failures
      BY <2>1, <2>2, <3>2, <3>3, StackPush
    <3>4. CASE Fail(top.dir, FALSE) /\ stack' = under
      BY <1>2, <2>1, <2>2, <2>3, <3>4, FailTyped
    <3>5. QED
      BY <2>4, <3>3, <3>4, Zenon DEF OpenDir
  <2>5. CASE TakeEntry
    <3>1. PICK n \in top.todo :
            LET rest == Append(under, [top EXCEPT !.todo = @ \ {n}])
            IN  \/ Kind[n] = "file" /\ RemoveCall(n) /\ stack' = rest
                \/ Kind[n] # "file" /\ CallFor(n, rest)
      BY <2>5, Zenon DEF TakeEntry
    <3> DEFINE rest == Append(under, [top EXCEPT !.todo = @ \ {n}])
    <3>2. n \in TreeOf[Root] /\ n \in Tree
      BY <1>2, <2>3
    <3>3. [top EXCEPT !.todo = @ \ {n}] \in FramesOf(Root)
      BY <2>2 DEF FramesOf
    <3>4. rest \in Seq(FramesOf(Root))
      BY <2>2, <3>3, StackPush
    <3>5. CASE RemoveCall(n) /\ stack' = rest
      BY <2>1, <3>2, <3>4, <3>5, FailTyped DEF RemoveCall
    <3>6. CASE CallFor(n, rest)
      <4> HIDE DEF rest
      <4>1. QED
        BY <1>1, <2>1, <3>2, <3>4, <3>6, CallForTyped
    <3>7. QED
      BY <3>1, <3>5, <3>6
  <2>6. CASE LeaveDir
    <3>1. stack' = under
      BY <2>6, Zenon DEF LeaveDir
    <3>2. UNCHANGED failures \/ \E lock \in BOOLEAN : Fail(top.dir, lock)
      BY <2>6, Zenon DEF LeaveDir
    <3>3. QED
      BY <1>2, <2>1, <2>2, <2>3, <3>1, <3>2, FailTyped
  <2>7. QED
    BY <1>6, <2>4, <2>5, <2>6
<1>7. CASE PassEnds
  <2>1. UNCHANGED callVars \/ (failures' = {} /\ pass' = 2 /\ stack' = stack)
    BY <1>7, Zenon DEF PassEnds, Settle, callVars
  <2>2. QED
    BY <2>1 DEF callVars
<1>8. CASE DeleteFile \/ RetryFile
  <2>1. UNCHANGED <<pass, stack>>
    BY <1>8, Zenon DEF DeleteFile, RetryFile
  <2>2. \/ UNCHANGED failures
        \/ \E lock \in BOOLEAN : failures' = {<<Root, lock>>}
    BY <1>8, Zenon DEF DeleteFile, RetryFile, FileGone, FileStays
  <2>3. QED
    BY <1>2, <2>1, <2>2 DEF Failures
<1>9. \/ UNCHANGED callVars \/ BeginPass \/ OpenDir \/ TakeEntry \/ LeaveDir
      \/ PassEnds \/ DeleteFile \/ RetryFile
  <2>1. CASE \/ ProbeAborts \/ Probe \/ CheckSafe \/ TakeOwnership \/ Dispatch
             \/ Explain \/ WalkRoot \/ WalkExpand \/ WalkEntry \/ WalkEmit
             \/ WalkEnds \/ Verify \/ PowerOff \/ RestartDeletes \/ Restarted
             \/ Others \/ CtrlC \/ AllDone
    BY <2>1, Zenon DEF ProbeAborts, Probe, CheckSafe, TakeOwnership, Dispatch,
       Explain, WalkRoot, WalkExpand, WalkEntry, WalkEmit, WalkEnds, Verify,
       PowerOff, RestartDeletes, Restarted, Others, CtrlC, AllDone, Settle, vars
  <2>2. CASE UNCHANGED vars
    BY <2>2 DEF vars
  <2>3. QED
    BY <2>1, <2>2, Zenon DEF Next, Removal, AtRestart
<1>10. QED
  BY <1>4, <1>5, <1>6, <1>7, <1>8, <1>9

-----------------------------------------------------------------------------
(* The walk that queues what is left.                                      *)

\* What an action of the walk does to the queue.
LEMMA VisitTyped ==
  ASSUME NEW n \in Tree, NEW next, queue \in Seq(Tree), Visit(n, next)
  PROVE  queue' \in Seq(Tree)
BY StackPush DEF Visit

\* The walk is typed whatever a step does to it, as long as no link appears at
\* the candidate's path: a missing root is expanded like a directory.
LEMMA WalkStep ==
  ASSUME NoLinkAppears, GivenTyped, WalkTyped, [Next]_vars
  PROVE  WalkTyped'
<1>1. Root' = Root /\ Faults' = Faults /\ Root \in Roots
  BY GivenStays DEF GivenTyped
<1>2. Root \in TreeOf[Root] /\ TreeOf[Root] \subseteq Tree
  BY <1>1, RootInTree
<1>3. \A n : n \notin present /\ "appear" \notin Faults => n \notin present'
  BY PresentChanges
<1>4. Kind[Root] = "link" => "appear" \notin Faults
  BY DEF NoLinkAppears
<1> DEFINE Safe(e) == e[1] = "expand" => \/ Kind[e[2]] # "link"
                                         \/ /\ e[2] \notin present
                                            /\ "appear" \notin Faults
           SafeNext(e) == e[1] = "expand" => \/ Kind[e[2]] # "link"
                                             \/ /\ e[2] \notin present'
                                                /\ "appear" \notin Faults
<1>5. \A e : Safe(e) => SafeNext(e)
  BY <1>3
<1>6. \A i \in 1..Len(work) : SafeNext(work[i])
  BY <1>5 DEF WalkTyped, ExpandsNoLink
<1>7. SUFFICES /\ queue' \in Seq(Tree)
               /\ work' \in Seq(WorksOf(Root))
               /\ listed' \subseteq TreeOf[Root]
               /\ \A i \in 1..Len(work') : SafeNext(work'[i])
  BY <1>1 DEF WalkTyped, ExpandsNoLink
<1> HIDE DEF SafeNext
<1>8. CASE UNCHANGED <<queue, work, listed>>
  BY <1>6, <1>8 DEF WalkTyped
<1>9. CASE WalkRoot
  <2>1. UNCHANGED listed
    BY <1>9 DEF WalkRoot
  <2>2. CASE /\ queue' = queue /\ work' = <<<<"expand", Root>>>>
             /\ Kind[Root] # "link" \/ Root \notin present
    <3>1. <<"expand", Root>> \in WorksOf(Root)
      BY <1>2 DEF WorksOf
    <3>2. SafeNext(<<"expand", Root>>)
      BY <1>3, <1>4, <2>2 DEF SafeNext
    <3>3. work' \in Seq(WorksOf(Root))
      BY <2>2, <3>1
    <3>4. \A i \in 1..Len(work') : work'[i] = <<"expand", Root>>
      BY <2>2
    <3>5. QED
      BY <2>1, <2>2, <3>2, <3>3, <3>4 DEF WalkTyped
  <2>3. CASE Visit(Root, "verify") /\ UNCHANGED work
    BY <1>2, <1>6, <2>1, <2>3, VisitTyped DEF WalkTyped
  <2>4. QED
    BY <1>9, <2>2, <2>3 DEF WalkRoot, KindProbes
<1>10. CASE WalkExpand \/ WalkEmit
  <2>1. work # <<>>
    BY <1>10 DEF WalkExpand, WalkEmit
  <2>2. /\ Last(work) \in WorksOf(Root) /\ Front(work) \in Seq(WorksOf(Root))
        /\ Len(Front(work)) = Len(work) - 1 /\ Len(work) \in Nat \ {0}
        /\ \A i \in 1..Len(work) - 1 : Front(work)[i] = work[i]
    BY <2>1, StackTop DEF WalkTyped
  <2>3. \A i \in 1..Len(Front(work)) : SafeNext(Front(work)[i])
    BY <1>6, <2>2
  <2>4. Last(work)[2] \in TreeOf[Root]
    BY <2>2 DEF WorksOf
  <2>5. CASE WalkExpand
    <3> DEFINE d == Last(work)[2]
    <3>1. <<"emit", d>> \in WorksOf(Root) /\ SafeNext(<<"emit", d>>)
      BY <2>4 DEF WorksOf, SafeNext
    <3>2. work' = Append(Front(work), <<"emit", d>>) /\ UNCHANGED queue
      BY <2>5 DEF WalkExpand
    <3>3. work' \in Seq(WorksOf(Root))
      BY <2>2, <3>1, <3>2, StackPush
    <3>4. \A i \in 1..Len(work') : SafeNext(work'[i])
      BY <2>2, <2>3, <3>1, <3>2, StackPush
    <3>5. listed' \subseteq TreeOf[Root]
      <4>1. CASE listed' = {}
        BY <4>1
      <4>2. CASE listed' = Children[d] \cap present /\ d \in present
        <5>1. Kind[d] # "link"
          <6>1. Len(work) \in 1..Len(work) /\ work[Len(work)] = Last(work)
            BY <2>2 DEF Last
          <6>2. work[Len(work)][1] = "expand"
            BY <2>5, <6>1 DEF WalkExpand
          <6>3. QED
            BY <4>2, <6>1, <6>2 DEF WalkTyped, ExpandsNoLink
        <5>2. QED
          BY <1>1, <2>4, <4>2, <5>1, ListingStaysInside
      <4>3. QED
        BY <2>5, <4>1, <4>2 DEF WalkExpand
    <3>6. QED
      BY <3>2, <3>3, <3>4, <3>5 DEF WalkTyped
  <2>6. CASE WalkEmit
    <3>1. Visit(Last(work)[2], "walking") /\ work' = Front(work) /\ UNCHANGED listed
      BY <2>6 DEF WalkEmit
    <3>2. queue' \in Seq(Tree)
      BY <1>2, <2>4, <3>1, VisitTyped DEF WalkTyped
    <3>3. QED
      BY <2>2, <2>3, <3>1, <3>2 DEF WalkTyped
  <2>7. QED
    BY <1>10, <2>5, <2>6
<1>11. CASE WalkEntry
  <2>1. PICK n \in listed :
          /\ listed' = listed \ {n}
          /\ \/ Kind[n] = "dir" /\ work' = Pushed(n) /\ UNCHANGED queue
             \/ Visit(n, "walking") /\ UNCHANGED work
    BY <1>11, Zenon DEF WalkEntry
  <2>2. n \in TreeOf[Root] /\ n \in Tree
    BY <1>2, <2>1 DEF WalkTyped
  <2>3. CASE Kind[n] = "dir" /\ work' = Pushed(n) /\ UNCHANGED queue
    <3>1. <<"expand", n>> \in WorksOf(Root) /\ SafeNext(<<"expand", n>>)
      BY <2>2, <2>3 DEF WorksOf, SafeNext
    <3>2. work' \in Seq(WorksOf(Root))
      BY <2>3, <3>1, StackPush DEF Pushed, WalkTyped
    <3>3. \A i \in 1..Len(work') : SafeNext(work'[i])
      BY <1>6, <2>3, <3>1, StackPush DEF Pushed, WalkTyped
    <3>4. QED
      BY <2>1, <2>3, <3>2, <3>3 DEF WalkTyped
  <2>4. CASE Visit(n, "walking") /\ UNCHANGED work
    BY <1>6, <2>1, <2>2, <2>4, VisitTyped DEF WalkTyped
  <2>5. QED
    BY <2>1, <2>3, <2>4
<1>12. CASE RestartDeletes
  <2>1. queue # <<>> /\ queue' = Tail(queue) /\ UNCHANGED <<work, listed>>
    BY <1>12, Zenon DEF RestartDeletes, walkVars
  <2>2. queue' \in Seq(Tree)
    BY <2>1 DEF WalkTyped
  <2>3. QED
    BY <1>6, <2>1, <2>2 DEF WalkTyped
<1>13. \/ UNCHANGED <<queue, work, listed>>
       \/ WalkRoot \/ WalkExpand \/ WalkEntry \/ WalkEmit \/ RestartDeletes
  <2>1. CASE \/ ProbeAborts \/ Probe \/ CheckSafe \/ TakeOwnership \/ Dispatch
             \/ BeginPass \/ OpenDir \/ TakeEntry \/ LeaveDir \/ PassEnds
             \/ DeleteFile \/ RetryFile \/ Explain \/ WalkEnds \/ Verify
             \/ PowerOff \/ Restarted \/ Others \/ CtrlC \/ AllDone
    BY <2>1, Zenon DEF ProbeAborts, Probe, CheckSafe, TakeOwnership, Dispatch,
       BeginPass, OpenDir, TakeEntry, LeaveDir, PassEnds, DeleteFile, RetryFile,
       Explain, WalkEnds, Verify, PowerOff, Restarted, Others, CtrlC, AllDone,
       Settle, InFrame, walkVars, vars
  <2>2. CASE UNCHANGED vars
    BY <2>2 DEF vars, walkVars
  <2>3. QED
    BY <2>1, <2>2, Zenon DEF Next, Removal, AtRestart
<1>14. QED
  BY <1>8, <1>9, <1>10, <1>11, <1>12, <1>13

-----------------------------------------------------------------------------
(* What is said, and the flags.                                            *)

LEMMA SayStep ==
  ASSUME SayTyped, [Next]_vars
  PROVE  SayTyped'
<1> USE DEF SayTyped
<1>1. CASE ProbeAborts \/ Probe \/ CheckSafe
  BY <1>1, Zenon DEF ProbeAborts, Probe, CheckSafe, Settle, Goto, sayVars, Places
<1>2. CASE TakeOwnership \/ Dispatch \/ BeginPass \/ OpenDir \/ TakeEntry \/ LeaveDir
  BY <1>2, Zenon DEF TakeOwnership, Dispatch, BeginPass, OpenDir, TakeEntry,
     LeaveDir, InFrame, Goto, sayVars, Places
<1>3. CASE PassEnds \/ DeleteFile \/ RetryFile \/ Explain
  BY <1>3, Zenon DEF PassEnds, DeleteFile, RetryFile, Explain, FileGone, FileStays,
     Settle, Goto, sayVars, Places
<1>4. CASE WalkRoot \/ WalkExpand \/ WalkEntry \/ WalkEmit \/ WalkEnds
  BY <1>4, Zenon DEF WalkRoot, WalkExpand, WalkEntry, WalkEmit, WalkEnds, Visit,
     StatusAfter, Goto, sayVars, Places
<1>5. CASE Verify
  <2>1. VerifyOutcome(Root \in Queued) \in {"dryRun", "scheduled", "skipped",
                                "failed", "noAction", "stillPresent"}
    BY Zenon DEF VerifyOutcome
  <2>2. row' \in {"gone", "error"} \/ row' = VerifyOutcome(Root \in Queued)
    BY <1>5, Zenon DEF Verify
  <2>3. pc' \in Places /\ UNCHANGED <<verdict, status>>
    BY <1>5, Zenon DEF Verify, Goto, Places
  <2>4. QED
    BY <2>1, <2>2, <2>3, Zenon
<1>6. CASE AtRestart \/ Others \/ CtrlC \/ AllDone \/ UNCHANGED vars
  BY <1>6, Zenon DEF AtRestart, PowerOff, RestartDeletes, Restarted, Others, CtrlC,
     AllDone, vars, Goto, sayVars, Places
<1>7. QED
  BY <1>1, <1>2, <1>3, <1>4, <1>5, <1>6, Zenon DEF Next, Removal

LEMMA FlagsStep ==
  ASSUME FlagsTyped, [Next]_vars
  PROVE  FlagsTyped'
<1> USE DEF FlagsTyped
<1>1. CASE ProbeAborts \/ Probe \/ CheckSafe
  BY <1>1, Zenon DEF ProbeAborts, Probe, CheckSafe, Settle, sayVars
<1>2. CASE TakeOwnership \/ Dispatch \/ BeginPass \/ OpenDir \/ TakeEntry \/ LeaveDir
  BY <1>2, Zenon DEF TakeOwnership, Dispatch, BeginPass, OpenDir, TakeEntry,
     LeaveDir, InFrame, sayVars
<1>3. CASE PassEnds \/ DeleteFile \/ RetryFile \/ Explain
  BY <1>3, Zenon DEF PassEnds, DeleteFile, RetryFile, Explain, Settle, sayVars
<1>4. CASE WalkRoot \/ WalkExpand \/ WalkEntry \/ WalkEmit \/ WalkEnds \/ Verify
  BY <1>4, Zenon DEF WalkRoot, WalkExpand, WalkEntry, WalkEmit, WalkEnds, Verify,
     Visit, sayVars
<1>5. CASE AtRestart \/ Others \/ CtrlC \/ AllDone \/ UNCHANGED vars
  BY <1>5, Zenon DEF AtRestart, PowerOff, RestartDeletes, Restarted, Others, CtrlC,
     AllDone, vars, sayVars
<1>6. QED
  BY <1>1, <1>2, <1>3, <1>4, <1>5, Zenon DEF Next, Removal

LEMMA TypeStep ==
  ASSUME NoLinkAppears, TypeInv, [Next]_vars
  PROVE  TypeInv'
<1>1. GivenTyped'
  BY GivenStays DEF TypeInv, GivenTyped, Given
<1>2. QED
  BY <1>1, DiskStep, CallStep, WalkStep, SayStep, FlagsStep, Zenon DEF TypeInv

LEMMA TypeHolds ==
  ASSUME LinksStayAway
  PROVE  Spec => []TypeInv
<1>1. TypeInv => NoLinkAppears
  BY DEF LinksStayAway, NoLinkAppears, TypeInv, GivenTyped, Given, Root, Faults
<1>2. TypeInv /\ [Next]_vars => TypeInv'
  BY <1>1, TypeStep
<1>3. QED
  BY InitTyped, <1>2, PTL DEF Spec

\* Every variable keeps its type, for every forest and every set of worlds in
\* which no link comes up at a candidate's path: what is listed and what is
\* queued belongs to the candidate.
THEOREM TypeCorrect ==
  ASSUME LinksStayAway
  PROVE  Spec => []TypeOK
BY TypeHolds, PartsMakeTypeOK, PTL

-----------------------------------------------------------------------------
(* The order of the queue.                                                 *)

\* a is b or lies above it.
AtOrAbove(a, b) == a = b \/ a \in Ancestors[b]

\* Nothing in the queue q is above what the frames w and the rest l of a
\* listing are still to visit, and nothing at or below what is still to be
\* listed is in the queue.
QueueBehind(q, w, l) ==
  /\ \A k \in 1..Len(q), i \in 1..Len(w) :
       /\ q[k] \notin Ancestors[w[i][2]]
       /\ w[i][1] = "expand" => ~AtOrAbove(w[i][2], q[k])
  /\ \A k \in 1..Len(q), n \in l : q[k] \notin Ancestors[n] /\ ~AtOrAbove(n, q[k])

\* No frame is above one under it on the stack, nor above any if it is still
\* to be listed; the entries of the listing are like a frame on top.
FramesInOrder(w, l) ==
  /\ \A i, j \in 1..Len(w) :
       i < j => /\ ~AtOrAbove(w[j][2], w[i][2])
                /\ w[i][1] = "expand" => w[i][2] \notin Ancestors[w[j][2]]
  /\ \A i \in 1..Len(w), n \in l :
       /\ ~AtOrAbove(n, w[i][2])
       /\ w[i][1] = "expand" => w[i][2] \notin Ancestors[n]
  /\ \A m, n \in l : m \notin Ancestors[n]

WalkInv ==
  /\ pc = "walking" => QueueBehind(queue, work, listed) /\ FramesInOrder(work, listed)
  /\ pc \in {"probe", "safe", "own", "kind", "root", "pass", "file", "retry",
             "explain", "walk"}
       => queue = <<>> /\ work = <<>> /\ listed = {}

LEMMA ChildFacts ==
  ASSUME NEW d \in Entries, NEW c \in Children[d]
  PROVE  /\ c \in Entries
         /\ Ancestors[c] = Ancestors[d] \cup {d}
         /\ c # d /\ c \notin Ancestors[d]
         /\ \A x \in Entries : AtOrAbove(c, x) => d \in Ancestors[x]
<1>1. c \in Entries \ Roots /\ Parent[c] = d
  BY DEF Children
<1>2. Ancestors[c] = Ancestors[d] \cup {d}
  BY <1>1, TreeAssumption
<1>3. c # d
  BY <1>1, <1>2, TreeAssumption
<1>4. \A x \in Entries : AtOrAbove(c, x) => d \in Ancestors[x]
  BY <1>2, TreeAssumption DEF AtOrAbove
<1>5. c \notin Ancestors[d]
  BY <1>4, TreeAssumption DEF AtOrAbove
<1>6. QED
  BY <1>1, <1>2, <1>3, <1>4, <1>5

\* Frames hold entries.
LEMMA FramesHoldEntries ==
  ASSUME NEW r \in Roots, NEW w \in Seq(WorksOf(r)), NEW i \in 1..Len(w)
  PROVE  w[i][2] \in Entries
BY RootInTree DEF WorksOf

\* A directory is listed: its own frame waits for what was in it.
LEMMA ExpandKeepsOrder ==
  ASSUME NEW r \in Roots, NEW q \in Seq(Tree), NEW w \in Seq(WorksOf(r)),
         w # <<>>, Last(w)[1] = "expand", NEW l, l \subseteq Children[Last(w)[2]],
         QueueBehind(q, w, {}), FramesInOrder(w, {})
  PROVE  LET v == Append(Front(w), <<"emit", Last(w)[2]>>)
         IN  QueueBehind(q, v, l) /\ FramesInOrder(v, l)
<1> DEFINE d == Last(w)[2]
           v == Append(Front(w), <<"emit", d>>)
           m == Len(w)
<1>1. /\ m \in Nat \ {0} /\ Front(w) \in Seq(WorksOf(r)) /\ Len(Front(w)) = m - 1
      /\ \A i \in 1..m - 1 : Front(w)[i] = w[i]
  BY StackTop
<1>2. m \in 1..m /\ w[m][1] = "expand" /\ w[m][2] = d /\ d \in TreeOf[r]
  BY <1>1 DEF Last, WorksOf
<1>3. d \in Entries /\ TreeOf[r] \subseteq Entries
  BY <1>2, RootInTree
<1>4. <<"emit", d>> \in WorksOf(r)
  BY <1>2 DEF WorksOf
<1>5. /\ Len(v) = m /\ v[m] = <<"emit", d>>
      /\ \A i \in 1..m - 1 : v[i] = w[i]
  <2>1. /\ Len(v) = Len(Front(w)) + 1 /\ v[Len(Front(w)) + 1] = <<"emit", d>>
        /\ \A i \in 1..Len(Front(w)) : v[i] = Front(w)[i]
    BY <1>1, <1>4, StackPush
  <2>2. QED
    BY <1>1, <2>1
<1> HIDE DEF v, d, m
<1>6. \A i \in 1..m : v[i][2] = w[i][2] /\ (v[i][1] = "expand" => w[i][1] = "expand" /\ i # m)
  BY <1>1, <1>2, <1>5
<1>7. \A k \in 1..Len(q) : q[k] \in Entries
  BY TreeAssumption DEF Entries
<1>8. \A i \in 1..m : w[i][2] \in Entries
  BY FramesHoldEntries DEF m
<1>9. /\ \A k \in 1..Len(q), i \in 1..m :
           /\ q[k] \notin Ancestors[w[i][2]]
           /\ w[i][1] = "expand" => ~AtOrAbove(w[i][2], q[k])
      /\ \A i, j \in 1..m :
           i < j => /\ ~AtOrAbove(w[j][2], w[i][2])
                    /\ w[i][1] = "expand" => w[i][2] \notin Ancestors[w[j][2]]
  BY DEF QueueBehind, FramesInOrder, m
<1>10. QueueBehind(q, v, l)
  <2>1. \A k \in 1..Len(q), n \in l : q[k] \notin Ancestors[n] /\ ~AtOrAbove(n, q[k])
    <3>1. SUFFICES ASSUME NEW k \in 1..Len(q), NEW n \in l
                   PROVE  q[k] \notin Ancestors[n] /\ ~AtOrAbove(n, q[k])
      OBVIOUS
    <3>2. n \in Children[d]
      BY DEF d
    <3>3. q[k] \notin Ancestors[d] /\ ~AtOrAbove(d, q[k])
      BY <1>2, <1>9
    <3>4. QED
      BY <1>3, <1>7, <3>2, <3>3, ChildFacts DEF AtOrAbove
  <2>2. QED
    BY <1>5, <1>6, <1>9, <2>1 DEF QueueBehind
<1>11. FramesInOrder(v, l)
  <2>1. ASSUME NEW i \in 1..m, NEW n \in l
        PROVE  /\ ~AtOrAbove(n, v[i][2])
               /\ v[i][1] = "expand" => v[i][2] \notin Ancestors[n]
    <3>1. n \in Children[d]
      BY DEF d
    <3>2. /\ Ancestors[n] = Ancestors[d] \cup {d} /\ ~AtOrAbove(n, d)
          /\ \A x \in Entries : AtOrAbove(n, x) => d \in Ancestors[x]
      BY <1>3, <3>1, ChildFacts DEF AtOrAbove
    <3>3. CASE i = m
      BY <1>2, <1>6, <3>2, <3>3
    <3>4. CASE i # m
      <4>1. i < m
        BY <1>1, <3>4
      <4>2. d \notin Ancestors[w[i][2]] /\ d # w[i][2]
        BY <1>2, <1>9, <4>1 DEF AtOrAbove
      <4>3. w[i][1] = "expand" => w[i][2] \notin Ancestors[d]
        BY <1>2, <1>9, <4>1
      <4>4. QED
        BY <1>6, <1>8, <3>2, <4>2, <4>3
    <3>5. QED
      BY <3>3, <3>4
  <2>2. ASSUME NEW n \in l, NEW o \in l
        PROVE  n \notin Ancestors[o]
    <3>1. n \in Children[d] /\ o \in Children[d]
      BY DEF d
    <3>2. QED
      BY <1>3, <3>1, ChildFacts
  <2>3. \A i, j \in 1..m :
          i < j => /\ ~AtOrAbove(v[j][2], v[i][2])
                   /\ v[i][1] = "expand" => v[i][2] \notin Ancestors[v[j][2]]
    BY <1>6, <1>9
  <2>4. QED
    BY <1>5, <2>1, <2>2, <2>3 DEF FramesInOrder
<1>12. QED
  BY <1>10, <1>11 DEF v, d

\* A directory in the listing is left for later, above the frames there are.
LEMMA PushKeepsOrder ==
  ASSUME NEW r \in Roots, NEW q \in Seq(Tree), NEW w \in Seq(WorksOf(r)),
         NEW l, NEW n \in l, l \subseteq TreeOf[r],
         QueueBehind(q, w, l), FramesInOrder(w, l)
  PROVE  LET v == Append(w, <<"expand", n>>)
         IN  QueueBehind(q, v, l \ {n}) /\ FramesInOrder(v, l \ {n})
<1> DEFINE v == Append(w, <<"expand", n>>)
<1>1. <<"expand", n>> \in WorksOf(r) /\ Len(w) \in Nat
  BY DEF WorksOf
<1>2. /\ Len(v) = Len(w) + 1 /\ v[Len(w) + 1] = <<"expand", n>>
      /\ \A i \in 1..Len(w) : v[i] = w[i]
  BY <1>1, StackPush
<1> HIDE DEF v
<1>3. QueueBehind(q, v, l \ {n})
  <2>1. ASSUME NEW k \in 1..Len(q), NEW i \in 1..Len(v)
        PROVE  /\ q[k] \notin Ancestors[v[i][2]]
               /\ v[i][1] = "expand" => ~AtOrAbove(v[i][2], q[k])
    <3>1. CASE i = Len(w) + 1
      BY <1>2, <3>1 DEF QueueBehind
    <3>2. CASE i # Len(w) + 1
      <4>1. i \in 1..Len(w)
        BY <1>1, <1>2, <3>2
      <4>2. QED
        BY <1>2, <4>1 DEF QueueBehind
    <3>3. QED
      BY <3>1, <3>2
  <2>2. QED
    BY <2>1 DEF QueueBehind
<1>4. FramesInOrder(v, l \ {n})
  <2>1. ASSUME NEW i \in 1..Len(v), NEW j \in 1..Len(v), i < j
        PROVE  /\ ~AtOrAbove(v[j][2], v[i][2])
               /\ v[i][1] = "expand" => v[i][2] \notin Ancestors[v[j][2]]
    <3>1. i \in 1..Len(w)
      BY <1>1, <1>2, <2>1
    <3>2. CASE j = Len(w) + 1
      BY <1>2, <3>1, <3>2 DEF FramesInOrder
    <3>3. CASE j # Len(w) + 1
      <4>1. j \in 1..Len(w)
        BY <1>1, <1>2, <3>3
      <4>2. QED
        BY <1>2, <2>1, <3>1, <4>1 DEF FramesInOrder
    <3>4. QED
      BY <3>2, <3>3
  <2>2. ASSUME NEW i \in 1..Len(v), NEW m \in l \ {n}
        PROVE  /\ ~AtOrAbove(m, v[i][2])
               /\ v[i][1] = "expand" => v[i][2] \notin Ancestors[m]
    <3>1. CASE i = Len(w) + 1
      BY <1>2, <3>1 DEF FramesInOrder, AtOrAbove
    <3>2. CASE i # Len(w) + 1
      <4>1. i \in 1..Len(w)
        BY <1>1, <1>2, <3>2
      <4>2. QED
        BY <1>2, <4>1 DEF FramesInOrder
    <3>3. QED
      BY <3>1, <3>2
  <2>3. QED
    BY <2>1, <2>2 DEF FramesInOrder
<1>5. QED
  BY <1>3, <1>4 DEF v

\* What is visited, an entry of the listing or the frame on top, may be queued.
LEMMA VisitKeepsOrder ==
  ASSUME NEW q \in Seq(Tree), NEW n \in Tree, NEW w, NEW l, QueueBehind(q, w, l),
         \A i \in 1..Len(w) :
           /\ ~AtOrAbove(n, w[i][2])
           /\ w[i][1] = "expand" => w[i][2] \notin Ancestors[n],
         \A m \in l : m # n /\ m \notin Ancestors[n] /\ n \notin Ancestors[m]
  PROVE  QueueBehind(Append(q, n), w, l)
<1> DEFINE p == Append(q, n)
<1>1. Len(p) = Len(q) + 1 /\ p[Len(q) + 1] = n /\ \A k \in 1..Len(q) : p[k] = q[k]
  BY StackPush
<1> HIDE DEF p
<1>2. ASSUME NEW k \in 1..Len(p), k # Len(q) + 1
      PROVE  k \in 1..Len(q) /\ p[k] = q[k]
  BY <1>1, <1>2
<1>3. \A k \in 1..Len(p), i \in 1..Len(w) :
        /\ p[k] \notin Ancestors[w[i][2]]
        /\ w[i][1] = "expand" => ~AtOrAbove(w[i][2], p[k])
  BY <1>1, <1>2 DEF QueueBehind, AtOrAbove
<1>4. \A k \in 1..Len(p), m \in l : p[k] \notin Ancestors[m] /\ ~AtOrAbove(m, p[k])
  BY <1>1, <1>2 DEF QueueBehind, AtOrAbove
<1>5. QED
  BY <1>3, <1>4 DEF QueueBehind, p

\* Both conditions hold of fewer frames and of less of a listing.
LEMMA LessToVisit ==
  ASSUME NEW r \in Roots, NEW q \in Seq(Tree), NEW w \in Seq(WorksOf(r)), w # <<>>,
         QueueBehind(q, w, {}), FramesInOrder(w, {})
  PROVE  /\ QueueBehind(q, Front(w), {}) /\ FramesInOrder(Front(w), {})
         /\ \A i \in 1..Len(Front(w)) :
              /\ ~AtOrAbove(Last(w)[2], Front(w)[i][2])
              /\ Front(w)[i][1] = "expand"
                   => Front(w)[i][2] \notin Ancestors[Last(w)[2]]
<1> DEFINE v == Front(w)
           m == Len(w)
<1>1. /\ m \in Nat \ {0} /\ Len(v) = m - 1 /\ Last(w) = w[m]
      /\ \A i \in 1..m - 1 : v[i] = w[i]
  BY StackTop DEF Last
<1> HIDE DEF v, m
<1>2. \A i \in 1..Len(v) : i \in 1..m /\ i < m /\ v[i] = w[i]
  BY <1>1
<1>3. /\ \A k \in 1..Len(q), i \in 1..m :
           /\ q[k] \notin Ancestors[w[i][2]]
           /\ w[i][1] = "expand" => ~AtOrAbove(w[i][2], q[k])
      /\ \A i, j \in 1..m :
           i < j => /\ ~AtOrAbove(w[j][2], w[i][2])
                    /\ w[i][1] = "expand" => w[i][2] \notin Ancestors[w[j][2]]
  BY DEF QueueBehind, FramesInOrder, m
<1>4. QueueBehind(q, v, {}) /\ FramesInOrder(v, {})
  BY <1>2, <1>3 DEF QueueBehind, FramesInOrder
<1>5. ASSUME NEW i \in 1..Len(v)
      PROVE  /\ ~AtOrAbove(Last(w)[2], v[i][2])
             /\ v[i][1] = "expand" => v[i][2] \notin Ancestors[Last(w)[2]]
  <2>1. m \in 1..m /\ i \in 1..m /\ i < m
    BY <1>1, <1>2
  <2>2. /\ ~AtOrAbove(w[m][2], w[i][2])
        /\ w[i][1] = "expand" => w[i][2] \notin Ancestors[w[m][2]]
    BY <1>3, <2>1
  <2>3. QED
    BY <1>1, <1>2, <2>2
<1>6. QED
  BY <1>4, <1>5 DEF v

\* The invariant of the walk is inductive.
LEMMA WalkInvInit == Init => WalkInv
BY DEF Init, WalkInv

\* One visit in the middle of the walk, of an entry w and l still wait above
\* or beside.
LEMMA VisitStep ==
  ASSUME NEW n \in Tree, NEW w, NEW l, NEW next, queue \in Seq(Tree),
         Visit(n, next), QueueBehind(queue, w, l),
         \A i \in 1..Len(w) :
           /\ ~AtOrAbove(n, w[i][2])
           /\ w[i][1] = "expand" => w[i][2] \notin Ancestors[n],
         \A m \in l : m # n /\ m \notin Ancestors[n] /\ n \notin Ancestors[m]
  PROVE  QueueBehind(queue', w, l) /\ pc' \in {next, "verify"}
<1>1. QueueBehind(Append(queue, n), w, l)
  BY VisitKeepsOrder
<1>2. queue' = queue \/ queue' = Append(queue, n)
  BY Zenon DEF Visit
<1>3. pc' \in {next, "verify"}
  BY Zenon DEF Visit
<1>4. QED
  BY <1>1, <1>2, <1>3, Zenon

LEMMA WalkInvStep ==
  ASSUME TypeInv, WalkInv, [Next]_vars
  PROVE  WalkInv'
<1> DEFINE Early == {"probe", "safe", "own", "kind", "root", "pass", "file",
                     "retry", "explain", "walk"}
<1>1. /\ Root \in Roots /\ queue \in Seq(Tree) /\ work \in Seq(WorksOf(Root))
      /\ listed \subseteq TreeOf[Root] /\ TreeOf[Root] \subseteq Tree
  BY RootInTree DEF TypeInv, GivenTyped, WalkTyped
<1>2. ASSUME pc' \notin Early, pc' # "walking"
      PROVE  WalkInv'
  BY <1>2 DEF WalkInv
<1>3. ASSUME UNCHANGED <<queue, work, listed>>, pc' \in Early => pc \in Early,
             pc' = "walking" => pc = "walking"
      PROVE  WalkInv'
  BY <1>3 DEF WalkInv
<1>4. CASE \/ ProbeAborts \/ Probe \/ CheckSafe \/ TakeOwnership \/ Dispatch
           \/ BeginPass \/ OpenDir \/ TakeEntry \/ LeaveDir \/ PassEnds
           \/ DeleteFile \/ RetryFile \/ Explain
  <2>1. UNCHANGED <<queue, work, listed>>
    BY <1>4, Zenon DEF ProbeAborts, Probe, CheckSafe, TakeOwnership, Dispatch,
       BeginPass, OpenDir, TakeEntry, LeaveDir, PassEnds, DeleteFile, RetryFile,
       Explain, Settle, InFrame, walkVars
  <2>2. pc \in Early /\ pc' # "walking"
    BY <1>4 DEF ProbeAborts, Probe, CheckSafe, TakeOwnership, Dispatch,
       BeginPass, OpenDir, TakeEntry, LeaveDir, PassEnds, DeleteFile, RetryFile,
       FileGone, FileStays, Explain, Settle, Goto, InFrame
  <2>3. QED
    BY <1>3, <2>1, <2>2
<1>5. CASE WalkRoot
  <2>1. queue = <<>> /\ work = <<>> /\ listed = {} /\ pc = "walk"
    BY <1>5 DEF WalkRoot, WalkInv
  <2>2. pc' # "walking" => pc' = "verify"
    BY <1>5, Zenon DEF WalkRoot, Visit
  <2>3. CASE pc' = "walking"
    <3>1. /\ queue' = <<>> /\ work' = <<<<"expand", Root>>>> /\ listed' = {}
      BY <1>5, <2>1, <2>3 DEF WalkRoot, Visit
    <3>2. Ancestors[Root] = {}
      BY <1>1, TreeAssumption
    <3>3. QueueBehind(queue', work', listed') /\ FramesInOrder(work', listed')
      BY <3>1 DEF QueueBehind, FramesInOrder
    <3>4. QED
      BY <2>3, <3>3 DEF WalkInv
  <2>4. QED
    BY <1>2, <2>2, <2>3
<1>6. CASE WalkExpand
  <2>1. /\ pc = "walking" /\ pc' = "walking" /\ listed = {} /\ work # <<>>
        /\ Last(work)[1] = "expand" /\ queue' = queue
        /\ work' = Append(Front(work), <<"emit", Last(work)[2]>>)
        /\ listed' \subseteq Children[Last(work)[2]]
    BY <1>6 DEF WalkExpand, sayVars
  <2>2. QueueBehind(queue, work, {}) /\ FramesInOrder(work, {})
    BY <2>1 DEF WalkInv
  <2>3. QueueBehind(queue', work', listed') /\ FramesInOrder(work', listed')
    BY <1>1, <2>1, <2>2, ExpandKeepsOrder, Zenon
  <2>4. QED
    BY <2>1, <2>3 DEF WalkInv
<1>7. CASE WalkEntry
  <2>1. pc = "walking" /\ QueueBehind(queue, work, listed) /\ FramesInOrder(work, listed)
    BY <1>7 DEF WalkEntry, WalkInv
  <2>2. PICK n \in listed :
          /\ listed' = listed \ {n}
          /\ \/ work' = Pushed(n) /\ queue' = queue /\ pc' = pc
             \/ Visit(n, "walking") /\ work' = work
    BY <1>7, Zenon DEF WalkEntry
  <2>3. CASE work' = Pushed(n) /\ queue' = queue /\ pc' = pc
    <3>1. QueueBehind(queue', work', listed') /\ FramesInOrder(work', listed')
      BY <1>1, <2>1, <2>2, <2>3, PushKeepsOrder, Zenon DEF Pushed
    <3>2. QED
      BY <2>1, <2>3, <3>1 DEF WalkInv
  <2>4. CASE Visit(n, "walking") /\ work' = work
    <3>1. \A i \in 1..Len(work) :
            /\ ~AtOrAbove(n, work[i][2])
            /\ work[i][1] = "expand" => work[i][2] \notin Ancestors[n]
      BY <2>1, Zenon DEF FramesInOrder
    <3>2. \A m \in listed \ {n} :
            m # n /\ m \notin Ancestors[n] /\ n \notin Ancestors[m]
      BY <2>1 DEF FramesInOrder
    <3>3. QueueBehind(queue, work, listed \ {n}) /\ FramesInOrder(work, listed \ {n})
      BY <2>1 DEF QueueBehind, FramesInOrder
    <3>4. QueueBehind(queue', work, listed \ {n}) /\ pc' \in {"walking", "verify"}
      BY <1>1, <2>4, <3>1, <3>2, <3>3, VisitStep
    <3>5. QED
      BY <2>2, <2>4, <3>3, <3>4 DEF WalkInv
  <2>5. QED
    BY <2>2, <2>3, <2>4
<1>8. CASE WalkEmit
  <2>1. /\ pc = "walking" /\ listed = {} /\ listed' = {} /\ work # <<>>
        /\ work' = Front(work) /\ Visit(Last(work)[2], "walking")
    BY <1>8 DEF WalkEmit
  <2>2. QueueBehind(queue, work, {}) /\ FramesInOrder(work, {})
    BY <2>1 DEF WalkInv
  <2>3. Last(work)[2] \in Tree
    <3>1. Last(work) \in WorksOf(Root)
      BY <1>1, <2>1, StackTop
    <3>2. QED
      BY <1>1, <3>1 DEF WorksOf
  <2>4. /\ QueueBehind(queue, Front(work), {}) /\ FramesInOrder(Front(work), {})
        /\ \A i \in 1..Len(Front(work)) :
             /\ ~AtOrAbove(Last(work)[2], Front(work)[i][2])
             /\ Front(work)[i][1] = "expand"
                  => Front(work)[i][2] \notin Ancestors[Last(work)[2]]
    BY <1>1, <2>1, <2>2, LessToVisit, Zenon
  <2>5. QueueBehind(queue', Front(work), {}) /\ pc' \in {"walking", "verify"}
    BY <1>1, <2>1, <2>3, <2>4, VisitStep
  <2>6. QED
    BY <2>1, <2>4, <2>5 DEF WalkInv
<1>9. CASE WalkEnds \/ Verify \/ PowerOff \/ RestartDeletes \/ Restarted
  BY <1>2, <1>9 DEF WalkEnds, Verify, PowerOff, RestartDeletes, Restarted, Goto
<1>10. CASE Others \/ CtrlC \/ AllDone \/ UNCHANGED vars
  <2>1. UNCHANGED <<queue, work, listed, pc>>
    BY <1>10, Zenon DEF Others, CtrlC, AllDone, vars, walkVars
  <2>2. QED
    BY <1>3, <2>1
<1>11. QED
  BY <1>4, <1>5, <1>6, <1>7, <1>8, <1>9, <1>10, Zenon DEF Next, Removal, AtRestart

-----------------------------------------------------------------------------
(* The removal keeps the promises of TreeDeletion.                         *)

\* The two specifications speak of one forest.
LEMMA SameForest ==
  /\ Promise!TreeOf = TreeOf
  /\ \A n, there : Promise!Removable(n, there) <=> Removable(n, there)
<1>1. Promise!TreeOf = TreeOf
  BY Zenon DEF TreeOf, Promise!TreeOf
<1>2. Promise!Entries = Entries
  BY Zenon DEF Entries, Promise!Entries
<1>3. Promise!Children = Children
  BY <1>2, Zenon DEF Children, Promise!Children
<1>4. QED
  BY <1>1, <1>3, Zenon DEF Removable, Promise!Removable

LEMMA PromiseInit == Init => Promise!Init
<1>1. SUFFICES ASSUME Init PROVE Promise!Init
  OBVIOUS
<1>2. Root \in Roots
  BY <1>1, RemovalAssumption DEF Init, Given, AWorld, Root
<1>3. present \subseteq TreeOf[Root] \cup Outside /\ Outside \subseteq present
  BY <1>1 DEF Init
<1>4. queue = <<>>
  BY <1>1 DEF Init
<1>5. QED
  BY <1>2, <1>3, <1>4, SameForest DEF Promise!Init

\* Only what is there and has nothing in it, or is a link, is taken away.
LEMMA RemoveCallKeeps ==
  ASSUME NEW n \in TreeOf[Root], Kind[n] # "dir", RemoveCall(n),
         UNCHANGED <<Root, queue>>
  PROVE  Promise!Next \/ UNCHANGED present
<1>1. CASE n \in present /\ present' = present \ {n}
  <2>1. Promise!Remove(n)
    BY <1>1, SameForest DEF Promise!Remove, Removable
  <2>2. QED
    BY <2>1, SameForest DEF Promise!Next
<1>2. QED
  BY <1>1 DEF RemoveCall

LEMMA CallForKeeps ==
  ASSUME NEW n \in TreeOf[Root], NEW frames, CallFor(n, frames),
         UNCHANGED <<Root, queue>>
  PROVE  Promise!Next \/ UNCHANGED present
<1>1. CASE ~Descends(n) /\ RemoveCall(n)
  BY <1>1, RemoveCallKeeps DEF Descends
<1>2. QED
  BY <1>1, Zenon DEF CallFor

\* Nothing is queued after a directory it lies in.
LEMMA VisitKeepsPromise ==
  ASSUME NEW n \in TreeOf[Root], NEW next, Visit(n, next),
         \A k \in 1..Len(queue) : queue[k] \notin Ancestors[n],
         UNCHANGED <<Root, present>>
  PROVE  Promise!Next \/ UNCHANGED queue
<1>1. CASE queue' = Append(queue, n)
  <2>1. Promise!Enqueue(n)
    BY <1>1 DEF Promise!Enqueue
  <2>2. QED
    BY <2>1, SameForest DEF Promise!Next
<1>2. QED
  BY <1>1, Zenon DEF Visit

\* The walk's condition is what the promise asks of a visit.
LEMMA VisitsMayQueue ==
  ASSUME TypeInv, WalkInv
  PROVE  /\ WalkEmit => /\ Last(work)[2] \in TreeOf[Root]
                        /\ \A k \in 1..Len(queue) :
                             queue[k] \notin Ancestors[Last(work)[2]]
         /\ WalkEntry => \A n \in listed, k \in 1..Len(queue) :
                           queue[k] \notin Ancestors[n]
         /\ WalkRoot => queue = <<>>
<1>1. ASSUME WalkEmit
      PROVE  /\ Last(work)[2] \in TreeOf[Root]
             /\ \A k \in 1..Len(queue) : queue[k] \notin Ancestors[Last(work)[2]]
  <2>1. QueueBehind(queue, work, listed) /\ work # <<>>
    BY <1>1 DEF WalkEmit, WalkInv
  <2>2. work \in Seq(WorksOf(Root))
    BY DEF TypeInv, WalkTyped
  <2>3. Len(work) \in 1..Len(work) /\ Last(work) \in WorksOf(Root)
    BY <2>1, <2>2, StackTop
  <2>4. QED
    BY <2>1, <2>3 DEF QueueBehind, Last, WorksOf
<1>2. ASSUME WalkEntry
      PROVE  \A n \in listed, k \in 1..Len(queue) : queue[k] \notin Ancestors[n]
  BY <1>2 DEF WalkEntry, WalkInv, QueueBehind
<1>3. WalkRoot => queue = <<>>
  BY DEF WalkRoot, WalkInv
<1>4. QED
  BY <1>1, <1>2, <1>3

LEMMA PromiseStep ==
  ASSUME TypeInv, WalkInv, [Next]_vars
  PROVE  [Promise!Next]_Promise!treeVars
<1>1. Root' = Root /\ Root \in Roots
  BY GivenStays DEF TypeInv, GivenTyped
<1>2. SUFFICES Promise!Next \/ UNCHANGED <<present, queue>>
  BY <1>1 DEF Promise!treeVars
<1>3. Root \in TreeOf[Root]
  BY <1>1, RootInTree
<1>4. ASSUME NEW n \in TreeOf[Root], Removable(n, present), present' = present \ {n},
             queue' = queue
      PROVE  Promise!Next
  BY <1>1, <1>4, SameForest DEF Promise!Next, Promise!Remove
<1>5. CASE \/ ProbeAborts \/ Probe \/ CheckSafe \/ TakeOwnership \/ Dispatch
           \/ OpenDir \/ PassEnds \/ Explain \/ WalkExpand \/ WalkEnds \/ Verify
           \/ PowerOff \/ Restarted \/ CtrlC \/ AllDone \/ UNCHANGED vars
  BY <1>5, Zenon DEF ProbeAborts, Probe, CheckSafe, TakeOwnership, Dispatch,
     OpenDir, PassEnds, Explain, WalkExpand, WalkEnds, Verify, PowerOff, Restarted,
     CtrlC, AllDone, Settle, InFrame, diskVars, vars
<1>6. CASE BeginPass
  <2>1. CallFor(Root, <<>>) /\ queue' = queue
    BY <1>6 DEF BeginPass
  <2>2. QED
    BY <1>1, <1>3, <2>1, CallForKeeps
<1>7. CASE TakeEntry
  <2>1. queue' = queue /\ stack # <<>>
    BY <1>7 DEF TakeEntry, InFrame
  <2>2. PICK n \in Last(stack).todo :
          \/ Kind[n] = "file" /\ RemoveCall(n)
          \/ \E frames : CallFor(n, frames)
    BY <1>7, Zenon DEF TakeEntry
  <2>3. Last(stack) \in FramesOf(Root)
    BY <2>1, StackTop DEF TypeInv, CallTyped
  <2>4. n \in TreeOf[Root]
    BY <2>2, <2>3 DEF FramesOf
  <2>5. CASE Kind[n] = "file" /\ RemoveCall(n)
    BY <1>1, <2>1, <2>4, <2>5, RemoveCallKeeps
  <2>6. CASE \E frames : CallFor(n, frames)
    BY <1>1, <2>1, <2>4, <2>6, CallForKeeps, Zenon
  <2>7. QED
    BY <2>2, <2>5, <2>6
<1>8. CASE LeaveDir
  <2>1. queue' = queue /\ stack # <<>>
    BY <1>8 DEF LeaveDir, InFrame
  <2>2. Last(stack) \in FramesOf(Root)
    BY <2>1, StackTop DEF TypeInv, CallTyped
  <2>3. Last(stack).dir \in TreeOf[Root]
    BY <2>2 DEF FramesOf
  <2>4. \/ present' = present
        \/ /\ Removable(Last(stack).dir, present)
           /\ present' = present \ {Last(stack).dir}
    BY <1>8, Zenon DEF LeaveDir
  <2>5. QED
    BY <1>4, <2>1, <2>3, <2>4
<1>9. CASE DeleteFile \/ RetryFile
  <2>1. queue' = queue
    BY <1>9 DEF DeleteFile, RetryFile
  <2>2. \/ present' = present
        \/ Root \in present /\ Kind[Root] # "dir" /\ present' = present \ {Root}
    BY <1>9, Zenon DEF DeleteFile, RetryFile, FileGone, FileStays
  <2>3. QED
    BY <1>3, <1>4, <2>1, <2>2 DEF Removable
<1>10. CASE WalkRoot
  <2>1. UNCHANGED present /\ (queue' = queue \/ Visit(Root, "verify"))
    BY <1>10, Zenon DEF WalkRoot, diskVars
  <2>2. queue = <<>>
    BY <1>10, VisitsMayQueue
  <2>3. QED
    BY <1>1, <1>3, <2>1, <2>2, VisitKeepsPromise
<1>11. CASE WalkEntry
  <2>1. PICK n \in listed :
          UNCHANGED present /\ (queue' = queue \/ Visit(n, "walking"))
    BY <1>11, Zenon DEF WalkEntry, diskVars
  <2>2. n \in TreeOf[Root]
    BY DEF TypeInv, WalkTyped
  <2>3. \A k \in 1..Len(queue) : queue[k] \notin Ancestors[n]
    BY <1>11, VisitsMayQueue
  <2>4. QED
    BY <1>1, <2>1, <2>2, <2>3, VisitKeepsPromise
<1>12. CASE WalkEmit
  <2>1. UNCHANGED present /\ Visit(Last(work)[2], "walking")
    BY <1>12, Zenon DEF WalkEmit, diskVars
  <2>2. /\ Last(work)[2] \in TreeOf[Root]
        /\ \A k \in 1..Len(queue) : queue[k] \notin Ancestors[Last(work)[2]]
    BY <1>12, VisitsMayQueue
  <2>3. QED
    BY <1>1, <2>1, <2>2, VisitKeepsPromise
<1>13. CASE RestartDeletes
  <2>1. Promise!Restart
    BY <1>1, <1>13, SameForest DEF RestartDeletes, Promise!Restart
  <2>2. QED
    BY <2>1 DEF Promise!Next
<1>14. CASE Others
  <2>1. queue' = queue
    BY <1>14 DEF Others
  <2>2. PICK n \in TreeOf[Root] : Vanish(n) \/ Appear(n) \/ UNCHANGED present
    BY <1>14, Zenon DEF Others, Close, Open
  <2>3. CASE Vanish(n)
    BY <1>4, <2>1, <2>3 DEF Vanish
  <2>4. CASE Appear(n)
    <3>1. Promise!Appear(n)
      BY <1>1, <2>1, <2>4 DEF Appear, Promise!Appear
    <3>2. QED
      BY <3>1, SameForest DEF Promise!Next
  <2>5. QED
    BY <2>1, <2>2, <2>3, <2>4
<1>15. QED
  BY <1>5, <1>6, <1>7, <1>8, <1>9, <1>10, <1>11, <1>12, <1>13, <1>14, Zenon
     DEF Next, Removal, AtRestart

\* The removal of a candidate implements TreeDeletion, for every forest and
\* every set of worlds in which no link comes up at a candidate's path: only
\* entries of the candidate go, a directory only when it is empty, and
\* MoveFileExW is given children before the directories they lie in.
THEOREM RemovalKeepsPromises ==
  ASSUME LinksStayAway
  PROVE  Spec => ImplementsTreeDeletion
<1>1. TypeInv /\ WalkInv /\ [Next]_vars => WalkInv'
  BY WalkInvStep
<1>2. TypeInv /\ WalkInv /\ [Next]_vars => [Promise!Next]_Promise!treeVars
  BY PromiseStep
<1>3. QED
  BY TypeHolds, WalkInvInit, PromiseInit, <1>1, <1>2, PTL
     DEF Spec, ImplementsTreeDeletion, Promise!Spec
=============================================================================
