------------------------ MODULE RemovalReasons_proofs ------------------------
(* Theorems about CandidateRemoval, continued: what stays is put down to a *)
(* failure, what stays has its reason in the report, what is protected is  *)
(* left alone, and what is scheduled goes at the restart.                  *)
EXTENDS CandidateRemoval_proofs

-----------------------------------------------------------------------------
(* Entries that exist lie in directories that exist.                       *)

InTree == present \cap Tree

DiskGrown ==
  /\ InTree \subseteq TreeOf[Root]
  /\ Grown(InTree)

LEMMA DiskGrownInit == Init => DiskGrown
<1>1. SUFFICES ASSUME Init PROVE DiskGrown
  OBVIOUS
<1>2. PICK there \in SUBSET TreeOf[Root] : Grown(there) /\ present = there \cup Outside
  BY <1>1 DEF Init
<1>3. Root \in Roots
  BY <1>1, InitTyped DEF TypeInv, GivenTyped
<1>4. InTree = there
  BY <1>2, <1>3, RootInTree, TreeAssumption DEF InTree
<1>5. QED
  BY <1>2, <1>4 DEF DiskGrown

\* What lies below an entry lies at or below one of its children, which exists
\* when what lies there does.
LEMMA ChildOnTheWay ==
  ASSUME DiskGrown, NEW n \in InTree, NEW d \in Ancestors[n]
  PROVE  \E c \in Children[d] \cap InTree : AtOrAbove(c, n)
<1>1. n \in Entries
  BY DEF InTree, Entries
<1>2. PICK c \in Entries \ Roots : Parent[c] = d /\ (c = n \/ c \in Ancestors[n])
  BY <1>1, TreeAssumption
<1>3. d \in Entries
  BY <1>1, TreeAssumption
<1>4. c \in Children[d]
  BY <1>2, <1>3 DEF Children
<1>5. c \in InTree
  BY <1>2 DEF DiskGrown, Grown
<1>6. QED
  BY <1>2, <1>4, <1>5 DEF AtOrAbove

\* As long as nothing appears, a step takes away at most one entry, one that
\* has nothing in it or is no directory.
LEMMA OneEntryGoes ==
  ASSUME GivenTyped, DiskTyped, CallTyped, "appear" \notin Faults, [Next]_vars
  PROVE  \/ present' = present
         \/ \E n \in present : Removable(n, present) /\ present' = present \ {n}
<1>1. Root \in Roots /\ Root \in TreeOf[Root]
  BY RootInTree DEF GivenTyped
<1>2. ASSUME NEW n, Kind[n] # "dir", RemoveCall(n)
      PROVE  \/ present' = present
             \/ n \in present /\ Removable(n, present) /\ present' = present \ {n}
  BY <1>2 DEF RemoveCall, Removable
<1>3. CASE \/ ProbeAborts \/ Probe \/ CheckSafe \/ TakeOwnership \/ Dispatch
           \/ OpenDir \/ PassEnds \/ Explain \/ WalkExpand \/ WalkEnds \/ Verify
           \/ WalkRoot \/ WalkEntry \/ WalkEmit
           \/ PowerOff \/ Restarted \/ CtrlC \/ AllDone \/ UNCHANGED vars
  <2>1. present' = present
    BY <1>3, Zenon DEF ProbeAborts, Probe, CheckSafe, TakeOwnership, Dispatch,
       OpenDir, PassEnds, Explain, WalkExpand, WalkEnds, Verify, WalkRoot,
       WalkEntry, WalkEmit, PowerOff, Restarted, CtrlC, AllDone, Settle, InFrame,
       diskVars, vars
  <2>2. QED
    BY <2>1
<1>4. CASE BeginPass \/ TakeEntry
  <2>1. \E n : \/ n \notin present /\ present' = present
               \/ present' = present
               \/ Kind[n] # "dir" /\ RemoveCall(n)
    BY <1>4, Zenon DEF BeginPass, TakeEntry, CallFor, Descends, RemoveCall
  <2>2. QED
    BY <1>2, <2>1
<1>5. CASE LeaveDir
  BY <1>5 DEF LeaveDir, Removable
<1>6. CASE DeleteFile \/ RetryFile
  <2>1. \/ present' = present
        \/ Root \in present /\ Kind[Root] # "dir" /\ present' = present \ {Root}
    BY <1>6, Zenon DEF DeleteFile, RetryFile, FileGone, FileStays
  <2>2. QED
    BY <2>1 DEF Removable
<1>7. CASE RestartDeletes
  BY <1>7 DEF RestartDeletes, Removable
<1>8. CASE Others
  BY <1>8 DEF Others, Vanish, Appear, Close, Open, Removable
<1>9. QED
  BY <1>3, <1>4, <1>5, <1>6, <1>7, <1>8, Zenon DEF Next, Removal, AtRestart

LEMMA DiskGrownStep ==
  ASSUME GivenTyped, DiskTyped, CallTyped, DiskGrown, "appear" \notin Faults,
         [Next]_vars
  PROVE  DiskGrown'
<1>1. Root' = Root
  BY GivenStays
<1>2. CASE present' = present
  BY <1>1, <1>2 DEF DiskGrown, InTree, Grown
<1>3. ASSUME NEW n \in present, Removable(n, present), present' = present \ {n}
      PROVE  DiskGrown'
  <2>1. InTree' = InTree \ {n}
    BY <1>3 DEF InTree
  <2>2. ASSUME NEW m \in InTree, n \in Ancestors[m]
        PROVE  FALSE
    <3>1. PICK c \in Children[n] \cap InTree : AtOrAbove(c, m)
      BY <2>2, ChildOnTheWay
    <3>2. Kind[n] # "dir"
      BY <1>3, <3>1 DEF Removable, InTree
    <3>3. n \in Entries /\ c \in Tree \ Roots /\ Parent[c] = n
      BY <1>3, <3>1 DEF DiskTyped, Children, InTree
    <3>4. QED
      BY <3>2, <3>3, TreeAssumption
  <2>3. \A m \in InTree : Ancestors[m] \subseteq InTree
    BY DEF DiskGrown, Grown
  <2>4. \A m \in InTree \ {n} : Ancestors[m] \subseteq InTree \ {n}
    BY <2>2, <2>3
  <2>5. QED
    BY <1>1, <2>1, <2>4 DEF DiskGrown, Grown
<1>4. QED
  BY <1>2, <1>3, OneEntryGoes

\* Entries that are gone stay away, and what they held with them.
LEMMA GoneWithAll ==
  ASSUME DiskGrown, NEW n \in InTree, NEW d, AtOrAbove(d, n)
  PROVE  d \in present
BY DEF DiskGrown, Grown, InTree, AtOrAbove

-----------------------------------------------------------------------------
(* The calls of remove_tree_best_effort and the failures they record.      *)

\* A failure in F stands for n: it is at n, below it, or above it.
Explained(n, F) ==
  \E f \in F : AtOrAbove(n, f[1]) \/ f[1] \in Ancestors[n]

\* The call of this frame will still come to n.
Meets(n, frame) ==
  \/ n = frame.dir
  \/ ~frame.open /\ frame.dir \in Ancestors[n]
  \/ \E c \in frame.todo : AtOrAbove(c, n)

Coming(n, frames) == \E i \in 1..Len(frames) : Meets(n, frames[i])

\* Each call removes a directory that lies below those of the calls before it.
FramesNest(frames) ==
  /\ \A i, j \in 1..Len(frames) : i < j => frames[i].dir \in Ancestors[frames[j].dir]
  /\ \A i \in 1..Len(frames) : frames[i].todo \subseteq Children[frames[i].dir]

\* What failed since a call began lies below its directory.
BlameBelow(frames, F) ==
  \A i \in 1..Len(frames) :
    /\ frames[i].before \subseteq F
    /\ \A f \in F \ frames[i].before : frames[i].dir \in Ancestors[f[1]]

CallsInOrder(frames, F) == FramesNest(frames) /\ BlameBelow(frames, F)

\* Nothing is overlooked: what is there has failed or is still to be met.
AllMet(frames, F, there) ==
  \A n \in there : Explained(n, F) \/ Coming(n, frames)

\* The inductive invariant of a pass.
PassInv ==
  pc = "pass" => CallsInOrder(stack, failures) /\ AllMet(stack, failures, InTree)

\* A call returns.
LEMMA FrameReturns ==
  ASSUME NEW r \in Roots, NEW s \in Seq(FramesOf(r)), s # <<>>, NEW F,
         CallsInOrder(s, F)
  PROVE  /\ Front(s) \in Seq(FramesOf(r)) /\ Last(s) \in FramesOf(r)
         /\ CallsInOrder(Front(s), F)
         /\ \A i \in 1..Len(Front(s)) : Front(s)[i].dir \in Ancestors[Last(s).dir]
         /\ Last(s).todo \subseteq Children[Last(s).dir]
         /\ Last(s).before \subseteq F
         /\ \A f \in F \ Last(s).before : Last(s).dir \in Ancestors[f[1]]
         /\ \A n : Coming(n, s) => Coming(n, Front(s)) \/ Meets(n, Last(s))
<1> DEFINE m == Len(s)
           v == Front(s)
<1>1. /\ m \in Nat \ {0} /\ v \in Seq(FramesOf(r)) /\ Len(v) = m - 1
      /\ Last(s) = s[m] /\ Last(s) \in FramesOf(r)
      /\ \A i \in 1..m - 1 : v[i] = s[i]
  BY StackTop DEF Last
<1> HIDE DEF m, v
<1>2. m \in 1..m /\ \A i \in 1..Len(v) : i \in 1..m /\ i < m /\ v[i] = s[i]
  BY <1>1
<1>3. /\ \A i, j \in 1..m : i < j => s[i].dir \in Ancestors[s[j].dir]
      /\ \A i \in 1..m :
           /\ s[i].todo \subseteq Children[s[i].dir]
           /\ s[i].before \subseteq F
           /\ \A f \in F \ s[i].before : s[i].dir \in Ancestors[f[1]]
  BY DEF CallsInOrder, FramesNest, BlameBelow, m
<1>4. \A i, j \in 1..Len(v) : i < j => v[i].dir \in Ancestors[v[j].dir]
  BY <1>2, <1>3
<1>5. \A i \in 1..Len(v) :
        /\ v[i].todo \subseteq Children[v[i].dir]
        /\ v[i].before \subseteq F
        /\ \A f \in F \ v[i].before : v[i].dir \in Ancestors[f[1]]
  BY <1>2, <1>3
<1>6. CallsInOrder(v, F)
  BY <1>4, <1>5 DEF CallsInOrder, FramesNest, BlameBelow
<1>7. \A i \in 1..Len(v) : v[i].dir \in Ancestors[Last(s).dir]
  BY <1>1, <1>2, <1>3
<1>8. ASSUME NEW n, Coming(n, s)
      PROVE  Coming(n, v) \/ Meets(n, Last(s))
  <2>1. PICK i \in 1..m : Meets(n, s[i])
    BY <1>8 DEF Coming, m
  <2>2. CASE i = m
    BY <1>1, <2>1, <2>2
  <2>3. CASE i # m
    <3>1. i \in 1..Len(v) /\ v[i] = s[i]
      BY <1>1, <2>3
    <3>2. QED
      BY <2>1, <3>1 DEF Coming
  <2>4. QED
    BY <2>2, <2>3
<1>9. QED
  BY <1>1, <1>2, <1>3, <1>6, <1>7, <1>8 DEF v

\* A call begins, or goes on: a frame on top of those there are.
LEMMA FrameOnTop ==
  ASSUME NEW r \in Roots, NEW s \in Seq(FramesOf(r)), NEW F, CallsInOrder(s, F),
         NEW frame \in FramesOf(r),
         \A i \in 1..Len(s) : s[i].dir \in Ancestors[frame.dir],
         frame.todo \subseteq Children[frame.dir],
         frame.before \subseteq F,
         \A f \in F \ frame.before : frame.dir \in Ancestors[f[1]]
  PROVE  /\ CallsInOrder(Append(s, frame), F)
         /\ \A n : Coming(n, s) \/ Meets(n, frame) => Coming(n, Append(s, frame))
<1> DEFINE m == Len(s)
           v == Append(s, frame)
<1>1. /\ m \in Nat /\ Len(v) = m + 1 /\ v[m + 1] = frame
      /\ \A i \in 1..m : v[i] = s[i]
  BY StackPush
<1> HIDE DEF v
<1>2. ASSUME NEW i \in 1..Len(v), i # m + 1
      PROVE  i \in 1..m /\ v[i] = s[i]
  BY <1>1, <1>2
<1>3. ASSUME NEW i \in 1..Len(v), NEW j \in 1..Len(v), i < j
      PROVE  v[i].dir \in Ancestors[v[j].dir]
  <2>1. i \in 1..m /\ v[i] = s[i]
    BY <1>1, <1>3
  <2>2. CASE j = m + 1
    BY <1>1, <2>1, <2>2
  <2>3. CASE j # m + 1
    BY <1>2, <1>3, <2>1, <2>3 DEF CallsInOrder, FramesNest
  <2>4. QED
    BY <2>2, <2>3
<1>4. \A i \in 1..Len(v) : v[i].todo \subseteq Children[v[i].dir]
  BY <1>1, <1>2 DEF CallsInOrder, FramesNest
<1>5. BlameBelow(v, F)
  BY <1>1, <1>2 DEF CallsInOrder, BlameBelow
<1>6. ASSUME NEW n, Coming(n, s) \/ Meets(n, frame)
      PROVE  Coming(n, v)
  <2>1. m + 1 \in 1..Len(v) /\ 1..m \subseteq 1..Len(v)
    BY <1>1
  <2>2. QED
    BY <1>1, <1>6, <2>1 DEF Coming
<1>7. QED
  BY <1>3, <1>4, <1>5, <1>6 DEF CallsInOrder, FramesNest, v

\* A failure below the directories of all calls keeps their order, and stands
\* for what lies at it, below it and above it.
LEMMA FailureBelow ==
  ASSUME NEW s, NEW F, CallsInOrder(s, F), NEW n, NEW lock,
         \A i \in 1..Len(s) : s[i].dir \in Ancestors[n]
  PROVE  LET G == F \cup {<<n, lock>>}
         IN  /\ CallsInOrder(s, G)
             /\ \A x : Explained(x, F) \/ AtOrAbove(n, x) => Explained(x, G)
<1> DEFINE f == <<n, lock>>
           G == F \cup {f}
<1>1. f[1] = n /\ f \in G /\ F \subseteq G
  OBVIOUS
<1>2. \A g \in G : g \in F \/ g[1] = n
  BY <1>1
<1> HIDE DEF f, G
<1>3. BlameBelow(s, G)
  BY <1>1, <1>2 DEF CallsInOrder, BlameBelow
<1>4. \A x : Explained(x, F) \/ AtOrAbove(n, x) => Explained(x, G)
  BY <1>1 DEF Explained, AtOrAbove
<1>5. QED
  BY <1>3, <1>4 DEF CallsInOrder, f, G

\* One call for an entry n: what was to be met by it has gone, has failed, or
\* is to be met by the frame it leaves.
LEMMA CallKeepsAll ==
  ASSUME NEW r \in Roots, NEW frames \in Seq(FramesOf(r)), NEW n \in TreeOf[r],
         CallsInOrder(frames, failures), failures \subseteq Failures,
         \A i \in 1..Len(frames) : frames[i].dir \in Ancestors[n],
         \A x \in InTree : \/ Explained(x, failures) \/ Coming(x, frames)
                           \/ AtOrAbove(n, x),
         DiskGrown', InTree' \subseteq InTree,
         \/ CallFor(n, frames)
         \/ Kind[n] = "file" /\ RemoveCall(n) /\ stack' = frames
  PROVE  CallsInOrder(stack', failures') /\ AllMet(stack', failures', InTree')
<1>1. ASSUME UNCHANGED failures, stack' = frames, n \notin present'
      PROVE  CallsInOrder(stack', failures') /\ AllMet(stack', failures', InTree')
  <2>1. \A x \in InTree' : ~AtOrAbove(n, x)
    BY <1>1 DEF DiskGrown, Grown, InTree, AtOrAbove
  <2>2. QED
    BY <1>1, <2>1 DEF AllMet
<1>2. ASSUME NEW lock \in BOOLEAN, Fail(n, lock), stack' = frames
      PROVE  CallsInOrder(stack', failures') /\ AllMet(stack', failures', InTree')
  <2>1. failures' = failures \cup {<<n, lock>>}
    BY <1>2 DEF Fail
  <2>2. /\ CallsInOrder(frames, failures')
        /\ \A x : Explained(x, failures) \/ AtOrAbove(n, x)
                    => Explained(x, failures')
    BY <2>1, FailureBelow
  <2>3. QED
    BY <1>2, <2>2 DEF AllMet
<1>3. ASSUME Descends(n), UNCHANGED failures,
             stack' = Append(frames, [dir |-> n, open |-> FALSE, todo |-> {},
                                      before |-> failures])
      PROVE  CallsInOrder(stack', failures') /\ AllMet(stack', failures', InTree')
  <2> DEFINE frame == [dir |-> n, open |-> FALSE, todo |-> {}, before |-> failures]
  <2>1. frame \in FramesOf(r)
    BY <1>3 DEF FramesOf, Descends
  <2>2. /\ frame.dir = n /\ ~frame.open /\ frame.todo = {}
        /\ frame.before = failures
    OBVIOUS
  <2> HIDE DEF frame
  <2>3. /\ CallsInOrder(Append(frames, frame), failures)
        /\ \A x : Coming(x, frames) \/ Meets(x, frame)
                    => Coming(x, Append(frames, frame))
    BY <2>1, <2>2, FrameOnTop
  <2>4. \A x : AtOrAbove(n, x) => Meets(x, frame)
    BY <2>2 DEF AtOrAbove, Meets
  <2>5. stack' = Append(frames, frame)
    BY <1>3 DEF frame
  <2>6. QED
    BY <1>3, <2>3, <2>4, <2>5 DEF AllMet
<1>4. ASSUME RemoveCall(n), stack' = frames
      PROVE  CallsInOrder(stack', failures') /\ AllMet(stack', failures', InTree')
  <2>1. n \notin present' \/ \E lock \in BOOLEAN : Fail(n, lock)
    BY <1>4 DEF RemoveCall
  <2>2. n \notin present' => UNCHANGED failures
    BY <1>4 DEF RemoveCall
  <2>3. QED
    BY <1>1, <1>2, <1>4, <2>1, <2>2
<1>5. CASE n \notin present /\ stack' = frames /\ UNCHANGED <<present, failures>>
  BY <1>1, <1>5
<1>6. QED
  BY <1>2, <1>3, <1>4, <1>5 DEF CallFor

\* What is known of the innermost call and of those before it.
LEMMA InnermostCall ==
  ASSUME GivenTyped, CallTyped, PassInv, InFrame
  PROVE  LET top == Last(stack)
             rest == Front(stack)
         IN  /\ Root \in Roots
             /\ rest \in Seq(FramesOf(Root)) /\ top \in FramesOf(Root)
             /\ top.dir \in TreeOf[Root] /\ top.dir \in Entries
             /\ CallsInOrder(rest, failures)
             /\ \A i \in 1..Len(rest) : rest[i].dir \in Ancestors[top.dir]
             /\ top.todo \subseteq Children[top.dir]
             /\ top.before \subseteq failures
             /\ \A f \in failures \ top.before : top.dir \in Ancestors[f[1]]
             /\ \A n \in InTree : \/ Explained(n, failures) \/ Coming(n, rest)
                                  \/ Meets(n, top)
             /\ \A n \in Entries : Meets(n, top) => AtOrAbove(top.dir, n)
<1> DEFINE top == Last(stack)
           rest == Front(stack)
<1>1. /\ pc = "pass" /\ stack # <<>> /\ Root \in Roots
      /\ stack \in Seq(FramesOf(Root))
  BY DEF InFrame, GivenTyped, CallTyped
<1>2. CallsInOrder(stack, failures) /\ AllMet(stack, failures, InTree)
  BY <1>1 DEF PassInv
<1>3. /\ rest \in Seq(FramesOf(Root)) /\ top \in FramesOf(Root)
      /\ CallsInOrder(rest, failures)
      /\ \A i \in 1..Len(rest) : rest[i].dir \in Ancestors[top.dir]
      /\ top.todo \subseteq Children[top.dir]
      /\ top.before \subseteq failures
      /\ \A f \in failures \ top.before : top.dir \in Ancestors[f[1]]
      /\ \A n : Coming(n, stack) => Coming(n, rest) \/ Meets(n, top)
  BY <1>1, <1>2, FrameReturns
<1> HIDE DEF top, rest
<1>4. top.dir \in TreeOf[Root] /\ top.dir \in Entries
  BY <1>1, <1>3, RootInTree DEF FramesOf
<1>5. ASSUME NEW n \in Entries, Meets(n, top)
      PROVE  AtOrAbove(top.dir, n)
  <2>1. ASSUME NEW c \in top.todo, AtOrAbove(c, n)
        PROVE  AtOrAbove(top.dir, n)
    BY <1>3, <1>4, <2>1, ChildFacts DEF AtOrAbove
  <2>2. QED
    BY <1>5, <2>1 DEF Meets, AtOrAbove
<1>6. QED
  BY <1>1, <1>2, <1>3, <1>4, <1>5 DEF AllMet, top, rest

\* A directory is opened: what lies in it lies at or below an entry of the
\* listing.
LEMMA OpenKeepsAll ==
  ASSUME GivenTyped, CallTyped, DiskGrown, PassInv, OpenDir
  PROVE  CallsInOrder(stack', failures') /\ AllMet(stack', failures', InTree')
<1> DEFINE top == Last(stack)
           rest == Front(stack)
<1>1. InFrame /\ InTree' = InTree
  BY DEF OpenDir, InTree
<1>2. InTree \subseteq Entries
  BY DEF InTree, Entries
<1>3. /\ Root \in Roots
      /\ rest \in Seq(FramesOf(Root)) /\ top \in FramesOf(Root)
      /\ top.dir \in TreeOf[Root]
      /\ CallsInOrder(rest, failures)
      /\ \A i \in 1..Len(rest) : rest[i].dir \in Ancestors[top.dir]
      /\ top.before \subseteq failures
      /\ \A f \in failures \ top.before : top.dir \in Ancestors[f[1]]
      /\ \A n \in InTree : \/ Explained(n, failures) \/ Coming(n, rest)
                           \/ AtOrAbove(top.dir, n)
  BY <1>1, <1>2, InnermostCall
<1>4. CASE /\ top.dir \in present /\ UNCHANGED failures
           /\ stack' = Append(rest, [top EXCEPT !.open = TRUE,
                                       !.todo = Children[top.dir] \cap present])
  <2> DEFINE list == Children[top.dir] \cap present
             frame == [top EXCEPT !.open = TRUE, !.todo = list]
  <2>1. /\ frame.dir = top.dir /\ frame.open = TRUE /\ frame.todo = list
        /\ frame.before = top.before
    BY <1>3 DEF FramesOf
  <2>2. list \subseteq TreeOf[Root]
    <3>1. Kind[top.dir] # "link"
      BY <1>3 DEF FramesOf
    <3>2. QED
      BY <1>3, <3>1, ListingStaysInside
  <2>3. frame \in FramesOf(Root)
    BY <1>3, <2>2 DEF FramesOf
  <2> HIDE DEF frame
  <2>4. /\ CallsInOrder(Append(rest, frame), failures)
        /\ \A n : Coming(n, rest) \/ Meets(n, frame)
                    => Coming(n, Append(rest, frame))
    BY <1>3, <2>1, <2>3, FrameOnTop
  <2>5. ASSUME NEW n \in InTree, AtOrAbove(top.dir, n)
        PROVE  Meets(n, frame)
    <3>1. CASE n = top.dir
      BY <2>1, <3>1 DEF Meets
    <3>2. CASE top.dir \in Ancestors[n]
      <4>1. PICK c \in Children[top.dir] \cap InTree : AtOrAbove(c, n)
        BY <3>2, ChildOnTheWay
      <4>2. c \in frame.todo
        BY <2>1, <4>1 DEF InTree
      <4>3. QED
        BY <4>1, <4>2 DEF Meets
    <3>3. QED
      BY <2>5, <3>1, <3>2 DEF AtOrAbove
  <2>6. stack' = Append(rest, frame)
    BY <1>4 DEF frame
  <2>7. QED
    BY <1>1, <1>3, <1>4, <2>4, <2>5, <2>6 DEF AllMet
<1>5. CASE Fail(top.dir, FALSE) /\ stack' = rest
  <2>1. failures' = failures \cup {<<top.dir, FALSE>>}
    BY <1>5 DEF Fail
  <2>2. /\ CallsInOrder(rest, failures')
        /\ \A x : Explained(x, failures) \/ AtOrAbove(top.dir, x)
                    => Explained(x, failures')
    BY <1>3, <2>1, FailureBelow
  <2>3. QED
    BY <1>1, <1>3, <1>5, <2>2 DEF AllMet
<1>6. QED
  BY <1>4, <1>5 DEF OpenDir

\* The next entry of the listing.
LEMMA EntryKeepsAll ==
  ASSUME GivenTyped, CallTyped, PassInv, TakeEntry, DiskGrown', InTree' \subseteq InTree
  PROVE  CallsInOrder(stack', failures') /\ AllMet(stack', failures', InTree')
<1> DEFINE top == Last(stack)
<1>1. InFrame /\ top.open
  BY DEF TakeEntry
<1>2. /\ Root \in Roots
      /\ Front(stack) \in Seq(FramesOf(Root)) /\ top \in FramesOf(Root)
      /\ top.dir \in TreeOf[Root] /\ top.dir \in Entries
      /\ CallsInOrder(Front(stack), failures)
      /\ \A i \in 1..Len(Front(stack)) : Front(stack)[i].dir \in Ancestors[top.dir]
      /\ top.todo \subseteq Children[top.dir]
      /\ top.before \subseteq failures
      /\ \A f \in failures \ top.before : top.dir \in Ancestors[f[1]]
      /\ \A n \in InTree : \/ Explained(n, failures) \/ Coming(n, Front(stack))
                           \/ Meets(n, top)
  BY <1>1, InnermostCall
<1>3. PICK n \in top.todo :
        LET rest == Append(Front(stack), [top EXCEPT !.todo = @ \ {n}])
        IN  \/ Kind[n] = "file" /\ RemoveCall(n) /\ stack' = rest
            \/ CallFor(n, rest)
  BY Zenon DEF TakeEntry
<1> DEFINE frame == [top EXCEPT !.todo = @ \ {n}]
           rest == Append(Front(stack), frame)
<1>4. /\ frame.dir = top.dir /\ frame.open = TRUE /\ frame.todo = top.todo \ {n}
      /\ frame.before = top.before /\ frame \in FramesOf(Root)
      /\ n \in TreeOf[Root]
  BY <1>1, <1>2 DEF FramesOf
<1> HIDE DEF frame
<1>5. /\ CallsInOrder(rest, failures)
      /\ \A x : Coming(x, Front(stack)) \/ Meets(x, frame) => Coming(x, rest)
  BY <1>2, <1>4, FrameOnTop
<1>6. /\ rest \in Seq(FramesOf(Root))
      /\ \A i \in 1..Len(rest) : rest[i].dir \in Ancestors[n]
  <2>1. top.dir \in Ancestors[n] /\ Ancestors[top.dir] \subseteq Ancestors[n]
    BY <1>2, <1>3, ChildFacts
  <2>2. /\ rest \in Seq(FramesOf(Root)) /\ Len(rest) = Len(Front(stack)) + 1
        /\ rest[Len(Front(stack)) + 1] = frame
        /\ \A i \in 1..Len(Front(stack)) : rest[i] = Front(stack)[i]
    BY <1>2, <1>4, StackPush
  <2>3. Len(Front(stack)) \in Nat
    BY <1>2
  <2>4. ASSUME NEW i \in 1..Len(rest)
        PROVE  rest[i].dir \in Ancestors[n]
    <3>1. i = Len(Front(stack)) + 1 \/ i \in 1..Len(Front(stack))
      BY <2>2, <2>3
    <3>2. QED
      BY <1>2, <1>4, <2>1, <2>2, <3>1
  <2>5. QED
    BY <2>2, <2>4
<1>7. ASSUME NEW x \in InTree
      PROVE  Explained(x, failures) \/ Coming(x, rest) \/ AtOrAbove(n, x)
  <2>1. Meets(x, top) => Meets(x, frame) \/ AtOrAbove(n, x)
    BY <1>1, <1>4 DEF Meets
  <2>2. QED
    BY <1>2, <1>5, <2>1
<1>8. failures \subseteq Failures
  BY DEF CallTyped
<1>9. \/ CallFor(n, rest)
      \/ Kind[n] = "file" /\ RemoveCall(n) /\ stack' = rest
  BY <1>3 DEF frame
<1> HIDE DEF rest
<1>10. QED
  BY <1>2, <1>4, <1>5, <1>6, <1>7, <1>8, <1>9, CallKeepsAll

\* A directory is left: it went, or something below it failed, or it failed.
LEMMA LeaveKeepsAll ==
  ASSUME GivenTyped, CallTyped, PassInv, LeaveDir
  PROVE  CallsInOrder(stack', failures') /\ AllMet(stack', failures', InTree')
<1> DEFINE top == Last(stack)
           rest == Front(stack)
<1>1. /\ InFrame /\ top.open /\ top.todo = {} /\ stack' = rest
      /\ InTree' \subseteq InTree
  BY DEF LeaveDir, InTree
<1>2. /\ Root \in Roots /\ top.dir \in TreeOf[Root]
      /\ CallsInOrder(rest, failures)
      /\ \A i \in 1..Len(rest) : rest[i].dir \in Ancestors[top.dir]
      /\ top.before \subseteq failures
      /\ \A f \in failures \ top.before : top.dir \in Ancestors[f[1]]
      /\ \A n \in InTree : \/ Explained(n, failures) \/ Coming(n, rest)
                           \/ Meets(n, top)
  BY <1>1, InnermostCall
<1>3. \A n : Meets(n, top) => n = top.dir
  BY <1>1 DEF Meets
<1>4. CASE top.dir \notin present' /\ UNCHANGED failures
  BY <1>1, <1>2, <1>3, <1>4 DEF AllMet, InTree
<1>5. CASE failures # top.before /\ UNCHANGED failures
  <2>1. Explained(top.dir, failures)
    BY <1>2, <1>5 DEF Explained, AtOrAbove
  <2>2. QED
    BY <1>1, <1>2, <1>3, <1>5, <2>1 DEF AllMet
<1>6. ASSUME NEW lock, Fail(top.dir, lock)
      PROVE  CallsInOrder(stack', failures') /\ AllMet(stack', failures', InTree')
  <2>1. failures' = failures \cup {<<top.dir, lock>>}
    BY <1>6 DEF Fail
  <2>2. /\ CallsInOrder(rest, failures')
        /\ \A x : Explained(x, failures) \/ AtOrAbove(top.dir, x)
                    => Explained(x, failures')
    BY <1>2, <2>1, FailureBelow
  <2>3. QED
    BY <1>1, <1>2, <1>3, <2>2 DEF AllMet, AtOrAbove
<1>7. \/ top.dir \notin present' /\ UNCHANGED failures
      \/ failures # top.before /\ UNCHANGED failures
      \/ \E lock : Fail(top.dir, lock)
  BY DEF LeaveDir, BlamedOnAnEntry
<1>8. QED
  BY <1>4, <1>5, <1>6, <1>7

\* A pass begins with the call for the candidate.
LEMMA BeginKeepsAll ==
  ASSUME GivenTyped, CallTyped, DiskGrown, BeginPass, DiskGrown', InTree' \subseteq InTree
  PROVE  CallsInOrder(stack', failures') /\ AllMet(stack', failures', InTree')
<1>1. CallFor(Root, <<>>) /\ Root \in Roots /\ Root \in TreeOf[Root]
  BY RootInTree DEF BeginPass, GivenTyped
<1>2. \A x \in InTree : AtOrAbove(Root, x)
  BY <1>1 DEF DiskGrown, TreeOf, AtOrAbove
<1>3. PICK none \in Seq(FramesOf(Root)) : none = <<>> /\ 1..Len(none) = {}
  <2>1. <<>> \in Seq(FramesOf(Root)) /\ 1..Len(<<>>) = {}
    OBVIOUS
  <2>2. QED
    BY <2>1, Zenon
<1>4. CallsInOrder(none, failures)
  BY <1>3 DEF CallsInOrder, FramesNest, BlameBelow
<1>5. failures \subseteq Failures
  BY DEF CallTyped
<1>6. CallFor(Root, none)
  BY <1>1, <1>3, Zenon
<1>7. QED
  BY <1>1, <1>2, <1>3, <1>4, <1>5, <1>6, CallKeepsAll

\* What the three theorems need to know of the disk, the calls and the walk in
\* a world in which nothing appears.
QuietInv == TypeInv /\ DiskGrown /\ PassInv

LEMMA QuietInit == Init => QuietInv
<1>1. Init => PassInv
  BY DEF Init, PassInv
<1>2. QED
  BY <1>1, InitTyped, DiskGrownInit DEF QuietInv

LEMMA QuietStep ==
  ASSUME QuietInv, "appear" \notin Faults, [Next]_vars
  PROVE  QuietInv' /\ InTree' \subseteq InTree
<1>1. TypeInv' /\ GivenTyped /\ DiskTyped /\ CallTyped
  BY TypeStep DEF QuietInv, NoLinkAppears, TypeInv
<1>2. DiskGrown'
  BY <1>1, DiskGrownStep DEF QuietInv
<1>3. InTree' \subseteq InTree
  BY PresentChanges DEF InTree
<1>4. PassInv'
  <2>1. CASE BeginPass \/ OpenDir \/ TakeEntry \/ LeaveDir
    BY <1>1, <1>2, <1>3, <2>1, BeginKeepsAll, OpenKeepsAll, EntryKeepsAll,
       LeaveKeepsAll DEF QuietInv, PassInv
  <2>2. CASE UNCHANGED <<stack, failures>> /\ (pc' = "pass" => pc = "pass")
    BY <1>3, <2>2 DEF QuietInv, PassInv, AllMet
  <2>3. CASE pc' # "pass"
    BY <2>3 DEF PassInv
  <2>4. CASE \/ ProbeAborts \/ Probe \/ CheckSafe \/ TakeOwnership \/ Dispatch
             \/ PassEnds \/ DeleteFile \/ RetryFile \/ Explain \/ WalkRoot
             \/ WalkExpand \/ WalkEntry \/ WalkEmit \/ WalkEnds \/ Verify
    <3>1. pc' # "pass"
      BY <2>4, Zenon DEF ProbeAborts, Probe, CheckSafe, TakeOwnership, Dispatch,
         PassEnds, DeleteFile, RetryFile, FileGone, FileStays, Explain, WalkRoot,
         WalkExpand, WalkEntry, WalkEmit, WalkEnds, Verify, Visit, Settle, Goto
    <3>2. QED
      BY <2>3, <3>1
  <2>5. CASE AtRestart \/ Others \/ CtrlC \/ AllDone \/ UNCHANGED vars
    <3>1. UNCHANGED <<stack, failures>> /\ (pc' = "pass" => pc = "pass")
      BY <2>5, Zenon DEF AtRestart, PowerOff, RestartDeletes, Restarted, Others,
         CtrlC, AllDone, Goto, callVars, vars
    <3>2. QED
      BY <2>2, <3>1
  <2>6. QED
    BY <2>1, <2>4, <2>5, Zenon DEF Next, Removal
<1>5. QED
  BY <1>1, <1>2, <1>3, <1>4 DEF QuietInv

\* The world a behaviour is in stays: what never happens in it is known from
\* the beginning.
QuietWorld == "appear" \notin Faults => QuietInv

LEMMA QuietWorldHolds == Spec => []QuietWorld
<1>1. Init => QuietWorld
  BY QuietInit DEF QuietWorld
<1>2. QuietWorld /\ [Next]_vars => QuietWorld'
  BY QuietStep, GivenStays DEF QuietWorld
<1>3. QED
  BY <1>1, <1>2, PTL DEF Spec

LEMMA AllExplained ==
  ASSUME QuietInv, pc = "pass", stack = <<>>
  PROVE  \A n \in InTree : Explained(n, failures)
<1>1. AllMet(stack, failures, InTree)
  BY DEF QuietInv, PassInv
<1>2. \A n : ~Coming(n, stack)
  BY DEF Coming
<1>3. QED
  BY <1>1, <1>2 DEF AllMet

\* When a pass is over, whatever is left of the candidate stands at, above or
\* below a failure that the pass has recorded, for every forest, every set of
\* worlds and every interference but new entries: leaving out a directory
\* whose entry failed never leaves out everything.
THEOREM LeftoversHaveAFailure == Spec => []LeftoversAreExplained
<1>1. QuietWorld => LeftoversAreExplained
  BY AllExplained
     DEF QuietWorld, LeftoversAreExplained, Explained, AtOrAbove, InTree
<1>2. QED
  BY <1>1, QuietWorldHolds, PTL

-----------------------------------------------------------------------------
(* The row of a candidate that stays.                                      *)

\* The candidate itself was given to MoveFileExW, or its action says that it
\* could not be.
Handled == status = "WARN" \/ Root \in Queued

\* The inductive invariant of the report: the candidate's frame lies at the
\* bottom of the walk until it is handled, and what comes to the check is gone
\* or has an action, unless the run was aborted.
ReportInv ==
  /\ pc = "walking" => Handled \/ (work # <<>> /\ work[1][2] = Root)
  /\ pc = "verify" => \/ aborted \/ Root \notin present \/ Handled
                      \/ status \in {"SKIP", "DRYRUN"}
  /\ row \in {"stillPresent", "noAction"} => aborted

LEMMA ReportInit == Init => ReportInv
BY DEF Init, ReportInv

LEMMA QueuedGrows ==
  ASSUME NEW n, queue \in Seq(Tree), n \in Tree, queue' = Append(queue, n)
  PROVE  Queued' = Queued \cup {n}
<1>1. /\ Len(queue') = Len(queue) + 1 /\ queue'[Len(queue) + 1] = n
      /\ \A i \in 1..Len(queue) : queue'[i] = queue[i]
  BY StackPush
<1>2. 1..Len(queue) + 1 = 1..Len(queue) \cup {Len(queue) + 1}
  OBVIOUS
<1>3. QED
  BY <1>1, <1>2 DEF Queued

\* A visit of an entry other than the candidate leaves its action alone; a
\* visit of the candidate handles it.
LEMMA VisitHandles ==
  ASSUME NEW n \in Tree, NEW next, queue \in Seq(Tree), Visit(n, next), Root' = Root
  PROVE  \/ aborted' /\ pc' = "verify"
         \/ pc' = next /\ (Handled \/ n = Root => Handled')
<1>1. CASE abort
  BY <1>1 DEF Visit
<1>2. CASE ~abort /\ queue' = Append(queue, n) /\ status' = StatusAfter(n, TRUE)
           /\ pc' = next
  <2>1. Queued' = Queued \cup {n}
    BY <1>2, QueuedGrows
  <2>2. QED
    BY <1>2, <2>1 DEF Handled, StatusAfter
<1>3. CASE ~abort /\ queue' = queue /\ status' = StatusAfter(n, FALSE) /\ pc' = next
  <2>1. Queued' = Queued
    BY <1>3 DEF Queued
  <2>2. QED
    BY <1>3, <2>1 DEF Handled, StatusAfter
<1>4. QED
  BY <1>1, <1>2, <1>3 DEF Visit

\* The row is written from what the check finds.
LEMMA VerifyGivesReason ==
  ASSUME TypeInv, ReportInv, Verify
  PROVE  row' \in {"stillPresent", "noAction"} => aborted'
<1>1. SUFFICES ASSUME row' \in {"stillPresent", "noAction"}
               PROVE  aborted
  BY DEF Verify
<1>2. Root \in Entries
  BY RootInTree DEF TypeInv, GivenTyped
<1>3. Root \in present /\ row' = VerifyOutcome(Root \in Queued)
  BY <1>1, <1>2, TreeAssumption DEF Verify, KindProbes
<1>4. pc = "verify" /\ status \in {"none", "SKIP", "DRYRUN", "INFO", "WARN"}
  BY DEF Verify, Goto, TypeInv, SayTyped
<1>5. CASE Root \in Queued
  BY <1>1, <1>3, <1>4, <1>5 DEF VerifyOutcome, ReportInv
<1>6. CASE Root \notin Queued
  BY <1>1, <1>3, <1>4, <1>6 DEF VerifyOutcome, ReportInv, Handled
<1>7. QED
  BY <1>5, <1>6

\* The walk ends when the candidate's own frame has been visited.
LEMMA WalkReports ==
  ASSUME TypeInv, ReportInv, Root' = Root, UNCHANGED <<present, row>>,
         WalkRoot \/ WalkExpand \/ WalkEntry \/ WalkEmit \/ WalkEnds
  PROVE  ReportInv'
<1>1. /\ Root \in Roots /\ queue \in Seq(Tree) /\ work \in Seq(WorksOf(Root))
      /\ listed \subseteq TreeOf[Root] /\ TreeOf[Root] \subseteq Tree
      /\ Root \in Tree
  BY RootInTree DEF TypeInv, GivenTyped, WalkTyped
<1>2. (aborted => aborted') => (row' \in {"stillPresent", "noAction"} => aborted')
  BY DEF ReportInv
<1>3. aborted => aborted'
  BY Zenon DEF WalkRoot, WalkExpand, WalkEntry, WalkEmit, WalkEnds, Visit, sayVars
<1>4. CASE WalkRoot
  <2>1. CASE work' = <<<<"expand", Root>>>> /\ pc' = "walking"
    BY <1>2, <1>3, <2>1 DEF ReportInv
  <2>2. CASE Visit(Root, "verify")
    BY <1>1, <1>2, <1>3, <2>2, VisitHandles DEF ReportInv
  <2>3. QED
    BY <1>4, <2>1, <2>2 DEF WalkRoot
<1>5. CASE WalkExpand
  <2>1. /\ pc' = "walking" /\ pc = "walking" /\ work # <<>>
        /\ UNCHANGED <<queue, status>>
        /\ work' = Append(Front(work), <<"emit", Last(work)[2]>>)
    BY <1>5 DEF WalkExpand, sayVars
  <2>2. /\ Len(work) \in Nat \ {0} /\ Front(work) \in Seq(WorksOf(Root))
        /\ Len(Front(work)) = Len(work) - 1 /\ Last(work) \in WorksOf(Root)
        /\ \A i \in 1..Len(work) - 1 : Front(work)[i] = work[i]
    BY <1>1, <2>1, StackTop
  <2>3. <<"emit", Last(work)[2]>> \in WorksOf(Root)
    BY <2>2 DEF WorksOf
  <2>4. /\ Len(work') = Len(work)
        /\ work'[Len(work)] = <<"emit", Last(work)[2]>>
        /\ \A i \in 1..Len(work) - 1 : work'[i] = work[i]
    BY <2>1, <2>2, <2>3, StackPush
  <2>5. work' # <<>> /\ work'[1][2] = work[1][2]
    <3>1. CASE Len(work) = 1
      BY <2>4, <3>1 DEF Last
    <3>2. CASE Len(work) # 1
      <4>1. 1 \in 1..Len(work) - 1
        BY <2>2, <3>2
      <4>2. QED
        BY <2>2, <2>4, <4>1
    <3>3. QED
      BY <2>2, <2>4, <3>1, <3>2
  <2>6. Handled => Handled'
    BY <2>1 DEF Handled, Queued
  <2>7. QED
    BY <1>2, <1>3, <2>1, <2>5, <2>6 DEF ReportInv
<1>6. CASE WalkEntry
  <2>1. pc = "walking"
    BY <1>6 DEF WalkEntry
  <2>2. PICK n \in listed :
          \/ /\ Kind[n] = "dir" /\ work' = Pushed(n)
             /\ UNCHANGED <<queue, status, aborted, pc>>
          \/ Visit(n, "walking") /\ UNCHANGED work
    BY <1>6, Zenon DEF WalkEntry
  <2>3. n \in TreeOf[Root] /\ n \in Tree
    BY <1>1
  <2>4. CASE Kind[n] = "dir" /\ work' = Pushed(n) /\ UNCHANGED <<queue, status, pc>>
    <3>1. <<"expand", n>> \in WorksOf(Root)
      BY <2>3 DEF WorksOf
    <3>2. /\ Len(work') = Len(work) + 1 /\ Len(work) \in Nat
          /\ \A i \in 1..Len(work) : work'[i] = work[i]
      BY <1>1, <2>4, <3>1, StackPush DEF Pushed
    <3>3. work # <<>> => work' # <<>> /\ work'[1] = work[1]
      BY <1>1, <3>2
    <3>4. Handled => Handled'
      BY <2>4 DEF Handled, Queued
    <3>5. QED
      BY <1>2, <1>3, <2>1, <2>4, <3>3, <3>4 DEF ReportInv
  <2>5. CASE Visit(n, "walking") /\ UNCHANGED work
    BY <1>1, <1>2, <1>3, <2>1, <2>3, <2>5, VisitHandles DEF ReportInv
  <2>6. QED
    BY <2>2, <2>4, <2>5
<1>7. CASE WalkEmit
  <2>1. /\ pc = "walking" /\ work # <<>> /\ work' = Front(work)
        /\ Visit(Last(work)[2], "walking")
    BY <1>7 DEF WalkEmit
  <2>2. /\ Len(work) \in Nat \ {0} /\ Len(Front(work)) = Len(work) - 1
        /\ Last(work) \in WorksOf(Root)
        /\ \A i \in 1..Len(work) - 1 : Front(work)[i] = work[i]
    BY <1>1, <2>1, StackTop
  <2>3. Last(work)[2] \in Tree
    BY <1>1, <2>2 DEF WorksOf
  <2>4. CASE Handled \/ Last(work)[2] = Root
    BY <1>1, <1>2, <1>3, <2>1, <2>3, <2>4, VisitHandles DEF ReportInv
  <2>5. CASE ~Handled /\ Last(work)[2] # Root
    <3>1. work[1][2] = Root
      BY <2>1, <2>5 DEF ReportInv
    <3>2. 1 \in 1..Len(work) - 1
      BY <2>2, <2>5, <3>1 DEF Last
    <3>3. work' # <<>> /\ work'[1][2] = Root
      BY <2>1, <2>2, <3>1, <3>2
    <3>4. pc' = "walking" \/ aborted'
      BY <1>1, <2>1, <2>3, VisitHandles
    <3>5. QED
      BY <1>2, <1>3, <2>1, <3>3, <3>4 DEF ReportInv
  <2>6. QED
    BY <2>4, <2>5
<1>8. CASE WalkEnds
  <2>1. /\ pc = "walking" /\ work = <<>> /\ pc' = "verify"
        /\ UNCHANGED <<queue, status>>
    BY <1>8 DEF WalkEnds, Goto, sayVars
  <2>2. Handled'
    BY <2>1 DEF ReportInv, Handled, Queued
  <2>3. QED
    BY <1>2, <1>3, <2>1, <2>2 DEF ReportInv
<1>9. QED
  BY <1>4, <1>5, <1>6, <1>7, <1>8

LEMMA ReportStep ==
  ASSUME QuietInv, ReportInv, "appear" \notin Faults, [Next]_vars
  PROVE  ReportInv'
<1>1. Root' = Root /\ TypeInv /\ Root \in Roots /\ Root \in Tree
  BY GivenStays, RootInTree DEF QuietInv, TypeInv, GivenTyped
<1>2. ASSUME UNCHANGED <<row, aborted>>, pc' \notin {"walking", "verify"}
      PROVE  ReportInv'
  BY <1>2 DEF ReportInv
<1>3. ASSUME UNCHANGED <<row, aborted>>, pc' = "verify",
             status' \in {"SKIP", "DRYRUN", "WARN"} \/ Root \notin present'
      PROVE  ReportInv'
  BY <1>1, <1>3 DEF ReportInv, Handled
<1>4. CASE ProbeAborts
  BY <1>4 DEF ProbeAborts, Goto, ReportInv
<1>5. CASE Probe
  BY <1>2, <1>3, <1>5 DEF Probe, Settle, Goto, sayVars
<1>6. CASE CheckSafe
  BY <1>2, <1>3, <1>6 DEF CheckSafe, Settle, Goto, sayVars
<1>7. CASE TakeOwnership \/ Dispatch \/ BeginPass \/ OpenDir \/ TakeEntry \/ LeaveDir
  <2>1. UNCHANGED <<row, aborted>> /\ pc' \notin {"walking", "verify"}
    BY <1>7, Zenon DEF TakeOwnership, Dispatch, BeginPass, OpenDir, TakeEntry,
       LeaveDir, InFrame, Goto, sayVars
  <2>2. QED
    BY <1>2, <2>1
<1>8. CASE PassEnds
  <2>1. CASE failures = {} /\ Settle("pass", "removed", "INFO") /\ stack = <<>>
    <3>1. pc = "pass"
      BY <2>1 DEF Settle, Goto
    <3>2. \A n \in InTree : Explained(n, failures)
      BY <2>1, <3>1, AllExplained
    <3>3. Root \notin present
      BY <1>1, <2>1, <3>2 DEF Explained, InTree
    <3>4. QED
      BY <1>3, <2>1, <3>3 DEF Settle, Goto, diskVars
  <2>2. CASE UNCHANGED <<row, aborted>> /\ pc' \in {"root", "explain"}
    BY <1>2, <2>2
  <2>3. QED
    BY <1>8, <2>1, <2>2 DEF PassEnds, sayVars
<1>9. CASE DeleteFile \/ RetryFile
  <2>1. /\ UNCHANGED <<row, aborted>>
        /\ \/ pc' = "verify" /\ present' = present \ {Root}
           \/ pc' \in {"retry", "explain"}
    BY <1>9, Zenon DEF DeleteFile, RetryFile, FileGone, FileStays, Goto
  <2>2. QED
    BY <1>2, <1>3, <2>1
<1>10. CASE Explain
  <2>1. /\ UNCHANGED <<row, aborted>> /\ pc' \in {"walk", "verify"}
        /\ pc' = "verify" => status' = "WARN"
    BY <1>10 DEF Explain
  <2>2. QED
    BY <1>2, <1>3, <2>1
<1>11. CASE WalkRoot \/ WalkExpand \/ WalkEntry \/ WalkEmit \/ WalkEnds
  <2>1. UNCHANGED <<present, row>>
    BY <1>11, Zenon DEF WalkRoot, WalkExpand, WalkEntry, WalkEmit, WalkEnds,
       diskVars, sayVars
  <2>2. QED
    BY <1>1, <1>11, <2>1, WalkReports
<1>12. CASE Verify
  <2>1. pc' = "reported"
    BY <1>12 DEF Verify, Goto
  <2>2. QED
    BY <1>1, <1>12, <2>1, VerifyGivesReason DEF ReportInv
<1>13. CASE AtRestart
  <2>1. UNCHANGED <<row, aborted>> /\ pc' \notin {"walking", "verify"}
    BY <1>13, Zenon DEF AtRestart, PowerOff, RestartDeletes, Restarted, Goto, sayVars
  <2>2. QED
    BY <1>2, <2>1
<1>14. CASE Others \/ CtrlC \/ AllDone \/ UNCHANGED vars
  <2>1. UNCHANGED <<row, aborted, pc, queue, status, work>>
    BY <1>14, Zenon DEF Others, CtrlC, AllDone, vars, sayVars, walkVars
  <2>2. Root \notin present => Root \notin present'
    BY <1>1, QuietStep DEF InTree
  <2>3. Handled' = Handled
    BY <1>1, <2>1 DEF Handled, Queued
  <2>4. QED
    BY <1>1, <2>1, <2>2, <2>3 DEF ReportInv
<1>15. QED
  BY <1>4, <1>5, <1>6, <1>7, <1>8, <1>9, <1>10, <1>11, <1>12, <1>13, <1>14, Zenon
     DEF Next, Removal

\* A candidate that stays has a reason in its row, unless the run was aborted:
\* it is reported as failed, scheduled or skipped, for every forest, every set
\* of worlds and every interference but new entries.  It rests on the theorem
\* before: a pass without a failure has left nothing.
THEOREM WhatStaysHasAReason == Spec => []NoReasonOnlyIfAborted
<1> DEFINE Inv == "appear" \notin Faults => ReportInv
<1>1. Init => Inv
  BY ReportInit
<1>2. QuietWorld /\ Inv /\ [Next]_vars => Inv'
  BY ReportStep, GivenStays DEF QuietWorld
<1>3. Inv => NoReasonOnlyIfAborted
  BY DEF ReportInv, NoReasonOnlyIfAborted
<1>4. QED
  BY <1>1, <1>2, <1>3, QuietWorldHolds, PTL DEF Spec

-----------------------------------------------------------------------------
(* Protected DriverStore directories.                                      *)

\* A protected directory is never past the second probe, with nothing queued.
ProtectedInv ==
  /\ PackageDir /\ Kind[Root] # "file" /\ Root \in present
  /\ {"vanish", "appear"} \cap Faults = {}
  => /\ pc \in {"probe", "safe", "verify", "reported", "restart", "done"}
     /\ queue = <<>>

LEMMA ProtectedStep ==
  ASSUME GivenTyped, ProtectedInv, [Next]_vars
  PROVE  ProtectedInv'
<1>1. /\ Root' = Root /\ Faults' = Faults /\ PackageDir' = PackageDir
      /\ Root \in Roots /\ Root \in Entries
  BY GivenStays, RootInTree DEF PackageDir, GivenTyped
<1>2. SUFFICES ASSUME PackageDir, Kind[Root] # "file", Root \in present',
                      {"vanish", "appear"} \cap Faults = {}
               PROVE  /\ pc' \in {"probe", "safe", "verify", "reported",
                                  "restart", "done"}
                      /\ queue' = <<>>
  BY <1>1 DEF ProtectedInv
<1>3. Root \in present
  BY <1>2, PresentChanges
<1>4. /\ pc \in {"probe", "safe", "verify", "reported", "restart", "done"}
      /\ queue = <<>>
  BY <1>2, <1>3 DEF ProtectedInv
<1>5. CASE CheckSafe
  <2>1. Kind[Root] \in {"dir", "link"}
    BY <1>1, <1>2, TreeAssumption
  <2>2. \A k \in KindProbes(Root) : UnsafeTarget(k)
    BY <1>2, <1>3, <2>1 DEF KindProbes, UnsafeTarget
  <2>3. QED
    BY <1>4, <1>5, <2>2, Zenon DEF CheckSafe, Settle, Goto
<1>6. CASE ProbeAborts \/ Probe
  BY <1>4, <1>6, Zenon DEF ProbeAborts, Probe, Settle, Goto
<1>7. CASE Verify \/ PowerOff \/ Restarted \/ Others \/ CtrlC \/ AllDone
           \/ UNCHANGED vars
  BY <1>4, <1>7, Zenon DEF Verify, PowerOff, Restarted, Others, CtrlC, AllDone,
     vars, Goto
<1>8. ~RestartDeletes
  BY <1>4 DEF RestartDeletes
<1>9. /\ ~TakeOwnership /\ ~Dispatch /\ ~BeginPass /\ ~OpenDir /\ ~TakeEntry
      /\ ~LeaveDir /\ ~PassEnds /\ ~DeleteFile /\ ~RetryFile /\ ~Explain
      /\ ~WalkRoot /\ ~WalkExpand /\ ~WalkEntry /\ ~WalkEmit /\ ~WalkEnds
  <2>1. pc \notin {"own", "kind", "root", "pass", "file", "retry", "explain",
                   "walk", "walking"}
    BY <1>4
  <2>2. /\ ~TakeOwnership /\ ~Dispatch /\ ~BeginPass /\ ~OpenDir /\ ~TakeEntry
        /\ ~LeaveDir /\ ~PassEnds
    BY <2>1 DEF TakeOwnership, Dispatch, BeginPass, OpenDir, TakeEntry, LeaveDir,
       PassEnds, InFrame, Goto
  <2>3. ~DeleteFile /\ ~RetryFile
    BY <2>1, Zenon DEF DeleteFile, RetryFile, FileGone, FileStays, Goto
  <2>4. /\ ~Explain /\ ~WalkRoot /\ ~WalkExpand /\ ~WalkEntry /\ ~WalkEmit
        /\ ~WalkEnds
    BY <2>1 DEF Explain, WalkRoot, WalkExpand, WalkEntry, WalkEmit, WalkEnds, Goto
  <2>5. QED
    BY <2>2, <2>3, <2>4
<1>10. QED
  BY <1>5, <1>6, <1>7, <1>8, <1>9, Zenon DEF Next, Removal, AtRestart

\* A protected DriverStore directory that is there is neither removed nor
\* queued, whatever the probes of its path answer, for every forest and every
\* set of worlds in which nothing comes or goes.
THEOREM ProtectedStays == Spec => []ProtectedIsSkipped
<1>1. Init => GivenTyped /\ ProtectedInv
  <2>1. Init => GivenTyped
    BY InitTyped DEF TypeInv
  <2>2. Init => ProtectedInv
    BY DEF Init, ProtectedInv
  <2>3. QED
    BY <2>1, <2>2
<1>2. GivenTyped /\ ProtectedInv /\ [Next]_vars => (GivenTyped /\ ProtectedInv)'
  BY ProtectedStep, GivenStays DEF GivenTyped, Given
<1>3. ProtectedInv => ProtectedIsSkipped
  BY DEF ProtectedInv, ProtectedIsSkipped
<1>4. QED
  BY <1>1, <1>2, <1>3, PTL DEF Spec

-----------------------------------------------------------------------------
(* What is scheduled goes at the restart.                                  *)

\* The queue holds nothing after a directory it lies in.
QueueInOrder ==
  \A i, j \in 1..Len(queue) : i < j => queue[i] \notin Ancestors[queue[j]]

NoneReadOnly == \A n \in InTree : hold[n] # "readonly"

\* The walk will still come to n.
ToVisit(n, w, l) ==
  \/ \E c \in l : AtOrAbove(c, n)
  \/ \E i \in 1..Len(w) :
       \/ n = w[i][2]
       \/ w[i][1] = "expand" /\ w[i][2] \in Ancestors[n]

\* Every entry there is is in the queue, or still to be visited.
AllVisited(w, l) == \A n \in InTree : n \in Queued \/ ToVisit(n, w, l)

\* The candidate itself is queued last.
RootIsLast ==
  /\ Root \notin listed
  /\ pc = "walking" /\ Root \in Queued => work = <<>> /\ listed = {}

\* What the queue will find: every entry there is is in it, and none of them is
\* read-only.
QueueIsWhole == InTree \subseteq Queued /\ NoneReadOnly

\* The inductive invariant of the deletions at the restart, in a world without
\* failing calls: the second pass starts with no entry read-only, the walk
\* passes none over, and the candidate is scheduled once all of it is queued.
RestartInv ==
  /\ QueueInOrder
  /\ RootIsLast
  /\ pc \in {"file", "retry"} => Kind[Root] # "dir" \/ Root \notin present
  /\ pass = 2 => NoneReadOnly
  /\ pc \in {"explain", "walk", "walking"} => NoneReadOnly
  /\ pc = "walking" => AllVisited(work, listed)
  /\ pc \in {"verify", "reported"} /\ Root \in Queued => QueueIsWhole
  /\ pc = "done" => queue = <<>>
  /\ row = "scheduled" =>
       /\ pc \in {"reported", "restart", "done"}
       /\ pc = "reported" => Root \in Queued
       /\ pc \in {"restart", "done"} =>
            InTree \subseteq Queued /\ \A n \in InTree : hold[n] = "free"

\* What stays of a candidate that is no directory is the candidate alone.
LEMMA SingleEntry ==
  ASSUME GivenTyped, DiskGrown, NEW d \in Tree, Kind[d] # "dir",
         NEW n \in InTree, AtOrAbove(d, n)
  PROVE  n = d
<1>1. SUFFICES ASSUME d \in Ancestors[n] PROVE FALSE
  BY DEF AtOrAbove
<1>2. PICK c \in Children[d] \cap InTree : AtOrAbove(c, n)
  BY <1>1, ChildOnTheWay
<1>3. c \in Tree \ Roots /\ Parent[c] = d
  BY <1>2 DEF Children, InTree, Entries
<1>4. QED
  BY <1>3, TreeAssumption

LEMMA UnderRoot ==
  ASSUME GivenTyped, DiskGrown, NEW n \in InTree
  PROVE  AtOrAbove(Root, n) /\ n \in TreeOf[Root] /\ Root \in present
<1>1. n \in TreeOf[Root] /\ Root \in Roots
  BY DEF DiskGrown, GivenTyped
<1>2. AtOrAbove(Root, n)
  BY <1>1 DEF TreeOf, AtOrAbove
<1>3. QED
  BY <1>1, <1>2, GoneWithAll

\* Whatever else changes, a step takes an entry of the queue, or adds at most
\* one that the queue has nothing above of.
LEMMA OrderStep ==
  ASSUME TypeInv, WalkInv, QueueInOrder, [Next]_vars
  PROVE  QueueInOrder'
<1>1. queue \in Seq(Tree) /\ Root \in Tree /\ listed \subseteq Tree
      /\ work \in Seq(WorksOf(Root)) /\ TreeOf[Root] \subseteq Tree
  BY RootInTree DEF TypeInv, WalkTyped, GivenTyped
<1>2. ASSUME NEW n \in Tree, NEW next, Visit(n, next),
             \A k \in 1..Len(queue) : queue[k] \notin Ancestors[n]
      PROVE  QueueInOrder'
  <2>1. CASE queue' = queue
    BY <2>1 DEF QueueInOrder
  <2>2. CASE queue' = Append(queue, n)
    <3>1. PICK q \in Seq(Tree) : q = queue'
      BY <1>1, <2>2, StackPush
    <3>2. PICK m \in Nat : m = Len(queue)
      BY <1>1
    <3>3. /\ Len(q) = m + 1 /\ q[m + 1] = n
          /\ \A i \in 1..m : q[i] = queue[i]
      BY <1>1, <2>2, <3>1, <3>2, StackPush
    <3>4. ASSUME NEW i \in 1..Len(q), NEW j \in 1..Len(q), i < j
          PROVE  q[i] \notin Ancestors[q[j]]
      <4>1. i \in 1..m
        BY <3>3, <3>4
      <4>2. CASE j = m + 1
        BY <1>2, <3>2, <3>3, <4>1, <4>2
      <4>3. CASE j # m + 1
        <5>1. j \in 1..m
          BY <3>3, <4>3
        <5>2. QED
          BY <3>2, <3>3, <3>4, <4>1, <5>1 DEF QueueInOrder
      <4>4. QED
        BY <4>2, <4>3
    <3>5. QED
      BY <3>1, <3>4 DEF QueueInOrder
  <2>3. QED
    BY <1>2, <2>1, <2>2 DEF Visit
<1>3. CASE queue' = queue
  BY <1>3 DEF QueueInOrder
<1>4. CASE WalkRoot
  <2>1. queue' = queue \/ Visit(Root, "verify")
    BY <1>4, Zenon DEF WalkRoot
  <2>2. \A k \in 1..Len(queue) : queue[k] \notin Ancestors[Root]
    <3>1. Ancestors[Root] = {}
      BY TreeAssumption DEF TypeInv, GivenTyped
    <3>2. QED
      BY <3>1
  <2>3. QED
    BY <1>1, <1>2, <1>3, <2>1, <2>2
<1>5. CASE WalkEntry
  <2>1. PICK n \in listed : queue' = queue \/ Visit(n, "walking")
    BY <1>5, Zenon DEF WalkEntry
  <2>2. \A k \in 1..Len(queue) : queue[k] \notin Ancestors[n]
    BY <1>5, VisitsMayQueue
  <2>3. QED
    BY <1>1, <1>2, <1>3, <2>1, <2>2
<1>6. CASE WalkEmit
  <2>1. Visit(Last(work)[2], "walking")
    BY <1>6, Zenon DEF WalkEmit
  <2>2. Last(work)[2] \in Tree
    BY <1>1, <1>6, VisitsMayQueue
  <2>3. \A k \in 1..Len(queue) : queue[k] \notin Ancestors[Last(work)[2]]
    BY <1>6, VisitsMayQueue
  <2>4. QED
    BY <1>2, <2>1, <2>2, <2>3
<1>7. CASE RestartDeletes
  <2>1. queue # <<>> /\ queue' = Tail(queue)
    BY <1>7 DEF RestartDeletes
  <2>2. PICK q \in Seq(Tree) : q = queue'
    BY <1>1, <2>1
  <2>3. Len(q) = Len(queue) - 1 /\ \A i \in 1..Len(q) : q[i] = queue[i + 1]
    BY <1>1, <2>1, <2>2
  <2>4. PICK m \in Nat : m = Len(queue)
    BY <1>1
  <2>5. ASSUME NEW i \in 1..Len(q), NEW j \in 1..Len(q), i < j
        PROVE  q[i] \notin Ancestors[q[j]]
    <3>1. i + 1 \in 1..m /\ j + 1 \in 1..m /\ i + 1 < j + 1
      BY <2>3, <2>4, <2>5
    <3>2. QED
      BY <2>3, <2>4, <3>1 DEF QueueInOrder
  <2>6. QED
    BY <2>2, <2>5 DEF QueueInOrder
<1>8. CASE \/ ProbeAborts \/ Probe \/ CheckSafe \/ TakeOwnership \/ Dispatch
           \/ BeginPass \/ OpenDir \/ TakeEntry \/ LeaveDir \/ PassEnds
           \/ DeleteFile \/ RetryFile \/ Explain \/ WalkExpand \/ WalkEnds
           \/ Verify \/ PowerOff \/ Restarted \/ Others \/ CtrlC \/ AllDone
           \/ UNCHANGED vars
  <2>1. queue' = queue
    BY <1>8, Zenon DEF ProbeAborts, Probe, CheckSafe, TakeOwnership, Dispatch,
       BeginPass, OpenDir, TakeEntry, LeaveDir, PassEnds, DeleteFile, RetryFile,
       Explain, WalkExpand, WalkEnds, Verify, PowerOff, Restarted, Others, CtrlC,
       AllDone, Settle, InFrame, vars
  <2>2. QED
    BY <1>3, <2>1
<1>9. QED
  BY <1>4, <1>5, <1>6, <1>7, <1>8, Zenon DEF Next, Removal, AtRestart

\* No step makes an entry read-only.
LEMMA ReadOnlyStep ==
  ASSUME QuietInv, InTree' \subseteq InTree, NoneReadOnly, [Next]_vars
  PROVE  NoneReadOnly'
<1>1. \A n \in InTree : n \in TreeOf[Root]
  BY DEF QuietInv, DiskGrown
<1>2. hold \in [TreeOf[Root] -> AllHolds]
  BY DEF QuietInv, TypeInv, DiskTyped
<1>3. ASSUME \A n \in TreeOf[Root] : hold'[n] \in {hold[n], "free", "container", "other"}
      PROVE  NoneReadOnly'
  BY <1>1, <1>3 DEF NoneReadOnly
<1>4. CASE UNCHANGED hold
  BY <1>3, <1>4
<1>5. ASSUME NEW reason, NEW ns, hold' = Cleared(reason, ns)
      PROVE  NoneReadOnly'
  BY <1>3, <1>5 DEF Cleared
<1>6. CASE TakeOwnership \/ PassEnds \/ RetryFile
  <2>1. hold' = hold \/ \E reason, ns : hold' = Cleared(reason, ns)
    BY <1>6, Zenon DEF TakeOwnership, PassEnds, RetryFile, AttrsCleared, Settle,
       diskVars
  <2>2. QED
    BY <1>4, <1>5, <2>1
<1>7. CASE PowerOff
  BY <1>3, <1>7 DEF PowerOff
<1>8. CASE Others
  <2>1. PICK n \in TreeOf[Root] : Vanish(n) \/ Appear(n) \/ Close(n) \/ Open(n)
    BY <1>8 DEF Others
  <2>2. CASE Vanish(n) \/ Appear(n)
    BY <1>4, <2>2 DEF Vanish, Appear
  <2>3. CASE Close(n) \/ Open(n)
    BY <1>2, <1>3, <2>3 DEF Close, Open
  <2>4. QED
    BY <2>1, <2>2, <2>3
<1>9. CASE \/ ProbeAborts \/ Probe \/ CheckSafe \/ Dispatch \/ BeginPass \/ OpenDir
           \/ TakeEntry \/ LeaveDir \/ DeleteFile \/ Explain \/ WalkRoot
           \/ WalkExpand \/ WalkEntry \/ WalkEmit \/ WalkEnds \/ Verify
           \/ RestartDeletes \/ Restarted \/ CtrlC \/ AllDone \/ UNCHANGED vars
  <2>1. UNCHANGED hold
    BY <1>9, Zenon DEF ProbeAborts, Probe, CheckSafe, Dispatch, BeginPass, OpenDir,
       TakeEntry, LeaveDir, DeleteFile, Explain, WalkRoot, WalkExpand, WalkEntry,
       WalkEmit, WalkEnds, Verify, RestartDeletes, Restarted, CtrlC, AllDone,
       Settle, InFrame, diskVars, vars
  <2>2. QED
    BY <1>4, <2>1
<1>10. QED
  BY <1>6, <1>7, <1>8, <1>9, Zenon DEF Next, Removal, AtRestart

\* Up to the walk: nothing is queued yet, and what comes to the queue is what
\* two passes, or two calls for a file, have left.
LEMMA DeletingStep ==
  ASSUME QuietInv, QuietInv', InTree' \subseteq InTree, WalkInv, RestartInv, Smooth,
         Root' = Root, NoneReadOnly => NoneReadOnly',
         \/ ProbeAborts \/ Probe \/ CheckSafe \/ TakeOwnership \/ Dispatch
         \/ BeginPass \/ OpenDir \/ TakeEntry \/ LeaveDir \/ PassEnds
         \/ DeleteFile \/ RetryFile \/ Explain
  PROVE  RestartInv'
<1> DEFINE Early == {"probe", "safe", "own", "kind", "root", "pass", "file",
                     "retry", "explain", "walk"}
<1>1. /\ GivenTyped /\ Root \in Roots /\ Root \in Tree /\ DiskGrown
      /\ hold \in [TreeOf[Root] -> AllHolds] /\ Root \in TreeOf[Root]
  BY RootInTree DEF QuietInv, TypeInv, GivenTyped, DiskTyped
<1>2. /\ UNCHANGED <<queue, work, listed, row>> /\ pc \in Early /\ pc' # "walking"
      /\ pc' \notin {"reported", "restart", "done"}
  <2>1. UNCHANGED <<queue, work, listed, row>>
    BY Zenon DEF ProbeAborts, Probe, CheckSafe, TakeOwnership, Dispatch,
       BeginPass, OpenDir, TakeEntry, LeaveDir, PassEnds, DeleteFile, RetryFile,
       Explain, Settle, InFrame, walkVars, sayVars
  <2>2. /\ pc \in Early /\ pc' # "walking"
        /\ pc' \notin {"reported", "restart", "done"}
    BY DEF ProbeAborts, Probe, CheckSafe, TakeOwnership, Dispatch,
       BeginPass, OpenDir, TakeEntry, LeaveDir, PassEnds, DeleteFile, RetryFile,
       FileGone, FileStays, Explain, Settle, Goto, InFrame
  <2>3. QED
    BY <2>1, <2>2
<1>3. queue = <<>> /\ work = <<>> /\ listed = {} /\ row # "scheduled"
  BY <1>2 DEF WalkInv, RestartInv
<1>4. queue' = <<>> /\ work' = <<>> /\ listed' = {} /\ row' # "scheduled"
  BY <1>2, <1>3
<1>5. QueueInOrder' /\ Root \notin Queued'
  BY <1>4 DEF QueueInOrder, Queued
<1>6. ASSUME pc' \in {"file", "retry"} => Kind[Root] # "dir" \/ Root \notin present',
             pass' = 2 => NoneReadOnly', pc' \in {"explain", "walk"} => NoneReadOnly'
      PROVE  RestartInv'
  BY <1>1, <1>2, <1>4, <1>5, <1>6 DEF RestartInv, RootIsLast
<1>7. pass = 2 => NoneReadOnly
  BY DEF RestartInv
<1>8. Root \notin present => NoneReadOnly
  BY <1>1, UnderRoot DEF NoneReadOnly
<1>9. CASE ProbeAborts \/ Probe \/ CheckSafe \/ TakeOwnership \/ BeginPass
           \/ OpenDir \/ TakeEntry \/ LeaveDir
  <2>1. UNCHANGED pass /\ pc' \notin {"file", "retry", "explain", "walk"}
    BY <1>9, Zenon DEF ProbeAborts, Probe, CheckSafe, TakeOwnership, BeginPass,
       OpenDir, TakeEntry, LeaveDir, Settle, Goto, InFrame, callVars
  <2>2. QED
    BY <1>6, <1>7, <2>1
<1>10. CASE Dispatch
  <2>1. /\ UNCHANGED <<pass, present>> /\ pc' \in {"root", "file"}
        /\ pc' = "file" => \E k \in KindProbes(Root) :
             k \in {"missing", "file"} \/ k = "error"
    BY <1>10 DEF Dispatch, Goto, callVars, diskVars
  <2>2. KindProbes(Root) = {IF Root \in present THEN Kind[Root] ELSE "missing"}
    BY DEF KindProbes, Smooth
  <2>3. Kind[Root] \in {"file", "dir", "link"}
    BY <1>1, TreeAssumption DEF Entries
  <2>4. pc' = "file" => Kind[Root] # "dir" \/ Root \notin present'
    BY <2>1, <2>2, <2>3
  <2>5. QED
    BY <1>6, <1>7, <2>1, <2>4
<1>11. CASE PassEnds
  <2>1. CASE Settle("pass", "removed", "INFO")
    BY <1>6, <1>7, <2>1 DEF Settle, Goto, callVars
  <2>2. ASSUME NEW missed, missed = {}, hold' = Cleared("readonly", Tree \ missed),
               UNCHANGED present, pc' = "root"
        PROVE  RestartInv'
    <3>1. \A n \in InTree : n \in TreeOf[Root] /\ n \in Tree \ missed
      BY <1>1, <2>2 DEF DiskGrown, InTree
    <3>2. \A n \in InTree : hold'[n] # "readonly"
      BY <2>2, <3>1 DEF Cleared, InTree
    <3>3. NoneReadOnly'
      BY <2>2, <3>2 DEF NoneReadOnly, InTree
    <3>4. QED
      BY <1>6, <2>2, <3>3
  <2>3. CASE PassesLeft = 0 /\ pc' = "explain" /\ UNCHANGED callVars
    <3>1. pass \in 1..2
      BY DEF QuietInv, TypeInv, CallTyped
    <3>2. pass = 2
      BY <2>3, <3>1 DEF PassesLeft
    <3>3. QED
      BY <1>6, <1>7, <2>3, <3>2
  <2>4. (IF "list" \in Faults THEN SUBSET TreeOf[Root] ELSE {{}}) = {{}}
    BY DEF Smooth
  <2>5. \/ Settle("pass", "removed", "INFO")
        \/ \E missed \in {{}} : /\ hold' = Cleared("readonly", Tree \ missed)
                                /\ UNCHANGED present /\ pc' = "root"
        \/ PassesLeft = 0 /\ pc' = "explain" /\ UNCHANGED callVars
    BY <1>11, <2>4, Zenon DEF PassEnds
  <2>6. QED
    BY <2>1, <2>2, <2>3, <2>5
<1>12. ASSUME pc \in {"file", "retry"}, Root \in present, hold'[Root] # "readonly"
       PROVE  NoneReadOnly'
  <2>1. Kind[Root] # "dir"
    BY <1>12 DEF RestartInv
  <2>2. \A n \in InTree : n = Root
    BY <1>1, <2>1, SingleEntry, UnderRoot
  <2>3. QED
    BY <1>12, <2>2 DEF NoneReadOnly
<1>13. CASE DeleteFile
  <2>1. UNCHANGED <<hold, pass>> /\ pc = "file" /\ pc' \in {"verify", "retry", "explain"}
    BY <1>13 DEF DeleteFile, FileGone, FileStays, Goto
  <2>2. pc' = "retry" => UNCHANGED present
    BY <1>13 DEF DeleteFile, FileGone, FileStays, Goto
  <2>3. pc' = "explain" => \/ Root \notin present
                           \/ Root \in present /\ hold[Root] \in {"container", "other"}
    BY <1>13 DEF DeleteFile, FileGone, FileStays, Goto
  <2>4. pc' = "explain" => NoneReadOnly'
    BY <1>8, <1>12, <2>1, <2>3
  <2>5. Kind[Root] # "dir" \/ Root \notin present
    BY <2>1 DEF RestartInv
  <2>6. QED
    BY <1>6, <1>7, <2>1, <2>2, <2>4, <2>5
<1>14. CASE RetryFile
  <2>1. UNCHANGED pass /\ pc = "retry" /\ pc' \in {"verify", "explain"}
        /\ hold' = AttrsCleared
    BY <1>14 DEF RetryFile, FileGone, FileStays, Goto
  <2>2. Root \in present => hold'[Root] # "readonly"
    BY <1>1, <2>1 DEF AttrsCleared, Cleared
  <2>3. NoneReadOnly'
    BY <1>8, <1>12, <2>1, <2>2
  <2>4. QED
    BY <1>6, <2>1, <2>3
<1>15. CASE Explain
  <2>1. pc = "explain" /\ pc' \in {"walk", "verify"}
    BY <1>15 DEF Explain
  <2>2. NoneReadOnly
    BY <2>1 DEF RestartInv
  <2>3. QED
    BY <1>6, <2>1, <2>2
<1>16. QED
  BY <1>9, <1>10, <1>11, <1>13, <1>14, <1>15

\* A visit ends the walk, or queues the entry unless it has gone.
LEMMA VisitQueues ==
  ASSUME NEW n \in Tree, NEW next, queue \in Seq(Tree), Visit(n, next), Smooth
  PROVE  \/ pc' = "verify" /\ Queued' = Queued
         \/ pc' = next /\ Queued' = Queued \cup {n}
         \/ pc' = next /\ Queued' = Queued /\ n \notin present
<1>1. queue' = queue => Queued' = Queued
  BY DEF Queued
<1>2. queue' = Append(queue, n) => Queued' = Queued \cup {n}
  BY QueuedGrows
<1>3. "queue" \notin Faults
  BY DEF Smooth
<1>4. \/ pc' = "verify" /\ queue' = queue
      \/ pc' = next /\ queue' = Append(queue, n)
      \/ pc' = next /\ queue' = queue /\ n \notin present
  BY <1>3 DEF Visit
<1>5. QED
  BY <1>1, <1>2, <1>4

\* The walk puts the last frame of its stack in the place of those before it:
\* what was to be visited is still to be, or is at or below that frame.
LEMMA TopOfWalk ==
  ASSUME NEW r \in Roots, NEW w \in Seq(WorksOf(r)), w # <<>>, NEW n, ToVisit(n, w, {})
  PROVE  \/ ToVisit(n, Front(w), {})
         \/ n = Last(w)[2]
         \/ Last(w)[1] = "expand" /\ Last(w)[2] \in Ancestors[n]
<1>1. PICK m \in Nat : m = Len(w)
  OBVIOUS
<1>2. Len(Front(w)) = m - 1 /\ \A i \in 1..m - 1 : Front(w)[i] = w[i]
  BY <1>1, StackTop
<1>3. PICK i \in 1..m : \/ n = w[i][2]
                        \/ w[i][1] = "expand" /\ w[i][2] \in Ancestors[n]
  BY <1>1 DEF ToVisit
<1>4. CASE i = m
  BY <1>1, <1>3, <1>4 DEF Last
<1>5. CASE i # m
  <2>1. i \in 1..m - 1
    BY <1>5
  <2>2. QED
    BY <1>2, <1>3, <2>1 DEF ToVisit
<1>6. QED
  BY <1>4, <1>5

LEMMA PushOnWalk ==
  ASSUME NEW r \in Roots, NEW w \in Seq(WorksOf(r)), NEW x \in WorksOf(r), NEW n, NEW l
  PROVE  /\ ToVisit(n, w, {}) => ToVisit(n, Append(w, x), l)
         /\ n = x[2] => ToVisit(n, Append(w, x), l)
         /\ x[1] = "expand" /\ x[2] \in Ancestors[n] => ToVisit(n, Append(w, x), l)
<1>1. PICK m \in Nat : m = Len(w)
  OBVIOUS
<1>2. PICK v : v = Append(w, x)
  OBVIOUS
<1>3. Len(v) = m + 1 /\ v[m + 1] = x /\ \A i \in 1..m : v[i] = w[i]
  BY <1>1, <1>2, StackPush
<1>4. m + 1 \in 1..m + 1 /\ \A i \in 1..m : i \in 1..m + 1
  OBVIOUS
<1>5. ToVisit(n, w, {}) => \E i \in 1..m : \/ n = w[i][2]
                                           \/ w[i][1] = "expand" /\ w[i][2] \in Ancestors[n]
  BY <1>1 DEF ToVisit
<1>6. ToVisit(n, w, {}) => ToVisit(n, v, l)
  BY <1>3, <1>4, <1>5 DEF ToVisit
<1>7. n = x[2] \/ (x[1] = "expand" /\ x[2] \in Ancestors[n]) => ToVisit(n, v, l)
  BY <1>3, <1>4 DEF ToVisit
<1>8. QED
  BY <1>2, <1>6, <1>7

\* The walk: a directory is put back below what lies in it, and what is taken
\* off is queued or has gone.
LEMMA WalkingStep ==
  ASSUME QuietInv, WalkInv, RestartInv, Smooth, Root' = Root, QueueInOrder',
         NoneReadOnly => NoneReadOnly',
         WalkRoot \/ WalkExpand \/ WalkEntry \/ WalkEmit \/ WalkEnds
  PROVE  RestartInv'
<1>1. /\ GivenTyped /\ DiskGrown /\ Root \in Roots /\ queue \in Seq(Tree)
      /\ work \in Seq(WorksOf(Root)) /\ listed \subseteq TreeOf[Root]
      /\ TreeOf[Root] \subseteq Tree /\ Root \in Tree
  BY RootInTree DEF QuietInv, TypeInv, GivenTyped, WalkTyped
<1>2. /\ UNCHANGED <<present, row, pass, hold>> /\ pc \in {"walk", "walking"}
      /\ pc' \in {"walking", "verify"} /\ InTree' = InTree
  <2>1. UNCHANGED <<present, row, pass, hold>>
    BY Zenon DEF WalkRoot, WalkExpand, WalkEntry, WalkEmit, WalkEnds, diskVars,
       sayVars, callVars
  <2>2. pc \in {"walk", "walking"} /\ pc' \in {"walking", "verify"}
    BY DEF WalkRoot, WalkExpand, WalkEntry, WalkEmit, WalkEnds, Visit, Goto
  <2>3. QED
    BY <2>1, <2>2 DEF InTree
<1>3. NoneReadOnly /\ NoneReadOnly' /\ row' # "scheduled"
  BY <1>2 DEF RestartInv
<1>4. ASSUME Root \notin listed', pc' = "walking" => AllVisited(work, listed)',
             pc' = "walking" /\ Root \in Queued' => work' = <<>> /\ listed' = {},
             pc' = "verify" /\ Root \in Queued' => (InTree \subseteq Queued)'
      PROVE  RestartInv'
  <2>1. RootIsLast'
    BY <1>1, <1>4 DEF RootIsLast
  <2>2. pc' \in {"verify", "reported"} /\ Root' \in Queued' => QueueIsWhole'
    BY <1>2, <1>3, <1>4 DEF QueueIsWhole
  <2>3. pc' \notin {"file", "retry", "done"}
    BY <1>2
  <2>4. QED
    BY <1>3, <1>4, <2>1, <2>2, <2>3 DEF RestartInv
<1>5. Root \notin listed /\ (pc = "walking" => AllVisited(work, listed))
      /\ (pc = "walking" /\ Root \in Queued => work = <<>> /\ listed = {})
  BY DEF RestartInv, RootIsLast
<1>6. ASSUME pc' = "verify", Queued' = Queued, pc = "walking",
             work # <<>> \/ listed # {}, Root \notin listed'
      PROVE  RestartInv'
  BY <1>4, <1>5, <1>6
<1>7. CASE WalkRoot
  <2>1. queue = <<>> /\ work = <<>> /\ listed = {} /\ listed' = {} /\ Queued = {}
    BY <1>7 DEF WalkRoot, WalkInv, Queued
  <2>2. PICK k \in KindProbes(Root) :
          \/ /\ work' = <<<<"expand", Root>>>> /\ pc' = "walking"
             /\ UNCHANGED queue
          \/ k \notin {"missing", "dir"} /\ Visit(Root, "verify")
    BY <1>7, Zenon DEF WalkRoot
  <2>3. CASE work' = <<<<"expand", Root>>>> /\ pc' = "walking" /\ UNCHANGED queue
    <3>1. Root \notin Queued'
      BY <2>1, <2>3 DEF Queued
    <3>2. /\ 1 \in 1..Len(work') /\ work'[1][1] = "expand" /\ work'[1][2] = Root
      BY <2>3
    <3>3. \A n \in InTree : ToVisit(n, work', listed')
      BY <1>1, <3>2, UnderRoot DEF ToVisit, AtOrAbove
    <3>4. AllVisited(work, listed)'
      BY <1>2, <3>3 DEF AllVisited
    <3>5. QED
      BY <1>4, <2>1, <2>3, <3>1, <3>4
  <2>4. CASE k \notin {"missing", "dir"} /\ Visit(Root, "verify")
    <3>1. k = Kind[Root]
      BY <2>4 DEF KindProbes, Smooth
    <3>2. \A n \in InTree : n = Root
      BY <1>1, <2>4, <3>1, SingleEntry, UnderRoot
    <3>3. pc' = "verify"
      BY <1>1, <2>4, VisitQueues
    <3>4. QED
      BY <1>2, <1>4, <2>1, <3>2, <3>3
  <2>5. QED
    BY <2>2, <2>3, <2>4
<1>8. CASE WalkExpand
  <2>1. PICK d : d = Last(work)[2]
    OBVIOUS
  <2>2. /\ pc = "walking" /\ pc' = "walking" /\ listed = {} /\ work # <<>>
        /\ Last(work)[1] = "expand" /\ UNCHANGED queue
        /\ work' = Append(Front(work), <<"emit", d>>)
        /\ \/ listed' = Children[d] \cap present /\ d \in present
           \/ listed' = {} /\ d \notin present
    BY <1>8, <2>1 DEF WalkExpand, Smooth
  <2>3. Front(work) \in Seq(WorksOf(Root)) /\ Last(work) \in WorksOf(Root)
    BY <1>1, <2>2, StackTop
  <2>4. <<"emit", d>> \in WorksOf(Root) /\ d \in Entries
    BY <1>1, <2>1, <2>3 DEF WorksOf, Entries
  <2>5. Root \notin listed' /\ Queued' = Queued
    BY <1>1, <2>2, <2>4 DEF Children, Queued
  <2>6. ASSUME NEW n \in InTree, ToVisit(n, work, {})
        PROVE  ToVisit(n, work', listed')
    <3>1. CASE ToVisit(n, Front(work), {}) \/ n = d
      <4>1. <<"emit", d>>[2] = d
        OBVIOUS
      <4>2. ToVisit(n, Append(Front(work), <<"emit", d>>), listed')
        BY <1>1, <2>3, <2>4, <3>1, <4>1, PushOnWalk
      <4>3. QED
        BY <2>2, <4>2
    <3>2. CASE d \in Ancestors[n]
      <4>1. d \in present
        BY <1>1, <3>2, GoneWithAll DEF AtOrAbove
      <4>2. PICK c \in Children[d] \cap InTree : AtOrAbove(c, n)
        BY <1>1, <3>2, ChildOnTheWay
      <4>3. c \in listed'
        BY <2>2, <4>1, <4>2 DEF InTree
      <4>4. QED
        BY <4>2, <4>3 DEF ToVisit
    <3>3. QED
      BY <1>1, <2>1, <2>2, <2>6, <3>1, <3>2, TopOfWalk
  <2>7. AllVisited(work, listed)'
    BY <1>2, <1>5, <2>2, <2>5, <2>6 DEF AllVisited
  <2>8. QED
    BY <1>4, <1>5, <2>2, <2>5, <2>7
<1>9. CASE WalkEntry
  <2>1. PICK n \in listed :
          /\ listed' = listed \ {n}
          /\ \/ Kind[n] = "dir" /\ work' = Pushed(n) /\ UNCHANGED <<queue, pc>>
             \/ Kind[n] # "dir" /\ Visit(n, "walking") /\ UNCHANGED work
    BY <1>9 DEF WalkEntry, Smooth
  <2>2. pc = "walking" /\ n \in Tree /\ n # Root /\ Root \notin Queued
        /\ Root \notin listed' /\ listed # {} /\ n \in TreeOf[Root]
    BY <1>1, <1>5, <1>9, <2>1 DEF WalkEntry
  <2>3. CASE Kind[n] = "dir" /\ work' = Pushed(n) /\ UNCHANGED <<queue, pc>>
    <3>1. <<"expand", n>> \in WorksOf(Root) /\ <<"expand", n>>[1] = "expand"
          /\ <<"expand", n>>[2] = n
      BY <2>2 DEF WorksOf
    <3>2. ASSUME NEW m \in InTree, ToVisit(m, work, listed)
          PROVE  ToVisit(m, work', listed')
      <4>1. \/ ToVisit(m, work, {}) \/ AtOrAbove(n, m)
            \/ \E c \in listed' : AtOrAbove(c, m)
        BY <2>1, <3>2 DEF ToVisit
      <4>2. CASE ToVisit(m, work, {}) \/ AtOrAbove(n, m)
        <5>1. ToVisit(m, Append(work, <<"expand", n>>), listed')
          BY <1>1, <3>1, <4>2, PushOnWalk DEF AtOrAbove
        <5>2. QED
          BY <2>3, <5>1 DEF Pushed
      <4>3. CASE \E c \in listed' : AtOrAbove(c, m)
        BY <4>3 DEF ToVisit
      <4>4. QED
        BY <4>1, <4>2, <4>3
    <3>3. Queued' = Queued
      BY <2>3 DEF Queued
    <3>4. AllVisited(work, listed)'
      BY <1>2, <1>5, <2>2, <3>2, <3>3 DEF AllVisited
    <3>5. QED
      BY <1>4, <2>2, <2>3, <3>3, <3>4
  <2>4. CASE Kind[n] # "dir" /\ Visit(n, "walking") /\ UNCHANGED work
    <3>1. \/ pc' = "verify" /\ Queued' = Queued
          \/ pc' = "walking" /\ Queued' = Queued \cup {n}
          \/ pc' = "walking" /\ Queued' = Queued /\ n \notin present
      BY <1>1, <2>2, <2>4, VisitQueues
    <3>2. CASE pc' = "verify" /\ Queued' = Queued
      BY <1>6, <2>2, <3>2
    <3>3. CASE pc' = "walking"
      <4>1. ASSUME NEW m \in InTree, AtOrAbove(n, m)
            PROVE  m \in Queued'
        <5>1. m = n
          BY <1>1, <2>2, <2>4, <4>1, SingleEntry
        <5>2. QED
          BY <3>1, <3>3, <5>1 DEF InTree
      <4>2. ASSUME NEW m \in InTree, ToVisit(m, work, listed)
            PROVE  m \in Queued' \/ ToVisit(m, work', listed')
        <5>1. AtOrAbove(n, m) \/ ToVisit(m, work', listed')
          BY <2>1, <2>4, <4>2 DEF ToVisit
        <5>2. QED
          BY <4>1, <5>1
      <4>3. Queued \subseteq Queued' /\ Root \notin Queued'
        BY <2>2, <3>1
      <4>4. AllVisited(work, listed)'
        BY <1>2, <1>5, <2>2, <4>2, <4>3 DEF AllVisited
      <4>5. QED
        BY <1>4, <2>2, <3>3, <4>3, <4>4
    <3>4. QED
      BY <3>1, <3>2, <3>3
  <2>5. QED
    BY <2>1, <2>3, <2>4
<1>10. CASE WalkEmit
  <2>1. PICK d : d = Last(work)[2]
    OBVIOUS
  <2>2. /\ pc = "walking" /\ listed = {} /\ listed' = {} /\ work # <<>>
        /\ Last(work)[1] = "emit" /\ Visit(d, "walking") /\ work' = Front(work)
    BY <1>10, <2>1 DEF WalkEmit
  <2>3. Last(work) \in WorksOf(Root) /\ Root \notin Queued
    BY <1>1, <1>5, <2>2, StackTop
  <2>4. d \in Tree
    BY <1>1, <2>1, <2>3 DEF WorksOf
  <2>5. \/ pc' = "verify" /\ Queued' = Queued
        \/ pc' = "walking" /\ Queued' = Queued \cup {d}
        \/ pc' = "walking" /\ Queued' = Queued /\ d \notin present
    BY <1>1, <2>2, <2>4, VisitQueues
  <2>6. CASE pc' = "verify" /\ Queued' = Queued
    BY <1>6, <2>2, <2>6
  <2>7. CASE pc' = "walking"
    <3>1. ASSUME NEW m \in InTree, ToVisit(m, work, {})
          PROVE  m \in Queued' \/ ToVisit(m, work', listed')
      <4>1. ToVisit(m, Front(work), {}) \/ m = d
        BY <1>1, <2>1, <2>2, <3>1, TopOfWalk
      <4>2. QED
        BY <2>2, <2>5, <2>7, <4>1 DEF InTree
    <3>2. Queued \subseteq Queued'
      BY <2>5
    <3>3. AllVisited(work, listed)'
      BY <1>2, <1>5, <2>2, <3>1, <3>2 DEF AllVisited
    <3>4. ASSUME Root \in Queued'
          PROVE  work' = <<>>
      <4>1. d = Root
        BY <2>3, <2>5, <3>4
      <4>2. PICK m \in Nat : m = Len(work) /\ m # 0
        BY <1>1, <2>2, StackTop
      <4>3. FramesInOrder(work, listed)
        BY <2>2 DEF WalkInv
      <4>4. CASE m # 1
        <5>1. 1 \in 1..m /\ m \in 1..m /\ 1 < m
          BY <4>2, <4>4
        <5>2. ~AtOrAbove(work[m][2], work[1][2])
          BY <4>2, <4>3, <5>1 DEF FramesInOrder
        <5>3. work[m][2] = Root
          BY <2>1, <4>1, <4>2 DEF Last
        <5>4. work[1] \in WorksOf(Root)
          BY <1>1, <4>2, <5>1
        <5>5. AtOrAbove(Root, work[1][2])
          BY <1>1, <5>4 DEF WorksOf, TreeOf, AtOrAbove
        <5>6. QED
          BY <5>2, <5>3, <5>5
      <4>5. CASE m = 1
        <5>1. PICK f \in Seq(WorksOf(Root)) : f = Front(work) /\ Len(f) = m - 1
          <6>1. Front(work) \in Seq(WorksOf(Root)) /\ Len(Front(work)) = Len(work) - 1
            BY <1>1, <2>2, StackTop
          <6>2. QED
            BY <4>2, <6>1
        <5>2. f = <<>>
          BY <4>5, <5>1
        <5>3. QED
          BY <2>2, <5>1, <5>2
      <4>6. QED
        BY <4>4, <4>5
    <3>5. QED
      BY <1>1, <1>4, <2>2, <2>7, <3>3, <3>4
  <2>8. QED
    BY <2>5, <2>6, <2>7
<1>11. CASE WalkEnds
  <2>1. /\ pc = "walking" /\ pc' = "verify" /\ listed = {} /\ work = <<>>
        /\ listed' = {} /\ UNCHANGED queue
    BY <1>11 DEF WalkEnds, Goto, walkVars
  <2>2. \A n : ~ToVisit(n, work, listed)
    BY <2>1 DEF ToVisit
  <2>3. InTree \subseteq Queued /\ Queued' = Queued
    BY <1>5, <2>1, <2>2 DEF AllVisited, Queued
  <2>4. QED
    BY <1>2, <1>4, <2>1, <2>3
<1>12. QED
  BY <1>7, <1>8, <1>9, <1>10, <1>11

\* The restart takes an entry that has nothing left in it.
LEMMA RestartDeletesOne ==
  ASSUME QuietInv, QueueInOrder, RestartDeletes,
         InTree \subseteq Queued, \A n \in InTree : hold[n] = "free"
  PROVE  (InTree \subseteq Queued)' /\ (\A n \in InTree : hold[n] = "free")'
<1>1. /\ queue \in Seq(Tree) /\ queue # <<>> /\ queue' = Tail(queue) /\ UNCHANGED hold
  BY DEF RestartDeletes, QuietInv, TypeInv, WalkTyped
<1>2. PICK h \in Tree : h = Head(queue)
  BY <1>1
<1>3. PICK m \in Nat : m = Len(queue) /\ m # 0
  BY <1>1
<1>4. PICK t \in Seq(Tree) : t = queue'
  BY <1>1
<1>5. Len(t) = m - 1 /\ (\A i \in 1..m - 1 : t[i] = queue[i + 1]) /\ queue[1] = h
  BY <1>1, <1>2, <1>3, <1>4
<1>6. Queued' = {t[i] : i \in 1..m - 1}
  BY <1>4, <1>5 DEF Queued
<1>7. ASSUME NEW i \in 1..m, i # 1
      PROVE  queue[i] \in Queued'
  <2>1. PICK j \in 1..m - 1 : i = j + 1
    <3>1. i - 1 \in 1..m - 1 /\ i = (i - 1) + 1
      BY <1>7
    <3>2. QED
      BY <3>1
  <2>2. QED
    BY <1>5, <1>6, <2>1
<1>8. ASSUME NEW n \in InTree
      PROVE  n = h \/ n \in Queued'
  <2>1. PICK i \in 1..m : n = queue[i]
    BY <1>3 DEF Queued
  <2>2. QED
    BY <1>5, <1>7, <2>1
<1>9. CASE h \notin present
  <2>1. present' = present
    BY <1>2, <1>9 DEF RestartDeletes, Removable
  <2>2. QED
    BY <1>1, <1>8, <1>9, <2>1 DEF InTree
<1>10. CASE h \in present
  <2>1. ASSUME NEW c \in Children[h] \cap present
        PROVE  Kind[h] # "dir"
    <3>1. SUFFICES ASSUME Kind[h] = "dir" PROVE FALSE
      OBVIOUS
    <3>2. c \in Entries \ Roots /\ Parent[c] = h
      BY DEF Children, Entries
    <3>3. c \in Tree
      BY <3>1, <3>2, TreeAssumption DEF Entries
    <3>4. c \in InTree /\ h \in Ancestors[c]
      BY <3>2, <3>3, TreeAssumption DEF InTree
    <3>5. PICK i \in 1..m : c = queue[i]
      BY <1>3, <3>4 DEF Queued
    <3>6. i # 1
      <4>1. h \in Entries
        BY DEF Entries
      <4>2. h # c
        BY <3>4, <4>1, TreeAssumption
      <4>3. QED
        BY <1>5, <3>5, <4>2
    <3>7. 1 \in 1..m /\ 1 < i
      BY <1>3, <3>6
    <3>8. QED
      BY <1>3, <1>5, <3>4, <3>5, <3>7 DEF QueueInOrder
  <2>2. Removable(h, present)
    BY <1>10, <2>1 DEF Removable
  <2>3. h \in InTree
    BY <1>10 DEF InTree
  <2>4. present' = present \ {h}
    BY <1>2, <2>2, <2>3 DEF RestartDeletes
  <2>5. QED
    BY <1>1, <1>8, <2>4 DEF InTree
<1>11. QED
  BY <1>9, <1>10

LEMMA RestartStep ==
  ASSUME QuietInv, WalkInv, RestartInv, Smooth, [Next]_vars
  PROVE  RestartInv'
<1>1. /\ QuietInv' /\ InTree' \subseteq InTree /\ Root' = Root /\ TypeInv
      /\ NoneReadOnly => NoneReadOnly'
  BY QuietStep, GivenStays, ReadOnlyStep DEF QuietInv, Smooth
<1>2. QueueInOrder'
  BY <1>1, OrderStep DEF RestartInv
<1>3. CASE \/ ProbeAborts \/ Probe \/ CheckSafe \/ TakeOwnership \/ Dispatch
           \/ BeginPass \/ OpenDir \/ TakeEntry \/ LeaveDir \/ PassEnds
           \/ DeleteFile \/ RetryFile \/ Explain
  BY <1>1, <1>3, DeletingStep
<1>4. CASE WalkRoot \/ WalkExpand \/ WalkEntry \/ WalkEmit \/ WalkEnds
  BY <1>1, <1>2, <1>4, WalkingStep
<1>5. queue' = queue => Queued' = Queued
  BY DEF Queued
<1>6. CASE Verify
  <2>1. /\ pc = "verify" /\ pc' = "reported"
        /\ UNCHANGED <<present, hold, queue, listed, pass>>
    BY <1>6 DEF Verify, Goto, diskVars, callVars, walkVars
  <2>2. row' = "scheduled" => Root \in Queued
    BY <1>6 DEF Verify, VerifyOutcome
  <2>3. Queued' = Queued /\ InTree' = InTree
    BY <1>5, <2>1 DEF InTree
  <2>4. (Root \in Queued => QueueIsWhole) => (Root' \in Queued' => QueueIsWhole')
    BY <1>1, <2>1, <2>3 DEF QueueIsWhole
  <2>5. QED
    BY <1>1, <1>2, <2>1, <2>2, <2>3, <2>4 DEF RestartInv, RootIsLast
<1>7. CASE PowerOff
  <2>1. /\ pc = "reported" /\ pc' = "restart"
        /\ UNCHANGED <<present, queue, listed, pass, row>>
        /\ hold' = [n \in TreeOf[Root] |-> IF hold[n] = "readonly" THEN hold[n] ELSE "free"]
    BY <1>7 DEF PowerOff, Goto, callVars, sayVars, walkVars
  <2>2. Queued' = Queued /\ InTree' = InTree
    BY <1>5, <2>1 DEF InTree
  <2>3. \A n \in InTree : n \in TreeOf[Root]
    BY <1>1, UnderRoot DEF QuietInv, TypeInv
  <2>4. row = "scheduled" => QueueIsWhole
    BY <2>1 DEF RestartInv
  <2>5. row = "scheduled" => InTree \subseteq Queued /\ \A n \in InTree : hold'[n] = "free"
    BY <2>1, <2>3, <2>4 DEF QueueIsWhole, NoneReadOnly
  <2>6. QED
    BY <1>1, <1>2, <2>1, <2>2, <2>5 DEF RestartInv, RootIsLast
<1>8. CASE RestartDeletes
  <2>1. /\ pc = "restart" /\ pc' = "restart" /\ UNCHANGED <<listed, pass, row>>
    BY <1>8 DEF RestartDeletes, callVars, sayVars, walkVars
  <2>2. row = "scheduled" =>
          (InTree \subseteq Queued)' /\ (\A n \in InTree : hold[n] = "free")'
    BY <1>8, <2>1, RestartDeletesOne DEF RestartInv
  <2>3. QED
    BY <1>1, <1>2, <2>1, <2>2 DEF RestartInv, RootIsLast
<1>9. CASE Restarted
  <2>1. /\ pc = "restart" /\ pc' = "done" /\ queue = <<>>
        /\ UNCHANGED <<present, hold, queue, listed, pass, row>>
    BY <1>9 DEF Restarted, Goto, diskVars, callVars, sayVars, walkVars
  <2>2. Queued' = Queued /\ InTree' = InTree
    BY <1>5, <2>1 DEF InTree
  <2>3. QED
    BY <1>1, <1>2, <2>1, <2>2 DEF RestartInv, RootIsLast
<1>10. CASE Others \/ CtrlC \/ AllDone \/ UNCHANGED vars
  <2>1. /\ UNCHANGED <<queue, pc, listed, work, pass, row>>
        /\ UNCHANGED hold \/ pc \notin {"restart", "done"}
    BY <1>10, Zenon DEF Others, CtrlC, AllDone, diskVars, callVars, sayVars,
       walkVars, vars
  <2>2. Queued' = Queued
    BY <1>5, <2>1
  <2>3. Root \in Tree
    BY <1>1, RootInTree DEF TypeInv, GivenTyped
  <2>4. Root \notin present => Root \notin present'
    BY <1>1, <2>3 DEF InTree
  <2>5. AllVisited(work, listed) => AllVisited(work, listed)'
    BY <1>1, <2>1, <2>2 DEF AllVisited
  <2>6. QueueIsWhole => QueueIsWhole'
    BY <1>1, <2>2 DEF QueueIsWhole
  <2>7. QED
    BY <1>1, <1>2, <2>1, <2>2, <2>4, <2>5, <2>6 DEF RestartInv, RootIsLast
<1>11. QED
  BY <1>3, <1>4, <1>6, <1>7, <1>8, <1>9, <1>10, Zenon DEF Next, Removal, AtRestart

\* A candidate whose row says that it goes at the restart goes at the restart,
\* for every forest, every hold and every interference but new entries, in a
\* world in which the probes, the listings and MoveFileExW work: the walk
\* passes no entry over, the order of the queue lets each directory go empty,
\* and no attribute is left in the way.
THEOREM ScheduledGoes == Spec => []ScheduledGoesAtRestart
<1> DEFINE Inv == Smooth => RestartInv
           Known == "appear" \notin Faults => WalkInv
<1>1. Init => Inv
  <2>1. SUFFICES ASSUME Init PROVE RestartInv
    OBVIOUS
  <2>2. queue = <<>> /\ listed = {} /\ pc = "probe" /\ pass = 1 /\ row = "none"
    BY <2>1 DEF Init
  <2>3. QueueInOrder
    BY <2>2 DEF QueueInOrder
  <2>4. QED
    BY <2>2, <2>3 DEF RestartInv, RootIsLast
<1>2. Init => Known
  BY WalkInvInit
<1>3. Smooth => "appear" \notin Faults
  BY DEF Smooth
<1>4. QuietWorld /\ Known /\ [Next]_vars => Known'
  BY GivenStays, WalkInvStep DEF QuietWorld, QuietInv
<1>5. [Next]_vars => Smooth' = Smooth
  BY GivenStays DEF Smooth
<1>6. QuietWorld /\ Known /\ Inv /\ [Next]_vars => Inv'
  BY <1>3, <1>5, RestartStep DEF QuietWorld
<1>7. QuietWorld /\ Inv => ScheduledGoesAtRestart
  <2>1. SUFFICES ASSUME QuietInv, RestartInv, pc = "done", row = "scheduled"
                 PROVE  Root \notin present
    BY <1>3 DEF QuietWorld, ScheduledGoesAtRestart
  <2>2. queue = <<>> /\ InTree \subseteq Queued
    BY <2>1 DEF RestartInv
  <2>3. Queued = {}
    BY <2>2 DEF Queued
  <2>4. Root \in Tree
    BY <2>1, RootInTree DEF QuietInv, TypeInv, GivenTyped
  <2>5. QED
    BY <2>2, <2>3, <2>4 DEF InTree
<1>8. QED
  BY <1>1, <1>2, <1>4, <1>6, <1>7, QuietWorldHolds, PTL DEF Spec
===============================================================================
