------------------------- MODULE TreeDeletion_proofs -------------------------
(* What the promises of a removal come to, for every tree of entries.      *)
EXTENDS TreeDeletion, TLAPS

TreeInv ==
  /\ root \in Roots
  /\ queue \in Seq(Tree)
  /\ OutsideIsUntouched
  /\ QueueIsPostorder

LEMMA TreeInit == Init => TreeInv
BY DEF Init, TreeInv, OutsideIsUntouched, QueueIsPostorder

\* The invariant is inductive by itself: what may be done in one step already
\* asks for what it needs.
LEMMA TreeStep ==
  ASSUME TreeInv, [Next]_treeVars
  PROVE  TreeInv'
<1> USE DEF TreeInv, OutsideIsUntouched, QueueIsPostorder
<1>0. TreeOf[root] \subseteq Tree
  BY DEF TreeOf
<1>1. ASSUME NEW n \in TreeOf[root], Remove(n) \/ Appear(n)
      PROVE  TreeInv'
  BY <1>0, <1>1, TreeAssumption DEF Remove, Appear
<1>2. ASSUME NEW n \in TreeOf[root], Enqueue(n)
      PROVE  TreeInv'
  <2>1. queue' \in Seq(Tree) /\ Len(queue') = Len(queue) + 1
    BY <1>0, <1>2 DEF Enqueue
  <2>2. /\ queue'[Len(queue) + 1] = n
        /\ \A i \in 1..Len(queue) : queue'[i] = queue[i]
    BY <1>2 DEF Enqueue
  <2>3. \A i \in 1..Len(queue) : queue[i] \notin Ancestors[n]
    BY <1>2 DEF Enqueue
  <2>4. ASSUME NEW i \in 1..Len(queue'), NEW j \in 1..Len(queue'), i < j
        PROVE  queue'[i] \notin Ancestors[queue'[j]]
    <3>1. i \in 1..Len(queue) /\ queue'[i] = queue[i]
      BY <2>1, <2>2, <2>4
    <3>2. CASE j = Len(queue) + 1
      BY <2>2, <2>3, <3>1, <3>2
    <3>3. CASE j # Len(queue) + 1
      <4>1. j \in 1..Len(queue) /\ queue'[j] = queue[j]
        BY <2>1, <2>2, <3>3
      <4>2. QED
        BY <2>4, <3>1, <4>1
    <3>4. QED
      BY <3>2, <3>3
  <2>5. QED
    BY <1>2, <2>1, <2>2, <2>4 DEF Enqueue
<1>3. CASE Restart
  <2>1. Head(queue) \in Tree /\ queue' \in Seq(Tree) /\ Len(queue') = Len(queue) - 1
    BY <1>3 DEF Restart
  <2>2. \A i \in 1..Len(queue') : queue'[i] = queue[i + 1]
    BY <1>3 DEF Restart
  <2>3. QueueIsPostorder'
    BY <2>1, <2>2
  <2>4. Head(queue) \in TreeOf[root]
    BY <1>3 DEF Restart
  <2>5. QED
    BY <1>0, <1>3, <2>1, <2>2, <2>3, <2>4, TreeAssumption DEF Restart
<1>4. CASE UNCHANGED treeVars
  BY <1>4 DEF treeVars
<1>5. QED
  BY <1>1, <1>2, <1>3, <1>4 DEF Next

\* No sequence of deletions goes through a link, and the restart is given
\* children before their parents, for every tree.
THEOREM PromisesKept == Spec => [](OutsideIsUntouched /\ QueueIsPostorder)
<1>1. TreeInv /\ [Next]_treeVars => TreeInv'
  BY TreeStep
<1>2. TreeInv => OutsideIsUntouched /\ QueueIsPostorder
  BY DEF TreeInv
<1>3. QED
  BY TreeInit, <1>1, <1>2, PTL DEF Spec
=============================================================================
