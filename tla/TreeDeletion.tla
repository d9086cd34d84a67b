---------------------------- MODULE TreeDeletion ----------------------------
(***************************************************************************)
(* What the removal of one candidate promises of the disk and of Windows'  *)
(* list of deletions at the next restart, whatever the order of its calls: *)
(* only entries of the candidate's own tree vanish, a directory only when  *)
(* it is empty, and nothing is queued after a directory it lies in.        *)
(* CandidateRemoval is shown to implement this specification.              *)
(***************************************************************************)
EXTENDS CandidateTree

VARIABLES
  root,       \* the candidate
  present,    \* the entries that exist
  queue       \* what MoveFileExW has queued for the next restart, in order

treeVars == <<root, present, queue>>

Init ==
  /\ root \in Roots
  /\ present \subseteq TreeOf[root] \cup Outside
  /\ Outside \subseteq present
  /\ queue = <<>>

Remove(n) ==
  /\ Removable(n, present)
  /\ present' = present \ {n}
  /\ UNCHANGED <<root, queue>>

\* Other programs create entries as well as remove them.
Appear(n) ==
  /\ present' = present \cup {n}
  /\ UNCHANGED <<root, queue>>

Enqueue(n) ==
  /\ \A i \in 1..Len(queue) : queue[i] \notin Ancestors[n]
  /\ queue' = Append(queue, n)
  /\ UNCHANGED <<root, present>>

\* The restart takes the first deletion and carries it out if it can.
Restart ==
  /\ queue # <<>>
  /\ queue' = Tail(queue)
  /\ \/ UNCHANGED present
     \/ /\ Removable(Head(queue), present)
        /\ present' = present \ {Head(queue)}
  /\ UNCHANGED root

Next ==
  \/ \E n \in TreeOf[root] : Remove(n) \/ Appear(n) \/ Enqueue(n)
  \/ Restart

Spec == Init /\ [][Next]_treeVars

-----------------------------------------------------------------------------
(* Properties.                                                             *)

\* No removal, now or at the restart, goes through a link or reaches another
\* candidate: what lies elsewhere stays as it is, and is never queued.
OutsideIsUntouched ==
  /\ Outside \subseteq present
  /\ \A i \in 1..Len(queue) : queue[i] \in TreeOf[root]

\* Children before parents: the restart works in order, and a directory that
\* still has an entry in it would stay.
QueueIsPostorder ==
  \A i, j \in 1..Len(queue) : i < j => queue[i] \notin Ancestors[queue[j]]
=============================================================================
