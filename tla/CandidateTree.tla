--------------------------- MODULE CandidateTree ---------------------------
(***************************************************************************)
(* The entries on disk that the removal of a candidate may meet: the trees *)
(* at the candidates' paths, and what only a reparse point in such a tree  *)
(* leads to.  Their names and kinds are constants; which of them exist is  *)
(* the state of the modules that use this one.                             *)
(***************************************************************************)
EXTENDS Naturals, Sequences, FiniteSets

CONSTANTS
  Tree,       \* the entries at and below the candidates that may exist
  Outside,    \* entries that only a link in Tree leads to
  Roots,      \* the candidates themselves
  Kind,       \* "file", "dir" or "link" (any reparse point), for each entry
  Parent,     \* the directory, or the link, whose listing shows an entry
  Ancestors   \* the entries above an entry

Entries == Tree \cup Outside

ASSUME TreeAssumption ==
  /\ Roots \subseteq Tree
  /\ Tree \cap Outside = {}
  /\ Kind \in [Entries -> {"file", "dir", "link"}]
  /\ Parent \in [Entries \ Roots -> Entries]
  /\ Ancestors \in [Entries -> SUBSET Entries]
  /\ \A n \in Roots : Ancestors[n] = {}
  /\ \A n \in Entries \ Roots :
       Ancestors[n] = Ancestors[Parent[n]] \cup {Parent[n]}
  /\ \A n \in Entries : n \notin Ancestors[n]
  /\ \A n \in Entries : \A m \in Ancestors[n] : Ancestors[m] \subseteq Ancestors[n]
  /\ \A n \in Entries : \A d \in Ancestors[n] :
       \E c \in Entries \ Roots : Parent[c] = d /\ (c = n \/ c \in Ancestors[n])
  /\ \A n \in Tree \ Roots : Parent[n] \in Tree /\ Kind[Parent[n]] = "dir"
  /\ \A n \in Outside : Parent[n] \in Outside \/ Kind[Parent[n]] = "link"

\* The entries of each candidate.
TreeOf == [r \in Roots |-> {n \in Tree : n = r \/ r \in Ancestors[n]}]

\* What a listing shows: of a link, the contents of its target.
Children == [d \in Entries |-> {n \in Entries \ Roots : Parent[n] = d}]

\* A directory goes only when it is empty; a link goes whatever its target
\* holds, and the target stays.
Removable(n, there) ==
  /\ n \in there
  /\ Kind[n] = "dir" => Children[n] \cap there = {}
=============================================================================
