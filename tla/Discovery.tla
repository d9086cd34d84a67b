----------------------------- MODULE Discovery -----------------------------
(***************************************************************************)
(* The scan for candidates (discovery.rs): the search roots, the pruned    *)
(* walk below them, and the collapse of candidates that lie in others.     *)
(* The disk does not change during a scan; a folder may be unreadable,     *)
(* roots and entries may be left out without a word, and an abort may come *)
(* between any two entries.  The order of the roots and of the entries of  *)
(* a folder is that of texts and of the file system: any.                  *)
(***************************************************************************)
EXTENDS Matching

CONSTANTS
  FixedPlaces,      \* the folders below the program directories
  ProfileSuffixes,  \* the places in a user profile
  SharedProfiles,   \* "Default", "Public" and the like
  Packages          \* ArchMarked names that begin with "nv"

ASSUME PlacesAssumption == FixedPlaces \cup ProfileSuffixes \subseteq NonEmptyPaths

VARIABLES
  disk,       \* the file system
  faults,     \* "list": a folder may be unreadable; "silent": a probe or a
              \* listing may fail where nothing reports it; "abort"
  enabled,    \* the component selection of the process
  abort,      \* ABORT_REQUESTED
  dpc,        \* "off", "scan" or "done"
  roots,      \* search roots not entered yet
  stack,      \* the folders being walked, with the entries to visit in each
  found,      \* RunState.candidates
  unread,     \* folders that were not read; no warning only for a root (below)
  missed,     \* not in the code: roots and entries left out without a word
  aborted     \* RunState.aborted

scanVars == <<abort, dpc, roots, stack, found, unread, missed, aborted>>

DiscoveryInit ==
  /\ abort = FALSE /\ aborted = FALSE
  /\ dpc = "off"
  /\ roots = {} /\ stack = <<>> /\ found = {} /\ unread = {}
  /\ missed = {}

\* What get_existing_roots looks for: real directories only.
Profiles == {u \in disk.dirs : Front(u) = <<"Users">> /\ Last(u) \notin SharedProfiles}
SearchRoots ==
  {r \in FixedPlaces \cup {u \o s : u \in Profiles, s \in ProfileSuffixes} :
     KindOf(disk, r) = "dir"}
  \cup {d \in disk.dirs : Len(d) > 1 /\ d[Len(d) - 1] = "FileRepository" /\ Last(d) \in Packages}

\* What it may return: the listing of FileRepository or Users, an entry in it,
\* or the probe of a root fails, and get_existing_roots goes on without it.
RootsFound == IF "silent" \in faults THEN SUBSET SearchRoots ELSE {SearchRoots}

StartScan ==
  /\ dpc = "off"
  /\ dpc' = "scan"
  /\ roots' \in RootsFound
  /\ missed' = SearchRoots \ roots'
  /\ UNCHANGED <<abort, stack, found, unread, aborted>>

\* process_path: a path is taken once, under its canonical key.
Seen == {Canonical(disk, q) : q \in found}
Visit(p) ==
  found' = IF Matches(p, enabled) /\ Canonical(disk, p) \notin Seen
           THEN found \cup {p} ELSE found

NotRead(d, below) ==
  /\ unread' = unread \cup {d}
  /\ stack' = below

\* The call of walk for a folder, above the folders in below.
Walk(d, below) ==
  \/ /\ stack' = Append(below, [dir |-> d, rest |-> Listing(disk, d)])
     /\ UNCHANGED unread
  \/ "list" \in faults /\ NotRead(d, below)

\* A root is probed once more; when that fails it is not walked, and no warning
\* says so.
EnterRoot(r) ==
  /\ dpc = "scan" /\ stack = <<>>
  /\ r \in roots
  /\ ~abort
  /\ roots' = roots \ {r}
  /\ Visit(r)
  /\ Walk(r, stack) \/ ("silent" \in faults /\ NotRead(r, stack))
  /\ UNCHANGED <<abort, dpc, missed, aborted>>

RootsAbort ==
  /\ dpc = "scan" /\ stack = <<>>
  /\ roots # {}
  /\ abort
  /\ roots' = {}
  /\ aborted' = TRUE
  /\ UNCHANGED <<abort, dpc, stack, found, unread, missed>>

Rest == Last(stack).rest
After(e) == Append(Front(stack), [Last(stack) EXCEPT !.rest = @ \ {e}])

\* Faulty: would go on into reparse points.
FollowLinks(e) ==
  /\ dpc = "scan" /\ stack # <<>>
  /\ e \in Rest
  /\ ~abort
  /\ Visit(e)
  /\ IF KindOf(disk, e) = "file"
     THEN stack' = After(e) /\ UNCHANGED unread
     ELSE Walk(e, After(e))
  /\ UNCHANGED <<abort, dpc, roots, missed, aborted>>

EnterEntry(e) ==
  /\ dpc = "scan" /\ stack # <<>>
  /\ e \in Rest
  /\ ~abort
  /\ IF KindOf(disk, e) # "link" /\ ShouldPruneTraversal(e, enabled)
     THEN /\ stack' = After(e)
          /\ UNCHANGED <<found, unread>>
     ELSE /\ Visit(e)
          /\ IF KindOf(disk, e) = "dir"
             THEN Walk(e, After(e))
             ELSE stack' = After(e) /\ UNCHANGED unread
  /\ UNCHANGED <<abort, dpc, roots, missed, aborted>>

\* An entry that read_dir reports an error for: flatten drops it before the
\* loop looks at the abort.
EntryLost(e) ==
  /\ dpc = "scan" /\ stack # <<>>
  /\ "silent" \in faults
  /\ e \in Rest
  /\ stack' = After(e)
  /\ missed' = missed \cup {e}
  /\ UNCHANGED <<abort, dpc, roots, found, unread, aborted>>

\* Each folder on the stack sees the abort for itself.
WalkAborts ==
  /\ dpc = "scan" /\ stack # <<>>
  /\ Rest # {}
  /\ abort
  /\ aborted' = TRUE
  /\ stack' = Front(stack)
  /\ UNCHANGED <<abort, dpc, roots, found, unread, missed>>

LeaveFolder ==
  /\ dpc = "scan" /\ stack # <<>>
  /\ Rest = {}
  /\ stack' = Front(stack)
  /\ UNCHANGED <<abort, dpc, roots, found, unread, missed, aborted>>

(***************************************************************************)
(* collapse_nested_candidates: the shortest texts first.                   *)
(***************************************************************************)
\* Faulty: would test the text of the key without the separator.
TextBegins(parent, child) ==
  /\ Len(parent) <= Len(child)
  /\ Front(parent) = SubSeq(child, 1, Len(parent) - 1)
  /\ \/ Last(parent) = child[Len(parent)]
     \/ <<Last(parent), child[Len(parent)]>> \in Continues

KeyIsParentOfOrEqual(parent, child) == IsPrefix(parent, child)

KeepUnlessNested(p, kept) ==
  IF \E k \in kept : KeyIsParentOfOrEqual(Canonical(disk, k), Canonical(disk, p))
  THEN kept ELSE kept \cup {p}

\* The sort by length, with texts of one length in some order: the fold ends
\* with the element it chooses first.
Longest(paths) == CHOOSE p \in paths : \A q \in paths : PathSize(q) <= PathSize(p)

CollapseNestedCandidates(paths) ==
  MapThenFoldSet(KeepUnlessNested, {}, LAMBDA p : p, Longest, paths)

Collapse ==
  /\ dpc = "scan"
  /\ stack = <<>> /\ roots = {}
  /\ found' = CollapseNestedCandidates(found)
  /\ dpc' = "done"
  /\ UNCHANGED <<abort, roots, stack, unread, missed, aborted>>

RequestAbort ==
  /\ dpc = "scan"
  /\ "abort" \in faults
  /\ ~abort
  /\ abort' = TRUE
  /\ UNCHANGED <<dpc, roots, stack, found, unread, missed, aborted>>

ScanStep ==
  \/ \E r \in roots : EnterRoot(r)
  \/ RootsAbort
  \/ stack # <<>> /\ \E e \in Rest : EnterEntry(e) \/ EntryLost(e)
  \/ WalkAborts
  \/ LeaveFolder
  \/ Collapse
  \/ RequestAbort

(***************************************************************************)
(* What a scan promises.                                                   *)
(***************************************************************************)
\* The paths the walk goes by: the entries of a root under the root's name.
Paths ==
  UNION {{r \o SubSeq(e, Len(Canonical(disk, r)) + 1, Len(e)) :
            e \in {e \in Entries(disk) : IsPrefix(Canonical(disk, r), e)}} :
         r \in SearchRoots}

\* p is an entry of a folder the scan could go to: no folder on the way was
\* unreadable or pruned, and neither its root nor p nor anything between was
\* left out.
Reachable(p) ==
  \E r \in SearchRoots :
    /\ IsPrefix(r, p)
    /\ \A i \in Len(r)..Len(p) - 1 :
         KindOf(disk, SubSeq(p, 1, i)) = "dir" /\ SubSeq(p, 1, i) \notin unread
    /\ \A i \in Len(r) + 1..Len(p) :
         KindOf(disk, SubSeq(p, 1, i)) = "link"
         \/ ~ShouldPruneTraversal(SubSeq(p, 1, i), enabled)
    /\ \A i \in Len(r)..Len(p) : SubSeq(p, 1, i) \notin missed

Wanted == {p \in Paths : Reachable(p) /\ Matches(p, enabled)}

\* What disappears when every path in kept is removed: links go themselves.
Goes(kept) ==
  {e \in Entries(disk) :
     \E k \in kept : \/ e = Located(disk, k)
                     \/ KindOf(disk, k) = "dir" /\ IsPrefix(Located(disk, k), e)}

\* The key of a link is that of what it leads to, so the collapse takes what
\* lies there for nested in the link, and a link for nested in what holds its
\* target.  A candidate link hides from the list all that matches at or below
\* its target, which stays on the disk when the link goes; and a link whose
\* target goes with a candidate stays itself.
LinkHidesIt(p) ==
  \E q \in found \ {p} :
    /\ "link" \in {KindOf(disk, p), KindOf(disk, q)}
    /\ IsPrefix(Canonical(disk, q), Canonical(disk, p))

\* A scan that was not aborted loses nothing else: every path that matches and
\* that it could reach, past the folders it could not read and what it left out
\* without a word, goes with some candidate that is left after the collapse,
\* unless a link hides it.  discover_candidates, walk and
\* collapse_nested_candidates.
ScanIsWhole ==
  dpc = "done" /\ ~aborted =>
    \A p \in Wanted : Located(disk, p) \in Goes(found) \/ LinkHidesIt(p)

\* Whatever links the roots hold, no entry outside of them goes: links may be
\* candidates, what lies behind them may not (audit finding FS-01 in walk).
StaysInRoots ==
  \A e \in Goes(found) : \E r \in SearchRoots : IsPrefix(Canonical(disk, r), e)
=============================================================================
