------------------------------ MODULE Matching ------------------------------
(***************************************************************************)
(* Paths, and which of them a scan may take (matching.rs, fsutil.rs).  A   *)
(* path is the sequence of its names below the drive; a disk is a record   *)
(* of the directories and files it holds and of its reparse points with    *)
(* their targets, which have no reparse point on the way to them.  Names   *)
(* are compared without case, so case is left out.                         *)
(***************************************************************************)
EXTENDS Integers, SequencesExt

CONSTANTS
  LeafClaims,     \* for each name, the components whose globs or leaves it fits
  Size,           \* for each name, the length of its text
  Nsight,         \* names that begin with "nsight compute" or "nsight systems"
  ArchMarked,     \* names that contain ".inf_amd64" or ".inf_arm64"
  CoreLeaves,     \* CORE_DISPLAY_LEAVES
  Continues       \* pairs of names: the text of the second begins with the first

Names == DOMAIN LeafClaims
NonEmptyPaths == Seq(Names) \ {<<>>}

Links(disk) == DOMAIN disk.links
Entries(disk) == disk.dirs \cup disk.files \cup Links(disk)

\* What a disk can be: an entry is one of the three and has the path without a
\* reparse point on the way to it, and in a file there is nothing.
WellFormed(disk) ==
  /\ Entries(disk) \subseteq NonEmptyPaths
  /\ \A l \in Links(disk) : disk.links[l] \in Seq(Names)
  /\ disk.dirs \cap disk.files = {} /\ (disk.dirs \cup disk.files) \cap Links(disk) = {}
  /\ \A e \in Entries(disk) : \A i \in 1..Len(e) - 1 :
       SubSeq(e, 1, i) \notin Links(disk) \cup disk.files

ASSUME SizeAssumption == \A n \in Names : Size[n] \in Nat

\* canonicalize: the path with the first reparse point on it resolved.
Canonical(disk, p) ==
  LET via == {i \in 1..Len(p) : SubSeq(p, 1, i) \in Links(disk)}
  IN IF via = {} THEN p
     ELSE LET i == CHOOSE i \in via : \A j \in via : i <= j
          IN disk.links[SubSeq(p, 1, i)] \o SubSeq(p, i + 1, Len(p))

\* The entry a path leads to when its last name is not followed, and its kind
\* (path_kind_no_follow).
Located(disk, p) == Append(Canonical(disk, Front(p)), Last(p))
KindOf(disk, p) ==
  CASE Located(disk, p) \in disk.dirs -> "dir"
    [] Located(disk, p) \in disk.files -> "file"
    [] Located(disk, p) \in Links(disk) -> "link"
    [] OTHER -> "missing"

\* read_dir: the paths of a folder's entries.
Listing(disk, d) ==
  {Append(d, Last(e)) : e \in {e \in Entries(disk) : Front(e) = Canonical(disk, d)}}

PathSize(p) == FoldLeft(LAMBDA n, name : n + Size[name] + 1, 0, p)

(***************************************************************************)
(* What no component may take.                                             *)
(***************************************************************************)
IsDeveloperToolPath(p) ==
  \/ \E i \in 1..Len(p) - 1 : p[i] \in {"NVIDIA GPU Computing Toolkit", "CUDA"}
  \/ \E i \in 1..Len(p) : p[i] \in Nsight

UnderNgx(p) ==
  \E i \in 2..Len(p) :
    /\ p[i] = "NGX"
    /\ \/ p[i - 1] = "NVIDIA Corporation"
       \/ i > 2 /\ p[i - 1] = "NVIDIA" /\ p[i - 2] = "ProgramData"
IsNgxPathWithoutNgxSelection(p, enabled) == UnderNgx(p) /\ "NGX" \notin enabled

\* The two predicates for packages and for their sidecars: the first, which
\* looks at every level below the repository, covers the second.
IsDriverStorePackage(p) ==
  /\ \E i \in 1..Len(p) - 1 : p[i] = "FileRepository"
  /\ Last(p) \in ArchMarked

IsExcludedCandidatePath(p, enabled) ==
  \/ IsDeveloperToolPath(p)
  \/ IsDriverStorePackage(p)
  \/ IsNgxPathWithoutNgxSelection(p, enabled)
  \/ Last(p) \in CoreLeaves

ShouldPruneTraversal(p, enabled) ==
  IsDeveloperToolPath(p) \/ IsNgxPathWithoutNgxSelection(p, enabled)

(***************************************************************************)
(* match_component_for_path: which of several claimants is named decides a *)
(* line of the report only, and is left out.                               *)
(***************************************************************************)
InCorporation(p) == \E i \in 1..Len(p) : p[i] = "NVIDIA Corporation"
Claimants(p) ==
  {c \in LeafClaims[Last(p)] : c = "Installer2Cache" => InCorporation(p)}

Matches(p, enabled) ==
  ~IsExcludedCandidatePath(p, enabled) /\ Claimants(p) \cap enabled # {}
=============================================================================
