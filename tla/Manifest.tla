------------------------------ MODULE Manifest ------------------------------
(***************************************************************************)
(* Versions, manifests and the operations of core/manifest.go on them.     *)
(*                                                                         *)
(* A version is a record [hash, author, date, parents]: the hash of the    *)
(* data, who committed it (author, message and path type together), when,  *)
(* and the hashes of its parents.  A manifest is the SET of its versions:  *)
(* Merge returns them sorted, and for distinct dates the sorted sequence   *)
(* is a function of the set (module ManifestOrder checks that), so the set *)
(* also stands for the manifest's own content hash.                        *)
(***************************************************************************)
EXTENDS Naturals, FiniteSets

\* Version.SameHash and Version.SameParents.  The latter appends the parents of
\* w to `these', the parents of v, where it means an empty slice: it compares v's
\* parents with themselves, and only their number matters.
SameHash(v, w)    == v.hash = w.hash
SameParents(v, w) == Cardinality(v.parents) = Cardinality(w.parents)

Equal(v, w) ==
  SameHash(v, w) /\ v.author = w.author /\ v.date = w.date /\ SameParents(v, w)

\* No two versions of S differ in their parents alone.  It would take an author
\* who commits the same data twice at one instant with different parents.
ToldApart(S) == \A v, w \in S : Equal(v, w) => v = w

Hashes(S) == {v.hash : v \in S}

\* toposort adds an edge from p to c when p is a parent of c, and when p is
\* older than c.
Precedes(p, c) == p.hash \in c.parents \/ p.date < c.date

\* The edges among S have no cycle: every nonempty part of S has a version
\* that precedes none of that part.  toposort fails otherwise.
Acyclic(S) ==
  \A T \in SUBSET S : T # {} => \E v \in T : \A w \in T : ~Precedes(v, w)

\* Mutant of Conflicts: every version both manifests hold is a conflict.
ConflictsAll(old, new)  == {c \in old \X new : SameHash(c[1], c[2])}

\* Manifest.Conflicts: the pairs of different versions of the same data.
Conflicts(old, new) ==
  {c \in old \X new : SameHash(c[1], c[2]) /\ ~Equal(c[1], c[2])}

\* Manifest.Diff: the versions of `new' equal to none of `old'.
Diff(old, new) == {v \in new : \A w \in old : ~Equal(v, w)}

\* Mutants of MergeError: a cyclic result is accepted; a conflict is.
MergeErrorNoSort(old, new)     == Conflicts(old, new) # {}
MergeErrorNoConflict(old, new) == ~Acyclic(old \cup Diff(old, new))

\* Manifest.Merge: nothing but an error, or the versions of both manifests.
MergeError(old, new) ==
  \/ Conflicts(old, new) # {}
  \/ ~Acyclic(old \cup Diff(old, new))

Merge(old, new) == old \cup Diff(old, new)

\* Manifest.UnknownCommits and Manifest.LeafVersions.
UnknownCommits(S, commits) == commits \ Hashes(S)
LeafVersions(S) == {v \in S : \A w \in S : v.hash \notin w.parents}

-----------------------------------------------------------------------------
\* What every manifest of the system satisfies: one version per data hash,
\* and an order that respects both parentage and dates.
UniqueHash(S) == \A v, w \in S : SameHash(v, w) => v = w
WellFormed(S) == UniqueHash(S) /\ Acyclic(S)
=============================================================================
