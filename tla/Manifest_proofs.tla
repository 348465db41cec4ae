--------------------------- MODULE Manifest_proofs ---------------------------
(***************************************************************************)
(* Facts about the merge of core/manifest.go, for manifests of any size.   *)
(***************************************************************************)
EXTENDS Manifest, TLAPS

\* Version.Equal is reflexive and symmetric.
LEMMA EqualSymmetric ==
  ASSUME NEW v, NEW w
  PROVE  Equal(v, v) /\ (Equal(v, w) <=> Equal(w, v))
BY DEF Equal, SameHash, SameParents

\* A merge holds the versions of both manifests and no others, if Equal can
\* tell them apart.
LEMMA MergeIsUnion ==
  ASSUME NEW old, NEW new, ToldApart(old \cup new)
  PROVE  Merge(old, new) = old \cup new
BY DEF Merge, Diff, ToldApart

\* Whatever Equal takes for the same, a merge brings no version from elsewhere.
LEMMA MergeWithin ==
  ASSUME NEW old, NEW new
  PROVE  old \subseteq Merge(old, new) /\ Merge(old, new) \subseteq old \cup new
BY DEF Merge, Diff

\* The versions of a manifest with one version per hash are told apart.
LEMMA UniqueToldApart ==
  ASSUME NEW S, UniqueHash(S)
  PROVE  ToldApart(S)
BY DEF UniqueHash, ToldApart, Equal

\* The data a merge refers to is that of the old versions and of the new.
LEMMA MergeHashes ==
  ASSUME NEW old, NEW new
  PROVE  Hashes(Merge(old, new)) = Hashes(old) \cup Hashes(Diff(old, new))
BY DEF Merge, Hashes

\* A version that a merge drops has its hash in the old manifest.
LEMMA MergeHashesAll ==
  ASSUME NEW old, NEW new
  PROVE  Hashes(Merge(old, new)) = Hashes(old) \cup Hashes(new)
<1>1. ASSUME NEW v \in new
      PROVE  v.hash \in Hashes(Merge(old, new))
  <2>1. CASE v \in Diff(old, new)
    BY <2>1 DEF Merge, Hashes
  <2>2. CASE v \notin Diff(old, new)
    <3>1. PICK w \in old : Equal(v, w)
      BY <1>1, <2>2 DEF Diff
    <3>2. QED
      BY <3>1 DEF Merge, Hashes, Equal, SameHash
  <2>3. QED
    BY <2>1, <2>2
<1>2. QED
  BY <1>1, MergeWithin DEF Hashes

\* Parts of a sortable manifest are sortable.
LEMMA AcyclicSubset ==
  ASSUME NEW S, NEW T \in SUBSET S, Acyclic(S)
  PROVE  Acyclic(T)
BY DEF Acyclic

LEMMA WellFormedSubset ==
  ASSUME NEW S, NEW T \in SUBSET S, WellFormed(S)
  PROVE  WellFormed(T)
BY AcyclicSubset DEF WellFormed, UniqueHash

LEMMA EmptyWellFormed == WellFormed({})
BY DEF WellFormed, UniqueHash, Acyclic

\* One version makes a sortable manifest unless it is its own parent, and
\* never has two versions of one hash.
LEMMA SingletonUnique ==
  ASSUME NEW v
  PROVE  UniqueHash({v})
BY DEF UniqueHash

\* Merging manifests with one version per hash, when Merge reports no error,
\* gives a well-formed manifest: no conflict means no version of the one has
\* the hash of a different version of the other.
THEOREM MergeWellFormed ==
  ASSUME NEW old, NEW new, UniqueHash(old), UniqueHash(new), ~MergeError(old, new)
  PROVE  WellFormed(Merge(old, new))
<1>1. Acyclic(Merge(old, new))
  BY DEF MergeError, Merge
<1>2. ASSUME NEW v \in old, NEW w \in new, SameHash(v, w)
      PROVE  Equal(v, w)
  <2>1. <<v, w>> \notin Conflicts(old, new)
    BY DEF MergeError
  <2>2. <<v, w>> \in old \X new /\ <<v, w>>[1] = v /\ <<v, w>>[2] = w
    OBVIOUS
  <2>3. QED
    BY <1>2, <2>1, <2>2 DEF Conflicts
<1>3. ASSUME NEW v \in old, NEW w \in Diff(old, new)
      PROVE  ~SameHash(v, w)
  <2>1. w \in new /\ ~Equal(w, v)
    BY DEF Diff
  <2>2. QED
    BY <1>2, <2>1, EqualSymmetric
<1>4. ASSUME NEW v \in Merge(old, new), NEW w \in Merge(old, new), SameHash(v, w)
      PROVE  v = w
  <2>1. Diff(old, new) \subseteq new
    BY DEF Diff
  <2>2. CASE v \in old /\ w \in old
    BY <1>4, <2>2 DEF UniqueHash
  <2>3. CASE v \in Diff(old, new) /\ w \in Diff(old, new)
    BY <1>4, <2>1, <2>3 DEF UniqueHash
  <2>4. ~(v \in old /\ w \in Diff(old, new)) /\ ~(w \in old /\ v \in Diff(old, new))
    BY <1>3, <1>4 DEF SameHash
  <2>5. QED
    BY <2>2, <2>3, <2>4 DEF Merge
<1>5. QED
  BY <1>1, <1>4 DEF WellFormed, UniqueHash

\* Merging a part of a well-formed manifest into it is no error and brings
\* nothing new: the merge of a push that is repeated, or of an answer that
\* the client already has.
THEOREM MergeOfPart ==
  ASSUME NEW old, NEW new \in SUBSET old, WellFormed(old)
  PROVE  ~MergeError(old, new) /\ Diff(old, new) = {} /\ Merge(old, new) = old
<1>1. Diff(old, new) = {}
  BY EqualSymmetric DEF Diff
<1>2. Conflicts(old, new) = {}
  BY EqualSymmetric DEF Conflicts, WellFormed, UniqueHash
<1>3. QED
  BY <1>1, <1>2 DEF MergeError, Merge, WellFormed

\* Merging a well-formed manifest into a part of it is no error either: what
\* a client does with the server's answer to its push.
THEOREM MergeIntoPart ==
  ASSUME NEW new, NEW old \in SUBSET new, WellFormed(new)
  PROVE  ~MergeError(old, new) /\ Merge(old, new) = new
<1>1. Merge(old, new) = new
  <2>1. old \cup new = new /\ ToldApart(new)
    BY UniqueToldApart DEF WellFormed
  <2>2. QED
    BY <2>1, MergeIsUnion
<1>2. Conflicts(old, new) = {}
  BY EqualSymmetric DEF Conflicts, WellFormed, UniqueHash
<1>3. QED
  BY <1>1, <1>2 DEF MergeError, Merge, WellFormed

\* Which of two manifests is merged into the other does not matter, if Equal can
\* tell their versions apart.  (Otherwise each side keeps its own.)
THEOREM MergeCommutes ==
  ASSUME NEW old, NEW new, ToldApart(old \cup new)
  PROVE  /\ Merge(old, new) = Merge(new, old)
         /\ MergeError(old, new) <=> MergeError(new, old)
<1>1. Merge(old, new) = Merge(new, old)
  <2>1. old \cup new = new \cup old
    OBVIOUS
  <2>2. Merge(old, new) = old \cup new
    BY MergeIsUnion
  <2>3. Merge(new, old) = new \cup old
    BY <2>1, MergeIsUnion
  <2>4. QED
    BY <2>1, <2>2, <2>3
<1>2. ASSUME NEW S, NEW T, Conflicts(S, T) = {}
      PROVE  Conflicts(T, S) = {}
  <2>1. SUFFICES ASSUME NEW c \in Conflicts(T, S) PROVE FALSE
    OBVIOUS
  <2>2. /\ c[1] \in T /\ c[2] \in S
        /\ SameHash(c[2], c[1]) /\ ~Equal(c[2], c[1])
    BY EqualSymmetric DEF Conflicts, SameHash
  <2>3. <<c[2], c[1]>> \in Conflicts(S, T)
    BY <2>2 DEF Conflicts
  <2>4. QED
    BY <1>2, <2>3
<1>3. QED
  BY <1>1, <1>2 DEF MergeError, Merge

\* Manifests with one version per hash have no conflict exactly if there is
\* one version per hash in both together.
LEMMA ConflictsIffUnique ==
  ASSUME NEW S, NEW T, UniqueHash(S), UniqueHash(T), ToldApart(S \cup T)
  PROVE  Conflicts(S, T) = {} <=> UniqueHash(S \cup T)
<1>1. ASSUME Conflicts(S, T) = {}
      PROVE  UniqueHash(S \cup T)
  <2>1. ASSUME NEW v \in S, NEW w \in T, SameHash(v, w)
        PROVE  v = w
    <3>1. <<v, w>> \notin Conflicts(S, T)
      BY <1>1
    <3>2. <<v, w>> \in S \X T /\ <<v, w>>[1] = v /\ <<v, w>>[2] = w
      OBVIOUS
    <3>3. Equal(v, w)
      BY <2>1, <3>1, <3>2 DEF Conflicts
    <3>4. QED
      BY <3>3 DEF ToldApart
  <2>2. QED
    BY <2>1 DEF UniqueHash, SameHash
<1>2. ASSUME UniqueHash(S \cup T)
      PROVE  Conflicts(S, T) = {}
  BY <1>2, EqualSymmetric DEF Conflicts, UniqueHash
<1>3. QED
  BY <1>1, <1>2

\* A merge fails exactly if the two histories have no common one: whether two
\* parties can merge depends on what they have, not on how they came by it.
THEOREM MergeErrorIffUnion ==
  ASSUME NEW S, NEW T, UniqueHash(S), UniqueHash(T), ToldApart(S \cup T)
  PROVE  MergeError(S, T) <=> ~WellFormed(S \cup T)
BY ConflictsIffUnique, MergeIsUnion DEF MergeError, Merge, WellFormed

\* Three histories that go together can be merged in any order and grouping,
\* without an error and with the same result.
THEOREM MergeOrderIrrelevant ==
  ASSUME NEW S, NEW T, NEW U, WellFormed(S \cup T \cup U)
  PROVE  /\ ~MergeError(S, T) /\ ~MergeError(Merge(S, T), U)
         /\ ~MergeError(T, U) /\ ~MergeError(S, Merge(T, U))
         /\ Merge(Merge(S, T), U) = Merge(S, Merge(T, U))
<1> DEFINE All == S \cup T \cup U
<1>1. ASSUME NEW A \in SUBSET All, NEW B \in SUBSET All
      PROVE  ~MergeError(A, B)
  <2>1. WellFormed(A) /\ WellFormed(B) /\ WellFormed(A \cup B)
    BY WellFormedSubset
  <2>2. ToldApart(A \cup B)
    BY <2>1, UniqueToldApart DEF WellFormed
  <2>3. QED
    BY <2>1, <2>2, MergeErrorIffUnion DEF WellFormed
<1>u. ASSUME NEW A \in SUBSET All, NEW B \in SUBSET All
      PROVE  Merge(A, B) = A \cup B
  <2>1. WellFormed(A \cup B)
    BY WellFormedSubset
  <2>2. QED
    BY <2>1, UniqueToldApart, MergeIsUnion DEF WellFormed
<1>2. Merge(S, T) = S \cup T /\ Merge(T, U) = T \cup U
  BY <1>u
<1>3. ~MergeError(S, T) /\ ~MergeError(Merge(S, T), U)
  BY <1>1, <1>2
<1>4. ~MergeError(T, U) /\ ~MergeError(S, Merge(T, U))
  BY <1>1, <1>2
<1>5. Merge(Merge(S, T), U) = Merge(S, Merge(T, U))
  <2>1. Merge(S \cup T, U) = S \cup T \cup U /\ Merge(S, T \cup U) = S \cup (T \cup U)
    BY <1>u
  <2>2. QED
    BY <1>2, <2>1
<1>6. QED
  BY <1>3, <1>4, <1>5

\* Histories that cannot be merged never can again, since both only grow: a
\* conflict, or a cycle, between two parties is there to stay.
THEOREM MergeErrorPersists ==
  ASSUME NEW S, NEW T, NEW later_S, NEW later_T, S \subseteq later_S, T \subseteq later_T,
         ToldApart(later_S \cup later_T), MergeError(S, T)
  PROVE  MergeError(later_S, later_T)
<1>1. CASE Conflicts(S, T) # {}
  BY <1>1 DEF MergeError, Conflicts
<1>2. CASE ~Acyclic(Merge(S, T))
  <2>1. Merge(S, T) \subseteq Merge(later_S, later_T)
    BY MergeIsUnion, MergeWithin
  <2>2. ~Acyclic(Merge(later_S, later_T))
    BY <1>2, <2>1, AcyclicSubset
  <2>3. QED
    BY <2>2 DEF MergeError, Merge
<1>3. QED
  BY <1>1, <1>2 DEF MergeError, Merge

\* A manifest that is not empty has a version that is nobody's parent, so
\* checkParentage always has a leaf to propose.
THEOREM LeafExists ==
  ASSUME NEW S, S # {}, WellFormed(S)
  PROVE  LeafVersions(S) # {}
<1>1. PICK v \in S : \A w \in S : ~Precedes(v, w)
  BY DEF WellFormed, Acyclic
<1>2. v \in LeafVersions(S)
  BY <1>1 DEF LeafVersions, Precedes
<1>3. QED
  BY <1>2
=============================================================================
