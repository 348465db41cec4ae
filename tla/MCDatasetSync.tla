--------------------------- MODULE MCDatasetSync ---------------------------
(* Instances of DatasetSync for TLC: two repositories, a and b. *)
EXTENDS DatasetSync, TLC

CONSTANTS a, b, p1, p2, p3, h1, h2, x1, x2

\* One process in each repository; both processes in repository a; two in
\* a and one in b.
RepoOfEach == p1 :> a @@ p2 :> b
RepoOfSame == p1 :> a @@ p2 :> a
RepoOfTwo  == p1 :> a @@ p2 :> a @@ p3 :> b

V(x, r, d, P) == [hash |-> x, author |-> r, date |-> d, parents |-> P]

\* Two repositories work on different data.
DraftsApart == {V(x1, a, 1, {}), V(x2, b, 1, {})}

\* Two repositories commit the same data, at different times or at the same.
DraftsSameData == {V(x1, a, 1, {}), V(x1, b, 1, {}), V(x2, b, 2, {x1})}

\* b's clock is behind a's: the child is dated before its parent, and b may
\* name the parent before it has fetched it.
DraftsSkewed == {V(x1, a, 2, {}), V(x2, b, 1, {x1}), V(x2, b, 2, {x1})}

\* One repository commits the same data again, then a child of it.
DraftsAgain == {V(x1, a, 1, {}), V(x1, a, 2, {}), V(x2, a, 2, {x1})}

\* Work on different data, and children of either side's, committed on either.
DraftsKnown ==
  DraftsApart \cup {V(x2, a, 2, {x1}), V(x2, b, 2, {x1}), V(x1, b, 2, {x2})}

\* Everything that can keep two histories apart, or a history from being
\* sorted: the same data twice, and a child dated before its parent.
DraftsHard == DraftsSameData \cup DraftsSkewed

\* Request slots are interchangeable, and so are the processes in a.
SlotSymmetry == Permutations(Handler) \cup Permutations({p \in Proc : RepoOf[p] = a})
=============================================================================
