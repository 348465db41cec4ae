-------------------------- MODULE MCManifestOrder --------------------------
(* Instances of ManifestOrder for TLC. *)
EXTENDS ManifestOrder

CONSTANTS x1, x2, x3, x4, a, b

W(x, d, P) == [hash |-> x, author |-> 1, date |-> d, parents |-> P]

\* Chains, merges of two parents, children older than their parents, two
\* versions of one hash, equal dates, and parents that name each other.
MixedCandidates ==
  { W(x1, 1, {}), W(x1, 4, {}), W(x2, 2, {x1}), W(x2, 2, {x3}),
    W(x3, 3, {x2}), W(x3, 1, {}), W(x4, 4, {x2, x3}), W(x4, 2, {x4}) }
=============================================================================
