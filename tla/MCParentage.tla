----------------------------- MODULE MCParentage -----------------------------
(* Instances of Parentage for TLC. *)
EXTENDS Parentage, TLC

CONSTANTS h1, h2, h3

\* At most one parent is given with -p, so that the picker adds others.
SomeCommands ==
  [given : {S \in SUBSET Hash : Cardinality(S) <= 1}, pick : BOOLEAN]

\* Hashes are interchangeable.
HashSymmetry == Permutations(Hash)
=============================================================================
