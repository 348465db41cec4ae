---------------------------- MODULE ManifestSets ----------------------------
(***************************************************************************)
(* What a merge of manifests promises, on sets of versions: a copy of the  *)
(* dataset takes in the versions of another, or one that is committed, all *)
(* of them or, if they conflict or cannot be sorted, none.                 *)
(* ManifestOrder implements this on the slices of core/manifest.go.        *)
(***************************************************************************)
EXTENDS Manifest

CONSTANTS Copy,      \* the repositories and the server
          Candidate  \* versions that may be committed

VARIABLE versions  \* the versions each copy has
vars == <<versions>>

Init == versions = [c \in Copy |-> {}]

Absorb(c, S) ==
  versions' = [versions EXCEPT ![c] = IF MergeError(@, S) THEN @ ELSE Merge(@, S)]

Next ==
  \E c \in Copy : \/ \E v \in Candidate : Absorb(c, {v})
                  \/ \E d \in Copy : Absorb(c, versions[d])

Spec == Init /\ [][Next]_vars
=============================================================================
