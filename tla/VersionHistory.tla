--------------------------- MODULE VersionHistory ---------------------------
(***************************************************************************)
(* What dorothy promises its users: every repository has a history of      *)
(* versions, and the server publishes one.  Histories only grow, and can   *)
(* always be sorted.  A version enters a repository's history when it is   *)
(* committed there, or when it is pulled from the published history, and   *)
(* it is published only out of the history of a repository.                *)
(*                                                                         *)
(* DatasetSync implements this as long as no two processes at a time use a *)
(* --global repository and pushes do not overlap.                          *)
(***************************************************************************)
EXTENDS Manifest

CONSTANTS Replica,  \* who has a history
          Version   \* versions there may be

VARIABLES history,   \* the history of each replica
          published  \* the published history

vars == <<history, published>>

Init == history = [r \in Replica |-> {}] /\ published = {}

Grow(r, S) ==
  /\ WellFormed(history[r] \cup S)
  /\ history' = [history EXCEPT ![r] = @ \cup S]
  /\ UNCHANGED published

\* A user commits a version of their own.
Record(r) == \E v \in Version : v.author = r /\ Grow(r, {v})

\* A replica takes over published versions.
Pull(r) == \E S \in SUBSET published : Grow(r, S)

\* Versions of a replica are published.
Publish(r) ==
  \E S \in SUBSET history[r] :
    /\ WellFormed(published \cup S)
    /\ published' = published \cup S
    /\ UNCHANGED history

Next == \E r \in Replica : Record(r) \/ Pull(r) \/ Publish(r)

Spec == Init /\ [][Next]_vars
=============================================================================
