---------------------------- MODULE ManifestOrder ----------------------------
(***************************************************************************)
(* The order of the versions in a manifest: Merge and toposort of          *)
(* core/manifest.go as they work on the slice Manifest.Versions, one loop  *)
(* iteration or call of the sorter at a time.  Module ManifestSets has the *)
(* same operation on sets, in one step.                                    *)
(*                                                                         *)
(* Copies of a dataset commit versions of their own and take over each     *)
(* other's manifest, as the repositories and the server do.  A merge reads *)
(* nothing but its two operands, so merges are modelled one at a time; how *)
(* commands and handlers interleave is the subject of DatasetSync.         *)
(***************************************************************************)
EXTENDS Manifest, Integers, SequencesExt

CONSTANTS Copy,       \* the repositories and the server
          None,       \* no copy
          Candidate   \* versions that may be committed

ASSUME CopyAssumption == None \notin Copy
ASSUME CandidateAssumption == \A v \in Candidate : v.date \in Int

VARIABLES
  manifest,  \* the slice of versions each copy has
  target,    \* the copy whose manifest is the receiver of Merge, or None
  new,       \* the argument of Merge
  taken,     \* how many versions of new the loop of Merge has looked at
  slice,     \* Merge's `updated', the slice that toposort gets
  root,      \* the next node Sorter.Sort visits
  stack,     \* the calls of visit that have not returned
  sorted,    \* the nodes whose visit has returned
  cyclic     \* a visit met a node that was still being visited

sorter == <<root, stack, sorted, cyclic>>
vars == <<manifest, target, new, taken, slice, sorter>>

-----------------------------------------------------------------------------
\* Mutant of OlderEdge: only parentage orders the versions.
OlderEdgeNever(p, c) == FALSE

\* The two kinds of edge toposort adds from p to c.
ParentEdge(p, c) == p.hash \in c.parents
OlderEdge(p, c)  == p.date < c.date

\* Mutant of Child: the second half of the slots is not folded onto the first.
ChildUnfolded(s, m) == m

\* The children of a node of s, in the order toposort adds the edges, are
\* found in 2*Len(s) slots: first the versions it is a parent of, then those
\* it is older than.  (A version that is both is its child twice.)
Child(s, m) == IF m <= Len(s) THEN m ELSE m - Len(s)
HasEdge(s, i, m) ==
  IF m <= Len(s) THEN ParentEdge(s[i], s[m]) ELSE OlderEdge(s[i], s[m - Len(s)])

\* The first slot from a on that holds a child of node i.
NextEdge(s, i, a, m) ==
  /\ m \in a .. (2 * Len(s))
  /\ HasEdge(s, i, m)
  /\ \A l \in a .. (m - 1) : ~HasEdge(s, i, l)

\* Mutant of Visiting: nodes that are being visited are not remembered.
VisitingNever(i) == FALSE

Done(i)     == \E k \in DOMAIN sorted : sorted[k] = i
Visiting(i) == \E k \in DOMAIN stack : stack[k].node = i

\* Mutant of Result: the sorter's result is not turned around.
ResultForward == [k \in DOMAIN sorted |-> slice[sorted[k]]]

\* toposort turns the sorted nodes around.
Result == [k \in DOMAIN sorted |-> slice[sorted[Len(sorted) + 1 - k]]]

-----------------------------------------------------------------------------
Init ==
  /\ manifest = [c \in Copy |-> <<>>]
  /\ target = None /\ new = <<>> /\ taken = 0 /\ slice = <<>>
  /\ root = 1 /\ stack = <<>> /\ sorted = <<>> /\ cyclic = FALSE

\* Mutant of Begin: conflicts are not looked for.
BeginUnchecked(c, vs) ==
  /\ target = None
  /\ target' = c /\ new' = vs /\ taken' = 0 /\ slice' = manifest[c]
  /\ UNCHANGED <<manifest, sorter>>

\* Merge starts with the receiver's versions.  If there is a conflict it
\* returns an error and its caller keeps its manifest: nothing happens.
Begin(c, vs) ==
  /\ target = None
  /\ Conflicts(ToSet(manifest[c]), ToSet(vs)) = {}
  /\ target' = c /\ new' = vs /\ taken' = 0 /\ slice' = manifest[c]
  /\ UNCHANGED <<manifest, sorter>>

\* A commit merges its one version; a repository that fetches, the server
\* that is pushed to and the client that gets the answer merge another copy.
Commit(c)  == \E v \in Candidate : Begin(c, <<v>>)
Take(c, d) == Begin(c, manifest[d])

Merging == target # None

\* Mutant of Known: what the receiver has is appended again.
KnownNever(v) == FALSE

\* The receiver has a version equal to v.
Known(v) == \E k \in DOMAIN manifest[target] : Equal(v, manifest[target][k])

\* Merge appends the next version of new unless the receiver has it.
Collect ==
  /\ Merging /\ taken < Len(new)
  /\ taken' = taken + 1
  /\ slice' = IF Known(new[taken + 1]) THEN slice ELSE Append(slice, new[taken + 1])
  /\ UNCHANGED <<manifest, target, new, sorter>>

Sorting == Merging /\ taken = Len(new)

\* The call of visit for node i, where the stack is `callers': it returns at
\* once if the visit of i has returned, notes a cycle if it has not.
Visit(i, callers) ==
  /\ \/ Done(i) /\ stack' = callers /\ UNCHANGED cyclic
     \/ ~Done(i) /\ Visiting(i) /\ stack' = callers /\ cyclic' = TRUE
     \/ ~Done(i) /\ ~Visiting(i) /\ UNCHANGED cyclic
        /\ stack' = Append(callers, [node |-> i, slot |-> 1])
  /\ UNCHANGED <<manifest, target, new, taken, slice, sorted>>

\* Sort visits every node in the order they were added.
VisitRoot ==
  /\ Sorting /\ stack = <<>> /\ root <= Len(slice)
  /\ root' = root + 1
  /\ Visit(root, stack)

Top == stack[Len(stack)]

\* Mutant of VisitChild: the loop over the children does not move on.
VisitChildAgain ==
  /\ Sorting /\ stack # <<>>
  /\ \E m \in 1 .. (2 * Len(slice)) :
       /\ NextEdge(slice, Top.node, Top.slot, m)
       /\ Visit(Child(slice, m), [stack EXCEPT ![Len(stack)].slot = m])
  /\ UNCHANGED root

\* visit calls itself for the next child.
VisitChild ==
  /\ Sorting /\ stack # <<>>
  /\ \E m \in 1 .. (2 * Len(slice)) :
       /\ NextEdge(slice, Top.node, Top.slot, m)
       /\ Visit(Child(slice, m), [stack EXCEPT ![Len(stack)].slot = m + 1])
  /\ UNCHANGED root

\* A visit with no more children sorts its node and returns.
Return ==
  /\ Sorting /\ stack # <<>>
  /\ \A m \in 1 .. (2 * Len(slice)) : ~NextEdge(slice, Top.node, Top.slot, m)
  /\ sorted' = Append(sorted, Top.node)
  /\ stack' = SubSeq(stack, 1, Len(stack) - 1)
  /\ UNCHANGED <<manifest, target, new, taken, slice, root, cyclic>>

Sorted == Sorting /\ stack = <<>> /\ root > Len(slice)

\* Merge returns, and its caller keeps the result unless there was a cycle.
Finish ==
  /\ Sorted
  /\ manifest' = [manifest EXCEPT ![target] = IF cyclic THEN @ ELSE Result]
  /\ target' = None /\ new' = <<>> /\ taken' = 0 /\ slice' = <<>>
  /\ root' = 1 /\ stack' = <<>> /\ sorted' = <<>> /\ cyclic' = FALSE

MergeStep == Collect \/ VisitRoot \/ VisitChild \/ Return \/ Finish

Next ==
  \/ \E c \in Copy : Commit(c)
  \/ \E c, d \in Copy : Take(c, d)
  \/ MergeStep

Spec == Init /\ [][Next]_vars

\* Merge is a call that waits for nothing: once begun it runs.
FairSpec == Spec /\ WF_vars(MergeStep)

-----------------------------------------------------------------------------
TypeOK ==
  /\ manifest \in [Copy -> Seq(Candidate)]
  /\ target \in Copy \cup {None}
  /\ new \in Seq(Candidate) /\ taken \in 0 .. Len(new)
  /\ slice \in Seq(Candidate)
  /\ root \in 1 .. (Len(slice) + 1)
  /\ stack \in Seq([node : 1 .. Len(slice), slot : 1 .. (2 * Len(slice) + 1)])
  /\ sorted \in Seq(1 .. Len(slice))
  /\ cyclic \in BOOLEAN

\* Every manifest the program keeps lists parents before children and older
\* versions before newer ones, which is the order `log' shows in reverse.
Ordered(s) == \A i, j \in DOMAIN s : i < j => ~Precedes(s[j], s[i])
ManifestsOrdered == \A c \in Copy : Ordered(manifest[c])

\* toposort fails exactly on the sets that module Manifest calls cyclic, and
\* otherwise neither loses nor repeats a version, whatever is merged.
NoRepeats(s) == \A i, j \in DOMAIN s : s[i] = s[j] => i = j
MergeAgreesWithSets ==
  Sorted =>
    LET S == ToSet(manifest[target])
        T == ToSet(new)
    IN  /\ cyclic <=> MergeError(S, T)
        /\ ~cyclic => ToSet(Result) = Merge(S, T) /\ NoRepeats(Result)

\* The recursion is never deeper than there are versions, though a slice may
\* have cycles: no version is visited again while it is being visited, or
\* after it has been sorted.
RecursionBounded == Len(stack) + Len(sorted) <= Len(slice)

\* Liveness: the merge of any two manifests comes to an end, also if there is
\* a cycle, which the sorter finds and goes on.
MergeEnds == Merging ~> ~Merging

\* Copies with the same versions have the same manifest, hence the same
\* manifest hash, if no two versions have the same date, in whatever order
\* they got them.
DistinctDates(s) == \A i, j \in DOMAIN s : s[i].date = s[j].date => i = j
SameVersionsSameManifest ==
  \A c, d \in Copy :
    ToSet(manifest[c]) = ToSet(manifest[d]) /\ DistinctDates(manifest[c])
      => manifest[c] = manifest[d]

\* The slices implement the sets: a merge in many steps changes one copy, as
\* Merge and MergeError of module Manifest say, or nothing.
Sets == INSTANCE ManifestSets WITH versions <- [c \in Copy |-> ToSet(manifest[c])]
ImplementsSets == Sets!Spec

=============================================================================
