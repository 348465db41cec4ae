------------------------ MODULE ManifestOrder_proofs ------------------------
(***************************************************************************)
(* Theorems about ManifestOrder, for any number of copies and any versions *)
(* that may be committed: Merge and toposort of core/manifest.go do on     *)
(* slices what Merge and Acyclic of module Manifest do on sets.            *)
(***************************************************************************)
EXTENDS ManifestOrder, Manifest_proofs, SequenceTheorems, FiniteSetTheorems,
        WellFoundedInduction

-----------------------------------------------------------------------------
\* Facts about numbers, sequences and slots

LEMMA LeastNatural ==
  ASSUME NEW T \in SUBSET Nat, T # {}
  PROVE  \E m \in T : \A k \in T : m <= k
<1>1. PICK m \in T : \A k \in T : <<k, m>> \notin OpToRel(<, Nat)
  BY WFMin, NatLessThanWellFounded
<1>2. ASSUME NEW k \in T PROVE m <= k
  <2>1. <<k, m>> \in Nat \X Nat /\ <<k, m>>[1] = k /\ <<k, m>>[2] = m
    OBVIOUS
  <2>2. ~(k < m)
    BY <1>1, <2>1 DEF OpToRel
  <2>3. QED
    BY <2>2
<1>3. QED
  BY <1>2

\* Every slot holds a node, and the slots of a node hold exactly the versions
\* that it precedes.
LEMMA ChildIsNode ==
  ASSUME NEW s \in Seq(Candidate), NEW m \in 1 .. (2 * Len(s))
  PROVE  Child(s, m) \in 1 .. Len(s)
BY DEF Child

LEMMA SlotsArePrecedence ==
  ASSUME NEW s \in Seq(Candidate), NEW i \in 1 .. Len(s), NEW j \in 1 .. Len(s)
  PROVE  Precedes(s[i], s[j]) <=>
           \E m \in 1 .. (2 * Len(s)) : HasEdge(s, i, m) /\ Child(s, m) = j
<1>1. ASSUME Precedes(s[i], s[j])
      PROVE  \E m \in 1 .. (2 * Len(s)) : HasEdge(s, i, m) /\ Child(s, m) = j
  <2>1. CASE ParentEdge(s[i], s[j])
    <3>1. HasEdge(s, i, j) /\ Child(s, j) = j
      BY <2>1 DEF HasEdge, Child
    <3>2. QED
      BY <3>1
  <2>2. CASE OlderEdge(s[i], s[j])
    <3>1. ~(Len(s) + j <= Len(s)) /\ (Len(s) + j) - Len(s) = j
      OBVIOUS
    <3>2. HasEdge(s, i, Len(s) + j) /\ Child(s, Len(s) + j) = j
      BY <2>2, <3>1 DEF HasEdge, Child
    <3>3. QED
      BY <3>2
  <2>3. QED
    BY <1>1, <2>1, <2>2 DEF Precedes, ParentEdge, OlderEdge
<1>2. ASSUME NEW m \in 1 .. (2 * Len(s)), HasEdge(s, i, m), Child(s, m) = j
      PROVE  Precedes(s[i], s[j])
  BY <1>2 DEF HasEdge, Child, Precedes, ParentEdge, OlderEdge
<1>3. QED
  BY <1>1, <1>2

\* If a node has no next child, no slot that is left holds one.
LEMMA NoNextEdge ==
  ASSUME NEW s \in Seq(Candidate), NEW i, NEW a \in 1 .. (2 * Len(s) + 1),
         \A m \in 1 .. (2 * Len(s)) : ~NextEdge(s, i, a, m)
  PROVE  \A m \in a .. (2 * Len(s)) : ~HasEdge(s, i, m)
<1> DEFINE T == {m \in a .. (2 * Len(s)) : HasEdge(s, i, m)}
<1>1. SUFFICES ASSUME T # {} PROVE FALSE
  OBVIOUS
<1>2. T \in SUBSET Nat
  OBVIOUS
<1>3. PICK m \in T : \A k \in T : m <= k
  BY <1>1, <1>2, LeastNatural
<1>4. NextEdge(s, i, a, m)
  <2>1. m \in a .. (2 * Len(s)) /\ HasEdge(s, i, m)
    OBVIOUS
  <2>2. ASSUME NEW l \in a .. (m - 1) PROVE ~HasEdge(s, i, l)
    <3>1. l \in a .. (2 * Len(s)) /\ ~(m <= l)
      BY <2>1
    <3>2. QED
      BY <1>3, <3>1
  <2>3. QED
    BY <2>1, <2>2 DEF NextEdge
<1>5. m \in 1 .. (2 * Len(s))
  OBVIOUS
<1>6. QED
  BY <1>4, <1>5

LEMMA EmptyTyped == \A S : <<>> \in Seq(S) /\ Len(<<>>) = 0
BY EmptySeq

LEMMA NumbersUpToEmpty == 1 \in 1 .. (Len(<<>>) + 1) /\ 0 \in 0 .. Len(<<>>)
BY EmptyTyped

\* A sequence with one element replaced, and one without its last element.
LEMMA ReplaceProperties ==
  ASSUME NEW S, NEW s \in Seq(S), NEW i \in 1 .. Len(s), NEW e \in S,
         NEW t, t = [s EXCEPT ![i] = e]
  PROVE  /\ t \in Seq(S) /\ Len(t) = Len(s) /\ t[i] = e
         /\ \A k \in 1 .. Len(s) : k # i => t[k] = s[k]
BY ExceptSeq

LEMMA FrontProperties ==
  ASSUME NEW S, NEW s \in Seq(S), s # <<>>
  PROVE  /\ Len(s) \in Nat \ {0}
         /\ SubSeq(s, 1, Len(s) - 1) \in Seq(S)
         /\ Len(SubSeq(s, 1, Len(s) - 1)) = Len(s) - 1
         /\ \A k \in 1 .. (Len(s) - 1) : SubSeq(s, 1, Len(s) - 1)[k] = s[k]
<1> DEFINE n == Len(s) - 1
<1>1. Len(s) \in Nat \ {0}
  BY EmptySeq
<1>2. n \in Nat /\ n = Len(s) - 1
  BY <1>1
<1> HIDE DEF n
<1>3. /\ SubSeq(s, 1, n) \in Seq(S) /\ Len(SubSeq(s, 1, n)) = n
      /\ \A k \in 1 .. n : SubSeq(s, 1, n)[k] = s[k]
  BY <1>2
<1>4. QED
  BY <1>1, <1>2, <1>3

LEMMA NoRepeatsEmpty == NoRepeats(<<>>)
BY DEF NoRepeats

LEMMA NoRepeatsAppend ==
  ASSUME NEW S, NEW s \in Seq(S), NEW e \in S, NoRepeats(s),
         \A k \in DOMAIN s : s[k] # e
  PROVE  NoRepeats(Append(s, e))
BY AppendProperties DEF NoRepeats
-----------------------------------------------------------------------------
\* Types

\* The frames of the calls of visit, when there are n nodes.
Frame(n) == [node : 1 .. n, slot : 1 .. (2 * n + 1)]

\* The sorter has not been used since it was made.
Fresh == root = 1 /\ stack = <<>> /\ sorted = <<>> /\ cyclic = FALSE

\* Until Merge has collected its slice the sorter is as it was made.
FreshInv == ~Sorting => Fresh

ITyped == TypeOK /\ FreshInv

\* The stack as visit leaves it when it takes up the child in slot m.
LEMMA CallersType ==
  ASSUME TypeOK, stack # <<>>, NEW m \in 1 .. (2 * Len(slice)),
         NEW b, b = [stack EXCEPT ![Len(stack)].slot = m + 1]
  PROVE  /\ Len(stack) \in Nat \ {0}
         /\ b \in Seq(Frame(Len(slice))) /\ Len(b) = Len(stack)
         /\ b[Len(stack)] = [node |-> Top.node, slot |-> m + 1]
         /\ \A k \in 1 .. (Len(stack) - 1) : b[k] = stack[k]
<1> DEFINE f == [stack[Len(stack)] EXCEPT !.slot = m + 1]
<1>1. /\ stack \in Seq(Frame(Len(slice))) /\ slice \in Seq(Candidate)
      /\ Len(slice) \in Nat
  BY DEF TypeOK, Frame
<1>2. Len(stack) \in Nat \ {0} /\ Len(stack) \in 1 .. Len(stack)
  BY <1>1, EmptySeq
<1>3. stack[Len(stack)] \in Frame(Len(slice))
  BY <1>1, <1>2, ElementOfSeq
<1>4. f = [node |-> Top.node, slot |-> m + 1] /\ f \in Frame(Len(slice))
  <2>1. m + 1 \in 1 .. (2 * Len(slice) + 1)
    BY <1>1
  <2>2. f = [node |-> stack[Len(stack)].node, slot |-> m + 1]
    BY <1>3 DEF Frame
  <2>3. stack[Len(stack)].node \in 1 .. Len(slice)
    BY <1>3 DEF Frame
  <2>4. QED
    BY <2>1, <2>2, <2>3 DEF Frame, Top
<1>5. b = [stack EXCEPT ![Len(stack)] = f]
  OBVIOUS
<1> HIDE DEF f
<1>6. /\ b \in Seq(Frame(Len(slice))) /\ Len(b) = Len(stack)
      /\ b[Len(stack)] = f
      /\ \A k \in 1 .. Len(stack) : k # Len(stack) => b[k] = stack[k]
  <2> DEFINE S == Frame(Len(slice))
             n == Len(stack)
  <2>1. stack \in Seq(S) /\ n \in 1 .. Len(stack) /\ f \in S /\ b = [stack EXCEPT ![n] = f]
    BY <1>1, <1>2, <1>4, <1>5
  <2> HIDE DEF S, n
  <2>2. /\ b \in Seq(S) /\ Len(b) = Len(stack) /\ b[n] = f
        /\ \A k \in 1 .. Len(stack) : k # n => b[k] = stack[k]
    BY <2>1, ReplaceProperties, SMTT(60)
  <2>3. QED
    BY <2>2 DEF S, n
<1>7. QED
  BY <1>2, <1>4, <1>6

LEMMA VisitType ==
  ASSUME TypeOK, NEW i \in 1 .. Len(slice), NEW callers \in Seq(Frame(Len(slice))),
         Visit(i, callers)
  PROVE  /\ stack' \in Seq(Frame(Len(slice))) /\ cyclic' \in BOOLEAN
         /\ UNCHANGED <<manifest, target, new, taken, slice, sorted>>
<1>1. [node |-> i, slot |-> 1] \in Frame(Len(slice))
  BY DEF Frame, TypeOK
<1>2. Append(callers, [node |-> i, slot |-> 1]) \in Seq(Frame(Len(slice)))
  BY <1>1, AppendProperties
<1>3. QED
  BY <1>2 DEF Visit, TypeOK

\* A visit returns: its frame goes, its node is sorted.
LEMMA ReturnEffect ==
  ASSUME TypeOK, Return
  PROVE  /\ Len(stack) \in Nat \ {0}
         /\ Top \in Frame(Len(slice)) /\ Top = stack[Len(stack)]
         /\ stack' \in Seq(Frame(Len(slice))) /\ Len(stack') = Len(stack) - 1
         /\ \A k \in 1 .. (Len(stack) - 1) : stack'[k] = stack[k]
         /\ sorted' \in Seq(1 .. Len(slice)) /\ Len(sorted') = Len(sorted) + 1
         /\ \A k \in 1 .. Len(sorted) : sorted'[k] = sorted[k]
         /\ sorted'[Len(sorted) + 1] = Top.node
<1>1. stack \in Seq(Frame(Len(slice))) /\ sorted \in Seq(1 .. Len(slice))
  BY DEF TypeOK, Frame
<1>2. Len(stack) \in Nat \ {0} /\ Len(stack) \in 1 .. Len(stack)
  BY <1>1, EmptySeq DEF Return
<1>3. Top \in Frame(Len(slice)) /\ Top = stack[Len(stack)]
  BY <1>1, <1>2, ElementOfSeq DEF Top
<1>4. Top.node \in 1 .. Len(slice)
  BY <1>3 DEF Frame
<1>6. /\ stack' \in Seq(Frame(Len(slice))) /\ Len(stack') = Len(stack) - 1
      /\ \A k \in 1 .. (Len(stack) - 1) : stack'[k] = stack[k]
  <2>1. stack # <<>> /\ stack' = SubSeq(stack, 1, Len(stack) - 1)
    BY DEF Return
  <2>2. QED
    BY <1>1, <2>1, FrontProperties
<1>7. QED
  BY <1>1, <1>2, <1>3, <1>4, <1>6, AppendProperties DEF Return

LEMMA ResultType ==
  ASSUME TypeOK
  PROVE  /\ Result \in Seq(Candidate) /\ Len(Result) = Len(sorted)
         /\ DOMAIN Result = 1 .. Len(sorted)
         /\ \A k \in 1 .. Len(sorted) :
              /\ sorted[Len(sorted) + 1 - k] \in 1 .. Len(slice)
              /\ Result[k] = slice[sorted[Len(sorted) + 1 - k]]
<1>1. /\ slice \in Seq(Candidate) /\ sorted \in Seq(1 .. Len(slice))
      /\ Len(sorted) \in Nat /\ DOMAIN sorted = 1 .. Len(sorted)
  BY LenProperties DEF TypeOK
<1>2. ASSUME NEW k \in 1 .. Len(sorted)
      PROVE  /\ sorted[Len(sorted) + 1 - k] \in 1 .. Len(slice)
             /\ slice[sorted[Len(sorted) + 1 - k]] \in Candidate
  <2>1. Len(sorted) + 1 - k \in 1 .. Len(sorted)
    BY <1>1
  <2>2. sorted[Len(sorted) + 1 - k] \in 1 .. Len(slice)
    BY <1>1, <2>1, ElementOfSeq
  <2>3. QED
    BY <1>1, <2>2, ElementOfSeq
<1>3. Result \in [1 .. Len(sorted) -> Candidate]
  BY <1>1, <1>2 DEF Result
<1>4. Result \in Seq(Candidate) /\ Len(Result) = Len(sorted)
  BY <1>1, <1>3
<1>5. QED
  BY <1>1, <1>2, <1>3, <1>4 DEF Result

LEMMA TypedInit == Init => ITyped
<1> SUFFICES ASSUME Init PROVE ITyped
  OBVIOUS
<1>1. Fresh
  BY DEF Init, Fresh
<1>2. TypeOK
  BY EmptyTyped, NumbersUpToEmpty DEF Init, TypeOK
<1>3. QED
  BY <1>1, <1>2 DEF ITyped, FreshInv

LEMMA TypedStep == ITyped /\ [Next]_vars => ITyped'
<1> SUFFICES ASSUME ITyped, [Next]_vars PROVE ITyped'
  OBVIOUS
<1>t. TypeOK
  BY DEF ITyped
<1>n. Len(slice) \in Nat /\ Len(new) \in Nat
  BY <1>t DEF TypeOK
\* Before the sorting, the types of the sorter's variables are of no account.
<1>f. ASSUME UNCHANGED sorter, ~Sorting,
             slice' \in Seq(Candidate)
      PROVE  /\ root' \in 1 .. (Len(slice') + 1)
             /\ stack' \in Seq([node : 1 .. Len(slice'), slot : 1 .. (2 * Len(slice') + 1)])
             /\ sorted' \in Seq(1 .. Len(slice')) /\ cyclic' \in BOOLEAN
             /\ Fresh'
  <2>1. Fresh
    BY <1>f DEF ITyped, FreshInv
  <2>2. Fresh' /\ Len(slice') \in Nat
    BY <2>1, <1>f DEF Fresh, sorter
  <2>3. 1 \in 1 .. (Len(slice') + 1)
    BY <2>2
  <2>4. QED
    BY <2>2, <2>3, EmptyTyped DEF Fresh
<1>1. ASSUME NEW c \in Copy, NEW vs \in Seq(Candidate), Begin(c, vs) PROVE ITyped'
  <2>1. ~Sorting
    BY <1>1 DEF Begin, Sorting, Merging
  <2>2. slice' \in Seq(Candidate) /\ taken' = 0 /\ new' = vs
    BY <1>1, <1>t DEF Begin, TypeOK
  <2>3. Len(vs) \in Nat /\ taken' \in 0 .. Len(new')
    BY <2>2
  <2>4. QED
    BY <1>1, <1>t, <1>f, <2>1, <2>2, <2>3 DEF Begin, ITyped, TypeOK, FreshInv
<1>2. ASSUME NEW c \in Copy, Commit(c) PROVE ITyped'
  <2>1. PICK v \in Candidate : Begin(c, <<v>>)
    BY <1>2 DEF Commit
  <2>2. <<v>> \in Seq(Candidate)
    OBVIOUS
  <2>3. QED
    BY <1>1, <2>1, <2>2
<1>3. ASSUME NEW c \in Copy, NEW d \in Copy, Take(c, d) PROVE ITyped'
  BY <1>t, <1>1, <1>3 DEF Take, TypeOK
<1>4. CASE Collect
  <2>1. ~Sorting
    BY <1>4, <1>t, <1>n DEF Collect, Sorting, TypeOK
  <2>2. taken + 1 \in 1 .. Len(new)
    BY <1>4, <1>t, <1>n DEF Collect, TypeOK
  <2>3. new[taken + 1] \in Candidate
    BY <1>t, <2>2, ElementOfSeq DEF TypeOK
  <2>4. slice' \in Seq(Candidate)
    BY <1>4, <1>t, <2>3, AppendProperties DEF Collect, TypeOK
  <2>5. QED
    BY <1>4, <1>t, <1>f, <2>1, <2>2, <2>4 DEF Collect, ITyped, TypeOK, FreshInv
<1>5. CASE VisitRoot
  <2>1. root \in 1 .. Len(slice) /\ root' = root + 1 /\ stack \in Seq(Frame(Len(slice)))
    BY <1>5, <1>t, <1>n DEF VisitRoot, TypeOK, Frame
  <2>2. /\ stack' \in Seq(Frame(Len(slice))) /\ cyclic' \in BOOLEAN
        /\ UNCHANGED <<manifest, target, new, taken, slice, sorted>>
    BY <1>5, <1>t, <2>1, VisitType DEF VisitRoot
  <2>3. Sorting'
    BY <1>5, <2>2 DEF VisitRoot, Sorting, Merging
  <2>4. QED
    BY <1>t, <1>n, <2>1, <2>2, <2>3 DEF ITyped, TypeOK, FreshInv, Frame
<1>6. CASE VisitChild
  <2>1. PICK m \in 1 .. (2 * Len(slice)) :
          Visit(Child(slice, m), [stack EXCEPT ![Len(stack)].slot = m + 1])
    BY <1>6 DEF VisitChild
  <2>2. Child(slice, m) \in 1 .. Len(slice)
    BY <1>t, ChildIsNode DEF TypeOK
  <2>3. [stack EXCEPT ![Len(stack)].slot = m + 1] \in Seq(Frame(Len(slice)))
    BY <1>6, <1>t, CallersType DEF VisitChild
  <2>4. /\ stack' \in Seq(Frame(Len(slice))) /\ cyclic' \in BOOLEAN
        /\ UNCHANGED <<manifest, target, new, taken, slice, sorted>>
    BY <1>t, <2>1, <2>2, <2>3, VisitType
  <2>5. Sorting' /\ UNCHANGED root
    BY <1>6, <2>4 DEF VisitChild, Sorting, Merging
  <2>6. QED
    BY <1>t, <2>4, <2>5 DEF ITyped, TypeOK, FreshInv, Frame
<1>7. CASE Return
  <2>1. Sorting' /\ UNCHANGED <<manifest, target, new, taken, slice, root, cyclic>>
    BY <1>7 DEF Return, Sorting, Merging
  <2>2. QED
    BY <1>t, <1>7, <2>1, ReturnEffect DEF ITyped, TypeOK, FreshInv, Frame
<1>8. CASE Finish
  <2>1. manifest' \in [Copy -> Seq(Candidate)]
    BY <1>8, <1>t, ResultType DEF Finish, TypeOK
  <2>2. Fresh' /\ target' = None /\ new' = <<>> /\ taken' = 0 /\ slice' = <<>>
    BY <1>8 DEF Finish, Fresh
  <2>3. QED
    BY <2>1, <2>2, EmptyTyped, NumbersUpToEmpty DEF ITyped, TypeOK, FreshInv, Fresh
<1>9. CASE UNCHANGED vars
  BY <1>9 DEF vars, sorter, ITyped, TypeOK, FreshInv, Fresh, Sorting, Merging
<1>10. QED
  BY <1>2, <1>3, <1>4, <1>5, <1>6, <1>7, <1>8, <1>9 DEF Next, MergeStep

\* The slices and the sorter's variables have the types Merge, toposort and
\* the sorter rely on; in particular the stack holds nodes of the slice.
THEOREM TypeCorrect == Spec => []TypeOK
<1>1. Spec => []ITyped
  BY TypedInit, TypedStep, PTL DEF Spec
<1>2. ITyped => TypeOK
  BY DEF ITyped
<1>3. QED
  BY <1>1, <1>2, PTL

-----------------------------------------------------------------------------
\* The sorter

\* A node is sorted once, and not while it is being visited; and no node is
\* visited twice at a time.
OnceInv ==
  /\ NoRepeats(sorted)
  /\ \A k, l \in DOMAIN stack : stack[k].node = stack[l].node => k = l
  /\ \A k \in DOMAIN stack : ~Done(stack[k].node)

\* Every visit was called for the child its caller looked at last.
PathInv ==
  \A k \in 1 .. (Len(stack) - 1) :
    /\ stack[k].slot > 1
    /\ HasEdge(slice, stack[k].node, stack[k].slot - 1)
    /\ Child(slice, stack[k].slot - 1) = stack[k + 1].node

\* The roots so far are sorted, but for the one being visited.
RootInv ==
  \A r \in 1 .. (root - 1) : Done(r) \/ (stack # <<>> /\ stack[1].node = r)

\* Without a cycle, the children a visit has passed are sorted, but for the
\* one being visited, and the children of a sorted node are sorted before it.
ChildrenInv ==
  ~cyclic =>
    \A k \in DOMAIN stack : \A m \in 1 .. (stack[k].slot - 1) :
      HasEdge(slice, stack[k].node, m) =>
        \/ Done(Child(slice, m))
        \/ k < Len(stack) /\ Child(slice, m) = stack[k + 1].node
PostorderInv ==
  ~cyclic =>
    \A k \in DOMAIN sorted : \A m \in 1 .. (2 * Len(slice)) :
      HasEdge(slice, sorted[k], m) =>
        \E l \in 1 .. (k - 1) : sorted[l] = Child(slice, m)

\* A cycle was found only if there is one.
CycleInv == cyclic => ~Acyclic(ToSet(slice))

SorterInv ==
  OnceInv /\ PathInv /\ RootInv /\ ChildrenInv /\ PostorderInv /\ CycleInv

\* A sorter that has not been used has these properties, in both states of a
\* step.
LEMMA FreshSorter == (Fresh => SorterInv) /\ (Fresh' => SorterInv')
<1> USE DEF SorterInv, OnceInv, PathInv, RootInv, ChildrenInv, PostorderInv, CycleInv,
            Fresh, Done, NoRepeats
<1>1. ASSUME Fresh PROVE SorterInv
  BY <1>1
<1>2. ASSUME Fresh' PROVE SorterInv'
  BY <1>2
<1>3. QED
  BY <1>1, <1>2

\* A call of visit for node i, where the stack is callers, changes the stack,
\* or notes a cycle, or nothing.
LEMMA VisitEffect ==
  ASSUME TypeOK, NEW i \in 1 .. Len(slice), NEW callers \in Seq(Frame(Len(slice))),
         Visit(i, callers)
  PROVE  \/ Done(i) /\ stack' = callers /\ cyclic' = cyclic
         \/ ~Done(i) /\ Visiting(i) /\ stack' = callers /\ cyclic' = TRUE
         \/ /\ ~Done(i) /\ ~Visiting(i) /\ cyclic' = cyclic
            /\ Len(stack') = Len(callers) + 1
            /\ \A k \in 1 .. Len(callers) : stack'[k] = callers[k]
            /\ stack'[Len(callers) + 1] = [node |-> i, slot |-> 1]
<1>1. [node |-> i, slot |-> 1] \in Frame(Len(slice))
  BY DEF Frame, TypeOK
<1>2. CASE stack' = Append(callers, [node |-> i, slot |-> 1])
  BY <1>1, <1>2, AppendProperties DEF Visit
<1>3. QED
  BY <1>2 DEF Visit

\* The visit of a root.
LEMMA VisitRootStep ==
  ASSUME ITyped, SorterInv, VisitRoot
  PROVE  SorterInv'
<1>t. TypeOK
  BY DEF ITyped
<1>1. /\ stack = <<>> /\ stack \in Seq(Frame(Len(slice))) /\ Len(stack) = 0
      /\ root \in 1 .. Len(slice) /\ root' = root + 1
      /\ Len(slice) \in Nat /\ slice \in Seq(Candidate)
  BY <1>t DEF VisitRoot, TypeOK, Frame
<1>2. UNCHANGED <<slice, sorted>> /\ stack' \in Seq(Frame(Len(slice)))
  BY <1>t, <1>1, VisitType DEF VisitRoot
<1>3. ~Visiting(root)
  BY <1>1 DEF Visiting
<1>4. CASE Done(root) /\ stack' = stack /\ cyclic' = cyclic
  <2>1. RootInv'
    BY <1>1, <1>2, <1>4 DEF SorterInv, RootInv, Done
  <2>2. QED
    BY <1>2, <1>4, <2>1 DEF SorterInv, OnceInv, PathInv, ChildrenInv, PostorderInv,
                            CycleInv, Done
<1>5. CASE /\ ~Done(root) /\ cyclic' = cyclic /\ Len(stack') = 1
           /\ stack'[1] = [node |-> root, slot |-> 1]
  <2>1. DOMAIN stack' = {1} /\ stack' # <<>>
    BY <1>2, <1>5
  <2>2. OnceInv'
    BY <1>2, <1>5, <2>1 DEF SorterInv, OnceInv, Done
  <2>3. PathInv'
    BY <1>5 DEF PathInv
  <2>4. RootInv'
    BY <1>1, <1>2, <1>5, <2>1 DEF SorterInv, RootInv, Done
  <2>5. ChildrenInv'
    BY <1>5, <2>1 DEF ChildrenInv
  <2>6. PostorderInv' /\ CycleInv'
    BY <1>2, <1>5 DEF SorterInv, PostorderInv, CycleInv
  <2>7. QED
    BY <2>2, <2>3, <2>4, <2>5, <2>6 DEF SorterInv
<1>6. Visit(root, stack)
  BY DEF VisitRoot
<1>7. \/ Done(root) /\ stack' = stack /\ cyclic' = cyclic
      \/ ~Done(root) /\ Visiting(root) /\ stack' = stack /\ cyclic' = TRUE
      \/ /\ ~Done(root) /\ ~Visiting(root) /\ cyclic' = cyclic
         /\ Len(stack') = Len(stack) + 1
         /\ stack'[Len(stack) + 1] = [node |-> root, slot |-> 1]
  BY <1>t, <1>1, <1>6, VisitEffect
<1>8. Len(stack) + 1 = 1
  BY <1>1
<1>9. QED
  BY <1>3, <1>4, <1>5, <1>7, <1>8

\* A visit returns, which sorts its node: all of its children are sorted.
LEMMA ReturnStep ==
  ASSUME ITyped, SorterInv, Return
  PROVE  SorterInv'
<1> DEFINE n == Len(stack)
           N == Len(sorted)
<1>t. TypeOK
  BY DEF ITyped
<1>1. /\ n \in Nat \ {0} /\ DOMAIN stack = 1 .. n /\ DOMAIN stack' = 1 .. (n - 1)
      /\ N \in Nat /\ DOMAIN sorted = 1 .. N /\ DOMAIN sorted' = 1 .. (N + 1)
      /\ Len(stack') = n - 1 /\ (stack' = <<>> => n = 1)
      /\ \A k \in 1 .. (n - 1) : stack'[k] = stack[k]
      /\ \A k \in 1 .. N : sorted'[k] = sorted[k]
      /\ sorted'[N + 1] = stack[n].node
  <2>1. /\ n \in Nat \ {0} /\ DOMAIN stack = 1 .. n
        /\ N \in Nat /\ DOMAIN sorted = 1 .. N
    BY <1>t, ReturnEffect, LenProperties DEF TypeOK
  <2>2. /\ stack' \in Seq(Frame(Len(slice))) /\ Len(stack') = n - 1
        /\ sorted' \in Seq(1 .. Len(slice)) /\ Len(sorted') = N + 1
    BY <1>t, ReturnEffect
  <2>3. DOMAIN stack' = 1 .. (n - 1) /\ DOMAIN sorted' = 1 .. (N + 1)
    BY <2>2, LenProperties
  <2>4. ASSUME stack' = <<>> PROVE n = 1
    <3>1. Len(stack') = 0
      BY <2>4, EmptyTyped
    <3> HIDE DEF n
    <3>2. QED
      BY <2>1, <2>2, <3>1
  <2>5. QED
    BY <1>t, <2>1, <2>2, <2>3, <2>4, ReturnEffect
<1>2. UNCHANGED <<slice, root, cyclic>>
  BY DEF Return
<1> HIDE DEF n, N
<1>3. \A i : Done(i)' <=> Done(i) \/ i = stack[n].node
  <2>1. ASSUME NEW i PROVE Done(i)' <=> Done(i) \/ i = stack[n].node
    BY <1>1 DEF Done
  <2>2. QED
    BY <2>1
<1>4. OnceInv'
  <2>1. NoRepeats(sorted)'
    <3>1. \A k \in 1 .. N : sorted[k] # stack[n].node
      BY <1>1 DEF SorterInv, OnceInv, Done
    <3>2. QED
      BY <1>1, <3>1 DEF SorterInv, OnceInv, NoRepeats
  <2>2. \A k, l \in DOMAIN stack' : stack'[k].node = stack'[l].node => k = l
    BY <1>1 DEF SorterInv, OnceInv
  <2>3. (\A k \in DOMAIN stack : ~Done(stack[k].node))'
    <3>1. ASSUME NEW k \in DOMAIN stack', NEW l \in DOMAIN sorted', sorted'[l] = stack'[k].node
          PROVE  FALSE
      <4>1. k \in 1 .. (n - 1) /\ k # n /\ stack'[k] = stack[k] /\ ~Done(stack[k].node)
        BY <1>1 DEF SorterInv, OnceInv
      <4>2. CASE l = N + 1
        BY <1>1, <3>1, <4>1, <4>2 DEF SorterInv, OnceInv
      <4>3. CASE l \in 1 .. N
        BY <1>1, <3>1, <4>1, <4>3 DEF Done
      <4>4. QED
        BY <1>1, <4>2, <4>3
    <3>2. QED
      BY <3>1 DEF Done
  <2>4. QED
    BY <2>1, <2>2, <2>3 DEF OnceInv
<1>5. PathInv'
  BY <1>1, <1>2 DEF SorterInv, PathInv, n
<1>6. RootInv'
  BY <1>1, <1>2, <1>3 DEF SorterInv, RootInv
<1>7. ASSUME ~cyclic PROVE ChildrenInv'
  BY <1>1, <1>2, <1>3, <1>7 DEF SorterInv, ChildrenInv, n
<1>8. ASSUME ~cyclic PROVE PostorderInv'
  <2>1. Top = stack[n] /\ Top \in Frame(Len(slice)) /\ slice \in Seq(Candidate)
        /\ Len(slice) \in Nat
    BY <1>t, ReturnEffect DEF n, TypeOK
  <2>2. /\ stack[n].slot \in 1 .. (2 * Len(slice) + 1)
        /\ \A m \in 1 .. (2 * Len(slice)) : ~NextEdge(slice, stack[n].node, stack[n].slot, m)
    BY <2>1 DEF Frame, Return
  <2>3. \A m \in stack[n].slot .. (2 * Len(slice)) : ~HasEdge(slice, stack[n].node, m)
    BY <2>1, <2>2, NoNextEdge
  <2>4. ASSUME NEW m \in 1 .. (2 * Len(slice)), HasEdge(slice, stack[n].node, m)
        PROVE  \E l \in 1 .. N : sorted[l] = Child(slice, m)
    <3>1. m \in 1 .. (stack[n].slot - 1)
      BY <2>1, <2>2, <2>3, <2>4
    <3>2. Done(Child(slice, m))
      BY <1>1, <1>8, <2>4, <3>1 DEF SorterInv, ChildrenInv, n
    <3>3. QED
      BY <1>1, <3>2 DEF Done
  <2>5. ASSUME NEW k \in DOMAIN sorted', NEW m \in 1 .. (2 * Len(slice)),
               HasEdge(slice, sorted'[k], m)
        PROVE  \E l \in 1 .. (k - 1) : sorted'[l] = Child(slice, m)
    <3>1. CASE k = N + 1
      BY <1>1, <2>4, <2>5, <3>1
    <3>2. CASE k \in 1 .. N
      <4>1. \E l \in 1 .. (k - 1) : sorted[l] = Child(slice, m)
        BY <1>1, <1>8, <2>5, <3>2 DEF SorterInv, PostorderInv
      <4>2. QED
        BY <1>1, <3>2, <4>1
    <3>3. QED
      BY <1>1, <3>1, <3>2
  <2>6. QED
    BY <1>2, <2>5 DEF PostorderInv
<1>9. CycleInv'
  BY <1>2 DEF SorterInv, CycleInv
<1>10. QED
  BY <1>2, <1>4, <1>5, <1>6, <1>7, <1>8, <1>9 DEF SorterInv, ChildrenInv, PostorderInv

\* The calls from a visit on down to the last one follow the edges, so if that
\* one has a child that is still being visited there is a cycle.
LEMMA CycleFound ==
  ASSUME TypeOK, PathInv, stack # <<>>,
         NEW m \in 1 .. (2 * Len(slice)),
         HasEdge(slice, Top.node, m), Visiting(Child(slice, m))
  PROVE  ~Acyclic(ToSet(slice))
<1> DEFINE n == Len(stack)
<1>1. /\ slice \in Seq(Candidate) /\ Len(slice) \in Nat /\ DOMAIN slice = 1 .. Len(slice)
      /\ n \in Nat \ {0} /\ DOMAIN stack = 1 .. n
      /\ \A k \in 1 .. n : /\ stack[k].node \in 1 .. Len(slice)
                           /\ stack[k].slot \in 1 .. (2 * Len(slice) + 1)
      /\ Top = stack[n]
  <2>1. slice \in Seq(Candidate) /\ stack \in Seq(Frame(Len(slice)))
    BY DEF TypeOK, Frame
  <2>2. \A k \in 1 .. n : stack[k] \in Frame(Len(slice))
    BY <2>1, ElementOfSeq
  <2>3. n \in Nat \ {0}
    BY <2>1, EmptySeq
  <2>4. QED
    BY <2>1, <2>2, <2>3, LenProperties DEF Frame, Top
<1>2. PICK q \in 1 .. n : stack[q].node = Child(slice, m)
  BY <1>1 DEF Visiting
<1> DEFINE T == {slice[stack[k].node] : k \in q .. n}
<1> HIDE DEF n
<1>3. T \in SUBSET ToSet(slice) /\ T # {}
  <2>1. \A k \in q .. n : k \in 1 .. n
    BY <1>1, <1>2
  <2>2. \A k \in q .. n : slice[stack[k].node] \in ToSet(slice)
    BY <1>1, <2>1 DEF ToSet
  <2>3. q \in q .. n
    BY <1>1, <1>2
  <2>4. QED
    BY <2>2, <2>3
<1>4. ASSUME NEW k \in q .. n
      PROVE  \E w \in T : Precedes(slice[stack[k].node], w)
  <2>1. k \in 1 .. n /\ stack[k].node \in 1 .. Len(slice)
    BY <1>1, <1>2
  <2>2. CASE k = n
    <3>1. q \in q .. n
      BY <1>1, <1>2
    <3>2. Precedes(slice[stack[n].node], slice[stack[q].node])
      BY <1>1, <1>2, <2>1, <2>2, ChildIsNode, SlotsArePrecedence
    <3>3. QED
      BY <2>2, <3>1, <3>2
  <2>3. CASE k # n
    <3>1. k \in 1 .. (n - 1) /\ k + 1 \in q .. n /\ k + 1 \in 1 .. n
      BY <1>1, <1>2, <2>1, <2>3
    <3>2. /\ stack[k].slot - 1 \in 1 .. (2 * Len(slice))
          /\ HasEdge(slice, stack[k].node, stack[k].slot - 1)
          /\ Child(slice, stack[k].slot - 1) = stack[k + 1].node
      BY <1>1, <2>1, <3>1 DEF PathInv, n
    <3>3. stack[k + 1].node \in 1 .. Len(slice)
      BY <1>1, <3>1
    <3>4. Precedes(slice[stack[k].node], slice[stack[k + 1].node])
      BY <1>1, <2>1, <3>2, <3>3, SlotsArePrecedence
    <3>5. QED
      BY <3>1, <3>4
  <2>4. QED
    BY <2>2, <2>3
<1>5. QED
  BY <1>3, <1>4 DEF Acyclic

\* The visit of the next child: its caller goes on to the slot after it, and
\* the slots that were passed over hold no children.
LEMMA VisitChildStep ==
  ASSUME ITyped, SorterInv, VisitChild
  PROVE  SorterInv'
<1> DEFINE n == Len(stack)
<1>t. TypeOK
  BY DEF ITyped
<1>1. PICK m \in 1 .. (2 * Len(slice)) :
        /\ NextEdge(slice, Top.node, Top.slot, m)
        /\ Visit(Child(slice, m), [stack EXCEPT ![Len(stack)].slot = m + 1])
  BY DEF VisitChild
<1>b. PICK b : b = [stack EXCEPT ![Len(stack)].slot = m + 1]
  OBVIOUS
<1>i. PICK i \in 1 .. Len(slice) : i = Child(slice, m)
  BY <1>t, ChildIsNode DEF TypeOK
<1>v. Visit(i, b)
  BY <1>1, <1>b, <1>i
<1>2. /\ slice \in Seq(Candidate) /\ Len(slice) \in Nat
      /\ n \in Nat \ {0} /\ DOMAIN stack = 1 .. n /\ Top = stack[n]
      /\ b \in Seq(Frame(Len(slice))) /\ Len(b) = n
      /\ b[n] = [node |-> Top.node, slot |-> m + 1]
      /\ \A k \in 1 .. (n - 1) : b[k] = stack[k]
  <2>1. stack # <<>>
    BY DEF VisitChild
  <2>2. /\ n \in Nat \ {0}
        /\ b \in Seq(Frame(Len(slice))) /\ Len(b) = n
        /\ b[n] = [node |-> Top.node, slot |-> m + 1]
        /\ \A k \in 1 .. (n - 1) : b[k] = stack[k]
    BY <1>t, <1>b, <2>1, CallersType
  <2>3. QED
    BY <1>t, <2>2, LenProperties DEF TypeOK, Top
<1> HIDE DEF n
<1>4. UNCHANGED <<slice, sorted, root>> /\ stack' \in Seq(Frame(Len(slice)))
  BY <1>t, <1>2, <1>v, VisitType DEF VisitChild
<1>5. \/ Done(i) /\ stack' = b /\ cyclic' = cyclic
      \/ ~Done(i) /\ Visiting(i) /\ stack' = b /\ cyclic' = TRUE
      \/ /\ ~Done(i) /\ ~Visiting(i) /\ cyclic' = cyclic
         /\ Len(stack') = n + 1
         /\ \A k \in 1 .. n : stack'[k] = b[k]
         /\ stack'[n + 1] = [node |-> i, slot |-> 1]
  BY <1>t, <1>2, <1>v, VisitEffect
<1>6. /\ HasEdge(slice, stack[n].node, m) /\ stack[n].slot \in 1 .. m
      /\ \A l \in stack[n].slot .. (m - 1) : ~HasEdge(slice, stack[n].node, l)
  <2>1. stack[n].slot \in 1 .. (2 * Len(slice) + 1)
    <3>1. stack \in Seq(Frame(Len(slice))) /\ n \in 1 .. Len(stack)
      BY <1>t, <1>2 DEF TypeOK, Frame, n
    <3>2. stack[n] \in Frame(Len(slice))
      BY <3>1, ElementOfSeq
    <3>3. QED
      BY <3>2 DEF Frame
  <2>2. QED
    BY <1>1, <1>2, <2>1 DEF NextEdge
<1>7. \A j : Done(j)' <=> Done(j)
  BY <1>4 DEF Done
\* In each case the visits that were there are there, at the same nodes.
<1>8. /\ DOMAIN stack' = 1 .. Len(stack') /\ stack' # <<>>
      /\ Len(stack') \in {n, n + 1}
      /\ \A k \in 1 .. n : stack'[k] = b[k] /\ stack'[k].node = stack[k].node
      /\ stack'[n].slot = m + 1
      /\ \A k \in 1 .. (n - 1) : stack'[k].slot = stack[k].slot
  <2>1. Len(stack') \in {n, n + 1} /\ \A k \in 1 .. n : stack'[k] = b[k]
    BY <1>2, <1>5
  <2>2. stack' # <<>>
    BY <1>2, <2>1, EmptyTyped
  <2>3. \A k \in 1 .. n : b[k].node = stack[k].node
    BY <1>2
  <2>4. DOMAIN stack' = 1 .. Len(stack')
    BY <1>4, LenProperties
  <2>5. ASSUME NEW k \in 1 .. (n - 1) PROVE stack'[k].slot = stack[k].slot
    <3>1. k \in 1 .. n
      BY <1>2
    <3>2. stack'[k] = stack[k]
      BY <1>2, <2>1, <3>1
    <3>3. QED
      BY <3>2
  <2>6. stack'[n].slot = m + 1
    <3>1. n \in 1 .. n
      BY <1>2
    <3>2. stack'[n] = [node |-> Top.node, slot |-> m + 1]
      BY <1>2, <2>1, <3>1
    <3>3. QED
      BY <3>2
  <2>7. QED
    BY <2>1, <2>2, <2>3, <2>4, <2>5, <2>6
<1>9. CycleInv'
  <2>1. CASE cyclic' = cyclic
    BY <1>4, <2>1 DEF SorterInv, CycleInv
  <2>2. CASE Visiting(i)
    <3>1. ~Acyclic(ToSet(slice))
      BY <1>t, <1>i, <1>2, <1>6, <2>2, CycleFound DEF SorterInv, VisitChild
    <3>2. QED
      BY <1>4, <3>1 DEF CycleInv
  <2>3. QED
    BY <1>5, <2>1, <2>2
\* What the visits that were there have seen to.
<1>p. ASSUME NEW k \in 1 .. (n - 1)
      PROVE  /\ stack'[k].slot > 1
             /\ HasEdge(slice, stack'[k].node, stack'[k].slot - 1)
             /\ Child(slice, stack'[k].slot - 1) = stack'[k + 1].node
  <2>1. /\ k \in 1 .. n /\ k + 1 \in 1 .. n
        /\ stack'[k].slot = stack[k].slot /\ stack'[k].node = stack[k].node
        /\ stack'[k + 1].node = stack[k + 1].node
    <3>1. k \in 1 .. n /\ k + 1 \in 1 .. n
      BY <1>2
    <3>2. QED
      BY <1>8, <3>1
  <2>2. k \in 1 .. (Len(stack) - 1)
    BY <1>2 DEF n
  <2>3. QED
    BY <2>1, <2>2 DEF SorterInv, PathInv
<1>c. ASSUME ~cyclic, NEW k \in 1 .. n, NEW l \in 1 .. (stack[k].slot - 1),
             HasEdge(slice, stack'[k].node, l)
      PROVE  Done(Child(slice, l)) \/ (k < n /\ Child(slice, l) = stack'[k + 1].node)
  <2>1. stack'[k].node = stack[k].node /\ k \in DOMAIN stack
    BY <1>2, <1>8
  <2>2. Done(Child(slice, l)) \/ (k < n /\ Child(slice, l) = stack[k + 1].node)
    BY <1>c, <2>1 DEF SorterInv, ChildrenInv, n
  <2>3. k < n => k + 1 \in 1 .. n
    BY <1>2
  <2>4. QED
    BY <1>8, <2>2, <2>3
<1>10. RootInv'
  <2>1. stack # <<>> /\ 1 \in 1 .. n
    BY <1>2 DEF VisitChild
  <2>2. QED
    BY <1>4, <1>7, <1>8, <2>1 DEF SorterInv, RootInv
<1>11. PostorderInv'
  <2>1. ASSUME ~cyclic' PROVE ~cyclic
    BY <1>5, <2>1
  <2>2. QED
    BY <1>4, <2>1 DEF SorterInv, PostorderInv
\* The child returned at once.
<1>12. ASSUME stack' = b, Done(i) \/ cyclic'
       PROVE  OnceInv' /\ PathInv' /\ ChildrenInv'
  <2>1. Len(stack') = n
    BY <1>2, <1>12
  <2>2. OnceInv'
    BY <1>2, <1>4, <1>8, <2>1 DEF SorterInv, OnceInv, Done
  <2>3. PathInv'
    BY <1>2, <1>4, <1>p, <2>1 DEF PathInv
  <2>4. ASSUME ~cyclic', NEW k \in DOMAIN stack', NEW l \in 1 .. (stack'[k].slot - 1),
               HasEdge(slice, stack'[k].node, l)
        PROVE  Done(Child(slice, l)) \/ (k < n /\ Child(slice, l) = stack'[k + 1].node)
    <3>1. ~cyclic /\ Done(i)
      BY <1>5, <1>12, <2>4
    <3>2. CASE k \in 1 .. (n - 1)
      <4>1. k \in 1 .. n /\ stack'[k].slot = stack[k].slot
        <5>1. k \in 1 .. n
          BY <1>2, <3>2
        <5>2. stack'[k].slot = stack[k].slot
          BY <1>8, <3>2
        <5>3. QED
          BY <5>1, <5>2
      <4>2. l \in 1 .. (stack[k].slot - 1)
        BY <2>4, <4>1
      <4>3. QED
        BY <1>c, <2>4, <3>1, <4>1, <4>2
    <3>3. CASE k = n
      <4>1. CASE l = m
        BY <1>i, <3>1, <4>1
      <4>2. CASE l \in 1 .. (stack[n].slot - 1)
        BY <1>2, <1>c, <2>4, <3>1, <3>3, <4>2
      <4>3. l \in stack[n].slot .. (m - 1) \/ l = m \/ l \in 1 .. (stack[n].slot - 1)
        BY <1>6, <1>8, <2>4, <3>3
      <4>4. QED
        BY <1>6, <1>8, <2>4, <3>3, <4>1, <4>2, <4>3
    <3>4. QED
      BY <1>2, <1>8, <2>1, <3>2, <3>3
  <2>5. ChildrenInv'
    BY <1>4, <1>7, <2>1, <2>4 DEF ChildrenInv, Done
  <2>6. QED
    BY <2>2, <2>3, <2>5
\* The child is visited.
<1>13. ASSUME ~Done(i), ~Visiting(i), cyclic' = cyclic, Len(stack') = n + 1,
              stack'[n + 1] = [node |-> i, slot |-> 1]
       PROVE  OnceInv' /\ PathInv' /\ ChildrenInv'
  <2>1. \A k \in 1 .. n : stack[k].node # i
    BY <1>2, <1>13 DEF Visiting
  <2>2. OnceInv'
    <3>1. (\A k, l \in DOMAIN stack : stack[k].node = stack[l].node => k = l)'
      BY <1>2, <1>8, <1>13, <2>1 DEF SorterInv, OnceInv
    <3>2. (\A k \in DOMAIN stack : ~Done(stack[k].node))'
      BY <1>2, <1>4, <1>8, <1>13 DEF SorterInv, OnceInv, Done
    <3>3. QED
      BY <1>4, <3>1, <3>2 DEF SorterInv, OnceInv, NoRepeats
  <2>3. PathInv'
    <3>1. ASSUME NEW k \in 1 .. n
          PROVE  /\ stack'[k].slot > 1
                 /\ HasEdge(slice, stack'[k].node, stack'[k].slot - 1)
                 /\ Child(slice, stack'[k].slot - 1) = stack'[k + 1].node
      <4>1. CASE k = n
        <5>1. /\ k \in 1 .. n /\ stack'[k].node = stack[n].node /\ stack'[k].slot = m + 1
              /\ (m + 1) - 1 = m /\ m + 1 > 1
          BY <1>2, <1>8, <4>1
        <5>2. stack'[k + 1].node = Child(slice, m)
          BY <1>i, <1>13, <4>1
        <5>3. QED
          BY <1>6, <5>1, <5>2
      <4>2. CASE k \in 1 .. (n - 1)
        BY <1>p, <4>2
      <4>3. QED
        BY <1>2, <4>1, <4>2
    <3>2. QED
      BY <1>2, <1>4, <1>13, <3>1 DEF PathInv
  <2>4. ASSUME ~cyclic', NEW k \in DOMAIN stack', NEW l \in 1 .. (stack'[k].slot - 1),
               HasEdge(slice, stack'[k].node, l)
        PROVE  Done(Child(slice, l)) \/ (k < n + 1 /\ Child(slice, l) = stack'[k + 1].node)
    <3>1. ~cyclic
      BY <1>13, <2>4
    <3>2. CASE k \in 1 .. (n - 1)
      BY <1>2, <1>8, <1>c, <2>4, <3>1, <3>2
    <3>3. CASE k = n
      <4>1. CASE l = m
        BY <1>i, <1>2, <1>13, <3>3, <4>1
      <4>2. CASE l \in 1 .. (stack[n].slot - 1)
        BY <1>2, <1>c, <2>4, <3>1, <3>3, <4>2
      <4>3. l \in stack[n].slot .. (m - 1) \/ l = m \/ l \in 1 .. (stack[n].slot - 1)
        BY <1>6, <1>8, <2>4, <3>3
      <4>4. QED
        BY <1>6, <1>8, <2>4, <3>3, <4>1, <4>2, <4>3
    <3>4. CASE k = n + 1
      BY <1>2, <1>13, <2>4, <3>4
    <3>5. QED
      BY <1>2, <1>8, <1>13, <3>2, <3>3, <3>4
  <2>5. ChildrenInv'
    BY <1>4, <1>7, <1>13, <2>4 DEF ChildrenInv, Done
  <2>6. QED
    BY <2>2, <2>3, <2>5
<1>14. QED
  BY <1>5, <1>9, <1>10, <1>11, <1>12, <1>13 DEF SorterInv

-----------------------------------------------------------------------------
\* The slices

\* Every manifest is in order and repeats no version.
KeptInv ==
  \A c \in Copy : Ordered(manifest[c]) /\ NoRepeats(manifest[c])

\* Merge's slice has the receiver's versions and those it has taken so far,
\* once each.
SliceInv ==
  Merging =>
    /\ Conflicts(ToSet(manifest[target]), ToSet(new)) = {}
    /\ \/ \E v \in Candidate : new = <<v>>
       \/ \E d \in Copy : new = manifest[d]
    /\ NoRepeats(slice)
    /\ ToSet(slice) = Merge(ToSet(manifest[target]), {new[k] : k \in 1 .. taken})

IInv == ITyped /\ SorterInv /\ KeptInv /\ SliceInv

LEMMA ToSetEmpty == ToSet(<<>>) = {}
BY DEF ToSet

LEMMA ToSetSingleton ==
  ASSUME NEW v PROVE ToSet(<<v>>) = {v} /\ NoRepeats(<<v>>)
BY DEF ToSet, NoRepeats

LEMMA ToSetAppend ==
  ASSUME NEW S, NEW s \in Seq(S), NEW e \in S
  PROVE  ToSet(Append(s, e)) = ToSet(s) \cup {e}
<1>1. /\ Append(s, e) \in Seq(S) /\ Len(Append(s, e)) = Len(s) + 1 /\ Len(s) \in Nat
      /\ \A k \in 1 .. Len(s) : Append(s, e)[k] = s[k]
      /\ Append(s, e)[Len(s) + 1] = e
  BY AppendProperties
<1>2. DOMAIN Append(s, e) = 1 .. (Len(s) + 1) /\ DOMAIN s = 1 .. Len(s)
  BY <1>1, LenProperties
<1>3. ASSUME NEW x \in ToSet(Append(s, e)) PROVE x \in ToSet(s) \cup {e}
  <2>1. PICK k \in 1 .. (Len(s) + 1) : x = Append(s, e)[k]
    BY <1>2 DEF ToSet
  <2>2. QED
    BY <1>1, <1>2, <2>1 DEF ToSet
<1>4. ASSUME NEW x \in ToSet(s) PROVE x \in ToSet(Append(s, e))
  <2>1. PICK k \in 1 .. Len(s) : x = s[k]
    BY <1>2 DEF ToSet
  <2>2. k \in DOMAIN Append(s, e) /\ Append(s, e)[k] = x
    BY <1>1, <1>2, <2>1
  <2>3. QED
    BY <2>2 DEF ToSet
<1>5. e \in ToSet(Append(s, e))
  <2>1. Len(s) + 1 \in DOMAIN Append(s, e)
    BY <1>1, <1>2
  <2>2. QED
    BY <1>1, <2>1 DEF ToSet
<1>6. QED
  BY <1>3, <1>4, <1>5

\* What Merge appends repeats no version.
LEMMA SlicesStep ==
  ASSUME IInv, \/ \E c \in Copy : Commit(c)
               \/ \E c, d \in Copy : Take(c, d)
               \/ Collect
  PROVE  KeptInv' /\ SliceInv'
<1>t. TypeOK
  BY DEF IInv, ITyped
<1>1. KeptInv'
  BY DEF IInv, KeptInv, Commit, Take, Begin, Collect, Ordered, NoRepeats
<1>2. ASSUME NEW c \in Copy, NEW vs, Begin(c, vs),
             \/ \E v \in Candidate : vs = <<v>>
             \/ \E d \in Copy : vs = manifest[d]
      PROVE  SliceInv'
  <2>1. /\ UNCHANGED manifest /\ target' = c /\ new' = vs /\ taken' = 0
        /\ slice' = manifest[c] /\ Conflicts(ToSet(manifest[c]), ToSet(vs)) = {}
    BY <1>2 DEF Begin
  <2>2. NoRepeats(slice')
    BY <2>1 DEF IInv, KeptInv
  <2>3. {new'[k] : k \in 1 .. taken'} = {}
    BY <2>1
  <2>4. QED
    <3>1. ToSet(slice') = Merge(ToSet(manifest'[target']), {new'[k] : k \in 1 .. taken'})
      BY <2>1, <2>3 DEF Merge, Diff
    <3>2. QED
      BY <1>2, <2>1, <2>2, <3>1 DEF SliceInv
<1>3. ASSUME Collect PROVE SliceInv'
  <2> DEFINE t == taken + 1
             v == new[taken + 1]
             old == ToSet(manifest[target])
             some == {new[k] : k \in 1 .. taken}
  <2>1. /\ Merging /\ UNCHANGED <<manifest, target, new>> /\ taken' = t
        /\ slice' = IF Known(v) THEN slice ELSE Append(slice, v)
        /\ target \in Copy
    BY <1>3, <1>t DEF Collect, Merging, TypeOK
  <2>2. /\ Conflicts(old, ToSet(new)) = {}
        /\ \/ \E w \in Candidate : new = <<w>>
           \/ \E d \in Copy : new = manifest[d]
        /\ NoRepeats(slice) /\ ToSet(slice) = Merge(old, some)
    BY <2>1 DEF IInv, SliceInv
  <2>3. /\ new \in Seq(Candidate) /\ Len(new) \in Nat /\ taken \in Nat /\ t \in 1 .. Len(new)
        /\ t = taken + 1 /\ slice \in Seq(Candidate) /\ DOMAIN new = 1 .. Len(new)
        /\ 1 .. t = (1 .. taken) \cup {t} /\ 1 .. taken \subseteq 1 .. Len(new)
        /\ t \notin 1 .. taken
    BY <1>3, <1>t, LenProperties DEF Collect, TypeOK
  <2>4. v \in Candidate
    BY <2>3, ElementOfSeq
  <2>5. NoRepeats(new)
    BY <2>2, ToSetSingleton DEF IInv, KeptInv
  <2>6. {new'[k] : k \in 1 .. taken'} = some \cup {v}
    BY <2>1, <2>3
  <2>7. v \notin some
    <3>1. \A k \in 1 .. taken : new[k] # new[t]
      BY <2>3, <2>5 DEF NoRepeats
    <3>2. QED
      BY <3>1
  <2> HIDE DEF t, v
  <2>8. Known(v) <=> \E u \in old : Equal(v, u)
    BY DEF Known, ToSet
  <2>m. Merge(old, some \cup {v}) = IF Known(v) THEN Merge(old, some) ELSE Merge(old, some) \cup {v}
    BY <2>8 DEF Merge, Diff
  <2>9. NoRepeats(slice') /\ ToSet(slice') = Merge(old, some \cup {v})
    <3>1. CASE Known(v)
      BY <2>1, <2>2, <2>m, <3>1
    <3>2. CASE ~Known(v)
      <4>1. v \notin ToSet(slice)
        BY <2>2, <2>7, <2>8, <3>2, EqualSymmetric, MergeWithin
      <4>2. \A k \in DOMAIN slice : slice[k] # v
        BY <4>1 DEF ToSet
      <4>3. slice' = Append(slice, v)
        BY <2>1, <3>2
      <4>4. ToSet(slice') = ToSet(slice) \cup {v}
        BY <2>3, <2>4, <4>3, ToSetAppend
      <4>5. NoRepeats(slice')
        BY <2>2, <2>3, <2>4, <4>2, <4>3, NoRepeatsAppend
      <4>6. QED
        BY <2>2, <2>m, <3>2, <4>4, <4>5
    <3>3. QED
      BY <3>1, <3>2
  <2>10. (Conflicts(ToSet(manifest[target]), ToSet(new)) = {})'
    BY <2>1, <2>2
  <2>11. (ToSet(slice) = Merge(ToSet(manifest[target]), {new[k] : k \in 1 .. taken}))'
    BY <2>1, <2>6, <2>9
  <2>12. (NoRepeats(slice))'
    BY <2>9
  <2>13. ((\E w \in Candidate : new = <<w>>) \/ (\E d \in Copy : new = manifest[d]))'
    BY <2>1, <2>2
  <2>14. QED
    BY <2>10, <2>11, <2>12, <2>13 DEF SliceInv
<1>4. QED
  BY <1>1, <1>2, <1>3 DEF Commit, Take

\* What toposort returns has the versions of its slice, each once, in order:
\* a node is after its children among the sorted ones, and these are turned
\* around.
LEMMA ResultIsSorted ==
  ASSUME IInv, Sorted
  PROVE  /\ ToSet(Result) = ToSet(slice) /\ NoRepeats(Result)
         /\ ~cyclic => Ordered(Result) /\ Acyclic(ToSet(slice))
<1> DEFINE N == Len(sorted)
<1>t. TypeOK
  BY DEF IInv, ITyped
<1>1. /\ slice \in Seq(Candidate) /\ Len(slice) \in Nat /\ DOMAIN slice = 1 .. Len(slice)
      /\ N \in Nat /\ DOMAIN sorted = 1 .. N
      /\ \A k \in 1 .. N : sorted[k] \in 1 .. Len(slice)
  BY <1>t, LenProperties, ElementOfSeq DEF TypeOK
<1>2. /\ DOMAIN Result = 1 .. N
      /\ \A k \in 1 .. N : Result[k] = slice[sorted[N + 1 - k]]
  BY <1>t, ResultType
<1> HIDE DEF N
<1>3. \A k \in 1 .. N : N + 1 - k \in 1 .. N /\ N + 1 - (N + 1 - k) = k
  BY <1>1
\* Every node has been visited.
<1>4. \A i \in 1 .. Len(slice) : \E k \in 1 .. N : sorted[k] = i
  <2>1. stack = <<>> /\ root \in 1 .. (Len(slice) + 1) /\ root > Len(slice)
    BY <1>t DEF Sorted, TypeOK
  <2>2. \A i \in 1 .. Len(slice) : i \in 1 .. (root - 1)
    BY <1>1, <2>1
  <2>3. QED
    BY <1>1, <2>1, <2>2 DEF IInv, SorterInv, RootInv, Done
<1>5. \A k, l \in 1 .. N : sorted[k] = sorted[l] => k = l
  BY <1>1 DEF IInv, SorterInv, OnceInv, NoRepeats
<1>6. \A i, j \in 1 .. Len(slice) : slice[i] = slice[j] => i = j
  BY <1>1 DEF IInv, SliceInv, Sorted, Sorting, NoRepeats
<1>7. ToSet(Result) = ToSet(slice)
  <2>1. ASSUME NEW x \in ToSet(Result) PROVE x \in ToSet(slice)
    BY <1>1, <1>2, <1>3, <2>1 DEF ToSet
  <2>2. ASSUME NEW i \in 1 .. Len(slice) PROVE slice[i] \in ToSet(Result)
    <3>1. PICK k \in 1 .. N : sorted[k] = i
      BY <1>4
    <3>2. N + 1 - k \in 1 .. N /\ Result[N + 1 - k] = slice[i]
      BY <1>2, <1>3, <3>1
    <3>3. QED
      BY <1>2, <3>2 DEF ToSet
  <2>3. QED
    BY <1>1, <2>1, <2>2 DEF ToSet
<1>8. NoRepeats(Result)
  <2>1. ASSUME NEW k \in 1 .. N, NEW l \in 1 .. N, Result[k] = Result[l]
        PROVE  k = l
    <3>1. sorted[N + 1 - k] = sorted[N + 1 - l]
      BY <1>1, <1>2, <1>3, <1>6, <2>1
    <3>2. N + 1 - k = N + 1 - l
      BY <1>3, <1>5, <3>1
    <3>3. QED
      BY <1>1, <3>2
  <2>2. QED
    BY <1>2, <2>1 DEF NoRepeats
\* If a node precedes another, it is sorted after it.
<1>9. ASSUME ~cyclic, NEW k \in 1 .. N, NEW j \in 1 .. Len(slice),
             Precedes(slice[sorted[k]], slice[j])
      PROVE  \E l \in 1 .. (k - 1) : sorted[l] = j
  <2>1. PICK m \in 1 .. (2 * Len(slice)) :
          HasEdge(slice, sorted[k], m) /\ Child(slice, m) = j
    BY <1>1, <1>9, SlotsArePrecedence
  <2>2. QED
    BY <1>1, <1>9, <2>1 DEF IInv, SorterInv, PostorderInv
<1>10. ASSUME ~cyclic PROVE Ordered(Result)
  <2>1. SUFFICES ASSUME NEW i \in 1 .. N, NEW j \in 1 .. N, i < j,
                        Precedes(Result[j], Result[i])
                 PROVE  FALSE
    BY <1>2 DEF Ordered
  <2>2. /\ N + 1 - j \in 1 .. N /\ sorted[N + 1 - i] \in 1 .. Len(slice)
        /\ N + 1 - i \in 1 .. N
    BY <1>1, <1>3
  <2>3. Precedes(slice[sorted[N + 1 - j]], slice[sorted[N + 1 - i]])
    BY <1>2, <2>1
  <2>4. PICK a \in 1 .. N, c \in 1 .. Len(slice) : a = N + 1 - j /\ c = sorted[N + 1 - i]
    BY <2>2
  <2>5. Precedes(slice[sorted[a]], slice[c])
    BY <2>3, <2>4
  <2>6. PICK l \in 1 .. (a - 1) : sorted[l] = c
    BY <1>9, <1>10, <2>5
  <2>7. l \in 1 .. N
    BY <1>1, <2>6
  <2>8. l = N + 1 - i
    BY <1>5, <2>2, <2>4, <2>6, <2>7
  <2>9. QED
    BY <1>1, <2>1, <2>4, <2>6, <2>8
<1>11. ASSUME ~cyclic PROVE Acyclic(ToSet(slice))
  <2>1. SUFFICES ASSUME NEW T \in SUBSET ToSet(slice), T # {}
                 PROVE  \E v \in T : \A w \in T : ~Precedes(v, w)
    BY DEF Acyclic
  <2> DEFINE P == {k \in 1 .. N : slice[sorted[k]] \in T}
  <2>2. P \in SUBSET Nat
    OBVIOUS
  <2>3. P # {}
    <3>1. PICK v \in T : TRUE
      BY <2>1
    <3>2. PICK i \in 1 .. Len(slice) : slice[i] = v
      BY <1>1, <3>1 DEF ToSet
    <3>3. QED
      BY <1>4, <3>2
  <2>4. PICK k \in P : \A l \in P : k <= l
    BY <2>2, <2>3, LeastNatural
  <2>5. ASSUME NEW w \in T, Precedes(slice[sorted[k]], w) PROVE FALSE
    <3>1. PICK j \in 1 .. Len(slice) : slice[j] = w
      BY <1>1 DEF ToSet
    <3>2. PICK l \in 1 .. (k - 1) : sorted[l] = j
      BY <1>9, <1>11, <2>5, <3>1
    <3>3. l \in P /\ ~(k <= l)
      BY <1>1, <3>1, <3>2
    <3>4. QED
      BY <2>4, <3>3
  <2>6. QED
    BY <2>5
<1>12. QED
  BY <1>7, <1>8, <1>10, <1>11

-----------------------------------------------------------------------------
\* The invariant

LEMMA InvInit == Init => IInv
<1> SUFFICES ASSUME Init PROVE IInv
  OBVIOUS
<1>1. SorterInv
  BY FreshSorter DEF Init, Fresh
<1>2. KeptInv
  BY DEF Init, KeptInv, Ordered, NoRepeats
<1>3. SliceInv
  BY DEF Init, SliceInv, Merging
<1>4. QED
  BY <1>1, <1>2, <1>3, TypedInit DEF IInv

\* The merge ends: the target has the result, or what it had.
LEMMA FinishStep ==
  ASSUME IInv, Finish
  PROVE  KeptInv' /\ SliceInv'
<1>1. TypeOK /\ target \in Copy /\ Sorted
  BY DEF IInv, ITyped, TypeOK, Finish, Sorted, Sorting, Merging
<1>2. \A c \in Copy : manifest'[c] = IF c = target /\ ~cyclic THEN Result ELSE manifest[c]
  BY <1>1 DEF Finish, TypeOK
<1>3. ASSUME NEW c \in Copy PROVE Ordered(manifest'[c]) /\ NoRepeats(manifest'[c])
  BY <1>1, <1>2, ResultIsSorted DEF IInv, KeptInv
<1>4. KeptInv'
  BY <1>3 DEF KeptInv, Ordered, NoRepeats
<1>5. SliceInv'
  BY DEF Finish, SliceInv, Merging
<1>6. QED
  BY <1>4, <1>5

LEMMA InvStep == IInv /\ [Next]_vars => IInv'
<1> SUFFICES ASSUME IInv, [Next]_vars PROVE IInv'
  OBVIOUS
<1>t. ITyped' /\ ITyped /\ TypeOK /\ SorterInv
  BY TypedStep DEF IInv, ITyped
\* A step that leaves the sorter alone, before the sorting.
<1>f. ASSUME UNCHANGED sorter, ~Sorting PROVE SorterInv'
  <2>1. Fresh'
    BY <1>t, <1>f DEF ITyped, FreshInv, Fresh, sorter
  <2>2. QED
    BY <2>1, FreshSorter
\* A step that leaves the slices alone.
<1>s. ASSUME UNCHANGED <<manifest, target, new, taken, slice>>
      PROVE  KeptInv' /\ SliceInv'
  <2>1. KeptInv'
    BY <1>s DEF IInv, KeptInv, Ordered, NoRepeats
  <2>2. SliceInv'
    BY <1>s DEF IInv, SliceInv, Merging, NoRepeats
  <2>3. QED
    BY <2>1, <2>2
<1>1. ASSUME NEW c \in Copy, Commit(c) PROVE IInv'
  <2>1. UNCHANGED sorter /\ ~Sorting
    BY <1>1 DEF Commit, Begin, Sorting, Merging
  <2>2. QED
    BY <1>1, <1>t, <1>f, <2>1, SlicesStep DEF IInv
<1>2. ASSUME NEW c \in Copy, NEW d \in Copy, Take(c, d) PROVE IInv'
  <2>1. UNCHANGED sorter /\ ~Sorting
    BY <1>2 DEF Take, Begin, Sorting, Merging
  <2>2. QED
    BY <1>2, <1>t, <1>f, <2>1, SlicesStep DEF IInv
<1>3. CASE Collect
  <2>1. UNCHANGED sorter /\ ~Sorting
    BY <1>3, <1>t DEF Collect, Sorting, TypeOK
  <2>2. QED
    BY <1>3, <1>t, <1>f, <2>1, SlicesStep DEF IInv
<1>4. CASE VisitRoot
  BY <1>4, <1>t, <1>s, VisitRootStep DEF IInv, VisitRoot, Visit
<1>5. CASE VisitChild
  BY <1>5, <1>t, <1>s, VisitChildStep DEF IInv, VisitChild, Visit
<1>6. CASE Return
  BY <1>6, <1>t, <1>s, ReturnStep DEF IInv, Return
<1>7. CASE Finish
  <2>1. Fresh'
    BY <1>7 DEF Finish, Fresh
  <2>2. QED
    BY <1>7, <1>t, <2>1, FreshSorter, FinishStep DEF IInv
<1>8. CASE UNCHANGED vars
  <2>1. UNCHANGED <<manifest, target, new, taken, slice, root, stack, sorted, cyclic>>
    BY <1>8 DEF vars, sorter
  <2>2. SorterInv'
    BY <1>t, <2>1 DEF SorterInv, OnceInv, PathInv, RootInv, ChildrenInv, PostorderInv,
                      CycleInv, Done, NoRepeats
  <2>3. QED
    BY <1>t, <1>s, <2>1, <2>2 DEF IInv
<1>9. QED
  BY <1>1, <1>2, <1>3, <1>4, <1>5, <1>6, <1>7, <1>8 DEF Next, MergeStep

LEMMA InvCorrect == Spec => []IInv
BY InvInit, InvStep, PTL DEF Spec

-----------------------------------------------------------------------------
\* Theorems

\* Every manifest that a merge leaves lists parents before children and older
\* versions before newer ones.
THEOREM ManifestsOrderedCorrect == Spec => []ManifestsOrdered
<1>1. IInv => ManifestsOrdered
  BY DEF IInv, KeptInv, ManifestsOrdered
<1>2. QED
  BY <1>1, InvCorrect, PTL

\* However many edges and cycles a slice has, the sorter's recursion is no
\* deeper than the slice is long: the nodes on the stack and the sorted ones
\* are different nodes.
THEOREM RecursionBoundedCorrect == Spec => []RecursionBounded
<1>1. ASSUME IInv PROVE RecursionBounded
  <2> DEFINE L == Len(stack)
             N == Len(slice)
             node == [k \in 1 .. (L + Len(sorted)) |->
                        IF k <= L THEN stack[k].node ELSE sorted[k - L]]
  <2>1. /\ L \in Nat /\ Len(sorted) \in Nat /\ N \in Nat
        /\ \A k \in 1 .. L : k \in DOMAIN stack /\ stack[k].node \in 1 .. N
        /\ \A k \in 1 .. Len(sorted) : k \in DOMAIN sorted /\ sorted[k] \in 1 .. N
    <3>1. /\ slice \in Seq(Candidate) /\ sorted \in Seq(1 .. N)
          /\ stack \in Seq([node : 1 .. N, slot : 1 .. (2 * N + 1)])
      BY <1>1 DEF IInv, ITyped, TypeOK
    <3>2. /\ L \in Nat /\ DOMAIN stack = 1 .. L
          /\ \A k \in 1 .. L : stack[k] \in [node : 1 .. N, slot : 1 .. (2 * N + 1)]
      <4>1. \A S : stack \in Seq(S) =>
              L \in Nat /\ DOMAIN stack = 1 .. L /\ \A k \in 1 .. L : stack[k] \in S
        OBVIOUS
      <4>2. QED
        BY <3>1, <4>1, Zenon
    <3>3. /\ Len(sorted) \in Nat /\ DOMAIN sorted = 1 .. Len(sorted)
          /\ \A k \in 1 .. Len(sorted) : sorted[k] \in 1 .. N
      BY <3>1
    <3>4. QED
      BY <3>1, <3>2, <3>3
  <2>2. \A k \in 1 .. (L + Len(sorted)) : k \in 1 .. L \/ k - L \in 1 .. Len(sorted)
    BY <2>1
  <2>3. node \in [1 .. (L + Len(sorted)) -> 1 .. N]
    BY <2>1, <2>2
  <2>4. ASSUME NEW k \in 1 .. (L + Len(sorted)), NEW l \in 1 .. (L + Len(sorted)),
               node[k] = node[l]
        PROVE  k = l
    <3>1. OnceInv
      BY <1>1 DEF IInv, SorterInv
    <3>2. CASE k <= L /\ l <= L
      BY <2>1, <2>2, <2>4, <3>1, <3>2 DEF OnceInv
    <3>3. CASE k <= L /\ ~(l <= L)
      <4>1. node[k] = stack[k].node /\ node[l] = sorted[l - L]
            /\ k \in DOMAIN stack /\ l - L \in DOMAIN sorted
        BY <2>1, <2>2, <3>3
      <4>2. QED
        BY <2>4, <3>1, <4>1 DEF OnceInv, Done
    <3>4. CASE ~(k <= L) /\ l <= L
      <4>1. node[l] = stack[l].node /\ node[k] = sorted[k - L]
            /\ l \in DOMAIN stack /\ k - L \in DOMAIN sorted
        BY <2>1, <2>2, <3>4
      <4>2. QED
        BY <2>4, <3>1, <4>1 DEF OnceInv, Done
    <3>5. CASE ~(k <= L) /\ ~(l <= L)
      <4>1. node[k] = sorted[k - L] /\ node[l] = sorted[l - L]
            /\ k - L \in DOMAIN sorted /\ l - L \in DOMAIN sorted
        BY <2>1, <2>2, <3>5
      <4>2. k - L = l - L
        BY <2>4, <3>1, <4>1 DEF OnceInv, NoRepeats
      <4>3. QED
        BY <2>1, <4>2
    <3>6. QED
      BY <3>2, <3>3, <3>4, <3>5
  <2> HIDE DEF node
  <2>5. node \in Injection(1 .. (L + Len(sorted)), 1 .. N)
    BY <2>3, <2>4 DEF Injection, IsInjective
  <2>6. /\ IsFiniteSet(1 .. N) /\ Cardinality(1 .. N) = N
        /\ Cardinality(1 .. (L + Len(sorted))) = L + Len(sorted)
    <3>1. /\ N \in Int /\ L + Len(sorted) \in Int /\ 1 \in Int
          /\ (IF 1 > N THEN 0 ELSE N - 1 + 1) = N
          /\ (IF 1 > L + Len(sorted) THEN 0 ELSE (L + Len(sorted)) - 1 + 1) = L + Len(sorted)
      BY <2>1
    <3>2. IsFiniteSet(1 .. N) /\ Cardinality(1 .. N) = IF 1 > N THEN 0 ELSE N - 1 + 1
      BY <3>1, FS_Interval
    <3>3. Cardinality(1 .. (L + Len(sorted)))
            = IF 1 > L + Len(sorted) THEN 0 ELSE (L + Len(sorted)) - 1 + 1
      BY <3>1, FS_Interval
    <3>4. QED
      BY <3>1, <3>2, <3>3
  <2>7. L + Len(sorted) <= N
    BY <2>5, <2>6, FS_Injection
  <2>8. QED
    BY <2>7 DEF RecursionBounded
<1>2. QED
  BY <1>1, InvCorrect, PTL

\* When toposort is through, it has found a cycle exactly if module Manifest
\* calls the merged set cyclic, and else its result has the merged versions.
LEMMA MergeAgrees ==
  ASSUME IInv, Sorted
  PROVE  /\ target \in Copy
         /\ cyclic <=> MergeError(ToSet(manifest[target]), ToSet(new))
         /\ ~cyclic => /\ ToSet(Result) = Merge(ToSet(manifest[target]), ToSet(new))
                       /\ NoRepeats(Result)
<1> DEFINE S == ToSet(manifest[target])
           T == ToSet(new)
<1>1. Merging /\ taken = Len(new) /\ TypeOK /\ target \in Copy
  BY DEF Sorted, Sorting, Merging, IInv, ITyped, TypeOK
<1>2. T = {new[k] : k \in 1 .. taken}
  BY <1>1, LenProperties DEF TypeOK, ToSet
<1>3. Conflicts(S, T) = {} /\ ToSet(slice) = Merge(S, T)
  BY <1>1, <1>2 DEF IInv, SliceInv
<1> HIDE DEF S, T
<1>4. Merge(S, T) = ToSet(slice) /\ S \cup Diff(S, T) = ToSet(slice)
  BY <1>3 DEF Merge
<1>5. cyclic <=> ~Acyclic(ToSet(slice))
  BY ResultIsSorted DEF IInv, SorterInv, CycleInv
<1>6. (cyclic <=> MergeError(S, T)) /\ ToSet(Result) = Merge(S, T) /\ NoRepeats(Result)
  BY <1>3, <1>4, <1>5, ResultIsSorted DEF MergeError
<1>7. QED
  BY <1>1, <1>6 DEF S, T

\* toposort on the slice Merge collects fails exactly when the merge of the
\* sets is an error, and else its result has the merged versions, each once.
THEOREM MergeAgreesWithSetsCorrect == Spec => []MergeAgreesWithSets
<1>1. IInv => MergeAgreesWithSets
  BY MergeAgrees DEF MergeAgreesWithSets
<1>2. QED
  BY <1>1, InvCorrect, PTL

\* Two slices in order with the same versions, each once, are equal if no two
\* versions have the same date: at the first place where they differ each has
\* a version that the other has later, so each is older than the other.
LEMMA OrderedUnique ==
  ASSUME NEW s \in Seq(Candidate), NEW t \in Seq(Candidate), ToSet(s) = ToSet(t),
         Ordered(s), Ordered(t), NoRepeats(s), NoRepeats(t), DistinctDates(s)
  PROVE  s = t
<1>1. /\ Len(s) \in Nat /\ DOMAIN s = 1 .. Len(s)
      /\ Len(t) \in Nat /\ DOMAIN t = 1 .. Len(t)
  BY LenProperties
<1>2. /\ \A i \in 1 .. Len(s) : \E j \in 1 .. Len(t) : t[j] = s[i]
      /\ \A i \in 1 .. Len(t) : \E j \in 1 .. Len(s) : s[j] = t[i]
  BY <1>1 DEF ToSet
\* Both are in the order of the dates.
<1>3. ASSUME NEW i \in 1 .. Len(s), NEW j \in 1 .. Len(s), i < j
      PROVE  s[i].date < s[j].date
  <2>1. s[i].date \in Int /\ s[j].date \in Int
    BY <1>1, ElementOfSeq, CandidateAssumption
  <2>2. ~(s[j].date < s[i].date)
    BY <1>1, <1>3 DEF Ordered, Precedes
  <2>3. s[i].date # s[j].date
    BY <1>1, <1>3 DEF DistinctDates
  <2>4. QED
    BY <2>1, <2>2, <2>3
<1>4. ASSUME NEW i \in 1 .. Len(t), NEW j \in 1 .. Len(t), i < j
      PROVE  t[i].date < t[j].date
  <2>1. PICK k \in 1 .. Len(s), l \in 1 .. Len(s) : s[k] = t[i] /\ s[l] = t[j]
    BY <1>2
  <2>2. t[i].date \in Int /\ t[j].date \in Int
    BY <1>1, ElementOfSeq, CandidateAssumption
  <2>3. ~(t[j].date < t[i].date)
    BY <1>1, <1>4 DEF Ordered, Precedes
  <2>4. t[i].date # t[j].date
    <3>1. t[i] # t[j]
      BY <1>1, <1>4 DEF NoRepeats
    <3>2. QED
      BY <1>1, <2>1, <3>1 DEF DistinctDates
  <2>5. QED
    BY <2>2, <2>3, <2>4
<1> DEFINE Same(k) == k \in 1 .. Len(s) /\ k \in 1 .. Len(t) /\ s[k] = t[k]
           D == {k \in (1 .. Len(s)) \cup (1 .. Len(t)) : ~Same(k)}
<1>5. D = {}
  <2>1. SUFFICES ASSUME D # {} PROVE FALSE
    OBVIOUS
  <2>2. D \in SUBSET Nat
    BY <1>1
  <2>3. PICK k \in D : \A l \in D : k <= l
    BY <2>1, <2>2, LeastNatural
  <2>4. k \in Nat /\ k >= 1 /\ (k <= Len(s) \/ k <= Len(t))
    BY <1>1
  <2>5. ASSUME NEW l \in 1 .. (k - 1) PROVE l \in 1 .. Len(s) /\ l \in 1 .. Len(t) /\ s[l] = t[l]
    <3>1. l \notin D
      BY <2>3, <2>4, <2>5
    <3>2. l \in (1 .. Len(s)) \cup (1 .. Len(t))
      BY <1>1, <2>4, <2>5
    <3>3. QED
      BY <3>1, <3>2
  <2>6. ASSUME k \in 1 .. Len(s)
        PROVE  \E j \in 1 .. Len(t) : j > k /\ t[j] = s[k]
    <3>1. PICK j \in 1 .. Len(t) : t[j] = s[k]
      BY <1>2, <2>6
    <3>2. ASSUME j < k PROVE FALSE
      <4>1. j \in 1 .. (k - 1)
        BY <2>4, <3>2
      <4>2. j \in 1 .. Len(s) /\ s[j] = s[k]
        BY <2>5, <3>1, <4>1
      <4>3. QED
        BY <1>1, <2>6, <3>2, <4>2 DEF NoRepeats
    <3>3. j # k
      BY <2>6, <3>1
    <3>4. QED
      BY <2>4, <3>1, <3>2, <3>3
  <2>7. ASSUME k \in 1 .. Len(t)
        PROVE  \E j \in 1 .. Len(s) : j > k /\ s[j] = t[k]
    <3>1. PICK j \in 1 .. Len(s) : s[j] = t[k]
      BY <1>2, <2>7
    <3>2. ASSUME j < k PROVE FALSE
      <4>1. j \in 1 .. (k - 1)
        BY <2>4, <3>2
      <4>2. j \in 1 .. Len(t) /\ t[j] = t[k]
        BY <2>5, <3>1, <4>1
      <4>3. QED
        BY <1>1, <2>7, <3>2, <4>2 DEF NoRepeats
    <3>3. j # k
      BY <2>7, <3>1
    <3>4. QED
      BY <2>4, <3>1, <3>2, <3>3
  <2>8. k \in 1 .. Len(s) /\ k \in 1 .. Len(t)
    BY <1>1, <2>4, <2>6, <2>7
  <2>9. PICK i \in 1 .. Len(t), j \in 1 .. Len(s) :
          i > k /\ t[i] = s[k] /\ j > k /\ s[j] = t[k]
    BY <2>6, <2>7, <2>8
  <2>10. t[k].date < s[k].date /\ s[k].date < t[k].date
    BY <1>3, <1>4, <2>8, <2>9
  <2>11. s[k].date \in Int /\ t[k].date \in Int
    BY <2>8, ElementOfSeq, CandidateAssumption
  <2>12. QED
    BY <2>10, <2>11
<1>6. Len(s) = Len(t) /\ \A k \in 1 .. Len(s) : s[k] = t[k]
  <2>1. \A k \in (1 .. Len(s)) \cup (1 .. Len(t)) :
          k \in 1 .. Len(s) /\ k \in 1 .. Len(t) /\ s[k] = t[k]
    BY <1>5
  <2>2. \A k \in 1 .. Len(s) : k \in 1 .. Len(t)
    BY <2>1
  <2>3. \A k \in 1 .. Len(t) : k \in 1 .. Len(s)
    BY <2>1
  <2>4. Len(s) <= Len(t) /\ Len(t) <= Len(s)
    BY <1>1, <2>2, <2>3
  <2>5. Len(s) = Len(t)
    <3>1. \A a, b \in Nat : a <= b /\ b <= a => a = b
      OBVIOUS
    <3>2. QED
      BY <1>1, <2>4, <3>1, Zenon
  <2>6. QED
    BY <2>1, <2>5
<1>7. QED
  BY <1>6, SeqEqual

\* Copies that have the same versions have the same manifest, hence the same
\* manifest hash, if no two of the versions have the same date.
THEOREM SameVersionsSameManifestCorrect == Spec => []SameVersionsSameManifest
<1>1. IInv => SameVersionsSameManifest
  BY OrderedUnique DEF IInv, ITyped, TypeOK, KeptInv, SameVersionsSameManifest
<1>2. QED
  BY <1>1, InvCorrect, PTL

\* Merge and toposort on slices implement Merge and MergeError on sets: a
\* merge takes effect as one step, when it ends, and does nothing before.
THEOREM ImplementsSetsCorrect == Spec => ImplementsSets
<1> USE DEF Sets!vars
\* ManifestSets works with the same operators.
<1>m. ASSUME NEW S, NEW T
      PROVE  /\ Sets!Merge(S, T) = Merge(S, T)
             /\ Sets!MergeError(S, T) <=> MergeError(S, T)
  <2>1. \A v, w : (Sets!SameHash(v, w) <=> SameHash(v, w)) /\ (Sets!Equal(v, w) <=> Equal(v, w))
    <3>1. \A P : Sets!Cardinality(P) = Cardinality(P)
      BY Zenon DEF Cardinality, Sets!Cardinality
    <3>2. QED
      BY <3>1 DEF SameHash, Equal, SameParents, Sets!SameHash, Sets!Equal, Sets!SameParents
  <2>2. Sets!Diff(S, T) = Diff(S, T) /\ Sets!Conflicts(S, T) = Conflicts(S, T)
    BY <2>1 DEF Diff, Conflicts, Sets!Diff, Sets!Conflicts
  <2>3. Sets!Acyclic(S \cup Diff(S, T)) <=> Acyclic(S \cup Diff(S, T))
    BY DEF Acyclic, Precedes, Sets!Acyclic, Sets!Precedes
  <2>4. QED
    BY <2>2, <2>3 DEF Merge, MergeError, Sets!Merge, Sets!MergeError
<1>1. Init => Sets!Init
  BY ToSetEmpty DEF Init, Sets!Init
<1>2. ASSUME IInv, [Next]_vars PROVE [Sets!Next]_(Sets!vars)
  <2> DEFINE versions == [c \in Copy |-> ToSet(manifest[c])]
  <2>1. CASE UNCHANGED manifest
    BY <2>1
  <2>2. CASE Finish
    <3>1. TypeOK /\ Sorted /\ target \in Copy
      BY <1>2, <2>2, MergeAgrees DEF Finish, IInv, ITyped
    <3>2. \A c \in Copy : ToSet(manifest'[c])
                            = IF c = target /\ ~cyclic THEN ToSet(Result) ELSE ToSet(manifest[c])
      BY <2>2, <3>1 DEF Finish, TypeOK
    <3>3. [c \in Copy |-> ToSet(manifest'[c])] =
            [versions EXCEPT ![target] = IF MergeError(ToSet(manifest[target]), ToSet(new))
                                         THEN ToSet(manifest[target])
                                         ELSE Merge(ToSet(manifest[target]), ToSet(new))]
      BY <1>2, <3>1, <3>2, MergeAgrees
    <3>4. Sets!Absorb(target, ToSet(new))
      BY <1>m, <3>1, <3>3 DEF Sets!Absorb
    <3>5. \/ \E v \in Candidate : ToSet(new) = {v}
          \/ \E d \in Copy : ToSet(new) = versions[d]
      BY <1>2, <3>1, ToSetSingleton DEF IInv, SliceInv, Sorted, Sorting
    <3>6. Sets!Next
      BY <3>1, <3>4, <3>5 DEF Sets!Next
    <3>7. QED
      BY <3>6
  <2>3. UNCHANGED manifest \/ Finish
    BY <1>2 DEF Next, MergeStep, vars, Commit, Take, Begin, Collect, VisitRoot, VisitChild,
                Visit, Return
  <2>4. QED
    BY <2>1, <2>2, <2>3
<1>3. QED
  BY <1>1, <1>2, InvCorrect, PTL DEF Spec, ImplementsSets, Sets!Spec
=============================================================================
