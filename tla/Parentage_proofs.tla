-------------------------- MODULE Parentage_proofs --------------------------
(***************************************************************************)
(* Theorems about Parentage, for any data and any flags.                   *)
(***************************************************************************)
EXTENDS Parentage, Manifest_proofs, FiniteSetTheorems

-----------------------------------------------------------------------------
\* Types

\* Merging a version into the manifest adds it, or nothing if there is an equal
\* one already.
LEMMA MergeOne ==
  ASSUME NEW S, NEW v
  PROVE  Merge(S, {v}) = S \/ Merge(S, {v}) = S \cup {v}
<1>1. S \subseteq Merge(S, {v}) /\ Merge(S, {v}) \subseteq S \cup {v}
  BY MergeWithin
<1>2. QED
  BY <1>1

\* What a version is made of.
LEMMA VersionFields ==
  ASSUME NEW h, NEW ps, NEW t
  PROVE  /\ Version(h, ps, t).hash = h
         /\ Version(h, ps, t).parents = ps
         /\ Version(h, ps, t).date = t
BY DEF Version

LEMMA PreselectedPart == Preselected \subseteq manifest
BY DEF Preselected, LeafVersions

LEMMA HashesType == TypeOK => \A S \in SUBSET manifest : Hashes(S) \subseteq Hash
BY DEF TypeOK, Hashes

LEMMA TypeStep == TypeOK /\ [Next]_vars => TypeOK'
<1> SUFFICES ASSUME TypeOK, [Next]_vars PROVE TypeOK'
  OBVIOUS
<1>o. ASSUME OpenPicker, manifest # {}, UNCHANGED <<manifest, clock>>,
             cmd' \in [given : SUBSET Hash, pick : BOOLEAN], agreed' \subseteq {"alone", "unknown"}
      PROVE  TypeOK'
  BY <1>o, PreselectedPart DEF OpenPicker, TypeOK
<1>c. ASSUME NEW ps \in SUBSET Hash, CheckUnknown(ps), UNCHANGED <<manifest, clock>>,
             cmd' \in [given : SUBSET Hash, pick : BOOLEAN], touched' \in BOOLEAN,
             agreed' \subseteq {"alone", "unknown"}
      PROVE  TypeOK'
  BY <1>c DEF CheckUnknown, TypeOK
<1>v. ASSUME NEW h \in Hash, NEW ps \in SUBSET Hash, NEW t \in 1..(clock + 1),
             manifest' = Merge(manifest, {Version(h, ps, t)}),
             clock' = IF t > clock THEN t ELSE clock
      PROVE  /\ \A v \in manifest' : v.hash \in Hash /\ v.parents \subseteq Hash /\ v.date \in 1..clock'
             /\ clock' \in Nat /\ manifest \subseteq manifest'
  <2> DEFINE n == Version(h, ps, t)
  <2>1. manifest' = manifest \/ manifest' = manifest \cup {n}
    BY <1>v, MergeOne
  <2>2. n.hash = h /\ n.parents = ps /\ n.date = t
    BY VersionFields
  <2>3. clock' \in Nat /\ clock <= clock' /\ t \in 1..clock'
    BY <1>v DEF TypeOK
  <2>4. \A v \in manifest : v.date \in 1..clock'
    BY <2>3 DEF TypeOK
  <2>5. QED
    BY <2>1, <2>2, <2>3, <2>4 DEF TypeOK
<1>1. CASE Fetch
  <2>1. PICK h \in Hash, ps \in SUBSET Hashes(manifest), t \in 1..(clock + 1) :
          /\ manifest' = Merge(manifest, {Version(h, ps, t)})
          /\ clock' = IF t > clock THEN t ELSE clock
    BY <1>1 DEF Fetch
  <2>2. ps \in SUBSET Hash
    BY HashesType
  <2>3. QED
    BY <1>1, <1>v, <2>1, <2>2 DEF Fetch, TypeOK
<1>2. CASE Start
  <2>1. PICK c \in CommitCmd :
          /\ cmd' = c /\ agreed' = {}
          /\ IF PickerOpens(c) THEN OpenPicker ELSE CheckUnknown(c.given) /\ touched' = FALSE
    BY <1>2 DEF Start
  <2>2. c \in [given : SUBSET Hash, pick : BOOLEAN]
    BY ParentageAssumption
  <2>3. CASE PickerOpens(c)
    BY <1>2, <1>o, <2>1, <2>2, <2>3 DEF Start, PickerOpens
  <2>4. CASE ~PickerOpens(c)
    BY <1>2, <1>c, <2>1, <2>2, <2>4 DEF Start
  <2>5. QED
    BY <2>3, <2>4
<1>3. CASE Toggle
  BY <1>3 DEF Toggle, TypeOK
<1>4. CASE Filter
  BY <1>4 DEF Filter, TypeOK
<1>5. CASE Finish
  <2>1. CASE chosen = {}
    BY <1>5, <2>1 DEF Finish, TypeOK
  <2>2. CASE chosen # {}
    <3>1. cmd.given \cup Hashes(chosen) \in SUBSET Hash
      BY HashesType DEF TypeOK
    <3>2. QED
      BY <1>5, <1>c, <2>2, <3>1 DEF Finish, TypeOK
  <2>3. QED
    BY <2>1, <2>2
<1>6. CASE AnswerAlone
  <2>1. \/ agreed' = agreed \cup {"alone"} /\ CheckUnknown(cmd.given) /\ UNCHANGED touched
        \/ OpenPicker /\ UNCHANGED agreed
    BY <1>6 DEF AnswerAlone
  <2>2. cmd.given \in SUBSET Hash /\ manifest # {}
    BY <1>6 DEF AnswerAlone, TypeOK
  <2>3. QED
    BY <1>6, <1>c, <1>o, <2>1, <2>2 DEF AnswerAlone, TypeOK
<1>7. CASE AnswerUnknown
  BY <1>7 DEF AnswerUnknown, TypeOK
<1>8. CASE Commit
  <2>1. CASE UNCHANGED <<manifest, clock>>
    BY <1>8, <2>1 DEF Commit, TypeOK
  <2>2. CASE \E h \in Hash : manifest' = Merge(manifest, {Version(h, parents, clock + 1)})
                             /\ clock' = clock + 1
    <3>1. PICK h \in Hash : manifest' = Merge(manifest, {Version(h, parents, clock + 1)})
                            /\ clock' = clock + 1
      BY <2>2
    <3>2. clock + 1 \in 1..(clock + 1) /\ clock + 1 > clock /\ parents \in SUBSET Hash
      BY DEF TypeOK
    <3>3. QED
      BY <1>8, <1>v, <3>1, <3>2 DEF Commit, TypeOK
  <2>3. QED
    BY <1>8, <2>1, <2>2 DEF Commit
<1>9. CASE Abort
  BY <1>9 DEF Abort, TypeOK
<1>10. CASE UNCHANGED vars
  BY <1>10 DEF vars, TypeOK
<1>11. QED
  BY <1>1, <1>2, <1>3, <1>4, <1>5, <1>6, <1>7, <1>8, <1>9, <1>10 DEF Next

\* The picker opens only on versions, and the manifest holds only what was
\* committed with hashes and dates there are.
THEOREM TypeCorrect == Spec => []TypeOK
<1>1. Init => TypeOK
  <2>1. SUFFICES ASSUME Init PROVE TypeOK
    OBVIOUS
  <2>2. {} \in SUBSET Hash /\ FALSE \in BOOLEAN
    OBVIOUS
  <2>3. cmd \in [given : SUBSET Hash, pick : BOOLEAN]
    BY <2>1, <2>2 DEF Init
  <2>4. QED
    BY <2>1, <2>3 DEF Init, TypeOK
<1>2. QED
  BY <1>1, TypeStep, PTL DEF Spec

-----------------------------------------------------------------------------
\* What the user was asked

\* Once the questions are over, no parents and unknown parents are agreed to.
\* In between, no parents means that the picker is still to be answered for.
IAsked ==
  /\ pc \in {"unknown", "commit"} /\ parents = {} /\ manifest # {} => "alone" \in agreed
  /\ pc = "commit" /\ UnknownCommits(manifest, parents) # {} => "unknown" \in agreed

LEMMA AskedStep == TypeOK /\ IAsked /\ [Next]_vars => IAsked'
<1> SUFFICES ASSUME TypeOK, IAsked, [Next]_vars PROVE IAsked'
  OBVIOUS
<1>i. ASSUME pc' \notin {"unknown", "commit"} PROVE IAsked'
  BY <1>i DEF IAsked
<1>c. ASSUME NEW ps, CheckUnknown(ps), UNCHANGED manifest,
             ps = {} /\ manifest # {} => "alone" \in agreed'
      PROVE  IAsked'
  BY <1>c DEF CheckUnknown, IAsked, UnknownCommits
<1>1. CASE Start
  <2>1. PICK c \in CommitCmd :
          IF PickerOpens(c) THEN OpenPicker ELSE CheckUnknown(c.given)
    BY <1>1 DEF Start
  <2>2. CASE PickerOpens(c)
    BY <1>i, <2>1, <2>2 DEF OpenPicker
  <2>3. CASE ~PickerOpens(c)
    <3>1. manifest # {} => c.given # {}
      BY <2>3 DEF PickerOpens
    <3>2. QED
      BY <1>1, <1>c, <2>1, <2>3, <3>1 DEF Start
  <2>4. QED
    BY <2>2, <2>3
<1>2. CASE Finish
  <2>1. CASE chosen = {}
    BY <1>2, <1>i, <2>1 DEF Finish
  <2>2. CASE chosen # {}
    <3>1. cmd.given \cup Hashes(chosen) # {}
      BY <2>2 DEF Hashes
    <3>2. QED
      BY <1>2, <1>c, <2>2, <3>1 DEF Finish
  <2>3. QED
    BY <2>1, <2>2
<1>3. CASE AnswerAlone
  <2>1. CASE agreed' = agreed \cup {"alone"} /\ CheckUnknown(cmd.given)
    BY <1>3, <1>c, <2>1 DEF AnswerAlone
  <2>2. CASE OpenPicker
    BY <1>i, <2>2 DEF OpenPicker
  <2>3. QED
    BY <1>3, <2>1, <2>2 DEF AnswerAlone
<1>4. CASE AnswerUnknown
  BY <1>4 DEF AnswerUnknown, IAsked
<1>5. CASE Fetch \/ Toggle \/ Filter \/ Commit \/ Abort
  BY <1>5, <1>i DEF Fetch, Toggle, Filter, Commit, Abort
<1>6. CASE UNCHANGED vars
  BY <1>6 DEF vars, IAsked
<1>7. QED
  BY <1>1, <1>2, <1>3, <1>4, <1>5, <1>6 DEF Next

\* A version that starts a history anew where there is one, or that names
\* parents nobody has, was agreed to by the user.
THEOREM AskedFirstCorrect == Spec => AskedFirst
<1>1. Init => IAsked
  BY DEF Init, IAsked
<1>2. ASSUME TypeOK, IAsked, [Next]_vars, NEW v \in Committed
      PROVE  /\ v.parents = {} /\ manifest # {} => "alone" \in agreed
             /\ UnknownCommits(manifest, v.parents) # {} => "unknown" \in agreed
  <2>1. pc = "commit" /\ v \in manifest' \ manifest
    BY <1>2 DEF Committed
  <2>2. CASE Commit
    <3>1. PICK h \in Hash : manifest' = Merge(manifest, {Version(h, parents, clock + 1)})
      BY <2>1, <2>2 DEF Commit
    <3>2. v.parents = parents
      <4>1. \/ manifest' = manifest
            \/ manifest' = manifest \cup {Version(h, parents, clock + 1)}
        BY <3>1, MergeOne
      <4>2. v = Version(h, parents, clock + 1)
        BY <2>1, <4>1
      <4>3. QED
        BY <4>2, VersionFields
    <3>3. QED
      BY <1>2, <2>1, <3>2 DEF IAsked
  <2>3. CASE ~Commit
    BY <1>2, <2>1, <2>3
    DEF Next, vars, Fetch, Start, Toggle, Filter, Finish, AnswerAlone, AnswerUnknown, Abort
  <2>4. QED
    BY <2>2, <2>3
<1>3. TypeOK /\ IAsked /\ [Next]_vars =>
        [\A v \in Committed :
           /\ v.parents = {} /\ manifest # {} => "alone" \in agreed
           /\ UnknownCommits(manifest, v.parents) # {} => "unknown" \in agreed]_vars
  BY <1>2
<1>4. QED
  BY <1>1, <1>3, AskedStep, TypeCorrect, PTL DEF Spec, AskedFirst

-----------------------------------------------------------------------------
\* The line of history

\* The manifest is well-formed, and while the user changes nothing in the
\* picker, its one leaf, if there is one, is what the version will follow.
ILine ==
  /\ WellFormed(manifest)
  /\ pc = "picking" /\ ~touched => chosen = Preselected
  /\ pc = "alone" => chosen = {}
  /\ pc = "alone" /\ ~touched => Cardinality(LeafVersions(manifest)) # 1
  /\ pc \in {"unknown", "commit"} /\ cmd.given = {} /\ ~touched
       /\ Cardinality(LeafVersions(manifest)) = 1
       => parents = Hashes(LeafVersions(manifest))

LEMMA LineStep == TypeOK /\ ILine /\ [Next]_vars => ILine'
<1> SUFFICES ASSUME TypeOK, ILine, [Next]_vars PROVE ILine'
  OBVIOUS
<1>0. \/ manifest' # manifest
      \/ /\ Preselected' = Preselected
         /\ Hashes(LeafVersions(manifest))' = Hashes(LeafVersions(manifest))
  BY DEF Preselected
<1>o. ASSUME OpenPicker, UNCHANGED manifest PROVE ILine'
  BY <1>0, <1>o DEF OpenPicker, ILine
<1>c. ASSUME NEW ps, CheckUnknown(ps), UNCHANGED <<manifest, cmd>>,
             cmd.given = {} /\ ~touched' /\ Cardinality(LeafVersions(manifest)) = 1
               => ps = Hashes(LeafVersions(manifest))
      PROVE  ILine'
  BY <1>c DEF CheckUnknown, ILine
\* Outside the dialog only well-formedness is at stake.
<1>i. ASSUME pc' = "idle", WellFormed(manifest') PROVE ILine'
  BY <1>i DEF ILine
<1>w. ASSUME NEW v, ~MergeError(manifest, {v}) PROVE WellFormed(Merge(manifest, {v}))
  BY <1>w, MergeWellFormed, SingletonUnique DEF ILine, WellFormed
<1>1. CASE Fetch
  BY <1>1, <1>i, <1>w DEF Fetch
<1>2. CASE Start
  <2>1. PICK c \in CommitCmd :
          /\ cmd' = c
          /\ IF PickerOpens(c) THEN OpenPicker ELSE CheckUnknown(c.given)
    BY <1>2 DEF Start
  <2>2. CASE PickerOpens(c)
    BY <1>2, <1>o, <2>1, <2>2 DEF Start
  <2>3. CASE ~PickerOpens(c) /\ c.given # {}
    BY <1>2, <2>1, <2>3 DEF Start, CheckUnknown, ILine
  <2>4. CASE ~PickerOpens(c) /\ c.given = {}
    <3>1. manifest = {}
      BY <2>4 DEF PickerOpens
    <3>2. Cardinality(LeafVersions(manifest)) # 1
      BY <3>1, FS_EmptySet DEF LeafVersions
    <3>3. QED
      BY <1>2, <2>1, <2>4, <3>2 DEF Start, CheckUnknown, ILine
  <2>5. QED
    BY <2>2, <2>3, <2>4
<1>3. CASE Toggle
  BY <1>3 DEF Toggle, ILine
<1>4. CASE Filter
  BY <1>0, <1>4 DEF Filter, ILine
<1>5. CASE Finish
  <2>1. CASE chosen = {}
    <3>1. ~touched => Cardinality(LeafVersions(manifest)) # 1
      <4>1. SUFFICES ASSUME ~touched PROVE Cardinality(LeafVersions(manifest)) # 1
        OBVIOUS
      <4>2. Preselected = {}
        BY <1>5, <2>1, <4>1 DEF Finish, ILine
      <4>3. CASE LeafVersions(manifest) = {}
        BY <4>3, FS_EmptySet
      <4>4. CASE Cardinality(LeafVersions(manifest)) > 1
        BY <4>4
      <4>5. QED
        BY <4>2, <4>3, <4>4 DEF Preselected
    <3>2. QED
      BY <1>5, <2>1, <3>1 DEF Finish, ILine
  <2>2. CASE chosen # {}
    <3>1. ASSUME cmd.given = {}, ~touched, Cardinality(LeafVersions(manifest)) = 1
          PROVE  cmd.given \cup Hashes(chosen) = Hashes(LeafVersions(manifest))
      BY <1>5, <3>1 DEF Finish, ILine, Preselected
    <3>2. QED
      BY <1>5, <1>c, <2>2, <3>1 DEF Finish
  <2>3. QED
    BY <2>1, <2>2
<1>6. CASE AnswerAlone
  <2>1. CASE CheckUnknown(cmd.given) /\ UNCHANGED touched
    BY <1>6, <1>c, <2>1 DEF AnswerAlone, ILine
  <2>2. CASE OpenPicker
    BY <1>6, <1>o, <2>2 DEF AnswerAlone
  <2>3. QED
    BY <1>6, <2>1, <2>2 DEF AnswerAlone
<1>7. CASE AnswerUnknown
  BY <1>7 DEF AnswerUnknown, ILine
<1>8. CASE Commit
  BY <1>8, <1>i, <1>w DEF Commit, ILine
<1>9. CASE Abort
  BY <1>9, <1>i DEF Abort, ILine
<1>10. CASE UNCHANGED vars
  BY <1>0, <1>10 DEF vars, ILine
<1>11. QED
  BY <1>1, <1>2, <1>3, <1>4, <1>5, <1>6, <1>7, <1>8, <1>9, <1>10 DEF Next

\* A version that is later than all others and names the leaves as its
\* parents is the one leaf of what results.
LEMMA NewLeaf ==
  ASSUME NEW S, NEW v, WellFormed(S \cup {v}), v \notin S,
         \A w \in S : w.date < v.date, Hashes(LeafVersions(S)) \subseteq v.parents
  PROVE  LeafVersions(S \cup {v}) = {v}
<1>1. ASSUME NEW w \in S \cup {v}, v.hash \in w.parents PROVE FALSE
  <2>1. {v, w} \in SUBSET (S \cup {v}) /\ {v, w} # {}
    OBVIOUS
  <2>2. PICK u \in {v, w} : \A x \in {v, w} : ~Precedes(u, x)
    BY <2>1 DEF WellFormed, Acyclic
  <2>3. CASE u = v
    BY <1>1, <2>2, <2>3 DEF Precedes
  <2>4. CASE u = w /\ w # v
    BY <2>2, <2>4 DEF Precedes
  <2>5. QED
    BY <2>3, <2>4
<1>2. v \in LeafVersions(S \cup {v})
  BY <1>1 DEF LeafVersions
<1>3. ASSUME NEW w \in LeafVersions(S \cup {v}) PROVE w = v
  <2>1. SUFFICES ASSUME w \in S PROVE FALSE
    BY DEF LeafVersions
  <2>2. w \in LeafVersions(S)
    BY <1>3, <2>1 DEF LeafVersions
  <2>3. w.hash \in v.parents
    BY <2>2 DEF Hashes
  <2>4. QED
    BY <1>3, <2>3 DEF LeafVersions
<1>4. QED
  BY <1>2, <1>3

\* Who leaves the picker as it opened continues a history that has one end.
THEOREM LineContinuesCorrect == Spec => LineContinues
<1>1. Init => ILine
  BY EmptyWellFormed DEF Init, ILine
<1>2. ASSUME TypeOK, ILine, [Next]_vars, NEW v \in Committed,
             cmd.given = {}, ~touched, Cardinality(LeafVersions(manifest)) = 1
      PROVE  LeafVersions(manifest') = {v}
  <2>1. pc = "commit" /\ v \in manifest' /\ v \notin manifest
    BY <1>2 DEF Committed
  <2>2. CASE Commit
    <3>1. PICK h \in Hash : manifest' = Merge(manifest, {Version(h, parents, clock + 1)})
      BY <2>1, <2>2 DEF Commit
    <3>2. v = Version(h, parents, clock + 1) /\ manifest' = manifest \cup {v}
      <4>1. \/ manifest' = manifest
            \/ manifest' = manifest \cup {Version(h, parents, clock + 1)}
        BY <3>1, MergeOne
      <4>2. QED
        BY <2>1, <4>1
    <3>3. v.parents = Hashes(LeafVersions(manifest)) /\ v.date = clock + 1
      <4>1. parents = Hashes(LeafVersions(manifest))
        BY <1>2, <2>1 DEF ILine
      <4>2. QED
        BY <3>2, <4>1, VersionFields
    <3>4. \A w \in manifest : w.date < v.date
      BY <1>2, <3>3 DEF TypeOK
    <3>5. WellFormed(manifest')
      BY <1>2, LineStep DEF ILine
    <3>6. QED
      BY <2>1, <3>2, <3>3, <3>4, <3>5, NewLeaf
  <2>3. CASE ~Commit
    BY <1>2, <2>1, <2>3
    DEF Next, vars, Fetch, Start, Toggle, Filter, Finish, AnswerAlone, AnswerUnknown, Abort
  <2>4. QED
    BY <2>2, <2>3
<1>3. TypeOK /\ ILine /\ [Next]_vars =>
        [\A v \in Committed :
           cmd.given = {} /\ ~touched /\ Cardinality(LeafVersions(manifest)) = 1
             => LeafVersions(manifest') = {v}]_vars
  BY <1>2
<1>4. QED
  BY <1>1, <1>3, LineStep, TypeCorrect, PTL DEF Spec, LineContinues
=============================================================================
