------------------------------ MODULE Parentage ------------------------------
(***************************************************************************)
(* How `dorothy commit' comes by the parents of a version: the flags -p    *)
(* and -P, the version picker, and the two questions that are asked when   *)
(* nothing was picked and when a parent is not in the manifest.            *)
(*                                                                         *)
(* The command has opened the repository before it asks, and holds the     *)
(* lock of its IPFS node until it ends: nothing else changes the manifest  *)
(* meanwhile (module DatasetSync, where a commit has any such parents).    *)
(* The order of the list, its pages and its cursor are left out: the user  *)
(* gets to every version that the filter shows.                            *)
(***************************************************************************)
EXTENDS Manifest

CONSTANTS Hash,     \* hashes of data
          CommitCmd \* flags of the commands: [given, pick], -p and -P

ASSUME ParentageAssumption ==
  CommitCmd \subseteq [given : SUBSET Hash, pick : BOOLEAN]

VARIABLES
  manifest,  \* the repository's manifest
  clock,     \* the date of the latest version
  pc,        \* "idle", or what the command waits for
  cmd,       \* its flags
  chosen,    \* the versions that are ticked in the picker
  shown,     \* the versions that the picker's filter lets through
  filtering, \* the filter is being typed
  parents,   \* what checkParentage returns
  touched,   \* history: the user has ticked or unticked since the picker opened
  agreed     \* history: the questions the user has answered with yes

vars == <<manifest, clock, pc, cmd, chosen, shown, filtering, parents, touched, agreed>>

Version(h, ps, t) == [hash |-> h, author |-> "me", date |-> t, parents |-> ps]
Answer == {"yes", "no", "other"}

\* The picker is open only with something to pick from: space takes the
\* selected item without asking whether there is one.
TypeOK ==
  /\ \A v \in manifest : v.hash \in Hash /\ v.parents \subseteq Hash /\ v.date \in 1..clock
  /\ clock \in Nat
  /\ pc \in {"idle", "picking", "alone", "unknown", "commit"}
  /\ cmd \in [given : SUBSET Hash, pick : BOOLEAN]
  /\ chosen \subseteq manifest /\ shown \subseteq manifest
  /\ filtering \in BOOLEAN /\ touched \in BOOLEAN
  /\ parents \subseteq Hash
  /\ agreed \subseteq {"alone", "unknown"}
  /\ pc \in {"picking", "alone"} => shown # {}

Init ==
  /\ manifest = {} /\ clock = 0 /\ pc = "idle"
  /\ cmd = [given |-> {}, pick |-> FALSE]
  /\ chosen = {} /\ shown = {} /\ filtering = FALSE /\ parents = {}
  /\ touched = FALSE /\ agreed = {}

\* Somebody else's version is fetched; its parents come with it, or before.
\* Clocks differ, so it may be dated before versions that are here already.
Fetch ==
  /\ pc = "idle"
  /\ \E h \in Hash, ps \in SUBSET Hashes(manifest), t \in 1..(clock + 1) :
       LET v == Version(h, ps, t)
       IN /\ ~MergeError(manifest, {v})
          /\ manifest' = Merge(manifest, {v})
          /\ clock' = IF t > clock THEN t ELSE clock
  /\ UNCHANGED <<pc, cmd, chosen, shown, filtering, parents, touched, agreed>>

-----------------------------------------------------------------------------
\* Mutant of PickerOpens: -P opens the picker on an empty manifest too.
PickerOpensOnEmpty(c) == c.pick \/ (manifest # {} /\ c.given = {})

PickerOpens(c) == manifest # {} /\ (c.pick \/ c.given = {})

\* Mutant of Preselected: the test for a fork the wrong way round.
PreselectedForks ==
  IF Cardinality(LeafVersions(manifest)) > 1 THEN LeafVersions(manifest) ELSE {}

\* The leaf is ticked, unless the history has more than one.
Preselected ==
  IF Cardinality(LeafVersions(manifest)) > 1 THEN {} ELSE LeafVersions(manifest)

\* ChooseVersionsWithSelected: a picker that knows nothing of the last one.
OpenPicker ==
  /\ pc' = "picking"
  /\ chosen' = Preselected /\ shown' = manifest /\ filtering' = FALSE
  /\ touched' = FALSE
  /\ UNCHANGED parents

\* The rest of checkParentage: a parent that is not in the manifest is asked about.
CheckUnknown(ps) ==
  /\ parents' = ps
  /\ pc' = IF UnknownCommits(manifest, ps) # {} THEN "unknown" ELSE "commit"
  /\ UNCHANGED <<chosen, shown, filtering>>

Start ==
  /\ pc = "idle"
  /\ \E c \in CommitCmd :
       /\ cmd' = c /\ agreed' = {}
       /\ IF PickerOpens(c) THEN OpenPicker
          ELSE CheckUnknown(c.given) /\ touched' = FALSE
  /\ UNCHANGED <<manifest, clock>>

\* Space; what is typed into the filter does not get here.
Toggle ==
  /\ pc = "picking" /\ ~filtering
  /\ \E v \in shown :
       chosen' = IF v \in chosen THEN chosen \ {v} ELSE chosen \cup {v}
  /\ touched' = TRUE
  /\ UNCHANGED <<manifest, clock, pc, cmd, shown, filtering, parents, agreed>>

\* The list's own filter: a version that it hides stays ticked.  One that
\* lets nothing through is dropped.
Filter ==
  /\ pc = "picking"
  /\ filtering' = ~filtering
  /\ IF filtering THEN shown' \in (SUBSET manifest) \ {{}} ELSE UNCHANGED shown
  /\ UNCHANGED <<manifest, clock, pc, cmd, chosen, parents, touched, agreed>>

\* Mutant of Finish: nothing is asked when nothing is ticked.
FinishAlways ==
  /\ pc = "picking" /\ ~filtering
  /\ CheckUnknown(cmd.given \cup Hashes(chosen))
  /\ UNCHANGED <<manifest, clock, cmd, touched, agreed>>

\* Enter, unless it ends the typing of a filter.  What is ticked is added to
\* the parents given with -p.
Finish ==
  /\ pc = "picking" /\ ~filtering
  /\ IF chosen = {} THEN pc' = "alone" /\ UNCHANGED <<chosen, shown, filtering, parents>>
     ELSE CheckUnknown(cmd.given \cup Hashes(chosen))
  /\ UNCHANGED <<manifest, clock, cmd, touched, agreed>>

\* "No parents selected. Do you want to continue (y/N)".  Anything but yes
\* opens the picker again.
AnswerAlone ==
  /\ pc = "alone"
  /\ \E a \in Answer :
       IF a = "yes" THEN /\ agreed' = agreed \cup {"alone"}
                         /\ CheckUnknown(cmd.given) /\ UNCHANGED touched
       ELSE OpenPicker /\ UNCHANGED agreed
  /\ UNCHANGED <<manifest, clock, cmd>>

\* "Do you want to continue (y/N)", with parents that are not in the
\* manifest: asked until the answer is yes or no.  No ends the command.
AnswerUnknown ==
  /\ pc = "unknown"
  /\ \E a \in Answer :
       /\ pc' = CASE a = "yes" -> "commit" [] a = "no" -> "idle" [] OTHER -> pc
       /\ agreed' = IF a = "yes" THEN agreed \cup {"unknown"} ELSE agreed
  /\ UNCHANGED <<manifest, clock, cmd, chosen, shown, filtering, parents, touched>>

\* Dorothy.Commit.  What was committed before conflicts, and what another
\* version names as its parent would close a cycle.
Commit ==
  /\ pc = "commit" /\ pc' = "idle"
  /\ \E h \in Hash :
       LET v == Version(h, parents, clock + 1)
       IN IF MergeError(manifest, {v}) THEN UNCHANGED <<manifest, clock>>
          ELSE manifest' = Merge(manifest, {v}) /\ clock' = clock + 1
  /\ UNCHANGED <<cmd, chosen, shown, filtering, parents, touched, agreed>>

\* The terminal cannot run the picker, there is no message, the data cannot
\* be added, or the process is killed: ctrl+c does not close the picker.
Abort ==
  /\ pc # "idle" /\ pc' = "idle"
  /\ UNCHANGED <<manifest, clock, cmd, chosen, shown, filtering, parents, touched, agreed>>

Next ==
  \/ Fetch \/ Start \/ Toggle \/ Filter \/ Finish
  \/ AnswerAlone \/ AnswerUnknown \/ Commit \/ Abort

Spec == Init /\ [][Next]_vars

-----------------------------------------------------------------------------
\* What the command has committed in this step.
Committed == IF pc = "commit" THEN manifest' \ manifest ELSE {}

\* A version that does not continue a history which is there, or that names
\* parents which are not, is committed only if the user has said yes to just
\* that in this very command, however often the picker was opened and
\* filtered.  DatasetSync's ParentsKnown rests on it.
AskedFirst ==
  [][\A v \in Committed :
       /\ v.parents = {} /\ manifest # {} => "alone" \in agreed
       /\ UnknownCommits(manifest, v.parents) # {} => "unknown" \in agreed]_vars

\* Who leaves the picker as it opened, though perhaps after unticking
\* everything in an earlier one, continues the line of history: if it had
\* one end, the new version is its one end.
LineContinues ==
  [][\A v \in Committed :
       cmd.given = {} /\ ~touched /\ Cardinality(LeafVersions(manifest)) = 1
         => LeafVersions(manifest') = {v}]_vars
=============================================================================
