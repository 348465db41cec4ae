------------------------- MODULE DatasetSync_proofs -------------------------
(***************************************************************************)
(* Theorems about DatasetSync, for any number of repositories, processes,  *)
(* request slots, versions and commands.                                   *)
(***************************************************************************)
EXTENDS DatasetSync, Manifest_proofs

-----------------------------------------------------------------------------
\* Types

LEMMA DraftType ==
  \A v \in Draft : v.hash \in Hash /\ v.parents \in SUBSET Hash
BY ConstantsAssumption

LEMMA ManifestTypes ==
  ASSUME NEW old \in Manifests, NEW new \in Manifests
  PROVE  /\ Merge(old, new) \in Manifests
         /\ Diff(old, new) \in Manifests
         /\ Hashes(old) \in SUBSET Hash
         /\ Hashes(Diff(old, new)) \in SUBSET Hash
BY DraftType DEF Manifests, Merge, Diff, Hashes

\* Users' versions differ in more than their parents, so a merge has them all.
LEMMA MergeUnion ==
  ASSUME NEW old \in Manifests, NEW new \in Manifests
  PROVE  Merge(old, new) = old \cup new
<1>1. ToldApart(old \cup new)
  BY ConstantsAssumption DEF ToldApart, Manifests
<1>2. QED
  BY <1>1, MergeIsUnion

\* What a handler is about to save.
LEMMA SavedUnion ==
  ASSUME TypeOK, NEW h \in Handler
  PROVE  SavedManifest(h) = hold[h] \cup hnew[h]
BY MergeUnion DEF SavedManifest, TypeOK

\* What the helpers of an action leave of the types of pins and manifests.
LEMMA MergeAndCommitType ==
  ASSUME TypeOK, NEW n \in Node, NEW old \in Manifests, NEW new \in Manifests,
         MergeAndCommit(n, old, new)
  PROVE  pinned' \in [Node -> SUBSET Hash] /\ saved' \in [Node -> SUBSET Manifests]
BY ManifestTypes DEF MergeAndCommit, TypeOK

LEMMA MergeAndCommitFailsType ==
  ASSUME TypeOK, NEW n \in Node, NEW old \in Manifests, NEW new \in Manifests,
         MergeAndCommitFails(n, old, new)
  PROVE  pinned' \in [Node -> SUBSET Hash] /\ saved' \in [Node -> SUBSET Manifests]
<1>1. CASE UNCHANGED pinned
  BY <1>1 DEF MergeAndCommitFails, TypeOK
<1>2. CASE \E v \in Diff(old, new) :
             \E P \in SUBSET (Hashes(Diff(old, new)) \ {v.hash}) :
               pinned' = [pinned EXCEPT ![n] = @ \cup P]
  BY <1>2, ManifestTypes DEF MergeAndCommitFails, TypeOK
<1>3. QED
  BY <1>1, <1>2 DEF MergeAndCommitFails

LEMMA ExitType ==
  ASSUME TypeOK, NEW p, Exit(p)
  PROVE  /\ pc' \in [Proc -> {"idle", "ready", "posted", "answered", "merged", "writing"}]
         /\ cmd' \in [Proc -> Command \cup {"none"}]
         /\ mem' \in [Proc -> Manifests]
         /\ remote' \in [Proc -> Manifests]
BY DEF Exit, TypeOK, Manifests

LEMMA ReleaseType ==
  ASSUME TypeOK, NEW h, Release(h)
  PROVE  /\ hpc' \in [Handler -> {"free", "arrived", "connecting", "recieving", "saving", "rejected"}]
         /\ hclient' \in [Handler -> Proc \cup {NoProc}]
         /\ hwaiting' \in [Handler -> BOOLEAN]
         /\ hold' \in [Handler -> Manifests]
         /\ hnew' \in [Handler -> Manifests]
BY DEF Release, TypeOK, Manifests

LEMMA ReplyErrorType ==
  ASSUME TypeOK, NEW h, ReplyError(h)
  PROVE  TypeOK'
<1>1. CASE hwaiting[h]
  BY <1>1, ExitType, ReleaseType DEF ReplyError, TypeOK, repoVars, serverVars, ipfsVars
<1>2. CASE ~hwaiting[h]
  BY <1>2, ReleaseType DEF ReplyError, TypeOK, repoVars, serverVars, ipfsVars
<1>3. QED
  BY <1>1, <1>2

LEMMA TypeInit == Init => TypeOK
BY ConstantsAssumption DEF Init, TypeOK, Manifests

LEMMA TypeStep == TypeOK /\ [Next]_vars => TypeOK'
<1> SUFFICES ASSUME TypeOK, [Next]_vars PROVE TypeOK'
  OBVIOUS
<1> USE DEF repoVars, procVars, serverVars, handlerVars, ipfsVars
<1>1. ASSUME NEW p \in Proc, Setup(p) PROVE TypeOK'
  <2>1. runs' \in 0..MaxRuns
    BY <1>1, ConstantsAssumption DEF Setup, LoadManifest, TypeOK
  <2>2. cmd' \in [Proc -> Command \cup {"none"}]
    BY <1>1 DEF Setup, LoadManifest, TypeOK
  <2>3. mem' \in [Proc -> Manifests]
    BY <1>1, ConstantsAssumption DEF Setup, LoadManifest, TypeOK
  <2>4. QED
    BY <1>1, <2>1, <2>2, <2>3 DEF Setup, LoadManifest, TypeOK
<1>2. ASSUME NEW p \in Proc, Commit(p) PROVE TypeOK'
  <2>0. RepoOf[p] \in Node /\ mem[p] \in Manifests
    BY ConstantsAssumption DEF TypeOK, Node
  <2>1. PICK v \in Draft :
          \/ /\ MergeAndCommit(RepoOf[p], mem[p], {v})
             /\ mem' = [mem EXCEPT ![p] = Merge(@, {v})]
             /\ pc' = [pc EXCEPT ![p] = "merged"]
             /\ UNCHANGED <<cmd, remote>>
          \/ /\ pinned' = [pinned EXCEPT ![RepoOf[p]] = @ \cup AddPins(p, v.hash)]
             /\ UNCHANGED saved
             /\ Exit(p)
    BY <1>2 DEF Commit
  <2>2. {v} \in Manifests /\ v.hash \in Hash
    BY DraftType DEF Manifests
  <2>3. CASE MergeAndCommit(RepoOf[p], mem[p], {v})
             /\ mem' = [mem EXCEPT ![p] = Merge(@, {v})]
             /\ pc' = [pc EXCEPT ![p] = "merged"]
             /\ UNCHANGED <<cmd, remote>>
    <3>1. Merge(mem[p], {v}) \in Manifests
      BY <2>0, <2>2, ManifestTypes
    <3>2. QED
      BY <1>2, <2>0, <2>2, <2>3, <3>1, MergeAndCommitType DEF Commit, TypeOK
  <2>4. CASE /\ pinned' = [pinned EXCEPT ![RepoOf[p]] = @ \cup AddPins(p, v.hash)]
             /\ UNCHANGED saved
             /\ Exit(p)
    BY <1>2, <2>0, <2>2, <2>4, ExitType DEF Commit, TypeOK, AddPins
  <2>5. QED
    BY <2>1, <2>3, <2>4
<1>3. ASSUME NEW p \in Proc, PostAsset(p) PROVE TypeOK'
  BY <1>3 DEF PostAsset, TypeOK
<1>4. ASSUME NEW p \in Proc, GetAsset(p) PROVE TypeOK'
  BY <1>4 DEF GetAsset, TypeOK
<1>5. ASSUME NEW p \in Proc, MergeRemote(p) PROVE TypeOK'
  <2>0. RepoOf[p] \in Node /\ mem[p] \in Manifests /\ remote[p] \in Manifests
    BY ConstantsAssumption DEF TypeOK, Node
  <2>1. CASE /\ MergeAndCommit(RepoOf[p], mem[p], remote[p])
             /\ mem' = [mem EXCEPT ![p] = Merge(@, remote[p])]
             /\ pc' = [pc EXCEPT ![p] = "merged"]
             /\ UNCHANGED <<cmd, remote>>
    <3>1. Merge(mem[p], remote[p]) \in Manifests
      BY <2>0, ManifestTypes
    <3>2. QED
      BY <1>5, <2>0, <2>1, <3>1, MergeAndCommitType DEF MergeRemote, TypeOK
  <2>2. CASE MergeAndCommitFails(RepoOf[p], mem[p], remote[p]) /\ Exit(p)
    BY <1>5, <2>0, <2>2, MergeAndCommitFailsType, ExitType DEF MergeRemote, TypeOK
  <2>3. QED
    BY <1>5, <2>1, <2>2 DEF MergeRemote
<1>6. ASSUME NEW p \in Proc, Truncate(p) PROVE TypeOK'
  BY <1>6 DEF Truncate, TypeOK, Manifests
<1>7. ASSUME NEW p \in Proc, WriteManifestFile(p) PROVE TypeOK'
  <2>1. mem[p] \in Manifests /\ reported[RepoOf[p]] \cup mem[p] \in Manifests
    BY ConstantsAssumption DEF TypeOK, Manifests
  <2>2. QED
    BY <1>7, <2>1, ExitType DEF WriteManifestFile, TypeOK
<1>8. ASSUME NEW p \in Proc, Stop(p) PROVE TypeOK'
  BY <1>8, ExitType DEF Stop, TypeOK
<1>9. ASSUME NEW h \in Handler, GetDataset(h) PROVE TypeOK'
  BY <1>9 DEF GetDataset, TypeOK
<1>10. ASSUME NEW h \in Handler, ConnectToPeer(h) PROVE TypeOK'
  BY <1>10 DEF ConnectToPeer, TypeOK
<1>11. ASSUME NEW h \in Handler, ReplyError(h) PROVE TypeOK'
  BY <1>11, ReplyErrorType
<1>12. ASSUME NEW h \in Handler, Recieve(h) PROVE TypeOK'
  <2>0. Server \in Node /\ hold[h] \in Manifests /\ hnew[h] \in Manifests
    BY DEF TypeOK, Node
  <2>1. pinned' \in [Node -> SUBSET Hash] /\ saved' \in [Node -> SUBSET Manifests]
    BY <1>12, <2>0, MergeAndCommitType, MergeAndCommitFailsType DEF Recieve
  <2>2. QED
    BY <1>12, <2>1 DEF Recieve, TypeOK
<1>13. ASSUME NEW h \in Handler, SaveDataset(h) PROVE TypeOK'
  <2>1. hold[h] \in Manifests /\ hnew[h] \in Manifests /\ SavedManifest(h) \in Manifests
    BY ManifestTypes DEF TypeOK, SavedManifest
  <2>2. acked \cup hnew[h] \in Manifests
    BY <2>1 DEF TypeOK, Manifests
  <2>3. /\ acked' \in Manifests
        /\ pc' \in [Proc -> {"idle", "ready", "posted", "answered", "merged", "writing"}]
        /\ remote' \in [Proc -> Manifests]
    <3>1. CASE hwaiting[h]
      <4>1. /\ acked' = acked \cup hnew[h]
            /\ pc' = [pc EXCEPT ![hclient[h]] = "answered"]
            /\ remote' = [remote EXCEPT ![hclient[h]] = SavedManifest(h)]
        BY <1>13, <3>1 DEF SaveDataset
      <4>2. QED
        BY <2>1, <2>2, <4>1 DEF TypeOK
    <3>2. CASE ~hwaiting[h]
      BY <1>13, <3>2 DEF SaveDataset, TypeOK
    <3>3. QED
      BY <3>1, <3>2
  <2>4. Release(h) /\ row' \in Manifests
    BY <1>13, <2>1 DEF SaveDataset
  <2>5. QED
    BY <1>13, <2>3, <2>4, ReleaseType DEF SaveDataset, TypeOK
<1>14. CASE ServerRestart
  BY <1>14 DEF ServerRestart, TypeOK, Manifests
<1>15. CASE UNCHANGED vars
  BY <1>15 DEF vars, TypeOK
<1>16. QED
  BY <1>1, <1>2, <1>3, <1>4, <1>5, <1>6, <1>7, <1>8, <1>9, <1>10, <1>11, <1>12, <1>13,
     <1>14, <1>15
  DEF Next, ClientStep, HandlerStep, ConnectToPeerFails, Reject, SaveDatasetFails

\* Every variable keeps its type.
THEOREM TypeCorrect == Spec => []TypeOK
BY TypeInit, TypeStep, PTL DEF Spec

-----------------------------------------------------------------------------
\* Durability

\* Node n has saved manifest m and pinned the data of all its versions.
KeptOn(n, m) == m \in saved[n] /\ Hashes(m) \subseteq pinned[n]

\* Durable speaks of what is published and filed.  To be inductive it takes
\* what may yet be: the manifest a process holds and will write to the file,
\* the one a handler read from the row, and the one it is about to save.
IDurable ==
  /\ \A n \in Node : KeptOn(n, {})
  /\ \A r \in Repo : KeptOn(r, file[r])
  /\ \A p \in Proc : KeptOn(RepoOf[p], mem[p])
  /\ KeptOn(Server, row)
  /\ \A h \in Handler : KeptOn(Server, hold[h])
  /\ \A h \in Handler : hpc[h] = "saving" => KeptOn(Server, SavedManifest(h))

\* No step unpins data or removes a manifest.
LEMMA StoreGrows ==
  ASSUME TypeOK, [Next]_vars, NEW n \in Node
  PROVE  saved[n] \subseteq saved'[n] /\ pinned[n] \subseteq pinned'[n]
<1> USE DEF procVars, repoVars, serverVars, handlerVars, ipfsVars
<1>1. ASSUME NEW k \in Node, NEW old, NEW new, MergeAndCommit(k, old, new)
      PROVE  saved[n] \subseteq saved'[n] /\ pinned[n] \subseteq pinned'[n]
  BY <1>1 DEF MergeAndCommit, TypeOK
<1>2. ASSUME NEW k \in Node, NEW old, NEW new, MergeAndCommitFails(k, old, new)
      PROVE  saved[n] \subseteq saved'[n] /\ pinned[n] \subseteq pinned'[n]
  BY <1>2 DEF MergeAndCommitFails, TypeOK
<1>3. ASSUME NEW p \in Proc, Commit(p)
      PROVE  saved[n] \subseteq saved'[n] /\ pinned[n] \subseteq pinned'[n]
  <2>1. RepoOf[p] \in Node
    BY ConstantsAssumption DEF Node
  <2>2. PICK v : \/ MergeAndCommit(RepoOf[p], mem[p], {v})
                 \/ /\ pinned' = [pinned EXCEPT ![RepoOf[p]] = @ \cup AddPins(p, v.hash)]
                    /\ UNCHANGED saved
    BY <1>3 DEF Commit
  <2>3. QED
    BY <1>1, <2>1, <2>2 DEF TypeOK
<1>4. ASSUME NEW p \in Proc, MergeRemote(p)
      PROVE  saved[n] \subseteq saved'[n] /\ pinned[n] \subseteq pinned'[n]
  BY <1>1, <1>2, <1>4, ConstantsAssumption DEF MergeRemote, Node
<1>5. ASSUME NEW h \in Handler, Recieve(h)
      PROVE  saved[n] \subseteq saved'[n] /\ pinned[n] \subseteq pinned'[n]
  BY <1>1, <1>2, <1>5 DEF Recieve, Node
<1>6. CASE UNCHANGED ipfsVars
  BY <1>6
<1>7. QED
  BY <1>3, <1>4, <1>5, <1>6
  DEF Next, vars, ClientStep, HandlerStep, ConnectToPeerFails, Reject, SaveDatasetFails,
      Setup, LoadManifest, PostAsset, GetAsset, Truncate, WriteManifestFile, Stop, ReplyError,
      GetDataset, ConnectToPeer, SaveDataset, ServerRestart

LEMMA KeptStays ==
  ASSUME TypeOK, [Next]_vars, NEW n \in Node, NEW m, KeptOn(n, m)
  PROVE  KeptOn(n, m)'
BY StoreGrows DEF KeptOn

\* What MergeAndCommit is for.
LEMMA MergeAndCommitKeeps ==
  ASSUME TypeOK, NEW n \in Node, NEW old, NEW new,
         KeptOn(n, old), MergeAndCommit(n, old, new)
  PROVE  KeptOn(n, Merge(old, new))'
<1>1. Merge(old, new) \in saved'[n]
  BY DEF MergeAndCommit, TypeOK
<1>2. Hashes(old) \cup Hashes(Diff(old, new)) \subseteq pinned'[n]
  BY DEF KeptOn, MergeAndCommit, TypeOK
<1>3. QED
  BY <1>1, <1>2, MergeHashes DEF KeptOn

\* A process that ends holds the empty manifest.
LEMMA ExitKeeps ==
  ASSUME TypeOK, IDurable, [Next]_vars, NEW p, Exit(p)
  PROVE  \A q \in Proc : KeptOn(RepoOf[q], mem[q])'
<1>1. SUFFICES ASSUME NEW q \in Proc PROVE KeptOn(RepoOf[q], mem[q])'
  OBVIOUS
<1>2. RepoOf[q] \in Node
  BY ConstantsAssumption DEF Node
<1>3. PICK m : m = mem'[q] /\ KeptOn(RepoOf[q], m)
  <2>1. mem'[q] = mem[q] \/ mem'[q] = {}
    BY DEF Exit, TypeOK
  <2>2. KeptOn(RepoOf[q], mem[q]) /\ KeptOn(RepoOf[q], {})
    BY <1>2 DEF IDurable
  <2>3. QED
    BY <2>1, <2>2
<1>4. KeptOn(RepoOf[q], m)'
  BY <1>2, <1>3, KeptStays
<1>5. QED
  BY <1>3, <1>4 DEF KeptOn

LEMMA DurableInit == Init => IDurable
BY ConstantsAssumption DEF Init, IDurable, KeptOn, Node, Hashes

LEMMA DurableStep == TypeOK /\ IDurable /\ [Next]_vars => IDurable'
<1> SUFFICES ASSUME TypeOK, IDurable, [Next]_vars PROVE IDurable'
  OBVIOUS
<1> USE DEF repoVars, procVars, serverVars, handlerVars, ipfsVars
<1>0. /\ Server \in Node
      /\ \A r \in Repo : r \in Node
      /\ \A p \in Proc : RepoOf[p] \in Repo /\ RepoOf[p] \in Node
  BY ConstantsAssumption DEF Node
\* What a node keeps it keeps on keeping, so each action need only account
\* for the manifests it puts somewhere new.
<1>k. \A n \in Node : \A m : KeptOn(n, m) => m \in saved'[n] /\ Hashes(m) \subseteq pinned'[n]
  BY KeptStays DEF KeptOn
<1>e. /\ \A n \in Node : KeptOn(n, {})'
      /\ file' = file => \A r \in Repo : KeptOn(r, file[r])'
      /\ mem' = mem => \A p \in Proc : KeptOn(RepoOf[p], mem[p])'
      /\ row' = row => KeptOn(Server, row)'
      /\ hold' = hold => \A h \in Handler : KeptOn(Server, hold[h])'
      /\ hpc' = hpc /\ hold' = hold /\ hnew' = hnew =>
           \A h \in Handler : hpc'[h] = "saving" => KeptOn(Server, SavedManifest(h))'
  <2>1. /\ \A n \in Node : KeptOn(n, {})'
        /\ file' = file => \A r \in Repo : KeptOn(r, file[r])'
        /\ mem' = mem => \A p \in Proc : KeptOn(RepoOf[p], mem[p])'
        /\ row' = row => KeptOn(Server, row)'
        /\ hold' = hold => \A h \in Handler : KeptOn(Server, hold[h])'
    BY <1>0, <1>k DEF IDurable, KeptOn
  <2>2. ASSUME hpc' = hpc, hold' = hold, hnew' = hnew, NEW h \in Handler, hpc'[h] = "saving"
        PROVE  KeptOn(Server, SavedManifest(h))'
    <3>1. KeptOn(Server, SavedManifest(h)) /\ SavedManifest(h)' = SavedManifest(h)
      BY <2>2 DEF IDurable, SavedManifest
    <3>2. QED
      BY <1>0, <1>k, <3>1 DEF KeptOn
  <2>3. QED
    BY <2>1, <2>2
<1>1. ASSUME NEW p \in Proc, Setup(p) PROVE IDurable'
  <2>1. ASSUME NEW q \in Proc PROVE KeptOn(RepoOf[q], mem[q])'
    <3>1. mem'[q] = mem[q] \/ mem'[q] = file[RepoOf[q]]
      BY <1>1 DEF Setup, LoadManifest, TypeOK
    <3>2. QED
      BY <1>0, <1>k, <3>1 DEF IDurable, KeptOn
  <2>2. QED
    BY <1>1, <1>e, <2>1 DEF Setup, LoadManifest, IDurable
<1>2. ASSUME NEW p \in Proc, Commit(p) PROVE IDurable'
  <2>1. \A q \in Proc : KeptOn(RepoOf[q], mem[q])'
    <3>1. CASE Exit(p)
      BY <3>1, ExitKeeps
    <3>2. CASE \E v : /\ MergeAndCommit(RepoOf[p], mem[p], {v})
                      /\ mem' = [mem EXCEPT ![p] = Merge(@, {v})]
      <4>1. PICK v : /\ MergeAndCommit(RepoOf[p], mem[p], {v})
                     /\ mem' = [mem EXCEPT ![p] = Merge(@, {v})]
        BY <3>2
      <4>2. PICK m : m = mem[p]
        OBVIOUS
      <4>3. KeptOn(RepoOf[p], Merge(m, {v}))'
        BY <1>0, <4>1, <4>2, MergeAndCommitKeeps DEF IDurable
      <4>4. mem'[p] = Merge(m, {v})
        BY <4>1, <4>2 DEF TypeOK
      <4>5. ASSUME NEW q \in Proc, q # p PROVE mem'[q] = mem[q]
        BY <4>1, <4>5 DEF TypeOK
      <4>6. QED
        BY <1>0, <1>k, <4>3, <4>4, <4>5 DEF IDurable, KeptOn
    <3>3. QED
      BY <1>2, <3>1, <3>2 DEF Commit
  <2>2. QED
    BY <1>2, <1>e, <2>1 DEF Commit, IDurable
<1>3. ASSUME NEW p \in Proc, PostAsset(p) PROVE IDurable'
  <2>1. ASSUME NEW h \in Handler, hpc'[h] = "saving" PROVE KeptOn(Server, SavedManifest(h))'
    <3>1. hpc[h] = "saving" /\ hold'[h] = hold[h] /\ hnew'[h] = hnew[h]
      BY <1>3, <2>1 DEF PostAsset, TypeOK
    <3>2. KeptOn(Server, SavedManifest(h)) /\ SavedManifest(h)' = SavedManifest(h)
      BY <3>1 DEF IDurable, SavedManifest
    <3>3. QED
      BY <1>0, <1>k, <3>2 DEF KeptOn
  <2>2. QED
    BY <1>3, <1>e, <2>1 DEF PostAsset, IDurable
<1>4. ASSUME NEW p \in Proc, GetAsset(p) PROVE IDurable'
  BY <1>4, <1>e DEF GetAsset, IDurable
<1>5. ASSUME NEW p \in Proc, MergeRemote(p) PROVE IDurable'
  <2>1. \A q \in Proc : KeptOn(RepoOf[q], mem[q])'
    <3>1. CASE Exit(p)
      BY <3>1, ExitKeeps
    <3>2. CASE /\ MergeAndCommit(RepoOf[p], mem[p], remote[p])
               /\ mem' = [mem EXCEPT ![p] = Merge(@, remote[p])]
      <4>1. PICK m, s : m = mem[p] /\ s = remote[p]
        OBVIOUS
      <4>2. KeptOn(RepoOf[p], Merge(m, s))'
        BY <1>0, <3>2, <4>1, MergeAndCommitKeeps DEF IDurable
      <4>3. mem'[p] = Merge(m, s)
        BY <3>2, <4>1 DEF TypeOK
      <4>4. ASSUME NEW q \in Proc, q # p PROVE mem'[q] = mem[q]
        BY <3>2, <4>4 DEF TypeOK
      <4>5. QED
        BY <1>0, <1>k, <4>2, <4>3, <4>4 DEF IDurable, KeptOn
    <3>3. QED
      BY <1>5, <3>1, <3>2 DEF MergeRemote
  <2>2. QED
    BY <1>5, <1>e, <2>1 DEF MergeRemote, IDurable
<1>6. ASSUME NEW p \in Proc, Truncate(p) PROVE IDurable'
  <2>1. ASSUME NEW r \in Repo PROVE KeptOn(r, file[r])'
    <3>1. file'[r] = file[r] \/ file'[r] = {}
      BY <1>6 DEF Truncate, TypeOK
    <3>2. QED
      BY <1>0, <1>k, <3>1 DEF IDurable, KeptOn
  <2>2. QED
    BY <1>6, <1>e, <2>1 DEF Truncate, IDurable
<1>7. ASSUME NEW p \in Proc, WriteManifestFile(p) PROVE IDurable'
  <2>1. ASSUME NEW r \in Repo PROVE KeptOn(r, file[r])'
    <3>1. file'[r] = file[r] \/ (r = RepoOf[p] /\ file'[r] = mem[p])
      BY <1>7 DEF WriteManifestFile, TypeOK
    <3>2. QED
      BY <1>0, <1>k, <3>1 DEF IDurable, KeptOn
  <2>2. \A q \in Proc : KeptOn(RepoOf[q], mem[q])'
    BY <1>7, ExitKeeps DEF WriteManifestFile
  <2>3. QED
    BY <1>7, <1>e, <2>1, <2>2 DEF WriteManifestFile, IDurable
<1>8. ASSUME NEW p \in Proc, Stop(p) PROVE IDurable'
  <2>1. \A q \in Proc : KeptOn(RepoOf[q], mem[q])'
    BY <1>8, ExitKeeps DEF Stop
  <2>2. QED
    BY <1>8, <1>e, <2>1 DEF Stop, IDurable
<1>9. ASSUME NEW h \in Handler, GetDataset(h) PROVE IDurable'
  <2>1. ASSUME NEW g \in Handler PROVE KeptOn(Server, hold[g])'
    <3>1. hold'[g] = hold[g] \/ hold'[g] = row
      BY <1>9 DEF GetDataset, TypeOK
    <3>2. QED
      BY <1>0, <1>k, <3>1 DEF IDurable, KeptOn
  <2>2. ASSUME NEW g \in Handler, hpc'[g] = "saving" PROVE KeptOn(Server, SavedManifest(g))'
    <3>1. hpc[g] = "saving" /\ hold'[g] = hold[g] /\ hnew'[g] = hnew[g]
      BY <1>9, <2>2 DEF GetDataset, TypeOK
    <3>2. KeptOn(Server, SavedManifest(g)) /\ SavedManifest(g)' = SavedManifest(g)
      BY <3>1 DEF IDurable, SavedManifest
    <3>3. QED
      BY <1>0, <1>k, <3>2 DEF KeptOn
  <2>3. QED
    BY <1>9, <1>e, <2>1, <2>2 DEF GetDataset, IDurable
<1>10. ASSUME NEW h \in Handler, ConnectToPeer(h) PROVE IDurable'
  <2>1. ASSUME NEW g \in Handler, hpc'[g] = "saving" PROVE KeptOn(Server, SavedManifest(g))'
    <3>1. hpc[g] = "saving" /\ SavedManifest(g)' = SavedManifest(g)
      BY <1>10, <2>1 DEF ConnectToPeer, TypeOK, SavedManifest
    <3>2. QED
      BY <1>0, <1>k, <3>1 DEF IDurable, KeptOn
  <2>2. QED
    BY <1>10, <1>e, <2>1 DEF ConnectToPeer, IDurable
\* A handler that is done, whether it saved or not, leaves the others alone.
<1>r. ASSUME NEW h \in Handler, Release(h)
      PROVE  /\ \A g \in Handler : KeptOn(Server, hold[g])'
             /\ \A g \in Handler : hpc'[g] = "saving" => KeptOn(Server, SavedManifest(g))'
  <2>1. ASSUME NEW g \in Handler PROVE KeptOn(Server, hold[g])'
    <3>1. hold'[g] = hold[g] \/ hold'[g] = {}
      BY <1>r DEF Release, TypeOK
    <3>2. QED
      BY <1>0, <1>k, <3>1 DEF IDurable, KeptOn
  <2>2. ASSUME NEW g \in Handler, hpc'[g] = "saving" PROVE KeptOn(Server, SavedManifest(g))'
    <3>1. hpc[g] = "saving" /\ hold'[g] = hold[g] /\ hnew'[g] = hnew[g]
      BY <1>r, <2>2 DEF Release, TypeOK
    <3>2. KeptOn(Server, SavedManifest(g)) /\ SavedManifest(g)' = SavedManifest(g)
      BY <3>1 DEF IDurable, SavedManifest
    <3>3. QED
      BY <1>0, <1>k, <3>2 DEF KeptOn
  <2>3. QED
    BY <2>1, <2>2
<1>11. ASSUME NEW h \in Handler, ReplyError(h) PROVE IDurable'
  <2>1. \A q \in Proc : KeptOn(RepoOf[q], mem[q])'
    BY <1>11, <1>e, ExitKeeps DEF ReplyError
  <2>2. QED
    BY <1>11, <1>e, <1>r, <2>1 DEF ReplyError, IDurable
<1>12. ASSUME NEW h \in Handler, Recieve(h) PROVE IDurable'
  <2>1. ASSUME NEW g \in Handler, hpc'[g] = "saving" PROVE KeptOn(Server, SavedManifest(g))'
    <3>1. SavedManifest(g)' = SavedManifest(g)
      BY <1>12 DEF Recieve, SavedManifest
    <3>2. CASE g = h
      <4>1. MergeAndCommit(Server, hold[h], hnew[h])
        BY <1>12, <2>1, <3>2 DEF Recieve, TypeOK
      <4>2. PICK m, s : m = hold[h] /\ s = hnew[h]
        OBVIOUS
      <4>3. KeptOn(Server, Merge(m, s))'
        BY <1>0, <4>1, <4>2, MergeAndCommitKeeps DEF IDurable
      <4>4. SavedManifest(g)' = Merge(m, s)
        BY <3>1, <3>2, <4>2 DEF SavedManifest
      <4>5. QED
        BY <4>3, <4>4 DEF KeptOn
    <3>3. CASE g # h
      <4>1. hpc[g] = "saving"
        BY <1>12, <2>1, <3>3 DEF Recieve, TypeOK
      <4>2. QED
        BY <1>0, <1>k, <3>1, <4>1 DEF IDurable, KeptOn
    <3>4. QED
      BY <3>2, <3>3
  <2>2. QED
    BY <1>12, <1>e, <2>1 DEF Recieve, IDurable
<1>13. ASSUME NEW h \in Handler, SaveDataset(h) PROVE IDurable'
  <2>1. KeptOn(Server, row)'
    <3>1. KeptOn(Server, SavedManifest(h)) /\ row' = SavedManifest(h)
      BY <1>13 DEF SaveDataset, IDurable
    <3>2. QED
      BY <1>0, <1>k, <3>1 DEF KeptOn
  <2>2. QED
    BY <1>13, <1>e, <1>r, <2>1 DEF SaveDataset, IDurable
<1>14. CASE ServerRestart
  <2>1. ASSUME NEW q \in Proc PROVE KeptOn(RepoOf[q], mem[q])'
    <3>1. mem'[q] = mem[q] \/ mem'[q] = {}
      BY <1>14 DEF ServerRestart
    <3>2. QED
      BY <1>0, <1>k, <3>1 DEF IDurable, KeptOn
  <2>2. \A h \in Handler : hold'[h] = {} /\ hpc'[h] = "free"
    BY <1>14 DEF ServerRestart
  <2>3. \A h \in Handler : KeptOn(Server, hold[h])'
    BY <1>0, <1>k, <2>2 DEF IDurable, KeptOn
  <2>4. QED
    BY <1>14, <1>e, <2>1, <2>2, <2>3 DEF ServerRestart, IDurable
<1>15. CASE UNCHANGED vars
  BY <1>15, <1>e DEF vars, IDurable
<1>16. QED
  BY <1>1, <1>2, <1>3, <1>4, <1>5, <1>6, <1>7, <1>8, <1>9, <1>10, <1>11, <1>12, <1>13,
     <1>14, <1>15
  DEF Next, ClientStep, HandlerStep, ConnectToPeerFails, Reject, SaveDatasetFails

\* Whatever the server publishes, and whatever a repository's manifest file
\* names, is saved and pinned by its own IPFS node: with any number of
\* processes, overlapping pushes, --global repositories, crashes and restarts.
THEOREM DurableCorrect == Spec => []Durable
<1>1. IDurable => Durable
  BY DEF IDurable, Durable, KeptOn
<1>2. QED
  BY <1>1, TypeCorrect, DurableInit, DurableStep, PTL DEF Spec

-----------------------------------------------------------------------------
\* Well-formed histories

\* HistoriesWellFormed, extended to every manifest on its way to a file or to
\* the row.
IWell ==
  /\ WellFormed(row)
  /\ \A r \in Repo : WellFormed(file[r])
  /\ \A p \in Proc : WellFormed(mem[p]) /\ WellFormed(remote[p])
  /\ \A h \in Handler : WellFormed(hold[h]) /\ WellFormed(hnew[h])
  /\ \A h \in Handler : hpc[h] = "saving" => WellFormed(SavedManifest(h))

LEMMA WellInit == Init => IWell
BY EmptyWellFormed DEF Init, IWell

LEMMA ExitWell ==
  ASSUME TypeOK, IWell, NEW p, Exit(p)
  PROVE  \A q \in Proc : WellFormed(mem'[q]) /\ WellFormed(remote'[q])
BY EmptyWellFormed DEF Exit, TypeOK, IWell

LEMMA ReleaseWell ==
  ASSUME TypeOK, IWell, NEW h, Release(h)
  PROVE  /\ \A g \in Handler : WellFormed(hold'[g]) /\ WellFormed(hnew'[g])
         /\ \A g \in Handler : hpc'[g] = "saving" => WellFormed(SavedManifest(g)')
<1>1. \A g \in Handler : WellFormed(hold'[g]) /\ WellFormed(hnew'[g])
  BY EmptyWellFormed DEF Release, TypeOK, IWell
<1>2. ASSUME NEW g \in Handler, hpc'[g] = "saving"
      PROVE  WellFormed(SavedManifest(g)')
  <2>1. hpc[g] = "saving" /\ hold'[g] = hold[g] /\ hnew'[g] = hnew[g]
    BY <1>2 DEF Release, TypeOK
  <2>2. SavedManifest(g)' = SavedManifest(g)
    BY <2>1 DEF SavedManifest
  <2>3. QED
    BY <2>1, <2>2 DEF IWell
<1>3. QED
  BY <1>1, <1>2

LEMMA WellStep == TypeOK /\ IWell /\ [Next]_vars => IWell'
<1> SUFFICES ASSUME TypeOK, IWell, [Next]_vars PROVE IWell'
  OBVIOUS
<1> USE DEF repoVars, procVars, serverVars, handlerVars, ipfsVars
<1>m. ASSUME NEW old, NEW new, WellFormed(old), UniqueHash(new), ~MergeError(old, new)
      PROVE  WellFormed(Merge(old, new))
  BY <1>m, MergeWellFormed DEF WellFormed
\* A handler that does not get to "saving" has the same to save as before.
<1>s. ASSUME \A h \in Handler : hpc'[h] = "saving" =>
                 hpc[h] = "saving" /\ hold'[h] = hold[h] /\ hnew'[h] = hnew[h]
      PROVE  \A h \in Handler : hpc'[h] = "saving" => WellFormed(SavedManifest(h)')
  BY <1>s DEF IWell, SavedManifest
<1>1. ASSUME NEW p \in Proc, Setup(p) PROVE IWell'
  <2>1. \A q \in Proc : WellFormed(mem'[q])
    BY <1>1, ConstantsAssumption DEF Setup, LoadManifest, TypeOK, IWell
  <2>2. QED
    BY <1>1, <1>s, <2>1 DEF Setup, LoadManifest, IWell
<1>2. ASSUME NEW p \in Proc, Commit(p) PROVE IWell'
  <2>1. \A q \in Proc : WellFormed(mem'[q]) /\ WellFormed(remote'[q])
    <3>1. CASE Exit(p)
      BY <3>1, ExitWell
    <3>2. CASE \E v : /\ MergeAndCommit(RepoOf[p], mem[p], {v})
                      /\ mem' = [mem EXCEPT ![p] = Merge(@, {v})]
                      /\ UNCHANGED remote
      <4>1. PICK v : /\ MergeAndCommit(RepoOf[p], mem[p], {v})
                     /\ mem' = [mem EXCEPT ![p] = Merge(@, {v})]
                     /\ UNCHANGED remote
        BY <3>2
      <4>2. WellFormed(Merge(mem[p], {v}))
        BY <1>m, <4>1, SingletonUnique DEF IWell, MergeAndCommit
      <4>3. QED
        BY <4>1, <4>2 DEF TypeOK, IWell
    <3>3. QED
      BY <1>2, <3>1, <3>2 DEF Commit
  <2>2. QED
    BY <1>2, <1>s, <2>1 DEF Commit, IWell
<1>3. ASSUME NEW p \in Proc, PostAsset(p) PROVE IWell'
  <2>1. \A h \in Handler : WellFormed(hnew'[h])
    BY <1>3 DEF PostAsset, TypeOK, IWell
  <2>2. \A h \in Handler : hpc'[h] = "saving" =>
          hpc[h] = "saving" /\ hold'[h] = hold[h] /\ hnew'[h] = hnew[h]
    BY <1>3 DEF PostAsset, TypeOK
  <2>3. QED
    BY <1>3, <1>s, <2>1, <2>2 DEF PostAsset, IWell
<1>4. ASSUME NEW p \in Proc, GetAsset(p) PROVE IWell'
  <2>1. \A q \in Proc : WellFormed(remote'[q])
    BY <1>4 DEF GetAsset, TypeOK, IWell
  <2>2. QED
    BY <1>4, <1>s, <2>1 DEF GetAsset, IWell
<1>5. ASSUME NEW p \in Proc, MergeRemote(p) PROVE IWell'
  <2>1. \A q \in Proc : WellFormed(mem'[q]) /\ WellFormed(remote'[q])
    <3>1. CASE Exit(p)
      BY <3>1, ExitWell
    <3>2. CASE /\ MergeAndCommit(RepoOf[p], mem[p], remote[p])
               /\ mem' = [mem EXCEPT ![p] = Merge(@, remote[p])]
               /\ UNCHANGED remote
      <4>1. WellFormed(Merge(mem[p], remote[p]))
        BY <1>m, <3>2 DEF IWell, MergeAndCommit, WellFormed
      <4>2. QED
        BY <3>2, <4>1 DEF TypeOK, IWell
    <3>3. QED
      BY <1>5, <3>1, <3>2 DEF MergeRemote
  <2>2. QED
    BY <1>5, <1>s, <2>1 DEF MergeRemote, IWell
<1>6. ASSUME NEW p \in Proc, Truncate(p) PROVE IWell'
  <2>1. \A r \in Repo : WellFormed(file'[r])
    BY <1>6, EmptyWellFormed DEF Truncate, TypeOK, IWell
  <2>2. QED
    BY <1>6, <1>s, <2>1 DEF Truncate, IWell
<1>7. ASSUME NEW p \in Proc, WriteManifestFile(p) PROVE IWell'
  <2>1. \A r \in Repo : WellFormed(file'[r])
    BY <1>7 DEF WriteManifestFile, TypeOK, IWell
  <2>2. \A q \in Proc : WellFormed(mem'[q]) /\ WellFormed(remote'[q])
    BY <1>7, ExitWell DEF WriteManifestFile
  <2>3. QED
    BY <1>7, <1>s, <2>1, <2>2 DEF WriteManifestFile, IWell
<1>8. ASSUME NEW p \in Proc, Stop(p) PROVE IWell'
  <2>1. \A q \in Proc : WellFormed(mem'[q]) /\ WellFormed(remote'[q])
    BY <1>8, ExitWell DEF Stop
  <2>2. QED
    BY <1>8, <1>s, <2>1 DEF Stop, IWell
<1>9. ASSUME NEW h \in Handler, GetDataset(h) PROVE IWell'
  <2>1. \A g \in Handler : WellFormed(hold'[g])
    BY <1>9 DEF GetDataset, TypeOK, IWell
  <2>2. \A g \in Handler : hpc'[g] = "saving" =>
          hpc[g] = "saving" /\ hold'[g] = hold[g] /\ hnew'[g] = hnew[g]
    BY <1>9 DEF GetDataset, TypeOK
  <2>3. QED
    BY <1>9, <1>s, <2>1, <2>2 DEF GetDataset, IWell
<1>10. ASSUME NEW h \in Handler, ConnectToPeer(h) PROVE IWell'
  <2>1. \A g \in Handler : hpc'[g] = "saving" => hpc[g] = "saving"
    BY <1>10 DEF ConnectToPeer, TypeOK
  <2>2. QED
    BY <1>10, <1>s, <2>1 DEF ConnectToPeer, IWell
<1>11. ASSUME NEW h \in Handler, ReplyError(h) PROVE IWell'
  <2>1. \A q \in Proc : WellFormed(mem'[q]) /\ WellFormed(remote'[q])
    BY <1>11, ExitWell DEF ReplyError, IWell
  <2>2. QED
    BY <1>11, <2>1, ReleaseWell DEF ReplyError, IWell
<1>12. ASSUME NEW h \in Handler, Recieve(h) PROVE IWell'
  <2>1. ASSUME NEW g \in Handler, hpc'[g] = "saving" PROVE WellFormed(SavedManifest(g)')
    <3>1. SavedManifest(g)' = SavedManifest(g)
      BY <1>12 DEF Recieve, SavedManifest
    <3>2. CASE g = h
      <4>1. MergeAndCommit(Server, hold[h], hnew[h])
        BY <1>12, <2>1, <3>2 DEF Recieve, TypeOK
      <4>2. WellFormed(Merge(hold[h], hnew[h]))
        BY <1>m, <4>1 DEF IWell, MergeAndCommit, WellFormed
      <4>3. QED
        BY <3>1, <3>2, <4>2 DEF SavedManifest
    <3>3. CASE g # h
      BY <1>12, <2>1, <3>1, <3>3 DEF Recieve, TypeOK, IWell
    <3>4. QED
      BY <3>2, <3>3
  <2>2. QED
    BY <1>12, <2>1 DEF Recieve, IWell
<1>13. ASSUME NEW h \in Handler, SaveDataset(h) PROVE IWell'
  <2>1. WellFormed(row') /\ WellFormed(SavedManifest(h))
    BY <1>13 DEF SaveDataset, IWell
  <2>2. \A q \in Proc : WellFormed(remote'[q])
    <3>1. CASE hwaiting[h]
      <4>1. remote' = [remote EXCEPT ![hclient[h]] = SavedManifest(h)]
        BY <1>13, <3>1 DEF SaveDataset
      <4>2. QED
        BY <2>1, <4>1 DEF TypeOK, IWell
    <3>2. CASE ~hwaiting[h]
      BY <1>13, <3>2 DEF SaveDataset, IWell
    <3>3. QED
      BY <3>1, <3>2
  <2>3. Release(h) /\ UNCHANGED <<file, mem>>
    BY <1>13 DEF SaveDataset
  <2>4. QED
    BY <2>1, <2>2, <2>3, ReleaseWell DEF IWell
<1>14. CASE ServerRestart
  BY <1>14, EmptyWellFormed DEF ServerRestart, IWell
<1>15. CASE UNCHANGED vars
  BY <1>15, <1>s DEF vars, IWell
<1>16. QED
  BY <1>1, <1>2, <1>3, <1>4, <1>5, <1>6, <1>7, <1>8, <1>9, <1>10, <1>11, <1>12, <1>13,
     <1>14, <1>15
  DEF Next, ClientStep, HandlerStep, ConnectToPeerFails, Reject, SaveDatasetFails

LEMMA WellCorrect == Spec => []IWell
BY TypeCorrect, WellInit, WellStep, PTL DEF Spec

\* Every history has one version per data hash and can be sorted, whatever
\* the clocks showed, whichever parents users named, and whoever pushed when.
THEOREM HistoriesWellFormedCorrect == Spec => []HistoriesWellFormed
<1>1. IWell => HistoriesWellFormed
  BY DEF IWell, HistoriesWellFormed
<1>2. QED
  BY <1>1, WellCorrect, PTL

-----------------------------------------------------------------------------
\* Retries

\* RetryNotRejected is inductive given that what the server has loaded is
\* well-formed: merging a part of a well-formed manifest cannot fail.
LEMMA RetryStep == TypeOK /\ IWell /\ RetryNotRejected /\ [Next]_vars => RetryNotRejected'
<1> SUFFICES ASSUME TypeOK, IWell, RetryNotRejected, [Next]_vars,
                    NEW g \in Handler, hpc'[g] = "rejected"
             PROVE  ~(hnew'[g] \subseteq hold'[g])
  BY DEF RetryNotRejected
<1> USE DEF repoVars, procVars, serverVars, handlerVars, ipfsVars
<1>1. CASE hpc[g] = "rejected" /\ hnew'[g] = hnew[g] /\ hold'[g] = hold[g]
  BY <1>1 DEF RetryNotRejected
<1>2. CASE Recieve(g)
  <2>1. MergeAndCommitFails(Server, hold[g], hnew[g])
    BY <1>2 DEF Recieve, TypeOK
  <2>2. MergeError(hold[g], hnew[g]) \/ Diff(hold[g], hnew[g]) # {}
    BY <2>1 DEF MergeAndCommitFails
  <2>3. ~(hnew[g] \subseteq hold[g])
    BY <2>2, MergeOfPart DEF IWell
  <2>4. QED
    BY <1>2, <2>3 DEF Recieve
<1>3. \/ hpc[g] = "rejected" /\ hnew'[g] = hnew[g] /\ hold'[g] = hold[g]
      \/ Recieve(g)
  <2>1. ASSUME NEW p \in Proc, PostAsset(p)
        PROVE  hpc[g] = "rejected" /\ hnew'[g] = hnew[g] /\ hold'[g] = hold[g]
    BY <2>1 DEF PostAsset, TypeOK
  <2>2. ASSUME NEW h \in Handler, Recieve(h), h # g
        PROVE  hpc[g] = "rejected" /\ hnew'[g] = hnew[g] /\ hold'[g] = hold[g]
    BY <2>2 DEF Recieve, TypeOK
  <2>3. ASSUME NEW h \in Handler, GetDataset(h) \/ ConnectToPeer(h)
        PROVE  hpc[g] = "rejected" /\ hnew'[g] = hnew[g] /\ hold'[g] = hold[g]
    BY <2>3 DEF GetDataset, ConnectToPeer, TypeOK
  <2>4. ASSUME NEW h \in Handler, Release(h)
        PROVE  hpc[g] = "rejected" /\ hnew'[g] = hnew[g] /\ hold'[g] = hold[g]
    BY <2>4 DEF Release, TypeOK
  <2>5. ~ServerRestart
    BY DEF ServerRestart
  <2>6. CASE UNCHANGED <<hpc, hold, hnew>>
    BY <2>6
  <2>7. QED
    BY <2>1, <2>2, <2>3, <2>4, <2>5, <2>6
    DEF Next, vars, ClientStep, HandlerStep, ConnectToPeerFails, Reject, SaveDatasetFails,
        Setup, LoadManifest, Commit, GetAsset, MergeRemote, Truncate, WriteManifestFile, Stop,
        ReplyError, SaveDataset
<1>4. QED
  BY <1>1, <1>2, <1>3

\* A push of nothing new is never rejected, so a client whose answer was lost
\* may push again.
THEOREM RetryNotRejectedCorrect == Spec => []RetryNotRejected
<1>1. Init => RetryNotRejected
  BY DEF Init, RetryNotRejected
<1>2. QED
  BY <1>1, RetryStep, TypeCorrect, WellCorrect, PTL DEF Spec

-----------------------------------------------------------------------------
\* What DatasetSync's users are told: what was reported, acknowledged or
\* answered is there and stays there; and DatasetSync, with repositories that
\* are not shared without a lock and one push at a time, implements
\* VersionHistory.

\* A client that a handler works for is still where PostAsset left it, with
\* the manifest that it has sent, and no other handler works for it.
IAnswer ==
  /\ \A h \in Handler : hwaiting[h] =>
       /\ hclient[h] \in Proc
       /\ pc[hclient[h]] = "posted" /\ cmd[hclient[h]] = "push"
       /\ mem[hclient[h]] = hnew[h]
  /\ \A g, h \in Handler : hwaiting[g] /\ hwaiting[h] /\ hclient[g] = hclient[h] => g = h
  /\ \A p \in Proc : pc[p] = "answered" /\ cmd[p] = "push" => mem[p] \subseteq remote[p]

LEMMA AnswerStep == TypeOK /\ IAnswer /\ [Next]_vars => IAnswer'
<1> SUFFICES ASSUME TypeOK, IAnswer, [Next]_vars PROVE IAnswer'
  OBVIOUS
<1> USE DEF repoVars, procVars, serverVars, handlerVars, ipfsVars
\* A process that no handler works for may do as it likes.
<1>p. ASSUME NEW p \in Proc, \A h \in Handler : ~(hwaiting[h] /\ hclient[h] = p),
             UNCHANGED <<hclient, hwaiting, hnew>>,
             \A q \in Proc \ {p} : /\ pc'[q] = pc[q] /\ cmd'[q] = cmd[q]
                                   /\ mem'[q] = mem[q] /\ remote'[q] = remote[q],
             ~(pc'[p] = "answered" /\ cmd'[p] = "push")
      PROVE  IAnswer'
  BY <1>p DEF IAnswer
<1>n. ASSUME NEW p \in Proc, pc[p] # "posted"
      PROVE  \A h \in Handler : ~(hwaiting[h] /\ hclient[h] = p)
  BY <1>n DEF IAnswer
<1>1. ASSUME NEW p \in Proc, Setup(p) PROVE IAnswer'
  <2>1. pc[p] # "posted" /\ pc'[p] = "ready"
    BY <1>1 DEF Setup, TypeOK
  <2>2. \A q \in Proc \ {p} : /\ pc'[q] = pc[q] /\ cmd'[q] = cmd[q]
                              /\ mem'[q] = mem[q] /\ remote'[q] = remote[q]
    BY <1>1 DEF Setup, LoadManifest, TypeOK
  <2>3. QED
    BY <1>1, <1>n, <1>p, <2>1, <2>2 DEF Setup
<1>2. ASSUME NEW p \in Proc, Commit(p) PROVE IAnswer'
  <2>1. pc[p] # "posted" /\ pc'[p] # "answered"
    BY <1>2 DEF Commit, Exit, TypeOK
  <2>2. \A q \in Proc \ {p} : /\ pc'[q] = pc[q] /\ cmd'[q] = cmd[q]
                              /\ mem'[q] = mem[q] /\ remote'[q] = remote[q]
    BY <1>2 DEF Commit, Exit, TypeOK
  <2>3. QED
    BY <1>2, <1>n, <1>p, <2>1, <2>2 DEF Commit
<1>3. ASSUME NEW p \in Proc, PostAsset(p) PROVE IAnswer'
  <2>1. PICK h \in Handler :
          /\ hclient' = [hclient EXCEPT ![h] = p]
          /\ hwaiting' = [hwaiting EXCEPT ![h] = TRUE]
          /\ hnew' = [hnew EXCEPT ![h] = mem[p]]
    BY <1>3 DEF PostAsset
  <2>2. /\ pc[p] = "ready" /\ cmd[p] = "push"
        /\ pc' = [pc EXCEPT ![p] = "posted"]
        /\ UNCHANGED <<cmd, mem, remote>>
    BY <1>3 DEF PostAsset
  <2>3. \A g \in Handler : ~(hwaiting[g] /\ hclient[g] = p)
    BY <1>n, <2>2
  <2>4. ASSUME NEW g \in Handler, hwaiting'[g]
        PROVE  /\ hclient'[g] \in Proc
               /\ pc'[hclient'[g]] = "posted" /\ cmd'[hclient'[g]] = "push"
               /\ mem'[hclient'[g]] = hnew'[g]
    BY <2>1, <2>2, <2>3, <2>4 DEF IAnswer, TypeOK
  <2>5. ASSUME NEW f \in Handler, NEW g \in Handler,
               hwaiting'[f], hwaiting'[g], hclient'[f] = hclient'[g]
        PROVE  f = g
    BY <2>1, <2>3, <2>5 DEF IAnswer, TypeOK
  <2>6. ASSUME NEW q \in Proc, pc'[q] = "answered", cmd'[q] = "push"
        PROVE  mem'[q] \subseteq remote'[q]
    BY <2>2, <2>6 DEF IAnswer, TypeOK
  <2>7. QED
    BY <2>4, <2>5, <2>6 DEF IAnswer
<1>4. ASSUME NEW p \in Proc, GetAsset(p) PROVE IAnswer'
  <2>1. pc[p] # "posted" /\ cmd'[p] # "push"
    BY <1>4 DEF GetAsset
  <2>2. \A q \in Proc \ {p} : /\ pc'[q] = pc[q] /\ cmd'[q] = cmd[q]
                              /\ mem'[q] = mem[q] /\ remote'[q] = remote[q]
    BY <1>4 DEF GetAsset, TypeOK
  <2>3. QED
    BY <1>4, <1>n, <1>p, <2>1, <2>2 DEF GetAsset
<1>5. ASSUME NEW p \in Proc, MergeRemote(p) PROVE IAnswer'
  <2>1. pc[p] # "posted" /\ pc'[p] # "answered"
    BY <1>5 DEF MergeRemote, Exit, TypeOK
  <2>2. \A q \in Proc \ {p} : /\ pc'[q] = pc[q] /\ cmd'[q] = cmd[q]
                              /\ mem'[q] = mem[q] /\ remote'[q] = remote[q]
    BY <1>5 DEF MergeRemote, Exit, TypeOK
  <2>3. QED
    BY <1>5, <1>n, <1>p, <2>1, <2>2 DEF MergeRemote
<1>6. ASSUME NEW p \in Proc, Truncate(p) PROVE IAnswer'
  <2>1. pc[p] # "posted" /\ pc'[p] # "answered"
    BY <1>6 DEF Truncate, TypeOK
  <2>2. \A q \in Proc \ {p} : /\ pc'[q] = pc[q] /\ cmd'[q] = cmd[q]
                              /\ mem'[q] = mem[q] /\ remote'[q] = remote[q]
    BY <1>6 DEF Truncate, TypeOK
  <2>3. QED
    BY <1>6, <1>n, <1>p, <2>1, <2>2 DEF Truncate
<1>7. ASSUME NEW p \in Proc, WriteManifestFile(p) PROVE IAnswer'
  <2>1. pc[p] # "posted" /\ pc'[p] # "answered"
    BY <1>7 DEF WriteManifestFile, Exit, TypeOK
  <2>2. \A q \in Proc \ {p} : /\ pc'[q] = pc[q] /\ cmd'[q] = cmd[q]
                              /\ mem'[q] = mem[q] /\ remote'[q] = remote[q]
    BY <1>7 DEF WriteManifestFile, Exit, TypeOK
  <2>3. QED
    BY <1>7, <1>n, <1>p, <2>1, <2>2 DEF WriteManifestFile
<1>8. ASSUME NEW p \in Proc, Stop(p) PROVE IAnswer'
  <2>1. /\ \A h \in Handler : hwaiting'[h] => hwaiting[h] /\ hclient[h] # p
        /\ UNCHANGED <<hclient, hnew>>
    BY <1>8 DEF Stop
  <2>2. /\ pc'[p] # "answered"
        /\ \A q \in Proc \ {p} : /\ pc'[q] = pc[q] /\ cmd'[q] = cmd[q]
                                 /\ mem'[q] = mem[q] /\ remote'[q] = remote[q]
    BY <1>8 DEF Stop, Exit, TypeOK
  <2>3. QED
    BY <2>1, <2>2 DEF IAnswer
\* A handler that answers works for its client no more.
<1>r. ASSUME NEW h \in Handler, Release(h)
      PROVE  \A g \in Handler : hwaiting'[g] =>
               /\ hwaiting[g] /\ g # h
               /\ hclient'[g] = hclient[g] /\ hnew'[g] = hnew[g]
  BY <1>r DEF Release, TypeOK
<1>9. ASSUME NEW h \in Handler, GetDataset(h) PROVE IAnswer'
  BY <1>9 DEF GetDataset, IAnswer
<1>10. ASSUME NEW h \in Handler, ConnectToPeer(h) PROVE IAnswer'
  BY <1>10 DEF ConnectToPeer, IAnswer
<1>11. ASSUME NEW h \in Handler, ReplyError(h) PROVE IAnswer'
  <2>1. CASE hwaiting[h]
    <3>1. /\ hclient[h] \in Proc /\ pc'[hclient[h]] # "answered"
          /\ \A q \in Proc \ {hclient[h]} :
               /\ pc'[q] = pc[q] /\ cmd'[q] = cmd[q]
               /\ mem'[q] = mem[q] /\ remote'[q] = remote[q]
      BY <1>11, <2>1 DEF ReplyError, Exit, TypeOK, IAnswer
    <3>2. QED
      BY <1>11, <1>r, <2>1, <3>1 DEF ReplyError, IAnswer
  <2>2. CASE ~hwaiting[h]
    BY <1>11, <1>r, <2>2 DEF ReplyError, IAnswer
  <2>3. QED
    BY <2>1, <2>2
<1>12. ASSUME NEW h \in Handler, Recieve(h) PROVE IAnswer'
  BY <1>12 DEF Recieve, IAnswer
<1>13. ASSUME NEW h \in Handler, SaveDataset(h) PROVE IAnswer'
  <2>1. Release(h) /\ UNCHANGED <<cmd, mem>>
    BY <1>13 DEF SaveDataset
  <2>2. CASE hwaiting[h]
    <3>1. /\ hclient[h] \in Proc
          /\ pc' = [pc EXCEPT ![hclient[h]] = "answered"]
          /\ remote' = [remote EXCEPT ![hclient[h]] = SavedManifest(h)]
      BY <1>13, <2>2 DEF SaveDataset, IAnswer
    <3>2. mem[hclient[h]] \subseteq SavedManifest(h)
      BY <2>2, SavedUnion DEF IAnswer
    <3>3. ASSUME NEW g \in Handler, hwaiting'[g]
          PROVE  pc'[hclient'[g]] = pc[hclient[g]] /\ hclient'[g] = hclient[g]
      BY <1>r, <2>1, <2>2, <3>1, <3>3 DEF IAnswer, TypeOK
    <3>4. ASSUME NEW q \in Proc, pc'[q] = "answered", cmd'[q] = "push"
          PROVE  mem'[q] \subseteq remote'[q]
      BY <2>1, <3>1, <3>2, <3>4 DEF IAnswer, TypeOK
    <3>5. QED
      BY <1>r, <2>1, <3>3, <3>4 DEF IAnswer
  <2>3. CASE ~hwaiting[h]
    BY <1>13, <1>r, <2>1, <2>3 DEF SaveDataset, IAnswer
  <2>4. QED
    BY <2>2, <2>3
<1>14. CASE ServerRestart
  BY <1>14 DEF ServerRestart, IAnswer
<1>15. CASE UNCHANGED vars
  BY <1>15 DEF vars, IAnswer
<1>16. QED
  BY <1>1, <1>2, <1>3, <1>4, <1>5, <1>6, <1>7, <1>8, <1>9, <1>10, <1>11, <1>12, <1>13,
     <1>14, <1>15
  DEF Next, ClientStep, HandlerStep, ConnectToPeerFails, Reject, SaveDatasetFails

LEMMA AnswerCorrect == Spec => []IAnswer
<1>1. Init => IAnswer
  BY DEF Init, IAnswer
<1>2. QED
  BY <1>1, AnswerStep, TypeCorrect, PTL DEF Spec

\* A push that the server took is answered with a manifest that holds what
\* was pushed and can be merged, however many pushes overlap, and whoever
\* was killed.
THEOREM AcceptedPushMergesCorrect == Spec => []AcceptedPushMerges
<1>1. IAnswer /\ IWell => AcceptedPushMerges
  BY DEF IAnswer, IWell, AcceptedPushMerges
<1>2. QED
  BY <1>1, AnswerCorrect, WellCorrect, PTL

-----------------------------------------------------------------------------
\* What a repository has reported

\* The assumption of what follows: several processes share a repository only
\* if it has an IPFS node of its own, with a lock.
NoSharing ==
  \A p, q \in Proc : p # q /\ RepoOf[p] = RepoOf[q] => RepoOf[p] \notin GlobalIpfs

\* The lock keeps a repository to one process.  It holds all that the file
\* names, and, once it has truncated the file, all that was reported: only
\* the process that is about to write it leaves a torn file.
ILocal ==
  /\ \A p, q \in Proc : p # q /\ RepoOf[p] = RepoOf[q] => pc[p] = "idle" \/ pc[q] = "idle"
  /\ \A p \in Proc : pc[p] \notin {"idle", "writing"} =>
       ~torn[RepoOf[p]] /\ file[RepoOf[p]] \subseteq mem[p]
  /\ \A p \in Proc : pc[p] = "writing" => reported[RepoOf[p]] \subseteq mem[p]
  /\ \A r \in Repo : ~torn[r] => reported[r] \subseteq file[r]

LEMMA LocalStep ==
  NoSharing /\ TypeOK /\ IAnswer /\ ILocal /\ [Next]_vars => ILocal'
<1> SUFFICES ASSUME NoSharing, TypeOK, IAnswer, ILocal, [Next]_vars PROVE ILocal'
  OBVIOUS
<1> USE DEF repoVars, procVars, serverVars, handlerVars, ipfsVars
<1>0. \A p \in Proc : RepoOf[p] \in Repo
  BY ConstantsAssumption
\* Processes that end, or go on holding no less than before, disturb nothing.
<1>p. ASSUME UNCHANGED repoVars,
             \A q \in Proc : \/ pc'[q] = "idle"
                             \/ /\ pc[q] # "idle" /\ (pc'[q] = "writing" <=> pc[q] = "writing")
                                /\ mem[q] \subseteq mem'[q]
      PROVE  ILocal'
  <2>1. \A p, q \in Proc : p # q /\ RepoOf[p] = RepoOf[q] => pc'[p] = "idle" \/ pc'[q] = "idle"
    BY <1>p DEF ILocal
  <2>2. ASSUME NEW q \in Proc, pc'[q] \notin {"idle", "writing"}
        PROVE  ~torn'[RepoOf[q]] /\ file'[RepoOf[q]] \subseteq mem'[q]
    BY <1>p, <2>2 DEF ILocal
  <2>3. ASSUME NEW q \in Proc, pc'[q] = "writing"
        PROVE  reported'[RepoOf[q]] \subseteq mem'[q]
    BY <1>p, <2>3 DEF ILocal
  <2>4. QED
    BY <1>p, <2>1, <2>2, <2>3 DEF ILocal
<1>1. ASSUME NEW p \in Proc, Setup(p) PROVE ILocal'
  <2>1. /\ pc[p] = "idle" /\ ~torn[RepoOf[p]] /\ UNCHANGED repoVars
        /\ pc' = [pc EXCEPT ![p] = "ready"]
        /\ mem' = [mem EXCEPT ![p] = file[RepoOf[p]]]
        /\ \A q \in Proc \ {p} : RepoOf[q] = RepoOf[p] => pc[q] = "idle"
    BY <1>1 DEF Setup, LoadManifest, LockFree, NoSharing
  <2>2. QED
    BY <2>1 DEF ILocal, TypeOK
<1>2. ASSUME NEW p \in Proc, Commit(p) PROVE ILocal'
  <2>1. mem[p] \subseteq mem'[p] \/ pc'[p] = "idle"
    BY <1>2, MergeWithin DEF Commit, Exit, TypeOK
  <2>2. /\ pc[p] = "ready" /\ pc'[p] # "writing" /\ UNCHANGED repoVars
        /\ \A q \in Proc \ {p} : pc'[q] = pc[q] /\ mem'[q] = mem[q]
    BY <1>2 DEF Commit, Exit, TypeOK
  <2>3. QED
    BY <1>p, <2>1, <2>2
<1>3. ASSUME NEW p \in Proc, PostAsset(p) \/ GetAsset(p) PROVE ILocal'
  <2>1. /\ pc[p] = "ready" /\ pc'[p] \notin {"idle", "writing"} /\ UNCHANGED <<repoVars, mem>>
        /\ \A q \in Proc \ {p} : pc'[q] = pc[q]
    BY <1>3 DEF PostAsset, GetAsset, TypeOK
  <2>2. QED
    BY <1>p, <2>1
<1>5. ASSUME NEW p \in Proc, MergeRemote(p) PROVE ILocal'
  <2>1. mem[p] \subseteq mem'[p] \/ pc'[p] = "idle"
    BY <1>5, MergeWithin DEF MergeRemote, Exit, TypeOK
  <2>2. /\ pc[p] = "answered" /\ pc'[p] # "writing" /\ UNCHANGED repoVars
        /\ \A q \in Proc \ {p} : pc'[q] = pc[q] /\ mem'[q] = mem[q]
    BY <1>5 DEF MergeRemote, Exit, TypeOK
  <2>3. QED
    BY <1>p, <2>1, <2>2
<1>6. ASSUME NEW p \in Proc, Truncate(p) PROVE ILocal'
  <2>1. /\ pc[p] = "merged" /\ UNCHANGED <<reported, mem>>
        /\ file' = [file EXCEPT ![RepoOf[p]] = {}]
        /\ torn' = [torn EXCEPT ![RepoOf[p]] = TRUE]
        /\ pc' = [pc EXCEPT ![p] = "writing"]
    BY <1>6 DEF Truncate
  <2>2. \A q \in Proc : q # p => pc'[q] = pc[q]
    BY <2>1 DEF TypeOK
  <2>3. \A q \in Proc : q # p /\ RepoOf[q] = RepoOf[p] => pc[q] = "idle"
    BY <2>1 DEF ILocal
  <2>4. reported[RepoOf[p]] \subseteq mem[p]
    BY <1>0, <2>1 DEF ILocal
  <2>5. ASSUME NEW q \in Proc, pc'[q] \notin {"idle", "writing"}
        PROVE  ~torn'[RepoOf[q]] /\ file'[RepoOf[q]] \subseteq mem'[q]
    <3>1. q # p /\ RepoOf[q] # RepoOf[p] /\ pc[q] \notin {"idle", "writing"}
      BY <2>1, <2>2, <2>3, <2>5 DEF TypeOK
    <3>2. QED
      BY <1>0, <2>1, <3>1 DEF ILocal, TypeOK
  <2>6. ASSUME NEW q \in Proc, pc'[q] = "writing"
        PROVE  reported'[RepoOf[q]] \subseteq mem'[q]
    BY <2>1, <2>2, <2>4, <2>6 DEF ILocal
  <2>7. \A r \in Repo : ~torn'[r] => reported'[r] \subseteq file'[r]
    BY <2>1 DEF ILocal, TypeOK
  <2>8. \A q, s \in Proc : q # s /\ RepoOf[q] = RepoOf[s] => pc'[q] = "idle" \/ pc'[s] = "idle"
    BY <2>1, <2>2, <2>3 DEF ILocal
  <2>9. QED
    BY <2>5, <2>6, <2>7, <2>8 DEF ILocal
<1>7. ASSUME NEW p \in Proc, WriteManifestFile(p) PROVE ILocal'
  <2>1. /\ pc[p] = "writing"
        /\ file' = [file EXCEPT ![RepoOf[p]] = mem[p]]
        /\ torn' = [torn EXCEPT ![RepoOf[p]] = FALSE]
        /\ reported' = [reported EXCEPT ![RepoOf[p]] = @ \cup mem[p]]
        /\ pc' = [pc EXCEPT ![p] = "idle"]
        /\ \A q \in Proc \ {p} : mem'[q] = mem[q]
    BY <1>7 DEF WriteManifestFile, Exit, TypeOK
  <2>2. \A q \in Proc : pc'[q] # "idle" => q # p /\ pc'[q] = pc[q] /\ RepoOf[q] # RepoOf[p]
    BY <2>1 DEF ILocal, TypeOK
  <2>3. reported[RepoOf[p]] \subseteq mem[p]
    BY <2>1 DEF ILocal
  <2>4. \A r \in Repo : ~torn'[r] => reported'[r] \subseteq file'[r]
    BY <2>1, <2>3 DEF ILocal, TypeOK
  <2>5. ASSUME NEW q \in Proc, pc'[q] # "idle"
        PROVE  /\ torn'[RepoOf[q]] = torn[RepoOf[q]] /\ file'[RepoOf[q]] = file[RepoOf[q]]
               /\ reported'[RepoOf[q]] = reported[RepoOf[q]]
               /\ mem'[q] = mem[q] /\ pc'[q] = pc[q]
    BY <1>0, <2>1, <2>2, <2>5 DEF TypeOK
  <2>6. QED
    BY <2>2, <2>4, <2>5 DEF ILocal
<1>8. ASSUME NEW p \in Proc, Stop(p) PROVE ILocal'
  <2>1. /\ pc'[p] = "idle" /\ UNCHANGED repoVars
        /\ \A q \in Proc \ {p} : pc'[q] = pc[q] /\ mem'[q] = mem[q]
    BY <1>8 DEF Stop, Exit, TypeOK
  <2>2. QED
    BY <1>p, <2>1
<1>11. ASSUME NEW h \in Handler, ReplyError(h) PROVE ILocal'
  <2>1. \A q \in Proc : pc'[q] = "idle" \/ (pc'[q] = pc[q] /\ mem'[q] = mem[q])
    BY <1>11 DEF ReplyError, Exit, TypeOK
  <2>2. QED
    BY <1>11, <1>p, <2>1 DEF ReplyError
<1>13. ASSUME NEW h \in Handler, SaveDataset(h) PROVE ILocal'
  <2>1. \A q \in Proc : \/ pc'[q] = pc[q]
                        \/ pc[q] = "posted" /\ pc'[q] = "answered"
    BY <1>13 DEF SaveDataset, IAnswer, TypeOK
  <2>2. QED
    BY <1>13, <1>p, <2>1 DEF SaveDataset
<1>14. CASE ServerRestart
  <2>1. \A q \in Proc : pc'[q] = "idle" \/ (pc'[q] = pc[q] /\ mem'[q] = mem[q])
    BY <1>14 DEF ServerRestart
  <2>2. QED
    BY <1>14, <1>p, <2>1 DEF ServerRestart
<1>15. CASE UNCHANGED <<repoVars, pc, mem>>
  BY <1>15, <1>p
<1>16. QED
  BY <1>1, <1>2, <1>3, <1>5, <1>6, <1>7, <1>8, <1>11, <1>13, <1>14, <1>15
  DEF Next, vars, ClientStep, HandlerStep, ConnectToPeerFails, Reject, SaveDatasetFails,
      GetDataset, ConnectToPeer, Recieve

LEMMA LocalCorrect ==
  ASSUME NoSharing
  PROVE  Spec => []ILocal
<1>1. Init => ILocal
  BY ConstantsAssumption DEF Init, ILocal
<1>2. TypeOK /\ IAnswer /\ ILocal /\ [Next]_vars => ILocal'
  BY LocalStep
<1>3. QED
  BY <1>1, <1>2, TypeCorrect, AnswerCorrect, PTL DEF Spec

\* Where processes share no repository without a lock, the file names every
\* version that a command has reported, unless a process was killed while
\* it wrote the file.
THEOREM LocalHistoryKeptCorrect ==
  ASSUME NoSharing
  PROVE  Spec => []LocalHistoryKept
<1>1. ILocal => LocalHistoryKept
  BY DEF ILocal, LocalHistoryKept
<1>2. QED
  BY <1>1, LocalCorrect, PTL

-----------------------------------------------------------------------------
\* What is published

\* The assumption of what follows: no two handlers work at the same time, from
\* the reading of the row to the answer; others may have arrived and wait.
Working(h) == hpc[h] \notin {"free", "arrived"}
Serial == \A g, h \in Handler : Working(g) /\ Working(h) => g = h

\* What a handler has read from the row is still there.
IPublished ==
  /\ acked \subseteq row
  /\ \A h \in Handler : hpc[h] \notin {"free", "arrived"} => hold[h] = row

LEMMA PublishedStep ==
  TypeOK /\ Serial /\ IPublished /\ [Next]_vars => IPublished' /\ row \subseteq row'
<1> SUFFICES ASSUME TypeOK, Serial, IPublished, [Next]_vars PROVE IPublished' /\ row \subseteq row'
  OBVIOUS
<1> USE DEF repoVars, procVars, serverVars, handlerVars, ipfsVars
<1>1. ASSUME UNCHANGED serverVars,
             \A h \in Handler : \/ hpc'[h] \in {"free", "arrived"} \/ hold'[h] = row
                                \/ hpc'[h] = hpc[h] /\ hold'[h] = hold[h]
      PROVE  IPublished' /\ row \subseteq row'
  BY <1>1 DEF IPublished
<1>2. ASSUME UNCHANGED <<serverVars, hpc, hold>>
      PROVE  IPublished' /\ row \subseteq row'
  BY <1>2 DEF IPublished
<1>3. ASSUME NEW p \in Proc, PostAsset(p) PROVE IPublished' /\ row \subseteq row'
  BY <1>1, <1>3 DEF PostAsset, IPublished, TypeOK
<1>4. ASSUME NEW h \in Handler, GetDataset(h) PROVE IPublished' /\ row \subseteq row'
  BY <1>1, <1>4 DEF GetDataset, TypeOK
<1>5. ASSUME NEW h \in Handler, ConnectToPeer(h) \/ Recieve(h)
      PROVE  IPublished' /\ row \subseteq row'
  <2>1. /\ UNCHANGED <<serverVars, hold>> /\ hpc[h] \notin {"free", "arrived"}
        /\ \A g \in Handler : g # h => hpc'[g] = hpc[g]
    BY <1>5 DEF ConnectToPeer, Recieve, TypeOK
  <2>2. QED
    BY <1>1, <2>1 DEF IPublished
<1>6. ASSUME NEW h \in Handler, Release(h)
      PROVE  /\ hpc'[h] = "free"
             /\ \A g \in Handler \ {h} : hpc'[g] = hpc[g] /\ hold'[g] = hold[g]
  BY <1>6 DEF Release, TypeOK
<1>7. ASSUME NEW h \in Handler, ReplyError(h) PROVE IPublished' /\ row \subseteq row'
  BY <1>1, <1>6, <1>7 DEF ReplyError
<1>8. ASSUME NEW h \in Handler, SaveDataset(h) PROVE IPublished' /\ row \subseteq row'
  <2>1. hold[h] = row /\ row' = SavedManifest(h) /\ acked' \subseteq acked \cup hnew[h]
    BY <1>8 DEF SaveDataset, IPublished
  <2>2. row' = row \cup hnew[h]
    BY <2>1, SavedUnion
  <2>3. \A g \in Handler : hpc'[g] \in {"free", "arrived"}
    BY <1>6, <1>8 DEF SaveDataset, Serial, Working, TypeOK
  <2>4. QED
    BY <2>1, <2>2, <2>3 DEF IPublished
<1>9. CASE ServerRestart
  BY <1>1, <1>9 DEF ServerRestart
<1>10. QED
  BY <1>2, <1>3, <1>4, <1>5, <1>7, <1>8, <1>9
  DEF Next, vars, ClientStep, HandlerStep, ConnectToPeerFails, Reject, SaveDatasetFails,
      Setup, LoadManifest, Commit, GetAsset, MergeRemote, Truncate, WriteManifestFile, Stop

LEMMA PublishedCorrect ==
  Spec /\ []Serial => []IPublished
<1>1. Init => IPublished
  BY DEF Init, IPublished
<1>2. TypeOK /\ Serial /\ IPublished /\ [Next]_vars => IPublished'
  BY PublishedStep
<1>3. QED
  BY <1>1, <1>2, TypeCorrect, PTL DEF Spec

\* A server that handles one push at a time never takes back what it has
\* told a client it holds, however many wait.  (One that handles two at a time
\* does: run sync_lost_push.)
THEOREM AckedKeptCorrect == Spec /\ []Serial => []AckedKept
<1>1. IPublished => AckedKept
  BY DEF IPublished, AckedKept
<1>2. QED
  BY <1>1, PublishedCorrect, PTL

\* That assumption is no restriction where there is one slot for requests, as
\* in run sync_push.
LEMMA OneSlotIsSerial ==
  ASSUME \A g, h \in Handler : g = h
  PROVE  Serial
BY DEF Serial

-----------------------------------------------------------------------------
\* What overlapping pushes leave

\* What a repository sends to the server it has reported before.
ISent ==
  /\ \A r \in Repo : file[r] \subseteq reported[r]
  /\ \A p \in Proc : pc[p] \in {"ready", "posted"} => mem[p] \subseteq reported[RepoOf[p]]

\* Where what was acknowledged is kept, in terms of what only grows.
Recoverable(v) ==
  /\ v.hash \in pinned[Server] /\ \E m \in saved[Server] : v \in m
  /\ \E r \in Repo : v \in reported[r]
IRecoverable == ISent /\ \A v \in acked : Recoverable(v)

LEMMA ReportedGrows ==
  ASSUME TypeOK, [Next]_vars, NEW r \in Repo
  PROVE  reported[r] \subseteq reported'[r]
<1> USE DEF repoVars, procVars, serverVars, handlerVars, ipfsVars
<1>1. ASSUME NEW p \in Proc, WriteManifestFile(p)
      PROVE  reported[r] \subseteq reported'[r]
  BY <1>1 DEF WriteManifestFile, TypeOK
<1>2. CASE UNCHANGED reported
  BY <1>2
<1>3. QED
  BY <1>1, <1>2
  DEF Next, vars, ClientStep, HandlerStep, ConnectToPeerFails, Reject, SaveDatasetFails,
      Setup, LoadManifest, Commit, PostAsset, GetAsset, MergeRemote, Truncate, Stop,
      GetDataset, ConnectToPeer, ReplyError, Recieve, SaveDataset, ServerRestart

LEMMA RecoverableStays ==
  ASSUME TypeOK, [Next]_vars, NEW v, Recoverable(v)
  PROVE  Recoverable(v)'
<1>1. saved[Server] \subseteq saved'[Server] /\ pinned[Server] \subseteq pinned'[Server]
  BY StoreGrows DEF Node
<1>2. PICK r \in Repo : v \in reported[r]
  BY DEF Recoverable
<1>3. v \in reported'[r]
  BY <1>2, ReportedGrows
<1>4. QED
  BY <1>1, <1>3 DEF Recoverable

LEMMA SentStep == TypeOK /\ IAnswer /\ ISent /\ [Next]_vars => ISent'
<1> SUFFICES ASSUME TypeOK, IAnswer, ISent, [Next]_vars PROVE ISent'
  OBVIOUS
<1> USE DEF repoVars, procVars, serverVars, handlerVars, ipfsVars
<1>0. /\ \A p \in Proc : RepoOf[p] \in Repo
      /\ \A r \in Repo : reported[r] \subseteq reported'[r]
  BY ConstantsAssumption, ReportedGrows
\* A process goes on with what it has read, or has come further or to its end.
<1>p. ASSUME UNCHANGED file,
             \A q \in Proc : \/ pc'[q] \notin {"ready", "posted"}
                             \/ pc[q] \in {"ready", "posted"} /\ mem'[q] = mem[q]
      PROVE  ISent'
  BY <1>0, <1>p DEF ISent
<1>1. ASSUME NEW p \in Proc, Setup(p) PROVE ISent'
  <2>1. /\ mem' = [mem EXCEPT ![p] = file[RepoOf[p]]]
        /\ pc' = [pc EXCEPT ![p] = "ready"]
        /\ UNCHANGED repoVars
    BY <1>1 DEF Setup, LoadManifest
  <2>2. QED
    BY <1>0, <2>1 DEF ISent, TypeOK
<1>2. ASSUME NEW p \in Proc, Exit(p), UNCHANGED file PROVE ISent'
  <2>1. \A q \in Proc : pc'[q] = "idle" \/ (pc'[q] = pc[q] /\ mem'[q] = mem[q])
    BY <1>2 DEF Exit, TypeOK
  <2>2. QED
    BY <1>2, <1>p, <2>1
<1>3. ASSUME NEW p \in Proc, Commit(p) \/ MergeRemote(p) PROVE ISent'
  <2>1. CASE Exit(p)
    BY <1>2, <1>3, <2>1 DEF Commit, MergeRemote
  <2>2. CASE ~Exit(p)
    <3>1. /\ pc' = [pc EXCEPT ![p] = "merged"] /\ UNCHANGED file
          /\ \A q \in Proc \ {p} : mem'[q] = mem[q]
      BY <1>3, <2>2 DEF Commit, MergeRemote, TypeOK
    <3>2. QED
      BY <1>p, <3>1 DEF TypeOK
  <2>3. QED
    BY <2>1, <2>2
<1>4. ASSUME NEW p \in Proc, PostAsset(p) \/ GetAsset(p) PROVE ISent'
  <2>1. /\ pc[p] = "ready" /\ UNCHANGED <<file, mem>>
        /\ \A q \in Proc \ {p} : pc'[q] = pc[q]
    BY <1>4 DEF PostAsset, GetAsset, TypeOK
  <2>2. QED
    BY <1>p, <2>1
<1>5. ASSUME NEW p \in Proc, Truncate(p) PROVE ISent'
  <2>1. /\ file' = [file EXCEPT ![RepoOf[p]] = {}] /\ UNCHANGED <<reported, mem>>
        /\ pc' = [pc EXCEPT ![p] = "writing"]
    BY <1>5 DEF Truncate
  <2>2. QED
    BY <2>1 DEF ISent, TypeOK
<1>6. ASSUME NEW p \in Proc, WriteManifestFile(p) PROVE ISent'
  <2>1. /\ file' = [file EXCEPT ![RepoOf[p]] = mem[p]]
        /\ reported' = [reported EXCEPT ![RepoOf[p]] = @ \cup mem[p]]
        /\ pc' = [pc EXCEPT ![p] = "idle"]
        /\ \A q \in Proc \ {p} : mem'[q] = mem[q]
    BY <1>6 DEF WriteManifestFile, Exit, TypeOK
  <2>2. \A r \in Repo : file'[r] \subseteq reported'[r]
    BY <2>1 DEF ISent, TypeOK
  <2>3. ASSUME NEW q \in Proc, pc'[q] \in {"ready", "posted"}
        PROVE  mem'[q] \subseteq reported'[RepoOf[q]]
    <3>1. q # p /\ pc[q] \in {"ready", "posted"} /\ mem'[q] = mem[q]
      BY <2>1, <2>3 DEF TypeOK
    <3>2. QED
      BY <1>0, <3>1 DEF ISent
  <2>4. QED
    BY <2>2, <2>3 DEF ISent
<1>7. ASSUME NEW p \in Proc, Stop(p) PROVE ISent'
  BY <1>2, <1>7 DEF Stop
<1>8. ASSUME NEW h \in Handler, ReplyError(h) PROVE ISent'
  <2>1. \A q \in Proc : pc'[q] = "idle" \/ (pc'[q] = pc[q] /\ mem'[q] = mem[q])
    BY <1>8 DEF ReplyError, Exit, TypeOK
  <2>2. QED
    BY <1>8, <1>p, <2>1 DEF ReplyError
<1>9. ASSUME NEW h \in Handler, SaveDataset(h) PROVE ISent'
  <2>1. UNCHANGED <<file, mem>>
        /\ \A q \in Proc : pc'[q] = pc[q] \/ pc'[q] = "answered"
    BY <1>9 DEF SaveDataset, IAnswer, TypeOK
  <2>2. QED
    BY <1>p, <2>1
<1>10. CASE ServerRestart
  <2>1. \A q \in Proc : pc'[q] = "idle" \/ (pc'[q] = pc[q] /\ mem'[q] = mem[q])
    BY <1>10 DEF ServerRestart
  <2>2. QED
    BY <1>10, <1>p, <2>1 DEF ServerRestart
<1>11. CASE UNCHANGED <<file, pc, mem>>
  BY <1>11, <1>p
<1>12. QED
  BY <1>1, <1>3, <1>4, <1>5, <1>6, <1>7, <1>8, <1>9, <1>10, <1>11
  DEF Next, vars, ClientStep, HandlerStep, ConnectToPeerFails, Reject, SaveDatasetFails,
      GetDataset, ConnectToPeer, Recieve

LEMMA RecoverableStep ==
  TypeOK /\ IDurable /\ IAnswer /\ IRecoverable /\ [Next]_vars => IRecoverable'
<1> SUFFICES ASSUME TypeOK, IDurable, IAnswer, IRecoverable, [Next]_vars PROVE IRecoverable'
  OBVIOUS
<1> USE DEF repoVars, procVars, serverVars, handlerVars, ipfsVars
<1>1. ISent'
  BY SentStep DEF IRecoverable
<1>2. CASE acked' = acked
  BY <1>1, <1>2, RecoverableStays DEF IRecoverable
\* The answer to a push: the client is where PostAsset left it.
<1>3. ASSUME NEW h \in Handler, SaveDataset(h), hwaiting[h] PROVE IRecoverable'
  <2>1. /\ hpc[h] = "saving" /\ acked' = acked \cup hnew[h]
        /\ hclient[h] \in Proc /\ pc[hclient[h]] = "posted" /\ mem[hclient[h]] = hnew[h]
    BY <1>3 DEF SaveDataset, IAnswer
  <2>2. hnew[h] \subseteq reported[RepoOf[hclient[h]]] /\ RepoOf[hclient[h]] \in Repo
    BY <2>1, ConstantsAssumption DEF IRecoverable, ISent
  <2>3. /\ SavedManifest(h) \in saved[Server]
        /\ Hashes(SavedManifest(h)) \subseteq pinned[Server]
        /\ hnew[h] \subseteq SavedManifest(h)
    BY <2>1, SavedUnion DEF IDurable, KeptOn, SavedManifest
  <2>4. ASSUME NEW v \in hnew[h] PROVE Recoverable(v)
    BY <2>2, <2>3 DEF Recoverable, Hashes
  <2>5. QED
    BY <1>1, <2>1, <2>4, RecoverableStays DEF IRecoverable
<1>4. QED
  BY <1>2, <1>3
  DEF Next, vars, ClientStep, HandlerStep, ConnectToPeerFails, Reject, SaveDatasetFails,
      Setup, LoadManifest, Commit, PostAsset, GetAsset, MergeRemote, Truncate, WriteManifestFile,
      Stop, GetDataset, ConnectToPeer, ReplyError, Recieve, SaveDataset, ServerRestart

\* However many pushes overlap, what a client was told is pushed is kept, with
\* its data, by the server's node, and by the file of a repository unless a
\* process was killed while it wrote it: a lost push can be made again.
THEOREM AckedRecoverableCorrect ==
  ASSUME NoSharing
  PROVE  Spec => []AckedRecoverable
<1>1. Init => IRecoverable
  BY DEF Init, IRecoverable, ISent
<1>2. ILocal /\ IRecoverable => AckedRecoverable
  BY DEF ILocal, IRecoverable, Recoverable, AckedRecoverable
<1>3. QED
  BY <1>1, <1>2, RecoverableStep, DurableInit, DurableStep, TypeCorrect, AnswerCorrect,
     LocalCorrect, PTL DEF Spec

-----------------------------------------------------------------------------
\* Parents

\* ParentsKnown, extended to every manifest on its way to a file or the row.
IClosed ==
  /\ HistoryClosed(row)
  /\ \A r \in Repo : HistoryClosed(file[r])
  /\ \A p \in Proc : HistoryClosed(mem[p]) /\ HistoryClosed(remote[p])
  /\ \A h \in Handler : HistoryClosed(hold[h]) /\ HistoryClosed(hnew[h])

\* A merge of manifests that hold their versions' parents holds them too.
LEMMA MergeClosed ==
  /\ HistoryClosed({})
  /\ \A old, new : HistoryClosed(old) /\ HistoryClosed(new) => HistoryClosed(Merge(old, new))
  /\ \A m, v : HistoryClosed(m) /\ UnknownCommits(m, v.parents) = {}
                 => HistoryClosed(Merge(m, {v}))
<1>1. ASSUME NEW old, NEW new, HistoryClosed(old),
             \A v \in new : v.parents \subseteq Hashes(old) \cup Hashes(new)
      PROVE  HistoryClosed(Merge(old, new))
  <2>1. Hashes(Merge(old, new)) = Hashes(old) \cup Hashes(new)
    BY MergeHashesAll
  <2>2. \A v \in Merge(old, new) : v.parents \subseteq Hashes(old) \cup Hashes(new)
    BY <1>1, MergeWithin DEF HistoryClosed, UnknownCommits
  <2>3. QED
    BY <2>1, <2>2 DEF HistoryClosed, UnknownCommits
<1>2. HistoryClosed({})
  BY DEF HistoryClosed, UnknownCommits
<1>3. QED
  BY <1>1, <1>2 DEF HistoryClosed, UnknownCommits

LEMMA ClosedStep ==
  ASSUME ~ConfirmUnknown
  PROVE  TypeOK /\ IClosed /\ [Next]_vars => IClosed'
<1> SUFFICES ASSUME TypeOK, IClosed, [Next]_vars PROVE IClosed'
  OBVIOUS
<1> USE DEF repoVars, procVars, serverVars, handlerVars, ipfsVars
<1>0. \A p \in Proc : RepoOf[p] \in Repo
  BY ConstantsAssumption
<1>e. ASSUME NEW p, Exit(p)
      PROVE  \A q \in Proc : HistoryClosed(mem'[q]) /\ HistoryClosed(remote'[q])
  BY <1>e, MergeClosed DEF Exit, TypeOK, IClosed
<1>r. ASSUME NEW h, Release(h)
      PROVE  \A g \in Handler : HistoryClosed(hold'[g]) /\ HistoryClosed(hnew'[g])
  BY <1>r, MergeClosed DEF Release, TypeOK, IClosed
<1>1. ASSUME NEW p \in Proc, Setup(p) PROVE IClosed'
  <2>1. \A q \in Proc : HistoryClosed(mem'[q])
    BY <1>0, <1>1 DEF Setup, LoadManifest, TypeOK, IClosed
  <2>2. QED
    BY <1>1, <2>1 DEF Setup, LoadManifest, IClosed
<1>2. ASSUME NEW p \in Proc, Commit(p) PROVE IClosed'
  <2>1. \A q \in Proc : HistoryClosed(mem'[q]) /\ HistoryClosed(remote'[q])
    <3>1. CASE Exit(p)
      BY <3>1, <1>e
    <3>2. CASE \E v : /\ ParentageOk(mem[p], v)
                      /\ mem' = [mem EXCEPT ![p] = Merge(@, {v})]
                      /\ UNCHANGED remote
      <4>1. PICK v : /\ ParentageOk(mem[p], v)
                     /\ mem' = [mem EXCEPT ![p] = Merge(@, {v})]
                     /\ UNCHANGED remote
        BY <3>2
      <4>2. HistoryClosed(Merge(mem[p], {v}))
        BY <4>1, MergeClosed DEF IClosed, ParentageOk
      <4>3. QED
        BY <4>1, <4>2 DEF TypeOK, IClosed
    <3>3. QED
      BY <1>2, <3>1, <3>2 DEF Commit
  <2>2. QED
    BY <1>2, <2>1 DEF Commit, IClosed
<1>3. ASSUME NEW p \in Proc, PostAsset(p) PROVE IClosed'
  <2>1. \A h \in Handler : HistoryClosed(hnew'[h])
    BY <1>3 DEF PostAsset, TypeOK, IClosed
  <2>2. QED
    BY <1>3, <2>1 DEF PostAsset, IClosed
<1>4. ASSUME NEW p \in Proc, GetAsset(p) PROVE IClosed'
  <2>1. \A q \in Proc : HistoryClosed(remote'[q])
    BY <1>4 DEF GetAsset, TypeOK, IClosed
  <2>2. QED
    BY <1>4, <2>1 DEF GetAsset, IClosed
<1>5. ASSUME NEW p \in Proc, MergeRemote(p) PROVE IClosed'
  <2>1. \A q \in Proc : HistoryClosed(mem'[q]) /\ HistoryClosed(remote'[q])
    <3>1. CASE Exit(p)
      BY <3>1, <1>e
    <3>2. CASE mem' = [mem EXCEPT ![p] = Merge(@, remote[p])] /\ UNCHANGED remote
      <4>1. HistoryClosed(Merge(mem[p], remote[p]))
        BY MergeClosed DEF IClosed
      <4>2. QED
        BY <3>2, <4>1 DEF TypeOK, IClosed
    <3>3. QED
      BY <1>5, <3>1, <3>2 DEF MergeRemote
  <2>2. QED
    BY <1>5, <2>1 DEF MergeRemote, IClosed
<1>6. ASSUME NEW p \in Proc, Truncate(p) PROVE IClosed'
  <2>1. \A r \in Repo : HistoryClosed(file'[r])
    BY <1>6, MergeClosed DEF Truncate, TypeOK, IClosed
  <2>2. QED
    BY <1>6, <2>1 DEF Truncate, IClosed
<1>7. ASSUME NEW p \in Proc, WriteManifestFile(p) PROVE IClosed'
  <2>1. \A r \in Repo : HistoryClosed(file'[r])
    BY <1>7 DEF WriteManifestFile, TypeOK, IClosed
  <2>2. QED
    BY <1>7, <1>e, <2>1 DEF WriteManifestFile, IClosed
<1>8. ASSUME NEW p \in Proc, Stop(p) PROVE IClosed'
  BY <1>8, <1>e DEF Stop, IClosed
<1>9. ASSUME NEW h \in Handler, GetDataset(h) PROVE IClosed'
  <2>1. \A g \in Handler : HistoryClosed(hold'[g])
    BY <1>9 DEF GetDataset, TypeOK, IClosed
  <2>2. QED
    BY <1>9, <2>1 DEF GetDataset, IClosed
<1>10. ASSUME NEW h \in Handler, ConnectToPeer(h) \/ Recieve(h) PROVE IClosed'
  BY <1>10 DEF ConnectToPeer, Recieve, IClosed
<1>11. ASSUME NEW h \in Handler, ReplyError(h) PROVE IClosed'
  BY <1>11, <1>e, <1>r DEF ReplyError, IClosed
<1>13. ASSUME NEW h \in Handler, SaveDataset(h) PROVE IClosed'
  <2>1. HistoryClosed(row') /\ HistoryClosed(SavedManifest(h))
    BY <1>13, MergeClosed DEF SaveDataset, SavedManifest, IClosed
  <2>2. \A q \in Proc : HistoryClosed(remote'[q])
    BY <1>13, <2>1 DEF SaveDataset, TypeOK, IClosed
  <2>3. QED
    BY <1>13, <1>r, <2>1, <2>2 DEF SaveDataset, IClosed
<1>14. CASE ServerRestart
  BY <1>14, MergeClosed DEF ServerRestart, IClosed
<1>15. CASE UNCHANGED vars
  BY <1>15 DEF vars, IClosed
<1>16. QED
  BY <1>1, <1>2, <1>3, <1>4, <1>5, <1>6, <1>7, <1>8, <1>9, <1>10, <1>11, <1>13, <1>14, <1>15
  DEF Next, ClientStep, HandlerStep, ConnectToPeerFails, Reject, SaveDatasetFails

\* Users who are only ever let name parents that are there never bring
\* anybody a version without its parents, though pushes overlap and processes
\* die half way.
THEOREM ParentsKnownCorrect == Spec => []ParentsKnown
<1>1. CASE ConfirmUnknown
  <2>1. ParentsKnown
    BY <1>1 DEF ParentsKnown
  <2>2. QED
    BY <2>1, PTL
<1>2. CASE ~ConfirmUnknown
  <2>1. Init => IClosed
    BY MergeClosed DEF Init, IClosed
  <2>2. TypeOK /\ IClosed /\ [Next]_vars => IClosed'
    BY <1>2, ClosedStep
  <2>3. IClosed => ParentsKnown
    BY DEF IClosed, ParentsKnown
  <2>4. QED
    BY <2>1, <2>2, <2>3, TypeCorrect, PTL DEF Spec
<1>3. QED
  BY <1>1, <1>2

-----------------------------------------------------------------------------
\* DatasetSync implements VersionHistory

\* Version v of repository r is all that m has over what r has reported.
OwnAddition(r, m, v) == v.author = r /\ m \subseteq reported[r] \cup {v}

\* Where the manifests on their way come from: what is in a file or sent to
\* the server was reported before; an answer was published; and what a
\* process is about to write to its file is that and one version of its own,
\* or that and published versions.
ISource ==
  /\ \A r \in Repo : file[r] \subseteq reported[r]
  /\ \A p \in Proc : remote[p] \subseteq row
  /\ \A p \in Proc : pc[p] \in {"ready", "posted", "answered"} => mem[p] \subseteq reported[RepoOf[p]]
  /\ \A p \in Proc : pc[p] \in {"merged", "writing"} =>
       \/ \E v \in Draft : OwnAddition(RepoOf[p], mem[p], v)
       \/ mem[p] \subseteq reported[RepoOf[p]] \cup row
  /\ \A h \in Handler : hpc[h] # "free" => \E r \in Repo : hnew[h] \subseteq reported[r]

LEMMA SourceStep ==
  TypeOK /\ Serial /\ IPublished /\ IAnswer /\ ISource /\ [Next]_vars => ISource'
<1> SUFFICES ASSUME TypeOK, Serial, IPublished, IAnswer, ISource, [Next]_vars PROVE ISource'
  OBVIOUS
<1> USE DEF repoVars, procVars, serverVars, handlerVars, ipfsVars
<1>0. /\ \A p \in Proc : RepoOf[p] \in Repo
      /\ row \subseteq row'
  BY ConstantsAssumption, PublishedStep
<1>g. \A r \in Repo : reported[r] \subseteq reported'[r]
  <2>1. ASSUME NEW p \in Proc, WriteManifestFile(p)
        PROVE  \A r \in Repo : reported[r] \subseteq reported'[r]
    BY <2>1 DEF WriteManifestFile, TypeOK
  <2>2. CASE UNCHANGED reported
    BY <2>2
  <2>3. QED
    BY <2>1, <2>2
    DEF Next, vars, ClientStep, HandlerStep, ConnectToPeerFails, Reject, SaveDatasetFails,
        Setup, LoadManifest, Commit, PostAsset, GetAsset, MergeRemote, Truncate, Stop,
        GetDataset, ConnectToPeer, ReplyError, Recieve, SaveDataset, ServerRestart
\* As histories only grow, only what is new has to be accounted for: a
\* process or handler is where it was, or has less, or is looked at below.
<1>f. file' = file => \A r \in Repo : file'[r] \subseteq reported'[r]
  BY <1>g DEF ISource
<1>m. ASSUME NEW q \in Proc, mem'[q] = mem[q], remote'[q] = remote[q],
             \/ pc'[q] = pc[q] \/ pc'[q] = "idle"
             \/ pc[q] = "ready" /\ pc'[q] = "posted"
             \/ pc[q] = "posted" /\ pc'[q] = "answered"
             \/ pc[q] = "merged" /\ pc'[q] = "writing"
      PROVE  /\ remote'[q] \subseteq row'
             /\ pc'[q] \in {"ready", "posted", "answered"} => mem'[q] \subseteq reported'[RepoOf[q]]
             /\ pc'[q] \in {"merged", "writing"} =>
                  \/ \E v \in Draft : OwnAddition(RepoOf[q], mem[q], v)'
                  \/ mem'[q] \subseteq reported'[RepoOf[q]] \cup row'
  <2>1. remote'[q] \subseteq row'
    BY <1>0, <1>m DEF ISource
  <2>2. pc'[q] \in {"ready", "posted", "answered"} => mem'[q] \subseteq reported'[RepoOf[q]]
    BY <1>0, <1>g, <1>m DEF ISource
  <2>3. ASSUME pc'[q] \in {"merged", "writing"}
        PROVE  \/ \E v \in Draft : OwnAddition(RepoOf[q], mem[q], v)'
               \/ mem'[q] \subseteq reported'[RepoOf[q]] \cup row'
    <3>1. pc[q] \in {"merged", "writing"}
      BY <1>m, <2>3
    <3>2. CASE mem[q] \subseteq reported[RepoOf[q]] \cup row
      BY <1>0, <1>g, <1>m, <3>2
    <3>3. CASE \E v \in Draft : OwnAddition(RepoOf[q], mem[q], v)
      BY <1>0, <1>g, <1>m, <3>3 DEF OwnAddition
    <3>4. QED
      BY <3>1, <3>2, <3>3 DEF ISource
  <2>4. QED
    BY <2>1, <2>2, <2>3
<1>h. ASSUME \A h \in Handler : hpc'[h] # "free" => hpc[h] # "free" /\ hnew'[h] = hnew[h]
      PROVE  \A h \in Handler : hpc'[h] # "free" => \E r \in Repo : hnew'[h] \subseteq reported'[r]
  BY <1>g, <1>h DEF ISource
\* A process that ends.
<1>e. ASSUME NEW p \in Proc, Exit(p), NEW q \in Proc
      PROVE  /\ remote'[q] \subseteq row'
             /\ pc'[q] \in {"ready", "posted", "answered"} => mem'[q] \subseteq reported'[RepoOf[q]]
             /\ pc'[q] \in {"merged", "writing"} =>
                  \/ \E v \in Draft : OwnAddition(RepoOf[q], mem[q], v)'
                  \/ mem'[q] \subseteq reported'[RepoOf[q]] \cup row'
  <2>1. CASE q = p
    BY <1>e, <2>1 DEF Exit, TypeOK
  <2>2. CASE q # p
    <3>1. mem'[q] = mem[q] /\ remote'[q] = remote[q] /\ pc'[q] = pc[q]
      BY <1>e, <2>2 DEF Exit, TypeOK
    <3>2. QED
      BY <1>m, <3>1
  <2>3. QED
    BY <2>1, <2>2
<1>1. ASSUME NEW p \in Proc, Setup(p) PROVE ISource'
  <2>1. /\ mem' = [mem EXCEPT ![p] = file[RepoOf[p]]]
        /\ pc' = [pc EXCEPT ![p] = "ready"]
        /\ UNCHANGED <<repoVars, remote, row, handlerVars>>
    BY <1>1 DEF Setup, LoadManifest
  <2>2. /\ remote'[p] \subseteq row'
        /\ pc'[p] = "ready" /\ mem'[p] \subseteq reported'[RepoOf[p]]
    BY <1>0, <2>1 DEF ISource, TypeOK
  <2>3. \A q \in Proc \ {p} : mem'[q] = mem[q] /\ remote'[q] = remote[q] /\ pc'[q] = pc[q]
    BY <2>1 DEF TypeOK
  <2>4. QED
    BY <1>f, <1>h, <1>m, <2>1, <2>2, <2>3 DEF ISource
<1>2. ASSUME NEW p \in Proc, Commit(p) PROVE ISource'
  <2>0. UNCHANGED <<repoVars, row, handlerVars>>
    BY <1>2 DEF Commit
  <2>1. CASE Exit(p)
    BY <1>e, <1>f, <1>h, <2>0, <2>1 DEF ISource
  <2>2. CASE \E v \in Draft : /\ v.author = RepoOf[p] /\ pc[p] = "ready"
                              /\ mem' = [mem EXCEPT ![p] = Merge(@, {v})]
                              /\ pc' = [pc EXCEPT ![p] = "merged"]
                              /\ UNCHANGED remote
    <3>1. PICK v \in Draft : /\ v.author = RepoOf[p] /\ pc[p] = "ready"
                             /\ mem' = [mem EXCEPT ![p] = Merge(@, {v})]
                             /\ pc' = [pc EXCEPT ![p] = "merged"]
                             /\ UNCHANGED remote
      BY <2>2
    <3>3. OwnAddition(RepoOf[p], mem[p], v)'
      BY <2>0, <3>1, MergeWithin DEF ISource, OwnAddition, TypeOK
    <3>4. remote'[p] \subseteq row' /\ pc'[p] = "merged"
      BY <2>0, <3>1 DEF ISource, TypeOK
    <3>5. \A q \in Proc \ {p} : mem'[q] = mem[q] /\ remote'[q] = remote[q] /\ pc'[q] = pc[q]
      BY <3>1 DEF TypeOK
    <3>6. QED
      BY <1>f, <1>h, <1>m, <2>0, <3>3, <3>4, <3>5 DEF ISource
  <2>3. QED
    BY <1>2, <2>1, <2>2 DEF Commit
<1>3. ASSUME NEW p \in Proc, PostAsset(p) PROVE ISource'
  <2>1. PICK h \in Handler : hpc' = [hpc EXCEPT ![h] = "arrived"] /\ hnew' = [hnew EXCEPT ![h] = mem[p]]
    BY <1>3 DEF PostAsset
  <2>2. pc[p] = "ready" /\ pc' = [pc EXCEPT ![p] = "posted"] /\ UNCHANGED <<repoVars, mem, remote, row>>
    BY <1>3 DEF PostAsset
  <2>3. \A q \in Proc : pc'[q] = pc[q] \/ (pc[q] = "ready" /\ pc'[q] = "posted")
    BY <2>2 DEF TypeOK
  <2>4. mem[p] \subseteq reported[RepoOf[p]]
    BY <2>2 DEF ISource
  <2>5. \A g \in Handler : hpc'[g] # "free" => \E r \in Repo : hnew'[g] \subseteq reported'[r]
    BY <1>0, <2>1, <2>2, <2>4 DEF ISource, TypeOK
  <2>6. QED
    BY <1>f, <1>m, <2>2, <2>3, <2>5 DEF ISource
<1>4. ASSUME NEW p \in Proc, GetAsset(p) PROVE ISource'
  <2>1. /\ pc[p] = "ready" /\ pc' = [pc EXCEPT ![p] = "answered"]
        /\ remote' = [remote EXCEPT ![p] = row] /\ UNCHANGED <<repoVars, mem, row, handlerVars>>
    BY <1>4 DEF GetAsset
  <2>2. /\ remote'[p] \subseteq row' /\ pc'[p] = "answered"
        /\ mem'[p] \subseteq reported'[RepoOf[p]]
    BY <2>1 DEF ISource, TypeOK
  <2>3. \A q \in Proc \ {p} : mem'[q] = mem[q] /\ remote'[q] = remote[q] /\ pc'[q] = pc[q]
    BY <2>1 DEF TypeOK
  <2>4. QED
    BY <1>f, <1>h, <1>m, <2>1, <2>2, <2>3 DEF ISource
<1>5. ASSUME NEW p \in Proc, MergeRemote(p) PROVE ISource'
  <2>0. UNCHANGED <<repoVars, row, handlerVars>> /\ pc[p] = "answered"
    BY <1>5 DEF MergeRemote
  <2>1. CASE Exit(p)
    BY <1>e, <1>f, <1>h, <2>0, <2>1 DEF ISource
  <2>2. CASE /\ mem' = [mem EXCEPT ![p] = Merge(@, remote[p])]
             /\ pc' = [pc EXCEPT ![p] = "merged"]
             /\ UNCHANGED remote
    <3>1. mem'[p] \subseteq reported'[RepoOf[p]] \cup row'
      BY <2>0, <2>2, MergeWithin DEF ISource, TypeOK
    <3>2. remote'[p] \subseteq row' /\ pc'[p] = "merged"
      BY <2>0, <2>2 DEF ISource, TypeOK
    <3>3. \A q \in Proc \ {p} : mem'[q] = mem[q] /\ remote'[q] = remote[q] /\ pc'[q] = pc[q]
      BY <2>2 DEF TypeOK
    <3>4. QED
      BY <1>f, <1>h, <1>m, <2>0, <3>1, <3>2, <3>3 DEF ISource
  <2>3. QED
    BY <1>5, <2>1, <2>2 DEF MergeRemote
<1>6. ASSUME NEW p \in Proc, Truncate(p) PROVE ISource'
  <2>1. /\ pc[p] = "merged" /\ pc' = [pc EXCEPT ![p] = "writing"]
        /\ file' = [file EXCEPT ![RepoOf[p]] = {}]
        /\ UNCHANGED <<reported, mem, remote, row, handlerVars>>
    BY <1>6 DEF Truncate
  <2>2. \A r \in Repo : file'[r] \subseteq reported'[r]
    BY <2>1 DEF ISource, TypeOK
  <2>3. \A q \in Proc : pc'[q] = pc[q] \/ (pc[q] = "merged" /\ pc'[q] = "writing")
    BY <2>1 DEF TypeOK
  <2>4. QED
    BY <1>h, <1>m, <2>1, <2>2, <2>3 DEF ISource
<1>7. ASSUME NEW p \in Proc, WriteManifestFile(p) PROVE ISource'
  <2>1. /\ Exit(p) /\ UNCHANGED <<row, handlerVars>>
        /\ file' = [file EXCEPT ![RepoOf[p]] = mem[p]]
        /\ reported' = [reported EXCEPT ![RepoOf[p]] = @ \cup mem[p]]
    BY <1>7 DEF WriteManifestFile
  <2>2. \A r \in Repo : file'[r] \subseteq reported'[r]
    BY <2>1 DEF ISource, TypeOK
  <2>3. QED
    BY <1>e, <1>h, <2>1, <2>2 DEF ISource
<1>8. ASSUME NEW p \in Proc, Stop(p) PROVE ISource'
  BY <1>8, <1>e, <1>f, <1>h DEF Stop, ISource
<1>9. ASSUME NEW h \in Handler, GetDataset(h) \/ ConnectToPeer(h) \/ Recieve(h) PROVE ISource'
  <2>1. /\ hpc[h] # "free" /\ UNCHANGED <<repoVars, procVars, hnew>>
        /\ \A g \in Handler \ {h} : hpc'[g] = hpc[g]
    BY <1>9 DEF GetDataset, ConnectToPeer, Recieve, TypeOK
  <2>2. QED
    BY <1>f, <1>h, <1>m, <2>1 DEF ISource
<1>r. ASSUME NEW h \in Handler, Release(h)
      PROVE  \A g \in Handler : hpc'[g] # "free" => hpc[g] # "free" /\ hnew'[g] = hnew[g]
  BY <1>r DEF Release, TypeOK
<1>11. ASSUME NEW h \in Handler, ReplyError(h) PROVE ISource'
  <2>1. CASE hwaiting[h]
    BY <1>11, <1>e, <1>f, <1>h, <1>r, <2>1 DEF ReplyError, IAnswer, ISource
  <2>2. CASE ~hwaiting[h]
    BY <1>11, <1>f, <1>h, <1>m, <1>r, <2>2 DEF ReplyError, ISource
  <2>3. QED
    BY <2>1, <2>2
<1>13. ASSUME NEW h \in Handler, SaveDataset(h) PROVE ISource'
  <2>1. Release(h) /\ row' = SavedManifest(h) /\ UNCHANGED <<repoVars, cmd, mem>>
    BY <1>13 DEF SaveDataset
  <2>2. \A g \in Handler : hpc'[g] # "free" => \E r \in Repo : hnew'[g] \subseteq reported'[r]
    BY <1>h, <1>r, <2>1
  <2>3. CASE ~hwaiting[h]
    BY <1>13, <1>f, <1>m, <2>1, <2>2, <2>3 DEF SaveDataset, ISource
  <2>4. CASE hwaiting[h]
    <3>1. /\ hclient[h] \in Proc /\ pc[hclient[h]] = "posted"
          /\ pc' = [pc EXCEPT ![hclient[h]] = "answered"]
          /\ remote' = [remote EXCEPT ![hclient[h]] = SavedManifest(h)]
      BY <1>13, <2>4 DEF SaveDataset, IAnswer
    <3>2. /\ remote'[hclient[h]] \subseteq row' /\ pc'[hclient[h]] = "answered"
          /\ mem'[hclient[h]] \subseteq reported'[RepoOf[hclient[h]]]
      BY <2>1, <3>1 DEF ISource, TypeOK
    <3>3. \A q \in Proc \ {hclient[h]} :
            mem'[q] = mem[q] /\ remote'[q] = remote[q] /\ pc'[q] = pc[q]
      BY <2>1, <3>1 DEF TypeOK
    <3>4. QED
      BY <1>f, <1>m, <2>1, <2>2, <3>2, <3>3 DEF ISource
  <2>5. QED
    BY <2>3, <2>4
<1>14. CASE ServerRestart
  <2>1. /\ UNCHANGED <<repoVars, row>>
        /\ \A h \in Handler : hpc'[h] = "free"
        /\ \A q \in Proc : \/ pc'[q] = "idle" /\ mem'[q] = {} /\ remote'[q] = {}
                           \/ pc'[q] = pc[q] /\ mem'[q] = mem[q] /\ remote'[q] = remote[q]
    BY <1>14 DEF ServerRestart
  <2>2. QED
    BY <1>f, <1>m, <2>1 DEF ISource
<1>15. CASE UNCHANGED vars
  BY <1>15, <1>f, <1>h, <1>m DEF vars, ISource
<1>16. QED
  BY <1>1, <1>2, <1>3, <1>4, <1>5, <1>6, <1>7, <1>8, <1>9, <1>11, <1>13, <1>14, <1>15
  DEF Next, ClientStep, HandlerStep, ConnectToPeerFails, Reject, SaveDatasetFails

\* A step that writes a repository's file is a Record or a Pull of the
\* versions it adds, one that saves the row is a Publish of those pushed, and
\* every other step changes neither history.
LEMMA HistoryStep ==
  TypeOK /\ IWell /\ IPublished /\ ILocal /\ ISource /\ [Next]_vars => [VH!Next]_(VH!vars)
<1> SUFFICES ASSUME TypeOK, IWell, IPublished, ILocal, ISource, [Next]_vars
             PROVE  [VH!Next]_(VH!vars)
  OBVIOUS
<1> USE DEF repoVars, procVars, serverVars, handlerVars, ipfsVars
<1>w. \A S : VH!WellFormed(S) <=> WellFormed(S)
  BY DEF VH!WellFormed, WellFormed, VH!UniqueHash, UniqueHash, VH!Acyclic, Acyclic,
         VH!SameHash, SameHash, VH!Precedes, Precedes
<1>1. ASSUME NEW p \in Proc, WriteManifestFile(p) PROVE VH!Next
  <2> DEFINE r == RepoOf[p]
  <2>0. r \in Repo
    BY ConstantsAssumption
  <2>1. /\ pc[p] = "writing" /\ UNCHANGED row
        /\ reported' = [reported EXCEPT ![r] = @ \cup mem[p]]
    BY <1>1 DEF WriteManifestFile
  <2>2. reported[r] \subseteq mem[p] /\ WellFormed(mem[p])
    BY <2>1 DEF ILocal, IWell
  <2>3. ASSUME NEW S, reported[r] \cup S = mem[p]
        PROVE  VH!Grow(r, S)
    BY <1>w, <2>1, <2>2, <2>3 DEF VH!Grow
  <2>4. CASE \E v \in Draft : OwnAddition(r, mem[p], v)
    <3>1. PICK v \in Draft : OwnAddition(r, mem[p], v)
      BY <2>4
    <3>2. CASE v \in mem[p]
      <4>1. reported[r] \cup {v} = mem[p] /\ v.author = r
        BY <2>2, <3>1, <3>2 DEF OwnAddition
      <4>2. VH!Record(r)
        BY <2>3, <4>1 DEF VH!Record
      <4>3. QED
        BY <2>0, <4>2 DEF VH!Next
    <3>3. CASE v \notin mem[p]
      <4>1. reported[r] \cup {} = mem[p]
        BY <2>2, <3>1, <3>3 DEF OwnAddition
      <4>2. VH!Pull(r)
        BY <2>3, <4>1 DEF VH!Pull
      <4>3. QED
        BY <2>0, <4>2 DEF VH!Next
    <3>4. QED
      BY <3>2, <3>3
  <2>5. CASE mem[p] \subseteq reported[r] \cup row
    <3>1. reported[r] \cup (mem[p] \cap row) = mem[p]
      BY <2>2, <2>5
    <3>2. mem[p] \cap row \in SUBSET row
      OBVIOUS
    <3>3. VH!Pull(r)
      BY <2>3, <3>1, <3>2 DEF VH!Pull
    <3>4. QED
      BY <2>0, <3>3 DEF VH!Next
  <2>6. QED
    BY <2>1, <2>4, <2>5 DEF ISource
<1>2. ASSUME NEW h \in Handler, SaveDataset(h) PROVE VH!Next
  <2>1. hpc[h] = "saving" /\ row' = SavedManifest(h) /\ UNCHANGED reported
    BY <1>2 DEF SaveDataset
  <2>2. row' = row \cup hnew[h]
    BY <2>1, SavedUnion DEF IPublished
  <2>3. WellFormed(row \cup hnew[h])
    BY <2>1, <2>2 DEF IWell
  <2>4. PICK r \in Repo : hnew[h] \subseteq reported[r]
    BY <2>1 DEF ISource
  <2>5. VH!Publish(r)
    BY <1>w, <2>1, <2>2, <2>3, <2>4 DEF VH!Publish
  <2>6. QED
    BY <2>4, <2>5 DEF VH!Next
<1>3. CASE UNCHANGED <<reported, row>>
  BY <1>3 DEF VH!vars
<1>4. QED
  BY <1>1, <1>2, <1>3
  DEF Next, vars, ClientStep, HandlerStep, ConnectToPeerFails, Reject, SaveDatasetFails,
      Setup, LoadManifest, Commit, PostAsset, GetAsset, MergeRemote, Truncate, Stop,
      GetDataset, ConnectToPeer, ReplyError, Recieve, ServerRestart

\* With repositories that are not shared without a lock, and a server that
\* handles one push at a time, users get what VersionHistory promises.
THEOREM ImplementsVersionHistoryCorrect ==
  ASSUME NoSharing
  PROVE  Spec /\ []Serial => ImplementsVersionHistory
<1>1. Init => VH!Init
  BY DEF Init, VH!Init
<1>2. Init => ISource
  BY ConstantsAssumption DEF Init, ISource
<1>3. TypeOK /\ Serial /\ IPublished /\ IAnswer /\ ISource /\ [Next]_vars => ISource'
  BY SourceStep
<1>4. Spec /\ []Serial => []IPublished
  BY PublishedCorrect
<1>5. Spec => []ILocal
  BY LocalCorrect
<1>6. QED
  BY <1>1, <1>2, <1>3, <1>4, <1>5, HistoryStep, TypeCorrect, WellCorrect, AnswerCorrect, PTL
  DEF Spec, ImplementsVersionHistory, VH!Spec
=============================================================================
