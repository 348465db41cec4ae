----------------------------- MODULE DatasetSync -----------------------------
(***************************************************************************)
(* One dataset, the repositories that hold a copy of it, and the server    *)
(* that publishes it.                                                      *)
(*                                                                         *)
(* A repository is a .dorothy directory: a manifest file and an IPFS node. *)
(* Processes are runs of the dorothy command in a repository (commit, push *)
(* and fetch).  A push is a request to the server; the server handles each *)
(* request in a goroutine of its own, here one of the slots in Handler.    *)
(* The dataset's row in the server's database names the published manifest.*)
(*                                                                         *)
(* Manifests are sets of versions (module Manifest).  What an IPFS node    *)
(* keeps is what it has pinned: data, by hash, and manifests.              *)
(***************************************************************************)
EXTENDS Manifest

CONSTANTS
  Repo,        \* repositories
  Proc,        \* command line processes
  RepoOf,      \* the repository each process runs in
  GlobalIpfs,  \* the repositories initialised with --global
  Server,      \* the server's IPFS node
  Handler,     \* slots for push requests the server handles at a time
  NoProc,      \* no process
  Hash,        \* hashes of the data there is to commit
  Date,        \* times a clock may show: clocks are not assumed to agree
  Draft,       \* the versions users may commit: data, time and parents (never
               \* two that differ in the parents alone: the date is time.Now)
  ConfirmUnknown,  \* whether users answer yes when asked about unknown parents
  MaxRuns      \* bound: how many commands are run in all

ASSUME ConstantsAssumption ==
  /\ RepoOf \in [Proc -> Repo]
  /\ GlobalIpfs \subseteq Repo
  /\ Server \notin Repo
  /\ NoProc \notin Proc
  /\ Date \subseteq Nat
  /\ Draft \subseteq [hash : Hash, author : Repo, date : Date, parents : SUBSET Hash]
  /\ ToldApart(Draft)
  /\ ConfirmUnknown \in BOOLEAN
  /\ MaxRuns \in Nat

Node      == Repo \cup {Server}
Manifests == SUBSET Draft

VARIABLES
  \* repositories
  file,      \* the manifest that .dorothy/manifest names
  torn,      \* the file has been truncated and not been rewritten yet
  reported,  \* history: versions of every manifest a command completed with
  \* processes
  pc,        \* how far a process has come
  cmd,       \* its command
  mem,       \* Dorothy.Manifest, the manifest it holds in memory
  remote,    \* the manifest the server answered with
  runs,      \* number of commands run so far
  \* the server
  row,       \* the manifest of the dataset's row
  acked,     \* history: versions in a push the client got the answer 200 to
  hpc,       \* how far a request handler has come
  hclient,   \* the process that sent its request
  hwaiting,  \* the client is still there to get the answer
  hold,      \* the manifest GetDataset loaded
  hnew,      \* the manifest being pushed
  \* IPFS nodes
  pinned,    \* hashes of the data each node has pinned
  saved      \* manifests each node has saved

repoVars    == <<file, torn, reported>>
procVars    == <<pc, cmd, mem, remote, runs>>
serverVars  == <<row, acked>>
handlerVars == <<hpc, hclient, hwaiting, hold, hnew>>
ipfsVars    == <<pinned, saved>>
vars == <<repoVars, procVars, serverVars, handlerVars, ipfsVars>>

CommitCmd == {"commit", "commit --no-pin"}
Command   == CommitCmd \cup {"push", "fetch"}

TypeOK ==
  /\ file \in [Repo -> Manifests]
  /\ torn \in [Repo -> BOOLEAN]
  /\ reported \in [Repo -> Manifests]
  /\ pc \in [Proc -> {"idle", "ready", "posted", "answered", "merged", "writing"}]
  /\ cmd \in [Proc -> Command \cup {"none"}]
  /\ mem \in [Proc -> Manifests]
  /\ remote \in [Proc -> Manifests]
  /\ runs \in 0..MaxRuns
  /\ row \in Manifests
  /\ acked \in Manifests
  /\ hpc \in [Handler -> {"free", "arrived", "connecting", "recieving", "saving", "rejected"}]
  /\ hclient \in [Handler -> Proc \cup {NoProc}]
  /\ hwaiting \in [Handler -> BOOLEAN]
  /\ hold \in [Handler -> Manifests]
  /\ hnew \in [Handler -> Manifests]
  /\ pinned \in [Node -> SUBSET Hash]
  /\ saved \in [Node -> SUBSET Manifests]

\* `dorothy init' in every repository and CreateDataset on the server have
\* saved the empty manifest.
Init ==
  /\ file = [r \in Repo |-> {}]
  /\ torn = [r \in Repo |-> FALSE]
  /\ reported = [r \in Repo |-> {}]
  /\ pc = [p \in Proc |-> "idle"]
  /\ cmd = [p \in Proc |-> "none"]
  /\ mem = [p \in Proc |-> {}]
  /\ remote = [p \in Proc |-> {}]
  /\ runs = 0
  /\ row = {}
  /\ acked = {}
  /\ hpc = [h \in Handler |-> "free"]
  /\ hclient = [h \in Handler |-> NoProc]
  /\ hwaiting = [h \in Handler |-> FALSE]
  /\ hold = [h \in Handler |-> {}]
  /\ hnew = [h \in Handler |-> {}]
  /\ pinned = [n \in Node |-> {}]
  /\ saved = [n \in Node |-> {{}}]

-----------------------------------------------------------------------------
\* IPFS

\* The server's node and the daemon of a --global repository are always
\* online; the node of another repository is while a push or fetch runs in
\* it.  `dorothy commit' opens it offline.
Online(n) ==
  \/ n = Server
  \/ n \in GlobalIpfs
  \/ \E p \in Proc : RepoOf[p] = n /\ pc[p] # "idle" /\ cmd[p] \in {"push", "fetch"}

HasManifest(m) == \E n \in Node : Online(n) /\ m \in saved[n]
HasData(xs)    == \A x \in xs : \E n \in Node : Online(n) /\ x \in pinned[n]

\* Mutant of MergeAndCommit: the versions' data is not pinned.
MergeAndCommitNoPin(n, old, new) ==
  /\ ~MergeError(old, new)
  /\ saved' = [saved EXCEPT ![n] = @ \cup {Merge(old, new)}]
  /\ UNCHANGED pinned

\* Ipfs.MergeAndCommit on node n: merge, pin every new version, save.  The
\* data to pin comes from this node or another that is online.
MergeAndCommit(n, old, new) ==
  /\ ~MergeError(old, new)
  /\ pinned' = [pinned EXCEPT ![n] = @ \cup Hashes(Diff(old, new))]
  /\ saved' = [saved EXCEPT ![n] = @ \cup {Merge(old, new)}]

\* ... and what it leaves behind when it fails: nothing if the merge does;
\* if pinning does, the pins that succeeded, at least one being missing.
MergeAndCommitFails(n, old, new) ==
  /\ \/ MergeError(old, new) /\ UNCHANGED pinned
     \/ /\ ~MergeError(old, new)
        /\ \E v \in Diff(old, new) :
             \E P \in SUBSET (Hashes(Diff(old, new)) \ {v.hash}) :
               /\ HasData(P)
               /\ pinned' = [pinned EXCEPT ![n] = @ \cup P]
  /\ UNCHANGED saved

-----------------------------------------------------------------------------
\* The command line

\* Mutant of LockFree: no process excludes another.
LockFreeAlways(p) == TRUE

\* Opening a repository's own IPFS node takes its repo.lock, which the
\* process holds to its end; a --global one connects to a daemon.
LockFree(p) ==
  \/ RepoOf[p] \in GlobalIpfs
  \/ \A q \in Proc \ {p} : RepoOf[q] = RepoOf[p] => pc[q] = "idle"

\* The process ends.
Exit(p) ==
  /\ pc' = [pc EXCEPT ![p] = "idle"]
  /\ cmd' = [cmd EXCEPT ![p] = "none"]
  /\ mem' = [mem EXCEPT ![p] = {}]
  /\ remote' = [remote EXCEPT ![p] = {}]

\* Dorothy.LoadManifest: what the file names; an empty file is an error.
LoadManifest(p) ==
  /\ ~torn[RepoOf[p]]
  /\ mem' = [mem EXCEPT ![p] = file[RepoOf[p]]]

\* Dorothy.Setup: connect, then load the manifest.  If either fails the
\* command ends and has changed nothing.
Setup(p) ==
  /\ pc[p] = "idle"
  /\ LockFree(p)
  /\ runs < MaxRuns
  /\ runs' = runs + 1
  /\ LoadManifest(p)
  /\ \E c \in Command : cmd' = [cmd EXCEPT ![p] = c]
  /\ pc' = [pc EXCEPT ![p] = "ready"]
  /\ UNCHANGED <<repoVars, remote, serverVars, handlerVars, ipfsVars>>

\* Mutant of AddPins: the node's identity is pinned for the data's hash.
AddPinsIdentity(p, x) == {RepoOf[p]}

\* Add with Pin(!nopin): what a commit leaves pinned even if it fails.
AddPins(p, x) == IF cmd[p] = "commit --no-pin" THEN {} ELSE {x}

\* Mutant of ParentageOk: the question is not asked.
ParentageOkAlways(m, v) == TRUE

\* checkParentage: parents that the manifest does not hold take a yes.
ParentageOk(m, v) == ConfirmUnknown \/ UnknownCommits(m, v.parents) = {}

\* Dorothy.Commit: add the data, then merge a manifest of the one version.
\* Its date is whatever the clock says.
Commit(p) ==
  /\ pc[p] = "ready" /\ cmd[p] \in CommitCmd
  /\ \E v \in Draft :
       /\ v.author = RepoOf[p]
       /\ ParentageOk(mem[p], v)
       /\ \/ /\ MergeAndCommit(RepoOf[p], mem[p], {v})
             /\ mem' = [mem EXCEPT ![p] = Merge(@, {v})]
             /\ pc' = [pc EXCEPT ![p] = "merged"]
             /\ UNCHANGED <<cmd, remote>>
          \/ /\ MergeError(mem[p], {v})
             /\ pinned' = [pinned EXCEPT ![RepoOf[p]] = @ \cup AddPins(p, v.hash)]
             /\ UNCHANGED saved
             /\ Exit(p)
  /\ UNCHANGED <<repoVars, runs, serverVars, handlerVars>>

\* Dorothy.Push, up to the request: send the manifest's hash.
PostAsset(p) ==
  /\ pc[p] = "ready" /\ cmd[p] = "push"
  /\ \E h \in Handler :
       /\ hpc[h] = "free"
       /\ hpc' = [hpc EXCEPT ![h] = "arrived"]
       /\ hclient' = [hclient EXCEPT ![h] = p]
       /\ hwaiting' = [hwaiting EXCEPT ![h] = TRUE]
       /\ hnew' = [hnew EXCEPT ![h] = mem[p]]
  /\ pc' = [pc EXCEPT ![p] = "posted"]
  /\ UNCHANGED <<repoVars, cmd, mem, remote, runs, serverVars, hold, ipfsVars>>

\* Dorothy.Fetch, up to the answer: GetDataset and Dataset send the row's
\* manifest hash.
GetAsset(p) ==
  /\ pc[p] = "ready" /\ cmd[p] = "fetch"
  /\ remote' = [remote EXCEPT ![p] = row]
  /\ pc' = [pc EXCEPT ![p] = "answered"]
  /\ UNCHANGED <<repoVars, cmd, mem, runs, serverVars, handlerVars, ipfsVars>>

\* The rest of Push and of Fetch: get the server's manifest and merge it.
MergeRemote(p) ==
  /\ pc[p] = "answered"
  /\ HasManifest(remote[p])
  /\ \/ /\ HasData(Hashes(Diff(mem[p], remote[p])))
        /\ MergeAndCommit(RepoOf[p], mem[p], remote[p])
        /\ mem' = [mem EXCEPT ![p] = Merge(@, remote[p])]
        /\ pc' = [pc EXCEPT ![p] = "merged"]
        /\ UNCHANGED <<cmd, remote>>
     \/ MergeAndCommitFails(RepoOf[p], mem[p], remote[p]) /\ Exit(p)
  /\ UNCHANGED <<repoVars, runs, serverVars, handlerVars>>

\* WriteManifestFile: os.WriteFile truncates the file, then writes it.
Truncate(p) ==
  /\ pc[p] = "merged"
  /\ file' = [file EXCEPT ![RepoOf[p]] = {}]
  /\ torn' = [torn EXCEPT ![RepoOf[p]] = TRUE]
  /\ pc' = [pc EXCEPT ![p] = "writing"]
  /\ UNCHANGED <<reported, cmd, mem, remote, runs, serverVars, handlerVars, ipfsVars>>

WriteManifestFile(p) ==
  /\ pc[p] = "writing"
  /\ file' = [file EXCEPT ![RepoOf[p]] = mem[p]]
  /\ torn' = [torn EXCEPT ![RepoOf[p]] = FALSE]
  /\ reported' = [reported EXCEPT ![RepoOf[p]] = @ \cup mem[p]]
  /\ Exit(p)
  /\ UNCHANGED <<runs, serverVars, handlerVars, ipfsVars>>

\* The process is interrupted, killed, or gives up on a network error.  A
\* request it has sent goes on without it.
Stop(p) ==
  /\ pc[p] # "idle"
  /\ Exit(p)
  /\ hwaiting' = [h \in Handler |-> hwaiting[h] /\ hclient[h] # p]
  /\ UNCHANGED <<repoVars, runs, serverVars, hpc, hclient, hold, hnew, ipfsVars>>

-----------------------------------------------------------------------------
\* The server

\* The handler is done, and its slot free.
Release(h) ==
  /\ hpc' = [hpc EXCEPT ![h] = "free"]
  /\ hclient' = [hclient EXCEPT ![h] = NoProc]
  /\ hwaiting' = [hwaiting EXCEPT ![h] = FALSE]
  /\ hold' = [hold EXCEPT ![h] = {}]
  /\ hnew' = [hnew EXCEPT ![h] = {}]

\* It answers with an error: Push returns it, and the client ends.
ReplyError(h) ==
  /\ Release(h)
  /\ IF hwaiting[h] THEN Exit(hclient[h]) ELSE UNCHANGED <<pc, cmd, mem, remote>>
  /\ UNCHANGED <<repoVars, runs, serverVars, ipfsVars>>

\* GetDataset loads the row and its manifest before RecieveDataset runs.
GetDataset(h) ==
  /\ hpc[h] = "arrived"
  /\ hold' = [hold EXCEPT ![h] = row]
  /\ hpc' = [hpc EXCEPT ![h] = "connecting"]
  /\ UNCHANGED <<repoVars, procVars, serverVars, hclient, hwaiting, hnew, ipfsVars>>

\* RecieveDataset: connect to the client's node, for at most 10 seconds.
ConnectToPeer(h) ==
  /\ hpc[h] = "connecting"
  /\ Online(RepoOf[hclient[h]])
  /\ hpc' = [hpc EXCEPT ![h] = "recieving"]
  /\ UNCHANGED <<repoVars, procVars, serverVars, hclient, hwaiting, hold, hnew, ipfsVars>>

ConnectToPeerFails(h) == hpc[h] = "connecting" /\ ReplyError(h)

\* Dorothy.Recieve: get the client's manifest and merge it into the one that
\* GetDataset loaded.  It has no timeout: it waits for what no node has.
Recieve(h) ==
  /\ hpc[h] = "recieving"
  /\ HasManifest(hnew[h])
  /\ \/ /\ HasData(Hashes(Diff(hold[h], hnew[h])))
        /\ MergeAndCommit(Server, hold[h], hnew[h])
        /\ hpc' = [hpc EXCEPT ![h] = "saving"]
     \/ /\ MergeAndCommitFails(Server, hold[h], hnew[h])
        /\ hpc' = [hpc EXCEPT ![h] = "rejected"]
  /\ UNCHANGED <<repoVars, procVars, serverVars, hclient, hwaiting, hold, hnew>>

\* The handler answers "merge failed".
Reject(h) == hpc[h] = "rejected" /\ ReplyError(h)

\* Mutants of SavedManifest: the pushed manifest replaces the published one;
\* the one in the database is saved again.
SavedManifestReplace(h) == hnew[h]
SavedManifestOld(h)     == hold[h]

\* What the handler writes to the row: the manifest Recieve returned.
SavedManifest(h) == Merge(hold[h], hnew[h])

\* session.Save writes the row, whatever it holds by now, and the handler
\* answers with the new manifest's hash.
SaveDataset(h) ==
  /\ hpc[h] = "saving"
  /\ row' = SavedManifest(h)
  /\ IF hwaiting[h]
     THEN /\ acked' = acked \cup hnew[h]
          /\ pc' = [pc EXCEPT ![hclient[h]] = "answered"]
          /\ remote' = [remote EXCEPT ![hclient[h]] = SavedManifest(h)]
     ELSE UNCHANGED <<acked, pc, remote>>
  /\ Release(h)
  /\ UNCHANGED <<repoVars, cmd, mem, runs, ipfsVars>>

SaveDatasetFails(h) == hpc[h] = "saving" /\ ReplyError(h)

\* The server stops and starts again: requests are lost, clients get an
\* error.  The database and the IPFS node keep what they hold.
WaitingFor(p) == \E h \in Handler : hclient[h] = p /\ hwaiting[h]
ServerRestart ==
  /\ \E h \in Handler : hpc[h] # "free"
  /\ hpc' = [h \in Handler |-> "free"]
  /\ hclient' = [h \in Handler |-> NoProc]
  /\ hwaiting' = [h \in Handler |-> FALSE]
  /\ hold' = [h \in Handler |-> {}]
  /\ hnew' = [h \in Handler |-> {}]
  /\ pc' = [p \in Proc |-> IF WaitingFor(p) THEN "idle" ELSE pc[p]]
  /\ cmd' = [p \in Proc |-> IF WaitingFor(p) THEN "none" ELSE cmd[p]]
  /\ mem' = [p \in Proc |-> IF WaitingFor(p) THEN {} ELSE mem[p]]
  /\ remote' = [p \in Proc |-> IF WaitingFor(p) THEN {} ELSE remote[p]]
  /\ UNCHANGED <<repoVars, runs, serverVars, ipfsVars>>

-----------------------------------------------------------------------------
\* What a client does once it has been sent on its way, and what a handler
\* does once a request has arrived.
ClientStep(p)  == MergeRemote(p) \/ Truncate(p) \/ WriteManifestFile(p)
HandlerStep(h) ==
  \/ GetDataset(h) \/ ConnectToPeer(h) \/ ConnectToPeerFails(h)
  \/ Recieve(h) \/ Reject(h) \/ SaveDataset(h) \/ SaveDatasetFails(h)

Next ==
  \/ \E p \in Proc : Setup(p) \/ Commit(p) \/ PostAsset(p) \/ GetAsset(p)
                     \/ ClientStep(p) \/ Stop(p)
  \/ \E h \in Handler : HandlerStep(h)
  \/ ServerRestart

Spec == Init /\ [][Next]_vars

\* Users start commands when they like.  A running process and a goroutine
\* of the server do get to run.  Pinning may fail, but data that nobody has
\* is waited for, so a failing pin is nothing to count on.
Fairness ==
  /\ \A p \in Proc :
       WF_vars(ClientStep(p) /\ (pc'[p] = "idle" =>
                                   pc[p] = "writing" \/ MergeError(mem[p], remote[p])))
  /\ \A h \in Handler :
       WF_vars(HandlerStep(h) /\ (hpc'[h] = "rejected" => MergeError(hold[h], hnew[h])))

FairSpec == Spec /\ Fairness

-----------------------------------------------------------------------------
\* Safety

\* Every manifest a repository's file names, and the one the server
\* publishes, is saved on that party's own IPFS node, and so is the data of
\* each of its versions: MergeAndCommit pins and saves before
\* WriteManifestFile and session.Save make the manifest visible.
Durable ==
  /\ row \in saved[Server] /\ Hashes(row) \subseteq pinned[Server]
  /\ \A r \in Repo : file[r] \in saved[r] /\ Hashes(file[r]) \subseteq pinned[r]

\* However clocks, parents and pushes interleave, every repository's and the
\* server's history has one version per data hash and no cycle, so `log' and
\* the next merge can sort it.
HistoriesWellFormed ==
  WellFormed(row) /\ \A r \in Repo : WellFormed(file[r])

\* Once the server has accepted a push, its answer holds all that was pushed
\* and merges cleanly into the client's manifest (the second half of
\* Dorothy.Push): the user never sees a conflict for a push that was taken.
AcceptedPushMerges ==
  \A p \in Proc : pc[p] = "answered" /\ cmd[p] = "push"
                    => mem[p] \subseteq remote[p] /\ WellFormed(remote[p])

\* A push of what the server already has, such as the retry of a push whose
\* answer was lost, is never rejected.
RetryNotRejected ==
  \A h \in Handler : hpc[h] = "rejected" => ~(hnew[h] \subseteq hold[h])

\* What a command completed with stays in the repository: the manifest file
\* names every version that a commit, push or fetch has reported.
LocalHistoryKept ==
  \A r \in Repo : ~torn[r] => reported[r] \subseteq file[r]

\* What a client was told is pushed stays published.
AckedKept == acked \subseteq row

\* What overlapping pushes drop from the row is not gone: the server's node
\* keeps every version a client was told is pushed, with its data, and so does
\* the file of a repository, from where it can be pushed again.
AckedRecoverable ==
  \A v \in acked :
    /\ v.hash \in pinned[Server] /\ \E m \in saved[Server] : v \in m
    /\ \E r \in Repo : torn[r] \/ v \in file[r]

\* If users only ever name parents their manifest holds, then every parent
\* of a published version is published, and every parent of a repository's
\* version is in the repository, though pushes overlap and processes die.
HistoryClosed(m) == \A v \in m : UnknownCommits(m, v.parents) = {}
ParentsKnown ==
  ~ConfirmUnknown => HistoryClosed(row) /\ \A r \in Repo : HistoryClosed(file[r])

\* Liveness: a command that has sent its request, or has its answer, ends,
\* if only with an error.  Recieve and the client's merge have no timeout, so
\* this takes that the other side has everything they ask it for.
CommandsEnd == \A p \in Proc : pc[p] \notin {"idle", "ready"} ~> pc[p] = "idle"

\* Histories as the abstract specification has them: a repository's is what
\* its commands have reported, the published one is the server's row.
VH == INSTANCE VersionHistory
        WITH Replica <- Repo, Version <- Draft, history <- reported, published <- row
ImplementsVersionHistory == VH!Spec
=============================================================================
