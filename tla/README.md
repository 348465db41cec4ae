# A verification project for dorothy

Dorothy versions scientific data: a *repository* is a directory with a
`.dorothy` in it, data and manifests live in IPFS, and a server ("dataforge")
publishes datasets. This directory holds TLA+ models of the parts of dorothy
that change state, the TLC configurations that check them, and TLAPS proofs.

## The system

| part | source | state it keeps | operations |
|---|---|---|---|
| versions and manifests | `core/manifest.go` | none: values | `Equal`, `Conflicts`, `Diff`, `Merge`, `toposort`, `UnknownCommits`, `LeafVersions` |
| repository commands | `core/dorothy.go`, `cmd/` | `.dorothy/manifest`; `Dorothy.Manifest` in memory | `Setup`, `Commit`, `Push`, `Fetch`, `WriteManifestFile` |
| IPFS wrapper | `core/ipfs.go` | pins and blocks of a node, its `repo.lock` | `Connect`, `GetManifest`, `SaveManifest`, `MergeAndCommit` |
| repository life cycle | `core/dorothy.go`, `cmd/init.go`, `cmd/clone.go` | the directory, `config.toml`, the node, the manifest file | `Initialize`, `Clone`, `IsInitialized`, `ReloadConfig` |
| dataset server | `server/handlers.go` | the dataset's row in SQLite, requests in progress | `GetDataset`, `RecieveDataset`, `Dataset` |
| client session | `sdk/client.go`, `sdk/credentials.go` | cookie jar, `.dorothy/cookies`, the login form's focus | `LoginGuard`, `Login`, `ReadCookies`, `WriteCookies` |
| server authentication | `server/auth.go` | the secret that signs tokens | `MakeToken`, `Verifier`, `Authenticator` |
| catalogue | `server/db.go`, `server/handlers.go`, `server/model` | users, organisations, datasets, privileges | `CreateUser`, `CreateOrganization`, `CreateDataset`, listing and reading |
| configuration | `core/config.go`, `core/dorothy.go`, `cmd/config-*.go` | the user's, the repository's and a named `config.toml`; `Dorothy.Config`, `LoadedConfigs` | `LoadConfigFile`, `SetConfig`, `GetConfig`, `DelConfig`, `ReloadConfig` |
| choice of parents | `cmd/commit.go`, `core/versionlist.go` | ticks and filter of the version picker | `checkParentage`, key presses |
| checkout, log, web pages | `cmd/`, `server/views` | none | read only |

How they interact. `commit` adds data to the repository's node, merges a
one-version manifest into the one it loaded, pins, saves the result on the
node, and then overwrites `.dorothy/manifest` with the new hash. `push` sends
its manifest's hash and its peer identity; the server, which loaded the row's
manifest in an earlier middleware, connects *back* to the client's IPFS node,
fetches manifest and data from it, merges, pins, saves, and overwrites the
row. It answers with the merged manifest's hash, which the client fetches from
the server's node and merges in turn. `fetch` is the second half of that.

What makes it hard:

- each server request runs in a goroutine of its own, with seconds between
  reading the row and writing it;
- only the IPFS node's `repo.lock`, taken for other reasons, keeps two
  commands in one repository apart, and a `--global` repository has none;
- the manifest file and both configuration files are truncated and then
  written;
- data, manifests, file and row are four stores with no transaction across
  them; pins fail one by one, answers get lost, servers restart;
- versions are ordered by parentage *and* by clocks that need not agree;
- the manifest's identity is the hash of a sorted list;
- the login session exists in four copies;
- the catalogue's rows are written in several statements with bcrypt or IPFS in
  between, some with their errors dropped, and who may see a dataset is decided
  in three handlers;
- a configuration file is read, changed and rewritten without a lock;
- a commit's parents come from flags, a picker that opens again and again, and
  two questions; all the while the repository stays locked, and `ctrl+c` does
  not close the picker.

What must hold, part by part: manifests stay sortable, with one version per
data hash, and merging loses nothing (*manifests*); a name never gets ahead of
what it names (*IPFS wrapper*); no reported version is lost, and every command
ends (*repository commands*); an accepted push stays published, a retry is
harmless (*dataset server*); what `init` and `clone` report is usable (*life
cycle*); a request is taken once, nobody logs in twice for one session
(*session*); somebody can always manage everything, creators reach what they
created, and pages agree on who sees what (*catalogue*); a change of one key
keeps the others and is what the next command finds (*configuration*); an
unusual parentage is always agreed to, and the usual one needs nothing
(*choice of parents*). `PROJECT.json` lists every hazard with its
line and the properties that watch over it.

## Modules

| module | what it is |
|---|---|
| `Manifest` | versions and manifests as sets: `Conflicts`, `Diff`, `MergeError`, `Merge`, ... |
| `Manifest_proofs` | theorems about these operators |
| `ManifestSets` | abstract: copies that take over each other's versions, one merge of sets a step |
| `ManifestOrder` | merges on slices, with `toposort` and the sorter it calls, step by step |
| `ManifestOrder_proofs` | what the sort gives, when it fails, and that `ManifestOrder` implements `ManifestSets` |
| `DatasetSync` | repositories, command processes, the server's handlers, the row, the IPFS nodes |
| `DatasetSync_proofs` | types, durability, well-formed histories, retries; what was reported, acknowledged or answered is kept; `VersionHistory` is implemented |
| `VersionHistory` | abstract: histories that grow, and what is published of them |
| `Lifecycle`, `Lifecycle_proofs` | `init` and `clone` write by write |
| `Session`, `Session_proofs` | `LoginGuard`, the login form, tokens and cookies |
| `Catalog`, `Catalog_proofs` | the server's users, organisations, datasets and privileges |
| `Configuration`, `Configuration_proofs` | `config get`, `set` and `del` |
| `Parentage`, `Parentage_proofs` | how `commit` comes by a version's parents |
| `MCDatasetSync`, `MCLifecycle`, `MCManifestOrder`, `MCSession`, `MCCatalog`, `MCConfiguration`, `MCParentage` | instances for TLC |

`DatasetSync`, `ManifestOrder`, `ManifestSets` and `Parentage` extend `Manifest`;
`DatasetSync` instantiates `VersionHistory`, `ManifestOrder` `ManifestSets`. The others stand alone and meet `DatasetSync` at
its edges: `Lifecycle` ends with repositories that exist, `Session` with
requests that are let in, `Catalog` with a row that has the empty manifest,
`Parentage` with a commit whose parents are settled (with `ConfirmUnknown`
false, `DatasetSync` has users who never say yes to unknown ones), and
`Configuration` with the remote and the kind of node that a command finds.

### Manifest, ManifestOrder and ManifestSets

A version is a record of hash, author, date and parents; message and path type
are folded into the author, since only their equality matters. `Equal` is the
code's: `SameParents` means to compare the parents, but appends to `these` where
it needs an empty slice (`core/manifest.go:88`) and compares `v`'s parents with
themselves, so only their number counts. Two versions that differ in nothing
else would pass for one, without a conflict, and `Merge` would drop the newer
one; for that an author has to commit the same data twice at one instant.
`ToldApart` says that nobody does. `DatasetSync` assumes it of what users commit,
and the theorems that need it say so; `ManifestOrder` and `Parentage` do without,
and `order` has such a pair among its candidates. A manifest is a set. That is an abstraction of a list, and `ManifestOrder` is what it rests on:
the same merges on slices, implementing those of `ManifestSets` on sets
(`ImplementsSets`).

| variable of `ManifestOrder` | code |
|---|---|
| `manifest` | `Manifest.Versions` of each copy: the repositories and the server |
| `target`, `new` | receiver and argument of the `Merge` in progress |
| `taken`, `slice` | the progress of its loop, and `updated`, which `toposort` sorts |
| `root`, `stack`, `sorted`, `cyclic` | the sorter: the loop of `Sort`, the calls of `visit` that have not returned, the nodes in the order their visits returned, whether a cycle was met |

Merges are modelled one at a time: `Merge` reads nothing but its operands, and
how commands and handlers interleave is the subject of `DatasetSync`. The sorter
is a recursive depth-first search; `stack` is its call stack, with the place in
the list of children that each call has come to. Children are found in the order
`toposort` adds the edges: a node has `2*Len(slice)` *slots*, first one for each
version it may be a parent of, then one for each version it may be older than.
A cycle is noted and skipped, and the caller drops the result in the end.

Versions of equal date may come out in different orders in different copies;
their manifests then have different hashes, and the next push or fetch merges
them without a conflict. `SameVersionsSameManifest` therefore speaks of
manifests in which all dates differ.

### DatasetSync

| variable | code |
|---|---|
| `file`, `torn` | `.dorothy/manifest`, and whether it has been truncated and not rewritten |
| `pc`, `cmd`, `mem`, `remote` | a process: its progress, command, `d.Manifest`, the answer's manifest |
| `row` | `Dataset.ManifestHash` in the database |
| `hpc`, `hclient`, `hwaiting` | a request: its progress, its client, whether the client is still there |
| `hold`, `hnew` | `old` and `payload.Hash` in `RecieveDataset` |
| `pinned`, `saved` | data and manifests pinned on each IPFS node |
| `reported`, `acked` | history variables: what commands have completed with, what pushes have been acknowledged |

A manifest stands for its hash; whoever holds a hash can read the manifest once
some online node has it. Each action is the code between two points where
another process or a crash can be noticed. `Commit` is one action although it
pins twice and saves, because nothing of that is visible until the manifest
file names it; `MergeAndCommitFails` covers what partial pinning leaves behind.
`Recieve` is guarded by the data being online somewhere and has no failing
alternative for a peer that is gone: the code has no timeout there. `Stop` is
an interrupt, a kill, or a network error at any point; the handler goes on.
`ServerRestart` loses all requests and keeps database and node. The ten-second
limit on connecting is a failure that may happen at any time. Clocks are free:
`Draft` fixes which dates and parents users may come up with.

`commit --no-pin` is not distinguished: `MergeAndCommit` pins a new version's
data whether `Add` did so or not, in spite of the flag's help text ("do not pin
the data to your local node", `cmd/commit.go:141`).

Left out: the local disk failing while a node pins or saves; garbage collection
by kubo, which never removes what is pinned; several `--global` repositories
sharing one daemon (each has its own set of pins here); log-in (see `Session`).

### Lifecycle

`toml`, `node`, `manifest` are what is on the disk, `savedOn` the nodes that
have the manifest, `conf`, `conn`, `loaded`, `rest` the fields of `Dorothy`.
Every write is an action and truncating a file is an action before it.
`ReloadConfig` follows the code file by file, since it reconnects after each.
`CrashIn` says where a process may be killed; in the run `lifecycle` that is
everywhere. `toml` also records whether the file was ever written to its end
(`whole`), which no command can tell.

A kill inside `os.WriteFile` is what no later command repairs. In a first `init`
it may leave an empty manifest file; that counts as a repository
(`IsInitialized` only looks whether there is a file), and the next `init` says
"re-initialized" of something no command can use. In `clone` it may leave an
empty `config.toml`, which is a valid one and says that the repository has a node
of its own. `ReportedUsable` is therefore stated for files that were written to
their end, and holds wherever else processes are killed.

Reconnecting with half a configuration is why `clone --global` reports a missing
node if the user's own file does not say `ipfs.global`: it looks for a node in
the repository before it has read that the repository has none
(`GlobalNeedsNoNode`, violated in `lifecycle_clone_global`). Without `--global` the
same reload is harmless, because the node comes before the manifest
(`NodePresent`).

### Session

`file`, `jar` and `valid` are the cookie file, the jar, and the tokens the
server takes; `world` is a choice of private or public, of role and of
privileges made in `Init`, so that one run covers all of them. `Status` is the
answer that `GetOrganization` and `GetDataset` give before `RecieveDataset`
runs. A lost answer may or may not have been preceded by the server's work. A
redirect has the status 302 whatever was set before it (that is what fiber's
`Redirect` does), so an anonymous push to a private organisation is never asked
to log in. A manifest hash the handler cannot parse, a peer out of reach and a
failed save (400, 408 and 500) leave the session as a taken or a lost request
does, and are not told apart from these.

An answer without a user also expires the cookie, but fiber's `ClearCookie`
sends no path, so Go's jar files the expired cookie under the request's own path
and keeps the token that it has for `/`: the jar does not change.

A fetch goes through the same steps, with nothing for the server to take; after
a login both write the cookies once more than `LoginGuard` (`rewrite`). While `LoginGuard` asks, `focus` is
the form's `focusIndex`. Going up from the first field leads to a place on
which no field has the focus (`Up`); `ThreeEnters` bounds what that costs.

### Catalog

`users`, `admins`, `orgs`, `closed`, `orgAdmin`, `datasets` and `datasetAdmin`
are the database's tables, `codes` the lookup tables that `Initialize` fills
and whose foreign keys later inserts need; `step`, `who`, `role`, `org` and
`form` are the local variables of the requests in progress. Each action is one
statement, or one transaction, of a handler, with both outcomes where a
statement may fail. `CountUsers` and `CreateUser` are apart since bcrypt runs
in between; `SaveOrganization` and `SaveOrganizationPrivilege` since nothing
joins them; `SaveDataset` is one transaction. `Shows`, `Lists`, `Guarded` and
`Reaches` are the conditions of `GetOrganizations`, `GetOrganization` and
`GetDataset` as they are written there, and `ListedReachable` compares them.
Slugs are not empty and are none of the server's fixed routes (`login`,
`dataset` and so on, `server/server.go:134-152`), which would take the page's
place; no handler checks that.
An organisation whose privilege was not saved can be managed by the server's
administrator, which is what `SomebodyManages` relies on: overlapping first
registrations may give several administrators, never none.

### Configuration

`file` maps each of the three files to its keys, `conf` and `loaded` are
`Dorothy.Config` and `LoadedConfigs`, `todo` the files a loop has still to
load, `draft` what will be written. Loading is one action per file, and
truncating is apart from writing. `alone` and `was` are history: the properties
speak of a process during which no other one ran, because two `config set` at a
time do lose one another's keys (nothing locks the file). A `remote` without a
scheme can be set but not loaded, and `config set -n` without `--config` indexes
an empty list; both are in the model, as ends of a command.

### Parentage

`cmd` has the flags `-p` and `-P`; `chosen`, `shown` and `filtering` are the
picker's ticks, its filter's result, and whether a filter is being typed;
`parents` is what `checkParentage` returns. `OpenPicker` starts a new picker
each time; what was ticked in the last one is forgotten. `Fetch` brings in
other people's versions between commands, so that the history forks.

## Runs

| run | instance | shows |
|---|---|---|
| `sync_push` | 2 repositories, one of them `--global`, 1 request at a time, same data on both sides, skewed clocks, missing parents; 4 commands | `TypeOK`, `HistoriesWellFormed`, `AckedKept`; `DatasetSync` implements `VersionHistory`; under fairness `CommandsEnd` |
| `sync_overlap` | 2 repositories, 2 processes in one of them, 2 requests at a time, children and unrelated versions, no unknown parents; 5 commands | `Durable`, `AcceptedPushMerges`, `RetryNotRejected`, `ParentsKnown`, `LocalHistoryKept`, `AckedRecoverable` |
| `order` | 2 copies, 8 candidates of 4 hashes with equal dates, skewed clocks, conflicts, mutual parents and a version that names itself; merged in every order, step by step | `TypeOK`, `ManifestsOrdered`, `MergeAgreesWithSets`, `SameVersionsSameManifest`, `RecursionBounded`; `ManifestOrder` implements `ManifestSets`; under fairness `MergeEnds` |
| `lifecycle` | local or global repositories, 4 commands, killed anywhere | `TypeOK`, `ReportedUsable`, `NodePresent`, `InitKeepsDataset` |
| `session` | all privileges, 2 tokens, 4 commands, killed anywhere | `TypeOK`, `TakenOnce`, `ThreeEnters`, `NotAskedAgain` |
| `catalog` | 2 users, 2 organisations, 1 slug for datasets, 2 requests at a time, restarts | `TypeOK`, `SomebodyManages`, `CreatorReaches`, `ListedReachable`, `ManifestSaved` |
| `config` | 3 files, 14 commands with every flag, 2 processes, 2 commands | `TypeOK`, `SetThenGet`, `OthersKept`, `ReloadAgrees` |
| `commit` | 3 hashes, every combination of flags, any number of commits and fetches | `TypeOK`, `AskedFirst`, `LineContinues` |

These pass. The following are violated, each by a disagreement of the code with
what a document, a message or a test of the repository says; `PROJECT.json`
quotes them under `findings`.

| run | property | what happens |
|---|---|---|
| `sync_lost_push` | `AckedKept` | two pushes at a time: the later save overwrites the earlier one |
| `sync_global` | `LocalHistoryKept` | two commits at a time in a `--global` repository: one is lost |
| `lifecycle_leftover` | `ReportedUsable` | a failed `init --global`, then `init`: "initialized" but without a node |
| `lifecycle_clone_global` | `GlobalNeedsNoNode` | `clone --global` looks for the node that it has not made |

Bounds, and why they are enough. Two repositories and two request slots are
what the races need: a third push adds nothing to one that overwrites another.
A command is bounded by `MaxRuns`; the longest scenario of interest, a commit
and a push on either side and a fetch, takes five, and `sync_overlap` has them.
`sync_push` stops at four, for liveness is checked on the whole graph; what it
checks of safety is proved for every bound. Two data hashes allow every
way for two versions to disagree: same hash, parent and child, mutual parents,
unrelated. The third process of `sync_overlap` shares a repository with the
first, so that the lock is contended while pushes overlap. In `lifecycle` four commands allow two failures before a success and
a use; deeper histories repeat states of the disk. In `session` two tokens
allow one to replace another. In `catalog` two
requests are what a read and a later write need, and the second organisation is
for the form that names another one than its path; rows are only added, so the
state is finite without a bound. In `config` a second process is either run
beside the first or after it; one that follows finds what the first has left,
killed or not. In `commit` three hashes allow a fork, its join, and a parent
that is not there; the number of commits is bounded by the hashes alone, since
data that is committed already conflicts. `CHECK_DEADLOCK FALSE` stands where commands are
bounded, or where a torn file really stops a repository; `order`, `catalog` and `commit` check it.

Fairness (`FairSpec`): in `ManifestOrder` a merge that has begun goes on, since
it is a call that waits for nothing; `MergeEnds` then says that its recursion
ends, on cyclic slices too. In `DatasetSync` a process that has its answer and a handler that has a
request take their next step if it stays possible. That is what the operating
system and the Go scheduler give; nothing is assumed of users (who need not
start, commit or push), of the network (which may fail) or of restarts.
`CommandsEnd` is checked with one request at a time; a handler waits for peers,
never for another handler. Pinning may fail at any time, but fairness does not count on it: without
the data, `Recieve` and the client's merge wait.
`CommandsEnd` needs no more, since a step that waits for a peer's manifest can
rely on `Durable`: the server's node has what its answer names, and a client
that has gone takes its request's waiting with it.

## Proofs

`Manifest_proofs` proves, of all manifests: a merge that is no error is well
formed (`MergeWellFormed`); merging a part into the whole, or the whole into a
part, is never an error and gives the whole (`MergeOfPart`, `MergeIntoPart`);
merging is symmetric (`MergeCommutes`); it fails exactly if the union is not
well formed (`MergeErrorIffUnion`; both if the versions are `ToldApart`), so histories that go together may be merged
in any order and grouping (`MergeOrderIrrelevant`), and two that cannot be merged
never can again (`MergeErrorPersists`: the same data committed on both sides
parts them for good; `ToldApart` again); a nonempty manifest without a cycle has a leaf
(`LeafExists`).

`ManifestOrder_proofs` proves all of `ManifestOrder`'s for any copies and
candidates, hence for slices of any length. The invariant of the depth-first
search has one part for each thing that its result depends on: `PathInv` (each
call on the stack was made for a child of the one below it, so a node met again
closes a cycle of the slice: `cyclic` is never wrong), `ChildrenInv` (a call has
seen to all children in the slots before its own), `PostorderInv` (while no cycle
was met, a node is sorted after all of its children), `RootInv` and `OnceInv` (in
the end each node is sorted once). From these, `ResultIsSorted`; and that a
slice whose sort met no cycle has none, since every nonempty part of it has a
node that is sorted last (`LeastNatural`). `OnceInv` also bounds the recursion (`RecursionBounded`): the
nodes on the stack and the sorted ones are an injection into the slice. `SliceInv` relates `slice` to the sets
being merged. `SameVersionsSameManifest` needs no step of its own: two ordered
lists of the same versions, all of different dates, cannot have a first
difference (`OrderedUnique`). The refinement then follows action by action;
only `Finish` is not a stutter.

`DatasetSync_proofs` proves, for every value of the constants that meets
`ConstantsAssumption`, hence for any number of repositories, processes and
overlapping requests, `--global` or not:

- `TypeCorrect`: `Spec => []TypeOK`, by one step per action.
- `DurableCorrect`: `Spec => []Durable`. `Durable` is not inductive: whether
  `WriteManifestFile` keeps it depends on what a process holds in memory.
  `IDurable` adds that the manifest in the memory of every running process, the
  manifest each handler has loaded, and what a handler in the state "saving" is
  about to write are kept on the node they belong to. Pins and saved manifests only grow
  (`StoreGrows`), so each action has to be looked at only for the manifests it
  changes.
- `HistoriesWellFormedCorrect`: likewise with `IWell`, which extends
  well-formedness to memory, answers and requests, and with `MergeWellFormed`.
- `RetryNotRejectedCorrect`: a handler rejects only if the merge fails, or if
  pinning fails; `MergeOfPart` and `IWell` rule out the first for a part of
  what is published, and there is nothing to pin.

And, building on these, still for every instance:

- `AcceptedPushMergesCorrect`: `IAnswer` ties a handler to the client that waits
  for it (the client is still where `PostAsset` left it, with the manifest it
  sent), so the merge that is answered contains what the client has.
- `ParentsKnownCorrect`: `IClosed` extends `ParentsKnown` to memory, answers and
  requests; a merge of manifests that have their parents has them too.

Under assumptions without which the runs `sync_global` and `sync_lost_push` find
violations, namely `NoSharing` (no two processes run in one `--global`
repository; there may be any number of such repositories) and `[]Serial` (no two
handlers work at a time between reading the row and answering; any number may
have arrived). A lock in the server's code from `GetDataset` to `session.Save`
would establish `Serial`; one request slot does trivially (`OneSlotIsSerial`):

- `LocalHistoryKeptCorrect`, with `NoSharing`: `ILocal` says that a
  repository has one process at a time, that this process has in memory all that
  the file names, and that it alone leaves the file torn.
- `AckedRecoverableCorrect`, with `NoSharing` and any number of overlapping
  pushes: `ISent` says that a client sends only what it has reported before, so
  what is acknowledged is in a file by `ILocal`, and on the server's node by
  `IDurable`. What `sync_lost_push` loses can thus be pushed again.
- `AckedKeptCorrect`, with `[]Serial`: `IPublished` says that what a
  handler has loaded is what the row still has.
- `ImplementsVersionHistoryCorrect`, with both: every step is mapped to a
  `Record`, `Pull` or `Publish` or to a stutter. `ISource` says where the
  manifests on their way come from; `ILocal` and `IWell` give the guards.

`Lifecycle_proofs` proves `TypeOK` and `InitKeepsDataset` without assumptions
(`IMade`: a manifest file is made last), `NodePresent` without any, since the
property is about users who never say `--global`, and `ReportedUsable` for users
who always or never do (`Separate`; `lifecycle_leftover` shows why). Processes may
be killed anywhere in all of them. The inductive invariant is `IUsable`: `IKind`
relates `config.toml` to what users say, `IConf` what a process has read to the
files, at every point of the reload, `INode` the manifest to the node that holds
it, `ISaid` the report to all of these.

`Session_proofs` proves all of `Session`'s properties for any number of tokens
and commands: `ITaken` (nothing is taken before the login), `IEnters` (how far
the form's focus is from the last field), `ISession` (the accepted token is in
the file, or the file is torn, and in every running command's jar).

`Catalog_proofs` proves all of `Catalog`'s for any number of users,
organisations, slugs and requests: `IRequest` (what a request in progress refers
to exists), `IAdmin` (a registration that is not to be an administrator has
counted a user, who is still there), `ICreator` and `ISaved`.

`Parentage_proofs` proves all of `Parentage`'s for any set of hashes, hence for
histories of any length: `IAsked` (what has been agreed to at each point) and
`ILine` (while nothing is touched the ticks are the preselection; the manifest
is well formed). `NewLeaf` is the step from a commit on the one leaf to a new
one leaf.

`Configuration_proofs` proves all of `Configuration`'s for any processes,
commands and initial files. `IPlan` says where a command is in its loading:
what it has loaded and has still to load make up `Plan`, and a command that
writes has a last file or `-g`, so that `TargetOf` is the same file before the
write and after the reload. `IHistory` says, of a process that is alone, what
the files are compared with those it started from, that its draft differs from
the file in one key (`Drafted`), and what the files loaded so far amount to
(`Reloaded`); `OtherAlone` is the reason that only its own steps count.

Only model-checked: `CommandsEnd` and `MergeEnds` (liveness is out of the
prover's reach).

## Not modelled

- *checkout and log* read the manifest and an IPFS object and change no state of
  the repository; neither do templates and styles.
- *The server process*: `serve` starts and stops it. It reads the result of
  `Listen` only after an interrupt, so a server without its port stays up; that
  is all there is to it.
- *Editors and forms' looks*: the commit message is any value; pages, cursors and
  styles are left out.
- *IPFS itself, SQLite, fiber, toml and the JWT library* are external and modelled
  by what the code relies on; so are local disk errors other than a kill between
  two writes.
- *A torn manifest, configuration or cookie file* is in the models with what
  follows from it, but no property promises recovery: the code has none.

## What is left

1. A composition of `Session` and `DatasetSync`: the token that expires while a
   push waits for its peer. The two meet in one request only, and each has the
   other's outcomes as choices of its own (`Stop`, `Status`).
2. Several `--global` repositories that share one daemon's pins.
3. Sharper assumptions in `Lifecycle_proofs`: which sequences of plain and
   `--global` commands are harmless although they are not `Separate`.
