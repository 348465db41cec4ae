------------------------------ MODULE Lifecycle ------------------------------
(***************************************************************************)
(* How a directory becomes a dorothy repository: `dorothy init' and        *)
(* `dorothy clone' step by step, with crashes in between, and what the     *)
(* next command finds.                                                     *)
(*                                                                         *)
(* The directory .dorothy holds config.toml, the manifest file and, unless *)
(* the repository uses the global IPFS daemon, an IPFS node.  Only what    *)
(* decides the control flow is kept of a configuration: whether ipfs.global*)
(* is set, and whether a remote is.                                        *)
(***************************************************************************)
EXTENDS Naturals, Sequences

CONSTANTS Repertoires,  \* sets of commands that users run in a directory
          CrashIn,      \* the steps in which a process may be killed
          MaxCommands   \* bound: how many commands are run

Command == {"init", "init --global", "clone", "clone --global", "use"}
Global  == {"init --global", "clone --global"}

ASSUME LifecycleAssumption == Repertoires \subseteq SUBSET Command /\ MaxCommands \in Nat

VARIABLES
  \* the disk
  dir,       \* .dorothy is a directory
  toml,      \* .dorothy/config.toml
  node,      \* .dorothy holds an initialised IPFS node
  manifest,  \* .dorothy/manifest
  \* IPFS and the user's own configuration
  savedOn,   \* the nodes that have saved the manifests of this repository
  daemon,    \* the global IPFS daemon is running
  xdg,       \* the user's config.toml sets ipfs.global
  commands,  \* the commands this user runs: does not change
  \* the process
  pc, cmd,
  conf,      \* Dorothy.Config
  conn,      \* the IPFS node it is connected to
  loaded,    \* Dorothy.LoadedConfigs
  rest,      \* the configs ReloadConfig has yet to load
  said,      \* what the last command came to
  ran        \* number of commands run

diskVars == <<dir, toml, node, manifest>>
procVars == <<pc, cmd, conf, conn, loaded, rest, said, ran>>
userVars == <<xdg, commands>>
vars == <<diskVars, savedOn, daemon, userVars, procVars>>

Step == {"idle", "initialize", "config truncate", "config write", "ipfs", "reconnect",
         "save", "init truncate", "init write", "set truncate", "set write", "reload",
         "fetch", "fetch truncate", "fetch write", "clone", "setup"}

\* A truncated config.toml is an empty configuration, and a valid one.  That
\* it was never written to its end (~whole) is for the properties: no command
\* can tell.
NoToml    == [there |-> FALSE, whole |-> FALSE, global |-> FALSE, remote |-> FALSE]
EmptyToml == [there |-> TRUE, whole |-> FALSE, global |-> FALSE, remote |-> FALSE]
EmptyConf == [global |-> FALSE, remote |-> FALSE]

TypeOK ==
  /\ dir \in BOOLEAN /\ node \in BOOLEAN /\ daemon \in BOOLEAN
  /\ xdg \in BOOLEAN /\ commands \in Repertoires
  /\ toml \in [there : BOOLEAN, whole : BOOLEAN, global : BOOLEAN, remote : BOOLEAN]
  /\ manifest \in {"none", "empty", "named"}
  /\ savedOn \subseteq {"local", "global"}
  /\ pc \in Step /\ cmd \in Command \cup {"none"}
  /\ conf \in [global : BOOLEAN, remote : BOOLEAN]
  /\ conn \in {"no", "local", "global"}
  /\ loaded \in Seq({"xdg", "toml"}) /\ rest \in Seq({"xdg", "toml"})
  /\ said \in {"nothing", "initialized", "re-initialized", "cloned", "used", "no daemon",
               "no node", "not a repository", "already a dataset", "no manifest", "fetch failed"}
  /\ ran \in 0..MaxCommands

Init ==
  /\ dir = FALSE /\ toml = NoToml /\ node = FALSE /\ manifest = "none"
  /\ savedOn = {} /\ daemon \in BOOLEAN /\ xdg \in BOOLEAN /\ commands \in Repertoires
  /\ pc = "idle" /\ cmd = "none" /\ conf = EmptyConf /\ conn = "no"
  /\ loaded = <<>> /\ rest = <<>> /\ said = "nothing" /\ ran = 0

-----------------------------------------------------------------------------
\* Mutant of IsInitialized: the directory never counts as a repository.
IsInitializedNever == FALSE

IsInitialized == dir /\ toml.there /\ manifest # "none"

\* Mutant of ReadFile: the remote is not read.
ReadFileNoRemote(c, f) == [global |-> c.global \/ (IF f = "xdg" THEN xdg ELSE toml.global)]

\* Config.ReadFile reads over what is there; a missing file changes nothing.
ReadFile(c, f) ==
  IF f = "xdg" THEN [c EXCEPT !.global = @ \/ xdg]
  ELSE [global |-> c.global \/ toml.global, remote |-> c.remote \/ toml.remote]

\* The node that a configuration connects to, and whether that works.
NodeOf(c)      == IF c.global THEN "global" ELSE "local"
Connectable(c, nd) == IF c.global THEN daemon ELSE nd

\* The command ends, with a result to tell the user.
End(result) == pc' = "idle" /\ conn' = "no" /\ said' = result
Goto(step)  == pc' = step /\ UNCHANGED said

ConnectFails(c) == End(IF c.global THEN "no daemon" ELSE "no node")

\* NewDorothy and LoadDefaultConfig.
Start(c) ==
  /\ pc = "idle" /\ ran < MaxCommands
  /\ ran' = ran + 1
  /\ cmd' = c
  /\ conf' = ReadFile(ReadFile(EmptyConf, "xdg"), "toml")
  /\ loaded' = <<"xdg", "toml">>
  /\ pc' = CASE c \in {"init", "init --global"} -> "initialize"
             [] c \in {"clone", "clone --global"} -> "clone"
             [] c = "use" -> "setup"
  /\ said' = "nothing"
  /\ UNCHANGED <<diskVars, savedOn, daemon, userVars, conn, rest>>

\* Clone refuses a directory that is a repository already.
Clone ==
  /\ pc = "clone"
  /\ IF IsInitialized THEN End("already a dataset") ELSE Goto("initialize") /\ UNCHANGED conn
  /\ UNCHANGED <<diskVars, savedOn, daemon, userVars, cmd, conf, loaded, rest, ran>>

\* Dorothy.Initialize: a repository is only connected; otherwise the
\* directory is made, and --global noted in the configuration.
Initialize ==
  /\ pc = "initialize"
  /\ IF IsInitialized
     THEN Goto("reconnect") /\ UNCHANGED <<dir, conf>>
     ELSE /\ dir' = TRUE
          /\ conf' = [conf EXCEPT !.global = @ \/ cmd \in Global]
          /\ Goto("config truncate")
  /\ UNCHANGED <<toml, node, manifest, savedOn, daemon, userVars, cmd, conn, loaded, rest, ran>>

\* The configuration that init and clone write.
NewToml == [EmptyToml EXCEPT !.whole = TRUE, !.global = cmd \in Global]

\* Config.WriteFile, of the new configuration and then of the remote.
TruncateConfig ==
  /\ pc \in {"config truncate", "set truncate"}
  /\ toml' = EmptyToml
  /\ Goto(IF pc = "config truncate" THEN "config write" ELSE "set write")
  /\ UNCHANGED <<dir, node, manifest, savedOn, daemon, userVars, cmd, conf, conn, loaded, rest, ran>>

WriteConfig ==
  /\ pc = "config write"
  /\ toml' = NewToml
  /\ Goto("ipfs")
  /\ UNCHANGED <<dir, node, manifest, savedOn, daemon, userVars, cmd, conf, conn, loaded, rest, ran>>

\* Mutant of NodeAfterInit: fsrepo.Init is never called.
NodeAfterInitSkipped(c) == node

\* Ipfs.Initialize: a node of its own, unless the repository is --global.
NodeAfterInit(c) == node \/ ~c.global

InitializeAndConnectIpfs ==
  /\ pc \in {"ipfs", "reconnect"}
  /\ node' = NodeAfterInit(conf)
  /\ IF ~Connectable(conf, node') THEN ConnectFails(conf)
     ELSE IF pc = "reconnect" THEN End("re-initialized")
     ELSE conn' = NodeOf(conf) /\ Goto("save")
  /\ UNCHANGED <<dir, toml, manifest, savedOn, daemon, userVars, cmd, conf, loaded, rest, ran>>

\* Mutant of SaveManifest: the manifest is written down but not saved.
SaveManifestSkipped == UNCHANGED savedOn

SaveManifest == savedOn' = savedOn \cup {conn}

CreateEmptyManifest ==
  /\ pc = "save"
  /\ SaveManifest
  /\ Goto("init truncate")
  /\ UNCHANGED <<diskVars, daemon, userVars, cmd, conf, conn, loaded, rest, ran>>

\* WriteManifestFile: truncate, then write.
TruncateManifest ==
  /\ pc \in {"init truncate", "fetch truncate"}
  /\ manifest' = "empty"
  /\ Goto(IF pc = "init truncate" THEN "init write" ELSE "fetch write")
  /\ UNCHANGED <<dir, toml, node, savedOn, daemon, userVars, cmd, conf, conn, loaded, rest, ran>>

WriteManifest ==
  /\ pc \in {"init write", "fetch write"}
  /\ manifest' = "named"
  /\ IF pc = "fetch write" THEN End("cloned")
     ELSE IF cmd \in {"clone", "clone --global"} THEN Goto("set truncate") /\ UNCHANGED conn
     ELSE End("initialized")
  /\ UNCHANGED <<dir, toml, node, savedOn, daemon, userVars, cmd, conf, loaded, rest, ran>>

\* Clone sets the remote: SetConfig rewrites the file it read, and calls
\* ReloadConfig, which starts from an empty configuration.
SetRemote ==
  /\ pc = "set write"
  /\ toml' = [there |-> TRUE, whole |-> TRUE, global |-> cmd \in Global, remote |-> TRUE]
  /\ conf' = EmptyConf
  /\ rest' = loaded
  /\ Goto("reload")
  /\ UNCHANGED <<dir, node, manifest, savedOn, daemon, userVars, cmd, conn, loaded, ran>>

\* ReloadConfig loads each file again; after every one of them, and at the
\* end, ReloadIpfs connects anew with what is configured by then.
ReloadConfig ==
  /\ pc = "reload"
  /\ LET c == IF rest = <<>> THEN conf ELSE ReadFile(conf, Head(rest))
     IN  /\ conf' = c
         /\ IF rest = <<>> THEN UNCHANGED <<loaded, rest>>
            ELSE loaded' = Append(loaded, Head(rest)) /\ rest' = Tail(rest)
         /\ IF ~Connectable(c, node) THEN ConnectFails(c)
            ELSE /\ conn' = NodeOf(c)
                 /\ Goto(IF rest = <<>> THEN "fetch" ELSE "reload")
  /\ UNCHANGED <<diskVars, savedOn, daemon, userVars, cmd, ran>>

\* Dorothy.Fetch: the server may be out of reach; else the merged manifest
\* is saved on the node.
Fetch ==
  /\ pc = "fetch"
  /\ \/ End("fetch failed") /\ UNCHANGED savedOn
     \/ SaveManifest /\ Goto("fetch truncate") /\ UNCHANGED conn
  /\ UNCHANGED <<diskVars, daemon, userVars, cmd, conf, loaded, rest, ran>>

\* Any other command: Dorothy.Setup.
Setup ==
  /\ pc = "setup"
  /\ IF ~IsInitialized THEN End("not a repository")
     ELSE IF ~Connectable(conf, node) THEN ConnectFails(conf)
     ELSE End(IF manifest = "named" /\ NodeOf(conf) \in savedOn THEN "used" ELSE "no manifest")
  /\ UNCHANGED <<diskVars, savedOn, daemon, userVars, cmd, conf, loaded, rest, ran>>

\* The process is killed.
Crash ==
  /\ pc \in CrashIn
  /\ End("nothing")
  /\ UNCHANGED <<diskVars, savedOn, daemon, userVars, cmd, conf, loaded, rest, ran>>

\* The user starts or stops the daemon.
ToggleDaemon == daemon' = ~daemon /\ UNCHANGED <<diskVars, savedOn, userVars, procVars>>

Next ==
  \/ \E c \in commands : Start(c)
  \/ Clone \/ Initialize \/ TruncateConfig \/ WriteConfig \/ InitializeAndConnectIpfs
  \/ CreateEmptyManifest \/ TruncateManifest \/ WriteManifest
  \/ SetRemote \/ ReloadConfig \/ Fetch \/ Setup
  \/ Crash \/ ToggleDaemon

Spec == Init /\ [][Next]_vars

-----------------------------------------------------------------------------
\* What init and clone report is a repository that the next command can use,
\* wherever earlier commands failed or were killed: the manifest file names a
\* manifest on the node that the configuration leads to, and that node exists.
\* This is said of files that were written to their end.  A process killed
\* inside os.WriteFile leaves an empty manifest file or config.toml, which
\* count as a repository (IsInitialized) and which init reports and leaves.
ReportedUsable ==
  LET c == ReadFile(ReadFile(EmptyConf, "xdg"), "toml")
  IN  said \in {"initialized", "re-initialized", "cloned"} /\ manifest # "empty" /\ toml.whole
        => /\ IsInitialized /\ manifest = "named"
           /\ NodeOf(c) \in savedOn
           /\ node \/ c.global

\* Users who never say --global never miss the repository's own IPFS node,
\* wherever a command was killed and whatever half of its configuration one
\* has reloaded: init and clone make the node before the directory counts as
\* a repository.
NodePresent == commands \cap Global = {} => said # "no node"

\* Users who always say --global never need a node in the repository.
\* cmd/clone.go:34 says so of clone; but ReloadConfig connects before it has
\* read .dorothy/config.toml, and without ipfs.global in the user's own file
\* to the node that --global never made.
GlobalNeedsNoNode == commands \subseteq Global \cup {"use"} => said # "no node"

\* `init' in a directory that has a manifest leaves manifest and
\* configuration as they are.
InitKeepsDataset ==
  [][manifest = "named" /\ cmd \in {"init", "init --global"}
       => manifest' = manifest /\ toml' = toml]_vars
=============================================================================
