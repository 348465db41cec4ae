--------------------------- MODULE Lifecycle_proofs ---------------------------
(***************************************************************************)
(* Theorems about Lifecycle, for any users and any number of commands.     *)
(***************************************************************************)
EXTENDS Lifecycle, SequenceTheorems, TLAPS

-----------------------------------------------------------------------------
\* Types

\* TypeOK in three parts, which the steps below take in turn.
Flags ==
  /\ dir \in BOOLEAN /\ node \in BOOLEAN /\ daemon \in BOOLEAN
  /\ xdg \in BOOLEAN /\ commands \in Repertoires

Files ==
  /\ toml \in [there : BOOLEAN, whole : BOOLEAN, global : BOOLEAN, remote : BOOLEAN]
  /\ conf \in [global : BOOLEAN, remote : BOOLEAN]

\* What is saved is saved on a node, since a process that saves is connected.
Places ==
  /\ manifest \in {"none", "empty", "named"}
  /\ savedOn \subseteq {"local", "global"}
  /\ pc \in Step /\ cmd \in Command \cup {"none"}
  /\ conn \in {"no", "local", "global"}
  /\ pc \in {"save", "fetch"} => conn # "no"
  /\ loaded \in Seq({"xdg", "toml"}) /\ rest \in Seq({"xdg", "toml"})
  /\ said \in {"nothing", "initialized", "re-initialized", "cloned", "used", "no daemon",
               "no node", "not a repository", "already a dataset", "no manifest", "fetch failed"}
  /\ ran \in 0..MaxCommands

IType == Flags /\ Files /\ Places

LEMMA ReadFileType ==
  ASSUME NEW c \in [global : BOOLEAN, remote : BOOLEAN], NEW f, Flags, Files
  PROVE  ReadFile(c, f) \in [global : BOOLEAN, remote : BOOLEAN]
BY DEF ReadFile, Flags, Files

LEMMA CountUp ==
  ASSUME NEW max \in Nat, NEW n \in 0..max, n < max
  PROVE  n + 1 \in 0..max
OBVIOUS

\* What LoadDefaultConfig loads.
LEMMA DefaultFiles == <<"xdg", "toml">> \in Seq({"xdg", "toml"})
OBVIOUS

LEMMA DefaultHead ==
  /\ <<"xdg", "toml">> # <<>> /\ Head(<<"xdg", "toml">>) = "xdg"
  /\ <<"toml">> # <<>> /\ Head(<<"toml">>) = "toml"
OBVIOUS

LEMMA FlagsStep == IType /\ [Next]_vars => Flags'
<1> SUFFICES ASSUME IType, [Next]_vars PROVE Flags'
  OBVIOUS
<1> USE DEF IType, Flags
<1>1. ASSUME NEW c \in commands, Start(c) PROVE Flags'
  BY <1>1 DEF Start, diskVars, userVars
<1>2. CASE Initialize
  BY <1>2 DEF Initialize, userVars
<1>3. CASE InitializeAndConnectIpfs
  BY <1>3 DEF InitializeAndConnectIpfs, NodeAfterInit, userVars
<1>4. CASE Clone \/ TruncateConfig \/ WriteConfig \/ CreateEmptyManifest \/ TruncateManifest
  BY <1>4 DEF Clone, TruncateConfig, WriteConfig, CreateEmptyManifest, TruncateManifest,
              diskVars, userVars
<1>5. CASE WriteManifest \/ SetRemote \/ ReloadConfig \/ Fetch \/ Setup \/ Crash
  BY <1>5 DEF WriteManifest, SetRemote, ReloadConfig, Fetch, Setup, Crash, diskVars, userVars
<1>6. CASE ToggleDaemon \/ UNCHANGED vars
  BY <1>6 DEF ToggleDaemon, vars, diskVars, userVars, procVars
<1>7. QED
  BY <1>1, <1>2, <1>3, <1>4, <1>5, <1>6 DEF Next

LEMMA FilesStep == IType /\ [Next]_vars => Files'
<1> SUFFICES ASSUME IType, [Next]_vars PROVE Files'
  OBVIOUS
<1>c. EmptyConf \in [global : BOOLEAN, remote : BOOLEAN]
  BY DEF EmptyConf
<1>t. EmptyToml \in [there : BOOLEAN, whole : BOOLEAN, global : BOOLEAN, remote : BOOLEAN]
  BY DEF EmptyToml
<1>1. ASSUME NEW c \in commands, Start(c) PROVE Files'
  <2>1. conf' \in [global : BOOLEAN, remote : BOOLEAN]
    BY <1>1, <1>c, ReadFileType DEF Start, IType
  <2>2. QED
    BY <1>1, <2>1 DEF Start, diskVars, IType, Files
<1>2. CASE Initialize
  <2>1. (conf.global \/ cmd \in Global) \in BOOLEAN
    OBVIOUS
  <2>2. conf' \in [global : BOOLEAN, remote : BOOLEAN] /\ toml' = toml
    BY <1>2, <2>1 DEF Initialize, IType, Files
  <2>3. QED
    BY <2>2 DEF IType, Files
<1>3. CASE TruncateConfig \/ WriteConfig
  <2>1. NewToml \in [there : BOOLEAN, whole : BOOLEAN, global : BOOLEAN, remote : BOOLEAN]
    <3>1. (cmd \in Global) \in BOOLEAN
      OBVIOUS
    <3>2. QED
      BY <1>t, <3>1 DEF NewToml
  <2>2. toml' \in {EmptyToml, NewToml} /\ conf' = conf
    BY <1>3 DEF TruncateConfig, WriteConfig
  <2>3. QED
    BY <1>t, <2>1, <2>2 DEF IType, Files
<1>4. CASE SetRemote
  <2>1. (cmd \in Global) \in BOOLEAN
    OBVIOUS
  <2>2. toml' \in [there : BOOLEAN, whole : BOOLEAN, global : BOOLEAN, remote : BOOLEAN] /\ conf' = EmptyConf
    BY <1>4, <2>1 DEF SetRemote
  <2>3. QED
    BY <1>c, <2>2 DEF Files
<1>5. CASE ReloadConfig
  <2>1. conf' \in [global : BOOLEAN, remote : BOOLEAN]
    BY <1>5, ReadFileType DEF ReloadConfig, IType, Files
  <2>2. QED
    BY <1>5, <2>1 DEF ReloadConfig, diskVars, IType, Files
<1>6. CASE Clone \/ InitializeAndConnectIpfs \/ CreateEmptyManifest \/ TruncateManifest
  BY <1>6 DEF Clone, InitializeAndConnectIpfs, CreateEmptyManifest, TruncateManifest,
              diskVars, IType, Files
<1>7. CASE WriteManifest \/ Fetch \/ Setup \/ Crash
  BY <1>7 DEF WriteManifest, Fetch, Setup, Crash, diskVars, IType, Files
<1>8. CASE ToggleDaemon \/ UNCHANGED vars
  BY <1>8 DEF ToggleDaemon, vars, diskVars, procVars, IType, Files
<1>9. QED
  BY <1>1, <1>2, <1>3, <1>4, <1>5, <1>6, <1>7, <1>8 DEF Next

LEMMA StartsWith ==
  ASSUME IType, NEW c \in commands, Start(c)
  PROVE  pc' \in {"initialize", "clone", "setup"}
<1>1. c \in Command
  BY LifecycleAssumption DEF IType, Flags
<1>2. QED
  BY <1>1 DEF Start, Command

LEMMA PlacesStep == IType /\ [Next]_vars => Places'
<1> SUFFICES ASSUME IType, [Next]_vars PROVE Places'
  OBVIOUS
<1> USE DEF IType, Places, Step
<1>n. \A c : NodeOf(c) \in {"local", "global"}
  BY DEF NodeOf
<1>1. ASSUME NEW c \in commands, Start(c) PROVE Places'
  <2>1. c \in Command
    BY LifecycleAssumption DEF Flags
  <2>2. pc' \in {"initialize", "clone", "setup"}
    BY <1>1, StartsWith
  <2>3. ran' \in 0..MaxCommands
    <3>1. ran \in 0..MaxCommands /\ MaxCommands \in Nat
      BY LifecycleAssumption
    <3>2. ran < MaxCommands /\ ran' = ran + 1
      BY <1>1 DEF Start
    <3>3. QED
      BY <3>1, <3>2, CountUp
  <2>4. loaded' \in Seq({"xdg", "toml"})
    <3>1. loaded' = <<"xdg", "toml">>
      BY <1>1 DEF Start
    <3>2. QED
      BY <3>1, DefaultFiles
  <2>5. /\ manifest' = manifest /\ savedOn' = savedOn /\ cmd' = c /\ conn' = conn
        /\ rest' = rest /\ said' = "nothing"
    BY <1>1 DEF Start, diskVars
  <2>6. QED
    BY <2>1, <2>2, <2>3, <2>4, <2>5
<1>2. CASE Clone
  BY <1>2 DEF Clone, End, Goto, diskVars
<1>3. CASE Initialize
  BY <1>3 DEF Initialize, Goto
<1>4. CASE TruncateConfig \/ WriteConfig
  BY <1>4 DEF TruncateConfig, WriteConfig, Goto
<1>5. CASE InitializeAndConnectIpfs
  BY <1>5, <1>n DEF InitializeAndConnectIpfs, ConnectFails, End, Goto
<1>6. CASE CreateEmptyManifest
  BY <1>6 DEF CreateEmptyManifest, SaveManifest, Goto, diskVars
<1>7. CASE TruncateManifest
  BY <1>7 DEF TruncateManifest, Goto
<1>8. CASE WriteManifest
  BY <1>8 DEF WriteManifest, End, Goto
<1>9. CASE SetRemote
  BY <1>9 DEF SetRemote, Goto
<1>10. CASE ReloadConfig
  <2>1. rest # <<>> => Head(rest) \in {"xdg", "toml"} /\ Tail(rest) \in Seq({"xdg", "toml"})
    BY HeadTailProperties
  <2>2. loaded' \in Seq({"xdg", "toml"}) /\ rest' \in Seq({"xdg", "toml"})
    <3>1. CASE rest = <<>>
      BY <1>10, <3>1 DEF ReloadConfig
    <3>2. CASE rest # <<>>
      <4>1. Append(loaded, Head(rest)) \in Seq({"xdg", "toml"})
        BY <2>1, <3>2, AppendProperties
      <4>2. loaded' = Append(loaded, Head(rest)) /\ rest' = Tail(rest)
        BY <1>10, <3>2 DEF ReloadConfig
      <4>3. QED
        BY <2>1, <3>2, <4>1, <4>2
    <3>3. QED
      BY <3>1, <3>2
  <2>3. /\ pc' \in {"idle", "fetch", "reload"} /\ conn' \in {"no", "local", "global"}
        /\ pc' = "fetch" => conn' # "no"
        /\ said' \in {said, "no daemon", "no node"}
    BY <1>10, <1>n DEF ReloadConfig, ConnectFails, End, Goto
  <2>4. QED
    BY <1>10, <2>2, <2>3 DEF ReloadConfig, diskVars
<1>11. CASE Fetch
  BY <1>11 DEF Fetch, SaveManifest, End, Goto, diskVars
<1>12. CASE Setup
  BY <1>12 DEF Setup, ConnectFails, End, diskVars
<1>13. CASE Crash
  BY <1>13 DEF Crash, End, diskVars
<1>14. CASE ToggleDaemon \/ UNCHANGED vars
  <2>1. UNCHANGED <<manifest, savedOn, pc, cmd, conn, loaded, rest, said, ran>>
    BY <1>14 DEF ToggleDaemon, vars, diskVars, procVars
  <2>2. QED
    BY <2>1, ZenonT(60)
<1>15. QED
  BY <1>1, <1>2, <1>3, <1>4, <1>5, <1>6, <1>7, <1>8, <1>9, <1>10, <1>11, <1>12, <1>13, <1>14 DEF Next

LEMMA TypeInvariant == Spec => []IType
<1>1. Init => Flags
  BY DEF Init, Flags
<1>2. Init => Files
  <2>1. SUFFICES ASSUME Init PROVE Files
    OBVIOUS
  <2>2. NoToml \in [there : BOOLEAN, whole : BOOLEAN, global : BOOLEAN, remote : BOOLEAN]
    BY DEF NoToml
  <2>3. EmptyConf \in [global : BOOLEAN, remote : BOOLEAN]
    BY DEF EmptyConf
  <2>4. QED
    BY <2>1, <2>2, <2>3 DEF Init, Files
<1>3. Init => Places
  <2>1. <<>> \in Seq({"xdg", "toml"}) /\ 0 \in 0..MaxCommands
    BY LifecycleAssumption
  <2>2. QED
    BY <2>1 DEF Init, Places, Step
<1>4. IType /\ [Next]_vars => IType'
  BY FlagsStep, FilesStep, PlacesStep DEF IType
<1>5. QED
  BY <1>1, <1>2, <1>3, <1>4, PTL DEF Spec, IType

\* No step leaves its directory, its process or its user in a state that is
\* none.
THEOREM TypeCorrect == Spec => []TypeOK
<1>1. IType => TypeOK
  BY DEF IType, Flags, Files, Places, TypeOK
<1>2. QED
  BY <1>1, TypeInvariant, PTL

-----------------------------------------------------------------------------
\* init keeps a dataset

Making == {"config truncate", "config write", "ipfs", "save", "init truncate"}
Cloning == {"set truncate", "set write", "reload", "fetch", "fetch truncate", "fetch write"}

\* A manifest file is made last, and only a clone goes on after it.
IMade ==
  /\ manifest # "none" => dir /\ toml.there
  /\ pc \in Making => dir /\ manifest = "none"
  /\ pc \in Making \ {"config truncate"} => toml.there
  /\ pc = "init write" => manifest = "empty"
  /\ pc \in Cloning => manifest # "none" /\ cmd \in {"clone", "clone --global"}

LEMMA MadeStep == IType /\ IMade /\ [Next]_vars => IMade'
<1> SUFFICES ASSUME IType, IMade, [Next]_vars PROVE IMade'
  OBVIOUS
<1> USE DEF IMade, Making, Cloning
<1>1. ASSUME NEW c \in commands, Start(c) PROVE IMade'
  <2>1. pc' \notin Making \cup Cloning \cup {"init write"}
    BY <1>1, StartsWith
  <2>2. QED
    BY <1>1, <2>1 DEF Start, diskVars
<1>2. CASE Clone
  BY <1>2 DEF Clone, End, Goto, diskVars
<1>3. CASE Initialize
  BY <1>3 DEF Initialize, IsInitialized, Goto
<1>4. CASE TruncateConfig \/ WriteConfig
  <2>1. EmptyToml.there /\ NewToml.there
    BY DEF EmptyToml, NewToml
  <2>2. toml' \in {EmptyToml, NewToml}
    BY <1>4 DEF TruncateConfig, WriteConfig
  <2>3. toml'.there
    BY <2>1, <2>2
  <2>4. QED
    BY <1>4, <2>3 DEF TruncateConfig, WriteConfig, Goto
<1>5. CASE InitializeAndConnectIpfs
  BY <1>5 DEF InitializeAndConnectIpfs, ConnectFails, End, Goto
<1>6. CASE CreateEmptyManifest \/ TruncateManifest
  BY <1>6 DEF CreateEmptyManifest, TruncateManifest, Goto, diskVars
<1>7. CASE WriteManifest
  BY <1>7 DEF WriteManifest, End, Goto
<1>8. CASE SetRemote
  BY <1>8 DEF SetRemote, Goto
<1>9. CASE ReloadConfig
  BY <1>9 DEF ReloadConfig, ConnectFails, End, Goto, diskVars
<1>10. CASE Fetch \/ Setup \/ Crash
  BY <1>10 DEF Fetch, Setup, Crash, ConnectFails, End, Goto, diskVars
<1>11. CASE ToggleDaemon \/ UNCHANGED vars
  BY <1>11 DEF ToggleDaemon, vars, diskVars, procVars
<1>12. QED
  BY <1>1, <1>2, <1>3, <1>4, <1>5, <1>6, <1>7, <1>8, <1>9, <1>10, <1>11 DEF Next

LEMMA MadeInvariant == Spec => []IMade
<1>1. Init => IMade
  BY DEF Init, IMade, Making, Cloning
<1>2. QED
  BY <1>1, MadeStep, TypeInvariant, PTL DEF Spec

\* Whoever runs init again, and however often it was killed before, finds
\* manifest and configuration as they were.
THEOREM InitKeepsDatasetCorrect == Spec => InitKeepsDataset
<1>1. IMade /\ [Next]_vars
        => [manifest = "named" /\ cmd \in {"init", "init --global"}
              => manifest' = manifest /\ toml' = toml]_vars
  <2>1. SUFFICES ASSUME IMade, Next, manifest = "named", cmd \in {"init", "init --global"}
                 PROVE  manifest' = manifest /\ toml' = toml
    OBVIOUS
  <2>2. pc \notin Making \cup Cloning \cup {"init write"}
    BY <2>1 DEF IMade
  <2>3. ASSUME NEW c \in commands, Start(c) PROVE manifest' = manifest /\ toml' = toml
    BY <2>3 DEF Start, diskVars
  <2>4. CASE Clone \/ Initialize \/ InitializeAndConnectIpfs \/ CreateEmptyManifest
    BY <2>4 DEF Clone, Initialize, InitializeAndConnectIpfs, CreateEmptyManifest, diskVars
  <2>5. CASE TruncateConfig \/ WriteConfig \/ TruncateManifest \/ WriteManifest \/ SetRemote
    BY <2>2, <2>5 DEF TruncateConfig, WriteConfig, TruncateManifest, WriteManifest, SetRemote,
                      Making, Cloning
  <2>6. CASE ReloadConfig \/ Fetch \/ Setup \/ Crash \/ ToggleDaemon
    BY <2>6 DEF ReloadConfig, Fetch, Setup, Crash, ToggleDaemon, diskVars
  <2>7. QED
    BY <2>1, <2>3, <2>4, <2>5, <2>6 DEF Next
<1>2. QED
  BY <1>1, MadeInvariant, PTL DEF Spec, InitKeepsDataset

-----------------------------------------------------------------------------
\* What init and clone report

\* A directory is used by somebody who always says --global or never does.
\* Without it ReportedUsable does not hold.
Separate == \A R \in Repertoires : R \cap Global = {} \/ R \subseteq Global \cup {"use"}

\* The repository is to have a node of its own; its manifests are to be on
\* the daemon, and if not, on that node.
Own      == commands \cap Global = {}
OnDaemon == xdg \/ ~Own
Home     == IF OnDaemon THEN "global" ELSE "local"

\* Separate, of the users of this directory.
Apart == Own \/ commands \subseteq Global \cup {"use"}

LEMMA UserStep == [Next]_vars => /\ UNCHANGED <<xdg, commands>>
                                 /\ (Own' <=> Own) /\ (OnDaemon' <=> OnDaemon) /\ Home' = Home
                                 /\ (Apart' <=> Apart)
<1> SUFFICES ASSUME [Next]_vars
             PROVE  /\ UNCHANGED <<xdg, commands>>
                    /\ (Own' <=> Own) /\ (OnDaemon' <=> OnDaemon) /\ Home' = Home
                    /\ (Apart' <=> Apart)
  OBVIOUS
<1>1. UNCHANGED <<xdg, commands>>
  <2>1. ASSUME NEW c \in commands, Start(c) PROVE UNCHANGED <<xdg, commands>>
    BY <2>1 DEF Start, userVars
  <2>2. CASE Clone \/ Initialize \/ TruncateConfig \/ WriteConfig \/ InitializeAndConnectIpfs
    BY <2>2 DEF Clone, Initialize, TruncateConfig, WriteConfig, InitializeAndConnectIpfs, userVars
  <2>3. CASE CreateEmptyManifest \/ TruncateManifest \/ WriteManifest \/ SetRemote \/ ReloadConfig
    BY <2>3 DEF CreateEmptyManifest, TruncateManifest, WriteManifest, SetRemote, ReloadConfig, userVars
  <2>4. CASE Fetch \/ Setup \/ Crash \/ ToggleDaemon \/ UNCHANGED vars
    BY <2>4 DEF Fetch, Setup, Crash, ToggleDaemon, vars, userVars
  <2>5. QED
    BY <2>1, <2>2, <2>3, <2>4 DEF Next
<1>2. QED
  BY <1>1 DEF Own, OnDaemon, Home, Apart

\* config.toml says --global if the users do, unless it was cut short.
IKind ==
  /\ pc \notin {"idle", "setup"} => cmd \in commands \ {"use"}
  /\ Own => ~toml.global
  /\ ~Own /\ manifest # "none" /\ toml.whole => toml.global
  /\ ~Own /\ pc \in {"ipfs", "save", "init truncate"} => toml.global

LEMMA CmdKind ==
  ASSUME Apart, IType, IKind, pc \notin {"idle", "setup"}
  PROVE  cmd \in Global <=> ~Own
BY DEF Apart, IType, Flags, IKind, Own, Global

LEMMA KindStep == Apart /\ IType /\ IMade /\ IKind /\ [Next]_vars => IKind'
<1> SUFFICES ASSUME Apart, IType, IMade, IKind, [Next]_vars PROVE IKind'
  OBVIOUS
<1>u. UNCHANGED <<xdg, commands>> /\ (Own' <=> Own)
  BY UserStep
<1> USE DEF IKind
<1>1. ASSUME NEW c \in commands, Start(c) PROVE IKind'
  <2>1. c = "use" => pc' = "setup"
    BY <1>1 DEF Start
  <2>2. UNCHANGED <<toml, manifest>> /\ pc = "idle" /\ cmd' = c
    BY <1>1 DEF Start, diskVars
  <2>3. pc' \in {"initialize", "clone", "setup"}
    BY <1>1, StartsWith
  <2>4. QED
    BY <1>u, <2>1, <2>2, <2>3
<1>2. CASE Clone
  BY <1>2, <1>u DEF Clone, End, Goto, diskVars
<1>3. CASE Initialize
  BY <1>3, <1>u DEF Initialize, Goto
<1>4. CASE TruncateConfig
  <2>1. ~EmptyToml.global /\ ~EmptyToml.whole
    BY DEF EmptyToml
  <2>2. pc = "config truncate" => manifest = "none"
    BY DEF IMade, Making
  <2>3. QED
    BY <1>4, <1>u, <2>1, <2>2 DEF TruncateConfig, Goto
<1>5. CASE WriteConfig
  <2>1. NewToml.global <=> ~Own
    BY <1>5, CmdKind DEF WriteConfig, NewToml, EmptyToml
  <2>2. QED
    BY <1>5, <1>u, <2>1 DEF WriteConfig, Goto
<1>6. CASE InitializeAndConnectIpfs
  <2>1. UNCHANGED <<toml, manifest, cmd>> /\ pc \in {"ipfs", "reconnect"} /\ pc' \in {"idle", "save"}
    BY <1>6 DEF InitializeAndConnectIpfs, ConnectFails, End, Goto
  <2>2. pc' = "save" => pc = "ipfs"
    BY <1>6 DEF InitializeAndConnectIpfs, ConnectFails, End, Goto
  <2>3. QED
    BY <1>u, <2>1, <2>2
<1>7. CASE CreateEmptyManifest
  BY <1>7, <1>u DEF CreateEmptyManifest, Goto, diskVars
<1>8. CASE TruncateManifest
  BY <1>8, <1>u DEF TruncateManifest, Goto, IMade, Cloning
<1>9. CASE WriteManifest
  BY <1>9, <1>u DEF WriteManifest, End, Goto, IMade, Cloning
<1>10. CASE SetRemote
  <2>1. toml'.global <=> ~Own
    BY <1>10, CmdKind DEF SetRemote
  <2>2. QED
    BY <1>10, <1>u, <2>1 DEF SetRemote, Goto
<1>11. CASE ReloadConfig
  BY <1>11, <1>u DEF ReloadConfig, ConnectFails, End, Goto, diskVars
<1>12. CASE Fetch \/ Setup
  BY <1>12, <1>u DEF Fetch, Setup, ConnectFails, End, Goto, diskVars
<1>13. CASE Crash
  BY <1>13, <1>u DEF Crash, End, diskVars
<1>14. CASE ToggleDaemon \/ UNCHANGED vars
  BY <1>14, <1>u DEF ToggleDaemon, vars, diskVars, procVars
<1>15. QED
  BY <1>1, <1>2, <1>3, <1>4, <1>5, <1>6, <1>7, <1>8, <1>9, <1>10, <1>11, <1>12, <1>13, <1>14 DEF Next

\* What a process that has not reloaded its configuration works with, and
\* what it has read when it does.
IConf ==
  /\ pc \in {"clone", "initialize", "reconnect", "setup"} =>
       (conf.global <=> xdg \/ toml.global)
  /\ pc \in {"config truncate", "config write", "ipfs"} => (conf.global <=> OnDaemon)
  /\ pc \notin {"idle", "reload", "fetch", "fetch truncate", "fetch write"} =>
       loaded = <<"xdg", "toml">>
  /\ pc = "reload" => \/ rest = <<"xdg", "toml">>
                      \/ rest \in {<<"toml">>, <<>>} /\ (xdg => conf.global)

LEMMA ConfStep == Apart /\ IType /\ IKind /\ IConf /\ [Next]_vars => IConf'
<1> SUFFICES ASSUME Apart, IType, IKind, IConf, [Next]_vars PROVE IConf'
  OBVIOUS
<1>u. UNCHANGED <<xdg, commands>> /\ (OnDaemon' <=> OnDaemon)
  BY UserStep
<1> USE DEF IConf
<1>1. ASSUME NEW c \in commands, Start(c) PROVE IConf'
  <2>1. conf'.global <=> xdg \/ toml.global
    BY <1>1 DEF Start, ReadFile, EmptyConf
  <2>2. pc' \in {"initialize", "clone", "setup"}
    BY <1>1, StartsWith
  <2>3. loaded' = <<"xdg", "toml">> /\ UNCHANGED toml
    BY <1>1 DEF Start, diskVars
  <2>4. QED
    BY <1>u, <2>1, <2>2, <2>3
<1>2. CASE Clone
  BY <1>2, <1>u DEF Clone, End, Goto, diskVars
<1>3. CASE Initialize
  <2>1. CASE IsInitialized
    BY <1>3, <1>u, <2>1 DEF Initialize, Goto
  <2>2. CASE ~IsInitialized
    <3>1. conf'.global <=> conf.global \/ cmd \in Global
      BY <1>3, <2>2 DEF Initialize, IType, Files
    <3>2. cmd \in Global <=> ~Own
      BY <1>3, CmdKind DEF Initialize
    <3>3. conf'.global <=> OnDaemon
      BY <1>3, <3>1, <3>2 DEF Initialize, OnDaemon, IKind
    <3>4. QED
      BY <1>3, <1>u, <2>2, <3>3 DEF Initialize, Goto
  <2>3. QED
    BY <2>1, <2>2
<1>4. CASE TruncateConfig \/ WriteConfig
  BY <1>4, <1>u DEF TruncateConfig, WriteConfig, Goto
<1>5. CASE InitializeAndConnectIpfs
  BY <1>5, <1>u DEF InitializeAndConnectIpfs, ConnectFails, End, Goto
<1>6. CASE CreateEmptyManifest \/ TruncateManifest
  BY <1>6, <1>u DEF CreateEmptyManifest, TruncateManifest, Goto, diskVars
<1>7. CASE WriteManifest
  BY <1>7, <1>u DEF WriteManifest, End, Goto
<1>8. CASE SetRemote
  BY <1>8, <1>u DEF SetRemote, Goto
<1>9. CASE ReloadConfig
  <2>1. CASE rest = <<>>
    BY <1>9, <1>u, <2>1 DEF ReloadConfig, ConnectFails, End, Goto
  <2>2. CASE rest = <<"xdg", "toml">>
    <3>1. Head(rest) = "xdg" /\ rest' = <<"toml">>
      BY <1>9, <2>2 DEF ReloadConfig
    <3>2. conf' = ReadFile(conf, "xdg")
      BY <1>9, <2>2, <3>1 DEF ReloadConfig
    <3>3. xdg => conf'.global
      BY <3>2 DEF ReadFile, IType, Files
    <3>4. pc' \in {"idle", "reload"}
      BY <1>9, <2>2 DEF ReloadConfig, ConnectFails, End, Goto
    <3>5. QED
      BY <1>u, <3>1, <3>3, <3>4
  <2>3. CASE rest = <<"toml">>
    <3>1. Head(rest) = "toml" /\ rest' = <<>>
      BY <1>9, <2>3 DEF ReloadConfig
    <3>2. conf' = ReadFile(conf, "toml")
      BY <1>9, <2>3, <3>1 DEF ReloadConfig
    <3>3. conf.global => conf'.global
      BY <3>2 DEF ReadFile
    <3>4. pc' \in {"idle", "reload"}
      BY <1>9, <2>3 DEF ReloadConfig, ConnectFails, End, Goto
    <3>5. xdg => conf.global
      BY <1>9, <2>3 DEF ReloadConfig
    <3>6. QED
      BY <1>u, <3>1, <3>3, <3>4, <3>5
  <2>4. QED
    BY <1>9, <2>1, <2>2, <2>3 DEF ReloadConfig
<1>10. CASE Fetch \/ Setup \/ Crash
  BY <1>10, <1>u DEF Fetch, Setup, Crash, ConnectFails, End, Goto
<1>11. CASE ToggleDaemon \/ UNCHANGED vars
  BY <1>11, <1>u DEF ToggleDaemon, vars, diskVars, procVars
<1>12. QED
  BY <1>1, <1>2, <1>3, <1>4, <1>5, <1>6, <1>7, <1>8, <1>9, <1>10, <1>11 DEF Next

\* What is named is where it is to be, and there is a node for it.
INode ==
  /\ manifest # "none" \/ pc \in {"save", "init truncate"} => node \/ OnDaemon
  /\ pc = "save" => conn = Home
  /\ manifest = "named" \/ pc \in {"init truncate", "init write"} \cup Cloning => Home \in savedOn

LEMMA NodeStep == IType /\ IMade /\ IConf /\ INode /\ [Next]_vars => INode'
<1> SUFFICES ASSUME IType, IMade, IConf, INode, [Next]_vars PROVE INode'
  OBVIOUS
<1>u. (OnDaemon' <=> OnDaemon) /\ Home' = Home
  BY UserStep
<1> USE DEF INode
<1>1. ASSUME NEW c \in commands, Start(c) PROVE INode'
  <2>1. pc' \notin {"save", "init truncate", "init write"} \cup Cloning
    BY <1>1, StartsWith DEF Cloning
  <2>2. QED
    BY <1>1, <1>u, <2>1 DEF Start, diskVars
<1>2. CASE Clone
  BY <1>2, <1>u DEF Clone, End, Goto, Cloning, diskVars
<1>3. CASE Initialize
  BY <1>3, <1>u DEF Initialize, Goto, Cloning
<1>4. CASE TruncateConfig \/ WriteConfig
  BY <1>4, <1>u DEF TruncateConfig, WriteConfig, Goto, Cloning
<1>5. CASE InitializeAndConnectIpfs
  <2>1. node' <=> node \/ ~conf.global
    BY <1>5 DEF InitializeAndConnectIpfs, NodeAfterInit
  <2>2. UNCHANGED <<manifest, savedOn>>
    BY <1>5 DEF InitializeAndConnectIpfs
  <2>3. CASE pc' = "save"
    <3>1. pc = "ipfs" /\ conn' = NodeOf(conf)
      BY <1>5, <2>3 DEF InitializeAndConnectIpfs, ConnectFails, End, Goto
    <3>2. conf.global <=> OnDaemon
      BY <3>1 DEF IConf
    <3>3. conn' = Home
      BY <3>1, <3>2 DEF NodeOf, Home
    <3>4. QED
      BY <1>u, <2>1, <2>2, <2>3, <3>2, <3>3 DEF Cloning
  <2>4. CASE pc' = "idle"
    BY <1>u, <2>1, <2>2, <2>4 DEF Cloning
  <2>5. QED
    BY <1>5, <2>3, <2>4 DEF InitializeAndConnectIpfs, ConnectFails, End, Goto
<1>6. CASE CreateEmptyManifest
  BY <1>6, <1>u DEF CreateEmptyManifest, SaveManifest, Goto, Cloning, diskVars
<1>7. CASE TruncateManifest
  BY <1>7, <1>u DEF TruncateManifest, Goto, Cloning, IMade
<1>8. CASE WriteManifest
  BY <1>8, <1>u DEF WriteManifest, End, Goto, Cloning, IMade
<1>9. CASE SetRemote
  BY <1>9, <1>u DEF SetRemote, Goto, Cloning
<1>10. CASE ReloadConfig
  <2>1. UNCHANGED <<manifest, node, savedOn>> /\ pc = "reload" /\ pc' \in {"idle", "reload", "fetch"}
    BY <1>10 DEF ReloadConfig, ConnectFails, End, Goto, diskVars
  <2>2. QED
    BY <1>u, <2>1 DEF Cloning
<1>11. CASE Fetch
  BY <1>11, <1>u DEF Fetch, SaveManifest, End, Goto, Cloning, diskVars
<1>12. CASE Setup \/ Crash
  BY <1>12, <1>u DEF Setup, Crash, ConnectFails, End, Cloning, diskVars
<1>13. CASE ToggleDaemon \/ UNCHANGED vars
  BY <1>13, <1>u DEF ToggleDaemon, vars, diskVars, procVars
<1>14. QED
  BY <1>1, <1>2, <1>3, <1>4, <1>5, <1>6, <1>7, <1>8, <1>9, <1>10, <1>11, <1>12, <1>13 DEF Next

\* What is reported is there, and a repository that is to have a node of its
\* own has it when a command connects to it.
ISaid ==
  /\ said \in {"initialized", "re-initialized", "cloned"} => pc = "idle" /\ manifest # "none"
  /\ pc = "reconnect" => manifest # "none"
  /\ Own => said # "no node"

\* A repository that is there connects to a node that is there.
LEMMA NoNode ==
  ASSUME NEW c, NEW nd, ~Connectable(c, nd), c.global \/ nd, ConnectFails(c)
  PROVE  pc' = "idle" /\ said' = "no daemon"
BY DEF Connectable, ConnectFails, End

LEMMA SaidStep ==
  IType /\ IMade /\ IKind /\ IConf /\ INode /\ ISaid /\ Apart /\ [Next]_vars => ISaid'
<1> SUFFICES ASSUME IType, IMade, IKind, IConf, INode, ISaid, Apart, [Next]_vars PROVE ISaid'
  OBVIOUS
<1>u. Own' <=> Own
  BY UserStep
<1> USE DEF ISaid
<1>1. ASSUME NEW c \in commands, Start(c) PROVE ISaid'
  <2>1. pc' # "reconnect" /\ said' = "nothing"
    BY <1>1, StartsWith DEF Start
  <2>2. QED
    BY <1>u, <2>1
<1>2. CASE Clone
  BY <1>2, <1>u DEF Clone, End, Goto, diskVars
<1>3. CASE Initialize
  BY <1>3, <1>u DEF Initialize, IsInitialized, Goto
<1>4. CASE TruncateConfig \/ WriteConfig
  BY <1>4, <1>u DEF TruncateConfig, WriteConfig, Goto
<1>5. CASE InitializeAndConnectIpfs
  <2>1. UNCHANGED <<manifest, cmd>> /\ pc' # "reconnect"
    BY <1>5 DEF InitializeAndConnectIpfs, ConnectFails, End, Goto
  <2>3. CASE ~Connectable(conf, node')
    <3>1. conf.global \/ node'
      BY <1>5 DEF InitializeAndConnectIpfs, NodeAfterInit
    <3>2. ConnectFails(conf)
      BY <1>5, <2>3 DEF InitializeAndConnectIpfs
    <3>3. said' = "no daemon"
      BY <2>3, <3>1, <3>2, NoNode
    <3>4. QED
      BY <1>u, <2>1, <3>3
  <2>4. CASE Connectable(conf, node')
    BY <1>5, <1>u, <2>1, <2>4 DEF InitializeAndConnectIpfs, End, Goto
  <2>5. QED
    BY <2>3, <2>4
<1>6. CASE CreateEmptyManifest \/ TruncateManifest
  BY <1>6, <1>u DEF CreateEmptyManifest, TruncateManifest, Goto, diskVars
<1>7. CASE WriteManifest
  BY <1>7, <1>u DEF WriteManifest, End, Goto
<1>8. CASE SetRemote
  BY <1>8, <1>u DEF SetRemote, Goto
<1>9. CASE ReloadConfig
  <2>1. UNCHANGED <<manifest, cmd>> /\ pc = "reload" /\ pc' # "reconnect"
    BY <1>9 DEF ReloadConfig, ConnectFails, End, Goto, diskVars
  <2>2. CASE ~Own
    BY <1>9, <1>u, <2>1, <2>2 DEF ReloadConfig, ConnectFails, End, Goto
  <2>3. CASE Own
    <3>1. cmd \notin Global
      BY <2>1, <2>3, CmdKind
    <3>2. node \/ xdg
      BY <2>1, <2>3 DEF INode, IMade, Cloning, OnDaemon
    <3>3. xdg => conf'.global
      <4>1. \/ rest = <<"xdg", "toml">>
            \/ rest \in {<<"toml">>, <<>>} /\ (xdg => conf.global)
        BY <2>1 DEF IConf
      <4>2. CASE rest = <<"xdg", "toml">>
        <5>1. Head(rest) = "xdg" /\ rest # <<>>
          BY <4>2, DefaultHead
        <5>2. conf' = ReadFile(conf, "xdg")
          BY <1>9, <5>1 DEF ReloadConfig
        <5>3. QED
          BY <5>2 DEF ReadFile, IType, Files
      <4>3. CASE rest = <<"toml">> /\ (xdg => conf.global)
        <5>1. Head(rest) = "toml" /\ rest # <<>>
          BY <4>3, DefaultHead
        <5>2. conf' = ReadFile(conf, "toml")
          BY <1>9, <5>1 DEF ReloadConfig
        <5>3. QED
          BY <4>3, <5>2 DEF ReadFile
      <4>4. CASE rest = <<>> /\ (xdg => conf.global)
        BY <1>9, <4>4 DEF ReloadConfig
      <4>5. QED
        BY <4>1, <4>2, <4>3, <4>4
    <3>4. CASE ~Connectable(conf', node)
      <4>1. ConnectFails(conf')
        BY <1>9, <3>4 DEF ReloadConfig
      <4>2. said' = "no daemon"
        BY <3>2, <3>3, <3>4, <4>1, NoNode
      <4>3. QED
        BY <1>u, <2>1, <4>2
    <3>5. CASE Connectable(conf', node)
      BY <1>9, <1>u, <2>1, <3>5 DEF ReloadConfig, Goto
    <3>6. QED
      BY <3>4, <3>5
  <2>4. QED
    BY <2>2, <2>3
<1>10. CASE Fetch
  BY <1>10, <1>u DEF Fetch, End, Goto, diskVars
<1>11. CASE Setup
  <2>1. UNCHANGED <<manifest, cmd>> /\ pc' = "idle"
    BY <1>11 DEF Setup, ConnectFails, End, diskVars
  <2>2. CASE IsInitialized /\ ~Connectable(conf, node)
    <3>1. Own => node \/ xdg
      BY <2>2 DEF IsInitialized, INode, OnDaemon
    <3>2. Own => (conf.global <=> xdg)
      BY <1>11 DEF Setup, IConf, IKind
    <3>3. ConnectFails(conf)
      BY <1>11, <2>2 DEF Setup
    <3>4. Own => said' = "no daemon"
      BY <2>2, <3>1, <3>2, <3>3, NoNode
    <3>5. said' \in {"no daemon", "no node"}
      BY <3>3 DEF ConnectFails, End
    <3>6. QED
      BY <1>u, <2>1, <3>4, <3>5
  <2>3. CASE ~(IsInitialized /\ ~Connectable(conf, node))
    BY <1>11, <1>u, <2>1, <2>3 DEF Setup, End
  <2>4. QED
    BY <2>2, <2>3
<1>12. CASE Crash
  BY <1>12, <1>u DEF Crash, End, diskVars
<1>13. CASE ToggleDaemon \/ UNCHANGED vars
  BY <1>13, <1>u DEF ToggleDaemon, vars, diskVars, procVars
<1>14. QED
  BY <1>1, <1>2, <1>3, <1>4, <1>5, <1>6, <1>7, <1>8, <1>9, <1>10, <1>11, <1>12, <1>13 DEF Next

IUsable == Apart => IKind /\ IConf /\ INode /\ ISaid

LEMMA UsableInvariant == Spec => []IUsable
<1>1. Init => IUsable
  <2>1. SUFFICES ASSUME Init PROVE IUsable
    OBVIOUS
  <2>2. ~toml.global
    BY <2>1 DEF Init, NoToml
  <2>3. QED
    BY <2>1, <2>2 DEF Init, IUsable, IKind, IConf, INode, ISaid, Cloning
<1>2. IType /\ IMade /\ IUsable /\ [Next]_vars => IUsable'
  BY UserStep, KindStep, ConfStep, NodeStep, SaidStep DEF IUsable
<1>3. QED
  BY <1>1, <1>2, TypeInvariant, MadeInvariant, PTL DEF Spec

\* What init and clone say is there can be used, after any number of attempts
\* that failed or were killed anywhere, unless one was killed inside
\* os.WriteFile and has left an empty file.
THEOREM ReportedUsableCorrect ==
  ASSUME Separate
  PROVE  Spec => []ReportedUsable
<1>1. IType /\ IMade /\ IUsable => ReportedUsable
  <2>1. SUFFICES ASSUME IType, IMade, IUsable, manifest # "empty", toml.whole,
                        said \in {"initialized", "re-initialized", "cloned"}
                 PROVE  LET c == ReadFile(ReadFile(EmptyConf, "xdg"), "toml")
                        IN  /\ IsInitialized /\ manifest = "named"
                            /\ NodeOf(c) \in savedOn
                            /\ node \/ c.global
    BY DEF ReportedUsable
  <2> DEFINE c == ReadFile(ReadFile(EmptyConf, "xdg"), "toml")
  <2>a. Apart
    BY <2>1 DEF Separate, Apart, Own, IType, Flags
  <2>2. manifest = "named"
    BY <2>1, <2>a DEF IUsable, ISaid, IType, Places
  <2>3. IsInitialized
    BY <2>1, <2>2 DEF IMade, IsInitialized
  <2>4. toml.global <=> ~Own
    BY <2>1, <2>a, <2>2 DEF IUsable, IKind
  <2>5. c.global <=> OnDaemon
    BY <2>4 DEF ReadFile, EmptyConf, OnDaemon
  <2>6. NodeOf(c) = Home
    BY <2>5 DEF NodeOf, Home
  <2>7. Home \in savedOn /\ (node \/ OnDaemon)
    BY <2>1, <2>a, <2>2 DEF IUsable, INode
  <2>8. QED
    BY <2>2, <2>3, <2>5, <2>6, <2>7
<1>2. QED
  BY <1>1, UsableInvariant, TypeInvariant, MadeInvariant, PTL

\* Who never says --global has a node wherever a command looks for one, among
\* any users and wherever commands are killed.
THEOREM NodePresentCorrect == Spec => []NodePresent
<1>1. IUsable => NodePresent
  BY DEF IUsable, Apart, Own, ISaid, NodePresent
<1>2. QED
  BY <1>1, UsableInvariant, PTL
=============================================================================
