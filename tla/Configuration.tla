---------------------------- MODULE Configuration ----------------------------
(***************************************************************************)
(* `dorothy config get', `set' and `del', and the three files they are     *)
(* about: the user's (xdg), the repository's (local) and the one named     *)
(* with --config (custom).  Nothing keeps two processes from rewriting a   *)
(* file at a time.                                                         *)
(*                                                                         *)
(* A file is a function from keys to values.  Of the values only what the  *)
(* code tells apart is kept: "mistyped" is one that the key's field cannot *)
(* hold, "empty" one that is not written out, and "schemeless" a string    *)
(* that the key "remote" can hold but NewRemote rejects.                   *)
(***************************************************************************)
EXTENDS Naturals, Sequences, SequencesExt

CONSTANTS Proc,      \* command line processes
          Commands,  \* commands that users run
          Written,   \* what users have written into their files before
          MaxRuns    \* bound: how many commands are run

File  == {"xdg", "local", "custom"}
Known == {"remote", "editor"}        \* keys that are fields of Config
Key   == Known \cup {"misspelt"}
Given == {"x", "y", "schemeless", "mistyped", "empty"}
Unset == "unset"

\* Contents that a file may have: what decodes, and no empty strings.
Content == [Key -> {"x", "y", "schemeless", Unset}]
Empty   == [k \in Key |-> Unset]
Missing == [k \in {} |-> Unset]
NoFiles == [f \in File |-> Missing]

CommandType ==
  [op : {"get", "set", "del"}, key : Key, value : Given,
   global : BOOLEAN, noinherit : BOOLEAN, custom : BOOLEAN]

\* A process that runs no command.
None == [op |-> "none"]

ASSUME ConfigurationAssumption ==
  /\ Commands \subseteq CommandType
  /\ Written \subseteq Content /\ \A c \in Written : c["remote"] # "schemeless"
  /\ MaxRuns \in Nat

VARIABLES
  file,   \* the files
  pc, cmd,
  conf,   \* Dorothy.Config
  loaded, \* Dorothy.LoadedConfigs
  todo,   \* the files that are still to be loaded
  draft,  \* the configuration that set or del will write
  said,   \* what a process came to
  ran,    \* number of commands run
  alone,  \* history: no other process has run since it started
  was     \* history: the files when it started

procVars == <<pc, cmd, conf, loaded, todo, draft, said, ran>>
histVars == <<alone, was>>
vars     == <<file, procVars, histVars>>

Step   == {"idle", "default", "custom", "check", "truncate", "write", "reload"}
Result == {"nothing", "ok", "fatal", "panic"}

\* Content has no mistyped values: no command, whatever it is asked to set,
\* makes a file that cannot be decoded.  (A schemeless remote can be; every
\* later command that loads it fails all the same.)
TypeOK ==
  /\ file \in [File -> Content \cup {Missing}]
  /\ pc \in [Proc -> Step]
  /\ cmd \in [Proc -> Commands \cup {None}]
  /\ conf \in [Proc -> Content] /\ draft \in [Proc -> Content]
  /\ loaded \in [Proc -> Seq(File)] /\ todo \in [Proc -> Seq(File)]
  /\ said \in [Proc -> Result]
  /\ ran \in 0..MaxRuns
  /\ alone \in [Proc -> BOOLEAN]
  /\ was \in [Proc -> [File -> Content \cup {Missing}]]

\* A repository, whose config.toml init has made, or none.
Init ==
  /\ file \in [File -> Written \cup {Missing}]
  /\ pc = [p \in Proc |-> "idle"]
  /\ cmd = [p \in Proc |-> None]
  /\ conf = [p \in Proc |-> Empty] /\ draft = [p \in Proc |-> Empty]
  /\ loaded = [p \in Proc |-> <<>>] /\ todo = [p \in Proc |-> <<>>]
  /\ said = [p \in Proc |-> "nothing"]
  /\ ran = 0
  /\ alone = [p \in Proc |-> FALSE]
  /\ was = [p \in Proc |-> NoFiles]

-----------------------------------------------------------------------------
IsInitialized == file["local"] # Missing

\* Config.ReadFile decodes over what is there, the keys it has fields for; a
\* missing file is skipped.
ReadFile(c, f) ==
  [k \in Key |-> IF f # Missing /\ k \in Known /\ f[k] # Unset THEN f[k] ELSE c[k]]

\* NewRemote, after each file, looks at the remote that is set by then.
ReadFails(c) == c["remote"] = "schemeless"

\* Mutant of DecodeFails: what is to be written is not decoded first.
DecodeFailsNever(m) == FALSE

\* What SetConfig has made of the file, as a map, is decoded into a Config.
DecodeFails(m) == \E k \in Known : m[k] = "mistyped"

\* The Config it gives, as it is written out: other keys are dropped.
Decode(m) == [k \in Key |-> IF k \in Known /\ m[k] # "empty" THEN m[k] ELSE Unset]

\* Mutant of TargetOf: the file that was loaded first.
TargetOfFirst(p) == IF cmd[p].global THEN "xdg" ELSE Head(loaded[p])

\* The file that set and del rewrite.
TargetOf(p) == IF cmd[p].global THEN "xdg" ELSE Last(loaded[p])

\* Mutant of ReadTarget: the configuration in force, not the file's.
ReadTargetMerged(p) == conf[p]

\* ReadConfigAsMap.
ReadTarget(p) == IF file[TargetOf(p)] = Missing THEN Empty ELSE file[TargetOf(p)]

\* The command ends, and leaves nothing but what it came to.
End(p, result) ==
  /\ pc' = [pc EXCEPT ![p] = "idle"]
  /\ said' = [said EXCEPT ![p] = result]
  /\ cmd' = [cmd EXCEPT ![p] = None]
  /\ conf' = [conf EXCEPT ![p] = Empty] /\ draft' = [draft EXCEPT ![p] = Empty]
  /\ loaded' = [loaded EXCEPT ![p] = <<>>] /\ todo' = [todo EXCEPT ![p] = <<>>]
  /\ alone' = [alone EXCEPT ![p] = FALSE] /\ was' = [was EXCEPT ![p] = NoFiles]
  /\ UNCHANGED ran

\* It goes on to its next step.
Goto(p, step) ==
  /\ pc' = [pc EXCEPT ![p] = step]
  /\ UNCHANGED <<cmd, said, ran, histVars>>

-----------------------------------------------------------------------------
\* NewDorothy is to load the user's file and then the repository's.
Start(p) ==
  /\ pc[p] = "idle" /\ ran < MaxRuns
  /\ ran' = ran + 1
  /\ \E c \in Commands : cmd' = [cmd EXCEPT ![p] = c]
  /\ todo' = [todo EXCEPT ![p] = <<"xdg", "local">>]
  /\ pc' = [pc EXCEPT ![p] = "default"]
  /\ said' = [said EXCEPT ![p] = "nothing"]
  /\ was' = [was EXCEPT ![p] = file]
  /\ alone' = [q \in Proc |-> q = p /\ \A o \in Proc \ {p} : pc[o] = "idle"]
  /\ UNCHANGED <<file, conf, loaded, draft>>

\* LoadConfigFile.
LoadConfigFile(p) ==
  /\ pc[p] \in {"default", "custom", "reload"} /\ todo[p] # <<>>
  /\ LET c == ReadFile(conf[p], file[Head(todo[p])])
     IN  IF ReadFails(c) THEN End(p, "fatal")
         ELSE /\ conf' = [conf EXCEPT ![p] = c]
              /\ loaded' = [loaded EXCEPT ![p] = Append(@, Head(todo[p]))]
              /\ todo' = [todo EXCEPT ![p] = Tail(@)]
              /\ Goto(p, pc[p]) /\ UNCHANGED draft
  /\ UNCHANGED file

\* --noinherit forgets what has been loaded; then --config loads its file.
\* (ResetConfig and LoadConfigFile in each of the commands.)
Flags(p) ==
  /\ pc[p] = "default" /\ todo[p] = <<>>
  /\ IF cmd[p].noinherit
     THEN conf' = [conf EXCEPT ![p] = Empty] /\ loaded' = [loaded EXCEPT ![p] = <<>>]
     ELSE UNCHANGED <<conf, loaded>>
  /\ todo' = [todo EXCEPT ![p] = IF cmd[p].custom THEN <<"custom">> ELSE <<>>]
  /\ Goto(p, "custom")
  /\ UNCHANGED <<file, draft>>

\* All but a set of the user's or of a named file take a repository.
Check(p) ==
  /\ pc[p] = "custom" /\ todo[p] = <<>>
  /\ IF ~IsInitialized /\ ~(cmd[p].op = "set" /\ (cmd[p].global \/ cmd[p].custom))
     THEN End(p, "fatal")
     ELSE Goto(p, "check") /\ UNCHANGED <<conf, loaded, todo, draft>>
  /\ UNCHANGED file

\* GetConfig: the configuration in force, "not found" if it lacks the key.
GetConfig(p) ==
  /\ pc[p] = "check" /\ cmd[p].op = "get"
  /\ End(p, IF conf[p][cmd[p].key] = Unset THEN "fatal" ELSE "ok")
  /\ UNCHANGED file

\* SetConfig and DelConfig, up to the write.  Without a loaded file there is
\* no last one.
EditConfig(p) ==
  /\ pc[p] = "check" /\ cmd[p].op # "get"
  /\ IF ~cmd[p].global /\ loaded[p] = <<>> THEN End(p, "panic")
     ELSE LET m == [ReadTarget(p) EXCEPT
                      ![cmd[p].key] = IF cmd[p].op = "set" THEN cmd[p].value ELSE Unset]
          IN  IF \/ cmd[p].op = "del" /\ ReadTarget(p)[cmd[p].key] = Unset
                 \/ DecodeFails(m)
              THEN End(p, "fatal")
              ELSE /\ draft' = [draft EXCEPT ![p] = Decode(m)]
                   /\ Goto(p, "truncate") /\ UNCHANGED <<conf, loaded, todo>>
  /\ UNCHANGED file

\* Config.WriteFile: truncate, or create, and write.
Truncate(p) ==
  /\ pc[p] = "truncate"
  /\ file' = [file EXCEPT ![TargetOf(p)] = Empty]
  /\ Goto(p, "write")
  /\ UNCHANGED <<conf, loaded, todo, draft>>

\* Mutant of NewConfig: the configuration is loaded over the old one.
NewConfigKept(p) == conf[p]

\* ReloadConfig starts from an empty configuration.
NewConfig(p) == Empty

\* ... and is to load again all that has been loaded.
WriteConfig(p) ==
  /\ pc[p] = "write"
  /\ file' = [file EXCEPT ![TargetOf(p)] = draft[p]]
  /\ conf' = [conf EXCEPT ![p] = NewConfig(p)]
  /\ todo' = [todo EXCEPT ![p] = loaded[p]]
  /\ Goto(p, "reload")
  /\ UNCHANGED <<loaded, draft>>

ReloadConfig(p) ==
  /\ pc[p] = "reload" /\ todo[p] = <<>>
  /\ End(p, "ok")
  /\ UNCHANGED file

\* The process is killed.
Crash(p) ==
  /\ pc[p] # "idle"
  /\ End(p, "nothing")
  /\ UNCHANGED file

Next ==
  \E p \in Proc :
    \/ Start(p) \/ LoadConfigFile(p) \/ Flags(p) \/ Check(p) \/ GetConfig(p)
    \/ EditConfig(p) \/ Truncate(p) \/ WriteConfig(p) \/ ReloadConfig(p) \/ Crash(p)

Spec == Init /\ [][Next]_vars

-----------------------------------------------------------------------------
\* What a command with these flags finds in force.
InForce(fs, c) ==
  LET inherited == IF c.noinherit THEN Empty
                   ELSE ReadFile(ReadFile(Empty, fs["xdg"]), fs["local"])
  IN  IF c.custom THEN ReadFile(inherited, fs["custom"]) ELSE inherited

\* Process p completes a set or del, and nobody has interfered.
Completes(p) == pc[p] = "reload" /\ pc'[p] = "idle" /\ said'[p] = "ok" /\ alone[p]

\* A set that succeeds is seen by a get with the same flags, as
\* test/config.bats has it: of a key of Config, with a value, and if it is
\* not set for all repositories with -g, where one may have its own.
SetThenGet ==
  [][\A p \in Proc : LET c == cmd[p] IN
       /\ Completes(p) /\ c.op = "set"
       /\ c.key \in Known /\ c.value # "empty" /\ ~c.global
       => InForce(file', c)[c.key] = c.value]_vars

\* A set or del leaves alone all other keys that Config has, and all other
\* files: it writes what it read from that file, not what is in force.
OthersKept ==
  [][\A p \in Proc : Completes(p) =>
       LET changed == {f \in File : file'[f] # was[p][f]}
       IN  /\ changed \subseteq {TargetOf(p)}
           /\ \A f \in changed : \A k \in Known \ {cmd[p].key} :
                file'[f][k] = IF was[p][f] = Missing THEN Unset ELSE was[p][f][k]]_vars

\* After it the process itself goes on (as clone does) with the configuration
\* that the next command will find, deleted keys included, though its list of
\* loaded files has doubled.
ReloadAgrees ==
  [][\A p \in Proc : Completes(p) => \A k \in Known : conf[p][k] = InForce(file', cmd[p])[k]]_vars
=============================================================================
