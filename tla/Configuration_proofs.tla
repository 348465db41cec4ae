------------------------ MODULE Configuration_proofs ------------------------
(***************************************************************************)
(* Theorems about Configuration, for any processes, commands and files.    *)
(***************************************************************************)
EXTENDS Configuration, SequenceTheorems, TLAPS

\* A step of one process.
Act(p) ==
  \/ Start(p) \/ LoadConfigFile(p) \/ Flags(p) \/ Check(p) \/ GetConfig(p)
  \/ EditConfig(p) \/ Truncate(p) \/ WriteConfig(p) \/ ReloadConfig(p) \/ Crash(p)

LEMMA NextIsAct == [Next]_vars => (\E p \in Proc : Act(p)) \/ UNCHANGED vars
BY DEF Next, Act

-----------------------------------------------------------------------------
\* Values

LEMMA EmptyContent == Empty \in Content
BY DEF Empty, Content, Key, Known, Unset

LEMMA ContentThere ==
  ASSUME NEW f \in Content PROVE f # Missing
<1>1. DOMAIN f = Key /\ "remote" \in Key
  BY DEF Content, Key, Known
<1>2. DOMAIN Missing = {}
  BY DEF Missing
<1>3. QED
  BY <1>1, <1>2

LEMMA ReadFileType ==
  ASSUME NEW c \in Content, NEW f \in Content \cup {Missing}
  PROVE  ReadFile(c, f) \in Content
BY DEF ReadFile, Content, Missing

\* What SetConfig makes of a file's map: all keys but one stay.
LEMMA DecodeType ==
  ASSUME NEW f \in Content, NEW k \in Key, NEW v \in Given \cup {Unset},
         ~DecodeFails([f EXCEPT ![k] = v])
  PROVE  /\ Decode([f EXCEPT ![k] = v]) \in Content
         /\ \A j \in Known \ {k} : Decode([f EXCEPT ![k] = v])[j] = f[j]
         /\ k \in Known /\ v # "empty" => Decode([f EXCEPT ![k] = v])[k] = v
<1> DEFINE m == [f EXCEPT ![k] = v]
<1>1. /\ \A j \in Key : m[j] = IF j = k THEN v ELSE f[j]
      /\ \A j \in Key : f[j] \in {"x", "y", "schemeless", Unset}
      /\ Known \subseteq Key
  BY DEF Content, Key
<1>2. \A j \in Known : m[j] # "mistyped"
  BY DEF DecodeFails
<1>3. \A j \in Key : Decode(m)[j] = IF j \in Known /\ m[j] # "empty" THEN m[j] ELSE Unset
  BY DEF Decode
<1>4. \A j \in Key : Decode(m)[j] \in {"x", "y", "schemeless", Unset}
  BY <1>1, <1>2, <1>3 DEF Given, Unset
<1>5. Decode(m) \in Content
  BY <1>4 DEF Decode, Content
<1>6. \A j \in Known \ {k} : Decode(m)[j] = f[j]
  BY <1>1, <1>3 DEF Unset
<1>7. k \in Known /\ v # "empty" => Decode(m)[k] = v
  <2>1. m[k] = v /\ Decode(m)[k] = IF k \in Known /\ m[k] # "empty" THEN m[k] ELSE Unset
    BY <1>1, <1>3
  <2>2. QED
    BY ONLY <2>1
<1>8. QED
  BY <1>5, <1>6, <1>7

-----------------------------------------------------------------------------
\* The files that are loaded

\* The sequences of files that a command may still have to load.
LEMMA Tuples ==
  /\ <<>> \in Seq(File)
  /\ \A s \in {<<"xdg", "local", "custom">>, <<"xdg", "local">>, <<"local", "custom">>,
               <<"local">>, <<"custom">>} : s \in Seq(File) /\ s # <<>>
  /\ \A s \in {<<"xdg", "local", "custom">>, <<"xdg", "local">>} : Head(s) = "xdg"
  /\ \A s \in {<<"local", "custom">>, <<"local">>} : Head(s) = "local"
  /\ Head(<<"custom">>) = "custom"
  /\ Tail(<<"xdg", "local", "custom">>) = <<"local", "custom">>
  /\ Tail(<<"xdg", "local">>) = <<"local">>
  /\ Tail(<<"local", "custom">>) = <<"custom">>
  /\ Tail(<<"local">>) = <<>> /\ Tail(<<"custom">>) = <<>>
BY DEF File

\* The sequences of files that have been loaded.
LEMMA Loading ==
  /\ Append(<<>>, "xdg") = <<"xdg">> /\ Append(<<"xdg">>, "local") = <<"xdg", "local">>
  /\ Append(<<"xdg", "local">>, "custom") = <<"xdg", "local", "custom">>
  /\ Append(<<>>, "custom") = <<"custom">>
<1>1. Append(<<>>, "xdg") = <<"xdg">> /\ Append(<<>>, "custom") = <<"custom">>
  OBVIOUS
<1>2. Append(<<"xdg">>, "local") = <<"xdg", "local">>
  <2>1. <<"xdg">> \in Seq(File) /\ "local" \in File /\ <<"xdg", "local">> \in Seq(File)
    BY DEF File
  <2>2. \A i \in 1..2 : Append(<<"xdg">>, "local")[i] = <<"xdg", "local">>[i]
    OBVIOUS
  <2>3. /\ Append(<<"xdg">>, "local") \in Seq(File)
        /\ Len(Append(<<"xdg">>, "local")) = 2 /\ Len(<<"xdg", "local">>) = 2
    BY <2>1, AppendProperties
  <2>4. QED
    BY <2>1, <2>2, <2>3, SeqEqual
<1>3. Append(<<"xdg", "local">>, "custom") = <<"xdg", "local", "custom">>
  <2>1. /\ <<"xdg", "local">> \in Seq(File) /\ "custom" \in File
        /\ <<"xdg", "local", "custom">> \in Seq(File)
    BY DEF File
  <2>2. \A i \in 1..3 : Append(<<"xdg", "local">>, "custom")[i] = <<"xdg", "local", "custom">>[i]
    OBVIOUS
  <2>3. /\ Append(<<"xdg", "local">>, "custom") \in Seq(File)
        /\ Len(Append(<<"xdg", "local">>, "custom")) = 3 /\ Len(<<"xdg", "local", "custom">>) = 3
    BY <2>1, AppendProperties
  <2>4. QED
    BY <2>1, <2>2, <2>3, SeqEqual
<1>4. QED
  BY <1>1, <1>2, <1>3

LEMMA DifferentTuples ==
  /\ <<"xdg", "local", "custom">> \notin
       {<<"xdg", "local">>, <<"local", "custom">>, <<"local">>, <<"custom">>}
  /\ <<"xdg", "local">> \notin {<<"local", "custom">>, <<"local">>, <<"custom">>}
  /\ <<"local", "custom">> \notin {<<"local">>, <<"custom">>}
  /\ <<"local">> # <<"custom">>
OBVIOUS

\* What a command with these flags loads.
Plan(c) ==
  IF c.noinherit THEN IF c.custom THEN <<"custom">> ELSE <<>>
  ELSE IF c.custom THEN <<"xdg", "local", "custom">> ELSE <<"xdg", "local">>

\* The file that it rewrites.
Target(c) == IF c.global THEN "xdg" ELSE IF c.custom THEN "custom" ELSE "local"

LEMMA LastOfPlan ==
  /\ Last(<<"xdg", "local", "custom">>) = "custom" /\ Last(<<"xdg", "local">>) = "local"
  /\ Last(<<"custom">>) = "custom"
BY DEF Last

LEMMA LastAppended ==
  ASSUME NEW s \in Seq(File), NEW f \in File
  PROVE  /\ Append(s, f) \in Seq(File) /\ Append(s, f) # <<>>
         /\ Last(Append(s, f)) = f
BY AppendProperties DEF Last

-----------------------------------------------------------------------------
\* Types

\* Another process's step leaves a process where it is.
LEMMA OtherProcess ==
  ASSUME TypeOK, NEW p \in Proc, NEW q \in Proc \ {p}, Act(q)
  PROVE  /\ pc'[p] = pc[p] /\ cmd'[p] = cmd[p] /\ conf'[p] = conf[p]
         /\ loaded'[p] = loaded[p] /\ todo'[p] = todo[p] /\ draft'[p] = draft[p]
         /\ said'[p] = said[p] /\ was'[p] = was[p]
<1> USE DEF TypeOK
<1>1. CASE Start(q)
  BY <1>1 DEF Start
<1>2. CASE LoadConfigFile(q) \/ Flags(q) \/ Check(q)
  BY <1>2 DEF LoadConfigFile, Flags, Check, End, Goto, histVars
<1>3. CASE GetConfig(q) \/ EditConfig(q) \/ Truncate(q)
  BY <1>3 DEF GetConfig, EditConfig, Truncate, End, Goto, histVars
<1>4. CASE WriteConfig(q) \/ ReloadConfig(q) \/ Crash(q)
  BY <1>4 DEF WriteConfig, ReloadConfig, Crash, End, Goto, histVars
<1>5. QED
  BY <1>1, <1>2, <1>3, <1>4 DEF Act

\* Where a command is in its loading of files.
LoadingDefault(p) ==
  \/ todo[p] = <<"xdg", "local">> /\ loaded[p] = <<>>
  \/ todo[p] = <<"local">> /\ loaded[p] = <<"xdg">>
  \/ todo[p] = <<>> /\ loaded[p] = <<"xdg", "local">>

LoadingCustom(p) ==
  \/ /\ todo[p] = <<"custom">> /\ cmd[p].custom
     /\ loaded[p] = IF cmd[p].noinherit THEN <<>> ELSE <<"xdg", "local">>
  \/ todo[p] = <<>> /\ loaded[p] = Plan(cmd[p])

LoadingAgain(p) ==
  \/ todo[p] = <<>> /\ (cmd[p].global \/ (loaded[p] # <<>> /\ Last(loaded[p]) = Target(cmd[p])))
  \/ todo[p] = <<"custom">> /\ cmd[p].custom
  \/ todo[p] \in {<<"local">>, <<"xdg", "local">>} /\ ~cmd[p].custom /\ ~cmd[p].noinherit
  \/ /\ todo[p] \in {<<"local", "custom">>, <<"xdg", "local", "custom">>}
     /\ cmd[p].custom /\ ~cmd[p].noinherit

\* A command that rewrites a file has a last loaded one, or has -g.
IPlan(p) ==
  /\ pc[p] # "idle" => cmd[p] \in Commands
  /\ pc[p] = "idle" => loaded[p] = <<>>
  /\ pc[p] = "default" => LoadingDefault(p)
  /\ pc[p] = "custom" => LoadingCustom(p)
  /\ pc[p] \in {"check", "truncate", "write"} => loaded[p] = Plan(cmd[p])
  /\ pc[p] \in {"truncate", "write", "reload"} =>
       cmd[p].op # "get" /\ (cmd[p].global \/ cmd[p].custom \/ ~cmd[p].noinherit)
  /\ pc[p] = "reload" => LoadingAgain(p)

IType == TypeOK /\ \A p \in Proc : IPlan(p)

LEMMA CommandFields ==
  ASSUME NEW c \in Commands
  PROVE  /\ c.op \in {"get", "set", "del"} /\ c.key \in Key /\ c.value \in Given
         /\ c.global \in BOOLEAN /\ c.noinherit \in BOOLEAN /\ c.custom \in BOOLEAN
BY ConfigurationAssumption DEF CommandType

LEMMA PlanType ==
  ASSUME NEW c \in Commands
  PROVE  /\ Plan(c) \in Seq(File) /\ Target(c) \in File
         /\ Plan(c) # <<>> => Last(Plan(c)) = IF c.custom THEN "custom" ELSE "local"
         /\ Plan(c) # <<>> <=> c.custom \/ ~c.noinherit
BY CommandFields, Tuples, LastOfPlan DEF Plan, Target, File

\* The file that is rewritten, at the time it is.
LEMMA TargetIs ==
  ASSUME IType, NEW p \in Proc, pc[p] \in {"check", "truncate", "write"},
         cmd[p].global \/ loaded[p] # <<>>
  PROVE  TargetOf(p) = Target(cmd[p]) /\ TargetOf(p) \in File
<1>1. cmd[p] \in Commands /\ loaded[p] = Plan(cmd[p])
  BY DEF IType, IPlan
<1>2. QED
  BY <1>1, PlanType, CommandFields DEF TargetOf, Target

\* A command that ends is nowhere.
LEMMA EndType ==
  ASSUME TypeOK, NEW p \in Proc, NEW result \in Result, End(p, result), UNCHANGED file
  PROVE  TypeOK' /\ pc'[p] = "idle" /\ loaded'[p] = <<>>
<1>1. None \in Commands \cup {None} /\ <<>> \in Seq(File) /\ NoFiles \in [File -> Content \cup {Missing}]
  BY DEF NoFiles
<1>2. QED
  BY <1>1, EmptyContent DEF TypeOK, End, Step

LEMMA ActType ==
  ASSUME IType, NEW p \in Proc, Act(p)
  PROVE  TypeOK' /\ IPlan(p)'
<1>t. TypeOK /\ IPlan(p)
  BY DEF IType
<1>e. ASSUME NEW result \in Result, End(p, result), UNCHANGED file
      PROVE  TypeOK' /\ IPlan(p)'
  BY <1>e, <1>t, EndType DEF IPlan
<1>r. {"nothing", "ok", "fatal", "panic"} \subseteq Result
  BY DEF Result
<1>1. CASE Start(p)
  <2>1. PICK c \in Commands : cmd' = [cmd EXCEPT ![p] = c]
    BY <1>1 DEF Start
  <2>2. pc'[p] = "default" /\ todo'[p] = <<"xdg", "local">> /\ cmd'[p] = c
    BY <1>t, <1>1, <2>1 DEF Start, TypeOK
  <2>i. pc[p] = "idle"
    BY <1>1 DEF Start
  <2>3. TypeOK'
    <3>1. ran + 1 \in 0..MaxRuns
      BY <1>t, <1>1, ConfigurationAssumption DEF Start, TypeOK
    <3>2. alone' \in [Proc -> BOOLEAN] /\ was' \in [Proc -> [File -> Content \cup {Missing}]]
      BY <1>t, <1>1 DEF Start, TypeOK
    <3>3. todo' \in [Proc -> Seq(File)] /\ pc' \in [Proc -> Step] /\ said' \in [Proc -> Result]
      BY <1>t, <1>1, <1>r, Tuples DEF Start, TypeOK, Step
    <3>4. cmd' \in [Proc -> Commands \cup {None}]
      BY <1>t, <2>1 DEF TypeOK
    <3>5. QED
      BY <1>t, <1>1, <3>1, <3>2, <3>3, <3>4 DEF Start, TypeOK
  <2>4. loaded'[p] = <<>>
    BY <1>1, <1>t DEF Start, IPlan
  <2>5. QED
    BY <2>1, <2>2, <2>3, <2>4 DEF IPlan, LoadingDefault
<1>2. CASE LoadConfigFile(p)
  <2> DEFINE f == Head(todo[p])
             c == ReadFile(conf[p], file[f])
  <2>1. pc[p] \in {"default", "custom", "reload"} /\ todo[p] # <<>>
    BY <1>2 DEF LoadConfigFile
  <2>2. CASE ReadFails(c)
    BY <1>2, <1>e, <1>r, <2>2 DEF LoadConfigFile
  <2>3. CASE ~ReadFails(c)
    <3>1. /\ conf' = [conf EXCEPT ![p] = c]
          /\ loaded' = [loaded EXCEPT ![p] = Append(@, f)]
          /\ todo' = [todo EXCEPT ![p] = Tail(@)]
          /\ Goto(p, pc[p]) /\ UNCHANGED draft /\ UNCHANGED file
      BY <1>2, <2>3 DEF LoadConfigFile
    <3>2. f \in File /\ Tail(todo[p]) \in Seq(File)
      BY <1>t, <2>1, HeadTailProperties DEF TypeOK
    <3>3. c \in Content
      BY <1>t, <3>2, ReadFileType DEF TypeOK
    <3>4. Append(loaded[p], f) \in Seq(File) /\ Append(loaded[p], f) # <<>>
          /\ Last(Append(loaded[p], f)) = f
      BY <1>t, <3>2, LastAppended DEF TypeOK
    <3>5. TypeOK'
      BY <1>t, <3>1, <3>2, <3>3, <3>4 DEF TypeOK, Goto, histVars
    <3>6. /\ pc'[p] = pc[p] /\ cmd'[p] = cmd[p]
          /\ loaded'[p] = Append(loaded[p], f) /\ todo'[p] = Tail(todo[p])
      BY <1>t, <3>1 DEF TypeOK, Goto
    <3>7. ASSUME pc[p] = "default" PROVE LoadingDefault(p)'
      <4>1. CASE todo[p] = <<"xdg", "local">> /\ loaded[p] = <<>>
        <5>1. todo'[p] = <<"local">> /\ loaded'[p] = <<"xdg">>
          BY <3>6, <4>1, Tuples, Loading
        <5>2. QED
          BY <5>1 DEF LoadingDefault
      <4>2. CASE todo[p] = <<"local">> /\ loaded[p] = <<"xdg">>
        <5>1. todo'[p] = <<>> /\ loaded'[p] = <<"xdg", "local">>
          BY <3>6, <4>2, Tuples, Loading
        <5>2. QED
          BY <5>1 DEF LoadingDefault
      <4>3. QED
        BY <1>t, <2>1, <3>7, <4>1, <4>2 DEF IPlan, LoadingDefault
    <3>8. ASSUME pc[p] = "custom" PROVE LoadingCustom(p)'
      <4>1. /\ todo[p] = <<"custom">> /\ cmd[p].custom /\ cmd[p] \in Commands
            /\ loaded[p] = IF cmd[p].noinherit THEN <<>> ELSE <<"xdg", "local">>
        BY <1>t, <2>1, <3>8 DEF IPlan, LoadingCustom
      <4>2. todo'[p] = <<>> /\ loaded'[p] = Plan(cmd[p])
        BY <3>6, <4>1, Tuples, Loading DEF Plan
      <4>3. QED
        BY <3>6, <4>2 DEF LoadingCustom
    <3>9. ASSUME pc[p] = "reload" PROVE LoadingAgain(p)'
      <4>1. CASE todo[p] = <<"custom">> /\ cmd[p].custom
        <5>1. todo'[p] = <<>> /\ loaded'[p] # <<>> /\ Last(loaded'[p]) = "custom"
          BY <3>4, <3>6, <4>1, Tuples
        <5>2. QED
          BY <3>6, <4>1, <5>1 DEF LoadingAgain, Target
      <4>2. CASE todo[p] = <<"local">> /\ ~cmd[p].custom
        <5>1. todo'[p] = <<>> /\ loaded'[p] # <<>> /\ Last(loaded'[p]) = "local"
          BY <3>4, <3>6, <4>2, Tuples
        <5>2. QED
          BY <3>6, <4>2, <5>1 DEF LoadingAgain, Target
      <4>3. CASE todo[p] = <<"xdg", "local">> /\ ~cmd[p].custom /\ ~cmd[p].noinherit
        <5>1. todo'[p] = <<"local">>
          BY <3>6, <4>3, Tuples
        <5>2. QED
          BY <3>6, <4>3, <5>1 DEF LoadingAgain
      <4>4. CASE todo[p] = <<"local", "custom">> /\ cmd[p].custom
        <5>1. todo'[p] = <<"custom">>
          BY <3>6, <4>4, Tuples
        <5>2. QED
          BY <3>6, <4>4, <5>1 DEF LoadingAgain
      <4>5. CASE todo[p] = <<"xdg", "local", "custom">> /\ cmd[p].custom /\ ~cmd[p].noinherit
        <5>1. todo'[p] = <<"local", "custom">>
          BY <3>6, <4>5, Tuples
        <5>2. QED
          BY <3>6, <4>5, <5>1 DEF LoadingAgain
      <4>6. LoadingAgain(p)
        BY <1>t, <3>9 DEF IPlan
      <4>7. QED
        BY <2>1, <4>1, <4>2, <4>3, <4>4, <4>5, <4>6 DEF LoadingAgain
    <3>10. QED
      BY <1>t, <2>1, <3>5, <3>6, <3>7, <3>8, <3>9 DEF IPlan
  <2>4. QED
    BY <2>2, <2>3
<1>3. CASE Flags(p)
  <2>1. loaded[p] = <<"xdg", "local">> /\ cmd[p] \in Commands
    BY <1>t, <1>3, Tuples DEF Flags, IPlan, LoadingDefault
  <2>2. /\ pc'[p] = "custom" /\ cmd'[p] = cmd[p]
        /\ loaded'[p] = IF cmd[p].noinherit THEN <<>> ELSE <<"xdg", "local">>
        /\ todo'[p] = IF cmd[p].custom THEN <<"custom">> ELSE <<>>
    BY <1>t, <1>3, <2>1 DEF Flags, TypeOK, Goto
  <2>3. TypeOK'
    BY <1>t, <1>3, Tuples, EmptyContent DEF Flags, TypeOK, Goto, histVars, Step
  <2>4. LoadingCustom(p)'
    BY <2>1, <2>2, CommandFields DEF LoadingCustom, Plan
  <2>5. QED
    BY <2>1, <2>2, <2>3, <2>4 DEF IPlan
<1>4. CASE Check(p)
  <2>1. CASE End(p, "fatal")
    BY <1>4, <2>1, <1>e, <1>r DEF Check
  <2>2. CASE Goto(p, "check") /\ UNCHANGED <<conf, loaded, todo, draft>>
    <3>1. loaded[p] = Plan(cmd[p]) /\ cmd[p] \in Commands
      BY <1>t, <1>4, Tuples DEF Check, IPlan, LoadingCustom
    <3>2. pc'[p] = "check" /\ cmd'[p] = cmd[p] /\ loaded'[p] = loaded[p]
      BY <1>t, <2>2 DEF TypeOK, Goto
    <3>3. TypeOK'
      BY <1>t, <1>4, <2>2 DEF Check, TypeOK, Goto, histVars, Step
    <3>4. QED
      BY <3>1, <3>2, <3>3 DEF IPlan
  <2>3. QED
    BY <1>4, <2>1, <2>2 DEF Check
<1>5. CASE GetConfig(p)
  BY <1>5, <1>e, <1>r DEF GetConfig
<1>6. CASE EditConfig(p)
  <2> DEFINE v == IF cmd[p].op = "set" THEN cmd[p].value ELSE Unset
             m == [ReadTarget(p) EXCEPT ![cmd[p].key] = v]
  <2>1. \/ \E result \in Result : End(p, result)
        \/ /\ cmd[p].global \/ loaded[p] # <<>>
           /\ ~DecodeFails(m)
           /\ draft' = [draft EXCEPT ![p] = Decode(m)]
           /\ Goto(p, "truncate") /\ UNCHANGED <<conf, loaded, todo>>
    BY <1>6, <1>r DEF EditConfig
  <2>2. UNCHANGED file /\ pc[p] = "check" /\ cmd[p].op # "get"
    BY <1>6 DEF EditConfig
  <2>3. CASE \E result \in Result : End(p, result)
    BY <2>2, <2>3, <1>e
  <2>4. CASE /\ cmd[p].global \/ loaded[p] # <<>>
             /\ ~DecodeFails(m)
             /\ draft' = [draft EXCEPT ![p] = Decode(m)]
             /\ Goto(p, "truncate") /\ UNCHANGED <<conf, loaded, todo>>
    <3>1. cmd[p] \in Commands /\ loaded[p] = Plan(cmd[p])
      BY <1>t, <2>2 DEF IPlan
    <3>2. TargetOf(p) \in File
      BY <2>2, <2>4, TargetIs
    <3>3. ReadTarget(p) \in Content
      BY <1>t, <3>2, EmptyContent DEF ReadTarget, TypeOK
    <3>4. Decode(m) \in Content
      <4>1. cmd[p].key \in Key /\ v \in Given \cup {Unset}
        BY <3>1, CommandFields
      <4>2. QED
        BY <2>4, <3>3, <4>1, DecodeType
    <3>5. TypeOK'
      BY <1>t, <2>2, <2>4, <3>4 DEF TypeOK, Goto, histVars, Step
    <3>6. pc'[p] = "truncate" /\ cmd'[p] = cmd[p] /\ loaded'[p] = loaded[p]
      BY <1>t, <2>4 DEF TypeOK, Goto
    <3>7. QED
      BY <2>2, <2>4, <3>1, <3>5, <3>6, PlanType DEF IPlan
  <2>5. QED
    BY <2>1, <2>3, <2>4
<1>7. CASE Truncate(p)
  <2>1. pc[p] = "truncate" /\ TargetOf(p) \in File
    BY <1>t, <1>7, TargetIs, PlanType DEF Truncate, IPlan
  <2>2. pc'[p] = "write" /\ cmd'[p] = cmd[p] /\ loaded'[p] = loaded[p]
    BY <1>t, <1>7 DEF Truncate, TypeOK, Goto
  <2>3. TypeOK'
    BY <1>t, <1>7, <2>1, EmptyContent DEF Truncate, TypeOK, Goto, histVars, Step
  <2>4. QED
    BY <1>t, <2>1, <2>2, <2>3 DEF IPlan
<1>8. CASE WriteConfig(p)
  <2>1. pc[p] = "write" /\ TargetOf(p) \in File /\ cmd[p] \in Commands /\ loaded[p] = Plan(cmd[p])
    BY <1>t, <1>8, TargetIs, PlanType DEF WriteConfig, IPlan
  <2>2. pc'[p] = "reload" /\ cmd'[p] = cmd[p] /\ loaded'[p] = loaded[p] /\ todo'[p] = loaded[p]
    BY <1>t, <1>8 DEF WriteConfig, TypeOK, Goto
  <2>3. TypeOK'
    BY <1>t, <1>8, <2>1, EmptyContent DEF WriteConfig, TypeOK, Goto, histVars, Step, NewConfig
  <2>4. LoadingAgain(p)'
    BY <1>t, <2>1, <2>2, CommandFields DEF IPlan, LoadingAgain, Plan
  <2>5. QED
    BY <1>t, <2>1, <2>2, <2>3, <2>4 DEF IPlan
<1>9. CASE ReloadConfig(p)
  BY <1>9, <1>e, <1>r DEF ReloadConfig
<1>10. CASE Crash(p)
  BY <1>10, <1>e, <1>r DEF Crash
<1>11. QED
  BY <1>1, <1>2, <1>3, <1>4, <1>5, <1>6, <1>7, <1>8, <1>9, <1>10 DEF Act

LEMMA TypeStep == IType /\ [Next]_vars => IType'
<1> SUFFICES ASSUME IType, [Next]_vars PROVE IType'
  OBVIOUS
<1>1. ASSUME NEW q \in Proc, Act(q) PROVE IType'
  <2>1. TypeOK' /\ IPlan(q)'
    BY <1>1, ActType
  <2>2. ASSUME NEW p \in Proc \ {q} PROVE IPlan(p)'
    <3>1. IPlan(p) /\ TypeOK
      BY <2>2 DEF IType
    <3>2. /\ pc'[p] = pc[p] /\ cmd'[p] = cmd[p] /\ loaded'[p] = loaded[p] /\ todo'[p] = todo[p]
      BY <1>1, <2>2, <3>1, OtherProcess
    <3>3. QED
      BY <3>1, <3>2 DEF IPlan, LoadingDefault, LoadingCustom, LoadingAgain
  <2>3. QED
    BY <2>1, <2>2 DEF IType
<1>2. CASE UNCHANGED vars
  BY <1>2 DEF vars, procVars, histVars, IType, TypeOK, IPlan, LoadingDefault, LoadingCustom,
              LoadingAgain
<1>3. QED
  BY <1>1, <1>2, NextIsAct

LEMMA InitType == Init => IType
<1>1. ASSUME Init PROVE TypeOK
  <2>1. /\ None \in Commands \cup {None} /\ <<>> \in Seq(File)
        /\ NoFiles \in [File -> Content \cup {Missing}] /\ ran \in 0..MaxRuns
    BY <1>1, ConfigurationAssumption DEF NoFiles, Init
  <2>2. file \in [File -> Content \cup {Missing}]
    BY <1>1, ConfigurationAssumption DEF Init
  <2>3. QED
    BY <1>1, <2>1, <2>2, EmptyContent DEF Init, TypeOK, Step, Result
<1>2. ASSUME Init, NEW p \in Proc PROVE IPlan(p)
  BY <1>2 DEF Init, IPlan
<1>3. QED
  BY <1>1, <1>2 DEF IType

\* Every file has at all times what can be decoded, and every process knows
\* where it is, whatever the processes are and are told to do.
THEOREM TypeCorrect == Spec => []TypeOK
<1>1. IType => TypeOK
  BY DEF IType
<1>2. QED
  BY <1>1, InitType, TypeStep, PTL DEF Spec

-----------------------------------------------------------------------------
\* What a process that was alone has done

Inherited(fs, c) ==
  IF c.noinherit THEN Empty ELSE ReadFile(ReadFile(Empty, fs["xdg"]), fs["local"])

\* What it has in hand for the file: what was there, but for one key.
Drafted(p) ==
  /\ \A k \in Known \ {cmd[p].key} : draft[p][k] =
       IF was[p][Target(cmd[p])] = Missing THEN Unset ELSE was[p][Target(cmd[p])][k]
  /\ cmd[p].op = "set" /\ cmd[p].key \in Known /\ cmd[p].value # "empty"
       => draft[p][cmd[p].key] = cmd[p].value

\* What it has loaded again.
Reloaded(p) ==
  /\ todo[p] = Plan(cmd[p]) => conf[p] = Empty
  /\ todo[p] \in {<<"local">>, <<"local", "custom">>} => conf[p] = ReadFile(Empty, file["xdg"])
  /\ todo[p] = <<"custom">> => conf[p] = Inherited(file, cmd[p])
  /\ todo[p] = <<>> => conf[p] = InForce(file, cmd[p])

IHistory(p) ==
  alone[p] =>
    /\ pc[p] # "idle" /\ \A q \in Proc \ {p} : pc[q] = "idle"
    /\ pc[p] \in {"default", "custom", "check", "truncate"} => file = was[p]
    /\ pc[p] = "write" => file = [was[p] EXCEPT ![Target(cmd[p])] = Empty]
    /\ pc[p] = "reload" => /\ file = [was[p] EXCEPT ![Target(cmd[p])] = draft[p]]
                           /\ Reloaded(p)
    /\ pc[p] \in {"truncate", "write", "reload"} => Drafted(p)

\* A command that ends was alone no longer, and one that starts ends
\* everybody else's being alone.
LEMMA OtherAlone ==
  ASSUME IType, NEW p \in Proc, IHistory(p), NEW q \in Proc \ {p}, Act(q)
  PROVE  ~alone'[p]
<1>1. CASE Start(q)
  BY <1>1 DEF Start
<1>2. CASE pc[q] # "idle" /\ ~Start(q)
  <2>1. ~alone[p]
    BY <1>2 DEF IHistory
  <2>2. alone'[p] = alone[p]
    BY <1>2 DEF Act, LoadConfigFile, Flags, Check, GetConfig, EditConfig, Truncate, WriteConfig,
                ReloadConfig, Crash, End, Goto, histVars, IType, TypeOK
  <2>3. QED
    BY <2>1, <2>2
<1>3. pc[q] # "idle" \/ Start(q)
  BY DEF Act, LoadConfigFile, Flags, Check, GetConfig, EditConfig, Truncate, WriteConfig,
         ReloadConfig, Crash
<1>4. QED
  BY <1>1, <1>2, <1>3

\* Going on, a process stays alone, and the others idle.
LEMMA Going ==
  ASSUME TypeOK, NEW p \in Proc, NEW step, Goto(p, step)
  PROVE  /\ pc'[p] = step /\ cmd'[p] = cmd[p] /\ alone'[p] = alone[p] /\ was'[p] = was[p]
         /\ \A q \in Proc \ {p} : pc'[q] = pc[q]
BY DEF TypeOK, Goto, histVars

LEMMA InForceIs ==
  ASSUME NEW fs, NEW c
  PROVE  InForce(fs, c) = IF c.custom THEN ReadFile(Inherited(fs, c), fs["custom"])
                          ELSE Inherited(fs, c)
BY DEF InForce, Inherited

LEMMA ReloadStep ==
  ASSUME IType, NEW p \in Proc, IHistory(p), LoadConfigFile(p), pc[p] = "reload", alone'[p]
  PROVE  IHistory(p)'
<1> DEFINE f == Head(todo[p])
           c == ReadFile(conf[p], file[f])
<1>1. todo[p] # <<>> /\ UNCHANGED file
  BY DEF LoadConfigFile
<1>2. ~ReadFails(c)
  BY DEF LoadConfigFile, End, IType, TypeOK
<1>3. /\ conf' = [conf EXCEPT ![p] = c]
      /\ todo' = [todo EXCEPT ![p] = Tail(@)]
      /\ Goto(p, pc[p]) /\ UNCHANGED draft
  BY <1>2 DEF LoadConfigFile
<1>4. /\ pc'[p] = "reload" /\ cmd'[p] = cmd[p] /\ alone[p] /\ was'[p] = was[p]
      /\ \A q \in Proc \ {p} : pc'[q] = pc[q]
  BY <1>3, Going DEF IType
<1>5. conf'[p] = c /\ todo'[p] = Tail(todo[p]) /\ draft'[p] = draft[p]
  BY <1>3 DEF IType, TypeOK
<1>6. cmd[p] \in Commands /\ LoadingAgain(p) /\ Reloaded(p)
  BY <1>4 DEF IType, IPlan, IHistory
<1>7. Reloaded(p)'
  <2>1. CASE todo[p] = <<"custom">> /\ cmd[p].custom
    <3>1. todo'[p] = <<>> /\ f = "custom"
      BY <1>5, <2>1, Tuples
    <3>2. conf'[p] = InForce(file, cmd[p])
      BY <1>5, <1>6, <2>1, <3>1, InForceIs DEF Reloaded
    <3>3. Plan(cmd[p]) # <<>>
      BY <1>6, <2>1, PlanType
    <3>4. QED
      BY <1>1, <1>4, <3>1, <3>2, <3>3, Tuples DEF Reloaded
  <2>2. CASE todo[p] = <<"local">> /\ ~cmd[p].custom /\ ~cmd[p].noinherit
    <3>1. todo'[p] = <<>> /\ f = "local"
      BY <1>5, <2>2, Tuples
    <3>2. conf'[p] = InForce(file, cmd[p])
      BY <1>5, <1>6, <2>2, <3>1, InForceIs DEF Reloaded, Inherited
    <3>3. Plan(cmd[p]) # <<>>
      BY <1>6, <2>2, PlanType
    <3>4. QED
      BY <1>1, <1>4, <3>1, <3>2, <3>3, Tuples DEF Reloaded
  <2>3. CASE todo[p] = <<"xdg", "local">> /\ ~cmd[p].custom /\ ~cmd[p].noinherit
    <3>1. todo'[p] = <<"local">> /\ f = "xdg" /\ Plan(cmd[p]) = <<"xdg", "local">>
      BY <1>5, <2>3, Tuples DEF Plan
    <3>2. conf'[p] = ReadFile(Empty, file["xdg"])
      BY <1>5, <1>6, <2>3, <3>1 DEF Reloaded
    <3>3. QED
      BY <1>1, <1>4, <3>1, <3>2, DifferentTuples, Tuples DEF Reloaded
  <2>4. CASE todo[p] = <<"local", "custom">> /\ cmd[p].custom /\ ~cmd[p].noinherit
    <3>1. /\ todo'[p] = <<"custom">> /\ f = "local"
          /\ Plan(cmd[p]) = <<"xdg", "local", "custom">>
      BY <1>5, <2>4, Tuples DEF Plan
    <3>2. conf'[p] = Inherited(file, cmd[p])
      BY <1>5, <1>6, <2>4, <3>1 DEF Reloaded, Inherited
    <3>3. QED
      BY <1>1, <1>4, <3>1, <3>2, DifferentTuples, Tuples DEF Reloaded
  <2>5. CASE todo[p] = <<"xdg", "local", "custom">> /\ cmd[p].custom /\ ~cmd[p].noinherit
    <3>1. /\ todo'[p] = <<"local", "custom">> /\ f = "xdg"
          /\ Plan(cmd[p]) = <<"xdg", "local", "custom">>
      BY <1>5, <2>5, Tuples DEF Plan
    <3>2. conf'[p] = ReadFile(Empty, file["xdg"])
      BY <1>5, <1>6, <2>5, <3>1 DEF Reloaded
    <3>3. QED
      BY <1>1, <1>4, <3>1, <3>2, DifferentTuples, Tuples DEF Reloaded
  <2>6. QED
    BY <1>1, <1>6, <2>1, <2>2, <2>3, <2>4, <2>5 DEF LoadingAgain
<1>8. Drafted(p)'
  BY <1>4, <1>5 DEF IHistory, Drafted
<1>9. file' = [was'[p] EXCEPT ![Target(cmd'[p])] = draft'[p]]
  BY <1>1, <1>4, <1>5 DEF IHistory
<1>10. QED
  BY <1>4, <1>7, <1>8, <1>9 DEF IHistory

LEMMA OwnStep ==
  ASSUME IType, IType', NEW p \in Proc, IHistory(p), Act(p), alone'[p]
  PROVE  IHistory(p)'
<1>t. TypeOK /\ IPlan(p)
  BY DEF IType
<1>e. ASSUME NEW result, End(p, result) PROVE FALSE
  BY <1>e, <1>t DEF End, TypeOK
<1>1. CASE Start(p)
  <2>1. /\ pc'[p] = "default" /\ was'[p] = file /\ file' = file
        /\ \A q \in Proc \ {p} : pc[q] = "idle" /\ pc'[q] = pc[q]
    BY <1>1, <1>t DEF Start, TypeOK
  <2>2. QED
    BY <2>1 DEF IHistory
<1>2. CASE LoadConfigFile(p)
  <2>1. CASE pc[p] = "reload"
    BY <1>2, <2>1, ReloadStep
  <2>2. CASE pc[p] # "reload"
    <3>1. Goto(p, pc[p]) /\ UNCHANGED file /\ pc[p] \in {"default", "custom"}
      BY <1>2, <1>e, <2>2 DEF LoadConfigFile
    <3>2. QED
      BY <1>t, <3>1, Going DEF IHistory
  <2>3. QED
    BY <2>1, <2>2
<1>3. CASE Flags(p)
  BY <1>3, <1>t, Going DEF Flags, IHistory
<1>4. CASE Check(p)
  <2>1. Goto(p, "check") /\ UNCHANGED file /\ pc[p] = "custom"
    BY <1>4, <1>e DEF Check
  <2>2. QED
    BY <1>t, <2>1, Going DEF IHistory
<1>5. CASE GetConfig(p)
  BY <1>5, <1>e DEF GetConfig
<1>6. CASE EditConfig(p)
  <2> DEFINE v == IF cmd[p].op = "set" THEN cmd[p].value ELSE Unset
             f == ReadTarget(p)
             m == [f EXCEPT ![cmd[p].key] = v]
  <2>1. /\ cmd[p].global \/ loaded[p] # <<>>
        /\ ~DecodeFails(m)
        /\ draft' = [draft EXCEPT ![p] = Decode(m)]
        /\ Goto(p, "truncate") /\ UNCHANGED file /\ pc[p] = "check"
    BY <1>6, <1>e DEF EditConfig
  <2>2. /\ pc'[p] = "truncate" /\ cmd'[p] = cmd[p] /\ alone[p] /\ was'[p] = was[p]
        /\ \A q \in Proc \ {p} : pc'[q] = pc[q]
    BY <1>t, <2>1, Going
  <2>3. file = was[p] /\ TargetOf(p) = Target(cmd[p]) /\ TargetOf(p) \in File /\ cmd[p] \in Commands
    BY <1>t, <2>1, <2>2, TargetIs DEF IHistory, IPlan
  <2>4. f \in Content
    BY <1>t, <2>3, EmptyContent DEF ReadTarget, TypeOK
  <2>5. draft'[p] = Decode(m)
    BY <1>t, <2>1 DEF TypeOK
  <2>6. cmd[p].key \in Key /\ v \in Given \cup {Unset}
    BY <2>3, CommandFields
  <2>7. /\ \A k \in Known \ {cmd[p].key} : draft'[p][k] = f[k]
        /\ cmd[p].key \in Known /\ v # "empty" => draft'[p][cmd[p].key] = v
    <3> DEFINE key == cmd[p].key
    <3>1. ~DecodeFails([f EXCEPT ![key] = v]) /\ draft'[p] = Decode([f EXCEPT ![key] = v])
      BY <2>1, <2>5
    <3>2. f \in Content /\ key \in Key /\ v \in Given \cup {Unset}
      BY <2>4, <2>6
    <3> HIDE DEF f, v, key
    <3>3. /\ \A k \in Known \ {key} : Decode([f EXCEPT ![key] = v])[k] = f[k]
          /\ key \in Known /\ v # "empty" => Decode([f EXCEPT ![key] = v])[key] = v
      BY <3>1, <3>2, DecodeType
    <3>4. QED
      BY <3>1, <3>3 DEF key
  <2>8. \A k \in Known : f[k] = IF was[p][Target(cmd[p])] = Missing THEN Unset
                               ELSE was[p][Target(cmd[p])][k]
    BY <2>3 DEF ReadTarget, Empty, Key
  <2>9. Drafted(p)'
    BY <2>2, <2>7, <2>8 DEF Drafted
  <2>10. QED
    BY <2>1, <2>2, <2>3, <2>9 DEF IHistory
<1>7. CASE Truncate(p)
  <2>1. /\ pc'[p] = "write" /\ cmd'[p] = cmd[p] /\ alone[p] /\ was'[p] = was[p]
        /\ \A q \in Proc \ {p} : pc'[q] = pc[q]
    BY <1>7, <1>t, Going DEF Truncate
  <2>2. TargetOf(p) = Target(cmd[p])
    BY <1>7, <1>t, TargetIs, PlanType DEF Truncate, IPlan
  <2>3. file' = [was[p] EXCEPT ![Target(cmd[p])] = Empty]
    BY <1>7, <2>1, <2>2 DEF Truncate, IHistory
  <2>4. Drafted(p)'
    BY <1>7, <2>1 DEF Truncate, IHistory, Drafted
  <2>5. QED
    BY <2>1, <2>3, <2>4 DEF IHistory
<1>8. CASE WriteConfig(p)
  <2>1. /\ pc'[p] = "reload" /\ cmd'[p] = cmd[p] /\ alone[p] /\ was'[p] = was[p]
        /\ \A q \in Proc \ {p} : pc'[q] = pc[q]
    BY <1>8, <1>t, Going DEF WriteConfig
  <2>2. /\ TargetOf(p) = Target(cmd[p]) /\ loaded[p] = Plan(cmd[p])
        /\ cmd[p] \in Commands /\ Target(cmd[p]) \in File
    BY <1>8, <1>t, TargetIs, PlanType DEF WriteConfig, IPlan
  <2>3. file' = [was[p] EXCEPT ![Target(cmd[p])] = draft[p]]
    <3>1. file = [was[p] EXCEPT ![Target(cmd[p])] = Empty]
      BY <1>8, <2>1 DEF WriteConfig, IHistory
    <3>2. file' = [file EXCEPT ![Target(cmd[p])] = draft[p]]
      BY <1>8, <2>2 DEF WriteConfig
    <3>3. QED
      BY <1>t, <3>1, <3>2 DEF TypeOK
  <2>4. Drafted(p)' /\ draft'[p] = draft[p]
    BY <1>8, <2>1 DEF WriteConfig, IHistory, Drafted
  <2>5. conf'[p] = Empty /\ todo'[p] = Plan(cmd[p])
    BY <1>8, <1>t, <2>2 DEF WriteConfig, NewConfig, TypeOK
  <2>6. Reloaded(p)'
    <3>1. Plan(cmd[p]) \notin {<<"local">>, <<"local", "custom">>}
      BY Tuples, DifferentTuples DEF Plan
    <3>2. Plan(cmd[p]) = <<"custom">> => cmd[p].noinherit
      BY Tuples, DifferentTuples DEF Plan
    <3>3. Plan(cmd[p]) = <<>> => cmd[p].noinherit /\ ~cmd[p].custom
      BY <2>2, PlanType, CommandFields
    <3>4. QED
      BY <2>1, <2>5, <3>1, <3>2, <3>3, InForceIs DEF Reloaded, Inherited
  <2>7. QED
    BY <2>1, <2>3, <2>4, <2>6 DEF IHistory
<1>9. CASE ReloadConfig(p)
  BY <1>9, <1>e DEF ReloadConfig
<1>10. CASE Crash(p)
  BY <1>10, <1>e DEF Crash
<1>11. QED
  BY <1>1, <1>2, <1>3, <1>4, <1>5, <1>6, <1>7, <1>8, <1>9, <1>10 DEF Act

LEMMA HistoryStep ==
  IType /\ IType' /\ (\A p \in Proc : IHistory(p)) /\ [Next]_vars => \A p \in Proc : IHistory(p)'
<1> SUFFICES ASSUME IType, IType', \A p \in Proc : IHistory(p), [Next]_vars, NEW p \in Proc
             PROVE  IHistory(p)'
  OBVIOUS
<1>1. ASSUME NEW q \in Proc, Act(q) PROVE IHistory(p)'
  <2>1. CASE q = p /\ alone'[p]
    BY <1>1, <2>1, OwnStep
  <2>2. CASE q # p
    <3>1. ~alone'[p]
      BY <1>1, <2>2, OtherAlone
    <3>2. QED
      BY <3>1 DEF IHistory
  <2>3. CASE ~alone'[p]
    BY <2>3 DEF IHistory
  <2>4. QED
    BY <2>1, <2>2, <2>3
<1>2. CASE UNCHANGED vars
  BY <1>2 DEF vars, procVars, histVars, IHistory, Drafted, Reloaded
<1>3. QED
  BY <1>1, <1>2, NextIsAct

IAll == IType /\ \A p \in Proc : IHistory(p)

LEMMA HistoryCorrect == Spec => []IAll
<1>1. Init => IAll
  BY InitType DEF Init, IHistory, IAll
<1>2. IAll /\ [Next]_vars => IAll'
  BY TypeStep, HistoryStep DEF IAll
<1>3. QED
  BY <1>1, <1>2, PTL DEF Spec

\* A set or del that completes has written its file and loaded all again.
LEMMA CompletesIn ==
  ASSUME IType, NEW p \in Proc, IHistory(p), [Next]_vars, Completes(p)
  PROVE  /\ cmd[p] \in Commands /\ TargetOf(p) = Target(cmd[p]) /\ Target(cmd[p]) \in File
         /\ cmd[p].custom \/ cmd[p].global \/ ~cmd[p].noinherit
         /\ file' = file /\ file = [was[p] EXCEPT ![Target(cmd[p])] = draft[p]]
         /\ Drafted(p) /\ conf[p] = InForce(file, cmd[p])
<1>t. TypeOK /\ IPlan(p)
  BY DEF IType
<1>1. pc[p] = "reload" /\ pc'[p] = "idle" /\ said'[p] = "ok" /\ alone[p]
  BY DEF Completes
<1>2. ~UNCHANGED vars
  BY <1>1 DEF vars, procVars
<1>3. Act(p)
  <2>1. PICK q \in Proc : Act(q)
    BY <1>2, NextIsAct
  <2>2. q = p
    BY <1>1, <1>t, <2>1, OtherProcess
  <2>3. QED
    BY <2>1, <2>2
<1>4. todo[p] = <<>> /\ file' = file
  <2>1. ~LoadConfigFile(p) /\ ~Crash(p)
    BY <1>1, <1>t DEF LoadConfigFile, Crash, End, Goto, TypeOK
  <2>2. ReloadConfig(p)
    BY <1>1, <1>3, <2>1 DEF Act, Start, Flags, Check, GetConfig, EditConfig, Truncate, WriteConfig
  <2>3. QED
    BY <2>2 DEF ReloadConfig
<1>5. cmd[p] \in Commands /\ LoadingAgain(p)
  BY <1>1, <1>t DEF IPlan
<1>6. Target(cmd[p]) \in File
  BY <1>5, PlanType
<1>7. TargetOf(p) = Target(cmd[p])
  <2>1. cmd[p].global \/ Last(loaded[p]) = Target(cmd[p])
    BY <1>4, <1>5, Tuples DEF LoadingAgain
  <2>2. QED
    BY <2>1, <1>5, CommandFields DEF TargetOf, Target
<1>8. QED
  BY <1>1, <1>4, <1>5, <1>6, <1>7, <1>t DEF IHistory, IPlan, Reloaded

\* A process that was alone has changed no file but its command's, and of
\* that no key but its command's, whatever other processes did before or do
\* after it, and wherever they were killed.
THEOREM OthersKeptCorrect == Spec => OthersKept
<1>1. ASSUME IAll, [Next]_vars, NEW p \in Proc, Completes(p)
      PROVE  LET changed == {f \in File : file'[f] # was[p][f]}
             IN  /\ changed \subseteq {TargetOf(p)}
                 /\ \A f \in changed : \A k \in Known \ {cmd[p].key} :
                      file'[f][k] = IF was[p][f] = Missing THEN Unset ELSE was[p][f][k]
  <2> DEFINE T == Target(cmd[p])
  <2>1. T \in File /\ TargetOf(p) = T /\ file' = [was[p] EXCEPT ![T] = draft[p]] /\ Drafted(p)
    BY <1>1, CompletesIn DEF IAll
  <2>2. was[p] \in [File -> Content \cup {Missing}]
    BY <1>1 DEF IAll, IType, TypeOK
  <2>3. file'[T] = draft[p] /\ \A f \in File \ {T} : file'[f] = was[p][f]
    BY <2>1, <2>2
  <2>4. QED
    BY <2>1, <2>3 DEF Drafted
<1>2. IAll /\ [Next]_vars
        => \A p \in Proc : Completes(p) =>
             LET changed == {f \in File : file'[f] # was[p][f]}
             IN  /\ changed \subseteq {TargetOf(p)}
                 /\ \A f \in changed : \A k \in Known \ {cmd[p].key} :
                      file'[f][k] = IF was[p][f] = Missing THEN Unset ELSE was[p][f][k]
  BY <1>1
<1>3. QED
  BY <1>2, HistoryCorrect, PTL DEF Spec, OthersKept

\* It goes on with the configuration that is in force for its flags.
THEOREM ReloadAgreesCorrect == Spec => ReloadAgrees
<1>1. IAll /\ [Next]_vars
        => \A p \in Proc : Completes(p) => \A k \in Known : conf[p][k] = InForce(file', cmd[p])[k]
  <2> SUFFICES ASSUME IAll, [Next]_vars,
                      NEW p \in Proc, Completes(p), NEW k \in Known
               PROVE  conf[p][k] = InForce(file', cmd[p])[k]
    OBVIOUS
  <2>1. file' = file /\ conf[p] = InForce(file, cmd[p])
    BY CompletesIn DEF IAll
  <2>2. QED
    BY <2>1
<1>2. QED
  BY <1>1, HistoryCorrect, PTL DEF Spec, ReloadAgrees

\* What was set, and not for all repositories, is what a get with the same
\* flags will find.
THEOREM SetThenGetCorrect == Spec => SetThenGet
<1>1. IAll /\ [Next]_vars
        => \A p \in Proc : LET c == cmd[p] IN
             /\ Completes(p) /\ c.op = "set"
             /\ c.key \in Known /\ c.value # "empty" /\ ~c.global
             => InForce(file', c)[c.key] = c.value
  <2> SUFFICES ASSUME IAll, [Next]_vars, NEW p \in Proc,
                      Completes(p), cmd[p].op = "set", cmd[p].key \in Known,
                      cmd[p].value # "empty", ~cmd[p].global
               PROVE  InForce(file', cmd[p])[cmd[p].key] = cmd[p].value
    OBVIOUS
  <2> DEFINE c == cmd[p]
             T == Target(c)
  <2>1. /\ c \in Commands /\ T \in File /\ (c.custom \/ ~c.noinherit)
        /\ file' = [was[p] EXCEPT ![T] = draft[p]] /\ Drafted(p)
    BY CompletesIn DEF IAll
  <2>2. was[p] \in [File -> Content \cup {Missing}] /\ draft[p] \in Content
    BY DEF IAll, IType, TypeOK
  <2>3. file'[T] = draft[p] /\ draft[p] # Missing /\ draft[p][c.key] = c.value
    BY <2>1, <2>2, ContentThere DEF Drafted
  <2>4. c.value # Unset /\ c.key \in Key
    BY <2>1, CommandFields DEF Given, Unset, Key
  <2>5. \A x : ReadFile(x, draft[p])[c.key] = c.value
    BY <2>3, <2>4 DEF ReadFile
  <2>6. CASE c.custom
    <3>1. T = "custom"
      BY <2>6 DEF Target
    <3>2. InForce(file', c) = ReadFile(Inherited(file', c), draft[p])
      BY <2>3, <2>6, <3>1, InForceIs
    <3>3. QED
      BY <2>5, <3>2
  <2>7. CASE ~c.custom
    <3>1. T = "local" /\ ~c.noinherit
      BY <2>1, <2>7 DEF Target
    <3>2. InForce(file', c) = ReadFile(ReadFile(Empty, file'["xdg"]), draft[p])
      BY <2>3, <2>7, <3>1, InForceIs DEF Inherited
    <3>3. QED
      BY <2>5, <3>2
  <2>8. QED
    BY <2>6, <2>7
<1>2. QED
  BY <1>1, HistoryCorrect, PTL DEF Spec, SetThenGet
=============================================================================
