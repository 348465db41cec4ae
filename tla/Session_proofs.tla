---------------------------- MODULE Session_proofs ----------------------------
(***************************************************************************)
(* Theorems about Session, for any tokens and any number of commands.      *)
(***************************************************************************)
EXTENDS Session, TLAPS

-----------------------------------------------------------------------------
\* Types

\* A command's requests are taken only after those that asked for a login.
ITaken ==
  /\ taken <= 1
  /\ pc \in {"first", "ask", "login", "second"} => taken = 0

LEMMA StatusType == Status \in {"200", "302", "401", "403"}
BY DEF Status

\* Every way to move the focus stays in the form, or on the one place outside.
LEMMA FocusType ==
  ASSUME focus \in 0..Inputs
  PROVE  Down \in 0..Inputs /\ Up \in 0..Inputs
BY DEF Down, Up, Inputs

LEMMA InitType == Init => TypeOK /\ ITaken
<1> SUFFICES ASSUME Init PROVE TypeOK /\ ITaken
  OBVIOUS
<1>1. ran \in 0..MaxRuns /\ taken \in 0..2 /\ focus \in 0..Inputs /\ enters \in Nat
  BY SessionAssumption DEF Init, Inputs
<1>2. QED
  <2>1. asked \in BOOLEAN /\ rewrite \in BOOLEAN /\ pc \in Step /\ op \in {"push", "fetch"}
    BY DEF Init, Step
  <2>2. TypeOK
    BY <1>1, <2>1 DEF Init, TypeOK
  <2>3. QED
    BY <2>2 DEF Init, ITaken

LEMMA TypeStep == TypeOK /\ ITaken /\ [Next]_vars => TypeOK' /\ ITaken'
<1> SUFFICES ASSUME TypeOK, ITaken, [Next]_vars PROVE TypeOK' /\ ITaken'
  OBVIOUS
<1>1. CASE Start
  <2>1. ran' \in 0..MaxRuns
    BY <1>1, SessionAssumption DEF Start, TypeOK
  <2>2. file \in Token \cup {NoCookie}
    BY <1>1 DEF Start, TypeOK
  <2>3. pc' = "first" /\ op' \in {"push", "fetch"} /\ jar' = file /\ code' = "none" /\ taken' = 0
    BY <1>1 DEF Start, ReadCookies
  <2>4. asked' \in BOOLEAN /\ rewrite' \in BOOLEAN /\ pc' \in Step
    BY <1>1 DEF Start, Step
  <2>5. UNCHANGED <<world, valid, issued, file, focus, enters, session>>
    BY <1>1 DEF Start, serverVars, formVars
  <2>6. TypeOK'
    BY <2>1, <2>2, <2>3, <2>4, <2>5 DEF TypeOK
  <2>7. QED
    BY <2>3, <2>6 DEF ITaken
<1>2. CASE Request
  <2>1. taken = 0 /\ TakenAfter \in 0..1
    BY <1>2 DEF Request, ITaken, TakenAfter
  <2>2. taken' \in 0..1 /\ code' \in {"error", "200", "302", "401", "403"}
    BY <1>2, <2>1, StatusType DEF Request
  <2>3. pc' = "ask" => taken' = 0
    <3>1. SUFFICES ASSUME pc' = "ask" PROVE taken' = 0
      OBVIOUS
    <3>2. code' = "401"
      BY <1>2, <3>1 DEF Request, NeedsLogin
    <3>3. Status = "401" /\ taken' = TakenAfter
      BY <1>2, <3>2 DEF Request
    <3>4. QED
      BY <2>1, <3>3 DEF TakenAfter
  <2>4. jar' \in Token \cup {NoCookie}
    BY <1>2 DEF Request, TypeOK
  <2>5. pc' \in {"ask", "store"} /\ rewrite' \in BOOLEAN /\ focus' \in 0..Inputs /\ enters' \in Nat
    BY <1>2 DEF Request, Inputs
  <2>6. QED
    BY <1>2, <2>2, <2>3, <2>4, <2>5 DEF Request, TypeOK, ITaken, Step, serverVars
<1>3. CASE Move
  <2>1. focus' \in 0..Inputs /\ enters' \in Nat
    BY <1>3, FocusType DEF Move, TypeOK
  <2>2. QED
    BY <1>3, <2>1 DEF Move, TypeOK, ITaken, serverVars, clientVars
<1>4. CASE GetCredentials
  BY <1>4 DEF GetCredentials, TypeOK, ITaken, Step, serverVars, formVars
<1>5. CASE Login
  BY <1>5 DEF Login, TypeOK, ITaken, Step, serverVars, formVars
<1>6. CASE WriteCookies
  BY <1>6 DEF WriteCookies, Finish, TypeOK, ITaken, Step, serverVars, formVars
<1>7. CASE Encode
  BY <1>7 DEF Encode, Stored, Finish, TypeOK, ITaken, Step, serverVars, formVars
<1>8. CASE Crash
  BY <1>8 DEF Crash, TypeOK, ITaken, Step, serverVars, formVars
<1>9. CASE ServerStep
  BY <1>9 DEF ServerStep, Expire, Restart, TypeOK, ITaken, clientVars, formVars
<1>10. CASE UNCHANGED vars
  BY <1>10 DEF vars, serverVars, clientVars, formVars, TypeOK, ITaken
<1>11. QED
  BY <1>1, <1>2, <1>3, <1>4, <1>5, <1>6, <1>7, <1>8, <1>9, <1>10 DEF Next

\* The jar holds a token or nothing, and the file is torn at worst.
THEOREM TypeCorrect == Spec => []TypeOK
BY InitType, TypeStep, PTL DEF Spec

\* LoginGuard may send a push twice, but the server takes it at most once.
THEOREM TakenOnceCorrect == Spec => []TakenOnce
<1>1. ITaken => TakenOnce
  BY DEF ITaken, TakenOnce
<1>2. QED
  BY <1>1, InitType, TypeStep, PTL DEF Spec

-----------------------------------------------------------------------------
\* The form

\* Enter leads from the place without a field to the first field, and from
\* there to the last one.
IEnters ==
  pc = "ask" => \/ enters = 0
                \/ enters = 1 /\ focus \in {0, 1}
                \/ enters = 2 /\ focus = 1

LEMMA EntersStep == TypeOK /\ IEnters /\ [Next]_vars => IEnters'
<1> SUFFICES ASSUME TypeOK, IEnters, [Next]_vars PROVE IEnters'
  OBVIOUS
<1>1. CASE Request
  BY <1>1 DEF Request, IEnters
<1>2. CASE Move
  <2>1. focus \in {0, 1, 2} /\ pc = "ask"
    BY <1>2 DEF Move, TypeOK, Inputs
  <2>2. QED
    BY <1>2, <2>1 DEF Move, Down, Inputs, IEnters
<1>3. CASE Start \/ GetCredentials \/ Login \/ WriteCookies \/ Encode \/ Crash
  BY <1>3 DEF Start, GetCredentials, Login, WriteCookies, Encode, Crash, IEnters
<1>4. CASE ServerStep \/ UNCHANGED vars
  BY <1>4 DEF ServerStep, vars, clientVars, formVars, IEnters
<1>5. QED
  BY <1>1, <1>2, <1>3, <1>4 DEF Next

\* However the focus was moved, the third enter submits the form.
THEOREM ThreeEntersCorrect == Spec => []ThreeEnters
<1>1. Init => IEnters
  BY DEF Init, IEnters
<1>2. IEnters => ThreeEnters
  BY DEF IEnters, ThreeEnters
<1>3. QED
  BY <1>1, <1>2, EntersStep, TypeCorrect, PTL DEF Spec

-----------------------------------------------------------------------------
\* The session

\* As long as the server accepts the user's login, every command starts from
\* it: it is in the file, unless a killed command tore that, and in the jar.
ISession ==
  /\ valid \subseteq issued /\ session \in issued \cup {NoCookie}
  /\ jar \in issued \cup {NoCookie} /\ file \in issued \cup {NoCookie, Torn}
  /\ session \in valid =>
       /\ file \in {session, Torn}
       /\ pc \in {"idle", "first", "store", "storing"}
       /\ pc # "idle" => jar = session

LEMMA SessionStep == TypeOK /\ ISession /\ [Next]_vars => ISession'
<1> SUFFICES ASSUME TypeOK, ISession, [Next]_vars PROVE ISession'
  OBVIOUS
<1>0. NoCookie \notin valid /\ NoCookie \notin issued
  BY SessionAssumption DEF TypeOK
<1>1. CASE Start
  <2>1. UNCHANGED <<valid, issued, session, file>> /\ jar' = file /\ file # Torn /\ pc' = "first"
    BY <1>1 DEF Start, ReadCookies, serverVars
  <2>2. QED
    BY <2>1 DEF ISession
<1>2. CASE Request
  <2>1. UNCHANGED <<valid, issued, session, file>>
    BY <1>2 DEF Request, serverVars
  <2>2. ASSUME session \in valid
        PROVE  pc' = "store" /\ jar' = session
    <3>1. jar = session /\ Authenticated
      BY <1>2, <2>2 DEF Request, ISession, Authenticated
    <3>2. Status # "401"
      BY <3>1 DEF Status
    <3>3. QED
      BY <1>2, <3>1, <3>2 DEF Request, NeedsLogin
  <2>3. jar' = jar
    BY <1>2 DEF Request
  <2>4. QED
    BY <2>1, <2>2, <2>3 DEF ISession
<1>3. CASE Move
  BY <1>3 DEF Move, ISession, serverVars, clientVars
<1>4. CASE GetCredentials
  BY <1>4 DEF GetCredentials, ISession, serverVars
<1>5. CASE Login
  <2>1. session \notin valid
    BY <1>5 DEF Login, ISession
  <2>2. session \notin valid' /\ valid' \subseteq issued' /\ issued \subseteq issued'
    BY <1>0, <1>5, <2>1, SessionAssumption DEF Login, ISession, TypeOK, serverVars
  <2>3. jar' \in issued' \cup {NoCookie}
    BY <1>5 DEF Login, ISession, serverVars
  <2>4. QED
    BY <1>5, <2>2, <2>3 DEF Login, ISession
<1>6. CASE WriteCookies
  <2>1. UNCHANGED <<valid, issued, jar>>
    BY <1>6 DEF WriteCookies, serverVars
  <2>2. CASE jar = NoCookie
    <3>1. session' \in {NoCookie, session} /\ session \notin valid /\ file' = file
      BY <1>0, <1>6, <2>2 DEF WriteCookies, Finish, ISession
    <3>2. QED
      BY <1>0, <2>1, <3>1 DEF ISession
  <2>3. CASE jar # NoCookie
    BY <1>6, <2>1, <2>3 DEF WriteCookies, ISession
  <2>4. QED
    BY <2>2, <2>3
<1>7. CASE Encode
  <2>1. UNCHANGED <<valid, issued, jar>> /\ file' = jar /\ session' \in {session, jar}
    BY <1>7 DEF Encode, Stored, Finish, serverVars
  <2>2. session \in valid => jar = session
    BY <1>7 DEF Encode, ISession
  <2>3. pc' \in {"store", "idle"}
    BY <1>7 DEF Encode
  <2>4. session' # session => pc' = "idle"
    BY <1>7 DEF Encode
  <2>5. QED
    BY <2>1, <2>2, <2>3, <2>4 DEF ISession
<1>8. CASE Crash
  BY <1>8 DEF Crash, ISession, serverVars
<1>9. CASE ServerStep
  BY <1>9 DEF ServerStep, Expire, Restart, ISession, clientVars
<1>10. CASE UNCHANGED vars
  BY <1>10 DEF vars, serverVars, clientVars, ISession
<1>11. QED
  BY <1>1, <1>2, <1>3, <1>4, <1>5, <1>6, <1>7, <1>8, <1>9, <1>10 DEF Next

\* Nobody is asked to log in again while the server accepts the login of the
\* last command that succeeded.
THEOREM NotAskedAgainCorrect == Spec => NotAskedAgain
<1>1. Init => ISession
  BY DEF Init, ISession
<1>2. TypeOK /\ ISession /\ [Next]_vars
        => [pc = "first" /\ pc' = "ask" => session \notin valid]_vars
  <2>1. SUFFICES ASSUME TypeOK, ISession, Next, pc = "first", pc' = "ask", session \in valid
                 PROVE  FALSE
    OBVIOUS
  <2>2. Request
    BY <2>1 DEF Next, Start, Move, GetCredentials, Login, WriteCookies, Encode, Crash,
                ServerStep, clientVars
  <2>3. Authenticated
    BY <2>1 DEF ISession, Authenticated
  <2>4. Status # "401"
    BY <2>3 DEF Status
  <2>5. QED
    BY <2>1, <2>2, <2>4 DEF Request, NeedsLogin
<1>3. QED
  BY <1>1, <1>2, SessionStep, TypeCorrect, PTL DEF Spec, NotAskedAgain
=============================================================================
