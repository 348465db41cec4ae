------------------------------- MODULE Session -------------------------------
(***************************************************************************)
(* The login session of a repository: `dorothy push' and `fetch' send      *)
(* their requests through LoginGuard, which logs in and sends them again   *)
(* when the server answers 401.  The session is a cookie with a token; the *)
(* client keeps it in a jar, and in the file .dorothy/cookies between      *)
(* commands.  On the server a token stops being valid when it expires, and *)
(* when the server is restarted with a new secret.                         *)
(*                                                                         *)
(* The repository's IPFS lock, taken before the cookies are read, lets one *)
(* process at a time in (module DatasetSync).                              *)
(***************************************************************************)
EXTENDS Naturals, FiniteSets

CONSTANTS Token,     \* the tokens the server may issue, no two the same
          NoCookie,  \* an empty cookie jar, and no cookie file
          Torn,      \* a cookie file that was truncated and not rewritten
          MaxRuns    \* bound: how many commands are run

ASSUME SessionAssumption ==
  NoCookie \notin Token /\ Torn \notin Token \cup {NoCookie} /\ MaxRuns \in Nat

VARIABLES
  world,   \* who may see what: does not change
  valid,   \* the tokens the server accepts
  issued,  \* the tokens issued
  file,    \* the cookie file: no cookie, a token, or torn
  jar,     \* the client's cookie jar
  op,      \* the command
  pc,      \* how far it has come
  code,    \* status of the last answer, "error" if there was none
  asked,   \* the user has been asked for credentials
  rewrite, \* Push and Fetch write the cookies once more than LoginGuard
  focus,   \* the login form's focusIndex
  ran,     \* number of commands run
  taken,   \* history: how often RecieveDataset has run for this command
  session, \* history: the token of the last command that logged in and succeeded
  enters   \* history: how often enter was pressed since any other key

serverVars == <<valid, issued>>
clientVars == <<file, jar, op, pc, code, asked, rewrite, ran>>
formVars == <<focus, enters>>
vars == <<world, serverVars, clientVars, formVars, taken, session>>

World == [orgPrivate : BOOLEAN, private : BOOLEAN, role : {"admin", "user"},
          org : {"none", "read"}, dataset : {"none", "read"}]

Inputs == 2   \* fields of the login form: email and password

Step == {"idle", "first", "ask", "login", "second", "store", "storing"}

TypeOK ==
  /\ world \in World
  /\ valid \subseteq Token /\ issued \subseteq Token
  /\ file \in Token \cup {NoCookie, Torn} /\ jar \in Token \cup {NoCookie}
  /\ op \in {"push", "fetch"} /\ pc \in Step
  /\ code \in {"none", "error", "200", "302", "401", "403"}
  /\ asked \in BOOLEAN /\ rewrite \in BOOLEAN
  /\ ran \in 0..MaxRuns
  /\ taken \in 0..2 /\ session \in Token \cup {NoCookie}
  /\ focus \in 0..Inputs /\ enters \in Nat

Init ==
  /\ world \in World
  /\ valid = {} /\ issued = {}
  /\ file = NoCookie /\ jar = NoCookie
  /\ op = "push" /\ pc = "idle" /\ code = "none" /\ asked = FALSE /\ rewrite = FALSE
  /\ ran = 0 /\ taken = 0 /\ session = NoCookie
  /\ focus = 0 /\ enters = 0

-----------------------------------------------------------------------------
\* The server

\* Authenticator finds a user if the request's token is valid.
Authenticated == jar \in valid

\* User.OrganizationPrivilege and User.DatasetPrivilege are not empty.
CanReadOrganization == world.role = "admin" \/ world.org # "none" \/ ~world.orgPrivate
CanReadDataset ==
  \/ world.role = "admin"
  \/ world.dataset # "none"
  \/ ~world.private /\ CanReadOrganization

\* What GetOrganization and then GetDataset answer, 200 if they call the next
\* handler.  GetOrganization redirects whatever the request accepts.  What the
\* next handler or the database makes of the request (400, 408, 500) is not
\* told apart: as far as the login is concerned it is an answer that was lost
\* ("error"), or, once the push is taken, one that was not.
Status ==
  CASE world.orgPrivate /\ ~Authenticated                         -> "302"
    [] Authenticated /\ ~CanReadOrganization                      -> "302"
    [] (world.orgPrivate \/ world.private) /\ ~Authenticated      -> "401"
    [] (world.orgPrivate \/ world.private) /\ Authenticated
         /\ ~CanReadDataset                                       -> "403"
    [] OTHER                                                      -> "200"

-----------------------------------------------------------------------------
\* The client

\* Mutant of ReadCookies: the file is never read.
ReadCookiesNot == NoCookie

ReadCookies == file

\* Push, Fetch and SdkClient: an unreadable cookie file is an error.
Start ==
  /\ pc = "idle" /\ ran < MaxRuns
  /\ op' \in {"push", "fetch"}
  /\ ran' = ran + 1
  /\ file # Torn
  /\ jar' = ReadCookies
  /\ pc' = "first" /\ code' = "none" /\ asked' = FALSE /\ rewrite' = FALSE /\ taken' = 0
  /\ UNCHANGED <<world, serverVars, file, formVars, session>>

\* Mutant of NeedsLogin: any answer but 200, and none, is a reason to log in.
NeedsLoginAlways(c) == c # "200"

\* LoginGuard asks for credentials after a 401.
NeedsLogin(c) == c = "401"

\* How often RecieveDataset has run once this request is handled.
TakenAfter == IF op = "push" /\ Status = "200" THEN taken + 1 ELSE taken

\* The request, sent by LoginGuard for the first or the second time.  If the
\* answer is lost the server has handled it or not.  Authenticator clears the
\* cookie of a request without a user, but not where the jar keeps it: the
\* expired cookie has no path and is filed under the organisation's.
Request ==
  /\ pc \in {"first", "second"}
  /\ \/ code' = Status /\ taken' = TakenAfter
     \/ code' = "error" /\ taken' \in {taken, TakenAfter}
  /\ pc' = IF pc = "first" /\ NeedsLogin(code') THEN "ask" ELSE "store"
  /\ rewrite' = (pc = "second" /\ code' = "200")
  /\ focus' = 0 /\ enters' = 0
  /\ UNCHANGED <<world, serverVars, file, jar, op, asked, ran, session>>

\* Mutant of Down: the field after the last one is not the first.
DownOnly == focus + 1

\* The fields go round downwards.  Upwards there is one place more, on which
\* no field has the focus and what is typed gets lost.
Down == IF focus + 1 >= Inputs THEN 0 ELSE focus + 1
Up   == IF focus - 1 < 0 THEN Inputs ELSE focus - 1

\* tab and down, shift+tab and up, and enter before the last field.
Move ==
  /\ pc = "ask"
  /\ \/ focus' = Down /\ enters' = 0
     \/ focus' = Up /\ enters' = 0
     \/ focus # Inputs - 1 /\ focus' = Down /\ enters' = enters + 1
  /\ UNCHANGED <<world, serverVars, clientVars, taken, session>>

\* The form ends: enter in the last field submits it, ctrl+c and esc do not,
\* and then neither does the command go on.
GetCredentials ==
  /\ pc = "ask"
  /\ \/ focus = Inputs - 1 /\ pc' = "login"
     \/ pc' = "idle"
  /\ asked' = TRUE
  /\ UNCHANGED <<world, serverVars, file, jar, op, code, rewrite, ran, formVars, taken, session>>

\* Client.Login: a new token, or, with wrong credentials or a lost answer,
\* an error, which ends the command.
Login ==
  /\ pc = "login"
  /\ \/ \E t \in Token \ issued :
          /\ issued' = issued \cup {t} /\ valid' = valid \cup {t}
          /\ \/ jar' = t /\ pc' = "second"
             \/ UNCHANGED jar /\ pc' = "idle"
     \/ pc' = "idle" /\ UNCHANGED <<serverVars, jar>>
  /\ UNCHANGED <<world, file, op, code, asked, rewrite, ran, formVars, taken, session>>

\* The command has done what it was to do after a login.
Finish == session' = IF asked /\ code = "200" THEN jar ELSE session

\* Mutant of Stored: the cookies are gathered before the login.
StoredEarly == NoCookie

\* WriteCookies keeps the file if the jar is empty; otherwise it truncates it
\* and writes the jar.
Stored == jar

WriteCookies ==
  /\ pc = "store"
  /\ IF jar = NoCookie THEN pc' = "idle" /\ UNCHANGED file /\ Finish
     ELSE pc' = "storing" /\ file' = Torn /\ UNCHANGED session
  /\ UNCHANGED <<world, serverVars, jar, op, code, asked, rewrite, ran, formVars, taken>>

Encode ==
  /\ pc = "storing"
  /\ file' = Stored
  /\ rewrite' = FALSE
  /\ IF rewrite THEN pc' = "store" /\ UNCHANGED session ELSE pc' = "idle" /\ Finish
  /\ UNCHANGED <<world, serverVars, jar, op, code, asked, ran, formVars, taken>>

\* The process is killed.
Crash ==
  /\ pc # "idle"
  /\ pc' = "idle" /\ code' = "none"
  /\ UNCHANGED <<world, serverVars, file, jar, op, asked, rewrite, ran, formVars, taken, session>>

-----------------------------------------------------------------------------
\* A token expires, or all do when the server gets a new secret.
Expire  == \E t \in valid : valid' = valid \ {t}
Restart == valid # {} /\ valid' = {}

ServerStep == (Expire \/ Restart)
              /\ UNCHANGED <<world, issued, clientVars, formVars, taken, session>>

Next ==
  \/ Start \/ Request \/ Move \/ GetCredentials \/ Login
  \/ WriteCookies \/ Encode \/ Crash \/ ServerStep

Spec == Init /\ [][Next]_vars

-----------------------------------------------------------------------------
\* Though LoginGuard may send the request twice, and answers get lost, the
\* server takes it at most once for each command: it only asks for a login
\* before it has done anything.
TakenOnce == taken <= 1

\* Wherever the user has moved the focus, the place without a field
\* included, enter pressed three times submits the form.
ThreeEnters == pc = "ask" => enters < 3

\* A user who has logged in, and whose command has succeeded, is not asked
\* again before the server stops accepting that login, whatever later
\* commands were killed or logged in anew.
NotAskedAgain == [][pc = "first" /\ pc' = "ask" => session \notin valid]_vars
=============================================================================
