------------------------------- MODULE Catalog -------------------------------
(***************************************************************************)
(* The server's catalogue: users, organisations, datasets and privileges,  *)
(* the tables of its SQLite database.                                      *)
(*                                                                         *)
(* Every request is handled in a goroutine of its own, in several database *)
(* statements with bcrypt or IPFS in between; Request is the set of slots  *)
(* for requests in progress.  Rows are only ever added.  A row is          *)
(* identified by what its unique index is on: a user by an email, an       *)
(* organisation by a slug, a dataset by a slug that is unique across       *)
(* organisations.                                                          *)
(*                                                                         *)
(* A dataset's row starts with the empty manifest; module DatasetSync is   *)
(* about what happens to it then.                                          *)
(***************************************************************************)
EXTENDS Naturals, FiniteSets

CONSTANTS User,     \* emails
          Org,      \* slugs of organisations
          Slug,     \* slugs of datasets
          Request,  \* slots for requests the server handles at a time
          Nobody,   \* a visitor without a login
          Nothing   \* no organisation, no dataset

Dataset == [slug : Slug, org : Org, private : BOOLEAN]

ASSUME CatalogAssumption ==
  Nobody \notin User /\ Nothing \notin Org /\ Nothing \notin Dataset

VARIABLES
  \* the database
  codes,       \* the lookup tables that have been filled: roles, privileges
  users,       \* registered users
  admins,      \* those of them whose RoleCode is "admin"
  orgs,        \* organisations
  closed,      \* those of them that are private
  orgAdmin,    \* UserOrganizationPrivilege: pairs of user and organisation
  datasets,    \* datasets
  datasetAdmin,\* UserDatasetPrivilege: pairs of user and dataset
  \* the server's IPFS node, and browsers
  saved,       \* the empty manifest has been saved on the node
  cookies,     \* users whose browser has a valid token
  \* requests
  step,        \* how far a request has come
  who,         \* its authenticated user, or the one that is registering
  role,        \* rolecode in CreateUser
  org,         \* the organisation that it creates
  form         \* the dataset that it creates

tableVars   == <<codes, users, admins, orgs, closed, orgAdmin, datasets, datasetAdmin>>
requestVars == <<step, who, role, org, form>>
vars == <<tableVars, saved, cookies, requestVars>>

TypeOK ==
  /\ codes \subseteq {"roles", "privileges"}
  /\ users \subseteq User /\ admins \subseteq users
  /\ orgs \subseteq Org /\ closed \subseteq orgs
  /\ orgAdmin \subseteq users \X orgs
  /\ datasets \subseteq Dataset
  /\ datasetAdmin \subseteq users \X datasets
  /\ saved \in BOOLEAN
  /\ cookies \subseteq users
  /\ step \in [Request -> {"free", "counted", "org saved", "entered", "manifest saved"}]
  /\ who \in [Request -> User \cup {Nobody}]
  /\ role \in [Request -> {"none", "user", "admin"}]
  /\ org \in [Request -> Org \cup {Nothing}]
  /\ form \in [Request -> Dataset \cup {Nothing}]

\* What Initialize may come to: each table is filled in one statement, and
\* the first error ends it.
FilledFrom(filled) == {filled, filled \cup {"roles"}, {"roles", "privileges"}}

\* A server on an empty database.
Init ==
  /\ codes \in FilledFrom({})
  /\ users = {} /\ admins = {}
  /\ orgs = {} /\ closed = {} /\ orgAdmin = {}
  /\ datasets = {} /\ datasetAdmin = {}
  /\ saved = FALSE /\ cookies = {}
  /\ step = [r \in Request |-> "free"]
  /\ who = [r \in Request |-> Nobody]
  /\ role = [r \in Request |-> "none"]
  /\ org = [r \in Request |-> Nothing]
  /\ form = [r \in Request |-> Nothing]

-----------------------------------------------------------------------------
\* What a user may do

\* User.OrganizationPrivilege is "admin"; is not empty.
CanManageOrganization(u, o) == u \in admins \/ <<u, o>> \in orgAdmin
CanReadOrganization(u, o)   == CanManageOrganization(u, o) \/ o \notin closed

\* User.DatasetPrivilege, likewise.  To manage its organisation counts for a
\* private dataset only.
CanManageDataset(u, d) ==
  \/ u \in admins
  \/ <<u, d>> \in datasetAdmin
  \/ d.private /\ CanManageOrganization(u, d.org)
CanReadDataset(u, d) ==
  CanManageDataset(u, d) \/ (~d.private /\ CanReadOrganization(u, d.org))

-----------------------------------------------------------------------------
\* Pages

\* GetOrganizations and GetOrganization show a visitor an organisation ...
Shows(v, o) == IF v = Nobody THEN o \notin closed ELSE CanReadOrganization(v, o)

\* ... and list these of its datasets.
Lists(v, d) ==
  Shows(v, d.org) /\ (IF v = Nobody THEN ~d.private ELSE CanReadDataset(v, d))

\* Mutant of Guarded: that the dataset is private does not count.
GuardedOrgOnly(d) == d.org \in closed

\* GetDataset wants a user who can read the dataset.
Guarded(d) == d.org \in closed \/ d.private

\* A request for the dataset's page, which goes through GetOrganization, gets
\* to the handler after GetDataset.
Reaches(v, d) ==
  Shows(v, d.org) /\ (Guarded(d) => v # Nobody /\ CanReadDataset(v, d))

-----------------------------------------------------------------------------
\* The request is answered.
Answer(r) ==
  /\ step' = [step EXCEPT ![r] = "free"]
  /\ who' = [who EXCEPT ![r] = Nobody]
  /\ role' = [role EXCEPT ![r] = "none"]
  /\ org' = [org EXCEPT ![r] = Nothing]
  /\ form' = [form EXCEPT ![r] = Nothing]

\* Mutant of RoleCode: one user who has registered does not count.
RoleCodeLate == IF Cardinality(users) = 1 THEN "admin" ELSE "user"

\* The first user to register is the administrator.
RoleCode == IF users = {} THEN "admin" ELSE "user"

\* CreateUser counts the users, and hashes the password ...
CountUsers(r) ==
  /\ step[r] = "free"
  /\ \E u \in User : who' = [who EXCEPT ![r] = u]
  /\ role' = [role EXCEPT ![r] = RoleCode]
  /\ step' = [step EXCEPT ![r] = "counted"]
  /\ UNCHANGED <<tableVars, saved, cookies, org, form>>

\* ... and inserts the user.  Emails are unique and the role must exist; the
\* database may also be locked.
CreateUser(r) ==
  /\ step[r] = "counted"
  /\ \/ /\ who[r] \notin users /\ "roles" \in codes
        /\ users' = users \cup {who[r]}
        /\ admins' = IF role[r] = "admin" THEN admins \cup {who[r]} ELSE admins
     \/ UNCHANGED <<users, admins>>
  /\ Answer(r)
  /\ UNCHANGED <<codes, orgs, closed, orgAdmin, datasets, datasetAdmin, saved, cookies>>

\* Login's answer sets the cookie; Logout's clears it, and it expires.
Login(u) ==
  /\ u \in users
  /\ cookies' = cookies \cup {u}
  /\ UNCHANGED <<tableVars, saved, requestVars>>

Logout(u) ==
  /\ u \in cookies
  /\ cookies' = cookies \ {u}
  /\ UNCHANGED <<tableVars, saved, requestVars>>

\* CreateOrganization saves the organisation.  If that fails it has done
\* nothing.
SaveOrganization(r) ==
  /\ step[r] = "free"
  /\ \E u \in cookies, o \in Org \ orgs, private \in BOOLEAN :
       /\ who' = [who EXCEPT ![r] = u]
       /\ org' = [org EXCEPT ![r] = o]
       /\ orgs' = orgs \cup {o}
       /\ closed' = IF private THEN closed \cup {o} ELSE closed
  /\ step' = [step EXCEPT ![r] = "org saved"]
  /\ UNCHANGED <<codes, users, admins, orgAdmin, datasets, datasetAdmin, saved, cookies,
                 role, form>>

\* Mutant of Grant: the columns are confused.
GrantSwapped(u, x) == {<<x, u>>}

Grant(u, x) == {<<u, x>>}

\* Then it saves the privilege, and does not look whether that worked.
SaveOrganizationPrivilege(r) ==
  /\ step[r] = "org saved"
  /\ \/ "privileges" \in codes /\ orgAdmin' = orgAdmin \cup Grant(who[r], org[r])
     \/ UNCHANGED orgAdmin
  /\ Answer(r)
  /\ UNCHANGED <<codes, users, admins, orgs, closed, datasets, datasetAdmin, saved, cookies>>

\* Mutant of SameOrganization: the form is not compared with the path.
SameOrganizationAny(o, d) == TRUE

\* CreateDatasetHandler compares the form's organisation with the path's.
SameOrganization(o, d) == o = d.org

\* GetOrganization lets the user in, and CreateDatasetHandler takes the form.
\* Privileges the user is granted meanwhile may or may not be noticed.
EnterOrganization(r) ==
  /\ step[r] = "free"
  /\ \E u \in cookies, o \in orgs, d \in Dataset :
       /\ CanReadOrganization(u, o)
       /\ SameOrganization(o, d)
       /\ who' = [who EXCEPT ![r] = u]
       /\ form' = [form EXCEPT ![r] = d]
  /\ step' = [step EXCEPT ![r] = "entered"]
  /\ UNCHANGED <<tableVars, saved, cookies, role, org>>

\* Mutant of ManifestFails: the dataset gets an empty manifest hash.
ManifestFailsOn(r) == step' = [step EXCEPT ![r] = "manifest saved"]
                      /\ UNCHANGED <<who, role, org, form>>

\* Without a manifest CreateDataset returns nil, as if all were well.
ManifestFails(r) == Answer(r)

\* CreateDataset saves the empty manifest on the server's node ...
CreateEmptyManifest(r) ==
  /\ step[r] = "entered"
  /\ \/ /\ saved' = TRUE
        /\ step' = [step EXCEPT ![r] = "manifest saved"]
        /\ UNCHANGED <<who, role, org, form>>
     \/ ManifestFails(r) /\ UNCHANGED saved
  /\ UNCHANGED <<tableVars, cookies>>

\* ... and then, in one transaction, the dataset and its user's privilege.
\* Slugs of datasets are unique, and the organisation has to exist.
SaveDataset(r) ==
  /\ step[r] = "manifest saved"
  /\ \/ /\ form[r].org \in orgs /\ "privileges" \in codes
        /\ \A d \in datasets : d.slug # form[r].slug
        /\ datasets' = datasets \cup {form[r]}
        /\ datasetAdmin' = datasetAdmin \cup Grant(who[r], form[r])
     \/ UNCHANGED <<datasets, datasetAdmin>>
  /\ Answer(r)
  /\ UNCHANGED <<codes, users, admins, orgs, closed, orgAdmin, saved, cookies>>

\* The server stops, with every request in progress, and starts again.  It
\* does so whatever Initialize returns.
Restart ==
  /\ codes' \in FilledFrom(codes)
  /\ step' = [r \in Request |-> "free"]
  /\ who' = [r \in Request |-> Nobody]
  /\ role' = [r \in Request |-> "none"]
  /\ org' = [r \in Request |-> Nothing]
  /\ form' = [r \in Request |-> Nothing]
  /\ UNCHANGED <<users, admins, orgs, closed, orgAdmin, datasets, datasetAdmin, saved, cookies>>

Next ==
  \/ \E r \in Request :
       \/ CountUsers(r) \/ CreateUser(r)
       \/ SaveOrganization(r) \/ SaveOrganizationPrivilege(r)
       \/ EnterOrganization(r) \/ CreateEmptyManifest(r) \/ SaveDataset(r)
  \/ \E u \in User : Login(u) \/ Logout(u)
  \/ Restart

Spec == Init /\ [][Next]_vars

-----------------------------------------------------------------------------
\* Somebody can manage everything there is, though registrations overlap,
\* creators are left without a privilege, and the server stops in between.
SomebodyManages ==
  users # {} => \E u \in users : /\ \A o \in orgs : CanManageOrganization(u, o)
                                 /\ \A d \in datasets : CanManageDataset(u, d)

\* Every dataset has a user who created it, who can manage it and can still
\* get to its page, through its organisation's.  Slugs stand for ones that
\* give a path of their own: not empty, and not a route's fixed name (`login',
\* `dataset').
CreatorReaches ==
  \A d \in datasets : \E u \in users : <<u, d>> \in datasetAdmin /\ Reaches(u, d)

\* The pages agree with each other: the datasets that a visitor sees listed
\* are the ones a request for them is answered with.
ListedReachable ==
  \A v \in users \cup {Nobody} : \A d \in datasets : Lists(v, d) <=> Reaches(v, d)

\* The manifest that a dataset's row starts with is on the server's node.
ManifestSaved == datasets # {} => saved
=============================================================================
