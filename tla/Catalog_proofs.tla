--------------------------- MODULE Catalog_proofs ---------------------------
(***************************************************************************)
(* Theorems about Catalog, for any number of users, organisations,         *)
(* datasets and overlapping requests.                                      *)
(***************************************************************************)
EXTENDS Catalog, TLAPS

-----------------------------------------------------------------------------
\* Types

\* What a request holds, by how far it has come.  Its user was let into the
\* organisation before; that stays so, since nothing is ever taken away.
IRequest ==
  \A r \in Request :
    /\ step[r] = "counted" => who[r] \in User /\ role[r] \in {"user", "admin"}
    /\ step[r] = "org saved" => who[r] \in users /\ org[r] \in orgs
    /\ step[r] \in {"entered", "manifest saved"} =>
         /\ who[r] \in users /\ form[r] \in Dataset /\ form[r].org \in orgs
         /\ CanReadOrganization(who[r], form[r].org)

IType == TypeOK /\ IRequest

LEMMA AnswerType ==
  ASSUME TypeOK, NEW r, Answer(r)
  PROVE  /\ step' \in [Request -> {"free", "counted", "org saved", "entered", "manifest saved"}]
         /\ who' \in [Request -> User \cup {Nobody}]
         /\ role' \in [Request -> {"none", "user", "admin"}]
         /\ org' \in [Request -> Org \cup {Nothing}]
         /\ form' \in [Request -> Dataset \cup {Nothing}]
BY DEF Answer, TypeOK

\* A request that is still there after an answer is one that was not answered.
LEMMA AnswerOthers ==
  ASSUME TypeOK, NEW r, Answer(r), NEW q \in Request, step'[q] # "free"
  PROVE  step'[q] = step[q] /\ who'[q] = who[q] /\ role'[q] = role[q]
         /\ org'[q] = org[q] /\ form'[q] = form[q]
BY DEF Answer, TypeOK

LEMMA TypeInit == Init => IType
BY DEF Init, FilledFrom, IType, TypeOK, IRequest

LEMMA TypeStep == IType /\ [Next]_vars => IType'
<1> SUFFICES ASSUME TypeOK, IRequest, [Next]_vars PROVE TypeOK' /\ IRequest'
  BY DEF IType
<1> USE DEF tableVars, requestVars
<1>1. ASSUME NEW r \in Request, CountUsers(r) PROVE TypeOK' /\ IRequest'
  <2>1. PICK u \in User : who' = [who EXCEPT ![r] = u]
    BY <1>1 DEF CountUsers
  <2>2. RoleCode \in {"user", "admin"}
    BY DEF RoleCode
  <2>3. TypeOK'
    BY <1>1, <2>1, <2>2 DEF CountUsers, TypeOK
  <2>4. IRequest'
    BY <1>1, <2>1, <2>2 DEF CountUsers, TypeOK, IRequest, CanReadOrganization,
       CanManageOrganization
  <2>5. QED
    BY <2>3, <2>4
<1>2. ASSUME NEW r \in Request, CreateUser(r) PROVE TypeOK' /\ IRequest'
  <2>1. /\ users \subseteq users' /\ admins \subseteq admins'
        /\ users' \subseteq User /\ admins' \subseteq users'
    BY <1>2 DEF CreateUser, TypeOK, IRequest
  <2>2. TypeOK'
    BY <1>2, <2>1, AnswerType DEF CreateUser, TypeOK
  <2>3. IRequest'
    BY <1>2, <2>1, AnswerOthers DEF CreateUser, IRequest, CanReadOrganization,
       CanManageOrganization
  <2>4. QED
    BY <2>2, <2>3
<1>3. ASSUME NEW u \in User, Login(u) \/ Logout(u) PROVE TypeOK' /\ IRequest'
  BY <1>3 DEF Login, Logout, TypeOK, IRequest, CanReadOrganization, CanManageOrganization
<1>4. ASSUME NEW r \in Request, SaveOrganization(r) PROVE TypeOK' /\ IRequest'
  <2>1. PICK u \in cookies, o \in Org \ orgs, private \in BOOLEAN :
          /\ who' = [who EXCEPT ![r] = u]
          /\ org' = [org EXCEPT ![r] = o]
          /\ orgs' = orgs \cup {o}
          /\ closed' = IF private THEN closed \cup {o} ELSE closed
    BY <1>4 DEF SaveOrganization
  <2>2. TypeOK'
    BY <1>4, <2>1 DEF SaveOrganization, TypeOK
  <2>3. \A p \in orgs : p \in closed' <=> p \in closed
    BY <2>1
  <2>4. ASSUME NEW q \in Request, q # r
        PROVE  step'[q] = step[q] /\ who'[q] = who[q] /\ org'[q] = org[q]
    BY <1>4, <2>1, <2>4 DEF SaveOrganization, TypeOK
  <2>5. step'[r] = "org saved" /\ who'[r] \in users /\ org'[r] \in orgs'
    BY <1>4, <2>1 DEF SaveOrganization, TypeOK
  <2>6. IRequest'
    <3>1. /\ UNCHANGED <<users, admins, orgAdmin, role, form>>
          /\ orgs \subseteq orgs'
      BY <1>4, <2>1 DEF SaveOrganization
    <3>2. ASSUME NEW v, NEW p \in orgs, CanReadOrganization(v, p)
          PROVE  CanReadOrganization(v, p)'
      BY <2>3, <3>1, <3>2 DEF CanReadOrganization, CanManageOrganization
    <3>3. QED
      BY <2>4, <2>5, <3>1, <3>2 DEF IRequest
  <2>7. QED
    BY <2>2, <2>6
<1>5. ASSUME NEW r \in Request, SaveOrganizationPrivilege(r) PROVE TypeOK' /\ IRequest'
  <2>1. orgAdmin \subseteq orgAdmin' /\ orgAdmin' \subseteq users \X orgs
    <3>1. <<who[r], org[r]>> \in users \X orgs
      BY <1>5 DEF SaveOrganizationPrivilege, IRequest
    <3>2. orgAdmin' = orgAdmin \/ orgAdmin' = orgAdmin \cup {<<who[r], org[r]>>}
      BY <1>5 DEF SaveOrganizationPrivilege, Grant
    <3>3. QED
      BY <3>1, <3>2 DEF TypeOK
  <2>2. TypeOK'
    BY <1>5, <2>1, AnswerType DEF SaveOrganizationPrivilege, TypeOK
  <2>3. IRequest'
    BY <1>5, <2>1, AnswerOthers DEF SaveOrganizationPrivilege, IRequest,
       CanReadOrganization, CanManageOrganization
  <2>4. QED
    BY <2>2, <2>3
<1>6. ASSUME NEW r \in Request, EnterOrganization(r) PROVE TypeOK' /\ IRequest'
  <2>1. PICK u \in cookies, d \in Dataset :
          /\ d.org \in orgs /\ CanReadOrganization(u, d.org)
          /\ who' = [who EXCEPT ![r] = u]
          /\ form' = [form EXCEPT ![r] = d]
    BY <1>6 DEF EnterOrganization, SameOrganization
  <2>2. TypeOK'
    BY <1>6, <2>1 DEF EnterOrganization, TypeOK
  <2>3. /\ step'[r] = "entered" /\ who'[r] = u /\ form'[r] = d
        /\ \A q \in Request : q # r => step'[q] = step[q] /\ who'[q] = who[q] /\ form'[q] = form[q]
    BY <1>6, <2>1 DEF EnterOrganization, TypeOK
  <2>4. IRequest'
    BY <1>6, <2>1, <2>3 DEF EnterOrganization, TypeOK, IRequest, CanReadOrganization,
       CanManageOrganization
  <2>5. QED
    BY <2>2, <2>4
<1>7. ASSUME NEW r \in Request, CreateEmptyManifest(r) PROVE TypeOK' /\ IRequest'
  <2>1. CASE Answer(r) /\ UNCHANGED saved
    BY <1>7, <2>1, AnswerType, AnswerOthers DEF CreateEmptyManifest, TypeOK, IRequest,
       CanReadOrganization, CanManageOrganization
  <2>2. CASE /\ saved' = TRUE
             /\ step' = [step EXCEPT ![r] = "manifest saved"]
             /\ UNCHANGED <<who, role, org, form>>
    BY <1>7, <2>2 DEF CreateEmptyManifest, TypeOK, IRequest, CanReadOrganization,
       CanManageOrganization
  <2>3. QED
    BY <1>7, <2>1, <2>2 DEF CreateEmptyManifest, ManifestFails
<1>8. ASSUME NEW r \in Request, SaveDataset(r) PROVE TypeOK' /\ IRequest'
  <2>1. datasets' \subseteq Dataset /\ datasetAdmin' \subseteq users \X datasets'
    <3>1. who[r] \in users /\ form[r] \in Dataset
      BY <1>8 DEF SaveDataset, IRequest
    <3>2. \/ UNCHANGED <<datasets, datasetAdmin>>
          \/ /\ datasets' = datasets \cup {form[r]}
             /\ datasetAdmin' = datasetAdmin \cup {<<who[r], form[r]>>}
      BY <1>8 DEF SaveDataset, Grant
    <3>3. CASE UNCHANGED <<datasets, datasetAdmin>>
      BY <3>3 DEF TypeOK
    <3>4. CASE /\ datasets' = datasets \cup {form[r]}
               /\ datasetAdmin' = datasetAdmin \cup {<<who[r], form[r]>>}
      <4>1. <<who[r], form[r]>> \in users \X datasets'
        BY <3>1, <3>4
      <4>2. users \X datasets \subseteq users \X datasets'
        BY <3>4
      <4>3. datasetAdmin \subseteq users \X datasets /\ datasets \subseteq Dataset
        BY DEF TypeOK
      <4>4. QED
        BY <3>1, <3>4, <4>1, <4>2, <4>3
    <3>5. QED
      BY <3>2, <3>3, <3>4
  <2>2. TypeOK'
    BY <1>8, <2>1, AnswerType DEF SaveDataset, TypeOK
  <2>3. IRequest'
    BY <1>8, AnswerOthers DEF SaveDataset, IRequest, CanReadOrganization,
       CanManageOrganization
  <2>4. QED
    BY <2>2, <2>3
<1>9. CASE Restart
  BY <1>9 DEF Restart, FilledFrom, TypeOK, IRequest
<1>10. CASE UNCHANGED vars
  BY <1>10 DEF vars, TypeOK, IRequest, CanReadOrganization, CanManageOrganization
<1>11. QED
  BY <1>1, <1>2, <1>3, <1>4, <1>5, <1>6, <1>7, <1>8, <1>9, <1>10 DEF Next

LEMMA ITypeCorrect == Spec => []IType
BY TypeInit, TypeStep, PTL DEF Spec

\* Every variable keeps its type; in particular privileges are only ever held
\* by users that exist on organisations and datasets that exist.
THEOREM TypeCorrect == Spec => []TypeOK
<1>1. IType => TypeOK
  BY DEF IType
<1>2. QED
  BY <1>1, ITypeCorrect, PTL

-----------------------------------------------------------------------------
\* An administrator

\* If there are users one of them is an administrator.  A registration that
\* is not to be one has counted somebody, who is still there.
IAdmin ==
  /\ users # {} => admins # {}
  /\ \A r \in Request : step[r] = "counted" /\ role[r] = "user" => users # {}

LEMMA AdminStep == IType /\ IAdmin /\ [Next]_vars => IAdmin'
<1> SUFFICES ASSUME TypeOK, IRequest, IAdmin, [Next]_vars PROVE IAdmin'
  BY DEF IType
<1> USE DEF tableVars, requestVars
<1>1. ASSUME NEW r \in Request, CountUsers(r) PROVE IAdmin'
  BY <1>1 DEF CountUsers, RoleCode, TypeOK, IAdmin
<1>2. ASSUME NEW r \in Request, CreateUser(r) PROVE IAdmin'
  <2>1. users' # {} => admins' # {}
    BY <1>2 DEF CreateUser, IRequest, IAdmin
  <2>2. users \subseteq users'
    BY <1>2 DEF CreateUser
  <2>3. QED
    BY <1>2, <2>1, <2>2, AnswerOthers DEF CreateUser, IAdmin
<1>3. ASSUME NEW r \in Request, Answer(r), UNCHANGED <<users, admins>> PROVE IAdmin'
  BY <1>3, AnswerOthers DEF IAdmin
<1>4. ASSUME NEW r \in Request, SaveOrganization(r) \/ EnterOrganization(r) PROVE IAdmin'
  BY <1>4 DEF SaveOrganization, EnterOrganization, TypeOK, IAdmin
<1>5. ASSUME NEW r \in Request, CreateEmptyManifest(r) PROVE IAdmin'
  <2>1. CASE Answer(r)
    BY <1>3, <1>5, <2>1 DEF CreateEmptyManifest
  <2>2. CASE step' = [step EXCEPT ![r] = "manifest saved"] /\ UNCHANGED role
    BY <1>5, <2>2 DEF CreateEmptyManifest, TypeOK, IAdmin
  <2>3. QED
    BY <1>5, <2>1, <2>2 DEF CreateEmptyManifest, ManifestFails
<1>6. ASSUME NEW r \in Request, SaveOrganizationPrivilege(r) \/ SaveDataset(r) PROVE IAdmin'
  BY <1>3, <1>6 DEF SaveOrganizationPrivilege, SaveDataset
<1>7. CASE Restart
  BY <1>7 DEF Restart, IAdmin
<1>8. CASE UNCHANGED <<users, admins, step, role>>
  BY <1>8 DEF IAdmin
<1>9. QED
  BY <1>1, <1>2, <1>4, <1>5, <1>6, <1>7, <1>8 DEF Next, vars, Login, Logout

\* However registrations overlap, and whatever privileges could not be saved,
\* there is a user who can manage every organisation and every dataset.
THEOREM SomebodyManagesCorrect == Spec => []SomebodyManages
<1>1. Init => IAdmin
  BY DEF Init, IAdmin
<1>2. TypeOK /\ IAdmin => SomebodyManages
  <2>1. SUFFICES ASSUME TypeOK, IAdmin, users # {} PROVE SomebodyManages
    BY DEF SomebodyManages
  <2>2. PICK u : u \in admins
    BY <2>1 DEF IAdmin
  <2>3. QED
    BY <2>1, <2>2 DEF TypeOK, SomebodyManages, CanManageOrganization, CanManageDataset
<1>3. QED
  BY <1>1, <1>2, AdminStep, ITypeCorrect, PTL DEF Spec, IType

-----------------------------------------------------------------------------
\* Creators

ICreator ==
  \A d \in datasets :
    d.org \in orgs /\ \E u \in users : <<u, d>> \in datasetAdmin /\ CanReadOrganization(u, d.org)

LEMMA CreatorStep == IType /\ ICreator /\ [Next]_vars => ICreator'
<1> SUFFICES ASSUME TypeOK, IRequest, ICreator, [Next]_vars PROVE ICreator'
  BY DEF IType
<1> USE DEF tableVars, requestVars
<1>1. /\ users \subseteq users' /\ admins \subseteq admins' /\ orgs \subseteq orgs'
      /\ orgAdmin \subseteq orgAdmin' /\ datasetAdmin \subseteq datasetAdmin'
  BY DEF Next, vars, CountUsers, CreateUser, Login, Logout, SaveOrganization,
     SaveOrganizationPrivilege, EnterOrganization, CreateEmptyManifest, SaveDataset, Restart
<1>2. \A o \in orgs : o \in closed' => o \in closed
  <2>1. ASSUME NEW r \in Request, SaveOrganization(r)
        PROVE  \A o \in orgs : o \in closed' => o \in closed
    BY <2>1 DEF SaveOrganization
  <2>2. CASE UNCHANGED closed
    BY <2>2
  <2>3. QED
    BY <2>1, <2>2
    DEF Next, vars, CountUsers, CreateUser, Login, Logout, SaveOrganizationPrivilege,
        EnterOrganization, CreateEmptyManifest, SaveDataset, Restart
\* Who could read an organisation still can.
<1>3. ASSUME NEW u, NEW o \in orgs, CanReadOrganization(u, o)
      PROVE  CanReadOrganization(u, o)'
  BY <1>1, <1>2, <1>3 DEF CanReadOrganization, CanManageOrganization
<1>4. CASE UNCHANGED datasets
  BY <1>1, <1>3, <1>4 DEF ICreator
<1>5. ASSUME NEW r \in Request, SaveDataset(r), datasets' # datasets PROVE ICreator'
  <2>1. /\ datasets' = datasets \cup {form[r]}
        /\ <<who[r], form[r]>> \in datasetAdmin'
        /\ form[r].org \in orgs /\ who[r] \in users
        /\ CanReadOrganization(who[r], form[r].org)
    BY <1>5 DEF SaveDataset, Grant, IRequest
  <2>2. QED
    BY <1>1, <1>3, <2>1 DEF ICreator
<1>6. QED
  BY <1>4, <1>5
  DEF Next, vars, CountUsers, CreateUser, Login, Logout, SaveOrganization,
      SaveOrganizationPrivilege, EnterOrganization, CreateEmptyManifest, Restart

\* The user who created a dataset can manage it and can still get to its page.
THEOREM CreatorReachesCorrect == Spec => []CreatorReaches
<1>1. Init => ICreator
  BY DEF Init, ICreator
<1>2. TypeOK /\ ICreator => CreatorReaches
  <2>1. SUFFICES ASSUME TypeOK, ICreator, NEW d \in datasets
                 PROVE  \E u \in users : <<u, d>> \in datasetAdmin /\ Reaches(u, d)
    BY DEF CreatorReaches
  <2>2. PICK u \in users : <<u, d>> \in datasetAdmin /\ CanReadOrganization(u, d.org)
    BY <2>1 DEF ICreator
  <2>3. u # Nobody
    BY <2>1, CatalogAssumption DEF TypeOK
  <2>4. Reaches(u, d)
    BY <2>2, <2>3 DEF Reaches, Shows, CanReadDataset, CanManageDataset
  <2>5. QED
    BY <2>2, <2>4
<1>3. QED
  BY <1>1, <1>2, CreatorStep, ITypeCorrect, PTL DEF Spec, IType

\* What is listed can be reached, and the other way round: GetOrganizations,
\* GetOrganization and GetDataset decide it in three ways that agree.
THEOREM ListedReachableCorrect == Spec => []ListedReachable
<1>1. TypeOK => ListedReachable
  <2>1. SUFFICES ASSUME TypeOK, NEW v \in users \cup {Nobody}, NEW d \in datasets
                 PROVE  Lists(v, d) <=> Reaches(v, d)
    BY DEF ListedReachable
  <2>2. CASE v = Nobody
    BY <2>2 DEF Lists, Reaches, Shows, Guarded
  <2>3. CASE v # Nobody
    BY <2>3 DEF Lists, Reaches, Shows, Guarded, CanReadDataset
  <2>4. QED
    BY <2>2, <2>3
<1>2. QED
  BY <1>1, TypeCorrect, PTL

-----------------------------------------------------------------------------
\* Manifests

ISaved == \A r \in Request : step[r] = "manifest saved" => saved

LEMMA SavedStep ==
  IType /\ ISaved /\ ManifestSaved /\ [Next]_vars => ISaved' /\ ManifestSaved'
<1> SUFFICES ASSUME TypeOK, ISaved, ManifestSaved, [Next]_vars PROVE ISaved' /\ ManifestSaved'
  BY DEF IType
<1> USE DEF tableVars, requestVars
<1>1. saved => saved'
  BY DEF Next, vars, CountUsers, CreateUser, Login, Logout, SaveOrganization,
     SaveOrganizationPrivilege, EnterOrganization, CreateEmptyManifest, SaveDataset, Restart
<1>2. ManifestSaved'
  <2>1. ASSUME NEW r \in Request, SaveDataset(r) PROVE ManifestSaved'
    BY <2>1 DEF SaveDataset, ISaved, ManifestSaved
  <2>2. CASE UNCHANGED datasets
    BY <1>1, <2>2 DEF ManifestSaved
  <2>3. QED
    BY <2>1, <2>2
    DEF Next, vars, CountUsers, CreateUser, Login, Logout, SaveOrganization,
        SaveOrganizationPrivilege, EnterOrganization, CreateEmptyManifest, Restart
<1>3. ASSUME NEW q \in Request, step'[q] = "manifest saved" PROVE saved'
  <2>1. CASE step[q] = "manifest saved"
    BY <1>1, <2>1 DEF ISaved
  <2>2. CASE step[q] # "manifest saved"
    <3>1. ASSUME NEW r \in Request, Answer(r) PROVE FALSE
      BY <1>3, <2>2, <3>1, AnswerOthers
    <3>2. ASSUME NEW r \in Request, CreateEmptyManifest(r) PROVE saved'
      BY <3>1, <3>2 DEF CreateEmptyManifest, ManifestFails
    <3>3. ASSUME NEW r \in Request, CountUsers(r) \/ SaveOrganization(r) \/ EnterOrganization(r)
          PROVE FALSE
      BY <1>3, <2>2, <3>3 DEF CountUsers, SaveOrganization, EnterOrganization, TypeOK
    <3>4. ~UNCHANGED step /\ ~Restart
      BY <1>3, <2>2 DEF Restart
    <3>5. QED
      BY <3>1, <3>2, <3>3, <3>4
      DEF Next, vars, CreateUser, SaveOrganizationPrivilege, SaveDataset, Login, Logout
  <2>3. QED
    BY <2>1, <2>2
<1>4. QED
  BY <1>2, <1>3 DEF ISaved

\* A dataset's row never names a manifest that the server's node has not
\* saved, so the first push to it finds what it merges into.
THEOREM ManifestSavedCorrect == Spec => []ManifestSaved
<1>1. Init => ISaved /\ ManifestSaved
  BY DEF Init, ISaved, ManifestSaved
<1>2. QED
  BY <1>1, SavedStep, ITypeCorrect, PTL DEF Spec
=============================================================================
