------------------------ MODULE OrganizationsProofs ------------------------
(***************************************************************************)
(* Theorems about Organizations for every value of its constants: any      *)
(* number of accounts, domains, users, organizations and requests.         *)
(***************************************************************************)
EXTENDS Organizations, TLAPS

Creating == {"insertDomain", "findAgain", "dropOrg"}
Resolved == {"findUser", "insertUser", "updateUser"}
Acting == {"suspend", "unsuspend", "dropUser"}

(* Types first: rows, and the locals of every request at its stage.          *)
Typed ==
    /\ org \in SUBSET OrgIds
    /\ owner \in [Domains -> OrgOrNone]
    /\ user \in [UserIds -> User \union {None}]
    /\ proof \in [UserIds -> Proof \union {None}]
    /\ enforced \in SUBSET OrgIds
    /\ rules \in [OrgIds -> SUBSET Addresses]
    /\ gone \in SUBSET (UserIds \union OrgIds)
    /\ torn \in SUBSET OrgIds
    /\ proved \in SUBSET UserIds

JobsTyped ==
    /\ job \in [Handlers -> Job]
    /\ \A h \in At(LoginStages) : job[h].email \in Emails
    /\ \A h \in At(AdminStages) : job[h].actor \in UserIds /\ job[h].user \in UserIds
    /\ \A h \in At(Creating) : job[h].org \in OrgIds
    /\ \A h \in At({"target"}) : job[h].kind \in {"suspend", "unsuspend", "delete"}
    /\ \A h \in At({"updateUser"}) : job[h].user \in UserIds
    /\ \A h \in At(ProofStages) : job[h].actor \in UserIds
    /\ \A h \in At(PolicyStages) : job[h].org \in OrgIds

(* What request h knows: the organization its login made is there, and the   *)
(* one it goes on with owns the domain; the user it found is there or        *)
(* deleted; the organization of a policy owns a domain.                      *)
Knows(h) ==
    LET j == job[h] IN
    /\ j.at \in {"findOrg", "insertOrg"} \union Creating => DomainOf[j.email] # None
    /\ j.at \in Creating => j.org \in org
    /\ j.at \in {"findAgain", "dropOrg"} => HomeOf(j.email) # None
    /\ j.at \in Resolved => /\ j.org = HomeOf(j.email)
                            /\ DomainOf[j.email] # None => j.org # None
    /\ j.at = "updateUser" => /\ Exists(j.user) => user[j.user].email = j.email
                              /\ Exists(j.user) \/ j.user \in gone
    /\ j.at \in PolicyStages => \E d \in Domains : owner[d] = j.org

(* Two logins never made the same organization.                              *)
LoginsInv ==
    /\ \A h \in Handlers : Knows(h)
    /\ \A h, k \in At(Creating) : h # k => job[h].org # job[k].org

(* Ids of rows that were deleted are not in use, and every row of users has  *)
(* the rights of its address.                                                *)
RowsInv ==
    /\ org \intersect gone = {}
    /\ \A d \in Domains : owner[d] \in org \union {None}
    /\ \A u \in UserIds : proof[u] # None => Exists(u)
    /\ \A u \in UserIds : Exists(u) => (user[u].admin <=> user[u].email \in AdminEmails)

(* What overlaps is noted until it is over.                                  *)
MetInv ==
    \A t \in Topics : /\ Several(t) => t \in met
                      /\ t \in met => Running(t)

(* An admin who meets no other is still one when he acts, on somebody else   *)
(* of his organization.                                                      *)
AdminsInv ==
    /\ \A h \in At(AdminStages) :
         <<"admin", job[h].org>> \notin met => ActiveAdmin(job[h].actor, job[h].org)
    /\ \A h \in At(Acting) :
         /\ Exists(job[h].user) => user[job[h].user].org = job[h].org
         /\ Exists(job[h].user) \/ job[h].user \in gone
         /\ job[h].at # "unsuspend" => job[h].user # job[h].actor
    /\ \A o \in staffed : <<"admin", o>> \notin met

(* A request that is alone with its proof saves what the row says.           *)
ProofsInv ==
    \A h \in At({"saveProof"}) :
         <<"proof", job[h].actor>> \notin met /\ job[h].actor \in proved => job[h].set

(* Where an update of a policy that meets no other stands; who met is torn.  *)
PoliciesInv ==
    /\ \A o \in OrgIds : <<"policy", o>> \in met => o \in torn
    /\ \A h \in At({"savePolicy"}) : job[h].set => job[h].rules # {}
    /\ \A h \in At({"clearRules"}) :
         <<"policy", job[h].org>> \notin met /\ job[h].org \in enforced => job[h].rules # {}
    /\ \A h \in At({"addRules"}) :
         <<"policy", job[h].org>> \notin met /\ job[h].org \in enforced
         => job[h].rules # {} \/ rules[job[h].org] # {}
    /\ \A o \in enforced \ torn :
         rules[o] = {} => \E h \in At({"clearRules", "addRules"}) : job[h].org = o

Accounts ==
    /\ Typed
    /\ JobsTyped
    /\ LoginsInv
    /\ RowsInv
    /\ OneOrganization
    /\ DeletedStayDeleted

OrganizationsInv ==
    /\ Accounts
    /\ MetInv
    /\ AdminsInv
    /\ AnAdminRemains
    /\ ProofsInv
    /\ ProofStands
    /\ PoliciesInv
-----------------------------------------------------------------------------
(* What a step of request h leaves: the other requests.                      *)
Others(h) == \A k \in Handlers \ {h} : job'[k] = job[k]

(* One step of request h.                                                    *)
Step(h) == Login(h) \/ Administer(h) \/ SetPolicy(h) \/ Prove(h)

(* The locals fit the stage.                                                 *)
Fits(j) ==
    /\ j.at \in LoginStages => j.email \in Emails
    /\ j.at \in AdminStages => j.actor \in UserIds /\ j.user \in UserIds
    /\ j.at \in Creating => j.org \in OrgIds
    /\ j.at = "target" => j.kind \in {"suspend", "unsuspend", "delete"}
    /\ j.at = "updateUser" => j.user \in UserIds
    /\ j.at \in ProofStages => j.actor \in UserIds
    /\ j.at \in PolicyStages => j.org \in OrgIds

LEMMA StagesApart ==
  ASSUME NEW s
  PROVE  /\ s \in LoginStages => s \in Stages /\ s # "idle" /\ s \notin AdminStages \union ProofStages \union PolicyStages
         /\ s \in AdminStages => s \in Stages /\ s # "idle" /\ s \notin ProofStages \union PolicyStages
         /\ s \in ProofStages => s \in Stages /\ s # "idle" /\ s \notin PolicyStages
         /\ s \in PolicyStages => s \in Stages /\ s # "idle"
  BY DEF Stages, LoginStages, AdminStages, ProofStages, PolicyStages

LEMMA JobMoves ==
  ASSUME JobsTyped, NEW h \in Handlers, NEW j \in Job, Fits(j),
         job' = [job EXCEPT ![h] = j]
  PROVE  JobsTyped' /\ Others(h) /\ job'[h] = j
<1>1. job' \in [Handlers -> Job] /\ Others(h) /\ job'[h] = j
  BY DEF JobsTyped, Others
<1>2. \A k \in Handlers : job'[k] = j \/ job'[k] = job[k]
  BY <1>1 DEF Others
<1> QED
  BY <1>1, <1>2 DEF JobsTyped, Fits, At

LEMMA GoesFrame ==
  ASSUME JobsTyped, NEW h \in Handlers, NEW stage, Goes(h, stage),
         \/ job[h].at \in LoginStages /\ stage \in LoginStages \ {"updateUser"}
            /\ (stage \in Creating => job[h].at \in Creating)
         \/ job[h].at \in AdminStages /\ stage \in AdminStages \ {"target"}
         \/ job[h].at \in ProofStages /\ stage \in ProofStages
         \/ job[h].at \in PolicyStages /\ stage \in PolicyStages
  PROVE  /\ JobsTyped' /\ Others(h)
         /\ job'[h] = [job[h] EXCEPT !.at = stage]
<1> DEFINE j == [job[h] EXCEPT !.at = stage]
<1>1. stage \in Stages
  BY DEF Stages
<1>2. j \in Job
  BY <1>1 DEF JobsTyped, Job
<1>3. Fits(j)
  <2>1. j.at = stage /\ j.email = job[h].email /\ j.actor = job[h].actor
        /\ j.user = job[h].user /\ j.org = job[h].org
    BY <1>1 DEF JobsTyped, Job
  <2> HIDE DEF j
  <2>2. stage # "updateUser" /\ stage # "target"
    BY DEF LoginStages, AdminStages, ProofStages, PolicyStages, Creating
  <2>3. stage \in Creating => job[h].at \in Creating
    BY DEF AdminStages, ProofStages, PolicyStages, Creating
  <2> QED
    BY <2>1, <2>2, <2>3, StagesApart DEF JobsTyped, Fits, At
<1>4. job' = [job EXCEPT ![h] = j]
  BY DEF Goes
<1> HIDE DEF j
<1> QED
  BY <1>2, <1>3, <1>4, JobMoves DEF j

LEMMA IdleFits == Idle \in Job /\ Fits(Idle) /\ Idle.at = "idle"
  BY DEF Idle, Job, Fits, Creating, Stages, LoginStages, AdminStages, ProofStages, PolicyStages, OrgOrNone

LEMMA EndsFrame ==
  ASSUME JobsTyped, NEW h \in Handlers, Ends(h)
  PROVE  JobsTyped' /\ Others(h) /\ job'[h] = Idle
  BY IdleFits, JobMoves DEF Ends

LEMMA HomeTyped ==
  ASSUME owner \in [Domains -> OrgOrNone], NEW e \in Emails
  PROVE  HomeOf(e) \in OrgOrNone
  BY OrganizationsAssumption DEF HomeOf, OrgOrNone

(* The requests: each step of one keeps the types and the other requests.    *)
LEMMA JobStep ==
  ASSUME Typed, JobsTyped, NEW h \in Handlers, Step(h)
  PROVE  JobsTyped' /\ Others(h)
<1> DEFINE Goal == JobsTyped' /\ Others(h)
<1> HIDE DEF Goal
<1>1. ASSUME NEW e \in Emails, LoginStart(h, e) PROVE Goal
    <2> DEFINE j == [Idle EXCEPT !.email = e, !.at = IF DomainOf[e] = None THEN "findUser" ELSE "findOrg"]
  <2>1. j \in Job
    BY <1>1 DEF LoginStart, JobsTyped, Job, Idle, OrgOrNone, User, Fits, Creating, Stages, LoginStages, AdminStages, ProofStages, PolicyStages
  <2>2. Fits(j)
    BY <1>1 DEF LoginStart, JobsTyped, At, Idle, User, OrgOrNone, Fits, Creating, Stages, LoginStages, AdminStages, ProofStages, PolicyStages
  <2>3. job' = [job EXCEPT ![h] = j]
    BY <1>1 DEF LoginStart, Verified
  <2> HIDE DEF j
  <2> QED
    BY <2>1, <2>2, <2>3, JobMoves DEF Goal
<1>2. CASE FindOrg(h)
    <2> job[h].email \in Emails
    BY <1>2 DEF FindOrg, JobsTyped, At, LoginStages
  <2> HomeOf(job[h].email) \in OrgOrNone
    BY HomeTyped DEF Typed
  <2> DEFINE j == [job[h] EXCEPT !.org = HomeOf(job[h].email), !.at = IF HomeOf(job[h].email) = None THEN "insertOrg" ELSE "findUser"]
  <2>1. j \in Job
    BY <1>2 DEF FindOrg, JobsTyped, Job, Idle, OrgOrNone, User, Fits, Creating, Stages, LoginStages, AdminStages, ProofStages, PolicyStages
  <2>2. Fits(j)
    BY <1>2 DEF FindOrg, JobsTyped, At, Idle, User, OrgOrNone, Fits, Creating, Stages, LoginStages, AdminStages, ProofStages, PolicyStages
  <2>3. job' = [job EXCEPT ![h] = j]
    BY <1>2 DEF FindOrg, Verified
  <2> HIDE DEF j
  <2> QED
    BY <2>1, <2>2, <2>3, JobMoves DEF Goal
<1>3. ASSUME NEW o \in OrgIds, InsertOrg(h, o) PROVE Goal
    <2> DEFINE j == [job[h] EXCEPT !.org = o, !.at = "insertDomain"]
  <2>1. j \in Job
    BY <1>3 DEF InsertOrg, JobsTyped, Job, Idle, OrgOrNone, User, Fits, Creating, Stages, LoginStages, AdminStages, ProofStages, PolicyStages
  <2>2. Fits(j)
    BY <1>3 DEF InsertOrg, JobsTyped, At, Idle, User, OrgOrNone, Fits, Creating, Stages, LoginStages, AdminStages, ProofStages, PolicyStages
  <2>3. job' = [job EXCEPT ![h] = j]
    BY <1>3 DEF InsertOrg, Verified
  <2> HIDE DEF j
  <2> QED
    BY <2>1, <2>2, <2>3, JobMoves DEF Goal
<1>4. CASE InsertDomain(h)
  BY <1>4, GoesFrame DEF Goal, InsertDomain, Creating, LoginStages, AdminStages, ProofStages, PolicyStages
<1>5. CASE FindAgain(h)
  BY <1>5, GoesFrame DEF Goal, FindAgain, Creating, LoginStages, AdminStages, ProofStages, PolicyStages
<1>6. CASE DropOrg(h)
    <2> job[h].email \in Emails
    BY <1>6 DEF DropOrg, JobsTyped, At, LoginStages
  <2> HomeOf(job[h].email) \in OrgOrNone
    BY HomeTyped DEF Typed
  <2> DEFINE j == [job[h] EXCEPT !.org = HomeOf(job[h].email), !.at = "findUser"]
  <2>1. j \in Job
    BY <1>6 DEF DropOrg, JobsTyped, Job, Idle, OrgOrNone, User, Fits, Creating, Stages, LoginStages, AdminStages, ProofStages, PolicyStages
  <2>2. Fits(j)
    BY <1>6 DEF DropOrg, JobsTyped, At, Idle, User, OrgOrNone, Fits, Creating, Stages, LoginStages, AdminStages, ProofStages, PolicyStages
  <2>3. job' = [job EXCEPT ![h] = j]
    BY <1>6 DEF DropOrg, Verified
  <2> HIDE DEF j
  <2> QED
    BY <2>1, <2>2, <2>3, JobMoves DEF Goal
<1>7. CASE FindUser(h)
    <2>1. CASE Goes(h, "insertUser")
    BY <1>7, <2>1, GoesFrame DEF Goal, FindUser, Creating, LoginStages
  <2>2. ASSUME NEW u \in UserIds, job' = [job EXCEPT ![h].user = u, ![h].at = "updateUser"] PROVE Goal
    <3> DEFINE j == [job[h] EXCEPT !.user = u, !.at = "updateUser"]
    <3>1. j \in Job /\ j.at = "updateUser" /\ j.email = job[h].email /\ j.user = u
      BY <1>7 DEF JobsTyped, Job, Stages, LoginStages
    <3>2. job[h].email \in Emails
      BY <1>7 DEF FindUser, JobsTyped, At, LoginStages
    <3>3. Fits(j)
      BY <3>1, <3>2 DEF Fits, Creating, AdminStages, ProofStages, PolicyStages
    <3>4. job' = [job EXCEPT ![h] = j]
      BY <2>2
    <3> HIDE DEF j
    <3> QED
      BY <3>1, <3>3, <3>4, JobMoves DEF Goal
  <2>3. \/ Goes(h, "insertUser")
        \/ \E u \in UserIds : job' = [job EXCEPT ![h].user = u, ![h].at = "updateUser"]
    BY <1>7 DEF FindUser
  <2> QED
    BY <2>1, <2>2, <2>3 DEF Goal
<1>8. ASSUME NEW u \in UserIds, InsertUser(h, u) PROVE Goal
  BY <1>8, EndsFrame DEF Goal, InsertUser
<1>9. CASE UpdateUser(h)
  BY <1>9, EndsFrame DEF Goal, UpdateUser
<1>10. ASSUME NEW a \in UserIds, NEW t \in UserIds, NEW kind \in {"suspend", "unsuspend", "delete"}, AdminStart(h, a, kind, t) PROVE Goal
    <2> user[a] \in User
    BY <1>10 DEF AdminStart, IsAdmin, SignedIn, Exists, Typed
  <2> DEFINE j == [Idle EXCEPT !.at = "target", !.kind = kind, !.actor = a, !.org = user[a].org, !.user = t]
  <2>1. j \in Job
    BY <1>10 DEF AdminStart, JobsTyped, Job, Idle, OrgOrNone, User, Fits, Creating, Stages, LoginStages, AdminStages, ProofStages, PolicyStages
  <2>2. Fits(j)
    BY <1>10 DEF AdminStart, JobsTyped, At, Idle, User, OrgOrNone, Fits, Creating, Stages, LoginStages, AdminStages, ProofStages, PolicyStages
  <2>3. job' = [job EXCEPT ![h] = j]
    BY <1>10 DEF AdminStart, Verified
  <2> HIDE DEF j
  <2> QED
    BY <2>1, <2>2, <2>3, JobMoves DEF Goal
<1>11. CASE Target(h)
    <2>1. job[h].at = "target" /\ job[h].kind \in {"suspend", "unsuspend", "delete"}
    BY <1>11 DEF Target, JobsTyped, At
  <2> QED
    BY <1>11, <2>1, GoesFrame, EndsFrame DEF Goal, Target, AdminStages
<1>12. CASE SetUserSuspended(h)
  BY <1>12, EndsFrame DEF Goal, SetUserSuspended
<1>13. CASE DropUser(h)
  BY <1>13, EndsFrame DEF Goal, DropUser
<1>14. ASSUME NEW a \in UserIds, NEW enforce \in BOOLEAN, NEW addresses \in SUBSET Addresses, PolicyStart(h, a, enforce, addresses) PROVE Goal
    <2> user[a] \in User
    BY <1>14 DEF PolicyStart, IsAdmin, SignedIn, Exists, Typed
  <2> DEFINE j == [Idle EXCEPT !.at = "savePolicy", !.actor = a, !.org = user[a].org, !.set = enforce, !.rules = addresses]
  <2>1. j \in Job
    BY <1>14 DEF PolicyStart, JobsTyped, Job, Idle, OrgOrNone, User, Fits, Creating, Stages, LoginStages, AdminStages, ProofStages, PolicyStages
  <2>2. Fits(j)
    BY <1>14 DEF PolicyStart, JobsTyped, At, Idle, User, OrgOrNone, Fits, Creating, Stages, LoginStages, AdminStages, ProofStages, PolicyStages
  <2>3. job' = [job EXCEPT ![h] = j]
    BY <1>14 DEF PolicyStart, Verified
  <2> HIDE DEF j
  <2> QED
    BY <2>1, <2>2, <2>3, JobMoves DEF Goal
<1>15. CASE SavePolicy(h)
  BY <1>15, GoesFrame DEF Goal, SavePolicy, Creating, LoginStages, AdminStages, ProofStages, PolicyStages
<1>16. CASE ClearRules(h)
  BY <1>16, GoesFrame DEF Goal, ClearRules, Creating, LoginStages, AdminStages, ProofStages, PolicyStages
<1>17. CASE AddRule(h)
    <2>1. ASSUME NEW x \in job[h].rules, job' = [job EXCEPT ![h].rules = job[h].rules \ {x}] PROVE Goal
    <3> DEFINE j == [job[h] EXCEPT !.rules = job[h].rules \ {x}]
    <3>1. j \in Job
      BY <1>17 DEF AddRule, JobsTyped, Job
    <3>3. Fits(j)
      BY <1>17 DEF AddRule, JobsTyped, Job, At, Fits, Creating, Stages, LoginStages, AdminStages, ProofStages, PolicyStages
    <3>2. job' = [job EXCEPT ![h] = j]
      BY <2>1
    <3> HIDE DEF j
    <3> QED
      BY <3>1, <3>2, <3>3, JobMoves DEF Goal
  <2>2. \/ Ends(h)
        \/ \E x \in job[h].rules : job' = [job EXCEPT ![h].rules = job[h].rules \ {x}]
    BY <1>17 DEF AddRule
  <2> QED
    BY <2>1, <2>2, EndsFrame DEF Goal
<1>18. CASE PolicySaved(h)
  BY <1>18, EndsFrame DEF Goal, PolicySaved
<1>19. ASSUME NEW a \in UserIds, NEW kind \in {"view", "validate"}, ProofStart(h, a, kind) PROVE Goal
    <2> user[a] \in User
    BY <1>19 DEF ProofStart, SignedIn, Exists, Typed
  <2> DEFINE j == [Idle EXCEPT !.at = "access", !.kind = kind, !.actor = a, !.org = user[a].org, !.email = user[a].email]
  <2>1. j \in Job
    BY <1>19 DEF ProofStart, JobsTyped, Job, Idle, OrgOrNone, User, Fits, Creating, Stages, LoginStages, AdminStages, ProofStages, PolicyStages
  <2>2. Fits(j)
    BY <1>19 DEF ProofStart, JobsTyped, At, Idle, User, OrgOrNone, Fits, Creating, Stages, LoginStages, AdminStages, ProofStages, PolicyStages
  <2>3. job' = [job EXCEPT ![h] = j]
    BY <1>19 DEF ProofStart, Verified
  <2> HIDE DEF j
  <2> QED
    BY <2>1, <2>2, <2>3, JobMoves DEF Goal
<1>20. ASSUME NEW a \in UserIds, ShellStart(h, a) PROVE Goal
    <2> user[a] \in User
    BY <1>20 DEF ShellStart, IsAdmin, SignedIn, Exists, Typed
  <2> DEFINE j == [Idle EXCEPT !.at = "ensure", !.kind = "view", !.actor = a, !.org = user[a].org, !.email = user[a].email]
  <2>1. j \in Job
    BY <1>20 DEF ShellStart, JobsTyped, Job, Idle, OrgOrNone, User, Fits, Creating, Stages, LoginStages, AdminStages, ProofStages, PolicyStages
  <2>2. Fits(j)
    BY <1>20 DEF ShellStart, JobsTyped, At, Idle, User, OrgOrNone, Fits, Creating, Stages, LoginStages, AdminStages, ProofStages, PolicyStages
  <2>3. job' = [job EXCEPT ![h] = j]
    BY <1>20 DEF ShellStart, Verified
  <2> HIDE DEF j
  <2> QED
    BY <2>1, <2>2, <2>3, JobMoves DEF Goal
<1>21. CASE Access(h)
  BY <1>21, GoesFrame DEF Goal, Access, Creating, LoginStages, AdminStages, ProofStages, PolicyStages
<1>22. CASE OwnProof(h)
  BY <1>22, GoesFrame, EndsFrame DEF Goal, OwnProof, ProofStages
<1>23. CASE Ensure(h)
  <2>1. CASE AfterEnsure(h)
    BY <1>23, <2>1, GoesFrame, EndsFrame DEF Goal, Ensure, AfterEnsure, ProofStages
  <2>2. CASE job' = [job EXCEPT ![h].at = "saveProof", ![h].set = Verified(job[h].actor)]
    <3> DEFINE j == [job[h] EXCEPT !.at = "saveProof", !.set = Verified(job[h].actor)]
    <3> job[h].actor \in UserIds
      BY <1>23 DEF Ensure, JobsTyped, At, ProofStages
    <3> Verified(job[h].actor) \in BOOLEAN
      BY DEF Verified, Typed, Proof
    <3> job[h] \in Job
      BY DEF JobsTyped
    <3>1. j \in Job /\ j.at = "saveProof" /\ j.actor = job[h].actor
      BY DEF Job, Stages, ProofStages
    <3>2. job' = [job EXCEPT ![h] = j]
      BY <2>2
    <3> HIDE DEF j
    <3>3. Fits(j)
      BY <3>1 DEF Fits, Creating, LoginStages, AdminStages, ProofStages, PolicyStages
    <3> QED
      BY <3>1, <3>2, <3>3, JobMoves DEF Goal
  <2> QED
    BY <1>23, <2>1, <2>2 DEF Ensure
<1>24. CASE SaveProof(h)
  BY <1>24, GoesFrame, EndsFrame DEF Goal, SaveProof, AfterEnsure, ProofStages
<1>25. CASE Lookup(h)
  BY <1>25, GoesFrame, EndsFrame DEF Goal, Lookup, ProofStages
<1>26. CASE Verify(h)
  BY <1>26, EndsFrame DEF Goal, Verify
<1> QED
  BY <1>1, <1>2, <1>3, <1>4, <1>5, <1>6, <1>7, <1>8, <1>9, <1>10, <1>11, <1>12, <1>13, <1>14, <1>15, <1>16, <1>17, <1>18, <1>19, <1>20, <1>21, <1>22, <1>23, <1>24, <1>25, <1>26 DEF Goal, Step, Login, Administer, SetPolicy, Prove

(* The rows.                                                                 *)
LEMMA RowStep ==
  ASSUME Typed, JobsTyped, NEW h \in Handlers, Step(h)
  PROVE  Typed'
<1>1. ASSUME NEW e \in Emails, LoginStart(h, e) PROVE Typed'
  BY <1>1 DEF LoginStart, Typed, accounts, settings, SameHistory
<1>2. CASE FindOrg(h)
  BY <1>2 DEF FindOrg, Typed, accounts, settings, SameHistory
<1>3. ASSUME NEW o \in OrgIds, InsertOrg(h, o) PROVE Typed'
  BY <1>3 DEF InsertOrg, Typed, JobsTyped, At, Job, LoginStages, AdminStages, PolicyStages, accounts, settings, SameHistory
<1>4. CASE InsertDomain(h)
  BY <1>4 DEF InsertDomain, Typed, JobsTyped, At, Job, LoginStages, AdminStages, PolicyStages, accounts, settings, SameHistory
<1>5. CASE FindAgain(h)
  BY <1>5 DEF FindAgain, Typed, accounts, settings, SameHistory
<1>6. CASE DropOrg(h)
  <2>1. job[h].org \in OrgIds
    BY <1>6 DEF DropOrg, JobsTyped, At, Creating
  <2>2. CASE UNCHANGED <<org, gone>>
    BY <1>6, <2>2 DEF DropOrg, Typed, accounts, settings, SameHistory
  <2>3. CASE org' = org \ {job[h].org} /\ gone' = gone \union {job[h].org}
    BY <1>6, <2>1, <2>3 DEF DropOrg, Typed, accounts, settings, SameHistory
  <2> QED
    BY <1>6, <2>2, <2>3 DEF DropOrg
<1>7. CASE FindUser(h)
  BY <1>7 DEF FindUser, Typed, accounts, settings, SameHistory
<1>8. ASSUME NEW u \in UserIds, InsertUser(h, u) PROVE Typed'
  <2>1. [email |-> job[h].email, org |-> job[h].org, admin |-> job[h].email \in AdminEmails, by |-> None] \in User
    BY <1>8 DEF InsertUser, JobsTyped, At, LoginStages, Job, User
  <2> QED
    BY <1>8, <2>1 DEF InsertUser, Typed, accounts, settings, SameHistory
<1>9. CASE UpdateUser(h)
  <2>1. job[h].user \in UserIds /\ job[h].org \in OrgOrNone
    BY <1>9 DEF UpdateUser, JobsTyped, At, Job
  <2>3. (job[h].email \in AdminEmails) \in BOOLEAN
    OBVIOUS
  <2>4. \A r \in User : [r EXCEPT !.org = job[h].org, !.admin = job[h].email \in AdminEmails] \in User
    BY <2>1, <2>3 DEF User
  <2>2. user' \in [UserIds -> User \union {None}]
    BY <1>9, <2>1, <2>4 DEF UpdateUser, Typed
  <2> QED
    BY <1>9, <2>2 DEF UpdateUser, Typed, accounts, settings, SameHistory
<1>10. ASSUME NEW a \in UserIds, NEW t \in UserIds, NEW kind \in {"suspend", "unsuspend", "delete"}, AdminStart(h, a, kind, t) PROVE Typed'
  BY <1>10 DEF AdminStart, Typed, accounts, settings, SameHistory
<1>11. CASE Target(h)
  BY <1>11 DEF Target, Typed, accounts, settings, SameHistory
<1>12. CASE SetUserSuspended(h)
  <2>1. job[h].user \in UserIds /\ job[h].actor \in UserIds
    BY <1>12 DEF SetUserSuspended, JobsTyped, At, AdminStages
  <2>2. user' \in [UserIds -> User \union {None}]
    BY <1>12, <2>1 DEF SetUserSuspended, Typed, User, Exists
  <2> QED
    BY <1>12, <2>2 DEF SetUserSuspended, Typed, accounts, settings, SameHistory
<1>13. CASE DropUser(h)
  BY <1>13 DEF DropUser, Typed, JobsTyped, At, Job, LoginStages, AdminStages, PolicyStages, accounts, settings, SameHistory
<1>14. ASSUME NEW a \in UserIds, NEW enforce \in BOOLEAN, NEW addresses \in SUBSET Addresses, PolicyStart(h, a, enforce, addresses) PROVE Typed'
  <2>1. user[a] \in User /\ user[a].org \in OrgIds
    BY <1>14 DEF PolicyStart, IsAdmin, SignedIn, Exists, Typed, User, OrgOrNone
  <2> QED
    BY <1>14, <2>1 DEF PolicyStart, Typed, accounts, settings, SameHistory
<1>15. CASE SavePolicy(h)
  BY <1>15 DEF SavePolicy, Typed, JobsTyped, At, Job, LoginStages, AdminStages, PolicyStages, accounts, settings, SameHistory
<1>16. CASE ClearRules(h)
  BY <1>16 DEF ClearRules, Typed, JobsTyped, At, Job, LoginStages, AdminStages, PolicyStages, accounts, settings, SameHistory
<1>17. CASE AddRule(h)
  BY <1>17 DEF AddRule, Typed, JobsTyped, At, Job, LoginStages, AdminStages, PolicyStages, accounts, settings, SameHistory
<1>18. CASE PolicySaved(h)
  BY <1>18 DEF PolicySaved, Typed, accounts, settings, SameHistory
<1>19. ASSUME NEW a \in UserIds, NEW kind \in {"view", "validate"}, ProofStart(h, a, kind) PROVE Typed'
  BY <1>19 DEF ProofStart, Typed, accounts, settings, SameHistory
<1>20. ASSUME NEW a \in UserIds, ShellStart(h, a) PROVE Typed'
  BY <1>20 DEF ShellStart, Typed, accounts, settings, SameHistory
<1>21. CASE Access(h)
  BY <1>21 DEF Access, Typed, accounts, settings, SameHistory
<1>22. CASE OwnProof(h)
  BY <1>22 DEF OwnProof, Typed, accounts, settings, SameHistory
<1>23. CASE Ensure(h)
  BY <1>23 DEF Ensure, Typed, accounts, settings, SameHistory
<1>24. CASE SaveProof(h)
  <2>1. [org |-> job[h].org, verified |-> job[h].set] \in Proof
    BY DEF JobsTyped, Job, Proof
  <2> QED
    BY <1>24, <2>1 DEF SaveProof, Typed, accounts, settings, SameHistory
<1>25. CASE Lookup(h)
  BY <1>25 DEF Lookup, Typed, accounts, settings, SameHistory
<1>26. CASE Verify(h)
  <2>1. job[h].actor \in UserIds
    BY <1>26 DEF Verify, JobsTyped, At, ProofStages
  <2>2. proof' \in [UserIds -> Proof \union {None}]
    BY <1>26, <2>1 DEF Verify, Typed, Proof
  <2> QED
    BY <1>26, <2>1, <2>2 DEF Verify, Typed, accounts, settings, SameHistory
<1> QED
  BY <1>1, <1>2, <1>3, <1>4, <1>5, <1>6, <1>7, <1>8, <1>9, <1>10, <1>11, <1>12, <1>13, <1>14, <1>15, <1>16, <1>17, <1>18, <1>19, <1>20, <1>21, <1>22, <1>23, <1>24, <1>25, <1>26 DEF Step, Login, Administer, SetPolicy, Prove
-----------------------------------------------------------------------------
(* What a step of any request leaves of the rows: addresses do not change,   *)
(* deleted ids do not come back, a domain keeps its organization, and only   *)
(* the login that made an organization deletes it.                           *)
RowsKept(h) ==
    /\ gone \subseteq gone'
    /\ \A u \in UserIds : Exists(u) /\ Exists(u)' => user'[u].email = user[u].email
    /\ \A u \in UserIds : Exists(u)' => Exists(u) \/ u \notin gone'
    /\ \A u \in UserIds : Exists(u) => Exists(u)' \/ u \in gone'
    /\ \A d \in Domains : owner[d] # None => owner'[d] = owner[d]
    /\ \A o \in org : o \in org' \/ (job[h].at = "dropOrg" /\ o = job[h].org)

LEMMA RowsLeft ==
  ASSUME Accounts, NEW h \in Handlers, Step(h)
  PROVE  RowsKept(h)
<1> Typed /\ JobsTyped /\ DeletedStayDeleted
  BY DEF Accounts
<1>1. ASSUME NEW e \in Emails, LoginStart(h, e) PROVE RowsKept(h)
  BY <1>1 DEF LoginStart, RowsKept, Exists, DeletedStayDeleted, Typed, JobsTyped, At, AdminStages, accounts, settings, SameHistory
<1>2. CASE FindOrg(h)
  BY <1>2 DEF FindOrg, RowsKept, Exists, DeletedStayDeleted, Typed, JobsTyped, At, AdminStages, accounts, settings, SameHistory
<1>3. ASSUME NEW o \in OrgIds, InsertOrg(h, o) PROVE RowsKept(h)
  BY <1>3 DEF InsertOrg, RowsKept, Exists, DeletedStayDeleted, Typed, JobsTyped, At, AdminStages, accounts, settings, SameHistory
<1>4. CASE InsertDomain(h)
  BY <1>4 DEF InsertDomain, RowsKept, Exists, DeletedStayDeleted, Typed, JobsTyped, At, AdminStages, accounts, settings, SameHistory
<1>5. CASE FindAgain(h)
  BY <1>5 DEF FindAgain, RowsKept, Exists, DeletedStayDeleted, Typed, JobsTyped, At, AdminStages, accounts, settings, SameHistory
<1>6. CASE DropOrg(h)
  BY <1>6 DEF DropOrg, RowsKept, Exists, DeletedStayDeleted, Typed, JobsTyped, At, AdminStages, accounts, settings, SameHistory
<1>7. CASE FindUser(h)
  BY <1>7 DEF FindUser, RowsKept, Exists, DeletedStayDeleted, Typed, JobsTyped, At, AdminStages, accounts, settings, SameHistory
<1>8. ASSUME NEW u \in UserIds, InsertUser(h, u) PROVE RowsKept(h)
  BY <1>8 DEF InsertUser, RowsKept, Exists, DeletedStayDeleted, Typed, JobsTyped, At, AdminStages, accounts, settings, SameHistory
<1>9. CASE UpdateUser(h)
  <2>1. job[h].user \in UserIds
    BY <1>9 DEF UpdateUser, JobsTyped, At
  <2>5. \A r \in User : /\ [r EXCEPT !.org = job[h].org, !.admin = job[h].email \in AdminEmails] # None
                         /\ [r EXCEPT !.org = job[h].org, !.admin = job[h].email \in AdminEmails].email = r.email
    <3>1. job[h].org \in OrgOrNone /\ (job[h].email \in AdminEmails) \in BOOLEAN
      BY DEF JobsTyped, Job
    <3> QED
      BY <3>1, RowsAssumption DEF User
  <2>2. \A u \in UserIds : user[u] # None => user'[u] # None /\ user'[u].email = user[u].email
    BY <1>9, <2>1, <2>5 DEF UpdateUser, Typed
  <2>3. \A u \in UserIds : user[u] = None => user'[u] = None
    BY <1>9, <2>1 DEF UpdateUser, Typed
  <2> QED
    BY <1>9, <2>2, <2>3 DEF UpdateUser, RowsKept, Exists, accounts, settings, SameHistory
<1>10. ASSUME NEW a \in UserIds, NEW t \in UserIds, NEW kind \in {"suspend", "unsuspend", "delete"}, AdminStart(h, a, kind, t) PROVE RowsKept(h)
  BY <1>10 DEF AdminStart, RowsKept, Exists, DeletedStayDeleted, Typed, JobsTyped, At, AdminStages, accounts, settings, SameHistory
<1>11. CASE Target(h)
  BY <1>11 DEF Target, RowsKept, Exists, DeletedStayDeleted, Typed, JobsTyped, At, AdminStages, accounts, settings, SameHistory
<1>12. CASE SetUserSuspended(h)
  <2>1. job[h].user \in UserIds
    BY <1>12 DEF SetUserSuspended, JobsTyped, At, AdminStages
  <2>2. \A u \in UserIds : user[u] # None => user'[u] # None /\ user'[u].email = user[u].email
    <3>1. job[h].actor \in UserIds
      BY <1>12 DEF SetUserSuspended, JobsTyped, At, AdminStages
    <3>2. \A r \in User, b \in UserIds \union {None} : [r EXCEPT !.by = b] # None /\ [r EXCEPT !.by = b].email = r.email
      BY RowsAssumption DEF User
    <3> QED
      BY <1>12, <2>1, <3>1, <3>2 DEF SetUserSuspended, Typed, Exists
  <2>3. \A u \in UserIds : user[u] = None => user'[u] = None
    BY <1>12, <2>1 DEF SetUserSuspended, Typed, Exists
  <2> QED
    BY <1>12, <2>2, <2>3 DEF SetUserSuspended, RowsKept, Exists, accounts, settings, SameHistory
<1>13. CASE DropUser(h)
  BY <1>13 DEF DropUser, RowsKept, Exists, DeletedStayDeleted, Typed, JobsTyped, At, AdminStages, accounts, settings, SameHistory
<1>14. ASSUME NEW a \in UserIds, NEW enforce \in BOOLEAN, NEW addresses \in SUBSET Addresses, PolicyStart(h, a, enforce, addresses) PROVE RowsKept(h)
  BY <1>14 DEF PolicyStart, RowsKept, Exists, DeletedStayDeleted, Typed, JobsTyped, At, AdminStages, accounts, settings, SameHistory
<1>15. CASE SavePolicy(h)
  BY <1>15 DEF SavePolicy, RowsKept, Exists, DeletedStayDeleted, Typed, JobsTyped, At, AdminStages, accounts, settings, SameHistory
<1>16. CASE ClearRules(h)
  BY <1>16 DEF ClearRules, RowsKept, Exists, DeletedStayDeleted, Typed, JobsTyped, At, AdminStages, accounts, settings, SameHistory
<1>17. CASE AddRule(h)
  BY <1>17 DEF AddRule, RowsKept, Exists, DeletedStayDeleted, Typed, JobsTyped, At, AdminStages, accounts, settings, SameHistory
<1>18. CASE PolicySaved(h)
  BY <1>18 DEF PolicySaved, RowsKept, Exists, DeletedStayDeleted, Typed, JobsTyped, At, AdminStages, accounts, settings, SameHistory
<1>19. ASSUME NEW a \in UserIds, NEW kind \in {"view", "validate"}, ProofStart(h, a, kind) PROVE RowsKept(h)
  BY <1>19 DEF ProofStart, RowsKept, Exists, DeletedStayDeleted, Typed, JobsTyped, At, AdminStages, accounts, settings, SameHistory
<1>20. ASSUME NEW a \in UserIds, ShellStart(h, a) PROVE RowsKept(h)
  BY <1>20 DEF ShellStart, RowsKept, Exists, DeletedStayDeleted, Typed, JobsTyped, At, AdminStages, accounts, settings, SameHistory
<1>21. CASE Access(h)
  BY <1>21 DEF Access, RowsKept, Exists, DeletedStayDeleted, Typed, JobsTyped, At, AdminStages, accounts, settings, SameHistory
<1>22. CASE OwnProof(h)
  BY <1>22 DEF OwnProof, RowsKept, Exists, DeletedStayDeleted, Typed, JobsTyped, At, AdminStages, accounts, settings, SameHistory
<1>23. CASE Ensure(h)
  BY <1>23 DEF Ensure, RowsKept, Exists, DeletedStayDeleted, Typed, JobsTyped, At, AdminStages, accounts, settings, SameHistory
<1>24. CASE SaveProof(h)
  BY <1>24 DEF SaveProof, RowsKept, Exists, DeletedStayDeleted, Typed, JobsTyped, At, AdminStages, accounts, settings, SameHistory
<1>25. CASE Lookup(h)
  BY <1>25 DEF Lookup, RowsKept, Exists, DeletedStayDeleted, Typed, JobsTyped, At, AdminStages, accounts, settings, SameHistory
<1>26. CASE Verify(h)
  BY <1>26 DEF Verify, RowsKept, Exists, DeletedStayDeleted, Typed, JobsTyped, At, AdminStages, accounts, settings, SameHistory
<1> QED
  BY <1>1, <1>2, <1>3, <1>4, <1>5, <1>6, <1>7, <1>8, <1>9, <1>10, <1>11, <1>12, <1>13, <1>14, <1>15, <1>16, <1>17, <1>18, <1>19, <1>20, <1>21, <1>22, <1>23, <1>24, <1>25, <1>26 DEF Step, Login, Administer, SetPolicy, Prove

LEMMA KnowsLeft ==
  ASSUME Accounts, NEW h \in Handlers, Step(h), NEW k \in Handlers \ {h}
  PROVE  Knows(k)'
<1> Typed /\ JobsTyped /\ LoginsInv /\ Knows(k) /\ job'[k] = job[k]
  BY JobStep DEF Accounts, LoginsInv, Others
<1> RowsKept(h)
  BY RowsLeft
<1>1. \A e \in Emails : HomeOf(e) # None \/ DomainOf[e] = None => HomeOf(e)' = HomeOf(e)
  BY OrganizationsAssumption DEF RowsKept, HomeOf
<1>2. job[k].at \in LoginStages => job[k].email \in Emails
  BY DEF JobsTyped, At
<1>3. job[k].at \in Creating => job[k].org \in org'
  <2>1. CASE job[h].at = "dropOrg" /\ job[h].org = job[k].org
    BY <2>1 DEF LoginsInv, Creating, At
  <2>2. job[k].at \in Creating => job[k].org \in org
    BY DEF Knows
  <2>3. job[k].org \in org => job[k].org \in org' \/ (job[h].at = "dropOrg" /\ job[h].org = job[k].org)
    BY DEF RowsKept
  <2> QED
    BY <2>1, <2>2, <2>3
<1>4. job[k].at = "updateUser" =>
        /\ Exists(job[k].user)' => user'[job[k].user].email = job[k].email
        /\ Exists(job[k].user)' \/ job[k].user \in gone'
  <2> SUFFICES ASSUME job[k].at = "updateUser" PROVE
        /\ Exists(job[k].user)' => user'[job[k].user].email = job[k].email
        /\ Exists(job[k].user)' \/ job[k].user \in gone'
    OBVIOUS
  <2>1. job[k].user \in UserIds
    BY DEF JobsTyped, At
  <2>2. /\ Exists(job[k].user) => user[job[k].user].email = job[k].email
        /\ Exists(job[k].user) \/ job[k].user \in gone
    BY DEF Knows
  <2> QED
    BY <2>1, <2>2 DEF RowsKept
<1>5. job[k].at \in PolicyStages => \E d \in Domains : owner'[d] = job[k].org
  BY OrganizationsAssumption DEF RowsKept, Knows, JobsTyped, At
<1>6. Creating \union Resolved \union {"findOrg", "insertOrg"} \subseteq LoginStages
  BY DEF Creating, Resolved, LoginStages
<1>7. job[k].at \in {"findAgain", "dropOrg"} => HomeOf(job[k].email)' # None
  BY <1>1, <1>2 DEF Knows, LoginStages
<1>8. job[k].at \in Resolved => /\ job[k].org = HomeOf(job[k].email)'
                                /\ DomainOf[job[k].email] # None => job[k].org # None
  BY <1>1, <1>2, <1>6 DEF Knows
<1>9. job'[k] = job[k] /\ (job[k].at \in {"findOrg", "insertOrg"} \union Creating => DomainOf[job[k].email] # None)
  BY DEF Knows
<1> QED
  BY <1>3, <1>4, <1>5, <1>7, <1>8, <1>9 DEF Knows, Exists, HomeOf

LEMMA KnowsStep ==
  ASSUME Accounts, NEW h \in Handlers, Step(h)
  PROVE  Knows(h)'
<1> Typed /\ JobsTyped /\ LoginsInv /\ Knows(h) /\ RowsInv
  BY DEF Accounts, LoginsInv
<1>1. ASSUME NEW e \in Emails, LoginStart(h, e) PROVE Knows(h)'
  BY <1>1 DEF LoginStart, Goes, Ends, Knows, JobsTyped, Exists, HomeOf, At, Job, Idle, Creating, Resolved, LoginStages, AdminStages, ProofStages, PolicyStages, accounts, settings, SameHistory
<1>2. CASE FindOrg(h)
  BY <1>2 DEF FindOrg, Goes, Ends, Knows, JobsTyped, Exists, HomeOf, At, Job, Idle, Creating, Resolved, LoginStages, AdminStages, ProofStages, PolicyStages, accounts, settings, SameHistory
<1>3. ASSUME NEW o \in OrgIds, InsertOrg(h, o) PROVE Knows(h)'
  BY <1>3 DEF InsertOrg, Goes, Ends, Knows, JobsTyped, Exists, HomeOf, At, Job, Idle, Creating, Resolved, LoginStages, AdminStages, ProofStages, PolicyStages, accounts, settings, SameHistory
<1>4. CASE InsertDomain(h)
  <2>1. job[h].email \in Emails /\ job[h].org \in OrgIds /\ job[h].at = "insertDomain"
    BY <1>4 DEF InsertDomain, JobsTyped, At, Creating, LoginStages
  <2>2. DomainOf[job[h].email] \in Domains /\ DomainOf[job[h].email] # None
    BY <2>1, OrganizationsAssumption DEF Knows, Creating
  <2>3. owner'[DomainOf[job[h].email]] # None
    BY <1>4, <2>1, <2>2, OrganizationsAssumption DEF InsertDomain, Typed
  <2>4. job'[h] = [job[h] EXCEPT !.at = "findAgain"] /\ org' = org
    BY <1>4 DEF InsertDomain, Goes, JobsTyped
  <2>5. /\ job'[h].at = "findAgain" /\ job'[h].email = job[h].email /\ job'[h].org = job[h].org
        /\ org' = org
    BY <2>4 DEF JobsTyped, Job
  <2>6. job[h].org \in org
    BY <2>1 DEF Knows, Creating
  <2> QED
    BY <2>2, <2>3, <2>5, <2>6 DEF Knows, HomeOf, Creating, Resolved, PolicyStages
<1>5. CASE FindAgain(h)
  BY <1>5 DEF FindAgain, Goes, Ends, Knows, JobsTyped, Exists, HomeOf, At, Job, Idle, Creating, Resolved, LoginStages, AdminStages, ProofStages, PolicyStages, accounts, settings, SameHistory
<1>6. CASE DropOrg(h)
  BY <1>6 DEF DropOrg, Goes, Ends, Knows, JobsTyped, Exists, HomeOf, At, Job, Idle, Creating, Resolved, LoginStages, AdminStages, ProofStages, PolicyStages, accounts, settings, SameHistory
<1>7. CASE FindUser(h)
  <2>0. job[h].at = "findUser" /\ UNCHANGED <<org, owner, user>>
    BY <1>7 DEF FindUser, accounts
  <2>1. CASE Goes(h, "insertUser")
    BY <2>0, <2>1 DEF Goes, Knows, JobsTyped, HomeOf, Job, Creating, Resolved, PolicyStages
  <2>2. ASSUME NEW u \in UserIds, Exists(u), user[u].email = job[h].email,
               job' = [job EXCEPT ![h].user = u, ![h].at = "updateUser"]
        PROVE  Knows(h)'
    BY <2>0, <2>2 DEF Knows, JobsTyped, HomeOf, Exists, Job, Creating, Resolved, PolicyStages
  <2>3. \/ Goes(h, "insertUser")
        \/ \E u \in UserIds : /\ Exists(u) /\ user[u].email = job[h].email
                             /\ job' = [job EXCEPT ![h].user = u, ![h].at = "updateUser"]
    BY <1>7 DEF FindUser
  <2> QED
    BY <2>1, <2>2, <2>3
<1>8. ASSUME NEW u \in UserIds, InsertUser(h, u) PROVE Knows(h)'
  BY <1>8 DEF InsertUser, Goes, Ends, Knows, JobsTyped, Exists, HomeOf, At, Job, Idle, Creating, Resolved, LoginStages, AdminStages, ProofStages, PolicyStages, accounts, settings, SameHistory
<1>9. CASE UpdateUser(h)
  BY <1>9 DEF UpdateUser, Goes, Ends, Knows, JobsTyped, Exists, HomeOf, At, Job, Idle, Creating, Resolved, LoginStages, AdminStages, ProofStages, PolicyStages, accounts, settings, SameHistory
<1>10. ASSUME NEW a \in UserIds, NEW t \in UserIds, NEW kind \in {"suspend", "unsuspend", "delete"}, AdminStart(h, a, kind, t) PROVE Knows(h)'
  BY <1>10 DEF AdminStart, Goes, Ends, AfterEnsure, Knows, JobsTyped, Idle, At, Job, Creating, Resolved, LoginStages, AdminStages, ProofStages, PolicyStages
<1>11. CASE Target(h)
  BY <1>11 DEF Target, Goes, Ends, AfterEnsure, Knows, JobsTyped, Idle, At, Job, Creating, Resolved, LoginStages, AdminStages, ProofStages, PolicyStages
<1>12. CASE SetUserSuspended(h)
  BY <1>12 DEF SetUserSuspended, Goes, Ends, Knows, JobsTyped, Exists, HomeOf, At, Job, Idle, Creating, Resolved, LoginStages, AdminStages, ProofStages, PolicyStages, accounts, settings, SameHistory
<1>13. CASE DropUser(h)
  BY <1>13 DEF DropUser, Goes, Ends, Knows, JobsTyped, Exists, HomeOf, At, Job, Idle, Creating, Resolved, LoginStages, AdminStages, ProofStages, PolicyStages, accounts, settings, SameHistory
<1>14. ASSUME NEW a \in UserIds, NEW enforce \in BOOLEAN, NEW addresses \in SUBSET Addresses, PolicyStart(h, a, enforce, addresses) PROVE Knows(h)'
  <2>1. Exists(a) /\ user[a] \in User /\ user[a].org # None /\ UNCHANGED owner
    BY <1>14 DEF PolicyStart, IsAdmin, SignedIn, Exists, Typed, accounts
  <2>2. user[a].org = HomeOf(user[a].email) /\ user[a].email \in Emails
    BY <2>1 DEF Accounts, OneOrganization, User
  <2>3. \E d \in Domains : owner[d] = user[a].org
    BY <2>1, <2>2, OrganizationsAssumption DEF HomeOf
  <2>4. job'[h].at = "savePolicy" /\ job'[h].org = user[a].org
    BY <1>14 DEF PolicyStart, JobsTyped, Idle
  <2> QED
    BY <2>1, <2>3, <2>4 DEF Knows, Creating, Resolved
<1>15. CASE SavePolicy(h)
  BY <1>15 DEF SavePolicy, Goes, Ends, Knows, JobsTyped, Exists, HomeOf, At, Job, Idle, Creating, Resolved, LoginStages, AdminStages, ProofStages, PolicyStages, accounts, settings, SameHistory
<1>16. CASE ClearRules(h)
  BY <1>16 DEF ClearRules, Goes, Ends, Knows, JobsTyped, Exists, HomeOf, At, Job, Idle, Creating, Resolved, LoginStages, AdminStages, ProofStages, PolicyStages, accounts, settings, SameHistory
<1>17. CASE AddRule(h)
  BY <1>17 DEF AddRule, Goes, Ends, Knows, JobsTyped, Exists, HomeOf, At, Job, Idle, Creating, Resolved, LoginStages, AdminStages, ProofStages, PolicyStages, accounts, settings, SameHistory
<1>18. CASE PolicySaved(h)
  BY <1>18 DEF PolicySaved, Goes, Ends, Knows, JobsTyped, Exists, HomeOf, At, Job, Idle, Creating, Resolved, LoginStages, AdminStages, ProofStages, PolicyStages, accounts, settings, SameHistory
<1>19. ASSUME NEW a \in UserIds, NEW kind \in {"view", "validate"}, ProofStart(h, a, kind) PROVE Knows(h)'
  BY <1>19 DEF ProofStart, Goes, Ends, AfterEnsure, Knows, JobsTyped, Idle, At, Job, Creating, Resolved, LoginStages, AdminStages, ProofStages, PolicyStages
<1>20. ASSUME NEW a \in UserIds, ShellStart(h, a) PROVE Knows(h)'
  BY <1>20 DEF ShellStart, Goes, Ends, AfterEnsure, Knows, JobsTyped, Idle, At, Job, Creating, Resolved, LoginStages, AdminStages, ProofStages, PolicyStages
<1>21. CASE Access(h)
  BY <1>21 DEF Access, Goes, Ends, AfterEnsure, Knows, JobsTyped, Idle, At, Job, Creating, Resolved, LoginStages, AdminStages, ProofStages, PolicyStages
<1>22. CASE OwnProof(h)
  BY <1>22 DEF OwnProof, Goes, Ends, AfterEnsure, Knows, JobsTyped, Idle, At, Job, Creating, Resolved, LoginStages, AdminStages, ProofStages, PolicyStages
<1>23. CASE Ensure(h)
  BY <1>23 DEF Ensure, Goes, Ends, AfterEnsure, Knows, JobsTyped, Idle, At, Job, Creating, Resolved, LoginStages, AdminStages, ProofStages, PolicyStages
<1>24. CASE SaveProof(h)
  BY <1>24 DEF SaveProof, Goes, Ends, AfterEnsure, Knows, JobsTyped, Idle, At, Job, Creating, Resolved, LoginStages, AdminStages, ProofStages, PolicyStages
<1>25. CASE Lookup(h)
  BY <1>25 DEF Lookup, Goes, Ends, AfterEnsure, Knows, JobsTyped, Idle, At, Job, Creating, Resolved, LoginStages, AdminStages, ProofStages, PolicyStages
<1>26. CASE Verify(h)
  BY <1>26 DEF Verify, Goes, Ends, Knows, JobsTyped, Exists, HomeOf, At, Job, Idle, Creating, Resolved, LoginStages, AdminStages, ProofStages, PolicyStages, accounts, settings, SameHistory
<1> QED
  BY <1>1, <1>2, <1>3, <1>4, <1>5, <1>6, <1>7, <1>8, <1>9, <1>10, <1>11, <1>12, <1>13, <1>14, <1>15, <1>16, <1>17, <1>18, <1>19, <1>20, <1>21, <1>22, <1>23, <1>24, <1>25, <1>26 DEF Step, Login, Administer, SetPolicy, Prove

LEMMA LoginsStep ==
  ASSUME Accounts, NEW h \in Handlers, Step(h)
  PROVE  LoginsInv'
<1> Typed /\ JobsTyped /\ LoginsInv /\ RowsInv /\ Others(h)
  BY JobStep DEF Accounts
<1>1. \A k \in Handlers : Knows(k)'
  BY KnowsStep, KnowsLeft
<1>2. job'[h].at \in Creating => \/ job[h].at \in Creating /\ job'[h].org = job[h].org
                                \/ job'[h].org \notin org
<2>1. ASSUME NEW e \in Emails, LoginStart(h, e) PROVE job'[h].at \in Creating => \/ job[h].at \in Creating /\ job'[h].org = job[h].org
                                \/ job'[h].org \notin org
  BY <2>1 DEF LoginStart, Goes, Ends, AfterEnsure, JobsTyped, Idle, Job, Creating
<2>2. CASE FindOrg(h)
  BY <2>2 DEF FindOrg, Goes, Ends, AfterEnsure, JobsTyped, Idle, Job, Creating
<2>3. ASSUME NEW o \in OrgIds, InsertOrg(h, o) PROVE job'[h].at \in Creating => \/ job[h].at \in Creating /\ job'[h].org = job[h].org
                                \/ job'[h].org \notin org
  BY <2>3 DEF InsertOrg, Goes, Ends, AfterEnsure, JobsTyped, Idle, Job, Creating
<2>4. CASE InsertDomain(h)
  BY <2>4 DEF InsertDomain, Goes, Ends, AfterEnsure, JobsTyped, Idle, Job, Creating
<2>5. CASE FindAgain(h)
  BY <2>5 DEF FindAgain, Goes, Ends, AfterEnsure, JobsTyped, Idle, Job, Creating
<2>6. CASE DropOrg(h)
  BY <2>6 DEF DropOrg, Goes, Ends, AfterEnsure, JobsTyped, Idle, Job, Creating
<2>7. CASE FindUser(h)
  <3>1. \/ job' = [job EXCEPT ![h].at = "insertUser"]
        \/ \E u \in UserIds : job' = [job EXCEPT ![h].user = u, ![h].at = "updateUser"]
    BY <2>7 DEF FindUser, Goes
  <3>2. job \in [Handlers -> Job]
    BY DEF JobsTyped
  <3>3. CASE job' = [job EXCEPT ![h].at = "insertUser"]
    BY <3>2, <3>3 DEF Job, Creating
  <3>4. ASSUME NEW u \in UserIds, job' = [job EXCEPT ![h].user = u, ![h].at = "updateUser"]
        PROVE  job'[h].at \notin Creating
    BY <3>2, <3>4 DEF Job, Creating
  <3> QED
    BY <3>1, <3>3, <3>4
<2>8. ASSUME NEW u \in UserIds, InsertUser(h, u) PROVE job'[h].at \in Creating => \/ job[h].at \in Creating /\ job'[h].org = job[h].org
                                \/ job'[h].org \notin org
  <3>1. job' = [job EXCEPT ![h] = Idle]
    BY <2>8 DEF InsertUser, Ends
  <3>2. job'[h].at = "idle"
    BY <3>1 DEF JobsTyped, Idle
  <3> QED
    BY <3>2 DEF Creating
<2>9. CASE UpdateUser(h)
  BY <2>9 DEF UpdateUser, Goes, Ends, AfterEnsure, JobsTyped, Idle, Job, Creating
<2>10. ASSUME NEW a \in UserIds, NEW t \in UserIds, NEW kind \in {"suspend", "unsuspend", "delete"}, AdminStart(h, a, kind, t) PROVE job'[h].at \in Creating => \/ job[h].at \in Creating /\ job'[h].org = job[h].org
                                \/ job'[h].org \notin org
  BY <2>10 DEF AdminStart, Goes, Ends, AfterEnsure, JobsTyped, Idle, Job, Creating
<2>11. CASE Target(h)
  BY <2>11 DEF Target, Goes, Ends, AfterEnsure, JobsTyped, Idle, Job, Creating
<2>12. CASE SetUserSuspended(h)
  BY <2>12 DEF SetUserSuspended, Goes, Ends, AfterEnsure, JobsTyped, Idle, Job, Creating
<2>13. CASE DropUser(h)
  BY <2>13 DEF DropUser, Goes, Ends, AfterEnsure, JobsTyped, Idle, Job, Creating
<2>14. ASSUME NEW a \in UserIds, NEW enforce \in BOOLEAN, NEW addresses \in SUBSET Addresses, PolicyStart(h, a, enforce, addresses) PROVE job'[h].at \in Creating => \/ job[h].at \in Creating /\ job'[h].org = job[h].org
                                \/ job'[h].org \notin org
  BY <2>14 DEF PolicyStart, Goes, Ends, AfterEnsure, JobsTyped, Idle, Job, Creating
<2>15. CASE SavePolicy(h)
  BY <2>15 DEF SavePolicy, Goes, Ends, AfterEnsure, JobsTyped, Idle, Job, Creating
<2>16. CASE ClearRules(h)
  BY <2>16 DEF ClearRules, Goes, Ends, AfterEnsure, JobsTyped, Idle, Job, Creating
<2>17. CASE AddRule(h)
  BY <2>17 DEF AddRule, Goes, Ends, AfterEnsure, JobsTyped, Idle, Job, Creating
<2>18. CASE PolicySaved(h)
  BY <2>18 DEF PolicySaved, Goes, Ends, AfterEnsure, JobsTyped, Idle, Job, Creating
<2>19. ASSUME NEW a \in UserIds, NEW kind \in {"view", "validate"}, ProofStart(h, a, kind) PROVE job'[h].at \in Creating => \/ job[h].at \in Creating /\ job'[h].org = job[h].org
                                \/ job'[h].org \notin org
  BY <2>19 DEF ProofStart, Goes, Ends, AfterEnsure, JobsTyped, Idle, Job, Creating
<2>20. ASSUME NEW a \in UserIds, ShellStart(h, a) PROVE job'[h].at \in Creating => \/ job[h].at \in Creating /\ job'[h].org = job[h].org
                                \/ job'[h].org \notin org
  BY <2>20 DEF ShellStart, Goes, Ends, AfterEnsure, JobsTyped, Idle, Job, Creating
<2>21. CASE Access(h)
  BY <2>21 DEF Access, Goes, Ends, AfterEnsure, JobsTyped, Idle, Job, Creating
<2>22. CASE OwnProof(h)
  BY <2>22 DEF OwnProof, Goes, Ends, AfterEnsure, JobsTyped, Idle, Job, Creating
<2>23. CASE Ensure(h)
  BY <2>23 DEF Ensure, Goes, Ends, AfterEnsure, JobsTyped, Idle, Job, Creating
<2>24. CASE SaveProof(h)
  BY <2>24 DEF SaveProof, Goes, Ends, AfterEnsure, JobsTyped, Idle, Job, Creating
<2>25. CASE Lookup(h)
  BY <2>25 DEF Lookup, Goes, Ends, AfterEnsure, JobsTyped, Idle, Job, Creating
<2>26. CASE Verify(h)
  BY <2>26 DEF Verify, Goes, Ends, AfterEnsure, JobsTyped, Idle, Job, Creating
<2> QED
  BY <2>1, <2>2, <2>3, <2>4, <2>5, <2>6, <2>7, <2>8, <2>9, <2>10, <2>11, <2>12, <2>13, <2>14, <2>15, <2>16, <2>17, <2>18, <2>19, <2>20, <2>21, <2>22, <2>23, <2>24, <2>25, <2>26 DEF Step, Login, Administer, SetPolicy, Prove
<1>3. \A k \in Handlers : job[k].at \in Creating => job[k].org \in org
  BY DEF LoginsInv, Knows
<1>4. ASSUME NEW k \in Handlers, NEW l \in Handlers, k # l, job'[k].at \in Creating, job'[l].at \in Creating
      PROVE  job'[k].org # job'[l].org
  BY <1>2, <1>3, <1>4 DEF LoginsInv, At, Others
<1> QED
  BY <1>1, <1>4 DEF LoginsInv, At

LEMMA RowsStep ==
  ASSUME Accounts, NEW h \in Handlers, Step(h)
  PROVE  RowsInv' /\ DeletedStayDeleted'
<1> DEFINE Goal == RowsInv' /\ DeletedStayDeleted'
<1> Typed /\ JobsTyped /\ RowsInv /\ DeletedStayDeleted /\ Knows(h)
  BY DEF Accounts, LoginsInv
<1> HIDE DEF Goal
<1>1. ASSUME NEW e \in Emails, LoginStart(h, e) PROVE Goal
  BY <1>1 DEF Goal, LoginStart, RowsInv, DeletedStayDeleted, Exists, Typed, accounts, settings, SameHistory
<1>2. CASE FindOrg(h)
  BY <1>2 DEF Goal, FindOrg, RowsInv, DeletedStayDeleted, Exists, Typed, accounts, settings, SameHistory
<1>3. ASSUME NEW o \in OrgIds, InsertOrg(h, o) PROVE Goal
  BY <1>3 DEF Goal, InsertOrg, RowsInv, DeletedStayDeleted, Exists, Typed, accounts, settings, SameHistory
<1>4. CASE InsertDomain(h)
  <2>1. job[h].org \in org
    BY <1>4 DEF InsertDomain, Knows, Creating
  <2> QED
    BY <1>4, <2>1 DEF Goal, InsertDomain, RowsInv, DeletedStayDeleted, Exists, Typed, accounts, settings, SameHistory
<1>5. CASE FindAgain(h)
  BY <1>5 DEF Goal, FindAgain, RowsInv, DeletedStayDeleted, Exists, Typed, accounts, settings, SameHistory
<1>6. CASE DropOrg(h)
  <2>0. job[h].org \in OrgIds
    BY <1>6 DEF DropOrg, JobsTyped, At, Creating
  <2> QED
    BY <1>6, <2>0, OrganizationsAssumption DEF Goal, DropOrg, RowsInv, DeletedStayDeleted, Exists, Typed, accounts, settings, SameHistory
<1>7. CASE FindUser(h)
  BY <1>7 DEF Goal, FindUser, RowsInv, DeletedStayDeleted, Exists, Typed, accounts, settings, SameHistory
<1>8. ASSUME NEW u \in UserIds, InsertUser(h, u) PROVE Goal
  <2>1. job[h].email \in Emails
    BY <1>8 DEF InsertUser, JobsTyped, At, LoginStages
  <2>2. u \notin gone /\ ~Exists(u) /\ (UNCHANGED user \/ user' = [user EXCEPT ![u] =
          [email |-> job[h].email, org |-> job[h].org, admin |-> job[h].email \in AdminEmails, by |-> None]])
    BY <1>8 DEF InsertUser
  <2>3. \A v \in UserIds : user'[v] = user[v] \/ v = u
    BY <2>2 DEF Typed
  <2>4. u \in UserIds /\ Exists(u)' => (user'[u].admin <=> user'[u].email \in AdminEmails)
    <3>1. CASE UNCHANGED user
      BY <2>2, <3>1 DEF Exists
    <3>2. CASE user' = [user EXCEPT ![u] =
                 [email |-> job[h].email, org |-> job[h].org, admin |-> job[h].email \in AdminEmails, by |-> None]]
      <4>1. user'[u].admin = (job[h].email \in AdminEmails) /\ user'[u].email = job[h].email
        BY <3>2 DEF Typed
      <4> QED
        BY <4>1
    <3> QED
      BY <2>2, <3>1, <3>2
  <2>5. UNCHANGED <<org, owner, proof, gone>>
    BY <1>8 DEF InsertUser, SameHistory
  <2>6. \A v \in UserIds : Exists(v)' => (user'[v].admin <=> user'[v].email \in AdminEmails)
    BY <2>3, <2>4 DEF RowsInv, Exists
  <2>7. \A v \in UserIds : Exists(v) => Exists(v)'
    BY <2>2, <2>3 DEF Exists
  <2>8. DeletedStayDeleted'
    BY <2>2, <2>3, <2>5 DEF DeletedStayDeleted, Exists
  <2> QED
    BY <2>5, <2>6, <2>7, <2>8 DEF Goal, RowsInv
<1>9. CASE UpdateUser(h)
  <2>1. /\ job[h].user \in UserIds /\ job[h].org \in OrgOrNone
        /\ Exists(job[h].user) => user[job[h].user].email = job[h].email
    BY <1>9 DEF UpdateUser, JobsTyped, At, Job, Knows
  <2> DEFINE t == job[h].user
             r == [user[t] EXCEPT !.org = job[h].org, !.admin = job[h].email \in AdminEmails]
  <2>2. CASE ~Exists(t)
    <3>1. user' = user
      BY <1>9, <2>1, <2>2 DEF UpdateUser, Typed, Exists
    <3> QED
      BY <1>9, <3>1 DEF Goal, UpdateUser, RowsInv, DeletedStayDeleted, Exists, SameHistory
  <2>3. CASE Exists(t)
    <3>1. user' = [user EXCEPT ![t] = r]
      BY <1>9, <2>3 DEF UpdateUser, Exists
    <3>2. user[t] \in User
      BY <2>1, <2>3 DEF Typed, Exists
    <3>3. r.email = job[h].email /\ r.admin = (job[h].email \in AdminEmails)
      BY <2>1, <2>3, <3>2 DEF User
    <3> HIDE DEF r
    <3>4. \A v \in UserIds : user'[v] = IF v = t THEN r ELSE user[v]
      BY <3>1, <2>1 DEF Typed
    <3>5. \A v \in UserIds : Exists(v)' => (user'[v].admin <=> user'[v].email \in AdminEmails)
      BY <3>3, <3>4 DEF RowsInv, Exists
    <3>6. UNCHANGED <<org, owner, proof, gone>>
      BY <1>9 DEF UpdateUser, SameHistory
    <3>7. \A v \in UserIds : Exists(v) => Exists(v)'
      BY <2>1, <3>6, RowsLeft, <2>3 DEF RowsKept, DeletedStayDeleted
    <3>8. DeletedStayDeleted'
      BY <2>1, <2>3, <3>4, <3>6 DEF DeletedStayDeleted, Exists
    <3> QED
      BY <3>5, <3>6, <3>7, <3>8 DEF Goal, RowsInv
  <2> QED
    BY <2>2, <2>3 DEF Goal
<1>10. ASSUME NEW a \in UserIds, NEW t \in UserIds, NEW kind \in {"suspend", "unsuspend", "delete"}, AdminStart(h, a, kind, t) PROVE Goal
  BY <1>10 DEF Goal, AdminStart, RowsInv, DeletedStayDeleted, Exists, Typed, accounts, settings, SameHistory
<1>11. CASE Target(h)
  BY <1>11 DEF Goal, Target, RowsInv, DeletedStayDeleted, Exists, Typed, accounts, settings, SameHistory
<1>12. CASE SetUserSuspended(h)
  <2>1. job[h].user \in UserIds /\ job[h].actor \in UserIds
    BY <1>12 DEF SetUserSuspended, JobsTyped, At, AdminStages
  <2>2. \A r \in User, b \in UserIds \union {None} :
          LET s == [r EXCEPT !.by = b] IN s # None /\ s.email = r.email /\ s.admin = r.admin
    BY RowsAssumption DEF User
  <2>3. \A v \in UserIds :
          /\ Exists(v)' <=> Exists(v)
          /\ Exists(v) => user'[v].email = user[v].email /\ user'[v].admin = user[v].admin
    BY <1>12, <2>1, <2>2 DEF SetUserSuspended, Typed, Exists
  <2>4. UNCHANGED <<org, owner, proof, gone>>
    BY <1>12 DEF SetUserSuspended, SameHistory
  <2>5. ASSUME NEW v \in UserIds, Exists(v)' PROVE user'[v].admin <=> user'[v].email \in AdminEmails
    <3>1. user[v].admin <=> user[v].email \in AdminEmails
      BY <2>3, <2>5 DEF RowsInv
    <3>2. user'[v].admin = user[v].admin /\ user'[v].email = user[v].email
      BY <2>3, <2>5
    <3> QED
      BY <3>1, <3>2, Zenon
  <2>6. \A v \in UserIds : Exists(v)' <=> Exists(v)
    BY <2>3
  <2>7. DeletedStayDeleted'
    BY <2>4, <2>6 DEF DeletedStayDeleted
  <2> QED
    BY <2>4, <2>5, <2>6, <2>7 DEF Goal, RowsInv
<1>13. CASE DropUser(h)
  <2>1. job[h].user \in UserIds
    BY <1>13 DEF DropUser, JobsTyped, At, AdminStages
  <2> QED
    BY <1>13, <2>1, OrganizationsAssumption DEF Goal, DropUser, RowsInv, DeletedStayDeleted, Exists, Typed, accounts, settings, SameHistory
<1>14. ASSUME NEW a \in UserIds, NEW enforce \in BOOLEAN, NEW addresses \in SUBSET Addresses, PolicyStart(h, a, enforce, addresses) PROVE Goal
  BY <1>14 DEF Goal, PolicyStart, RowsInv, DeletedStayDeleted, Exists, Typed, accounts, settings, SameHistory
<1>15. CASE SavePolicy(h)
  BY <1>15 DEF Goal, SavePolicy, RowsInv, DeletedStayDeleted, Exists, Typed, accounts, settings, SameHistory
<1>16. CASE ClearRules(h)
  BY <1>16 DEF Goal, ClearRules, RowsInv, DeletedStayDeleted, Exists, Typed, accounts, settings, SameHistory
<1>17. CASE AddRule(h)
  BY <1>17 DEF Goal, AddRule, RowsInv, DeletedStayDeleted, Exists, Typed, accounts, settings, SameHistory
<1>18. CASE PolicySaved(h)
  BY <1>18 DEF Goal, PolicySaved, RowsInv, DeletedStayDeleted, Exists, Typed, accounts, settings, SameHistory
<1>19. ASSUME NEW a \in UserIds, NEW kind \in {"view", "validate"}, ProofStart(h, a, kind) PROVE Goal
  BY <1>19 DEF Goal, ProofStart, RowsInv, DeletedStayDeleted, Exists, Typed, accounts, settings, SameHistory
<1>20. ASSUME NEW a \in UserIds, ShellStart(h, a) PROVE Goal
  BY <1>20 DEF Goal, ShellStart, RowsInv, DeletedStayDeleted, Exists, Typed, accounts, settings, SameHistory
<1>21. CASE Access(h)
  BY <1>21 DEF Goal, Access, RowsInv, DeletedStayDeleted, Exists, Typed, accounts, settings, SameHistory
<1>22. CASE OwnProof(h)
  BY <1>22 DEF Goal, OwnProof, RowsInv, DeletedStayDeleted, Exists, Typed, accounts, settings, SameHistory
<1>23. CASE Ensure(h)
  BY <1>23 DEF Goal, Ensure, RowsInv, DeletedStayDeleted, Exists, Typed, accounts, settings, SameHistory
<1>24. CASE SaveProof(h)
  <2>1. job[h].actor \in UserIds
    BY <1>24 DEF SaveProof, JobsTyped, At, ProofStages
  <2> QED
    BY <1>24, <2>1 DEF Goal, SaveProof, RowsInv, DeletedStayDeleted, Exists, Typed, accounts, settings, SameHistory
<1>25. CASE Lookup(h)
  BY <1>25 DEF Goal, Lookup, RowsInv, DeletedStayDeleted, Exists, Typed, accounts, settings, SameHistory
<1>26. CASE Verify(h)
  <2>1. job[h].actor \in UserIds
    BY <1>26 DEF Verify, JobsTyped, At, ProofStages
  <2> QED
    BY <1>26, <2>1 DEF Goal, Verify, RowsInv, DeletedStayDeleted, Exists, Typed, accounts, settings, SameHistory
<1> QED
  BY <1>1, <1>2, <1>3, <1>4, <1>5, <1>6, <1>7, <1>8, <1>9, <1>10, <1>11, <1>12, <1>13, <1>14, <1>15, <1>16, <1>17, <1>18, <1>19, <1>20, <1>21, <1>22, <1>23, <1>24, <1>25, <1>26 DEF Goal, Step, Login, Administer, SetPolicy, Prove

LEMMA OneOrganizationStep ==
  ASSUME Accounts, NEW h \in Handlers, Step(h)
  PROVE  OneOrganization'
<1> Typed /\ JobsTyped /\ RowsInv /\ OneOrganization /\ Knows(h)
  BY DEF Accounts, LoginsInv
<1> RowsKept(h) /\ Typed' /\ Others(h)
  BY RowsLeft, RowStep, JobStep
<1>1. \A u \in UserIds : Exists(u) => user[u] \in User
  BY DEF Exists, Typed
<1>2. ASSUME NEW e \in Emails, HomeOf(e) # None \/ DomainOf[e] = None
      PROVE  HomeOf(e)' = HomeOf(e)
  BY <1>2, OrganizationsAssumption DEF RowsKept, HomeOf
<1> DEFINE Placed(u) == /\ user[u].org = HomeOf(user[u].email)
                        /\ DomainOf[user[u].email] # None => user[u].org # None
<1>3. \A u \in UserIds : Exists(u) => Placed(u)
  BY DEF OneOrganization
<1>4. ASSUME NEW u \in UserIds, Exists(u)'
      PROVE  Placed(u)'
  <2>1. CASE Exists(u) /\ user'[u].org = user[u].org /\ user'[u].email = user[u].email
    BY <1>1, <1>2, <1>3, <2>1 DEF User
  <2>2. CASE /\ user'[u].email = job[h].email /\ user'[u].org = job[h].org
             /\ job[h].at \in Resolved /\ UNCHANGED owner
    BY <2>2 DEF Knows, HomeOf
  <2> DEFINE Goal == \/ Exists(u) /\ user'[u].org = user[u].org /\ user'[u].email = user[u].email
                     \/ /\ user'[u].email = job[h].email /\ user'[u].org = job[h].org
                        /\ job[h].at \in Resolved /\ UNCHANGED owner
  <2> HIDE DEF Goal
  <2>3. Goal
    <3>1. ASSUME NEW v \in UserIds, InsertUser(h, v) PROVE Goal
      <4>1. UNCHANGED user \/ user' = [user EXCEPT ![v] =
              [email |-> job[h].email, org |-> job[h].org, admin |-> job[h].email \in AdminEmails, by |-> None]]
        BY <3>1 DEF InsertUser
      <4>2. job[h].at \in Resolved /\ UNCHANGED owner
        BY <3>1 DEF InsertUser, Resolved
      <4>3. CASE user'[u] = user[u]
        BY <1>4, <4>3 DEF Goal, Exists
      <4>4. CASE user'[u] # user[u]
        <5>1. user'[u].email = job[h].email /\ user'[u].org = job[h].org
          BY <4>1, <4>4 DEF Typed
        <5> QED
          BY <5>1, <4>2 DEF Goal
      <4> QED
        BY <4>3, <4>4
    <3>2. CASE UpdateUser(h)
      <4>1. /\ job[h].user \in UserIds /\ job[h].org \in OrgOrNone
            /\ Exists(job[h].user) => user[job[h].user].email = job[h].email
            /\ job[h].at \in Resolved /\ UNCHANGED owner
        BY <3>2 DEF UpdateUser, JobsTyped, At, Job, Knows, Resolved
      <4>2. CASE u = job[h].user
        <5>1. Exists(u) /\ user[u] \in User
          BY <1>1, <1>4, <3>2, <4>1, <4>2 DEF UpdateUser, Exists, Typed
        <5>2. user'[u] = [user[u] EXCEPT !.org = job[h].org, !.admin = job[h].email \in AdminEmails]
          BY <3>2, <4>1, <4>2, <5>1 DEF UpdateUser, Typed, Exists
        <5>3. user'[u].email = job[h].email /\ user'[u].org = job[h].org
          BY <4>1, <4>2, <5>1, <5>2 DEF User
        <5> QED
          BY <4>1, <5>3 DEF Goal
      <4>3. CASE u # job[h].user
        BY <1>4, <3>2, <4>1, <4>3 DEF UpdateUser, Goal, Exists, Typed
      <4> QED
        BY <4>2, <4>3
    <3>3. CASE SetUserSuspended(h)
      <4>1. job[h].user \in UserIds /\ job[h].actor \in UserIds
        BY <3>3 DEF SetUserSuspended, JobsTyped, At, AdminStages
      <4>2. \A r \in User, b \in UserIds \union {None} :
              LET s == [r EXCEPT !.by = b] IN s # None /\ s.email = r.email /\ s.org = r.org
        BY RowsAssumption DEF User
      <4> QED
        BY <1>1, <1>4, <3>3, <4>1, <4>2 DEF SetUserSuspended, Typed, Exists, Goal
    <3>4. CASE DropUser(h)
      BY <1>4, <3>4 DEF DropUser, Typed, Exists, Goal
    <3>5. CASE UNCHANGED user
      BY <1>4, <3>5 DEF Goal, Exists
    <3> QED
      BY <3>1, <3>2, <3>3, <3>4, <3>5 DEF Step, Login, Administer, SetPolicy, Prove, LoginStart, FindOrg,
         InsertOrg, InsertDomain, FindAgain, DropOrg, FindUser, AdminStart, Target, PolicyStart, SavePolicy,
         ClearRules, AddRule, PolicySaved, ProofStart, ShellStart, Access, OwnProof, Ensure, SaveProof,
         Lookup, Verify, accounts
  <2> QED
    BY <2>1, <2>2, <2>3 DEF Goal
<1> HIDE DEF Placed
<1>5. \A u \in UserIds : Exists(u)' => Placed(u)'
  BY <1>4
<1> DEFINE Owned(o) == \E d \in Domains : owner[d] = o
           Held(o) == \E k \in At(Creating) : job[k].org = o
<1>6. \A o \in OrgIds : Owned(o) => Owned(o)'
  BY OrganizationsAssumption DEF RowsKept
<1>7. ASSUME NEW o \in OrgIds, o \in org, o \notin torn, NEW k \in Handlers \ {h}, job[k].at \in Creating, job[k].org = o
      PROVE  Held(o)'
  BY <1>7 DEF Others, At
<1>8. \A o \in org \ torn : Owned(o) \/ Held(o)
  BY DEF OneOrganization, Creating
<1> DEFINE Goal == \A o \in org' \ torn' : Owned(o)' \/ Held(o)'
<1>9. ASSUME org' \subseteq org, torn \subseteq torn', job[h].at \notin Creating PROVE Goal
  <2> SUFFICES ASSUME NEW o \in org', o \notin torn' PROVE Owned(o)' \/ Held(o)'
    OBVIOUS
  <2>1. o \in OrgIds /\ o \in org /\ o \notin torn
    BY <1>9 DEF Typed
  <2>2. CASE Owned(o)
    BY <2>1, <2>2, <1>6
  <2>3. ASSUME NEW k \in At(Creating), job[k].org = o PROVE Held(o)'
    <3>1. k \in Handlers \ {h} /\ job[k].at \in Creating
      BY <1>9 DEF At
    <3> QED
      BY <2>1, <2>3, <3>1, <1>7
  <2> QED
    BY <1>8, <2>1, <2>2, <2>3
<1> HIDE DEF Goal
<1>10. Goal
<2>1. ASSUME NEW e \in Emails, LoginStart(h, e) PROVE Goal
  BY <2>1, <1>9 DEF LoginStart, Creating, LoginStages, AdminStages, ProofStages, PolicyStages, Idle, accounts, settings, SameHistory
<2>2. CASE FindOrg(h)
  BY <2>2, <1>9 DEF FindOrg, Creating, LoginStages, AdminStages, ProofStages, PolicyStages, Idle, accounts, settings, SameHistory
<2>3. ASSUME NEW o \in OrgIds, InsertOrg(h, o) PROVE Goal
  <3>1. job'[h].at = "insertDomain" /\ job'[h].org = o /\ job[h].at \notin Creating /\ torn' = torn /\ org' = org \union {o}
    BY <2>3 DEF InsertOrg, JobsTyped, Job, Creating, SameHistory
  <3> SUFFICES ASSUME NEW p \in org', p \notin torn' PROVE Owned(p)' \/ Held(p)'
    BY DEF Goal
  <3>0. p \in OrgIds
    BY DEF Typed
  <3>2. CASE p = o
    BY <3>1, <3>2 DEF At, Creating
  <3>3. CASE p # o /\ Owned(p)
    BY <3>0, <3>3, <1>6
  <3>4. ASSUME p # o, NEW k \in At(Creating), job[k].org = p PROVE Held(p)'
    <4>1. k \in Handlers \ {h} /\ job[k].at \in Creating
      BY <3>1 DEF At
    <4> QED
      BY <3>0, <3>1, <3>4, <4>1, <1>7
  <3> QED
    BY <3>1, <3>2, <3>3, <3>4, <1>8
<2>4. CASE InsertDomain(h)
  <3>1. org' \subseteq org /\ torn' = torn /\ job'[h].at = "findAgain" /\ job'[h].org = job[h].org
    BY <2>4 DEF InsertDomain, Goes, JobsTyped, Job, SameHistory
  <3> SUFFICES ASSUME NEW p \in org', p \notin torn' PROVE Owned(p)' \/ Held(p)'
    BY DEF Goal
  <3>0. p \in OrgIds /\ p \in org /\ p \notin torn
    BY <3>1 DEF Typed
  <3>2. CASE Owned(p)
    BY <3>0, <3>2, <1>6
  <3>3. ASSUME NEW k \in At(Creating), job[k].org = p, k # h PROVE Held(p)'
    <4>1. k \in Handlers \ {h} /\ job[k].at \in Creating
      BY <3>3 DEF At
    <4> QED
      BY <3>0, <3>3, <4>1, <1>7
  <3>4. ASSUME job[h].at \in Creating, job[h].org = p PROVE Owned(p)' \/ Held(p)'
    BY <3>1, <3>4 DEF At, Creating
  <3> QED
    BY <3>0, <3>2, <3>3, <3>4, <1>8 DEF At
<2>5. CASE FindAgain(h)
  <3>1. org' \subseteq org /\ torn' = torn /\ job'[h].org = job[h].org
        /\ job[h].at = "findAgain"
        /\ (job'[h].at = "dropOrg" \/ HomeOf(job[h].email) = job[h].org)
    BY <2>5 DEF FindAgain, Goes, JobsTyped, Job, SameHistory, accounts
  <3> SUFFICES ASSUME NEW p \in org', p \notin torn' PROVE Owned(p)' \/ Held(p)'
    BY DEF Goal
  <3>0. p \in OrgIds /\ p \in org /\ p \notin torn
    BY <3>1 DEF Typed
  <3>2. CASE Owned(p)
    BY <3>0, <3>2, <1>6
  <3>3. ASSUME NEW k \in At(Creating), job[k].org = p, k # h PROVE Held(p)'
    <4>1. k \in Handlers \ {h} /\ job[k].at \in Creating
      BY <3>3 DEF At
    <4> QED
      BY <3>0, <3>3, <4>1, <1>7
  <3>4. ASSUME job[h].at \in Creating, job[h].org = p PROVE Owned(p)' \/ Held(p)'
    <4>1. CASE job'[h].at = "dropOrg"
      BY <3>1, <3>4, <4>1 DEF At, Creating
    <4>2. CASE HomeOf(job[h].email) = job[h].org
      <5>1. job[h].email \in Emails /\ HomeOf(job[h].email) # None
        BY <3>1 DEF JobsTyped, At, Knows, LoginStages
      <5>2. Owned(p)
        BY <3>4, <4>2, <5>1, OrganizationsAssumption DEF HomeOf
      <5> QED
        BY <3>0, <5>2, <1>6
    <4> QED
      BY <3>1, <4>1, <4>2
  <3> QED
    BY <3>0, <3>2, <3>3, <3>4, <1>8 DEF At
<2>6. CASE DropOrg(h)
  <3>1. org' \subseteq org /\ torn' = torn /\ (job[h].org \in org' => \/ \E d \in Domains : owner[d] = job[h].org
                                                \/ \E u \in UserIds : Exists(u) /\ user[u].org = job[h].org)
    BY <2>6 DEF DropOrg, Typed
  <3> SUFFICES ASSUME NEW p \in org', p \notin torn' PROVE Owned(p)' \/ Held(p)'
    BY DEF Goal
  <3>0. p \in OrgIds /\ p \in org /\ p \notin torn
    BY <3>1 DEF Typed
  <3>2. CASE Owned(p)
    BY <3>0, <3>2, <1>6
  <3>3. ASSUME NEW k \in At(Creating), job[k].org = p, k # h PROVE Held(p)'
    <4>1. k \in Handlers \ {h} /\ job[k].at \in Creating
      BY <3>3 DEF At
    <4> QED
      BY <3>0, <3>3, <4>1, <1>7
  <3>4. ASSUME job[h].at \in Creating, job[h].org = p PROVE Owned(p)' \/ Held(p)'
    <4>1. CASE Owned(p)
      BY <3>0, <4>1, <1>6
    <4>2. ASSUME NEW u \in UserIds, Exists(u), user[u].org = p PROVE Owned(p)
      <5>1. p = HomeOf(user[u].email) /\ p # None /\ user[u].email \in Emails
        BY <1>1, <1>3, <3>0, <4>2, OrganizationsAssumption DEF Placed, User
      <5> QED
        BY <5>1, OrganizationsAssumption DEF HomeOf
    <4> QED
      BY <3>1, <3>4, <4>1, <4>2
  <3> QED
    BY <3>0, <3>2, <3>3, <3>4, <1>8 DEF At
<2>7. CASE FindUser(h)
  BY <2>7, <1>9 DEF FindUser, Creating, LoginStages, AdminStages, ProofStages, PolicyStages, Idle, accounts, settings, SameHistory
<2>8. ASSUME NEW u \in UserIds, InsertUser(h, u) PROVE Goal
  BY <2>8, <1>9 DEF InsertUser, Creating, LoginStages, AdminStages, ProofStages, PolicyStages, Idle, accounts, settings, SameHistory
<2>9. CASE UpdateUser(h)
  BY <2>9, <1>9 DEF UpdateUser, Creating, LoginStages, AdminStages, ProofStages, PolicyStages, Idle, accounts, settings, SameHistory
<2>10. ASSUME NEW a \in UserIds, NEW t \in UserIds, NEW kind \in {"suspend", "unsuspend", "delete"}, AdminStart(h, a, kind, t) PROVE Goal
  BY <2>10, <1>9 DEF AdminStart, Creating, LoginStages, AdminStages, ProofStages, PolicyStages, Idle, accounts, settings, SameHistory
<2>11. CASE Target(h)
  BY <2>11, <1>9 DEF Target, Creating, LoginStages, AdminStages, ProofStages, PolicyStages, Idle, accounts, settings, SameHistory
<2>12. CASE SetUserSuspended(h)
  BY <2>12, <1>9 DEF SetUserSuspended, Creating, LoginStages, AdminStages, ProofStages, PolicyStages, Idle, accounts, settings, SameHistory
<2>13. CASE DropUser(h)
  BY <2>13, <1>9 DEF DropUser, Creating, LoginStages, AdminStages, ProofStages, PolicyStages, Idle, accounts, settings, SameHistory
<2>14. ASSUME NEW a \in UserIds, NEW enforce \in BOOLEAN, NEW addresses \in SUBSET Addresses, PolicyStart(h, a, enforce, addresses) PROVE Goal
  BY <2>14, <1>9 DEF PolicyStart, Creating, LoginStages, AdminStages, ProofStages, PolicyStages, Idle, accounts, settings, SameHistory
<2>15. CASE SavePolicy(h)
  BY <2>15, <1>9 DEF SavePolicy, Creating, LoginStages, AdminStages, ProofStages, PolicyStages, Idle, accounts, settings, SameHistory
<2>16. CASE ClearRules(h)
  BY <2>16, <1>9 DEF ClearRules, Creating, LoginStages, AdminStages, ProofStages, PolicyStages, Idle, accounts, settings, SameHistory
<2>17. CASE AddRule(h)
  BY <2>17, <1>9 DEF AddRule, Creating, LoginStages, AdminStages, ProofStages, PolicyStages, Idle, accounts, settings, SameHistory
<2>18. CASE PolicySaved(h)
  <3>1. /\ org' = org /\ torn \ {job[h].org} \subseteq torn'
        /\ job[h].at \notin Creating
        /\ \E d \in Domains : owner[d] = job[h].org
    BY <2>18 DEF PolicySaved, Creating, Knows, PolicyStages, accounts
  <3> SUFFICES ASSUME NEW p \in org', p \notin torn' PROVE Owned(p)' \/ Held(p)'
    BY DEF Goal
  <3>0. p \in OrgIds /\ p \in org /\ (p \notin torn \/ p = job[h].org)
    BY <3>1 DEF Typed
  <3>2. CASE Owned(p)
    BY <3>0, <3>2, <1>6
  <3>3. ASSUME p \notin torn, NEW k \in At(Creating), job[k].org = p PROVE Held(p)'
    <4>1. k \in Handlers \ {h} /\ job[k].at \in Creating
      BY <3>1 DEF At
    <4> QED
      BY <3>0, <3>3, <4>1, <1>7
  <3> QED
    BY <3>0, <3>1, <3>2, <3>3, <1>8
<2>19. ASSUME NEW a \in UserIds, NEW kind \in {"view", "validate"}, ProofStart(h, a, kind) PROVE Goal
  BY <2>19, <1>9 DEF ProofStart, Creating, LoginStages, AdminStages, ProofStages, PolicyStages, Idle, accounts, settings, SameHistory
<2>20. ASSUME NEW a \in UserIds, ShellStart(h, a) PROVE Goal
  BY <2>20, <1>9 DEF ShellStart, Creating, LoginStages, AdminStages, ProofStages, PolicyStages, Idle, accounts, settings, SameHistory
<2>21. CASE Access(h)
  BY <2>21, <1>9 DEF Access, Creating, LoginStages, AdminStages, ProofStages, PolicyStages, Idle, accounts, settings, SameHistory
<2>22. CASE OwnProof(h)
  BY <2>22, <1>9 DEF OwnProof, Creating, LoginStages, AdminStages, ProofStages, PolicyStages, Idle, accounts, settings, SameHistory
<2>23. CASE Ensure(h)
  BY <2>23, <1>9 DEF Ensure, Creating, LoginStages, AdminStages, ProofStages, PolicyStages, Idle, accounts, settings, SameHistory
<2>24. CASE SaveProof(h)
  BY <2>24, <1>9 DEF SaveProof, Creating, LoginStages, AdminStages, ProofStages, PolicyStages, Idle, accounts, settings, SameHistory
<2>25. CASE Lookup(h)
  BY <2>25, <1>9 DEF Lookup, Creating, LoginStages, AdminStages, ProofStages, PolicyStages, Idle, accounts, settings, SameHistory
<2>26. CASE Verify(h)
  BY <2>26, <1>9 DEF Verify, Creating, LoginStages, AdminStages, ProofStages, PolicyStages, Idle, accounts, settings, SameHistory
<2> QED
  BY <2>1, <2>2, <2>3, <2>4, <2>5, <2>6, <2>7, <2>8, <2>9, <2>10, <2>11, <2>12, <2>13, <2>14, <2>15, <2>16, <2>17, <2>18, <2>19, <2>20, <2>21, <2>22, <2>23, <2>24, <2>25, <2>26 DEF Step, Login, Administer, SetPolicy, Prove
<1> QED
  BY <1>5, <1>10 DEF Goal, OneOrganization, Placed, Creating
-----------------------------------------------------------------------------
LEMMA AccountsInit == Init => Accounts
<1> SUFFICES ASSUME Init PROVE Accounts
  OBVIOUS
<1> USE DEF Init
<1>1. Typed
  BY DEF Typed, OrgOrNone
<1>2. JobsTyped
  BY IdleFits DEF JobsTyped, At, Fits
<1>3. LoginsInv
  BY DEF LoginsInv, Knows, At, Idle, Creating, Resolved, PolicyStages
<1>4. RowsInv /\ DeletedStayDeleted /\ OneOrganization
  BY DEF RowsInv, DeletedStayDeleted, OneOrganization, Exists
<1> QED
  BY <1>1, <1>2, <1>3, <1>4 DEF Accounts

LEMMA AccountsStop == Accounts /\ Stop => Accounts'
<1> SUFFICES ASSUME Accounts, Stop PROVE Accounts'
  OBVIOUS
<1> Typed /\ JobsTyped /\ LoginsInv /\ RowsInv /\ OneOrganization /\ DeletedStayDeleted
  BY DEF Accounts
<1>1. UNCHANGED <<org, owner, proof, enforced, rules, gone, proved>>
  BY DEF Stop, settings
<1>2. \A h \in Handlers : job'[h] = Idle
  BY DEF Stop
<1>3. ASSUME NEW u \in UserIds, Exists(u)
      PROVE  /\ user[u] \in User /\ user'[u] \in User /\ Exists(u)'
             /\ user'[u] = [user[u] EXCEPT !.org = HomeOf(user[u].email)]
             /\ user'[u].email = user[u].email /\ user'[u].org = HomeOf(user[u].email)
  <2>1. user[u] \in User
    BY <1>3 DEF Typed, Exists
  <2>2. HomeOf(user[u].email) \in OrgOrNone
    BY <2>1, HomeTyped DEF Typed, User
  <2>3. user'[u] = [user[u] EXCEPT !.org = HomeOf(user[u].email)]
    BY <1>3 DEF Stop
  <2>4. user'[u] \in User /\ user'[u].email = user[u].email /\ user'[u].org = HomeOf(user[u].email)
    BY <2>1, <2>2, <2>3 DEF User
  <2> QED
    BY <2>1, <2>3, <2>4, RowsAssumption DEF Exists
<1>4. \A u \in UserIds : ~Exists(u) => user'[u] = None
  BY DEF Stop
<1>5. Typed'
  <2>1. user' \in [UserIds -> User \union {None}]
    BY <1>3, <1>4 DEF Stop
  <2>2. torn' \in SUBSET OrgIds
    <3>1. {job[h].org : h \in At({"clearRules", "addRules"})} \subseteq OrgIds
      BY DEF JobsTyped, At, PolicyStages
    <3>2. {o \in org : \A d \in Domains : owner[d] # o} \subseteq OrgIds
      BY DEF Typed
    <3> QED
      BY <3>1, <3>2 DEF Stop, Typed
  <2> QED
    BY <1>1, <2>1, <2>2 DEF Typed
<1>6. JobsTyped'
  <2>1. job' \in [Handlers -> Job]
    BY IdleFits DEF Stop
  <2> QED
    BY <1>2, <2>1, IdleFits DEF JobsTyped, At, LoginStages, AdminStages, ProofStages, PolicyStages, Creating
<1>7. LoginsInv'
  BY <1>2 DEF LoginsInv, Knows, At, Idle, Creating, Resolved, PolicyStages
<1>8. RowsInv'
  <2>1. ASSUME NEW u \in UserIds, Exists(u)' PROVE user'[u].admin <=> user'[u].email \in AdminEmails
    <3>1. Exists(u)
      BY <1>4, <2>1 DEF Exists
    <3>2. user'[u].admin = user[u].admin /\ user'[u].email = user[u].email
      BY <1>3, <3>1 DEF User
    <3>3. user[u].admin <=> user[u].email \in AdminEmails
      BY <3>1 DEF RowsInv
    <3> QED
      BY <3>2, <3>3, Zenon
  <2> QED
    BY <1>1, <1>3, <2>1 DEF RowsInv
<1>9. OneOrganization'
  <2>1. ASSUME NEW u \in UserIds, Exists(u)'
        PROVE  /\ user'[u].org = HomeOf(user[u].email)'
               /\ DomainOf[user'[u].email] # None => user'[u].org # None
    <3>1. Exists(u)
      BY <1>4, <2>1 DEF Exists
    <3>3. user'[u].email = user[u].email /\ user'[u].org = HomeOf(user[u].email)
      BY <1>3, <3>1
    <3>4. /\ user[u].org = HomeOf(user[u].email)
          /\ DomainOf[user[u].email] # None => user[u].org # None
      BY <3>1 DEF OneOrganization
    <3>2. HomeOf(user[u].email)' = HomeOf(user[u].email)
      BY <1>1, <3>3 DEF HomeOf
    <3> QED
      BY <3>2, <3>3, <3>4
  <2>2. ASSUME NEW o \in org', o \notin torn' PROVE \E d \in Domains : owner'[d] = o
    BY <1>1, <2>2 DEF Stop
  <2> QED
    BY <2>1, <2>2 DEF OneOrganization
<1>10. DeletedStayDeleted'
  BY <1>1, <1>4 DEF DeletedStayDeleted, Exists
<1> QED
  BY <1>5, <1>6, <1>7, <1>8, <1>9, <1>10 DEF Accounts

LEMMA AccountsStutter == Accounts /\ UNCHANGED vars => Accounts'
  BY DEF vars, accounts, settings, history, Accounts, Typed, JobsTyped, LoginsInv, Knows, RowsInv,
     OneOrganization, DeletedStayDeleted, At, Exists, HomeOf

THEOREM AccountsInductive == Spec => []Accounts
<1>1. ASSUME Accounts, NEW h \in Handlers, Step(h) PROVE Accounts'
  BY <1>1, RowStep, JobStep, LoginsStep, RowsStep, OneOrganizationStep DEF Accounts
<1>2. Accounts /\ [Next]_vars => Accounts'
  BY <1>1, AccountsStop, AccountsStutter DEF Next, Step
<1> QED
  BY <1>2, AccountsInit, PTL DEF Spec

(* The states are well typed and the foreign keys between the tables hold.   *)
THEOREM OrganizationsTypeCorrect == Spec => []TypeOK
<1> DEFINE Kept == met \in SUBSET Topics /\ staffed \in SUBSET OrgOrNone
<1>1. Init => Kept
  BY DEF Init
<1>2. Kept /\ [Next]_vars => Kept'
  BY DEF Next, Observe, vars, history
<1>3. Accounts /\ Kept => TypeOK
  <2> SUFFICES ASSUME Accounts, Kept PROVE TypeOK
    OBVIOUS
  <2>1. \A d \in Domains : owner[d] \in org \union {None}
    BY DEF Accounts, RowsInv
  <2>2. ASSUME NEW u \in UserIds, Exists(u) PROVE user[u].org \in org \union {None}
    <3>1. user[u].email \in Emails /\ user[u].org = HomeOf(user[u].email)
      BY <2>2 DEF Accounts, Typed, OneOrganization, Exists, User
    <3> QED
      BY <2>1, <3>1, OrganizationsAssumption DEF HomeOf
  <2> QED
    BY <2>1, <2>2 DEF Accounts, Typed, JobsTyped, RowsInv, TypeOK, Exists
<1> QED
  BY <1>1, <1>2, <1>3, AccountsInductive, PTL DEF Spec

(* However the first logins of a domain overlap or stop, every user is in    *)
(* the organization that owns his domain, and one that owns no domain is in  *)
(* the hands of a login or was left by one that stopped.                     *)
THEOREM OneOrganizationHolds == Spec => []OneOrganization
<1>1. Accounts => OneOrganization
  BY DEF Accounts
<1> QED
  BY <1>1, AccountsInductive, PTL

(* Nothing that was running brings a deleted user back.                      *)
THEOREM DeletedStayDeletedHolds == Spec => []DeletedStayDeleted
<1>1. Accounts => DeletedStayDeleted
  BY DEF Accounts
<1> QED
  BY <1>1, AccountsInductive, PTL
-----------------------------------------------------------------------------
(* What overlaps is noted by the step that makes it overlap, and forgotten   *)
(* by the one that ends the last request about it.                           *)
LEMMA MetStep == Observe => MetInv'
  BY DEF Observe, MetInv, Several, Running

LEMMA Unmet ==
  ASSUME MetInv, Observe, NEW t \in Topics, t \notin met', Running(t)'
  PROVE  t \notin met /\ ~Several(t) /\ ~Several(t)'
  BY DEF Observe, MetInv

(* A user stays in his organization.                                         *)
LEMMA OrgStays ==
  ASSUME Accounts, NEW h \in Handlers, Step(h), NEW u \in UserIds, Exists(u), Exists(u)'
  PROVE  user'[u].org = user[u].org /\ user'[u].email = user[u].email
<1>1. user'[u].email = user[u].email /\ user[u].email \in Emails
  BY RowsLeft DEF RowsKept, Accounts, Typed, Exists, User
<1>2. /\ user[u].org = HomeOf(user[u].email)
      /\ DomainOf[user[u].email] # None => user[u].org # None
  BY DEF Accounts, OneOrganization
<1>3. user'[u].org = HomeOf(user[u].email)'
  BY OneOrganizationStep, <1>1 DEF OneOrganization, HomeOf
<1>4. HomeOf(user[u].email)' = HomeOf(user[u].email)
  BY <1>1, <1>2, RowsLeft, OrganizationsAssumption DEF RowsKept, HomeOf
<1> QED
  BY <1>1, <1>2, <1>3, <1>4

(* Only a suspension or deletion of himself ends an administrator.           *)
LEMMA StaysAdmin ==
  ASSUME Accounts, NEW h \in Handlers, Step(h), NEW u \in UserIds, NEW o, ActiveAdmin(u, o),
         ~(job[h].at \in {"suspend", "dropUser"} /\ job[h].user = u)
  PROVE  ActiveAdmin(u, o)'
<1> Typed /\ JobsTyped /\ RowsInv /\ DeletedStayDeleted
  BY DEF Accounts
<1>1. Exists(u) /\ user[u] \in User /\ user[u].by = None
  BY DEF ActiveAdmin, Exists, Typed
<1> DEFINE Goal == Exists(u)' /\ user'[u].by = None
<1> HIDE DEF Goal
<1>2. Goal
  <2>1. ASSUME NEW v \in UserIds, InsertUser(h, v) PROVE Goal
    <3>1. v # u
      BY <1>1, <2>1 DEF InsertUser
    <3> QED
      BY <1>1, <2>1, <3>1 DEF InsertUser, Typed, Exists, Goal
  <2>2. CASE UpdateUser(h)
    <3>1. /\ job[h].user \in UserIds /\ job[h].org \in OrgOrNone
          /\ (job[h].email \in AdminEmails) \in BOOLEAN
      BY <2>2 DEF UpdateUser, JobsTyped, At, Job
    <3>2. CASE u = job[h].user
      <4>1. user'[u] = [user[u] EXCEPT !.org = job[h].org, !.admin = job[h].email \in AdminEmails]
        BY <1>1, <2>2, <3>1, <3>2 DEF UpdateUser, Typed, Exists
      <4>2. user'[u] \in User /\ user'[u].by = user[u].by
        BY <1>1, <3>1, <4>1 DEF User
      <4> QED
        BY <1>1, <4>2, RowsAssumption DEF Goal, Exists
    <3>3. CASE u # job[h].user
      BY <1>1, <2>2, <3>1, <3>3 DEF UpdateUser, Typed, Exists, Goal
    <3> QED
      BY <3>2, <3>3
  <2>3. CASE SetUserSuspended(h)
    <3>1. job[h].user \in UserIds /\ job[h].at \in {"suspend", "unsuspend"}
      BY <2>3 DEF SetUserSuspended, JobsTyped, At, AdminStages
    <3>2. CASE u = job[h].user
      <4>1. job[h].at = "unsuspend"
        BY <3>1, <3>2
      <4>2. user'[u] = [user[u] EXCEPT !.by = None]
        BY <1>1, <2>3, <3>1, <3>2, <4>1 DEF SetUserSuspended, Typed
      <4>3. user'[u] \in User /\ user'[u].by = None
        BY <1>1, <4>2 DEF User
      <4> QED
        BY <4>3, RowsAssumption DEF Goal, Exists
    <3>3. CASE u # job[h].user
      BY <1>1, <2>3, <3>1, <3>3 DEF SetUserSuspended, Typed, Exists, Goal
    <3> QED
      BY <3>2, <3>3
  <2>4. CASE DropUser(h)
    BY <1>1, <2>4 DEF DropUser, Typed, Exists, Goal, JobsTyped, At
  <2>5. CASE UNCHANGED user
    BY <1>1, <2>5 DEF Goal, Exists
  <2> QED
    BY <2>1, <2>2, <2>3, <2>4, <2>5 DEF Step, Login, Administer, SetPolicy, Prove, LoginStart, FindOrg,
       InsertOrg, InsertDomain, FindAgain, DropOrg, FindUser, AdminStart, Target, PolicyStart, SavePolicy,
       ClearRules, AddRule, PolicySaved, ProofStart, ShellStart, Access, OwnProof, Ensure, SaveProof,
       Lookup, Verify, accounts
<1>3. user'[u].org = user[u].org /\ user'[u].email = user[u].email
  BY <1>1, <1>2, OrgStays DEF Goal
<1>4. user[u].admin <=> user[u].email \in AdminEmails
  BY <1>1 DEF RowsInv
<1>5. user'[u].admin <=> user'[u].email \in AdminEmails
  BY <1>2, RowsStep DEF RowsInv, Goal
<1>6. user[u].admin /\ user[u].org = o
  BY DEF ActiveAdmin
<1>7. user'[u].admin
  BY <1>3, <1>4, <1>5, <1>6
<1> QED
  BY <1>2, <1>3, <1>6, <1>7 DEF Goal, ActiveAdmin, Exists

(* A request that reaches a stage of an administrator has just begun or went *)
(* on from one.                                                              *)
LEMMA AdminStagesFrom ==
  ASSUME Accounts, NEW h \in Handlers, Step(h), job'[h].at \in AdminStages
  PROVE  /\ UNCHANGED user
         /\ \/ /\ job'[h].at = "target"
               /\ IsAdmin(job'[h].actor) /\ job'[h].org = user[job'[h].actor].org
            \/ /\ job[h].at = "target" /\ job'[h].at \in Acting
               /\ job'[h].actor = job[h].actor /\ job'[h].org = job[h].org
               /\ job'[h].user = job[h].user
               /\ Exists(job[h].user) /\ user[job[h].user].org = job[h].org
               /\ job'[h].at # "unsuspend" => job[h].user # job[h].actor
<1> Typed /\ JobsTyped
  BY DEF Accounts
<1> DEFINE Goal == /\ UNCHANGED user
                   /\ \/ /\ job'[h].at = "target"
                         /\ IsAdmin(job'[h].actor) /\ job'[h].org = user[job'[h].actor].org
                      \/ /\ job[h].at = "target" /\ job'[h].at \in Acting
                         /\ job'[h].actor = job[h].actor /\ job'[h].org = job[h].org
                         /\ job'[h].user = job[h].user
                         /\ Exists(job[h].user) /\ user[job[h].user].org = job[h].org
                         /\ job'[h].at # "unsuspend" => job[h].user # job[h].actor
<1> HIDE DEF Goal
<1>1. ASSUME NEW e \in Emails, LoginStart(h, e) PROVE Goal
  BY <1>1 DEF LoginStart, Goes, Ends, AfterEnsure, JobsTyped, Job, Idle, AdminStages, PolicyStages
<1>2. CASE FindOrg(h)
  BY <1>2 DEF FindOrg, Goes, Ends, AfterEnsure, JobsTyped, Job, Idle, AdminStages, PolicyStages
<1>3. ASSUME NEW o \in OrgIds, InsertOrg(h, o) PROVE Goal
  BY <1>3 DEF InsertOrg, Goes, Ends, AfterEnsure, JobsTyped, Job, Idle, AdminStages, PolicyStages
<1>4. CASE InsertDomain(h)
  BY <1>4 DEF InsertDomain, Goes, Ends, AfterEnsure, JobsTyped, Job, Idle, AdminStages, PolicyStages
<1>5. CASE FindAgain(h)
  BY <1>5 DEF FindAgain, Goes, Ends, AfterEnsure, JobsTyped, Job, Idle, AdminStages, PolicyStages
<1>6. CASE DropOrg(h)
  BY <1>6 DEF DropOrg, Goes, Ends, AfterEnsure, JobsTyped, Job, Idle, AdminStages, PolicyStages
<1>7. CASE FindUser(h)
  <2>1. job[h].at \notin AdminStages /\ (job'[h].at = "insertUser" \/ job'[h].at = "updateUser")
    BY <1>7 DEF FindUser, Goes, JobsTyped, Job, AdminStages
  <2> QED
    BY <2>1 DEF AdminStages
<1>8. ASSUME NEW u \in UserIds, InsertUser(h, u) PROVE Goal
  BY <1>8 DEF InsertUser, Goes, Ends, AfterEnsure, JobsTyped, Job, Idle, AdminStages, PolicyStages
<1>9. CASE UpdateUser(h)
  BY <1>9 DEF UpdateUser, Goes, Ends, AfterEnsure, JobsTyped, Job, Idle, AdminStages, PolicyStages
<1>10. ASSUME NEW a \in UserIds, NEW t \in UserIds, NEW kind \in {"suspend", "unsuspend", "delete"}, AdminStart(h, a, kind, t) PROVE Goal
  BY <1>10 DEF AdminStart, Goal, JobsTyped, Idle, accounts
<1>11. CASE Target(h)
  <2>1. job[h].kind \in {"suspend", "unsuspend", "delete"} /\ job[h].at = "target"
    BY <1>11 DEF Target, JobsTyped, At
  <2>2. ~Ends(h)
    BY DEF Ends, Idle, JobsTyped, AdminStages
  <2>3. /\ Exists(job[h].user) /\ user[job[h].user].org = job[h].org
        /\ job[h].kind \in {"suspend", "delete"} => job[h].user # job[h].actor
        /\ Goes(h, IF job[h].kind = "delete" THEN "dropUser" ELSE job[h].kind)
    BY <1>11, <2>2 DEF Target
  <2>4. /\ job'[h].at = IF job[h].kind = "delete" THEN "dropUser" ELSE job[h].kind
        /\ job'[h].actor = job[h].actor /\ job'[h].org = job[h].org
        /\ job'[h].user = job[h].user
    BY <2>3 DEF Goes, JobsTyped, Job
  <2>5. UNCHANGED user
    BY <1>11 DEF Target, accounts
  <2> QED
    BY <2>1, <2>3, <2>4, <2>5 DEF Goal, Acting
<1>12. CASE SetUserSuspended(h)
  BY <1>12 DEF SetUserSuspended, Goes, Ends, AfterEnsure, JobsTyped, Job, Idle, AdminStages, PolicyStages
<1>13. CASE DropUser(h)
  BY <1>13 DEF DropUser, Goes, Ends, AfterEnsure, JobsTyped, Job, Idle, AdminStages, PolicyStages
<1>14. ASSUME NEW a \in UserIds, NEW enforce \in BOOLEAN, NEW addresses \in SUBSET Addresses, PolicyStart(h, a, enforce, addresses) PROVE Goal
  BY <1>14 DEF PolicyStart, Goes, Ends, AfterEnsure, JobsTyped, Job, Idle, AdminStages, PolicyStages
<1>15. CASE SavePolicy(h)
  BY <1>15 DEF SavePolicy, Goes, Ends, AfterEnsure, JobsTyped, Job, Idle, AdminStages, PolicyStages
<1>16. CASE ClearRules(h)
  BY <1>16 DEF ClearRules, Goes, Ends, AfterEnsure, JobsTyped, Job, Idle, AdminStages, PolicyStages
<1>17. CASE AddRule(h)
  BY <1>17 DEF AddRule, Goes, Ends, AfterEnsure, JobsTyped, Job, Idle, AdminStages, PolicyStages
<1>18. CASE PolicySaved(h)
  BY <1>18 DEF PolicySaved, Goes, Ends, AfterEnsure, JobsTyped, Job, Idle, AdminStages, PolicyStages
<1>19. ASSUME NEW a \in UserIds, NEW kind \in {"view", "validate"}, ProofStart(h, a, kind) PROVE Goal
  BY <1>19 DEF ProofStart, Goes, Ends, AfterEnsure, JobsTyped, Job, Idle, AdminStages, PolicyStages
<1>20. ASSUME NEW a \in UserIds, ShellStart(h, a) PROVE Goal
  BY <1>20 DEF ShellStart, Goes, Ends, AfterEnsure, JobsTyped, Job, Idle, AdminStages, PolicyStages
<1>21. CASE Access(h)
  BY <1>21 DEF Access, Goes, Ends, AfterEnsure, JobsTyped, Job, Idle, AdminStages, PolicyStages
<1>22. CASE OwnProof(h)
  BY <1>22 DEF OwnProof, Goes, Ends, AfterEnsure, JobsTyped, Job, Idle, AdminStages, PolicyStages
<1>23. CASE Ensure(h)
  BY <1>23 DEF Ensure, Goes, Ends, AfterEnsure, JobsTyped, Job, Idle, AdminStages, PolicyStages
<1>24. CASE SaveProof(h)
  BY <1>24 DEF SaveProof, Goes, Ends, AfterEnsure, JobsTyped, Job, Idle, AdminStages, PolicyStages
<1>25. CASE Lookup(h)
  BY <1>25 DEF Lookup, Goes, Ends, AfterEnsure, JobsTyped, Job, Idle, AdminStages, PolicyStages
<1>26. CASE Verify(h)
  BY <1>26 DEF Verify, Goes, Ends, AfterEnsure, JobsTyped, Job, Idle, AdminStages, PolicyStages
<1> QED
  BY <1>1, <1>2, <1>3, <1>4, <1>5, <1>6, <1>7, <1>8, <1>9, <1>10, <1>11, <1>12, <1>13, <1>14, <1>15, <1>16, <1>17, <1>18, <1>19, <1>20, <1>21, <1>22, <1>23, <1>24, <1>25, <1>26 DEF Goal, Step, Login, Administer, SetPolicy, Prove

LEMMA AdminsStep ==
  ASSUME Accounts, MetInv, AdminsInv, NEW h \in Handlers, Step(h), Observe
  PROVE  AdminsInv'
<1> Typed /\ JobsTyped /\ JobsTyped' /\ Typed' /\ Others(h)
  BY JobStep, RowStep DEF Accounts
<1>1. ASSUME NEW k \in Handlers, NEW a, NEW o, job'[k].at \in AdminStages,
             job'[k].actor = a, job'[k].org = o, <<"admin", o>> \notin met'
      PROVE  ActiveAdmin(a, o)'
  <2>1. PICK t \in Topics : t = <<"admin", o>>
    BY <1>1 DEF JobsTyped, Job, Topics
  <2>0. a \in UserIds
    BY <1>1 DEF JobsTyped, At
  <2>2. Running(t)'
    BY <1>1, <2>1 DEF Running, About
  <2>3. t \notin met /\ ~Several(t)
    BY <1>1, <2>1, <2>2, Unmet
  <2>4. CASE k # h
    <3>1. job'[k] = job[k]
      BY <2>4 DEF Others
    <3>2. ActiveAdmin(a, o)
      BY <1>1, <2>1, <2>3, <3>1 DEF AdminsInv, At
    <3>3. ASSUME job[h].at \in {"suspend", "dropUser"}, job[h].user = a PROVE FALSE
      <4>1. user[job[h].user].org = job[h].org
        BY <3>2, <3>3 DEF AdminsInv, At, Acting, ActiveAdmin
      <4>2. job[h].org = o
        BY <3>2, <3>3, <4>1 DEF ActiveAdmin
      <4>3. About(h, t) /\ About(k, t)
        BY <1>1, <2>1, <3>1, <3>3, <4>2 DEF About, AdminStages
      <4> QED
        BY <2>3, <2>4, <4>3 DEF Several
    <3> QED
      BY <2>0, <3>2, <3>3, StaysAdmin
  <2>5. CASE k = h
    <3>1. UNCHANGED user
      BY <1>1, <2>5, AdminStagesFrom
    <3>2. ActiveAdmin(a, o)
      <4>1. CASE IsAdmin(a) /\ o = user[a].org
        BY <4>1 DEF IsAdmin, SignedIn, ActiveAdmin
      <4>2. CASE job[h].at = "target" /\ a = job[h].actor /\ o = job[h].org
        BY <2>1, <2>3, <2>5, <4>2 DEF AdminsInv, At, AdminStages
      <4> QED
        BY <1>1, <2>5, <4>1, <4>2, AdminStagesFrom
    <3> QED
      BY <3>1, <3>2 DEF ActiveAdmin, Exists
  <2> QED
    BY <2>4, <2>5
<1>2. ASSUME NEW k \in Handlers, NEW u, job'[k].at \in Acting, job'[k].user = u
      PROVE  /\ Exists(u)' => user'[u].org = job'[k].org
             /\ Exists(u)' \/ u \in gone'
             /\ job'[k].at # "unsuspend" => u # job'[k].actor
  <2>0. job'[k].at \in AdminStages /\ u \in UserIds
    BY <1>2 DEF Acting, AdminStages, JobsTyped, At
  <2>1. CASE k # h
    <3>1. job'[k] = job[k]
      BY <2>1 DEF Others
    <3>2. /\ Exists(u) => user[u].org = job[k].org
          /\ Exists(u) \/ u \in gone
          /\ job[k].at # "unsuspend" => u # job[k].actor
      BY <1>2, <3>1 DEF AdminsInv, At
    <3>3. /\ Exists(u)' => Exists(u)
          /\ Exists(u)' \/ u \in gone'
      BY <2>0, <3>2, RowsLeft DEF RowsKept
    <3>4. Exists(u)' => user'[u].org = job[k].org
      BY <2>0, <3>2, <3>3, OrgStays
    <3> QED
      BY <3>1, <3>2, <3>3, <3>4
  <2>2. CASE k = h
    <3>1. /\ UNCHANGED user
          /\ job'[h].org = job[h].org /\ job'[h].actor = job[h].actor
          /\ Exists(u) /\ user[u].org = job[h].org
          /\ job'[h].at # "unsuspend" => u # job[h].actor
      BY <1>2, <2>0, <2>2, AdminStagesFrom DEF Acting
    <3> QED
      BY <2>2, <3>1 DEF Exists
  <2> QED
    BY <2>1, <2>2
<1>3. \A o \in staffed' : <<"admin", o>> \notin met'
  BY DEF Observe
<1> QED
  BY <1>1, <1>2, <1>3 DEF AdminsInv, At, ActiveAdmin, Exists

LEMMA AnAdminStep ==
  ASSUME Accounts, MetInv, AdminsInv, AnAdminRemains, NEW h \in Handlers, Step(h), Observe
  PROVE  AnAdminRemains'
<1> Typed /\ JobsTyped
  BY DEF Accounts
<1> SUFFICES ASSUME NEW o \in staffed' PROVE \E u \in UserIds : ActiveAdmin(u, o)'
  BY DEF AnAdminRemains
<1>1. o \in staffed \/ \E u \in UserIds : ActiveAdmin(u, o)'
  BY DEF Observe
<1>2. ASSUME o \in staffed PROVE \E u \in UserIds : ActiveAdmin(u, o)'
  <2>1. PICK u \in UserIds : ActiveAdmin(u, o)
    BY <1>2 DEF AnAdminRemains
  <2>2. <<"admin", o>> \notin met
    BY <1>2 DEF AdminsInv
  <2>3. CASE ~(job[h].at \in {"suspend", "dropUser"} /\ job[h].user = u)
    BY <2>1, <2>3, StaysAdmin
  <2>4. CASE job[h].at \in {"suspend", "dropUser"} /\ job[h].user = u
    <3>1. job[h].org = o /\ job[h].user # job[h].actor
      BY <2>1, <2>4 DEF AdminsInv, At, Acting, ActiveAdmin
    <3>2. ActiveAdmin(job[h].actor, o) /\ job[h].actor \in UserIds
      BY <2>2, <2>4, <3>1 DEF AdminsInv, At, AdminStages, JobsTyped
    <3>3. PICK a \in UserIds : a = job[h].actor
      BY <3>2
    <3>4. ActiveAdmin(a, o)'
      BY <3>1, <3>2, <3>3, StaysAdmin
    <3> QED
      BY <3>4
  <2> QED
    BY <2>3, <2>4
<1> QED
  BY <1>1, <1>2

LEMMA AdminsStop ==
  ASSUME Accounts, AnAdminRemains, Stop, Observe
  PROVE  AdminsInv' /\ AnAdminRemains'
<1> Typed /\ RowsInv
  BY DEF Accounts
<1>1. \A k \in Handlers : job'[k] = Idle
  BY DEF Stop
<1>2. AdminsInv'
  BY <1>1 DEF AdminsInv, At, Idle, AdminStages, Acting, Observe
<1>3. ASSUME NEW u \in UserIds, NEW o, ActiveAdmin(u, o)
      PROVE  ActiveAdmin(u, o)'
  <2>1. Exists(u) /\ user[u] \in User
    BY <1>3 DEF ActiveAdmin, Exists, Typed
  <2>2. user[u].org = HomeOf(user[u].email)
    BY <2>1 DEF Accounts, OneOrganization
  <2>3. user'[u] = [user[u] EXCEPT !.org = user[u].org]
    BY <2>1, <2>2 DEF Stop
  <2>4. user'[u] = user[u]
    BY <2>1, <2>3 DEF User
  <2> QED
    BY <1>3, <2>4 DEF ActiveAdmin, Exists
<1>4. AnAdminRemains'
  BY <1>3 DEF AnAdminRemains, Observe
<1> QED
  BY <1>2, <1>4
-----------------------------------------------------------------------------
(* A request that saves a proof has read what the row says of it.            *)
LEMMA SaveProofFrom ==
  ASSUME Accounts, NEW h \in Handlers, Step(h), job'[h].at = "saveProof"
  PROVE  /\ UNCHANGED <<proof, proved>>
         /\ job'[h].set = Verified(job'[h].actor)
<1> Typed /\ JobsTyped
  BY DEF Accounts
<1> DEFINE Goal == UNCHANGED <<proof, proved>> /\ job'[h].set = Verified(job'[h].actor)
<1> HIDE DEF Goal
<1>1. ASSUME NEW e \in Emails, LoginStart(h, e) PROVE Goal
  BY <1>1 DEF LoginStart, Goes, Ends, AfterEnsure, JobsTyped, Job, Idle
<1>2. CASE FindOrg(h)
  BY <1>2 DEF FindOrg, Goes, Ends, AfterEnsure, JobsTyped, Job, Idle
<1>3. ASSUME NEW o \in OrgIds, InsertOrg(h, o) PROVE Goal
  BY <1>3 DEF InsertOrg, Goes, Ends, AfterEnsure, JobsTyped, Job, Idle
<1>4. CASE InsertDomain(h)
  BY <1>4 DEF InsertDomain, Goes, Ends, AfterEnsure, JobsTyped, Job, Idle
<1>5. CASE FindAgain(h)
  BY <1>5 DEF FindAgain, Goes, Ends, AfterEnsure, JobsTyped, Job, Idle
<1>6. CASE DropOrg(h)
  BY <1>6 DEF DropOrg, Goes, Ends, AfterEnsure, JobsTyped, Job, Idle
<1>7. CASE FindUser(h)
  <2>1. job'[h].at = "insertUser" \/ job'[h].at = "updateUser"
    BY <1>7 DEF FindUser, Goes, JobsTyped, Job
  <2> QED
    BY <2>1
<1>8. ASSUME NEW u \in UserIds, InsertUser(h, u) PROVE Goal
  BY <1>8 DEF InsertUser, Goes, Ends, AfterEnsure, JobsTyped, Job, Idle
<1>9. CASE UpdateUser(h)
  BY <1>9 DEF UpdateUser, Goes, Ends, AfterEnsure, JobsTyped, Job, Idle
<1>10. ASSUME NEW a \in UserIds, NEW t \in UserIds, NEW kind \in {"suspend", "unsuspend", "delete"}, AdminStart(h, a, kind, t) PROVE Goal
  BY <1>10 DEF AdminStart, Goes, Ends, AfterEnsure, JobsTyped, Job, Idle
<1>11. CASE Target(h)
  <2>1. job[h].kind \in {"suspend", "unsuspend", "delete"} /\ job[h].at = "target"
    BY <1>11 DEF Target, JobsTyped, At
  <2> QED
    BY <1>11, <2>1 DEF Target, Goes, Ends, JobsTyped, Job, Idle
<1>12. CASE SetUserSuspended(h)
  BY <1>12 DEF SetUserSuspended, Goes, Ends, AfterEnsure, JobsTyped, Job, Idle
<1>13. CASE DropUser(h)
  BY <1>13 DEF DropUser, Goes, Ends, AfterEnsure, JobsTyped, Job, Idle
<1>14. ASSUME NEW a \in UserIds, NEW enforce \in BOOLEAN, NEW addresses \in SUBSET Addresses, PolicyStart(h, a, enforce, addresses) PROVE Goal
  BY <1>14 DEF PolicyStart, Goes, Ends, AfterEnsure, JobsTyped, Job, Idle
<1>15. CASE SavePolicy(h)
  BY <1>15 DEF SavePolicy, Goes, Ends, AfterEnsure, JobsTyped, Job, Idle
<1>16. CASE ClearRules(h)
  BY <1>16 DEF ClearRules, Goes, Ends, AfterEnsure, JobsTyped, Job, Idle
<1>17. CASE AddRule(h)
  BY <1>17 DEF AddRule, Goes, Ends, AfterEnsure, JobsTyped, Job, Idle
<1>18. CASE PolicySaved(h)
  BY <1>18 DEF PolicySaved, Goes, Ends, AfterEnsure, JobsTyped, Job, Idle
<1>19. ASSUME NEW a \in UserIds, NEW kind \in {"view", "validate"}, ProofStart(h, a, kind) PROVE Goal
  BY <1>19 DEF ProofStart, Goes, Ends, AfterEnsure, JobsTyped, Job, Idle
<1>20. ASSUME NEW a \in UserIds, ShellStart(h, a) PROVE Goal
  BY <1>20 DEF ShellStart, Goes, Ends, AfterEnsure, JobsTyped, Job, Idle
<1>21. CASE Access(h)
  BY <1>21 DEF Access, Goes, Ends, AfterEnsure, JobsTyped, Job, Idle
<1>22. CASE OwnProof(h)
  BY <1>22 DEF OwnProof, Goes, Ends, AfterEnsure, JobsTyped, Job, Idle
<1>23. CASE Ensure(h)
  <2>1. ~AfterEnsure(h)
    BY <1>23 DEF AfterEnsure, Goes, Ends, JobsTyped, Job, Idle
  <2>2. job' = [job EXCEPT ![h].at = "saveProof", ![h].set = Verified(job[h].actor)]
    BY <1>23, <2>1 DEF Ensure
  <2>3. job'[h].set = Verified(job[h].actor) /\ job'[h].actor = job[h].actor
    BY <2>2 DEF JobsTyped, Job
  <2> QED
    BY <1>23, <2>3 DEF Ensure, Goal, SameHistory
<1>24. CASE SaveProof(h)
  BY <1>24 DEF SaveProof, Goes, Ends, AfterEnsure, JobsTyped, Job, Idle
<1>25. CASE Lookup(h)
  BY <1>25 DEF Lookup, Goes, Ends, AfterEnsure, JobsTyped, Job, Idle
<1>26. CASE Verify(h)
  BY <1>26 DEF Verify, Goes, Ends, AfterEnsure, JobsTyped, Job, Idle
<1> QED
  BY <1>1, <1>2, <1>3, <1>4, <1>5, <1>6, <1>7, <1>8, <1>9, <1>10, <1>11, <1>12, <1>13, <1>14, <1>15, <1>16, <1>17, <1>18, <1>19, <1>20, <1>21, <1>22, <1>23, <1>24, <1>25, <1>26 DEF Goal, Step, Login, Administer, SetPolicy, Prove

(* Only the proof of the user of a request changes, and only a verification  *)
(* proves it.                                                                *)
LEMMA ProofsLeft ==
  ASSUME Accounts, NEW h \in Handlers, Step(h), NEW u \in proved', u \in UserIds
  PROVE  \/ u \in proved /\ proof'[u] = proof[u]
         \/ u \in proved /\ SaveProof(h) /\ u = job[h].actor /\ <<"proof", u>> \notin met
         \/ Verify(h) /\ u = job[h].actor /\ Verified(u)'
<1> Typed /\ JobsTyped
  BY DEF Accounts
<1>1. CASE SaveProof(h)
  <2>1. u \in proved /\ (u = job[h].actor => <<"proof", u>> \notin met)
    BY <1>1 DEF SaveProof
  <2>2. u # job[h].actor => proof'[u] = proof[u]
    BY <1>1 DEF SaveProof, Typed
  <2> QED
    BY <1>1, <2>1, <2>2
<1>2. CASE Verify(h)
  <2>1. CASE u = job[h].actor
    <3>1. CASE proof[u] = None
      BY <1>2, <2>1, <3>1 DEF Verify, Typed
    <3>2. CASE proof[u] # None
      <4>1. proof[u] \in Proof /\ proof'[u] = [proof[u] EXCEPT !.verified = TRUE]
        BY <1>2, <2>1, <3>2 DEF Verify, Typed
      <4>2. proof'[u] \in Proof /\ proof'[u].verified
        BY <4>1 DEF Proof
      <4> QED
        BY <1>2, <2>1, <4>2, RowsAssumption DEF Verified
    <3> QED
      BY <3>1, <3>2
  <2>2. CASE u # job[h].actor
    BY <1>2, <2>2 DEF Verify, Typed
  <2> QED
    BY <2>1, <2>2
<1>3. CASE DropUser(h)
  BY <1>3 DEF DropUser, Typed
<1>4. CASE UNCHANGED <<proof, proved>>
  BY <1>4
<1> QED
  BY <1>1, <1>2, <1>3, <1>4 DEF Step, Login, Administer, SetPolicy, Prove, LoginStart, FindOrg,
     InsertOrg, InsertDomain, FindAgain, DropOrg, FindUser, InsertUser, UpdateUser, AdminStart, Target,
     SetUserSuspended, PolicyStart, SavePolicy, ClearRules, AddRule, PolicySaved, ProofStart,
     ShellStart, Access, OwnProof, Ensure, Lookup, SameHistory

LEMMA ProofsStep ==
  ASSUME Accounts, MetInv, ProofsInv, ProofStands, NEW h \in Handlers, Step(h), Observe
  PROVE  ProofsInv' /\ ProofStands'
<1> Typed /\ JobsTyped /\ JobsTyped' /\ Typed' /\ Others(h)
  BY JobStep, RowStep DEF Accounts
<1>1. ASSUME NEW k \in Handlers, NEW a, job'[k].at = "saveProof", job'[k].actor = a,
             <<"proof", a>> \notin met', a \in proved'
      PROVE  job'[k].set
  <2>1. a \in UserIds
    BY <1>1 DEF JobsTyped, At, ProofStages
  <2>2. PICK t \in Topics : t = <<"proof", a>>
    BY <2>1 DEF Topics
  <2>3. Running(t)'
    BY <1>1, <2>2 DEF Running, About, ProofStages
  <2>4. t \notin met /\ ~Several(t)
    BY <1>1, <2>2, <2>3, Unmet
  <2>5. CASE k # h
    <3>1. job'[k] = job[k]
      BY <2>5 DEF Others
    <3>2. CASE a \in proved
      BY <1>1, <2>2, <2>4, <3>1, <3>2 DEF ProofsInv, At
    <3>3. CASE Verify(h) /\ a = job[h].actor
      <4>1. About(h, t) /\ About(k, t)
        BY <1>1, <2>2, <3>1, <3>3 DEF About, Verify, ProofStages
      <4> QED
        BY <2>4, <2>5, <4>1 DEF Several
    <3> QED
      BY <1>1, <2>1, <3>2, <3>3, ProofsLeft
  <2>6. CASE k = h
    <3>1. a \in proved /\ job'[h].set = Verified(a)
      BY <1>1, <2>6, SaveProofFrom
    <3>2. Verified(a)
      BY <3>1 DEF ProofStands
    <3> QED
      BY <2>6, <3>1, <3>2
  <2> QED
    BY <2>5, <2>6
<1>2. ASSUME NEW u \in proved' PROVE Verified(u)'
  <2>1. u \in UserIds
    BY DEF Typed
  <2>2. CASE u \in proved /\ proof'[u] = proof[u]
    BY <2>2 DEF ProofStands, Verified
  <2>3. CASE u \in proved /\ SaveProof(h) /\ u = job[h].actor /\ <<"proof", u>> \notin met
    <3>1. Verified(u) /\ job[h].set
      BY <2>3 DEF ProofStands, ProofsInv, At, SaveProof
    <3>2. Exists(u)
      BY <2>1, <3>1 DEF Accounts, RowsInv, Verified
    <3>3. proof'[u] = [org |-> job[h].org, verified |-> job[h].set]
      BY <2>1, <2>3, <3>2 DEF SaveProof, Typed
    <3>4. proof'[u] \in Proof /\ proof'[u].verified
      BY <3>1, <3>3 DEF Proof, JobsTyped, Job
    <3> QED
      BY <3>4, RowsAssumption DEF Verified
  <2> QED
    BY <2>1, <2>2, <2>3, ProofsLeft
<1> QED
  BY <1>1, <1>2 DEF ProofsInv, ProofStands, At
-----------------------------------------------------------------------------
(* What a step leaves of the policies.                                       *)
PolicyKept(h) ==
    /\ UNCHANGED settings
    /\ torn' = torn
    /\ job[h].at \notin PolicyStages /\ job'[h].at \notin PolicyStages

LEMMA PolicyLeft ==
  ASSUME Accounts, NEW h \in Handlers, Step(h)
  PROVE  \/ PolicyKept(h)
         \/ \E a \in UserIds, enforce \in BOOLEAN, addresses \in SUBSET Addresses :
              PolicyStart(h, a, enforce, addresses)
         \/ SavePolicy(h) \/ ClearRules(h) \/ AddRule(h) \/ PolicySaved(h)
<1> Typed /\ JobsTyped
  BY DEF Accounts
<1> DEFINE Goal == \/ PolicyKept(h)
                   \/ \E a \in UserIds, enforce \in BOOLEAN, addresses \in SUBSET Addresses :
                        PolicyStart(h, a, enforce, addresses)
                   \/ SavePolicy(h) \/ ClearRules(h) \/ AddRule(h) \/ PolicySaved(h)
<1> HIDE DEF Goal
<1>1. ASSUME NEW e \in Emails, LoginStart(h, e) PROVE Goal
  BY <1>1 DEF LoginStart, Goal, Goes, Ends, AfterEnsure, JobsTyped, Job, Idle, SameHistory, PolicyKept, PolicyStages
<1>2. CASE FindOrg(h)
  BY <1>2 DEF FindOrg, Goal, Goes, Ends, AfterEnsure, JobsTyped, Job, Idle, SameHistory, PolicyKept, PolicyStages
<1>3. ASSUME NEW o \in OrgIds, InsertOrg(h, o) PROVE Goal
  BY <1>3 DEF InsertOrg, Goal, Goes, Ends, AfterEnsure, JobsTyped, Job, Idle, SameHistory, PolicyKept, PolicyStages
<1>4. CASE InsertDomain(h)
  BY <1>4 DEF InsertDomain, Goal, Goes, Ends, AfterEnsure, JobsTyped, Job, Idle, SameHistory, PolicyKept, PolicyStages
<1>5. CASE FindAgain(h)
  BY <1>5 DEF FindAgain, Goal, Goes, Ends, AfterEnsure, JobsTyped, Job, Idle, SameHistory, PolicyKept, PolicyStages
<1>6. CASE DropOrg(h)
  BY <1>6 DEF DropOrg, Goal, Goes, Ends, AfterEnsure, JobsTyped, Job, Idle, SameHistory, PolicyKept, PolicyStages
<1>7. CASE FindUser(h)
  <2>1. job'[h].at = "insertUser" \/ job'[h].at = "updateUser"
    BY <1>7 DEF FindUser, Goes, JobsTyped, Job
  <2> QED
    BY <1>7, <2>1 DEF FindUser, Goal, SameHistory, PolicyKept, PolicyStages
<1>8. ASSUME NEW u \in UserIds, InsertUser(h, u) PROVE Goal
  BY <1>8 DEF InsertUser, Goal, Goes, Ends, AfterEnsure, JobsTyped, Job, Idle, SameHistory, PolicyKept, PolicyStages
<1>9. CASE UpdateUser(h)
  BY <1>9 DEF UpdateUser, Goal, Goes, Ends, AfterEnsure, JobsTyped, Job, Idle, SameHistory, PolicyKept, PolicyStages
<1>10. ASSUME NEW a \in UserIds, NEW t \in UserIds, NEW kind \in {"suspend", "unsuspend", "delete"}, AdminStart(h, a, kind, t) PROVE Goal
  BY <1>10 DEF AdminStart, Goal, Goes, Ends, AfterEnsure, JobsTyped, Job, Idle, SameHistory, PolicyKept, PolicyStages
<1>11. CASE Target(h)
  <2>1. job[h].kind \in {"suspend", "unsuspend", "delete"} /\ job[h].at = "target"
    BY <1>11 DEF Target, JobsTyped, At
  <2>2. job'[h].at \in {"idle", "suspend", "unsuspend", "dropUser"}
    BY <1>11, <2>1 DEF Target, Goes, Ends, JobsTyped, Job, Idle
  <2> QED
    BY <1>11, <2>1, <2>2 DEF Target, Goal, SameHistory, PolicyKept, PolicyStages
<1>12. CASE SetUserSuspended(h)
  BY <1>12 DEF SetUserSuspended, Goal, Goes, Ends, AfterEnsure, JobsTyped, Job, Idle, SameHistory, PolicyKept, PolicyStages
<1>13. CASE DropUser(h)
  BY <1>13 DEF DropUser, Goal, Goes, Ends, AfterEnsure, JobsTyped, Job, Idle, SameHistory, PolicyKept, PolicyStages
<1>14. ASSUME NEW a \in UserIds, NEW enforce \in BOOLEAN, NEW addresses \in SUBSET Addresses, PolicyStart(h, a, enforce, addresses) PROVE Goal
  BY <1>14 DEF Goal
<1>15. CASE SavePolicy(h)
  BY <1>15 DEF Goal
<1>16. CASE ClearRules(h)
  BY <1>16 DEF Goal
<1>17. CASE AddRule(h)
  BY <1>17 DEF Goal
<1>18. CASE PolicySaved(h)
  BY <1>18 DEF Goal
<1>19. ASSUME NEW a \in UserIds, NEW kind \in {"view", "validate"}, ProofStart(h, a, kind) PROVE Goal
  BY <1>19 DEF ProofStart, Goal, Goes, Ends, AfterEnsure, JobsTyped, Job, Idle, SameHistory, PolicyKept, PolicyStages
<1>20. ASSUME NEW a \in UserIds, ShellStart(h, a) PROVE Goal
  BY <1>20 DEF ShellStart, Goal, Goes, Ends, AfterEnsure, JobsTyped, Job, Idle, SameHistory, PolicyKept, PolicyStages
<1>21. CASE Access(h)
  BY <1>21 DEF Access, Goal, Goes, Ends, AfterEnsure, JobsTyped, Job, Idle, SameHistory, PolicyKept, PolicyStages
<1>22. CASE OwnProof(h)
  BY <1>22 DEF OwnProof, Goal, Goes, Ends, AfterEnsure, JobsTyped, Job, Idle, SameHistory, PolicyKept, PolicyStages
<1>23. CASE Ensure(h)
  BY <1>23 DEF Ensure, Goal, Goes, Ends, AfterEnsure, JobsTyped, Job, Idle, SameHistory, PolicyKept, PolicyStages
<1>24. CASE SaveProof(h)
  BY <1>24 DEF SaveProof, Goal, Goes, Ends, AfterEnsure, JobsTyped, Job, Idle, SameHistory, PolicyKept, PolicyStages
<1>25. CASE Lookup(h)
  BY <1>25 DEF Lookup, Goal, Goes, Ends, AfterEnsure, JobsTyped, Job, Idle, SameHistory, PolicyKept, PolicyStages
<1>26. CASE Verify(h)
  BY <1>26 DEF Verify, Goal, Goes, Ends, AfterEnsure, JobsTyped, Job, Idle, SameHistory, PolicyKept, PolicyStages
<1> QED
  BY <1>1, <1>2, <1>3, <1>4, <1>5, <1>6, <1>7, <1>8, <1>9, <1>10, <1>11, <1>12, <1>13, <1>14, <1>15, <1>16, <1>17, <1>18, <1>19, <1>20, <1>21, <1>22, <1>23, <1>24, <1>25, <1>26 DEF Goal, Step, Login, Administer, SetPolicy, Prove

(* One of the statements of a policy update: what it does, in terms of its   *)
(* request.                                                                  *)
LEMMA PolicyMoves ==
  ASSUME Accounts, NEW h \in Handlers, NEW o, o = job'[h].org, job'[h].at \in PolicyStages, Step(h)
  PROVE  \/ /\ job'[h].at = "savePolicy" /\ UNCHANGED settings
            /\ job[h].at \notin PolicyStages
            /\ job'[h].set => job'[h].rules # {}
            /\ torn' = IF Running(<<"policy", o>>) THEN torn \union {o} ELSE torn
         \/ /\ job'[h].at = "clearRules" /\ UNCHANGED <<rules, torn>>
            /\ job[h].at = "savePolicy" /\ job[h].org = o
            /\ job'[h].set = job[h].set /\ job'[h].rules = job[h].rules
            /\ enforced' = IF job[h].set THEN enforced \union {o} ELSE enforced \ {o}
         \/ /\ job'[h].at = "addRules" /\ UNCHANGED <<enforced, torn>>
            /\ job[h].at = "clearRules" /\ job[h].org = o
            /\ job'[h].rules = job[h].rules
            /\ rules' = [rules EXCEPT ![o] = {}]
         \/ /\ job'[h].at = "addRules" /\ UNCHANGED <<enforced, torn>>
            /\ job[h].at = "addRules" /\ job[h].org = o
            /\ \E x : rules' = [rules EXCEPT ![o] = rules[o] \union {x}]
<1> Typed /\ JobsTyped
  BY DEF Accounts
<1>1. ASSUME NEW a \in UserIds, NEW enforce \in BOOLEAN, NEW addresses \in SUBSET Addresses,
             PolicyStart(h, a, enforce, addresses)
      PROVE  /\ job'[h].at = "savePolicy" /\ UNCHANGED settings
             /\ job[h].at \notin PolicyStages
             /\ job'[h].set => job'[h].rules # {}
             /\ torn' = IF Running(<<"policy", o>>) THEN torn \union {o} ELSE torn
  <2>1. job[h] = Idle /\ job'[h] = [Idle EXCEPT !.at = "savePolicy", !.actor = a, !.org = user[a].org,
                                                !.set = enforce, !.rules = addresses]
    BY <1>1 DEF PolicyStart, JobsTyped
  <2>2. /\ job'[h].at = "savePolicy" /\ job'[h].org = user[a].org
        /\ job'[h].set = enforce /\ job'[h].rules = addresses /\ job[h].at = "idle"
    BY <2>1 DEF Idle
  <2> QED
    BY <1>1, <2>2 DEF PolicyStart, PolicyStages
<1>2. CASE SavePolicy(h)
  <2>1. /\ job'[h].at = "clearRules" /\ job'[h].org = job[h].org
        /\ job'[h].set = job[h].set /\ job'[h].rules = job[h].rules
    BY <1>2 DEF SavePolicy, Goes, JobsTyped, Job
  <2> QED
    BY <1>2, <2>1 DEF SavePolicy, SameHistory
<1>3. CASE ClearRules(h)
  <2>1. /\ job'[h].at = "addRules" /\ job'[h].org = job[h].org
        /\ job'[h].rules = job[h].rules
    BY <1>3 DEF ClearRules, Goes, JobsTyped, Job
  <2> QED
    BY <1>3, <2>1 DEF ClearRules, SameHistory
<1>4. CASE AddRule(h)
  <2>1. ~Ends(h)
    BY DEF Ends, Idle, JobsTyped, PolicyStages
  <2>2. PICK x \in job[h].rules : /\ rules' = [rules EXCEPT ![job[h].org] = rules[job[h].org] \union {x}]
                                  /\ job' = [job EXCEPT ![h].rules = job[h].rules \ {x}]
    BY <1>4, <2>1 DEF AddRule
  <2>3. job'[h].at = job[h].at /\ job'[h].org = job[h].org
    BY <2>2 DEF JobsTyped, Job
  <2> QED
    BY <1>4, <2>2, <2>3 DEF AddRule, SameHistory
<1>5. CASE PolicySaved(h)
  BY <1>5 DEF PolicySaved, Ends, Idle, JobsTyped, PolicyStages
<1> QED
  BY <1>1, <1>2, <1>3, <1>4, <1>5, PolicyLeft DEF PolicyKept

(* The policy of an organization changes only by a request about it, and is  *)
(* put right only by one that met no other.                                  *)
LEMMA PolicyOfOthers ==
  ASSUME Accounts, NEW h \in Handlers, Step(h), NEW o \in OrgIds
  PROVE  /\ ~About(h, <<"policy", o>>) =>
              /\ rules'[o] = rules[o] /\ (o \in enforced' <=> o \in enforced)
              /\ o \in torn => o \in torn'
         /\ <<"policy", o>> \in met /\ o \in torn => o \in torn'
<1> Typed /\ JobsTyped
  BY DEF Accounts
<1> DEFINE Goal == /\ ~About(h, <<"policy", o>>) =>
                        /\ rules'[o] = rules[o] /\ (o \in enforced' <=> o \in enforced)
                        /\ o \in torn => o \in torn'
                   /\ <<"policy", o>> \in met /\ o \in torn => o \in torn'
<1> HIDE DEF Goal
<1>1. CASE PolicyKept(h)
  BY <1>1 DEF PolicyKept, settings, Goal
<1>2. ASSUME NEW a \in UserIds, NEW enforce \in BOOLEAN, NEW addresses \in SUBSET Addresses,
             PolicyStart(h, a, enforce, addresses)
      PROVE  Goal
  BY <1>2 DEF PolicyStart, settings, Goal
<1>3. CASE SavePolicy(h)
  BY <1>3 DEF SavePolicy, About, PolicyStages, Goal, SameHistory
<1>4. CASE ClearRules(h)
  BY <1>4 DEF ClearRules, About, PolicyStages, Goal, SameHistory, Typed
<1>5. CASE AddRule(h)
  BY <1>5 DEF AddRule, About, PolicyStages, Goal, SameHistory, Typed
<1>6. CASE PolicySaved(h)
  BY <1>6 DEF PolicySaved, About, PolicyStages, Goal, settings
<1> QED
  BY <1>1, <1>2, <1>3, <1>4, <1>5, <1>6, PolicyLeft DEF Goal

LEMMA PoliciesStep ==
  ASSUME Accounts, MetInv, PoliciesInv, NEW h \in Handlers, Step(h), Observe
  PROVE  PoliciesInv'
<1> Typed /\ JobsTyped /\ JobsTyped' /\ Typed' /\ Others(h)
  BY JobStep, RowStep DEF Accounts
<1>1. ASSUME NEW o \in OrgIds, <<"policy", o>> \in met' PROVE o \in torn'
  <2>1. PICK t \in Topics : t = <<"policy", o>>
    BY DEF Topics
  <2>2. CASE t \in met
    BY <2>1, <2>2, PolicyOfOthers DEF PoliciesInv
  <2>3. CASE t \notin met
    <3>1. Several(t)' /\ ~Several(t)
      BY <1>1, <2>1, <2>3 DEF Observe, MetInv
    <3>2. PICK k \in Handlers, l \in Handlers : k # l /\ About(k, t)' /\ About(l, t)'
      BY <3>1 DEF Several
    <3>3. \A m \in Handlers : About(m, t)' => job'[m].at \in PolicyStages /\ job'[m].org = o
      BY <2>1 DEF About
    <3>4. \A m \in Handlers \ {h} : About(m, t)' => About(m, t)
      BY <2>1, <3>3 DEF About, Others
    <3>5. PICK m \in Handlers \ {h} : About(m, t) /\ About(h, t)'
      BY <3>1, <3>2, <3>4 DEF Several
    <3>6. ~About(h, t)
      BY <3>1, <3>5 DEF Several
    <3>7. job[h].at \notin PolicyStages \/ job[h].org # o
      BY <2>1, <3>6 DEF About
    <3>8. Running(<<"policy", o>>)
      BY <2>1, <3>5 DEF Running
    <3> QED
      BY <3>3, <3>5, <3>7, <3>8, PolicyMoves DEF PolicyStages
  <2> QED
    BY <2>2, <2>3
<1>2. ASSUME NEW k \in Handlers, NEW o, job'[k].at \in PolicyStages, job'[k].org = o, <<"policy", o>> \notin met'
      PROVE  /\ o \in OrgIds /\ <<"policy", o>> \notin met
             /\ k # h => job'[k] = job[k] /\ rules'[o] = rules[o] /\ (o \in enforced' <=> o \in enforced)
  <2>0. o \in OrgIds
    BY <1>2 DEF JobsTyped, At
  <2>1. PICK t \in Topics : t = <<"policy", o>>
    BY <2>0 DEF Topics
  <2>2. Running(t)'
    BY <1>2, <2>1 DEF Running, About
  <2>3. t \notin met /\ ~Several(t)
    BY <1>2, <2>1, <2>2, Unmet
  <2>4. ASSUME k # h PROVE job'[k] = job[k] /\ rules'[o] = rules[o] /\ (o \in enforced' <=> o \in enforced)
    <3>1. job'[k] = job[k]
      BY <2>4 DEF Others
    <3>2. About(k, t)
      BY <1>2, <2>1, <3>1 DEF About
    <3>3. ~About(h, <<"policy", o>>)
      BY <2>1, <2>3, <2>4, <3>2 DEF Several
    <3> QED
      BY <2>0, <3>1, <3>3, PolicyOfOthers
  <2> QED
    BY <2>0, <2>1, <2>3, <2>4
<1>3. ASSUME NEW k \in Handlers, job'[k].at = "savePolicy", job'[k].set PROVE job'[k].rules # {}
  <2>1. CASE k # h
    BY <1>3, <2>1 DEF Others, PoliciesInv, At
  <2>2. CASE k = h
    BY <1>3, <2>2, PolicyMoves DEF PolicyStages
  <2> QED
    BY <2>1, <2>2
<1>4. ASSUME NEW k \in Handlers, NEW o, job'[k].at = "clearRules", job'[k].org = o,
             <<"policy", o>> \notin met', o \in enforced'
      PROVE  job'[k].rules # {}
  <2>1. CASE k # h
    <3>1. job'[k] = job[k] /\ <<"policy", o>> \notin met /\ o \in enforced
      BY <1>2, <1>4, <2>1 DEF PolicyStages
    <3> QED
      BY <1>4, <3>1 DEF PoliciesInv, At
  <2>2. CASE k = h
    <3>1. /\ job[h].at = "savePolicy" /\ job[h].org = o
          /\ job'[h].rules = job[h].rules
          /\ enforced' = IF job[h].set THEN enforced \union {o} ELSE enforced \ {o}
      BY <1>4, <2>2, PolicyMoves DEF PolicyStages
    <3>2. job[h].set
      BY <1>4, <3>1
    <3> QED
      BY <2>2, <3>1, <3>2 DEF PoliciesInv, At
  <2> QED
    BY <2>1, <2>2
<1>5. ASSUME NEW k \in Handlers, NEW o, job'[k].at = "addRules", job'[k].org = o,
             <<"policy", o>> \notin met', o \in enforced'
      PROVE  job'[k].rules # {} \/ rules'[o] # {}
  <2>0. o \in OrgIds /\ <<"policy", o>> \notin met
    BY <1>2, <1>5 DEF PolicyStages
  <2>1. CASE k # h
    <3>1. job'[k] = job[k] /\ o \in enforced /\ rules'[o] = rules[o]
      BY <1>2, <1>5, <2>1 DEF PolicyStages
    <3> QED
      BY <1>5, <2>0, <3>1 DEF PoliciesInv, At
  <2>2. CASE k = h
    <3>1. CASE /\ UNCHANGED enforced /\ job[h].at = "clearRules" /\ job[h].org = o
               /\ job'[h].rules = job[h].rules
      BY <1>5, <2>0, <2>2, <3>1 DEF PoliciesInv, At
    <3>2. ASSUME NEW x, rules' = [rules EXCEPT ![o] = rules[o] \union {x}] PROVE rules'[o] # {}
      BY <2>0, <3>2 DEF Typed
    <3> QED
      BY <1>5, <2>2, <3>1, <3>2, PolicyMoves DEF PolicyStages
  <2> QED
    BY <2>1, <2>2
<1>6. ASSUME NEW o \in enforced', o \notin torn', rules'[o] = {}
      PROVE  \E k \in Handlers : job'[k].at \in {"clearRules", "addRules"} /\ job'[k].org = o
  <2>0. o \in OrgIds
    BY DEF Typed
  <2>1. CASE ~About(h, <<"policy", o>>)
    <3>1. o \in enforced /\ o \notin torn /\ rules[o] = {}
      BY <1>6, <2>0, <2>1, PolicyOfOthers
    <3>2. PICK k \in Handlers : job[k].at \in {"clearRules", "addRules"} /\ job[k].org = o
      BY <3>1 DEF PoliciesInv, At
    <3>3. k # h
      BY <2>1, <3>2 DEF About, PolicyStages
    <3> QED
      BY <3>2, <3>3 DEF Others
  <2>2. CASE About(h, <<"policy", o>>)
    <3>1. job[h].at \in PolicyStages /\ job[h].org = o
      BY <2>2 DEF About
    <3>2. CASE SavePolicy(h)
      BY <3>1, <3>2 DEF SavePolicy, Goes, JobsTyped, Job
    <3>3. CASE ClearRules(h)
      BY <3>1, <3>3 DEF ClearRules, Goes, JobsTyped, Job
    <3>4. CASE AddRule(h)
      <4>1. PICK x \in job[h].rules : \/ rules' = [rules EXCEPT ![o] = rules[o] \union {x}]
                                      \/ x \in rules[o] /\ rules' = rules
        BY <3>1, <3>4 DEF AddRule
      <4>2. rules'[o] # {}
        BY <2>0, <4>1 DEF Typed
      <4> QED
        BY <1>6, <4>2
    <3>5. CASE PolicySaved(h)
      <4>1. /\ UNCHANGED <<enforced, rules>> /\ job[h].at = "addRules" /\ job[h].rules = {}
            /\ <<"policy", o>> \in met => torn' = torn
        BY <3>1, <3>5 DEF PolicySaved, settings
      <4>2. <<"policy", o>> \notin met
        BY <1>6, <2>0, <4>1 DEF PoliciesInv
      <4> QED
        BY <1>6, <3>1, <4>1, <4>2 DEF PoliciesInv, At
    <3>6. ASSUME NEW a \in UserIds, NEW enforce \in BOOLEAN, NEW addresses \in SUBSET Addresses,
                 PolicyStart(h, a, enforce, addresses)
          PROVE  FALSE
      BY <3>1, <3>6 DEF PolicyStart, Idle, PolicyStages
    <3> QED
      BY <3>1, <3>2, <3>3, <3>4, <3>5, <3>6, PolicyLeft DEF PolicyKept
  <2> QED
    BY <2>1, <2>2
<1> QED
  BY <1>1, <1>3, <1>4, <1>5, <1>6 DEF PoliciesInv, At

LEMMA PoliciesStop ==
  ASSUME Accounts, PoliciesInv, Stop, Observe
  PROVE  PoliciesInv'
<1> Typed /\ JobsTyped
  BY DEF Accounts
<1>1. \A k \in Handlers : job'[k] = Idle
  BY DEF Stop
<1>2. \A k \in Handlers : \A t : ~About(k, t)'
  BY <1>1 DEF About, Idle, AdminStages, ProofStages, PolicyStages
<1>3. \A t \in Topics : t \notin met'
  BY <1>2 DEF Observe, Running
<1>4. \A o \in OrgIds : <<"policy", o>> \notin met'
  BY <1>3 DEF Topics
<1>5. ASSUME NEW o \in enforced', o \notin torn' PROVE rules'[o] # {}
  <2>1. o \in enforced /\ o \notin torn /\ rules' = rules
    BY <1>5 DEF Stop, settings
  <2>2. ~\E h \in At({"clearRules", "addRules"}) : job[h].org = o
    BY <1>5 DEF Stop
  <2> QED
    BY <2>1, <2>2 DEF PoliciesInv
<1>6. \A k \in Handlers : job'[k].at = "idle"
  BY <1>1 DEF Idle
<1> QED
  BY <1>4, <1>5, <1>6 DEF PoliciesInv, At
-----------------------------------------------------------------------------
LEMMA RestInit == Init => /\ MetInv /\ AdminsInv /\ AnAdminRemains
                          /\ ProofsInv /\ ProofStands /\ PoliciesInv
<1> SUFFICES ASSUME Init PROVE /\ MetInv /\ AdminsInv /\ AnAdminRemains
                               /\ ProofsInv /\ ProofStands /\ PoliciesInv
  OBVIOUS
<1>1. \A h \in Handlers : job[h].at = "idle"
  BY DEF Init, Idle
<1>2. \A h \in Handlers : \A t : ~About(h, t)
  BY <1>1 DEF About, AdminStages, ProofStages, PolicyStages
<1>3. MetInv
  BY <1>2 DEF Init, MetInv, Several
<1>4. AdminsInv /\ AnAdminRemains
  BY <1>1 DEF Init, AdminsInv, AnAdminRemains, At, AdminStages, Acting
<1>5. ProofsInv /\ ProofStands
  BY <1>1 DEF Init, ProofsInv, ProofStands, At
<1>6. PoliciesInv
  BY <1>1 DEF Init, PoliciesInv, At
<1> QED
  BY <1>3, <1>4, <1>5, <1>6

LEMMA RestStutter ==
  ASSUME OrganizationsInv, UNCHANGED vars
  PROVE  /\ MetInv' /\ AdminsInv' /\ AnAdminRemains'
         /\ ProofsInv' /\ ProofStands' /\ PoliciesInv'
<1> MetInv /\ AdminsInv /\ AnAdminRemains /\ ProofsInv /\ ProofStands /\ PoliciesInv
  BY DEF OrganizationsInv
<1> USE DEF vars, accounts, settings, history
<1>1. MetInv'
  BY DEF MetInv, Several, Running, About
<1>2. AdminsInv'
  BY DEF AdminsInv, At, ActiveAdmin, Exists
<1>3. AnAdminRemains'
  BY DEF AnAdminRemains, ActiveAdmin, Exists
<1>4. ProofsInv' /\ ProofStands'
  BY DEF ProofsInv, ProofStands, Verified, At
<1>5. PoliciesInv'
  BY DEF PoliciesInv, At
<1> QED
  BY <1>1, <1>2, <1>3, <1>4, <1>5

THEOREM OrganizationsInductive == Spec => []OrganizationsInv
<1>1. Init => OrganizationsInv
  BY AccountsInit, RestInit DEF OrganizationsInv
<1>2. ASSUME OrganizationsInv, Next PROVE OrganizationsInv'
  <2> Accounts /\ MetInv /\ AdminsInv /\ AnAdminRemains /\ ProofsInv /\ ProofStands /\ PoliciesInv
    BY <1>2 DEF OrganizationsInv
  <2> Observe
    BY <1>2 DEF Next
  <2>1. MetInv'
    BY MetStep
  <2>2. ASSUME NEW h \in Handlers, Step(h) PROVE OrganizationsInv'
    <3>1. Accounts'
      BY <2>2, RowStep, JobStep, LoginsStep, RowsStep, OneOrganizationStep DEF Accounts
    <3>2. AdminsInv' /\ AnAdminRemains'
      BY <2>2, AdminsStep, AnAdminStep
    <3>3. ProofsInv' /\ ProofStands'
      BY <2>2, ProofsStep
    <3>4. PoliciesInv'
      BY <2>2, PoliciesStep
    <3> QED
      BY <2>1, <3>1, <3>2, <3>3, <3>4 DEF OrganizationsInv
  <2>3. CASE Stop
    <3>1. Accounts' /\ AdminsInv' /\ AnAdminRemains' /\ PoliciesInv'
      BY <2>3, AccountsStop, AdminsStop, PoliciesStop
    <3>2. ProofsInv' /\ ProofStands'
      BY <2>3 DEF Stop, ProofsInv, ProofStands, Verified, At, Idle
    <3> QED
      BY <2>1, <3>1, <3>2 DEF OrganizationsInv
  <2> QED
    BY <1>2, <2>2, <2>3 DEF Next, Step
<1>3. OrganizationsInv /\ [Next]_vars => OrganizationsInv'
  BY <1>2, RestStutter, AccountsStutter DEF OrganizationsInv
<1> QED
  BY <1>1, <1>3, PTL DEF Spec

(* An organization that had an administrator who could act keeps one, unless *)
(* two of them act at the same time.                                         *)
THEOREM AnAdminRemainsHolds == Spec => []AnAdminRemains
<1>1. OrganizationsInv => AnAdminRemains
  BY DEF OrganizationsInv
<1> QED
  BY <1>1, OrganizationsInductive, PTL

(* A proof of a domain stands as long as its user does, unless two requests  *)
(* of his created it at the same time.                                       *)
THEOREM ProofStandsHolds == Spec => []ProofStands
<1>1. OrganizationsInv => ProofStands
  BY DEF OrganizationsInv
<1> QED
  BY <1>1, OrganizationsInductive, PTL

(* A firewall that is enforced has an address, unless an update stopped or   *)
(* met another.                                                              *)
THEOREM EnforcedHasRulesHolds == Spec => []EnforcedHasRules
<1>1. OrganizationsInv => EnforcedHasRules
  <2> SUFFICES ASSUME OrganizationsInv, NEW o \in enforced \ torn, rules[o] = {}
               PROVE  Running(<<"policy", o>>)
    BY DEF EnforcedHasRules
  <2>1. PICK h \in At({"clearRules", "addRules"}) : job[h].org = o
    BY DEF OrganizationsInv, PoliciesInv
  <2> QED
    BY <2>1 DEF At, Running, About, PolicyStages
<1> QED
  BY <1>1, OrganizationsInductive, PTL
=============================================================================
