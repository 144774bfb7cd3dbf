---------------------------- MODULE Organizations ----------------------------
(***************************************************************************)
(* Users, their organizations and who administers them                     *)
(* (src/src/app_organization_admin.go, app_admin_handlers.go,              *)
(* store_organization_admin.go and their tables in store.go).              *)
(*                                                                         *)
(* A login creates the user and, for the first user of a domain, the       *)
(* organization of that domain.  Users whose addresses are listed in       *)
(* ADMIN_EMAILS suspend and delete the users of their organization and     *)
(* save its account policy with its firewall rules.  Any user of a domain  *)
(* may prove that he controls it with a DNS record; then only users who    *)
(* have proved it are let in to the proof again.                           *)
(*                                                                         *)
(* Requests run side by side, a step per SQL statement.  What Sessions     *)
(* models is taken from there in one step: the session and its user, the   *)
(* second factor, the default policy; a user who is not suspended may have *)
(* a session at any time.  Of a user's other rows only the proof is kept:  *)
(* all of them have a foreign key to users that deletes them with it.      *)
(***************************************************************************)
EXTENDS Naturals

CONSTANTS
    Emails,       \* Google accounts that sign in
    AdminEmails,  \* those in ADMIN_EMAILS
    Domains,      \* domains that become organizations: not gmail.com
    DomainOf,     \* the domain of each account, or None
    UserIds,      \* ids of users rows, each drawn once (bound)
    OrgIds,       \* ids of organizations rows, each drawn once (bound)
    Addresses,    \* firewall addresses
    Handlers,     \* requests in flight (bound)
    None

ASSUME OrganizationsAssumption ==
    /\ AdminEmails \subseteq Emails
    /\ DomainOf \in [Emails -> Domains \union {None}]
    /\ None \notin Emails \union Domains \union UserIds \union OrgIds
    /\ UserIds \intersect OrgIds = {}

VARIABLES
    org,        \* organizations
    owner,      \* organization_domains: the organization of each domain
    user,       \* users
    proof,      \* organization_admin_verifications of each user
    enforced,   \* organization_accounts_policies.enforce_firewall
    rules,      \* organization_firewall_rules
    job,        \* per request: its locals and where it stands
    gone,       \* history: ids of rows that were deleted
    met,        \* history: what several running requests were about
    torn,       \* history: organizations that a request left half changed
    staffed,    \* history: organizations that had an admin who could act
    proved      \* history: users whose proof was stored

accounts == <<org, owner, user>>
settings == <<enforced, rules>>
history  == <<gone, met, torn, staffed, proved>>
vars == <<accounts, settings, proof, job, history>>

-----------------------------------------------------------------------------
OrgOrNone == OrgIds \union {None}

(* A user is suspended by whoever did it last, or by None.                   *)
User == [email : Emails, org : OrgOrNone, admin : BOOLEAN, by : UserIds \union {None}]
Proof == [org : OrgOrNone, verified : BOOLEAN]

ASSUME RowsAssumption == None \notin User \union Proof

LoginStages == {"findOrg", "insertOrg", "insertDomain", "findAgain", "dropOrg",
                "findUser", "insertUser", "updateUser"}
AdminStages == {"target", "suspend", "unsuspend", "dropUser"}
ProofStages == {"access", "ownProof", "ensure", "saveProof", "lookup", "verify"}
PolicyStages == {"savePolicy", "clearRules", "addRules"}
Stages == {"idle"} \union LoginStages \union AdminStages \union ProofStages \union PolicyStages

(* The locals of all requests in one record; `actor` is who is signed in,    *)
(* `org` the organization of his copy or the one a login made or found,      *)
(* `user` the row it is about.                                               *)
Job == [at : Stages, kind : {"none", "suspend", "unsuspend", "delete", "view", "validate"},
        email : Emails \union {None}, actor : UserIds \union {None}, org : OrgOrNone,
        user : UserIds \union {None}, set : BOOLEAN, rules : SUBSET Addresses]
Idle == [at |-> "idle", kind |-> "none", email |-> None, actor |-> None, org |-> None,
         user |-> None, set |-> FALSE, rules |-> {}]

(* What a request is about, as far as it matters that another one is about   *)
(* the same: the users of an organization, the proof of a user, a policy.    *)
Topics == ({"admin"} \X OrgOrNone) \union ({"proof"} \X UserIds) \union ({"policy"} \X OrgIds)

(* The foreign keys between the tables, and the types.                       *)
TypeOK ==
    /\ \A d \in Domains : owner[d] \in org \union {None}
    /\ \A u \in UserIds : user[u] # None => user[u].org \in org \union {None}
    /\ \A u \in UserIds : proof[u] # None => user[u] # None
    /\ org \in SUBSET OrgIds
    /\ owner \in [Domains -> OrgOrNone]
    /\ user \in [UserIds -> User \union {None}]
    /\ proof \in [UserIds -> Proof \union {None}]
    /\ enforced \in SUBSET OrgIds
    /\ rules \in [OrgIds -> SUBSET Addresses]
    /\ job \in [Handlers -> Job]
    /\ gone \in SUBSET (UserIds \union OrgIds)
    /\ met \in SUBSET Topics
    /\ torn \in SUBSET OrgIds
    /\ staffed \in SUBSET OrgOrNone
    /\ proved \in SUBSET UserIds

Init ==
    /\ org = {}
    /\ owner = [d \in Domains |-> None]
    /\ user = [u \in UserIds |-> None]
    /\ proof = [u \in UserIds |-> None]
    /\ enforced = {}
    /\ rules = [o \in OrgIds |-> {}]
    /\ job = [h \in Handlers |-> Idle]
    /\ gone = {}
    /\ met = {}
    /\ torn = {}
    /\ staffed = {}
    /\ proved = {}

-----------------------------------------------------------------------------
Goes(h, stage) == job' = [job EXCEPT ![h].at = stage]
Ends(h) == job' = [job EXCEPT ![h] = Idle]

(* The requests at some of the stages.                                       *)
At(stages) == {h \in Handlers : job[h].at \in stages}

Exists(u) == user[u] # None
HomeOf(e) == IF DomainOf[e] = None THEN None ELSE owner[DomainOf[e]]

(* Request h is about t.                                                     *)
About(h, t) ==
    \/ job[h].at \in AdminStages /\ t = <<"admin", job[h].org>>
    \/ job[h].at \in ProofStages /\ t = <<"proof", job[h].actor>>
    \/ job[h].at \in PolicyStages /\ t = <<"policy", job[h].org>>
Running(t) == \E h \in Handlers : About(h, t)
Several(t) == \E h, k \in Handlers : h # k /\ About(h, t) /\ About(k, t)

(* Can u administer organization o now?                                      *)
ActiveAdmin(u, o) ==
    Exists(u) /\ user[u].admin /\ user[u].by = None /\ user[u].org = o

(* Few requests add to the history but for what Observe does.                *)
SameHistory == UNCHANGED <<gone, torn, proved>>

-----------------------------------------------------------------------------
(* handleGoogleCallback and CreateOrUpdateUser.  An account without an       *)
(* organization domain skips EnsureOrganizationForDomain.                    *)
LoginStart(h, e) ==
    /\ job[h] = Idle
    /\ job' = [job EXCEPT ![h] = [Idle EXCEPT !.email = e,
                 !.at = IF DomainOf[e] = None THEN "findUser" ELSE "findOrg"]]
    /\ UNCHANGED <<accounts, settings, proof>> /\ SameHistory

(* EnsureOrganizationForDomain: the organization there is, ...               *)
FindOrg(h) ==
    LET o == HomeOf(job[h].email) IN
    /\ job[h].at = "findOrg"
    /\ job' = [job EXCEPT ![h].org = o,
                          ![h].at = IF o = None THEN "insertOrg" ELSE "findUser"]
    /\ UNCHANGED <<accounts, settings, proof>> /\ SameHistory

(* ... or a new one, ...                                                     *)
InsertOrg(h, o) ==
    /\ job[h].at = "insertOrg"
    /\ o \notin org \union gone
    /\ org' = org \union {o}
    /\ job' = [job EXCEPT ![h].org = o, ![h].at = "insertDomain"]
    /\ UNCHANGED <<owner, user, settings, proof>> /\ SameHistory

(* ... which gets the domain unless another login was faster, ...            *)
InsertDomain(h) ==
    LET d == DomainOf[job[h].email] IN
    /\ job[h].at = "insertDomain"
    /\ owner' = [owner EXCEPT ![d] = IF @ = None THEN job[h].org ELSE @]
    /\ Goes(h, "findAgain")
    /\ UNCHANGED <<org, user, settings, proof>> /\ SameHistory

(* Mutant: the login goes on with the organization it made.                  *)
FindAgainOwn(h) ==
    /\ job[h].at = "findAgain"
    /\ Goes(h, "findUser")
    /\ UNCHANGED <<accounts, settings, proof>> /\ SameHistory

(* ... and is looked up again, by the login that lost as well.               *)
FindAgain(h) ==
    /\ job[h].at = "findAgain"
    /\ Goes(h, IF HomeOf(job[h].email) = job[h].org THEN "findUser" ELSE "dropOrg")
    /\ UNCHANGED <<accounts, settings, proof>> /\ SameHistory

(* The loser deletes its organization if nobody is in it, and takes the      *)
(* winner's.                                                                 *)
DropOrg(h) ==
    LET o == job[h].org
        unused == /\ \A d \in Domains : owner[d] # o
                  /\ \A u \in UserIds : Exists(u) => user[u].org # o
    IN
    /\ job[h].at = "dropOrg"
    /\ org' = IF unused THEN org \ {o} ELSE org
    /\ gone' = IF unused THEN gone \union {o} ELSE gone
    /\ job' = [job EXCEPT ![h].org = HomeOf(job[h].email), ![h].at = "findUser"]
    /\ UNCHANGED <<owner, user, settings, proof>>
    /\ UNCHANGED <<torn, proved>>

(* FindUserByEmail.                                                          *)
FindUser(h) ==
    /\ job[h].at = "findUser"
    /\ \/ \E u \in UserIds :
            /\ Exists(u) /\ user[u].email = job[h].email
            /\ job' = [job EXCEPT ![h].user = u, ![h].at = "updateUser"]
       \/ /\ \A u \in UserIds : Exists(u) => user[u].email # job[h].email
          /\ Goes(h, "insertUser")
    /\ UNCHANGED <<accounts, settings, proof>> /\ SameHistory

(* INSERT INTO users, refused when a login at the same time inserted the     *)
(* address.                                                                  *)
InsertUser(h, u) ==
    LET e == job[h].email IN
    /\ job[h].at = "insertUser"
    /\ u \notin gone /\ ~Exists(u)
    /\ \/ /\ \A v \in UserIds : Exists(v) => user[v].email # e
          /\ user' = [user EXCEPT ![u] = [email |-> e, org |-> job[h].org,
                                          admin |-> e \in AdminEmails, by |-> None]]
       \/ /\ \E v \in UserIds : Exists(v) /\ user[v].email = e
          /\ UNCHANGED user
    /\ Ends(h)
    /\ UNCHANGED <<org, owner, settings, proof>> /\ SameHistory

(* Mutant: an upsert, as for agents and Workspaces.                          *)
UpdateUserUpsert(h) ==
    LET e == job[h].email IN
    /\ job[h].at = "updateUser"
    /\ user' = [user EXCEPT ![job[h].user] =
         [email |-> e, org |-> job[h].org, admin |-> e \in AdminEmails,
          by |-> IF @ = None THEN None ELSE @.by]]
    /\ Ends(h)
    /\ UNCHANGED <<org, owner, settings, proof>> /\ SameHistory

(* UPDATE users: no row, no effect.  Only reads and the session follow, which *)
(* is refused to a suspended user.                                           *)
UpdateUser(h) ==
    /\ job[h].at = "updateUser"
    /\ user' = [user EXCEPT ![job[h].user] =
         IF @ = None THEN None
         ELSE [@ EXCEPT !.org = job[h].org, !.admin = job[h].email \in AdminEmails]]
    /\ Ends(h)
    /\ UNCHANGED <<org, owner, settings, proof>> /\ SameHistory

-----------------------------------------------------------------------------
(* requireSessionUser: the request goes on with a copy of the user's row.    *)
SignedIn(u) == Exists(u) /\ user[u].by = None

(* requireAdminUser.                                                         *)
IsAdmin(u) == SignedIn(u) /\ user[u].admin

(* handleAdminUserRoutes.                                                    *)
AdminStart(h, a, kind, t) ==
    /\ job[h] = Idle
    /\ IsAdmin(a)
    /\ job' = [job EXCEPT ![h] = [Idle EXCEPT !.at = "target", !.kind = kind, !.actor = a,
                                              !.org = user[a].org, !.user = t]]
    /\ UNCHANGED <<accounts, settings, proof>> /\ SameHistory

(* Mutant: administrators may act on themselves.                             *)
TargetAny(h) ==
    /\ job[h].at = "target"
    /\ IF Exists(job[h].user) /\ user[job[h].user].org = job[h].org
       THEN Goes(h, IF job[h].kind = "delete" THEN "dropUser" ELSE job[h].kind)
       ELSE Ends(h)
    /\ UNCHANGED <<accounts, settings, proof>> /\ SameHistory

(* The target is of the same organization, and nobody suspends or deletes    *)
(* himself.                                                                  *)
Target(h) ==
    LET t == job[h].user IN
    /\ job[h].at = "target"
    /\ IF /\ Exists(t) /\ user[t].org = job[h].org
          /\ job[h].kind \in {"suspend", "delete"} => t # job[h].actor
       THEN Goes(h, IF job[h].kind = "delete" THEN "dropUser" ELSE job[h].kind)
       ELSE Ends(h)
    /\ UNCHANGED <<accounts, settings, proof>> /\ SameHistory

(* SetUserSuspendedBy: no row, no effect.                                    *)
SetUserSuspended(h) ==
    LET t == job[h].user IN
    /\ job[h].at \in {"suspend", "unsuspend"}
    /\ user' = IF Exists(t)
               THEN [user EXCEPT ![t].by = IF job[h].at = "suspend" THEN job[h].actor ELSE None]
               ELSE user
    /\ Ends(h)
    /\ UNCHANGED <<org, owner, settings, proof>> /\ SameHistory

(* DeleteUser, its last DELETE: what the others, of rows that are not        *)
(* modelled here, left or others stored since goes with it.                  *)
DropUser(h) ==
    LET t == job[h].user IN
    /\ job[h].at = "dropUser"
    /\ user' = [user EXCEPT ![t] = None]
    /\ proof' = [proof EXCEPT ![t] = None]
    /\ gone' = gone \union {t}
    /\ proved' = proved \ {t}
    /\ Ends(h)
    /\ UNCHANGED <<org, owner, settings, torn>>

-----------------------------------------------------------------------------
(* Mutant: nothing is asked of a firewall to enforce.                        *)
PolicyStartAny(h, a, enforce, addresses) ==
    LET o == user[a].org IN
    /\ job[h] = Idle
    /\ IsAdmin(a) /\ o # None
    /\ job' = [job EXCEPT ![h] = [Idle EXCEPT !.at = "savePolicy", !.actor = a, !.org = o,
                                              !.set = enforce, !.rules = addresses]]
    /\ torn' = IF Running(<<"policy", o>>) THEN torn \union {o} ELSE torn
    /\ UNCHANGED <<accounts, settings, proof, gone, proved>>

(* handleAdminAccountsPolicyUpdate: a firewall to enforce has an address.    *)
(* An admin without an organization is refused by the save.                  *)
PolicyStart(h, a, enforce, addresses) ==
    LET o == user[a].org IN
    /\ job[h] = Idle
    /\ IsAdmin(a) /\ o # None
    /\ enforce => addresses # {}
    /\ job' = [job EXCEPT ![h] = [Idle EXCEPT !.at = "savePolicy", !.actor = a, !.org = o,
                                              !.set = enforce, !.rules = addresses]]
    /\ torn' = IF Running(<<"policy", o>>) THEN torn \union {o} ELSE torn
    /\ UNCHANGED <<accounts, settings, proof, gone, proved>>

(* SaveOrganizationAccountsPolicy.                                           *)
SavePolicy(h) ==
    LET o == job[h].org IN
    /\ job[h].at = "savePolicy"
    /\ enforced' = IF job[h].set THEN enforced \union {o} ELSE enforced \ {o}
    /\ Goes(h, "clearRules")
    /\ UNCHANGED <<accounts, rules, proof>> /\ SameHistory

(* ReplaceOrganizationFirewallRules: the old rules go, ...                   *)
ClearRules(h) ==
    /\ job[h].at = "clearRules"
    /\ rules' = [rules EXCEPT ![job[h].org] = {}]
    /\ Goes(h, "addRules")
    /\ UNCHANGED <<accounts, enforced, proof>> /\ SameHistory

(* ... and the new ones come one by one; one that is there ends it.          *)
AddRule(h) ==
    LET o == job[h].org IN
    /\ job[h].at = "addRules"
    /\ \E x \in job[h].rules :
         \/ /\ x \notin rules[o]
            /\ rules' = [rules EXCEPT ![o] = @ \union {x}]
            /\ job' = [job EXCEPT ![h].rules = @ \ {x}]
         \/ /\ x \in rules[o]
            /\ Ends(h)
            /\ UNCHANGED rules
    /\ UNCHANGED <<accounts, enforced, proof>> /\ SameHistory

(* All are in.  An update that met no other has put right what one before    *)
(* it left.                                                                  *)
PolicySaved(h) ==
    /\ job[h].at = "addRules" /\ job[h].rules = {}
    /\ Ends(h)
    /\ torn' = IF <<"policy", job[h].org>> \in met THEN torn ELSE torn \ {job[h].org}
    /\ UNCHANGED <<accounts, settings, proof, gone, proved>>

-----------------------------------------------------------------------------
(* handleOrganizationDomainValidate, and the administration page, which      *)
(* creates the proof to show it: `kind` tells them apart.                    *)
ProofStart(h, a, kind) ==
    /\ job[h] = Idle
    /\ SignedIn(a)
    /\ user[a].org # None /\ DomainOf[user[a].email] # None
    /\ job' = [job EXCEPT ![h] = [Idle EXCEPT !.at = "access", !.kind = kind, !.actor = a,
                                  !.org = user[a].org, !.email = user[a].email]]
    /\ UNCHANGED <<accounts, settings, proof>> /\ SameHistory

(* renderAdminShell shows the proof on the pages of administrators, who are  *)
(* not asked for one.                                                        *)
ShellStart(h, a) ==
    /\ job[h] = Idle
    /\ IsAdmin(a) /\ DomainOf[user[a].email] # None
    /\ job' = [job EXCEPT ![h] = [Idle EXCEPT !.at = "ensure", !.kind = "view", !.actor = a,
                                  !.org = user[a].org, !.email = user[a].email]]
    /\ UNCHANGED <<accounts, settings, proof>> /\ SameHistory

Verified(u) == proof[u] # None /\ proof[u].verified

(* canAccessOrganizationAdmin: as long as nobody of the domain has proved    *)
(* it, everybody may; ...                                                    *)
Access(h) ==
    /\ job[h].at = "access"
    /\ Goes(h, IF \E u \in UserIds : Verified(u) /\ proof[u].org = job[h].org
               THEN "ownProof" ELSE "ensure")
    /\ UNCHANGED <<accounts, settings, proof>> /\ SameHistory

(* ... then who has.                                                         *)
OwnProof(h) ==
    /\ job[h].at = "ownProof"
    /\ IF Verified(job[h].actor) THEN Goes(h, "ensure") ELSE Ends(h)
    /\ UNCHANGED <<accounts, settings, proof>> /\ SameHistory

AfterEnsure(h) == IF job[h].kind = "view" THEN Ends(h) ELSE Goes(h, "lookup")

(* Mutant: the proof is created anew by every request.                       *)
EnsureNew(h) ==
    /\ job[h].at = "ensure"
    /\ job' = [job EXCEPT ![h].at = "saveProof", ![h].set = FALSE]
    /\ UNCHANGED <<accounts, settings, proof>> /\ SameHistory

(* EnsureOrganizationAdminVerification: the row there is, if it is of this   *)
(* organization; if not a copy to save, with what the row said of the proof. *)
Ensure(h) ==
    LET row == proof[job[h].actor] IN
    /\ job[h].at = "ensure"
    /\ IF row # None /\ row.org = job[h].org
       THEN AfterEnsure(h)
       ELSE job' = [job EXCEPT ![h].at = "saveProof", ![h].set = Verified(job[h].actor)]
    /\ UNCHANGED <<accounts, settings, proof>> /\ SameHistory

(* Mutant: no foreign key.                                                   *)
SaveProofAny(h) ==
    LET a == job[h].actor IN
    /\ job[h].at = "saveProof"
    /\ proof' = [proof EXCEPT ![a] = [org |-> job[h].org, verified |-> job[h].set]]
    /\ proved' = IF <<"proof", a>> \in met THEN proved \ {a} ELSE proved
    /\ AfterEnsure(h)
    /\ UNCHANGED <<accounts, settings, gone, torn>>

(* SaveOrganizationAdminVerification writes every column, whatever the row   *)
(* says by now; refused when the user is gone.                               *)
SaveProof(h) ==
    LET a == job[h].actor IN
    /\ job[h].at = "saveProof"
    /\ IF Exists(a)
       THEN /\ proof' = [proof EXCEPT ![a] = [org |-> job[h].org, verified |-> job[h].set]]
            /\ AfterEnsure(h)
       ELSE Ends(h) /\ UNCHANGED proof
    /\ proved' = IF <<"proof", a>> \in met THEN proved \ {a} ELSE proved
    /\ UNCHANGED <<accounts, settings, gone, torn>>

(* The name servers of the domain answer with the user's value, or with      *)
(* others, or not at all; then only the time of the attempt is stored.       *)
Lookup(h) ==
    /\ job[h].at = "lookup"
    /\ Goes(h, "verify") \/ Ends(h)
    /\ UNCHANGED <<accounts, settings, proof>> /\ SameHistory

(* MarkOrganizationAdminVerificationVerified: no row, no effect.             *)
Verify(h) ==
    LET a == job[h].actor IN
    /\ job[h].at = "verify"
    /\ proof' = [proof EXCEPT ![a] = IF @ = None THEN None ELSE [@ EXCEPT !.verified = TRUE]]
    /\ proved' = IF proof[a] = None THEN proved ELSE proved \union {a}
    /\ Ends(h)
    /\ UNCHANGED <<accounts, settings, gone, torn>>

-----------------------------------------------------------------------------
(* The process stops and starts again; syncUserOrganizations then puts every *)
(* user into the organization of his domain.                                 *)
Stop ==
    /\ At({"idle"}) # Handlers
    /\ job' = [h \in Handlers |-> Idle]
    /\ user' = [u \in UserIds |-> IF Exists(u)
                                  THEN [user[u] EXCEPT !.org = HomeOf(user[u].email)]
                                  ELSE None]
    /\ torn' = torn \union {job[h].org : h \in At({"clearRules", "addRules"})}
                    \union {o \in org : \A d \in Domains : owner[d] # o}
    /\ UNCHANGED <<org, owner, settings, proof, gone, proved>>

Login(h) ==
    \/ \E e \in Emails : LoginStart(h, e)
    \/ FindOrg(h) \/ InsertDomain(h) \/ FindAgain(h) \/ DropOrg(h)
    \/ \E o \in OrgIds : InsertOrg(h, o)
    \/ FindUser(h) \/ UpdateUser(h)
    \/ \E u \in UserIds : InsertUser(h, u)

Administer(h) ==
    \/ \E a, t \in UserIds, kind \in {"suspend", "unsuspend", "delete"} :
         AdminStart(h, a, kind, t)
    \/ Target(h) \/ SetUserSuspended(h) \/ DropUser(h)

SetPolicy(h) ==
    \/ \E a \in UserIds, enforce \in BOOLEAN, addresses \in SUBSET Addresses :
         PolicyStart(h, a, enforce, addresses)
    \/ SavePolicy(h) \/ ClearRules(h) \/ AddRule(h) \/ PolicySaved(h)

Prove(h) ==
    \/ \E a \in UserIds, kind \in {"view", "validate"} : ProofStart(h, a, kind)
    \/ \E a \in UserIds : ShellStart(h, a)
    \/ Access(h) \/ OwnProof(h) \/ Ensure(h) \/ SaveProof(h) \/ Lookup(h) \/ Verify(h)

(* What overlaps, until it is over, and whose admins could act.              *)
Observe ==
    /\ met' = {t \in Topics : Running(t)' /\ (t \in met \/ Several(t)')}
    /\ staffed' = {o \in OrgOrNone :
         /\ <<"admin", o>> \notin met'
         /\ o \in staffed \/ \E u \in UserIds : ActiveAdmin(u, o)'}

Next ==
    /\ \/ \E h \in Handlers : Login(h) \/ Administer(h) \/ SetPolicy(h) \/ Prove(h)
       \/ Stop
    /\ Observe

Spec == Init /\ [][Next]_vars

-----------------------------------------------------------------------------
(* However the first logins of a domain overlap or stop, there is one        *)
(* organization for it: every user is in the one that owns the domain of his *)
(* address (or in none), and one that owns no domain is in the hands of a    *)
(* login, or was left by one that stopped (EnsureOrganizationForDomain).     *)
OneOrganization ==
    /\ \A u \in UserIds : Exists(u) =>
         /\ user[u].org = HomeOf(user[u].email)
         /\ DomainOf[user[u].email] # None => user[u].org # None
    /\ \A o \in org \ torn :
         \/ \E d \in Domains : owner[d] = o
         \/ \E h \in At({"insertDomain", "findAgain", "dropOrg"}) : job[h].org = o

(* A user who was deleted stays deleted, whatever of his was still running:  *)
(* no login, suspension or policy that began before brings the row back      *)
(* (DeleteUser, CreateOrUpdateUser).                                         *)
DeletedStayDeleted == \A u \in UserIds \intersect gone : ~Exists(u)

(* A proof that was stored stands as long as its user does, unless two       *)
(* requests of the user created it at the same time: then the slower one     *)
(* writes its copy over the proof (EnsureOrganizationAdminVerification).     *)
ProofStands == \A u \in proved : Verified(u)

(* An organization that had an administrator who could act keeps one: no     *)
(* sequence of suspensions, deletions and logins locks all of them out.      *)
(* Only two who act at the same time can: they suspend each other            *)
(* (handleAdminUserRoutes).                                                  *)
AnAdminRemains == \A o \in staffed : \E u \in UserIds : ActiveAdmin(u, o)

(* A firewall that is enforced has an address, although the switch and the   *)
(* addresses are stored by several statements; only an update that stopped   *)
(* or overlapped another leaves it without, and the next one that does not   *)
(* puts it right (handleAdminAccountsPolicyUpdate).                          *)
EnforcedHasRules ==
    \A o \in enforced \ torn : ~Running(<<"policy", o>>) => rules[o] # {}
=============================================================================
