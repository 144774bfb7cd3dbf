------------------------------ MODULE Sessions ------------------------------
(***************************************************************************)
(* How one user of an organization signs in to the console, proves and     *)
(* sets up the second factor, and what every console request checks before *)
(* it acts, while an administrator changes the organization's policy or    *)
(* suspends the user.                                                      *)
(*                                                                         *)
(* Requests run side by side, a step per SQL statement.  The OAuth state   *)
(* of a login, names, times and audit rows are left out: a session may end *)
(* at any time, and a code is accepted or not.                             *)
(***************************************************************************)
EXTENDS Naturals

CONSTANTS
    SessionIds,  \* sessions, each generated once (bound)
    Handlers,    \* requests in flight (bound)
    MaxSecret,   \* how many secrets are generated (bound)
    None

VARIABLES
    session,     \* sessions: "unused", "pending", "verified" or "gone"
    twoFactor,   \* user_two_factor_settings of the user
    policy,      \* organization_accounts_policies, or None before the first read
    suspended,   \* users.is_suspended
    job,         \* per request: its locals and where it stands
    lastSecret,  \* the secrets generated so far are 1..lastSecret
    confirmed,   \* history: the secrets a set-up has accepted a code for
    seen,        \* history: the factors that were in force while a request ran
    met,         \* history: the conditions that held at some time while it ran
    owes         \* history: a session that still has to prove its second factor

tables == <<session, twoFactor, policy, suspended>>
locals == <<job, lastSecret>>
proofs == <<confirmed, owes>>
vars == <<tables, locals, proofs, seen, met>>

-----------------------------------------------------------------------------
Secrets == 1..MaxSecret

(* A factor is enabled with its secret, or being set up, or neither. *)
TwoFactor ==
    {row \in [enabled : BOOLEAN, secret : Secrets \union {None}, pending : Secrets \union {None}] :
       /\ row.enabled <=> row.secret # None
       /\ row.enabled => row.pending = None}
Disabled == [enabled |-> FALSE, secret |-> None, pending |-> None]

(* RequireTwoFactor and AllowUserTwoFactorReset. *)
Policy == [require : BOOLEAN, userReset : BOOLEAN]
DefaultPolicy == [require |-> FALSE, userReset |-> FALSE]

(* Requests by the stage their checks lead to, which is where their kind     *)
(* first matters; only "acting", the console proper, is closed to a user who *)
(* has yet to set up a second factor.                                        *)
Kinds == {"acting", "page", "start", "confirm", "cancel", "reset"}

Idle == [at |-> "idle"]
LoginJob == [at : {"loginRead"}] \union [at : {"loginSave"}, required : BOOLEAN]
ChallengeJob == [at : {"challengeUser", "challengeSecret"}, session : SessionIds]
VerifyJob == [at : {"verify"}, session : SessionIds, secret : Secrets]
CheckJob == [at : {"user", "policy", "default", "enrolled"}]
BodyJob ==
    [at : Kinds \union {"required", "setup", "setupSave", "cancelSave", "resetAllowed", "resetSave"}]
EnableJob == [at : {"enable"}, secret : Secrets]
Job == {Idle} \union LoginJob \union ChallengeJob \union VerifyJob
         \union CheckJob \union BodyJob \union EnableJob

ASSUME SessionsAssumption ==
    /\ MaxSecret \in Nat
    /\ None \notin Secrets \union Policy

(* What a request may find of its user and of the policy. *)
Conditions == {"active", "enrolled", "optional", "resettable"}

TypeOK ==
    /\ session \in [SessionIds -> {"unused", "pending", "verified", "gone"}]
    /\ twoFactor \in TwoFactor
    /\ policy \in Policy \union {None}
    /\ suspended \in BOOLEAN
    /\ job \in [Handlers -> Job]
    /\ lastSecret \in 0..MaxSecret
    /\ confirmed \in SUBSET Secrets
    /\ seen \in [Handlers -> SUBSET (Secrets \union {None})]
    /\ met \in [Handlers -> SUBSET Conditions]
    /\ owes \in [SessionIds -> BOOLEAN]

Init ==
    /\ session = [s \in SessionIds |-> "unused"]
    /\ twoFactor = Disabled
    /\ policy = None
    /\ suspended = FALSE
    /\ job = [h \in Handlers |-> Idle]
    /\ lastSecret = 0
    /\ confirmed = {}
    /\ seen = [h \in Handlers |-> {}]
    /\ met = [h \in Handlers |-> {}]
    /\ owes = [s \in SessionIds |-> FALSE]

-----------------------------------------------------------------------------
Goes(h, j) == job' = [job EXCEPT ![h] = j]

(* A request that only reads. *)
Reads == UNCHANGED <<tables, lastSecret, proofs>>

-----------------------------------------------------------------------------
(* handleGoogleCallback: CreateOrUpdateUser, and no session for a suspended  *)
(* user.                                                                     *)
LoginStart(h) ==
    /\ job[h] = Idle
    /\ ~suspended
    /\ Goes(h, [at |-> "loginRead"])
    /\ Reads

(* Mutant: the second factor is asked for where the organization demands it. *)
LoginReadManaged(h) ==
    /\ job[h].at = "loginRead"
    /\ Goes(h, [at |-> "loginSave",
                required |-> twoFactor.enabled /\ policy # None /\ policy.require])
    /\ Reads

(* Does the user have to prove a second factor? *)
LoginRead(h) ==
    /\ job[h].at = "loginRead"
    /\ Goes(h, [at |-> "loginSave", required |-> twoFactor.enabled])
    /\ Reads

(* CreateSessionWithSecondFactor.  The session owes a code if the factor was *)
(* in force as long as the login took.                                       *)
LoginSave(h, s) ==
    /\ job[h].at = "loginSave"
    /\ session[s] = "unused"
    /\ session' = [session EXCEPT ![s] = IF job[h].required THEN "pending" ELSE "verified"]
    /\ owes' = [owes EXCEPT ![s] = None \notin seen[h]]
    /\ Goes(h, Idle)
    /\ UNCHANGED <<twoFactor, policy, suspended, lastSecret, confirmed>>

(* handleLogout, or the deletion of a session that has run out. *)
SessionEnd(s) ==
    /\ session[s] \in {"pending", "verified"}
    /\ session' = [session EXCEPT ![s] = "gone"]
    /\ UNCHANGED <<twoFactor, policy, suspended, locals, proofs>>

-----------------------------------------------------------------------------
(* handleTwoFactorChallengeVerify: a session that is pending, ... *)
ChallengeSession(h, s) ==
    /\ job[h] = Idle
    /\ session[s] = "pending"
    /\ Goes(h, [at |-> "challengeUser", session |-> s])
    /\ Reads

(* ... of a user who is not suspended, ... *)
ChallengeUser(h) ==
    /\ job[h].at = "challengeUser"
    /\ ~suspended
    /\ Goes(h, [at |-> "challengeSecret", session |-> job[h].session])
    /\ Reads

(* ... and a code of the secret in force; without one the browser is sent    *)
(* back to the start page, which sends it here.                              *)
ChallengeSecret(h) ==
    /\ job[h].at = "challengeSecret"
    /\ twoFactor.enabled
    /\ Goes(h, [at |-> "verify", session |-> job[h].session, secret |-> twoFactor.secret])
    /\ Reads

(* UpdateSessionSecondFactorVerified: no row, no effect. *)
ChallengeVerify(h) ==
    LET s == job[h].session IN
    /\ job[h].at = "verify"
    /\ session' = [session EXCEPT ![s] = IF @ = "pending" THEN "verified" ELSE @]
    /\ owes' = [owes EXCEPT ![s] = @ /\ job[h].secret \notin seen[h]]
    /\ Goes(h, Idle)
    /\ UNCHANGED <<twoFactor, policy, suspended, lastSecret, confirmed>>

-----------------------------------------------------------------------------
(* requireSessionUser: the session, ... *)
CheckSession(h, s) ==
    /\ job[h] = Idle
    /\ session[s] = "verified"
    /\ Goes(h, [at |-> "user"])
    /\ Reads

(* Mutant: a suspended user keeps the sessions there are. *)
CheckUserOnly(h) ==
    /\ job[h].at = "user"
    /\ Goes(h, [at |-> "policy"])
    /\ Reads

(* ... its user, ... *)
CheckUser(h) ==
    /\ job[h].at = "user"
    /\ ~suspended
    /\ Goes(h, [at |-> "policy"])
    /\ Reads

(* ... the organization's policy, saved with defaults and read again if      *)
(* there is none, ...                                                        *)
CheckPolicy(h) ==
    /\ job[h].at = "policy"
    /\ \/ policy = None /\ Goes(h, [at |-> "default"])
       \/ policy # None /\ policy.require /\ Goes(h, [at |-> "enrolled"])
       \/ policy # None /\ ~policy.require /\ \E kind \in Kinds : Goes(h, [at |-> kind])
    /\ Reads

CheckDefault(h) ==
    /\ job[h].at = "default"
    /\ policy' = DefaultPolicy
    /\ Goes(h, [at |-> "policy"])
    /\ UNCHANGED <<session, twoFactor, suspended, lastSecret, proofs>>

(* ... and the factor it demands, which the enrolment pages do without. *)
CheckEnrolled(h) ==
    /\ job[h].at = "enrolled"
    /\ \E kind \in Kinds :
          /\ kind = "acting" => twoFactor.enabled
          /\ Goes(h, [at |-> kind])
    /\ Reads

(* The request is refused where a condition fails, a statement fails, a code *)
(* is wrong, the client or the process goes; or it is done.                  *)
Stop(h) ==
    /\ job[h] # Idle
    /\ Goes(h, Idle)
    /\ Reads

-----------------------------------------------------------------------------
(* handleIndex: a user with neither a factor nor a set-up under way ... *)
PageRead(h) ==
    /\ job[h].at = "page"
    /\ ~twoFactor.enabled /\ twoFactor.pending = None
    /\ Goes(h, [at |-> "required"])
    /\ Reads

(* ... is set up with one that is demanded. *)
PageRequired(h) ==
    /\ job[h].at = "required"
    /\ policy # None /\ policy.require
    /\ Goes(h, [at |-> "setup"])
    /\ Reads

(* handleTwoFactorSetupStart: a factor in force has to be reset first. *)
StartRead(h) ==
    /\ job[h].at = "start"
    /\ ~twoFactor.enabled
    /\ Goes(h, [at |-> "setup"])
    /\ Reads

(* ensureUserTwoFactorPendingSecret: no factor is in force or pending, ... *)
SetupRead(h) ==
    /\ job[h].at = "setup"
    /\ ~twoFactor.enabled /\ twoFactor.pending = None
    /\ Goes(h, [at |-> "setupSave"])
    /\ Reads

(* ... so SaveUserTwoFactorPendingSecret replaces whatever there is. *)
SetupSave(h) ==
    /\ job[h].at = "setupSave"
    /\ lastSecret < MaxSecret
    /\ lastSecret' = lastSecret + 1
    /\ twoFactor' = [Disabled EXCEPT !.pending = lastSecret']
    /\ Goes(h, Idle)
    /\ UNCHANGED <<session, policy, suspended, proofs>>

(* handleTwoFactorSetupConfirm: a code of the pending secret, ... *)
ConfirmCode(h) ==
    /\ job[h].at = "confirm"
    /\ twoFactor.pending # None
    /\ confirmed' = confirmed \union {twoFactor.pending}
    /\ Goes(h, [at |-> "enable", secret |-> twoFactor.pending])
    /\ UNCHANGED <<tables, lastSecret, owes>>

(* Mutant: the secret that is pending now. *)
ConfirmEnableCurrent(h) ==
    /\ job[h].at = "enable"
    /\ twoFactor.pending # None
    /\ twoFactor' = [enabled |-> TRUE, secret |-> twoFactor.pending, pending |-> None]
    /\ Goes(h, Idle)
    /\ UNCHANGED <<session, policy, suspended, lastSecret, proofs>>

(* ... which EnableUserTwoFactor puts in force. *)
ConfirmEnable(h) ==
    /\ job[h].at = "enable"
    /\ twoFactor' = [enabled |-> TRUE, secret |-> job[h].secret, pending |-> None]
    /\ Goes(h, Idle)
    /\ UNCHANGED <<session, policy, suspended, lastSecret, proofs>>

(* handleTwoFactorSetupCancel, unless the factor is demanded. *)
CancelRequired(h) ==
    /\ job[h].at = "cancel"
    /\ policy # None /\ ~policy.require
    /\ Goes(h, [at |-> "cancelSave"])
    /\ Reads

CancelSave(h) ==
    /\ job[h].at = "cancelSave"
    /\ twoFactor' = [twoFactor EXCEPT !.pending = None]
    /\ Goes(h, Idle)
    /\ UNCHANGED <<session, policy, suspended, lastSecret, proofs>>

(* handleTwoFactorReset: the policy is read for what it demands, ... *)
ResetRequired(h) ==
    /\ job[h].at = "reset"
    /\ policy # None /\ ~policy.require
    /\ Goes(h, [at |-> "resetAllowed"])
    /\ Reads

(* Mutant: the second look at the policy is not asked what it allows. *)
ResetAllowedUnasked(h) ==
    /\ job[h].at = "resetAllowed"
    /\ policy # None
    /\ Goes(h, [at |-> "resetSave"])
    /\ Reads

(* ... and again for what it allows. *)
ResetAllowed(h) ==
    /\ job[h].at = "resetAllowed"
    /\ policy # None /\ policy.userReset
    /\ Goes(h, [at |-> "resetSave"])
    /\ Reads

(* Mutant: the secrets go and the switch stays. *)
ResetSaveSecrets(h) ==
    /\ job[h].at = "resetSave"
    /\ twoFactor' = [twoFactor EXCEPT !.secret = None, !.pending = None]
    /\ Goes(h, Idle)
    /\ UNCHANGED <<session, policy, suspended, lastSecret, proofs>>

ResetSave(h) ==
    /\ job[h].at = "resetSave"
    /\ twoFactor' = Disabled
    /\ Goes(h, Idle)
    /\ UNCHANGED <<session, policy, suspended, lastSecret, proofs>>

-----------------------------------------------------------------------------
(* handleAdminAccountsPolicyUpdate; the administrator's own request has seen *)
(* to it that there is a policy.                                             *)
PolicySave(p) ==
    /\ policy # None
    /\ policy' = p
    /\ UNCHANGED <<session, twoFactor, suspended, locals, proofs>>

(* handleAdminUserRoutes, "suspend" and "unsuspend". *)
SetUserSuspended(b) ==
    /\ suspended' = b
    /\ UNCHANGED <<session, twoFactor, policy, locals, proofs>>

-----------------------------------------------------------------------------
Login(h) == LoginStart(h) \/ LoginRead(h) \/ (\E s \in SessionIds : LoginSave(h, s))

Challenge(h) ==
    \/ \E s \in SessionIds : ChallengeSession(h, s)
    \/ ChallengeUser(h) \/ ChallengeSecret(h) \/ ChallengeVerify(h)

Check(h) ==
    \/ \E s \in SessionIds : CheckSession(h, s)
    \/ CheckUser(h) \/ CheckPolicy(h) \/ CheckDefault(h) \/ CheckEnrolled(h)

Settings(h) ==
    \/ PageRead(h) \/ PageRequired(h) \/ StartRead(h) \/ SetupRead(h) \/ SetupSave(h)
    \/ ConfirmCode(h) \/ ConfirmEnable(h)
    \/ CancelRequired(h) \/ CancelSave(h)
    \/ ResetRequired(h) \/ ResetAllowed(h) \/ ResetSave(h)

Admin ==
    \/ \E p \in Policy : PolicySave(p)
    \/ \E b \in BOOLEAN : SetUserSuspended(b)

(* What the tables say, as the requests that run could see it: the factor in *)
(* force, whether the user may be let in, and whether a factor may go.        *)
Factor == IF twoFactor.enabled THEN twoFactor.secret ELSE None
Enrolled == policy # None /\ (policy.require => twoFactor.enabled)
Optional == policy # None /\ ~policy.require
Resettable == policy # None /\ policy.userReset
Holds ==
    {c \in Conditions :
       \/ c = "active" /\ ~suspended
       \/ c = "enrolled" /\ Enrolled
       \/ c = "optional" /\ Optional
       \/ c = "resettable" /\ Resettable}

Observe ==
    /\ seen' = [h \in Handlers |-> IF job'[h] = Idle THEN {} ELSE seen[h] \union {Factor'}]
    /\ met' = [h \in Handlers |-> IF job'[h] = Idle THEN {} ELSE met[h] \union Holds']

Next ==
    /\ \/ \E h \in Handlers : Login(h) \/ Challenge(h) \/ Check(h) \/ Settings(h) \/ Stop(h)
       \/ \E s \in SessionIds : SessionEnd(s)
       \/ Admin
    /\ Observe

Spec == Init /\ [][Next]_vars

-----------------------------------------------------------------------------
(* Nobody is signed in without the second factor: a session that was created *)
(* by a login during all of which a factor was in force is verified only by  *)
(* a code of a secret that was in force while the challenge ran.             *)
NoSignInWithoutCode == \A s \in SessionIds : session[s] = "verified" => ~owes[s]

(* The secret in force is one the user has shown a code for, whatever other  *)
(* set-ups, cancellations and resets ran between the code and the save:      *)
(* nobody is locked out by a secret that is in no authenticator.             *)
FactorWasConfirmed == twoFactor.enabled => twoFactor.secret \in confirmed

(* A request gets to act in the console only if, while it ran, its user was  *)
(* at some time not suspended and at some time as enrolled as the policy of  *)
(* the organization demanded.                                                *)
ActsPermitted == \A h \in Handlers : job[h].at = "acting" => {"active", "enrolled"} \subseteq met[h]

(* The step that takes a factor in force away or replaces its secret is the  *)
(* last of a set-up that found no factor in force at some time while it ran, *)
(* or of a reset during which the policy at some time did not demand one and *)
(* at some time let users reset theirs.                                      *)
FactorDrop ==
    twoFactor.enabled /\ twoFactor'.secret # twoFactor.secret =>
        \E h \in Handlers :
            \/ (SetupSave(h) \/ ConfirmEnable(h)) /\ None \in seen[h]
            \/ ResetSave(h) /\ {"optional", "resettable"} \subseteq met[h]

(* A second factor in force goes no other way: no cancellation, reset or     *)
(* set-up that the checks should have stopped takes it away, however the     *)
(* policy and the factor change between a check and the save.                *)
FactorDropPermitted == [][FactorDrop]_vars
=============================================================================
