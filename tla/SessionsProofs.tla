--------------------------- MODULE SessionsProofs ---------------------------
(***************************************************************************)
(* Theorems about Sessions for every value of its constants: any number of *)
(* sessions, secrets and requests in flight.                               *)
(***************************************************************************)
EXTENDS Sessions, TLAPS

(* What a request that has come so far has seen: the strengthening that      *)
(* makes the three invariants inductive and bears the action property out.   *)
Came(h) ==
    /\ job[h].at = "loginSave" /\ ~job[h].required => None \in seen[h]
    /\ job[h].at = "verify" => job[h].secret \in seen[h]
    /\ job[h].at = "enable" => job[h].secret \in confirmed
    /\ job[h].at \in {"policy", "default", "enrolled", "acting"} => "active" \in met[h]
    /\ job[h].at = "enrolled" => policy # None
    /\ job[h].at = "acting" => "enrolled" \in met[h]
    /\ job[h].at \in {"setupSave", "enable"} => None \in seen[h]
    /\ job[h].at \in {"resetAllowed", "resetSave"} => "optional" \in met[h]
    /\ job[h].at = "resetSave" => "resettable" \in met[h]

SessionsInv ==
    /\ TypeOK
    /\ \A h \in Handlers : Came(h)
    /\ NoSignInWithoutCode
    /\ FactorWasConfirmed

-----------------------------------------------------------------------------
(* Where a request stands tells which locals it has.                         *)
LEMMA JobShapes ==
  ASSUME NEW j \in Job
  PROVE  /\ j.at = "loginSave" => j.required \in BOOLEAN
         /\ j.at \in {"challengeUser", "challengeSecret"} => j \in ChallengeJob
         /\ j.at = "verify" => j \in VerifyJob
         /\ j.at = "enable" => j \in EnableJob
  BY DEF Job, Idle, LoginJob, ChallengeJob, VerifyJob, CheckJob, BodyJob, EnableJob, Kinds

(* The jobs that a step may move to.                                         *)
LEMMA JobsOfType ==
  /\ Idle \in Job
  /\ \A stage \in {"user", "policy", "default", "enrolled", "loginRead", "required", "setup", "setupSave",
                   "cancelSave", "resetAllowed", "resetSave"} \union Kinds :
        [at |-> stage] \in Job
  /\ \A b \in BOOLEAN : [at |-> "loginSave", required |-> b] \in Job
  /\ \A s \in SessionIds : /\ [at |-> "challengeUser", session |-> s] \in Job
                           /\ [at |-> "challengeSecret", session |-> s] \in Job
  /\ \A s \in SessionIds, x \in Secrets : [at |-> "verify", session |-> s, secret |-> x] \in Job
  /\ \A x \in Secrets : [at |-> "enable", secret |-> x] \in Job
  BY DEF Job, LoginJob, ChallengeJob, VerifyJob, CheckJob, BodyJob, EnableJob, Kinds

-----------------------------------------------------------------------------
(* Types.  The tables, the locals and what a set-up or a login has proved    *)
(* are typed after each action; the rest of the history follows from them.   *)
TypedTables ==
    /\ session \in [SessionIds -> {"unused", "pending", "verified", "gone"}]
    /\ twoFactor \in TwoFactor
    /\ policy \in Policy \union {None}
    /\ suspended \in BOOLEAN
TypedRest ==
    /\ job \in [Handlers -> Job]
    /\ lastSecret \in 0..MaxSecret
    /\ confirmed \in SUBSET Secrets
    /\ owes \in [SessionIds -> BOOLEAN]

LEMMA TypeLogin ==
  ASSUME TypeOK, NEW h \in Handlers, Login(h)
  PROVE  TypedTables' /\ TypedRest'
  <1> USE DEF TypeOK, TypedTables, TypedRest, Goes
  <1>1. CASE LoginStart(h)
    BY <1>1, JobsOfType DEF LoginStart, Reads, tables, proofs
  <1>2. CASE LoginRead(h)
    <2>1. twoFactor.enabled \in BOOLEAN
      BY DEF TwoFactor
    <2> QED
      BY <1>2, <2>1, JobsOfType DEF LoginRead, Reads, tables, proofs
  <1>3. ASSUME NEW s \in SessionIds, LoginSave(h, s) PROVE TypedTables' /\ TypedRest'
    BY <1>3, JobsOfType DEF LoginSave
  <1> QED
    BY <1>1, <1>2, <1>3 DEF Login

LEMMA TypeChallenge ==
  ASSUME TypeOK, NEW h \in Handlers, Challenge(h)
  PROVE  TypedTables' /\ TypedRest'
  <1> USE DEF TypeOK, TypedTables, TypedRest, Goes
  <1>1. ASSUME NEW s \in SessionIds, ChallengeSession(h, s) PROVE TypedTables' /\ TypedRest'
    BY <1>1, JobsOfType DEF ChallengeSession, Reads, tables, proofs
  <1>2. CASE ChallengeUser(h)
    <2>1. job[h].session \in SessionIds
      BY <1>2, JobShapes DEF ChallengeUser, ChallengeJob
    <2> QED
      BY <1>2, <2>1, JobsOfType DEF ChallengeUser, Reads, tables, proofs
  <1>3. CASE ChallengeSecret(h)
    <2>1. job[h].session \in SessionIds /\ twoFactor.secret \in Secrets
      BY <1>3, JobShapes DEF ChallengeSecret, ChallengeJob, TwoFactor
    <2> QED
      BY <1>3, <2>1, JobsOfType DEF ChallengeSecret, Reads, tables, proofs
  <1>4. CASE ChallengeVerify(h)
    BY <1>4, JobsOfType DEF ChallengeVerify
  <1> QED
    BY <1>1, <1>2, <1>3, <1>4 DEF Challenge

LEMMA TypeCheck ==
  ASSUME TypeOK, NEW h \in Handlers, Check(h)
  PROVE  TypedTables' /\ TypedRest'
  <1> USE DEF TypeOK, TypedTables, TypedRest, Goes
  <1>1. ASSUME NEW s \in SessionIds, CheckSession(h, s) PROVE TypedTables' /\ TypedRest'
    BY <1>1, JobsOfType DEF CheckSession, Reads, tables, proofs
  <1>2. CASE CheckUser(h)
    BY <1>2, JobsOfType DEF CheckUser, Reads, tables, proofs
  <1>3. CASE CheckPolicy(h)
    <2>1. \E j \in Job : Goes(h, j)
      BY <1>3, JobsOfType DEF CheckPolicy
    <2> QED
      BY <1>3, <2>1 DEF CheckPolicy, Reads, tables, proofs
  <1>4. CASE CheckDefault(h)
    BY <1>4, JobsOfType DEF CheckDefault, Policy, DefaultPolicy, proofs
  <1>5. CASE CheckEnrolled(h)
    <2>1. \E j \in Job : Goes(h, j)
      BY <1>5, JobsOfType DEF CheckEnrolled
    <2> QED
      BY <1>5, <2>1 DEF CheckEnrolled, Reads, tables, proofs
  <1> QED
    BY <1>1, <1>2, <1>3, <1>4, <1>5 DEF Check

LEMMA TypeSettings ==
  ASSUME TypeOK, NEW h \in Handlers, Settings(h)
  PROVE  TypedTables' /\ TypedRest'
  <1> USE DEF TypeOK, TypedTables, TypedRest, Goes
  <1>1. CASE PageRead(h) \/ PageRequired(h) \/ StartRead(h)
    BY <1>1, JobsOfType DEF PageRead, PageRequired, StartRead, Reads, tables, proofs
  <1>2. CASE SetupRead(h)
    BY <1>2, JobsOfType DEF SetupRead, Reads, tables, proofs
  <1>3. CASE SetupSave(h)
    <2>1. lastSecret' \in Secrets
      BY <1>3, SessionsAssumption DEF SetupSave, Secrets
    <2>2. twoFactor' \in TwoFactor
      BY <1>3, <2>1 DEF SetupSave, TwoFactor, Disabled
    <2> QED
      BY <1>3, <2>1, <2>2, JobsOfType DEF SetupSave, Secrets, proofs
  <1>4. CASE ConfirmCode(h)
    <2>1. twoFactor.pending \in Secrets
      BY <1>4 DEF ConfirmCode, TwoFactor
    <2> QED
      BY <1>4, <2>1, JobsOfType DEF ConfirmCode, tables
  <1>5. CASE ConfirmEnable(h)
    <2>1. job[h].secret \in Secrets
      BY <1>5, JobShapes DEF ConfirmEnable, EnableJob
    <2>2. twoFactor' \in TwoFactor
      BY <1>5, <2>1, SessionsAssumption DEF ConfirmEnable, TwoFactor
    <2> QED
      BY <1>5, <2>2, JobsOfType DEF ConfirmEnable, proofs
  <1>6. CASE CancelRequired(h)
    BY <1>6, JobsOfType DEF CancelRequired, Reads, tables, proofs
  <1>7. CASE CancelSave(h)
    <2>1. twoFactor' \in TwoFactor
      BY <1>7 DEF CancelSave, TwoFactor
    <2> QED
      BY <1>7, <2>1, JobsOfType DEF CancelSave, proofs
  <1>8. CASE ResetRequired(h)
    BY <1>8, JobsOfType DEF ResetRequired, Reads, tables, proofs
  <1>9. CASE ResetAllowed(h)
    BY <1>9, JobsOfType DEF ResetAllowed, Reads, tables, proofs
  <1>10. CASE ResetSave(h)
    BY <1>10, JobsOfType DEF ResetSave, TwoFactor, Disabled, proofs
  <1> QED
    BY <1>1, <1>2, <1>3, <1>4, <1>5, <1>6, <1>7, <1>8, <1>9, <1>10 DEF Settings

LEMMA TypeStep == TypeOK /\ [Next]_vars => TypeOK'
  <1> SUFFICES ASSUME TypeOK, [Next]_vars PROVE TypeOK'
    OBVIOUS
  <1>1. CASE Next
    <2>1. TypedTables' /\ TypedRest'
      <3>1. ASSUME NEW h \in Handlers, Stop(h) PROVE TypedTables' /\ TypedRest'
        BY <3>1, JobsOfType DEF Stop, Goes, Reads, TypeOK, TypedTables, TypedRest, tables, proofs
      <3>2. ASSUME NEW s \in SessionIds, SessionEnd(s) PROVE TypedTables' /\ TypedRest'
        BY <3>2 DEF SessionEnd, TypeOK, TypedTables, TypedRest, locals, proofs
      <3>3. CASE Admin
        BY <3>3 DEF Admin, PolicySave, SetUserSuspended, TypeOK, TypedTables, TypedRest,
                    locals, proofs
      <3> QED
        BY <1>1, <3>1, <3>2, <3>3, TypeLogin, TypeChallenge, TypeCheck, TypeSettings DEF Next
    <2>2. Factor' \in Secrets \union {None}
      BY <2>1 DEF Factor, TypedTables, TwoFactor
    <2>3. Holds' \subseteq Conditions
      BY DEF Holds
    <2>4. Observe
      BY <1>1 DEF Next
    <2>5. seen' \in [Handlers -> SUBSET (Secrets \union {None})]
      BY <2>2, <2>4 DEF Observe, TypeOK
    <2>6. met' \in [Handlers -> SUBSET Conditions]
      BY <2>3, <2>4 DEF Observe, TypeOK
    <2> QED
      BY <2>1, <2>5, <2>6 DEF TypeOK, TypedTables, TypedRest
  <1>2. CASE UNCHANGED vars
    BY <1>2 DEF TypeOK, vars, tables, locals, proofs
  <1> QED
    BY <1>1, <1>2

LEMMA InitTyped == Init => TypeOK
  <1>1. Disabled \in TwoFactor
    BY DEF Disabled, TwoFactor
  <1>2. 0 \in 0..MaxSecret
    BY SessionsAssumption
  <1> QED
    BY <1>1, <1>2, JobsOfType DEF Init, TypeOK

(* Every reachable state is typed; an enabled factor has a secret and no     *)
(* set-up pending (user_two_factor_settings).                                *)
THEOREM SessionsTypeCorrect == Spec => []TypeOK
  BY InitTyped, TypeStep, PTL DEF Spec

-----------------------------------------------------------------------------
LEMMA DefaultIsPolicy == DefaultPolicy # None
  <1>1. DefaultPolicy \in Policy
    BY DEF Policy, DefaultPolicy
  <1> QED
    BY <1>1, SessionsAssumption

(* What a step of one request leaves to the others: their locals, the codes  *)
(* accepted, and a policy once there is one.                                 *)
LEMMA StepsAlone ==
  ASSUME TypeOK, NEW h \in Handlers,
         Login(h) \/ Challenge(h) \/ Check(h) \/ Settings(h) \/ Stop(h)
  PROVE  /\ \A g \in Handlers \ {h} : job'[g] = job[g]
         /\ confirmed \subseteq confirmed'
         /\ policy # None => policy' # None
  <1> USE DEF TypeOK, Goes, Reads, tables, proofs
  <1>1. CASE Login(h)
    BY <1>1 DEF Login, LoginStart, LoginRead, LoginSave
  <1>2. CASE Challenge(h)
    BY <1>2 DEF Challenge, ChallengeSession, ChallengeUser, ChallengeSecret, ChallengeVerify
  <1>3. CASE Check(h)
    <2>1. DefaultPolicy # None
      BY DefaultIsPolicy
    <2> QED
      BY <1>3, <2>1 DEF Check, CheckSession, CheckUser, CheckPolicy, CheckDefault, CheckEnrolled
  <1>4. CASE Settings(h)
    BY <1>4 DEF Settings, PageRead, PageRequired, StartRead, SetupRead, SetupSave,
                ConfirmCode, ConfirmEnable,
                CancelRequired, CancelSave, ResetRequired, ResetAllowed, ResetSave
  <1>5. CASE Stop(h)
    BY <1>5 DEF Stop
  <1> QED
    BY <1>1, <1>2, <1>3, <1>4, <1>5

(* A request that does not step keeps what it has seen. *)
LEMMA CameKept ==
  ASSUME TypeOK, NEW g \in Handlers, Came(g), Observe, job'[g] = job[g],
         confirmed \subseteq confirmed', policy # None => policy' # None
  PROVE  Came(g)'
  <1>1. CASE job[g] = Idle
    BY <1>1 DEF Came, Idle
  <1>2. CASE job[g] # Idle
    <2>1. seen[g] \subseteq seen'[g] /\ met[g] \subseteq met'[g]
      BY <1>2 DEF Observe, TypeOK
    <2> QED
      BY <2>1 DEF Came
  <1> QED
    BY <1>1, <1>2

(* What a step observes for a request that is not over. *)
LEMMA Observed ==
  ASSUME TypeOK, NEW h \in Handlers, Observe, job'[h] # Idle
  PROVE  /\ seen'[h] = seen[h] \union {Factor'}
         /\ met'[h] = met[h] \union Holds'
  BY DEF Observe, TypeOK

(* The stages of which nothing has to be known. *)
Plain == {"idle", "loginRead", "challengeUser", "challengeSecret", "user",
          "page", "start", "confirm", "cancel", "reset",
          "required", "setup", "cancelSave"}
LEMMA PlainCame ==
  ASSUME NEW h \in Handlers, job'[h].at \in Plain
  PROVE  Came(h)'
  BY DEF Plain, Came

LEMMA CameLogin ==
  ASSUME TypeOK, NEW h \in Handlers, Came(h), Observe, Login(h)
  PROVE  Came(h)'
  <1> USE DEF TypeOK, Goes
  <1>1. CASE LoginStart(h)
    BY <1>1, PlainCame DEF LoginStart, Plain
  <1>2. CASE LoginRead(h)
    <2>1. job'[h] = [at |-> "loginSave", required |-> twoFactor.enabled]
      BY <1>2 DEF LoginRead
    <2>2. twoFactor' = twoFactor
      BY <1>2 DEF LoginRead, Reads, tables
    <2>3. ~twoFactor.enabled => None \in seen'[h]
      BY <2>1, <2>2, Observed DEF Idle, Factor
    <2> QED
      BY <2>1, <2>3 DEF Came
  <1>3. ASSUME NEW s \in SessionIds, LoginSave(h, s) PROVE Came(h)'
    BY <1>3, PlainCame DEF LoginSave, Plain, Idle
  <1> QED
    BY <1>1, <1>2, <1>3 DEF Login

LEMMA CameChallenge ==
  ASSUME TypeOK, NEW h \in Handlers, Came(h), Observe, Challenge(h)
  PROVE  Came(h)'
  <1> USE DEF TypeOK, Goes
  <1>1. ASSUME NEW s \in SessionIds, ChallengeSession(h, s) PROVE Came(h)'
    BY <1>1, PlainCame DEF ChallengeSession, Plain
  <1>2. CASE ChallengeUser(h)
    BY <1>2, PlainCame DEF ChallengeUser, Plain
  <1>3. CASE ChallengeSecret(h)
    <2>1. job'[h] = [at |-> "verify", session |-> job[h].session, secret |-> twoFactor.secret]
      BY <1>3 DEF ChallengeSecret
    <2>2. twoFactor' = twoFactor /\ twoFactor.enabled
      BY <1>3 DEF ChallengeSecret, Reads, tables
    <2>3. twoFactor.secret \in seen'[h]
      BY <2>1, <2>2, Observed DEF Idle, Factor
    <2> QED
      BY <2>1, <2>3 DEF Came
  <1>4. CASE ChallengeVerify(h)
    BY <1>4, PlainCame DEF ChallengeVerify, Plain, Idle
  <1> QED
    BY <1>1, <1>2, <1>3, <1>4 DEF Challenge

LEMMA CameCheck ==
  ASSUME TypeOK, NEW h \in Handlers, Came(h), Observe, Check(h)
  PROVE  Came(h)'
  <1> USE DEF TypeOK, Goes
  <1>1. ASSUME NEW s \in SessionIds, CheckSession(h, s) PROVE Came(h)'
    BY <1>1, PlainCame DEF CheckSession, Plain
  <1>2. CASE CheckUser(h)
    <2>1. job'[h] = [at |-> "policy"] /\ ~suspended'
      BY <1>2 DEF CheckUser, Reads, tables
    <2>2. "active" \in met'[h]
      BY <2>1, Observed DEF Idle, Holds, Conditions, Enrolled
    <2> QED
      BY <2>1, <2>2 DEF Came
  <1>3. CASE CheckPolicy(h)
    <2>1. /\ policy' = policy /\ twoFactor' = twoFactor
          /\ "active" \in met[h]
      BY <1>3 DEF CheckPolicy, Reads, tables, Came
    <2>2. CASE policy = None /\ Goes(h, [at |-> "default"])
      BY <2>1, <2>2, Observed DEF Came, Idle
    <2>3. CASE policy # None /\ policy.require /\ Goes(h, [at |-> "enrolled"])
      BY <2>1, <2>3, Observed DEF Came, Idle
    <2>4. ASSUME policy # None, ~policy.require, NEW kind \in Kinds, Goes(h, [at |-> kind])
          PROVE  Came(h)'
      <3>1. job'[h] = [at |-> kind] /\ kind # "idle"
        BY <2>4 DEF Kinds
      <3>2. {"active", "enrolled"} \subseteq met'[h]
        BY <2>1, <2>4, <3>1, Observed DEF Idle, Holds, Conditions, Enrolled
      <3> QED
        BY <3>1, <3>2 DEF Came, Kinds
    <2> QED
      BY <1>3, <2>2, <2>3, <2>4 DEF CheckPolicy
  <1>4. CASE CheckDefault(h)
    <2>1. job'[h] = [at |-> "policy"] /\ "active" \in met[h]
      BY <1>4 DEF CheckDefault, Came
    <2> QED
      BY <2>1, Observed DEF Came, Idle
  <1>5. CASE CheckEnrolled(h)
    <2>1. PICK kind \in Kinds : (kind = "acting" => twoFactor.enabled) /\ Goes(h, [at |-> kind])
      BY <1>5 DEF CheckEnrolled
    <2>2. job'[h] = [at |-> kind] /\ kind # "idle"
      BY <2>1 DEF Kinds
    <2>3. /\ policy' = policy /\ twoFactor' = twoFactor
          /\ policy # None /\ "active" \in met[h]
      BY <1>5 DEF CheckEnrolled, Reads, tables, Came
    <2>4. kind = "acting" => {"active", "enrolled"} \subseteq met'[h]
      BY <2>1, <2>2, <2>3, Observed DEF Idle, Holds, Conditions, Enrolled
    <2> QED
      BY <2>2, <2>4 DEF Came, Kinds
  <1> QED
    BY <1>1, <1>2, <1>3, <1>4, <1>5 DEF Check

LEMMA CameSettings ==
  ASSUME TypeOK, NEW h \in Handlers, Came(h), Observe, Settings(h)
  PROVE  Came(h)'
  <1> USE DEF TypeOK, Goes, Plain, Idle
  <1>1. CASE PageRead(h) \/ PageRequired(h) \/ StartRead(h) \/ SetupSave(h)
    BY <1>1, PlainCame DEF PageRead, PageRequired, StartRead, SetupSave
  <1>2. CASE ConfirmCode(h)
    <2>1. job'[h] = [at |-> "enable", secret |-> twoFactor.pending]
      BY <1>2 DEF ConfirmCode
    <2>2. twoFactor.pending \in confirmed'
      BY <1>2 DEF ConfirmCode
    <2>3. ~twoFactor'.enabled
      BY <1>2 DEF ConfirmCode, TwoFactor, tables
    <2>4. None \in seen'[h]
      BY <2>1, <2>3, Observed DEF Factor
    <2> QED
      BY <2>1, <2>2, <2>4 DEF Came
  <1>3. CASE ConfirmEnable(h) \/ CancelRequired(h) \/ CancelSave(h)
    BY <1>3, PlainCame DEF ConfirmEnable, CancelRequired, CancelSave
  <1>4. CASE SetupRead(h)
    <2>1. job'[h] = [at |-> "setupSave"] /\ ~twoFactor'.enabled
      BY <1>4 DEF SetupRead, Reads, tables
    <2>2. None \in seen'[h]
      BY <2>1, Observed DEF Factor
    <2> QED
      BY <2>1, <2>2 DEF Came
  <1>5. CASE ResetRequired(h)
    <2>1. job'[h] = [at |-> "resetAllowed"] /\ policy' # None /\ ~policy'.require
      BY <1>5 DEF ResetRequired, Reads, tables
    <2>2. "optional" \in met'[h]
      BY <2>1, Observed DEF Holds, Conditions, Optional
    <2> QED
      BY <2>1, <2>2 DEF Came
  <1>6. CASE ResetAllowed(h)
    <2>1. job'[h] = [at |-> "resetSave"] /\ policy' # None /\ policy'.userReset
      BY <1>6 DEF ResetAllowed, Reads, tables
    <2>2. "optional" \in met[h]
      BY <1>6 DEF ResetAllowed, Came
    <2>3. {"optional", "resettable"} \subseteq met'[h]
      BY <2>1, <2>2, Observed DEF Holds, Conditions, Resettable
    <2> QED
      BY <2>1, <2>3 DEF Came
  <1>7. CASE ResetSave(h)
    BY <1>7, PlainCame DEF ResetSave
  <1> QED
    BY <1>1, <1>2, <1>3, <1>4, <1>5, <1>6, <1>7 DEF Settings

LEMMA CameStep ==
  ASSUME TypeOK, \A h \in Handlers : Came(h), Next
  PROVE  \A h \in Handlers : Came(h)'
  <1>1. Observe
    BY DEF Next
  <1>2. ASSUME NEW h \in Handlers,
               Login(h) \/ Challenge(h) \/ Check(h) \/ Settings(h) \/ Stop(h)
        PROVE  \A g \in Handlers : Came(g)'
    <2>1. CASE Stop(h)
      BY <2>1, PlainCame, <1>1, StepsAlone, CameKept DEF Stop, Goes, TypeOK, Plain, Idle
    <2>2. Came(h)'
      BY <1>1, <1>2, <2>1, CameLogin, CameChallenge, CameCheck, CameSettings
    <2>3. ASSUME NEW g \in Handlers \ {h} PROVE Came(g)'
      BY <1>1, <1>2, <2>3, StepsAlone, CameKept
    <2> QED
      BY <2>2, <2>3
  <1>3. CASE Admin \/ \E s \in SessionIds : SessionEnd(s)
    <2>1. /\ UNCHANGED <<job, confirmed>>
          /\ policy # None => policy' # None
      BY <1>3, SessionsAssumption
      DEF Admin, PolicySave, SetUserSuspended, SessionEnd, locals, proofs
    <2> QED
      BY <1>1, <2>1, CameKept
  <1> QED
    BY <1>2, <1>3 DEF Next

-----------------------------------------------------------------------------
(* Only the two statements that save a session's state can verify it.        *)
LEMMA SignInStep ==
  ASSUME TypeOK, \A h \in Handlers : Came(h), NoSignInWithoutCode, Next
  PROVE  NoSignInWithoutCode'
  <1> USE DEF TypeOK, NoSignInWithoutCode
  <1>1. ASSUME NEW h \in Handlers, NEW s \in SessionIds, LoginSave(h, s)
        PROVE  NoSignInWithoutCode'
    <2>1. session'[s] = "verified" => ~owes'[s]
      BY <1>1 DEF LoginSave, Came
    <2>2. \A t \in SessionIds \ {s} : session'[t] = session[t] /\ owes'[t] = owes[t]
      BY <1>1 DEF LoginSave
    <2> QED
      BY <2>1, <2>2
  <1>2. ASSUME NEW h \in Handlers, ChallengeVerify(h) PROVE NoSignInWithoutCode'
    <2> DEFINE s == job[h].session
    <2>1. s \in SessionIds
      BY <1>2, JobShapes DEF ChallengeVerify, VerifyJob
    <2>2. ~owes'[s]
      BY <1>2, <2>1 DEF ChallengeVerify, Came
    <2>3. \A t \in SessionIds \ {s} : session'[t] = session[t] /\ owes'[t] = owes[t]
      BY <1>2 DEF ChallengeVerify
    <2> QED
      BY <2>2, <2>3
  <1>3. ASSUME NEW s \in SessionIds, SessionEnd(s) PROVE NoSignInWithoutCode'
    BY <1>3 DEF SessionEnd, proofs
  <1>4. CASE UNCHANGED <<session, owes>>
    BY <1>4
  <1>5. ASSUME NEW h \in Handlers, Check(h) \/ Settings(h) \/ Stop(h)
        PROVE  UNCHANGED <<session, owes>>
    BY <1>5 DEF Check, CheckSession, CheckUser, CheckPolicy, CheckDefault, CheckEnrolled,
                Settings, PageRead, PageRequired, StartRead, SetupRead, SetupSave,
                ConfirmCode, ConfirmEnable,
                CancelRequired, CancelSave, ResetRequired, ResetAllowed, ResetSave,
                Stop, Reads, tables, proofs
  <1>6. CASE Admin
    BY <1>4, <1>6 DEF Admin, PolicySave, SetUserSuspended, proofs
  <1>7. ASSUME NEW h \in Handlers, Login(h) \/ Challenge(h) PROVE NoSignInWithoutCode'
    <2>1. \/ \E s \in SessionIds : LoginSave(h, s)
          \/ ChallengeVerify(h)
          \/ UNCHANGED <<session, owes>>
      BY <1>7 DEF Login, LoginStart, LoginRead, Challenge, ChallengeSession, ChallengeUser,
                  ChallengeSecret, Reads, tables, proofs
    <2> QED
      BY <1>1, <1>2, <1>4, <2>1
  <1> QED
    BY <1>3, <1>4, <1>5, <1>6, <1>7 DEF Next

(* Only ConfirmEnable puts a secret in force. *)
LEMMA ConfirmedStep ==
  ASSUME TypeOK, \A h \in Handlers : Came(h), FactorWasConfirmed, Next
  PROVE  FactorWasConfirmed'
  <1> USE DEF FactorWasConfirmed
  <1>1. ASSUME NEW h \in Handlers, Settings(h) PROVE FactorWasConfirmed'
    <2>1. CASE ConfirmEnable(h)
      BY <1>1, <2>1 DEF ConfirmEnable, Came, proofs
    <2>2. CASE ConfirmCode(h)
      BY <2>2 DEF ConfirmCode, tables
    <2>3. CASE SetupSave(h) \/ CancelSave(h) \/ ResetSave(h)
      BY <2>3 DEF SetupSave, CancelSave, ResetSave, Disabled, TypeOK, TwoFactor, proofs
    <2> QED
      BY <1>1, <2>1, <2>2, <2>3
      DEF Settings, PageRead, PageRequired, StartRead, SetupRead, CancelRequired,
          ResetRequired, ResetAllowed,
          Reads, tables, proofs
  <1>2. ASSUME NEW h \in Handlers, Login(h) \/ Challenge(h) \/ Check(h) \/ Stop(h)
        PROVE  UNCHANGED <<twoFactor, confirmed>>
    BY <1>2 DEF Login, LoginStart, LoginRead, LoginSave,
                Challenge, ChallengeSession, ChallengeUser, ChallengeSecret, ChallengeVerify,
                Check, CheckSession, CheckUser, CheckPolicy, CheckDefault, CheckEnrolled,
                Stop, Reads, tables, proofs
  <1>3. CASE Admin \/ \E s \in SessionIds : SessionEnd(s)
    BY <1>3 DEF Admin, PolicySave, SetUserSuspended, SessionEnd, proofs
  <1> QED
    BY <1>1, <1>2, <1>3 DEF Next

(* Three statements change the secret in force, each at the end of what      *)
(* Came says of its request.                                                 *)
LEMMA DropStep ==
  ASSUME TypeOK, \A h \in Handlers : Came(h), [Next]_vars
  PROVE  FactorDrop
  <1>1. ASSUME NEW h \in Handlers, Settings(h) PROVE FactorDrop
    <2>1. CASE SetupSave(h) \/ ConfirmEnable(h)
      <3>1. None \in seen[h]
        BY <2>1 DEF SetupSave, ConfirmEnable, Came
      <3> QED
        BY <2>1, <3>1 DEF FactorDrop
    <2>2. CASE ResetSave(h)
      <3>1. {"optional", "resettable"} \subseteq met[h]
        BY <2>2 DEF ResetSave, Came
      <3> QED
        BY <2>2, <3>1 DEF FactorDrop
    <2>3. CASE CancelSave(h)
      <3>1. twoFactor'.secret = twoFactor.secret
        BY <2>3 DEF CancelSave, TypeOK, TwoFactor
      <3> QED
        BY <3>1 DEF FactorDrop
    <2>4. \/ SetupSave(h) \/ ConfirmEnable(h) \/ ResetSave(h) \/ CancelSave(h)
          \/ twoFactor' = twoFactor
      BY <1>1 DEF Settings, PageRead, PageRequired, StartRead, SetupRead, ConfirmCode,
                  CancelRequired, ResetRequired, ResetAllowed, Reads, tables
    <2> QED
      BY <2>1, <2>2, <2>3, <2>4 DEF FactorDrop
  <1>2. ASSUME NEW h \in Handlers, Login(h) \/ Challenge(h) \/ Check(h) \/ Stop(h)
        PROVE  twoFactor' = twoFactor
    BY <1>2 DEF Login, LoginStart, LoginRead, LoginSave,
                Challenge, ChallengeSession, ChallengeUser, ChallengeSecret, ChallengeVerify,
                Check, CheckSession, CheckUser, CheckPolicy, CheckDefault, CheckEnrolled,
                Stop, Reads, tables
  <1>3. CASE Admin \/ (\E s \in SessionIds : SessionEnd(s)) \/ UNCHANGED vars
    <2>1. twoFactor' = twoFactor
      BY <1>3 DEF Admin, PolicySave, SetUserSuspended, SessionEnd, vars, tables
    <2> QED
      BY <2>1 DEF FactorDrop
  <1>4. CASE \E h \in Handlers : Login(h) \/ Challenge(h) \/ Check(h) \/ Stop(h)
    <2>1. twoFactor' = twoFactor
      BY <1>2, <1>4
    <2> QED
      BY <2>1 DEF FactorDrop
  <1> QED
    BY <1>1, <1>3, <1>4 DEF Next

LEMMA SessionsInvariant == Spec => []SessionsInv
  <1>1. Init => SessionsInv
    <2> SUFFICES ASSUME Init PROVE SessionsInv
      OBVIOUS
    <2>1. TypeOK
      BY InitTyped
    <2>2. \A h \in Handlers : Came(h)
      BY DEF Init, Came, Idle
    <2>3. NoSignInWithoutCode /\ FactorWasConfirmed
      BY DEF Init, NoSignInWithoutCode, FactorWasConfirmed, Disabled
    <2> QED
      BY <2>1, <2>2, <2>3 DEF SessionsInv
  <1>2. SessionsInv /\ [Next]_vars => SessionsInv'
    <2> SUFFICES ASSUME SessionsInv, [Next]_vars PROVE SessionsInv'
      OBVIOUS
    <2>1. CASE Next
      BY <2>1, TypeStep, CameStep, SignInStep, ConfirmedStep DEF SessionsInv
    <2>2. CASE UNCHANGED vars
      BY <2>2 DEF SessionsInv, TypeOK, Came, NoSignInWithoutCode, FactorWasConfirmed,
                  vars, tables, locals, proofs
    <2> QED
      BY <2>1, <2>2
  <1> QED
    BY <1>1, <1>2, PTL DEF Spec

(* A session created while a factor was in force all the time is verified    *)
(* only by a code of it (handleGoogleCallback,                               *)
(* handleTwoFactorChallengeVerify).                                          *)
THEOREM SignInsAreProved == Spec => []NoSignInWithoutCode
  <1>1. SessionsInv => NoSignInWithoutCode
    BY DEF SessionsInv
  <1> QED
    BY <1>1, SessionsInvariant, PTL

(* The secret in force is one a set-up accepted a code for, however set-ups, *)
(* cancellations and resets interleave (handleTwoFactorSetupConfirm).        *)
THEOREM FactorsAreConfirmed == Spec => []FactorWasConfirmed
  <1>1. SessionsInv => FactorWasConfirmed
    BY DEF SessionsInv
  <1> QED
    BY <1>1, SessionsInvariant, PTL

(* A request acts in the console only if its user was let in and enrolled as *)
(* demanded while it ran (requireSessionUser).                               *)
THEOREM ActsArePermitted == Spec => []ActsPermitted
  <1>1. SessionsInv => ActsPermitted
    BY DEF SessionsInv, Came, ActsPermitted
  <1> QED
    BY <1>1, SessionsInvariant, PTL

(* A second factor in force is taken away or replaced only by a set-up that  *)
(* found none at some time, or by a reset that the policy at some time did   *)
(* not rule out and at some time allowed (handleTwoFactorSetupConfirm,       *)
(* ensureUserTwoFactorPendingSecret, handleTwoFactorReset).                  *)
THEOREM FactorsGoOnlySo == Spec => FactorDropPermitted
  <1>1. SessionsInv /\ [Next]_vars => [FactorDrop]_vars
    BY DropStep DEF SessionsInv
  <1> QED
    BY <1>1, SessionsInvariant, PTL DEF Spec, FactorDropPermitted
=============================================================================
