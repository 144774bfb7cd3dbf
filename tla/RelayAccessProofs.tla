-------------------------- MODULE RelayAccessProofs --------------------------
(***************************************************************************)
(* Proofs about RelayAccess, for any number of agents, Workspaces,         *)
(* policies, concurrent handlers and relay requests.                       *)
(***************************************************************************)
EXTENDS RelayAccess, TLAPS

(* What is known of a relay request at each stage: the strengthening that  *)
(* makes ForwardWasAuthorised inductive.                                   *)
Progress(r) ==
    /\ req[r].at \in Unrefused => req[r].shape \in Shape
    /\ req[r].at \in Unrefused \ {"resolve", "grant"} => req[r].policy \in granted[r]
    /\ req[r].at = "decide" =>
         /\ req[r].body \in Body
         /\ Allows(req[r].body, req[r].shape) => req[r].policy \in allowedBy[r]
    /\ req[r].at \in {"upstream", "again", "replied"} => req[r].policy \in allowedBy[r]

RelayInv == TypeOK /\ \A r \in Requests : Progress(r)

-----------------------------------------------------------------------------
(* A record of Job at a given step is a record of that handler. *)
LEMMA JobKinds ==
    ASSUME NEW j \in Job
    PROVE  /\ j.at \in {"clear", "check", "insert"} => j \in GrantJob
           /\ j.at = "list" => j \in ListJob
           /\ j.at \in {"readDefault", "readUsed", "resetDefault", "revert", "deleteRow"}
                => j \in PolicyJob
           /\ j.at = "saveDefault" => j \in DefaultJob
           /\ j.at = "saveAgent" => j \in AgentJob
  BY DEF Job, Idle, GrantJob, ListJob, PolicyJob, DefaultJob, AgentJob

(* The grant of an agent on a Workspace, and a policy's content, as the     *)
(* tables hold them.                                                        *)
LEMMA TableReads ==
    ASSUME TypeOK
    PROVE  /\ \A a \in Agents, w \in Workspaces : grants[a][w] \in Grant \union {None}
           /\ \A a \in Agents : grants[a] \in Wanted
           /\ \A p \in PolicyIds : BodyOf(p) \in Body \union {None}
  BY AccessAssumption DEF TypeOK, Wanted, BodyOf, PolicyIds

(* A save never writes an absent content. *)
LEMMA NormalizedIsBody == \A b \in Body : Normalized(b) \in Body
  BY DEF Normalized, Body

(* A handler that moves on to locals of some handler leaves job typed. *)
LEMMA GoesTyped ==
    ASSUME TypeOK, NEW h \in Handlers, NEW j \in Job, Goes(h, j)
    PROVE  job' \in [Handlers -> Job]
  BY DEF TypeOK, Goes

LEMMA InitRelayInv == Init => RelayInv
<1> SUFFICES ASSUME Init PROVE RelayInv
  OBVIOUS
<1>1. TypeOK
  <2>1. /\ agentRow \in [Agents -> {"unused", "enabled", "suspended", "deleted"}]
        /\ userSuspended \in BOOLEAN
        /\ connections \subseteq Workspaces
        /\ policy \in [Policies -> Body \union {None}]
        /\ defaultPolicy \in PolicyIds
    BY DEF Init, PolicyIds
  <2>2. /\ grants \in [Agents -> Wanted]
        /\ job \in [Handlers -> Job]
    BY DEF Init, Wanted, Job
  <2>3. req \in [Requests -> Request]
    BY DEF Init, Request, Stages, Running, Unrefused
  <2>4. /\ log \in [Requests -> SUBSET {"Success", "Fail"}]
        /\ granted \in [Requests -> SUBSET PolicyIds]
        /\ allowedBy \in [Requests -> SUBSET PolicyIds]
    BY DEF Init
  <2> QED BY <2>1, <2>2, <2>3, <2>4 DEF TypeOK
<1>2. \A r \in Requests : Progress(r)
  BY DEF Init, Progress, Unrefused
<1> QED BY <1>1, <1>2 DEF RelayInv

-----------------------------------------------------------------------------
(* Every console step keeps the tables and the handlers' locals typed. *)
ConsoleTypes ==
    /\ agentRow \in [Agents -> {"unused", "enabled", "suspended", "deleted"}]
    /\ userSuspended \in BOOLEAN
    /\ connections \subseteq Workspaces
    /\ policy \in [Policies -> Body \union {None}]
    /\ defaultPolicy \in PolicyIds
    /\ grants \in [Agents -> Wanted]
    /\ job \in [Handlers -> Job]

LEMMA ConsoleKeepsTypes == TypeOK /\ Console => ConsoleTypes' /\ UNCHANGED <<req, log>>
<1> SUFFICES ASSUME TypeOK, Console PROVE ConsoleTypes' /\ UNCHANGED <<req, log>>
  OBVIOUS
<1> USE AccessAssumption DEF TypeOK, ConsoleTypes, tables
<1>1. ASSUME NEW a \in Agents, AgentCreate(a) \/ AgentDelete(a)
      PROVE  ConsoleTypes' /\ UNCHANGED <<req, log>>
  BY <1>1 DEF AgentCreate, AgentDelete, Wanted
<1>2. ASSUME NEW w \in Workspaces, WorkspaceConnect(w) \/ WorkspaceDelete(w)
      PROVE  ConsoleTypes' /\ UNCHANGED <<req, log>>
  BY <1>2 DEF WorkspaceConnect, WorkspaceDelete, Wanted
<1>3. ASSUME NEW p \in Policies, NEW b \in Bodies, PolicySave(p, b)
      PROVE  ConsoleTypes' /\ UNCHANGED <<req, log>>
  BY <1>3, NormalizedIsBody DEF PolicySave
<1>4. ASSUME NEW b \in BOOLEAN, SetUserSuspended(b)
      PROVE  ConsoleTypes' /\ UNCHANGED <<req, log>>
  BY <1>4 DEF SetUserSuspended
<1>5. ASSUME NEW h \in Handlers, NEW a \in Agents,
             NEW want \in [Workspaces -> FormGrants \union {None}], FormGrantsStart(h, a, want)
      PROVE  ConsoleTypes' /\ UNCHANGED <<req, log>>
  BY <1>5 DEF FormGrantsStart, Goes, Job, GrantJob, Wanted
<1>6. ASSUME NEW h \in Handlers, NEW a \in Agents, NEW w \in Workspaces,
             NEW ask \in FormGrants \union {None}, NEW k \in BOOLEAN, ApiGrantStart(h, a, w, ask, k)
      PROVE  ConsoleTypes' /\ UNCHANGED <<req, log>>
  BY <1>6 DEF ApiGrantStart, Goes, Job, ListJob
<1>7. ASSUME NEW h \in Handlers, ApiGrantList(h)
      PROVE  ConsoleTypes' /\ UNCHANGED <<req, log>>
  <2>1. job[h] \in ListJob
    BY <1>7, JobKinds DEF ApiGrantList
  <2>2. Edited(job[h]) \in Wanted
    BY <2>1, TableReads DEF Edited, ListJob, Wanted, Grant
  <2> QED BY <1>7, <2>1, <2>2 DEF ApiGrantList, Goes, Job, ListJob, GrantJob
<1>8. ASSUME NEW h \in Handlers, GrantClear(h) \/ GrantCheck(h) \/ GrantInsert(h)
      PROVE  ConsoleTypes' /\ UNCHANGED <<req, log>>
  <2>1. job[h] \in GrantJob
    BY <1>8, JobKinds DEF GrantClear, GrantCheck, GrantInsert
  <2>2. CASE GrantClear(h)
    BY <2>1, <2>2 DEF GrantClear, Goes, Job, GrantJob, Wanted
  <2>3. CASE GrantCheck(h)
    <3>1. PICK w \in job[h].todo :
            Goes(h, IF w \in connections /\ PolicyExists(job[h].want[w].policy)
                    THEN [job[h] EXCEPT !.at = "insert", !.cur = w] ELSE Idle)
      BY <2>3 DEF GrantCheck
    <3>2. w \in Workspaces
      BY <2>1 DEF GrantJob
    <3>3. [job[h] EXCEPT !.at = "insert", !.cur = w] \in Job /\ Idle \in Job
      BY <2>1, <3>2 DEF Job, GrantJob
    <3>4. job' \in [Handlers -> Job]
      BY <3>1, <3>3, GoesTyped
    <3> QED BY <2>3, <3>4 DEF GrantCheck
  <2>4. CASE GrantInsert(h)
    <3>1. grants' \in [Agents -> Wanted]
      BY <2>1, <2>4 DEF GrantInsert, Insertable, GrantJob, Wanted
    <3>2. job' \in [Handlers -> Job]
      <4> DEFINE next == [job[h] EXCEPT !.at = "check", !.todo = job[h].todo \ {job[h].cur},
                                        !.cur = None]
      <4>1. next \in Job /\ Idle \in Job
        BY <2>1 DEF Job, GrantJob
      <4>2. Goes(h, Idle) \/ Goes(h, next)
        BY <2>4 DEF GrantInsert
      <4> QED BY <4>1, <4>2, GoesTyped
    <3> QED BY <2>4, <3>1, <3>2 DEF GrantInsert
  <2> QED BY <1>8, <2>2, <2>3, <2>4
<1>9. ASSUME NEW h \in Handlers, NEW p \in Policies, PolicyDeleteStart(h, p)
      PROVE  ConsoleTypes' /\ UNCHANGED <<req, log>>
  BY <1>9 DEF PolicyDeleteStart, Goes, Job, PolicyJob
<1>10. ASSUME NEW h \in Handlers,
              PolicyDeleteReadDefault(h) \/ PolicyDeleteReadUsed(h) \/ PolicyDeleteResetDefault(h)
       PROVE  ConsoleTypes' /\ UNCHANGED <<req, log>>
  <2>1. job[h] \in PolicyJob
    BY <1>10, JobKinds DEF PolicyDeleteReadDefault, PolicyDeleteReadUsed, PolicyDeleteResetDefault
  <2>2. CASE PolicyDeleteReadDefault(h)
    <3>1. [job[h] EXCEPT !.at = "readUsed", !.wasDefault = (defaultPolicy = job[h].policy)] \in Job
      BY <2>1 DEF Job, PolicyJob
    <3> QED BY <2>2, <3>1, GoesTyped DEF PolicyDeleteReadDefault
  <2>3. CASE PolicyDeleteReadUsed(h)
    <3>1. UsedByAgentGrant(job[h].policy) \in BOOLEAN
      BY DEF UsedByAgentGrant
    <3>2. [job[h] EXCEPT !.at = "resetDefault", !.used = UsedByAgentGrant(job[h].policy)] \in Job
      BY <2>1, <3>1 DEF Job, PolicyJob
    <3> QED BY <2>3, <3>2, GoesTyped DEF PolicyDeleteReadUsed
  <2>4. CASE PolicyDeleteResetDefault(h)
    <3>1. [job[h] EXCEPT !.at = "revert"] \in Job
      BY <2>1 DEF Job, PolicyJob
    <3> QED BY <2>4, <3>1, GoesTyped DEF PolicyDeleteResetDefault, PolicyIds
  <2> QED BY <1>10, <2>2, <2>3, <2>4
<1>11. ASSUME NEW h \in Handlers, PolicyDeleteRevertGrants(h) \/ PolicyDeleteRow(h)
       PROVE  ConsoleTypes' /\ UNCHANGED <<req, log>>
  <2>1. job[h] \in PolicyJob
    BY <1>11, JobKinds DEF PolicyDeleteRevertGrants, PolicyDeleteRow
  <2>2. \A a \in Agents, w \in Workspaces : Reverted(grants[a][w], job[h].policy) \in Grant \union {None}
    BY TableReads DEF Reverted, Grant, PolicyIds
  <2>3. CASE PolicyDeleteRevertGrants(h)
    <3>1. [job[h] EXCEPT !.at = "deleteRow"] \in Job
      BY <2>1 DEF Job, PolicyJob
    <3>2. grants' \in [Agents -> Wanted]
      BY <2>2, <2>3 DEF PolicyDeleteRevertGrants, Wanted
    <3> QED BY <2>3, <3>1, <3>2, GoesTyped DEF PolicyDeleteRevertGrants
  <2>4. CASE PolicyDeleteRow(h)
    <3>1. Idle \in Job
      BY DEF Job
    <3> QED BY <2>4, <3>1, GoesTyped DEF PolicyDeleteRow
  <2> QED BY <1>11, <2>3, <2>4
<1>12. ASSUME NEW h \in Handlers, NEW p \in PolicyIds, DefaultPolicyStart(h, p)
       PROVE  ConsoleTypes' /\ UNCHANGED <<req, log>>
  BY <1>12 DEF DefaultPolicyStart, Goes, Job, DefaultJob
<1>13. ASSUME NEW h \in Handlers, DefaultPolicySave(h)
       PROVE  ConsoleTypes' /\ UNCHANGED <<req, log>>
  BY <1>13, JobKinds DEF DefaultPolicySave, Goes, Job, DefaultJob
<1>14. ASSUME NEW h \in Handlers, NEW a \in Agents, NEW e \in BOOLEAN, AgentEditStart(h, a, e)
       PROVE  ConsoleTypes' /\ UNCHANGED <<req, log>>
  BY <1>14 DEF AgentEditStart, Goes, Job, AgentJob
<1>15. ASSUME NEW h \in Handlers, AgentEditSave(h)
       PROVE  ConsoleTypes' /\ UNCHANGED <<req, log>>
  BY <1>15, JobKinds DEF AgentEditSave, Goes, Job, AgentJob
<1> QED
  BY <1>1, <1>2, <1>3, <1>4, <1>5, <1>6, <1>7, <1>8, <1>9, <1>10, <1>11, <1>12, <1>13, <1>14, <1>15
  DEF Console

-----------------------------------------------------------------------------
(* The history is typed, and only grows until the request is refused. *)
LEMMA ObserveGrows ==
    ASSUME TypeOK, Observe
    PROVE  /\ granted' \in [Requests -> SUBSET PolicyIds]
           /\ allowedBy' \in [Requests -> SUBSET PolicyIds]
           /\ \A r \in Requests : req'[r].at \in Unrefused =>
                /\ granted[r] \subseteq granted'[r]
                /\ allowedBy[r] \subseteq allowedBy'[r]
                /\ NamedBy(r)' \subseteq granted'[r]
                /\ AllowingPolicies(r)' \subseteq allowedBy'[r]
  <1>1. \A r \in Requests : NamedBy(r)' \subseteq PolicyIds /\ AllowingPolicies(r)' \subseteq PolicyIds
    BY DEF NamedBy, AllowingPolicies
  <1> QED BY <1>1 DEF TypeOK, Observe

(* A request that a step leaves alone, or loses, keeps its progress. *)
LEMMA UntouchedProgress ==
    ASSUME TypeOK, Observe, NEW r \in Requests, Progress(r),
           req'[r] = req[r] \/ req'[r].at = "lost"
    PROVE  Progress(r)'
  BY ObserveGrows DEF Progress, Unrefused, Allows

(* A relay step of one request keeps its record typed and its progress. *)
(* A request that moves on to another stage keeps its locals.               *)
LEMMA MovesOn ==
    ASSUME req \in [Requests -> Request], NEW r \in Requests, NEW stage \in Stages, Moves(r, stage)
    PROVE  /\ req' \in [Requests -> Request]
           /\ \A q \in Requests \ {r} : req'[q] = req[q]
           /\ req'[r].at = stage /\ req'[r].shape = req[r].shape /\ req'[r].policy = req[r].policy
<1>1. req[r] \in Request
  OBVIOUS
<1>2. [req[r] EXCEPT !.at = stage] \in Request
  BY <1>1 DEF Request
<1>3. req' = [req EXCEPT ![r] = [req[r] EXCEPT !.at = stage]]
  BY DEF Moves
<1>4. req'[r] = [req[r] EXCEPT !.at = stage]
  BY <1>3
<1> QED BY <1>1, <1>2, <1>3, <1>4 DEF Request

LEMMA RelayStepProgress ==
    ASSUME RelayInv, Observe, NEW r \in Requests, RelayStep(r)
    PROVE  /\ req' \in [Requests -> Request]
           /\ log' \in [Requests -> SUBSET {"Success", "Fail"}]
           /\ \A q \in Requests \ {r} : req'[q] = req[q]
           /\ Progress(r)'
           /\ UNCHANGED <<tables, job>>
<1> USE AccessAssumption DEF RelayInv, TypeOK
<1> DEFINE Goal == /\ req' \in [Requests -> Request]
                   /\ log' \in [Requests -> SUBSET {"Success", "Fail"}]
                   /\ \A q \in Requests \ {r} : req'[q] = req[q]
                   /\ Progress(r)'
                   /\ UNCHANGED <<tables, job>>
<1>0. ASSUME NEW s \in Stages \ Unrefused, Moves(r, s), log' \in [Requests -> SUBSET {"Success", "Fail"}],
             UNCHANGED <<tables, job>>
      PROVE  Goal
  <2>1. /\ req' \in [Requests -> Request] /\ req'[r].at = s
        /\ \A q \in Requests \ {r} : req'[q] = req[q]
    BY <1>0, MovesOn
  <2> QED BY <1>0, <2>1 DEF Progress, Unrefused
<1>1. ASSUME Refuses(r), UNCHANGED <<tables, job, log>>  PROVE Goal
  BY <1>0, <1>1 DEF Refuses, Stages, Running, Unrefused
<1>2. ASSUME NEW s \in Shapes, RelayAuthenticate(r, s)  PROVE Goal
  BY <1>2 DEF RelayAuthenticate, Request, Stages, Running, Unrefused, Progress, Shape
<1>3. ASSUME RelayResolveWorkspace(r)  PROVE Goal
  <2>1. CASE Moves(r, "grant")
    BY <1>3, <2>1 DEF RelayResolveWorkspace, Moves, Request, Stages, Running, Unrefused, Progress
  <2> QED BY <1>1, <1>3, <2>1 DEF RelayResolveWorkspace
<1>4. ASSUME RelayGrant(r)  PROVE Goal
  <2> DEFINE g == grants[req[r].shape.agent][req[r].shape.ws]
  <2>1. CASE ~(g # None /\ (g.motive => req[r].shape.motive))
    BY <1>1, <1>4, <2>1 DEF RelayGrant
  <2>2. CASE g # None /\ (g.motive => req[r].shape.motive)
    <3>1. req' = [req EXCEPT ![r].at = "body", ![r].policy = g.policy] /\ UNCHANGED <<log, tables, job>>
      BY <1>4, <2>2 DEF RelayGrant
    <3>2. req[r].shape \in Shape
      BY <1>4 DEF RelayGrant, Progress, Unrefused
    <3>3. g.policy \in PolicyIds
      BY <2>2, <3>2, TableReads DEF Shape, Grant
    <3> HIDE DEF RelayInv, TypeOK
    <3>4. req' \in [Requests -> Request]
      <4>1. req[r] \in Request /\ req \in [Requests -> Request]
        BY DEF RelayInv, TypeOK
      <4>2. [req[r] EXCEPT !.at = "body", !.policy = g.policy] \in Request
        BY <4>1, <3>3 DEF Request, Stages, Running, Unrefused
      <4>3. req' = [req EXCEPT ![r] = [req[r] EXCEPT !.at = "body", !.policy = g.policy]]
        BY <3>1, <4>1
      <4> QED BY <4>1, <4>2, <4>3
    <3>5. req'[r].shape = req[r].shape /\ req'[r].at = "body" /\ req'[r].policy = g.policy
      <4>1. req[r] \in Request /\ req \in [Requests -> Request]
        BY DEF RelayInv, TypeOK
      <4>2. req'[r] = [req[r] EXCEPT !.at = "body", !.policy = g.policy]
        BY <3>1, <4>1
      <4> QED BY <4>1, <4>2 DEF Request
    <3> USE DEF RelayInv, TypeOK
    <3>6. g.policy \in NamedBy(r)'
      BY <2>2, <3>1, <3>3, <3>5 DEF NamedBy, tables
    <3>7. Progress(r)'
      BY <3>2, <3>5, <3>6, ObserveGrows DEF Progress, Unrefused
    <3> QED BY <3>1, <3>4, <3>7
  <2> QED BY <2>1, <2>2
<1>5. ASSUME RelayPrepare(r)  PROVE Goal
  <2>1. CASE Moves(r, "policy")
    BY <1>5, <2>1, ObserveGrows DEF RelayPrepare, Moves, Request, Stages, Running, Unrefused, Progress
  <2> QED BY <1>1, <1>5, <2>1 DEF RelayPrepare
<1>6. ASSUME RelayLoadPolicy(r)  PROVE Goal
  <2> DEFINE p == req[r].policy
  <2>1. CASE ~PolicyExists(p)
    BY <1>1, <1>6, <2>1 DEF RelayLoadPolicy
  <2>2. CASE PolicyExists(p)
    <3>1. /\ req' = [req EXCEPT ![r].at = "decide", ![r].body = BodyOf(p)]
          /\ UNCHANGED <<log, tables, job>>
      BY <1>6, <2>2 DEF RelayLoadPolicy
    <3>2. req[r].shape \in Shape /\ p \in granted[r] /\ p \in PolicyIds
      BY <1>6 DEF RelayLoadPolicy, Progress, Unrefused
    <3>3. BodyOf(p) \in Body
      BY <2>2, <3>2, TableReads DEF PolicyExists
    <3> HIDE DEF RelayInv, TypeOK
    <3>4. req' \in [Requests -> Request]
      <4>1. req[r] \in Request /\ req \in [Requests -> Request]
        BY DEF RelayInv, TypeOK
      <4>2. [req[r] EXCEPT !.at = "decide", !.body = BodyOf(p)] \in Request
        BY <4>1, <3>3 DEF Request, Stages, Running, Unrefused
      <4>3. req' = [req EXCEPT ![r] = [req[r] EXCEPT !.at = "decide", !.body = BodyOf(p)]]
        BY <3>1, <4>1
      <4> QED BY <4>1, <4>2, <4>3
    <3>5. /\ req'[r].shape = req[r].shape /\ req'[r].at = "decide"
          /\ req'[r].policy = p /\ req'[r].body = BodyOf(p)
      <4>1. req[r] \in Request /\ req \in [Requests -> Request]
        BY DEF RelayInv, TypeOK
      <4>2. req'[r] = [req[r] EXCEPT !.at = "decide", !.body = BodyOf(p)]
        BY <3>1, <4>1
      <4> QED BY <4>1, <4>2 DEF Request
    <3> USE DEF RelayInv, TypeOK
    <3>6. Allows(BodyOf(p), req[r].shape) => p \in AllowingPolicies(r)'
      BY <2>2, <3>1, <3>2, <3>5 DEF AllowingPolicies, PolicyExists, BodyOf, Allows, tables
    <3>7. Progress(r)'
      BY <3>2, <3>3, <3>5, <3>6, ObserveGrows DEF Progress, Unrefused, Allows
    <3> QED BY <3>1, <3>4, <3>7
  <2> QED BY <2>1, <2>2
<1>7. ASSUME RelayDecide(r)  PROVE Goal
  <2>1. CASE Allows(req[r].body, req[r].shape) /\ Moves(r, "upstream")
    <3>1. Moves(r, "upstream") /\ UNCHANGED <<log, tables, job>>
      BY <1>7, <2>1 DEF RelayDecide
    <3>2. /\ req' \in [Requests -> Request]
          /\ \A q \in Requests \ {r} : req'[q] = req[q]
          /\ req'[r].at = "upstream" /\ req'[r].shape = req[r].shape /\ req'[r].policy = req[r].policy
      BY <3>1, MovesOn DEF Stages, Running, Unrefused
    <3>3. req[r].shape \in Shape /\ req[r].policy \in granted[r] /\ req[r].policy \in allowedBy[r]
      BY <1>7, <2>1 DEF RelayDecide, Progress, Unrefused
    <3>4. Progress(r)'
      BY <3>2, <3>3, ObserveGrows DEF Progress, Unrefused
    <3> QED BY <3>1, <3>2, <3>4
  <2> QED BY <1>1, <1>7, <2>1 DEF RelayDecide
<1>8. ASSUME RelayReply(r)  PROVE Goal
  <2>1. CASE Moves(r, "replied")
    BY <1>8, <2>1, ObserveGrows DEF RelayReply, Moves, Request, Stages, Running, Unrefused, Progress
  <2> QED BY <1>1, <1>8, <2>1 DEF RelayReply
<1>8a. ASSUME NEW outcomes \in SUBSET {"Success", "Fail"}, Saves(r, outcomes)
       PROVE  log' \in [Requests -> SUBSET {"Success", "Fail"}]
  <2>1. PICK some \in SUBSET {"Success", "Fail"} : log' = [log EXCEPT ![r] = log[r] \union some]
    BY <1>8a DEF Saves
  <2> QED BY <2>1
<1>9. ASSUME RelayLog(r)  PROVE Goal
  BY <1>0, <1>8a, <1>9 DEF RelayLog, Stages, Running, Unrefused
<1>9a. ASSUME RelayLogRefusal(r)  PROVE Goal
  BY <1>0, <1>8a, <1>9a DEF RelayLogRefusal, Stages, Running, Unrefused
<1>9b. ASSUME RelayAnswerRefusal(r)  PROVE Goal
  BY <1>0, <1>9b DEF RelayAnswerRefusal, Stages, Running, Unrefused
<1>10. ASSUME RelayContextDenied(r)  PROVE Goal
  BY <1>1, <1>10 DEF RelayContextDenied
<1>11. ASSUME RelayReadBody(r)  PROVE Goal
  <2>1. CASE Moves(r, "prepare")
    BY <1>11, <2>1, ObserveGrows DEF RelayReadBody, Moves, Request, Stages, Running, Unrefused, Progress
  <2> QED BY <1>1, <1>11, <2>1 DEF RelayReadBody
<1>12. ASSUME RelayRetry(r)  PROVE Goal
  BY <1>12, ObserveGrows DEF RelayRetry, Moves, Request, Stages, Running, Unrefused, Progress
<1> QED
  BY <1>2, <1>3, <1>4, <1>5, <1>6, <1>7, <1>8, <1>9, <1>9a, <1>9b, <1>10, <1>11, <1>12 DEF RelayStep

LEMMA NextRelayInv == RelayInv /\ [Next]_vars => RelayInv'
<1> SUFFICES ASSUME RelayInv, [Next]_vars PROVE RelayInv'
  OBVIOUS
<1> USE DEF RelayInv
<1>1. CASE Console /\ Observe
  <2>1. ConsoleTypes' /\ UNCHANGED <<req, log>>
    BY <1>1, ConsoleKeepsTypes
  <2>2. TypeOK'
    BY <1>1, <2>1, ObserveGrows DEF TypeOK, ConsoleTypes
  <2>3. \A r \in Requests : Progress(r)'
    BY <1>1, <2>1, UntouchedProgress
  <2> QED BY <2>2, <2>3
<1>2. CASE (\E r \in Requests : RelayStep(r)) /\ Observe
  <2>1. PICK r \in Requests : RelayStep(r)
    BY <1>2
  <2>2. TypeOK'
    BY <1>2, <2>1, RelayStepProgress, ObserveGrows DEF TypeOK, tables
  <2>3. \A q \in Requests : Progress(q)'
    BY <1>2, <2>1, RelayStepProgress, UntouchedProgress
  <2> QED BY <2>2, <2>3
<1>3. CASE Crash /\ Observe
  <2>1. job' \in [Handlers -> Job]
    BY <1>3 DEF Crash, Job
  <2>2. /\ req' \in [Requests -> Request]
        /\ \A r \in Requests : req'[r] = req[r] \/ req'[r].at = "lost"
    <3>1. \A r \in Requests : /\ req[r] \in Request
                              /\ [req[r] EXCEPT !.at = "lost"] \in Request
                              /\ [req[r] EXCEPT !.at = "lost"].at = "lost"
      BY DEF TypeOK, Request, Stages
    <3>2. \A r \in Requests : req'[r] = req[r] \/ req'[r] = [req[r] EXCEPT !.at = "lost"]
      BY <1>3 DEF Crash
    <3> QED BY <1>3, <3>1, <3>2 DEF Crash
  <2>3. TypeOK'
    BY <1>3, <2>1, <2>2, ObserveGrows DEF TypeOK, Crash, tables
  <2>4. \A r \in Requests : Progress(r)'
    BY <1>3, <2>2, UntouchedProgress
  <2> QED BY <2>3, <2>4
<1>4. CASE UNCHANGED vars
  BY <1>4 DEF vars, tables, history, TypeOK, Progress, Allows
<1> QED BY <1>1, <1>2, <1>3, <1>4 DEF Next

LEMMA RelayInvariant == Spec => []RelayInv
  BY InitRelayInv, NextRelayInv, PTL DEF Spec

(* Every reachable state of every instance is typed. *)
THEOREM TypeCorrect == Spec => []TypeOK
<1>1. RelayInv => TypeOK
  BY DEF RelayInv
<1> QED BY <1>1, RelayInvariant, PTL

(* Whatever any number of console handlers and relay requests do meanwhile, *)
(* and wherever the process stops, a request is sent to Google only under a *)
(* policy that the agent's grant named and that allowed the operation while *)
(* the request ran.                                                         *)
THEOREM ForwardsAreAuthorised == Spec => []ForwardWasAuthorised
<1>1. RelayInv => ForwardWasAuthorised
  BY DEF RelayInv, Progress, ForwardWasAuthorised, Unrefused
<1> QED BY <1>1, RelayInvariant, PTL

-----------------------------------------------------------------------------
(* The names of policies. *)

(* What a handler that stands between two statements knows of the tables,   *)
(* as long as NamesApart: what it is about to write exists, and of a policy *)
(* it is about to delete it knows what is left to be done for it.           *)
Foresight(j) ==
    /\ \A p \in PolicyIds : Names(j, p) => PolicyExists(p)
    /\ \A p \in Policies : Deletes(j, p) =>
         /\ j.at \in {"readUsed", "resetDefault"} => (defaultPolicy = p => j.wasDefault)
         /\ j.at \in {"resetDefault", "revert"} => (UsedByAgentGrant(p) => j.used)
         /\ j.at \in {"revert", "deleteRow"} => defaultPolicy # p
         /\ j.at = "deleteRow" => ~UsedByAgentGrant(p)

PoliciesInv ==
    /\ PoliciesExist
    /\ \A h \in Handlers : Foresight(job[h])

(* A handler that stays where it is knows what it knew, when the policies   *)
(* it names stay and the one it deletes is not named anew.                  *)
LEMMA OthersForesee ==
    ASSUME NEW g \in Handlers, job'[g] = job[g], Foresight(job[g]),
           \A p \in PolicyIds : Names(job[g], p) /\ PolicyExists(p) => PolicyExists(p)',
           \A p \in Policies : Deletes(job[g], p) =>
               /\ defaultPolicy' = p => defaultPolicy = p
               /\ UsedByAgentGrant(p)' => UsedByAgentGrant(p)
    PROVE  Foresight(job[g])'
  BY DEF Foresight, Names, Deletes

(* The grants a step leaves are grants that were there before: what held of *)
(* every grant still does.                                                  *)
LEMMA FewerGrants ==
    ASSUME PoliciesInv, UNCHANGED <<policy, defaultPolicy>>,
           \A a \in Agents, w \in Workspaces : grants'[a][w] \in {None, grants[a][w]}
    PROVE  /\ PoliciesExist'
           /\ \A h \in Handlers : job'[h] = job[h] => Foresight(job[h])'
<1>1. \A p : PolicyExists(p)' <=> PolicyExists(p)
  BY DEF PolicyExists, BodyOf
<1>2. \A p : UsedByAgentGrant(p)' => UsedByAgentGrant(p)
  BY DEF UsedByAgentGrant
<1>3. PoliciesExist'
  BY <1>1 DEF PoliciesInv, PoliciesExist
<1>4. ASSUME NEW h \in Handlers, job'[h] = job[h] PROVE Foresight(job[h])'
  BY <1>1, <1>2, <1>4, OthersForesee DEF PoliciesInv
<1> QED BY <1>3, <1>4

(* A step that leaves the tables alone and moves a handler on to j needs j  *)
(* to know what its next step relies on.                                    *)
LEMMA HandlerForesees ==
    ASSUME TypeOK, PoliciesInv, NEW h \in Handlers, NEW j, Goes(h, j), UNCHANGED tables, Foresight(j)
    PROVE  PoliciesInv'
<1>1. \A g \in Handlers : job'[g] = IF g = h THEN j ELSE job[g]
  BY DEF Goes, TypeOK
<1>2. \A p : PolicyExists(p)' <=> PolicyExists(p)
  BY DEF PolicyExists, BodyOf, tables
<1>3. \A p : UsedByAgentGrant(p)' <=> UsedByAgentGrant(p)
  BY DEF UsedByAgentGrant, tables
<1>4. PoliciesExist'
  BY <1>2 DEF PoliciesInv, PoliciesExist, tables
<1>5. Foresight(job[h])'
  BY <1>1, <1>2, <1>3 DEF Foresight, Names, Deletes, tables
<1>6. ASSUME NEW g \in Handlers \ {h} PROVE Foresight(job[g])'
  BY <1>1, <1>2, <1>3, OthersForesee DEF PoliciesInv, tables
<1> QED BY <1>4, <1>5, <1>6 DEF PoliciesInv

(* A handler that names no policy and deletes none knows nothing. *)
LEMMA NothingToForesee ==
    ASSUME NEW j, j.at \in {"idle", "clear", "check", "list", "saveAgent", "readDefault"}
    PROVE  Foresight(j)
  BY DEF Foresight, Names, Deletes

(* The same of the tables and locals that a step leaves. *)
LEMMA NothingLeftToForesee ==
    ASSUME NEW h \in Handlers,
           job'[h].at \in {"idle", "clear", "check", "list", "saveAgent", "readDefault"}
    PROVE  Foresight(job[h])'
  BY DEF Foresight, Names, Deletes

(* The handlers beside one that moves. *)
LEMMA OthersStay ==
    ASSUME TypeOK, NEW h \in Handlers, NEW j, Goes(h, j)
    PROVE  job'[h] = j /\ \A g \in Handlers : g # h => job'[g] = job[g]
  BY DEF Goes, TypeOK

(* Every console step keeps it that what is named exists. *)
LEMMA ConsoleForesees ==
    ASSUME NamesApart, TypeOK, PoliciesInv, Console
    PROVE  PoliciesInv'
<1> USE AccessAssumption
<1>0. PoliciesExist /\ \A h \in Handlers : Foresight(job[h])
  BY DEF PoliciesInv
<1>1. ASSUME NEW a \in Agents, AgentCreate(a) \/ AgentDelete(a) PROVE PoliciesInv'
  <2>1. UNCHANGED <<policy, defaultPolicy, job>>
    BY <1>1 DEF AgentCreate, AgentDelete
  <2>2. \A b \in Agents, w \in Workspaces : grants'[b][w] \in {None, grants[b][w]}
    BY <1>1 DEF AgentCreate, AgentDelete, TypeOK, Wanted
  <2> QED BY <2>1, <2>2, FewerGrants DEF PoliciesInv
<1>2. ASSUME NEW w \in Workspaces, WorkspaceConnect(w) \/ WorkspaceDelete(w) PROVE PoliciesInv'
  <2>1. UNCHANGED <<policy, defaultPolicy, job>>
    BY <1>2 DEF WorkspaceConnect, WorkspaceDelete
  <2>2. \A b \in Agents, v \in Workspaces : grants'[b][v] \in {None, grants[b][v]}
    BY <1>2 DEF WorkspaceConnect, WorkspaceDelete, TypeOK, Wanted
  <2> QED BY <2>1, <2>2, FewerGrants DEF PoliciesInv
<1>3. ASSUME NEW p \in Policies, NEW b \in Bodies, PolicySave(p, b) PROVE PoliciesInv'
  <2>1. /\ policy' = [policy EXCEPT ![p] = Normalized(b)]
        /\ UNCHANGED <<defaultPolicy, grants, job>>
    BY <1>3 DEF PolicySave
  <2>2. Normalized(b) # None
    BY NormalizedIsBody
  <2>3. \A q : PolicyExists(q) => PolicyExists(q)'
    BY <2>1, <2>2 DEF PolicyExists, BodyOf, TypeOK
  <2>4. PoliciesExist'
    BY <1>0, <2>1, <2>3 DEF PoliciesExist
  <2>5. \A q : UsedByAgentGrant(q)' <=> UsedByAgentGrant(q)
    BY <2>1 DEF UsedByAgentGrant
  <2>6. \A g \in Handlers : Foresight(job[g])'
    BY <1>0, <2>1, <2>3, <2>5, OthersForesee
  <2> QED BY <2>4, <2>6 DEF PoliciesInv
<1>4. ASSUME NEW b \in BOOLEAN, SetUserSuspended(b) PROVE PoliciesInv'
  <2>1. UNCHANGED <<policy, defaultPolicy, grants, job>>
    BY <1>4 DEF SetUserSuspended
  <2> QED BY <2>1, FewerGrants DEF PoliciesInv
<1>5. ASSUME NEW h \in Handlers, NEW j, Goes(h, j), UNCHANGED tables,
             j.at \in {"idle", "clear", "check", "list", "saveAgent", "readDefault"}
      PROVE  PoliciesInv'
  BY <1>5, HandlerForesees, NothingToForesee
<1>6. ASSUME NEW h \in Handlers, NEW a \in Agents,
             NEW want \in [Workspaces -> FormGrants \union {None}], FormGrantsStart(h, a, want)
      PROVE  PoliciesInv'
  BY <1>5, <1>6 DEF FormGrantsStart
<1>7. ASSUME NEW h \in Handlers, NEW a \in Agents, NEW w \in Workspaces,
             NEW ask \in FormGrants \union {None}, NEW k \in BOOLEAN, ApiGrantStart(h, a, w, ask, k)
      PROVE  PoliciesInv'
  BY <1>5, <1>7 DEF ApiGrantStart
<1>8. ASSUME NEW h \in Handlers, ApiGrantList(h) PROVE PoliciesInv'
  <2>1. PICK j : Goes(h, j) /\ j.at \in {"idle", "clear"}
    BY <1>8 DEF ApiGrantList, Idle
  <2> QED BY <1>5, <1>8, <2>1 DEF ApiGrantList
<1>9. ASSUME NEW h \in Handlers, GrantClear(h) PROVE PoliciesInv'
  <2>1. job[h] \in GrantJob /\ job[h].agent \in Agents
    BY <1>9, JobKinds DEF GrantClear, TypeOK, GrantJob
  <2>2. PICK j : Goes(h, j) /\ j.at \in {"idle", "check"}
    <3> DEFINE todo == {w \in Workspaces : job[h].want[w] # None}
               next == [job[h] EXCEPT !.at = "check", !.todo = todo]
    <3>1. next.at = "check" /\ Idle.at = "idle"
      BY <2>1 DEF GrantJob, Idle
    <3>2. Goes(h, Idle) \/ Goes(h, next)
      BY <1>9 DEF GrantClear
    <3> QED BY <3>1, <3>2
  <2>3. \A a \in Agents, w \in Workspaces : grants'[a][w] \in {None, grants[a][w]}
    BY <1>9, <2>1 DEF GrantClear, TypeOK
  <2>4. UNCHANGED <<policy, defaultPolicy>>
    BY <1>9 DEF GrantClear
  <2> QED BY <2>2, <2>3, <2>4, FewerGrants, OthersStay, NothingLeftToForesee DEF PoliciesInv
<1>10. ASSUME NEW h \in Handlers, GrantCheck(h) PROVE PoliciesInv'
  <2>1. job[h] \in GrantJob /\ UNCHANGED tables
    BY <1>10, JobKinds DEF GrantCheck, TypeOK
  <2>2. PICK w \in job[h].todo :
            Goes(h, IF w \in connections /\ PolicyExists(job[h].want[w].policy)
                    THEN [job[h] EXCEPT !.at = "insert", !.cur = w] ELSE Idle)
    BY <1>10 DEF GrantCheck
  <2>3. CASE w \in connections /\ PolicyExists(job[h].want[w].policy)
    <3> DEFINE j == [job[h] EXCEPT !.at = "insert", !.cur = w]
    <3>1. j.at = "insert" /\ j.cur = w /\ j.want = job[h].want
      BY <2>1 DEF GrantJob
    <3>2. Goes(h, j)
      BY <2>2, <2>3
    <3> HIDE DEF j
    <3>3. Foresight(j)
      BY <2>3, <3>1 DEF Foresight, Names, Deletes
    <3> QED BY <2>1, <3>2, <3>3, HandlerForesees
  <2>4. CASE ~(w \in connections /\ PolicyExists(job[h].want[w].policy))
    BY <1>5, <2>1, <2>2, <2>4 DEF Idle
  <2> QED BY <2>3, <2>4
<1>11. ASSUME NEW h \in Handlers, GrantInsert(h) PROVE PoliciesInv'
  <2> DEFINE a == job[h].agent
             c == job[h].cur
             left == job[h].todo \ {c}
  <2>1. job[h] \in GrantJob /\ a \in Agents /\ job[h].at = "insert" /\ job[h].want \in Wanted
    BY <1>11, JobKinds DEF GrantInsert, TypeOK, GrantJob
  <2>2. PICK j : Goes(h, j) /\ j.at \in {"idle", "check"}
    <3> DEFINE next == [job[h] EXCEPT !.at = "check", !.todo = left, !.cur = None]
    <3>1. next.at = "check" /\ Idle.at = "idle"
      BY <2>1 DEF GrantJob, Idle
    <3>2. Goes(h, Idle) \/ Goes(h, next)
      BY <1>11 DEF GrantInsert
    <3> QED BY <3>1, <3>2
  <2>3. UNCHANGED <<policy, defaultPolicy>>
    BY <1>11 DEF GrantInsert
  <2>4. CASE Insertable(a, c)
    <3> DEFINE g == job[h].want[c]
    <3>1. c \in Workspaces /\ grants' = [grants EXCEPT ![a][c] = g]
      BY <1>11, <2>4 DEF GrantInsert, Insertable, TypeOK
    <3>2. \A b \in Agents, w \in Workspaces :
              grants'[b][w] = IF b = a /\ w = c THEN g ELSE grants[b][w]
      BY <2>1, <3>1 DEF TypeOK, Wanted
    <3>3. g \in Grant \union {None}
      BY <2>1, <3>1 DEF Wanted
    <3>4. g # None => g.policy \in PolicyIds /\ Names(job[h], g.policy)
      BY <2>1, <3>3 DEF Names, Grant
    <3> HIDE DEF g
    <3>5. g # None => PolicyExists(g.policy)
      BY <1>0, <3>4 DEF Foresight
    <3>6. PoliciesExist'
      BY <1>0, <2>3, <3>2, <3>5 DEF PoliciesExist, PolicyExists, BodyOf
    <3>7. ASSUME NEW k \in Handlers, k # h PROVE Foresight(job[k])'
      <4>1. \A p \in Policies : Deletes(job[k], p) => ~(g # None /\ g.policy = p)
        BY <3>4 DEF NamesApart
      <4>2. \A p \in Policies : Deletes(job[k], p) => (UsedByAgentGrant(p)' => UsedByAgentGrant(p))
        BY <3>2, <4>1 DEF UsedByAgentGrant
      <4>3. job'[k] = job[k] /\ \A p : PolicyExists(p)' <=> PolicyExists(p)
        BY <2>2, <2>3, <3>7, OthersStay DEF PolicyExists, BodyOf
      <4> QED BY <1>0, <2>3, <4>2, <4>3, OthersForesee
    <3> QED BY <2>2, <3>6, <3>7, OthersStay, NothingLeftToForesee DEF PoliciesInv
  <2>5. CASE ~Insertable(a, c)
    BY <1>5, <1>11, <2>2, <2>5 DEF GrantInsert, tables
  <2> QED BY <2>4, <2>5
<1>12. ASSUME NEW h \in Handlers, NEW p \in Policies, PolicyDeleteStart(h, p) PROVE PoliciesInv'
  BY <1>5, <1>12 DEF PolicyDeleteStart
<1>13. ASSUME NEW h \in Handlers, PolicyDeleteReadDefault(h) PROVE PoliciesInv'
  <2> DEFINE j == [job[h] EXCEPT !.at = "readUsed", !.wasDefault = (defaultPolicy = job[h].policy)]
  <2>1. job[h] \in PolicyJob /\ Goes(h, j) /\ UNCHANGED tables
    BY <1>13, JobKinds DEF PolicyDeleteReadDefault, TypeOK
  <2>2. j.at = "readUsed" /\ j.policy = job[h].policy /\ j.wasDefault = (defaultPolicy = job[h].policy)
    BY <2>1 DEF PolicyJob
  <2> HIDE DEF j
  <2>3. Foresight(j)
    BY <2>2 DEF Foresight, Names, Deletes
  <2> QED BY <2>1, <2>3, HandlerForesees
<1>14. ASSUME NEW h \in Handlers, PolicyDeleteReadUsed(h) PROVE PoliciesInv'
  <2> DEFINE j == [job[h] EXCEPT !.at = "resetDefault", !.used = UsedByAgentGrant(job[h].policy)]
  <2>1. job[h] \in PolicyJob /\ job[h].at = "readUsed" /\ Goes(h, j) /\ UNCHANGED tables
    BY <1>14, JobKinds DEF PolicyDeleteReadUsed, TypeOK
  <2>2. /\ j.at = "resetDefault" /\ j.policy = job[h].policy
        /\ j.wasDefault = job[h].wasDefault /\ j.used = UsedByAgentGrant(job[h].policy)
    BY <2>1 DEF PolicyJob
  <2>3. job[h].policy \in Policies /\ (defaultPolicy = job[h].policy => job[h].wasDefault)
    BY <1>0, <2>1 DEF Foresight, Deletes, PolicyJob
  <2> HIDE DEF j
  <2>4. Foresight(j)
    BY <2>2, <2>3 DEF Foresight, Names, Deletes
  <2> QED BY <2>1, <2>4, HandlerForesees
<1>15. ASSUME NEW h \in Handlers, PolicyDeleteResetDefault(h) PROVE PoliciesInv'
  <2> DEFINE j == [job[h] EXCEPT !.at = "revert"]
             p == job[h].policy
  <2>1. job[h] \in PolicyJob /\ p \in Policies /\ job[h].at = "resetDefault"
    BY <1>15, JobKinds DEF PolicyDeleteResetDefault, TypeOK, PolicyJob
  <2>2. j.at = "revert" /\ j.policy = p /\ j.used = job[h].used
    BY <2>1 DEF PolicyJob
  <2>3. /\ Goes(h, j)
        /\ defaultPolicy' = IF job[h].wasDefault THEN System ELSE defaultPolicy
        /\ UNCHANGED <<policy, grants>>
    BY <1>15 DEF PolicyDeleteResetDefault
  <2>4. (defaultPolicy = p => job[h].wasDefault) /\ (UsedByAgentGrant(p) => job[h].used)
    BY <1>0, <2>1 DEF Foresight, Deletes
  <2>5. defaultPolicy' # p
    BY <2>1, <2>3, <2>4
  <2>6. /\ \A q : PolicyExists(q)' <=> PolicyExists(q)
        /\ \A q : UsedByAgentGrant(q)' <=> UsedByAgentGrant(q)
    BY <2>3 DEF PolicyExists, BodyOf, UsedByAgentGrant
  <2>7. PoliciesExist'
    BY <1>0, <2>3, <2>6 DEF PoliciesExist, PolicyExists, BodyOf
  <2> HIDE DEF j, p
  <2>8. job'[h] = j /\ \A g \in Handlers : g # h => job'[g] = job[g]
    BY <2>3, OthersStay
  <2>9. Foresight(job[h])'
    BY <2>2, <2>4, <2>5, <2>6, <2>8 DEF Foresight, Names, Deletes
  <2>10. \A q \in Policies : defaultPolicy' = q => defaultPolicy = q
    BY <2>3
  <2>11. \A g \in Handlers : g # h => Foresight(job[g])'
    BY <1>0, <2>6, <2>8, <2>10, OthersForesee
  <2> QED BY <2>7, <2>9, <2>11 DEF PoliciesInv
<1>16. ASSUME NEW h \in Handlers, PolicyDeleteRevertGrants(h) PROVE PoliciesInv'
  <2> DEFINE j == [job[h] EXCEPT !.at = "deleteRow"]
  <2>0. PICK p \in Policies : job[h].policy = p
    BY <1>16, JobKinds DEF PolicyDeleteRevertGrants, TypeOK, PolicyJob
  <2>1. job[h] \in PolicyJob /\ job[h].at = "revert"
    BY <1>16, JobKinds DEF PolicyDeleteRevertGrants, TypeOK
  <2>2. j.at = "deleteRow" /\ j.policy = p
    BY <2>0, <2>1 DEF PolicyJob
  <2>3. /\ Goes(h, j)
        /\ grants' = IF job[h].used
                     THEN [a \in Agents |-> [w \in Workspaces |-> Reverted(grants[a][w], p)]]
                     ELSE grants
        /\ UNCHANGED <<policy, defaultPolicy>>
    BY <1>16, <2>0 DEF PolicyDeleteRevertGrants
  <2>4. defaultPolicy # p /\ (UsedByAgentGrant(p) => job[h].used)
    BY <1>0, <2>0, <2>1 DEF Foresight, Deletes
  <2>5. PolicyExists(System) /\ System # p /\ System \notin Policies
    BY DEF PolicyExists, BodyOf
  <2>6. ASSUME NEW a \in Agents, NEW w \in Workspaces
        PROVE  /\ grants'[a][w] # None =>
                    /\ PolicyExists(grants'[a][w].policy)
                    /\ grants'[a][w].policy # p
                    /\ grants'[a][w].policy = System \/ grants'[a][w] = grants[a][w]
    <3>1. grants[a][w] \in Grant \union {None}
      BY TableReads
    <3>2. CASE job[h].used
      <4>1. grants'[a][w] = Reverted(grants[a][w], p)
        BY <2>3, <3>2
      <4> QED BY <1>0, <3>1, <2>5, <4>1 DEF Reverted, Grant, PoliciesExist
    <3>3. CASE ~job[h].used
      BY <1>0, <2>3, <2>4, <3>3 DEF UsedByAgentGrant, PoliciesExist
    <3> QED BY <3>2, <3>3
  <2>7. \A q : PolicyExists(q)' <=> PolicyExists(q)
    BY <2>3 DEF PolicyExists, BodyOf
  <2>8. PoliciesExist'
    BY <1>0, <2>3, <2>6, <2>7 DEF PoliciesExist
  <2>9. /\ ~UsedByAgentGrant(p)'
        /\ \A q \in Policies : UsedByAgentGrant(q)' => UsedByAgentGrant(q)
    BY <2>5, <2>6 DEF UsedByAgentGrant
  <2> HIDE DEF j
  <2>10. job'[h] = j /\ \A g \in Handlers : g # h => job'[g] = job[g]
    BY <2>3, OthersStay
  <2>11. Foresight(job[h])'
    BY <2>2, <2>3, <2>4, <2>9, <2>10 DEF Foresight, Names, Deletes
  <2>12. \A g \in Handlers : g # h => Foresight(job[g])'
    BY <1>0, <2>3, <2>7, <2>9, <2>10, OthersForesee
  <2> QED BY <2>8, <2>11, <2>12 DEF PoliciesInv
<1>17. ASSUME NEW h \in Handlers, PolicyDeleteRow(h) PROVE PoliciesInv'
  <2> DEFINE p == job[h].policy
  <2>1. job[h] \in PolicyJob /\ p \in Policies /\ job[h].at = "deleteRow"
    BY <1>17, JobKinds DEF PolicyDeleteRow, TypeOK, PolicyJob
  <2>2. /\ Goes(h, Idle)
        /\ policy' = [policy EXCEPT ![p] = None]
        /\ UNCHANGED <<defaultPolicy, grants>>
    BY <1>17 DEF PolicyDeleteRow
  <2>3. Deletes(job[h], p)
    BY <2>1 DEF Deletes
  <2>4. defaultPolicy # p /\ ~UsedByAgentGrant(p)
    BY <1>0, <2>1, <2>3 DEF Foresight
  <2>5. \A q : q # p /\ PolicyExists(q) => PolicyExists(q)'
    BY <2>1, <2>2 DEF PolicyExists, BodyOf, TypeOK
  <2>6. \A q : UsedByAgentGrant(q)' <=> UsedByAgentGrant(q)
    BY <2>2 DEF UsedByAgentGrant
  <2> HIDE DEF p
  <2>7. PoliciesExist'
    BY <1>0, <2>2, <2>4, <2>5 DEF PoliciesExist, UsedByAgentGrant
  <2>8. job'[h] = Idle /\ \A g \in Handlers : g # h => job'[g] = job[g]
    BY <2>2, OthersStay
  <2>9. Foresight(job[h])'
    BY <2>8, NothingLeftToForesee DEF Idle
  <2>10. \A g \in Handlers : ~Names(job[g], p)
    BY <2>1, <2>3 DEF NamesApart
  <2>11. ASSUME NEW g \in Handlers, g # h PROVE Foresight(job[g])'
    BY <1>0, <2>2, <2>5, <2>6, <2>8, <2>10, <2>11, OthersForesee
  <2> QED BY <2>7, <2>9, <2>11 DEF PoliciesInv
<1>18. ASSUME NEW h \in Handlers, NEW p \in PolicyIds, DefaultPolicyStart(h, p) PROVE PoliciesInv'
  <2> DEFINE j == [at |-> "saveDefault", policy |-> p]
  <2>1. Goes(h, j) /\ UNCHANGED tables /\ PolicyExists(p)
    BY <1>18 DEF DefaultPolicyStart
  <2>2. Foresight(j)
    BY <2>1 DEF Foresight, Names, Deletes
  <2> QED BY <2>1, <2>2, HandlerForesees
<1>19. ASSUME NEW h \in Handlers, DefaultPolicySave(h) PROVE PoliciesInv'
  <2> DEFINE p == job[h].policy
  <2>1. job[h] \in DefaultJob /\ p \in PolicyIds
    BY <1>19, JobKinds DEF DefaultPolicySave, TypeOK, DefaultJob
  <2>2. /\ Goes(h, Idle) /\ defaultPolicy' = p
        /\ UNCHANGED <<policy, grants>>
    BY <1>19 DEF DefaultPolicySave
  <2>3. Names(job[h], p)
    BY <1>19 DEF DefaultPolicySave, Names
  <2>4. /\ \A q : PolicyExists(q)' <=> PolicyExists(q)
        /\ \A q : UsedByAgentGrant(q)' <=> UsedByAgentGrant(q)
    BY <2>2 DEF PolicyExists, BodyOf, UsedByAgentGrant
  <2> HIDE DEF p
  <2>5. PolicyExists(p)
    BY <1>0, <2>1, <2>3 DEF Foresight
  <2>6. PoliciesExist'
    BY <1>0, <2>2, <2>4, <2>5 DEF PoliciesExist
  <2>7. job'[h] = Idle /\ \A g \in Handlers : g # h => job'[g] = job[g]
    BY <2>2, OthersStay
  <2>8. Foresight(job[h])'
    BY <2>7, NothingLeftToForesee DEF Idle
  <2>9. \A g \in Handlers : p \in Policies => ~Deletes(job[g], p)
    BY <2>3 DEF NamesApart
  <2>10. ASSUME NEW g \in Handlers, g # h PROVE Foresight(job[g])'
    BY <1>0, <2>2, <2>4, <2>7, <2>9, <2>10, OthersForesee
  <2> QED BY <2>6, <2>8, <2>10 DEF PoliciesInv
<1>20. ASSUME NEW h \in Handlers, NEW a \in Agents, NEW e \in BOOLEAN, AgentEditStart(h, a, e)
       PROVE  PoliciesInv'
  BY <1>5, <1>20 DEF AgentEditStart
<1>21. ASSUME NEW h \in Handlers, AgentEditSave(h) PROVE PoliciesInv'
  <2>1. Goes(h, Idle) /\ UNCHANGED <<policy, defaultPolicy, grants>>
    BY <1>21 DEF AgentEditSave
  <2> QED BY <2>1, FewerGrants, OthersStay, NothingLeftToForesee DEF PoliciesInv, Idle
<1> QED
  BY <1>1, <1>2, <1>3, <1>4, <1>6, <1>7, <1>8, <1>9, <1>10, <1>11, <1>12, <1>13, <1>14, <1>15,
     <1>16, <1>17, <1>18, <1>19, <1>20, <1>21
  DEF Console

LEMMA InitPoliciesInv == Init => PoliciesInv
<1> SUFFICES ASSUME Init PROVE PoliciesInv
  OBVIOUS
<1>1. PoliciesExist
  BY AccessAssumption DEF Init, PoliciesExist, PolicyExists, BodyOf
<1>2. \A h \in Handlers : job[h].at = "idle"
  BY DEF Init, Idle
<1> QED BY <1>1, <1>2, NothingToForesee DEF PoliciesInv

LEMMA NextPoliciesInv == NamesApart /\ PoliciesInv /\ RelayInv /\ [Next]_vars => PoliciesInv'
<1> SUFFICES ASSUME NamesApart, PoliciesInv, RelayInv, [Next]_vars PROVE PoliciesInv'
  OBVIOUS
<1>1. CASE Console
  BY <1>1, ConsoleForesees DEF RelayInv
<1>2. CASE UNCHANGED <<tables, job>>
  BY <1>2 DEF PoliciesInv, PoliciesExist, Foresight, Names, Deletes, PolicyExists, BodyOf,
     UsedByAgentGrant, tables
<1>3. CASE (\E r \in Requests : RelayStep(r)) /\ Observe
  BY <1>2, <1>3, RelayStepProgress
<1>4. CASE Crash
  <2>1. UNCHANGED tables /\ \A h \in Handlers : job'[h] = Idle
    BY <1>4 DEF Crash
  <2>2. PoliciesExist'
    BY <2>1 DEF PoliciesInv, PoliciesExist, PolicyExists, BodyOf, tables
  <2> QED BY <2>1, <2>2, NothingLeftToForesee DEF PoliciesInv, Idle
<1>5. CASE UNCHANGED vars
  BY <1>2, <1>5 DEF vars
<1> QED BY <1>1, <1>3, <1>4, <1>5 DEF Next

(* Every grant and the default name a policy that exists, for any number of *)
(* console requests at once, through every deletion and every crash, as     *)
(* long as none writes the name of a policy while another deletes it: the   *)
(* statements of DeleteUserPolicy are in a safe order, and that one race is *)
(* all that can undo them.                                                  *)
THEOREM PoliciesKept == Spec /\ []NamesApart => []PoliciesExist
<1>1. PoliciesInv => PoliciesExist
  BY DEF PoliciesInv
<1> QED BY <1>1, InitPoliciesInv, NextPoliciesInv, RelayInvariant, PTL DEF Spec

-----------------------------------------------------------------------------
(* Edits of grants. *)

(* What an edit under way has left of the agent's grants, and which grant   *)
(* it has looked up.                                                        *)
HalfDone(j) ==
    /\ j.at \in {"check", "insert"} =>
         \A w \in Workspaces :
             LET g == grants[j.agent][w]
             IN  IF w \in j.todo THEN g = None ELSE g \in {None, j.want[w]}
    /\ j.at = "insert" => j.cur \in j.todo

EditsInv == \A h \in Handlers : HalfDone(job[h])

(* An edit that stays where it is goes by what a step leaves of the agent's *)
(* grants: those asked for, or fewer.                                       *)
LEMMA OthersHalfDone ==
    ASSUME NEW g \in Handlers, job'[g] = job[g], HalfDone(job[g]),
           job[g].at \in {"check", "insert"} =>
               \A w \in Workspaces :
                   grants'[job[g].agent][w] \in {None, grants[job[g].agent][w]}
    PROVE  HalfDone(job[g])'
  BY DEF HalfDone

(* Locals at which no edit is half done ask for nothing. *)
LEMMA NothingHalfDone ==
    ASSUME NEW h \in Handlers, job'[h].at \notin {"check", "insert"}
    PROVE  HalfDone(job[h])'
  BY DEF HalfDone

(* A step that leaves grants that were there before, and moves at most the  *)
(* handler h, on to where no edit is half done.                             *)
LEMMA FewerHalfDone ==
    ASSUME TypeOK, EditsInv, NEW h, NEW j, Goes(h, j), j.at \notin {"check", "insert"},
           \A a \in Agents, w \in Workspaces : grants'[a][w] \in {None, grants[a][w]}
    PROVE  EditsInv'
<1> SUFFICES ASSUME NEW g \in Handlers PROVE HalfDone(job[g])'
  BY DEF EditsInv
<1>1. job[g].at \in {"check", "insert"} => job[g].agent \in Agents
  BY JobKinds DEF TypeOK, GrantJob
<1>2. CASE g = h
  BY <1>2, OthersStay, NothingHalfDone
<1>3. CASE g # h
  BY <1>1, <1>3, OthersHalfDone DEF EditsInv, Goes, TypeOK
<1> QED BY <1>2, <1>3

LEMMA ConsoleHalfDone ==
    ASSUME EditsApart, TypeOK, EditsInv, Console
    PROVE  EditsInv'
<1> USE AccessAssumption
<1>1. ASSUME UNCHANGED job,
             \A a \in Agents, w \in Workspaces : grants'[a][w] \in {None, grants[a][w]}
      PROVE  EditsInv'
  <2> SUFFICES ASSUME NEW g \in Handlers PROVE HalfDone(job[g])'
    BY DEF EditsInv
  <2>1. job[g].at \in {"check", "insert"} => job[g].agent \in Agents
    BY JobKinds DEF TypeOK, GrantJob
  <2> QED BY <1>1, <2>1, OthersHalfDone DEF EditsInv
<1>2. ASSUME NEW h \in Handlers, NEW j, Goes(h, j), j.at \notin {"check", "insert"},
             UNCHANGED grants
      PROVE  EditsInv'
  BY <1>2, FewerHalfDone
<1>3. ASSUME NEW a \in Agents, AgentCreate(a) \/ AgentDelete(a) PROVE EditsInv'
  BY <1>1, <1>3 DEF AgentCreate, AgentDelete, TypeOK, Wanted
<1>4. ASSUME NEW w \in Workspaces, WorkspaceConnect(w) \/ WorkspaceDelete(w) PROVE EditsInv'
  BY <1>1, <1>4 DEF WorkspaceConnect, WorkspaceDelete, TypeOK, Wanted
<1>5. ASSUME NEW p \in Policies, NEW b \in Bodies, PolicySave(p, b) PROVE EditsInv'
  BY <1>1, <1>5 DEF PolicySave
<1>6. ASSUME NEW b \in BOOLEAN, SetUserSuspended(b) PROVE EditsInv'
  BY <1>1, <1>6 DEF SetUserSuspended
<1>7. ASSUME NEW h \in Handlers, NEW a \in Agents,
             NEW want \in [Workspaces -> FormGrants \union {None}], FormGrantsStart(h, a, want)
      PROVE  EditsInv'
  BY <1>2, <1>7 DEF FormGrantsStart, tables
<1>8. ASSUME NEW h \in Handlers, NEW a \in Agents, NEW w \in Workspaces,
             NEW ask \in FormGrants \union {None}, NEW k \in BOOLEAN, ApiGrantStart(h, a, w, ask, k)
      PROVE  EditsInv'
  BY <1>2, <1>8 DEF ApiGrantStart, tables
<1>9. ASSUME NEW h \in Handlers, ApiGrantList(h) PROVE EditsInv'
  <2>1. PICK j : Goes(h, j) /\ j.at \in {"idle", "clear"}
    BY <1>9 DEF ApiGrantList, Idle
  <2> QED BY <1>2, <1>9, <2>1 DEF ApiGrantList, tables
<1>10. ASSUME NEW h \in Handlers, GrantClear(h) PROVE EditsInv'
  <2> DEFINE todo == {w \in Workspaces : job[h].want[w] # None}
             next == [job[h] EXCEPT !.at = "check", !.todo = todo]
  <2>1. job[h] \in GrantJob /\ job[h].agent \in Agents
    BY <1>10, JobKinds DEF GrantClear, TypeOK, GrantJob
  <2>2. /\ next.at = "check" /\ next.agent = job[h].agent /\ next.todo = todo
        /\ next.want = job[h].want
    BY <2>1 DEF GrantJob
  <2>3. /\ grants' = [grants EXCEPT ![job[h].agent] = [w \in Workspaces |-> None]]
        /\ Goes(h, Idle) \/ Goes(h, next)
    BY <1>10 DEF GrantClear
  <2> HIDE DEF next
  <2>4. /\ \A w \in Workspaces : grants'[job[h].agent][w] = None
        /\ \A a \in Agents, w \in Workspaces : grants'[a][w] \in {None, grants[a][w]}
    BY <2>1, <2>3 DEF TypeOK
  <2>5. CASE Goes(h, Idle)
    BY <2>4, <2>5, FewerHalfDone DEF Idle
  <2>6. CASE Goes(h, next)
    <3>1. job'[h] = next /\ \A g \in Handlers : g # h => job'[g] = job[g]
      BY <2>6, OthersStay
    <3>2. HalfDone(job[h])'
      BY <2>2, <2>4, <3>1 DEF HalfDone
    <3>3. ASSUME NEW g \in Handlers, g # h PROVE HalfDone(job[g])'
      <4>1. job[g].at \in {"check", "insert"} => job[g].agent \in Agents
        BY JobKinds DEF TypeOK, GrantJob
      <4> QED BY <2>4, <3>1, <3>3, <4>1, OthersHalfDone DEF EditsInv
    <3> QED BY <3>2, <3>3 DEF EditsInv
  <2> QED BY <2>3, <2>5, <2>6
<1>11. ASSUME NEW h \in Handlers, GrantCheck(h) PROVE EditsInv'
  <2>1. job[h] \in GrantJob /\ job[h].at = "check" /\ UNCHANGED grants
    BY <1>11, JobKinds DEF GrantCheck, TypeOK, tables
  <2>2. PICK w \in job[h].todo :
            Goes(h, IF w \in connections /\ PolicyExists(job[h].want[w].policy)
                    THEN [job[h] EXCEPT !.at = "insert", !.cur = w] ELSE Idle)
    BY <1>11 DEF GrantCheck
  <2> DEFINE next == [job[h] EXCEPT !.at = "insert", !.cur = w]
  <2>3. Goes(h, Idle) \/ Goes(h, next)
    BY <2>2
  <2>4. /\ next.at = "insert" /\ next.cur = w /\ next.agent = job[h].agent
        /\ next.want = job[h].want /\ next.todo = job[h].todo
    BY <2>1 DEF GrantJob
  <2> HIDE DEF next
  <2>5. CASE Goes(h, Idle)
    BY <1>2, <2>1, <2>5 DEF Idle
  <2>6. CASE Goes(h, next)
    <3>1. job'[h] = next /\ \A g \in Handlers : g # h => job'[g] = job[g]
      BY <2>6, OthersStay
    <3>2. HalfDone(job[h])'
      BY <2>1, <2>4, <3>1 DEF EditsInv, HalfDone
    <3>3. \A g \in Handlers : g # h => HalfDone(job[g])'
      BY <2>1, <3>1, OthersHalfDone DEF EditsInv
    <3> QED BY <3>2, <3>3 DEF EditsInv
  <2> QED BY <2>3, <2>5, <2>6
<1>12. ASSUME NEW h \in Handlers, GrantInsert(h) PROVE EditsInv'
  <2>0. PICK a \in Agents : job[h].agent = a
    BY <1>12, JobKinds DEF GrantInsert, TypeOK, GrantJob
  <2> DEFINE c == job[h].cur
             left == job[h].todo \ {c}
             next == [job[h] EXCEPT !.at = "check", !.todo = left, !.cur = None]
  <2>1. job[h] \in GrantJob /\ job[h].at = "insert"
    BY <1>12, JobKinds DEF GrantInsert, TypeOK
  <2>2. next.at = "check" /\ next.agent = a /\ next.todo = left /\ next.want = job[h].want
    BY <2>0, <2>1 DEF GrantJob
  <2>3. c \in job[h].todo
    BY <2>1 DEF EditsInv, HalfDone
  <2> HIDE DEF next
  <2>4. CASE Insertable(a, c)
    <3>1. /\ grants' = [grants EXCEPT ![a][c] = job[h].want[c]]
          /\ Goes(h, Idle) \/ Goes(h, next)
          /\ c \in Workspaces
      BY <1>12, <2>0, <2>4 DEF GrantInsert, next, Insertable, TypeOK
    <3>2. \A b \in Agents, w \in Workspaces :
              grants'[b][w] = IF b = a /\ w = c THEN job[h].want[c] ELSE grants[b][w]
      BY <3>1 DEF TypeOK, Wanted
    <3>3. \A g \in Handlers : g # h => job'[g] = job[g]
      BY <3>1 DEF Goes, TypeOK
    <3>4. ASSUME NEW g \in Handlers, g # h PROVE HalfDone(job[g])'
      <4>1. job[g].at \in {"check", "insert"} => job[g].agent \in Agents
        BY JobKinds DEF TypeOK, GrantJob
      <4>2. Edits(job[h], a)
        BY <2>0, <2>1 DEF Edits
      <4>3. job[g].at \in {"check", "insert"} => job[g].agent # a
        BY <3>4, <4>2 DEF EditsApart, Edits
      <4> QED BY <3>2, <3>3, <3>4, <4>1, <4>3, OthersHalfDone DEF EditsInv
    <3>5. HalfDone(job[h])'
      <4>1. CASE Goes(h, Idle)
        BY <4>1, OthersStay, NothingHalfDone DEF Idle
      <4>2. CASE Goes(h, next)
        <5>1. job'[h] = next
          BY <4>2, OthersStay
        <5>2. \A w \in Workspaces : IF w \in job[h].todo THEN grants[a][w] = None
                                    ELSE grants[a][w] \in {None, job[h].want[w]}
          BY <2>0, <2>1 DEF EditsInv, HalfDone
        <5>3. \A w \in Workspaces : IF w \in left THEN grants'[a][w] = None
                                    ELSE grants'[a][w] \in {None, job[h].want[w]}
          BY <3>2, <5>2
        <5> QED BY <2>2, <5>1, <5>3 DEF HalfDone
      <4> QED BY <3>1, <4>1, <4>2
    <3> QED BY <3>4, <3>5 DEF EditsInv
  <2>5. CASE ~Insertable(a, c)
    <3>1. Goes(h, Idle) /\ UNCHANGED grants
      BY <1>12, <2>0, <2>5 DEF GrantInsert
    <3> QED BY <1>2, <3>1 DEF Idle
  <2> QED BY <2>4, <2>5
<1>13. ASSUME NEW h \in Handlers, NEW p \in Policies, PolicyDeleteStart(h, p) PROVE EditsInv'
  BY <1>2, <1>13 DEF PolicyDeleteStart, tables
<1>14. ASSUME NEW h \in Handlers,
              \/ PolicyDeleteReadDefault(h) \/ PolicyDeleteReadUsed(h)
              \/ PolicyDeleteResetDefault(h) \/ PolicyDeleteRow(h)
       PROVE  EditsInv'
  <2>1. UNCHANGED grants
    BY <1>14 DEF PolicyDeleteReadDefault, PolicyDeleteReadUsed, PolicyDeleteResetDefault,
       PolicyDeleteRow, tables
  <2>2. CASE PolicyDeleteRow(h)
    BY <1>2, <2>1, <2>2 DEF PolicyDeleteRow, Idle
  <2>3. CASE ~PolicyDeleteRow(h)
    <3>1. job[h] \in PolicyJob
      BY <1>14, <2>3, JobKinds DEF PolicyDeleteReadDefault, PolicyDeleteReadUsed,
         PolicyDeleteResetDefault, TypeOK
    <3>2. \A x, y : /\ [job[h] EXCEPT !.at = "readUsed", !.wasDefault = x].at = "readUsed"
                    /\ [job[h] EXCEPT !.at = "resetDefault", !.used = y].at = "resetDefault"
                    /\ [job[h] EXCEPT !.at = "revert"].at = "revert"
      BY <3>1 DEF PolicyJob
    <3>3. PICK j : Goes(h, j) /\ j.at \in {"readUsed", "resetDefault", "revert"}
      BY <1>14, <2>3, <3>2 DEF PolicyDeleteReadDefault, PolicyDeleteReadUsed,
         PolicyDeleteResetDefault
    <3> QED BY <1>2, <2>1, <3>3
  <2> QED BY <2>2, <2>3
<1>15. ASSUME NEW h \in Handlers, PolicyDeleteRevertGrants(h) PROVE EditsInv'
  <2> DEFINE next == [job[h] EXCEPT !.at = "deleteRow"]
  <2>0. PICK p \in Policies : job[h].policy = p
    BY <1>15, JobKinds DEF PolicyDeleteRevertGrants, TypeOK, PolicyJob
  <2>1. job[h] \in PolicyJob /\ job[h].at = "revert"
    BY <1>15, JobKinds DEF PolicyDeleteRevertGrants, TypeOK
  <2>2. next.at = "deleteRow"
    BY <2>1 DEF PolicyJob
  <2>3. /\ Goes(h, next)
        /\ grants' = IF job[h].used
                     THEN [a \in Agents |-> [w \in Workspaces |-> Reverted(grants[a][w], p)]]
                     ELSE grants
    BY <1>15, <2>0 DEF PolicyDeleteRevertGrants
  <2> HIDE DEF next
  <2>4. \A a \in Agents, w \in Workspaces :
            \/ grants'[a][w] = grants[a][w]
            \/ grants[a][w] # None /\ grants[a][w].policy = p
    BY <2>3 DEF Reverted
  <2>5. job'[h] = next /\ \A g \in Handlers : g # h => job'[g] = job[g]
    BY <2>3, OthersStay
  <2>6. ASSUME NEW g \in Handlers, g # h PROVE HalfDone(job[g])'
    <3>1. SUFFICES ASSUME job[g].at \in {"check", "insert"}
                   PROVE  \A w \in Workspaces :
                              grants'[job[g].agent][w] = grants[job[g].agent][w]
      BY <2>5, <2>6, OthersHalfDone DEF EditsInv
    <3>2. PICK a \in Agents : job[g].agent = a
      BY <3>1, JobKinds DEF TypeOK, GrantJob
    <3>3. \A w \in Workspaces : job[g].want[w] # None => job[g].want[w].policy # p
      BY <2>0, <2>1, <2>6, <3>1, <3>2 DEF EditsApart, Edits
    <3>4. \A w \in Workspaces : grants[a][w] \in {None, job[g].want[w]}
      BY <3>1, <3>2 DEF EditsInv, HalfDone
    <3> QED BY <2>4, <3>2, <3>3, <3>4
  <2>7. HalfDone(job[h])'
    BY <2>2, <2>5, NothingHalfDone
  <2> QED BY <2>6, <2>7 DEF EditsInv
<1>16. ASSUME NEW h \in Handlers, NEW p \in PolicyIds, DefaultPolicyStart(h, p) PROVE EditsInv'
  BY <1>2, <1>16 DEF DefaultPolicyStart, tables
<1>17. ASSUME NEW h \in Handlers, DefaultPolicySave(h) PROVE EditsInv'
  BY <1>2, <1>17 DEF DefaultPolicySave, Idle
<1>18. ASSUME NEW h \in Handlers, NEW a \in Agents, NEW e \in BOOLEAN, AgentEditStart(h, a, e)
       PROVE  EditsInv'
  BY <1>2, <1>18 DEF AgentEditStart, tables
<1>19. ASSUME NEW h \in Handlers, AgentEditSave(h) PROVE EditsInv'
  BY <1>2, <1>19 DEF AgentEditSave, Idle
<1> QED
  BY <1>3, <1>4, <1>5, <1>6, <1>7, <1>8, <1>9, <1>10, <1>11, <1>12, <1>13, <1>14, <1>15,
     <1>16, <1>17, <1>18, <1>19
  DEF Console

LEMMA NextEditsInv == EditsApart /\ EditsInv /\ RelayInv /\ [Next]_vars => EditsInv'
<1> SUFFICES ASSUME EditsApart, EditsInv, RelayInv, [Next]_vars PROVE EditsInv'
  OBVIOUS
<1>1. CASE Console
  BY <1>1, ConsoleHalfDone DEF RelayInv
<1>2. CASE UNCHANGED <<tables, job>>
  BY <1>2 DEF EditsInv, HalfDone, tables
<1>3. CASE (\E r \in Requests : RelayStep(r)) /\ Observe
  BY <1>2, <1>3, RelayStepProgress
<1>4. CASE Crash
  BY <1>4, NothingHalfDone DEF Crash, EditsInv, Idle
<1>5. CASE UNCHANGED vars
  BY <1>2, <1>5 DEF vars
<1> QED BY <1>1, <1>3, <1>4, <1>5 DEF Next

(* An edit of an agent's grants leaves it no grant beyond those asked for,  *)
(* however it fails or crashes half-way and whatever other console requests *)
(* do meanwhile, as long as none of them edits the same agent's grants or   *)
(* puts the system policy in the place of a policy that was asked for.      *)
THEOREM EditsGrantNothingElse == Spec /\ []EditsApart => []EditGrantsNothingElse
<1>1. Init => EditsInv
  BY DEF Init, EditsInv, HalfDone, Idle
<1>2. EditsInv => EditGrantsNothingElse
  BY DEF EditsInv, HalfDone, EditGrantsNothingElse
<1> QED BY <1>1, <1>2, NextEditsInv, RelayInvariant, PTL DEF Spec
=============================================================================
