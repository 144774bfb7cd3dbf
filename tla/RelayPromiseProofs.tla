------------------------- MODULE RelayPromiseProofs -------------------------
(***************************************************************************)
(* The relay implements RelayPromise, for any number of agents, Workspaces, *)
(* policies, concurrent handlers and relay requests.                        *)
(***************************************************************************)
EXTENDS RelayAccessProofs

(* Until its refusal is recorded or its answer taken, nothing is logged. *)
Logged(r) == req[r].at \in {"waiting", "refusing"} \union Unrefused => log[r] = {}

LogInv == RelayInv /\ \A r \in Requests : Logged(r)

(* The steps of a request, by what they do to its stage and its log: enter, *)
(* go on, be sent, begin the answer, close; refuse, record it and tell it.  *)
Effect(r) ==
    LET from == req[r].at
        to == req'[r].at
    IN
    \/ from = "waiting" /\ to \in {"resolve", "unauthorized"} /\ log' = log
    \/ from \in {"resolve", "grant"} /\ to \in {"grant", "body"} /\ log' = log
    \/ from = "body" /\ to = "prepare" /\ log' = log
    \/ from \in {"prepare", "policy"} /\ to \in {"policy", "decide"} /\ log' = log
    \/ from = "decide" /\ to = "upstream" /\ log' = log
         /\ req[r].policy \in granted[r] \intersect allowedBy[r]
    \/ from = "upstream" /\ to = "again" /\ log' = log
    \/ from \in {"upstream", "again"} /\ to = "replied" /\ log' = log
    \/ from = "replied" /\ to = "answered" /\ Saves(r, {"Success", "Fail"})
    \/ from \in Unrefused \ {"replied"} /\ to = "refusing" /\ log' = log
    \/ from = "refusing" /\ to = "refused" /\ Saves(r, {"Fail"})
    \/ from = "refused" /\ to = "answered" /\ log' = log

LEMMA StepEffect ==
    ASSUME RelayInv, NEW r \in Requests, RelayStep(r)
    PROVE  Effect(r)
<1>0. req \in [Requests -> Request] /\ req[r] \in Request
  BY DEF RelayInv, TypeOK
<1>1. ASSUME NEW s, Moves(r, s) PROVE req'[r].at = s
  BY <1>0, <1>1 DEF Moves, Request
<1>2. ASSUME Refuses(r), UNCHANGED log, req[r].at \in Unrefused \ {"replied"} PROVE Effect(r)
  BY <1>1, <1>2 DEF Refuses, Effect
<1>3. ASSUME NEW s \in Shapes, RelayAuthenticate(r, s) PROVE Effect(r)
  <2>1. req[r].at = "waiting" /\ req'[r].at \in {"resolve", "unauthorized"} /\ log' = log
    BY <1>0, <1>3 DEF RelayAuthenticate
  <2> QED BY <2>1 DEF Effect
<1>4. CASE RelayContextDenied(r)
  BY <1>2, <1>4 DEF RelayContextDenied, Unrefused
<1>5. CASE RelayResolveWorkspace(r)
  <2>1. CASE Moves(r, "grant")
    BY <1>1, <1>5, <2>1 DEF RelayResolveWorkspace, Effect
  <2> QED BY <1>2, <1>5, <2>1 DEF RelayResolveWorkspace, Unrefused
<1>6. CASE RelayGrant(r)
  <2> DEFINE g == grants[req[r].shape.agent][req[r].shape.ws]
  <2>1. CASE g # None /\ (g.motive => req[r].shape.motive)
    <3>1. req' = [req EXCEPT ![r] = [req[r] EXCEPT !.at = "body", !.policy = g.policy]] /\ log' = log
      BY <1>0, <1>6, <2>1 DEF RelayGrant
    <3>2. req'[r].at = "body"
      BY <1>0, <3>1 DEF Request
    <3>3. req[r].at = "grant"
      BY <1>6 DEF RelayGrant
    <3> QED BY <3>1, <3>2, <3>3 DEF Effect
  <2>2. CASE ~(g # None /\ (g.motive => req[r].shape.motive))
    BY <1>2, <1>6, <2>2 DEF RelayGrant, Unrefused
  <2> QED BY <2>1, <2>2
<1>7. CASE RelayReadBody(r)
  <2>1. CASE Moves(r, "prepare")
    BY <1>1, <1>7, <2>1 DEF RelayReadBody, Effect
  <2> QED BY <1>2, <1>7, <2>1 DEF RelayReadBody, Unrefused
<1>8. CASE RelayPrepare(r)
  <2>1. CASE Moves(r, "policy")
    BY <1>1, <1>8, <2>1 DEF RelayPrepare, Effect
  <2> QED BY <1>2, <1>8, <2>1 DEF RelayPrepare, Unrefused
<1>9. CASE RelayLoadPolicy(r)
  <2>1. CASE PolicyExists(req[r].policy)
    <3> DEFINE b == BodyOf(req[r].policy)
    <3>1. req' = [req EXCEPT ![r] = [req[r] EXCEPT !.at = "decide", !.body = b]] /\ log' = log
      BY <1>0, <1>9, <2>1 DEF RelayLoadPolicy
    <3>2. req'[r].at = "decide"
      BY <1>0, <3>1 DEF Request
    <3>3. req[r].at = "policy"
      BY <1>9 DEF RelayLoadPolicy
    <3> QED BY <3>1, <3>2, <3>3 DEF Effect
  <2>2. CASE ~PolicyExists(req[r].policy)
    BY <1>2, <1>9, <2>2 DEF RelayLoadPolicy, Unrefused
  <2> QED BY <2>1, <2>2
<1>10. CASE RelayDecide(r)
  <2>1. CASE Allows(req[r].body, req[r].shape) /\ Moves(r, "upstream")
    <3>1. req[r].policy \in granted[r] \intersect allowedBy[r] /\ req[r].at = "decide" /\ log' = log
      BY <1>10, <2>1 DEF RelayDecide, RelayInv, Progress, Unrefused
    <3> QED BY <1>1, <2>1, <3>1 DEF Effect
  <2> QED BY <1>2, <1>10, <2>1 DEF RelayDecide, Unrefused
<1>11. CASE RelayRetry(r)
  BY <1>1, <1>11 DEF RelayRetry, Effect
<1>12. CASE RelayReply(r)
  <2>1. CASE Moves(r, "replied")
    BY <1>1, <1>12, <2>1 DEF RelayReply, Effect
  <2> QED BY <1>2, <1>12, <2>1 DEF RelayReply, Unrefused
<1>13. CASE RelayLog(r)
  BY <1>1, <1>13 DEF RelayLog, Effect
<1>14. CASE RelayLogRefusal(r)
  BY <1>1, <1>14 DEF RelayLogRefusal, Effect
<1>15. CASE RelayAnswerRefusal(r)
  BY <1>1, <1>15 DEF RelayAnswerRefusal, Effect
<1> QED
  BY <1>3, <1>4, <1>5, <1>6, <1>7, <1>8, <1>9, <1>10, <1>11, <1>12, <1>13, <1>14, <1>15
  DEF RelayStep

(* What a crash does to the requests. *)
LEMMA CrashEffect ==
    ASSUME RelayInv, Crash, NEW r \in Requests
    PROVE  req'[r].at = IF req[r].at \in Running THEN "lost" ELSE req[r].at
  BY DEF RelayInv, TypeOK, Crash, Request

(* A console step leaves the requests alone. *)
LEMMA ConsoleEffect == RelayInv /\ Console => UNCHANGED <<req, log>>
  BY ConsoleKeepsTypes DEF RelayInv

-----------------------------------------------------------------------------
LEMMA InitLogInv == Init => LogInv
  BY InitRelayInv DEF Init, LogInv, Logged

LEMMA NextLogInv == LogInv /\ [Next]_vars => LogInv'
<1> SUFFICES ASSUME LogInv, [Next]_vars PROVE LogInv'
  OBVIOUS
<1>1. RelayInv /\ RelayInv'
  BY NextRelayInv DEF LogInv
<1>2. SUFFICES ASSUME NEW q \in Requests PROVE Logged(q)'
  BY <1>1 DEF LogInv
<1>3. Logged(q)
  BY DEF LogInv
<1>4. CASE req'[q] = req[q] /\ log'[q] = log[q]
  BY <1>3, <1>4 DEF Logged
<1>5. ASSUME NEW r \in Requests, RelayStep(r), Observe PROVE Logged(q)'
  <2>1. CASE r # q
    <3>1. req'[q] = req[q]
      BY <1>1, <1>5, <2>1, RelayStepProgress
    <3>2. log'[q] = log[q]
      BY <1>1, <1>5, <2>1, StepEffect DEF Effect, Saves, RelayInv, TypeOK
    <3> QED BY <1>4, <3>1, <3>2
  <2>2. CASE r = q
    <3>1. Effect(q)
      BY <1>1, <1>5, <2>2, StepEffect
    <3>2. q \in DOMAIN log
      BY <1>1 DEF RelayInv, TypeOK
    <3> QED BY <1>3, <3>1, <3>2 DEF Effect, Logged, Unrefused
  <2> QED BY <2>1, <2>2
<1>6. CASE Console
  BY <1>1, <1>4, <1>6, ConsoleEffect
<1>7. CASE Crash
  <2>1. log' = log
    BY <1>7 DEF Crash
  <2> QED BY <1>1, <1>3, <1>7, <2>1, CrashEffect DEF Logged, Running, Unrefused
<1>8. CASE UNCHANGED vars
  BY <1>4, <1>8 DEF vars
<1> QED BY <1>5, <1>6, <1>7, <1>8 DEF Next

LEMMA LogInvariant == Spec => []LogInv
  BY InitLogInv, NextLogInv, PTL DEF Spec

-----------------------------------------------------------------------------
(* The refinement. *)
StageNow == [r \in Requests |-> StageOf(req[r].at)]

LEMMA LiveIsRunning ==
    ASSUME NEW at \in Stages
    PROVE  /\ StageOf(at) \in Promise!Live <=> at \in Running
           /\ StageOf(at) \in Promise!Unrefused <=> at \in Unrefused
  BY DEF Stages, Running, Unrefused, StageOf, Promise!Live, Promise!Unrefused

(* A step of one request is a change of its stage alone. *)
LEMMA OneMoves ==
    ASSUME NEW r \in Requests, \A q \in Requests \ {r} : req'[q] = req[q]
    PROVE  Promise!Becomes(r, StageOf(req'[r].at))
  BY DEF Promise!Becomes

(* Observe lets settings drift as the promise allows. *)
LEMMA ObserveDrifts ==
    ASSUME RelayInv, RelayInv', Observe
    PROVE  Promise!Drift
<1>1. ASSUME NEW r \in Requests, StageOf(req[r].at) \in Promise!Unrefused,
             StageOf(req'[r].at) \in Promise!Unrefused, granted[r] \intersect allowedBy[r] # {}
      PROVE  granted'[r] \intersect allowedBy'[r] # {}
  <2>1. req'[r].at \in Unrefused
    <3>1. req'[r] \in Request
      BY DEF RelayInv, TypeOK
    <3>2. req'[r].at \in Stages
      BY <3>1 DEF Request
    <3> QED BY <1>1, <3>2, LiveIsRunning
  <2>2. granted[r] \subseteq granted'[r] /\ allowedBy[r] \subseteq allowedBy'[r]
    BY <2>1, ObserveGrows DEF RelayInv
  <2> QED BY <1>1, <2>2
<1> QED BY <1>1 DEF Promise!Drift

LEMMA InitPromised == Init => Promise!Begin
<1> SUFFICES ASSUME Init PROVE Promise!Begin
  OBVIOUS
<1>1. \A r \in Requests : StageOf(req[r].at) = "waiting"
  BY DEF Init, StageOf
<1> QED BY <1>1 DEF Init, Promise!Begin

LEMMA StepPromised ==
    ASSUME LogInv, LogInv', NEW r \in Requests, RelayStep(r), Observe
    PROVE  Promise!Next
<1>1. Effect(r) /\ Promise!Drift
  BY StepEffect, ObserveDrifts DEF LogInv
<1>2. Promise!Becomes(r, StageOf(req'[r].at))
  BY RelayStepProgress, OneMoves DEF LogInv
<1>3. StageNow[r] = StageOf(req[r].at) /\ StageNow' = [StageNow EXCEPT ![r] = StageOf(req'[r].at)]
  BY <1>2 DEF StageNow, Promise!Becomes
<1>4. Logged(r)
  BY DEF LogInv
<1>5. CASE StageOf(req'[r].at) = StageOf(req[r].at) /\ log' = log
  <2>1. StageNow' = StageNow
    BY <1>3, <1>5 DEF StageNow
  <2> QED BY <1>1, <1>5, <2>1 DEF StageNow, Promise!Next
<1>6. ASSUME Promise!Step(r) PROVE Promise!Next
  BY <1>1, <1>6 DEF Promise!Next
<1>7. CASE req[r].at = "waiting" /\ req'[r].at \in {"resolve", "unauthorized"} /\ log' = log
  <2>1. StageOf(req[r].at) = "waiting" /\ StageOf(req'[r].at) \in {"open", "unauthorized"}
    BY <1>7 DEF StageOf
  <2>2. Promise!Enter(r)
    BY <1>2, <1>7, <2>1 DEF Promise!Enter
  <2> QED BY <1>6, <2>2 DEF Promise!Step
<1>8. CASE req[r].at = "body" /\ req'[r].at = "prepare" /\ log' = log
  <2>1. StageOf(req[r].at) = "open" /\ StageOf(req'[r].at) = "complete"
    BY <1>8 DEF StageOf
  <2>2. Promise!Complete(r)
    BY <1>2, <1>8, <2>1 DEF Promise!Complete
  <2> QED BY <1>6, <2>2 DEF Promise!Step
<1>9. CASE /\ req[r].at = "decide" /\ req'[r].at = "upstream" /\ log' = log
           /\ req[r].policy \in granted[r] \intersect allowedBy[r]
  <2>1. StageOf(req[r].at) = "complete" /\ StageOf(req'[r].at) = "sent"
    BY <1>9 DEF StageOf
  <2>2. Promise!Send(r)
    BY <1>2, <1>9, <2>1 DEF Promise!Send
  <2> QED BY <1>6, <2>2 DEF Promise!Step
<1>10. CASE req[r].at \in {"upstream", "again"} /\ req'[r].at = "replied" /\ log' = log
  <2>1. StageOf(req[r].at) = "sent" /\ StageOf(req'[r].at) = "answering"
    BY <1>10 DEF StageOf
  <2>2. Promise!Answer(r)
    BY <1>2, <1>10, <2>1 DEF Promise!Answer
  <2> QED BY <1>6, <2>2 DEF Promise!Step
<1>11. CASE req[r].at = "replied" /\ req'[r].at = "answered" /\ Saves(r, {"Success", "Fail"})
  <2>1. StageOf(req[r].at) = "answering" /\ StageOf(req'[r].at) = "closed"
    BY <1>11 DEF StageOf
  <2>2. log[r] = {}
    BY <1>4, <1>11 DEF Logged, Unrefused
  <2>3. Promise!LogsOneOf(r, Promise!Outcomes)
    BY <1>11, <2>2 DEF Saves, Promise!LogsOneOf, Promise!Outcomes
  <2>4. Promise!Close(r)
    BY <1>2, <2>1, <2>3 DEF Promise!Close
  <2> QED BY <1>6, <2>4 DEF Promise!Step
<1>12. CASE req[r].at \in Unrefused \ {"replied"} /\ req'[r].at = "refusing" /\ log' = log
  <2>1. StageOf(req[r].at) \in {"open", "complete", "sent"} /\ StageOf(req'[r].at) = "refusing"
    BY <1>12 DEF StageOf, Unrefused
  <2>2. Promise!Refuse(r)
    BY <1>2, <1>12, <2>1 DEF Promise!Refuse
  <2> QED BY <1>6, <2>2 DEF Promise!Step
<1>13. CASE req[r].at = "refusing" /\ req'[r].at = "refused" /\ Saves(r, {"Fail"})
  <2>1. StageOf(req[r].at) = "refusing" /\ StageOf(req'[r].at) = "denied"
    BY <1>13 DEF StageOf
  <2>2. log[r] = {}
    BY <1>4, <1>13 DEF Logged
  <2>3. Promise!LogsOneOf(r, {"Fail"})
    BY <1>13, <2>2 DEF Saves, Promise!LogsOneOf
  <2>4. Promise!Record(r)
    BY <1>2, <2>1, <2>3 DEF Promise!Record
  <2> QED BY <1>6, <2>4 DEF Promise!Step
<1>14. CASE req[r].at = "refused" /\ req'[r].at = "answered" /\ log' = log
  <2>1. StageOf(req[r].at) = "denied" /\ StageOf(req'[r].at) = "closed"
    BY <1>14 DEF StageOf
  <2>2. Promise!Tell(r)
    BY <1>2, <1>14, <2>1 DEF Promise!Tell
  <2> QED BY <1>6, <2>2 DEF Promise!Step
<1> QED
  BY <1>1, <1>5, <1>7, <1>8, <1>9, <1>10, <1>11, <1>12, <1>13, <1>14 DEF Effect, StageOf

LEMMA NextPromised == LogInv /\ LogInv' /\ [Next]_vars => [Promise!Next]_(Promise!promise)
<1> SUFFICES ASSUME LogInv, LogInv', [Next]_vars PROVE [Promise!Next]_(Promise!promise)
  OBVIOUS
<1>1. CASE (\E r \in Requests : RelayStep(r)) /\ Observe
  BY <1>1, StepPromised
<1>2. CASE Console /\ Observe
  <2>1. UNCHANGED <<req, log>> /\ Promise!Drift
    BY <1>2, ConsoleEffect, ObserveDrifts DEF LogInv
  <2> QED BY <2>1 DEF Promise!Next
<1>3. CASE Crash /\ Observe
  <2>1. Promise!Drift /\ log' = log
    BY <1>3, ObserveDrifts DEF LogInv, Crash
  <2>2. ASSUME NEW r \in Requests
        PROVE  StageOf(req'[r].at) = IF StageOf(req[r].at) \in Promise!Live THEN "lost"
                                     ELSE StageOf(req[r].at)
    <3>1. req[r].at \in Stages
      BY DEF LogInv, RelayInv, TypeOK, Request
    <3>2. req'[r].at = IF req[r].at \in Running THEN "lost" ELSE req[r].at
      BY <1>3, CrashEffect DEF LogInv
    <3>3. StageOf("lost") = "lost"
      BY DEF StageOf
    <3> QED BY <3>1, <3>2, <3>3, LiveIsRunning
  <2>3. Promise!Stop
    BY <2>1, <2>2 DEF Promise!Stop
  <2> QED BY <2>1, <2>3 DEF Promise!Next
<1>4. CASE UNCHANGED vars
  BY <1>4 DEF vars, history, Promise!promise
<1> QED BY <1>1, <1>2, <1>3, <1>4 DEF Next

(* The relay handler beside any number of console handlers implements the   *)
(* promise: its start is the promise's, and every step of RelayAccess is a  *)
(* step of RelayPromise or changes nothing of it.                           *)
THEOREM RelayKeepsPromise == Spec => StepsPromised
<1>1. Init => Promise!Begin
  BY InitPromised
<1>2. LogInv /\ LogInv' /\ [Next]_vars => [Promise!Next]_(Promise!promise)
  BY NextPromised
<1> QED BY <1>1, <1>2, LogInvariant, PTL DEF Spec, StepsPromised, Promise!Safe
=============================================================================
