---------------------------- MODULE RelayAccess ----------------------------
(***************************************************************************)
(* Who may reach which Google Workspace: the agents, Workspace             *)
(* connections, policies and agent Workspace grants of one proxy user, the *)
(* console and API handlers that edit them, and the relay handler that     *)
(* decides, request by request, whether to forward to Google.              *)
(*                                                                         *)
(* SQLiteDB serialises single statements; there is no transaction.  A      *)
(* handler is therefore a sequence of steps, one per statement that reads  *)
(* or writes the tables below, and the steps of all handlers interleave.   *)
(* A handler that answers with an error before its first write changes     *)
(* nothing and is not an action.  Names, labels, timestamps, audit rows    *)
(* and the HTTP answers of the console are left out.                       *)
(***************************************************************************)
EXTENDS FiniteSets

CONSTANTS
    Agents,      \* agent ids
    Caps,        \* capability keys; a request asks for the operation of one
    Workspaces,  \* mailbox addresses that may be connected
    Policies,    \* ids of custom policies
    System,      \* the id of the immutable system policy
    None,        \* no grant, no policy row, nothing chosen
    Bodies,      \* the policy contents a save may write (bound)
    SystemBody,  \* the content of the system policy
    Shapes,      \* the relay requests clients send (bound)
    FormGrants,  \* the grants a form or an API call may ask for (bound)
    Handlers,    \* console and API requests in flight (bound)
    Requests,    \* relay requests, each answered once (bound)
    ConsoleOps   \* the kinds of console handlers a run exercises (bound)

VARIABLES
    agentRow,       \* agents: "unused", "enabled", "suspended" or "deleted"
    userSuspended,  \* users.is_suspended of the owner
    connections,    \* gmail_connections: the connected mailboxes
    policy,         \* user_policies: a body, or None when there is no row
    defaultPolicy,  \* user_settings.default_policy_id
    grants,         \* agent_workspace_grants, by agent and mailbox
    job,            \* per console handler: its locals and where it stands
    req,            \* per relay request: its locals and where it stands
    log,            \* request_logs: the outcomes logged for a request
    granted,        \* history: the policies the grant named while the request ran unrefused
    allowedBy       \* history: the policies that allowed its operation meanwhile

tables == <<agentRow, userSuspended, connections, policy, defaultPolicy, grants>>
history == <<granted, allowedBy>>
vars == <<tables, job, req, log, history>>

-----------------------------------------------------------------------------
PolicyIds == Policies \union {System}
Body == [caps : SUBSET Caps, review : SUBSET Caps]
Shape == [agent : Agents, ws : Workspaces, cap : Caps,
          motive : BOOLEAN, approval : BOOLEAN]
Grant == [policy : PolicyIds, motive : BOOLEAN]
Wanted == [Workspaces -> Grant \union {None}]

(* Locals of the handlers that are between two statements. *)
Idle == [at |-> "idle"]
GrantJob == [at : {"clear", "check", "insert"}, agent : Agents, want : Wanted,
             todo : SUBSET Workspaces, cur : Workspaces \union {None},
             others : SUBSET Workspaces]
ListJob == [at : {"list"}, agent : Agents, ws : Workspaces,
            ask : Grant \union {None}, keepMotive : BOOLEAN]
PolicyJob == [at : {"readDefault", "readUsed", "resetDefault", "revert", "deleteRow"},
              policy : Policies, wasDefault : BOOLEAN, used : BOOLEAN]
DefaultJob == [at : {"saveDefault"}, policy : PolicyIds]
AgentJob == [at : {"saveAgent"}, agent : Agents, enabled : BOOLEAN]
Job == {Idle} \union GrantJob \union ListJob \union PolicyJob
              \union DefaultJob \union AgentJob

Unrefused == {"resolve", "grant", "body", "prepare", "policy", "decide", "upstream", "again",
              "replied"}
Running == Unrefused \union {"refusing", "refused"}
Stages == Running \union {"waiting", "unauthorized", "answered", "lost"}
Request == [at : Stages, shape : Shape \union {None},
            policy : PolicyIds \union {None}, body : Body \union {None}]

ASSUME AccessAssumption ==
    /\ System \notin Policies
    /\ None \notin PolicyIds \union Workspaces \union Grant \union Body \union Shape
    /\ Shapes \subseteq Shape
    /\ FormGrants \subseteq Grant
    /\ Bodies \subseteq Body
    /\ SystemBody \in Body

TypeOK ==
    /\ agentRow \in [Agents -> {"unused", "enabled", "suspended", "deleted"}]
    /\ userSuspended \in BOOLEAN
    /\ connections \subseteq Workspaces
    /\ policy \in [Policies -> Body \union {None}]
    /\ defaultPolicy \in PolicyIds
    /\ grants \in [Agents -> Wanted]
    /\ job \in [Handlers -> Job]
    /\ req \in [Requests -> Request]
    /\ log \in [Requests -> SUBSET {"Success", "Fail"}]
    /\ granted \in [Requests -> SUBSET PolicyIds]
    /\ allowedBy \in [Requests -> SUBSET PolicyIds]

Init ==
    /\ agentRow = [a \in Agents |-> "unused"]
    /\ userSuspended = FALSE
    /\ connections = {}
    /\ policy = [p \in Policies |-> None]
    /\ defaultPolicy = System
    /\ grants = [a \in Agents |-> [w \in Workspaces |-> None]]
    /\ job = [h \in Handlers |-> Idle]
    /\ req = [r \in Requests |-> [at |-> "waiting", shape |-> None,
                                  policy |-> None, body |-> None]]
    /\ log = [r \in Requests |-> {}]
    /\ granted = [r \in Requests |-> {}]
    /\ allowedBy = [r \in Requests |-> {}]

-----------------------------------------------------------------------------
(* What the tables say at one instant. *)
Present(a) == agentRow[a] \in {"enabled", "suspended"}
BodyOf(p) == IF p = System THEN SystemBody ELSE policy[p]
PolicyExists(p) == BodyOf(p) # None

(* EvaluateDecision for one operation: the capability must be enabled, and *)
(* one marked for review needs the human approval header.                  *)
Allows(body, s) ==
    /\ s.cap \in body.caps
    /\ s.cap \in body.review => s.approval

(* SaveUserPolicy keeps a review mark only on an enabled capability. *)
Normalized(body) == [body EXCEPT !.review = body.review \intersect body.caps]

-----------------------------------------------------------------------------
(* Single-statement handlers of the console.  The session check before the *)
(* statement is merged with it: suspending the user touches no table that  *)
(* the statement reads or writes, so the two commute.                      *)

(* handleAgentCreate: a fresh random id, enabled, no grants. *)
AgentCreate(a) ==
    /\ ~userSuspended
    /\ agentRow[a] = "unused"
    /\ agentRow' = [agentRow EXCEPT ![a] = "enabled"]
    /\ UNCHANGED <<userSuspended, connections, policy, defaultPolicy, grants, job, req, log>>

(* handleAgentDelete: one DELETE; its grants go by ON DELETE CASCADE. *)
AgentDelete(a) ==
    /\ ~userSuspended
    /\ Present(a)
    /\ agentRow' = [agentRow EXCEPT ![a] = "deleted"]
    /\ grants' = [grants EXCEPT ![a] = [w \in Workspaces |-> None]]
    /\ UNCHANGED <<userSuspended, connections, policy, defaultPolicy, job, req, log>>

(* The row of a Workspace connection appears with the first OAuth callback, *)
(* which looks the user up but asks for neither session nor suspension.  A   *)
(* relay request that refreshes its access token upserts the row as well,   *)
(* and may bring a deleted one back: this step, then RelayPrepare.          *)
WorkspaceConnect(w) ==
    /\ w \notin connections
    /\ connections' = connections \union {w}
    /\ UNCHANGED <<agentRow, userSuspended, policy, defaultPolicy, grants, job, req, log>>

(* handleWorkspaceDelete: the last DELETE of DeleteGmailConnection removes *)
(* the row, and every agent's grant for it by ON DELETE CASCADE.           *)
WorkspaceDelete(w) ==
    /\ ~userSuspended
    /\ w \in connections
    /\ connections' = connections \ {w}
    /\ grants' = [a \in Agents |-> [grants[a] EXCEPT ![w] = None]]
    /\ UNCHANGED <<agentRow, userSuspended, policy, defaultPolicy, job, req, log>>

(* handlePolicySave: an upsert by id.  The form's id is taken as it comes,  *)
(* so a page left open can write the row of a deleted policy again.  The    *)
(* API's create and update write the same row after more checks.            *)
PolicySave(p, body) ==
    /\ ~userSuspended
    /\ policy' = [policy EXCEPT ![p] = Normalized(body)]
    /\ UNCHANGED <<agentRow, userSuspended, connections, defaultPolicy, grants, job, req, log>>

(* An administrator suspends or reactivates the user. *)
SetUserSuspended(b) ==
    /\ userSuspended # b
    /\ userSuspended' = b
    /\ UNCHANGED <<agentRow, connections, policy, defaultPolicy, grants, job, req, log>>

-----------------------------------------------------------------------------
(* Handlers of several statements. *)
Starts(h, op) == job[h] = Idle /\ op \in ConsoleOps /\ ~userSuspended
Goes(h, j) == job' = [job EXCEPT ![h] = j]

(* handleAgentGrantsUpdate: the form lists every grant the agent is to have; *)
(* SaveAgentWorkspaceGrants first looks the agent up.                        *)
FormGrantsStart(h, a, want) ==
    /\ Starts(h, "form")
    /\ Present(a)
    /\ Goes(h, [at |-> "clear", agent |-> a, want |-> want, todo |-> {},
                cur |-> None, others |-> {}])
    /\ UNCHANGED <<tables, req, log>>

(* handleUserAgentGrantsAPIUpdate: one grant is asked for, or its removal   *)
(* (ask = None); the Workspace must be connected and the policy must exist. *)
ApiGrantStart(h, a, w, ask, keepMotive) ==
    /\ Starts(h, "api")
    /\ Present(a)
    /\ w \in connections
    /\ ask # None => PolicyExists(ask.policy)
    /\ Goes(h, [at |-> "list", agent |-> a, ws |-> w, ask |-> ask, keepMotive |-> keepMotive])
    /\ UNCHANGED <<tables, req, log>>

(* The grants the API call will save: the ones just listed, with one changed. *)
Edited(j) ==
    LET old == grants[j.agent][j.ws]
        flag == IF old = None THEN FALSE ELSE old.motive
        new == IF j.ask = None THEN None
               ELSE IF j.keepMotive THEN [j.ask EXCEPT !.motive = flag] ELSE j.ask
    IN  [grants[j.agent] EXCEPT ![j.ws] = new]

(* It lists the agent's grants, edits the list and hands it to               *)
(* SaveAgentWorkspaceGrants, whose look-up of the agent is merged here:      *)
(* without the row the DELETE finds nothing and every INSERT fails.          *)
ApiGrantList(h) ==
    LET j == job[h] IN
    /\ j.at = "list"
    /\ Goes(h, IF ~Present(j.agent) THEN Idle
               ELSE [at |-> "clear", agent |-> j.agent, want |-> Edited(j), todo |-> {},
                     cur |-> None,
                     others |-> {w \in Workspaces \ {j.ws} : grants[j.agent][w] # None}])
    /\ UNCHANGED <<tables, req, log>>

(* Mutant: the new grants are written over the old ones without the DELETE. *)
GrantClearSkipped(h) ==
    LET j == job[h]
        todo == {w \in Workspaces : j.want[w] # None}
    IN
    /\ j.at = "clear"
    /\ Goes(h, IF todo = {} THEN Idle ELSE [j EXCEPT !.at = "check", !.todo = todo])
    /\ UNCHANGED <<tables, req, log>>

(* SaveAgentWorkspaceGrants: DELETE every grant of the agent ... *)
GrantClear(h) ==
    LET j == job[h]
        todo == {w \in Workspaces : j.want[w] # None}
    IN
    /\ j.at = "clear"
    /\ grants' = [grants EXCEPT ![j.agent] = [w \in Workspaces |-> None]]
    /\ Goes(h, IF todo = {} THEN Idle ELSE [j EXCEPT !.at = "check", !.todo = todo])
    /\ UNCHANGED <<agentRow, userSuspended, connections, policy, defaultPolicy, req, log>>

(* Mutant: the policy of a grant is not looked up. *)
GrantCheckConnectionOnly(h) ==
    LET j == job[h] IN
    /\ j.at = "check"
    /\ \E w \in j.todo :
         Goes(h, IF w \in connections THEN [j EXCEPT !.at = "insert", !.cur = w] ELSE Idle)
    /\ UNCHANGED <<tables, req, log>>

(* ... then, grant by grant (the form's come out of a Go map, in any order), *)
(* look up the connection and the policy, giving up when either is gone ...  *)
GrantCheck(h) ==
    LET j == job[h] IN
    /\ j.at = "check"
    /\ \E w \in j.todo :
         Goes(h, IF w \in connections /\ PolicyExists(j.want[w].policy)
                 THEN [j EXCEPT !.at = "insert", !.cur = w] ELSE Idle)
    /\ UNCHANGED <<tables, req, log>>

(* ... and INSERT it, which the primary key and the foreign keys may refuse. *)
Insertable(a, w) == Present(a) /\ w \in connections /\ grants[a][w] = None

GrantInsert(h) ==
    LET j == job[h]
        left == j.todo \ {j.cur}
    IN
    /\ j.at = "insert"
    /\ IF Insertable(j.agent, j.cur)
       THEN /\ grants' = [grants EXCEPT ![j.agent][j.cur] = j.want[j.cur]]
            /\ Goes(h, IF left = {} THEN Idle
                       ELSE [j EXCEPT !.at = "check", !.todo = left, !.cur = None])
       ELSE /\ Goes(h, Idle)
            /\ UNCHANGED grants
    /\ UNCHANGED <<agentRow, userSuspended, connections, policy, defaultPolicy, req, log>>

(* handlePolicyDelete and its API twin, then DeleteUserPolicy: the row must *)
(* exist; is it the default, is it used by a grant; if so put the system    *)
(* policy in its place; delete the row.                                     *)
PolicyDeleteStart(h, p) ==
    /\ Starts(h, "deletePolicy")
    /\ policy[p] # None
    /\ Goes(h, [at |-> "readDefault", policy |-> p, wasDefault |-> FALSE, used |-> FALSE])
    /\ UNCHANGED <<tables, req, log>>

PolicyDeleteReadDefault(h) ==
    LET j == job[h] IN
    /\ j.at = "readDefault"
    /\ Goes(h, [j EXCEPT !.at = "readUsed", !.wasDefault = (defaultPolicy = j.policy)])
    /\ UNCHANGED <<tables, req, log>>

UsedByAgentGrant(p) ==
    \E a \in Agents, w \in Workspaces : grants[a][w] # None /\ grants[a][w].policy = p

(* Mutant: the default is cleared instead of reset to the system policy. *)
PolicyDeleteClearDefault(h) ==
    LET j == job[h] IN
    /\ j.at = "resetDefault"
    /\ defaultPolicy' = IF j.wasDefault THEN None ELSE defaultPolicy
    /\ Goes(h, [j EXCEPT !.at = "revert"])
    /\ UNCHANGED <<agentRow, userSuspended, connections, policy, grants, req, log>>

PolicyDeleteReadUsed(h) ==
    LET j == job[h] IN
    /\ j.at = "readUsed"
    /\ Goes(h, [j EXCEPT !.at = "resetDefault", !.used = UsedByAgentGrant(j.policy)])
    /\ UNCHANGED <<tables, req, log>>

PolicyDeleteResetDefault(h) ==
    LET j == job[h] IN
    /\ j.at = "resetDefault"
    /\ defaultPolicy' = IF j.wasDefault THEN System ELSE defaultPolicy
    /\ Goes(h, [j EXCEPT !.at = "revert"])
    /\ UNCHANGED <<agentRow, userSuspended, connections, policy, grants, req, log>>

(* UPDATE agent_workspace_grants SET policy_id = 'system' WHERE policy_id = p *)
Reverted(g, p) == IF g # None /\ g.policy = p THEN [g EXCEPT !.policy = System] ELSE g

PolicyDeleteRevertGrants(h) ==
    LET j == job[h] IN
    /\ j.at = "revert"
    /\ grants' = IF j.used
                 THEN [a \in Agents |-> [w \in Workspaces |-> Reverted(grants[a][w], j.policy)]]
                 ELSE grants
    /\ Goes(h, [j EXCEPT !.at = "deleteRow"])
    /\ UNCHANGED <<agentRow, userSuspended, connections, policy, defaultPolicy, req, log>>

PolicyDeleteRow(h) ==
    LET j == job[h] IN
    /\ j.at = "deleteRow"
    /\ policy' = [policy EXCEPT ![j.policy] = None]
    /\ Goes(h, Idle)
    /\ UNCHANGED <<agentRow, userSuspended, connections, defaultPolicy, grants, req, log>>

(* handlePolicyDefault and the API's apply, then SaveDefaultPolicyID: the *)
(* policy must exist; write it to the user's settings.                    *)
DefaultPolicyStart(h, p) ==
    /\ Starts(h, "default")
    /\ PolicyExists(p)
    /\ Goes(h, [at |-> "saveDefault", policy |-> p])
    /\ UNCHANGED <<tables, req, log>>

DefaultPolicySave(h) ==
    LET j == job[h] IN
    /\ j.at = "saveDefault"
    /\ defaultPolicy' = j.policy
    /\ Goes(h, Idle)
    /\ UNCHANGED <<agentRow, userSuspended, connections, policy, grants, req, log>>

(* handleAgentUpdate, handleAgentRotate and handleAgentToggle load the whole *)
(* agent row; the toggle then sets the enabled column ...                    *)
AgentEditStart(h, a, enabled) ==
    /\ Starts(h, "agent")
    /\ Present(a)
    /\ Goes(h, [at |-> "saveAgent", agent |-> a, enabled |-> enabled])
    /\ UNCHANGED <<tables, req, log>>

(* ... and SaveAgent upserts every column of the copy, row or no row. *)
AgentEditSave(h) ==
    LET j == job[h] IN
    /\ j.at = "saveAgent"
    /\ agentRow' = [agentRow EXCEPT ![j.agent] = IF j.enabled THEN "enabled" ELSE "suspended"]
    /\ Goes(h, Idle)
    /\ UNCHANGED <<userSuspended, connections, policy, defaultPolicy, grants, req, log>>

-----------------------------------------------------------------------------
(* The relay handler, one action per read of the tables or wait. *)
Moves(r, stage) == req' = [req EXCEPT ![r].at = stage]

(* Each of the handler's early returns after authentication comes here; the  *)
(* row and the answer are steps of their own, below.                         *)
Refuses(r) == Moves(r, "refusing")

(* currentAgentFromBearer and the suspension check: FindAgentByToken reads *)
(* users and agents in one statement and returns enabled agents only.      *)
RelayAuthenticate(r, s) ==
    /\ req[r].at = "waiting"
    /\ req' = [req EXCEPT ![r] = [at |-> IF agentRow[s.agent] = "enabled" /\ ~userSuspended
                                         THEN "resolve" ELSE "unauthorized",
                                  shape |-> s, policy |-> None, body |-> None]]
    /\ UNCHANGED <<tables, job, log>>

(* A malformed context header or the agent firewall refuses the request. *)
RelayContextDenied(r) ==
    /\ req[r].at = "resolve"
    /\ Refuses(r)
    /\ UNCHANGED <<tables, job, log>>

RelayResolveWorkspace(r) ==
    /\ req[r].at = "resolve"
    /\ IF req[r].shape.ws \in connections
       THEN Moves(r, "grant")
       ELSE Refuses(r)
    /\ UNCHANGED <<tables, job, log>>

(* GetAgentWorkspaceGrant: without a row, or without the motive the row *)
(* demands, the request is refused; the policy id is kept for later.    *)
RelayGrant(r) ==
    LET g == grants[req[r].shape.agent][req[r].shape.ws] IN
    /\ req[r].at = "grant"
    /\ IF g # None /\ (g.motive => req[r].shape.motive)
       THEN req' = [req EXCEPT ![r].at = "body", ![r].policy = g.policy]
       ELSE Refuses(r)
    /\ UNCHANGED <<tables, job, log>>

(* The target is normalised and the body read from the client: it may be of *)
(* another API, break off, or be too long - or stop coming, for the server  *)
(* sets no time for it.                                                     *)
RelayReadBody(r) ==
    /\ req[r].at = "body"
    /\ Moves(r, "prepare") \/ Refuses(r)
    /\ UNCHANGED <<tables, job, log>>

(* An access token is obtained and the request rewritten; each may ask       *)
(* Google, within the time of the HTTP client, and may fail.                 *)
RelayPrepare(r) ==
    /\ req[r].at = "prepare"
    /\ Moves(r, "policy") \/ Refuses(r)
    /\ UNCHANGED <<tables, job, log>>

(* Mutant: the user's default policy stands in for the system policy. *)
RelayLoadPolicyOrDefault(r) ==
    LET p == IF req[r].policy = System THEN defaultPolicy ELSE req[r].policy IN
    /\ req[r].at = "policy"
    /\ IF PolicyExists(p)
       THEN req' = [req EXCEPT ![r].at = "decide", ![r].policy = p, ![r].body = BodyOf(p)]
       ELSE Refuses(r)
    /\ UNCHANGED <<tables, job, log>>

(* policyEngineForPolicy reads the content of the policy id noted earlier; *)
(* a policy deleted meanwhile is an error, never a default.                *)
RelayLoadPolicy(r) ==
    /\ req[r].at = "policy"
    /\ IF PolicyExists(req[r].policy)
       THEN req' = [req EXCEPT ![r].at = "decide", ![r].body = BodyOf(req[r].policy)]
       ELSE Refuses(r)
    /\ UNCHANGED <<tables, job, log>>

(* EvaluateDecision, which may ask Google about an object and fail, and the *)
(* human approval header; then the request is sent.                         *)
RelayDecide(r) ==
    /\ req[r].at = "decide"
    /\ \/ Allows(req[r].body, req[r].shape) /\ Moves(r, "upstream")
       \/ Refuses(r)
    /\ UNCHANGED <<tables, job, log>>

(* Mutant: a refused token is refreshed as often as Google refuses it. *)
RelayRetryForever(r) ==
    /\ \/ req[r].at = "upstream" /\ Moves(r, "again")
       \/ req[r].at = "again" /\ Moves(r, "upstream")
    /\ UNCHANGED <<tables, job, log>>

(* Mutant: the first try is logged as a failure of its own. *)
RelayRetryLogged(r) ==
    /\ req[r].at = "upstream"
    /\ Moves(r, "again")
    /\ log' = [log EXCEPT ![r] = log[r] \union {"Fail"}]
    /\ UNCHANGED <<tables, job>>

(* Google refuses the access token: it is refreshed, and the request is sent *)
(* again, once, under the decision it has.                                   *)
RelayRetry(r) ==
    /\ req[r].at = "upstream"
    /\ Moves(r, "again")
    /\ UNCHANGED <<tables, job, log>>

(* The call, its repetition, the refresh or the move to a folder failed, or *)
(* Google's answer is copied to the client ...                              *)
RelayReply(r) ==
    /\ req[r].at \in {"upstream", "again"}
    /\ Moves(r, "replied") \/ Refuses(r)
    /\ UNCHANGED <<tables, job, log>>

(* saveRequestLog: one INSERT of a random id, whose error is dropped.       *)
Saves(r, outcomes) ==
    \E some \in {{}} \union {{o} : o \in outcomes} : log' = [log EXCEPT ![r] = log[r] \union some]

(* ... and its outcome is logged only when the client has taken it.         *)
RelayLog(r) ==
    /\ req[r].at = "replied"
    /\ Moves(r, "answered")
    /\ Saves(r, {"Success", "Fail"})
    /\ UNCHANGED <<tables, job>>

(* A refusal is logged first ...                                            *)
RelayLogRefusal(r) ==
    /\ req[r].at = "refusing"
    /\ Moves(r, "refused")
    /\ Saves(r, {"Fail"})
    /\ UNCHANGED <<tables, job>>

(* ... and written to the client after, whatever became of the row.         *)
RelayAnswerRefusal(r) ==
    /\ req[r].at = "refused"
    /\ Moves(r, "answered")
    /\ UNCHANGED <<tables, job, log>>

(* The process stops and is started again: the tables are all that is left. *)
Crash ==
    /\ job' = [h \in Handlers |-> Idle]
    /\ req' = [r \in Requests |-> IF req[r].at \in Running
                                  THEN [req[r] EXCEPT !.at = "lost"] ELSE req[r]]
    /\ UNCHANGED <<tables, log>>

-----------------------------------------------------------------------------
Console ==
    \/ \E a \in Agents : AgentCreate(a) \/ AgentDelete(a)
    \/ \E w \in Workspaces : WorkspaceConnect(w) \/ WorkspaceDelete(w)
    \/ \E p \in Policies, b \in Bodies : PolicySave(p, b)
    \/ \E b \in BOOLEAN : SetUserSuspended(b)
    \/ \E h \in Handlers :
        \/ \E a \in Agents, want \in [Workspaces -> FormGrants \union {None}] :
               FormGrantsStart(h, a, want)
        \/ \E a \in Agents, w \in Workspaces, ask \in FormGrants \union {None}, k \in BOOLEAN :
               ApiGrantStart(h, a, w, ask, k)
        \/ ApiGrantList(h) \/ GrantClear(h) \/ GrantCheck(h) \/ GrantInsert(h)
        \/ \E p \in Policies : PolicyDeleteStart(h, p)
        \/ PolicyDeleteReadDefault(h) \/ PolicyDeleteReadUsed(h)
        \/ PolicyDeleteResetDefault(h) \/ PolicyDeleteRevertGrants(h) \/ PolicyDeleteRow(h)
        \/ \E p \in PolicyIds : DefaultPolicyStart(h, p)
        \/ DefaultPolicySave(h)
        \/ \E a \in Agents, e \in BOOLEAN : AgentEditStart(h, a, e)
        \/ AgentEditSave(h)

RelayStep(r) ==
    \/ \E s \in Shapes : RelayAuthenticate(r, s)
    \/ RelayContextDenied(r) \/ RelayResolveWorkspace(r) \/ RelayGrant(r)
    \/ RelayReadBody(r) \/ RelayPrepare(r) \/ RelayLoadPolicy(r) \/ RelayDecide(r)
    \/ RelayRetry(r) \/ RelayReply(r) \/ RelayLog(r)
    \/ RelayLogRefusal(r) \/ RelayAnswerRefusal(r)

(* History of a request until it is refused, kept from the tables every     *)
(* step leaves.  It models no code: the properties below compare a request  *)
(* with it.                                                                 *)
NamedBy(r) ==
    {p \in PolicyIds : LET g == grants[req[r].shape.agent][req[r].shape.ws]
                       IN  g # None /\ g.policy = p}
AllowingPolicies(r) ==
    {p \in PolicyIds : PolicyExists(p) /\ Allows(BodyOf(p), req[r].shape)}

Observe ==
    /\ granted' = [r \in Requests |->
                     IF req'[r].at \in Unrefused THEN granted[r] \union NamedBy(r)' ELSE {}]
    /\ allowedBy' = [r \in Requests |->
                     IF req'[r].at \in Unrefused THEN allowedBy[r] \union AllowingPolicies(r)' ELSE {}]

Next == (Console \/ (\E r \in Requests : RelayStep(r)) \/ Crash) /\ Observe

Spec == Init /\ [][Next]_vars

(* The steps of a request that wait for nobody but the database and Google.  *)
(* Statements run one at a time and end; every call to Google is made by a   *)
(* client with a time-out (app.go:40).  So a request that has come that far  *)
(* goes on, whatever the console does.  No fairness is assumed of the client *)
(* (RelayAuthenticate, RelayReadBody, RelayLog, RelayAnswerRefusal): the     *)
(* server sets no time for reading a request or writing an answer            *)
(* (main.go:43).                                                             *)
Works(r) ==
    \/ RelayPrepare(r) \/ RelayLoadPolicy(r) \/ RelayDecide(r)
    \/ RelayRetry(r) \/ RelayReply(r) \/ RelayLogRefusal(r)

FairSpec == Spec /\ \A r \in Requests : WF_vars(Works(r) /\ Observe)

-----------------------------------------------------------------------------
(* Safety of a single request, whatever the console does meanwhile: when the *)
(* relay sends a request to Google, the policy it decided by was named by    *)
(* the agent's grant on that Workspace at some moment while the request ran, *)
(* and at some moment while it ran that policy existed and allowed the       *)
(* operation.  A deleted policy, a revoked grant and a stale read in between *)
(* may never add up to an operation that nobody's settings permitted.        *)
ForwardWasAuthorised ==
    \A r \in Requests : req[r].at \in {"upstream", "again", "replied"} =>
        req[r].policy \in granted[r] \intersect allowedBy[r]

(* Every policy that a grant or the user's default names exists: deleting a  *)
(* policy puts the system policy in its place first, at every instant and    *)
(* through every crash between its statements.                               *)
PoliciesExist ==
    /\ PolicyExists(defaultPolicy)
    /\ \A a \in Agents, w \in Workspaces :
          grants[a][w] # None => PolicyExists(grants[a][w].policy)

(* Statements of two console requests can interleave, and nothing locks.     *)
(* PoliciesExist needs no more than that no request is about to write the    *)
(* name of a policy that another is deleting: it has checked that the policy *)
(* exists, and the deletion may have looked for grants that name it already. *)
Names(j, p) ==
    \/ j.at = "insert" /\ j.want[j.cur].policy = p
    \/ j.at = "saveDefault" /\ j.policy = p
Deletes(j, p) ==
    /\ j.at \in {"readDefault", "readUsed", "resetDefault", "revert", "deleteRow"}
    /\ j.policy = p
NamesApart ==
    \A g, h \in Handlers, p \in Policies : ~(Names(job[g], p) /\ Deletes(job[h], p))

(* Between the DELETE of an edit and its end, however it ends, the agent     *)
(* holds on each Workspace the grant that was asked for or none: an edit     *)
(* that fails half-way takes access away and never leaves any beyond what    *)
(* the console asked for, whatever is deleted or reconnected meanwhile.      *)
EditGrantsNothingElse ==
    \A h \in Handlers : job[h].at \in {"check", "insert"} =>
        \A w \in Workspaces :
            LET g == grants[job[h].agent][w]
            IN  IF w \in job[h].todo THEN g = None ELSE g \in {None, job[h].want[w]}

(* It needs no more than that no two requests write grants of one agent at a *)
(* time, and that none puts the system policy in the place of a policy while *)
(* an edit that asks for it is under way.                                    *)
Edits(j, a) == j.at \in {"check", "insert"} /\ j.agent = a
EditsApart ==
    \A g, h \in Handlers, a \in Agents : g # h /\ Edits(job[h], a) =>
        /\ ~Edits(job[g], a)
        /\ job[g].at = "revert" =>
              \A w \in Workspaces :
                  job[h].want[w] # None => job[h].want[w].policy # job[g].policy

(* A call that creates, updates or removes one grant of an agent leaves the  *)
(* agent's other grants: when its last statement has run, a grant it listed  *)
(* on another Workspace that is still connected is still there.              *)
OtherGrantsSurvive ==
    [][\A h \in Handlers :
         (GrantClear(h) \/ GrantCheck(h) \/ GrantInsert(h)) /\ job'[h] = Idle =>
             \A w \in job[h].others :
                 w \in connections /\ Present(job[h].agent) => grants'[job[h].agent][w] # None]_vars

-----------------------------------------------------------------------------
(* The relay as its agents and its log see it. *)
StageOf(at) ==
    CASE at \in {"resolve", "grant", "body"} -> "open"
      [] at \in {"prepare", "policy", "decide"} -> "complete"
      [] at \in {"upstream", "again"} -> "sent"
      [] at = "replied" -> "answering"
      [] at = "refused" -> "denied"
      [] at = "answered" -> "closed"
      [] OTHER -> at

Promise == INSTANCE RelayPromise WITH
    stage     <- [r \in Requests |-> StageOf(req[r].at)],
    permitted <- [r \in Requests |-> granted[r] \intersect allowedBy[r] # {}],
    logged    <- log

(* Every step of tables and handlers is, to those outside, a step of         *)
(* RelayPromise or none: only permitted requests are sent, nothing is sent   *)
(* or logged twice, a refusal is logged before it is told and an answer      *)
(* after it was taken, and a success only of a request that was sent.  An    *)
(* INSERT that fails leaves no row, and that is all that may be missing.     *)
StepsPromised == Promise!Safe

(* A request whose body has arrived is answered, refused or lost with the   *)
(* process, whatever the console does meanwhile and however often Google    *)
(* refuses its token: no retry goes on for ever and no stage waits for      *)
(* settings to become what it hopes for.                                    *)
Settles == Promise!Settled
=============================================================================
