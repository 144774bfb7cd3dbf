# AI Workspace Proxy: models, checks and proofs

AI Workspace Proxy is one Go process in front of the Google Workspace APIs. People
sign in to a console with Google, connect mailboxes ("Workspaces"), write policies,
create agents and grant them Workspaces. An agent presents its API key; the relay
finds the agent, the grant and the policy, and forwards the request to Google with the
Workspace's OAuth token, or refuses it.

Everything is kept in one SQLite database. `sqlite.go` holds one connection behind a
mutex and runs one statement at a time; the code opens no transaction anywhere. Every
HTTP request runs in a goroutine of its own. So the unit of interleaving is the SQL
statement, and a handler of several statements can be overtaken, or cut short by an
error or a stop of the process, between any two of them. That is what these models are
about.

The sections below are the inventory, the modules, the runs, the proofs and what is
left out. `PROJECT.json` holds the same as data: which lines each definition stands
for (`map`), the hazards, the runs and their mutants.

## 1. Inventory

| Component | State | Operations | Meets others through | Hard behaviour |
|---|---|---|---|---|
| agent relay (`app_proxy_relay.go`) | locals of a request, `request_logs` | authenticate, resolve, grant, prepare, policy, decide, forward, reply, log | reads everything below; writes connections on a token refresh | reads far apart in time; many early returns; a stop after the answer |
| agents and keys (`app_agents.go`, `app_token_handlers.go`) | `agents`, `agent_firewall_rules` | create, update, rotate, toggle, delete, firewall | relay and downloads read them; deletion cascades | whole-row read-modify-write (`SaveAgent`) |
| agent Workspace grants | `agent_workspace_grants` | console form, API call | relay, policies, connections (foreign keys) | delete-all then insert one by one |
| policies (`app_policy_handlers.go`, `app_policy_api_handlers.go`) | `user_policies`, `user_settings.default_policy_id` | save, delete, set default | grants and default name them, without foreign key | five statements of a deletion |
| policy engine (`policy.go`) | none (pure, but it asks Google) | compile a policy, evaluate an operation | relay | rules of several capabilities for one path; objects that change between two look-ups |
| skill warnings | `agents.skill_stale*` | mark, dismiss | every edit of agents, grants, policies, folders | read-modify-write; marks several agents in turn |
| skill packages and install links (`agent_skill.go`) | `agent_skill_download_tokens` | issue, expire, download by link or key | agents | look-up and deletion are two statements |
| Workspace connections (`app_auth.go`, `app_workspace_handlers.go`, `app_google_client.go`) | `gmail_connections`, `workspace_oauth_states`, `workspace_reauth_tokens`, `workspace_order` | connect, callback, refresh token, reauthorize, disconnect, delete, order, rename | relay uses and refreshes tokens; grants cascade | calls to Google between read and write |
| login, sessions, two-factor (`app_session.go`, `app_two_factor.go`, `app_auth.go`) | `sessions`, `oauth_states`, `user_two_factor_settings`, `organization_accounts_policies`, cookies | login, callback, challenge, enrol, reset, logout, time-outs | every console handler | one-time states, expiry, stale secrets |
| organizations and administration (`app_organization_*.go`, `app_admin_handlers.go`, `store_organization_admin.go`) | `organizations`, `organization_domains`, account policy and firewall rules, proofs of domains, `users` | login, domain validation, policy, suspension, deletion | users, sessions | first logins that race; replacement in several statements; a row saved from a copy |
| Drive folder scope (`app_drive_*.go`) | `drive_folder_refs`, tree cache, folder grants | add, change, refresh, delete, grant, resolve, match, walk | relay checks or rewrites with it the Drive, Docs, Sheets and Slides requests that name a file, create one or search | cached tree replaced row by row; folders that move at Google |
| logs and audit (`app_logging.go`, `app_logs_api.go`) | `request_logs`, audit tables | append, list, export, clean up | all handlers | cleanup by date |
| SQLite access (`sqlite.go`) | the connection | Exec, Query, QueryOne | all stores | one statement at a time, foreign keys on |
| pages, configuration, encryption | none shared | render, load, AES-GCM | all | none that two actors share |

What makes each correct:

- **Relay**: what is sent to Google was permitted by the agent's own grant and that
  grant's policy; no request is logged twice, and none as a success unless it was sent.
- **Agents**: the last rotation and the last toggle stand, unless they overlap a
  request that has loaded the row before them.
- **Grants**: an edit leaves what was asked for, and never anything beyond.
- **Policies**: what grants and the default name exists.
- **Warnings**: only the user takes one away, or an overlap of two handlers.
- **Install links**: a link that was used, replaced or outlived opens nothing.
- **Connections**: the tokens stored for a mailbox are that mailbox's; disconnection
  is final until the next consent.
- **Sessions**: nobody is signed in without the second factor in force; the secret in
  force is one the user has, and goes only where the checks let it; what acts in the
  console was let in and enrolled as the organization demands.
- **Policy engine**: what it lets through the policy covers, whatever the order of the
  rules; what it refuses the policy does not cover.
- **Organizations**: no domain has two; a deleted user stays deleted; a proof stands;
  somebody who can administer remains; an enforced firewall has addresses.
- **Drive scope**: where the code checks, what is let through was inside a granted
  folder; what is inside is served; a refresh repairs the cache; no reference outlives
  its Workspace.

## 2. Modules

### RelayAccess

One proxy user with agents, Workspaces and policies; console and API handlers that
edit them (`Handlers`), relay requests (`Requests`).

| Model | Code |
|---|---|
| `agentRow`, `userSuspended`, `connections`, `policy`, `defaultPolicy`, `grants` | the tables, with only the columns that access depends on |
| `job[h]` | the locals of a console or API request between two statements |
| `req[r]` | the locals of `handleProxyRelay` between two reads or waits |
| `log` | the outcomes in `request_logs`, by request |
| `FormGrantsStart`, `ApiGrantStart`, `ApiGrantList`, `GrantClear`, `GrantCheck`, `GrantInsert` | `handleAgentGrantsUpdate`, `handleUserAgentGrantsAPIUpdate` and `SaveAgentWorkspaceGrants`, a step per statement |
| `PolicyDeleteStart` ... `PolicyDeleteRow` | `handlePolicyDelete` and the five statements of `DeleteUserPolicy` |
| `DefaultPolicyStart`, `DefaultPolicySave`, `AgentEditStart`, `AgentEditSave` | a check or load, then an upsert |
| `RelayAuthenticate` ... `RelayLog` | `handleProxyRelay`, a step per read or wait |
| `Refuses`, `RelayLogRefusal`, `RelayAnswerRefusal` | its early returns: each goes through `saveRequestLog`, then answers |
| `Crash` | the process stops and starts: tables stay, locals are lost |

Steps of one statement are merged with the checks before them where nothing in between
can change the outcome; each such merger is explained at the action. `granted` and
`allowedBy` are history: what the tables said while a request ran. They model no code
and no action reads them.

Fairness is in `FairSpec` (section 3). Abstractions: a policy is the set of enabled
capabilities and the subset that needs review; a request asks for one capability and
carries a motive, an approval, both or neither. Reading the body, refreshing the
access token, rewriting the request and asking Google about an object may fail or not,
at will. The agent firewall may refuse at will. `saveRequestLog` drops the error of its
INSERT (`app_logging.go:129`), so any answer may go out without its row (`Saves`).

### RelayPromise

What the relay promises, with no word of tables, statements or handlers: a request is
open, complete, sent, answering, refusing, denied, closed or lost; it is sent only when
the settings permitted it at some time of its life; it is logged at most once, a refusal
before it is told and an answer after it was taken, and as a success only if it was
sent; one that is complete does not hang. That a row is always there is not promised,
since an INSERT may fail. `RelayAccess` ends with `Promise == INSTANCE RelayPromise WITH
...`: `stage` is read off where the request stands, `permitted` says that a policy was
both granted and allowing while it ran, `logged` is the log. `StepsPromised` (the safety
part) and `Settles` (the liveness part) are the refinement.

### PolicyCatalog and PolicyEngine

`PolicyCatalog` lists every capability of `policy.go` with its rules, in the code's
order, a path regular expression written as a pattern with stars. `PolicyEngine` is
the evaluation of one request.

| Model | Code |
|---|---|
| `Catalogue`, `Rule`, `Keys`, `SystemDefaultCapabilityKeys` | `PolicyCatalog()` and what is derived from it |
| `Stored`, `ApiAccepts`, `SystemPolicy` | `SaveUserPolicy`, `policyFromAPIRequest`, `policyEngineForPolicy` |
| `op`, `op.marks` | method, path, and what a body or the addressed object says that the checks tell apart |
| `Verdict` and the operators before it | `defaultBodyPolicies`: yes, no, or leave it to the next rule |
| `TryRule`, `NoRuleLeft` | a turn of `EvaluateDecision`'s loop |
| `Decide` | the review mark and the approval header in `handleProxyRelay` |
| `GuestsChange` | Google: an event gains or loses guests between two look-ups |

`Needs` is a reference definition, written from the descriptions of the permissions
and not from the engine: the permissions a request needs by what it does. The
properties compare the two.

### AgentIdentity

The whole `agents` row (key, enabled, firewall, warning) with every handler that
writes it, the install links and the downloads.

| Model | Code |
|---|---|
| `row` | `agents`; the warning is the set of its reason lines |
| `installToken`, `issued`, `expired` | `agent_skill_download_tokens`, a link per agent, and the clock |
| `EditLoad`, `Edited`, `EditSave` | `handleAgentUpdate`, `handleAgentRotate`, `handleAgentToggle`: load the row, change the copy, `SaveAgent` all of it |
| `FirewallSet`, `WarningDismiss` | narrow UPDATEs |
| `ContentChange`, `MarkRead`, `MarkWrite` | `MarkAgentsSkillStale` after grants, policies, folders or names changed |
| `DownloadByLink`, `DownloadBurn`, `DownloadAgent`, `DownloadKey`, `DownloadBuild`, `DownloadByKey` | `handleDownloadAgentSkill` and `ConsumeAgentSkillDownloadToken` |

`asked`, `edited`, `warned`, `undone` and `spent` are history: what each row was last
set to, what a handler's copy of a row misses, which columns a save has written back
from such a copy, and which links were used or replaced. The failure of the DELETE that
`ConsumeAgentSkillDownloadToken` ignores (`store.go:1628`) is an outcome of
`DownloadBurn`. A key is a number, counted up: the code draws it at random, so no two
are alike. Names, hints and times are left out.

### WorkspaceTokens

The Google tokens of one user's Workspaces: the OAuth flows that store them, the
requests that refresh them, and the console that disconnects or deletes.

| Model | Code |
|---|---|
| `conn` | `gmail_connections`; a token is the number of the consent it came from |
| `oauthState`, `cookie` | `workspace_oauth_states`, and the cookie that carries the same state and mailbox |
| `lastConsent`, `account` | Google: which account gave which consent |
| `FlowStart` | `handleWorkspaceConnect`, `handleWorkspaceAuthRefresh`, `handleWorkspaceReauth` up to the redirect |
| `StateExpire`, `CookieExpire` | fifteen minutes pass for the row, or for the cookie |
| `CallbackState`, `CallbackBurn`, `CallbackRefused`, `CallbackExchange`, `CallbackExisting`, `CallbackStore` | `handleWorkspaceCallback`: `ConsumeWorkspaceOAuthState`, Google, `GetGmailConnection`, `SaveGmailConnection` |
| `UseStart`, `RefreshAnswer`, `UseSave`, `UseEnd` | `getValidWorkspaceAccessTokenWithMode` as the relay and the Drive folder handlers call it, with the relay's second refresh after a 401 |
| `Disconnect`, `Delete` | `DisconnectGmailConnectionOAuth`, the last DELETE of `DeleteGmailConnection` |

`startedFor` and `cut` are history. A token may run out, and Google may refuse, at any
time, so expiry times are left out; so are scopes, friendly names, the order of the
Workspaces (that its row cannot be inserted is an outcome of the save) and the table
of reauthorization links, whose only effect is that a flow starts.

### Sessions

One user of an organization: logins, challenges, the checks in front of every console
request and the set-up of the second factor, while an administrator changes the
account policy or suspends the user.

| Model | Code |
|---|---|
| `session` | `sessions`: pending or verified by `second_factor_verified`, gone when its row is |
| `twoFactor` | `user_two_factor_settings`; a secret is a number, counted up |
| `policy`, `suspended` | the two switches of `organization_accounts_policies` on two-factor authentication, absent before the first read; `users.is_suspended` |
| `job[h]` | the locals of a request between two statements |
| `LoginStart`, `LoginRead`, `LoginSave`, `SessionEnd` | `handleGoogleCallback`, `CreateSessionWithSecondFactor`; `handleLogout` and expiry |
| `ChallengeSession` ... `ChallengeVerify` | `handleTwoFactorChallengeVerify` |
| `CheckSession` ... `CheckEnrolled` | `requireSessionUser`, with the default policy that the first read saves; the kind of request matters only behind the checks and is chosen there |
| `PageRead` ... `SetupSave` | `handleIndex` on its way to the enrolment page, `handleTwoFactorSetupStart`, `ensureUserTwoFactorPendingSecret` |
| `ConfirmCode`, `ConfirmEnable`, `CancelRequired`, `CancelSave`, `ResetRequired`, `ResetAllowed`, `ResetSave` | the three handlers that end a set-up or a factor |
| `Stop` | a condition fails, a statement fails, a code is wrong, or the request goes |
| `PolicySave`, `SetUserSuspended` | `handleAdminAccountsPolicyUpdate`, `handleAdminUserRoutes` |

`confirmed`, `seen`, `met` and `owes` are history: accepted codes, the factors and
conditions that held while a request ran (what `Conditions` lists), and the sessions
that were created while a factor was in force. A code is accepted or not, at will; the
OAuth state of a login and all times are left out, and a session may end at any time.
Users are created and deleted in Organizations.

### Organizations

The users, the organizations of their domains, and the requests that change them.

| Model | Code |
|---|---|
| `org`, `owner`, `user`, `proof` | `organizations`, `organization_domains`, `users`, `organization_admin_verifications` |
| `enforced`, `rules` | the firewall switch of `organization_accounts_policies`, `organization_firewall_rules` |
| `LoginStart` ... `UpdateUser` | `CreateOrUpdateUser` with `EnsureOrganizationForDomain`, a step per statement |
| `AdminStart`, `Target`, `SetUserSuspended`, `DropUser` | `handleAdminUserRoutes`; of `DeleteUser` the last DELETE, with which everything goes that the others left |
| `PolicyStart` ... `PolicySaved` | `handleAdminAccountsPolicyUpdate`, `ReplaceOrganizationFirewallRules` |
| `ProofStart`, `ShellStart`, `Access` ... `Verify` | `handleOrganizationDomainValidate`, `renderAdminShell`, `EnsureOrganizationAdminVerification` and the statements it is made of |
| `Stop` | the process stops; `syncUserOrganizations` runs at the next start |

`gone`, `met`, `torn`, `staffed` and `proved` are history: ids of deleted rows, what
overlapping requests were about, what a stop or an overlap left half done, which
organizations had an administrator who could act, whose proof was stored. They say for
which histories a property is claimed; no action of the code reads them.

### DriveScope

The Drive folders an agent may work in, for one agent and one Workspace, and the
requests that are checked against them.

| Model | Code |
|---|---|
| `root`, `granted`, `tree` | `drive_folder_refs`, `agent_drive_folder_grants`, `drive_folder_tree_cache` |
| `parent`, `Move` | Google: where each folder is |
| `StartWalk`, `ListFolder`, `ClearTree`, `FillRow`, `Filled` | `refreshDriveFolderTree` and `ReplaceDriveFolderTree`: a listing, the DELETE, an INSERT per folder |
| `BeginAdd`, `Insert`, `BeginUpdate`, `Write`, `BeginRefresh`, `BeginDelete` | `handleAddDriveFolder`, `handleDriveFolderRoutes` |
| `UnTree`, `UnGrant`, `UnRow`, `BeginDrop`, `UnConnect` | `DeleteDriveFolderRef`, and `DeleteGmailConnection`, which calls it for each reference |
| `BeginGrant`, `ClearGrants`, `GrantRow` | `SaveAgentDriveFolderGrants` |
| `Resolve`, `Meta`, `Match`, `NoMatch`, `WalkNext` | `ensureFileInAllowedFolders`: match, walk everything, match again |
| `Ensure`, `ReadTree`, `TargetFound`, `TargetMissed`, `ReadSubtree` | the target of a create or a search, and the folders a search may look in |
| `Forward`, `MoveMade` | `postCreateMoveToFolder`, also after a refused token |

A handler is one HTTP request. `everLink`, `held`, `reach`, `lent` and `met` are
history: which folder ever was in which; which folders of a reference are still its
own, in the copy of a running request, or behind its cached rows; what `held` was while
a request ran; which references were granted meanwhile; and which requests overlapped.
A folder that a reference has given up leaves `held` as soon as a walk has replaced
its rows and nobody holds a copy of it. The tables may start with what a walk that was
cut short left of a tree.

The scope does not cover all that a policy may allow, and the model has these cases
too. They are kinds of request (`browse`, `search`) or choices of `ReadSubtree`:

- Any Drive path other than `files` and below it is forwarded as it came
  (`app_drive_rewrite.go:135`): `changes`, `about`, `drives`, `apps`, an upload that
  names no file; and so is a Docs, Sheets or Slides path that names none (`:150`).
- The agent's `q` and the clause are joined as text, `(q) and (clause)` (`:84`); a `q`
  with parentheses of its own need not be bound by the clause.
- Of a copy the file is checked, not the `parents` in its body (`:115`): `Match` leaves
  `made` anywhere, and no property claims where a copy is. `through` is what was
  checked.

### How they compose

The first three modules share the table of connections, each with the columns its
question depends on: RelayAccess keeps whether a Workspace exists (grants have a
foreign key to it), WorkspaceTokens keeps its tokens. The relay of RelayAccess takes
the token step as a nondeterministic outcome, and WorkspaceTokens takes the relay as a
request that uses a Workspace; AgentIdentity and RelayAccess share the agent row, of
which RelayAccess keeps presence and status. Sessions stands in front of the console
handlers of all modules: they start after its `acting` stage. The other modules take
that for granted, and Sessions says what has been checked by then.
`users.is_suspended` is the one column that it shares with RelayAccess, where the
relay reads it for itself, and with Organizations, where administrators set it.
Organizations in turn takes the session check in one step (`SignedIn`).

`RelayAccess`' step `RelayDecide` is `PolicyEngine` from `scan` to its outcome, with a
policy reduced to capabilities; `RelayPrepare` is `DriveScope` from `resolve` to
`served` or `forward`, as an outcome; its `RelayReply` includes `MoveMade`. DriveScope
and WorkspaceTokens both delete a Workspace: the references first, the row last.
RelayAccess and RelayPromise are composed by INSTANCE.

## 3. Runs

| Run | Instance | Shows |
|---|---|---|
| `relay` | 1 agent, 1 Workspace, 1 policy, 1 capability, 1 handler, 1 request | `ForwardWasAuthorised`, `StepsPromised`, `Settles` against every console operation and crash |
| `console` | 1 agent, 2 Workspaces, 1 policy, 2 handlers, as long as `Apart` | `PoliciesExist`, `EditGrantsNothingElse` |
| `agents` | 1 agent, 2 keys, 2 links, 2 downloads, 2 handlers, within `Bounded` | `LastEditStands`, `NoLateDownload`, `WarningStays` |
| `tokens` | 2 mailboxes, 3 OAuth states, 1 browser, 2 requests, 2 consents | `TokensMatchMailbox`, `FlowKeepsItsMailbox`, `QuietCutSticks` |
| `sessions` | 2 sessions, 2 requests at once, 2 secrets | `NoSignInWithoutCode`, `FactorWasConfirmed`, `ActsPermitted`, `FactorDropPermitted` |
| `policy` | every method and path of the catalogue, every content its checks tell apart, every policy over the capabilities that have a rule for it | `ForwardedWasPermitted`, `SteadyDecision`, `ReviewFollowsNeed` |
| `drive` | 3 folders of which one may move, 2 references, 2 requests | `LetThroughWasInside`, `InsideIsServed`, `RefreshRepairs`, `OnlyRacedRefsOutlive` |
| `orgs` | 2 administrators of 1 domain, 2 organization ids, 1 address, 2 requests | `OneOrganization`, `DeletedStayDeleted`, `ProofStands`, `AnAdminRemains`, `EnforcedHasRules` |
| `other_grants` (violation) | 1 agent, 2 Workspaces, 1 handler | `OtherGrantsSurvive` fails |
| `disconnect` (violation) | 1 mailbox, 1 state, 1 request, 1 consent | `DisconnectSticks` fails |
| `review` (violation) | as `policy` | `EveryReviewIsAsked` fails |
| `created` (violation) | as `drive`, 1 request | `CreatedStaysInside` fails |

Every module's `TypeOK` is checked by one run, `relay` for RelayAccess. It holds the
foreign keys and unique indexes that other properties lean on.

### Bounds

`relay` needs one of everything: the hazard is one request's reads against edits of
its own grant, its own policy and its own agent, and the console handler may run any
number of operations, one after the other, while the request runs. One capability is
enough because a request asks for one, and a policy denies it, allows it, or allows it
after review. `console` needs a second Workspace for edits and policy deletions that
touch several grants, and two handlers for requests that overlap. In `agents` two keys
are one rotation, two links let one be replaced by the other, two downloads let one
overtake the other, and two handlers let two edits, or an edit and a warning, overlap.
`Bounded` keeps the questions apart. Two requests are under way at a time: two handlers
while no link has been issued, or two downloads, or one of each; a download reads of the
row only its key, its status and whether it is there. The view forgets what no step or
property reads any more, such as the locals of downloads that are over.
`tokens` has two mailboxes, so that the user can pick the wrong Google account; three
states, so that a flow that connects, one that authorizes again and a leftover cookie
of a third meet in one browser; two consents, so that an old and a new one compete;
and two requests, callbacks or uses, that overlap. `sessions` has two requests at
once, so that any handler of the module can meet any other in the middle; two
sessions, of which one can wait for a code while the other changes the factor; and two
secrets, so that a factor can be replaced. The administrator's single statements come
at any time.

`policy` takes the whole catalogue. A capability without a rule for a request cannot
matter to it, so a request meets every subset of the capabilities that have one, with
every set of review marks, and one policy with a key that no longer exists. Changes of
labels are taken with every pair of labels of different effect, an event may change
its guests between any two look-ups.

`drive` has a folder in a registered one and a folder apart: one move at Google can take
either in or out, or reorder the two. One reference is registered with any part of its
tree that a cut-short walk can leave; a second one may be added, or the first changed to
another folder. Two requests of any two kinds overlap at every statement; each runs
once, and what they leave is what a third would find, which the free choice of the
initial cache covers. The view forgets the locals of a request that has ended, other
than those a property reads, and the history of a console request, which is let through
to nothing.

`orgs` has two accounts, because its races are between two: first logins of one
domain, two administrators who act on each other, a login and the deletion of its
user, two updates of one policy, two requests for one proof. Two ids of each kind
leave one to be lost. What the bounds leave out the theorems cover, for every module:
they hold for any number of everything.

Two properties are not claimed of all pairs of console requests, and a constraint
cuts `console` off where the excepted pair would meet. `PoliciesExist` is
claimed as long as no request is about to write the name of a policy that another is
deleting (`NamesApart`); `EditGrantsNothingElse` as long as no two write the grants of
one agent, and no deletion reverts a policy that an edit under way asks for
(`EditsApart`). Each names exactly the two steps that get in each other's way: any other
overlap, of any number of requests, is covered. Beyond it each property fails; the
hazards in `PROJECT.json` say so at their lines. In a theorem the same condition is the
hypothesis.

In `agents` nothing is excepted that way: the overlaps in which the code loses an edit
or a warning are in the run and in the theorems. `LastEditStands` and `WarningStays` say
what undoes one: the save of a copy of the row, or of a list of reasons, that was read
before it, and nothing else.

### Fairness

Liveness is stated of the relay. `FairSpec` is weak fairness, for each request, of the
steps that wait for nobody but the database and Google: `RelayPrepare`,
`RelayLoadPolicy`, `RelayDecide`, `RelayRetry`, `RelayReply`, `RelayLogRefusal`. The
code justifies it: each request has a goroutine of its own, SQL statements run one at a
time and end, and every call to Google goes through one HTTP client with a time-out
(`app.go:40`). No fairness is assumed of the client, since `main.go:43` starts a server
without time-outs: `RelayAuthenticate`, `RelayReadBody`, `RelayLog` and
`RelayAnswerRefusal` may never happen. None is assumed of the console or of crashes.
Under it `Settles` holds: a request whose body has arrived ends or has its answer ready,
however often Google refuses its token. Elsewhere an HTTP handler may stop whenever its
client or the process does, and only safety is stated.

`CHECK_DEADLOCK FALSE` is set where requests, keys, links or consents are used up and
nothing remains to be done.

### Findings

- **`OtherGrantsSurvive`** (`store.go:1419`). An API call for one grant saves the
  agent's whole list: all grants are deleted, then inserted one by one, and the first
  failure ends it. If the Workspace of the call is deleted in between, the agent's
  other grants are gone. `docs/api-endpoints-user.MD:156` speaks of one grant.
- **`DisconnectSticks`** (`app_google_client.go:229`). A refresh saves the row it read
  before it called Google. A disconnection in between is undone: the tokens are back,
  and agents go on working with a Workspace of which `page-workspace.html:31` says
  that they will stop until it is reconnected. `QuietCutSticks` says what does hold: a
  disconnection or deletion that no request overlaps is final until a consent is
  stored.
- **`EveryReviewIsAsked`** (`policy.go:893`). The first enabled capability whose rule
  matches the path decides, also about the approval, and five capabilities have rules
  for a change of labels. With archiving marked for review and custom labels enabled
  without a mark, a request that archives is forwarded without an approval.
  `ReviewFollowsNeed` says that changes of labels are the only such requests.
- **`CreatedStaysInside`** (`app_proxy_relay.go:332`). Docs, Sheets and Slides creates
  are made in the user's top folder and moved afterwards. When the move fails, and it
  always does after the relay had to fetch a new token, since it uses the one Google
  refused, the document stays there. `docs/design.md:105` keeps every operation inside
  the registered folders.

Met while modelling, and modelled, without a run of their own:

- A warning that is marked while an edit of the same agent holds its copy of the row
  is lost (`SaveAgent` writes every column), though `docs/design.md:138` keeps it until
  it is dismissed; so is one that another request marks between the read and the write
  of `MarkAgentsSkillStale`, and a rotation or suspension beside an edit. The clause of
  `WarningKept` about `warned`, and `undone` in `LastEditStands`, are these overlaps.
- Two downloads that look an install link up before either deletes it are both served,
  and a link whose DELETE fails serves again, where `docs/design.md:129` has it used
  once. `NoLateDownload` says what is left.
- `docs/design.md:105` and `:169` keep all Drive operations inside the registered
  folders. The requests of section 2, DriveScope, that are forwarded unchecked are not,
  and `LetThroughWasInside` excepts them by name: `browse`, and a `search` whose text
  the clause does not bind.
- A folder that a reference no longer has goes on being let through as long as the walk
  after the change fails, since the rows in the cache are still those of the old one.
- The answer of the relay goes out without its row when the INSERT fails
  (`app_logging.go:129`).
- A reset of the second factor leaves the sessions of other browsers waiting for a
  code that nothing accepts any more.
- The account policy stores an organization firewall, a session time-out to enforce
  and limits on custom policies, which only the administrator's page reads.
- `is_admin` is copied from `ADMIN_EMAILS` at a login, so taking an address off the
  list has no effect on a session that goes on (`docs/design.md:67`).
- A login whose user is deleted between its UPDATE and the look-up after it has no
  user to go on with, and panics.
- The two reads of the policy in `handleTwoFactorReset` may find two policies: a factor
  goes that neither lets go. `FactorDropPermitted` says what is left: each of the two
  conditions held at some time of the reset.
- `GetOrganizationAccountsPolicy` saves the default with an upsert, so that a policy
  saved between its read and its save is lost (`CheckDefault` after `PolicySave` in
  Sessions).

## 4. Proofs

The theorems hold for every value of the constants under the assumptions the modules
name: that ids are distinct, that a row is not the missing row (`RowsAssumption`), and
that what a run feeds in is of its type. TLC evaluates them in every run.

**RelayAccessProofs.** `TypeCorrect` is type correctness. `ForwardsAreAuthorised` uses
`RelayInv`: types, and for each running request that the policy it has noted was named
by its grant while it ran, and that the body it holds is one that this policy had
while it ran. Without the second part the decision, taken from a body read long ago,
could not be tied to `allowedBy`. Each of the relay's steps and `Observe` has a step
of its own; console steps leave requests alone. `PoliciesKept` and
`EditsGrantNothingElse` are about any number of console requests at once and assume
`[]NamesApart` and `[]EditsApart` (section 3). `PoliciesInv` adds to `PoliciesExist`
what a request between two statements knows (`Foresight`): what it is about to name
exists; of the policy it deletes, the flags it has read still tell whether the default
or a grant names it, after `readDefault` and `readUsed`, and by `revert` and
`deleteRow` none does. `NamesApart` is what keeps that true while others go on: nobody
names the policy anew. `EditsInv` says the same of each edit's grants (`HalfDone`).

**RelayPromiseProofs.** `RelayKeepsPromise` is the refinement: the initial states are
initial states of RelayPromise, and each step of the relay maps to the step of its
stage, console steps to `Drift` alone, a crash to `Stop`. That a request is permitted
when it is sent is `RelayInv`; that `permitted` never drops while a request is not
refused is that the history only grows; that nothing is logged twice needs an invariant
of its own, that the log of a request is empty until its outcome is recorded
(`LogInv`).

**AgentIdentityProofs.** `SpentLinksStaySpent` uses `IdentityInv`: every link in the
table has been issued, and a link that was used or replaced is in no row and is issued
no more. `EditsStand` and `WarningsStay` are about any number of console requests at
once, overlaps included. `StatusInv` says that a copy about to be saved has the key and
the status the row was last given on request, except the columns that were set since it
was loaded (`edited`) or had come undone before: so a save changes no column but its own
and those. `WarningInv` says that a copy of a row or of its reasons has every reason the
row has, except those put there since (`warned`). A deletion beside a copy is covered,
also when the save brings the row back.

**WorkspaceTokensProofs.** One inductive invariant, `TokensInv`, of four parts: types;
`OwnTokens`, which says of the callbacks between Google and the save what
`TokensMatchMailbox` says of rows and uses; `Flows`, which ties the row of a state,
the cookie that carries it and the callback that has read either to the mailbox its
flow was started for, without which a cookie could not stand in for a row; and
`Quiet`, which says that after a quiet cut no request holds a copy of the row, so none
can bring tokens back. `TokensTypeCorrect`, `TokensAreOfTheMailbox`,
`FlowsKeepTheirMailbox` and `QuietCutsStick` follow.

**SessionsProofs.** `SessionsInv` adds to the types and invariants what each request
has seen by the time it stands where it does (`Came`): a login about to create a
verified session has seen no factor in force, a challenge about to verify has seen the
secret it checked, a set-up about to enable has had a code for its secret, and behind
`CheckUser` the user was not suspended at some time of the request. A set-up about to
save has seen no factor in force, and a reset has seen a policy that did not demand
one and, by its last statement, one that let users reset it. No request can take that
from another, because the history only grows (`CameKept`), so each action is looked at
for its own request alone. `SessionsTypeCorrect`, `SignInsAreProved`,
`FactorsAreConfirmed` and `ActsArePermitted` follow, and the action property
`FactorsGoOnlySo`, of the three statements that change the secret in force.

**PolicyEngineProofs.** For any requests, any posted policies and any changes of an
event: `TypeCorrect`, `ForwardedWasPermittedHolds`, `ReviewFollowsNeedHolds` and
`SteadyDecisionHolds`. That a rule which says yes belongs to a capability the request
needs is proved check by check (`YesMeansNeeds`), for the guests it saw. `DecisionInv`
carries it on: from that rule until the outcome some moment of the evaluation bears
the decision out. `SteadyDecision` also needs the other direction: a rule that says no
does so because the policy lacks something (`NoMeansUncovered`), and when the policy
covers the request one capability has a rule that would not pass it on
(`CoveredHasRule`). `SteadyInv` adds that an evaluation that saw one state of the
event tried only rules that left the request to others, so the deciding rule is still
to come, or was the one to refuse. What the proofs need of the catalogue itself are
assumptions that mention no constant and that TLC evaluates: it is a sequence of
capabilities without a key twice, the rules for one request are of one class, each
check is used by the capabilities it tells apart, and each of these has exactly one
rule wherever one of them has (`CatalogueIsSequence`, `CatalogueIsValid`, `OneClass`,
`ChecksInUse`, `ChecksAreComplete`, `OneRule`, `NeverIsNoKey`).

**OrganizationsProofs.** `OrganizationsInv` is the six properties with what they rest
on. Accounts first (`AccountsInductive`): ids of deleted rows are not in use, a row
has the rights of its address, a login that has an organization to go on with holds
the one that owns the domain, and no two logins made the same one. With these, types
and foreign keys, `OneOrganization` and `DeletedStayDeleted` are inductive. The other
three need to know what a request that is not disturbed has established where it
stands: an administrator's suspension or deletion under way is of somebody else while
the administrator can act, a proof to be saved is the row's own as long as no second
request is about it, and an update of the firewall that is alone has the addresses
that are missing in its hands. `Observe` takes these claims back for whatever
overlaps.

**DriveScopeProofs.** `ScopeInv` adds to the types what the locals of a request are at
its phase (`Fits`), what the rows are (`RowsInside`) and what a request knows of them
(`Knowing`): every folder is linked to its parent in the history; every cached row of a
reference is of a folder that was once below one which `held` still gives it, and so is
all that a walk has found and has still to list; what a request of the agent copied
from the references was granted while it ran, and is in `held` as long as it runs; and
the parent it was told of was once the file's. None of it is implied by
`LetThroughWasInside`, and without it a match against a copy, a cached row or a
reported parent would show nothing. Two kinds of history meet in it. `everLink`, `lent`
and `reach` only grow, so a step of one request takes nothing of them from another.
`held` shrinks, when the DELETE of a walk drops the rows of a folder that no longer is
the reference's and that no running request took from it. So each request must be shown
to keep what it stands on (`HeldStep`, `PairsKept`). Which variables a statement changes
is settled once (`FrameStep`). `DriveTypeCorrect` and `LetThroughWasInsideHolds` follow,
for any number of folders, references, moves and requests. For
`OnlyRacedRefsOutlive`, `DropInv` adds that two requests that run overlap (`Overlap`),
that a running deletion of the Workspace has every row on its list except those whose
registration overlaps it (`Unlisted`), and that a registration about to insert a row
while the Workspace is gone overlapped a deletion (`Outliving`). `EverInside` is a least
fixed point, used only through three facts: it has its seed, it follows links, and it
grows.

`InsideIsServed` and `RefreshRepairs` are about walks from beginning to end that
nothing overlaps. `QuietInv` says how far such a walk has come (`Undisturbed`): it
found folders below its root only, and every folder whose parent it has listed
(`Walking`), so that when nothing is left to list it has found all of them, the closure
being a least fixed point; then what it still has to insert is what the rows lack
(`Filling`); and a reference that was walked for the request has exactly the folders
below its own (`Walked`, `Whole`), and does not match. A statement of any other
request, or a move at Google, ends the claim, because the two then overlap
(`OthersMeet`, from `Overlap`), and the request's own statements leave Google and the
other requests alone (`FrameStep`). No induction over the tree is needed: the walk's
own steps carry it.

**Only model-checked.** The four violations, and `Settles`, the one liveness property.
Every invariant and action property of a passing run is a theorem. **Out of the prover's
reach**: liveness, ENABLED, and induction over data.

## 5. Not modelled

Rendering, routing, configuration, encryption and the C interface of SQLite hold no
state that two actors share. The generic HTTP plumbing (CSRF, method checks, JSON)
answers before the first statement. Audit rows, request logs and usage times are
written, listed and deleted by date, a statement each, and never read by a decision;
of the log only the outcome of a relay request is kept. The rules of the agent
firewall and the user backend API key are rows one statement writes and one reads.
Friendly names, the order of the Workspaces and the table of reauthorization links are
left out of WorkspaceTokens: their failures are outcomes of the saves. Of DriveScope's
requests, names, links and resource keys are left out, and of the account policy the
switches that nothing reads. Times are left out everywhere: whatever may expire may do
so at any step.
