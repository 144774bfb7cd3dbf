-------------------------- MODULE WorkspaceTokens --------------------------
(***************************************************************************)
(* The Google tokens of one user's Workspaces: how the OAuth flow of a     *)
(* browser stores them, how the requests that use a Workspace refresh and  *)
(* store them again, and how the console disconnects or deletes them.      *)
(*                                                                         *)
(* Every consent at Google yields tokens of the account that gave it; a    *)
(* refreshed access token is one more of the same consent.  A handler is a *)
(* sequence of SQL statements and calls to Google, without a transaction.  *)
(* Scopes, names, the order of the Workspaces, audit rows and the links of *)
(* the reauthorization message are left out.  A token may run out at any   *)
(* time and Google may refuse at any time.                                 *)
(***************************************************************************)
EXTENDS Naturals

CONSTANTS
    Mailboxes,   \* mailbox addresses, each a Google account
    States,      \* OAuth states, each generated once (bound)
    Browsers,    \* browsers the user is signed in with
    Handlers,    \* requests in flight (bound)
    MaxConsent,  \* how many consents are given at Google (bound)
    AnyMailbox,  \* the mailbox of a flow that connects a new Workspace
    None

VARIABLES
    conn,         \* gmail_connections: the stored tokens, or None
    oauthState,   \* workspace_oauth_states: the expected mailbox, or None
    cookie,       \* the workspace state cookie of a browser, or None
    job,          \* per request: its locals and where it stands
    lastConsent,  \* the consents given so far are 1..lastConsent
    account,      \* the account that gave a consent
    startedFor,   \* history: the mailbox a state was generated for, or None
    cut           \* history: "no", or what the last disconnection or deletion was:
                  \* "quiet" if no request used the Workspace, else which of them

tables == <<conn, oauthState>>
google == <<lastConsent, account>>
history == <<startedFor, cut>>
vars == <<tables, cookie, job, google, history>>

-----------------------------------------------------------------------------
Consents == 1..MaxConsent
Expected == Mailboxes \union {AnyMailbox}

(* A row without a refresh token is disconnected and has no access token. *)
Row == {row \in [refresh : Consents \union {None}, access : Consents \union {None}] :
          row.refresh = None => row.access = None}
NoTokens == [refresh |-> None, access |-> None]

Cookie == [state : States, mailbox : Expected]

(* Requests between two steps: the OAuth callback, ... *)
Idle == [at |-> "idle"]
CallbackJob == [at : {"burn", "exchange"}, state : States, browser : Browsers,
                expected : Expected]
GrantedJob == [at : {"existing"}, state : States, browser : Browsers,
               expected : Expected, mailbox : Mailboxes, consent : Consents,
               offline : BOOLEAN]
(* ... its SaveGmailConnection, ... *)
StoreJob == [at : {"store"}, state : States, browser : Browsers,
             mailbox : Mailboxes, row : Row]
(* ... and a request that uses a Workspace, with its copy of the row. *)
UseStages == {"using", "refresh", "save"}
UseJob == [at : UseStages, mailbox : Mailboxes, row : Row, retried : BOOLEAN]
Job == {Idle} \union CallbackJob \union GrantedJob \union StoreJob \union UseJob

ASSUME TokensAssumption ==
    /\ MaxConsent \in Nat
    /\ AnyMailbox \notin Mailboxes
    /\ None \notin Row \union Consents \union Expected \union Cookie \union Browsers

TypeOK ==
    /\ conn \in [Mailboxes -> Row \union {None}]
    /\ oauthState \in [States -> Expected \union {None}]
    /\ cookie \in [Browsers -> Cookie \union {None}]
    /\ job \in [Handlers -> Job]
    /\ lastConsent \in 0..MaxConsent
    /\ account \in [Consents -> Mailboxes \union {None}]
    /\ startedFor \in [States -> Expected \union {None}]
    /\ cut \in [Mailboxes -> {"no", "quiet", "disconnected", "deleted"}]

Init ==
    /\ conn = [m \in Mailboxes |-> None]
    /\ oauthState = [s \in States |-> None]
    /\ cookie = [b \in Browsers |-> None]
    /\ job = [h \in Handlers |-> Idle]
    /\ lastConsent = 0
    /\ account = [c \in Consents |-> None]
    /\ startedFor = [s \in States |-> None]
    /\ cut = [m \in Mailboxes |-> "no"]

-----------------------------------------------------------------------------
Goes(h, j) == job' = [job EXCEPT ![h] = j]

(* The answer of a callback takes the state cookie away from its browser. *)
Answers(h) ==
    /\ Goes(h, Idle)
    /\ cookie' = [cookie EXCEPT ![job[h].browser] = None]

Connected(m) == conn[m] # None /\ conn[m].refresh # None

(* A request is at work with a copy of the row of m. *)
InUse(m) == \E h \in Handlers : job[h].at \in UseStages /\ job[h].mailbox = m
AfterCut(m, how) == IF InUse(m) THEN how ELSE "quiet"

-----------------------------------------------------------------------------
(* handleWorkspaceConnect for a new Workspace, handleWorkspaceAuthRefresh    *)
(* and handleWorkspaceReauth for one that has a row: save a fresh state, set *)
(* the cookie, send the browser to Google.                                   *)
FlowStart(b, s, m) ==
    /\ startedFor[s] = None
    /\ m # AnyMailbox => conn[m] # None
    /\ startedFor' = [startedFor EXCEPT ![s] = m]
    /\ oauthState' = [oauthState EXCEPT ![s] = m]
    /\ cookie' = [cookie EXCEPT ![b] = [state |-> s, mailbox |-> m]]
    /\ UNCHANGED <<conn, job, google, cut>>

(* After fifteen minutes the row of a state counts for nothing. *)
StateExpire(s) ==
    /\ oauthState[s] # None
    /\ oauthState' = [oauthState EXCEPT ![s] = None]
    /\ UNCHANGED <<conn, cookie, job, google, history>>

CookieExpire(b) ==
    /\ cookie[b] # None
    /\ cookie' = [cookie EXCEPT ![b] = None]
    /\ UNCHANGED <<tables, job, google, history>>

(* Mutant: the cookie's mailbox is taken whatever state the cookie is of. *)
CallbackStateAnyCookie(h, b, s) ==
    LET next(stage, m) == [at |-> stage, state |-> s, browser |-> b, expected |-> m] IN
    /\ job[h] = Idle
    /\ startedFor[s] # None
    /\ \/ oauthState[s] # None /\ Goes(h, next("burn", oauthState[s]))
       \/ /\ oauthState[s] = None
          /\ cookie[b] # None
          /\ Goes(h, next("exchange", cookie[b].mailbox))
    /\ UNCHANGED <<tables, cookie, google, history>>

(* handleWorkspaceCallback: Google sends a browser back with a state.        *)
(* ConsumeWorkspaceOAuthState finds its row, or the cookie stands in for it; *)
(* without either the request is refused, and only its cookie goes, as by    *)
(* CookieExpire.                                                             *)
CallbackState(h, b, s) ==
    LET next(stage, m) == [at |-> stage, state |-> s, browser |-> b, expected |-> m] IN
    /\ job[h] = Idle
    /\ startedFor[s] # None
    /\ \/ oauthState[s] # None /\ Goes(h, next("burn", oauthState[s]))
       \/ /\ oauthState[s] = None
          /\ cookie[b] # None /\ cookie[b].state = s
          /\ Goes(h, next("exchange", cookie[b].mailbox))
    /\ UNCHANGED <<tables, cookie, google, history>>

(* The row that was found is deleted. *)
CallbackBurn(h) ==
    LET j == job[h] IN
    /\ j.at = "burn"
    /\ oauthState' = [oauthState EXCEPT ![j.state] = None]
    /\ Goes(h, [j EXCEPT !.at = "exchange"])
    /\ UNCHANGED <<conn, cookie, google, history>>

(* The code does not buy tokens, or the organization's policy forbids the    *)
(* account, or Google names an account other than the one expected.          *)
CallbackRefused(h) ==
    /\ job[h].at = "exchange"
    /\ Answers(h)
    /\ UNCHANGED <<tables, google, history>>

(* Mutant: the tokens are filed under the mailbox that the flow expects. *)
CallbackExchangeUnchecked(h, m, offline) ==
    LET j == job[h] IN
    /\ j.at = "exchange"
    /\ lastConsent < MaxConsent
    /\ lastConsent' = lastConsent + 1
    /\ account' = [account EXCEPT ![lastConsent'] = m]
    /\ Goes(h, [at |-> "existing", state |-> j.state, browser |-> j.browser,
                expected |-> j.expected, consent |-> lastConsent', offline |-> offline,
                mailbox |-> IF j.expected = AnyMailbox THEN m ELSE j.expected])
    /\ UNCHANGED <<tables, cookie, history>>

(* exchangeCodeForToken and fetchGmailProfile: the user consented as account *)
(* m, which must be the one the flow expects; Google may leave out the       *)
(* refresh token.                                                            *)
CallbackExchange(h, m, offline) ==
    LET j == job[h] IN
    /\ j.at = "exchange"
    /\ j.expected \in {AnyMailbox, m}
    /\ lastConsent < MaxConsent
    /\ lastConsent' = lastConsent + 1
    /\ account' = [account EXCEPT ![lastConsent'] = m]
    /\ Goes(h, [at |-> "existing", state |-> j.state, browser |-> j.browser,
                expected |-> j.expected, mailbox |-> m, consent |-> lastConsent',
                offline |-> offline])
    /\ UNCHANGED <<tables, cookie, history>>

(* The row so far: a flow for a saved Workspace needs one, and its refresh   *)
(* token serves when Google gave none.                                       *)
CallbackExisting(h) ==
    LET j == job[h]
        refresh == IF j.offline THEN j.consent
                   ELSE IF Connected(j.mailbox) THEN conn[j.mailbox].refresh ELSE None
        saves == refresh # None /\ (conn[j.mailbox] = None => j.expected = AnyMailbox)
    IN
    /\ j.at = "existing"
    /\ IF saves
       THEN /\ Goes(h, [at |-> "store", state |-> j.state, browser |-> j.browser,
                        mailbox |-> j.mailbox,
                        row |-> [refresh |-> refresh, access |-> j.consent]])
            /\ UNCHANGED cookie
       ELSE Answers(h)
    /\ UNCHANGED <<tables, google, history>>

(* SaveGmailConnection: the upsert of the row.  The place of a new Workspace *)
(* in the order follows, and the callback answers whether it got one or not. *)
CallbackStore(h) ==
    LET j == job[h] IN
    /\ j.at = "store"
    /\ conn' = [conn EXCEPT ![j.mailbox] = j.row]
    /\ cut' = [cut EXCEPT ![j.mailbox] = "no"]
    /\ Answers(h)
    /\ UNCHANGED <<oauthState, google, startedFor>>

-----------------------------------------------------------------------------
(* handleProxyRelay and the Drive folder handlers read the row of a mailbox; *)
(* getValidWorkspaceAccessToken takes an access token that is not about to   *)
(* run out, or refreshes; a row without tokens is refused.                   *)
UseStart(h, m) ==
    LET use(stage) == [at |-> stage, mailbox |-> m, row |-> conn[m], retried |-> FALSE] IN
    /\ job[h] = Idle
    /\ Connected(m)
    /\ \/ conn[m].access # None /\ Goes(h, use("using"))
       \/ Goes(h, use("refresh"))
    /\ UNCHANGED <<tables, cookie, google, history>>

(* Google renews the access token, or refuses. *)
RefreshAnswer(h) ==
    LET j == job[h] IN
    /\ j.at = "refresh"
    /\ \/ Goes(h, [j EXCEPT !.at = "save", !.row.access = j.row.refresh])
       \/ Goes(h, Idle)
    /\ UNCHANGED <<tables, cookie, google, history>>

(* SaveGmailConnection upserts the copy, row or no row; a row that was gone *)
(* may be refused its place in the order, which ends the request.           *)
UseSave(h) ==
    LET j == job[h] IN
    /\ j.at = "save"
    /\ conn' = [conn EXCEPT ![j.mailbox] = j.row]
    /\ Goes(h, [j EXCEPT !.at = "using"]) \/ Goes(h, Idle)
    /\ UNCHANGED <<oauthState, cookie, google, history>>

(* The request is over, or Google rejects the access token and the relay     *)
(* refreshes once more, from its copy.                                       *)
UseEnd(h) ==
    LET j == job[h] IN
    /\ j.at = "using"
    /\ \/ Goes(h, Idle)
       \/ ~j.retried /\ Goes(h, [j EXCEPT !.at = "refresh", !.retried = TRUE])
    /\ UNCHANGED <<tables, cookie, google, history>>

-----------------------------------------------------------------------------
(* Mutant: the refresh token is kept. *)
DisconnectKeepingRefresh(m) ==
    /\ conn[m] # None
    /\ conn' = [conn EXCEPT ![m].access = None]
    /\ cut' = [cut EXCEPT ![m] = AfterCut(m, "disconnected")]
    /\ UNCHANGED <<oauthState, cookie, job, google, startedFor>>

(* Mutant: the access token is kept. *)
DisconnectKeepingAccess(m) ==
    /\ conn[m] # None
    /\ conn' = [conn EXCEPT ![m].refresh = None]
    /\ cut' = [cut EXCEPT ![m] = AfterCut(m, "disconnected")]
    /\ UNCHANGED <<oauthState, cookie, job, google, startedFor>>

(* handleWorkspaceDisconnect: one UPDATE clears the tokens. *)
Disconnect(m) ==
    /\ conn[m] # None
    /\ conn' = [conn EXCEPT ![m] = NoTokens]
    /\ cut' = [cut EXCEPT ![m] = AfterCut(m, "disconnected")]
    /\ UNCHANGED <<oauthState, cookie, job, google, startedFor>>

(* handleWorkspaceDelete: the last DELETE of DeleteGmailConnection, after    *)
(* the folder references and the place in the order.                         *)
Delete(m) ==
    /\ conn[m] # None
    /\ conn' = [conn EXCEPT ![m] = None]
    /\ cut' = [cut EXCEPT ![m] = AfterCut(m, "deleted")]
    /\ UNCHANGED <<oauthState, cookie, job, google, startedFor>>

Crash ==
    /\ job' = [h \in Handlers |-> Idle]
    /\ UNCHANGED <<tables, cookie, google, history>>

-----------------------------------------------------------------------------
Callback(h) ==
    \/ \E b \in Browsers, s \in States : CallbackState(h, b, s)
    \/ CallbackBurn(h) \/ CallbackRefused(h)
    \/ \E m \in Mailboxes, offline \in BOOLEAN : CallbackExchange(h, m, offline)
    \/ CallbackExisting(h) \/ CallbackStore(h)

Use(h) ==
    \/ \E m \in Mailboxes : UseStart(h, m)
    \/ RefreshAnswer(h) \/ UseSave(h) \/ UseEnd(h)

Next ==
    \/ \E b \in Browsers, s \in States, m \in Expected : FlowStart(b, s, m)
    \/ \E s \in States : StateExpire(s)
    \/ \E b \in Browsers : CookieExpire(b)
    \/ \E m \in Mailboxes : Disconnect(m) \/ Delete(m)
    \/ \E h \in Handlers : Callback(h) \/ Use(h)
    \/ Crash

Spec == Init /\ [][Next]_vars

-----------------------------------------------------------------------------
(* The tokens stored for a mailbox, and the ones a request for it holds, are *)
(* of that mailbox's own account, whoever signs in at Google in the middle   *)
(* of whichever flow: an agent that was granted one Workspace never reads    *)
(* another one.                                                              *)
TokensOf(row, m) == {row.refresh, row.access} \subseteq {None} \union
                        {c \in 1..lastConsent : account[c] = m}
TokensMatchMailbox ==
    /\ \A m \in Mailboxes : conn[m] # None => TokensOf(conn[m], m)
    /\ \A h \in Handlers : job[h].at \in UseStages => TokensOf(job[h].row, job[h].mailbox)

(* A flow that was started to authorize one saved Workspace again stores     *)
(* tokens for that Workspace or for none, through two flows in one browser,  *)
(* states that ran out and the cookie standing in for them.                  *)
FlowKeepsItsMailbox ==
    \A h \in Handlers : job[h].at = "store" =>
        startedFor[job[h].state] \in {AnyMailbox, job[h].mailbox}

(* Once a Workspace is disconnected or deleted while no request is at work   *)
(* with it, it stays without tokens until a consent of the user is stored.   *)
QuietCutSticks == \A m \in Mailboxes : cut[m] = "quiet" => ~Connected(m)

(* Once a Workspace is disconnected, it stays without tokens until the       *)
(* user's next consent: agents stop working with it until it is reconnected. *)
DisconnectSticks ==
    \A m \in Mailboxes : cut[m] \in {"quiet", "disconnected"} => ~Connected(m)
=============================================================================
