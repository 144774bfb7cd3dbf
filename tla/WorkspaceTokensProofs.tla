------------------------ MODULE WorkspaceTokensProofs ------------------------
(***************************************************************************)
(* Theorems about WorkspaceTokens for every value of its constants: any    *)
(* number of Workspaces, browsers, flows and requests in flight.           *)
(***************************************************************************)
EXTENDS WorkspaceTokens, TLAPS

-----------------------------------------------------------------------------
(* Where a request stands tells which locals it has.                         *)
LEMMA JobShapes ==
  ASSUME NEW j \in Job
  PROVE  /\ j.at \in {"burn", "exchange"} => j \in CallbackJob
         /\ j.at = "existing" => j \in GrantedJob
         /\ j.at = "store" => j \in StoreJob
         /\ j.at \in UseStages => j \in UseJob
  BY DEF Job, Idle, CallbackJob, GrantedJob, StoreJob, UseJob, UseStages

-----------------------------------------------------------------------------
(* Types, one step per action.                                               *)
LEMMA TypeStep == TypeOK /\ [Next]_vars => TypeOK'
  <1> SUFFICES ASSUME TypeOK, [Next]_vars PROVE TypeOK'
    OBVIOUS
  <1> USE TokensAssumption DEF TypeOK
  <1>1. ASSUME NEW b \in Browsers, NEW s \in States, NEW m \in Expected, FlowStart(b, s, m)
        PROVE  TypeOK'
    BY <1>1 DEF FlowStart, Cookie, google
  <1>2. ASSUME NEW s \in States, StateExpire(s) PROVE TypeOK'
    BY <1>2 DEF StateExpire, google, history
  <1>3. ASSUME NEW b \in Browsers, CookieExpire(b) PROVE TypeOK'
    BY <1>3 DEF CookieExpire, tables, google, history
  <1>4. ASSUME NEW m \in Mailboxes, Disconnect(m) PROVE TypeOK'
    BY <1>4 DEF Disconnect, AfterCut, NoTokens, Row, google
  <1>5. ASSUME NEW m \in Mailboxes, Delete(m) PROVE TypeOK'
    BY <1>5 DEF Delete, AfterCut, google
  <1>6. ASSUME NEW h \in Handlers, NEW b \in Browsers, NEW s \in States,
               CallbackState(h, b, s)
        PROVE  TypeOK'
    <2>1. \E m \in Expected, stage \in {"burn", "exchange"} :
             job' = [job EXCEPT ![h] = [at |-> stage, state |-> s, browser |-> b,
                                        expected |-> m]]
      BY <1>6 DEF CallbackState, Goes, Cookie
    <2> QED
      BY <1>6, <2>1 DEF CallbackState, Job, CallbackJob, tables, google, history
  <1>7. ASSUME NEW h \in Handlers, CallbackBurn(h) PROVE TypeOK'
    <2>1. job[h] \in CallbackJob
      BY <1>7, JobShapes DEF CallbackBurn
    <2> QED
      BY <1>7, <2>1 DEF CallbackBurn, Goes, Job, CallbackJob, google, history
  <1>8. ASSUME NEW h \in Handlers, CallbackRefused(h) PROVE TypeOK'
    BY <1>8 DEF CallbackRefused, Answers, Goes, Job, tables, google, history
  <1>9. ASSUME NEW h \in Handlers, NEW m \in Mailboxes, NEW offline \in BOOLEAN,
               CallbackExchange(h, m, offline)
        PROVE  TypeOK'
    <2>1. job[h] \in CallbackJob
      BY <1>9, JobShapes DEF CallbackExchange
    <2>2. lastConsent' \in Consents
      BY <1>9 DEF CallbackExchange, Consents
    <2> QED
      BY <1>9, <2>1, <2>2 DEF CallbackExchange, Goes, Job, CallbackJob, GrantedJob, Consents,
         tables, history
  <1>10. ASSUME NEW h \in Handlers, CallbackExisting(h) PROVE TypeOK'
    <2>1. job[h] \in GrantedJob
      BY <1>10, JobShapes DEF CallbackExisting
    <2>2. UNCHANGED <<tables, google, history>>
      BY <1>10 DEF CallbackExisting
    <2>3. CASE Answers(h)
      BY <2>2, <2>3 DEF Answers, Goes, Job, tables, google, history
    <2>4. CASE ~Answers(h)
      <3>1. \E refresh \in Consents :
               job' = [job EXCEPT ![h] =
                 [at |-> "store", state |-> job[h].state, browser |-> job[h].browser,
                  mailbox |-> job[h].mailbox,
                  row |-> [refresh |-> refresh, access |-> job[h].consent]]]
        BY <1>10, <2>1, <2>4 DEF CallbackExisting, Goes, Connected, GrantedJob, Row
      <3>2. UNCHANGED cookie
        BY <1>10, <2>4 DEF CallbackExisting
      <3> QED
        BY <2>1, <2>2, <3>1, <3>2 DEF Job, GrantedJob, StoreJob, Row, tables, google, history
    <2> QED
      BY <2>3, <2>4
  <1>11. ASSUME NEW h \in Handlers, CallbackStore(h) PROVE TypeOK'
    <2>1. job[h] \in StoreJob
      BY <1>11, JobShapes DEF CallbackStore
    <2> QED
      BY <1>11, <2>1 DEF CallbackStore, Answers, Goes, Job, StoreJob, google
  <1>12. ASSUME NEW h \in Handlers, NEW m \in Mailboxes, UseStart(h, m) PROVE TypeOK'
    <2>1. PICK j \in UseJob : job' = [job EXCEPT ![h] = j]
      <3>1. conn[m] \in Row
        BY <1>12 DEF UseStart, Connected
      <3>2. \A stage \in UseStages :
               [at |-> stage, mailbox |-> m, row |-> conn[m], retried |-> FALSE] \in UseJob
        BY <3>1 DEF UseJob
      <3> QED
        BY <1>12, <3>2 DEF UseStart, Goes, UseStages
    <2> QED
      BY <1>12, <2>1 DEF UseStart, Job, tables, google, history
  <1>13. ASSUME NEW h \in Handlers, RefreshAnswer(h) PROVE TypeOK'
    <2>1. job[h] \in UseJob
      BY <1>13, JobShapes DEF RefreshAnswer, UseStages
    <2> QED
      <3>1. [job[h] EXCEPT !.at = "save", !.row.access = job[h].row.refresh] \in UseJob
        BY <2>1 DEF UseJob, UseStages, Row
      <3>2. job'[h] \in Job /\ job' = [job EXCEPT ![h] = job'[h]]
        BY <1>13, <3>1 DEF RefreshAnswer, Goes, Job
      <3> QED
        BY <1>13, <3>2 DEF RefreshAnswer, tables, google, history
  <1>14. ASSUME NEW h \in Handlers, UseSave(h) PROVE TypeOK'
    <2>1. job[h] \in UseJob
      BY <1>14, JobShapes DEF UseSave, UseStages
    <2> QED
      BY <1>14, <2>1 DEF UseSave, Goes, Job, UseJob, UseStages, google, history
  <1>15. ASSUME NEW h \in Handlers, UseEnd(h) PROVE TypeOK'
    <2>1. job[h] \in UseJob
      BY <1>15, JobShapes DEF UseEnd, UseStages
    <2> QED
      <3>1. [job[h] EXCEPT !.at = "refresh", !.retried = TRUE] \in UseJob
        BY <2>1 DEF UseJob, UseStages
      <3>2. job'[h] \in Job /\ job' = [job EXCEPT ![h] = job'[h]]
        BY <1>15, <3>1 DEF UseEnd, Goes, Job
      <3> QED
        BY <1>15, <3>2 DEF UseEnd, tables, google, history
  <1>16. CASE Crash
    BY <1>16 DEF Crash, Job, tables, google, history
  <1>17. CASE UNCHANGED vars
    BY <1>17 DEF vars, tables, google, history
  <1> QED
    BY <1>1, <1>2, <1>3, <1>4, <1>5, <1>6, <1>7, <1>8, <1>9, <1>10, <1>11, <1>12, <1>13,
       <1>14, <1>15, <1>16, <1>17 DEF Next, Callback, Use

-----------------------------------------------------------------------------
(* First strengthening: the tokens a request holds are of the mailbox it is  *)
(* for, a callback's between Google's answer and its save included.          *)
HoldsOwn(j) ==
    /\ j.at = "existing" => j.consent \in 1..lastConsent /\ account[j.consent] = j.mailbox
    /\ j.at \in UseStages \union {"store"} => TokensOf(j.row, j.mailbox)

OwnTokens ==
    /\ \A m \in Mailboxes : conn[m] # None => TokensOf(conn[m], m)
    /\ \A h \in Handlers : HoldsOwn(job[h])

(* A step that leaves Google alone keeps the tokens in order if the locals   *)
(* of its request and the row that it writes are.                            *)
LEMMA TokensKept ==
  ASSUME TypeOK, OwnTokens, UNCHANGED google,
         NEW h \in Handlers, NEW j, job' = [job EXCEPT ![h] = j], HoldsOwn(j),
         \A m \in Mailboxes : conn'[m] # None => TokensOf(conn'[m], m)
  PROVE  OwnTokens'
  <1>1. \A g \in Handlers : job'[g] = IF g = h THEN j ELSE job[g]
    BY DEF TypeOK
  <1>2. \A g \in Handlers : HoldsOwn(job'[g])
    BY <1>1 DEF OwnTokens
  <1> QED
    BY <1>2 DEF OwnTokens, HoldsOwn, TokensOf, google

(* One more consent changes nothing about the tokens of the earlier ones.    *)
LEMMA TokensOfMore ==
  ASSUME TypeOK, lastConsent' = lastConsent + 1, lastConsent < MaxConsent,
         NEW a, account' = [account EXCEPT ![lastConsent'] = a],
         NEW row, NEW m, TokensOf(row, m)
  PROVE  TokensOf(row, m)'
  BY TokensAssumption DEF TypeOK, TokensOf, Consents

LEMMA TokenStep == TypeOK /\ OwnTokens /\ [Next]_vars => OwnTokens'
  <1> SUFFICES ASSUME TypeOK, OwnTokens, [Next]_vars PROVE OwnTokens'
    OBVIOUS
  <1>a. \A m \in Mailboxes : conn[m] # None => TokensOf(conn[m], m)
    BY DEF OwnTokens
  <1>b. \A h \in Handlers : HoldsOwn(job[h]) /\ job[h] \in Job
    BY DEF OwnTokens, TypeOK
  <1>c. HoldsOwn(Idle)
    BY DEF HoldsOwn, Idle, UseStages
  <1>1. ASSUME UNCHANGED <<conn, job, google>> PROVE OwnTokens'
    BY <1>1 DEF OwnTokens, HoldsOwn, TokensOf, google
  <1>2. ASSUME NEW m \in Mailboxes, Disconnect(m) \/ Delete(m) PROVE OwnTokens'
    <2>1. UNCHANGED <<job, google>>
      BY <1>2 DEF Disconnect, Delete
    <2>2. \A w \in Mailboxes : conn'[w] \in {None, NoTokens, conn[w]}
      BY <1>2 DEF Disconnect, Delete, TypeOK
    <2>3. \A w \in Mailboxes : conn'[w] # None => TokensOf(conn'[w], w)
      BY <1>a, <2>2 DEF TokensOf, NoTokens
    <2> QED
      BY <1>b, <2>1, <2>3 DEF OwnTokens, HoldsOwn, TokensOf, google
  <1>3. ASSUME NEW h \in Handlers, NEW b \in Browsers, NEW s \in States,
               CallbackState(h, b, s)
        PROVE  OwnTokens'
    <2>1. \E m \in {oauthState[s], cookie[b].mailbox}, stage \in {"burn", "exchange"} :
             job' = [job EXCEPT ![h] = [at |-> stage, state |-> s, browser |-> b,
                                        expected |-> m]]
      BY <1>3 DEF CallbackState, Goes
    <2>2. UNCHANGED <<conn, google>>
      BY <1>3 DEF CallbackState, tables
    <2> QED
      BY <1>a, <2>1, <2>2, TokensKept DEF HoldsOwn, UseStages
  <1>4. ASSUME NEW h \in Handlers, CallbackBurn(h) PROVE OwnTokens'
    <2>1. job[h] \in CallbackJob
      BY <1>b, <1>4, JobShapes DEF CallbackBurn
    <2>2. HoldsOwn([job[h] EXCEPT !.at = "exchange"])
      BY <2>1 DEF HoldsOwn, CallbackJob, UseStages
    <2> QED
      BY <1>4, <1>a, <2>2, TokensKept DEF CallbackBurn, Goes
  <1>5. ASSUME NEW h \in Handlers, CallbackRefused(h) PROVE OwnTokens'
    BY <1>5, <1>a, <1>c, TokensKept DEF CallbackRefused, Answers, Goes, tables
  <1>6. ASSUME NEW h \in Handlers, NEW m \in Mailboxes, NEW offline \in BOOLEAN,
               CallbackExchange(h, m, offline)
        PROVE  OwnTokens'
    <2>1. \A row, w : TokensOf(row, w) => TokensOf(row, w)'
      BY <1>6, TokensOfMore DEF CallbackExchange
    <2>2. UNCHANGED conn
      BY <1>6 DEF CallbackExchange, tables
    <2>3. lastConsent' \in 1..lastConsent' /\ account'[lastConsent'] = m
      BY <1>6, TokensAssumption DEF CallbackExchange, TypeOK, Consents
    <2>4. \A g \in Handlers : HoldsOwn(job[g])'
      <3> SUFFICES ASSUME NEW g \in Handlers PROVE HoldsOwn(job[g])'
        OBVIOUS
      <3>1. CASE g = h
        <4>1. job'[g] = [at |-> "existing", state |-> job[h].state, browser |-> job[h].browser,
                         expected |-> job[h].expected, mailbox |-> m,
                         consent |-> lastConsent', offline |-> offline]
          BY <1>6, <3>1 DEF CallbackExchange, Goes, TypeOK
        <4> QED
          BY <2>3, <4>1 DEF HoldsOwn, UseStages
      <3>2. CASE g # h
        <4>1. job'[g] = job[g]
          BY <1>6, <3>2 DEF CallbackExchange, Goes, TypeOK
        <4>2. job[g].at = "existing" =>
                 job[g].consent \in 1..lastConsent' /\ account'[job[g].consent] = job[g].mailbox
          BY <1>6, <1>b, TokensAssumption DEF HoldsOwn, CallbackExchange, TypeOK, Consents
        <4> QED
          BY <1>b, <2>1, <4>1, <4>2 DEF HoldsOwn
      <3> QED
        BY <3>1, <3>2
    <2> QED
      BY <1>a, <2>1, <2>2, <2>4 DEF OwnTokens
  <1>7. ASSUME NEW h \in Handlers, CallbackExisting(h) PROVE OwnTokens'
    <2>1. job[h] \in GrantedJob
      BY <1>b, <1>7, JobShapes DEF CallbackExisting
    <2>2. UNCHANGED <<conn, google>>
      BY <1>7 DEF CallbackExisting, tables
    <2>3. CASE Answers(h)
      BY <1>a, <1>c, <2>2, <2>3, TokensKept DEF Answers, Goes
    <2>4. CASE ~Answers(h)
      <3>1. PICK refresh :
              /\ \/ refresh = job[h].consent
                 \/ conn[job[h].mailbox] # None /\ refresh = conn[job[h].mailbox].refresh
              /\ job' = [job EXCEPT ![h] =
                   [at |-> "store", state |-> job[h].state, browser |-> job[h].browser,
                    mailbox |-> job[h].mailbox,
                    row |-> [refresh |-> refresh, access |-> job[h].consent]]]
        BY <1>7, <2>4 DEF CallbackExisting, Goes, Connected
      <3>2. TokensOf([refresh |-> refresh, access |-> job[h].consent], job[h].mailbox)
        <4>1. job[h].consent \in {c \in 1..lastConsent : account[c] = job[h].mailbox}
          BY <1>b, <1>7 DEF HoldsOwn, CallbackExisting
        <4>2. job[h].mailbox \in Mailboxes
          BY <2>1 DEF GrantedJob
        <4> QED
          BY <1>a, <3>1, <4>1, <4>2 DEF TokensOf
      <3> QED
        BY <1>a, <2>2, <3>1, <3>2, TokensKept DEF HoldsOwn
    <2> QED
      BY <2>3, <2>4
  <1>8. ASSUME NEW h \in Handlers, CallbackStore(h) PROVE OwnTokens'
    <2>1. job[h] \in StoreJob /\ TokensOf(job[h].row, job[h].mailbox)
      BY <1>b, <1>8, JobShapes DEF CallbackStore, HoldsOwn
    <2>2. \A w \in Mailboxes : conn'[w] # None => TokensOf(conn'[w], w)
      BY <1>8, <1>a, <2>1 DEF CallbackStore, StoreJob, TypeOK
    <2> QED
      BY <1>8, <1>c, <2>2, TokensKept DEF CallbackStore, Answers, Goes
  <1>9. ASSUME NEW h \in Handlers, NEW m \in Mailboxes, UseStart(h, m) PROVE OwnTokens'
    <2>1. \E stage \in UseStages :
            job' = [job EXCEPT ![h] = [at |-> stage, mailbox |-> m, row |-> conn[m],
                                       retried |-> FALSE]]
      BY <1>9 DEF UseStart, Goes, UseStages
    <2>2. TokensOf(conn[m], m) /\ UNCHANGED <<conn, google>>
      BY <1>9, <1>a DEF UseStart, Connected, tables
    <2> QED
      BY <1>a, <2>1, <2>2, TokensKept DEF HoldsOwn, UseStages
  <1>10. ASSUME NEW h \in Handlers, RefreshAnswer(h) \/ UseEnd(h) PROVE OwnTokens'
    <2>1. job[h] \in UseJob /\ TokensOf(job[h].row, job[h].mailbox)
      BY <1>b, <1>10, JobShapes DEF RefreshAnswer, UseEnd, HoldsOwn, UseStages
    <2>2. HoldsOwn([job[h] EXCEPT !.at = "save", !.row.access = job[h].row.refresh])
      BY <2>1 DEF HoldsOwn, UseJob, Row, TokensOf
    <2>3. HoldsOwn([job[h] EXCEPT !.at = "refresh", !.retried = TRUE])
      BY <2>1 DEF HoldsOwn, UseJob
    <2>4. UNCHANGED <<conn, google>>
      BY <1>10 DEF RefreshAnswer, UseEnd, tables
    <2>5. \E j : HoldsOwn(j) /\ job' = [job EXCEPT ![h] = j]
      BY <1>10, <1>c, <2>2, <2>3 DEF RefreshAnswer, UseEnd, Goes
    <2> QED
      BY <1>a, <2>4, <2>5, TokensKept
  <1>11. ASSUME NEW h \in Handlers, UseSave(h) PROVE OwnTokens'
    <2>1. job[h] \in UseJob /\ TokensOf(job[h].row, job[h].mailbox)
      BY <1>b, <1>11, JobShapes DEF UseSave, HoldsOwn, UseStages
    <2>2. HoldsOwn([job[h] EXCEPT !.at = "using"])
      BY <2>1 DEF HoldsOwn, UseJob
    <2>3. \A w \in Mailboxes : conn'[w] # None => TokensOf(conn'[w], w)
      BY <1>11, <1>a, <2>1 DEF UseSave, UseJob, TypeOK
    <2>4. \E j : HoldsOwn(j) /\ job' = [job EXCEPT ![h] = j]
      BY <1>11, <1>c, <2>2 DEF UseSave, Goes
    <2> QED
      BY <1>11, <2>3, <2>4, TokensKept DEF UseSave
  <1>12. CASE Crash
    <2>1. UNCHANGED <<conn, google>> /\ \A h \in Handlers : job'[h] = Idle
      BY <1>12 DEF Crash, tables
    <2> QED
      BY <1>a, <1>c, <2>1 DEF OwnTokens, HoldsOwn, TokensOf, google
  <1> QED
    BY <1>1, <1>2, <1>3, <1>4, <1>5, <1>6, <1>7, <1>8, <1>9, <1>10, <1>11, <1>12
    DEF Next, Callback, Use, FlowStart, StateExpire, CookieExpire, vars, tables

-----------------------------------------------------------------------------
(* Second strengthening: every copy of the mailbox that a flow expects - in  *)
(* the state's row, the cookie and the callback - is the one it started for. *)
Remembers(j) ==
    /\ j.at \in {"burn", "exchange", "existing"} => j.expected = startedFor[j.state]
    /\ j.at = "existing" => j.expected \in {AnyMailbox, j.mailbox}
    /\ j.at = "store" => startedFor[j.state] \in {AnyMailbox, j.mailbox}
    /\ j.at \in {"burn", "exchange", "existing", "store"} => startedFor[j.state] # None

Flows ==
    /\ \A s \in States : oauthState[s] \in {None, startedFor[s]}
    /\ \A b \in Browsers : cookie[b] # None =>
          cookie[b].mailbox = startedFor[cookie[b].state] /\ startedFor[cookie[b].state] # None
    /\ \A h \in Handlers : Remembers(job[h])

(* A step that starts no flow keeps them all remembered if the locals of its *)
(* request are, and it only takes states and cookies away.                   *)
LEMMA FlowsKept ==
  ASSUME TypeOK, Flows, UNCHANGED startedFor,
         NEW h \in Handlers, NEW j, job' = [job EXCEPT ![h] = j], Remembers(j),
         \A s \in States : oauthState'[s] \in {None, oauthState[s]},
         \A b \in Browsers : cookie'[b] \in {None, cookie[b]}
  PROVE  Flows'
  <1>1. \A g \in Handlers : job'[g] = IF g = h THEN j ELSE job[g]
    BY DEF TypeOK
  <1>2. \A g \in Handlers : Remembers(job'[g])
    BY <1>1 DEF Flows
  <1>3. \A g \in Handlers : Remembers(job[g])'
    BY <1>2 DEF Remembers
  <1>4. \A s \in States : oauthState'[s] \in {None, startedFor'[s]}
    BY DEF Flows
  <1>5. \A b \in Browsers : cookie'[b] # None =>
           cookie'[b].mailbox = startedFor'[cookie'[b].state] /\ startedFor'[cookie'[b].state] # None
    BY DEF Flows
  <1> QED
    BY <1>3, <1>4, <1>5 DEF Flows

LEMMA FlowStep == TypeOK /\ Flows /\ [Next]_vars => Flows'
  <1> SUFFICES ASSUME TypeOK, Flows, [Next]_vars PROVE Flows'
    OBVIOUS
  <1>b. \A h \in Handlers : Remembers(job[h]) /\ job[h] \in Job
    BY DEF Flows, TypeOK
  <1>c. Remembers(Idle)
    BY DEF Remembers, Idle
  <1>1. ASSUME NEW b \in Browsers, NEW s \in States, NEW m \in Expected, FlowStart(b, s, m)
        PROVE  Flows'
    <2>1. m # None
      BY TokensAssumption
    <2>2. \A t \in States : oauthState'[t] \in {None, startedFor'[t]}
      BY <1>1 DEF FlowStart, Flows, TypeOK
    <2>3. \A c \in Browsers : cookie'[c] # None =>
             cookie'[c].mailbox = startedFor'[cookie'[c].state] /\ startedFor'[cookie'[c].state] # None
      <3> SUFFICES ASSUME NEW c \in Browsers, cookie'[c] # None
                   PROVE  /\ cookie'[c].mailbox = startedFor'[cookie'[c].state]
                          /\ startedFor'[cookie'[c].state] # None
        OBVIOUS
      <3>1. CASE c = b
        BY <1>1, <2>1, <3>1 DEF FlowStart, TypeOK
      <3>2. CASE c # b
        <4>1. cookie'[c] = cookie[c] /\ cookie[c] \in Cookie
          BY <1>1, <3>2 DEF FlowStart, TypeOK
        <4> QED
          BY <1>1, <2>1, <4>1 DEF FlowStart, TypeOK, Flows, Cookie
      <3> QED
        BY <3>1, <3>2
    <2>4. \A h \in Handlers : Remembers(job[h])'
      <3> SUFFICES ASSUME NEW h \in Handlers PROVE Remembers(job[h])'
        OBVIOUS
      <3>1. job'[h] = job[h]
        BY <1>1 DEF FlowStart
      <3>2. job[h].at \in {"burn", "exchange", "existing", "store"} => job[h].state \in States
        BY <1>b, JobShapes DEF CallbackJob, GrantedJob, StoreJob
      <3>3. job[h].at \in {"burn", "exchange", "existing", "store"} =>
               startedFor'[job[h].state] = startedFor[job[h].state]
        BY <1>1, <1>b, <3>2 DEF FlowStart, TypeOK, Remembers
      <3> QED
        BY <1>b, <3>1, <3>3 DEF Remembers
    <2> QED
      BY <2>2, <2>3, <2>4 DEF Flows
  <1>2. ASSUME UNCHANGED <<job, startedFor>>,
               \A s \in States : oauthState'[s] \in {None, oauthState[s]},
               \A b \in Browsers : cookie'[b] \in {None, cookie[b]}
        PROVE  Flows'
    BY <1>2 DEF Flows, Remembers
  <1>3. ASSUME NEW s \in States, StateExpire(s) PROVE Flows'
    BY <1>2, <1>3 DEF StateExpire, history, TypeOK
  <1>4. ASSUME NEW b \in Browsers, CookieExpire(b) PROVE Flows'
    BY <1>2, <1>4 DEF CookieExpire, tables, history, TypeOK
  <1>5. ASSUME NEW m \in Mailboxes, Disconnect(m) \/ Delete(m) PROVE Flows'
    BY <1>2, <1>5 DEF Disconnect, Delete
  <1>6. ASSUME NEW h \in Handlers, NEW b \in Browsers, NEW s \in States,
               CallbackState(h, b, s)
        PROVE  Flows'
    <2>1. \E stage \in {"burn", "exchange"} :
             job' = [job EXCEPT ![h] = [at |-> stage, state |-> s, browser |-> b,
                                        expected |-> startedFor[s]]]
      BY <1>6 DEF CallbackState, Goes, Flows
    <2>2. startedFor[s] # None /\ UNCHANGED <<oauthState, cookie, startedFor>>
      BY <1>6 DEF CallbackState, tables, history
    <2> QED
      BY <2>1, <2>2, FlowsKept DEF Remembers
  <1>7. ASSUME NEW h \in Handlers, CallbackBurn(h) PROVE Flows'
    <2>1. job[h] \in CallbackJob
      BY <1>b, <1>7, JobShapes DEF CallbackBurn
    <2>2. Remembers([job[h] EXCEPT !.at = "exchange"])
      BY <1>7, <1>b, <2>1 DEF CallbackBurn, Remembers, CallbackJob
    <2>3. \A s \in States : oauthState'[s] \in {None, oauthState[s]}
      BY <1>7 DEF CallbackBurn, TypeOK
    <2> QED
      BY <1>7, <2>2, <2>3, FlowsKept DEF CallbackBurn, Goes, history
  <1>8. ASSUME NEW h \in Handlers, Answers(h), UNCHANGED <<oauthState, startedFor>>
        PROVE  Flows'
    <2>1. \A b \in Browsers : cookie'[b] \in {None, cookie[b]}
      BY <1>8 DEF Answers, TypeOK
    <2> QED
      BY <1>8, <1>c, <2>1, FlowsKept DEF Answers, Goes
  <1>9. ASSUME NEW h \in Handlers, NEW m \in Mailboxes, NEW offline \in BOOLEAN,
               CallbackExchange(h, m, offline)
        PROVE  Flows'
    <2>1. Remembers([at |-> "existing", state |-> job[h].state, browser |-> job[h].browser,
                     expected |-> job[h].expected, mailbox |-> m,
                     consent |-> lastConsent', offline |-> offline])
      BY <1>9, <1>b DEF CallbackExchange, Remembers
    <2> QED
      BY <1>9, <2>1, FlowsKept DEF CallbackExchange, Goes, tables, history
  <1>10. ASSUME NEW h \in Handlers, CallbackExisting(h) PROVE Flows'
    <2>1. CASE Answers(h)
      BY <1>8, <1>10, <2>1 DEF CallbackExisting, tables, history
    <2>2. CASE ~Answers(h)
      <3>1. \E row : job' = [job EXCEPT ![h] =
                [at |-> "store", state |-> job[h].state, browser |-> job[h].browser,
                 mailbox |-> job[h].mailbox, row |-> row]]
        BY <1>10, <2>2 DEF CallbackExisting, Goes
      <3>2. ASSUME NEW row
            PROVE Remembers([at |-> "store", state |-> job[h].state,
                             browser |-> job[h].browser, mailbox |-> job[h].mailbox,
                             row |-> row])
        BY <1>10, <1>b DEF CallbackExisting, Remembers
      <3>3. UNCHANGED <<oauthState, cookie, startedFor>>
        BY <1>10, <2>2 DEF CallbackExisting, tables, history
      <3> QED
        BY <3>1, <3>2, <3>3, FlowsKept
    <2> QED
      BY <2>1, <2>2
  <1>11. ASSUME NEW h \in Handlers, CallbackStore(h) \/ CallbackRefused(h) PROVE Flows'
    BY <1>8, <1>11 DEF CallbackStore, CallbackRefused, tables, history
  <1>12. ASSUME NEW h \in Handlers, NEW j, Goes(h, j), j = Idle \/ j.at \in UseStages,
                UNCHANGED <<oauthState, cookie, startedFor>>
         PROVE  Flows'
    BY <1>12, <1>c, FlowsKept DEF Goes, Remembers, UseStages
  <1>13. ASSUME NEW h \in Handlers, Use(h) PROVE Flows'
    <2>1. UNCHANGED <<oauthState, cookie, startedFor>>
      BY <1>13 DEF Use, UseStart, RefreshAnswer, UseSave, UseEnd, tables, history
    <2>2. CASE \E m \in Mailboxes : UseStart(h, m)
      BY <1>12, <2>1, <2>2 DEF UseStart, UseStages
    <2>3. CASE RefreshAnswer(h) \/ UseSave(h) \/ UseEnd(h)
      <3>1. job[h] \in UseJob
        BY <1>b, <2>3, JobShapes DEF RefreshAnswer, UseSave, UseEnd, UseStages
      <3> QED
        BY <1>12, <2>1, <2>3, <3>1 DEF RefreshAnswer, UseSave, UseEnd, UseJob, UseStages
    <2> QED
      BY <1>13, <2>2, <2>3 DEF Use
  <1>14. CASE Crash
    <2>1. UNCHANGED <<oauthState, cookie, startedFor>> /\ \A h \in Handlers : job'[h] = Idle
      BY <1>14 DEF Crash, tables, history
    <2> QED
      BY <1>c, <2>1 DEF Flows, Remembers
  <1>15. CASE UNCHANGED vars
    BY <1>2, <1>15 DEF vars, tables, history
  <1> QED
    BY <1>1, <1>3, <1>4, <1>5, <1>6, <1>7, <1>9, <1>10, <1>11, <1>13, <1>14, <1>15
    DEF Next, Callback

-----------------------------------------------------------------------------
(* Third strengthening: while a Workspace that was cut off quietly has no    *)
(* tokens, nobody can be at work with a copy of its row.                     *)
Quiet == \A m \in Mailboxes : cut[m] = "quiet" => ~Connected(m) /\ ~InUse(m)

LEMMA QuietStep == TypeOK /\ Quiet /\ [Next]_vars => Quiet'
  <1> SUFFICES ASSUME TypeOK, Quiet, [Next]_vars, NEW m \in Mailboxes, cut'[m] = "quiet"
               PROVE  ~Connected(m)' /\ ~InUse(m)'
    BY DEF Quiet
  <1>a. \A h \in Handlers : job[h] \in Job
    BY DEF TypeOK
  (* A step that cuts nothing off, writes no tokens for m and lets no other   *)
  (* request begin with it.                                                   *)
  <1>1. ASSUME cut[m] = "quiet", conn'[m] = conn[m],
               \A h \in Handlers : job'[h].at \in UseStages /\ job'[h].mailbox = m =>
                                      job[h].at \in UseStages /\ job[h].mailbox = m
        PROVE  ~Connected(m)' /\ ~InUse(m)'
    BY <1>1 DEF Quiet, Connected, InUse
  <1>2. ASSUME UNCHANGED <<cut, conn, job>> PROVE ~Connected(m)' /\ ~InUse(m)'
    BY <1>1, <1>2
  <1>3. ASSUME NEW w \in Mailboxes, Disconnect(w) \/ Delete(w)
        PROVE  ~Connected(m)' /\ ~InUse(m)'
    <2>1. UNCHANGED job
      BY <1>3 DEF Disconnect, Delete
    <2>2. CASE w = m
      <3>1. conn'[m] \in {None, NoTokens} /\ cut'[m] \in {AfterCut(m, "disconnected"), AfterCut(m, "deleted")}
        BY <1>3, <2>2 DEF Disconnect, Delete, TypeOK
      <3>2. ~InUse(m)
        BY <3>1 DEF AfterCut
      <3> QED
        BY <2>1, <3>1, <3>2 DEF Connected, NoTokens, InUse
    <2>3. CASE w # m
      <3>1. conn'[m] = conn[m] /\ cut'[m] = cut[m]
        BY <1>3, <2>3 DEF Disconnect, Delete, TypeOK
      <3> QED
        BY <1>1, <2>1, <3>1
    <2> QED
      BY <2>2, <2>3
  (* The OAuth callback uses no row, and its save is a new consent. *)
  <1>4. ASSUME NEW h \in Handlers, NEW j, Goes(h, j), j.at \notin UseStages,
               UNCHANGED <<conn, cut>>
        PROVE  ~Connected(m)' /\ ~InUse(m)'
    <2>1. \A g \in Handlers : job'[g] = IF g = h THEN j ELSE job[g]
      BY <1>4 DEF Goes, TypeOK
    <2> QED
      BY <1>1, <1>4, <2>1
  <1>5. ASSUME NEW h \in Handlers, CallbackStore(h) PROVE ~Connected(m)' /\ ~InUse(m)'
    <2>1. job[h] \in StoreJob
      BY <1>a, <1>5, JobShapes DEF CallbackStore
    <2>2. job[h].mailbox # m
      BY <1>5, <2>1 DEF CallbackStore, StoreJob, TypeOK
    <2>3. conn'[m] = conn[m] /\ cut'[m] = cut[m]
      BY <1>5, <2>1, <2>2 DEF CallbackStore, StoreJob, TypeOK
    <2>4. \A g \in Handlers : job'[g] = IF g = h THEN Idle ELSE job[g]
      BY <1>5 DEF CallbackStore, Answers, Goes, TypeOK
    <2> QED
      BY <1>1, <2>3, <2>4 DEF Idle, UseStages
  <1>6. ASSUME NEW h \in Handlers, Callback(h) PROVE ~Connected(m)' /\ ~InUse(m)'
    <2>1. CASE CallbackStore(h)
      BY <1>5, <2>1
    <2>2. CASE ~CallbackStore(h)
      <3>1. UNCHANGED <<conn, cut>>
        BY <1>6, <2>2 DEF Callback, CallbackState, CallbackBurn, CallbackRefused,
           CallbackExchange, CallbackExisting, tables, history
      <3>2. CASE \E b \in Browsers, s \in States : CallbackState(h, b, s)
        BY <1>4, <3>1, <3>2 DEF CallbackState, UseStages
      <3>3. CASE CallbackBurn(h)
        <4>1. job[h] \in CallbackJob
          BY <1>a, <3>3, JobShapes DEF CallbackBurn
        <4> QED
          BY <1>4, <3>1, <3>3, <4>1 DEF CallbackBurn, CallbackJob, UseStages
      <3>4. CASE CallbackRefused(h)
        BY <1>4, <3>1, <3>4 DEF CallbackRefused, Answers, Idle, UseStages
      <3>5. CASE \E w \in Mailboxes, offline \in BOOLEAN : CallbackExchange(h, w, offline)
        BY <1>4, <3>1, <3>5 DEF CallbackExchange, UseStages
      <3>6. CASE CallbackExisting(h)
        BY <1>4, <3>1, <3>6 DEF CallbackExisting, Answers, Idle, UseStages
      <3> QED
        BY <1>6, <2>2, <3>2, <3>3, <3>4, <3>5, <3>6 DEF Callback
    <2> QED
      BY <2>1, <2>2
  (* A request that uses a Workspace began when it was connected. *)
  <1>7. ASSUME NEW h \in Handlers, NEW w \in Mailboxes, UseStart(h, w)
        PROVE  ~Connected(m)' /\ ~InUse(m)'
    <2>1. UNCHANGED <<conn, cut>>
      BY <1>7 DEF UseStart, tables, history
    <2>2. w # m
      BY <1>7, <2>1 DEF UseStart, Quiet
    <2>3. \A g \in Handlers : g # h => job'[g] = job[g]
      BY <1>7 DEF UseStart, Goes, TypeOK
    <2>4. job'[h].mailbox = w
      BY <1>7 DEF UseStart, Goes, TypeOK
    <2> QED
      BY <1>1, <2>1, <2>2, <2>3, <2>4
  <1>8. ASSUME NEW h \in Handlers, RefreshAnswer(h) \/ UseSave(h) \/ UseEnd(h)
        PROVE  ~Connected(m)' /\ ~InUse(m)'
    <2>1. job[h] \in UseJob
      BY <1>a, <1>8, JobShapes DEF RefreshAnswer, UseSave, UseEnd, UseStages
    <2>2. UNCHANGED cut /\ job[h].mailbox # m
      BY <1>8, <2>1 DEF RefreshAnswer, UseSave, UseEnd, history, Quiet, InUse, UseJob
    <2>3. conn'[m] = conn[m]
      BY <1>8, <2>1, <2>2 DEF RefreshAnswer, UseSave, UseEnd, tables, TypeOK, UseJob
    <2>4. \A g \in Handlers : g # h => job'[g] = job[g]
      BY <1>8 DEF RefreshAnswer, UseSave, UseEnd, Goes, TypeOK
    <2>5. job'[h] = Idle \/ job'[h].mailbox = job[h].mailbox
      <3>1. CASE RefreshAnswer(h)
        BY <2>1, <3>1 DEF RefreshAnswer, Goes, TypeOK, UseJob
      <3>2. CASE UseSave(h)
        BY <2>1, <3>2 DEF UseSave, Goes, TypeOK, UseJob
      <3>3. CASE UseEnd(h)
        <4>1. job'[h] = Idle \/ job'[h] = [job[h] EXCEPT !.at = "refresh", !.retried = TRUE]
          BY <3>3 DEF UseEnd, Goes, TypeOK
        <4> QED
          BY <2>1, <4>1 DEF UseJob
      <3> QED
        BY <1>8, <3>1, <3>2, <3>3
    <2> QED
      BY <1>1, <2>2, <2>3, <2>4, <2>5 DEF Idle, UseStages
  <1>9. CASE Crash
    BY <1>1, <1>9 DEF Crash, tables, history, Idle, UseStages
  <1> QED
    BY <1>2, <1>3, <1>6, <1>7, <1>8, <1>9
    DEF Next, Use, FlowStart, StateExpire, CookieExpire, vars, tables, history

-----------------------------------------------------------------------------
TokensInv == TypeOK /\ OwnTokens /\ Flows /\ Quiet

LEMMA TokensInvariant == Spec => []TokensInv
  <1>1. Init => TokensInv
    BY TokensAssumption DEF Init, TokensInv, TypeOK, OwnTokens, HoldsOwn, Flows, Remembers,
       Quiet, Job, Idle, UseStages
  <1>2. TokensInv /\ [Next]_vars => TokensInv'
    BY TypeStep, TokenStep, FlowStep, QuietStep DEF TokensInv
  <1> QED
    BY <1>1, <1>2, PTL DEF Spec

(* TypeOK: every reachable state is typed; in particular a stored row has an *)
(* access token only beside a refresh token.                                 *)
THEOREM TokensTypeCorrect == Spec => []TypeOK
  BY TokensInvariant, PTL DEF TokensInv

(* TokensMatchMailbox: what is stored for a mailbox, and what a request for  *)
(* it sends to Google, are tokens of that mailbox's account, with any number *)
(* of flows, accounts and refreshes at once and crashes anywhere.            *)
THEOREM TokensAreOfTheMailbox == Spec => []TokensMatchMailbox
  <1>1. TokensInv => TokensMatchMailbox
    BY DEF TokensInv, OwnTokens, HoldsOwn, TokensMatchMailbox
  <1> QED
    BY <1>1, TokensInvariant, PTL

(* FlowKeepsItsMailbox: a flow that was started for a saved Workspace saves  *)
(* that Workspace's tokens or none, whichever of row and cookie told it.     *)
THEOREM FlowsKeepTheirMailbox == Spec => []FlowKeepsItsMailbox
  <1>1. TokensInv => FlowKeepsItsMailbox
    BY DEF TokensInv, Flows, Remembers, FlowKeepsItsMailbox
  <1> QED
    BY <1>1, TokensInvariant, PTL

(* QuietCutSticks: a Workspace that is disconnected or deleted while no      *)
(* request uses it has no tokens until the user's next consent.              *)
THEOREM QuietCutsStick == Spec => []QuietCutSticks
  <1>1. TokensInv => QuietCutSticks
    BY DEF TokensInv, Quiet, QuietCutSticks
  <1> QED
    BY <1>1, TokensInvariant, PTL

=============================================================================
