------------------------ MODULE AgentIdentityProofs ------------------------
(***************************************************************************)
(* Proofs about AgentIdentity, for any number of agents, keys, links,      *)
(* concurrent handlers and downloads.                                      *)
(***************************************************************************)
EXTENDS AgentIdentity, TLAPS

(* An agent that is there, or that a handler is about to save, was created, *)
(* and the request that created it is on record.                            *)
Known ==
    /\ \A a \in Agents : Present(a) => a \in created
    /\ \A a \in created : asked[a] # None
    /\ \A h \in Handlers : job[h].at = "save" => job[h].agent \in created

(* A link in the table has been generated, is one agent's, and is not yet   *)
(* deleted or replaced; a download that has it in hand too late is about to *)
(* see that it expired: the strengthening that makes NoLateDownload         *)
(* inductive.                                                               *)
LinksFresh ==
    /\ \A a \in Agents : installToken[a] # None => installToken[a] \in issued \ spent
    /\ \A a, b \in Agents : installToken[a] # None /\ installToken[a] = installToken[b] => a = b
    /\ spent \subseteq issued
    /\ \A d \in Downloads : dl[d].at = "burn" =>
          dl[d].link \in issued /\ (dl[d].late => dl[d].link \in expired)
    /\ \A d \in Downloads : dl[d].at \in {"burn", "agent", "key"} => dl[d].agent \in Agents

IdentityInv == TypeOK /\ Known /\ LinksFresh /\ NoLateDownload

-----------------------------------------------------------------------------
(* A record of Job at a given step is a record of that handler. *)
LEMMA JobKinds ==
    ASSUME NEW j \in Job
    PROVE  /\ j.at = "save" => j \in EditJob
           /\ j.at = "read" => j \in MarkJob
           /\ j.at = "write" => j \in WriteJob
  BY DEF Job, Idle, EditJob, MarkJob, WriteJob

(* A handler that moves on to locals of some handler leaves job typed, and  *)
(* the other handlers where they were.                                      *)
LEMMA GoesTyped ==
    ASSUME TypeOK, NEW h \in Handlers, NEW j \in Job, Goes(h, j)
    PROVE  /\ job' \in [Handlers -> Job]
           /\ job'[h] = j
           /\ \A g \in Handlers \ {h} : job'[g] = job[g]
  BY DEF TypeOK, Goes

(* An edit of a row is a row, as long as a key is left for a rotation. *)
LEMMA EditedIsRow ==
    ASSUME TypeOK, NEW copy \in Row, NEW kind \in Kinds, kind = "rotate" => lastKey < MaxKey
    PROVE  Edited(copy, kind) \in Row
<1>1. kind = "rotate" => lastKey + 1 \in Keys
  BY IdentityAssumption DEF TypeOK, Keys
<1> QED BY <1>1 DEF Edited, Row, Kinds

(* The warning that follows an edit is a job of a handler that is not yet   *)
(* about to write.                                                          *)
LEMMA AfterSaveIsJob ==
    ASSUME NEW a \in Agents, NEW kind \in Kinds
    PROVE  AfterSave(a, kind) \in Job /\ AfterSave(a, kind).at \in {"idle", "read"}
<1>1. CASE kind = "rename"
  BY <1>1 DEF AfterSave, Marking, Job, MarkJob, Reasons
<1>2. CASE kind = "rotate"
  BY <1>2 DEF AfterSave, Marking, Job, MarkJob, Reasons
<1>3. CASE kind \in {"enable", "suspend"}
  BY <1>3 DEF AfterSave, Job, Idle
<1> QED BY <1>1, <1>2, <1>3 DEF Kinds

(* What a handler misses is columns and reasons. *)
LEMMA MissedTyped ==
    ASSUME TypeOK, NEW a \in Agents, NEW columns \in SUBSET Columns, NEW stale \in SUBSET Reasons,
           NEW g \in Handlers
    PROVE  EditedFor(g, a, columns) \subseteq Columns /\ WarnedFor(g, a, stale) \subseteq Reasons
  BY DEF TypeOK, EditedFor, WarnedFor

LEMMA SetsTyped == \A kind : Sets(kind) \subseteq Columns
  BY DEF Sets, Columns

LEMMA InitIdentityInv == Init => IdentityInv
<1> SUFFICES ASSUME Init PROVE IdentityInv
  OBVIOUS
<1>1. TypeOK
  BY IdentityAssumption DEF Init, TypeOK, Job, Download
<1>2. Known /\ LinksFresh /\ NoLateDownload
  BY DEF Init, Known, LinksFresh, NoLateDownload, Present, Idle, Fetching
<1> QED BY <1>1, <1>2 DEF IdentityInv

-----------------------------------------------------------------------------
(* Steps of the console that no handler has to remember anything for. *)
LEMMA SingleStatements ==
    ASSUME IdentityInv, NEW a \in Agents,
           \/ AgentCreate(a) \/ AgentDelete(a) \/ WarningDismiss(a)
           \/ \E on \in BOOLEAN : FirewallSet(a, on)
           \/ \E l \in Links : LinkIssue(a, l)
           \/ \E l \in Links : LinkExpire(l)
    PROVE  IdentityInv'
<1> USE DEF IdentityInv
<1>1. CASE AgentCreate(a)
  <2>1. lastKey' \in Keys /\ lastKey' \in 0..MaxKey
    BY <1>1, IdentityAssumption DEF AgentCreate, TypeOK, Keys
  <2>2. TypeOK'
    BY <1>1, <2>1 DEF AgentCreate, TypeOK, Row, Setting
  <2>3. asked'[a] # None /\ row'[a] # None
    <3>1. [key |-> lastKey', enabled |-> TRUE] \in Setting
      BY <2>1 DEF Setting
    <3>2. asked'[a] = [key |-> lastKey', enabled |-> TRUE]
      BY <1>1 DEF AgentCreate, TypeOK
    <3>3. row'[a] \in Row
      BY <1>1, <2>1 DEF AgentCreate, TypeOK, Row
    <3> QED BY <3>1, <3>2, <3>3, IdentityAssumption
  <2>4. Known'
    BY <1>1, <2>3 DEF AgentCreate, Known, Present, TypeOK
  <2>5. LinksFresh' /\ NoLateDownload'
    BY <1>1 DEF AgentCreate, LinksFresh, NoLateDownload
  <2> QED BY <2>2, <2>4, <2>5
<1>2. CASE AgentDelete(a)
  <2>1. TypeOK' /\ Known'
    BY <1>2 DEF AgentDelete, TypeOK, Known, Present, LinkOf, generated, edits
  <2>2. LinksFresh' /\ NoLateDownload'
    <3>1. /\ installToken' = [installToken EXCEPT ![a] = None]
          /\ spent' = spent \union LinkOf(a) /\ UNCHANGED <<issued, expired, dl>>
          /\ installToken \in [Agents -> Links \union {None}]
      BY <1>2 DEF AgentDelete, TypeOK, generated
    <3> QED BY <3>1 DEF LinksFresh, NoLateDownload, LinkOf
  <2> QED BY <2>1, <2>2
<1>3. CASE WarningDismiss(a)
  <2>1. TypeOK'
    BY <1>3 DEF WarningDismiss, TypeOK, Row, Present, generated, history, edits
  <2> QED BY <1>3, <2>1 DEF WarningDismiss, TypeOK, Known, LinksFresh, NoLateDownload, Present,
                            generated, history, edits
<1>4. CASE \E on \in BOOLEAN : FirewallSet(a, on)
  <2>1. TypeOK'
    BY <1>4 DEF FirewallSet, TypeOK, Row, Present, generated, history, edits
  <2> QED BY <1>4, <2>1 DEF FirewallSet, TypeOK, Known, LinksFresh, NoLateDownload, Present,
                            generated, history, edits
<1>5. ASSUME NEW l \in Links, LinkIssue(a, l)  PROVE IdentityInv'
  <2>1. TypeOK' /\ Known'
    BY <1>5 DEF LinkIssue, TypeOK, Known, Present, LinkOf, edits
  <2>2. LinksFresh' /\ NoLateDownload'
    <3>1. /\ installToken' = [installToken EXCEPT ![a] = l]
          /\ l \in Links \ issued /\ issued' = issued \union {l}
          /\ spent' = spent \union LinkOf(a) /\ UNCHANGED <<expired, dl>>
          /\ installToken \in [Agents -> Links \union {None}]
      BY <1>5 DEF LinkIssue, TypeOK
    <3> QED BY <3>1 DEF LinksFresh, NoLateDownload, LinkOf
  <2> QED BY <2>1, <2>2
<1>6. CASE \E l \in Links : LinkExpire(l)
  BY <1>6 DEF LinkExpire, TypeOK, Known, LinksFresh, NoLateDownload, Present, tables, history, edits
<1> QED BY <1>1, <1>2, <1>3, <1>4, <1>5, <1>6

(* Steps of a handler that has loaded something. *)
LEMMA HandlerSteps ==
    ASSUME IdentityInv, NEW h \in Handlers,
           \/ \E a \in Agents, kind \in Kinds : EditLoad(h, a, kind)
           \/ EditSave(h)
           \/ \E ids \in SUBSET Agents, reason \in ContentReasons : ContentChange(h, ids, reason)
           \/ MarkRead(h) \/ MarkWrite(h)
    PROVE  IdentityInv'
<1> USE DEF IdentityInv
<1>1. ASSUME NEW j \in Job, Goes(h, j), j.at # "save", UNCHANGED <<tables, generated, dl, history>>
      PROVE  IdentityInv'
  BY <1>1, GoesTyped DEF TypeOK, Known, LinksFresh, NoLateDownload, Present, tables, generated, history, edits
<1>2. ASSUME NEW a \in Agents, NEW kind \in Kinds, EditLoad(h, a, kind)  PROVE IdentityInv'
  <2> DEFINE j == [at |-> "save", agent |-> a, copy |-> row[a], kind |-> kind]
  <2>1. j \in Job /\ j.agent \in created
    BY <1>2 DEF EditLoad, TypeOK, Known, Present, Job, EditJob
  <2>2. Goes(h, j) /\ UNCHANGED <<tables, generated, dl, history>>
    BY <1>2 DEF EditLoad
  <2> HIDE DEF j
  <2>3. TypeOK' /\ Known'
    BY <2>1, <2>2, GoesTyped DEF TypeOK, Known, Present, tables, generated, history, edits
  <2> QED BY <2>2, <2>3 DEF LinksFresh, NoLateDownload, tables, generated, history, edits
<1>3. CASE EditSave(h)
  <2> DEFINE j == job[h]
             new == Edited(j.copy, j.kind)
             next == AfterSave(j.agent, j.kind)
  <2>1. j \in EditJob /\ j.agent \in created
    BY <1>3, JobKinds DEF EditSave, TypeOK, Known
  <2>2. j.agent \in Agents /\ j.copy \in Row /\ j.kind \in Kinds
    BY <2>1 DEF EditJob
  <2>3. new \in Row
    BY <1>3, <2>2, EditedIsRow DEF EditSave
  <2>4. next \in Job /\ next.at # "save"
    BY <2>2, AfterSaveIsJob
  <2>5. lastKey' \in 0..MaxKey /\ (j.kind = "rotate" => lastKey' \in Keys)
    BY <1>3, IdentityAssumption DEF EditSave, TypeOK, Keys
  <2>6. asked[j.agent] \in Setting
    BY <2>1, <2>2 DEF TypeOK, Known
  <2>7. /\ asked' \in [Agents -> Setting \union {None}]
        /\ \A a \in created : asked'[a] # None
    <3> DEFINE k == IF j.kind = "rotate" THEN lastKey' ELSE asked[j.agent].key
               e == IF j.kind \in {"enable", "suspend"} THEN j.kind = "enable"
                    ELSE asked[j.agent].enabled
    <3>1. [key |-> k, enabled |-> e] \in Setting
      BY <2>5, <2>6 DEF Setting
    <3>2. asked' = [asked EXCEPT ![j.agent] = [key |-> k, enabled |-> e]]
      BY <1>3, <2>2 DEF EditSave, TypeOK
    <3>3. [key |-> k, enabled |-> e] # None
      BY <3>1, IdentityAssumption
    <3> QED BY <3>1, <3>2, <3>3 DEF TypeOK, Known
  <2>8. row' = [row EXCEPT ![j.agent] = new] /\ row' \in [Agents -> Row \union {None}]
    BY <1>3, <2>2, <2>3 DEF EditSave, TypeOK
  <2>9. Goes(h, next) /\ UNCHANGED <<installToken, created, issued, expired, dl, spent>>
    BY <1>3 DEF EditSave
  <2>9a. /\ edited' \in [Handlers -> SUBSET Columns]
         /\ warned' \in [Handlers -> SUBSET Reasons]
         /\ undone' \in [Agents -> SUBSET Columns]
    <3>1. /\ edited' = [g \in Handlers |-> IF g = h THEN {} ELSE EditedFor(g, j.agent, Sets(j.kind))]
          /\ warned' = [g \in Handlers |-> IF g = h THEN {} ELSE WarnedFor(g, j.agent, new.stale)]
          /\ undone' = [undone EXCEPT ![j.agent] = (undone[j.agent] \union edited[h]) \ Sets(j.kind)]
          /\ undone \in [Agents -> SUBSET Columns] /\ edited[h] \in SUBSET Columns
      BY <1>3, <2>2 DEF EditSave, TypeOK
    <3>2. new.stale \in SUBSET Reasons /\ Sets(j.kind) \in SUBSET Columns
      BY <2>3, SetsTyped DEF Row
    <3>3. \A g \in Handlers : /\ EditedFor(g, j.agent, Sets(j.kind)) \subseteq Columns
                             /\ WarnedFor(g, j.agent, new.stale) \subseteq Reasons
      BY <2>2, <3>2, MissedTyped
    <3> QED BY <2>2, <3>1, <3>2, <3>3
  <2> HIDE DEF next, new
  <2>10. TypeOK'
    BY <2>4, <2>5, <2>7, <2>8, <2>9, <2>9a, GoesTyped DEF TypeOK
  <2>11. Known'
    BY <2>1, <2>2, <2>4, <2>7, <2>8, <2>9, GoesTyped DEF TypeOK, Known, Present
  <2> QED BY <2>9, <2>10, <2>11 DEF LinksFresh, NoLateDownload
<1>4. ASSUME NEW ids \in SUBSET Agents, NEW reason \in ContentReasons, ContentChange(h, ids, reason)
      PROVE  IdentityInv'
  <2>1. [at |-> "read", todo |-> ids, reason |-> reason] \in Job
    BY DEF Job, MarkJob, Reasons
  <2> QED BY <1>1, <1>4, <2>1 DEF ContentChange
<1>5. CASE MarkRead(h)
  <2> DEFINE j == job[h]
  <2>1. j \in MarkJob
    BY <1>5, JobKinds DEF MarkRead, TypeOK
  <2>2. PICK a \in j.todo :
          Goes(h, IF Present(a)
                  THEN [at |-> "write", todo |-> j.todo \ {a}, reason |-> j.reason,
                        agent |-> a, stale |-> row[a].stale \union {j.reason}]
                  ELSE Idle)
    BY <1>5 DEF MarkRead
  <2>3. Present(a) => row[a].stale \subseteq Reasons
    BY <2>1 DEF MarkJob, TypeOK, Present, Row
  <2>4. Present(a) => [at |-> "write", todo |-> j.todo \ {a}, reason |-> j.reason,
                       agent |-> a, stale |-> row[a].stale \union {j.reason}] \in Job
    BY <2>1, <2>3 DEF MarkJob, WriteJob, Job
  <2>5. Idle \in Job /\ Idle.at # "save"
    BY DEF Job, Idle
  <2>6. CASE Present(a)
    BY <1>1, <1>5, <2>2, <2>4, <2>6 DEF MarkRead
  <2>7. CASE ~Present(a)
    BY <1>1, <1>5, <2>2, <2>5, <2>7 DEF MarkRead
  <2> QED BY <2>6, <2>7
<1>6. CASE MarkWrite(h)
  <2> DEFINE j == job[h]
             next == IF j.todo = {} THEN Idle
                     ELSE [at |-> "read", todo |-> j.todo, reason |-> j.reason]
  <2>1. j \in WriteJob
    BY <1>6, JobKinds DEF MarkWrite, TypeOK
  <2>2. next \in Job /\ next.at # "save"
    BY <2>1 DEF WriteJob, MarkJob, Job, Idle
  <2>3. Goes(h, next) /\ UNCHANGED <<installToken, generated, dl, asked, edited, undone, spent>>
    BY <1>6 DEF MarkWrite
  <2>3a. warned' \in [Handlers -> SUBSET Reasons]
    <3>1. j.agent \in Agents /\ j.stale \in SUBSET Reasons
      BY <2>1 DEF WriteJob
    <3>2. \A g \in Handlers : WarnedFor(g, j.agent, j.stale) \subseteq Reasons
      BY <3>1, MissedTyped
    <3> QED BY <1>6, <3>2 DEF MarkWrite, TypeOK
  <2>4. /\ row' \in [Agents -> Row \union {None}]
        /\ \A a \in Agents : row'[a] # None => Present(a)
    <3>1. CASE Present(j.agent)
      BY <1>6, <2>1, <3>1 DEF MarkWrite, WriteJob, TypeOK, Present, Row
    <3>2. CASE ~Present(j.agent)
      BY <1>6, <3>2 DEF MarkWrite, TypeOK, Present
    <3> QED BY <3>1, <3>2
  <2> HIDE DEF next
  <2>5. TypeOK' /\ Known'
    BY <2>2, <2>3, <2>3a, <2>4, GoesTyped DEF TypeOK, Known, Present, generated
  <2> QED BY <2>3, <2>5 DEF LinksFresh, NoLateDownload, generated
<1> QED BY <1>2, <1>3, <1>4, <1>5, <1>6

(* Steps of a download. *)
LEMMA DownloadSteps ==
    ASSUME IdentityInv, NEW d \in Downloads, DownloadStep(d)
    PROVE  IdentityInv'
<1> USE DEF IdentityInv
<1>1. ASSUME dl' \in [Downloads -> Download], UNCHANGED <<tables, generated, job, history>>,
             \A e \in Downloads \ {d} : dl'[e] = dl[e],
             dl'[d].at = "burn" =>
                 dl'[d].link \in issued /\ (dl'[d].late => dl'[d].link \in expired),
             dl'[d].at \in {"burn", "agent", "key"} => dl'[d].agent \in Agents,
             dl'[d].at \in (Fetching \ {"burn"}) \union {"served"} => ~dl'[d].late
      PROVE  IdentityInv'
  BY <1>1 DEF TypeOK, Known, LinksFresh, NoLateDownload, Present, tables, generated, history, edits
<1>2. ASSUME NEW stage \in {"agent", "key", "build", "served", "refused"},
             dl[d].at \in Fetching \union {"waiting"}, Advances(d, stage)
      PROVE  /\ dl' \in [Downloads -> Download]
             /\ \A e \in Downloads \ {d} : dl'[e] = dl[e]
             /\ dl'[d].at = stage /\ dl'[d].late = dl[d].late /\ dl'[d].agent = dl[d].agent
  BY <1>2 DEF Advances, TypeOK, Download, Fetching
<1>3. ASSUME dl[d].at \in Fetching \union {"waiting"}, Refused(d),
             UNCHANGED <<tables, generated, job, history>>
      PROVE  IdentityInv'
  BY <1>1, <1>2, <1>3 DEF Refused, Advances, Fetching
<1>4. ASSUME NEW l \in Links, DownloadByLink(d, l)  PROVE IdentityInv'
  <2>1. ASSUME NEW a \in Agents, installToken[a] = l,
               dl' = [dl EXCEPT ![d] = [at |-> "burn", link |-> l, agent |-> a, key |-> None,
                                        late |-> l \in spent \union expired]]
        PROVE  IdentityInv'
    <3>1. l \notin spent
      BY <2>1, IdentityAssumption DEF LinksFresh
    <3>2. dl' \in [Downloads -> Download]
      BY <2>1 DEF TypeOK, Download, Fetching
    <3> QED BY <1>1, <1>4, <2>1, <3>1, <3>2 DEF DownloadByLink, TypeOK
  <2> QED BY <1>3, <1>4, <2>1 DEF DownloadByLink
<1>5. CASE DownloadBurn(d)
  <2> DEFINE l == dl[d].link
  <2>1. /\ dl' \in [Downloads -> Download]
        /\ \A e \in Downloads \ {d} : dl'[e] = dl[e]
        /\ dl'[d].at \in {"agent", "refused"} /\ dl'[d].late = dl[d].late
        /\ dl'[d].agent = dl[d].agent
    BY <1>2, <1>5 DEF DownloadBurn, Refused, Advances, Fetching
  <2>2. /\ l \in issued /\ l \in Links /\ dl[d].agent \in Agents
        /\ dl[d].late => l \in expired
    BY <1>5 DEF DownloadBurn, LinksFresh, TypeOK
  <2>3. /\ l \in expired => dl'[d].at = "refused"
        /\ UNCHANGED <<row, generated, job, edits>>
    BY <1>2, <1>5 DEF DownloadBurn, Refused, Advances, Fetching
  <2>4. /\ installToken' \in [Agents -> Links \union {None}] /\ spent \subseteq spent'
        /\ spent' \subseteq spent \union {l}
        /\ \A a \in Agents : \/ installToken'[a] = None
                             \/ installToken'[a] = installToken[a] /\ installToken[a] \notin spent' \ spent
    BY <1>5 DEF DownloadBurn, TypeOK
  <2>5. TypeOK' /\ Known'
    BY <2>1, <2>2, <2>3, <2>4 DEF TypeOK, Known, Present, generated, edits
  <2>6. LinksFresh'
    BY <2>1, <2>2, <2>3, <2>4 DEF LinksFresh, TypeOK, generated
  <2>7. NoLateDownload'
    BY <2>1, <2>2, <2>3 DEF NoLateDownload, Fetching
  <2> QED BY <2>5, <2>6, <2>7
<1>6. CASE DownloadAgent(d)
  <2>1. CASE Advances(d, "key")
    BY <1>1, <1>2, <1>6, <2>1 DEF DownloadAgent, Fetching, NoLateDownload, LinksFresh
  <2> QED BY <1>3, <1>6, <2>1 DEF DownloadAgent, Fetching
<1>7. CASE DownloadKey(d)
  <2> DEFINE a == dl[d].agent
  <2>1. CASE Present(a)
    <3>1. dl' = [dl EXCEPT ![d].at = "build", ![d].key = row[a].key]
      BY <1>7, <2>1 DEF DownloadKey
    <3>2. row[a].key \in Keys /\ a \in Agents
      BY <1>7, <2>1 DEF DownloadKey, TypeOK, LinksFresh, Present, Row
    <3>3. /\ dl \in [Downloads -> Download] /\ dl[d].at = "key" /\ ~dl[d].late
          /\ UNCHANGED <<tables, generated, job, history>>
      BY <1>7 DEF DownloadKey, TypeOK, Fetching, NoLateDownload
    <3>4. dl' = [dl EXCEPT ![d] = [dl[d] EXCEPT !.at = "build", !.key = row[a].key]]
      BY <3>1, <3>3
    <3>5. [dl[d] EXCEPT !.at = "build", !.key = row[a].key] \in Download
      BY <3>2, <3>3 DEF Download, Fetching
    <3>6. dl'[d].at = "build" /\ dl'[d].late = dl[d].late
      BY <3>3, <3>4 DEF Download
    <3> QED BY <1>1, <3>3, <3>4, <3>5, <3>6
  <2> QED BY <1>3, <1>7, <2>1 DEF DownloadKey, Fetching
<1>8. CASE DownloadBuild(d)
  <2>1. CASE Advances(d, "served")
    BY <1>1, <1>2, <1>8, <2>1 DEF DownloadBuild, Fetching, NoLateDownload
  <2> QED BY <1>3, <1>8, <2>1 DEF DownloadBuild, Fetching
<1>9. ASSUME NEW k \in 1..lastKey, DownloadByKey(d, k)  PROVE IdentityInv'
  <2>1. k \in Keys
    BY IdentityAssumption DEF TypeOK, Keys
  <2>2. ASSUME NEW a \in Agents,
               dl' = [dl EXCEPT ![d] = [at |-> "build", link |-> None, agent |-> a, key |-> k,
                                        late |-> FALSE]]
        PROVE  IdentityInv'
    BY <1>1, <1>9, <2>1, <2>2 DEF DownloadByKey, TypeOK, Download, Fetching
  <2> QED BY <1>3, <1>9, <2>2 DEF DownloadByKey
<1> QED BY <1>4, <1>5, <1>6, <1>7, <1>8, <1>9 DEF DownloadStep

LEMMA NextIdentityInv == IdentityInv /\ [Next]_vars => IdentityInv'
<1> SUFFICES ASSUME IdentityInv, [Next]_vars PROVE IdentityInv'
  OBVIOUS
<1>1. CASE Console
  BY <1>1, SingleStatements, HandlerSteps DEF Console
<1>2. CASE \E l \in Links : LinkExpire(l)
  BY <1>2 DEF LinkExpire, IdentityInv, TypeOK, Known, LinksFresh, NoLateDownload, Present, tables, history, edits
<1>3. CASE \E d \in Downloads : DownloadStep(d)
  BY <1>3, DownloadSteps
<1>4. CASE Crash
  <2>1. /\ job' \in [Handlers -> Job]
        /\ \A h \in Handlers : job'[h].at # "save"
    BY <1>4 DEF Crash, Job, Idle
  <2>2. /\ dl' \in [Downloads -> Download]
        /\ \A d \in Downloads : \/ dl'[d] = dl[d] /\ dl[d].at \notin Fetching
                               \/ dl'[d].at = "lost"
    BY <1>4 DEF Crash, IdentityInv, TypeOK, Download
  <2>3. /\ UNCHANGED <<tables, generated, asked, undone, spent>>
        /\ edited' \in [Handlers -> SUBSET Columns] /\ warned' \in [Handlers -> SUBSET Reasons]
    BY <1>4 DEF Crash
  <2>4. TypeOK' /\ Known'
    BY <2>1, <2>2, <2>3 DEF IdentityInv, TypeOK, Known, Present, tables, generated
  <2>5. LinksFresh' /\ NoLateDownload'
    BY <2>2, <2>3 DEF IdentityInv, LinksFresh, NoLateDownload, Fetching, tables, generated
  <2> QED BY <2>4, <2>5 DEF IdentityInv
<1>5. CASE UNCHANGED vars
  BY <1>5 DEF vars, tables, generated, history, edits, IdentityInv, TypeOK, Known, LinksFresh,
              NoLateDownload, Present
<1> QED BY <1>1, <1>2, <1>3, <1>4, <1>5 DEF Next

LEMMA IdentityInvariant == Spec => []IdentityInv
  BY InitIdentityInv, NextIdentityInv, PTL DEF Spec

(* Every reachable state of every instance is typed. *)
THEOREM IdentityTypeCorrect == Spec => []TypeOK
<1>1. IdentityInv => TypeOK
  BY DEF IdentityInv
<1> QED BY <1>1, IdentityInvariant, PTL

(* However many downloads and handlers there are and wherever the process   *)
(* stops, a link that was deleted, replaced or had run out when a download  *)
(* looked it up opens nothing.                                              *)
THEOREM SpentLinksStaySpent == Spec => []NoLateDownload
<1>1. IdentityInv => NoLateDownload
  BY DEF IdentityInv
<1> QED BY <1>1, IdentityInvariant, PTL

-----------------------------------------------------------------------------
(* The agent of a handler that holds a copy is an agent. *)
LEMMA CopiedAgents ==
    ASSUME TypeOK, NEW h \in Handlers, job[h].at \in {"save", "write"}
    PROVE  job[h].agent \in Agents
  BY JobKinds DEF TypeOK, EditJob, WriteJob

(* Steps that load no row and save none leave keys and statuses alone, or   *)
(* delete the row, and no handler comes to hold a copy of a row.            *)
LEMMA NoEditSteps ==
    ASSUME TypeOK, [Next]_vars,
           \A a \in Agents : ~AgentCreate(a),
           \A h \in Handlers : ~EditSave(h) /\ \A a \in Agents, kind \in Kinds : ~EditLoad(h, a, kind)
    PROVE  /\ UNCHANGED <<asked, undone>>
           /\ \A a \in Agents : row'[a] # None =>
                 row[a] # None /\ row'[a].key = row[a].key /\ row'[a].enabled = row[a].enabled
           /\ \A h \in Handlers : \/ job'[h] = job[h] /\ edited'[h] = edited[h]
                                  \/ job'[h].at \in {"idle", "read", "write"}
<1> DEFINE Goal ==
           /\ UNCHANGED <<asked, undone>>
           /\ \A a \in Agents : row'[a] # None =>
                 row[a] # None /\ row'[a].key = row[a].key /\ row'[a].enabled = row[a].enabled
           /\ \A h \in Handlers : \/ job'[h] = job[h] /\ edited'[h] = edited[h]
                                  \/ job'[h].at \in {"idle", "read", "write"}
<1>0. row \in [Agents -> Row \union {None}] /\ job \in [Handlers -> Job]
  BY DEF TypeOK
<1>1. ASSUME UNCHANGED <<row, job, edits>> PROVE Goal
  BY <1>1 DEF edits
<1>2. ASSUME NEW a \in Agents, AgentDelete(a) PROVE Goal
  BY <1>0, <1>2 DEF AgentDelete, history, edits
<1>3. ASSUME NEW a \in Agents, WarningDismiss(a) PROVE Goal
  <2>1. row' = [row EXCEPT ![a].stale = {}] /\ row[a] \in Row /\ UNCHANGED <<asked, undone, edited, job>>
    BY <1>0, <1>3 DEF WarningDismiss, Present, history, edits
  <2>2. [row[a] EXCEPT !.stale = {}].key = row[a].key /\ [row[a] EXCEPT !.stale = {}].enabled = row[a].enabled
    BY <2>1 DEF Row
  <2> QED BY <1>0, <2>1, <2>2, IdentityAssumption
<1>4. ASSUME NEW a \in Agents, NEW on \in BOOLEAN, FirewallSet(a, on) PROVE Goal
  <2>1. row' = [row EXCEPT ![a].firewall = on] /\ row[a] \in Row /\ UNCHANGED <<asked, undone, edited, job>>
    BY <1>0, <1>4 DEF FirewallSet, Present, history, edits
  <2>2. [row[a] EXCEPT !.firewall = on].key = row[a].key /\ [row[a] EXCEPT !.firewall = on].enabled = row[a].enabled
    BY <2>1 DEF Row
  <2> QED BY <1>0, <2>1, <2>2, IdentityAssumption
<1>5. ASSUME NEW a \in Agents, NEW l \in Links, LinkIssue(a, l) PROVE Goal
  BY <1>1, <1>5 DEF LinkIssue, history, edits
<1>6. ASSUME NEW h \in Handlers, NEW ids \in SUBSET Agents, NEW reason \in ContentReasons,
             ContentChange(h, ids, reason)
      PROVE  Goal
  BY <1>0, <1>6 DEF ContentChange, Goes, tables, history, edits
<1>7. ASSUME NEW h \in Handlers, MarkRead(h) PROVE Goal
  <2>1. UNCHANGED <<row, asked, undone, edited>> /\ \E j : Goes(h, j) /\ j.at \in {"idle", "write"}
    BY <1>7 DEF MarkRead, Idle, tables, history, edits
  <2> QED BY <1>0, <2>1 DEF Goes
<1>8. ASSUME NEW h \in Handlers, MarkWrite(h) PROVE Goal
  <2>1. job[h] \in WriteJob
    BY <1>0, <1>8, JobKinds DEF MarkWrite
  <2>2. UNCHANGED <<asked, undone, edited>> /\ \E j : Goes(h, j) /\ j.at \in {"idle", "read"}
    BY <1>8 DEF MarkWrite, Idle, history, edits
  <2>3. \A a \in Agents : row'[a] # None =>
            row[a] # None /\ row'[a].key = row[a].key /\ row'[a].enabled = row[a].enabled
    <3>1. CASE ~Present(job[h].agent)
      BY <1>8, <3>1 DEF MarkWrite
    <3>2. CASE Present(job[h].agent)
      <4> DEFINE a == job[h].agent
                 new == [row[a] EXCEPT !.stale = job[h].stale]
      <4>1. a \in Agents /\ row[a] \in Row /\ row' = [row EXCEPT ![a] = new]
        BY <1>0, <1>8, <2>1, <3>2 DEF MarkWrite, WriteJob, Present
      <4>2. new.key = row[a].key /\ new.enabled = row[a].enabled
        BY <4>1 DEF Row
      <4> QED BY <1>0, <4>1, <4>2, IdentityAssumption
    <3> QED BY <3>1, <3>2
  <2> QED BY <1>0, <2>2, <2>3 DEF Goes
<1>9. CASE \E l \in Links : LinkExpire(l)
  BY <1>1, <1>9 DEF LinkExpire, tables, history, edits
<1>10. CASE \E d \in Downloads : DownloadStep(d)
  BY <1>1, <1>10 DEF DownloadStep, DownloadByLink, DownloadByKey, DownloadBurn, DownloadAgent,
                     DownloadKey, DownloadBuild, tables, history, edits
<1>11. CASE Crash
  BY <1>11 DEF Crash, tables, history, edits, Idle
<1>12. CASE UNCHANGED vars
  BY <1>1, <1>12 DEF vars, tables, history, edits
<1> QED
  BY <1>2, <1>3, <1>4, <1>5, <1>6, <1>7, <1>8, <1>9, <1>10, <1>11, <1>12 DEF Next, Console

-----------------------------------------------------------------------------
(* Keys and statuses: what a handler has copied from a row is still what    *)
(* the row was last given on request, or has been set since, or had come    *)
(* undone.                                                                  *)
CopyCurrent(h) ==
    job[h].at = "save" =>
        LET a == job[h].agent IN
        /\ job[h].copy.key = asked[a].key \/ "key" \in edited[h] \union undone[a]
        /\ job[h].copy.enabled = asked[a].enabled \/ "enabled" \in edited[h] \union undone[a]

StatusInv == LastEditStands /\ \A h \in Handlers : CopyCurrent(h)

LEMMA NextStatusInv == StatusInv /\ IdentityInv /\ [Next]_vars => StatusInv'
<1> SUFFICES ASSUME StatusInv, IdentityInv, [Next]_vars PROVE StatusInv'
  OBVIOUS
<1>0. /\ TypeOK /\ Known
      /\ row \in [Agents -> Row \union {None}] /\ job \in [Handlers -> Job]
      /\ asked \in [Agents -> Setting \union {None}] /\ undone \in [Agents -> SUBSET Columns]
      /\ \A h \in Handlers : job[h].at = "save" => job[h].agent \in Agents
  BY CopiedAgents DEF IdentityInv, TypeOK
<1>1. CASE /\ \A a \in Agents : ~AgentCreate(a)
           /\ \A h \in Handlers : ~EditSave(h) /\ \A a \in Agents, kind \in Kinds : ~EditLoad(h, a, kind)
  BY <1>0, <1>1, NoEditSteps DEF StatusInv, LastEditStands, CopyCurrent, Present
<1>2. ASSUME NEW a \in Agents, AgentCreate(a) PROVE StatusInv'
  <2>1. /\ a \notin created /\ UNCHANGED <<job, edited, undone>>
        /\ row' = [row EXCEPT ![a] = row'[a]] /\ asked' = [asked EXCEPT ![a] = asked'[a]]
        /\ row'[a].key = asked'[a].key /\ row'[a].enabled = asked'[a].enabled
    BY <1>0, <1>2 DEF AgentCreate
  <2>2. LastEditStands'
    BY <1>0, <2>1 DEF StatusInv, LastEditStands, Present
  <2>3. \A h \in Handlers : job[h].at = "save" => job[h].agent # a
    BY <1>0, <2>1 DEF Known
  <2>4. \A h \in Handlers : CopyCurrent(h)'
    BY <1>0, <2>1, <2>3 DEF StatusInv, CopyCurrent
  <2> QED BY <2>2, <2>4 DEF StatusInv
<1>3. ASSUME NEW h \in Handlers, NEW a \in Agents, NEW kind \in Kinds, EditLoad(h, a, kind)
      PROVE  StatusInv'
  <2>1. /\ UNCHANGED <<row, asked, edited, undone>> /\ Present(a)
        /\ \A g \in Handlers : job'[g] = IF g = h THEN [at |-> "save", agent |-> a, copy |-> row[a],
                                                        kind |-> kind] ELSE job[g]
    BY <1>0, <1>3 DEF EditLoad, Goes, tables, history, edits
  <2>2. LastEditStands'
    BY <2>1 DEF StatusInv, LastEditStands, Present
  <2>3. \A g \in Handlers : CopyCurrent(g)'
    BY <2>1 DEF StatusInv, LastEditStands, CopyCurrent
  <2> QED BY <2>2, <2>3 DEF StatusInv
<1>4. ASSUME NEW h \in Handlers, EditSave(h) PROVE StatusInv'
  <2> DEFINE j == job[h]
             new == Edited(j.copy, j.kind)
             setting == [key |-> IF j.kind = "rotate" THEN lastKey' ELSE asked[j.agent].key,
                         enabled |-> IF j.kind \in {"enable", "suspend"} THEN j.kind = "enable"
                                     ELSE asked[j.agent].enabled]
  <2>1. j \in EditJob /\ j.at = "save"
    BY <1>0, <1>4, JobKinds DEF EditSave
  <2>2. j.agent \in Agents /\ j.copy \in Row /\ j.kind \in Kinds
    BY <2>1 DEF EditJob
  <2>3. /\ row' = [row EXCEPT ![j.agent] = new]
        /\ asked' = [asked EXCEPT ![j.agent] = setting]
        /\ j.kind = "rotate" => lastKey' = lastKey + 1
        /\ Goes(h, AfterSave(j.agent, j.kind))
        /\ undone' = [undone EXCEPT ![j.agent] = (undone[j.agent] \union edited[h]) \ Sets(j.kind)]
        /\ \A g \in Handlers : g # h => edited'[g] = EditedFor(g, j.agent, Sets(j.kind))
    BY <1>0, <1>4, <2>2 DEF EditSave
  <2>3a. /\ j.kind = "rotate" <=> "key" \in Sets(j.kind)
         /\ j.kind \in {"enable", "suspend"} <=> "enabled" \in Sets(j.kind)
    BY <2>2 DEF Sets, Kinds
  <2>3b. /\ setting.key = asked[j.agent].key \/ "key" \in Sets(j.kind)
         /\ setting.enabled = asked[j.agent].enabled \/ "enabled" \in Sets(j.kind)
    BY <2>3a
  <2>4. /\ new.key = setting.key \/ "key" \in undone'[j.agent]
        /\ new.enabled = setting.enabled \/ "enabled" \in undone'[j.agent]
    <3>1. /\ j.copy.key = asked[j.agent].key \/ "key" \in edited[h] \union undone[j.agent]
          /\ j.copy.enabled = asked[j.agent].enabled \/ "enabled" \in edited[h] \union undone[j.agent]
      BY <2>1 DEF StatusInv, CopyCurrent
    <3>2. /\ new.key = IF j.kind = "rotate" THEN lastKey + 1 ELSE j.copy.key
          /\ new.enabled = IF j.kind \in {"enable", "suspend"} THEN j.kind = "enable"
                           ELSE j.copy.enabled
      BY <2>2 DEF Edited, Row, Kinds
    <3>3. undone'[j.agent] = (undone[j.agent] \union edited[h]) \ Sets(j.kind)
      BY <1>0, <2>2, <2>3
    <3> QED BY <2>3, <2>3a, <3>1, <3>2, <3>3
  <2>5. AfterSave(j.agent, j.kind).at \in {"idle", "read"}
    BY <2>2, AfterSaveIsJob
  <2> HIDE DEF new, setting
  <2>6. LastEditStands'
    BY <1>0, <2>2, <2>3, <2>4 DEF StatusInv, LastEditStands, Present
  <2>7. /\ job'[h].at \in {"idle", "read"}
        /\ \A g \in Handlers : g # h => job'[g] = job[g]
    BY <1>0, <2>3, <2>5 DEF Goes
  <2>8. ASSUME NEW g \in Handlers, g # h, job[g].at = "save"
        PROVE  CopyCurrent(g)'
    <3> DEFINE a == job[g].agent
    <3>1. /\ job'[g] = job[g] /\ a \in Agents
          /\ job[g].copy.key = asked[a].key \/ "key" \in edited[g] \union undone[a]
          /\ job[g].copy.enabled = asked[a].enabled \/ "enabled" \in edited[g] \union undone[a]
          /\ edited'[g] = EditedFor(g, j.agent, Sets(j.kind))
      BY <1>0, <2>3, <2>7, <2>8 DEF StatusInv, CopyCurrent
    <3>2. CASE a = j.agent
      <4>1. /\ asked'[a] = setting /\ undone'[a] = (undone[a] \union edited[h]) \ Sets(j.kind)
            /\ edited'[g] = edited[g] \union Sets(j.kind)
        BY <1>0, <2>3, <2>8, <3>1, <3>2 DEF EditedFor
      <4> QED BY <2>3b, <3>1, <3>2, <4>1 DEF CopyCurrent
    <3>3. CASE a # j.agent
      <4>1. asked'[a] = asked[a] /\ undone'[a] = undone[a] /\ edited'[g] = edited[g]
        BY <1>0, <2>3, <3>1, <3>3 DEF EditedFor
      <4> QED BY <3>1, <4>1 DEF CopyCurrent
    <3> QED BY <3>2, <3>3
  <2>9. \A g \in Handlers : CopyCurrent(g)'
    BY <2>7, <2>8 DEF CopyCurrent
  <2> QED BY <2>6, <2>9 DEF StatusInv
<1> QED BY <1>1, <1>2, <1>3, <1>4

(* For any number of agents, console requests, downloads and restarts: what *)
(* a key was rotated to and a status toggled to stands, unless a request    *)
(* that had loaded the row before saves its copy of it after.               *)
THEOREM EditsStand == Spec => []LastEditStands
<1>1. Init => StatusInv
  BY DEF Init, StatusInv, LastEditStands, Present, CopyCurrent, Idle
<1>2. StatusInv => LastEditStands
  BY DEF StatusInv
<1> QED BY <1>1, <1>2, NextStatusInv, IdentityInvariant, PTL DEF Spec

-----------------------------------------------------------------------------
(* Warnings: a copy has every reason that the row has, but those put there  *)
(* since.                                                                   *)
CopyComplete(j, missed) ==
    /\ j.at = "save" => (Present(j.agent) => row[j.agent].stale \subseteq j.copy.stale \union missed)
    /\ j.at = "write" => (Present(j.agent) => row[j.agent].stale \subseteq j.stale \union missed)

WarningInv == \A h \in Handlers : CopyComplete(job[h], warned[h])

(* A step that adds no reason to a row leaves every copy complete, if no    *)
(* handler comes to hold one.                                               *)
LEMMA FewerReasons ==
    ASSUME TypeOK, WarningInv,
           \A a \in Agents : row'[a] # None =>
               \/ row'[a].stale = {}
               \/ row[a] # None /\ row'[a].stale = row[a].stale,
           \A h \in Handlers : \/ job'[h] = job[h] /\ warned'[h] = warned[h]
                               \/ job'[h].at \in {"idle", "read"}
    PROVE  WarningInv'
<1> SUFFICES ASSUME NEW h \in Handlers PROVE CopyComplete(job[h], warned[h])'
  BY DEF WarningInv
<1>1. CASE job'[h].at \in {"idle", "read"}
  BY <1>1 DEF CopyComplete
<1>2. CASE job'[h] = job[h] /\ warned'[h] = warned[h]
  <2>1. job[h].at \in {"save", "write"} => job[h].agent \in Agents
    BY CopiedAgents
  <2> QED BY <1>2, <2>1 DEF WarningInv, CopyComplete, Present
<1> QED BY <1>1, <1>2

(* A step that leaves the rows alone and moves a handler on to a complete   *)
(* copy.                                                                    *)
LEMMA HandlerCopies ==
    ASSUME TypeOK, WarningInv, NEW h \in Handlers, NEW j, Goes(h, j), UNCHANGED row,
           \A g \in Handlers \ {h} : warned'[g] = warned[g], CopyComplete(j, {})
    PROVE  WarningInv' /\ WarningKept
<1>1. \A g \in Handlers : job'[g] = IF g = h THEN j ELSE job[g]
  BY DEF Goes, TypeOK
<1>2. \A g \in Handlers : CopyComplete(job[g], warned[g])'
  BY <1>1 DEF WarningInv, CopyComplete, Present
<1> QED BY <1>2 DEF WarningInv, WarningKept, Present

(* A handler that writes the row of an agent, and takes away no reason but  *)
(* those put there since it read it.                                        *)
LEMMA HandlerWrites ==
    ASSUME TypeOK, WarningInv, NEW h \in Handlers, job[h].at \in {"save", "write"},
           EditSave(h) \/ MarkWrite(h),
           NEW new \in Row, row' = [row EXCEPT ![job[h].agent] = new],
           Present(job[h].agent) => row[job[h].agent].stale \subseteq new.stale \union warned[h],
           \A g \in Handlers \ {h} : warned'[g] = WarnedFor(g, job[h].agent, new.stale),
           NEW j, Goes(h, j), j.at \in {"idle", "read"}
    PROVE  WarningInv' /\ WarningKept
<1>0. /\ row \in [Agents -> Row \union {None}] /\ job[h].agent \in Agents /\ new # None
  BY CopiedAgents, IdentityAssumption DEF TypeOK
<1>1. job'[h] = j /\ \A g \in Handlers : g # h => job'[g] = job[g]
  BY DEF Goes, TypeOK
<1>2. WarningKept
  <2> SUFFICES ASSUME NEW a \in Agents, Present(a)
               PROVE  \/ row'[a] # None /\ row[a].stale \subseteq row'[a].stale
                      \/ /\ job[h].agent = a
                         /\ row'[a] # None /\ row[a].stale \ row'[a].stale \subseteq warned[h]
    BY DEF WarningKept
  <2> QED BY <1>0 DEF Present
<1>3. CopyComplete(job[h], warned[h])'
  BY <1>1 DEF CopyComplete
<1>4. ASSUME NEW g \in Handlers, g # h PROVE CopyComplete(job[g], warned[g])'
  <2>1. /\ job'[g] = job[g] /\ CopyComplete(job[g], warned[g])
        /\ job[g].at \in {"save", "write"} => job[g].agent \in Agents
    BY <1>1, <1>4, CopiedAgents DEF WarningInv
  <2>2. CASE job[g].at \in {"save", "write"} /\ job[g].agent = job[h].agent
    <3>1. row'[job[g].agent].stale = new.stale
      BY <1>0, <2>2
    <3>2. warned'[g] = warned[g] \union (new.stale \ (IF Present(job[h].agent) THEN row[job[h].agent].stale
                                                      ELSE {}))
      BY <1>4, <2>2 DEF WarnedFor
    <3> QED BY <2>1, <2>2, <3>1, <3>2 DEF CopyComplete
  <2>3. CASE job[g].at \in {"save", "write"} /\ job[g].agent # job[h].agent
    <3>1. row'[job[g].agent] = row[job[g].agent] /\ warned'[g] = warned[g]
      BY <1>0, <1>4, <2>1, <2>3 DEF WarnedFor
    <3> QED BY <2>1, <3>1 DEF CopyComplete, Present
  <2> QED BY <2>1, <2>2, <2>3 DEF CopyComplete
<1> QED BY <1>2, <1>3, <1>4 DEF WarningInv

LEMMA NextWarningInv ==
    WarningInv /\ IdentityInv /\ [Next]_vars => WarningInv' /\ [WarningKept]_vars
<1> SUFFICES ASSUME WarningInv, IdentityInv, [Next]_vars
             PROVE  WarningInv' /\ [WarningKept]_vars
  OBVIOUS
<1>0. TypeOK /\ row \in [Agents -> Row \union {None}] /\ job \in [Handlers -> Job]
  BY DEF IdentityInv, TypeOK
<1>1. ASSUME UNCHANGED row, \A h \in Handlers : \/ job'[h] = job[h] /\ warned'[h] = warned[h]
                                                \/ job'[h].at \in {"idle", "read"}
      PROVE  WarningInv' /\ [WarningKept]_vars
  BY <1>0, <1>1, FewerReasons DEF WarningKept, Present
<1>2. ASSUME NEW a \in Agents, AgentCreate(a) PROVE WarningInv' /\ WarningKept
  <2>1. ~Present(a) /\ row' = [row EXCEPT ![a] = row'[a]] /\ row'[a].stale = {} /\ UNCHANGED <<job, warned>>
    BY <1>0, <1>2 DEF AgentCreate, IdentityInv, Known
  <2>2. WarningInv'
    BY <1>0, <2>1, FewerReasons
  <2> QED BY <1>0, <2>1, <2>2 DEF WarningKept, Present
<1>3. ASSUME NEW a \in Agents, AgentDelete(a) PROVE WarningInv' /\ WarningKept
  <2>1. row' = [row EXCEPT ![a] = None] /\ UNCHANGED <<job, warned>>
    BY <1>3 DEF AgentDelete, edits
  <2>2. WarningInv'
    BY <1>0, <2>1, FewerReasons
  <2> QED BY <1>0, <1>3, <2>1, <2>2 DEF WarningKept, Present
<1>4. ASSUME NEW a \in Agents, WarningDismiss(a) PROVE WarningInv' /\ WarningKept
  <2>1. row' = [row EXCEPT ![a].stale = {}] /\ row[a] \in Row /\ UNCHANGED <<job, warned>>
    BY <1>0, <1>4 DEF WarningDismiss, Present, history, edits
  <2>2. [row[a] EXCEPT !.stale = {}].stale = {}
    BY <2>1 DEF Row
  <2>3. WarningInv'
    BY <1>0, <2>1, <2>2, FewerReasons
  <2> QED BY <1>0, <1>4, <2>1, <2>3 DEF WarningKept, Present
<1>5. ASSUME NEW a \in Agents, NEW on \in BOOLEAN, FirewallSet(a, on) PROVE WarningInv' /\ WarningKept
  <2> DEFINE new == [row[a] EXCEPT !.firewall = on]
  <2>1. row' = [row EXCEPT ![a] = new] /\ row[a] \in Row /\ UNCHANGED <<job, warned>>
    BY <1>0, <1>5 DEF FirewallSet, Present, history, edits
  <2>2. new \in Row /\ new.stale = row[a].stale
    BY <2>1 DEF Row
  <2> HIDE DEF new
  <2>3. WarningInv'
    BY <1>0, <2>1, <2>2, IdentityAssumption, FewerReasons
  <2> QED BY <1>0, <2>1, <2>2, <2>3, IdentityAssumption DEF WarningKept, Present
<1>6. ASSUME NEW a \in Agents, NEW l \in Links, LinkIssue(a, l) PROVE WarningInv' /\ WarningKept
  <2>1. UNCHANGED <<row, job, warned>>
    BY <1>6 DEF LinkIssue, edits
  <2> QED BY <1>0, <2>1, FewerReasons DEF WarningKept, Present
<1>7. ASSUME NEW h \in Handlers, NEW a \in Agents, NEW kind \in Kinds, EditLoad(h, a, kind)
      PROVE  WarningInv' /\ WarningKept
  <2> DEFINE j == [at |-> "save", agent |-> a, copy |-> row[a], kind |-> kind]
  <2>1. Goes(h, j) /\ UNCHANGED <<row, warned>> /\ CopyComplete(j, {})
    BY <1>7 DEF EditLoad, tables, history, edits, CopyComplete
  <2> QED BY <1>0, <2>1, HandlerCopies
<1>8. ASSUME NEW h \in Handlers, EditSave(h) PROVE WarningInv' /\ WarningKept
  <2> DEFINE new == Edited(job[h].copy, job[h].kind)
             next == AfterSave(job[h].agent, job[h].kind)
  <2>1. job[h] \in EditJob /\ job[h].at = "save"
    BY <1>0, <1>8, JobKinds DEF EditSave
  <2>2. job[h].agent \in Agents /\ job[h].copy \in Row /\ job[h].kind \in Kinds
    BY <2>1 DEF EditJob
  <2>3. new \in Row /\ new.stale = job[h].copy.stale
    BY <1>0, <1>8, <2>2, EditedIsRow DEF EditSave, Edited, Row, Kinds
  <2>4. next.at \in {"idle", "read"}
    BY <2>2, AfterSaveIsJob
  <2>5. /\ row' = [row EXCEPT ![job[h].agent] = new] /\ Goes(h, next)
        /\ \A g \in Handlers \ {h} : warned'[g] = WarnedFor(g, job[h].agent, new.stale)
    BY <1>8 DEF EditSave
  <2>6. Present(job[h].agent) => row[job[h].agent].stale \subseteq new.stale \union warned[h]
    BY <2>1, <2>3 DEF WarningInv, CopyComplete
  <2> HIDE DEF new, next
  <2> QED BY <1>0, <1>8, <2>1, <2>3, <2>4, <2>5, <2>6, HandlerWrites
<1>9. ASSUME NEW h \in Handlers, NEW ids \in SUBSET Agents, NEW reason \in ContentReasons,
             ContentChange(h, ids, reason)
      PROVE  WarningInv' /\ WarningKept
  <2> DEFINE j == [at |-> "read", todo |-> ids, reason |-> reason]
  <2>1. Goes(h, j) /\ UNCHANGED <<row, warned>> /\ CopyComplete(j, {})
    BY <1>9 DEF ContentChange, tables, history, edits, CopyComplete
  <2> QED BY <1>0, <2>1, HandlerCopies
<1>10. ASSUME NEW h \in Handlers, MarkRead(h) PROVE WarningInv' /\ WarningKept
  <2>1. PICK a \in job[h].todo :
          Goes(h, IF Present(a)
                  THEN [at |-> "write", todo |-> job[h].todo \ {a}, reason |-> job[h].reason,
                        agent |-> a, stale |-> row[a].stale \union {job[h].reason}]
                  ELSE Idle)
    BY <1>10 DEF MarkRead
  <2> DEFINE j == [at |-> "write", todo |-> job[h].todo \ {a}, reason |-> job[h].reason,
                   agent |-> a, stale |-> row[a].stale \union {job[h].reason}]
  <2>2. CopyComplete(Idle, {}) /\ CopyComplete(j, {}) /\ UNCHANGED <<row, warned>>
    BY <1>10 DEF CopyComplete, Idle, MarkRead, tables, history, edits
  <2>3. Goes(h, Idle) \/ Goes(h, j)
    BY <2>1
  <2> QED BY <1>0, <2>2, <2>3, HandlerCopies
<1>11. ASSUME NEW h \in Handlers, MarkWrite(h) PROVE WarningInv' /\ WarningKept
  <2>1. job[h] \in WriteJob /\ job[h].at = "write"
    BY <1>0, <1>11, JobKinds DEF MarkWrite
  <2>2. job[h].agent \in Agents /\ job[h].stale \in SUBSET Reasons
    BY <2>1 DEF WriteJob
  <2>3. PICK j : Goes(h, j) /\ j.at \in {"idle", "read"}
    BY <1>11 DEF MarkWrite, Idle
  <2>4. CASE ~Present(job[h].agent)
    <3>1. /\ UNCHANGED row /\ CopyComplete(j, {})
          /\ \A g \in Handlers \ {h} : warned'[g] = warned[g]
      BY <1>11, <2>3, <2>4 DEF MarkWrite, CopyComplete
    <3> QED BY <1>0, <2>3, <3>1, HandlerCopies
  <2>5. CASE Present(job[h].agent)
    <3> DEFINE new == [row[job[h].agent] EXCEPT !.stale = job[h].stale]
    <3>1. row' = [row EXCEPT ![job[h].agent] = new] /\ row[job[h].agent] \in Row
      BY <1>0, <1>11, <2>2, <2>5 DEF MarkWrite, Present
    <3>2. new \in Row /\ new.stale = job[h].stale
      BY <2>2, <3>1 DEF Row
    <3>3. row[job[h].agent].stale \subseteq new.stale \union warned[h]
      BY <2>1, <2>5, <3>2 DEF WarningInv, CopyComplete
    <3>4. \A g \in Handlers \ {h} : warned'[g] = WarnedFor(g, job[h].agent, new.stale)
      BY <1>11, <2>5, <3>2 DEF MarkWrite
    <3> HIDE DEF new
    <3> QED BY <1>0, <1>11, <2>1, <2>3, <3>1, <3>2, <3>3, <3>4, HandlerWrites
  <2> QED BY <2>4, <2>5
<1>12. CASE Console
  BY <1>2, <1>3, <1>4, <1>5, <1>6, <1>7, <1>8, <1>9, <1>10, <1>11, <1>12 DEF Console
<1>13. CASE \E l \in Links : LinkExpire(l)
  BY <1>1, <1>13 DEF LinkExpire, tables, history, edits
<1>14. CASE \E d \in Downloads : DownloadStep(d)
  BY <1>1, <1>14 DEF DownloadStep, DownloadByLink, DownloadByKey, DownloadBurn, DownloadAgent,
                     DownloadKey, DownloadBuild, tables, history, edits
<1>15. CASE Crash
  BY <1>1, <1>15 DEF Crash, tables, Idle
<1>16. CASE UNCHANGED vars
  BY <1>1, <1>16 DEF vars, tables, history, edits
<1> QED BY <1>12, <1>13, <1>14, <1>15, <1>16 DEF Next

(* For any number of agents, console requests, downloads and restarts: a    *)
(* reason leaves a warning only by its dismissal, the deletion of the       *)
(* agent, or a write-back of reasons read before it was put there.          *)
THEOREM WarningsStay == Spec => WarningStays
<1>1. Init => WarningInv
  BY DEF Init, WarningInv, CopyComplete, Idle
<1>2. WarningInv /\ IdentityInv /\ [Next]_vars => WarningInv'
  BY NextWarningInv
<1>3. WarningInv /\ IdentityInv /\ [Next]_vars => [WarningKept]_vars
  BY NextWarningInv
<1> QED BY <1>1, <1>2, <1>3, IdentityInvariant, PTL DEF Spec, WarningStays
=============================================================================
