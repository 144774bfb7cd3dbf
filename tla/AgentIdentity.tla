--------------------------- MODULE AgentIdentity ---------------------------
(***************************************************************************)
(* The rows of the agents table - API key, enabled, firewall and the       *)
(* skill-update warning - with every handler that writes them, and the     *)
(* one-time install links by which a skill package that carries the key is *)
(* downloaded.                                                             *)
(*                                                                         *)
(* A handler is a sequence of SQL statements without a transaction.  Most  *)
(* editors load the whole row, change one column and write every column    *)
(* back (SaveAgent); warnings and the firewall switch are narrow UPDATEs.  *)
(* Names and locations, hints, timestamps, audit rows and the content of   *)
(* the package other than the key are left out.                            *)
(***************************************************************************)
EXTENDS Naturals, FiniteSets

CONSTANTS
    Agents,          \* agent ids
    ContentReasons,  \* reasons of warnings about grants, policies, folders, names
    Links,           \* install links, each generated once (bound)
    MaxKey,          \* how many API keys are generated (bound)
    Handlers,        \* console and API requests in flight (bound)
    Downloads,       \* skill downloads, each answered once (bound)
    None

VARIABLES
    row,           \* agents: a row, or None
    created,       \* the ids generated so far
    lastKey,       \* the API keys generated so far are 1..lastKey
    installToken,  \* agent_skill_download_tokens: one link per agent, or None
    issued,        \* the links generated so far
    expired,       \* the links whose ten minutes are over
    job,           \* per console handler: its locals and where it stands
    dl,            \* per download: its locals and where it stands
    asked,         \* history: what key and status of each agent were last set to
    edited,        \* history: the columns set since a handler loaded its copy of the row
    warned,        \* history: the reasons put there since it read the row's reasons
    undone,        \* history: the columns written back from a copy older than their last
                   \* setting, and not set since
    spent          \* history: the links deleted or replaced by a newer one

tables == <<row, installToken>>
generated == <<created, lastKey, issued, expired>>
edits == <<asked, edited, warned, undone>>
history == <<edits, spent>>
vars == <<tables, generated, job, dl, history>>

-----------------------------------------------------------------------------
Keys == 1..MaxKey
Reasons == {"profile", "key"} \union ContentReasons
Row == [key : Keys, enabled : BOOLEAN, firewall : BOOLEAN, stale : SUBSET Reasons]
Columns == {"key", "enabled"}
Setting == [key : Keys, enabled : BOOLEAN]
Kinds == {"rename", "rotate", "enable", "suspend"}

Idle == [at |-> "idle"]
EditJob == [at : {"save"}, agent : Agents, copy : Row, kind : Kinds]
MarkJob == [at : {"read"}, todo : SUBSET Agents, reason : Reasons]
WriteJob == [at : {"write"}, todo : SUBSET Agents, reason : Reasons,
             agent : Agents, stale : SUBSET Reasons]
Job == {Idle} \union EditJob \union MarkJob \union WriteJob

Fetching == {"burn", "agent", "key", "build"}
Download == [at : Fetching \union {"waiting", "refused", "served", "lost"},
             link : Links \union {None}, agent : Agents \union {None},
             key : Keys \union {None}, late : BOOLEAN]

ASSUME IdentityAssumption ==
    /\ MaxKey \in Nat
    /\ None \notin Row \union Setting \union Agents \union Links \union Keys

TypeOK ==
    /\ row \in [Agents -> Row \union {None}]
    /\ created \subseteq Agents
    /\ lastKey \in 0..MaxKey
    /\ installToken \in [Agents -> Links \union {None}]
    /\ issued \subseteq Links
    /\ expired \subseteq Links
    /\ job \in [Handlers -> Job]
    /\ dl \in [Downloads -> Download]
    /\ asked \in [Agents -> Setting \union {None}]
    /\ edited \in [Handlers -> SUBSET Columns]
    /\ warned \in [Handlers -> SUBSET Reasons]
    /\ undone \in [Agents -> SUBSET Columns]
    /\ spent \subseteq Links

Init ==
    /\ row = [a \in Agents |-> None]
    /\ created = {}
    /\ lastKey = 0
    /\ installToken = [a \in Agents |-> None]
    /\ issued = {}
    /\ expired = {}
    /\ job = [h \in Handlers |-> Idle]
    /\ dl = [d \in Downloads |-> [at |-> "waiting", link |-> None, agent |-> None,
                                  key |-> None, late |-> FALSE]]
    /\ asked = [a \in Agents |-> None]
    /\ edited = [h \in Handlers |-> {}]
    /\ warned = [h \in Handlers |-> {}]
    /\ undone = [a \in Agents |-> {}]
    /\ spent = {}

Present(a) == row[a] # None
Goes(h, j) == job' = [job EXCEPT ![h] = j]

(* History, of no code: what a handler that holds a copy of an agent's row, *)
(* or of its reasons, misses when another statement sets columns or puts a  *)
(* warning there.                                                           *)
EditedFor(g, a, columns) ==
    IF job[g].at = "save" /\ job[g].agent = a THEN edited[g] \union columns ELSE edited[g]
WarnedFor(g, a, stale) ==
    IF job[g].at \in {"save", "write"} /\ job[g].agent = a
    THEN warned[g] \union (stale \ (IF Present(a) THEN row[a].stale ELSE {})) ELSE warned[g]
LinkOf(a) == {installToken[a]} \ {None}

-----------------------------------------------------------------------------
(* Handlers with one statement that writes. *)

(* handleAgentCreate: a fresh id and a fresh key. *)
AgentCreate(a) ==
    /\ a \notin created
    /\ lastKey < MaxKey
    /\ created' = created \union {a}
    /\ lastKey' = lastKey + 1
    /\ row' = [row EXCEPT ![a] = [key |-> lastKey', enabled |-> TRUE, firewall |-> FALSE,
                                  stale |-> {}]]
    /\ asked' = [asked EXCEPT ![a] = [key |-> lastKey', enabled |-> TRUE]]
    /\ UNCHANGED <<installToken, issued, expired, job, dl, edited, warned, undone, spent>>

(* handleAgentDelete; ON DELETE CASCADE takes the install link along. *)
AgentDelete(a) ==
    /\ Present(a)
    /\ row' = [row EXCEPT ![a] = None]
    /\ installToken' = [installToken EXCEPT ![a] = None]
    /\ spent' = spent \union LinkOf(a)
    /\ UNCHANGED <<generated, job, dl, edits>>

(* handleAgentFirewallToggle updates its own column only. *)
FirewallSet(a, on) ==
    /\ Present(a)
    /\ row' = [row EXCEPT ![a].firewall = on]
    /\ UNCHANGED <<installToken, generated, job, dl, history>>

(* handleAgentSkillWarningDismiss clears every reason at once. *)
WarningDismiss(a) ==
    /\ Present(a)
    /\ row' = [row EXCEPT ![a].stale = {}]
    /\ UNCHANGED <<installToken, generated, job, dl, history>>

(* handleCreateAgentSkillInstallToken: an upsert, so a new link replaces    *)
(* the agent's previous one.                                                *)
LinkIssue(a, l) ==
    /\ Present(a)
    /\ l \notin issued
    /\ issued' = issued \union {l}
    /\ installToken' = [installToken EXCEPT ![a] = l]
    /\ spent' = spent \union LinkOf(a)
    /\ UNCHANGED <<row, created, lastKey, expired, job, dl, edits>>

LinkExpire(l) ==
    /\ l \in issued \ expired
    /\ expired' = expired \union {l}
    /\ UNCHANGED <<tables, created, lastKey, issued, job, dl, history>>

-----------------------------------------------------------------------------
(* handleAgentUpdate, handleAgentRotate and handleAgentToggle: load the row ... *)
EditLoad(h, a, kind) ==
    /\ job[h] = Idle
    /\ Present(a)
    /\ Goes(h, [at |-> "save", agent |-> a, copy |-> row[a], kind |-> kind])
    /\ UNCHANGED <<tables, generated, dl, history>>

(* Mutant: a rotation reports its new key and saves the row with the old one. *)
EditedKeepingKey(copy, kind) ==
    IF kind \in {"rename", "rotate"} THEN copy ELSE [copy EXCEPT !.enabled = (kind = "enable")]

(* Mutant: a rotation clears the key of the row and never fills it in. *)
EditedLosingKey(copy, kind) ==
    CASE kind = "rename" -> copy
      [] kind = "rotate" -> [copy EXCEPT !.key = None]
      [] OTHER           -> [copy EXCEPT !.enabled = (kind = "enable")]

Edited(copy, kind) ==
    CASE kind = "rename"  -> copy
      [] kind = "rotate"  -> [copy EXCEPT !.key = lastKey + 1]
      [] kind = "enable"  -> [copy EXCEPT !.enabled = TRUE]
      [] kind = "suspend" -> [copy EXCEPT !.enabled = FALSE]

(* What the warning of an edit says; a toggle gives none. *)
Marking(a, reason) == [at |-> "read", todo |-> {a}, reason |-> reason]
AfterSave(a, kind) ==
    CASE kind = "rename" -> Marking(a, "profile")
      [] kind = "rotate" -> Marking(a, "key")
      [] OTHER           -> Idle

(* The columns a request of the kind sets; a rename sets others. *)
Sets(kind) ==
    CASE kind = "rotate"              -> {"key"}
      [] kind \in {"enable", "suspend"} -> {"enabled"}
      [] OTHER                        -> {}

(* ... change a column and SaveAgent the copy: an upsert of every column,   *)
(* whatever the row has become meanwhile.  The key of a rotation is random. *)
EditSave(h) ==
    LET j == job[h]
        new == Edited(j.copy, j.kind)
    IN
    /\ j.at = "save"
    /\ j.kind = "rotate" => lastKey < MaxKey
    /\ lastKey' = IF j.kind = "rotate" THEN lastKey + 1 ELSE lastKey
    /\ row' = [row EXCEPT ![j.agent] = new]
    /\ asked' = [asked EXCEPT ![j.agent] =
                   [key |-> IF j.kind = "rotate" THEN lastKey' ELSE @.key,
                    enabled |-> IF j.kind \in {"enable", "suspend"} THEN j.kind = "enable"
                                ELSE @.enabled]]
    /\ edited' = [g \in Handlers |-> IF g = h THEN {} ELSE EditedFor(g, j.agent, Sets(j.kind))]
    /\ warned' = [g \in Handlers |-> IF g = h THEN {} ELSE WarnedFor(g, j.agent, new.stale)]
    /\ undone' = [undone EXCEPT ![j.agent] = (@ \union edited[h]) \ Sets(j.kind)]
    /\ Goes(h, AfterSave(j.agent, j.kind))
    /\ UNCHANGED <<installToken, created, issued, expired, dl, spent>>

(* A grant, policy, folder or Workspace name used by some agents has been   *)
(* changed; the handler has their ids and starts MarkAgentsSkillStale.      *)
ContentChange(h, ids, reason) ==
    /\ job[h] = Idle
    /\ ids # {}
    /\ \A a \in ids : Present(a)
    /\ Goes(h, [at |-> "read", todo |-> ids, reason |-> reason])
    /\ UNCHANGED <<tables, generated, dl, history>>

(* Mutant: the new reason replaces the ones that are there. *)
MarkReadReplacing(h) ==
    LET j == job[h] IN
    /\ j.at = "read"
    /\ \E a \in j.todo :
         Goes(h, IF Present(a)
                 THEN [at |-> "write", todo |-> j.todo \ {a}, reason |-> j.reason,
                       agent |-> a, stale |-> {j.reason}]
                 ELSE Idle)
    /\ UNCHANGED <<tables, generated, dl, history>>

(* MarkAgentSkillStale reads the reasons so far - an agent that is gone is  *)
(* an error, which leaves the agents after it without a warning - ...       *)
MarkRead(h) ==
    LET j == job[h] IN
    /\ j.at = "read"
    /\ \E a \in j.todo :
         Goes(h, IF Present(a)
                 THEN [at |-> "write", todo |-> j.todo \ {a}, reason |-> j.reason,
                       agent |-> a, stale |-> row[a].stale \union {j.reason}]
                 ELSE Idle)
    /\ UNCHANGED <<tables, generated, dl, history>>

(* ... and writes them back with its own. *)
MarkWrite(h) ==
    LET j == job[h] IN
    /\ j.at = "write"
    /\ row' = IF Present(j.agent) THEN [row EXCEPT ![j.agent].stale = j.stale] ELSE row
    /\ warned' = [g \in Handlers |->
                    IF g = h THEN {}
                    ELSE IF Present(j.agent) THEN WarnedFor(g, j.agent, j.stale) ELSE warned[g]]
    /\ Goes(h, IF j.todo = {} THEN Idle
               ELSE [at |-> "read", todo |-> j.todo, reason |-> j.reason])
    /\ UNCHANGED <<installToken, generated, dl, asked, edited, undone, spent>>

-----------------------------------------------------------------------------
(* handleDownloadAgentSkill. *)
Refused(d) == dl' = [dl EXCEPT ![d].at = "refused"]
Advances(d, stage) == dl' = [dl EXCEPT ![d].at = stage]

(* ConsumeAgentSkillDownloadToken looks the link up ... *)
DownloadByLink(d, l) ==
    /\ dl[d].at = "waiting"
    /\ l \in issued
    /\ \/ \E a \in Agents :
            /\ installToken[a] = l
            /\ dl' = [dl EXCEPT ![d] = [at |-> "burn", link |-> l, agent |-> a, key |-> None,
                                        late |-> l \in spent \union expired]]
       \/ /\ \A a \in Agents : installToken[a] # l
          /\ Refused(d)
    /\ UNCHANGED <<tables, generated, job, history>>

(* ... and deletes it, whatever becomes of the DELETE, then looks at the    *)
(* clock.                                                                   *)
DownloadBurn(d) ==
    LET l == dl[d].link IN
    /\ dl[d].at = "burn"
    /\ \/ /\ installToken' = [a \in Agents |-> IF installToken[a] = l THEN None
                                               ELSE installToken[a]]
          /\ spent' = spent \union {l}
       \/ UNCHANGED <<installToken, spent>>
    /\ IF l \in expired THEN Refused(d) ELSE Advances(d, "agent")
    /\ UNCHANGED <<row, generated, job, edits>>

(* The user may be suspended; the agent is loaded, whether enabled or not ... *)
DownloadAgent(d) ==
    /\ dl[d].at = "agent"
    /\ \/ Present(dl[d].agent) /\ Advances(d, "key")
       \/ Refused(d)
    /\ UNCHANGED <<tables, generated, job, history>>

(* ... then loaded again for its key ... *)
DownloadKey(d) ==
    LET a == dl[d].agent IN
    /\ dl[d].at = "key"
    /\ IF Present(a) THEN dl' = [dl EXCEPT ![d].at = "build", ![d].key = row[a].key]
       ELSE Refused(d)
    /\ UNCHANGED <<tables, generated, job, history>>

(* Mutant: when the package cannot be built the agent has its link back. *)
DownloadBuildGivingBack(d) ==
    /\ dl[d].at = "build"
    /\ \/ Present(dl[d].agent) /\ Advances(d, "served") /\ UNCHANGED installToken
       \/ /\ Refused(d)
          /\ installToken' = IF Present(dl[d].agent)
                             THEN [installToken EXCEPT ![dl[d].agent] = dl[d].link]
                             ELSE installToken
    /\ UNCHANGED <<row, generated, job, history>>

(* ... and again while the package is built, which may fail. *)
DownloadBuild(d) ==
    /\ dl[d].at = "build"
    /\ \/ Present(dl[d].agent) /\ Advances(d, "served")
       \/ Refused(d)
    /\ UNCHANGED <<tables, generated, job, history>>

(* The update script of an installed skill presents the agent's key instead; *)
(* it is answered to enabled agents only.                                    *)
DownloadByKey(d, k) ==
    /\ dl[d].at = "waiting"
    /\ \/ \E a \in Agents :
            /\ Present(a) /\ row[a].enabled /\ row[a].key = k
            /\ dl' = [dl EXCEPT ![d] = [at |-> "build", link |-> None, agent |-> a, key |-> k,
                                        late |-> FALSE]]
       \/ Refused(d)
    /\ UNCHANGED <<tables, generated, job, history>>

Crash ==
    /\ job' = [h \in Handlers |-> Idle]
    /\ dl' = [d \in Downloads |-> IF dl[d].at \in Fetching THEN [dl[d] EXCEPT !.at = "lost"]
                                  ELSE dl[d]]
    /\ edited' = [h \in Handlers |-> {}]
    /\ warned' = [h \in Handlers |-> {}]
    /\ UNCHANGED <<tables, generated, asked, undone, spent>>

-----------------------------------------------------------------------------
Console ==
    \/ \E a \in Agents : AgentCreate(a) \/ AgentDelete(a) \/ WarningDismiss(a)
    \/ \E a \in Agents, on \in BOOLEAN : FirewallSet(a, on)
    \/ \E a \in Agents, l \in Links : LinkIssue(a, l)
    \/ \E h \in Handlers :
        \/ \E a \in Agents, kind \in Kinds : EditLoad(h, a, kind)
        \/ EditSave(h)
        \/ \E ids \in SUBSET Agents, reason \in ContentReasons : ContentChange(h, ids, reason)
        \/ MarkRead(h) \/ MarkWrite(h)

DownloadStep(d) ==
    \/ \E l \in Links : DownloadByLink(d, l)
    \/ \E k \in 1..lastKey : DownloadByKey(d, k)
    \/ DownloadBurn(d) \/ DownloadAgent(d) \/ DownloadKey(d) \/ DownloadBuild(d)

Next ==
    \/ Console
    \/ \E l \in Links : LinkExpire(l)
    \/ \E d \in Downloads : DownloadStep(d)
    \/ Crash

Spec == Init /\ [][Next]_vars

-----------------------------------------------------------------------------
(* An agent's row holds the key of its last rotation and the status of its  *)
(* last toggle, unless a request that had loaded the row before saved its   *)
(* copy after: a key that was rotated away, or a suspension that was        *)
(* ordered, comes undone by nothing but such an overlap - by no rename,     *)
(* warning, firewall switch, deletion, restart or later save.               *)
LastEditStands ==
    \A a \in Agents : Present(a) =>
        /\ row[a].key = asked[a].key \/ "key" \in undone[a]
        /\ row[a].enabled = asked[a].enabled \/ "enabled" \in undone[a]

(* A step takes a reason from an agent's warning only by dismissing it or   *)
(* deleting the agent, or by writing back reasons that were read before     *)
(* this one was put there.                                                  *)
WarningKept ==
    \A a \in Agents : Present(a) =>
        \/ WarningDismiss(a)
        \/ AgentDelete(a)
        \/ row'[a] # None /\ row[a].stale \subseteq row'[a].stale
        \/ \E h \in Handlers :
              /\ EditSave(h) \/ MarkWrite(h)
              /\ job[h].agent = a
              /\ row'[a] # None /\ row[a].stale \ row'[a].stale \subseteq warned[h]

(* A warning that the installed skill is out of date stays until the user   *)
(* dismisses it or deletes the agent, as far as the code keeps that: of two *)
(* statements that overlap, the save of a row or of a list of reasons that  *)
(* was read before the other's warning was there takes it away, and nothing *)
(* else does.                                                               *)
WarningStays == [][WarningKept]_vars

(* A download that presents an install link which was deleted by another    *)
(* download or with its agent, replaced by a newer link, or past its time,  *)
(* is refused, however it is interleaved with new links, deletions,         *)
(* restarts and other downloads.  Two that look the link up before either   *)
(* deletes it are both served, and so is every one after a DELETE that      *)
(* failed.                                                                  *)
NoLateDownload ==
    \A d \in Downloads : dl[d].at \in (Fetching \ {"burn"}) \union {"served"} => ~dl[d].late
=============================================================================
