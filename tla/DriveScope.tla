----------------------------- MODULE DriveScope -----------------------------
(***************************************************************************)
(* The Drive folders an agent may work in, for one agent and one Workspace *)
(* (src/src/app_drive_*.go and their tables in store.go).                  *)
(*                                                                         *)
(* The console registers a Google folder under a Reference Name: a row of  *)
(* drive_folder_refs.  The folders found below that root are kept in       *)
(* drive_folder_tree_cache, and agent_drive_folder_grants says which       *)
(* references the agent may use.  A request that names a file is checked   *)
(* against those folders, one that creates names a folder among them, and  *)
(* a search is narrowed to them.  Not so what the code forwards as it is:  *)
(* any other path of Drive, Docs, Sheets or Slides ("browse"), a search    *)
(* whose text is not bound by the clause added to it, and where the body   *)
(* of a copy puts the copy.                                                *)
(*                                                                         *)
(* Nothing of this runs in a transaction.  A walk lists one Google folder  *)
(* after the other, then deletes the cached rows and inserts the new ones  *)
(* one by one; the requests of the agent and of the console run at the     *)
(* same time, work with copies of the references they read first, and stop *)
(* anywhere when the process stops; and the folders move at Google.        *)
(*                                                                         *)
(* A handler is one HTTP request: it runs once, from "idle" to one of      *)
(* Ended.  Names, paths, links and resource keys are left out; a path the  *)
(* agent gives stands for the folder the cache has under it.  The agent's  *)
(* grant of the Workspace itself, its policy and the log are in            *)
(* RelayAccess and PolicyEngine, the skill warning is in AgentIdentity.    *)
(***************************************************************************)
EXTENDS Integers, FiniteSets

CONSTANTS
  Folders,     \* ids of folders at Google
  Refs,        \* ids of drive_folder_refs rows; an id is never used twice
  Handlers,    \* HTTP requests
  InitParent,  \* where each folder is before the first step
  InitRoots,   \* bound: the folders of the references registered before it
  MaxMoves,    \* bound: how often folders move at Google
  None,        \* no folder: the top of Drive, or no row
  MyDrive      \* the user's own top folder, where Google creates documents;
               \* in `through`: the whole of Drive

ASSUME FoldersAssumption == /\ None \notin Folders \union Refs
                            /\ MyDrive \notin Folders \union {None}
ASSUME ParentAssumption == InitParent \in [Folders -> Folders \union {None}]
ASSUME RootsAssumption ==
  /\ InitRoots \subseteq [Refs -> Folders \union {None}]
  /\ \A fs \in InitRoots : \A r, s \in Refs :
       fs[r] = fs[s] /\ fs[r] # None => r = s
ASSUME MovesAssumption == MaxMoves \in Nat

VARIABLES
  parent,      \* Google: the folder each folder is in
  moves,       \* how often a folder moved
  everLink,    \* history: every <<folder, parent>> that ever held
  workspace,   \* the gmail_connections row exists
  root,        \* drive_folder_refs: the folder of each reference, None: no row
  held,        \* history: the <<reference, folder>> that rows of the cache or a
               \* request that is running may come from
  granted,     \* agent_drive_folder_grants of the agent
  tree,        \* drive_folder_tree_cache: <<folder, parent>> rows per reference
  at,          \* the statement each handler is at
  job,         \* what each handler was asked to do
  list,        \* the references a handler read, with their folders then
  left,        \* the references a handler still has to go through
  near,        \* the parent folder Google reported for the file asked for
  walk,        \* the walk a handler is in
  through,     \* the folders a handler let its request through to
  made,        \* where the file a handler had Google create is now
  met,         \* history: the handlers that overlap one, "google" if it moved
  lent,        \* history: the references granted at some time during a handler
  reach        \* history: what was in `held` at some time during a handler

google == <<parent, moves, everLink>>
db     == <<workspace, root, held, granted, tree>>
vars   == <<parent, moves, everLink, workspace, root, held, granted, tree,
            at, job, list, left, near, walk, through, made, met, lent, reach>>

Rows   == Folders \X (Folders \union {None})
Places == Folders \union {None}
\* Folders of a set of cached rows.
FoldersOf(rows) == {e[1] : e \in rows}

Console == {"add", "update", "refresh", "delete", "grant", "drop"}
Agent   == {"open", "create", "make", "search", "browse", "tree", "renew"}
Ended   == {"served", "ok", "outside", "refused", "stopped"}
Phases  == Ended \union {"idle", "insert", "write", "walk", "fill", "unTree",
             "unGrant", "unRow", "unConnect", "clear", "grantRow", "resolve",
             "meta", "match", "next", "rematch", "ensure", "read", "subtree",
             "forward", "move", "moveOld"}
Running == {h \in Handlers : at[h] \notin Ended \union {"idle"}}

NoJob  == [kind |-> "none", ref |-> None, want |-> None, refs |-> {}]
NoWalk == [ref |-> None, root |-> None, todo |-> {}, found |-> {}]

\* The folders of `seed` and everything below them along `links`.
Below(seed, links) ==
  {f \in Folders : \A U \in SUBSET Folders :
     (seed \subseteq U /\ \A l \in links : l[2] \in U => l[1] \in U) => f \in U}

LinksNow == {<<f, parent[f]>> : f \in Folders}
\* What was at some time below a folder reference r has in `pairs`.
EverInside(r, pairs) == Below({f \in Folders : <<r, f>> \in pairs}, everLink)
\* What is below the folder now.
InsideNow(f) == Below({f}, LinksNow)

\* The rows a walk that nothing disturbs leaves for root f.
WholeTree(f, links) ==
  {<<f, None>>} \union {l \in links : l[1] # f /\ l[1] \in Below({f}, links)}

\* The tables hold references the console added before, some of them granted,
\* each with the tree it had then or with what a stop while the tree was written
\* left of it; no request is running.
Init ==
  /\ parent = InitParent
  /\ moves = 0
  /\ everLink = {<<f, InitParent[f]>> : f \in Folders}
  /\ workspace = TRUE
  /\ root \in InitRoots
  /\ held = {p \in Refs \X Folders : p[2] = root[p[1]]}
  /\ granted \in SUBSET {r \in Refs : root[r] # None}
  /\ LET whole == [r \in Refs |-> IF root[r] = None THEN {}
                                  ELSE WholeTree(root[r], everLink)]
     IN /\ tree \in [Refs -> SUBSET UNION {whole[r] : r \in Refs}]
        /\ \A r \in Refs : /\ tree[r] \subseteq whole[r]
                           /\ root[r] # None => tree[r] # {}
                           /\ \A e \in tree[r] : \/ e[2] = None
                                                \/ e[2] \in FoldersOf(tree[r])
  /\ at = [h \in Handlers |-> "idle"]
  /\ job = [h \in Handlers |-> NoJob]
  /\ list = [h \in Handlers |-> [r \in Refs |-> None]]
  /\ left = [h \in Handlers |-> {}]
  /\ near = [h \in Handlers |-> None]
  /\ walk = [h \in Handlers |-> NoWalk]
  /\ through = [h \in Handlers |-> {}]
  /\ made = [h \in Handlers |-> None]
  /\ met = [h \in Handlers |-> {}]
  /\ lent = [h \in Handlers |-> {}]
  /\ reach = [h \in Handlers |-> {}]

-----------------------------------------------------------------------------
\* Steps shared by the handlers.

Goto(h, p) == at' = [at EXCEPT ![h] = p]

\* A request arrives; it and the requests that are running overlap.
Arrive(h, kind, r, f, rs) ==
  /\ at[h] = "idle"
  /\ job' = [job EXCEPT ![h] = [kind |-> kind, ref |-> r, want |-> f, refs |-> rs]]
  /\ met' = [k \in Handlers |-> IF k = h THEN Running
                                ELSE IF k \in Running THEN met[k] \union {h}
                                ELSE met[k]]
  /\ lent' = [lent EXCEPT ![h] = granted]
  /\ reach' = [reach EXCEPT ![h] = held]

\* History: from now on rows may come from folder f for reference r.
Holds(r, f) ==
  /\ held' = held \union {<<r, f>>}
  /\ reach' = [k \in Handlers |-> IF k \in Running THEN reach[k] \union {<<r, f>>}
                                 ELSE reach[k]]

\* refreshDriveFolderTree begins: the root is the first entry and the queue.
StartWalk(h, r, f) ==
  walk' = [walk EXCEPT ![h] = [ref |-> r, root |-> f, todo |-> {f},
                               found |-> {<<f, None>>}]]

\* Where a handler goes on after a walk that was stored.
AfterWalk(h) ==
  CASE job[h].kind \in {"add", "update", "refresh"} -> "ok"
    [] job[h].kind \in {"open", "renew"} -> "next"
    [] OTHER -> "read"

\* ... and after one that failed: a new reference is deleted again.
WalkFails(h) ==
  IF job[h].kind = "add"
  THEN Goto(h, "unTree") /\ left' = [left EXCEPT ![h] = {walk[h].ref}]
  ELSE Goto(h, "refused") /\ UNCHANGED left

\* Mutant: the folders a listing returns are not listed in turn.
ListFolderFlat(h) ==
  /\ at[h] = "walk"
  /\ \E p \in walk[h].todo :
       LET children == {c \in Folders : /\ parent[c] = p
                                        /\ c \notin FoldersOf(walk[h].found)}
       IN walk' = [walk EXCEPT ![h].todo = walk[h].todo \ {p},
                               ![h].found = walk[h].found \union (children \X {p})]
  /\ UNCHANGED <<google, db, at, job, list, left, near, through, made, met,
                 lent, reach>>

\* One Google listing, of any folder of the queue.
ListFolder(h) ==
  /\ at[h] = "walk"
  /\ \E p \in walk[h].todo :
       LET children == {c \in Folders : /\ parent[c] = p
                                        /\ c \notin FoldersOf(walk[h].found)}
       IN walk' = [walk EXCEPT
            ![h].todo = (walk[h].todo \ {p}) \union children,
            ![h].found = walk[h].found \union (children \X {p})]
  /\ UNCHANGED <<google, db, at, job, list, left, near, through, made, met,
                 lent, reach>>

\* Google refuses or does not answer a listing.
ListFails(h) ==
  /\ at[h] = "walk" /\ walk[h].todo # {}
  /\ WalkFails(h)
  /\ UNCHANGED <<google, db, job, list, near, walk, through, made, met, lent,
                 reach>>

\* A reference has folder f, or a running request took it from the row.
InUse(r, f) ==
  \/ root[r] = f
  \/ \E k \in Running : list[k][r] = f \/ (walk[k].ref = r /\ walk[k].root = f)

\* Mutant: the new rows are added to the old ones.
ClearTreeNot(h) ==
  /\ at[h] = "walk" /\ walk[h].todo = {}
  /\ held' = {p \in held : p[1] = walk[h].ref => InUse(p[1], p[2])}
  /\ Goto(h, "fill")
  /\ UNCHANGED <<google, workspace, root, granted, tree, job, list, left, near,
                 walk, through, made, met, lent, reach>>

\* ReplaceDriveFolderTree, its DELETE: whatever folder the rows came from, only
\* those in use are left to come from.
ClearTree(h) ==
  /\ at[h] = "walk" /\ walk[h].todo = {}
  /\ tree' = [tree EXCEPT ![walk[h].ref] = {}]
  /\ held' = {p \in held : p[1] = walk[h].ref => InUse(p[1], p[2])}
  /\ Goto(h, "fill")
  /\ UNCHANGED <<google, workspace, root, granted, job, list, left, near, walk,
                 through, made, met, lent, reach>>

\* ... one INSERT, of a folder after its parent: refused when the reference is
\* gone (foreign key) or a walk at the same time inserted the folder (primary
\* key).
FillRow(h) ==
  /\ at[h] = "fill"
  /\ \E e \in walk[h].found :
    /\ e[2] \notin FoldersOf(walk[h].found)
    /\ \/ /\ root[walk[h].ref] # None
          /\ e[1] \notin FoldersOf(tree[walk[h].ref])
          /\ tree' = [tree EXCEPT ![walk[h].ref] = @ \union {e}]
          /\ walk' = [walk EXCEPT ![h].found = @ \ {e}]
          /\ UNCHANGED <<at, left>>
       \/ /\ \/ root[walk[h].ref] = None
             \/ e[1] \in FoldersOf(tree[walk[h].ref])
          /\ WalkFails(h)
          /\ UNCHANGED <<tree, walk>>
  /\ UNCHANGED <<google, workspace, root, held, granted, job, list, near,
                 through, made, met, lent, reach>>

\* ... all rows are in.
Filled(h) ==
  /\ at[h] = "fill" /\ walk[h].found = {}
  /\ Goto(h, AfterWalk(h))
  /\ UNCHANGED <<google, db, job, list, left, near, walk, through, made, met,
                 lent, reach>>

-----------------------------------------------------------------------------
\* The console.

\* handleAddDriveFolder up to the INSERT; the id is drawn anew.
BeginAdd(h, r, f) ==
  /\ workspace
  /\ \A g \in Folders : <<r, g>> \notin held
  /\ \A k \in Handlers : job[k].kind = "add" => job[k].ref # r
  /\ Arrive(h, "add", r, f, {})
  /\ Goto(h, "insert")
  /\ UNCHANGED <<google, db, list, left, near, walk, through, made>>

\* Mutant: nothing refuses a folder that has a Reference Name.
InsertAny(h) ==
  /\ at[h] = "insert"
  /\ root' = [root EXCEPT ![job[h].ref] = job[h].want]
  /\ Holds(job[h].ref, job[h].want)
  /\ StartWalk(h, job[h].ref, job[h].want)
  /\ Goto(h, "walk")
  /\ UNCHANGED <<google, workspace, granted, tree, job, list, left, near,
                 through, made, met, lent>>

\* CreateDriveFolderRef.  The lookups before it and the unique index refuse a
\* folder that is registered.  No key ties the row to the Workspace.
Insert(h) ==
  /\ at[h] = "insert"
  /\ LET r == job[h].ref  f == job[h].want IN
       \/ /\ \A s \in Refs : root[s] # f
          /\ root' = [root EXCEPT ![r] = f]
          /\ Holds(r, f)
          /\ StartWalk(h, r, f)
          /\ Goto(h, "walk")
       \/ /\ \E s \in Refs : root[s] = f
          /\ Goto(h, "refused")
          /\ UNCHANGED <<root, held, walk, reach>>
  /\ UNCHANGED <<google, workspace, granted, tree, job, list, left, near,
                 through, made, met, lent>>

\* handleDriveFolderRoutes "update" up to the UPDATE.
BeginUpdate(h, r, f) ==
  /\ workspace /\ root[r] # None
  /\ Arrive(h, "update", r, f, {})
  /\ Goto(h, "write")
  /\ UNCHANGED <<google, db, list, left, near, walk, through, made>>

\* UpdateDriveFolderRef: no error when the row is gone meanwhile.  The rows of
\* the old folder stay until the walk replaces them, or for good if it fails.
Write(h) ==
  /\ at[h] = "write"
  /\ LET r == job[h].ref  f == job[h].want IN
       \/ /\ \A s \in Refs : root[s] = f => s = r
          /\ root' = IF root[r] = None THEN root ELSE [root EXCEPT ![r] = f]
          /\ Holds(r, f)
          /\ StartWalk(h, r, f)
          /\ Goto(h, "walk")
       \/ /\ \E s \in Refs : root[s] = f /\ s # r
          /\ Goto(h, "refused")
          /\ UNCHANGED <<root, held, walk, reach>>
  /\ UNCHANGED <<google, workspace, granted, tree, job, list, left, near,
                 through, made, met, lent>>

\* "refresh": walks the folder the row has when it is read.
BeginRefresh(h, r) ==
  /\ workspace /\ root[r] # None
  /\ Arrive(h, "refresh", r, None, {})
  /\ StartWalk(h, r, root[r])
  /\ Goto(h, "walk")
  /\ UNCHANGED <<google, db, list, left, near, through, made>>

BeginDelete(h, r) ==
  /\ workspace /\ root[r] # None
  /\ Arrive(h, "delete", r, None, {})
  /\ left' = [left EXCEPT ![h] = {r}]
  /\ Goto(h, "unTree")
  /\ UNCHANGED <<google, db, list, near, walk, through, made>>

\* DeleteGmailConnection reads the references it will delete.
BeginDrop(h) ==
  /\ workspace
  /\ Arrive(h, "drop", None, None, {})
  /\ left' = [left EXCEPT ![h] = {r \in Refs : root[r] # None}]
  /\ Goto(h, IF \A r \in Refs : root[r] = None THEN "unConnect" ELSE "unTree")
  /\ UNCHANGED <<google, db, list, near, walk, through, made>>

\* DeleteDriveFolderRef: the cached rows ...
UnTree(h) ==
  /\ at[h] = "unTree"
  /\ \E r \in left[h] :
       /\ tree' = [tree EXCEPT ![r] = {}]
       /\ walk' = [walk EXCEPT ![h] = [NoWalk EXCEPT !.ref = r]]
  /\ Goto(h, "unGrant")
  /\ UNCHANGED <<google, workspace, root, held, granted, job, list, left, near,
                 through, made, met, lent, reach>>

\* ... the grants ...
UnGrant(h) ==
  /\ at[h] = "unGrant"
  /\ granted' = granted \ {walk[h].ref}
  /\ Goto(h, "unRow")
  /\ UNCHANGED <<google, workspace, root, held, tree, job, list, left, near,
                 walk, through, made, met, lent, reach>>

\* Mutant: the Workspace is deleted after its first reference.
UnRowOnce(h) ==
  /\ at[h] = "unRow"
  /\ root' = [root EXCEPT ![walk[h].ref] = None]
  /\ tree' = [tree EXCEPT ![walk[h].ref] = {}]
  /\ granted' = granted \ {walk[h].ref}
  /\ left' = [left EXCEPT ![h] = @ \ {walk[h].ref}]
  /\ Goto(h, CASE job[h].kind = "add" -> "refused"
               [] job[h].kind = "delete" -> "ok"
               [] OTHER -> "unConnect")
  /\ UNCHANGED <<google, workspace, held, job, list, near, walk, through, made,
                 met, lent, reach>>

\* ... and the row, which takes with it what was inserted meanwhile.
UnRow(h) ==
  /\ at[h] = "unRow"
  /\ root' = [root EXCEPT ![walk[h].ref] = None]
  /\ tree' = [tree EXCEPT ![walk[h].ref] = {}]
  /\ granted' = granted \ {walk[h].ref}
  /\ left' = [left EXCEPT ![h] = @ \ {walk[h].ref}]
  /\ Goto(h, CASE job[h].kind = "add" -> "refused"
               [] job[h].kind = "delete" -> "ok"
               [] OTHER -> IF left[h] \subseteq {walk[h].ref} THEN "unConnect"
                           ELSE "unTree")
  /\ UNCHANGED <<google, workspace, held, job, list, near, walk, through, made,
                 met, lent, reach>>

\* DELETE FROM gmail_connections; the grants of folders go with it.
UnConnect(h) ==
  /\ at[h] = "unConnect"
  /\ workspace' = FALSE
  /\ granted' = {}
  /\ Goto(h, "ok")
  /\ UNCHANGED <<google, root, held, tree, job, list, left, near, walk, through,
                 made, met, lent, reach>>

\* The user connects the Workspace again.
Connect ==
  /\ ~workspace
  /\ workspace' = TRUE
  /\ UNCHANGED <<google, root, held, granted, tree, at, job, list, left, near,
                 walk, through, made, met, lent, reach>>

\* SaveAgentDriveFolderGrants: every reference is looked up first.
BeginGrant(h, rs) ==
  /\ workspace
  /\ \A r \in rs : root[r] # None
  /\ Arrive(h, "grant", None, None, rs)
  /\ Goto(h, "clear")
  /\ UNCHANGED <<google, db, list, left, near, walk, through, made>>

ClearGrants(h) ==
  /\ at[h] = "clear"
  /\ granted' = {}
  /\ left' = [left EXCEPT ![h] = job[h].refs]
  /\ Goto(h, "grantRow")
  /\ UNCHANGED <<google, workspace, root, held, tree, job, list, near, walk,
                 through, made, met, lent, reach>>

\* One INSERT, refused when the Workspace or the reference is gone or the
\* grant is there.
GrantRow(h) ==
  /\ at[h] = "grantRow"
  /\ \E r \in left[h] :
       \/ /\ workspace /\ root[r] # None /\ r \notin granted
          /\ granted' = granted \union {r}
          /\ lent' = [k \in Handlers |-> IF k \in Running THEN lent[k] \union {r}
                                        ELSE lent[k]]
          /\ left' = [left EXCEPT ![h] = @ \ {r}]
          /\ UNCHANGED at
       \/ /\ ~workspace \/ root[r] = None \/ r \in granted
          /\ Goto(h, "refused")
          /\ UNCHANGED <<granted, lent, left>>
  /\ UNCHANGED <<google, workspace, root, held, tree, job, list, near, walk,
                 through, made, met, reach>>

GrantsSaved(h) ==
  /\ at[h] = "grantRow" /\ left[h] = {}
  /\ Goto(h, "ok")
  /\ UNCHANGED <<google, db, job, list, left, near, walk, through, made, met,
                 lent, reach>>

-----------------------------------------------------------------------------
\* The agent's requests.

\* The bearer key and the grant of the Workspace are good.  "open" names a
\* file by id, also one to copy, "create" and "make" a reference and a folder to
\* create in, "search" a reference and a folder below it, or neither; "browse" is
\* any other path: changes, about, drives, apps, and a path of Docs, Sheets or
\* Slides that names no file.
BeginRequest(h, kind, r, f) ==
  /\ workspace
  /\ kind \in {"create", "make"} => r # None /\ f # None
  /\ kind = "search" => (f # None => r # None)
  /\ kind = "open" => f # None
  /\ kind \in {"browse", "tree", "renew"} => f = None
  /\ Arrive(h, kind, r, f, {})
  /\ Goto(h, "resolve")
  /\ UNCHANGED <<google, db, list, left, near, walk, through, made>>

\* Mutant: all references of the Workspace, as resolveReferenceFolders lists them.
ListsAll(r, s) == root[s] # None /\ (r = None \/ r = s)

\* ListAgentAllowedDriveFolderRefs: the rows the agent is granted.
Lists(r, s) == s \in granted /\ root[s] # None /\ (r = None \/ r = s)

FirstPhase(kind) ==
  CASE kind = "open" -> "meta" [] kind = "renew" -> "next"
    [] kind = "browse" -> "forward" [] OTHER -> "ensure"

\* resolveAgentReferenceFolders: what is read here serves the whole request.
Resolve(h) ==
  /\ at[h] = "resolve"
  /\ LET rs == {s \in Refs : Lists(job[h].ref, s)} IN
       /\ list' = [list EXCEPT ![h] = [s \in Refs |-> IF s \in rs THEN root[s] ELSE None]]
       /\ left' = [left EXCEPT ![h] = rs]
       /\ Goto(h, IF rs = {} THEN "refused" ELSE FirstPhase(job[h].kind))
  /\ UNCHANGED <<google, db, job, near, walk, through, made, met, lent, reach>>

\* The parent Google reports: at the top it is the user's own top folder.
Reported(f) == IF parent[f] = None THEN MyDrive ELSE parent[f]

\* fetchDriveFileMetadata.
Meta(h) ==
  /\ at[h] = "meta"
  /\ \/ /\ near' = [near EXCEPT ![h] = Reported(job[h].want)]
        /\ Goto(h, "match")
     \/ /\ Goto(h, "refused")
        /\ UNCHANGED near
  /\ UNCHANGED <<google, db, job, list, left, walk, through, made, met, lent,
                 reach>>

\* matchFileToAllowedFolder for one reference of the copy.
Matches(h, r) ==
  \/ job[h].want = list[h][r]
  \/ near[h] = list[h][r]
  \/ near[h] \in FoldersOf(tree[r])

\* ensureFileInAllowedFolders: a file that matches no reference has all of
\* them walked again, and is matched once more with the metadata it had.  Only
\* the file is matched: a copy is made where the body says.
Match(h) ==
  /\ at[h] \in {"match", "rematch"}
  /\ \E r \in left[h] :
       \/ /\ Matches(h, r)
          /\ through' = [through EXCEPT ![h] = {job[h].want}]
          /\ \E p \in Places \union {MyDrive} : made' = [made EXCEPT ![h] = p]
          /\ Goto(h, "served")
          /\ UNCHANGED left
       \/ /\ ~Matches(h, r)
          /\ left' = [left EXCEPT ![h] = @ \ {r}]
          /\ UNCHANGED <<at, through, made>>
  /\ UNCHANGED <<google, db, job, list, near, walk, met, lent, reach>>

\* Mutant: the cache is trusted, no second match.
NoMatchAtOnce(h) ==
  /\ left[h] = {} /\ at[h] = "match"
  /\ Goto(h, "outside")
  /\ UNCHANGED <<google, db, job, list, left, near, walk, through, made, met,
                 lent, reach>>

NoMatch(h) ==
  /\ left[h] = {}
  /\ \/ /\ at[h] = "match"
        /\ left' = [left EXCEPT ![h] = {r \in Refs : list[h][r] # None}]
        /\ Goto(h, "next")
     \/ /\ at[h] = "rematch"
        /\ Goto(h, "outside")
        /\ UNCHANGED left
  /\ UNCHANGED <<google, db, job, list, near, walk, through, made, met, lent,
                 reach>>

\* The references of the copy are walked one after the other, in
\* ensureFileInAllowedFolders and handleRefreshDriveFolderTreeAPI.
WalkNext(h) ==
  /\ at[h] = "next"
  /\ \E r \in left[h] :
       /\ StartWalk(h, r, list[h][r])
       /\ left' = [left EXCEPT ![h] = @ \ {r}]
  /\ Goto(h, "walk")
  /\ UNCHANGED <<google, db, job, list, near, through, made, met, lent, reach>>

AllWalked(h) ==
  /\ at[h] = "next" /\ left[h] = {}
  /\ \/ /\ job[h].kind = "renew"
        /\ Goto(h, "ok")
        /\ UNCHANGED left
     \/ /\ job[h].kind = "open"
        /\ left' = [left EXCEPT ![h] = {r \in Refs : list[h][r] # None}]
        /\ Goto(h, "rematch")
  /\ UNCHANGED <<google, db, job, list, near, walk, through, made, met, lent,
                 reach>>

\* ensureDriveFolderTreeCache: any row counts as a complete tree.
Ensure(h) ==
  /\ at[h] = "ensure"
  /\ \E r \in left[h] :
       /\ StartWalk(h, r, list[h][r])
       /\ left' = [left EXCEPT ![h] = @ \ {r}]
       /\ Goto(h, IF tree[r] # {} THEN "read" ELSE "walk")
  /\ UNCHANGED <<google, db, job, list, near, through, made, met, lent, reach>>

\* What a request over folders fs reads: the clause that narrows a search is
\* put beside the agent's own text, and does not bind every text.
Searched(h, fs) ==
  IF job[h].kind = "search" THEN {fs, fs \union {MyDrive}} ELSE {fs}

\* resolveDriveSearchFolderIDs and handleDriveFolderTreeAPI read the cached
\* folders of one reference after the other.
ReadTree(h) ==
  /\ at[h] = "read" /\ job[h].kind \in {"search", "tree"} /\ job[h].want = None
  /\ LET fs == through[h] \union FoldersOf(tree[walk[h].ref]) IN
       \/ /\ left[h] # {}
          /\ through' = [through EXCEPT ![h] = fs]
          /\ Goto(h, "ensure")
       \/ /\ left[h] = {} /\ job[h].kind = "search" /\ fs = {}
          /\ Goto(h, "refused")
          /\ UNCHANGED through
       \/ /\ left[h] = {} /\ (job[h].kind = "tree" \/ fs # {})
          /\ \E gs \in Searched(h, fs) : through' = [through EXCEPT ![h] = gs]
          /\ Goto(h, "served")
  /\ UNCHANGED <<google, db, job, list, left, near, walk, made, met, lent, reach>>

\* resolveDriveTargetFolderID: the folder asked for is the root or is cached.
Knows(h) == \/ job[h].want = walk[h].root
            \/ job[h].want \in FoldersOf(tree[walk[h].ref])

TargetFound(h) ==
  /\ at[h] = "read" /\ job[h].want # None
  /\ Knows(h)
  /\ through' = [through EXCEPT ![h] = {job[h].want}]
  /\ Goto(h, IF job[h].kind = "search" THEN "subtree" ELSE "forward")
  /\ UNCHANGED <<google, db, job, list, left, near, walk, made, met, lent,
                 reach>>

\* ... and if not, the tree is walked once more; near marks that it was.
TargetMissed(h) ==
  /\ at[h] = "read" /\ job[h].want # None
  /\ ~Knows(h)
  /\ \/ /\ near[h] = None
        /\ near' = [near EXCEPT ![h] = walk[h].root]
        /\ StartWalk(h, walk[h].ref, walk[h].root)
        /\ Goto(h, "walk")
     \/ /\ near[h] # None
        /\ Goto(h, "outside")
        /\ UNCHANGED <<near, walk>>
  /\ UNCHANGED <<google, db, job, list, left, through, made, met, lent, reach>>

\* collectDriveSubtreeFolderIDs over the rows read after the target was found.
ReadSubtree(h) ==
  /\ at[h] = "subtree"
  /\ LET rows == tree[walk[h].ref]
         want == job[h].want
         fs == IF want \in FoldersOf(rows)
               THEN FoldersOf(rows) \intersect Below({want}, rows) ELSE {want}
     IN \E gs \in Searched(h, fs) : through' = [through EXCEPT ![h] = gs]
  /\ Goto(h, "served")
  /\ UNCHANGED <<google, db, job, list, left, near, walk, made, met, lent, reach>>

\* The request goes to Google, or the policy refuses it: as it came, or for a
\* create.  A file of Drive is created with the target as its parent; Docs,
\* Sheets and Slides create in the user's top folder and are moved afterwards,
\* with the token the request began with even when Google made the relay fetch
\* another one in between.
Forward(h) ==
  /\ at[h] = "forward"
  /\ \/ /\ job[h].kind = "browse"
        /\ through' = [through EXCEPT ![h] = {MyDrive}]
        /\ Goto(h, "served")
        /\ UNCHANGED made
     \/ /\ job[h].kind = "create"
        /\ made' = [made EXCEPT ![h] = job[h].want]
        /\ Goto(h, "served")
        /\ UNCHANGED through
     \/ /\ job[h].kind = "make"
        /\ made' = [made EXCEPT ![h] = MyDrive]
        /\ \E p \in {"move", "moveOld"} : Goto(h, p)
        /\ UNCHANGED through
     \/ /\ Goto(h, "refused")
        /\ UNCHANGED <<through, made>>
  /\ UNCHANGED <<google, db, job, list, left, near, walk, met, lent, reach>>

\* postCreateMoveToFolder.
MoveMade(h) ==
  /\ \/ /\ at[h] = "move"
        /\ made' = [made EXCEPT ![h] = job[h].want]
        /\ Goto(h, "served")
     \/ /\ at[h] \in {"move", "moveOld"}
        /\ Goto(h, "refused")
        /\ UNCHANGED made
  /\ UNCHANGED <<google, db, job, list, left, near, walk, through, met, lent,
                 reach>>

-----------------------------------------------------------------------------
\* The world around.

\* A folder is put into another one, or to the top, at Google.
Move(f, p) ==
  /\ moves < MaxMoves
  /\ parent[f] # p /\ p \notin InsideNow(f)
  /\ parent' = [parent EXCEPT ![f] = p]
  /\ moves' = moves + 1
  /\ everLink' = everLink \union {<<f, p>>}
  /\ met' = [k \in Handlers |-> IF at[k] = "idle" THEN {}
                                ELSE met[k] \union {"google"}]
  /\ UNCHANGED <<db, at, job, list, left, near, walk, through, made, lent,
                 reach>>

\* The process stops and is started again: what ran is gone.
Stop ==
  /\ Running # {}
  /\ at' = [h \in Handlers |-> IF h \in Running THEN "stopped" ELSE at[h]]
  /\ UNCHANGED <<google, db, job, list, left, near, walk, through, made, met,
                 lent, reach>>

Statement(h) ==
  \/ ListFolder(h) \/ ListFails(h) \/ ClearTree(h) \/ FillRow(h) \/ Filled(h)
  \/ Insert(h) \/ Write(h)
  \/ UnTree(h) \/ UnGrant(h) \/ UnRow(h) \/ UnConnect(h)
  \/ ClearGrants(h) \/ GrantRow(h) \/ GrantsSaved(h)
  \/ Resolve(h) \/ Meta(h) \/ Match(h) \/ NoMatch(h) \/ WalkNext(h)
  \/ AllWalked(h) \/ Ensure(h) \/ ReadTree(h) \/ TargetFound(h)
  \/ TargetMissed(h) \/ ReadSubtree(h) \/ Forward(h) \/ MoveMade(h)

Begin(h) ==
  \/ \E r \in Refs : BeginRefresh(h, r) \/ BeginDelete(h, r)
  \/ \E r \in Refs, f \in Folders : BeginAdd(h, r, f) \/ BeginUpdate(h, r, f)
  \/ BeginDrop(h)
  \/ \E rs \in SUBSET Refs : BeginGrant(h, rs)
  \/ \E kind \in Agent, r \in Refs \union {None}, f \in Places :
       BeginRequest(h, kind, r, f)

Next ==
  \/ \E h \in Handlers : Begin(h) \/ Statement(h)
  \/ \E f \in Folders, p \in Places : Move(f, p)
  \/ Connect
  \/ Stop

Spec == Init /\ [][Next]_vars

-----------------------------------------------------------------------------
Jobs == [kind : Console \union Agent \union {"none"}, ref : Refs \union {None},
         want : Places, refs : SUBSET Refs]
Walks == [ref : Refs \union {None}, root : Places, todo : SUBSET Folders,
          found : SUBSET Rows]

\* Every variable has its type.  References have different folders (the
\* unique index), and grants and cached rows belong to a reference that exists
\* (the foreign keys).
TypeOK ==
  /\ \A r, s \in Refs : root[r] = root[s] /\ root[r] # None => r = s
  /\ \A r \in Refs : root[r] = None => r \notin granted /\ tree[r] = {}
  /\ parent \in [Folders -> Places]
  /\ moves \in 0..MaxMoves
  /\ everLink \in SUBSET Rows
  /\ workspace \in BOOLEAN
  /\ root \in [Refs -> Places]
  /\ held \in SUBSET (Refs \X Folders)
  /\ granted \in SUBSET Refs
  /\ tree \in [Refs -> SUBSET Rows]
  /\ at \in [Handlers -> Phases]
  /\ job \in [Handlers -> Jobs]
  /\ list \in [Handlers -> [Refs -> Places]]
  /\ left \in [Handlers -> SUBSET Refs]
  /\ near \in [Handlers -> Places \union {MyDrive}]
  /\ walk \in [Handlers -> Walks]
  /\ through \in [Handlers -> SUBSET (Folders \union {MyDrive})]
  /\ made \in [Handlers -> Places \union {MyDrive}]
  /\ met \in [Handlers -> SUBSET (Handlers \union {"google"})]
  /\ lent \in [Handlers -> SUBSET Refs]
  /\ reach \in [Handlers -> SUBSET (Refs \X Folders)]

Quiet(h) == met[h] = {}

\* What a request is let through to is the whole of Drive only if nothing in the
\* code checks or narrows it; every folder is, or was once, below the folder of a
\* reference that was granted while the request ran, and that folder was then
\* the reference's own, in the copy of a request still running, or the one its
\* cached rows came from.
WasInside(h) ==
  \A f \in through[h] :
    IF f = MyDrive THEN job[h].kind \in {"browse", "search"}
    ELSE \E r \in lent[h] : f \in EverInside(r, reach[h])

\* Whatever else goes on (walks that overlap, references that change their
\* folder or go away, folders that move, stops in the middle), a request by the
\* id of a file, one that creates and the listing of a folder tree stay inside
\* the granted trees, and so does a search as far as its clause binds it.  A
\* folder a reference no longer has is not let through to again once a walk has
\* replaced the rows and the requests with copies are over; when that walk fails
\* it goes on being (app_drive_folder_handlers.go, "update").  docs/design.md
\* promises more, that all operations stay inside: "browse" and the search whose
\* text the clause does not bind do not, and where a copy is put is not checked.
LetThroughWasInside == \A h \in Handlers : WasInside(h)

\* A file that is in a granted folder is not refused as outside by a request
\* that nothing else overlaps, whatever earlier requests that stopped or
\* failed half way left in the cache, and however old the cache is: the second
\* match runs over trees that were walked for it.
InsideIsServed ==
  \A h \in Handlers : at[h] = "outside" /\ Quiet(h) =>
    \A r \in Refs : list[h][r] # None => job[h].want \notin InsideNow(list[h][r])

\* While nothing else acted, a refresh that reports success leaves exactly the
\* folders now below the root: what a walk that stopped, failed or raced left
\* behind is repaired by "Refresh tree".
RefreshRepairs ==
  \A h \in Handlers :
    /\ at[h] = "fill" /\ walk[h].found = {} /\ Quiet(h)
    => FoldersOf(tree[walk[h].ref]) = InsideNow(walk[h].root)

\* When the Workspace is deleted its references go with it, also after a
\* deletion that stopped half way, except one whose own registration
\* overlapped the deletion.
OnlyRacedRefsOutlive ==
  \A r \in Refs : ~workspace /\ root[r] # None =>
    \E h, k \in Handlers :
      /\ job[h].kind = "add" /\ job[h].ref = r
      /\ job[k].kind = "drop"
      /\ h \in met[k]

\* What a create leaves at Google is inside the registered folder it was
\* asked for ("operations are rewritten or denied so they stay inside
\* registered folder trees", docs/design.md:105).  It is not for Docs, Sheets
\* and Slides: when the move fails, and it always does after the relay had to
\* fetch a new token, the document stays in the user's top folder.
CreatedStaysInside ==
  \A h \in Handlers :
    job[h].kind = "make" /\ at[h] \in Ended \ {"stopped"} => made[h] # MyDrive
=============================================================================
