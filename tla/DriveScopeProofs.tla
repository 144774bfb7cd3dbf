-------------------------- MODULE DriveScopeProofs --------------------------
(***************************************************************************)
(* Theorems about DriveScope for every value of its constants: any number  *)
(* of folders, references, requests and moves.                             *)
(*                                                                         *)
(* There are three invariants, each proved with the one before it.         *)
(* ScopeInv says where what a request and a row know of the folders comes  *)
(* from, and is what keeps the agent inside.  DropInv says who overlaps    *)
(* whom, and is what makes a deleted Workspace take its references along.  *)
(* QuietInv says how far the walk of a request that overlaps nothing has   *)
(* come, and is what makes such a walk exact.                              *)
(***************************************************************************)
EXTENDS DriveScope, TLAPS

(* Where a request of the agent holds a copy of the references.              *)
Copied == {"meta", "match", "next", "rematch", "ensure", "read", "subtree", "walk", "fill"}

(* The locals of a request at its phase.                                     *)
Fits(h) ==
  /\ at[h] \in {"insert", "write"} =>
       job[h].ref \in Refs /\ job[h].want \in Folders /\ job[h].kind \in {"add", "update"}
  /\ at[h] \in {"walk", "fill", "read", "subtree"} =>
       walk[h].ref \in Refs /\ walk[h].root \in Folders
  /\ at[h] \in {"unGrant", "unRow"} => walk[h].ref \in Refs
  /\ at[h] \in {"walk", "fill"} => job[h].kind \in {"add", "update", "refresh"} \union Agent
  /\ at[h] \in {"resolve"} \union (Copied \ {"walk", "fill"}) => job[h].kind \in Agent
  /\ at[h] \in Copied /\ job[h].kind \in Agent => \A r \in left[h] : list[h][r] # None
  /\ at[h] \in {"meta", "match", "rematch"} => job[h].kind = "open"
  /\ at[h] \in {"ensure", "read", "subtree"} => job[h].kind # "open"
  /\ job[h].kind = "open" \/ at[h] = "subtree" => job[h].want \in Folders
  /\ at[h] = "idle" => through[h] = {} /\ \A r \in Refs : list[h][r] = None

(* What a walk found, and has still to list, is below its root.              *)
WalkInside(h) ==
  FoldersOf(walk[h].found) \union walk[h].todo \subseteq Below({walk[h].root}, everLink)

(* What a request knows of the folders: where the copy and the walk come     *)
(* from, and where the file asked for was.                                   *)
Knowing(h) ==
  /\ \A r \in Refs : list[h][r] # None => r \in lent[h]
  /\ at[h] \notin Ended \union {"idle"} =>
       /\ granted \subseteq lent[h] /\ held \subseteq reach[h]
       /\ \A r \in Refs : list[h][r] # None => <<r, list[h][r]>> \in held
  /\ at[h] \in {"walk", "fill", "read", "subtree"} =>
       /\ <<walk[h].ref, walk[h].root>> \in held
       /\ job[h].kind \in Agent => walk[h].ref \in lent[h]
  /\ at[h] \in {"walk", "fill"} => WalkInside(h)
  /\ at[h] \in {"match", "rematch", "next", "walk", "fill"} /\ job[h].kind = "open"
       /\ near[h] \in Folders => <<job[h].want, near[h]>> \in everLink
  /\ at[h] = "subtree" => job[h].want \in EverInside(walk[h].ref, reach[h])

(* The rows come from a folder that is held.                                 *)
RowsInside ==
  /\ \A f \in Folders : <<f, parent[f]>> \in everLink
  /\ \A r \in Refs : root[r] # None => <<r, root[r]>> \in held
  /\ \A r \in Refs : FoldersOf(tree[r]) \subseteq EverInside(r, held)

ScopeInv ==
  /\ TypeOK
  /\ \A h \in Handlers : Fits(h) /\ Knowing(h) /\ WasInside(h)
  /\ RowsInside
-----------------------------------------------------------------------------
(* Below is a closure: it has its seed, follows links, and is the least such *)
(* set of folders.                                                           *)
LEMMA BelowSeed ==
  ASSUME NEW seed, NEW links, NEW f \in Folders, f \in seed
  PROVE  f \in Below(seed, links)
BY DEF Below

LEMMA BelowLink ==
  ASSUME NEW seed, NEW links, NEW c \in Folders, NEW p \in Below(seed, links), <<c, p>> \in links
  PROVE  c \in Below(seed, links)
<1> SUFFICES ASSUME NEW U \in SUBSET Folders, seed \subseteq U,
                    \A l \in links : l[2] \in U => l[1] \in U
             PROVE  c \in U
  BY DEF Below
<1>1. p \in U
  BY DEF Below
<1> QED
  BY <1>1

LEMMA BelowGrows ==
  ASSUME NEW seed, NEW links, NEW seed2, NEW links2, seed \subseteq seed2, links \subseteq links2
  PROVE  Below(seed, links) \subseteq Below(seed2, links2)
BY DEF Below

LEMMA EverInsideFolders == \A r, pairs : EverInside(r, pairs) \subseteq Folders
BY DEF EverInside, Below

LEMMA EverInsideRoot ==
  ASSUME NEW r, NEW pairs, NEW f \in Folders, <<r, f>> \in pairs
  PROVE  Below({f}, everLink) \subseteq EverInside(r, pairs) /\ f \in EverInside(r, pairs)
BY BelowSeed, BelowGrows DEF EverInside

LEMMA EverInsideLink ==
  ASSUME NEW r, NEW pairs, NEW c \in Folders, NEW p \in EverInside(r, pairs), <<c, p>> \in everLink
  PROVE  c \in EverInside(r, pairs)
BY BelowLink DEF EverInside

LEMMA EverInsideMore ==
  ASSUME NEW r, NEW pairs, NEW more, pairs \subseteq more
  PROVE  EverInside(r, pairs) \subseteq EverInside(r, more)
BY BelowGrows DEF EverInside

(* The history of links grows, and what is below a folder with it.           *)
Grows == everLink \subseteq everLink'

LEMMA BelowRootGrows ==
  ASSUME Grows, NEW f
  PROVE  Below({f}, everLink) \subseteq Below({f}, everLink')
BY BelowGrows DEF Grows

LEMMA ReachGrows ==
  ASSUME Grows, NEW h, reach[h] \subseteq reach'[h]
  PROVE  \A r : EverInside(r, reach[h]) \subseteq EverInside(r, reach[h])'
<1> SUFFICES ASSUME NEW r PROVE EverInside(r, reach[h]) \subseteq EverInside(r, reach[h])'
  OBVIOUS
<1> DEFINE seed == {f \in Folders : <<r, f>> \in reach[h]}
           grown == {f \in Folders : <<r, f>> \in reach'[h]}
<1>1. seed \subseteq grown /\ everLink \subseteq everLink'
  BY DEF Grows
<1>2. EverInside(r, reach[h]) = Below(seed, everLink)
      /\ EverInside(r, reach[h])' = Below(grown, everLink')
  BY DEF EverInside, Below
<1> HIDE DEF seed, grown
<1> QED
  BY <1>1, <1>2, BelowGrows

LEMMA HeldGrows ==
  ASSUME Grows, NEW r, \A f \in Folders : <<r, f>> \in held => <<r, f>> \in held'
  PROVE  EverInside(r, held) \subseteq EverInside(r, held)'
<1> DEFINE seed == {f \in Folders : <<r, f>> \in held}
           grown == {f \in Folders : <<r, f>> \in held'}
<1>1. seed \subseteq grown /\ everLink \subseteq everLink'
  BY DEF Grows
<1>2. EverInside(r, held) = Below(seed, everLink) /\ EverInside(r, held)' = Below(grown, everLink')
  BY DEF EverInside, Below
<1> HIDE DEF seed, grown
<1> QED
  BY <1>1, <1>2, BelowGrows
-----------------------------------------------------------------------------
(* The phase of a request.                                                   *)
LEMMA GotoFrame ==
  ASSUME at \in [Handlers -> Phases], NEW h \in Handlers, NEW p \in Phases, Goto(h, p)
  PROVE  /\ at' \in [Handlers -> Phases]
         /\ \A k \in Handlers \ {h} : at'[k] = at[k]
         /\ at'[h] = p
  BY DEF Goto

AtMoves(h) == /\ at' \in [Handlers -> Phases]
              /\ \A k \in Handlers \ {h} : at'[k] = at[k]

LEMMA AtStep ==
  ASSUME at \in [Handlers -> Phases], NEW h \in Handlers, Begin(h) \/ Statement(h)
  PROVE  AtMoves(h)
<1>1. CASE ListFolder(h)
  BY <1>1 DEF ListFolder, AtMoves
<1>2. CASE ListFails(h)
  <2>1. Goto(h, "unTree") \/ Goto(h, "refused")
    BY <1>2 DEF ListFails, WalkFails
  <2> QED
    BY <2>1, GotoFrame DEF AtMoves, Phases, Ended
<1>3. CASE ClearTree(h)
  <2>1. Goto(h, "fill")
    BY <1>3 DEF ClearTree
  <2> QED
    BY <2>1, GotoFrame DEF AtMoves, Phases, Ended
<1>4. CASE FillRow(h)
  <2>1. UNCHANGED at \/ Goto(h, "unTree") \/ Goto(h, "refused")
    BY <1>4 DEF FillRow, WalkFails
  <2> QED
    BY <2>1, GotoFrame DEF AtMoves, Phases, Ended
<1>5. CASE Filled(h)
  <2>1. Goto(h, "ok") \/ Goto(h, "next") \/ Goto(h, "read")
    BY <1>5 DEF Filled, AfterWalk
  <2> QED
    BY <2>1, GotoFrame DEF AtMoves, Phases, Ended
<1>6. CASE Insert(h)
  <2>1. Goto(h, "walk") \/ Goto(h, "refused")
    BY <1>6 DEF Insert
  <2> QED
    BY <2>1, GotoFrame DEF AtMoves, Phases, Ended
<1>7. CASE Write(h)
  <2>1. Goto(h, "walk") \/ Goto(h, "refused")
    BY <1>7 DEF Write
  <2> QED
    BY <2>1, GotoFrame DEF AtMoves, Phases, Ended
<1>8. CASE UnTree(h)
  <2>1. Goto(h, "unGrant")
    BY <1>8 DEF UnTree
  <2> QED
    BY <2>1, GotoFrame DEF AtMoves, Phases, Ended
<1>9. CASE UnGrant(h)
  <2>1. Goto(h, "unRow")
    BY <1>9 DEF UnGrant
  <2> QED
    BY <2>1, GotoFrame DEF AtMoves, Phases, Ended
<1>10. CASE UnRow(h)
  <2>1. Goto(h, "refused") \/ Goto(h, "ok") \/ Goto(h, "unConnect") \/ Goto(h, "unTree")
    BY <1>10 DEF UnRow
  <2> QED
    BY <2>1, GotoFrame DEF AtMoves, Phases, Ended
<1>11. CASE UnConnect(h)
  <2>1. Goto(h, "ok")
    BY <1>11 DEF UnConnect
  <2> QED
    BY <2>1, GotoFrame DEF AtMoves, Phases, Ended
<1>12. CASE ClearGrants(h)
  <2>1. Goto(h, "grantRow")
    BY <1>12 DEF ClearGrants
  <2> QED
    BY <2>1, GotoFrame DEF AtMoves, Phases, Ended
<1>13. CASE GrantRow(h)
  <2>1. UNCHANGED at \/ Goto(h, "refused")
    BY <1>13 DEF GrantRow
  <2> QED
    BY <2>1, GotoFrame DEF AtMoves, Phases, Ended
<1>14. CASE GrantsSaved(h)
  <2>1. Goto(h, "ok")
    BY <1>14 DEF GrantsSaved
  <2> QED
    BY <2>1, GotoFrame DEF AtMoves, Phases, Ended
<1>15. CASE Resolve(h)
  <2>1. \/ Goto(h, "refused") \/ Goto(h, "meta") \/ Goto(h, "next") \/ Goto(h, "ensure")
        \/ Goto(h, "forward")
    BY <1>15 DEF Resolve, FirstPhase
  <2> QED
    BY <2>1, GotoFrame DEF AtMoves, Phases, Ended
<1>16. CASE Meta(h)
  <2>1. Goto(h, "match") \/ Goto(h, "refused")
    BY <1>16 DEF Meta
  <2> QED
    BY <2>1, GotoFrame DEF AtMoves, Phases, Ended
<1>17. CASE Match(h)
  <2>1. UNCHANGED at \/ Goto(h, "served")
    BY <1>17 DEF Match
  <2> QED
    BY <2>1, GotoFrame DEF AtMoves, Phases, Ended
<1>18. CASE NoMatch(h)
  <2>1. Goto(h, "next") \/ Goto(h, "outside")
    BY <1>18 DEF NoMatch
  <2> QED
    BY <2>1, GotoFrame DEF AtMoves, Phases, Ended
<1>19. CASE WalkNext(h)
  <2>1. Goto(h, "walk")
    BY <1>19 DEF WalkNext
  <2> QED
    BY <2>1, GotoFrame DEF AtMoves, Phases, Ended
<1>20. CASE AllWalked(h)
  <2>1. Goto(h, "ok") \/ Goto(h, "rematch")
    BY <1>20 DEF AllWalked
  <2> QED
    BY <2>1, GotoFrame DEF AtMoves, Phases, Ended
<1>21. CASE Ensure(h)
  <2>1. Goto(h, "read") \/ Goto(h, "walk")
    BY <1>21 DEF Ensure
  <2> QED
    BY <2>1, GotoFrame DEF AtMoves, Phases, Ended
<1>22. CASE ReadTree(h)
  <2>1. Goto(h, "ensure") \/ Goto(h, "refused") \/ Goto(h, "served")
    BY <1>22 DEF ReadTree
  <2> QED
    BY <2>1, GotoFrame DEF AtMoves, Phases, Ended
<1>23. CASE TargetFound(h)
  <2>1. Goto(h, "subtree") \/ Goto(h, "forward")
    BY <1>23 DEF TargetFound
  <2> QED
    BY <2>1, GotoFrame DEF AtMoves, Phases, Ended
<1>24. CASE TargetMissed(h)
  <2>1. Goto(h, "walk") \/ Goto(h, "outside")
    BY <1>24 DEF TargetMissed
  <2> QED
    BY <2>1, GotoFrame DEF AtMoves, Phases, Ended
<1>25. CASE ReadSubtree(h)
  <2>1. Goto(h, "served")
    BY <1>25 DEF ReadSubtree
  <2> QED
    BY <2>1, GotoFrame DEF AtMoves, Phases, Ended
<1>26. CASE Forward(h)
  <2>1. Goto(h, "served") \/ Goto(h, "move") \/ Goto(h, "moveOld") \/ Goto(h, "refused")
    BY <1>26 DEF Forward
  <2> QED
    BY <2>1, GotoFrame DEF AtMoves, Phases, Ended
<1>27. CASE MoveMade(h)
  <2>1. Goto(h, "served") \/ Goto(h, "refused")
    BY <1>27 DEF MoveMade
  <2> QED
    BY <2>1, GotoFrame DEF AtMoves, Phases, Ended
<1>28. ASSUME NEW r \in Refs, BeginRefresh(h, r) PROVE AtMoves(h)
  <2>1. Goto(h, "walk")
    BY <1>28 DEF BeginRefresh
  <2> QED
    BY <2>1, GotoFrame DEF AtMoves, Phases, Ended
<1>29. ASSUME NEW r \in Refs, BeginDelete(h, r) PROVE AtMoves(h)
  <2>1. Goto(h, "unTree")
    BY <1>29 DEF BeginDelete
  <2> QED
    BY <2>1, GotoFrame DEF AtMoves, Phases, Ended
<1>30. ASSUME NEW r \in Refs, NEW f \in Folders, BeginAdd(h, r, f) PROVE AtMoves(h)
  <2>1. Goto(h, "insert")
    BY <1>30 DEF BeginAdd
  <2> QED
    BY <2>1, GotoFrame DEF AtMoves, Phases, Ended
<1>31. ASSUME NEW r \in Refs, NEW f \in Folders, BeginUpdate(h, r, f) PROVE AtMoves(h)
  <2>1. Goto(h, "write")
    BY <1>31 DEF BeginUpdate
  <2> QED
    BY <2>1, GotoFrame DEF AtMoves, Phases, Ended
<1>32. CASE BeginDrop(h)
  <2>1. Goto(h, "unTree") \/ Goto(h, "unConnect")
    BY <1>32 DEF BeginDrop
  <2> QED
    BY <2>1, GotoFrame DEF AtMoves, Phases, Ended
<1>33. ASSUME NEW rs \in SUBSET Refs, BeginGrant(h, rs) PROVE AtMoves(h)
  <2>1. Goto(h, "clear")
    BY <1>33 DEF BeginGrant
  <2> QED
    BY <2>1, GotoFrame DEF AtMoves, Phases, Ended
<1>34. ASSUME NEW kind \in Agent, NEW r \in Refs \union {None}, NEW f \in Places, BeginRequest(h, kind, r, f)
       PROVE  AtMoves(h)
  <2>1. Goto(h, "resolve")
    BY <1>34 DEF BeginRequest
  <2> QED
    BY <2>1, GotoFrame DEF AtMoves, Phases, Ended
<1> QED
  BY <1>1, <1>2, <1>3, <1>4, <1>5, <1>6, <1>7, <1>8, <1>9, <1>10, <1>11, <1>12, <1>13,
     <1>14, <1>15, <1>16, <1>17, <1>18, <1>19, <1>20, <1>21, <1>22, <1>23, <1>24, <1>25,
     <1>26, <1>27, <1>28, <1>29, <1>30, <1>31, <1>32, <1>33, <1>34 DEF Begin, Statement
-----------------------------------------------------------------------------
(* Which statements change a variable.                                       *)
Frame(h) ==
  /\ UNCHANGED google
  /\ UNCHANGED workspace \/ UnConnect(h)
  /\ UNCHANGED root \/ Insert(h) \/ Write(h) \/ UnRow(h)
  /\ UNCHANGED held \/ Insert(h) \/ Write(h) \/ ClearTree(h)
  /\ UNCHANGED granted \/ UnGrant(h) \/ UnRow(h) \/ UnConnect(h) \/ ClearGrants(h)
       \/ GrantRow(h)
  /\ UNCHANGED tree \/ ClearTree(h) \/ FillRow(h) \/ UnTree(h) \/ UnRow(h)
  /\ UNCHANGED list \/ Resolve(h)
  /\ UNCHANGED left \/ ListFails(h) \/ FillRow(h) \/ UnRow(h) \/ ClearGrants(h)
       \/ GrantRow(h) \/ Resolve(h) \/ Match(h) \/ NoMatch(h) \/ WalkNext(h)
       \/ AllWalked(h) \/ Ensure(h) \/ (\E r \in Refs : BeginDelete(h, r))
       \/ BeginDrop(h)
  /\ UNCHANGED near \/ Meta(h) \/ TargetMissed(h)
  /\ UNCHANGED walk \/ ListFolder(h) \/ FillRow(h) \/ Insert(h) \/ Write(h)
       \/ UnTree(h) \/ WalkNext(h) \/ Ensure(h) \/ TargetMissed(h)
       \/ (\E r \in Refs : BeginRefresh(h, r))
  /\ UNCHANGED through \/ Match(h) \/ ReadTree(h) \/ TargetFound(h)
       \/ ReadSubtree(h) \/ Forward(h)
  /\ UNCHANGED made \/ Match(h) \/ Forward(h) \/ MoveMade(h)
  /\ UNCHANGED <<job, met>> \/ Begin(h)
  /\ UNCHANGED lent \/ Begin(h) \/ GrantRow(h)
  /\ UNCHANGED reach \/ Begin(h) \/ Insert(h) \/ Write(h)

LEMMA FrameStep ==
  ASSUME NEW h \in Handlers, Begin(h) \/ Statement(h)
  PROVE  Frame(h)
<1>1. CASE Statement(h)
  <2>1. CASE ListFolder(h)
    BY <2>1 DEF Frame, ListFolder, db, google
  <2>2. CASE ListFails(h)
    BY <2>2 DEF Frame, ListFails, db, google
  <2>3. CASE ClearTree(h)
    BY <2>3 DEF Frame, ClearTree, db, google
  <2>4. CASE FillRow(h)
    BY <2>4 DEF Frame, FillRow, db, google
  <2>5. CASE Filled(h)
    BY <2>5 DEF Frame, Filled, db, google
  <2>6. CASE Insert(h)
    BY <2>6 DEF Frame, Insert, db, google
  <2>7. CASE Write(h)
    BY <2>7 DEF Frame, Write, db, google
  <2>8. CASE UnTree(h)
    BY <2>8 DEF Frame, UnTree, db, google
  <2>9. CASE UnGrant(h)
    BY <2>9 DEF Frame, UnGrant, db, google
  <2>10. CASE UnRow(h)
    BY <2>10 DEF Frame, UnRow, db, google
  <2>11. CASE UnConnect(h)
    BY <2>11 DEF Frame, UnConnect, db, google
  <2>12. CASE ClearGrants(h)
    BY <2>12 DEF Frame, ClearGrants, db, google
  <2>13. CASE GrantRow(h)
    BY <2>13 DEF Frame, GrantRow, db, google
  <2>14. CASE GrantsSaved(h)
    BY <2>14 DEF Frame, GrantsSaved, db, google
  <2>15. CASE Resolve(h)
    BY <2>15 DEF Frame, Resolve, db, google
  <2>16. CASE Meta(h)
    BY <2>16 DEF Frame, Meta, db, google
  <2>17. CASE Match(h)
    BY <2>17 DEF Frame, Match, db, google
  <2>18. CASE NoMatch(h)
    BY <2>18 DEF Frame, NoMatch, db, google
  <2>19. CASE WalkNext(h)
    BY <2>19 DEF Frame, WalkNext, db, google
  <2>20. CASE AllWalked(h)
    BY <2>20 DEF Frame, AllWalked, db, google
  <2>21. CASE Ensure(h)
    BY <2>21 DEF Frame, Ensure, db, google
  <2>22. CASE ReadTree(h)
    BY <2>22 DEF Frame, ReadTree, db, google
  <2>23. CASE TargetFound(h)
    BY <2>23 DEF Frame, TargetFound, db, google
  <2>24. CASE TargetMissed(h)
    BY <2>24 DEF Frame, TargetMissed, db, google
  <2>25. CASE ReadSubtree(h)
    BY <2>25 DEF Frame, ReadSubtree, db, google
  <2>26. CASE Forward(h)
    BY <2>26 DEF Frame, Forward, db, google
  <2>27. CASE MoveMade(h)
    BY <2>27 DEF Frame, MoveMade, db, google
  <2> QED
    BY <1>1, <2>1, <2>2, <2>3, <2>4, <2>5, <2>6, <2>7, <2>8, <2>9, <2>10, <2>11, <2>12,
       <2>13, <2>14, <2>15, <2>16, <2>17, <2>18, <2>19, <2>20, <2>21, <2>22, <2>23, <2>24,
       <2>25, <2>26, <2>27 DEF Statement
<1>2. CASE Begin(h)
  <2>1. ASSUME NEW r \in Refs, BeginRefresh(h, r) PROVE Frame(h)
    BY <1>2, <2>1 DEF Frame, BeginRefresh, db, google, Arrive
  <2>2. ASSUME NEW r \in Refs, BeginDelete(h, r) PROVE Frame(h)
    BY <1>2, <2>2 DEF Frame, BeginDelete, db, google, Arrive
  <2>3. ASSUME NEW r \in Refs, NEW f \in Folders, BeginAdd(h, r, f) PROVE Frame(h)
    BY <1>2, <2>3 DEF Frame, BeginAdd, db, google, Arrive
  <2>4. ASSUME NEW r \in Refs, NEW f \in Folders, BeginUpdate(h, r, f) PROVE Frame(h)
    BY <1>2, <2>4 DEF Frame, BeginUpdate, db, google, Arrive
  <2>5. CASE BeginDrop(h)
    BY <1>2, <2>5 DEF Frame, BeginDrop, db, google, Arrive
  <2>6. ASSUME NEW rs \in SUBSET Refs, BeginGrant(h, rs) PROVE Frame(h)
    BY <1>2, <2>6 DEF Frame, BeginGrant, db, google, Arrive
  <2>7. ASSUME NEW kind \in Agent, NEW r \in Refs \union {None}, NEW f \in Places, BeginRequest(h, kind, r, f)
        PROVE  Frame(h)
    BY <1>2, <2>7 DEF Frame, BeginRequest, db, google, Arrive
  <2> QED
    BY <1>2, <2>1, <2>2, <2>3, <2>4, <2>5, <2>6, <2>7 DEF Begin
<1> QED
  BY <1>1, <1>2
-----------------------------------------------------------------------------
(* A statement of a request changes the locals of that request only, and     *)
(* they keep their types.                                                    *)
Alters(f, g, h, T) == /\ g \in [Handlers -> T]
                      /\ \A k \in Handlers \ {h} : g[k] = f[k]

LEMMA PutAlters ==
  ASSUME NEW T, NEW f \in [Handlers -> T], NEW h \in Handlers, NEW v \in T
  PROVE  /\ Alters(f, [f EXCEPT ![h] = v], h, T)
         /\ [f EXCEPT ![h] = v][h] = v
BY DEF Alters

LEMMA KeepAlters ==
  ASSUME NEW T, NEW f \in [Handlers -> T], NEW h \in Handlers, NEW g, g = f
  PROVE  Alters(f, g, h, T)
BY DEF Alters

LEMMA StartWalkPuts ==
  ASSUME walk \in [Handlers -> Walks], NEW h \in Handlers,
         NEW r \in Refs, NEW f \in Folders, StartWalk(h, r, f)
  PROVE  /\ Alters(walk, walk', h, Walks)
         /\ walk'[h] = [ref |-> r, root |-> f, todo |-> {f}, found |-> {<<f, None>>}]
<1>1. [ref |-> r, root |-> f, todo |-> {f}, found |-> {<<f, None>>}] \in Walks
  BY DEF Walks, Rows, Places
<1> QED
  BY <1>1, PutAlters DEF StartWalk

(* A walk with one or two of its fields replaced.                            *)
LEMMA WalkFound ==
  ASSUME NEW w \in Walks, NEW f
  PROVE  [w EXCEPT !.found = f] = [ref |-> w.ref, root |-> w.root, todo |-> w.todo, found |-> f]
BY DEF Walks

LEMMA WalkTodo ==
  ASSUME NEW w \in Walks, NEW t
  PROVE  [w EXCEPT !.todo = t] = [ref |-> w.ref, root |-> w.root, todo |-> t, found |-> w.found]
BY DEF Walks

LEMMA WalkTodoFound ==
  ASSUME NEW w \in Walks, NEW t \in SUBSET Folders, NEW f
  PROVE  [[w EXCEPT !.todo = t] EXCEPT !.found = f]
           = [ref |-> w.ref, root |-> w.root, todo |-> t, found |-> f]
<1> DEFINE v == [w EXCEPT !.todo = t]
<1>1. v = [ref |-> w.ref, root |-> w.root, todo |-> t, found |-> w.found]
  BY WalkTodo
<1>2. v \in Walks
  BY <1>1 DEF Walks
<1>3. v.ref = w.ref /\ v.root = w.root /\ v.todo = t
  BY <1>1
<1> HIDE DEF v
<1>4. [v EXCEPT !.found = f] = [ref |-> v.ref, root |-> v.root, todo |-> v.todo, found |-> f]
  BY <1>2, WalkFound
<1> QED
  BY <1>3, <1>4 DEF v

(* The walk grows by what the listing of a folder of the queue returns.      *)
LEMMA ListFolderPuts ==
  ASSUME TypeOK, NEW h \in Handlers, ListFolder(h)
  PROVE  /\ Alters(walk, walk', h, Walks)
         /\ walk'[h].ref = walk[h].ref /\ walk'[h].root = walk[h].root
         /\ \E p \in walk[h].todo : \E children \in SUBSET Folders :
              /\ \A c \in children : parent[c] = p
              /\ \A c \in Folders : parent[c] = p =>
                   c \in children \union FoldersOf(walk[h].found)
              /\ walk'[h].todo = (walk[h].todo \ {p}) \union children
              /\ walk'[h].found = walk[h].found \union (children \X {p})
<1>1. walk \in [Handlers -> Walks]
  BY DEF TypeOK
<1>2. PICK p \in walk[h].todo :
        LET children == {c \in Folders : /\ parent[c] = p
                                         /\ c \notin FoldersOf(walk[h].found)}
        IN walk' = [walk EXCEPT
             ![h].todo = (walk[h].todo \ {p}) \union children,
             ![h].found = walk[h].found \union (children \X {p})]
  BY DEF ListFolder
<1> DEFINE children == {c \in Folders : /\ parent[c] = p
                                        /\ c \notin FoldersOf(walk[h].found)}
           next == [ref |-> walk[h].ref, root |-> walk[h].root,
                    todo |-> (walk[h].todo \ {p}) \union children,
                    found |-> walk[h].found \union (children \X {p})]
<1>3. /\ p \in Folders /\ children \in SUBSET Folders
      /\ \A c \in children : parent[c] = p
      /\ \A c \in Folders : parent[c] = p => c \in children \union FoldersOf(walk[h].found)
  BY <1>1 DEF Walks
<1>4. walk' = [walk EXCEPT ![h].todo = (walk[h].todo \ {p}) \union children,
                           ![h].found = walk[h].found \union (children \X {p})]
  BY <1>2
<1> HIDE DEF children
<1>5. walk' = [walk EXCEPT ![h] = next]
  <2>1. walk[h] \in Walks /\ (walk[h].todo \ {p}) \union children \in SUBSET Folders
    BY <1>1, <1>3 DEF Walks
  <2>2. walk' = [walk EXCEPT ![h] =
           [[walk[h] EXCEPT !.todo = (walk[h].todo \ {p}) \union children]
              EXCEPT !.found = walk[h].found \union (children \X {p})]]
    BY <1>1, <1>4
  <2>3. [[walk[h] EXCEPT !.todo = (walk[h].todo \ {p}) \union children]
           EXCEPT !.found = walk[h].found \union (children \X {p})] = next
    BY <2>1, WalkTodoFound
  <2> QED
    BY <2>2, <2>3
<1>6. next \in Walks
  BY <1>1, <1>3 DEF Walks, Rows, Places
<1>7. Alters(walk, walk', h, Walks) /\ walk'[h] = next
  BY <1>1, <1>5, <1>6, PutAlters
<1> QED
  BY <1>3, <1>7

(* A row is inserted, or it is refused and the walk has failed.              *)
LEMMA FillRowPuts ==
  ASSUME TypeOK, NEW h \in Handlers, FillRow(h)
  PROVE  /\ Alters(walk, walk', h, Walks)
         /\ walk'[h].ref = walk[h].ref /\ walk'[h].root = walk[h].root
         /\ walk'[h].todo = walk[h].todo /\ walk'[h].found \subseteq walk[h].found
<1>1. walk \in [Handlers -> Walks]
  BY DEF TypeOK
<1>2. UNCHANGED walk \/ \E e \in walk[h].found : walk' = [walk EXCEPT ![h].found = @ \ {e}]
  BY DEF FillRow
<1>3. CASE UNCHANGED walk
  BY <1>1, <1>3, KeepAlters
<1>4. ASSUME NEW e \in walk[h].found, walk' = [walk EXCEPT ![h].found = @ \ {e}]
      PROVE  /\ Alters(walk, walk', h, Walks)
             /\ walk'[h].ref = walk[h].ref /\ walk'[h].root = walk[h].root
             /\ walk'[h].todo = walk[h].todo /\ walk'[h].found \subseteq walk[h].found
  <2> DEFINE next == [ref |-> walk[h].ref, root |-> walk[h].root, todo |-> walk[h].todo,
                      found |-> walk[h].found \ {e}]
  <2>1. walk[h] \in Walks
    BY <1>1
  <2>2. walk' = [walk EXCEPT ![h] = [walk[h] EXCEPT !.found = walk[h].found \ {e}]]
    BY <1>1, <1>4
  <2>3. walk' = [walk EXCEPT ![h] = next]
    BY <2>1, <2>2, WalkFound
  <2>4. next \in Walks
    BY <2>1 DEF Walks
  <2> QED
    BY <1>1, <2>3, <2>4, PutAlters
<1> QED
  BY <1>2, <1>3, <1>4

LEMMA WalkStep ==
  ASSUME TypeOK, NEW h \in Handlers, Begin(h) \/ Statement(h), Fits(h)
  PROVE  Alters(walk, walk', h, Walks)
<1>1. walk \in [Handlers -> Walks] /\ list \in [Handlers -> [Refs -> Places]]
      /\ left \in [Handlers -> SUBSET Refs] /\ root \in [Refs -> Places]
      /\ near \in [Handlers -> Places \union {MyDrive}]
  BY DEF TypeOK
<1>2. \A r \in left[h] : r \in Refs /\ list[h][r] \in Places
  BY <1>1
<1>3. CASE UNCHANGED walk
  BY <1>1, <1>3, KeepAlters
<1>4. CASE ListFolder(h)
  BY <1>4, ListFolderPuts
<1>5. CASE FillRow(h)
  BY <1>5, FillRowPuts
<1>6. CASE Insert(h) \/ Write(h)
  <2>1. job[h].ref \in Refs /\ job[h].want \in Folders
    BY <1>6 DEF Fits, Insert, Write
  <2>2. UNCHANGED walk \/ StartWalk(h, job[h].ref, job[h].want)
    BY <1>6 DEF Insert, Write
  <2> QED
    BY <1>1, <1>3, <2>1, <2>2, StartWalkPuts
<1>7. CASE UnTree(h)
  <2>1. PICK r \in left[h] : walk' = [walk EXCEPT ![h] = [NoWalk EXCEPT !.ref = r]]
    BY <1>7 DEF UnTree
  <2>2. [NoWalk EXCEPT !.ref = r] \in Walks
    BY <1>2 DEF NoWalk, Walks, Places
  <2> QED
    BY <1>1, <2>1, <2>2, PutAlters
<1>8. CASE WalkNext(h) \/ Ensure(h)
  <2>1. PICK r \in left[h] : StartWalk(h, r, list[h][r])
    BY <1>8 DEF WalkNext, Ensure
  <2>2. list[h][r] # None
    BY <1>8 DEF Fits, WalkNext, Ensure, Copied
  <2> QED
    BY <1>1, <1>2, <2>1, <2>2, StartWalkPuts DEF Places
<1>9. CASE TargetMissed(h)
  <2>1. walk[h].ref \in Refs /\ walk[h].root \in Folders
    BY <1>9 DEF Fits, TargetMissed
  <2>2. UNCHANGED walk \/ StartWalk(h, walk[h].ref, walk[h].root)
    BY <1>9 DEF TargetMissed
  <2> QED
    BY <1>1, <1>3, <2>1, <2>2, StartWalkPuts
<1>10. CASE \E r \in Refs : BeginRefresh(h, r)
  <2>1. PICK r \in Refs : root[r] # None /\ StartWalk(h, r, root[r])
    BY <1>10 DEF BeginRefresh
  <2> QED
    BY <1>1, <2>1, StartWalkPuts DEF Places
<1> QED
  BY FrameStep, <1>3, <1>4, <1>5, <1>6, <1>7, <1>8, <1>9, <1>10 DEF Frame

LEMMA LeftStep ==
  ASSUME TypeOK, NEW h \in Handlers, Begin(h) \/ Statement(h), Fits(h)
  PROVE  Alters(left, left', h, SUBSET Refs)
<1>1. left \in [Handlers -> SUBSET Refs] /\ left[h] \in SUBSET Refs
  BY DEF TypeOK
<1>2. job[h].refs \in SUBSET Refs
  BY DEF TypeOK, Jobs
<1>3. CASE UNCHANGED left
  BY <1>1, <1>3, KeepAlters
<1>4. ASSUME NEW S \in SUBSET Refs, left' = [left EXCEPT ![h] = S]
      PROVE  Alters(left, left', h, SUBSET Refs)
  BY <1>1, <1>4, PutAlters
<1>5. CASE ListFails(h) \/ FillRow(h)
  <2>1. {walk[h].ref} \in SUBSET Refs
    BY <1>5 DEF ListFails, FillRow, Fits
  <2>2. CASE left' = [left EXCEPT ![h] = {walk[h].ref}]
    BY <1>4, <2>1, <2>2
  <2>3. UNCHANGED left \/ left' = [left EXCEPT ![h] = {walk[h].ref}]
    BY <1>5 DEF ListFails, FillRow, WalkFails
  <2> QED
    BY <1>3, <2>2, <2>3
<1>6. CASE UnRow(h)
  BY <1>1, <1>4, <1>6 DEF UnRow
<1>7. CASE ClearGrants(h)
  BY <1>2, <1>4, <1>7 DEF ClearGrants
<1>8. CASE GrantRow(h) \/ Match(h)
  <2>1. UNCHANGED left \/ \E r \in left[h] : left' = [left EXCEPT ![h] = left[h] \ {r}]
    BY <1>8 DEF GrantRow, Match
  <2>2. ASSUME NEW r \in left[h], left' = [left EXCEPT ![h] = left[h] \ {r}]
        PROVE  Alters(left, left', h, SUBSET Refs)
    <3>1. left[h] \ {r} \in SUBSET Refs
      BY <1>1
    <3> QED
      BY <1>4, <2>2, <3>1
  <2> QED
    BY <1>3, <2>1, <2>2
<1>9. CASE Resolve(h)
  BY <1>4, <1>9 DEF Resolve
<1>10. CASE NoMatch(h) \/ AllWalked(h)
  <2>1. UNCHANGED left \/ left' = [left EXCEPT ![h] = {r \in Refs : list[h][r] # None}]
    BY <1>10 DEF NoMatch, AllWalked
  <2>2. CASE left' = [left EXCEPT ![h] = {r \in Refs : list[h][r] # None}]
    BY <1>4, <2>2
  <2> QED
    BY <1>3, <2>1, <2>2
<1>11. CASE WalkNext(h) \/ Ensure(h)
  <2>1. \E r \in left[h] : left' = [left EXCEPT ![h] = left[h] \ {r}]
    BY <1>11 DEF WalkNext, Ensure
  <2> QED
    BY <1>1, <1>4, <2>1
<1>12. CASE \E r \in Refs : BeginDelete(h, r)
  <2>1. PICK r \in Refs : left' = [left EXCEPT ![h] = {r}]
    BY <1>12 DEF BeginDelete
  <2> QED
    BY <1>4, <2>1
<1>13. CASE BeginDrop(h)
  BY <1>4, <1>13 DEF BeginDrop
<1> QED
  BY FrameStep, <1>3, <1>5, <1>6, <1>7, <1>8, <1>9, <1>10, <1>11, <1>12, <1>13 DEF Frame

LEMMA ListStep ==
  ASSUME TypeOK, NEW h \in Handlers, Begin(h) \/ Statement(h)
  PROVE  Alters(list, list', h, [Refs -> Places])
<1>1. list \in [Handlers -> [Refs -> Places]] /\ root \in [Refs -> Places]
  BY DEF TypeOK
<1>2. CASE UNCHANGED list
  BY <1>1, <1>2, KeepAlters
<1>3. CASE Resolve(h)
  <2> DEFINE rs == {s \in Refs : Lists(job[h].ref, s)}
             copy == [s \in Refs |-> IF s \in rs THEN root[s] ELSE None]
  <2>1. list' = [list EXCEPT ![h] = copy]
    BY <1>3 DEF Resolve
  <2>2. copy \in [Refs -> Places]
    BY <1>1 DEF Places
  <2> QED
    BY <1>1, <2>1, <2>2, PutAlters
<1> QED
  BY FrameStep, <1>2, <1>3 DEF Frame

LEMMA NearStep ==
  ASSUME TypeOK, NEW h \in Handlers, Begin(h) \/ Statement(h), Fits(h)
  PROVE  Alters(near, near', h, Places \union {MyDrive})
<1>1. near \in [Handlers -> Places \union {MyDrive}] /\ parent \in [Folders -> Places]
  BY DEF TypeOK
<1>2. CASE UNCHANGED near
  BY <1>1, <1>2, KeepAlters
<1>3. CASE Meta(h)
  <2>1. job[h].want \in Folders
    BY <1>3 DEF Meta, Fits
  <2>2. UNCHANGED near \/ near' = [near EXCEPT ![h] = Reported(job[h].want)]
    BY <1>3 DEF Meta
  <2>3. Reported(job[h].want) \in Places \union {MyDrive}
    BY <1>1, <2>1 DEF Reported
  <2> QED
    BY <1>1, <1>2, <2>2, <2>3, PutAlters
<1>4. CASE TargetMissed(h)
  <2>1. walk[h].root \in Places \union {MyDrive}
    BY <1>4 DEF TargetMissed, Fits, Places
  <2>2. UNCHANGED near \/ near' = [near EXCEPT ![h] = walk[h].root]
    BY <1>4 DEF TargetMissed
  <2> QED
    BY <1>1, <1>2, <2>1, <2>2, PutAlters
<1> QED
  BY FrameStep, <1>2, <1>3, <1>4 DEF Frame

LEMMA ThroughStep ==
  ASSUME TypeOK, NEW h \in Handlers, Begin(h) \/ Statement(h), Fits(h)
  PROVE  Alters(through, through', h, SUBSET (Folders \union {MyDrive}))
<1> DEFINE wide == Folders \union {MyDrive}
<1>1. through \in [Handlers -> SUBSET wide] /\ through[h] \in SUBSET wide
  BY DEF TypeOK
<1>2. \A r \in Refs : FoldersOf(tree[r]) \subseteq Folders
  BY DEF TypeOK, FoldersOf, Rows
<1>3. CASE UNCHANGED through
  BY <1>1, <1>3, KeepAlters
<1>4. ASSUME NEW S \in SUBSET wide, through' = [through EXCEPT ![h] = S]
      PROVE  Alters(through, through', h, SUBSET (Folders \union {MyDrive}))
  BY <1>1, <1>4, PutAlters
<1>5. job[h].want \in Places
  BY DEF TypeOK, Jobs
<1>6. CASE Match(h) \/ TargetFound(h)
  <2>1. {job[h].want} \in SUBSET wide
    BY <1>5, <1>6 DEF Match, TargetFound, Fits, Places
  <2>2. CASE through' = [through EXCEPT ![h] = {job[h].want}]
    BY <1>4, <2>1, <2>2
  <2>3. UNCHANGED through \/ through' = [through EXCEPT ![h] = {job[h].want}]
    BY <1>6 DEF Match, TargetFound
  <2> QED
    BY <1>3, <2>2, <2>3
<1>7. CASE ReadTree(h)
  <2>1. walk[h].ref \in Refs
    BY <1>7 DEF ReadTree, Fits
  <2> DEFINE fs == through[h] \union FoldersOf(tree[walk[h].ref])
  <2>2. \/ UNCHANGED through
        \/ through' = [through EXCEPT ![h] = fs]
        \/ through' = [through EXCEPT ![h] = fs \union {MyDrive}]
    BY <1>7 DEF ReadTree, Searched
  <2>3. fs \in SUBSET wide /\ fs \union {MyDrive} \in SUBSET wide
    BY <1>1, <1>2, <2>1
  <2> HIDE DEF fs, wide
  <2> QED
    BY <1>3, <1>4, <2>2, <2>3
<1>8. CASE ReadSubtree(h)
  <2>1. walk[h].ref \in Refs /\ job[h].want \in Folders
    BY <1>8 DEF ReadSubtree, Fits
  <2> DEFINE rows == tree[walk[h].ref]
             want == job[h].want
             S == IF want \in FoldersOf(rows) THEN FoldersOf(rows) \intersect Below({want}, rows)
                  ELSE {want}
  <2>2. \/ through' = [through EXCEPT ![h] = S]
        \/ through' = [through EXCEPT ![h] = S \union {MyDrive}]
    BY <1>8 DEF ReadSubtree, Searched
  <2>3. S \in SUBSET wide /\ S \union {MyDrive} \in SUBSET wide
    BY <1>2, <2>1
  <2> HIDE DEF S, wide
  <2> QED
    BY <1>4, <2>2, <2>3
<1>9. CASE Forward(h)
  <2>1. UNCHANGED through \/ through' = [through EXCEPT ![h] = {MyDrive}]
    BY <1>9 DEF Forward
  <2> QED
    BY <1>3, <1>4, <2>1
<1> QED
  BY FrameStep, <1>3, <1>6, <1>7, <1>8, <1>9 DEF Frame

LEMMA MadeStep ==
  ASSUME TypeOK, NEW h \in Handlers, Begin(h) \/ Statement(h)
  PROVE  made' \in [Handlers -> Places \union {MyDrive}]
<1>1. made \in [Handlers -> Places \union {MyDrive}] /\ job[h].want \in Places
  BY DEF TypeOK, Jobs
<1>2. \/ UNCHANGED made
      \/ \E p \in Places \union {MyDrive} : made' = [made EXCEPT ![h] = p]
  BY <1>1, FrameStep DEF Frame, Match, Forward, MoveMade
<1> QED
  BY <1>1, <1>2

(* A request that arrives.                                                   *)
LEMMA ArrivePuts ==
  ASSUME TypeOK, NEW h \in Handlers, NEW kind \in Console \union Agent,
         NEW r \in Refs \union {None}, NEW f \in Places, NEW rs \in SUBSET Refs,
         Arrive(h, kind, r, f, rs)
  PROVE  /\ Alters(job, job', h, Jobs)
         /\ job'[h] = [kind |-> kind, ref |-> r, want |-> f, refs |-> rs]
         /\ Alters(lent, lent', h, SUBSET Refs) /\ lent'[h] = granted
         /\ Alters(reach, reach', h, SUBSET (Refs \X Folders)) /\ reach'[h] = held
         /\ met' \in [Handlers -> SUBSET (Handlers \union {"google"})]
         /\ at[h] = "idle"
<1>1. /\ job \in [Handlers -> Jobs] /\ lent \in [Handlers -> SUBSET Refs]
      /\ met \in [Handlers -> SUBSET (Handlers \union {"google"})] /\ granted \in SUBSET Refs
      /\ reach \in [Handlers -> SUBSET (Refs \X Folders)] /\ held \in SUBSET (Refs \X Folders)
  BY DEF TypeOK
<1>2. [kind |-> kind, ref |-> r, want |-> f, refs |-> rs] \in Jobs
  BY DEF Jobs
<1>3. /\ job' = [job EXCEPT ![h] = [kind |-> kind, ref |-> r, want |-> f, refs |-> rs]]
      /\ met' = [k \in Handlers |-> IF k = h THEN Running
                                    ELSE IF k \in Running THEN met[k] \union {h}
                                    ELSE met[k]]
      /\ lent' = [lent EXCEPT ![h] = granted]
      /\ reach' = [reach EXCEPT ![h] = held]
      /\ at[h] = "idle"
  BY DEF Arrive
<1>4. Running \in SUBSET Handlers
  BY DEF Running
<1>5. met' \in [Handlers -> SUBSET (Handlers \union {"google"})]
  BY <1>1, <1>3, <1>4
<1>6. Alters(job, job', h, Jobs)
      /\ job'[h] = [kind |-> kind, ref |-> r, want |-> f, refs |-> rs]
  BY <1>1, <1>2, <1>3, PutAlters
<1>7. Alters(lent, lent', h, SUBSET Refs) /\ lent'[h] = granted
  BY <1>1, <1>3, PutAlters
<1>8. Alters(reach, reach', h, SUBSET (Refs \X Folders)) /\ reach'[h] = held
  BY <1>1, <1>3, PutAlters
<1> QED
  BY <1>3, <1>5, <1>6, <1>7, <1>8

LEMMA BeginArrives ==
  ASSUME NEW h \in Handlers, Begin(h)
  PROVE  \E kind \in Console \union Agent, r \in Refs \union {None}, f \in Places,
            rs \in SUBSET Refs : Arrive(h, kind, r, f, rs)
<1> USE DEF Console, Places
<1>1. ASSUME NEW r \in Refs, BeginRefresh(h, r) \/ BeginDelete(h, r)
      PROVE  Arrive(h, "refresh", r, None, {}) \/ Arrive(h, "delete", r, None, {})
  BY <1>1 DEF BeginRefresh, BeginDelete
<1>2. ASSUME NEW r \in Refs, NEW f \in Folders, BeginAdd(h, r, f) \/ BeginUpdate(h, r, f)
      PROVE  Arrive(h, "add", r, f, {}) \/ Arrive(h, "update", r, f, {})
  BY <1>2 DEF BeginAdd, BeginUpdate
<1>3. ASSUME BeginDrop(h)
      PROVE  Arrive(h, "drop", None, None, {})
  BY <1>3 DEF BeginDrop
<1>4. ASSUME NEW rs \in SUBSET Refs, BeginGrant(h, rs)
      PROVE  Arrive(h, "grant", None, None, rs)
  BY <1>4 DEF BeginGrant
<1>5. ASSUME NEW kind \in Agent, NEW r \in Refs \union {None}, NEW f \in Places,
             BeginRequest(h, kind, r, f)
      PROVE  Arrive(h, kind, r, f, {})
  BY <1>5 DEF BeginRequest
<1> HIDE DEF Console, Places
<1>6. {"add", "update", "refresh", "delete", "grant", "drop"} \subseteq Console \union Agent
      /\ None \in Places /\ Folders \subseteq Places /\ {} \in SUBSET Refs
  BY DEF Console, Places
<1> QED
  BY <1>1, <1>2, <1>3, <1>4, <1>5, <1>6 DEF Begin

(* A request overlaps its neighbours; the references it finds granted.       *)
LEMMA ArrivalStep ==
  ASSUME TypeOK, NEW h \in Handlers, Begin(h) \/ Statement(h)
  PROVE  /\ Alters(job, job', h, Jobs)
         /\ met' \in [Handlers -> SUBSET (Handlers \union {"google"})]
         /\ lent' \in [Handlers -> SUBSET Refs]
         /\ \A k \in Handlers \ {h} : lent[k] \subseteq lent'[k]
         /\ Begin(h) \/ lent[h] \subseteq lent'[h]
<1>1. /\ job \in [Handlers -> Jobs] /\ lent \in [Handlers -> SUBSET Refs]
      /\ met \in [Handlers -> SUBSET (Handlers \union {"google"})]
      /\ left \in [Handlers -> SUBSET Refs]
  BY DEF TypeOK
<1>2. CASE Begin(h)
  BY <1>2, BeginArrives, ArrivePuts DEF Alters
<1>3. CASE UNCHANGED <<job, met>> /\ UNCHANGED lent
  BY <1>1, <1>3, KeepAlters
<1>4. CASE UNCHANGED <<job, met>> /\ GrantRow(h)
  <2>1. UNCHANGED lent \/ \E r \in left[h] :
          lent' = [k \in Handlers |-> IF k \in Running THEN lent[k] \union {r} ELSE lent[k]]
    BY <1>4 DEF GrantRow
  <2> QED
    BY <1>1, <1>4, <2>1, KeepAlters
<1> QED
  BY FrameStep, <1>2, <1>3, <1>4 DEF Frame

(* ... and the folders its rows may come from.                               *)
LEMMA ReachStep ==
  ASSUME TypeOK, NEW h \in Handlers, Begin(h) \/ Statement(h), Fits(h)
  PROVE  /\ reach' \in [Handlers -> SUBSET (Refs \X Folders)]
         /\ \A k \in Handlers \ {h} : reach[k] \subseteq reach'[k]
         /\ Begin(h) \/ reach[h] \subseteq reach'[h]
<1>1. /\ reach \in [Handlers -> SUBSET (Refs \X Folders)]
      /\ held \in SUBSET (Refs \X Folders)
  BY DEF TypeOK
<1>2. CASE Begin(h)
  BY <1>2, BeginArrives, ArrivePuts DEF Alters
<1>3. CASE UNCHANGED reach
  BY <1>1, <1>3
<1>4. CASE Insert(h) \/ Write(h)
  <2>1. <<job[h].ref, job[h].want>> \in Refs \X Folders
    BY <1>4 DEF Insert, Write, Fits
  <2>2. PICK p \in Refs \X Folders : UNCHANGED reach \/
          reach' = [k \in Handlers |-> IF k \in Running THEN reach[k] \union {p} ELSE reach[k]]
    BY <1>4, <2>1 DEF Insert, Write, Holds
  <2> QED
    BY <1>1, <2>2
<1> QED
  BY FrameStep, <1>2, <1>3, <1>4 DEF Frame
-----------------------------------------------------------------------------
(* The tables: their types, the unique index and the foreign keys.           *)
Tables ==
  /\ root \in [Refs -> Places]
  /\ held \in SUBSET (Refs \X Folders)
  /\ granted \in SUBSET Refs
  /\ tree \in [Refs -> SUBSET Rows]
  /\ \A r, s \in Refs : root[r] = root[s] /\ root[r] # None => r = s
  /\ \A r \in Refs : root[r] = None => r \notin granted /\ tree[r] = {}

LEMMA TablesStep ==
  ASSUME TypeOK, NEW h \in Handlers, Begin(h) \/ Statement(h), Fits(h)
  PROVE  Tables'
<1>1. Tables /\ walk \in [Handlers -> Walks] /\ left \in [Handlers -> SUBSET Refs]
  BY DEF TypeOK, Tables
<1>2. CASE UNCHANGED <<root, held, granted, tree>>
  BY <1>1, <1>2 DEF Tables
<1>3. CASE Insert(h) \/ Write(h)
  <2> DEFINE r == job[h].ref
             f == job[h].want
  <2>1. r \in Refs /\ f \in Folders
    BY <1>3 DEF Insert, Write, Fits
  <2>2. UNCHANGED <<granted, tree>>
    BY <1>3 DEF Insert, Write
  <2>3. \/ UNCHANGED <<root, held>>
        \/ /\ \A s \in Refs : root[s] = f => s = r
           /\ root' = [root EXCEPT ![r] = f] \/ UNCHANGED root
           /\ held' = held \union {<<r, f>>}
    BY <1>3 DEF Insert, Write, Holds
  <2>4. f # None /\ f \in Places
    BY <2>1, FoldersAssumption DEF Places
  <2> HIDE DEF r, f
  <2>5. CASE root' = [root EXCEPT ![r] = f] /\ \A s \in Refs : root[s] = f => s = r
    <3>1. root' \in [Refs -> Places] /\ root'[r] = f /\ \A s \in Refs \ {r} : root'[s] = root[s]
      BY <1>1, <2>1, <2>4, <2>5 DEF Tables
    <3>2. \A s, t \in Refs : root'[s] = root'[t] /\ root'[s] # None => s = t
      BY <1>1, <2>5, <3>1 DEF Tables
    <3>3. \A s \in Refs : root'[s] = None => root[s] = None
      BY <2>4, <3>1
    <3> QED
      BY <1>1, <2>1, <2>2, <2>3, <3>1, <3>2, <3>3 DEF Tables
  <2> QED
    BY <1>1, <2>1, <2>2, <2>3, <2>5 DEF Tables
<1>4. CASE UnRow(h)
  <2>1. walk[h].ref \in Refs
    BY <1>4 DEF UnRow, Fits
  <2> DEFINE r == walk[h].ref
  <2>2. /\ root' = [root EXCEPT ![r] = None] /\ tree' = [tree EXCEPT ![r] = {}]
        /\ granted' = granted \ {r} /\ UNCHANGED held
    BY <1>4 DEF UnRow
  <2> HIDE DEF r
  <2>3. root' \in [Refs -> Places] /\ root'[r] = None /\ \A s \in Refs \ {r} : root'[s] = root[s]
    BY <1>1, <2>1, <2>2 DEF Tables, Places, r
  <2>4. tree' \in [Refs -> SUBSET Rows] /\ tree'[r] = {} /\ \A s \in Refs \ {r} : tree'[s] = tree[s]
    BY <1>1, <2>1, <2>2 DEF Tables, r
  <2> QED
    BY <1>1, <2>2, <2>3, <2>4 DEF Tables
<1>5. CASE ClearTree(h) \/ UnTree(h)
  <2>1. /\ UNCHANGED <<root, granted>> /\ held' \subseteq held
        /\ \E r \in Refs : tree' = [tree EXCEPT ![r] = {}]
    BY <1>1, <1>5 DEF ClearTree, UnTree, Fits
  <2> QED
    BY <1>1, <2>1 DEF Tables
<1>6. CASE FillRow(h)
  <2> DEFINE r == walk[h].ref
  <2>1. r \in Refs /\ walk[h].found \subseteq Rows
    BY <1>1, <1>6 DEF FillRow, Fits, Walks
  <2>2. UNCHANGED <<root, held, granted>>
    BY <1>6 DEF FillRow
  <2>3. UNCHANGED tree \/ \E e \in walk[h].found :
           root[r] # None /\ tree' = [tree EXCEPT ![r] = tree[r] \union {e}]
    BY <1>6 DEF FillRow
  <2> HIDE DEF r
  <2>4. ASSUME NEW e \in walk[h].found, root[r] # None, tree' = [tree EXCEPT ![r] = tree[r] \union {e}]
        PROVE  tree' \in [Refs -> SUBSET Rows] /\ \A s \in Refs \ {r} : tree'[s] = tree[s]
    BY <1>1, <2>1, <2>4 DEF Tables
  <2> QED
    BY <1>1, <2>2, <2>3, <2>4 DEF Tables
<1>7. CASE UnGrant(h) \/ UnConnect(h) \/ ClearGrants(h)
  <2>1. UNCHANGED <<root, held, tree>> /\ granted' \subseteq granted
    BY <1>7 DEF UnGrant, UnConnect, ClearGrants
  <2> QED
    BY <1>1, <2>1 DEF Tables
<1>8. CASE GrantRow(h)
  <2>1. /\ UNCHANGED <<root, held, tree>>
        /\ UNCHANGED granted \/ \E r \in left[h] : root[r] # None /\ granted' = granted \union {r}
    BY <1>8 DEF GrantRow
  <2>2. left[h] \subseteq Refs
    BY <1>1
  <2> QED
    BY <1>1, <2>1, <2>2 DEF Tables
<1>9. \/ UNCHANGED <<root, held, granted, tree>>
      \/ Insert(h) \/ Write(h) \/ UnRow(h) \/ ClearTree(h) \/ UnTree(h) \/ FillRow(h)
      \/ UnGrant(h) \/ UnConnect(h) \/ ClearGrants(h) \/ GrantRow(h)
  BY FrameStep DEF Frame
<1> QED
  BY <1>2, <1>3, <1>4, <1>5, <1>6, <1>7, <1>8, <1>9

LEMMA TypeStep ==
  ASSUME TypeOK, NEW h \in Handlers, Begin(h) \/ Statement(h), Fits(h)
  PROVE  TypeOK'
<1>1. /\ UNCHANGED google
      /\ workspace' \in BOOLEAN
  BY FrameStep DEF Frame, UnConnect, TypeOK
<1>2. /\ parent' \in [Folders -> Places] /\ moves' \in 0..MaxMoves
      /\ everLink' \in SUBSET Rows
  BY <1>1 DEF google, TypeOK
<1>3. at' \in [Handlers -> Phases]
  BY AtStep DEF AtMoves, TypeOK
<1>4. /\ list' \in [Handlers -> [Refs -> Places]] /\ left' \in [Handlers -> SUBSET Refs]
      /\ near' \in [Handlers -> Places \union {MyDrive}] /\ walk' \in [Handlers -> Walks]
      /\ through' \in [Handlers -> SUBSET (Folders \union {MyDrive})]
      /\ made' \in [Handlers -> Places \union {MyDrive}]
  BY ListStep, LeftStep, NearStep, WalkStep, ThroughStep, MadeStep DEF Alters
<1>5. /\ job' \in [Handlers -> Jobs]
      /\ met' \in [Handlers -> SUBSET (Handlers \union {"google"})]
      /\ lent' \in [Handlers -> SUBSET Refs]
      /\ reach' \in [Handlers -> SUBSET (Refs \X Folders)]
  BY ArrivalStep, ReachStep DEF Alters
<1> QED
  BY <1>1, <1>2, <1>3, <1>4, <1>5, TablesStep DEF TypeOK, Tables
-----------------------------------------------------------------------------
(* What the invariant says of one request.                                   *)
Good(h) == Fits(h) /\ Knowing(h) /\ WasInside(h)

LEMMA StatementRuns ==
  ASSUME NEW h \in Handlers, Statement(h)
  PROVE  at[h] \notin Ended \union {"idle"}
<1>1. CASE ListFolder(h)
  BY <1>1 DEF ListFolder, Ended
<1>2. CASE ListFails(h)
  BY <1>2 DEF ListFails, Ended
<1>3. CASE ClearTree(h)
  BY <1>3 DEF ClearTree, Ended
<1>4. CASE FillRow(h)
  BY <1>4 DEF FillRow, Ended
<1>5. CASE Filled(h)
  BY <1>5 DEF Filled, Ended
<1>6. CASE Insert(h)
  BY <1>6 DEF Insert, Ended
<1>7. CASE Write(h)
  BY <1>7 DEF Write, Ended
<1>8. CASE UnTree(h)
  BY <1>8 DEF UnTree, Ended
<1>9. CASE UnGrant(h)
  BY <1>9 DEF UnGrant, Ended
<1>10. CASE UnRow(h)
  BY <1>10 DEF UnRow, Ended
<1>11. CASE UnConnect(h)
  BY <1>11 DEF UnConnect, Ended
<1>12. CASE ClearGrants(h)
  BY <1>12 DEF ClearGrants, Ended
<1>13. CASE GrantRow(h)
  BY <1>13 DEF GrantRow, Ended
<1>14. CASE GrantsSaved(h)
  BY <1>14 DEF GrantsSaved, Ended
<1>15. CASE Resolve(h)
  BY <1>15 DEF Resolve, Ended
<1>16. CASE Meta(h)
  BY <1>16 DEF Meta, Ended
<1>17. CASE Match(h)
  BY <1>17 DEF Match, Ended
<1>18. CASE NoMatch(h)
  BY <1>18 DEF NoMatch, Ended
<1>19. CASE WalkNext(h)
  BY <1>19 DEF WalkNext, Ended
<1>20. CASE AllWalked(h)
  BY <1>20 DEF AllWalked, Ended
<1>21. CASE Ensure(h)
  BY <1>21 DEF Ensure, Ended
<1>22. CASE ReadTree(h)
  BY <1>22 DEF ReadTree, Ended
<1>23. CASE TargetFound(h)
  BY <1>23 DEF TargetFound, Ended
<1>24. CASE TargetMissed(h)
  BY <1>24 DEF TargetMissed, Ended
<1>25. CASE ReadSubtree(h)
  BY <1>25 DEF ReadSubtree, Ended
<1>26. CASE Forward(h)
  BY <1>26 DEF Forward, Ended
<1>27. CASE MoveMade(h)
  BY <1>27 DEF MoveMade, Ended
<1> QED
  BY <1>1, <1>2, <1>3, <1>4, <1>5, <1>6, <1>7, <1>8, <1>9, <1>10, <1>11, <1>12, <1>13,
     <1>14, <1>15, <1>16, <1>17, <1>18, <1>19, <1>20, <1>21, <1>22, <1>23, <1>24, <1>25,
     <1>26, <1>27 DEF Statement

LEMMA GrowsStep ==
  ASSUME NEW h \in Handlers, Begin(h) \/ Statement(h)
  PROVE  Grows
BY FrameStep DEF Frame, Grows, google

(* Another request keeps its locals.                                         *)
SameLocals(k) == /\ at'[k] = at[k] /\ job'[k] = job[k] /\ list'[k] = list[k]
                 /\ left'[k] = left[k] /\ near'[k] = near[k] /\ walk'[k] = walk[k]
                 /\ through'[k] = through[k]

LEMMA OthersKeep ==
  ASSUME TypeOK, NEW h \in Handlers, Begin(h) \/ Statement(h), Fits(h), NEW k \in Handlers \ {h}
  PROVE  SameLocals(k) /\ lent[k] \subseteq lent'[k] /\ reach[k] \subseteq reach'[k]
<1>1. AtMoves(h)
  BY AtStep DEF TypeOK
<1>2. Alters(job, job', h, Jobs) /\ lent[k] \subseteq lent'[k] /\ reach[k] \subseteq reach'[k]
  BY ArrivalStep, ReachStep
<1> QED
  BY <1>1, <1>2, ListStep, LeftStep, NearStep, WalkStep, ThroughStep
     DEF AtMoves, Alters, SameLocals

(* What is granted now was granted while the request ran.                    *)
LEMMA GrantedLent ==
  ASSUME TypeOK, NEW h \in Handlers, Begin(h) \/ Statement(h), Fits(h), NEW k \in Handlers,
         at[k] \notin Ended \union {"idle"} => granted \subseteq lent[k],
         at'[k] \notin Ended \union {"idle"}
  PROVE  granted' \subseteq lent'[k]
<1>1. CASE Begin(h)
  <2>1. UNCHANGED granted
    BY <1>1 DEF Begin, BeginRefresh, BeginDelete, BeginAdd, BeginUpdate, BeginDrop, BeginGrant,
                BeginRequest, db
  <2>2. lent'[h] = granted
    BY <1>1, BeginArrives, ArrivePuts
  <2> QED
    BY <2>1, <2>2, OthersKeep DEF SameLocals
<1>2. CASE Statement(h)
  <2>1. at[k] \notin Ended \union {"idle"}
    BY <1>2, StatementRuns, OthersKeep DEF SameLocals
  <2>2. granted \subseteq lent[k]
    BY <2>1
  <2>3. CASE granted' \subseteq granted
    <3>1. Begin(h) \/ lent[h] \subseteq lent'[h]
      BY ArrivalStep
    <3>2. CASE lent[k] \subseteq lent'[k]
      BY <2>2, <2>3, <3>2
    <3>3. CASE Begin(h)
      BY <1>2, <2>1, <3>3, BeginArrives, ArrivePuts, StatementRuns
    <3> QED
      BY <3>1, <3>2, <3>3, OthersKeep
  <2>4. CASE GrantRow(h) /\ ~ granted' \subseteq granted
    <3>1. PICK r \in left[h] :
            /\ granted' = granted \union {r}
            /\ lent' = [j \in Handlers |-> IF j \in Running THEN lent[j] \union {r} ELSE lent[j]]
      BY <2>4 DEF GrantRow
    <3>2. k \in Running
      BY <2>1 DEF Running
    <3> QED
      BY <2>2, <3>1, <3>2
  <2>5. granted' \subseteq granted \/ GrantRow(h)
    BY FrameStep DEF Frame, UnGrant, UnRow, UnConnect, ClearGrants
  <2> QED
    BY <2>3, <2>4, <2>5
<1> QED
  BY <1>1, <1>2

(* What is held now was held while the request ran.                          *)
LEMMA HeldReached ==
  ASSUME TypeOK, NEW h \in Handlers, Begin(h) \/ Statement(h), Fits(h), NEW k \in Handlers,
         at[k] \notin Ended \union {"idle"} => held \subseteq reach[k],
         at'[k] \notin Ended \union {"idle"}
  PROVE  held' \subseteq reach'[k]
<1>1. CASE Begin(h)
  <2>1. UNCHANGED held
    BY <1>1 DEF Begin, BeginRefresh, BeginDelete, BeginAdd, BeginUpdate, BeginDrop, BeginGrant,
                BeginRequest, db
  <2>2. reach'[h] = held
    BY <1>1, BeginArrives, ArrivePuts
  <2> QED
    BY <2>1, <2>2, OthersKeep DEF SameLocals
<1>2. CASE Statement(h)
  <2>1. at[k] \notin Ended \union {"idle"}
    BY <1>2, StatementRuns, OthersKeep DEF SameLocals
  <2>2. held \subseteq reach[k] /\ k \in Running
    BY <2>1 DEF Running
  <2>3. CASE held' \subseteq held
    <3>1. Begin(h) \/ reach[h] \subseteq reach'[h]
      BY ReachStep
    <3>2. CASE reach[k] \subseteq reach'[k]
      BY <2>2, <2>3, <3>2
    <3>3. CASE Begin(h)
      BY <1>2, <2>1, <3>3, BeginArrives, ArrivePuts, StatementRuns
    <3> QED
      BY <3>1, <3>2, <3>3, OthersKeep
  <2>4. CASE ~ held' \subseteq held
    <3>1. Insert(h) \/ Write(h)
      BY <2>4, FrameStep DEF Frame, ClearTree
    <3>2. PICK p : /\ held' = held \union {p}
                   /\ reach' = [j \in Handlers |-> IF j \in Running THEN reach[j] \union {p}
                                                  ELSE reach[j]]
      BY <2>4, <3>1 DEF Insert, Write, Holds
    <3> QED
      BY <2>2, <3>2
  <2> QED
    BY <2>3, <2>4
<1> QED
  BY <1>1, <1>2

(* Only a walk that replaces the rows lets go of a folder, and not of one a   *)
(* request that is running took from its reference.                          *)
LEMMA HeldStep ==
  ASSUME NEW h \in Handlers, Begin(h) \/ Statement(h),
         NEW r \in Refs, NEW f \in Folders, <<r, f>> \in held
  PROVE  <<r, f>> \in held' \/ (ClearTree(h) /\ r = walk[h].ref /\ ~ InUse(r, f))
<1>1. CASE ClearTree(h)
  <2>1. held' = {p \in held : p[1] = walk[h].ref => InUse(p[1], p[2])}
    BY <1>1 DEF ClearTree
  <2> QED
    BY <1>1, <2>1
<1>2. CASE UNCHANGED held \/ Insert(h) \/ Write(h)
  BY <1>2 DEF Insert, Write, Holds
<1> QED
  BY <1>1, <1>2, FrameStep DEF Frame

Keeps(k) ==
  at[k] \notin Ended \union {"idle"} =>
    /\ \A r \in Refs : list[k][r] # None => <<r, list[k][r]>> \in held'
    /\ at[k] \in {"walk", "fill", "read", "subtree"} => <<walk[k].ref, walk[k].root>> \in held'

LEMMA PairsKept ==
  ASSUME TypeOK, NEW h \in Handlers, Begin(h) \/ Statement(h), NEW k \in Handlers,
         Fits(k), Knowing(k)
  PROVE  Keeps(k)
<1> SUFFICES ASSUME at[k] \notin Ended \union {"idle"}
             PROVE  /\ \A r \in Refs : list[k][r] # None => <<r, list[k][r]>> \in held'
                    /\ at[k] \in {"walk", "fill", "read", "subtree"} =>
                         <<walk[k].ref, walk[k].root>> \in held'
  BY DEF Keeps
<1>1. k \in Running /\ list[k] \in [Refs -> Places]
  BY DEF Running, TypeOK
<1>2. ASSUME NEW r \in Refs, list[k][r] # None
      PROVE  <<r, list[k][r]>> \in held'
  <2>1. list[k][r] \in Folders /\ <<r, list[k][r]>> \in held
    BY <1>1, <1>2 DEF Knowing, Places
  <2>2. InUse(r, list[k][r])
    BY <1>1 DEF InUse
  <2> QED
    BY <2>1, <2>2, HeldStep
<1>3. ASSUME at[k] \in {"walk", "fill", "read", "subtree"}
      PROVE  <<walk[k].ref, walk[k].root>> \in held'
  <2>1. walk[k].ref \in Refs /\ walk[k].root \in Folders
        /\ <<walk[k].ref, walk[k].root>> \in held
    BY <1>3 DEF Fits, Knowing
  <2>2. InUse(walk[k].ref, walk[k].root)
    BY <1>1 DEF InUse
  <2> QED
    BY <2>1, <2>2, HeldStep
<1> QED
  BY <1>2, <1>3

LEMMA WalkInsideKept ==
  ASSUME NEW k, WalkInside(k), Grows, walk'[k] = walk[k]
  PROVE  WalkInside(k)'
<1>1. Below({walk[k].root}, everLink) \subseteq Below({walk[k].root}, everLink')
  BY BelowRootGrows
<1> QED
  BY <1>1 DEF WalkInside, FoldersOf

(* A request that keeps its locals stays good while the histories grow.      *)
LEMMA GoodKept ==
  ASSUME NEW k \in Handlers, Good(k), SameLocals(k), Grows, Keeps(k),
         lent[k] \subseteq lent'[k], reach[k] \subseteq reach'[k],
         at'[k] \notin Ended \union {"idle"} =>
           granted' \subseteq lent'[k] /\ held' \subseteq reach'[k]
  PROVE  Good(k)'
<1>1. \A r : EverInside(r, reach[k]) \subseteq EverInside(r, reach[k])'
  BY ReachGrows
<1>2. Fits(k)'
  BY DEF Good, Fits, SameLocals
<1>3. at[k] \in {"walk", "fill"} => WalkInside(k)'
  BY WalkInsideKept DEF Good, Knowing, SameLocals
<1>4. Knowing(k)'
  <2>1. everLink \subseteq everLink'
    BY DEF Grows
  <2> QED
    BY <1>1, <1>3, <2>1 DEF Good, Knowing, SameLocals, Keeps, Ended
<1>5. WasInside(k)'
  BY <1>1 DEF Good, WasInside, SameLocals
<1> QED
  BY <1>2, <1>4, <1>5 DEF Good

LEMMA RowsInsideStep ==
  ASSUME ScopeInv, NEW h \in Handlers, Begin(h) \/ Statement(h)
  PROVE  RowsInside'
<1>1. /\ root \in [Refs -> Places] /\ tree \in [Refs -> SUBSET Rows] /\ walk \in [Handlers -> Walks]
      /\ Fits(h) /\ Knowing(h) /\ RowsInside /\ TypeOK
  BY DEF ScopeInv, TypeOK
<1>2. Grows
  BY GrowsStep
<1>3. \A f \in Folders : <<f, parent'[f]>> \in everLink'
  BY <1>1, FrameStep DEF Frame, google, RowsInside
<1>4. ASSUME NEW r \in Refs, root'[r] # None
      PROVE  <<r, root'[r]>> \in held'
  <2>1. CASE root'[r] = root[r]
    <3>1. root[r] \in Folders /\ <<r, root[r]>> \in held /\ InUse(r, root[r])
      BY <1>1, <1>4, <2>1 DEF RowsInside, InUse, Places
    <3> QED
      BY <2>1, <3>1, HeldStep
  <2>2. CASE Insert(h) \/ Write(h)
    <3>1. PICK s, f : /\ s = job[h].ref /\ f = job[h].want
                      /\ UNCHANGED root \/ (root' = [root EXCEPT ![s] = f] /\ <<s, f>> \in held')
      BY <2>2 DEF Insert, Write, Holds
    <3>2. CASE UNCHANGED root
      BY <2>1, <3>2
    <3>3. CASE root' = [root EXCEPT ![s] = f] /\ <<s, f>> \in held'
      BY <1>1, <2>1, <3>3
    <3> QED
      BY <3>1, <3>2, <3>3
  <2>3. CASE UnRow(h)
    <3>1. root' = [root EXCEPT ![walk[h].ref] = None]
      BY <2>3 DEF UnRow
    <3> QED
      BY <1>1, <1>4, <2>1, <3>1
  <2> QED
    BY <2>1, <2>2, <2>3, FrameStep DEF Frame
<1>5. ASSUME NEW r \in Refs
      PROVE  FoldersOf(tree'[r]) \subseteq EverInside(r, held)'
  <2>1. CASE tree'[r] = {}
    BY <2>1 DEF FoldersOf
  <2>2. CASE ~ (ClearTree(h) /\ r = walk[h].ref)
    <3>1. EverInside(r, held) \subseteq EverInside(r, held)'
      BY <1>2, <2>2, HeldStep, HeldGrows
    <3>2. FoldersOf(tree[r]) \subseteq EverInside(r, held)
      BY <1>1 DEF RowsInside
    <3>3. CASE tree'[r] = tree[r]
      BY <3>1, <3>2, <3>3
    <3>4. CASE UNCHANGED tree \/ ClearTree(h) \/ UnTree(h) \/ UnRow(h)
      <4>1. UNCHANGED tree \/ \E s : tree' = [tree EXCEPT ![s] = {}]
        BY <3>4 DEF ClearTree, UnTree, UnRow
      <4> QED
        BY <1>1, <2>1, <3>3, <4>1
    <3>5. CASE FillRow(h)
      <4>1. PICK s : /\ s = walk[h].ref
                     /\ \/ UNCHANGED tree
                        \/ \E e \in walk[h].found : tree' = [tree EXCEPT ![s] = tree[s] \union {e}]
        BY <3>5 DEF FillRow
      <4>2. CASE r # s
        BY <1>1, <3>3, <4>1, <4>2
      <4>3. CASE r = s
        <5>1. FoldersOf(walk[h].found) \subseteq Below({walk[h].root}, everLink)
              /\ <<r, walk[h].root>> \in held /\ walk[h].root \in Folders
          BY <1>1, <3>5, <4>1, <4>3 DEF FillRow, Knowing, WalkInside, Fits
        <5>2. FoldersOf(walk[h].found) \subseteq EverInside(r, held)
          BY <5>1, EverInsideRoot
        <5>3. FoldersOf(tree'[r]) \subseteq FoldersOf(tree[r]) \union FoldersOf(walk[h].found)
          BY <1>1, <4>1, <4>3 DEF FoldersOf
        <5> QED
          BY <3>1, <3>2, <5>2, <5>3
      <4> QED
        BY <4>2, <4>3
    <3> QED
      BY <3>4, <3>5, FrameStep DEF Frame
  <2>3. CASE ClearTree(h) /\ r = walk[h].ref
    <3>1. tree' = [tree EXCEPT ![r] = {}]
      BY <2>3 DEF ClearTree
    <3> QED
      BY <1>1, <2>1, <3>1
  <2> QED
    BY <2>2, <2>3
<1> QED
  BY <1>3, <1>4, <1>5 DEF RowsInside
-----------------------------------------------------------------------------
(* Phases without a copy or a walk.                                          *)
Plain == Ended \union {"unTree", "unConnect", "clear", "grantRow", "forward", "move", "moveOld"}

(* What every statement of a request leaves of its own.                      *)
Common(h) == /\ Good(h) /\ RowsInside /\ TypeOK /\ TypeOK' /\ Grows /\ Keeps(h)
             /\ job'[h] = job[h] /\ UNCHANGED google
             /\ lent[h] \subseteq lent'[h] /\ reach[h] \subseteq reach'[h]
             /\ at[h] \notin Ended \union {"idle"}
             /\ granted \subseteq lent[h] /\ held \subseteq reach[h]
             /\ at'[h] \notin Ended \union {"idle"} =>
                  granted' \subseteq lent'[h] /\ held' \subseteq reach'[h]
             /\ \A r : EverInside(r, reach[h]) \subseteq EverInside(r, reach[h])'

LEMMA CommonStep ==
  ASSUME ScopeInv, NEW h \in Handlers, Statement(h)
  PROVE  Common(h)
<1>1. Good(h) /\ RowsInside /\ TypeOK /\ Fits(h) /\ Knowing(h)
  BY DEF ScopeInv, Good
<1>2. TypeOK' /\ Grows /\ UNCHANGED google /\ Keeps(h)
  BY <1>1, TypeStep, GrowsStep, FrameStep, PairsKept DEF Frame
<1>3. at[h] \notin Ended \union {"idle"}
  BY StatementRuns
<1>4. ~ Begin(h)
  BY <1>1, <1>3, BeginArrives, ArrivePuts
<1>5. job'[h] = job[h] /\ lent[h] \subseteq lent'[h] /\ reach[h] \subseteq reach'[h]
  BY <1>1, <1>4, FrameStep, ArrivalStep, ReachStep DEF Frame
<1>6. \A r : EverInside(r, reach[h]) \subseteq EverInside(r, reach[h])'
  BY <1>2, <1>5, ReachGrows
<1>7. granted \subseteq lent[h] /\ held \subseteq reach[h]
  BY <1>1, <1>3 DEF Knowing
<1>8. at'[h] \notin Ended \union {"idle"} =>
        granted' \subseteq lent'[h] /\ held' \subseteq reach'[h]
  BY <1>1, <1>7, GrantedLent, HeldReached
<1> QED
  BY <1>1, <1>2, <1>3, <1>5, <1>6, <1>7, <1>8 DEF Common

(* Parts of Good that a statement keeps.                                     *)
LEMMA LetInKept ==
  ASSUME NEW h \in Handlers, Common(h), through'[h] = through[h]
  PROVE  WasInside(h)'
BY DEF Common, Good, WasInside

LEMMA LetInFrom ==
  ASSUME NEW h \in Handlers, Common(h), NEW r \in lent[h],
         through'[h] \subseteq through[h] \union EverInside(r, reach[h]) \union {MyDrive},
         MyDrive \in through'[h] \ through[h] => job[h].kind \in {"browse", "search"}
  PROVE  WasInside(h)'
BY DEF Common, Good, WasInside

LEMMA CopyKept ==
  ASSUME NEW h \in Handlers, Common(h), list'[h] = list[h]
  PROVE  \A r \in Refs : list'[h][r] # None => <<r, list'[h][r]>> \in held' /\ r \in lent'[h]
BY DEF Common, Good, Knowing, Keeps

LEMMA PlainGood ==
  ASSUME NEW h \in Handlers, Common(h), at'[h] \in Plain, list'[h] = list[h], WasInside(h)'
  PROVE  Good(h)'
<1>1. at'[h] \notin Copied \union {"idle", "insert", "write", "unGrant", "unRow", "resolve"}
  BY DEF Plain, Ended, Copied
<1>2. Fits(h)'
  BY <1>1 DEF Fits, Common, Good, Copied
<1>3. Knowing(h)'
  BY <1>1, CopyKept DEF Knowing, Common, Copied
<1> QED
  BY <1>2, <1>3 DEF Good

(* A walk that begins.                                                       *)
LEMMA WalkGood ==
  ASSUME NEW h \in Handlers, Common(h), NEW r \in Refs, NEW f \in Folders,
         StartWalk(h, r, f), <<r, f>> \in held', at'[h] \in {"walk", "read"},
         list'[h] = list[h], through'[h] = through[h],
         left'[h] \subseteq left[h], near'[h] = near[h] \/ job[h].kind # "open",
         job[h].kind \in Agent => r \in lent[h] /\ at[h] \in Copied,
         job[h].kind \in {"add", "update", "refresh"} \union Agent,
         at'[h] = "read" => job[h].kind \in Agent \ {"open"},
         job[h].kind = "open" => at[h] = "next"
  PROVE  Good(h)'
<1>1. walk \in [Handlers -> Walks]
  BY DEF Common, TypeOK
<1>2. walk'[h].ref = r /\ walk'[h].root = f /\ walk'[h].todo = {f} /\ walk'[h].found = {<<f, None>>}
  <2>1. walk'[h] = [ref |-> r, root |-> f, todo |-> {f}, found |-> {<<f, None>>}]
    BY <1>1, StartWalkPuts
  <2> QED
    BY <2>1
<1>3. at'[h] \notin {"idle", "insert", "write", "unGrant", "unRow", "resolve", "meta", "match",
                     "rematch", "next", "ensure", "subtree"}
      /\ at'[h] \notin Ended
  BY DEF Ended
<1>4. Fits(h)'
  BY <1>2, <1>3 DEF Fits, Common, Good, Copied
<1>5. WalkInside(h)'
  <2>1. f \in Below({f}, everLink')
    BY BelowSeed
  <2> QED
    BY <1>2, <2>1 DEF WalkInside, FoldersOf
<1>6. Knowing(h)'
  BY <1>2, <1>3, <1>5, CopyKept DEF Knowing, Common, Good, Grows
<1> QED
  BY <1>4, <1>6, LetInKept DEF Good

(* A walk that goes on: its folders stay inside.                             *)
LEMMA OnWalkGood ==
  ASSUME NEW h \in Handlers, Common(h), at[h] \in {"walk", "fill"}, at'[h] \in {"walk", "fill"},
         list'[h] = list[h], through'[h] = through[h], left'[h] = left[h], near'[h] = near[h],
         walk'[h].ref = walk[h].ref, walk'[h].root = walk[h].root,
         WalkInside(h)'
  PROVE  Good(h)'
<1>1. at'[h] \notin {"idle", "insert", "write", "unGrant", "unRow", "resolve", "meta", "match",
                     "rematch", "next", "ensure", "read", "subtree"}
      /\ at'[h] \notin Ended
  BY DEF Ended
<1>2. Fits(h)'
  BY <1>1 DEF Fits, Common, Good, Copied
<1>3. Knowing(h)'
  BY <1>1, CopyKept DEF Knowing, Common, Good, Grows, Keeps
<1> QED
  BY <1>2, <1>3, LetInKept DEF Good
-----------------------------------------------------------------------------
(* Each statement of a request keeps what the invariant says of it.          *)
LEMMA WalkingGood ==
  ASSUME ScopeInv, NEW h \in Handlers,
         ListFolder(h) \/ ListFails(h) \/ ClearTree(h) \/ FillRow(h) \/ Filled(h)
  PROVE  Good(h)'
<1>1. Common(h)
  BY CommonStep DEF Statement
<1>2. /\ TypeOK /\ Good(h) /\ at \in [Handlers -> Phases] /\ walk \in [Handlers -> Walks]
      /\ everLink' = everLink
  BY <1>1 DEF Common, TypeOK, google
<1>3. ASSUME at[h] \in {"walk", "fill"}, WalkFails(h), UNCHANGED <<list, through>>
      PROVE  Good(h)'
  <2>1. Goto(h, "unTree") \/ Goto(h, "refused")
    BY <1>3 DEF WalkFails
  <2>2. at'[h] \in Plain
    BY <1>2, <2>1, GotoFrame DEF Plain, Phases, Ended
  <2> QED
    BY <1>1, <1>3, <2>2, LetInKept, PlainGood
<1>4. CASE ListFolder(h)
  <2>1. at[h] = "walk" /\ UNCHANGED <<at, list, left, near, through>>
    BY <1>4 DEF ListFolder
  <2>2. walk'[h].ref = walk[h].ref /\ walk'[h].root = walk[h].root
    BY <1>2, <1>4, ListFolderPuts
  <2>3. PICK p \in walk[h].todo : \E children \in SUBSET Folders :
          /\ \A c \in children : parent[c] = p
          /\ walk'[h].todo = (walk[h].todo \ {p}) \union children
          /\ walk'[h].found = walk[h].found \union (children \X {p})
    BY <1>2, <1>4, ListFolderPuts
  <2>4. PICK children \in SUBSET Folders :
          /\ \A c \in children : parent[c] = p
          /\ walk'[h].todo = (walk[h].todo \ {p}) \union children
          /\ walk'[h].found = walk[h].found \union (children \X {p})
    BY <2>3
  <2> DEFINE inside == Below({walk[h].root}, everLink)
  <2>5. FoldersOf(walk[h].found) \union walk[h].todo \subseteq inside
    BY <1>2, <2>1 DEF Good, Knowing, WalkInside
  <2>6. children \subseteq inside
    <3> SUFFICES ASSUME NEW c \in children PROVE c \in inside
      OBVIOUS
    <3>1. <<c, p>> \in everLink
      BY <1>1, <2>4 DEF Common, RowsInside
    <3>2. p \in inside
      BY <2>5
    <3> QED
      BY <3>1, <3>2, BelowLink
  <2>7. FoldersOf(walk'[h].found) \subseteq FoldersOf(walk[h].found) \union children
    BY <2>4 DEF FoldersOf
  <2>8. FoldersOf(walk'[h].found) \union walk'[h].todo \subseteq inside
    BY <2>4, <2>5, <2>6, <2>7
  <2>9. WalkInside(h)'
    BY <1>2, <2>2, <2>8 DEF WalkInside, FoldersOf
  <2> QED
    BY <1>1, <2>1, <2>2, <2>9, OnWalkGood
<1>5. CASE ListFails(h)
  BY <1>3, <1>5 DEF ListFails
<1>6. CASE ClearTree(h)
  <2>1. at[h] = "walk" /\ Goto(h, "fill") /\ UNCHANGED <<list, left, near, walk, through>>
    BY <1>6 DEF ClearTree
  <2>2. at'[h] = "fill"
    BY <1>2, <2>1, GotoFrame DEF Phases
  <2>3. WalkInside(h)'
    BY <1>1, <1>2, <2>1, WalkInsideKept DEF Common, Good, Knowing
  <2> QED
    BY <1>1, <2>1, <2>2, <2>3, OnWalkGood
<1>7. CASE FillRow(h)
  <2>1. at[h] = "fill" /\ UNCHANGED <<list, near, through>>
        /\ (UNCHANGED <<at, left>> \/ WalkFails(h))
    BY <1>7 DEF FillRow
  <2>2. /\ walk'[h].ref = walk[h].ref /\ walk'[h].root = walk[h].root
        /\ walk'[h].todo = walk[h].todo /\ walk'[h].found \subseteq walk[h].found
    BY <1>2, <1>7, FillRowPuts
  <2>3. FoldersOf(walk[h].found) \union walk[h].todo \subseteq Below({walk[h].root}, everLink)
    BY <1>2, <2>1 DEF Good, Knowing, WalkInside
  <2>4. FoldersOf(walk'[h].found) \subseteq FoldersOf(walk[h].found)
    BY <2>2 DEF FoldersOf
  <2>5. WalkInside(h)'
    BY <1>2, <2>2, <2>3, <2>4 DEF WalkInside, FoldersOf
  <2> QED
    BY <1>1, <1>3, <2>1, <2>2, <2>5, OnWalkGood
<1>8. CASE Filled(h)
  <2>1. /\ at[h] = "fill" /\ UNCHANGED <<job, list, left, near, walk, through>>
        /\ Goto(h, AfterWalk(h))
    BY <1>8 DEF Filled
  <2>2. /\ job[h].kind \in {"add", "update", "refresh"} \union Agent
        /\ job[h].kind = "open" => job[h].want \in Folders
        /\ walk[h].ref \in Refs /\ walk[h].root \in Folders
        /\ job[h].kind \in Agent => \A r \in left[h] : list[h][r] # None
    BY <1>2, <2>1 DEF Good, Fits, Copied
  <2>3. /\ job[h].kind \in {"add", "update", "refresh"} => at'[h] = "ok"
        /\ job[h].kind \in {"open", "renew"} => at'[h] = "next"
        /\ job[h].kind \in Agent \ {"open", "renew"} => at'[h] = "read"
    BY <1>2, <2>1, GotoFrame DEF AfterWalk, Agent, Phases, Ended
  <2>4. CASE job[h].kind \in {"add", "update", "refresh"}
    BY <1>1, <2>1, <2>3, <2>4, LetInKept, PlainGood DEF Plain, Ended
  <2>5. CASE job[h].kind \in {"open", "renew"}
    <3>1. at'[h] = "next" /\ job[h].kind \in Agent
      BY <2>3, <2>5 DEF Agent
    <3>2. Fits(h)'
      BY <2>1, <2>2, <3>1 DEF Fits, Copied
    <3>3. Knowing(h)'
      BY <1>1, <2>1, <3>1, CopyKept DEF Knowing, Common, Good, Keeps, google, Ended
    <3> QED
      BY <1>1, <2>1, <3>2, <3>3, LetInKept DEF Good
  <2>6. CASE job[h].kind \in Agent \ {"open", "renew"}
    <3>1. at'[h] = "read" /\ job[h].kind # "open"
      BY <2>3, <2>6
    <3>2. Fits(h)'
      BY <2>1, <2>2, <2>6, <3>1 DEF Fits, Copied
    <3>3. Knowing(h)'
      BY <1>1, <2>1, <3>1, CopyKept DEF Knowing, Common, Good, Keeps, Grows, Ended
    <3> QED
      BY <1>1, <2>1, <3>2, <3>3, LetInKept DEF Good
  <2> QED
    BY <2>2, <2>4, <2>5, <2>6
<1> QED
  BY <1>4, <1>5, <1>6, <1>7, <1>8

LEMMA ConsoleGood ==
  ASSUME ScopeInv, NEW h \in Handlers,
         Insert(h) \/ Write(h) \/ UnTree(h) \/ UnGrant(h) \/ UnRow(h) \/ UnConnect(h)
           \/ ClearGrants(h) \/ GrantRow(h) \/ GrantsSaved(h)
  PROVE  Good(h)'
<1>1. Common(h)
  BY CommonStep DEF Statement
<1>2. /\ TypeOK /\ Good(h) /\ at \in [Handlers -> Phases] /\ walk \in [Handlers -> Walks]
      /\ left \in [Handlers -> SUBSET Refs]
  BY <1>1 DEF Common, TypeOK
<1>3. UNCHANGED <<list, through>>
  BY DEF Insert, Write, UnTree, UnGrant, UnRow, UnConnect, ClearGrants, GrantRow, GrantsSaved
<1>4. WasInside(h)'
  BY <1>1, <1>3, LetInKept
<1>5. CASE Insert(h) \/ Write(h)
  <2>1. /\ job[h].ref \in Refs /\ job[h].want \in Folders /\ job[h].kind \in {"add", "update"}
        /\ UNCHANGED <<left, near>>
    BY <1>2, <1>5 DEF Insert, Write, Good, Fits
  <2>2. \/ Goto(h, "refused")
        \/ /\ StartWalk(h, job[h].ref, job[h].want) /\ Goto(h, "walk")
           /\ <<job[h].ref, job[h].want>> \in held'
    BY <1>5 DEF Insert, Write, Holds
  <2>3. job[h].kind \notin Agent
    BY <2>1 DEF Agent
  <2>4. CASE Goto(h, "refused")
    <3>1. at'[h] \in Plain
      BY <1>2, <2>4, GotoFrame DEF Plain, Phases, Ended
    <3> QED
      BY <1>1, <1>3, <1>4, <3>1, PlainGood
  <2>5. CASE /\ StartWalk(h, job[h].ref, job[h].want) /\ Goto(h, "walk")
             /\ <<job[h].ref, job[h].want>> \in held'
    <3>1. at'[h] = "walk"
      BY <1>2, <2>5, GotoFrame DEF Phases
    <3> QED
      BY <1>1, <1>3, <2>1, <2>3, <2>5, <3>1, WalkGood
  <2> QED
    BY <2>2, <2>4, <2>5
<1>6. CASE UnTree(h) \/ UnGrant(h)
  <2>1. at'[h] \in {"unGrant", "unRow"}
    BY <1>2, <1>6, GotoFrame DEF UnTree, UnGrant, Phases
  <2>2. walk'[h].ref \in Refs
    <3>1. CASE UnTree(h)
      <4>1. PICK r \in left[h] : walk' = [walk EXCEPT ![h] = [NoWalk EXCEPT !.ref = r]]
        BY <3>1 DEF UnTree
      <4>2. walk'[h] = [NoWalk EXCEPT !.ref = r]
        BY <1>2, <4>1
      <4> QED
        BY <1>2, <4>2 DEF NoWalk
    <3>2. CASE UnGrant(h)
      BY <1>2, <3>2 DEF UnGrant, Good, Fits
    <3> QED
      BY <1>6, <3>1, <3>2
  <2>3. Fits(h)'
    BY <1>1, <2>1, <2>2 DEF Fits, Common, Good, Copied
  <2>4. Knowing(h)'
    BY <1>1, <1>3, <2>1, CopyKept DEF Knowing, Common, Good, Ended
  <2> QED
    BY <1>4, <2>3, <2>4 DEF Good
<1>7. CASE UnRow(h) \/ UnConnect(h) \/ ClearGrants(h) \/ GrantRow(h) \/ GrantsSaved(h)
  <2>1. \/ Goto(h, "refused") \/ Goto(h, "ok") \/ Goto(h, "unConnect") \/ Goto(h, "unTree")
        \/ Goto(h, "grantRow") \/ (UNCHANGED at /\ at[h] = "grantRow")
    BY <1>7 DEF UnRow, UnConnect, ClearGrants, GrantRow, GrantsSaved
  <2>2. at'[h] \in Plain
    BY <1>2, <2>1, GotoFrame DEF Plain, Phases, Ended
  <2> QED
    BY <1>1, <1>3, <1>4, <2>2, PlainGood
<1> QED
  BY <1>5, <1>6, <1>7

LEMMA MatchingGood ==
  ASSUME ScopeInv, NEW h \in Handlers,
         Resolve(h) \/ Meta(h) \/ Match(h) \/ NoMatch(h) \/ WalkNext(h) \/ AllWalked(h)
  PROVE  Good(h)'
<1>1. Common(h)
  BY CommonStep DEF Statement
<1>2. /\ TypeOK /\ Good(h) /\ at \in [Handlers -> Phases] /\ left \in [Handlers -> SUBSET Refs]
      /\ list \in [Handlers -> [Refs -> Places]] /\ root \in [Refs -> Places]
      /\ near \in [Handlers -> Places \union {MyDrive}]
      /\ through \in [Handlers -> SUBSET (Folders \union {MyDrive})]
  BY <1>1 DEF Common, TypeOK
<1>3. \A r \in left[h] : r \in Refs /\ list[h][r] \in Places
  BY <1>2
<1>4. job[h].kind = "open" => job[h].want \in Folders
  BY <1>2 DEF Good, Fits
<1>5. ASSUME at'[h] \in Plain, UNCHANGED <<list, through>>
      PROVE  Good(h)'
  BY <1>1, <1>5, LetInKept, PlainGood
<1>6. CASE Resolve(h)
  <2> DEFINE rs == {s \in Refs : Lists(job[h].ref, s)}
             copy == [s \in Refs |-> IF s \in rs THEN root[s] ELSE None]
  <2>1. /\ at[h] = "resolve" /\ list' = [list EXCEPT ![h] = copy]
        /\ left' = [left EXCEPT ![h] = rs] /\ UNCHANGED through
        /\ Goto(h, IF rs = {} THEN "refused" ELSE FirstPhase(job[h].kind))
    BY <1>6 DEF Resolve
  <2>2. \A s \in rs : s \in granted /\ root[s] # None
    BY DEF Lists
  <2>3. job[h].kind \in Agent
    BY <1>2, <2>1 DEF Good, Fits
  <2>4. list'[h] = copy /\ left'[h] = rs
    BY <1>2, <2>1
  <2>5. \A r \in Refs : list'[h][r] # None => r \in rs /\ list'[h][r] = root[r]
    BY <2>4
  <2>6. \A r \in left'[h] : list'[h][r] # None
    BY <2>2, <2>4
  <2> HIDE DEF copy, rs
  <2>7. /\ at'[h] \in {"refused", "meta", "next", "ensure", "forward"}
        /\ at'[h] = "meta" => job[h].kind = "open"
        /\ at'[h] \in {"next", "ensure"} => job[h].kind # "open"
    BY <1>2, <2>1, GotoFrame DEF FirstPhase, Phases, Ended
  <2>8. \A r \in Refs : list'[h][r] # None =>
          <<r, list'[h][r]>> \in held' /\ r \in lent'[h]
    <3> SUFFICES ASSUME NEW r \in Refs, list'[h][r] # None
                 PROVE  <<r, list'[h][r]>> \in held' /\ r \in lent'[h]
      OBVIOUS
    <3>1. list'[h][r] = root[r] /\ r \in granted /\ root[r] # None
      BY <2>2, <2>5
    <3>2. UNCHANGED held
      BY <1>6 DEF Resolve, db
    <3> QED
      BY <1>1, <3>1, <3>2 DEF Common, RowsInside
  <2>9. Fits(h)'
    BY <1>1, <1>4, <2>3, <2>6, <2>7 DEF Fits, Common, Copied
  <2>10. Knowing(h)'
    BY <1>1, <2>7, <2>8 DEF Knowing, Common, Ended
  <2> QED
    BY <1>1, <2>1, <2>9, <2>10, LetInKept DEF Good
<1>7. CASE Meta(h)
  <2>1. /\ at[h] = "meta" /\ UNCHANGED <<list, left, through>>
        /\ \/ near' = [near EXCEPT ![h] = Reported(job[h].want)] /\ Goto(h, "match")
           \/ Goto(h, "refused")
    BY <1>7 DEF Meta
  <2>2. job[h].kind = "open" /\ job[h].kind \in Agent
    BY <1>2, <2>1 DEF Good, Fits, Copied
  <2>3. CASE Goto(h, "refused")
    BY <1>2, <1>5, <2>1, <2>3, GotoFrame DEF Plain, Phases, Ended
  <2>4. CASE near' = [near EXCEPT ![h] = Reported(job[h].want)] /\ Goto(h, "match")
    <3>1. at'[h] = "match" /\ near'[h] = Reported(job[h].want)
      BY <1>2, <2>4, GotoFrame DEF Phases
    <3>2. Fits(h)'
      BY <1>1, <1>4, <2>1, <2>2, <3>1 DEF Fits, Common, Good, Copied
    <3>3. near'[h] \in Folders => <<job[h].want, near'[h]>> \in everLink'
      BY <1>1, <1>4, <2>2, <3>1, FoldersAssumption DEF Common, RowsInside, Grows, Reported
    <3>4. Knowing(h)'
      BY <1>1, <2>1, <3>1, <3>3, CopyKept DEF Knowing, Common, Ended
    <3> QED
      BY <1>1, <2>1, <3>2, <3>4, LetInKept DEF Good
  <2> QED
    BY <2>1, <2>3, <2>4
<1>8. CASE Match(h)
  <2>1. at[h] \in {"match", "rematch"} /\ UNCHANGED <<list, near>>
    BY <1>8 DEF Match
  <2>2. job[h].kind = "open" /\ job[h].kind \in Agent /\ job[h].want \in Folders
        /\ \A r \in left[h] : list[h][r] # None
    BY <1>2, <2>1 DEF Good, Fits, Copied
  <2>3. PICK r \in left[h] :
          \/ /\ Matches(h, r) /\ through' = [through EXCEPT ![h] = {job[h].want}]
             /\ Goto(h, "served")
          \/ /\ left' = [left EXCEPT ![h] = left[h] \ {r}]
             /\ UNCHANGED <<at, through>>
    BY <1>8 DEF Match
  <2>4. CASE /\ Matches(h, r) /\ through' = [through EXCEPT ![h] = {job[h].want}]
             /\ Goto(h, "served")
    <3>1. r \in Refs /\ list[h][r] \in Folders
      BY <1>3, <2>2 DEF Places
    <3>2. <<r, list[h][r]>> \in held /\ r \in lent[h]
          /\ (near[h] \in Folders => <<job[h].want, near[h]>> \in everLink)
      BY <1>2, <2>1, <2>2, <3>1, FoldersAssumption DEF Good, Knowing, Ended
    <3> DEFINE inside == EverInside(r, reach[h])
    <3>3. list[h][r] \in inside
      BY <1>1, <3>1, <3>2, EverInsideRoot DEF Common
    <3>4. ASSUME near[h] \in inside
          PROVE  job[h].want \in inside
      <4>1. near[h] \in Folders
        BY <3>4, EverInsideFolders
      <4> QED
        BY <2>2, <3>2, <3>4, <4>1, EverInsideLink
    <3>5. FoldersOf(tree[r]) \subseteq inside
      <4>1. FoldersOf(tree[r]) \subseteq EverInside(r, held) /\ held \subseteq reach[h]
        BY <1>1, <3>1 DEF Common, RowsInside
      <4> QED
        BY <4>1, EverInsideMore
    <3> HIDE DEF inside
    <3>6. job[h].want \in inside
      BY <2>4, <3>3, <3>4, <3>5 DEF Matches
    <3>7. through'[h] \subseteq through[h] \union inside /\ MyDrive \notin through'[h]
      BY <1>2, <2>2, <2>4, <3>6, FoldersAssumption
    <3>8. WasInside(h)'
      BY <1>1, <3>2, <3>7, LetInFrom DEF inside
    <3>9. at'[h] \in Plain
      BY <1>2, <2>4, GotoFrame DEF Plain, Phases, Ended
    <3> QED
      BY <1>1, <2>1, <3>8, <3>9, PlainGood
  <2>5. CASE /\ left' = [left EXCEPT ![h] = left[h] \ {r}]
             /\ UNCHANGED <<at, through>>
    <3>1. left'[h] \subseteq left[h]
      BY <1>2, <2>5
    <3>2. Fits(h)'
      BY <1>1, <2>1, <2>2, <2>5, <3>1 DEF Fits, Common, Good, Copied
    <3>3. Knowing(h)'
      BY <1>1, <2>1, <2>2, <2>5, CopyKept DEF Knowing, Common, Good, Keeps, google, Ended
    <3> QED
      BY <1>1, <2>5, <3>2, <3>3, LetInKept DEF Good
  <2> QED
    BY <2>3, <2>4, <2>5
<1>9. CASE NoMatch(h)
  <2>1. /\ at[h] \in {"match", "rematch"} /\ UNCHANGED <<list, near, through>>
        /\ \/ /\ left' = [left EXCEPT ![h] = {r \in Refs : list[h][r] # None}]
              /\ Goto(h, "next")
           \/ Goto(h, "outside")
    BY <1>9 DEF NoMatch
  <2>2. job[h].kind = "open" /\ job[h].kind \in Agent
    BY <1>2, <2>1 DEF Good, Fits, Copied
  <2>3. CASE Goto(h, "outside")
    BY <1>2, <1>5, <2>1, <2>3, GotoFrame DEF Plain, Phases, Ended
  <2>4. CASE /\ left' = [left EXCEPT ![h] = {r \in Refs : list[h][r] # None}]
             /\ Goto(h, "next")
    <3>1. at'[h] = "next" /\ \A r \in left'[h] : list'[h][r] # None
      BY <1>2, <2>1, <2>4, GotoFrame DEF Phases
    <3>2. Fits(h)'
      BY <1>1, <1>4, <2>1, <2>2, <3>1 DEF Fits, Common, Copied
    <3>3. Knowing(h)'
      BY <1>1, <2>1, <2>2, <3>1, CopyKept DEF Knowing, Common, Good, Keeps, google, Ended
    <3> QED
      BY <1>1, <2>1, <3>2, <3>3, LetInKept DEF Good
  <2> QED
    BY <2>1, <2>3, <2>4
<1>10. CASE WalkNext(h)
  <2>1. at[h] = "next" /\ Goto(h, "walk") /\ UNCHANGED <<list, near, through>>
    BY <1>10 DEF WalkNext
  <2>2. PICK r \in left[h] : /\ StartWalk(h, r, list[h][r])
                             /\ left' = [left EXCEPT ![h] = left[h] \ {r}]
    BY <1>10 DEF WalkNext
  <2>3. job[h].kind \in Agent /\ list[h][r] # None
    BY <1>2, <2>1 DEF Good, Fits, Copied
  <2>4. r \in Refs /\ list[h][r] \in Folders
    BY <1>3, <2>3 DEF Places
  <2>5. <<r, list[h][r]>> \in held' /\ r \in lent[h]
    BY <1>1, <2>3, <2>4 DEF Common, Good, Knowing, Keeps
  <2>6. at'[h] = "walk" /\ left'[h] \subseteq left[h]
    BY <1>2, <2>1, <2>2, GotoFrame DEF Phases
  <2> QED
    BY <1>1, <2>1, <2>2, <2>3, <2>4, <2>5, <2>6, WalkGood DEF Copied
<1>11. CASE AllWalked(h)
  <2>1. /\ at[h] = "next" /\ UNCHANGED <<list, near, through>>
        /\ \/ Goto(h, "ok")
           \/ /\ job[h].kind = "open"
              /\ left' = [left EXCEPT ![h] = {r \in Refs : list[h][r] # None}]
              /\ Goto(h, "rematch")
    BY <1>11 DEF AllWalked
  <2>2. CASE Goto(h, "ok")
    BY <1>2, <1>5, <2>1, <2>2, GotoFrame DEF Plain, Phases, Ended
  <2>3. CASE /\ job[h].kind = "open"
             /\ left' = [left EXCEPT ![h] = {r \in Refs : list[h][r] # None}]
             /\ Goto(h, "rematch")
    <3>1. at'[h] = "rematch" /\ job[h].kind \in Agent /\ \A r \in left'[h] : list'[h][r] # None
      BY <1>2, <2>1, <2>3, GotoFrame DEF Phases, Agent
    <3>2. Fits(h)'
      BY <1>1, <1>4, <2>1, <2>3, <3>1 DEF Fits, Common, Copied
    <3>3. Knowing(h)'
      BY <1>1, <2>1, <2>3, <3>1, CopyKept DEF Knowing, Common, Good, Keeps, google, Ended
    <3> QED
      BY <1>1, <2>1, <3>2, <3>3, LetInKept DEF Good
  <2> QED
    BY <2>1, <2>2, <2>3
<1> QED
  BY <1>6, <1>7, <1>8, <1>9, <1>10, <1>11

LEMMA PlacingGood ==
  ASSUME ScopeInv, NEW h \in Handlers,
         Ensure(h) \/ ReadTree(h) \/ TargetFound(h) \/ TargetMissed(h) \/ ReadSubtree(h)
           \/ Forward(h) \/ MoveMade(h)
  PROVE  Good(h)'
<1>1. Common(h)
  BY CommonStep DEF Statement
<1>2. /\ TypeOK /\ Good(h) /\ at \in [Handlers -> Phases] /\ left \in [Handlers -> SUBSET Refs]
      /\ list \in [Handlers -> [Refs -> Places]]
      /\ through \in [Handlers -> SUBSET (Folders \union {MyDrive})]
      /\ UNCHANGED list /\ job[h].want \in Places
  BY <1>1 DEF Common, TypeOK, Jobs, Ensure, ReadTree, TargetFound, TargetMissed, ReadSubtree,
              Forward, MoveMade
<1>3. \A r \in left[h] : r \in Refs /\ list[h][r] \in Places
  BY <1>2
<1>4. at[h] \in {"ensure", "read", "subtree"} =>
        /\ job[h].kind \in Agent \ {"open"}
        /\ \A r \in left[h] : list[h][r] # None
  BY <1>2 DEF Good, Fits, Copied
<1> DEFINE inside == EverInside(walk[h].ref, reach[h])
<1>5. at[h] \in {"read", "subtree"} =>
        /\ walk[h].ref \in Refs /\ walk[h].root \in Folders
        /\ walk[h].ref \in lent[h] /\ <<walk[h].ref, walk[h].root>> \in held'
        /\ FoldersOf(tree[walk[h].ref]) \subseteq inside
        /\ walk[h].root \in inside
  <2> SUFFICES ASSUME at[h] \in {"read", "subtree"}
               PROVE  /\ walk[h].ref \in Refs /\ walk[h].root \in Folders
                      /\ walk[h].ref \in lent[h] /\ <<walk[h].ref, walk[h].root>> \in held'
                      /\ FoldersOf(tree[walk[h].ref]) \subseteq inside
                      /\ walk[h].root \in inside
    OBVIOUS
  <2>1. /\ walk[h].ref \in Refs /\ walk[h].root \in Folders /\ walk[h].ref \in lent[h]
        /\ <<walk[h].ref, walk[h].root>> \in held
    BY <1>2, <1>4 DEF Good, Fits, Knowing
  <2>2. held \subseteq reach[h] /\ <<walk[h].ref, walk[h].root>> \in held'
    BY <1>1 DEF Common, Keeps
  <2>3. FoldersOf(tree[walk[h].ref]) \subseteq EverInside(walk[h].ref, held)
    BY <1>1, <2>1 DEF Common, RowsInside
  <2>4. walk[h].root \in inside
    BY <2>1, <2>2, EverInsideRoot
  <2>5. FoldersOf(tree[walk[h].ref]) \subseteq inside
    BY <2>2, <2>3, EverInsideMore
  <2> QED
    BY <2>1, <2>2, <2>4, <2>5
<1>12. MyDrive \notin inside
  BY EverInsideFolders, FoldersAssumption
<1> HIDE DEF inside
<1>6. CASE Ensure(h)
  <2>1. at[h] = "ensure" /\ UNCHANGED <<near, through>>
    BY <1>6 DEF Ensure
  <2>2. PICK r \in left[h] : /\ StartWalk(h, r, list[h][r])
                             /\ left' = [left EXCEPT ![h] = left[h] \ {r}]
                             /\ Goto(h, "read") \/ Goto(h, "walk")
    BY <1>6 DEF Ensure
  <2>3. r \in Refs /\ list[h][r] # None /\ list[h][r] \in Folders
    BY <1>3, <1>4, <2>1 DEF Places
  <2>4. <<r, list[h][r]>> \in held' /\ r \in lent[h]
    BY <1>1, <2>3 DEF Common, Good, Knowing, Keeps
  <2>5. at'[h] \in {"walk", "read"} /\ left'[h] \subseteq left[h]
    BY <1>2, <2>2, GotoFrame DEF Phases
  <2> QED
    BY <1>1, <1>2, <1>4, <2>1, <2>2, <2>3, <2>4, <2>5, WalkGood DEF Copied
<1>7. CASE ReadTree(h)
  <2>1. /\ at[h] = "read" /\ UNCHANGED <<left, near, walk>>
        /\ Goto(h, "ensure") \/ Goto(h, "refused") \/ Goto(h, "served")
    BY <1>7 DEF ReadTree
  <2>2. WasInside(h)'
    <3> DEFINE fs == through[h] \union FoldersOf(tree[walk[h].ref])
    <3>1. \/ UNCHANGED through
          \/ through' = [through EXCEPT ![h] = fs]
          \/ job[h].kind = "search" /\ through' = [through EXCEPT ![h] = fs \union {MyDrive}]
      BY <1>7 DEF ReadTree, Searched
    <3>2. fs \subseteq through[h] \union inside
      BY <1>5, <2>1
    <3> HIDE DEF fs
    <3>3. /\ through'[h] \subseteq through[h] \union inside \union {MyDrive}
          /\ MyDrive \in through'[h] \ through[h] => job[h].kind \in {"browse", "search"}
      BY <1>2, <1>12, <3>1, <3>2
    <3> QED
      BY <1>1, <1>5, <2>1, <3>3, LetInFrom DEF inside
  <2>3. at'[h] \in {"ensure", "refused", "served"}
    BY <1>2, <2>1, GotoFrame DEF Phases, Ended
  <2>4. CASE at'[h] \in {"refused", "served"}
    BY <1>1, <1>2, <2>2, <2>4, PlainGood DEF Plain, Ended
  <2>5. CASE at'[h] = "ensure"
    <3>1. Fits(h)'
      BY <1>1, <1>2, <1>4, <2>1, <2>5 DEF Fits, Common, Copied
    <3>2. Knowing(h)'
      BY <1>1, <1>2, <2>5, CopyKept DEF Knowing, Common, Ended
    <3> QED
      BY <2>2, <3>1, <3>2 DEF Good
  <2> QED
    BY <2>3, <2>4, <2>5
<1>8. CASE TargetFound(h)
  <2>1. /\ at[h] = "read" /\ job[h].want # None /\ Knows(h) /\ UNCHANGED <<left, near, walk>>
        /\ through' = [through EXCEPT ![h] = {job[h].want}]
        /\ Goto(h, "subtree") \/ Goto(h, "forward")
    BY <1>8 DEF TargetFound
  <2>2. job[h].want \in Folders /\ job[h].want \in inside
    BY <1>2, <1>5, <2>1 DEF Knows, Places
  <2>3. WasInside(h)'
    <3>1. through'[h] \subseteq through[h] \union inside /\ MyDrive \notin through'[h]
      BY <1>2, <1>12, <2>1, <2>2
    <3> QED
      BY <1>1, <1>5, <2>1, <3>1, LetInFrom DEF inside
  <2>4. CASE Goto(h, "forward")
    <3>1. at'[h] \in Plain
      BY <1>2, <2>4, GotoFrame DEF Plain, Phases, Ended
    <3> QED
      BY <1>1, <1>2, <2>3, <3>1, PlainGood
  <2>5. CASE Goto(h, "subtree")
    <3>1. at'[h] = "subtree"
      BY <1>2, <2>5, GotoFrame DEF Phases
    <3>2. Fits(h)'
      BY <1>1, <1>2, <1>4, <1>5, <2>1, <2>2, <3>1 DEF Fits, Common, Copied
    <3>3. job'[h].want \in EverInside(walk[h].ref, reach[h])'
      BY <1>1, <2>1, <2>2 DEF Common, inside
    <3>4. Knowing(h)'
      BY <1>1, <1>2, <1>5, <2>1, <3>1, <3>3, CopyKept DEF Knowing, Common, Ended
    <3> QED
      BY <2>3, <3>2, <3>4 DEF Good
  <2> QED
    BY <2>1, <2>4, <2>5
<1>9. CASE TargetMissed(h)
  <2>1. /\ at[h] = "read" /\ UNCHANGED <<left, through>>
        /\ \/ StartWalk(h, walk[h].ref, walk[h].root) /\ Goto(h, "walk")
           \/ Goto(h, "outside")
    BY <1>9 DEF TargetMissed
  <2>2. CASE Goto(h, "outside")
    <3>1. at'[h] \in Plain
      BY <1>2, <2>2, GotoFrame DEF Plain, Phases, Ended
    <3> QED
      BY <1>1, <1>2, <2>1, <3>1, LetInKept, PlainGood
  <2>3. CASE StartWalk(h, walk[h].ref, walk[h].root) /\ Goto(h, "walk")
    <3>1. at'[h] = "walk"
      BY <1>2, <2>3, GotoFrame DEF Phases
    <3>2. <<walk[h].ref, walk[h].root>> \in held'
      BY <1>5, <2>1
    <3> QED
      BY <1>1, <1>2, <1>4, <1>5, <2>1, <2>3, <3>1, <3>2, WalkGood DEF Copied
  <2> QED
    BY <2>1, <2>2, <2>3
<1>10. CASE ReadSubtree(h)
  <2> DEFINE rows == tree[walk[h].ref]
             want == job[h].want
             S == IF want \in FoldersOf(rows) THEN FoldersOf(rows) \intersect Below({want}, rows)
                  ELSE {want}
  <2>1. /\ at[h] = "subtree" /\ Goto(h, "served")
        /\ \/ through' = [through EXCEPT ![h] = S]
           \/ /\ job[h].kind = "search"
              /\ through' = [through EXCEPT ![h] = S \union {MyDrive}]
    BY <1>10 DEF ReadSubtree, Searched
  <2>2. want \in inside
    BY <1>2, <2>1 DEF Good, Knowing, inside
  <2>3. S \subseteq inside
    BY <1>5, <2>1, <2>2
  <2> HIDE DEF S
  <2>4. /\ through'[h] \subseteq inside \union {MyDrive}
        /\ MyDrive \in through'[h] => job[h].kind = "search"
    BY <1>2, <1>12, <2>1, <2>3
  <2>5. WasInside(h)'
    BY <1>1, <1>5, <2>1, <2>4, LetInFrom DEF inside
  <2>6. at'[h] \in Plain
    BY <1>2, <2>1, GotoFrame DEF Plain, Phases, Ended
  <2> QED
    BY <1>1, <1>2, <2>5, <2>6, PlainGood
<1>11. CASE Forward(h) \/ MoveMade(h)
  <2>1. /\ Goto(h, "served") \/ Goto(h, "move") \/ Goto(h, "moveOld") \/ Goto(h, "refused")
        /\ \/ UNCHANGED through
           \/ job[h].kind = "browse" /\ through' = [through EXCEPT ![h] = {MyDrive}]
    BY <1>11 DEF Forward, MoveMade
  <2>2. at'[h] \in Plain
    BY <1>2, <2>1, GotoFrame DEF Plain, Phases, Ended
  <2>3. WasInside(h)'
    <3>1. CASE UNCHANGED through
      BY <1>1, <3>1, LetInKept
    <3>2. CASE job[h].kind = "browse" /\ through' = [through EXCEPT ![h] = {MyDrive}]
      BY <1>1, <1>2, <3>2 DEF WasInside, Common
    <3> QED
      BY <2>1, <3>1, <3>2
  <2> QED
    BY <1>1, <1>2, <2>2, <2>3, PlainGood
<1> QED
  BY <1>6, <1>7, <1>8, <1>9, <1>10, <1>11

LEMMA BeginGood ==
  ASSUME ScopeInv, NEW h \in Handlers, Begin(h)
  PROVE  Good(h)'
<1>1. /\ TypeOK /\ Good(h) /\ RowsInside /\ at \in [Handlers -> Phases]
      /\ walk \in [Handlers -> Walks] /\ root \in [Refs -> Places]
  BY DEF ScopeInv, Good, TypeOK
<1>2. at[h] = "idle" /\ lent'[h] = granted /\ reach'[h] = held
  BY <1>1, BeginArrives, ArrivePuts
<1>3. UNCHANGED <<root, held, granted, list, through>>
  BY DEF Begin, BeginRefresh, BeginDelete, BeginAdd, BeginUpdate, BeginDrop, BeginGrant,
         BeginRequest, db
<1>4. /\ \A r \in Refs : list'[h][r] = None
      /\ through'[h] = {} /\ granted' \subseteq lent'[h] /\ held' \subseteq reach'[h]
  BY <1>1, <1>2, <1>3 DEF Good, Fits
<1>5. WasInside(h)'
  BY <1>4 DEF WasInside
<1>6. ASSUME NEW kind \in Console \union Agent, NEW r \in Refs \union {None}, NEW f \in Places,
             NEW rs \in SUBSET Refs, Arrive(h, kind, r, f, rs),
             kind = "open" => f \in Folders,
             \/ at'[h] \in {"unTree", "unConnect", "clear"}
             \/ at'[h] = "resolve" /\ kind \in Agent
             \/ at'[h] \in {"insert", "write"} /\ kind \in {"add", "update"} /\ r \in Refs /\ f \in Folders
      PROVE  Good(h)'
  <2>1. job'[h] = [kind |-> kind, ref |-> r, want |-> f, refs |-> rs]
    BY <1>1, <1>6, ArrivePuts
  <2>2. job'[h].kind = kind /\ job'[h].ref = r /\ job'[h].want = f
    BY <2>1
  <2>3. Fits(h)'
    BY <1>6, <2>2 DEF Fits, Copied
  <2>4. Knowing(h)'
    BY <1>4, <1>6 DEF Knowing
  <2> QED
    BY <1>5, <2>3, <2>4 DEF Good
<1>7. ASSUME NEW r \in Refs, BeginRefresh(h, r)
      PROVE  Good(h)'
  <2>1. /\ root[r] # None /\ Arrive(h, "refresh", r, None, {}) /\ StartWalk(h, r, root[r])
        /\ Goto(h, "walk")
    BY <1>7 DEF BeginRefresh
  <2>2. root[r] \in Folders
    BY <1>1, <2>1 DEF Places
  <2>3. at'[h] = "walk"
    BY <1>1, <2>1, GotoFrame DEF Phases
  <2>4. walk'[h] = [ref |-> r, root |-> root[r], todo |-> {root[r]}, found |-> {<<root[r], None>>}]
    BY <1>1, <2>1, <2>2, StartWalkPuts
  <2>5. walk'[h].ref = r /\ walk'[h].root = root[r]
        /\ walk'[h].todo = {root[r]} /\ walk'[h].found = {<<root[r], None>>}
    BY <2>4
  <2>6. job'[h].kind = "refresh"
    <3>1. ASSUME NEW kind \in Console \union Agent, NEW ref \in Refs \union {None}, NEW f \in Places,
                 NEW rs \in SUBSET Refs, Arrive(h, kind, ref, f, rs)
          PROVE  job'[h].kind = kind
      <4>1. job'[h] = [kind |-> kind, ref |-> ref, want |-> f, refs |-> rs]
        BY <1>1, <3>1, ArrivePuts
      <4> QED
        BY <4>1
    <3>2. "refresh" \in Console \union Agent /\ None \in Places /\ {} \in SUBSET Refs
          /\ r \in Refs \union {None}
      BY DEF Console, Places
    <3> QED
      BY <2>1, <3>1, <3>2
  <2>7. <<r, root[r]>> \in held'
    BY <1>1, <1>3, <2>1 DEF RowsInside
  <2>8. root[r] \in Below({root[r]}, everLink')
    BY <2>2, BelowSeed
  <2>9. "refresh" \notin Agent
    BY DEF Agent
  <2>10. Fits(h)'
    BY <2>2, <2>3, <2>5, <2>6, <2>9 DEF Fits, Copied
  <2>11. WalkInside(h)'
    BY <2>5, <2>8 DEF WalkInside, FoldersOf
  <2>12. Knowing(h)'
    BY <1>4, <2>3, <2>5, <2>6, <2>7, <2>9, <2>11 DEF Knowing
  <2> QED
    BY <1>5, <2>10, <2>12 DEF Good
<1> USE DEF Phases, Console, Places
<1>8. ASSUME NEW r \in Refs, BeginDelete(h, r)
      PROVE  Good(h)'
  BY <1>1, <1>6, <1>8, GotoFrame DEF BeginDelete
<1>9. ASSUME NEW r \in Refs, NEW f \in Folders, BeginAdd(h, r, f)
      PROVE  Good(h)'
  BY <1>1, <1>6, <1>9, GotoFrame DEF BeginAdd
<1>10. ASSUME NEW r \in Refs, NEW f \in Folders, BeginUpdate(h, r, f)
       PROVE  Good(h)'
  BY <1>1, <1>6, <1>10, GotoFrame DEF BeginUpdate
<1>11. CASE BeginDrop(h)
  <2>1. at'[h] \in {"unTree", "unConnect"}
    BY <1>1, <1>11, GotoFrame DEF BeginDrop
  <2> QED
    BY <1>6, <1>11, <2>1 DEF BeginDrop
<1>12. ASSUME NEW rs \in SUBSET Refs, BeginGrant(h, rs)
       PROVE  Good(h)'
  BY <1>1, <1>6, <1>12, GotoFrame DEF BeginGrant
<1>13. ASSUME NEW kind \in Agent, NEW r \in Refs \union {None}, NEW f \in Places,
              BeginRequest(h, kind, r, f)
       PROVE  Good(h)'
  <2>1. at'[h] = "resolve" /\ Arrive(h, kind, r, f, {}) /\ (kind = "open" => f \in Folders)
    BY <1>1, <1>13, GotoFrame DEF BeginRequest
  <2>2. kind \in Console \union Agent /\ {} \in SUBSET Refs /\ kind \in Agent
    OBVIOUS
  <2> HIDE DEF Console, Phases, Places
  <2> QED
    BY <1>6, <2>1, <2>2
<1> QED
  BY <1>7, <1>8, <1>9, <1>10, <1>11, <1>12, <1>13 DEF Begin

LEMMA OwnStep ==
  ASSUME ScopeInv, NEW h \in Handlers, Begin(h) \/ Statement(h)
  PROVE  Good(h)'
BY BeginGood, WalkingGood, ConsoleGood, MatchingGood, PlacingGood DEF Statement

LEMMA RequestStep ==
  ASSUME ScopeInv, NEW h \in Handlers, Begin(h) \/ Statement(h)
  PROVE  ScopeInv'
<1>1. TypeOK /\ Fits(h) /\ \A k \in Handlers : Good(k)
  BY DEF ScopeInv, Good
<1>2. ASSUME NEW k \in Handlers \ {h}
      PROVE  Good(k)'
  <2>1. /\ SameLocals(k) /\ lent[k] \subseteq lent'[k] /\ reach[k] \subseteq reach'[k]
        /\ Good(k) /\ Fits(k) /\ Knowing(k)
    BY <1>1, OthersKeep DEF Good
  <2>2. at[k] \notin Ended \union {"idle"} => granted \subseteq lent[k] /\ held \subseteq reach[k]
    BY <2>1 DEF Knowing
  <2>3. at'[k] \notin Ended \union {"idle"} =>
          granted' \subseteq lent'[k] /\ held' \subseteq reach'[k]
    BY <1>1, <2>2, GrantedLent, HeldReached
  <2>4. Keeps(k)
    BY <1>1, <2>1, PairsKept
  <2> QED
    BY <2>1, <2>3, <2>4, GrowsStep, GoodKept
<1> QED
  BY <1>1, <1>2, TypeStep, OwnStep, RowsInsideStep DEF ScopeInv, Good
-----------------------------------------------------------------------------
(* The world around the requests.                                            *)
LEMMA MoveStep ==
  ASSUME ScopeInv, NEW f \in Folders, NEW p \in Places, Move(f, p)
  PROVE  ScopeInv'
<1>1. /\ TypeOK /\ RowsInside /\ (\A k \in Handlers : Good(k))
      /\ parent \in [Folders -> Places] /\ moves \in 0..MaxMoves /\ everLink \in SUBSET Rows
      /\ met \in [Handlers -> SUBSET (Handlers \union {"google"})]
  BY DEF ScopeInv, TypeOK, Good
<1>2. /\ moves < MaxMoves /\ parent' = [parent EXCEPT ![f] = p] /\ moves' = moves + 1
      /\ everLink' = everLink \union {<<f, p>>}
      /\ met' = [k \in Handlers |-> IF at[k] = "idle" THEN {} ELSE met[k] \union {"google"}]
      /\ UNCHANGED <<workspace, root, held, granted, tree, at, job, list, left, near, walk,
                     through, made, lent, reach>>
  BY DEF Move, db
<1>3. TypeOK'
  <2>1. parent' \in [Folders -> Places] /\ everLink' \in SUBSET Rows
    BY <1>1, <1>2 DEF Rows, Places
  <2>2. moves' \in 0..MaxMoves
    BY <1>1, <1>2, MovesAssumption
  <2>3. met' \in [Handlers -> SUBSET (Handlers \union {"google"})]
    BY <1>1, <1>2
  <2> QED
    BY <1>1, <1>2, <2>1, <2>2, <2>3 DEF TypeOK
<1>4. Grows /\ \A r : EverInside(r, held) \subseteq EverInside(r, held)'
  BY <1>2, HeldGrows DEF Grows
<1>5. ASSUME NEW k \in Handlers
      PROVE  Good(k)'
  <2>1. Good(k) /\ SameLocals(k) /\ lent[k] \subseteq lent'[k] /\ reach[k] \subseteq reach'[k]
    BY <1>1, <1>2 DEF SameLocals
  <2>2. /\ at'[k] \notin Ended \union {"idle"} =>
             granted' \subseteq lent'[k] /\ held' \subseteq reach'[k]
        /\ Keeps(k)
    BY <1>2, <2>1 DEF Good, Knowing, Keeps
  <2> QED
    BY <1>4, <2>1, <2>2, GoodKept
<1>6. RowsInside'
  <2>1. \A g \in Folders : <<g, parent'[g]>> \in everLink'
    BY <1>1, <1>2 DEF RowsInside
  <2> QED
    BY <1>1, <1>2, <1>4, <2>1 DEF RowsInside, FoldersOf
<1> QED
  BY <1>3, <1>5, <1>6 DEF ScopeInv, Good

LEMMA ConnectStep ==
  ASSUME ScopeInv, Connect \/ UNCHANGED vars
  PROVE  ScopeInv'
<1>1. /\ UNCHANGED <<parent, moves, everLink, root, held, granted, tree, at, job, list, left,
                     near, walk, through, made, met, lent, reach>>
      /\ workspace' \in BOOLEAN
  BY DEF Connect, google, vars, ScopeInv, TypeOK
<1>2. TypeOK'
  BY <1>1 DEF ScopeInv, TypeOK
<1>3. Grows
  BY <1>1 DEF Grows
<1>4. ASSUME NEW k \in Handlers
      PROVE  Good(k)'
  <2>1. Good(k) /\ SameLocals(k) /\ lent[k] \subseteq lent'[k] /\ reach[k] \subseteq reach'[k]
    BY <1>1 DEF SameLocals, ScopeInv, Good
  <2>2. /\ at'[k] \notin Ended \union {"idle"} =>
             granted' \subseteq lent'[k] /\ held' \subseteq reach'[k]
        /\ Keeps(k)
    BY <1>1, <2>1 DEF Good, Knowing, Keeps
  <2> QED
    BY <1>3, <2>1, <2>2, GoodKept
<1>5. RowsInside'
  BY <1>1 DEF ScopeInv, RowsInside, EverInside, Below, FoldersOf
<1> QED
  BY <1>2, <1>4, <1>5 DEF ScopeInv, Good

LEMMA StopStep ==
  ASSUME ScopeInv, Stop
  PROVE  ScopeInv'
<1>1. /\ UNCHANGED <<parent, moves, everLink, workspace, root, held, granted, tree, job, list,
                     left, near, walk, through, made, met, lent, reach>>
      /\ at' = [h \in Handlers |-> IF h \in Running THEN "stopped" ELSE at[h]]
  BY DEF Stop, google, db
<1>2. at' \in [Handlers -> Phases]
  BY <1>1 DEF ScopeInv, TypeOK, Phases, Ended
<1>3. TypeOK'
  BY <1>1, <1>2 DEF ScopeInv, TypeOK
<1>4. Grows /\ \A r : EverInside(r, held) \subseteq EverInside(r, held)'
  BY <1>1, HeldGrows DEF Grows
<1>5. ASSUME NEW k \in Handlers
      PROVE  Good(k)'
  <2>1. Good(k)
    BY DEF ScopeInv, Good
  <2>2. CASE k \in Running
    <3>1. at'[k] = "stopped"
      BY <1>1, <2>2
    <3>2. Fits(k)'
      BY <1>1, <2>1, <3>1 DEF Good, Fits, Copied
    <3>3. Knowing(k)'
      BY <1>1, <2>1, <3>1 DEF Good, Knowing, Ended
    <3>4. WasInside(k)'
      <4>1. \A r : EverInside(r, reach[k]) \subseteq EverInside(r, reach[k])'
        BY <1>1, <1>4, ReachGrows
      <4> QED
        BY <1>1, <2>1, <4>1 DEF Good, WasInside
    <3> QED
      BY <3>2, <3>3, <3>4 DEF Good
  <2>3. CASE k \notin Running
    <3>1. SameLocals(k) /\ lent[k] \subseteq lent'[k] /\ reach[k] \subseteq reach'[k]
      BY <1>1, <2>3 DEF SameLocals
    <3>2. /\ at'[k] \notin Ended \union {"idle"} =>
               granted' \subseteq lent'[k] /\ held' \subseteq reach'[k]
          /\ Keeps(k)
      BY <1>1, <2>1, <3>1 DEF Good, Knowing, SameLocals, Keeps
    <3> QED
      BY <1>4, <2>1, <3>1, <3>2, GoodKept
  <2> QED
    BY <2>2, <2>3
<1>6. RowsInside'
  BY <1>1, <1>4 DEF ScopeInv, RowsInside
<1> QED
  BY <1>3, <1>5, <1>6 DEF ScopeInv, Good

LEMMA ScopeInvStep == ScopeInv /\ [Next]_vars => ScopeInv'
BY RequestStep, MoveStep, ConnectStep, StopStep DEF Next

(* The tables before the first request: what a walk may have left of each    *)
(* tree.                                                                     *)
LEMMA ScopeInvInit == Init => ScopeInv
<1> SUFFICES ASSUME Init PROVE ScopeInv
  OBVIOUS
<1> DEFINE whole == [r \in Refs |-> IF root[r] = None THEN {} ELSE WholeTree(root[r], everLink)]
<1>1. /\ parent = InitParent /\ moves = 0 /\ everLink = {<<f, InitParent[f]>> : f \in Folders}
      /\ workspace = TRUE /\ root \in InitRoots
      /\ held = {p \in Refs \X Folders : p[2] = root[p[1]]}
      /\ granted \in SUBSET {r \in Refs : root[r] # None}
  BY DEF Init
<1>2. tree \in [Refs -> SUBSET UNION {whole[r] : r \in Refs}] /\ \A r \in Refs : tree[r] \subseteq whole[r]
  BY DEF Init
<1>3. /\ root \in [Refs -> Places]
      /\ \A r, s \in Refs : root[r] = root[s] /\ root[r] # None => r = s
  BY <1>1, RootsAssumption DEF Places
<1>4. parent \in [Folders -> Places] /\ everLink \subseteq Rows
  BY <1>1, ParentAssumption DEF Places, Rows
<1>5. \A r \in Refs : tree[r] \subseteq Rows /\ (root[r] = None => tree[r] = {})
  <2> SUFFICES ASSUME NEW r \in Refs
               PROVE  tree[r] \subseteq Rows /\ (root[r] = None => tree[r] = {})
    OBVIOUS
  <2>1. tree[r] \subseteq whole[r]
    BY <1>2
  <2>2. CASE root[r] = None
    BY <2>1, <2>2
  <2>3. CASE root[r] # None
    <3>1. tree[r] \subseteq WholeTree(root[r], everLink) /\ root[r] \in Folders
      BY <1>3, <2>1, <2>3 DEF Places
    <3>2. WholeTree(root[r], everLink) \subseteq {<<root[r], None>>} \union everLink
      BY DEF WholeTree
    <3>3. <<root[r], None>> \in Rows
      BY <3>1 DEF Rows
    <3> QED
      BY <1>4, <2>3, <3>1, <3>2, <3>3
  <2> QED
    BY <2>2, <2>3
<1>6. \A r \in Refs : root[r] # None => <<r, root[r]>> \in held /\ root[r] \in Folders
  BY <1>1, <1>3 DEF Places
<1>7. ASSUME NEW r \in Refs
      PROVE  FoldersOf(tree[r]) \subseteq EverInside(r, held)
  <2>1. CASE root[r] = None
    BY <1>5, <2>1 DEF FoldersOf
  <2>2. CASE root[r] # None
    <3> DEFINE f == root[r]
    <3>1. f \in Folders /\ <<r, f>> \in held
      BY <1>6, <2>2
    <3>2. tree[r] \subseteq WholeTree(f, everLink)
      BY <1>2, <2>2
    <3> HIDE DEF f
    <3>3. Below({f}, everLink) \subseteq EverInside(r, held) /\ f \in EverInside(r, held)
      BY <3>1, EverInsideRoot
    <3>4. \A e \in WholeTree(f, everLink) : e[1] \in EverInside(r, held)
      BY <3>3 DEF WholeTree
    <3> QED
      BY <3>2, <3>4 DEF FoldersOf
  <2> QED
    BY <2>1, <2>2
<1>8. RowsInside
  BY <1>1, <1>6, <1>7 DEF RowsInside
<1>9. /\ at = [h \in Handlers |-> "idle"] /\ job = [h \in Handlers |-> NoJob]
      /\ list = [h \in Handlers |-> [r \in Refs |-> None]] /\ left = [h \in Handlers |-> {}]
      /\ near = [h \in Handlers |-> None] /\ walk = [h \in Handlers |-> NoWalk]
      /\ through = [h \in Handlers |-> {}] /\ made = [h \in Handlers |-> None]
      /\ met = [h \in Handlers |-> {}] /\ lent = [h \in Handlers |-> {}]
      /\ reach = [h \in Handlers |-> {}]
  BY DEF Init
<1>10. NoJob \in Jobs /\ NoWalk \in Walks /\ NoJob.kind = "none"
  BY DEF NoJob, NoWalk, Jobs, Walks, Places
<1>11. ASSUME NEW h \in Handlers
       PROVE  Good(h)
  <2>1. at[h] = "idle" /\ job[h].kind = "none" /\ through[h] = {} /\ \A r \in Refs : list[h][r] = None
    BY <1>9, <1>10
  <2>2. Fits(h)
    BY <2>1 DEF Fits, Copied
  <2>3. Knowing(h)
    BY <2>1 DEF Knowing
  <2>4. WasInside(h)
    BY <2>1 DEF WasInside
  <2> QED
    BY <2>2, <2>3, <2>4 DEF Good
<1>12. TypeOK
  <2>1. /\ at \in [Handlers -> Phases] /\ job \in [Handlers -> Jobs]
        /\ list \in [Handlers -> [Refs -> Places]] /\ left \in [Handlers -> SUBSET Refs]
        /\ near \in [Handlers -> Places \union {MyDrive}] /\ walk \in [Handlers -> Walks]
        /\ through \in [Handlers -> SUBSET (Folders \union {MyDrive})]
        /\ made \in [Handlers -> Places \union {MyDrive}]
        /\ met \in [Handlers -> SUBSET (Handlers \union {"google"})]
        /\ lent \in [Handlers -> SUBSET Refs]
        /\ reach \in [Handlers -> SUBSET (Refs \X Folders)]
    BY <1>9, <1>10 DEF Phases, Places
  <2>2. moves \in 0..MaxMoves
    BY <1>1, MovesAssumption
  <2>3. tree \in [Refs -> SUBSET Rows] /\ held \in SUBSET (Refs \X Folders) /\ granted \in SUBSET Refs
    BY <1>1, <1>2, <1>5
  <2>4. \A r \in Refs : root[r] = None => r \notin granted /\ tree[r] = {}
    BY <1>1, <1>5
  <2> QED
    BY <1>1, <1>3, <1>4, <2>1, <2>2, <2>3, <2>4 DEF TypeOK
<1> QED
  BY <1>8, <1>11, <1>12 DEF ScopeInv, Good
-----------------------------------------------------------------------------
(* What a deletion of the Workspace leaves.  Two requests that run overlap;  *)
(* a row that a running deletion does not have on its list was registered by *)
(* a request that overlaps it; and while the Workspace is gone a row, and a  *)
(* registration about to insert one, overlapped a deletion.                  *)
Raced(r, k) == \E h \in Handlers : job[h].kind = "add" /\ job[h].ref = r /\ h \in met[k]
Removing == {"unTree", "unGrant", "unRow", "unConnect"}

Overlap == \A h, k \in Running : h # k => h \in met[k]
Kinds ==
  \A h \in Handlers :
    /\ job[h].kind \in {"add", "drop"} => at[h] # "idle"
    /\ at[h] = "insert" => job[h].kind = "add"
    /\ at[h] \in Removing => job[h].kind \in {"add", "delete", "drop"}
    /\ at[h] = "unConnect" => job[h].kind = "drop" /\ left[h] = {}
Unlisted ==
  \A k \in Handlers : job[k].kind = "drop" /\ at[k] \in Removing =>
    \A r \in Refs : root[r] # None => r \in left[k] \/ Raced(r, k)
Outliving ==
  ~workspace =>
    /\ \A r \in Refs : root[r] # None =>
         \E k \in Handlers : job[k].kind = "drop" /\ Raced(r, k)
    /\ \A h \in Handlers : at[h] = "insert" =>
         \E k \in Handlers : job[k].kind = "drop" /\ h \in met[k]
DropInv == Overlap /\ Kinds /\ Unlisted /\ Outliving

(* How a request gets to insert a reference and to remove one.               *)
Enters(h) ==
  /\ at'[h] # "idle"
  /\ at'[h] = "insert" => \E r \in Refs, f \in Folders : BeginAdd(h, r, f)
  /\ at'[h] \in Removing =>
       \/ UnTree(h) \/ UnGrant(h) \/ UnRow(h)
       \/ BeginDrop(h) \/ \E r \in Refs : BeginDelete(h, r)
       \/ at'[h] = "unTree" /\ job[h].kind = "add" /\ UNCHANGED job /\ Statement(h)

LEMMA EntersStep ==
  ASSUME at \in [Handlers -> Phases], NEW h \in Handlers, Begin(h) \/ Statement(h)
  PROVE  Enters(h)
<1> USE DEF Removing
<1>1. CASE ListFolder(h)
  BY <1>1 DEF ListFolder, Enters
<1>2. CASE ListFails(h)
  <2>1. Goto(h, "refused") \/ (Goto(h, "unTree") /\ job[h].kind = "add" /\ UNCHANGED job)
    BY <1>2 DEF ListFails, WalkFails
  <2> QED
    BY <1>2, <2>1, GotoFrame DEF Enters, Phases, Ended, Statement
<1>3. CASE ClearTree(h)
  <2>1. Goto(h, "fill")
    BY <1>3 DEF ClearTree
  <2> QED
    BY <1>3, <2>1, GotoFrame DEF Enters, Phases, Ended
<1>4. CASE FillRow(h)
  <2>1. (UNCHANGED at /\ at[h] \in {"fill"}) \/ Goto(h, "refused") \/ (Goto(h, "unTree") /\ job[h].kind = "add" /\ UNCHANGED job)
    BY <1>4 DEF FillRow, WalkFails
  <2> QED
    BY <1>4, <2>1, GotoFrame DEF Enters, Phases, Ended, Statement
<1>5. CASE Filled(h)
  <2>1. Goto(h, "ok") \/ Goto(h, "next") \/ Goto(h, "read")
    BY <1>5 DEF Filled, AfterWalk
  <2> QED
    BY <1>5, <2>1, GotoFrame DEF Enters, Phases, Ended
<1>6. CASE Insert(h)
  <2>1. Goto(h, "walk") \/ Goto(h, "refused")
    BY <1>6 DEF Insert
  <2> QED
    BY <1>6, <2>1, GotoFrame DEF Enters, Phases, Ended
<1>7. CASE Write(h)
  <2>1. Goto(h, "walk") \/ Goto(h, "refused")
    BY <1>7 DEF Write
  <2> QED
    BY <1>7, <2>1, GotoFrame DEF Enters, Phases, Ended
<1>8. CASE UnTree(h)
  <2>1. Goto(h, "unGrant")
    BY <1>8 DEF UnTree
  <2> QED
    BY <1>8, <2>1, GotoFrame DEF Enters, Phases, Ended
<1>9. CASE UnGrant(h)
  <2>1. Goto(h, "unRow")
    BY <1>9 DEF UnGrant
  <2> QED
    BY <1>9, <2>1, GotoFrame DEF Enters, Phases, Ended
<1>10. CASE UnRow(h)
  <2>1. Goto(h, "refused") \/ Goto(h, "ok") \/ Goto(h, "unConnect") \/ Goto(h, "unTree")
    BY <1>10 DEF UnRow
  <2> QED
    BY <1>10, <2>1, GotoFrame DEF Enters, Phases, Ended
<1>11. CASE UnConnect(h)
  <2>1. Goto(h, "ok")
    BY <1>11 DEF UnConnect
  <2> QED
    BY <1>11, <2>1, GotoFrame DEF Enters, Phases, Ended
<1>12. CASE ClearGrants(h)
  <2>1. Goto(h, "grantRow")
    BY <1>12 DEF ClearGrants
  <2> QED
    BY <1>12, <2>1, GotoFrame DEF Enters, Phases, Ended
<1>13. CASE GrantRow(h)
  <2>1. (UNCHANGED at /\ at[h] \in {"grantRow"}) \/ Goto(h, "refused")
    BY <1>13 DEF GrantRow
  <2> QED
    BY <1>13, <2>1, GotoFrame DEF Enters, Phases, Ended
<1>14. CASE GrantsSaved(h)
  <2>1. Goto(h, "ok")
    BY <1>14 DEF GrantsSaved
  <2> QED
    BY <1>14, <2>1, GotoFrame DEF Enters, Phases, Ended
<1>15. CASE Resolve(h)
  <2>1. \/ Goto(h, "refused") \/ Goto(h, "meta") \/ Goto(h, "next") \/ Goto(h, "ensure")
        \/ Goto(h, "forward")
    BY <1>15 DEF Resolve, FirstPhase
  <2> QED
    BY <1>15, <2>1, GotoFrame DEF Enters, Phases, Ended
<1>16. CASE Meta(h)
  <2>1. Goto(h, "match") \/ Goto(h, "refused")
    BY <1>16 DEF Meta
  <2> QED
    BY <1>16, <2>1, GotoFrame DEF Enters, Phases, Ended
<1>17. CASE Match(h)
  <2>1. (UNCHANGED at /\ at[h] \in {"match", "rematch"}) \/ Goto(h, "served")
    BY <1>17 DEF Match
  <2> QED
    BY <1>17, <2>1, GotoFrame DEF Enters, Phases, Ended
<1>18. CASE NoMatch(h)
  <2>1. Goto(h, "next") \/ Goto(h, "outside")
    BY <1>18 DEF NoMatch
  <2> QED
    BY <1>18, <2>1, GotoFrame DEF Enters, Phases, Ended
<1>19. CASE WalkNext(h)
  <2>1. Goto(h, "walk")
    BY <1>19 DEF WalkNext
  <2> QED
    BY <1>19, <2>1, GotoFrame DEF Enters, Phases, Ended
<1>20. CASE AllWalked(h)
  <2>1. Goto(h, "ok") \/ Goto(h, "rematch")
    BY <1>20 DEF AllWalked
  <2> QED
    BY <1>20, <2>1, GotoFrame DEF Enters, Phases, Ended
<1>21. CASE Ensure(h)
  <2>1. Goto(h, "read") \/ Goto(h, "walk")
    BY <1>21 DEF Ensure
  <2> QED
    BY <1>21, <2>1, GotoFrame DEF Enters, Phases, Ended
<1>22. CASE ReadTree(h)
  <2>1. Goto(h, "ensure") \/ Goto(h, "refused") \/ Goto(h, "served")
    BY <1>22 DEF ReadTree
  <2> QED
    BY <1>22, <2>1, GotoFrame DEF Enters, Phases, Ended
<1>23. CASE TargetFound(h)
  <2>1. Goto(h, "subtree") \/ Goto(h, "forward")
    BY <1>23 DEF TargetFound
  <2> QED
    BY <1>23, <2>1, GotoFrame DEF Enters, Phases, Ended
<1>24. CASE TargetMissed(h)
  <2>1. Goto(h, "walk") \/ Goto(h, "outside")
    BY <1>24 DEF TargetMissed
  <2> QED
    BY <1>24, <2>1, GotoFrame DEF Enters, Phases, Ended
<1>25. CASE ReadSubtree(h)
  <2>1. Goto(h, "served")
    BY <1>25 DEF ReadSubtree
  <2> QED
    BY <1>25, <2>1, GotoFrame DEF Enters, Phases, Ended
<1>26. CASE Forward(h)
  <2>1. Goto(h, "served") \/ Goto(h, "move") \/ Goto(h, "moveOld") \/ Goto(h, "refused")
    BY <1>26 DEF Forward
  <2> QED
    BY <1>26, <2>1, GotoFrame DEF Enters, Phases, Ended
<1>27. CASE MoveMade(h)
  <2>1. Goto(h, "served") \/ Goto(h, "refused")
    BY <1>27 DEF MoveMade
  <2> QED
    BY <1>27, <2>1, GotoFrame DEF Enters, Phases, Ended
<1>28. ASSUME NEW r \in Refs, BeginRefresh(h, r) PROVE Enters(h)
  <2>1. Goto(h, "walk")
    BY <1>28 DEF BeginRefresh
  <2> QED
    BY <1>28, <2>1, GotoFrame DEF Enters, Phases, Ended
<1>29. ASSUME NEW r \in Refs, BeginDelete(h, r) PROVE Enters(h)
  <2>1. Goto(h, "unTree")
    BY <1>29 DEF BeginDelete
  <2> QED
    BY <1>29, <2>1, GotoFrame DEF Enters, Phases, Ended
<1>30. ASSUME NEW r \in Refs, NEW f \in Folders, BeginAdd(h, r, f) PROVE Enters(h)
  <2>1. Goto(h, "insert")
    BY <1>30 DEF BeginAdd
  <2> QED
    BY <1>30, <2>1, GotoFrame DEF Enters, Phases, Ended
<1>31. ASSUME NEW r \in Refs, NEW f \in Folders, BeginUpdate(h, r, f) PROVE Enters(h)
  <2>1. Goto(h, "write")
    BY <1>31 DEF BeginUpdate
  <2> QED
    BY <1>31, <2>1, GotoFrame DEF Enters, Phases, Ended
<1>32. CASE BeginDrop(h)
  <2>1. Goto(h, "unTree") \/ Goto(h, "unConnect")
    BY <1>32 DEF BeginDrop
  <2> QED
    BY <1>32, <2>1, GotoFrame DEF Enters, Phases, Ended
<1>33. ASSUME NEW rs \in SUBSET Refs, BeginGrant(h, rs) PROVE Enters(h)
  <2>1. Goto(h, "clear")
    BY <1>33 DEF BeginGrant
  <2> QED
    BY <1>33, <2>1, GotoFrame DEF Enters, Phases, Ended
<1>34. ASSUME NEW kind \in Agent, NEW r \in Refs \union {None}, NEW f \in Places, BeginRequest(h, kind, r, f)
       PROVE  Enters(h)
  <2>1. Goto(h, "resolve")
    BY <1>34 DEF BeginRequest
  <2> QED
    BY <1>34, <2>1, GotoFrame DEF Enters, Phases, Ended
<1> QED
  BY <1>1, <1>2, <1>3, <1>4, <1>5, <1>6, <1>7, <1>8, <1>9, <1>10, <1>11, <1>12, <1>13,
     <1>14, <1>15, <1>16, <1>17, <1>18, <1>19, <1>20, <1>21, <1>22, <1>23, <1>24, <1>25,
     <1>26, <1>27, <1>28, <1>29, <1>30, <1>31, <1>32, <1>33, <1>34 DEF Begin, Statement

(* What a request was asked for and whom it overlaps stays.                  *)
Persists ==
  /\ \A j \in Handlers : job[j].kind \in {"add", "drop"} => job'[j] = job[j]
  /\ \A j \in Handlers : at[j] # "idle" => met[j] \subseteq met'[j] /\ at'[j] # "idle"

LEMMA RacedKept ==
  ASSUME Persists, NEW k \in Handlers, at[k] # "idle", NEW r, Raced(r, k)
  PROVE  Raced(r, k)'
BY DEF Persists, Raced

LEMMA ArriveMeets ==
  ASSUME TypeOK, NEW h \in Handlers, Begin(h)
  PROVE  /\ met'[h] = Running
         /\ \A k \in Handlers \ {h} : met'[k] = IF k \in Running THEN met[k] \union {h} ELSE met[k]
<1>1. met' = [k \in Handlers |-> IF k = h THEN Running
                                 ELSE IF k \in Running THEN met[k] \union {h}
                                 ELSE met[k]]
  BY BeginArrives DEF Arrive
<1> QED
  BY <1>1

LEMMA ArriveAsks ==
  ASSUME TypeOK, NEW h \in Handlers, NEW kind, NEW r, NEW f, NEW rs, Arrive(h, kind, r, f, rs)
  PROVE  job'[h].kind = kind
<1>1. job \in [Handlers -> Jobs]
  BY DEF TypeOK
<1>2. job'[h] = [kind |-> kind, ref |-> r, want |-> f, refs |-> rs]
  BY <1>1 DEF Arrive
<1> QED
  BY <1>2

LEMMA PersistStep ==
  ASSUME ScopeInv, Kinds, NEW h \in Handlers, Begin(h) \/ Statement(h)
  PROVE  Persists
<1>1. TypeOK /\ Fits(h) /\ at \in [Handlers -> Phases] /\ Enters(h)
  BY EntersStep DEF ScopeInv, TypeOK
<1>2. \A j \in Handlers \ {h} : job'[j] = job[j] /\ at'[j] = at[j]
  BY <1>1, OthersKeep DEF SameLocals
<1>3. CASE Begin(h)
  <2>1. at[h] = "idle"
    BY <1>1, <1>3, BeginArrives, ArrivePuts
  <2>2. job[h].kind \notin {"add", "drop"}
    BY <2>1 DEF Kinds
  <2>3. \A j \in Handlers \ {h} : met[j] \subseteq met'[j]
    <3>1. \A j \in Handlers \ {h} : met'[j] = IF j \in Running THEN met[j] \union {h} ELSE met[j]
      BY <1>1, <1>3, ArriveMeets
    <3> QED
      BY <3>1
  <2> QED
    BY <1>2, <2>1, <2>2, <2>3 DEF Persists
<1>4. CASE Statement(h)
  <2>1. ~ Begin(h)
    BY <1>1, <1>4, BeginArrives, ArrivePuts, StatementRuns
  <2>2. UNCHANGED <<job, met>>
    BY <2>1, FrameStep DEF Frame
  <2>3. at'[h] # "idle"
    BY <1>1 DEF Enters
  <2> QED
    BY <1>2, <2>2, <2>3 DEF Persists
<1> QED
  BY <1>3, <1>4

(* A row of a reference appears when a request inserts it.                   *)
LEMMA RowAppears ==
  ASSUME ScopeInv, NEW h \in Handlers, Begin(h) \/ Statement(h),
         NEW r \in Refs, root'[r] # None, root[r] = None
  PROVE  Insert(h) /\ at[h] = "insert" /\ job[h].ref = r
<1>1. root \in [Refs -> Places] /\ Fits(h)
  BY DEF ScopeInv, TypeOK
<1>2. UNCHANGED root \/ Insert(h) \/ Write(h) \/ UnRow(h)
  BY FrameStep DEF Frame
<1>3. CASE Insert(h)
  <2>1. at[h] = "insert" /\ (UNCHANGED root \/ root' = [root EXCEPT ![job[h].ref] = job[h].want])
    BY <1>3 DEF Insert
  <2> QED
    BY <1>1, <1>3, <2>1
<1>4. CASE Write(h)
  <2>1. UNCHANGED root \/ (root[job[h].ref] # None /\ root' = [root EXCEPT ![job[h].ref] = job[h].want])
    BY <1>4 DEF Write
  <2> QED
    BY <1>1, <2>1
<1>5. CASE UnRow(h)
  <2>1. root' = [root EXCEPT ![walk[h].ref] = None]
    BY <1>5 DEF UnRow
  <2> QED
    BY <1>1, <2>1
<1> QED
  BY <1>2, <1>3, <1>4, <1>5

LEMMA OverlapStep ==
  ASSUME ScopeInv, DropInv, NEW h \in Handlers, Begin(h) \/ Statement(h)
  PROVE  Overlap'
<1>1. TypeOK /\ Fits(h) /\ Kinds /\ Overlap
  BY DEF ScopeInv, DropInv
<1>2. Persists
  BY <1>1, PersistStep
<1>3. \A j \in Handlers \ {h} : at'[j] = at[j]
  BY <1>1, OthersKeep DEF SameLocals
<1> SUFFICES ASSUME NEW j \in Running', NEW k \in Running', j # k
             PROVE  j \in met'[k]
  BY DEF Overlap
<1>4. j \in Handlers /\ k \in Handlers
  BY DEF Running
<1>5. CASE Begin(h)
  <2>1. \A i \in Handlers \ {h} : i \in Running' <=> i \in Running
    BY <1>3 DEF Running
  <2>2. CASE k = h
    BY <1>1, <1>4, <1>5, <2>1, <2>2, ArriveMeets
  <2>3. CASE k # h
    <3>1. k \in Running /\ met'[k] = met[k] \union {h}
      BY <1>1, <1>4, <1>5, <2>1, <2>3, ArriveMeets
    <3> QED
      BY <1>1, <1>4, <2>1, <3>1 DEF Overlap
  <2> QED
    BY <2>2, <2>3
<1>6. CASE Statement(h)
  <2>1. j \in Running /\ k \in Running
    BY <1>3, <1>4, <1>6, StatementRuns DEF Running
  <2>2. met[k] \subseteq met'[k]
    BY <1>2, <1>4, <2>1 DEF Persists, Running
  <2> QED
    BY <1>1, <2>1, <2>2 DEF Overlap
<1> QED
  BY <1>5, <1>6

LEMMA KindsStep ==
  ASSUME ScopeInv, DropInv, NEW h \in Handlers, Begin(h) \/ Statement(h)
  PROVE  Kinds'
<1>1. TypeOK /\ Fits(h) /\ Kinds /\ Enters(h) /\ at \in [Handlers -> Phases]
      /\ left \in [Handlers -> SUBSET Refs]
  BY EntersStep DEF ScopeInv, DropInv, TypeOK
<1>2. ASSUME NEW k \in Handlers \ {h}
      PROVE  at'[k] = at[k] /\ job'[k] = job[k] /\ left'[k] = left[k]
  BY <1>1, OthersKeep DEF SameLocals
<1>3. at'[h] # "idle"
  BY <1>1 DEF Enters
<1>4. at'[h] = "insert" => job'[h].kind = "add"
  <2> SUFFICES ASSUME at'[h] = "insert" PROVE job'[h].kind = "add"
    OBVIOUS
  <2>1. PICK r \in Refs, f \in Folders : BeginAdd(h, r, f)
    BY <1>1 DEF Enters
  <2>2. Arrive(h, "add", r, f, {})
    BY <2>1 DEF BeginAdd
  <2> QED
    BY <1>1, <2>2, ArriveAsks
<1>5. /\ at'[h] \in Removing => job'[h].kind \in {"add", "delete", "drop"}
      /\ at'[h] = "unConnect" => job'[h].kind = "drop" /\ left'[h] = {}
  <2> SUFFICES ASSUME at'[h] \in Removing
               PROVE  /\ job'[h].kind \in {"add", "delete", "drop"}
                      /\ at'[h] = "unConnect" => job'[h].kind = "drop" /\ left'[h] = {}
    BY DEF Removing
  <2>1. CASE UnTree(h) \/ UnGrant(h)
    <3>1. at[h] \in Removing /\ UNCHANGED job
      BY <2>1 DEF UnTree, UnGrant, Removing
    <3>2. at'[h] \in {"unGrant", "unRow"}
      BY <1>1, <2>1, GotoFrame DEF UnTree, UnGrant, Phases
    <3> QED
      BY <1>1, <3>1, <3>2 DEF Kinds
  <2>2. CASE UnRow(h)
    <3>1. at[h] \in Removing /\ UNCHANGED job
      BY <2>2 DEF UnRow, Removing
    <3>2. job[h].kind \in {"add", "delete", "drop"}
      BY <1>1, <3>1 DEF Kinds
    <3>3. left' = [left EXCEPT ![h] = left[h] \ {walk[h].ref}]
          /\ Goto(h, CASE job[h].kind = "add" -> "refused"
                       [] job[h].kind = "delete" -> "ok"
                       [] OTHER -> IF left[h] \subseteq {walk[h].ref} THEN "unConnect"
                                   ELSE "unTree")
      BY <2>2 DEF UnRow
    <3>4. at'[h] = "unConnect" => job[h].kind = "drop" /\ left[h] \subseteq {walk[h].ref}
      BY <1>1, <3>2, <3>3, GotoFrame DEF Phases, Ended
    <3> QED
      BY <1>1, <3>1, <3>2, <3>3, <3>4
  <2>3. CASE BeginDrop(h)
    <3>1. Arrive(h, "drop", None, None, {}) /\ left' = [left EXCEPT ![h] = {r \in Refs : root[r] # None}]
          /\ Goto(h, IF \A r \in Refs : root[r] = None THEN "unConnect" ELSE "unTree")
      BY <2>3 DEF BeginDrop
    <3>2. job'[h].kind = "drop"
      BY <1>1, <3>1, ArriveAsks
    <3>3. at'[h] = "unConnect" => \A r \in Refs : root[r] = None
      BY <1>1, <3>1, GotoFrame DEF Phases
    <3>4. left'[h] = {r \in Refs : root[r] # None}
      BY <1>1, <3>1
    <3> QED
      BY <3>2, <3>3, <3>4
  <2>4. CASE \E r \in Refs : BeginDelete(h, r)
    <3>1. PICK r \in Refs : Arrive(h, "delete", r, None, {}) /\ Goto(h, "unTree")
      BY <2>4 DEF BeginDelete
    <3>2. job'[h].kind = "delete"
      BY <1>1, <3>1, ArriveAsks
    <3>3. at'[h] = "unTree"
      BY <1>1, <3>1, GotoFrame DEF Phases
    <3> QED
      BY <3>2, <3>3
  <2> QED
    BY <1>1, <2>1, <2>2, <2>3, <2>4 DEF Enters
<1> QED
  BY <1>1, <1>2, <1>3, <1>4, <1>5 DEF Kinds

LEMMA UnlistedStep ==
  ASSUME ScopeInv, DropInv, NEW h \in Handlers, Begin(h) \/ Statement(h)
  PROVE  Unlisted'
<1>1. TypeOK /\ Fits(h) /\ Kinds /\ Kinds' /\ Unlisted /\ Overlap /\ Enters(h)
      /\ at \in [Handlers -> Phases] /\ left \in [Handlers -> SUBSET Refs]
      /\ root \in [Refs -> Places]
  BY EntersStep, KindsStep DEF ScopeInv, DropInv, TypeOK
<1>2. Persists
  BY <1>1, PersistStep
<1> SUFFICES ASSUME NEW k \in Handlers, job'[k].kind = "drop", at'[k] \in Removing,
                    NEW r \in Refs, root'[r] # None
             PROVE  r \in left'[k] \/ Raced(r, k)'
  BY DEF Unlisted
<1>3. CASE k # h
  <2>1. at'[k] = at[k] /\ job'[k] = job[k] /\ left'[k] = left[k]
    BY <1>1, <1>3, OthersKeep DEF SameLocals
  <2>2. k \in Running
    BY <2>1 DEF Running, Removing, Ended
  <2>3. CASE root[r] # None
    BY <1>1, <1>2, <2>1, <2>2, <2>3, RacedKept DEF Unlisted, Running
  <2>4. CASE root[r] = None
    <3>1. at[h] = "insert" /\ job[h].ref = r
      BY <2>4, RowAppears
    <3>2. job[h].kind = "add" /\ h \in Running
      BY <1>1, <3>1 DEF Kinds, Running, Ended
    <3>3. Raced(r, k)
      BY <1>1, <1>3, <2>2, <3>1, <3>2 DEF Overlap, Raced
    <3> QED
      BY <1>2, <2>2, <3>3, RacedKept DEF Running
  <2> QED
    BY <2>3, <2>4
<1>4. CASE k = h
  <2>1. CASE BeginDrop(h)
    <3>1. left'[h] = {s \in Refs : root[s] # None} /\ root' = root
      BY <1>1, <2>1 DEF BeginDrop, db
    <3> QED
      BY <1>4, <3>1
  <2>2. CASE UnTree(h) \/ UnGrant(h)
    <3>1. UNCHANGED <<root, job, left>> /\ at[h] \in Removing
      BY <2>2 DEF UnTree, UnGrant, Removing
    <3> QED
      BY <1>1, <1>2, <1>4, <3>1, RacedKept DEF Unlisted, Removing
  <2>3. CASE UnRow(h)
    <3>1. /\ root' = [root EXCEPT ![walk[h].ref] = None] /\ UNCHANGED job
          /\ left' = [left EXCEPT ![h] = left[h] \ {walk[h].ref}] /\ at[h] \in Removing
      BY <2>3 DEF UnRow, Removing
    <3>2. r # walk[h].ref /\ root[r] # None
      BY <1>1, <3>1
    <3>3. r \in left[h] \/ Raced(r, h)
      BY <1>1, <1>4, <3>1, <3>2 DEF Unlisted
    <3> QED
      BY <1>1, <1>2, <1>4, <3>1, <3>2, <3>3, RacedKept DEF Removing
  <2>4. ASSUME NEW s \in Refs, BeginDelete(h, s)
        PROVE  FALSE
    <3>1. Arrive(h, "delete", s, None, {})
      BY <2>4 DEF BeginDelete
    <3>2. job'[h].kind = "delete"
      BY <1>1, <3>1, ArriveAsks
    <3> QED
      BY <1>4, <3>2
  <2>5. ~ (job[h].kind = "add" /\ UNCHANGED job)
    BY <1>4
  <2> QED
    BY <1>1, <1>4, <2>1, <2>2, <2>3, <2>4, <2>5 DEF Enters
<1> QED
  BY <1>3, <1>4

LEMMA OutlivingStep ==
  ASSUME ScopeInv, DropInv, NEW h \in Handlers, Begin(h) \/ Statement(h)
  PROVE  Outliving'
<1>1. TypeOK /\ Fits(h) /\ Kinds /\ Unlisted /\ Overlap /\ Outliving /\ Enters(h)
      /\ workspace \in BOOLEAN
  BY EntersStep DEF ScopeInv, DropInv, TypeOK
<1>2. Persists
  BY <1>1, PersistStep
<1> SUFFICES ASSUME ~workspace'
             PROVE  /\ \A r \in Refs : root'[r] # None =>
                         \E k \in Handlers : job'[k].kind = "drop" /\ Raced(r, k)'
                    /\ \A j \in Handlers : at'[j] = "insert" =>
                         \E k \in Handlers : job'[k].kind = "drop" /\ j \in met'[k]
  BY DEF Outliving
<1>3. ASSUME NEW k \in Handlers, job[k].kind = "drop", NEW r, Raced(r, k)
      PROVE  job'[k].kind = "drop" /\ Raced(r, k)'
  BY <1>1, <1>2, <1>3, RacedKept DEF Kinds, Persists
<1>4. ASSUME NEW k \in Handlers, job[k].kind = "drop", NEW j \in met[k]
      PROVE  job'[k].kind = "drop" /\ j \in met'[k]
  BY <1>1, <1>2, <1>4 DEF Kinds, Persists
<1>5. \A j \in Handlers \ {h} : at'[j] = at[j]
  BY <1>1, OthersKeep DEF SameLocals
<1>6. CASE UnConnect(h)
  <2>1. at[h] = "unConnect" /\ UNCHANGED root
    BY <1>6 DEF UnConnect
  <2>2. job[h].kind = "drop" /\ left[h] = {} /\ h \in Running
    BY <1>1, <2>1 DEF Kinds, Running, Ended
  <2>3. \A r \in Refs : root[r] # None => Raced(r, h)
    BY <1>1, <2>1, <2>2 DEF Unlisted, Removing
  <2>4. at'[h] # "insert"
    <3>1. Goto(h, "ok") /\ at \in [Handlers -> Phases]
      BY <1>1, <1>6 DEF UnConnect, TypeOK
    <3> QED
      BY <3>1, GotoFrame DEF Phases, Ended
  <2>5. ASSUME NEW j \in Handlers, at'[j] = "insert"
        PROVE  j \in met[h]
    <3>1. j # h /\ j \in Running
      BY <1>5, <2>4, <2>5 DEF Running, Ended
    <3> QED
      BY <1>1, <2>2, <3>1 DEF Overlap
  <2> QED
    BY <1>3, <1>4, <2>1, <2>2, <2>3, <2>5
<1>7. CASE UNCHANGED workspace
  <2>1. ~workspace
    BY <1>7
  <2>2. ASSUME NEW r \in Refs, root'[r] # None
        PROVE  \E k \in Handlers : job'[k].kind = "drop" /\ Raced(r, k)'
    <3>1. CASE root[r] # None
      BY <1>1, <1>3, <2>1, <3>1 DEF Outliving
    <3>2. CASE root[r] = None
      <4>1. at[h] = "insert" /\ job[h].ref = r
        BY <2>2, <3>2, RowAppears
      <4>2. job[h].kind = "add"
        BY <1>1, <4>1 DEF Kinds
      <4>3. PICK k \in Handlers : job[k].kind = "drop" /\ h \in met[k]
        BY <1>1, <2>1, <4>1 DEF Outliving
      <4>4. Raced(r, k)
        BY <4>1, <4>2, <4>3 DEF Raced
      <4> QED
        BY <1>3, <4>3, <4>4
    <3> QED
      BY <3>1, <3>2
  <2>3. ASSUME NEW j \in Handlers, at'[j] = "insert"
        PROVE  \E k \in Handlers : job'[k].kind = "drop" /\ j \in met'[k]
    <3>1. j # h
      BY <1>1, <2>1, <2>3 DEF Enters, BeginAdd
    <3> QED
      BY <1>1, <1>4, <1>5, <2>1, <2>3, <3>1 DEF Outliving
  <2> QED
    BY <2>2, <2>3
<1> QED
  BY <1>6, <1>7, FrameStep DEF Frame

LEMMA DropInvStep == ScopeInv /\ DropInv /\ [Next]_vars => DropInv'
<1> SUFFICES ASSUME ScopeInv, DropInv, [Next]_vars PROVE DropInv'
  OBVIOUS
<1>1. ASSUME NEW h \in Handlers, Begin(h) \/ Statement(h)
      PROVE  DropInv'
  BY <1>1, OverlapStep, KindsStep, UnlistedStep, OutlivingStep DEF DropInv
<1>2. ASSUME UNCHANGED <<root, at, job, left>>, workspace' = workspace \/ workspace' = TRUE,
             \A k \in Handlers : at[k] # "idle" => met[k] \subseteq met'[k]
      PROVE  DropInv'
  <2>1. Persists
    BY <1>2 DEF Persists
  <2>2. Overlap'
    BY <1>2 DEF DropInv, Overlap, Running
  <2>3. Kinds'
    BY <1>2 DEF DropInv, Kinds
  <2>4. \A k \in Handlers : job[k].kind = "drop" => at[k] # "idle"
    BY DEF DropInv, Kinds
  <2>5. Unlisted'
    BY <1>2, <2>1, <2>4, RacedKept DEF DropInv, Unlisted
  <2>6. Outliving'
    BY <1>2, <2>1, <2>4, RacedKept DEF DropInv, Outliving
  <2> QED
    BY <2>2, <2>3, <2>5, <2>6 DEF DropInv
<1>3. ASSUME NEW f \in Folders, NEW p \in Places, Move(f, p)
      PROVE  DropInv'
  <2>1. UNCHANGED <<workspace, root, at, job, left>>
        /\ met' = [k \in Handlers |-> IF at[k] = "idle" THEN {} ELSE met[k] \union {"google"}]
    BY <1>3 DEF Move, db
  <2>2. \A k \in Handlers : at[k] # "idle" => met[k] \subseteq met'[k]
    BY <2>1
  <2> QED
    BY <1>2, <2>1, <2>2
<1>4. CASE Connect \/ UNCHANGED vars
  BY <1>2, <1>4 DEF Connect, google, vars
<1>5. CASE Stop
  <2>1. /\ UNCHANGED <<workspace, root, job, left, met>>
        /\ at' = [h \in Handlers |-> IF h \in Running THEN "stopped" ELSE at[h]]
    BY <1>5 DEF Stop, google, db
  <2>2. \A k \in Handlers : /\ k \notin Running'
                            /\ at'[k] = "idle" => at[k] = "idle"
                            /\ at'[k] \notin Removing \union {"insert"}
    BY <2>1 DEF Running, Removing, Ended
  <2>3. Overlap' /\ Unlisted'
    BY <2>2 DEF Overlap, Unlisted, Running
  <2>4. Kinds'
    BY <2>1, <2>2 DEF DropInv, Kinds, Removing
  <2>5. Outliving'
    BY <2>1, <2>2 DEF DropInv, Outliving, Raced
  <2> QED
    BY <2>3, <2>4, <2>5 DEF DropInv
<1> QED
  BY <1>1, <1>3, <1>4, <1>5 DEF Next

LEMMA DropInvInit == Init => DropInv
<1> SUFFICES ASSUME Init PROVE DropInv
  OBVIOUS
<1>1. workspace = TRUE /\ \A h \in Handlers : at[h] = "idle" /\ job[h].kind = "none"
  BY DEF Init, NoJob
<1> QED
  BY <1>1 DEF DropInv, Overlap, Kinds, Unlisted, Outliving, Running, Removing
-----------------------------------------------------------------------------
(* What a request that nothing else overlaps finds.  Its copy of the         *)
(* references, and what is in its near folder, whatever overlaps it:         *)
Targeting == Agent \ {"open"}

Asked(h) ==
  /\ at[h] = "idle" => near[h] = None
  /\ job[h].kind \in Targeting /\ (at[h] \in {"resolve", "ensure"} \/ job[h].want = None) =>
       near[h] = None
  /\ job[h].kind \in Targeting /\ job[h].want # None => job[h].ref # None
  /\ \A r \in Refs : list[h][r] # None /\ job[h].ref # None => r = job[h].ref
  /\ job[h].kind \in Agent /\ at[h] \in {"walk", "fill", "read"} =>
       list[h][walk[h].ref] = walk[h].root

(* The rows of a reference are the folders that are now below its folder.    *)
Whole(r, f) == FoldersOf(tree[r]) = InsideNow(f)

(* A walk found folders below its root only, and all that are in a folder it *)
(* listed; once it is through, what it found and did not insert yet is what  *)
(* the rows lack.                                                            *)
Walking(h) ==
  /\ walk[h].root \in FoldersOf(walk[h].found)
  /\ walk[h].todo \subseteq FoldersOf(walk[h].found)
  /\ FoldersOf(walk[h].found) \subseteq InsideNow(walk[h].root)
  /\ \A c \in Folders : parent[c] \in FoldersOf(walk[h].found) \ walk[h].todo =>
       c \in FoldersOf(walk[h].found)

Filling(h) ==
  FoldersOf(walk[h].found) \union FoldersOf(tree[walk[h].ref]) = InsideNow(walk[h].root)

(* The references of the copy that were walked for the request by now.       *)
Walked(h, r) ==
  /\ list[h][r] # None
  /\ \/ at[h] = "rematch"
     \/ at[h] = "next" /\ r \notin left[h]
     \/ at[h] \in {"walk", "fill"} /\ r \notin left[h] /\ r # walk[h].ref

Undisturbed(h) ==
  /\ at[h] = "walk" => Walking(h)
  /\ at[h] = "fill" => Filling(h)
  /\ at[h] = "read" /\ near[h] # None => Whole(walk[h].ref, walk[h].root)
  /\ job[h].kind = "open" =>
       /\ at[h] \in {"match", "next", "walk", "fill", "rematch"} => near[h] = Reported(job[h].want)
       /\ \A r \in Refs : Walked(h, r) => Whole(r, list[h][r])
       /\ \A r \in Refs : at[h] = "rematch" /\ list[h][r] # None /\ r \notin left[h] =>
            ~Matches(h, r)
  /\ at[h] = "outside" =>
       \A r \in Refs : list[h][r] # None => job[h].want \notin InsideNow(list[h][r])

QuietInv == \A h \in Handlers : Asked(h) /\ (Quiet(h) => Undisturbed(h))
-----------------------------------------------------------------------------
(* What is inside a folder now: the folder, what is in a folder inside, and  *)
(* nothing else.                                                             *)
LEMMA InsideSelf ==
  ASSUME NEW f \in Folders
  PROVE  f \in InsideNow(f)
BY BelowSeed DEF InsideNow

LEMMA InsideLink ==
  ASSUME NEW f, NEW c \in Folders, parent[c] \in InsideNow(f)
  PROVE  c \in InsideNow(f)
<1>1. <<c, parent[c]>> \in LinksNow
  BY DEF LinksNow
<1> QED
  BY <1>1, BelowLink DEF InsideNow

LEMMA InsideLeast ==
  ASSUME NEW U \in SUBSET Folders, NEW f \in U,
         \A c \in Folders : parent[c] \in U => c \in U
  PROVE  InsideNow(f) \subseteq U
<1>1. \A l \in LinksNow : l[2] \in U => l[1] \in U
  BY DEF LinksNow
<1> QED
  BY <1>1 DEF InsideNow, Below

LEMMA InsideFolders == \A f : InsideNow(f) \subseteq Folders
BY DEF InsideNow, Below

LEMMA InsideBy ==
  ASSUME NEW f \in Folders, NEW c \in InsideNow(f), c # f
  PROVE  parent[c] \in InsideNow(f)
<1> SUFFICES ASSUME parent[c] \notin InsideNow(f) PROVE FALSE
  OBVIOUS
<1> DEFINE U == InsideNow(f) \ {c}
<1>1. U \in SUBSET Folders /\ f \in U
  BY InsideFolders, InsideSelf
<1>2. \A d \in Folders : parent[d] \in U => d \in U
  BY InsideLink
<1> HIDE DEF U
<1>3. InsideNow(f) \subseteq U
  BY <1>1, <1>2, InsideLeast
<1> QED
  BY <1>3 DEF U

LEMMA InsideSame ==
  ASSUME UNCHANGED parent
  PROVE  \A f : InsideNow(f)' = InsideNow(f)
BY DEF InsideNow, LinksNow, Below

LEMMA FoldersOfRows ==
  ASSUME NEW rows, NEW new
  PROVE  /\ FoldersOf(rows \union new) = FoldersOf(rows) \union FoldersOf(new)
         /\ FoldersOf({}) = {}
BY DEF FoldersOf

(* The steps of a walk.                                                      *)
LEMMA WalkBegins ==
  ASSUME NEW h \in Handlers, UNCHANGED parent, NEW r, NEW f \in Folders,
         walk'[h] = [ref |-> r, root |-> f, todo |-> {f}, found |-> {<<f, None>>}]
  PROVE  Walking(h)'
<1>1. FoldersOf(walk'[h].found) = {f}
  BY DEF FoldersOf
<1>2. walk'[h].root = f /\ walk'[h].todo = {f}
  OBVIOUS
<1>3. f \in InsideNow(f)'
  BY InsideSelf, InsideSame
<1> QED
  BY <1>1, <1>2, <1>3 DEF Walking

LEMMA WalkLists ==
  ASSUME TypeOK, NEW h \in Handlers, ListFolder(h), Walking(h), UNCHANGED parent
  PROVE  Walking(h)'
<1>1. PICK p \in walk[h].todo, children \in SUBSET Folders :
        /\ \A c \in children : parent[c] = p
        /\ \A c \in Folders : parent[c] = p => c \in children \union FoldersOf(walk[h].found)
        /\ walk'[h].todo = (walk[h].todo \ {p}) \union children
        /\ walk'[h].found = walk[h].found \union (children \X {p})
  BY ListFolderPuts
<1>2. PICK f : f = walk[h].root /\ f = walk'[h].root
  BY ListFolderPuts
<1>3. InsideNow(f)' = InsideNow(f)
  BY InsideSame
<1>4. FoldersOf(children \X {p}) = children
  <2>1. \A c \in children : <<c, p>> \in children \X {p} /\ <<c, p>>[1] = c
    OBVIOUS
  <2>2. \A e \in children \X {p} : e[1] \in children
    OBVIOUS
  <2> QED
    BY <2>1, <2>2 DEF FoldersOf
<1>5. FoldersOf(walk'[h].found) = FoldersOf(walk[h].found) \union children
  BY <1>1, <1>4, FoldersOfRows
<1>6. p \in InsideNow(walk[h].root)
  BY DEF Walking
<1>7. children \subseteq InsideNow(walk[h].root)
  BY <1>1, <1>6, InsideLink
<1>8. FoldersOf(walk'[h].found) \subseteq InsideNow(f)'
  BY <1>3, <1>2, <1>5, <1>7 DEF Walking
<1>9. \A c \in Folders : parent'[c] \in FoldersOf(walk'[h].found) \ walk'[h].todo =>
        c \in FoldersOf(walk'[h].found)
  BY <1>1, <1>5 DEF Walking
<1>10. /\ walk'[h].root \in FoldersOf(walk'[h].found)
      /\ walk'[h].todo \subseteq FoldersOf(walk'[h].found)
  BY <1>1, <1>2, <1>5 DEF Walking
<1> QED
  BY <1>2, <1>8, <1>9, <1>10 DEF Walking

(* A walk that listed all it found, found all that is below its root.        *)
LEMMA WalkEnds ==
  ASSUME TypeOK, NEW h \in Handlers, Walking(h), walk[h].todo = {}
  PROVE  FoldersOf(walk[h].found) = InsideNow(walk[h].root)
<1> DEFINE F == FoldersOf(walk[h].found)
<1>1. F \in SUBSET Folders
  BY InsideFolders DEF Walking
<1>2. walk[h].root \in F /\ \A c \in Folders : parent[c] \in F => c \in F
  BY DEF Walking
<1> HIDE DEF F
<1>3. InsideNow(walk[h].root) \subseteq F
  BY <1>1, <1>2, InsideLeast
<1> QED
  BY <1>3 DEF F, Walking

LEMMA ClearFills ==
  ASSUME TypeOK, NEW h \in Handlers, ClearTree(h), Walking(h), UNCHANGED parent,
         walk[h].ref \in Refs
  PROVE  Filling(h)'
<1>1. tree' = [tree EXCEPT ![walk[h].ref] = {}] /\ walk' = walk /\ walk[h].todo = {}
  BY DEF ClearTree
<1>2. tree'[walk[h].ref] = {}
  BY <1>1 DEF TypeOK
<1>3. FoldersOf(walk[h].found) = InsideNow(walk[h].root)
  BY <1>1, WalkEnds
<1>4. InsideNow(walk[h].root)' = InsideNow(walk[h].root)
  BY <1>1, InsideSame
<1> QED
  BY <1>1, <1>2, <1>3, <1>4, FoldersOfRows DEF Filling

(* An INSERT puts a row that was found into the table, or the walk fails.    *)
LEMMA FillRowFills ==
  ASSUME TypeOK, NEW h \in Handlers, FillRow(h), walk[h].ref \in Refs
  PROVE  \/ WalkFails(h)
         \/ /\ UNCHANGED <<at, left>>
            /\ \E e \in walk[h].found :
                 /\ walk'[h].found = walk[h].found \ {e}
                 /\ tree' = [tree EXCEPT ![walk[h].ref] = tree[walk[h].ref] \union {e}]
<1>1. walk \in [Handlers -> Walks] /\ tree \in [Refs -> SUBSET Rows]
  BY DEF TypeOK
<1>2. CASE ~WalkFails(h)
  <2>1. PICK e \in walk[h].found :
          /\ tree' = [tree EXCEPT ![walk[h].ref] = @ \union {e}]
          /\ walk' = [walk EXCEPT ![h].found = @ \ {e}]
          /\ UNCHANGED <<at, left>>
    BY <1>2 DEF FillRow
  <2>2. walk'[h] = [walk[h] EXCEPT !.found = walk[h].found \ {e}]
    BY <1>1, <2>1
  <2>3. walk'[h].found = walk[h].found \ {e}
    BY <1>1, <2>2, WalkFound
  <2> QED
    BY <1>1, <2>1, <2>3
<1> QED
  BY <1>2

LEMMA FillFills ==
  ASSUME TypeOK, NEW h \in Handlers, FillRow(h), Filling(h), UNCHANGED parent,
         walk[h].ref \in Refs, ~WalkFails(h)
  PROVE  Filling(h)'
<1>1. PICK e \in walk[h].found :
        /\ walk'[h].found = walk[h].found \ {e}
        /\ tree' = [tree EXCEPT ![walk[h].ref] = tree[walk[h].ref] \union {e}]
  BY FillRowFills
<1>2. walk'[h].ref = walk[h].ref /\ \E f : f = walk[h].root /\ f = walk'[h].root
  BY FillRowPuts
<1>3. tree'[walk[h].ref] = tree[walk[h].ref] \union {e}
  BY <1>1 DEF TypeOK
<1>4. FoldersOf(walk[h].found) = FoldersOf(walk[h].found \ {e}) \union FoldersOf({e})
  <2>1. walk[h].found = (walk[h].found \ {e}) \union {e}
    OBVIOUS
  <2> QED
    BY <2>1, FoldersOfRows
<1>5. FoldersOf(tree'[walk[h].ref]) = FoldersOf(tree[walk[h].ref]) \union FoldersOf({e})
  BY <1>3, FoldersOfRows
<1>6. PICK f : f = walk[h].root /\ f = walk'[h].root
  BY <1>2
<1>7. InsideNow(f)' = InsideNow(f)
  BY InsideSame
<1> QED
  BY <1>1, <1>2, <1>4, <1>5, <1>6, <1>7 DEF Filling
-----------------------------------------------------------------------------
(* Where a request stands when the invariant says nothing of its walks.      *)
Calm == Phases \ {"idle", "walk", "fill", "match", "next", "rematch", "read", "outside",
                  "resolve", "ensure"}

(* What every statement of a request finds.                                  *)
Steady(h) ==
  /\ TypeOK /\ TypeOK' /\ Fits(h)
  /\ Asked(h) /\ (Quiet(h) => Undisturbed(h))
  /\ UNCHANGED <<parent, job, met>>

KeptQuiet(h) == Asked(h)' /\ (Quiet(h) => Undisturbed(h)')

LEMMA CalmKept ==
  ASSUME NEW h \in Handlers, Steady(h), at'[h] \in Calm,
         near'[h] = near[h], list'[h] = list[h]
  PROVE  KeptQuiet(h)
<1>1. Asked(h)'
  BY DEF Steady, Asked, Calm
<1>2. Undisturbed(h)'
  BY DEF Undisturbed, Walked, Calm
<1> QED
  BY <1>1, <1>2 DEF KeptQuiet

LEMMA SteadyTypes ==
  ASSUME NEW h \in Handlers, Steady(h)
  PROVE  /\ at \in [Handlers -> Phases] /\ at' \in [Handlers -> Phases]
         /\ walk \in [Handlers -> Walks] /\ walk' \in [Handlers -> Walks]
         /\ tree \in [Refs -> SUBSET Rows] /\ list \in [Handlers -> [Refs -> Places]]
         /\ left \in [Handlers -> SUBSET Refs] /\ near \in [Handlers -> Places \union {MyDrive}]
         /\ job \in [Handlers -> Jobs] /\ root \in [Refs -> Places]
BY DEF Steady, TypeOK

LEMMA ResumesCalm ==
  ASSUME NEW h \in Handlers, Steady(h), WalkFails(h), UNCHANGED <<near, list>>
  PROVE  KeptQuiet(h)
<1>1. Goto(h, "unTree") \/ Goto(h, "refused")
  BY DEF WalkFails
<1>2. at'[h] \in Calm
  BY <1>1, SteadyTypes, GotoFrame DEF Phases, Ended, Calm
<1> QED
  BY <1>2, CalmKept

(* The statements of a walk.                                                 *)
LEMMA KeptOnWalk ==
  ASSUME NEW h \in Handlers, Steady(h), UNCHANGED <<near, list, left>>,
         at[h] \in {"walk", "fill"}, at'[h] \in {"walk", "fill"},
         walk'[h].ref = walk[h].ref, walk'[h].root = walk[h].root,
         \A r \in Refs \ {walk[h].ref} : tree'[r] = tree[r],
         Quiet(h) => (at'[h] = "walk" => Walking(h)') /\ (at'[h] = "fill" => Filling(h)')
  PROVE  KeptQuiet(h)
<1>1. Asked(h)'
  BY DEF Steady, Asked
<1>2. ASSUME Quiet(h) PROVE Undisturbed(h)'
  <2>1. job[h].kind = "open" => (near[h] = Reported(job[h].want))'
    BY <1>2 DEF Steady, Undisturbed, Reported
  <2>2. ASSUME job[h].kind = "open", NEW r \in Refs, Walked(h, r)'
        PROVE  Whole(r, list[h][r])'
    <3>1. Walked(h, r) /\ r # walk[h].ref
      BY <2>2 DEF Walked
    <3>2. Whole(r, list[h][r])
      BY <1>2, <2>2, <3>1 DEF Steady, Undisturbed
    <3>3. PICK f : f = list[h][r] /\ f = list'[h][r]
      OBVIOUS
    <3>4. InsideNow(f)' = InsideNow(f)
      BY InsideSame DEF Steady
    <3> QED
      BY <3>1, <3>2, <3>3, <3>4 DEF Whole
  <2> QED
    BY <1>2, <2>1, <2>2 DEF Undisturbed, Steady
<1> QED
  BY <1>1, <1>2 DEF KeptQuiet

LEMMA FilledKept ==
  ASSUME NEW h \in Handlers, Steady(h), Filled(h)
  PROVE  KeptQuiet(h)
<1>1. /\ at[h] = "fill" /\ walk[h].found = {} /\ Goto(h, AfterWalk(h))
      /\ UNCHANGED <<near, list, left, walk, tree>>
  BY DEF Filled, db
<1>2. AfterWalk(h) \in {"ok", "next", "read"} /\ at'[h] = AfterWalk(h)
  <2>1. AfterWalk(h) \in {"ok", "next", "read"}
    BY DEF AfterWalk
  <2>2. AfterWalk(h) \in Phases
    BY <2>1 DEF Phases, Ended
  <2> QED
    BY <1>1, <2>1, <2>2, SteadyTypes, GotoFrame
<1>3. ASSUME Quiet(h) PROVE Whole(walk[h].ref, walk[h].root)
  BY <1>1, <1>3, FoldersOfRows DEF Steady, Undisturbed, Filling, Whole
<1>4. CASE AfterWalk(h) = "ok"
  BY <1>1, <1>2, <1>4, CalmKept DEF Calm, Phases, Ended
<1>5. CASE AfterWalk(h) = "next"
  <2>1. job[h].kind \in {"open", "renew"}
    BY <1>5 DEF AfterWalk
  <2>2. Asked(h)'
    BY <1>1, <1>2, <1>5 DEF Steady, Asked
  <2>3. ASSUME Quiet(h), job[h].kind = "open", NEW r \in Refs, Walked(h, r)'
        PROVE  Whole(r, list[h][r])'
    <3>1. list[h][r] # None /\ r \notin left[h]
      BY <1>1, <1>2, <1>5, <2>3 DEF Walked
    <3>2. Whole(r, list[h][r])
      <4>1. CASE r = walk[h].ref
        <5>1. list[h][r] = walk[h].root
          BY <1>1, <2>3, <4>1 DEF Steady, Asked, Agent
        <5> QED
          BY <1>3, <2>3, <4>1, <5>1
      <4>2. CASE r # walk[h].ref
        BY <1>1, <2>3, <3>1, <4>2 DEF Steady, Undisturbed, Walked
      <4> QED
        BY <4>1, <4>2
    <3>3. PICK f : f = list[h][r] /\ f = list'[h][r]
      BY <1>1
    <3>4. InsideNow(f)' = InsideNow(f)
      BY InsideSame DEF Steady
    <3> QED
      BY <1>1, <3>2, <3>3, <3>4 DEF Whole
  <2>4. ASSUME Quiet(h) PROVE Undisturbed(h)'
    BY <1>1, <1>2, <1>5, <2>3, <2>4 DEF Steady, Undisturbed, Reported
  <2> QED
    BY <2>2, <2>4 DEF KeptQuiet
<1>6. CASE AfterWalk(h) = "read"
  <2>1. job[h].kind # "open"
    BY <1>6 DEF AfterWalk
  <2>2. Asked(h)'
    BY <1>1, <1>2, <1>6 DEF Steady, Asked
  <2>3. ASSUME Quiet(h) PROVE Whole(walk[h].ref, walk[h].root)'
    <3>1. PICK f : f = walk[h].root /\ f = walk'[h].root
      BY <1>1
    <3>2. InsideNow(f)' = InsideNow(f)
      BY InsideSame DEF Steady
    <3> QED
      BY <1>1, <1>3, <2>3, <3>1, <3>2 DEF Whole
  <2>4. ASSUME Quiet(h) PROVE Undisturbed(h)'
    BY <1>2, <1>6, <2>1, <2>3, <2>4 DEF Steady, Undisturbed
  <2> QED
    BY <2>2, <2>4 DEF KeptQuiet
<1> QED
  BY <1>2, <1>4, <1>5, <1>6

LEMMA WalkKept ==
  ASSUME NEW h \in Handlers, Steady(h),
         ListFolder(h) \/ ListFails(h) \/ ClearTree(h) \/ FillRow(h) \/ Filled(h)
  PROVE  KeptQuiet(h)
<1>1. UNCHANGED parent /\ TypeOK
  BY DEF Steady
<1>2. CASE ListFolder(h)
  <2>1. at[h] = "walk" /\ UNCHANGED <<at, near, list, left, tree>>
    BY <1>2 DEF ListFolder, db
  <2>2. Quiet(h) => Walking(h)'
    BY <1>1, <1>2, <2>1, WalkLists DEF Steady, Undisturbed
  <2> QED
    BY <1>1, <1>2, <2>1, <2>2, ListFolderPuts, KeptOnWalk
<1>3. CASE ListFails(h)
  <2>1. WalkFails(h) /\ UNCHANGED <<near, list>>
    BY <1>3 DEF ListFails
  <2> QED
    BY <2>1, ResumesCalm
<1>4. CASE ClearTree(h)
  <2>1. /\ at[h] = "walk" /\ Goto(h, "fill") /\ UNCHANGED <<near, list, left, walk>>
        /\ tree' = [tree EXCEPT ![walk[h].ref] = {}]
    BY <1>4 DEF ClearTree
  <2>2. at'[h] = "fill"
    BY <2>1, SteadyTypes, GotoFrame DEF Phases
  <2>3. walk[h].ref \in Refs
    BY <2>1 DEF Steady, Fits
  <2>4. Quiet(h) => Filling(h)'
    BY <1>1, <1>4, <2>1, <2>3, ClearFills DEF Steady, Undisturbed
  <2>5. \A r \in Refs \ {walk[h].ref} : tree'[r] = tree[r]
    BY <2>1, SteadyTypes
  <2> QED
    BY <2>1, <2>2, <2>4, <2>5, KeptOnWalk
<1>5. CASE FillRow(h)
  <2>1. at[h] = "fill" /\ UNCHANGED <<near, list>>
    BY <1>5 DEF FillRow
  <2>2. CASE WalkFails(h)
    BY <2>1, <2>2, ResumesCalm
  <2>3. CASE ~WalkFails(h)
    <3>1. walk[h].ref \in Refs
      BY <2>1 DEF Steady, Fits
    <3>2. /\ UNCHANGED <<at, left>>
          /\ \E e \in walk[h].found :
               tree' = [tree EXCEPT ![walk[h].ref] = tree[walk[h].ref] \union {e}]
      BY <1>1, <1>5, <2>3, <3>1, FillRowFills
    <3>3. \A r \in Refs \ {walk[h].ref} : tree'[r] = tree[r]
      BY <3>2, SteadyTypes
    <3>4. Quiet(h) => Filling(h)'
      BY <1>1, <1>5, <2>1, <2>3, <3>1, FillFills DEF Steady, Undisturbed
    <3>5. walk'[h].ref = walk[h].ref /\ walk'[h].root = walk[h].root
      BY <1>1, <1>5, FillRowPuts
    <3> QED
      BY <2>1, <3>2, <3>3, <3>4, <3>5, KeptOnWalk
  <2> QED
    BY <2>2, <2>3
<1>6. CASE Filled(h)
  BY <1>6, FilledKept
<1> QED
  BY <1>2, <1>3, <1>4, <1>5, <1>6

(* A statement that begins a walk of the copy, or of a folder of the console.*)
LEMMA BeginWalkKept ==
  ASSUME NEW h \in Handlers, Steady(h), NEW r \in Refs, NEW f \in Folders, StartWalk(h, r, f),
         at'[h] = "walk", UNCHANGED <<list, tree>>,
         job[h].kind \in Agent => list[h][r] = f,
         job[h].kind \in Targeting /\ job[h].want = None => near'[h] = None,
         Quiet(h) /\ job[h].kind = "open" =>
           /\ near'[h] = Reported(job[h].want)
           /\ \A s \in Refs : list[h][s] # None /\ s \notin left'[h] /\ s # r => Whole(s, list[h][s])
  PROVE  KeptQuiet(h)
<1>1. walk'[h] = [ref |-> r, root |-> f, todo |-> {f}, found |-> {<<f, None>>}]
  BY SteadyTypes, StartWalkPuts
<1>2. walk'[h].ref = r /\ walk'[h].root = f /\ Walking(h)'
  BY <1>1, WalkBegins DEF Steady
<1>3. Asked(h)'
  BY <1>2 DEF Steady, Asked
<1>4. ASSUME Quiet(h), job[h].kind = "open", NEW s \in Refs, Walked(h, s)'
      PROVE  Whole(s, list[h][s])'
  <2>1. list[h][s] # None /\ s \notin left'[h] /\ s # r
    BY <1>2, <1>4 DEF Walked
  <2>2. Whole(s, list[h][s])
    BY <1>4, <2>1
  <2>3. PICK g : g = list[h][s] /\ g = list'[h][s]
    OBVIOUS
  <2>4. InsideNow(g)' = InsideNow(g)
    BY InsideSame DEF Steady
  <2> QED
    BY <2>2, <2>3, <2>4 DEF Whole
<1>5. ASSUME Quiet(h) PROVE Undisturbed(h)'
  BY <1>2, <1>4, <1>5 DEF Steady, Undisturbed, Reported
<1> QED
  BY <1>3, <1>5 DEF KeptQuiet

(* The requests for a file by its id.                                        *)
LEMMA ResolveKept ==
  ASSUME NEW h \in Handlers, Steady(h), Resolve(h)
  PROVE  KeptQuiet(h)
<1> DEFINE rs == {s \in Refs : Lists(job[h].ref, s)}
           p == IF rs = {} THEN "refused" ELSE FirstPhase(job[h].kind)
<1>1. /\ at[h] = "resolve" /\ Goto(h, p) /\ UNCHANGED <<near, walk, tree>>
      /\ list' = [list EXCEPT ![h] = [s \in Refs |-> IF s \in rs THEN root[s] ELSE None]]
  BY DEF Resolve, db
<1>2. \A s \in Refs : list'[h][s] # None => s \in rs
  BY <1>1, SteadyTypes
<1>3. \A s \in rs : job[h].ref = None \/ job[h].ref = s
  BY DEF Lists
<1> HIDE DEF rs
<1>4. p \in {"refused", "meta", "next", "ensure", "forward"} /\ (p = "next" => job[h].kind = "renew")
  BY DEF FirstPhase
<1>5. at'[h] = p
  BY <1>1, <1>4, SteadyTypes, GotoFrame DEF Phases, Ended
<1> HIDE DEF p
<1>6. job[h].kind \in Targeting => near'[h] = None
  BY <1>1 DEF Steady, Asked
<1>7. Asked(h)'
  BY <1>1, <1>2, <1>3, <1>4, <1>5, <1>6 DEF Steady, Asked
<1>8. Undisturbed(h)'
  BY <1>4, <1>5 DEF Steady, Undisturbed, Walked
<1> QED
  BY <1>7, <1>8 DEF KeptQuiet

LEMMA MetaKept ==
  ASSUME NEW h \in Handlers, Steady(h), Meta(h)
  PROVE  KeptQuiet(h)
<1>1. at[h] = "meta" /\ UNCHANGED <<list, tree, left, walk>>
  BY DEF Meta, db
<1>2. job[h].kind = "open"
  BY <1>1 DEF Steady, Fits
<1>3. CASE near' = [near EXCEPT ![h] = Reported(job[h].want)] /\ Goto(h, "match")
  <2>1. near'[h] = Reported(job[h].want) /\ at'[h] = "match"
    BY <1>3, SteadyTypes, GotoFrame DEF Phases
  <2>2. Asked(h)'
    BY <1>1, <1>2, <2>1 DEF Steady, Asked, Targeting
  <2>3. Undisturbed(h)'
    BY <2>1 DEF Steady, Undisturbed, Walked, Reported
  <2> QED
    BY <2>2, <2>3 DEF KeptQuiet
<1>4. CASE Goto(h, "refused") /\ UNCHANGED near
  <2>1. at'[h] = "refused"
    BY <1>4, SteadyTypes, GotoFrame DEF Phases, Ended
  <2> QED
    BY <1>1, <1>4, <2>1, CalmKept DEF Calm, Phases, Ended
<1> QED
  BY <1>3, <1>4 DEF Meta

(* A walked reference stays walked while the rows stay.                      *)
LEMMA WholeKept ==
  ASSUME NEW h \in Handlers, Steady(h), UNCHANGED <<list, tree>>
  PROVE  \A r \in Refs : Whole(r, list[h][r])' <=> Whole(r, list[h][r])
<1> SUFFICES ASSUME NEW r \in Refs PROVE Whole(r, list[h][r])' <=> Whole(r, list[h][r])
  OBVIOUS
<1>1. PICK f : f = list[h][r] /\ f = list'[h][r]
  OBVIOUS
<1>2. InsideNow(f)' = InsideNow(f)
  BY InsideSame DEF Steady
<1> QED
  BY <1>1, <1>2 DEF Whole

LEMMA MatchKept ==
  ASSUME NEW h \in Handlers, Steady(h), Match(h)
  PROVE  KeptQuiet(h)
<1>1. at[h] \in {"match", "rematch"} /\ UNCHANGED <<list, tree, near, walk>>
  BY DEF Match, db
<1>2. job[h].kind = "open"
  BY <1>1 DEF Steady, Fits
<1>3. CASE Goto(h, "served")
  <2>1. at'[h] = "served"
    BY <1>3, SteadyTypes, GotoFrame DEF Phases, Ended
  <2> QED
    BY <1>1, <2>1, CalmKept DEF Calm, Phases, Ended
<1>4. CASE ~Goto(h, "served")
  <2>1. PICK r \in left[h] : /\ ~Matches(h, r)
                             /\ left' = [left EXCEPT ![h] = @ \ {r}]
                             /\ UNCHANGED at
    BY <1>4 DEF Match
  <2>2. left'[h] = left[h] \ {r}
    BY <2>1, SteadyTypes
  <2>3. Asked(h)'
    BY <1>1, <1>2, <2>1 DEF Steady, Asked, Targeting
  <2>4. \A s \in Refs : Matches(h, s)' <=> Matches(h, s)
    BY <1>1 DEF Matches, Steady
  <2>5. ASSUME Quiet(h) PROVE Undisturbed(h)'
    <3>1. \A s \in Refs : Walked(h, s)' => Whole(s, list[h][s])'
      <4>1. \A s \in Refs : Walked(h, s)' => Walked(h, s)
        BY <1>1, <2>1 DEF Walked
      <4> QED
        BY <1>1, <1>2, <2>5, <4>1, WholeKept DEF Steady, Undisturbed
    <3>2. \A s \in Refs : at[h] = "rematch" /\ list[h][s] # None /\ s \notin left'[h] =>
            ~Matches(h, s)'
      BY <1>2, <2>1, <2>2, <2>4, <2>5 DEF Steady, Undisturbed
    <3>3. (near[h] = Reported(job[h].want))'
      BY <1>1, <1>2, <2>5 DEF Steady, Undisturbed, Reported
    <3> QED
      BY <1>1, <2>1, <3>1, <3>2, <3>3 DEF Undisturbed
  <2> QED
    BY <2>3, <2>5 DEF KeptQuiet
<1> QED
  BY <1>3, <1>4

(* The file is in none of the references of the copy.                        *)
LEMMA Unmatched ==
  ASSUME NEW h \in Handlers, Steady(h), Quiet(h), at[h] = "rematch", left[h] = {}
  PROVE  \A r \in Refs : list[h][r] # None => job[h].want \notin InsideNow(list[h][r])
<1> SUFFICES ASSUME NEW r \in Refs, list[h][r] # None, job[h].want \in InsideNow(list[h][r])
             PROVE  FALSE
  OBVIOUS
<1>1. job[h].kind = "open" /\ list[h][r] \in Folders
  BY SteadyTypes DEF Steady, Fits, Places
<1>2. ~Matches(h, r) /\ Whole(r, list[h][r]) /\ near[h] = Reported(job[h].want)
  BY <1>1 DEF Steady, Undisturbed, Walked
<1>3. job[h].want # list[h][r] /\ near[h] \notin InsideNow(list[h][r])
  BY <1>2 DEF Matches, Whole
<1>4. parent[job[h].want] \in InsideNow(list[h][r])
  BY <1>1, <1>3, InsideBy
<1>5. near[h] = parent[job[h].want]
  BY <1>2, <1>4, FoldersAssumption DEF Reported, InsideNow, Below
<1> QED
  BY <1>3, <1>4, <1>5

LEMMA NoMatchKept ==
  ASSUME NEW h \in Handlers, Steady(h), NoMatch(h)
  PROVE  KeptQuiet(h)
<1>1. left[h] = {} /\ at[h] \in {"match", "rematch"} /\ UNCHANGED <<list, tree, near, walk>>
  BY DEF NoMatch, db
<1>2. job[h].kind = "open"
  BY <1>1 DEF Steady, Fits
<1>3. CASE /\ at[h] = "match" /\ Goto(h, "next")
           /\ left' = [left EXCEPT ![h] = {r \in Refs : list[h][r] # None}]
  <2>1. at'[h] = "next" /\ left'[h] = {r \in Refs : list[h][r] # None}
    BY <1>3, SteadyTypes, GotoFrame DEF Phases
  <2>2. Asked(h)'
    BY <1>1, <1>2, <2>1 DEF Steady, Asked, Targeting
  <2>3. \A s \in Refs : ~Walked(h, s)'
    BY <1>1, <2>1 DEF Walked
  <2>4. ASSUME Quiet(h) PROVE Undisturbed(h)'
    BY <1>1, <1>2, <1>3, <2>1, <2>3, <2>4 DEF Steady, Undisturbed, Reported
  <2> QED
    BY <2>2, <2>4 DEF KeptQuiet
<1>4. CASE at[h] = "rematch" /\ Goto(h, "outside") /\ UNCHANGED left
  <2>1. at'[h] = "outside"
    BY <1>4, SteadyTypes, GotoFrame DEF Phases, Ended
  <2>2. Asked(h)'
    BY <1>1, <1>2, <2>1 DEF Steady, Asked, Targeting
  <2>3. ASSUME Quiet(h) PROVE Undisturbed(h)'
    <3>1. ASSUME NEW r \in Refs, list'[h][r] # None
          PROVE  job'[h].want \notin InsideNow(list[h][r])'
      <4>1. PICK f : f = list[h][r] /\ f = list'[h][r]
        BY <1>1
      <4>2. InsideNow(f)' = InsideNow(f)
        BY InsideSame DEF Steady
      <4> QED
        BY <1>1, <1>4, <2>3, <3>1, <4>1, <4>2, Unmatched DEF Steady
    <3> QED
      BY <2>1, <3>1 DEF Undisturbed, Walked
  <2> QED
    BY <2>2, <2>3 DEF KeptQuiet
<1> QED
  BY <1>3, <1>4 DEF NoMatch

LEMMA WalkNextKept ==
  ASSUME NEW h \in Handlers, Steady(h), WalkNext(h)
  PROVE  KeptQuiet(h)
<1>1. /\ at[h] = "next" /\ Goto(h, "walk") /\ UNCHANGED <<list, tree, near>>
  BY DEF WalkNext, db
<1>2. PICK r \in left[h] : StartWalk(h, r, list[h][r]) /\ left' = [left EXCEPT ![h] = @ \ {r}]
  BY DEF WalkNext
<1>3. job[h].kind \in Agent /\ r \in Refs /\ list[h][r] \in Folders
  BY <1>1, SteadyTypes DEF Steady, Fits, Copied, Places
<1>4. at'[h] = "walk" /\ left'[h] = left[h] \ {r}
  BY <1>1, <1>2, SteadyTypes, GotoFrame DEF Phases
<1>5. ASSUME Quiet(h), job[h].kind = "open"
      PROVE  /\ near'[h] = Reported(job[h].want)
             /\ \A s \in Refs : list[h][s] # None /\ s \notin left'[h] /\ s # r =>
                  Whole(s, list[h][s])
  BY <1>1, <1>4, <1>5 DEF Steady, Undisturbed, Walked
<1>6. job[h].kind \in Targeting /\ job[h].want = None => near'[h] = None
  BY <1>1 DEF Steady, Asked
<1> QED
  BY <1>1, <1>2, <1>3, <1>4, <1>5, <1>6, BeginWalkKept

LEMMA AllWalkedKept ==
  ASSUME NEW h \in Handlers, Steady(h), AllWalked(h)
  PROVE  KeptQuiet(h)
<1>1. at[h] = "next" /\ left[h] = {} /\ UNCHANGED <<list, tree, near, walk>>
  BY DEF AllWalked, db
<1>2. CASE Goto(h, "ok")
  <2>1. at'[h] = "ok"
    BY <1>2, SteadyTypes, GotoFrame DEF Phases, Ended
  <2> QED
    BY <1>1, <2>1, CalmKept DEF Calm, Phases, Ended
<1>3. CASE /\ job[h].kind = "open" /\ Goto(h, "rematch")
           /\ left' = [left EXCEPT ![h] = {r \in Refs : list[h][r] # None}]
  <2>1. at'[h] = "rematch" /\ left'[h] = {r \in Refs : list[h][r] # None}
    BY <1>3, SteadyTypes, GotoFrame DEF Phases
  <2>2. Asked(h)'
    BY <1>1, <1>3, <2>1 DEF Steady, Asked, Targeting
  <2>3. ASSUME Quiet(h) PROVE Undisturbed(h)'
    <3>1. \A s \in Refs : Walked(h, s)' => Whole(s, list[h][s])'
      <4>1. \A s \in Refs : Walked(h, s)' => Walked(h, s)
        BY <1>1, <2>1 DEF Walked
      <4> QED
        BY <1>1, <1>3, <2>3, <4>1, WholeKept DEF Steady, Undisturbed
    <3>2. (near[h] = Reported(job[h].want))'
      BY <1>1, <1>3, <2>3 DEF Steady, Undisturbed, Reported
    <3> QED
      BY <1>1, <2>1, <3>1, <3>2 DEF Undisturbed
  <2> QED
    BY <2>2, <2>3 DEF KeptQuiet
<1> QED
  BY <1>2, <1>3 DEF AllWalked

(* The requests that name a reference.                                       *)
LEMMA EnsureKept ==
  ASSUME NEW h \in Handlers, Steady(h), Ensure(h)
  PROVE  KeptQuiet(h)
<1>1. PICK r \in left[h] : /\ StartWalk(h, r, list[h][r])
                           /\ Goto(h, IF tree[r] # {} THEN "read" ELSE "walk")
  BY DEF Ensure
<1>2. at[h] = "ensure" /\ UNCHANGED <<list, tree, near>>
  BY DEF Ensure, db
<1>3. job[h].kind \in Targeting /\ near[h] = None /\ r \in Refs /\ list[h][r] \in Folders
  BY <1>2, SteadyTypes DEF Steady, Fits, Copied, Asked, Targeting, Places
<1>4. CASE at'[h] = "walk"
  BY <1>1, <1>2, <1>3, <1>4, BeginWalkKept DEF Targeting
<1>5. CASE at'[h] = "read"
  <2>1. walk'[h].ref = r /\ walk'[h].root = list[h][r]
    <3>1. PICK f \in Folders : f = list[h][r]
      BY <1>3
    <3>2. walk \in [Handlers -> Walks] /\ StartWalk(h, r, f)
      BY <1>1, <3>1, SteadyTypes
    <3>3. walk'[h] = [ref |-> r, root |-> f, todo |-> {f}, found |-> {<<f, None>>}]
      BY <1>3, <3>2, StartWalkPuts
    <3> QED
      BY <3>1, <3>3
  <2>2. Asked(h)'
    BY <1>2, <1>3, <1>5, <2>1 DEF Steady, Asked
  <2>3. Undisturbed(h)'
    BY <1>2, <1>3, <1>5 DEF Steady, Undisturbed, Walked, Targeting
  <2> QED
    BY <2>2, <2>3 DEF KeptQuiet
<1>6. at'[h] \in {"walk", "read"}
  <2>1. Goto(h, "read") \/ Goto(h, "walk")
    BY <1>1
  <2> QED
    BY <2>1, SteadyTypes, GotoFrame DEF Phases
<1> QED
  BY <1>4, <1>5, <1>6

LEMMA ReadTreeKept ==
  ASSUME NEW h \in Handlers, Steady(h), ReadTree(h)
  PROVE  KeptQuiet(h)
<1>1. /\ job[h].kind \in {"search", "tree"} /\ job[h].want = None
      /\ UNCHANGED <<list, tree, near, walk>>
  BY DEF ReadTree, db
<1>2. at'[h] \in {"ensure", "refused", "served"}
  <2>1. Goto(h, "ensure") \/ Goto(h, "refused") \/ Goto(h, "served")
    BY DEF ReadTree
  <2> QED
    BY <2>1, SteadyTypes, GotoFrame DEF Phases, Ended
<1>3. Asked(h)'
  BY <1>1, <1>2 DEF Steady, Asked
<1>4. Undisturbed(h)'
  BY <1>1, <1>2 DEF Steady, Undisturbed, Walked
<1> QED
  BY <1>3, <1>4 DEF KeptQuiet

LEMMA TargetMissedKept ==
  ASSUME NEW h \in Handlers, Steady(h), TargetMissed(h)
  PROVE  KeptQuiet(h)
<1>1. at[h] = "read" /\ job[h].want # None /\ ~Knows(h) /\ UNCHANGED <<list, tree>>
  BY DEF TargetMissed, db
<1>2. /\ job[h].kind \in Targeting /\ walk[h].ref \in Refs /\ walk[h].root \in Folders
      /\ list[h][walk[h].ref] = walk[h].root
  BY <1>1 DEF Steady, Fits, Copied, Asked, Targeting
<1>3. CASE /\ near[h] = None /\ Goto(h, "walk")
           /\ StartWalk(h, walk[h].ref, walk[h].root)
  <2>1. at'[h] = "walk"
    BY <1>3, SteadyTypes, GotoFrame DEF Phases
  <2> QED
    BY <1>1, <1>2, <1>3, <2>1, BeginWalkKept DEF Targeting
<1>4. CASE near[h] # None /\ Goto(h, "outside") /\ UNCHANGED <<near, walk>>
  <2>1. at'[h] = "outside"
    BY <1>4, SteadyTypes, GotoFrame DEF Phases, Ended
  <2>2. Asked(h)'
    BY <1>1, <1>2, <1>4, <2>1 DEF Steady, Asked
  <2>3. ASSUME Quiet(h) PROVE Undisturbed(h)'
    <3>1. Whole(walk[h].ref, walk[h].root)
      BY <1>1, <1>4, <2>3 DEF Steady, Undisturbed
    <3>2. job[h].want \notin InsideNow(walk[h].root)
      BY <1>1, <3>1 DEF Knows, Whole
    <3>3. ASSUME NEW r \in Refs, list'[h][r] # None
          PROVE  job'[h].want \notin InsideNow(list[h][r])'
      <4>1. walk[h].root # None
        BY <1>2, FoldersAssumption
      <4>2. r = walk[h].ref
        BY <1>1, <1>2, <3>3, <4>1 DEF Steady, Asked
      <4>3. PICK f : f = walk[h].root /\ f = list[h][r] /\ f = list'[h][r]
        BY <1>1, <1>2, <4>2
      <4>4. InsideNow(f)' = InsideNow(f)
        BY InsideSame DEF Steady
      <4> QED
        BY <3>2, <4>3, <4>4 DEF Steady
    <3> QED
      BY <1>2, <2>1, <3>3 DEF Undisturbed, Steady, Targeting
  <2> QED
    BY <2>2, <2>3 DEF KeptQuiet
<1> QED
  BY <1>3, <1>4 DEF TargetMissed

(* The console registers or changes a reference.                             *)
LEMMA InsertKept ==
  ASSUME NEW h \in Handlers, Steady(h), Insert(h) \/ Write(h)
  PROVE  KeptQuiet(h)
<1>1. /\ at[h] \in {"insert", "write"} /\ UNCHANGED <<near, list, tree>>
      /\ \/ StartWalk(h, job[h].ref, job[h].want) /\ Goto(h, "walk")
         \/ Goto(h, "refused")
  BY DEF Insert, Write
<1>2. job[h].ref \in Refs /\ job[h].want \in Folders /\ job[h].kind \in {"add", "update"}
  BY <1>1 DEF Steady, Fits
<1>3. CASE Goto(h, "refused")
  <2>1. at'[h] = "refused"
    BY <1>3, SteadyTypes, GotoFrame DEF Phases, Ended
  <2> QED
    BY <1>1, <2>1, CalmKept DEF Calm, Phases, Ended
<1>4. CASE StartWalk(h, job[h].ref, job[h].want) /\ Goto(h, "walk")
  <2>1. at'[h] = "walk"
    BY <1>4, SteadyTypes, GotoFrame DEF Phases
  <2>2. job[h].kind \notin Agent
    BY <1>2 DEF Agent
  <2> QED
    BY <1>1, <1>2, <1>4, <2>1, <2>2, BeginWalkKept DEF Targeting
<1> QED
  BY <1>1, <1>3, <1>4

(* The statements after which nothing is claimed of the request.             *)
LEMMA DeletingKept ==
  ASSUME NEW h \in Handlers, Steady(h), UnTree(h) \/ UnGrant(h) \/ UnRow(h) \/ UnConnect(h)
  PROVE  KeptQuiet(h)
<1>1. UNCHANGED <<near, list>>
  BY DEF UnTree, UnGrant, UnRow, UnConnect
<1>2. \E p \in {"unGrant", "unRow", "refused", "ok", "unConnect", "unTree"} : Goto(h, p)
  BY DEF UnTree, UnGrant, UnRow, UnConnect
<1>3. at'[h] \in Calm
  BY <1>2, SteadyTypes, GotoFrame DEF Calm, Phases, Ended
<1> QED
  BY <1>1, <1>3, CalmKept

LEMMA GrantingKept ==
  ASSUME NEW h \in Handlers, Steady(h), ClearGrants(h) \/ GrantRow(h) \/ GrantsSaved(h)
  PROVE  KeptQuiet(h)
<1>1. UNCHANGED <<near, list>>
  BY DEF ClearGrants, GrantRow, GrantsSaved, db
<1>2. \/ at[h] = "grantRow" /\ UNCHANGED at
      \/ \E p \in {"grantRow", "refused", "ok"} : Goto(h, p)
  BY DEF ClearGrants, GrantRow, GrantsSaved
<1>3. at'[h] \in Calm
  BY <1>2, SteadyTypes, GotoFrame DEF Calm, Phases, Ended
<1> QED
  BY <1>1, <1>3, CalmKept

LEMMA ServingKept ==
  ASSUME NEW h \in Handlers, Steady(h),
         TargetFound(h) \/ ReadSubtree(h) \/ Forward(h) \/ MoveMade(h)
  PROVE  KeptQuiet(h)
<1>1. UNCHANGED <<near, list>>
  BY DEF TargetFound, ReadSubtree, Forward, MoveMade
<1>2. \E p \in {"subtree", "forward", "served", "move", "moveOld", "refused"} : Goto(h, p)
  BY DEF TargetFound, ReadSubtree, Forward, MoveMade
<1>3. at'[h] \in Calm
  BY <1>2, SteadyTypes, GotoFrame DEF Calm, Phases, Ended
<1> QED
  BY <1>1, <1>3, CalmKept

LEMMA StatementKept ==
  ASSUME NEW h \in Handlers, Steady(h), Statement(h)
  PROVE  KeptQuiet(h)
BY WalkKept, InsertKept, DeletingKept, GrantingKept, ResolveKept, MetaKept, MatchKept,
   NoMatchKept, WalkNextKept, AllWalkedKept, EnsureKept, ReadTreeKept, ServingKept,
   TargetMissedKept DEF Statement

(* A statement of one request is one that the others, if they run, overlap.  *)
LEMMA StatementSteady ==
  ASSUME ScopeInv, QuietInv, NEW h \in Handlers, Statement(h)
  PROVE  Steady(h)
<1>1. TypeOK /\ Fits(h) /\ TypeOK'
  BY TypeStep DEF ScopeInv
<1>2. ~ Begin(h)
  BY <1>1, BeginArrives, ArrivePuts, StatementRuns
<1>3. UNCHANGED <<parent, job, met>>
  BY <1>2, FrameStep DEF Frame, google
<1> QED
  BY <1>1, <1>3 DEF Steady, QuietInv

LEMMA OthersMeet ==
  ASSUME ScopeInv, DropInv, NEW h \in Handlers, Begin(h) \/ Statement(h),
         NEW k \in Running \ {h}
  PROVE  h \in met'[k]
<1>1. TypeOK /\ Kinds /\ Overlap /\ k \in Handlers
  BY DEF ScopeInv, DropInv, Running
<1>2. CASE Begin(h)
  <2>1. met'[k] = met[k] \union {h}
    BY <1>1, <1>2, ArriveMeets
  <2> QED
    BY <2>1
<1>3. CASE Statement(h)
  <2>1. h \in Running
    BY <1>3, StatementRuns DEF Running
  <2>2. met[k] \subseteq met'[k]
    BY <1>1, PersistStep DEF Persists, Running, Ended
  <2> QED
    BY <1>1, <2>1, <2>2 DEF Overlap
<1> QED
  BY <1>2, <1>3

LEMMA OthersQuiet ==
  ASSUME ScopeInv, DropInv, QuietInv, NEW h \in Handlers, Begin(h) \/ Statement(h),
         NEW k \in Handlers \ {h}
  PROVE  Asked(k)' /\ (Quiet(k)' => Undisturbed(k)')
<1>1. TypeOK /\ Fits(h) /\ Asked(k) /\ (Quiet(k) => Undisturbed(k))
  BY DEF ScopeInv, QuietInv
<1>2. SameLocals(k)
  BY <1>1, OthersKeep
<1>3. Asked(k)'
  BY <1>1, <1>2 DEF SameLocals, Asked
<1>4. CASE k \in Running
  BY <1>3, <1>4, OthersMeet DEF Quiet
<1>5. CASE k \notin Running
  <2>1. at[k] \in Ended \union {"idle"} /\ at'[k] = at[k]
    BY <1>2, <1>5 DEF Running, SameLocals
  <2>2. UNCHANGED parent /\ met'[k] = met[k]
    <3>1. CASE Begin(h)
      BY <1>1, <1>5, <3>1, ArriveMeets, FrameStep DEF Frame, google
    <3>2. CASE ~Begin(h)
      BY <3>2, FrameStep DEF Frame, google
    <3> QED
      BY <3>1, <3>2
  <2>3. ASSUME Quiet(k)', at[k] = "outside", NEW r \in Refs, list'[k][r] # None
        PROVE  job'[k].want \notin InsideNow(list[k][r])'
    <3>1. PICK f : f = list[k][r] /\ f = list'[k][r]
      BY <1>2 DEF SameLocals
    <3>2. InsideNow(f)' = InsideNow(f)
      BY <2>2, InsideSame
    <3>3. job'[k] = job[k] /\ Undisturbed(k)
      BY <1>1, <1>2, <2>2, <2>3 DEF SameLocals, Quiet
    <3> QED
      BY <2>3, <3>1, <3>2, <3>3 DEF Undisturbed
  <2>4. ASSUME Quiet(k)' PROVE Undisturbed(k)'
    BY <2>1, <2>3, <2>4 DEF Undisturbed, Walked, Ended
  <2> QED
    BY <1>3, <2>4
<1> QED
  BY <1>4, <1>5

(* A request that begins has read nothing yet.                               *)
LEMMA BeginQuiet ==
  ASSUME ScopeInv, QuietInv, NEW h \in Handlers, Begin(h)
  PROVE  Asked(h)' /\ Undisturbed(h)'
<1>1. /\ TypeOK /\ Fits(h) /\ Asked(h) /\ at \in [Handlers -> Phases]
      /\ walk \in [Handlers -> Walks] /\ root \in [Refs -> Places]
  BY DEF ScopeInv, QuietInv, TypeOK
<1>2. at[h] = "idle" /\ UNCHANGED <<parent, near, list>>
  <2>1. UNCHANGED <<parent, near, list>>
    BY DEF Begin, BeginRefresh, BeginDelete, BeginAdd, BeginUpdate, BeginDrop, BeginGrant,
           BeginRequest, google
  <2> QED
    BY <1>1, <2>1, BeginArrives, ArrivePuts
<1>3. near'[h] = None /\ \A r \in Refs : list'[h][r] = None
  BY <1>1, <1>2 DEF Asked, Fits
<1>4. ASSUME NEW kind \in Console \union Agent, NEW r \in Refs \union {None}, NEW f \in Places,
             NEW rs \in SUBSET Refs, Arrive(h, kind, r, f, rs),
             kind \in Targeting /\ f # None => r # None,
             \/ at'[h] \in {"unTree", "unConnect", "clear", "insert", "write", "resolve"}
             \/ at'[h] = "walk" /\ kind \notin Agent /\ Walking(h)'
      PROVE  Asked(h)' /\ Undisturbed(h)'
  <2>1. job'[h] = [kind |-> kind, ref |-> r, want |-> f, refs |-> rs]
    BY <1>1, <1>4, ArrivePuts
  <2>2. job'[h].kind = kind /\ job'[h].ref = r /\ job'[h].want = f
    BY <2>1
  <2>3. Asked(h)'
    BY <1>3, <1>4, <2>2 DEF Asked
  <2>4. Undisturbed(h)'
    <3>1. kind = "open" => at'[h] # "walk"
      BY <1>4 DEF Agent
    <3> QED
      BY <1>3, <1>4, <2>2, <3>1 DEF Undisturbed, Walked
  <2> QED
    BY <2>3, <2>4
<1>5. ASSUME NEW r \in Refs, BeginRefresh(h, r)
      PROVE  Asked(h)' /\ Undisturbed(h)'
  <2>1. /\ root[r] # None /\ Arrive(h, "refresh", r, None, {}) /\ StartWalk(h, r, root[r])
        /\ Goto(h, "walk")
    BY <1>5 DEF BeginRefresh
  <2>2. PICK f \in Folders : f = root[r]
    BY <1>1, <2>1 DEF Places
  <2>3. walk'[h] = [ref |-> r, root |-> f, todo |-> {f}, found |-> {<<f, None>>}]
    BY <1>1, <2>1, <2>2, StartWalkPuts
  <2>4. Walking(h)'
    BY <1>2, <2>3, WalkBegins
  <2>5. at'[h] = "walk"
    BY <1>1, <2>1, GotoFrame DEF Phases
  <2>6. "refresh" \in Console /\ "refresh" \notin Agent \union Targeting /\ None \in Places
    BY DEF Console, Agent, Targeting, Places
  <2> QED
    BY <1>4, <2>1, <2>4, <2>5, <2>6
<1>6. ASSUME NEW kind \in Agent, NEW r \in Refs \union {None}, NEW f \in Places,
             BeginRequest(h, kind, r, f)
      PROVE  Asked(h)' /\ Undisturbed(h)'
  <2>1. at'[h] = "resolve" /\ Arrive(h, kind, r, f, {})
    BY <1>1, <1>6, GotoFrame DEF BeginRequest, Phases
  <2>2. kind \in Targeting /\ f # None => r # None
    BY <1>6 DEF BeginRequest, Targeting, Agent
  <2> QED
    BY <1>4, <2>1, <2>2
<1> USE DEF Phases, Console, Places, Targeting, Agent
<1>7. ASSUME NEW r \in Refs, BeginDelete(h, r)
      PROVE  Asked(h)' /\ Undisturbed(h)'
  BY <1>1, <1>4, <1>7, GotoFrame DEF BeginDelete
<1>8. ASSUME NEW r \in Refs, NEW f \in Folders, BeginAdd(h, r, f)
      PROVE  Asked(h)' /\ Undisturbed(h)'
  BY <1>1, <1>4, <1>8, GotoFrame DEF BeginAdd
<1>9. ASSUME NEW r \in Refs, NEW f \in Folders, BeginUpdate(h, r, f)
      PROVE  Asked(h)' /\ Undisturbed(h)'
  BY <1>1, <1>4, <1>9, GotoFrame DEF BeginUpdate
<1>10. CASE BeginDrop(h)
  <2>1. at'[h] \in {"unTree", "unConnect"}
    BY <1>1, <1>10, GotoFrame DEF BeginDrop
  <2> QED
    BY <1>4, <1>10, <2>1 DEF BeginDrop
<1>11. ASSUME NEW rs \in SUBSET Refs, BeginGrant(h, rs)
       PROVE  Asked(h)' /\ Undisturbed(h)'
  BY <1>1, <1>4, <1>11, GotoFrame DEF BeginGrant
<1> QED
  BY <1>5, <1>6, <1>7, <1>8, <1>9, <1>10, <1>11 DEF Begin
-----------------------------------------------------------------------------
(* Of two requests, the one whose statement it is not either ended or is no  *)
(* longer quiet; a move at Google leaves no running request quiet.           *)
LEMMA QuietInvStep == ScopeInv /\ DropInv /\ QuietInv /\ [Next]_vars => QuietInv'
<1> SUFFICES ASSUME ScopeInv, DropInv, QuietInv, [Next]_vars PROVE QuietInv'
  OBVIOUS
<1>1. ASSUME NEW h \in Handlers, Begin(h) \/ Statement(h), NEW k \in Handlers
      PROVE  Asked(k)' /\ (Quiet(k)' => Undisturbed(k)')
  <2>1. CASE k # h
    BY <1>1, <2>1, OthersQuiet
  <2>2. CASE k = h /\ Begin(h)
    BY <2>2, BeginQuiet
  <2>3. CASE k = h /\ Statement(h)
    <3>1. Steady(h) /\ KeptQuiet(h)
      BY <2>3, StatementSteady, StatementKept
    <3> QED
      BY <2>3, <3>1 DEF Steady, KeptQuiet, Quiet
  <2> QED
    BY <1>1, <2>1, <2>2, <2>3
<1>2. ASSUME NEW f \in Folders, NEW p \in Places, Move(f, p), NEW k \in Handlers
      PROVE  Asked(k)' /\ (Quiet(k)' => Undisturbed(k)')
  <2>1. /\ UNCHANGED <<at, job, list, near, walk>>
        /\ met' = [j \in Handlers |-> IF at[j] = "idle" THEN {} ELSE met[j] \union {"google"}]
    BY <1>2 DEF Move
  <2>2. Asked(k)'
    BY <2>1 DEF QuietInv, Asked
  <2>3. CASE at[k] = "idle"
    BY <2>1, <2>2, <2>3 DEF Undisturbed, Walked
  <2>4. CASE at[k] # "idle"
    BY <2>1, <2>2, <2>4 DEF Quiet
  <2> QED
    BY <2>3, <2>4
<1>3. ASSUME UNCHANGED <<parent, tree, job, list, left, near, walk, met>>, NEW k \in Handlers,
             at'[k] = at[k] \/ at'[k] = "stopped"
      PROVE  Asked(k)' /\ (Quiet(k)' => Undisturbed(k)')
  <2>1. Asked(k) /\ (Quiet(k)' => Undisturbed(k))
    BY <1>3 DEF QuietInv, Quiet
  <2>2. Asked(k)'
    BY <1>3, <2>1 DEF Asked
  <2>3. CASE at'[k] = "stopped"
    BY <2>2, <2>3 DEF Undisturbed, Walked
  <2>4. CASE at'[k] = at[k]
    <3>1. Undisturbed(k)' <=> Undisturbed(k)
      BY <1>3, <2>4 DEF Undisturbed, Walking, Filling, Whole, Walked, Matches, InsideNow,
                        LinksNow, Below, Reported
    <3> QED
      BY <2>1, <2>2, <3>1
  <2> QED
    BY <1>3, <2>3, <2>4
<1>4. CASE Connect \/ UNCHANGED vars
  BY <1>3, <1>4 DEF Connect, google, vars, QuietInv
<1>5. CASE Stop
  <2>1. UNCHANGED <<parent, tree, job, list, left, near, walk, met>>
    BY <1>5 DEF Stop, google, db
  <2>2. \A k \in Handlers : at'[k] = at[k] \/ at'[k] = "stopped"
    BY <1>5 DEF Stop
  <2> QED
    BY <1>3, <2>1, <2>2 DEF QuietInv
<1> QED
  BY <1>1, <1>2, <1>4, <1>5 DEF Next, QuietInv

LEMMA QuietInvInit == Init => QuietInv
<1> SUFFICES ASSUME Init, NEW h \in Handlers
             PROVE  Asked(h) /\ (Quiet(h) => Undisturbed(h))
  BY DEF QuietInv
<1>1. /\ at[h] = "idle" /\ job[h].kind = "none" /\ near[h] = None
      /\ \A r \in Refs : list[h][r] = None
  BY DEF Init, NoJob
<1> QED
  BY <1>1 DEF Asked, Undisturbed, Walked, Targeting, Agent
-----------------------------------------------------------------------------
(* The invariants hold in every reachable state.                             *)
THEOREM ScopeInvHolds == Spec => []ScopeInv
<1> QED
  BY ScopeInvInit, ScopeInvStep, PTL DEF Spec

LEMMA DropInvHolds == Spec => []DropInv
<1> QED
  BY ScopeInvHolds, DropInvInit, DropInvStep, PTL DEF Spec

LEMMA QuietInvHolds == Spec => []QuietInv
<1> QED
  BY ScopeInvHolds, DropInvHolds, QuietInvInit, QuietInvStep, PTL DEF Spec
-----------------------------------------------------------------------------
(* Types, the unique index of the references' folders and the foreign keys   *)
(* of grants and cached rows, whatever statements of requests interleave.    *)
THEOREM DriveTypeCorrect == Spec => []TypeOK
<1>1. ScopeInv => TypeOK
  BY DEF ScopeInv
<1> QED
  BY <1>1, ScopeInvHolds, PTL

(* Whatever walks overlap, references change or go away and folders move: a  *)
(* request is let through only to what was at some time inside a folder of a *)
(* reference that was granted to the agent while the request ran.            *)
THEOREM LetThroughWasInsideHolds == Spec => []LetThroughWasInside
<1>1. ScopeInv => LetThroughWasInside
  BY DEF ScopeInv, LetThroughWasInside
<1> QED
  BY <1>1, ScopeInvHolds, PTL

(* A deletion of the Workspace takes its references with it, also when it    *)
(* stopped half way before, except those whose registration overlapped one.  *)
THEOREM OnlyRacedRefsOutliveHolds == Spec => []OnlyRacedRefsOutlive
<1>1. DropInv => OnlyRacedRefsOutlive
  BY DEF DropInv, Outliving, Raced, OnlyRacedRefsOutlive
<1> QED
  BY <1>1, DropInvHolds, PTL

(* While no other request ran and no folder moved, a refresh of a tree that  *)
(* is through leaves exactly the folders that are now below the root,        *)
(* whatever walks that stopped or failed or raced had left in the rows.      *)
THEOREM RefreshRepairsHolds == Spec => []RefreshRepairs
<1>1. QuietInv => RefreshRepairs
  BY FoldersOfRows DEF QuietInv, Undisturbed, Filling, RefreshRepairs
<1> QED
  BY <1>1, QuietInvHolds, PTL

(* A request that nothing overlapped, and that refused a file as outside, is *)
(* right: the file is in no folder of the references it was given, however   *)
(* old or incomplete the cached trees were when it began.                    *)
THEOREM InsideIsServedHolds == Spec => []InsideIsServed
<1>1. QuietInv => InsideIsServed
  BY DEF QuietInv, Undisturbed, InsideIsServed
<1> QED
  BY <1>1, QuietInvHolds, PTL
=============================================================================
