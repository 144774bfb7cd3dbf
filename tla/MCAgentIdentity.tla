-------------------------- MODULE MCAgentIdentity --------------------------
(* Small instances of AgentIdentity for TLC. *)
EXTENDS AgentIdentity, TLC

Symmetric == Permutations(Links) \union Permutations(Downloads) \union Permutations(Agents)
                 \union Permutations(Handlers)

Busy == {h \in Handlers : job[h] # Idle}
Fetchers == {d \in Downloads : dl[d].at \in Fetching}

(* Bound: two requests are under way at a time, two handlers only where no  *)
(* install link has been issued, and no link where an edit has come undone. *)
(* A download reads of an agent no more than whether its row is there, its  *)
(* status and its key.                                                      *)
Bounded ==
    /\ Cardinality(Busy) + Cardinality(Fetchers) <= 2
    /\ issued # {} => Cardinality(Busy) <= 1 /\ \A a \in Agents : undone[a] = {}

(* States differ only in what some step or property may still read, and the *)
(* view keeps no more than that.                                            *)

(* No property reads the firewall switch; what a column was set to is read  *)
(* again only while its last setting has not come undone.                   *)
Kept(a) == IF Present(a) THEN <<row[a].key, row[a].enabled, row[a].stale>> ELSE None
Set(a) == IF asked[a] = None THEN None
          ELSE <<IF "key" \in undone[a] THEN None ELSE asked[a].key,
                 IF "enabled" \in undone[a] THEN None ELSE asked[a].enabled>>

(* Of a copy, the columns that its handler will save as they are, and of    *)
(* what it misses that which its save will undo.                            *)
Copied(h) ==
    LET j == job[h] IN
    CASE j.at = "save"  -> <<j.agent, j.kind,
                             IF "key" \in Sets(j.kind) THEN None ELSE j.copy.key,
                             IF "enabled" \in Sets(j.kind) THEN None ELSE j.copy.enabled,
                             j.copy.stale, edited[h] \ Sets(j.kind), warned[h] \ j.copy.stale>>
      [] j.at = "write" -> <<j, warned[h] \ j.stale>>
      [] OTHER          -> j

(* Not the link of a download past its look-up, the key of any, how one     *)
(* ended unless it was served too late, or whether a link that no row and   *)
(* no download holds ran out or was spent.                                  *)
Live == {l \in Links : \/ \E a \in Agents : installToken[a] = l
                       \/ \E d \in Downloads : dl[d].at = "burn" /\ dl[d].link = l}

Remaining(d) ==
    CASE dl[d].at \in {"waiting", "burn"} -> dl[d]
      [] dl[d].at \in Fetching           -> <<dl[d].at, dl[d].agent, dl[d].late>>
      [] OTHER                           -> dl[d].at = "served" /\ dl[d].late

StillRead == <<[a \in Agents |-> <<Kept(a), Set(a), undone[a]>>], created, lastKey, installToken,
               issued, expired \intersect Live, spent \intersect Live,
               [h \in Handlers |-> Copied(h)], [d \in Downloads |-> Remaining(d)]>>
=============================================================================
