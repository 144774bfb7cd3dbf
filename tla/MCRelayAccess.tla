--------------------------- MODULE MCRelayAccess ---------------------------
(***************************************************************************)
(* Small instances of RelayAccess for TLC.  One operation is asked for; a  *)
(* policy denies it, allows it, or allows it after human review, and a     *)
(* grant asks for a motive or does not.                                    *)
(***************************************************************************)
EXTENDS RelayAccess, TLC

MCSystemBody == [caps |-> {}, review |-> {}]
MCBodies == {[caps |-> c, review |-> v] : c \in SUBSET Caps, v \in SUBSET Caps}

(* Requests with the motive header, with and without human approval, and   *)
(* one without the motive.                                                 *)
MCShapes == {s \in Shape : s.motive \/ s.approval}

(* Grants of the custom policies, with and without the motive, and of the  *)
(* system policy.                                                          *)
MCFormGrants == {g \in Grant : g.policy # System \/ ~g.motive}

(* Grants without the motive, which only the relay tells apart. *)
MCPlainGrants == {g \in Grant : ~g.motive}

(* A custom policy allows the operation or not; review is the relay's. *)
MCPlainBodies == {[caps |-> c, review |-> {}] : c \in SUBSET Caps}

AllOps == {"form", "api", "deletePolicy", "default", "agent"}
GrantOps == {"form", "api"}

Symmetric == Permutations(Agents) \union Permutations(Workspaces) \union Permutations(Policies)
                 \union Permutations(Handlers)

(* The steps up to the first that lets two requests get in each other's way. *)
Apart == NamesApart /\ EditsApart
=============================================================================
