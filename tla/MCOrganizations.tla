-------------------------- MODULE MCOrganizations --------------------------
(* Small instances of Organizations for TLC. *)
EXTENDS Organizations, TLC

CONSTANTS ada, bob, acme

(* Both accounts are of one domain. *)
OneDomain == [e \in {ada, bob} |-> acme]

Symmetric == Permutations(Emails) \union Permutations(UserIds) \union Permutations(OrgIds) \union Permutations(Handlers)
=============================================================================
