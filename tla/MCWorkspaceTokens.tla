------------------------ MODULE MCWorkspaceTokens ------------------------
(* Small instances of WorkspaceTokens for TLC. *)
EXTENDS WorkspaceTokens, TLC

Symmetric == Permutations(Mailboxes) \union Permutations(States) \union Permutations(Handlers)
=============================================================================
