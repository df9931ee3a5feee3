-------------------------- MODULE MCOAuthAccounts --------------------------
(***************************************************************************)
(* Instances of OAuthAccounts for TLC.  Accounts bounds the number of      *)
(* users rows ever inserted.                                               *)
(***************************************************************************)
EXTENDS OAuthAccounts, TLC

Symmetry == Permutations(Subjects) \cup Permutations(Emails)
            \cup Permutations(Accounts) \cup Permutations(Handlers)

=============================================================================
