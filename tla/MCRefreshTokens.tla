-------------------------- MODULE MCRefreshTokens --------------------------
(***************************************************************************)
(* Instances of RefreshTokens for TLC: one account with a password, one of *)
(* a provider.  Tokens bounds the number of rows ever inserted.            *)
(***************************************************************************)
EXTENDS RefreshTokens, TLC

CONSTANTS u1, u2

MCUsers == {u1, u2}
MCLocalUsers == {u1}

Symmetry == Permutations(Requests) \cup Permutations(Tokens)

=============================================================================
