---------------------------- MODULE MCOIDCLogin ----------------------------
(***************************************************************************)
(* Instances of OIDCLogin for TLC.                                         *)
(***************************************************************************)
EXTENDS OIDCLogin, TLC

Symmetry == Permutations(Flows) \cup Permutations(Browsers)

=============================================================================
