------------------------- MODULE MCBrowserSession -------------------------
(***************************************************************************)
(* Instances of BrowserSession for TLC: one account, whose sessions Tokens *)
(* bounds.                                                                 *)
(***************************************************************************)
EXTENDS BrowserSession

Symmetry == Permutations(Tokens) \cup Permutations(Calls)

=============================================================================
