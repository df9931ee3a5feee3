------------------------ MODULE MCEmailVerification ------------------------
(***************************************************************************)
(* Instances of EmailVerification, and of the rules by which Register lets *)
(* a request in, for TLC.  Codes bounds the number of codes ever generated.*)
(* The limits are scaled, 3 < 4 < 6 for 8 < 72 < 128.                      *)
(***************************************************************************)
EXTENDS EmailVerification, TLC

(* A space, a letter of one byte, one of two and a symbol of four.         *)
MCWidth == [ch \in Characters |-> CASE ch = "accented" -> 2 [] ch = "emoji" -> 4 [] OTHER -> 1]

Symmetry == Permutations(Users) \cup Permutations(Codes) \cup Permutations(Handlers)

=============================================================================
