---------------------------- MODULE TokenService ----------------------------
(***************************************************************************)
(* What the refresh-token store promises, with every transaction collapsed *)
(* into one atomic step: a session is opened for a verified user, is       *)
(* handed from one token to the next, and ends when its token is revoked.  *)
(* RefreshTokens, which runs the same operations statement by statement,   *)
(* implements this module.                                                 *)
(***************************************************************************)
CONSTANTS Users,   \* accounts
          Tokens,  \* refresh-token identifiers (uuid.New never repeats one)
          None     \* SQL NULL / Go nil

VARIABLES row,       \* refresh_tokens: "absent", "live" or "revoked"
          userOf,    \* refresh_tokens.user_id
          family,    \* history: the login whose session a token carries on
          verified   \* users.email_verified

serviceVars == <<row, userOf, family, verified>>

ServiceTypeOK ==
  /\ row \in [Tokens -> {"absent", "live", "revoked"}]
  /\ userOf \in [Tokens -> Users \cup {None}]
  /\ family \in [Tokens -> Tokens \cup {None}]
  /\ verified \subseteq Users

ServiceInit ==
  /\ row = [t \in Tokens |-> "absent"]
  /\ userOf = [t \in Tokens |-> None]
  /\ family = [t \in Tokens |-> None]
  /\ verified \in SUBSET Users

-----------------------------------------------------------------------------
(* A login, by password or through a provider: a new session.              *)
Open(n, u) ==
  /\ row[n] = "absent"
  /\ u \in verified
  /\ row' = [row EXCEPT ![n] = "live"]
  /\ userOf' = [userOf EXCEPT ![n] = u]
  /\ family' = [family EXCEPT ![n] = n]
  /\ UNCHANGED verified

(* A refresh: the live token t is given up for n, in one step.             *)
Rotate(t, n) ==
  /\ row[t] = "live"
  /\ row[n] = "absent"
  /\ row' = [row EXCEPT ![t] = "revoked", ![n] = "live"]
  /\ userOf' = [userOf EXCEPT ![n] = userOf[t]]
  /\ family' = [family EXCEPT ![n] = family[t]]
  /\ UNCHANGED verified

(* A logout: idempotent, a revoked token may be revoked again.             *)
Revoke(t) ==
  /\ row[t] # "absent"
  /\ row' = [row EXCEPT ![t] = "revoked"]
  /\ UNCHANGED <<userOf, family, verified>>

(* An account's address is confirmed; nothing takes that back.             *)
Confirm(u) ==
  /\ verified' = verified \cup {u}
  /\ UNCHANGED <<row, userOf, family>>

ServiceNext ==
  \/ \E n \in Tokens, u \in Users : Open(n, u)
  \/ \E t, n \in Tokens : Rotate(t, n)
  \/ \E t \in Tokens : Revoke(t)
  \/ \E u \in Users : Confirm(u)

ServiceSpec == ServiceInit /\ [][ServiceNext]_serviceVars

=============================================================================
