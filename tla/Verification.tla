---------------------------- MODULE Verification ----------------------------
(***************************************************************************)
(* What Register, Verify and handleResend promise together: every request  *)
(* is one step on the accounts and their codes, or no step at all.         *)
(* EmailVerification, where a request is a dozen statements under row      *)
(* locks, implements it.                                                   *)
(***************************************************************************)
CONSTANTS Users,  \* accounts with a password
          Codes,  \* verification codes
          None    \* no owner yet

VARIABLES status, \* of an account: "absent", "unverified" or "verified"
          code,   \* of a code: "unused", "live" or "gone"
          owner   \* the account a code belongs to

vars == <<status, code, owner>>

LiveCodes(u) == {c \in Codes : code[c] = "live" /\ owner[c] = u}

(* A new code c for u, in place of the codes in old.                       *)
Issue(u, c, old) ==
  /\ code[c] = "unused"
  /\ code' = [d \in Codes |-> CASE d = c -> "live"
                                [] d \in old -> "gone"
                                [] OTHER -> code[d]]
  /\ owner' = [owner EXCEPT ![c] = u]

(* An account is never without its first code.                             *)
SignUp(u, c) ==
  /\ status[u] = "absent"
  /\ status' = [status EXCEPT ![u] = "unverified"]
  /\ Issue(u, c, {})

(* A resend takes away no code without giving another, and never that of   *)
(* another account.  It may find the account verified by now.              *)
Replace(u, c, old) ==
  /\ status[u] # "absent"
  /\ Issue(u, c, old)
  /\ UNCHANGED status

(* A live code is used up and verifies its owner.                          *)
Confirm(c) ==
  /\ code[c] = "live"
  /\ code' = [code EXCEPT ![c] = "gone"]
  /\ status' = [status EXCEPT ![owner[c]] = "verified"]
  /\ UNCHANGED owner

Init ==
  /\ status = [u \in Users |-> "absent"]
  /\ code = [c \in Codes |-> "unused"]
  /\ owner = [c \in Codes |-> None]

Next ==
  \/ \E u \in Users, c \in Codes : SignUp(u, c)
  \/ \E u \in Users, c \in Codes : \E old \in SUBSET LiveCodes(u) : Replace(u, c, old)
  \/ \E c \in Codes : Confirm(c)

Spec == Init /\ [][Next]_vars

=============================================================================
