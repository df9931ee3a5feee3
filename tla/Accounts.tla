------------------------------ MODULE Accounts ------------------------------
(***************************************************************************)
(* What Register and FindOrCreateByOAuthIdentity promise together.  An     *)
(* account has one address and one way in: a password, or the identity it  *)
(* was created with.  Every request is one step, or no step at all.        *)
(* OAuthAccounts, where it is a transaction of several statements,         *)
(* implements this where the schema keeps subjects unique.                 *)
(***************************************************************************)
CONSTANTS Subjects,  \* people at a provider
          Emails,    \* addresses
          AccountIDs,
          Password,  \* the way in of a registered account
          None       \* no account, no way in

VARIABLES address,   \* of an account
          entry      \* its way in

vars == <<address, entry>>

Free(e) == \A a \in AccountIDs : address[a] # e

(* An account that nobody has, an address and a person without account.    *)
Open(a, e, how) ==
  /\ address[a] = None
  /\ Free(e)
  /\ how \in Subjects => \A b \in AccountIDs : entry[b] # how
  /\ address' = [address EXCEPT ![a] = e]
  /\ entry' = [entry EXCEPT ![a] = how]

(* Only a provider changes an address, to one nobody has.                  *)
Readdress(a, e) ==
  /\ entry[a] \in Subjects
  /\ Free(e)
  /\ address' = [address EXCEPT ![a] = e]
  /\ UNCHANGED entry

Init ==
  /\ address = [a \in AccountIDs |-> None]
  /\ entry = [a \in AccountIDs |-> None]

Next ==
  \E a \in AccountIDs, e \in Emails :
    \/ \E how \in Subjects \cup {Password} : Open(a, e, how)
    \/ Readdress(a, e)

Spec == Init /\ [][Next]_vars

=============================================================================
