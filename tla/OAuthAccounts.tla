--------------------------- MODULE OAuthAccounts ---------------------------
(***************************************************************************)
(* Accounts and the identities of OIDC providers: Register and the part of *)
(* Callback that finds or creates the account of an identity, one SQL      *)
(* statement per step, over auth_service.users and auth_service.identities.*)
(*                                                                         *)
(* A subject is one (provider, provider_user_id).  The schema is not part  *)
(* of the repository: a unique index on users.email is what Create relies  *)
(* on (IsUniqueViolation), one on the subject is a constant.  An identity  *)
(* is inserted together with its account and is named by it; its own id is *)
(* another uuid.                                                           *)
(***************************************************************************)
EXTENDS Naturals, FiniteSets

CONSTANTS Subjects,      \* people at a provider
          Emails,        \* addresses
          Accounts,      \* users.id
          Handlers,      \* handler goroutines, over all replicas
          SubjectIndex,  \* whether the schema keeps subjects unique
          None           \* SQL NULL / Go nil

ASSUME AccountsAssumption ==
  /\ SubjectIndex \in BOOLEAN
  /\ None \notin Subjects \cup Emails \cup Accounts \cup Handlers
  /\ "password" \notin Subjects

VARIABLES
  \* the database
  email,      \* users.email; None: no such account
  local,      \* accounts with a password_hash
  subjectOf,  \* identities.provider and provider_user_id, by user_id
  idEmail,    \* identities.email, by user_id
  claim,      \* who has an uncommitted users row with this e-mail
  rowLock,    \* who holds the row lock of an account
  subClaim,   \* who has an uncommitted identity of this subject
  \* the handlers
  pc,         \* next statement
  info,       \* what the id token or the registration says
  acct,       \* the account found or created
  err,        \* the error the handler answers with
  \* history
  home        \* the account a subject was first logged in to

tables == <<email, local, subjectOf, idEmail>>
locks == <<claim, rowLock, subClaim>>
vars == <<tables, locks, pc, info, acct, err, home>>

-----------------------------------------------------------------------------
NoInfo == [op |-> "Register", sub |-> None, email |-> None]

Info == [op : {"Register", "Callback"}, sub : Subjects \cup {None}, email : Emails \cup {None}]

InTx == {"findIdentity", "findByID", "findByEmail", "updateEmail", "updateUser",
         "insertUser", "insertIdentity", "commit"}

Move(h, to) ==
  /\ pc' = [pc EXCEPT ![h] = to]
  /\ UNCHANGED <<tables, info, err, home>>

Unlock(h) ==
  /\ claim' = [e \in Emails |-> IF claim[e] = h THEN None ELSE claim[e]]
  /\ rowLock' = [a \in Accounts |-> IF rowLock[a] = h THEN None ELSE rowLock[a]]
  /\ subClaim' = [s \in Subjects |-> IF subClaim[s] = h THEN None ELSE subClaim[s]]

(* An early return: the transaction is rolled back.                        *)
Return(h, e) ==
  /\ Unlock(h)
  /\ pc' = [pc EXCEPT ![h] = "answer"]
  /\ err' = [err EXCEPT ![h] = e]
  /\ UNCHANGED <<tables, info, acct, home>>

(* The accounts that have an address, as committed.                        *)
Holders(e) == {a \in Accounts : email[a] = e}

(* A statement that needs the address e for account a has to wait for a    *)
(* transaction that is about to take it or to give it up.                  *)
AddressSettled(h, e) ==
  /\ claim[e] \in {None, h}
  /\ \A a \in Holders(e) : rowLock[a] \in {None, h}

-----------------------------------------------------------------------------
Start(h, i, entry) ==
  /\ pc[h] = "idle"
  /\ info' = [info EXCEPT ![h] = i]
  /\ pc' = [pc EXCEPT ![h] = entry]
  /\ UNCHANGED <<tables, locks, acct, err, home>>

StartRegister(h) ==
  \E e \in Emails : Start(h, [NoInfo EXCEPT !.email = e], "insertUser")

(* The provider reports a verified address; it may be a new one each time. *)
StartCallback(h) ==
  \E s \in Subjects, e \in Emails :
    Start(h, [op |-> "Callback", sub |-> s, email |-> e], "findIdentity")

(* Mutant of IdentitiesOf: identities are looked up by address.            *)
IdentitiesByEmail(i) == {a \in Accounts : idEmail[a] = i.email}

(* user_identities.service.Find.                                           *)
IdentitiesOf(i) == {a \in Accounts : subjectOf[a] = i.sub}

(* FindOrCreateByOAuthIdentity: which of its three ways.                   *)
FindIdentity(h) ==
  LET i == info[h] IN
  /\ pc[h] = "findIdentity"
  /\ \/ /\ IdentitiesOf(i) = {}
        /\ Move(h, "insertUser")
        /\ UNCHANGED acct
     \/ \E a \in IdentitiesOf(i) :
          /\ acct' = [acct EXCEPT ![h] = a]
          /\ Move(h, IF idEmail[a] = i.email THEN "findByID" ELSE "findByEmail")
  /\ UNCHANGED locks

(* The address is the one the identity has: nothing to update.             *)
FindByID(h) ==
  /\ pc[h] = "findByID"
  /\ Move(h, "commit")
  /\ UNCHANGED <<locks, acct>>

(* Another address: refused if it is another account's.                    *)
FindByEmail(h) ==
  \/ /\ pc[h] = "findByEmail"
     /\ Holders(info[h].email) \subseteq {acct[h]}
     /\ Move(h, "updateEmail")
     /\ UNCHANGED <<locks, acct>>
  \/ /\ pc[h] = "findByEmail"
     /\ ~(Holders(info[h].email) \subseteq {acct[h]})
     /\ Return(h, "ErrEmailAlreadyExist")

(* identityService.UpdateEmail(ctx, identity.UserID, ...): no identity has *)
(* the id of a user, so the UPDATE matches no row and reports no error.    *)
UpdateEmail(h) ==
  /\ pc[h] = "updateEmail"
  /\ Move(h, "updateUser")
  /\ UNCHANGED <<locks, acct>>

(* UPDATE users SET email: a duplicate is an error like any other.         *)
UpdateUser(h) ==
  LET e == info[h].email IN
  /\ pc[h] = "updateUser"
  /\ rowLock[acct[h]] = None
  /\ AddressSettled(h, e)
  /\ \/ /\ Holders(e) \subseteq {acct[h]}
        /\ rowLock' = [rowLock EXCEPT ![acct[h]] = h]
        /\ claim' = [claim EXCEPT ![e] = h]
        /\ Move(h, "commit")
        /\ UNCHANGED <<subClaim, acct>>
     \/ /\ ~(Holders(e) \subseteq {acct[h]})
        /\ Return(h, "ErrDatabase")

(* Mutant of InsertUser: an account that has the address is taken over.    *)
InsertUserOrLink(h) ==
  LET e == info[h].email IN
  /\ pc[h] = "insertUser"
  /\ AddressSettled(h, e)
  /\ IF Holders(e) = {}
     THEN /\ claim' = [claim EXCEPT ![e] = h]
          /\ \E a \in Accounts : /\ email[a] = None
                                 /\ \A g \in Handlers : acct[g] # a
                                 /\ acct' = [acct EXCEPT ![h] = a]
     ELSE /\ \E a \in Holders(e) : acct' = [acct EXCEPT ![h] = a]
          /\ UNCHANGED claim
  /\ Move(h, IF info[h].op = "Register" THEN "commit" ELSE "insertIdentity")
  /\ UNCHANGED <<rowLock, subClaim>>

(* userService.Create, for Register and for a new identity.                *)
InsertUser(h) ==
  LET e == info[h].email IN
  /\ pc[h] = "insertUser"
  /\ AddressSettled(h, e)
  /\ \/ /\ Holders(e) = {}
        /\ claim' = [claim EXCEPT ![e] = h]
        /\ \E a \in Accounts : /\ email[a] = None
                               /\ \A g \in Handlers : acct[g] # a
                               /\ acct' = [acct EXCEPT ![h] = a]
        /\ Move(h, IF info[h].op = "Register" THEN "commit" ELSE "insertIdentity")
        /\ UNCHANGED <<rowLock, subClaim>>
     \/ /\ Holders(e) # {}
        /\ Return(h, "ErrEmailAlreadyExist")

(* identityService.Create.                                                 *)
InsertIdentity(h) ==
  LET s == info[h].sub IN
  /\ pc[h] = "insertIdentity"
  /\ SubjectIndex => subClaim[s] = None
  /\ \/ /\ SubjectIndex => IdentitiesOf(info[h]) = {}
        /\ subClaim' = [subClaim EXCEPT ![s] = h]
        /\ Move(h, "commit")
        /\ UNCHANGED <<claim, rowLock, acct>>
     \/ /\ SubjectIndex /\ IdentitiesOf(info[h]) # {}
        /\ Return(h, "ErrDatabase")

(* What the handler's transaction writes: a new account, with its identity *)
(* when a provider named it, or a new address.                             *)
Creates(h) == email[acct[h]] = None
Renames(h) == rowLock[acct[h]] = h

(* Mutant of WithIdentity: the identity is inserted by another transaction.*)
WithoutIdentity(h) == FALSE

WithIdentity(h) == Creates(h) /\ info[h].op = "Callback"

(* Mutant of IdentityEmail: Create's string arguments are swapped.         *)
IdentityEmailSwapped(h) == info[h].sub

(* The address a new identity is stored with.                              *)
IdentityEmail(h) == info[h].email

Publish(h) ==
  LET a == acct[h] IN
  /\ email' = IF Creates(h) \/ Renames(h) THEN [email EXCEPT ![a] = info[h].email] ELSE email
  /\ local' = IF Creates(h) /\ info[h].op = "Register" THEN local \cup {a} ELSE local
  /\ subjectOf' = IF WithIdentity(h) THEN [subjectOf EXCEPT ![a] = info[h].sub] ELSE subjectOf
  /\ idEmail' = IF WithIdentity(h) THEN [idEmail EXCEPT ![a] = IdentityEmail(h)] ELSE idEmail
  /\ Unlock(h)
  /\ pc' = [pc EXCEPT ![h] = "answer"]
  /\ UNCHANGED <<info, acct>>

(* GenerateBundle and tx.Commit: the subject is logged in.                 *)
Commit(h) ==
  LET s == info[h].sub IN
  /\ pc[h] = "commit"
  /\ Publish(h)
  /\ home' = IF info[h].op = "Callback" /\ home[s] = None
             THEN [home EXCEPT ![s] = acct[h]] ELSE home
  /\ UNCHANGED err

(* The COMMIT took effect and its acknowledgement was lost.                *)
CommitUnacknowledged(h) ==
  /\ pc[h] = "commit"
  /\ Publish(h)
  /\ err' = [err EXCEPT ![h] = "ErrDatabase"]
  /\ UNCHANGED home

(* A statement fails, the context ends, a deadlock is broken: a rollback.  *)
Fail(h) ==
  /\ pc[h] \in InTx
  /\ Return(h, "ErrDatabase")

(* The answer is written, or the replica stops and it is not.              *)
Answer(h) ==
  /\ pc[h] = "answer"
  /\ pc' = [pc EXCEPT ![h] = "idle"]
  /\ info' = [info EXCEPT ![h] = NoInfo]
  /\ acct' = [acct EXCEPT ![h] = None]
  /\ err' = [err EXCEPT ![h] = "nil"]
  /\ UNCHANGED <<tables, locks, home>>

Init ==
  /\ email = [a \in Accounts |-> None]
  /\ local = {}
  /\ subjectOf = [a \in Accounts |-> None]
  /\ idEmail = [a \in Accounts |-> None]
  /\ claim = [e \in Emails |-> None]
  /\ rowLock = [a \in Accounts |-> None]
  /\ subClaim = [s \in Subjects |-> None]
  /\ pc = [h \in Handlers |-> "idle"]
  /\ info = [h \in Handlers |-> NoInfo]
  /\ acct = [h \in Handlers |-> None]
  /\ err = [h \in Handlers |-> "nil"]
  /\ home = [s \in Subjects |-> None]

Next ==
  \E h \in Handlers :
    \/ StartRegister(h)
    \/ StartCallback(h)
    \/ FindIdentity(h)
    \/ FindByID(h)
    \/ FindByEmail(h)
    \/ UpdateEmail(h)
    \/ UpdateUser(h)
    \/ InsertUser(h)
    \/ InsertIdentity(h)
    \/ Commit(h)
    \/ CommitUnacknowledged(h)
    \/ Fail(h)
    \/ Answer(h)

Spec == Init /\ [][Next]_vars

-----------------------------------------------------------------------------
TypeOK ==
  /\ email \in [Accounts -> Emails \cup {None}]
  /\ local \subseteq Accounts
  /\ subjectOf \in [Accounts -> Subjects \cup {None}]
  /\ idEmail \in [Accounts -> Emails \cup {None}]
  /\ claim \in [Emails -> Handlers \cup {None}]
  /\ rowLock \in [Accounts -> Handlers \cup {None}]
  /\ subClaim \in [Subjects -> Handlers \cup {None}]
  /\ pc \in [Handlers -> InTx \cup {"idle", "answer"}]
  /\ info \in [Handlers -> Info]
  /\ acct \in [Handlers -> Accounts \cup {None}]
  /\ err \in [Handlers -> {"nil", "ErrEmailAlreadyExist", "ErrDatabase"}]
  /\ home \in [Subjects -> Accounts \cup {None}]

(* Every account can be logged in to, by its password or through exactly   *)
(* the identity it was created with, also when a callback fails halfway.   *)
AccountHasOneLogin ==
  \A a \in Accounts : email[a] # None => (a \in local <=> subjectOf[a] = None)

(* A person of a provider always lands in the account of the first login,  *)
(* whatever address the provider reports and whoever registers meanwhile.  *)
SubjectKeepsAccount ==
  [][\A h \in Handlers :
       Commit(h) /\ info[h].op = "Callback" => home'[info[h].sub] = acct[h]]_vars

(* A password account is never entered through a provider, even when the   *)
(* provider vouches for the very address it was registered with.           *)
NoTakeover ==
  \A h \in Handlers :
    pc[h] = "commit" /\ info[h].op = "Callback" => acct[h] \notin local

(* How an account is entered, as Accounts sees it.                         *)
Entry == [a \in Accounts |-> IF a \in local THEN "password" ELSE subjectOf[a]]

Promise == INSTANCE Accounts WITH
  AccountIDs <- Accounts,
  Password <- "password",
  address <- email,
  entry <- Entry

(* Whatever runs at the same time, fails or loses its acknowledgement:     *)
(* accounts, addresses and identities change as if each request were one   *)
(* step.  No address has two accounts, no person two, and no account loses *)
(* its way in or changes hands.                                            *)
ImplementsAccounts == Promise!Spec

(* After a login through a provider the account has the address that the   *)
(* provider reported: identities.email is what the address is compared     *)
(* with, and UpdateEmail(ctx, identityID, ...) keeps it up to date.        *)
EmailFollowsProvider ==
  [][\A h \in Handlers :
       Commit(h) /\ info[h].op = "Callback" => email'[acct[h]] = info[h].email]_vars

=============================================================================
