------------------------ MODULE OAuthAccountsProofs ------------------------
(***************************************************************************)
(* Proofs about OAuthAccounts, for any number of people, addresses,        *)
(* accounts and handlers.                                                  *)
(***************************************************************************)
EXTENDS OAuthAccounts, TLAPS

(* Where a transaction has found the account it is about.                  *)
Found == {"findByID", "findByEmail", "updateEmail", "updateUser"}

(* What a handler has been asked, at each statement.                       *)
JobShape ==
  \A h \in Handlers :
    /\ pc[h] \in InTx => info[h].email \in Emails
    /\ pc[h] \in Found \cup {"findIdentity", "insertIdentity"} => info[h].op = "Callback"
    /\ info[h].op = "Callback" => info[h].sub \in Subjects
    /\ pc[h] \in Found \cup {"insertIdentity", "commit"} => acct[h] \in Accounts

(* Who holds what, and up to which statement.                              *)
LocksHeld ==
  /\ \A e \in Emails :
       claim[e] # None => /\ pc[claim[e]] \in {"insertIdentity", "commit"}
                          /\ info[claim[e]].email = e
  /\ \A a \in Accounts :
       rowLock[a] # None => /\ pc[rowLock[a]] = "commit"
                            /\ acct[rowLock[a]] = a
                            /\ email[a] # None
                            /\ claim[info[rowLock[a]].email] = rowLock[a]
  /\ \A s \in Subjects :
       subClaim[s] # None => /\ pc[subClaim[s]] = "commit"
                             /\ info[subClaim[s]].sub = s

(* A new account is its creator's alone, who holds the address and, by the *)
(* index, the subject.                                                     *)
Creators ==
  \A h \in Handlers :
    /\ pc[h] = "insertIdentity" => email[acct[h]] = None
    /\ pc[h] \in {"insertIdentity", "commit"} /\ email[acct[h]] = None =>
         /\ claim[info[h].email] = h
         /\ \A g \in Handlers : g # h => acct[g] # acct[h]
    /\ pc[h] = "commit" /\ email[acct[h]] = None /\ info[h].op = "Callback" /\ SubjectIndex =>
         subClaim[info[h].sub] = h

(* An account that was there already is the one of the person.             *)
FoundOwn ==
  \A h \in Handlers :
    pc[h] \in Found \/ (pc[h] = "commit" /\ email[acct[h]] # None) =>
      /\ email[acct[h]] # None
      /\ info[h].op = "Callback"
      /\ subjectOf[acct[h]] = info[h].sub

(* What is held is free, but for what its holder is about to replace.      *)
HeldIsFree ==
  /\ \A e \in Emails, a \in Accounts : claim[e] # None /\ email[a] = e => acct[claim[e]] = a
  /\ SubjectIndex => \A s \in Subjects, a \in Accounts : subClaim[s] # None => subjectOf[a] # s

(* The tables.                                                             *)
Rows ==
  /\ \A a \in Accounts : email[a] = None => a \notin local /\ subjectOf[a] = None
  /\ \A a, b \in Accounts : email[a] # None /\ email[a] = email[b] => a = b
  /\ SubjectIndex =>
       \A a, b \in Accounts : subjectOf[a] # None /\ subjectOf[a] = subjectOf[b] => a = b

HomeIsOwn == \A s \in Subjects : home[s] # None => subjectOf[home[s]] = s

IInv ==
  /\ TypeOK
  /\ JobShape
  /\ LocksHeld
  /\ Creators
  /\ FoundOwn
  /\ HeldIsFree
  /\ Rows
  /\ AccountHasOneLogin
  /\ HomeIsOwn

(* The inductive invariant holds at the start.                             *)
LEMMA InitInvariant == Init => IInv
BY AccountsAssumption
   DEF Init, IInv, TypeOK, NoInfo, Info, InTx, Found, JobShape, LocksHeld, Creators, FoundOwn,
       HeldIsFree, Rows, AccountHasOneLogin, HomeIsOwn

(* A request arrives.                                                      *)
LEMMA StartStep ==
  ASSUME IInv, NEW h \in Handlers, NEW i \in Info,
         NEW entry \in {"insertUser", "findIdentity"},
         Start(h, i, entry),
         i.email \in Emails,
         i.op = "Callback" => i.sub \in Subjects,
         entry = "findIdentity" => i.op = "Callback"
  PROVE  IInv'
<1> USE AccountsAssumption DEF IInv, tables, locks, Start
<1>1. TypeOK'
  BY DEF TypeOK, InTx, Info, NoInfo
<1>2. JobShape'
  BY DEF TypeOK, JobShape, Found, Info, NoInfo, InTx
<1>3. LocksHeld'
  BY DEF TypeOK, LocksHeld, JobShape, Found, Creators, FoundOwn, HeldIsFree, InTx
<1>4. Creators'
  BY DEF TypeOK, Creators, JobShape, LocksHeld, FoundOwn, Found, Rows, InTx
<1>5. FoundOwn'
  BY DEF TypeOK, FoundOwn, JobShape, LocksHeld, Creators, Found, Rows, InTx
<1>6. HeldIsFree'
  BY DEF TypeOK, HeldIsFree, JobShape, LocksHeld, Creators, FoundOwn, Found, Rows,
         InTx
<1>7. Rows'
  BY DEF TypeOK, Rows, JobShape, LocksHeld, Creators, FoundOwn, HeldIsFree, Found
<1>8. AccountHasOneLogin'
  BY DEF TypeOK, AccountHasOneLogin, JobShape, LocksHeld, Creators, FoundOwn, Rows,
         Found
<1>9. HomeIsOwn'
  BY DEF TypeOK, HomeIsOwn, JobShape, LocksHeld, Creators, FoundOwn, Rows, Found
<1> QED
  BY <1>1, <1>2, <1>3, <1>4, <1>5, <1>6, <1>7, <1>8, <1>9

(* The identity is looked up.                                              *)
LEMMA FindIdentityStep ==
  ASSUME IInv, NEW h \in Handlers, FindIdentity(h)
  PROVE  IInv'
<1> USE AccountsAssumption DEF IInv, tables, locks, FindIdentity, IdentitiesOf, Move
<1>1. TypeOK'
  BY DEF TypeOK, InTx
<1>2. JobShape'
  BY DEF TypeOK, JobShape, Found, Info, NoInfo, InTx
<1>3. LocksHeld'
  BY DEF TypeOK, LocksHeld, JobShape, Found, Creators, FoundOwn, HeldIsFree, InTx
<1>4. Creators'
  BY DEF TypeOK, Creators, JobShape, LocksHeld, FoundOwn, Found, Rows, InTx
<1>5. FoundOwn'
  BY DEF TypeOK, FoundOwn, JobShape, LocksHeld, Creators, Found, Rows, InTx
<1>6. HeldIsFree'
  BY DEF TypeOK, HeldIsFree, JobShape, LocksHeld, Creators, FoundOwn, Found, Rows,
         InTx
<1>7. Rows'
  BY DEF TypeOK, Rows, JobShape, LocksHeld, Creators, FoundOwn, HeldIsFree, Found
<1>8. AccountHasOneLogin'
  BY DEF TypeOK, AccountHasOneLogin, JobShape, LocksHeld, Creators, FoundOwn, Rows,
         Found
<1>9. HomeIsOwn'
  BY DEF TypeOK, HomeIsOwn, JobShape, LocksHeld, Creators, FoundOwn, Rows, Found
<1> QED
  BY <1>1, <1>2, <1>3, <1>4, <1>5, <1>6, <1>7, <1>8, <1>9

(* The statements that only read, and the one that updates nothing.        *)
LEMMA ReadStep ==
  ASSUME IInv, NEW h \in Handlers, NEW to,
         \/ pc[h] = "findByID" /\ to = "commit"
         \/ pc[h] = "findByEmail" /\ to = "updateEmail"
         \/ pc[h] = "updateEmail" /\ to = "updateUser",
         Move(h, to),
         UNCHANGED <<locks, acct>>
  PROVE  IInv'
<1> USE AccountsAssumption DEF IInv, tables, locks, Move
<1>1. TypeOK'
  BY DEF TypeOK, InTx
<1>2. JobShape'
  BY DEF TypeOK, JobShape, Found, Info, NoInfo, InTx
<1>3. LocksHeld'
  BY DEF TypeOK, LocksHeld, JobShape, Found, Creators, FoundOwn, HeldIsFree, InTx
<1>4. Creators'
  BY DEF TypeOK, Creators, JobShape, LocksHeld, FoundOwn, Found, Rows, InTx
<1>5. FoundOwn'
  BY DEF TypeOK, FoundOwn, JobShape, LocksHeld, Creators, Found, Rows, InTx
<1>6. HeldIsFree'
  BY DEF TypeOK, HeldIsFree, JobShape, LocksHeld, Creators, FoundOwn, Found, Rows,
         InTx
<1>7. Rows'
  BY DEF TypeOK, Rows, JobShape, LocksHeld, Creators, FoundOwn, HeldIsFree, Found
<1>8. AccountHasOneLogin'
  BY DEF TypeOK, AccountHasOneLogin, JobShape, LocksHeld, Creators, FoundOwn, Rows,
         Found
<1>9. HomeIsOwn'
  BY DEF TypeOK, HomeIsOwn, JobShape, LocksHeld, Creators, FoundOwn, Rows, Found
<1> QED
  BY <1>1, <1>2, <1>3, <1>4, <1>5, <1>6, <1>7, <1>8, <1>9

(* A rollback, for whatever reason.                                        *)
LEMMA ReturnStep ==
  ASSUME IInv, NEW h \in Handlers,
         NEW e \in {"ErrEmailAlreadyExist", "ErrDatabase"},
         pc[h] \in InTx,
         Return(h, e)
  PROVE  IInv'
<1> USE AccountsAssumption DEF IInv, tables, locks, Return, Unlock
<1>1. TypeOK'
  BY DEF TypeOK, InTx
<1>2. JobShape'
  BY DEF TypeOK, JobShape, Found, Info, NoInfo, InTx
<1>3. LocksHeld'
  BY DEF TypeOK, LocksHeld, JobShape, Found, Creators, FoundOwn, HeldIsFree, InTx
<1>4. Creators'
  BY DEF TypeOK, Creators, JobShape, LocksHeld, FoundOwn, Found, Rows, InTx
<1>5. FoundOwn'
  BY DEF TypeOK, FoundOwn, JobShape, LocksHeld, Creators, Found, Rows, InTx
<1>6. HeldIsFree'
  BY DEF TypeOK, HeldIsFree, JobShape, LocksHeld, Creators, FoundOwn, Found, Rows,
         InTx
<1>7. Rows'
  BY DEF TypeOK, Rows, JobShape, LocksHeld, Creators, FoundOwn, HeldIsFree, Found
<1>8. AccountHasOneLogin'
  BY DEF TypeOK, AccountHasOneLogin, JobShape, LocksHeld, Creators, FoundOwn, Rows,
         Found
<1>9. HomeIsOwn'
  BY DEF TypeOK, HomeIsOwn, JobShape, LocksHeld, Creators, FoundOwn, Rows, Found
<1> QED
  BY <1>1, <1>2, <1>3, <1>4, <1>5, <1>6, <1>7, <1>8, <1>9

(* An address is changed, not yet committed.                               *)
LEMMA RenameStep ==
  ASSUME IInv, NEW h \in Handlers,
         pc[h] = "updateUser",
         AddressSettled(h, info[h].email),
         Holders(info[h].email) \subseteq {acct[h]},
         rowLock' = [rowLock EXCEPT ![acct[h]] = h],
         claim' = [claim EXCEPT ![info[h].email] = h],
         Move(h, "commit"),
         UNCHANGED <<subClaim, acct>>
  PROVE  IInv'
<1> USE AccountsAssumption DEF IInv, tables, locks, Move, AddressSettled, Holders
<1>1. TypeOK'
  BY DEF TypeOK, InTx
<1>2. JobShape'
  BY DEF TypeOK, JobShape, Found, Info, NoInfo, InTx
<1>3. LocksHeld'
  BY DEF TypeOK, LocksHeld, JobShape, Found, Creators, FoundOwn, HeldIsFree, InTx
<1>4. Creators'
  BY DEF TypeOK, Creators, JobShape, LocksHeld, FoundOwn, Found, Rows, InTx
<1>5. FoundOwn'
  BY DEF TypeOK, FoundOwn, JobShape, LocksHeld, Creators, Found, Rows, InTx
<1>6. HeldIsFree'
  BY DEF TypeOK, HeldIsFree, JobShape, LocksHeld, Creators, FoundOwn, Found, Rows,
         InTx
<1>7. Rows'
  BY DEF TypeOK, Rows, JobShape, LocksHeld, Creators, FoundOwn, HeldIsFree, Found
<1>8. AccountHasOneLogin'
  BY DEF TypeOK, AccountHasOneLogin, JobShape, LocksHeld, Creators, FoundOwn, Rows,
         Found
<1>9. HomeIsOwn'
  BY DEF TypeOK, HomeIsOwn, JobShape, LocksHeld, Creators, FoundOwn, Rows, Found
<1> QED
  BY <1>1, <1>2, <1>3, <1>4, <1>5, <1>6, <1>7, <1>8, <1>9

(* An account is inserted, not yet committed.                              *)
LEMMA InsertUserStep ==
  ASSUME IInv, NEW h \in Handlers, NEW a \in Accounts,
         NEW to \in {"insertIdentity", "commit"},
         pc[h] = "insertUser",
         AddressSettled(h, info[h].email),
         Holders(info[h].email) = {},
         claim' = [claim EXCEPT ![info[h].email] = h],
         email[a] = None,
         \A g \in Handlers : acct[g] # a,
         acct' = [acct EXCEPT ![h] = a],
         to = "commit" <=> info[h].op = "Register",
         Move(h, to),
         UNCHANGED <<rowLock, subClaim>>
  PROVE  IInv'
<1> USE AccountsAssumption DEF IInv, tables, locks, Move, AddressSettled, Holders
<1>1. TypeOK'
  BY DEF TypeOK, InTx
<1>2. JobShape'
  BY DEF TypeOK, JobShape, Found, Info, NoInfo, InTx
<1>3. LocksHeld'
  BY DEF TypeOK, LocksHeld, JobShape, Found, Creators, FoundOwn, HeldIsFree, InTx
<1>4. Creators'
  BY DEF TypeOK, Creators, JobShape, LocksHeld, FoundOwn, Found, Rows, InTx
<1>5. FoundOwn'
  BY DEF TypeOK, FoundOwn, JobShape, LocksHeld, Creators, Found, Rows, InTx
<1>6. HeldIsFree'
  BY DEF TypeOK, HeldIsFree, JobShape, LocksHeld, Creators, FoundOwn, Found, Rows,
         InTx
<1>7. Rows'
  BY DEF TypeOK, Rows, JobShape, LocksHeld, Creators, FoundOwn, HeldIsFree, Found
<1>8. AccountHasOneLogin'
  BY DEF TypeOK, AccountHasOneLogin, JobShape, LocksHeld, Creators, FoundOwn, Rows,
         Found
<1>9. HomeIsOwn'
  BY DEF TypeOK, HomeIsOwn, JobShape, LocksHeld, Creators, FoundOwn, Rows, Found
<1> QED
  BY <1>1, <1>2, <1>3, <1>4, <1>5, <1>6, <1>7, <1>8, <1>9

(* Its identity is inserted.                                               *)
LEMMA InsertIdentityStep ==
  ASSUME IInv, NEW h \in Handlers,
         pc[h] = "insertIdentity",
         SubjectIndex => subClaim[info[h].sub] = None,
         SubjectIndex => IdentitiesOf(info[h]) = {},
         subClaim' = [subClaim EXCEPT ![info[h].sub] = h],
         Move(h, "commit"),
         UNCHANGED <<claim, rowLock, acct>>
  PROVE  IInv'
<1> USE AccountsAssumption DEF IInv, tables, locks, Move, IdentitiesOf
<1>1. TypeOK'
  BY DEF TypeOK, InTx
<1>2. JobShape'
  BY DEF TypeOK, JobShape, Found, Info, NoInfo, InTx
<1>3. LocksHeld'
  BY DEF TypeOK, LocksHeld, JobShape, Found, Creators, FoundOwn, HeldIsFree, InTx
<1>4. Creators'
  BY DEF TypeOK, Creators, JobShape, LocksHeld, FoundOwn, Found, Rows, InTx
<1>5. FoundOwn'
  BY DEF TypeOK, FoundOwn, JobShape, LocksHeld, Creators, Found, Rows, InTx
<1>6. HeldIsFree'
  BY DEF TypeOK, HeldIsFree, JobShape, LocksHeld, Creators, FoundOwn, Found, Rows,
         InTx
<1>7. Rows'
  BY DEF TypeOK, Rows, JobShape, LocksHeld, Creators, FoundOwn, HeldIsFree, Found
<1>8. AccountHasOneLogin'
  BY DEF TypeOK, AccountHasOneLogin, JobShape, LocksHeld, Creators, FoundOwn, Rows,
         Found
<1>9. HomeIsOwn'
  BY DEF TypeOK, HomeIsOwn, JobShape, LocksHeld, Creators, FoundOwn, Rows, Found
<1> QED
  BY <1>1, <1>2, <1>3, <1>4, <1>5, <1>6, <1>7, <1>8, <1>9

(* A transaction commits, acknowledged or not.                             *)
LEMMA PublishStep ==
  ASSUME IInv, NEW h \in Handlers,
         pc[h] = "commit",
         Publish(h),
         err' \in [Handlers -> {"nil", "ErrEmailAlreadyExist", "ErrDatabase"}],
         \/ UNCHANGED home
         \/ /\ info[h].op = "Callback"
            /\ home' = [home EXCEPT ![info[h].sub] = acct[h]]
  PROVE  IInv'
<1> USE AccountsAssumption DEF IInv, tables, locks,
           Publish, Unlock, Creates, Renames, WithIdentity, IdentityEmail
<1>1. TypeOK'
  <2>1. /\ acct[h] \in Accounts /\ info[h].email \in Emails
        /\ info[h].op = "Callback" => info[h].sub \in Subjects
    BY DEF JobShape, InTx
  <2> QED
    BY <2>1 DEF TypeOK
<1>2. JobShape'
  BY DEF TypeOK, JobShape, Found, Info, NoInfo, InTx
<1>3. LocksHeld'
  BY DEF TypeOK, LocksHeld, JobShape, Found, Creators, FoundOwn, HeldIsFree, InTx
<1>4. Creators'
  BY DEF TypeOK, Creators, JobShape, LocksHeld, FoundOwn, Found, Rows, InTx
<1>5. FoundOwn'
  BY DEF TypeOK, FoundOwn, JobShape, LocksHeld, Creators, Found, Rows, InTx
<1>6. HeldIsFree'
  BY DEF TypeOK, HeldIsFree, JobShape, LocksHeld, Creators, FoundOwn, Found, Rows,
         InTx
<1>7. Rows'
  BY DEF TypeOK, Rows, JobShape, LocksHeld, Creators, FoundOwn, HeldIsFree, Found
<1>8. AccountHasOneLogin'
  BY DEF TypeOK, AccountHasOneLogin, JobShape, LocksHeld, Creators, FoundOwn, Rows,
         Found, Info
<1>9. HomeIsOwn'
  BY DEF TypeOK, HomeIsOwn, JobShape, LocksHeld, Creators, FoundOwn, Rows, Found
<1> QED
  BY <1>1, <1>2, <1>3, <1>4, <1>5, <1>6, <1>7, <1>8, <1>9

(* An answer.                                                              *)
LEMMA AnswerStep ==
  ASSUME IInv, NEW h \in Handlers, Answer(h)
  PROVE  IInv'
<1> USE AccountsAssumption DEF IInv, tables, locks, Answer
<1>1. TypeOK'
  BY DEF TypeOK, InTx, Info, NoInfo
<1>2. JobShape'
  BY DEF TypeOK, JobShape, Found, Info, NoInfo, InTx
<1>3. LocksHeld'
  BY DEF TypeOK, LocksHeld, JobShape, Found, Creators, FoundOwn, HeldIsFree, InTx
<1>4. Creators'
  BY DEF TypeOK, Creators, JobShape, LocksHeld, FoundOwn, Found, Rows, InTx
<1>5. FoundOwn'
  BY DEF TypeOK, FoundOwn, JobShape, LocksHeld, Creators, Found, Rows, InTx
<1>6. HeldIsFree'
  BY DEF TypeOK, HeldIsFree, JobShape, LocksHeld, Creators, FoundOwn, Found, Rows,
         InTx
<1>7. Rows'
  BY DEF TypeOK, Rows, JobShape, LocksHeld, Creators, FoundOwn, HeldIsFree, Found
<1>8. AccountHasOneLogin'
  BY DEF TypeOK, AccountHasOneLogin, JobShape, LocksHeld, Creators, FoundOwn, Rows,
         Found
<1>9. HomeIsOwn'
  BY DEF TypeOK, HomeIsOwn, JobShape, LocksHeld, Creators, FoundOwn, Rows, Found
<1> QED
  BY <1>1, <1>2, <1>3, <1>4, <1>5, <1>6, <1>7, <1>8, <1>9

LEMMA StutterStep == IInv /\ UNCHANGED vars => IInv'
BY DEF vars, tables, locks, IInv, TypeOK, JobShape, LocksHeld, Creators, FoundOwn,
       HeldIsFree, Rows, AccountHasOneLogin, HomeIsOwn

(* Every action is one of the steps above.                                 *)
LEMMA StepInvariant == IInv /\ [Next]_vars => IInv'
<1> SUFFICES ASSUME IInv, [Next]_vars
             PROVE  IInv'
  OBVIOUS
<1> USE AccountsAssumption
<1>1. ASSUME NEW h \in Handlers, StartRegister(h) \/ StartCallback(h)
      PROVE  IInv'
  <2>1. CASE StartRegister(h)
    <3>1. PICK e \in Emails : Start(h, [NoInfo EXCEPT !.email = e], "insertUser")
      BY <2>1 DEF StartRegister
    <3>2. /\ [NoInfo EXCEPT !.email = e] \in Info
          /\ [NoInfo EXCEPT !.email = e].email = e
          /\ [NoInfo EXCEPT !.email = e].op = "Register"
      BY DEF NoInfo, Info
    <3> QED
      BY <3>1, <3>2, StartStep
  <2>2. CASE StartCallback(h)
    <3>1. PICK s \in Subjects, e \in Emails :
            Start(h, [op |-> "Callback", sub |-> s, email |-> e], "findIdentity")
      BY <2>2 DEF StartCallback
    <3>2. [op |-> "Callback", sub |-> s, email |-> e] \in Info
      BY DEF Info
    <3> QED
      BY <3>1, <3>2, StartStep
  <2> QED
    BY <1>1, <2>1, <2>2
<1>2. ASSUME NEW h \in Handlers, FindIdentity(h)
      PROVE  IInv'
  BY <1>2, FindIdentityStep
<1>3. ASSUME NEW h \in Handlers, FindByID(h) \/ FindByEmail(h) \/ UpdateEmail(h)
      PROVE  IInv'
  BY <1>3, ReadStep, ReturnStep DEF FindByID, FindByEmail, UpdateEmail, InTx
<1>4. ASSUME NEW h \in Handlers, UpdateUser(h)
      PROVE  IInv'
  BY <1>4, RenameStep, ReturnStep DEF UpdateUser, InTx
<1>5. ASSUME NEW h \in Handlers, InsertUser(h)
      PROVE  IInv'
  <2>1. info[h].op = "Register" \/ info[h].op = "Callback"
    BY DEF IInv, TypeOK, Info
  <2> QED
    BY <1>5, <2>1, InsertUserStep, ReturnStep DEF InsertUser, InTx
<1>6. ASSUME NEW h \in Handlers, InsertIdentity(h)
      PROVE  IInv'
  BY <1>6, InsertIdentityStep, ReturnStep DEF InsertIdentity, InTx
<1>7. ASSUME NEW h \in Handlers, Commit(h) \/ CommitUnacknowledged(h)
      PROVE  IInv'
  <2>1. err' \in [Handlers -> {"nil", "ErrEmailAlreadyExist", "ErrDatabase"}]
    BY <1>7 DEF Commit, CommitUnacknowledged, IInv, TypeOK
  <2> QED
    BY <1>7, <2>1, PublishStep DEF Commit, CommitUnacknowledged
<1>8. ASSUME NEW h \in Handlers, Fail(h)
      PROVE  IInv'
  BY <1>8, ReturnStep DEF Fail
<1>9. ASSUME NEW h \in Handlers, Answer(h)
      PROVE  IInv'
  BY <1>9, AnswerStep
<1>10. CASE UNCHANGED vars
  BY <1>10, StutterStep
<1> QED
  BY <1>1, <1>2, <1>3, <1>4, <1>5, <1>6, <1>7, <1>8, <1>9, <1>10 DEF Next

(* The invariant holds in every reachable state.                           *)
THEOREM AccountsInvariance == Spec => []IInv
<1>1. Init => IInv
  BY InitInvariant
<1>2. IInv /\ [Next]_vars => IInv'
  BY StepInvariant
<1> QED
  BY <1>1, <1>2, PTL DEF Spec

(* Every variable keeps its type.                                          *)
THEOREM TypeCorrect == Spec => []TypeOK
<1>1. IInv => TypeOK
  BY DEF IInv
<1> QED
  BY <1>1, AccountsInvariance, PTL

(* An account is entered with its password or through its identity, never  *)
(* through neither and never through both.                                 *)
THEOREM OneWayIn == Spec => []AccountHasOneLogin
<1>1. IInv => AccountHasOneLogin
  BY DEF IInv
<1> QED
  BY <1>1, AccountsInvariance, PTL

(* No provider's login is about to end in an account with a password.      *)
THEOREM PasswordAccountsSafe == Spec => []NoTakeover
<1>1. IInv => NoTakeover
  BY AccountsAssumption
     DEF IInv, TypeOK, JobShape, FoundOwn, Rows, AccountHasOneLogin, NoTakeover
<1> QED
  BY <1>1, AccountsInvariance, PTL

(* Where the schema keeps subjects unique, a person lands in the account   *)
(* of the first login.                                                     *)
THEOREM AccountKept ==
  ASSUME SubjectIndex
  PROVE  Spec => SubjectKeepsAccount
<1> DEFINE Kept ==
      \A h \in Handlers :
        Commit(h) /\ info[h].op = "Callback" => home'[info[h].sub] = acct[h]
<1>1. ASSUME IInv, NEW h \in Handlers, Commit(h), info[h].op = "Callback"
      PROVE  home'[info[h].sub] = acct[h]
  <2>1. info[h].sub \in Subjects /\ acct[h] \in Accounts /\ pc[h] = "commit"
    BY <1>1 DEF Commit, IInv, JobShape
  <2>2. CASE home[info[h].sub] = None
    BY <1>1, <2>1, <2>2 DEF Commit, IInv, TypeOK
  <2>3. CASE home[info[h].sub] # None
    <3>1. home' = home
      BY <1>1, <2>3 DEF Commit
    <3>2. /\ home[info[h].sub] \in Accounts
          /\ subjectOf[home[info[h].sub]] = info[h].sub
      BY <2>1, <2>3, <1>1 DEF IInv, TypeOK, HomeIsOwn
    <3>3. email[acct[h]] # None
      BY <1>1, <2>1, <3>2, AccountsAssumption DEF IInv, Creators, HeldIsFree
    <3>4. subjectOf[acct[h]] = info[h].sub
      BY <1>1, <2>1, <3>3 DEF IInv, FoundOwn
    <3> QED
      BY <1>1, <2>1, <3>1, <3>2, <3>4, AccountsAssumption DEF IInv, Rows
  <2> QED
    BY <2>2, <2>3
<1>2. IInv => Kept
  BY <1>1
<1> QED
  BY <1>2, AccountsInvariance, PTL DEF SubjectKeepsAccount

(* A commit is one step of Accounts, or none.                              *)
LEMMA CommitImplements ==
  ASSUME SubjectIndex, IInv, NEW h \in Handlers, Commit(h) \/ CommitUnacknowledged(h)
  PROVE  [Promise!Next]_Promise!vars
<1> DEFINE a == acct[h]
           e == info[h].email
           s == info[h].sub
<1> USE AccountsAssumption DEF IInv
<1>1. /\ TypeOK /\ pc[h] = "commit" /\ Publish(h)
      /\ a \in Accounts /\ e \in Emails
      /\ info[h].op \in {"Register", "Callback"}
      /\ info[h].op = "Callback" => s \in Subjects
  BY DEF Commit, CommitUnacknowledged, TypeOK, Info, JobShape, InTx
<1>2. CASE Creates(h)
  <2> DEFINE how == IF info[h].op = "Register" THEN "password" ELSE s
  <2>1. email[a] = None /\ claim[e] = h
    BY <1>1, <1>2 DEF Creates, Creators
  <2>2. Promise!Free(e)
    BY <1>1, <2>1 DEF HeldIsFree, Promise!Free
  <2>3. a \notin local /\ subjectOf[a] = None
    BY <1>1, <2>1 DEF Rows
  <2>4. how \in Subjects \cup {"password"}
    BY <1>1
  <2>5. ASSUME how \in Subjects, NEW b \in Accounts
        PROVE  Entry[b] # how
    <3>1. info[h].op = "Callback" /\ how = s
      BY <1>1, <2>5
    <3>2. subClaim[s] = h
      BY <1>1, <2>1, <3>1 DEF Creators
    <3>3. subjectOf[b] # s
      BY <1>1, <2>5, <3>1, <3>2 DEF HeldIsFree
    <3> QED
      BY <2>5, <3>1, <3>3 DEF Entry
  <2>6. email' = [email EXCEPT ![a] = e]
    BY <1>1, <1>2 DEF Publish
  <2>7. Entry' = [Entry EXCEPT ![a] = how]
    BY <1>1, <1>2, <2>3 DEF Publish, WithIdentity, Entry, TypeOK
  <2>8. Promise!Open(a, e, how)
    BY <2>1, <2>2, <2>5, <2>6, <2>7 DEF Promise!Open
  <2> QED
    BY <1>1, <2>4, <2>8 DEF Promise!Next
<1>3. CASE ~Creates(h)
  <2>1. email[a] # None /\ subjectOf[a] = s /\ s \in Subjects /\ a \notin local
    BY <1>1, <1>3 DEF Creates, FoundOwn, AccountHasOneLogin
  <2>2. local' = local /\ subjectOf' = subjectOf
    BY <1>1, <1>3 DEF Publish, WithIdentity
  <2>3. Entry' = Entry
    BY <2>2 DEF Entry
  <2>4. CASE Renames(h) /\ email[a] # e
    <3>1. claim[e] = h
      BY <1>1, <2>4 DEF Renames, LocksHeld
    <3>2. Promise!Free(e)
      BY <1>1, <2>4, <3>1 DEF HeldIsFree, Promise!Free
    <3>3. Entry[a] \in Subjects
      BY <1>1, <2>1 DEF Entry
    <3>4. email' = [email EXCEPT ![a] = e]
      BY <1>1, <2>4 DEF Publish
    <3>5. Promise!Readdress(a, e)
      BY <2>3, <3>2, <3>3, <3>4 DEF Promise!Readdress
    <3> QED
      BY <1>1, <3>5 DEF Promise!Next
  <2>5. CASE ~Renames(h) \/ email[a] = e
    <3>1. email' = email
      BY <1>1, <1>3, <2>5 DEF Publish, TypeOK
    <3> QED
      BY <2>3, <3>1 DEF Promise!vars
  <2> QED
    BY <2>4, <2>5
<1> QED
  BY <1>2, <1>3

(* The other actions leave the tables alone.                               *)
LEMMA QuietSteps ==
  ASSUME [Next]_vars, \A h \in Handlers : ~Commit(h) /\ ~CommitUnacknowledged(h)
  PROVE  UNCHANGED tables
BY DEF Next, vars, tables, StartRegister, StartCallback, Start, FindIdentity, FindByID,
       FindByEmail, UpdateEmail, UpdateUser, InsertUser, InsertIdentity, Fail, Answer,
       Move, Return

(* Where the schema keeps subjects unique, requests that interleave, fail  *)
(* or lose their acknowledgement change the tables as if each were one     *)
(* step: no address and no person gets a second account, and no account    *)
(* loses its way in.                                                       *)
THEOREM AccountsImplemented ==
  ASSUME SubjectIndex
  PROVE  Spec => ImplementsAccounts
<1>1. Init => Promise!Init
  BY DEF Init, Promise!Init, Entry
<1>2. ASSUME IInv, [Next]_vars
      PROVE  [Promise!Next]_Promise!vars
  <2>1. CASE \E h \in Handlers : Commit(h) \/ CommitUnacknowledged(h)
    BY <1>2, <2>1, CommitImplements
  <2>2. CASE \A h \in Handlers : ~Commit(h) /\ ~CommitUnacknowledged(h)
    BY <1>2, <2>2, QuietSteps DEF Promise!vars, tables, Entry
  <2> QED
    BY <2>1, <2>2
<1> QED
  BY <1>1, <1>2, AccountsInvariance, PTL DEF Spec, ImplementsAccounts, Promise!Spec

=============================================================================
