------------------------- MODULE EmailVerification -------------------------
(***************************************************************************)
(* Registration, verification codes and their resending.  Register, Verify *)
(* and handleResend run as transactions, one SQL statement per step, over  *)
(* auth_service.users and auth_service.email_verification_tokens; Register *)
(* and handleResend send a mail after the commit, from a goroutine.        *)
(*                                                                         *)
(* Tables hold what is committed; fresh, doomed and claim are a handler's  *)
(* uncommitted writes.  An account is named by its e-mail address.         *)
(***************************************************************************)
EXTENDS FiniteSets, Naturals, InputRules

CONSTANTS Users,       \* accounts with a password
          Codes,       \* verification codes (32 random bytes: never repeated)
          Handlers,    \* handler goroutines, over all replicas
          MaxExpired,  \* bound: codes that outlive their expiry
          None         \* SQL NULL / Go nil

ASSUME HandlersAssumption ==
  /\ MaxExpired \in Nat
  /\ None \notin Users \cup Codes \cup Handlers

VARIABLES
  \* the database
  account,    \* users: "absent", "unverified" or "verified"
  code,       \* email_verification_tokens: "unused", "live" or "gone"
  codeOf,     \* email_verification_tokens.user_id
  expired,    \* codes whose expires_at, and the 15 minutes of the mail, passed
  claim,      \* who has an uncommitted INSERT of an account
  userLock,   \* who holds the row lock of an account
  codeLock,   \* who holds the row lock of a code
  \* the handlers
  pc,         \* next statement
  job,        \* what was asked: handler, account, code
  todo,       \* rows the running DELETE has yet to visit
  snapshot,   \* rows that DELETE saw when it started
  doomed,     \* uncommitted DELETEs
  fresh,      \* uncommitted INSERT, later the code to mail
  \* the world
  mailed,     \* codes handed to the mail service
  redeemed    \* history: how often a code has verified its account

tables == <<account, code, codeOf, expired, redeemed>>
locks == <<claim, userLock, codeLock>>
vars == <<tables, locks, pc, job, todo, snapshot, doomed, fresh, mailed>>

-----------------------------------------------------------------------------
NoJob == [op |-> "Register", who |-> None, code |-> None]

Job == [op : {"Register", "Verify", "Resend"}, who : Users \cup {None},
        code : Codes \cup {None}]

InTx == {"insertUser", "findToken", "deleteToken", "updateUser", "findUser",
         "deleteByUser", "deleting", "insertCode", "commit"}

Move(h, to) ==
  /\ pc' = [pc EXCEPT ![h] = to]
  /\ UNCHANGED <<tables, job, mailed>>

(* The transaction ends and its row locks are released.                    *)
Unlock(h) ==
  /\ claim' = [u \in Users |-> IF claim[u] = h THEN None ELSE claim[u]]
  /\ userLock' = [u \in Users |-> IF userLock[u] = h THEN None ELSE userLock[u]]
  /\ codeLock' = [c \in Codes |-> IF codeLock[c] = h THEN None ELSE codeLock[c]]

(* The handler is done and forgets its locals.                             *)
Forget(h) ==
  /\ pc' = [pc EXCEPT ![h] = "idle"]
  /\ job' = [job EXCEPT ![h] = NoJob]
  /\ todo' = [todo EXCEPT ![h] = {}]
  /\ snapshot' = [snapshot EXCEPT ![h] = {}]
  /\ doomed' = [doomed EXCEPT ![h] = {}]
  /\ fresh' = [fresh EXCEPT ![h] = None]

(* An early return: RollbackUnlessCommitted, then an answer or a log line. *)
Return(h) ==
  /\ Unlock(h)
  /\ Forget(h)
  /\ UNCHANGED <<tables, mailed>>

-----------------------------------------------------------------------------
Start(h, j, entry) ==
  /\ pc[h] = "idle"
  /\ job' = [job EXCEPT ![h] = j]
  /\ pc' = [pc EXCEPT ![h] = entry]
  /\ UNCHANGED <<tables, locks, todo, snapshot, doomed, fresh, mailed>>

(* Register, with a name and a password that InputRules accepts.           *)
StartRegister(h) == \E u \in Users : Start(h, [NoJob EXCEPT !.who = u], "insertUser")

(* A code is known to whoever was mailed it.                               *)
StartVerify(h) ==
  \E c \in mailed : Start(h, [NoJob EXCEPT !.op = "Verify", !.code = c], "findToken")

StartResend(h) ==
  \E u \in Users : Start(h, [NoJob EXCEPT !.op = "Resend", !.who = u], "findUser")

(* userService.Create: the unique index on email makes the INSERT fail, or *)
(* wait for the transaction that is inserting the same address.            *)
InsertUser(h) ==
  LET u == job[h].who IN
  \/ /\ pc[h] = "insertUser"
     /\ account[u] # "absent"
     /\ Return(h)
  \/ /\ pc[h] = "insertUser"
     /\ account[u] = "absent"
     /\ claim[u] = None
     /\ claim' = [claim EXCEPT ![u] = h]
     /\ Move(h, "insertCode")
     /\ UNCHANGED <<userLock, codeLock, todo, snapshot, doomed, fresh>>

(* Mutant of FindToken: GetByTokenHash without FOR UPDATE.                 *)
FindTokenUnlocked(h) ==
  /\ pc[h] = "findToken"
  /\ code[job[h].code] = "live"
  /\ Move(h, "deleteToken")
  /\ UNCHANGED <<locks, todo, snapshot, doomed, fresh>>

(* VerifyUser: FindToken selects the row FOR UPDATE; ExpiresAt is read     *)
(* into the model and not looked at.                                       *)
FindToken(h) ==
  LET c == job[h].code IN
  \/ /\ pc[h] = "findToken"
     /\ code[c] # "live"
     /\ Return(h)
  \/ /\ pc[h] = "findToken"
     /\ code[c] = "live"
     /\ codeLock[c] = None
     /\ codeLock' = [codeLock EXCEPT ![c] = h]
     /\ Move(h, "deleteToken")
     /\ UNCHANGED <<claim, userLock, todo, snapshot, doomed, fresh>>

(* Mutant of DeleteToken: the code is left in the table.                   *)
DeleteTokenSkipped(h) ==
  /\ pc[h] = "deleteToken"
  /\ Move(h, "updateUser")
  /\ UNCHANGED <<locks, todo, snapshot, doomed, fresh>>

(* VerifyUser: DELETE ... WHERE id; the rows affected are not counted.     *)
DeleteToken(h) ==
  LET c == job[h].code IN
  /\ pc[h] = "deleteToken"
  /\ codeLock[c] \in {None, h}
  /\ codeLock' = [codeLock EXCEPT ![c] = h]
  /\ doomed' = [doomed EXCEPT ![h] = {c}]
  /\ Move(h, "updateUser")
  /\ UNCHANGED <<claim, userLock, todo, snapshot, fresh>>

(* VerifyUser: UPDATE users SET email_verified.                            *)
UpdateUser(h) ==
  LET u == codeOf[job[h].code] IN
  /\ pc[h] = "updateUser"
  /\ userLock[u] \in {None, h}
  /\ userLock' = [userLock EXCEPT ![u] = h]
  /\ Move(h, "commit")
  /\ UNCHANGED <<claim, codeLock, todo, snapshot, doomed, fresh>>

(* Mutant of FindUser: the account is read FOR UPDATE.                     *)
FindUserForUpdate(h) ==
  LET u == job[h].who IN
  /\ pc[h] = "findUser"
  /\ account[u] = "unverified"
  /\ userLock[u] = None
  /\ userLock' = [userLock EXCEPT ![u] = h]
  /\ Move(h, "deleteByUser")
  /\ UNCHANGED <<claim, codeLock, todo, snapshot, doomed, fresh>>

(* handleResend: nothing happens for an unknown or a verified address.     *)
FindUser(h) ==
  LET u == job[h].who IN
  \/ /\ pc[h] = "findUser"
     /\ account[u] # "unverified"
     /\ Return(h)
  \/ /\ pc[h] = "findUser"
     /\ account[u] = "unverified"
     /\ Move(h, "deleteByUser")
     /\ UNCHANGED <<locks, todo, snapshot, doomed, fresh>>

(* Mutant of DeleteByUserID: the DELETE is given another key.              *)
DeleteByUserIDMatchesNothing(h) ==
  /\ pc[h] = "deleteByUser"
  /\ snapshot' = [snapshot EXCEPT ![h] = {c \in Codes : code[c] = "live" /\ codeOf[c] = job[h].who}]
  /\ Move(h, "deleting")
  /\ UNCHANGED <<locks, todo, doomed, fresh>>

(* DELETE ... WHERE user_id: it works on the rows committed when it starts.*)
DeleteByUserID(h) ==
  /\ pc[h] = "deleteByUser"
  /\ LET rows == {c \in Codes : code[c] = "live" /\ codeOf[c] = job[h].who}
     IN  /\ todo' = [todo EXCEPT ![h] = rows]
         /\ snapshot' = [snapshot EXCEPT ![h] = rows]
  /\ Move(h, "deleting")
  /\ UNCHANGED <<locks, doomed, fresh>>

(* Mutant of DeleteRow: the DELETE runs outside the transaction.           *)
DeleteRowAtOnce(h) ==
  /\ pc[h] = "deleting"
  /\ \E c \in todo[h] :
       /\ todo' = [todo EXCEPT ![h] = @ \ {c}]
       /\ code' = [code EXCEPT ![c] = "gone"]
  /\ UNCHANGED <<account, codeOf, expired, redeemed, locks, pc, job, snapshot, doomed,
                 fresh, mailed>>

(* ... one row after the other, in no order the query fixes, waiting for   *)
(* the lock of each and passing over rows that are gone by then.           *)
DeleteRow(h) ==
  \E c \in todo[h] :
    /\ pc[h] = "deleting"
    /\ codeLock[c] = None
    /\ todo' = [todo EXCEPT ![h] = @ \ {c}]
    /\ IF code[c] = "live"
       THEN /\ codeLock' = [codeLock EXCEPT ![c] = h]
            /\ doomed' = [doomed EXCEPT ![h] = @ \cup {c}]
       ELSE UNCHANGED <<codeLock, doomed>>
    /\ UNCHANGED <<tables, claim, userLock, pc, job, snapshot, fresh, mailed>>

(* email_verification_tokens.service.Create, for Register and Resend.      *)
InsertCode(h) ==
  /\ \/ pc[h] = "insertCode"
     \/ pc[h] = "deleting" /\ todo[h] = {}
  /\ \E n \in Codes :
       /\ code[n] = "unused"
       /\ \A g \in Handlers : fresh[g] # n
       /\ fresh' = [fresh EXCEPT ![h] = n]
  /\ Move(h, "commit")
  /\ UNCHANGED <<locks, todo, snapshot, doomed>>

(* Mutant of Recipient: Create's two string arguments are swapped.         *)
RecipientSwapped(h) == fresh[h]

(* The account a new code is stored for.                                   *)
Recipient(h) == job[h].who

(* All writes of the transaction become visible.                           *)
Publish(h) ==
  /\ code' = [c \in Codes |-> CASE c = fresh[h] -> "live"
                                [] c \in doomed[h] -> "gone"
                                [] OTHER -> code[c]]
  /\ codeOf' = [c \in Codes |-> IF c = fresh[h] THEN Recipient(h) ELSE codeOf[c]]
  /\ account' = [u \in Users |->
                   CASE job[h].op = "Register" /\ u = job[h].who -> "unverified"
                     [] job[h].op = "Verify" /\ u = codeOf[job[h].code] -> "verified"
                     [] OTHER -> account[u]]
  /\ redeemed' = [c \in Codes |->
                    IF job[h].op = "Verify" /\ c = job[h].code THEN redeemed[c] + 1
                    ELSE redeemed[c]]
  /\ Unlock(h)
  /\ UNCHANGED <<expired, mailed>>

(* tx.Commit; Register and Resend go on to send the code.                  *)
Commit(h) ==
  \/ /\ pc[h] = "commit"
     /\ job[h].op = "Verify"
     /\ Publish(h)
     /\ Forget(h)
  \/ /\ pc[h] = "commit"
     /\ job[h].op # "Verify"
     /\ Publish(h)
     /\ pc' = [pc EXCEPT ![h] = "send"]
     /\ UNCHANGED <<job, todo, snapshot, doomed, fresh>>

(* The COMMIT took effect, its acknowledgement was lost, no mail is sent.  *)
CommitUnacknowledged(h) ==
  /\ pc[h] = "commit"
  /\ Publish(h)
  /\ Forget(h)

(* Mutant of Fail: the error of tx.Commit is ignored.                      *)
FailIgnoresCommit(h) ==
  /\ pc[h] = "commit"
  /\ job[h].op # "Verify"
  /\ Unlock(h)
  /\ pc' = [pc EXCEPT ![h] = "send"]
  /\ UNCHANGED <<tables, job, todo, snapshot, doomed, fresh, mailed>>

(* Any statement fails (or bcrypt, before the INSERT of an account), its   *)
(* context ends (two seconds, thirty for Resend), the database breaks a    *)
(* deadlock, or the replica stops: a rollback.                             *)
Fail(h) ==
  /\ pc[h] \in InTx
  /\ Return(h)

(* SendVerificationEmail: the mail service takes the mail.                 *)
Send(h) ==
  /\ pc[h] = "send"
  /\ mailed' = mailed \cup {fresh[h]}
  /\ Forget(h)
  /\ UNCHANGED <<tables, locks>>

(* The mail service refuses or times out, or the replica stops: the error  *)
(* is logged and nobody tries again.                                       *)
SendFails(h) ==
  /\ pc[h] = "send"
  /\ Forget(h)
  /\ UNCHANGED <<tables, locks, mailed>>

(* A code outlives the 15 minutes its mail speaks of.                      *)
Expire(c) ==
  /\ code[c] = "live"
  /\ c \notin expired
  /\ Cardinality(expired) < MaxExpired
  /\ expired' = expired \cup {c}
  /\ UNCHANGED <<account, code, codeOf, redeemed, locks, pc, job, todo, snapshot, doomed,
                 fresh, mailed>>

Init ==
  /\ account = [u \in Users |-> "absent"]
  /\ code = [c \in Codes |-> "unused"]
  /\ codeOf = [c \in Codes |-> None]
  /\ expired = {}
  /\ claim = [u \in Users |-> None]
  /\ userLock = [u \in Users |-> None]
  /\ codeLock = [c \in Codes |-> None]
  /\ pc = [h \in Handlers |-> "idle"]
  /\ job = [h \in Handlers |-> NoJob]
  /\ todo = [h \in Handlers |-> {}]
  /\ snapshot = [h \in Handlers |-> {}]
  /\ doomed = [h \in Handlers |-> {}]
  /\ fresh = [h \in Handlers |-> None]
  /\ mailed = {}
  /\ redeemed = [c \in Codes |-> 0]

Handler(h) ==
  \/ InsertUser(h)
  \/ FindToken(h)
  \/ DeleteToken(h)
  \/ UpdateUser(h)
  \/ FindUser(h)
  \/ DeleteByUserID(h)
  \/ DeleteRow(h)
  \/ InsertCode(h)
  \/ Commit(h)
  \/ CommitUnacknowledged(h)
  \/ Fail(h)
  \/ Send(h)
  \/ SendFails(h)

Next ==
  \/ \E h \in Handlers : StartRegister(h)
  \/ \E h \in Handlers : StartVerify(h)
  \/ \E h \in Handlers : StartResend(h)
  \/ \E h \in Handlers : Handler(h)
  \/ \E c \in Codes : Expire(c)

Spec == Init /\ [][Next]_vars

-----------------------------------------------------------------------------
TypeOK ==
  /\ account \in [Users -> {"absent", "unverified", "verified"}]
  /\ code \in [Codes -> {"unused", "live", "gone"}]
  /\ codeOf \in [Codes -> Users \cup {None}]
  /\ expired \subseteq Codes
  /\ claim \in [Users -> Handlers \cup {None}]
  /\ userLock \in [Users -> Handlers \cup {None}]
  /\ codeLock \in [Codes -> Handlers \cup {None}]
  /\ pc \in [Handlers -> InTx \cup {"idle", "send"}]
  /\ job \in [Handlers -> Job]
  /\ todo \in [Handlers -> SUBSET Codes]
  /\ snapshot \in [Handlers -> SUBSET Codes]
  /\ doomed \in [Handlers -> SUBSET Codes]
  /\ fresh \in [Handlers -> Codes \cup {None}]
  /\ mailed \subseteq Codes
  /\ redeemed \in [Codes -> Nat]

(* A code verifies its account once, however many requests present it at   *)
(* the same time: FindToken's FOR UPDATE is all that stands in the way,    *)
(* since Delete does not look at the number of rows it deleted.            *)
CodeRedeemedOnce == \A c \in Codes : redeemed[c] <= 1

(* An account that waits for its verification always has a code in the     *)
(* table: Resend deletes and inserts in one transaction, and two of them   *)
(* at once never delete what the other inserts.                            *)
UnverifiedHasCode ==
  \A u \in Users :
    account[u] = "unverified" => \E c \in Codes : code[c] = "live" /\ codeOf[c] = u

(* No mail carries a code the database never had: Register and Resend send *)
(* only after the commit returned without an error.                        *)
MailedCodeWasCommitted == \A c \in mailed : code[c] # "unused"

(* An account becomes verified only in the step in which a code of its own *)
(* is used up.                                                             *)
VerifiedConsumesCode ==
  [][\A u \in Users :
       account[u] # "verified" /\ account'[u] = "verified" =>
         \E c \in Codes : codeOf[c] = u /\ code[c] = "live" /\ code'[c] = "gone"]_vars

(* Where a symbol is a byte, Register does what its messages say, but for  *)
(* a password beyond bcrypt's limit: one it calls valid and fails on.      *)
NarrowInputAsPromised ==
  Init =>
    \A name \in {n \in Texts(MaxNameLength + 1) : Narrow(n)},
       p \in {q \in Texts(MaxText) : Narrow(q)} \cup {Nil} :
         LET status == Register(name, p) IN
         /\ status = "StatusBadRequest" <=> ~(PromisedName(name) /\ PromisedPassword(p))
         /\ status = "StatusInternalServerError" => Len(p) > MaximumHashedLength

(* Where symbols are wider, Register strays from its messages only where   *)
(* it takes bytes for symbols: what passes and is not promised is too      *)
(* short a password, with a quarter of the symbols at least; a password or *)
(* a name that is promised is refused only for its bytes.                  *)
WideInputOffByBytes ==
  Init =>
    /\ \A name \in Texts(MaxNameLength + 1) :
         /\ ValidName(name) => PromisedName(name)
         /\ PromisedName(name) /\ ~ValidName(name) => Bytes(name) > MaxNameLength
    /\ \A p \in Texts(MaxText) :
         /\ ValidatePassword(p) /\ ~PromisedPassword(p) =>
              Len(p) < MinimumPasswordLength /\ MinimumPasswordLength <= UTFMax * Len(p)
         /\ PromisedPassword(p) /\ ~ValidatePassword(p) => Bytes(p) > MaximumPasswordLength

Promise == INSTANCE Verification WITH
  status <- account,
  owner <- codeOf

(* Whatever runs at the same time, fails or loses its acknowledgement:     *)
(* accounts and codes change as if each request were one step, so no       *)
(* account is stored without a code, no code is taken away without another *)
(* being given, and a code that was replaced verifies nobody.              *)
ImplementsVerification == Promise!Spec

(* When a resent code is about to be mailed, every code its DELETE saw is  *)
(* dead, also those that a verification or another resend was just using.  *)
SupersededCodeIsDead ==
  \A h \in Handlers : pc[h] = "send" => \A c \in snapshot[h] : code[c] = "gone"

(* h waits for a lock that g holds.                                        *)
WaitsFor(h, g) ==
  /\ h # g
  /\ \/ pc[h] = "insertUser" /\ account[job[h].who] = "absent" /\ claim[job[h].who] = g
     \/ pc[h] \in {"findToken", "deleteToken"} /\ codeLock[job[h].code] = g
     \/ pc[h] = "updateUser" /\ userLock[codeOf[job[h].code]] = g
     \/ pc[h] = "findUser" /\ userLock[job[h].who] = g
     \/ /\ pc[h] = "deleting"
        /\ \A c \in todo[h] : codeLock[c] # None
        /\ \E c \in todo[h] : codeLock[c] = g

(* No verification is ever part of a deadlock, a ring of handlers each of  *)
(* which waits for the next: it locks its code and then its account, and a *)
(* resend locks codes alone.                                               *)
VerifyDeadlockFree ==
  \A n \in 1 .. Cardinality(Handlers) : \A ring \in [1 .. n -> Handlers] :
    (\A i \in 1 .. n : WaitsFor(ring[i], ring[IF i = n THEN 1 ELSE i + 1])) =>
      \A i \in 1 .. n : job[ring[i]].op # "Verify"

(* email_content_generator.go: "This code will expire in 15 minutes."      *)
ExpiredCodeRefused ==
  [][\A c \in expired : redeemed'[c] = redeemed[c]]_vars

=============================================================================
