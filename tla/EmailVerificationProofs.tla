---------------------- MODULE EmailVerificationProofs ----------------------
(***************************************************************************)
(* Proofs about EmailVerification, for any number of accounts, codes and   *)
(* handlers: an inductive invariant, the safety properties that follow     *)
(* from it, and that every step is a step of Verification or leaves its    *)
(* tables alone.                                                           *)
(***************************************************************************)
EXTENDS EmailVerification, InputRulesProofs, TLAPS

Verifying(h) ==
  \/ pc[h] \in {"findToken", "deleteToken", "updateUser"}
  \/ pc[h] = "commit" /\ job[h].op = "Verify"

Resending(h) ==
  \/ pc[h] \in {"deleteByUser", "deleting"}
  \/ pc[h] = "commit" /\ job[h].op = "Resend"

Registering(h) ==
  \/ pc[h] = "insertCode"
  \/ pc[h] = "commit" /\ job[h].op = "Register"

(* Which handler can be at which statement, and with what.                 *)
JobShape ==
  \A h \in Handlers :
    /\ pc[h] \in {"insertUser", "insertCode"} => job[h].op = "Register"
    /\ pc[h] \in {"findToken", "deleteToken", "updateUser"} => job[h].op = "Verify"
    /\ pc[h] \in {"findUser", "deleteByUser", "deleting"} => job[h].op = "Resend"
    /\ pc[h] = "send" => job[h].op # "Verify"
    /\ pc[h] \in InTx /\ job[h].op = "Verify" => job[h].code \in Codes
    /\ pc[h] # "idle" /\ job[h].op # "Verify" => job[h].who \in Users
    /\ fresh[h] # None <=> pc[h] \in {"commit", "send"} /\ job[h].op # "Verify"
    /\ doomed[h] # {} => pc[h] \in {"updateUser", "deleting", "commit", "send"}
    /\ doomed[h] # {} => job[h].op # "Register"
    /\ pc[h] = "updateUser" \/ (pc[h] = "commit" /\ job[h].op = "Verify")
         => doomed[h] = {job[h].code}

(* Until its transaction ends a handler holds the locks of what it wrote   *)
(* and of the code it verifies.                                            *)
LocksHeld ==
  \A h \in Handlers :
    /\ pc[h] \in InTx => \A c \in doomed[h] : codeLock[c] = h
    /\ Verifying(h) /\ pc[h] # "findToken" => codeLock[job[h].code] = h
    /\ Registering(h) => claim[job[h].who] = h

(* What is locked is as it was when it was locked.                         *)
LockedRows ==
  /\ \A c \in Codes : codeLock[c] # None => code[c] = "live"
  /\ \A u \in Users : claim[u] # None => account[u] = "absent"

(* Codes are of accounts that exist; a resend works on those of its own.   *)
Rows ==
  /\ \A c \in Codes :
       code[c] # "unused" => codeOf[c] \in Users /\ account[codeOf[c]] # "absent"
  /\ \A h \in Handlers :
       /\ Verifying(h) => code[job[h].code] # "unused"
       /\ Resending(h) => account[job[h].who] # "absent"
       /\ Resending(h) => \A c \in doomed[h] : codeOf[c] = job[h].who
       /\ pc[h] = "deleting" =>
            \A c \in todo[h] : code[c] # "unused" /\ codeOf[c] = job[h].who

(* The code a handler is about to store is nobody else's.                  *)
FreshCodes ==
  \A h \in Handlers :
    /\ pc[h] = "commit" /\ fresh[h] # None => code[fresh[h]] = "unused"
    /\ pc[h] = "send" => code[fresh[h]] # "unused"
    /\ fresh[h] # None => \A g \in Handlers : fresh[g] = fresh[h] => g = h

(* A code that is still there has verified nobody.                         *)
Redemption ==
  /\ CodeRedeemedOnce
  /\ \A c \in Codes : code[c] # "gone" => redeemed[c] = 0

IInv ==
  /\ TypeOK
  /\ JobShape
  /\ LocksHeld
  /\ LockedRows
  /\ Rows
  /\ FreshCodes
  /\ Redemption
  /\ UnverifiedHasCode
  /\ MailedCodeWasCommitted

(* A request arrives.                                                      *)
LEMMA StartStep ==
  ASSUME IInv, NEW h \in Handlers,
         NEW j \in Job,
         NEW entry \in {"insertUser", "findToken", "findUser"},
         Start(h, j, entry),
         entry = "insertUser" => j.op = "Register" /\ j.who \in Users,
         entry = "findToken" => j.op = "Verify" /\ j.code \in mailed,
         entry = "findUser" => j.op = "Resend" /\ j.who \in Users
  PROVE  IInv'
<1> USE HandlersAssumption DEF IInv, tables, locks, Start
<1>1. TypeOK'
  BY DEF TypeOK, Job, NoJob, InTx
<1>2. JobShape'
  BY DEF TypeOK, JobShape, Job, NoJob, InTx
<1>3. LocksHeld'
  BY DEF TypeOK, LocksHeld, JobShape, Verifying, Registering, InTx, NoJob
<1>4. LockedRows'
  BY DEF TypeOK, LockedRows
<1>5. Rows'
  BY DEF TypeOK, Rows, JobShape, LocksHeld, LockedRows, Verifying, Resending, InTx,
         NoJob, MailedCodeWasCommitted
<1>6. FreshCodes'
  BY DEF TypeOK, FreshCodes, JobShape, InTx, NoJob
<1>7. Redemption'
  BY DEF TypeOK, Redemption, CodeRedeemedOnce
<1>8. UnverifiedHasCode'
  BY DEF TypeOK, UnverifiedHasCode
<1>9. MailedCodeWasCommitted'
  BY DEF TypeOK, MailedCodeWasCommitted, FreshCodes
<1> QED
  BY <1>1, <1>2, <1>3, <1>4, <1>5, <1>6, <1>7, <1>8, <1>9

(* A rollback, for whatever reason.                                        *)
LEMMA ReturnStep ==
  ASSUME IInv, NEW h \in Handlers,
         pc[h] \in InTx,
         Return(h)
  PROVE  IInv'
<1> USE HandlersAssumption DEF IInv, tables, locks, Return, Unlock, Forget
<1>1. TypeOK'
  BY DEF TypeOK, Job, NoJob, InTx
<1>2. JobShape'
  BY DEF TypeOK, JobShape, Job, NoJob, InTx
<1>3. LocksHeld'
  BY DEF TypeOK, LocksHeld, JobShape, Verifying, Registering, InTx, NoJob
<1>4. LockedRows'
  BY DEF TypeOK, LockedRows
<1>5. Rows'
  BY DEF TypeOK, Rows, JobShape, LocksHeld, LockedRows, Verifying, Resending, InTx,
         NoJob, MailedCodeWasCommitted
<1>6. FreshCodes'
  BY DEF TypeOK, FreshCodes, JobShape, InTx, NoJob
<1>7. Redemption'
  BY DEF TypeOK, Redemption, CodeRedeemedOnce
<1>8. UnverifiedHasCode'
  BY DEF TypeOK, UnverifiedHasCode
<1>9. MailedCodeWasCommitted'
  BY DEF TypeOK, MailedCodeWasCommitted, FreshCodes
<1> QED
  BY <1>1, <1>2, <1>3, <1>4, <1>5, <1>6, <1>7, <1>8, <1>9

(* The INSERT of an account.                                               *)
LEMMA InsertUserStep ==
  ASSUME IInv, NEW h \in Handlers,
         pc[h] = "insertUser",
         account[job[h].who] = "absent",
         claim[job[h].who] = None,
         claim' = [claim EXCEPT ![job[h].who] = h],
         Move(h, "insertCode"),
         UNCHANGED <<userLock, codeLock, todo, snapshot, doomed, fresh>>
  PROVE  IInv'
<1> USE HandlersAssumption DEF IInv, tables, locks, Move
<1>1. TypeOK'
  BY DEF TypeOK, Job, NoJob, InTx
<1>2. JobShape'
  BY DEF TypeOK, JobShape, Job, NoJob, InTx
<1>3. LocksHeld'
  BY DEF TypeOK, LocksHeld, JobShape, Verifying, Registering, InTx, NoJob
<1>4. LockedRows'
  BY DEF TypeOK, LockedRows
<1>5. Rows'
  BY DEF TypeOK, Rows, JobShape, LocksHeld, LockedRows, Verifying, Resending, InTx,
         NoJob, MailedCodeWasCommitted
<1>6. FreshCodes'
  BY DEF TypeOK, FreshCodes, JobShape, InTx, NoJob
<1>7. Redemption'
  BY DEF TypeOK, Redemption, CodeRedeemedOnce
<1>8. UnverifiedHasCode'
  BY DEF TypeOK, UnverifiedHasCode
<1>9. MailedCodeWasCommitted'
  BY DEF TypeOK, MailedCodeWasCommitted, FreshCodes
<1> QED
  BY <1>1, <1>2, <1>3, <1>4, <1>5, <1>6, <1>7, <1>8, <1>9

(* The SELECT ... FOR UPDATE of a verification.                            *)
LEMMA FindTokenStep ==
  ASSUME IInv, NEW h \in Handlers,
         pc[h] = "findToken",
         code[job[h].code] = "live",
         codeLock[job[h].code] = None,
         codeLock' = [codeLock EXCEPT ![job[h].code] = h],
         Move(h, "deleteToken"),
         UNCHANGED <<claim, userLock, todo, snapshot, doomed, fresh>>
  PROVE  IInv'
<1> USE HandlersAssumption DEF IInv, tables, locks, Move
<1>1. TypeOK'
  BY DEF TypeOK, Job, NoJob, InTx
<1>2. JobShape'
  BY DEF TypeOK, JobShape, Job, NoJob, InTx
<1>3. LocksHeld'
  BY DEF TypeOK, LocksHeld, JobShape, Verifying, Registering, InTx, NoJob
<1>4. LockedRows'
  BY DEF TypeOK, LockedRows
<1>5. Rows'
  BY DEF TypeOK, Rows, JobShape, LocksHeld, LockedRows, Verifying, Resending, InTx,
         NoJob, MailedCodeWasCommitted
<1>6. FreshCodes'
  BY DEF TypeOK, FreshCodes, JobShape, InTx, NoJob
<1>7. Redemption'
  BY DEF TypeOK, Redemption, CodeRedeemedOnce
<1>8. UnverifiedHasCode'
  BY DEF TypeOK, UnverifiedHasCode
<1>9. MailedCodeWasCommitted'
  BY DEF TypeOK, MailedCodeWasCommitted, FreshCodes
<1> QED
  BY <1>1, <1>2, <1>3, <1>4, <1>5, <1>6, <1>7, <1>8, <1>9

(* The DELETE of a verification.                                           *)
LEMMA DeleteTokenStep ==
  ASSUME IInv, NEW h \in Handlers,
         DeleteToken(h)
  PROVE  IInv'
<1> USE HandlersAssumption DEF IInv, tables, locks, DeleteToken, Move
<1>1. TypeOK'
  BY DEF TypeOK, Job, NoJob, InTx, JobShape
<1>2. JobShape'
  BY DEF TypeOK, JobShape, Job, NoJob, InTx
<1>3. LocksHeld'
  BY DEF TypeOK, LocksHeld, JobShape, Verifying, Registering, InTx, NoJob
<1>4. LockedRows'
  BY DEF TypeOK, LockedRows, LocksHeld, Verifying, JobShape, InTx
<1>5. Rows'
  BY DEF TypeOK, Rows, JobShape, LocksHeld, LockedRows, Verifying, Resending, InTx,
         NoJob, MailedCodeWasCommitted
<1>6. FreshCodes'
  BY DEF TypeOK, FreshCodes, JobShape, InTx, NoJob
<1>7. Redemption'
  BY DEF TypeOK, Redemption, CodeRedeemedOnce
<1>8. UnverifiedHasCode'
  BY DEF TypeOK, UnverifiedHasCode
<1>9. MailedCodeWasCommitted'
  BY DEF TypeOK, MailedCodeWasCommitted, FreshCodes
<1> QED
  BY <1>1, <1>2, <1>3, <1>4, <1>5, <1>6, <1>7, <1>8, <1>9

(* The UPDATE of a verification.                                           *)
LEMMA UpdateUserStep ==
  ASSUME IInv, NEW h \in Handlers,
         UpdateUser(h)
  PROVE  IInv'
<1> USE HandlersAssumption DEF IInv, tables, locks, UpdateUser, Move
<1>1. TypeOK'
  BY DEF TypeOK, Job, NoJob, InTx, JobShape
<1>2. JobShape'
  BY DEF TypeOK, JobShape, Job, NoJob, InTx
<1>3. LocksHeld'
  BY DEF TypeOK, LocksHeld, JobShape, Verifying, Registering, InTx, NoJob
<1>4. LockedRows'
  BY DEF TypeOK, LockedRows
<1>5. Rows'
  BY DEF TypeOK, Rows, JobShape, LocksHeld, LockedRows, Verifying, Resending, InTx,
         NoJob, MailedCodeWasCommitted
<1>6. FreshCodes'
  BY DEF TypeOK, FreshCodes, JobShape, InTx, NoJob
<1>7. Redemption'
  BY DEF TypeOK, Redemption, CodeRedeemedOnce
<1>8. UnverifiedHasCode'
  BY DEF TypeOK, UnverifiedHasCode
<1>9. MailedCodeWasCommitted'
  BY DEF TypeOK, MailedCodeWasCommitted, FreshCodes
<1> QED
  BY <1>1, <1>2, <1>3, <1>4, <1>5, <1>6, <1>7, <1>8, <1>9

(* The SELECT of a resend.                                                 *)
LEMMA FindUserStep ==
  ASSUME IInv, NEW h \in Handlers,
         pc[h] = "findUser",
         account[job[h].who] = "unverified",
         Move(h, "deleteByUser"),
         UNCHANGED <<locks, todo, snapshot, doomed, fresh>>
  PROVE  IInv'
<1> USE HandlersAssumption DEF IInv, tables, locks, Move
<1>1. TypeOK'
  BY DEF TypeOK, Job, NoJob, InTx
<1>2. JobShape'
  BY DEF TypeOK, JobShape, Job, NoJob, InTx
<1>3. LocksHeld'
  BY DEF TypeOK, LocksHeld, JobShape, Verifying, Registering, InTx, NoJob
<1>4. LockedRows'
  BY DEF TypeOK, LockedRows
<1>5. Rows'
  BY DEF TypeOK, Rows, JobShape, LocksHeld, LockedRows, Verifying, Resending, InTx,
         NoJob, MailedCodeWasCommitted
<1>6. FreshCodes'
  BY DEF TypeOK, FreshCodes, JobShape, InTx, NoJob
<1>7. Redemption'
  BY DEF TypeOK, Redemption, CodeRedeemedOnce
<1>8. UnverifiedHasCode'
  BY DEF TypeOK, UnverifiedHasCode
<1>9. MailedCodeWasCommitted'
  BY DEF TypeOK, MailedCodeWasCommitted, FreshCodes
<1> QED
  BY <1>1, <1>2, <1>3, <1>4, <1>5, <1>6, <1>7, <1>8, <1>9

(* The DELETE of a resend starts.                                          *)
LEMMA DeleteByUserStep ==
  ASSUME IInv, NEW h \in Handlers,
         DeleteByUserID(h)
  PROVE  IInv'
<1> USE HandlersAssumption DEF IInv, tables, locks, DeleteByUserID, Move
<1>1. TypeOK'
  BY DEF TypeOK, Job, NoJob, InTx
<1>2. JobShape'
  BY DEF TypeOK, JobShape, Job, NoJob, InTx
<1>3. LocksHeld'
  BY DEF TypeOK, LocksHeld, JobShape, Verifying, Registering, InTx, NoJob
<1>4. LockedRows'
  BY DEF TypeOK, LockedRows
<1>5. Rows'
  BY DEF TypeOK, Rows, JobShape, LocksHeld, LockedRows, Verifying, Resending, InTx,
         NoJob, MailedCodeWasCommitted
<1>6. FreshCodes'
  BY DEF TypeOK, FreshCodes, JobShape, InTx, NoJob
<1>7. Redemption'
  BY DEF TypeOK, Redemption, CodeRedeemedOnce
<1>8. UnverifiedHasCode'
  BY DEF TypeOK, UnverifiedHasCode
<1>9. MailedCodeWasCommitted'
  BY DEF TypeOK, MailedCodeWasCommitted, FreshCodes
<1> QED
  BY <1>1, <1>2, <1>3, <1>4, <1>5, <1>6, <1>7, <1>8, <1>9

(* The DELETE of a resend locks a row.                                     *)
LEMMA TakeRowStep ==
  ASSUME IInv, NEW h \in Handlers,
         NEW c \in todo[h],
         pc[h] = "deleting",
         todo' = [todo EXCEPT ![h] = @ \ {c}],
         UNCHANGED <<tables, claim, userLock, pc, job, snapshot, fresh, mailed>>,
         codeLock[c] = None,
         code[c] = "live",
         codeLock' = [codeLock EXCEPT ![c] = h],
         doomed' = [doomed EXCEPT ![h] = @ \cup {c}]
  PROVE  IInv'
<1> USE HandlersAssumption DEF IInv, tables, locks
<1>1. TypeOK'
  BY DEF TypeOK, Job, NoJob, InTx
<1>2. JobShape'
  BY DEF TypeOK, JobShape, Job, NoJob, InTx
<1>3. LocksHeld'
  BY DEF TypeOK, LocksHeld, JobShape, Verifying, Registering, InTx, NoJob
<1>4. LockedRows'
  BY DEF TypeOK, LockedRows
<1>5. Rows'
  BY DEF TypeOK, Rows, JobShape, LocksHeld, LockedRows, Verifying, Resending, InTx,
         NoJob, MailedCodeWasCommitted
<1>6. FreshCodes'
  BY DEF TypeOK, FreshCodes, JobShape, InTx, NoJob
<1>7. Redemption'
  BY DEF TypeOK, Redemption, CodeRedeemedOnce
<1>8. UnverifiedHasCode'
  BY DEF TypeOK, UnverifiedHasCode
<1>9. MailedCodeWasCommitted'
  BY DEF TypeOK, MailedCodeWasCommitted, FreshCodes
<1> QED
  BY <1>1, <1>2, <1>3, <1>4, <1>5, <1>6, <1>7, <1>8, <1>9

(* The DELETE of a resend passes over a row.                               *)
LEMMA PassRowStep ==
  ASSUME IInv, NEW h \in Handlers,
         NEW c \in todo[h],
         pc[h] = "deleting",
         todo' = [todo EXCEPT ![h] = @ \ {c}],
         UNCHANGED <<tables, claim, userLock, pc, job, snapshot, fresh, mailed>>,
         UNCHANGED <<codeLock, doomed>>
  PROVE  IInv'
<1> USE HandlersAssumption DEF IInv, tables, locks
<1>1. TypeOK'
  BY DEF TypeOK, Job, NoJob, InTx
<1>2. JobShape'
  BY DEF TypeOK, JobShape, Job, NoJob, InTx
<1>3. LocksHeld'
  BY DEF TypeOK, LocksHeld, JobShape, Verifying, Registering, InTx, NoJob
<1>4. LockedRows'
  BY DEF TypeOK, LockedRows
<1>5. Rows'
  BY DEF TypeOK, Rows, JobShape, LocksHeld, LockedRows, Verifying, Resending, InTx,
         NoJob, MailedCodeWasCommitted
<1>6. FreshCodes'
  BY DEF TypeOK, FreshCodes, JobShape, InTx, NoJob
<1>7. Redemption'
  BY DEF TypeOK, Redemption, CodeRedeemedOnce
<1>8. UnverifiedHasCode'
  BY DEF TypeOK, UnverifiedHasCode
<1>9. MailedCodeWasCommitted'
  BY DEF TypeOK, MailedCodeWasCommitted, FreshCodes
<1> QED
  BY <1>1, <1>2, <1>3, <1>4, <1>5, <1>6, <1>7, <1>8, <1>9

(* The INSERT of a code.                                                   *)
LEMMA InsertCodeStep ==
  ASSUME IInv, NEW h \in Handlers,
         InsertCode(h)
  PROVE  IInv'
<1> USE HandlersAssumption DEF IInv, tables, locks, InsertCode, Move
<1>1. TypeOK'
  BY DEF TypeOK, Job, NoJob, InTx
<1>2. JobShape'
  BY DEF TypeOK, JobShape, Job, NoJob, InTx
<1>3. LocksHeld'
  BY DEF TypeOK, LocksHeld, JobShape, Verifying, Registering, InTx, NoJob
<1>4. LockedRows'
  BY DEF TypeOK, LockedRows
<1>5. Rows'
  BY DEF TypeOK, Rows, JobShape, LocksHeld, LockedRows, Verifying, Resending, InTx,
         NoJob, MailedCodeWasCommitted
<1>6. FreshCodes'
  BY DEF TypeOK, FreshCodes, JobShape, InTx, NoJob
<1>7. Redemption'
  BY DEF TypeOK, Redemption, CodeRedeemedOnce
<1>8. UnverifiedHasCode'
  BY DEF TypeOK, UnverifiedHasCode
<1>9. MailedCodeWasCommitted'
  BY DEF TypeOK, MailedCodeWasCommitted, FreshCodes
<1> QED
  BY <1>1, <1>2, <1>3, <1>4, <1>5, <1>6, <1>7, <1>8, <1>9

(* The mail is sent.                                                       *)
LEMMA SendStep ==
  ASSUME IInv, NEW h \in Handlers,
         Send(h)
  PROVE  IInv'
<1> USE HandlersAssumption DEF IInv, tables, locks, Send, Forget
<1>1. TypeOK'
  BY DEF TypeOK, Job, NoJob, InTx, JobShape
<1>2. JobShape'
  BY DEF TypeOK, JobShape, Job, NoJob, InTx
<1>3. LocksHeld'
  BY DEF TypeOK, LocksHeld, JobShape, Verifying, Registering, InTx, NoJob
<1>4. LockedRows'
  BY DEF TypeOK, LockedRows
<1>5. Rows'
  BY DEF TypeOK, Rows, JobShape, LocksHeld, LockedRows, Verifying, Resending, InTx,
         NoJob, MailedCodeWasCommitted
<1>6. FreshCodes'
  BY DEF TypeOK, FreshCodes, JobShape, InTx, NoJob
<1>7. Redemption'
  BY DEF TypeOK, Redemption, CodeRedeemedOnce
<1>8. UnverifiedHasCode'
  BY DEF TypeOK, UnverifiedHasCode
<1>9. MailedCodeWasCommitted'
  BY DEF TypeOK, MailedCodeWasCommitted, FreshCodes, JobShape
<1> QED
  BY <1>1, <1>2, <1>3, <1>4, <1>5, <1>6, <1>7, <1>8, <1>9

(* The mail is not sent.                                                   *)
LEMMA SendFailsStep ==
  ASSUME IInv, NEW h \in Handlers,
         SendFails(h)
  PROVE  IInv'
<1> USE HandlersAssumption DEF IInv, tables, locks, SendFails, Forget
<1>1. TypeOK'
  BY DEF TypeOK, Job, NoJob, InTx
<1>2. JobShape'
  BY DEF TypeOK, JobShape, Job, NoJob, InTx
<1>3. LocksHeld'
  BY DEF TypeOK, LocksHeld, JobShape, Verifying, Registering, InTx, NoJob
<1>4. LockedRows'
  BY DEF TypeOK, LockedRows
<1>5. Rows'
  BY DEF TypeOK, Rows, JobShape, LocksHeld, LockedRows, Verifying, Resending, InTx,
         NoJob, MailedCodeWasCommitted
<1>6. FreshCodes'
  BY DEF TypeOK, FreshCodes, JobShape, InTx, NoJob
<1>7. Redemption'
  BY DEF TypeOK, Redemption, CodeRedeemedOnce
<1>8. UnverifiedHasCode'
  BY DEF TypeOK, UnverifiedHasCode
<1>9. MailedCodeWasCommitted'
  BY DEF TypeOK, MailedCodeWasCommitted, FreshCodes
<1> QED
  BY <1>1, <1>2, <1>3, <1>4, <1>5, <1>6, <1>7, <1>8, <1>9

(* A code expires.                                                         *)
LEMMA ExpireStep ==
  ASSUME IInv, NEW c \in Codes, Expire(c)
  PROVE  IInv'
BY DEF Expire, locks, IInv, TypeOK, JobShape, LocksHeld, LockedRows, Rows, FreshCodes,
       Redemption, CodeRedeemedOnce, UnverifiedHasCode, MailedCodeWasCommitted, Verifying,
       Resending, Registering

(* What a commit does to the tables: a new code with an account of its     *)
(* own, and the end of codes that nobody else has locked.                  *)
Published(h) ==
  /\ TypeOK'
  /\ \A c \in Codes : c # fresh[h] /\ c \notin doomed[h] => code'[c] = code[c]
  /\ \A c \in Codes : c # fresh[h] => codeOf'[c] = codeOf[c]
  /\ \A c \in doomed[h] : codeLock[c] = h /\ code[c] = "live" /\ code'[c] = "gone"
  /\ fresh[h] # None =>
       /\ job[h].op # "Verify"
       /\ code[fresh[h]] = "unused"
       /\ code'[fresh[h]] = "live"
       /\ codeOf'[fresh[h]] = job[h].who
       /\ job[h].who \in Users
       /\ account'[job[h].who] # "absent"
  /\ \A u \in Users : account[u] # "absent" => account'[u] # "absent"
  /\ \A u \in Users : claim[u] \notin {None, h} => account'[u] = account[u]

(* The three ways in which accounts change with it.                        *)
Outcome(h) ==
  \/ /\ job[h].op = "Register"
     /\ doomed[h] = {} /\ fresh[h] \in Codes
     /\ account[job[h].who] = "absent"
     /\ account' = [account EXCEPT ![job[h].who] = "unverified"]
     /\ UNCHANGED redeemed
  \/ /\ job[h].op = "Resend"
     /\ fresh[h] \in Codes
     /\ account[job[h].who] # "absent"
     /\ \A c \in doomed[h] : codeOf[c] = job[h].who
     /\ UNCHANGED <<account, redeemed>>
  \/ /\ job[h].op = "Verify"
     /\ fresh[h] = None
     /\ doomed[h] = {job[h].code} /\ job[h].code \in Codes
     /\ codeOf[job[h].code] \in Users
     /\ account' = [account EXCEPT ![codeOf[job[h].code]] = "verified"]
     /\ redeemed' = [redeemed EXCEPT ![job[h].code] = @ + 1]

(* A commit changes what its handler has locked or claimed.                *)
LEMMA PublishFacts ==
  ASSUME IInv, NEW h \in Handlers, pc[h] = "commit", Publish(h),
         UNCHANGED <<expired, mailed>>, TypeOK'
  PROVE  Published(h) /\ Outcome(h)
<1> USE HandlersAssumption DEF IInv, TypeOK
<1>1. /\ \A c \in doomed[h] : codeLock[c] = h /\ code[c] = "live"
      /\ fresh[h] # None => code[fresh[h]] = "unused" /\ job[h].op # "Verify"
      /\ job[h].op # "Verify" => job[h].who \in Users /\ fresh[h] \in Codes
  BY DEF JobShape, LocksHeld, LockedRows, FreshCodes, InTx
<1>2. CASE job[h].op = "Register"
  <2>1. doomed[h] = {} /\ claim[job[h].who] = h /\ account[job[h].who] = "absent"
    BY <1>1, <1>2 DEF JobShape, LocksHeld, LockedRows, Registering
  <2>2. Outcome(h)
    <3>1. account' = [u \in Users |-> IF u = job[h].who THEN "unverified" ELSE account[u]]
      BY <1>2 DEF Publish
    <3>2. account' = [account EXCEPT ![job[h].who] = "unverified"]
      BY <3>1
    <3>3. redeemed' = redeemed
      BY <1>2 DEF Publish
    <3> QED
      BY <1>1, <1>2, <2>1, <3>2, <3>3 DEF Outcome
  <2>3. Published(h)
    BY <1>1, <1>2, <2>1, <2>2 DEF Published, Publish, Outcome, Recipient
  <2> QED
    BY <2>2, <2>3
<1>3. CASE job[h].op = "Resend"
  <2>1. account[job[h].who] # "absent" /\ \A c \in doomed[h] : codeOf[c] = job[h].who
    BY <1>1, <1>3 DEF Rows, Resending
  <2>2. Outcome(h)
    BY <1>1, <1>3, <2>1 DEF Outcome, Publish
  <2>3. Published(h)
    BY <1>1, <1>3, <2>1, <2>2 DEF Published, Publish, Outcome, Recipient
  <2> QED
    BY <2>2, <2>3
<1>4. CASE job[h].op = "Verify"
  <2>1. /\ fresh[h] = None
        /\ doomed[h] = {job[h].code}
        /\ job[h].code \in Codes
        /\ codeOf[job[h].code] \in Users
        /\ account[codeOf[job[h].code]] # "absent"
    BY <1>4 DEF JobShape, Rows, Verifying, InTx
  <2>2. Outcome(h)
    <3>1. account' = [u \in Users |-> IF u = codeOf[job[h].code] THEN "verified" ELSE account[u]]
      BY <1>4 DEF Publish
    <3>2. account' = [account EXCEPT ![codeOf[job[h].code]] = "verified"]
      BY <3>1
    <3>3. redeemed' = [c \in Codes |->
                         IF c = job[h].code THEN redeemed[c] + 1 ELSE redeemed[c]]
      BY <1>4 DEF Publish
    <3>4. redeemed' = [redeemed EXCEPT ![job[h].code] = @ + 1]
      BY <3>3
    <3> QED
      BY <1>4, <2>1, <3>2, <3>4 DEF Outcome
  <2>3. \A u \in Users : claim[u] # None => account[u] = "absent"
    BY DEF LockedRows
  <2>4. Published(h)
    BY <1>1, <1>4, <2>1, <2>2, <2>3 DEF Published, Publish, Outcome, Recipient
  <2> QED
    BY <2>2, <2>4
<1> QED
  BY <1>2, <1>3, <1>4 DEF Job

(* The parts of the invariant that speak of the tables alone.              *)
LEMMA PublishTables ==
  ASSUME IInv, NEW h \in Handlers, pc[h] = "commit", Published(h), Outcome(h), Unlock(h),
         UNCHANGED mailed
  PROVE  /\ LockedRows' /\ Redemption' /\ UnverifiedHasCode' /\ MailedCodeWasCommitted'
         /\ \A c \in Codes : code'[c] # "unused" =>
              codeOf'[c] \in Users /\ account'[codeOf'[c]] # "absent"
<1> USE HandlersAssumption DEF IInv, TypeOK, Published
<1>1. LockedRows'
  BY DEF LockedRows, Unlock
<1>2. Redemption'
  <2>1. CASE job[h].op = "Verify"
    <3>1. /\ job[h].code \in doomed[h]
          /\ redeemed' = [redeemed EXCEPT ![job[h].code] = @ + 1]
      BY <2>1 DEF Outcome
    <3>2. redeemed[job[h].code] = 0
      BY <3>1 DEF Redemption
    <3> QED
      BY <3>1, <3>2 DEF Redemption, CodeRedeemedOnce
  <2>2. CASE job[h].op # "Verify"
    BY <2>2 DEF Redemption, CodeRedeemedOnce, Outcome
  <2> QED
    BY <2>1, <2>2
<1>3. UnverifiedHasCode'
  <2> SUFFICES ASSUME NEW u \in Users, account'[u] = "unverified"
               PROVE  \E c \in Codes : code'[c] = "live" /\ codeOf'[c] = u
    BY DEF UnverifiedHasCode
  <2>1. CASE fresh[h] # None /\ u = job[h].who
    BY <2>1
  <2>2. CASE fresh[h] = None \/ u # job[h].who
    <3>1. account[u] = "unverified" /\ \A c \in doomed[h] : codeOf[c] # u
      BY <2>2 DEF Outcome
    <3>2. PICK c \in Codes : code[c] = "live" /\ codeOf[c] = u
      BY <3>1 DEF UnverifiedHasCode
    <3> QED
      BY <3>1, <3>2
  <2> QED
    BY <2>1, <2>2
<1>4. MailedCodeWasCommitted'
  BY DEF MailedCodeWasCommitted
<1>5. \A c \in Codes : code'[c] # "unused" =>
        codeOf'[c] \in Users /\ account'[codeOf'[c]] # "absent"
  BY DEF Rows
<1> QED
  BY <1>1, <1>2, <1>3, <1>4, <1>5

(* The parts of the invariant that speak of the handlers, when the next    *)
(* statement and the locals of h are settled.                              *)
LEMMA PublishHandlers ==
  ASSUME IInv, NEW h \in Handlers, pc[h] = "commit", Published(h), Outcome(h), Unlock(h),
         UNCHANGED <<expired, mailed>>,
         \/ Forget(h)
         \/ /\ job[h].op # "Verify"
            /\ pc' = [pc EXCEPT ![h] = "send"]
            /\ UNCHANGED <<job, todo, snapshot, doomed, fresh>>
  PROVE  IInv'
<1> USE HandlersAssumption DEF IInv
<1>1. /\ LockedRows' /\ Redemption' /\ UnverifiedHasCode' /\ MailedCodeWasCommitted'
      /\ \A c \in Codes : code'[c] # "unused" =>
           codeOf'[c] \in Users /\ account'[codeOf'[c]] # "absent"
  BY PublishTables
<1>2. TypeOK'
  BY DEF Published
<1>3. /\ pc'[h] \in {"idle", "send"}
      /\ pc'[h] = "send" => /\ job[h].op # "Verify"
                            /\ job'[h] = job[h]
                            /\ fresh'[h] = fresh[h]
                            /\ doomed'[h] = doomed[h]
      /\ pc'[h] = "idle" => fresh'[h] = None /\ doomed'[h] = {}
      /\ \A g \in Handlers \ {h} : /\ pc'[g] = pc[g]
                                  /\ job'[g] = job[g]
                                  /\ todo'[g] = todo[g]
                                  /\ doomed'[g] = doomed[g]
                                  /\ fresh'[g] = fresh[g]
  BY DEF TypeOK, Forget
<1>4. JobShape'
  BY <1>2, <1>3 DEF TypeOK, JobShape, InTx
<1>5. LocksHeld'
  <2> SUFFICES ASSUME NEW g \in Handlers, pc'[g] \in InTx
               PROVE  /\ \A c \in doomed'[g] : codeLock'[c] = g
                      /\ Verifying(g)' /\ pc'[g] # "findToken" => codeLock'[job'[g].code] = g
                      /\ Registering(g)' => claim'[job'[g].who] = g
    BY <1>3 DEF LocksHeld, Verifying, Registering, InTx
  <2>1. g # h
    BY <1>3 DEF InTx
  <2>2. /\ \A c \in doomed[g] : codeLock[c] = g
        /\ Verifying(g) /\ pc[g] # "findToken" => codeLock[job[g].code] = g
        /\ Registering(g) => claim[job[g].who] = g
    BY <1>3, <2>1 DEF LocksHeld
  <2>3. job[g].op = "Verify" => job[g].code \in Codes
    BY <1>3, <2>1 DEF JobShape
  <2>4. job[g].op # "Verify" => job[g].who \in Users
    BY <1>3, <2>1 DEF JobShape, InTx
  <2>5. pc[g] \in {"deleteToken", "updateUser"} => job[g].op = "Verify"
    BY DEF JobShape
  <2>6. pc[g] = "insertCode" => job[g].op = "Register"
    BY DEF JobShape
  <2> QED
    BY <1>3, <2>1, <2>2, <2>3, <2>4, <2>5, <2>6 DEF TypeOK, Unlock, Verifying, Registering
<1>6. Rows'
  <2> SUFFICES ASSUME NEW g \in Handlers \ {h}
               PROVE  /\ Verifying(g) => code'[job[g].code] # "unused"
                      /\ Resending(g) => account'[job[g].who] # "absent"
                      /\ Resending(g) => \A c \in doomed[g] : codeOf'[c] = job[g].who
                      /\ pc[g] = "deleting" =>
                           \A c \in todo[g] : code'[c] # "unused" /\ codeOf'[c] = job[g].who
    BY <1>1, <1>3 DEF Rows, Verifying, Resending
  <2>1. \A c \in Codes : code[c] # "unused" => code'[c] # "unused" /\ codeOf'[c] = codeOf[c]
    BY DEF Published, TypeOK
  <2>2. pc[g] \in InTx => \A c \in doomed[g] : code[c] = "live"
    BY DEF LocksHeld, LockedRows, TypeOK
  <2>3. Verifying(g) => job[g].code \in Codes /\ code[job[g].code] # "unused"
    BY DEF JobShape, Rows, Verifying, InTx
  <2>4. Resending(g) => /\ job[g].who \in Users
                        /\ account[job[g].who] # "absent"
                        /\ \A c \in doomed[g] : codeOf[c] = job[g].who
    BY DEF JobShape, Rows, Resending, InTx
  <2>5. Resending(g) => pc[g] \in InTx
    BY DEF Resending, InTx
  <2>6. pc[g] = "deleting" => \A c \in todo[g] : code[c] # "unused" /\ codeOf[c] = job[g].who
    BY DEF Rows
  <2> QED
    BY <2>1, <2>2, <2>3, <2>4, <2>5, <2>6 DEF Published, TypeOK
<1>7. FreshCodes'
  BY <1>2, <1>3 DEF TypeOK, FreshCodes, Published, JobShape
<1> QED
  BY <1>1, <1>2, <1>4, <1>5, <1>6, <1>7

(* A commit, acknowledged or not.                                          *)
LEMMA CommitStep ==
  ASSUME IInv, NEW h \in Handlers, Commit(h) \/ CommitUnacknowledged(h)
  PROVE  IInv' /\ Published(h) /\ Outcome(h)
<1> USE HandlersAssumption
<1>1. /\ pc[h] = "commit"
      /\ Publish(h)
      /\ \/ Forget(h)
         \/ /\ job[h].op # "Verify"
            /\ pc' = [pc EXCEPT ![h] = "send"]
            /\ UNCHANGED <<job, todo, snapshot, doomed, fresh>>
  BY DEF Commit, CommitUnacknowledged
<1>2. Unlock(h) /\ UNCHANGED <<expired, mailed>>
  BY <1>1 DEF Publish
<1>3. /\ account' \in [Users -> {"absent", "unverified", "verified"}]
      /\ code' \in [Codes -> {"unused", "live", "gone"}]
      /\ redeemed' \in [Codes -> Nat]
  BY <1>1 DEF Publish, IInv, TypeOK
<1>4. codeOf' \in [Codes -> Users \cup {None}]
  <2>1. fresh[h] # None => job[h].who \in Users
    BY <1>1 DEF IInv, TypeOK, JobShape
  <2> QED
    BY <1>1, <2>1 DEF Publish, Recipient, IInv, TypeOK
<1>5. /\ claim' \in [Users -> Handlers \cup {None}]
      /\ userLock' \in [Users -> Handlers \cup {None}]
      /\ codeLock' \in [Codes -> Handlers \cup {None}]
  BY <1>2 DEF Unlock, IInv, TypeOK
<1>6. /\ pc' \in [Handlers -> InTx \cup {"idle", "send"}]
      /\ job' \in [Handlers -> Job]
      /\ todo' \in [Handlers -> SUBSET Codes]
      /\ snapshot' \in [Handlers -> SUBSET Codes]
      /\ doomed' \in [Handlers -> SUBSET Codes]
      /\ fresh' \in [Handlers -> Codes \cup {None}]
  <2>1. NoJob \in Job
    BY DEF NoJob, Job
  <2>2. CASE Forget(h)
    BY <2>1, <2>2 DEF Forget, IInv, TypeOK
  <2>3. CASE pc' = [pc EXCEPT ![h] = "send"] /\ UNCHANGED <<job, todo, snapshot, doomed, fresh>>
    BY <2>3 DEF IInv, TypeOK
  <2> QED
    BY <1>1, <2>2, <2>3
<1>7. TypeOK'
  BY <1>2, <1>3, <1>4, <1>5, <1>6 DEF IInv, TypeOK
<1>8. Published(h) /\ Outcome(h)
  BY <1>1, <1>2, <1>7, PublishFacts
<1> QED
  BY <1>1, <1>2, <1>8, PublishHandlers

-----------------------------------------------------------------------------
(* The inductive invariant holds at the start and is kept by every step.   *)
LEMMA InitInvariant == Init => IInv
BY HandlersAssumption
   DEF Init, IInv, TypeOK, Job, NoJob, InTx, JobShape, LocksHeld, LockedRows, Rows,
       FreshCodes, Redemption, CodeRedeemedOnce, UnverifiedHasCode, MailedCodeWasCommitted,
       Verifying, Resending, Registering

LEMMA StutterStep == IInv /\ UNCHANGED vars => IInv'
BY DEF vars, tables, locks, IInv, TypeOK, JobShape, LocksHeld, LockedRows, Rows, FreshCodes,
       Redemption, CodeRedeemedOnce, UnverifiedHasCode, MailedCodeWasCommitted, Verifying,
       Resending, Registering

LEMMA ArrivalStep ==
  ASSUME IInv, NEW h \in Handlers, StartRegister(h) \/ StartVerify(h) \/ StartResend(h)
  PROVE  IInv'
<1>0. mailed \subseteq Codes
  BY DEF IInv, TypeOK
<1>1. CASE StartRegister(h)
  BY <1>1, StartStep DEF StartRegister, NoJob, Job
<1>2. CASE StartVerify(h)
  BY <1>0, <1>2, StartStep DEF StartVerify, NoJob, Job
<1>3. CASE StartResend(h)
  BY <1>3, StartStep DEF StartResend, NoJob, Job
<1> QED
  BY <1>1, <1>2, <1>3

LEMMA HandlerStep ==
  ASSUME IInv, NEW h \in Handlers, Handler(h)
  PROVE  IInv'
<1>1. CASE InsertUser(h)
  BY <1>1, ReturnStep, InsertUserStep DEF InsertUser, InTx
<1>2. CASE FindToken(h)
  BY <1>2, ReturnStep, FindTokenStep DEF FindToken, InTx
<1>3. CASE DeleteToken(h)
  BY <1>3, DeleteTokenStep
<1>4. CASE UpdateUser(h)
  BY <1>4, UpdateUserStep
<1>5. CASE FindUser(h)
  BY <1>5, ReturnStep, FindUserStep DEF FindUser, InTx
<1>6. CASE DeleteByUserID(h)
  BY <1>6, DeleteByUserStep
<1>7. CASE DeleteRow(h)
  BY <1>7, TakeRowStep, PassRowStep DEF DeleteRow
<1>8. CASE InsertCode(h)
  BY <1>8, InsertCodeStep
<1>9. CASE Commit(h) \/ CommitUnacknowledged(h)
  BY <1>9, CommitStep
<1>10. CASE Fail(h)
  BY <1>10, ReturnStep DEF Fail
<1>11. CASE Send(h)
  BY <1>11, SendStep
<1>12. CASE SendFails(h)
  BY <1>12, SendFailsStep
<1> QED
  BY <1>1, <1>2, <1>3, <1>4, <1>5, <1>6, <1>7, <1>8, <1>9, <1>10, <1>11, <1>12 DEF Handler

LEMMA StepInvariant == IInv /\ [Next]_vars => IInv'
<1> SUFFICES ASSUME IInv, [Next]_vars
             PROVE  IInv'
  OBVIOUS
<1>1. ASSUME NEW h \in Handlers, StartRegister(h) \/ StartVerify(h) \/ StartResend(h)
      PROVE  IInv'
  BY <1>1, ArrivalStep
<1>2. ASSUME NEW h \in Handlers, Handler(h)
      PROVE  IInv'
  BY <1>2, HandlerStep
<1>3. ASSUME NEW c \in Codes, Expire(c)
      PROVE  IInv'
  BY <1>3, ExpireStep
<1>4. CASE UNCHANGED vars
  BY <1>4, StutterStep
<1> QED
  BY <1>1, <1>2, <1>3, <1>4 DEF Next

(* The invariant holds in every reachable state.                           *)
THEOREM VerificationInvariance == Spec => []IInv
<1>1. Init => IInv
  BY InitInvariant
<1>2. IInv /\ [Next]_vars => IInv'
  BY StepInvariant
<1> QED
  BY <1>1, <1>2, PTL DEF Spec

(* Every variable keeps its type.                                          *)
THEOREM TypeCorrect == Spec => []TypeOK
<1>1. IInv => TypeOK
  BY DEF IInv
<1> QED
  BY <1>1, VerificationInvariance, PTL

(* A code verifies once, however many requests present it: the lock that   *)
(* FindToken takes is held until the code is gone.                         *)
THEOREM RedeemedOnce == Spec => []CodeRedeemedOnce
<1>1. IInv => CodeRedeemedOnce
  BY DEF IInv, Redemption
<1> QED
  BY <1>1, VerificationInvariance, PTL

(* Nobody waits for a verification without a code to verify with.          *)
THEOREM WaitingHaveCodes == Spec => []UnverifiedHasCode
<1>1. IInv => UnverifiedHasCode
  BY DEF IInv
<1> QED
  BY <1>1, VerificationInvariance, PTL

(* A mail is only sent for a code that the database has.                   *)
THEOREM MailedAreCommitted == Spec => []MailedCodeWasCommitted
<1>1. IInv => MailedCodeWasCommitted
  BY DEF IInv
<1> QED
  BY <1>1, VerificationInvariance, PTL

-----------------------------------------------------------------------------
(* Only a commit changes accounts and codes.                               *)
LEMMA QuietSteps ==
  ASSUME [Next]_vars,
         \A h \in Handlers : ~Commit(h) /\ ~CommitUnacknowledged(h)
  PROVE  UNCHANGED <<account, code, codeOf>>
<1> USE DEF tables
<1>1. ASSUME NEW h \in Handlers, StartRegister(h) \/ StartVerify(h) \/ StartResend(h)
      PROVE  UNCHANGED tables
  BY <1>1 DEF StartRegister, StartVerify, StartResend, Start
<1>2. ASSUME NEW h \in Handlers, Handler(h)
      PROVE  UNCHANGED tables
  BY <1>2 DEF Handler, InsertUser, FindToken, DeleteToken, UpdateUser, FindUser,
              DeleteByUserID, DeleteRow, InsertCode, Fail, Send, SendFails, Return, Move
<1>3. ASSUME NEW c \in Codes, Expire(c)
      PROVE  UNCHANGED <<account, code, codeOf>>
  BY <1>3 DEF Expire
<1>4. CASE UNCHANGED vars
  BY <1>4 DEF vars
<1> QED
  BY <1>1, <1>2, <1>3, <1>4 DEF Next

(* A commit is one step of Verification: of SignUp, Replace or Confirm.    *)
LEMMA CommitImplements ==
  ASSUME IInv, NEW h \in Handlers, Commit(h) \/ CommitUnacknowledged(h)
  PROVE  Promise!Next
<1>1. /\ TypeOK /\ Published(h) /\ Outcome(h)
      /\ code' = [c \in Codes |-> CASE c = fresh[h] -> "live"
                                    [] c \in doomed[h] -> "gone"
                                    [] OTHER -> code[c]]
      /\ codeOf' = [c \in Codes |-> IF c = fresh[h] THEN job[h].who ELSE codeOf[c]]
  BY CommitStep DEF Commit, CommitUnacknowledged, Publish, Recipient, IInv
<1>2. CASE fresh[h] # None
  <2>1. fresh[h] \in Codes /\ code[fresh[h]] = "unused" /\ job[h].who \in Users
    BY <1>1, <1>2 DEF TypeOK, Published
  <2>2. codeOf' = [codeOf EXCEPT ![fresh[h]] = job[h].who]
    BY <1>1, <2>1 DEF TypeOK
  <2>3. Promise!Issue(job[h].who, fresh[h], doomed[h])
    BY <1>1, <2>1, <2>2 DEF Promise!Issue
  <2>4. CASE job[h].op = "Register"
    BY <1>1, <2>1, <2>3, <2>4 DEF Outcome, Promise!SignUp, Promise!Next
  <2>5. CASE job[h].op = "Resend"
    <3>1. doomed[h] \in SUBSET Promise!LiveCodes(job[h].who)
      BY <1>1, <2>5 DEF TypeOK, Published, Outcome, Promise!LiveCodes
    <3>2. Promise!Replace(job[h].who, fresh[h], doomed[h])
      BY <1>1, <2>3, <2>5 DEF Outcome, Promise!Replace
    <3> QED
      BY <2>1, <3>1, <3>2 DEF Promise!Next
  <2> QED
    BY <1>1, <1>2, <2>4, <2>5 DEF Outcome
<1>3. CASE fresh[h] = None
  <2>1. /\ job[h].code \in Codes
        /\ doomed[h] = {job[h].code}
        /\ code[job[h].code] = "live"
        /\ account' = [account EXCEPT ![codeOf[job[h].code]] = "verified"]
    BY <1>1, <1>3, HandlersAssumption DEF Outcome, Published
  <2>2. code' = [code EXCEPT ![job[h].code] = "gone"]
    <3>1. code' = [c \in Codes |-> IF c = job[h].code THEN "gone" ELSE code[c]]
      BY <1>1, <1>3, <2>1, HandlersAssumption
    <3> QED
      BY <1>1, <3>1 DEF TypeOK
  <2>3. codeOf' = codeOf
    BY <1>1, <1>3, HandlersAssumption DEF TypeOK
  <2>4. Promise!Confirm(job[h].code)
    BY <2>1, <2>2, <2>3 DEF Promise!Confirm
  <2> QED
    BY <2>1, <2>4 DEF Promise!Next
<1> QED
  BY <1>2, <1>3

(* Whatever interleaves, fails or loses its acknowledgement: the tables    *)
(* change as if every request were one step.                               *)
THEOREM VerificationImplemented == Spec => ImplementsVerification
<1>1. Init => Promise!Init
  BY DEF Init, Promise!Init
<1>2. ASSUME IInv, [Next]_vars
      PROVE  [Promise!Next]_Promise!vars
  <2>1. CASE \E h \in Handlers : Commit(h) \/ CommitUnacknowledged(h)
    BY <1>2, <2>1, CommitImplements
  <2>2. CASE \A h \in Handlers : ~Commit(h) /\ ~CommitUnacknowledged(h)
    BY <1>2, <2>2, QuietSteps DEF Promise!vars
  <2> QED
    BY <2>1, <2>2
<1> QED
  BY <1>1, <1>2, VerificationInvariance, PTL
     DEF Spec, ImplementsVerification, Promise!Spec

(* An account becomes verified only with the end of a code of its own.     *)
THEOREM VerificationConsumes == Spec => VerifiedConsumesCode
<1> DEFINE Consumes ==
      \A u \in Users :
        account[u] # "verified" /\ account'[u] = "verified" =>
          \E c \in Codes : codeOf[c] = u /\ code[c] = "live" /\ code'[c] = "gone"
<1>1. ASSUME IInv, [Next]_vars
      PROVE  Consumes \/ UNCHANGED vars
  <2>1. ASSUME NEW h \in Handlers, Commit(h) \/ CommitUnacknowledged(h)
        PROVE  Consumes
    <3>1. TypeOK /\ Published(h) /\ Outcome(h)
      BY <1>1, <2>1, CommitStep DEF IInv
    <3>2. CASE job[h].op = "Verify"
      <4> DEFINE k == job[h].code
      <4>1. /\ k \in Codes /\ k \in doomed[h]
            /\ account' = [account EXCEPT ![codeOf[k]] = "verified"]
        BY <3>1, <3>2 DEF Outcome
      <4>2. code[k] = "live" /\ code'[k] = "gone"
        BY <3>1, <4>1 DEF Published
      <4>3. account \in [Users -> {"absent", "unverified", "verified"}]
        BY <3>1 DEF TypeOK
      <4> HIDE DEF k
      <4>4. \A u \in Users : account[u] # "verified" /\ account'[u] = "verified" => codeOf[k] = u
        BY <4>1, <4>3
      <4> QED
        BY <4>1, <4>2, <4>4
    <3>3. CASE job[h].op # "Verify"
      BY <3>1, <3>3 DEF Outcome, TypeOK
    <3> QED
      BY <3>2, <3>3
  <2>2. CASE \A h \in Handlers : ~Commit(h) /\ ~CommitUnacknowledged(h)
    BY <1>1, <2>2, QuietSteps
  <2> QED
    BY <2>1, <2>2
<1> QED
  BY <1>1, VerificationInvariance, PTL DEF Spec, VerifiedConsumesCode

-----------------------------------------------------------------------------
(* What became of the codes that the DELETE of a resend saw.               *)
Seen ==
  \A h \in Handlers :
    /\ pc[h] \notin {"deleting", "commit", "send"} => snapshot[h] = {}
    /\ pc[h] = "deleting" =>
         \A c \in snapshot[h] : c \in todo[h] \/ c \in doomed[h] \/ code[c] = "gone"
    /\ pc[h] = "commit" => \A c \in snapshot[h] : c \in doomed[h] \/ code[c] = "gone"
    /\ pc[h] = "send" => \A c \in snapshot[h] : code[c] = "gone"

(* At which statements locks are held.                                     *)
LockHolders ==
  /\ \A u \in Users : claim[u] # None =>
       pc[claim[u]] \in {"insertCode", "commit"} /\ job[claim[u]].op = "Register"
  /\ \A c \in Codes : codeLock[c] # None =>
       pc[codeLock[c]] \in {"deleteToken", "updateUser", "deleting", "commit"}
  /\ \A u \in Users : userLock[u] # None => pc[userLock[u]] = "commit"

(* An end of h that leaves the codes that are gone as they are.            *)
LEMMA SeenForgotten ==
  ASSUME IInv, Seen, NEW h \in Handlers, Forget(h),
         \A c \in Codes : code[c] = "gone" => code'[c] = "gone"
  PROVE  Seen'
<1>1. \A g \in Handlers : snapshot[g] \subseteq Codes
  BY DEF IInv, TypeOK
<1>2. pc'[h] = "idle" /\ snapshot'[h] = {}
  BY DEF IInv, TypeOK, Forget
<1>3. \A g \in Handlers \ {h} :
        pc'[g] = pc[g] /\ snapshot'[g] = snapshot[g] /\ todo'[g] = todo[g] /\ doomed'[g] = doomed[g]
  BY DEF IInv, TypeOK, Forget
<1> QED
  BY <1>1, <1>2, <1>3 DEF Seen

(* A statement of h that keeps its snapshot, or the start of a request.    *)
LEMMA SeenMoved ==
  ASSUME IInv, Seen, NEW h \in Handlers,
         NEW to \in {"insertUser", "findToken", "findUser", "insertCode", "deleteToken",
                     "updateUser", "deleteByUser"},
         pc[h] \notin {"deleting", "commit", "send"},
         pc' = [pc EXCEPT ![h] = to],
         UNCHANGED <<code, todo, snapshot>>,
         \A g \in Handlers \ {h} : doomed'[g] = doomed[g]
  PROVE  Seen'
<1>1. pc'[h] = to /\ \A g \in Handlers \ {h} : pc'[g] = pc[g]
  BY DEF IInv, TypeOK
<1> QED
  BY <1>1 DEF Seen

(* A commit: what is doomed is gone, and what is gone stays gone.          *)
LEMMA SeenPublished ==
  ASSUME IInv, Seen, NEW h \in Handlers, Commit(h) \/ CommitUnacknowledged(h)
  PROVE  Seen'
<1>1. Published(h) /\ pc[h] = "commit"
  BY CommitStep DEF Commit, CommitUnacknowledged
<1>2. \A c \in Codes : code[c] = "gone" => code'[c] = "gone"
  BY <1>1, HandlersAssumption DEF Published
<1>3. CASE Forget(h)
  BY <1>2, <1>3, SeenForgotten
<1>4. CASE pc' = [pc EXCEPT ![h] = "send"] /\ UNCHANGED <<todo, snapshot, doomed>>
  <2>1. \A g \in Handlers : snapshot[g] \subseteq Codes
    BY DEF IInv, TypeOK
  <2>2. pc'[h] = "send" /\ \A g \in Handlers \ {h} : pc'[g] = pc[g]
    BY <1>4 DEF IInv, TypeOK
  <2>3. \A c \in snapshot[h] : code'[c] = "gone"
    BY <1>1, <1>2, <2>1 DEF Published, Seen
  <2> QED
    BY <1>2, <1>4, <2>1, <2>2, <2>3 DEF Seen
<1> QED
  BY <1>3, <1>4 DEF Commit, CommitUnacknowledged

LEMMA SeenHandler ==
  ASSUME IInv, Seen, NEW h \in Handlers, Handler(h)
  PROVE  Seen'
<1>1. ASSUME Return(h) PROVE Seen'
  BY <1>1, SeenForgotten DEF Return, tables
<1>2. CASE InsertUser(h)
  BY <1>1, <1>2, SeenMoved DEF InsertUser, Move, tables
<1>3. CASE FindToken(h)
  BY <1>1, <1>3, SeenMoved DEF FindToken, Move, tables
<1>4. CASE DeleteToken(h)
  <2>1. \A g \in Handlers \ {h} : doomed'[g] = doomed[g]
    BY <1>4 DEF DeleteToken, IInv, TypeOK
  <2> QED
    BY <1>4, <2>1, SeenMoved DEF DeleteToken, Move, tables
<1>5. CASE UpdateUser(h)
  <2>1. pc[h] = "updateUser" /\ pc'[h] = "commit" /\ \A g \in Handlers \ {h} : pc'[g] = pc[g]
    BY <1>5 DEF UpdateUser, Move, IInv, TypeOK
  <2>2. UNCHANGED <<code, todo, snapshot, doomed>>
    BY <1>5 DEF UpdateUser, Move, tables
  <2> QED
    BY <2>1, <2>2 DEF Seen
<1>6. CASE FindUser(h)
  BY <1>1, <1>6, SeenMoved DEF FindUser, Move, tables
<1>7. CASE DeleteByUserID(h)
  <2>1. /\ pc'[h] = "deleting" /\ snapshot'[h] = todo'[h]
        /\ \A g \in Handlers \ {h} :
             pc'[g] = pc[g] /\ snapshot'[g] = snapshot[g] /\ todo'[g] = todo[g]
        /\ UNCHANGED <<code, doomed>>
    BY <1>7 DEF DeleteByUserID, Move, tables, IInv, TypeOK
  <2> QED
    BY <2>1 DEF Seen
<1>8. CASE DeleteRow(h)
  <2>1. PICK c \in todo[h] :
          /\ pc[h] = "deleting"
          /\ todo' = [todo EXCEPT ![h] = @ \ {c}]
          /\ IF code[c] = "live" THEN doomed' = [doomed EXCEPT ![h] = @ \cup {c}]
             ELSE UNCHANGED doomed
          /\ UNCHANGED <<code, pc, snapshot>>
    BY <1>8 DEF DeleteRow, tables
  <2>2. code[c] = "live" \/ code[c] = "gone"
    BY <2>1 DEF IInv, TypeOK, Rows
  <2>3. /\ todo'[h] = todo[h] \ {c}
        /\ doomed[h] \subseteq doomed'[h]
        /\ c \in doomed'[h] \/ code[c] = "gone"
        /\ \A g \in Handlers \ {h} : todo'[g] = todo[g] /\ doomed'[g] = doomed[g]
    BY <2>1, <2>2 DEF IInv, TypeOK
  <2> QED
    BY <2>1, <2>3 DEF Seen
<1>9. CASE InsertCode(h)
  <2>1. Move(h, "commit") /\ UNCHANGED <<todo, snapshot, doomed>>
    BY <1>9 DEF InsertCode, locks
  <2>2. pc[h] = "insertCode" \/ (pc[h] = "deleting" /\ todo[h] = {})
    BY <1>9 DEF InsertCode, locks
  <2>3. pc'[h] = "commit" /\ UNCHANGED code /\ \A g \in Handlers \ {h} : pc'[g] = pc[g]
    BY <2>1 DEF IInv, TypeOK, Move, tables
  <2> QED
    BY <2>1, <2>2, <2>3 DEF Seen
<1>10. CASE Commit(h) \/ CommitUnacknowledged(h)
  BY <1>10, SeenPublished
<1>11. CASE Fail(h)
  BY <1>1, <1>11 DEF Fail
<1>12. CASE Send(h) \/ SendFails(h)
  BY <1>12, SeenForgotten DEF Send, SendFails, tables
<1> QED
  BY <1>2, <1>3, <1>4, <1>5, <1>6, <1>7, <1>8, <1>9, <1>10, <1>11, <1>12 DEF Handler

LEMMA SeenStep == IInv /\ Seen /\ [Next]_vars => Seen'
<1> SUFFICES ASSUME IInv, Seen, [Next]_vars
             PROVE  Seen'
  OBVIOUS
<1>1. ASSUME NEW h \in Handlers, StartRegister(h) \/ StartVerify(h) \/ StartResend(h)
      PROVE  Seen'
  BY <1>1, SeenMoved DEF StartRegister, StartVerify, StartResend, Start, tables
<1>2. ASSUME NEW h \in Handlers, Handler(h)
      PROVE  Seen'
  BY <1>2, SeenHandler
<1>3. CASE UNCHANGED <<code, pc, todo, snapshot, doomed>>
  BY <1>3 DEF Seen
<1> QED
  BY <1>1, <1>2, <1>3 DEF Next, Expire, vars, tables

(* A resend that is about to mail its code has put an end to every code    *)
(* its DELETE saw: those it locked died with its commit, and those it      *)
(* passed over had died before.                                            *)
THEOREM SupersededAreDead == Spec => []SupersededCodeIsDead
<1>1. Init => Seen
  BY DEF Init, Seen
<1>2. Seen => SupersededCodeIsDead
  BY DEF Seen, SupersededCodeIsDead
<1> QED
  BY <1>1, <1>2, SeenStep, VerificationInvariance, PTL DEF Spec

-----------------------------------------------------------------------------
(* A statement that takes no lock and is not one after which locks are     *)
(* held, or one that goes on to a statement at which they still are.       *)
LEMMA HoldersMoved ==
  ASSUME IInv, LockHolders, NEW h \in Handlers,
         UNCHANGED <<claim, userLock, codeLock>>,
         \A g \in Handlers \ {h} : pc'[g] = pc[g] /\ job'[g] = job[g],
         \/ pc[h] \notin {"insertCode", "deleteToken", "updateUser", "deleting", "commit"}
         \/ /\ pc[h] \in {"insertCode", "deleteToken", "updateUser", "deleting"}
            /\ pc[h] = "insertCode" => pc'[h] = "commit"
            /\ pc'[h] \in {"deleteToken", "updateUser", "deleting", "commit"}
            /\ job'[h] = job[h]
  PROVE  LockHolders'
<1> USE HandlersAssumption
<1>1. /\ \A u \in Users : claim[u] \in Handlers \cup {None} /\ userLock[u] \in Handlers \cup {None}
      /\ \A c \in Codes : codeLock[c] \in Handlers \cup {None}
  BY DEF IInv, TypeOK
<1>2. \A g \in Handlers : pc[g] = "insertCode" => \A c \in Codes : codeLock[c] # g
  BY DEF LockHolders
<1>3. pc[h] \in {"deleteToken", "updateUser", "deleting"} => \A u \in Users : claim[u] # h
  BY DEF LockHolders
<1> QED
  BY <1>1, <1>2, <1>3 DEF LockHolders

(* A transaction ends: its handler holds no lock any more.                 *)
LEMMA HoldersUnlocked ==
  ASSUME IInv, LockHolders, NEW h \in Handlers, Unlock(h),
         \A g \in Handlers \ {h} : pc'[g] = pc[g] /\ job'[g] = job[g]
  PROVE  LockHolders'
<1> USE HandlersAssumption
<1>1. \A u \in Users :
        /\ claim'[u] # None => claim'[u] = claim[u] /\ claim[u] \in Handlers \ {h}
        /\ userLock'[u] # None => userLock'[u] = userLock[u] /\ userLock[u] \in Handlers \ {h}
  BY DEF Unlock, IInv, TypeOK
<1>2. \A c \in Codes :
        codeLock'[c] # None => codeLock'[c] = codeLock[c] /\ codeLock[c] \in Handlers \ {h}
  BY DEF Unlock, IInv, TypeOK
<1> QED
  BY <1>1, <1>2 DEF LockHolders

LEMMA HoldersHandler ==
  ASSUME IInv, LockHolders, NEW h \in Handlers, Handler(h)
  PROVE  LockHolders'
<1> USE HandlersAssumption
<1>1. /\ pc \in [Handlers -> InTx \cup {"idle", "send"}] /\ job \in [Handlers -> Job]
      /\ claim \in [Users -> Handlers \cup {None}]
      /\ userLock \in [Users -> Handlers \cup {None}]
      /\ codeLock \in [Codes -> Handlers \cup {None}]
  BY DEF IInv, TypeOK
<1>2. ASSUME Forget(h) \/ \E to : Move(h, to)
      PROVE  \A g \in Handlers \ {h} : pc'[g] = pc[g] /\ job'[g] = job[g]
  BY <1>1, <1>2 DEF Forget, Move
<1>3. ASSUME Return(h) PROVE LockHolders'
  BY <1>2, <1>3, HoldersUnlocked DEF Return
<1>4. ASSUME NEW to \in {"insertCode", "deleteToken", "updateUser", "commit", "deleteByUser", "deleting"},
             Move(h, to)
      PROVE  /\ pc'[h] = to /\ job' = job
             /\ \A g \in Handlers \ {h} : pc'[g] = pc[g]
  BY <1>1, <1>4 DEF Move
<1>5. CASE InsertUser(h)
  <2>1. CASE Return(h)
    BY <1>3, <2>1
  <2>2. CASE ~Return(h)
    <3> DEFINE u == job[h].who
    <3>1. /\ pc[h] = "insertUser" /\ Move(h, "insertCode")
          /\ claim' = [claim EXCEPT ![u] = h] /\ UNCHANGED <<userLock, codeLock>>
      BY <1>5, <2>2 DEF InsertUser
    <3>2. pc'[h] = "insertCode" /\ job' = job /\ \A g \in Handlers \ {h} : pc'[g] = pc[g]
      BY <1>4, <3>1
    <3>3. job[h].op = "Register"
      BY <3>1 DEF IInv, JobShape
    <3> HIDE DEF u
    <3>4. \A v \in Users : claim'[v] # None => claim'[v] = h \/ claim'[v] = claim[v]
      BY <1>1, <3>1
    <3>5. /\ \A v \in Users : claim[v] # h /\ userLock[v] # h
          /\ \A c \in Codes : codeLock[c] # h
      BY <3>1 DEF LockHolders
    <3>6. \A v \in Users : claim'[v] # None =>
            pc'[claim'[v]] \in {"insertCode", "commit"} /\ job'[claim'[v]].op = "Register"
      BY <1>1, <3>2, <3>3, <3>4 DEF LockHolders
    <3>7. \A v \in Users : userLock'[v] # None => pc'[userLock'[v]] = "commit"
      BY <1>1, <3>1, <3>2, <3>5 DEF LockHolders
    <3>8. \A c \in Codes : codeLock'[c] # None =>
            pc'[codeLock'[c]] \in {"deleteToken", "updateUser", "deleting", "commit"}
      BY <1>1, <3>1, <3>2, <3>5 DEF LockHolders
    <3> QED
      BY <3>6, <3>7, <3>8 DEF LockHolders
  <2> QED
    BY <2>1, <2>2
<1>6. ASSUME NEW c \in Codes, NEW to \in {"deleteToken", "updateUser", "deleting"},
             codeLock' = [codeLock EXCEPT ![c] = h], UNCHANGED <<claim, userLock>>,
             pc[h] \in {"findToken", "deleteToken", "deleting"},
             pc'[h] = to, job' = job, \A g \in Handlers \ {h} : pc'[g] = pc[g]
      PROVE  LockHolders'
  <2>1. \A v \in Users : claim[v] # h /\ userLock[v] # h
    BY <1>6 DEF LockHolders
  <2>2. \A d \in Codes : codeLock'[d] = h \/ codeLock'[d] = codeLock[d]
    BY <1>1, <1>6
  <2>3. \A d \in Codes : codeLock'[d] # None =>
          pc'[codeLock'[d]] \in {"deleteToken", "updateUser", "deleting", "commit"}
    BY <1>1, <1>6, <2>2 DEF LockHolders
  <2>4. \A v \in Users : claim'[v] # None =>
          pc'[claim'[v]] \in {"insertCode", "commit"} /\ job'[claim'[v]].op = "Register"
    BY <1>1, <1>6, <2>1 DEF LockHolders
  <2>5. \A v \in Users : userLock'[v] # None => pc'[userLock'[v]] = "commit"
    BY <1>1, <1>6, <2>1 DEF LockHolders
  <2> QED
    BY <2>3, <2>4, <2>5 DEF LockHolders
<1>7. CASE FindToken(h)
  <2>1. CASE Return(h)
    BY <1>3, <2>1
  <2>2. CASE ~Return(h)
    <3>1. /\ pc[h] = "findToken" /\ Move(h, "deleteToken")
          /\ codeLock' = [codeLock EXCEPT ![job[h].code] = h] /\ UNCHANGED <<claim, userLock>>
      BY <1>7, <2>2 DEF FindToken
    <3>2. job[h].code \in Codes
      BY <3>1 DEF IInv, JobShape, InTx
    <3> QED
      BY <1>4, <1>6, <3>1, <3>2
  <2> QED
    BY <2>1, <2>2
<1>8. CASE DeleteToken(h)
  <2>1. /\ pc[h] = "deleteToken" /\ Move(h, "updateUser")
        /\ codeLock' = [codeLock EXCEPT ![job[h].code] = h] /\ UNCHANGED <<claim, userLock>>
    BY <1>8 DEF DeleteToken
  <2>2. job[h].code \in Codes
    BY <2>1 DEF IInv, JobShape, InTx
  <2> QED
    BY <1>4, <1>6, <2>1, <2>2
<1>9. CASE UpdateUser(h)
  <2> DEFINE u == codeOf[job[h].code]
  <2>1. /\ pc[h] = "updateUser" /\ Move(h, "commit")
        /\ userLock' = [userLock EXCEPT ![u] = h] /\ UNCHANGED <<claim, codeLock>>
    BY <1>9 DEF UpdateUser
  <2>2. pc'[h] = "commit" /\ job' = job /\ \A g \in Handlers \ {h} : pc'[g] = pc[g]
    BY <1>4, <2>1
  <2> HIDE DEF u
  <2>3. \A v \in Users : userLock'[v] = h \/ userLock'[v] = userLock[v]
    BY <1>1, <2>1
  <2>4. \A v \in Users : userLock'[v] # None => pc'[userLock'[v]] = "commit"
    BY <1>1, <2>2, <2>3 DEF LockHolders
  <2>5. \A c \in Codes : codeLock'[c] # None =>
          pc'[codeLock'[c]] \in {"deleteToken", "updateUser", "deleting", "commit"}
    BY <1>1, <2>1, <2>2 DEF LockHolders
  <2>6. \A v \in Users : claim'[v] # None =>
          pc'[claim'[v]] \in {"insertCode", "commit"} /\ job'[claim'[v]].op = "Register"
    BY <1>1, <2>1, <2>2 DEF LockHolders
  <2> QED
    BY <2>4, <2>5, <2>6 DEF LockHolders
<1>10. CASE FindUser(h)
  <2>1. CASE Return(h)
    BY <1>3, <2>1
  <2>2. CASE ~Return(h)
    <3>1. pc[h] = "findUser" /\ Move(h, "deleteByUser") /\ UNCHANGED <<claim, userLock, codeLock>>
      BY <1>10, <2>2 DEF FindUser, locks
    <3> QED
      BY <1>4, <3>1, HoldersMoved
  <2> QED
    BY <2>1, <2>2
<1>11. CASE DeleteByUserID(h)
  <2>1. pc[h] = "deleteByUser" /\ Move(h, "deleting") /\ UNCHANGED <<claim, userLock, codeLock>>
    BY <1>11 DEF DeleteByUserID, locks
  <2> QED
    BY <1>4, <2>1, HoldersMoved
<1>12. CASE DeleteRow(h)
  <2>1. PICK c \in todo[h] :
          /\ pc[h] = "deleting" /\ UNCHANGED <<claim, userLock, pc, job>>
          /\ codeLock' = [codeLock EXCEPT ![c] = h] \/ UNCHANGED codeLock
    BY <1>12 DEF DeleteRow
  <2>2. c \in Codes
    BY <2>1 DEF IInv, TypeOK
  <2>3. CASE UNCHANGED codeLock
    BY <2>1, <2>3 DEF LockHolders
  <2>4. CASE codeLock' = [codeLock EXCEPT ![c] = h]
    BY <1>6, <2>1, <2>2, <2>4
  <2> QED
    BY <2>1, <2>3, <2>4
<1>13. CASE InsertCode(h)
  <2>1. /\ pc[h] \in {"insertCode", "deleting"} /\ Move(h, "commit")
        /\ UNCHANGED <<claim, userLock, codeLock>>
    BY <1>13 DEF InsertCode, locks
  <2> QED
    BY <1>4, <2>1, HoldersMoved
<1>14. CASE Commit(h) \/ CommitUnacknowledged(h)
  <2>1. Unlock(h)
    BY <1>14 DEF Commit, CommitUnacknowledged, Publish
  <2>2. \A g \in Handlers \ {h} : pc'[g] = pc[g] /\ job'[g] = job[g]
    BY <1>1, <1>2, <1>14 DEF Commit, CommitUnacknowledged
  <2> QED
    BY <2>1, <2>2, HoldersUnlocked
<1>15. CASE Fail(h)
  BY <1>3, <1>15 DEF Fail
<1>16. CASE Send(h) \/ SendFails(h)
  <2>1. pc[h] = "send" /\ Forget(h) /\ UNCHANGED <<claim, userLock, codeLock>>
    BY <1>16 DEF Send, SendFails, locks
  <2> QED
    BY <1>2, <2>1, HoldersMoved
<1> QED
  BY <1>5, <1>7, <1>8, <1>9, <1>10, <1>11, <1>12, <1>13, <1>14, <1>15, <1>16 DEF Handler

LEMMA HoldersStep == IInv /\ LockHolders /\ [Next]_vars => LockHolders'
<1> SUFFICES ASSUME IInv, LockHolders, [Next]_vars
             PROVE  LockHolders'
  OBVIOUS
<1>1. ASSUME NEW h \in Handlers, StartRegister(h) \/ StartVerify(h) \/ StartResend(h)
      PROVE  LockHolders'
  <2>1. PICK j, entry : Start(h, j, entry)
    BY <1>1 DEF StartRegister, StartVerify, StartResend
  <2>2. /\ pc[h] = "idle" /\ UNCHANGED <<claim, userLock, codeLock>>
        /\ \A g \in Handlers \ {h} : pc'[g] = pc[g] /\ job'[g] = job[g]
    BY <2>1 DEF Start, locks, IInv, TypeOK
  <2> QED
    BY <2>2, HoldersMoved
<1>2. ASSUME NEW h \in Handlers, Handler(h)
      PROVE  LockHolders'
  BY <1>2, HoldersHandler
<1>3. CASE UNCHANGED <<claim, userLock, codeLock, pc, job>>
  BY <1>3 DEF LockHolders
<1> QED
  BY <1>1, <1>2, <1>3 DEF Next, Expire, vars, locks

(* A verification that somebody waits for waits at most for the commit of  *)
(* another one, which waits for nobody.                                    *)
LEMMA VerificationsWaitForCommits ==
  ASSUME IInv, LockHolders,
         NEW f \in Handlers, NEW h \in Handlers, NEW g \in Handlers,
         job[h].op = "Verify", WaitsFor(f, h), WaitsFor(h, g)
  PROVE  pc[g] = "commit"
<1> USE HandlersAssumption
<1>1. /\ pc \in [Handlers -> InTx \cup {"idle", "send"}] /\ job \in [Handlers -> Job]
      /\ todo \in [Handlers -> SUBSET Codes]
  BY DEF IInv, TypeOK
<1>2. \/ \E u \in Users : claim[u] = h
      \/ \E c \in Codes : codeLock[c] = h
      \/ \E u \in Users : userLock[u] = h
  <2>1. CASE pc[f] = "insertUser" /\ claim[job[f].who] = h
    BY <2>1 DEF IInv, JobShape
  <2>2. CASE pc[f] \in {"findToken", "deleteToken"} /\ codeLock[job[f].code] = h
    BY <2>2 DEF IInv, JobShape, InTx
  <2>3. CASE pc[f] = "updateUser" /\ userLock[codeOf[job[f].code]] = h
    <3>1. job[f].code \in Codes /\ code[job[f].code] # "unused"
      BY <2>3 DEF IInv, JobShape, Rows, Verifying, InTx
    <3> QED
      BY <2>3, <3>1 DEF IInv, Rows
  <2>4. CASE pc[f] = "findUser" /\ userLock[job[f].who] = h
    BY <2>4 DEF IInv, JobShape
  <2>5. CASE \E c \in todo[f] : codeLock[c] = h
    BY <1>1, <2>5
  <2> QED
    BY <2>1, <2>2, <2>3, <2>4, <2>5 DEF WaitsFor
<1>3. pc[h] \in {"deleteToken", "updateUser", "deleting", "commit"}
  BY <1>2 DEF LockHolders
<1>4. pc[h] # "deleting"
  BY DEF IInv, JobShape
<1>5. pc[h] = "deleteToken" => codeLock[job[h].code] = h
  BY DEF IInv, LocksHeld, Verifying
<1>6. pc[h] = "updateUser" /\ userLock[codeOf[job[h].code]] = g
  BY <1>3, <1>4, <1>5 DEF WaitsFor
<1>7. codeOf[job[h].code] \in Users
  <2>1. job[h].code \in Codes /\ code[job[h].code] # "unused"
    BY <1>6 DEF IInv, JobShape, Rows, Verifying, InTx
  <2> QED
    BY <2>1 DEF IInv, Rows
<1> QED
  BY <1>6, <1>7 DEF LockHolders

(* Whatever the number of handlers, a verification is never in a deadlock: *)
(* a ring of handlers that wait for each other would make one that waits   *)
(* for a handler at its commit, and that one goes ahead.                   *)
THEOREM VerificationsNeverDeadlock == Spec => []VerifyDeadlockFree
<1>1. Init => LockHolders
  BY DEF Init, LockHolders
<1>2. ASSUME IInv, LockHolders
      PROVE  VerifyDeadlockFree
  <2> SUFFICES ASSUME NEW n \in 1 .. Cardinality(Handlers), NEW ring \in [1 .. n -> Handlers],
                      \A i \in 1 .. n : WaitsFor(ring[i], ring[IF i = n THEN 1 ELSE i + 1]),
                      NEW i \in 1 .. n, job[ring[i]].op = "Verify"
               PROVE  FALSE
    BY DEF VerifyDeadlockFree
  <2> DEFINE next(k) == IF k = n THEN 1 ELSE k + 1
             last == IF i = 1 THEN n ELSE i - 1
  <2>1. n \in Nat /\ n >= 1
    OBVIOUS
  <2>2. \A k \in 1 .. n : WaitsFor(ring[k], ring[next(k)])
    OBVIOUS
  <2>3. last \in 1 .. n /\ next(last) = i /\ next(i) \in 1 .. n
    BY <2>1
  <2> HIDE DEF last, next
  <2>4. /\ WaitsFor(ring[last], ring[next(last)])
        /\ WaitsFor(ring[i], ring[next(i)])
        /\ WaitsFor(ring[next(i)], ring[next(next(i))])
    BY <2>2, <2>3
  <2>5. /\ WaitsFor(ring[last], ring[i])
        /\ ring[last] \in Handlers /\ ring[i] \in Handlers /\ ring[next(i)] \in Handlers
    BY <2>3, <2>4
  <2>6. pc[ring[next(i)]] = "commit"
    BY <1>2, <2>4, <2>5, VerificationsWaitForCommits
  <2> QED
    BY <2>4, <2>6 DEF WaitsFor
<1> QED
  BY <1>1, <1>2, HoldersStep, VerificationInvariance, PTL DEF Spec

-----------------------------------------------------------------------------
(* For every alphabet and every limit, the real ones included: where each  *)
(* character is a byte, Register keeps its word, but for a password that   *)
(* is beyond what bcrypt takes.                                            *)
THEOREM NarrowInput == Spec => []NarrowInputAsPromised
<1>1. ASSUME NEW name \in {n \in Texts(MaxNameLength + 1) : Narrow(n)},
             NEW p \in {q \in Texts(MaxText) : Narrow(q)} \cup {Nil}
      PROVE  LET status == Register(name, p) IN
             /\ status = "StatusBadRequest" <=> ~(PromisedName(name) /\ PromisedPassword(p))
             /\ status = "StatusInternalServerError" => Len(p) > MaximumHashedLength
  <2>1. MaxNameLength + 1 \in Nat /\ MaxText \in Nat /\ MaximumHashedLength \in Nat
    BY InputAssumption
  <2>2. ValidName(name) <=> PromisedName(name)
    BY <2>1, NarrowNames
  <2>3. CASE p = Nil
    <3>1. ~ValidatePassword(p) /\ ~PromisedPassword(p)
      BY <2>3 DEF ValidatePassword, PromisedPassword
    <3> QED
      BY <3>1 DEF Register
  <2>4. CASE p # Nil
    <3>1. p \in Texts(MaxText) /\ Narrow(p)
      BY <2>4
    <3>2. ValidatePassword(p) <=> PromisedPassword(p)
      BY <2>1, <3>1, NarrowPasswords
    <3>3. Bytes(p) = Len(p) /\ Len(p) \in Nat
      BY <2>1, <3>1, BytesBounds, TextIsSequence
    <3>4. ~Hashable(p) => Len(p) > MaximumHashedLength
      BY <2>1, <3>3 DEF Hashable
    <3> QED
      BY <2>2, <3>2, <3>4 DEF Register
  <2> QED
    BY <2>3, <2>4
<1>2. NarrowInputAsPromised
  BY <1>1 DEF NarrowInputAsPromised
<1> QED
  BY <1>2, PTL

(* ... and where it may be more, for any widths, it strays from its        *)
(* messages only where it takes bytes for symbols.                         *)
THEOREM WideInput == Spec => []WideInputOffByBytes
<1>1. MaxNameLength + 1 \in Nat /\ MaxText \in Nat
  BY InputAssumption
<1>2. \A name \in Texts(MaxNameLength + 1) :
        /\ ValidName(name) => PromisedName(name)
        /\ PromisedName(name) /\ ~ValidName(name) => Bytes(name) > MaxNameLength
  BY <1>1, MisjudgedNames
<1>3. \A p \in Texts(MaxText) :
        /\ ValidatePassword(p) /\ ~PromisedPassword(p) =>
             Len(p) < MinimumPasswordLength /\ MinimumPasswordLength <= UTFMax * Len(p)
        /\ PromisedPassword(p) /\ ~ValidatePassword(p) => Bytes(p) > MaximumPasswordLength
  BY <1>1, MisjudgedPasswords
<1>4. WideInputOffByBytes
  BY <1>2, <1>3 DEF WideInputOffByBytes
<1> QED
  BY <1>4, PTL

=============================================================================
