--------------------------- MODULE RefreshTokens ---------------------------
(***************************************************************************)
(* The refresh-token store under concurrent requests.  The handlers Login, *)
(* Refresh, Logout and the OIDC Callback run as transactions, one SQL      *)
(* statement per step, against the table auth_service.refresh_tokens.      *)
(*                                                                         *)
(* Tables hold what is committed.  A request keeps its own uncommitted     *)
(* writes (retired, fresh) and the row locks it took; Commit publishes the *)
(* former and both go when the transaction ends.  The handlers may run in  *)
(* several replicas of the service: all they share is the database.        *)
(***************************************************************************)
EXTENDS FiniteSets, Naturals

CONSTANTS Users,         \* accounts
          LocalUsers,    \* accounts that registered with a password
          Tokens,        \* refresh-token ids
          Requests,      \* handler goroutines, over all replicas
          MaxLapsed,     \* bound: tokens that outlive their thirty days
          None           \* SQL NULL / Go nil

ASSUME RequestsAssumption ==
  /\ LocalUsers \subseteq Users
  /\ MaxLapsed \in Nat
  /\ None \notin Users \cup Tokens \cup Requests

VARIABLES
  \* the database
  row,       \* refresh_tokens.revoked_at: "absent", "live" or "revoked"
  userOf,    \* refresh_tokens.user_id
  lapsed,    \* tokens whose expires_at has passed
  verified,  \* users.email_verified
  rowLock,   \* who holds the row lock of a token
  \* the requests
  pc,        \* next statement of the handler
  req,       \* what was asked: handler, account, cookie
  seen,      \* RevokedAt, as the first SELECT returned it
  retired,   \* uncommitted UPDATE ... SET revoked_at
  fresh,     \* uncommitted INSERT, later the token of the answer
  err,       \* the error the service returned
  \* the clients
  delivered, \* tokens a client received in a Set-Cookie header
  family     \* history: the login whose session a token carries on

database == <<row, userOf, lapsed, verified, family>>
vars == <<database, req, rowLock, pc, seen, retired, fresh, err, delivered>>

Service == INSTANCE TokenService

-----------------------------------------------------------------------------
(* Errors, and what each handler makes of them.                            *)

Errors == {"nil", "ErrWrongLoginCredentials", "ErrEmailNotVerified",
           "ErrTokenNotFound", "ErrInvalidRefreshToken",
           "ErrRefreshTokenRevoked", "ErrExpiredRefreshToken",
           "ErrBadFormat", "ErrNoCookie", "ErrDatabase"}

IsInvalidRefreshTokenError(e) ==
  e \in {"ErrRefreshTokenRevoked", "ErrExpiredRefreshToken", "ErrInvalidRefreshToken"}

IsRefreshTokenNotFound(e) == e = "ErrInvalidRefreshToken"

(* The effect of an answer on the client's refresh_token cookie.           *)
LoginCookie(e) == IF e = "nil" THEN "set" ELSE "keep"

(* Mutant of RefreshCookie: every error clears the cookie.                 *)
RefreshCookieClearsOnError(e) == IF e = "nil" THEN "set" ELSE "clear"

RefreshCookie(e) ==
  CASE e = "nil" -> "set"
    [] IsInvalidRefreshTokenError(e) -> "clear"
    [] OTHER -> "keep"

LogoutCookie(e) ==
  IF e \in {"nil", "ErrNoCookie"} \/ IsRefreshTokenNotFound(e) THEN "clear" ELSE "keep"

CallbackCookie(e) == IF e = "nil" THEN "set" ELSE "keep"

Cookie(r) ==
  CASE req[r].op = "Login" -> LoginCookie(err[r])
    [] req[r].op = "Refresh" -> RefreshCookie(err[r])
    [] req[r].op = "Logout" -> LogoutCookie(err[r])
    [] OTHER -> CallbackCookie(err[r])

-----------------------------------------------------------------------------
(* What a request can carry in its cookie: nothing, text that is no token, *)
(* the id of no row, a token signed with an earlier REFRESH_TOKEN_SECRET,  *)
(* or a token as it was delivered.                                         *)
Forms == {"none", "malformed", "unknown", "mismatched", "genuine"}

Ops == {"Login", "Callback", "Refresh", "Logout"}

Request == [op : Ops, who : Users \cup {None}, form : Forms, tok : Tokens \cup {None}]

NoRequest == [op |-> "Login", who |-> None, form |-> "none", tok |-> None]

InTx == {"authenticate", "get", "check", "revoke", "issue", "commit"}

(* The first statement of a handler, after BeginContext.                   *)
Entry(o) ==
  CASE o = "Login" -> "authenticate"
    [] o = "Callback" -> "issue"
    [] OTHER -> "get"

(* End of a transaction: its row locks are released.                       *)
ReleaseLocks(r) == rowLock' = [t \in Tokens |-> IF rowLock[t] = r THEN None ELSE rowLock[t]]

(* Mutant of Refuse: an early return without the deferred rollback.        *)
RefuseWithoutRollback(r, e) ==
  /\ err' = [err EXCEPT ![r] = e]
  /\ pc' = [pc EXCEPT ![r] = "answer"]
  /\ UNCHANGED <<database, rowLock, req, seen, retired, fresh, delivered>>

(* A handler returns early: the deferred RollbackUnlessCommitted drops     *)
(* what the transaction wrote, and the error is mapped to an answer.       *)
Refuse(r, e) ==
  /\ ReleaseLocks(r)
  /\ seen' = [seen EXCEPT ![r] = "absent"]
  /\ retired' = [retired EXCEPT ![r] = None]
  /\ fresh' = [fresh EXCEPT ![r] = None]
  /\ err' = [err EXCEPT ![r] = e]
  /\ pc' = [pc EXCEPT ![r] = "answer"]
  /\ UNCHANGED <<database, req, delivered>>

(* A statement that moves the handler on and touches no committed row.     *)
Advance(r, to) ==
  /\ pc' = [pc EXCEPT ![r] = to]
  /\ UNCHANGED <<database, req, err, delivered>>

-----------------------------------------------------------------------------
(* A request arrives and its transaction begins.                           *)
Start(r, q) ==
  /\ pc[r] = "idle"
  /\ req' = [req EXCEPT ![r] = q]
  /\ pc' = [pc EXCEPT ![r] = Entry(q.op)]
  /\ UNCHANGED <<database, rowLock, seen, retired, fresh, err, delivered>>

StartLogin(r) == \E u \in Users : Start(r, [NoRequest EXCEPT !.who = u])

(* FindOrCreateByOAuthIdentity resolved or created a provider's account.   *)
StartCallback(r) ==
  \E u \in Users \ LocalUsers : Start(r, [NoRequest EXCEPT !.op = "Callback", !.who = u])

StartWithCookie(r, o) ==
  \/ \E f \in {"malformed", "unknown"} :
       Start(r, [NoRequest EXCEPT !.op = o, !.form = f])
  \/ \E f \in {"mismatched", "genuine"}, t \in delivered :
       Start(r, [NoRequest EXCEPT !.op = o, !.form = f, !.tok = t])

(* Refresh and Logout answer a request without the cookie at once.         *)
StartWithoutCookie(r, o) ==
  /\ pc[r] = "idle"
  /\ req' = [req EXCEPT ![r] = [NoRequest EXCEPT !.op = o]]
  /\ pc' = [pc EXCEPT ![r] = "answer"]
  /\ err' = [err EXCEPT ![r] = "ErrNoCookie"]
  /\ UNCHANGED <<database, rowLock, seen, retired, fresh, delivered>>

(* Mutant of Authenticate: EmailVerified is not looked at.                 *)
AuthenticateUnverified(r) ==
  /\ pc[r] = "authenticate"
  /\ req[r].who \in LocalUsers
  /\ Advance(r, "issue")
  /\ UNCHANGED <<rowLock, seen, retired, fresh>>

(* auth.service.Login up to GenerateBundle.                                *)
Authenticate(r) ==
  \/ /\ pc[r] = "authenticate"
     /\ req[r].who \notin LocalUsers
     /\ Refuse(r, "ErrWrongLoginCredentials")
  \/ /\ pc[r] = "authenticate"
     /\ req[r].who \in LocalUsers \ verified
     /\ Refuse(r, "ErrEmailNotVerified")
  \/ /\ pc[r] = "authenticate"
     /\ req[r].who \in LocalUsers \cap verified
     /\ Refuse(r, "ErrWrongLoginCredentials")
  \/ /\ pc[r] = "authenticate"
     /\ req[r].who \in LocalUsers \cap verified
     /\ Advance(r, "issue")
     /\ UNCHANGED <<rowLock, seen, retired, fresh>>

(* Mutant of Get: a plain SELECT, without FOR UPDATE.                      *)
GetWithoutLock(r) ==
  /\ pc[r] = "get"
  /\ req[r].form = "genuine"
  /\ Advance(r, IF req[r].op = "Refresh" THEN "check" ELSE "revoke")
  /\ seen' = [seen EXCEPT ![r] = row[req[r].tok]]
  /\ UNCHANGED <<rowLock, retired, fresh>>

(* refresh_tokens.service.Get: the id is cut out of the cookie, the row is *)
(* read with SELECT ... FOR UPDATE, then the HMAC is compared.             *)
Get(r) ==
  \/ /\ pc[r] = "get"
     /\ req[r].form = "malformed"
     /\ Refuse(r, "ErrBadFormat")
  \/ /\ pc[r] = "get"
     /\ req[r].form = "unknown"
     /\ Refuse(r, "ErrTokenNotFound")
  \/ /\ pc[r] = "get"
     /\ req[r].form = "mismatched"
     /\ rowLock[req[r].tok] = None
     /\ Refuse(r, "ErrInvalidRefreshToken")
  \/ /\ pc[r] = "get"
     /\ req[r].form = "genuine"
     /\ rowLock[req[r].tok] = None
     /\ Advance(r, IF req[r].op = "Refresh" THEN "check" ELSE "revoke")
     /\ rowLock' = [rowLock EXCEPT ![req[r].tok] = r]
     /\ seen' = [seen EXCEPT ![r] = row[req[r].tok]]
     /\ UNCHANGED <<retired, fresh>>

(* Mutant of Check: RevokedAt is not looked at.                            *)
CheckExpiryOnly(r) ==
  /\ pc[r] = "check"
  /\ req[r].tok \notin lapsed
  /\ Advance(r, "revoke")
  /\ UNCHANGED <<rowLock, seen, retired, fresh>>

(* token_bundle.service.Refresh between Get and Revoke.  Accounts are      *)
(* never deleted, so FindByID fails only with the database.                *)
Check(r) ==
  \/ /\ pc[r] = "check"
     /\ seen[r] = "revoked"
     /\ Refuse(r, "ErrRefreshTokenRevoked")
  \/ /\ pc[r] = "check"
     /\ seen[r] # "revoked"
     /\ req[r].tok \in lapsed
     /\ Refuse(r, "ErrExpiredRefreshToken")
  \/ /\ pc[r] = "check"
     /\ seen[r] # "revoked"
     /\ req[r].tok \notin lapsed
     /\ Advance(r, "revoke")
     /\ UNCHANGED <<rowLock, seen, retired, fresh>>

(* Mutant of RevokeToken: the UPDATE runs outside the transaction.         *)
RevokeTokenAtOnce(r) ==
  /\ pc[r] = "revoke"
  /\ row' = [row EXCEPT ![req[r].tok] = "revoked"]
  /\ pc' = [pc EXCEPT ![r] = IF req[r].op = "Refresh" THEN "issue" ELSE "commit"]
  /\ UNCHANGED <<userOf, lapsed, verified, family, req, rowLock, seen, retired,
                 fresh, err, delivered>>

(* UPDATE ... SET revoked_at = now(): takes the row lock unless held.      *)
RevokeToken(r) ==
  /\ pc[r] = "revoke"
  /\ rowLock[req[r].tok] \in {None, r}
  /\ Advance(r, IF req[r].op = "Refresh" THEN "issue" ELSE "commit")
  /\ rowLock' = [rowLock EXCEPT ![req[r].tok] = r]
  /\ retired' = [retired EXCEPT ![r] = req[r].tok]
  /\ UNCHANGED <<seen, fresh>>

(* GenerateBundle: a new id, and the INSERT of its row.                    *)
GenerateBundle(r) ==
  /\ pc[r] = "issue"
  /\ Advance(r, "commit")
  /\ \E n \in Tokens :
       /\ row[n] = "absent"
       /\ \A q \in Requests : fresh[q] # n
       /\ fresh' = [fresh EXCEPT ![r] = n]
  /\ UNCHANGED <<rowLock, seen, retired>>

(* Mutant of Owner: the cookie's token id is taken for the user's id.      *)
OwnerIsToken(r) == IF req[r].op = "Refresh" THEN req[r].tok ELSE req[r].who

(* The account the new row belongs to, and the session it carries on.      *)
Owner(r) == IF req[r].op = "Refresh" THEN userOf[req[r].tok] ELSE req[r].who
Session(r) == IF req[r].op = "Refresh" THEN family[req[r].tok] ELSE fresh[r]

(* The transaction's writes become visible, all of them at once.           *)
Publish(r) ==
  /\ row' = [t \in Tokens |-> CASE t = fresh[r] -> "live"
                                [] t = retired[r] -> "revoked"
                                [] OTHER -> row[t]]
  /\ userOf' = [t \in Tokens |-> IF t = fresh[r] THEN Owner(r) ELSE userOf[t]]
  /\ family' = [t \in Tokens |-> IF t = fresh[r] THEN Session(r) ELSE family[t]]
  /\ ReleaseLocks(r)
  /\ seen' = [seen EXCEPT ![r] = "absent"]
  /\ retired' = [retired EXCEPT ![r] = None]
  /\ pc' = [pc EXCEPT ![r] = "answer"]
  /\ UNCHANGED <<lapsed, verified, req, delivered>>

Commit(r) ==
  /\ pc[r] = "commit"
  /\ Publish(r)
  /\ UNCHANGED <<fresh, err>>

(* The COMMIT took effect but its acknowledgement was lost: the handler    *)
(* sees an error, and the rollback that follows has nothing to undo.       *)
CommitUnacknowledged(r) ==
  /\ pc[r] = "commit"
  /\ Publish(r)
  /\ fresh' = [fresh EXCEPT ![r] = None]
  /\ err' = [err EXCEPT ![r] = "ErrDatabase"]

(* Mutant of Fail: the error of tx.Commit is ignored.                      *)
FailIgnoresCommit(r) ==
  /\ pc[r] = "commit"
  /\ ReleaseLocks(r)
  /\ pc' = [pc EXCEPT ![r] = "answer"]
  /\ UNCHANGED <<database, req, seen, retired, fresh, err, delivered>>

(* Any statement fails, or the two seconds of the request's context end    *)
(* while it runs or waits for a row lock.  Login takes every error of      *)
(* FindByEmail for wrong credentials.                                      *)
Fail(r) ==
  /\ pc[r] \in InTx
  /\ Refuse(r, IF pc[r] = "authenticate" THEN "ErrWrongLoginCredentials" ELSE "ErrDatabase")

(* The handler is done with the request.                                   *)
Finish(r) ==
  /\ pc' = [pc EXCEPT ![r] = "idle"]
  /\ req' = [req EXCEPT ![r] = NoRequest]
  /\ seen' = [seen EXCEPT ![r] = "absent"]
  /\ retired' = [retired EXCEPT ![r] = None]
  /\ fresh' = [fresh EXCEPT ![r] = None]
  /\ err' = [err EXCEPT ![r] = "nil"]
  /\ UNCHANGED database

(* The answer reaches the client; only then does it hold the new token.    *)
Answer(r) ==
  /\ pc[r] = "answer"
  /\ delivered' = IF Cookie(r) = "set" THEN delivered \cup {fresh[r]} ELSE delivered
  /\ Finish(r)
  /\ UNCHANGED rowLock

(* The replica stops or the connection breaks: the server rolls back what  *)
(* was open, and whatever was to be answered is lost.                      *)
Vanish(r) ==
  /\ pc[r] # "idle"
  /\ ReleaseLocks(r)
  /\ Finish(r)
  /\ UNCHANGED delivered

-----------------------------------------------------------------------------
(* Thirty days pass for a token.                                           *)
Lapse(t) ==
  /\ row[t] # "absent"
  /\ t \notin lapsed
  /\ Cardinality(lapsed) < MaxLapsed
  /\ lapsed' = lapsed \cup {t}
  /\ UNCHANGED <<row, userOf, verified, family, req, rowLock, pc, seen, retired,
                 fresh, err, delivered>>

(* VerifyUser commits in another request (module EmailVerification).       *)
VerifyEmail(u) ==
  /\ u \in LocalUsers \ verified
  /\ verified' = verified \cup {u}
  /\ UNCHANGED <<row, userOf, lapsed, family, req, rowLock, pc, seen, retired,
                 fresh, err, delivered>>

Init ==
  /\ row = [t \in Tokens |-> "absent"]
  /\ userOf = [t \in Tokens |-> None]
  /\ family = [t \in Tokens |-> None]
  /\ lapsed = {}
  /\ verified = Users \ LocalUsers
  /\ rowLock = [t \in Tokens |-> None]
  /\ pc = [r \in Requests |-> "idle"]
  /\ req = [r \in Requests |-> NoRequest]
  /\ seen = [r \in Requests |-> "absent"]
  /\ retired = [r \in Requests |-> None]
  /\ fresh = [r \in Requests |-> None]
  /\ err = [r \in Requests |-> "nil"]
  /\ delivered = {}

(* The steps a handler goroutine takes by itself.                          *)
Handler(r) ==
  \/ Authenticate(r)
  \/ Get(r)
  \/ Check(r)
  \/ RevokeToken(r)
  \/ GenerateBundle(r)
  \/ Commit(r)
  \/ CommitUnacknowledged(r)
  \/ Fail(r)
  \/ Answer(r)

Next ==
  \/ \E r \in Requests : StartLogin(r)
  \/ \E r \in Requests : StartCallback(r)
  \/ \E r \in Requests : StartWithCookie(r, "Refresh")
  \/ \E r \in Requests : StartWithCookie(r, "Logout")
  \/ \E r \in Requests : StartWithoutCookie(r, "Refresh")
  \/ \E r \in Requests : StartWithoutCookie(r, "Logout")
  \/ \E r \in Requests : Handler(r)
  \/ \E r \in Requests : Vanish(r)
  \/ \E t \in Tokens : Lapse(t)
  \/ \E u \in Users : VerifyEmail(u)

Spec == Init /\ [][Next]_vars

(* A handler keeps running: every statement returns or its context ends.   *)
FairSpec == Spec /\ \A r \in Requests : WF_vars(Handler(r))

-----------------------------------------------------------------------------
TypeOK ==
  /\ Service!ServiceTypeOK
  /\ lapsed \subseteq Tokens
  /\ rowLock \in [Tokens -> Requests \cup {None}]
  /\ pc \in [Requests -> InTx \cup {"idle", "answer"}]
  /\ req \in [Requests -> Request]
  /\ seen \in [Requests -> {"absent", "live", "revoked"}]
  /\ retired \in [Requests -> Tokens \cup {None}]
  /\ fresh \in [Requests -> Tokens \cup {None}]
  /\ err \in [Requests -> Errors]
  /\ delivered \subseteq Tokens

(* However refreshes, logouts, failures and restarts interleave, a session *)
(* never has two tokens that can both be exchanged (Refresh reads the row  *)
(* FOR UPDATE before it looks at RevokedAt).                               *)
OneLivePerSession ==
  \A t1, t2 \in Tokens :
    row[t1] = "live" /\ row[t2] = "live" /\ family[t1] = family[t2] => t1 = t2

(* A session is carried on only in the very step that revokes the token it *)
(* was carried by: Revoke and GenerateBundle of a Refresh commit together  *)
(* or not at all, whatever fails between them.                             *)
RotationAtomic ==
  [][\A n \in Tokens :
       row[n] = "absent" /\ row'[n] # "absent" /\ family'[n] # n =>
         \E t \in Tokens : /\ row[t] = "live"
                           /\ row'[t] = "revoked"
                           /\ family[t] = family'[n]]_vars

(* Refresh and Logout take the cookie away from a client only when the     *)
(* token in it is of no more use: never because of a database error, and   *)
(* never on the strength of a row that another request was still changing. *)
ClearedTokenIsDead ==
  \A r \in Requests :
    pc[r] = "answer" /\ Cookie(r) = "clear" /\ req[r].form = "genuine" =>
      row[req[r].tok] = "revoked" \/ req[r].tok \in lapsed

(* A client is never handed a token the database does not have: the cookie *)
(* is set only after tx.Commit returned without an error.                  *)
AnsweredTokenIsStored ==
  /\ \A t \in delivered : row[t] # "absent"
  /\ \A r \in Requests :
       pc[r] = "answer" /\ Cookie(r) = "set" => fresh[r] # None /\ row[fresh[r]] # "absent"

(* Every token belongs to the account that logged in, through any chain of *)
(* refreshes, and that account's e-mail address is verified.               *)
SessionsOfVerifiedUsers ==
  \A t \in Tokens :
    row[t] # "absent" => userOf[t] \in verified /\ userOf[t] = userOf[family[t]]

(* r waits for the row lock that q holds.                                  *)
WaitsFor(r, q) ==
  /\ r # q
  /\ \/ pc[r] = "get" /\ req[r].form \in {"mismatched", "genuine"}
     \/ pc[r] = "revoke"
  /\ rowLock[req[r].tok] = q

(* Refreshes and logouts never deadlock, however many meet on however many *)
(* rows: whoever a request waits for has nobody to wait for.  A handler    *)
(* locks one row, that of its cookie, and leaves no lock behind when it is *)
(* done.                                                                   *)
RequestsNeverDeadlock ==
  \A r, q, p \in Requests : WaitsFor(r, q) => ~WaitsFor(q, p)

(* The inductive invariant behind these, one part per idea.  A row stays   *)
(* as a handler saw it while the handler holds its lock; a new id belongs  *)
(* to one handler; an answer carries the error its statement met.          *)
HasToken(r) == req[r].op \in {"Refresh", "Logout"}

HandlerShape ==
  \A r \in Requests :
    /\ pc[r] = "authenticate" => req[r].op = "Login"
    /\ pc[r] \in {"get", "revoke"} => HasToken(r)
    /\ pc[r] = "check" => req[r].op = "Refresh"
    /\ pc[r] = "issue" => req[r].op # "Logout"
    /\ pc[r] # "idle" /\ req[r].op = "Callback" => req[r].who \in Users \ LocalUsers
    /\ pc[r] \in {"issue", "commit"} /\ req[r].op = "Login" => req[r].who \in verified
    /\ req[r].form \in {"genuine", "mismatched"} => req[r].tok \in delivered

LockHeld ==
  \A r \in Requests :
    pc[r] \in {"check", "revoke", "issue", "commit"} /\ HasToken(r) =>
      req[r].form = "genuine" /\ rowLock[req[r].tok] = r

RowAsSeen ==
  \A r \in Requests :
    /\ pc[r] = "check" => seen[r] = row[req[r].tok]
    /\ pc[r] \in {"revoke", "issue", "commit"} /\ req[r].op = "Refresh" =>
         row[req[r].tok] = "live"

HasRetired(r) ==
  \/ pc[r] = "issue" /\ req[r].op = "Refresh"
  \/ pc[r] = "commit" /\ HasToken(r)

Pending ==
  /\ \A r \in Requests :
       /\ retired[r] = IF HasRetired(r) THEN req[r].tok ELSE None
       /\ pc[r] = "commit" => (fresh[r] # None <=> req[r].op # "Logout")
       /\ fresh[r] # None => pc[r] \in {"commit", "answer"}
       /\ fresh[r] # None => (row[fresh[r]] = "absent" <=> pc[r] = "commit")
  /\ \A r, q \in Requests : fresh[r] # None /\ fresh[r] = fresh[q] => r = q

AnswerMatches ==
  \A r \in Requests :
    /\ pc[r] # "answer" => err[r] = "nil"
    /\ pc[r] = "answer" /\ err[r] = "nil" =>
         /\ fresh[r] # None <=> req[r].op # "Logout"
         /\ HasToken(r) => req[r].form = "genuine" /\ row[req[r].tok] = "revoked"
    /\ err[r] = "ErrInvalidRefreshToken" \/ err[r] = "ErrNoCookie" => req[r].form # "genuine"
    /\ err[r] = "ErrRefreshTokenRevoked" =>
         req[r].form = "genuine" /\ row[req[r].tok] = "revoked"
    /\ err[r] = "ErrExpiredRefreshToken" => req[r].tok \in lapsed

Sessions ==
  /\ Users \ LocalUsers \subseteq verified
  /\ \A t \in delivered : row[t] # "absent"
  /\ \A t \in Tokens :
       row[t] # "absent" => /\ family[t] \in Tokens
                           /\ row[family[t]] # "absent"
                           /\ userOf[t] \in verified
                           /\ userOf[t] = userOf[family[t]]

IInv ==
  /\ TypeOK
  /\ HandlerShape
  /\ LockHeld
  /\ RowAsSeen
  /\ Pending
  /\ AnswerMatches
  /\ Sessions
  /\ OneLivePerSession

(* No handler keeps a row lock: whichever way it ends, its transaction     *)
(* ends with it (the deferred RollbackUnlessCommitted).                    *)
LocksReleased ==
  \A t \in Tokens, r \in Requests : rowLock[t] = r ~> rowLock[t] # r

(* The store behaves as if each transaction were one atomic step.          *)
ImplementsService == Service!ServiceSpec

(* README, Logout Flow: the refresh token cookie is cleared.  It should be *)
(* so for a token the database does not know, once Logout found that out.  *)
UnknownTokenLogoutClears ==
  \A r \in Requests :
    pc[r] = "answer" /\ req[r].op = "Logout" /\ err[r] = "ErrTokenNotFound" =>
      Cookie(r) = "clear"

=============================================================================
