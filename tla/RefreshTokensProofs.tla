------------------------ MODULE RefreshTokensProofs ------------------------
(***************************************************************************)
(* Proofs about RefreshTokens, for any number of accounts, tokens and      *)
(* requests: IInv is inductive, the safety properties follow from it, and  *)
(* under it every step is a step of TokenService or leaves its state alone.*)
(***************************************************************************)
EXTENDS RefreshTokens, TLAPS

(* A request arrives. *)
LEMMA StartStep ==
  ASSUME IInv,
         NEW r \in Requests,
         NEW q \in Request,
         Start(r, q),
         q.op = "Callback" => q.who \in Users \ LocalUsers,
         q.form \in {"genuine", "mismatched"} => q.tok \in delivered
  PROVE  IInv'
<1> USE RequestsAssumption DEF IInv, database, Start, Entry
<1>1. TypeOK'
  BY DEF TypeOK, Service!ServiceTypeOK, Request, Forms, Ops, InTx, NoRequest, Errors
<1>2. HandlerShape'
  BY DEF TypeOK, HandlerShape, HasToken, InTx, NoRequest, Request, Ops
<1>3. LockHeld'
  BY DEF TypeOK, LockHeld, HandlerShape, HasToken, InTx
<1>4. RowAsSeen'
  BY DEF TypeOK, RowAsSeen, HandlerShape, HasToken, InTx, LockHeld, Pending, HasRetired
<1>5. Pending'
  BY DEF TypeOK, Pending, HasRetired, HandlerShape, HasToken, InTx
<1>6. AnswerMatches'
  BY DEF TypeOK, AnswerMatches, HandlerShape, HasToken, InTx, Pending, HasRetired
<1>7. Sessions'
  BY DEF TypeOK, Sessions, Service!ServiceTypeOK
<1>8. OneLivePerSession'
  BY DEF TypeOK, OneLivePerSession, Service!ServiceTypeOK
<1> QED
  BY <1>1, <1>2, <1>3, <1>4, <1>5, <1>6, <1>7, <1>8

(* A request arrives without its cookie. *)
LEMMA NoCookieStep ==
  ASSUME IInv,
         NEW r \in Requests,
         NEW o \in {"Refresh", "Logout"},
         StartWithoutCookie(r, o)
  PROVE  IInv'
<1> USE RequestsAssumption DEF IInv, database, StartWithoutCookie, NoRequest
<1>1. TypeOK'
  BY DEF TypeOK, Service!ServiceTypeOK, Request, Forms, Ops, InTx, NoRequest, Errors
<1>2. HandlerShape'
  BY DEF TypeOK, HandlerShape, HasToken, InTx, NoRequest
<1>3. LockHeld'
  BY DEF TypeOK, LockHeld, HandlerShape, HasToken, InTx
<1>4. RowAsSeen'
  BY DEF TypeOK, RowAsSeen, HandlerShape, HasToken, InTx, LockHeld, Pending, HasRetired
<1>5. Pending'
  BY DEF TypeOK, Pending, HasRetired, HandlerShape, HasToken, InTx
<1>6. AnswerMatches'
  BY DEF TypeOK, AnswerMatches, HandlerShape, HasToken, InTx, Pending, HasRetired
<1>7. Sessions'
  BY DEF TypeOK, Sessions, Service!ServiceTypeOK
<1>8. OneLivePerSession'
  BY DEF TypeOK, OneLivePerSession, Service!ServiceTypeOK
<1> QED
  BY <1>1, <1>2, <1>3, <1>4, <1>5, <1>6, <1>7, <1>8

(* A handler returns early with an error that fits what it saw. *)
LEMMA RefuseStep ==
  ASSUME IInv,
         NEW r \in Requests,
         NEW e \in Errors \ {"nil", "ErrNoCookie"},
         Refuse(r, e),
         pc[r] \in InTx,
         e = "ErrInvalidRefreshToken" => req[r].form # "genuine",
         e = "ErrRefreshTokenRevoked" => req[r].form = "genuine" /\ row[req[r].tok] = "revoked",
         e = "ErrExpiredRefreshToken" => req[r].tok \in lapsed
  PROVE  IInv'
<1> USE RequestsAssumption DEF IInv, database, Refuse, ReleaseLocks
<1>1. TypeOK'
  BY DEF TypeOK, Service!ServiceTypeOK, Request, Forms, Ops, InTx, NoRequest, Errors
<1>2. HandlerShape'
  BY DEF TypeOK, HandlerShape, HasToken, InTx, NoRequest
<1>3. LockHeld'
  BY DEF TypeOK, LockHeld, HandlerShape, HasToken, InTx
<1>4. RowAsSeen'
  BY DEF TypeOK, RowAsSeen, HandlerShape, HasToken, InTx, LockHeld, Pending, HasRetired
<1>5. Pending'
  BY DEF TypeOK, Pending, HasRetired, HandlerShape, HasToken, InTx
<1>6. AnswerMatches'
  BY DEF TypeOK, AnswerMatches, HandlerShape, HasToken, InTx, Pending, HasRetired
<1>7. Sessions'
  BY DEF TypeOK, Sessions, Service!ServiceTypeOK
<1>8. OneLivePerSession'
  BY DEF TypeOK, OneLivePerSession, Service!ServiceTypeOK
<1> QED
  BY <1>1, <1>2, <1>3, <1>4, <1>5, <1>6, <1>7, <1>8

(* The password matched. *)
LEMMA AuthenticateStep ==
  ASSUME IInv,
         NEW r \in Requests,
         pc[r] = "authenticate",
         req[r].who \in LocalUsers \cap verified,
         Advance(r, "issue"),
         UNCHANGED <<rowLock,
         seen, retired, fresh>>
  PROVE  IInv'
<1> USE RequestsAssumption DEF IInv, database, Advance
<1>1. TypeOK'
  BY DEF TypeOK, Service!ServiceTypeOK, Request, Forms, Ops, InTx, NoRequest, Errors
<1>2. HandlerShape'
  BY DEF TypeOK, HandlerShape, HasToken, InTx, NoRequest
<1>3. LockHeld'
  BY DEF TypeOK, LockHeld, HandlerShape, HasToken, InTx
<1>4. RowAsSeen'
  BY DEF TypeOK, RowAsSeen, HandlerShape, HasToken, InTx, LockHeld, Pending, HasRetired
<1>5. Pending'
  BY DEF TypeOK, Pending, HasRetired, HandlerShape, HasToken, InTx
<1>6. AnswerMatches'
  BY DEF TypeOK, AnswerMatches, HandlerShape, HasToken, InTx, Pending, HasRetired
<1>7. Sessions'
  BY DEF TypeOK, Sessions, Service!ServiceTypeOK
<1>8. OneLivePerSession'
  BY DEF TypeOK, OneLivePerSession, Service!ServiceTypeOK
<1> QED
  BY <1>1, <1>2, <1>3, <1>4, <1>5, <1>6, <1>7, <1>8

(* The row is read and locked. *)
LEMMA GetStep ==
  ASSUME IInv,
         NEW r \in Requests,
         pc[r] = "get",
         req[r].form = "genuine",
         rowLock[req[r].tok] = None,
         Advance(r, IF req[r].op = "Refresh" THEN "check" ELSE "revoke"),
         rowLock' = [rowLock EXCEPT ![req[r].tok] = r],
         seen' = [seen EXCEPT ![r] = row[req[r].tok]],
         UNCHANGED <<retired, fresh>>
  PROVE  IInv'
<1> USE RequestsAssumption DEF IInv, database, Advance
<1>1. TypeOK'
  BY DEF TypeOK, Service!ServiceTypeOK, Request, Forms, Ops, InTx, NoRequest, Errors,
         HandlerShape
<1>2. HandlerShape'
  BY DEF TypeOK, HandlerShape, HasToken, InTx, NoRequest
<1>3. LockHeld'
  BY DEF TypeOK, LockHeld, HandlerShape, HasToken, InTx
<1>4. RowAsSeen'
  BY DEF TypeOK, RowAsSeen, HandlerShape, HasToken, InTx, LockHeld, Pending, HasRetired
<1>5. Pending'
  BY DEF TypeOK, Pending, HasRetired, HandlerShape, HasToken, InTx
<1>6. AnswerMatches'
  BY DEF TypeOK, AnswerMatches, HandlerShape, HasToken, InTx, Pending, HasRetired
<1>7. Sessions'
  BY DEF TypeOK, Sessions, Service!ServiceTypeOK
<1>8. OneLivePerSession'
  BY DEF TypeOK, OneLivePerSession, Service!ServiceTypeOK
<1> QED
  BY <1>1, <1>2, <1>3, <1>4, <1>5, <1>6, <1>7, <1>8

(* The row passed the checks of Refresh. *)
LEMMA CheckStep ==
  ASSUME IInv,
         NEW r \in Requests,
         pc[r] = "check",
         seen[r] # "revoked",
         req[r].tok \notin lapsed,
         Advance(r, "revoke"),
         UNCHANGED <<rowLock,
         seen, retired, fresh>>
  PROVE  IInv'
<1> USE RequestsAssumption DEF IInv, database, Advance
<1>1. TypeOK'
  BY DEF TypeOK, Service!ServiceTypeOK, Request, Forms, Ops, InTx, NoRequest, Errors
<1>2. HandlerShape'
  BY DEF TypeOK, HandlerShape, HasToken, InTx, NoRequest
<1>3. LockHeld'
  BY DEF TypeOK, LockHeld, HandlerShape, HasToken, InTx
<1>4. RowAsSeen'
  BY DEF TypeOK, RowAsSeen, HandlerShape, HasToken, InTx, LockHeld, Pending, HasRetired,
         Sessions, Service!ServiceTypeOK, Request
<1>5. Pending'
  BY DEF TypeOK, Pending, HasRetired, HandlerShape, HasToken, InTx
<1>6. AnswerMatches'
  BY DEF TypeOK, AnswerMatches, HandlerShape, HasToken, InTx, Pending, HasRetired
<1>7. Sessions'
  BY DEF TypeOK, Sessions, Service!ServiceTypeOK
<1>8. OneLivePerSession'
  BY DEF TypeOK, OneLivePerSession, Service!ServiceTypeOK
<1> QED
  BY <1>1, <1>2, <1>3, <1>4, <1>5, <1>6, <1>7, <1>8

(* The UPDATE of a refresh or a logout. *)
LEMMA RevokeStep ==
  ASSUME IInv, NEW r \in Requests, RevokeToken(r)
  PROVE  IInv'
<1> USE RequestsAssumption DEF IInv, database, RevokeToken, Advance
<1>1. TypeOK'
  BY DEF TypeOK, Service!ServiceTypeOK, Request, Forms, Ops, InTx, NoRequest, Errors
<1>2. HandlerShape'
  BY DEF TypeOK, HandlerShape, HasToken, InTx, NoRequest
<1>3. LockHeld'
  BY DEF TypeOK, LockHeld, HandlerShape, HasToken, InTx
<1>4. RowAsSeen'
  BY DEF TypeOK, RowAsSeen, HandlerShape, HasToken, InTx, LockHeld, Pending, HasRetired
<1>5. Pending'
  BY DEF TypeOK, Pending, HasRetired, HandlerShape, HasToken, InTx
<1>6. AnswerMatches'
  BY DEF TypeOK, AnswerMatches, HandlerShape, HasToken, InTx, Pending, HasRetired
<1>7. Sessions'
  BY DEF TypeOK, Sessions, Service!ServiceTypeOK
<1>8. OneLivePerSession'
  BY DEF TypeOK, OneLivePerSession, Service!ServiceTypeOK
<1> QED
  BY <1>1, <1>2, <1>3, <1>4, <1>5, <1>6, <1>7, <1>8

(* The INSERT of a new token. *)
LEMMA GenerateStep ==
  ASSUME IInv, NEW r \in Requests, GenerateBundle(r)
  PROVE  IInv'
<1> USE RequestsAssumption DEF IInv, database, GenerateBundle, Advance
<1>1. TypeOK'
  BY DEF TypeOK, Service!ServiceTypeOK, Request, Forms, Ops, InTx, NoRequest, Errors
<1>2. HandlerShape'
  BY DEF TypeOK, HandlerShape, HasToken, InTx, NoRequest
<1>3. LockHeld'
  BY DEF TypeOK, LockHeld, HandlerShape, HasToken, InTx
<1>4. RowAsSeen'
  BY DEF TypeOK, RowAsSeen, HandlerShape, HasToken, InTx, LockHeld, Pending, HasRetired
<1>5. Pending'
  BY DEF TypeOK, Pending, HasRetired, HandlerShape, HasToken, InTx
<1>6. AnswerMatches'
  BY DEF TypeOK, AnswerMatches, HandlerShape, HasToken, InTx, Pending, HasRetired
<1>7. Sessions'
  BY DEF TypeOK, Sessions, Service!ServiceTypeOK
<1>8. OneLivePerSession'
  BY DEF TypeOK, OneLivePerSession, Service!ServiceTypeOK
<1> QED
  BY <1>1, <1>2, <1>3, <1>4, <1>5, <1>6, <1>7, <1>8

(* What a commit does to the tables.                                       *)
Published(r) ==
  /\ Service!ServiceTypeOK'
  /\ \A t \in Tokens : t # fresh[r] /\ t # retired[r] => row'[t] = row[t]
  /\ \A t \in Tokens : t # fresh[r] => userOf'[t] = userOf[t] /\ family'[t] = family[t]
  /\ fresh[r] # None => /\ fresh[r] \in Tokens
                        /\ row[fresh[r]] = "absent"
                        /\ row'[fresh[r]] = "live"
                        /\ userOf'[fresh[r]] = Owner(r)
                        /\ family'[fresh[r]] = Session(r)
                        /\ Owner(r) \in verified
  /\ retired[r] # None => /\ retired[r] \in Tokens
                          /\ retired[r] = req[r].tok
                          /\ rowLock[retired[r]] = r
                          /\ row[retired[r]] # "absent"
                          /\ row'[retired[r]] = "revoked"

(* To the other handlers: rows that exist stay, revoked ones stay revoked, *)
(* and only rows this handler has locked change.                           *)
OthersUndisturbed(r) ==
  \A t \in Tokens :
    /\ row[t] = "absent" /\ t # fresh[r] => row'[t] = "absent"
    /\ row[t] # "absent" => row'[t] # "absent"
    /\ row[t] = "revoked" => row'[t] = "revoked"
    /\ row[t] # "absent" /\ rowLock[t] # r => row'[t] = row[t]

(* A commit's two rows are its own, and no other handler holds the lock of *)
(* the one it revokes.                                                     *)
LEMMA PublishFacts ==
  ASSUME IInv, NEW r \in Requests, pc[r] = "commit", Publish(r)
  PROVE  Published(r) /\ OthersUndisturbed(r)
<1> USE RequestsAssumption DEF IInv, TypeOK, Service!ServiceTypeOK, Published
<1>1. /\ retired[r] # None => HasToken(r) /\ retired[r] = req[r].tok
      /\ HasToken(r) => retired[r] = req[r].tok /\ retired[r] \in Tokens
      /\ fresh[r] # None <=> req[r].op # "Logout"
      /\ fresh[r] # None => row[fresh[r]] = "absent"
  BY DEF Pending, HasRetired, HandlerShape, LockHeld
<1>2. retired[r] # None => rowLock[retired[r]] = r /\ row[retired[r]] # "absent"
  BY <1>1 DEF LockHeld, HandlerShape, Sessions
<1>3. fresh[r] # None => Owner(r) \in verified
  BY <1>1, <1>2 DEF Owner, HandlerShape, HasToken, Sessions, Request, Ops
<1>4. fresh[r] # None => Session(r) \in Tokens
  BY <1>1, <1>2 DEF Session, HasToken, Sessions
<1>5. Published(r)
  BY <1>1, <1>2, <1>3, <1>4 DEF Publish, database
<1>6. OthersUndisturbed(r)
  BY <1>1, <1>2, <1>5 DEF OthersUndisturbed
<1> QED
  BY <1>5, <1>6

(* The new token carries on the session of the one it replaces, or starts  *)
(* one of its own; either way it is the session's only live token.         *)
LEMMA PublishSessions ==
  ASSUME IInv, NEW r \in Requests, pc[r] = "commit",
         Published(r), OthersUndisturbed(r), UNCHANGED <<verified, delivered>>
  PROVE  Sessions' /\ OneLivePerSession'
<1> USE RequestsAssumption DEF IInv, TypeOK, Service!ServiceTypeOK, Published, OthersUndisturbed
<1>1. CASE fresh[r] = None
  BY <1>1 DEF Sessions, OneLivePerSession
<1>2. CASE fresh[r] # None /\ req[r].op = "Refresh"
  <2>1. /\ retired[r] = req[r].tok
        /\ retired[r] \in Tokens
        /\ row[retired[r]] = "live"
        /\ Session(r) = family[retired[r]]
        /\ Owner(r) = userOf[retired[r]]
    BY <1>2 DEF Pending, HasRetired, HasToken, LockHeld, HandlerShape, RowAsSeen, Session, Owner
  <2>2. Sessions'
    BY <1>2, <2>1 DEF Sessions
  <2>3. \A t \in Tokens : row'[t] = "live" /\ t # fresh[r] =>
          row[t] = "live" /\ family'[t] = family[t] /\ family[t] # Session(r)
    BY <1>2, <2>1 DEF OneLivePerSession
  <2>4. OneLivePerSession'
    BY <1>2, <2>3 DEF OneLivePerSession
  <2> QED
    BY <2>2, <2>4
<1>3. CASE fresh[r] # None /\ req[r].op # "Refresh"
  <2>1. Session(r) = fresh[r] /\ retired[r] = None
    BY <1>3 DEF Session, Pending, HasRetired, HasToken
  <2>2. Sessions'
    BY <1>3, <2>1 DEF Sessions
  <2>3. OneLivePerSession'
    BY <1>3, <2>1 DEF OneLivePerSession, Sessions
  <2> QED
    BY <2>2, <2>3
<1> QED
  BY <1>1, <1>2, <1>3

(* A commit that is acknowledged. *)
LEMMA CommitStep ==
  ASSUME IInv, NEW r \in Requests, Commit(r)
  PROVE  IInv'
<1> USE RequestsAssumption DEF IInv
<1>1. Published(r) /\ OthersUndisturbed(r)
  BY PublishFacts DEF Commit
<1>2. /\ pc[r] = "commit"
      /\ pc' = [pc EXCEPT ![r] = "answer"]
      /\ seen' = [seen EXCEPT ![r] = "absent"]
      /\ retired' = [retired EXCEPT ![r] = None]
      /\ rowLock' = [t \in Tokens |-> IF rowLock[t] = r THEN None ELSE rowLock[t]]
      /\ UNCHANGED <<lapsed, verified, req, delivered>>
  BY DEF Commit, Publish, ReleaseLocks
<1>3. UNCHANGED <<fresh, err>>
  BY DEF Commit
<1>4. TypeOK'
  BY <1>1, <1>2, <1>3 DEF TypeOK, Service!ServiceTypeOK, InTx, Errors, Published
<1>5. HandlerShape'
  BY <1>1, <1>2, <1>3 DEF TypeOK, HandlerShape, HasToken, InTx
<1>6. LockHeld'
  BY <1>1, <1>2, <1>3 DEF TypeOK, LockHeld, HandlerShape, HasToken, InTx
<1>7. RowAsSeen'
  BY <1>1, <1>2, <1>3 DEF TypeOK, RowAsSeen, HandlerShape, HasToken, LockHeld, Sessions,
         OthersUndisturbed
<1>8. Pending'
  BY <1>1, <1>2, <1>3 DEF TypeOK, Pending, HasRetired, HandlerShape, HasToken, InTx,
         Published, Service!ServiceTypeOK
<1>9. AnswerMatches'
  BY <1>1, <1>2, <1>3 DEF TypeOK, AnswerMatches, HandlerShape, LockHeld, HasToken, InTx,
         Pending, HasRetired, Published, OthersUndisturbed, Sessions
<1>10. Sessions' /\ OneLivePerSession'
  BY <1>1, <1>2, PublishSessions
<1> QED
  BY <1>4, <1>5, <1>6, <1>7, <1>8, <1>9, <1>10

(* A commit that is not. *)
LEMMA UnackStep ==
  ASSUME IInv, NEW r \in Requests, CommitUnacknowledged(r)
  PROVE  IInv'
<1> USE RequestsAssumption DEF IInv
<1>1. Published(r) /\ OthersUndisturbed(r)
  BY PublishFacts DEF CommitUnacknowledged
<1>2. /\ pc[r] = "commit"
      /\ pc' = [pc EXCEPT ![r] = "answer"]
      /\ seen' = [seen EXCEPT ![r] = "absent"]
      /\ retired' = [retired EXCEPT ![r] = None]
      /\ rowLock' = [t \in Tokens |-> IF rowLock[t] = r THEN None ELSE rowLock[t]]
      /\ UNCHANGED <<lapsed, verified, req, delivered>>
  BY DEF CommitUnacknowledged, Publish, ReleaseLocks
<1>3. /\ fresh' = [fresh EXCEPT ![r] = None]
      /\ err' = [err EXCEPT ![r] = "ErrDatabase"]
  BY DEF CommitUnacknowledged
<1>4. TypeOK'
  BY <1>1, <1>2, <1>3 DEF TypeOK, Service!ServiceTypeOK, InTx, Errors, Published
<1>5. HandlerShape'
  BY <1>1, <1>2, <1>3 DEF TypeOK, HandlerShape, HasToken, InTx
<1>6. LockHeld'
  BY <1>1, <1>2, <1>3 DEF TypeOK, LockHeld, HandlerShape, HasToken, InTx
<1>7. RowAsSeen'
  BY <1>1, <1>2, <1>3 DEF TypeOK, RowAsSeen, HandlerShape, HasToken, LockHeld, Sessions,
         OthersUndisturbed
<1>8. Pending'
  BY <1>1, <1>2, <1>3 DEF TypeOK, Pending, HasRetired, HandlerShape, HasToken, InTx,
         Published, Service!ServiceTypeOK
<1>9. AnswerMatches'
  BY <1>1, <1>2, <1>3 DEF TypeOK, AnswerMatches, HandlerShape, LockHeld, HasToken, InTx,
         Pending, HasRetired, Published, OthersUndisturbed, Sessions
<1>10. Sessions' /\ OneLivePerSession'
  BY <1>1, <1>2, PublishSessions
<1> QED
  BY <1>4, <1>5, <1>6, <1>7, <1>8, <1>9, <1>10

(* The answer is delivered. *)
LEMMA AnswerStep ==
  ASSUME IInv, NEW r \in Requests, Answer(r)
  PROVE  IInv'
<1> USE RequestsAssumption DEF IInv, database, Answer, Finish, Cookie, LoginCookie,
       RefreshCookie, LogoutCookie, CallbackCookie, IsInvalidRefreshTokenError,
       IsRefreshTokenNotFound, NoRequest
<1>1. TypeOK'
  BY DEF TypeOK, Service!ServiceTypeOK, Request, Forms, Ops, InTx, NoRequest, Errors,
         AnswerMatches, HasToken
<1>2. HandlerShape'
  BY DEF TypeOK, HandlerShape, HasToken, InTx, NoRequest
<1>3. LockHeld'
  BY DEF TypeOK, LockHeld, HandlerShape, HasToken, InTx
<1>4. RowAsSeen'
  BY DEF TypeOK, RowAsSeen, HandlerShape, HasToken, InTx, LockHeld, Pending, HasRetired
<1>5. Pending'
  BY DEF TypeOK, Pending, HasRetired, HandlerShape, HasToken, InTx
<1>6. AnswerMatches'
  BY DEF TypeOK, AnswerMatches, HandlerShape, HasToken, InTx, Pending, HasRetired
<1>7. Sessions'
  BY DEF TypeOK, Sessions, Service!ServiceTypeOK, Pending, AnswerMatches, Request, Ops, HasToken
<1>8. OneLivePerSession'
  BY DEF TypeOK, OneLivePerSession, Service!ServiceTypeOK
<1> QED
  BY <1>1, <1>2, <1>3, <1>4, <1>5, <1>6, <1>7, <1>8

(* The handler or its answer is lost. *)
LEMMA VanishStep ==
  ASSUME IInv, NEW r \in Requests, Vanish(r)
  PROVE  IInv'
<1> USE RequestsAssumption DEF IInv, database, Vanish, Finish, ReleaseLocks, NoRequest
<1>1. TypeOK'
  BY DEF TypeOK, Service!ServiceTypeOK, Request, Forms, Ops, InTx, NoRequest, Errors
<1>2. HandlerShape'
  BY DEF TypeOK, HandlerShape, HasToken, InTx, NoRequest
<1>3. LockHeld'
  BY DEF TypeOK, LockHeld, HandlerShape, HasToken, InTx
<1>4. RowAsSeen'
  BY DEF TypeOK, RowAsSeen, HandlerShape, HasToken, InTx, LockHeld, Pending, HasRetired
<1>5. Pending'
  BY DEF TypeOK, Pending, HasRetired, HandlerShape, HasToken, InTx
<1>6. AnswerMatches'
  BY DEF TypeOK, AnswerMatches, HandlerShape, HasToken, InTx, Pending, HasRetired
<1>7. Sessions'
  BY DEF TypeOK, Sessions, Service!ServiceTypeOK
<1>8. OneLivePerSession'
  BY DEF TypeOK, OneLivePerSession, Service!ServiceTypeOK
<1> QED
  BY <1>1, <1>2, <1>3, <1>4, <1>5, <1>6, <1>7, <1>8

(* Time passes. *)
LEMMA LapseStep ==
  ASSUME IInv, NEW t \in Tokens, Lapse(t)
  PROVE  IInv'
<1> USE RequestsAssumption DEF IInv, database, Lapse
<1>1. TypeOK'
  BY DEF TypeOK, Service!ServiceTypeOK, Request, Forms, Ops, InTx, NoRequest, Errors
<1>2. HandlerShape'
  BY DEF TypeOK, HandlerShape, HasToken, InTx, NoRequest
<1>3. LockHeld'
  BY DEF TypeOK, LockHeld, HandlerShape, HasToken, InTx
<1>4. RowAsSeen'
  BY DEF TypeOK, RowAsSeen, HandlerShape, HasToken, InTx, LockHeld, Pending, HasRetired
<1>5. Pending'
  BY DEF TypeOK, Pending, HasRetired, HandlerShape, HasToken, InTx
<1>6. AnswerMatches'
  BY DEF TypeOK, AnswerMatches, HandlerShape, HasToken, InTx, Pending, HasRetired
<1>7. Sessions'
  BY DEF TypeOK, Sessions, Service!ServiceTypeOK
<1>8. OneLivePerSession'
  BY DEF TypeOK, OneLivePerSession, Service!ServiceTypeOK
<1> QED
  BY <1>1, <1>2, <1>3, <1>4, <1>5, <1>6, <1>7, <1>8

(* An address is confirmed. *)
LEMMA VerifyStep ==
  ASSUME IInv, NEW u \in Users, VerifyEmail(u)
  PROVE  IInv'
<1> USE RequestsAssumption DEF IInv, database, VerifyEmail
<1>1. TypeOK'
  BY DEF TypeOK, Service!ServiceTypeOK, Request, Forms, Ops, InTx, NoRequest, Errors
<1>2. HandlerShape'
  BY DEF TypeOK, HandlerShape, HasToken, InTx, NoRequest
<1>3. LockHeld'
  BY DEF TypeOK, LockHeld, HandlerShape, HasToken, InTx
<1>4. RowAsSeen'
  BY DEF TypeOK, RowAsSeen, HandlerShape, HasToken, InTx, LockHeld, Pending, HasRetired
<1>5. Pending'
  BY DEF TypeOK, Pending, HasRetired, HandlerShape, HasToken, InTx
<1>6. AnswerMatches'
  BY DEF TypeOK, AnswerMatches, HandlerShape, HasToken, InTx, Pending, HasRetired
<1>7. Sessions'
  BY DEF TypeOK, Sessions, Service!ServiceTypeOK
<1>8. OneLivePerSession'
  BY DEF TypeOK, OneLivePerSession, Service!ServiceTypeOK
<1> QED
  BY <1>1, <1>2, <1>3, <1>4, <1>5, <1>6, <1>7, <1>8

-----------------------------------------------------------------------------
(* The inductive invariant holds at the start and is kept by every step.   *)
LEMMA InitInvariant == Init => IInv
BY RequestsAssumption
   DEF Init, IInv, TypeOK, Service!ServiceTypeOK, Request, Forms, Ops, NoRequest, InTx,
       Errors, HandlerShape, HasToken, LockHeld, RowAsSeen, Pending, HasRetired,
       AnswerMatches, Sessions, OneLivePerSession

LEMMA StutterStep == IInv /\ UNCHANGED vars => IInv'
BY DEF vars, database, IInv, TypeOK, Service!ServiceTypeOK, HandlerShape, HasToken,
       LockHeld, RowAsSeen, Pending, HasRetired, AnswerMatches, Sessions, OneLivePerSession

LEMMA HandlerStep ==
  ASSUME IInv, NEW r \in Requests, Handler(r)
  PROVE  IInv'
<1> USE DEF Errors, InTx
<1>1. CASE Authenticate(r)
  BY <1>1, RefuseStep, AuthenticateStep DEF Authenticate
<1>2. CASE Get(r)
  BY <1>2, RefuseStep, GetStep DEF Get
<1>3. CASE Check(r)
  <2>1. pc[r] = "check" => /\ req[r].form = "genuine"
                           /\ seen[r] = row[req[r].tok]
    BY DEF IInv, LockHeld, RowAsSeen, HandlerShape, HasToken
  <2>2. QED
    BY <1>3, <2>1, RefuseStep, CheckStep DEF Check
<1>4. CASE RevokeToken(r)
  BY <1>4, RevokeStep
<1>5. CASE GenerateBundle(r)
  BY <1>5, GenerateStep
<1>6. CASE Commit(r)
  BY <1>6, CommitStep
<1>7. CASE CommitUnacknowledged(r)
  BY <1>7, UnackStep
<1>8. CASE Fail(r)
  BY <1>8, RefuseStep DEF Fail
<1>9. CASE Answer(r)
  BY <1>9, AnswerStep
<1> QED
  BY <1>1, <1>2, <1>3, <1>4, <1>5, <1>6, <1>7, <1>8, <1>9 DEF Handler

LEMMA ArrivalStep ==
  ASSUME IInv, NEW r \in Requests,
         \/ StartLogin(r)
         \/ StartCallback(r)
         \/ \E o \in {"Refresh", "Logout"} : StartWithCookie(r, o) \/ StartWithoutCookie(r, o)
  PROVE  IInv'
<1> USE DEF Request, Ops, Forms, NoRequest
<1>0. delivered \subseteq Tokens
  BY DEF IInv, TypeOK
<1>1. CASE StartLogin(r)
  BY <1>1, StartStep DEF StartLogin
<1>2. CASE StartCallback(r)
  BY <1>2, StartStep DEF StartCallback
<1>3. ASSUME NEW o \in {"Refresh", "Logout"}, StartWithCookie(r, o)
      PROVE  IInv'
  BY <1>0, <1>3, StartStep DEF StartWithCookie
<1>4. ASSUME NEW o \in {"Refresh", "Logout"}, StartWithoutCookie(r, o)
      PROVE  IInv'
  BY <1>4, NoCookieStep
<1> QED
  BY <1>1, <1>2, <1>3, <1>4

LEMMA StepInvariant == IInv /\ [Next]_vars => IInv'
<1> SUFFICES ASSUME IInv, [Next]_vars
             PROVE  IInv'
  OBVIOUS
<1>1. ASSUME NEW r \in Requests, StartLogin(r) \/ StartCallback(r)
      PROVE  IInv'
  BY <1>1, ArrivalStep
<1>2. ASSUME NEW r \in Requests, NEW o \in {"Refresh", "Logout"},
             StartWithCookie(r, o) \/ StartWithoutCookie(r, o)
      PROVE  IInv'
  BY <1>2, ArrivalStep
<1>3. ASSUME NEW r \in Requests, Handler(r) \/ Vanish(r)
      PROVE  IInv'
  BY <1>3, HandlerStep, VanishStep
<1>4. ASSUME NEW t \in Tokens, Lapse(t)
      PROVE  IInv'
  BY <1>4, LapseStep
<1>5. ASSUME NEW u \in Users, VerifyEmail(u)
      PROVE  IInv'
  BY <1>5, VerifyStep
<1>6. CASE UNCHANGED vars
  BY <1>6, StutterStep
<1> QED
  BY <1>1, <1>2, <1>3, <1>4, <1>5, <1>6 DEF Next

(* IInv holds in every reachable state.                                    *)
THEOREM Invariance == Spec => []IInv
<1>1. Init => IInv
  BY InitInvariant
<1>2. IInv /\ [Next]_vars => IInv'
  BY StepInvariant
<1> QED
  BY <1>1, <1>2, PTL DEF Spec

(* Every variable keeps its type.                                          *)
THEOREM TypeCorrect == Spec => []TypeOK
<1>1. IInv => TypeOK
  BY DEF IInv
<1> QED
  BY <1>1, Invariance, PTL

(* No session ever has two tokens that can both be exchanged: Get holds    *)
(* the row FOR UPDATE until the transaction that replaces it has ended.    *)
THEOREM SingleLiveToken == Spec => []OneLivePerSession
<1>1. IInv => OneLivePerSession
  BY DEF IInv
<1> QED
  BY <1>1, Invariance, PTL

(* A cookie is taken away only from a client whose token is spent.         *)
THEOREM ClearingIsSafe == Spec => []ClearedTokenIsDead
<1>1. IInv => ClearedTokenIsDead
  BY DEF IInv, AnswerMatches, HandlerShape, HasToken, ClearedTokenIsDead, Cookie, LoginCookie,
         RefreshCookie, LogoutCookie, CallbackCookie, IsInvalidRefreshTokenError,
         IsRefreshTokenNotFound, TypeOK, Request, Ops
<1> QED
  BY <1>1, Invariance, PTL

(* A client is only ever handed tokens that are committed.                 *)
THEOREM AnswersAreStored == Spec => []AnsweredTokenIsStored
<1>1. IInv => AnsweredTokenIsStored
  BY RequestsAssumption
     DEF IInv, AnswerMatches, Pending, Sessions, HandlerShape, AnsweredTokenIsStored, Cookie,
         LoginCookie, RefreshCookie, LogoutCookie, CallbackCookie, TypeOK, Request, Ops
<1> QED
  BY <1>1, Invariance, PTL

(* Every token belongs to the verified account that logged in for it.      *)
THEOREM OwnersAreVerified == Spec => []SessionsOfVerifiedUsers
<1>1. IInv => SessionsOfVerifiedUsers
  BY DEF IInv, Sessions, SessionsOfVerifiedUsers
<1> QED
  BY <1>1, Invariance, PTL

-----------------------------------------------------------------------------
(* Only the end of a transaction and a verification touch the tables that  *)
(* TokenService speaks of.                                                 *)
LEMMA StepShape ==
  ASSUME [Next]_vars
  PROVE  \/ UNCHANGED <<row, userOf, family, verified>>
         \/ \E r \in Requests : pc[r] = "commit" /\ Publish(r)
         \/ \E u \in Users : VerifyEmail(u)
<1> USE DEF database, Refuse, Advance, Start
<1>1. ASSUME NEW r \in Requests, Handler(r)
      PROVE  UNCHANGED <<row, userOf, family, verified>> \/ (pc[r] = "commit" /\ Publish(r))
  <2>1. CASE Authenticate(r) \/ Get(r) \/ Check(r) \/ RevokeToken(r) \/ GenerateBundle(r)
    BY <2>1 DEF Authenticate, Get, Check, RevokeToken, GenerateBundle
  <2>2. CASE Fail(r) \/ Answer(r)
    BY <2>2 DEF Fail, Answer, Finish
  <2>3. CASE Commit(r) \/ CommitUnacknowledged(r)
    BY <2>3 DEF Commit, CommitUnacknowledged
  <2> QED
    BY <1>1, <2>1, <2>2, <2>3 DEF Handler
<1>2. ASSUME NEW r \in Requests, NEW o \in {"Refresh", "Logout"},
             \/ StartLogin(r) \/ StartCallback(r)
             \/ StartWithCookie(r, o) \/ StartWithoutCookie(r, o)
      PROVE  UNCHANGED <<row, userOf, family, verified>>
  BY <1>2 DEF StartLogin, StartCallback, StartWithCookie, StartWithoutCookie
<1>3. ASSUME NEW r \in Requests, Vanish(r)
      PROVE  UNCHANGED <<row, userOf, family, verified>>
  BY <1>3 DEF Vanish, Finish
<1>4. ASSUME NEW t \in Tokens, Lapse(t)
      PROVE  UNCHANGED <<row, userOf, family, verified>>
  BY <1>4 DEF Lapse
<1>5. CASE UNCHANGED vars
  BY <1>5 DEF vars
<1> QED
  BY <1>1, <1>2, <1>3, <1>4, <1>5 DEF Next

(* A transaction that ends well is one step of the service: a login opens  *)
(* a session, a refresh rotates its token, a logout revokes it.            *)
LEMMA PublishIsServiceStep ==
  ASSUME IInv, NEW r \in Requests, pc[r] = "commit", Publish(r)
  PROVE  Service!ServiceNext
<1> USE RequestsAssumption DEF IInv, TypeOK, Service!ServiceTypeOK, Publish
<1>1. CASE req[r].op = "Logout"
  <2>1. /\ fresh[r] = None
        /\ retired[r] = req[r].tok
        /\ req[r].tok \in Tokens
        /\ row[req[r].tok] # "absent"
    BY <1>1 DEF Pending, HasRetired, HasToken, LockHeld, HandlerShape, Sessions
  <2>2. row' = [row EXCEPT ![req[r].tok] = "revoked"]
    BY <2>1
  <2>3. userOf' = userOf /\ family' = family /\ verified' = verified
    BY <2>1
  <2>4. Service!Revoke(req[r].tok)
    BY <2>1, <2>2, <2>3 DEF Service!Revoke
  <2> QED
    BY <2>1, <2>4 DEF Service!ServiceNext
<1>2. CASE req[r].op = "Refresh"
  <2>1. /\ fresh[r] \in Tokens
        /\ row[fresh[r]] = "absent"
        /\ retired[r] = req[r].tok
        /\ req[r].tok \in Tokens
        /\ row[req[r].tok] = "live"
    BY <1>2 DEF Pending, HasRetired, HasToken, LockHeld, HandlerShape, RowAsSeen
  <2>2. row' = [row EXCEPT ![req[r].tok] = "revoked", ![fresh[r]] = "live"]
    BY <2>1
  <2>3. /\ userOf' = [userOf EXCEPT ![fresh[r]] = userOf[req[r].tok]]
        /\ family' = [family EXCEPT ![fresh[r]] = family[req[r].tok]]
        /\ verified' = verified
    BY <1>2, <2>1 DEF Owner, Session
  <2>4. Service!Rotate(req[r].tok, fresh[r])
    BY <2>1, <2>2, <2>3 DEF Service!Rotate
  <2> QED
    BY <2>1, <2>4 DEF Service!ServiceNext
<1>3. CASE req[r].op \in {"Login", "Callback"}
  <2>1. /\ fresh[r] \in Tokens
        /\ row[fresh[r]] = "absent"
        /\ retired[r] = None
        /\ req[r].who \in verified
    BY <1>3 DEF Pending, HasRetired, HasToken, HandlerShape, Sessions
  <2>2. row' = [row EXCEPT ![fresh[r]] = "live"]
    BY <2>1
  <2>3. /\ userOf' = [userOf EXCEPT ![fresh[r]] = req[r].who]
        /\ family' = [family EXCEPT ![fresh[r]] = fresh[r]]
        /\ verified' = verified
    BY <1>3, <2>1 DEF Owner, Session
  <2>4. Service!Open(fresh[r], req[r].who)
    BY <2>1, <2>2, <2>3 DEF Service!Open
  <2> QED
    BY <2>1, <2>4 DEF Service!ServiceNext
<1> QED
  BY <1>1, <1>2, <1>3 DEF Request, Ops

LEMMA StepImplements == IInv /\ [Next]_vars => [Service!ServiceNext]_(Service!serviceVars)
<1> SUFFICES ASSUME IInv, [Next]_vars
             PROVE  [Service!ServiceNext]_(Service!serviceVars)
  OBVIOUS
<1>1. CASE UNCHANGED <<row, userOf, family, verified>>
  BY <1>1 DEF Service!serviceVars
<1>2. ASSUME NEW r \in Requests, pc[r] = "commit", Publish(r)
      PROVE  Service!ServiceNext
  BY <1>2, PublishIsServiceStep
<1>3. ASSUME NEW u \in Users, VerifyEmail(u)
      PROVE  Service!ServiceNext
  BY <1>3 DEF VerifyEmail, Service!ServiceNext, Service!Confirm
<1> QED
  BY <1>1, <1>2, <1>3, StepShape

(* The statement-level store implements the service in which every         *)
(* transaction is one atomic step.                                         *)
THEOREM Implementation == Spec => ImplementsService
<1>1. Init => Service!ServiceInit
  BY RequestsAssumption DEF Init, Service!ServiceInit
<1>2. IInv /\ [Next]_vars => [Service!ServiceNext]_(Service!serviceVars)
  BY StepImplements
<1> QED
  BY <1>1, <1>2, Invariance, PTL DEF Spec, ImplementsService, Service!ServiceSpec

(* A session is carried on only by the step that revokes its live token.   *)
THEOREM RotationIsAtomic == Spec => RotationAtomic
<1> DEFINE Carried(n) == row[n] = "absent" /\ row'[n] # "absent" /\ family'[n] # n
           Rotation == \A n \in Tokens : Carried(n) =>
                         \E t \in Tokens : /\ row[t] = "live"
                                           /\ row'[t] = "revoked"
                                           /\ family[t] = family'[n]
<1>1. ASSUME IInv, Service!ServiceNext
      PROVE  Rotation
  <2> USE <1>1 DEF IInv, TypeOK, Service!ServiceTypeOK
  <2>1. ASSUME NEW n \in Tokens, NEW u \in Users, Service!Open(n, u)
        PROVE  Rotation
    BY <2>1 DEF Service!Open
  <2>2. ASSUME NEW t \in Tokens, NEW n \in Tokens, Service!Rotate(t, n)
        PROVE  Rotation
    BY <2>2 DEF Service!Rotate
  <2>3. ASSUME NEW t \in Tokens, Service!Revoke(t)
        PROVE  Rotation
    BY <2>3 DEF Service!Revoke
  <2>4. ASSUME NEW u \in Users, Service!Confirm(u)
        PROVE  Rotation
    BY <2>4 DEF Service!Confirm
  <2> QED
    BY <1>1, <2>1, <2>2, <2>3, <2>4 DEF Service!ServiceNext
<1>2. IInv /\ [Next]_vars => [Rotation]_vars
  <2> SUFFICES ASSUME IInv, [Next]_vars
               PROVE  Rotation
    OBVIOUS
  <2>1. CASE UNCHANGED Service!serviceVars
    BY <2>1 DEF Service!serviceVars
  <2>2. CASE Service!ServiceNext
    BY <1>1, <2>2
  <2> QED
    BY <2>1, <2>2, StepImplements
<1> QED
  BY <1>2, Invariance, PTL DEF Spec, RotationAtomic

-----------------------------------------------------------------------------
(* The converse of LockHeld: a row lock belongs to a handler at work with  *)
(* the cookie of that row.  So a handler has one lock at most, and none    *)
(* before it has read its row or after its transaction.                    *)
AtWork(r) == pc[r] \in {"check", "revoke", "issue", "commit"} /\ HasToken(r)

LockOwners ==
  \A t \in Tokens : rowLock[t] # None =>
    AtWork(rowLock[t]) /\ req[rowLock[t]].tok = t

(* The handler's transaction ends, and its locks with it.                  *)
LEMMA OwnersReleased ==
  ASSUME IInv, LockOwners, NEW r \in Requests, ReleaseLocks(r),
         \A q \in Requests \ {r} : pc'[q] = pc[q] /\ req'[q] = req[q]
  PROVE  LockOwners'
<1>1. \A t \in Tokens : rowLock[t] \in Requests \cup {None}
  BY DEF IInv, TypeOK
<1>2. \A t \in Tokens : rowLock'[t] # None => rowLock'[t] = rowLock[t] /\ rowLock[t] # r
  BY DEF ReleaseLocks
<1> QED
  BY <1>1, <1>2 DEF LockOwners, AtWork, HasToken

(* The handler goes on, with the lock it has or with that of its row.      *)
LEMMA OwnersKept ==
  ASSUME IInv, LockOwners, NEW r \in Requests,
         \A q \in Requests \ {r} : pc'[q] = pc[q] /\ req'[q] = req[q],
         AtWork(r) => AtWork(r)' /\ req'[r] = req[r],
         \/ rowLock' = rowLock
         \/ /\ rowLock' = [rowLock EXCEPT ![req[r].tok] = r]
            /\ AtWork(r)'
            /\ req'[r] = req[r]
  PROVE  LockOwners'
<1>1. rowLock \in [Tokens -> Requests \cup {None}]
  BY DEF IInv, TypeOK
<1>2. \A t \in Tokens : rowLock[t] # None =>
        AtWork(rowLock[t])' /\ req'[rowLock[t]] = req[rowLock[t]]
  BY <1>1 DEF LockOwners, AtWork, HasToken
<1>3. \A t \in Tokens :
        rowLock'[t] = rowLock[t] \/ (rowLock'[t] = r /\ AtWork(r)' /\ req'[r].tok = t)
  BY <1>1
<1> QED
  BY <1>1, <1>2, <1>3 DEF LockOwners, AtWork, HasToken

LEMMA HandlerKeepsOwners ==
  ASSUME IInv, LockOwners, NEW r \in Requests, Handler(r)
  PROVE  LockOwners'
<1>1. pc \in [Requests -> InTx \cup {"idle", "answer"}] /\ req \in [Requests -> Request]
  BY DEF IInv, TypeOK
<1>2. ASSUME NEW e, Refuse(r, e)
      PROVE  LockOwners'
  BY <1>1, <1>2, OwnersReleased DEF Refuse
<1>3. ASSUME NEW to, Advance(r, to)
      PROVE  /\ pc'[r] = to /\ req'[r] = req[r]
             /\ \A q \in Requests \ {r} : pc'[q] = pc[q] /\ req'[q] = req[q]
             /\ to \in {"check", "revoke", "issue", "commit"} => (HasToken(r) <=> AtWork(r)')
  BY <1>1, <1>3 DEF Advance, AtWork, HasToken
<1>4. CASE Authenticate(r)
  <2>1. CASE \E e \in {"ErrWrongLoginCredentials", "ErrEmailNotVerified"} : Refuse(r, e)
    BY <1>2, <2>1
  <2>2. CASE pc[r] = "authenticate" /\ Advance(r, "issue") /\ UNCHANGED rowLock
    BY <1>3, <2>2, OwnersKept DEF AtWork
  <2> QED
    BY <1>4, <2>1, <2>2 DEF Authenticate
<1>5. CASE Get(r)
  <2>1. CASE \E e \in {"ErrBadFormat", "ErrTokenNotFound", "ErrInvalidRefreshToken"} : Refuse(r, e)
    BY <1>2, <2>1
  <2>2. CASE /\ pc[r] = "get"
             /\ Advance(r, IF req[r].op = "Refresh" THEN "check" ELSE "revoke")
             /\ rowLock' = [rowLock EXCEPT ![req[r].tok] = r]
    <3>1. HasToken(r)
      BY <2>2 DEF IInv, HandlerShape
    <3> QED
      BY <1>3, <2>2, <3>1, OwnersKept DEF AtWork
  <2> QED
    BY <1>5, <2>1, <2>2 DEF Get
<1>6. CASE Check(r)
  <2>1. CASE \E e \in {"ErrRefreshTokenRevoked", "ErrExpiredRefreshToken"} : Refuse(r, e)
    BY <1>2, <2>1
  <2>2. CASE pc[r] = "check" /\ Advance(r, "revoke") /\ UNCHANGED rowLock
    BY <1>3, <2>2, OwnersKept DEF AtWork
  <2> QED
    BY <1>6, <2>1, <2>2 DEF Check
<1>7. CASE RevokeToken(r)
  <2>1. /\ pc[r] = "revoke"
        /\ Advance(r, IF req[r].op = "Refresh" THEN "issue" ELSE "commit")
        /\ rowLock' = [rowLock EXCEPT ![req[r].tok] = r]
    BY <1>7 DEF RevokeToken
  <2>2. HasToken(r)
    BY <2>1 DEF IInv, HandlerShape
  <2> QED
    BY <1>3, <2>1, <2>2, OwnersKept
<1>8. CASE GenerateBundle(r)
  <2>1. pc[r] = "issue" /\ Advance(r, "commit") /\ UNCHANGED rowLock
    BY <1>8 DEF GenerateBundle
  <2> QED
    BY <1>3, <2>1, OwnersKept DEF AtWork
<1>9. CASE Commit(r) \/ CommitUnacknowledged(r)
  BY <1>1, <1>9, OwnersReleased DEF Commit, CommitUnacknowledged, Publish
<1>10. CASE Fail(r)
  BY <1>2, <1>10 DEF Fail
<1>11. CASE Answer(r)
  <2>1. /\ pc[r] = "answer" /\ UNCHANGED rowLock
        /\ \A q \in Requests \ {r} : pc'[q] = pc[q] /\ req'[q] = req[q]
    BY <1>1, <1>11 DEF Answer, Finish
  <2> QED
    BY <2>1, OwnersKept DEF AtWork
<1> QED
  BY <1>4, <1>5, <1>6, <1>7, <1>8, <1>9, <1>10, <1>11 DEF Handler

LEMMA StepKeepsOwners == IInv /\ LockOwners /\ [Next]_vars => LockOwners'
<1> SUFFICES ASSUME IInv, LockOwners, [Next]_vars
             PROVE  LockOwners'
  OBVIOUS
<1>1. ASSUME NEW r \in Requests,
             \/ StartLogin(r)
             \/ StartCallback(r)
             \/ \E o \in {"Refresh", "Logout"} : StartWithCookie(r, o) \/ StartWithoutCookie(r, o)
      PROVE  LockOwners'
  <2>1. /\ pc[r] = "idle" /\ UNCHANGED rowLock
        /\ \A q \in Requests \ {r} : pc'[q] = pc[q] /\ req'[q] = req[q]
    BY <1>1 DEF StartLogin, StartCallback, StartWithCookie, StartWithoutCookie, Start, IInv, TypeOK
  <2> QED
    BY <2>1, OwnersKept DEF AtWork
<1>2. ASSUME NEW r \in Requests, Handler(r)
      PROVE  LockOwners'
  BY <1>2, HandlerKeepsOwners
<1>3. ASSUME NEW r \in Requests, Vanish(r)
      PROVE  LockOwners'
  BY <1>3, OwnersReleased DEF Vanish, Finish, IInv, TypeOK
<1>4. CASE UNCHANGED <<rowLock, pc, req>>
  BY <1>4 DEF LockOwners, AtWork, HasToken
<1> QED
  BY <1>1, <1>2, <1>3, <1>4 DEF Next, Lapse, VerifyEmail, vars

(* For any number of requests and rows: a request that waits for a row has *)
(* no lock that another could wait for, because it locks the one row of    *)
(* its cookie and is past waiting then.                                    *)
THEOREM NeverDeadlocks == Spec => []RequestsNeverDeadlock
<1>1. Init => LockOwners
  BY DEF Init, LockOwners
<1>2. ASSUME IInv, LockOwners
      PROVE  RequestsNeverDeadlock
  <2> SUFFICES ASSUME NEW r \in Requests, NEW q \in Requests, NEW p \in Requests,
                      WaitsFor(r, q), WaitsFor(q, p)
               PROVE  FALSE
    BY DEF RequestsNeverDeadlock
  <2>1. PICK t \in Tokens : rowLock[t] = q
    <3>1. pc[r] = "revoke" => req[r].form = "genuine"
      BY <1>2 DEF IInv, HandlerShape, LockHeld
    <3>2. req[r].tok \in Tokens
      BY <1>2, <3>1 DEF WaitsFor, IInv, TypeOK, HandlerShape
    <3> QED
      BY <3>2 DEF WaitsFor
  <2>2. AtWork(q)
    BY <1>2, <2>1, RequestsAssumption DEF LockOwners
  <2>3. rowLock[req[q].tok] = q
    BY <1>2, <2>2 DEF AtWork, IInv, LockHeld
  <2> QED
    BY <2>3 DEF WaitsFor
<1> QED
  BY <1>1, <1>2, StepKeepsOwners, Invariance, PTL DEF Spec

=============================================================================
