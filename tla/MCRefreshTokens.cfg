\* Three tokens are a login and two refreshes, or two racing sessions; two
\* requests meet on a row in every order.
CONSTANTS
  u1 = u1
  u2 = u2
  Users <- MCUsers
  LocalUsers <- MCLocalUsers
  Tokens = {t1, t2, t3}
  Requests = {r1, r2}
  MaxLapsed = 1
  None = None

SPECIFICATION Spec
SYMMETRY Symmetry

INVARIANTS
  TypeOK
  OneLivePerSession
  ClearedTokenIsDead
  AnsweredTokenIsStored
  SessionsOfVerifiedUsers
  RequestsNeverDeadlock

PROPERTIES
  RotationAtomic
  ImplementsService
