\* One request: the answer to a logout is a matter of its own.
CONSTANTS
  u1 = u1
  u2 = u2
  Users <- MCUsers
  LocalUsers <- MCLocalUsers
  Tokens = {t1, t2}
  Requests = {r1}
  MaxLapsed = 0
  None = None

SPECIFICATION Spec

INVARIANT UnknownTokenLogoutClears
