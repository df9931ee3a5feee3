\* No symmetry under liveness; two requests and two tokens are a rotation
\* that another request waits for; one account of a provider and no expiry,
\* since neither takes a lock.
CONSTANTS
  u1 = u1
  u2 = u2
  Users = {u2}
  LocalUsers = {}
  Tokens = {t1, t2}
  Requests = {r1, r2}
  MaxLapsed = 0
  None = None

SPECIFICATION FairSpec

PROPERTY LocksReleased
