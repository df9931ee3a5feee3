\* Two requests under way overtake each other; four tokens are two logins and
\* a rotation of each.
CONSTANTS
  Users = {u1}
  Tokens = {t1, t2, t3, t4}
  Calls = {k1, k2}
  DomainSet = FALSE
  MaxLapsed = 1
  None = None

SPECIFICATION Spec
SYMMETRY Symmetry

INVARIANTS
  TypeOK
  SerialBrowserStaysLoggedIn
  SerialLogoutEndsSession

PROPERTY RefusedTokenIsDropped
