\* COOKIE_DOMAIN is configured; one request at a time.
CONSTANTS
  Users = {u1}
  Tokens = {t1, t2}
  Calls = {k1}
  DomainSet = TRUE
  MaxLapsed = 0
  None = None

SPECIFICATION Spec

PROPERTY LogoutEmptiesJar
