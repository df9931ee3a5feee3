\* Two people, two addresses they exchange, and a registration in between.
CONSTANTS
  Subjects = {s1, s2}
  Emails = {e1, e2, e3}
  Accounts = {a1, a2, a3}
  Handlers = {h1, h2}
  SubjectIndex = TRUE
  None = None

SPECIFICATION Spec
SYMMETRY Symmetry

INVARIANTS
  TypeOK
  AccountHasOneLogin
  NoTakeover

PROPERTIES
  SubjectKeepsAccount
  ImplementsAccounts
