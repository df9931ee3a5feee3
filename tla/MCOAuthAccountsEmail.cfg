\* One person whose address changes and changes back.
CONSTANTS
  Subjects = {s1}
  Emails = {e1, e2}
  Accounts = {a1}
  Handlers = {h1}
  SubjectIndex = TRUE
  None = None

SPECIFICATION Spec

PROPERTY EmailFollowsProvider
