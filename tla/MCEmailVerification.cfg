\* Three handlers: two resends race while the code they replace is redeemed.
CONSTANTS
  Users = {a, b}
  Codes = {c1, c2, c3}
  Handlers = {h1, h2, h3}
  MaxExpired = 1
  None = None
  Characters = {"space", "letter", "accented", "emoji"}
  Width <- MCWidth
  Spaces = {"space"}
  MinimumPasswordLength = 3
  MaximumHashedLength = 4
  MaximumPasswordLength = 6
  MinNameLength = 2
  MaxNameLength = 3
  MaxText = 7
  Nil = Nil

SPECIFICATION Spec
SYMMETRY Symmetry

INVARIANTS
  TypeOK
  CodeRedeemedOnce
  UnverifiedHasCode
  MailedCodeWasCommitted
  SupersededCodeIsDead
  VerifyDeadlockFree
  NarrowInputAsPromised
  WideInputOffByBytes

PROPERTIES
  VerifiedConsumesCode
  ImplementsVerification
