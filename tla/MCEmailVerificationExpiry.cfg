\* One account whose code is presented after the time its mail gives it.
CONSTANTS
  Users = {a}
  Codes = {c1}
  Handlers = {h1}
  MaxExpired = 1
  None = None
  Characters = {"space", "letter", "accented", "emoji"}
  Width <- MCWidth
  Spaces = {"space"}
  MinimumPasswordLength = 3
  MaximumHashedLength = 4
  MaximumPasswordLength = 6
  MinNameLength = 2
  MaxNameLength = 3
  MaxText = 7
  Nil = Nil

SPECIFICATION Spec

PROPERTY ExpiredCodeRefused
