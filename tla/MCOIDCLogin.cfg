\* Three flows over two browsers: two tabs of one, and a stranger; a
\* callback URL is opened again in either.
CONSTANTS
  Browsers = {b1, b2}
  Flows = {f1, f2, f3}
  MaxReloads = 1
  None = None

SPECIFICATION Spec
SYMMETRY Symmetry
\* Every flow ends.
CHECK_DEADLOCK FALSE

INVARIANTS
  TypeOK
  AcceptedSessionIsOne
