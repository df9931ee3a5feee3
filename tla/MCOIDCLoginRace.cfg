\* Two strangers press the button at the same time.
CONSTANTS
  Browsers = {b1, b2}
  Flows = {f1, f2}
  MaxReloads = 0
  None = None

SPECIFICATION Spec
CHECK_DEADLOCK FALSE

INVARIANT RedirectCarriesItsSession
