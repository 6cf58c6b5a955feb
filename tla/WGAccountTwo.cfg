CONSTANTS
  old = old
  new = new
  Readers = {old, new}
  MaxBytes = 3
  MaxResets = 1
SPECIFICATION Spec
INVARIANT NeverOverbilled
CHECK_DEADLOCK FALSE
