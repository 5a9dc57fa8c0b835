SPECIFICATION Spec
CONSTANTS
  MaxConnects = 1
  MaxSends = 1
INVARIANTS ConnectedIsOpen
CHECK_DEADLOCK FALSE
