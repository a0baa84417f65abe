\* Keys that follow their type after two spaces.
SPECIFICATION Spec
CONSTANTS
  None = None
  Sources = 2
  Holds <- DoubleSpaces
  MaxPrefix = 0
INVARIANT DifferentKeysPrinted
CHECK_DEADLOCK FALSE
