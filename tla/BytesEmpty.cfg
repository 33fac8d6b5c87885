SPECIFICATION Spec
CONSTANTS
  Bytes = {0, 1}
  BaseSize = 2
  MaxLen = 2
  MaxCap = 4
INVARIANT StringsReadable
CHECK_DEADLOCK FALSE
