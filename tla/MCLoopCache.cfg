\* Bytes: every mixture of calls with every length, and the size at which no byte fits.
SPECIFICATION Spec
CONSTANTS
  Bytes = {0, 1}
  Sizes = {1, 3, 4}
  Lens = {1, 2, 3}
  Wants = {0, 1}
  Counts = {0, 1, 2, 3}
  Entry = 1
INVARIANTS
  TypeOK
  AreasHold
  BytesInPlace
PROPERTIES
  FifoOrder
CHECK_DEADLOCK FALSE
