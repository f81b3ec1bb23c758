\* Each component that keeps to itself, in an instance of its own.
SPECIFICATION Spec
CONSTANTS
  Timers = {t1, t2}
  Others = {o1, o2}
  LogThreads = {l1, l2}
SYMMETRY Symmetry
INVARIANTS
  TreesCorrect
  TimersCorrect
  UnitsCorrect
  ManagersCorrect
  LogFilesInOrder
  MessagesWhole
  DataCorrect
CHECK_DEADLOCK FALSE
