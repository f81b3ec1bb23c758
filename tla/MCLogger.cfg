\* Queues of one command, a print cache that holds one record.
SPECIFICATION LiveSpec
CONSTANTS
  Threads = {m, t1}
  Main = m
  QueueSize = 2
  PrintSize = 5
  Scripts <- ScriptsDef
INVARIANTS
  CommandHasOnePlace
  OutputComplete
PROPERTIES
  CallsReturn
CHECK_DEADLOCK FALSE
