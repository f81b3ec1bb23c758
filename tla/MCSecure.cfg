\* A TLS session, listeners with the threads they run on, and the MySQL client.
SPECIFICATION Spec
INVARIANTS
  ListenerSafe
  CommandsSafe
  DatabaseSafe
PROPERTY
  ServiceGoesOn
CHECK_DEADLOCK FALSE
