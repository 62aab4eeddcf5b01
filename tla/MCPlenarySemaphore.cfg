CONSTANTS
  Clients = {c1, c2, c3, c4}
  InitialPermits = 2
  MaxRounds = 2
SPECIFICATION Spec
INVARIANTS PermitsConserved NoIdlePermit
PROPERTY WaiterServed
\* every client may be done
CHECK_DEADLOCK FALSE
