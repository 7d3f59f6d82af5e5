SPECIFICATION Spec
CONSTANTS
  Kinds <- Core
  Replicas = 1
  Lookups = 1
  MaxUid = 1
  Limits <- Faults
  WithResync = FALSE
INVARIANTS ReadyServed QuietConverged
PROPERTIES GuardedCreation ReadyStable
CHECK_DEADLOCK FALSE
