SPECIFICATION Spec
CONSTANTS
  Kinds <- Core
  Replicas = 1
  Lookups = 1
  MaxUid = 2
  Limits <- Reuse
  WithResync = FALSE
INVARIANTS QuietConverged
PROPERTIES GuardedCreation ReadyStable ImplementsLifecycle
CHECK_DEADLOCK FALSE
