SPECIFICATION Spec
CONSTANTS
  Kinds <- Core
  Replicas = 2
  Lookups = 2
  MaxUid = 1
  Limits <- Meddling
  WithResync = FALSE
INVARIANTS TypeOK CredentialsAgree QuietConverged
CHECK_DEADLOCK FALSE
