SPECIFICATION FairSpec
CONSTANTS
  Kinds <- AllKinds
  Replicas = 1
  Lookups = 1
  MaxUid = 1
  Limits <- Ignored
  WithResync = TRUE
INVARIANTS CredentialsAgree QuietConverged
PROPERTIES Converges ReadyEventually
CHECK_DEADLOCK FALSE
