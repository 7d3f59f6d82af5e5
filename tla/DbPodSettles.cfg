SPECIFICATION FairSpec
CONSTANTS
  Kinds <- Core
  Replicas = 1
  Lookups = 1
  MaxUid = 1
  Limits <- Unrest
  WithResync = FALSE
PROPERTIES Converges ReadyEventually Settles
CHECK_DEADLOCK FALSE
