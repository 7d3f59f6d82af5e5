SPECIFICATION FairSpec
CONSTANTS
  Kinds <- Core
  Replicas = 1
  Lookups = 1
  MaxUid = 1
  Limits <- OneDelete
  WithResync = FALSE
PROPERTIES DeletionCompletes
CHECK_DEADLOCK FALSE
