SPECIFICATION FairSpec
CONSTANTS
  Kinds <- Core
  Replicas = 1
  Lookups = 1
  MaxUid = 2
  Limits <- OneDelete
  WithResync = FALSE
PROPERTIES Converges IntactDeletes
CHECK_DEADLOCK FALSE
