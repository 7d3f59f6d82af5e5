SPECIFICATION FairSpec
CONSTANTS
  Replicas = 3
  MaxTransactions = 2
  Limits <- OneEach
INVARIANTS TypeOK ExactCopies KillsHarmless
PROPERTIES Bootstraps
CHECK_DEADLOCK FALSE
