SPECIFICATION Spec
CONSTANTS
  Replicas = 3
  MaxTransactions = 2
  Limits <- OneSidecar
INVARIANTS ClonesReplicate
CHECK_DEADLOCK FALSE
