SPECIFICATION FairSpec
CONSTANTS
  Kinds <- Permissions
  Roots = {"core"}
  Foreground = {"ext"}
  Limits <- Rivalry
INVARIANTS TypeOK QuietGrown
PROPERTIES ImplementsLifecycle GuardedRights Grows Rests IntactReleased
CHECK_DEADLOCK FALSE
