SPECIFICATION Spec
CONSTANTS
  Kinds <- Databases
  Roots = {"core"}
  Foreground = {}
  Limits <- Hands
INVARIANTS QuietGrown
PROPERTIES ImplementsLifecycle ReleasedByHand
CHECK_DEADLOCK FALSE
