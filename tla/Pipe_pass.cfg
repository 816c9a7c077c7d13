SPECIFICATION Spec
CONSTANTS
  MaxMsg = 2
  MaxDepth = 14
  CallbackClose = "always"
INVARIANT InOrder
INVARIANT CompletedOnce
INVARIANT NothingStalled
INVARIANT FreedWhenBothClosed
CHECK_DEADLOCK FALSE
