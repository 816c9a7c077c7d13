SPECIFICATION Spec
CONSTANTS
  Java = {j1}
  Loop = Loop
  Nobody = Nobody
  MaxSends = 1
INVARIANT CloseAvoidsUseAfterFree
CHECK_DEADLOCK FALSE
