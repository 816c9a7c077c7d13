SPECIFICATION Spec
CONSTANTS
  Wrap = {w1, w2}
  Handle = {h1, h2}
  Req = {r1, r2, r3}
  Nil = Nil
  Limit = 1
  MaxBytes = 3
INVARIANT AnsweredOnce
INVARIANT ReadsExact
INVARIANT FreedUse
PROPERTY CallsBack
CHECK_DEADLOCK FALSE
