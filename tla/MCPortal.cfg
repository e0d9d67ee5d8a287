SPECIFICATION MCSpec
CONSTANTS
  b1 = b1
  b2 = b2
  o1 = o1
  w1 = w1
  s1 = s1
  c1 = c1
  c2 = c2
  c3 = c3
  t1 = t1
  t2 = t2
  Nothing = Nothing
  Outputs = {o1}
  Windows = {w1}
  Sessions = {s1}
  Calls = {c1, c2, c3}
  Threads = {t1, t2}
  Settings <- MCSettings
  Bufs = {b1, b2}
  Sizes = {1, 2}
  None = None
CHECK_DEADLOCK FALSE
INVARIANT CastInv
INVARIANT ScreenCastInv
PROPERTY CastGoesOn
PROPERTY ThreadKeepsPromise
PROPERTY EverybodyReturns
