SPECIFICATION MCSpec
CONSTANTS
  p1 = p1
  p2 = p2
  left = left
  right = right
  k1 = k1
  Toplevels = {p1, p2}
  Tokens = {k1}
  Nobody = Nobody
  Panel = Panel
  MaxReloads = 1
  Scenes <- AllScenes
  Buttons = {left, right}
  Left = left
  WidgetIds = {p1, p2}
SYMMETRY MCSymmetry
CHECK_DEADLOCK FALSE
INVARIANT WindowsInv
INVARIANT TokensServeOnce
INVARIANT TaskbarTruthful
INVARIANT InputInv
INVARIANT WholeClicks
