SPECIFICATION MCSpec
CONSTANTS
  p1 = p1
  p2 = p2
  q1 = q1
  q2 = q2
  i1 = i1
  NoWindow = NoWindow
  Keep = Keep
  Again = Again
  h1 = h1
  h2 = h2
  w1 = w1
  c1 = c1
  c2 = c2
  k1 = k1
  k2 = k2
  r1 = r1
  r2 = r2
  small = small
  large = large
  Crtcs = {c1, c2}
  Legacy = {c2}
  Heads = {h1, h2}
  Windows = {w1}
  Sizes = {small, large}
  Scenes <- AllScenes
  Managers = {p1, p2}
  Frames = {q1, q2}
  Nothing = Nothing
  Sessions = {p1, p2}
  Shots = {q1, q2}
  Controls = {k1, k2}
  Ramps = {r1, r2}
  Conns = {p1, p2}
  Ids = {i1}
  FocusIds = {w1}
  Effects <- OneEffect
  Filters <- AnyEvents
  Room = 1
  MaxOut = 1
  MaxLines = 2
  MaxTokens = 2
SYMMETRY MCSymmetry
CHECK_DEADLOCK FALSE
INVARIANT IpcInv
 
INVARIANT CopiesAnswered
INVARIANT GammaInv
PROPERTY LockedSceneCaptured
