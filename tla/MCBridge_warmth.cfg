\* A lamp whose first report shows warmth.
SPECIFICATION Spec
CONSTANTS
  Nil = Nil
  lampA = lampA
  h1 = h1
  one = one
  two = two
  on = on
  off = off
  Device = {lampA}
  Name = {one, two}
  State = {on, off}
  Hook = {h1}
  Scope <- MCScope
  Status <- MCStatus
  Topic <- MCTopic
INVARIANT WarmthIsAdvertised
SYMMETRY MCSymmetry
CHECK_DEADLOCK FALSE
