\* A lamp's life, namings, broken connections and shutdowns.
SPECIFICATION Spec
CONSTANTS
  Nil = Nil
  lampA = lampA
  h1 = h1
  one = one
  two = two
  on = on
  off = off
  Device = {lampA}
  Name = {one, two}
  State = {on, off}
  Hook = {h1}
  Scope <- MCScope
  Status <- MCStatus
  Topic <- MCTopic
INVARIANTS ConfigFollows LampFollows OnlineIsBacked ListensForCommands
SYMMETRY MCSymmetry
CHECK_DEADLOCK FALSE
