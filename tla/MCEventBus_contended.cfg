\* Three publishers and a short queue.
CONSTANTS
  p1 = p1
  p2 = p2
  p3 = p3
  Publisher = {p1, p2, p3}
  Depth = 2
  MaxEvents = 2
SPECIFICATION FairSpec
INVARIANTS Accounted InPublisherOrder OnlyOverflowDropped
PROPERTY PublishReturns
CHECK_DEADLOCK FALSE
