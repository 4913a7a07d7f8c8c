\* Two front-ends over one connection that may end at any time.
CONSTANTS
  terminal = terminal
  bridge = bridge
  Caller = {terminal, bridge}
  Nil = Nil
  Full = 100
  MinKelvin = 2700
  MaxKelvin = 6500
  Caps <- CCT
  Requests <- TwoFrontEnds
  Reported <- OnlyLit
  MaxCalls = 1
  MaxClock = 2
SPECIFICATION FairSpec
INVARIANTS PendingHasWaiter AnswerIsTrue LeavesTheRestAlone ShownSettles SliderHonoured
PROPERTY ApplyReturns
CHECK_DEADLOCK FALSE
