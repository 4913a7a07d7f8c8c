\* The process exits while a timer's save is under way; no save fails.
CONSTANTS
  t1 = t1
  t2 = t2
  t3 = t3
  Main = Main
  Nil = Nil
  Timer = {t1, t2}
  MaxVersion = 2
  Headless = TRUE
  Faults = {FALSE}
  Endings = {"signal"}
SPECIFICATION Spec
INVARIANT SavedAtExit
