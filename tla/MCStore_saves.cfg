\* Saves that succeed in time and saves that are slow and fail; crashes and restarts.
CONSTANTS
  t1 = t1
  t2 = t2
  t3 = t3
  Main = Main
  Nil = Nil
  Timer = {t1, t2, t3}
  MaxVersion = 3
  Headless = TRUE
  Faults = {TRUE, FALSE}
  Endings = {"signal", "server"}
SPECIFICATION FairSpec
INVARIANTS PendingIsScheduled FileIsWhole QuietMeansSaved
PROPERTY EventuallySaved
