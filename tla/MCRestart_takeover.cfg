\* Overlapping connections of one bulb, interactive mode, over restarts.
CONSTANTS
  d1 = d1
  d2 = d2
  n1 = n1
  n2 = n2
  s1 = s1
  s2 = s2
  s3 = s3
  Nil = Nil
  DeviceId = {d1}
  Name = {d1, n1}
  Session = {s1, s2, s3}
  Field = {"ColorTemp"}
  Value = {0, 1}
  Channel = {"color", "temp"}
  Firmware = {"rgb", "unknown"}
  CapsOf <- Versions
  Headless = FALSE
  Configured <- NoLamps
  OperatorName = {n1}
SYMMETRY Sessions
SPECIFICATION MCSpec
CONSTRAINT Bounded
VIEW Relevant
INVARIANTS TypeOK DriverIsLive SupersededIsClosing DriverMeansOnline DeltaLeavesTheRest
PROPERTIES EntrySurvives ImplementsOwnership
