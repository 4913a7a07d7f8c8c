\* Headless mode: one configured lamp and one stranger, two connections.
CONSTANTS
  d1 = d1
  d2 = d2
  n1 = n1
  n2 = n2
  s1 = s1
  s2 = s2
  s3 = s3
  Nil = Nil
  DeviceId = {d1, d2}
  Name = {d1, d2, n1, n2}
  Session = {s1, s2}
  Field = {}
  Value = {0}
  Channel = {}
  Firmware = {}
  CapsOf <- NoFirmware
  Headless = TRUE
  Configured <- OneLamp
  OperatorName = {n1, n2}
SPECIFICATION FairSpec
INVARIANTS ConnectedHasDriver NamesUnique
PROPERTIES RefusedLeaveNothing ImplementsFairOwnership ShutdownCompletes WaitsOnlyForBulbs GoneIsAnnounced
