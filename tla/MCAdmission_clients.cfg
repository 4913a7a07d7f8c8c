\* Clients of every kind on streams that may be cut anywhere.
CONSTANTS
  s1 = s1
  s2 = s2
  s3 = s3
  s4 = s4
  Session = {s1, s2, s3, s4}
  DeviceId <- Ids
  Name <- Ids
  Nil = Nil
  Field = {}
  Value = {0}
  Channel = {}
  Firmware = {}
  CapsOf <- NoVersions
  Configured <- OnlyA
  Client <- Clients
  TakeoverWindow = 2
  TakeoverThreshold = 3
  RejectionWindow = 2
  MaxClock = 2
SPECIFICATION Spec
SYMMETRY Alike
INVARIANTS IdentityIsPresented AnsweredAsAsked RefusalsReported WarnsOfDuplicates
CHECK_DEADLOCK FALSE
