\* A bulb reconnects between the owner check and the event of its old session.
CONSTANTS
  d1 = d1
  d2 = d2
  n1 = n1
  n2 = n2
  s1 = s1
  s2 = s2
  s3 = s3
  Nil = Nil
  DeviceId = {d1}
  Name = {d1, n1}
  Session = {s1, s2}
  Field = {}
  Value = {0}
  Channel = {}
  Firmware = {}
  CapsOf <- NoFirmware
  Headless = FALSE
  Configured <- NoLamps
  OperatorName = {n1}
SPECIFICATION Spec
INVARIANT NotAnnouncedGoneWhileOnline
