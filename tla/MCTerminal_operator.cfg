\* An operator who types ahead, scrolls and resizes while bulbs come and go.
CONSTANTS
  DeviceId = {"a1", "a2"}
  Name = {"a1", "a2", "kit", "kitchen"}
  Session = {"c"}
  Nil = Nil
  Field = {}
  Value = {0}
  Channel = {"temp"}
  Firmware = {}
  CapsOf <- NoChannels
  Stored <- OneNamed
  Lines <- OperatorLines
  StartsWith <- Prefixes
  Capacity = 3
  Block = 2
  Screen = {5, 6}
  Full = 100
  Depth = 1
  MaxCommands = 2
SPECIFICATION FairSpec
INVARIANTS Consistent EveryLampAddressable
PROPERTIES CommandsAnswered EventsShown
CHECK_DEADLOCK FALSE
