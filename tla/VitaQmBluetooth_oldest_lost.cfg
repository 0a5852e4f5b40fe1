SPECIFICATION Spec
CONSTANTS
  m1 = m1
  m2 = m2
  MAX_DEVICES = 2
  Macs = {m1, m2}
  ZeroWordMacs = {}
  NoMac = NoMac
  ReportedStates = {"DISCONNECTED", "CONNECTING", "CONNECTED", "DISCONNECTING"}
  RefusalCodes = {}
  QueueSize = 1
  LosesOldest = TRUE
  Capacity = 1
  MaxChanges = 4
  Faults = {"list", "read", "copy"}
SYMMETRY Symmetric
INVARIANTS TypeOK  TouchedDeviceIsPressed
CHECK_DEADLOCK FALSE
