SPECIFICATION Spec
CONSTANTS
  MAX_DEVICES = 1
  Macs = {m1, m2}
  ZeroWordMacs = {m2}
  NoMac = NoMac
  ReportedStates = {"DISCONNECTED", "CONNECTED"}
  RefusalCodes = {}
INVARIANTS ListedDeviceIsFound
