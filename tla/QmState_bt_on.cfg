SPECIFICATION Spec
CONSTANTS
  MAX_DEVICES = 1
  Macs = {m1}
  ZeroWordMacs = {}
  NoMac = NoMac
  ReportedStates = {"DISCONNECTED", "CONNECTED"}
  RefusalCodes = {}
PROPERTIES BtOnLeavesBtOff
