SPECIFICATION FairSpec
CONSTANTS
  MAX_DEVICES = 1
  Macs = {m1, m2}
  ZeroWordMacs = {m2}
  NoMac = NoMac
  ReportedStates = {"UNKNOWN0", "DISCONNECTED", "CONNECTING", "CONNECTED_HID",
                    "DISCONNECTING", "CONNECTED", "REGISTERING"}
  RefusalCodes = {"NOT_CONNECTABLE", "BUSY"}
INVARIANTS NoResultLost
PROPERTIES BtOffIsSticky CallReturns
