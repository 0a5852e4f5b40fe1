SPECIFICATION Spec
CONSTANTS
  MAX_DEVICES = 2
  Macs = {m1, m2}
  ZeroWordMacs = {}
  NoMac = NoMac
  ReportedStates = {"DISCONNECTED", "CONNECTED"}
  RefusalCodes = {}
SYMMETRY DeviceSymmetry
INVARIANTS TypeOK SlotsConsistent UiMatchesState
PROPERTIES PressActsAsShown RefinesCalls
