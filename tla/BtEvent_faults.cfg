SPECIFICATION FairSpec
CONSTANTS
  m1 = m1
  Devices = {m1}
  NoDevice = NoDevice
  BtEvents <- AllKinds
  QueueSize = 2
  MaxEvents = 4
  Faults = {"create_flag", "create_thread", "start_thread", "create_callback",
            "register", "read", "unregister", "delete_callback", "wait_end",
            "delete_flag"}
INVARIANTS TypeOK EmitsWhileFlagExists LeavesNothingBehind NothingLostSilently
PROPERTIES AllServed StopReturns
CHECK_DEADLOCK FALSE
