SPECIFICATION FairSpec
CONSTANTS
  MaxPids = 2
  MaxThreads = 3
  MaxLeft = 1
  MaxEvents = 2
  Capacity = 1
  Faults = {"create_thread", "start_thread", "get_pid", "wrap", "unwrap",
            "wait", "read", "wait_end", "delete_flag"}
  StaleDeletable = TRUE
INVARIANTS TypeOK OneThread MutexOutlivesThread FlagNotPulled ServedWhileOpen
  CleanAfterClose StaleAtMostOnce
PROPERTIES StopReturns
