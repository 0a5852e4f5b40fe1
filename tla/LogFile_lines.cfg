SPECIFICATION FairSpec
CONSTANTS
  Modules = {user, kernel}
  Threads = {ui, event, emit}
  ModuleOf <- ThreadModules
  user = user  kernel = kernel
  ui = ui  event = event  emit = emit
  LineBuffer = 4
  MarkerLen = 2
  Messages <- EdgeMessages
  ErrorMessage = 2
  MaxCalls = 2
INVARIANTS TypeOK NestingBounded LinesAreWhole
PROPERTIES LogReturns
CHECK_DEADLOCK FALSE
