CONSTANTS
  Coroutines = {A, B, C}
  MaxStack = 6
  MaxHandles = 4
  WaitInside = TRUE
  NotifyInside = FALSE
SPECIFICATION CondvarSpec
INVARIANT WaitersRegistered
\* all messages may be sent and every coroutine may have returned
CHECK_DEADLOCK FALSE
