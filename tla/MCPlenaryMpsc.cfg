CONSTANTS
  Coroutines = {rx, tx}
  Receiver = rx
  MaxStack = 5
  MaxHandles = 3
  MaxMessages = 4
  WaitInside = TRUE
  NotifyInside = FALSE
  SendInside = FALSE
SPECIFICATION Spec
INVARIANTS NoStrandedReceiver NoFailure WaitersRegistered HandlesLive
PROPERTIES QueueSpec EveryMessageLeaves
\* all messages may be sent and every coroutine may have returned
CHECK_DEADLOCK FALSE
