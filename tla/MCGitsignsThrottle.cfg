SPECIFICATION Spec
CONSTANTS
    Ids = {update, attach}
    Callers = {timer, watcher, autocmd}
    Schedule = {update}
    MayFail = {attach}
    MaxCalls = 3
INVARIANTS NeverInterleaved TablesReleased NoCallLost
PROPERTY CallServed
\* all calls may have been made
CHECK_DEADLOCK FALSE
