SPECIFICATION Spec
CONSTANTS
    MaxEntries = 2
    Budgets <- MCBudgets
INVARIANTS HunksUpToDate StatusUpToDate LockReleased
\* the user may stop acting
CHECK_DEADLOCK FALSE
PROPERTIES ChangeShown ChangeLookedUp
