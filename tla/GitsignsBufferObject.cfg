SPECIFICATION Spec
CONSTANTS
    MaxEntries = 1
    Budgets <- ObjectBudgets
INVARIANT BaseIsObject
\* the user may stop acting
CHECK_DEADLOCK FALSE
