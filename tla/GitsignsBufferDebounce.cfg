SPECIFICATION Spec
CONSTANTS
    MaxEntries = 1
    Budgets <- DebounceBudgets
INVARIANT UpdatedPerBuffer
\* the user may stop acting
CHECK_DEADLOCK FALSE
