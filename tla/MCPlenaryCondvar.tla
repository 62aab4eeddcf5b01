-------------------------- MODULE MCPlenaryCondvar --------------------------
\* Three coroutines that touch the condition variable at any time, also while a
\* notification is being delivered.
EXTENDS PlenaryCondvar
=============================================================================
