------------------------- MODULE MCPlenarySemaphore -------------------------
\* Four clients share two permits and acquire twice each: permits run out,
\* two clients wait at the same time, and a waiter is overtaken.
EXTENDS PlenarySemaphore
=============================================================================
