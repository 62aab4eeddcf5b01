--------------------------- MODULE MCPlenaryMpsc ----------------------------
\* One receiver, one sender coroutine and the event loop as second sender.
EXTENDS PlenaryMpsc
=============================================================================
