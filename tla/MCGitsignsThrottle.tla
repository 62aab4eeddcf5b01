-------------------------- MODULE MCGitsignsThrottle --------------------------
\* Two guards of one buffer, manager.update and attach, and three coroutines.
EXTENDS GitsignsThrottle
=============================================================================
