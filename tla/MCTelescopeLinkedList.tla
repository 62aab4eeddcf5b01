----------------------- MODULE MCTelescopeLinkedList ------------------------
\* Every order of up to MaxNodes insertions and truncations.
EXTENDS TelescopeLinkedList
=============================================================================
