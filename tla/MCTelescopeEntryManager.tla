---------------------- MODULE MCTelescopeEntryManager -----------------------
\* Up to MaxNodes entries in every order of scores and lengths.
EXTENDS TelescopeEntryManager
=============================================================================
