--------------------------- MODULE MCGitsignsBuffer ---------------------------
\* One buffer and how often its text, its user, the other buffers and the git
\* directory act.
EXTENDS GitsignsBuffer

Things == {"edit", "git", "write", "detach", "rename", "unload", "stage", "other"}
Only(edits, gits, some) ==
    [t \in Things |-> CASE t = "edit" -> edits [] t = "git" -> gits
                        [] OTHER -> IF t \in some THEN 1 ELSE 0]

MCBudgets == {Only(2, 0, {"rename", "detach"}),
              Only(1, 0, {"rename", "detach", "unload"}),
              Only(2, 0, {"other", "write"}),
              Only(2, 0, {"other", "detach"}),
              Only(0, 2, {"write"}),
              Only(0, 2, {"detach"}),
              Only(0, 1, {"stage", "write"}),
              Only(0, 1, {"stage", "detach"}),
              Only(1, 1, {"stage"})}
ObjectBudgets == {Only(0, 2, {})}
DebounceBudgets == {Only(1, 0, {"other"})}
=============================================================================
