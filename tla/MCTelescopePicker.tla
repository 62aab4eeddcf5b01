-------------------------- MODULE MCTelescopePicker --------------------------
\* Two prompts, two batches of results, and a bounded number of inputs at any
\* moment, among them the replacement of a finder of either kind.
EXTENDS TelescopePicker

Refinders == [static |-> 2, job |-> 1]
=============================================================================
