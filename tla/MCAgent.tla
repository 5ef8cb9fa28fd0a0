------------------------------ MODULE MCAgent ------------------------------
EXTENDS Agent

Plain == [found |-> TRUE, paused |-> FALSE, dryRun |-> FALSE,
          policy |-> "proceed"]

\* An active profile, then one that is missing, paused or dry-run, and an
\* active one again.
DocsChange == <<Plain, [Plain EXCEPT !.found = FALSE],
                [Plain EXCEPT !.paused = TRUE],
                [Plain EXCEPT !.dryRun = TRUE], Plain>>

DocsPause == <<Plain, [Plain EXCEPT !.paused = TRUE]>>

DocsDesigner == <<Plain, [Plain EXCEPT !.policy = "wait"],
                  [Plain EXCEPT !.policy = "fail"]>>

DocsFail == <<[Plain EXCEPT !.policy = "fail"]>>

DocsWait == <<[Plain EXCEPT !.policy = "wait"]>>

DocsPlain == <<Plain>>
=============================================================================
