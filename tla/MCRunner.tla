------------------------------ MODULE MCRunner ------------------------------
\* An instance of Runner in which everybody is answered.
EXTENDS Runner

\* Only callers of ensureRunning go away: a shell goes with its caller, and a cancel
\* that is given up answers nobody (CurrentIsAlive, OpenHasSettler).
OnlyPromptsLeave ==
    /\ Next
    /\ \A c \in Calls : result'[c] = "aborted" => op[c] = "ensure"

LiveSpec == Init /\ [][OnlyPromptsLeave]_vars /\ Fairness
=============================================================================
