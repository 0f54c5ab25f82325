------------------------------ MODULE SharedRun ------------------------------
(***************************************************************************)
(* What packages/ravens/src/effect/runner.ts promises the callers of       *)
(* ensureRunning, without runners, fibers or locks: a call opens a run or  *)
(* joins one that is still open; a run is settled once; every call that    *)
(* joined it is answered with the same outcome, or has gone away.          *)
(***************************************************************************)
CONSTANTS Calls, None

VARIABLES
    run,    \* the run a call opened
    joined, \* the run a call waits for
    answer  \* what a call was told

vars == <<run, joined, answer>>

Outcomes == {"success", "failure", "cancelled"}

\* awaitDone turns a cancelled run into the caller's onInterrupt effect.
Told(v) == IF v = "cancelled" THEN "interrupted" ELSE v

Init ==
    /\ run = [c \in Calls |-> "none"]
    /\ joined = [c \in Calls |-> None]
    /\ answer = [c \in Calls |-> "none"]

Open(c) ==
    /\ run[c] = "none"
    /\ joined[c] = None
    /\ run' = [run EXCEPT ![c] = "open"]
    /\ joined' = [joined EXCEPT ![c] = c]
    /\ UNCHANGED answer

Join(c, d) ==
    /\ run[d] = "open"
    /\ joined[c] = None
    /\ joined' = [joined EXCEPT ![c] = d]
    /\ UNCHANGED <<run, answer>>

Settle(d, v) ==
    /\ run[d] = "open"
    /\ run' = [run EXCEPT ![d] = v]
    /\ UNCHANGED <<joined, answer>>

Answer(c) ==
    /\ answer[c] = "none"
    /\ joined[c] # None
    /\ run[joined[c]] \in Outcomes
    /\ answer' = [answer EXCEPT ![c] = Told(run[joined[c]])]
    /\ UNCHANGED <<run, joined>>

GoAway(c) ==
    /\ answer[c] = "none"
    /\ answer' = [answer EXCEPT ![c] = "aborted"]
    /\ UNCHANGED <<run, joined>>

Next ==
    \E c \in Calls :
        \/ Open(c)
        \/ \E d \in Calls : Join(c, d)
        \/ \E v \in Outcomes : Settle(c, v)
        \/ Answer(c)
        \/ GoAway(c)

Spec == Init /\ [][Next]_vars
=============================================================================
