---------------------------- MODULE RunnerProofs ----------------------------
(***************************************************************************)
(* Proofs about Runner (packages/ravens/src/effect/runner.ts) and about    *)
(* SessionRunState (session/run-state.ts) that is built on it, for any     *)
(* number of runners and calls, and whichever callers are aborted.         *)
(***************************************************************************)
EXTENDS SessionRunState, TLAPS

Stops == {"latch", "interrupt", "waitExit", "settle", "check", "onIdle"}

\* What the program counter of a call says about its other fields.
CallShape ==
    \A c \in Calls :
        /\ pc[c] = "new" <=> op[c] = None
        /\ pc[c] = "new" <=> on[c] = None
        /\ pc[c] = "called" => waits[c] = None /\ victim[c] = None
        /\ pc[c] \in {"new", "called", "onBusy"} =>
              phase[c] = "none" /\ done[c] = "none" /\ waits[c] = None /\ victim[c] = None
        /\ pc[c] \in Stops => op[c] = "cancel" /\ victim[c] \in Calls
        /\ pc[c] = "settle" => waits[c] \in Calls
        /\ pc[c] = "await" => op[c] \in {"ensure", "shell"}
        /\ pc[c] = "await" /\ op[c] = "ensure" => waits[c] \in Calls
        /\ pc[c] = "onBusy" => op[c] = "shell" /\ lock[on[c]] = c /\ tag[on[c]] = "Idle"
        /\ op[c] = "cancel" => phase[c] = "none"
        /\ done[c] # "none" => op[c] = "ensure"
        /\ phase[c] # "none" /\ op[c] = "ensure" => done[c] # "none"
        /\ phase[c] = "complete" => op[c] = "ensure"
        /\ victim[c] # None => op[c] = "cancel"
        /\ op[c] = "shell" /\ pc[c] = "await" => phase[c] # "none"
        /\ pc[c] # "returned" => result[c] = "none"

\* What the ref names exists, belongs to this runner and is as the tag says.
RefShape ==
    \A r \in Runners :
        /\ tag[r] = "Idle" => cur[r] = None
        /\ tag[r] # "Idle" => cur[r] \in Calls /\ on[cur[r]] = r /\ phase[cur[r]] # "none" /\ lock[r] = None
        /\ tag[r] = "Running" => op[cur[r]] = "ensure"
        /\ tag[r] \in {"Shell", "ShellThenRun"} => op[cur[r]] = "shell"
        /\ IF tag[r] = "ShellThenRun"
             THEN /\ pend[r] \in Calls
                  /\ on[pend[r]] = r
                  /\ op[pend[r]] = "ensure"
                  /\ phase[pend[r]] = "none"
                  /\ done[pend[r]] = "open"
             ELSE pend[r] = None

\* What a cancel took out of the ref never comes back into it, and the
\* cancel leaves it behind only when it is over.
CancelShape ==
    \A c \in Calls : victim[c] # None =>
        /\ phase[victim[c]] # "none"
        /\ \A r \in Runners : cur[r] # victim[c]
        /\ op[victim[c]] = "ensure" => waits[c] = victim[c]
        /\ pc[c] \in {"settle", "check", "onIdle"} \/ result[c] = "void" => phase[victim[c]] = "exited"
        /\ waits[c] # None =>
              /\ op[waits[c]] = "ensure"
              /\ done[waits[c]] # "none"
              /\ \A r \in Runners : cur[r] # waits[c] /\ pend[r] # waits[c]
              /\ waits[c] = victim[c] \/ phase[waits[c]] = "none"
              /\ pc[c] \in {"check", "onIdle"} \/ result[c] = "void" =>
                    done[waits[c]] \notin {"none", "open"}

\* Some cancel still has to fail the Deferred of d, or may have been aborted.
MayCancel(d) ==
    \E c \in Calls :
        /\ op[c] = "cancel"
        /\ waits[c] = d
        /\ pc[c] \in {"latch", "interrupt", "waitExit", "settle"} \/ c \in Abortable

\* A run is settled at the very end of its fiber, and a fiber is only
\* interrupted by a cancel or with the caller of its shell.
FiberShape ==
    \A f \in Calls :
        /\ phase[f] \in {"none", "forked", "running"} <=> exit[f] = "none"
        /\ op[f] = "ensure" /\ phase[f] \notin {"none", "exited"} => done[f] = "open"
        /\ phase[f] = "exited" /\ done[f] = "open" => exit[f] = "interrupt"
        /\ intr[f] => \/ \E c \in Calls : victim[c] = f
                      \/ op[f] = "shell" /\ f \in Abortable
        /\ intr[f] /\ op[f] = "ensure" /\ done[f] = "open" => MayCancel(f)

Shape == TypeOK /\ CallShape /\ RefShape /\ CancelShape

\* The properties of Runner, less what tells an aborted call from one that
\* may be: that is AbortShape, below.
OpenHasOwner ==
    \A d \in Calls : done[d] = "open" =>
        \/ tag[on[d]] = "ShellThenRun" /\ pend[on[d]] = d
        \/ phase[d] \in {"running", "finish", "onIdle", "complete"}
        \/ phase[d] = "forked" /\ ~intr[d]
        \/ MayCancel(d)

RefHasFiber ==
    \A r \in Runners : tag[r] # "Idle" =>
        \/ Live(cur[r])
        \/ tag[r] \in {"Shell", "ShellThenRun"} /\ cur[r] \in Abortable

StraysHaveStopper ==
    \A f \in Calls : Live(f) =>
        \/ tag[on[f]] # "Idle" /\ cur[on[f]] = f
        \/ intr[f]
        \/ \E c \in Calls : victim[c] = f /\ (pc[c] \in {"latch", "interrupt"} \/ c \in Abortable)

RunInv == Shape /\ FiberShape /\ SettledRunIsOver /\ OpenHasOwner

-----------------------------------------------------------------------------
\* Every variable of the runner keeps its type, whatever is interleaved.
LEMMA TypeStep == TypeOK /\ [Next]_vars => TypeOK'
<1> SUFFICES ASSUME TypeOK, [Next]_vars PROVE TypeOK'
  OBVIOUS
<1> USE RunnerAssumption DEF Ops
<1>1. CASE UNCHANGED vars
  BY <1>1 DEF vars, refVars, callVars, fibVars, TypeOK
<1>2. ASSUME NEW c \in Calls, NEW o \in Ops, NEW r \in Runners, Invoke(c, o, r) PROVE TypeOK'
  BY <1>2 DEF Invoke, Goto, refVars, fibVars, TypeOK, PCs
<1>3. ASSUME NEW c \in Calls, CallMoves(c) PROVE TypeOK'
  <2>1. CASE JoinRun(c)
    BY <2>1 DEF JoinRun, Enters, Goto, refVars, fibVars, TypeOK, PCs
  <2>2. CASE QueueRun(c) \/ StartRun(c)
    BY SMTT(30), <2>2
       DEF QueueRun, StartRun, Enters, Become, Goto, fibVars, TypeOK, PCs, Tags, Dones, Phases
  <2>3. CASE RunReturns(c)
    BY <2>3 DEF RunReturns, Return, Outcome, refVars, fibVars, TypeOK, PCs, Results
  <2>4. CASE RejectShell(c) \/ EnterShell(c) \/ CancelIdle(c)
    BY <2>4
       DEF RejectShell, EnterShell, CancelIdle, Enters, Goto, Return, refVars, fibVars, TypeOK,
           PCs, Results
  <2>5. CASE ShellReturns(c)
    BY <2>5 DEF ShellReturns, Return, ShellOutcome, refVars, fibVars, TypeOK, PCs, Results
  <2>6. CASE BeginCancel(c)
    BY <2>6 DEF BeginCancel, Enters, Become, Goto, fibVars, TypeOK, PCs, Tags
  <2>7. CASE PassLatch(c)
    BY <2>7 DEF PassLatch, Goto, refVars, TypeOK, PCs
  <2>11. CASE Interrupt(c)
    BY <2>11 DEF Interrupt, Goto, refVars, TypeOK, PCs
  <2>8. CASE VictimExited(c)
    BY <2>8 DEF VictimExited, Goto, refVars, fibVars, TypeOK, PCs
  <2>9. CASE SettleCancelled(c)
    BY <2>9 DEF SettleCancelled, Goto, refVars, fibVars, TypeOK, PCs, Dones
  <2>10. CASE IdleIfCurrent(c)
    BY <2>10 DEF IdleIfCurrent, Goto, Return, refVars, fibVars, TypeOK, PCs, Results
  <2> QED
    BY <1>3, <2>1, <2>2, <2>3, <2>4, <2>5, <2>6, <2>7, <2>8, <2>9, <2>10, <2>11 DEF CallMoves
<1>4. ASSUME NEW c \in Calls, StartShell(c) PROVE TypeOK'
  BY <1>4 DEF StartShell, Become, Goto, TypeOK, PCs, Tags, Phases
<1>5. ASSUME NEW c \in Calls, CancelOnIdle(c) PROVE TypeOK'
  BY <1>5 DEF CancelOnIdle, Return, refVars, fibVars, TypeOK, PCs, Results
<1>6. ASSUME NEW c \in Calls, AbortCall(c) PROVE TypeOK'
  BY <1>6 DEF AbortCall, Return, refVars, TypeOK, PCs, Results
<1>7. ASSUME NEW f \in Calls, FiberMoves(f) PROVE TypeOK'
  <2>1. CASE FiberStarts(f) \/ FiberDropped(f) \/ ShellReady(f)
    BY ZenonT(60), <2>1
       DEF FiberStarts, FiberDropped, ShellReady, refVars, callVars, TypeOK, Phases, Exits
  <2>2. CASE FinishRun(f)
    BY <2>2 DEF FinishRun, Become, refVars, callVars, TypeOK, Phases, Tags
  <2>3. CASE FinishShell(f)
    BY <2>3 DEF FinishShell, Become, refVars, callVars, TypeOK, Phases, Tags
  <2>4. CASE Complete(f)
    BY <2>4 DEF Complete, refVars, callVars, TypeOK, Phases, Dones
  <2> QED
    BY <1>7, <2>1, <2>2, <2>3, <2>4 DEF FiberMoves
<1>8. ASSUME NEW f \in Calls, FiberOnIdle(f) PROVE TypeOK'
  BY <1>8 DEF FiberOnIdle, refVars, callVars, TypeOK, Phases
<1>9. ASSUME NEW f \in Calls, NEW e \in Exits \ {"none"}, WorkEnds(f, e) PROVE TypeOK'
  BY <1>9 DEF WorkEnds, refVars, callVars, TypeOK, Phases, Exits
<1> QED
  BY <1>1, <1>2, <1>3, <1>4, <1>5, <1>6, <1>7, <1>8, <1>9 DEF Next, CallStep, FiberStep, WorkEnding

THEOREM TypeCorrect == Spec => []TypeOK
<1>1. Init => TypeOK
  BY RunnerAssumption DEF Init, TypeOK, Tags, Ops, PCs, Results, Phases, Exits, Dones
<1> QED
  BY <1>1, TypeStep, PTL DEF Spec
\* A step keeps what the program counters promise.
LEMMA CallShapeStep == Shape /\ [Next]_vars => CallShape'
<1> SUFFICES ASSUME Shape, [Next]_vars PROVE CallShape'
  OBVIOUS
<1> USE RunnerAssumption DEF Shape, TypeOK, CallShape, RefShape, Stops, Ops
<1>1. CASE UNCHANGED vars
  BY <1>1 DEF vars, refVars, callVars, fibVars
<1>2. ASSUME NEW c \in Calls, NEW o \in Ops, NEW r \in Runners, Invoke(c, o, r) PROVE CallShape'
  BY <1>2 DEF Invoke, Goto, refVars, fibVars
<1>3. ASSUME NEW c \in Calls, CallMoves(c) PROVE CallShape'
  <2>1. CASE JoinRun(c)
    BY <2>1 DEF JoinRun, Enters, Goto, refVars, fibVars
  <2>2. CASE QueueRun(c)
    BY <2>2 DEF QueueRun, Enters, Become, Goto, fibVars
  <2>3. CASE StartRun(c)
    BY <2>3 DEF StartRun, Enters, Become, Goto
  <2>4. CASE RunReturns(c)
    BY <2>4 DEF RunReturns, Return, refVars, fibVars
  <2>5. CASE RejectShell(c)
    BY <2>5 DEF RejectShell, Enters, Return, refVars, fibVars
  <2>6. CASE EnterShell(c)
    BY <2>6 DEF EnterShell, Enters, Goto, refVars, fibVars
  <2>7. CASE ShellReturns(c)
    BY <2>7 DEF ShellReturns, Return, refVars, fibVars
  <2>8. CASE CancelIdle(c)
    BY <2>8 DEF CancelIdle, Enters, Return, refVars, fibVars
  <2>9. CASE BeginCancel(c)
    BY <2>9 DEF BeginCancel, Enters, Become, Goto, fibVars
  <2>10. CASE PassLatch(c)
    BY <2>10 DEF PassLatch, Goto, refVars
  <2>11. CASE Interrupt(c)
    BY <2>11 DEF Interrupt, Goto, refVars
  <2>12. CASE VictimExited(c)
    BY <2>12 DEF VictimExited, Goto, refVars, fibVars
  <2>13. CASE SettleCancelled(c)
    BY <2>13 DEF SettleCancelled, Goto, refVars, fibVars
  <2>14. CASE IdleIfCurrent(c)
    BY <2>14 DEF IdleIfCurrent, Goto, Return, refVars, fibVars
  <2> QED
    BY <1>3, <2>1, <2>2, <2>3, <2>4, <2>5, <2>6, <2>7, <2>8, <2>9, <2>10, <2>11, <2>12, <2>13,
       <2>14
       DEF CallMoves
<1>4. ASSUME NEW c \in Calls, StartShell(c) PROVE CallShape'
  BY <1>4 DEF StartShell, Become, Goto
<1>5. ASSUME NEW c \in Calls, CancelOnIdle(c) PROVE CallShape'
  BY <1>5 DEF CancelOnIdle, Return, refVars, fibVars
<1>6. ASSUME NEW c \in Calls, AbortCall(c) PROVE CallShape'
  BY <1>6 DEF AbortCall, Return, refVars
<1>7. ASSUME NEW f \in Calls, FiberMoves(f) PROVE CallShape'
  <2>1. CASE FiberStarts(f)
    BY <2>1 DEF FiberStarts, refVars, callVars
  <2>2. CASE FiberDropped(f)
    BY <2>2 DEF FiberDropped, refVars, callVars
  <2>3. CASE ShellReady(f)
    BY <2>3 DEF ShellReady, refVars, callVars
  <2>4. CASE FinishRun(f)
    BY <2>4 DEF FinishRun, IsCurrent, Become, refVars, callVars
  <2>5. CASE FinishShell(f)
    BY <2>5 DEF FinishShell, IsCurrent, Become, refVars, callVars
  <2>6. CASE Complete(f)
    BY <2>6 DEF Complete, refVars, callVars
  <2> QED
    BY <1>7, <2>1, <2>2, <2>3, <2>4, <2>5, <2>6 DEF FiberMoves
<1>8. ASSUME NEW f \in Calls, FiberOnIdle(f) PROVE CallShape'
  BY <1>8 DEF FiberOnIdle, refVars, callVars
<1>9. ASSUME NEW f \in Calls, NEW e \in Exits \ {"none"}, WorkEnds(f, e) PROVE CallShape'
  BY <1>9 DEF WorkEnds, refVars, callVars
<1> QED
  BY <1>1, <1>2, <1>3, <1>4, <1>5, <1>6, <1>7, <1>8, <1>9 DEF Next, CallStep, FiberStep, WorkEnding

\* A step leaves the ref naming fibers and Deferreds of its own runner.
LEMMA RefShapeStep == Shape /\ [Next]_vars => RefShape'
<1> SUFFICES ASSUME Shape, [Next]_vars PROVE RefShape'
  OBVIOUS
<1> USE RunnerAssumption DEF Shape, TypeOK, CallShape, RefShape, Stops, Ops, CancelShape
<1>1. CASE UNCHANGED vars
  BY <1>1 DEF vars, refVars, callVars, fibVars
<1>2. ASSUME NEW c \in Calls, NEW o \in Ops, NEW r \in Runners, Invoke(c, o, r) PROVE RefShape'
  BY <1>2 DEF Invoke, Goto, refVars, fibVars
<1>3. ASSUME NEW c \in Calls, CallMoves(c) PROVE RefShape'
  <2>1. CASE JoinRun(c)
    BY <2>1 DEF JoinRun, Enters, Goto, refVars, fibVars
  <2>2. CASE QueueRun(c)
    BY <2>2 DEF QueueRun, Enters, Become, Goto, fibVars
  <2>3. CASE StartRun(c)
    BY <2>3 DEF StartRun, Enters, Become, Goto
  <2>4. CASE RunReturns(c)
    BY <2>4 DEF RunReturns, Return, refVars, fibVars
  <2>5. CASE RejectShell(c)
    BY <2>5 DEF RejectShell, Enters, Return, refVars, fibVars
  <2>6. CASE EnterShell(c)
    BY <2>6 DEF EnterShell, Enters, Goto, refVars, fibVars
  <2>7. CASE ShellReturns(c)
    BY <2>7 DEF ShellReturns, Return, refVars, fibVars
  <2>8. CASE CancelIdle(c)
    BY <2>8 DEF CancelIdle, Enters, Return, refVars, fibVars
  <2>9. CASE BeginCancel(c)
    BY <2>9 DEF BeginCancel, Enters, Become, Goto, fibVars
  <2>10. CASE PassLatch(c)
    BY <2>10 DEF PassLatch, Goto, refVars
  <2>11. CASE Interrupt(c)
    BY <2>11 DEF Interrupt, Goto, refVars
  <2>12. CASE VictimExited(c)
    BY <2>12 DEF VictimExited, Goto, refVars, fibVars
  <2>13. CASE SettleCancelled(c)
    BY <2>13 DEF SettleCancelled, Goto, refVars, fibVars
  <2>14. CASE IdleIfCurrent(c)
    BY <2>14 DEF IdleIfCurrent, Goto, Return, refVars, fibVars
  <2> QED
    BY <1>3, <2>1, <2>2, <2>3, <2>4, <2>5, <2>6, <2>7, <2>8, <2>9, <2>10, <2>11, <2>12, <2>13,
       <2>14
       DEF CallMoves
<1>4. ASSUME NEW c \in Calls, StartShell(c) PROVE RefShape'
  BY <1>4 DEF StartShell, Become, Goto
<1>5. ASSUME NEW c \in Calls, CancelOnIdle(c) PROVE RefShape'
  BY <1>5 DEF CancelOnIdle, Return, refVars, fibVars
<1>6. ASSUME NEW c \in Calls, AbortCall(c) PROVE RefShape'
  BY <1>6 DEF AbortCall, Return, refVars
<1>7. ASSUME NEW f \in Calls, FiberMoves(f) PROVE RefShape'
  <2>1. CASE FiberStarts(f)
    BY <2>1 DEF FiberStarts, refVars, callVars
  <2>2. CASE FiberDropped(f)
    BY <2>2 DEF FiberDropped, refVars, callVars
  <2>3. CASE ShellReady(f)
    BY <2>3 DEF ShellReady, refVars, callVars
  <2>4. CASE FinishRun(f)
    BY <2>4 DEF FinishRun, IsCurrent, Become, refVars, callVars
  <2>5. CASE FinishShell(f)
    BY SMTT(30), <2>5 DEF FinishShell, IsCurrent, Become, refVars, callVars
  <2>6. CASE Complete(f)
    BY <2>6 DEF Complete, refVars, callVars
  <2> QED
    BY <1>7, <2>1, <2>2, <2>3, <2>4, <2>5, <2>6 DEF FiberMoves
<1>8. ASSUME NEW f \in Calls, FiberOnIdle(f) PROVE RefShape'
  BY <1>8 DEF FiberOnIdle, refVars, callVars
<1>9. ASSUME NEW f \in Calls, NEW e \in Exits \ {"none"}, WorkEnds(f, e) PROVE RefShape'
  BY <1>9 DEF WorkEnds, refVars, callVars
<1> QED
  BY <1>1, <1>2, <1>3, <1>4, <1>5, <1>6, <1>7, <1>8, <1>9 DEF Next, CallStep, FiberStep, WorkEnding

\* What a cancel removed stays out of the ref.
LEMMA CancelShapeStep == Shape /\ FiberShape /\ [Next]_vars => CancelShape'
<1> SUFFICES ASSUME Shape, FiberShape, [Next]_vars PROVE CancelShape'
  OBVIOUS
<1> USE RunnerAssumption DEF Shape, TypeOK, CallShape, RefShape, Stops, Ops, CancelShape, FiberShape
<1>1. CASE UNCHANGED vars
  BY <1>1 DEF vars, refVars, callVars, fibVars
<1>2. ASSUME NEW c \in Calls, NEW o \in Ops, NEW r \in Runners, Invoke(c, o, r) PROVE CancelShape'
  BY <1>2 DEF Invoke, Goto, refVars, fibVars
<1>3. ASSUME NEW c \in Calls, CallMoves(c) PROVE CancelShape'
  <2>1. CASE JoinRun(c)
    BY <2>1 DEF JoinRun, Enters, Goto, refVars, fibVars
  <2>2. CASE QueueRun(c)
    BY <2>2 DEF QueueRun, Enters, Become, Goto, fibVars
  <2>3. CASE StartRun(c)
    BY <2>3 DEF StartRun, Enters, Become, Goto
  <2>4. CASE RunReturns(c)
    BY <2>4 DEF RunReturns, Return, refVars, fibVars
  <2>5. CASE RejectShell(c)
    BY <2>5 DEF RejectShell, Enters, Return, refVars, fibVars
  <2>6. CASE EnterShell(c)
    BY <2>6 DEF EnterShell, Enters, Goto, refVars, fibVars
  <2>7. CASE ShellReturns(c)
    BY <2>7 DEF ShellReturns, Return, refVars, fibVars
  <2>8. CASE CancelIdle(c)
    BY <2>8 DEF CancelIdle, Enters, Return, refVars, fibVars
  <2>9. CASE BeginCancel(c)
    BY <2>9 DEF BeginCancel, Enters, Become, Goto, fibVars
  <2>10. CASE PassLatch(c)
    BY <2>10 DEF PassLatch, Goto, refVars
  <2>11. CASE Interrupt(c)
    BY <2>11 DEF Interrupt, Goto, refVars
  <2>12. CASE VictimExited(c)
    BY <2>12 DEF VictimExited, Goto, refVars, fibVars
  <2>13. CASE SettleCancelled(c)
    BY <2>13 DEF SettleCancelled, Goto, refVars, fibVars
  <2>14. CASE IdleIfCurrent(c)
    BY <2>14 DEF IdleIfCurrent, Goto, Return, refVars, fibVars
  <2> QED
    BY <1>3, <2>1, <2>2, <2>3, <2>4, <2>5, <2>6, <2>7, <2>8, <2>9, <2>10, <2>11, <2>12, <2>13,
       <2>14
       DEF CallMoves
<1>4. ASSUME NEW c \in Calls, StartShell(c) PROVE CancelShape'
  BY <1>4 DEF StartShell, Become, Goto
<1>5. ASSUME NEW c \in Calls, CancelOnIdle(c) PROVE CancelShape'
  BY <1>5 DEF CancelOnIdle, Return, refVars, fibVars
<1>6. ASSUME NEW c \in Calls, AbortCall(c) PROVE CancelShape'
  BY <1>6 DEF AbortCall, Return, refVars
<1>7. ASSUME NEW f \in Calls, FiberMoves(f) PROVE CancelShape'
  <2>1. CASE FiberStarts(f)
    BY <2>1 DEF FiberStarts, refVars, callVars
  <2>2. CASE FiberDropped(f)
    BY <2>2 DEF FiberDropped, refVars, callVars
  <2>3. CASE ShellReady(f)
    BY <2>3 DEF ShellReady, refVars, callVars
  <2>4. CASE FinishRun(f)
    BY <2>4 DEF FinishRun, IsCurrent, Become, refVars, callVars
  <2>5. CASE FinishShell(f)
    BY <2>5 DEF FinishShell, IsCurrent, Become, refVars, callVars
  <2>6. CASE Complete(f)
    BY <2>6 DEF Complete, refVars, callVars
  <2> QED
    BY <1>7, <2>1, <2>2, <2>3, <2>4, <2>5, <2>6 DEF FiberMoves
<1>8. ASSUME NEW f \in Calls, FiberOnIdle(f) PROVE CancelShape'
  BY <1>8 DEF FiberOnIdle, refVars, callVars
<1>9. ASSUME NEW f \in Calls, NEW e \in Exits \ {"none"}, WorkEnds(f, e) PROVE CancelShape'
  BY <1>9 DEF WorkEnds, refVars, callVars
<1> QED
  BY <1>1, <1>2, <1>3, <1>4, <1>5, <1>6, <1>7, <1>8, <1>9 DEF Next, CallStep, FiberStep, WorkEnding

\* A fiber that stops being current has a cancel after it.
LEMMA StraysStep == Shape /\ StraysHaveStopper /\ [Next]_vars => StraysHaveStopper'
<1> SUFFICES ASSUME Shape, StraysHaveStopper, [Next]_vars PROVE StraysHaveStopper'
  OBVIOUS
<1> USE RunnerAssumption DEF Shape, TypeOK, CallShape, RefShape, Stops, Ops, StraysHaveStopper, Live
<1>1. CASE UNCHANGED vars
  BY <1>1 DEF vars, refVars, callVars, fibVars
<1>2. ASSUME NEW c \in Calls, NEW o \in Ops, NEW r \in Runners, Invoke(c, o, r) PROVE StraysHaveStopper'
  BY <1>2 DEF Invoke, Goto, refVars, fibVars
<1>3. ASSUME NEW c \in Calls, CallMoves(c) PROVE StraysHaveStopper'
  <2>1. CASE JoinRun(c)
    BY <2>1 DEF JoinRun, Enters, Goto, refVars, fibVars
  <2>2. CASE QueueRun(c)
    BY <2>2 DEF QueueRun, Enters, Become, Goto, fibVars
  <2>3. CASE StartRun(c)
    BY <2>3 DEF StartRun, Enters, Become, Goto
  <2>4. CASE RunReturns(c)
    BY <2>4 DEF RunReturns, Return, refVars, fibVars
  <2>5. CASE RejectShell(c)
    BY <2>5 DEF RejectShell, Enters, Return, refVars, fibVars
  <2>6. CASE EnterShell(c)
    BY <2>6 DEF EnterShell, Enters, Goto, refVars, fibVars
  <2>7. CASE ShellReturns(c)
    BY <2>7 DEF ShellReturns, Return, refVars, fibVars
  <2>8. CASE CancelIdle(c)
    BY <2>8 DEF CancelIdle, Enters, Return, refVars, fibVars
  <2>9. CASE BeginCancel(c)
    BY <2>9 DEF BeginCancel, Enters, Become, Goto, fibVars
  <2>10. CASE PassLatch(c)
    BY <2>10 DEF PassLatch, Goto, refVars
  <2>11. CASE Interrupt(c)
    BY <2>11 DEF Interrupt, Goto, refVars
  <2>12. CASE VictimExited(c)
    BY <2>12 DEF VictimExited, Goto, refVars, fibVars
  <2>13. CASE SettleCancelled(c)
    BY <2>13 DEF SettleCancelled, Goto, refVars, fibVars
  <2>14. CASE IdleIfCurrent(c)
    BY <2>14 DEF IdleIfCurrent, Goto, Return, refVars, fibVars
  <2> QED
    BY <1>3, <2>1, <2>2, <2>3, <2>4, <2>5, <2>6, <2>7, <2>8, <2>9, <2>10, <2>11, <2>12, <2>13,
       <2>14
       DEF CallMoves
<1>4. ASSUME NEW c \in Calls, StartShell(c) PROVE StraysHaveStopper'
  BY <1>4 DEF StartShell, Become, Goto
<1>5. ASSUME NEW c \in Calls, CancelOnIdle(c) PROVE StraysHaveStopper'
  BY <1>5 DEF CancelOnIdle, Return, refVars, fibVars
<1>6. ASSUME NEW c \in Calls, AbortCall(c) PROVE StraysHaveStopper'
  BY <1>6 DEF AbortCall, Return, refVars
<1>7. ASSUME NEW f \in Calls, FiberMoves(f) PROVE StraysHaveStopper'
  <2>1. CASE FiberStarts(f)
    BY <2>1 DEF FiberStarts, refVars, callVars
  <2>2. CASE FiberDropped(f)
    BY <2>2 DEF FiberDropped, refVars, callVars
  <2>3. CASE ShellReady(f)
    BY <2>3 DEF ShellReady, refVars, callVars
  <2>4. CASE FinishRun(f)
    BY <2>4 DEF FinishRun, IsCurrent, Become, refVars, callVars
  <2>5. CASE FinishShell(f)
    BY <2>5 DEF FinishShell, IsCurrent, Become, refVars, callVars
  <2>6. CASE Complete(f)
    BY <2>6 DEF Complete, refVars, callVars
  <2> QED
    BY <1>7, <2>1, <2>2, <2>3, <2>4, <2>5, <2>6 DEF FiberMoves
<1>8. ASSUME NEW f \in Calls, FiberOnIdle(f) PROVE StraysHaveStopper'
  BY <1>8 DEF FiberOnIdle, refVars, callVars
<1>9. ASSUME NEW f \in Calls, NEW e \in Exits \ {"none"}, WorkEnds(f, e) PROVE StraysHaveStopper'
  BY <1>9 DEF WorkEnds, refVars, callVars
<1> QED
  BY <1>1, <1>2, <1>3, <1>4, <1>5, <1>6, <1>7, <1>8, <1>9 DEF Next, CallStep, FiberStep, WorkEnding

\* A current fiber leaves the ref before it is gone.
LEMMA CurrentStep == Shape /\ FiberShape /\ RefHasFiber /\ [Next]_vars => RefHasFiber'
<1> SUFFICES ASSUME Shape, FiberShape, RefHasFiber, [Next]_vars PROVE RefHasFiber'
  OBVIOUS
<1> USE RunnerAssumption DEF Shape, TypeOK, CallShape, RefShape, Stops, Ops, CancelShape, FiberShape, RefHasFiber, Live, Tags
<1>1. CASE UNCHANGED vars
  BY <1>1 DEF vars, refVars, callVars, fibVars
<1>2. ASSUME NEW c \in Calls, NEW o \in Ops, NEW r \in Runners, Invoke(c, o, r) PROVE RefHasFiber'
  BY <1>2 DEF Invoke, Goto, refVars, fibVars
<1>3. ASSUME NEW c \in Calls, CallMoves(c) PROVE RefHasFiber'
  <2>1. CASE JoinRun(c)
    BY <2>1 DEF JoinRun, Enters, Goto, refVars, fibVars
  <2>2. CASE QueueRun(c)
    BY <2>2 DEF QueueRun, Enters, Become, Goto, fibVars
  <2>3. CASE StartRun(c)
    BY <2>3 DEF StartRun, Enters, Become, Goto
  <2>4. CASE RunReturns(c)
    BY <2>4 DEF RunReturns, Return, refVars, fibVars
  <2>5. CASE RejectShell(c)
    BY <2>5 DEF RejectShell, Enters, Return, refVars, fibVars
  <2>6. CASE EnterShell(c)
    BY <2>6 DEF EnterShell, Enters, Goto, refVars, fibVars
  <2>7. CASE ShellReturns(c)
    BY <2>7 DEF ShellReturns, Return, refVars, fibVars
  <2>8. CASE CancelIdle(c)
    BY <2>8 DEF CancelIdle, Enters, Return, refVars, fibVars
  <2>9. CASE BeginCancel(c)
    BY <2>9 DEF BeginCancel, Enters, Become, Goto, fibVars
  <2>10. CASE PassLatch(c)
    BY <2>10 DEF PassLatch, Goto, refVars
  <2>11. CASE Interrupt(c)
    BY <2>11 DEF Interrupt, Goto, refVars
  <2>12. CASE VictimExited(c)
    BY <2>12 DEF VictimExited, Goto, refVars, fibVars
  <2>13. CASE SettleCancelled(c)
    BY <2>13 DEF SettleCancelled, Goto, refVars, fibVars
  <2>14. CASE IdleIfCurrent(c)
    BY <2>14 DEF IdleIfCurrent, Goto, Return, refVars, fibVars
  <2> QED
    BY <1>3, <2>1, <2>2, <2>3, <2>4, <2>5, <2>6, <2>7, <2>8, <2>9, <2>10, <2>11, <2>12, <2>13,
       <2>14
       DEF CallMoves
<1>4. ASSUME NEW c \in Calls, StartShell(c) PROVE RefHasFiber'
  BY <1>4 DEF StartShell, Become, Goto
<1>5. ASSUME NEW c \in Calls, CancelOnIdle(c) PROVE RefHasFiber'
  BY <1>5 DEF CancelOnIdle, Return, refVars, fibVars
<1>6. ASSUME NEW c \in Calls, AbortCall(c) PROVE RefHasFiber'
  BY <1>6 DEF AbortCall, Return, refVars
<1>7. ASSUME NEW f \in Calls, FiberMoves(f) PROVE RefHasFiber'
  <2>1. CASE FiberStarts(f)
    BY <2>1 DEF FiberStarts, refVars, callVars
  <2>2. CASE FiberDropped(f)
    <3> SUFFICES ASSUME NEW r \in Runners, tag'[r] # "Idle"
                 PROVE  \/ Live(cur[r])'
                        \/ (tag[r] \in {"Shell", "ShellThenRun"} /\ cur[r] \in Abortable)'
      OBVIOUS
    <3>1. CASE r = on[f]
      BY <2>2, <3>1 DEF FiberDropped, refVars, callVars
    <3>2. CASE r # on[f]
      BY <2>2, <3>2 DEF FiberDropped, refVars, callVars
    <3> QED
      BY <3>1, <3>2
  <2>3. CASE ShellReady(f)
    BY <2>3 DEF ShellReady, refVars, callVars
  <2>4. CASE FinishRun(f)
    <3> SUFFICES ASSUME NEW r \in Runners, tag'[r] # "Idle"
                 PROVE  \/ Live(cur[r])'
                        \/ (tag[r] \in {"Shell", "ShellThenRun"} /\ cur[r] \in Abortable)'
      OBVIOUS
    <3>1. CASE r = on[f]
      BY <2>4, <3>1 DEF FinishRun, IsCurrent, Become, refVars, callVars
    <3>2. CASE r # on[f]
      BY <2>4, <3>2 DEF FinishRun, IsCurrent, Become, refVars, callVars
    <3> QED
      BY <3>1, <3>2
  <2>5. CASE FinishShell(f)
    <3> SUFFICES ASSUME NEW r \in Runners, tag'[r] # "Idle"
                 PROVE  \/ Live(cur[r])'
                        \/ (tag[r] \in {"Shell", "ShellThenRun"} /\ cur[r] \in Abortable)'
      OBVIOUS
    <3>1. CASE r = on[f]
      BY <2>5, <3>1 DEF FinishShell, IsCurrent, Become, refVars, callVars
    <3>2. CASE r # on[f]
      BY SMTT(30), <2>5, <3>2 DEF FinishShell, IsCurrent, Become, refVars, callVars
    <3> QED
      BY <3>1, <3>2
  <2>6. CASE Complete(f)
    BY <2>6 DEF Complete, refVars, callVars
  <2> QED
    BY <1>7, <2>1, <2>2, <2>3, <2>4, <2>5, <2>6 DEF FiberMoves
<1>8. ASSUME NEW f \in Calls, FiberOnIdle(f) PROVE RefHasFiber'
  BY <1>8 DEF FiberOnIdle, refVars, callVars
<1>9. ASSUME NEW f \in Calls, NEW e \in Exits \ {"none"}, WorkEnds(f, e) PROVE RefHasFiber'
  BY <1>9 DEF WorkEnds, refVars, callVars
<1> QED
  BY <1>1, <1>2, <1>3, <1>4, <1>5, <1>6, <1>7, <1>8, <1>9 DEF Next, CallStep, FiberStep, WorkEnding

\* A run stays unsettled as long as its fiber is there.
LEMMA FiberShapeStep == Shape /\ FiberShape /\ SettledRunIsOver /\ [Next]_vars => FiberShape'
<1> SUFFICES ASSUME Shape, FiberShape, SettledRunIsOver, [Next]_vars PROVE FiberShape'
  OBVIOUS
<1> USE RunnerAssumption DEF Shape, TypeOK, CallShape, RefShape, Stops, Ops, CancelShape, FiberShape, MayCancel, SettledRunIsOver, Exits
<1>1. CASE UNCHANGED vars
  BY <1>1 DEF vars, refVars, callVars, fibVars
<1>2. ASSUME NEW c \in Calls, NEW o \in Ops, NEW r \in Runners, Invoke(c, o, r) PROVE FiberShape'
  BY <1>2 DEF Invoke, Goto, refVars, fibVars
<1>3. ASSUME NEW c \in Calls, CallMoves(c) PROVE FiberShape'
  <2>1. CASE JoinRun(c)
    BY <2>1 DEF JoinRun, Enters, Goto, refVars, fibVars
  <2>2. CASE QueueRun(c)
    BY <2>2 DEF QueueRun, Enters, Become, Goto, fibVars
  <2>3. CASE StartRun(c)
    BY <2>3 DEF StartRun, Enters, Become, Goto
  <2>4. CASE RunReturns(c)
    BY <2>4 DEF RunReturns, Return, refVars, fibVars
  <2>5. CASE RejectShell(c)
    BY <2>5 DEF RejectShell, Enters, Return, refVars, fibVars
  <2>6. CASE EnterShell(c)
    BY <2>6 DEF EnterShell, Enters, Goto, refVars, fibVars
  <2>7. CASE ShellReturns(c)
    BY <2>7 DEF ShellReturns, Return, refVars, fibVars
  <2>8. CASE CancelIdle(c)
    BY <2>8 DEF CancelIdle, Enters, Return, refVars, fibVars
  <2>9. CASE BeginCancel(c)
    BY <2>9 DEF BeginCancel, Enters, Become, Goto, fibVars
  <2>10. CASE PassLatch(c)
    BY <2>10 DEF PassLatch, Goto, refVars
  <2>11. CASE Interrupt(c)
    BY <2>11 DEF Interrupt, Goto, refVars
  <2>12. CASE VictimExited(c)
    BY <2>12 DEF VictimExited, Goto, refVars, fibVars
  <2>13. CASE SettleCancelled(c)
    BY <2>13 DEF SettleCancelled, Goto, refVars, fibVars
  <2>14. CASE IdleIfCurrent(c)
    BY <2>14 DEF IdleIfCurrent, Goto, Return, refVars, fibVars
  <2> QED
    BY <1>3, <2>1, <2>2, <2>3, <2>4, <2>5, <2>6, <2>7, <2>8, <2>9, <2>10, <2>11, <2>12, <2>13,
       <2>14
       DEF CallMoves
<1>4. ASSUME NEW c \in Calls, StartShell(c) PROVE FiberShape'
  BY <1>4 DEF StartShell, Become, Goto
<1>5. ASSUME NEW c \in Calls, CancelOnIdle(c) PROVE FiberShape'
  BY <1>5 DEF CancelOnIdle, Return, refVars, fibVars
<1>6. ASSUME NEW c \in Calls, AbortCall(c) PROVE FiberShape'
  BY <1>6 DEF AbortCall, Return, refVars
<1>7. ASSUME NEW f \in Calls, FiberMoves(f) PROVE FiberShape'
  <2>1. CASE FiberStarts(f)
    BY <2>1 DEF FiberStarts, refVars, callVars
  <2>2. CASE FiberDropped(f)
    BY <2>2 DEF FiberDropped, refVars, callVars
  <2>3. CASE ShellReady(f)
    BY <2>3 DEF ShellReady, refVars, callVars
  <2>4. CASE FinishRun(f)
    BY <2>4 DEF FinishRun, IsCurrent, Become, refVars, callVars
  <2>5. CASE FinishShell(f)
    BY SMTT(30), <2>5 DEF FinishShell, IsCurrent, Become, refVars, callVars
  <2>6. CASE Complete(f)
    BY <2>6 DEF Complete, refVars, callVars
  <2> QED
    BY <1>7, <2>1, <2>2, <2>3, <2>4, <2>5, <2>6 DEF FiberMoves
<1>8. ASSUME NEW f \in Calls, FiberOnIdle(f) PROVE FiberShape'
  BY <1>8 DEF FiberOnIdle, refVars, callVars
<1>9. ASSUME NEW f \in Calls, NEW e \in Exits \ {"none"}, WorkEnds(f, e) PROVE FiberShape'
  BY <1>9 DEF WorkEnds, refVars, callVars
<1> QED
  BY <1>1, <1>2, <1>3, <1>4, <1>5, <1>6, <1>7, <1>8, <1>9 DEF Next, CallStep, FiberStep, WorkEnding

\* A run that is settled is over and stays so.
LEMMA SettledStep == Shape /\ FiberShape /\ SettledRunIsOver /\ [Next]_vars => SettledRunIsOver'
<1> SUFFICES ASSUME Shape, FiberShape, SettledRunIsOver, [Next]_vars PROVE SettledRunIsOver'
  OBVIOUS
<1> USE RunnerAssumption DEF Shape, TypeOK, CallShape, RefShape, Stops, Ops, CancelShape, FiberShape, SettledRunIsOver
<1>1. CASE UNCHANGED vars
  BY <1>1 DEF vars, refVars, callVars, fibVars
<1>2. ASSUME NEW c \in Calls, NEW o \in Ops, NEW r \in Runners, Invoke(c, o, r) PROVE SettledRunIsOver'
  BY <1>2 DEF Invoke, Goto, refVars, fibVars
<1>3. ASSUME NEW c \in Calls, CallMoves(c) PROVE SettledRunIsOver'
  <2>1. CASE JoinRun(c)
    BY <2>1 DEF JoinRun, Enters, Goto, refVars, fibVars
  <2>2. CASE QueueRun(c)
    BY <2>2 DEF QueueRun, Enters, Become, Goto, fibVars
  <2>3. CASE StartRun(c)
    BY <2>3 DEF StartRun, Enters, Become, Goto
  <2>4. CASE RunReturns(c)
    BY <2>4 DEF RunReturns, Return, refVars, fibVars
  <2>5. CASE RejectShell(c)
    BY <2>5 DEF RejectShell, Enters, Return, refVars, fibVars
  <2>6. CASE EnterShell(c)
    BY <2>6 DEF EnterShell, Enters, Goto, refVars, fibVars
  <2>7. CASE ShellReturns(c)
    BY <2>7 DEF ShellReturns, Return, refVars, fibVars
  <2>8. CASE CancelIdle(c)
    BY <2>8 DEF CancelIdle, Enters, Return, refVars, fibVars
  <2>9. CASE BeginCancel(c)
    BY <2>9 DEF BeginCancel, Enters, Become, Goto, fibVars
  <2>10. CASE PassLatch(c)
    BY <2>10 DEF PassLatch, Goto, refVars
  <2>11. CASE Interrupt(c)
    BY <2>11 DEF Interrupt, Goto, refVars
  <2>12. CASE VictimExited(c)
    BY <2>12 DEF VictimExited, Goto, refVars, fibVars
  <2>13. CASE SettleCancelled(c)
    BY <2>13 DEF SettleCancelled, Goto, refVars, fibVars
  <2>14. CASE IdleIfCurrent(c)
    BY <2>14 DEF IdleIfCurrent, Goto, Return, refVars, fibVars
  <2> QED
    BY <1>3, <2>1, <2>2, <2>3, <2>4, <2>5, <2>6, <2>7, <2>8, <2>9, <2>10, <2>11, <2>12, <2>13,
       <2>14
       DEF CallMoves
<1>4. ASSUME NEW c \in Calls, StartShell(c) PROVE SettledRunIsOver'
  BY <1>4 DEF StartShell, Become, Goto
<1>5. ASSUME NEW c \in Calls, CancelOnIdle(c) PROVE SettledRunIsOver'
  BY <1>5 DEF CancelOnIdle, Return, refVars, fibVars
<1>6. ASSUME NEW c \in Calls, AbortCall(c) PROVE SettledRunIsOver'
  BY <1>6 DEF AbortCall, Return, refVars
<1>7. ASSUME NEW f \in Calls, FiberMoves(f) PROVE SettledRunIsOver'
  <2>1. CASE FiberStarts(f)
    BY <2>1 DEF FiberStarts, refVars, callVars
  <2>2. CASE FiberDropped(f)
    BY <2>2 DEF FiberDropped, refVars, callVars
  <2>3. CASE ShellReady(f)
    BY <2>3 DEF ShellReady, refVars, callVars
  <2>4. CASE FinishRun(f)
    BY <2>4 DEF FinishRun, IsCurrent, Become, refVars, callVars
  <2>5. CASE FinishShell(f)
    BY <2>5 DEF FinishShell, IsCurrent, Become, refVars, callVars
  <2>6. CASE Complete(f)
    <3>1. phase[f] = "complete" /\ op[f] = "ensure" /\ done[f] = "open" /\ exit[f] # "none"
      BY <2>6 DEF Complete
    <3>2. ASSUME NEW r \in Runners PROVE pend[r] # f
      BY <3>1
    <3>3. CASE exit[f] = "success"
      BY <2>6, <3>1, <3>2, <3>3 DEF Complete, refVars, callVars
    <3>4. CASE exit[f] = "interrupt"
      BY <2>6, <3>1, <3>2, <3>4 DEF Complete, refVars, callVars
    <3>5. CASE exit[f] \notin {"success", "interrupt"}
      BY <2>6, <3>1, <3>2, <3>5 DEF Complete, refVars, callVars, Exits
    <3> QED
      BY <3>3, <3>4, <3>5
  <2> QED
    BY <1>7, <2>1, <2>2, <2>3, <2>4, <2>5, <2>6 DEF FiberMoves
<1>8. ASSUME NEW f \in Calls, FiberOnIdle(f) PROVE SettledRunIsOver'
  BY <1>8 DEF FiberOnIdle, refVars, callVars
<1>9. ASSUME NEW f \in Calls, NEW e \in Exits \ {"none"}, WorkEnds(f, e) PROVE SettledRunIsOver'
  BY <1>9 DEF WorkEnds, refVars, callVars
<1> QED
  BY <1>1, <1>2, <1>3, <1>4, <1>5, <1>6, <1>7, <1>8, <1>9 DEF Next, CallStep, FiberStep, WorkEnding

\* An unsettled run always has somebody who will settle it.
LEMMA OpenStep == Shape /\ FiberShape /\ OpenHasOwner /\ [Next]_vars => OpenHasOwner'
<1> SUFFICES ASSUME Shape, FiberShape, OpenHasOwner, [Next]_vars PROVE OpenHasOwner'
  OBVIOUS
<1> USE RunnerAssumption DEF Shape, TypeOK, CallShape, RefShape, Stops, Ops, CancelShape, FiberShape, OpenHasOwner, MayCancel
<1>1. CASE UNCHANGED vars
  BY <1>1 DEF vars, refVars, callVars, fibVars
<1>2. ASSUME NEW c \in Calls, NEW o \in Ops, NEW r \in Runners, Invoke(c, o, r) PROVE OpenHasOwner'
  BY <1>2 DEF Invoke, Goto, refVars, fibVars
<1>3. ASSUME NEW c \in Calls, CallMoves(c) PROVE OpenHasOwner'
  <2>1. CASE JoinRun(c)
    BY SMTT(30), <2>1 DEF JoinRun, Enters, Goto, refVars, fibVars
  <2>2. CASE QueueRun(c)
    BY <2>2 DEF QueueRun, Enters, Become, Goto, fibVars
  <2>3. CASE StartRun(c)
    BY <2>3 DEF StartRun, Enters, Become, Goto
  <2>4. CASE RunReturns(c)
    BY <2>4 DEF RunReturns, Return, refVars, fibVars
  <2>5. CASE RejectShell(c)
    BY <2>5 DEF RejectShell, Enters, Return, refVars, fibVars
  <2>6. CASE EnterShell(c)
    BY <2>6 DEF EnterShell, Enters, Goto, refVars, fibVars
  <2>7. CASE ShellReturns(c)
    BY <2>7 DEF ShellReturns, Return, refVars, fibVars
  <2>8. CASE CancelIdle(c)
    BY <2>8 DEF CancelIdle, Enters, Return, refVars, fibVars
  <2>9. CASE BeginCancel(c)
    BY <2>9 DEF BeginCancel, Enters, Become, Goto, fibVars
  <2>10. CASE PassLatch(c)
    BY <2>10 DEF PassLatch, Goto, refVars
  <2>11. CASE Interrupt(c)
    BY <2>11 DEF Interrupt, Goto, refVars
  <2>12. CASE VictimExited(c)
    BY <2>12 DEF VictimExited, Goto, refVars, fibVars
  <2>13. CASE SettleCancelled(c)
    BY <2>13 DEF SettleCancelled, Goto, refVars, fibVars
  <2>14. CASE IdleIfCurrent(c)
    BY <2>14 DEF IdleIfCurrent, Goto, Return, refVars, fibVars
  <2> QED
    BY <1>3, <2>1, <2>2, <2>3, <2>4, <2>5, <2>6, <2>7, <2>8, <2>9, <2>10, <2>11, <2>12, <2>13,
       <2>14
       DEF CallMoves
<1>4. ASSUME NEW c \in Calls, StartShell(c) PROVE OpenHasOwner'
  BY <1>4 DEF StartShell, Become, Goto
<1>5. ASSUME NEW c \in Calls, CancelOnIdle(c) PROVE OpenHasOwner'
  BY <1>5 DEF CancelOnIdle, Return, refVars, fibVars
<1>6. ASSUME NEW c \in Calls, AbortCall(c) PROVE OpenHasOwner'
  BY <1>6 DEF AbortCall, Return, refVars
<1>7. ASSUME NEW f \in Calls, FiberMoves(f) PROVE OpenHasOwner'
  <2>1. CASE FiberStarts(f)
    BY <2>1 DEF FiberStarts, refVars, callVars
  <2>2. CASE FiberDropped(f)
    BY <2>2 DEF FiberDropped, refVars, callVars
  <2>3. CASE ShellReady(f)
    BY <2>3 DEF ShellReady, refVars, callVars
  <2>4. CASE FinishRun(f)
    BY <2>4 DEF FinishRun, IsCurrent, Become, refVars, callVars
  <2>5. CASE FinishShell(f)
    BY <2>5 DEF FinishShell, IsCurrent, Become, refVars, callVars
  <2>6. CASE Complete(f)
    BY <2>6 DEF Complete, refVars, callVars
  <2> QED
    BY <1>7, <2>1, <2>2, <2>3, <2>4, <2>5, <2>6 DEF FiberMoves
<1>8. ASSUME NEW f \in Calls, FiberOnIdle(f) PROVE OpenHasOwner'
  BY <1>8 DEF FiberOnIdle, refVars, callVars
<1>9. ASSUME NEW f \in Calls, NEW e \in Exits \ {"none"}, WorkEnds(f, e) PROVE OpenHasOwner'
  BY <1>9 DEF WorkEnds, refVars, callVars
<1> QED
  BY <1>1, <1>2, <1>3, <1>4, <1>5, <1>6, <1>7, <1>8, <1>9 DEF Next, CallStep, FiberStep, WorkEnding
-----------------------------------------------------------------------------
\* The whole inductive invariant, and the initial states.
Inv == RunInv /\ StraysHaveStopper /\ RefHasFiber

LEMMA InitInv == Init => Inv
BY RunnerAssumption
   DEF Init, Inv, RunInv, Shape, TypeOK, CallShape, RefShape, CancelShape, FiberShape,
       SettledRunIsOver, OpenHasOwner, StraysHaveStopper, RefHasFiber, Live, Stops, Tags, Ops,
       PCs, Results, Phases, Exits, Dones

LEMMA InvStep == Inv /\ [Next]_vars => Inv'
BY TypeStep, CallShapeStep, RefShapeStep, CancelShapeStep, FiberShapeStep, SettledStep, OpenStep,
   StraysStep, CurrentStep DEF Inv, RunInv, Shape

THEOREM InvHolds == Spec => []Inv
BY InitInv, InvStep, PTL DEF Spec

\* A waiter's answer is what the finished work did.
THEOREM AnswersAreFinal == Spec => []SettledRunIsOver
<1>1. Inv => SettledRunIsOver
  BY DEF Inv, RunInv
<1> QED
  BY <1>1, InvHolds, PTL

\* A cancel returns when what it stopped is gone and its waiters are answered.
THEOREM CancelLeavesNothing == Spec => []CancelIsSynchronous
<1>1. Inv => CancelIsSynchronous
  BY RunnerAssumption DEF Inv, RunInv, Shape, TypeOK, CancelShape, CancelIsSynchronous
<1> QED
  BY <1>1, InvHolds, PTL

-----------------------------------------------------------------------------
(* What the runners keep besides *)

\* A cancel that is over ran to its end or was aborted; a fiber is interrupted by a
\* cancel or as the child of an aborted call; only such a child leaves its runner
\* without having run its finish hook.
AbortShape ==
    /\ \A c \in Calls : op[c] = "cancel" /\ pc[c] = "returned" => result[c] \in {"void", "aborted"}
    /\ \A f \in Calls : intr[f] => (\E c \in Calls : victim[c] = f) \/ result[f] = "aborted"
    /\ \A f \in Calls : phase[f] \in {"none", "forked"} => ~ready[f]
    /\ \A c \in Calls : pc[c] = "waitExit" => intr[victim[c]]
    /\ \A c \in Calls : op[c] = "cancel" /\ waits[c] # None => victim[c] # None
    /\ CurrentIsAlive

\* A step of the runners keeps that.
LEMMA AbortShapeStep == Inv /\ AbortShape /\ [Next]_vars => AbortShape'
<1> SUFFICES ASSUME Inv, AbortShape, [Next]_vars PROVE AbortShape'
  OBVIOUS
<1> USE RunnerAssumption DEF Inv, RunInv, Shape, TypeOK, CallShape, RefShape, Stops, Ops, CancelShape, FiberShape, AbortShape, CurrentIsAlive, Dropped, Live, Tags
<1>1. CASE UNCHANGED vars
  BY <1>1 DEF vars, refVars, callVars, fibVars
<1>2. ASSUME NEW c \in Calls, NEW o \in Ops, NEW r \in Runners, Invoke(c, o, r) PROVE AbortShape'
  BY <1>2 DEF Invoke, Goto, refVars, fibVars
<1>3. ASSUME NEW c \in Calls, CallMoves(c) PROVE AbortShape'
  <2>1. CASE JoinRun(c)
    BY <2>1 DEF JoinRun, Enters, Goto, refVars, fibVars
  <2>2. CASE QueueRun(c)
    BY <2>2 DEF QueueRun, Enters, Become, Goto, fibVars
  <2>3. CASE StartRun(c)
    BY <2>3 DEF StartRun, Enters, Become, Goto
  <2>4. CASE RunReturns(c)
    BY <2>4 DEF RunReturns, Return, refVars, fibVars
  <2>5. CASE RejectShell(c)
    BY <2>5 DEF RejectShell, Enters, Return, refVars, fibVars
  <2>6. CASE EnterShell(c)
    BY <2>6 DEF EnterShell, Enters, Goto, refVars, fibVars
  <2>7. CASE ShellReturns(c)
    BY <2>7 DEF ShellReturns, Return, refVars, fibVars
  <2>8. CASE CancelIdle(c)
    BY <2>8 DEF CancelIdle, Enters, Return, refVars, fibVars
  <2>9. CASE BeginCancel(c)
    BY <2>9 DEF BeginCancel, Enters, Become, Goto, fibVars
  <2>10. CASE PassLatch(c)
    BY <2>10 DEF PassLatch, Goto, refVars
  <2>11. CASE Interrupt(c)
    BY <2>11 DEF Interrupt, Goto, refVars
  <2>12. CASE VictimExited(c)
    BY <2>12 DEF VictimExited, Goto, refVars, fibVars
  <2>13. CASE SettleCancelled(c)
    BY <2>13 DEF SettleCancelled, Goto, refVars, fibVars
  <2>14. CASE IdleIfCurrent(c)
    BY <2>14 DEF IdleIfCurrent, Goto, Return, refVars, fibVars
  <2> QED
    BY <1>3, <2>1, <2>2, <2>3, <2>4, <2>5, <2>6, <2>7, <2>8, <2>9, <2>10, <2>11, <2>12, <2>13,
       <2>14
       DEF CallMoves
<1>4. ASSUME NEW c \in Calls, StartShell(c) PROVE AbortShape'
  BY <1>4 DEF StartShell, Become, Goto
<1>5. ASSUME NEW c \in Calls, CancelOnIdle(c) PROVE AbortShape'
  BY <1>5 DEF CancelOnIdle, Return, refVars, fibVars
<1>6. ASSUME NEW c \in Calls, AbortCall(c) PROVE AbortShape'
  BY <1>6 DEF AbortCall, Return, refVars
<1>7. ASSUME NEW f \in Calls, FiberMoves(f) PROVE AbortShape'
  <2>1. CASE FiberStarts(f)
    BY <2>1 DEF FiberStarts, refVars, callVars
  <2>2. CASE FiberDropped(f)
    <3> SUFFICES ASSUME NEW r \in Runners, tag'[r] # "Idle"
                 PROVE  \/ Live(cur[r])'
                        \/ Dropped(cur[r])'
      BY <2>2 DEF FiberDropped, refVars, callVars
    <3>1. CASE r = on[f]
      BY <2>2, <3>1 DEF FiberDropped, refVars, callVars
    <3>2. CASE r # on[f]
      BY <2>2, <3>2 DEF FiberDropped, refVars, callVars
    <3> QED
      BY <3>1, <3>2
  <2>3. CASE ShellReady(f)
    BY <2>3 DEF ShellReady, refVars, callVars
  <2>4. CASE FinishRun(f)
    <3> SUFFICES ASSUME NEW r \in Runners, tag'[r] # "Idle"
                 PROVE  \/ Live(cur[r])'
                        \/ Dropped(cur[r])'
      BY <2>4 DEF FinishRun, refVars, callVars
    <3>1. CASE r = on[f]
      BY <2>4, <3>1 DEF FinishRun, IsCurrent, Become, refVars, callVars
    <3>2. CASE r # on[f]
      BY <2>4, <3>2 DEF FinishRun, IsCurrent, Become, refVars, callVars
    <3> QED
      BY <3>1, <3>2
  <2>5. CASE FinishShell(f)
    <3> SUFFICES ASSUME NEW r \in Runners, tag'[r] # "Idle"
                 PROVE  \/ Live(cur[r])'
                        \/ Dropped(cur[r])'
      BY <2>5 DEF FinishShell, refVars, callVars
    <3>1. CASE r = on[f]
      BY <2>5, <3>1 DEF FinishShell, IsCurrent, Become, refVars, callVars
    <3>2. CASE r # on[f]
      BY <2>5, <3>2 DEF FinishShell, IsCurrent, Become, refVars, callVars
    <3> QED
      BY <3>1, <3>2
  <2>6. CASE Complete(f)
    BY <2>6 DEF Complete, refVars, callVars
  <2> QED
    BY <1>7, <2>1, <2>2, <2>3, <2>4, <2>5, <2>6 DEF FiberMoves
<1>8. ASSUME NEW f \in Calls, FiberOnIdle(f) PROVE AbortShape'
  BY <1>8 DEF FiberOnIdle, refVars, callVars
<1>9. ASSUME NEW f \in Calls, NEW e \in Exits \ {"none"}, WorkEnds(f, e) PROVE AbortShape'
  BY <1>9 DEF WorkEnds, refVars, callVars
<1> QED
  BY <1>1, <1>2, <1>3, <1>4, <1>5, <1>6, <1>7, <1>8, <1>9 DEF Next, CallStep, FiberStep, WorkEnding

LEMMA AbortShapeHolds == Spec => []AbortShape
<1>1. Init => AbortShape
  BY RunnerAssumption DEF Init, AbortShape, CurrentIsAlive, Ops
<1> QED
  BY <1>1, InitInv, InvHolds, AbortShapeStep, PTL DEF Spec

\* A runner that is not idle names a fiber that will leave that state.
THEOREM CurrentAlive == Spec => []CurrentIsAlive
<1>1. AbortShape => CurrentIsAlive
  BY DEF AbortShape
<1> QED
  BY <1>1, AbortShapeHolds, PTL

\* At most one fiber of a runner is not being stopped.
THEOREM Strays == Spec => []StraysAreStopped
<1>1. Inv /\ AbortShape => StraysAreStopped
  <2> SUFFICES ASSUME Inv, AbortShape, NEW f \in Calls, Live(f), ~intr[f], NEW c \in Calls,
                      victim[c] = f, c \in Abortable, pc[c] \notin {"latch", "interrupt"}
               PROVE  result[c] = "aborted"
    BY DEF Inv, StraysHaveStopper, StraysAreStopped
  <2> QED
    BY RunnerAssumption
       DEF Inv, RunInv, Shape, TypeOK, CallShape, CancelShape, AbortShape, Live, Stops, PCs, Ops
<1> QED
  BY <1>1, InvHolds, AbortShapeHolds, PTL

\* Every unsettled Deferred has somebody who will settle it.
THEOREM NoForgottenWaiter == Spec => []OpenHasSettler
<1>1. Inv /\ AbortShape => OpenHasSettler
  <2> SUFFICES ASSUME Inv, AbortShape, NEW d \in Calls, done[d] = "open", MayCancel(d)
               PROVE  WillCancel(d)
    BY DEF Inv, RunInv, OpenHasOwner, OpenHasSettler
  <2>1. PICK c \in Calls : /\ op[c] = "cancel" /\ waits[c] = d
                           /\ pc[c] \in {"latch", "interrupt", "waitExit", "settle"} \/ c \in Abortable
    BY DEF MayCancel
  <2>2. pc[c] \in {"latch", "interrupt", "waitExit", "settle"} \/ result[c] = "aborted"
    BY <2>1, RunnerAssumption
       DEF Inv, RunInv, Shape, TypeOK, CallShape, CancelShape, AbortShape, Stops, PCs, Ops
  <2> QED
    BY <2>1, <2>2 DEF WillCancel
<1> QED
  BY <1>1, InvHolds, AbortShapeHolds, PTL

-----------------------------------------------------------------------------
(* The refinement of SharedRun *)

Joined == [c \in Calls |-> IF op[c] = "ensure" THEN waits[c] ELSE None]
Answers == [c \in Calls |-> IF op[c] = "ensure" THEN result[c] ELSE "none"]

\* Updating one call's fields updates one entry of the abstract functions.
LEMMA JoinedUpdate ==
    ASSUME NEW c \in Calls, NEW d, op[c] = "ensure", op' = op,
           waits \in [Calls -> Calls \cup {None}], waits' = [waits EXCEPT ![c] = d]
    PROVE  Joined[c] = waits[c] /\ Joined' = [Joined EXCEPT ![c] = d]
<1>1. ASSUME NEW x \in Calls PROVE Joined'[x] = [Joined EXCEPT ![c] = d][x]
  BY DEF Joined
<1>2. Joined' = [x \in Calls |-> Joined'[x]] /\ [Joined EXCEPT ![c] = d] = [x \in Calls |-> [Joined EXCEPT ![c] = d][x]]
  BY DEF Joined
<1> QED
  BY <1>1, <1>2 DEF Joined

LEMMA AnswersUpdate ==
    ASSUME NEW c \in Calls, NEW v, op[c] = "ensure", op' = op,
           result \in [Calls -> Results], result' = [result EXCEPT ![c] = v]
    PROVE  Answers[c] = result[c] /\ Answers' = [Answers EXCEPT ![c] = v]
<1>1. ASSUME NEW x \in Calls PROVE Answers'[x] = [Answers EXCEPT ![c] = v][x]
  BY DEF Answers
<1>2. Answers' = [x \in Calls |-> Answers'[x]] /\ [Answers EXCEPT ![c] = v] = [x \in Calls |-> [Answers EXCEPT ![c] = v][x]]
  BY DEF Answers
<1> QED
  BY <1>1, <1>2 DEF Answers

\* A runner starts as SharedRun does.
LEMMA RefinesInit == Init => SharedRuns!Init
BY RunnerAssumption DEF Init, SharedRuns!Init

\* Every step opens, joins, settles or answers a run, lets a caller go, or
\* is invisible to the callers of ensureRunning.
LEMMA RefinesStep == Inv /\ [Next]_vars => [SharedRuns!Next]_(SharedRuns!vars)
<1> SUFFICES ASSUME Inv, [Next]_vars
             PROVE  SharedRuns!Next \/ UNCHANGED <<done, Joined, Answers>>
  BY DEF SharedRuns!vars, Joined, Answers
<1> USE RunnerAssumption DEF Inv, RunInv, Shape, TypeOK, CallShape, Ops, Stops
<1> DEFINE Goal == SharedRuns!Next \/ UNCHANGED <<done, Joined, Answers>>
<1>1. CASE UNCHANGED vars
  BY <1>1 DEF vars, callVars, Joined, Answers
<1>2. ASSUME NEW c \in Calls, NEW o \in Ops, NEW r \in Runners, Invoke(c, o, r) PROVE Goal
  BY <1>2 DEF Invoke, Goto, Joined, Answers
<1>3. ASSUME NEW c \in Calls, CallMoves(c) PROVE Goal
  <2>1. CASE JoinRun(c)
    <3>1. PICK d \in Calls : done[d] = "open" /\ waits' = [waits EXCEPT ![c] = d]
      BY <2>1 DEF JoinRun, Enters, RefShape, RefHasFiber, Live, FiberShape
    <3>2. Joined[c] = None /\ Joined' = [Joined EXCEPT ![c] = d]
      <4>1. op[c] = "ensure" /\ op' = op /\ waits[c] = None /\ waits \in [Calls -> Calls \cup {None}]
        BY <2>1 DEF JoinRun, Enters
      <4> QED
        BY <4>1, <3>1, JoinedUpdate
    <3>3. Answers' = Answers /\ done' = done
      BY <2>1, <3>1 DEF JoinRun, Answers
    <3>4. SharedRuns!Join(c, d)
      BY <3>1, <3>2, <3>3 DEF SharedRuns!Join, Joined, Answers
    <3> QED
      BY <3>4 DEF SharedRuns!Next
  <2>2. CASE QueueRun(c)
    <3>1. Joined[c] = None /\ Joined' = [Joined EXCEPT ![c] = c]
      <4>1. op[c] = "ensure" /\ op' = op /\ waits[c] = None /\ waits \in [Calls -> Calls \cup {None}]
        BY <2>2 DEF QueueRun, Enters
      <4>2. waits' = [waits EXCEPT ![c] = c]
        BY <2>2 DEF QueueRun
      <4> QED
        BY <4>1, <4>2, JoinedUpdate
    <3>2. Answers' = Answers /\ done[c] = "none" /\ done' = [done EXCEPT ![c] = "open"]
      BY <2>2 DEF QueueRun, Enters, Answers
    <3>3. SharedRuns!Open(c)
      BY <3>1, <3>2 DEF SharedRuns!Open, Joined, Answers
    <3> QED
      BY <3>3 DEF SharedRuns!Next
  <2>3. CASE StartRun(c)
    <3>1. Joined[c] = None /\ Joined' = [Joined EXCEPT ![c] = c]
      <4>1. op[c] = "ensure" /\ op' = op /\ waits[c] = None /\ waits \in [Calls -> Calls \cup {None}]
        BY <2>3 DEF StartRun, Enters
      <4>2. waits' = [waits EXCEPT ![c] = c]
        BY <2>3 DEF StartRun
      <4> QED
        BY <4>1, <4>2, JoinedUpdate
    <3>2. Answers' = Answers /\ done[c] = "none" /\ done' = [done EXCEPT ![c] = "open"]
      BY <2>3 DEF StartRun, Enters, Answers
    <3>3. SharedRuns!Open(c)
      BY <3>1, <3>2 DEF SharedRuns!Open, Joined, Answers
    <3> QED
      BY <3>3 DEF SharedRuns!Next
  <2>4. CASE RunReturns(c)
    <3>1. done[waits[c]] \in {"success", "failure", "cancelled"} /\ waits[c] \in Calls /\ result[c] = "none"
      BY <2>4 DEF RunReturns, Dones
    <3>2. Outcome(waits[c]) = SharedRuns!Told(done[waits[c]])
      BY <3>1 DEF Outcome, SharedRuns!Told
    <3>3. Answers[c] = "none" /\ Answers' = [Answers EXCEPT ![c] = SharedRuns!Told(done[waits[c]])]
      <4>1. op[c] = "ensure" /\ op' = op /\ result \in [Calls -> Results]
        BY <2>4 DEF RunReturns
      <4>2. result' = [result EXCEPT ![c] = SharedRuns!Told(done[waits[c]])]
        BY <2>4, <3>2 DEF RunReturns, Return
      <4> QED
        BY <4>1, <4>2, <3>1, AnswersUpdate
    <3>4. Joined' = Joined /\ Joined[c] = waits[c] /\ Joined[c] # None /\ done' = done
      BY <2>4, <3>1 DEF RunReturns, Joined
    <3>5. SharedRuns!Answer(c)
      BY <3>1, <3>3, <3>4 DEF SharedRuns!Answer, SharedRuns!Outcomes, Joined, Answers
    <3> QED
      BY <3>5 DEF SharedRuns!Next
  <2>5. CASE RejectShell(c) \/ EnterShell(c) \/ CancelIdle(c)
    BY <2>5 DEF RejectShell, EnterShell, CancelIdle, Enters, Goto, Return, Joined, Answers
  <2>6. CASE ShellReturns(c)
    BY <2>6 DEF ShellReturns, Return, Joined, Answers
  <2>7. CASE BeginCancel(c)
    BY <2>7 DEF BeginCancel, Enters, Goto, Joined, Answers
  <2>8. CASE PassLatch(c) \/ Interrupt(c) \/ VictimExited(c)
    BY <2>8 DEF PassLatch, Interrupt, VictimExited, Goto, Joined, Answers
  <2>9. CASE SettleCancelled(c)
    <3>1. CASE done[waits[c]] = "open"
      <4>1. SharedRuns!Settle(waits[c], "cancelled")
        BY <2>9, <3>1 DEF SettleCancelled, SharedRuns!Settle
      <4> QED
        BY <2>9, <4>1 DEF SettleCancelled, SharedRuns!Next, SharedRuns!Outcomes
    <3>2. CASE done[waits[c]] # "open"
      BY <2>9, <3>2 DEF SettleCancelled, Goto, Joined, Answers
    <3> QED
      BY <3>1, <3>2
  <2>10. CASE IdleIfCurrent(c)
    BY <2>10 DEF IdleIfCurrent, Goto, Return, Joined, Answers
  <2> QED
    BY <1>3, <2>1, <2>2, <2>3, <2>4, <2>5, <2>6, <2>7, <2>8, <2>9, <2>10 DEF CallMoves
<1>4. ASSUME NEW c \in Calls, StartShell(c) PROVE Goal
  BY <1>4 DEF StartShell, Joined, Answers
<1>5. ASSUME NEW c \in Calls, CancelOnIdle(c) PROVE Goal
  BY <1>5 DEF CancelOnIdle, Return, Joined, Answers
<1>6. ASSUME NEW c \in Calls, AbortCall(c) PROVE Goal
  <2>1. CASE op[c] = "ensure"
    <3>1. SharedRuns!GoAway(c)
      BY <1>6, <2>1 DEF AbortCall, Return, SharedRuns!GoAway
    <3> QED
      BY <3>1 DEF SharedRuns!Next
  <2>2. CASE op[c] # "ensure"
    BY <1>6, <2>2 DEF AbortCall, Return, Joined, Answers
  <2> QED
    BY <2>1, <2>2
<1>7. ASSUME NEW f \in Calls, FiberMoves(f) PROVE Goal
  <2>1. CASE FiberStarts(f) \/ FiberDropped(f) \/ ShellReady(f)
    BY <2>1 DEF FiberStarts, FiberDropped, ShellReady, callVars, Joined, Answers
  <2>2. CASE FinishRun(f) \/ FinishShell(f)
    BY <2>2 DEF FinishRun, FinishShell, callVars, Joined, Answers
  <2>3. CASE Complete(f)
    <3>1. PICK v \in {"success", "failure", "cancelled"} : done[f] = "open" => done' = [done EXCEPT ![f] = v]
      BY <2>3 DEF Complete
    <3>2. CASE done[f] = "open"
      <4>1. SharedRuns!Settle(f, v)
        BY <2>3, <3>1, <3>2 DEF Complete, callVars, SharedRuns!Settle
      <4> QED
        BY <4>1 DEF SharedRuns!Next, SharedRuns!Outcomes
    <3>3. CASE done[f] # "open"
      BY <2>3, <3>3 DEF Complete, callVars, Joined, Answers
    <3> QED
      BY <3>2, <3>3
  <2> QED
    BY <1>7, <2>1, <2>2, <2>3 DEF FiberMoves
<1>8. ASSUME NEW f \in Calls, FiberOnIdle(f) PROVE Goal
  BY <1>8 DEF FiberOnIdle, callVars, Joined, Answers
<1>9. ASSUME NEW f \in Calls, NEW e \in Exits \ {"none"}, WorkEnds(f, e) PROVE Goal
  BY <1>9 DEF WorkEnds, callVars, Joined, Answers
<1> QED
  BY <1>1, <1>2, <1>3, <1>4, <1>5, <1>6, <1>7, <1>8, <1>9 DEF Next, CallStep, FiberStep, WorkEnding

\* The runner implements SharedRun: one outcome per run, the same for all.
THEOREM Refinement == Spec => ImplementsSharedRun
BY InvHolds, RefinesInit, RefinesStep, PTL DEF Spec, ImplementsSharedRun, SharedRuns!Spec

-----------------------------------------------------------------------------
(* SessionRunState: its steps are steps of the runners, and a session at    *)
(* rest is shown as idle, whichever writers of its status raced before.     *)

-----------------------------------------------------------------------------
(* The status *)

\* A shell or a cancel was aborted.
Aborted == \E c \in Calls : result[c] = "aborted" /\ op[c] # "ensure"

OnIdle(c) == pc[c] = "onIdle" \/ phase[c] = "onIdle"

\* A call or fiber that sets idle some time, or leaves that to a busy runner.
Duty(c) == pc[c] \in Stops \cup {"onBusy"} \/ phase[c] = "onIdle"

BusyRunner == \E r \in Runners : tag[r] # "Idle"

\* Idle will be published; idle will be stored.
NewsLeft == BusyRunner \/ \E c \in Calls : Duty(c) /\ (OnIdle(c) => writes[c] = None)
DutyLeft == BusyRunner \/ \E c \in Calls : Duty(c)

\* Who is inside status.set, and what it writes there.
WritesShape ==
    /\ \A c \in Calls : writes[c] # None =>
         \/ pc[c] = "onBusy" /\ writes[c] = "busy"
         \/ OnIdle(c) /\ writes[c] = "idle"
         \/ phase[c] = "running" /\ op[c] = "ensure"
         \/ c \in bypass /\ writes[c] = "idle"
    /\ \A c \in bypass : pc[c] = "new"

StatusIsSettled == Aborted \/
    /\ published = "busy" => NewsLeft
    /\ stored = "busy" => DutyLeft

SessionInv == Inv /\ AbortShape /\ SessionTypeOK /\ WritesShape /\ StatusIsSettled

-----------------------------------------------------------------------------
(* The runners of a session *)

\* A step of a session, by what it does to the status.
LEMMA SessionSteps ==
    ASSUME SessionNext
    PROVE  \E c \in Calls :
        \/ \E o \in {"ensure", "shell"} : Lookup(c, o)
        \/ CancelBusy(c) \/ CancelNotBusy(c)
        \/ (CallMoves(c) \/ FiberMoves(c)) /\ UNCHANGED sessionVars
        \/ CancelNotBusyStores(c)
        \/ DropEntry(c) \/ FiberIdleStored(c) \/ CancelIdleStored(c)
        \/ OnBusy(c) \/ ShellBusyStored(c)
        \/ LoopStores(c)
        \/ \E s \in Statuses : LoopSets(c, s)
        \/ SessionWorkEnds(c)
        \/ SessionAbort(c)
BY DEF SessionNext, SessionStep

\* It is a step of its runners, or leaves them alone.
LEMMA SessionStepIsRunnerStep == SessionTypeOK /\ [SessionNext]_allVars => [Next]_vars
<1> SUFFICES ASSUME SessionTypeOK, SessionNext PROVE [Next]_vars
  BY DEF allVars
<1> USE DEF Next, CallStep, FiberStep
<1>1. ASSUME NEW c \in Calls, NEW o \in {"ensure", "shell"}, Lookup(c, o) PROVE Next
  BY <1>1 DEF Lookup, SessionTypeOK, Ops
<1>2. ASSUME NEW c \in Calls, CancelBusy(c) PROVE Next
  BY <1>2 DEF CancelBusy, BusyEntry, SessionTypeOK, Ops
<1>3. ASSUME NEW c \in Calls, CallMoves(c) \/ FiberMoves(c) PROVE Next
  BY <1>3
<1>4. ASSUME NEW c \in Calls,
             FiberIdleStored(c) \/ CancelIdleStored(c) \/ ShellBusyStored(c) \/ SessionWorkEnds(c)
             \/ SessionAbort(c)
      PROVE  Next
  BY <1>4 DEF FiberIdleStored, CancelIdleStored, ShellBusyStored, SessionWorkEnds, SessionAbort
<1>5. ASSUME NEW c \in Calls, NEW s \in Statuses,
             CancelNotBusy(c) \/ CancelNotBusyStores(c) \/ DropEntry(c) \/ OnBusy(c)
             \/ LoopStores(c) \/ LoopSets(c, s)
      PROVE  UNCHANGED vars
  BY <1>5 DEF CancelNotBusy, CancelNotBusyStores, DropEntry, OnBusy, LoopStores, LoopSets
<1> HIDE DEF Next
<1> QED
  BY <1>1, <1>2, <1>3, <1>4, <1>5, SessionSteps DEF Statuses

\* The map, the status and who is inside status.set keep their types.
LEMMA SessionTypeStep == SessionTypeOK /\ [SessionNext]_allVars => SessionTypeOK'
<1> SUFFICES ASSUME SessionTypeOK, [SessionNext]_allVars PROVE SessionTypeOK'
  OBVIOUS
<1> USE DEF SessionTypeOK, Statuses
<1>1. CASE UNCHANGED allVars
  BY <1>1 DEF allVars, sessionVars, mapVars, statusVars
<1>2. ASSUME NEW c \in Calls, NEW o, Lookup(c, o) PROVE SessionTypeOK'
  BY <1>2 DEF Lookup, mapVars, statusVars
<1>3. ASSUME NEW c \in Calls, CancelBusy(c) \/ UNCHANGED sessionVars PROVE SessionTypeOK'
  BY <1>3 DEF CancelBusy, sessionVars, mapVars, statusVars
<1>4. ASSUME NEW c \in Calls, NEW s \in Statuses,
             CancelNotBusy(c) \/ DropEntry(c) \/ OnBusy(c) \/ LoopSets(c, s)
      PROVE  SessionTypeOK'
  BY <1>4 DEF CancelNotBusy, DropEntry, OnBusy, LoopSets, Publish, mapVars
<1>5. ASSUME NEW c \in Calls,
             CancelNotBusyStores(c) \/ FiberIdleStored(c) \/ CancelIdleStored(c)
             \/ ShellBusyStored(c) \/ LoopStores(c)
      PROVE  SessionTypeOK'
  BY <1>5
     DEF CancelNotBusyStores, FiberIdleStored, CancelIdleStored, ShellBusyStored, LoopStores, Store,
         mapVars
<1>6. ASSUME NEW c \in Calls, SessionWorkEnds(c) \/ SessionAbort(c) PROVE SessionTypeOK'
  BY <1>6 DEF SessionWorkEnds, SessionAbort, mapVars
<1> HIDE DEF SessionTypeOK
<1> QED
  BY <1>1, <1>2, <1>3, <1>4, <1>5, <1>6, SessionSteps

-----------------------------------------------------------------------------
(* Who is inside status.set *)

\* The steps inside a runner leave alone whoever may be inside status.set.
MovesKept ==
    /\ op' = op
    /\ \A d \in Calls : pc[d] \in {"new", "onBusy", "onIdle"} => pc'[d] = pc[d]
    /\ \A d \in Calls : phase[d] \in {"running", "onIdle"} => phase'[d] = phase[d]

LEMMA CallMovesKept == ASSUME Inv, NEW c \in Calls, CallMoves(c) PROVE MovesKept
<1> USE DEF MovesKept, Inv, RunInv, Shape, TypeOK, CallShape, Stops
<1>1. CASE JoinRun(c) \/ QueueRun(c) \/ StartRun(c)
  BY <1>1 DEF JoinRun, QueueRun, StartRun, Enters, Become, Goto, fibVars
<1>2. CASE RunReturns(c) \/ RejectShell(c) \/ EnterShell(c) \/ ShellReturns(c) \/ CancelIdle(c)
  BY <1>2
     DEF RunReturns, RejectShell, EnterShell, ShellReturns, CancelIdle, Enters, Goto, Return,
         fibVars
<1>3. CASE BeginCancel(c) \/ PassLatch(c) \/ Interrupt(c)
  BY <1>3 DEF BeginCancel, PassLatch, Interrupt, Enters, Become, Goto, fibVars
<1>4. CASE VictimExited(c) \/ SettleCancelled(c) \/ IdleIfCurrent(c)
  BY <1>4 DEF VictimExited, SettleCancelled, IdleIfCurrent, Goto, Return, fibVars
<1> QED
  BY <1>1, <1>2, <1>3, <1>4 DEF CallMoves

LEMMA FiberMovesKept == ASSUME Inv, NEW f \in Calls, FiberMoves(f) PROVE MovesKept
<1> USE DEF MovesKept, Inv, RunInv, Shape, TypeOK, RefShape, callVars
<1>1. CASE FiberStarts(f) \/ FiberDropped(f) \/ ShellReady(f) \/ Complete(f)
  BY <1>1 DEF FiberStarts, FiberDropped, ShellReady, Complete
<1>2. CASE FinishRun(f)
  BY <1>2 DEF FinishRun
<1>3. CASE FinishShell(f)
  <2>1. phase[f] = "finish" /\ UNCHANGED <<op, pc>>
    BY <1>3 DEF FinishShell
  <2>2. CASE IsCurrent(f, "ShellThenRun")
    <3>1. on[f] \in Runners
      BY <2>1, <2>2, RunnerAssumption DEF CallShape
    <3>2. pend[on[f]] \in Calls /\ phase[pend[on[f]]] = "none"
      BY <2>2, <3>1 DEF IsCurrent
    <3>3. phase' = [phase EXCEPT ![f] = "exited", ![pend[on[f]]] = "forked"]
      BY <1>3, <2>2 DEF FinishShell, IsCurrent
    <3> QED
      BY <2>1, <3>2, <3>3
  <2>3. CASE ~IsCurrent(f, "ShellThenRun")
    BY <1>3, <2>1, <2>3 DEF FinishShell
  <2> QED
    BY <2>2, <2>3
<1> QED
  BY <1>1, <1>2, <1>3 DEF FiberMoves

LEMMA WritesStep ==
    SessionTypeOK /\ Inv /\ WritesShape /\ [SessionNext]_allVars => WritesShape'
<1> SUFFICES ASSUME SessionTypeOK, Inv, WritesShape, [SessionNext]_allVars PROVE WritesShape'
  OBVIOUS
<1> USE DEF SessionTypeOK, Inv, RunInv, Shape, TypeOK, CallShape, WritesShape, OnIdle
<1>1. CASE UNCHANGED allVars
  BY <1>1 DEF allVars, vars, callVars, fibVars, sessionVars, mapVars, statusVars
<1>2. ASSUME NEW c \in Calls, CallMoves(c) \/ FiberMoves(c), UNCHANGED sessionVars
      PROVE  WritesShape'
  <2>1. MovesKept
    BY <1>2, CallMovesKept, FiberMovesKept
  <2> QED
    BY <1>2, <2>1 DEF MovesKept, sessionVars, mapVars, statusVars
<1>3. ASSUME NEW c \in Calls, NEW o \in {"ensure", "shell"}, Lookup(c, o) PROVE WritesShape'
  BY <1>3 DEF Lookup, Invoke, Goto, fibVars, statusVars
<1>4. ASSUME NEW c \in Calls, CancelBusy(c) PROVE WritesShape'
  BY <1>4 DEF CancelBusy, Invoke, Goto, fibVars, sessionVars, mapVars, statusVars
<1>5. ASSUME NEW c \in Calls, CancelNotBusy(c) \/ DropEntry(c) \/ OnBusy(c) PROVE WritesShape'
  BY <1>5 DEF CancelNotBusy, DropEntry, OnBusy, Publish, vars, callVars, fibVars
<1>6. ASSUME NEW c \in Calls, NEW s \in Statuses, LoopSets(c, s) PROVE WritesShape'
  BY <1>6 DEF LoopSets, Publish, vars, callVars, fibVars
<1>7. ASSUME NEW c \in Calls, CancelNotBusyStores(c) \/ LoopStores(c) PROVE WritesShape'
  BY <1>7 DEF CancelNotBusyStores, LoopStores, Store, vars, callVars, fibVars
<1>8. ASSUME NEW c \in Calls, FiberIdleStored(c) PROVE WritesShape'
  BY <1>8 DEF FiberIdleStored, FiberOnIdle, Store, callVars
<1>9. ASSUME NEW c \in Calls, CancelIdleStored(c) PROVE WritesShape'
  BY <1>9 DEF CancelIdleStored, CancelOnIdle, Return, Store, fibVars
<1>10. ASSUME NEW c \in Calls, ShellBusyStored(c) PROVE WritesShape'
  BY <1>10 DEF ShellBusyStored, StartShell, Goto, Store
<1>11. ASSUME NEW c \in Calls, SessionWorkEnds(c) PROVE WritesShape'
  BY <1>11 DEF SessionWorkEnds, WorkEnding, WorkEnds, callVars
<1>12. ASSUME NEW c \in Calls, SessionAbort(c) PROVE WritesShape'
  BY <1>12 DEF SessionAbort, AbortCall, Return
<1> HIDE DEF WritesShape
<1> QED
  BY <1>1, <1>2, <1>3, <1>4, <1>5, <1>6, <1>7, <1>8, <1>9, <1>10, <1>11, <1>12, SessionSteps

-----------------------------------------------------------------------------
(* Who still has to set idle *)

\* What a call that is over has returned stays.
LEMMA ReturnedStays ==
    ASSUME Inv, Next, NEW d \in Calls, pc[d] = "returned"
    PROVE  pc'[d] = "returned" /\ result'[d] = result[d] /\ op'[d] = op[d]
<1> USE DEF Inv, RunInv, Shape, TypeOK, callVars
<1>1. ASSUME NEW c \in Calls, NEW o, NEW r, Invoke(c, o, r) PROVE d # c /\ result' = result
  BY <1>1 DEF Invoke
<1>2. ASSUME NEW c \in Calls, CallStep(c)
      PROVE  /\ d # c /\ op' = op
             /\ \A e \in Calls : e # c => pc'[e] = pc[e] /\ result'[e] = result[e]
  <2>1. CASE JoinRun(c) \/ QueueRun(c) \/ StartRun(c)
    BY <2>1 DEF JoinRun, QueueRun, StartRun, Enters, Become, Goto
  <2>2. CASE RunReturns(c) \/ RejectShell(c) \/ EnterShell(c) \/ ShellReturns(c) \/ CancelIdle(c)
    BY <2>2 DEF RunReturns, RejectShell, EnterShell, ShellReturns, CancelIdle, Enters, Goto, Return
  <2>3. CASE BeginCancel(c) \/ PassLatch(c) \/ Interrupt(c)
    BY <2>3 DEF BeginCancel, PassLatch, Interrupt, Enters, Become, Goto
  <2>4. CASE VictimExited(c) \/ SettleCancelled(c) \/ IdleIfCurrent(c)
    BY <2>4 DEF VictimExited, SettleCancelled, IdleIfCurrent, Goto, Return
  <2>5. CASE StartShell(c) \/ CancelOnIdle(c)
    BY <2>5 DEF StartShell, CancelOnIdle, Goto, Return
  <2> QED
    BY <1>2, <2>1, <2>2, <2>3, <2>4, <2>5 DEF CallStep, CallMoves
<1>3. ASSUME NEW c \in Calls, AbortCall(c)
      PROVE  /\ d # c /\ op' = op
             /\ \A e \in Calls : e # c => pc'[e] = pc[e] /\ result'[e] = result[e]
  BY <1>3 DEF AbortCall, Return
<1>4. ASSUME NEW f \in Calls, FiberStep(f) \/ WorkEnding(f) PROVE UNCHANGED <<op, pc, result>>
  BY <1>4
     DEF FiberStep, FiberMoves, FiberStarts, FiberDropped, ShellReady, FinishRun, FinishShell,
         Complete, FiberOnIdle, WorkEnding, WorkEnds
<1>5. ASSUME NEW c \in Calls, NEW o \in Ops, NEW r \in Runners, Invoke(c, o, r)
      PROVE  pc'[d] = pc[d] /\ op'[d] = op[d]
  BY <1>1, <1>5 DEF Invoke, Goto
<1> QED
  BY <1>1, <1>2, <1>3, <1>4, <1>5 DEF Next

LEMMA AbortedStays == Inv /\ [Next]_vars /\ Aborted => Aborted'
<1> SUFFICES ASSUME Inv, [Next]_vars, Aborted PROVE Aborted'
  OBVIOUS
<1>1. PICK d \in Calls : result[d] = "aborted" /\ op[d] # "ensure"
  BY DEF Aborted
<1>2. pc[d] = "returned"
  BY <1>1 DEF Inv, RunInv, Shape, CallShape
<1>3. CASE Next
  BY <1>1, <1>2, <1>3, ReturnedStays DEF Aborted
<1>4. CASE UNCHANGED vars
  BY <1>4 DEF vars, callVars, Aborted
<1> QED
  BY <1>3, <1>4

\* Of a step inside the runners: a runner that gets idle, and a cancel that moves on,
\* leave somebody who sets idle.
Hands(d) == BusyRunner' \/ Duty(d)'

LEMMA CallMovesHands ==
    ASSUME Inv, NEW c \in Calls, CallMoves(c)
    PROVE  /\ BusyRunner => Hands(c)
           /\ \A d \in Calls : Duty(d) => Hands(d)
           /\ \A d \in Calls : OnIdle(d)' => OnIdle(d) \/ pc[d] = "check"
           /\ BusyRunner /\ ~BusyRunner' => pc'[c] \in {"latch", "interrupt"} /\ phase'[c] = "none"
<1> USE DEF Inv, RunInv, Shape, TypeOK, CallShape, Stops, Hands, Duty, BusyRunner, OnIdle, Tags
<1>1. CASE JoinRun(c) \/ RunReturns(c) \/ RejectShell(c) \/ EnterShell(c)
  BY <1>1 DEF JoinRun, RunReturns, RejectShell, EnterShell, Enters, Goto, Return, refVars, fibVars
<1>2. CASE QueueRun(c)
  BY <1>2 DEF QueueRun, Enters, Become, Goto, fibVars
<1>3. CASE StartRun(c)
  BY <1>3 DEF StartRun, Enters, Become, Goto
<1>4. CASE ShellReturns(c) \/ CancelIdle(c)
  BY <1>4 DEF ShellReturns, CancelIdle, Enters, Return, refVars, fibVars
<1>5. CASE BeginCancel(c)
  BY <1>5 DEF BeginCancel, Enters, Become, Goto, fibVars
<1>6. CASE PassLatch(c) \/ Interrupt(c) \/ VictimExited(c) \/ SettleCancelled(c)
  BY <1>6 DEF PassLatch, Interrupt, VictimExited, SettleCancelled, Goto, refVars, fibVars
<1>7. CASE IdleIfCurrent(c)
  BY <1>7 DEF IdleIfCurrent, Goto, Return, refVars, fibVars
<1> QED
  BY <1>1, <1>2, <1>3, <1>4, <1>5, <1>6, <1>7 DEF CallMoves

LEMMA FiberMovesHands ==
    ASSUME Inv, NEW f \in Calls, FiberMoves(f)
    PROVE  /\ pc' = pc
           /\ \A d \in Calls : phase[d] = "onIdle" => phase'[d] = "onIdle"
           /\ \A d \in Calls : phase'[d] = "onIdle" => phase[d] \in {"onIdle", "finish"}
           /\ BusyRunner => BusyRunner' \/ (phase[f] = "finish" /\ phase'[f] = "onIdle")
<1> USE DEF Inv, RunInv, Shape, TypeOK, BusyRunner, refVars, callVars
<1>1. CASE FiberStarts(f) \/ FiberDropped(f) \/ ShellReady(f) \/ Complete(f)
  BY <1>1 DEF FiberStarts, FiberDropped, ShellReady, Complete
<1>2. CASE FinishRun(f)
  <2>1. pc' = pc /\ phase[f] = "finish" /\ on[f] \in Runners
    BY <1>2, RunnerAssumption DEF FinishRun, Ops
  <2>2. CASE IsCurrent(f, "Running")
    BY <1>2, <2>1, <2>2 DEF FinishRun
  <2>3. CASE ~IsCurrent(f, "Running")
    BY <1>2, <2>1, <2>3 DEF FinishRun
  <2> QED
    BY <2>2, <2>3
<1>3. CASE FinishShell(f)
  <2>1. pc' = pc /\ phase[f] = "finish" /\ on[f] \in Runners
    BY <1>3, RunnerAssumption DEF FinishShell, Ops
  <2>2. CASE IsCurrent(f, "Shell")
    BY <1>3, <2>1, <2>2 DEF FinishShell, IsCurrent
  <2>3. CASE IsCurrent(f, "ShellThenRun")
    <3>1. /\ tag' = [tag EXCEPT ![on[f]] = "Running"]
          /\ phase' = [phase EXCEPT ![f] = "exited", ![pend[on[f]]] = "forked"]
      BY <1>3, <2>3 DEF FinishShell, IsCurrent, Become
    <3>2. phase[pend[on[f]]] = "none" /\ tag'[on[f]] # "Idle"
      BY <2>1, <2>3, <3>1 DEF IsCurrent, RefShape
    <3> QED
      BY <2>1, <3>1, <3>2
  <2>4. CASE ~IsCurrent(f, "Shell") /\ ~IsCurrent(f, "ShellThenRun")
    BY <1>3, <2>1, <2>4 DEF FinishShell
  <2> QED
    BY <2>2, <2>3, <2>4
<1> QED
  BY <1>1, <1>2, <1>3 DEF FiberMoves

\* While a loop runs, its runner is busy, or a cancel stops it that is not over.
LEMMA LoopIsDue ==
    ASSUME Inv, AbortShape, ~Aborted, NEW f \in Calls, phase[f] = "running", op[f] = "ensure"
    PROVE  BusyRunner \/ \E c \in Calls : pc[c] \in {"latch", "interrupt", "waitExit"}
<1>1. on[f] \in Runners
  BY RunnerAssumption DEF Inv, RunInv, Shape, TypeOK, Ops
<1>2. CASE tag[on[f]] # "Idle"
  BY <1>1, <1>2 DEF BusyRunner
<1>3. CASE tag[on[f]] = "Idle"
  <2>1. \E c \in Calls : victim[c] = f
    BY <1>3 DEF Inv, RunInv, FiberShape, StraysHaveStopper, Live
  <2>2. PICK c \in Calls : victim[c] = f
    BY <2>1
  <2>3. victim[c] # None /\ op[c] = "cancel" /\ result[c] # "aborted"
    BY <2>2, RunnerAssumption DEF Inv, RunInv, Shape, CallShape, Aborted
  <2>4. pc[c] \notin {"settle", "check", "onIdle"} /\ result[c] # "void"
    BY <2>2, <2>3 DEF Inv, RunInv, Shape, CancelShape
  <2>5. pc[c] # "returned"
    BY <2>3, <2>4 DEF AbortShape
  <2>6. pc[c] \notin {"new", "called", "onBusy", "await"}
    BY <2>3 DEF Inv, RunInv, Shape, CallShape
  <2> QED
    BY <2>4, <2>5, <2>6 DEF Inv, RunInv, Shape, TypeOK, PCs
<1> QED
  BY <1>2, <1>3

\* A step inside the runners leaves somebody who sets idle.
LEMMA MovesLeaveDuty ==
    ASSUME Inv, WritesShape, NEW c \in Calls, CallMoves(c) \/ FiberMoves(c),
           UNCHANGED sessionVars
    PROVE  (NewsLeft => NewsLeft') /\ (DutyLeft => DutyLeft')
<1>1. ASSUME NEW d \in Calls, pc[d] = "check" \/ phase[d] = "finish" PROVE writes[d] = None
  BY <1>1 DEF WritesShape, OnIdle, Inv, RunInv, Shape, CallShape, Stops
<1>2. ASSUME NEW d \in Calls, OnIdle(d)', OnIdle(d) => writes[d] = None PROVE writes'[d] = None
  <2>1. OnIdle(d) \/ pc[d] = "check" \/ phase[d] = "finish"
    BY <1>2, CallMovesHands, FiberMovesHands DEF OnIdle
  <2> QED
    BY <1>1, <1>2, <2>1 DEF sessionVars, mapVars, statusVars
<1>3. ASSUME NEW d \in Calls, Duty(d) PROVE BusyRunner' \/ Duty(d)'
  BY <1>3, CallMovesHands, FiberMovesHands DEF Hands, Duty
<1>4. CASE BusyRunner
  <2>1. BusyRunner' \/ \E d \in Calls : Duty(d)' /\ writes'[d] = None
    <3>1. CASE CallMoves(c)
      <4>1. BusyRunner' \/ (pc'[c] \in {"latch", "interrupt"} /\ phase'[c] = "none")
        BY <1>4, <3>1, CallMovesHands
      <4>2. CASE pc'[c] \in {"latch", "interrupt"} /\ phase'[c] = "none"
        <5>1. writes[c] = None \/ pc[c] \in {"new", "onBusy", "onIdle"}
                \/ phase[c] \in {"running", "onIdle"}
          BY DEF WritesShape, OnIdle
        <5>2. MovesKept
          BY <3>1, CallMovesKept
        <5>3. writes[c] = None
          BY <4>2, <5>1, <5>2 DEF MovesKept, OnIdle
        <5> QED
          BY <4>2, <5>3 DEF Duty, Stops, sessionVars, mapVars, statusVars
      <4> QED
        BY <4>1, <4>2
    <3>2. CASE FiberMoves(c)
      BY <1>1, <1>4, <3>2, FiberMovesHands DEF Duty, sessionVars, mapVars, statusVars
    <3> QED
      BY <3>1, <3>2
  <2> QED
    BY <2>1 DEF NewsLeft, DutyLeft
<1>5. CASE ~BusyRunner
  BY <1>2, <1>3, <1>5 DEF NewsLeft, DutyLeft
<1> QED
  BY <1>4, <1>5

\* The other steps, that write the status or move a call in or out of it.
LEMMA StatusWriters ==
    ASSUME Inv, AbortShape, SessionTypeOK, WritesShape, StatusIsSettled, ~Aborted,
           NEW c \in Calls, NEW s \in Statuses,
           CancelNotBusy(c) \/ DropEntry(c) \/ OnBusy(c) \/ LoopSets(c, s)
    PROVE  StatusIsSettled'
<1>1. UNCHANGED <<vars, stored>>
  BY DEF CancelNotBusy, DropEntry, OnBusy, LoopSets, Publish
<1>2. DutyLeft' = DutyLeft
  BY <1>1 DEF DutyLeft, BusyRunner, Duty, vars, refVars, callVars, fibVars
<1>3. CASE published' = "idle"
  BY <1>1, <1>2, <1>3 DEF StatusIsSettled
<1>4. CASE published' # "idle"
  <2>1. OnBusy(c) \/ LoopSets(c, s)
    BY <1>4 DEF CancelNotBusy, DropEntry, Publish
  <2>2. CASE OnBusy(c)
    <3>1. pc[c] = "onBusy" /\ phase[c] = "none"
      BY <2>2 DEF OnBusy, Inv, RunInv, Shape, CallShape
    <3> QED
      BY <1>1, <1>2, <3>1
         DEF StatusIsSettled, NewsLeft, Duty, OnIdle, vars, callVars, fibVars
  <2>3. CASE LoopSets(c, s)
    <3>1. BusyRunner \/ \E d \in Calls : pc[d] \in {"latch", "interrupt", "waitExit"}
      BY <2>3, LoopIsDue DEF LoopSets
    <3>2. \A d \in Calls : pc[d] \in {"latch", "interrupt", "waitExit"} => phase[d] = "none"
      BY DEF Inv, RunInv, Shape, CallShape, Stops
    <3>3. BusyRunner' \/ \E d \in Calls :
            pc'[d] \in {"latch", "interrupt", "waitExit"} /\ phase'[d] = "none"
      BY <1>1, <3>1, <3>2 DEF BusyRunner, vars, refVars, callVars, fibVars
    <3>4. NewsLeft'
      BY <3>3 DEF NewsLeft, Duty, OnIdle, Stops
    <3> QED
      BY <1>1, <1>2, <3>4 DEF StatusIsSettled
  <2> QED
    BY <2>1, <2>2, <2>3
<1> QED
  BY <1>3, <1>4

LEMMA StatusStores ==
    ASSUME Inv, AbortShape, SessionTypeOK, WritesShape, StatusIsSettled, ~Aborted,
           NEW c \in Calls, CancelNotBusyStores(c) \/ LoopStores(c)
    PROVE  StatusIsSettled'
<1>1. UNCHANGED <<vars, published>> /\ Store(c)
  BY DEF CancelNotBusyStores, LoopStores, Store
<1>2. DutyLeft' = DutyLeft
  BY <1>1 DEF DutyLeft, BusyRunner, Duty, vars, refVars, callVars, fibVars
<1>3. \A d \in Calls : writes[d] = None => writes'[d] = None
  BY <1>1 DEF Store, SessionTypeOK
<1>4. NewsLeft => NewsLeft'
  BY <1>1, <1>3 DEF NewsLeft, BusyRunner, Duty, OnIdle, vars, refVars, callVars, fibVars
<1>5. stored' = "busy" => DutyLeft
  <2>1. CASE CancelNotBusyStores(c)
    BY <2>1 DEF CancelNotBusyStores, Store, WritesShape, OnIdle, Inv, RunInv, Shape, CallShape
  <2>2. CASE LoopStores(c)
    BY <2>2, LoopIsDue DEF LoopStores, DutyLeft, Duty, Stops
  <2> QED
    BY <2>1, <2>2
<1> QED
  BY <1>1, <1>2, <1>4, <1>5 DEF StatusIsSettled

LEMMA StatusEnds ==
    ASSUME Inv, SessionTypeOK, WritesShape, StatusIsSettled, ~Aborted,
           NEW c \in Calls, FiberIdleStored(c) \/ CancelIdleStored(c) \/ ShellBusyStored(c)
    PROVE  StatusIsSettled'
<1>1. CASE FiberIdleStored(c)
  <2>1. /\ stored' = "idle" /\ writes[c] # None /\ phase[c] = "onIdle"
        /\ UNCHANGED <<published, pc, tag>>
        /\ \A d \in Calls : d # c => writes'[d] = writes[d] /\ phase'[d] = phase[d]
    BY <1>1
       DEF FiberIdleStored, FiberOnIdle, Store, WritesShape, OnIdle, SessionTypeOK, Inv, RunInv,
           Shape, CallShape, TypeOK, refVars, callVars, Stops
  <2>2. NewsLeft => NewsLeft'
    BY <2>1 DEF NewsLeft, BusyRunner, Duty, OnIdle
  <2> QED
    BY <2>1, <2>2 DEF StatusIsSettled
<1>2. CASE CancelIdleStored(c)
  <2>1. /\ stored' = "idle" /\ writes[c] # None /\ pc[c] = "onIdle"
        /\ UNCHANGED <<published, phase, tag>>
        /\ \A d \in Calls : d # c => writes'[d] = writes[d] /\ pc'[d] = pc[d]
    BY <1>2
       DEF CancelIdleStored, CancelOnIdle, Return, Store, WritesShape, OnIdle, SessionTypeOK, Inv,
           RunInv, Shape, CallShape, TypeOK, refVars, fibVars, Stops
  <2>2. NewsLeft => NewsLeft'
    BY <2>1 DEF NewsLeft, BusyRunner, Duty, OnIdle
  <2> QED
    BY <2>1, <2>2 DEF StatusIsSettled
<1>3. CASE ShellBusyStored(c)
  <2>1. on[c] \in Runners /\ tag'[on[c]] = "Shell"
    BY <1>3, RunnerAssumption
       DEF ShellBusyStored, StartShell, Become, Inv, RunInv, Shape, CallShape, TypeOK, Ops
  <2>2. BusyRunner'
    BY <2>1 DEF BusyRunner
  <2> QED
    BY <2>2 DEF StatusIsSettled, NewsLeft, DutyLeft
<1> QED
  BY <1>1, <1>2, <1>3

LEMMA StatusAside ==
    ASSUME Inv, SessionTypeOK, WritesShape, StatusIsSettled, ~Aborted, ~Aborted',
           NEW c \in Calls, SessionWorkEnds(c) \/ SessionAbort(c)
    PROVE  StatusIsSettled'
<1>1. UNCHANGED <<published, stored, tag>>
  BY DEF SessionWorkEnds, SessionAbort, WorkEnding, WorkEnds, AbortCall, refVars
<1>2. \A d \in Calls : writes[d] = None => writes'[d] = None
  BY DEF SessionWorkEnds, SessionAbort, SessionTypeOK
<1>3. ASSUME NEW d \in Calls
      PROVE  (Duty(d) => Duty(d)') /\ (OnIdle(d)' => OnIdle(d))
  <2>1. CASE SessionWorkEnds(c)
    BY <2>1
       DEF SessionWorkEnds, WorkEnding, WorkEnds, Duty, OnIdle, callVars, Inv, RunInv, Shape, TypeOK
  <2>2. CASE SessionAbort(c)
    <3>1. /\ UNCHANGED <<phase, op>> /\ pc' = [pc EXCEPT ![c] = "returned"]
          /\ result'[c] = "aborted"
      BY <2>2 DEF SessionAbort, AbortCall, Return, Inv, RunInv, Shape, TypeOK
    <3>2. pc[c] \notin Stops \cup {"onBusy"}
      BY <3>1 DEF Aborted, Inv, RunInv, Shape, CallShape
    <3> QED
      BY <3>1, <3>2 DEF Duty, OnIdle, Inv, RunInv, Shape, TypeOK
  <2> QED
    BY <2>1, <2>2
<1>4. (NewsLeft => NewsLeft') /\ (DutyLeft => DutyLeft')
  BY <1>1, <1>2, <1>3 DEF NewsLeft, DutyLeft, BusyRunner
<1> QED
  BY <1>1, <1>4 DEF StatusIsSettled

LEMMA StatusInvokes ==
    ASSUME Inv, StatusIsSettled, ~Aborted,
           NEW c \in Calls, NEW o, Lookup(c, o) \/ CancelBusy(c)
    PROVE  StatusIsSettled'
<1>1. /\ UNCHANGED <<published, stored, writes, tag, phase>> /\ pc[c] = "new"
      /\ pc' = [pc EXCEPT ![c] = "called"]
  BY DEF Lookup, CancelBusy, Invoke, Goto, refVars, fibVars, sessionVars, mapVars, statusVars
<1>2. ASSUME NEW d \in Calls PROVE (Duty(d) => Duty(d)') /\ (OnIdle(d)' => OnIdle(d))
  BY <1>1 DEF Duty, OnIdle, Stops, Inv, RunInv, Shape, TypeOK
<1>3. (NewsLeft => NewsLeft') /\ (DutyLeft => DutyLeft')
  BY <1>1, <1>2 DEF NewsLeft, DutyLeft, BusyRunner
<1> QED
  BY <1>1, <1>3 DEF StatusIsSettled

LEMMA StatusStep == SessionInv /\ [SessionNext]_allVars => StatusIsSettled'
<1> SUFFICES ASSUME SessionInv, [SessionNext]_allVars, ~Aborted' PROVE StatusIsSettled'
  BY DEF StatusIsSettled
<1>1. ~Aborted
  BY AbortedStays, SessionStepIsRunnerStep DEF SessionInv
<1>2. CASE UNCHANGED allVars
  BY <1>1, <1>2
     DEF SessionInv, StatusIsSettled, Aborted, NewsLeft, DutyLeft, BusyRunner, Duty, OnIdle,
         allVars, vars, refVars, callVars, fibVars, sessionVars, mapVars, statusVars
<1>3. ASSUME NEW c \in Calls, CallMoves(c) \/ FiberMoves(c), UNCHANGED sessionVars
      PROVE  StatusIsSettled'
  BY <1>1, <1>3, MovesLeaveDuty DEF SessionInv, StatusIsSettled, sessionVars, mapVars, statusVars
<1> QED
  BY <1>1, <1>2, <1>3, SessionSteps, StatusWriters, StatusStores, StatusEnds, StatusAside,
     StatusInvokes DEF SessionInv, Statuses

LEMMA SessionInitInv == SessionInit => SessionInv
<1> SUFFICES ASSUME SessionInit PROVE SessionInv
  OBVIOUS
<1>1. Init /\ Inv
  BY InitInv DEF SessionInit
<1>2. AbortShape
  BY <1>1, RunnerAssumption DEF SessionInit, Init, AbortShape, CurrentIsAlive, Ops
<1>3. SessionTypeOK /\ WritesShape /\ StatusIsSettled
  BY DEF SessionInit, SessionTypeOK, WritesShape, StatusIsSettled, Statuses
<1> QED
  BY <1>1, <1>2, <1>3 DEF SessionInv

LEMMA SessionInvStep == SessionInv /\ [SessionNext]_allVars => SessionInv'
<1> SUFFICES ASSUME SessionInv, [SessionNext]_allVars PROVE SessionInv'
  OBVIOUS
<1>1. [Next]_vars
  BY SessionStepIsRunnerStep DEF SessionInv
<1>2. Inv' /\ AbortShape'
  BY <1>1, InvStep, AbortShapeStep DEF SessionInv
<1> QED
  BY <1>2, SessionTypeStep, WritesStep, StatusStep DEF SessionInv

\* The inductive invariant of a session: whenever busy was said, somebody who will
\* say idle is under way, or a runner is busy.
THEOREM SessionInvHolds == SessionSpec => []SessionInv
BY SessionInitInv, SessionInvStep, PTL DEF SessionSpec

\* A session at rest is idle, in the event stream and in what is stored.
THEOREM SessionSettles == SessionSpec => []SessionContract
<1>1. ASSUME SessionInv PROVE QuietIsIdle
  <2> SUFFICES ASSUME NothingUnderWay, ~Aborted PROVE published = "idle" /\ stored = "idle"
    BY DEF QuietIsIdle, Aborted
  <2>1. ASSUME NEW c \in Calls PROVE ~Duty(c) /\ ~Live(c)
    BY DEF NothingUnderWay, Duty, Stops, Live
  <2>2. ~BusyRunner
    <3> SUFFICES ASSUME NEW r \in Runners, tag[r] # "Idle" PROVE FALSE
      BY DEF BusyRunner
    <3>1. cur[r] \in Calls
      BY <1>1 DEF SessionInv, Inv, RunInv, Shape, RefShape
    <3> QED
      BY <1>1, <2>1, <3>1 DEF SessionInv, AbortShape, CurrentIsAlive, Dropped, Aborted
  <2> QED
    BY <1>1, <2>1, <2>2
       DEF SessionInv, StatusIsSettled, NewsLeft, DutyLeft, SessionTypeOK, Statuses
<1>2. SessionInv => SessionContract
  BY <1>1 DEF SessionInv, SessionContract
<1> QED
  BY <1>2, SessionInvHolds, PTL

-----------------------------------------------------------------------------
(* Who is in the map *)

\* A run or shell that has come into a runner, or is about to, came by the map.
Entering(c) == op[c] # "cancel" /\ pc[c] \in {"called", "onBusy"}

SeenShape ==
    /\ BusyIsSeen
    /\ \A c \in Calls : Entering(c) => on[c] = entry \/ on[c] \in unseen

\* Inside the runners nobody comes in who was not about to.
NoneComesIn ==
    /\ \A r \in Runners : tag'[r] # "Idle" => InUse(r)
    /\ \A d \in Calls : Entering(d)' => Entering(d) /\ on'[d] = on[d]

LEMMA CallsComeByTheMap ==
    ASSUME Inv, NEW c \in Calls, CallMoves(c) PROVE NoneComesIn
<1> USE RunnerAssumption DEF NoneComesIn, Entering, InUse, Inv, RunInv, Shape, TypeOK, CallShape, Ops
<1>1. CASE JoinRun(c)
  BY <1>1 DEF JoinRun, Enters, Goto, refVars
<1>2. CASE QueueRun(c) \/ StartRun(c)
  BY <1>2 DEF QueueRun, StartRun, Enters, Become, Goto
<1>3. CASE RunReturns(c) \/ RejectShell(c) \/ ShellReturns(c) \/ CancelIdle(c)
  BY <1>3 DEF RunReturns, RejectShell, ShellReturns, CancelIdle, Return, refVars
<1>4. CASE EnterShell(c)
  BY <1>4 DEF EnterShell, Enters, Goto, refVars
<1>5. CASE BeginCancel(c)
  BY <1>5 DEF BeginCancel, Enters, Become, Goto
<1>6. CASE PassLatch(c) \/ Interrupt(c) \/ VictimExited(c) \/ SettleCancelled(c) \/ IdleIfCurrent(c)
  BY <1>6
     DEF PassLatch, Interrupt, VictimExited, SettleCancelled, IdleIfCurrent, Goto, Return, refVars
<1> QED
  BY <1>1, <1>2, <1>3, <1>4, <1>5, <1>6 DEF CallMoves

LEMMA OthersComeByTheMap ==
    ASSUME Inv, NEW c \in Calls,
           FiberMoves(c) \/ FiberOnIdle(c) \/ CancelOnIdle(c) \/ StartShell(c)
           \/ WorkEnding(c) \/ AbortCall(c)
    PROVE  NoneComesIn
<1> USE RunnerAssumption DEF NoneComesIn, Entering, InUse, Inv, RunInv, Shape, TypeOK, CallShape, Ops
<1>1. CASE FiberStarts(c) \/ FiberDropped(c) \/ ShellReady(c) \/ Complete(c) \/ FiberOnIdle(c) \/ WorkEnding(c)
  BY <1>1
     DEF FiberStarts, FiberDropped, ShellReady, Complete, FiberOnIdle, WorkEnding, WorkEnds,
         refVars, callVars
<1>2. CASE FinishRun(c)
  BY <1>2 DEF FinishRun, Become, callVars, refVars
<1>3. CASE FinishShell(c)
  BY <1>3 DEF FinishShell, IsCurrent, Become, callVars, refVars
<1>4. CASE CancelOnIdle(c) \/ AbortCall(c)
  BY <1>4 DEF CancelOnIdle, AbortCall, Return, refVars
<1>5. CASE StartShell(c)
  BY <1>5 DEF StartShell, Become, Goto
<1> QED
  BY <1>1, <1>2, <1>3, <1>4, <1>5 DEF FiberMoves

LEMMA SeenStep == SessionInv /\ SeenShape /\ [SessionNext]_allVars => SeenShape'
<1> SUFFICES ASSUME SessionInv, SeenShape, [SessionNext]_allVars PROVE SeenShape'
  OBVIOUS
<1> USE DEF SeenShape, BusyIsSeen, InUse, Entering
<1>1. ASSUME UNCHANGED mapVars, NoneComesIn PROVE SeenShape'
  BY <1>1 DEF mapVars, NoneComesIn
<1>2. ASSUME UNCHANGED mapVars, UNCHANGED vars PROVE SeenShape'
  BY <1>2 DEF mapVars, vars, refVars, callVars
<1>3. ASSUME NEW c \in Calls, NEW o \in {"ensure", "shell"}, Lookup(c, o) PROVE SeenShape'
  BY <1>3, RunnerAssumption
     DEF Lookup, Invoke, Goto, refVars, SessionInv, SessionTypeOK, Inv, RunInv, Shape, TypeOK,
         CallShape, Ops
<1>4. ASSUME NEW c \in Calls, CancelBusy(c) PROVE SeenShape'
  BY <1>4
     DEF CancelBusy, Invoke, Goto, refVars, sessionVars, mapVars, SessionInv, Inv, RunInv, Shape,
         TypeOK
<1>5. ASSUME NEW c \in Calls, DropEntry(c) PROVE SeenShape'
  BY <1>5 DEF DropEntry, vars, refVars, callVars, SessionInv, Inv, RunInv, Shape, TypeOK, CallShape
<1>6. ASSUME NEW c \in Calls, CallMoves(c) \/ FiberMoves(c), UNCHANGED sessionVars PROVE SeenShape'
  BY <1>1, <1>6, CallsComeByTheMap, OthersComeByTheMap DEF SessionInv, sessionVars
<1>7. ASSUME NEW c \in Calls,
             FiberIdleStored(c) \/ CancelIdleStored(c) \/ ShellBusyStored(c) \/ SessionWorkEnds(c)
             \/ SessionAbort(c)
      PROVE  SeenShape'
  <2>1. UNCHANGED mapVars
    BY <1>7
       DEF FiberIdleStored, CancelIdleStored, ShellBusyStored, SessionWorkEnds, SessionAbort,
           mapVars
  <2>2. NoneComesIn
    BY <1>7, OthersComeByTheMap
       DEF FiberIdleStored, CancelIdleStored, ShellBusyStored, SessionWorkEnds, SessionAbort,
           SessionInv
  <2> QED
    BY <1>1, <2>1, <2>2
<1>8. ASSUME NEW c \in Calls, NEW s \in Statuses,
             CancelNotBusy(c) \/ CancelNotBusyStores(c) \/ OnBusy(c) \/ LoopStores(c) \/ LoopSets(c, s)
      PROVE  SeenShape'
  BY <1>2, <1>8 DEF CancelNotBusy, CancelNotBusyStores, OnBusy, LoopStores, LoopSets, mapVars
<1> HIDE DEF SeenShape
<1> QED
  BY <1>2, <1>3, <1>4, <1>5, <1>6, <1>7, <1>8, SessionSteps DEF allVars, sessionVars, Statuses

\* A busy runner is the one of the map, but for those whose entry a late hook deleted.
THEOREM BusySeen == SessionSpec => []BusyIsSeen
<1>1. SessionInit => SeenShape
  BY DEF SessionInit, Init, SeenShape, BusyIsSeen, Entering
<1>2. SeenShape => BusyIsSeen
  BY DEF SeenShape
<1> QED
  BY <1>1, <1>2, SessionInvHolds, SeenStep, PTL DEF SessionSpec
=============================================================================
