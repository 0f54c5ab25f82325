------------------------------- MODULE Runner -------------------------------
(***************************************************************************)
(* packages/ravens/src/effect/runner.ts: the per-session turn runner.      *)
(*                                                                         *)
(* A runner owns one SynchronizedRef holding Idle | Running | Shell |      *)
(* ShellThenRun.  A call is one invocation of ensureRunning, startShell or *)
(* cancel.  A call forks at most one fiber and makes at most one Deferred, *)
(* so the fiber, the Deferred and the `id' the code draws from next() are  *)
(* all named by the call they were made for.                               *)
(*                                                                         *)
(* Every read-modify-write of the ref holds its semaphore.  Only           *)
(* startShell runs another effect (onBusy) while holding it, so `lock' is  *)
(* explicit for that one and every other transition is one step.  What     *)
(* runs after the semaphore is released (the effect that `flatten' runs)   *)
(* is a step of its own: the Effect runtime may switch fibers there.       *)
(***************************************************************************)
CONSTANTS
    Runners,    \* runner objects
    Calls,      \* invocations, each made at most once
    Abortable,  \* calls whose own fiber may be interrupted while they wait
    None

Ops == {"ensure", "shell", "cancel"}

ASSUME RunnerAssumption ==
    /\ None \notin Calls \cup Runners \cup Ops
    /\ Abortable \subseteq Calls

VARIABLES
    tag, cur, pend, \* the ref: _tag, run/shell handle, PendingHandle
    lock,           \* who holds the ref's semaphore across an effect
    op, on, pc,     \* of a call: operation, runner, program counter
    waits,          \* of a call: the call whose Deferred it awaits or will fail
    victim,         \* of a cancel: the call whose fiber it stops
    result,         \* of a call: what it returned
    phase, exit,    \* of a fiber: progress and the exit of its work
    intr,           \* of a fiber: interruption was requested
    ready,          \* of a shell: its latch is open
    stopping,       \* of a shell: its `cancelled' Deferred is done
    done            \* of a call: its Deferred

refVars  == <<tag, cur, pend>>
callVars == <<op, on, pc, waits, victim, result>>
fibVars  == <<phase, exit, intr, ready, stopping>>
vars     == <<refVars, lock, callVars, fibVars, done>>

Tags    == {"Idle", "Running", "Shell", "ShellThenRun"}
PCs     == {"new", "called", "onBusy", "await", "latch", "interrupt", "waitExit",
            "settle", "check", "onIdle", "returned"}
Results == {"none", "success", "failure", "interrupted", "busy", "void", "aborted"}
Phases  == {"none", "forked", "running", "finish", "onIdle", "complete", "exited"}
Exits   == {"none", "success", "failure", "interrupt", "mixed"}
Dones   == {"none", "open", "success", "failure", "cancelled"}

TypeOK ==
    /\ tag \in [Runners -> Tags]
    /\ cur \in [Runners -> Calls \cup {None}]
    /\ pend \in [Runners -> Calls \cup {None}]
    /\ lock \in [Runners -> Calls \cup {None}]
    /\ op \in [Calls -> Ops \cup {None}]
    /\ on \in [Calls -> Runners \cup {None}]
    /\ \A c \in Calls : op[c] # None => on[c] \in Runners
    /\ pc \in [Calls -> PCs]
    /\ waits \in [Calls -> Calls \cup {None}]
    /\ victim \in [Calls -> Calls \cup {None}]
    /\ result \in [Calls -> Results]
    /\ phase \in [Calls -> Phases]
    /\ exit \in [Calls -> Exits]
    /\ intr \in [Calls -> BOOLEAN]
    /\ ready \in [Calls -> BOOLEAN]
    /\ stopping \in [Calls -> BOOLEAN]
    /\ done \in [Calls -> Dones]

Init ==
    /\ tag = [r \in Runners |-> "Idle"]
    /\ cur = [r \in Runners |-> None]
    /\ pend = [r \in Runners |-> None]
    /\ lock = [r \in Runners |-> None]
    /\ op = [c \in Calls |-> None]
    /\ on = [c \in Calls |-> None]
    /\ pc = [c \in Calls |-> "new"]
    /\ waits = [c \in Calls |-> None]
    /\ victim = [c \in Calls |-> None]
    /\ result = [c \in Calls |-> "none"]
    /\ phase = [c \in Calls |-> "none"]
    /\ exit = [c \in Calls |-> "none"]
    /\ intr = [c \in Calls |-> FALSE]
    /\ ready = [c \in Calls |-> FALSE]
    /\ stopping = [c \in Calls |-> FALSE]
    /\ done = [c \in Calls |-> "none"]

Become(r, t, f, p) ==
    /\ tag' = [tag EXCEPT ![r] = t]
    /\ cur' = [cur EXCEPT ![r] = f]
    /\ pend' = [pend EXCEPT ![r] = p]

Goto(c, l) == pc' = [pc EXCEPT ![c] = l]

Return(c, v) ==
    /\ pc' = [pc EXCEPT ![c] = "returned"]
    /\ result' = [result EXCEPT ![c] = v]

\* A call of this operation is at the semaphore of a runner in state t, and gets it.
Enters(c, o, t) ==
    /\ op[c] = o
    /\ pc[c] = "called"
    /\ lock[on[c]] = None
    /\ tag[on[c]] = t

-----------------------------------------------------------------------------
(* Calls *)

Invoke(c, o, r) ==
    /\ pc[c] = "new"
    /\ op' = [op EXCEPT ![c] = o]
    /\ on' = [on EXCEPT ![c] = r]
    /\ Goto(c, "called")
    /\ UNCHANGED <<refVars, lock, waits, victim, result, fibVars, done>>

\* Running and ShellThenRun: wait for the run that is there, drop the new work.
JoinRun(c) ==
    /\ \/ Enters(c, "ensure", "Running") /\ waits' = [waits EXCEPT ![c] = cur[on[c]]]
       \/ Enters(c, "ensure", "ShellThenRun") /\ waits' = [waits EXCEPT ![c] = pend[on[c]]]
    /\ Goto(c, "await")
    /\ UNCHANGED <<refVars, lock, op, on, victim, result, fibVars, done>>

QueueRun(c) ==
    /\ Enters(c, "ensure", "Shell")
    /\ Become(on[c], "ShellThenRun", cur[on[c]], c)
    /\ done' = [done EXCEPT ![c] = "open"]
    /\ waits' = [waits EXCEPT ![c] = c]
    /\ Goto(c, "await")
    /\ UNCHANGED <<lock, op, on, victim, result, fibVars>>

StartRun(c) ==
    /\ Enters(c, "ensure", "Idle")
    /\ Become(on[c], "Running", c, None)
    /\ done' = [done EXCEPT ![c] = "open"]
    /\ phase' = [phase EXCEPT ![c] = "forked"]
    /\ waits' = [waits EXCEPT ![c] = c]
    /\ Goto(c, "await")
    /\ UNCHANGED <<lock, op, on, victim, result, exit, intr, ready, stopping>>

\* Variant: no catchTag in awaitDone.
OutcomeUncaught(d) == IF done[d] = "success" THEN "success" ELSE "failure"

Outcome(d) ==
    CASE done[d] = "success"   -> "success"
      [] done[d] = "failure"   -> "failure"
      [] done[d] = "cancelled" -> "interrupted"
      [] OTHER -> "none"

RunReturns(c) ==
    /\ op[c] = "ensure"
    /\ pc[c] = "await"
    /\ done[waits[c]] \notin {"none", "open"}
    /\ Return(c, Outcome(waits[c]))
    /\ UNCHANGED <<refVars, lock, op, on, waits, victim, fibVars, done>>

RejectShell(c) ==
    /\ \E t \in Tags \ {"Idle"} : Enters(c, "shell", t)
    /\ Return(c, "busy")
    /\ UNCHANGED <<refVars, lock, op, on, waits, victim, fibVars, done>>

\* The semaphore stays taken while onBusy runs.
EnterShell(c) ==
    /\ Enters(c, "shell", "Idle")
    /\ lock' = [lock EXCEPT ![on[c]] = c]
    /\ Goto(c, "onBusy")
    /\ UNCHANGED <<refVars, op, on, waits, victim, result, fibVars, done>>

StartShell(c) ==
    /\ pc[c] = "onBusy"
    /\ lock' = [lock EXCEPT ![on[c]] = None]
    /\ Become(on[c], "Shell", c, None)
    /\ phase' = [phase EXCEPT ![c] = "forked"]
    /\ Goto(c, "await")
    /\ UNCHANGED <<op, on, waits, victim, result, exit, intr, ready, stopping, done>>

ShellOutcome(c) ==
    CASE exit[c] = "success" -> "success"
      [] exit[c] = "interrupt" \/ (exit[c] = "mixed" /\ stopping[c]) -> "interrupted"
      [] OTHER -> "failure"

ShellReturns(c) ==
    /\ op[c] = "shell"
    /\ pc[c] = "await"
    /\ phase[c] = "exited"
    /\ Return(c, ShellOutcome(c))
    /\ UNCHANGED <<refVars, lock, op, on, waits, victim, fibVars, done>>

CancelIdle(c) ==
    /\ Enters(c, "cancel", "Idle")
    /\ Return(c, "void")
    /\ UNCHANGED <<refVars, lock, op, on, waits, victim, fibVars, done>>

\* Variant: the queued run is dropped without remembering who waits for it.
BeginCancelForgets(c) ==
    /\ \/ Enters(c, "cancel", "Running") /\ waits' = [waits EXCEPT ![c] = cur[on[c]]] /\ Goto(c, "interrupt")
       \/ \E t \in {"Shell", "ShellThenRun"} : Enters(c, "cancel", t) /\ Goto(c, "latch") /\ UNCHANGED waits
    /\ victim' = [victim EXCEPT ![c] = cur[on[c]]]
    /\ Become(on[c], "Idle", None, None)
    /\ UNCHANGED <<lock, op, on, result, fibVars, done>>

\* Variant: modifyEffect, which stops the fiber with the semaphore taken.
BeginCancelLocks(c) ==
    /\ \/ Enters(c, "cancel", "Running") /\ waits' = [waits EXCEPT ![c] = cur[on[c]]] /\ Goto(c, "interrupt")
       \/ Enters(c, "cancel", "Shell") /\ Goto(c, "latch") /\ UNCHANGED waits
       \/ Enters(c, "cancel", "ShellThenRun") /\ waits' = [waits EXCEPT ![c] = pend[on[c]]] /\ Goto(c, "latch")
    /\ victim' = [victim EXCEPT ![c] = cur[on[c]]]
    /\ Become(on[c], "Idle", None, None)
    /\ lock' = [lock EXCEPT ![on[c]] = c]
    /\ UNCHANGED <<op, on, result, fibVars, done>>

\* The ref becomes Idle before anything is interrupted or settled.
BeginCancel(c) ==
    /\ \/ Enters(c, "cancel", "Running") /\ waits' = [waits EXCEPT ![c] = cur[on[c]]] /\ Goto(c, "interrupt")
       \/ Enters(c, "cancel", "Shell") /\ Goto(c, "latch") /\ UNCHANGED waits
       \/ Enters(c, "cancel", "ShellThenRun") /\ waits' = [waits EXCEPT ![c] = pend[on[c]]] /\ Goto(c, "latch")
    /\ victim' = [victim EXCEPT ![c] = cur[on[c]]]
    /\ Become(on[c], "Idle", None, None)
    /\ UNCHANGED <<lock, op, on, result, fibVars, done>>

\* Variant: stopShell marks the shell and does not interrupt it.
PassLatchOnly(c) ==
    /\ pc[c] = "latch"
    /\ ready[victim[c]]
    /\ stopping' = [stopping EXCEPT ![victim[c]] = TRUE]
    /\ Goto(c, IF waits[c] = None THEN "check" ELSE "settle")
    /\ UNCHANGED <<refVars, lock, op, on, waits, victim, result, phase, exit, intr, ready, done>>

\* stopShell: wait for the latch, then mark the shell as cancelled.
PassLatch(c) ==
    /\ pc[c] = "latch"
    /\ ready[victim[c]]
    /\ stopping' = [stopping EXCEPT ![victim[c]] = TRUE]
    /\ Goto(c, "interrupt")
    /\ UNCHANGED <<refVars, lock, op, on, waits, victim, result, phase, exit, intr, ready, done>>

\* Variant: interrupt without waiting for the fiber.
InterruptDetached(c) ==
    /\ pc[c] = "interrupt"
    /\ intr' = [intr EXCEPT ![victim[c]] = TRUE]
    /\ Goto(c, IF waits[c] = None THEN "check" ELSE "settle")
    /\ UNCHANGED <<refVars, lock, op, on, waits, victim, result, phase, exit, ready, stopping, done>>

Interrupt(c) ==
    /\ pc[c] = "interrupt"
    /\ intr' = [intr EXCEPT ![victim[c]] = TRUE]
    /\ Goto(c, "waitExit")
    /\ UNCHANGED <<refVars, lock, op, on, waits, victim, result, phase, exit, ready, stopping, done>>

VictimExited(c) ==
    /\ pc[c] = "waitExit"
    /\ phase[victim[c]] = "exited"
    /\ Goto(c, IF waits[c] = None THEN "check" ELSE "settle")
    /\ UNCHANGED <<refVars, lock, op, on, waits, victim, result, fibVars, done>>

\* Deferred.fail keeps the first completion.
SettleCancelled(c) ==
    /\ pc[c] = "settle"
    /\ done' = IF done[waits[c]] = "open" THEN [done EXCEPT ![waits[c]] = "cancelled"] ELSE done
    /\ Goto(c, "check")
    /\ UNCHANGED <<refVars, lock, op, on, waits, victim, result, fibVars>>

\* Variant: onIdle only when the runner is busy again.
IdleIfBusy(c) ==
    /\ pc[c] = "check"
    /\ lock[on[c]] = None
    /\ IF tag[on[c]] # "Idle" THEN Goto(c, "onIdle") /\ UNCHANGED result ELSE Return(c, "void")
    /\ UNCHANGED <<refVars, lock, op, on, waits, victim, fibVars, done>>

IdleIfCurrent(c) ==
    /\ pc[c] = "check"
    /\ lock[on[c]] = None
    /\ IF tag[on[c]] = "Idle" THEN Goto(c, "onIdle") /\ UNCHANGED result ELSE Return(c, "void")
    /\ UNCHANGED <<refVars, lock, op, on, waits, victim, fibVars, done>>

CancelOnIdle(c) ==
    /\ pc[c] = "onIdle"
    /\ Return(c, "void")
    /\ UNCHANGED <<refVars, lock, op, on, waits, victim, fibVars, done>>

\* The fiber that made the call is interrupted (a client went away): it
\* abandons what it was doing.  A shell is a child of that fiber.
AbortCall(c) ==
    /\ c \in Abortable
    /\ pc[c] \notin {"new", "returned"}
    /\ Return(c, "aborted")
    /\ intr' = IF op[c] = "shell" /\ pc[c] = "await" THEN [intr EXCEPT ![c] = TRUE] ELSE intr
    /\ lock' = IF pc[c] = "onBusy" THEN [lock EXCEPT ![on[c]] = None] ELSE lock
    /\ UNCHANGED <<refVars, op, on, waits, victim, phase, exit, ready, stopping, done>>

-----------------------------------------------------------------------------
(* Fibers *)

FiberStarts(f) ==
    /\ phase[f] = "forked"
    /\ ~intr[f]
    /\ phase' = [phase EXCEPT ![f] = "running"]
    /\ UNCHANGED <<refVars, lock, callVars, exit, intr, ready, stopping, done>>

\* The runtime drops a fiber interrupted before its first step: neither the
\* work nor its onExit / ensuring finalizer ever runs.
FiberDropped(f) ==
    /\ phase[f] = "forked"
    /\ intr[f]
    /\ phase' = [phase EXCEPT ![f] = "exited"]
    /\ exit' = [exit EXCEPT ![f] = "interrupt"]
    /\ UNCHANGED <<refVars, lock, callVars, intr, ready, stopping, done>>

ShellReady(f) ==
    /\ op[f] = "shell"
    /\ phase[f] = "running"
    /\ ~ready[f]
    /\ ready' = [ready EXCEPT ![f] = TRUE]
    /\ UNCHANGED <<refVars, lock, callVars, phase, exit, intr, stopping, done>>

\* The work ends: by itself, or unwound by an interruption (the finalizers
\* of the work may swallow it or add a failure of their own: "mixed"; an
\* end with a defect is a "failure").  shellImpl opens its latch before it
\* can end, whatever happens.
WorkEnds(f, e) ==
    /\ phase[f] = "running"
    /\ op[f] = "shell" => ready[f]
    /\ e \in {"interrupt", "mixed"} => intr[f]
    /\ phase' = [phase EXCEPT ![f] = "finish"]
    /\ exit' = [exit EXCEPT ![f] = e]
    /\ UNCHANGED <<refVars, lock, callVars, intr, ready, stopping, done>>

IsCurrent(f, t) == tag[on[f]] = t /\ cur[on[f]] = f

\* Variant: the id is not compared.
FinishAnyRun(f) ==
    /\ op[f] = "ensure"
    /\ phase[f] = "finish"
    /\ lock[on[f]] = None
    /\ IF tag[on[f]] = "Running"
         THEN Become(on[f], "Idle", None, None) /\ phase' = [phase EXCEPT ![f] = "onIdle"]
         ELSE UNCHANGED refVars /\ phase' = [phase EXCEPT ![f] = "complete"]
    /\ UNCHANGED <<lock, callVars, exit, intr, ready, stopping, done>>

FinishRun(f) ==
    /\ op[f] = "ensure"
    /\ phase[f] = "finish"
    /\ lock[on[f]] = None
    /\ IF IsCurrent(f, "Running")
         THEN Become(on[f], "Idle", None, None) /\ phase' = [phase EXCEPT ![f] = "onIdle"]
         ELSE UNCHANGED refVars /\ phase' = [phase EXCEPT ![f] = "complete"]
    /\ UNCHANGED <<lock, callVars, exit, intr, ready, stopping, done>>

\* Variant: only a shell that nobody queued behind is finished.
FinishShellAlone(f) ==
    /\ op[f] = "shell"
    /\ phase[f] = "finish"
    /\ lock[on[f]] = None
    /\ IF IsCurrent(f, "Shell")
         THEN Become(on[f], "Idle", None, None) /\ phase' = [phase EXCEPT ![f] = "onIdle"]
         ELSE UNCHANGED refVars /\ phase' = [phase EXCEPT ![f] = "exited"]
    /\ UNCHANGED <<lock, callVars, exit, intr, ready, stopping, done>>

\* Variant: the queued run becomes current and is not forked.
FinishShellForksNothing(f) ==
    /\ op[f] = "shell"
    /\ phase[f] = "finish"
    /\ lock[on[f]] = None
    /\ \/ IsCurrent(f, "Shell") /\ Become(on[f], "Idle", None, None) /\ phase' = [phase EXCEPT ![f] = "onIdle"]
       \/ /\ IsCurrent(f, "ShellThenRun")
          /\ Become(on[f], "Running", pend[on[f]], None)
          /\ phase' = [phase EXCEPT ![f] = "exited"]
       \/ /\ ~IsCurrent(f, "Shell") /\ ~IsCurrent(f, "ShellThenRun")
          /\ phase' = [phase EXCEPT ![f] = "exited"] /\ UNCHANGED refVars
    /\ UNCHANGED <<lock, callVars, exit, intr, ready, stopping, done>>

\* Back to Idle, or hand over to the queued run, which is forked here.
FinishShell(f) ==
    /\ op[f] = "shell"
    /\ phase[f] = "finish"
    /\ lock[on[f]] = None
    /\ \/ /\ IsCurrent(f, "Shell")
          /\ Become(on[f], "Idle", None, None)
          /\ phase' = [phase EXCEPT ![f] = "onIdle"]
       \/ /\ IsCurrent(f, "ShellThenRun")
          /\ Become(on[f], "Running", pend[on[f]], None)
          /\ phase' = [phase EXCEPT ![f] = "exited", ![pend[on[f]]] = "forked"]
       \/ /\ ~IsCurrent(f, "Shell") /\ ~IsCurrent(f, "ShellThenRun")
          /\ phase' = [phase EXCEPT ![f] = "exited"]
          /\ UNCHANGED refVars
    /\ UNCHANGED <<lock, callVars, exit, intr, ready, stopping, done>>

FiberOnIdle(f) ==
    /\ phase[f] = "onIdle"
    /\ phase' = [phase EXCEPT ![f] = IF op[f] = "shell" THEN "exited" ELSE "complete"]
    /\ UNCHANGED <<refVars, lock, callVars, exit, intr, ready, stopping, done>>

\* Variant: the exit as it is, also when it is an interruption.
CompleteRaw(f) ==
    /\ phase[f] = "complete"
    /\ done' = IF done[f] # "open" THEN done ELSE [done EXCEPT ![f] = exit[f]]
    /\ phase' = [phase EXCEPT ![f] = "exited"]
    /\ UNCHANGED <<refVars, lock, callVars, exit, intr, ready, stopping>>

\* complete(): an interrupts-only exit fails the Deferred with Cancelled.
Complete(f) ==
    /\ phase[f] = "complete"
    /\ done' = IF done[f] # "open" THEN done
               ELSE [done EXCEPT ![f] = CASE exit[f] = "success" -> "success"
                                          [] exit[f] = "interrupt" -> "cancelled"
                                          [] OTHER -> "failure"]
    /\ phase' = [phase EXCEPT ![f] = "exited"]
    /\ UNCHANGED <<refVars, lock, callVars, exit, intr, ready, stopping>>

-----------------------------------------------------------------------------
CallMoves(c) ==
    \/ JoinRun(c) \/ QueueRun(c) \/ StartRun(c) \/ RunReturns(c)
    \/ RejectShell(c) \/ EnterShell(c) \/ ShellReturns(c)
    \/ CancelIdle(c) \/ BeginCancel(c) \/ PassLatch(c) \/ Interrupt(c)
    \/ VictimExited(c) \/ SettleCancelled(c) \/ IdleIfCurrent(c)

FiberMoves(f) ==
    \/ FiberStarts(f) \/ FiberDropped(f) \/ ShellReady(f)
    \/ FinishRun(f) \/ FinishShell(f) \/ Complete(f)

\* StartShell ends onBusy; CancelOnIdle and FiberOnIdle are onIdle.
CallStep(c) == CallMoves(c) \/ StartShell(c) \/ CancelOnIdle(c)

FiberStep(f) == FiberMoves(f) \/ FiberOnIdle(f)

WorkEnding(f) == \E e \in Exits \ {"none"} : WorkEnds(f, e)

Next ==
    \E c \in Calls :
        \/ \E o \in Ops, r \in Runners : Invoke(c, o, r)
        \/ CallStep(c)
        \/ AbortCall(c)
        \/ FiberStep(c)
        \/ WorkEnding(c)

Spec == Init /\ [][Next]_vars

\* The runtime keeps running every runnable fiber, and work that was
\* interrupted unwinds.  Nobody has to call, and work may run for ever.
Fairness ==
    \A c \in Calls :
        /\ WF_vars(CallStep(c))
        /\ WF_vars(FiberStep(c))
        /\ WF_vars(intr[c] /\ WorkEnding(c))

FairSpec == Spec /\ Fairness

-----------------------------------------------------------------------------
(* Properties *)

\* Its finish hook (finishRun / finishShell) has still to run.
Live(f) == phase[f] \in {"forked", "running", "finish"}

\* The shell of a call that went away before the fiber's first step.
Dropped(f) == op[f] = "shell" /\ result[f] = "aborted" /\ phase[f] = "exited" /\ ~ready[f]

\* A state other than Idle always names a fiber that will leave it, so a
\* session is never stuck busy behind a fiber that is gone: a client that
\* goes away leaves its shell to end, unless it had not begun (Dropped).
CurrentIsAlive == \A r \in Runners : tag[r] # "Idle" => Live(cur[r]) \/ Dropped(cur[r])

\* cancel makes the runner Idle while the old fiber still runs, so a new
\* fiber may overlap it; but whatever runs without being the current handle
\* is being stopped: at most one fiber of a runner is left alone.
StraysAreStopped ==
    \A f \in Calls : Live(f) =>
        \/ tag[on[f]] # "Idle" /\ cur[on[f]] = f
        \/ intr[f]
        \/ \E c \in Calls : victim[c] = f /\ (pc[c] \in {"latch", "interrupt"} \/ result[c] = "aborted")

\* Some cancel still has to fail the Deferred of d (or was itself aborted).
WillCancel(d) ==
    \E c \in Calls :
        /\ op[c] = "cancel"
        /\ waits[c] = d
        /\ pc[c] \in {"latch", "interrupt", "waitExit", "settle"} \/ result[c] = "aborted"

\* Nobody waits for nothing: a Deferred that is not settled belongs to the
\* queued run, to a fiber that will complete it, or to a cancel under way.
OpenHasSettler ==
    \A d \in Calls : done[d] = "open" =>
        \/ tag[on[d]] = "ShellThenRun" /\ pend[on[d]] = d
        \/ phase[d] \in {"running", "finish", "onIdle", "complete"}
        \/ phase[d] = "forked" /\ ~intr[d]
        \/ WillCancel(d)

\* A waiter is answered only when the work is over, and with what the work
\* did: a cancel that races the end of a run does not replace its result,
\* and a queued run that was cancelled never starts.
SettledRunIsOver ==
    \A d \in Calls : done[d] \notin {"none", "open"} =>
        /\ phase[d] \in {"none", "exited"}
        /\ pend[on[d]] # d
        /\ done[d] = "success" => exit[d] = "success"
        /\ done[d] = "failure" => exit[d] \in {"failure", "mixed"}
        /\ done[d] = "cancelled" => exit[d] \in {"interrupt", "none"}

\* When a cancel that found something to stop returns, that fiber is gone
\* and everybody who waited for the run it carried or queued is answered.
CancelIsSynchronous ==
    \A c \in Calls : result[c] = "void" /\ victim[c] # None =>
        /\ phase[victim[c]] = "exited"
        /\ waits[c] # None => done[waits[c]] \notin {"none", "open"}

\* cancel never hangs, even though it waits for the shell's latch, for the
\* fiber's finalizers and for the semaphore.
CancelReturns ==
    \A c \in Calls \ Abortable : (op[c] = "cancel" /\ pc[c] = "called") ~> (pc[c] = "returned")

\* If work always ends, every caller gets an answer: none is lost between
\* a join, a shell-to-run hand-over and a cancel.
EveryCallReturns ==
    (\A c \in Calls : WF_vars(WorkEnding(c))) =>
        \A c \in Calls \ Abortable : (pc[c] = "called") ~> (pc[c] = "returned")

\* What a caller of ensureRunning relies on: see SharedRun.
SharedRuns == INSTANCE SharedRun WITH
    run    <- done,
    joined <- [c \in Calls |-> IF op[c] = "ensure" THEN waits[c] ELSE None],
    answer <- [c \in Calls |-> IF op[c] = "ensure" THEN result[c] ELSE "none"]

ImplementsSharedRun == SharedRuns!Spec
=============================================================================
