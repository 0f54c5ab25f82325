---------------------------- MODULE BackgroundJob ----------------------------
(***************************************************************************)
(* packages/ravens/src/background/job.ts: jobs that run in the scope of    *)
(* the instance, under one id.  An id whose job is not running may be      *)
(* started again: the Map then holds the record of the new job.            *)
(*                                                                         *)
(* start, wait and cancel find a record by its id; so does the finish that *)
(* a fiber or a cancel ends with, some effects later.  A job is named by   *)
(* the start call that made it.  The SynchronizedRef lets one modification *)
(* at a time through; start holds it while it forks the fiber.             *)
(***************************************************************************)
EXTENDS Naturals, FiniteSets

CONSTANTS
    Starts,    \* start calls
    Cancels,   \* cancel calls
    Waits,     \* wait calls, with or without a timeout
    NoJob

ASSUME JobAssumption == NoJob \notin Starts /\ Cancels \cap Waits = {}

VARIABLES
    current,   \* jobs.get(id)
    lock,      \* the start that holds the SynchronizedRef
    status,    \* of a job: info.status
    fiber,     \* of a job: its fiber
    done,      \* of a job: its Deferred
    start,     \* of a start: where it is
    cancel,    \* of a cancel: where it is
    reads,     \* of a cancel or a wait: the record it read
    wait,      \* of a wait: where it is
    struck     \* jobs that were marked through the id by what belonged to another

jobState == <<current, lock, status, fiber, done, struck>>
jobVars  == <<jobState, start, cancel, reads, wait>>

Ends == {"completed", "error", "cancelled"}

JobTypeOK ==
    /\ current \in Starts \cup {NoJob}
    /\ lock \in Starts \cup {NoJob}
    /\ status \in [Starts -> {"none", "running"} \cup Ends]
    /\ fiber \in [Starts -> {"none", "run", "over"} \cup Ends]
    /\ done \in [Starts -> {"open"} \cup Ends]
    /\ start \in [Starts -> {"new", "forked", "started", "joined"}]
    /\ cancel \in [Cancels -> {"new", "awaits", "marks", "returned"}]
    /\ reads \in [Cancels \cup Waits -> Starts \cup {NoJob}]
    /\ wait \in [Waits -> {"new", "awaits", "told", "timed out"}]
    /\ struck \subseteq Starts

JobInit ==
    /\ current = NoJob
    /\ lock = NoJob
    /\ status = [j \in Starts |-> "none"]
    /\ fiber = [j \in Starts |-> "none"]
    /\ done = [j \in Starts |-> "open"]
    /\ start = [j \in Starts |-> "new"]
    /\ cancel = [c \in Cancels |-> "new"]
    /\ reads = [c \in Cancels \cup Waits |-> NoJob]
    /\ wait = [w \in Waits |-> "new"]
    /\ struck = {}

Running == current # NoJob /\ status[current] = "running"

-----------------------------------------------------------------------------
\* start, under the lock: a job that runs is shared; otherwise a fiber is forked
\* and runs at once ...
StartForks(j) ==
    /\ start[j] = "new"
    /\ lock = NoJob
    /\ IF Running
       THEN start' = [start EXCEPT ![j] = "joined"] /\ UNCHANGED <<fiber, lock>>
       ELSE /\ start' = [start EXCEPT ![j] = "forked"]
            /\ fiber' = [fiber EXCEPT ![j] = "run"]
            /\ lock' = j
    /\ UNCHANGED <<current, status, done, struck, cancel, reads, wait>>

\* ... and its record takes the place of an older one.
StartStores(j) ==
    /\ lock = j
    /\ lock' = NoJob
    /\ current' = j
    /\ status' = [status EXCEPT ![j] = "running"]
    /\ start' = [start EXCEPT ![j] = "started"]
    /\ UNCHANGED <<fiber, done, struck, cancel, reads, wait>>

\* The work of a job ends by itself.
RunEnds(j, how) ==
    /\ fiber[j] = "run"
    /\ fiber' = [fiber EXCEPT ![j] = how]
    /\ UNCHANGED <<current, lock, status, done, struck, start, cancel, reads, wait>>

\* finish(id, how) on behalf of job j: whatever record is there is marked, and
\* its Deferred settled, if it is running.
Finish(j, how) ==
    /\ IF Running
       THEN /\ status' = [status EXCEPT ![current] = how]
            /\ done' = [done EXCEPT ![current] = how]
            /\ struck' = IF current = j THEN struck ELSE struck \cup {current}
       ELSE UNCHANGED <<status, done, struck>>
    /\ UNCHANGED <<current, lock>>

\* The fiber reports how its run ended.
FiberFinishes(j) ==
    /\ fiber[j] \in Ends
    /\ lock = NoJob
    /\ Finish(j, fiber[j])
    /\ fiber' = [fiber EXCEPT ![j] = "over"]
    /\ UNCHANGED <<start, cancel, reads, wait>>

-----------------------------------------------------------------------------
\* An interrupted fiber may still run its own finish, or be over at once: that
\* is up to the runtime, a finish on its way goes on or is cut off.
Interrupted(j) ==
    CASE fiber[j] = "run" -> {"cancelled", "over"}
      [] fiber[j] \in Ends -> {fiber[j], "over"}
      [] OTHER -> {fiber[j]}

\* cancel: reads the record and interrupts its fiber ...
CancelReads(c) ==
    /\ cancel[c] = "new"
    /\ current # NoJob
    /\ reads' = [reads EXCEPT ![c] = current]
    /\ IF Running
       THEN /\ cancel' = [cancel EXCEPT ![c] = "awaits"]
            /\ \E f \in Interrupted(current) : fiber' = [fiber EXCEPT ![current] = f]
       ELSE cancel' = [cancel EXCEPT ![c] = "returned"] /\ UNCHANGED fiber
    /\ UNCHANGED <<current, lock, status, done, struck, start, wait>>

\* Variant: the fiber is not awaited.
CancelGoesAhead(c) ==
    /\ cancel[c] = "awaits"
    /\ cancel' = [cancel EXCEPT ![c] = "marks"]
    /\ UNCHANGED <<jobState, start, reads, wait>>

\* ... waits until that is over ...
CancelAwaits(c) ==
    /\ cancel[c] = "awaits"
    /\ fiber[reads[c]] = "over"
    /\ cancel' = [cancel EXCEPT ![c] = "marks"]
    /\ UNCHANGED <<jobState, start, reads, wait>>

\* ... and marks the record that the id then has.
CancelMarks(c) ==
    /\ cancel[c] = "marks"
    /\ lock = NoJob
    /\ Finish(reads[c], "cancelled")
    /\ cancel' = [cancel EXCEPT ![c] = "returned"]
    /\ UNCHANGED <<fiber, start, reads, wait>>

-----------------------------------------------------------------------------
WaitReads(w) ==
    /\ wait[w] = "new"
    /\ current # NoJob
    /\ reads' = [reads EXCEPT ![w] = current]
    /\ wait' = [wait EXCEPT ![w] = IF Running THEN "awaits" ELSE "told"]
    /\ UNCHANGED <<jobState, start, cancel>>

WaitIsTold(w) ==
    /\ wait[w] = "awaits"
    /\ done[reads[w]] # "open"
    /\ wait' = [wait EXCEPT ![w] = "told"]
    /\ UNCHANGED <<jobState, start, cancel, reads>>

\* A wait with a timeout returns the snapshot it read.
WaitTimesOut(w) ==
    /\ wait[w] = "awaits"
    /\ wait' = [wait EXCEPT ![w] = "timed out"]
    /\ UNCHANGED <<jobState, start, cancel, reads>>

-----------------------------------------------------------------------------
JobNext ==
    \/ \E j \in Starts :
         \/ StartForks(j) \/ StartStores(j) \/ FiberFinishes(j)
         \/ \E how \in {"completed", "error"} : RunEnds(j, how)
    \/ \E c \in Cancels : CancelReads(c) \/ CancelAwaits(c) \/ CancelMarks(c)
    \/ \E w \in Waits : WaitReads(w) \/ WaitIsTold(w) \/ WaitTimesOut(w)

JobSpec == JobInit /\ [][JobNext]_jobVars

\* Fibers are run; the work of a job need not end.
JobFairness ==
    /\ \A j \in Starts : WF_jobVars(StartStores(j)) /\ WF_jobVars(FiberFinishes(j))
    /\ \A c \in Cancels : WF_jobVars(CancelAwaits(c)) /\ WF_jobVars(CancelMarks(c))
    /\ \A w \in Waits : WF_jobVars(WaitIsTold(w))

-----------------------------------------------------------------------------
\* Under an id one job runs at a time: starts that race are deduplicated.  The
\* exception: a job that was marked through the id by the finish of another.
OneRunPerId ==
    \A j, k \in Starts : fiber[j] = "run" /\ fiber[k] = "run" => j = k \/ j \in struck \/ k \in struck

\* A job counts as running only as long as its fiber, or a cancel that stopped
\* it, is there to say that it ended: nobody waits for a job that is over.
RunningEnds ==
    \A j \in Starts : status[j] = "running" =>
        \/ fiber[j] # "over"
        \/ \E c \in Cancels : cancel[c] \in {"awaits", "marks"} /\ reads[c] = j

\* A job that is not running any more has ended, and its waiters hear the same;
\* the exception are jobs that were marked by the finish of another.
MarkedIsOver ==
    \A j \in Starts : status[j] \in Ends =>
        /\ done[j] = status[j]
        /\ fiber[j] = "over" \/ j \in struck

\* Only the current record is ever running, so starting anew loses no job.
RunningIsCurrent == \A j \in Starts : status[j] = "running" => j = current

\* One job at a time under an id, and its record says what its fiber does.
JobContract == JobTypeOK /\ OneRunPerId /\ RunningEnds /\ MarkedIsOver /\ RunningIsCurrent

\* A cancelled job ends for everybody: whoever waits for it is told, and so is
\* the cancel itself - whatever other calls do.
CancelEnds ==
    \A c \in Cancels :
        []<>(cancel[c] # "new" => cancel[c] = "returned" /\ status[reads[c]] # "running")
=============================================================================
