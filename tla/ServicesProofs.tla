--------------------------- MODULE ServicesProofs ---------------------------
(***************************************************************************)
(* Proofs about the services of an instance that share what they start:    *)
(* BackgroundJob, LspClients and McpAuth, for any number of calls, and about*)
(* PromptQueue, for any prompts.                                           *)
(***************************************************************************)
EXTENDS BackgroundJob, LspClients, McpAuth, PromptQueue, FiniteSetTheorems, TLAPS

-----------------------------------------------------------------------------
(* BackgroundJob: one job runs at a time under an id, and its record says   *)
(* what its fiber does.                                                     *)

\* How far a start is tells what there is of its job; one that is not stored has
\* not been reported, because the report needs the lock.
StartsMatch == \A j \in Starts :
    /\ start[j] \in {"new", "joined"} <=> fiber[j] = "none"
    /\ start[j] = "started" <=> status[j] # "none"
    /\ start[j] = "forked" <=> lock = j
    /\ start[j] = "forked" => fiber[j] # "over"
    /\ status[j] \in {"none", "running"} => done[j] = "open"
    /\ j \in struck => status[j] \in Ends

\* Who holds the lock forks because nothing is running.
LockIsHeld ==
    /\ lock # NoJob => ~Running
    /\ current # NoJob => start[current] = "started"

\* A cancel that goes on has interrupted the fiber of a job that was stored.
CancelsMatch == \A c \in Cancels :
    /\ cancel[c] \in {"awaits", "marks"} => 
         reads[c] \in Starts /\ start[reads[c]] = "started" /\ fiber[reads[c]] # "run"
    /\ cancel[c] = "marks" => fiber[reads[c]] = "over"

JobInv == JobContract /\ StartsMatch /\ LockIsHeld /\ CancelsMatch

-----------------------------------------------------------------------------
\* The proofs of the steps look at functions, and at single values where they
\* matter; the sets of all values stay folded.
StatusSet == {"none", "running"} \cup Ends
FiberSet  == {"none", "run", "over"} \cup Ends
DoneSet   == {"open"} \cup Ends
StartSet  == {"new", "forked", "started", "joined"}
CancelSet == {"new", "awaits", "marks", "returned"}
WaitSet   == {"new", "awaits", "told", "timed out"}

JobShapes ==
    /\ current \in Starts \cup {NoJob}
    /\ lock \in Starts \cup {NoJob}
    /\ status \in [Starts -> StatusSet]
    /\ fiber \in [Starts -> FiberSet]
    /\ done \in [Starts -> DoneSet]
    /\ start \in [Starts -> StartSet]
    /\ cancel \in [Cancels -> CancelSet]
    /\ reads \in [Cancels \cup Waits -> Starts \cup {NoJob}]
    /\ wait \in [Waits -> WaitSet]
    /\ struck \subseteq Starts

LEMMA JobTypesAreShapes == (JobTypeOK <=> JobShapes) /\ (JobTypeOK' <=> JobShapes')
  BY DEF JobTypeOK, JobShapes, StatusSet, FiberSet, DoneSet, StartSet, CancelSet, WaitSet

LEMMA FinishInv ==
    ASSUME JobInv, NEW j \in Starts, NEW how \in Ends, Finish(j, how), lock = NoJob,
           fiber' \in [Starts -> FiberSet],
           \A k \in Starts : k # j => fiber'[k] = fiber[k],
           fiber[j] \in Ends \cup {"over"}, fiber'[j] = "over",
           cancel' \in [Cancels -> CancelSet],
           \A c \in Cancels : cancel'[c] # cancel[c] => cancel'[c] = "returned" /\ reads[c] = j,
           UNCHANGED <<start, reads, wait>>
    PROVE  JobInv'
  <1>1. JobShapes
    BY JobTypesAreShapes DEF JobInv, JobContract
  <1>2. UNCHANGED <<current, lock, start, reads, wait>>
    BY DEF Finish
  <1>3. CASE Running
    <2>1. /\ current \in Starts
          /\ status[current] = "running"
          /\ status' = [status EXCEPT ![current] = how]
          /\ done' = [done EXCEPT ![current] = how]
          /\ struck' = IF current = j THEN struck ELSE struck \cup {current}
      BY <1>1, <1>3 DEF Running, Finish, JobShapes
    <2>2. /\ \A k \in Starts : status'[k] = IF k = current THEN how ELSE status[k]
          /\ \A k \in Starts : done'[k] = IF k = current THEN how ELSE done[k]
      BY <1>1, <2>1 DEF JobShapes
    <2>3. JobShapes'
      <3>1. how \in StatusSet /\ how \in DoneSet
        BY DEF StatusSet, DoneSet
      <3> QED
        BY <1>1, <1>2, <2>1, <3>1 DEF JobShapes
    <2>4. how \notin {"none", "running", "open"}
      BY DEF Ends
    <2>5. StartsMatch'
      BY <1>1, <1>2, <2>1, <2>2, <2>4, JobAssumption DEF JobInv, StartsMatch, Ends
    <2>6. LockIsHeld'
      BY <1>2 DEF JobInv, LockIsHeld
    <2>7. CancelsMatch'
      BY <1>1, <1>2 DEF JobInv, CancelsMatch, JobShapes, Ends
    <2>8. RunningIsCurrent'
      BY <1>2, <2>2, <2>4 DEF JobInv, JobContract, RunningIsCurrent
    <2>9. MarkedIsOver'
      BY <2>1, <2>2 DEF JobInv, JobContract, MarkedIsOver
    <2>10. RunningEnds'
      BY <2>2, <2>4, <2>8, <1>2 DEF RunningEnds, RunningIsCurrent
    <2>11. OneRunPerId'
      BY <2>1, <1>2 DEF JobInv, JobContract, OneRunPerId, Ends
    <2> QED
      BY <2>3, <2>5, <2>6, <2>7, <2>8, <2>9, <2>10, <2>11, JobTypesAreShapes DEF JobInv, JobContract
  <1>4. CASE ~Running
    <2>1. UNCHANGED <<status, done, struck>>
      BY <1>4 DEF Finish
    <2>2. \A k \in Starts : status[k] # "running"
      BY <1>1, <1>4, JobAssumption DEF JobInv, JobContract, RunningIsCurrent, Running
    <2>3. JobShapes'
      BY <1>1, <1>2, <2>1 DEF JobShapes
    <2>4. StartsMatch'
      BY <1>1, <1>2, <2>1, JobAssumption DEF JobInv, StartsMatch, Ends
    <2>5. LockIsHeld'
      BY <1>2 DEF JobInv, LockIsHeld
    <2>6. CancelsMatch'
      BY <1>1, <1>2 DEF JobInv, CancelsMatch, JobShapes, Ends
    <2>7. RunningIsCurrent' /\ RunningEnds'
      BY <2>1, <2>2 DEF RunningIsCurrent, RunningEnds
    <2>8. MarkedIsOver'
      BY <2>1 DEF JobInv, JobContract, MarkedIsOver
    <2>9. OneRunPerId'
      BY <2>1 DEF JobInv, JobContract, OneRunPerId, Ends
    <2> QED
      BY <2>3, <2>4, <2>5, <2>6, <2>7, <2>8, <2>9, JobTypesAreShapes DEF JobInv, JobContract
  <1> QED
    BY <1>3, <1>4

LEMMA FiberFinishesInv ==
    ASSUME JobInv, NEW j \in Starts, FiberFinishes(j)
    PROVE  JobInv'
  <1>1. JobShapes
    BY JobTypesAreShapes DEF JobInv, JobContract
  <1>2. /\ Finish(j, fiber[j])
        /\ fiber[j] \in Ends
        /\ lock = NoJob
        /\ fiber' = [fiber EXCEPT ![j] = "over"]
        /\ UNCHANGED <<start, cancel, reads, wait>>
    BY DEF FiberFinishes
  <1>3. fiber' \in [Starts -> FiberSet]
    BY <1>1, <1>2 DEF JobShapes, FiberSet
  <1>4. (\A k \in Starts : k # j => fiber'[k] = fiber[k]) /\ fiber'[j] = "over"
    BY <1>1, <1>2 DEF JobShapes
  <1> QED
    BY <1>1, <1>2, <1>3, <1>4, FinishInv DEF JobShapes

LEMMA CancelMarksInv ==
    ASSUME JobInv, NEW c \in Cancels, CancelMarks(c)
    PROVE  JobInv'
  <1>1. JobShapes
    BY JobTypesAreShapes DEF JobInv, JobContract
  <1>2. /\ Finish(reads[c], "cancelled")
        /\ cancel[c] = "marks"
        /\ lock = NoJob
        /\ cancel' = [cancel EXCEPT ![c] = "returned"]
        /\ UNCHANGED <<fiber, start, reads, wait>>
    BY DEF CancelMarks
  <1>3. reads[c] \in Starts /\ fiber[reads[c]] = "over"
    BY <1>2 DEF JobInv, CancelsMatch
  <1>4. cancel' \in [Cancels -> CancelSet]
    BY <1>1, <1>2 DEF JobShapes, CancelSet
  <1>5. \A d \in Cancels : cancel'[d] # cancel[d] => cancel'[d] = "returned" /\ reads[d] = reads[c]
    BY <1>1, <1>2 DEF JobShapes
  <1>6. fiber' \in [Starts -> FiberSet]
    BY <1>1, <1>2 DEF JobShapes
  <1>7. "cancelled" \in Ends
    BY DEF Ends
  <1> QED
    BY <1>2, <1>3, <1>4, <1>5, <1>6, <1>7, FinishInv

LEMMA StartForksInv ==
    ASSUME JobInv, NEW j \in Starts, StartForks(j)
    PROVE  JobInv'
  <1>1. JobShapes
    BY JobTypesAreShapes DEF JobInv, JobContract
  <1>2. /\ start[j] = "new"
        /\ lock = NoJob
        /\ UNCHANGED <<current, status, done, struck, cancel, reads, wait>>
    BY DEF StartForks
  <1>3. fiber[j] = "none" /\ status[j] = "none"
    BY <1>2 DEF JobInv, StartsMatch
  <1>4. CASE Running
    <2>1. start' = [start EXCEPT ![j] = "joined"] /\ UNCHANGED <<fiber, lock>>
      BY <1>4 DEF StartForks
    <2>2. \A k \in Starts : start'[k] = IF k = j THEN "joined" ELSE start[k]
      BY <1>1, <2>1 DEF JobShapes
    <2>3. JobShapes'
      BY <1>1, <1>2, <2>1 DEF JobShapes, StartSet
    <2>4. StartsMatch'
      BY <1>2, <1>3, <2>1, <2>2 DEF JobInv, StartsMatch, Ends
    <2>5. LockIsHeld'
      BY <1>1, <1>2, <2>1, <2>2 DEF JobInv, LockIsHeld, JobShapes, Running
    <2>6. CancelsMatch'
      BY <1>2, <2>1 DEF JobInv, CancelsMatch
    <2>7. RunningIsCurrent' /\ RunningEnds'
      BY <1>2, <2>1 DEF JobInv, JobContract, RunningIsCurrent, RunningEnds
    <2>8. MarkedIsOver' /\ OneRunPerId'
      BY <1>2, <2>1 DEF JobInv, JobContract, MarkedIsOver, OneRunPerId
    <2> QED
      BY <2>3, <2>4, <2>5, <2>6, <2>7, <2>8, JobTypesAreShapes DEF JobInv, JobContract
  <1>5. CASE ~Running
    <2>1. /\ start' = [start EXCEPT ![j] = "forked"]
          /\ fiber' = [fiber EXCEPT ![j] = "run"]
          /\ lock' = j
      BY <1>5 DEF StartForks
    <2>2. \A k \in Starts :
            /\ start'[k] = IF k = j THEN "forked" ELSE start[k]
            /\ fiber'[k] = IF k = j THEN "run" ELSE fiber[k]
      BY <1>1, <2>1 DEF JobShapes
    <2>3. JobShapes'
      BY <1>1, <1>2, <2>1 DEF JobShapes, StartSet, FiberSet
    <2>4. \A k \in Starts : status[k] # "running"
      BY <1>1, <1>5, JobAssumption DEF JobInv, JobContract, RunningIsCurrent, Running
    <2>5. StartsMatch'
      BY <1>2, <1>3, <2>1, <2>2, JobAssumption DEF JobInv, StartsMatch, Ends
    <2>6. LockIsHeld'
      BY <1>1, <1>2, <1>5, <2>1, <2>2 DEF JobInv, LockIsHeld, JobShapes, Running
    <2>7. CancelsMatch'
      BY <1>2, <1>3, <2>2 DEF JobInv, JobContract, CancelsMatch
    <2>8. RunningIsCurrent' /\ RunningEnds'
      BY <1>2, <2>4 DEF RunningIsCurrent, RunningEnds
    <2>9. MarkedIsOver'
      BY <1>2, <1>3, <2>2 DEF JobInv, JobContract, MarkedIsOver, Ends
    <2>10. \A k \in Starts : fiber[k] = "run" => k \in struck
      <3> SUFFICES ASSUME NEW k \in Starts, fiber[k] = "run" PROVE k \in struck
        OBVIOUS
      <3>1. start[k] \in StartSet /\ status[k] \in StatusSet
        BY <1>1 DEF JobShapes
      <3>2. start[k] = "started"
        BY <1>2, <3>1, JobAssumption DEF JobInv, StartsMatch, StartSet
      <3>3. status[k] \in Ends
        BY <2>4, <3>1, <3>2 DEF JobInv, StartsMatch, StatusSet
      <3> QED
        BY <3>3 DEF JobInv, JobContract, MarkedIsOver
    <2>11. OneRunPerId'
      BY <1>2, <2>2, <2>10 DEF OneRunPerId
    <2> QED
      BY <2>3, <2>5, <2>6, <2>7, <2>8, <2>9, <2>11, JobTypesAreShapes DEF JobInv, JobContract
  <1> QED
    BY <1>4, <1>5

LEMMA StartStoresInv ==
    ASSUME JobInv, NEW j \in Starts, StartStores(j)
    PROVE  JobInv'
  <1>1. JobShapes
    BY JobTypesAreShapes DEF JobInv, JobContract
  <1>2. /\ lock = j
        /\ lock' = NoJob
        /\ current' = j
        /\ status' = [status EXCEPT ![j] = "running"]
        /\ start' = [start EXCEPT ![j] = "started"]
        /\ UNCHANGED <<fiber, done, struck, cancel, reads, wait>>
    BY DEF StartStores
  <1>3. \A k \in Starts :
          /\ status'[k] = IF k = j THEN "running" ELSE status[k]
          /\ start'[k] = IF k = j THEN "started" ELSE start[k]
    BY <1>1, <1>2 DEF JobShapes
  <1>4. start[j] = "forked" /\ status[j] = "none" /\ fiber[j] # "none"
    <2>1. start[j] = "forked"
      BY <1>2 DEF JobInv, StartsMatch
    <2> QED
      BY <2>1 DEF JobInv, StartsMatch
  <1>5. \A k \in Starts : status[k] # "running"
    BY <1>1, <1>2, JobAssumption DEF JobInv, JobContract, LockIsHeld, RunningIsCurrent, Running
  <1>6. JobShapes'
    BY <1>1, <1>2 DEF JobShapes, StatusSet, StartSet
  <1>7. StartsMatch'
    <2> SUFFICES ASSUME NEW k \in Starts
                 PROVE  /\ start'[k] \in {"new", "joined"} <=> fiber[k] = "none"
                        /\ start'[k] = "started" <=> status'[k] # "none"
                        /\ start'[k] = "forked" <=> lock' = k
                        /\ start'[k] = "forked" => fiber[k] # "over"
                        /\ status'[k] \in {"none", "running"} => done[k] = "open"
                        /\ k \in struck => status'[k] \in Ends
      BY <1>2 DEF StartsMatch
    <2>1. k \notin struck \/ k # j
      BY <1>4 DEF JobInv, StartsMatch, Ends
    <2> QED
      BY <1>2, <1>3, <1>4, <2>1, JobAssumption DEF JobInv, StartsMatch
  <1>8. LockIsHeld'
    BY <1>2, <1>3 DEF LockIsHeld
  <1>9. CancelsMatch'
    BY <1>2, <1>3 DEF JobInv, CancelsMatch
  <1>10. RunningIsCurrent'
    BY <1>2, <1>3, <1>5 DEF RunningIsCurrent
  <1>11. RunningEnds'
    <2>1. fiber[j] # "over"
      BY <1>4 DEF JobInv, StartsMatch
    <2> QED
      BY <1>2, <1>3, <1>5, <2>1 DEF RunningEnds
  <1>12. MarkedIsOver' /\ OneRunPerId'
    BY <1>2, <1>3 DEF JobInv, JobContract, MarkedIsOver, OneRunPerId, Ends
  <1> QED
    BY <1>6, <1>7, <1>8, <1>9, <1>10, <1>11, <1>12, JobTypesAreShapes DEF JobInv, JobContract

LEMMA RunEndsInv ==
    ASSUME JobInv, NEW j \in Starts, NEW how \in {"completed", "error"}, RunEnds(j, how)
    PROVE  JobInv'
  <1>1. JobShapes
    BY JobTypesAreShapes DEF JobInv, JobContract
  <1>2. /\ fiber[j] = "run"
        /\ fiber' = [fiber EXCEPT ![j] = how]
        /\ UNCHANGED <<current, lock, status, done, struck, start, cancel, reads, wait>>
    BY DEF RunEnds
  <1>3. how \in FiberSet /\ how \notin {"none", "run", "over"}
    BY DEF FiberSet, Ends
  <1>4. \A k \in Starts : fiber'[k] = IF k = j THEN how ELSE fiber[k]
    BY <1>1, <1>2 DEF JobShapes
  <1>5. JobShapes'
    BY <1>1, <1>2, <1>3 DEF JobShapes
  <1>6. StartsMatch'
    BY <1>2, <1>3, <1>4 DEF JobInv, StartsMatch
  <1>7. LockIsHeld' /\ RunningIsCurrent'
    BY <1>2 DEF JobInv, JobContract, LockIsHeld, RunningIsCurrent, Running
  <1>8. CancelsMatch'
    BY <1>2, <1>3, <1>4 DEF JobInv, CancelsMatch
  <1>9. RunningEnds'
    BY <1>2, <1>3, <1>4 DEF JobInv, JobContract, RunningEnds
  <1>10. MarkedIsOver' /\ OneRunPerId'
    BY <1>2, <1>3, <1>4 DEF JobInv, JobContract, MarkedIsOver, OneRunPerId
  <1> QED
    BY <1>5, <1>6, <1>7, <1>8, <1>9, <1>10, JobTypesAreShapes DEF JobInv, JobContract

LEMMA CancelReadsInv ==
    ASSUME JobInv, NEW c \in Cancels, CancelReads(c)
    PROVE  JobInv'
  <1>1. JobShapes
    BY JobTypesAreShapes DEF JobInv, JobContract
  <1>2. /\ cancel[c] = "new"
        /\ current \in Starts
        /\ reads' = [reads EXCEPT ![c] = current]
        /\ UNCHANGED <<current, lock, status, done, struck, start, wait>>
    BY <1>1 DEF CancelReads, JobShapes
  <1>3. \A d \in Cancels : reads'[d] = IF d = c THEN current ELSE reads[d]
    BY <1>1, <1>2 DEF JobShapes
  <1>4. start[current] = "started"
    BY <1>2, JobAssumption DEF JobInv, LockIsHeld
  <1>5. CASE Running
    <2>1. PICK f \in Interrupted(current) :
            cancel' = [cancel EXCEPT ![c] = "awaits"] /\ fiber' = [fiber EXCEPT ![current] = f]
      BY <1>5 DEF CancelReads
    <2>2. fiber[current] \in FiberSet /\ fiber[current] # "none"
      BY <1>1, <1>2, <1>4 DEF JobInv, StartsMatch, JobShapes
    <2>3. /\ f \in FiberSet /\ f \notin {"run", "none"}
          /\ f = "over" \/ fiber[current] # "over"
      BY <2>1, <2>2 DEF Interrupted, FiberSet, Ends
    <2>4. \A k \in Starts : fiber'[k] = IF k = current THEN f ELSE fiber[k]
      BY <1>1, <2>1 DEF JobShapes
    <2>5. \A d \in Cancels : cancel'[d] = IF d = c THEN "awaits" ELSE cancel[d]
      BY <1>1, <2>1 DEF JobShapes
    <2>6. JobShapes'
      BY <1>1, <1>2, <2>1, <2>3 DEF JobShapes, CancelSet
    <2>7. StartsMatch'
      BY <1>2, <1>4, <2>2, <2>3, <2>4 DEF JobInv, StartsMatch
    <2>8. LockIsHeld' /\ RunningIsCurrent'
      BY <1>2 DEF JobInv, JobContract, LockIsHeld, RunningIsCurrent, Running
    <2>9. CancelsMatch'
      <3>1. \A d \in Cancels : cancel[d] = "marks" /\ reads[d] = current => f = "over"
        BY <2>3 DEF JobInv, CancelsMatch
      <3> QED
        BY <1>2, <1>3, <1>4, <2>3, <2>4, <2>5, <3>1 DEF JobInv, CancelsMatch
    <2>10. RunningEnds'
      <3> SUFFICES ASSUME NEW k \in Starts, status[k] = "running"
                   PROVE  \E d \in Cancels : cancel'[d] \in {"awaits", "marks"} /\ reads'[d] = k
        BY <1>2 DEF RunningEnds
      <3>1. k = current
        BY DEF JobInv, JobContract, RunningIsCurrent
      <3> QED
        BY <1>3, <2>5, <3>1
    <2>11. MarkedIsOver'
      BY <1>2, <1>5, <2>4 DEF JobInv, JobContract, MarkedIsOver, Running, Ends
    <2>12. OneRunPerId'
      BY <1>2, <2>3, <2>4 DEF JobInv, JobContract, OneRunPerId
    <2> QED
      BY <2>6, <2>7, <2>8, <2>9, <2>10, <2>11, <2>12, JobTypesAreShapes DEF JobInv, JobContract
  <1>6. CASE ~Running
    <2>1. cancel' = [cancel EXCEPT ![c] = "returned"] /\ UNCHANGED fiber
      BY <1>6 DEF CancelReads
    <2>2. \A d \in Cancels : cancel'[d] = IF d = c THEN "returned" ELSE cancel[d]
      BY <1>1, <2>1 DEF JobShapes
    <2>3. JobShapes'
      BY <1>1, <1>2, <2>1 DEF JobShapes, CancelSet
    <2>4. StartsMatch' /\ LockIsHeld' /\ RunningIsCurrent'
      BY <1>2, <2>1 DEF JobInv, JobContract, StartsMatch, LockIsHeld, RunningIsCurrent, Running
    <2>5. CancelsMatch'
      BY <1>2, <1>3, <2>1, <2>2 DEF JobInv, CancelsMatch
    <2>6. RunningEnds'
      BY <1>1, <1>2, <1>6, <2>1, JobAssumption
      DEF JobInv, JobContract, RunningEnds, RunningIsCurrent, Running
    <2>7. MarkedIsOver' /\ OneRunPerId'
      BY <1>2, <2>1 DEF JobInv, JobContract, MarkedIsOver, OneRunPerId
    <2> QED
      BY <2>3, <2>4, <2>5, <2>6, <2>7, JobTypesAreShapes DEF JobInv, JobContract
  <1> QED
    BY <1>5, <1>6

LEMMA CancelAwaitsInv ==
    ASSUME JobInv, NEW c \in Cancels, CancelAwaits(c)
    PROVE  JobInv'
  <1>1. JobShapes
    BY JobTypesAreShapes DEF JobInv, JobContract
  <1>2. /\ cancel[c] = "awaits"
        /\ fiber[reads[c]] = "over"
        /\ cancel' = [cancel EXCEPT ![c] = "marks"]
        /\ UNCHANGED <<current, lock, status, fiber, done, struck, start, reads, wait>>
    BY DEF CancelAwaits, jobState
  <1>3. \A d \in Cancels : cancel'[d] = IF d = c THEN "marks" ELSE cancel[d]
    BY <1>1, <1>2 DEF JobShapes
  <1>4. JobShapes'
    BY <1>1, <1>2 DEF JobShapes, CancelSet
  <1>5. StartsMatch' /\ LockIsHeld' /\ RunningIsCurrent'
    BY <1>2 DEF JobInv, JobContract, StartsMatch, LockIsHeld, RunningIsCurrent, Running
  <1>6. CancelsMatch'
    BY <1>2, <1>3 DEF JobInv, CancelsMatch
  <1>7. RunningEnds'
    BY <1>2, <1>3 DEF JobInv, JobContract, RunningEnds
  <1>8. MarkedIsOver' /\ OneRunPerId'
    BY <1>2 DEF JobInv, JobContract, MarkedIsOver, OneRunPerId
  <1> QED
    BY <1>4, <1>5, <1>6, <1>7, <1>8, JobTypesAreShapes DEF JobInv, JobContract

LEMMA WaitInv ==
    ASSUME JobInv, NEW w \in Waits, WaitReads(w) \/ WaitIsTold(w) \/ WaitTimesOut(w)
    PROVE  JobInv'
  <1>1. JobShapes
    BY JobTypesAreShapes DEF JobInv, JobContract
  <1>2. UNCHANGED <<current, lock, status, fiber, done, struck, start, cancel>>
    BY DEF WaitReads, WaitIsTold, WaitTimesOut, jobState
  <1>3. reads' = reads \/ (reads' = [reads EXCEPT ![w] = current])
    BY DEF WaitReads, WaitIsTold, WaitTimesOut
  <1>4. \A d \in Cancels : reads'[d] = reads[d]
    BY <1>1, <1>3, JobAssumption DEF JobShapes
  <1>5. wait' \in [Waits -> WaitSet]
    BY <1>1 DEF WaitReads, WaitIsTold, WaitTimesOut, JobShapes, WaitSet
  <1>6. JobShapes'
    BY <1>1, <1>2, <1>3, <1>5 DEF JobShapes
  <1>7. StartsMatch' /\ LockIsHeld' /\ RunningIsCurrent'
    BY <1>2 DEF JobInv, JobContract, StartsMatch, LockIsHeld, RunningIsCurrent, Running
  <1>8. CancelsMatch' /\ RunningEnds'
    BY <1>2, <1>4 DEF JobInv, JobContract, CancelsMatch, RunningEnds
  <1>9. MarkedIsOver' /\ OneRunPerId'
    BY <1>2 DEF JobInv, JobContract, MarkedIsOver, OneRunPerId
  <1> QED
    BY <1>6, <1>7, <1>8, <1>9, JobTypesAreShapes DEF JobInv, JobContract

-----------------------------------------------------------------------------
LEMMA JobInitInv == JobInit => JobInv
  <1> SUFFICES ASSUME JobInit PROVE JobInv
    OBVIOUS
  <1>1. JobTypeOK
    BY DEF JobInit, JobTypeOK
  <1>2. StartsMatch /\ LockIsHeld /\ CancelsMatch
    BY JobAssumption DEF JobInit, StartsMatch, LockIsHeld, CancelsMatch, Running
  <1>3. OneRunPerId /\ RunningEnds /\ MarkedIsOver /\ RunningIsCurrent
    BY DEF JobInit, OneRunPerId, RunningEnds, MarkedIsOver, RunningIsCurrent, Ends
  <1> QED
    BY <1>1, <1>2, <1>3 DEF JobInv, JobContract

LEMMA JobStepInv == JobInv /\ [JobNext]_jobVars => JobInv'
  <1> SUFFICES ASSUME JobInv, [JobNext]_jobVars PROVE JobInv'
    OBVIOUS
  <1>1. CASE UNCHANGED jobVars
    <2>1. JobTypeOK'
      BY <1>1 DEF jobVars, jobState, JobInv, JobContract, JobTypeOK
    <2>2. StartsMatch' /\ LockIsHeld' /\ CancelsMatch'
      BY <1>1 DEF jobVars, jobState, JobInv, StartsMatch, LockIsHeld, CancelsMatch, Running
    <2>3. OneRunPerId' /\ RunningEnds' /\ MarkedIsOver' /\ RunningIsCurrent'
      BY <1>1 DEF jobVars, jobState, JobInv, JobContract, OneRunPerId, RunningEnds, MarkedIsOver,
                  RunningIsCurrent
    <2> QED
      BY <2>1, <2>2, <2>3 DEF JobInv, JobContract
  <1>2. CASE JobNext
    BY <1>2, StartForksInv, StartStoresInv, RunEndsInv, FiberFinishesInv, CancelReadsInv,
       CancelAwaitsInv, CancelMarksInv, WaitInv
    DEF JobNext
  <1> QED
    BY <1>1, <1>2

\* The inductive invariant: starts, the lock and cancels fit the jobs.
THEOREM JobInvHolds == JobSpec => []JobInv
  BY JobInitInv, JobStepInv, PTL DEF JobSpec

\* One job runs at a time under an id, who waits for it is told, and what its
\* record says is what its fiber did - but for jobs that were marked through the
\* id by what belonged to another.
THEOREM JobIsKept == JobSpec => []JobContract
  <1>1. JobInv => JobContract
    BY DEF JobInv
  <1> QED
    BY JobInvHolds, <1>1, PTL

-----------------------------------------------------------------------------
(* LspClients: any number of calls share one client, and a process that     *)
(* runs has somebody who stops it.                                          *)

\* One spawn is under way, the one that is kept for other calls to find.
OneSpawn == \A l \in Lookups : ~SpawnOver(l) => spawning = l

\* How far a call and its spawn are tells what there is of its process.
SpawnsMatch == \A l \in Lookups :
    /\ lookup[l] \in {"new", "root"} => spawn[l] = "none"
    /\ spawn[l] \in {"none", "spawns"} => process[l] = "none"
    /\ spawn[l] = "creates" => process[l] = "runs"
    /\ l \in clients => spawn[l] = "over"

\* There is one client at most, and its process runs until the disposal.
OneClient ==
    /\ \A l, m \in clients : l = m
    /\ \A l \in clients : process[l] = "runs" \/ disposed

\* What can still start a process after the disposal was under way then.
LateAreKnown ==
    disposed => \A l \in Lookups : ~SpawnOver(l) \/ lookup[l] = "root" => l \in late

\* No server is started while there is a client.
NoneBesideClient == \A l \in Lookups : ~SpawnOver(l) => clients = {}

LspInv ==
    /\ LspTypeOK
    /\ OneSpawn /\ SpawnsMatch /\ OneClient /\ NoneBesideClient /\ LateAreKnown
    /\ NoLostServer /\ DisposedIsStopped /\ SameClient

-----------------------------------------------------------------------------
\* The proofs of the steps look at functions, and at single values where they
\* matter; the sets of all values stay folded.
LookupSet  == {"new", "root", "spawn", "returned"}
SpawnSet   == {"none", "spawns", "creates", "stops", "over"}
ProcessSet == {"none", "runs", "stopped"}

LspShapes ==
    /\ lookup \in [Lookups -> LookupSet]
    /\ client \in [Lookups -> Lookups \cup {NoLookup}]
    /\ awaited \in [Lookups -> Lookups \cup {NoLookup}]
    /\ broken \in BOOLEAN
    /\ clients \subseteq Lookups
    /\ spawning \in Lookups \cup {NoLookup}
    /\ spawn \in [Lookups -> SpawnSet]
    /\ process \in [Lookups -> ProcessSet]
    /\ disposed \in BOOLEAN
    /\ late \subseteq Lookups

SpawnIsKept == spawning # NoLookup => ~SpawnOver(spawning)

LEMMA LspTypesAreShapes == (LspTypeOK <=> LspShapes /\ SpawnIsKept) /\ (LspTypeOK' <=> LspShapes' /\ SpawnIsKept')
  BY DEF LspTypeOK, LspShapes, SpawnIsKept, LookupSet, SpawnSet, ProcessSet

LEMMA ReturnsInv ==
    ASSUME LspInv, NEW l \in Lookups, NEW c \in clients \cup {NoLookup}, Returns(l, c),
           UNCHANGED <<awaited, broken, clients, spawning, spawn, process, disposed, late>>
    PROVE  LspInv'
  <1>1. LspShapes /\ SpawnIsKept
    BY LspTypesAreShapes DEF LspInv
  <1>2. lookup' = [lookup EXCEPT ![l] = "returned"] /\ client' = [client EXCEPT ![l] = c]
    BY DEF Returns
  <1>3. \A m \in Lookups :
          /\ lookup'[m] = IF m = l THEN "returned" ELSE lookup[m]
          /\ client'[m] = IF m = l THEN c ELSE client[m]
    BY <1>1, <1>2 DEF LspShapes
  <1>4. LspShapes' /\ SpawnIsKept'
    BY <1>1, <1>2 DEF LspShapes, SpawnIsKept, SpawnOver, LookupSet
  <1>5. SpawnsMatch' /\ LateAreKnown'
    BY <1>3 DEF LspInv, SpawnsMatch, LateAreKnown, SpawnOver
  <1>6. SameClient'
    BY <1>3 DEF LspInv, SameClient, OneClient
  <1>7. OneSpawn' /\ OneClient' /\ NoneBesideClient' /\ NoLostServer' /\ DisposedIsStopped'
    BY DEF LspInv, OneSpawn, OneClient, NoneBesideClient, NoLostServer, DisposedIsStopped, SpawnOver
  <1> QED
    BY <1>4, <1>5, <1>6, <1>7, LspTypesAreShapes DEF LspInv

LEMMA LookupBeginsInv ==
    ASSUME LspInv, NEW l \in Lookups, LookupBegins(l)
    PROVE  LspInv'
  <1>1. LspShapes /\ SpawnIsKept
    BY LspTypesAreShapes DEF LspInv
  <1>2. /\ lookup[l] = "new"
        /\ ~disposed
        /\ lookup' = [lookup EXCEPT ![l] = "root"]
        /\ UNCHANGED <<client, awaited, broken, clients, spawning, spawn, process, disposed, late>>
    BY DEF LookupBegins
  <1>3. \A m \in Lookups : lookup'[m] = IF m = l THEN "root" ELSE lookup[m]
    BY <1>1, <1>2 DEF LspShapes
  <1>4. LspShapes' /\ SpawnIsKept'
    BY <1>1, <1>2 DEF LspShapes, SpawnIsKept, SpawnOver, LookupSet
  <1>5. SpawnsMatch'
    BY <1>2, <1>3 DEF LspInv, SpawnsMatch
  <1>6. LateAreKnown' /\ DisposedIsStopped'
    BY <1>2 DEF LateAreKnown, DisposedIsStopped
  <1>7. OneSpawn' /\ OneClient' /\ NoneBesideClient' /\ NoLostServer' /\ SameClient'
    BY <1>2 DEF LspInv, OneSpawn, OneClient, NoneBesideClient, NoLostServer, SameClient, SpawnOver
  <1> QED
    BY <1>4, <1>5, <1>6, <1>7, LspTypesAreShapes DEF LspInv

LEMMA LookupFindsInv ==
    ASSUME LspInv, NEW l \in Lookups, LookupFinds(l)
    PROVE  LspInv'
  <1>1. LspShapes /\ SpawnIsKept
    BY LspTypesAreShapes DEF LspInv
  <1>2. lookup[l] = "root" /\ UNCHANGED <<broken, clients, process, disposed, late>>
    BY DEF LookupFinds
  <1>3. spawn[l] = "none" /\ process[l] = "none"
    BY <1>2 DEF LspInv, SpawnsMatch
  <1>4. CASE \E c \in clients \cup {NoLookup} :
               Returns(l, c) /\ UNCHANGED <<awaited, spawning, spawn>>
    BY <1>1, <1>2, <1>4, ReturnsInv DEF LookupFinds
  <1>5. CASE /\ clients = {}
             /\ lookup' = [lookup EXCEPT ![l] = "spawn"]
             /\ awaited' = [awaited EXCEPT ![l] = spawning']
             /\ UNCHANGED client
             /\ \/ spawning # NoLookup /\ UNCHANGED <<spawning, spawn>>
                \/ /\ spawning = NoLookup
                   /\ spawning' = l
                   /\ spawn' = [spawn EXCEPT ![l] = "spawns"]
    <2>1. \A m \in Lookups : lookup'[m] = IF m = l THEN "spawn" ELSE lookup[m]
      BY <1>1, <1>5 DEF LspShapes
    <2>2. \/ UNCHANGED <<spawning, spawn>>
          \/ /\ spawning = NoLookup
             /\ spawning' = l
             /\ \A m \in Lookups : spawn'[m] = IF m = l THEN "spawns" ELSE spawn[m]
      BY <1>1, <1>5 DEF LspShapes
    <2>3. LspShapes'
      BY <1>1, <1>2, <1>5 DEF LspShapes, LookupSet, SpawnSet
    <2>4. SpawnIsKept'
      BY <1>1, <2>2 DEF SpawnIsKept, SpawnOver
    <2>5. OneSpawn'
      BY <2>2, LspAssumption DEF LspInv, OneSpawn, SpawnOver
    <2>6. SpawnsMatch'
      BY <1>2, <1>3, <2>1, <2>2 DEF LspInv, SpawnsMatch
    <2>7. LateAreKnown'
      BY <1>2, <2>1, <2>2 DEF LspInv, LateAreKnown, SpawnOver
    <2>8. NoLostServer'
      BY <1>2, <2>2 DEF LspInv, NoLostServer, SpawnOver
    <2>9. NoneBesideClient'
      BY <1>2, <1>5 DEF NoneBesideClient
    <2>10. OneClient' /\ DisposedIsStopped' /\ SameClient'
      BY <1>2, <1>5 DEF LspInv, OneClient, DisposedIsStopped, SameClient
    <2> QED
      BY <2>3, <2>4, <2>5, <2>6, <2>7, <2>8, <2>9, <2>10, LspTypesAreShapes DEF LspInv
  <1> QED
    BY <1>4, <1>5 DEF LookupFinds

LEMMA AwaitedReturnsInv ==
    ASSUME LspInv, NEW l \in Lookups, AwaitedReturns(l)
    PROVE  LspInv'
  <1>1. LspShapes /\ SpawnIsKept
    BY LspTypesAreShapes DEF LspInv
  <1> QED
    BY ReturnsInv DEF AwaitedReturns

LEMMA SpawnSucceedsInv ==
    ASSUME LspInv, NEW l \in Lookups, SpawnSucceeds(l)
    PROVE  LspInv'
  <1>1. LspShapes /\ SpawnIsKept
    BY LspTypesAreShapes DEF LspInv
  <1>2. /\ spawn[l] = "spawns"
        /\ spawn' = [spawn EXCEPT ![l] = "creates"]
        /\ process' = [process EXCEPT ![l] = "runs"]
        /\ UNCHANGED <<lookup, client, awaited, broken, clients, spawning, disposed, late>>
    BY DEF SpawnSucceeds
  <1>3. \A m \in Lookups :
          /\ spawn'[m] = IF m = l THEN "creates" ELSE spawn[m]
          /\ process'[m] = IF m = l THEN "runs" ELSE process[m]
    BY <1>1, <1>2 DEF LspShapes
  <1>4. clients = {}
    BY <1>2 DEF LspInv, NoneBesideClient, SpawnOver
  <1>5. LspShapes'
    BY <1>1, <1>2 DEF LspShapes, SpawnSet, ProcessSet
  <1>6. SpawnIsKept' /\ OneSpawn' /\ LateAreKnown' /\ NoLostServer'
    BY <1>1, <1>2, <1>3
       DEF LspInv, SpawnIsKept, OneSpawn, LateAreKnown, NoLostServer, SpawnOver, LspShapes
  <1>7. SpawnsMatch'
    BY <1>2, <1>3 DEF LspInv, SpawnsMatch
  <1>8. DisposedIsStopped'
    BY <1>2, <1>3 DEF LspInv, DisposedIsStopped, LateAreKnown, SpawnOver
  <1>9. OneClient' /\ NoneBesideClient' /\ SameClient'
    BY <1>2, <1>4 DEF LspInv, OneClient, NoneBesideClient, SameClient
  <1> QED
    BY <1>5, <1>6, <1>7, <1>8, <1>9, LspTypesAreShapes DEF LspInv

LEMMA SpawnSettlesInv ==
    ASSUME LspInv, NEW l \in Lookups, SpawnSettles(l), NEW p \in ProcessSet,
           spawn[l] \in {"spawns", "stops"}, p # "runs",
           process' = [process EXCEPT ![l] = p], broken' \in BOOLEAN,
           UNCHANGED <<lookup, client, awaited, clients, disposed, late>>
    PROVE  LspInv'
  <1>1. LspShapes /\ SpawnIsKept
    BY LspTypesAreShapes DEF LspInv
  <1>2. /\ spawn' = [spawn EXCEPT ![l] = "over"]
        /\ spawning' = IF spawning = l THEN NoLookup ELSE spawning
    BY DEF SpawnSettles
  <1>3. \A m \in Lookups :
          /\ spawn'[m] = IF m = l THEN "over" ELSE spawn[m]
          /\ process'[m] = IF m = l THEN p ELSE process[m]
    BY <1>1, <1>2 DEF LspShapes
  <1>4. clients = {}
    BY DEF LspInv, NoneBesideClient, SpawnOver
  <1>5. LspShapes'
    BY <1>1, <1>2 DEF LspShapes, SpawnSet
  <1>6. SpawnIsKept' /\ OneSpawn'
    BY <1>1, <1>2, <1>3 DEF LspInv, SpawnIsKept, OneSpawn, SpawnOver, LspShapes
  <1>7. LateAreKnown' /\ NoLostServer' /\ DisposedIsStopped'
    BY <1>2, <1>3 DEF LspInv, LateAreKnown, NoLostServer, DisposedIsStopped, SpawnOver
  <1>8. SpawnsMatch'
    BY <1>2, <1>3 DEF LspInv, SpawnsMatch
  <1>9. OneClient' /\ NoneBesideClient' /\ SameClient'
    BY <1>2, <1>4 DEF LspInv, OneClient, NoneBesideClient, SameClient
  <1> QED
    BY <1>5, <1>6, <1>7, <1>8, <1>9, LspTypesAreShapes DEF LspInv

LEMMA SpawnFailsInv ==
    ASSUME LspInv, NEW l \in Lookups, SpawnFails(l)
    PROVE  LspInv'
  <1>1. LspShapes /\ SpawnIsKept
    BY LspTypesAreShapes DEF LspInv
  <1>2. process' = [process EXCEPT ![l] = process[l]] /\ process[l] = "none"
    BY <1>1 DEF SpawnFails, LspShapes, LspInv, SpawnsMatch
  <1> QED
    BY <1>2, SpawnSettlesInv DEF SpawnFails, ProcessSet

LEMMA ProcessStopsInv ==
    ASSUME LspInv, NEW l \in Lookups, ProcessStops(l)
    PROVE  LspInv'
  <1>1. LspShapes /\ SpawnIsKept
    BY LspTypesAreShapes DEF LspInv
  <1> QED
    BY <1>1, SpawnSettlesInv DEF ProcessStops, ProcessSet, LspShapes

LEMMA CreateFailsInv ==
    ASSUME LspInv, NEW l \in Lookups, CreateFails(l)
    PROVE  LspInv'
  <1>1. LspShapes /\ SpawnIsKept
    BY LspTypesAreShapes DEF LspInv
  <1>2. /\ spawn[l] = "creates"
        /\ spawn' = [spawn EXCEPT ![l] = "stops"]
        /\ broken' = TRUE
        /\ UNCHANGED <<lookup, client, awaited, clients, spawning, process, disposed, late>>
    BY DEF CreateFails
  <1>3. \A m \in Lookups : spawn'[m] = IF m = l THEN "stops" ELSE spawn[m]
    BY <1>1, <1>2 DEF LspShapes
  <1>4. LspShapes'
    BY <1>1, <1>2 DEF LspShapes, SpawnSet
  <1>5. SpawnIsKept' /\ OneSpawn' /\ NoneBesideClient' /\ LateAreKnown' /\ NoLostServer'
    BY <1>1, <1>2, <1>3
       DEF LspInv, SpawnIsKept, OneSpawn, NoneBesideClient, LateAreKnown, NoLostServer, SpawnOver,
           LspShapes
  <1>6. SpawnsMatch'
    BY <1>2, <1>3 DEF LspInv, SpawnsMatch
  <1>7. OneClient' /\ DisposedIsStopped' /\ SameClient'
    BY <1>2 DEF LspInv, OneClient, DisposedIsStopped, SameClient
  <1> QED
    BY <1>4, <1>5, <1>6, <1>7, LspTypesAreShapes DEF LspInv

LEMMA CreateSucceedsInv ==
    ASSUME LspInv, NEW l \in Lookups, CreateSucceeds(l)
    PROVE  LspInv'
  <1>1. LspShapes /\ SpawnIsKept
    BY LspTypesAreShapes DEF LspInv
  <1>2. /\ spawn[l] = "creates"
        /\ clients = {}
        /\ clients' = {l}
        /\ spawn' = [spawn EXCEPT ![l] = "over"]
        /\ spawning' = IF spawning = l THEN NoLookup ELSE spawning
        /\ UNCHANGED <<lookup, client, awaited, broken, process, disposed, late>>
    BY DEF CreateSucceeds, SpawnSettles
  <1>3. \A m \in Lookups : spawn'[m] = IF m = l THEN "over" ELSE spawn[m]
    BY <1>1, <1>2 DEF LspShapes
  <1>4. \A m \in Lookups : m # l => SpawnOver(m)
    BY <1>2 DEF LspInv, OneSpawn, SpawnOver
  <1>6. LspShapes'
    BY <1>1, <1>2 DEF LspShapes, SpawnSet
  <1>7. SpawnIsKept' /\ OneSpawn' /\ NoneBesideClient' /\ LateAreKnown' /\ NoLostServer'
    BY <1>1, <1>2, <1>3, <1>4
       DEF LspInv, SpawnIsKept, OneSpawn, NoneBesideClient, LateAreKnown, NoLostServer, SpawnOver,
           LspShapes
  <1>8. SpawnsMatch'
    BY <1>2, <1>3 DEF LspInv, SpawnsMatch
  <1>9. OneClient'
    BY <1>2 DEF LspInv, OneClient, SpawnsMatch
  <1>10. DisposedIsStopped' /\ SameClient'
    BY <1>1, <1>2 DEF LspInv, DisposedIsStopped, SameClient, LspShapes
  <1> QED
    BY <1>6, <1>7, <1>8, <1>9, <1>10, LspTypesAreShapes DEF LspInv

LEMMA DisposeLspInv ==
    ASSUME LspInv, DisposeLsp
    PROVE  LspInv'
  <1>1. LspShapes /\ SpawnIsKept
    BY LspTypesAreShapes DEF LspInv
  <1>2. /\ disposed' = TRUE
        /\ late' = {l \in Lookups : ~SpawnOver(l) \/ lookup[l] = "root"}
        /\ process' = [l \in Lookups |-> IF l \in clients THEN "stopped" ELSE process[l]]
        /\ UNCHANGED <<lookup, client, awaited, broken, clients, spawning, spawn>>
    BY DEF DisposeLsp
  <1>3. LspShapes' /\ SpawnIsKept'
    BY <1>1, <1>2 DEF LspShapes, SpawnIsKept, SpawnOver, ProcessSet
  <1>4. SpawnsMatch'
    BY <1>2 DEF LspInv, SpawnsMatch, SpawnOver
  <1>5. OneSpawn' /\ OneClient' /\ NoneBesideClient' /\ SameClient'
    BY <1>1, <1>2
       DEF LspInv, OneSpawn, OneClient, NoneBesideClient, SameClient, SpawnOver, LspShapes
  <1>6. LateAreKnown' /\ NoLostServer' /\ DisposedIsStopped'
    BY <1>1, <1>2 DEF LspInv, LateAreKnown, NoLostServer, DisposedIsStopped, SpawnOver, LspShapes
  <1> QED
    BY <1>3, <1>4, <1>5, <1>6, LspTypesAreShapes DEF LspInv

-----------------------------------------------------------------------------
LEMMA LspInitInv == LspInit => LspInv
  <1> SUFFICES ASSUME LspInit PROVE LspInv
    OBVIOUS
  <1>1. LspTypeOK
    BY DEF LspInit, LspTypeOK
  <1>2. OneSpawn /\ SpawnsMatch /\ OneClient /\ NoneBesideClient /\ LateAreKnown
    BY DEF LspInit, OneSpawn, SpawnsMatch, OneClient, NoneBesideClient, LateAreKnown, SpawnOver
  <1>3. NoLostServer /\ DisposedIsStopped /\ SameClient
    BY DEF LspInit, NoLostServer, DisposedIsStopped, SameClient
  <1> QED
    BY <1>1, <1>2, <1>3 DEF LspInv

LEMMA LspStepInv == LspInv /\ [LspNext]_lspVars => LspInv'
  <1> SUFFICES ASSUME LspInv, [LspNext]_lspVars PROVE LspInv'
    OBVIOUS
  <1>1. CASE UNCHANGED lspVars
    <2>1. LspTypeOK'
      BY <1>1 DEF lspVars, LspInv, LspTypeOK, SpawnOver
    <2>2. /\ OneSpawn' /\ SpawnsMatch' /\ OneClient' /\ NoneBesideClient' /\ LateAreKnown'
          /\ NoLostServer' /\ DisposedIsStopped' /\ SameClient'
      BY <1>1 DEF lspVars, LspInv, OneSpawn, SpawnsMatch, OneClient, NoneBesideClient, LateAreKnown,
                  NoLostServer, DisposedIsStopped, SameClient, SpawnOver
    <2> QED
      BY <2>1, <2>2 DEF LspInv
  <1>2. CASE LspNext
    BY <1>2, LookupBeginsInv, LookupFindsInv, AwaitedReturnsInv, SpawnSucceedsInv, SpawnFailsInv,
       CreateFailsInv, CreateSucceedsInv, ProcessStopsInv, DisposeLspInv
    DEF LspNext
  <1> QED
    BY <1>1, <1>2

\* The inductive invariant: one spawn at a time, found by every call, and one client.
THEOREM LspInvHolds == LspSpec => []LspInv
  BY LspInitInv, LspStepInv, PTL DEF LspSpec

\* However many calls need a server, and whenever the instance is disposed: one
\* process at a time, one client for everybody, and no process without somebody
\* who stops it - but for what was being started at the disposal.
THEOREM OneServerForAll == LspSpec => []LspContract
  <1>1. LspInv => LspContract
    <2> SUFFICES ASSUME LspInv PROVE LspContract
      OBVIOUS
    <2>1. LspShapes
      BY LspTypesAreShapes DEF LspInv
    <2>2. \A l, m \in Lookups : process[l] = "runs" /\ process[m] = "runs" => l = m
      <3> SUFFICES ASSUME NEW l \in Lookups, NEW m \in Lookups,
                          process[l] = "runs", process[m] = "runs"
                   PROVE  l = m
        OBVIOUS
      <3>1. (l \in clients \/ ~SpawnOver(l)) /\ (m \in clients \/ ~SpawnOver(m))
        BY DEF LspInv, NoLostServer
      <3>2. CASE l \in clients
        BY <3>1, <3>2 DEF LspInv, NoneBesideClient, OneClient
      <3>3. CASE ~SpawnOver(l)
        BY <3>1, <3>3 DEF LspInv, NoneBesideClient, OneSpawn
      <3> QED
        BY <3>1, <3>2, <3>3
    <2> QED
      BY <2>2 DEF LspInv, LspContract, OneServer, NoneBesideClient
  <1> QED
    BY LspInvHolds, <1>1, PTL

-----------------------------------------------------------------------------
(* McpAuth: a flow that waits can be answered, is found under its name, and *)
(* a code is redeemed by the transport that asked for it - with the         *)
(* exceptions the contract names.                                           *)

PortSet == {PortOf[n] : n \in Names} \cup {NoPort}

AuthShapes ==
    /\ flow \in [Actors -> FlowStates]
    /\ port \in PortSet
    /\ file \in Files
    /\ step \in [Actors -> {"rest", "entry", "write"}]
    /\ held \in [Actors -> Files]
    /\ transports \in [Names -> Actors \cup {NoFlow}]
    /\ waiters \subseteq Flows
    /\ index \in [Names -> Flows \cup {NoFlow}]
    /\ urlState \in [Flows -> Flows \cup {NoFlow}]
    /\ code \in [Flows -> Flows \cup {NoFlow}]
    /\ uses \in [Flows -> Actors \cup {NoFlow}]
    /\ proves \in [Flows -> Actors \cup {NoFlow}]
    /\ newest \in [Names -> Flows \cup {NoFlow}]
    /\ unindexed \subseteq Names
    /\ crossed \subseteq Flows
    /\ lost \subseteq Names

\* What a name and a flow never do, and who is at a change of the file.
NameStates == {"new", "asks", "generates", "named", "told", "tokens", "removes", "removed"}

Places ==
    /\ \A n \in Names : flow[n] \in NameStates
    /\ \A f \in Flows : flow[f] \notin {"tokens", "removes", "removed"}
    /\ \A a \in Actors : step[a] # "rest" => flow[a] \in Changes

\* What is kept under a name is of a flow of that name; what is indexed waits.
NamesMatch == \A n \in Names :
    /\ index[n] # NoFlow => NameOf[index[n]] = n /\ index[n] \in waiters
    /\ newest[n] # NoFlow => NameOf[newest[n]] = n

FileMatches(F) == \A n \in Names : F[n].state # NoFlow => NameOf[F[n].state] = n

FilesMatch == FileMatches(file) /\ \A a \in Actors : FileMatches(held[a])

\* A state that was not stored yet is nowhere.
Knows(F, f) == \E n \in Names : F[n].state = f

NewAreUnknown == \A f \in Flows : flow[f] \in {"new", "served"} =>
    /\ ~Knows(file, f)
    /\ \A a \in Actors : ~Knows(held[a], f)
    /\ \A g \in Flows : urlState[g] # f

\* A flow that owns the stored state, or was found to, has its state in no URL but its
\* own, and the verifier, the transport and the code that are there are its own, if
\* they are.  Not so if it was crossed, or an entry of its name lost.
Stored == {"asks", "generates", "named", "told", "waits", "code"}
Judged == {"owns", "checked", "finishes"}

Owns(f) ==
    \/ flow[f] \in Stored /\ file[NameOf[f]].state = f
    \/ flow[f] \in Judged

Clean(f) == f \notin crossed /\ NameOf[f] \notin lost

KeepsOwn(f) ==
    /\ \A g \in Flows : urlState[g] = f => g = f
    /\ flow[f] \in WithVerifier => file[NameOf[f]].verifier \in {f, NoFlow}
    /\ flow[f] \in WithTransport => transports[NameOf[f]] \in {f, NoFlow}
    /\ flow[f] \in {"code"} \cup Judged => code[f] = f
    /\ flow[f] = "finishes" => uses[f] = f

OwnersKeepTheirs == \A f \in Flows : Owns(f) /\ Clean(f) => KeepsOwn(f)

\* A verifier is read last.
Late == {"redeems", "redeemed", "cleared", "done", "failed"}
ProvesLate == \A f \in Flows : proves[f] # NoFlow => flow[f] \in Late

Answerable == NamesMatch /\ WaitersAreKept /\ NewestIsIndexed
Redeemable == FilesMatch /\ NewAreUnknown /\ OwnersKeepTheirs /\ ProvesLate /\ OwnRedeemed

AuthInv == AuthShapes /\ Places /\ Answerable /\ Redeemable

LEMMA AuthTypesAreShapes ==
    AuthTypeOK <=> AuthShapes /\ \A n \in Names : index[n] # NoFlow => index[n] \in waiters
  BY DEF AuthTypeOK, AuthShapes, PortSet

LEMMA FlowsAreActors ==
    ASSUME NEW f \in Flows
    PROVE  f \in Actors /\ f \notin Names /\ f # NoFlow /\ Of(f) = NameOf[f] /\ NameOf[f] \in Names
  BY AuthAssumption DEF Actors, Of

LEMMA NamesAreActors ==
    ASSUME NEW n \in Names
    PROVE  n \in Actors /\ n \notin Flows /\ n # NoFlow /\ Of(n) = n
  BY AuthAssumption DEF Actors, Of

LEMMA EmptyIsFile ==
    /\ Empty \in Files
    /\ FileMatches(Empty)
    /\ \A f \in Flows : ~Knows(Empty, f)
    /\ \A n \in Names : Empty[n].state = NoFlow /\ Empty[n].verifier = NoFlow
  <1>1. \A n \in Names : Empty[n] = Blank /\ Empty[n].state = NoFlow /\ Empty[n].verifier = NoFlow
    BY DEF Empty, Blank
  <1>2. Blank \in Entries
    BY DEF Blank, Entries
  <1>3. Empty \in Files
    BY <1>2 DEF Empty, Files
  <1> QED
    BY <1>1, <1>3, AuthAssumption DEF FileMatches, Knows

LEMMA AuthInitInv == AuthInit => AuthInv
  <1> SUFFICES ASSUME AuthInit PROVE AuthInv
    OBVIOUS
  <1>1. AuthShapes
    BY EmptyIsFile DEF AuthInit, AuthShapes, PortSet, FlowStates
  <1>2. Places
    BY DEF AuthInit, Places, NameStates, Actors
  <1>3. Answerable
    BY AuthAssumption DEF AuthInit, Answerable, NamesMatch, WaitersAreKept, NewestIsIndexed, Actors
  <1>4. \A f \in Flows : flow[f] = "new" /\ urlState[f] = NoFlow /\ proves[f] = NoFlow
    BY DEF AuthInit, Actors
  <1>5. FilesMatch /\ NewAreUnknown
    BY <1>4, EmptyIsFile, AuthAssumption DEF AuthInit, FilesMatch, NewAreUnknown
  <1>6. OwnersKeepTheirs /\ ProvesLate /\ OwnRedeemed
    BY <1>4 DEF OwnersKeepTheirs, Owns, Stored, Judged, ProvesLate, OwnRedeemed
  <1> QED
    BY <1>1, <1>2, <1>3, <1>5, <1>6 DEF AuthInv, Redeemable

-----------------------------------------------------------------------------
\* One actor goes on.
LEMMA OneGoes ==
    ASSUME AuthInv, NEW a \in Actors, NEW where \in FlowStates, FlowGoes(a, where)
    PROVE  /\ flow' \in [Actors -> FlowStates]
           /\ \A b \in Actors : flow'[b] = IF b = a THEN where ELSE flow[b]
  BY DEF AuthInv, AuthShapes, FlowGoes

\* What neither waits nor waited is not looked for.
LEMMA AnswerableKept ==
    ASSUME AuthInv, UNCHANGED waitVars,
           \A f \in Flows : flow'[f] = "waits" <=> flow[f] = "waits"
    PROVE  Answerable'
  BY DEF AuthInv, Answerable, NamesMatch, WaitersAreKept, NewestIsIndexed, waitVars

\* A flow keeps what it had.
Keeps(f) ==
    /\ flow'[f] \in {"new", "served"} => flow[f] \in {"new", "served"}
    /\ Owns(f)' => /\ Owns(f)
                   /\ flow'[f] \in WithVerifier => flow[f] \in WithVerifier
                   /\ flow'[f] \in WithTransport => flow[f] \in WithTransport
                   /\ flow'[f] \in {"code"} \cup Judged => flow[f] \in {"code"} \cup Judged
                   /\ flow'[f] = "finishes" => flow[f] = "finishes"
    /\ flow[f] \in Late => flow'[f] \in Late

\* What is held was in the file, or held, before.
HeldWasKnown == \A b \in Actors :
    /\ FileMatches(held'[b])
    /\ \A f \in Flows :
         Knows(held'[b], f) => Knows(file, f) \/ \E c \in Actors : Knows(held[c], f)

LEMMA RedeemableKept ==
    ASSUME AuthInv, UNCHANGED <<file, lost, code, uses, proves, crossed>>,
           \A f \in Flows : Keeps(f),
           HeldWasKnown,
           \A g \in Flows : urlState'[g] \in {urlState[g], NoFlow},
           \A n \in Names : transports'[n] \in {transports[n], NoFlow}
    PROVE  Redeemable'
  <1>1. FilesMatch'
    BY DEF AuthInv, Redeemable, FilesMatch, FileMatches, HeldWasKnown
  <1>2. NewAreUnknown'
    <2> SUFFICES ASSUME NEW f \in Flows, flow'[f] \in {"new", "served"}
                 PROVE  /\ ~Knows(file', f)
                        /\ \A a \in Actors : ~Knows(held'[a], f)
                        /\ \A g \in Flows : urlState'[g] # f
      BY DEF NewAreUnknown, Knows
    <2>1. flow[f] \in {"new", "served"}
      BY DEF Keeps
    <2>2. /\ ~Knows(file, f) /\ (\A a \in Actors : ~Knows(held[a], f))
          /\ \A g \in Flows : urlState[g] # f
      BY <2>1 DEF AuthInv, Redeemable, NewAreUnknown
    <2> QED
      BY <2>2, FlowsAreActors DEF HeldWasKnown
  <1>3. OwnersKeepTheirs'
    <2> SUFFICES ASSUME NEW f \in Flows, Owns(f)', Clean(f)'
                 PROVE  KeepsOwn(f)'
      BY DEF OwnersKeepTheirs
    <2>1. Owns(f) /\ Clean(f)
      BY DEF Keeps, Clean
    <2>2. KeepsOwn(f)
      BY <2>1 DEF AuthInv, Redeemable, OwnersKeepTheirs
    <2>3. NameOf[f] \in Names /\ f # NoFlow
      BY FlowsAreActors
    <2> QED
      BY <2>2, <2>3 DEF KeepsOwn, Keeps
  <1>4. ProvesLate' /\ OwnRedeemed'
    BY DEF AuthInv, Redeemable, ProvesLate, OwnRedeemed, Keeps
  <1> QED
    BY <1>1, <1>2, <1>3, <1>4 DEF Redeemable

\* What is held stays.
LEMMA HeldKept ==
    ASSUME AuthInv, held' = held
    PROVE  HeldWasKnown
  BY DEF AuthInv, Redeemable, FilesMatch, HeldWasKnown

\* What an actor reads of the file is the file, or nothing.
LEMMA SeenOfFile ==
    ASSUME AuthInv, NEW seen \in Seen
    PROVE  /\ seen \in Files /\ FileMatches(seen)
           /\ \A f \in Flows : Knows(seen, f) => Knows(file, f)
           /\ \A n \in Names : /\ seen[n].state \in {file[n].state, NoFlow}
                               /\ seen[n].verifier \in {file[n].verifier, NoFlow}
  <1>1. seen = file \/ seen = Empty
    BY DEF Seen
  <1> QED
    BY <1>1, EmptyIsFile DEF AuthInv, AuthShapes, Redeemable, FilesMatch

\* A flow whose place stays the same, or ends, keeps what it had.
LEMMA StaysKeeps ==
    ASSUME UNCHANGED file, NEW f \in Flows,
           flow'[f] = flow[f] \/ flow'[f] \in {"done", "failed"}
                             \/ (flow[f] \in Late /\ flow'[f] \in Late)
    PROVE  Keeps(f)
  BY DEF Keeps, Owns, Stored, Judged, Late

-----------------------------------------------------------------------------
\* The file is read: the reader holds what it has seen.
LEMMA ReadEntryInv ==
    ASSUME AuthInv, NEW a \in Actors, ReadEntry(a)
    PROVE  AuthInv'
  <1>1. PICK seen \in Seen : held' = [held EXCEPT ![a] = seen]
    BY DEF ReadEntry
  <1>2. /\ flow[a] \in Changes
        /\ step' = [step EXCEPT ![a] = IF flow[a] = "removes" THEN "write" ELSE "entry"]
        /\ UNCHANGED <<flow, port, transports, waitVars, redeemVars, file, lost>>
    BY DEF ReadEntry
  <1>3. \A b \in Actors : held'[b] = IF b = a THEN seen ELSE held[b]
    BY <1>1 DEF AuthInv, AuthShapes
  <1>4. AuthShapes'
    BY <1>1, <1>2, SeenOfFile DEF AuthInv, AuthShapes, waitVars, redeemVars
  <1>5. Places'
    BY <1>2 DEF AuthInv, AuthShapes, Places
  <1>6. Answerable'
    BY <1>2, AnswerableKept
  <1>7. Redeemable'
    <2>1. \A f \in Flows : Keeps(f)
      BY <1>2, StaysKeeps
    <2>2. HeldWasKnown
      BY <1>3, SeenOfFile DEF AuthInv, Redeemable, FilesMatch, HeldWasKnown
    <2> QED
      BY <1>2, <2>1, <2>2, RedeemableKept DEF redeemVars
  <1> QED
    BY <1>4, <1>5, <1>6, <1>7 DEF AuthInv

LEMMA ReadDataInv ==
    ASSUME AuthInv, NEW a \in Actors, ReadData(a)
    PROVE  AuthInv'
  <1>1. PICK seen \in Seen : held' = [held EXCEPT ![a] = [seen EXCEPT ![Of(a)] = held[a][Of(a)]]]
    BY DEF ReadData
  <1>2. /\ step[a] = "entry" /\ step' = [step EXCEPT ![a] = "write"]
        /\ UNCHANGED <<flow, port, transports, waitVars, redeemVars, file, lost>>
    BY DEF ReadData
  <1> DEFINE taken == [seen EXCEPT ![Of(a)] = held[a][Of(a)]]
  <1>3. /\ seen \in Files /\ FileMatches(seen) /\ held[a] \in Files /\ FileMatches(held[a])
        /\ Of(a) \in Names
    BY SeenOfFile, FlowsAreActors, NamesAreActors
       DEF AuthInv, AuthShapes, Redeemable, FilesMatch, Actors
  <1>4. /\ taken \in Files
        /\ \A n \in Names : taken[n] = IF n = Of(a) THEN held[a][n] ELSE seen[n]
    BY <1>3 DEF Files
  <1>5. /\ FileMatches(taken)
        /\ \A f \in Flows : Knows(taken, f) => Knows(file, f) \/ Knows(held[a], f)
    <2> HIDE DEF taken
    <2>1. FileMatches(taken)
      BY <1>3, <1>4 DEF FileMatches
    <2>2. \A f \in Flows : Knows(taken, f) => Knows(seen, f) \/ Knows(held[a], f)
      BY <1>4 DEF Knows
    <2> QED
      BY <2>1, <2>2, SeenOfFile
  <1>6. \A b \in Actors : held'[b] = IF b = a THEN taken ELSE held[b]
    BY <1>1 DEF AuthInv, AuthShapes
  <1>7. AuthShapes'
    BY <1>1, <1>2, <1>4 DEF AuthInv, AuthShapes, waitVars, redeemVars
  <1>8. Places'
    BY <1>2 DEF AuthInv, AuthShapes, Places
  <1>9. Answerable'
    BY <1>2, AnswerableKept
  <1>10. Redeemable'
    <2> HIDE DEF taken
    <2>1. \A f \in Flows : Keeps(f)
      BY <1>2, StaysKeeps
    <2>2. HeldWasKnown
      BY <1>5, <1>6 DEF AuthInv, Redeemable, FilesMatch, HeldWasKnown
    <2> QED
      BY <1>2, <2>1, <2>2, RedeemableKept DEF redeemVars
  <1> QED
    BY <1>7, <1>8, <1>9, <1>10 DEF AuthInv

\* What an actor makes of its entry is an entry, of its own state at most.
LEMMA ChangedEntry ==
    ASSUME AuthInv, NEW a \in Actors, NEW e \in Entries
    PROVE  /\ Changed(a, e) \in Entries
           /\ Changed(a, e).state \in {e.state, NoFlow}
                \/ (a \in Flows /\ flow[a] = "served" /\ Changed(a, e).state = a)
           /\ Changed(a, e).verifier \in {e.verifier, NoFlow}
                \/ (flow[a] = "named" /\ Changed(a, e).verifier = a)
           /\ (a \in Flows /\ flow[a] = "named") => Changed(a, e).verifier = a
  <1>1. flow[a] = "served" => a \in Flows
    BY DEF AuthInv, Places, NameStates, Actors
  <1>2. e.state \in Flows \cup {NoFlow} /\ e.verifier \in Actors \cup {NoFlow}
    BY DEF Entries
  <1>3. CASE flow[a] = "served"
    <2>1. Changed(a, e) = [e EXCEPT !.state = a]
      BY <1>3 DEF Changed
    <2> QED
      BY <1>1, <1>2, <1>3, <2>1 DEF Entries
  <1>4. CASE flow[a] \in {"generates", "clears", "owns", "foreign"}
    <2>1. Changed(a, e) = [e EXCEPT !.state = NoFlow]
      BY <1>4 DEF Changed
    <2> QED
      BY <1>2, <1>4, <2>1 DEF Entries
  <1>5. CASE flow[a] = "named"
    <2>1. Changed(a, e) = [e EXCEPT !.verifier = a]
      BY <1>5 DEF Changed
    <2> QED
      BY <1>2, <1>5, <2>1 DEF Entries
  <1>6. CASE flow[a] = "redeemed"
    <2>1. Changed(a, e) = [e EXCEPT !.verifier = NoFlow]
      BY <1>6 DEF Changed
    <2> QED
      BY <1>2, <1>6, <2>1 DEF Entries
  <1>7. CASE flow[a] = "removes"
    <2>1. Changed(a, e) = Blank
      BY <1>7 DEF Changed
    <2> QED
      BY <1>7, <2>1 DEF Entries, Blank
  <1>8. CASE flow[a] \notin {"served", "generates", "clears", "owns", "foreign", "named", "redeemed", "removes"}
    <2>1. Changed(a, e) = e
      BY <1>8 DEF Changed
    <2> QED
      BY <1>8, <2>1
  <1> QED
    BY <1>3, <1>4, <1>5, <1>6, <1>7, <1>8

\* Where a flow and a name are when they changed the file.
LEMMA AfterPlaces ==
    ASSUME AuthInv, NEW a \in Actors, flow[a] \in Changes
    PROVE  /\ After(flow[a]) \in FlowStates
           /\ a \in Names => After(flow[a]) \in NameStates
           /\ a \in Flows => After(flow[a]) \notin {"tokens", "removes", "removed", "new", "served", "waits"}
           /\ flow[a] # "waits" /\ After(flow[a]) # "waits"
  <1>1. a \in Names => flow[a] \in NameStates
    BY DEF AuthInv, Places
  <1>2. a \in Flows => flow[a] \notin {"tokens", "removes", "removed"}
    BY DEF AuthInv, Places
  <1> QED
    BY <1>1, <1>2 DEF After, Changes, Clears, NameStates, FlowStates

\* The file is written.  Of a name whose entry was not lost only the writer's own entry
\* changes; who owned the state there and lost its verifier to it is crossed.
LEMMA WriteFileInv ==
    ASSUME AuthInv, NEW a \in Actors, WriteFile(a)
    PROVE  AuthInv'
  <1> DEFINE n == Of(a)
             after == After(flow[a])
  <1>1. /\ step[a] = "write" /\ step' = [step EXCEPT ![a] = "rest"]
        /\ file' = [held[a] EXCEPT ![n] = Changed(a, held[a][n])]
        /\ held' = [held EXCEPT ![a] = Empty]
        /\ FlowGoes(a, after)
        /\ lost' = lost \cup {m \in Names : held[a][m] # file[m]}
        /\ UNCHANGED <<port, transports, waitVars, urlState, code, uses, proves>>
    BY DEF WriteFile
  <1>2. /\ crossed \subseteq crossed' /\ crossed' \subseteq Flows
        /\ flow[a] = "named" => Owners(a, WithVerifier) \subseteq crossed'
    BY DEF WriteFile, Owners, AuthInv, AuthShapes
  <1>3. /\ flow[a] \in Changes /\ after \in FlowStates
        /\ a \in Names => after \in NameStates
        /\ a \in Flows => after \notin {"tokens", "removes", "removed", "new", "served", "waits"}
        /\ flow[a] # "waits" /\ after # "waits"
    BY <1>1, AfterPlaces DEF AuthInv, Places
  <1>4. \A b \in Actors : flow'[b] = IF b = a THEN after ELSE flow[b]
    BY <1>1, <1>3, OneGoes
  <1>5. n \in Names /\ held[a] \in Files /\ held[a][n] \in Entries /\ file \in Files
    BY FlowsAreActors, NamesAreActors DEF AuthInv, AuthShapes, Actors, Files
  <1> DEFINE e == Changed(a, held[a][n])
  <1>6. /\ e \in Entries
        /\ e.state \in {held[a][n].state, NoFlow} \/ (a \in Flows /\ flow[a] = "served" /\ e.state = a)
        /\ e.verifier \in {held[a][n].verifier, NoFlow} \/ (flow[a] = "named" /\ e.verifier = a)
        /\ (a \in Flows /\ flow[a] = "named") => e.verifier = a
    BY <1>5, ChangedEntry
  <1>7. \A m \in Names : file'[m] = IF m = n THEN e ELSE held[a][m]
    BY <1>1, <1>5 DEF Files
  <1>8. \A b \in Actors : held'[b] = IF b = a THEN Empty ELSE held[b]
    BY <1>1 DEF AuthInv, AuthShapes
  <1>9. AuthShapes'
    <2>1. flow' \in [Actors -> FlowStates]
      BY <1>1, <1>3, OneGoes
    <2>2. file' \in Files
      BY <1>1, <1>5, <1>6 DEF Files
    <2> QED
      BY <1>1, <1>2, <2>1, <2>2, EmptyIsFile DEF AuthInv, AuthShapes, waitVars
  <1>10. Places'
    <2>1. \A b \in Actors : step'[b] = IF b = a THEN "rest" ELSE step[b]
      BY <1>1 DEF AuthInv, AuthShapes
    <2> HIDE DEF after
    <2>2. \A m \in Names : m \in Actors
      BY NamesAreActors
    <2>3. \A f \in Flows : f \in Actors
      BY FlowsAreActors
    <2> QED
      BY <1>3, <1>4, <2>1, <2>2, <2>3 DEF AuthInv, Places
  <1>11. Answerable'
    <2> HIDE DEF after
    <2>1. \A f \in Flows : flow'[f] = "waits" <=> flow[f] = "waits"
      BY <1>3, <1>4, FlowsAreActors
    <2> QED
      BY <1>1, <2>1, AnswerableKept
  <1> HIDE DEF e
  <1>12. FileMatches(held[a])
    BY DEF AuthInv, Redeemable, FilesMatch
  <1>13. FilesMatch'
    <2>1. FileMatches(file')
      <3> SUFFICES ASSUME NEW m \in Names, file'[m].state # NoFlow
                   PROVE  NameOf[file'[m].state] = m
        BY DEF FileMatches
      <3>1. CASE m # n
        BY <1>7, <1>12, <3>1 DEF FileMatches
      <3>2. CASE m = n /\ e.state = held[a][n].state
        BY <1>5, <1>7, <1>12, <3>2 DEF FileMatches
      <3>3. CASE m = n /\ e.state = a /\ a \in Flows
        BY <1>7, <3>3, FlowsAreActors
      <3> QED
        BY <1>6, <1>7, <3>1, <3>2, <3>3
    <2> QED
      BY <1>8, <2>1, EmptyIsFile DEF AuthInv, Redeemable, FilesMatch, FileMatches
  <1>14. NewAreUnknown'
    <2> SUFFICES ASSUME NEW f \in Flows, flow'[f] \in {"new", "served"}
                 PROVE  /\ ~Knows(file', f)
                        /\ \A b \in Actors : ~Knows(held'[b], f)
                        /\ \A g \in Flows : urlState'[g] # f
      BY DEF NewAreUnknown, Knows
    <2> HIDE DEF after
    <2>1. f \in Actors /\ f # a /\ flow[f] \in {"new", "served"} /\ f # NoFlow
      BY <1>3, <1>4, FlowsAreActors
    <2>2. (\A b \in Actors : ~Knows(held[b], f)) /\ \A g \in Flows : urlState[g] # f
      BY <2>1 DEF AuthInv, Redeemable, NewAreUnknown
    <2>3. \A m \in Names : held[a][m].state # f
      BY <2>2 DEF Knows
    <2>4. \A m \in Names : file'[m].state # f
      BY <1>5, <1>6, <1>7, <2>1, <2>3
    <2>5. ~Knows(file', f)
      BY <2>4 DEF Knows
    <2> QED
      BY <1>1, <1>8, <2>2, <2>5, EmptyIsFile
  <1>15. OwnersKeepTheirs'
    <2> SUFFICES ASSUME NEW f \in Flows, Owns(f)', Clean(f)'
                 PROVE  KeepsOwn(f)'
      BY DEF OwnersKeepTheirs
    <2>1. f \in Actors /\ NameOf[f] \in Names /\ f # NoFlow /\ Of(f) = NameOf[f]
      BY FlowsAreActors
    <2>2. Clean(f) /\ held[a][NameOf[f]] = file[NameOf[f]]
      BY <1>1, <1>2, <2>1 DEF Clean
    <2>3. CASE a = f
      <3>1. n = NameOf[f] /\ flow'[f] = after
        BY <1>4, <2>1, <2>3
      <3>2. CASE flow[f] = "served"
        <4>1. after = "asks"
          BY <2>3, <3>2 DEF After
        <4>2. \A g \in Flows : urlState[g] # f
          BY <3>2 DEF AuthInv, Redeemable, NewAreUnknown
        <4> QED
          BY <1>1, <3>1, <4>1, <4>2 DEF KeepsOwn, WithVerifier, WithTransport, Judged
      <3>3. CASE flow[f] = "generates"
        <4>1. after = "named"
          BY <2>3, <3>3 DEF After
        <4>2. file'[n].state = NoFlow \/ file'[n].state = file[n].state
          BY <1>5, <1>6, <1>7, <2>2, <2>3, <3>1, <3>3
        <4>3. file[NameOf[f]].state = f
          BY <2>1, <3>1, <4>1, <4>2 DEF Owns, Judged
        <4>4. KeepsOwn(f)
          BY <2>2, <3>3, <4>3 DEF Owns, Stored, AuthInv, Redeemable, OwnersKeepTheirs
        <4> QED
          BY <1>1, <3>1, <4>1, <4>4 DEF KeepsOwn, WithVerifier, WithTransport, Judged
      <3>4. CASE flow[f] = "named"
        <4>1. after = "told"
          BY <2>3, <3>4 DEF After
        <4>2. file'[n].state = NoFlow \/ file'[n].state = file[n].state
          BY <1>5, <1>6, <1>7, <2>2, <2>3, <3>1, <3>4
        <4>3. file[NameOf[f]].state = f
          BY <2>1, <3>1, <4>1, <4>2 DEF Owns, Judged
        <4>4. KeepsOwn(f)
          BY <2>2, <3>4, <4>3 DEF Owns, Stored, AuthInv, Redeemable, OwnersKeepTheirs
        <4>5. file'[NameOf[f]].verifier = f
          BY <1>5, <1>6, <1>7, <2>3, <3>1, <3>4
        <4> QED
          BY <1>1, <3>1, <4>1, <4>4, <4>5 DEF KeepsOwn, WithVerifier, WithTransport, Judged
      <3>5. CASE flow[f] = "owns"
        <4>1. after = "checked"
          BY <2>3, <3>5 DEF After
        <4>2. KeepsOwn(f)
          BY <2>2, <3>5 DEF Owns, Judged, AuthInv, Redeemable, OwnersKeepTheirs
        <4>3. file'[NameOf[f]].verifier \in {file[NameOf[f]].verifier, NoFlow}
          BY <1>5, <1>6, <1>7, <2>2, <2>3, <3>1, <3>5
        <4> QED
          BY <1>1, <3>1, <3>5, <4>1, <4>2, <4>3 DEF KeepsOwn, WithVerifier, WithTransport, Judged
      <3>6. CASE flow[f] \notin {"served", "generates", "named", "owns"}
        <4>1. after \in {"done", "failed", "cleared", "new", "removed"}
          BY <1>3, <2>3, <3>6 DEF After, Changes, Clears
        <4> QED
          BY <3>1, <4>1 DEF Owns, Stored, Judged
      <3> QED
        BY <3>2, <3>3, <3>4, <3>5, <3>6
    <2>4. CASE a # f
      <3>1. flow'[f] = flow[f]
        BY <1>4, <2>1, <2>4
      <3>2. /\ file'[NameOf[f]].state \in {file[NameOf[f]].state, NoFlow, a}
            /\ file'[NameOf[f]].verifier \in {file[NameOf[f]].verifier, NoFlow}
                 \/ (n = NameOf[f] /\ flow[a] = "named")
        BY <1>5, <1>6, <1>7, <2>1, <2>2
      <3>3. Owns(f)
        BY <2>1, <2>4, <3>1, <3>2 DEF Owns
      <3>4. KeepsOwn(f)
        BY <2>2, <3>3 DEF AuthInv, Redeemable, OwnersKeepTheirs
      <3>5. ASSUME n = NameOf[f], flow[a] = "named"
            PROVE  flow[f] \notin WithVerifier
        <4>1. f \notin Owners(a, WithVerifier)
          BY <1>2, <3>5 DEF Clean
        <4> QED
          BY <2>4, <3>3, <3>5, <4>1 DEF Owners, Owns, Judged
      <3> QED
        BY <1>1, <3>1, <3>2, <3>4, <3>5, <2>1 DEF KeepsOwn
    <2> QED
      BY <2>3, <2>4
  <1>16. ProvesLate' /\ OwnRedeemed'
    <2>1. \A f \in Flows : flow[f] \in Late => flow'[f] \in Late
      <3> SUFFICES ASSUME NEW f \in Flows, flow[f] \in Late PROVE flow'[f] \in Late
        OBVIOUS
      <3>1. CASE f # a
        BY <1>4, <3>1, FlowsAreActors
      <3>2. CASE f = a
        <4>1. flow[a] = "redeemed"
          BY <1>3, <3>2 DEF Late, Changes, Clears
        <4>2. after = "cleared"
          BY <4>1 DEF After
        <4> QED
          BY <1>4, <3>2, <4>2 DEF Late
      <3> QED
        BY <3>1, <3>2
    <2> QED
      BY <1>1, <1>2, <2>1 DEF AuthInv, Redeemable, ProvesLate, OwnRedeemed
  <1> QED
    BY <1>9, <1>10, <1>11, <1>13, <1>14, <1>15, <1>16 DEF AuthInv, Redeemable

-----------------------------------------------------------------------------
\* One actor goes on, the file and what it owns stay.
LEMMA OneKeeps ==
    ASSUME AuthInv, NEW a \in Actors, NEW where \in FlowStates, FlowGoes(a, where),
           UNCHANGED <<file, held, lost, code, uses, proves, crossed>>,
           a \in Flows => Keeps(a),
           \A g \in Flows : urlState'[g] \in {urlState[g], NoFlow},
           \A n \in Names : transports'[n] \in {transports[n], NoFlow}
    PROVE  Redeemable'
  <1>1. \A f \in Flows : Keeps(f)
    <2> SUFFICES ASSUME NEW f \in Flows, f # a PROVE Keeps(f)
      OBVIOUS
    <2>1. flow'[f] = flow[f]
      BY OneGoes, FlowsAreActors
    <2> QED
      BY <2>1, StaysKeeps
  <1> QED
    BY <1>1, HeldKept, RedeemableKept

\* One actor goes on that is not at a change of the file.
LEMMA OnePlaces ==
    ASSUME AuthInv, NEW a \in Actors, NEW where \in FlowStates, FlowGoes(a, where),
           step' = step, step[a] = "rest" \/ where \in Changes,
           a \in Names => where \in NameStates,
           a \in Flows => where \notin {"tokens", "removes", "removed"}
    PROVE  Places'
  <1>1. \A b \in Actors : flow'[b] = IF b = a THEN where ELSE flow[b]
    BY OneGoes
  <1>2. (\A n \in Names : n \in Actors) /\ (\A f \in Flows : f \in Actors)
    BY NamesAreActors, FlowsAreActors
  <1> QED
    BY <1>1, <1>2 DEF AuthInv, Places

\* One actor goes on that neither waits nor waited.
LEMMA OneAnswerable ==
    ASSUME AuthInv, NEW a \in Actors, NEW where \in FlowStates, FlowGoes(a, where),
           UNCHANGED waitVars, flow[a] # "waits", where # "waits"
    PROVE  Answerable'
  <1>1. \A f \in Flows : flow'[f] = "waits" <=> flow[f] = "waits"
    BY OneGoes, FlowsAreActors
  <1> QED
    BY <1>1, AnswerableKept

\* Who is not at a change of the file has none under way.
LEMMA RestsElsewhere ==
    ASSUME AuthInv, NEW a \in Actors, flow[a] \notin Changes
    PROVE  step[a] = "rest"
  BY DEF AuthInv, Places

LEMMA NothingToClearInv ==
    ASSUME AuthInv, NEW a \in Actors, NothingToClear(a)
    PROVE  AuthInv'
  <1> DEFINE after == After(flow[a])
  <1>1. /\ flow[a] \in Clears /\ FlowGoes(a, after)
        /\ step' = [step EXCEPT ![a] = "rest"] /\ held' = [held EXCEPT ![a] = Empty]
        /\ UNCHANGED <<port, transports, waitVars, redeemVars, file, lost>>
    BY DEF NothingToClear
  <1>2. /\ after \in FlowStates /\ after # "waits" /\ flow[a] # "waits"
        /\ a \in Names => after \in NameStates
        /\ a \in Flows => after \notin {"tokens", "removes", "removed", "new", "served", "waits"}
    BY <1>1, AfterPlaces DEF Changes
  <1>3. \A b \in Actors : /\ flow'[b] = IF b = a THEN after ELSE flow[b]
                          /\ step'[b] = IF b = a THEN "rest" ELSE step[b]
                          /\ held'[b] = IF b = a THEN Empty ELSE held[b]
    BY <1>1, <1>2, OneGoes DEF AuthInv, AuthShapes
  <1>4. AuthShapes'
    <2>1. flow' \in [Actors -> FlowStates]
      BY <1>1, <1>2, OneGoes
    <2> QED
      BY <1>1, <2>1, EmptyIsFile DEF AuthInv, AuthShapes, waitVars, redeemVars
  <1>5. Places'
    <2> HIDE DEF after
    <2>1. (\A n \in Names : n \in Actors) /\ (\A f \in Flows : f \in Actors)
      BY NamesAreActors, FlowsAreActors
    <2> QED
      BY <1>2, <1>3, <2>1 DEF AuthInv, Places
  <1>6. Answerable'
    BY <1>1, <1>2, OneAnswerable
  <1>7. Redeemable'
    <2>1. \A f \in Flows : Keeps(f)
      <3> SUFFICES ASSUME NEW f \in Flows PROVE Keeps(f)
        OBVIOUS
      <3>1. CASE f # a
        BY <1>1, <1>3, <3>1, StaysKeeps, FlowsAreActors
      <3>2. CASE f = a /\ flow[a] = "owns"
        <4>1. flow'[f] = "checked"
          BY <1>3, <3>2 DEF After
        <4> QED
          BY <3>2, <4>1 DEF Keeps, Owns, Judged, Stored, WithVerifier, WithTransport, Late
      <3>3. CASE f = a /\ flow[a] # "owns"
        <4>1. flow'[f] \in {"done", "failed"} \/ (flow[f] = "redeemed" /\ flow'[f] = "cleared")
          BY <1>1, <1>3, <3>3 DEF After, Clears
        <4> QED
          BY <1>1, <4>1, StaysKeeps DEF Late
      <3> QED
        BY <3>1, <3>2, <3>3
    <2>2. HeldWasKnown
      BY <1>3, EmptyIsFile DEF AuthInv, Redeemable, FilesMatch, HeldWasKnown
    <2> QED
      BY <1>1, <2>1, <2>2, RedeemableKept DEF redeemVars
  <1> QED
    BY <1>4, <1>5, <1>6, <1>7 DEF AuthInv

\* What is done to a server begins.
LEMMA BeginInv ==
    ASSUME AuthInv, NEW n \in Names, NEW what \in {"asks", "tokens", "removes"}, Begin(n, what)
    PROVE  AuthInv'
  <1>1. /\ flow[n] = "new" /\ FlowGoes(n, what)
        /\ UNCHANGED <<port, transports, fileVars, waitVars, redeemVars>>
    BY DEF Begin
  <1>2. n \in Actors /\ n \notin Flows /\ what \in FlowStates /\ what \in NameStates
    BY NamesAreActors DEF FlowStates, Changes, NameStates
  <1>3. AuthShapes'
    BY <1>1, <1>2, OneGoes DEF AuthInv, AuthShapes, fileVars, waitVars, redeemVars
  <1>4. Places'
    BY <1>1, <1>2, OnePlaces, RestsElsewhere DEF fileVars, Changes, Clears
  <1>5. Answerable'
    BY <1>1, <1>2, OneAnswerable
  <1>6. Redeemable'
    BY <1>1, <1>2, OneKeeps DEF fileVars, redeemVars
  <1> QED
    BY <1>3, <1>4, <1>5, <1>6 DEF AuthInv

LEMMA NeedsNoneInv ==
    ASSUME AuthInv, NEW a \in Actors, NeedsNone(a)
    PROVE  AuthInv'
  <1> DEFINE where == IF a \in Names THEN "new" ELSE "clears"
  <1>1. /\ flow[a] = "asks" /\ FlowGoes(a, where)
        /\ UNCHANGED <<port, transports, fileVars, waitVars, redeemVars>>
    BY DEF NeedsNone
  <1>2. /\ where \in FlowStates /\ where # "waits"
        /\ a \in Names => where \in NameStates
        /\ a \in Flows => where = "clears"
    BY FlowsAreActors DEF FlowStates, Changes, Clears, NameStates
  <1>3. AuthShapes'
    BY <1>1, <1>2, OneGoes DEF AuthInv, AuthShapes, fileVars, waitVars, redeemVars
  <1>4. Places'
    BY <1>1, <1>2, OnePlaces, RestsElsewhere DEF fileVars, Changes, Clears
  <1>5. Answerable'
    BY <1>1, <1>2, OneAnswerable
  <1>6. Redeemable'
    <2>1. a \in Flows => Keeps(a)
      <3>1. flow'[a] = where
        BY <1>1, <1>2, OneGoes
      <3> QED
        BY <1>1, <1>2, <3>1 DEF Keeps, Owns, Judged, Stored, Late
    <2> QED
      BY <1>1, <1>2, <2>1, OneKeeps DEF AuthInv, AuthShapes, fileVars, redeemVars
  <1> QED
    BY <1>3, <1>4, <1>5, <1>6 DEF AuthInv

LEMMA AskFailsInv ==
    ASSUME AuthInv, NEW a \in Actors, AskFails(a)
    PROVE  AuthInv'
  <1> DEFINE where == IF a \in Names THEN "new" ELSE "failed"
  <1>1. /\ flow[a] \in {"asks", "named", "told"} /\ step[a] = "rest" /\ FlowGoes(a, where)
        /\ urlState' = IF a \in Names THEN urlState ELSE [urlState EXCEPT ![a] = NoFlow]
        /\ UNCHANGED <<port, transports, fileVars, waitVars, code, uses, proves, crossed>>
    BY DEF AskFails
  <1>2. /\ where \in FlowStates /\ where # "waits" /\ flow[a] # "waits"
        /\ a \in Names => where \in NameStates
        /\ a \in Flows => where = "failed"
    BY <1>1, FlowsAreActors DEF FlowStates, NameStates
  <1>3. /\ urlState' \in [Flows -> Flows \cup {NoFlow}]
        /\ \A g \in Flows : urlState'[g] \in {urlState[g], NoFlow}
    BY <1>1 DEF AuthInv, AuthShapes
  <1>4. AuthShapes'
    BY <1>1, <1>2, <1>3, OneGoes DEF AuthInv, AuthShapes, fileVars, waitVars
  <1>5. Places'
    BY <1>1, <1>2, OnePlaces DEF fileVars
  <1>6. Answerable'
    BY <1>1, <1>2, OneAnswerable
  <1>7. Redeemable'
    <2>1. a \in Flows => Keeps(a)
      <3>1. flow'[a] = where
        BY <1>1, <1>2, OneGoes
      <3> QED
        BY <1>1, <1>2, <3>1, StaysKeeps DEF fileVars
    <2> QED
      BY <1>1, <1>2, <1>3, <2>1, OneKeeps DEF AuthInv, AuthShapes, fileVars
  <1> QED
    BY <1>4, <1>5, <1>6, <1>7 DEF AuthInv

LEMMA ForgetTransportsInv ==
    ASSUME AuthInv, ForgetTransports
    PROVE  AuthInv'
  <1>1. /\ transports' = [n \in Names |-> NoFlow]
        /\ UNCHANGED <<flow, port, fileVars, waitVars, redeemVars>>
    BY DEF ForgetTransports
  <1>2. AuthShapes' /\ Places'
    BY <1>1 DEF AuthInv, AuthShapes, Places, fileVars, waitVars, redeemVars
  <1>3. Answerable'
    BY <1>1, AnswerableKept
  <1>4. Redeemable'
    <2>1. \A f \in Flows : Keeps(f)
      BY <1>1, StaysKeeps DEF fileVars
    <2> QED
      BY <1>1, <2>1, HeldKept, RedeemableKept DEF fileVars, redeemVars
  <1> QED
    BY <1>2, <1>3, <1>4 DEF AuthInv

\* A code is judged by the state that is stored.
LEMMA CheckStateInv ==
    ASSUME AuthInv, NEW f \in Flows, CheckState(f)
    PROVE  AuthInv'
  <1>1. PICK seen \in Seen : FlowGoes(f, IF seen[NameOf[f]].state = f THEN "owns" ELSE "foreign")
    BY DEF CheckState
  <1> DEFINE where == IF seen[NameOf[f]].state = f THEN "owns" ELSE "foreign"
  <1>2. flow[f] = "code" /\ UNCHANGED <<port, transports, fileVars, waitVars, redeemVars>>
    BY DEF CheckState
  <1>3. where \in {"owns", "foreign"} /\ where \in FlowStates /\ where \in Changes
    BY DEF FlowStates, Changes, Clears
  <1>4. f \in Actors /\ f \notin Names /\ NameOf[f] \in Names /\ f # NoFlow
    BY FlowsAreActors
  <1>5. where = "owns" => file[NameOf[f]].state = f
    BY <1>4, SeenOfFile
  <1> HIDE DEF where
  <1>6. FlowGoes(f, where)
    BY <1>1 DEF where
  <1>7. AuthShapes'
    BY <1>2, <1>3, <1>4, <1>6, OneGoes DEF AuthInv, AuthShapes, fileVars, waitVars, redeemVars
  <1>8. Places'
    BY <1>2, <1>3, <1>4, <1>6, OnePlaces DEF fileVars
  <1>9. Answerable'
    BY <1>2, <1>3, <1>4, <1>6, OneAnswerable
  <1>10. Redeemable'
    <2>1. flow'[f] = where
      BY <1>3, <1>4, <1>6, OneGoes
    <2>2. Keeps(f)
      BY <1>2, <1>3, <1>5, <2>1 DEF Keeps, Owns, Stored, Judged, WithVerifier, WithTransport, Late
    <2> QED
      BY <1>2, <1>3, <1>4, <1>6, <2>2, OneKeeps DEF AuthInv, AuthShapes, fileVars, redeemVars
  <1> QED
    BY <1>7, <1>8, <1>9, <1>10 DEF AuthInv

LEMMA RedeemedInv ==
    ASSUME AuthInv, NEW f \in Flows, NEW how \in {"failed", "redeemed"}, Redeemed(f, how)
    PROVE  AuthInv'
  <1>1. /\ flow[f] = "redeems" /\ FlowGoes(f, how)
        /\ UNCHANGED <<port, transports, fileVars, waitVars, redeemVars>>
    BY DEF Redeemed
  <1>2. f \in Actors /\ f \notin Names /\ how \in FlowStates /\ step[f] = "rest"
    BY <1>1, FlowsAreActors, RestsElsewhere DEF FlowStates, Changes, Clears
  <1>3. AuthShapes'
    BY <1>1, <1>2, OneGoes DEF AuthInv, AuthShapes, fileVars, waitVars, redeemVars
  <1>4. Places'
    BY <1>1, <1>2, OnePlaces DEF fileVars
  <1>5. Answerable'
    BY <1>1, <1>2, OneAnswerable
  <1>6. Redeemable'
    <2>1. Keeps(f)
      <3>1. flow'[f] = how
        BY <1>1, <1>2, OneGoes
      <3> QED
        BY <1>1, <3>1, StaysKeeps DEF Late, fileVars
    <2> QED
      BY <1>1, <1>2, <2>1, OneKeeps DEF AuthInv, AuthShapes, fileVars, redeemVars
  <1> QED
    BY <1>3, <1>4, <1>5, <1>6 DEF AuthInv

LEMMA AuthEndsInv ==
    ASSUME AuthInv, NEW f \in Flows, AuthEnds(f)
    PROVE  AuthInv'
  <1>1. /\ flow[f] = "cleared" /\ FlowGoes(f, "done")
        /\ transports' = [transports EXCEPT ![NameOf[f]] = NoFlow]
        /\ UNCHANGED <<port, fileVars, waitVars, redeemVars>>
    BY DEF AuthEnds
  <1>2. f \in Actors /\ f \notin Names /\ "done" \in FlowStates /\ step[f] = "rest"
    BY <1>1, FlowsAreActors, RestsElsewhere DEF FlowStates, Changes, Clears
  <1>3. AuthShapes'
    BY <1>1, <1>2, OneGoes DEF AuthInv, AuthShapes, fileVars, waitVars, redeemVars
  <1>4. Places'
    BY <1>1, <1>2, OnePlaces DEF fileVars
  <1>5. Answerable'
    BY <1>1, <1>2, OneAnswerable
  <1>6. Redeemable'
    <2>1. Keeps(f)
      <3>1. flow'[f] = "done"
        BY <1>1, <1>2, OneGoes
      <3> QED
        BY <1>1, <3>1, StaysKeeps DEF fileVars
    <2>2. \A n \in Names : transports'[n] \in {transports[n], NoFlow}
      BY <1>1 DEF AuthInv, AuthShapes
    <2> QED
      BY <1>1, <1>2, <2>1, <2>2, OneKeeps DEF AuthInv, AuthShapes, fileVars, redeemVars
  <1> QED
    BY <1>3, <1>4, <1>5, <1>6 DEF AuthInv

-----------------------------------------------------------------------------
\* A flow is served, or those that wait for another port are rejected.
LEMMA ServeInv ==
    ASSUME AuthInv, NEW f \in Flows, Serve(f)
    PROVE  AuthInv'
  <1>1. /\ flow[f] = "new" /\ port' = PortOf[NameOf[f]]
        /\ UNCHANGED <<transports, fileVars, redeemVars, newest, unindexed>>
    BY DEF Serve
  <1>2. /\ f \in Actors /\ f \notin Names /\ NameOf[f] \in Names
        /\ "served" \in FlowStates /\ "failed" \in FlowStates
        /\ (\A n \in Names : n \in Actors /\ n \notin Flows) /\ (\A g \in Flows : g \in Actors)
    BY FlowsAreActors, NamesAreActors DEF FlowStates, Changes
  <1>3. /\ flow' \in [Actors -> FlowStates]
        /\ \A a \in Actors : \/ flow'[a] = IF a = f THEN "served" ELSE flow[a]
                             \/ a # f /\ a \in waiters /\ flow'[a] = "failed"
        /\ \/ UNCHANGED <<waiters, index>>
              /\ \A a \in Actors : flow'[a] = IF a = f THEN "served" ELSE flow[a]
           \/ /\ waiters' = {} /\ index' = [n \in Names |-> NoFlow]
              /\ \A a \in Actors : flow'[a] = IF a = f THEN "served"
                                              ELSE IF a \in waiters THEN "failed" ELSE flow[a]
    <2>1. CASE port \in {NoPort, port'}
      <3>1. FlowGoes(f, "served") /\ UNCHANGED <<waiters, index>>
        BY <2>1 DEF Serve
      <3> QED
        BY <1>2, <3>1, OneGoes
    <2>2. CASE port \notin {NoPort, port'}
      <3>1. /\ flow' = [g \in Actors |-> IF g = f THEN "served"
                                        ELSE IF g \in waiters THEN "failed" ELSE flow[g]]
            /\ waiters' = {} /\ index' = [n \in Names |-> NoFlow]
        BY <2>2 DEF Serve
      <3> QED
        BY <1>2, <3>1 DEF AuthInv, AuthShapes
    <2> QED
      BY <2>1, <2>2
  <1>4. AuthShapes'
    BY <1>1, <1>2, <1>3 DEF AuthInv, AuthShapes, PortSet, fileVars, redeemVars
  <1>5. \A g \in waiters : g \in Flows /\ flow[g] = "waits"
    BY DEF AuthInv, AuthShapes, Answerable, WaitersAreKept
  <1>6. Places'
    BY <1>1, <1>2, <1>3, <1>5 DEF AuthInv, AuthShapes, Places, Changes, Clears, fileVars
  <1>7. Answerable'
    BY <1>1, <1>2, <1>3
       DEF AuthInv, Answerable, NamesMatch, WaitersAreKept, NewestIsIndexed
  <1>8. Redeemable'
    <2>1. \A g \in Flows : Keeps(g)
      <3> SUFFICES ASSUME NEW g \in Flows PROVE Keeps(g)
        OBVIOUS
      <3>1. CASE flow'[g] = flow[g] \/ flow'[g] = "failed"
        BY <1>1, <3>1, StaysKeeps DEF fileVars
      <3>2. CASE g = f /\ flow'[g] = "served"
        BY <1>1, <3>2 DEF Keeps, Owns, Stored, Judged, Late
      <3> QED
        BY <1>2, <1>3, <3>1, <3>2
    <2> QED
      BY <1>1, <2>1, HeldKept, RedeemableKept DEF AuthInv, AuthShapes, fileVars, redeemVars
  <1> QED
    BY <1>4, <1>6, <1>7, <1>8 DEF AuthInv

\* The browser finds the entry of the flow, and no other flow loses its own.  The code
\* is of the URL the flow's state is in.
LEMMA CallbackInv ==
    ASSUME AuthInv, NEW f \in Flows, NEW g \in Flows, NEW how \in {"code", "failed"},
           Callback(f, g, how)
    PROVE  AuthInv'
  <1>1. /\ f \in waiters /\ urlState[g] = f /\ FlowGoes(f, how)
        /\ code' = IF how = "code" THEN [code EXCEPT ![f] = g] ELSE code
        /\ waiters' = waiters \ {f}
        /\ index' = [n \in Names |-> IF index[n] = f THEN NoFlow ELSE index[n]]
        /\ UNCHANGED <<port, transports, fileVars, newest, unindexed, urlState, uses, proves, crossed>>
    BY DEF Callback, WithoutState
  <1>2. f \in Actors /\ f \notin Names /\ how \in FlowStates /\ f # NoFlow
    BY FlowsAreActors DEF FlowStates
  <1>3. flow[f] = "waits" /\ step[f] = "rest"
    BY <1>1, <1>2, RestsElsewhere
       DEF AuthInv, AuthShapes, Answerable, WaitersAreKept, Changes, Clears
  <1>4. /\ flow' \in [Actors -> FlowStates]
        /\ \A a \in Actors : flow'[a] = IF a = f THEN how ELSE flow[a]
        /\ \A a \in Flows : a \in Actors
    BY <1>1, <1>2, OneGoes, FlowsAreActors
  <1>5. \A n \in Names : index'[n] = IF index[n] = f THEN NoFlow ELSE index[n]
    BY <1>1
  <1>6. AuthShapes'
    BY <1>1, <1>4 DEF AuthInv, AuthShapes, fileVars
  <1>7. Places'
    BY <1>1, <1>2, <1>3, OnePlaces DEF fileVars
  <1>8. Answerable'
    <2>1. NamesMatch' /\ WaitersAreKept'
      BY <1>1, <1>3, <1>4, <1>5 DEF AuthInv, Answerable, NamesMatch, WaitersAreKept
    <2>2. NewestIsIndexed'
      BY <1>1, <1>5 DEF AuthInv, Answerable, NewestIsIndexed
    <2> QED
      BY <2>1, <2>2 DEF Answerable
  <1>9. CASE how = "failed"
    <2>1. Keeps(f)
      BY <1>1, <1>2, <1>4, <1>9, StaysKeeps DEF fileVars
    <2>2. Redeemable'
      BY <1>1, <1>2, <1>9, <2>1, OneKeeps DEF AuthInv, AuthShapes, fileVars
    <2> QED
      BY <1>6, <1>7, <1>8, <2>2 DEF AuthInv
  <1>10. CASE how = "code"
    <2>1. \A a \in Flows : code'[a] = IF a = f THEN g ELSE code[a]
      BY <1>1, <1>10 DEF AuthInv, AuthShapes
    <2>2. FilesMatch' /\ NewAreUnknown'
      BY <1>1, <1>4, <1>10
         DEF AuthInv, Redeemable, FilesMatch, FileMatches, NewAreUnknown, Knows, fileVars
    <2>3. OwnersKeepTheirs'
      <3> SUFFICES ASSUME NEW h \in Flows, Owns(h)', Clean(h)'
                   PROVE  KeepsOwn(h)'
        BY DEF OwnersKeepTheirs
      <3>1. Owns(h) /\ Clean(h)
        BY <1>1, <1>3, <1>4, <1>10 DEF Owns, Clean, Stored, Judged, fileVars
      <3>2. KeepsOwn(h)
        BY <3>1 DEF AuthInv, Redeemable, OwnersKeepTheirs
      <3>3. CASE h # f
        BY <1>1, <1>4, <2>1, <3>2, <3>3 DEF KeepsOwn, fileVars
      <3>4. CASE h = f
        BY <1>1, <1>3, <1>4, <1>10, <2>1, <3>2, <3>4
           DEF KeepsOwn, Judged, WithVerifier, WithTransport, fileVars
      <3> QED
        BY <3>3, <3>4
    <2>4. ProvesLate' /\ OwnRedeemed'
      BY <1>1, <1>3, <1>4, <2>1 DEF AuthInv, Redeemable, ProvesLate, OwnRedeemed, Late, fileVars
    <2> QED
      BY <1>6, <1>7, <1>8, <2>2, <2>3, <2>4 DEF AuthInv, Redeemable
  <1> QED
    BY <1>9, <1>10

\* The timeout of an older flow leaves the newest one without an entry: that is
\* what unindexed has.
LEMMA AuthTimesOutInv ==
    ASSUME AuthInv, NEW f \in Flows, AuthTimesOut(f)
    PROVE  AuthInv'
  <1>1. /\ f \in waiters /\ FlowGoes(f, "failed")
        /\ waiters' = waiters \ {f}
        /\ index' = [index EXCEPT ![NameOf[f]] = NoFlow]
        /\ unindexed' = IF newest[NameOf[f]] = f THEN unindexed ELSE unindexed \cup {NameOf[f]}
        /\ UNCHANGED <<port, transports, fileVars, redeemVars, newest>>
    BY DEF AuthTimesOut
  <1>2. f \in Actors /\ f \notin Names /\ NameOf[f] \in Names /\ "failed" \in FlowStates
    BY FlowsAreActors DEF FlowStates
  <1>3. flow[f] = "waits" /\ step[f] = "rest"
    BY <1>1, <1>2, RestsElsewhere
       DEF AuthInv, AuthShapes, Answerable, WaitersAreKept, Changes, Clears
  <1>4. /\ flow' \in [Actors -> FlowStates]
        /\ \A a \in Actors : flow'[a] = IF a = f THEN "failed" ELSE flow[a]
        /\ \A a \in Flows : a \in Actors
        /\ \A n \in Names : index'[n] = IF n = NameOf[f] THEN NoFlow ELSE index[n]
    BY <1>1, <1>2, OneGoes, FlowsAreActors DEF AuthInv, AuthShapes
  <1>5. AuthShapes'
    BY <1>1, <1>2, <1>4 DEF AuthInv, AuthShapes, fileVars, redeemVars
  <1>6. Places'
    BY <1>1, <1>2, <1>3, OnePlaces DEF fileVars
  <1>7. Answerable'
    <2>1. NamesMatch' /\ WaitersAreKept'
      BY <1>1, <1>3, <1>4 DEF AuthInv, Answerable, NamesMatch, WaitersAreKept
    <2>2. NewestIsIndexed'
      BY <1>1, <1>2, <1>4 DEF AuthInv, Answerable, NewestIsIndexed
    <2> QED
      BY <2>1, <2>2 DEF Answerable
  <1>8. Redeemable'
    <2>1. Keeps(f)
      BY <1>1, <1>2, <1>4, StaysKeeps DEF fileVars
    <2> QED
      BY <1>1, <1>2, <2>1, OneKeeps DEF AuthInv, AuthShapes, fileVars, redeemVars
  <1> QED
    BY <1>5, <1>6, <1>7, <1>8 DEF AuthInv

LEMMA RemoveAuthInv ==
    ASSUME AuthInv, NEW n \in Names, RemoveAuth(n)
    PROVE  AuthInv'
  <1>1. /\ flow[n] = "removed"
        /\ transports' = [transports EXCEPT ![n] = NoFlow]
        /\ waiters' = waiters \ {index[n]}
        /\ flow' = [a \in Actors |-> IF a = n THEN "new"
                                     ELSE IF a \in waiters /\ a = index[n] THEN "failed" ELSE flow[a]]
        /\ index' = [index EXCEPT ![n] = NoFlow]
        /\ UNCHANGED <<port, fileVars, redeemVars, newest, unindexed>>
    BY DEF RemoveAuth
  <1>2. /\ n \in Actors /\ n \notin Flows /\ n # NoFlow
        /\ \A f \in Flows : f \in Actors /\ f # n /\ f \notin Names
        /\ \A m \in Names : m \in Actors /\ m \notin waiters
        /\ "new" \in FlowStates /\ "failed" \in FlowStates /\ "new" \in NameStates
    BY FlowsAreActors, NamesAreActors DEF FlowStates, NameStates, AuthInv, AuthShapes
  <1>3. /\ \A a \in Actors : flow'[a] = IF a = n THEN "new"
                  ELSE IF a \in waiters /\ a = index[n] THEN "failed" ELSE flow[a]
        /\ \A m \in Names : /\ transports'[m] = IF m = n THEN NoFlow ELSE transports[m]
                            /\ index'[m] = IF m = n THEN NoFlow ELSE index[m]
    BY <1>1, <1>2 DEF AuthInv, AuthShapes
  <1>4. AuthShapes'
    BY <1>1, <1>2 DEF AuthInv, AuthShapes, fileVars, redeemVars
  <1>5. Places'
    <2>1. \A f \in Flows : f \in waiters => flow[f] = "waits"
      BY DEF AuthInv, Answerable, WaitersAreKept
    <2>2. step[n] = "rest"
      BY <1>1, <1>2, RestsElsewhere DEF Changes, Clears
    <2>3. \A m \in Names : flow'[m] \in NameStates
      BY <1>2, <1>3 DEF AuthInv, Places
    <2>4. \A f \in Flows : flow'[f] \notin {"tokens", "removes", "removed"}
      BY <1>2, <1>3 DEF AuthInv, Places
    <2>5. \A a \in Actors : step[a] # "rest" => flow'[a] = flow[a]
      <3> SUFFICES ASSUME NEW a \in Actors, step[a] # "rest" PROVE flow'[a] = flow[a]
        OBVIOUS
      <3>1. flow[a] \in Changes
        BY DEF AuthInv, Places
      <3>2. a \notin waiters
        BY <2>1, <3>1 DEF Changes, Clears, AuthInv, AuthShapes
      <3> QED
        BY <1>3, <2>2, <3>2
    <2> QED
      BY <1>1, <2>3, <2>4, <2>5 DEF AuthInv, Places, fileVars
  <1>6. Answerable'
    <2>1. NamesMatch' /\ WaitersAreKept'
      BY <1>1, <1>2, <1>3 DEF AuthInv, Answerable, NamesMatch, WaitersAreKept
    <2>2. NewestIsIndexed'
      BY <1>1, <1>3 DEF AuthInv, Answerable, NewestIsIndexed
    <2> QED
      BY <2>1, <2>2 DEF Answerable
  <1>7. Redeemable'
    <2>1. \A f \in Flows : Keeps(f)
      BY <1>1, <1>2, <1>3, StaysKeeps DEF fileVars
    <2> QED
      BY <1>1, <1>3, <2>1, HeldKept, RedeemableKept DEF AuthInv, AuthShapes, fileVars, redeemVars
  <1> QED
    BY <1>4, <1>5, <1>6, <1>7 DEF AuthInv

-----------------------------------------------------------------------------
\* The state that is stored goes into a URL.  Who owns it and is not the one that asks
\* is crossed.
LEMMA ReadStateInv ==
    ASSUME AuthInv, NEW a \in Actors, ReadState(a)
    PROVE  AuthInv'
  <1>1. PICK seen \in Seen :
           /\ FlowGoes(a, IF seen[Of(a)].state = NoFlow THEN "generates" ELSE "named")
           /\ a \in Flows => /\ urlState' = [urlState EXCEPT ![a] = seen[Of(a)].state]
                             /\ crossed' = crossed \cup ({seen[Of(a)].state} \ {a, NoFlow})
           /\ a \notin Flows => UNCHANGED <<urlState, crossed>>
    BY DEF ReadState
  <1> DEFINE state == seen[Of(a)].state
             where == IF state = NoFlow THEN "generates" ELSE "named"
  <1>2. flow[a] = "asks" /\ UNCHANGED <<port, transports, fileVars, waitVars, code, uses, proves>>
    BY DEF ReadState
  <1>3. /\ where \in {"generates", "named"} /\ where \in FlowStates /\ where \in NameStates
        /\ where \in Changes
    BY DEF FlowStates, Changes, NameStates
  <1>4. Of(a) \in Names
    BY FlowsAreActors, NamesAreActors DEF Actors
  <1>5. /\ state \in Flows \cup {NoFlow} /\ state \in {file[Of(a)].state, NoFlow}
    <2>1. seen \in Files /\ state \in {file[Of(a)].state, NoFlow}
      BY <1>4, SeenOfFile
    <2> QED
      BY <1>4, <2>1 DEF Files, Entries
  <1> HIDE DEF state, where
  <1>6. /\ FlowGoes(a, where)
        /\ a \in Flows => /\ urlState' = [urlState EXCEPT ![a] = state]
                          /\ crossed' = crossed \cup ({state} \ {a, NoFlow})
        /\ a \notin Flows => UNCHANGED <<urlState, crossed>>
    BY <1>1 DEF state, where
  <1>7. /\ \A b \in Actors : flow'[b] = IF b = a THEN where ELSE flow[b]
        /\ \A g \in Flows : urlState'[g] = IF g = a THEN state ELSE urlState[g]
        /\ crossed \subseteq crossed' /\ crossed' \subseteq Flows
        /\ \A g \in Flows : g \in Actors
    BY <1>3, <1>5, <1>6, OneGoes, FlowsAreActors DEF AuthInv, AuthShapes
  <1>8. AuthShapes'
    <2>1. flow' \in [Actors -> FlowStates] /\ urlState' \in [Flows -> Flows \cup {NoFlow}]
      BY <1>3, <1>5, <1>6, OneGoes DEF AuthInv, AuthShapes
    <2> QED
      BY <1>2, <1>7, <2>1 DEF AuthInv, AuthShapes, fileVars, waitVars
  <1>9. Places'
    <2>1. a \in Names => where \in NameStates
      BY <1>3
    <2>2. where \notin {"tokens", "removes", "removed"}
      BY <1>3
    <2> QED
      BY <1>2, <1>3, <1>6, <2>1, <2>2, OnePlaces DEF fileVars
  <1>10. Answerable'
    BY <1>2, <1>3, <1>6, OneAnswerable
  <1>11. FilesMatch'
    BY <1>2 DEF AuthInv, Redeemable, FilesMatch, FileMatches, fileVars
  <1>12. NewAreUnknown'
    <2> SUFFICES ASSUME NEW f \in Flows, flow'[f] \in {"new", "served"}
                 PROVE  /\ ~Knows(file', f)
                        /\ \A b \in Actors : ~Knows(held'[b], f)
                        /\ \A g \in Flows : urlState'[g] # f
      BY DEF NewAreUnknown, Knows
    <2>1. flow[f] \in {"new", "served"} /\ f # NoFlow
      BY <1>3, <1>7, FlowsAreActors
    <2>2. /\ ~Knows(file, f) /\ (\A b \in Actors : ~Knows(held[b], f))
          /\ \A g \in Flows : urlState[g] # f
      BY <2>1 DEF AuthInv, Redeemable, NewAreUnknown
    <2>3. state # f
      BY <1>4, <1>5, <2>1, <2>2 DEF Knows
    <2> QED
      BY <1>2, <1>7, <2>2, <2>3 DEF fileVars
  <1>13. OwnersKeepTheirs'
    <2> SUFFICES ASSUME NEW f \in Flows, Owns(f)', Clean(f)'
                 PROVE  KeepsOwn(f)'
      BY DEF OwnersKeepTheirs
    <2>1. Owns(f) /\ Clean(f)
      BY <1>2, <1>3, <1>7 DEF Owns, Clean, Stored, Judged, fileVars
    <2>2. KeepsOwn(f)
      BY <2>1 DEF AuthInv, Redeemable, OwnersKeepTheirs
    <2>3. \A g \in Flows : urlState'[g] = f => g = f
      <3> SUFFICES ASSUME NEW g \in Flows, urlState'[g] = f, g # f PROVE FALSE
        OBVIOUS
      <3>1. CASE g # a
        BY <1>7, <2>2, <3>1 DEF KeepsOwn
      <3>2. CASE g = a
        <4>1. state = f /\ a \in Flows /\ f # NoFlow
          BY <1>7, <3>2, FlowsAreActors
        <4> QED
          BY <1>6, <3>2, <4>1 DEF Clean
      <3> QED
        BY <3>1, <3>2
    <2>4. CASE f # a
      BY <1>2, <1>7, <2>2, <2>3, <2>4 DEF KeepsOwn, fileVars
    <2>5. CASE f = a
      BY <1>3, <1>7, <2>3, <2>5 DEF KeepsOwn, WithVerifier, WithTransport, Judged
    <2> QED
      BY <2>4, <2>5
  <1>14. ProvesLate' /\ OwnRedeemed'
    BY <1>2, <1>7 DEF AuthInv, Redeemable, ProvesLate, OwnRedeemed, Late, fileVars
  <1> QED
    BY <1>8, <1>9, <1>10, <1>11, <1>12, <1>13, <1>14 DEF AuthInv, Redeemable

\* A transport takes the place of another: of those that own the state, who is not
\* crossed keeps its own.
LEMMA TransportTaken ==
    ASSUME AuthInv, NEW a \in Actors, NEW where \in FlowStates, FlowGoes(a, where),
           UNCHANGED <<file, held, lost, urlState, code, uses, proves>>,
           transports' = [transports EXCEPT ![Of(a)] = a],
           crossed' = crossed \cup Owners(a, WithTransport),
           a \in Flows => flow[a] = "told" /\ where = "waits"
    PROVE  Redeemable'
  <1>1. /\ \A b \in Actors : flow'[b] = IF b = a THEN where ELSE flow[b]
        /\ \A n \in Names : transports'[n] = IF n = Of(a) THEN a ELSE transports[n]
        /\ \A f \in Flows : f \in Actors
    BY OneGoes, FlowsAreActors DEF AuthInv, AuthShapes
  <1>2. FilesMatch' /\ NewAreUnknown'
    BY <1>1 DEF AuthInv, Redeemable, FilesMatch, FileMatches, NewAreUnknown, Knows
  <1>3. OwnersKeepTheirs'
    <2> SUFFICES ASSUME NEW f \in Flows, Owns(f)', Clean(f)'
                 PROVE  KeepsOwn(f)'
      BY DEF OwnersKeepTheirs
    <2>1. Owns(f) /\ Clean(f)
      BY <1>1 DEF Owns, Clean, Stored, Judged
    <2>2. KeepsOwn(f)
      BY <2>1 DEF AuthInv, Redeemable, OwnersKeepTheirs
    <2>3. NameOf[f] \in Names /\ Of(f) = NameOf[f]
      BY FlowsAreActors
    <2>4. CASE f = a
      BY <1>1, <2>2, <2>3, <2>4 DEF KeepsOwn, Judged, WithVerifier, WithTransport
    <2>5. CASE f # a
      <3>1. flow'[f] = flow[f]
        BY <1>1, <2>5
      <3>2. flow[f] \in WithTransport => NameOf[f] # Of(a)
        <4>1. f \notin Owners(a, WithTransport)
          BY DEF Clean
        <4> QED
          BY <2>1, <2>5, <4>1 DEF Owners, Owns, Judged
      <3> QED
        BY <1>1, <2>2, <2>3, <3>1, <3>2 DEF KeepsOwn
    <2> QED
      BY <2>4, <2>5
  <1>4. ProvesLate' /\ OwnRedeemed'
    BY <1>1 DEF AuthInv, Redeemable, ProvesLate, OwnRedeemed, Late
  <1> QED
    BY <1>2, <1>3, <1>4 DEF Redeemable

\* The flow that waits now is the newest of its name.
LEMMA RedirectInv ==
    ASSUME AuthInv, NEW f \in Flows, Redirect(f)
    PROVE  AuthInv'
  <1> DEFINE n == NameOf[f]
  <1>1. /\ flow[f] = "told" /\ FlowGoes(f, "waits")
        /\ transports' = [transports EXCEPT ![n] = f]
        /\ waiters' = waiters \cup {f}
        /\ index' = [index EXCEPT ![n] = f]
        /\ newest' = [newest EXCEPT ![n] = f]
        /\ unindexed' = unindexed \ {n}
        /\ crossed' = crossed \cup Owners(f, WithTransport)
        /\ UNCHANGED <<port, fileVars, urlState, code, uses, proves>>
    BY DEF Redirect
  <1>2. /\ f \in Actors /\ f \notin Names /\ f # NoFlow /\ n \in Names /\ Of(f) = n
        /\ "waits" \in FlowStates
    BY FlowsAreActors DEF FlowStates
  <1>3. /\ flow' \in [Actors -> FlowStates]
        /\ \A g \in Flows : flow'[g] = IF g = f THEN "waits" ELSE flow[g]
        /\ \A m \in Names : /\ index'[m] = IF m = n THEN f ELSE index[m]
                            /\ newest'[m] = IF m = n THEN f ELSE newest[m]
    BY <1>1, <1>2, OneGoes, FlowsAreActors DEF AuthInv, AuthShapes
  <1>4. AuthShapes'
    <2>1. crossed' \subseteq Flows
      BY <1>1 DEF Owners, AuthInv, AuthShapes
    <2> QED
      BY <1>1, <1>2, <1>3, <2>1 DEF AuthInv, AuthShapes, fileVars
  <1>5. Places'
    BY <1>1, <1>2, OnePlaces, RestsElsewhere DEF fileVars, Changes, Clears
  <1>6. NamesMatch' /\ WaitersAreKept'
    BY <1>1, <1>3 DEF AuthInv, Answerable, NamesMatch, WaitersAreKept
  <1>7. NewestIsIndexed'
    <2> SUFFICES ASSUME NEW m \in Names, newest'[m] \in waiters'
                 PROVE  index'[m] = newest'[m] \/ m \in unindexed'
      BY DEF NewestIsIndexed
    <2>1. CASE m = n
      BY <1>3, <2>1
    <2>2. CASE m # n
      <3>1. newest[m] # f
        BY <1>2, <2>2 DEF AuthInv, Answerable, NamesMatch
      <3> QED
        BY <1>1, <1>3, <2>2, <3>1 DEF AuthInv, Answerable, NewestIsIndexed
    <2> QED
      BY <2>1, <2>2
  <1>8. Redeemable'
    BY <1>1, <1>2, TransportTaken DEF fileVars
  <1> QED
    BY <1>4, <1>5, <1>6, <1>7, <1>8 DEF AuthInv, Answerable

LEMMA ConnectedInv ==
    ASSUME AuthInv, NEW n \in Names, Connected(n)
    PROVE  AuthInv'
  <1>1. /\ flow[n] \in {"asks", "named", "told"} /\ step[n] = "rest" /\ FlowGoes(n, "new")
        /\ transports' = [transports EXCEPT ![n] = n]
        /\ crossed' = crossed \cup Owners(n, WithTransport)
        /\ UNCHANGED <<port, fileVars, waitVars, urlState, code, uses, proves>>
    BY DEF Connected
  <1>2. /\ n \in Actors /\ n \notin Flows /\ Of(n) = n
        /\ "new" \in FlowStates /\ "new" \in NameStates
    BY NamesAreActors DEF FlowStates, NameStates
  <1>3. AuthShapes'
    <2>1. crossed' \subseteq Flows
      BY <1>1 DEF Owners, AuthInv, AuthShapes
    <2> QED
      BY <1>1, <1>2, <2>1, OneGoes DEF AuthInv, AuthShapes, fileVars, waitVars
  <1>4. Places'
    BY <1>1, <1>2, OnePlaces DEF fileVars
  <1>5. Answerable'
    BY <1>1, <1>2, OneAnswerable
  <1>6. Redeemable'
    BY <1>1, <1>2, TransportTaken DEF fileVars
  <1> QED
    BY <1>3, <1>4, <1>5, <1>6 DEF AuthInv

\* Who was found to own the state takes a transport, its own if it is not crossed.
LEMMA FinishAuthInv ==
    ASSUME AuthInv, NEW f \in Flows, FinishAuth(f)
    PROVE  AuthInv'
  <1> DEFINE where == IF uses'[f] = NoFlow THEN "failed" ELSE "finishes"
  <1>1. /\ flow[f] = "checked" /\ FlowGoes(f, where)
        /\ uses' = [uses EXCEPT ![f] = transports[NameOf[f]]]
        /\ UNCHANGED <<port, transports, fileVars, waitVars, urlState, code, proves, crossed>>
    BY DEF FinishAuth
  <1>2. /\ f \in Actors /\ f \notin Names /\ f # NoFlow /\ NameOf[f] \in Names
        /\ where \in FlowStates /\ where \in {"failed", "finishes"} /\ step[f] = "rest"
    BY <1>1, FlowsAreActors, RestsElsewhere DEF FlowStates, Changes, Clears
  <1>3. /\ \A g \in Flows : flow'[g] = IF g = f THEN where ELSE flow[g]
        /\ \A g \in Flows : uses'[g] = IF g = f THEN transports[NameOf[f]] ELSE uses[g]
    BY <1>1, <1>2, OneGoes, FlowsAreActors DEF AuthInv, AuthShapes
  <1>4. AuthShapes'
    BY <1>1, <1>2, OneGoes DEF AuthInv, AuthShapes, fileVars, waitVars
  <1>5. Places'
    BY <1>1, <1>2, OnePlaces DEF fileVars
  <1>6. Answerable'
    BY <1>1, <1>2, OneAnswerable
  <1>7. FilesMatch' /\ NewAreUnknown'
    BY <1>1, <1>2, <1>3
       DEF AuthInv, Redeemable, FilesMatch, FileMatches, NewAreUnknown, Knows, fileVars
  <1>8. OwnersKeepTheirs'
    <2> SUFFICES ASSUME NEW g \in Flows, Owns(g)', Clean(g)'
                 PROVE  KeepsOwn(g)'
      BY DEF OwnersKeepTheirs
    <2>1. Owns(g) /\ Clean(g)
      BY <1>1, <1>2, <1>3 DEF Owns, Clean, Stored, Judged, fileVars
    <2>2. KeepsOwn(g)
      BY <2>1 DEF AuthInv, Redeemable, OwnersKeepTheirs
    <2>3. CASE g # f
      BY <1>1, <1>3, <2>2, <2>3 DEF KeepsOwn, fileVars
    <2>4. CASE g = f
      <3>1. where = "finishes" => uses'[f] = f
        BY <1>1, <1>3, <2>2, <2>4 DEF KeepsOwn, WithTransport
      <3>2. where = "finishes"
        BY <1>2, <1>3, <2>4 DEF Owns, Stored, Judged
      <3> QED
        BY <1>1, <1>3, <2>2, <2>4, <3>1, <3>2
           DEF KeepsOwn, WithVerifier, WithTransport, Judged, fileVars
    <2> QED
      BY <2>3, <2>4
  <1>9. ProvesLate' /\ OwnRedeemed'
    BY <1>1, <1>2, <1>3 DEF AuthInv, Redeemable, ProvesLate, OwnRedeemed, Late, fileVars
  <1> QED
    BY <1>4, <1>5, <1>6, <1>7, <1>8, <1>9 DEF AuthInv, Redeemable

\* The code, the transport and the verifier are now those it is redeemed with.
LEMMA ReadVerifierInv ==
    ASSUME AuthInv, NEW f \in Flows, ReadVerifier(f)
    PROVE  AuthInv'
  <1>1. PICK seen \in Seen :
           /\ proves' = [proves EXCEPT ![f] = seen[NameOf[f]].verifier]
           /\ FlowGoes(f, IF proves'[f] = NoFlow THEN "failed" ELSE "redeems")
    BY DEF ReadVerifier
  <1> DEFINE verifier == seen[NameOf[f]].verifier
             where == IF proves'[f] = NoFlow THEN "failed" ELSE "redeems"
  <1>2. /\ flow[f] = "finishes"
        /\ UNCHANGED <<port, transports, fileVars, waitVars, urlState, code, uses, crossed>>
    BY DEF ReadVerifier
  <1>3. /\ f \in Actors /\ f \notin Names /\ f # NoFlow /\ NameOf[f] \in Names
        /\ where \in FlowStates /\ where \in {"failed", "redeems"} /\ step[f] = "rest"
    BY <1>2, FlowsAreActors, RestsElsewhere DEF FlowStates, Changes, Clears
  <1>4. /\ verifier \in Actors \cup {NoFlow}
        /\ verifier \in {file[NameOf[f]].verifier, NoFlow}
    <2>1. seen \in Files /\ verifier \in {file[NameOf[f]].verifier, NoFlow}
      BY <1>3, SeenOfFile
    <2> QED
      BY <1>3, <2>1 DEF Files, Entries
  <1> HIDE DEF verifier
  <1>5. proves' = [proves EXCEPT ![f] = verifier] /\ FlowGoes(f, where)
    BY <1>1 DEF verifier
  <1>6. /\ \A g \in Flows : flow'[g] = IF g = f THEN where ELSE flow[g]
        /\ \A g \in Flows : proves'[g] = IF g = f THEN verifier ELSE proves[g]
    BY <1>3, <1>5, OneGoes, FlowsAreActors DEF AuthInv, AuthShapes
  <1>7. AuthShapes'
    <2>1. flow' \in [Actors -> FlowStates]
      BY <1>3, <1>5, OneGoes
    <2> QED
      BY <1>2, <1>4, <1>5, <2>1 DEF AuthInv, AuthShapes, fileVars, waitVars
  <1>8. Places'
    BY <1>2, <1>3, <1>5, OnePlaces DEF fileVars
  <1>9. Answerable'
    BY <1>2, <1>3, <1>5, OneAnswerable
  <1>10. FilesMatch' /\ NewAreUnknown'
    BY <1>2, <1>3, <1>6
       DEF AuthInv, Redeemable, FilesMatch, FileMatches, NewAreUnknown, Knows, fileVars
  <1>11. OwnersKeepTheirs'
    <2> SUFFICES ASSUME NEW g \in Flows, Owns(g)', Clean(g)'
                 PROVE  KeepsOwn(g)'
      BY DEF OwnersKeepTheirs
    <2>1. g # f
      BY <1>3, <1>6 DEF Owns, Stored, Judged
    <2>2. Owns(g) /\ Clean(g)
      BY <1>2, <1>6, <2>1 DEF Owns, Clean, Stored, Judged, fileVars
    <2>3. KeepsOwn(g)
      BY <2>2 DEF AuthInv, Redeemable, OwnersKeepTheirs
    <2> QED
      BY <1>2, <1>6, <2>1, <2>3 DEF KeepsOwn, fileVars
  <1>12. ProvesLate'
    BY <1>3, <1>6 DEF AuthInv, Redeemable, ProvesLate, Late
  <1>13. OwnRedeemed'
    <2>1. Clean(f) => KeepsOwn(f)
      BY <1>2 DEF Owns, Judged, AuthInv, Redeemable, OwnersKeepTheirs
    <2>2. Clean(f) /\ verifier # NoFlow => code[f] = f /\ uses[f] = f /\ verifier = f
      BY <1>2, <1>4, <2>1 DEF KeepsOwn, WithVerifier, Judged
    <2>3. \A g \in Flows \ {f} : proves'[g] = proves[g]
      BY <1>6
    <2> QED
      BY <1>2, <1>6, <2>2, <2>3 DEF AuthInv, Redeemable, OwnRedeemed, Clean, fileVars
  <1> QED
    BY <1>7, <1>8, <1>9, <1>10, <1>11, <1>12, <1>13 DEF AuthInv, Redeemable

-----------------------------------------------------------------------------
LEMMA AuthStepInv == AuthInv /\ [AuthNext]_authVars => AuthInv'
  <1> SUFFICES ASSUME AuthInv, [AuthNext]_authVars PROVE AuthInv'
    OBVIOUS
  <1>1. CASE UNCHANGED authVars
    <2>1. UNCHANGED <<flow, port, transports, fileVars, waitVars, redeemVars>>
      BY <1>1 DEF authVars
    <2>2. AuthShapes' /\ Places'
      BY <2>1 DEF AuthInv, AuthShapes, Places, fileVars, waitVars, redeemVars
    <2>3. Answerable'
      BY <2>1, AnswerableKept
    <2>4. \A f \in Flows : Keeps(f)
      BY <2>1, StaysKeeps DEF fileVars
    <2>5. Redeemable'
      BY <2>1, <2>4, HeldKept, RedeemableKept DEF fileVars, redeemVars
    <2> QED
      BY <2>2, <2>3, <2>5 DEF AuthInv
  <1>2. CASE AuthNext
    <2>1. ASSUME NEW a \in Actors,
                 \/ ReadEntry(a) \/ ReadData(a) \/ WriteFile(a) \/ NothingToClear(a)
                 \/ ReadState(a) \/ NeedsNone(a) \/ AskFails(a)
          PROVE  AuthInv'
      BY <2>1, ReadEntryInv, ReadDataInv, WriteFileInv, NothingToClearInv, ReadStateInv,
         NeedsNoneInv, AskFailsInv
    <2>2. ASSUME NEW f \in Flows,
                 \/ Serve(f) \/ Redirect(f) \/ AuthTimesOut(f) \/ CheckState(f)
                 \/ FinishAuth(f) \/ ReadVerifier(f) \/ AuthEnds(f)
                 \/ \E g \in Flows, how \in {"code", "failed"} : Callback(f, g, how)
                 \/ \E how \in {"failed", "redeemed"} : Redeemed(f, how)
          PROVE  AuthInv'
      BY <2>2, ServeInv, RedirectInv, AuthTimesOutInv, CheckStateInv, FinishAuthInv,
         ReadVerifierInv, AuthEndsInv, CallbackInv, RedeemedInv
    <2>3. ASSUME NEW n \in Names,
                 \/ Connected(n) \/ RemoveAuth(n)
                 \/ \E what \in {"asks", "tokens", "removes"} : Begin(n, what)
          PROVE  AuthInv'
      BY <2>3, ConnectedInv, RemoveAuthInv, BeginInv
    <2> QED
      BY <1>2, <2>1, <2>2, <2>3, ForgetTransportsInv DEF AuthNext
  <1> QED
    BY <1>1, <1>2

\* The inductive invariant: what is kept under a name is of a flow of that name, and
\* whoever owns the stored state, and is neither crossed nor of a name with a lost
\* entry, has its verifier, its transport and its code there, or none.
THEOREM AuthInvHolds == AuthSpec => []AuthInv
  BY AuthInitInv, AuthStepInv, PTL DEF AuthSpec

\* However many flows of a server overlap, time out, are removed and lose their
\* callback server, and whoever reads and writes the file in between: who waits can be
\* answered and is found, and a code is redeemed by the transport that asked for it and
\* with its verifier - with the exceptions the contract names.
THEOREM CodesAreRedeemed == AuthSpec => []AuthContract
  <1>1. AuthInv => AuthContract
    BY AuthTypesAreShapes DEF AuthInv, AuthContract, Answerable, Redeemable, NamesMatch
  <1> QED
    BY AuthInvHolds, <1>1, PTL

-----------------------------------------------------------------------------
(* PromptQueue: prompts are sent one after the other in the order they were *)
(* typed, and nothing is sent when the footer has closed.                   *)

\* Prompts are typed once, and the parts of the queue are places of what was typed.
TypedOnce == \A i, j \in DOMAIN typed : typed[i] = typed[j] => i = j

QueueShape ==
    /\ ~shut => Len(waiting) <= Len(typed) /\ (inHand # <<>> => Len(waiting) < Len(typed))
    /\ drainer = "footer" => inHand[1] \notin NewSessions
    /\ drainer = "session" => inHand[1] \in NewSessions
    /\ race = "closed" => shut
    /\ outcome # "pending" => drainer = "none" /\ shut
    /\ shut => waiting = <<>>

\* A prompt has no turn before it is at its end.
TurnsAreOfTaken ==
    /\ \A p \in Prompts : ~Contains(typed, p) => turn[p] = "none"
    /\ \A i \in DOMAIN waiting : turn[waiting[i]] = "none"
    /\ drainer \in {"footer", "session"} => turn[inHand[1]] = "none"

\* Until the footer closes, what runs is in hand, and its race is open.
RunningIsInHand ==
    ~shut => \A p \in Prompts : turn[p] = "runs" => drainer = "turn" /\ inHand = <<p>> /\ race = "open"

OneRuns == \A p, q \in Prompts : turn[p] = "runs" /\ turn[q] = "runs" => p = q

QueueInv ==
    /\ PromptQueueTypeOK /\ TypedOnce /\ QueueShape /\ TurnsAreOfTaken /\ RunningIsInHand /\ OneRuns
    /\ NothingIsLost /\ QueueIsDrained /\ ClosedIsAborted /\ FailureIsThrown

-----------------------------------------------------------------------------
\* The kinds of steps, by what they do to the queue.

\* A prompt is typed while the drainer is busy, or spent.
Queues(p) ==
    /\ ~shut /\ drainer # "none" /\ ~Contains(typed, p)
    /\ typed' = Append(typed, p) /\ waiting' = Append(waiting, p)
    /\ UNCHANGED <<offers, drainer, inHand, outcome, race, turn, sent, aborted, shut>>

\* A /new is typed that is not offered, and the drainer ends in that call.
Jams(p) ==
    /\ ~shut /\ drainer = "none" /\ ~Contains(typed, p)
    /\ ~offers /\ p \in NewSessions
    /\ waiting = <<>> /\ waiting' = <<>> /\ inHand' = <<>>
    /\ typed' = Append(typed, p)
    /\ drainer' = "spent"
    /\ UNCHANGED <<offers, outcome, race, turn, sent, aborted, shut>>

\* A prompt is typed, and the drainer begins with it.
Begins(p) ==
    /\ ~shut /\ drainer = "none" /\ ~Contains(typed, p)
    /\ waiting = <<>> /\ waiting' = <<>> /\ inHand' = <<p>>
    /\ typed' = Append(typed, p)
    /\ drainer' = IF p \in NewSessions THEN "session" ELSE "footer"
    /\ UNCHANGED <<offers, outcome, race, turn, sent, aborted, shut>>

\* The drainer goes on with the next prompt, and passes k over.
Advances(k) ==
    /\ ~shut /\ k < Len(waiting) /\ \A i \in 1 .. k : waiting[i] \in NewSessions
    /\ drainer = "session" \/ (drainer = "turn" /\ race # "open" /\ race # "error")
    /\ inHand' = <<waiting[k + 1]>> /\ waiting' = SubSeq(waiting, k + 2, Len(waiting))
    /\ drainer' = IF waiting[k + 1] \in NewSessions THEN "session" ELSE "footer"
    /\ UNCHANGED <<offers, outcome, typed, race, turn, sent, aborted, shut>>

\* The drainer comes to rest, what is left is passed over.
Rests ==
    /\ Drains
    /\ ~shut => \A i \in DOMAIN waiting : waiting[i] \in NewSessions
    /\ drainer = "footer" => shut
    /\ drainer = "turn" => race # "open" /\ race # "error"
    /\ drainer' = "none" /\ inHand' = <<>> /\ waiting' = <<>>
    /\ outcome' = IF shut THEN "returned" ELSE outcome
    /\ aborted \subseteq aborted' /\ aborted' \subseteq aborted \cup Prompts
    /\ UNCHANGED <<offers, typed, race, turn, sent, shut>>

\* The prompt in hand is sent.
Sends ==
    /\ drainer = "footer" /\ ~shut
    /\ drainer' = "turn" /\ race' = "open"
    /\ turn' = [turn EXCEPT ![inHand[1]] = "runs"]
    /\ sent' = Append(sent, inHand[1])
    /\ UNCHANGED <<offers, waiting, inHand, outcome, typed, aborted, shut>>

\* The run ends with an error.
Aborts ==
    /\ drainer = "session" \/ (drainer = "turn" /\ race = "error")
    /\ Throws
    /\ UNCHANGED <<offers, typed, race, turn, sent, aborted>>

LEMMA HandIsPrompt == QueueInv /\ Drains => inHand[1] \in Prompts /\ inHand = <<inHand[1]>>
  <1> SUFFICES ASSUME QueueInv, Drains PROVE inHand[1] \in Prompts /\ inHand = <<inHand[1]>>
    OBVIOUS
  <1>1. PICK p \in Prompts : inHand = <<p>> BY DEF QueueInv, PromptQueueTypeOK
  <1> QED BY <1>1

\* The drainer at the head of its loop, after an await.
LEMMA ShiftsOn ==
    ASSUME QueueInv, Drains, Shifts(waiting, "none"), drainer = "footer" => shut,
           drainer = "turn" => race # "open" /\ race # "error",
           aborted \subseteq aborted' /\ aborted' \subseteq aborted \cup Prompts,
           ~shut => aborted' = aborted, UNCHANGED <<offers, typed, race, turn, sent, shut>>
    PROVE  Rests \/ \E k \in Nat : Advances(k)
  <1>0. /\ waiting \in Seq(Prompts) /\ Len(waiting) \in Nat /\ DOMAIN waiting = 1 .. Len(waiting)
        /\ shut => waiting = <<>>
    BY DEF QueueInv, PromptQueueTypeOK, QueueShape
  <1>1. PICK k \in PassedOver(waiting) :
             IF k = Len(waiting) \/ shut
             THEN /\ drainer' = "none" /\ inHand' = <<>> /\ waiting' = <<>>
                  /\ outcome' = IF shut THEN "returned" ELSE outcome
             ELSE /\ drainer' = IF waiting[k + 1] \in NewSessions THEN "session" ELSE "footer"
                  /\ inHand' = <<waiting[k + 1]>>
                  /\ waiting' = SubSeq(waiting, k + 2, Len(waiting))
                  /\ UNCHANGED outcome
    BY DEF Shifts
  <1>2. k \in Nat /\ k <= Len(waiting) /\ \A i \in 1 .. k : waiting[i] \in NewSessions
    BY <1>0 DEF PassedOver
  <1>3. CASE k = Len(waiting) \/ shut
    BY <1>0, <1>1, <1>2, <1>3 DEF Rests
  <1>4. CASE ~(k = Len(waiting) \/ shut)
    <2>0. k # Len(waiting) BY <1>4
    <2>a. k \in Nat /\ Len(waiting) \in Nat /\ k <= Len(waiting) BY <1>0, <1>2
    <2>1. k < Len(waiting) BY <2>0, <2>a
    <2> QED BY <1>1, <1>2, <1>4, <2>1 DEF Advances, Drains
  <1> QED BY <1>3, <1>4

LEMMA KindsOfSteps ==
    ASSUME QueueInv, PromptQueueNext
    PROVE  \/ \E p \in Prompts :
                \/ Queues(p) \/ Begins(p) \/ Jams(p) \/ TurnEnds(p, "done") \/ TurnEnds(p, "error")
           \/ \E k \in Nat : Advances(k)
           \/ Rests \/ Sends \/ SendCloses \/ Aborts \/ Close
  <1>0. /\ waiting \in Seq(Prompts) /\ race = "closed" => shut
        /\ drainer = "none" => waiting = <<>>
    BY DEF QueueInv, PromptQueueTypeOK, QueueShape, QueueIsDrained, Drains
  <1>1. ASSUME NEW p \in Prompts, Submit(p) PROVE Queues(p) \/ Begins(p) \/ Jams(p)
    <2>1. CASE drainer # "none" BY <1>1, <2>1 DEF Submit, Queues
    <2>2. CASE drainer = "none"
      <3>1. waiting = <<>> BY <1>0, <2>2
      <3>2. Append(waiting, p) = <<p>> BY <3>1
      <3>3. Len(<<p>>) = 1 /\ <<p>>[1] = p OBVIOUS
      <3>4. PICK k \in PassedOver(<<p>>) :
                 IF k = 1 \/ shut
                 THEN /\ drainer' = "spent" /\ inHand' = <<>> /\ waiting' = <<>>
                      /\ outcome' = IF shut THEN "returned" ELSE outcome
                 ELSE /\ drainer' = IF <<p>>[k + 1] \in NewSessions THEN "session" ELSE "footer"
                      /\ inHand' = <<(<<p>>[k + 1])>>
                      /\ waiting' = SubSeq(<<p>>, k + 2, 1)
                      /\ UNCHANGED outcome
        BY <1>1, <2>2, <3>2, <3>3 DEF Submit, Shifts
      <3>5. k \in 0 .. 1 /\ (k = 1 => p \in NewSessions /\ ~offers)
        BY <3>3 DEF PassedOver
      <3>6. CASE k = 1 BY <1>1, <2>2, <3>1, <3>4, <3>5, <3>6 DEF Submit, Jams
      <3>7. CASE k = 0
        <4>1. SubSeq(<<p>>, 0 + 2, 1) = <<>> OBVIOUS
        <4>2. /\ drainer' = IF p \in NewSessions THEN "session" ELSE "footer"
              /\ inHand' = <<p>> /\ waiting' = <<>> /\ UNCHANGED outcome
          BY <1>1, <3>3, <3>4, <3>7, <4>1 DEF Submit
        <4> QED BY <1>1, <2>2, <3>1, <4>2 DEF Submit, Begins
      <3> QED BY <3>5, <3>6, <3>7
    <2> QED BY <2>1, <2>2
  <1>2. CASE FooterIsIdle
    <2>1. CASE shut BY <1>2, <2>1, ShiftsOn DEF FooterIsIdle, Drains
    <2>2. CASE ~shut BY <1>2, <2>2 DEF FooterIsIdle, Sends
    <2> QED BY <2>1, <2>2
  <1>3. CASE RaceEnds
    <2>1. CASE race = "error" BY <1>3, <2>1 DEF RaceEnds, Aborts
    <2>2. CASE race # "error"
      <3>1. inHand[1] \in Prompts BY <1>3, HandIsPrompt DEF RaceEnds, Drains
      <3>2. /\ drainer = "turn" /\ race # "open" /\ Shifts(waiting, "none")
            /\ UNCHANGED <<offers, typed, race, turn, sent, shut>>
        BY <1>3, <2>2 DEF RaceEnds
      <3>3. aborted' = IF race = "closed" THEN aborted \cup {inHand[1]} ELSE aborted
        BY <1>3, <2>2 DEF RaceEnds
      <3>4. /\ aborted \subseteq aborted' /\ aborted' \subseteq aborted \cup Prompts
            /\ ~shut => aborted' = aborted
        <4>1. aborted \subseteq aborted' /\ aborted' \subseteq aborted \cup Prompts BY <3>1, <3>3
        <4>2. ~shut => race # "closed" BY DEF QueueInv, QueueShape
        <4> QED BY <3>3, <4>1, <4>2
      <3> QED BY <2>2, <3>2, <3>4, ShiftsOn DEF Drains
    <2> QED BY <2>1, <2>2
  <1>4. CASE SessionIsNew BY <1>4, ShiftsOn DEF SessionIsNew, Drains
  <1>5. CASE SessionFails BY <1>5 DEF SessionFails, Aborts
  <1> QED BY <1>1, <1>2, <1>3, <1>4, <1>5 DEF PromptQueueNext

\* What the parts are.
QueueParts ==
    /\ typed \in Seq(Prompts) /\ waiting \in Seq(Prompts) /\ Len(typed) \in Nat /\ Len(waiting) \in Nat
    /\ DOMAIN typed = 1 .. Len(typed) /\ DOMAIN waiting = 1 .. Len(waiting)
    /\ sent \in Seq(Prompts \ NewSessions) /\ Len(sent) \in Nat /\ DOMAIN sent = 1 .. Len(sent)
    /\ offers \in BOOLEAN
    /\ drainer \in {"none", "footer", "session", "turn", "spent"} /\ race \in {"open", "done", "error", "closed"}
    /\ outcome \in {"pending", "returned", "thrown"} /\ turn \in [Prompts -> {"none", "runs", "done", "error"}]
    /\ shut \in BOOLEAN /\ aborted \subseteq Prompts
    /\ Drains <=> inHand # <<>>
    /\ drainer = "turn" => inHand[1] \notin NewSessions
    /\ Drains => inHand[1] \in Prompts /\ inHand = <<inHand[1]>>

LEMMA QueueHasParts == QueueInv => QueueParts
  <1> SUFFICES ASSUME QueueInv PROVE QueueParts OBVIOUS
  <1> QED BY HandIsPrompt DEF QueueInv, PromptQueueTypeOK, QueueParts

\* What was sent are the prompts that were due, in their order.
SentIsDue ==
    /\ Range(sent) = {typed[i] : i \in Due}
    /\ \A k, l \in DOMAIN sent : k < l =>
          \E i, j \in Due : i < j /\ typed[i] = sent[k] /\ typed[j] = sent[l]

LEMMA SentStaysDue ==
    ASSUME SentIsDue, UNCHANGED sent, Due' = Due, \A i \in Due : typed'[i] = typed[i]
    PROVE  SentIsDue'
  BY DEF SentIsDue, Range

LEMMA QueuesInv ==
    ASSUME QueueInv, NEW p \in Prompts, Queues(p)
    PROVE  QueueInv'
  <1> USE DEF QueueParts, Drains
  <1>0. QueueParts BY QueueHasParts
  <1>i. /\ TypedOnce /\ QueueShape /\ TurnsAreOfTaken /\ RunningIsInHand /\ OneRuns
        /\ NothingIsLost /\ QueueIsDrained /\ ClosedIsAborted /\ FailureIsThrown
    BY DEF QueueInv
  <1>t. /\ DOMAIN typed' = 1 .. Len(typed) + 1 /\ Len(typed') = Len(typed) + 1 /\ typed' \in Seq(Prompts)
        /\ \A i \in 1 .. Len(typed) : typed'[i] = typed[i]
        /\ typed'[Len(typed) + 1] = p
    BY <1>0 DEF Queues
  <1>w. /\ DOMAIN waiting' = 1 .. Len(waiting) + 1 /\ Len(waiting') = Len(waiting) + 1 /\ waiting' \in Seq(Prompts)
        /\ \A i \in 1 .. Len(waiting) : waiting'[i] = waiting[i]
        /\ waiting'[Len(waiting) + 1] = p
    BY <1>0 DEF Queues
  <1>1. PromptQueueTypeOK'
    BY <1>0, <1>i, <1>t, <1>w
       DEF Queues, PromptQueueTypeOK, QueueShape, TypedOnce, RunningIsInHand, TurnsAreOfTaken,
           ClosedIsAborted
  <1>2. TypedOnce'
    BY <1>0, <1>i, <1>t, <1>w
    DEF Queues, TypedOnce, Contains
  <1>3. QueueShape'
    BY <1>0, <1>i, <1>t, <1>w
    DEF Queues, QueueShape, TypedOnce, RunningIsInHand, TurnsAreOfTaken, ClosedIsAborted
  <1>4. TurnsAreOfTaken'
    BY <1>0, <1>i, <1>t, <1>w
    DEF Queues, TurnsAreOfTaken, Contains, QueueShape, TypedOnce
  <1>5. RunningIsInHand'
    BY <1>0, <1>i, <1>t, <1>w
    DEF Queues, RunningIsInHand, QueueShape, TypedOnce, TurnsAreOfTaken, ClosedIsAborted
  <1>6. OneRuns'
    BY <1>0, <1>i, <1>t, <1>w
    DEF Queues, OneRuns, QueueShape, TypedOnce, RunningIsInHand, TurnsAreOfTaken, ClosedIsAborted
  <1>7. NothingIsLost'
    <2> SUFFICES ASSUME ~shut' PROVE NothingIsLost' BY DEF NothingIsLost
    <2>1. ~shut BY DEF Queues
    <2>2. /\ SentIsDue /\ Shifted \in Int /\ Due \subseteq 1 .. Shifted
          /\ \A i \in DOMAIN waiting : waiting[i] = typed[Shifted + i]
          /\ inHand # <<>> => inHand = <<typed[Shifted]>>
      BY <1>0, <1>i, <2>1 DEF NothingIsLost, SentIsDue, Shifted, Due
    <2>3. Shifted' = Shifted /\ Shifted <= Len(typed) BY <1>0, <1>t, <1>w DEF Shifted
    <2>a. ASSUME NEW i \in DOMAIN waiting' PROVE waiting'[i] = typed'[Shifted' + i]
      <3>1. CASE i = Len(waiting) + 1
        <4>1. Shifted + i = Len(typed) + 1 BY <1>0, <3>1 DEF Shifted
        <4> QED BY <1>t, <1>w, <2>3, <3>1, <4>1
      <3>2. CASE i # Len(waiting) + 1
        <4>1. i \in DOMAIN waiting /\ i \in 1 .. Len(waiting) BY <1>0, <1>w, <3>2
        <4>2. Shifted + i \in 1 .. Len(typed)
          BY <1>0, <1>i, <2>1, <4>1 DEF Shifted, QueueShape
        <4> QED BY <1>t, <1>w, <2>2, <2>3, <4>1, <4>2
      <3> QED BY <3>1, <3>2
    <2>b. inHand' # <<>> => inHand' = <<typed'[Shifted']>>
      <3> SUFFICES ASSUME inHand # <<>> PROVE inHand = <<typed'[Shifted']>> BY DEF Queues
      <3>1. Shifted \in 1 .. Len(typed) BY <1>0, <1>i, <2>1, <2>3 DEF QueueShape, Shifted
      <3> QED BY <1>t, <2>2, <2>3, <3>1
    <2>c. SentIsDue'
      <3>1. Due' = Due BY <1>0, <1>t, <2>2, <2>3 DEF Due, Queues
      <3>2. \A i \in Due : typed'[i] = typed[i] BY <1>0, <1>t, <2>2, <2>3
      <3> QED BY <2>2, <3>1, <3>2, SentStaysDue DEF Queues
    <2> QED BY <2>a, <2>b, <2>c DEF NothingIsLost, SentIsDue
  <1>8. QueueIsDrained'
    BY <1>0, <1>i, <1>t, <1>w
       DEF Queues, QueueIsDrained, QueueShape, TypedOnce, RunningIsInHand, TurnsAreOfTaken,
           ClosedIsAborted
  <1>9. ClosedIsAborted'
    BY <1>0, <1>i, <1>t, <1>w
    DEF Queues, ClosedIsAborted, QueueShape, TypedOnce, RunningIsInHand, TurnsAreOfTaken
  <1>10. FailureIsThrown'
    BY <1>0, <1>i, <1>t, <1>w
       DEF Queues, FailureIsThrown, QueueShape, TypedOnce, RunningIsInHand, TurnsAreOfTaken,
           ClosedIsAborted
  <1> QED BY <1>1, <1>2, <1>3, <1>4, <1>5, <1>6, <1>7, <1>8, <1>9, <1>10 DEF QueueInv

LEMMA BeginsInv ==
    ASSUME QueueInv, NEW p \in Prompts, Begins(p)
    PROVE  QueueInv'
  <1> USE DEF QueueParts, Drains
  <1>0. QueueParts BY QueueHasParts
  <1>i. /\ TypedOnce /\ QueueShape /\ TurnsAreOfTaken /\ RunningIsInHand /\ OneRuns
        /\ NothingIsLost /\ QueueIsDrained /\ ClosedIsAborted /\ FailureIsThrown
    BY DEF QueueInv
  <1>t. /\ DOMAIN typed' = 1 .. Len(typed) + 1 /\ Len(typed') = Len(typed) + 1 /\ typed' \in Seq(Prompts)
        /\ \A i \in 1 .. Len(typed) : typed'[i] = typed[i]
        /\ typed'[Len(typed) + 1] = p
    BY <1>0 DEF Begins
  <1>w. waiting = <<>> /\ waiting' = <<>> /\ Len(waiting) = 0 /\ Len(waiting') = 0 /\ DOMAIN waiting' = {} /\ inHand' = <<p>> /\ inHand'[1] = p
    BY DEF Begins
  <1>1. PromptQueueTypeOK'
    BY <1>0, <1>i, <1>t, <1>w
       DEF Begins, PromptQueueTypeOK, QueueShape, TypedOnce, RunningIsInHand, TurnsAreOfTaken,
           ClosedIsAborted
  <1>2. TypedOnce'
    BY <1>0, <1>i, <1>t, <1>w
    DEF Begins, TypedOnce, Contains
  <1>3. QueueShape'
    BY <1>0, <1>i, <1>t, <1>w
    DEF Begins, QueueShape, TypedOnce, RunningIsInHand, TurnsAreOfTaken, ClosedIsAborted
  <1>4. TurnsAreOfTaken'
    BY <1>0, <1>i, <1>t, <1>w
    DEF Begins, TurnsAreOfTaken, Contains, QueueShape, TypedOnce
  <1>5. RunningIsInHand'
    BY <1>0, <1>i, <1>t, <1>w
    DEF Begins, RunningIsInHand, QueueShape, TypedOnce, TurnsAreOfTaken, ClosedIsAborted
  <1>6. OneRuns'
    BY <1>0, <1>i, <1>t, <1>w
    DEF Begins, OneRuns, QueueShape, TypedOnce, RunningIsInHand, TurnsAreOfTaken, ClosedIsAborted
  <1>7. NothingIsLost'
    <2> SUFFICES ASSUME ~shut' PROVE NothingIsLost' BY DEF NothingIsLost
    <2>1. ~shut BY DEF Begins
    <2>2. /\ SentIsDue /\ Shifted \in Int /\ Due \subseteq 1 .. Shifted
          /\ \A i \in DOMAIN waiting : waiting[i] = typed[Shifted + i]
          /\ inHand # <<>> => inHand = <<typed[Shifted]>>
      BY <1>0, <1>i, <2>1 DEF NothingIsLost, SentIsDue, Shifted, Due
    <2>3. Shifted' = Len(typed) + 1 /\ Shifted = Len(typed) BY <1>0, <1>t, <1>w DEF Shifted
    <2>a. \A i \in DOMAIN waiting' : waiting'[i] = typed'[Shifted' + i]
      BY <1>w
    <2>b. inHand' # <<>> => inHand' = <<typed'[Shifted']>>
      BY <1>t, <1>w, <2>3
    <2>c. SentIsDue'
      <3>1. Due' = Due
        <4>1. \A i \in 1 .. Shifted : i \in Due <=> typed[i] \notin NewSessions
          BY DEF Due, Begins
        <4>2. \A i \in 1 .. Shifted' : i \in Due' <=> typed'[i] \notin NewSessions /\ (i = Shifted' => drainer' # "footer")
          BY DEF Due
        <4>3. Shifted' \notin Due' BY <1>t, <2>3, <4>2 DEF Begins, Due
        <4>4. Due' \subseteq 1 .. Shifted' BY DEF Due
        <4>5. \A i \in 1 .. Shifted : i # Shifted' /\ i \in 1 .. Shifted' /\ typed'[i] = typed[i]
          BY <1>0, <1>t, <2>3
        <4>6. \A i \in 1 .. Shifted' : i = Shifted' \/ i \in 1 .. Shifted BY <1>0, <2>3
        <4> QED BY <2>2, <4>1, <4>2, <4>3, <4>4, <4>5, <4>6
      <3>2. \A i \in Due : typed'[i] = typed[i] BY <1>0, <1>t, <2>2, <2>3
      <3> QED BY <2>2, <3>1, <3>2, SentStaysDue DEF Begins
    <2> QED BY <2>a, <2>b, <2>c DEF NothingIsLost, SentIsDue
  <1>8. QueueIsDrained'
    BY <1>0, <1>i, <1>t, <1>w
       DEF Begins, QueueIsDrained, QueueShape, TypedOnce, RunningIsInHand, TurnsAreOfTaken,
           ClosedIsAborted
  <1>9. ClosedIsAborted'
    BY <1>0, <1>i, <1>t, <1>w
    DEF Begins, ClosedIsAborted, QueueShape, TypedOnce, RunningIsInHand, TurnsAreOfTaken
  <1>10. FailureIsThrown'
    BY <1>0, <1>i, <1>t, <1>w
       DEF Begins, FailureIsThrown, QueueShape, TypedOnce, RunningIsInHand, TurnsAreOfTaken,
           ClosedIsAborted
  <1> QED BY <1>1, <1>2, <1>3, <1>4, <1>5, <1>6, <1>7, <1>8, <1>9, <1>10 DEF QueueInv

LEMMA JamsInv ==
    ASSUME QueueInv, NEW p \in Prompts, Jams(p)
    PROVE  QueueInv'
  <1> USE DEF QueueParts, Drains
  <1>0. QueueParts BY QueueHasParts
  <1>i. /\ TypedOnce /\ QueueShape /\ TurnsAreOfTaken /\ RunningIsInHand /\ OneRuns
        /\ NothingIsLost /\ QueueIsDrained /\ ClosedIsAborted /\ FailureIsThrown
    BY DEF QueueInv
  <1>t. /\ DOMAIN typed' = 1 .. Len(typed) + 1 /\ Len(typed') = Len(typed) + 1 /\ typed' \in Seq(Prompts)
        /\ \A i \in 1 .. Len(typed) : typed'[i] = typed[i]
        /\ typed'[Len(typed) + 1] = p
    BY <1>0 DEF Jams
  <1>w. waiting = <<>> /\ waiting' = <<>> /\ Len(waiting) = 0 /\ Len(waiting') = 0 /\ DOMAIN waiting' = {} /\ inHand' = <<>>
    BY DEF Jams
  <1>1. PromptQueueTypeOK'
    BY <1>0, <1>i, <1>t, <1>w
       DEF Jams, PromptQueueTypeOK, QueueShape, TypedOnce, RunningIsInHand, TurnsAreOfTaken,
           ClosedIsAborted
  <1>2. TypedOnce'
    BY <1>0, <1>i, <1>t, <1>w
    DEF Jams, TypedOnce, Contains
  <1>3. QueueShape'
    BY <1>0, <1>i, <1>t, <1>w
    DEF Jams, QueueShape, TypedOnce, RunningIsInHand, TurnsAreOfTaken, ClosedIsAborted
  <1>4. TurnsAreOfTaken'
    BY <1>0, <1>i, <1>t, <1>w
    DEF Jams, TurnsAreOfTaken, Contains, QueueShape, TypedOnce
  <1>5. RunningIsInHand'
    BY <1>0, <1>i, <1>t, <1>w
    DEF Jams, RunningIsInHand, QueueShape, TypedOnce, TurnsAreOfTaken, ClosedIsAborted
  <1>6. OneRuns'
    BY <1>0, <1>i, <1>t, <1>w
    DEF Jams, OneRuns, QueueShape, TypedOnce, RunningIsInHand, TurnsAreOfTaken, ClosedIsAborted
  <1>7. NothingIsLost'
    <2> SUFFICES ASSUME ~shut' PROVE NothingIsLost' BY DEF NothingIsLost
    <2>1. ~shut BY DEF Jams
    <2>2. /\ SentIsDue /\ Shifted \in Int /\ Due \subseteq 1 .. Shifted
          /\ \A i \in DOMAIN waiting : waiting[i] = typed[Shifted + i]
          /\ inHand # <<>> => inHand = <<typed[Shifted]>>
      BY <1>0, <1>i, <2>1 DEF NothingIsLost, SentIsDue, Shifted, Due
    <2>3. Shifted' = Len(typed) + 1 /\ Shifted = Len(typed) BY <1>0, <1>t, <1>w DEF Shifted
    <2>a. \A i \in DOMAIN waiting' : waiting'[i] = typed'[Shifted' + i]
      BY <1>w
    <2>b. inHand' # <<>> => inHand' = <<typed'[Shifted']>>
      BY <1>t, <1>w, <2>3
    <2>c. SentIsDue'
      <3>1. Due' = Due
        <4>1. \A i \in 1 .. Shifted : i \in Due <=> typed[i] \notin NewSessions
          BY DEF Due, Jams
        <4>2. \A i \in 1 .. Shifted' : i \in Due' <=> typed'[i] \notin NewSessions /\ (i = Shifted' => drainer' # "footer")
          BY DEF Due
        <4>3. Shifted' \notin Due' BY <1>t, <2>3, <4>2 DEF Jams, Due
        <4>4. Due' \subseteq 1 .. Shifted' BY DEF Due
        <4>5. \A i \in 1 .. Shifted : i # Shifted' /\ i \in 1 .. Shifted' /\ typed'[i] = typed[i]
          BY <1>0, <1>t, <2>3
        <4>6. \A i \in 1 .. Shifted' : i = Shifted' \/ i \in 1 .. Shifted BY <1>0, <2>3
        <4> QED BY <2>2, <4>1, <4>2, <4>3, <4>4, <4>5, <4>6
      <3>2. \A i \in Due : typed'[i] = typed[i] BY <1>0, <1>t, <2>2, <2>3
      <3> QED BY <2>2, <3>1, <3>2, SentStaysDue DEF Jams
    <2> QED BY <2>a, <2>b, <2>c DEF NothingIsLost, SentIsDue
  <1>8. QueueIsDrained'
    BY <1>0, <1>i, <1>t, <1>w
       DEF Jams, QueueIsDrained, QueueShape, TypedOnce, RunningIsInHand, TurnsAreOfTaken,
           ClosedIsAborted
  <1>9. ClosedIsAborted'
    BY <1>0, <1>i, <1>t, <1>w
    DEF Jams, ClosedIsAborted, QueueShape, TypedOnce, RunningIsInHand, TurnsAreOfTaken
  <1>10. FailureIsThrown'
    BY <1>0, <1>i, <1>t, <1>w
       DEF Jams, FailureIsThrown, QueueShape, TypedOnce, RunningIsInHand, TurnsAreOfTaken,
           ClosedIsAborted
  <1> QED BY <1>1, <1>2, <1>3, <1>4, <1>5, <1>6, <1>7, <1>8, <1>9, <1>10 DEF QueueInv

LEMMA AdvancesInv ==
    ASSUME QueueInv, NEW k \in Nat, Advances(k)
    PROVE  QueueInv'
  <1> USE DEF QueueParts, Drains
  <1>0. QueueParts BY QueueHasParts
  <1>i. /\ TypedOnce /\ QueueShape /\ TurnsAreOfTaken /\ RunningIsInHand /\ OneRuns
        /\ NothingIsLost /\ QueueIsDrained /\ ClosedIsAborted /\ FailureIsThrown
    BY DEF QueueInv
  <1> DEFINE n == Len(waiting) - (k + 1)
  <1>w. /\ k < Len(waiting) /\ Len(waiting') = n /\ n \in Nat /\ DOMAIN waiting' = 1 .. n
        /\ waiting' \in Seq(Prompts) /\ waiting[k + 1] \in Prompts /\ k + 1 \in DOMAIN waiting
        /\ \A i \in 1 .. n : waiting'[i] = waiting[i + (k + 1)]
        /\ inHand' = <<waiting[k + 1]>> /\ inHand'[1] = waiting[k + 1]
    <2>1. k < Len(waiting) /\ waiting' = SubSeq(waiting, k + 2, Len(waiting)) BY DEF Advances
    <2>2. k + 2 \in Nat /\ Len(waiting) \in Nat /\ k + 2 <= Len(waiting) + 1 /\ k + 1 \in DOMAIN waiting
      BY <1>0, <2>1
    <2>3. Len(waiting') = n /\ n \in Nat /\ DOMAIN waiting' = 1 .. n
      BY <1>0, <2>1, <2>2
    <2>4. \A i \in 1 .. n : waiting'[i] = waiting[i + (k + 1)]
      <3>1. \A i \in 1 .. n : waiting'[i] = waiting[(k + 2) + i - 1] BY <1>0, <2>1, <2>2
      <3>2. \A i \in 1 .. n : (k + 2) + i - 1 = i + (k + 1) BY <2>3
      <3> QED BY <3>1, <3>2
    <2>5. waiting' \in Seq(Prompts) BY <1>0, <2>1, <2>2
    <2> QED BY <1>0, <2>1, <2>2, <2>3, <2>4, <2>5 DEF Advances
  <1>n. n = Len(waiting) - (k + 1) OBVIOUS
  <1> HIDE DEF n
  <1>1. PromptQueueTypeOK'
    BY <1>0, <1>i, <1>w
       DEF Advances, PromptQueueTypeOK, QueueShape, TypedOnce, RunningIsInHand, TurnsAreOfTaken,
           ClosedIsAborted
  <1>2. TypedOnce'
    BY <1>0, <1>i, <1>w
    DEF Advances, TypedOnce, Contains
  <1>3. QueueShape'
    BY <1>0, <1>i, <1>w
    DEF Advances, QueueShape, TypedOnce, RunningIsInHand, TurnsAreOfTaken, ClosedIsAborted
  <1>4. TurnsAreOfTaken'
    <2>1. /\ \A q \in Prompts : ~Contains(typed, q) => turn[q] = "none"
          /\ \A i \in DOMAIN waiting : turn[waiting[i]] = "none"
      BY <1>i DEF TurnsAreOfTaken
    <2>2. ASSUME NEW i \in DOMAIN waiting' PROVE turn[waiting'[i]] = "none"
      <3>1. i + (k + 1) \in DOMAIN waiting /\ waiting'[i] = waiting[i + (k + 1)] BY <1>0, <1>n, <1>w
      <3> QED BY <2>1, <3>1
    <2>3. turn[inHand'[1]] = "none"
      BY <1>0, <1>w, <2>1
    <2> QED BY <2>1, <2>2, <2>3 DEF TurnsAreOfTaken, Advances, Contains
  <1>5. RunningIsInHand'
    BY <1>0, <1>i, <1>w
    DEF Advances, RunningIsInHand, QueueShape, TypedOnce, TurnsAreOfTaken, ClosedIsAborted
  <1>6. OneRuns'
    BY <1>0, <1>i, <1>w
    DEF Advances, OneRuns, QueueShape, TypedOnce, RunningIsInHand, TurnsAreOfTaken, ClosedIsAborted
  <1>7. NothingIsLost'
    <2> SUFFICES ASSUME ~shut' PROVE NothingIsLost' BY DEF NothingIsLost
    <2>1. ~shut BY DEF Advances
    <2>2. /\ SentIsDue /\ Shifted \in Int /\ Due \subseteq 1 .. Shifted
          /\ \A i \in DOMAIN waiting : waiting[i] = typed[Shifted + i]
          /\ inHand # <<>> => inHand = <<typed[Shifted]>>
      BY <1>0, <1>i, <2>1 DEF NothingIsLost, SentIsDue, Shifted, Due
    <2>3. Shifted' = Shifted + (k + 1) /\ UNCHANGED typed
      <3>1. Len(typed) \in Nat /\ Len(waiting) \in Nat /\ UNCHANGED typed BY <1>0 DEF Advances
      <3>2. Len(waiting') = Len(waiting) - (k + 1) BY <1>n, <1>w
      <3> QED BY <3>1, <3>2 DEF Shifted
    <2>a. ASSUME NEW i \in DOMAIN waiting' PROVE waiting'[i] = typed'[Shifted' + i]
      <3>1. i + (k + 1) \in DOMAIN waiting /\ waiting'[i] = waiting[i + (k + 1)] BY <1>0, <1>n, <1>w
      <3>2. Shifted + (i + (k + 1)) = Shifted' + i BY <1>w, <2>2, <2>3
      <3> QED BY <2>2, <2>3, <3>1, <3>2
    <2>4. waiting[k + 1] = typed[Shifted'] BY <1>0, <1>w, <2>2, <2>3
    <2>b. inHand' # <<>> => inHand' = <<typed'[Shifted']>>
      BY <1>w, <2>3, <2>4
    <2>c. SentIsDue'
      <3>1. Due' = Due
        <4>1. \A i \in 1 .. Shifted : i \in Due <=> typed[i] \notin NewSessions
          BY DEF Due, Advances
        <4>2. \A i \in 1 .. Shifted' : i \in Due' <=> typed[i] \notin NewSessions /\ (i = Shifted' => drainer' # "footer")
          BY <2>3 DEF Due
        <4>3. Shifted' \notin Due' BY <2>4, <4>2 DEF Advances, Due
        <4>4. Due' \subseteq 1 .. Shifted' BY DEF Due
        <4>5. \A i \in 1 .. Shifted : i # Shifted' /\ i \in 1 .. Shifted' BY <2>2, <2>3
        <4>6. ASSUME NEW i \in 1 .. Shifted', i # Shifted', i \notin 1 .. Shifted
              PROVE  typed[i] \in NewSessions
          <5>1. i - Shifted \in 1 .. k /\ Shifted + (i - Shifted) = i BY <2>2, <2>3, <4>6
          <5>2. i - Shifted \in DOMAIN waiting BY <1>0, <1>w, <5>1
          <5>3. waiting[i - Shifted] = typed[i] BY <2>2, <5>1, <5>2
          <5> QED BY <5>1, <5>3 DEF Advances
        <4> QED BY <2>2, <4>1, <4>2, <4>3, <4>4, <4>5, <4>6
      <3> QED BY <2>2, <2>3, <3>1, SentStaysDue DEF Advances
    <2> QED BY <2>a, <2>b, <2>c DEF NothingIsLost, SentIsDue
  <1>8. QueueIsDrained'
    BY <1>0, <1>i, <1>w
       DEF Advances, QueueIsDrained, QueueShape, TypedOnce, RunningIsInHand, TurnsAreOfTaken,
           ClosedIsAborted
  <1>9. ClosedIsAborted'
    BY <1>0, <1>i, <1>w
    DEF Advances, ClosedIsAborted, QueueShape, TypedOnce, RunningIsInHand, TurnsAreOfTaken
  <1>10. FailureIsThrown'
    BY <1>0, <1>i, <1>w
       DEF Advances, FailureIsThrown, QueueShape, TypedOnce, RunningIsInHand, TurnsAreOfTaken,
           ClosedIsAborted
  <1> QED BY <1>1, <1>2, <1>3, <1>4, <1>5, <1>6, <1>7, <1>8, <1>9, <1>10 DEF QueueInv

LEMMA RestsInv ==
    ASSUME QueueInv, Rests
    PROVE  QueueInv'
  <1> USE DEF QueueParts, Drains
  <1>0. QueueParts BY QueueHasParts
  <1>i. /\ TypedOnce /\ QueueShape /\ TurnsAreOfTaken /\ RunningIsInHand /\ OneRuns
        /\ NothingIsLost /\ QueueIsDrained /\ ClosedIsAborted /\ FailureIsThrown
    BY DEF QueueInv
  <1>w. waiting' = <<>> /\ Len(waiting') = 0 /\ DOMAIN waiting' = {} /\ waiting' \in Seq(Prompts)
    BY DEF Rests
  <1>1. PromptQueueTypeOK'
    BY <1>0, <1>i, <1>w
       DEF Rests, PromptQueueTypeOK, QueueShape, TypedOnce, RunningIsInHand, TurnsAreOfTaken,
           ClosedIsAborted
  <1>2. TypedOnce'
    BY <1>0, <1>i, <1>w
    DEF Rests, TypedOnce, Contains
  <1>3. QueueShape'
    BY <1>0, <1>i, <1>w
    DEF Rests, QueueShape, TypedOnce, RunningIsInHand, TurnsAreOfTaken, ClosedIsAborted
  <1>4. TurnsAreOfTaken'
    BY <1>0, <1>i, <1>w
    DEF Rests, TurnsAreOfTaken, Contains, QueueShape, TypedOnce
  <1>5. RunningIsInHand'
    BY <1>0, <1>i, <1>w
    DEF Rests, RunningIsInHand, QueueShape, TypedOnce, TurnsAreOfTaken, ClosedIsAborted
  <1>6. OneRuns'
    BY <1>0, <1>i, <1>w
    DEF Rests, OneRuns, QueueShape, TypedOnce, RunningIsInHand, TurnsAreOfTaken, ClosedIsAborted
  <1>7. NothingIsLost'
    <2> SUFFICES ASSUME ~shut' PROVE NothingIsLost' BY DEF NothingIsLost
    <2>1. ~shut BY DEF Rests
    <2>2. /\ SentIsDue /\ Shifted \in Int /\ Due \subseteq 1 .. Shifted
          /\ \A i \in DOMAIN waiting : waiting[i] = typed[Shifted + i]
          /\ inHand # <<>> => inHand = <<typed[Shifted]>>
      BY <1>0, <1>i, <2>1 DEF NothingIsLost, SentIsDue, Shifted, Due
    <2>3. Shifted' = Len(typed) /\ UNCHANGED typed /\ drainer # "footer" /\ Shifted <= Len(typed)
      BY <1>0, <1>w, <2>1 DEF Shifted, Rests
    <2>a. \A i \in DOMAIN waiting' : waiting'[i] = typed'[Shifted' + i]
      BY <1>w
    <2>b. inHand' # <<>> => inHand' = <<typed'[Shifted']>>
      BY DEF Rests
    <2>c. SentIsDue'
      <3>1. Due' = Due
        <4>1. ASSUME NEW i \in 1 .. Shifted', i \notin 1 .. Shifted PROVE typed[i] \in NewSessions
          <5>1. i - Shifted \in DOMAIN waiting /\ Shifted + (i - Shifted) = i
            BY <1>0, <2>2, <2>3, <4>1 DEF Shifted
          <5>2. waiting[i - Shifted] = typed[i] BY <2>2, <5>1
          <5> QED BY <2>1, <5>1, <5>2 DEF Rests
        <4>2. \A i \in 1 .. Shifted : i \in 1 .. Shifted' BY <2>2, <2>3
        <4>3. \A i \in 1 .. Shifted : i \in Due <=> typed[i] \notin NewSessions BY <2>3 DEF Due
        <4>4. \A i \in 1 .. Shifted' : i \in Due' <=> typed[i] \notin NewSessions
          BY <2>3 DEF Due, Rests
        <4>5. Due' \subseteq 1 .. Shifted' BY DEF Due
        <4> QED BY <2>2, <4>1, <4>2, <4>3, <4>4, <4>5
      <3> QED BY <2>2, <2>3, <3>1, SentStaysDue DEF Rests
    <2> QED BY <2>a, <2>b, <2>c DEF NothingIsLost, SentIsDue
  <1>8. QueueIsDrained'
    BY <1>0, <1>i, <1>w
       DEF Rests, QueueIsDrained, QueueShape, TypedOnce, RunningIsInHand, TurnsAreOfTaken,
           ClosedIsAborted
  <1>9. ClosedIsAborted'
    BY <1>0, <1>i, <1>w
    DEF Rests, ClosedIsAborted, QueueShape, TypedOnce, RunningIsInHand, TurnsAreOfTaken
  <1>10. FailureIsThrown'
    BY <1>0, <1>i, <1>w
       DEF Rests, FailureIsThrown, QueueShape, TypedOnce, RunningIsInHand, TurnsAreOfTaken,
           ClosedIsAborted
  <1> QED BY <1>1, <1>2, <1>3, <1>4, <1>5, <1>6, <1>7, <1>8, <1>9, <1>10 DEF QueueInv

LEMMA SendsInv ==
    ASSUME QueueInv, Sends
    PROVE  QueueInv'
  <1> USE DEF QueueParts, Drains
  <1>0. QueueParts BY QueueHasParts
  <1>i. /\ TypedOnce /\ QueueShape /\ TurnsAreOfTaken /\ RunningIsInHand /\ OneRuns
        /\ NothingIsLost /\ QueueIsDrained /\ ClosedIsAborted /\ FailureIsThrown
    BY DEF QueueInv
  <1>s. /\ DOMAIN sent' = 1 .. Len(sent) + 1 /\ Len(sent') = Len(sent) + 1 /\ sent' \in Seq(Prompts \ NewSessions)
        /\ \A i \in 1 .. Len(sent) : sent'[i] = sent[i]
        /\ sent'[Len(sent) + 1] = inHand[1]
    BY <1>0, <1>i DEF Sends, QueueShape
  <1>1. PromptQueueTypeOK'
    BY <1>0, <1>i, <1>s
       DEF Sends, PromptQueueTypeOK, QueueShape, TypedOnce, RunningIsInHand, TurnsAreOfTaken,
           ClosedIsAborted
  <1>2. TypedOnce'
    BY <1>0, <1>i, <1>s
    DEF Sends, TypedOnce, Contains
  <1>3. QueueShape'
    BY <1>0, <1>i, <1>s
    DEF Sends, QueueShape, TypedOnce, RunningIsInHand, TurnsAreOfTaken, ClosedIsAborted
  <1>4. TurnsAreOfTaken'
    <2>0. /\ \A q \in Prompts : ~Contains(typed, q) => turn[q] = "none"
          /\ \A i \in DOMAIN waiting : turn[waiting[i]] = "none"
      BY <1>i DEF TurnsAreOfTaken
    <2>1. Shifted \in 1 .. Len(typed) /\ Shifted = Len(typed) - Len(waiting)
      BY <1>0, <1>i DEF QueueShape, Sends, Shifted
    <2>2. inHand[1] = typed[Shifted] BY <1>0, <1>i DEF NothingIsLost, Sends
    <2>3. Contains(typed, inHand[1]) BY <2>1, <2>2 DEF Contains
    <2>4. ASSUME NEW i \in DOMAIN waiting PROVE waiting[i] # inHand[1]
      <3>1. waiting[i] = typed[Shifted + i] BY <1>i DEF NothingIsLost, Sends
      <3>2. Shifted + i \in DOMAIN typed /\ Shifted \in DOMAIN typed /\ Shifted + i # Shifted
        BY <1>0, <2>1
      <3> QED BY <1>i, <2>2, <3>1, <3>2 DEF TypedOnce
    <2>5. \A q \in Prompts : q # inHand[1] => turn'[q] = turn[q] BY <1>0 DEF Sends
    <2>6. \A i \in DOMAIN waiting : waiting[i] \in Prompts BY <1>0
    <2> QED BY <2>0, <2>3, <2>4, <2>5, <2>6 DEF TurnsAreOfTaken, Sends, Contains
  <1>5. RunningIsInHand'
    BY <1>0, <1>i, <1>s
    DEF Sends, RunningIsInHand, QueueShape, TypedOnce, TurnsAreOfTaken, ClosedIsAborted
  <1>6. OneRuns'
    BY <1>0, <1>i, <1>s
    DEF Sends, OneRuns, QueueShape, TypedOnce, RunningIsInHand, TurnsAreOfTaken, ClosedIsAborted
  <1>7. NothingIsLost'
    <2> SUFFICES ASSUME ~shut' PROVE NothingIsLost' BY DEF NothingIsLost
    <2>1. ~shut BY DEF Sends
    <2>2. /\ SentIsDue /\ Shifted \in Int /\ Due \subseteq 1 .. Shifted
          /\ \A i \in DOMAIN waiting : waiting[i] = typed[Shifted + i]
          /\ inHand # <<>> => inHand = <<typed[Shifted]>>
      BY <1>0, <1>i, <2>1 DEF NothingIsLost, SentIsDue, Shifted, Due
    <2>3. Shifted' = Shifted /\ UNCHANGED <<typed, waiting, inHand>> /\ inHand # <<>>
      BY <1>0 DEF Shifted, Sends
    <2>a. \A i \in DOMAIN waiting' : waiting'[i] = typed'[Shifted' + i]
      BY <2>2, <2>3
    <2>b. inHand' # <<>> => inHand' = <<typed'[Shifted']>>
      BY <2>2, <2>3
    <2>4. inHand[1] = typed[Shifted] BY <2>2, <2>3
    <2>5. Shifted \in 1 .. Len(typed)
      BY <1>0, <1>i, <2>1, <2>3 DEF QueueShape, Shifted
    <2>6. Due' = Due \cup {Shifted}
      <3>1. typed[Shifted] \notin NewSessions BY <1>i, <2>4 DEF QueueShape, Sends
      <3> QED BY <2>3, <2>5, <3>1 DEF Due, Sends
    <2>7. \A i \in Due : i < Shifted BY <2>2, <2>5 DEF Due, Sends
    <2>c. SentIsDue'
      <3>1. Range(sent)' = {typed'[i] : i \in Due'}
        <4>1. \A x : x \in Range(sent)' <=> x \in Range(sent) \/ x = inHand[1]
          <5>1. \A i : i \in DOMAIN sent' <=> i \in DOMAIN sent \/ i = Len(sent) + 1 BY <1>0, <1>s
          <5>2. \A i \in DOMAIN sent : sent'[i] = sent[i] BY <1>0, <1>s
          <5> QED BY <1>s, <5>1, <5>2 DEF Range
        <4>2. \A x : x \in Range(sent) <=> x \in {typed[i] : i \in Due} BY <2>2 DEF SentIsDue
        <4>3. \A x : x \in {typed'[i] : i \in Due'} <=> x \in {typed[i] : i \in Due} \/ x = typed[Shifted]
          BY <2>3, <2>6
        <4>4. \A x : x \in Range(sent)' <=> x \in {typed'[i] : i \in Due'}
          BY <2>4, <4>1, <4>2, <4>3
        <4> HIDE DEF Due
        <4> QED BY <4>4
      <3>2. ASSUME NEW k \in DOMAIN sent', NEW l \in DOMAIN sent', k < l
            PROVE  \E i, j \in Due' : i < j /\ typed'[i] = sent'[k] /\ typed'[j] = sent'[l]
        <4>1. k \in DOMAIN sent /\ sent'[k] = sent[k] BY <1>0, <1>s, <3>2
        <4>2. CASE l \in DOMAIN sent
          <5>1. sent'[l] = sent[l] BY <1>0, <1>s, <4>2
          <5>2. PICK i \in Due, j \in Due : i < j /\ typed[i] = sent[k] /\ typed[j] = sent[l]
            BY <2>2, <3>2, <4>1, <4>2 DEF SentIsDue
          <5> QED BY <2>3, <2>6, <4>1, <5>1, <5>2
        <4>3. CASE l = Len(sent) + 1
          <5>1. PICK i \in Due : typed[i] = sent[k] BY SMTT(30), <2>2, <4>1 DEF SentIsDue, Range
          <5> QED BY <1>s, <2>3, <2>4, <2>6, <2>7, <4>1, <4>3, <5>1
        <4> QED BY <1>0, <1>s, <4>2, <4>3
      <3> QED BY <3>1, <3>2 DEF SentIsDue
    <2> QED BY <2>a, <2>b, <2>c DEF NothingIsLost, SentIsDue
  <1>8. QueueIsDrained'
    BY <1>0, <1>i, <1>s
       DEF Sends, QueueIsDrained, QueueShape, TypedOnce, RunningIsInHand, TurnsAreOfTaken,
           ClosedIsAborted
  <1>9. ClosedIsAborted'
    BY <1>0, <1>i, <1>s
    DEF Sends, ClosedIsAborted, QueueShape, TypedOnce, RunningIsInHand, TurnsAreOfTaken
  <1>10. FailureIsThrown'
    BY <1>0, <1>i, <1>s
       DEF Sends, FailureIsThrown, QueueShape, TypedOnce, RunningIsInHand, TurnsAreOfTaken,
           ClosedIsAborted
  <1> QED BY <1>1, <1>2, <1>3, <1>4, <1>5, <1>6, <1>7, <1>8, <1>9, <1>10 DEF QueueInv

LEMMA TurnEndsInv ==
    ASSUME QueueInv, NEW p \in Prompts, NEW how \in {"done", "error"}, TurnEnds(p, how)
    PROVE  QueueInv'
  <1> USE DEF QueueParts, Drains
  <1>0. QueueParts BY QueueHasParts
  <1>i. /\ TypedOnce /\ QueueShape /\ TurnsAreOfTaken /\ RunningIsInHand /\ OneRuns
        /\ NothingIsLost /\ QueueIsDrained /\ ClosedIsAborted /\ FailureIsThrown
    BY DEF QueueInv
  <1>1. PromptQueueTypeOK'
    BY <1>0, <1>i
       DEF TurnEnds, PromptQueueTypeOK, QueueShape, TypedOnce, RunningIsInHand, TurnsAreOfTaken,
           ClosedIsAborted
  <1>2. TypedOnce'
    BY <1>0, <1>i
    DEF TurnEnds, TypedOnce, Contains
  <1>3. QueueShape'
    BY <1>0, <1>i
    DEF TurnEnds, QueueShape, TypedOnce, RunningIsInHand, TurnsAreOfTaken, ClosedIsAborted
  <1>4. TurnsAreOfTaken'
    BY <1>0, <1>i
    DEF TurnEnds, TurnsAreOfTaken, Contains, QueueShape, TypedOnce
  <1>5. RunningIsInHand'
    BY <1>0, <1>i
    DEF TurnEnds, RunningIsInHand, QueueShape, TypedOnce, TurnsAreOfTaken, ClosedIsAborted
  <1>6. OneRuns'
    BY <1>0, <1>i
    DEF TurnEnds, OneRuns, QueueShape, TypedOnce, RunningIsInHand, TurnsAreOfTaken, ClosedIsAborted
  <1>7. NothingIsLost'
    <2> SUFFICES ASSUME ~shut' PROVE NothingIsLost' BY DEF NothingIsLost
    <2>1. ~shut BY DEF TurnEnds
    <2>2. /\ SentIsDue /\ Shifted \in Int /\ Due \subseteq 1 .. Shifted
          /\ \A i \in DOMAIN waiting : waiting[i] = typed[Shifted + i]
          /\ inHand # <<>> => inHand = <<typed[Shifted]>>
      BY <1>0, <1>i, <2>1 DEF NothingIsLost, SentIsDue, Shifted, Due
    <2>3. Shifted' = Shifted /\ UNCHANGED <<typed, waiting, inHand>>
      BY DEF Shifted, TurnEnds
    <2>a. \A i \in DOMAIN waiting' : waiting'[i] = typed'[Shifted' + i]
      BY <2>2, <2>3
    <2>b. inHand' # <<>> => inHand' = <<typed'[Shifted']>>
      BY <2>2, <2>3
    <2>c. SentIsDue'
      <3>1. Due' = Due BY <2>3 DEF Due, TurnEnds
      <3> QED BY <2>2, <2>3, <3>1, SentStaysDue DEF TurnEnds
    <2> QED BY <2>a, <2>b, <2>c DEF NothingIsLost, SentIsDue
  <1>8. QueueIsDrained'
    BY <1>0, <1>i
       DEF TurnEnds, QueueIsDrained, QueueShape, TypedOnce, RunningIsInHand, TurnsAreOfTaken,
           ClosedIsAborted
  <1>9. ClosedIsAborted'
    BY <1>0, <1>i
    DEF TurnEnds, ClosedIsAborted, QueueShape, TypedOnce, RunningIsInHand, TurnsAreOfTaken
  <1>10. FailureIsThrown'
    BY <1>0, <1>i
       DEF TurnEnds, FailureIsThrown, QueueShape, TypedOnce, RunningIsInHand, TurnsAreOfTaken,
           ClosedIsAborted
  <1> QED BY <1>1, <1>2, <1>3, <1>4, <1>5, <1>6, <1>7, <1>8, <1>9, <1>10 DEF QueueInv

LEMMA AbortsInv ==
    ASSUME QueueInv, Aborts
    PROVE  QueueInv'
  <1> USE DEF QueueParts, Drains
  <1>0. QueueParts BY QueueHasParts
  <1>i. /\ TypedOnce /\ QueueShape /\ TurnsAreOfTaken /\ RunningIsInHand /\ OneRuns
        /\ NothingIsLost /\ QueueIsDrained /\ ClosedIsAborted /\ FailureIsThrown
    BY DEF QueueInv
  <1>w. waiting' = <<>> /\ Len(waiting') = 0 /\ DOMAIN waiting' = {} /\ waiting' \in Seq(Prompts)
    BY DEF Aborts, Throws
  <1>1. PromptQueueTypeOK'
    BY <1>0, <1>i, <1>w
       DEF Aborts, Throws, PromptQueueTypeOK, QueueShape, TypedOnce, RunningIsInHand,
           TurnsAreOfTaken, ClosedIsAborted
  <1>2. TypedOnce'
    BY <1>0, <1>i, <1>w
    DEF Aborts, Throws, TypedOnce, Contains
  <1>3. QueueShape'
    BY <1>0, <1>i, <1>w
    DEF Aborts, Throws, QueueShape, TypedOnce, RunningIsInHand, TurnsAreOfTaken, ClosedIsAborted
  <1>4. TurnsAreOfTaken'
    BY <1>0, <1>i, <1>w
    DEF Aborts, Throws, TurnsAreOfTaken, Contains, QueueShape, TypedOnce
  <1>5. RunningIsInHand'
    BY <1>0, <1>i, <1>w
    DEF Aborts, Throws, RunningIsInHand, QueueShape, TypedOnce, TurnsAreOfTaken, ClosedIsAborted
  <1>6. OneRuns'
    BY <1>0, <1>i, <1>w
       DEF Aborts, Throws, OneRuns, QueueShape, TypedOnce, RunningIsInHand, TurnsAreOfTaken,
           ClosedIsAborted
  <1>7. NothingIsLost'
    BY <1>0, <1>i, <1>w
    DEF Aborts, Throws, NothingIsLost, Shifted, Due, Range, QueueShape, TypedOnce
  <1>8. QueueIsDrained'
    BY <1>0, <1>i, <1>w
       DEF Aborts, Throws, QueueIsDrained, QueueShape, TypedOnce, RunningIsInHand,
           TurnsAreOfTaken, ClosedIsAborted
  <1>9. ClosedIsAborted'
    BY <1>0, <1>i, <1>w
    DEF Aborts, Throws, ClosedIsAborted, QueueShape, TypedOnce, RunningIsInHand, TurnsAreOfTaken
  <1>10. FailureIsThrown'
    BY <1>0, <1>i, <1>w
       DEF Aborts, Throws, FailureIsThrown, QueueShape, TypedOnce, RunningIsInHand,
           TurnsAreOfTaken, ClosedIsAborted
  <1> QED BY <1>1, <1>2, <1>3, <1>4, <1>5, <1>6, <1>7, <1>8, <1>9, <1>10 DEF QueueInv

LEMMA CloseInv ==
    ASSUME QueueInv, Close
    PROVE  QueueInv'
  <1> USE DEF QueueParts, Drains
  <1>0. QueueParts BY QueueHasParts
  <1>i. /\ TypedOnce /\ QueueShape /\ TurnsAreOfTaken /\ RunningIsInHand /\ OneRuns
        /\ NothingIsLost /\ QueueIsDrained /\ ClosedIsAborted /\ FailureIsThrown
    BY DEF QueueInv
  <1>w. waiting' = <<>> /\ Len(waiting') = 0 /\ DOMAIN waiting' = {} /\ waiting' \in Seq(Prompts)
    BY DEF Close
  <1>1. PromptQueueTypeOK'
    BY <1>0, <1>i, <1>w
       DEF Close, PromptQueueTypeOK, QueueShape, TypedOnce, RunningIsInHand, TurnsAreOfTaken,
           ClosedIsAborted
  <1>2. TypedOnce'
    BY <1>0, <1>i, <1>w
    DEF Close, TypedOnce, Contains
  <1>3. QueueShape'
    BY <1>0, <1>i, <1>w
    DEF Close, QueueShape, TypedOnce, RunningIsInHand, TurnsAreOfTaken, ClosedIsAborted
  <1>4. TurnsAreOfTaken'
    BY <1>0, <1>i, <1>w
    DEF Close, TurnsAreOfTaken, Contains, QueueShape, TypedOnce
  <1>5. RunningIsInHand'
    BY <1>0, <1>i, <1>w
    DEF Close, RunningIsInHand, QueueShape, TypedOnce, TurnsAreOfTaken, ClosedIsAborted
  <1>6. OneRuns'
    BY <1>0, <1>i, <1>w
    DEF Close, OneRuns, QueueShape, TypedOnce, RunningIsInHand, TurnsAreOfTaken, ClosedIsAborted
  <1>7. NothingIsLost'
    BY <1>0, <1>i, <1>w
    DEF Close, NothingIsLost, Shifted, Due, Range, QueueShape, TypedOnce
  <1>8. QueueIsDrained'
    BY <1>0, <1>i, <1>w
       DEF Close, QueueIsDrained, QueueShape, TypedOnce, RunningIsInHand, TurnsAreOfTaken,
           ClosedIsAborted
  <1>9. ClosedIsAborted'
    BY <1>0, <1>i, <1>w
    DEF Close, ClosedIsAborted, QueueShape, TypedOnce, RunningIsInHand, TurnsAreOfTaken
  <1>10. FailureIsThrown'
    BY <1>0, <1>i, <1>w
       DEF Close, FailureIsThrown, QueueShape, TypedOnce, RunningIsInHand, TurnsAreOfTaken,
           ClosedIsAborted
  <1> QED BY <1>1, <1>2, <1>3, <1>4, <1>5, <1>6, <1>7, <1>8, <1>9, <1>10 DEF QueueInv

LEMMA SendClosesInv ==
    ASSUME QueueInv, SendCloses
    PROVE  QueueInv'
  <1> USE DEF QueueParts, Drains
  <1>0. QueueParts BY QueueHasParts
  <1>i. /\ TypedOnce /\ QueueShape /\ TurnsAreOfTaken /\ RunningIsInHand /\ OneRuns
        /\ NothingIsLost /\ QueueIsDrained /\ ClosedIsAborted /\ FailureIsThrown
    BY DEF QueueInv
  <1>w. waiting' = <<>> /\ Len(waiting') = 0 /\ DOMAIN waiting' = {} /\ waiting' \in Seq(Prompts)
    BY DEF SendCloses
  <1>s. sent' \in Seq(Prompts \ NewSessions) BY <1>0, <1>i DEF SendCloses, QueueShape
  <1>1. PromptQueueTypeOK'
    BY <1>0, <1>i, <1>w, <1>s
       DEF SendCloses, PromptQueueTypeOK, QueueShape, TypedOnce, RunningIsInHand, TurnsAreOfTaken,
           ClosedIsAborted
  <1>2. TypedOnce'
    BY <1>0, <1>i, <1>w
    DEF SendCloses, TypedOnce, Contains
  <1>3. QueueShape'
    BY <1>0, <1>i, <1>w
    DEF SendCloses, QueueShape, TypedOnce, RunningIsInHand, TurnsAreOfTaken, ClosedIsAborted
  <1>4. TurnsAreOfTaken'
    BY <1>0, <1>i, <1>w
    DEF SendCloses, TurnsAreOfTaken, Contains, QueueShape, TypedOnce
  <1>5. RunningIsInHand'
    BY <1>0, <1>i, <1>w
    DEF SendCloses, RunningIsInHand, QueueShape, TypedOnce, TurnsAreOfTaken, ClosedIsAborted
  <1>6. OneRuns'
    BY <1>0, <1>i, <1>w
       DEF SendCloses, OneRuns, QueueShape, TypedOnce, RunningIsInHand, TurnsAreOfTaken,
           ClosedIsAborted
  <1>7. NothingIsLost'
    BY <1>0, <1>i, <1>w
    DEF SendCloses, NothingIsLost, Shifted, Due, Range, QueueShape, TypedOnce
  <1>8. QueueIsDrained'
    BY <1>0, <1>i, <1>w
       DEF SendCloses, QueueIsDrained, QueueShape, TypedOnce, RunningIsInHand, TurnsAreOfTaken,
           ClosedIsAborted
  <1>9. ClosedIsAborted'
    BY <1>0, <1>i, <1>w
    DEF SendCloses, ClosedIsAborted, QueueShape, TypedOnce, RunningIsInHand, TurnsAreOfTaken
  <1>10. FailureIsThrown'
    BY <1>0, <1>i, <1>w
       DEF SendCloses, FailureIsThrown, QueueShape, TypedOnce, RunningIsInHand, TurnsAreOfTaken,
           ClosedIsAborted
  <1> QED BY <1>1, <1>2, <1>3, <1>4, <1>5, <1>6, <1>7, <1>8, <1>9, <1>10 DEF QueueInv

-----------------------------------------------------------------------------
LEMMA QueueInitInv == PromptQueueInit => QueueInv
  <1> SUFFICES ASSUME PromptQueueInit PROVE QueueInv OBVIOUS
  <1> USE DEF PromptQueueInit
  <1>1. PromptQueueTypeOK
    <2>1. <<>> \in Seq(Prompts) /\ <<>> \in Seq(Prompts \ NewSessions) OBVIOUS
    <2>2. inHand \in {<<>>} \cup {<<p>> : p \in Prompts} OBVIOUS
    <2>3. turn \in [Prompts -> {"none", "runs", "done", "error"}] OBVIOUS
    <2>4. aborted \subseteq Prompts OBVIOUS
    <2>5. (Drains <=> inHand # <<>>) /\ drainer # "turn" BY DEF Drains
    <2>6. typed \in Seq(Prompts) /\ waiting \in Seq(Prompts) /\ sent \in Seq(Prompts \ NewSessions) BY <2>1
    <2>7. /\ offers \in BOOLEAN /\ drainer \in {"none", "footer", "session", "turn", "spent"}
          /\ race \in {"open", "done", "error", "closed"}
          /\ shut \in BOOLEAN /\ outcome \in {"pending", "returned", "thrown"}
      OBVIOUS
    <2> HIDE DEF PromptQueueInit
    <2> QED BY <2>2, <2>3, <2>4, <2>5, <2>6, <2>7 DEF PromptQueueTypeOK
  <1>2. TypedOnce /\ QueueShape /\ TurnsAreOfTaken BY DEF TypedOnce, QueueShape, TurnsAreOfTaken
  <1>3. RunningIsInHand /\ OneRuns BY DEF RunningIsInHand, OneRuns
  <1>4. NothingIsLost
    <2>1. Due = {} /\ Range(sent) = {} BY DEF Due, Shifted, Range
    <2> QED BY <2>1 DEF NothingIsLost
  <1>5. QueueIsDrained /\ ClosedIsAborted /\ FailureIsThrown
    BY DEF QueueIsDrained, ClosedIsAborted, FailureIsThrown
  <1> QED BY <1>1, <1>2, <1>3, <1>4, <1>5 DEF QueueInv

LEMMA QueueStepInv == QueueInv /\ [PromptQueueNext]_promptVars => QueueInv'
  <1> SUFFICES ASSUME QueueInv, [PromptQueueNext]_promptVars PROVE QueueInv' OBVIOUS
  <1>1. CASE PromptQueueNext
    BY <1>1, KindsOfSteps, QueuesInv, BeginsInv, JamsInv, TurnEndsInv, AdvancesInv, RestsInv,
       SendsInv, SendClosesInv, AbortsInv, CloseInv
  <1>2. CASE UNCHANGED promptVars
    <2>1. /\ PromptQueueTypeOK' /\ TypedOnce' /\ QueueShape' /\ RunningIsInHand' /\ OneRuns'
      BY <1>2
         DEF promptVars, QueueInv, PromptQueueTypeOK, TypedOnce, QueueShape, RunningIsInHand,
             OneRuns, Drains
    <2>2. TurnsAreOfTaken'
      <3>1. UNCHANGED <<typed, waiting, drainer, inHand, turn>> BY <1>2 DEF promptVars
      <3>2. \A p \in Prompts : Contains(typed, p)' <=> Contains(typed, p) BY <3>1 DEF Contains
      <3>3. TurnsAreOfTaken BY DEF QueueInv
      <3>4. \A p \in Prompts : ~Contains(typed, p)' => turn'[p] = "none" BY <3>1, <3>2, <3>3 DEF TurnsAreOfTaken
      <3>5. \A i \in DOMAIN waiting' : turn'[waiting'[i]] = "none" BY <3>1, <3>3 DEF TurnsAreOfTaken
      <3>6. drainer' \in {"footer", "session"} => turn'[inHand'[1]] = "none" BY <3>1, <3>3 DEF TurnsAreOfTaken
      <3> QED BY <3>4, <3>5, <3>6 DEF TurnsAreOfTaken
    <2>3. NothingIsLost'
      <3>1. UNCHANGED <<typed, waiting, drainer, inHand, sent, shut>> BY <1>2 DEF promptVars
      <3>2. Shifted' = Shifted BY <3>1 DEF Shifted
      <3>3. Due' = Due BY <3>1, <3>2 DEF Due
      <3>4. Range(sent)' = Range(sent) BY <3>1 DEF Range
      <3>5. NothingIsLost BY DEF QueueInv
      <3> QED BY <3>1, <3>2, <3>3, <3>4, <3>5 DEF NothingIsLost
    <2>4. QueueIsDrained' /\ ClosedIsAborted' /\ FailureIsThrown'
      BY <1>2 DEF promptVars, QueueInv, QueueIsDrained, Drains, ClosedIsAborted, FailureIsThrown
    <2> QED BY <2>1, <2>2, <2>3, <2>4 DEF QueueInv
  <1> QED BY <1>1, <1>2

LEMMA OneRunsIsOneTurn == OneRuns => OneTurnAtATime
  <1> SUFFICES ASSUME OneRuns PROVE OneTurnAtATime OBVIOUS
  <1> DEFINE running == {p \in Prompts : turn[p] = "runs"}
  <1>1. CASE running = {} BY <1>1, FS_EmptySet DEF OneTurnAtATime
  <1>2. CASE running # {}
    <2>1. PICK p \in Prompts : running = {p} BY <1>2 DEF OneRuns
    <2>2. Cardinality(running) = 1 BY <2>1, FS_Singleton
    <2> HIDE DEF running
    <2>3. Cardinality(running) <= 1 BY <2>2
    <2> QED BY <2>3 DEF OneTurnAtATime, running
  <1> QED BY <1>1, <1>2

\* The inductive invariant of the queue: a prompt is in one place on its way from
\* being typed to being sent, and what runs is in the hand of the drainer.
THEOREM QueueInvHolds == PromptQueueSpec => []QueueInv
  BY QueueInitInv, QueueStepInv, PTL DEF PromptQueueSpec

\* However the footer closes, turns fail and prompts are typed meanwhile
\* (runtime.queue.ts): prompts are sent one after the other in the order they
\* were typed, what runs when the footer closes is told, and errors come out.
THEOREM QueueKeepsOrder == PromptQueueSpec => []PromptQueueContract
  <1>1. QueueInv => PromptQueueContract
    BY OneRunsIsOneTurn DEF QueueInv, PromptQueueContract
  <1> QED BY <1>1, QueueInvHolds, PTL

\* Once the footer has closed nothing is sent any more.
THEOREM ClosedIsSilent == PromptQueueSpec => SilentWhenClosed
  <1>1. QueueInv /\ [PromptQueueNext]_promptVars => [shut => sent' = sent]_promptVars
    <2> SUFFICES ASSUME QueueInv, PromptQueueNext, shut PROVE sent' = sent OBVIOUS
    <2> QED BY KindsOfSteps
         DEF Queues, Begins, Jams, TurnEnds, Advances, Rests, Sends, SendCloses, Aborts, Close
  <1> QED BY <1>1, QueueInvHolds, PTL DEF PromptQueueSpec, SilentWhenClosed
=============================================================================
