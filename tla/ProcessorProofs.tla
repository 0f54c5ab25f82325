--------------------------- MODULE ProcessorProofs ---------------------------
(***************************************************************************)
(* Proofs about Processor: the message is closed with nothing left open,   *)
(* for any number of calls and of attempts.                                *)
(***************************************************************************)
EXTENDS Processor, TLAPS

\* ctx.toolcalls holds exactly the open parts, each under its own call id, and
\* none when the message is closed.
CallsAreOpenParts ==
    /\ \A e \in Executions : part[e] \in Open => toolcalls[e[2]] = e
    /\ \A c \in CallIDs : toolcalls[c] # NoPart =>
         toolcalls[c][2] = c /\ part[toolcalls[c]] \in Open
    /\ \A e \in Executions : heard[e] = "none" => part[e] = "none"
    /\ stage = "closed" => \A c \in CallIDs : toolcalls[c] = NoPart

\* An open text is the current one or was left behind by a retry.
TextIsKnown ==
    /\ currentText \in {0, attempt}
    /\ \A a \in Attempts : text[a] = "open" => a = currentText \/ a < attempt
    /\ stage \in {"waiting", "closed"} => currentText = 0

\* An interruption is the end of the stream, and is recorded.
CutOffIsOver ==
    /\ cutOff # "no" => stage \in {"cleanup", "waiting", "closed"}
    /\ cutOff \notin {"no", "backoff"} => error # "none"

\* The bound of the model: the last attempt is not waited for.
RetryIsLeft == stage = "backoff" => attempt < MaxAttempts

ProcessorInv ==
    /\ ProcessorTypeOK
    /\ CallsAreOpenParts
    /\ TextIsKnown
    /\ CutOffIsOver
    /\ RetryIsLeft

LEMMA ExecutionFacts ==
    /\ \A e \in Executions : e[1] \in Attempts /\ e[2] \in CallIDs /\ e = <<e[1], e[2]>>
    /\ \A a \in Attempts, c \in CallIDs : <<a, c>> \in Executions
  BY DEF Executions

LEMMA InitInv == ProcessorInit => ProcessorInv
  <1> SUFFICES ASSUME ProcessorInit PROVE ProcessorInv
    OBVIOUS
  <1>1. 1 \in Attempts
    BY ProcessorAssumption DEF Attempts
  <1>2. ProcessorTypeOK
    BY <1>1 DEF ProcessorInit, ProcessorTypeOK, Stages, Statuses, ToolStates
  <1>3. CallsAreOpenParts
    BY ExecutionFacts DEF ProcessorInit, CallsAreOpenParts, Open
  <1>4. TextIsKnown /\ CutOffIsOver /\ RetryIsLeft
    BY DEF ProcessorInit, TextIsKnown, CutOffIsOver, RetryIsLeft
  <1> QED
    BY <1>2, <1>3, <1>4 DEF ProcessorInv

\* Settling a call, by whom and when ever, ends an open part or does nothing.
LEMMA SettleKeepsCalls ==
    ASSUME ProcessorTypeOK, CallsAreOpenParts, NEW c \in CallIDs,
           NEW status \in {"completed", "error"}, Settle(c, status)
    PROVE  /\ part' \in [Executions -> Statuses]
           /\ toolcalls' \in [CallIDs -> Executions \cup {NoPart}]
           /\ \A e \in Executions : part'[e] \in Open => toolcalls'[e[2]] = e
           /\ \A d \in CallIDs : toolcalls'[d] # NoPart =>
                toolcalls'[d][2] = d /\ part'[toolcalls'[d]] \in Open
           /\ \A e \in Executions : part[e] = "none" => part'[e] = "none"
           /\ \A d \in CallIDs : toolcalls[d] = NoPart => toolcalls'[d] = NoPart
           /\ \A e \in Executions : part[e] \notin Open => part'[e] = part[e]
  <1>1. CASE ~Runs(c)
    BY <1>1 DEF Settle, ProcessorTypeOK, CallsAreOpenParts
  <1>2. CASE Runs(c)
    <2> DEFINE p == toolcalls[c]
    <2>1. /\ p \in Executions /\ p[2] = c /\ part[p] = "running"
          /\ part' = [part EXCEPT ![p] = status]
          /\ toolcalls' = [toolcalls EXCEPT ![c] = NoPart]
      BY <1>2 DEF Runs, Settle, ProcessorTypeOK, CallsAreOpenParts
    <2>2. part' \in [Executions -> Statuses]
      BY <2>1 DEF ProcessorTypeOK, Statuses
    <2>3. toolcalls' \in [CallIDs -> Executions \cup {NoPart}]
      BY <2>1 DEF ProcessorTypeOK
    <2>4. ASSUME NEW e \in Executions, part'[e] \in Open PROVE toolcalls'[e[2]] = e
      <3>1. e # p /\ part[e] \in Open
        BY <2>1, <2>4 DEF ProcessorTypeOK, Open
      <3>2. toolcalls[e[2]] = e
        BY <3>1 DEF CallsAreOpenParts
      <3> QED
        BY <2>1, <3>1, <3>2, ExecutionFacts DEF ProcessorTypeOK
    <2>5. ASSUME NEW d \in CallIDs, toolcalls'[d] # NoPart
          PROVE  toolcalls'[d][2] = d /\ part'[toolcalls'[d]] \in Open
      <3>1. d # c /\ toolcalls'[d] = toolcalls[d]
        BY <2>1, <2>5 DEF ProcessorTypeOK
      <3>2. toolcalls[d] \in Executions /\ toolcalls[d][2] = d /\ part[toolcalls[d]] \in Open
        BY <2>5, <3>1 DEF ProcessorTypeOK, CallsAreOpenParts
      <3>3. toolcalls[d] # p
        BY <2>1, <3>1, <3>2
      <3> QED
        BY <2>1, <3>1, <3>2, <3>3 DEF ProcessorTypeOK
    <2>6. \A e \in Executions : part[e] \notin Open => part'[e] = part[e]
      BY <2>1 DEF ProcessorTypeOK, Open
    <2>7. \A d \in CallIDs : toolcalls[d] = NoPart => toolcalls'[d] = NoPart
      BY <2>1 DEF ProcessorTypeOK
    <2> QED
      BY <2>2, <2>3, <2>4, <2>5, <2>6, <2>7 DEF Open
  <1> QED
    BY <1>1, <1>2

\* What an ended part is worth: no step changes it.
EndedKept == \A e \in Executions :
    part[e] \in Statuses \ ({"none"} \cup Open) => part'[e] = part[e]

\* Steps that leave the tool parts alone and do not close the message.
LEMMA QuietKeepsCalls ==
    ASSUME ProcessorInv, UNCHANGED <<part, toolcalls, heard>>, stage' # "closed"
    PROVE  CallsAreOpenParts' /\ EndedKept
  BY DEF ProcessorInv, CallsAreOpenParts, EndedKept

LEMMA QuietSteps ==
    ASSUME ProcessorInv,
           \/ FailRetryable \/ FailFatal \/ FailOverflow \/ Retry
           \/ \E c \in CallIDs : Execute(c)
           \/ DoomLoopAllowed \/ TextStart \/ TextEnd
           \/ \E overflow \in BOOLEAN : FinishStep(overflow)
           \/ Interrupt \/ Cleanup
    PROVE  ProcessorInv' /\ EndedKept
  <1> USE DEF ProcessorInv
  <1>1. ASSUME FailRetryable PROVE ProcessorInv' /\ EndedKept
    <2>1. ProcessorTypeOK'
      BY <1>1, ProcessorAssumption, ExecutionFacts
      DEF FailRetryable, EndStream, ProcessorTypeOK, Stages, Attempts, ToolStates
    <2>2. CallsAreOpenParts' /\ EndedKept
      BY <1>1, QuietKeepsCalls DEF FailRetryable, EndStream
    <2>3. TextIsKnown' /\ CutOffIsOver' /\ RetryIsLeft'
      BY <1>1, ProcessorAssumption
         DEF FailRetryable, EndStream, ProcessorTypeOK, TextIsKnown, CutOffIsOver, RetryIsLeft,
             Attempts, Stages
    <2> QED
      BY <2>1, <2>2, <2>3
  <1>2. ASSUME FailFatal PROVE ProcessorInv' /\ EndedKept
    <2>1. ProcessorTypeOK'
      BY <1>2, ProcessorAssumption, ExecutionFacts
      DEF FailFatal, EndStream, ProcessorTypeOK, Stages, Attempts, ToolStates
    <2>2. CallsAreOpenParts' /\ EndedKept
      BY <1>2, QuietKeepsCalls DEF FailFatal, EndStream
    <2>3. TextIsKnown' /\ CutOffIsOver' /\ RetryIsLeft'
      BY <1>2, ProcessorAssumption
         DEF FailFatal, EndStream, ProcessorTypeOK, TextIsKnown, CutOffIsOver, RetryIsLeft,
             Attempts, Stages
    <2> QED
      BY <2>1, <2>2, <2>3
  <1>3. ASSUME FailOverflow PROVE ProcessorInv' /\ EndedKept
    <2>1. ProcessorTypeOK'
      BY <1>3, ProcessorAssumption, ExecutionFacts
      DEF FailOverflow, EndStream, ProcessorTypeOK, Stages, Attempts, ToolStates
    <2>2. CallsAreOpenParts' /\ EndedKept
      BY <1>3, QuietKeepsCalls DEF FailOverflow, EndStream
    <2>3. TextIsKnown' /\ CutOffIsOver' /\ RetryIsLeft'
      BY <1>3, ProcessorAssumption
         DEF FailOverflow, EndStream, ProcessorTypeOK, TextIsKnown, CutOffIsOver, RetryIsLeft,
             Attempts, Stages
    <2> QED
      BY <2>1, <2>2, <2>3
  <1>4. ASSUME Retry PROVE ProcessorInv' /\ EndedKept
    <2>1. ProcessorTypeOK'
      BY <1>4, ProcessorAssumption, ExecutionFacts
      DEF Retry, RetryIsLeft, ProcessorTypeOK, Stages, Attempts, ToolStates
    <2>2. CallsAreOpenParts' /\ EndedKept
      BY <1>4, QuietKeepsCalls DEF Retry
    <2>3. TextIsKnown' /\ CutOffIsOver' /\ RetryIsLeft'
      BY <1>4, ProcessorAssumption
         DEF Retry, ProcessorTypeOK, TextIsKnown, CutOffIsOver, RetryIsLeft, Attempts, Stages
    <2> QED
      BY <2>1, <2>2, <2>3
  <1>5. ASSUME NEW c \in CallIDs, Execute(c) PROVE ProcessorInv' /\ EndedKept
    <2>1. ProcessorTypeOK'
      BY <1>5, ProcessorAssumption, ExecutionFacts
      DEF Execute, Now, Live, ProcessorTypeOK, Stages, Attempts, ToolStates
    <2>2. CallsAreOpenParts' /\ EndedKept
      BY <1>5, QuietKeepsCalls DEF Execute, Now, Live
    <2>3. TextIsKnown' /\ CutOffIsOver' /\ RetryIsLeft'
      BY <1>5, ProcessorAssumption
         DEF Execute, Now, Live, ProcessorTypeOK, TextIsKnown, CutOffIsOver, RetryIsLeft,
             Attempts, Stages
    <2> QED
      BY <2>1, <2>2, <2>3
  <1>6. ASSUME DoomLoopAllowed PROVE ProcessorInv' /\ EndedKept
    <2>1. ProcessorTypeOK'
      BY <1>6, ProcessorAssumption, ExecutionFacts
      DEF DoomLoopAllowed, ProcessorTypeOK, Stages, Attempts, ToolStates
    <2>2. CallsAreOpenParts' /\ EndedKept
      BY <1>6, QuietKeepsCalls DEF DoomLoopAllowed
    <2>3. TextIsKnown' /\ CutOffIsOver' /\ RetryIsLeft'
      BY <1>6, ProcessorAssumption
         DEF DoomLoopAllowed, ProcessorTypeOK, TextIsKnown, CutOffIsOver, RetryIsLeft, Attempts,
             Stages
    <2> QED
      BY <2>1, <2>2, <2>3
  <1>7. ASSUME TextStart PROVE ProcessorInv' /\ EndedKept
    <2>1. ProcessorTypeOK'
      BY <1>7, ProcessorAssumption, ExecutionFacts
      DEF TextStart, ProcessorTypeOK, Stages, Attempts, ToolStates
    <2>2. CallsAreOpenParts' /\ EndedKept
      BY <1>7, QuietKeepsCalls DEF TextStart
    <2>3. TextIsKnown' /\ CutOffIsOver' /\ RetryIsLeft'
      BY <1>7, ProcessorAssumption
         DEF TextStart, ProcessorTypeOK, TextIsKnown, CutOffIsOver, RetryIsLeft, Attempts, Stages
    <2> QED
      BY <2>1, <2>2, <2>3
  <1>8. ASSUME TextEnd PROVE ProcessorInv' /\ EndedKept
    <2>1. ProcessorTypeOK'
      BY <1>8, ProcessorAssumption, ExecutionFacts
      DEF TextEnd, CloseText, ProcessorTypeOK, Stages, Attempts, ToolStates
    <2>2. CallsAreOpenParts' /\ EndedKept
      BY <1>8, QuietKeepsCalls DEF TextEnd, CloseText
    <2>3. TextIsKnown' /\ CutOffIsOver' /\ RetryIsLeft'
      BY <1>8, ProcessorAssumption
         DEF TextEnd, CloseText, ProcessorTypeOK, TextIsKnown, CutOffIsOver, RetryIsLeft,
             Attempts, Stages
    <2> QED
      BY <2>1, <2>2, <2>3
  <1>9. ASSUME NEW overflow \in BOOLEAN, FinishStep(overflow) PROVE ProcessorInv' /\ EndedKept
    <2>1. ProcessorTypeOK'
      BY <1>9, ProcessorAssumption, ExecutionFacts
      DEF FinishStep, EndStream, ProcessorTypeOK, Stages, Attempts, ToolStates
    <2>2. CallsAreOpenParts' /\ EndedKept
      BY <1>9, QuietKeepsCalls DEF FinishStep, EndStream
    <2>3. TextIsKnown' /\ CutOffIsOver' /\ RetryIsLeft'
      BY <1>9, ProcessorAssumption
         DEF FinishStep, EndStream, ProcessorTypeOK, TextIsKnown, CutOffIsOver, RetryIsLeft,
             Attempts, Stages
    <2> QED
      BY <2>1, <2>2, <2>3
  <1>10. ASSUME Interrupt PROVE ProcessorInv' /\ EndedKept
    <2>1. ProcessorTypeOK'
      BY <1>10, ProcessorAssumption, ExecutionFacts
      DEF Interrupt, EndStream, ProcessorTypeOK, Stages, Attempts, ToolStates
    <2>2. CallsAreOpenParts' /\ EndedKept
      BY <1>10, QuietKeepsCalls DEF Interrupt, EndStream
    <2>3. TextIsKnown' /\ CutOffIsOver' /\ RetryIsLeft'
      BY <1>10, ProcessorAssumption
         DEF Interrupt, EndStream, ProcessorTypeOK, TextIsKnown, CutOffIsOver, RetryIsLeft,
             Attempts, Stages
    <2> QED
      BY <2>1, <2>2, <2>3
  <1>11. ASSUME Cleanup PROVE ProcessorInv' /\ EndedKept
    <2>1. ProcessorTypeOK'
      BY <1>11, ProcessorAssumption, ExecutionFacts
      DEF Cleanup, CloseText, ProcessorTypeOK, Stages, Attempts, ToolStates
    <2>2. CallsAreOpenParts' /\ EndedKept
      BY <1>11, QuietKeepsCalls DEF Cleanup, CloseText
    <2>3. TextIsKnown' /\ CutOffIsOver' /\ RetryIsLeft'
      BY <1>11, ProcessorAssumption
         DEF Cleanup, CloseText, ProcessorTypeOK, TextIsKnown, CutOffIsOver, RetryIsLeft,
             Attempts, Stages
    <2> QED
      BY <2>1, <2>2, <2>3
  <1> QED
    BY <1>1, <1>2, <1>3, <1>4, <1>5, <1>6, <1>7, <1>8, <1>9, <1>10, <1>11

LEMMA ToolSteps ==
    ASSUME ProcessorInv,
           \/ \E c \in CallIDs : InputStart(c) \/ ToolCall(c) \/ ToolResult(c) \/ ToolError(c)
           \/ \E e \in Executions, how \in {"done", "failed", "rejected"} : ToolEnds(e, how)
           \/ \E e \in Executions : Metadata(e)
           \/ Mark
    PROVE  ProcessorInv' /\ EndedKept
  <1> USE DEF ProcessorInv
  <1>1. ASSUME NEW c \in CallIDs, InputStart(c) PROVE ProcessorInv' /\ EndedKept
    <2> DEFINE p == IF toolcalls[c] = NoPart THEN Now(c) ELSE toolcalls[c]
    <2>1. /\ p \in Executions /\ p[2] = c /\ part[p] \in {"none"} \cup Open
          /\ toolcalls[c] \in {NoPart, p}
          /\ Now(c) \in Executions
      BY <1>1, ExecutionFacts DEF InputStart, Now, ProcessorTypeOK, CallsAreOpenParts, Open
    <2>2. /\ toolcalls' = [toolcalls EXCEPT ![c] = p]
          /\ part' = [part EXCEPT ![p] = "pending"]
          /\ heard' = [heard EXCEPT ![Now(c)] = "input"]
          /\ stage = "stream" /\ stage' = "stream"
      BY <1>1 DEF InputStart
    <2> HIDE DEF p
    <2>3. ProcessorTypeOK'
      BY <1>1, <2>1, <2>2 DEF InputStart, ProcessorTypeOK, Statuses
    <2>4. ASSUME NEW e \in Executions, part'[e] \in Open PROVE toolcalls'[e[2]] = e
      <3>1. CASE e = p
        BY <2>1, <2>2, <3>1 DEF ProcessorTypeOK
      <3>2. CASE e # p
        <4>1. part[e] \in Open /\ toolcalls[e[2]] = e
          BY <2>1, <2>2, <2>4, <3>2 DEF ProcessorTypeOK, CallsAreOpenParts
        <4>2. e[2] # c /\ e[2] \in CallIDs
          BY <2>1, <3>2, <4>1, ProcessorAssumption, ExecutionFacts
        <4> QED
          BY <2>2, <4>1, <4>2 DEF ProcessorTypeOK
      <3> QED
        BY <3>1, <3>2
    <2>5. \A x \in CallIDs : toolcalls'[x] # NoPart =>
             toolcalls'[x][2] = x /\ part'[toolcalls'[x]] \in Open
      BY <2>1, <2>2 DEF ProcessorTypeOK, CallsAreOpenParts, Open
    <2>6. \A e \in Executions : heard'[e] = "none" => part'[e] = "none"
      <3>1. CASE toolcalls[c] = NoPart
        BY <2>1, <2>2, <3>1 DEF p, ProcessorTypeOK, CallsAreOpenParts
      <3>2. CASE toolcalls[c] # NoPart
        <4>1. p = toolcalls[c] /\ part[p] \in Open /\ heard[p] # "none"
          BY <2>1, <3>2 DEF p, ProcessorTypeOK, CallsAreOpenParts, Open
        <4> QED
          BY <2>1, <2>2, <4>1 DEF ProcessorTypeOK, CallsAreOpenParts
      <3> QED
        BY <3>1, <3>2
    <2>7. EndedKept
      BY <2>1, <2>2 DEF ProcessorTypeOK, EndedKept, Open
    <2>8. TextIsKnown' /\ CutOffIsOver' /\ RetryIsLeft'
      BY <1>1 DEF InputStart, TextIsKnown, CutOffIsOver, RetryIsLeft
    <2> QED
      BY <2>2, <2>3, <2>4, <2>5, <2>6, <2>7, <2>8 DEF CallsAreOpenParts
  <1>2. ASSUME NEW c \in CallIDs, ToolCall(c) PROVE ProcessorInv' /\ EndedKept
    <2>1. ProcessorTypeOK'
      BY <1>2, ExecutionFacts DEF ToolCall, Now, ProcessorTypeOK, Statuses, Stages
    <2>2. CallsAreOpenParts' /\ EndedKept
      <3>1. CASE toolcalls[c] = NoPart
        BY <1>2, <3>1, ExecutionFacts
        DEF ToolCall, Now, ProcessorTypeOK, CallsAreOpenParts, EndedKept
      <3>2. CASE toolcalls[c] # NoPart
        <4>1. /\ toolcalls[c] \in Executions /\ part[toolcalls[c]] \in Open
              /\ part' = [part EXCEPT ![toolcalls[c]] = "running"]
          BY <1>2, <3>2 DEF ToolCall, ProcessorTypeOK, CallsAreOpenParts
        <4> QED
          BY <1>2, <4>1, ExecutionFacts
          DEF ToolCall, Now, ProcessorTypeOK, CallsAreOpenParts, EndedKept, Open
      <3> QED
        BY <3>1, <3>2
    <2>3. TextIsKnown' /\ CutOffIsOver' /\ RetryIsLeft'
      BY <1>2 DEF ToolCall, TextIsKnown, CutOffIsOver, RetryIsLeft
    <2> QED
      BY <2>1, <2>2, <2>3
  <1>3. ASSUME NEW c \in CallIDs, ToolResult(c) PROVE ProcessorInv' /\ EndedKept
    <2>1. Settle(c, "completed")
      BY <1>3 DEF ToolResult, Now
    <2>2. /\ part' \in [Executions -> Statuses]
          /\ toolcalls' \in [CallIDs -> Executions \cup {NoPart}]
          /\ \A e \in Executions : part'[e] \in Open => toolcalls'[e[2]] = e
          /\ \A x \in CallIDs : toolcalls'[x] # NoPart =>
                toolcalls'[x][2] = x /\ part'[toolcalls'[x]] \in Open
          /\ \A e \in Executions : part[e] = "none" => part'[e] = "none"
          /\ \A x \in CallIDs : toolcalls[x] = NoPart => toolcalls'[x] = NoPart
          /\ \A e \in Executions : part[e] \notin Open => part'[e] = part[e]
      BY <1>3, <2>1, SettleKeepsCalls, ExecutionFacts
    <2>3. CallsAreOpenParts' /\ EndedKept
      BY <1>3, <2>2 DEF ToolResult, Now, CallsAreOpenParts, EndedKept
    <2>4. ProcessorTypeOK'
      BY <1>3, <2>2, ExecutionFacts DEF ToolResult, Now, ProcessorTypeOK, ToolStates, Ended, Settled
    <2>9. TextIsKnown' /\ CutOffIsOver' /\ RetryIsLeft'
      BY <1>3 DEF ToolResult, Now, TextIsKnown, CutOffIsOver, RetryIsLeft, Stages
    <2> QED
      BY <2>3, <2>4, <2>9
  <1>4. ASSUME NEW c \in CallIDs, ToolError(c) PROVE ProcessorInv' /\ EndedKept
    <2>1. Settle(c, "error")
      BY <1>4 DEF ToolError, Now
    <2>2. /\ part' \in [Executions -> Statuses]
          /\ toolcalls' \in [CallIDs -> Executions \cup {NoPart}]
          /\ \A e \in Executions : part'[e] \in Open => toolcalls'[e[2]] = e
          /\ \A x \in CallIDs : toolcalls'[x] # NoPart =>
                toolcalls'[x][2] = x /\ part'[toolcalls'[x]] \in Open
          /\ \A e \in Executions : part[e] = "none" => part'[e] = "none"
          /\ \A x \in CallIDs : toolcalls[x] = NoPart => toolcalls'[x] = NoPart
          /\ \A e \in Executions : part[e] \notin Open => part'[e] = part[e]
      BY <1>4, <2>1, SettleKeepsCalls, ExecutionFacts
    <2>3. CallsAreOpenParts' /\ EndedKept
      BY <1>4, <2>2 DEF ToolError, Now, CallsAreOpenParts, EndedKept
    <2>4. ProcessorTypeOK'
      BY <1>4, <2>2, ExecutionFacts DEF ToolError, Now, ProcessorTypeOK, ToolStates, Ended, Settled
    <2>9. TextIsKnown' /\ CutOffIsOver' /\ RetryIsLeft'
      BY <1>4 DEF ToolError, Now, TextIsKnown, CutOffIsOver, RetryIsLeft, Stages
    <2> QED
      BY <2>3, <2>4, <2>9
  <1>5. ASSUME NEW e \in Executions, NEW how \in {"done", "failed", "rejected"}, ToolEnds(e, how)
        PROVE  ProcessorInv' /\ EndedKept
    <2>1. e[2] \in CallIDs
      BY ExecutionFacts
    <2>2. CASE ~Live(e) /\ how = "done"
      <3>1. Settle(e[2], "completed")
        BY <1>5, <2>2 DEF ToolEnds
      <3>2. /\ part' \in [Executions -> Statuses]
            /\ toolcalls' \in [CallIDs -> Executions \cup {NoPart}]
            /\ \A x \in Executions : part'[x] \in Open => toolcalls'[x[2]] = x
            /\ \A x \in CallIDs : toolcalls'[x] # NoPart =>
                  toolcalls'[x][2] = x /\ part'[toolcalls'[x]] \in Open
            /\ \A x \in Executions : part[x] = "none" => part'[x] = "none"
            /\ \A x \in CallIDs : toolcalls[x] = NoPart => toolcalls'[x] = NoPart
            /\ \A x \in Executions : part[x] \notin Open => part'[x] = part[x]
        BY <2>1, <3>1, SettleKeepsCalls
      <3>3. CallsAreOpenParts' /\ EndedKept
        BY <1>5, <3>2 DEF ToolEnds, CallsAreOpenParts, EndedKept
      <3>4. ProcessorTypeOK'
        BY <1>5, <3>2 DEF ToolEnds, ProcessorTypeOK, ToolStates, Ended
      <3> QED
        BY <1>5, <3>3, <3>4 DEF ToolEnds, TextIsKnown, CutOffIsOver, RetryIsLeft
    <2>3. CASE ~(~Live(e) /\ how = "done")
      <3>1. UNCHANGED <<part, toolcalls, heard, stage>>
        BY <1>5, <2>3 DEF ToolEnds
      <3>2. CallsAreOpenParts' /\ EndedKept
        BY <3>1 DEF CallsAreOpenParts, EndedKept
      <3>3. ProcessorTypeOK'
        BY <1>5, <3>1 DEF ToolEnds, ProcessorTypeOK, ToolStates, Ended
      <3> QED
        BY <1>5, <3>2, <3>3 DEF ToolEnds, TextIsKnown, CutOffIsOver, RetryIsLeft
    <2> QED
      BY <2>2, <2>3
  <1>6. ASSUME NEW e \in Executions, Metadata(e) PROVE ProcessorInv' /\ EndedKept
    <2>1. /\ e[2] \in CallIDs /\ toolcalls[e[2]] \in Executions
          /\ part[toolcalls[e[2]]] \in Open
          /\ part' = [part EXCEPT ![toolcalls[e[2]]] = "running"]
      BY <1>6, ExecutionFacts DEF Metadata, ProcessorTypeOK
    <2>2. ProcessorTypeOK'
      BY <1>6, <2>1 DEF Metadata, ProcessorTypeOK, Statuses
    <2>3. CallsAreOpenParts' /\ EndedKept
      BY <1>6, <2>1 DEF Metadata, ProcessorTypeOK, CallsAreOpenParts, EndedKept, Open
    <2> QED
      BY <1>6, <2>2, <2>3 DEF Metadata, TextIsKnown, CutOffIsOver, RetryIsLeft
  <1>7. ASSUME Mark PROVE ProcessorInv' /\ EndedKept
    <2>1. ProcessorTypeOK'
      BY <1>7 DEF Mark, ProcessorTypeOK, Statuses, Stages
    <2>2. \A e \in Executions : part[e] \in Open => part'[e] = "aborted"
      BY <1>7, ExecutionFacts DEF Mark, CallsAreOpenParts
    <2>3. \A e \in Executions : part[e] \notin Open => part'[e] = part[e]
      BY <1>7, ProcessorAssumption DEF Mark, ProcessorTypeOK, CallsAreOpenParts
    <2>4. CallsAreOpenParts' /\ EndedKept
      BY <1>7, <2>2, <2>3 DEF Mark, CallsAreOpenParts, EndedKept, Open
    <2> QED
      BY <1>7, <2>1, <2>4 DEF Mark, TextIsKnown, CutOffIsOver, RetryIsLeft
  <1> QED
    BY <1>1, <1>2, <1>3, <1>4, <1>5, <1>6, <1>7

LEMMA StepInv == ProcessorInv /\ [ProcessorNext]_processorVars => ProcessorInv' /\ EndedKept
  <1> SUFFICES ASSUME ProcessorInv, [ProcessorNext]_processorVars
               PROVE  ProcessorInv' /\ EndedKept
    OBVIOUS
  <1>1. CASE UNCHANGED processorVars
    BY <1>1 DEF processorVars, ProcessorInv, ProcessorTypeOK, CallsAreOpenParts, TextIsKnown,
                CutOffIsOver, RetryIsLeft, EndedKept
  <1>2. CASE ProcessorNext
    BY <1>2, QuietSteps, ToolSteps DEF ProcessorNext, HandleEvent, Tools, InputStartInSummary
  <1> QED
    BY <1>1, <1>2

\* What is inductive about a message: the calls in ctx.toolcalls are the open
\* parts, an open text is known, an interruption is the end.
THEOREM ProcessorInvHolds == ProcessorSpec => []ProcessorInv
  <1>1. ProcessorInv /\ [ProcessorNext]_processorVars => ProcessorInv'
    BY StepInv
  <1> QED
    BY InitInv, <1>1, PTL DEF ProcessorSpec

\* The state stays in its types.
THEOREM ProcessorTypes == ProcessorSpec => []ProcessorTypeOK
  <1>1. ProcessorInv => ProcessorTypeOK
    BY DEF ProcessorInv
  <1> QED
    BY ProcessorInvHolds, <1>1, PTL

\* However many calls and attempts there were, a closed message has no tool part
\* left pending or running.
THEOREM ClosedSettled == ProcessorSpec => []ClosedIsSettled
  <1>1. ProcessorInv => ClosedIsSettled
    BY ProcessorAssumption, ExecutionFacts DEF ProcessorInv, CallsAreOpenParts, ClosedIsSettled
  <1> QED
    BY ProcessorInvHolds, <1>1, PTL

\* A part that ended is not touched again, by anybody.
THEOREM EndFinal == ProcessorSpec => EndIsFinal
  <1>1. ProcessorInv /\ [ProcessorNext]_processorVars => [EndedKept]_processorVars
    BY StepInv
  <1> QED
    BY ProcessorInvHolds, <1>1, PTL DEF ProcessorSpec, EndIsFinal, EndedKept

\* A text of a closed message is closed, or was left by a retry.
THEOREM TextClosed == ProcessorSpec => []TextIsClosed
  <1>1. ProcessorInv => TextIsClosed
    BY DEF ProcessorInv, TextIsKnown, TextIsClosed, ProcessorTypeOK, Attempts
  <1> QED
    BY ProcessorInvHolds, <1>1, PTL

\* An interruption during an attempt is recorded in the message.
THEOREM AbortRecorded == ProcessorSpec => []AbortIsRecorded
  <1>1. ProcessorInv => AbortIsRecorded
    BY DEF ProcessorInv, CutOffIsOver, AbortIsRecorded
  <1> QED
    BY ProcessorInvHolds, <1>1, PTL

\* A message that process() returned is complete.
THEOREM ClosedComplete == ProcessorSpec => []ClosedIsComplete
  <1>1. ClosedIsSettled /\ TextIsClosed /\ AbortIsRecorded => ClosedIsComplete
    BY DEF ClosedIsComplete
  <1> QED
    BY ClosedSettled, TextClosed, AbortRecorded, <1>1, PTL

-----------------------------------------------------------------------------
\* What a tool did is in the log.  The second invariant is about executions
\* whose call id is not used by another attempt: their part is theirs alone.

\* A tool runs for a call that was heard of.
ToolsAreHeard == \A e \in Executions : tool[e] # "none" => heard[e] # "none"

FutureIsSilent == \A e \in Executions : e[1] > attempt => heard[e] = "none"

\* A call that was begun in the current stream still has its part, and its tool
\* has not been heard of any further.
BegunIsKept == \A e \in Executions :
    heard[e] = "input" /\ Live(e) /\ ~Reused(e) =>
        toolcalls[e[2]] = e /\ tool[e] \in {"none", "running", "done", "failed", "rejected"}

\* A call that was read has a part that runs, until the end of its tool is handled.
CalledRuns == \A e \in Executions :
    /\ stage # "closed" /\ heard[e] = "call" /\ ~Reused(e)
    /\ tool[e] \in {"none", "running", "done", "failed", "rejected"}
    => toolcalls[e[2]] = e /\ part[e] = "running"

\* The user's no is remembered.
RefusalBlocks == \A e \in Executions : tool[e] = "refused" /\ ~Reused(e) => blocked

RecordInv ==
    /\ ToolsAreHeard /\ FutureIsSilent /\ BegunIsKept /\ CalledRuns
    /\ FinishedIsRecorded /\ RefusalBlocks

\* Of the executions of one call id only one was heard of.
LEMMA AloneWithId ==
    ASSUME NEW e \in Executions, ~Reused(e), NEW x \in Executions, x[2] = e[2], x # e
    PROVE  heard[x] = "none"
  BY ExecutionFacts DEF Reused

LEMMA ReusedStays ==
    ASSUME \A x \in Executions : heard[x] # "none" => heard'[x] # "none",
           NEW e \in Executions, ~Reused(e)'
    PROVE  ~Reused(e)
  BY ExecutionFacts DEF Reused

LEMMA SettleAt ==
    ASSUME ProcessorTypeOK, NEW c \in CallIDs, NEW status, Settle(c, status)
    PROVE  /\ \A e \in Executions : Runs(c) /\ toolcalls[c] = e => part'[e] = status
           /\ \A e \in Executions : toolcalls[c] # e => part'[e] = part[e]
           /\ \A d \in CallIDs : d # c => toolcalls'[d] = toolcalls[d]
           /\ ~Runs(c) => part' = part /\ toolcalls' = toolcalls
  BY DEF Settle, Runs, ProcessorTypeOK

\* Steps that touch neither calls nor parts.
LEMMA QuietRecord ==
    ASSUME ProcessorInv, RecordInv, UNCHANGED <<tool, heard, toolcalls, part, blocked>>,
           attempt' \in {attempt, attempt + 1}, stage # "closed",
           attempt' = attempt /\ stage' \in {"stream", "asking"} => stage \in {"stream", "asking"}
    PROVE  RecordInv'
  <1>1. \A e \in Executions : Reused(e)' = Reused(e)
    BY DEF Reused
  <1>2. attempt \in Nat /\ \A e \in Executions : e[1] \in Nat
    BY ExecutionFacts, ProcessorAssumption DEF ProcessorInv, ProcessorTypeOK, Attempts
  <1>3. ToolsAreHeard'
    BY DEF RecordInv, ToolsAreHeard
  <1>4. FutureIsSilent'
    BY <1>2 DEF RecordInv, FutureIsSilent
  <1>5. ASSUME NEW e \in Executions, heard[e] # "none", Live(e)' PROVE Live(e)
    BY <1>2, <1>5 DEF Live, RecordInv, FutureIsSilent
  <1>6. BegunIsKept'
    BY <1>1, <1>5 DEF RecordInv, BegunIsKept
  <1>7. CalledRuns'
    BY <1>1 DEF RecordInv, CalledRuns
  <1>8. FinishedIsRecorded'
    BY <1>1 DEF RecordInv, FinishedIsRecorded
  <1>9. RefusalBlocks'
    BY <1>1 DEF RecordInv, RefusalBlocks
  <1> QED
    BY <1>3, <1>4, <1>6, <1>7, <1>8, <1>9 DEF RecordInv

LEMMA QuietStepsRecord ==
    ASSUME ProcessorInv, RecordInv,
           \/ FailRetryable \/ FailFatal \/ FailOverflow \/ Retry
           \/ DoomLoopAllowed \/ TextStart \/ TextEnd
           \/ \E overflow \in BOOLEAN : FinishStep(overflow)
           \/ Interrupt \/ Cleanup
    PROVE  RecordInv'
  <1>1. UNCHANGED <<tool, heard, toolcalls, part, blocked>>
    BY DEF FailRetryable, FailFatal, FailOverflow, Retry, DoomLoopAllowed, TextStart, TextEnd,
           FinishStep, Interrupt, Cleanup
  <1>2. /\ attempt' \in {attempt, attempt + 1} /\ stage # "closed"
        /\ attempt' = attempt /\ stage' \in {"stream", "asking"} => stage \in {"stream", "asking"}
    <2>1. CASE Retry
      <3>1. attempt \in Nat
        BY ProcessorAssumption DEF ProcessorInv, ProcessorTypeOK, Attempts
      <3> QED
        BY <2>1, <3>1 DEF Retry
    <2>2. CASE ~Retry
      BY <2>2 DEF FailRetryable, FailFatal, FailOverflow, DoomLoopAllowed, TextStart, TextEnd,
                  FinishStep, Interrupt, Cleanup, EndStream
    <2> QED
      BY <2>1, <2>2
  <1> QED
    BY <1>1, <1>2, QuietRecord

LEMMA InputStartRecord ==
    ASSUME ProcessorInv, RecordInv, NEW c \in CallIDs, InputStart(c)
    PROVE  RecordInv'
  <1> DEFINE p == IF toolcalls[c] = NoPart THEN Now(c) ELSE toolcalls[c]
             n == Now(c)
  <1>1. /\ n \in Executions /\ n[2] = c /\ n[1] = attempt /\ attempt \in Nat
        /\ \A e \in Executions : e[2] = c /\ e[1] = attempt => e = n
    BY ExecutionFacts, ProcessorAssumption DEF Now, ProcessorInv, ProcessorTypeOK, Attempts
  <1>2. /\ heard[n] = "none" /\ heard' = [heard EXCEPT ![n] = "input"]
        /\ toolcalls' = [toolcalls EXCEPT ![c] = p]
        /\ part' = [part EXCEPT ![p] = "pending"]
        /\ stage = "stream"
        /\ UNCHANGED <<stage, attempt, tool, blocked>>
    BY DEF InputStart
  <1>3. p \in Executions /\ p[2] = c /\ (p = n \/ heard[p] # "none")
    BY <1>1, <1>2 DEF ProcessorInv, ProcessorTypeOK, CallsAreOpenParts, Open
  <1> HIDE DEF p, n
  <1>4. /\ \A e \in Executions : heard'[e] = IF e = n THEN "input" ELSE heard[e]
        /\ \A d \in CallIDs : toolcalls'[d] = IF d = c THEN p ELSE toolcalls[d]
        /\ \A e \in Executions : part'[e] = IF e = p THEN "pending" ELSE part[e]
    BY <1>1, <1>2, <1>3 DEF ProcessorInv, ProcessorTypeOK
  <1>5. ASSUME NEW e \in Executions, ~Reused(e)'
        PROVE  ~Reused(e) /\ (e[2] = c => e = n) /\ (e = n => p = n)
    <2>1. ~Reused(e)
      BY <1>4, <1>5, ReusedStays
    <2>2. e[2] = c => e = n
      <3> SUFFICES ASSUME e[2] = c, e # n PROVE FALSE
        OBVIOUS
      <3>1. n[1] \in Attempts \ {e[1]} /\ n = <<n[1], e[2]>>
        BY <1>1, ExecutionFacts
      <3> QED
        BY <1>1, <1>4, <1>5, <3>1 DEF Reused
    <2>3. e = n => p = n
      BY <1>1, <1>3, <2>1, AloneWithId
    <2> QED
      BY <2>1, <2>2, <2>3
  <1>6. ToolsAreHeard'
    BY <1>2, <1>4 DEF RecordInv, ToolsAreHeard
  <1>7. FutureIsSilent'
    BY <1>1, <1>2, <1>4 DEF RecordInv, FutureIsSilent
  <1>8. tool[n] = "none"
    BY <1>1, <1>2 DEF RecordInv, ToolsAreHeard
  <1>9. BegunIsKept'
    <2> SUFFICES ASSUME NEW e \in Executions, heard'[e] = "input", Live(e)', ~Reused(e)'
                 PROVE  toolcalls'[e[2]] = e
                        /\ tool'[e] \in {"none", "running", "done", "failed", "rejected"}
      BY DEF BegunIsKept
    <2>1. CASE e = n
      BY <1>1, <1>2, <1>4, <1>5, <1>8, <2>1
    <2>2. CASE e # n
      <3>1. e[2] # c /\ e[2] \in CallIDs
        BY <1>5, <2>2, ExecutionFacts
      <3>2. toolcalls[e[2]] = e /\ tool[e] \in {"none", "running", "done", "failed", "rejected"}
        BY <1>2, <1>4, <1>5, <2>2 DEF RecordInv, BegunIsKept, Live
      <3> QED
        BY <1>2, <1>4, <3>1, <3>2
    <2> QED
      BY <2>1, <2>2
  <1>10. ASSUME NEW e \in Executions, ~Reused(e)', heard'[e] = "call"
         PROVE  /\ ~Reused(e) /\ heard[e] = "call"
                /\ toolcalls'[e[2]] = toolcalls[e[2]] /\ part'[e] = part[e]
    <2>1. e # n /\ e[2] # c /\ e[2] \in CallIDs
      BY <1>4, <1>5, <1>10, ExecutionFacts
    <2> QED
      BY <1>3, <1>4, <1>5, <1>10, <2>1
  <1>11. CalledRuns'
    BY <1>2, <1>10 DEF RecordInv, CalledRuns
  <1>12. FinishedIsRecorded'
    BY <1>2, <1>10 DEF RecordInv, FinishedIsRecorded
  <1>13. RefusalBlocks'
    BY <1>2, <1>5 DEF RecordInv, RefusalBlocks
  <1> QED
    BY <1>6, <1>7, <1>9, <1>11, <1>12, <1>13 DEF RecordInv

LEMMA ExecuteRecord ==
    ASSUME ProcessorInv, RecordInv, NEW c \in CallIDs, Execute(c)
    PROVE  RecordInv'
  <1> DEFINE n == Now(c)
  <1>1. /\ n \in Executions /\ heard[n] = "input" /\ tool[n] = "none"
        /\ tool' = [tool EXCEPT ![n] = "running"]
        /\ UNCHANGED <<stage, attempt, heard, toolcalls, part, blocked>>
    BY ExecutionFacts DEF Execute, Now, ProcessorInv, ProcessorTypeOK
  <1> HIDE DEF n
  <1>2. \A e \in Executions : tool'[e] = IF e = n THEN "running" ELSE tool[e]
    BY <1>1 DEF ProcessorInv, ProcessorTypeOK
  <1>3. \A e \in Executions : Reused(e)' = Reused(e) /\ Live(e)' = Live(e)
    BY <1>1 DEF Reused, Live
  <1>4. ToolsAreHeard' /\ FutureIsSilent'
    BY <1>1, <1>2 DEF RecordInv, ToolsAreHeard, FutureIsSilent
  <1>5. BegunIsKept'
    BY <1>1, <1>2, <1>3 DEF RecordInv, BegunIsKept
  <1>6. CalledRuns'
    BY <1>1, <1>2, <1>3 DEF RecordInv, CalledRuns
  <1>7. FinishedIsRecorded' /\ RefusalBlocks'
    BY <1>1, <1>2, <1>3 DEF RecordInv, FinishedIsRecorded, RefusalBlocks
  <1> QED
    BY <1>4, <1>5, <1>6, <1>7 DEF RecordInv

LEMMA ToolCallRecord ==
    ASSUME ProcessorInv, RecordInv, NEW c \in CallIDs, ToolCall(c)
    PROVE  RecordInv'
  <1> DEFINE n == Now(c)
  <1>1. /\ n \in Executions /\ n[2] = c /\ heard[n] = "input" /\ tool[n] # "none"
        /\ n[1] = attempt /\ attempt \in Nat
        /\ heard' = [heard EXCEPT ![n] = "call"] /\ stage = "stream"
        /\ stage' \in {"stream", "asking"} /\ Live(n)
        /\ UNCHANGED <<attempt, tool, toolcalls, blocked>>
    BY ExecutionFacts, ProcessorAssumption
       DEF ToolCall, Now, Live, ProcessorInv, ProcessorTypeOK, Attempts
  <1>2. part' = IF toolcalls[c] = NoPart THEN part ELSE [part EXCEPT ![toolcalls[c]] = "running"]
    BY DEF ToolCall
  <1> HIDE DEF n
  <1>3. \A e \in Executions : heard'[e] = IF e = n THEN "call" ELSE heard[e]
    BY <1>1 DEF ProcessorInv, ProcessorTypeOK
  <1>4. \A e \in Executions : part'[e] = IF toolcalls[c] = e THEN "running" ELSE part[e]
    BY <1>2, ProcessorAssumption DEF ProcessorInv, ProcessorTypeOK
  <1>5. \A e \in Executions : (~Reused(e)' => ~Reused(e)) /\ Live(e)' = Live(e)
    BY <1>1, <1>3, ReusedStays DEF Live
  <1>6. \A e \in Executions : toolcalls[c] = e => e[2] = c
    BY ProcessorAssumption DEF ProcessorInv, CallsAreOpenParts
  <1>7. ToolsAreHeard' /\ FutureIsSilent'
    BY <1>1, <1>3 DEF RecordInv, ToolsAreHeard, FutureIsSilent
  <1>8. BegunIsKept'
    BY <1>1, <1>3, <1>5 DEF RecordInv, BegunIsKept
  <1>9. ~Reused(n) => toolcalls[c] = n /\ tool[n] \in {"running", "done", "failed", "rejected"}
    BY <1>1 DEF RecordInv, BegunIsKept
  <1>10. CalledRuns'
    <2> SUFFICES ASSUME NEW e \in Executions, heard'[e] = "call", ~Reused(e)',
                        tool'[e] \in {"none", "running", "done", "failed", "rejected"}
                 PROVE  toolcalls'[e[2]] = e /\ part'[e] = "running"
      BY DEF CalledRuns
    <2>1. CASE e = n
      BY <1>1, <1>4, <1>5, <1>9, <2>1
    <2>2. CASE e # n
      BY <1>1, <1>3, <1>4, <1>5, <2>2 DEF RecordInv, CalledRuns
    <2> QED
      BY <2>1, <2>2
  <1>11. FinishedIsRecorded'
    <2> SUFFICES ASSUME NEW e \in Executions, heard'[e] = "call", ~Reused(e)',
                        tool'[e] = "succeeded"
                 PROVE  part'[e] = "completed"
      BY DEF FinishedIsRecorded
    <2>1. e # n
      BY <1>1, <1>5, <1>9
    <2>2. part[e] = "completed"
      BY <1>1, <1>3, <1>5, <2>1 DEF RecordInv, FinishedIsRecorded
    <2>3. toolcalls[c] # e
      BY <2>2, ProcessorAssumption DEF ProcessorInv, CallsAreOpenParts, Open
    <2> QED
      BY <1>4, <2>2, <2>3
  <1>12. RefusalBlocks'
    BY <1>1, <1>5 DEF RecordInv, RefusalBlocks
  <1> QED
    BY <1>7, <1>8, <1>10, <1>11, <1>12 DEF RecordInv

\* The end of the tool of x is handled, by whoever, and its call is settled with it.
LEMMA SettledRecord ==
    ASSUME ProcessorInv, ProcessorInv', RecordInv, EndedKept, NEW x \in Executions, NEW how,
           NEW status \in {"completed", "error"},
           UNCHANGED <<stage, attempt, heard>>, heard[x] # "none",
           tool' = [tool EXCEPT ![x] = how],
           how \in {"succeeded", "gaveUp", "refused"},
           heard[x] = "call" \/ ~Live(x),
           tool[x] \in {"none", "running", "done", "failed", "rejected"},
           Settle(x[2], status), how = "succeeded" => status = "completed",
           how = "refused" => /\ heard[x] = "call" /\ stage = "stream"
                              /\ blocked' = (blocked \/ Runs(x[2])),
           how # "refused" => blocked' = blocked \/ blocked' = TRUE
    PROVE  RecordInv'
  <1>1. x[2] \in CallIDs
    BY ExecutionFacts
  <1>2. \A e \in Executions : tool'[e] = IF e = x THEN how ELSE tool[e]
    BY DEF ProcessorInv, ProcessorTypeOK
  <1>3. \A e \in Executions : Reused(e)' = Reused(e) /\ Live(e)' = Live(e)
    BY DEF Reused, Live
  <1>4. /\ \A e \in Executions : Runs(x[2]) /\ toolcalls[x[2]] = e => part'[e] = status
        /\ \A e \in Executions : toolcalls[x[2]] # e => part'[e] = part[e]
        /\ \A d \in CallIDs : d # x[2] => toolcalls'[d] = toolcalls[d]
        /\ ~Runs(x[2]) => part' = part /\ toolcalls' = toolcalls
    BY <1>1, SettleAt DEF ProcessorInv
  <1>5. \A e \in Executions : ~Reused(e) /\ e # x => e[2] # x[2]
    BY AloneWithId
  <1>6. \A e \in Executions : ~Reused(e) /\ e # x =>
          toolcalls'[e[2]] = toolcalls[e[2]] /\ part'[e] = part[e]
    <2>1. \A e \in Executions : toolcalls[x[2]] = e => e[2] = x[2]
      BY <1>1, ProcessorAssumption DEF ProcessorInv, CallsAreOpenParts
    <2> QED
      BY <1>1, <1>4, <1>5, <2>1, ExecutionFacts
  <1>7. heard[x] = "call" /\ ~Reused(x) /\ stage # "closed" => Runs(x[2]) /\ toolcalls[x[2]] = x
    BY ProcessorAssumption DEF RecordInv, CalledRuns, Runs
  <1>8. ToolsAreHeard' /\ FutureIsSilent'
    BY <1>2 DEF RecordInv, ToolsAreHeard, FutureIsSilent
  <1>9. BegunIsKept'
    BY <1>2, <1>3, <1>6 DEF RecordInv, BegunIsKept
  <1>10. CalledRuns'
    BY <1>2, <1>3, <1>6 DEF RecordInv, CalledRuns
  <1>11. FinishedIsRecorded'
    BY <1>2, <1>3, <1>4, <1>6, <1>7 DEF RecordInv, FinishedIsRecorded
  <1>12. RefusalBlocks'
    BY <1>2, <1>3, <1>7 DEF RecordInv, RefusalBlocks, ProcessorInv, ProcessorTypeOK
  <1> QED
    BY <1>8, <1>9, <1>10, <1>11, <1>12 DEF RecordInv

LEMMA ToolResultRecord ==
    ASSUME ProcessorInv, ProcessorInv', RecordInv, EndedKept, NEW c \in CallIDs, ToolResult(c)
    PROVE  RecordInv'
  <1> DEFINE n == Now(c)
  <1>1. /\ n \in Executions /\ n[2] = c /\ heard[n] = "call" /\ tool[n] = "done"
        /\ tool' = [tool EXCEPT ![n] = "succeeded"] /\ Settle(n[2], "completed")
        /\ UNCHANGED <<stage, attempt, heard, blocked>>
    BY ExecutionFacts DEF ToolResult, Now, Settled, ProcessorInv, ProcessorTypeOK
  <1> HIDE DEF n
  <1> QED
    BY <1>1, SettledRecord

LEMMA ToolErrorRecord ==
    ASSUME ProcessorInv, ProcessorInv', RecordInv, EndedKept, NEW c \in CallIDs, ToolError(c)
    PROVE  RecordInv'
  <1> DEFINE n == Now(c)
             how == Settled(tool[n])
  <1>1. /\ n \in Executions /\ n[2] = c /\ heard[n] = "call" /\ stage = "stream"
        /\ tool[n] \in {"failed", "rejected"}
        /\ tool' = [tool EXCEPT ![n] = how] /\ Settle(n[2], "error")
        /\ blocked' = (blocked \/ (Runs(n[2]) /\ tool[n] = "rejected"))
        /\ UNCHANGED <<stage, attempt, heard>>
    BY ExecutionFacts DEF ToolError, Now, ProcessorInv, ProcessorTypeOK
  <1>2. (tool[n] = "failed" /\ how = "gaveUp") \/ (tool[n] = "rejected" /\ how = "refused")
    BY <1>1 DEF Settled
  <1>3. blocked \in BOOLEAN /\ blocked' \in BOOLEAN
    BY DEF ProcessorInv, ProcessorTypeOK
  <1> HIDE DEF n, how
  <1>4. CASE tool[n] = "failed" /\ how = "gaveUp"
    <2>1. blocked' = blocked
      BY <1>1, <1>3, <1>4
    <2> QED
      BY <1>1, <1>4, <2>1, SettledRecord
  <1>5. CASE tool[n] = "rejected" /\ how = "refused"
    <2>1. blocked' = (blocked \/ Runs(n[2]))
      BY <1>1, <1>5
    <2> QED
      BY <1>1, <1>5, <2>1, SettledRecord
  <1> QED
    BY <1>2, <1>4, <1>5

LEMMA ToolEndsRecord ==
    ASSUME ProcessorInv, ProcessorInv', RecordInv, EndedKept, NEW x \in Executions,
           NEW how \in {"done", "failed", "rejected"}, ToolEnds(x, how)
    PROVE  RecordInv'
  <1>1. /\ tool[x] = "running" /\ tool' = [tool EXCEPT ![x] = Ended(x, how)]
        /\ UNCHANGED <<stage, attempt, heard, blocked>>
    BY DEF ToolEnds
  <1>2. heard[x] # "none"
    BY <1>1 DEF RecordInv, ToolsAreHeard
  <1>3. CASE ~Live(x) /\ how = "done"
    <2>1. Settle(x[2], "completed") /\ Ended(x, how) = "succeeded"
      BY <1>3 DEF ToolEnds, Ended
    <2> QED
      BY <1>1, <1>2, <1>3, <2>1, SettledRecord
  <1>4. CASE ~(~Live(x) /\ how = "done")
    <2>1. /\ UNCHANGED <<part, toolcalls>>
          /\ Live(x) => Ended(x, how) = how
          /\ ~Live(x) => Ended(x, how) = "gaveUp"
      BY <1>4 DEF ToolEnds, Ended
    <2>2. \A e \in Executions : tool'[e] = IF e = x THEN Ended(x, how) ELSE tool[e]
      BY <1>1 DEF ProcessorInv, ProcessorTypeOK
    <2>3. \A e \in Executions : Reused(e)' = Reused(e) /\ Live(e)' = Live(e)
      BY <1>1 DEF Reused, Live
    <2>4. ToolsAreHeard' /\ FutureIsSilent'
      BY <1>1, <1>2, <2>2 DEF RecordInv, ToolsAreHeard, FutureIsSilent
    <2>5. BegunIsKept'
      BY <1>1, <2>1, <2>2, <2>3 DEF RecordInv, BegunIsKept
    <2>6. CalledRuns'
      BY <1>1, <2>1, <2>2, <2>3 DEF RecordInv, CalledRuns
    <2>7. FinishedIsRecorded' /\ RefusalBlocks'
      BY <1>1, <2>1, <2>2, <2>3 DEF RecordInv, FinishedIsRecorded, RefusalBlocks
    <2> QED
      BY <2>4, <2>5, <2>6, <2>7 DEF RecordInv
  <1> QED
    BY <1>3, <1>4

LEMMA MetadataRecord ==
    ASSUME ProcessorInv, RecordInv, NEW x \in Executions, Metadata(x)
    PROVE  RecordInv'
  <1> DEFINE p == toolcalls[x[2]]
  <1>1. /\ p \in Executions /\ part[p] \in Open /\ part' = [part EXCEPT ![p] = "running"]
        /\ UNCHANGED <<stage, attempt, tool, heard, toolcalls, blocked>>
    BY ExecutionFacts DEF Metadata, ProcessorInv, ProcessorTypeOK
  <1> HIDE DEF p
  <1>2. \A e \in Executions : part'[e] = IF e = p THEN "running" ELSE part[e]
    BY <1>1 DEF ProcessorInv, ProcessorTypeOK
  <1>3. \A e \in Executions : Reused(e)' = Reused(e) /\ Live(e)' = Live(e)
    BY <1>1 DEF Reused, Live
  <1>4. ToolsAreHeard' /\ FutureIsSilent' /\ BegunIsKept' /\ RefusalBlocks'
    BY <1>1, <1>3 DEF RecordInv, ToolsAreHeard, FutureIsSilent, BegunIsKept, RefusalBlocks
  <1>5. CalledRuns'
    BY <1>1, <1>2, <1>3 DEF RecordInv, CalledRuns
  <1>6. FinishedIsRecorded'
    BY <1>1, <1>2, <1>3 DEF RecordInv, FinishedIsRecorded, Open
  <1> QED
    BY <1>4, <1>5, <1>6 DEF RecordInv

LEMMA MarkRecord ==
    ASSUME ProcessorInv, RecordInv, Mark
    PROVE  RecordInv'
  <1>1. stage' = "closed" /\ UNCHANGED <<attempt, tool, heard, blocked>>
    BY DEF Mark
  <1>2. \A e \in Executions : Reused(e)' = Reused(e) /\ ~Live(e)'
    BY <1>1 DEF Reused, Live
  <1> QED
    BY <1>1, <1>2 DEF RecordInv, ToolsAreHeard, FutureIsSilent, BegunIsKept, CalledRuns,
                      FinishedIsRecorded, RefusalBlocks

LEMMA InitRecord == ProcessorInit => RecordInv
  BY DEF ProcessorInit, RecordInv, ToolsAreHeard, FutureIsSilent, BegunIsKept, CalledRuns,
         FinishedIsRecorded, RefusalBlocks

LEMMA StepRecord ==
    ASSUME ProcessorInv, ProcessorInv', EndedKept, RecordInv, [ProcessorNext]_processorVars
    PROVE  RecordInv'
  <1>1. CASE UNCHANGED processorVars
    <2>1. UNCHANGED <<stage, attempt, tool, heard, toolcalls, part, blocked>>
      BY <1>1 DEF processorVars
    <2>2. \A e \in Executions : Reused(e)' = Reused(e) /\ Live(e)' = Live(e)
      BY <2>1 DEF Reused, Live
    <2> QED
      BY <2>1, <2>2 DEF RecordInv, ToolsAreHeard, FutureIsSilent, BegunIsKept, CalledRuns,
                        FinishedIsRecorded, RefusalBlocks
  <1>2. CASE ProcessorNext
    BY <1>2, QuietStepsRecord, InputStartRecord, ExecuteRecord, ToolCallRecord, ToolResultRecord,
       ToolErrorRecord, ToolEndsRecord, MetadataRecord, MarkRecord
       DEF ProcessorNext, HandleEvent, Tools, InputStartInSummary
  <1> QED
    BY <1>1, <1>2

\* The second inductive invariant, of the calls whose id only one attempt uses.
THEOREM RecordInvHolds == ProcessorSpec => []RecordInv
  <1>1. /\ ProcessorInv /\ ProcessorInv' /\ RecordInv /\ [ProcessorNext]_processorVars
        => RecordInv'
    BY StepInv, StepRecord
  <1> QED
    BY InitRecord, <1>1, ProcessorInvHolds, PTL DEF ProcessorSpec

\* A tool that succeeded while its message was open has a completed part, also when
\* the stream broke while it ran: for any number of calls and attempts.
THEOREM FinishedRecorded == ProcessorSpec => []FinishedIsRecorded
  <1>1. RecordInv => FinishedIsRecorded
    BY DEF RecordInv
  <1> QED
    BY RecordInvHolds, <1>1, PTL

\* What the user rejected ends the loop, unless the call id was used twice.
THEOREM RejectionEnds == ProcessorSpec => []RejectionStops
  <1>1. RecordInv => RejectionStops
    BY DEF RecordInv, RefusalBlocks, RejectionStops, Result
  <1> QED
    BY RecordInvHolds, <1>1, PTL
=============================================================================
