------------------------------ MODULE Processor ------------------------------
(***************************************************************************)
(* packages/ravens/src/session/processor.ts: one assistant message, from   *)
(* the first event of the model's stream to the cleanup that closes it.    *)
(*                                                                         *)
(* Three parties touch the message: the fiber that handles the events of   *)
(* the stream, the tools, which the AI SDK runs on its own while it        *)
(* produces the stream, and the caller who may interrupt.  A failed stream *)
(* is tried again (retry.ts) with the same context: the second attempt     *)
(* finds the tool calls of the first, and the tools of the first may still *)
(* be running.                                                             *)
(*                                                                         *)
(* An execution is one run of one call id in one attempt; a part is named  *)
(* by the execution it was made for.  The store is synchronous, so what a  *)
(* handler does between two awaits is one step.                            *)
(***************************************************************************)
EXTENDS Naturals

CONSTANTS
    CallIDs,     \* tool call ids; a provider may use them again in a retry
    MaxAttempts, \* bound: streams opened for the message
    Offered,     \* bound: the call ids an attempt may use
    NoPart

Attempts   == 1..MaxAttempts
Executions == Attempts \X CallIDs

ASSUME ProcessorAssumption ==
    /\ MaxAttempts \in Nat \ {0}
    /\ Offered \in [Attempts -> SUBSET CallIDs]
    /\ NoPart \notin Executions

VARIABLES
    stage,       \* of the fiber: where `process' is
    attempt,     \* streams opened so far
    summary,     \* assistantMessage.summary: a message that may not use tools
    tool,        \* of an execution: how far the tool itself is
    heard,       \* of an execution: the last event of it that was handled
    toolcalls,   \* ctx.toolcalls: call id -> part
    part,        \* of a stored tool part: its status
    text,        \* of the text (or reasoning) part of an attempt: its state
    currentText, \* ctx.currentText (or reasoningMap): the attempt it is of, or 0
    error,       \* assistantMessage.error
    needsCompaction, blocked,
    cutOff,      \* stage in which the fiber was interrupted, or "no"
    dropped      \* executions whose result was on its way when the stream was dropped

processorVars ==
    <<stage, attempt, summary, tool, heard, toolcalls, part, text, currentText,
      error, needsCompaction, blocked, cutOff, dropped>>

Stages   == {"stream", "asking", "backoff", "cleanup", "waiting", "closed"}
Statuses == {"none", "pending", "running", "completed", "error", "aborted"}
Open     == {"pending", "running"}

\* A result waits in the stream (the second line) until its event is handled.
ToolStates == {"none", "running",
               "done", "failed", "rejected",
               "succeeded", "gaveUp", "refused"}
Settled(how) == CASE how = "done" -> "succeeded"
                  [] how = "failed" -> "gaveUp"
                  [] how = "rejected" -> "refused"

ProcessorTypeOK ==
    /\ stage \in Stages
    /\ attempt \in Attempts
    /\ summary \in BOOLEAN
    /\ tool \in [Executions -> ToolStates]
    /\ heard \in [Executions -> {"none", "input", "call"}]
    /\ toolcalls \in [CallIDs -> Executions \cup {NoPart}]
    /\ part \in [Executions -> Statuses]
    /\ text \in [Attempts -> {"none", "open", "closed"}]
    /\ currentText \in Attempts \cup {0}
    /\ error \in {"none", "aborted", "failed"}
    /\ needsCompaction \in BOOLEAN
    /\ blocked \in BOOLEAN
    /\ cutOff \in Stages \cup {"no"}
    /\ dropped \subseteq Executions

ProcessorInit ==
    /\ stage = "stream"
    /\ attempt = 1
    /\ summary \in BOOLEAN
    /\ tool = [e \in Executions |-> "none"]
    /\ heard = [e \in Executions |-> "none"]
    /\ toolcalls = [c \in CallIDs |-> NoPart]
    /\ part = [e \in Executions |-> "none"]
    /\ text = [a \in Attempts |-> "none"]
    /\ currentText = 0
    /\ error = "none"
    /\ needsCompaction = FALSE
    /\ blocked = FALSE
    /\ cutOff = "no"
    /\ dropped = {}

Now(c) == <<attempt, c>>
Live(e) == e[1] = attempt /\ stage \in {"stream", "asking"} \* its abort signal is not set

-----------------------------------------------------------------------------
\* The end of a stream.  Its scope aborts the tools; results the SDK had
\* already put into the stream are lost with it.
EndStream(next) ==
    /\ stage' = next
    /\ dropped' = dropped \cup
         {e \in Executions : e[1] = attempt /\ tool[e] \in {"done", "failed", "rejected"}}

\* The stream, or a handler, fails: retried, or halted with what it failed of.
FailRetryable ==
    /\ stage = "stream"
    /\ attempt < MaxAttempts
    /\ EndStream("backoff")
    /\ UNCHANGED <<attempt, summary, tool, heard, toolcalls, part, text, currentText,
                   error, needsCompaction, blocked, cutOff>>

FailFatal ==
    /\ stage \in {"stream", "asking"}
    /\ EndStream("cleanup")
    /\ error' = "failed"
    /\ UNCHANGED <<attempt, summary, tool, heard, toolcalls, part, text, currentText,
                   needsCompaction, blocked, cutOff>>

\* A request that does not fit is not an error of the message: it is compacted.
FailOverflow ==
    /\ stage = "stream"
    /\ EndStream("cleanup")
    /\ needsCompaction' = TRUE
    /\ UNCHANGED <<attempt, summary, tool, heard, toolcalls, part, text, currentText,
                   error, blocked, cutOff>>

\* Variant: an attempt starts unblocked.
RetryUnblocked ==
    /\ stage = "backoff"
    /\ stage' = "stream"
    /\ attempt' = attempt + 1
    /\ currentText' = 0
    /\ blocked' = FALSE
    /\ UNCHANGED <<summary, tool, heard, toolcalls, part, text, error,
                   needsCompaction, cutOff, dropped>>

\* The next attempt forgets the open text of the last one, not its tool calls.
Retry ==
    /\ stage = "backoff"
    /\ stage' = "stream"
    /\ attempt' = attempt + 1
    /\ currentText' = 0
    /\ UNCHANGED <<summary, tool, heard, toolcalls, part, text, error,
                   needsCompaction, blocked, cutOff, dropped>>

-----------------------------------------------------------------------------
\* Variant: a call id that comes again always gets a part of its own.
InputStartAnew(c) ==
    /\ stage = "stream"
    /\ ~summary
    /\ c \in Offered[attempt]
    /\ heard[Now(c)] = "none"
    /\ heard' = [heard EXCEPT ![Now(c)] = "input"]
    /\ toolcalls' = [toolcalls EXCEPT ![c] = Now(c)]
    /\ part' = [part EXCEPT ![Now(c)] = "pending"]
    /\ UNCHANGED <<stage, attempt, summary, tool, text, currentText, error,
                   needsCompaction, blocked, cutOff, dropped>>

\* tool-input-start: a pending part, the one of the same id if it is still open.
InputStart(c) ==
    LET p == IF toolcalls[c] = NoPart THEN Now(c) ELSE toolcalls[c] IN
    /\ stage = "stream"
    /\ ~summary
    /\ c \in Offered[attempt]
    /\ heard[Now(c)] = "none"
    /\ heard' = [heard EXCEPT ![Now(c)] = "input"]
    /\ toolcalls' = [toolcalls EXCEPT ![c] = p]
    /\ part' = [part EXCEPT ![p] = "pending"]
    /\ UNCHANGED <<stage, attempt, summary, tool, text, currentText, error,
                   needsCompaction, blocked, cutOff, dropped>>

\* A summary that calls a tool fails in the handler.
InputStartInSummary == summary /\ FailFatal

\* The SDK reads the whole call: it queues the event and starts the tool.
Execute(c) ==
    /\ Live(Now(c))
    /\ heard[Now(c)] = "input"
    /\ tool[Now(c)] = "none"
    /\ tool' = [tool EXCEPT ![Now(c)] = "running"]
    /\ UNCHANGED <<stage, attempt, summary, heard, toolcalls, part, text, currentText,
                   error, needsCompaction, blocked, cutOff, dropped>>

\* tool-call: the part runs, whatever it was; three equal calls in a row ask
\* the user before the stream goes on.
ToolCall(c) ==
    /\ stage = "stream"
    /\ heard[Now(c)] = "input"
    /\ tool[Now(c)] # "none"
    /\ heard' = [heard EXCEPT ![Now(c)] = "call"]
    /\ part' = IF toolcalls[c] = NoPart THEN part
               ELSE [part EXCEPT ![toolcalls[c]] = "running"]
    /\ stage' \in {"stream", "asking"}
    /\ UNCHANGED <<attempt, summary, tool, toolcalls, text, currentText, error,
                   needsCompaction, blocked, cutOff, dropped>>

DoomLoopAllowed ==
    /\ stage = "asking"
    /\ stage' = "stream"
    /\ UNCHANGED <<attempt, summary, tool, heard, toolcalls, part, text, currentText,
                   error, needsCompaction, blocked, cutOff, dropped>>

-----------------------------------------------------------------------------
\* completeToolCall and failToolCall: only a part that runs is changed, and then
\* its call is settled (settleToolCall).
Runs(c) == toolcalls[c] # NoPart /\ part[toolcalls[c]] = "running"

\* Variant: the call is not settled.
SettleKeeps(c, status) ==
    IF Runs(c)
    THEN /\ part' = [part EXCEPT ![toolcalls[c]] = status]
         /\ UNCHANGED toolcalls
    ELSE UNCHANGED <<part, toolcalls>>

Settle(c, status) ==
    IF Runs(c)
    THEN /\ part' = [part EXCEPT ![toolcalls[c]] = status]
         /\ toolcalls' = [toolcalls EXCEPT ![c] = NoPart]
    ELSE UNCHANGED <<part, toolcalls>>

Ended(e, how) ==
    CASE Live(e) -> how
      [] ~Live(e) /\ how = "done" -> "succeeded"
      [] OTHER -> "gaveUp"

\* Variant: a tool leaves its result to the stream, whatever happened to that.
ToolEndsInStream(e, how) ==
    /\ tool[e] = "running"
    /\ tool' = [tool EXCEPT ![e] = Ended(e, how)]
    /\ UNCHANGED <<stage, attempt, summary, heard, toolcalls, part, text, currentText,
                   error, needsCompaction, blocked, cutOff, dropped>>

\* The tool itself ends.  In a live stream that becomes an event; behind an
\* abort only a result counts, and the tool stores it itself; a failure, or a
\* rejection by the user, is heard by nobody.
ToolEnds(e, how) ==
    /\ tool[e] = "running"
    /\ tool' = [tool EXCEPT ![e] = Ended(e, how)]
    /\ IF ~Live(e) /\ how = "done"
       THEN Settle(e[2], "completed")
       ELSE UNCHANGED <<part, toolcalls>>
    /\ UNCHANGED <<stage, attempt, summary, heard, text, currentText,
                   error, needsCompaction, blocked, cutOff, dropped>>

\* ctx.metadata of a running tool: by call id, and only an open part changes.
Metadata(e) ==
    /\ tool[e] = "running"
    /\ toolcalls[e[2]] # NoPart
    /\ part[toolcalls[e[2]]] \in Open
    /\ part' = [part EXCEPT ![toolcalls[e[2]]] = "running"]
    /\ UNCHANGED <<stage, attempt, summary, tool, heard, toolcalls, text, currentText,
                   error, needsCompaction, blocked, cutOff, dropped>>

ToolResult(c) ==
    /\ stage = "stream"
    /\ heard[Now(c)] = "call"
    /\ tool[Now(c)] = "done"
    /\ tool' = [tool EXCEPT ![Now(c)] = Settled(@)]
    /\ Settle(c, "completed")
    /\ UNCHANGED <<stage, attempt, summary, heard, text, currentText, error,
                   needsCompaction, blocked, cutOff, dropped>>

\* tool-error; a rejected permission or question blocks the loop.
ToolError(c) ==
    /\ stage = "stream"
    /\ heard[Now(c)] = "call"
    /\ tool[Now(c)] \in {"failed", "rejected"}
    /\ tool' = [tool EXCEPT ![Now(c)] = Settled(@)]
    /\ blocked' = (blocked \/ (Runs(c) /\ tool[Now(c)] = "rejected"))
    /\ Settle(c, "error")
    /\ UNCHANGED <<stage, attempt, summary, heard, text, currentText, error,
                   needsCompaction, cutOff, dropped>>

-----------------------------------------------------------------------------
TextStart ==
    /\ stage = "stream"
    /\ text[attempt] = "none"
    /\ text' = [text EXCEPT ![attempt] = "open"]
    /\ currentText' = attempt
    /\ UNCHANGED <<stage, attempt, summary, tool, heard, toolcalls, part, error,
                   needsCompaction, blocked, cutOff, dropped>>

CloseText ==
    /\ text' = IF currentText = 0 THEN text ELSE [text EXCEPT ![currentText] = "closed"]
    /\ currentText' = 0

TextEnd ==
    /\ stage = "stream"
    /\ currentText # 0
    /\ CloseText
    /\ UNCHANGED <<stage, attempt, summary, tool, heard, toolcalls, part, error,
                   needsCompaction, blocked, cutOff, dropped>>

\* finish-step comes behind every event of the step's calls.  A step that
\* filled the window ends the stream (takeUntil); so does the last one.
FinishStep(overflow) ==
    /\ stage = "stream"
    /\ \A c \in CallIDs : tool[Now(c)] \notin {"running", "done", "failed", "rejected"}
    /\ overflow => ~summary
    /\ needsCompaction' = overflow
    /\ EndStream("cleanup")
    /\ UNCHANGED <<attempt, summary, tool, heard, toolcalls, part, text, currentText,
                   error, blocked, cutOff>>

-----------------------------------------------------------------------------
\* The fiber is interrupted.  onInterrupt belongs to the attempt: it records
\* the abort while a stream is open, and not while a retry is waited for.
Interrupt ==
    /\ stage \in {"stream", "asking", "backoff"}
    /\ cutOff' = stage
    /\ EndStream("cleanup")
    /\ error' = IF stage = "backoff" THEN error ELSE "aborted"
    /\ UNCHANGED <<attempt, summary, tool, heard, toolcalls, part, text, currentText,
                   needsCompaction, blocked>>

\* cleanup, which nothing interrupts: close the text, give the calls 250 ms ...
Cleanup ==
    /\ stage = "cleanup"
    /\ stage' = "waiting"
    /\ CloseText
    /\ UNCHANGED <<attempt, summary, tool, heard, toolcalls, part,
                   error, needsCompaction, blocked, cutOff, dropped>>

\* Variant: the calls are given all the time they need.
MarkWhenSettled ==
    /\ stage = "waiting"
    /\ \A c \in CallIDs : toolcalls[c] = NoPart
    /\ stage' = "closed"
    /\ UNCHANGED <<attempt, summary, tool, heard, toolcalls, part, text, currentText,
                   error, needsCompaction, blocked, cutOff, dropped>>

\* ... then mark what is left as aborted, forget the calls, complete the message.
Mark ==
    /\ stage = "waiting"
    /\ stage' = "closed"
    /\ part' = [e \in Executions |->
                  IF \E c \in CallIDs : toolcalls[c] = e THEN "aborted" ELSE part[e]]
    /\ toolcalls' = [c \in CallIDs |-> NoPart]
    /\ UNCHANGED <<attempt, summary, tool, heard, text, currentText, error,
                   needsCompaction, blocked, cutOff, dropped>>

-----------------------------------------------------------------------------
HandleEvent ==
    \/ \E c \in CallIDs : InputStart(c)
    \/ InputStartInSummary
    \/ \E c \in CallIDs : ToolCall(c)
    \/ DoomLoopAllowed
    \/ \E c \in CallIDs : ToolResult(c)
    \/ \E c \in CallIDs : ToolError(c)
    \/ TextStart
    \/ TextEnd
    \/ \E overflow \in BOOLEAN : FinishStep(overflow)

Tools ==
    \/ \E c \in CallIDs : Execute(c)
    \/ \E e \in Executions, how \in {"done", "failed", "rejected"} : ToolEnds(e, how)
    \/ \E e \in Executions : Metadata(e)

ProcessorNext ==
    \/ HandleEvent
    \/ Tools
    \/ FailRetryable
    \/ FailFatal
    \/ FailOverflow
    \/ Retry
    \/ Interrupt
    \/ Cleanup
    \/ Mark

ProcessorSpec == ProcessorInit /\ [][ProcessorNext]_processorVars

\* Only the fiber's own cleanup runs to its end by itself: a tool need not end,
\* a model need not answer and a user need not decide.
ProcessorFairSpec ==
    ProcessorSpec /\ WF_processorVars(Cleanup) /\ WF_processorVars(Mark)

\* What process returns when the message is closed.
Result ==
    CASE needsCompaction -> "compact"
      [] ~needsCompaction /\ (blocked \/ error # "none") -> "stop"
      [] OTHER -> "continue"

-----------------------------------------------------------------------------
\* A closed message has no tool part left pending or running, although tools
\* may still run and retries used call ids again: cleanup reaches every open
\* part through ctx.toolcalls.
ClosedIsSettled ==
    stage = "closed" => \A e \in Executions : part[e] \notin Open

\* A part that has ended keeps how it ended: a late tool, a late event or the
\* cleanup does not reopen or overwrite it.
EndIsFinal ==
    [][\A e \in Executions :
         part[e] \in Statuses \ ({"none"} \cup Open) => part'[e] = part[e]]_processorVars

\* The provider used the call id of e in another attempt as well.
Reused(e) == \E a \in Attempts \ {e[1]} : heard[<<a, e[2]>>] # "none"

\* What a tool has done is in the log: a tool that succeeded before the message
\* was closed has a completed part, also when the stream broke while it ran.
\* Lost are results that were in the stream when it was dropped, parts whose
\* tool-call event was (they never ran for the log), and ids used twice.
FinishedIsRecorded ==
    \A e \in Executions :
        /\ stage # "closed"
        /\ tool[e] = "succeeded"
        /\ heard[e] = "call"
        /\ ~Reused(e)
        => part[e] = "completed"

\* A text part of a closed message is closed, unless the attempt it belongs to
\* failed and was retried: then nobody ever stores its end (nor its text).
TextIsClosed ==
    stage = "closed" => \A a \in Attempts : text[a] = "open" => a < attempt

\* A turn that was interrupted says so, unless that happened between two
\* attempts: then the message is completed without any error.
AbortIsRecorded ==
    cutOff \notin {"no", "backoff"} => error # "none"

\* A user who rejected a call is not followed by another turn of the model.  It
\* may be if a late tool of an earlier attempt had settled the call of that id.
RejectionStops ==
    stage = "closed" /\ (\E e \in Executions : tool[e] = "refused" /\ ~Reused(e))
    => Result # "continue"

\* An interrupted message is closed, however long its tools go on.
InterruptCloses == cutOff # "no" ~> stage = "closed"

\* A message that process() returned is complete, however the stream, the tools, the
\* retries and an interruption met: no call is open, no text but that of a dropped
\* attempt, and an interruption is on record.
ClosedIsComplete == ClosedIsSettled /\ TextIsClosed /\ AbortIsRecorded
=============================================================================
