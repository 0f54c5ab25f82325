------------------------------ MODULE PromptLoop ------------------------------
(***************************************************************************)
(* packages/ravens/src/session/prompt.ts: requests store messages in a     *)
(* session and wait for the run of the session, which reads the log turn   *)
(* after turn and asks the model, runs a subtask or compacts.              *)
(*                                                                         *)
(* Requests and the run interleave at every await; what the runner makes   *)
(* of joins and cancels is the module Runner, here a request joins the run *)
(* that is there or starts one.  A compaction request is the summarize     *)
(* route.  The model's window is fixed: a reply that filled it (`full')    *)
(* always counts as overflow, and plugins change nothing.                  *)
(***************************************************************************)
EXTENDS MessageLog, FiniteSets

CONSTANTS
    Requests,   \* prompts and summarize requests, each made once
    Kind,       \* of a request: the part it stores
    ClientIds,  \* prompts whose message id the client drew
    TailTurns,  \* config.compaction.tail_turns
    Replies,    \* how a model call may end
    MaxId,      \* bound: ids drawn
    MaxStops    \* bound: cancels and restarts

ReplyKinds == {"stop", "stop with tools", "tool-calls", "full", "too long", "error"}

ASSUME PromptLoopAssumption ==
    /\ Kind \in [Requests -> UserKinds]
    /\ ClientIds \subseteq {q \in Requests : Kind[q] # "compaction"}
    /\ Replies \subseteq ReplyKinds
    /\ TailTurns \in Nat /\ MaxId \in Nat /\ MaxStops \in Nat

VARIABLES
    log,    \* the stored messages
    now,    \* the last id (and time) drawn
    pc,     \* of a request
    mid,    \* of a request: id and creation time of its message
    result, \* of a request: how the run it waited for ended
    loop,   \* where the run is
    view,   \* the messages its last scan found
    doing,  \* the message it is writing
    stops,  \* cancels and restarts so far
    heard,  \* requests whose text some model call was given
    late,   \* requests some turn did not see, or that joined when the last scan was over
    retained, \* requests a summary left in its tail, and no turn was to follow
    folded, \* messages some completed summary was made from
    skipped, \* what followed a replayed message: in no summary
    ran     \* messages whose subtask was executed

reqVars  == <<pc, mid, result>>
loopVars == <<loop, view, doing>>
ghosts   == <<heard, late, retained, folded, skipped, ran>>
vars     == <<log, now, reqVars, loopVars, stops, ghosts>>

Ids     == 0 .. MaxId
Ends    == {"exit", "break", "fail"} \* by the exit condition, by "stop", by an error
Loops   == {"off", "scan", "ready", "asking", "create", "subtask", "summarizing", "parts"} \cup Ends
Results == {"none", "cancelled", "lost"} \cup Ends
Busy    == loop # "off"

Init ==
    /\ log = <<>>
    /\ now = 0
    /\ pc = [q \in Requests |-> "new"]
    /\ mid = [q \in Requests |-> [id |-> 0, time |-> 0]]
    /\ result = [q \in Requests |-> "none"]
    /\ loop = "off"
    /\ view = <<>>
    /\ doing = 0
    /\ stops = 0
    /\ heard = {}
    /\ late = {}
    /\ retained = {}
    /\ folded = {}
    /\ skipped = {}
    /\ ran = {}

-----------------------------------------------------------------------------
(* Requests *)

Tick == now < MaxId /\ now' = now + 1

Goto(q, l) == pc' = [pc EXCEPT ![q] = l]

\* A client that names the message draws the id before the request arrives.
ClientDraws(q) ==
    /\ q \in ClientIds
    /\ pc[q] = "new" /\ mid[q].id = 0
    /\ Tick
    /\ mid' = [mid EXCEPT ![q].id = now']
    /\ UNCHANGED <<log, pc, result, loopVars, stops, ghosts>>

\* createUserMessage draws id and time first; resolving the parts takes long.
Draw(q) ==
    /\ Kind[q] # "compaction"
    /\ pc[q] = "new"
    /\ q \in ClientIds => mid[q].id # 0
    /\ Tick
    /\ mid' = [mid EXCEPT ![q] = [id |-> IF q \in ClientIds THEN @.id ELSE now', time |-> now']]
    /\ Goto(q, "drawn")
    /\ UNCHANGED <<log, result, loopVars, stops, ghosts>>

Save(q) ==
    /\ pc[q] = "drawn"
    /\ log' = Insert(log, [Blank EXCEPT !.id = mid[q].id, !.time = mid[q].time, !.kind = Kind[q], !.text = {q}])
    /\ Goto(q, "saved")
    /\ UNCHANGED <<now, mid, result, loopVars, stops, ghosts>>

\* compaction.create, for the summarize route: drawn and stored at once.
CreateManual(q) ==
    /\ Kind[q] = "compaction"
    /\ pc[q] = "new"
    /\ log # <<>>
    /\ Tick
    /\ mid' = [mid EXCEPT ![q] = [id |-> now', time |-> now']]
    /\ log' = Insert(log, [Blank EXCEPT !.id = now', !.time = now', !.kind = "compaction"])
    /\ Goto(q, "saved")
    /\ UNCHANGED <<result, loopVars, stops, ghosts>>

SaveParts(q) ==
    /\ pc[q] = "saved"
    /\ log' = Update(log, mid[q].id, [log[IndexOf(log, mid[q].id)] EXCEPT !.ready = TRUE])
    /\ Goto(q, "stored")
    /\ UNCHANGED <<now, mid, result, loopVars, stops, ghosts>>

\* loop(): ensureRunning starts a run or joins the one that is there.
Enter(q) ==
    /\ pc[q] = "stored"
    /\ Goto(q, "waiting")
    /\ loop' = IF Busy THEN loop ELSE "scan"
    /\ late' = IF loop \in Ends THEN late \cup {q} ELSE late
    /\ UNCHANGED <<log, now, mid, result, view, doing, stops, heard, retained, folded, skipped, ran>>

-----------------------------------------------------------------------------
(* The run *)

\* One scan: leave the loop, or go on with the view; getModel awaits next.
Scan ==
    /\ loop = "scan"
    /\ LET v == FilterCompacted(log)
       IN  IF LastUser(v) = 0 THEN loop' = "fail" /\ UNCHANGED view
           ELSE IF Exits(v) THEN loop' = "exit" /\ UNCHANGED view
           ELSE loop' = "ready" /\ view' = v
    /\ UNCHANGED <<log, now, reqVars, doing, stops, ghosts>>

User == view[LastUser(view)]

\* The run draws an id and stores a new message with it.
Write(m) ==
    /\ Tick
    /\ log' = Insert(log, [m EXCEPT !.id = now', !.time = now'])
    /\ doing' = now'

\* No turn was begun since a compaction was asked for; a prompt was given to no model.
Unseen(q) ==
    IF Kind[q] = "compaction" THEN \A i \in DOMAIN log : IsUser(log[i]) \/ log[i].id < mid[q].id
    ELSE q \notin heard

\* Requests that drew an id, which is below that of the message the run writes
\* next, but were not stored whole when the run first read the log after that.
Missed ==
    {q \in Requests :
        /\ mid[q].id # 0 /\ Unseen(q)
        /\ \A i \in DOMAIN view : ~(view[i].id = mid[q].id /\ view[i].ready)}

TaskKind == IF Task(view) = 0 THEN "none" ELSE view[Task(view)].kind

\* The model or the agent of the message is not there.
Fails ==
    /\ loop = "ready"
    /\ loop' = "fail"
    /\ view' = <<>>
    /\ UNCHANGED <<log, now, reqVars, doing, stops, ghosts>>

StartSubtask ==
    /\ loop = "ready" /\ TaskKind = "subtask"
    /\ Write([Blank EXCEPT !.kind = "task", !.parent = User.id, !.ready = TRUE, !.tools = TRUE])
    /\ loop' = "subtask"
    /\ late' = late \cup Missed
    /\ UNCHANGED <<reqVars, view, stops, heard, retained, folded, skipped, ran>>

\* The agent is missing, or the tool ran (and failed or not); a command's
\* subtask is followed by a synthetic prompt.
EndSubtask ==
    /\ loop = "subtask"
    /\ LET done == [log EXCEPT ![IndexOf(log, doing)].finish = "tool-calls"]
       IN  \/ loop' = "fail" /\ UNCHANGED <<log, now, doing, ran>>
           \/ /\ ran' = ran \cup {view[Task(view)].id}
              /\ \/ loop' = "scan" /\ log' = done /\ doing' = 0 /\ UNCHANGED now
                 \/ /\ Tick
                    /\ log' = Insert(done, [Blank EXCEPT !.id = now', !.time = now'])
                    /\ doing' = now'
                    /\ loop' = "parts"
    /\ view' = <<>>
    /\ UNCHANGED <<reqVars, stops, heard, late, retained, folded, skipped>>

\* compaction.process: the summary answers the last user message.
StartSummary ==
    /\ loop = "ready" /\ TaskKind = "compaction"
    /\ Write([Blank EXCEPT !.kind = "summary", !.parent = User.id, !.ready = TRUE])
    /\ loop' = "summarizing"
    /\ late' = late \cup Missed
    /\ UNCHANGED <<reqVars, view, stops, heard, retained, folded, skipped, ran>>

History == Summarised(view, User.id, view[Task(view)].overflow)

\* A replayed message has the parts of the original, a subtask among them.
Copy(r) ==
    IF r = 0 THEN Blank
    ELSE IF view[r].ready THEN [Blank EXCEPT !.of = view[r].id, !.kind = view[r].kind, !.text = view[r].text]
    ELSE [Blank EXCEPT !.of = view[r].id]

\* The tail is recorded in the compaction part of the message the summary
\* answers, if it has one, unless the summary did not fit.  On a replay the
\* summary is made from what was before the replayed message, which is stored
\* again; the replies after it are not.
EndSummary ==
    /\ loop = "summarizing"
    /\ \E tail \in TailStarts(History, TailTurns), r \in {"stop", "too long", "error"} :
         LET u == IndexOf(log, User.id)
             task == view[Task(view)]
             replay == task.overflow /\ ReplayAt(view, User.id) # 0
             summary == [log[IndexOf(log, doing)] EXCEPT
                            !.finish = CASE r = "stop" -> "stop" [] r = "too long" -> "error" [] OTHER -> "none",
                            !.error = r # "stop"]
             tailed == IF HasPart(User, "compaction") /\ tail # 0 /\ r # "too long"
                         THEN [log EXCEPT ![u].tail = tail] ELSE log
             next == Update(tailed, doing, summary)
             used == Collapsed(History, tail)
         IN  /\ r \in Replies
             /\ late' = IF r = "too long" THEN late \cup {q \in Requests : mid[q].id # 0} ELSE late
             /\ IF r # "stop"
                  THEN loop' = "break" /\ log' = next /\ doing' = 0 /\ UNCHANGED <<now, folded, skipped, heard, retained>>
                  ELSE /\ folded' = folded \cup {History[i].id : i \in used} \cup {Anchor(History)}
                       /\ skipped' = skipped \cup
                            {view[i].id : i \in {j \in DOMAIN view :
                                replay /\ j > ReplayAt(view, User.id) /\ ~IsUser(view[j])}}
                       /\ heard' = heard \cup Texts(History, used)
                       /\ retained' = IF task.auto THEN retained
                                      ELSE retained \cup Texts(History, DOMAIN History \ used)
                       /\ IF ~task.auto
                            THEN loop' = "scan" /\ log' = next /\ doing' = 0 /\ UNCHANGED now
                            ELSE /\ Tick
                                 /\ log' = Insert(next, [Copy(IF replay THEN ReplayAt(view, User.id) ELSE 0)
                                                           EXCEPT !.id = now', !.time = now'])
                                 /\ doing' = now'
                                 /\ loop' = "parts"
    /\ view' = <<>>
    /\ UNCHANGED <<reqVars, stops, ran>>

\* The last finished reply filled the window: compact before asking again.
CompactFirst ==
    /\ loop = "ready" /\ TaskKind = "none"
    /\ LastFinished(view) # 0
    /\ view[LastFinished(view)].kind # "summary"
    /\ view[LastFinished(view)].full
    /\ Write([Blank EXCEPT !.kind = "compaction", !.auto = TRUE])
    /\ loop' = "parts"
    /\ view' = <<>>
    /\ UNCHANGED <<reqVars, stops, ghosts>>

Ask ==
    /\ loop = "ready" /\ TaskKind = "none"
    /\ LastFinished(view) # 0 => ~(view[LastFinished(view)].kind # "summary" /\ view[LastFinished(view)].full)
    /\ Write([Blank EXCEPT !.kind = "reply", !.parent = User.id, !.ready = TRUE])
    /\ loop' = "asking"
    /\ heard' = heard \cup Texts(view, DOMAIN view)
    /\ late' = late \cup Missed
    /\ UNCHANGED <<reqVars, view, stops, retained, folded, skipped, ran>>

\* processor.process: `full' is noticed in finish-step, `too long' is the
\* provider's refusal, and both ask for a compaction.
Reply ==
    /\ loop = "asking"
    /\ \E r \in Replies :
         /\ log' = Update(log, doing, [log[IndexOf(log, doing)] EXCEPT
                !.finish = CASE r \in {"stop", "stop with tools", "full"} -> "stop"
                             [] r = "tool-calls" -> "tool-calls"
                             [] OTHER -> "none",
                !.tools = r \in {"stop with tools", "tool-calls"},
                !.full = r = "full",
                !.error = r = "error"])
         /\ loop' = CASE r \in {"full", "too long"} -> "create" [] r = "error" -> "break" [] OTHER -> "scan"
    /\ view' = <<>>
    /\ doing' = IF loop' = "create" THEN doing ELSE 0
    /\ UNCHANGED <<now, reqVars, stops, ghosts>>

\* compaction.create after a reply; overflow when the reply never finished.
CreateAuto ==
    /\ loop = "create"
    /\ Write([Blank EXCEPT !.kind = "compaction", !.auto = TRUE,
                           !.overflow = log[IndexOf(log, doing)].finish = "none"])
    /\ loop' = "parts"
    /\ UNCHANGED <<reqVars, view, stops, ghosts>>

\* The parts of a message the run wrote for itself.
WriteParts ==
    /\ loop = "parts"
    /\ log' = [log EXCEPT ![IndexOf(log, doing)].ready = TRUE]
    /\ doing' = 0
    /\ loop' = "scan"
    /\ UNCHANGED <<now, reqVars, view, stops, ghosts>>

Settle(r) ==
    /\ pc' = [q \in Requests |-> IF pc[q] = "waiting" THEN "answered" ELSE pc[q]]
    /\ result' = [q \in Requests |-> IF pc[q] = "waiting" THEN r ELSE result[q]]
    /\ loop' = "off"
    /\ view' = <<>>
    /\ doing' = 0

\* The loop is left; whoever joined until here gets this run's outcome.
End ==
    /\ loop \in Ends
    /\ Settle(loop)
    /\ UNCHANGED <<log, now, mid, stops, ghosts>>

\* The message that is being written is closed as aborted.
Cancel ==
    /\ Busy /\ stops < MaxStops
    /\ stops' = stops + 1
    /\ log' = CASE loop \in {"asking", "summarizing"} -> [log EXCEPT ![IndexOf(log, doing)].error = TRUE]
                [] loop = "subtask" -> [log EXCEPT ![IndexOf(log, doing)].finish = "tool-calls"]
                [] OTHER -> log
    /\ Settle("cancelled")
    /\ UNCHANGED <<now, mid, ghosts>>

\* The process dies and is started again: only the log survives.
Restart ==
    /\ log # <<>> /\ stops < MaxStops
    /\ stops' = stops + 1
    /\ pc' = [q \in Requests |-> IF mid[q].id # 0 THEN "answered" ELSE pc[q]]
    /\ result' = [q \in Requests |-> IF mid[q].id # 0 /\ pc[q] # "answered" THEN "lost" ELSE result[q]]
    /\ loop' = "off" /\ view' = <<>> /\ doing' = 0
    /\ UNCHANGED <<log, now, mid, ghosts>>

Next ==
    \/ \E q \in Requests :
           ClientDraws(q) \/ Draw(q) \/ Save(q) \/ CreateManual(q) \/ SaveParts(q) \/ Enter(q)
    \/ Scan \/ Fails
    \/ StartSubtask \/ EndSubtask \/ StartSummary \/ EndSummary
    \/ CompactFirst \/ Ask \/ Reply \/ CreateAuto \/ WriteParts
    \/ End \/ Cancel \/ Restart

Spec == Init /\ [][Next]_vars

-----------------------------------------------------------------------------
(* Properties *)

LoopTypeOK ==
    /\ now \in Ids
    /\ \A i \in DOMAIN log : log[i].id \in 1 .. now /\ log[i].time \in 1 .. now
    /\ \A i, j \in DOMAIN log : i < j => log[i].time < log[j].time /\ log[i].id # log[j].id
    /\ pc \in [Requests -> {"new", "drawn", "saved", "stored", "waiting", "answered"}]
    /\ mid \in [Requests -> [id : Ids, time : Ids]]
    /\ result \in [Requests -> Results]
    /\ loop \in Loops
    /\ doing # 0 => IndexOf(log, doing) # 0
    /\ heard \cup late \subseteq Requests
    /\ retained \subseteq Requests
    /\ folded \cup skipped \cup ran \subseteq Ids

\* prompt.ts: "No user message found in stream. This should never happen."
\* However compactions cut and reorder the log, a scan finds a user message.
ScanFindsUser ==
    log # <<>> => LastUser(FilterCompacted(log)) # 0

\* The log keeps its types and stays in the order of time, whatever order ids were
\* drawn in; the loop always finds what it needs in it.
LoopContract == LoopTypeOK /\ ScanFindsUser

\* A request whose run ended normally was read by a model - or a summary kept
\* it in its tail and no turn was to follow (retained), or a request raced a turn
\* and was stored no earlier than it: that one drew its id before the turn's
\* message and was stored after the turn's scan, it joined a run that had left
\* its loop, or it was there when a compaction failed for size (that summary
\* counts as finished). The racer has the older id, and the exit looks at ids.
OnlyRacersAreUnheard ==
    \A q \in Requests :
        result[q] = "exit" /\ Kind[q] # "compaction" =>
            q \in heard \cup retained \/ \E u \in late : mid[u].time >= mid[q].time

\* test/session/prompt.test.ts:1047: "prompt submitted during an active run is
\* included in the next LLM input", unless a racer was stored behind it.
PromptsAreRead ==
    \A q \in Requests :
        result[q] = "exit" /\ Kind[q] = "text" =>
            q \in heard \/ \E u \in late : mid[u].time >= mid[q].time

\* A tail that a compaction recorded although its summary failed.
BrokenTail ==
    \E i, j \in DOMAIN log :
        /\ log[i].kind = "compaction" /\ log[i].tail # 0
        /\ log[j].kind = "summary" /\ ~IsSummary(log[j]) /\ log[j].parent = log[i].id
        /\ log[j].id # doing

\* A tail begins with what was stored while an earlier compaction was summarised: the
\* view has that before the older tail which the earlier compaction retained.
TailInFront ==
    \E c, s, t, d \in DOMAIN log :
        /\ log[c].kind = "compaction"
        /\ log[s].kind = "summary" /\ log[s].parent = log[c].id
        /\ c < t /\ t < s
        /\ log[d].tail = log[t].id

\* A replayed message that was left without its parts.
Partless == \E i \in DOMAIN log : log[i].of # 0 /\ ~log[i].ready /\ log[i].id # doing

\* What excuses a gap in the context: one of these, or a compaction that raced a turn.
Disturbed == BrokenTail \/ TailInFront \/ Partless \/ \E q \in late : Kind[q] = "compaction"

\* Nothing that was said leaves the context before a completed summary was made
\* from it, or it was stored again, unless its request raced a turn - but the
\* replies of a turn that was replayed after an overflow, which no summary has.
ContextIsFolded ==
    \/ \A i \in DOMAIN log :
          \/ log[i].kind \in {"compaction", "summary"}
          \/ log[i].id \in folded \cup skipped
          \/ \E j \in DOMAIN log : log[j].of = log[i].id /\ (log[j].ready \/ log[j].id = doing)
          \/ log[i].text # {} /\ log[i].text \subseteq late
          \/ IndexOf(FilterCompacted(log), log[i].id) # 0
    \/ Disturbed

\* test/session/compaction.test.ts:1457: "anchors repeated compactions with the
\* previous summary": no summary leaves the context before it was updated.
SummaryIsCarried ==
    \/ \A i \in DOMAIN log :
          \/ ~IsSummary(log[i])
          \/ log[i].id \in folded
          \/ IndexOf(FilterCompacted(log), log[i].id) # 0
    \/ Disturbed

\* However often the log is scanned again - after a cancel, a restart or a
\* compaction that put the subtask back in the view - the subtask of a message
\* is not executed again. (An overflow replays it in a message of its own;
\* one that a restart cut short has not ended, and is executed again.)
SubtaskRunsOnce ==
    loop = "subtask" => view[Task(view)].id \notin ran
=============================================================================
