# A specification of the core of ravens

This directory holds TLA+ modules of the parts of `packages/ravens` (and of the
file locks of `packages/core`) whose correctness depends on the order of things:
who runs a session's turn, what the turn reads, writes and leaves behind, how a
session's log of events is copied and moved between machines, and how the
services around it share instances, servers, locks, jobs and the user's answers.
TLC checks every module on small instances; TLAPS proves the safety properties of
all of them for instances of any size. `PROJECT.json` lists components, runs,
findings, hazards and theorems in a form for tools. Paths below are relative to
`packages/ravens/src` unless they start with `packages/`.

## 1. The system

ravens is an agent server: clients (CLI, TUI, desktop board, editors) send
prompts to sessions, and a session's run asks a model, executes the tools it
calls and stores every message. The parts with logic of their own:

| component | state | operations | who it talks to | what is hard | what makes it correct |
|---|---|---|---|---|---|
| turn runner `effect/runner.ts` | one ref: Idle, Running, Shell, ShellThenRun | ensureRunning, startShell, cancel, the finish hooks of its fibers | called by run state; forks fibers | cancel, finish and start interleave; a queued run is handed over by a shell that ends | one fiber at a time is left alone; every waiter is answered, with what happened; cancel returns and is final |
| session run state `session/run-state.ts`, `session/status.ts` | map session to runner, map session to status | lookup, assertNotBusy, cancel, onIdle, onBusy, status set | prompt, revert, server | callbacks run after the lock was released, status is published before it is stored | idle for everybody when nothing runs |
| message log `session/message-v2.ts` | rows of messages and parts | page, stream, filterCompacted | read by loop and compaction | order of ids against order of storing; cutting and reordering around compactions | no message is lost unsummarised, the scan finds a user message |
| prompt loop `session/prompt.ts` | the log, the run | prompt, createUserMessage, runLoop, handleSubtask | runner, processor, compaction | requests race turns; a turn works on a scan that gets stale | every request is read by a model, every subtask is executed once |
| compaction `session/compaction.ts` | parts `compaction`, summaries | create, process, select | loop, processor | failure between its writes; several in a row | only a completed summary hides messages |
| stream processor `session/processor.ts` | the message being written, `ctx.toolcalls` | process, handleEvent, retry, cleanup | the model's stream, tools that run beside it | late tools, retries that use call ids again, interruption at any await | what is closed is complete and final; what a tool did is in the log |
| session revert `session/revert.ts` | `session.revert`, files, snapshots | revert, unrevert, cleanup | run state, git | one look at the runner, then many awaits | files are what the visible messages made of them |
| sync events `sync/index.ts` | per session: rows of events, seq, owner | run, replay, replayAll, claim, remove | projectors, bus | repeated, late, missing events | one total order; a replica is a prefix |
| workspace control plane `control-plane/workspace.ts` | one sync fiber and a status per workspace | syncWorkspaceLoop, syncHistory, startSync, sessionWarp, waitForSync | remote servers, sync events | connection losses; a warp of many requests that may stop anywhere | one writer; the control plane follows it |
| instance store `project/instance-store.ts` | map directory to entry, state of services | load, reload, dispose, disposeAll | every service with per-instance state | disposers run while the entry is visible | boots follow each other; the state of services has an owner |
| permission, question `permission/`, `question/` | pending requests with a Deferred, approved rules | ask, reply, reject, finalizer | tools wait, clients answer | cascaded replies across effects, callers that go away | every waiting caller can be answered, once, by somebody entitled to |
| background job `background/job.ts` | map id to job | start, wait, cancel | tools | everything finds the job by an id that is used again | the record of a job says what its fiber does |
| file locks `packages/core/src/util/flock.ts`, `effect-flock.ts` | lock directory, heartbeat, meta.json, breaker | acquire, beat, break, release | several processes | breaking stale locks, crashes in the middle | one holder, undisturbed until breakers or releases are overtaken; what is left behind is replaced |
| share `share/share-next.ts`, `share/session.ts` | cached share, queue of changes, table | share, unshare, sync, flush, full sync, remove | an external service | delayed flush, requests that fail or overtake each other | the server has what the session has, and what is public is known |
| identifiers `id/id.ts`, `tool/truncate.ts` | last timestamp, counter | ascending, descending, timestamp, cleanup | everything that orders by id | a clock that steps back, 48 bits, a counter of 12 bits | ids follow time; only old files go |
| CLI prompt queue `cli/cmd/run/runtime.queue.ts` | queue, drainer, footer | submit, drain, close | footer, session | the footer closes at any await | prompts in order, none twice, none after the end |
| MCP authorization `mcp/index.ts`, `mcp/auth.ts`, `mcp/oauth-provider.ts`, `mcp/oauth-callback.ts` | file, transports, callbacks, index | startAuth, authenticate, finishAuth, removeAuth, timeout, connect | browser, servers | keys by name and keys by state get mixed; a file is read and written back without a lock | a waiting flow is answered and redeems its own code |
| LSP clients `lsp/lsp.ts` | clients, spawning, broken | getClients, shutdown | language servers | concurrent first uses, disposal during a spawn | one server of a root, and somebody who stops it |

Also there, without a protocol of their own: sessions (rows), tools, PTYs,
snapshots and worktrees (git), storage (SQLite), providers, configuration,
plugins, the HTTP server, and the front ends in `board/`, `packages/ui`,
`packages/sdk`. `PROJECT.json` names each with the reason it is not modelled;
section 6 sums them up.

How they interact: a client's prompt enters `session/prompt.ts`, which stores it
and asks the run state for the session's runner; the runner forks the loop; the
loop scans the log, calls the processor for each turn, and a compaction when the
window is full. Tools of the processor ask for permissions and wait. Everything
that is written is a sync event, which other machines replay. All services keep
their state per instance and lose it when the instance store disposes it.

## 2. The modules

    SharedRun        abstract: calls share runs
       ^ refines
    Runner           effect/runner.ts                           RunnerProofs
       ^ extends, every step is a step of Runner
    SessionRunState  session/run-state.ts, session/status.ts    RunnerProofs

    MessageLog       session/message-v2.ts and the pure parts
       ^ extends     of compaction.ts
    PromptLoop       session/prompt.ts, session/compaction.ts   LoopProofs

    Processor        session/processor.ts, llm.ts, retry.ts     ProcessorProofs
    Sync             sync/index.ts, control-plane/workspace.ts  SyncProofs
    FileLock         packages/core/src/util/flock.ts,
                     effect-flock.ts                            FileLockProofs

    MCServices  = InstanceStore | Requests                      InstanceProofs
                | BackgroundJob | PromptQueue
                | LspClients | McpAuth                          ServicesProofs
    MCStorage   = Sync
                | Share | Revert | Identifier                   StorageProofs

The `MC...` modules give instances and symmetry sets for TLC. `MCServices` and
`MCStorage` put components that have no state in common into one run: a variable
that never changes says which of them moves, and the others stay in their initial
state, so the states of the run are the union of those of the components and not
their product. `MCPromptLoop` does the same with three conversations. What `Runner`
promises is checked of the runners of a session (`session_runs`). Definitions
commented "Variant:" are used by nothing in the specifications: each is a changed
form of the definition after it, with a mistake one could make in the code, and
is there to see that a property notices. A property called `...Contract` is the
conjunction of a module's type invariant and its named safety invariants, each
stated and commented on its own.

### Runner

A *call* is one invocation of `ensureRunning` (`op = "ensure"`), `startShell` or
`cancel` on a runner. A call forks at most one fiber and makes at most one
Deferred, so fiber, Deferred and the code's `id` from `next()` are all named by
the call; `tag`, `cur`, `pend` are the `SynchronizedRef`, `phase`, `exit`,
`intr` the fibers, `done` the Deferreds. Each `SynchronizedRef.modify` is one
action; `startShell` runs `onBusy` inside it, so the semaphore is the variable
`lock` and other calls that need the ref wait for it. What the code runs after
the semaphore is released (the effect `flatten` runs: interrupting a fiber,
awaiting a latch, `onIdle`, settling) are actions of their own, because the
runtime may switch fibers between them. `AbortCall` is a client that goes away:
a fiber forked with `forkChild` (the shell) is interrupted with its parent, one
forked with `forkIn(scope)` (a run) is not.

`SharedRun` is what callers of `ensureRunning` are promised: a call opens a run
or joins an open one, a run is settled once, all who joined are told the same.

### SessionRunState

One session: `entry` is `runners.get(sessionID)`, `made` the runner objects that
were made for it. `onIdle` deletes the entry, whatever it holds, and sets the
status idle; `status.set` publishes, then stores, so both halves are steps.
`EXTENDS Runner` reuses its actions with the session's bookkeeping conjoined.
`BusyIsSeen` relates the two: a busy runner is the one that `entry` names.
Sessions share no state, so one is modelled.

### MessageLog and PromptLoop

A message is a record of what decides the control flow: id, creation time, kind
(a user message with text, a subtask or a compaction part; an assistant reply,
task or summary), whether its parts are stored (`ready`), finish, error, whether
it filled the window. Texts are sets of the requests they came from. The log is
in the order of the database. `FilterCompacted` (`Oldest`, `Reorder`) is
`filterCompacted`, `Task`, `Exits` and the `Last...` operators are the scan at
the top of `runLoop`; `Summarised`, `Priors`, `Anchor` and, as sets of places of
what is summarised, `Visible`, `TailStarts` and `Collapsed` are the pure parts of
`SessionCompaction.process`. `Texts` is what a model reads at places of a view.

Requests draw an id (`Draw`, or the client does: `ClientDraws`), store the
message (`Save`), then its parts (`SaveParts`), then enter the loop (`Enter`):
these are separate awaits in `createUserMessage` and `loop`. A turn is a scan,
then one of: a subtask, a compaction, a compaction first because the last reply
filled the window, or a model call; its message is written, and later finished.
`Cancel` closes the message being written as aborted; `Restart` is the death of
the process, which leaves only the log. `heard`, `late`, `retained` (requests that
a summary left in its tail, when no turn was to follow), `folded`, `skipped` (what
followed a message that was replayed) and `ran` (ids of messages) are history
variables for the properties.

### Sync

One session on several machines. `log[m]` are the rows of `EventTable` at machine
m; the place of an event is its `seq`, an event is who ran it and whether it
moves the session to another workspace (`Session.Event.Updated` with a
`workspaceID`); `Place(log)` is the `workspace_id` the projectors leave in the
session's row. `owner` is `owner_id`, only ever set at the control plane, since
only `sessionWarp` claims. `Replayed` is `replay`: known sequence numbers are
ignored, an owned log ignores everything because no caller of `replay` names an
owner, a gap throws. `link[r]` is the fiber of `syncWorkspaceLoop` for r:
connecting, stream open (`pos`: from where it carries events), history asked
(`known`), answered (`until`), live; `failed` and `ended` are its two ways of
not running, `LoseLink` the three ways of losing a connection. The actions
`StartWarp` ... `WarpFails` are the requests of `sessionWarp` in order. A turn
writes events where the control plane sent the prompt (`StartTurn`, `Write`).
`holder`, `strayed` and `claimed` are history variables for the properties.

### Processor

One assistant message. An *execution* is one run of a tool call id in one
attempt, and names its part; `toolcalls` is `ctx.toolcalls`, keyed by call id as
in the code, so a second attempt finds the entries of the first. The fiber that
handles events (`InputStart`, `CallTool`, `ToolEnds` and so on, the cases of
`handleEvent`), the tools, and the caller who interrupts move on their own. A
stream that fails is dropped (results that were in it are `dropped`), is tried
again after a backoff, or ends the message. `Cleanup` and `Mark` are the two
halves of `cleanup`, with the 250 ms between them in which tools may still end.
`part` is what the log has; `Result` is what `process` returns to the loop.

### FileLock

Each file system call is a step: mkdir of the lock, writes of heartbeat and
meta.json, the stats that find a lock stale, the breaker, the second look, the
replacement, the release with its token. A recursive `rm` unlinks the files one by
one, in any order, and then the directory, whoever made them (`Unlink`, `Rmdir`). `age` is a file's mtime in ticks; a
process that looked at the clock acts on what it read (`clock`). `Beat` is the one
difference between the two implementations: flock.ts writes the current time,
effect-flock.ts the time of acquisition. Processes crash in any step.

### InstanceStore

One directory. A call (load, reload, dispose, disposeAll) names the entry, the
background loader and the instance it makes. `svc` is the instance under which
the state of the services was made: `InstanceState` keys it by directory, so the
disposers drop whatever is there; `awaits` are the finalizers of it that a
disposer waits for. `born` numbers entries as they were made.

### Requests

Permissions and questions: both keep a map of pending requests, in the order of
insertion. A step is what happens between two effects of a fiber; a fiber whose
client went away (`Mortal`) may be interrupted at any of them. A reply takes its
request out of the map, publishes, settles it, then walks the live map: `reject`
takes the other requests of the session along, `always` those that the grown
rules now allow. `CloseRejects` is the finalizer of a disposed instance.

### BackgroundJob

One id; a job is named by the start that made it. `start` holds the lock of the
`SynchronizedRef` while it forks (`StartForks`, `StartStores`), `Finish` is the
modification by id that ends fibers and cancels: it marks whatever record the id
has. `struck` are jobs that were marked by the finish of another.

### PromptQueue

`runPromptQueue`: `drainer` is the one asynchronous function and where it waits
(footer at rest, a new session, the race of a turn against the close), `typed`,
`waiting`, `inHand`, `sent` are the prompts on their way, `turn` what became of each.
`offers` says whether `onNewSession` was given (runtime.ts:530 gives it if it has
`createSession`). Without it a /new is passed over without an await; a drainer that
ends so, inside the call that started it, has reset `draining` before that call
assigns it, and is `"spent"`: it counts as busy for ever. `SendCloses` is an `onSend`
that closes the footer.

### LspClients

`getClients` for one root: `spawning` is the promise other calls join, `late` what
was being started when the instance was disposed.

### McpAuth

A flow is one `authenticate` with its random state; a name stands for what is done to
its server beside flows: a connect, which has a verifier and a transport of its own,
tokens that are saved, and `removeAuth`. `file` is mcp-auth.json with the state and the
verifier of each name. Every change of it is three steps, without a lock:
`ReadEntry`, `ReadData` (for the other names), `WriteFile`; while a write is under way
a reader may find the file empty, which auth.ts takes for no entries (`Seen`).
`transports` are kept by name, too, `waiters` (callbacks) by state, and `index`
leads from names to states; the actions write them in the order of the code. A code,
a state, a verifier and a transport are called by the flow they were made for, so
mixing them is visible. `crossed` and `lost` say which flows and names were mixed up.

### Share, Revert, Identifier

`Share` is a session's data (keys with versions), the queue `unsent` with its
delayed flushes, requests on their way (`posts`, `fulls`), what the server has
(`content`, modelled from the requests), and the calls share, unshare and the
watcher of deletions. Keys in `removed` were taken away by a revert, which nobody
tells the server. `Redispose` may come at any time; an unshare that is under way goes
on in the state it began with (`stale`). `Revert` has messages that are numbered and change one file
thing each, the mark in the session's row with its snapshot, and prompts that
make the revert final. `Identifier` is the arithmetic of ids, cut to their width
(`Bits`), the counter, and the cleanup that reads a cutoff out of an id.

## 3. What is checked

| run | instance | shows |
|---|---|---|
| `runner_live` | 1 runner, 3 calls, one of which may be aborted if it is a prompt, fair | `CancelReturns`, even if work runs for ever; `EveryCallReturns` if work ends |
| `session_runs` | one session, 3 runner objects, 3 calls, one may be aborted | `TypeOK`, `CurrentIsAlive`, `StraysAreStopped`, `OpenHasSettler`, `SettledRunIsOver`, `CancelIsSynchronous`, `ImplementsSharedRun`; `SessionContract`, `BusyIsSeen` |
| `prompt_turns` | a prompt beside a subtask whose client draws the id (ids up to 8); a prompt beside a summarize request (ids up to 11); two prompts beside that request (ids up to 7); one cancel or restart | `LoopContract`, `OnlyRacersAreUnheard`, `ContextIsFolded`, `SubtaskRunsOnce` |
| `processor_closes` | 2 call ids in the first attempt, 1 of them again in the second; fair cleanup | `ClosedIsComplete`, `FinishedIsRecorded`, `RejectionStops`, `EndIsFinal`, `InterruptCloses` |
| `sync_live` | control plane and one remote and one local workspace, 2 warps, 2 faults, fair | `CatchesUp` |
| `lock_excludes` | 2 processes with up to 2 crashes of one, 3 with up to one, stale after 3 ticks, fair | `LockContract`, `AbandonedIsReplaced` |
| `services_answer` | 3 calls of the store; parties of 2 or 3 requests with 2 replies; 3 starts, 2 cancels, a wait; 4 prompts, one a /new; 3 lookups; flows of 2 names in parties of two (two flows of a name, a flow and what is done to its own or another server, two flows on different ports); fair | the six contracts, `OnlyDisposedLeave`, `SilentWhenClosed`, `ServicesAnswer` |
| `storage_agrees` | control plane, two remote workspaces and a local one, 3 events before warps, 2 warps, 1 fault; 2 keys with 2 versions, one of which may be removed, 2 failing requests or disposals, until calls overlap; 2 prompts, 2 reverts, an unrevert; 3 ids | `SyncContract`, `HolderHasAll`, `ShutOut`, `ShareContract`, `RevertContract`, `RemovedWasShown`, `IdContract`, `OnlyOldFilesGo` |
| `prompt_queued` | the same conversations, replies that stop, ids up to 8 | violated: `PromptsAreRead` |
| `summary_carried` | the two prompts and the request, one after the other, replies that fill the window, ids up to 11 | violated: `SummaryIsCarried` |
| `sync_claim` | the logs of `storage_agrees`, without faults | violated: `RoutesToHolder` |
| `lock_beat` | 2 processes, no crash, the heartbeat of effect-flock.ts | violated: `MutualExclusion` |

**Bounds.** Three calls are a cancel, the fiber it stops, and the run queued behind
that or a newcomer, which is what the steps of the runner relate; the theorems
cover all other numbers. Three runner objects are one more than a late `onIdle`
needs to delete a wrong entry. Ids up to 8 and 11 allow each request
its message and several turns after it, an automatic compaction with its replay
among them, respectively several compactions in a row, with a retained tail of
an earlier one; `TailTurns = 2` is the code's default. Two warps lead out of a
workspace and back or on; three events allow a log to be ahead, behind and
forked; a batch of two (ten in the code) makes a warp of three or more events
take two requests. Two attempts with a call id of the first in the second are
what it takes for a late tool to meet a new call; what is proved of `Processor`
holds for any number. Three processes are a holder, one that breaks its lock and
one that comes in between, two crashes the end of a holder and of the one that breaks
its lock; a stale time of three ticks with a lag of one keeps
"in time", "late" and "stale" apart. Three calls of the instance store let a
reload and a disposal meet a load. Parties of requests are a cascade over two
sessions, two of one session, a denied one, and questions; a fiber is
interrupted only in the smaller ones. Parties of flows let each pair of
actors that meet in the file, the transports or the port meet, but not three at once;
`FewFlows` in `MCServices` says what they leave out. Two failures of a share are a
request and a disposal, or two of either. Three starts under one id let a cancel hit
the next job but one. Ids have 3 per tick and 3 ticks for the code's 4096 and
2^36, so the counter overflows and the bits wrap within three draws and a clock
that goes to 4. `MaxId`, `MaxStops`, `MaxLog`, `MaxWarps`, `MaxFaults`,
`MaxFailures`, `MaxAttempts`, `Offered`, `MaxCrashes`, `MaxVersion`, `MaxClock`, `MaxDraws`,
`MaxRestarts` are the bounds of the guards; the calls of a module are made once
each; there are no other bounds. `CHECK_DEADLOCK FALSE` is set where the instance
ends for this reason.

**Fairness.** The Effect runtime runs every runnable fiber, so each call and
fiber of `Runner`, each sync loop of `Sync`, and each fiber of `Requests`,
`InstanceStore` and `BackgroundJob` is weakly fair, as one action: alternatives
within a fiber are not separately fair. Promises that are settled resume who
awaits them (`PromptQueue`, `LspClients`), timers fire (`Cleanup` and `Mark` of
`Processor`, the timeout of `McpAuth`). Finalizers, boots, spawns and interrupted
work are assumed to end. In `FileLock` a process that tries goes on trying, and
time passes (strongly fair, because a tick waits for prompt processes). Calls,
ends of work that was not interrupted, ends of tools and streams, answers of
users and browsers, faults, warps and starts of a sync loop are not assumed to
happen: `EveryCallReturns` and `CatchesUp` name what they need of these as a
hypothesis, and an `[]<>` of the other properties says what is answered without.

**What the properties leave out, and why.** Some invariants would be plainly
false of the code; the exception they make is the exact extent of it.

- `CurrentIsAlive`: a shell whose client goes away before the shell's fiber made
  its first step (`Dropped`), no other. The fiber is a child of the request (runner.ts:156) and is
  dropped without its finish hook: the runner stays `Shell`, the session busy,
  and a cancel waits for a latch that nobody opens. In the liveness run
  therefore only callers of prompts go away: a cancel that is given up leaves those
  unanswered whom it had to answer.
- `OpenHasSettler`, `StraysAreStopped`: not what a cancel had taken over when its own
  client went away.
- `SessionContract` says what holds when all is quiet; `BusyIsSeen` says that a busy
  runner is in the map, unless a late hook deleted its entry (`unseen`): see the
  divergences below.
- `OnlyRacersAreUnheard`: a request in `late` drew its id before the message of a
  turn that did not see it, joined a run that had left its loop, or was there when
  a compaction did not fit. It, and what was stored before it, may stay unread,
  since the exit compares ids: the racer is behind the others in the log, but has
  an older id than the reply. So may what a manual compaction left in its tail
  (`retained`): see `PromptsAreRead` below.
- `ContextIsFolded`: not when a compaction recorded a tail and then failed
  (`BrokenTail`), nor when a summarize request raced a turn. In the latter case
  the summary answers another user message (compaction.ts stores it as the
  answer of the last one, prompt.ts:1704) and the compaction never counts as
  completed. Nor when a tail begins with what was stored while an earlier
  compaction was summarised (`TailInFront`): the view then shows that before an
  older tail, and the next compaction takes the older one for something before its
  cut. Nor for replies and tool results that follow a message which an overflow
  replayed (`skipped`): the summary is made of what is before that message
  (compaction.ts:404, 427), only the user message is stored again
  (compaction.ts:519-545), and what the model had answered to it is gone.
- `SubtaskRunsOnce`: once per stored message. A compaction on overflow stores a
  copy of the last message with its parts (compaction.ts:519-545), a subtask part
  too, which is then executed again. A subtask that a restart cut short has not ended,
  and is executed again as well.
- `FinishedIsRecorded`: not a result that was in the stream when it broke
  (`dropped`), nor a call whose id a retry used again; the same reuse is the
  exception of `RejectionStops`. `TextIsClosed` leaves out the text of an attempt
  that was retried, which nobody closes, and `AbortIsRecorded` an interruption
  between two attempts, which ends the message without an error.
- `HolderHasAll`: only while `~strayed`. A warp cancels the turn of a local
  workspace only (workspace.ts:638), so a turn in the project or in a remote
  workspace goes on writing after the warp, and a final sync that fails is only
  logged (workspace.ts:627): both make logs fork at the same sequence number,
  and `replay` ignores the difference for ever.
- `CatchesUp`: a stream that *breaks* ends the loop, since only its clean end is
  followed by a retry (workspace.ts:434, 478), so the property assumes that
  ended loops are started again; and only until the first claim, and while
  `~strayed`. It compares the events themselves with those of the holder (`Follows`),
  so that writes of the control plane's own do not count for it.
- `LockContract`: until a breaker was removed that was not the one found stale
  (`undercut`), or a lock was found stale by its meta.json while its holder was
  giving it back, after the heartbeat was unlinked (`overtaken`); the behaviours of
  `lock_excludes` end there. Prompt processes can come to both.
- `ServicesHaveOwner`: not services made during a boot that failed, nor services
  that a request made after the disposal of its instance (`revived`).
  `BootAfterFinalizers`: only when a single call disposes.
- `PendingIsAsked`: not a request whose fiber was interrupted between its entry
  in the map and its finalizer (`leaked`). `NoForgottenAsker`: not one that a reply
  had in hand when it was interrupted, nor one that was registered after the
  finalizer had passed.
- `OneRunPerId`, `MarkedIsOver`: not a job that the finish of another one under
  the same id marked (`struck`).
- `FailureIsThrown`: not the failure of a turn that the close had aborted.
  `QueueIsDrained`, `QueueReturns`: not when the drainer is spent.
- `DisposedIsStopped`: not a server that was being started at the disposal (`late`).
- `OwnRedeemed`: not a flow that owned the stored state while another one put that
  state into its own URL (oauth-provider.ts:155 reads it by name), or while another
  flow or a connect replaced its verifier or its transport (`crossed`); nor a flow of a
  name with an entry that was written over by one who had not read it (`lost`).
  `NewestIsIndexed`: not after the
  timeout of an older flow of the name (`unindexed`).
- `SharedIsCurrent`: not keys whose request failed, was overtaken by an older one
  or was read by a full sync too early, or that waited at a disposal (`missed`), nor
  when share and unshare overlapped; and not what a revert removed: share-next.ts has no
  watcher for removals (183-204), so removed messages and parts stay on the server.
  `PublicIsKnown`: not when calls overlapped or failed, nor the share of a session that
  is deleted before this process ever looked it up. `CacheIsRow`: not when the instance
  is disposed while unshare waits for the server, and the new state looks the share up
  before its row goes: the call clears the cache of the old state (`stranded`).
- `RevertContract`, `RemovedWasShown`: not when a prompt begins while files are
  restored, or two reverts overlap (`raced`).
- `Ordered` in `IdContract`: not when the counter was set back within a
  millisecond, overflowed, or the 48 bits wrapped.

**Findings.** Four runs end in a violation of what a document or a test says:

- `PromptsAreRead` (prompt.ts:1666): a prompt and a summarize request queue up behind
  a turn. The summary leaves the prompt in its retained tail (compaction.ts:511) and
  no turn follows a manual compaction; the next scan finds a finished assistant
  message, the summary, that is newer than every user message, and the loop ends. No
  model was given the prompt, and its caller gets the summary for an answer.
  test/session/prompt.test.ts:1047 says "prompt submitted during an active run is
  included in the next LLM input".
- `SummaryIsCarried` (compaction.ts:424): a compaction updates the *last* completed
  summary of its view. But a view has the newest compaction and its summary in front
  of the tail it retained (message-v2.ts:1041), and when that tail begins before an
  older compaction, the older summary comes last. The next compaction then updates
  the older one, and what only the newer one told is lost. With the default of two
  turns it takes two prompts and three automatic compactions in a row.
  test/session/compaction.test.ts:1457 says "anchors repeated compactions with the
  previous summary".
- `RoutesToHolder` (sync/index.ts:89): after a warp out of a workspace the log of
  the control plane is claimed for the target. `replay` then ignores the target
  too, because nobody passes `ownerID`. The event that moves the session never
  arrives, and prompts are sent to the workspace it was moved away from.
- `MutualExclusion` (packages/core/src/util/effect-flock.ts:262): the heartbeat is
  an effect that was built with one `new Date()`, so every beat writes the time of
  acquisition. A lock that is held longer than the stale time is found stale,
  broken and taken while its holder works.

**Other divergences.** These were met while modelling; the exceptions above make
room for them, so that no run is spent on each:

- run-state.ts:58: `onIdle` of a run runs after its semaphore was released and
  deletes the map entry of the next runner, which then runs without being seen by
  `assertNotBusy` and `cancel` (compare test/session/prompt.test.ts:1116).
- prompt.ts:1666: the loop ends when the last user message is older by id than the
  last reply; a prompt whose id was drawn before, and which was stored during, a
  turn is never read (compare test/session/prompt.test.ts:1047).
- prompt.ts:1647: tasks are looked for behind the last finished assistant message,
  and an executed subtask is one: of two waiting subtasks the second is never
  executed.
- compaction.ts:511: the retained tail is stored before the result of the summary
  is known; after a failure the view of the session is cut although nothing was
  summarised (compare test/session/messages-pagination.test.ts:617).
- compaction.ts:404, 427, 519-545: after an overflow that is replayed, the replies and
  tool results of the replayed turn are in no summary and in no later context.
- packages/core/src/util/flock.ts:170-173: a breaker is removed for its age, which
  was read some awaits earlier; by then it may be a fresh one, although line 185
  says "Breaker ownership ensures only one contender performs stale cleanup."
- packages/core/src/util/flock.ts:259 says "Token check prevents deleting a lock that
  was re-acquired by another process." The token is compared once, then `rm` takes file
  after file: a lock that was held for longer than the stale time and whose heartbeat
  went first is found stale by its meta.json, replaced, and the rest of the `rm` takes
  files of the new holder.
- prompt.ts:1647: likewise a compaction that waits beside a subtask is not executed.
- cli/cmd/run/runtime.queue.ts:11 says "Resolves when the footer closes and all
  in-flight work finishes." It does not wait for the turn it aborted, and after a /new
  to an empty queue that has no `onNewSession` it never resolves (lines 97, 115-127
  and 214).
- mcp/auth.ts:79-105 writes back what it read some awaits earlier: a write that comes
  in between is undone, that of another server included.

## 4. What is proved

Each of the following is proved from the assumption of its module alone (the
assumptions say that "none" values are no members of the sets, that bounds are
numbers, and that what is counted is finite), so for any number of calls, machines,
attempts and so on; only the theorems about `FileLock` have a hypothesis of their
own. In each case the invariant that is checked is not inductive; the proof module
states what is, and proves that every action preserves it, in one step or lemma per
action. Where actions of one kind do the same to what an invariant reads, the effect
of that kind is a lemma and the invariant is proved of it.

**Runner** (`RunnerProofs`): `TypeCorrect`, `InvHolds`, `Strays`, `CurrentAlive`,
`NoForgottenWaiter`, `AnswersAreFinal`, `CancelLeavesNothing` (the invariants that
`session_runs` checks of it) and `Refinement` (`Spec => ImplementsSharedRun`, step by step).
`StraysAreStopped`, for example, needs that a cancel's victim can not come back into
the ref, and `OpenHasSettler` that an interrupted fiber with an open Deferred has a
cancel that will settle it. The inductive invariant is

    Inv == TypeOK /\ CallShape /\ RefShape /\ CancelShape /\ FiberShape
           /\ SettledRunIsOver /\ OpenHasSettler /\ StraysAreStopped /\ CurrentIsAlive

`CallShape`: which program counters go with which operation, and what a call
waits for; `RefShape`: what the ref names exists, belongs to the runner and is of
the kind the tag says, and the ref is never busy while `onBusy` holds the lock;
`CancelShape`: what a cancel took out of the ref stays out, and the cancel moves
on only when the fiber is over; `FiberShape`: when a fiber's exit and Deferred
are set, and who may interrupt it. The refinement maps runs to Deferreds:
`StartRun` and `QueueRun` open a run, `JoinRun` joins, `Complete` and
`SettleCancelled` settle, `RunReturns` answers, `AbortCall` goes away, all else
stutters.

**SessionRunState** (`RunnerProofs`): `SessionSettles` and `BusySeen`. Every step of a
session is a step of the runners, so the runners' invariant holds of sessions;
`SeenShape` adds which runner a call has in hand while it enters one, so that a runner
gets busy only when it is the one of the map. That a session at rest is idle is not inductive by itself, because the
writers of the status overtake each other. What is: whoever said busy has left
somebody who will say idle. `Duty` is a call or fiber that has still to set the
session idle, `DutyLeft` that there is one or a busy runner (which ends in one),
`NewsLeft` the same for what is published; both follow the two halves of every
`status.set`.

**PromptLoop and MessageLog** (`LoopProofs`): `LoopIsKept`, `PromptsAreSettled`,
`SubtasksRunOnce`, `ContextStaysFolded`. The pure part: `FilterCompacted` shows every place of the log from
some place on, once, and in order except that what is at or behind the last
compaction with a tail, up to its summary, comes before what is before it
(`ScanPlaces`); a cut keeps the compaction it was made at, so a scan finds a user
message. The rest relates the run to the log, while requests store messages between
any two of its steps:

    LoopInv == Shapes /\ ViewFits /\ ViewIsOlder /\ OwnStored /\ ReadyShows
               /\ RacersAreLate /\ SeenInTime /\ Between
               /\ RanStored /\ Executed /\ Answered /\ ExitsTell /\ AnsweredAreSettled

`Shapes`: ids and times are drawn once, a stored message is that of a request or the
run's, and the run is at most writing the last one it wrote. `ViewFits`: what a turn
works on shows stored messages, lacks only what requests stored since, and is
turned as above. `RacersAreLate` and `SeenInTime`: who drew an id before a message of
the run was begun was in its view, or is late. `Answered`: what could end the loop
above an unread prompt is a summary with a user message of the run behind it. From
these follows what an exit leaves unread (`ExitsTell`), which has to be known when
the scan finds it, while the callers are answered a step later. For subtasks: an
executed one has its finished task message behind it in the log (`Executed`), and a
scan takes a task only from behind the last finished message of the view; that the
order of the view and that of the log agree there needs `Between`: what is stored
between a compaction and its summary is a racer's or was never finished, unless a
later compaction recorded a tail.

`ContextStaysFolded` follows every message through all later compactions, each of
which works on a view that the ones before it have cut and turned. It has an
invariant of its own on top of `LoopInv`:

    FoldInv == Follows /\ Tails /\ TailsPoint /\ Parent /\ UnreadyIsLate /\ UnreadyShown
               /\ ReadyCuts /\ SummaryShows /\ CutIsTold

What a scan leaves out depends on one message only: the newest compaction that a
summary completed. `Cut` says of a message that it is older than the tail that one
retains, or than that one if it retains none; `Told`, that it was folded into a
summary, is a compaction or a summary itself, raced a turn, was stored again by an
overflow, or followed what was. `CutIsTold` is what is
wanted. What completed a compaction once stays there, and a tail is recorded together
with a summary and begins with a stored message (`Follows`, `Tails`, `TailsPoint`). So
only two kinds of steps can cut off more: the storing of a message that comes late,
which is a racer's, and the end of a summary, which completes a new compaction. That
summary must have been made from all it cuts off that was not cut off before.
`SummaryShows` says so while it is being written: what its view lacks was stored
since, raced it, or was cut off already. That comes from the scan the turn began with
(`ReadyCuts`), from `Parent` (the summary answers the last user message of the view)
and, for requests that are stored in two steps, from `UnreadyIsLate` and
`UnreadyShown`. What is upset as `Disturbed` says is left out throughout.

**Processor** (`ProcessorProofs`): `ClosedComplete`, `EndFinal`, `FinishedRecorded`,
`RejectionEnds`. For the first two: `ctx.toolcalls` is exactly the index of the open
parts (`CallsAreOpenParts`) although retries use ids again, because a part is replaced
in it only by a part that is opened under the same id, and never reopened; so the
cleanup, which walks `ctx.toolcalls`, reaches all of them. `TextIsKnown`,
`CutOffIsOver` and `RetryIsLeft` complete the invariant. The other two need a second
invariant on top (`RecordInv`), of executions whose id no other attempt uses: a tool
runs only for a call that was heard of (`ToolsAreHeard`), attempts to come were not
heard of (`FutureIsSilent`), a call that was begun or read keeps its part until the
end of its tool is handled (`BegunIsKept`, `CalledRuns`), and a refusal is remembered
as `blocked` (`RefusalBlocks`).

**Sync** (`SyncProofs`): `NoReplayThrows`, `WriterHasAll`, `ClaimHolds`. The invariant
relates the logs to each other: what a remote log has of others is at the control
plane too (`ForeignIsHome`), the log of the holder extends every other one
(`HolderExtends`); and what loops and warps remember to the logs: a live stream that
is not shut out is at most one event beyond the log of the control plane
(`LinkFits`), a warp has posted no more than the target has (`WarpFits`). That the
stream is opened before the history is asked for is what makes `LinkFits` inductive:
the history reaches at least to where the stream begins. `EventAdds` and `ReplayAdds`
say what the two kinds of writes do to the logs, once for all actions.

**FileLock** (`FileLockProofs`): `LockIsKept` and `OneHolder`, under the hypothesis
`Beat = "now"`, that a heartbeat writes the present time. That is flock.ts; for
effect-flock.ts the run `lock_beat` shows that it is needed. The invariant is

    LockInv == Always /\ (Interfered \/ Shielded)

where `Interfered` is that a breaker was removed that was not the one found stale, or
that a lock was found stale while it was given back, after which nothing is promised.
Both are events that prompt processes can come to. `Shielded` follows time: who made the lock or the breaker
has it (`MakersOwn`, `BreakersOwn`), the file that tells the age of a lock in use is
younger than the stale time as long as its holder is prompt (`FilesAreFresh`), and a
second look that missed the heartbeat finds a file that was written after its clock
was read (`RechecksAreLate`); so what is removed as stale is nobody's
(`StaleIsAbandoned`). The assumption that relates `Stale` and `Lag` enters there.

**InstanceStore** (`InstanceProofs`): `OneBoot`, `OnlyDisposed`, `ServicesOwned` and
`StoreKeepsContract`. Entries are numbered as they are made, the cached one is the
newest (`CacheIsNewest`), a loader that got past its predecessor has only finished
ones before it (`OlderAreFinished`), and an instance that was replaced and not
disposed is waited for by the reload that replaced it (`ReplacedIsWaitedFor`). With
`LoaderMatches`, `DisposalIsOfLoaded` and `ServicesInv` this is inductive. That a
boot comes after the finalizers when one call disposes needs a second invariant on
top of it, of the disposers and what they await (`DisposersInv`).

**Requests** (`InstanceProofs`): `RequestsAreAnswered`. Who asks and is not answered
is in the map, or in the hand of the reply that took it out (`NobodyForgotten`,
`HandsArePublished`), or was forgotten in one of the ways the contract names. The
map is walked while it changes, in the order of insertion: a walk has passed only
what is of no concern to it (`WalkShape`), a finalizer only what it has rejected
(`PassedAreAnswered`), since what comes later is behind both (`PlacesDiffer`). Rules
only come of a reply that said always (`ApprovedByReply`), so whoever is let through
by them was entitled by a user's answer.

**BackgroundJob, LspClients, McpAuth, PromptQueue** (`ServicesProofs`). `JobIsKept`,
with `StartsMatch` (how far a start is tells what there is of its job), `LockIsHeld`
(who holds the lock forks because nothing is running) and `CancelsMatch`.
`OneServerForAll`, with `OneSpawn` (one spawn is under way, and it is the one other
calls find), `SpawnsMatch`, `OneClient`, `NoneBesideClient`, `LateAreKnown`.
`CodesAreRedeemed`, with `NamesMatch` and `FilesMatch` (what is kept under a name, in
the file or in the hand of one who read it, is of that name) and `OwnersKeepTheirs` (a
flow whose state is stored, or was found to be, and that is neither crossed nor of a
name with a lost entry, has its verifier, its transport and its own code, or none),
on which `OwnRedeemed` rests: a code is exchanged several steps after its state was
compared. What has been read of the file was in it (`HeldWasKnown`), so an old
state can only come back by a write that is `lost`. `QueueKeepsOrder` and `ClosedIsSilent`: a prompt is in
one place on its way from being typed to being sent (`TypedOnce`, `QueueShape`),
what runs is in the hand of the drainer and its race is open (`RunningIsInHand`), and
a queue with something in it has a drainer, spent or not (`QueueIsDrained`).

**Share, Revert, Identifier** (`StorageProofs`). `ShareIsKept`: the last version of a
key is on the server or on its way there - in the queue, in a request, or in a full
sync that has still to read it (`OnItsWay`) - unless `missed` or removed; and how far
the one call is that is under way tells what is public (`OneCall`, `PublicIsTold`),
also when the state it began with was disposed. The steps
that send data leave the calls alone, and the steps of calls send nothing
(`CallsRest`, `DataRests`). `RevertsAreKept` and `RemovalIsOfTheShown`, for a finite set
of prompts (their numbers are counted): each prompt has a number behind those before
it, so a revert's target separates what stays from what goes (`NumbersAreOwn`);
unless calls raced, one of them undoes at a time, and a mark stands only while no
prompt is on its way (`UndoersAreAlone`); `FilesAreOnTheWay` follows the files from the
snapshot through the undoing to the new mark, and back through an unrevert.
`IdsSort` and `CleanupKeepsTheNew`: an id is a number that says what it was made of
(`IdsAreMade`), and the counter is ahead of all ids of its millisecond drawn since
the timestamp last went back (`CountsGoUp`); the rest is arithmetic of the cut to 48
bits, `Bits`, with quotients and remainders.

Every invariant and action property that a passing run checks is a theorem. Only
model-checked are:

- liveness (`CancelReturns`, `EveryCallReturns`, `CatchesUp`, `InterruptCloses`,
  `AbandonedIsReplaced`, `ServicesAnswer`): fairness and ENABLED are beyond the
  provers used here;
- what recursive functions of the community modules compute for every input (folds
  and the like): the proofs use only operators that are defined by choice or by
  comprehension.

## 5. Abstractions

- One session, directory, lock, id of a job, root of a server; others share
  nothing with it but the process.
- SQLite transactions and code without an await are atomic. Effect may switch
  fibers at other places after very long runs without an await; that is modelled
  in `Requests`, where every effect may be the place, and nowhere else.
- The window of a model is fixed: a reply that filled it always counts as
  overflow. Plugins change nothing. What a tool or a model does is chosen freely.
- The three writes at the end of a compaction (tail, summary, follow-up message)
  are one step: nothing else writes these rows, but a cancel between the finished
  summary and the follow-up message is not modelled.
- A runner of `PromptLoop` is reduced to joining, starting and settling, and its
  turn to the message that the processor leaves; the details are `Runner` and
  `Processor`.
- `Processor`: `ctx.shouldBreak` has its default, true. Reasoning parts are text
  parts. Steps of a provider's own tool loop, snapshots and tokens are left out.
- `Sync`: both ends run the same version (no unknown event types), workspaces are
  not created or removed, the session is not deleted, one warp at a time, the patch
  of a warp (`copyChanges`) is left out. A history is replayed in one step: its
  replays follow each other without an await. The server subscribes a stream
  before it answers the request for it.
- `FileLock`: time is in ticks; a process takes at most `Lag` ticks for an attempt
  and between heartbeats.
- `Requests`: the name of a permission and its pattern are one "pattern", and what
  wildcards match is a given relation.
- `Share`: the server keeps what it is sent in the order of arrival. `Revert`: a
  user message and its turn are one message; reverts to a single part are left out.
- `McpAuth`: what listens on the port is reduced to the redirect it was started for.

## 6. Not modelled

- The fence (`waitForSync`) delays a request and changes no state. Deletion of a
  session (`remove`) would end the life of the one session of `Sync`; creation and
  removal of workspaces are requests to adapters.
- `copyChanges`, snapshots, worktrees and version control are calls of git, whose
  state is in the file system of another program; `Revert` has what a snapshot
  restores.
- Resolution of prompt parts, tools, titles, pruning of tool outputs, and the text
  of prompts and summaries are data. What a tool does is the environment of the loop;
  the task tool runs a child session of the same components.
- Rows of sessions, todos and projects are single transactions of SQLite.
- The bus is a PubSub of the Effect library: the models have its effects where a
  step depends on them.
- Connections, capabilities and messages of MCP and LSP belong to their libraries
  and servers; PTYs are buffers of terminals.
- Providers, accounts, configuration and plugins resolve settings and send requests.
- The HTTP server is handlers that call the services above; CLI, TUI, ACP, the
  desktop board and the UI packages render state and send requests: the
  environment of the models. `packages/sdk` is generated. These are most of the
  lines of the repository, and have no state whose order matters beyond a component.
