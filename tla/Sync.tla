-------------------------------- MODULE Sync --------------------------------
(***************************************************************************)
(* The log of sync events of one session (packages/ravens/src/sync) and    *)
(* what the control plane does with it: it follows the logs of remote      *)
(* workspaces (Workspace.syncWorkspaceLoop) and moves the session from one *)
(* workspace to another (Workspace.sessionWarp).                           *)
(*                                                                         *)
(* A machine is a process with a database of its own: the control plane,   *)
(* which also hosts the workspaces that are directories of it, or a remote *)
(* workspace.  Both ends run the same version, so every event type is      *)
(* known to both; the session is not deleted.                              *)
(***************************************************************************)
EXTENDS Integers, SequencesExt, FiniteSetsExt

CONSTANTS
  Home,        \* the machine of the control plane
  Remotes,     \* remote workspaces, each with the machine it runs on
  Locals,      \* workspaces that are directories of the control plane
  NoSpace,     \* the project itself: a session outside of all workspaces
  NoOwner,     \* owner_id IS NULL
  Stay,        \* an event that does not change the workspace of the session
  BatchSize,   \* events per request of a warp (10 in the code)
  MaxLog,      \* bound on the events of a log
  MaxWarps,    \* bound on warps
  MaxFaults    \* bound on failed requests and lost connections

Machines == {Home} \cup Remotes
Spaces == Remotes \cup Locals \cup {NoSpace}

ASSUME SyncAssumption ==
  /\ Home \notin Remotes
  /\ Remotes \cap Locals = {}
  /\ NoSpace \notin Remotes \cup Locals
  /\ NoOwner \notin Spaces
  /\ Stay \notin Spaces
  /\ BatchSize \in Nat \ {0}
  /\ MaxLog \in Nat /\ MaxWarps \in Nat /\ MaxFaults \in Nat

\* An event: the machine that ran it and the workspace it moves the session
\* to.  Its seq is its place in the log (from 1 here, from 0 in the code).
Event == [at : Machines, to : Spaces \cup {Stay}]

VARIABLES
  log,      \* per machine: the rows of EventTable of the session
  owner,    \* owner_id of the row of EventSequenceTable of the control plane
  turn,     \* per machine: a prompt of the session is running there
  link,     \* per remote workspace: the fiber of syncWorkspaceLoop
  warp,     \* sessionWarp of the session, one at a time
  warps, faults,       \* bounded counters
  holder,   \* history: the machine that took the session last
  strayed,  \* history: another one wrote, or took it without all of its events
  claimed   \* history: the length of the log of the control plane at the claim

vars == <<log, owner, turn, link, warp, warps, faults, holder, strayed, claimed>>

-----------------------------------------------------------------------------
\* Variant: rows that are there already are replayed again.
ReplayedTwice(l, owned, from, a, b) ==
  IF owned \/ a > Len(l) + 1 THEN l ELSE l \o SubSeq(from, a, b)

\* Variant: an owner is recorded but not looked at.
ReplayedUnowned(l, owned, from, a, b) ==
  IF b <= Len(l) \/ a > Len(l) + 1 THEN l ELSE l \o SubSeq(from, Len(l) + 1, b)

\* SyncEvent.replay of rows a .. b of `from' on a log `l': rows that are there
\* are ignored, all are ignored when the log has an owner (no caller of replay
\* names one), and a gap throws (see NoGap).
Replayed(l, owned, from, a, b) ==
  IF owned \/ b <= Len(l) \/ a > Len(l) + 1 THEN l ELSE l \o SubSeq(from, Len(l) + 1, b)

\* The database of a remote workspace is never claimed.
ReplayAt(m, from, a, b) == Replayed(log[m], m = Home /\ owner # NoOwner, from, a, b)

\* workspace_id of the row of the session, as the projectors left it.
Place(l) ==
  LET moves == {i \in DOMAIN l : l[i].to # Stay}
  IN IF moves = {} THEN NoSpace ELSE l[Max(moves)].to

MachineOf(s) == IF s \in Remotes THEN s ELSE Home

\* The sequence that syncHistory names as known: none for a session that is
\* not in that workspace.
Known(s) == IF Place(log[Home]) = s THEN Len(log[Home]) ELSE 0

Here == Place(log[Home])

Unlinked == [loop |-> "ended", pos |-> 0, known |-> 0, until |-> 0]
NoWarp == [pc |-> "none", from |-> NoSpace, to |-> NoSpace, known |-> 0, until |-> 0, sent |-> 0]

Init ==
  /\ log = [m \in Machines |-> IF m = Home THEN <<[at |-> Home, to |-> Stay]>> ELSE <<>>]
  /\ owner = NoOwner
  /\ turn = [m \in Machines |-> FALSE]
  /\ link = [r \in Remotes |-> Unlinked]
  /\ warp = NoWarp
  /\ warps = 0 /\ faults = 0
  /\ holder = Home
  /\ strayed = FALSE
  /\ claimed = 0

-----------------------------------------------------------------------------
\* A prompt.  The request goes to the workspace the control plane has the
\* session in; it is refused while that one is not syncing.
IsSyncing(r) == link[r].loop \notin {"ended", "failed"}

StartTurn ==
  LET m == MachineOf(Here)
  IN /\ m \in Remotes => IsSyncing(m)
     /\ ~turn[m]
     /\ turn' = [turn EXCEPT ![m] = TRUE]
     /\ UNCHANGED <<log, owner, link, warp, warps, faults, holder, strayed, claimed>>

EndTurn(m) ==
  /\ turn[m]
  /\ turn' = [turn EXCEPT ![m] = FALSE]
  /\ UNCHANGED <<log, owner, link, warp, warps, faults, holder, strayed, claimed>>

\* SyncEvent.run by the turn: an immediate transaction.
Write(m) ==
  /\ turn[m]
  /\ Len(log[m]) < MaxLog
  /\ log' = [log EXCEPT ![m] = Append(@, [at |-> m, to |-> Stay])]
  /\ strayed' = (strayed \/ m # holder)
  /\ UNCHANGED <<owner, turn, link, warp, warps, faults, holder, claimed>>

-----------------------------------------------------------------------------
\* The sync loop of a remote workspace: the event stream is opened first, then
\* the history is fetched and replayed, then the stream is read.
Follow(r, l) == /\ link' = [link EXCEPT ![r] = l]
                /\ UNCHANGED <<owner, turn, warp, warps, holder, strayed, claimed>>

StartSync(r) ==
  /\ link[r].loop \in {"ended", "failed"}
  /\ Follow(r, [Unlinked EXCEPT !.loop = "connecting"])
  /\ UNCHANGED <<log, faults>>

\* Variant: the stream is read without the history before it.
ConnectLive(r) ==
  /\ link[r].loop = "connecting"
  /\ Follow(r, [link[r] EXCEPT !.loop = "live", !.pos = Len(log[r]) + 1])
  /\ UNCHANGED <<log, faults>>

\* The stream carries what the workspace writes from now on.
Connect(r) ==
  /\ link[r].loop = "connecting"
  /\ Follow(r, [link[r] EXCEPT !.loop = "linked", !.pos = Len(log[r]) + 1])
  /\ UNCHANGED <<log, faults>>

AskHistory(r) ==
  /\ link[r].loop = "linked"
  /\ Follow(r, [link[r] EXCEPT !.loop = "asked", !.known = Known(r)])
  /\ UNCHANGED <<log, faults>>

AnswerHistory(r) ==
  /\ link[r].loop = "asked"
  /\ Follow(r, [link[r] EXCEPT !.loop = "answered", !.until = Len(log[r])])
  /\ UNCHANGED <<log, faults>>

\* Variant: the stream is opened after the history.
ReplayThenOpen(r) ==
  /\ link[r].loop = "answered"
  /\ log' = [log EXCEPT ![Home] = ReplayAt(Home, log[r], link[r].known + 1, link[r].until)]
  /\ Follow(r, [link[r] EXCEPT !.loop = "live", !.pos = Len(log[r]) + 1])
  /\ UNCHANGED faults

ReplayHistory(r) ==
  /\ link[r].loop = "answered"
  /\ log' = [log EXCEPT ![Home] = ReplayAt(Home, log[r], link[r].known + 1, link[r].until)]
  /\ Follow(r, [link[r] EXCEPT !.loop = "live"])
  /\ UNCHANGED faults

\* Events that were replayed at the workspace are not published there.
ReadStream(r) ==
  /\ link[r].loop = "live"
  /\ link[r].pos <= Len(log[r])
  /\ log' = IF log[r][link[r].pos].at = r
            THEN [log EXCEPT ![Home] = ReplayAt(Home, log[r], link[r].pos, link[r].pos)]
            ELSE log
  /\ Follow(r, [link[r] EXCEPT !.pos = @ + 1])
  /\ UNCHANGED faults

\* Requests fail, the stream ends (the loop goes on) or breaks (the error of
\* the stream ends the loop until the workspace is started again).
LoseLink(r) ==
  /\ faults < MaxFaults
  /\ faults' = faults + 1
  /\ \E next \in {"failed", "connecting", "ended"} :
       /\ next = "failed" => link[r].loop \in {"connecting", "linked", "asked"}
       /\ next \in {"connecting", "ended"} => link[r].loop = "live"
       /\ Follow(r, [Unlinked EXCEPT !.loop = next])
  /\ UNCHANGED log

Retry(r) ==
  /\ link[r].loop = "failed"
  /\ Follow(r, [Unlinked EXCEPT !.loop = "connecting"])
  /\ UNCHANGED <<log, faults>>

-----------------------------------------------------------------------------
\* sessionWarp, from where the control plane has the session to `to'.
Warp(w) == warp' = w /\ UNCHANGED <<link, warps>>

StartWarp(to) ==
  /\ warp.pc = "none"
  /\ warps < MaxWarps
  /\ warps' = warps + 1
  /\ warp' = [NoWarp EXCEPT !.from = Here, !.to = to,
                !.pc = CASE Here \in Remotes -> "sync"
                         [] Here \in Locals -> "cancel"
                         [] OTHER -> "deliver"]
  /\ UNCHANGED <<log, owner, turn, link, faults, holder, strayed, claimed>>

WarpAsk ==
  /\ warp.pc = "sync"
  /\ Warp([warp EXCEPT !.pc = "asked", !.known = Known(warp.from)])
  /\ UNCHANGED <<log, owner, turn, faults, holder, strayed, claimed>>

WarpAnswer ==
  /\ warp.pc = "asked"
  /\ Warp([warp EXCEPT !.pc = "answered", !.until = Len(log[warp.from])])
  /\ UNCHANGED <<log, owner, turn, faults, holder, strayed, claimed>>

WarpReplay ==
  /\ warp.pc = "answered"
  /\ log' = [log EXCEPT ![Home] = ReplayAt(Home, log[warp.from], warp.known + 1, warp.until)]
  /\ Warp([warp EXCEPT !.pc = "claim"])
  /\ UNCHANGED <<owner, turn, faults, holder, strayed, claimed>>

\* The final sync of the source failed: a warning in the log of the program.
WarpUnsynced ==
  /\ warp.pc \in {"sync", "asked"}
  /\ faults < MaxFaults
  /\ faults' = faults + 1
  /\ Warp([warp EXCEPT !.pc = "claim"])
  /\ UNCHANGED <<log, owner, turn, holder, strayed, claimed>>

\* SessionPrompt.cancel, for a source that is a local workspace.
WarpCancel ==
  /\ warp.pc = "cancel"
  /\ turn' = [turn EXCEPT ![Home] = FALSE]
  /\ Warp([warp EXCEPT !.pc = "claim"])
  /\ UNCHANGED <<log, owner, faults, holder, strayed, claimed>>

\* The owner is the target; the project when the session leaves workspaces.
WarpClaim ==
  /\ warp.pc = "claim"
  /\ owner' = warp.to
  /\ claimed' = Len(log[Home])
  /\ Warp([warp EXCEPT !.pc = "deliver"])
  /\ UNCHANGED <<log, turn, faults, holder, strayed>>

\* The machine m takes the session with an event of its own.
Take(m, to) ==
  /\ log' = [log EXCEPT ![m] = Append(@, [at |-> m, to |-> to])]
  /\ holder' = m
  /\ strayed' = (strayed \/ ~IsPrefix(log[holder], log[m]))

WarpHere ==
  /\ warp.pc = "deliver"
  /\ warp.to \notin Remotes
  /\ Take(Home, warp.to)
  /\ Warp(NoWarp)
  /\ UNCHANGED <<owner, turn, faults, claimed>>

\* The rows to post are read at once.
WarpRead ==
  /\ warp.pc = "deliver"
  /\ warp.to \in Remotes
  /\ Warp([warp EXCEPT !.pc = "post", !.until = Len(log[Home])])
  /\ UNCHANGED <<log, owner, turn, faults, holder, strayed, claimed>>

\* One batch of rows, replayed at the target.
WarpPost ==
  LET last == Min({warp.sent + BatchSize, warp.until})
  IN /\ warp.pc = "post"
     /\ log' = [log EXCEPT ![warp.to] = ReplayAt(warp.to, log[Home], warp.sent + 1, last)]
     /\ Warp([warp EXCEPT !.sent = last, !.pc = IF last = warp.until THEN "steal" ELSE @])
     /\ UNCHANGED <<owner, turn, faults, holder, strayed, claimed>>

WarpSteal ==
  /\ warp.pc = "steal"
  /\ Take(warp.to, warp.to)
  /\ Warp(NoWarp)
  /\ UNCHANGED <<owner, turn, faults, claimed>>

\* A request to the target, or its adapter, fails: what was done stays done.
WarpFails ==
  /\ warp.pc \in {"deliver", "post", "steal"}
  /\ faults < MaxFaults
  /\ faults' = faults + 1
  /\ Warp(NoWarp)
  /\ UNCHANGED <<log, owner, turn, holder, strayed, claimed>>

-----------------------------------------------------------------------------
LoopStep(r) ==
  \/ Connect(r) \/ AskHistory(r) \/ AnswerHistory(r) \/ ReplayHistory(r)
  \/ ReadStream(r) \/ Retry(r)

WarpStep ==
  \/ WarpAsk \/ WarpAnswer \/ WarpReplay \/ WarpUnsynced \/ WarpCancel \/ WarpClaim
  \/ WarpHere \/ WarpRead \/ WarpPost \/ WarpSteal \/ WarpFails

Next ==
  \/ StartTurn
  \/ \E m \in Machines : EndTurn(m) \/ Write(m)
  \/ \E r \in Remotes : LoopStep(r) \/ StartSync(r) \/ LoseLink(r)
  \/ \E to \in Spaces : StartWarp(to)
  \/ WarpStep

Spec == Init /\ [][Next]_vars

\* The runtime keeps running the fibers of the sync loops.
FairSpec == Spec /\ \A r \in Remotes : WF_vars(LoopStep(r))
-----------------------------------------------------------------------------
SyncTypeOK ==
  /\ log \in [Machines -> Seq(Event)]
  /\ owner \in Spaces \cup {NoOwner}
  /\ turn \in [Machines -> BOOLEAN]
  /\ link \in [Remotes ->
       [loop : {"ended", "connecting", "failed", "linked", "asked", "answered", "live"},
        pos : Nat, known : Nat, until : Nat]]
  /\ warp \in [pc : {"none", "sync", "asked", "answered", "cancel", "claim", "deliver", "post", "steal"},
               from : Spaces, to : Spaces, known : Nat, until : Nat, sent : Nat]
  /\ warps \in 0 .. MaxWarps /\ faults \in 0 .. MaxFaults
  /\ holder \in Machines /\ strayed \in BOOLEAN /\ claimed \in Nat

\* While only the machine that took the session last writes to it, and took it
\* with all its events, the log of that machine continues every other log: the
\* total order by a sequence number that sync/README.md promises for one
\* writer, whatever is lost, repeated or late on the way.
HolderHasAll == ~strayed => \A m \in Machines : IsPrefix(log[m], log[holder])

\* No replay ever meets a gap, which would throw: in a history it would end the
\* loop of the workspace for good (a defect is not caught there), in a stream
\* every later event would be a gap too.
NoGap ==
  /\ \A r \in Remotes :
       /\ link[r].loop = "answered" => link[r].known <= Len(log[Home])
       /\ link[r].loop = "live" /\ link[r].pos <= Len(log[r]) =>
            \/ log[r][link[r].pos].at # r
            \/ owner # NoOwner
            \/ link[r].pos <= Len(log[Home]) + 1
  /\ warp.pc = "answered" => warp.known <= Len(log[Home])
  /\ warp.pc = "post" => warp.sent <= Len(log[warp.to])

\* The logs keep their types, and no replay throws.
SyncContract == SyncTypeOK /\ NoGap

\* After a claim nothing of the workspace the session left, nor of another
\* one, gets into the log of the control plane.
ShutOut ==
  owner # NoOwner => \A i \in claimed + 1 .. Len(log[Home]) : log[Home][i].at = Home

\* The first i events of the control plane are those of the machine that has
\* the session.
Follows(i) ==
  Len(log[Home]) >= i /\ IsPrefix(SubSeq(log[Home], 1, i), log[holder])

\* Until the first claim the control plane gets every event of the machine
\* that has the session, through lost connections, failed requests and
\* histories that overlap the stream, if ended loops are started again - unless
\* the logs have forked (strayed), because two machines write or a warp went on
\* without the last events of its source.
CatchesUp ==
  (\A r \in Remotes : []<>(link[r].loop # "ended")) =>
    \A i \in 1 .. MaxLog + MaxWarps :
      Len(log[holder]) >= i ~> Follows(i) \/ strayed \/ owner # NoOwner

\* When the stream of the workspace that has the session is read to its end,
\* the control plane sends prompts there: "allow for one device to control and
\* modify the session, and allow multiple other devices to sync session data".
RoutesToHolder ==
  \A r \in Remotes :
    /\ r = holder /\ ~strayed /\ warp.pc = "none"
    /\ link[r].loop = "live" /\ link[r].pos > Len(log[r])
    => MachineOf(Here) = holder
=============================================================================
