--------------------------- MODULE SessionRunState ---------------------------
(***************************************************************************)
(* packages/ravens/src/session/run-state.ts over runner.ts and status.ts:  *)
(* one session, the runner objects made for it one after another, the      *)
(* entry of the `runners' map and the session's status.                    *)
(*                                                                         *)
(* Sessions share nothing (both maps are keyed by the session id), so one  *)
(* is enough.  A call here is a prompt, a shell command or a cancel of the *)
(* session; what it does inside its runner is the module Runner.           *)
(***************************************************************************)
EXTENDS Runner

VARIABLES
    entry,     \* runners.get(sessionID)
    made,      \* runner objects made so far
    published, \* the last session.status event
    stored,    \* what SessionStatus.get answers
    writes,    \* status.set under way by a call or its fiber: published, not stored
    bypass,    \* cancels that found no busy runner
    unseen     \* runners that left the map while they were in use

statusVars  == <<published, stored, writes>>
mapVars     == <<entry, made, unseen>>
sessionVars == <<mapVars, statusVars, bypass>>
allVars     == <<vars, sessionVars>>

Statuses == {"idle", "busy"}

SessionTypeOK ==
    /\ entry \in Runners \cup {None}
    /\ made \subseteq Runners
    /\ published \in Statuses
    /\ stored \in Statuses
    /\ writes \in [Calls -> Statuses \cup {None}]
    /\ bypass \subseteq Calls
    /\ unseen \subseteq Runners

SessionInit ==
    /\ Init
    /\ entry = None
    /\ made = {}
    /\ published = "idle"
    /\ stored = "idle"
    /\ writes = [c \in Calls |-> None]
    /\ bypass = {}
    /\ unseen = {}

\* status.set publishes first and stores afterwards.
Publish(c, s) ==
    /\ writes[c] = None
    /\ published' = s
    /\ writes' = [writes EXCEPT ![c] = s]
    /\ UNCHANGED stored

Store(c) ==
    /\ writes[c] # None
    /\ stored' = writes[c]
    /\ writes' = [writes EXCEPT ![c] = None]
    /\ UNCHANGED published

-----------------------------------------------------------------------------
\* Variant: only a runner that is busy is taken from the map.
LookupBusy(c, o) ==
    /\ c \notin bypass
    /\ IF entry # None /\ tag[entry] # "Idle"
         THEN Invoke(c, o, entry) /\ UNCHANGED <<entry, made>>
         ELSE \E r \in Runners \ made :
                /\ Invoke(c, o, r)
                /\ entry' = r
                /\ made' = made \cup {r}
    /\ UNCHANGED <<statusVars, bypass, unseen>>

\* runner(): the runner in the map, or a new one put there.
Lookup(c, o) ==
    /\ c \notin bypass
    /\ IF entry # None
         THEN Invoke(c, o, entry) /\ UNCHANGED <<entry, made>>
         ELSE \E r \in Runners \ made :
                /\ Invoke(c, o, r)
                /\ entry' = r
                /\ made' = made \cup {r}
    /\ UNCHANGED <<statusVars, bypass, unseen>>

BusyEntry == entry # None /\ tag[entry] # "Idle"

CancelBusy(c) ==
    /\ c \notin bypass
    /\ BusyEntry
    /\ Invoke(c, "cancel", entry)
    /\ UNCHANGED sessionVars

\* Nothing to cancel: only tell everybody that the session is idle.
CancelNotBusy(c) ==
    /\ pc[c] = "new"
    /\ c \notin bypass
    /\ ~BusyEntry
    /\ bypass' = bypass \cup {c}
    /\ Publish(c, "idle")
    /\ UNCHANGED <<vars, mapVars>>

CancelNotBusyStores(c) ==
    /\ c \in bypass
    /\ Store(c)
    /\ UNCHANGED <<vars, mapVars, bypass>>

\* A run or a shell is in the runner, or on its way into it.
InUse(r) ==
    \/ tag[r] # "Idle"
    \/ \E c \in Calls : on[c] = r /\ op[c] # "cancel" /\ pc[c] \in {"called", "onBusy"}

\* onIdle deletes the map entry, whatever it holds by now, then sets idle.
DropEntry(c) ==
    /\ phase[c] = "onIdle" \/ pc[c] = "onIdle"
    /\ Publish(c, "idle")
    /\ entry' = None
    /\ unseen' = unseen \cup {r \in Runners : r = entry /\ InUse(r)}
    /\ UNCHANGED <<vars, made, bypass>>

FiberIdleStored(f) ==
    /\ FiberOnIdle(f)
    /\ Store(f)
    /\ UNCHANGED <<mapVars, bypass>>

CancelIdleStored(c) ==
    /\ CancelOnIdle(c)
    /\ Store(c)
    /\ UNCHANGED <<mapVars, bypass>>

OnBusy(c) ==
    /\ pc[c] = "onBusy"
    /\ Publish(c, "busy")
    /\ UNCHANGED <<vars, mapVars, bypass>>

ShellBusyStored(c) ==
    /\ StartShell(c)
    /\ Store(c)
    /\ UNCHANGED <<mapVars, bypass>>

\* The run loop sets busy in every turn; a processor that halts on an error
\* sets idle although the run goes on.
LoopSets(f, s) ==
    /\ phase[f] = "running"
    /\ op[f] = "ensure"
    /\ Publish(f, s)
    /\ UNCHANGED <<vars, mapVars, bypass>>

LoopStores(f) ==
    /\ phase[f] = "running"
    /\ op[f] = "ensure"
    /\ Store(f)
    /\ UNCHANGED <<vars, mapVars, bypass>>

\* Work ends between two status changes, unless it is interrupted in one.
SessionWorkEnds(f) ==
    /\ WorkEnding(f)
    /\ writes[f] # None => intr[f]
    /\ writes' = [writes EXCEPT ![f] = None]
    /\ UNCHANGED <<mapVars, published, stored, bypass>>

\* A client that goes away abandons the status.set its call was in.
SessionAbort(c) ==
    /\ AbortCall(c)
    /\ writes' = [writes EXCEPT ![c] = IF pc[c] = "onBusy" \/ pc[c] = "onIdle" THEN None ELSE @]
    /\ UNCHANGED <<mapVars, published, stored, bypass>>

SessionStep(c) ==
    \/ (CallMoves(c) \/ FiberMoves(c)) /\ UNCHANGED sessionVars
    \/ CancelNotBusyStores(c)
    \/ DropEntry(c) \/ FiberIdleStored(c) \/ CancelIdleStored(c)
    \/ OnBusy(c) \/ ShellBusyStored(c)
    \/ LoopStores(c)

SessionNext ==
    \E c \in Calls :
        \/ \E o \in {"ensure", "shell"} : Lookup(c, o)
        \/ CancelBusy(c) \/ CancelNotBusy(c)
        \/ SessionStep(c)
        \/ \E s \in Statuses : LoopSets(c, s)
        \/ SessionWorkEnds(c)
        \/ SessionAbort(c)

SessionSpec == SessionInit /\ [][SessionNext]_allVars

-----------------------------------------------------------------------------
(* Properties *)

\* Who looks for a busy runner of the session - assertNotBusy, cancel, the
\* next prompt - finds the one in the map: a run or shell that is not there
\* had its entry deleted by the hook of an earlier one that ran too late.
BusyIsSeen == \A r \in Runners : tag[r] # "Idle" => r = entry \/ r \in unseen

\* When nothing of a session is under way any more, both the event stream
\* and the stored status say idle, whichever writers raced before.  (A shell
\* or a cancel whose client goes away inside status.set leaves it half done.)
NothingUnderWay ==
    /\ \A c \in Calls : pc[c] \in {"new", "returned"} /\ phase[c] \in {"none", "exited"}
    /\ \A c \in Calls : writes[c] = None

QuietIsIdle ==
    NothingUnderWay /\ (\A c \in Calls : result[c] = "aborted" => op[c] = "ensure") =>
        published = "idle" /\ stored = "idle"

\* The state keeps its types, and a session at rest is idle for everybody.
SessionContract == SessionTypeOK /\ QuietIsIdle
=============================================================================
