------------------------------ MODULE FileLock ------------------------------
(***************************************************************************)
(* packages/core/src/util/flock.ts and effect-flock.ts: a lock directory   *)
(* that processes of one machine make, keep alive and remove; the second   *)
(* is the first over Effect, apart from what its heartbeat writes.         *)
(*                                                                         *)
(* A lock is the directory, the heartbeat file, whose mtime its holder     *)
(* renews, and meta.json with the token of the holder.  Who finds a lock   *)
(* stale makes a breaker directory, looks again, and replaces the lock.    *)
(*                                                                         *)
(* Every call of the file system is a step; rm takes a file after another, *)
(* in any order, and the directory when it is empty.  Time is in ticks:    *)
(* files have an age, that stops where it makes no difference.  Processes  *)
(* are prompt: an attempt takes at most Lag ticks, a release does, and so  *)
(* does the time between two heartbeats (the code renews it every          *)
(* Stale / 3).  Processes may crash; a process that starts anew draws a    *)
(* new token.                                                              *)
(***************************************************************************)
EXTENDS Naturals, FiniteSets

CONSTANTS
    Processes,
    Nobody,
    Mortal,    \* processes that may crash
    Stale,     \* staleMs, in ticks
    Lag,
    MaxCrashes,  \* bound on the number of crashes
    Beat       \* what a heartbeat writes: "now", or the time it was "acquired" at

ASSUME LockAssumption ==
    /\ Nobody \notin Processes
    /\ Mortal \subseteq Processes
    /\ MaxCrashes \in Nat
    /\ Stale \in Nat /\ Lag \in Nat \ {0}
    /\ 3 * Lag <= Stale
    /\ Beat \in {"now", "acquired"}

VARIABLES
    step,       \* of a process: where it is
    owner,      \* who made the lock directory that is there
    heartbeat,  \* whether its heartbeat is there
    token,      \* whose token is in its meta.json
    breaker,    \* who made the breaker directory that is there
    age,        \* of a file
    idle,       \* of a process: ticks since it began its attempt, or since its last heartbeat
    clock,      \* of a process: ticks since it read the clock
    held,       \* of a process: ticks since it got the lock
    undercut,   \* whether a breaker was removed that was not the one found stale
    overtaken,  \* whether a lock was found stale while it was given back
    failed,     \* processes that found their lock compromised
    crashes     \* crashes so far

fileVars == <<owner, heartbeat, token, breaker>>
timeVars == <<idle, clock, held>>
noteVars == <<undercut, overtaken, failed, crashes>>
lockVars == <<step, fileVars, age, timeVars, noteVars>>

Files == {"dir", "heartbeat", "meta", "breaker"}
Top == Stale + Lag + 1

Steps == {"idle", "mkdir", "again", "heartbeat", "meta", "hold", "remove",
          "stat heartbeat", "stat meta", "stat dir",
          "break", "stat breaker", "rm breaker",
          "recheck heartbeat", "recheck meta", "recheck dir",
          "rm lock", "unbreak", "unbreak won", "crashed"}

LockTypeOK ==
    /\ step \in [Processes -> Steps]
    /\ owner \in Processes \cup {Nobody}
    /\ heartbeat \in BOOLEAN
    /\ token \in Processes \cup {Nobody}
    /\ breaker \in Processes \cup {Nobody}
    /\ age \in [Files -> 0..Top]
    /\ idle \in [Processes -> 0..Lag]
    /\ clock \in [Processes -> 0..Lag]
    /\ held \in [Processes -> 0..Top]
    /\ undercut \in BOOLEAN /\ overtaken \in BOOLEAN
    /\ failed \subseteq Processes
    /\ crashes \in 0..MaxCrashes

LockInit ==
    /\ step = [p \in Processes |-> "idle"]
    /\ owner = Nobody
    /\ heartbeat = FALSE
    /\ token = Nobody
    /\ breaker = Nobody
    /\ age = [f \in Files |-> 0]
    /\ idle = [p \in Processes |-> 0]
    /\ clock = [p \in Processes |-> 0]
    /\ held = [p \in Processes |-> 0]
    /\ undercut = FALSE /\ overtaken = FALSE
    /\ failed = {}
    /\ crashes = 0

\* An attempt, a release and a period of the heartbeat have a deadline of their
\* own; the clock is read before the heartbeat is looked at.
Goes(p, from, to) ==
    /\ step[p] = from
    /\ step' = [step EXCEPT ![p] = to]
    /\ idle' = IF to \in {"idle", "hold", "remove"} THEN [idle EXCEPT ![p] = 0] ELSE idle
    /\ clock' = IF to \in {"idle", "hold", "remove", "stat heartbeat", "recheck heartbeat"}
                THEN [clock EXCEPT ![p] = 0] ELSE clock

Fresh(f) == age' = [age EXCEPT ![f] = 0]

\* rm of the lock directory. It takes whatever has that name, whoever made it.
Unlink(p, at) ==
    /\ step[p] = at
    /\ \/ /\ heartbeat
          /\ heartbeat' = FALSE
          /\ age' = [age EXCEPT !["heartbeat"] = 0, !["dir"] = 0]
          /\ UNCHANGED token
       \/ /\ token # Nobody
          /\ token' = Nobody
          /\ age' = [age EXCEPT !["meta"] = 0, !["dir"] = 0]
          /\ UNCHANGED heartbeat
    /\ UNCHANGED <<step, owner, breaker, timeVars, noteVars>>

Rmdir(p, at, to) ==
    /\ ~heartbeat /\ token = Nobody
    /\ Goes(p, at, to)
    /\ owner' = Nobody
    /\ Fresh("dir")
    /\ UNCHANGED <<heartbeat, token, breaker, held, noteVars>>

-----------------------------------------------------------------------------
Attempt(p) ==
    /\ Goes(p, "idle", "mkdir")
    /\ UNCHANGED <<fileVars, age, held, noteVars>>

\* mkdir is what decides who gets the lock.
MakeDir(p, from, lost) ==
    IF owner = Nobody
    THEN /\ owner' = p
         /\ Fresh("dir")
         /\ Goes(p, from, IF from = "again" THEN "unbreak won" ELSE "heartbeat")
         /\ UNCHANGED <<heartbeat, token, breaker, held, noteVars>>
    ELSE /\ Goes(p, from, lost)
         /\ UNCHANGED <<fileVars, age, held, noteVars>>

Mkdir(p) == MakeDir(p, "mkdir", "stat heartbeat")

\* The time that is compared was read before the file was looked at.
IsStale(p, f) == age[f] > Stale + clock[p]

\* Heartbeat, meta.json or the directory, the first that is there, tells the age.
Stat(p, from, file, there, missing, fresh, stale) ==
    IF there
    THEN IF IsStale(p, file) THEN Goes(p, from, stale) ELSE Goes(p, from, fresh)
    ELSE Goes(p, from, missing)

StatHeartbeat(p) ==
    /\ Stat(p, "stat heartbeat", "heartbeat", heartbeat, "stat meta", "idle", "break")
    /\ UNCHANGED <<fileVars, age, held, noteVars>>

StatMeta(p) ==
    /\ Stat(p, "stat meta", "meta", token # Nobody, "stat dir", "idle", "break")
    /\ UNCHANGED <<fileVars, age, held, noteVars>>

StatDir(p) ==
    /\ Stat(p, "stat dir", "dir", owner # Nobody, "idle", "idle", "break")
    /\ UNCHANGED <<fileVars, age, held, noteVars>>

-----------------------------------------------------------------------------
\* One process at a time may replace a stale lock.
Break(p) ==
    /\ IF breaker = Nobody
       THEN /\ breaker' = p
            /\ Fresh("breaker")
            /\ Goes(p, "break", "recheck heartbeat")
       ELSE /\ Goes(p, "break", "stat breaker")
            /\ UNCHANGED <<breaker, age>>
    /\ UNCHANGED <<owner, heartbeat, token, held, noteVars>>

\* A breaker that is stale itself is removed - whichever is there by then.
StatBreaker(p) ==
    /\ Goes(p, "stat breaker",
            IF breaker # Nobody /\ age["breaker"] > Stale THEN "rm breaker" ELSE "idle")
    /\ UNCHANGED <<fileVars, age, held, noteVars>>

\* Variant: a breaker that was left behind is left there.
LeaveBreaker(p) ==
    /\ Goes(p, "rm breaker", "idle")
    /\ UNCHANGED <<fileVars, age, held, noteVars>>

RemoveBreaker(p) ==
    /\ Goes(p, "rm breaker", "idle")
    /\ breaker' = Nobody
    /\ undercut' = (undercut \/ (breaker # Nobody /\ age["breaker"] <= Stale))
    /\ Fresh("breaker")
    /\ UNCHANGED <<owner, heartbeat, token, held, overtaken, failed, crashes>>

\* Variant: the lock is not looked at again.
RecheckNothing(p) ==
    /\ Goes(p, "recheck heartbeat", "rm lock")
    /\ UNCHANGED <<fileVars, age, held, noteVars>>

RecheckHeartbeat(p) ==
    /\ Stat(p, "recheck heartbeat", "heartbeat", heartbeat, "recheck meta", "unbreak", "rm lock")
    /\ UNCHANGED <<fileVars, age, held, noteVars>>

\* A lock that is given back without its heartbeat has the age of its meta.json,
\* that is the time since its holder got it.
RecheckMeta(p) ==
    /\ Stat(p, "recheck meta", "meta", token # Nobody, "recheck dir", "unbreak", "rm lock")
    /\ overtaken' = (overtaken \/ (step'[p] = "rm lock" /\ \E q \in Processes : owner = q /\ step[q] = "remove"))
    /\ UNCHANGED <<fileVars, age, held, undercut, failed, crashes>>

RecheckDir(p) ==
    /\ Stat(p, "recheck dir", "dir", owner # Nobody, "unbreak", "unbreak", "rm lock")
    /\ UNCHANGED <<fileVars, age, held, noteVars>>

RemoveLock(p) == Unlink(p, "rm lock") \/ Rmdir(p, "rm lock", "again")

MkdirAgain(p) == MakeDir(p, "again", "unbreak")

\* The breaker goes however that ended.
Unbreak(p, from, to) ==
    /\ Goes(p, from, to)
    /\ breaker' = Nobody
    /\ Fresh("breaker")
    /\ UNCHANGED <<owner, heartbeat, token, held, noteVars>>

-----------------------------------------------------------------------------
Compromised(p, from, to) ==
    /\ Goes(p, from, to)
    /\ failed' = failed \cup {p}
    /\ UNCHANGED <<fileVars, age, held, undercut, overtaken, crashes>>

\* Exclusive writes: a file that is there, or no directory, is a compromise, and
\* the lock is removed.
WriteHeartbeat(p) ==
    IF owner # Nobody /\ ~heartbeat
    THEN /\ Goes(p, "heartbeat", "meta")
         /\ heartbeat' = TRUE
         /\ age' = [age EXCEPT !["heartbeat"] = 0, !["dir"] = 0]
         /\ held' = [held EXCEPT ![p] = 0]
         /\ UNCHANGED <<owner, token, breaker, noteVars>>
    ELSE Compromised(p, "heartbeat", "remove")

WriteMeta(p) ==
    IF owner # Nobody /\ token = Nobody
    THEN /\ Goes(p, "meta", "hold")
         /\ token' = p
         /\ age' = [age EXCEPT !["meta"] = 0, !["dir"] = 0]
         /\ UNCHANGED <<owner, heartbeat, breaker, held, noteVars>>
    ELSE Compromised(p, "meta", "remove")

\* The timer of the holder renews the mtime of the heartbeat that is there.
Heartbeat(p) ==
    /\ step[p] = "hold"
    /\ heartbeat
    /\ age' = [age EXCEPT !["heartbeat"] = IF Beat = "now" THEN 0 ELSE held[p]]
    /\ idle' = [idle EXCEPT ![p] = 0]
    /\ UNCHANGED <<step, fileVars, clock, held, noteVars>>

\* release: a lock that is not ours any more is left alone.
Release(p) ==
    IF token = p
    THEN /\ Goes(p, "hold", "remove")
         /\ UNCHANGED <<fileVars, age, held, noteVars>>
    ELSE Compromised(p, "hold", "idle")

ReleaseRemoves(p) == Unlink(p, "remove") \/ Rmdir(p, "remove", "idle")

-----------------------------------------------------------------------------
Crash(p) ==
    /\ p \in Mortal
    /\ crashes < MaxCrashes
    /\ crashes' = crashes + 1
    /\ step[p] \notin {"idle", "crashed"}
    /\ step' = [step EXCEPT ![p] = "crashed"]
    /\ idle' = [idle EXCEPT ![p] = 0]
    /\ clock' = [clock EXCEPT ![p] = 0]
    /\ held' = [held EXCEPT ![p] = 0]
    /\ UNCHANGED <<fileVars, age, undercut, overtaken, failed>>

StartAnew(p) ==
    /\ Goes(p, "crashed", "idle")
    /\ UNCHANGED <<fileVars, age, held, noteVars>>

Later(n) == IF n < Top THEN n + 1 ELSE n

Exists(f) ==
    CASE f = "dir" -> owner # Nobody
      [] f = "heartbeat" -> heartbeat
      [] f = "meta" -> token # Nobody
      [] f = "breaker" -> breaker # Nobody

Busy(p) == step[p] \notin {"idle", "crashed"}

\* Time passes as long as everybody is prompt.
Tick ==
    /\ \A p \in Processes : Busy(p) => idle[p] < Lag
    /\ age' = [f \in Files |-> IF Exists(f) THEN Later(age[f]) ELSE 0]
    /\ idle' = [p \in Processes |-> IF Busy(p) THEN idle[p] + 1 ELSE 0]
    /\ clock' = [p \in Processes |-> IF Busy(p) /\ step[p] # "hold" THEN clock[p] + 1 ELSE 0]
    /\ held' = [p \in Processes |-> IF Busy(p) /\ Beat = "acquired" THEN Later(held[p]) ELSE 0]
    /\ UNCHANGED <<step, fileVars, noteVars>>

-----------------------------------------------------------------------------
Works(p) ==
    \/ Attempt(p) \/ Mkdir(p) \/ StatHeartbeat(p) \/ StatMeta(p) \/ StatDir(p)
    \/ Break(p) \/ StatBreaker(p) \/ RemoveBreaker(p)
    \/ RecheckHeartbeat(p) \/ RecheckMeta(p) \/ RecheckDir(p)
    \/ RemoveLock(p) \/ MkdirAgain(p)
    \/ Unbreak(p, "unbreak", "idle") \/ Unbreak(p, "unbreak won", "heartbeat")
    \/ WriteHeartbeat(p) \/ WriteMeta(p) \/ Heartbeat(p) \/ Release(p) \/ ReleaseRemoves(p)

LockNext ==
    \/ \E p \in Processes : Works(p) \/ Crash(p) \/ StartAnew(p)
    \/ Tick

LockSpec == LockInit /\ [][LockNext]_lockVars

\* Processes try again until they get the lock; time passes.
LockFairness ==
    /\ \A p \in Processes : WF_lockVars(Works(p))
    /\ SF_lockVars(Tick)

-----------------------------------------------------------------------------
\* At no time two processes have the lock.
MutualExclusion ==
    \A p, q \in Processes : step[p] = "hold" /\ step[q] = "hold" => p = q

\* flock.ts:259: "Token check prevents deleting a lock that was re-acquired by another
\* process." A slow release may delete one, after another took the lock for stale
\* that it was giving back; and a breaker may be removed that was not the stale one.
Interfered == undercut \/ overtaken

\* Who has the lock has it until it is given back: it is not taken for stale, not
\* replaced and not removed by another - crashes of others included.
HolderKeepsLock ==
    Interfered \/ \A p \in Processes :
        /\ step[p] = "hold" => owner = p /\ token = p /\ heartbeat
        /\ step[p] = "remove" => owner = p

\* The errors "compromised", "metadata missing" and "token mismatch" are for
\* interference from outside: the protocol itself does not run into them.
NoCompromise == failed # {} => Interfered

\* The breaker lets one process at a time replace a stale lock, although who left
\* one behind is cleared away by age alone.
OneReplaces ==
    Interfered \/ \A p, q \in Processes :
        step[p] \in {"rm lock", "again"} /\ step[q] \in {"rm lock", "again"} => p = q

\* A lock whose owner crashed, while making it or later, is replaced some time,
\* also if one that was about to do so crashed as well.
Abandoned ==
    /\ owner # Nobody
    /\ step[owner] \notin {"heartbeat", "meta", "hold", "remove", "unbreak won"}

AbandonedIsReplaced == Abandoned ~> ~Abandoned

\* Until a fresh breaker is removed, or a lock found stale that is given back: one
\* process has the lock and is not disturbed, one replaces a stale lock.
LockContract == LockTypeOK /\ HolderKeepsLock /\ NoCompromise /\ OneReplaces
=============================================================================
