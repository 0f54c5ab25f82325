---------------------------- MODULE InstanceStore ----------------------------
(***************************************************************************)
(* packages/ravens/src/project/instance-store.ts: the instances of a       *)
(* project directory, over effect/instance-state.ts and                    *)
(* effect/instance-registry.ts: the state every service keeps for it.      *)
(*                                                                         *)
(* The store maps a directory to an entry, whose Deferred is done when the *)
(* instance is booted.  The services key their state by the directory too, *)
(* not by the instance: whoever asks first makes the state, under the      *)
(* instance it runs in, and the disposers of a directory drop whatever     *)
(* state is there.  Directories share nothing, so one is enough; the       *)
(* services are created and dropped alike, so one is enough.               *)
(*                                                                         *)
(* A call is one invocation of an operation.  A load or reload makes at    *)
(* most one entry, one background loader and one instance, all named by    *)
(* the call.  The Map is changed without awaits in between.                *)
(***************************************************************************)
EXTENDS Naturals

CONSTANTS
    Calls,     \* invocations, each made at most once
    None

ASSUME InstanceAssumption == None \notin Calls \cup {"load", "reload", "dispose", "disposeAll"}

VARIABLES
    op, at,    \* of a call: operation, program counter
    on,        \* of a call: the entry whose Deferred it awaits
    of,        \* of a dispose: the instance the caller holds
    cache,     \* cache.get(directory)
    deferred,  \* of an entry
    loader,    \* of an entry: its background fiber
    prev,      \* of a reload: the entry it replaced
    born,      \* of an entry: when it was made
    made,      \* entries made
    svc,       \* the instance that the state of the services was made under
    awaits,    \* of a disposer: the state whose finalizers it awaits
    gone,      \* instances whose disposers were run
    revived    \* instances whose services were made again afterwards

callVars  == <<op, at, on, of>>
entryVars == <<cache, deferred, loader, prev, born, made>>
svcVars   == <<svc, awaits, gone, revived>>
instanceVars == <<callVars, entryVars, svcVars>>

InstanceTypeOK ==
    /\ op \in [Calls -> {"load", "reload", "dispose", "disposeAll", None}]
    /\ at \in [Calls -> {"new", "await", "disposing", "join", "returned"}]
    /\ on \in [Calls -> Calls \cup {None}]
    /\ of \in [Calls -> Calls \cup {None}]
    /\ cache \in Calls \cup {None}
    /\ deferred \in [Calls -> {"none", "open", "ok", "failed"}]
    /\ loader \in [Calls -> {"none", "previous", "disposers", "boot", "done"}]
    /\ prev \in [Calls -> Calls \cup {None}]
    /\ born \in [Calls -> Nat]
    /\ made \in Nat
    /\ svc \in Calls \cup {None}
    /\ awaits \in [Calls -> Calls \cup {None}]
    /\ gone \subseteq Calls
    /\ revived \subseteq Calls

InstanceInit ==
    /\ op = [c \in Calls |-> None]
    /\ at = [c \in Calls |-> "new"]
    /\ on = [c \in Calls |-> None]
    /\ of = [c \in Calls |-> None]
    /\ cache = None
    /\ deferred = [c \in Calls |-> "none"]
    /\ loader = [c \in Calls |-> "none"]
    /\ prev = [c \in Calls |-> None]
    /\ born = [c \in Calls |-> 0]
    /\ made = 0
    /\ svc = None
    /\ awaits = [c \in Calls |-> None]
    /\ gone = {}
    /\ revived = {}

Finished(e) == deferred[e] \in {"ok", "failed"}

Called(c, what) ==
    /\ at[c] = "new"
    /\ op' = [op EXCEPT ![c] = what]

Goes(c, place, entry) ==
    /\ at' = [at EXCEPT ![c] = place]
    /\ on' = [on EXCEPT ![c] = entry]

\* A new entry takes the place of whatever was there; its loader is forked.
NewEntry(c, start) ==
    /\ cache' = c
    /\ deferred' = [deferred EXCEPT ![c] = "open"]
    /\ loader' = [loader EXCEPT ![c] = start]
    /\ prev' = [prev EXCEPT ![c] = cache]
    /\ born' = [born EXCEPT ![c] = made + 1]
    /\ made' = made + 1

\* runDisposers: every service drops its state and runs the finalizers of it.
RunDisposers(d) ==
    /\ awaits' = [awaits EXCEPT ![d] = svc]
    /\ svc' = None
    /\ UNCHANGED revived

-----------------------------------------------------------------------------
\* load: the entry that is there, or a new one.
Load(c) ==
    /\ Called(c, "load")
    /\ IF cache # None
       THEN Goes(c, "await", cache) /\ UNCHANGED entryVars
       ELSE Goes(c, "await", c) /\ NewEntry(c, "boot")
    /\ UNCHANGED <<of, svcVars>>

\* Variant: the instance is booted while the one it replaces still is.
ReloadAtOnce(c) ==
    /\ Called(c, "reload")
    /\ Goes(c, "await", c)
    /\ NewEntry(c, "boot")
    /\ UNCHANGED <<of, svcVars>>

\* reload: always a new entry; the loader first waits for the previous one.
Reload(c) ==
    /\ Called(c, "reload")
    /\ Goes(c, "await", c)
    /\ NewEntry(c, IF cache = None THEN "boot" ELSE "previous")
    /\ UNCHANGED <<of, svcVars>>

LoaderDisposes(c) ==
    /\ loader[c] = "previous"
    /\ Finished(prev[c])
    /\ loader' = [loader EXCEPT ![c] = "disposers"]
    /\ RunDisposers(c)
    /\ gone' = gone \cup {prev[c]}
    /\ UNCHANGED <<callVars, cache, deferred, prev, born, made>>

LoaderBoots(c) ==
    /\ loader[c] = "disposers"
    /\ awaits[c] = None
    /\ loader' = [loader EXCEPT ![c] = "boot"]
    /\ UNCHANGED <<callVars, cache, deferred, prev, born, made, svcVars>>

\* bootstrap.run asks the services for their state under the new instance.
BootServices(c) ==
    /\ loader[c] = "boot"
    /\ svc = None
    /\ svc' = c
    /\ UNCHANGED <<callVars, entryVars, awaits, gone, revived>>

\* Variant: a failed boot leaves those who wait for it alone.
BootEndsSilently(c, how) ==
    /\ loader[c] = "boot"
    /\ loader' = [loader EXCEPT ![c] = "done"]
    /\ deferred' = [deferred EXCEPT ![c] = IF how = "ok" THEN how ELSE "open"]
    /\ cache' = IF how = "failed" /\ cache = c THEN None ELSE cache
    /\ UNCHANGED <<callVars, prev, born, made, svcVars>>

\* completeLoad: a boot that fails takes its own entry out of the cache.
BootEnds(c, how) ==
    /\ loader[c] = "boot"
    /\ loader' = [loader EXCEPT ![c] = "done"]
    /\ deferred' = [deferred EXCEPT ![c] = how]
    /\ cache' = IF how = "failed" /\ cache = c THEN None ELSE cache
    /\ UNCHANGED <<callVars, prev, born, made, svcVars>>

LoadReturns(c) ==
    /\ op[c] \in {"load", "reload"}
    /\ at[c] = "await"
    /\ Finished(on[c])
    /\ at' = [at EXCEPT ![c] = "returned"]
    /\ UNCHANGED <<op, on, of, entryVars, svcVars>>

\* A request that runs in instance e asks a service for its state.
Use(e) ==
    /\ \E c \in Calls : op[c] \in {"load", "reload"} /\ at[c] = "returned" /\ on[c] = e
    /\ deferred[e] = "ok"
    /\ svc = None
    /\ svc' = e
    /\ revived' = IF e \in gone THEN revived \cup {e} ELSE revived
    /\ UNCHANGED <<callVars, entryVars, awaits, gone>>

-----------------------------------------------------------------------------
\* disposeEntry, first half: unless the entry was replaced, run the disposers.
DisposeEntry(c, entry) ==
    IF cache = entry
    THEN /\ RunDisposers(c)
         /\ gone' = gone \cup {entry}
         /\ Goes(c, "disposing", entry)
         /\ UNCHANGED cache
    ELSE /\ Goes(c, "returned", None)
         /\ UNCHANGED <<cache, svcVars>>

\* dispose: of an instance the caller got from a load; it need not be the
\* cached one any more.  Without an entry only the disposers run.
Dispose(c, e) ==
    /\ Called(c, "dispose")
    /\ deferred[e] = "ok"
    /\ of' = [of EXCEPT ![c] = e]
    /\ IF cache = None
       THEN /\ RunDisposers(c)
            /\ gone' = gone \cup {e}
            /\ Goes(c, "disposing", None)
       ELSE Goes(c, "await", cache) /\ UNCHANGED svcVars
    /\ UNCHANGED entryVars

DisposeGoesOn(c) ==
    /\ op[c] = "dispose"
    /\ at[c] = "await"
    /\ Finished(on[c])
    /\ CASE deferred[on[c]] = "failed" ->
              /\ cache' = IF cache = on[c] THEN None ELSE cache
              /\ Goes(c, "returned", None)
              /\ UNCHANGED svcVars
         [] deferred[on[c]] = "ok" /\ on[c] # of[c] ->
              /\ Goes(c, "returned", None)
              /\ UNCHANGED <<cache, svcVars>>
         [] OTHER -> DisposeEntry(c, on[c])
    /\ UNCHANGED <<op, of, deferred, loader, prev, born, made>>

\* disposeAll: one run at a time, callers that come meanwhile share it.  It
\* goes over the entries of its start: here the one of this directory.
DisposeAll(c) ==
    /\ Called(c, "disposeAll")
    /\ \/ \E d \in Calls :
            /\ op[d] = "disposeAll"
            /\ at[d] \in {"await", "disposing"}
            /\ Goes(c, "join", d)
       \/ /\ \A d \in Calls : op[d] = "disposeAll" => at[d] \notin {"await", "disposing"}
          /\ IF cache = None THEN Goes(c, "returned", None) ELSE Goes(c, "await", cache)
    /\ UNCHANGED <<of, entryVars, svcVars>>

DisposeAllGoesOn(c) ==
    /\ op[c] = "disposeAll"
    /\ at[c] = "await"
    /\ Finished(on[c])
    /\ IF deferred[on[c]] = "failed"
       THEN /\ cache' = IF cache = on[c] THEN None ELSE cache
            /\ Goes(c, "returned", None)
            /\ UNCHANGED svcVars
       ELSE DisposeEntry(c, on[c])
    /\ UNCHANGED <<op, of, deferred, loader, prev, born, made>>

DisposeAllJoined(c) ==
    /\ at[c] = "join"
    /\ at[on[c]] = "returned"
    /\ at' = [at EXCEPT ![c] = "returned"]
    /\ UNCHANGED <<op, on, of, entryVars, svcVars>>

\* The finalizers of a dropped state have run.
FinalizersEnd(d) ==
    /\ awaits[d] # None
    /\ awaits' = [awaits EXCEPT ![d] = None]
    /\ UNCHANGED <<callVars, entryVars, svc, gone, revived>>

\* Variant: the entry of the directory is deleted without looking at it again.
DisposeEndsBlindly(c) ==
    /\ at[c] = "disposing"
    /\ awaits[c] = None
    /\ cache' = None
    /\ at' = [at EXCEPT ![c] = "returned"]
    /\ UNCHANGED <<op, on, of, deferred, loader, prev, born, made, svcVars>>

\* disposeEntry, second half: the entry goes, unless it was replaced meanwhile.
DisposeEnds(c) ==
    /\ at[c] = "disposing"
    /\ awaits[c] = None
    /\ cache' = IF on[c] # None /\ cache = on[c] THEN None ELSE cache
    /\ at' = [at EXCEPT ![c] = "returned"]
    /\ UNCHANGED <<op, on, of, deferred, loader, prev, born, made, svcVars>>

-----------------------------------------------------------------------------
Loaders ==
    \E c \in Calls :
        \/ LoaderDisposes(c)
        \/ LoaderBoots(c)
        \/ BootServices(c)
        \/ \E how \in {"ok", "failed"} : BootEnds(c, how)

Callers ==
    \E c \in Calls :
        \/ Load(c)
        \/ Reload(c)
        \/ LoadReturns(c)
        \/ Use(c)
        \/ \E e \in Calls : Dispose(c, e)
        \/ DisposeGoesOn(c)
        \/ DisposeAll(c)
        \/ DisposeAllGoesOn(c)
        \/ DisposeAllJoined(c)
        \/ DisposeEnds(c)

InstanceNext == Loaders \/ Callers \/ \E d \in Calls : FinalizersEnd(d)

InstanceSpec == InstanceInit /\ [][InstanceNext]_instanceVars

\* What was begun goes on: boots and finalizers end, waiting fibers are resumed.
InstanceGoesOn(c) ==
    \/ LoaderDisposes(c) \/ LoaderBoots(c)
    \/ \E how \in {"ok", "failed"} : BootEnds(c, how)
    \/ LoadReturns(c) \/ FinalizersEnd(c)
    \/ DisposeGoesOn(c) \/ DisposeAllGoesOn(c) \/ DisposeAllJoined(c) \/ DisposeEnds(c)

InstanceFairness == \A c \in Calls : WF_instanceVars(InstanceGoesOn(c))

-----------------------------------------------------------------------------
\* However loads, reloads and disposals overlap, a directory is booted once at a
\* time: no two loaders ever run bootstrap side by side.
OneBootAtATime ==
    \A e, f \in Calls : loader[e] = "boot" /\ loader[f] = "boot" => e = f

\* The entry of a directory goes only when its own boot failed or its own
\* disposers were run: a stale dispose does not delete an in-flight reload.
OnlyDisposedLeave ==
    [][cache # None /\ cache' = None =>
         deferred'[cache] = "failed" \/ (deferred[cache] = "ok" /\ cache \in gone)]_instanceVars

\* State of services always belongs to the cached instance, or a reload is about
\* to drop it - unless it was made during a boot that failed, which drops
\* nothing, or by a request that outlived the disposal of its instance.
ServicesHaveOwner ==
    svc # None =>
        \/ svc = cache
        \/ \E f \in Calls : loader[f] = "previous"
        \/ deferred[svc] = "failed"
        \/ svc \in revived

\* As long as a single call disposes, no instance is booted while finalizers of
\* the one before still run.  Two that overlap give no such guarantee: the
\* disposers of the second find nothing to wait for.
Disposes(c) == op[c] \in {"reload", "dispose", "disposeAll"}

BootAfterFinalizers ==
    (\A c, d \in Calls : Disposes(c) /\ Disposes(d) => c = d) =>
        \A e, d \in Calls : loader[e] = "boot" => awaits[d] = None

\* What the store promises of a directory: boots one after the other, with the
\* services of the one before gone.
InstanceContract ==
    InstanceTypeOK /\ OneBootAtATime /\ ServicesHaveOwner /\ BootAfterFinalizers

\* Nobody waits for ever for an instance, a disposal or a shared disposal.
InstanceCallsReturn ==
    \A c \in Calls : []<>(at[c] \in {"new", "returned"})
=============================================================================
