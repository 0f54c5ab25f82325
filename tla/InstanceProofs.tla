--------------------------- MODULE InstanceProofs ---------------------------
(***************************************************************************)
(* Proofs about InstanceStore and Requests, for any number of calls,       *)
(* requests and replies: who of many loads, reloads and disposals boots or *)
(* disposes the instance of a directory, and who answers the questions and *)
(* permissions asked in it.                                                *)
(***************************************************************************)
EXTENDS InstanceStore, Requests, TLAPS

-----------------------------------------------------------------------------
(* InstanceStore: a directory is booted once at a time, entries are not    *)
(* deleted by stale disposals, and the state of the services belongs to the*)
(* cached instance.                                                        *)

Busy == {"previous", "disposers", "boot"}

\* The proofs of the steps look at functions, and at single values where they
\* matter; the sets of all values stay folded.
OpSet       == {"load", "reload", "dispose", "disposeAll", None}
AtSet       == {"new", "await", "disposing", "join", "returned"}
DeferredSet == {"none", "open", "ok", "failed"}
LoaderSet   == {"none", "previous", "disposers", "boot", "done"}

InstanceShapes ==
    /\ op \in [Calls -> OpSet]
    /\ at \in [Calls -> AtSet]
    /\ on \in [Calls -> Calls \cup {None}]
    /\ of \in [Calls -> Calls \cup {None}]
    /\ cache \in Calls \cup {None}
    /\ deferred \in [Calls -> DeferredSet]
    /\ loader \in [Calls -> LoaderSet]
    /\ prev \in [Calls -> Calls \cup {None}]
    /\ born \in [Calls -> Nat]
    /\ made \in Nat
    /\ svc \in Calls \cup {None}
    /\ awaits \in [Calls -> Calls \cup {None}]
    /\ gone \subseteq Calls
    /\ revived \subseteq Calls

LEMMA ShapesAreTypes == InstanceShapes => InstanceTypeOK
  BY DEF InstanceShapes, InstanceTypeOK, OpSet, AtSet, DeferredSet, LoaderSet

\* A loader runs exactly as long as its Deferred is open.
LoaderMatches == \A e \in Calls :
    /\ deferred[e] = "none" <=> loader[e] = "none"
    /\ deferred[e] = "open" <=> loader[e] \in Busy
    /\ deferred[e] # "none" => born[e] \in 1..made
    /\ \A f \in Calls : deferred[e] # "none" /\ deferred[f] # "none" /\ born[e] = born[f] => e = f

\* What is cached is the newest entry; without one nothing is being loaded.
CacheIsNewest ==
    /\ cache # None => deferred[cache] \in {"open", "ok"} /\ born[cache] = made
    /\ cache = None => \A e \in Calls : deferred[e] # "open"

\* A loader that got past its predecessor has no older loader beside it.
OlderAreFinished ==
    /\ \A e \in Calls : loader[e] = "previous" =>
         prev[e] \in Calls /\ deferred[prev[e]] # "none" /\ born[e] = born[prev[e]] + 1
    /\ \A e, f \in Calls :
         loader[e] \in {"disposers", "boot", "done"} /\ deferred[f] # "none" /\ born[f] < born[e]
         => Finished(f)

\* An instance that was replaced and not yet disposed is waited for by a reload.
ReplacedIsWaitedFor ==
    /\ \A e \in Calls : e \in gone => Finished(e)
    /\ \A e \in Calls :
         deferred[e] \in {"open", "ok"} /\ e \notin gone /\ cache # e =>
           \E f \in Calls : loader[f] = "previous" /\ prev[f] = e

\* A call that was not made has no entry; who is disposing has run the disposers
\* of a loaded instance.
DisposalIsOfLoaded == \A c \in Calls :
    /\ at[c] = "new" => deferred[c] = "none"
    /\ at[c] = "await" => on[c] \in Calls
    /\ at[c] = "disposing" /\ on[c] # None => deferred[on[c]] = "ok" /\ on[c] \in gone

ServicesInv ==
    /\ ServicesHaveOwner
    /\ svc # None => deferred[svc] # "none"
    /\ svc # None /\ svc \in gone => svc \in revived

InstanceInv ==
    /\ InstanceShapes
    /\ LoaderMatches
    /\ CacheIsNewest
    /\ OlderAreFinished
    /\ ReplacedIsWaitedFor
    /\ DisposalIsOfLoaded
    /\ ServicesInv

LEMMA InstanceInitInv == InstanceInit => InstanceInv
  BY InstanceAssumption
     DEF InstanceInit, InstanceInv, InstanceShapes, OpSet, AtSet, DeferredSet, LoaderSet,
         LoaderMatches, CacheIsNewest, OlderAreFinished, ReplacedIsWaitedFor, DisposalIsOfLoaded,
         ServicesInv, ServicesHaveOwner, Finished, Busy

LEMMA LoadInv ==
    ASSUME InstanceInv, NEW c \in Calls, Load(c)
    PROVE  InstanceInv'
  <1> USE InstanceAssumption DEF InstanceInv
  <1>1. InstanceShapes'
    BY SMTT(30) DEF callVars, entryVars, svcVars, Load, Called, Goes, NewEntry, InstanceShapes, OpSet,
           AtSet, DeferredSet, LoaderSet, DisposalIsOfLoaded, OlderAreFinished
  <1>2. LoaderMatches'
    BY <1>1
    DEF callVars, entryVars, svcVars, Load, Called, Goes, NewEntry, LoaderMatches, Busy,
        CacheIsNewest, InstanceShapes
  <1>3. CacheIsNewest'
    BY <1>1
    DEF callVars, entryVars, svcVars, Load, Called, Goes, NewEntry, CacheIsNewest,
        LoaderMatches, Busy, OlderAreFinished, Finished, DisposalIsOfLoaded, InstanceShapes
  <1>4. OlderAreFinished'
    BY <1>1
       DEF callVars, entryVars, svcVars, Load, Called, Goes, NewEntry, OlderAreFinished,
           LoaderMatches, CacheIsNewest, DisposalIsOfLoaded, Busy, Finished, InstanceShapes,
           LoaderSet, DeferredSet
  <1>5. ReplacedIsWaitedFor'
    <2>1. UNCHANGED gone
      BY DEF Load, svcVars
    <2>2. CASE cache # None
      BY <2>1, <2>2 DEF Load, entryVars, ReplacedIsWaitedFor, Finished
    <2>3. CASE cache = None
      <3>1. /\ cache' = c /\ deferred' = [deferred EXCEPT ![c] = "open"]
            /\ loader' = [loader EXCEPT ![c] = "boot"] /\ prev' = [prev EXCEPT ![c] = cache]
            /\ deferred[c] = "none" /\ loader[c] = "none"
        BY <2>3 DEF Load, Called, NewEntry, DisposalIsOfLoaded, LoaderMatches
      <3>2. \A e \in Calls : e \in gone => Finished(e)'
        BY <3>1 DEF ReplacedIsWaitedFor, Finished, InstanceShapes
      <3>3. ASSUME NEW e \in Calls, deferred'[e] \in {"open", "ok"}, e \notin gone, cache' # e
            PROVE  \E f \in Calls : loader'[f] = "previous" /\ prev'[f] = e
        <4>1. e # c /\ deferred[e] \in {"open", "ok"} /\ cache # e
          BY <2>3, <3>1, <3>3 DEF InstanceShapes
        <4>2. PICK f \in Calls : loader[f] = "previous" /\ prev[f] = e
          BY <3>3, <4>1 DEF ReplacedIsWaitedFor
        <4> QED
          BY <3>1, <4>2 DEF InstanceShapes
      <3> QED
        BY <2>1, <3>2, <3>3 DEF ReplacedIsWaitedFor
    <2> QED
      BY <2>2, <2>3
  <1>6. DisposalIsOfLoaded'
    BY <1>1
    DEF callVars, entryVars, svcVars, Load, Called, Goes, NewEntry, DisposalIsOfLoaded,
        LoaderMatches, Busy, Finished, CacheIsNewest, InstanceShapes
  <1>7. ServicesInv'
    BY <1>1
    DEF callVars, entryVars, svcVars, Load, Called, Goes, NewEntry, ServicesInv,
        ServicesHaveOwner, LoaderMatches, CacheIsNewest, OlderAreFinished, ReplacedIsWaitedFor,
        DisposalIsOfLoaded, Busy, Finished, InstanceShapes
  <1> QED
    BY <1>1, <1>2, <1>3, <1>4, <1>5, <1>6, <1>7

LEMMA ReloadInv ==
    ASSUME InstanceInv, NEW c \in Calls, Reload(c)
    PROVE  InstanceInv'
  <1> USE InstanceAssumption DEF InstanceInv
  <1>1. InstanceShapes'
    BY DEF callVars, entryVars, svcVars, Reload, Called, Goes, NewEntry, InstanceShapes, OpSet,
           AtSet, DeferredSet, LoaderSet, DisposalIsOfLoaded, OlderAreFinished
  <1>2. LoaderMatches'
    BY <1>1
    DEF callVars, entryVars, svcVars, Reload, Called, Goes, NewEntry, LoaderMatches, Busy,
        CacheIsNewest, InstanceShapes
  <1>3. CacheIsNewest'
    BY <1>1
    DEF callVars, entryVars, svcVars, Reload, Called, Goes, NewEntry, CacheIsNewest,
        LoaderMatches, Busy, OlderAreFinished, Finished, DisposalIsOfLoaded, InstanceShapes
  <1>4. OlderAreFinished'
    BY <1>1
       DEF callVars, entryVars, svcVars, Reload, Called, Goes, NewEntry, OlderAreFinished,
           LoaderMatches, CacheIsNewest, DisposalIsOfLoaded, Busy, Finished, InstanceShapes,
           LoaderSet, DeferredSet
  <1>5. ReplacedIsWaitedFor'
    <2>1. /\ cache' = c /\ deferred' = [deferred EXCEPT ![c] = "open"]
          /\ loader' = [loader EXCEPT ![c] = IF cache = None THEN "boot" ELSE "previous"]
          /\ prev' = [prev EXCEPT ![c] = cache]
          /\ deferred[c] = "none" /\ loader[c] = "none" /\ gone' = gone
      BY DEF Reload, Called, NewEntry, DisposalIsOfLoaded, LoaderMatches, svcVars
    <2>2. \A e \in Calls : e \in gone => Finished(e)'
      BY <2>1 DEF ReplacedIsWaitedFor, Finished, InstanceShapes
    <2>3. ASSUME NEW e \in Calls, deferred'[e] \in {"open", "ok"}, e \notin gone, cache' # e
          PROVE  \E f \in Calls : loader'[f] = "previous" /\ prev'[f] = e
      <3>1. e # c /\ deferred[e] \in {"open", "ok"}
        BY <2>1, <2>3 DEF InstanceShapes
      <3>2. CASE cache = e
        BY <2>1, <3>2 DEF InstanceShapes
      <3>3. CASE cache # e
        <4>1. PICK f \in Calls : loader[f] = "previous" /\ prev[f] = e
          BY <2>3, <3>1, <3>3 DEF ReplacedIsWaitedFor
        <4> QED
          BY <2>1, <4>1 DEF InstanceShapes
      <3> QED
        BY <3>2, <3>3
    <2> QED
      BY <2>1, <2>2, <2>3 DEF ReplacedIsWaitedFor
  <1>6. DisposalIsOfLoaded'
    BY <1>1
    DEF callVars, entryVars, svcVars, Reload, Called, Goes, NewEntry, DisposalIsOfLoaded,
        LoaderMatches, Busy, Finished, CacheIsNewest, InstanceShapes
  <1>7. ServicesInv'
    BY <1>1
    DEF callVars, entryVars, svcVars, Reload, Called, Goes, NewEntry, ServicesInv,
        ServicesHaveOwner, LoaderMatches, CacheIsNewest, OlderAreFinished, ReplacedIsWaitedFor,
        DisposalIsOfLoaded, Busy, Finished, InstanceShapes
  <1> QED
    BY <1>1, <1>2, <1>3, <1>4, <1>5, <1>6, <1>7

LEMMA LoaderDisposesInv ==
    ASSUME InstanceInv, NEW c \in Calls, LoaderDisposes(c)
    PROVE  InstanceInv'
  <1> USE InstanceAssumption DEF InstanceInv
  <1>1. InstanceShapes'
    BY DEF callVars, entryVars, svcVars, LoaderDisposes, RunDisposers, InstanceShapes, OpSet,
           AtSet, DeferredSet, LoaderSet, DisposalIsOfLoaded, OlderAreFinished
  <1>2. LoaderMatches'
    BY <1>1
    DEF callVars, entryVars, svcVars, LoaderDisposes, RunDisposers, LoaderMatches, Busy,
        CacheIsNewest, InstanceShapes
  <1>3. CacheIsNewest'
    BY <1>1
    DEF callVars, entryVars, svcVars, LoaderDisposes, RunDisposers, CacheIsNewest,
        LoaderMatches, Busy, OlderAreFinished, Finished, DisposalIsOfLoaded, InstanceShapes
  <1>4. OlderAreFinished'
    <2>1. /\ prev[c] \in Calls /\ deferred[prev[c]] # "none"
          /\ born[c] = born[prev[c]] + 1
          /\ Finished(prev[c])
      BY DEF LoaderDisposes, OlderAreFinished
    <2>2. /\ \A e \in Calls : loader'[e] = IF e = c THEN "disposers" ELSE loader[e]
          /\ UNCHANGED <<deferred, prev, born>>
      BY DEF LoaderDisposes, InstanceShapes
    <2>3. \A f \in Calls : deferred[f] # "none" /\ born[f] < born[c] => Finished(f)
      <3> SUFFICES ASSUME NEW f \in Calls, deferred[f] # "none", born[f] < born[c]
                   PROVE  Finished(f)
        OBVIOUS
      <3>1. born[f] = born[prev[c]] \/ born[f] < born[prev[c]]
        BY <2>1 DEF InstanceShapes
      <3>2. CASE born[f] = born[prev[c]]
        BY <2>1, <3>2 DEF LoaderMatches
      <3>3. CASE born[f] < born[prev[c]]
        <4>1. loader[prev[c]] = "done"
          BY <2>1 DEF LoaderMatches, Finished, Busy, InstanceShapes, LoaderSet, DeferredSet
        <4> QED
          BY <2>1, <3>3, <4>1 DEF OlderAreFinished
      <3> QED
        BY <3>1, <3>2, <3>3
    <2> QED
      BY <2>2, <2>3 DEF OlderAreFinished, Finished
  <1>5. ReplacedIsWaitedFor'
    BY <1>1
    DEF callVars, entryVars, svcVars, LoaderDisposes, RunDisposers, ReplacedIsWaitedFor,
        LoaderMatches, CacheIsNewest, OlderAreFinished, Busy, DisposalIsOfLoaded, Finished,
        InstanceShapes
  <1>6. DisposalIsOfLoaded'
    BY <1>1
    DEF callVars, entryVars, svcVars, LoaderDisposes, RunDisposers, DisposalIsOfLoaded,
        LoaderMatches, Busy, Finished, CacheIsNewest, InstanceShapes
  <1>7. ServicesInv'
    BY <1>1
    DEF callVars, entryVars, svcVars, LoaderDisposes, RunDisposers, ServicesInv,
        ServicesHaveOwner, LoaderMatches, CacheIsNewest, OlderAreFinished, ReplacedIsWaitedFor,
        DisposalIsOfLoaded, Busy, Finished, InstanceShapes
  <1> QED
    BY <1>1, <1>2, <1>3, <1>4, <1>5, <1>6, <1>7

LEMMA LoaderBootsInv ==
    ASSUME InstanceInv, NEW c \in Calls, LoaderBoots(c)
    PROVE  InstanceInv'
  <1> USE InstanceAssumption DEF InstanceInv
  <1>1. InstanceShapes'
    BY DEF callVars, entryVars, svcVars, LoaderBoots, InstanceShapes, OpSet, AtSet, DeferredSet,
           LoaderSet, DisposalIsOfLoaded, OlderAreFinished
  <1>2. LoaderMatches'
    BY <1>1
    DEF callVars, entryVars, svcVars, LoaderBoots, LoaderMatches, Busy, CacheIsNewest,
        InstanceShapes
  <1>3. CacheIsNewest'
    BY <1>1
    DEF callVars, entryVars, svcVars, LoaderBoots, CacheIsNewest, LoaderMatches, Busy,
        OlderAreFinished, Finished, DisposalIsOfLoaded, InstanceShapes
  <1>4. OlderAreFinished'
    BY <1>1
    DEF callVars, entryVars, svcVars, LoaderBoots, OlderAreFinished, LoaderMatches,
        CacheIsNewest, DisposalIsOfLoaded, Busy, Finished, InstanceShapes
  <1>5. ReplacedIsWaitedFor'
    BY <1>1
    DEF callVars, entryVars, svcVars, LoaderBoots, ReplacedIsWaitedFor, LoaderMatches,
        CacheIsNewest, OlderAreFinished, Busy, DisposalIsOfLoaded, Finished, InstanceShapes
  <1>6. DisposalIsOfLoaded'
    BY <1>1
    DEF callVars, entryVars, svcVars, LoaderBoots, DisposalIsOfLoaded, LoaderMatches, Busy,
        Finished, CacheIsNewest, InstanceShapes
  <1>7. ServicesInv'
    BY <1>1
    DEF callVars, entryVars, svcVars, LoaderBoots, ServicesInv, ServicesHaveOwner,
        LoaderMatches, CacheIsNewest, OlderAreFinished, ReplacedIsWaitedFor,
        DisposalIsOfLoaded, Busy, Finished, InstanceShapes
  <1> QED
    BY <1>1, <1>2, <1>3, <1>4, <1>5, <1>6, <1>7

LEMMA BootServicesInv ==
    ASSUME InstanceInv, NEW c \in Calls, BootServices(c)
    PROVE  InstanceInv'
  <1> USE InstanceAssumption DEF InstanceInv
  <1>1. InstanceShapes'
    BY DEF callVars, entryVars, svcVars, BootServices, InstanceShapes, OpSet, AtSet, DeferredSet,
           LoaderSet, DisposalIsOfLoaded, OlderAreFinished
  <1>2. LoaderMatches'
    BY <1>1
    DEF callVars, entryVars, svcVars, BootServices, LoaderMatches, Busy, CacheIsNewest,
        InstanceShapes
  <1>3. CacheIsNewest'
    BY <1>1
    DEF callVars, entryVars, svcVars, BootServices, CacheIsNewest, LoaderMatches, Busy,
        OlderAreFinished, Finished, DisposalIsOfLoaded, InstanceShapes
  <1>4. OlderAreFinished'
    BY <1>1
    DEF callVars, entryVars, svcVars, BootServices, OlderAreFinished, LoaderMatches,
        CacheIsNewest, DisposalIsOfLoaded, Busy, Finished, InstanceShapes
  <1>5. ReplacedIsWaitedFor'
    BY <1>1
    DEF callVars, entryVars, svcVars, BootServices, ReplacedIsWaitedFor, LoaderMatches,
        CacheIsNewest, OlderAreFinished, Busy, DisposalIsOfLoaded, Finished, InstanceShapes
  <1>6. DisposalIsOfLoaded'
    BY <1>1
    DEF callVars, entryVars, svcVars, BootServices, DisposalIsOfLoaded, LoaderMatches, Busy,
        Finished, CacheIsNewest, InstanceShapes
  <1>7. ServicesInv'
    BY <1>1
    DEF callVars, entryVars, svcVars, BootServices, ServicesInv, ServicesHaveOwner,
        LoaderMatches, CacheIsNewest, OlderAreFinished, ReplacedIsWaitedFor,
        DisposalIsOfLoaded, Busy, Finished, InstanceShapes
  <1> QED
    BY <1>1, <1>2, <1>3, <1>4, <1>5, <1>6, <1>7

LEMMA BootEndsInv ==
    ASSUME InstanceInv, NEW c \in Calls, NEW how \in {"ok", "failed"}, BootEnds(c, how)
    PROVE  InstanceInv'
  <1> USE InstanceAssumption DEF InstanceInv
  <1>1. InstanceShapes'
    BY DEF callVars, entryVars, svcVars, BootEnds, InstanceShapes, OpSet, AtSet, DeferredSet,
           LoaderSet, DisposalIsOfLoaded, OlderAreFinished
  <1>2. LoaderMatches'
    BY <1>1
    DEF callVars, entryVars, svcVars, BootEnds, LoaderMatches, Busy, CacheIsNewest,
        InstanceShapes
  <1>3. CacheIsNewest'
    BY <1>1
    DEF callVars, entryVars, svcVars, BootEnds, CacheIsNewest, LoaderMatches, Busy,
        OlderAreFinished, Finished, DisposalIsOfLoaded, InstanceShapes, LoaderSet, DeferredSet
  <1>4. OlderAreFinished'
    BY <1>1
    DEF callVars, entryVars, svcVars, BootEnds, OlderAreFinished, LoaderMatches, CacheIsNewest,
        DisposalIsOfLoaded, Busy, Finished, InstanceShapes
  <1>5. ReplacedIsWaitedFor'
    BY <1>1
    DEF callVars, entryVars, svcVars, BootEnds, ReplacedIsWaitedFor, LoaderMatches,
        CacheIsNewest, OlderAreFinished, Busy, DisposalIsOfLoaded, Finished, InstanceShapes
  <1>6. DisposalIsOfLoaded'
    BY <1>1
    DEF callVars, entryVars, svcVars, BootEnds, DisposalIsOfLoaded, LoaderMatches, Busy,
        Finished, CacheIsNewest, InstanceShapes
  <1>7. ServicesInv'
    BY <1>1
    DEF callVars, entryVars, svcVars, BootEnds, ServicesInv, ServicesHaveOwner, LoaderMatches,
        CacheIsNewest, OlderAreFinished, ReplacedIsWaitedFor, DisposalIsOfLoaded, Busy,
        Finished, InstanceShapes
  <1> QED
    BY <1>1, <1>2, <1>3, <1>4, <1>5, <1>6, <1>7

LEMMA LoadReturnsInv ==
    ASSUME InstanceInv, NEW c \in Calls, LoadReturns(c)
    PROVE  InstanceInv'
  <1> USE InstanceAssumption DEF InstanceInv
  <1>1. InstanceShapes'
    BY DEF callVars, entryVars, svcVars, LoadReturns, InstanceShapes, OpSet, AtSet, DeferredSet,
           LoaderSet, DisposalIsOfLoaded, OlderAreFinished
  <1>2. LoaderMatches'
    BY <1>1
    DEF callVars, entryVars, svcVars, LoadReturns, LoaderMatches, Busy, CacheIsNewest,
        InstanceShapes
  <1>3. CacheIsNewest'
    BY <1>1
    DEF callVars, entryVars, svcVars, LoadReturns, CacheIsNewest, LoaderMatches, Busy,
        OlderAreFinished, Finished, DisposalIsOfLoaded, InstanceShapes
  <1>4. OlderAreFinished'
    BY <1>1
    DEF callVars, entryVars, svcVars, LoadReturns, OlderAreFinished, LoaderMatches,
        CacheIsNewest, DisposalIsOfLoaded, Busy, Finished, InstanceShapes
  <1>5. ReplacedIsWaitedFor'
    BY <1>1
    DEF callVars, entryVars, svcVars, LoadReturns, ReplacedIsWaitedFor, LoaderMatches,
        CacheIsNewest, OlderAreFinished, Busy, DisposalIsOfLoaded, Finished, InstanceShapes
  <1>6. DisposalIsOfLoaded'
    BY <1>1
    DEF callVars, entryVars, svcVars, LoadReturns, DisposalIsOfLoaded, LoaderMatches, Busy,
        Finished, CacheIsNewest, InstanceShapes
  <1>7. ServicesInv'
    BY <1>1
    DEF callVars, entryVars, svcVars, LoadReturns, ServicesInv, ServicesHaveOwner,
        LoaderMatches, CacheIsNewest, OlderAreFinished, ReplacedIsWaitedFor,
        DisposalIsOfLoaded, Busy, Finished, InstanceShapes
  <1> QED
    BY <1>1, <1>2, <1>3, <1>4, <1>5, <1>6, <1>7

LEMMA UseInv ==
    ASSUME InstanceInv, NEW c \in Calls, Use(c)
    PROVE  InstanceInv'
  <1> USE InstanceAssumption DEF InstanceInv
  <1>1. InstanceShapes'
    BY DEF callVars, entryVars, svcVars, Use, InstanceShapes, OpSet, AtSet, DeferredSet,
           LoaderSet, DisposalIsOfLoaded, OlderAreFinished
  <1>2. LoaderMatches'
    BY <1>1
    DEF callVars, entryVars, svcVars, Use, LoaderMatches, Busy, CacheIsNewest, InstanceShapes
  <1>3. CacheIsNewest'
    BY <1>1
    DEF callVars, entryVars, svcVars, Use, CacheIsNewest, LoaderMatches, Busy,
        OlderAreFinished, Finished, DisposalIsOfLoaded, InstanceShapes
  <1>4. OlderAreFinished'
    BY <1>1
    DEF callVars, entryVars, svcVars, Use, OlderAreFinished, LoaderMatches, CacheIsNewest,
        DisposalIsOfLoaded, Busy, Finished, InstanceShapes
  <1>5. ReplacedIsWaitedFor'
    BY <1>1
    DEF callVars, entryVars, svcVars, Use, ReplacedIsWaitedFor, LoaderMatches, CacheIsNewest,
        OlderAreFinished, Busy, DisposalIsOfLoaded, Finished, InstanceShapes
  <1>6. DisposalIsOfLoaded'
    BY <1>1
    DEF callVars, entryVars, svcVars, Use, DisposalIsOfLoaded, LoaderMatches, Busy, Finished,
        CacheIsNewest, InstanceShapes
  <1>7. ServicesInv'
    BY <1>1
    DEF callVars, entryVars, svcVars, Use, ServicesInv, ServicesHaveOwner, LoaderMatches,
        CacheIsNewest, OlderAreFinished, ReplacedIsWaitedFor, DisposalIsOfLoaded, Busy,
        Finished, InstanceShapes
  <1> QED
    BY <1>1, <1>2, <1>3, <1>4, <1>5, <1>6, <1>7

LEMMA DisposeInv ==
    ASSUME InstanceInv, NEW c \in Calls, NEW e \in Calls, Dispose(c, e)
    PROVE  InstanceInv'
  <1> USE InstanceAssumption DEF InstanceInv
  <1>1. InstanceShapes'
    BY SMTT(30) DEF callVars, entryVars, svcVars, Dispose, Called, Goes, RunDisposers, InstanceShapes,
           OpSet, AtSet, DeferredSet, LoaderSet, DisposalIsOfLoaded, OlderAreFinished
  <1>2. LoaderMatches'
    BY <1>1
    DEF callVars, entryVars, svcVars, Dispose, Called, Goes, RunDisposers, LoaderMatches, Busy,
        CacheIsNewest, InstanceShapes
  <1>3. CacheIsNewest'
    BY <1>1
    DEF callVars, entryVars, svcVars, Dispose, Called, Goes, RunDisposers, CacheIsNewest,
        LoaderMatches, Busy, OlderAreFinished, Finished, DisposalIsOfLoaded, InstanceShapes
  <1>4. OlderAreFinished'
    BY <1>1
    DEF callVars, entryVars, svcVars, Dispose, Called, Goes, RunDisposers, OlderAreFinished,
        LoaderMatches, CacheIsNewest, DisposalIsOfLoaded, Busy, Finished, InstanceShapes
  <1>5. ReplacedIsWaitedFor'
    BY <1>1
    DEF callVars, entryVars, svcVars, Dispose, Called, Goes, RunDisposers, ReplacedIsWaitedFor,
        LoaderMatches, CacheIsNewest, OlderAreFinished, Busy, DisposalIsOfLoaded, Finished,
        InstanceShapes
  <1>6. DisposalIsOfLoaded'
    BY <1>1
    DEF callVars, entryVars, svcVars, Dispose, Called, Goes, RunDisposers, DisposalIsOfLoaded,
        LoaderMatches, Busy, Finished, CacheIsNewest, InstanceShapes
  <1>7. ServicesInv'
    BY <1>1
    DEF callVars, entryVars, svcVars, Dispose, Called, Goes, RunDisposers, ServicesInv,
        ServicesHaveOwner, LoaderMatches, CacheIsNewest, OlderAreFinished, ReplacedIsWaitedFor,
        DisposalIsOfLoaded, Busy, Finished, InstanceShapes
  <1> QED
    BY <1>1, <1>2, <1>3, <1>4, <1>5, <1>6, <1>7

LEMMA DisposeGoesOnInv ==
    ASSUME InstanceInv, NEW c \in Calls, DisposeGoesOn(c)
    PROVE  InstanceInv'
  <1> USE InstanceAssumption DEF InstanceInv
  <1>1. InstanceShapes'
    BY DEF callVars, entryVars, svcVars, DisposeGoesOn, DisposeEntry, Goes, RunDisposers,
        InstanceShapes, OpSet, AtSet, DeferredSet, LoaderSet, DisposalIsOfLoaded, OlderAreFinished
  <1>2. LoaderMatches'
    BY <1>1
    DEF callVars, entryVars, svcVars, DisposeGoesOn, DisposeEntry, Goes, RunDisposers,
        LoaderMatches, Busy, CacheIsNewest, InstanceShapes
  <1>3. CacheIsNewest'
    BY <1>1
    DEF callVars, entryVars, svcVars, DisposeGoesOn, DisposeEntry, Goes, RunDisposers,
        CacheIsNewest, LoaderMatches, Busy, OlderAreFinished, Finished, DisposalIsOfLoaded,
        InstanceShapes
  <1>4. OlderAreFinished'
    BY <1>1
    DEF callVars, entryVars, svcVars, DisposeGoesOn, DisposeEntry, Goes, RunDisposers,
        OlderAreFinished, LoaderMatches, CacheIsNewest, DisposalIsOfLoaded, Busy, Finished,
        InstanceShapes
  <1>5. ReplacedIsWaitedFor'
    BY <1>1
    DEF callVars, entryVars, svcVars, DisposeGoesOn, DisposeEntry, Goes, RunDisposers,
        ReplacedIsWaitedFor, LoaderMatches, CacheIsNewest, OlderAreFinished, Busy,
        DisposalIsOfLoaded, Finished, InstanceShapes
  <1>6. DisposalIsOfLoaded'
    BY <1>1
    DEF callVars, entryVars, svcVars, DisposeGoesOn, DisposeEntry, Goes, RunDisposers,
        DisposalIsOfLoaded, LoaderMatches, Busy, Finished, CacheIsNewest, InstanceShapes
  <1>7. ServicesInv'
    BY <1>1
    DEF callVars, entryVars, svcVars, DisposeGoesOn, DisposeEntry, Goes, RunDisposers,
        ServicesInv, ServicesHaveOwner, LoaderMatches, CacheIsNewest, OlderAreFinished,
        ReplacedIsWaitedFor, DisposalIsOfLoaded, Busy, Finished, InstanceShapes
  <1> QED
    BY <1>1, <1>2, <1>3, <1>4, <1>5, <1>6, <1>7

LEMMA DisposeAllInv ==
    ASSUME InstanceInv, NEW c \in Calls, DisposeAll(c)
    PROVE  InstanceInv'
  <1> USE InstanceAssumption DEF InstanceInv
  <1>1. InstanceShapes'
    BY DEF callVars, entryVars, svcVars, DisposeAll, Called, Goes, InstanceShapes, OpSet, AtSet,
           DeferredSet, LoaderSet, DisposalIsOfLoaded, OlderAreFinished
  <1>2. LoaderMatches'
    BY <1>1
    DEF callVars, entryVars, svcVars, DisposeAll, Called, Goes, LoaderMatches, Busy,
        CacheIsNewest, InstanceShapes
  <1>3. CacheIsNewest'
    BY <1>1
    DEF callVars, entryVars, svcVars, DisposeAll, Called, Goes, CacheIsNewest, LoaderMatches,
        Busy, OlderAreFinished, Finished, DisposalIsOfLoaded, InstanceShapes
  <1>4. OlderAreFinished'
    BY <1>1
    DEF callVars, entryVars, svcVars, DisposeAll, Called, Goes, OlderAreFinished,
        LoaderMatches, CacheIsNewest, DisposalIsOfLoaded, Busy, Finished, InstanceShapes
  <1>5. ReplacedIsWaitedFor'
    BY <1>1
    DEF callVars, entryVars, svcVars, DisposeAll, Called, Goes, ReplacedIsWaitedFor,
        LoaderMatches, CacheIsNewest, OlderAreFinished, Busy, DisposalIsOfLoaded, Finished,
        InstanceShapes
  <1>6. DisposalIsOfLoaded'
    BY <1>1
    DEF callVars, entryVars, svcVars, DisposeAll, Called, Goes, DisposalIsOfLoaded,
        LoaderMatches, Busy, Finished, CacheIsNewest, InstanceShapes
  <1>7. ServicesInv'
    BY <1>1
    DEF callVars, entryVars, svcVars, DisposeAll, Called, Goes, ServicesInv, ServicesHaveOwner,
        LoaderMatches, CacheIsNewest, OlderAreFinished, ReplacedIsWaitedFor,
        DisposalIsOfLoaded, Busy, Finished, InstanceShapes
  <1> QED
    BY <1>1, <1>2, <1>3, <1>4, <1>5, <1>6, <1>7

LEMMA DisposeAllGoesOnInv ==
    ASSUME InstanceInv, NEW c \in Calls, DisposeAllGoesOn(c)
    PROVE  InstanceInv'
  <1> USE InstanceAssumption DEF InstanceInv
  <1>1. InstanceShapes'
    BY DEF svcVars, DisposeAllGoesOn, DisposeEntry, Goes, RunDisposers, InstanceShapes, OpSet,
           AtSet, DeferredSet, LoaderSet, DisposalIsOfLoaded
  <1>2. LoaderMatches'
    BY <1>1
    DEF callVars, entryVars, svcVars, DisposeAllGoesOn, DisposeEntry, Goes, RunDisposers,
        LoaderMatches, Busy, CacheIsNewest, InstanceShapes
  <1>3. CacheIsNewest'
    BY <1>1
    DEF callVars, entryVars, svcVars, DisposeAllGoesOn, DisposeEntry, Goes, RunDisposers,
        CacheIsNewest, LoaderMatches, Busy, OlderAreFinished, Finished, DisposalIsOfLoaded,
        InstanceShapes
  <1>4. OlderAreFinished'
    BY <1>1
    DEF callVars, entryVars, svcVars, DisposeAllGoesOn, DisposeEntry, Goes, RunDisposers,
        OlderAreFinished, LoaderMatches, CacheIsNewest, DisposalIsOfLoaded, Busy, Finished,
        InstanceShapes
  <1>5. ReplacedIsWaitedFor'
    BY <1>1
    DEF callVars, entryVars, svcVars, DisposeAllGoesOn, DisposeEntry, Goes, RunDisposers,
        ReplacedIsWaitedFor, LoaderMatches, CacheIsNewest, OlderAreFinished, Busy,
        DisposalIsOfLoaded, Finished, InstanceShapes
  <1>6. DisposalIsOfLoaded'
    BY <1>1
    DEF callVars, entryVars, svcVars, DisposeAllGoesOn, DisposeEntry, Goes, RunDisposers,
        DisposalIsOfLoaded, LoaderMatches, Busy, Finished, CacheIsNewest, InstanceShapes
  <1>7. ServicesInv'
    BY <1>1
    DEF callVars, entryVars, svcVars, DisposeAllGoesOn, DisposeEntry, Goes, RunDisposers,
        ServicesInv, ServicesHaveOwner, LoaderMatches, CacheIsNewest, OlderAreFinished,
        ReplacedIsWaitedFor, DisposalIsOfLoaded, Busy, Finished, InstanceShapes
  <1> QED
    BY <1>1, <1>2, <1>3, <1>4, <1>5, <1>6, <1>7

LEMMA DisposeAllJoinedInv ==
    ASSUME InstanceInv, NEW c \in Calls, DisposeAllJoined(c)
    PROVE  InstanceInv'
  <1> USE InstanceAssumption DEF InstanceInv
  <1>1. InstanceShapes'
    BY DEF callVars, entryVars, svcVars, DisposeAllJoined, InstanceShapes, OpSet, AtSet,
           DeferredSet, LoaderSet, DisposalIsOfLoaded, OlderAreFinished
  <1>2. LoaderMatches'
    BY <1>1
    DEF callVars, entryVars, svcVars, DisposeAllJoined, LoaderMatches, Busy, CacheIsNewest,
        InstanceShapes
  <1>3. CacheIsNewest'
    BY <1>1
    DEF callVars, entryVars, svcVars, DisposeAllJoined, CacheIsNewest, LoaderMatches, Busy,
        OlderAreFinished, Finished, DisposalIsOfLoaded, InstanceShapes
  <1>4. OlderAreFinished'
    BY <1>1
    DEF callVars, entryVars, svcVars, DisposeAllJoined, OlderAreFinished, LoaderMatches,
        CacheIsNewest, DisposalIsOfLoaded, Busy, Finished, InstanceShapes
  <1>5. ReplacedIsWaitedFor'
    BY <1>1
    DEF callVars, entryVars, svcVars, DisposeAllJoined, ReplacedIsWaitedFor, LoaderMatches,
        CacheIsNewest, OlderAreFinished, Busy, DisposalIsOfLoaded, Finished, InstanceShapes
  <1>6. DisposalIsOfLoaded'
    BY <1>1
    DEF callVars, entryVars, svcVars, DisposeAllJoined, DisposalIsOfLoaded, LoaderMatches,
        Busy, Finished, CacheIsNewest, InstanceShapes
  <1>7. ServicesInv'
    BY <1>1
    DEF callVars, entryVars, svcVars, DisposeAllJoined, ServicesInv, ServicesHaveOwner,
        LoaderMatches, CacheIsNewest, OlderAreFinished, ReplacedIsWaitedFor,
        DisposalIsOfLoaded, Busy, Finished, InstanceShapes
  <1> QED
    BY <1>1, <1>2, <1>3, <1>4, <1>5, <1>6, <1>7

LEMMA DisposeEndsInv ==
    ASSUME InstanceInv, NEW c \in Calls, DisposeEnds(c)
    PROVE  InstanceInv'
  <1> USE InstanceAssumption DEF InstanceInv
  <1>1. InstanceShapes'
    BY DEF callVars, entryVars, svcVars, DisposeEnds, InstanceShapes, OpSet, AtSet, DeferredSet,
           LoaderSet, DisposalIsOfLoaded, OlderAreFinished
  <1>2. LoaderMatches'
    BY <1>1
    DEF callVars, entryVars, svcVars, DisposeEnds, LoaderMatches, Busy, CacheIsNewest,
        InstanceShapes
  <1>3. CacheIsNewest'
    <2>1. /\ cache' = cache \/ (cache' = None /\ cache \in Calls /\ deferred[cache] = "ok")
          /\ UNCHANGED <<deferred, born, made>>
      BY DEF DisposeEnds, DisposalIsOfLoaded, InstanceShapes
    <2>2. CASE cache' = None /\ cache \in Calls /\ deferred[cache] = "ok"
      <3> SUFFICES ASSUME NEW e \in Calls, deferred[e] = "open" PROVE FALSE
        BY <2>1, <2>2 DEF CacheIsNewest
      <3>1. loader[cache] = "done" /\ born[cache] = made
        BY <2>2 DEF LoaderMatches, CacheIsNewest, InstanceShapes, LoaderSet, Busy
      <3>2. born[e] \in 1..made /\ born[e] # made
        BY <2>2, <3>1 DEF LoaderMatches
      <3>3. born[e] < born[cache]
        BY <3>1, <3>2 DEF InstanceShapes
      <3> QED
        BY <2>2, <3>1, <3>3 DEF OlderAreFinished, Finished
    <2> QED
      BY <2>1, <2>2 DEF CacheIsNewest
  <1>4. OlderAreFinished'
    BY <1>1
    DEF callVars, entryVars, svcVars, DisposeEnds, OlderAreFinished, LoaderMatches,
        CacheIsNewest, DisposalIsOfLoaded, Busy, Finished, InstanceShapes
  <1>5. ReplacedIsWaitedFor'
    BY <1>1
    DEF callVars, entryVars, svcVars, DisposeEnds, ReplacedIsWaitedFor, LoaderMatches,
        CacheIsNewest, OlderAreFinished, Busy, DisposalIsOfLoaded, Finished, InstanceShapes
  <1>6. DisposalIsOfLoaded'
    BY <1>1
    DEF callVars, entryVars, svcVars, DisposeEnds, DisposalIsOfLoaded, LoaderMatches, Busy,
        Finished, CacheIsNewest, InstanceShapes
  <1>7. ServicesInv'
    BY <1>1
    DEF callVars, entryVars, svcVars, DisposeEnds, ServicesInv, ServicesHaveOwner,
        LoaderMatches, CacheIsNewest, OlderAreFinished, ReplacedIsWaitedFor,
        DisposalIsOfLoaded, Busy, Finished, InstanceShapes
  <1> QED
    BY <1>1, <1>2, <1>3, <1>4, <1>5, <1>6, <1>7

LEMMA FinalizersEndInv ==
    ASSUME InstanceInv, NEW d \in Calls, FinalizersEnd(d)
    PROVE  InstanceInv'
  <1> USE InstanceAssumption DEF InstanceInv
  <1>1. InstanceShapes'
    BY DEF callVars, entryVars, svcVars, FinalizersEnd, InstanceShapes, OpSet, AtSet, DeferredSet,
           LoaderSet, DisposalIsOfLoaded, OlderAreFinished
  <1>2. LoaderMatches'
    BY <1>1
    DEF callVars, entryVars, svcVars, FinalizersEnd, LoaderMatches, Busy, CacheIsNewest,
        InstanceShapes
  <1>3. CacheIsNewest'
    BY <1>1
    DEF callVars, entryVars, svcVars, FinalizersEnd, CacheIsNewest, LoaderMatches, Busy,
        OlderAreFinished, Finished, DisposalIsOfLoaded, InstanceShapes
  <1>4. OlderAreFinished'
    BY <1>1
    DEF callVars, entryVars, svcVars, FinalizersEnd, OlderAreFinished, LoaderMatches,
        CacheIsNewest, DisposalIsOfLoaded, Busy, Finished, InstanceShapes
  <1>5. ReplacedIsWaitedFor'
    BY <1>1
    DEF callVars, entryVars, svcVars, FinalizersEnd, ReplacedIsWaitedFor, LoaderMatches,
        CacheIsNewest, OlderAreFinished, Busy, DisposalIsOfLoaded, Finished, InstanceShapes
  <1>6. DisposalIsOfLoaded'
    BY <1>1
    DEF callVars, entryVars, svcVars, FinalizersEnd, DisposalIsOfLoaded, LoaderMatches, Busy,
        Finished, CacheIsNewest, InstanceShapes
  <1>7. ServicesInv'
    BY <1>1
    DEF callVars, entryVars, svcVars, FinalizersEnd, ServicesInv, ServicesHaveOwner,
        LoaderMatches, CacheIsNewest, OlderAreFinished, ReplacedIsWaitedFor,
        DisposalIsOfLoaded, Busy, Finished, InstanceShapes
  <1> QED
    BY <1>1, <1>2, <1>3, <1>4, <1>5, <1>6, <1>7

LEMMA InstanceStepInv == InstanceInv /\ [InstanceNext]_instanceVars => InstanceInv'
  <1> SUFFICES ASSUME InstanceInv, [InstanceNext]_instanceVars PROVE InstanceInv'
    OBVIOUS
  <1>1. CASE UNCHANGED instanceVars
    BY <1>1
    DEF instanceVars, callVars, entryVars, svcVars, InstanceInv, InstanceShapes, LoaderMatches,
        CacheIsNewest, OlderAreFinished, ReplacedIsWaitedFor, DisposalIsOfLoaded, ServicesInv,
        ServicesHaveOwner, Finished
  <1>2. CASE Loaders
    BY <1>2, LoaderDisposesInv, LoaderBootsInv, BootServicesInv, BootEndsInv DEF Loaders
  <1>3. CASE Callers
    BY <1>3, LoadInv, ReloadInv, LoadReturnsInv, UseInv, DisposeInv, DisposeGoesOnInv,
       DisposeAllInv, DisposeAllGoesOnInv, DisposeAllJoinedInv, DisposeEndsInv DEF Callers
  <1>4. CASE \E d \in Calls : FinalizersEnd(d)
    BY <1>4, FinalizersEndInv
  <1> QED
    BY <1>1, <1>2, <1>3, <1>4 DEF InstanceNext

\* The inductive invariant: entries are loaded in the order they were made in,
\* each replaced one is waited for, and the state of services has an owner.
THEOREM InstanceInvHolds == InstanceSpec => []InstanceInv
  BY InstanceInitInv, InstanceStepInv, PTL DEF InstanceSpec

\* The state stays in its types.
THEOREM InstanceTypes == InstanceSpec => []InstanceTypeOK
  <1>1. InstanceInv => InstanceTypeOK
    BY ShapesAreTypes DEF InstanceInv
  <1> QED
    BY InstanceInvHolds, <1>1, PTL

\* However many loads, reloads and disposals overlap, bootstrap never runs twice
\* at a time for a directory.
THEOREM OneBoot == InstanceSpec => []OneBootAtATime
  <1>1. InstanceInv => OneBootAtATime
    <2> SUFFICES ASSUME InstanceInv, NEW e \in Calls, NEW f \in Calls,
                        loader[e] = "boot", loader[f] = "boot"
                 PROVE  e = f
      BY DEF OneBootAtATime
    <2>1. deferred[e] = "open" /\ deferred[f] = "open"
      BY DEF InstanceInv, LoaderMatches, Busy
    <2>2. ~(born[e] < born[f]) /\ ~(born[f] < born[e])
      BY <2>1 DEF InstanceInv, OlderAreFinished, Finished
    <2>3. born[e] = born[f]
      BY <2>2 DEF InstanceInv, InstanceShapes
    <2> QED
      BY <2>1, <2>3 DEF InstanceInv, LoaderMatches
  <1> QED
    BY InstanceInvHolds, <1>1, PTL

\* An entry leaves the cache of a directory empty only when its boot failed or
\* its own disposers were run.
THEOREM OnlyDisposed == InstanceSpec => OnlyDisposedLeave
  <1>1. InstanceInv /\ [InstanceNext]_instanceVars =>
          [cache # None /\ cache' = None =>
             deferred'[cache] = "failed" \/ (deferred[cache] = "ok" /\ cache \in gone)]_instanceVars
    <2> SUFFICES ASSUME InstanceInv, InstanceNext, cache # None, cache' = None
                 PROVE  deferred'[cache] = "failed" \/ (deferred[cache] = "ok" /\ cache \in gone)
      OBVIOUS
    <2>1. CASE \E c \in Calls, how \in {"ok", "failed"} : BootEnds(c, how)
      BY <2>1, InstanceAssumption DEF BootEnds, InstanceInv, InstanceShapes
    <2>2. CASE \E c \in Calls : DisposeEnds(c)
      BY <2>2 DEF DisposeEnds, InstanceInv, DisposalIsOfLoaded
    <2>3. CASE \E c \in Calls : DisposeGoesOn(c) \/ DisposeAllGoesOn(c)
      BY <2>3 DEF DisposeGoesOn, DisposeAllGoesOn, DisposeEntry, InstanceInv, CacheIsNewest
    <2>4. CASE \E c \in Calls : Load(c) \/ Reload(c)
      BY <2>4, InstanceAssumption DEF Load, Reload, NewEntry, entryVars
    <2> QED
      BY <2>1, <2>2, <2>3, <2>4
      DEF InstanceNext, Loaders, Callers, LoaderDisposes, LoaderBoots, BootServices,
          LoadReturns,
          Use, Dispose, DisposeAll, DisposeAllJoined, FinalizersEnd, entryVars
  <1> QED
    BY InstanceInvHolds, <1>1, PTL DEF InstanceSpec, OnlyDisposedLeave

\* The state of the services is the cached instance's, or about to be dropped,
\* or one of the two leftovers that ServicesHaveOwner names.
THEOREM ServicesOwned == InstanceSpec => []ServicesHaveOwner
  <1>1. InstanceInv => ServicesHaveOwner
    BY DEF InstanceInv, ServicesInv
  <1> QED
    BY InstanceInvHolds, <1>1, PTL

-----------------------------------------------------------------------------
\* What a call does, and what is left of it, is what it was called for.
OpsMatch == \A c \in Calls :
    /\ at[c] = "new" => op[c] = None
    /\ deferred[c] # "none" => op[c] \in {"load", "reload"}
    /\ loader[c] \in {"previous", "disposers"} => op[c] = "reload"
    /\ at[c] = "disposing" => op[c] \in {"dispose", "disposeAll"}
    /\ awaits[c] # None => loader[c] = "disposers" \/ at[c] = "disposing"

\* An instance that is not cached any more, and did not fail, was disposed by somebody.
LeftIsDisposed ==
    \A e \in Calls : deferred[e] \in {"open", "ok"} /\ cache # e => \E c \in Calls : Disposes(c)

Alone == \A c, d \in Calls : Disposes(c) /\ Disposes(d) => c = d

\* While a single call disposes, the entry stays where it is.
AloneKeepsCache ==
    Alone => \A d \in Calls : at[d] = "disposing" /\ awaits[d] # None =>
                 cache # None /\ deferred[cache] = "ok"

DisposersInv == OpsMatch /\ LeftIsDisposed /\ AloneKeepsCache

\* A call that disposes does so for ever, so who is alone was alone before.
LEMMA AloneBefore ==
    ASSUME InstanceShapes, OpsMatch, NEW c \in Calls, NEW what,
           op' = op \/ Called(c, what)
    PROVE  /\ \A d \in Calls : Disposes(d) => Disposes(d)'
           /\ Alone' => Alone
  <1>1. \A d \in Calls : Disposes(d) => op'[d] = op[d]
    BY InstanceAssumption DEF InstanceShapes, OpsMatch, Called, Disposes
  <1>2. \A d \in Calls : Disposes(d) => Disposes(d)'
    BY <1>1 DEF Disposes
  <1> QED
    BY <1>2 DEF Alone

LEMMA LoadDisposers ==
    ASSUME InstanceInv, DisposersInv, NEW c \in Calls, Load(c)
    PROVE  DisposersInv'
  <1>1. OpsMatch'
    BY InstanceAssumption
       DEF InstanceInv, DisposersInv, callVars, entryVars, svcVars, Load, Called, Goes, NewEntry,
           OpsMatch, LoaderMatches, Busy, Finished, InstanceShapes
  <1>2. /\ \A x \in Calls : Disposes(x) => Disposes(x)'
        /\ Alone' => Alone
    <2>1. op' = op \/ Called(c, "load")
      BY DEF callVars, entryVars, svcVars, Load, Called, Goes, NewEntry
    <2> QED
      BY <2>1, AloneBefore, InstanceAssumption DEF InstanceInv, DisposersInv
  <1>3. LeftIsDisposed'
    BY <1>2, InstanceAssumption
       DEF InstanceInv, DisposersInv, callVars, entryVars, svcVars, Load, Called, Goes, NewEntry,
           LeftIsDisposed, Disposes, CacheIsNewest, InstanceShapes
  <1>4. AloneKeepsCache'
    BY <1>2, InstanceAssumption
       DEF InstanceInv, DisposersInv, callVars, entryVars, svcVars, Load, Called, Goes, NewEntry,
           AloneKeepsCache, Alone, Disposes, OpsMatch, LeftIsDisposed, LoaderMatches,
           CacheIsNewest, Busy, InstanceShapes
  <1> QED
    BY <1>1, <1>3, <1>4 DEF DisposersInv

LEMMA ReloadDisposers ==
    ASSUME InstanceInv, DisposersInv, NEW c \in Calls, Reload(c)
    PROVE  DisposersInv'
  <1>1. OpsMatch'
    BY InstanceAssumption
       DEF InstanceInv, DisposersInv, callVars, entryVars, svcVars, Reload, Called, Goes,
           NewEntry, OpsMatch, LoaderMatches, Busy, Finished, InstanceShapes
  <1>2. /\ \A x \in Calls : Disposes(x) => Disposes(x)'
        /\ Alone' => Alone
    <2>1. op' = op \/ Called(c, "reload")
      BY DEF callVars, entryVars, svcVars, Reload, Called, Goes, NewEntry
    <2> QED
      BY <2>1, AloneBefore, InstanceAssumption DEF InstanceInv, DisposersInv
  <1>3. LeftIsDisposed'
    BY <1>2, InstanceAssumption
       DEF InstanceInv, DisposersInv, callVars, entryVars, svcVars, Reload, Called, Goes,
           NewEntry, LeftIsDisposed, Disposes, CacheIsNewest, InstanceShapes
  <1>4. AloneKeepsCache'
    BY <1>2, InstanceAssumption
       DEF InstanceInv, DisposersInv, callVars, entryVars, svcVars, Reload, Called, Goes,
           NewEntry, AloneKeepsCache, Alone, Disposes, OpsMatch, LeftIsDisposed, LoaderMatches,
           CacheIsNewest, Busy, InstanceShapes
  <1> QED
    BY <1>1, <1>3, <1>4 DEF DisposersInv

LEMMA LoaderDisposesDisposers ==
    ASSUME InstanceInv, DisposersInv, NEW c \in Calls, LoaderDisposes(c)
    PROVE  DisposersInv'
  <1>1. OpsMatch'
    BY InstanceAssumption
       DEF InstanceInv, DisposersInv, callVars, entryVars, svcVars, LoaderDisposes, RunDisposers,
           OpsMatch, LoaderMatches, Busy, Finished, InstanceShapes
  <1>2. /\ \A x \in Calls : Disposes(x) => Disposes(x)'
        /\ Alone' => Alone
    <2>1. op' = op \/ Called(c, "load")
      BY DEF callVars, entryVars, svcVars, LoaderDisposes, RunDisposers
    <2> QED
      BY <2>1, AloneBefore, InstanceAssumption DEF InstanceInv, DisposersInv
  <1>3. LeftIsDisposed'
    BY <1>2, InstanceAssumption
       DEF InstanceInv, DisposersInv, callVars, entryVars, svcVars, LoaderDisposes, RunDisposers,
           LeftIsDisposed, Disposes, CacheIsNewest, InstanceShapes
  <1>4. AloneKeepsCache'
    BY <1>2, InstanceAssumption
       DEF InstanceInv, DisposersInv, callVars, entryVars, svcVars, LoaderDisposes, RunDisposers,
           AloneKeepsCache, Alone, Disposes, OpsMatch, LeftIsDisposed, LoaderMatches,
           CacheIsNewest, Busy, InstanceShapes
  <1> QED
    BY <1>1, <1>3, <1>4 DEF DisposersInv

LEMMA LoaderBootsDisposers ==
    ASSUME InstanceInv, DisposersInv, NEW c \in Calls, LoaderBoots(c)
    PROVE  DisposersInv'
  <1>1. OpsMatch'
    BY InstanceAssumption
       DEF InstanceInv, DisposersInv, callVars, entryVars, svcVars, LoaderBoots, OpsMatch,
           LoaderMatches, Busy, Finished, InstanceShapes
  <1>2. /\ \A x \in Calls : Disposes(x) => Disposes(x)'
        /\ Alone' => Alone
    <2>1. op' = op \/ Called(c, "load")
      BY DEF callVars, entryVars, svcVars, LoaderBoots
    <2> QED
      BY <2>1, AloneBefore, InstanceAssumption DEF InstanceInv, DisposersInv
  <1>3. LeftIsDisposed'
    BY <1>2, InstanceAssumption
       DEF InstanceInv, DisposersInv, callVars, entryVars, svcVars, LoaderBoots, LeftIsDisposed,
           Disposes, CacheIsNewest, InstanceShapes
  <1>4. AloneKeepsCache'
    BY <1>2, InstanceAssumption
       DEF InstanceInv, DisposersInv, callVars, entryVars, svcVars, LoaderBoots, AloneKeepsCache,
           Alone, Disposes, OpsMatch, LeftIsDisposed, LoaderMatches, CacheIsNewest, Busy,
           InstanceShapes
  <1> QED
    BY <1>1, <1>3, <1>4 DEF DisposersInv

LEMMA BootServicesDisposers ==
    ASSUME InstanceInv, DisposersInv, NEW c \in Calls, BootServices(c)
    PROVE  DisposersInv'
  <1>1. OpsMatch'
    BY InstanceAssumption
       DEF InstanceInv, DisposersInv, callVars, entryVars, svcVars, BootServices, OpsMatch,
           LoaderMatches, Busy, Finished, InstanceShapes
  <1>2. /\ \A x \in Calls : Disposes(x) => Disposes(x)'
        /\ Alone' => Alone
    <2>1. op' = op \/ Called(c, "load")
      BY DEF callVars, entryVars, svcVars, BootServices
    <2> QED
      BY <2>1, AloneBefore, InstanceAssumption DEF InstanceInv, DisposersInv
  <1>3. LeftIsDisposed'
    BY <1>2, InstanceAssumption
       DEF InstanceInv, DisposersInv, callVars, entryVars, svcVars, BootServices, LeftIsDisposed,
           Disposes, CacheIsNewest, InstanceShapes
  <1>4. AloneKeepsCache'
    BY <1>2, InstanceAssumption
       DEF InstanceInv, DisposersInv, callVars, entryVars, svcVars, BootServices, AloneKeepsCache,
           Alone, Disposes, OpsMatch, LeftIsDisposed, LoaderMatches, CacheIsNewest, Busy,
           InstanceShapes
  <1> QED
    BY <1>1, <1>3, <1>4 DEF DisposersInv

LEMMA BootEndsDisposers ==
    ASSUME InstanceInv, DisposersInv, NEW c \in Calls, NEW how \in {"ok", "failed"}, BootEnds(c, how)
    PROVE  DisposersInv'
  <1>1. OpsMatch'
    BY InstanceAssumption
       DEF InstanceInv, DisposersInv, callVars, entryVars, svcVars, BootEnds, OpsMatch,
           LoaderMatches, Busy, Finished, InstanceShapes
  <1>2. /\ \A x \in Calls : Disposes(x) => Disposes(x)'
        /\ Alone' => Alone
    <2>1. op' = op \/ Called(c, "load")
      BY DEF callVars, entryVars, svcVars, BootEnds
    <2> QED
      BY <2>1, AloneBefore, InstanceAssumption DEF InstanceInv, DisposersInv
  <1>3. LeftIsDisposed'
    <2>1. /\ deferred[c] = "open"
          /\ \A e \in Calls : deferred'[e] = IF e = c THEN how ELSE deferred[e]
          /\ cache' = IF how = "failed" /\ cache = c THEN None ELSE cache
      BY DEF InstanceInv, InstanceShapes, LoaderMatches, Busy, BootEnds
    <2> QED
      BY <1>2, <2>1 DEF DisposersInv, LeftIsDisposed
  <1>4. AloneKeepsCache'
    BY <1>2, InstanceAssumption
       DEF InstanceInv, DisposersInv, callVars, entryVars, svcVars, BootEnds, AloneKeepsCache,
           Alone, Disposes, OpsMatch, LeftIsDisposed, LoaderMatches, CacheIsNewest, Busy,
           InstanceShapes
  <1> QED
    BY <1>1, <1>3, <1>4 DEF DisposersInv

LEMMA LoadReturnsDisposers ==
    ASSUME InstanceInv, DisposersInv, NEW c \in Calls, LoadReturns(c)
    PROVE  DisposersInv'
  <1>1. OpsMatch'
    BY InstanceAssumption
       DEF InstanceInv, DisposersInv, callVars, entryVars, svcVars, LoadReturns, OpsMatch,
           LoaderMatches, Busy, Finished, InstanceShapes
  <1>2. /\ \A x \in Calls : Disposes(x) => Disposes(x)'
        /\ Alone' => Alone
    <2>1. op' = op \/ Called(c, "load")
      BY DEF callVars, entryVars, svcVars, LoadReturns
    <2> QED
      BY <2>1, AloneBefore, InstanceAssumption DEF InstanceInv, DisposersInv
  <1>3. LeftIsDisposed'
    BY <1>2, InstanceAssumption
       DEF InstanceInv, DisposersInv, callVars, entryVars, svcVars, LoadReturns, LeftIsDisposed,
           Disposes, CacheIsNewest, InstanceShapes
  <1>4. AloneKeepsCache'
    BY <1>2, InstanceAssumption
       DEF InstanceInv, DisposersInv, callVars, entryVars, svcVars, LoadReturns, AloneKeepsCache,
           Alone, Disposes, OpsMatch, LeftIsDisposed, LoaderMatches, CacheIsNewest, Busy,
           InstanceShapes
  <1> QED
    BY <1>1, <1>3, <1>4 DEF DisposersInv

LEMMA UseDisposers ==
    ASSUME InstanceInv, DisposersInv, NEW c \in Calls, Use(c)
    PROVE  DisposersInv'
  <1>1. OpsMatch'
    BY InstanceAssumption
       DEF InstanceInv, DisposersInv, callVars, entryVars, svcVars, Use, OpsMatch, LoaderMatches,
           Busy, Finished, InstanceShapes
  <1>2. /\ \A x \in Calls : Disposes(x) => Disposes(x)'
        /\ Alone' => Alone
    <2>1. op' = op \/ Called(c, "load")
      BY DEF callVars, entryVars, svcVars, Use
    <2> QED
      BY <2>1, AloneBefore, InstanceAssumption DEF InstanceInv, DisposersInv
  <1>3. LeftIsDisposed'
    BY <1>2, InstanceAssumption
       DEF InstanceInv, DisposersInv, callVars, entryVars, svcVars, Use, LeftIsDisposed, Disposes,
           CacheIsNewest, InstanceShapes
  <1>4. AloneKeepsCache'
    BY <1>2, InstanceAssumption
       DEF InstanceInv, DisposersInv, callVars, entryVars, svcVars, Use, AloneKeepsCache, Alone,
           Disposes, OpsMatch, LeftIsDisposed, LoaderMatches, CacheIsNewest, Busy, InstanceShapes
  <1> QED
    BY <1>1, <1>3, <1>4 DEF DisposersInv

LEMMA DisposeDisposers ==
    ASSUME InstanceInv, DisposersInv, NEW c \in Calls, NEW e \in Calls, Dispose(c, e)
    PROVE  DisposersInv'
  <1>1. OpsMatch'
    BY InstanceAssumption
       DEF InstanceInv, DisposersInv, callVars, entryVars, svcVars, Dispose, Called, Goes,
           RunDisposers, OpsMatch, LoaderMatches, Busy, Finished, InstanceShapes
  <1>2. /\ \A x \in Calls : Disposes(x) => Disposes(x)'
        /\ Alone' => Alone
    <2>1. op' = op \/ Called(c, "dispose")
      BY DEF callVars, entryVars, svcVars, Dispose, Called, Goes, RunDisposers
    <2> QED
      BY <2>1, AloneBefore, InstanceAssumption DEF InstanceInv, DisposersInv
  <1>3. LeftIsDisposed'
    BY <1>2, InstanceAssumption
       DEF InstanceInv, DisposersInv, callVars, entryVars, svcVars, Dispose, Called, Goes,
           RunDisposers, LeftIsDisposed, Disposes, CacheIsNewest, InstanceShapes
  <1>4. AloneKeepsCache'
    BY <1>2, InstanceAssumption
       DEF InstanceInv, DisposersInv, callVars, entryVars, svcVars, Dispose, Called, Goes,
           RunDisposers, AloneKeepsCache, Alone, Disposes, OpsMatch, LeftIsDisposed,
           LoaderMatches, CacheIsNewest, Busy, InstanceShapes
  <1> QED
    BY <1>1, <1>3, <1>4 DEF DisposersInv

LEMMA DisposeGoesOnDisposers ==
    ASSUME InstanceInv, DisposersInv, NEW c \in Calls, DisposeGoesOn(c)
    PROVE  DisposersInv'
  <1>1. OpsMatch'
    BY InstanceAssumption
       DEF InstanceInv, DisposersInv, callVars, entryVars, svcVars, DisposeGoesOn, DisposeEntry,
           Goes, RunDisposers, OpsMatch, LoaderMatches, Busy, Finished, InstanceShapes
  <1>2. /\ \A x \in Calls : Disposes(x) => Disposes(x)'
        /\ Alone' => Alone
    <2>1. op' = op \/ Called(c, "load")
      BY DEF callVars, entryVars, svcVars, DisposeGoesOn, DisposeEntry, Goes, RunDisposers
    <2> QED
      BY <2>1, AloneBefore, InstanceAssumption DEF InstanceInv, DisposersInv
  <1>3. LeftIsDisposed'
    BY <1>2, InstanceAssumption
       DEF InstanceInv, DisposersInv, callVars, entryVars, svcVars, DisposeGoesOn, DisposeEntry,
           Goes, RunDisposers, LeftIsDisposed, Disposes, CacheIsNewest, InstanceShapes
  <1>4. AloneKeepsCache'
    <2> SUFFICES ASSUME Alone', NEW d \in Calls, at'[d] = "disposing", awaits'[d] # None
                 PROVE  cache' # None /\ deferred'[cache'] = "ok"
      BY DEF AloneKeepsCache
    <2>1. op' = op /\ op[c] = "dispose" /\ deferred' = deferred /\ on[c] \in Calls
      BY DEF DisposeGoesOn, InstanceInv, DisposalIsOfLoaded
    <2>2. d = c
      <3>1. d # c => at[d] = "disposing"
        BY DEF DisposeGoesOn, DisposeEntry, Goes, InstanceInv, InstanceShapes
      <3> QED
        BY <2>1, <3>1 DEF Alone, Disposes, DisposersInv, OpsMatch
    <2>3. cache' = cache /\ cache = on[c] /\ deferred[on[c]] = "ok"
      BY <2>2 DEF DisposeGoesOn, DisposeEntry, Goes, Finished, InstanceInv, InstanceShapes
    <2> QED
      BY <2>1, <2>3, InstanceAssumption
  <1> QED
    BY <1>1, <1>3, <1>4 DEF DisposersInv

LEMMA DisposeAllDisposers ==
    ASSUME InstanceInv, DisposersInv, NEW c \in Calls, DisposeAll(c)
    PROVE  DisposersInv'
  <1>1. OpsMatch'
    BY InstanceAssumption
       DEF InstanceInv, DisposersInv, callVars, entryVars, svcVars, DisposeAll, Called, Goes,
           OpsMatch, LoaderMatches, Busy, Finished, InstanceShapes
  <1>2. /\ \A x \in Calls : Disposes(x) => Disposes(x)'
        /\ Alone' => Alone
    <2>1. op' = op \/ Called(c, "disposeAll")
      BY DEF callVars, entryVars, svcVars, DisposeAll, Called, Goes
    <2> QED
      BY <2>1, AloneBefore, InstanceAssumption DEF InstanceInv, DisposersInv
  <1>3. LeftIsDisposed'
    BY <1>2, InstanceAssumption
       DEF InstanceInv, DisposersInv, callVars, entryVars, svcVars, DisposeAll, Called, Goes,
           LeftIsDisposed, Disposes, CacheIsNewest, InstanceShapes
  <1>4. AloneKeepsCache'
    BY <1>2, InstanceAssumption
       DEF InstanceInv, DisposersInv, callVars, entryVars, svcVars, DisposeAll, Called, Goes,
           AloneKeepsCache, Alone, Disposes, OpsMatch, LeftIsDisposed, LoaderMatches,
           CacheIsNewest, Busy, InstanceShapes
  <1> QED
    BY <1>1, <1>3, <1>4 DEF DisposersInv

LEMMA DisposeAllGoesOnDisposers ==
    ASSUME InstanceInv, DisposersInv, NEW c \in Calls, DisposeAllGoesOn(c)
    PROVE  DisposersInv'
  <1>1. OpsMatch'
    BY InstanceAssumption
       DEF InstanceInv, DisposersInv, callVars, entryVars, svcVars, DisposeAllGoesOn,
           DisposeEntry, Goes, RunDisposers, OpsMatch, LoaderMatches, Busy, Finished,
           InstanceShapes
  <1>2. /\ \A x \in Calls : Disposes(x) => Disposes(x)'
        /\ Alone' => Alone
    <2>1. op' = op \/ Called(c, "load")
      BY DEF callVars, entryVars, svcVars, DisposeAllGoesOn, DisposeEntry, Goes, RunDisposers
    <2> QED
      BY <2>1, AloneBefore, InstanceAssumption DEF InstanceInv, DisposersInv
  <1>3. LeftIsDisposed'
    BY <1>2, InstanceAssumption
       DEF InstanceInv, DisposersInv, callVars, entryVars, svcVars, DisposeAllGoesOn,
           DisposeEntry, Goes, RunDisposers, LeftIsDisposed, Disposes, CacheIsNewest,
           InstanceShapes
  <1>4. AloneKeepsCache'
    <2> SUFFICES ASSUME Alone', NEW d \in Calls, at'[d] = "disposing", awaits'[d] # None
                 PROVE  cache' # None /\ deferred'[cache'] = "ok"
      BY DEF AloneKeepsCache
    <2>1. op' = op /\ op[c] = "disposeAll" /\ deferred' = deferred /\ on[c] \in Calls
      BY DEF DisposeAllGoesOn, InstanceInv, DisposalIsOfLoaded
    <2>2. d = c
      <3>1. d # c => at[d] = "disposing"
        BY DEF DisposeAllGoesOn, DisposeEntry, Goes, InstanceInv, InstanceShapes
      <3> QED
        BY <2>1, <3>1 DEF Alone, Disposes, DisposersInv, OpsMatch
    <2>3. cache' = cache /\ cache = on[c] /\ deferred[on[c]] = "ok"
      BY <2>2 DEF DisposeAllGoesOn, DisposeEntry, Goes, Finished, InstanceInv, InstanceShapes
    <2> QED
      BY <2>1, <2>3, InstanceAssumption
  <1> QED
    BY <1>1, <1>3, <1>4 DEF DisposersInv

LEMMA DisposeAllJoinedDisposers ==
    ASSUME InstanceInv, DisposersInv, NEW c \in Calls, DisposeAllJoined(c)
    PROVE  DisposersInv'
  <1>1. OpsMatch'
    BY InstanceAssumption
       DEF InstanceInv, DisposersInv, callVars, entryVars, svcVars, DisposeAllJoined, OpsMatch,
           LoaderMatches, Busy, Finished, InstanceShapes
  <1>2. /\ \A x \in Calls : Disposes(x) => Disposes(x)'
        /\ Alone' => Alone
    <2>1. op' = op \/ Called(c, "load")
      BY DEF callVars, entryVars, svcVars, DisposeAllJoined
    <2> QED
      BY <2>1, AloneBefore, InstanceAssumption DEF InstanceInv, DisposersInv
  <1>3. LeftIsDisposed'
    BY <1>2, InstanceAssumption
       DEF InstanceInv, DisposersInv, callVars, entryVars, svcVars, DisposeAllJoined,
           LeftIsDisposed, Disposes, CacheIsNewest, InstanceShapes
  <1>4. AloneKeepsCache'
    BY <1>2, InstanceAssumption
       DEF InstanceInv, DisposersInv, callVars, entryVars, svcVars, DisposeAllJoined,
           AloneKeepsCache, Alone, Disposes, OpsMatch, LeftIsDisposed, LoaderMatches,
           CacheIsNewest, Busy, InstanceShapes
  <1> QED
    BY <1>1, <1>3, <1>4 DEF DisposersInv

LEMMA FinalizersEndDisposers ==
    ASSUME InstanceInv, DisposersInv, NEW d \in Calls, FinalizersEnd(d)
    PROVE  DisposersInv'
  <1>1. OpsMatch'
    BY InstanceAssumption
       DEF InstanceInv, DisposersInv, callVars, entryVars, svcVars, FinalizersEnd, OpsMatch,
           LoaderMatches, Busy, Finished, InstanceShapes
  <1>2. /\ \A x \in Calls : Disposes(x) => Disposes(x)'
        /\ Alone' => Alone
    <2>1. op' = op \/ Called(d, "load")
      BY DEF callVars, entryVars, svcVars, FinalizersEnd
    <2> QED
      BY <2>1, AloneBefore, InstanceAssumption DEF InstanceInv, DisposersInv
  <1>3. LeftIsDisposed'
    BY <1>2, InstanceAssumption
       DEF InstanceInv, DisposersInv, callVars, entryVars, svcVars, FinalizersEnd, LeftIsDisposed,
           Disposes, CacheIsNewest, InstanceShapes
  <1>4. AloneKeepsCache'
    BY <1>2, InstanceAssumption
       DEF InstanceInv, DisposersInv, callVars, entryVars, svcVars, FinalizersEnd,
           AloneKeepsCache, Alone, Disposes, OpsMatch, LeftIsDisposed, LoaderMatches,
           CacheIsNewest, Busy, InstanceShapes
  <1> QED
    BY <1>1, <1>3, <1>4 DEF DisposersInv

LEMMA DisposeEndsDisposers ==
    ASSUME InstanceInv, DisposersInv, NEW c \in Calls, DisposeEnds(c)
    PROVE  DisposersInv'
  <1>1. OpsMatch'
    BY InstanceAssumption
       DEF InstanceInv, DisposersInv, callVars, entryVars, svcVars, DisposeEnds, OpsMatch,
           LoaderMatches, Busy, Finished, InstanceShapes
  <1>2. /\ \A x \in Calls : Disposes(x) => Disposes(x)'
        /\ Alone' => Alone
    <2>1. op' = op \/ Called(c, "load")
      BY DEF callVars, entryVars, svcVars, DisposeEnds
    <2> QED
      BY <2>1, AloneBefore, InstanceAssumption DEF InstanceInv, DisposersInv
  <1>3. LeftIsDisposed'
    <2>1. Disposes(c)'
      BY DEF DisposersInv, OpsMatch, DisposeEnds, Disposes
    <2> QED
      BY <2>1 DEF LeftIsDisposed
  <1>4. AloneKeepsCache'
    BY <1>2, InstanceAssumption
       DEF InstanceInv, DisposersInv, callVars, entryVars, svcVars, DisposeEnds, AloneKeepsCache,
           Alone, Disposes, OpsMatch, LeftIsDisposed, LoaderMatches, CacheIsNewest, Busy,
           InstanceShapes
  <1> QED
    BY <1>1, <1>3, <1>4 DEF DisposersInv

LEMMA DisposersInitInv == InstanceInit => DisposersInv
  BY InstanceAssumption
  DEF InstanceInit, DisposersInv, OpsMatch, LeftIsDisposed, AloneKeepsCache

LEMMA DisposersStepInv == InstanceInv /\ DisposersInv /\ [InstanceNext]_instanceVars => DisposersInv'
  <1> SUFFICES ASSUME InstanceInv, DisposersInv, [InstanceNext]_instanceVars PROVE DisposersInv'
    OBVIOUS
  <1>1. CASE UNCHANGED instanceVars
    BY <1>1
    DEF instanceVars, callVars, entryVars, svcVars, DisposersInv, OpsMatch, LeftIsDisposed,
        AloneKeepsCache, Alone, Disposes
  <1>2. CASE Loaders
    BY <1>2, LoaderDisposesDisposers, LoaderBootsDisposers, BootServicesDisposers, BootEndsDisposers
    DEF Loaders
  <1>3. CASE Callers
    BY <1>3, LoadDisposers, ReloadDisposers, LoadReturnsDisposers, UseDisposers, DisposeDisposers,
       DisposeGoesOnDisposers, DisposeAllDisposers, DisposeAllGoesOnDisposers,
       DisposeAllJoinedDisposers, DisposeEndsDisposers DEF Callers
  <1>4. CASE \E d \in Calls : FinalizersEnd(d)
    BY <1>4, FinalizersEndDisposers
  <1> QED
    BY <1>1, <1>2, <1>3, <1>4 DEF InstanceNext

\* Boots of a directory follow each other, each after the finalizers of the one
\* before unless disposals overlap, and state of services has an owner - for any
\* number of loads, reloads and disposals.
THEOREM StoreKeepsContract == InstanceSpec => []InstanceContract
  <1>1. InstanceInv /\ DisposersInv => BootAfterFinalizers
    <2> SUFFICES ASSUME InstanceInv, DisposersInv, Alone,
                        NEW e \in Calls, NEW d \in Calls, loader[e] = "boot", awaits[d] # None
                 PROVE  FALSE
      BY DEF BootAfterFinalizers, Alone
    <2>1. deferred[e] = "open"
      BY DEF InstanceInv, LoaderMatches, Busy
    <2>2. CASE loader[d] = "disposers"
      <3>1. deferred[d] = "open" /\ e # d
        BY <2>2 DEF InstanceInv, LoaderMatches, Busy
      <3>2. ~(born[e] < born[d]) /\ ~(born[d] < born[e])
        BY <2>1, <2>2, <3>1 DEF InstanceInv, OlderAreFinished, Finished
      <3>3. born[e] = born[d]
        BY <3>2 DEF InstanceInv, InstanceShapes
      <3> QED
        BY <2>1, <3>1, <3>3 DEF InstanceInv, LoaderMatches
    <2>3. CASE at[d] = "disposing"
      <3>1. cache \in Calls /\ deferred[cache] = "ok"
        BY <2>3 DEF InstanceInv, InstanceShapes, DisposersInv, AloneKeepsCache
      <3>2. loader[cache] = "done" /\ born[cache] = made /\ e # cache
        BY <2>1, <3>1, InstanceAssumption
           DEF InstanceInv, InstanceShapes, LoaderMatches, CacheIsNewest, Busy, LoaderSet,
               DeferredSet
      <3>3. born[e] \in 1..made /\ born[e] # made
        BY <2>1, <3>1, <3>2 DEF InstanceInv, LoaderMatches
      <3>4. born[e] < born[cache]
        BY <3>2, <3>3 DEF InstanceInv, InstanceShapes
      <3> QED
        BY <2>1, <3>1, <3>2, <3>4 DEF InstanceInv, OlderAreFinished, Finished
    <2> QED
      BY <2>2, <2>3 DEF DisposersInv, OpsMatch
  <1>2. InstanceSpec => []DisposersInv
    BY InstanceInvHolds, DisposersInitInv, DisposersStepInv, PTL DEF InstanceSpec
  <1>3. OneBootAtATime /\ InstanceInv /\ BootAfterFinalizers => InstanceContract
    BY ShapesAreTypes DEF InstanceContract, InstanceInv, ServicesInv
  <1> QED
    BY InstanceInvHolds, OneBoot, <1>1, <1>2, <1>3, PTL

-----------------------------------------------------------------------------
(* Requests: a request is answered once, by somebody entitled to, and until*)
(* then it can be answered, whatever the rules and patterns.               *)

\* A request is in the map, published and answered only after it was registered.
AskShape == \A r \in Requests :
    /\ asker[r] \in {"new", "begun"} => answer[r] = "none"
    /\ asker[r] \in {"asking", "waiting"} => answer[r] # "none"
    /\ answer[r] = "none" => r \notin pending /\ replied[r] = <<>>
    /\ r \in pending => replied[r] = <<>>

\* The order of the map: places are drawn one after the other.
PlacesDiffer ==
    /\ \A r \in Requests : answer[r] # "none" => asked[r] > 0 /\ asked[r] <= asks
    /\ \A r, q \in Requests :
         answer[r] # "none" /\ answer[q] # "none" /\ asked[r] = asked[q] => r = q
    /\ \A p \in Replies : place[p] <= asks /\ ended[p] <= asks
    /\ \A s \in Services : passed[s] <= asks

\* What a reply took was published with what it says.
HandsArePublished == \A p \in Replies :
    /\ first[p] # NoRequest => replied[first[p]] = <<says[p]>>
    /\ holds[p] # NoRequest => replied[holds[p]] = <<says[p]>>

\* Where a reply is, and what it has in hand there.
ReplyShape == \A p \in Replies :
    /\ reply[p] = "new" => first[p] = NoRequest /\ holds[p] = NoRequest /\ says[p] = "once"
    /\ reply[p] \in {"new", "named"} => place[p] = 0
    /\ reply[p] # "done" => ended[p] = 0
    /\ reply[p] = "named" => first[p] # NoRequest /\ holds[p] = first[p]
    /\ reply[p] \in {"walking", "cascading"} => first[p] \in Permissions /\ says[p] # "once"
    /\ says[p] = "always" => first[p] \in Permissions

\* Whether an answer to the named request is one to the other as well.
Covers(p, r) ==
    /\ SessionOf[r] = SessionOf[first[p]]
    /\ says[p] = "always" => Wants[r] \subseteq AlwaysOf[first[p]]

\* What a walk takes is of concern; what it has passed and left is not.
WalkShape == \A p \in Replies :
    /\ reply[p] \in {"walking", "cascading"} /\ says[p] = "always" =>
         AlwaysOf[first[p]] \subseteq approved
    /\ reply[p] = "cascading" => holds[p] \in Permissions /\ Concerns(p, holds[p])
    /\ reply[p] \in {"walking", "cascading"} =>
         \A r \in pending \cap Permissions : asked[r] <= place[p] => ~Covers(p, r)

\* Whom the finalizer has passed is answered.
PassedAreAnswered == \A r \in pending : asked[r] <= passed[ServiceOf(r)] => answer[r] # "open"

\* Who waits and is not answered, whether a reply can still find it, and the
\* reply that took it out of the map.
Unanswered(r) == asker[r] \in {"asking", "waiting"} /\ answer[r] = "open"
Shown(r) == r \in pending /\ (closing[ServiceOf(r)] = "closed" => asked[r] > passed[ServiceOf(r)])
HeldBy(p, r) == reply[p] \in {"named", "cascading", "gone"} /\ holds[p] = r

\* As NoForgottenAsker, from the registration on.
NobodyForgotten == \A r \in Requests : Unanswered(r) => Shown(r) \/ \E p \in Replies : HeldBy(p, r)

\* The patterns that some always covers, and who may be allowed.
RulesSaid == UNION {AlwaysOf[first[p]] : p \in {q \in Replies : says[q] = "always"}}
Entitled(r) ==
    \/ \E p \in Replies : first[p] = r
    \/ /\ \E p \in Replies : says[p] = "always" /\ SessionOf[first[p]] = SessionOf[r]
       /\ Wants[r] \subseteq RulesSaid

\* The rules that grew are those of replies, and as AllowedByReply.
ApprovedByReply == approved \subseteq RulesSaid
AllowedAreEntitled == \A r \in Permissions : answer[r] = "allowed" => Entitled(r)

RequestsInv ==
    /\ RequestsTypeOK /\ AskShape /\ PlacesDiffer
    /\ HandsArePublished /\ ReplyShape /\ WalkShape
    /\ PassedAreAnswered /\ NobodyForgotten /\ PendingIsAsked
    /\ RepliedOnce /\ RepliedIsAnswered
    /\ SessionIsSwept /\ ApprovedByReply /\ AllowedAreEntitled

-----------------------------------------------------------------------------
\* What a part of the invariant does not read may change.
LEMMA Frames ==
    ASSUME RequestsInv
    PROVE  /\ UNCHANGED <<asker, answer, pending, replied>> => AskShape'
           /\ UNCHANGED <<answer, asked, asks, place, ended, passed>> => PlacesDiffer'
           /\ UNCHANGED <<first, holds, replied, says>> => HandsArePublished'
           /\ UNCHANGED <<reply, first, holds, says, place, ended>> => ReplyShape'
           /\ UNCHANGED <<reply, says, first, approved, holds, pending, asked, place>> => WalkShape'
           /\ UNCHANGED <<pending, asked, passed, answer>> => PassedAreAnswered'
           /\ UNCHANGED <<asker, answer, pending, closing, asked, passed, reply, holds>>
                => NobodyForgotten'
           /\ UNCHANGED <<pending, asker, leaked>> => PendingIsAsked'
           /\ UNCHANGED <<replied>> => RepliedOnce'
           /\ UNCHANGED <<answer, closing, replied>> => RepliedIsAnswered'
           /\ UNCHANGED <<reply, ended, pending, asked, says, first>> => SessionIsSwept'
           /\ UNCHANGED <<approved, first, says>> => ApprovedByReply'
           /\ UNCHANGED <<answer, first, says>> => AllowedAreEntitled'
  <1>1. UNCHANGED <<asker, answer, pending, replied>> => AskShape'
    BY DEF RequestsInv, AskShape
  <1>2. UNCHANGED <<answer, asked, asks, place, ended, passed>> => PlacesDiffer'
    BY DEF RequestsInv, PlacesDiffer
  <1>3. UNCHANGED <<first, holds, replied, says>> => HandsArePublished'
    BY DEF RequestsInv, HandsArePublished
  <1>4. UNCHANGED <<reply, first, holds, says, place, ended>> => ReplyShape'
    BY DEF RequestsInv, ReplyShape
  <1>5. UNCHANGED <<reply, says, first, approved, holds, pending, asked, place>> => WalkShape'
    BY DEF RequestsInv, WalkShape, Covers, Concerns
  <1>6. UNCHANGED <<pending, asked, passed, answer>> => PassedAreAnswered'
    BY DEF RequestsInv, PassedAreAnswered, ServiceOf
  <1>7. UNCHANGED <<asker, answer, pending, closing, asked, passed, reply, holds>>
            => NobodyForgotten'
    BY DEF RequestsInv, NobodyForgotten, Unanswered, Shown, HeldBy, ServiceOf
  <1>8. UNCHANGED <<pending, asker, leaked>> => PendingIsAsked'
    BY DEF RequestsInv, PendingIsAsked
  <1>9. UNCHANGED <<replied>> => RepliedOnce'
    BY DEF RequestsInv, RepliedOnce
  <1>10. UNCHANGED <<answer, closing, replied>> => RepliedIsAnswered'
    BY DEF RequestsInv, RepliedIsAnswered, ServiceOf
  <1>11. UNCHANGED <<reply, ended, pending, asked, says, first>> => SessionIsSwept'
    BY DEF RequestsInv, SessionIsSwept
  <1>12. UNCHANGED <<approved, first, says>> => ApprovedByReply'
    BY DEF RequestsInv, ApprovedByReply, RulesSaid
  <1>13. UNCHANGED <<answer, first, says>> => AllowedAreEntitled'
    BY DEF RequestsInv, AllowedAreEntitled, Entitled, RulesSaid
  <1> QED BY <1>1, <1>2, <1>3, <1>4, <1>5, <1>6, <1>7, <1>8, <1>9, <1>10, <1>11, <1>12, <1>13

\* Whoever waits stays known, if those who are shown stay shown or are taken in
\* hand, and hands do not let go of who still waits.
LEMMA StaysKnown ==
    ASSUME NobodyForgotten,
           \A q \in Requests : Unanswered(q)' => Unanswered(q) \/ Shown(q)',
           \A q \in Requests :
               Unanswered(q)' /\ Shown(q) => Shown(q)' \/ \E p \in Replies : HeldBy(p, q)',
           \A q \in Requests, p \in Replies : Unanswered(q)' /\ HeldBy(p, q) => HeldBy(p, q)'
    PROVE  NobodyForgotten'
  BY DEF NobodyForgotten

\* What was said stays said.
LEMMA StaysEntitled ==
    ASSUME NEW r \in Permissions, Entitled(r),
           \A p \in Replies : first[p] # NoRequest => first'[p] = first[p],
           \A p \in Replies : says[p] = "always" => first'[p] = first[p] /\ says'[p] = says[p]
    PROVE  Entitled(r)'
  <1>1. RulesSaid \subseteq RulesSaid'
    BY DEF RulesSaid
  <1>2. (\E p \in Replies : first[p] = r) => \E p \in Replies : first'[p] = r
    BY RequestsAssumption DEF Requests
  <1>3. (\E p \in Replies : says[p] = "always" /\ SessionOf[first[p]] = SessionOf[r])
            => \E p \in Replies : says'[p] = "always" /\ SessionOf[first'[p]] = SessionOf[r]
    OBVIOUS
  <1> QED BY <1>1, <1>2, <1>3 DEF Entitled

\* A decision without the user, and a registration.
AskDecides(r) ==
    /\ asker[r] = "begun"
    /\ \E where \in {"denied", "allowed"} : AskerGoes(r, where)
    /\ UNCHANGED <<pending, asked, asks, answer, replied, leaked, replyVars, closeVars>>

AskRegisters(r) ==
    /\ asker[r] = "begun"
    /\ Registers(r)
    /\ UNCHANGED <<replied, leaked, replyVars, closeVars>>

LEMMA AskingIs ==
    ASSUME NEW r \in Requests, AskPermission(r) \/ AskQuestion(r)
    PROVE  AskDecides(r) \/ AskRegisters(r)
  <1>1. CASE AskQuestion(r) BY <1>1 DEF AskQuestion, AskRegisters
  <1>2. CASE AskPermission(r)
    <2> DEFINE actions == {Evaluate(r, pattern) : pattern \in Wants[r]}
    <2> HIDE DEF actions
    <2>1. \/ AskerGoes(r, "denied") /\ UNCHANGED <<pending, asked, asks, answer>>
          \/ AskerGoes(r, "allowed") /\ UNCHANGED <<pending, asked, asks, answer>>
          \/ Registers(r)
      <3>1. CASE "deny" \in actions BY <1>2, <3>1 DEF AskPermission, actions
      <3>2. CASE "deny" \notin actions /\ actions \subseteq {"allow"}
        BY <1>2, <3>2 DEF AskPermission, actions
      <3>3. CASE "deny" \notin actions /\ ~(actions \subseteq {"allow"})
        BY <1>2, <3>3 DEF AskPermission, actions
      <3> QED BY <3>1, <3>2, <3>3
    <2> QED BY <1>2, <2>1 DEF AskPermission, AskDecides, AskRegisters
  <1> QED BY <1>1, <1>2

LEMMA TypesKept ==
    ASSUME RequestsInv, [RequestsNext]_requestVars
    PROVE  RequestsTypeOK'
  <1> USE RequestsAssumption
  <1>0. RequestsTypeOK /\ AskShape /\ ReplyShape BY DEF RequestsInv
  <1>1. CASE UNCHANGED requestVars
    BY <1>0, <1>1 DEF requestVars, RequestsTypeOK, askVars, replyVars, closeVars
  <1>2. ASSUME NEW r \in Requests, AskBegins(r) PROVE RequestsTypeOK'
    BY <1>0, <1>2
    DEF AskBegins, AskerGoes, RequestsTypeOK, askVars, replyVars, closeVars
  <1>3. ASSUME NEW r \in Requests, AskDecides(r) PROVE RequestsTypeOK'
    BY <1>0, <1>3
    DEF AskDecides, AskerGoes, RequestsTypeOK, askVars, replyVars, closeVars
  <1>4. ASSUME NEW r \in Requests, AskRegisters(r) PROVE RequestsTypeOK'
    BY <1>0, <1>4
    DEF AskRegisters, Registers, AskerGoes, RequestsTypeOK, askVars, replyVars, closeVars
  <1>5. ASSUME NEW r \in Requests, AskAwaits(r) PROVE RequestsTypeOK'
    BY <1>0, <1>5
    DEF AskAwaits, AskerGoes, RequestsTypeOK, askVars, replyVars, closeVars
  <1>6. ASSUME NEW r \in Requests, AskReturns(r) PROVE RequestsTypeOK'
    BY <1>0, <1>6
    DEF AskReturns, AskerGoes, AskShape, RequestsTypeOK, askVars, replyVars, closeVars
  <1>7. ASSUME NEW r \in Requests, AskDies(r) PROVE RequestsTypeOK'
    BY <1>0, <1>7
    DEF AskDies, AskerGoes, RequestsTypeOK, askVars, replyVars, closeVars
  <1>8. ASSUME NEW p \in Replies, ReplySettles(p) PROVE RequestsTypeOK'
    BY <1>0, <1>8
    DEF ReplySettles, Settled, ReplyGoes, ReplyShape, RequestsTypeOK, askVars, replyVars, closeVars
  <1>9. ASSUME NEW p \in Replies, ReplyWalks(p) PROVE RequestsTypeOK'
    BY <1>0, <1>9
    DEF ReplyWalks, Take, ReplyGoes, Ahead, Requests, RequestsTypeOK, askVars, replyVars, closeVars
  <1>10. ASSUME NEW p \in Replies, ReplyEnds(p) PROVE RequestsTypeOK'
    BY <1>0, <1>10
    DEF ReplyEnds, ReplyGoes, RequestsTypeOK, askVars, replyVars, closeVars
  <1>11. ASSUME NEW p \in Replies, ReplyCascades(p) PROVE RequestsTypeOK'
    BY <1>0, <1>11
    DEF ReplyCascades, Settled, ReplyGoes, RequestsTypeOK, askVars, replyVars, closeVars
  <1>12. ASSUME NEW p \in Replies, ReplyDies(p) PROVE RequestsTypeOK'
    BY <1>0, <1>12
    DEF ReplyDies, ReplyGoes, RequestsTypeOK, askVars, replyVars, closeVars
  <1>13. ASSUME NEW s \in Services, CloseBegins(s) PROVE RequestsTypeOK'
    BY <1>0, <1>13
    DEF CloseBegins, RequestsTypeOK, askVars, replyVars, closeVars
  <1>14. ASSUME NEW s \in Services, CloseRejects(s) PROVE RequestsTypeOK'
    BY <1>0, <1>14
    DEF CloseRejects, Settled, Remaining, RequestsTypeOK, askVars, replyVars, closeVars
  <1>15. ASSUME NEW s \in Services, CloseClears(s) PROVE RequestsTypeOK'
    BY <1>0, <1>15
    DEF CloseClears, RequestsTypeOK, askVars, replyVars, closeVars
  <1>16. ASSUME NEW p \in Replies, NEW r \in Requests, ReplyMisses(p, r) PROVE RequestsTypeOK'
    BY <1>0, <1>16
    DEF ReplyMisses, ReplyGoes, RequestsTypeOK, askVars, replyVars, closeVars
  <1>17. ASSUME NEW p \in Replies, NEW r \in Requests, NEW kind \in {"once", "always", "reject"},
                ReplyTakes(p, r, kind)
         PROVE  RequestsTypeOK'
    BY <1>0, <1>17
    DEF ReplyTakes, Take, ReplyGoes, RequestsTypeOK, askVars, replyVars, closeVars
  <1>a. ASSUME RequestsNext PROVE RequestsTypeOK'
    BY <1>a, AskingIs, <1>2, <1>3, <1>4, <1>5, <1>6, <1>7, <1>8, <1>9, <1>10, <1>11, <1>12, <1>13,
       <1>14, <1>15, <1>16, <1>17
       DEF RequestsNext, AskNext, ReplyNext, CloseNext
  <1> QED BY <1>1, <1>a

-----------------------------------------------------------------------------
\* One lemma per action: what it does not touch stays, the rest conjunct by conjunct.
LEMMA AskBeginsKeeps ==
    ASSUME RequestsInv, NEW r \in Requests, AskBegins(r), RequestsTypeOK'
    PROVE  RequestsInv'
  <1>0. RequestsTypeOK /\ AskShape /\ PlacesDiffer /\ HandsArePublished /\ ReplyShape
    BY DEF RequestsInv
  <1>1. UNCHANGED <<pending, asked, asks, approved, answer, replied, leaked, reply, says, first,
                    holds, place, ended, closing, passed>>
    BY DEF AskBegins, AskerGoes, askVars, replyVars, closeVars
  <1>2. AskShape'
    BY <1>0, <1>1, RequestsAssumption
       DEF RequestsInv, AskBegins, AskerGoes, AskShape, PlacesDiffer, HandsArePublished,
           ReplyShape, RequestsTypeOK, Requests, Services
  <1>3. NobodyForgotten'
    <2>1. \A q \in Requests : Unanswered(q)' => Unanswered(q) \/ Shown(q)'
      BY <1>0, <1>1 DEF AskBegins, AskerGoes, Unanswered, Shown, RequestsTypeOK
    <2>2. \A q \in Requests :
             Unanswered(q)' /\ Shown(q) => Shown(q)' \/ \E x \in Replies : HeldBy(x, q)'
      BY <1>0, <1>1 DEF AskBegins, AskerGoes, Unanswered, Shown, HeldBy, RequestsTypeOK
    <2>3. \A q \in Requests, x \in Replies : Unanswered(q)' /\ HeldBy(x, q) => HeldBy(x, q)'
      BY <1>0, <1>1 DEF AskBegins, AskerGoes, Unanswered, HeldBy, RequestsTypeOK
    <2> QED BY <2>1, <2>2, <2>3, StaysKnown DEF RequestsInv
  <1>4. PendingIsAsked'
    BY <1>0, <1>1, RequestsAssumption
       DEF RequestsInv, AskBegins, AskerGoes, PendingIsAsked, AskShape, PlacesDiffer,
           HandsArePublished, ReplyShape, RequestsTypeOK, Requests, Services
  <1> QED BY <1>1, Frames, <1>2, <1>3, <1>4 DEF RequestsInv

LEMMA AskDecidesKeeps ==
    ASSUME RequestsInv, NEW r \in Requests, AskDecides(r), RequestsTypeOK'
    PROVE  RequestsInv'
  <1>0. RequestsTypeOK /\ AskShape /\ PlacesDiffer /\ HandsArePublished /\ ReplyShape
    BY DEF RequestsInv
  <1>1. UNCHANGED <<pending, asked, asks, approved, answer, replied, leaked, reply, says, first,
                    holds, place, ended, closing, passed>>
    BY DEF AskDecides, AskerGoes, askVars, replyVars, closeVars
  <1>2. AskShape'
    BY <1>0, <1>1, RequestsAssumption
       DEF RequestsInv, AskDecides, AskerGoes, AskShape, PlacesDiffer, HandsArePublished,
           ReplyShape, RequestsTypeOK, Requests, Services
  <1>3. NobodyForgotten'
    <2>1. \A q \in Requests : Unanswered(q)' => Unanswered(q) \/ Shown(q)'
      BY <1>0, <1>1 DEF AskDecides, AskerGoes, Unanswered, Shown, RequestsTypeOK
    <2>2. \A q \in Requests :
             Unanswered(q)' /\ Shown(q) => Shown(q)' \/ \E x \in Replies : HeldBy(x, q)'
      BY <1>0, <1>1 DEF AskDecides, AskerGoes, Unanswered, Shown, HeldBy, RequestsTypeOK
    <2>3. \A q \in Requests, x \in Replies : Unanswered(q)' /\ HeldBy(x, q) => HeldBy(x, q)'
      BY <1>0, <1>1 DEF AskDecides, AskerGoes, Unanswered, HeldBy, RequestsTypeOK
    <2> QED BY <2>1, <2>2, <2>3, StaysKnown DEF RequestsInv
  <1>4. PendingIsAsked'
    BY <1>0, <1>1, RequestsAssumption
       DEF RequestsInv, AskDecides, AskerGoes, PendingIsAsked, AskShape, PlacesDiffer,
           HandsArePublished, ReplyShape, RequestsTypeOK, Requests, Services
  <1> QED BY <1>1, Frames, <1>2, <1>3, <1>4 DEF RequestsInv

LEMMA AskRegistersKeeps ==
    ASSUME RequestsInv, NEW r \in Requests, AskRegisters(r), RequestsTypeOK'
    PROVE  RequestsInv'
  <1>0. RequestsTypeOK /\ AskShape /\ PlacesDiffer /\ HandsArePublished /\ ReplyShape
    BY DEF RequestsInv
  <1>1. UNCHANGED <<approved, replied, leaked, reply, says, first, holds, place, ended, closing,
                    passed>>
    BY DEF AskRegisters, Registers, AskerGoes, askVars, replyVars, closeVars
  <1>2. AskShape'
    BY <1>0, <1>1, RequestsAssumption
       DEF RequestsInv, AskRegisters, Registers, AskerGoes, AskShape, PlacesDiffer,
           HandsArePublished, ReplyShape, RequestsTypeOK, Requests, Services
  <1>3. PlacesDiffer'
    BY <1>0, <1>1, RequestsAssumption
       DEF RequestsInv, AskRegisters, Registers, AskerGoes, PlacesDiffer, AskShape,
           HandsArePublished, ReplyShape, RequestsTypeOK, Requests, Services
  <1>4. WalkShape'
    BY <1>0, <1>1, RequestsAssumption
       DEF RequestsInv, AskRegisters, Registers, AskerGoes, WalkShape, Covers, Concerns, AskShape,
           PlacesDiffer, HandsArePublished, ReplyShape, RequestsTypeOK, Requests, Services
  <1>5. PassedAreAnswered'
    BY <1>0, <1>1, RequestsAssumption
       DEF RequestsInv, AskRegisters, Registers, AskerGoes, PassedAreAnswered, ServiceOf,
           AskShape, PlacesDiffer, HandsArePublished, ReplyShape, RequestsTypeOK, Requests,
           Services
  <1>6. NobodyForgotten'
    <2>1. \A q \in Requests : Unanswered(q)' => Unanswered(q) \/ Shown(q)'
      BY <1>0, <1>1
         DEF AskRegisters, Registers, AskerGoes, Unanswered, Shown, RequestsTypeOK, PlacesDiffer,
             ServiceOf, Services, AskShape
    <2>2. \A q \in Requests :
             Unanswered(q)' /\ Shown(q) => Shown(q)' \/ \E x \in Replies : HeldBy(x, q)'
      BY <1>0, <1>1
         DEF AskRegisters, Registers, AskerGoes, Unanswered, Shown, HeldBy, RequestsTypeOK,
             PlacesDiffer, ServiceOf, Services, AskShape
    <2>3. \A q \in Requests, x \in Replies : Unanswered(q)' /\ HeldBy(x, q) => HeldBy(x, q)'
      BY <1>0, <1>1
         DEF AskRegisters, Registers, AskerGoes, Unanswered, HeldBy, RequestsTypeOK, PlacesDiffer,
             ServiceOf, Services, AskShape
    <2> QED BY <2>1, <2>2, <2>3, StaysKnown DEF RequestsInv
  <1>7. PendingIsAsked'
    BY <1>0, <1>1, RequestsAssumption
       DEF RequestsInv, AskRegisters, Registers, AskerGoes, PendingIsAsked, AskShape,
           PlacesDiffer, HandsArePublished, ReplyShape, RequestsTypeOK, Requests, Services
  <1>8. RepliedIsAnswered'
    BY <1>0, <1>1, RequestsAssumption
       DEF RequestsInv, AskRegisters, Registers, AskerGoes, RepliedIsAnswered, ServiceOf,
           AskShape, PlacesDiffer, HandsArePublished, ReplyShape, RequestsTypeOK, Requests,
           Services
  <1>9. SessionIsSwept'
    BY <1>0, <1>1, RequestsAssumption
       DEF RequestsInv, AskRegisters, Registers, AskerGoes, SessionIsSwept, AskShape,
           PlacesDiffer, HandsArePublished, ReplyShape, RequestsTypeOK, Requests, Services
  <1>10. AllowedAreEntitled'
    <2>1. \A q \in Permissions : answer'[q] = "allowed" => answer[q] = "allowed"
      BY <1>0 DEF AskRegisters, Registers, RequestsTypeOK, Requests
    <2> QED BY <1>1, <2>1, StaysEntitled DEF RequestsInv, AllowedAreEntitled
  <1> QED BY <1>1, Frames, <1>2, <1>3, <1>4, <1>5, <1>6, <1>7, <1>8, <1>9, <1>10 DEF RequestsInv

LEMMA AskAwaitsKeeps ==
    ASSUME RequestsInv, NEW r \in Requests, AskAwaits(r), RequestsTypeOK'
    PROVE  RequestsInv'
  <1>0. RequestsTypeOK /\ AskShape /\ PlacesDiffer /\ HandsArePublished /\ ReplyShape
    BY DEF RequestsInv
  <1>1. UNCHANGED <<pending, asked, asks, approved, answer, replied, leaked, reply, says, first,
                    holds, place, ended, closing, passed>>
    BY DEF AskAwaits, AskerGoes, askVars, replyVars, closeVars
  <1>2. AskShape'
    BY <1>0, <1>1, RequestsAssumption
       DEF RequestsInv, AskAwaits, AskerGoes, AskShape, PlacesDiffer, HandsArePublished,
           ReplyShape, RequestsTypeOK, Requests, Services
  <1>3. NobodyForgotten'
    <2>1. \A q \in Requests : Unanswered(q)' => Unanswered(q) \/ Shown(q)'
      BY <1>0, <1>1 DEF AskAwaits, AskerGoes, Unanswered, Shown, RequestsTypeOK
    <2>2. \A q \in Requests :
             Unanswered(q)' /\ Shown(q) => Shown(q)' \/ \E x \in Replies : HeldBy(x, q)'
      BY <1>0, <1>1 DEF AskAwaits, AskerGoes, Unanswered, Shown, HeldBy, RequestsTypeOK
    <2>3. \A q \in Requests, x \in Replies : Unanswered(q)' /\ HeldBy(x, q) => HeldBy(x, q)'
      BY <1>0, <1>1 DEF AskAwaits, AskerGoes, Unanswered, HeldBy, RequestsTypeOK
    <2> QED BY <2>1, <2>2, <2>3, StaysKnown DEF RequestsInv
  <1>4. PendingIsAsked'
    BY <1>0, <1>1, RequestsAssumption
       DEF RequestsInv, AskAwaits, AskerGoes, PendingIsAsked, AskShape, PlacesDiffer,
           HandsArePublished, ReplyShape, RequestsTypeOK, Requests, Services
  <1> QED BY <1>1, Frames, <1>2, <1>3, <1>4 DEF RequestsInv

LEMMA AskReturnsKeeps ==
    ASSUME RequestsInv, NEW r \in Requests, AskReturns(r), RequestsTypeOK'
    PROVE  RequestsInv'
  <1>0. RequestsTypeOK /\ AskShape /\ PlacesDiffer /\ HandsArePublished /\ ReplyShape
    BY DEF RequestsInv
  <1>1. UNCHANGED <<asked, asks, approved, answer, replied, leaked, reply, says, first, holds,
                    place, ended, closing, passed>>
    BY DEF AskReturns, AskerGoes, askVars, replyVars, closeVars
  <1>2. AskShape'
    BY ZenonT(60), <1>0, <1>1, RequestsAssumption
       DEF RequestsInv, AskReturns, AskerGoes, AskShape, PlacesDiffer, HandsArePublished,
           ReplyShape, RequestsTypeOK, Requests, Services
  <1>3. WalkShape'
    BY <1>0, <1>1, RequestsAssumption
       DEF RequestsInv, AskReturns, AskerGoes, WalkShape, Covers, Concerns, AskShape,
           PlacesDiffer, HandsArePublished, ReplyShape, RequestsTypeOK, Requests, Services
  <1>4. PassedAreAnswered'
    BY <1>0, <1>1, RequestsAssumption
       DEF RequestsInv, AskReturns, AskerGoes, PassedAreAnswered, ServiceOf, AskShape,
           PlacesDiffer, HandsArePublished, ReplyShape, RequestsTypeOK, Requests, Services
  <1>5. NobodyForgotten'
    <2>1. \A q \in Requests : Unanswered(q)' => Unanswered(q) \/ Shown(q)'
      BY <1>0, <1>1 DEF AskReturns, AskerGoes, Unanswered, Shown, RequestsTypeOK
    <2>2. \A q \in Requests :
             Unanswered(q)' /\ Shown(q) => Shown(q)' \/ \E x \in Replies : HeldBy(x, q)'
      BY <1>0, <1>1 DEF AskReturns, AskerGoes, Unanswered, Shown, HeldBy, RequestsTypeOK
    <2>3. \A q \in Requests, x \in Replies : Unanswered(q)' /\ HeldBy(x, q) => HeldBy(x, q)'
      BY <1>0, <1>1 DEF AskReturns, AskerGoes, Unanswered, HeldBy, RequestsTypeOK
    <2> QED BY <2>1, <2>2, <2>3, StaysKnown DEF RequestsInv
  <1>6. PendingIsAsked'
    BY <1>0, <1>1, RequestsAssumption
       DEF RequestsInv, AskReturns, AskerGoes, PendingIsAsked, AskShape, PlacesDiffer,
           HandsArePublished, ReplyShape, RequestsTypeOK, Requests, Services
  <1>7. SessionIsSwept'
    BY <1>0, <1>1, RequestsAssumption
       DEF RequestsInv, AskReturns, AskerGoes, SessionIsSwept, AskShape, PlacesDiffer,
           HandsArePublished, ReplyShape, RequestsTypeOK, Requests, Services
  <1> QED BY <1>1, Frames, <1>2, <1>3, <1>4, <1>5, <1>6, <1>7 DEF RequestsInv

LEMMA AskDiesKeeps ==
    ASSUME RequestsInv, NEW r \in Requests, AskDies(r), RequestsTypeOK'
    PROVE  RequestsInv'
  <1>0. RequestsTypeOK /\ AskShape /\ PlacesDiffer /\ HandsArePublished /\ ReplyShape
    BY DEF RequestsInv
  <1>1. UNCHANGED <<asked, asks, approved, answer, replied, reply, says, first, holds, place,
                    ended, closing, passed>>
    BY DEF AskDies, AskerGoes, askVars, replyVars, closeVars
  <1>2. AskShape'
    BY <1>0, <1>1, RequestsAssumption
       DEF RequestsInv, AskDies, AskerGoes, AskShape, PlacesDiffer, HandsArePublished, ReplyShape,
           RequestsTypeOK, Requests, Services
  <1>3. WalkShape'
    BY <1>0, <1>1, RequestsAssumption
       DEF RequestsInv, AskDies, AskerGoes, WalkShape, Covers, Concerns, AskShape, PlacesDiffer,
           HandsArePublished, ReplyShape, RequestsTypeOK, Requests, Services
  <1>4. PassedAreAnswered'
    BY <1>0, <1>1, RequestsAssumption
       DEF RequestsInv, AskDies, AskerGoes, PassedAreAnswered, ServiceOf, AskShape, PlacesDiffer,
           HandsArePublished, ReplyShape, RequestsTypeOK, Requests, Services
  <1>5. NobodyForgotten'
    <2>1. \A q \in Requests : Unanswered(q)' => Unanswered(q) \/ Shown(q)'
      BY <1>0, <1>1 DEF AskDies, AskerGoes, Unanswered, Shown, RequestsTypeOK
    <2>2. \A q \in Requests :
             Unanswered(q)' /\ Shown(q) => Shown(q)' \/ \E x \in Replies : HeldBy(x, q)'
      BY <1>0, <1>1 DEF AskDies, AskerGoes, Unanswered, Shown, HeldBy, RequestsTypeOK
    <2>3. \A q \in Requests, x \in Replies : Unanswered(q)' /\ HeldBy(x, q) => HeldBy(x, q)'
      BY <1>0, <1>1 DEF AskDies, AskerGoes, Unanswered, HeldBy, RequestsTypeOK
    <2> QED BY <2>1, <2>2, <2>3, StaysKnown DEF RequestsInv
  <1>6. PendingIsAsked'
    BY <1>0, <1>1, RequestsAssumption
       DEF RequestsInv, AskDies, AskerGoes, PendingIsAsked, AskShape, PlacesDiffer,
           HandsArePublished, ReplyShape, RequestsTypeOK, Requests, Services
  <1>7. SessionIsSwept'
    BY <1>0, <1>1, RequestsAssumption
       DEF RequestsInv, AskDies, AskerGoes, SessionIsSwept, AskShape, PlacesDiffer,
           HandsArePublished, ReplyShape, RequestsTypeOK, Requests, Services
  <1> QED BY <1>1, Frames, <1>2, <1>3, <1>4, <1>5, <1>6, <1>7 DEF RequestsInv

LEMMA ReplyTakesKeeps ==
    ASSUME RequestsInv, NEW p \in Replies, NEW r \in Requests,
           NEW kind \in {"once", "always", "reject"}, ReplyTakes(p, r, kind), RequestsTypeOK'
    PROVE  RequestsInv'
  <1>0. RequestsTypeOK /\ AskShape /\ PlacesDiffer /\ HandsArePublished /\ ReplyShape
    BY DEF RequestsInv
  <1>1. UNCHANGED <<asked, asks, approved, asker, answer, leaked, place, ended, closing, passed>>
    BY DEF ReplyTakes, Take, ReplyGoes, askVars, replyVars, closeVars
  <1>b. replied[r] = <<>> BY <1>0 DEF AskShape, ReplyTakes
  <1>c. Append(replied[r], kind) = <<kind>> BY <1>b
  <1>d. replied' = [replied EXCEPT ![r] = Append(@, kind)] BY DEF ReplyTakes, Take
  <1>p. replied[r] = <<>> /\ replied' = [replied EXCEPT ![r] = <<kind>>]
    BY <1>b, <1>c, <1>d
  <1>e. \A q \in Replies : first[q] # r /\ holds[q] # r
    <2>1. r # NoRequest BY RequestsAssumption
    <2>2. \A k : <<k>> # <<>> OBVIOUS
    <2> QED BY <1>0, <1>b, <2>1, <2>2 DEF HandsArePublished
  <1>2. AskShape'
    BY <1>0, <1>1, <1>p, RequestsAssumption
       DEF RequestsInv, ReplyTakes, ReplyGoes, Take, AskShape, PlacesDiffer, HandsArePublished,
           ReplyShape, RequestsTypeOK, Requests, Services
  <1>3. HandsArePublished'
    <2>2. /\ first' = [first EXCEPT ![p] = r] /\ holds' = [holds EXCEPT ![p] = r]
          /\ says' = [says EXCEPT ![p] = kind]
      BY DEF ReplyTakes, Take
    <2>3. first[p] = NoRequest /\ holds[p] = NoRequest
      BY <1>0 DEF ReplyTakes, ReplyShape
    <2> QED BY SMTT(30), <1>0, <1>p, <1>e, <2>2, <2>3 DEF HandsArePublished, RequestsTypeOK
  <1>4. ReplyShape'
    BY <1>0, <1>1, <1>p, RequestsAssumption
       DEF RequestsInv, ReplyTakes, ReplyGoes, Take, ReplyShape, AskShape, PlacesDiffer,
           HandsArePublished, RequestsTypeOK, Requests, Services
  <1>5. WalkShape'
    BY <1>0, <1>1, <1>p, RequestsAssumption
       DEF RequestsInv, ReplyTakes, ReplyGoes, Take, WalkShape, Covers, Concerns, AskShape,
           PlacesDiffer, HandsArePublished, ReplyShape, RequestsTypeOK, Requests, Services
  <1>6. PassedAreAnswered'
    BY <1>0, <1>1, <1>p, RequestsAssumption
       DEF RequestsInv, ReplyTakes, ReplyGoes, Take, PassedAreAnswered, ServiceOf, AskShape,
           PlacesDiffer, HandsArePublished, ReplyShape, RequestsTypeOK, Requests, Services
  <1>7. NobodyForgotten'
    <2>1. \A q \in Requests : Unanswered(q)' => Unanswered(q) \/ Shown(q)'
      BY <1>0, <1>1, <1>p
         DEF ReplyTakes, ReplyGoes, Take, Unanswered, Shown, RequestsTypeOK, ReplyShape
    <2>2. \A q \in Requests :
             Unanswered(q)' /\ Shown(q) => Shown(q)' \/ \E x \in Replies : HeldBy(x, q)'
      BY <1>0, <1>1, <1>p
         DEF ReplyTakes, ReplyGoes, Take, Unanswered, Shown, HeldBy, RequestsTypeOK, ReplyShape
    <2>3. \A q \in Requests, x \in Replies : Unanswered(q)' /\ HeldBy(x, q) => HeldBy(x, q)'
      BY <1>0, <1>1, <1>p
         DEF ReplyTakes, ReplyGoes, Take, Unanswered, HeldBy, RequestsTypeOK, ReplyShape
    <2> QED BY <2>1, <2>2, <2>3, StaysKnown DEF RequestsInv
  <1>8. PendingIsAsked'
    BY <1>0, <1>1, <1>p, RequestsAssumption
       DEF RequestsInv, ReplyTakes, ReplyGoes, Take, PendingIsAsked, AskShape, PlacesDiffer,
           HandsArePublished, ReplyShape, RequestsTypeOK, Requests, Services
  <1>9. RepliedOnce'
    BY <1>0, <1>1, <1>p, RequestsAssumption
       DEF RequestsInv, ReplyTakes, ReplyGoes, Take, RepliedOnce, AskShape, PlacesDiffer,
           HandsArePublished, ReplyShape, RequestsTypeOK, Requests, Services
  <1>10. RepliedIsAnswered'
    BY <1>0, <1>1, <1>p, RequestsAssumption
       DEF RequestsInv, ReplyTakes, ReplyGoes, Take, RepliedIsAnswered, ServiceOf, AskShape,
           PlacesDiffer, HandsArePublished, ReplyShape, RequestsTypeOK, Requests, Services
  <1>11. SessionIsSwept'
    BY <1>0, <1>1, <1>p, RequestsAssumption
       DEF RequestsInv, ReplyTakes, ReplyGoes, Take, SessionIsSwept, AskShape, PlacesDiffer,
           HandsArePublished, ReplyShape, RequestsTypeOK, Requests, Services
  <1>12. ApprovedByReply'
    <2>1. \A q \in Replies : says[q] = "always" => first'[q] = first[q] /\ says'[q] = says[q]
      BY <1>0 DEF ReplyTakes, ReplyShape, RequestsTypeOK
    <2>2. RulesSaid \subseteq RulesSaid'
      BY <2>1 DEF RulesSaid
    <2> QED BY <1>1, <2>2 DEF RequestsInv, ApprovedByReply
  <1>13. AllowedAreEntitled'
    <2>1. \A q \in Replies : says[q] = "always" => first'[q] = first[q] /\ says'[q] = says[q]
      BY <1>0 DEF ReplyTakes, ReplyShape, RequestsTypeOK
    <2>2. \A q \in Replies : first[q] # NoRequest => first'[q] = first[q]
      BY <1>0 DEF ReplyTakes, ReplyShape, RequestsTypeOK
    <2> QED BY <1>1, <2>1, <2>2, StaysEntitled DEF RequestsInv, AllowedAreEntitled
  <1> QED BY <1>1, Frames, <1>2, <1>3, <1>4, <1>5, <1>6, <1>7, <1>8, <1>9, <1>10, <1>11,
             <1>12, <1>13 DEF RequestsInv

LEMMA ReplyMissesKeeps ==
    ASSUME RequestsInv, NEW p \in Replies, NEW r \in Requests, ReplyMisses(p, r), RequestsTypeOK'
    PROVE  RequestsInv'
  <1>0. RequestsTypeOK /\ AskShape /\ PlacesDiffer /\ HandsArePublished /\ ReplyShape
    BY DEF RequestsInv
  <1>1. UNCHANGED <<pending, asked, asks, approved, asker, answer, replied, leaked, says, first,
                    holds, place, ended, closing, passed>>
    BY DEF ReplyMisses, ReplyGoes, askVars, replyVars, closeVars
  <1>2. ReplyShape'
    BY <1>0, <1>1, RequestsAssumption
       DEF RequestsInv, ReplyMisses, ReplyGoes, ReplyShape, AskShape, PlacesDiffer,
           HandsArePublished, RequestsTypeOK, Requests, Services
  <1>3. WalkShape'
    BY <1>0, <1>1, RequestsAssumption
       DEF RequestsInv, ReplyMisses, ReplyGoes, WalkShape, Covers, Concerns, AskShape,
           PlacesDiffer, HandsArePublished, ReplyShape, RequestsTypeOK, Requests, Services
  <1>4. NobodyForgotten'
    <2>1. \A q \in Requests : Unanswered(q)' => Unanswered(q) \/ Shown(q)'
      BY <1>0, <1>1 DEF ReplyMisses, ReplyGoes, Unanswered, Shown, RequestsTypeOK
    <2>2. \A q \in Requests :
             Unanswered(q)' /\ Shown(q) => Shown(q)' \/ \E x \in Replies : HeldBy(x, q)'
      BY <1>0, <1>1 DEF ReplyMisses, ReplyGoes, Unanswered, Shown, HeldBy, RequestsTypeOK
    <2>3. \A q \in Requests, x \in Replies : Unanswered(q)' /\ HeldBy(x, q) => HeldBy(x, q)'
      BY <1>0, <1>1 DEF ReplyMisses, ReplyGoes, Unanswered, HeldBy, RequestsTypeOK
    <2> QED BY <2>1, <2>2, <2>3, StaysKnown DEF RequestsInv
  <1>5. SessionIsSwept'
    BY <1>0, <1>1, RequestsAssumption
       DEF RequestsInv, ReplyMisses, ReplyGoes, SessionIsSwept, AskShape, PlacesDiffer,
           HandsArePublished, ReplyShape, RequestsTypeOK, Requests, Services
  <1> QED BY <1>1, Frames, <1>2, <1>3, <1>4, <1>5 DEF RequestsInv

LEMMA ReplySettlesKeeps ==
    ASSUME RequestsInv, NEW p \in Replies, ReplySettles(p), RequestsTypeOK'
    PROVE  RequestsInv'
  <1>0. RequestsTypeOK /\ AskShape /\ PlacesDiffer /\ HandsArePublished /\ ReplyShape
    BY DEF RequestsInv
  <1>1. UNCHANGED <<pending, asked, asks, asker, replied, leaked, says, first, holds, place,
                    ended, closing, passed>>
    BY DEF ReplySettles, Settled, ReplyGoes, askVars, replyVars, closeVars
  <1>2. AskShape'
    BY <1>0, <1>1, RequestsAssumption
       DEF RequestsInv, ReplySettles, Settled, ReplyGoes, AskShape, PlacesDiffer,
           HandsArePublished, ReplyShape, RequestsTypeOK, Requests, Services
  <1>3. PlacesDiffer'
    BY <1>0, <1>1, RequestsAssumption
       DEF RequestsInv, ReplySettles, Settled, ReplyGoes, PlacesDiffer, AskShape,
           HandsArePublished, ReplyShape, RequestsTypeOK, Requests, Services
  <1>4. ReplyShape'
    BY <1>0, <1>1, RequestsAssumption
       DEF RequestsInv, ReplySettles, Settled, ReplyGoes, ReplyShape, AskShape, PlacesDiffer,
           HandsArePublished, RequestsTypeOK, Requests, Services
  <1>5. WalkShape'
    BY <1>0, <1>1, RequestsAssumption
       DEF RequestsInv, ReplySettles, Settled, ReplyGoes, WalkShape, Covers, Concerns, AskShape,
           PlacesDiffer, HandsArePublished, ReplyShape, RequestsTypeOK, Requests, Services
  <1>6. PassedAreAnswered'
    BY <1>0, <1>1, RequestsAssumption
       DEF RequestsInv, ReplySettles, Settled, ReplyGoes, PassedAreAnswered, ServiceOf, AskShape,
           PlacesDiffer, HandsArePublished, ReplyShape, RequestsTypeOK, Requests, Services
  <1>7. NobodyForgotten'
    <2>1. \A q \in Requests : Unanswered(q)' => Unanswered(q) \/ Shown(q)'
      BY <1>0, <1>1
         DEF ReplySettles, Settled, ReplyGoes, Unanswered, Shown, RequestsTypeOK, ReplyShape
    <2>2. \A q \in Requests :
             Unanswered(q)' /\ Shown(q) => Shown(q)' \/ \E x \in Replies : HeldBy(x, q)'
      BY <1>0, <1>1
         DEF ReplySettles, Settled, ReplyGoes, Unanswered, Shown, HeldBy, RequestsTypeOK,
             ReplyShape
    <2>3. \A q \in Requests, x \in Replies : Unanswered(q)' /\ HeldBy(x, q) => HeldBy(x, q)'
      BY <1>0, <1>1
         DEF ReplySettles, Settled, ReplyGoes, Unanswered, HeldBy, RequestsTypeOK, ReplyShape
    <2> QED BY <2>1, <2>2, <2>3, StaysKnown DEF RequestsInv
  <1>8. RepliedIsAnswered'
    <2>1. first[p] \in Requests /\ replied[first[p]] = <<says[p]>>
      BY <1>0 DEF ReplySettles, ReplyShape, HandsArePublished, RequestsTypeOK
    <2>2. answer' = [answer EXCEPT ![first[p]] =
              IF answer[first[p]] = "open"
              THEN IF says[p] = "reject" THEN "rejected" ELSE "allowed"
              ELSE answer[first[p]]]
      BY DEF ReplySettles, Settled
    <2>3. replied[first[p]] # <<>> /\ Head(replied[first[p]]) = says[p]
      BY <2>1
    <2> QED BY <1>0, <1>1, <2>1, <2>2, <2>3 DEF RequestsInv, RepliedIsAnswered, RequestsTypeOK
  <1>9. SessionIsSwept'
    BY <1>0, <1>1, RequestsAssumption
       DEF RequestsInv, ReplySettles, Settled, ReplyGoes, SessionIsSwept, AskShape, PlacesDiffer,
           HandsArePublished, ReplyShape, RequestsTypeOK, Requests, Services
  <1>10. ApprovedByReply'
    <2>1. says[p] = "always" => AlwaysOf[first[p]] \subseteq RulesSaid
      BY DEF RulesSaid
    <2>2. RulesSaid' = RulesSaid BY <1>1 DEF RulesSaid
    <2> QED BY <2>1, <2>2 DEF RequestsInv, ApprovedByReply, ReplySettles
  <1>11. AllowedAreEntitled'
    <2>1. \A q \in Permissions : answer'[q] = "allowed" => answer[q] = "allowed" \/ first[p] = q
      BY <1>0 DEF ReplySettles, Settled, ReplyShape, RequestsTypeOK
    <2>2. \A q \in Permissions : answer'[q] = "allowed" => Entitled(q)
      BY <2>1 DEF RequestsInv, AllowedAreEntitled, Entitled
    <2> QED BY <1>1, <2>2, StaysEntitled DEF AllowedAreEntitled
  <1> QED BY <1>1, Frames, <1>2, <1>3, <1>4, <1>5, <1>6, <1>7, <1>8, <1>9, <1>10, <1>11 DEF RequestsInv

LEMMA ReplyWalksKeeps ==
    ASSUME RequestsInv, NEW p \in Replies, ReplyWalks(p), RequestsTypeOK'
    PROVE  RequestsInv'
  <1>0. RequestsTypeOK /\ AskShape /\ PlacesDiffer /\ HandsArePublished /\ ReplyShape
    BY DEF RequestsInv
  <1>1. UNCHANGED <<asked, asks, approved, asker, answer, leaked, says, first, ended, closing,
                    passed>>
    BY DEF ReplyWalks, Take, ReplyGoes, Ahead, askVars, replyVars, closeVars
  <1>r. PICK r \in Ahead(p) :
           /\ \A other \in Ahead(p) : asked[r] <= asked[other]
           /\ Take(p, r, says[p])
           /\ place' = [place EXCEPT ![p] = asked[r]]
    BY DEF ReplyWalks
  <1>q. r \in pending /\ r \in Requests /\ r \in Permissions BY DEF Ahead, Requests
  <1>b. replied[r] = <<>> BY <1>0, <1>r, <1>q DEF AskShape
  <1>c. Append(replied[r], says[p]) = <<says[p]>> BY <1>b
  <1>d. replied' = [replied EXCEPT ![r] = Append(@, says[p])] BY <1>r, <1>q DEF Take
  <1>p. replied[r] = <<>> /\ replied' = [replied EXCEPT ![r] = <<says[p]>>]
    BY <1>b, <1>c, <1>d
  <1>e. \A q \in Replies : first[q] # r /\ holds[q] # r
    <2>1. r # NoRequest BY <1>q, RequestsAssumption
    <2>2. \A k : <<k>> # <<>> OBVIOUS
    <2> QED BY <1>0, <1>b, <2>1, <2>2 DEF HandsArePublished
  <1>t. reply[p] = "walking" /\ reply' = [reply EXCEPT ![p] = "cascading"]
    BY DEF ReplyWalks, ReplyGoes
  <1>2. AskShape'
    BY <1>0, <1>1, <1>r, <1>p, <1>q, <1>t, RequestsAssumption
       DEF RequestsInv, Take, AskShape, PlacesDiffer, HandsArePublished, ReplyShape,
           RequestsTypeOK, Requests, Services
  <1>3. PlacesDiffer'
    BY <1>0, <1>1, <1>r, <1>p, <1>q, <1>t, RequestsAssumption
       DEF RequestsInv, Take, PlacesDiffer, AskShape, HandsArePublished, ReplyShape,
           RequestsTypeOK, Requests, Services
  <1>4. HandsArePublished'
    <2>2. holds' = [holds EXCEPT ![p] = r] BY <1>r DEF Take
    <2> QED BY <1>0, <1>1, <1>p, <1>e, <2>2 DEF HandsArePublished, RequestsTypeOK
  <1>5. ReplyShape'
    BY <1>0, <1>1, <1>r, <1>p, <1>q, <1>t, RequestsAssumption
       DEF RequestsInv, Take, ReplyShape, AskShape, PlacesDiffer, HandsArePublished,
           RequestsTypeOK, Requests, Services
  <1>6. WalkShape'
    <2>1. /\ pending' = pending \ {r} /\ holds' = [holds EXCEPT ![p] = r]
          /\ place' = [place EXCEPT ![p] = asked[r]] /\ reply' = [reply EXCEPT ![p] = "cascading"]
      BY <1>r DEF ReplyWalks, ReplyGoes, Take
    <2>2. \A q \in Replies, x \in Permissions :
             Concerns(q, x)' = Concerns(q, x) /\ Covers(q, x)' = Covers(q, x)
      BY <1>1 DEF Concerns, Covers
    <2>3. r \in Permissions /\ Concerns(p, r)
      BY <1>r DEF Ahead
    <2>4. \A x \in pending' \cap Permissions : asked[x] <= asked[r] => ~Covers(p, x)
      <3> SUFFICES ASSUME NEW x \in pending' \cap Permissions, asked[x] <= asked[r], Covers(p, x)
                   PROVE  FALSE
        OBVIOUS
      <3>1. x \in pending /\ x # r /\ x \in Requests BY <2>1 DEF Requests
      <3>2. Concerns(p, x)
        BY DEF RequestsInv, WalkShape, ReplyWalks, Covers, Concerns
      <3>3. asked[x] > place[p]
        BY <1>0, <3>1 DEF RequestsInv, WalkShape, ReplyWalks, RequestsTypeOK
      <3>a. x \in Ahead(p) BY <3>1, <3>2, <3>3 DEF Ahead
      <3>4. asked[r] <= asked[x] BY <1>r, <3>a
      <3>b. asked[x] \in Nat /\ asked[r] \in Nat BY <1>0, <1>q, <3>1 DEF RequestsTypeOK
      <3>5. asked[x] = asked[r] BY <3>4, <3>b
      <3>6. answer[x] # "none" /\ answer[r] # "none"
        BY <1>0, <1>q, <3>1 DEF AskShape
      <3> QED BY <1>0, <1>q, <3>1, <3>5, <3>6 DEF PlacesDiffer
    <2>5. ASSUME NEW q \in Replies
          PROVE  /\ reply'[q] \in {"walking", "cascading"} /\ says'[q] = "always" =>
                      AlwaysOf[first'[q]] \subseteq approved'
                 /\ reply'[q] = "cascading" => holds'[q] \in Permissions /\ Concerns(q, holds'[q])
                 /\ reply'[q] \in {"walking", "cascading"} =>
                      \A x \in pending' \cap Permissions : asked'[x] <= place'[q] => ~Covers(q, x)
      <3>1. CASE q = p
        BY <1>0, <1>1, <2>1, <2>3, <2>4, <3>1 DEF RequestsInv, WalkShape, ReplyWalks, RequestsTypeOK
      <3>2. CASE q # p
        BY <1>0, <1>1, <2>1, <3>2 DEF RequestsInv, WalkShape, RequestsTypeOK
      <3> QED BY <3>1, <3>2
    <2>6. \A q \in Replies :
             reply'[q] = "cascading" => (Concerns(q, holds[q])' <=> Concerns(q, holds'[q]))
      BY <1>1 DEF Concerns
    <2> QED BY <2>2, <2>5, <2>6 DEF WalkShape
  <1>7. PassedAreAnswered'
    BY <1>0, <1>1, <1>r, <1>p, <1>q, <1>t, RequestsAssumption
       DEF RequestsInv, Take, PassedAreAnswered, ServiceOf, AskShape, PlacesDiffer,
           HandsArePublished, ReplyShape, RequestsTypeOK, Requests, Services
  <1>8. NobodyForgotten'
    <2>1. \A q \in Requests : Unanswered(q)' => Unanswered(q) \/ Shown(q)'
      BY <1>0, <1>1, <1>r, <1>p, <1>q, <1>t DEF Take, Unanswered, Shown, RequestsTypeOK
    <2>2. \A q \in Requests :
             Unanswered(q)' /\ Shown(q) => Shown(q)' \/ \E x \in Replies : HeldBy(x, q)'
      BY <1>0, <1>1, <1>r, <1>p, <1>q, <1>t DEF Take, Unanswered, Shown, HeldBy, RequestsTypeOK
    <2>3. \A q \in Requests, x \in Replies : Unanswered(q)' /\ HeldBy(x, q) => HeldBy(x, q)'
      BY <1>0, <1>1, <1>r, <1>p, <1>q, <1>t DEF Take, Unanswered, HeldBy, RequestsTypeOK
    <2> QED BY <2>1, <2>2, <2>3, StaysKnown DEF RequestsInv
  <1>9. PendingIsAsked'
    BY <1>0, <1>1, <1>r, <1>p, <1>q, <1>t, RequestsAssumption
       DEF RequestsInv, Take, PendingIsAsked, AskShape, PlacesDiffer, HandsArePublished,
           ReplyShape, RequestsTypeOK, Requests, Services
  <1>10. RepliedOnce'
    BY <1>0, <1>1, <1>r, <1>p, <1>q, <1>t, RequestsAssumption
       DEF RequestsInv, Take, RepliedOnce, AskShape, PlacesDiffer, HandsArePublished, ReplyShape,
           RequestsTypeOK, Requests, Services
  <1>11. RepliedIsAnswered'
    BY <1>0, <1>1, <1>r, <1>p, <1>q, <1>t, RequestsAssumption
       DEF RequestsInv, Take, RepliedIsAnswered, ServiceOf, AskShape, PlacesDiffer,
           HandsArePublished, ReplyShape, RequestsTypeOK, Requests, Services
  <1>12. SessionIsSwept'
    BY <1>0, <1>1, <1>r, <1>p, <1>q, <1>t, RequestsAssumption
       DEF RequestsInv, Take, SessionIsSwept, AskShape, PlacesDiffer, HandsArePublished,
           ReplyShape, RequestsTypeOK, Requests, Services
  <1> QED BY <1>1, Frames, <1>2, <1>3, <1>4, <1>5, <1>6, <1>7, <1>8, <1>9, <1>10, <1>11,
             <1>12 DEF RequestsInv

LEMMA ReplyEndsKeeps ==
    ASSUME RequestsInv, NEW p \in Replies, ReplyEnds(p), RequestsTypeOK'
    PROVE  RequestsInv'
  <1>0. RequestsTypeOK /\ AskShape /\ PlacesDiffer /\ HandsArePublished /\ ReplyShape
    BY DEF RequestsInv
  <1>1. UNCHANGED <<pending, asked, asks, approved, asker, answer, replied, leaked, says, first,
                    holds, place, closing, passed>>
    BY DEF ReplyEnds, ReplyGoes, Ahead, askVars, replyVars, closeVars
  <1>2. PlacesDiffer'
    BY <1>0, <1>1, RequestsAssumption
       DEF RequestsInv, ReplyEnds, ReplyGoes, Ahead, PlacesDiffer, AskShape, HandsArePublished,
           ReplyShape, RequestsTypeOK, Requests, Services
  <1>3. ReplyShape'
    BY <1>0, <1>1, RequestsAssumption
       DEF RequestsInv, ReplyEnds, ReplyGoes, Ahead, ReplyShape, AskShape, PlacesDiffer,
           HandsArePublished, RequestsTypeOK, Requests, Services
  <1>4. WalkShape'
    BY <1>0, <1>1, RequestsAssumption
       DEF RequestsInv, ReplyEnds, ReplyGoes, Ahead, WalkShape, Covers, Concerns, AskShape,
           PlacesDiffer, HandsArePublished, ReplyShape, RequestsTypeOK, Requests, Services
  <1>5. NobodyForgotten'
    <2>1. \A q \in Requests : Unanswered(q)' => Unanswered(q) \/ Shown(q)'
      BY <1>0, <1>1 DEF ReplyEnds, ReplyGoes, Ahead, Unanswered, Shown, RequestsTypeOK
    <2>2. \A q \in Requests :
             Unanswered(q)' /\ Shown(q) => Shown(q)' \/ \E x \in Replies : HeldBy(x, q)'
      BY <1>0, <1>1 DEF ReplyEnds, ReplyGoes, Ahead, Unanswered, Shown, HeldBy, RequestsTypeOK
    <2>3. \A q \in Requests, x \in Replies : Unanswered(q)' /\ HeldBy(x, q) => HeldBy(x, q)'
      BY <1>0, <1>1 DEF ReplyEnds, ReplyGoes, Ahead, Unanswered, HeldBy, RequestsTypeOK
    <2> QED BY <2>1, <2>2, <2>3, StaysKnown DEF RequestsInv
  <1>6. SessionIsSwept'
    <2>1. reply' = [reply EXCEPT ![p] = "done"] /\ ended' = [ended EXCEPT ![p] = asks]
      BY DEF ReplyEnds, ReplyGoes
    <2>2. ASSUME NEW x \in pending \cap Permissions PROVE ~Covers(p, x)
      <3> SUFFICES ASSUME Covers(p, x) PROVE FALSE OBVIOUS
      <3>1. Concerns(p, x)
        BY DEF RequestsInv, WalkShape, ReplyEnds, Covers, Concerns
      <3>2. asked[x] > place[p]
        BY <1>0 DEF RequestsInv, WalkShape, ReplyEnds, RequestsTypeOK
      <3> QED BY <3>1, <3>2 DEF ReplyEnds, Ahead
    <2>3. ASSUME NEW q \in Replies, reply'[q] = "done", ended'[q] > 0,
                 NEW x \in pending' \cap Permissions, Covers(q, x)
          PROVE  asked'[x] > ended'[q]
      <3>1. CASE q = p BY <1>1, <2>2, <2>3, <3>1
      <3>2. CASE q # p
        BY ZenonT(60), <1>0, <1>1, <2>1, <2>3, <3>2 DEF RequestsInv, SessionIsSwept, Covers, RequestsTypeOK
      <3> QED BY <3>1, <3>2
    <2> QED BY <1>1, <2>3 DEF SessionIsSwept, Covers
  <1> QED BY <1>1, Frames, <1>2, <1>3, <1>4, <1>5, <1>6 DEF RequestsInv

LEMMA ReplyCascadesKeeps ==
    ASSUME RequestsInv, NEW p \in Replies, ReplyCascades(p), RequestsTypeOK'
    PROVE  RequestsInv'
  <1>0. RequestsTypeOK /\ AskShape /\ PlacesDiffer /\ HandsArePublished /\ ReplyShape
    BY DEF RequestsInv
  <1>1. UNCHANGED <<pending, asked, asks, approved, asker, replied, leaked, says, first, holds,
                    place, ended, closing, passed>>
    BY DEF ReplyCascades, Settled, ReplyGoes, askVars, replyVars, closeVars
  <1>2. AskShape'
    BY <1>0, <1>1, RequestsAssumption
       DEF RequestsInv, ReplyCascades, Settled, ReplyGoes, AskShape, PlacesDiffer,
           HandsArePublished, ReplyShape, RequestsTypeOK, Requests, Services
  <1>3. PlacesDiffer'
    BY <1>0, <1>1, RequestsAssumption
       DEF RequestsInv, ReplyCascades, Settled, ReplyGoes, PlacesDiffer, AskShape,
           HandsArePublished, ReplyShape, RequestsTypeOK, Requests, Services
  <1>4. ReplyShape'
    BY <1>0, <1>1, RequestsAssumption
       DEF RequestsInv, ReplyCascades, Settled, ReplyGoes, ReplyShape, AskShape, PlacesDiffer,
           HandsArePublished, RequestsTypeOK, Requests, Services
  <1>5. WalkShape'
    BY <1>0, <1>1, RequestsAssumption
       DEF RequestsInv, ReplyCascades, Settled, ReplyGoes, WalkShape, Covers, Concerns, AskShape,
           PlacesDiffer, HandsArePublished, ReplyShape, RequestsTypeOK, Requests, Services
  <1>6. PassedAreAnswered'
    BY <1>0, <1>1, RequestsAssumption
       DEF RequestsInv, ReplyCascades, Settled, ReplyGoes, PassedAreAnswered, ServiceOf, AskShape,
           PlacesDiffer, HandsArePublished, ReplyShape, RequestsTypeOK, Requests, Services
  <1>7. NobodyForgotten'
    <2>1. \A q \in Requests : Unanswered(q)' => Unanswered(q) \/ Shown(q)'
      BY <1>0, <1>1 DEF ReplyCascades, Settled, ReplyGoes, Unanswered, Shown, RequestsTypeOK
    <2>2. \A q \in Requests :
             Unanswered(q)' /\ Shown(q) => Shown(q)' \/ \E x \in Replies : HeldBy(x, q)'
      BY <1>0, <1>1 DEF ReplyCascades, Settled, ReplyGoes, Unanswered, Shown, HeldBy, RequestsTypeOK
    <2>3. \A q \in Requests, x \in Replies : Unanswered(q)' /\ HeldBy(x, q) => HeldBy(x, q)'
      BY <1>0, <1>1 DEF ReplyCascades, Settled, ReplyGoes, Unanswered, HeldBy, RequestsTypeOK
    <2> QED BY <2>1, <2>2, <2>3, StaysKnown DEF RequestsInv
  <1>8. RepliedIsAnswered'
    <2>a. holds[p] \in Permissions BY DEF RequestsInv, WalkShape, ReplyCascades
    <2>b. holds[p] \in Requests /\ holds[p] # NoRequest
      BY <2>a, RequestsAssumption DEF Requests
    <2>1. holds[p] \in Requests /\ replied[holds[p]] = <<says[p]>>
      BY <1>0, <2>b DEF HandsArePublished
    <2>2. answer' = [answer EXCEPT ![holds[p]] =
              IF answer[holds[p]] = "open"
              THEN IF says[p] = "reject" THEN "rejected" ELSE "allowed"
              ELSE answer[holds[p]]]
      BY DEF ReplyCascades, Settled
    <2>3. replied[holds[p]] # <<>> /\ Head(replied[holds[p]]) = says[p]
      BY <2>1
    <2> QED BY <1>0, <1>1, <2>1, <2>2, <2>3 DEF RequestsInv, RepliedIsAnswered, RequestsTypeOK
  <1>9. SessionIsSwept'
    BY <1>0, <1>1, RequestsAssumption
       DEF RequestsInv, ReplyCascades, Settled, ReplyGoes, SessionIsSwept, AskShape, PlacesDiffer,
           HandsArePublished, ReplyShape, RequestsTypeOK, Requests, Services
  <1>10. AllowedAreEntitled'
    <2>1. \A q \in Permissions : answer'[q] = "allowed" => answer[q] = "allowed" \/ q = holds[p]
      BY <1>0 DEF ReplyCascades, Settled, RequestsTypeOK
    <2>2. answer'[holds[p]] = "allowed" /\ answer[holds[p]] # "allowed" => says[p] = "always"
      BY <1>0 DEF ReplyCascades, Settled, ReplyShape, RequestsTypeOK
    <2>3. holds[p] \in Permissions /\ Concerns(p, holds[p])
      BY DEF RequestsInv, WalkShape, ReplyCascades
    <2>4. says[p] = "always" => Entitled(holds[p])
      BY <2>3 DEF RequestsInv, ApprovedByReply, Concerns, Entitled
    <2>5. \A q \in Permissions : answer'[q] = "allowed" => Entitled(q)
      BY <2>1, <2>2, <2>4 DEF RequestsInv, AllowedAreEntitled
    <2> QED BY <1>1, <2>5, StaysEntitled DEF AllowedAreEntitled
  <1> QED BY <1>1, Frames, <1>2, <1>3, <1>4, <1>5, <1>6, <1>7, <1>8, <1>9, <1>10 DEF RequestsInv

LEMMA ReplyDiesKeeps ==
    ASSUME RequestsInv, NEW p \in Replies, ReplyDies(p), RequestsTypeOK'
    PROVE  RequestsInv'
  <1>0. RequestsTypeOK /\ AskShape /\ PlacesDiffer /\ HandsArePublished /\ ReplyShape
    BY DEF RequestsInv
  <1>1. UNCHANGED <<pending, asked, asks, approved, asker, answer, replied, leaked, says, first,
                    holds, place, ended, closing, passed>>
    BY DEF ReplyDies, ReplyGoes, askVars, replyVars, closeVars
  <1>2. ReplyShape'
    BY <1>0, <1>1, RequestsAssumption
       DEF RequestsInv, ReplyDies, ReplyGoes, ReplyShape, AskShape, PlacesDiffer,
           HandsArePublished, RequestsTypeOK, Requests, Services
  <1>3. WalkShape'
    BY <1>0, <1>1, RequestsAssumption
       DEF RequestsInv, ReplyDies, ReplyGoes, WalkShape, Covers, Concerns, AskShape, PlacesDiffer,
           HandsArePublished, ReplyShape, RequestsTypeOK, Requests, Services
  <1>4. NobodyForgotten'
    <2>1. \A q \in Requests : Unanswered(q)' => Unanswered(q) \/ Shown(q)'
      BY <1>0, <1>1 DEF ReplyDies, ReplyGoes, Unanswered, Shown, RequestsTypeOK
    <2>2. \A q \in Requests :
             Unanswered(q)' /\ Shown(q) => Shown(q)' \/ \E x \in Replies : HeldBy(x, q)'
      BY <1>0, <1>1 DEF ReplyDies, ReplyGoes, Unanswered, Shown, HeldBy, RequestsTypeOK
    <2>3. \A q \in Requests, x \in Replies : Unanswered(q)' /\ HeldBy(x, q) => HeldBy(x, q)'
      BY <1>0, <1>1 DEF ReplyDies, ReplyGoes, Unanswered, HeldBy, RequestsTypeOK
    <2> QED BY <2>1, <2>2, <2>3, StaysKnown DEF RequestsInv
  <1>5. SessionIsSwept'
    BY <1>0, <1>1, RequestsAssumption
       DEF RequestsInv, ReplyDies, ReplyGoes, SessionIsSwept, AskShape, PlacesDiffer,
           HandsArePublished, ReplyShape, RequestsTypeOK, Requests, Services
  <1> QED BY <1>1, Frames, <1>2, <1>3, <1>4, <1>5 DEF RequestsInv

LEMMA CloseBeginsKeeps ==
    ASSUME RequestsInv, NEW s \in Services, CloseBegins(s), RequestsTypeOK'
    PROVE  RequestsInv'
  <1>0. RequestsTypeOK /\ AskShape /\ PlacesDiffer /\ HandsArePublished /\ ReplyShape
    BY DEF RequestsInv
  <1>1. UNCHANGED <<pending, asked, asks, approved, asker, answer, replied, leaked, reply, says,
                    first, holds, place, ended, passed>>
    BY DEF CloseBegins, askVars, replyVars, closeVars
  <1>2. NobodyForgotten'
    <2>1. \A q \in Requests : Unanswered(q)' => Unanswered(q) \/ Shown(q)'
      BY <1>0, <1>1 DEF CloseBegins, Unanswered, Shown, RequestsTypeOK, ServiceOf, Services
    <2>2. \A q \in Requests :
             Unanswered(q)' /\ Shown(q) => Shown(q)' \/ \E x \in Replies : HeldBy(x, q)'
      BY <1>0, <1>1 DEF CloseBegins, Unanswered, Shown, HeldBy, RequestsTypeOK, ServiceOf, Services
    <2>3. \A q \in Requests, x \in Replies : Unanswered(q)' /\ HeldBy(x, q) => HeldBy(x, q)'
      BY <1>0, <1>1 DEF CloseBegins, Unanswered, HeldBy, RequestsTypeOK, ServiceOf, Services
    <2> QED BY <2>1, <2>2, <2>3, StaysKnown DEF RequestsInv
  <1>3. RepliedIsAnswered'
    BY <1>0, <1>1, RequestsAssumption
       DEF RequestsInv, CloseBegins, RepliedIsAnswered, ServiceOf, AskShape, PlacesDiffer,
           HandsArePublished, ReplyShape, RequestsTypeOK, Requests, Services
  <1> QED BY <1>1, Frames, <1>2, <1>3 DEF RequestsInv

LEMMA CloseRejectsKeeps ==
    ASSUME RequestsInv, NEW s \in Services, CloseRejects(s), RequestsTypeOK'
    PROVE  RequestsInv'
  <1>0. RequestsTypeOK /\ AskShape /\ PlacesDiffer /\ HandsArePublished /\ ReplyShape
    BY DEF RequestsInv
  <1>1. UNCHANGED <<pending, asked, asks, approved, asker, replied, leaked, reply, says, first,
                    holds, place, ended, closing>>
    BY DEF CloseRejects, Settled, Remaining, askVars, replyVars, closeVars
  <1>r. PICK r \in Remaining(s) :
           /\ \A other \in Remaining(s) : asked[r] <= asked[other]
           /\ Settled(r, "rejected")
           /\ passed' = [passed EXCEPT ![s] = asked[r]]
    BY DEF CloseRejects
  <1>q. r \in pending /\ r \in Requests BY <1>0 DEF Remaining, RequestsTypeOK
  <1>2. AskShape'
    BY <1>0, <1>1, <1>r, <1>q, RequestsAssumption
       DEF RequestsInv, CloseRejects, Settled, Remaining, AskShape, PlacesDiffer,
           HandsArePublished, ReplyShape, RequestsTypeOK, Requests, Services
  <1>3. PlacesDiffer'
    BY <1>0, <1>1, <1>r, <1>q, RequestsAssumption
       DEF RequestsInv, CloseRejects, Settled, Remaining, PlacesDiffer, AskShape,
           HandsArePublished, ReplyShape, RequestsTypeOK, Requests, Services
  <1>4. PassedAreAnswered'
    <2>1. answer' = [answer EXCEPT ![r] = IF answer[r] = "open" THEN "rejected" ELSE answer[r]]
      BY <1>r DEF Settled
    <2>2. passed' = [passed EXCEPT ![s] = asked[r]] BY <1>r
    <2>3. ASSUME NEW q \in pending, asked[q] <= passed'[ServiceOf(q)] PROVE answer'[q] # "open"
      <3>0. q \in Requests /\ r \in Requests /\ r \in pending /\ ServiceOf(q) \in Services
        BY <1>0, <1>r DEF Remaining, RequestsTypeOK, ServiceOf, Services
      <3>1. CASE asked[q] <= passed[ServiceOf(q)]
        BY <1>0, <2>1, <3>0, <3>1 DEF RequestsInv, PassedAreAnswered, RequestsTypeOK
      <3>2. CASE ~(asked[q] <= passed[ServiceOf(q)])
        <4>1. ServiceOf(q) = s /\ asked[q] <= asked[r]
          BY <1>0, <2>2, <2>3, <3>0, <3>2 DEF RequestsTypeOK
        <4>2. q \in Remaining(s)
          BY <1>0, <3>0, <3>2, <4>1 DEF RequestsTypeOK, Remaining
        <4>3. asked[r] = asked[q]
          BY <1>0, <1>r, <3>0, <4>1, <4>2 DEF RequestsTypeOK
        <4>4. q = r
          BY <1>0, <3>0, <4>3 DEF AskShape, PlacesDiffer
        <4> QED BY <1>0, <2>1, <3>0, <4>4 DEF RequestsTypeOK
      <3> QED BY <3>1, <3>2
    <2> QED BY <1>1, <2>3 DEF PassedAreAnswered, ServiceOf
  <1>5. NobodyForgotten'
    <2>1. \A q \in Requests : Unanswered(q)' => Unanswered(q) \/ Shown(q)'
      BY <1>0, <1>1, <1>r, <1>q
         DEF CloseRejects, Settled, Remaining, Unanswered, Shown, RequestsTypeOK, ServiceOf,
             Services
    <2>2. \A q \in Requests :
             Unanswered(q)' /\ Shown(q) => Shown(q)' \/ \E x \in Replies : HeldBy(x, q)'
      BY <1>0, <1>1, <1>r, <1>q
         DEF CloseRejects, Settled, Remaining, Unanswered, Shown, HeldBy, RequestsTypeOK,
             ServiceOf, Services
    <2>3. \A q \in Requests, x \in Replies : Unanswered(q)' /\ HeldBy(x, q) => HeldBy(x, q)'
      BY <1>0, <1>1, <1>r, <1>q
         DEF CloseRejects, Settled, Remaining, Unanswered, HeldBy, RequestsTypeOK, ServiceOf,
             Services
    <2> QED BY <2>1, <2>2, <2>3, StaysKnown DEF RequestsInv
  <1>6. RepliedIsAnswered'
    BY <1>0, <1>1, <1>r, <1>q, RequestsAssumption
       DEF RequestsInv, CloseRejects, Settled, Remaining, RepliedIsAnswered, ServiceOf, AskShape,
           PlacesDiffer, HandsArePublished, ReplyShape, RequestsTypeOK, Requests, Services
  <1>7. AllowedAreEntitled'
    <2>1. \A q \in Permissions : answer'[q] = "allowed" => answer[q] = "allowed"
      BY <1>0, <1>r DEF Settled, RequestsTypeOK, Requests
    <2> QED BY <1>1, <2>1, StaysEntitled DEF RequestsInv, AllowedAreEntitled
  <1> QED BY <1>1, Frames, <1>2, <1>3, <1>4, <1>5, <1>6, <1>7 DEF RequestsInv

LEMMA CloseClearsKeeps ==
    ASSUME RequestsInv, NEW s \in Services, CloseClears(s), RequestsTypeOK'
    PROVE  RequestsInv'
  <1>0. RequestsTypeOK /\ AskShape /\ PlacesDiffer /\ HandsArePublished /\ ReplyShape
    BY DEF RequestsInv
  <1>1. UNCHANGED <<asked, asks, approved, asker, answer, replied, leaked, reply, says, first,
                    holds, place, ended, passed>>
    BY DEF CloseClears, Remaining, askVars, replyVars, closeVars
  <1>2. AskShape'
    BY <1>0, <1>1, RequestsAssumption
       DEF RequestsInv, CloseClears, Remaining, AskShape, PlacesDiffer, HandsArePublished,
           ReplyShape, RequestsTypeOK, Requests, Services
  <1>3. WalkShape'
    BY <1>0, <1>1, RequestsAssumption
       DEF RequestsInv, CloseClears, Remaining, WalkShape, Covers, Concerns, AskShape,
           PlacesDiffer, HandsArePublished, ReplyShape, RequestsTypeOK, Requests, Services
  <1>4. PassedAreAnswered'
    BY <1>0, <1>1, RequestsAssumption
       DEF RequestsInv, CloseClears, Remaining, PassedAreAnswered, ServiceOf, AskShape,
           PlacesDiffer, HandsArePublished, ReplyShape, RequestsTypeOK, Requests, Services
  <1>5. NobodyForgotten'
    <2>1. \A q \in Requests : Unanswered(q)' => Unanswered(q) \/ Shown(q)'
      BY <1>0, <1>1
         DEF CloseClears, Remaining, Unanswered, Shown, RequestsTypeOK, ServiceOf, Services,
             RequestsInv, PassedAreAnswered, PlacesDiffer
    <2>2. \A q \in Requests :
             Unanswered(q)' /\ Shown(q) => Shown(q)' \/ \E x \in Replies : HeldBy(x, q)'
      BY <1>0, <1>1
         DEF CloseClears, Remaining, Unanswered, Shown, HeldBy, RequestsTypeOK, ServiceOf,
             Services, RequestsInv, PassedAreAnswered, PlacesDiffer
    <2>3. \A q \in Requests, x \in Replies : Unanswered(q)' /\ HeldBy(x, q) => HeldBy(x, q)'
      BY <1>0, <1>1
         DEF CloseClears, Remaining, Unanswered, HeldBy, RequestsTypeOK, ServiceOf, Services,
             RequestsInv, PassedAreAnswered, PlacesDiffer
    <2> QED BY <2>1, <2>2, <2>3, StaysKnown DEF RequestsInv
  <1>6. PendingIsAsked'
    BY <1>0, <1>1, RequestsAssumption
       DEF RequestsInv, CloseClears, Remaining, PendingIsAsked, AskShape, PlacesDiffer,
           HandsArePublished, ReplyShape, RequestsTypeOK, Requests, Services
  <1>7. RepliedIsAnswered'
    BY <1>0, <1>1, RequestsAssumption
       DEF RequestsInv, CloseClears, Remaining, RepliedIsAnswered, ServiceOf, AskShape,
           PlacesDiffer, HandsArePublished, ReplyShape, RequestsTypeOK, Requests, Services
  <1>8. SessionIsSwept'
    BY <1>0, <1>1, RequestsAssumption
       DEF RequestsInv, CloseClears, Remaining, SessionIsSwept, AskShape, PlacesDiffer,
           HandsArePublished, ReplyShape, RequestsTypeOK, Requests, Services
  <1> QED BY <1>1, Frames, <1>2, <1>3, <1>4, <1>5, <1>6, <1>7, <1>8 DEF RequestsInv

-----------------------------------------------------------------------------
LEMMA InitRequestsInv == RequestsInit => RequestsInv
  <1> SUFFICES ASSUME RequestsInit PROVE RequestsInv OBVIOUS
  <1> USE RequestsAssumption DEF RequestsInit, Requests, Services
  <1>1. RequestsTypeOK BY DEF RequestsTypeOK
  <1>2. AskShape /\ PlacesDiffer /\ HandsArePublished /\ ReplyShape
    BY DEF AskShape, PlacesDiffer, HandsArePublished, ReplyShape
  <1>3. WalkShape /\ PassedAreAnswered BY DEF WalkShape, PassedAreAnswered
  <1>4. NobodyForgotten BY DEF NobodyForgotten, Unanswered
  <1>5. PendingIsAsked /\ RepliedIsAnswered /\ SessionIsSwept
    BY DEF PendingIsAsked, RepliedIsAnswered, SessionIsSwept
  <1>6. RepliedOnce BY DEF RepliedOnce
  <1>7. ApprovedByReply /\ AllowedAreEntitled BY DEF ApprovedByReply, AllowedAreEntitled
  <1> QED BY <1>1, <1>2, <1>3, <1>4, <1>5, <1>6, <1>7 DEF RequestsInv

LEMMA StepRequestsInv ==
    ASSUME RequestsInv, [RequestsNext]_requestVars
    PROVE  RequestsInv'
  <1>1. RequestsTypeOK' BY TypesKept
  <1>2. CASE UNCHANGED requestVars
    BY <1>1, <1>2, Frames DEF RequestsInv, requestVars, askVars, replyVars, closeVars
  <1>3. CASE AskNext
    BY <1>1, <1>3, AskingIs, AskBeginsKeeps, AskDecidesKeeps, AskRegistersKeeps, AskAwaitsKeeps,
       AskReturnsKeeps, AskDiesKeeps
    DEF AskNext
  <1>4. CASE ReplyNext
    BY <1>1, <1>4, ReplyTakesKeeps, ReplyMissesKeeps, ReplySettlesKeeps, ReplyWalksKeeps,
       ReplyEndsKeeps, ReplyCascadesKeeps, ReplyDiesKeeps
    DEF ReplyNext
  <1>5. CASE CloseNext
    BY <1>1, <1>5, CloseBeginsKeeps, CloseRejectsKeeps, CloseClearsKeeps DEF CloseNext
  <1> QED BY <1>2, <1>3, <1>4, <1>5 DEF RequestsNext

\* What the invariant says beyond itself: who waits is pending, in hand, or
\* dropped, and who was allowed was allowed by a reply.
LEMMA InvIsEnough == RequestsInv => RequestsContract
  <1> SUFFICES ASSUME RequestsInv PROVE RequestsContract OBVIOUS
  <1>1. NoForgottenAsker
    BY DEF RequestsInv, NobodyForgotten, Unanswered, Shown, HeldBy, NoForgottenAsker, Dropped
  <1>2. AllowedByReply
    BY DEF RequestsInv, AllowedAreEntitled, Entitled, RulesSaid, AllowedByReply
  <1> QED BY <1>1, <1>2 DEF RequestsInv, RequestsContract

\* The inductive invariant of requests and replies: in every state a tool that
\* waits is in the map or in the hand of the one reply that took it out, a walk
\* has passed only what does not concern it, and rules only come of replies.
THEOREM RequestsInvHolds == RequestsSpec => []RequestsInv
  BY InitRequestsInv, StepRequestsInv, PTL DEF RequestsSpec

\* A request is answered once, by somebody entitled to, and until then it is
\* shown and can be answered: however the replies of permission/index.ts and
\* question/index.ts, their cascades, interruptions and disposals overlap.
THEOREM RequestsAreAnswered == RequestsSpec => []RequestsContract
  BY RequestsInvHolds, InvIsEnough, PTL
=============================================================================
