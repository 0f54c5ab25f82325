--------------------------- MODULE FileLockProofs ---------------------------
(***************************************************************************)
(* Proofs about FileLock, for any number of processes and of crashes, any  *)
(* staleness and lag: until a breaker is removed that is not the one that  *)
(* was found stale, or a lock is found stale that is given back, one       *)
(* process has the lock and keeps it, provided that heartbeats write the   *)
(* present time (which flock.ts does).                                     *)
(***************************************************************************)
EXTENDS FileLock, TLAPS

\* Steps of a process that made the lock directory and has not given it back.
Making   == {"unbreak won", "heartbeat"}
Has      == {"hold", "remove"}
Alive(p) == step[p] \in Making \cup Has \cup {"meta"}

\* Steps of a process that made the breaker and has not removed it.
BreakSteps == {"recheck heartbeat", "recheck meta", "recheck dir", "rm lock", "again",
               "unbreak", "unbreak won"}
Breaks(p)  == step[p] \in BreakSteps

\* There are no files without the directory.
NoFileAlone == owner = Nobody => ~heartbeat /\ token = Nobody

\* Nobody's clock reading is older than the deadline it works under.
ClocksAreYoung == \A p \in Processes :
    clock[p] <= idle[p] /\ (step[p] = "hold" => clock[p] = 0)

\* Who made the lock has it, with the files it has written so far.
MakersOwn == \A p \in Processes : Alive(p) =>
    /\ owner = p
    /\ step[p] # "remove" => (heartbeat <=> step[p] \in {"hold", "meta"})
    /\ step[p] # "remove" => token = IF step[p] = "hold" THEN p ELSE Nobody

\* Who made the breaker has it, and is too prompt for it to get stale.
BreakersOwn == \A p \in Processes : Breaks(p) => breaker = p /\ age["breaker"] <= idle[p]

\* The file that tells the age of a lock in use is younger than Stale.
FilesAreFresh == \A p \in Processes :
    /\ step[p] \in Making => age["dir"] <= idle[p]
    /\ step[p] = "meta" => age["dir"] <= idle[p] /\ age["heartbeat"] <= idle[p]
    /\ step[p] = "hold" => age["heartbeat"] <= Lag + idle[p]
    /\ step[p] = "remove" /\ heartbeat => age["heartbeat"] <= 2 * Lag + idle[p]
    /\ step[p] = "remove" /\ token = Nobody => age["dir"] <= idle[p]

\* Who made the lock and has written meta.json, with that still there.
Signed(p) == step[p] = "hold" \/ (step[p] = "remove" /\ token # Nobody)

\* A second look that did not find the heartbeat finds a file that was written
\* after its clock was read, if the lock is in use by then.
RechecksAreLate == \A p, q \in Processes :
    /\ step[p] = "hold" /\ step[q] = "recheck meta" => age["meta"] <= clock[q]
    /\ Signed(p) /\ step[q] = "recheck dir" => age["dir"] <= clock[q]

\* What is about to be removed as stale is there, and is nobody's.
StaleIsAbandoned == \A q \in Processes : step[q] = "rm lock" =>
    owner # Nobody /\ \A p \in Processes : ~Alive(p)

Shielded ==
    /\ MakersOwn /\ BreakersOwn /\ FilesAreFresh /\ RechecksAreLate /\ StaleIsAbandoned
    /\ failed = {}

Always  == LockTypeOK /\ NoFileAlone /\ ClocksAreYoung
LockInv == Always /\ (Interfered \/ Shielded)

-----------------------------------------------------------------------------
\* What a step of a process does to where everybody is, and to the clocks.
LEMMA GoesEffect ==
    ASSUME Always, NEW p \in Processes, NEW from, NEW to \in Steps, Goes(p, from, to)
    PROVE  /\ step[p] = from
           /\ step' \in [Processes -> Steps]
           /\ idle' \in [Processes -> 0..Lag]
           /\ clock' \in [Processes -> 0..Lag]
           /\ \A q \in Processes : step'[q] = IF q = p THEN to ELSE step[q]
           /\ \A q \in Processes :
                idle'[q] = IF q = p /\ to \in {"idle", "hold", "remove"} THEN 0 ELSE idle[q]
           /\ \A q \in Processes : q # p => clock'[q] = clock[q]
           /\ to \notin {"idle", "hold", "remove", "stat heartbeat", "recheck heartbeat"} =>
                clock'[p] = clock[p]
           /\ ClocksAreYoung'
  <1>1. step[p] = from /\ step' \in [Processes -> Steps]
    BY DEF Always, LockTypeOK, Goes
  <1>2. \A q \in Processes : step'[q] = IF q = p THEN to ELSE step[q]
    BY DEF Always, LockTypeOK, Goes
  <1> DEFINE Ticks == 0..Lag
  <1>0. /\ 0 \in Ticks
        /\ idle \in [Processes -> Ticks] /\ clock \in [Processes -> Ticks]
    BY LockAssumption DEF Always, LockTypeOK
  <1> HIDE DEF Ticks
  <1>3. /\ idle' \in [Processes -> Ticks]
        /\ \A q \in Processes :
             idle'[q] = IF q = p /\ to \in {"idle", "hold", "remove"} THEN 0 ELSE idle[q]
    BY <1>0 DEF Goes
  <1>4. /\ clock' \in [Processes -> Ticks]
        /\ \A q \in Processes :
             clock'[q] = IF q = p /\ to \in {"idle", "hold", "remove", "stat heartbeat",
                                              "recheck heartbeat"}
                         THEN 0 ELSE clock[q]
    BY <1>0 DEF Goes
  <1>5. ASSUME NEW q \in Processes
        PROVE  clock'[q] <= idle'[q] /\ (step'[q] = "hold" => clock'[q] = 0)
    <2>1. /\ clock[q] \in Nat /\ idle[q] \in Nat
          /\ clock[q] <= idle[q] /\ (step[q] = "hold" => clock[q] = 0)
      BY DEF Always, LockTypeOK, ClocksAreYoung
    <2>2. CASE q # p
      BY <1>2, <1>3, <1>4, <2>1, <2>2
    <2>3. CASE q = p
      <3>2. CASE to \in {"idle", "hold", "remove"}
        <4>1. clock'[q] = 0 /\ idle'[q] = 0
          BY <1>3, <1>4, <2>3, <3>2
        <4> QED
          BY <4>1
      <3>4. CASE to \in {"stat heartbeat", "recheck heartbeat"}
        <4>1. clock'[q] = 0 /\ idle'[q] = idle[q]
          BY <1>3, <1>4, <2>3, <3>4
        <4> QED
          BY <2>1, <4>1
      <3>5. CASE to \notin {"idle", "hold", "remove", "stat heartbeat", "recheck heartbeat"}
        <4>1. clock'[q] = clock[q] /\ idle'[q] = idle[q] /\ step'[q] # "hold"
          BY <1>2, <1>3, <1>4, <2>3, <3>5
        <4> QED
          BY <2>1, <4>1
      <3> QED
        BY <3>2, <3>4, <3>5
    <2> QED
      BY <2>2, <2>3
  <1> QED
    BY <1>1, <1>2, <1>3, <1>4, <1>5 DEF ClocksAreYoung, Ticks

LEMMA GoesOn ==
    ASSUME Always, NEW p \in Processes, NEW from, NEW to \in Steps \ {"idle", "hold", "remove"},
           Goes(p, from, to)
    PROVE  /\ step[p] = from
           /\ \A q \in Processes : step'[q] = IF q = p THEN to ELSE step[q]
           /\ \A q \in Processes : idle'[q] = idle[q]
           /\ \A q \in Processes : q # p => clock'[q] = clock[q]
  BY ZenonT(60), GoesEffect

LEMMA LockInitInv == LockInit => LockInv
  <1> SUFFICES ASSUME LockInit PROVE LockInv
    OBVIOUS
  <1>1. LockTypeOK
    <2>1. 0 \in 0..Lag /\ 0 \in 0..Top /\ 0 \in 0..MaxCrashes
      BY LockAssumption DEF Top
    <2> QED
      BY <2>1 DEF LockInit, LockTypeOK, Steps
  <1>2. NoFileAlone /\ ClocksAreYoung
    BY DEF LockInit, NoFileAlone, ClocksAreYoung
  <1>3. Shielded
    BY DEF LockInit, Shielded, MakersOwn, BreakersOwn, FilesAreFresh, RechecksAreLate,
           StaleIsAbandoned, Signed, Alive, Making, Has, Breaks, BreakSteps
  <1> QED
    BY <1>1, <1>2, <1>3 DEF LockInv, Always

-----------------------------------------------------------------------------
\* A step of a process that only moves it on.
Looks(p) ==
    \/ Attempt(p) \/ StatHeartbeat(p) \/ StatMeta(p) \/ StatDir(p) \/ StatBreaker(p)
    \/ RecheckHeartbeat(p) \/ RecheckMeta(p) \/ RecheckDir(p) \/ StartAnew(p)

\* The lock is given back.
GivenBack == \E q \in Processes : owner = q /\ step[q] = "remove"

\* Where such a step goes from and to, and what it has seen that matters later on.
Sees(p, from, to) ==
    \/ from = "idle" /\ to = "mkdir"
    \/ from = "stat heartbeat" /\ to \in {"stat meta", "idle", "break"}
    \/ from = "stat meta" /\ to \in {"stat dir", "idle", "break"}
    \/ from = "stat dir" /\ to \in {"idle", "break"}
    \/ from = "stat breaker" /\ to \in {"rm breaker", "idle"}
    \/ from = "recheck heartbeat" /\ to = "recheck meta" /\ ~heartbeat
    \/ from = "recheck heartbeat" /\ to = "rm lock" /\ heartbeat /\ IsStale(p, "heartbeat")
    \/ from = "recheck meta" /\ to = "recheck dir" /\ token = Nobody
    \/ /\ from = "recheck meta" /\ to = "rm lock" /\ token # Nobody /\ IsStale(p, "meta")
       /\ overtaken' \/ ~GivenBack
    \/ from = "recheck dir" /\ to = "rm lock" /\ owner # Nobody /\ IsStale(p, "dir")
    \/ from \in {"recheck heartbeat", "recheck meta", "recheck dir"} /\ to = "unbreak"
    \/ from = "mkdir" /\ to = "stat heartbeat"
    \/ from = "again" /\ to = "unbreak"
    \/ from = "break" /\ to = "stat breaker"
    \/ from = "crashed" /\ to = "idle"

\* The steps that change no file: those, and a mkdir that finds a directory.
MovesOn(p) ==
    /\ \E from, to \in Steps : Sees(p, from, to) /\ Goes(p, from, to)
    /\ overtaken' = overtaken \/ overtaken' = TRUE
    /\ UNCHANGED <<fileVars, age, held, undercut, failed, crashes>>

LEMMA LooksMoveOn == ASSUME Always, NEW p \in Processes, Looks(p) PROVE MovesOn(p)
  <1> USE DEF noteVars
  <1>1. CASE Attempt(p) \/ StartAnew(p)
    BY <1>1 DEF Attempt, StartAnew, MovesOn, Sees, Steps
  <1>2. CASE StatHeartbeat(p) \/ StatMeta(p) \/ StatDir(p)
    BY <1>2 DEF StatHeartbeat, StatMeta, StatDir, Stat, MovesOn, Sees, Steps
  <1>3. CASE StatBreaker(p)
    BY <1>3 DEF StatBreaker, MovesOn, Sees, Steps
  <1>4. CASE RecheckHeartbeat(p)
    BY <1>4 DEF RecheckHeartbeat, Stat, MovesOn, Sees, Steps
  <1>5. CASE RecheckMeta(p)
    <2>1. PICK to \in {"recheck dir", "unbreak", "rm lock"} :
               /\ Goes(p, "recheck meta", to)
               /\ to = "recheck dir" => token = Nobody
               /\ to = "rm lock" => token # Nobody /\ IsStale(p, "meta")
      BY <1>5 DEF RecheckMeta, Stat
    <2>2. to = "rm lock" => step'[p] = "rm lock"
      BY <2>1 DEF Goes, Always, LockTypeOK
    <2>3. to = "rm lock" => overtaken' \/ ~GivenBack
      BY <1>5, <2>2 DEF RecheckMeta, GivenBack
    <2>4. Sees(p, "recheck meta", to)
      BY <2>1, <2>3 DEF Sees
    <2>5. overtaken' = overtaken \/ overtaken' = TRUE
      BY <1>5 DEF RecheckMeta, Always, LockTypeOK
    <2>6. "recheck meta" \in Steps /\ to \in Steps
      BY <2>1 DEF Steps
    <2>7. UNCHANGED <<fileVars, age, held, undercut, failed, crashes>>
      BY <1>5 DEF RecheckMeta
    <2> QED
      BY <2>1, <2>4, <2>5, <2>6, <2>7 DEF MovesOn
  <1>6. CASE RecheckDir(p)
    BY <1>6 DEF RecheckDir, Stat, MovesOn, Sees, Steps
  <1> QED
    BY <1>1, <1>2, <1>3, <1>4, <1>5, <1>6 DEF Looks

\* A mkdir that finds a directory and a break that finds a breaker move on too.
LEMMA LostMovesOn ==
    ASSUME NEW p \in Processes,
           \/ owner # Nobody /\ (Mkdir(p) \/ MkdirAgain(p))
           \/ breaker # Nobody /\ Break(p)
    PROVE  MovesOn(p)
  <1> USE DEF noteVars
  <1>1. CASE owner # Nobody /\ Mkdir(p)
    BY <1>1 DEF Mkdir, MakeDir, MovesOn, Sees, Steps
  <1>2. CASE owner # Nobody /\ MkdirAgain(p)
    BY <1>2 DEF MkdirAgain, MakeDir, MovesOn, Sees, Steps
  <1>3. CASE breaker # Nobody /\ Break(p)
    BY <1>3 DEF Break, MovesOn, Sees, Steps, fileVars
  <1> QED
    BY <1>1, <1>2, <1>3

LEMMA MovesOnAlways == ASSUME Always, NEW p \in Processes, MovesOn(p) PROVE Always'
  <1>1. PICK from \in Steps, to \in Steps : Sees(p, from, to) /\ Goes(p, from, to)
    BY DEF MovesOn
  <1>3. /\ step' \in [Processes -> Steps]
        /\ idle' \in [Processes -> 0..Lag]
        /\ clock' \in [Processes -> 0..Lag]
        /\ ClocksAreYoung'
    BY <1>1, GoesEffect
  <1> QED
    BY <1>3 DEF MovesOn, Always, LockTypeOK, NoFileAlone, fileVars

\* The ages that a step writes.
LEMMA AgesTyped ==
    ASSUME Always
    PROVE  /\ 0 \in 0..Top
           /\ \A f \in Files : [age EXCEPT ![f] = 0] \in [Files -> 0..Top]
           /\ \A f, g \in Files : [age EXCEPT ![f] = 0, ![g] = 0] \in [Files -> 0..Top]
           /\ [age EXCEPT !["dir"] = 0, !["heartbeat"] = 0, !["meta"] = 0]
                \in [Files -> 0..Top]
           /\ \A n \in 0..Top : [age EXCEPT !["heartbeat"] = n] \in [Files -> 0..Top]
  <1> DEFINE T == 0..Top
  <1>1. 0 \in T
    BY LockAssumption DEF Top
  <1>2. age \in [Files -> T]
    BY DEF Always, LockTypeOK
  <1> HIDE DEF T
  <1>3. /\ \A f \in Files : [age EXCEPT ![f] = 0] \in [Files -> T]
        /\ \A f, g \in Files : [age EXCEPT ![f] = 0, ![g] = 0] \in [Files -> T]
        /\ [age EXCEPT !["dir"] = 0, !["heartbeat"] = 0, !["meta"] = 0] \in [Files -> T]
        /\ \A n \in T : [age EXCEPT !["heartbeat"] = n] \in [Files -> T]
    BY <1>1, <1>2
  <1> QED
    BY <1>1, <1>3 DEF T

\* A step of one process keeps the parts of Always that it does not write.
LEMMA WritesAlways ==
    ASSUME Always, NEW p \in Processes, NEW from, NEW to \in Steps, Goes(p, from, to),
           owner' \in Processes \cup {Nobody}, heartbeat' \in BOOLEAN,
           token' \in Processes \cup {Nobody}, breaker' \in Processes \cup {Nobody},
           age' \in [Files -> 0..Top], held' \in [Processes -> 0..Top],
           undercut' \in BOOLEAN, overtaken' \in BOOLEAN,
           failed' \subseteq Processes, crashes' = crashes, NoFileAlone'
    PROVE  Always'
  <1>1. /\ step' \in [Processes -> Steps]
        /\ idle' \in [Processes -> 0..Lag]
        /\ clock' \in [Processes -> 0..Lag]
        /\ ClocksAreYoung'
    BY GoesEffect
  <1> QED
    BY <1>1 DEF Always, LockTypeOK

\* A mkdir that makes the directory.
MakesDir(p, from, to) ==
    /\ \/ from = "mkdir" /\ to = "heartbeat"
       \/ from = "again" /\ to = "unbreak won"
    /\ Goes(p, from, to)
    /\ owner = Nobody /\ owner' = p
    /\ Fresh("dir")
    /\ UNCHANGED <<heartbeat, token, breaker, held, noteVars>>

LEMMA MakesDirAlways ==
    ASSUME Always, NEW p \in Processes, NEW from, NEW to,
           MakesDir(p, from, to)
    PROVE  Always'
  <1>1. Goes(p, from, to) /\ to \in Steps
    BY DEF MakesDir, Steps
  <1>2. age' \in [Files -> 0..Top]
    BY AgesTyped DEF MakesDir, Fresh, Files
  <1>3. /\ owner' \in Processes \cup {Nobody}
        /\ heartbeat' \in BOOLEAN /\ token' \in Processes \cup {Nobody}
        /\ breaker' \in Processes \cup {Nobody} /\ held' \in [Processes -> 0..Top]
        /\ undercut' \in BOOLEAN /\ overtaken' \in BOOLEAN
        /\ failed' \subseteq Processes /\ crashes' = crashes
    BY DEF MakesDir, Always, LockTypeOK, noteVars
  <1>4. NoFileAlone'
    BY LockAssumption DEF MakesDir, NoFileAlone
  <1> QED
    BY <1>1, <1>2, <1>3, <1>4, WritesAlways

LEMMA UnlinkAlways ==
    ASSUME Always, NEW p \in Processes, NEW at, Unlink(p, at)
    PROVE  Always'
  <1>1. age' \in [Files -> 0..Top]
    BY AgesTyped DEF Unlink, Files
  <1> QED
    BY <1>1 DEF Unlink, Always, LockTypeOK, NoFileAlone, ClocksAreYoung, timeVars, noteVars

LEMMA RmdirAlways ==
    ASSUME Always, NEW p \in Processes, NEW at, NEW to \in Steps, Rmdir(p, at, to)
    PROVE  Always'
  <1>1. age' \in [Files -> 0..Top]
    BY AgesTyped DEF Rmdir, Fresh, Files
  <1>2. Goes(p, at, to) /\ owner' = Nobody /\ NoFileAlone'
        /\ UNCHANGED <<heartbeat, token, breaker, held, undercut, overtaken, failed, crashes>>
    BY DEF Rmdir, NoFileAlone, noteVars
  <1> QED
    BY <1>1, <1>2, WritesAlways DEF Always, LockTypeOK

LEMMA DirAlways ==
    ASSUME Always, NEW p \in Processes,
           Mkdir(p) \/ MkdirAgain(p) \/ RemoveLock(p) \/ ReleaseRemoves(p)
    PROVE  Always'
  <1> USE DEF Steps
  <1>1. CASE Mkdir(p) /\ owner = Nobody
    <2>1. MakesDir(p, "mkdir", "heartbeat")
      BY <1>1 DEF Mkdir, MakeDir, MakesDir
    <2> QED
      BY <2>1, MakesDirAlways
  <1>2. CASE MkdirAgain(p) /\ owner = Nobody
    <2>1. MakesDir(p, "again", "unbreak won")
      BY <1>2 DEF MkdirAgain, MakeDir, MakesDir
    <2> QED
      BY <2>1, MakesDirAlways
  <1>3. CASE (Mkdir(p) \/ MkdirAgain(p)) /\ owner # Nobody
    BY <1>3, LostMovesOn, MovesOnAlways
  <1>4. CASE RemoveLock(p)
    BY <1>4, UnlinkAlways, RmdirAlways DEF RemoveLock
  <1>5. CASE ReleaseRemoves(p)
    BY <1>5, UnlinkAlways, RmdirAlways DEF ReleaseRemoves
  <1> QED
    BY <1>1, <1>2, <1>3, <1>4, <1>5

LEMMA BreakerAlways ==
    ASSUME Always, NEW p \in Processes,
           \/ Break(p) \/ RemoveBreaker(p)
           \/ Unbreak(p, "unbreak", "idle") \/ Unbreak(p, "unbreak won", "heartbeat")
    PROVE  Always'
  <1> USE DEF Steps
  <1>1. CASE Break(p) /\ breaker = Nobody
    BY ZenonT(60), <1>1, WritesAlways, AgesTyped
       DEF Break, Fresh, Files, Always, LockTypeOK, NoFileAlone, noteVars
  <1>2. CASE Break(p) /\ breaker # Nobody
    BY <1>2, LostMovesOn, MovesOnAlways
  <1>3. CASE RemoveBreaker(p)
    BY <1>3, WritesAlways, AgesTyped
       DEF RemoveBreaker, Fresh, Files, Always, LockTypeOK, NoFileAlone
  <1>4. CASE Unbreak(p, "unbreak", "idle")
    BY <1>4, WritesAlways, AgesTyped
       DEF Unbreak, Fresh, Files, Always, LockTypeOK, NoFileAlone, noteVars
  <1>5. CASE Unbreak(p, "unbreak won", "heartbeat")
    BY <1>5, WritesAlways, AgesTyped
       DEF Unbreak, Fresh, Files, Always, LockTypeOK, NoFileAlone, noteVars
  <1> QED
    BY <1>1, <1>2, <1>3, <1>4, <1>5

LEMMA CompromisedAlways ==
    ASSUME Always, NEW p \in Processes, NEW from, NEW to \in Steps, Compromised(p, from, to)
    PROVE  Always'
  <1>1. Goes(p, from, to) /\ failed' \subseteq Processes /\ NoFileAlone'
        /\ UNCHANGED <<owner, heartbeat, token, breaker, age, held, undercut, overtaken, crashes>>
    BY DEF Compromised, Always, LockTypeOK, NoFileAlone, fileVars
  <1> QED
    BY <1>1, WritesAlways DEF Always, LockTypeOK

LEMMA HolderAlways ==
    ASSUME Always, NEW p \in Processes,
           WriteHeartbeat(p) \/ WriteMeta(p) \/ Heartbeat(p) \/ Release(p)
    PROVE  Always'
  <1> USE DEF Steps
  <1>1. CASE WriteHeartbeat(p) /\ owner # Nobody /\ ~heartbeat
    <2>1. held' \in [Processes -> 0..Top]
      BY <1>1, AgesTyped DEF WriteHeartbeat, Always, LockTypeOK
    <2>2. age' \in [Files -> 0..Top]
      BY <1>1, AgesTyped DEF WriteHeartbeat, Files
    <2>3. Goes(p, "heartbeat", "meta") /\ heartbeat' = TRUE /\ owner # Nobody
          /\ UNCHANGED <<owner, token, breaker, undercut, overtaken, failed, crashes>>
      BY <1>1 DEF WriteHeartbeat, noteVars
    <2>4. NoFileAlone'
      BY <2>3 DEF NoFileAlone
    <2> QED
      BY <2>1, <2>2, <2>3, <2>4, WritesAlways DEF Always, LockTypeOK
  <1>2. CASE WriteMeta(p) /\ owner # Nobody /\ token = Nobody
    <2>1. age' \in [Files -> 0..Top]
      BY <1>2, AgesTyped DEF WriteMeta, Files
    <2>2. Goes(p, "meta", "hold") /\ token' = p /\ owner # Nobody
          /\ UNCHANGED <<owner, heartbeat, breaker, held, undercut, overtaken, failed, crashes>>
      BY <1>2 DEF WriteMeta, noteVars
    <2>3. NoFileAlone'
      BY <2>2 DEF NoFileAlone
    <2> QED
      BY <2>1, <2>2, <2>3, WritesAlways DEF Always, LockTypeOK
  <1>3. CASE \/ WriteHeartbeat(p) /\ ~(owner # Nobody /\ ~heartbeat)
             \/ WriteMeta(p) /\ ~(owner # Nobody /\ token = Nobody)
    BY <1>3, CompromisedAlways DEF WriteHeartbeat, WriteMeta
  <1>4. CASE Heartbeat(p)
    <2>1. held[p] \in 0..Top
      BY DEF Always, LockTypeOK
    <2>2. age' \in [Files -> 0..Top]
      BY <1>4, <2>1, AgesTyped DEF Heartbeat
    <2>3. /\ idle' \in [Processes -> 0..Lag] /\ idle'[p] = 0
          /\ \A q \in Processes : q # p => idle'[q] = idle[q]
      <3> DEFINE T == 0..Lag
      <3>0. 0 \in T
        BY LockAssumption
      <3>1. idle \in [Processes -> T]
        BY DEF Always, LockTypeOK
      <3> HIDE DEF T
      <3>2. /\ idle' \in [Processes -> T] /\ idle'[p] = 0
            /\ \A q \in Processes : q # p => idle'[q] = idle[q]
        BY <1>4, <3>0, <3>1 DEF Heartbeat
      <3> QED
        BY <3>2 DEF T
    <2>4. ASSUME NEW q \in Processes
          PROVE  clock[q] <= idle'[q] /\ (step[q] = "hold" => clock[q] = 0)
      <3>1. clock[q] <= idle[q] /\ (step[q] = "hold" => clock[q] = 0)
        BY DEF Always, ClocksAreYoung
      <3>2. CASE q = p
        <4>1. clock[q] = 0 /\ idle'[q] = 0
          BY <1>4, <2>3, <3>1, <3>2 DEF Heartbeat
        <4> QED
          BY <4>1
      <3> QED
        BY <2>3, <3>1, <3>2
    <2> QED
      BY <1>4, <2>2, <2>3, <2>4
         DEF Heartbeat, Always, LockTypeOK, NoFileAlone, ClocksAreYoung, fileVars, noteVars
  <1>5. CASE Release(p)
    <2>1. /\ Goes(p, "hold", "remove") \/ Goes(p, "hold", "idle")
          /\ failed' \in {failed, failed \cup {p}}
          /\ UNCHANGED <<fileVars, age, held, undercut, overtaken, crashes>>
      BY <1>5 DEF Release, Compromised, noteVars
    <2>2. NoFileAlone'
      BY <2>1 DEF Always, NoFileAlone, fileVars
    <2> QED
      BY <2>1, <2>2, WritesAlways DEF Always, LockTypeOK, fileVars
  <1> QED
    BY <1>1, <1>2, <1>3, <1>4, <1>5

LEMMA CrashAlways == ASSUME Always, NEW p \in Processes, Crash(p) PROVE Always'
  <1>1. /\ idle' \in [Processes -> 0..Lag] /\ clock' \in [Processes -> 0..Lag]
        /\ held' \in [Processes -> 0..Top] /\ step' \in [Processes -> Steps]
    <2> DEFINE T == 0..Lag
               H == 0..Top
    <2>0. 0 \in T /\ 0 \in H /\ "crashed" \in Steps
      BY LockAssumption DEF Steps, Top
    <2>1. /\ idle \in [Processes -> T] /\ clock \in [Processes -> T]
          /\ held \in [Processes -> H] /\ step \in [Processes -> Steps]
      BY DEF Always, LockTypeOK
    <2> HIDE DEF T, H
    <2>2. /\ idle' \in [Processes -> T] /\ clock' \in [Processes -> T]
          /\ held' \in [Processes -> H] /\ step' \in [Processes -> Steps]
      BY <2>0, <2>1 DEF Crash
    <2> QED
      BY <2>2 DEF T, H
  <1>2. crashes' \in 0..MaxCrashes
    BY LockAssumption DEF Crash, Always, LockTypeOK
  <1>3. ASSUME NEW q \in Processes
        PROVE  clock'[q] <= idle'[q] /\ (step'[q] = "hold" => clock'[q] = 0)
    BY <1>1 DEF Crash, Always, LockTypeOK, ClocksAreYoung
  <1> QED
    BY <1>1, <1>2, <1>3 DEF Crash, Always, LockTypeOK, NoFileAlone, ClocksAreYoung, fileVars

LEMMA TickAlways == ASSUME Always, Tick PROVE Always'
  <1>1. \A n \in 0..Top : Later(n) \in 0..Top /\ Later(n) <= n + 1
    BY LockAssumption DEF Later, Top
  <1>2. 0 \in 0..Top
    BY LockAssumption DEF Top
  <1>3. age' \in [Files -> 0..Top]
    BY <1>1, <1>2 DEF Tick, Always, LockTypeOK
  <1>4. held' \in [Processes -> 0..Top]
    BY <1>1, <1>2 DEF Tick, Always, LockTypeOK
  <1>5. ASSUME NEW q \in Processes
        PROVE  /\ idle'[q] \in 0..Lag /\ clock'[q] \in 0..Lag
               /\ clock'[q] <= idle'[q] /\ (step[q] = "hold" => clock'[q] = 0)
    <2>1. /\ clock[q] \in Nat /\ idle[q] \in Nat /\ clock[q] <= idle[q]
          /\ Busy(q) => idle[q] < Lag
          /\ Lag \in Nat
      BY LockAssumption DEF Tick, Always, LockTypeOK, ClocksAreYoung
    <2>2. /\ idle'[q] = IF Busy(q) THEN idle[q] + 1 ELSE 0
          /\ clock'[q] = IF Busy(q) /\ step[q] # "hold" THEN clock[q] + 1 ELSE 0
      BY DEF Tick
    <2> QED
      BY <2>1, <2>2
  <1>6. idle' \in [Processes -> 0..Lag] /\ clock' \in [Processes -> 0..Lag]
    BY <1>5 DEF Tick
  <1> QED
    BY <1>3, <1>4, <1>5, <1>6
       DEF Tick, Always, LockTypeOK, NoFileAlone, ClocksAreYoung, fileVars, noteVars

LEMMA AlwaysKept == Always /\ [LockNext]_lockVars => Always'
  <1> SUFFICES ASSUME Always, [LockNext]_lockVars PROVE Always'
    OBVIOUS
  <1>1. CASE UNCHANGED lockVars
    BY <1>1 DEF Always, LockTypeOK, NoFileAlone, ClocksAreYoung, lockVars, fileVars, timeVars,
                noteVars
  <1>2. ASSUME NEW p \in Processes, Works(p) \/ StartAnew(p) PROVE Always'
    BY <1>2, LooksMoveOn, MovesOnAlways, DirAlways, BreakerAlways, HolderAlways
       DEF Works, Looks
  <1> QED
    BY <1>1, <1>2, CrashAlways, TickAlways DEF LockNext

-----------------------------------------------------------------------------
\* The numbers that are compared.
LEMMA Numbers ==
    ASSUME Always
    PROVE  /\ Lag \in Nat /\ Stale \in Nat /\ 3 * Lag <= Stale
           /\ \A f \in Files : age[f] \in Nat
           /\ \A p \in Processes : clock[p] \in Nat /\ idle[p] \in Nat /\ idle[p] <= Lag
  BY LockAssumption DEF Always, LockTypeOK

SeesStale(p) ==
    \/ heartbeat /\ IsStale(p, "heartbeat")
    \/ step[p] = "recheck meta" /\ token # Nobody /\ IsStale(p, "meta") /\ ~GivenBack
    \/ step[p] = "recheck dir" /\ owner # Nobody /\ IsStale(p, "dir")

\* A lock that looks stale is nobody's.
LEMMA NobodyLives ==
    ASSUME Always, Shielded, NEW p \in Processes, SeesStale(p), NEW q \in Processes
    PROVE  ~Alive(q)
  <1> SUFFICES ASSUME Alive(q) PROVE FALSE
    OBVIOUS
  <1>0. {"dir", "heartbeat", "meta"} \subseteq Files
    BY DEF Files
  <1>1. /\ Lag \in Nat /\ Stale \in Nat /\ 3 * Lag <= Stale
        /\ clock[p] \in Nat /\ idle[q] \in Nat /\ idle[q] <= Lag
        /\ age["dir"] \in Nat /\ age["heartbeat"] \in Nat /\ age["meta"] \in Nat
    BY Numbers, <1>0
  <1>2. /\ owner = q
        /\ step[q] # "remove" => (heartbeat <=> step[q] \in {"hold", "meta"})
        /\ step[q] # "remove" => token = IF step[q] = "hold" THEN q ELSE Nobody
    BY DEF Shielded, MakersOwn
  <1>3. /\ IsStale(p, "heartbeat") => age["heartbeat"] > Stale
        /\ IsStale(p, "meta") => age["meta"] > clock[p]
        /\ IsStale(p, "dir") => age["dir"] > Stale /\ age["dir"] > clock[p]
    BY <1>1 DEF IsStale
  <1>4. CASE step[q] \in Making
    <2>1. ~heartbeat /\ token = Nobody
      BY <1>2, <1>4 DEF Making
    <2>2. age["dir"] <= idle[q]
      BY <1>4 DEF Shielded, FilesAreFresh
    <2>3. ~IsStale(p, "dir")
      BY <1>1, <1>3, <2>2
    <2> QED
      BY <2>1, <2>3 DEF SeesStale
  <1>5. CASE step[q] = "meta"
    <2>1. token = Nobody
      BY <1>2, <1>5
    <2>2. age["dir"] <= idle[q] /\ age["heartbeat"] <= idle[q]
      BY <1>5 DEF Shielded, FilesAreFresh
    <2>3. ~IsStale(p, "dir") /\ ~IsStale(p, "heartbeat")
      BY <1>1, <1>3, <2>2
    <2> QED
      BY <2>1, <2>3 DEF SeesStale
  <1>6. CASE step[q] = "hold"
    <2>1. age["heartbeat"] <= Lag + idle[q]
      BY <1>6 DEF Shielded, FilesAreFresh
    <2>2. ~IsStale(p, "heartbeat")
      BY <1>1, <1>3, <2>1
    <2>3. /\ step[p] = "recheck meta" => age["meta"] <= clock[p]
          /\ step[p] = "recheck dir" => age["dir"] <= clock[p]
      BY <1>6 DEF Shielded, RechecksAreLate, Signed
    <2>4. /\ age["meta"] <= clock[p] => ~IsStale(p, "meta")
          /\ age["dir"] <= clock[p] => ~IsStale(p, "dir")
      BY <1>1, <1>3
    <2> QED
      BY <2>2, <2>3, <2>4 DEF SeesStale
  <1>7. CASE step[q] = "remove"
    <2>1. /\ heartbeat => age["heartbeat"] <= 2 * Lag + idle[q]
          /\ token = Nobody => age["dir"] <= idle[q]
      BY <1>7 DEF Shielded, FilesAreFresh
    <2>2. heartbeat => ~IsStale(p, "heartbeat")
      BY <1>1, <1>3, <2>1
    <2>3. GivenBack
      BY <1>2, <1>7 DEF GivenBack
    <2>4. step[p] = "recheck dir" => age["dir"] <= clock[p] \/ age["dir"] <= idle[q]
      BY <1>7, <2>1 DEF Shielded, RechecksAreLate, Signed
    <2>5. age["dir"] <= clock[p] \/ age["dir"] <= idle[q] => ~IsStale(p, "dir")
      BY <1>1, <1>3
    <2> QED
      BY <2>2, <2>3, <2>4, <2>5 DEF SeesStale
  <1> QED
    BY <1>4, <1>5, <1>6, <1>7 DEF Alive, Has

\* Who makes the lock keeps it through a step that neither moves it nor touches
\* the files.
LEMMA MakersStay ==
    ASSUME MakersOwn, UNCHANGED <<owner, heartbeat, token>>,
           \A q \in Processes : Alive(q)' => Alive(q) /\ step'[q] = step[q]
    PROVE  MakersOwn'
  <1> SUFFICES ASSUME NEW q \in Processes, Alive(q)'
               PROVE  /\ owner' = q
                      /\ step'[q] # "remove" => (heartbeat' <=> step'[q] \in {"hold", "meta"})
                      /\ step'[q] # "remove" =>
                           token' = IF step'[q] = "hold" THEN q ELSE Nobody
    BY DEF MakersOwn
  <1>1. Alive(q) /\ step'[q] = step[q]
    OBVIOUS
  <1>2. /\ owner = q
        /\ step[q] # "remove" => (heartbeat <=> step[q] \in {"hold", "meta"})
        /\ step[q] # "remove" => token = IF step[q] = "hold" THEN q ELSE Nobody
    BY <1>1 DEF MakersOwn
  <1> QED
    BY <1>1, <1>2

LEMMA MovesOnShielded ==
    ASSUME Always, Shielded, NEW p \in Processes, MovesOn(p), ~overtaken'
    PROVE  Shielded'
  <1>1. PICK from \in Steps, to \in Steps : Sees(p, from, to) /\ Goes(p, from, to)
    BY DEF MovesOn
  <1>2. /\ UNCHANGED <<owner, heartbeat, token, breaker, age, failed>>
        /\ \A q \in Processes : q # p => clock'[q] = clock[q]
    <2>2. UNCHANGED <<owner, heartbeat, token, breaker, age, failed>>
      BY DEF MovesOn, fileVars
    <2> QED
      BY <1>1, <2>2, GoesEffect
  <1>3. /\ step[p] = from
        /\ \A q \in Processes : step'[q] = IF q = p THEN to ELSE step[q]
        /\ \A q \in Processes : q # p => idle'[q] = idle[q]
        /\ to # "idle" => idle'[p] = idle[p]
    BY ZenonT(60), <1>1, GoesEffect DEF Sees
  <1>4. /\ to \notin Making \cup Has \cup {"meta"}
        /\ to \in BreakSteps => from \in BreakSteps /\ to # "idle"
        /\ to = "recheck meta" => ~heartbeat
        /\ to = "recheck dir" => token = Nobody
    BY <1>1 DEF Sees, Making, Has, BreakSteps
  <1>5. ASSUME NEW q \in Processes, Alive(q)' PROVE q # p /\ Alive(q)
    BY <1>3, <1>4, <1>5 DEF Alive
  <1>6. MakersOwn'
    BY <1>2, <1>3, <1>5 DEF Shielded, MakersOwn
  <1>7. BreakersOwn'
    BY <1>2, <1>3, <1>4 DEF Shielded, BreakersOwn, Breaks
  <1>8. FilesAreFresh'
    BY <1>2, <1>3, <1>4 DEF Shielded, FilesAreFresh, Making, Has
  <1>9. ASSUME NEW q \in Processes, NEW r \in Processes
        PROVE  /\ step'[q] = "hold" /\ step'[r] = "recheck meta" => age'["meta"] <= clock'[r]
               /\ Signed(q)' /\ step'[r] = "recheck dir" => age'["dir"] <= clock'[r]
    <2>1. /\ step'[q] \in Has => q # p /\ step[q] = step'[q]
          /\ Signed(q)' => Signed(q) /\ step'[q] \in Has
      BY <1>2, <1>3, <1>4 DEF Signed, Has
    <2>2. CASE r # p
      BY <1>2, <1>3, <2>1, <2>2 DEF Shielded, RechecksAreLate, Has
    <2>3. CASE r = p
      <3>1. /\ step[q] = "hold" => heartbeat
            /\ Signed(q) => token # Nobody
        BY LockAssumption DEF Shielded, MakersOwn, Alive, Has, Signed
      <3> QED
        BY <1>3, <1>4, <2>1, <2>3, <3>1 DEF Has
    <2> QED
      BY <2>2, <2>3
  <1>10. ASSUME NEW r \in Processes, step'[r] = "rm lock"
         PROVE  owner' # Nobody /\ \A q \in Processes : ~Alive(q)'
    <2>1. CASE r # p
      BY <1>2, <1>3, <1>5, <1>10, <2>1 DEF Shielded, StaleIsAbandoned
    <2>2. CASE r = p
      <3>1. to = "rm lock"
        BY <1>3, <1>10, <2>2
      <3>2. SeesStale(p)
        BY <1>1, <1>3, <3>1 DEF Sees, SeesStale
      <3>3. owner # Nobody
        BY <3>2 DEF SeesStale, Always, NoFileAlone
      <3> QED
        BY <1>2, <1>5, <3>2, <3>3, NobodyLives
    <2> QED
      BY <2>1, <2>2
  <1> QED
    BY <1>2, <1>6, <1>7, <1>8, <1>9, <1>10 DEF Shielded, RechecksAreLate, StaleIsAbandoned

\* The directory is made: by nobody else, and nobody is about to remove one.
LEMMA MakesDirShielded ==
    ASSUME Always, Shielded, NEW p \in Processes, NEW from, NEW to,
           MakesDir(p, from, to)
    PROVE  Shielded'
  <1>1. /\ to \in Steps /\ Goes(p, from, to)
        /\ to \in Making /\ to \notin Has /\ to # "meta"
        /\ to \in BreakSteps => from \in BreakSteps
        /\ to \notin {"idle", "hold", "remove", "rm lock"}
    BY DEF MakesDir, Steps, Making, Has, BreakSteps
  <1>2. /\ owner = Nobody /\ owner' = p
        /\ UNCHANGED <<heartbeat, token, breaker, failed>>
        /\ age'["dir"] = 0 /\ age'["breaker"] = age["breaker"]
    BY DEF MakesDir, Fresh, noteVars, Always, LockTypeOK, Files
  <1>3. /\ step[p] = from
        /\ \A q \in Processes : step'[q] = IF q = p THEN to ELSE step[q]
        /\ \A q \in Processes : idle'[q] = idle[q]
    <2>1. to \in Steps /\ to \notin {"idle", "hold", "remove"} /\ Goes(p, from, to)
      BY <1>1
    <2> QED
      BY ZenonT(60), <2>1, GoesEffect
  <1>4. ASSUME NEW q \in Processes, Alive(q) PROVE FALSE
    BY <1>2, <1>4, LockAssumption DEF Shielded, MakersOwn
  <1>5. ~heartbeat /\ token = Nobody
    BY <1>2 DEF Always, NoFileAlone
  <1>6. ASSUME NEW q \in Processes, Alive(q)' PROVE q = p
    BY <1>3, <1>4, <1>6 DEF Alive
  <1>7. MakersOwn'
    BY <1>1, <1>2, <1>3, <1>5, <1>6 DEF MakersOwn, Has
  <1>8. BreakersOwn'
    BY <1>1, <1>2, <1>3 DEF Shielded, BreakersOwn, Breaks
  <1>9. FilesAreFresh'
    <2> SUFFICES ASSUME NEW q \in Processes, Alive(q)'
                 PROVE  q = p /\ step'[q] \in Making /\ age'["dir"] <= idle'[q]
      BY <1>1, <1>3, <1>6 DEF FilesAreFresh, Alive, Making, Has
    <2>1. q = p
      BY <1>6
    <2>2. idle[p] \in Nat /\ idle'[p] = idle[p]
      BY <1>3, Numbers
    <2>3. age'["dir"] = 0
      BY <1>2
    <2>4. age'["dir"] <= idle'[p]
      BY <2>2, <2>3
    <2> QED
      BY <1>1, <1>3, <2>1, <2>4
  <1>10. ASSUME NEW q \in Processes PROVE step'[q] \notin Has
    BY <1>1, <1>3, <1>4 DEF Alive
  <1>11. ASSUME NEW q \in Processes PROVE step'[q] # "rm lock"
    BY <1>1, <1>2, <1>3 DEF Shielded, StaleIsAbandoned
  <1> QED
    BY <1>2, <1>7, <1>8, <1>9, <1>10, <1>11
       DEF Shielded, RechecksAreLate, StaleIsAbandoned, Signed, Has

\* The breaker is made where there was none.
LEMMA BreakShielded ==
    ASSUME Always, Shielded, NEW p \in Processes, Break(p), breaker = Nobody
    PROVE  Shielded'
  <1> DEFINE to == "recheck heartbeat"
  <1>1. /\ to \in Steps /\ Goes(p, "break", to) /\ breaker' = p
        /\ UNCHANGED <<owner, heartbeat, token, failed>>
        /\ age'["breaker"] = 0
        /\ \A f \in {"dir", "heartbeat", "meta"} : age'[f] = age[f]
    <2>1. /\ to \in Steps /\ Goes(p, "break", to) /\ breaker' = p /\ Fresh("breaker")
          /\ UNCHANGED <<owner, heartbeat, token, failed>>
      BY DEF Break, noteVars, Steps
    <2> QED
      BY <2>1 DEF Fresh, Always, LockTypeOK, Files
  <1>2. /\ step[p] = "break"
        /\ \A q \in Processes : step'[q] = IF q = p THEN to ELSE step[q]
        /\ \A q \in Processes : idle'[q] = idle[q]
        /\ \A q \in Processes : q # p => clock'[q] = clock[q]
    <2>1. to \in Steps /\ Goes(p, "break", to)
          /\ to \notin {"idle", "hold", "remove"}
      BY <1>1
    <2> HIDE DEF to
    <2> QED
      BY ZenonT(60), <2>1, GoesEffect
  <1>3. ASSUME NEW q \in Processes PROVE ~Breaks(q)
    BY <1>3, LockAssumption DEF Shielded, BreakersOwn
  <1>4. ASSUME NEW q \in Processes
        PROVE  /\ Alive(q)' <=> Alive(q)
               /\ Alive(q) => step'[q] = step[q]
               /\ step'[q] \in Has => step[q] = step'[q]
               /\ Signed(q)' => Signed(q)
    BY <1>1, <1>2 DEF Alive, Making, Has, Signed
  <1>5. MakersOwn'
    BY <1>1, <1>4, MakersStay DEF Shielded
  <1>6. BreakersOwn'
    <2> SUFFICES ASSUME NEW q \in Processes, Breaks(q)'
                 PROVE  breaker' = q /\ age'["breaker"] <= idle'[q]
      BY DEF BreakersOwn
    <2>1. q = p
      BY <1>2, <1>3 DEF Breaks
    <2>2. idle[p] \in Nat /\ idle'[p] = idle[p]
      BY <1>2, Numbers
    <2>3. age'["breaker"] = 0
      BY <1>1
    <2>4. age'["breaker"] <= idle'[p]
      BY <2>2, <2>3
    <2> QED
      BY <1>1, <2>1, <2>4
  <1>7. FilesAreFresh'
    BY <1>1, <1>2 DEF Shielded, FilesAreFresh, Making
  <1>8. RechecksAreLate'
    BY <1>1, <1>2, <1>4 DEF Shielded, RechecksAreLate, Has
  <1>9. StaleIsAbandoned'
    BY <1>2, <1>3 DEF StaleIsAbandoned, Breaks, BreakSteps
  <1> QED
    BY <1>1, <1>5, <1>6, <1>7, <1>8, <1>9 DEF Shielded

\* The breaker goes: with who made it, or as one that is stale.
BreakerGoes(p) ==
    \/ RemoveBreaker(p) /\ ~undercut'
    \/ Unbreak(p, "unbreak", "idle")
    \/ Unbreak(p, "unbreak won", "heartbeat")

LEMMA BreakerGoesShielded ==
    ASSUME Always, Shielded, NEW p \in Processes, BreakerGoes(p)
    PROVE  Shielded'
  <1>1. PICK from, to \in Steps :
             /\ Goes(p, from, to)
             /\ \/ from = "rm breaker" /\ to = "idle"
                \/ from = "unbreak" /\ to = "idle"
                \/ from = "unbreak won" /\ to = "heartbeat"
    BY DEF BreakerGoes, RemoveBreaker, Unbreak, Steps
  <1>2. /\ breaker' = Nobody
        /\ UNCHANGED <<owner, heartbeat, token, failed>>
        /\ \A f \in {"dir", "heartbeat", "meta"} : age'[f] = age[f]
    BY DEF BreakerGoes, RemoveBreaker, Unbreak, Fresh, noteVars, Always, LockTypeOK, Files
  <1>3. /\ step[p] = from
        /\ \A q \in Processes : step'[q] = IF q = p THEN to ELSE step[q]
        /\ \A q \in Processes : q # p => idle'[q] = idle[q] /\ clock'[q] = clock[q]
        /\ to = "heartbeat" => idle'[p] = idle[p]
    BY ZenonT(60), <1>1, GoesEffect
  <1>4. ASSUME NEW q \in Processes, q # p PROVE ~Breaks(q)
    <2> SUFFICES ASSUME Breaks(q) PROVE FALSE
      OBVIOUS
    <2>1. breaker = q /\ q # Nobody /\ age["breaker"] <= idle[q]
      BY LockAssumption DEF Shielded, BreakersOwn
    <2>2. age["breaker"] \in Nat /\ age["breaker"] <= Stale
      <3>1. /\ age["breaker"] \in Nat /\ idle[q] \in Nat /\ idle[q] <= Lag
            /\ Lag \in Nat /\ Stale \in Nat /\ 3 * Lag <= Stale
        BY Numbers DEF Files
      <3>2. age["breaker"] <= idle[q]
        BY <2>1
      <3> QED
        BY <3>1, <3>2
    <2>3. ~(RemoveBreaker(p) /\ ~undercut')
      BY <2>1, <2>2 DEF RemoveBreaker
    <2>4. Breaks(p)
      BY <2>3 DEF BreakerGoes, Unbreak, Goes, Breaks, BreakSteps
    <2> QED
      BY <1>4, <2>1, <2>4 DEF Shielded, BreakersOwn
  <1>5. ASSUME NEW q \in Processes
        PROVE  /\ Alive(q)' <=> Alive(q)
               /\ step'[q] \in Has \cup {"meta"} <=> step[q] \in Has \cup {"meta"}
               /\ step'[q] \in Has => q # p /\ step'[q] = step[q]
               /\ step'[q] \in Making => step[q] \in Making /\ idle'[q] = idle[q]
               /\ step'[q] \in Has \cup {"meta"} => step'[q] = step[q]
               /\ step[q] \in Has \cup {"meta"} => step'[q] = step[q]
               /\ Signed(q)' => Signed(q)
    BY <1>1, <1>2, <1>3 DEF Alive, Making, Has, Signed
  <1>6. MakersOwn'
    BY <1>2, <1>5 DEF Shielded, MakersOwn, Has
  <1>7. BreakersOwn'
    BY <1>1, <1>3, <1>4 DEF BreakersOwn, Breaks, BreakSteps
  <1>8. FilesAreFresh'
    BY <1>1, <1>2, <1>3, <1>5 DEF Shielded, FilesAreFresh, Making, Has
  <1>9. RechecksAreLate'
    BY <1>1, <1>2, <1>3, <1>5 DEF Shielded, RechecksAreLate, Has
  <1>10. StaleIsAbandoned'
    BY <1>1, <1>3, <1>4 DEF StaleIsAbandoned, Breaks, BreakSteps
  <1> QED
    BY <1>2, <1>6, <1>7, <1>8, <1>9, <1>10 DEF Shielded

\* The lock is removed by who made the breaker, and was nobody's.
LEMMA RemoveLockShielded ==
    ASSUME Always, Shielded, NEW p \in Processes, RemoveLock(p)
    PROVE  Shielded'
  <1>1. step[p] = "rm lock"
    BY DEF RemoveLock, Unlink, Rmdir, Goes
  <1>2. ASSUME NEW q \in Processes PROVE ~Alive(q)
    BY <1>1 DEF Shielded, StaleIsAbandoned
  <1>3. CASE Unlink(p, "rm lock")
    <2>1. /\ UNCHANGED <<step, owner, breaker, idle, failed>>
          /\ age'["breaker"] = age["breaker"]
      BY <1>3 DEF Unlink, timeVars, noteVars, Always, LockTypeOK, Files
    <2>2. ASSUME NEW q \in Processes PROVE ~Alive(q)'
      BY <1>2, <2>1 DEF Alive
    <2>3. BreakersOwn' /\ StaleIsAbandoned'
      BY <2>1, <2>2 DEF Shielded, BreakersOwn, Breaks, StaleIsAbandoned
    <2> QED
      BY <2>1, <2>2, <2>3
         DEF Shielded, MakersOwn, FilesAreFresh, RechecksAreLate, Signed, Alive, Making, Has
  <1>4. CASE Rmdir(p, "rm lock", "again")
    <2>1. /\ "again" \in Steps \ {"idle", "hold", "remove"} /\ Goes(p, "rm lock", "again")
          /\ UNCHANGED <<breaker, failed>>
          /\ age'["breaker"] = age["breaker"]
      BY <1>4 DEF Rmdir, Fresh, noteVars, Always, LockTypeOK, Files, Steps
    <2>2. /\ \A q \in Processes : step'[q] = IF q = p THEN "again" ELSE step[q]
          /\ \A q \in Processes : idle'[q] = idle[q]
      BY <2>1, GoesOn
    <2>3. ASSUME NEW q \in Processes PROVE ~Alive(q)'
      BY <1>2, <2>2 DEF Alive, Making, Has
    <2>4. BreakersOwn'
      BY <1>1, <2>1, <2>2 DEF Shielded, BreakersOwn, Breaks, BreakSteps
    <2>5. ASSUME NEW q \in Processes PROVE step'[q] # "rm lock"
      BY <1>1, <2>2 DEF Shielded, BreakersOwn, Breaks, BreakSteps
    <2> QED
      BY <2>1, <2>3, <2>4, <2>5
         DEF Shielded, MakersOwn, FilesAreFresh, RechecksAreLate, StaleIsAbandoned, Signed, Alive,
             Making, Has
  <1> QED
    BY <1>3, <1>4 DEF RemoveLock

\* One process has the lock, so a step of it leaves no other with claims on it.
LEMMA OnlyMaker ==
    ASSUME Shielded, NEW p \in Processes, Alive(p), NEW q \in Processes
    PROVE  (q # p => ~Alive(q)) /\ step[q] # "rm lock"
  BY DEF Shielded, MakersOwn, StaleIsAbandoned

\* The files of a lock are written by who made it, and are not there before.
LEMMA WriteHeartbeatShielded ==
    ASSUME Always, Shielded, NEW p \in Processes, WriteHeartbeat(p)
    PROVE  Shielded' /\ undercut' = undercut
  <1>1. step[p] = "heartbeat"
    BY DEF WriteHeartbeat, Compromised, Goes
  <1>2. Alive(p) /\ owner = p /\ ~heartbeat /\ token = Nobody /\ owner # Nobody
    BY <1>1, LockAssumption DEF Shielded, MakersOwn, Alive, Making, Has
  <1>3. /\ "meta" \in Steps \ {"idle", "hold", "remove"} /\ Goes(p, "heartbeat", "meta") /\ heartbeat' = TRUE
        /\ age' = [age EXCEPT !["heartbeat"] = 0, !["dir"] = 0]
        /\ UNCHANGED <<owner, token, breaker, undercut, failed>>
    BY <1>2 DEF WriteHeartbeat, noteVars, Steps
  <1>4. age'["heartbeat"] = 0 /\ age'["dir"] = 0 /\ age'["breaker"] = age["breaker"]
    BY <1>3 DEF Always, LockTypeOK, Files
  <1>5. /\ \A q \in Processes : step'[q] = IF q = p THEN "meta" ELSE step[q]
        /\ \A q \in Processes : idle'[q] = idle[q]
    BY <1>3, GoesOn
  <1>6. ASSUME NEW q \in Processes
        PROVE  (q # p => ~Alive(q)') /\ step'[q] # "rm lock" /\ step'[q] \notin Making \cup Has
    BY <1>2, <1>5, OnlyMaker DEF Alive, Making, Has
  <1>7. MakersOwn'
    BY <1>2, <1>3, <1>5, <1>6 DEF MakersOwn, Making, Has
  <1>8. BreakersOwn'
    BY <1>3, <1>4, <1>5 DEF Shielded, BreakersOwn, Breaks, BreakSteps
  <1>9. idle'[p] \in Nat /\ 0 <= idle'[p]
    BY <1>5, Numbers
  <1>10. ASSUME NEW q \in Processes, step'[q] = "meta"
         PROVE  age'["dir"] <= idle'[q] /\ age'["heartbeat"] <= idle'[q]
    BY <1>4, <1>6, <1>9, <1>10 DEF Alive
  <1>11. FilesAreFresh'
    BY <1>6, <1>10 DEF FilesAreFresh, Has
  <1> QED
    BY <1>3, <1>6, <1>7, <1>8, <1>11 DEF Shielded, RechecksAreLate, StaleIsAbandoned, Signed, Has

LEMMA WriteMetaShielded ==
    ASSUME Always, Shielded, NEW p \in Processes, WriteMeta(p)
    PROVE  Shielded' /\ undercut' = undercut
  <1>1. step[p] = "meta"
    BY DEF WriteMeta, Compromised, Goes
  <1>2. Alive(p) /\ owner = p /\ heartbeat /\ token = Nobody /\ owner # Nobody
    BY <1>1, LockAssumption DEF Shielded, MakersOwn, Alive, Making, Has
  <1>3. /\ "hold" \in Steps /\ Goes(p, "meta", "hold") /\ token' = p
        /\ age' = [age EXCEPT !["meta"] = 0, !["dir"] = 0]
        /\ UNCHANGED <<owner, heartbeat, breaker, undercut, failed>>
    BY <1>2 DEF WriteMeta, noteVars, Steps
  <1>4. /\ age'["meta"] = 0 /\ age'["dir"] = 0
        /\ age'["breaker"] = age["breaker"] /\ age'["heartbeat"] = age["heartbeat"]
    BY <1>3 DEF Always, LockTypeOK, Files
  <1>5. /\ \A q \in Processes : step'[q] = IF q = p THEN "hold" ELSE step[q]
        /\ \A q \in Processes : q # p => idle'[q] = idle[q] /\ clock'[q] = clock[q]
        /\ idle'[p] = 0
    BY ZenonT(60), <1>3, GoesEffect
  <1>6. ASSUME NEW q \in Processes
        PROVE  /\ q # p => ~Alive(q)'
               /\ step'[q] \notin Making \cup {"remove", "meta", "rm lock"}
    BY <1>2, <1>5, OnlyMaker DEF Alive, Making, Has
  <1>7. MakersOwn'
    BY <1>2, <1>3, <1>5, <1>6 DEF MakersOwn, Making, Has
  <1>8. BreakersOwn'
    BY <1>3, <1>4, <1>5 DEF Shielded, BreakersOwn, Breaks, BreakSteps
  <1>9. age'["heartbeat"] <= Lag + idle'[p]
    <2>1. /\ age["heartbeat"] \in Nat /\ idle[p] \in Nat /\ idle[p] <= Lag /\ Lag \in Nat
      BY Numbers DEF Files
    <2>2. age["heartbeat"] <= idle[p]
      BY <1>1 DEF Shielded, FilesAreFresh
    <2>3. age'["heartbeat"] = age["heartbeat"] /\ idle'[p] = 0
      BY <1>4, <1>5
    <2> QED
      BY <2>1, <2>2, <2>3
  <1>10. FilesAreFresh'
    BY <1>6, <1>9 DEF FilesAreFresh, Alive, Has
  <1>11. \A q \in Processes : clock'[q] \in Nat /\ 0 <= clock'[q]
    <2>1. clock' \in [Processes -> 0..Lag]
      BY <1>3, GoesEffect
    <2> QED
      BY <2>1, LockAssumption
  <1>12. RechecksAreLate'
    BY <1>4, <1>11 DEF RechecksAreLate
  <1> QED
    BY <1>3, <1>6, <1>7, <1>8, <1>10, <1>12 DEF Shielded, StaleIsAbandoned

\* The holder renews the file that tells the age.
LEMMA HeartbeatShielded ==
    ASSUME Always, Shielded, Beat = "now", NEW p \in Processes, Heartbeat(p)
    PROVE  Shielded'
  <1>1. /\ step[p] = "hold" /\ UNCHANGED <<step, owner, heartbeat, token, breaker, clock, failed>>
        /\ age' = [age EXCEPT !["heartbeat"] = 0] /\ idle' = [idle EXCEPT ![p] = 0]
    BY DEF Heartbeat, fileVars, noteVars
  <1>2. /\ age'["heartbeat"] = 0 /\ age'["breaker"] = age["breaker"]
        /\ age'["meta"] = age["meta"] /\ age'["dir"] = age["dir"]
        /\ idle'[p] = 0 /\ \A q \in Processes : q # p => idle'[q] = idle[q]
    BY <1>1 DEF Always, LockTypeOK, Files
  <1>3. Alive(p) /\ ~Breaks(p)
    BY <1>1 DEF Alive, Has, Breaks, BreakSteps
  <1>4. MakersOwn' /\ StaleIsAbandoned' /\ RechecksAreLate'
    BY <1>1, <1>2 DEF Shielded, MakersOwn, StaleIsAbandoned, RechecksAreLate, Signed, Alive
  <1>5. BreakersOwn'
    BY <1>1, <1>2, <1>3 DEF Shielded, BreakersOwn, Breaks
  <1>6. ASSUME NEW q \in Processes, Alive(q) PROVE q = p
    BY <1>3, <1>6, OnlyMaker
  <1>7. 0 <= Lag + 0
    BY Numbers
  <1>8. FilesAreFresh'
    BY <1>1, <1>2, <1>6, <1>7 DEF FilesAreFresh, Alive, Making, Has
  <1> QED
    BY <1>1, <1>4, <1>5, <1>8 DEF Shielded

\* The holder finds its token, and has the time of a release from then on.
LEMMA ReleaseShielded ==
    ASSUME Always, Shielded, NEW p \in Processes, Release(p)
    PROVE  Shielded' /\ undercut' = undercut
  <1>1. step[p] = "hold"
    BY DEF Release, Compromised, Goes
  <1>2. Alive(p) /\ owner = p /\ token = p /\ p # Nobody
    BY <1>1, LockAssumption DEF Shielded, MakersOwn, Alive, Has
  <1>3. /\ Goes(p, "hold", "remove")
        /\ UNCHANGED <<owner, heartbeat, token, breaker, age, undercut, failed>>
    BY <1>2 DEF Release, fileVars, noteVars
  <1>4. /\ \A q \in Processes : step'[q] = IF q = p THEN "remove" ELSE step[q]
        /\ \A q \in Processes : q # p => idle'[q] = idle[q] /\ clock'[q] = clock[q]
        /\ idle'[p] = 0
    <2>1. "remove" \in Steps
      BY DEF Steps
    <2> QED
      BY <1>3, <2>1, GoesEffect
  <1>5. ASSUME NEW q \in Processes
        PROVE  /\ q # p => ~Alive(q)'
               /\ step'[q] \notin Making \cup {"hold", "meta", "rm lock"}
               /\ Signed(q)' => q = p
    BY <1>2, <1>4, OnlyMaker DEF Alive, Making, Has, Signed
  <1>6. MakersOwn'
    BY <1>2, <1>3, <1>4, <1>5 DEF MakersOwn
  <1>7. BreakersOwn'
    BY <1>3, <1>4 DEF Shielded, BreakersOwn, Breaks, BreakSteps
  <1>8. age["heartbeat"] <= 2 * Lag + 0
    <2>1. /\ age["heartbeat"] \in Nat /\ idle[p] \in Nat /\ idle[p] <= Lag /\ Lag \in Nat
      BY Numbers DEF Files
    <2>2. age["heartbeat"] <= Lag + idle[p]
      BY <1>1 DEF Shielded, FilesAreFresh
    <2> QED
      BY <2>1, <2>2
  <1>9. FilesAreFresh'
    BY <1>2, <1>3, <1>4, <1>5, <1>8 DEF FilesAreFresh, Alive, Has
  <1>10. RechecksAreLate'
    BY <1>1, <1>3, <1>4, <1>5 DEF Shielded, RechecksAreLate, Signed
  <1> QED
    BY <1>3, <1>5, <1>6, <1>7, <1>9, <1>10 DEF Shielded, StaleIsAbandoned

\* Who gives the lock back removes its files one by one, then the directory; the
\* directory is as young as the last removal.
LEMMA ReleaseRemovesShielded ==
    ASSUME Always, Shielded, NEW p \in Processes, ReleaseRemoves(p)
    PROVE  Shielded'
  <1>1. step[p] = "remove"
    BY DEF ReleaseRemoves, Unlink, Rmdir, Goes
  <1>2. Alive(p) /\ owner = p
    BY <1>1 DEF Shielded, MakersOwn, Alive, Has
  <1>3. ASSUME NEW q \in Processes PROVE (q # p => ~Alive(q)) /\ step[q] # "rm lock"
    BY <1>2, OnlyMaker
  <1>4. CASE Unlink(p, "remove")
    <2>1. UNCHANGED <<step, owner, breaker, idle, clock, failed>>
      BY <1>4 DEF Unlink, timeVars, noteVars
    <2>2. /\ age'["breaker"] = age["breaker"] /\ age'["dir"] = 0
          /\ heartbeat' => heartbeat /\ age'["heartbeat"] = age["heartbeat"]
      BY <1>4 DEF Unlink, Always, LockTypeOK, Files
    <2>3. ASSUME NEW q \in Processes, Alive(q)' PROVE q = p
      BY <1>3, <2>1, <2>3 DEF Alive
    <2>4. \A q \in Processes : 0 <= idle[q] /\ 0 <= clock[q]
      BY Numbers
    <2>5. MakersOwn'
      BY <1>1, <1>2, <2>1, <2>3 DEF MakersOwn
    <2>6. BreakersOwn'
      BY <2>1, <2>2 DEF Shielded, BreakersOwn, Breaks
    <2>7. FilesAreFresh'
      <3> SUFFICES ASSUME NEW q \in Processes, Alive(q)'
                   PROVE  /\ q = p /\ step'[q] = "remove"
                          /\ heartbeat' => age'["heartbeat"] <= 2 * Lag + idle'[q]
                          /\ age'["dir"] <= idle'[q]
        BY DEF FilesAreFresh, Alive, Making, Has
      <3>1. q = p
        BY <2>3
      <3> QED
        BY <1>1, <2>1, <2>2, <2>4, <3>1 DEF Shielded, FilesAreFresh
    <2>8. RechecksAreLate'
      BY <1>1, <2>1, <2>2, <2>3, <2>4 DEF RechecksAreLate, Alive, Has
    <2>9. StaleIsAbandoned'
      BY <1>3, <2>1 DEF StaleIsAbandoned
    <2> QED
      BY <2>1, <2>5, <2>6, <2>7, <2>8, <2>9 DEF Shielded
  <1>5. CASE Rmdir(p, "remove", "idle")
    <2>1. /\ Goes(p, "remove", "idle") /\ UNCHANGED <<breaker, failed>>
          /\ age'["breaker"] = age["breaker"]
      BY <1>5 DEF Rmdir, Fresh, noteVars, Always, LockTypeOK, Files
    <2>2. /\ \A q \in Processes : step'[q] = IF q = p THEN "idle" ELSE step[q]
          /\ \A q \in Processes : q # p => idle'[q] = idle[q]
      <3>1. "idle" \in Steps
        BY DEF Steps
      <3> QED
        BY ZenonT(60), <2>1, <3>1, GoesEffect
    <2>3. ASSUME NEW q \in Processes PROVE ~Alive(q)' /\ step'[q] # "rm lock"
      BY <1>3, <2>2 DEF Alive, Making, Has
    <2>4. BreakersOwn'
      BY <1>1, <2>1, <2>2 DEF Shielded, BreakersOwn, Breaks, BreakSteps
    <2> QED
      BY <2>1, <2>3, <2>4
         DEF Shielded, MakersOwn, FilesAreFresh, RechecksAreLate, StaleIsAbandoned, Signed, Alive,
             Making, Has
  <1> QED
    BY <1>4, <1>5 DEF ReleaseRemoves

\* Who crashes has no claims any more; nobody else gets any by that.
LEMMA CrashShielded ==
    ASSUME Always, Shielded, NEW p \in Processes, Crash(p)
    PROVE  Shielded'
  <1>1. /\ UNCHANGED <<owner, heartbeat, token, breaker, age, failed>>
        /\ \A q \in Processes : step'[q] = IF q = p THEN "crashed" ELSE step[q]
        /\ \A q \in Processes : q # p => idle'[q] = idle[q] /\ clock'[q] = clock[q]
    BY DEF Crash, fileVars, Always, LockTypeOK
  <1>2. ASSUME NEW q \in Processes
        PROVE  /\ step'[q] \in {"rm lock", "recheck meta", "recheck dir", "meta", "hold", "remove"}
                               \cup Making \cup Has \cup BreakSteps => q # p
               /\ Alive(q)' => q # p /\ Alive(q) /\ step'[q] = step[q]
    BY <1>1 DEF Alive, Making, Has, BreakSteps
  <1>3. MakersOwn'
    BY <1>1, <1>2, MakersStay DEF Shielded
  <1>4. BreakersOwn'
    BY <1>1, <1>2 DEF Shielded, BreakersOwn, Breaks
  <1>5. FilesAreFresh'
    BY <1>1, <1>2 DEF Shielded, FilesAreFresh
  <1>6. RechecksAreLate'
    BY <1>1, <1>2 DEF Shielded, RechecksAreLate, Signed
  <1>7. StaleIsAbandoned'
    BY <1>1, <1>2 DEF Shielded, StaleIsAbandoned
  <1> QED
    BY <1>1, <1>3, <1>4, <1>5, <1>6, <1>7 DEF Shielded

\* While time passes, a file grows older no faster than the one at work.
LEMMA TickShielded == ASSUME Always, Shielded, Tick PROVE Shielded'
  <1>1. /\ UNCHANGED <<step, owner, heartbeat, token, breaker, failed>>
        /\ age' = [f \in Files |-> IF Exists(f) THEN Later(age[f]) ELSE 0]
        /\ idle' = [p \in Processes |-> IF Busy(p) THEN idle[p] + 1 ELSE 0]
        /\ clock' = [p \in Processes |-> IF Busy(p) /\ step[p] # "hold" THEN clock[p] + 1 ELSE 0]
    BY DEF Tick, fileVars, noteVars
  <1>2. ASSUME NEW f \in Files PROVE age'[f] \in Nat /\ age'[f] <= age[f] + 1
    <2>1. age[f] \in Nat
      BY Numbers
    <2>2. Later(age[f]) \in Nat /\ Later(age[f]) <= age[f] + 1
      BY <2>1 DEF Later
    <2>3. age'[f] = IF Exists(f) THEN Later(age[f]) ELSE 0
      BY <1>1
    <2> QED
      BY <2>1, <2>2, <2>3
  <1>3. /\ age'["dir"] <= age["dir"] + 1 /\ age'["meta"] <= age["meta"] + 1
        /\ age'["heartbeat"] <= age["heartbeat"] + 1 /\ age'["breaker"] <= age["breaker"] + 1
        /\ age'["dir"] \in Nat /\ age'["meta"] \in Nat /\ age'["heartbeat"] \in Nat
        /\ age'["breaker"] \in Nat
        /\ age["dir"] \in Nat /\ age["meta"] \in Nat /\ age["heartbeat"] \in Nat
        /\ age["breaker"] \in Nat
    BY <1>2, Numbers DEF Files
  <1>4. ASSUME NEW p \in Processes, Alive(p) \/ Breaks(p) \/ step[p] \in Making
        PROVE  idle[p] \in Nat /\ idle'[p] = idle[p] + 1
    BY <1>1, <1>4, Numbers DEF Alive, Breaks, Busy, Making, Has, BreakSteps
  <1>5. ASSUME NEW p \in Processes, step[p] \in {"recheck meta", "recheck dir"}
        PROVE  clock[p] \in Nat /\ clock'[p] = clock[p] + 1
    BY <1>1, <1>5, Numbers DEF Busy
  <1>6. MakersOwn' /\ StaleIsAbandoned'
    BY <1>1 DEF Shielded, MakersOwn, StaleIsAbandoned, Alive
  <1>7. ASSUME NEW p \in Processes, Breaks(p)
        PROVE  breaker = p /\ age'["breaker"] <= idle'[p]
    <2>1. breaker = p /\ age["breaker"] <= idle[p]
      BY <1>7 DEF Shielded, BreakersOwn
    <2>2. age["breaker"] <= idle[p]
      BY <2>1
    <2>3. age'["breaker"] <= idle'[p]
      BY <1>3, <1>4, <1>7, <2>2
    <2> QED
      BY <2>1, <2>3
  <1>8. BreakersOwn'
    BY <1>1, <1>7 DEF BreakersOwn, Breaks
  <1>9. ASSUME NEW p \in Processes
        PROVE  /\ step[p] \in Making => age'["dir"] <= idle'[p]
               /\ step[p] = "meta" => age'["dir"] <= idle'[p] /\ age'["heartbeat"] <= idle'[p]
               /\ step[p] = "hold" => age'["heartbeat"] <= Lag + idle'[p]
               /\ step[p] = "remove" /\ heartbeat => age'["heartbeat"] <= 2 * Lag + idle'[p]
               /\ step[p] = "remove" /\ token = Nobody => age'["dir"] <= idle'[p]
    <2>1. Lag \in Nat
      BY Numbers
    <2>2. CASE step[p] \in Making
      <3>1. /\ age["dir"] <= idle[p] /\ step[p] \notin {"meta", "hold", "remove"}
            /\ idle[p] \in Nat /\ idle'[p] = idle[p] + 1
        BY <1>4, <2>2 DEF Shielded, FilesAreFresh, Making
      <3>2. age'["dir"] <= idle'[p]
        BY <1>3, <3>1
      <3> QED
        BY <3>1, <3>2
    <2>3. CASE step[p] = "meta"
      <3>1. age["dir"] <= idle[p] /\ age["heartbeat"] <= idle[p]
        BY <2>3 DEF Shielded, FilesAreFresh
      <3>2. idle[p] \in Nat /\ idle'[p] = idle[p] + 1 /\ step[p] \notin Making
        BY <1>4, <2>3 DEF Alive, Making
      <3>3. age'["dir"] <= idle'[p] /\ age'["heartbeat"] <= idle'[p]
        BY <1>3, <3>1, <3>2
      <3> QED
        BY <2>3, <3>2, <3>3
    <2>4. CASE step[p] = "hold"
      <3>1. age["heartbeat"] <= Lag + idle[p]
        BY <2>4 DEF Shielded, FilesAreFresh
      <3>2. idle[p] \in Nat /\ idle'[p] = idle[p] + 1 /\ step[p] \notin Making
        BY <1>4, <2>4 DEF Alive, Making, Has
      <3>3. age'["heartbeat"] <= Lag + idle'[p]
        BY <1>3, <2>1, <3>1, <3>2
      <3> QED
        BY <2>4, <3>2, <3>3
    <2>5. CASE step[p] = "remove"
      <3>1. /\ heartbeat => age["heartbeat"] <= 2 * Lag + idle[p]
            /\ token = Nobody => age["dir"] <= idle[p]
        BY <2>5 DEF Shielded, FilesAreFresh
      <3>2. idle[p] \in Nat /\ idle'[p] = idle[p] + 1 /\ step[p] \notin Making
        BY <1>4, <2>5 DEF Alive, Making, Has
      <3>3. /\ heartbeat => age'["heartbeat"] <= 2 * Lag + idle'[p]
            /\ token = Nobody => age'["dir"] <= idle'[p]
        BY <1>3, <2>1, <3>1, <3>2
      <3> QED
        BY <2>5, <3>2, <3>3
    <2> QED
      BY <2>2, <2>3, <2>4, <2>5
  <1>10. FilesAreFresh'
    BY <1>1, <1>9 DEF FilesAreFresh
  <1>11. ASSUME NEW p \in Processes, NEW q \in Processes
         PROVE  /\ step[p] = "hold" /\ step[q] = "recheck meta" => age'["meta"] <= clock'[q]
                /\ Signed(p) /\ step[q] = "recheck dir" => age'["dir"] <= clock'[q]
    <2>1. CASE step[p] = "hold" /\ step[q] = "recheck meta"
      <3>1. age["meta"] <= clock[q]
        BY <2>1 DEF Shielded, RechecksAreLate
      <3>2. clock[q] \in Nat /\ clock'[q] = clock[q] + 1
        BY <1>5, <2>1
      <3>3. age'["meta"] <= clock'[q]
        BY <1>3, <3>1, <3>2
      <3> QED
        BY <2>1, <3>3
    <2>2. CASE Signed(p) /\ step[q] = "recheck dir"
      <3>1. age["dir"] <= clock[q]
        BY <2>2 DEF Shielded, RechecksAreLate
      <3>2. clock[q] \in Nat /\ clock'[q] = clock[q] + 1
        BY <1>5, <2>2
      <3>3. age'["dir"] <= clock'[q]
        BY <1>3, <3>1, <3>2
      <3> QED
        BY <2>2, <3>3
    <2> QED
      BY <2>1, <2>2
  <1> QED
    BY <1>1, <1>6, <1>8, <1>10, <1>11 DEF Shielded, RechecksAreLate, Signed

-----------------------------------------------------------------------------
\* Once the protocol was interfered with, that stays noted.
LEMMA InterferedStays == Always /\ Interfered /\ [LockNext]_lockVars => Interfered'
  <1> SUFFICES ASSUME Always, Interfered, [LockNext]_lockVars PROVE Interfered'
    OBVIOUS
  <1> USE DEF Interfered
  <1>1. ASSUME NEW p \in Processes, Works(p) PROVE Interfered'
    <2>1. CASE RemoveBreaker(p)
      BY <2>1 DEF RemoveBreaker
    <2>2. CASE RecheckMeta(p)
      BY <2>2 DEF RecheckMeta
    <2> QED
      BY <1>1, <2>1, <2>2
         DEF Works, Attempt, Mkdir, MkdirAgain, MakeDir, StatHeartbeat, StatMeta, StatDir,
             Break, StatBreaker, RecheckHeartbeat, RecheckDir, RemoveLock, Unlink, Rmdir, Unbreak,
             WriteHeartbeat, WriteMeta, Compromised, Heartbeat, Release, ReleaseRemoves, noteVars
  <1> QED
    BY <1>1 DEF LockNext, Crash, StartAnew, Tick, lockVars, noteVars

LEMMA WorksShielded ==
    ASSUME Always, Shielded, Beat = "now", NEW p \in Processes, Works(p) \/ StartAnew(p),
           ~Interfered'
    PROVE  Shielded'
  <1> USE DEF Interfered
  <1>1. CASE Looks(p)
    BY <1>1, LooksMoveOn, MovesOnShielded
  <1>2. CASE Mkdir(p) \/ MkdirAgain(p)
    <2>1. CASE owner # Nobody
      BY <1>2, <2>1, LostMovesOn, MovesOnShielded
    <2>2. CASE owner = Nobody
      <3>1. MakesDir(p, "mkdir", "heartbeat") \/ MakesDir(p, "again", "unbreak won")
        BY <1>2, <2>2 DEF Mkdir, MkdirAgain, MakeDir, MakesDir
      <3> QED
        BY <3>1, MakesDirShielded
    <2> QED
      BY <2>1, <2>2
  <1>3. CASE Break(p)
    BY <1>3, LostMovesOn, MovesOnShielded, BreakShielded
  <1>4. CASE RemoveBreaker(p) \/ Unbreak(p, "unbreak", "idle")
             \/ Unbreak(p, "unbreak won", "heartbeat")
    BY <1>4, BreakerGoesShielded DEF BreakerGoes
  <1>5. CASE RemoveLock(p) \/ WriteHeartbeat(p) \/ WriteMeta(p)
    BY <1>5, RemoveLockShielded, WriteHeartbeatShielded, WriteMetaShielded
  <1>6. CASE Heartbeat(p) \/ Release(p) \/ ReleaseRemoves(p)
    BY <1>6, HeartbeatShielded, ReleaseShielded, ReleaseRemovesShielded
  <1> QED
    BY <1>1, <1>2, <1>3, <1>4, <1>5, <1>6 DEF Works, Looks

LEMMA LockInvKept ==
    ASSUME Beat = "now"
    PROVE  LockInv /\ [LockNext]_lockVars => LockInv'
  <1> SUFFICES ASSUME LockInv, [LockNext]_lockVars PROVE LockInv'
    OBVIOUS
  <1>1. Always /\ Always'
    BY AlwaysKept DEF LockInv
  <1>2. Interfered => Interfered'
    BY <1>1, InterferedStays
  <1>3. ASSUME Shielded, ~Interfered' PROVE Shielded'
    <2>1. CASE UNCHANGED lockVars
      BY <1>3, <2>1
         DEF Shielded, MakersOwn, BreakersOwn, FilesAreFresh, RechecksAreLate, StaleIsAbandoned,
             Signed, Alive, Breaks, lockVars, fileVars, timeVars, noteVars
    <2>2. ASSUME NEW p \in Processes, Works(p) \/ StartAnew(p) PROVE Shielded'
      BY <1>1, <1>3, <2>2, WorksShielded
    <2> QED
      BY <1>1, <1>3, <2>1, <2>2, CrashShielded, TickShielded DEF LockNext
  <1> QED
    BY <1>1, <1>2, <1>3 DEF LockInv

\* Until a fresh breaker is removed, or a lock found stale that is given back: who
\* made the lock has it with its files, they are too young to be taken for stale,
\* and what is about to be removed is nobody's.
THEOREM LockInvHolds == ASSUME Beat = "now" PROVE LockSpec => []LockInv
  <1>1. LockInit => LockInv
    BY LockInitInv
  <1>2. LockInv /\ [LockNext]_lockVars => LockInv'
    BY LockInvKept
  <1> QED
    BY <1>1, <1>2, PTL DEF LockSpec

\* A heartbeat that writes the present time keeps a lock (flock.ts): until a fresh
\* breaker is removed or a lock found stale that is given back, its holder is not
\* disturbed, no process meets a compromise, and one replaces a stale lock.
THEOREM LockIsKept == ASSUME Beat = "now" PROVE LockSpec => []LockContract
  <1>1. LockInv => LockTypeOK
    BY DEF LockInv, Always
  <1>2. LockInv => HolderKeepsLock
    BY DEF LockInv, Shielded, MakersOwn, HolderKeepsLock, Alive, Has
  <1>3. LockInv => NoCompromise
    BY DEF LockInv, Shielded, NoCompromise
  <1>4. LockInv => OneReplaces
    BY DEF LockInv, Shielded, BreakersOwn, OneReplaces, Breaks, BreakSteps
  <1>5. LockInv => LockContract
    BY <1>1, <1>2, <1>3, <1>4 DEF LockContract
  <1> QED
    BY <1>5, LockInvHolds, PTL

\* At no time two processes have the lock, until a fresh breaker is removed, or a
\* lock found stale that is given back.
THEOREM OneHolder == ASSUME Beat = "now" PROVE LockSpec => [](Interfered \/ MutualExclusion)
  <1>1. LockInv => Interfered \/ MutualExclusion
    BY DEF LockInv, Shielded, MakersOwn, MutualExclusion, Alive, Has
  <1> QED
    BY <1>1, LockInvHolds, PTL
=============================================================================
