----------------------------- MODULE MCFileLock -----------------------------
\* Two processes with two crashes, and three with one.
EXTENDS FileLock

CONSTANT Crews \* which processes want the lock

VARIABLE crew

crewVars == <<crew, lockVars>>

\* Behaviours are followed until a breaker was removed that was not the stale one, or
\* a lock was found stale that was given back.
Undisturbed ==
    /\ ~Interfered
    /\ LockNext
    /\ UNCHANGED crew
    /\ \A p \in Processes \ crew : step'[p] = "idle"
    /\ Cardinality(crew) > 2 => crashes' <= 1

CrewsInit == LockInit /\ crew \in Crews

UndisturbedSpec ==
    /\ CrewsInit
    /\ [][Undisturbed]_crewVars
    /\ \A p \in Processes : WF_lockVars(p \in crew /\ Works(p))
    /\ SF_lockVars(Tick)
=============================================================================
