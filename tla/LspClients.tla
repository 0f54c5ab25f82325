----------------------------- MODULE LspClients -----------------------------
(***************************************************************************)
(* packages/ravens/src/lsp/lsp.ts: getClients, which starts the language   *)
(* server of a file's root when it is first needed.  One root and one      *)
(* server; what is kept for others has other keys.                         *)
(*                                                                         *)
(* Plain promises: an action lasts from one await to the next.  A spawn is *)
(* named by the call that scheduled it.                                    *)
(***************************************************************************)
CONSTANTS
    Lookups,    \* calls of getClients
    NoLookup

ASSUME LspAssumption == NoLookup \notin Lookups

VARIABLES
    lookup,     \* of a call: the await it is at
    client,     \* of a call: the client it returns
    awaited,    \* of a call: the spawn it waits for
    broken,     \* the key is in s.broken
    clients,    \* s.clients
    spawning,   \* s.spawning.get(key)
    spawn,      \* of a spawn: where schedule is
    process,    \* of a spawn: its process
    disposed,   \* the finalizer of the state has run
    late        \* spawns that were under way then

lspVars == <<lookup, client, awaited, broken, clients, spawning, spawn, process, disposed, late>>

SpawnOver(l) == spawn[l] \in {"none", "over"}

LspTypeOK ==
    /\ lookup \in [Lookups -> {"new", "root", "spawn", "returned"}]
    /\ client \in [Lookups -> Lookups \cup {NoLookup}]
    /\ awaited \in [Lookups -> Lookups \cup {NoLookup}]
    /\ broken \in BOOLEAN
    /\ clients \subseteq Lookups
    /\ spawning \in Lookups \cup {NoLookup}
    /\ spawn \in [Lookups -> {"none", "spawns", "creates", "stops", "over"}]
    /\ process \in [Lookups -> {"none", "runs", "stopped"}]
    /\ disposed \in BOOLEAN
    /\ late \subseteq Lookups
    /\ spawning # NoLookup => ~SpawnOver(spawning)

LspInit ==
    /\ lookup = [l \in Lookups |-> "new"]
    /\ client = [l \in Lookups |-> NoLookup]
    /\ awaited = client
    /\ broken = FALSE
    /\ clients = {}
    /\ spawning = NoLookup
    /\ spawn = [l \in Lookups |-> "none"]
    /\ process = [l \in Lookups |-> "none"]
    /\ disposed = FALSE
    /\ late = {}

-----------------------------------------------------------------------------
\* getClients asks for the root of the file.
LookupBegins(l) ==
    /\ lookup[l] = "new"
    /\ ~disposed
    /\ lookup' = [lookup EXCEPT ![l] = "root"]
    /\ UNCHANGED <<client, awaited, broken, clients, spawning, spawn, process, disposed, late>>

Returns(l, c) ==
    /\ lookup' = [lookup EXCEPT ![l] = "returned"]
    /\ client' = [client EXCEPT ![l] = c]

\* Variant: a spawn that is under way is not looked for.
LookupSpawns(l) ==
    /\ lookup[l] = "root"
    /\ \/ /\ broken
          /\ Returns(l, NoLookup)
          /\ UNCHANGED <<awaited, spawning, spawn>>
       \/ /\ ~broken /\ clients # {}
          /\ \E c \in clients : Returns(l, c)
          /\ UNCHANGED <<awaited, spawning, spawn>>
       \/ /\ ~broken /\ clients = {}
          /\ lookup' = [lookup EXCEPT ![l] = "spawn"]
          /\ spawn' = [spawn EXCEPT ![l] = "spawns"]
          /\ spawning' = l
          /\ awaited' = [awaited EXCEPT ![l] = spawning']
          /\ UNCHANGED client
    /\ UNCHANGED <<broken, clients, process, disposed, late>>

\* The root is known: the server is broken, or has a client, or is being spawned,
\* or is spawned now.
LookupFinds(l) ==
    /\ lookup[l] = "root"
    /\ \/ /\ broken
          /\ Returns(l, NoLookup)
          /\ UNCHANGED <<awaited, spawning, spawn>>
       \/ /\ ~broken /\ clients # {}
          /\ \E c \in clients : Returns(l, c)
          /\ UNCHANGED <<awaited, spawning, spawn>>
       \/ /\ ~broken /\ clients = {}
          /\ lookup' = [lookup EXCEPT ![l] = "spawn"]
          /\ IF spawning # NoLookup
             THEN UNCHANGED <<spawning, spawn>>
             ELSE spawning' = l /\ spawn' = [spawn EXCEPT ![l] = "spawns"]
          /\ awaited' = [awaited EXCEPT ![l] = spawning']
          /\ UNCHANGED client
    /\ UNCHANGED <<broken, clients, process, disposed, late>>

\* schedule settles; its entry is deleted before anybody who waits goes on.
SpawnSettles(l) ==
    /\ spawn' = [spawn EXCEPT ![l] = "over"]
    /\ spawning' = IF spawning = l THEN NoLookup ELSE spawning

\* server.spawn settles.
SpawnSucceeds(l) ==
    /\ spawn[l] = "spawns"
    /\ spawn' = [spawn EXCEPT ![l] = "creates"]
    /\ process' = [process EXCEPT ![l] = "runs"]
    /\ UNCHANGED <<lookup, client, awaited, broken, clients, spawning, disposed, late>>

SpawnFails(l) ==
    /\ spawn[l] = "spawns"
    /\ SpawnSettles(l)
    /\ broken' = TRUE
    /\ UNCHANGED <<lookup, client, awaited, clients, process, disposed, late>>

\* LSPClient.create fails, or takes too long: the process is stopped ...
CreateFails(l) ==
    /\ spawn[l] = "creates"
    /\ spawn' = [spawn EXCEPT ![l] = "stops"]
    /\ broken' = TRUE
    /\ UNCHANGED <<lookup, client, awaited, clients, spawning, process, disposed, late>>

\* ... which is waited for.
ProcessStops(l) ==
    /\ spawn[l] = "stops"
    /\ process' = [process EXCEPT ![l] = "stopped"]
    /\ SpawnSettles(l)
    /\ UNCHANGED <<lookup, client, awaited, broken, clients, disposed, late>>

\* The client is up, and kept.  (The code looks whether there is one already; by
\* OneServer there is none.)
CreateSucceeds(l) ==
    /\ spawn[l] = "creates"
    /\ clients = {}
    /\ SpawnSettles(l)
    /\ clients' = {l}
    /\ UNCHANGED <<lookup, client, awaited, broken, process, disposed, late>>

\* A call goes on with what its spawn gave.
AwaitedReturns(l) ==
    /\ lookup[l] = "spawn"
    /\ SpawnOver(awaited[l])
    /\ Returns(l, IF awaited[l] \in clients THEN awaited[l] ELSE NoLookup)
    /\ UNCHANGED <<awaited, broken, clients, spawning, spawn, process, disposed, late>>

\* The instance is disposed: the clients are shut down.  Calls that are under way
\* keep the state they have.
DisposeLsp ==
    /\ ~disposed
    /\ disposed' = TRUE
    /\ late' = {l \in Lookups : ~SpawnOver(l) \/ lookup[l] = "root"}
    /\ process' = [l \in Lookups |-> IF l \in clients THEN "stopped" ELSE process[l]]
    /\ UNCHANGED <<lookup, client, awaited, broken, clients, spawning, spawn>>

-----------------------------------------------------------------------------
LspNext ==
    \/ \E l \in Lookups :
         \/ LookupBegins(l) \/ LookupFinds(l) \/ AwaitedReturns(l)
         \/ SpawnSucceeds(l) \/ SpawnFails(l)
         \/ CreateSucceeds(l) \/ CreateFails(l) \/ ProcessStops(l)
    \/ DisposeLsp

LspSpec == LspInit /\ [][LspNext]_lspVars

LspFairness ==
    \A l \in Lookups :
        /\ WF_lspVars(LookupFinds(l)) /\ WF_lspVars(AwaitedReturns(l)) /\ WF_lspVars(ProcessStops(l))
        /\ WF_lspVars(SpawnSucceeds(l) \/ SpawnFails(l))
        /\ WF_lspVars(CreateSucceeds(l) \/ CreateFails(l))

-----------------------------------------------------------------------------
\* However many calls need a server at the same time: one process of it at a time,
\* and none is started while there is a client.
OneServer ==
    /\ \A l, m \in Lookups : process[l] = "runs" /\ process[m] = "runs" => l = m
    /\ \A l \in Lookups : ~SpawnOver(l) => clients = {}

\* A process that runs is known to the state, which shuts it down in the end, or
\* its spawn is still under way.
NoLostServer == \A l \in Lookups : process[l] = "runs" => l \in clients \/ ~SpawnOver(l)

\* What is not shut down by the disposal of the instance is what was being started
\* then: nobody ever stops it.
DisposedIsStopped == disposed => \A l \in Lookups : process[l] = "runs" => l \in late

\* What a call returns is a client that is up, and that the other calls get too.
SameClient ==
    \A l \in Lookups : client[l] # NoLookup =>
        /\ clients = {client[l]}
        /\ process[client[l]] = "runs" \/ disposed

\* Calls share one client, and no process of a server is without somebody who stops it.
LspContract == LspTypeOK /\ OneServer /\ NoLostServer /\ DisposedIsStopped /\ SameClient

\* A call returns, with or without a client.
LookupsReturn == \A l \in Lookups : []<>(lookup[l] \in {"new", "returned"})
=============================================================================
