------------------------------- MODULE McpAuth -------------------------------
(***************************************************************************)
(* packages/ravens/src/mcp/index.ts (startAuth, authenticate, finishAuth,  *)
(* removeAuth), mcp/auth.ts, mcp/oauth-provider.ts and                     *)
(* mcp/oauth-callback.ts: the ways of an authorization of an MCP server,   *)
(* from the request to the answer of a browser.                            *)
(*                                                                         *)
(* A flow is one call of authenticate and its own random state.  The state *)
(* and the code verifier of the last flow are in a file, its transport in  *)
(* a Map, all by the name of the server; the promises of callbacks are     *)
(* kept by state, with an index from names to states for removeAuth.  A    *)
(* state, a verifier and a transport are called by the flow they belong    *)
(* to.  What listens on the port is reduced to the port it was configured  *)
(* for.                                                                    *)
(*                                                                         *)
(* A name does what is done to its server outside flows: it is connected,  *)
(* which has a verifier and a transport too, its tokens are saved, and its *)
(* authorization is removed.                                               *)
(***************************************************************************)
CONSTANTS
    Flows,       \* calls of authenticate
    Names,       \* of MCP servers
    NameOf,      \* of a flow
    PortOf,      \* of a name: where its redirect goes
    NoFlow,
    NoPort

ASSUME AuthAssumption ==
    /\ NameOf \in [Flows -> Names]
    /\ Flows \cap Names = {}
    /\ NoFlow \notin Flows \cup Names
    /\ \A n \in Names : PortOf[n] # NoPort

Actors == Flows \cup Names

Of(a) == IF a \in Names THEN a ELSE NameOf[a]

VARIABLES
    flow,        \* of an actor: where it is
    port,        \* of the callback server
    file,        \* of a name: the stored state and verifier
    step,        \* of an actor: how far its change of the file is
    held,        \* of an actor: what it read of the file
    transports,  \* pendingOAuthTransports
    waiters,     \* keys of pendingAuths
    index,       \* mcpNameToState
    urlState,       \* of a flow: the state in its URL
    code,        \* of a flow: whose URL the code is of that it was given
    uses,        \* of a flow: the transport that finishes it
    proves,      \* of a flow: the verifier its code is sent with
    newest,      \* of a name: the flow that waited last
    unindexed,   \* names whose newest flow lost its entry to the timeout of an older one
    crossed,     \* flows that own the state while a thing of another takes the place of theirs
    lost         \* names with an entry that was written over unread

fileVars   == <<file, step, held, lost>>
waitVars   == <<waiters, index, newest, unindexed>>
redeemVars == <<urlState, code, uses, proves, crossed>>
authVars   == <<flow, port, transports, fileVars, waitVars, redeemVars>>

Entries == [state : Flows \cup {NoFlow}, verifier : Actors \cup {NoFlow}]
Files   == [Names -> Entries]
Blank   == [state |-> NoFlow, verifier |-> NoFlow]
Empty   == [n \in Names |-> Blank]

\* Where an actor that changes the file is, and where it is when it has.
Clears  == {"clears", "owns", "foreign", "redeemed"}
Changes == Clears \cup {"served", "generates", "named", "tokens", "removes"}

After(where) ==
    CASE where = "served"    -> "asks"
      [] where = "generates" -> "named"
      [] where = "named"     -> "told"
      [] where = "clears"    -> "done"
      [] where = "owns"      -> "checked"
      [] where = "foreign"   -> "failed"
      [] where = "redeemed"  -> "cleared"
      [] where = "tokens"    -> "new"
      [] where = "removes"   -> "removed"

FlowStates ==
    Changes \cup {"new", "asks", "told", "waits", "code", "checked", "finishes", "redeems",
                  "cleared", "removed", "done", "failed"}

AuthTypeOK ==
    /\ flow \in [Actors -> FlowStates]
    /\ port \in {PortOf[n] : n \in Names} \cup {NoPort}
    /\ file \in Files
    /\ step \in [Actors -> {"rest", "entry", "write"}]
    /\ held \in [Actors -> Files]
    /\ transports \in [Names -> Actors \cup {NoFlow}]
    /\ waiters \subseteq Flows
    /\ index \in [Names -> Flows \cup {NoFlow}]
    /\ urlState \in [Flows -> Flows \cup {NoFlow}]
    /\ code \in [Flows -> Flows \cup {NoFlow}]
    /\ uses \in [Flows -> Actors \cup {NoFlow}]
    /\ proves \in [Flows -> Actors \cup {NoFlow}]
    /\ newest \in [Names -> Flows \cup {NoFlow}]
    /\ unindexed \subseteq Names
    /\ crossed \subseteq Flows
    /\ lost \subseteq Names
    /\ \A n \in Names : index[n] # NoFlow => index[n] \in waiters

AuthInit ==
    /\ flow = [a \in Actors |-> "new"]
    /\ port = NoPort
    /\ file = Empty
    /\ step = [a \in Actors |-> "rest"]
    /\ held = [a \in Actors |-> Empty]
    /\ transports = [n \in Names |-> NoFlow]
    /\ waiters = {}
    /\ index = [n \in Names |-> NoFlow]
    /\ urlState = [f \in Flows |-> NoFlow]
    /\ code = urlState
    /\ uses = urlState
    /\ proves = urlState
    /\ newest = index
    /\ unindexed = {}
    /\ crossed = {}
    /\ lost = {}

\* A flow has stored its verifier, and its transport, and has not used them yet.
WithTransport == {"waits", "code", "owns", "checked"}
WithVerifier  == WithTransport \cup {"told", "finishes"}

FlowGoes(a, where) == flow' = [flow EXCEPT ![a] = where]

\* Flows of the name of an actor that own the stored state, or were found to, and
\* have gone so far.
Owners(a, stages) ==
    {f \in Flows \ {a} :
        /\ NameOf[f] = Of(a) /\ flow[f] \in stages
        /\ file[Of(a)].state = f \/ flow[f] \in {"owns", "checked", "finishes"}}

-----------------------------------------------------------------------------
\* Every call of auth.ts reads the file.  While another writes, it may be empty: what
\* cannot be parsed is taken for no entries at all.
Seen == {file} \cup {IF \E a \in Actors : step[a] = "write" THEN Empty ELSE file}

\* What an actor makes of its entry: updateField, clearField and remove.
Changed(a, entry) ==
    CASE flow[a] = "served" -> [entry EXCEPT !.state = a]
      [] flow[a] \in {"generates", "clears", "owns", "foreign"} -> [entry EXCEPT !.state = NoFlow]
      [] flow[a] = "named" -> [entry EXCEPT !.verifier = a]
      [] flow[a] = "redeemed" -> [entry EXCEPT !.verifier = NoFlow]
      [] flow[a] = "removes" -> Blank
      [] OTHER -> entry

\* get; remove has no entry to read.
ReadEntry(a) ==
    /\ flow[a] \in Changes
    /\ step[a] = "rest"
    /\ step' = [step EXCEPT ![a] = IF flow[a] = "removes" THEN "write" ELSE "entry"]
    /\ \E seen \in Seen : held' = [held EXCEPT ![a] = seen]
    /\ UNCHANGED <<flow, port, transports, waitVars, redeemVars, file, lost>>

\* set reads it again, for the entries of other names, and opens it.
ReadData(a) ==
    /\ step[a] = "entry"
    /\ step' = [step EXCEPT ![a] = "write"]
    /\ \E seen \in Seen : held' = [held EXCEPT ![a] = [seen EXCEPT ![Of(a)] = held[a][Of(a)]]]
    /\ UNCHANGED <<flow, port, transports, waitVars, redeemVars, file, lost>>

\* Nobody looks whether the file is still what was read.
WriteFile(a) ==
    /\ step[a] = "write"
    /\ step' = [step EXCEPT ![a] = "rest"]
    /\ file' = [held[a] EXCEPT ![Of(a)] = Changed(a, @)]
    /\ held' = [held EXCEPT ![a] = Empty]
    /\ FlowGoes(a, After(flow[a]))
    /\ crossed' = IF flow[a] = "named"
                  THEN crossed \cup Owners(a, WithVerifier)
                  ELSE crossed
    /\ lost' = lost \cup {n \in Names : held[a][n] # file[n]}
    /\ UNCHANGED <<port, transports, waitVars, urlState, code, uses, proves>>

\* clearField leaves a name without an entry alone.
NothingToClear(a) ==
    /\ step[a] = "entry" /\ flow[a] \in Clears
    /\ held[a][Of(a)] = Blank
    /\ step' = [step EXCEPT ![a] = "rest"]
    /\ held' = [held EXCEPT ![a] = Empty]
    /\ FlowGoes(a, After(flow[a]))
    /\ UNCHANGED <<port, transports, waitVars, redeemVars, file, lost>>

-----------------------------------------------------------------------------
\* Variant: what waits for the old server is forgotten.
ServeForgets(f) ==
    /\ flow[f] = "new"
    /\ port' = PortOf[NameOf[f]]
    /\ IF port \in {NoPort, port'}
       THEN FlowGoes(f, "served") /\ UNCHANGED <<waiters, index>>
       ELSE /\ flow' = [flow EXCEPT ![f] = "served"]
            /\ waiters' = {}
            /\ index' = [n \in Names |-> NoFlow]
    /\ UNCHANGED <<transports, fileVars, redeemVars, newest, unindexed>>

\* ensureRunning: a server for another redirect is stopped, which rejects all that
\* wait for it.  The state of the flow is stored then, in the place of an older one.
Serve(f) ==
    /\ flow[f] = "new"
    /\ port' = PortOf[NameOf[f]]
    /\ IF port \in {NoPort, port'}
       THEN FlowGoes(f, "served") /\ UNCHANGED <<waiters, index>>
       ELSE /\ flow' = [g \in Actors |-> IF g = f THEN "served"
                                        ELSE IF g \in waiters THEN "failed" ELSE flow[g]]
            /\ waiters' = {}
            /\ index' = [n \in Names |-> NoFlow]
    /\ UNCHANGED <<transports, fileVars, redeemVars, newest, unindexed>>

\* What is done to a server outside flows begins.
Begin(n, what) ==
    /\ flow[n] = "new"
    /\ FlowGoes(n, what)
    /\ UNCHANGED <<port, transports, fileVars, waitVars, redeemVars>>

\* The MCP library asks the provider for the state that goes into the URL.  It is the
\* stored one, of whichever flow that is; without one another is made up, stored, and
\* nobody waits for it.
ReadState(a) ==
    /\ flow[a] = "asks"
    /\ \E seen \in Seen :
         LET state == seen[Of(a)].state
         IN  /\ FlowGoes(a, IF state = NoFlow THEN "generates" ELSE "named")
             /\ IF a \in Flows
                THEN /\ urlState' = [urlState EXCEPT ![a] = state]
                     /\ crossed' = crossed \cup ({state} \ {a, NoFlow})
                ELSE UNCHANGED <<urlState, crossed>>
    /\ UNCHANGED <<port, transports, fileVars, waitVars, code, uses, proves>>

\* The library stored a verifier and gave the URL away: the transport is kept, in the
\* place of an older one.  authenticate opens the URL and waits for the callback.
Redirect(f) ==
    /\ flow[f] = "told"
    /\ FlowGoes(f, "waits")
    /\ LET n == NameOf[f]
       IN  /\ transports' = [transports EXCEPT ![n] = f]
           /\ waiters' = waiters \cup {f}
           /\ index' = [index EXCEPT ![n] = f]
           /\ newest' = [newest EXCEPT ![n] = f]
           /\ unindexed' = unindexed \ {n}
           /\ crossed' = crossed \cup Owners(f, WithTransport)
    /\ UNCHANGED <<port, fileVars, urlState, code, uses, proves>>

\* connectRemote keeps the transport as well, and opens nothing.
Connected(n) ==
    /\ flow[n] \in {"asks", "named", "told"} /\ step[n] = "rest"
    /\ FlowGoes(n, "new")
    /\ transports' = [transports EXCEPT ![n] = n]
    /\ crossed' = crossed \cup Owners(n, WithTransport)
    /\ UNCHANGED <<port, fileVars, waitVars, urlState, code, uses, proves>>

\* The server wants no authorization ...
NeedsNone(a) ==
    /\ flow[a] = "asks"
    /\ FlowGoes(a, IF a \in Names THEN "new" ELSE "clears")
    /\ UNCHANGED <<port, transports, fileVars, waitVars, redeemVars>>

\* ... or does not answer.
AskFails(a) ==
    /\ flow[a] \in {"asks", "named", "told"} /\ step[a] = "rest"
    /\ FlowGoes(a, IF a \in Names THEN "new" ELSE "failed")
    /\ urlState' = IF a \in Names THEN urlState ELSE [urlState EXCEPT ![a] = NoFlow]
    /\ UNCHANGED <<port, transports, fileVars, waitVars, code, uses, proves, crossed>>

\* The state of the instance ends: no transport is kept.
ForgetTransports ==
    /\ transports' = [n \in Names |-> NoFlow]
    /\ UNCHANGED <<flow, port, fileVars, waitVars, redeemVars>>

-----------------------------------------------------------------------------
\* cleanupStateIndex
WithoutState(f) == [n \in Names |-> IF index[n] = f THEN NoFlow ELSE index[n]]

\* handleRequest: the browser comes back from the URL of a flow, with a code or an
\* error, and the one that waits for the state in it is answered.
Callback(f, g, how) ==
    /\ f \in waiters
    /\ urlState[g] = f /\ flow[g] \notin {"named", "told"}
    /\ port = PortOf[NameOf[f]]
    /\ FlowGoes(f, how)
    /\ code' = IF how = "code" THEN [code EXCEPT ![f] = g] ELSE code
    /\ waiters' = waiters \ {f}
    /\ index' = WithoutState(f)
    /\ UNCHANGED <<port, transports, fileVars, newest, unindexed, urlState, uses, proves, crossed>>

\* Five minutes are over.  The entry of the name goes, whichever flow it is of.
AuthTimesOut(f) ==
    /\ f \in waiters
    /\ FlowGoes(f, "failed")
    /\ waiters' = waiters \ {f}
    /\ index' = [index EXCEPT ![NameOf[f]] = NoFlow]
    /\ unindexed' = IF newest[NameOf[f]] = f THEN unindexed ELSE unindexed \cup {NameOf[f]}
    /\ UNCHANGED <<port, transports, fileVars, redeemVars, newest>>

\* removeAuth: what was stored is removed; the flow that is indexed is rejected.
RemoveAuth(n) ==
    /\ flow[n] = "removed"
    /\ transports' = [transports EXCEPT ![n] = NoFlow]
    /\ waiters' = waiters \ {index[n]}
    /\ flow' = [a \in Actors |-> IF a = n THEN "new"
                                 ELSE IF a \in waiters /\ a = index[n] THEN "failed" ELSE flow[a]]
    /\ index' = [index EXCEPT ![n] = NoFlow]
    /\ UNCHANGED <<port, fileVars, redeemVars, newest, unindexed>>

\* Variant: the stored state is not looked at.
CheckNothing(f) ==
    /\ flow[f] = "code"
    /\ FlowGoes(f, "owns")
    /\ UNCHANGED <<port, transports, fileVars, waitVars, redeemVars>>

\* authenticate goes on with a code if the stored state is its own; the state is
\* cleared in any case.
CheckState(f) ==
    /\ flow[f] = "code"
    /\ \E seen \in Seen : FlowGoes(f, IF seen[NameOf[f]].state = f THEN "owns" ELSE "foreign")
    /\ UNCHANGED <<port, transports, fileVars, waitVars, redeemVars>>

\* finishAuth: the transport that is there is used ...
FinishAuth(f) ==
    /\ flow[f] = "checked"
    /\ uses' = [uses EXCEPT ![f] = transports[NameOf[f]]]
    /\ FlowGoes(f, IF uses'[f] = NoFlow THEN "failed" ELSE "finishes")
    /\ UNCHANGED <<port, transports, fileVars, waitVars, urlState, code, proves, crossed>>

\* ... and reads the verifier that is stored.
ReadVerifier(f) ==
    /\ flow[f] = "finishes"
    /\ \E seen \in Seen :
         /\ proves' = [proves EXCEPT ![f] = seen[NameOf[f]].verifier]
         /\ FlowGoes(f, IF proves'[f] = NoFlow THEN "failed" ELSE "redeems")
    /\ UNCHANGED <<port, transports, fileVars, waitVars, urlState, code, uses, crossed>>

\* The server answers.
Redeemed(f, how) ==
    /\ flow[f] = "redeems"
    /\ FlowGoes(f, how)
    /\ UNCHANGED <<port, transports, fileVars, waitVars, redeemVars>>

\* The verifier was cleared.
AuthEnds(f) ==
    /\ flow[f] = "cleared"
    /\ FlowGoes(f, "done")
    /\ transports' = [transports EXCEPT ![NameOf[f]] = NoFlow]
    /\ UNCHANGED <<port, fileVars, waitVars, redeemVars>>

-----------------------------------------------------------------------------
AuthNext ==
    \/ \E a \in Actors :
         \/ ReadEntry(a) \/ ReadData(a) \/ WriteFile(a) \/ NothingToClear(a)
         \/ ReadState(a) \/ NeedsNone(a) \/ AskFails(a)
    \/ \E f \in Flows :
         \/ Serve(f) \/ Redirect(f) \/ AuthTimesOut(f) \/ CheckState(f)
         \/ FinishAuth(f) \/ ReadVerifier(f) \/ AuthEnds(f)
         \/ \E g \in Flows, how \in {"code", "failed"} : Callback(f, g, how)
         \/ \E how \in {"failed", "redeemed"} : Redeemed(f, how)
    \/ \E n \in Names :
         \/ Connected(n) \/ RemoveAuth(n)
         \/ \E what \in {"asks", "tokens", "removes"} : Begin(n, what)
    \/ ForgetTransports

AuthSpec == AuthInit /\ [][AuthNext]_authVars

\* Timers fire.  Servers and browsers need not answer.
AuthFairness == \A f \in Flows : WF_authVars(AuthTimesOut(f))

-----------------------------------------------------------------------------
\* Whoever waits for a callback has an entry that will answer it: timeouts, errors,
\* cancels and a server that is stopped for another redirect reject what they drop.
WaitersAreKept == \A f \in Flows : flow[f] = "waits" <=> f \in waiters

\* removeAuth finds the flow that was started last.  Not so when an older flow of
\* the name timed out after it: the timeout deletes the entry of the newer one, and
\* the removed server can then still be authorized.
NewestIsIndexed ==
    \A n \in Names : newest[n] \in waiters => index[n] = newest[n] \/ n \in unindexed

\* A code is redeemed by the transport that asked for it, with its verifier: that
\* is what the stored state is compared for.  The exceptions: while a flow owned the
\* state, another one put it into its own URL, or replaced its verifier or its
\* transport, or so did a connection of the server (crossed); or an entry of the file
\* was written over by one who had not read it (lost).
OwnRedeemed ==
    \A f \in Flows : proves[f] # NoFlow =>
        \/ code[f] = f /\ uses[f] = f /\ proves[f] = f
        \/ f \in crossed
        \/ NameOf[f] \in lost

\* A flow that waits can be answered, found under its name, and redeems its own code.
AuthContract == AuthTypeOK /\ WaitersAreKept /\ NewestIsIndexed /\ OwnRedeemed

\* A flow that waits is answered within the time.
AuthAnswers == \A f \in Flows : []<>(flow[f] # "waits")
=============================================================================
