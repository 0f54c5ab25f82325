----------------------------- MODULE MCServices -----------------------------
(***************************************************************************)
(* Services that answer calls and have no state in common, in one run: in  *)
(* a behaviour one of them moves and the others stay where they begin.     *)
(* Each has to answer.                                                     *)
(***************************************************************************)
EXTENDS InstanceStore, Requests, BackgroundJob, PromptQueue, LspClients, McpAuth, TLC

CONSTANTS p1, p2, p3, p4, q1, q2, x, y, c2, w1, f1, f2, f3

VARIABLES
    service,   \* the one that moves
    party      \* the requests that are made, or the flows and names that move, if some are

servicesVars ==
    <<service, party, instanceVars, requestVars, jobVars, promptVars, lspVars, authVars>>

-----------------------------------------------------------------------------
MCSessionOf == p1 :> "s" @@ p2 :> "s" @@ p3 :> "t" @@ p4 :> "s"
MCWants     == p1 :> {"edit"} @@ p2 :> {"edit", "bash"} @@ p3 :> {"edit"} @@ p4 :> {"bash"}
MCAlways    == p1 :> {"edit", "bash"} @@ p2 :> {"bash"} @@ p3 :> {"edit"} @@ p4 :> {}
MCRules     ==
    p1 :> [p \in Patterns |-> "ask"]
    @@ p2 :> [p \in Patterns |-> IF p = "bash" THEN "ask" ELSE "allow"]
    @@ p3 :> [p \in Patterns |-> "ask"]
    @@ p4 :> [p \in Patterns |-> "deny"]

MCNameOf == f1 :> "m" @@ f2 :> "m" @@ f3 :> "n"
MCPortOf == [n \in Names |-> n]

\* A cascade over two sessions, rules that deny, questions.
Parties == {{p1, p2, p3}, {p1, p2}, {p2, p4}, {q1, q2}}

\* Two flows of a server; a flow and what else is done to its server; one and the
\* tokens of another server; one and another on another port.
FlowParties == {{f1, f2}, {f1, "m"}, {f1, "n"}, {f1, f3}}

\* The second flow is given no code, what is done to a server finds a stored state,
\* and the flow on another port is not redirected.
FewFlows ==
    /\ AuthNext
    /\ \A a \in Actors \ party : flow'[a] = "new"
    /\ flow'[f2] # "code"
    /\ flow'["m"] \notin {"tokens", "generates"}
    /\ flow'["n"] \in {"new", "tokens"}
    /\ flow'[f3] \in {"new", "served", "asks", "failed"}

\* An asker or a reply is interrupted.  In the largest party no fiber is interrupted
\* and no instance disposed; which of the replies is the first does not matter then.
FewRequests ==
    /\ RequestsNext
    /\ \A r \in Requests \ party : asker'[r] = "new"
    /\ \A s \in Services : closing'[s] # "open" => \E r \in party : ServiceOf(r) = s
    /\ ~((\E r \in Requests : asker'[r] = "gone") /\ \E p \in Replies : reply'[p] = "gone")
    /\ Cardinality(party) > 2 =>
         /\ closing' = closing
         /\ \A r \in Requests : asker'[r] # "gone"
         /\ \A p \in Replies : reply'[p] # "gone"
         /\ reply'[y] # "new" => reply'[x] # "new"

\* A wait meets one cancel, two cancels meet each other.
FewJobs == JobNext /\ (cancel'[c2] = "new" \/ wait'[w1] = "new")

ServicesInit ==
    /\ service \in {"instances", "requests", "jobs", "prompts", "lsp", "mcp"}
    /\ party \in IF service = "requests" THEN Parties
                ELSE IF service = "mcp" THEN FlowParties ELSE {{}}
    /\ InstanceInit /\ RequestsInit /\ JobInit /\ PromptQueueInit /\ LspInit /\ AuthInit
    /\ service # "prompts" => offers

ServicesNext ==
    /\ UNCHANGED <<service, party>>
    /\ IF service = "instances" THEN InstanceNext ELSE UNCHANGED instanceVars
    /\ IF service = "requests" THEN FewRequests ELSE UNCHANGED requestVars
    /\ IF service = "jobs" THEN FewJobs ELSE UNCHANGED jobVars
    /\ IF service = "prompts" THEN PromptQueueNext ELSE UNCHANGED promptVars
    /\ IF service = "lsp" THEN LspNext ELSE UNCHANGED lspVars
    /\ IF service = "mcp" THEN FewFlows ELSE UNCHANGED authVars

\* What waits in a service that does not move is disabled: its fairness asks nothing.
ServicesSpec ==
    /\ ServicesInit /\ [][ServicesNext]_servicesVars
    /\ InstanceFairness /\ RequestsFairness /\ JobFairness /\ PromptQueueFairness
    /\ LspFairness /\ AuthFairness

\* Whoever calls one of these services is answered: loads and disposals of an
\* instance, tools that wait for a user when the instance is disposed, cancels of a
\* job, the run of a footer that was closed, lookups of a language server, and flows
\* that wait for a browser.
ServicesAnswer ==
    /\ InstanceCallsReturn
    /\ DisposalReleases
    /\ CancelEnds
    /\ QueueReturns
    /\ LookupsReturn
    /\ AuthAnswers
=============================================================================
