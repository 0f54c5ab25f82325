------------------------------ MODULE Requests ------------------------------
(***************************************************************************)
(* packages/ravens/src/permission/index.ts and question/index.ts: requests *)
(* of tools that wait for the user, and the replies to them.               *)
(*                                                                         *)
(* Both services keep a Map of pending requests with a Deferred each.  A   *)
(* request is published and waits; a reply takes it out of the map,        *)
(* publishes and settles the Deferred, and for permissions goes on over    *)
(* the live map: a reject takes the other requests of the session along,   *)
(* an always those that the grown rules now allow.                         *)
(*                                                                         *)
(* Nothing in here awaits I/O, but these are fibers: the runtime may run   *)
(* others, or interrupt one whose client went away, at any effect in       *)
(* between.  A step below is what happens between two such effects.        *)
(*                                                                         *)
(* The name of a permission and a pattern are one "pattern"; AlwaysOf has  *)
(* all the patterns that the always patterns of a request match.           *)
(***************************************************************************)
EXTENDS Naturals, Sequences, FiniteSets

CONSTANTS
    Permissions,  \* permission requests
    Questions,    \* question requests
    Replies,      \* reply and reject calls
    Patterns,
    SessionOf,    \* of a permission request
    Wants,        \* its patterns
    AlwaysOf,     \* its always patterns
    Rules,        \* the ruleset it is evaluated with
    Mortal,       \* requests and replies whose fiber may be interrupted
    NoRequest

Requests == Permissions \cup Questions

ASSUME RequestsAssumption ==
    /\ Permissions \cap Questions = {}
    /\ NoRequest \notin Requests
    /\ Wants \in [Permissions -> SUBSET Patterns]
    /\ AlwaysOf \in [Permissions -> SUBSET Patterns]
    /\ Rules \in [Permissions -> [Patterns -> {"allow", "deny", "ask"}]]

VARIABLES
    pending,    \* keys of both maps
    asked,       \* of a request: its place in the order of the map
    asks,
    approved,   \* state.approved
    asker,      \* of a request: where its fiber is
    answer,     \* of a request: its Deferred
    replied,    \* of a request: the Replied and Rejected events, in order
    leaked,     \* requests whose fiber was interrupted before its finalizer was there
    reply,      \* of a reply: where its fiber is
    says,       \* of a reply: "once", "always", "reject"
    first,      \* of a reply: the request that was named
    holds,      \* of a reply: the request it took last
    place,      \* of a reply: its place in the map
    ended,      \* of a reply: how many requests there were when it ended
    closing,    \* of a service: its finalizer
    passed      \* of a service: the place of its finalizer in the map

askVars   == <<pending, asked, asks, asker, answer, replied, leaked>>
replyVars == <<approved, reply, says, first, holds, place, ended>>
closeVars == <<closing, passed>>
requestVars == <<askVars, replyVars, closeVars>>

Services == {"permission", "question"}
ServiceOf(r) == IF r \in Permissions THEN "permission" ELSE "question"

RequestsTypeOK ==
    /\ pending \subseteq Requests
    /\ asked \in [Requests -> Nat]
    /\ asks \in Nat
    /\ approved \subseteq Patterns
    /\ asker \in [Requests -> {"new", "begun", "asking", "waiting", "allowed", "denied",
                               "rejected", "gone"}]
    /\ answer \in [Requests -> {"none", "open", "allowed", "rejected"}]
    /\ replied \in [Requests -> Seq({"once", "always", "reject"})]
    /\ leaked \subseteq Requests
    /\ reply \in [Replies -> {"new", "named", "walking", "cascading", "done", "gone"}]
    /\ says \in [Replies -> {"once", "always", "reject"}]
    /\ first \in [Replies -> Requests \cup {NoRequest}]
    /\ holds \in [Replies -> Requests \cup {NoRequest}]
    /\ place \in [Replies -> Nat]
    /\ ended \in [Replies -> Nat]
    /\ closing \in [Services -> {"open", "walking", "closed"}]
    /\ passed \in [Services -> Nat]

RequestsInit ==
    /\ pending = {}
    /\ asked = [r \in Requests |-> 0]
    /\ asks = 0
    /\ approved = {}
    /\ asker = [r \in Requests |-> "new"]
    /\ answer = [r \in Requests |-> "none"]
    /\ replied = [r \in Requests |-> <<>>]
    /\ leaked = {}
    /\ reply = [p \in Replies |-> "new"]
    /\ says = [p \in Replies |-> "once"]
    /\ first = [p \in Replies |-> NoRequest]
    /\ holds = [p \in Replies |-> NoRequest]
    /\ place = [p \in Replies |-> 0]
    /\ ended = [p \in Replies |-> 0]
    /\ closing = [s \in Services |-> "open"]
    /\ passed = [s \in Services |-> 0]

\* evaluate: the last rule that matches; approved rules come after the ruleset.
Evaluate(r, pattern) == IF pattern \in approved THEN "allow" ELSE Rules[r][pattern]

\* Only the first to settle a Deferred has an effect.
Settled(r, how) ==
    answer' = [answer EXCEPT ![r] = IF answer[r] = "open" THEN how ELSE answer[r]]

AskerGoes(r, where) == asker' = [asker EXCEPT ![r] = where]

-----------------------------------------------------------------------------
\* ask reads the state of the instance ...
AskBegins(r) ==
    /\ asker[r] = "new"
    /\ closing[ServiceOf(r)] = "open"
    /\ AskerGoes(r, "begun")
    /\ UNCHANGED <<pending, asked, asks, answer, replied, leaked, replyVars, closeVars>>

Registers(r) ==
    /\ pending' = pending \cup {r}
    /\ asked' = [asked EXCEPT ![r] = asks + 1]
    /\ asks' = asks + 1
    /\ answer' = [answer EXCEPT ![r] = "open"]
    /\ AskerGoes(r, "asking")

\* ... evaluates the patterns, and registers and publishes a request ...
AskPermission(r) ==
    /\ r \in Permissions
    /\ asker[r] = "begun"
    /\ LET actions == {Evaluate(r, pattern) : pattern \in Wants[r]}
       IN  CASE "deny" \in actions -> AskerGoes(r, "denied") /\ UNCHANGED <<pending, asked, asks, answer>>
             [] actions \subseteq {"allow"} ->
                    AskerGoes(r, "allowed") /\ UNCHANGED <<pending, asked, asks, answer>>
             [] OTHER -> Registers(r)
    /\ UNCHANGED <<replied, leaked, replyVars, closeVars>>

AskQuestion(r) ==
    /\ r \in Questions
    /\ asker[r] = "begun"
    /\ Registers(r)
    /\ UNCHANGED <<replied, leaked, replyVars, closeVars>>

\* ... and awaits its Deferred, now with a finalizer.
AskAwaits(r) ==
    /\ asker[r] = "asking"
    /\ AskerGoes(r, "waiting")
    /\ UNCHANGED <<pending, asked, asks, answer, replied, leaked, replyVars, closeVars>>

AskReturns(r) ==
    /\ asker[r] = "waiting"
    /\ answer[r] # "open"
    /\ AskerGoes(r, answer[r])
    /\ pending' = pending \ {r}
    /\ UNCHANGED <<asked, asks, answer, replied, leaked, replyVars, closeVars>>

\* The fiber of the tool is interrupted (a cancel of the session).
AskDies(r) ==
    /\ r \in Mortal
    /\ asker[r] \in {"begun", "asking", "waiting"}
    /\ AskerGoes(r, "gone")
    /\ pending' = IF asker[r] = "waiting" THEN pending \ {r} ELSE pending
    /\ leaked' = IF asker[r] = "asking" THEN leaked \cup {r} ELSE leaked
    /\ UNCHANGED <<asked, asks, answer, replied, replyVars, closeVars>>

-----------------------------------------------------------------------------
\* Variant: the request is looked up, and stays in the map.
TakeKeeping(p, r, kind) ==
    /\ replied' = [replied EXCEPT ![r] = Append(@, kind)]
    /\ holds' = [holds EXCEPT ![p] = r]
    /\ UNCHANGED pending

\* A request leaves the map before its reply is published.
Take(p, r, kind) ==
    /\ pending' = pending \ {r}
    /\ replied' = [replied EXCEPT ![r] = Append(@, kind)]
    /\ holds' = [holds EXCEPT ![p] = r]

ReplyGoes(p, where) == reply' = [reply EXCEPT ![p] = where]

\* Permission.reply, Question.reply (an "once") and Question.reject.
ReplyTakes(p, r, kind) ==
    /\ reply[p] = "new"
    /\ r \in pending
    /\ r \in Questions => kind # "always"
    /\ Take(p, r, kind)
    /\ ReplyGoes(p, "named")
    /\ says' = [says EXCEPT ![p] = kind]
    /\ first' = [first EXCEPT ![p] = r]
    /\ UNCHANGED <<asked, asks, asker, answer, leaked, approved, place, ended, closeVars>>

\* A reply to what is not pending, or not any more, is ignored.
ReplyMisses(p, r) ==
    /\ reply[p] = "new"
    /\ answer[r] # "none"
    /\ r \notin pending \/ closing[ServiceOf(r)] # "open"
    /\ ReplyGoes(p, "done")
    /\ UNCHANGED <<askVars, approved, says, first, holds, place, ended, closeVars>>

\* The Deferred of the named request; a once is done with it, an always adds rules.
ReplySettles(p) ==
    /\ reply[p] = "named"
    /\ Settled(first[p], IF says[p] = "reject" THEN "rejected" ELSE "allowed")
    /\ ReplyGoes(p, IF first[p] \in Questions \/ says[p] = "once" THEN "done" ELSE "walking")
    /\ approved' = IF says[p] = "always" THEN approved \cup AlwaysOf[first[p]] ELSE approved
    /\ UNCHANGED <<pending, asked, asks, asker, replied, leaked, says, first, holds, place, ended,
                   closeVars>>

\* Whether the walk of a reply takes a request.
Concerns(p, r) ==
    /\ SessionOf[r] = SessionOf[first[p]]
    /\ says[p] = "always" => Wants[r] \subseteq approved

\* The entries ahead of the iterator of the live map that are of concern.
Ahead(p) ==
    {r \in pending \cap Permissions : asked[r] > place[p] /\ Concerns(p, r)}

ReplyWalks(p) ==
    /\ reply[p] = "walking"
    /\ \E r \in Ahead(p) :
         /\ \A other \in Ahead(p) : asked[r] <= asked[other]
         /\ Take(p, r, says[p])
         /\ place' = [place EXCEPT ![p] = asked[r]]
    /\ ReplyGoes(p, "cascading")
    /\ UNCHANGED <<asked, asks, asker, answer, leaked, approved, says, first, ended, closeVars>>

ReplyEnds(p) ==
    /\ reply[p] = "walking"
    /\ Ahead(p) = {}
    /\ ReplyGoes(p, "done")
    /\ ended' = [ended EXCEPT ![p] = asks]
    /\ UNCHANGED <<askVars, approved, says, first, holds, place, closeVars>>

ReplyCascades(p) ==
    /\ reply[p] = "cascading"
    /\ Settled(holds[p], IF says[p] = "reject" THEN "rejected" ELSE "allowed")
    /\ ReplyGoes(p, "walking")
    /\ UNCHANGED <<pending, asked, asks, asker, replied, leaked, approved, says, first, holds, place,
                   ended, closeVars>>

\* The client of a reply goes away.
ReplyDies(p) ==
    /\ p \in Mortal
    /\ reply[p] \in {"named", "walking", "cascading"}
    /\ ReplyGoes(p, "gone")
    /\ UNCHANGED <<askVars, approved, says, first, holds, place, ended, closeVars>>

-----------------------------------------------------------------------------
\* The finalizer of a service, when its instance is disposed: it rejects one
\* entry after the other, then clears the map.
CloseBegins(s) ==
    /\ closing[s] = "open"
    /\ closing' = [closing EXCEPT ![s] = "walking"]
    /\ UNCHANGED <<askVars, replyVars, passed>>

Remaining(s) == {r \in pending : ServiceOf(r) = s /\ asked[r] > passed[s]}

CloseRejects(s) ==
    /\ closing[s] = "walking"
    /\ \E r \in Remaining(s) :
         /\ \A other \in Remaining(s) : asked[r] <= asked[other]
         /\ Settled(r, "rejected")
         /\ passed' = [passed EXCEPT ![s] = asked[r]]
    /\ UNCHANGED <<pending, asked, asks, asker, replied, leaked, replyVars, closing>>

CloseClears(s) ==
    /\ closing[s] = "walking"
    /\ Remaining(s) = {}
    /\ closing' = [closing EXCEPT ![s] = "closed"]
    /\ pending' = {r \in pending : ServiceOf(r) # s}
    /\ UNCHANGED <<asked, asks, asker, answer, replied, leaked, replyVars, passed>>

-----------------------------------------------------------------------------
AskNext ==
    \E r \in Requests :
        \/ AskBegins(r) \/ AskPermission(r) \/ AskQuestion(r)
        \/ AskAwaits(r) \/ AskReturns(r) \/ AskDies(r)

ReplyNext ==
    \E p \in Replies :
        \/ \E r \in Requests, kind \in {"once", "always", "reject"} : ReplyTakes(p, r, kind)
        \/ \E r \in Requests : ReplyMisses(p, r)
        \/ ReplySettles(p) \/ ReplyWalks(p) \/ ReplyEnds(p) \/ ReplyCascades(p) \/ ReplyDies(p)

CloseNext == \E s \in Services : CloseBegins(s) \/ CloseRejects(s) \/ CloseClears(s)

RequestsNext == AskNext \/ ReplyNext \/ CloseNext

RequestsSpec == RequestsInit /\ [][RequestsNext]_requestVars

\* The runtime runs every fiber that is not waiting.
RequestsFairness ==
    /\ \A r \in Requests : WF_requestVars(AskAwaits(r) \/ AskReturns(r))
    /\ \A p \in Replies :
         WF_requestVars(ReplySettles(p) \/ ReplyWalks(p) \/ ReplyEnds(p) \/ ReplyCascades(p))
    /\ \A s \in Services : WF_requestVars(CloseRejects(s) \/ CloseClears(s))

-----------------------------------------------------------------------------
\* The reply that took a request out of the map, if it was interrupted then.
Dropped(r) == \E p \in Replies : reply[p] = "gone" /\ holds[p] = r

\* A tool that waits can still be answered: it is in the map, or a reply that
\* lives has it in hand - unless that reply was interrupted, or the request was
\* registered in the state of an instance that was already disposed.
NoForgottenAsker ==
    \A r \in Requests : asker[r] = "waiting" /\ answer[r] = "open" =>
        \/ r \in pending /\ (closing[ServiceOf(r)] = "closed" => asked[r] > passed[ServiceOf(r)])
        \/ \E p \in Replies : reply[p] \in {"named", "cascading"} /\ holds[p] = r
        \/ Dropped(r)

\* However replies, cascades and a disposal race: a request is published as
\* replied at most once.
RepliedOnce == \A r \in Requests : Len(replied[r]) <= 1

\* What was published is what the tool was told; only a disposal may reject a
\* request that was taken for another answer.
RepliedIsAnswered ==
    \A r \in Requests : answer[r] \in {"allowed", "rejected"} =>
        \/ closing[ServiceOf(r)] # "open" /\ answer[r] = "rejected"
        \/ replied[r] # <<>> /\ (answer[r] = "rejected" <=> Head(replied[r]) = "reject")

\* Once a reject or an always went through, no request of its session that it
\* concerns is left from before its end; the rules of another session count
\* only for requests that are asked later.
SessionIsSwept ==
    \A p \in Replies : reply[p] = "done" /\ ended[p] > 0 =>
        \A r \in pending \cap Permissions :
            /\ SessionOf[r] = SessionOf[first[p]]
            /\ says[p] = "always" => Wants[r] \subseteq AlwaysOf[first[p]]
            => asked[r] > ended[p]

\* A request is allowed without the user's word only by rules: a cascade never
\* answers for patterns no always covered, nor for another session.
AllowedByReply ==
    \A r \in Permissions : answer[r] = "allowed" =>
        \/ \E p \in Replies : first[p] = r
        \/ /\ \E p \in Replies : says[p] = "always" /\ SessionOf[first[p]] = SessionOf[r]
           /\ Wants[r] \subseteq
                UNION {AlwaysOf[first[p]] : p \in {q \in Replies : says[q] = "always"}}

\* What is shown as pending has a tool behind it, unless that was interrupted in
\* the moment before its finalizer was installed.
PendingIsAsked ==
    \A r \in pending : asker[r] \in {"asking", "waiting"} \/ r \in leaked

\* A request is answered once, by somebody entitled to, and until then it is shown
\* and can be answered - replies, cascades, disposals and interruptions of any
\* overlap included.
RequestsContract ==
    /\ RequestsTypeOK
    /\ NoForgottenAsker /\ PendingIsAsked
    /\ RepliedOnce /\ RepliedIsAnswered
    /\ SessionIsSwept /\ AllowedByReply

\* A disposal releases everybody who waits, unless a reply was interrupted with
\* the request in hand or the request came too late for its finalizer.
DisposalReleases ==
    \A r \in Requests :
        []<>(asker[r] = "waiting" /\ closing[ServiceOf(r)] # "open"
                => Dropped(r) \/ (r \in pending /\ asked[r] > passed[ServiceOf(r)]))
=============================================================================
