----------------------------- MODULE PromptQueue -----------------------------
(***************************************************************************)
(* packages/ravens/src/cli/cmd/run/runtime.queue.ts: runPromptQueue, the   *)
(* queue between the footer (prompts are typed there, and it closes) and   *)
(* the turns of an interactive run.                                        *)
(*                                                                         *)
(* One asynchronous function, the drainer, takes prompts one at a time.    *)
(* An action is a stretch of code between two awaits of it, or a callback  *)
(* of the footer.  What follows a settled promise without any other event, *)
(* the end of runPromptQueue after done, is part of the action.            *)
(*                                                                         *)
(* "draining" is assigned when the drainer first awaits something, or ends *)
(* without: then its promise stays there, and nobody drains any more.      *)
(***************************************************************************)
EXTENDS Sequences, SequencesExt, FiniteSets, Naturals

CONSTANTS
    Prompts,       \* what is typed, each once
    NewSessions    \* the prompts that are a /new

ASSUME PromptAssumption == NewSessions \subseteq Prompts

VARIABLES
    offers,     \* whether onNewSession was given
    typed,      \* what submit accepted, in order
    waiting,    \* state.queue
    drainer,    \* draining: "none", the await it is at, or "spent": it has ended and is kept
    inHand,     \* the prompt that was shifted, in a sequence of at most one
    race,       \* what its race was settled with
    turn,       \* of a prompt: the promise of input.run
    sent,       \* onSend, in order
    aborted,    \* prompts whose AbortController was aborted
    shut,       \* state.closed
    outcome     \* of runPromptQueue

promptVars ==
    <<offers, typed, waiting, drainer, inHand, race, turn, sent, aborted, shut, outcome>>

Drains == drainer \in {"footer", "session", "turn"}

PromptQueueTypeOK ==
    /\ offers \in BOOLEAN
    /\ typed \in Seq(Prompts)
    /\ waiting \in Seq(Prompts)
    /\ drainer \in {"none", "footer", "session", "turn", "spent"}
    /\ inHand \in {<<>>} \cup {<<p>> : p \in Prompts}
    /\ Drains <=> inHand # <<>>
    /\ drainer = "turn" => inHand[1] \notin NewSessions
    /\ race \in {"open", "done", "error", "closed"}
    /\ turn \in [Prompts -> {"none", "runs", "done", "error"}]
    /\ sent \in Seq(Prompts \ NewSessions)
    /\ aborted \subseteq Prompts
    /\ shut \in BOOLEAN
    /\ outcome \in {"pending", "returned", "thrown"}

PromptQueueInit ==
    /\ offers \in BOOLEAN
    /\ typed = <<>>
    /\ waiting = <<>>
    /\ drainer = "none"
    /\ inHand = <<>>
    /\ race = "open"
    /\ turn = [p \in Prompts |-> "none"]
    /\ sent = <<>>
    /\ aborted = {}
    /\ shut = FALSE
    /\ outcome = "pending"

-----------------------------------------------------------------------------
\* How many prompts at the head of queue q are passed over, without an await: every
\* /new, unless onNewSession was given.
PassedOver(q) ==
    {k \in 0 .. Len(q) : /\ \A i \in 1 .. k : q[i] \in NewSessions /\ ~offers
                         /\ k < Len(q) => offers \/ q[k + 1] \notin NewSessions}

\* The head of the loop: the next prompt of queue q, or the end of the drainer.  A
\* queue that was closed is empty.
Shifts(q, ended) ==
    \E k \in PassedOver(q) :
        IF k = Len(q) \/ shut
        THEN /\ drainer' = ended
             /\ inHand' = <<>>
             /\ waiting' = <<>>
             /\ outcome' = IF shut THEN "returned" ELSE outcome
        ELSE /\ drainer' = IF q[k + 1] \in NewSessions THEN "session" ELSE "footer"
             /\ inHand' = <<q[k + 1]>>
             /\ waiting' = SubSeq(q, k + 2, Len(q))
             /\ UNCHANGED outcome

\* done.reject: runPromptQueue closes what is left and throws.
Throws ==
    /\ drainer' = "none"
    /\ inHand' = <<>>
    /\ waiting' = <<>>
    /\ shut' = TRUE
    /\ outcome' = "thrown"

\* submit: an /exit is Close.  Prompts are distinct here: each is typed once.  A
\* drainer that ends in this call ends before "draining" is assigned.
Submit(p) ==
    /\ outcome = "pending"
    /\ ~shut
    /\ ~Contains(typed, p)
    /\ typed' = Append(typed, p)
    /\ IF drainer = "none"
       THEN Shifts(Append(waiting, p), "spent")
       ELSE waiting' = Append(waiting, p) /\ UNCHANGED <<drainer, inHand, outcome>>
    /\ UNCHANGED <<offers, race, turn, sent, aborted, shut>>

\* Variant: what was closed meanwhile is not looked at.
FooterIsIdleAnyhow ==
    /\ drainer = "footer"
    /\ drainer' = "turn"
    /\ race' = "open"
    /\ turn' = [turn EXCEPT ![inHand[1]] = "runs"]
    /\ sent' = Append(sent, inHand[1])
    /\ UNCHANGED <<offers, waiting, inHand, outcome, typed, aborted, shut>>

\* footer.idle() has resolved: the prompt is sent, unless the footer has closed.
FooterIsIdle ==
    /\ drainer = "footer"
    /\ IF shut
       THEN Shifts(waiting, "none") /\ UNCHANGED <<race, turn, sent>>
       ELSE /\ drainer' = "turn"
            /\ race' = "open"
            /\ turn' = [turn EXCEPT ![inHand[1]] = "runs"]
            /\ sent' = Append(sent, inHand[1])
            /\ UNCHANGED <<waiting, inHand, outcome>>
    /\ UNCHANGED <<offers, typed, aborted, shut>>

\* onSend closes the footer: the prompt was sent, and has no turn.
SendCloses ==
    /\ drainer = "footer"
    /\ ~shut
    /\ sent' = Append(sent, inHand[1])
    /\ aborted' = aborted \cup {inHand[1]}
    /\ shut' = TRUE
    /\ drainer' = "none"
    /\ inHand' = <<>>
    /\ waiting' = <<>>
    /\ outcome' = "returned"
    /\ UNCHANGED <<offers, typed, race, turn>>

\* input.run settles, which settles its race if nothing did before.
TurnEnds(p, how) ==
    /\ turn[p] = "runs"
    /\ turn' = [turn EXCEPT ![p] = how]
    /\ race' = IF drainer = "turn" /\ inHand = <<p>> /\ race = "open" THEN how ELSE race
    /\ UNCHANGED <<offers, typed, waiting, drainer, inHand, sent, aborted, shut, outcome>>

\* The drainer continues after the race.
RaceEnds ==
    /\ drainer = "turn"
    /\ race # "open"
    /\ IF race = "error"
       THEN Throws /\ UNCHANGED aborted
       ELSE /\ Shifts(waiting, "none")
            /\ aborted' = IF race = "closed" THEN aborted \cup {inHand[1]} ELSE aborted
            /\ UNCHANGED shut
    /\ UNCHANGED <<offers, typed, race, turn, sent>>

\* onNewSession settles.  It is not told that the footer closes.
SessionIsNew ==
    /\ drainer = "session"
    /\ Shifts(waiting, "none")
    /\ UNCHANGED <<offers, typed, race, turn, sent, aborted, shut>>

SessionFails ==
    /\ drainer = "session"
    /\ Throws
    /\ UNCHANGED <<offers, typed, race, turn, sent, aborted>>

\* Variant: a turn that runs is left alone.
CloseKeepsTurn ==
    /\ ~shut
    /\ shut' = TRUE
    /\ waiting' = <<>>
    /\ outcome' = IF drainer = "none" THEN "returned" ELSE outcome
    /\ UNCHANGED <<offers, aborted, race, typed, drainer, inHand, turn, sent>>

\* The footer closes.  A drainer that is spent counts as one that is busy.
Close ==
    /\ ~shut
    /\ shut' = TRUE
    /\ waiting' = <<>>
    /\ aborted' = IF drainer \in {"footer", "turn"} THEN aborted \cup {inHand[1]} ELSE aborted
    /\ race' = IF drainer = "turn" /\ race = "open" THEN "closed" ELSE race
    /\ outcome' = IF drainer = "none" THEN "returned" ELSE outcome
    /\ UNCHANGED <<offers, typed, drainer, inHand, turn, sent>>

-----------------------------------------------------------------------------
PromptQueueNext ==
    \/ \E p \in Prompts : Submit(p) \/ TurnEnds(p, "done") \/ TurnEnds(p, "error")
    \/ FooterIsIdle \/ SendCloses \/ RaceEnds \/ SessionIsNew \/ SessionFails \/ Close

PromptQueueSpec == PromptQueueInit /\ [][PromptQueueNext]_promptVars

\* The footer comes to rest and new sessions are answered; turns need not end.
PromptQueueFairness ==
    WF_promptVars(FooterIsIdle) /\ WF_promptVars(RaceEnds) /\ WF_promptVars(SessionIsNew \/ SessionFails)

-----------------------------------------------------------------------------
\* How many prompts have left the queue, and which of them were to be sent by now.
Shifted == Len(typed) - Len(waiting)
Due == {i \in 1 .. Shifted : typed[i] \notin NewSessions /\ (i = Shifted => drainer # "footer")}

\* Until the footer closes no prompt is lost, sent twice or overtaken by another:
\* what was typed was sent, is in hand or waits, in this order.
NothingIsLost ==
    ~shut =>
        /\ \A i \in DOMAIN waiting : waiting[i] = typed[Shifted + i]
        /\ inHand # <<>> => inHand = <<typed[Shifted]>>
        /\ Range(sent) = {typed[i] : i \in Due}
        /\ \A k, l \in DOMAIN sent : k < l =>
              \E i, j \in Due : i < j /\ typed[i] = sent[k] /\ typed[j] = sent[l]

\* Turns never overlap, also while the footer closes.
OneTurnAtATime == Cardinality({p \in Prompts : turn[p] = "runs"}) <= 1

\* A queue that is not empty has somebody who drains it, unless a /new came to an
\* empty queue that offers none.
QueueIsDrained ==
    /\ waiting # <<>> => Drains \/ drainer = "spent"
    /\ drainer = "spent" => ~offers /\ \E i \in DOMAIN typed : typed[i] \in NewSessions

\* What still runs when the footer has closed was told so by its signal.
ClosedIsAborted == shut => \A p \in Prompts : turn[p] = "runs" => p \in aborted

\* Once the footer has closed nothing is sent any more.
SilentWhenClosed == [][shut => sent' = sent]_promptVars

\* A failed turn ends the run with its error, unless the footer closed first.
FailureIsThrown ==
    \A p \in Prompts :
        turn[p] = "error" /\ p \notin aborted => outcome = "thrown" \/ (inHand = <<p>> /\ race = "error")

\* Prompts are sent one after the other in the order they were typed until the
\* footer closes; what runs then is told, and errors come out.
PromptQueueContract ==
    /\ PromptQueueTypeOK
    /\ NothingIsLost /\ OneTurnAtATime /\ QueueIsDrained
    /\ ClosedIsAborted /\ FailureIsThrown

\* runPromptQueue returns when the footer has closed, even if the turn never ends,
\* unless its drainer is spent.
QueueReturns == []<>(shut => outcome # "pending" \/ drainer = "spent")
=============================================================================
