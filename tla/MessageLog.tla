------------------------------ MODULE MessageLog ------------------------------
(***************************************************************************)
(* The messages of one session and what the run loop reads from them:      *)
(* MessageV2.filterCompacted, the scan at the top of runLoop, and what     *)
(* SessionCompaction takes from a view (history, anchor, retained tail).   *)
(*                                                                         *)
(* A message is a record; a log is the sequence of a session's messages in *)
(* the order of the database, (time_created, id).  Of the parts a message  *)
(* has, the model keeps whether a compaction / subtask part is there       *)
(* (`kind', once the parts are stored: `ready') and which requests' text   *)
(* it carries.  Ids are drawn from one clock; 0 is no message.             *)
(***************************************************************************)
EXTENDS Naturals, Sequences, SequencesExt

UserKinds      == {"text", "subtask", "compaction"}
AssistantKinds == {"reply", "task", "summary"}

Blank == [id |-> 0, time |-> 0, kind |-> "text", ready |-> FALSE, text |-> {},
          tail |-> 0, auto |-> FALSE, overflow |-> FALSE, parent |-> 0,
          finish |-> "none", tools |-> FALSE, error |-> FALSE, full |-> FALSE,
          of |-> 0] \* of: for the properties, the message this one repeats

IsUser(m) == m.kind \in UserKinds

HasPart(m, k) == m.kind = k /\ m.ready

\* A summary that counts: finished and without an error.
IsSummary(m) == m.kind = "summary" /\ m.finish # "none" /\ ~m.error

IndexOf(log, i) == SelectInSeq(log, LAMBDA m : m.id = i)

Insert(log, m) ==
    InsertAt(log, 1 + SelectLastInSeq(log, LAMBDA n : n.time < m.time), m)

Update(log, i, m) == [log EXCEPT ![IndexOf(log, i)] = m]

-----------------------------------------------------------------------------
(* filterCompacted *)

\* The positions the walk from the newest message takes for a boundary: a
\* compaction that a later summary answers.
Boundaries(log) ==
    {i \in DOMAIN log :
        /\ HasPart(log[i], "compaction")
        /\ \E j \in i+1 .. Len(log) : IsSummary(log[j]) /\ log[j].parent = log[i].id}

\* Variant: the retained tail is not looked for.
OldestWithoutTail(log) == IF Boundaries(log) = {} THEN 1 ELSE Max(Boundaries(log))

\* Where the walk ends: at the newest boundary, or at the tail it retains.
Oldest(log) ==
    IF Boundaries(log) = {} THEN 1
    ELSE LET b == Max(Boundaries(log))
             t == SelectLastInSubSeq(log, 1, b, LAMBDA m : m.id = log[b].tail)
         IN  IF log[b].tail = 0 THEN b ELSE IF t = 0 THEN 1 ELSE t

\* Variant: the first slice starts one too late.
ReorderDropsCompaction(log) ==
    LET c == SelectLastInSeq(log, LAMBDA m : HasPart(m, "compaction") /\ m.tail # 0)
        s == IF c = 0 THEN 0
             ELSE SelectInSubSeq(log, c + 1, Len(log),
                                 LAMBDA m : m.kind = "summary" /\ m.parent = log[c].id)
        t == IF c = 0 THEN 0 ELSE IndexOf(log, log[c].tail)
    IN  IF 0 < t /\ t < c /\ c < s
        THEN SubSeq(log, c + 1, s) \o SubSeq(log, t, c - 1) \o SubSeq(log, s + 1, Len(log))
        ELSE log

\* The newest compaction with a tail goes first with its summary, then the
\* tail, then what came after the summary.
Reorder(log) ==
    LET c == SelectLastInSeq(log, LAMBDA m : HasPart(m, "compaction") /\ m.tail # 0)
        s == IF c = 0 THEN 0
             ELSE SelectInSubSeq(log, c + 1, Len(log),
                                 LAMBDA m : m.kind = "summary" /\ m.parent = log[c].id)
        t == IF c = 0 THEN 0 ELSE IndexOf(log, log[c].tail)
    IN  IF 0 < t /\ t < c /\ c < s
        THEN SubSeq(log, c, s) \o SubSeq(log, t, c - 1) \o SubSeq(log, s + 1, Len(log))
        ELSE log

FilterCompacted(log) == Reorder(SubSeq(log, Oldest(log), Len(log)))

-----------------------------------------------------------------------------
(* The scan of runLoop: positions in the view, 0 for none *)

LastUser(view)      == SelectLastInSeq(view, IsUser)
LastAssistant(view) == SelectLastInSeq(view, LAMBDA m : ~IsUser(m))
LastFinished(view)  == SelectLastInSeq(view, LAMBDA m : ~IsUser(m) /\ m.finish # "none")

\* Variant: tasks that were done already count.
TaskAnywhere(view) ==
    SelectInSeq(view, LAMBDA m : HasPart(m, "compaction") \/ HasPart(m, "subtask"))

\* The oldest task behind the last finished assistant message.
Task(view) ==
    SelectInSubSeq(view, LastFinished(view) + 1, Len(view),
                   LAMBDA m : HasPart(m, "compaction") \/ HasPart(m, "subtask"))

\* Variant: the ids of the last messages are not compared.
ExitsWhenFinished(view) ==
    LET a == LastAssistant(view)
    IN  a # 0 /\ view[a].finish \notin {"none", "tool-calls"} /\ ~view[a].tools

Exits(view) ==
    LET a == LastAssistant(view)
    IN  /\ a # 0
        /\ view[a].finish \notin {"none", "tool-calls"}
        /\ ~view[a].tools
        /\ view[LastUser(view)].id < view[a].id

\* The text of the requests that a model reads when it is given these places of a view.
Texts(view, places) == UNION {view[i].text : i \in {j \in places : view[j].ready}}

-----------------------------------------------------------------------------
(* SessionCompaction.process over the view, for the user message u *)

IsTurn(m) == IsUser(m) /\ ~HasPart(m, "compaction")

\* On overflow the user message before u is taken out of what is summarised
\* and replayed, if some user message is left before it.
ReplayAt(view, u) ==
    LET i == SelectLastInSubSeq(view, 1, IndexOf(view, u) - 1, IsTurn)
    IN  IF i > 0 /\ SelectInSubSeq(view, 1, i - 1, IsTurn) > 0 THEN i ELSE 0

Summarised(view, u, overflow) ==
    LET r == IF overflow THEN ReplayAt(view, u) ELSE 0
        h == IF r = 0 THEN view ELSE SubSeq(view, 1, r - 1)
    IN  IF h # <<>> /\ Last(h).id = u /\ HasPart(Last(h), "compaction") THEN Front(h) ELSE h

\* The summaries of completed compactions in the view.
Priors(view) ==
    {j \in DOMAIN view : IsSummary(view[j]) /\
        \E i \in DOMAIN view : HasPart(view[i], "compaction") /\ view[i].id = view[j].parent}

\* The summary that is updated: the last one in the order of the view.
Anchor(view) == IF Priors(view) = {} THEN 0 ELSE view[Max(Priors(view))].id

\* The places of what is left to summarise when earlier compactions are hidden.
Visible(view) ==
    {i \in DOMAIN view : \A j \in Priors(view) : view[i].id \notin {view[j].id, view[j].parent}}

\* select(): any message of the last TailTurns turns may start the tail, as
\* sizes and budget have it; the first message never does.
TailStarts(view, TailTurns) ==
    LET starts == {i \in Visible(view) : IsTurn(view[i])}
        recent == {i \in starts : Cardinality({j \in starts : j >= i}) <= TailTurns}
    IN  {0} \cup {view[i].id : i \in {k \in Visible(view) :
                        (\E j \in Visible(view) : j < k) /\ \E r \in recent : r <= k}}

Collapsed(view, tail) == {i \in Visible(view) : tail = 0 \/ i < IndexOf(view, tail)}
=============================================================================
