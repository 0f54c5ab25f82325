----------------------------- MODULE MCPromptLoop -----------------------------
\* Three conversations of PromptLoop in one run: a prompt beside a subtask whose id
\* the client drew, a prompt beside a request for a summary with more room, and two
\* prompts beside that request with less.
EXTENDS PromptLoop

CONSTANTS q1, q2, q3, q4

VARIABLE conversation

MCKind == q1 :> "text" @@ q2 :> "subtask" @@ q3 :> "compaction" @@ q4 :> "text"

\* No reply fills the window.
WithSubtask ==
    /\ mid'[q3].id = 0 /\ mid'[q4].id = 0
    /\ now' <= 8
    /\ \A i \in DOMAIN log' : ~log'[i].full

\* No reply stops with tools that were run.
WithSummaries ==
    /\ mid'[q2].id = 0 /\ mid'[q4].id = 0
    /\ \A i \in DOMAIN log' : log'[i].kind = "reply" => ~log'[i].tools

\* Nor does one fill the window or fail, and nobody stops the run. Which of the two
\* prompts is the first does not matter.
WithQueue ==
    /\ mid'[q2].id = 0
    /\ mid'[q4].id # 0 => mid'[q1].id # 0
    /\ now' <= 7
    /\ stops' = 0
    /\ \A i \in DOMAIN log' : ~log'[i].full /\ (log'[i].kind = "reply" => ~log'[i].tools /\ ~log'[i].error)

ConversationInit == Init /\ conversation \in {"subtask", "summaries", "queue"}

ConversationNext ==
    /\ Next
    /\ UNCHANGED conversation
    /\ CASE conversation = "subtask" -> WithSubtask
         [] conversation = "summaries" -> WithSummaries
         [] conversation = "queue" -> WithQueue

ConversationSpec == ConversationInit /\ [][ConversationNext]_<<conversation, vars>>

\* In a fourth, requests come one after the other: each is answered before the next.
InTurn ==
    /\ Next
    /\ UNCHANGED conversation
    /\ mid'[q2].id = 0
    /\ \A q, r \in Requests :
         q # r /\ pc'[q] \notin {"new", "answered"} => pc'[r] \in {"new", "answered"}

InTurnSpec == Init /\ conversation = "in turn" /\ [][InTurn]_<<conversation, vars>>
=============================================================================
