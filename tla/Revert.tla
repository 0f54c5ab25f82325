------------------------------- MODULE Revert -------------------------------
(***************************************************************************)
(* packages/ravens/src/session/revert.ts: taking back the last messages of *)
(* a session with the changes they made to files, and taking that back.    *)
(*                                                                         *)
(* Other than with a run, revert and unrevert hold no lock: both ask once  *)
(* whether the session is busy, and then work on the files across awaits.  *)
(* A prompt makes a revert final: what is hidden is removed.               *)
(*                                                                         *)
(* A user message and its turn are one message here, and its changes to    *)
(* files are one thing that is there or not; messages are numbered.        *)
(***************************************************************************)
EXTENDS Naturals, FiniteSets

CONSTANTS
    Turns,       \* calls of prompt
    Reverts,     \* calls of revert
    Unreverts,   \* calls of unrevert
    Before       \* the messages of the session to begin with: 1 .. Before

ASSUME RevertAssumption ==
    Before \in Nat /\ IsFiniteSet(Turns) /\ Reverts \cap Unreverts = {}

NoRevert == [to |-> 0, snapshot |-> {}, shown |-> {}]
Numbers  == 1 .. Before + Cardinality(Turns)
Undoers  == Reverts \cup Unreverts

VARIABLES
    messages,   \* of the session
    files,      \* the messages whose changes are in the worktree
    mark,       \* session.revert; shown is what the session had when it was made
    turnAt,     \* of a prompt: where it is
    number,     \* of a prompt: its message
    undo,       \* of a revert or unrevert: where it is
    target,     \* of a revert: the message it goes back to
    listed,     \* of a revert: the messages it read
    held,       \* of a revert or unrevert: the session.revert it read, then makes
    raced       \* a revert or unrevert and something else began meanwhile

revertCalls == <<undo, target, listed, held>>
revertVars  == <<messages, files, mark, turnAt, number, revertCalls, raced>>

RevertTypeOK ==
    /\ messages \subseteq Numbers
    /\ files \subseteq Numbers
    /\ {mark.to} \subseteq Numbers \cup {0}
    /\ mark.snapshot \subseteq Numbers /\ mark.shown \subseteq Numbers
    /\ mark.to # 0 => mark.to \in mark.shown
    /\ turnAt \in [Turns -> {"new", "cleaned", "stored", "runs", "done"}]
    /\ number \in [Turns -> Numbers \cup {0}]
    /\ undo \in [Undoers -> {"new", "read", "shot", "undone", "done", "refused"}]
    /\ target \in [Reverts -> Numbers \cup {0}]
    /\ listed \in [Reverts -> SUBSET Numbers]
    /\ raced \in BOOLEAN

RevertInit ==
    /\ messages = 1 .. Before
    /\ files = messages
    /\ mark = NoRevert
    /\ turnAt = [t \in Turns |-> "new"]
    /\ number = [t \in Turns |-> 0]
    /\ undo = [u \in Undoers |-> "new"]
    /\ target = [r \in Reverts |-> 0]
    /\ listed = [r \in Reverts |-> {}]
    /\ held = [u \in Undoers |-> NoRevert]
    /\ raced = FALSE

SessionBusy  == \E t \in Turns : turnAt[t] = "runs"
Undoing      == \E u \in Undoers : undo[u] \in {"read", "shot", "undone"}
Prompting    == \E t \in Turns : turnAt[t] \in {"cleaned", "stored"}
NextNumber   == Cardinality({t \in Turns : number[t] # 0}) + Before + 1
UndoGoes(u, where) == undo' = [undo EXCEPT ![u] = where]

-----------------------------------------------------------------------------
\* Variant: the message before the target goes as well.
TurnRemovesMore(t) ==
    /\ turnAt[t] = "new"
    /\ turnAt' = [turnAt EXCEPT ![t] = "cleaned"]
    /\ number' = [number EXCEPT ![t] = NextNumber]
    /\ messages' = IF mark = NoRevert THEN messages ELSE {x \in messages : x + 1 < mark.to}
    /\ mark' = NoRevert
    /\ raced' = (raced \/ Undoing)
    /\ UNCHANGED <<files, revertCalls>>

\* prompt: cleanup removes what a revert hides, and the revert; the prompt draws
\* its id.
TurnBegins(t) ==
    /\ turnAt[t] = "new"
    /\ turnAt' = [turnAt EXCEPT ![t] = "cleaned"]
    /\ number' = [number EXCEPT ![t] = NextNumber]
    /\ messages' = IF mark = NoRevert THEN messages ELSE {x \in messages : x < mark.to}
    /\ mark' = NoRevert
    /\ raced' = (raced \/ Undoing)
    /\ UNCHANGED <<files, revertCalls>>

TurnStores(t) ==
    /\ turnAt[t] = "cleaned"
    /\ turnAt' = [turnAt EXCEPT ![t] = "stored"]
    /\ messages' = messages \cup {number[t]}
    /\ UNCHANGED <<files, mark, number, revertCalls, raced>>

TurnRuns(t) ==
    /\ turnAt[t] = "stored"
    /\ turnAt' = [turnAt EXCEPT ![t] = "runs"]
    /\ UNCHANGED <<messages, files, mark, number, revertCalls, raced>>

\* The tools of the turn have changed files.
TurnEnded(t) ==
    /\ turnAt[t] = "runs"
    /\ turnAt' = [turnAt EXCEPT ![t] = "done"]
    /\ files' = files \cup {number[t]}
    /\ UNCHANGED <<messages, mark, number, revertCalls, raced>>

-----------------------------------------------------------------------------
\* revert: assertNotBusy, then the messages and the session are read.
RevertBegins(r, m) ==
    /\ undo[r] = "new"
    /\ IF SessionBusy \/ m \notin messages
       THEN UndoGoes(r, IF SessionBusy THEN "refused" ELSE "done")
            /\ UNCHANGED <<target, listed, held, raced>>
       ELSE /\ UndoGoes(r, "read")
            /\ target' = [target EXCEPT ![r] = m]
            /\ listed' = [listed EXCEPT ![r] = messages]
            /\ held' = [held EXCEPT ![r] = mark]
            /\ raced' = (raced \/ Undoing \/ Prompting)
    /\ UNCHANGED <<messages, files, mark, turnAt, number>>

\* Variant: a second revert takes a snapshot of its own.
RevertTracksAnew(r) ==
    /\ undo[r] = "read"
    /\ UndoGoes(r, "shot")
    /\ held' = [held EXCEPT ![r] = [to |-> target[r], snapshot |-> files, shown |-> listed[r]]]
    /\ UNCHANGED <<files, messages, mark, turnAt, number, target, listed, raced>>

\* The snapshot to come back to: that of an earlier revert, which is restored
\* first, or one of the files as they are.
RevertTracks(r) ==
    /\ undo[r] = "read"
    /\ UndoGoes(r, "shot")
    /\ held' = [held EXCEPT ![r] =
           [to |-> target[r], shown |-> listed[r],
            snapshot |-> IF @ = NoRevert THEN files ELSE @.snapshot]]
    /\ files' = IF held[r] = NoRevert THEN files ELSE files \cup held[r].snapshot
    /\ UNCHANGED <<messages, mark, turnAt, number, target, listed, raced>>

\* The changes of the messages from the target on are undone ...
RevertUndoes(r) ==
    /\ undo[r] = "shot"
    /\ UndoGoes(r, "undone")
    /\ files' = files \ {x \in listed[r] : x >= target[r]}
    /\ UNCHANGED <<messages, mark, turnAt, number, target, listed, held, raced>>

\* ... and the session is told.
RevertStores(r) ==
    /\ undo[r] = "undone"
    /\ UndoGoes(r, "done")
    /\ mark' = held[r]
    /\ UNCHANGED <<messages, files, turnAt, number, target, listed, held, raced>>

-----------------------------------------------------------------------------
\* unrevert: assertNotBusy, then the session is read.
UnrevertBegins(u) ==
    /\ undo[u] = "new"
    /\ IF SessionBusy
       THEN UndoGoes(u, "refused") /\ UNCHANGED <<held, raced>>
       ELSE /\ UndoGoes(u, IF mark = NoRevert THEN "done" ELSE "read")
            /\ held' = [held EXCEPT ![u] = mark]
            /\ raced' = (raced \/ (mark # NoRevert /\ (Undoing \/ Prompting)))
    /\ UNCHANGED <<messages, files, mark, turnAt, number, target, listed>>

UnrevertRestores(u) ==
    /\ undo[u] = "read"
    /\ UndoGoes(u, "undone")
    /\ files' = files \cup held[u].snapshot
    /\ UNCHANGED <<messages, mark, turnAt, number, target, listed, held, raced>>

UnrevertClears(u) ==
    /\ undo[u] = "undone"
    /\ UndoGoes(u, "done")
    /\ mark' = NoRevert
    /\ UNCHANGED <<messages, files, turnAt, number, target, listed, held, raced>>

-----------------------------------------------------------------------------
RevertNext ==
    \/ \E t \in Turns : TurnBegins(t) \/ TurnStores(t) \/ TurnRuns(t) \/ TurnEnded(t)
    \/ \E r \in Reverts :
         \/ \E m \in Numbers : RevertBegins(r, m)
         \/ RevertTracks(r) \/ RevertUndoes(r) \/ RevertStores(r)
    \/ \E u \in Unreverts : UnrevertBegins(u) \/ UnrevertRestores(u) \/ UnrevertClears(u)

RevertSpec == RevertInit /\ [][RevertNext]_revertVars

-----------------------------------------------------------------------------
\* Whatever sequence of reverts to earlier and later messages, unreverts and
\* prompts has passed: the files are what the messages that are not hidden made
\* of them, and an unrevert would bring back what all of them made.  Calls that
\* race - a prompt that begins while files are restored, two reverts - are not
\* covered: nothing but the one look at the runner keeps them apart.
FilesFollowMessages ==
    ~raced /\ ~Undoing /\ ~Prompting /\ ~SessionBusy =>
        IF mark = NoRevert
        THEN files = messages
        ELSE files = {x \in messages : x < mark.to} /\ mark.snapshot = messages

\* A revert and a run never work on the files at the same time, unless the prompt
\* came when the revert had begun, or the revert before the prompt had become a run.
RunsAlone == Undoing /\ SessionBusy => raced

\* Files, messages and the mark of the session agree, and who changes files is alone.
RevertContract == RevertTypeOK /\ FilesFollowMessages /\ RunsAlone

\* What is removed for good was there when its revert was made, so that whoever
\* called it has seen that it goes; not so for a prompt that raced the revert.
RemovedWasShown ==
    [][\A x \in messages \ messages' : raced \/ (x \in mark.shown /\ x >= mark.to)]_revertVars
=============================================================================
