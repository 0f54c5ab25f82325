------------------------------ MODULE MCStorage ------------------------------
(***************************************************************************)
(* What is kept twice - the log of a session at several machines, shared   *)
(* sessions, files and the messages that changed them, times and the ids   *)
(* made of them - in one run: in a behaviour one of the four moves and the *)
(* others stay where they begin.  The calls on a share move until they     *)
(* overlap: what is promised of it ends there.                             *)
(***************************************************************************)
EXTENDS Share, Revert, Identifier, Sync, TLC

VARIABLE kept

storageVars == <<kept, shareVars, revertVars, idVars, vars>>

StorageInit ==
    /\ kept \in {"share", "revert", "ids", "log"}
    /\ ShareInit /\ (kept = "share" \/ row = NoShare)
    /\ RevertInit
    /\ IdInit /\ (kept = "ids" \/ clock = MaxClock)
    /\ Init

StorageNext ==
    /\ UNCHANGED kept
    /\ IF kept = "share" THEN ShareNext /\ ~overlapped ELSE UNCHANGED shareVars
    /\ IF kept = "revert" THEN RevertNext ELSE UNCHANGED revertVars
    /\ IF kept = "ids" THEN IdNext ELSE UNCHANGED idVars
    /\ IF kept = "log" THEN Next ELSE UNCHANGED vars

StorageSpec == StorageInit /\ [][StorageNext]_storageVars

\* Remote workspaces, prompts and reverts are interchangeable.
StorageSymmetry == Permutations(Remotes) \cup Permutations(Turns) \cup Permutations(Reverts)
=============================================================================
