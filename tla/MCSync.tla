------------------------------- MODULE MCSync -------------------------------
\* Instances of Sync for TLC.
EXTENDS Sync, TLC

\* Remote workspaces are interchangeable.
RemoteSymmetry == Permutations(Remotes)
=============================================================================
