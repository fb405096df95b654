--------------------------- MODULE MCRemoteSession ---------------------------
(* Small instances of RemoteSession.                                        *)
EXTENDS RemoteSession, TLC

Symmetry == Permutations(Machines)

\* With a server that may still act on a request its client gave up.
LateSpec == RemoteInit /\ [][RemoteNext \/ ServeLate]_remoteVars
=============================================================================
