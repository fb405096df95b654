------------------------------ MODULE MCStores ------------------------------
(* What survives the process: sessions, kept in files under the session      *)
(* directory or on a server as the configuration says (session.url), and the *)
(* configuration itself.                                                     *)
EXTENDS SessionFile, RemoteSession, MCConfigEdit

CONSTANTS p1, p2

VARIABLE store

StoresInit ==
  store \in {"files", "server", "config"} /\ Init /\ RemoteInit /\ ConfigInit

StoresNext ==
  /\ UNCHANGED store
  /\ \/ store = "files"  /\ Next /\ UNCHANGED <<remoteVars, configVars>>
     \/ store = "server" /\ RemoteNext /\ UNCHANGED <<vars, configVars>>
     \/ store = "config" /\ ConfigNext /\ UNCHANGED <<vars, remoteVars>>

\* One process runs, and its five seconds pass; the other may hang anywhere,
\* with the lock in hand.
StoresSpec ==
  StoresInit /\ [][StoresNext]_<<store, vars, remoteVars, configVars>> /\ WF_vars(Work(p1))

\* The save of the fair process returns whatever the other one does.
SavesReturn == SaveReturns(p1)
=============================================================================
