------------------------------ MODULE ServeLoop ------------------------------
(***************************************************************************)
(* The life of the -serve process: cmd/miniagent/web.go (runServe,         *)
(* serveOnce), POST /api/reload (web_config.go) and, of the turns, only    *)
(* what the loop interacts with: whether one is registered and whether its *)
(* handler is still there.                                                 *)
(*                                                                         *)
(* A generation is one serveOnce: its own webServer, turn registry and     *)
(* reload channel.  All turns here name the same session.                  *)
(***************************************************************************)
EXTENDS Naturals

CONSTANTS
  Turns,    \* POST /api/turn requests
  Reloads,  \* POST /api/reload requests
  MaxGen    \* bound on the generations explored

ASSUME ServeAssumption == MaxGen \in Nat \ {0} /\ Turns \cap Reloads = {}

VARIABLES
  loop,      \* where runServe and the serveOnce it calls are
  gen,       \* the latest generation
  cfg,       \* runServe's cfg: "valid" or "nil"
  cfgFile,   \* does the configuration file load?
  token,     \* webServer.reloadCh of each generation holds a token
  signalled, \* SIGINT or SIGTERM arrived: ctx is done
  forced,    \* a Shutdown gave up on its handlers after 5 s
  handler,   \* the handler of a turn request
  engine,    \* the goroutine of a turn
  reload,    \* the handler of a reload request
  home       \* the generation a request reached

requests == <<handler, engine, reload, home>>
vars == <<loop, gen, cfg, cfgFile, token, signalled, forced, requests>>

Gens     == 1..MaxGen
LoopPCs  == {"start", "serve", "drain", "wait", "load", "exited", "crashed", "failed"}
Alive    == loop \notin {"exited", "crashed", "failed"}

Init ==
  /\ loop = "start"
  /\ gen = 0
  /\ cfg = "valid"
  /\ cfgFile \in {"loads", "broken"}
  /\ token = [g \in Gens |-> FALSE]
  /\ signalled = FALSE
  /\ forced = FALSE
  /\ handler = [t \in Turns |-> "idle"]
  /\ engine = [t \in Turns |-> "none"]
  /\ reload = [r \in Reloads |-> "idle"]
  /\ home = [q \in Turns \cup Reloads |-> 0]

\* Requests whose handler Shutdown waits for.
Active(g) ==
  \/ \E t \in Turns : home[t] = g /\ handler[t] \in {"register", "follow"}
  \/ \E r \in Reloads : home[r] = g /\ reload[r] \in {"count", "check", "send"}

-----------------------------------------------------------------------------
(* runServe and serveOnce.                                                 *)

\* serveOnce reads cfg first: a nil one is dereferenced.  A refused key or
\* listen address, or a failed Listen, exits the process.
Start ==
  /\ loop = "start"
  /\ \/ /\ cfg = "nil"
        /\ loop' = "crashed"
        /\ UNCHANGED gen
     \/ /\ cfg = "valid" /\ gen < MaxGen
        /\ loop' = "serve"
        /\ gen' = gen + 1
     \/ /\ cfg = "valid"
        /\ loop' = "exited"
        /\ UNCHANGED gen
  /\ UNCHANGED <<cfg, cfgFile, token, signalled, forced, requests>>

\* The select of serveOnce: two of its cases shut the http.Server down ...
ShutdownOnSignal ==
  /\ loop = "serve" /\ signalled
  /\ loop' = "drain"
  /\ UNCHANGED <<gen, cfg, cfgFile, token, signalled, forced, requests>>

\* Mutant of ShutdownOnReload: the token is taken, the server goes on.
ShutdownOnReloadIgnored ==
  /\ loop = "serve" /\ token[gen]
  /\ token' = [token EXCEPT ![gen] = FALSE]
  /\ UNCHANGED <<loop, gen, cfg, cfgFile, signalled, forced, requests>>

ShutdownOnReload ==
  /\ loop = "serve" /\ token[gen]
  /\ token' = [token EXCEPT ![gen] = FALSE]
  /\ loop' = "drain"
  /\ UNCHANGED <<gen, cfg, cfgFile, signalled, forced, requests>>

\* ... the third ends the process at once, whatever runs: Serve failed, an Accept that
\* no retry helps.  http.ErrServerClosed it returns only after the select.
ServeFails ==
  /\ loop = "serve"
  /\ loop' = "failed"
  /\ UNCHANGED <<gen, cfg, cfgFile, token, signalled, forced, requests>>

\* Mutant: Close instead of Shutdown.
DrainedAtOnce ==
  /\ loop = "drain"
  /\ loop' = "wait"
  /\ UNCHANGED <<gen, cfg, cfgFile, token, signalled, forced, requests>>

\* srv.Shutdown returns when no handler is active ...
Drained ==
  /\ loop = "drain" /\ ~Active(gen)
  /\ loop' = "wait"
  /\ UNCHANGED <<gen, cfg, cfgFile, token, signalled, forced, requests>>

\* ... or after 5 s, and srv.Close drops the connections.  The handlers of
\* /api/events, left out of Active, can make it last that long.
GraceOver ==
  /\ loop = "drain"
  /\ loop' = "wait"
  /\ forced' = TRUE
  /\ UNCHANGED <<gen, cfg, cfgFile, token, signalled, requests>>

\* Mutant: runServe looks at ctx only if no reload is pending in its select.
ExitUnlessReloading ==
  /\ loop = "wait" /\ signalled
  /\ \A r \in Reloads : reload[r] # "accepted"
  /\ loop' = "exited"
  /\ UNCHANGED <<gen, cfg, cfgFile, token, signalled, forced, requests>>

\* The select of runServe: the end of the process ...
Exit ==
  /\ loop = "wait" /\ signalled
  /\ loop' = "exited"
  /\ UNCHANGED <<gen, cfg, cfgFile, token, signalled, forced, requests>>

\* ... or another token in the generation's reload channel.
TakeReload ==
  /\ loop = "wait" /\ token[gen]
  /\ token' = [token EXCEPT ![gen] = FALSE]
  /\ loop' = "load"
  /\ UNCHANGED <<gen, cfg, cfgFile, signalled, forced, requests>>

\* cfg, err = config.LoadConfig(cfgPath): cfg is nil when err is not.
LoadConfig ==
  /\ loop = "load"
  /\ cfg' = IF cfgFile = "loads" THEN "valid" ELSE "nil"
  /\ loop' = "start"
  /\ UNCHANGED <<gen, cfgFile, token, signalled, forced, requests>>

-----------------------------------------------------------------------------
(* POST /api/reload.                                                       *)

ReloadArrives(r) ==
  /\ loop = "serve" /\ reload[r] = "idle"
  /\ reload' = [reload EXCEPT ![r] = "count"]
  /\ home' = [home EXCEPT ![r] = gen]
  /\ UNCHANGED <<loop, gen, cfg, cfgFile, token, signalled, forced, handler, engine>>

\* runningCount of this generation's registry.
ReloadCounts(r) ==
  /\ Alive /\ reload[r] = "count"
  /\ \/ /\ \E t \in Turns : home[t] = home[r] /\ engine[t] = "running"
        /\ reload' = [reload EXCEPT ![r] = "refused"]
     \/ /\ \A t \in Turns : home[t] = home[r] => engine[t] # "running"
        /\ reload' = [reload EXCEPT ![r] = "check"]
  /\ UNCHANGED <<loop, gen, cfg, cfgFile, token, signalled, forced, handler, engine, home>>

ReloadChecks(r) ==
  /\ Alive /\ reload[r] = "check"
  /\ reload' = [reload EXCEPT ![r] = IF cfgFile = "loads" THEN "send" ELSE "refused"]
  /\ UNCHANGED <<loop, gen, cfg, cfgFile, token, signalled, forced, handler, engine, home>>

\* Non-blocking send: a full channel answers 503.
ReloadSends(r) ==
  /\ Alive /\ reload[r] = "send"
  /\ \/ /\ token[home[r]]
        /\ reload' = [reload EXCEPT ![r] = "refused"]
        /\ UNCHANGED token
     \/ /\ ~token[home[r]]
        /\ reload' = [reload EXCEPT ![r] = "accepted"]
        /\ token' = [token EXCEPT ![home[r]] = TRUE]
  /\ UNCHANGED <<loop, gen, cfg, cfgFile, signalled, forced, handler, engine, home>>

-----------------------------------------------------------------------------
(* POST /api/turn, as far as the loop is concerned.                        *)

TurnArrives(t) ==
  /\ loop = "serve" /\ handler[t] = "idle"
  /\ handler' = [handler EXCEPT ![t] = "register"]
  /\ home' = [home EXCEPT ![t] = gen]
  /\ UNCHANGED <<loop, gen, cfg, cfgFile, token, signalled, forced, engine, reload>>

\* The session is busy (409) only if this generation's registry holds it.
TurnRegisters(t) ==
  /\ Alive /\ handler[t] = "register"
  /\ \/ /\ \E u \in Turns : home[u] = home[t] /\ engine[u] = "running"
        /\ handler' = [handler EXCEPT ![t] = "gone"]
        /\ UNCHANGED engine
     \/ /\ \A u \in Turns : home[u] = home[t] => engine[u] # "running"
        /\ handler' = [handler EXCEPT ![t] = "follow"]
        /\ engine' = [engine EXCEPT ![t] = "running"]
  /\ UNCHANGED <<loop, gen, cfg, cfgFile, token, signalled, forced, reload, home>>

\* runTurn has saved the session and finish released it.
TurnEnds(t) ==
  /\ Alive /\ engine[t] = "running"
  /\ engine' = [engine EXCEPT ![t] = "saved"]
  /\ UNCHANGED <<loop, gen, cfg, cfgFile, token, signalled, forced, handler, reload, home>>

\* The handler returns at the end of its turn; a client that disconnects, or is
\* dropped by Close, makes it return before.
TurnHandlerEnds(t) ==
  /\ Alive /\ handler[t] = "follow" /\ engine[t] = "saved"
  /\ handler' = [handler EXCEPT ![t] = "gone"]
  /\ UNCHANGED <<loop, gen, cfg, cfgFile, token, signalled, forced, engine, reload, home>>

ClientLeaves(t) ==
  /\ Alive /\ handler[t] = "follow" /\ engine[t] = "running"
  /\ handler' = [handler EXCEPT ![t] = "gone"]
  /\ UNCHANGED <<loop, gen, cfg, cfgFile, token, signalled, forced, engine, reload, home>>

-----------------------------------------------------------------------------
(* The environment: signals and edits of the configuration file.           *)

Signal ==
  /\ Alive /\ ~signalled
  /\ signalled' = TRUE
  /\ UNCHANGED <<loop, gen, cfg, cfgFile, token, forced, requests>>

EditConfig ==
  /\ Alive
  /\ cfgFile' \in {"loads", "broken"} \ {cfgFile}
  /\ UNCHANGED <<loop, gen, cfg, token, signalled, forced, requests>>

-----------------------------------------------------------------------------
Loop ==
  \/ Start \/ ShutdownOnSignal \/ ShutdownOnReload \/ Drained \/ GraceOver
  \/ Exit \/ TakeReload \/ LoadConfig

ReloadHandler(r) == ReloadCounts(r) \/ ReloadChecks(r) \/ ReloadSends(r)

TurnThreads(t) == TurnRegisters(t) \/ TurnEnds(t) \/ TurnHandlerEnds(t)

Next ==
  \/ Loop \/ ServeFails \/ Signal \/ EditConfig
  \/ \E r \in Reloads : ReloadArrives(r) \/ ReloadHandler(r)
  \/ \E t \in Turns : TurnArrives(t) \/ TurnThreads(t) \/ ClientLeaves(t)

Spec == Init /\ [][Next]_vars

\* The goroutines are scheduled, Shutdown's timer fires and turns end (their
\* context has a deadline); requests, signals, edits and a failure of Serve need not
\* happen.
FairSpec ==
  /\ Spec
  /\ WF_vars(Loop)
  /\ \A r \in Reloads : WF_vars(ReloadHandler(r))
  /\ \A t \in Turns : WF_vars(TurnThreads(t))

-----------------------------------------------------------------------------
(* Properties.                                                             *)

TypeOK ==
  /\ loop \in LoopPCs
  /\ gen \in 0..MaxGen
  /\ cfg \in {"valid", "nil"}
  /\ cfgFile \in {"loads", "broken"}
  /\ token \in [Gens -> BOOLEAN]
  /\ signalled \in BOOLEAN /\ forced \in BOOLEAN
  /\ handler \in [Turns -> {"idle", "register", "follow", "gone"}]
  /\ engine \in [Turns -> {"none", "running", "saved"}]
  /\ reload \in [Reloads -> {"idle", "count", "check", "send", "accepted", "refused"}]
  /\ home \in [Turns \cup Reloads -> 0..MaxGen]

(***************************************************************************)
(* A process that a signal ends, within its grace period, leaves no turn   *)
(* behind whose client is still attached, nor does one that dies in a      *)
(* reload: Shutdown waits for the handler, and the handler for the end of  *)
(* its turn (web.go:147-150, 152-155).  The exit of a failed Serve, the    *)
(* third case of that select, waits for nobody.                            *)
(***************************************************************************)
AttendedTurnsFinish ==
  loop \in {"exited", "crashed"} /\ ~forced =>
    \A t \in Turns : engine[t] = "running" => handler[t] = "gone"

(***************************************************************************)
(* The same of every end of the process (web.go:157-161 does otherwise).   *)
(***************************************************************************)
EveryEndWaits ==
  ~Alive /\ ~forced => \A t \in Turns : engine[t] = "running" => handler[t] = "gone"

\* While nothing was forced, only the serving generation has handlers, and one whose
\* Serve failed leaves them; a running turn has registered.
HandlersAtHome ==
  /\ ~forced => \A t \in Turns :
       handler[t] \in {"register", "follow"} =>
         loop \in {"serve", "drain", "failed"} /\ home[t] = gen
  /\ \A t \in Turns : engine[t] = "running" => handler[t] \in {"follow", "gone"}

(***************************************************************************)
(* A signal ends the process, whatever reloads and turns are in flight     *)
(* (web.go:96, 146).                                                       *)
(***************************************************************************)
SignalStopsServer == signalled ~> ~Alive

(***************************************************************************)
(* An accepted reload takes effect on the generation that accepted it: it  *)
(* stops serving with the old configuration (web_config.go:148).           *)
(***************************************************************************)
AcceptedReloadDrains ==
  \A r \in Reloads : reload[r] = "accepted" ~> ~(loop = "serve" /\ gen = home[r])

(***************************************************************************)
(* "signals runServe's restart loop ... the client polls /api/whoami to    *)
(* detect when the new generation is up" (web_config.go:131-133): after an *)
(* accepted reload a newer generation serves, unless the process ends.     *)
(***************************************************************************)
ReloadComesBack ==
  \A r \in Reloads :
    reload[r] = "accepted" ~> (loop = "serve" /\ gen > home[r]) \/ signalled \/ ~Alive

(***************************************************************************)
(* "reload is refused while any turn is running so a session never         *)
(* straddles two engine generations" (web.go:90-91): two turns never run   *)
(* on the session at once.                                                 *)
(***************************************************************************)
NeverStraddles ==
  \A t, u \in Turns : engine[t] = "running" /\ engine[u] = "running" => t = u

(***************************************************************************)
(* A reload that finds the file broken is "keeping current config"         *)
(* (web.go:102-104): the process does not die of it.                       *)
(***************************************************************************)
KeepsCurrentConfig == loop # "crashed"

(***************************************************************************)
(* "Turns in flight are cancelled and saved when the server shuts down"    *)
(* (README.md:147): the process does not exit over a running turn.         *)
(***************************************************************************)
ShutdownSavesTurns ==
  loop = "exited" /\ signalled => \A t \in Turns : engine[t] # "running"
=============================================================================
