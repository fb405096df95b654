---------------------------- MODULE TurnRegistry ----------------------------
(***************************************************************************)
(* The session slots of the web server: cmd/miniagent/web_bus.go           *)
(* (turnRegistry), the handlers that take and release them (web_turn.go,   *)
(* web_sessions.go) and the engine goroutine of one turn (run_turn.go),    *)
(* down to the session file it loads and rewrites.                         *)
(*                                                                         *)
(* Every HTTP request is a process that runs once.  An entry of the        *)
(* registry is named by the request that created it.  A turn has two       *)
(* threads: the handler (handleTurn) and the goroutine it spawns; the      *)
(* goroutine outlives the handler when the client disconnects.             *)
(***************************************************************************)
EXTENDS Naturals, Sequences, FiniteSets

CONSTANTS
  Sessions,       \* session ids
  Turns,          \* POST /api/turn requests
  Deletes,        \* DELETE /api/sessions/{id} requests
  Stops,          \* POST /api/sessions/{id}/stop requests
  MaxConcurrent,  \* web.max_concurrent_turns; 0 = no semaphore
  NoEntry,        \* no registry entry
  NoSession       \* the target of a request that has not arrived

ASSUME RegistryAssumption ==
  /\ MaxConcurrent \in Nat
  /\ IsFiniteSet(Turns)
  /\ Turns \cap Deletes = {} /\ Stops \cap (Turns \cup Deletes) = {}
  /\ NoEntry \notin Turns \cup Deletes
  /\ NoSession \notin Sessions

VARIABLES
  registry,   \* turnRegistry.m: session -> the request holding its slot
  tokens,     \* len(turnSem)
  handler,    \* program counter of handleTurn
  engine,     \* program counter of the turn goroutine
  loaded,     \* the history a turn resumed from
  emitted,    \* the turn's entry has buffered at least one line
  ctxDone,    \* the turn context is cancelled or past its deadline
  deleter,    \* program counter of handleSessionDelete
  stopper,    \* program counter of handleSessionStop
  victim,     \* the entry a stop request looked up
  target,     \* session id of a request
  fresh,      \* turns that create their session (req.Session == "")
  known,      \* ids a client can name: issued ids, and ids it made up
  file        \* session files: does the jsonl exist, and whose turns it holds

requests  == <<target, fresh, known>>
turnState == <<handler, engine, loaded, emitted, ctxDone, tokens>>
stopState == <<stopper, victim>>
vars == <<registry, turnState, deleter, stopState, requests, file>>

HandlerStates == {"idle", "register", "announce", "follow", "gone"}
EngineStates  == {"none", "load", "setup", "run", "save", "terminal",
                  "release", "close", "announce", "ended"}
DeleterStates == {"idle", "remove", "cleanup", "release", "gone"}
StopperStates == {"idle", "cancel", "stopped", "missed"}
File          == [exists : BOOLEAN, turns : Seq(Turns)]
NoFile        == [exists |-> FALSE, turns |-> <<>>]

(***************************************************************************)
(* A turn occupies its session from register to the map delete of finish;  *)
(* a delete request from beginDelete to its deferred finish.               *)
(***************************************************************************)
TurnActive(t) ==
  \/ handler[t] = "announce"
  \/ engine[t] \in {"load", "setup", "run", "save", "terminal", "release"}
DeleteActive(d) == deleter[d] \in {"remove", "cleanup", "release"}

\* The handler of t holds a token of turnSem (acquired, not yet deferred-released).
HoldsToken(t) == handler[t] \in {"register", "announce", "follow"}

Init ==
  /\ registry = [s \in Sessions |-> NoEntry]
  /\ tokens = 0
  /\ handler = [t \in Turns |-> "idle"]
  /\ engine = [t \in Turns |-> "none"]
  /\ loaded = [t \in Turns |-> <<>>]
  /\ emitted = [t \in Turns |-> FALSE]
  /\ ctxDone = [t \in Turns |-> FALSE]
  /\ deleter = [d \in Deletes |-> "idle"]
  /\ stopper = [x \in Stops |-> "idle"]
  /\ victim = [x \in Stops |-> NoEntry]
  /\ target = [q \in Turns \cup Deletes \cup Stops |-> NoSession]
  /\ fresh = {}
  /\ known \in SUBSET Sessions
  /\ file \in [Sessions -> {NoFile, [exists |-> TRUE, turns |-> <<>>]}]
  /\ \A s \in Sessions : file[s].exists => s \in known

-----------------------------------------------------------------------------
(* POST /api/turn: the handler.                                            *)

\* An empty req.Session generates an id nobody has seen; otherwise the client
\* names a session it knows (which may have no file).
Names(t, s) ==
  \/ /\ s \notin known
     /\ fresh' = fresh \cup {t}
     /\ known' = known \cup {s}
  \/ /\ s \in known
     /\ UNCHANGED <<fresh, known>>

\* Non-blocking acquire of turnSem; a full semaphore answers 429.
TurnAccept(t, s) ==
  /\ handler[t] = "idle"
  /\ Names(t, s)
  /\ target' = [target EXCEPT ![t] = s]
  /\ \/ /\ MaxConcurrent = 0
        /\ handler' = [handler EXCEPT ![t] = "register"]
        /\ UNCHANGED tokens
     \/ /\ tokens < MaxConcurrent
        /\ handler' = [handler EXCEPT ![t] = "register"]
        /\ tokens' = tokens + 1
     \/ /\ MaxConcurrent > 0
        /\ tokens >= MaxConcurrent
        /\ handler' = [handler EXCEPT ![t] = "gone"]
        /\ UNCHANGED tokens
  /\ UNCHANGED <<registry, engine, loaded, emitted, ctxDone, deleter, stopState, file>>

\* The deferred release of the handler's token.
ReleaseToken == tokens' = IF MaxConcurrent > 0 THEN tokens - 1 ELSE tokens

\* Mutants: the 409 path keeps the token; a delete in progress does not block turns.
TurnRegisterLeaks(t) ==
  /\ handler[t] = "register"
  /\ \/ /\ registry[target[t]] = NoEntry
        /\ registry' = [registry EXCEPT ![target[t]] = t]
        /\ handler' = [handler EXCEPT ![t] = "announce"]
     \/ /\ registry[target[t]] # NoEntry
        /\ handler' = [handler EXCEPT ![t] = "gone"]
        /\ UNCHANGED registry
  /\ UNCHANGED <<engine, loaded, emitted, ctxDone, tokens, deleter, stopState, requests, file>>

TurnRegisterOverDelete(t) ==
  /\ handler[t] = "register"
  /\ \/ /\ registry[target[t]] \notin Turns
        /\ registry' = [registry EXCEPT ![target[t]] = t]
        /\ handler' = [handler EXCEPT ![t] = "announce"]
        /\ UNCHANGED tokens
     \/ /\ registry[target[t]] \in Turns
        /\ handler' = [handler EXCEPT ![t] = "gone"]
        /\ ReleaseToken
        /\ UNCHANGED registry
  /\ UNCHANGED <<engine, loaded, emitted, ctxDone, deleter, stopState, requests, file>>

\* turnRegistry.register under r.mu: any entry, running or deleting, is busy (409).
TurnRegister(t) ==
  /\ handler[t] = "register"
  /\ \/ /\ registry[target[t]] = NoEntry
        /\ registry' = [registry EXCEPT ![target[t]] = t]
        /\ handler' = [handler EXCEPT ![t] = "announce"]
        /\ UNCHANGED tokens
     \/ /\ registry[target[t]] # NoEntry
        /\ handler' = [handler EXCEPT ![t] = "gone"]
        /\ ReleaseToken
        /\ UNCHANGED registry
  /\ UNCHANGED <<engine, loaded, emitted, ctxDone, deleter, stopState, requests, file>>

\* broadcastLife(turn_started), then the goroutine is spawned.
AnnounceStarted(t) ==
  /\ handler[t] = "announce"
  /\ handler' = [handler EXCEPT ![t] = "follow"]
  /\ engine' = [engine EXCEPT ![t] = "load"]
  /\ UNCHANGED <<registry, loaded, emitted, ctxDone, tokens, deleter, stopState, requests, file>>

\* The handler returns: its entry is done, or (once it has passed the wait for
\* the first line) its client disconnected or its channel was lag-closed.
HandlerLeaves(t) ==
  /\ handler[t] = "follow"
  /\ engine[t] \in {"announce", "ended"} \/ emitted[t]
  /\ handler' = [handler EXCEPT ![t] = "gone"]
  /\ ReleaseToken
  /\ UNCHANGED <<registry, engine, loaded, emitted, ctxDone, deleter, stopState, requests, file>>

-----------------------------------------------------------------------------
(* The turn goroutine: runTurn, then finish, then the turn_finished event. *)

\* A step of the goroutine that changes only its own program counter and
\* possibly emits a line.
EngineStep(t, from, to, emits) ==
  /\ engine[t] = from
  /\ engine' = [engine EXCEPT ![t] = to]
  /\ emitted' = [emitted EXCEPT ![t] = @ \/ emits]

\* resolveSession: load the history; resuming a missing file is an error.  A
\* new session emits its session event before Run.
LoadHistory(t) ==
  /\ engine[t] = "load"
  /\ \/ /\ file[target[t]].exists \/ t \in fresh
        /\ EngineStep(t, "load", "setup", t \in fresh)
     \/ /\ ~file[target[t]].exists
        /\ t \notin fresh
        /\ EngineStep(t, "load", "release", FALSE)
  /\ loaded' = [loaded EXCEPT ![t] = file[target[t]].turns]
  /\ UNCHANGED <<registry, handler, tokens, ctxDone, deleter, stopState, requests, file>>

\* Configuration, key, load or client errors: runTurn returns before Run.
SetupFails(t) ==
  /\ \/ EngineStep(t, "load", "release", FALSE)
     \/ EngineStep(t, "setup", "release", FALSE)
  /\ UNCHANGED <<registry, handler, tokens, loaded, ctxDone, deleter, stopState, requests, file>>

SetupOk(t) ==
  /\ EngineStep(t, "setup", "run", FALSE)
  /\ UNCHANGED <<registry, handler, tokens, loaded, ctxDone, deleter, stopState, requests, file>>

\* miniagent.Run writes events while it runs.
RunEmits(t) ==
  /\ ~emitted[t]
  /\ EngineStep(t, "run", "run", TRUE)
  /\ UNCHANGED <<registry, handler, tokens, loaded, ctxDone, deleter, stopState, requests, file>>

\* Run returns with a result, an error or a cancellation: all three save.
RunReturns(t) ==
  /\ EngineStep(t, "run", "save", FALSE)
  /\ UNCHANGED <<registry, handler, tokens, loaded, ctxDone, deleter, stopState, requests, file>>

\* RewriteMessages(history ++ new): creates or replaces the file, or fails.
SaveSession(t) ==
  /\ EngineStep(t, "save", "terminal", FALSE)
  /\ \/ file' = [file EXCEPT ![target[t]] =
                   [exists |-> TRUE, turns |-> Append(loaded[t], t)]]
     \/ UNCHANGED file
  /\ UNCHANGED <<registry, handler, tokens, loaded, ctxDone, deleter, stopState, requests>>

\* The stop, error or result event.
EmitTerminal(t) ==
  /\ EngineStep(t, "terminal", "release", TRUE)
  /\ UNCHANGED <<registry, handler, tokens, loaded, ctxDone, deleter, stopState, requests, file>>

\* finish, first critical section (r.mu): whatever entry the id has is removed.
ReleaseSlot(t) ==
  /\ EngineStep(t, "release", "close", FALSE)
  /\ registry' = [registry EXCEPT ![target[t]] = NoEntry]
  /\ UNCHANGED <<handler, tokens, loaded, ctxDone, deleter, stopState, requests, file>>

\* finish, second critical section (e.mu): subscribers and done are closed.
CloseEntry(t) ==
  /\ EngineStep(t, "close", "announce", FALSE)
  /\ UNCHANGED <<registry, handler, tokens, loaded, ctxDone, deleter, stopState, requests, file>>

\* broadcastLife(turn_finished), and the deferred cancel.
AnnounceFinished(t) ==
  /\ EngineStep(t, "announce", "ended", FALSE)
  /\ ctxDone' = [ctxDone EXCEPT ![t] = TRUE]
  /\ UNCHANGED <<registry, handler, tokens, loaded, deleter, stopState, requests, file>>

\* The 10 minute bound of the turn context (or run.max_duration).
Deadline(t) ==
  /\ engine[t] \in EngineStates \ {"none", "ended"}
  /\ ~ctxDone[t]
  /\ ctxDone' = [ctxDone EXCEPT ![t] = TRUE]
  /\ UNCHANGED <<registry, handler, engine, loaded, emitted, tokens, deleter, stopState, requests, file>>

-----------------------------------------------------------------------------
(* DELETE /api/sessions/{id}.                                              *)

\* Mutant: only another delete makes a delete busy.
BeginDeleteOverTurn(d, s) ==
  /\ deleter[d] = "idle"
  /\ s \in known
  /\ target' = [target EXCEPT ![d] = s]
  /\ \/ /\ registry[s] \notin Deletes
        /\ registry' = [registry EXCEPT ![s] = d]
        /\ deleter' = [deleter EXCEPT ![d] = "remove"]
     \/ /\ registry[s] \in Deletes
        /\ deleter' = [deleter EXCEPT ![d] = "gone"]
        /\ UNCHANGED registry
  /\ UNCHANGED <<turnState, stopState, fresh, known, file>>

BeginDelete(d, s) ==
  /\ deleter[d] = "idle"
  /\ s \in known
  /\ target' = [target EXCEPT ![d] = s]
  /\ \/ /\ registry[s] = NoEntry
        /\ registry' = [registry EXCEPT ![s] = d]
        /\ deleter' = [deleter EXCEPT ![d] = "remove"]
     \/ /\ registry[s] # NoEntry
        /\ deleter' = [deleter EXCEPT ![d] = "gone"]
        /\ UNCHANGED registry
  /\ UNCHANGED <<turnState, stopState, fresh, known, file>>

\* Mutant: the 404 reply skips the deferred finish.
RemoveFileForgets(d) ==
  /\ deleter[d] = "remove"
  /\ \/ /\ file[target[d]].exists
        /\ file' = [file EXCEPT ![target[d]] = NoFile]
        /\ deleter' = [deleter EXCEPT ![d] = "cleanup"]
     \/ /\ ~file[target[d]].exists
        /\ deleter' = [deleter EXCEPT ![d] = "gone"]
        /\ UNCHANGED file
  /\ UNCHANGED <<registry, turnState, stopState, requests>>

\* os.Remove: a missing file (404) or another error (500) skips the event.
RemoveFile(d) ==
  /\ deleter[d] = "remove"
  /\ \/ /\ file[target[d]].exists
        /\ file' = [file EXCEPT ![target[d]] = NoFile]
        /\ deleter' = [deleter EXCEPT ![d] = "cleanup"]
     \/ /\ deleter' = [deleter EXCEPT ![d] = "release"]
        /\ UNCHANGED file
  /\ UNCHANGED <<registry, turnState, stopState, requests>>

\* RemoveAll of the tool-output directory, then broadcastLife(session_deleted).
AnnounceDeleted(d) ==
  /\ deleter[d] = "cleanup"
  /\ deleter' = [deleter EXCEPT ![d] = "release"]
  /\ UNCHANGED <<registry, turnState, stopState, requests, file>>

\* The deferred finish(id, nil).
EndDelete(d) ==
  /\ deleter[d] = "release"
  /\ deleter' = [deleter EXCEPT ![d] = "gone"]
  /\ registry' = [registry EXCEPT ![target[d]] = NoEntry]
  /\ UNCHANGED <<turnState, stopState, requests, file>>

-----------------------------------------------------------------------------
(* POST /api/sessions/{id}/stop: look the entry up under r.mu, cancel it    *)
(* after the lock is gone.                                                  *)

StopLookup(x, s) ==
  /\ stopper[x] = "idle"
  /\ s \in known
  /\ target' = [target EXCEPT ![x] = s]
  /\ \/ /\ registry[s] \in Turns
        /\ victim' = [victim EXCEPT ![x] = registry[s]]
        /\ stopper' = [stopper EXCEPT ![x] = "cancel"]
     \/ /\ registry[s] \notin Turns
        /\ stopper' = [stopper EXCEPT ![x] = "missed"]
        /\ UNCHANGED victim
  /\ UNCHANGED <<registry, turnState, deleter, fresh, known, file>>

\* Mutant: a turn that is not in Run yet has no context to cancel.
StopCancelTooEarly(x) ==
  /\ stopper[x] = "cancel"
  /\ stopper' = [stopper EXCEPT ![x] = "stopped"]
  /\ ctxDone' = IF engine[victim[x]] = "run" THEN [ctxDone EXCEPT ![victim[x]] = TRUE] ELSE ctxDone
  /\ UNCHANGED <<registry, handler, engine, loaded, emitted, tokens, deleter, victim, requests, file>>

StopCancel(x) ==
  /\ stopper[x] = "cancel"
  /\ stopper' = [stopper EXCEPT ![x] = "stopped"]
  /\ ctxDone' = [ctxDone EXCEPT ![victim[x]] = TRUE]
  /\ UNCHANGED <<registry, handler, engine, loaded, emitted, tokens, deleter, victim, requests, file>>

-----------------------------------------------------------------------------
Handler(t) ==
  \/ \E s \in Sessions : TurnAccept(t, s)
  \/ TurnRegister(t)
  \/ AnnounceStarted(t)
  \/ HandlerLeaves(t)

Engine(t) ==
  \/ LoadHistory(t) \/ SetupFails(t) \/ SetupOk(t)
  \/ RunEmits(t) \/ RunReturns(t)
  \/ SaveSession(t) \/ EmitTerminal(t)
  \/ ReleaseSlot(t) \/ CloseEntry(t) \/ AnnounceFinished(t)

Delete(d) ==
  \/ \E s \in Sessions : BeginDelete(d, s)
  \/ RemoveFile(d) \/ AnnounceDeleted(d) \/ EndDelete(d)

Stop(x) == (\E s \in Sessions : StopLookup(x, s)) \/ StopCancel(x)

Next ==
  \/ \E t \in Turns : Handler(t) \/ Engine(t) \/ Deadline(t)
  \/ \E d \in Deletes : Delete(d)
  \/ \E x \in Stops : Stop(x)

Spec == Init /\ [][Next]_vars

(***************************************************************************)
(* The goroutines are scheduled, and Run returns once its context is done. *)
(* Nothing obliges a request to arrive or a client to leave, and a stop    *)
(* must work without the deadline: only SlotsDrain assumes that its timer  *)
(* fires.                                                                  *)
(***************************************************************************)
EngineMoves(t) ==
  \/ LoadHistory(t) \/ SetupOk(t)
  \/ ctxDone[t] /\ RunReturns(t)
  \/ SaveSession(t) \/ EmitTerminal(t)
  \/ ReleaseSlot(t) \/ CloseEntry(t) \/ AnnounceFinished(t)

Scheduling ==
  /\ \A t \in Turns :
       /\ WF_vars(TurnRegister(t) \/ AnnounceStarted(t))
       /\ WF_vars(EngineMoves(t))
  /\ \A d \in Deletes : WF_vars(RemoveFile(d) \/ AnnounceDeleted(d) \/ EndDelete(d))
  /\ \A x \in Stops : WF_vars(StopCancel(x))

Timers == \A t \in Turns : WF_vars(Deadline(t))

FairSpec == Spec /\ Scheduling

-----------------------------------------------------------------------------
(* Properties.                                                             *)

TypeOK ==
  /\ registry \in [Sessions -> Turns \cup Deletes \cup {NoEntry}]
  /\ tokens \in Nat
  /\ handler \in [Turns -> HandlerStates]
  /\ engine \in [Turns -> EngineStates]
  /\ loaded \in [Turns -> Seq(Turns)]
  /\ emitted \in [Turns -> BOOLEAN]
  /\ ctxDone \in [Turns -> BOOLEAN]
  /\ deleter \in [Deletes -> DeleterStates]
  /\ stopper \in [Stops -> StopperStates]
  /\ victim \in [Stops -> Turns \cup {NoEntry}]
  /\ target \in [Turns \cup Deletes \cup Stops -> Sessions \cup {NoSession}]
  /\ fresh \subseteq Turns
  /\ known \subseteq Sessions
  /\ file \in [Sessions -> File]

Busy == {t \in Turns : TurnActive(t)} \cup {d \in Deletes : DeleteActive(d)}

(***************************************************************************)
(* At most one request works on a session's file at any moment: no two     *)
(* turn goroutines between register and finish, and no delete while a turn *)
(* runs ("blocks new turns while the file is removed", web_bus.go:37).     *)
(***************************************************************************)
ExclusiveSession ==
  \A p, q \in Busy : target[p] = target[q] => p = q

(***************************************************************************)
(* A session file changes only by disappearing or by gaining the turn that *)
(* saves it: no turn is lost to a rewrite from a stale history, and a      *)
(* deleted session does not come back with its old turns                   *)
(* (run_turn.go saves history ++ new; web_bus.go:94-95).                   *)
(***************************************************************************)
HistoryStep(s) ==
  \/ file'[s] = file[s]
  \/ file'[s] = NoFile
  \/ \E t \in Turns : file'[s] = [exists |-> TRUE, turns |-> Append(file[s].turns, t)]
HistoryGrows == [][\A s \in Sessions : HistoryStep(s)]_vars

(***************************************************************************)
(* Every exit of handleTurn gives back exactly the token it took, so       *)
(* turnSem never drains below the handlers that are really present.        *)
(***************************************************************************)
TokensConserved ==
  tokens = IF MaxConcurrent = 0 THEN 0
           ELSE Cardinality({t \in Turns : HoldsToken(t)})

(***************************************************************************)
(* The inductive strengthening of the three invariants above: a party that *)
(* is active on a session owns its slot; the two threads of a turn are in  *)
(* compatible phases; a history that was loaded and will be rewritten is   *)
(* still the one in the file.                                              *)
(***************************************************************************)
SlotOwned ==
  \A p \in Busy : target[p] \in Sessions /\ registry[target[p]] = p

PhasesAgree ==
  \A t \in Turns :
    /\ handler[t] \in {"idle", "register", "announce"} => engine[t] = "none"
    /\ handler[t] # "idle" /\ engine[t] # "ended" => target[t] \in Sessions

LoadedIsCurrent ==
  \A t \in Turns :
    engine[t] \in {"setup", "run", "save"} => loaded[t] = file[target[t]].turns

IInv == TypeOK /\ SlotOwned /\ PhasesAgree /\ LoadedIsCurrent /\ TokensConserved

(***************************************************************************)
(* A stop answered 204 ends the turn it looked up and frees its session,   *)
(* without waiting for a timeout (D1's explicit stop, web_sessions.go:240) *)
(***************************************************************************)
StopEndsTurn ==
  \A x \in Stops, t \in Turns :
    stopper[x] = "stopped" /\ victim[x] = t ~> engine[t] = "ended"

(***************************************************************************)
(* No path leaks a slot: with finitely many requests, and turn deadlines   *)
(* that fire, every session is eventually free for good, whatever failed   *)
(* or was stopped (web_bus.go:92).                                         *)
(***************************************************************************)
SlotsDrain == Timers => <>[](\A s \in Sessions : registry[s] = NoEntry)

(***************************************************************************)
(* web.max_concurrent_turns bounds the turns that run at the same time     *)
(* ("同时运行的 web 轮次上限", README.md:145).                                *)
(***************************************************************************)
RunningTurnsBounded ==
  MaxConcurrent > 0 =>
    Cardinality({t \in Turns : engine[t] \in {"load", "setup", "run", "save", "terminal"}})
      <= MaxConcurrent

(***************************************************************************)
(* What the session file holds and what the running entry replays never    *)
(* overlap, so a client that shows both needs no deduplication             *)
(* (.agent/L2/decisions/webui-architecture.md section 9).                  *)
(***************************************************************************)
ReplayDisjointFromLive ==
  \A s \in Sessions :
    registry[s] \in Turns =>
      \A i \in 1..Len(file[s].turns) : file[s].turns[i] # registry[s]
=============================================================================
