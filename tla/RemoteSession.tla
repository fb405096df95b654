---------------------------- MODULE RemoteSession ----------------------------
(***************************************************************************)
(* Session storage over HTTP, the branch taken when session.url is set:    *)
(* Client of miniagent/session/client.go, resolveSessionRemote and         *)
(* saveSessionRemote of cmd/miniagent/session_remote.go, the load and the  *)
(* save of a turn (run_turn.go) and deleteSessionRemote.                   *)
(*                                                                         *)
(* Several machines continue one session.  The server is not part of the   *)
(* repository: it is modelled from what the client sends and accepts.      *)
(* Every request is one call at a time per machine; the client gives up    *)
(* after 30 seconds or when its context ends, whether or not the server    *)
(* has acted, and a request it gave up may still reach the server (Late).  *)
(* A context that ends during the load is one more request given up.       *)
(* A turn adds one message; what compaction drops is left out.             *)
(***************************************************************************)
EXTENDS Naturals, Sequences, SequencesExt, FiniteSets

CONSTANTS
  Machines,    \* clients of the session
  MaxTurns,    \* bound: turns
  MaxLosses,   \* bound: requests given up
  PageSize,    \* 1000 in the code
  Guarded,     \* TRUE: machines take turns; nothing in the code sees to it
  Late,        \* TRUE: the server may act on a request the client gave up
  Stops,       \* TRUE: the turn's context may be cancelled
  Absent       \* no such session

\* Pages are not empty, and a missing session is not a transcript.
ASSUME RemoteSessionAssumption ==
  /\ PageSize \in Nat \ {0} /\ MaxTurns \in Nat /\ MaxLosses \in Nat
  /\ {Guarded, Late, Stops} \subseteq BOOLEAN
  /\ Absent \notin Seq(Machines \X Nat)

NoCall == [verb |-> "none"]

VARIABLES
  stored,      \* the server's transcript, or Absent
  at,          \* machine -> where its turn is
  call,        \* machine -> its request in flight
  answer,      \* machine -> the server's answer to it
  got,         \* machine -> messages loaded; from the save on, those to save
  cancelled,   \* machine -> its context is cancelled
  late,        \* requests given up by their client
  turns,       \* turns begun
  losses,      \* requests given up
  acked,       \* messages whose save returned nil
  unsaved      \* a turn that executed something ended without saving it

remoteVars ==
  <<stored, at, call, answer, got, cancelled, late, turns, losses, acked, unsaved>>

RemoteInit ==
  /\ stored = Absent
  /\ at = [m \in Machines |-> "idle"]
  /\ call = [m \in Machines |-> NoCall]
  /\ answer = [m \in Machines |-> NoCall]
  /\ got = [m \in Machines |-> <<>>]
  /\ cancelled = [m \in Machines |-> FALSE]
  /\ late = {}
  /\ turns = 0
  /\ losses = 0
  /\ acked = {}
  /\ unsaved = FALSE

(***************************************************************************)
(* The server.                                                             *)
(***************************************************************************)
Status(c) ==
  CASE c.verb = "create" -> IF stored = Absent THEN 201 ELSE 409
    [] c.verb \in {"meta", "page", "put", "delete"} ->
         IF stored = Absent THEN 404 ELSE 200

Page(offset) ==
  SubSeq(stored, offset + 1,
         IF Len(stored) < offset + PageSize THEN Len(stored) ELSE offset + PageSize)

AfterCall(c) ==
  CASE c.verb = "create" /\ stored = Absent -> <<>>
    [] c.verb = "put" /\ stored # Absent -> c.body
    [] c.verb = "delete" -> Absent
    [] OTHER -> stored

Handle(c) == stored' = AfterCall(c)

Serve(m) ==
  /\ call[m] # NoCall /\ answer[m] = NoCall
  /\ Handle(call[m])
  /\ answer' = [answer EXCEPT ![m] =
       [verb |-> "answer", status |-> Status(call[m]),
        page |-> IF call[m].verb = "page" /\ stored # Absent
                 THEN Page(call[m].offset) ELSE <<>>]]
  /\ acked' = IF call[m].verb = "delete" THEN {} ELSE acked
  /\ UNCHANGED <<at, call, got, cancelled, late, turns, losses, unsaved>>

ServeLate ==
  /\ \E c \in late : Handle(c) /\ late' = late \ {c}
  /\ UNCHANGED <<at, call, answer, got, cancelled, turns, losses, acked, unsaved>>

(***************************************************************************)
(* Client.do: one request; without an answer, an error.                    *)
(***************************************************************************)
Request(m, c, step) ==
  /\ call' = [call EXCEPT ![m] = c]
  /\ at' = [at EXCEPT ![m] = step]

Hang(m) == call' = [call EXCEPT ![m] = NoCall] /\ answer' = [answer EXCEPT ![m] = NoCall]

Saving == {"put", "create", "reput"}

\* The turn is over: saved or not, its machine is free for the next one.
Over(m) ==
  /\ at' = [at EXCEPT ![m] = "idle"]
  /\ got' = [got EXCEPT ![m] = <<>>]
  /\ cancelled' = [cancelled EXCEPT ![m] = FALSE]

StartTurn(m) ==
  /\ at[m] = "idle"
  /\ Guarded => \A n \in Machines : at[n] = "idle"
  /\ turns < MaxTurns
  /\ turns' = turns + 1
  /\ Request(m, [verb |-> "meta"], "meta")
  /\ UNCHANGED <<stored, answer, got, cancelled, late, losses, acked, unsaved>>

\* The handler of the web server; beginDelete only keeps the machine's own
\* turns out.
StartDelete(m) ==
  /\ at[m] = "idle"
  /\ Guarded => \A n \in Machines : at[n] = "idle"
  /\ stored # Absent
  /\ turns < MaxTurns
  /\ turns' = turns + 1
  /\ Request(m, [verb |-> "delete"], "delete")
  /\ UNCHANGED <<stored, answer, got, cancelled, late, losses, acked, unsaved>>

\* Mutant: the offset counts from one.
NextPageFromOne(m, ms) ==
  /\ Request(m, [verb |-> "page", offset |-> Len(ms) + 1], "page")
  /\ got' = [got EXCEPT ![m] = ms]

NextPage(m, ms) ==
  /\ Request(m, [verb |-> "page", offset |-> Len(ms)], "page")
  /\ got' = [got EXCEPT ![m] = ms]

\* LoadSession: the metadata, then pages until one is short.  resolveSession-
\* Remote turns a 404 into a new session when the run saves a new one.
LoadStep(m, saveNew) ==
  /\ at[m] \in {"meta", "page"}
  /\ answer[m] # NoCall
  /\ answer' = [answer EXCEPT ![m] = NoCall]
  /\ LET a == answer[m]
         ms == got[m] \o a.page
     IN \/ /\ a.status = 200
           /\ \/ /\ at[m] = "meta" \/ Len(a.page) = PageSize
                 /\ NextPage(m, ms)
                 /\ UNCHANGED cancelled
              \/ /\ at[m] = "page" /\ Len(a.page) < PageSize
                 /\ at' = [at EXCEPT ![m] = "run"]
                 /\ got' = [got EXCEPT ![m] = ms]
                 /\ call' = [call EXCEPT ![m] = NoCall]
                 /\ UNCHANGED cancelled
        \/ /\ a.status = 404 /\ saveNew
           /\ at' = [at EXCEPT ![m] = "run"]
           /\ got' = [got EXCEPT ![m] = <<>>]
           /\ call' = [call EXCEPT ![m] = NoCall]
           /\ UNCHANGED cancelled
        \/ /\ a.status = 404 /\ ~saveNew
           /\ call' = [call EXCEPT ![m] = NoCall]
           /\ Over(m)
  /\ UNCHANGED <<stored, late, turns, losses, acked, unsaved>>

\* The agent loop ends, with a message to keep (its number names the turn).
\* A context that is already cancelled fails the request before it is sent.
Message(m) == <<m, turns>>
Put(m, ms) == [verb |-> "put", body |-> ms]

RunEnds(m) ==
  /\ at[m] = "run"
  /\ IF cancelled[m]
     THEN /\ Over(m)
          /\ unsaved' = TRUE
          /\ UNCHANGED call
     ELSE LET ms == Append(got[m], Message(m)) IN
          /\ got' = [got EXCEPT ![m] = ms]
          /\ Request(m, Put(m, ms), "put")
          /\ UNCHANGED <<cancelled, unsaved>>
  /\ UNCHANGED <<stored, answer, late, turns, losses, acked>>

\* saveSessionRemote: PUT, and on 404 POST and PUT again.
SaveStep(m) ==
  /\ at[m] \in Saving
  /\ answer[m] # NoCall
  /\ answer' = [answer EXCEPT ![m] = NoCall]
  /\ \/ /\ at[m] \in {"put", "reput"} /\ answer[m].status = 200
        /\ acked' = acked \cup {Last(got[m])}
        /\ call' = [call EXCEPT ![m] = NoCall]
        /\ Over(m)
        /\ UNCHANGED unsaved
     \/ /\ at[m] = "put" /\ answer[m].status = 404 /\ ~cancelled[m]
        /\ Request(m, [verb |-> "create"], "create")
        /\ UNCHANGED <<got, cancelled, acked, unsaved>>
     \/ /\ at[m] = "create" /\ answer[m].status = 201 /\ ~cancelled[m]
        /\ Request(m, Put(m, got[m]), "reput")
        /\ UNCHANGED <<got, cancelled, acked, unsaved>>
     \/ /\ \/ at[m] = "reput" /\ answer[m].status # 200
           \/ at[m] = "create" /\ answer[m].status # 201
           \/ at[m] \in {"put", "create"} /\ answer[m].status # 200 /\ cancelled[m]
        /\ call' = [call EXCEPT ![m] = NoCall]
        /\ unsaved' = TRUE
        /\ Over(m)
        /\ UNCHANGED acked
  /\ UNCHANGED <<stored, late, turns, losses>>

DeleteStep(m) ==
  /\ at[m] = "delete"
  /\ answer[m] # NoCall
  /\ Hang(m)
  /\ Over(m)
  /\ UNCHANGED <<stored, late, turns, losses, acked, unsaved>>

\* The request fails: no connection, a 500, 30 seconds, a cancelled context.
\* The server has acted on it, will never see it, or is still to act on it.
GiveUp(m) ==
  /\ call[m] # NoCall
  /\ losses < MaxLosses \/ cancelled[m]
  /\ losses' = IF cancelled[m] THEN losses ELSE losses + 1
  /\ late' \in {late} \cup IF Late /\ answer[m] = NoCall
                           THEN {late \cup {call[m]}} ELSE {}
  /\ unsaved' = (unsaved \/ at[m] \in Saving)
  /\ Hang(m)
  /\ Over(m)
  /\ UNCHANGED <<stored, turns, acked>>

\* The stop button, or SIGINT.
Cancel(m) ==
  /\ Stops
  /\ at[m] \in {"run"} \cup Saving
  /\ ~cancelled[m]
  /\ cancelled' = [cancelled EXCEPT ![m] = TRUE]
  /\ UNCHANGED <<stored, at, call, answer, got, late, turns, losses, acked, unsaved>>

RemoteNext ==
  \/ \E m \in Machines :
       \/ StartTurn(m) \/ StartDelete(m)
       \/ \E saveNew \in BOOLEAN : LoadStep(m, saveNew)
       \/ RunEnds(m) \/ SaveStep(m) \/ DeleteStep(m)
       \/ Serve(m) \/ GiveUp(m) \/ Cancel(m)

RemoteSpec == RemoteInit /\ [][RemoteNext]_remoteVars

(***************************************************************************)
(* Properties.                                                             *)
(***************************************************************************)

\* What a save acknowledged stays: whatever requests and answers are lost, each
\* later turn, on whichever machine, loads all of it and writes all of it back,
\* and nothing is stored twice.  A load that stopped early would make the loss
\* permanent with the next rewrite (client.go:66).  It needs Guarded, and a server that
\* serves no request after its client gave it up.
AckedTurnsStay ==
  stored # Absent =>
    /\ acked \subseteq {stored[i] : i \in 1..Len(stored)}
    /\ Cardinality({stored[i] : i \in 1..Len(stored)}) = Len(stored)

\* run_turn.go:174: the executed part is persisted on success, error and cancel
\* paths.  It fails: the request carries the context that the stop cancelled.
ExecutedPartIsSaved == unsaved => losses > 0

\* A deleted session stays deleted until a run starts a new one.  It fails on
\* another machine's turn: its PUT meets a 404 and creates the session again.
NotResurrected ==
  [][ stored = Absent /\ stored' # Absent =>
        \A m \in Machines : at[m] = "create" => Len(got[m]) = 1 ]_remoteVars
=============================================================================
