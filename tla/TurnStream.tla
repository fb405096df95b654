----------------------------- MODULE TurnStream -----------------------------
(***************************************************************************)
(* The event bus of one turn: cmd/miniagent/web_bus.go (turnEntry), the    *)
(* handler of POST /api/turn, which mirrors the turn to the client that    *)
(* started it (web_turn.go), and the handlers of                           *)
(* GET /api/sessions/{id}/live, which attach to it (web_live.go).          *)
(*                                                                         *)
(* The engine emits one NDJSON line per Write (event.go encodes one value  *)
(* per call), so a line is named by its index in the turn's output and     *)
(* turnEntry.partial is empty between Writes.  e.mu is not a variable: an  *)
(* action is a critical section, and `closing` marks finish half-way       *)
(* through its own, when nobody else can enter one.                        *)
(***************************************************************************)
EXTENDS Naturals, Sequences

CONSTANTS
  Poster,    \* the request that started the turn (handleTurn)
  Watchers,  \* GET .../live requests (handleSessionLive)
  MaxLines,  \* bound on the lines the turn emits
  BufCap,    \* maxTurnBufferEvents
  ChanCap    \* turnSubchanBuffer

ASSUME StreamAssumption ==
  /\ MaxLines \in Nat
  /\ BufCap \in Nat \ {0}
  /\ ChanCap \in Nat \ {0}
  /\ Poster \notin Watchers

Readers == Watchers \cup {Poster}

VARIABLES
  phase,      \* the engine: "running", "released", "closing", "closed" (done closed)
  total,      \* the lines this turn will emit
  lines,      \* lines written so far
  buf,        \* turnEntry.buf
  dropped,    \* turnEntry.dropped
  subs,       \* turnEntry.subs: readers the fan-out writes to
  chan,       \* the lines in a reader's channel
  open,       \* the reader's channel is not closed
  pc,         \* program counter of a reader's handler
  replay,     \* snapshot lines the handler has not written yet
  skipped,    \* the drop count a reader was told (live_truncated)
  seen,       \* the lines a reader's client has received
  ending,     \* how the reader's response ended
  connected   \* the request context is alive (and, for a watcher, the server's)

entryVars  == <<phase, total, lines, buf, dropped>>
readerVars == <<pc, replay, skipped, seen, ending>>
vars == <<entryVars, subs, chan, open, readerVars, connected>>

Phases  == {"running", "released", "closing", "closed"}
PCs     == {"idle", "attach", "first", "replay", "follow", "check", "status", "gone"}
Endings == {"none", "absent", "status", "clean", "cut", "left"}

Init ==
  /\ phase = "running"
  /\ total \in 0..MaxLines
  /\ lines = 0
  /\ buf = <<>>
  /\ dropped = 0
  /\ subs = {}
  /\ chan = [x \in Readers |-> <<>>]
  /\ open = [x \in Readers |-> TRUE]
  /\ pc = [x \in Readers |-> IF x = Poster THEN "attach" ELSE "idle"]
  /\ replay = [x \in Readers |-> <<>>]
  /\ skipped = [x \in Readers |-> 0]
  /\ seen = [x \in Readers |-> <<>>]
  /\ ending = [x \in Readers |-> "none"]
  /\ connected = [x \in Readers |-> TRUE]

-----------------------------------------------------------------------------
(* The turn goroutine.                                                     *)

Unlocked == phase # "closing"

\* Subscribers whose channel is full when a line arrives: the fan-out closes them.
Lagging == {x \in subs : Len(chan[x]) >= ChanCap}

\* Mutants of Write: a lagging subscriber just misses the line; an eviction is not
\* counted; the engine waits for room.
WriteSkipsLagging ==
  /\ phase = "running" /\ lines < total
  /\ lines' = lines + 1
  /\ buf' = Append(IF Len(buf) < BufCap THEN buf ELSE Tail(buf), lines')
  /\ dropped' = IF Len(buf) < BufCap THEN dropped ELSE dropped + 1
  /\ chan' = [x \in Readers |->
                IF x \in subs \ Lagging THEN Append(chan[x], lines') ELSE chan[x]]
  /\ UNCHANGED <<phase, total, open, subs, readerVars, connected>>

WriteUncounted ==
  /\ phase = "running" /\ lines < total
  /\ lines' = lines + 1
  /\ buf' = Append(IF Len(buf) < BufCap THEN buf ELSE Tail(buf), lines')
  /\ chan' = [x \in Readers |->
                IF x \in subs \ Lagging THEN Append(chan[x], lines') ELSE chan[x]]
  /\ open' = [x \in Readers |-> open[x] /\ x \notin Lagging]
  /\ subs' = subs \ Lagging
  /\ UNCHANGED <<phase, total, dropped, readerVars, connected>>

WriteBlocks ==
  /\ phase = "running" /\ lines < total
  /\ Lagging = {}
  /\ lines' = lines + 1
  /\ buf' = Append(IF Len(buf) < BufCap THEN buf ELSE Tail(buf), lines')
  /\ dropped' = IF Len(buf) < BufCap THEN dropped ELSE dropped + 1
  /\ chan' = [x \in Readers |-> IF x \in subs THEN Append(chan[x], lines') ELSE chan[x]]
  /\ UNCHANGED <<phase, total, open, subs, readerVars, connected>>

\* turnEntry.Write: buffer the line, evict the oldest beyond BufCap, fan out.
Write ==
  /\ phase = "running"
  /\ lines < total
  /\ lines' = lines + 1
  /\ \/ /\ Len(buf) < BufCap
        /\ buf' = Append(buf, lines')
        /\ UNCHANGED dropped
     \/ /\ Len(buf) >= BufCap
        /\ buf' = Append(Tail(buf), lines')
        /\ dropped' = dropped + 1
  /\ chan' = [x \in Readers |->
                IF x \in subs \ Lagging THEN Append(chan[x], lines') ELSE chan[x]]
  /\ open' = [x \in Readers |-> open[x] /\ x \notin Lagging]
  /\ subs' = subs \ Lagging
  /\ UNCHANGED <<phase, total, readerVars, connected>>

\* runTurn returned; finish removes the entry from the registry (r.mu).
Release ==
  /\ phase = "running" /\ lines = total
  /\ phase' = "released"
  /\ UNCHANGED <<total, lines, buf, dropped, subs, chan, open, readerVars, connected>>

\* Mutant: finish forgets the subscribers.
CloseSubsForgets ==
  /\ phase = "released"
  /\ phase' = "closing"
  /\ UNCHANGED <<total, lines, buf, dropped, subs, chan, open, readerVars, connected>>

\* finish under e.mu: first every subscriber channel is closed ...
CloseSubs ==
  /\ phase = "released"
  /\ phase' = "closing"
  /\ open' = [x \in Readers |-> open[x] /\ x \notin subs]
  /\ subs' = {}
  /\ UNCHANGED <<total, lines, buf, dropped, chan, readerVars, connected>>

\* ... then done.
CloseDone ==
  /\ phase = "closing"
  /\ phase' = "closed"
  /\ UNCHANGED <<total, lines, buf, dropped, subs, chan, open, readerVars, connected>>

-----------------------------------------------------------------------------
(* The handlers.                                                           *)

\* GET .../live: registry lookup, before the subscription.
Lookup(x) ==
  /\ pc[x] = "idle"
  /\ \/ /\ phase = "running"
        /\ pc' = [pc EXCEPT ![x] = "attach"]
        /\ UNCHANGED ending
     \/ /\ phase # "running"
        /\ pc' = [pc EXCEPT ![x] = "gone"]
        /\ ending' = [ending EXCEPT ![x] = "absent"]
  /\ UNCHANGED <<entryVars, subs, chan, open, replay, skipped, seen, connected>>

\* Mutants of Subscribe: registered after the snapshot's lock is gone, so that a
\* line may fall in between (here: the last one); no live_truncated marker.
SubscribeLate(x) ==
  /\ pc[x] = "attach"
  /\ Unlocked /\ phase # "closed"
  /\ subs' = subs \cup {x}
  /\ replay' = [replay EXCEPT ![x] = IF buf = <<>> THEN buf ELSE SubSeq(buf, 1, Len(buf) - 1)]
  /\ skipped' = [skipped EXCEPT ![x] = dropped]
  /\ pc' = [pc EXCEPT ![x] = IF x = Poster /\ replay'[x] = <<>> THEN "first" ELSE "replay"]
  /\ UNCHANGED <<entryVars, chan, open, seen, ending, connected>>

SubscribeUntold(x) ==
  /\ pc[x] = "attach"
  /\ Unlocked /\ phase # "closed"
  /\ subs' = subs \cup {x}
  /\ replay' = [replay EXCEPT ![x] = buf]
  /\ pc' = [pc EXCEPT ![x] = IF x = Poster /\ buf = <<>> THEN "first" ELSE "replay"]
  /\ UNCHANGED <<entryVars, chan, open, skipped, seen, ending, connected>>

\* turnEntry.subscribe of an entry that is not done.  handleTurn with an empty
\* snapshot waits for the first line before it answers 200.
Subscribe(x) ==
  /\ pc[x] = "attach"
  /\ Unlocked /\ phase # "closed"
  /\ subs' = subs \cup {x}
  /\ replay' = [replay EXCEPT ![x] = buf]
  /\ skipped' = [skipped EXCEPT ![x] = dropped]
  /\ pc' = [pc EXCEPT ![x] = IF x = Poster /\ buf = <<>> THEN "first" ELSE "replay"]
  /\ UNCHANGED <<entryVars, chan, open, seen, ending, connected>>

\* subscribe of a done entry: a status reply (handleTurn), live_end (handleSessionLive).
SubscribeDone(x) ==
  /\ pc[x] = "attach"
  /\ phase = "closed"
  /\ pc' = [pc EXCEPT ![x] = "gone"]
  /\ ending' = [ending EXCEPT ![x] = IF x = Poster THEN "status" ELSE "absent"]
  /\ UNCHANGED <<entryVars, subs, chan, open, replay, skipped, seen, connected>>

\* handleTurn's wait for the first line, which no disconnect interrupts.
FirstLine(x) ==
  /\ pc[x] = "first"
  /\ chan[x] # <<>>
  /\ replay' = [replay EXCEPT ![x] = <<Head(chan[x])>>]
  /\ chan' = [chan EXCEPT ![x] = Tail(@)]
  /\ pc' = [pc EXCEPT ![x] = "replay"]
  /\ UNCHANGED <<entryVars, subs, open, skipped, seen, ending, connected>>

FirstClosed(x) ==
  /\ pc[x] = "first"
  /\ chan[x] = <<>> /\ ~open[x]
  /\ pc' = [pc EXCEPT ![x] = "status"]
  /\ UNCHANGED <<entryVars, subs, chan, open, replay, skipped, seen, ending, connected>>

\* turnEntry.result blocks until done, then writeTurnError answers with a status.
StatusReply(x) ==
  /\ pc[x] = "status"
  /\ phase = "closed"
  /\ pc' = [pc EXCEPT ![x] = "gone"]
  /\ ending' = [ending EXCEPT ![x] = "status"]
  /\ UNCHANGED <<entryVars, subs, chan, open, replay, skipped, seen, connected>>

\* Write one snapshot line to the client; after the last, follow the channel.
ReplayLine(x) ==
  /\ pc[x] = "replay" /\ replay[x] # <<>>
  /\ seen' = [seen EXCEPT ![x] = Append(@, Head(replay[x]))]
  /\ replay' = [replay EXCEPT ![x] = Tail(@)]
  /\ UNCHANGED <<entryVars, subs, chan, open, pc, skipped, ending, connected>>

ReplayDone(x) ==
  /\ pc[x] = "replay" /\ replay[x] = <<>>
  /\ pc' = [pc EXCEPT ![x] = "follow"]
  /\ UNCHANGED <<entryVars, subs, chan, open, replay, skipped, seen, ending, connected>>

FollowLine(x) ==
  /\ pc[x] = "follow"
  /\ chan[x] # <<>>
  /\ seen' = [seen EXCEPT ![x] = Append(@, Head(chan[x]))]
  /\ chan' = [chan EXCEPT ![x] = Tail(@)]
  /\ UNCHANGED <<entryVars, subs, open, pc, replay, skipped, ending, connected>>

\* The channel is closed and drained: by the end of the turn or by the fan-out?
FollowClosed(x) ==
  /\ pc[x] = "follow"
  /\ chan[x] = <<>> /\ ~open[x]
  /\ pc' = [pc EXCEPT ![x] = "check"]
  /\ UNCHANGED <<entryVars, subs, chan, open, replay, skipped, seen, ending, connected>>

CheckDone(x) ==
  /\ pc[x] = "check"
  /\ pc' = [pc EXCEPT ![x] = "gone"]
  /\ ending' = [ending EXCEPT ![x] = IF phase = "closed" THEN "clean" ELSE "cut"]
  /\ UNCHANGED <<entryVars, subs, chan, open, replay, skipped, seen, connected>>

\* The client is gone: a failed write, or the select on its context; the
\* deferred unsubscribe takes e.mu.
Leave(x) ==
  /\ pc[x] \in {"replay", "follow"}
  /\ ~connected[x]
  /\ Unlocked
  /\ pc' = [pc EXCEPT ![x] = "gone"]
  /\ ending' = [ending EXCEPT ![x] = "left"]
  /\ subs' = subs \ {x}
  /\ UNCHANGED <<entryVars, chan, open, replay, skipped, seen, connected>>

Disconnect(x) ==
  /\ connected[x]
  /\ pc[x] # "gone"
  /\ connected' = [connected EXCEPT ![x] = FALSE]
  /\ UNCHANGED <<entryVars, subs, chan, open, readerVars>>

-----------------------------------------------------------------------------
Engine == Write \/ Release \/ CloseSubs \/ CloseDone

Handle(x) ==
  \/ Subscribe(x) \/ SubscribeDone(x)
  \/ FirstLine(x) \/ FirstClosed(x) \/ StatusReply(x)
  \/ ReplayLine(x) \/ ReplayDone(x)
  \/ FollowLine(x) \/ FollowClosed(x) \/ CheckDone(x)
  \/ Leave(x)

Next ==
  \/ Engine
  \/ \E x \in Readers : Handle(x) \/ Disconnect(x)
  \/ \E x \in Watchers : Lookup(x)

Spec == Init /\ [][Next]_vars

\* The turn goroutine is scheduled; the handlers' goroutines and their clients
\* are left to chance ...
FairSpec == Spec /\ WF_vars(Engine)

\* ... but for the properties that need clients that read what is written to
\* them.
ReadersServed == \A x \in Readers : WF_vars(Handle(x))

-----------------------------------------------------------------------------
(* Properties.                                                             *)

ChannelsFit == \A x \in Readers : Len(chan[x]) <= ChanCap

StateTypes ==
  /\ phase \in Phases
  /\ total \in Nat /\ lines \in Nat /\ dropped \in Nat
  /\ buf \in Seq(Nat)
  /\ subs \subseteq Readers
  /\ chan \in [Readers -> Seq(Nat)]
  /\ open \in [Readers -> BOOLEAN]
  /\ pc \in [Readers -> PCs]
  /\ replay \in [Readers -> Seq(Nat)]
  /\ skipped \in [Readers -> Nat]
  /\ seen \in [Readers -> Seq(Nat)]
  /\ ending \in [Readers -> Endings]
  /\ connected \in [Readers -> BOOLEAN]

\* Every variable has its type, and no channel holds more than it can.
TypeOK == StateTypes /\ ChannelsFit

\* The last line that is known to a reader's client, in its snapshot, in its channel.
Delivered(x)   == skipped[x] + Len(seen[x])
Snapshotted(x) == Delivered(x) + Len(replay[x])
Accounted(x)   == Snapshotted(x) + Len(chan[x])

\* s holds the lines first, first + 1, ... in order.
RunOfLines(s, first) == \A i \in 1..Len(s) : s[i] = first + i - 1

(***************************************************************************)
(* What a client has received is a run of consecutive lines that starts    *)
(* right after the drop count it was told: no gap, no duplicate, nothing   *)
(* out of order between replay and live ("which makes subscribe's          *)
(* snapshot+register atomic", web_bus.go:140).                             *)
(***************************************************************************)
NoGapNoDuplicate == \A x \in Readers : RunOfLines(seen[x], skipped[x] + 1)

(***************************************************************************)
(* A reader the fan-out still serves can account for every line of the     *)
(* turn: told as dropped, received, in its snapshot or in its channel, so  *)
(* only a lagging reader ever loses a line (web_bus.go:24-28).             *)
(***************************************************************************)
SubscribersWhole == \A x \in subs : Accounted(x) = lines

(***************************************************************************)
(* The entry's buffer is the unbroken tail of the turn, of bounded size.   *)
(***************************************************************************)
BufferIsTail ==
  /\ dropped + Len(buf) = lines
  /\ Len(buf) <= BufCap
  /\ dropped > 0 => Len(buf) = BufCap
  /\ RunOfLines(buf, dropped + 1)

(***************************************************************************)
(* Where the unread lines of a reader are: the snapshot continues what the *)
(* client has seen, the channel continues the snapshot, and both are empty *)
(* where the handler has nothing to read from them.                        *)
(***************************************************************************)
QueuesContinue ==
  \A x \in Readers :
    /\ RunOfLines(replay[x], Delivered(x) + 1)
    /\ RunOfLines(chan[x], Snapshotted(x) + 1)
    /\ Accounted(x) <= lines

HandlersAgree ==
  \A x \in Readers :
    /\ pc[x] \in {"idle", "attach"} =>
         /\ x \notin subs /\ open[x]
         /\ skipped[x] = 0 /\ seen[x] = <<>> /\ replay[x] = <<>> /\ chan[x] = <<>>
    /\ pc[x] = "first" => replay[x] = <<>> /\ seen[x] = <<>> /\ skipped[x] = 0
    /\ pc[x] \in {"follow", "check"} => replay[x] = <<>>

IInv == /\ TypeOK /\ NoGapNoDuplicate /\ SubscribersWhole
        /\ BufferIsTail /\ QueuesContinue /\ HandlersAgree

(***************************************************************************)
(* Refinement of OrderedFeed: the promise of the bus, without channels,    *)
(* snapshots or critical sections.                                         *)
(***************************************************************************)
Feed == INSTANCE OrderedFeed WITH
  Window <- BufCap,
  log    <- lines,
  over   <- phase # "running",
  from   <- skipped,
  got    <- seen,
  place  <- [x \in Readers |->
               IF pc[x] \in {"idle", "attach"} THEN "out"
               ELSE IF pc[x] = "gone" THEN "left" ELSE "in"]

ImplementsFeed == Feed!Spec

(***************************************************************************)
(* No reader can hold the turn up: whatever the handlers and their clients *)
(* do, the engine writes all its lines and finish completes ("a dead       *)
(* subscriber must never be allowed to kill the engine", web_bus.go:7).    *)
(***************************************************************************)
EngineNeverHeldUp == <>(phase = "closed" /\ lines = total)

(***************************************************************************)
(* Every served response ends: a handler never waits for a channel         *)
(* that nobody will write to or close again (web_bus.go:92-95).            *)
(***************************************************************************)
ResponsesEnd ==
  ReadersServed => \A x \in Readers : pc[x] # "idle" ~> pc[x] = "gone"

(***************************************************************************)
(* A response that ends as a finished turn has delivered every line        *)
(* ("turn finished: every buffered line has been drained",                 *)
(* web_turn.go:160).                                                       *)
(***************************************************************************)
CleanEndIsComplete ==
  \A x \in Readers : ending[x] = "clean" => Delivered(x) = lines

(***************************************************************************)
(* stream_cut goes to lagging readers: one that has the whole turn is not  *)
(* told it was cut ("written to a lag-closed subscriber", web_bus.go:30).  *)
(***************************************************************************)
CutMeansLagged ==
  \A x \in Readers :
    ending[x] = "cut" => Delivered(x) < lines

(***************************************************************************)
(* The status reply of handleTurn is for turns that streamed nothing       *)
(* ("a turn error that produced no streamed events", web_turn.go:180).     *)
(***************************************************************************)
StatusOnlyWithoutEvents ==
  ending[Poster] = "status" => lines = 0
=============================================================================
