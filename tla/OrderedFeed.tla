---------------------------- MODULE OrderedFeed ----------------------------
(***************************************************************************)
(* What the turn bus promises its readers (web_bus.go:1-9), without saying *)
(* how: a log that grows until the turn is over; a reader that joins is    *)
(* told how much of the log's head is gone, which is exactly what a window *)
(* of the last lines cannot hold, and from there receives every line once, *)
(* in order, until it leaves.  TurnStream implements it.                   *)
(***************************************************************************)
EXTENDS Naturals, Sequences

CONSTANTS Readers, Window

VARIABLES
  log,    \* lines emitted
  over,   \* no more lines will be
  from,   \* lines missing at the head of what a reader gets
  got,    \* lines a reader received
  place   \* "out", "in" or "left"

vars == <<log, over, from, got, place>>

Init ==
  /\ log = 0
  /\ over = FALSE
  /\ from = [x \in Readers |-> 0]
  /\ got = [x \in Readers |-> <<>>]
  /\ place \in [Readers -> {"out"}]

Emit ==
  /\ ~over
  /\ log' = log + 1
  /\ UNCHANGED <<over, from, got, place>>

EndTurn ==
  /\ ~over
  /\ over' = TRUE
  /\ UNCHANGED <<log, from, got, place>>

Join(x) ==
  /\ place[x] = "out"
  /\ place' = [place EXCEPT ![x] = "in"]
  /\ from' = [from EXCEPT ![x] = IF log > Window THEN log - Window ELSE 0]
  /\ UNCHANGED <<log, over, got>>

Deliver(x) ==
  /\ place[x] = "in"
  /\ from[x] + Len(got[x]) < log
  /\ got' = [got EXCEPT ![x] = Append(@, from[x] + Len(@) + 1)]
  /\ UNCHANGED <<log, over, from, place>>

Depart(x) ==
  /\ place[x] # "left"
  /\ place' = [place EXCEPT ![x] = "left"]
  /\ UNCHANGED <<log, over, from, got>>

Next ==
  \/ Emit \/ EndTurn
  \/ \E x \in Readers : Join(x) \/ Deliver(x) \/ Depart(x)

Spec == Init /\ [][Next]_vars
=============================================================================
