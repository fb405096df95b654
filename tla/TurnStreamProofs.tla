-------------------------- MODULE TurnStreamProofs --------------------------
(***************************************************************************)
(* Proofs about TurnStream: the inductive invariant IInv, its parts, and   *)
(* the refinement of OrderedFeed, for any number of watchers, any turn     *)
(* length and any buffer and channel capacity.                             *)
(***************************************************************************)
EXTENDS TurnStream, TLAPS

(***************************************************************************)
(* Runs of lines.                                                          *)
(***************************************************************************)
\* A run extended by its next line is a run.
LEMMA RunAppend ==
  ASSUME NEW s \in Seq(Nat), NEW first \in Nat, RunOfLines(s, first)
  PROVE  /\ Append(s, first + Len(s)) \in Seq(Nat)
         /\ Len(Append(s, first + Len(s))) = Len(s) + 1
         /\ RunOfLines(Append(s, first + Len(s)), first)
  BY SMTT(30) DEF RunOfLines

\* A run without its first line is the run that starts one later.
LEMMA RunTail ==
  ASSUME NEW s \in Seq(Nat), NEW first \in Nat, RunOfLines(s, first), s # <<>>
  PROVE  /\ Head(s) = first
         /\ Tail(s) \in Seq(Nat)
         /\ Len(Tail(s)) = Len(s) - 1
         /\ RunOfLines(Tail(s), first + 1)
  BY DEF RunOfLines

\* The empty run, and the run of one line.
LEMMA RunBase ==
  ASSUME NEW first \in Nat
  PROVE  /\ RunOfLines(<<>>, first) /\ Len(<<>>) = 0 /\ <<>> \in Seq(Nat)
         /\ RunOfLines(<<first>>, first) /\ Len(<<first>>) = 1 /\ <<first>> \in Seq(Nat)
  BY DEF RunOfLines

-----------------------------------------------------------------------------
\* The conjuncts of IInv that concern one reader.
ReaderOK(x) ==
  /\ RunOfLines(seen[x], skipped[x] + 1)
  /\ x \in subs => Accounted(x) = lines
  /\ RunOfLines(replay[x], Delivered(x) + 1)
  /\ RunOfLines(chan[x], Snapshotted(x) + 1)
  /\ Accounted(x) <= lines
  /\ pc[x] \in {"idle", "attach"} =>
         /\ x \notin subs /\ open[x]
         /\ skipped[x] = 0 /\ seen[x] = <<>> /\ replay[x] = <<>> /\ chan[x] = <<>>
  /\ pc[x] = "first" => replay[x] = <<>> /\ seen[x] = <<>> /\ skipped[x] = 0
  /\ pc[x] \in {"follow", "check"} => replay[x] = <<>>

\* The types of one reader's state.
LEMMA ReaderTypes ==
  ASSUME TypeOK, NEW x \in Readers
  PROVE  /\ seen[x] \in Seq(Nat) /\ replay[x] \in Seq(Nat) /\ chan[x] \in Seq(Nat)
         /\ Len(seen[x]) \in Nat /\ Len(replay[x]) \in Nat /\ Len(chan[x]) \in Nat
         /\ skipped[x] \in Nat /\ lines \in Nat
         /\ Delivered(x) \in Nat /\ Snapshotted(x) \in Nat /\ Accounted(x) \in Nat
<1>1. /\ seen[x] \in Seq(Nat) /\ replay[x] \in Seq(Nat) /\ chan[x] \in Seq(Nat)
      /\ skipped[x] \in Nat /\ lines \in Nat
  BY DEF TypeOK, StateTypes
<1>2. Len(seen[x]) \in Nat /\ Len(replay[x]) \in Nat /\ Len(chan[x]) \in Nat
  BY <1>1
<1>3. Delivered(x) \in Nat
  BY <1>1, <1>2 DEF Delivered
<1>4. Snapshotted(x) \in Nat
  BY <1>2, <1>3 DEF Snapshotted
<1>5. Accounted(x) \in Nat
  BY <1>2, <1>4 DEF Accounted
<1> QED
  BY <1>1, <1>2, <1>3, <1>4, <1>5

\* What the client gets next extends what it has.
LEMMA SeenGrows ==
  ASSUME TypeOK, NEW x \in Readers, RunOfLines(seen[x], skipped[x] + 1)
  PROVE  LET s == Append(seen[x], Delivered(x) + 1)
         IN  Len(s) = Len(seen[x]) + 1 /\ RunOfLines(s, skipped[x] + 1)
<1> DEFINE first == skipped[x] + 1
<1>1. first \in Nat /\ Delivered(x) + 1 = first + Len(seen[x])
  BY ReaderTypes DEF Delivered
<1>2. seen[x] \in Seq(Nat) /\ RunOfLines(seen[x], first)
  BY ReaderTypes
<1>3. /\ Len(Append(seen[x], first + Len(seen[x]))) = Len(seen[x]) + 1
      /\ RunOfLines(Append(seen[x], first + Len(seen[x])), first)
  <2> HIDE DEF first
  <2> QED
    BY <1>1, <1>2, RunAppend
<1> QED
  BY <1>1, <1>3

LEMMA ReaderByReader ==
  ASSUME TypeOK
  PROVE  IInv <=> BufferIsTail /\ \A x \in Readers : ReaderOK(x)
  BY DEF IInv, ReaderOK, TypeOK, StateTypes, NoGapNoDuplicate, SubscribersWhole,
         QueuesContinue, HandlersAgree

LEMMA ReaderByReaderNext ==
  ASSUME TypeOK'
  PROVE  IInv' <=> BufferIsTail' /\ \A x \in Readers : ReaderOK(x)'
  BY DEF IInv, ReaderOK, TypeOK, StateTypes, NoGapNoDuplicate, SubscribersWhole,
         QueuesContinue, HandlersAgree

LEMMA Initially == Init => IInv
<1> SUFFICES ASSUME Init PROVE IInv
  OBVIOUS
<1>1. TypeOK
  BY StreamAssumption DEF Init, TypeOK, StateTypes, ChannelsFit, Phases, PCs, Endings, Readers
<1>2. BufferIsTail
  BY StreamAssumption DEF Init, BufferIsTail, RunOfLines
<1>3. ASSUME NEW x \in Readers PROVE ReaderOK(x)
  BY StreamAssumption DEF Init, ReaderOK, RunOfLines, Delivered, Snapshotted, Accounted
<1> QED
  BY <1>1, <1>2, <1>3, ReaderByReader

-----------------------------------------------------------------------------
(* Type correctness of a step.                                             *)

LEMMA Capacities ==
  /\ BufCap \in Nat /\ BufCap >= 1
  /\ ChanCap \in Nat /\ ChanCap >= 1
  /\ MaxLines \in Nat
  BY StreamAssumption

\* What Write does to the replay buffer.
LEMMA WriteBuffers ==
  ASSUME TypeOK, BufferIsTail, Write
  PROVE  /\ lines' = lines + 1 /\ lines' \in Nat /\ dropped' \in Nat
         /\ buf' \in Seq(Nat)
         /\ BufferIsTail'
<1>1. /\ lines \in Nat /\ dropped \in Nat /\ buf \in Seq(Nat) /\ Len(buf) \in Nat
  BY DEF TypeOK, StateTypes
<1>2. lines' = lines + 1
  BY DEF Write
<1>3. /\ dropped + Len(buf) = lines /\ Len(buf) <= BufCap
      /\ dropped > 0 => Len(buf) = BufCap
      /\ RunOfLines(buf, dropped + 1)
  BY DEF BufferIsTail
<1>4. CASE Len(buf) < BufCap
  <2>1. buf' = Append(buf, lines + 1) /\ dropped' = dropped
    BY <1>1, <1>2, <1>4, Capacities DEF Write
  <2> DEFINE first == dropped + 1
  <2>2. first \in Nat /\ lines + 1 = first + Len(buf) /\ RunOfLines(buf, first)
    BY <1>1, <1>3
  <2>3. /\ buf' \in Seq(Nat) /\ Len(buf') = Len(buf) + 1 /\ RunOfLines(buf', first)
    <3> HIDE DEF first
    <3> QED
      BY <1>1, <2>1, <2>2, RunAppend
  <2>4. RunOfLines(buf', dropped' + 1)
    BY <2>1, <2>3
  <2>5. dropped' = 0
    BY <1>1, <1>3, <1>4, <2>1, Capacities
  <2> QED
    BY <1>1, <1>2, <1>3, <1>4, <2>1, <2>3, <2>4, <2>5, Capacities DEF BufferIsTail
<1>5. CASE Len(buf) >= BufCap
  <2>1. buf' = Append(Tail(buf), lines + 1) /\ dropped' = dropped + 1
    BY <1>1, <1>2, <1>5, Capacities DEF Write
  <2>2. Len(buf) = BufCap /\ buf # <<>>
    BY <1>1, <1>3, <1>5, Capacities
  <2> DEFINE first == dropped + 1
             next == first + 1
  <2>3. first \in Nat /\ RunOfLines(buf, first) /\ next \in Nat
    BY <1>1, <1>3
  <2>4. /\ Tail(buf) \in Seq(Nat) /\ Len(Tail(buf)) = Len(buf) - 1
        /\ RunOfLines(Tail(buf), next)
    <3> HIDE DEF first
    <3> QED
      BY <1>1, <2>2, <2>3, RunTail
  <2>5. lines + 1 = next + Len(Tail(buf))
    BY <1>1, <1>3, <2>4
  <2>6. /\ buf' \in Seq(Nat) /\ Len(buf') = Len(Tail(buf)) + 1 /\ RunOfLines(buf', next)
    <3> HIDE DEF next
    <3> QED
      BY <2>1, <2>3, <2>4, <2>5, RunAppend
  <2>7. RunOfLines(buf', dropped' + 1)
    BY <2>1, <2>6
  <2>8. Len(buf') = BufCap /\ dropped' + BufCap = lines' /\ buf' \in Seq(Nat)
    BY <1>1, <1>2, <1>3, <2>1, <2>2, <2>4, <2>6, Capacities
  <2>9. BufferIsTail'
    BY <2>7, <2>8, Capacities DEF BufferIsTail
  <2> QED
    BY <1>1, <1>2, <2>1, <2>8, <2>9
<1> QED
  BY <1>1, <1>4, <1>5, Capacities

LEMMA EngineStateTypes == TypeOK /\ BufferIsTail /\ Engine => StateTypes'
<1> SUFFICES ASSUME TypeOK, BufferIsTail, Engine PROVE StateTypes'
  OBVIOUS
<1>1. CASE Write
  <2>1. /\ lines' \in Nat /\ dropped' \in Nat /\ buf' \in Seq(Nat)
    BY <1>1, WriteBuffers DEF TypeOK, StateTypes
  <2>2. chan' \in [Readers -> Seq(Nat)]
    BY <1>1, <2>1 DEF Write, TypeOK, StateTypes
  <2> QED
    BY <1>1, <2>1, <2>2 DEF Write, TypeOK, StateTypes, readerVars, Lagging
<1>2. CASE Release
  BY <1>2 DEF Release, TypeOK, StateTypes, readerVars, Phases
<1>3. CASE CloseSubs
  BY <1>3 DEF CloseSubs, TypeOK, StateTypes, readerVars, Phases
<1>4. CASE CloseDone
  BY <1>4 DEF CloseDone, TypeOK, StateTypes, readerVars, Phases
<1> QED
  BY <1>1, <1>2, <1>3, <1>4 DEF Engine

LEMMA HandlerStateTypes ==
  ASSUME TypeOK, NEW x \in Readers,
         Handle(x) \/ Disconnect(x) \/ Lookup(x)
  PROVE  StateTypes'
<1> USE DEF TypeOK, StateTypes, entryVars, readerVars, PCs, Endings
<1>1. CASE Subscribe(x) BY <1>1 DEF Subscribe
<1>2. CASE SubscribeDone(x) BY <1>2 DEF SubscribeDone
<1>3. CASE FirstLine(x)
  <2>1. Head(chan[x]) \in Nat /\ Tail(chan[x]) \in Seq(Nat)
    BY <1>3 DEF FirstLine
  <2>2. <<Head(chan[x])>> \in Seq(Nat)
    BY <2>1
  <2> QED
    BY <1>3, <2>1, <2>2 DEF FirstLine
<1>4. CASE FirstClosed(x) BY <1>4 DEF FirstClosed
<1>5. CASE StatusReply(x) BY <1>5 DEF StatusReply
<1>6. CASE ReplayLine(x) BY <1>6 DEF ReplayLine
<1>7. CASE ReplayDone(x) BY <1>7 DEF ReplayDone
<1>8. CASE FollowLine(x) BY <1>8 DEF FollowLine
<1>9. CASE FollowClosed(x) BY <1>9 DEF FollowClosed
<1>10. CASE CheckDone(x) BY <1>10 DEF CheckDone
<1>11. CASE Leave(x) BY <1>11 DEF Leave
<1>12. CASE Disconnect(x) BY <1>12 DEF Disconnect
<1>13. CASE Lookup(x) BY <1>13 DEF Lookup
<1> QED
  BY <1>1, <1>2, <1>3, <1>4, <1>5, <1>6, <1>7, <1>8, <1>9, <1>10, <1>11,
     <1>12, <1>13 DEF Handle

\* No step overfills a channel: Write appends only where there is room.
LEMMA EngineTypes == TypeOK /\ BufferIsTail /\ Engine => TypeOK'
<1> SUFFICES ASSUME TypeOK, BufferIsTail, Engine PROVE TypeOK'
  OBVIOUS
<1>1. ASSUME Write PROVE ChannelsFit'
  <2> SUFFICES ASSUME NEW x \in Readers PROVE Len(chan'[x]) <= ChanCap
    BY DEF ChannelsFit
  <2>1. chan'[x] = IF x \in subs \ Lagging THEN Append(chan[x], lines') ELSE chan[x]
    BY <1>1 DEF Write
  <2>2. chan[x] \in Seq(Nat) /\ lines' \in Nat /\ Len(chan[x]) \in Nat
    BY <1>1, WriteBuffers, ReaderTypes
  <2>3. CASE x \in subs \ Lagging
    <3>1. Len(chan[x]) < ChanCap
      BY <2>2, <2>3, Capacities DEF Lagging
    <3>2. Len(chan'[x]) = Len(chan[x]) + 1
      BY <2>1, <2>2, <2>3
    <3> QED
      BY <2>2, <3>1, <3>2, Capacities
  <2>4. CASE x \notin subs \ Lagging
    BY <2>1, <2>4 DEF TypeOK, ChannelsFit
  <2> QED
    BY <2>3, <2>4
<1>2. ASSUME Release \/ CloseSubs \/ CloseDone PROVE ChannelsFit'
  BY <1>2 DEF Release, CloseSubs, CloseDone, TypeOK, ChannelsFit
<1> QED
  BY <1>1, <1>2, EngineStateTypes DEF Engine, TypeOK

LEMMA HandlerTypes ==
  ASSUME TypeOK, NEW x \in Readers,
         Handle(x) \/ Disconnect(x) \/ Lookup(x)
  PROVE  TypeOK'
<1>1. \/ chan' = chan
      \/ chan[x] # <<>> /\ chan' = [chan EXCEPT ![x] = Tail(@)]
  BY DEF Handle, Disconnect, Lookup, Subscribe, SubscribeDone, FirstLine, FirstClosed,
         StatusReply, ReplayLine, ReplayDone, FollowLine, FollowClosed, CheckDone, Leave
<1>2. ASSUME NEW y \in Readers PROVE Len(chan'[y]) <= ChanCap
  <2>1. /\ chan[y] \in Seq(Nat) /\ Len(chan[y]) \in Nat /\ Len(chan[y]) <= ChanCap
        /\ chan \in [Readers -> Seq(Nat)]
    BY ReaderTypes DEF TypeOK, StateTypes, ChannelsFit
  <2>2. chan'[y] = chan[y] \/ (chan[y] # <<>> /\ chan'[y] = Tail(chan[y]))
    BY <1>1, <2>1
  <2>3. chan[y] # <<>> => Len(Tail(chan[y])) = Len(chan[y]) - 1
    BY <2>1
  <2> QED
    BY <2>1, <2>2, <2>3, Capacities
<1> QED
  BY <1>2, HandlerStateTypes DEF TypeOK, ChannelsFit

-----------------------------------------------------------------------------
(* The engine's steps preserve the invariant.                              *)

LEMMA WritePreserves == IInv /\ Write => IInv'
<1> SUFFICES ASSUME IInv, Write PROVE IInv'
  OBVIOUS
<1>1. TypeOK /\ TypeOK'
  BY EngineTypes DEF IInv, Engine
<1>2. BufferIsTail /\ \A y \in Readers : ReaderOK(y)
  BY <1>1, ReaderByReader
<1>3. BufferIsTail'
  BY <1>1, <1>2, WriteBuffers
<1>4. ASSUME NEW y \in Readers PROVE ReaderOK(y)'
  <2>1. /\ ReaderOK(y) /\ lines' = lines + 1
        /\ seen'[y] = seen[y] /\ replay'[y] = replay[y] /\ skipped'[y] = skipped[y]
        /\ pc'[y] = pc[y] /\ open'[y] = (open[y] /\ y \notin Lagging)
        /\ chan'[y] = IF y \in subs \ Lagging THEN Append(chan[y], lines + 1) ELSE chan[y]
        /\ subs' = subs \ Lagging
    BY <1>1, <1>2 DEF Write, TypeOK, StateTypes, readerVars
  <2>2. Delivered(y)' = Delivered(y) /\ Snapshotted(y)' = Snapshotted(y)
    BY <2>1 DEF Delivered, Snapshotted
  <2>3. CASE y \in subs \ Lagging
    <3> DEFINE first == Snapshotted(y) + 1
    <3>1. RunOfLines(chan[y], first) /\ Accounted(y) = lines
      BY <2>1, <2>3 DEF ReaderOK
    <3>2. first \in Nat /\ lines + 1 = first + Len(chan[y])
      BY <1>1, <3>1, ReaderTypes DEF Accounted
    <3>3. Len(chan'[y]) = Len(chan[y]) + 1 /\ RunOfLines(chan'[y], first)
      <4>1. chan[y] \in Seq(Nat) /\ chan'[y] = Append(chan[y], first + Len(chan[y]))
        BY <1>1, <2>1, <2>3, <3>2, ReaderTypes
      <4> HIDE DEF first
      <4> QED
        BY <3>1, <3>2, <4>1, RunAppend
    <3>4. Accounted(y)' = lines'
      BY <1>1, <2>1, <2>2, <3>1, <3>3, ReaderTypes DEF Accounted
    <3>5. lines' \in Nat /\ y \in subs
      BY <1>1, <2>3 DEF TypeOK, StateTypes
    <3> QED
      BY <2>1, <2>2, <3>3, <3>4, <3>5 DEF ReaderOK
  <2>4. CASE y \notin subs \ Lagging
    <3>1. Accounted(y)' = Accounted(y) /\ Accounted(y) \in Nat /\ lines \in Nat
      BY <1>1, <2>1, <2>2, <2>4, ReaderTypes DEF Accounted
    <3>2. y \notin subs' /\ (y \notin subs => y \notin Lagging)
      BY <2>1, <2>4 DEF Lagging
    <3>3. Accounted(y)' <= lines'
      BY <2>1, <3>1 DEF ReaderOK
    <3> QED
      BY <2>1, <2>2, <2>4, <3>2, <3>3 DEF ReaderOK
  <2> QED
    BY <2>3, <2>4
<1> QED
  BY <1>1, <1>3, <1>4, ReaderByReaderNext

LEMMA FinishPreserves == IInv /\ (Release \/ CloseSubs \/ CloseDone) => IInv'
<1> SUFFICES ASSUME IInv, Release \/ CloseSubs \/ CloseDone PROVE IInv'
  OBVIOUS
<1>1. TypeOK /\ TypeOK'
  BY EngineTypes DEF IInv, Engine
<1>2. BufferIsTail /\ \A y \in Readers : ReaderOK(y)
  BY <1>1, ReaderByReader
<1>3. BufferIsTail'
  BY <1>2 DEF Release, CloseSubs, CloseDone, BufferIsTail
<1>4. ASSUME NEW y \in Readers PROVE ReaderOK(y)'
  <2>1. ReaderOK(y)
    BY <1>2
  <2>2. CASE Release \/ CloseDone
    BY <2>1, <2>2 DEF Release, CloseDone, ReaderOK, readerVars, Delivered, Snapshotted, Accounted
  <2>3. CASE CloseSubs
    <3>1. /\ subs' = {} /\ chan' = chan /\ lines' = lines
          /\ open'[y] = (open[y] /\ y \notin subs)
          /\ pc' = pc /\ replay' = replay /\ skipped' = skipped /\ seen' = seen
      BY <2>3 DEF CloseSubs, readerVars
    <3> QED
      BY <2>1, <3>1 DEF ReaderOK, Delivered, Snapshotted, Accounted
  <2> QED
    BY <2>2, <2>3
<1> QED
  BY <1>1, <1>3, <1>4, ReaderByReaderNext

-----------------------------------------------------------------------------
(* The handlers' steps preserve the invariant.                             *)

LEMMA HandlerPreserves ==
  ASSUME IInv, NEW x \in Readers, Handle(x) \/ Disconnect(x) \/ Lookup(x)
  PROVE  IInv'
<1>1. TypeOK /\ TypeOK'
  BY HandlerTypes DEF IInv
<1>2. BufferIsTail /\ \A y \in Readers : ReaderOK(y)
  BY <1>1, ReaderByReader
<1>3. lines' = lines /\ buf' = buf /\ dropped' = dropped
  BY DEF Handle, Disconnect, Lookup, Subscribe, SubscribeDone, FirstLine, FirstClosed,
         StatusReply, ReplayLine, ReplayDone, FollowLine, FollowClosed, CheckDone, Leave,
         entryVars
<1>4. BufferIsTail'
  BY <1>2, <1>3 DEF BufferIsTail
<1>5. ASSUME NEW y \in Readers, y # x PROVE ReaderOK(y)'
  <2>1. /\ chan'[y] = chan[y] /\ open'[y] = open[y] /\ pc'[y] = pc[y]
        /\ replay'[y] = replay[y] /\ skipped'[y] = skipped[y] /\ seen'[y] = seen[y]
        /\ y \in subs' <=> y \in subs
    BY <1>1, <1>5 DEF Handle, Disconnect, Lookup, Subscribe, SubscribeDone, FirstLine, FirstClosed,
         StatusReply, ReplayLine, ReplayDone, FollowLine, FollowClosed, CheckDone, Leave,
         entryVars, readerVars, TypeOK, StateTypes
  <2>2. ReaderOK(y)
    BY <1>2
  <2> QED
    BY <1>3, <2>1, <2>2 DEF ReaderOK, Delivered, Snapshotted, Accounted
<1>6. ReaderOK(x)'
  <2>1. ReaderOK(x)
    BY <1>2
  <2>2. /\ seen[x] \in Seq(Nat) /\ replay[x] \in Seq(Nat) /\ chan[x] \in Seq(Nat)
        /\ buf \in Seq(Nat)
    BY <1>1, ReaderTypes DEF TypeOK, StateTypes
  <2>num. /\ Len(seen[x]) \in Nat /\ Len(replay[x]) \in Nat /\ Len(chan[x]) \in Nat
          /\ skipped[x] \in Nat /\ lines \in Nat /\ dropped \in Nat /\ Len(buf) \in Nat
          /\ Delivered(x) \in Nat /\ Snapshotted(x) \in Nat /\ Accounted(x) \in Nat
    BY <1>1, <2>2, ReaderTypes DEF TypeOK, StateTypes
  <2>3. CASE Subscribe(x)
    <3>1. /\ seen'[x] = <<>> /\ chan'[x] = <<>> /\ replay'[x] = buf
          /\ skipped'[x] = dropped /\ pc'[x] \in {"first", "replay"}
          /\ pc'[x] = "first" => buf = <<>>
      BY <1>1, <2>1, <2>3 DEF Subscribe, TypeOK, StateTypes, ReaderOK
    <3>2. dropped + Len(buf) = lines /\ RunOfLines(buf, dropped + 1)
      BY <1>2 DEF BufferIsTail
    <3>3. buf = <<>> => dropped = 0
      BY <1>2, <2>num, Capacities DEF BufferIsTail
    <3>4. Delivered(x)' = dropped
      BY <2>num, <3>1 DEF Delivered
    <3>5. Snapshotted(x)' = lines
      BY <3>1, <3>2, <3>4 DEF Snapshotted
    <3>6. Accounted(x)' = lines
      BY <2>num, <3>1, <3>5 DEF Accounted
    <3>7. RunOfLines(<<>>, skipped'[x] + 1) /\ RunOfLines(<<>>, lines + 1)
      BY DEF RunOfLines
    <3> QED
      BY <1>3, <2>num, <3>1, <3>2, <3>3, <3>4, <3>5, <3>6, <3>7 DEF ReaderOK
  <2>4. CASE FirstLine(x)
    <3>1. /\ seen'[x] = <<>> /\ seen[x] = <<>> /\ replay[x] = <<>> /\ skipped[x] = 0
          /\ chan[x] # <<>> /\ replay'[x] = <<Head(chan[x])>> /\ chan'[x] = Tail(chan[x])
          /\ skipped'[x] = 0 /\ pc'[x] = "replay" /\ subs' = subs
      BY <1>1, <2>1, <2>4 DEF FirstLine, TypeOK, StateTypes, ReaderOK
    <3>2. Delivered(x) = 0 /\ Delivered(x)' = 0 /\ Snapshotted(x) = 0
      BY <3>1 DEF Delivered, Snapshotted
    <3>3. RunOfLines(chan[x], 1)
      BY <2>1, <3>2 DEF ReaderOK
    <3>4. /\ Head(chan[x]) = 1 /\ Len(Tail(chan[x])) = Len(chan[x]) - 1
          /\ RunOfLines(Tail(chan[x]), 1 + 1) /\ Tail(chan[x]) \in Seq(Nat)
      BY <2>2, <3>1, <3>3, RunTail
    <3>5. Snapshotted(x)' = 1
      BY <3>1, <3>2 DEF Snapshotted
    <3>6. Accounted(x)' = Accounted(x)
      BY <2>num, <3>1, <3>2, <3>4, <3>5 DEF Accounted
    <3>7. RunOfLines(<<>>, 1) /\ RunOfLines(<<1>>, 1)
      BY DEF RunOfLines
    <3> QED
      BY <1>3, <2>1, <3>1, <3>2, <3>4, <3>5, <3>6, <3>7 DEF ReaderOK
  <2>5. CASE ReplayLine(x)
    <3> DEFINE first == Delivered(x) + 1
    <3>1. /\ seen'[x] = Append(seen[x], Head(replay[x])) /\ replay[x] # <<>>
          /\ replay'[x] = Tail(replay[x]) /\ chan'[x] = chan[x] /\ skipped'[x] = skipped[x]
          /\ pc'[x] = "replay" /\ subs' = subs
      BY <1>1, <2>5 DEF ReplayLine, TypeOK, StateTypes
    <3>2. first \in Nat /\ RunOfLines(replay[x], first)
      BY <2>1, <2>num DEF ReaderOK
    <3>3. /\ Head(replay[x]) = first /\ Len(Tail(replay[x])) = Len(replay[x]) - 1
          /\ RunOfLines(Tail(replay[x]), first + 1)
      <4> HIDE DEF first
      <4> QED
        BY <2>2, <3>1, <3>2, RunTail
    <3>4. Len(seen'[x]) = Len(seen[x]) + 1 /\ RunOfLines(seen'[x], skipped[x] + 1)
      BY <1>1, <2>1, <3>1, <3>3, SeenGrows DEF ReaderOK
    <3>5. Delivered(x)' = first
      BY <2>num, <3>1, <3>4 DEF Delivered
    <3>6. Snapshotted(x)' = Snapshotted(x)
      BY <2>num, <3>1, <3>3, <3>5, SMTT(30) DEF Snapshotted
    <3>7. Accounted(x)' = Accounted(x)
      BY <3>1, <3>6 DEF Accounted
    <3> QED
      BY <1>3, <2>1, <3>1, <3>3, <3>4, <3>5, <3>6, <3>7 DEF ReaderOK
  <2>6. CASE FollowLine(x)
    <3> DEFINE first == Delivered(x) + 1
    <3>1. /\ seen'[x] = Append(seen[x], Head(chan[x])) /\ chan[x] # <<>>
          /\ replay'[x] = <<>> /\ replay[x] = <<>> /\ chan'[x] = Tail(chan[x])
          /\ skipped'[x] = skipped[x] /\ pc'[x] = "follow" /\ subs' = subs
      BY <1>1, <2>1, <2>6 DEF FollowLine, TypeOK, StateTypes, ReaderOK
    <3>2. Snapshotted(x) = Delivered(x)
      BY <2>num, <3>1 DEF Snapshotted
    <3>3. first \in Nat /\ RunOfLines(chan[x], first)
      BY <2>1, <2>num, <3>2 DEF ReaderOK
    <3>4. /\ Head(chan[x]) = first /\ Len(Tail(chan[x])) = Len(chan[x]) - 1
          /\ RunOfLines(Tail(chan[x]), first + 1)
      <4> HIDE DEF first
      <4> QED
        BY <2>2, <3>1, <3>3, RunTail
    <3>5. Len(seen'[x]) = Len(seen[x]) + 1 /\ RunOfLines(seen'[x], skipped[x] + 1)
      BY <1>1, <2>1, <3>1, <3>4, SeenGrows DEF ReaderOK
    <3>6. Delivered(x)' = first
      BY <2>num, <3>1, <3>5 DEF Delivered
    <3>7. Snapshotted(x)' = first
      BY <2>num, <3>1, <3>6 DEF Snapshotted
    <3>8. Accounted(x)' = Accounted(x)
      BY <2>num, <3>1, <3>2, <3>4, <3>7 DEF Accounted
    <3>9. RunOfLines(<<>>, first + 1)
      BY DEF RunOfLines
    <3> QED
      BY <1>3, <2>1, <3>1, <3>4, <3>5, <3>6, <3>7, <3>8, <3>9 DEF ReaderOK
  <2>7. CASE \/ SubscribeDone(x) \/ FirstClosed(x) \/ StatusReply(x) \/ ReplayDone(x)
             \/ FollowClosed(x) \/ CheckDone(x) \/ Leave(x) \/ Disconnect(x) \/ Lookup(x)
    <3>1. /\ seen' = seen /\ replay' = replay /\ chan' = chan /\ skipped' = skipped
          /\ open' = open /\ subs' \subseteq subs
      BY <2>7 DEF SubscribeDone, FirstClosed, StatusReply, ReplayDone, FollowClosed,
                  CheckDone, Leave, Disconnect, Lookup, readerVars
    <3>2. /\ pc'[x] \in {"idle", "attach"} => pc[x] \in {"idle", "attach"}
          /\ pc'[x] = "first" => pc[x] = "first"
          /\ pc'[x] \in {"follow", "check"} => replay[x] = <<>>
      BY <1>1, <2>1, <2>7 DEF SubscribeDone, FirstClosed, StatusReply, ReplayDone, FollowClosed,
                  CheckDone, Leave, Disconnect, Lookup, readerVars, TypeOK, StateTypes, ReaderOK
    <3> QED
      BY <1>3, <2>1, <3>1, <3>2 DEF ReaderOK, Delivered, Snapshotted, Accounted
  <2> QED
    BY <2>3, <2>4, <2>5, <2>6, <2>7 DEF Handle
<1> QED
  BY <1>1, <1>4, <1>5, <1>6, ReaderByReaderNext

LEMMA StutterPreserves == IInv /\ UNCHANGED vars => IInv'
  BY DEF IInv, TypeOK, StateTypes, ChannelsFit, NoGapNoDuplicate, SubscribersWhole, BufferIsTail, QueuesContinue,
         HandlersAgree, RunOfLines, Delivered, Snapshotted, Accounted, vars, entryVars, readerVars

LEMMA StepPreserves == IInv /\ [Next]_vars => IInv'
<1> SUFFICES ASSUME IInv, [Next]_vars PROVE IInv'
  OBVIOUS
<1> QED
  BY WritePreserves, FinishPreserves, HandlerPreserves, StutterPreserves
     DEF Next, Engine, Readers

(***************************************************************************)
(* IInv holds in every reachable state of the turn bus: turnEntry's        *)
(* buffer, channels and handlers agree about every line.                   *)
(***************************************************************************)
THEOREM InductiveInvariant == Spec => []IInv
<1>1. Init => IInv
  BY Initially
<1>2. IInv /\ [Next]_vars => IInv'
  BY StepPreserves
<1> QED
  BY <1>1, <1>2, PTL DEF Spec

(***************************************************************************)
(* Every client receives consecutive lines, from the one after its drop    *)
(* count on: subscribe's snapshot and the fan-out of Write neither lose    *)
(* nor repeat a line, for any capacities and any number of watchers.       *)
(***************************************************************************)
THEOREM ReplayThenLive == Spec => []NoGapNoDuplicate
  BY InductiveInvariant, PTL DEF IInv

(***************************************************************************)
(* A subscriber the fan-out has not cut can account for every line.        *)
(***************************************************************************)
THEOREM NothingLostUnlessCut == Spec => []SubscribersWhole
  BY InductiveInvariant, PTL DEF IInv

(***************************************************************************)
(* The replay buffer is the unbroken, bounded tail of the turn.            *)
(***************************************************************************)
THEOREM BufferHonest == Spec => []BufferIsTail
  BY InductiveInvariant, PTL DEF IInv

-----------------------------------------------------------------------------
(* Refinement.                                                             *)

LEMMA FeedInit == Init => Feed!Init
<1> SUFFICES ASSUME Init PROVE Feed!Init
  OBVIOUS
<1> QED
  BY DEF Init, Feed!Init

\* A line enters the feed when Write buffers it.
LEMMA FeedWrite == IInv /\ Write => Feed!Emit
<1> SUFFICES ASSUME IInv, Write PROVE Feed!Emit
  OBVIOUS
<1> QED
  BY DEF Write, Feed!Emit, readerVars, IInv, TypeOK, StateTypes

\* The feed is over when finish takes the entry out of the registry.
LEMMA FeedFinish == Release \/ CloseSubs \/ CloseDone => Feed!EndTurn \/ UNCHANGED Feed!vars
<1>1. Release => Feed!EndTurn
  BY DEF Release, Feed!EndTurn, readerVars
<1>2. CloseSubs => UNCHANGED Feed!vars
  BY DEF CloseSubs, Feed!vars, readerVars
<1>3. CloseDone => UNCHANGED Feed!vars
  BY DEF CloseDone, Feed!vars, readerVars
<1> QED
  BY <1>1, <1>2, <1>3

\* A reader joins where the buffer starts.
LEMMA FeedSubscribe ==
  ASSUME IInv, NEW x \in Readers, Subscribe(x)
  PROVE  Feed!Join(x)
<1>1. dropped = IF lines > BufCap THEN lines - BufCap ELSE 0
  BY Capacities DEF IInv, TypeOK, StateTypes, BufferIsTail
<1> QED
  BY <1>1 DEF Subscribe, Feed!Join, entryVars, IInv, TypeOK, StateTypes

\* The line a client receives is the one after the last it has.
LEMMA FeedDeliver ==
  ASSUME IInv, NEW x \in Readers, ReplayLine(x) \/ FollowLine(x)
  PROVE  Feed!Deliver(x)
<1>1. TypeOK /\ ReaderOK(x)
  BY ReaderByReader DEF IInv
<1>2. \/ seen' = [seen EXCEPT ![x] = Append(@, Head(replay[x]))] /\ replay[x] # <<>>
      \/ /\ seen' = [seen EXCEPT ![x] = Append(@, Head(chan[x]))]
         /\ replay[x] = <<>> /\ chan[x] # <<>>
  BY <1>1 DEF ReplayLine, FollowLine, ReaderOK
<1> DEFINE first == Delivered(x) + 1
<1>3. /\ first \in Nat
      /\ replay[x] # <<>> => Head(replay[x]) = first /\ first <= Snapshotted(x)
      /\ replay[x] = <<>> /\ chan[x] # <<>> => Head(chan[x]) = first /\ first <= Accounted(x)
  <2>1. first \in Nat
    BY <1>1, ReaderTypes
  <2>2. ASSUME replay[x] # <<>> PROVE Head(replay[x]) = first /\ Len(replay[x]) >= 1
    <3>1. RunOfLines(replay[x], first) /\ replay[x] \in Seq(Nat)
      BY <1>1, ReaderTypes DEF ReaderOK
    <3> HIDE DEF first
    <3> QED
      BY <2>1, <2>2, <3>1, RunTail
  <2>3. ASSUME replay[x] = <<>>, chan[x] # <<>> PROVE Head(chan[x]) = first /\ Len(chan[x]) >= 1
    <3>1. Snapshotted(x) = Delivered(x)
      BY <1>1, <2>3, ReaderTypes DEF Snapshotted
    <3>2. RunOfLines(chan[x], first) /\ chan[x] \in Seq(Nat)
      BY <1>1, <3>1, ReaderTypes DEF ReaderOK
    <3> HIDE DEF first
    <3> QED
      BY <2>1, <2>3, <3>2, RunTail
  <2>4. ASSUME replay[x] # <<>> PROVE first <= Snapshotted(x)
    BY <1>1, <2>2, <2>4, ReaderTypes DEF Snapshotted
  <2>5. ASSUME replay[x] = <<>>, chan[x] # <<>> PROVE first <= Accounted(x)
    <3>1. Snapshotted(x) = Delivered(x)
      BY <1>1, <2>5, ReaderTypes DEF Snapshotted
    <3> QED
      BY <1>1, <2>3, <2>5, <3>1, ReaderTypes DEF Accounted
  <2> QED
    BY <2>1, <2>2, <2>3, <2>4, <2>5
<1>4. Snapshotted(x) <= Accounted(x) /\ Accounted(x) <= lines
  BY <1>1, ReaderTypes DEF Accounted, ReaderOK
<1>5. Delivered(x) < lines
  BY <1>1, <1>2, <1>3, <1>4, ReaderTypes
<1>6. seen' = [seen EXCEPT ![x] = Append(@, first)]
  BY <1>2, <1>3
<1>7. skipped[x] + Len(seen[x]) < lines /\ first = skipped[x] + Len(seen[x]) + 1
  BY <1>5 DEF Delivered
<1>8. /\ lines' = lines /\ phase' = phase /\ skipped' = skipped /\ pc' = pc
      /\ pc[x] \in {"replay", "follow"}
  BY DEF ReplayLine, FollowLine, entryVars
<1> QED
  BY <1>6, <1>7, <1>8 DEF Feed!Deliver

\* The other steps of a handler move its reader out of the feed, or are internal.
LEMMA FeedHandler ==
  ASSUME IInv, NEW x \in Readers, Handle(x) \/ Disconnect(x) \/ Lookup(x)
  PROVE  \/ Feed!Join(x) \/ Feed!Deliver(x) \/ Feed!Depart(x) \/ UNCHANGED Feed!vars
<1>1. CASE Subscribe(x)
  BY <1>1, FeedSubscribe
<1>2. CASE ReplayLine(x) \/ FollowLine(x)
  BY <1>2, FeedDeliver
<1>3. ASSUME SubscribeDone(x) \/ StatusReply(x) \/ CheckDone(x) \/ Leave(x)
      PROVE  Feed!Depart(x)
  BY <1>3 DEF SubscribeDone, StatusReply, CheckDone, Leave, Feed!Depart, entryVars, IInv, TypeOK, StateTypes
<1>4. ASSUME FirstLine(x) \/ FirstClosed(x) \/ ReplayDone(x) \/ FollowClosed(x) \/ Disconnect(x)
      PROVE  UNCHANGED Feed!vars
  BY <1>4 DEF FirstLine, FirstClosed, ReplayDone, FollowClosed, Disconnect,
              Feed!vars, entryVars, readerVars, IInv, TypeOK, StateTypes
<1>5. ASSUME Lookup(x)
      PROVE  Feed!Depart(x) \/ UNCHANGED Feed!vars
  BY <1>5 DEF Lookup, Feed!Depart, Feed!vars, entryVars, IInv, TypeOK, StateTypes
<1> QED
  BY <1>1, <1>2, <1>3, <1>4, <1>5 DEF Handle

LEMMA FeedStep == IInv /\ [Next]_vars => [Feed!Next]_(Feed!vars)
<1> SUFFICES ASSUME IInv, [Next]_vars PROVE Feed!Next \/ UNCHANGED Feed!vars
  OBVIOUS
<1>1. CASE Engine
  BY <1>1, FeedWrite, FeedFinish DEF Engine, Feed!Next
<1>2. ASSUME NEW x \in Readers, Handle(x) \/ Disconnect(x) \/ Lookup(x)
      PROVE  Feed!Next \/ UNCHANGED Feed!vars
  BY <1>2, FeedHandler DEF Feed!Next
<1>3. CASE UNCHANGED vars
  BY <1>3 DEF vars, entryVars, readerVars, Feed!vars
<1> QED
  BY <1>1, <1>2, <1>3 DEF Next, Readers

(***************************************************************************)
(* The turn bus implements OrderedFeed: whatever the schedule of engine    *)
(* and handlers, a reader gets what a plain ordered log with a window of   *)
(* BufCap lines would give it.                                             *)
(***************************************************************************)
THEOREM BusImplementsFeed == Spec => ImplementsFeed
<1>1. Init => Feed!Init
  BY FeedInit
<1>2. IInv /\ [Next]_vars => [Feed!Next]_(Feed!vars)
  BY FeedStep
<1> QED
  BY <1>1, <1>2, InductiveInvariant, PTL DEF Spec, ImplementsFeed, Feed!Spec
=============================================================================
