---------------------------- MODULE EffectsProofs ----------------------------
(***************************************************************************)
(* Proofs about what a step of a turn does: ask the endpoint (ChatCall),   *)
(* run a shell command (ShellRun), change files (FileTools).               *)
(***************************************************************************)
EXTENDS ChatCall, ShellRun, FileTools, TLAPS

(***************************************************************************)
(* ChatCall: what a retry may show again and what may pass for a complete  *)
(* answer, for any number of retries and any length of the stream.         *)
(***************************************************************************)

Accumulators ==
  [text : Seq(Token), call : BOOLEAN, part : BOOLEAN,
   finish : BOOLEAN, choice : BOOLEAN, done : BOOLEAN]

\* A request per attempt, and another attempt only while one is left.
RequestsCounted ==
  /\ callAt = "start" => requests = attempt
  /\ callAt \in {"request", "stream", "sleep"} => requests = attempt + 1
  /\ callAt = "sleep" => attempt < MaxRetries

\* While a stream is read its aggregate is what was shown.  Outside of one
\* nothing has been shown yet: that is what lets another attempt begin.
AccIsShown ==
  /\ callAt = "stream" => acc.text = shown /\ sent = Len(shown)
  /\ callAt \in {"start", "request", "sleep"} => shown = <<>>
  /\ callAt = "request" => acc = Fresh0 /\ sent = 0

\* Nothing is returned before the call is over.
OutcomeLast == callAt # "returned" => outcome = Nothing

CallInv ==
  /\ CallTypeOK /\ RequestsCounted /\ AccIsShown /\ OutcomeLast
  /\ ShownOnce /\ NoSilentPartial

LEMMA FreshTypes ==
  /\ Fresh0 \in Accumulators /\ Fresh0.text = <<>> /\ ~Fresh0.part
  /\ ~Fresh0.done /\ ~Fresh0.finish
  /\ <<>> \in Seq(Token) /\ Len(<<>>) = 0
  /\ Nothing.text = <<>> /\ Nothing.kind = "none"
<1>1. <<>> \in Seq(Token) /\ Len(<<>>) = 0
  OBVIOUS
<1> QED
  BY <1>1 DEF Fresh0, Nothing, Accumulators

LEMMA CallInitially == CallInit => CallInv
<1> SUFFICES ASSUME CallInit PROVE CallInv
  OBVIOUS
<1>1. CallTypeOK
  <2>1. 0 \in 0..MaxRetries /\ 0 \in 0..(MaxRetries + 1) /\ 0 \in Nat
    BY ChatCallAssumption
  <2>2. acc \in Accumulators /\ shown \in Seq(Token) /\ outcome.text \in Seq(Token)
    BY FreshTypes DEF CallInit
  <2> QED
    BY <2>1, <2>2 DEF CallInit, CallTypeOK, CallStates, Accumulators
<1>2. RequestsCounted /\ AccIsShown /\ OutcomeLast
  BY DEF CallInit, RequestsCounted, AccIsShown, OutcomeLast
<1>3. ShownOnce /\ NoSilentPartial
  BY FreshTypes DEF CallInit, ShownOnce, NoSilentPartial
<1> QED
  BY <1>1, <1>2, <1>3 DEF CallInv

-----------------------------------------------------------------------------
(* The three ways to go on: return, try again, read on.                    *)

\* A call that returns with nothing new shown keeps the invariant when its
\* outcome is honest.
LEMMA ReturnKeeps ==
  ASSUME CallInv, NEW o, ReturnCall(o), UNCHANGED <<mode, lax, ctxEnded, shown>>,
         requests' \in 0..(MaxRetries + 1), acc' \in Accumulators, sent' \in Nat,
         o.text \in Seq(Token),
         o.kind \in {"ok", "accepted", "truncated"} => o.text = shown,
         o.kind = "ok" => o.ended \/ (o.text = <<>> /\ ~o.call),
         o.kind = "accepted" => lax
  PROVE  CallInv'
<1>1. callAt' = "returned" /\ outcome' = o /\ attempt' = attempt
  BY DEF ReturnCall
<1>2. CallTypeOK'
  BY <1>1 DEF CallInv, CallTypeOK, CallStates, Accumulators
<1>3. (RequestsCounted /\ AccIsShown /\ OutcomeLast)'
  BY <1>1 DEF RequestsCounted, AccIsShown, OutcomeLast
<1>4. ShownOnce' /\ NoSilentPartial'
  BY <1>1 DEF CallInv, ShownOnce, NoSilentPartial
<1> QED
  BY <1>2, <1>3, <1>4 DEF CallInv

LEMMA ErrorKeeps ==
  ASSUME CallInv, NEW k, k \notin {"ok", "accepted", "truncated"}, ReturnCall(Error(k)),
         UNCHANGED <<mode, lax, ctxEnded, shown>>,
         requests' \in 0..(MaxRetries + 1), acc' \in Accumulators, sent' \in Nat
  PROVE  CallInv'
<1>1. Error(k).text = <<>> /\ Error(k).kind = k /\ <<>> \in Seq(Token)
  BY DEF Error, Nothing
<1> QED
  BY <1>1, ReturnKeeps

\* Another attempt: only while nothing was shown.
LEMMA RetryKeeps ==
  ASSUME CallInv, Retry, callAt \in {"request", "stream"}, shown = <<>>,
         UNCHANGED <<mode, lax, requests, ctxEnded, shown>>,
         acc' \in Accumulators, sent' \in Nat
  PROVE  CallInv'
<1>1. CASE ReturnCall(Error("failed"))
  <2>1. requests \in 0..(MaxRetries + 1)
    BY DEF CallInv, CallTypeOK
  <2> QED
    BY <1>1, <2>1, ErrorKeeps
<1>2. CASE attempt < MaxRetries /\ callAt' = "sleep" /\ UNCHANGED <<attempt, outcome>>
  <2>1. CallTypeOK'
    BY <1>2 DEF CallInv, CallTypeOK, CallStates, Accumulators
  <2>2. (RequestsCounted /\ AccIsShown /\ OutcomeLast)'
    BY <1>2 DEF CallInv, RequestsCounted, AccIsShown, OutcomeLast
  <2>3. ShownOnce' /\ NoSilentPartial'
    BY <1>2 DEF CallInv, ShownOnce, NoSilentPartial
  <2> QED
    BY <2>1, <2>2, <2>3 DEF CallInv
<1> QED
  BY <1>1, <1>2 DEF Retry

\* A stream goes on with a sound aggregate.
LEMMA GoingKeeps ==
  ASSUME CallInv, Going, UNCHANGED <<sent, shown>>,
         acc' \in Accumulators, acc'.text = acc.text
  PROVE  CallInv'
<1> USE DEF Going, Streaming
<1>1. CallTypeOK'
  BY DEF CallInv, CallTypeOK, Accumulators
<1>2. (RequestsCounted /\ AccIsShown /\ OutcomeLast)'
  BY DEF CallInv, RequestsCounted, AccIsShown, OutcomeLast
<1>3. ShownOnce' /\ NoSilentPartial'
  BY DEF CallInv, ShownOnce, NoSilentPartial
<1> QED
  BY <1>1, <1>2, <1>3 DEF CallInv

-----------------------------------------------------------------------------
(* How a stream ends.                                                      *)

\* An answer that may be returned as complete: it was ended, or there is nothing in it.
Ended(a) == a.done \/ a.finish \/ (a.text = <<>> /\ ~a.call)

\* What DoStream makes of the end of a stream is honest when an end without an
\* error was a complete one.
LEMMA SettleKeeps ==
  ASSUME CallInv, Streaming, UNCHANGED <<sent, shown>>, acc' \in Accumulators,
         NEW perr, perr \in {"none", "unterminated", "read", "cut", "empty", "chunk", "json", "ctx"},
         NEW res \in Accumulators, Settle(perr, res),
         perr \notin {"read", "chunk", "ctx"} => res.text = shown,
         perr = "none" => Ended(res),
         perr \in {"read", "chunk", "ctx"} => res.text = <<>>
  PROVE  CallInv'
<1> USE DEF Streaming
<1>1. requests \in 0..(MaxRetries + 1) /\ sent \in Nat /\ sent = Len(shown) /\ shown \in Seq(Token)
  BY DEF CallInv, CallTypeOK, AccIsShown
<1>2. ASSUME NEW kind, ReturnCall(Answer(kind, res)), kind \in {"ok", "accepted", "truncated"},
             res.text = shown, kind = "ok" => perr = "none", kind = "accepted" => lax
      PROVE  CallInv'
  <2>1. /\ Answer(kind, res).kind = kind /\ Answer(kind, res).text = res.text
        /\ Answer(kind, res).call = res.call
        /\ Answer(kind, res).ended = (res.done \/ res.finish)
    BY DEF Answer
  <2> QED
    BY <1>1, <1>2, <2>1, ReturnKeeps DEF Accumulators, Ended
<1>3. CASE perr = "none"
  <2>1. ReturnCall(Answer("ok", res))
    BY <1>3 DEF Settle, Transient
  <2> QED
    BY <2>1, <1>3, <1>2
<1>4. CASE perr = "unterminated" /\ lax
  <2>1. ReturnCall(Answer("accepted", res))
    BY <1>4 DEF Settle, Transient
  <2> QED
    BY <2>1, <1>4, <1>2
<1>5. CASE ~(perr = "none") /\ ~(perr = "unterminated" /\ lax)
  <2>1. \/ sent = 0 /\ Retry
        \/ perr \in {"read", "cut", "empty"} /\ res.text # <<>> /\ ReturnCall(Answer("truncated", res))
        \/ ReturnCall(Error(perr))
    BY <1>5 DEF Settle, Transient
  <2>2. CASE sent = 0 /\ Retry
    <3>1. shown = <<>>
      BY <2>2, <1>1
    <3> QED
      BY <2>2, <3>1, <1>1, RetryKeeps
  <2>3. CASE perr \in {"read", "cut", "empty"} /\ res.text # <<>> /\ ReturnCall(Answer("truncated", res))
    BY <2>3, <1>2
  <2>4. CASE ReturnCall(Error(perr))
    BY <2>4, <1>1, ErrorKeeps, <1>5
  <2> QED
    BY <2>1, <2>2, <2>3, <2>4
<1> QED
  BY <1>3, <1>4, <1>5

\* The scanner ends without an error only over an ended answer.
LEMMA AfterScanSound ==
  ASSUME NEW a \in Accumulators, AfterScan(a) = "none"
  PROVE  Ended(a)
BY DEF AfterScan, Accumulators, Ended

\* A fragment is aggregated and shown in one step.
LEMMA DeltaKeeps ==
  ASSUME CallInv, NEW ok \in BOOLEAN, Delta(ok) PROVE CallInv'
<1> DEFINE t == <<attempt, Len(acc.text)>>
<1>1. /\ callAt = "stream" /\ acc.text = shown /\ sent = Len(shown)
      /\ UNCHANGED <<mode, lax, requests, ctxEnded>>
  BY DEF Delta, Streaming, CallInv, AccIsShown
<1>2. acc \in Accumulators /\ shown \in Seq(Token) /\ t \in Token /\ Len(shown) \in Nat
  BY <1>1 DEF CallInv, CallTypeOK, Accumulators, Token
<1>3. /\ acc' = [acc EXCEPT !.text = Append(@, t), !.choice = TRUE]
      /\ sent' = sent + 1 /\ shown' = Append(shown, t)
  BY DEF Delta
<1> HIDE DEF t
<1>4. /\ shown' \in Seq(Token) /\ Len(shown') = Len(shown) + 1
      /\ shown'[Len(shown) + 1] = t /\ \A i \in 1..Len(shown) : shown'[i] = shown[i]
  BY <1>2, <1>3
<1>5. /\ acc' \in Accumulators /\ acc'.text = shown'
      /\ sent' = Len(shown') /\ sent' \in Nat
  <2>1. acc'.text = Append(acc.text, t) /\ acc'.text = shown'
    BY <1>1, <1>2, <1>3 DEF Accumulators
  <2>2. acc' \in Accumulators
    BY <2>1, <1>2, <1>3, <1>4 DEF Accumulators
  <2> QED
    BY <2>1, <2>2, <1>1, <1>2, <1>3, <1>4
<1>7. attempt' = attempt
  BY DEF Delta, ReturnCall
<1>8. \A i \in 1..Len(shown') : shown'[i] = <<attempt, i - 1>>
  <2> SUFFICES ASSUME NEW i \in 1..(Len(shown) + 1) PROVE shown'[i] = <<attempt, i - 1>>
    BY <1>4
  <2>1. CASE i = Len(shown) + 1
    BY <2>1, <1>4, <1>1, <1>2 DEF t
  <2>2. CASE i \in 1..Len(shown)
    BY <2>2, <1>4 DEF CallInv, ShownOnce
  <2> QED
    BY <2>1, <2>2, <1>2
<1>9. CASE ok
  <2>1. UNCHANGED <<callAt, outcome>>
    BY <1>9 DEF Delta
  <2>2. CallTypeOK'
    BY <2>1, <1>1, <1>4, <1>5, <1>7 DEF CallInv, CallTypeOK, Accumulators
  <2>3. (RequestsCounted /\ AccIsShown /\ OutcomeLast)'
    BY <2>1, <1>1, <1>5, <1>7
       DEF CallInv, RequestsCounted, AccIsShown, OutcomeLast
  <2>4. outcome = Nothing
    BY <1>1 DEF CallInv, OutcomeLast
  <2>5. ShownOnce' /\ NoSilentPartial'
    BY <2>1, <2>4, <1>7, <1>8, FreshTypes DEF ShownOnce, NoSilentPartial
  <2> QED
    BY <2>2, <2>3, <2>5 DEF CallInv
<1>10. CASE ~ok
  <2>1. callAt' = "returned" /\ outcome' = Error("listener")
    BY <1>10 DEF Delta, ReturnCall
  <2>2. outcome'.text = <<>> /\ outcome'.kind = "listener"
    BY <2>1 DEF Error, Nothing
  <2>3. CallTypeOK'
    BY <2>1, <2>2, <1>1, <1>4, <1>5, <1>7, FreshTypes
       DEF CallInv, CallTypeOK, CallStates, Accumulators
  <2>4. (RequestsCounted /\ AccIsShown /\ OutcomeLast)'
    BY <2>1 DEF RequestsCounted, AccIsShown, OutcomeLast
  <2>5. ShownOnce' /\ NoSilentPartial'
    BY <2>2, <1>7, <1>8 DEF ShownOnce, NoSilentPartial
  <2> QED
    BY <2>3, <2>4, <2>5 DEF CallInv
<1> QED
  BY <1>9, <1>10

-----------------------------------------------------------------------------
(* Every step preserves the invariant.                                     *)

LEMMA RequestPreserves ==
  ASSUME CallInv,
         \/ PrepareFails \/ Send \/ Wake \/ SleepCancelled
         \/ NetworkError \/ RetryableStatus \/ BodyBreaks \/ BadBody \/ GoodBody
         \/ \E kind \in {"context", "thinking", "failed"} : OtherStatus(kind)
         \/ StreamOpens
  PROVE  CallInv'
<1> USE ChatCallAssumption
<1>1. /\ acc \in Accumulators /\ sent \in Nat /\ requests \in 0..(MaxRetries + 1)
      /\ attempt \in 0..MaxRetries
  BY DEF CallInv, CallTypeOK, Accumulators
<1>2. ASSUME Answered, Retry PROVE CallInv'
  BY <1>1, <1>2, RetryKeeps DEF Answered, CallInv, AccIsShown
<1>3. ASSUME Answered, NEW k, k \notin {"ok", "accepted", "truncated"}, ReturnCall(Error(k))
      PROVE  CallInv'
  BY <1>1, <1>3, ErrorKeeps DEF Answered
<1>4. CASE PrepareFails
  BY <1>1, <1>4, ErrorKeeps DEF PrepareFails
<1>5. CASE Send
  <2>1. CASE ctxEnded
    BY <1>1, <1>5, <2>1, ErrorKeeps, FreshTypes DEF Send
  <2>2. CASE ~ctxEnded
    <3>1. /\ callAt = "start" /\ callAt' = "request" /\ requests' = requests + 1 /\ sent' = 0
          /\ acc' = Fresh0 /\ UNCHANGED <<mode, lax, attempt, ctxEnded, shown, outcome>>
      BY <1>5, <2>2 DEF Send
    <3>2. requests = attempt /\ shown = <<>>
      BY <3>1, <1>1 DEF CallInv, RequestsCounted, AccIsShown
    <3>3. requests' \in 0..(MaxRetries + 1)
      BY <3>1, <3>2, <1>1
    <3>4. CallTypeOK'
      BY <3>1, <3>3, FreshTypes DEF CallInv, CallTypeOK, CallStates, Accumulators
    <3>5. (RequestsCounted /\ AccIsShown /\ OutcomeLast)'
      BY <3>1, <3>2 DEF CallInv, RequestsCounted, AccIsShown, OutcomeLast
    <3>6. ShownOnce' /\ NoSilentPartial'
      BY <3>1 DEF CallInv, ShownOnce, NoSilentPartial
    <3> QED
      BY <3>4, <3>5, <3>6 DEF CallInv
  <2> QED
    BY <2>1, <2>2
<1>6. CASE Wake
  <2>1. /\ callAt = "sleep" /\ callAt' = "start" /\ attempt' = attempt + 1
        /\ UNCHANGED <<mode, lax, requests, ctxEnded, acc, sent, shown, outcome>>
    BY <1>6 DEF Wake
  <2>2. requests = attempt + 1 /\ shown = <<>> /\ outcome = Nothing
    BY <2>1 DEF CallInv, RequestsCounted, AccIsShown, OutcomeLast
  <2>3. attempt' \in 0..MaxRetries
    BY <2>1, <1>1 DEF CallInv, RequestsCounted
  <2>4. CallTypeOK'
    BY <2>1, <2>3 DEF CallInv, CallTypeOK, CallStates
  <2>5. (RequestsCounted /\ AccIsShown /\ OutcomeLast)'
    BY <2>1, <2>2 DEF RequestsCounted, AccIsShown, OutcomeLast
  <2>6. ShownOnce' /\ NoSilentPartial'
    BY <2>1, <2>2, FreshTypes DEF ShownOnce, NoSilentPartial
  <2> QED
    BY <2>4, <2>5, <2>6 DEF CallInv
<1>7. CASE SleepCancelled
  BY <1>1, <1>7, ErrorKeeps DEF SleepCancelled
<1>8. CASE NetworkError \/ RetryableStatus
  BY <1>2, <1>8 DEF NetworkError, RetryableStatus
<1>9. CASE BodyBreaks
  BY <1>2, <1>3, <1>9 DEF BodyBreaks
<1>10. CASE BadBody
  BY <1>3, <1>10 DEF BadBody
<1>11. CASE GoodBody
  <2> DEFINE res == [Fresh0 EXCEPT !.done = TRUE]
             o   == Answer("ok", res)
  <2>1. ReturnCall(o) /\ UNCHANGED <<mode, lax, requests, ctxEnded, acc, sent, shown>> /\ callAt = "request"
    BY <1>11 DEF GoodBody, Answered
  <2>2. o.text = <<>> /\ o.ended /\ o.kind = "ok"
    BY DEF Answer, Fresh0
  <2>3. shown = <<>> /\ <<>> \in Seq(Token)
    BY <2>1 DEF CallInv, AccIsShown
  <2> HIDE DEF o
  <2> QED
    BY <2>1, <2>2, <2>3, <1>1, ReturnKeeps
<1>12. ASSUME NEW k \in {"context", "thinking", "failed"}, OtherStatus(k) PROVE CallInv'
  BY <1>3, <1>12 DEF OtherStatus
<1>13. CASE StreamOpens
  <2>1. /\ callAt = "request" /\ callAt' = "stream"
        /\ UNCHANGED <<mode, lax, attempt, requests, ctxEnded, acc, sent, shown, outcome>>
    BY <1>13 DEF StreamOpens
  <2>2. CallTypeOK'
    BY <2>1 DEF CallInv, CallTypeOK, CallStates
  <2>3. acc = Fresh0 /\ sent = 0 /\ shown = <<>>
    BY <2>1 DEF CallInv, AccIsShown
  <2>4. (RequestsCounted /\ AccIsShown /\ OutcomeLast)'
    BY <2>1, <2>3, FreshTypes DEF CallInv, RequestsCounted, AccIsShown, OutcomeLast
  <2>5. ShownOnce' /\ NoSilentPartial'
    BY <2>1 DEF CallInv, ShownOnce, NoSilentPartial
  <2> QED
    BY <2>2, <2>4, <2>5 DEF CallInv
<1> QED
  BY <1>4, <1>5, <1>6, <1>7, <1>8, <1>9, <1>10, <1>11, <1>12, <1>13

LEMMA StreamPreserves ==
  ASSUME CallInv,
         \/ \E ok \in BOOLEAN : Delta(ok)
         \/ ChunkFails \/ RoleChunk \/ ToolOpens \/ ToolCloses \/ Finish
         \/ DoneMarker \/ CleanClose \/ CutInLine \/ Reset \/ ReadCancelled
  PROVE  CallInv'
<1>1. /\ callAt = "stream" /\ acc \in Accumulators
      /\ acc.text = shown
  BY DEF CallInv, CallTypeOK, Accumulators, AccIsShown, Delta, ChunkFails, RoleChunk, ToolOpens,
         ToolCloses, Finish, DoneMarker, CleanClose, CutInLine, Reset, ReadCancelled,
         Going, Ending, Streaming
<1>2. ASSUME Ending, NEW perr \in {"read", "chunk", "ctx"}, Settle(perr, Fresh0) PROVE CallInv'
  BY <1>1, <1>2, SettleKeeps, FreshTypes DEF Ending
<1>3. ASSUME Streaming, UNCHANGED <<sent, shown>>, NEW a \in Accumulators, acc' \in Accumulators,
             a.text = shown, NEW perr \in {"none", "unterminated", "cut", "empty", "json"},
             Settle(perr, a), perr = "none" => Ended(a)
      PROVE  CallInv'
  BY <1>3, SettleKeeps
<1>4. \A a \in Accumulators : AfterScan(a) \in {"none", "unterminated", "empty"}
  BY DEF AfterScan
<1>5. CASE \E ok \in BOOLEAN : Delta(ok)
  BY <1>5, DeltaKeeps
<1>6. CASE ChunkFails
  <2>1. Ending /\ (Settle("chunk", Fresh0) \/ Settle("json", acc))
    BY <1>6 DEF ChunkFails
  <2> QED
    BY <2>1, <1>1, <1>2, <1>3 DEF Ending
<1>7. CASE RoleChunk \/ ToolOpens \/ ToolCloses \/ Finish
  <2>1. /\ Going /\ UNCHANGED <<sent, shown>>
        /\ \/ acc' = [acc EXCEPT !.choice = TRUE]
           \/ acc' = [acc EXCEPT !.call = TRUE, !.part = TRUE, !.choice = TRUE]
           \/ acc' = [acc EXCEPT !.part = FALSE]
           \/ acc' = [acc EXCEPT !.finish = TRUE, !.choice = TRUE]
    BY <1>7 DEF RoleChunk, ToolOpens, ToolCloses, Finish
  <2>2. acc' \in Accumulators /\ acc'.text = acc.text
    BY <2>1, <1>1 DEF Accumulators
  <2> QED
    BY <2>1, <2>2, GoingKeeps
<1>10. CASE DoneMarker
  <2> DEFINE a == [acc EXCEPT !.done = TRUE]
  <2>1. Streaming /\ acc' = a /\ Settle(AfterScan(a), a) /\ UNCHANGED <<sent, shown>>
    BY <1>10 DEF DoneMarker
  <2>2. a \in Accumulators /\ a.text = shown /\ Ended(a)
    BY <2>1, <1>1 DEF Accumulators, Ended
  <2> HIDE DEF a
  <2> QED
    BY <2>1, <2>2, <1>3, <1>4
<1>11. CASE CleanClose
  <2>1. Ending /\ Settle(AfterScan(acc), acc)
    BY <1>11 DEF CleanClose
  <2>2. AfterScan(acc) = "none" => Ended(acc)
    BY <1>1, AfterScanSound
  <2> QED
    BY <2>1, <2>2, <1>1, <1>3, <1>4 DEF Ending
<1>12. CASE CutInLine
  BY <1>12, <1>1, <1>3 DEF CutInLine, Ending
<1>13. CASE Reset \/ ReadCancelled
  BY <1>13, <1>2 DEF Reset, ReadCancelled
<1> QED
  BY <1>5, <1>6, <1>7, <1>10, <1>11, <1>12, <1>13

LEMMA CallPreserved == CallInv /\ [CallNext]_callVars => CallInv'
<1> SUFFICES ASSUME CallInv, [CallNext]_callVars PROVE CallInv'
  OBVIOUS
<1>1. CASE ContextEnds
  <2>1. ctxEnded' = TRUE
        /\ UNCHANGED <<mode, lax, callAt, attempt, requests, acc, sent, shown, outcome>>
    BY <1>1 DEF ContextEnds
  <2> QED
    BY <2>1 DEF CallInv, CallTypeOK, RequestsCounted, AccIsShown, OutcomeLast,
                ShownOnce, NoSilentPartial
<1>2. CASE UNCHANGED callVars
  BY <1>2 DEF callVars, CallInv, CallTypeOK, RequestsCounted, AccIsShown, OutcomeLast,
              ShownOnce, NoSilentPartial
<1> QED
  BY <1>1, <1>2, RequestPreserves, StreamPreserves DEF CallNext

LEMMA CallInductive == CallSpec => []CallInv
<1> QED
  BY CallInitially, CallPreserved, PTL DEF CallSpec

-----------------------------------------------------------------------------
\* Types of the variables of a call; the counts of attempts and requests stay
\* within MaxRetries (httpretry/retry.go:12).
THEOREM CallTypeCorrect == CallSpec => []CallTypeOK
<1>1. CallInv => CallTypeOK
  BY DEF CallInv
<1> QED
  BY <1>1, CallInductive, PTL

\* No delta is shown twice however often the call is retried, and a reply that
\* is returned is what was shown (stream.go:192).
THEOREM DeltasShownOnce == CallSpec => []ShownOnce
<1>1. CallInv => ShownOnce
  BY DEF CallInv
<1> QED
  BY <1>1, CallInductive, PTL

\* A connection that drops, wherever it does, never passes for the end of an answer
\* with anything in it (stream_parse.go:130).  It may pass for an empty one, and the
\* tool calls of an ended answer need not be whole.
THEOREM DropIsNoAnswer == CallSpec => []NoSilentPartial
<1>1. CallInv => NoSilentPartial
  BY DEF CallInv
<1> QED
  BY <1>1, CallInductive, PTL

\* A request is only sent for a new attempt, and never once the context has
\* ended (client.go:130, stream.go:90).
THEOREM RequestsBounded == CallSpec => RequestsEndWithContext
<1>1. CallInv /\ [CallNext]_callVars =>
        [requests' # requests => ~ctxEnded /\ requests' = attempt + 1]_callVars
  <2> SUFFICES ASSUME CallInv, CallNext, requests' # requests
               PROVE  ~ctxEnded /\ requests' = attempt + 1
    OBVIOUS
  <2>1. Send
    BY DEF CallNext, PrepareFails, Wake, SleepCancelled, NetworkError, RetryableStatus,
           BodyBreaks, BadBody, GoodBody, OtherStatus, StreamOpens, Delta, ChunkFails, RoleChunk, ToolOpens,
           ToolCloses, Finish, DoneMarker, CleanClose, CutInLine, Reset, ReadCancelled,
           ContextEnds, Answered, Going, Ending, Streaming
  <2>2. callAt = "start" /\ requests = attempt
    BY <2>1 DEF Send, CallInv, RequestsCounted
  <2> QED
    BY <2>1, <2>2 DEF Send
<1> QED
  BY <1>1, CallInductive, PTL DEF CallSpec, RequestsEndWithContext

(***************************************************************************)
(* ShellRun: what is left of a command when the tool answers, and what its *)
(* answer is worth, for any output and any exit codes.                     *)
(***************************************************************************)

\* The processes of a command come from its leader, which starts after nothing.
\* A leader that runs has no status yet, one that is gone has one.
LeaderFirst ==
  /\ proc["leader"] = "absent" => proc["child"] = "absent"
  /\ caller = "start" => proc["leader"] = "absent"
  /\ proc["leader"] = "absent" => caller \in {"start", "returned"}
  /\ status = NotSet <=> proc["leader"] # "dead"
  /\ reaped <=> waiter # "leader"
  /\ reaped => proc["leader"] = "dead"

\* After the caller's kill nothing of the group is left, nor is there ever again.
GroupGone ==
  caller \in {"classify", "returned"} => \A p \in Group : ~Alive(p)

\* What Wait returned is what the leader's status and the copier say.
WaitErrSound ==
  /\ waitErr # "none" <=> waiter \in {"close", "done"}
  /\ waitErr # "none" => copier \in {"eof", "failed"}
  /\ waitErr = "clean" => status = 0 /\ copier = "eof"
  /\ waitErr = "exit" => status # 0

\* The copier is behind by what it holds; at the end of the pipe by nothing.
CopierSound ==
  /\ copier \in {"read", "eof"} => read = copied
  /\ copier = "eof" => copied = written

\* The pipe is closed under the copier only when the call is over or cancelled.
ClosedEarly ==
  /\ killer # "waiting" => RunDone
  /\ pipeClosed => RunDone \/ waiter = "done"
  /\ copier = "failed" => RunDone

\* What the caller got is what Wait returned, unless it gave up.
RunErrSound ==
  /\ caller \in {"start", "drain", "wait"} => runErr = "none"
  /\ runErr \notin {"none", "held"} => runErr = waitErr

\* An answer with a code was made of what Wait returned.
AnswerSound ==
  /\ caller # "returned" <=> result.kind = "none"
  /\ result.kind = "ok" =>
       /\ result.code = status /\ proc["leader"] = "dead"
       /\ (~parentDone \/ result.code = 0) => copier = "eof"

ShellInv ==
  /\ ShellTypeOK /\ LeaderFirst /\ GroupGone /\ WaitErrSound /\ CopierSound
  /\ ClosedEarly /\ RunErrSound /\ AnswerSound

LEMMA ShellInitially == ShellInit => ShellInv
<1> SUFFICES ASSUME ShellInit PROVE ShellInv
  OBVIOUS
<1>1. ShellTypeOK
  <2>1. 0 \in 0..MaxBytes /\ 0 \in 0..0
    BY ShellRunAssumption
  <2>2. proc \in [Processes -> {"absent", "holding", "redirected", "dead"}]
    BY DEF ShellInit
  <2> QED
    BY <2>1, <2>2 DEF ShellInit, ShellTypeOK, NoResult
<1>2. LeaderFirst /\ GroupGone
  BY DEF ShellInit, LeaderFirst, GroupGone, Processes
<1>3. WaitErrSound /\ CopierSound /\ ClosedEarly /\ RunErrSound
  BY DEF ShellInit, WaitErrSound, CopierSound, ClosedEarly, RunErrSound
<1>4. AnswerSound
  BY DEF ShellInit, AnswerSound, NoResult
<1> QED
  BY <1>1, <1>2, <1>3, <1>4 DEF ShellInv

-----------------------------------------------------------------------------
(* The caller.                                                              *)

LEMMA CallerKeeps ==
  ASSUME ShellInv, CallerSteps
  PROVE  ShellInv'
<1>1. CASE StartShell
  <2>1. (GroupGone /\ WaitErrSound /\ CopierSound
       /\ ClosedEarly /\ RunErrSound /\ AnswerSound)'
    BY <1>1 DEF ShellInv, GroupGone, WaitErrSound, CopierSound, ClosedEarly,
       RunErrSound, AnswerSound, StartShell, pipeVars, goVars, ctxVars
  <2>2. ShellTypeOK'
    BY <1>1 DEF ShellInv, ShellTypeOK, Processes, StartShell, pipeVars, goVars,
       ctxVars
  <2>3. LeaderFirst'
    BY <1>1 DEF ShellInv, LeaderFirst, ShellTypeOK, Processes, StartShell, pipeVars,
       goVars, ctxVars
  <2> QED
    BY <2>1, <2>2, <2>3 DEF ShellInv
<1>2. CASE StartFails
  <2>1. (ShellTypeOK /\ LeaderFirst /\ WaitErrSound
       /\ CopierSound /\ RunErrSound /\ AnswerSound)'
    BY <1>2 DEF ShellInv, ShellTypeOK, LeaderFirst, WaitErrSound, CopierSound,
       RunErrSound, AnswerSound, StartFails, osVars, pipeVars, goVars, ctxVars
  <2>2. GroupGone'
    BY <1>2 DEF ShellInv, GroupGone, LeaderFirst, Alive, Group, StartFails, osVars,
       pipeVars, goVars, ctxVars
  <2>3. ClosedEarly'
    BY <1>2 DEF ShellInv, ClosedEarly, RunDone, StartFails, osVars, pipeVars,
       goVars, ctxVars
  <2> QED
    BY <2>1, <2>2, <2>3 DEF ShellInv
<1>3. CASE DrainEnds
  <2>1. (ShellTypeOK /\ LeaderFirst /\ GroupGone /\ WaitErrSound
       /\ CopierSound /\ RunErrSound /\ AnswerSound)'
    BY <1>3 DEF ShellInv, ShellTypeOK, LeaderFirst, GroupGone, WaitErrSound,
       CopierSound, RunErrSound, AnswerSound, DrainEnds, osVars, pipeVars, goVars,
       ctxVars
  <2>2. ClosedEarly'
    BY <1>3 DEF ShellInv, ClosedEarly, RunDone, DrainEnds, osVars, pipeVars, goVars,
       ctxVars
  <2> QED
    BY <2>1, <2>2 DEF ShellInv
<1>4. CASE WaitAnswers
  <2>1. (ShellTypeOK /\ LeaderFirst /\ GroupGone /\ WaitErrSound
       /\ CopierSound /\ RunErrSound /\ AnswerSound)'
    BY <1>4 DEF ShellInv, ShellTypeOK, LeaderFirst, GroupGone, WaitErrSound,
       CopierSound, RunErrSound, AnswerSound, WaitAnswers, osVars, pipeVars, goVars,
       ctxVars
  <2>2. ClosedEarly'
    BY <1>4 DEF ShellInv, ClosedEarly, RunDone, WaitAnswers, osVars, pipeVars,
       goVars, ctxVars
  <2> QED
    BY <2>1, <2>2 DEF ShellInv
<1>5. CASE GivesUp
  <2>1. (ShellTypeOK /\ LeaderFirst /\ GroupGone /\ WaitErrSound
       /\ CopierSound /\ RunErrSound /\ AnswerSound)'
    BY <1>5 DEF ShellInv, ShellTypeOK, LeaderFirst, GroupGone, WaitErrSound,
       CopierSound, RunErrSound, AnswerSound, GivesUp, osVars, pipeVars, goVars,
       ctxVars
  <2>2. ClosedEarly'
    BY <1>5 DEF ShellInv, ClosedEarly, RunDone, GivesUp, osVars, pipeVars, goVars,
       ctxVars
  <2> QED
    BY <2>1, <2>2 DEF ShellInv
<1>6. CASE KillsRest
  <2>1. (RunErrSound /\ AnswerSound)'
    BY <1>6 DEF ShellInv, RunErrSound, AnswerSound, KillsRest, pipeVars, goVars,
       ctxVars
  <2>2. ShellTypeOK'
    BY <1>6 DEF ShellInv, ShellTypeOK, KillGroup, KillsRest, pipeVars, goVars,
       ctxVars
  <2>3. LeaderFirst'
    BY <1>6 DEF ShellInv, LeaderFirst, KillGroup, Processes, Group, NotSet,
       Signalled, KillsRest, pipeVars, goVars, ctxVars
  <2>4. GroupGone'
    BY <1>6 DEF ShellInv, GroupGone, KillGroup, Alive, Processes, Group, KillsRest,
       pipeVars, goVars, ctxVars
  <2>5. WaitErrSound'
    BY <1>6 DEF ShellInv, WaitErrSound, LeaderFirst, KillGroup, Alive, KillsRest,
       pipeVars, goVars, ctxVars
  <2>6. CopierSound'
    BY <1>6 DEF ShellInv, CopierSound, KillGroup, KillsRest, pipeVars, goVars,
       ctxVars
  <2>7. ClosedEarly'
    BY <1>6 DEF ShellInv, ClosedEarly, RunDone, KillsRest, pipeVars, goVars, ctxVars
  <2> QED
    BY <2>1, <2>2, <2>3, <2>4, <2>5, <2>6, <2>7 DEF ShellInv
<1>7. CASE Classify
  <2>1. (ShellTypeOK /\ LeaderFirst /\ WaitErrSound
       /\ CopierSound /\ RunErrSound)'
    BY <1>7 DEF ShellInv, ShellTypeOK, LeaderFirst, WaitErrSound, CopierSound,
       RunErrSound, Classify, osVars, pipeVars, goVars, ctxVars
  <2>2. GroupGone'
    BY <1>7 DEF ShellInv, GroupGone, Alive, Classify, osVars, pipeVars, goVars,
       ctxVars
  <2>3. ClosedEarly'
    BY <1>7 DEF ShellInv, ClosedEarly, RunDone, Classify, osVars, pipeVars, goVars,
       ctxVars
  <2>4. AnswerSound'
    <3>1. /\ caller' = "returned" /\ result'.kind # "none"
          /\ UNCHANGED <<status, proc, copier, parentDone>>
      BY <1>7 DEF Classify, osVars, pipeVars, ctxVars
    <3>2. ASSUME result'.kind = "ok"
          PROVE  /\ parentDone \/ ~expired
                 /\ \/ runErr = "clean" /\ result'.code = 0
                    \/ runErr = "exit" /\ result'.code = status
      <4>1. ~(~parentDone /\ expired)
        BY <1>7, <3>2 DEF Classify
      <4>2. CASE runErr = "clean"
        BY <1>7, <4>1, <4>2 DEF Classify
      <4>3. CASE runErr = "exit"
        BY <1>7, <4>1, <4>3 DEF Classify
      <4>4. CASE runErr = "signal"
        BY <1>7, <3>2, <4>1, <4>4 DEF Classify
      <4>5. CASE runErr \notin {"clean", "exit", "signal"}
        BY <1>7, <3>2, <4>1, <4>5 DEF Classify
      <4> QED
        BY <4>1, <4>2, <4>3, <4>4, <4>5
    <3>3. ASSUME result'.kind = "ok"
          PROVE  /\ proc["leader"] = "dead" /\ copier \in {"eof", "failed"}
                 /\ result'.code = status
                 /\ result'.code = 0 => copier = "eof"
      BY <3>2, <3>3, <1>7 DEF ShellInv, LeaderFirst, WaitErrSound, RunErrSound, Classify
    <3>4. copier = "failed" => parentDone \/ expired
      BY <1>7 DEF ShellInv, ClosedEarly, RunDone, Classify
    <3> QED
      BY <3>1, <3>2, <3>3, <3>4 DEF AnswerSound
  <2> QED
    BY <2>1, <2>2, <2>3, <2>4 DEF ShellInv
<1> QED
  BY <1>1, <1>2, <1>3, <1>4, <1>5, <1>6, <1>7 DEF CallerSteps

-----------------------------------------------------------------------------
(* The goroutines.                                                          *)

LEMMA GoroutinesKeep ==
  ASSUME ShellInv, GoroutineSteps
  PROVE  ShellInv'
<1>1. CASE CopierReads
  <2>1. (ShellTypeOK /\ LeaderFirst /\ WaitErrSound
       /\ CopierSound /\ RunErrSound /\ AnswerSound)'
    BY <1>1 DEF ShellInv, ShellTypeOK, LeaderFirst, WaitErrSound, CopierSound,
       RunErrSound, AnswerSound, CopierReads, osVars, goVars, callerVars, ctxVars
  <2>2. GroupGone'
    BY <1>1 DEF ShellInv, GroupGone, Alive, CopierReads, osVars, goVars, callerVars,
       ctxVars
  <2>3. ClosedEarly'
    BY <1>1 DEF ShellInv, ClosedEarly, RunDone, CopierReads, osVars, goVars,
       callerVars, ctxVars
  <2> QED
    BY <2>1, <2>2, <2>3 DEF ShellInv
<1>2. CASE CopierWrites
  <2>1. (ShellTypeOK /\ LeaderFirst /\ WaitErrSound
       /\ CopierSound /\ RunErrSound /\ AnswerSound)'
    BY <1>2 DEF ShellInv, ShellTypeOK, LeaderFirst, WaitErrSound, CopierSound,
       RunErrSound, AnswerSound, CopierWrites, osVars, goVars, callerVars, ctxVars
  <2>2. GroupGone'
    BY <1>2 DEF ShellInv, GroupGone, Alive, CopierWrites, osVars, goVars,
       callerVars, ctxVars
  <2>3. ClosedEarly'
    BY <1>2 DEF ShellInv, ClosedEarly, WaitErrSound, RunDone, CopierWrites, osVars,
       goVars, callerVars, ctxVars
  <2> QED
    BY <2>1, <2>2, <2>3 DEF ShellInv
<1>3. CASE WatcherKills
  <2>1. (CopierSound /\ RunErrSound)'
    BY <1>3 DEF ShellInv, CopierSound, RunErrSound, WatcherKills, pipeVars,
       callerVars, ctxVars
  <2>2. ShellTypeOK'
    BY <1>3 DEF ShellInv, ShellTypeOK, Processes, WatcherKills, pipeVars,
       callerVars, ctxVars
  <2>3. LeaderFirst'
    BY <1>3 DEF ShellInv, LeaderFirst, ShellTypeOK, Running, Processes, NotSet,
       Signalled, WatcherKills, pipeVars, callerVars, ctxVars
  <2>4. GroupGone'
    BY <1>3 DEF ShellInv, GroupGone, Alive, WatcherKills, pipeVars, callerVars,
       ctxVars
  <2>5. WaitErrSound'
    BY <1>3 DEF ShellInv, WaitErrSound, LeaderFirst, Alive, WatcherKills, pipeVars,
       callerVars, ctxVars
  <2>6. ClosedEarly'
    BY <1>3 DEF ShellInv, ClosedEarly, RunDone, WatcherKills, pipeVars, callerVars,
       ctxVars
  <2>7. AnswerSound'
    BY <1>3 DEF ShellInv, AnswerSound, Alive, WatcherKills, pipeVars, callerVars,
       ctxVars
  <2> QED
    BY <2>1, <2>2, <2>3, <2>4, <2>5, <2>6, <2>7 DEF ShellInv
<1>4. CASE WaiterReaps
  <2>1. (ShellTypeOK /\ LeaderFirst /\ WaitErrSound
       /\ CopierSound /\ RunErrSound /\ AnswerSound)'
    BY <1>4 DEF ShellInv, ShellTypeOK, LeaderFirst, WaitErrSound, CopierSound,
       RunErrSound, AnswerSound, WaiterReaps, pipeVars, callerVars, ctxVars
  <2>2. GroupGone'
    BY <1>4 DEF ShellInv, GroupGone, Alive, WaiterReaps, pipeVars, callerVars,
       ctxVars
  <2>3. ClosedEarly'
    BY <1>4 DEF ShellInv, ClosedEarly, RunDone, WaiterReaps, pipeVars, callerVars,
       ctxVars
  <2> QED
    BY <2>1, <2>2, <2>3 DEF ShellInv
<1>5. CASE WaiterJoinsWatcher
  <2>1. (ShellTypeOK /\ LeaderFirst /\ WaitErrSound
       /\ CopierSound /\ RunErrSound /\ AnswerSound)'
    BY <1>5 DEF ShellInv, ShellTypeOK, LeaderFirst, WaitErrSound, CopierSound,
       RunErrSound, AnswerSound, WaiterJoinsWatcher, osVars, pipeVars, callerVars,
       ctxVars
  <2>2. GroupGone'
    BY <1>5 DEF ShellInv, GroupGone, Alive, WaiterJoinsWatcher, osVars, pipeVars,
       callerVars, ctxVars
  <2>3. ClosedEarly'
    BY <1>5 DEF ShellInv, ClosedEarly, RunDone, WaiterJoinsWatcher, osVars,
       pipeVars, callerVars, ctxVars
  <2> QED
    BY <2>1, <2>2, <2>3 DEF ShellInv
<1>6. CASE WaiterJoinsCopier
  <2>1. (LeaderFirst /\ CopierSound /\ AnswerSound)'
    BY <1>6 DEF ShellInv, LeaderFirst, CopierSound, AnswerSound, WaiterJoinsCopier,
       osVars, pipeVars, callerVars, ctxVars
  <2>2. ShellTypeOK'
    BY <1>6 DEF ShellInv, ShellTypeOK, LeaderErr, WaiterJoinsCopier, osVars,
       pipeVars, callerVars, ctxVars
  <2>3. GroupGone'
    BY <1>6 DEF ShellInv, GroupGone, Alive, WaiterJoinsCopier, osVars, pipeVars,
       callerVars, ctxVars
  <2>4. WaitErrSound'
    BY <1>6 DEF ShellInv, WaitErrSound, LeaderErr, WaiterJoinsCopier, osVars,
       pipeVars, callerVars, ctxVars
  <2>5. ClosedEarly'
    BY <1>6 DEF ShellInv, ClosedEarly, RunDone, WaiterJoinsCopier, osVars, pipeVars,
       callerVars, ctxVars
  <2>6. RunErrSound'
    BY <1>6 DEF ShellInv, RunErrSound, WaitErrSound, WaiterJoinsCopier, osVars,
       pipeVars, callerVars, ctxVars
  <2> QED
    BY <2>1, <2>2, <2>3, <2>4, <2>5, <2>6 DEF ShellInv
<1>7. CASE WaiterCloses
  <2>1. (ShellTypeOK /\ LeaderFirst /\ WaitErrSound
       /\ CopierSound /\ RunErrSound /\ AnswerSound)'
    BY <1>7 DEF ShellInv, ShellTypeOK, LeaderFirst, WaitErrSound, CopierSound,
       RunErrSound, AnswerSound, WaiterCloses, osVars, callerVars, ctxVars
  <2>2. GroupGone'
    BY <1>7 DEF ShellInv, GroupGone, Alive, WaiterCloses, osVars, callerVars,
       ctxVars
  <2>3. ClosedEarly'
    BY <1>7 DEF ShellInv, ClosedEarly, RunDone, WaiterCloses, osVars, callerVars,
       ctxVars
  <2> QED
    BY <2>1, <2>2, <2>3 DEF ShellInv
<1>8. CASE KillerKills
  <2>1. RunErrSound'
    BY <1>8 DEF ShellInv, RunErrSound, KillerKills, pipeVars, callerVars, ctxVars
  <2>2. ShellTypeOK'
    BY <1>8 DEF ShellInv, ShellTypeOK, KillGroup, KillerKills, pipeVars, callerVars,
       ctxVars
  <2>3. LeaderFirst'
    BY <1>8 DEF ShellInv, LeaderFirst, KillGroup, Alive, Processes, Group, NotSet,
       Signalled, KillerKills, pipeVars, callerVars, ctxVars
  <2>4. GroupGone'
    BY <1>8 DEF ShellInv, GroupGone, KillGroup, Alive, Processes, Group,
       KillerKills, pipeVars, callerVars, ctxVars
  <2>5. WaitErrSound'
    BY <1>8 DEF ShellInv, WaitErrSound, LeaderFirst, KillGroup, Alive, KillerKills,
       pipeVars, callerVars, ctxVars
  <2>6. CopierSound'
    BY <1>8 DEF ShellInv, CopierSound, KillGroup, KillerKills, pipeVars, callerVars,
       ctxVars
  <2>7. ClosedEarly'
    BY <1>8 DEF ShellInv, ClosedEarly, RunDone, KillerKills, pipeVars, callerVars,
       ctxVars
  <2>8. AnswerSound'
    BY <1>8 DEF ShellInv, AnswerSound, KillGroup, Alive, Processes, KillerKills,
       pipeVars, callerVars, ctxVars
  <2> QED
    BY <2>1, <2>2, <2>3, <2>4, <2>5, <2>6, <2>7, <2>8 DEF ShellInv
<1>9. CASE KillerCloses
  <2>1. (ShellTypeOK /\ LeaderFirst /\ WaitErrSound
       /\ CopierSound /\ RunErrSound /\ AnswerSound)'
    BY <1>9 DEF ShellInv, ShellTypeOK, LeaderFirst, WaitErrSound, CopierSound,
       RunErrSound, AnswerSound, KillerCloses, osVars, callerVars, ctxVars
  <2>2. GroupGone'
    BY <1>9 DEF ShellInv, GroupGone, Alive, KillerCloses, osVars, callerVars,
       ctxVars
  <2>3. ClosedEarly'
    BY <1>9 DEF ShellInv, ClosedEarly, RunDone, KillerCloses, osVars, callerVars,
       ctxVars
  <2> QED
    BY <2>1, <2>2, <2>3 DEF ShellInv
<1> QED
  BY <1>1, <1>2, <1>3, <1>4, <1>5, <1>6, <1>7, <1>8, <1>9 DEF GoroutineSteps

-----------------------------------------------------------------------------
(* The command.                                                             *)

LEMMA CommandKeeps ==
  ASSUME ShellInv, NEW p \in Processes, NEW how \in {"holding", "redirected"}, NEW code \in ExitCodes,
         Fork(p, how) \/ WriteOut(p) \/ Exit(p, code)
  PROVE  ShellInv'
<1>1. CASE Fork(p, how)
  <2>1. (ShellTypeOK /\ WaitErrSound /\ CopierSound
       /\ RunErrSound /\ AnswerSound)'
    BY <1>1 DEF ShellInv, ShellTypeOK, WaitErrSound, CopierSound, RunErrSound,
       AnswerSound, Fork, pipeVars, goVars, callerVars, ctxVars
  <2>2. LeaderFirst'
    BY <1>1 DEF ShellInv, LeaderFirst, Alive, Fork, pipeVars, goVars, callerVars,
       ctxVars
  <2>3. GroupGone'
    BY <1>1 DEF ShellInv, GroupGone, Group, Fork, pipeVars, goVars, callerVars,
       ctxVars
  <2>4. ClosedEarly'
    BY <1>1 DEF ShellInv, ClosedEarly, RunDone, Fork, pipeVars, goVars, callerVars,
       ctxVars
  <2> QED
    BY <2>1, <2>2, <2>3, <2>4 DEF ShellInv
<1>2. CASE WriteOut(p)
  <2>1. (LeaderFirst /\ WaitErrSound /\ CopierSound
       /\ RunErrSound /\ AnswerSound)'
    BY <1>2 DEF ShellInv, LeaderFirst, WaitErrSound, CopierSound, RunErrSound,
       AnswerSound, WriteOut, pipeVars, goVars, callerVars, ctxVars
  <2>2. ShellTypeOK'
    BY <1>2, ShellRunAssumption DEF ShellInv, ShellTypeOK, WriteOut, pipeVars,
       goVars, callerVars, ctxVars
  <2>3. GroupGone'
    BY <1>2 DEF ShellInv, GroupGone, Alive, WriteOut, pipeVars, goVars, callerVars,
       ctxVars
  <2>4. ClosedEarly'
    BY <1>2 DEF ShellInv, ClosedEarly, RunDone, WriteOut, pipeVars, goVars,
       callerVars, ctxVars
  <2> QED
    BY <2>1, <2>2, <2>3, <2>4 DEF ShellInv
<1>3. CASE Exit(p, code)
  <2>1. (ShellTypeOK /\ CopierSound /\ RunErrSound)'
    BY <1>3 DEF ShellInv, ShellTypeOK, CopierSound, RunErrSound, Exit, pipeVars,
       goVars, callerVars, ctxVars
  <2>2. LeaderFirst'
    BY <1>3, ShellRunAssumption DEF ShellInv, LeaderFirst, ShellTypeOK, Alive,
       NotSet, Exit, pipeVars, goVars, callerVars, ctxVars
  <2>3. GroupGone'
    BY <1>3 DEF ShellInv, GroupGone, Alive, Exit, pipeVars, goVars, callerVars,
       ctxVars
  <2>4. WaitErrSound'
    BY <1>3 DEF ShellInv, WaitErrSound, LeaderFirst, Alive, Exit, pipeVars, goVars,
       callerVars, ctxVars
  <2>5. ClosedEarly'
    BY <1>3 DEF ShellInv, ClosedEarly, RunDone, Exit, pipeVars, goVars, callerVars,
       ctxVars
  <2>6. AnswerSound'
    BY <1>3 DEF ShellInv, AnswerSound, Alive, Exit, pipeVars, goVars, callerVars,
       ctxVars
  <2> QED
    BY <2>1, <2>2, <2>3, <2>4, <2>5, <2>6 DEF ShellInv
<1> QED
  BY <1>1, <1>2, <1>3

-----------------------------------------------------------------------------
(* The system and the contexts.                                             *)

LEMMA OthersKeep ==
  ASSUME ShellInv, Recycle \/ CancelShell \/ Expire
  PROVE  ShellInv'
<1>1. CASE Recycle
  <2>1. (ShellTypeOK /\ LeaderFirst /\ WaitErrSound
       /\ CopierSound /\ RunErrSound /\ AnswerSound)'
    BY <1>1 DEF ShellInv, ShellTypeOK, LeaderFirst, WaitErrSound, CopierSound,
       RunErrSound, AnswerSound, Recycle, pipeVars, goVars, callerVars, ctxVars
  <2>2. GroupGone'
    BY <1>1 DEF ShellInv, GroupGone, Alive, Recycle, pipeVars, goVars, callerVars,
       ctxVars
  <2>3. ClosedEarly'
    BY <1>1 DEF ShellInv, ClosedEarly, RunDone, Recycle, pipeVars, goVars,
       callerVars, ctxVars
  <2> QED
    BY <2>1, <2>2, <2>3 DEF ShellInv
<1>2. CASE CancelShell
  <2>1. (ShellTypeOK /\ LeaderFirst /\ WaitErrSound
       /\ CopierSound /\ RunErrSound /\ AnswerSound)'
    BY <1>2 DEF ShellInv, ShellTypeOK, LeaderFirst, WaitErrSound, CopierSound,
       RunErrSound, AnswerSound, CancelShell, osVars, pipeVars, goVars, callerVars
  <2>2. GroupGone'
    BY <1>2 DEF ShellInv, GroupGone, Alive, CancelShell, osVars, pipeVars, goVars,
       callerVars
  <2>3. ClosedEarly'
    BY <1>2 DEF ShellInv, ClosedEarly, RunDone, CancelShell, osVars, pipeVars,
       goVars, callerVars
  <2> QED
    BY <2>1, <2>2, <2>3 DEF ShellInv
<1>3. CASE Expire
  <2>1. (ShellTypeOK /\ LeaderFirst /\ WaitErrSound
       /\ CopierSound /\ RunErrSound /\ AnswerSound)'
    BY <1>3 DEF ShellInv, ShellTypeOK, LeaderFirst, WaitErrSound, CopierSound,
       RunErrSound, AnswerSound, Expire, osVars, pipeVars, goVars, callerVars
  <2>2. GroupGone'
    BY <1>3 DEF ShellInv, GroupGone, Alive, Expire, osVars, pipeVars, goVars,
       callerVars
  <2>3. ClosedEarly'
    BY <1>3 DEF ShellInv, ClosedEarly, RunDone, Expire, osVars, pipeVars, goVars,
       callerVars
  <2> QED
    BY <2>1, <2>2, <2>3 DEF ShellInv
<1> QED
  BY <1>1, <1>2, <1>3

-----------------------------------------------------------------------------
(* Together.                                                                *)

LEMMA ShellInvStep == ShellInv /\ [ShellNext]_shellVars => ShellInv'
<1> SUFFICES ASSUME ShellInv, [ShellNext]_shellVars PROVE ShellInv'
  OBVIOUS
<1>1. CASE CallerSteps
  BY <1>1, CallerKeeps
<1>2. CASE GoroutineSteps
  BY <1>2, GoroutinesKeep
<1>3. ASSUME NEW p \in Processes,
             \/ \E how \in {"holding", "redirected"} : Fork(p, how)
             \/ WriteOut(p)
             \/ \E code \in ExitCodes : Exit(p, code)
      PROVE  ShellInv'
  <2>1. "holding" \in {"holding", "redirected"} /\ 0 \in ExitCodes
    BY ShellRunAssumption
  <2> QED
    BY <1>3, <2>1, CommandKeeps
<1>4. CASE Recycle \/ CancelShell \/ Expire
  BY <1>4, OthersKeep
<1>5. CASE UNCHANGED shellVars
  <2>1. (ShellTypeOK /\ LeaderFirst /\ WaitErrSound /\ CopierSound /\ RunErrSound
          /\ AnswerSound)'
    BY <1>5 DEF ShellInv, ShellTypeOK, LeaderFirst, WaitErrSound, CopierSound, RunErrSound,
       AnswerSound, shellVars
  <2>2. GroupGone' /\ ClosedEarly'
    BY <1>5 DEF ShellInv, GroupGone, ClosedEarly, Alive, RunDone, shellVars
  <2> QED
    BY <2>1, <2>2 DEF ShellInv
<1> QED
  BY <1>1, <1>2, <1>3, <1>4, <1>5 DEF ShellNext

LEMMA ShellInvAlways == ShellSpec => []ShellInv
<1>1. ShellInit => ShellInv
  BY ShellInitially
<1>2. ShellInv /\ [ShellNext]_shellVars => ShellInv'
  BY ShellInvStep
<1> QED
  BY <1>1, <1>2, PTL DEF ShellSpec

\* Types of a shell call: what Wait, the copier and the caller may say.
THEOREM ShellTypeCorrect == ShellSpec => []ShellTypeOK
<1>1. ShellInv => ShellTypeOK
  BY DEF ShellInv
<1> QED
  BY <1>1, ShellInvAlways, PTL

\* Nothing of the command's process group runs when the tool has answered
\* (runShellLimited kills the rest before it returns).
THEOREM GroupKilled == ShellSpec => []NoGroupSurvivor
<1>1. ShellInv => NoGroupSurvivor
  BY DEF ShellInv, AnswerSound, GroupGone, NoGroupSurvivor
<1> QED
  BY <1>1, ShellInvAlways, PTL

\* An answer with an exit code is that of a command that ended by itself and,
\* unless the turn was cancelled, whose whole output was read (runShellCommand).
THEOREM CodesTrustworthy == ShellSpec => []CodeIsTrustworthy
<1>1. ShellInv => CodeIsTrustworthy
  BY DEF ShellInv, AnswerSound, CopierSound, CodeIsTrustworthy
<1> QED
  BY <1>1, ShellInvAlways, PTL

(***************************************************************************)
(* FileTools: the locks keep parallel edits of a file from losing each     *)
(* other, and an answer tells what its call did, for any number of calls,  *)
(* any edits and any failures.                                             *)
(***************************************************************************)

Critical == {"read", "temp", "fill", "rename", "sync"}

\* From its read to its rename an edit has the lock.
Held == \A c \in Edits : workerAt[c] \in Critical => lockedBy = c

\* A write never waits for the lock and reads nothing.
Route == \A c \in Calls : workerAt[c] \in {"lock", "read"} => c \in Edits

\* No edit has been committed since the one that is being written read the file.
Fresh ==
  \A c \in Edits : workerAt[c] \in {"temp", "fill", "rename"} =>
    \A j \in (sawCommits[c] + 1)..Len(commits) : commits[j] \notin Edits

\* A committed call is at its end: it will neither read nor commit again.
CommittedIsOver == \A i \in 1..Len(commits) : workerAt[commits[i]] \in {"sync", "done"}

OrderInv == FileTypeOK /\ Held /\ Route /\ Fresh /\ CommittedIsOver /\ NoLostEdit

Committed(c) == \E i \in 1..Len(commits) : commits[i] = c

\* A result is sent by a worker that is done, and says what it did.
SentIsTrue ==
  \A c \in Calls :
    /\ workerSent[c] # "none" => workerAt[c] = "done"
    /\ workerSent[c] = "ok" => Committed(c)
    /\ workerSent[c] = "error" => ~Committed(c)
    /\ workerAt[c] = "sync" => Committed(c)
    /\ c \in temps => workerAt[c] \in {"fill", "rename"}

\* What a call answers about the file is what its worker sent.
AnswerIsSent ==
  \A c \in Calls :
    /\ callAnswer[c] \in {"ok", "error"} => workerSent[c] = callAnswer[c]
    /\ callPhase[c] = "idle" => workerAt[c] = "none" /\ callAnswer[c] = "none"

AnswerInv == OrderInv /\ SentIsTrue /\ AnswerIsSent

LEMMA FileInitially == FileInit => AnswerInv
<1> SUFFICES ASSUME FileInit PROVE AnswerInv
  OBVIOUS
<1>1. FileTypeOK
  <2>1. <<>> \in Seq(Calls) /\ 0 \in Nat
    OBVIOUS
  <2>2. temps \subseteq Calls /\ commits \in Seq(Calls) /\ sawCommits \in [Calls -> Nat]
    BY <2>1 DEF FileInit
  <2> QED
    BY <2>2 DEF FileInit, FileTypeOK
<1>2. Held /\ Route /\ Fresh /\ CommittedIsOver /\ NoLostEdit
  BY DEF FileInit, Held, Route, Fresh, CommittedIsOver, NoLostEdit, Critical, Edits
<1>3. SentIsTrue /\ AnswerIsSent
  BY DEF FileInit, SentIsTrue, AnswerIsSent
<1> QED
  BY <1>1, <1>2, <1>3 DEF AnswerInv, OrderInv

\* Every step keeps the types.
LEMMA FileTypes == FileTypeOK /\ [FileNext]_fileVars => FileTypeOK'
<1> SUFFICES ASSUME FileTypeOK, [FileNext]_fileVars PROVE FileTypeOK'
  OBVIOUS
<1> USE FileToolsAssumption DEF FileTypeOK, answerVars, diskVars
<1>1. ASSUME NEW c \in Calls, BeginCall(c) \/ CallerStep(c) PROVE FileTypeOK'
  <2>1. CASE BeginCall(c)
    BY <2>1 DEF BeginCall, AnswerWith
  <2>2. CASE TakeResult(c)
    <3>1. workerSent[c] \in {"ok", "error"}
      BY <2>2 DEF TakeResult
    <3> QED
      BY <2>2, <3>1 DEF TakeResult, AnswerWith
  <2>3. CASE SeesCancel(c)
    BY <2>3 DEF SeesCancel, AnswerWith
  <2>4. CASE SeesTimeout(c)
    BY <2>4 DEF SeesTimeout, AnswerWith
  <2>5. CASE GraceEnds(c)
    BY <2>5 DEF GraceEnds, AnswerWith
  <2> QED
    BY <1>1, <2>1, <2>2, <2>3, <2>4, <2>5 DEF CallerStep
<1>2. ASSUME NEW c \in Calls, WorkerStep(c) PROVE FileTypeOK'
  <2>1. CASE Check(c)
    BY <2>1 DEF Check, Leave, Goto
  <2>2. CASE FileStepFails(c)
    BY <2>2 DEF FileStepFails, Leave
  <2>3. CASE Lock(c)
    BY <2>3 DEF Lock
  <2>4. CASE ReadAndEdit(c)
    <3>1. Len(commits) \in Nat
      OBVIOUS
    <3> QED
      BY <2>4, <3>1 DEF ReadAndEdit, Leave, Goto
  <2>5. CASE MakeTemp(c) \/ FillTemp(c)
    BY <2>5 DEF MakeTemp, FillTemp, Goto
  <2>6. CASE RenameTemp(c)
    BY <2>6 DEF RenameTemp, Goto
  <2>7. CASE SyncParent(c)
    BY <2>7 DEF SyncParent, Leave
  <2> QED
    BY <1>2, <2>1, <2>2, <2>3, <2>4, <2>5, <2>6, <2>7 DEF WorkerStep
<1>3. CASE CancelCalls
  BY <1>3 DEF CancelCalls
<1>4. CASE UNCHANGED fileVars
  BY <1>4 DEF fileVars
<1> QED
  BY <1>1, <1>2, <1>3, <1>4 DEF FileNext

-----------------------------------------------------------------------------
(* The order of the commits.                                               *)

\* A step that leaves the commits and every worker at its place, or moves one
\* worker on without a read or a commit, and takes no lock from another.
LEMMA OrderQuiet ==
  ASSUME OrderInv, FileTypeOK', UNCHANGED <<commits, sawCommits>>,
         NEW c \in Calls, NEW pc, workerAt' = [workerAt EXCEPT ![c] = pc],
         pc \in Critical /\ c \in Edits => lockedBy' = c,
         \A d \in Edits : d # c /\ lockedBy = d => lockedBy' = d,
         pc \in {"lock", "read"} => c \in Edits,
         pc \in {"temp", "fill", "rename"} /\ c \in Edits =>
           workerAt[c] \in {"temp", "fill", "rename"},
         workerAt[c] \in {"sync", "done"} => pc \in {"sync", "done"}
  PROVE  OrderInv'
<1> USE DEF OrderInv, FileTypeOK
<1>1. Held'
  BY DEF Held, Edits, Critical
<1>2. Route'
  BY DEF Route, Edits
<1>3. Fresh'
  BY DEF Fresh, Edits
<1>4. CommittedIsOver'
  <2> SUFFICES ASSUME NEW i \in 1..Len(commits)
               PROVE  workerAt'[commits[i]] \in {"sync", "done"}
    BY DEF CommittedIsOver
  <2>1. workerAt[commits[i]] \in {"sync", "done"} /\ commits[i] \in Calls
    BY DEF CommittedIsOver
  <2> QED
    BY <2>1
<1>5. NoLostEdit'
  BY DEF NoLostEdit, Edits
<1> QED
  BY <1>1, <1>2, <1>3, <1>4, <1>5

LEMMA OrderRead ==
  ASSUME OrderInv, FileTypeOK', NEW c \in Calls, ReadAndEdit(c) PROVE OrderInv'
<1> USE DEF OrderInv, FileTypeOK
<1>1. PICK pc \in {"temp", "done"} :
        /\ workerAt' = [workerAt EXCEPT ![c] = pc]
        /\ lockedBy' = IF pc = "done" /\ lockedBy = c THEN NoOne ELSE lockedBy
  BY DEF ReadAndEdit, Leave, Goto
<1>2. /\ sawCommits' = [sawCommits EXCEPT ![c] = Len(commits)]
      /\ workerAt[c] = "read" /\ commits' = commits /\ Len(commits) \in Nat
  BY DEF ReadAndEdit, diskVars
<1>3. Held'
  BY <1>1, <1>2 DEF Held, Edits, Critical
<1>4. Route'
  BY <1>1, <1>2 DEF Route, Edits
<1>5. Fresh'
  BY <1>1, <1>2 DEF Fresh, Edits
<1>6. \A i \in 1..Len(commits) : commits[i] \in Calls /\ commits[i] # c
  <2> SUFFICES ASSUME NEW i \in 1..Len(commits) PROVE commits[i] \in Calls /\ commits[i] # c
    OBVIOUS
  <2>1. workerAt[commits[i]] \in {"sync", "done"}
    BY DEF CommittedIsOver
  <2>2. commits[i] # c
    BY <1>2, <2>1
  <2> QED
    BY <2>2
<1>7. CommittedIsOver'
  BY <1>1, <1>2, <1>6 DEF CommittedIsOver
<1>8. NoLostEdit'
  <2> SUFFICES ASSUME NEW i \in 1..Len(commits), commits[i] \in Edits,
                      NEW j \in (sawCommits'[commits[i]] + 1)..(i - 1)
               PROVE  commits[j] \notin Edits
    BY <1>2 DEF NoLostEdit, Edits
  <2>1. sawCommits'[commits[i]] = sawCommits[commits[i]]
    BY <1>2, <1>6
  <2> QED
    BY <2>1 DEF NoLostEdit
<1> QED
  BY <1>3, <1>4, <1>5, <1>7, <1>8

\* The lock is what makes the rename of an edit safe: no other edit can be
\* between its read and its rename.
LEMMA OrderRename ==
  ASSUME OrderInv, FileTypeOK', NEW c \in Calls, RenameTemp(c) PROVE OrderInv'
<1> USE DEF OrderInv, FileTypeOK
<1> DEFINE n == Len(commits)
<1>1. /\ commits' = Append(commits, c) /\ sawCommits' = sawCommits /\ lockedBy' = lockedBy
      /\ workerAt' = [workerAt EXCEPT ![c] = "sync"] /\ workerAt[c] = "rename"
  BY DEF RenameTemp, Goto
<1>2. /\ n \in Nat /\ Len(commits') = n + 1 /\ commits'[n + 1] = c
      /\ \A i \in 1..n : commits'[i] = commits[i]
  BY <1>1
<1> HIDE DEF n
<1>3. Held'
  BY <1>1 DEF Held, Edits, Critical
<1>4. Route'
  BY <1>1 DEF Route, Edits
<1>5. Fresh'
  <2> SUFFICES ASSUME NEW d \in Edits, workerAt'[d] \in {"temp", "fill", "rename"},
                      NEW j \in (sawCommits[d] + 1)..(n + 1)
               PROVE  commits'[j] \notin Edits
    BY <1>1, <1>2 DEF Fresh, Edits
  <2>1. d # c /\ workerAt[d] \in {"temp", "fill", "rename"} /\ d \in Calls
    BY <1>1 DEF Edits
  <2>2. c \notin Edits
    BY <1>1, <2>1 DEF Held, Critical
  <2>3. CASE j = n + 1
    BY <1>2, <2>2, <2>3
  <2>4. CASE j \in (sawCommits[d] + 1)..n
    <3>1. commits[j] \notin Edits
      BY <2>1, <2>4 DEF Fresh, n
    <3>2. j \in 1..n
      BY <2>1, <2>4, <1>2
    <3> QED
      BY <3>1, <3>2, <1>2
  <2> QED
    BY <1>2, <2>1, <2>3, <2>4
<1>6. CommittedIsOver'
  <2> SUFFICES ASSUME NEW i \in 1..(n + 1)
               PROVE  workerAt'[commits'[i]] \in {"sync", "done"}
    BY <1>2 DEF CommittedIsOver
  <2>1. CASE i = n + 1
    BY <2>1, <1>1, <1>2
  <2>2. CASE i \in 1..n
    <3>1. workerAt[commits[i]] \in {"sync", "done"} /\ commits[i] \in Calls
      BY <2>2, SMTT(30) DEF CommittedIsOver, n
    <3> QED
      BY <3>1, <2>2, <1>1, <1>2
  <2> QED
    BY <2>1, <2>2, <1>2
<1>7. NoLostEdit'
  <2> SUFFICES ASSUME NEW i \in 1..(n + 1), commits'[i] \in Edits,
                      NEW j \in (sawCommits[commits'[i]] + 1)..(i - 1)
               PROVE  commits'[j] \notin Edits
    BY <1>1, <1>2 DEF NoLostEdit, Edits
  <2>1. sawCommits[commits'[i]] \in Nat
    BY DEF Edits
  <2>2. j \in 1..n
    BY <2>1, <1>2
  <2>3. CASE i = n + 1
    <3>1. c \in Edits /\ j \in (sawCommits[c] + 1)..n
      BY <2>3, <1>2
    <3>2. commits[j] \notin Edits
      BY <3>1, <1>1 DEF Fresh, n
    <3> QED
      BY <3>2, <2>2, <1>2
  <2>4. CASE i \in 1..n
    <3>1. commits[i] \in Edits /\ j \in (sawCommits[commits[i]] + 1)..(i - 1)
      BY <2>4, <1>2
    <3>2. commits[j] \notin Edits
      BY <2>4, <3>1 DEF NoLostEdit, n
    <3> QED
      BY <3>2, <2>2, <1>2
  <2> QED
    BY <2>3, <2>4, <1>2
<1> QED
  BY <1>3, <1>4, <1>5, <1>6, <1>7

LEMMA OrderPreserved == OrderInv /\ AnswerIsSent /\ [FileNext]_fileVars => OrderInv'
<1> SUFFICES ASSUME OrderInv, AnswerIsSent, [FileNext]_fileVars PROVE OrderInv'
  OBVIOUS
<1> USE FileToolsAssumption
<1>1. FileTypeOK'
  BY FileTypes DEF OrderInv
<1>2. CASE UNCHANGED <<workerAt, lockedBy, commits, sawCommits>>
  BY <1>1, <1>2 DEF OrderInv, Held, Route, Fresh, CommittedIsOver, NoLostEdit, Edits
<1>3. ASSUME NEW c \in Calls, BeginCall(c) PROVE OrderInv'
  <2>1. CASE turnDone
    BY <1>2, <1>3, <2>1 DEF BeginCall, diskVars
  <2>2. CASE ~turnDone
    <3>1. /\ workerAt' = [workerAt EXCEPT ![c] = "check"] /\ workerAt[c] = "none"
          /\ UNCHANGED <<lockedBy, commits, sawCommits>>
      BY <1>3, <2>2 DEF BeginCall, diskVars, AnswerIsSent
    <3> QED
      BY <3>1, <1>1, OrderQuiet DEF Critical
  <2> QED
    BY <2>1, <2>2 DEF OrderInv, FileTypeOK
<1>4. ASSUME NEW c \in Calls, CallerStep(c) PROVE OrderInv'
  BY <1>2, <1>4 DEF CallerStep, TakeResult, SeesCancel, SeesTimeout, GraceEnds, diskVars
<1>5. ASSUME NEW c \in Calls, WorkerStep(c) PROVE OrderInv'
  <2>1. ASSUME NEW pc, pc \in {"temp", "fill"}, workerAt[c] = IF pc = "temp" THEN "check" ELSE "temp",
               Goto(c, pc), pc = "temp" => c \notin Edits, UNCHANGED <<commits, sawCommits>>
        PROVE  OrderInv'
    BY <2>1, <1>1, OrderQuiet DEF Goto, Critical, OrderInv, Held
  <2>2. ASSUME NEW r, Leave(c, r), workerAt[c] # "done", UNCHANGED <<commits, sawCommits>>
        PROVE  OrderInv'
    BY <2>2, <1>1, OrderQuiet DEF Leave, Critical
  <2>3. CASE Check(c)
    <3>1. CASE c \in Edits
      <4>1. /\ workerAt' = [workerAt EXCEPT ![c] = "lock"] /\ workerAt[c] = "check"
            /\ UNCHANGED <<lockedBy, commits, sawCommits>>
        BY <2>3, <3>1 DEF Check, Goto, Edits, diskVars
      <4> QED
        BY <3>1, <4>1, <1>1, OrderQuiet DEF Critical
    <3>2. CASE c \notin Edits
      <4>1. /\ workerAt[c] = "check" /\ UNCHANGED <<commits, sawCommits>>
            /\ Leave(c, "error") \/ Goto(c, "temp")
        BY <2>3, <3>2 DEF Check, Edits, diskVars
      <4> QED
        BY <4>1, <3>2, <2>1, <2>2
    <3> QED
      BY <3>1, <3>2
  <2>4. CASE FileStepFails(c)
    BY <2>4, <2>2 DEF FileStepFails
  <2>5. CASE Lock(c)
    <3>1. /\ workerAt' = [workerAt EXCEPT ![c] = "read"] /\ workerAt[c] = "lock"
          /\ lockedBy = NoOne /\ lockedBy' = c /\ UNCHANGED <<commits, sawCommits>>
      BY <2>5 DEF Lock, diskVars
    <3>2. c \in Edits /\ \A d \in Edits : lockedBy # d
      BY <3>1 DEF OrderInv, Route, Edits
    <3> QED
      BY <3>1, <3>2, <1>1, OrderQuiet DEF Critical
  <2>6. CASE ReadAndEdit(c)
    BY <2>6, <1>1, OrderRead
  <2>7. CASE MakeTemp(c)
    BY <2>7, <2>1 DEF MakeTemp
  <2>8. CASE FillTemp(c)
    <3>1. /\ workerAt' = [workerAt EXCEPT ![c] = "rename"] /\ workerAt[c] = "fill"
          /\ UNCHANGED <<lockedBy, commits, sawCommits>>
      BY <2>8 DEF FillTemp, Goto, diskVars
    <3>2. c \in Edits => lockedBy = c
      BY <3>1 DEF OrderInv, Held, Critical
    <3> QED
      BY <3>1, <3>2, <1>1, OrderQuiet DEF Critical
  <2>9. CASE RenameTemp(c)
    BY <2>9, <1>1, OrderRename
  <2>10. CASE SyncParent(c)
    BY <2>10, <2>2 DEF SyncParent, diskVars
  <2> QED
    BY <1>5, <2>3, <2>4, <2>5, <2>6, <2>7, <2>8, <2>9, <2>10 DEF WorkerStep
<1>6. CASE CancelCalls
  BY <1>2, <1>6 DEF CancelCalls, diskVars
<1>7. CASE UNCHANGED fileVars
  BY <1>2, <1>7 DEF fileVars
<1> QED
  BY <1>3, <1>4, <1>5, <1>6, <1>7 DEF FileNext

-----------------------------------------------------------------------------
(* The answers.                                                            *)

LEMMA AnswerPreserved == AnswerInv /\ [FileNext]_fileVars => (SentIsTrue /\ AnswerIsSent)'
<1> SUFFICES ASSUME AnswerInv, [FileNext]_fileVars PROVE (SentIsTrue /\ AnswerIsSent)'
  OBVIOUS
<1> USE DEF AnswerInv, OrderInv, FileTypeOK
<1>1. \A c \in Calls : Committed(c) => workerAt[c] \in {"sync", "done"}
  BY DEF Committed, CommittedIsOver
<1>2. ASSUME commits' = commits PROVE \A c : Committed(c)' <=> Committed(c)
  BY <1>2 DEF Committed
<1>3. ASSUME NEW c \in Calls, BeginCall(c) PROVE (SentIsTrue /\ AnswerIsSent)'
  <2>1. CASE turnDone
    <3>1. SentIsTrue'
      BY <1>2, <1>3, <2>1 DEF BeginCall, SentIsTrue, diskVars
    <3>2. /\ callAnswer' = [callAnswer EXCEPT ![c] = "cancelled"]
          /\ callPhase' = [callPhase EXCEPT ![c] = "answered"]
          /\ UNCHANGED <<workerAt, workerSent>>
      BY <1>3, <2>1 DEF BeginCall, AnswerWith
    <3>3. AnswerIsSent'
      BY <3>2 DEF AnswerIsSent
    <3> QED
      BY <3>1, <3>3
  <2>2. CASE ~turnDone
    <3>1. /\ workerAt' = [workerAt EXCEPT ![c] = "check"] /\ workerAt[c] = "none"
          /\ callPhase' = [callPhase EXCEPT ![c] = "waiting"]
          /\ UNCHANGED <<callAnswer, workerSent, temps, commits>>
      BY <1>3, <2>2 DEF BeginCall, AnswerIsSent, diskVars
    <3>2. SentIsTrue'
      BY <3>1, <1>2 DEF SentIsTrue
    <3>3. AnswerIsSent'
      BY <3>1 DEF AnswerIsSent
    <3> QED
      BY <3>2, <3>3
  <2> QED
    BY <2>1, <2>2
<1>4. ASSUME NEW c \in Calls, CallerStep(c) PROVE (SentIsTrue /\ AnswerIsSent)'
  <2>1. UNCHANGED <<workerAt, workerSent, temps, commits>>
    BY <1>4 DEF CallerStep, TakeResult, SeesCancel, SeesTimeout, GraceEnds, diskVars
  <2>2. SentIsTrue'
    BY <2>1, <1>2 DEF SentIsTrue
  <2>3. AnswerIsSent'
    BY <1>4, <2>1 DEF AnswerIsSent, CallerStep, TakeResult, SeesCancel, SeesTimeout,
                      GraceEnds, AnswerWith
  <2> QED
    BY <2>2, <2>3
<1>5. ASSUME NEW c \in Calls, WorkerStep(c) PROVE (SentIsTrue /\ AnswerIsSent)'
  <2>1. UNCHANGED answerVars /\ workerAt[c] \notin {"none", "done"}
    BY <1>5 DEF WorkerStep, Check, FileStepFails, Lock, ReadAndEdit, MakeTemp, FillTemp,
                RenameTemp, SyncParent
  <2>2. workerSent[c] = "none" /\ callPhase[c] # "idle"
    BY <2>1 DEF SentIsTrue, AnswerIsSent
  <2>3. ASSUME NEW r \in {"ok", "error"}, Leave(c, r), commits' = commits,
               temps' \subseteq temps, c \notin temps', r = "ok" <=> Committed(c)
        PROVE  (SentIsTrue /\ AnswerIsSent)'
    BY <2>1, <2>2, <2>3, <1>2 DEF Leave, SentIsTrue, AnswerIsSent, answerVars
  <2>4. ASSUME NEW pc, workerAt' = [workerAt EXCEPT ![c] = pc], workerSent' = workerSent,
               commits' = commits, pc # "sync", temps' \subseteq temps \cup {c},
               c \in temps' => pc \in {"fill", "rename"}
        PROVE  (SentIsTrue /\ AnswerIsSent)'
    BY <2>1, <2>2, <2>4, <1>2 DEF SentIsTrue, AnswerIsSent, answerVars
  <2>5. CASE Check(c)
    <3>1. /\ UNCHANGED <<commits, temps>> /\ c \notin temps /\ ~Committed(c)
          /\ Leave(c, "error") \/ Goto(c, "lock") \/ Goto(c, "temp")
      BY <2>5, <1>1 DEF Check, diskVars, SentIsTrue
    <3> QED
      BY <3>1, <2>3, <2>4 DEF Goto
  <2>6. CASE FileStepFails(c)
    BY <2>6, <2>3, <1>1 DEF FileStepFails
  <2>7. CASE Lock(c)
    <3>1. c \notin temps
      BY <2>7 DEF Lock, SentIsTrue
    <3> QED
      BY <2>7, <3>1, <2>4 DEF Lock, diskVars
  <2>8. CASE ReadAndEdit(c)
    <3>1. /\ UNCHANGED <<commits, temps>> /\ c \notin temps /\ ~Committed(c)
          /\ Leave(c, "error") \/ Goto(c, "temp")
      BY <2>8, <1>1 DEF ReadAndEdit, diskVars, SentIsTrue
    <3> QED
      BY <3>1, <2>3, <2>4 DEF Goto
  <2>9. CASE MakeTemp(c)
    BY <2>9, <2>4 DEF MakeTemp, Goto
  <2>10. CASE FillTemp(c)
    BY <2>10, <2>4 DEF FillTemp, Goto, diskVars
  <2>11. CASE RenameTemp(c)
    <3>1. /\ commits' = Append(commits, c) /\ workerSent' = workerSent
          /\ workerAt' = [workerAt EXCEPT ![c] = "sync"] /\ temps' = temps \ {c}
      BY <2>11 DEF RenameTemp, Goto
    <3>2. \A d : Committed(d)' <=> Committed(d) \/ d = c
      <4>1. /\ Len(commits) \in Nat /\ Len(commits') = Len(commits) + 1
            /\ commits'[Len(commits) + 1] = c
            /\ \A i \in 1..Len(commits) : commits'[i] = commits[i]
        BY <3>1
      <4>2. 1..Len(commits') = 1..Len(commits) \cup {Len(commits) + 1}
        BY <4>1
      <4> QED
        BY <4>1, <4>2 DEF Committed
    <3> QED
      BY <2>1, <2>2, <3>1, <3>2 DEF SentIsTrue, AnswerIsSent, answerVars
  <2>12. CASE SyncParent(c)
    BY <2>12, <2>3 DEF SyncParent, diskVars, SentIsTrue
  <2> QED
    BY <1>5, <2>5, <2>6, <2>7, <2>8, <2>9, <2>10, <2>11, <2>12 DEF WorkerStep
<1>6. CASE CancelCalls
  BY <1>2, <1>6 DEF CancelCalls, diskVars, SentIsTrue, AnswerIsSent
<1>7. CASE UNCHANGED fileVars
  BY <1>2, <1>7 DEF fileVars, SentIsTrue, AnswerIsSent
<1> QED
  BY <1>3, <1>4, <1>5, <1>6, <1>7 DEF FileNext

LEMMA FileInductive == FileSpec => []AnswerInv
<1>1. FileInit => AnswerInv
  BY FileInitially
<1>2. AnswerInv /\ [FileNext]_fileVars => AnswerInv'
  BY OrderPreserved, AnswerPreserved DEF AnswerInv
<1> QED
  BY <1>1, <1>2, PTL DEF FileSpec

-----------------------------------------------------------------------------
\* Types of the variables of the file tools, for any set of calls.
THEOREM FileTypeCorrect == FileSpec => []FileTypeOK
<1>1. AnswerInv => FileTypeOK
  BY DEF AnswerInv, OrderInv
<1> QED
  BY <1>1, FileInductive, PTL

\* Parallel edits of one file never lose each other, however many there are,
\* whichever of them were abandoned and whatever fails: the promise of
\* pathLocks (tool_edit.go:18).
THEOREM EditsNeverLost == FileSpec => []NoLostEdit
<1>1. AnswerInv => NoLostEdit
  BY DEF AnswerInv, OrderInv
<1> QED
  BY <1>1, FileInductive, PTL

\* A call that answers ok has renamed its file, one that answers with an error
\* has not and never will, and leaves no temporary file (writeFileAtomic).
THEOREM AnswersAreTrue == FileSpec => []AnswerIsTrue
<1>1. AnswerInv => AnswerIsTrue
  <2> SUFFICES ASSUME AnswerInv, NEW c \in Calls
               PROVE  /\ callAnswer[c] = "ok" => Committed(c)
                      /\ callAnswer[c] = "error" =>
                           workerAt[c] = "done" /\ c \notin temps /\ ~Committed(c)
    BY DEF AnswerIsTrue, Committed
  <2> QED
    BY DEF AnswerInv, SentIsTrue, AnswerIsSent
<1> QED
  BY <1>1, FileInductive, PTL
==============================================================================
