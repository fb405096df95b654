------------------------------ MODULE ChatCall ------------------------------
(***************************************************************************)
(* One call of an OpenAI-compatible endpoint, retries included:            *)
(* provider/openai/client.go (ChatClient.Do), models.go (ListModels),      *)
(* stream.go (StreamClient.DoStream) with stream_parse.go (parseSSE), and  *)
(* provider/httpretry/retry.go.                                            *)
(*                                                                         *)
(* The endpoint answers, breaks off or hangs as it likes, and marks the    *)
(* end of its answer wherever it likes.  Text and reasoning are tokens     *)
(* <<attempt, position>>; of tool calls only whether there is one and      *)
(* whether the arguments of one are incomplete; keepalives and usage       *)
(* chunks change nothing that matters.                                     *)
(***************************************************************************)
EXTENDS Naturals, Sequences

CONSTANTS
  MaxRetries,    \* httpretry.MaxRetries
  MaxResponse    \* maxStreamResponseBytes, in tokens

ASSUME ChatCallAssumption == MaxRetries \in Nat /\ MaxResponse \in Nat

VARIABLES
  mode,      \* Do, ListModels or DoStream
  lax,       \* StreamAllowUnterminated
  callAt,    \* where the call is
  attempt,   \* the loop counter
  requests,  \* requests sent
  ctxEnded,  \* the context is cancelled or past its deadline
  acc,       \* streamAccum
  sent,      \* deltaSent
  shown,     \* every delta onDelta was given, over all attempts
  outcome    \* what the call returned

callVars ==
  <<mode, lax, callAt, attempt, requests, ctxEnded, acc, sent, shown, outcome>>

CallStates == {"start", "request", "stream", "sleep", "returned"}

Token    == (0..MaxRetries) \X Nat
Fresh0   == [text |-> <<>>, call |-> FALSE, part |-> FALSE, finish |-> FALSE,
             choice |-> FALSE, done |-> FALSE]
Nothing  == [kind |-> "none", text |-> <<>>, call |-> FALSE, part |-> FALSE, ended |-> FALSE]

CallInit ==
  /\ mode \in {"chat", "models", "stream"}
  /\ lax \in BOOLEAN
  /\ callAt = "start"
  /\ attempt = 0
  /\ requests = 0
  /\ ctxEnded = FALSE
  /\ acc = Fresh0
  /\ sent = 0
  /\ shown = <<>>
  /\ outcome = Nothing

(***************************************************************************)
(* Returning, and going round the retry loop.                              *)
(***************************************************************************)
ReturnCall(o) ==
  /\ callAt' = "returned"
  /\ outcome' = o
  /\ UNCHANGED attempt

Error(kind) == [Nothing EXCEPT !.kind = kind]

\* ended: the stream carried [DONE] or a finish_reason.
Answer(kind, res) ==
  [kind |-> kind, text |-> res.text, call |-> res.call, part |-> res.part,
   ended |-> res.done \/ res.finish]

\* A failure worth another attempt, unless it was the last one.
Retry ==
  \/ /\ attempt < MaxRetries
     /\ callAt' = "sleep"
     /\ UNCHANGED <<attempt, outcome>>
  \/ /\ attempt = MaxRetries
     /\ ReturnCall(Error("failed"))

\* Empty key, bad URL, body over the limit: before anything is sent.
PrepareFails ==
  /\ callAt = "start" /\ attempt = 0
  /\ ReturnCall(Error("refused"))
  /\ UNCHANGED <<mode, lax, requests, ctxEnded, acc, sent, shown>>

Send ==
  /\ callAt = "start"
  /\ IF ctxEnded THEN ReturnCall(Error("ctx")) /\ UNCHANGED <<requests, sent>>
     ELSE /\ callAt' = "request"
          /\ requests' = requests + 1
          /\ sent' = 0
          /\ UNCHANGED <<attempt, outcome>>
  /\ acc' = Fresh0
  /\ UNCHANGED <<mode, lax, ctxEnded, shown>>

\* SleepCtx; with both ready, select takes either.
Wake ==
  /\ callAt = "sleep"
  /\ callAt' = "start"
  /\ attempt' = attempt + 1
  /\ UNCHANGED <<mode, lax, requests, ctxEnded, acc, sent, shown, outcome>>

SleepCancelled ==
  /\ callAt = "sleep" /\ ctxEnded
  /\ ReturnCall(Error("ctx"))
  /\ UNCHANGED <<mode, lax, requests, ctxEnded, acc, sent, shown>>

(***************************************************************************)
(* The answer: no connection, no answer in time, a cancelled context; a    *)
(* status; for Do and ListModels the body.                                 *)
(***************************************************************************)
Answered == callAt = "request" /\ UNCHANGED <<mode, lax, requests, ctxEnded, acc, sent, shown>>

NetworkError == Answered /\ Retry

\* 429 and 5xx.
RetryableStatus == Answered /\ Retry

\* 400/413 for the context length, 400 for the thinking field (not for
\* ListModels), and every other status.
OtherStatus(kind) ==
  /\ Answered
  /\ kind \in {"context", "thinking"} => mode # "models"
  /\ ReturnCall(Error(kind))

\* The connection breaks in the body: Do tries again, ListModels does not.
BodyBreaks ==
  /\ Answered
  /\ mode # "stream"
  /\ IF mode = "chat" THEN Retry ELSE ReturnCall(Error("failed"))

\* Over the size cap, not JSON, no choices.
BadBody ==
  /\ Answered
  /\ mode # "stream"
  /\ ReturnCall(Error("failed"))

GoodBody ==
  /\ Answered
  /\ mode # "stream"
  /\ ReturnCall(Answer("ok", [Fresh0 EXCEPT !.done = TRUE]))

StreamOpens ==
  /\ callAt = "request" /\ mode = "stream"
  /\ callAt' = "stream"
  /\ UNCHANGED <<mode, lax, attempt, requests, ctxEnded, acc, sent, shown, outcome>>

(***************************************************************************)
(* parseSSE and what DoStream makes of its result.                         *)
(***************************************************************************)
Transient(perr) == perr \in {"read", "cut", "empty"}

\* Mutant: a transient abort is tried again whatever was shown already.
SettleAnew(perr, res) ==
  IF Transient(perr) /\ attempt < MaxRetries THEN Retry
  ELSE IF perr = "none" THEN ReturnCall(Answer("ok", res))
  ELSE IF perr = "unterminated" /\ lax THEN ReturnCall(Answer("accepted", res))
  ELSE ReturnCall(Error(perr))

Settle(perr, res) ==
  LET accepted  == perr = "unterminated" /\ lax
      again     == sent = 0 /\ Transient(perr) /\ attempt < MaxRetries
      truncated == sent > 0 /\ Transient(perr) /\ res.text # <<>>
  IN CASE perr = "none" -> ReturnCall(Answer("ok", res))
       [] accepted      -> ReturnCall(Answer("accepted", res))
       [] again         -> Retry
       [] truncated     -> ReturnCall(Answer("truncated", res))
       [] OTHER         -> ReturnCall(Error(perr))

Streaming == callAt = "stream" /\ UNCHANGED <<mode, lax, requests, ctxEnded>>
Ending    == Streaming /\ UNCHANGED <<acc, sent, shown>>
Going     == Streaming /\ UNCHANGED <<callAt, attempt, outcome>>

\* A text or reasoning fragment: aggregated, counted, given to onDelta.
Delta(ok) ==
  LET t == <<attempt, Len(acc.text)>> IN
  /\ Streaming
  /\ Len(acc.text) < MaxResponse
  /\ acc' = [acc EXCEPT !.text = Append(@, t), !.choice = TRUE]
  /\ sent' = sent + 1
  /\ shown' = Append(shown, t)
  /\ IF ok THEN UNCHANGED <<callAt, attempt, outcome>>
     ELSE ReturnCall(Error("listener"))     \* onDelta returned an error

\* guardAdd refuses, an id or a name clashes with the call at its index, an
\* error chunk, JSON that is complete and wrong.
ChunkFails ==
  /\ Ending
  /\ \/ Settle("chunk", Fresh0)
     \/ Settle("json", acc)

\* A chunk with a choice and nothing in it, as the first one, which has the role.
RoleChunk ==
  /\ Going
  /\ acc' = [acc EXCEPT !.choice = TRUE]
  /\ UNCHANGED <<sent, shown>>

\* Fragments of tool calls are aggregated; they are not deltas.
ToolOpens ==
  /\ Going
  /\ acc' = [acc EXCEPT !.call = TRUE, !.part = TRUE, !.choice = TRUE]
  /\ UNCHANGED <<sent, shown>>

ToolCloses ==
  /\ Going
  /\ acc.part
  /\ acc' = [acc EXCEPT !.part = FALSE]
  /\ UNCHANGED <<sent, shown>>

\* A finish_reason: "length" may come in the middle of a tool call.
Finish ==
  /\ Going
  /\ acc' = [acc EXCEPT !.finish = TRUE, !.choice = TRUE]
  /\ UNCHANGED <<sent, shown>>

\* Mutant: the end of the body is the end of the answer.
AfterScanLenient(a) ==
  IF ~a.choice /\ ~a.finish /\ a.text = <<>> /\ ~a.call THEN "empty" ELSE "none"

\* The scanner is through: [DONE] was read, or the connection was closed after
\* a whole line.  Nobody asks whether the tool calls are whole.
AfterScan(a) ==
  IF ~a.choice /\ ~a.finish /\ a.text = <<>> /\ ~a.call THEN "empty"
  ELSE IF ~a.done /\ ~a.finish /\ (a.text # <<>> \/ a.call) THEN "unterminated"
  ELSE "none"

DoneMarker ==
  LET a == [acc EXCEPT !.done = TRUE] IN
  /\ Streaming
  /\ acc' = a
  /\ Settle(AfterScan(a), a)
  /\ UNCHANGED <<sent, shown>>

CleanClose == Ending /\ Settle(AfterScan(acc), acc)

\* The connection ends inside the JSON of a line: the scanner yields the rest,
\* json.Unmarshal finds its end too early, the aggregate is kept.
CutInLine == Ending /\ Settle("cut", acc)

\* The connection is reset between lines: the aggregate is not returned.
Reset == Ending /\ Settle("read", Fresh0)

\* Mutant: once deltas arrive nobody looks at the context any more.
ReadCancelledEarly == ctxEnded /\ sent = 0 /\ Ending /\ Settle("ctx", Fresh0)

\* The context ends while the body is read, between lines.
ReadCancelled == ctxEnded /\ Ending /\ Settle("ctx", Fresh0)

ContextEnds ==
  /\ callAt # "returned"
  /\ ~ctxEnded
  /\ ctxEnded' = TRUE
  /\ UNCHANGED <<mode, lax, callAt, attempt, requests, acc, sent, shown, outcome>>

CallNext ==
  \/ PrepareFails \/ Send \/ Wake \/ SleepCancelled
  \/ NetworkError \/ RetryableStatus \/ BodyBreaks \/ BadBody \/ GoodBody
  \/ \E kind \in {"context", "thinking", "failed"} : OtherStatus(kind)
  \/ StreamOpens
  \/ \E ok \in BOOLEAN : Delta(ok)
  \/ ChunkFails \/ RoleChunk \/ ToolOpens \/ ToolCloses \/ Finish
  \/ DoneMarker \/ CleanClose \/ CutInLine \/ Reset \/ ReadCancelled
  \/ ContextEnds

CallSpec == CallInit /\ [][CallNext]_callVars

(***************************************************************************)
(* Properties.                                                             *)
(***************************************************************************)

\* Types of the variables.
CallTypeOK ==
  /\ mode \in {"chat", "models", "stream"} /\ lax \in BOOLEAN
  /\ callAt \in CallStates
  /\ attempt \in 0..MaxRetries /\ requests \in 0..(MaxRetries + 1)
  /\ ctxEnded \in BOOLEAN
  /\ acc \in [text : Seq(Token), call : BOOLEAN, part : BOOLEAN,
              finish : BOOLEAN, choice : BOOLEAN, done : BOOLEAN]
  /\ sent \in Nat /\ shown \in Seq(Token)
  /\ outcome.text \in Seq(Token)

\* What was shown live is never shown again by a retry, and the answer of a
\* call that succeeds, in full or truncated, is exactly what was shown: a
\* retry only happens while nothing was (stream.go:192).
ShownOnce ==
  /\ \A i \in 1..Len(shown) : shown[i] = <<attempt, i - 1>>
  /\ outcome.kind \in {"ok", "accepted", "truncated"} => outcome.text = shown

\* A connection that drops in the middle of an answer never passes for its end: what
\* is returned as complete with anything in it, text or a tool call, carried [DONE]
\* or a finish_reason, unless the provider opted into unterminated streams
\* (stream_parse.go:130).
NoSilentPartial ==
  /\ outcome.kind = "ok" => outcome.ended \/ (outcome.text = <<>> /\ ~outcome.call)
  /\ outcome.kind = "accepted" => lax

\* stream_parse.go:130-133: a connection closed mid-generation is not returned "as a
\* silent success".  It fails: after the role chunk it is, as an empty answer.
OkIsEnded == outcome.kind = "ok" => outcome.ended

\* An answer returned as complete has whole tool calls.  It fails: a finish_reason
\* "length" in the middle of one, or [DONE], returns its truncated arguments.
OkIsWhole == outcome.kind = "ok" => ~outcome.part

\* At most MaxRetries + 1 requests per call, and none once the context ended.
RequestsEndWithContext ==
  [][requests' # requests => ~ctxEnded /\ requests' = attempt + 1]_callVars

\* stream.go:206: content streamed before a transient abort still lands in the
\* reply.  It fails: a reset between two lines returns an empty response.
PartialKept == outcome.kind = "read" => sent = 0

\* stream.go:211: a partial tool call keeps propagating the error.  It fails:
\* with text before it, the truncated arguments are returned.
NoTruncatedToolCall == outcome.kind = "truncated" => ~outcome.part

(***************************************************************************)
(* Fairness: the client takes its own steps, a sleep ends, a read returns  *)
(* when its context does, and the http.Client of Do and ListModels has a   *)
(* timeout; a stream has none.                                             *)
(***************************************************************************)
CallFairness ==
  /\ WF_callVars(Send) /\ WF_callVars(Wake) /\ WF_callVars(ReadCancelled)
  /\ WF_callVars(NetworkError /\ (mode # "stream" \/ ctxEnded))

\* Do and ListModels return whatever the endpoint does, a stream does once its
\* context has ended, at any point of any attempt.
CallReturns ==
  (mode # "stream" \/ ctxEnded) ~> (callAt = "returned")
=============================================================================
