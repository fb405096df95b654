------------------------------ MODULE Compaction ------------------------------
(***************************************************************************)
(* The steps of a session as package compaction sees them: BeforeLLM of    *)
(* NewCompaction decides whether the view of a request fits the window,    *)
(* summarizes the middle of the history or drops it, and replaces the      *)
(* transcript; the endpoint answers and reports what the request took.     *)
(* Two requests of Run do not pass BeforeLLM: the retry after a context    *)
(* error, and the summary asked for at the iteration limit.                *)
(*                                                                         *)
(* A message is known by its timestamp: they are given in order.  A summary*)
(* also keeps which messages its text stands for.                          *)
(***************************************************************************)
EXTENDS ContextStrips

CONSTANTS
  Window,        \* ContextWindow, in tokens
  Reserved,      \* CompactionOptions.Reserved
  Overhead,      \* system prompt, tool schemas and envelope of a request
  KeepRecent,    \* rounds kept verbatim
  Preserve,      \* preserveRecentTokens
  SummarySize,   \* summary bound, in tokens
  RealUsage,     \* UseRealUsage
  Automatic,     \* CompactionOptions.Auto
  UserSizes,     \* sizes of a user message
  Thinks,        \* sizes of the reasoning of a response
  CallsMade,     \* what a response may do: [call, args, out], sizes in tokens
  ReplySize,
  TrimCap,       \* size a result is cut to for the retry (ContextTrimToolChars)
  PromptSize,    \* summaryRequestPrompt
  Under,         \* tokens the local estimate may miss
  MaxTs          \* bound on the messages of a session

ASSUME CompactionAssumption ==
  /\ Window \in Nat /\ Reserved \in Nat /\ Overhead \in Nat /\ Preserve \in Nat
  /\ KeepRecent \in Nat \ {0} /\ SummarySize \in Nat \ {0}
  /\ RealUsage \in BOOLEAN /\ Automatic \in BOOLEAN
  /\ UserSizes \subseteq Nat \ {0} /\ Thinks \subseteq Nat
  /\ \A made \in CallsMade : made.args \in Nat /\ made.out \in Nat
  /\ TrimCap \in Nat \ {0} /\ PromptSize \in Nat
  /\ ReplySize \in Nat \ {0} /\ Under \in Nat /\ MaxTs \in Nat

VARIABLES
  msgs,     \* the transcript: memory and, between turns, the session file
  phase,    \* "idle", "step" (before the request), or which request is out: "call"
            \* (of BeforeLLM), "retry" (after a context error), "limit" (the summary)
  request,  \* the last request
  clock,    \* the last timestamp
  fresh,    \* a response was measured since the last summary, or there is none
  said,     \* every message of the session, by its timestamp
  heads,    \* first rounds kept in front of a summary
  dropped   \* what lossy steps dropped

compactionVars == <<msgs, phase, request, clock, fresh, said, heads, dropped>>

Message(kind, text, think, args, call, ok, usage, covers) ==
  [kind |-> kind, ts |-> clock + 1, text |-> text, think |-> think, args |-> args,
   call |-> call, ok |-> ok, usage |-> usage, covers |-> covers, whole |-> TRUE]

UserMessage(n)   == Message("user", n, 0, 0, NoCallMade, TRUE, 0, {})
Summary(n, told) == Message("summary", n, 0, 0, NoCallMade, TRUE, 0, told)

TsOf(ms)    == {ms[i].ts : i \in {j \in DOMAIN ms : ms[j].kind # "summary"}}
Told(ms)    == UNION {ms[i].covers : i \in DOMAIN ms}

-----------------------------------------------------------------------------
(* Sizes.                                                                  *)

\* estimateRoundTokens and estimateMessageTokensLocal, of the messages from a to b.
Size(ms, a, b) ==
  LET upTo[i \in 0..b] ==
        IF i < a THEN 0 ELSE upTo[i - 1] + ms[i].text + ms[i].think + ms[i].args
  IN upTo[b]

\* EstimateTokens with the request's system prompt and tools.
EstimateTokens(ms) == Overhead + Size(ms, 1, Len(ms))

\* A message without its placeholders: what was folded, and arguments that may be.
Plain(m) ==
  [m EXCEPT !.text = IF ~m.whole /\ @ <= Marker THEN 0 ELSE @,
            !.args = IF m.call.name \in {"write", "shell"} /\ @ <= Marker THEN 0 ELSE @]

Bare(ms) == [i \in DOMAIN ms |-> Plain(ms[i])]

Target == (Window * 4) \div 5

LatestSummary(ms) ==
  LET at == {i \in DOMAIN ms : ms[i].kind = "summary"}
  IN IF at = {} THEN 0 ELSE Max(at)

SummaryTs(ms) == IF LatestSummary(ms) = 0 THEN 0 ELSE ms[LatestSummary(ms)].ts

\* Mutant: any measured response counts, whenever it was given.
LastUsage(ms) ==
  LET at == {i \in Responses(ms) : ms[i].usage > 0}
  IN IF at = {} THEN 0 ELSE Max(at)

\* lastApplicableUsageIndex: the last response measured after the last summary.
LastApplicableUsage(ms) ==
  LET at == {i \in Responses(ms) : ms[i].usage > 0 /\ ms[i].ts >= SummaryTs(ms)}
  IN IF at = {} THEN 0 ELSE Max(at)

\* Mutant: the messages after the measured response are forgotten.
ThresholdOfUsage(ms) ==
  LET i == LastApplicableUsage(ms)
  IN IF RealUsage /\ i > 0 THEN ms[i].usage ELSE EstimateTokens(ms)

\* estimateThreshold: what was measured and the messages since, else the estimate.
Threshold(ms) ==
  LET i == LastApplicableUsage(ms)
  IN IF RealUsage /\ i > 0 THEN ms[i].usage + Size(ms, i + 1, Len(ms))
     ELSE EstimateTokens(ms)

\* usableTokens with compactionReserve.
Usable == Window - Smaller(Reserved, Window \div 5)

\* isUsageOverflow, for the last applicable response.
Forced(ms) ==
  LET i == LastApplicableUsage(ms)
  IN Automatic /\ Window > 0 /\ i > 0 /\ ms[i].usage >= Usable

-----------------------------------------------------------------------------
(* Rounds.                                                                 *)

\* splitRounds: where they start.
Starts(ms) == {i \in DOMAIN ms : ms[i].kind # "tool"}

Rounds(ms) == Cardinality(Starts(ms))

StartOf(ms, k) ==
  IF k > Rounds(ms) THEN Len(ms) + 1
  ELSE CHOOSE i \in Starts(ms) : Cardinality({j \in Starts(ms) : j <= i}) = k

\* The rounds from the k-th to the n-th, none if k > n, and their size.
RoundsFromTo(ms, k, n) == SubSeq(ms, StartOf(ms, k), StartOf(ms, n + 1) - 1)
RoundSize(ms, k, n)    == Size(ms, StartOf(ms, k), StartOf(ms, n + 1) - 1)

\* The n latest rounds.
LatestRounds(ms, n) == RoundsFromTo(ms, Rounds(ms) - Smaller(n, Rounds(ms)) + 1, Rounds(ms))

\* applyCompactionBarrier.
Barrier(ms) == IF LatestSummary(ms) = 0 THEN ms ELSE SubSeq(ms, LatestSummary(ms), Len(ms))

\* compactHistory.
CompactHistory(ms) ==
  IF Rounds(ms) <= 1 + KeepRecent THEN ms
  ELSE RoundsFromTo(ms, 1, 1) \o LatestRounds(ms, KeepRecent)

\* Mutant: the trim takes the summary with the first rounds.
TrimAll(ms) ==
  IF Rounds(ms) <= KeepRecent THEN ms ELSE LatestRounds(ms, KeepRecent)

\* trimRecentRounds: the latest rounds, and the latest summary in front of them.
TrimRecentRounds(ms) ==
  LET latest == LatestRounds(ms, KeepRecent)
      lost   == LatestSummary(ms) > 0 /\ LatestSummary(latest) = 0
  IN CASE Rounds(ms) <= KeepRecent -> ms
       [] Rounds(ms) > KeepRecent /\ lost -> <<ms[LatestSummary(ms)]>> \o latest
       [] OTHER -> latest

-----------------------------------------------------------------------------
(* Where the tail begins.                                                  *)

\* jointTailBudget: what head, summary and overhead leave, at most Preserve.
TailBudget(view) ==
  LET head  == IF view[1].kind = "summary" THEN 0 ELSE RoundSize(view, 1, 1)
      fixed == Overhead + SummarySize + head
  IN IF fixed >= Target THEN 0 ELSE Smaller(Target - fixed, Preserve)

\* Mutant: the last round has to fit too.
FirstFitting(view, budget) ==
  LET n == Rounds(view)
      fits(k) == n - k + 1 <= KeepRecent /\ (budget = 0 \/ RoundSize(view, k, n) <= budget)
  IN CHOOSE k \in 2..n + 1 : fits(k) /\ (k = 2 \/ ~fits(k - 1))

\* selectTailByTokens: the last round always, and earlier ones while they fit; the
\* first round is not asked.
FirstKept(view, budget) ==
  LET n == Rounds(view)
      fits(k) == /\ n - k + 1 <= KeepRecent
                 /\ budget = 0 \/ k = n \/ RoundSize(view, k, n) <= budget
  IN CHOOSE k \in 2..n : fits(k) /\ (k = 2 \/ ~fits(k - 1))

\* shrinkRoundToolContents: results scaled down to the share of the round left.
Shrunk(text, size, left) ==
  IF size <= left THEN text ELSE IF (text * left) \div size = 0 THEN 1 ELSE (text * left) \div size

\* splitOrShrinkToRound: the k-th round, its result shrunk if need be, if that fits.
Boundary(view, k, left) ==
  LET size  == RoundSize(view, k, k)
      round == RoundsFromTo(view, k, k)
      small == [i \in DOMAIN round |->
                  IF round[i].kind = "tool" /\ size > left
                  THEN [round[i] EXCEPT !.whole = FALSE, !.text = Shrunk(@, size, left)]
                  ELSE round[i]]
  IN IF Size(small, 1, Len(small)) <= left THEN small ELSE <<>>

\* The view, cut: a first round that is no summary, the messages to be summarized
\* and those to be kept.  The round the budget stopped at joins the tail if it can.
CutAt(view, k, budget) ==
  LET n      == Rounds(view)
      used   == RoundSize(view, k, n)
      joins  == IF k > 2 /\ n - k + 1 < KeepRecent /\ used < budget
                THEN Boundary(view, k - 1, budget - used) ELSE <<>>
  IN [head   |-> IF view[1].kind = "summary" THEN <<>> ELSE RoundsFromTo(view, 1, 1),
      middle |-> RoundsFromTo(view, 2, IF joins = <<>> THEN k - 1 ELSE k - 2),
      tail   |-> joins \o RoundsFromTo(view, k, n)]

-----------------------------------------------------------------------------
CompactionInit ==
  /\ msgs = <<>> /\ request = <<>> /\ phase = "idle"
  /\ clock = 0 /\ fresh = TRUE /\ said = {} /\ heads = {} /\ dropped = {}

\* Run appends the prompt.
UserAsks(size) ==
  /\ phase = "idle" /\ clock < MaxTs
  /\ msgs' = Append(msgs, UserMessage(size))
  /\ clock' = clock + 1 /\ said' = said \cup {clock + 1} /\ phase' = "step"
  /\ UNCHANGED <<request, fresh, heads, dropped>>

\* What the strips make of the history of a request.
View == Strips(Barrier(msgs), KeepReasoning, KeepToolArgs)

\* FitHistory leaves the history alone.
Fits(view) == ~Forced(msgs) /\ Threshold(view) <= Target

\* The strips are made for this request only.
SendView ==
  /\ phase = "step"
  /\ \E view \in {View} : Fits(view) /\ request' = view
  /\ phase' = "call"
  /\ UNCHANGED <<msgs, clock, fresh, said, heads, dropped>>

\* The end of FitHistory: a last trim if it is still needed.
Trimmed(out) == IF EstimateTokens(out) > Target THEN TrimRecentRounds(out) ELSE out

\* The view is committed: it replaces the transcript.  If it is too large even so,
\* the transcript stays as it was and the turn ends.
Commit(final, fresher, kept, lost) ==
  \/ /\ EstimateTokens(final) <= Target
     /\ phase' = "call" /\ msgs' = final /\ request' = final
     /\ fresh' = fresher /\ heads' = kept /\ dropped' = dropped \cup lost
  \/ /\ EstimateTokens(final) > Target
     /\ phase' = "idle"
     /\ UNCHANGED <<msgs, request, fresh, heads, dropped>>

\* Mutant: a second summary starts over.
ToldAnew(view) == {}

\* The text of an old summary is handed to the summarizer, to be updated.
ToldBefore(view) == Told(RoundsFromTo(view, 1, 1))

\* compactWithSummary: the first round, a summary of the middle, the tail.  An old
\* summary is no head, the new one takes it in.
Summarize(view, parts, size) ==
  LET told == ToldBefore(view) \cup TsOf(parts.middle)
      tail == [i \in DOMAIN parts.tail |->
                 StripReasoning(LatestResponses(parts.tail, KeepReasoning), i, parts.tail[i])]
  IN \E final \in {Trimmed(parts.head \o <<Summary(size, told)>> \o tail)} :
       Commit(final, FALSE, heads \cup TsOf(parts.head), TsOf(parts.head \o tail) \ TsOf(final))

\* The answers of the summarizer; the hook before it may fail too.
Answers == {"prose", "garbage", "empty", "error"}

\* summarizeMiddle: an answer that is no prose is asked for once more.
Prose(first, second) == first = "prose" \/ (first = "garbage" /\ second = "prose")

Summarized ==
  /\ phase = "step" /\ ~Fits(View)
  /\ \E first, second \in Answers : Prose(first, second)
  /\ Rounds(Barrier(msgs)) > 1 + KeepRecent
  /\ \E view \in {Barrier(msgs)} :
       \E k \in {FirstKept(view, TailBudget(view))} :
         \E parts \in {CutAt(view, k, TailBudget(view))}, size \in 1..SummarySize :
           parts.middle # <<>> /\ Summarize(view, parts, size)
  /\ clock' = clock + 1
  /\ UNCHANGED said

\* There is no middle, or no summary of it: rounds are dropped.
Lossy ==
  /\ phase = "step" /\ ~Fits(View)
  /\ \E out \in {Strips(CompactHistory(Barrier(msgs)), KeepReasoning, KeepToolArgs)} :
       \E final \in {Trimmed(out)} :
         Commit(final, fresh, heads, TsOf(Barrier(msgs)) \ TsOf(final))
  /\ UNCHANGED <<clock, said>>

\* trimHistoryForContext: no reasoning, and the results cut, the newest too.
ContextTrim(ms) ==
  [i \in DOMAIN ms |->
     IF ms[i].kind = "tool"
     THEN [ms[i] EXCEPT !.think = 0, !.text = Smaller(@, TrimCap),
                        !.whole = @ /\ ms[i].text <= TrimCap]
     ELSE [ms[i] EXCEPT !.think = 0]]

\* OnLLMError after a context error: the whole transcript, trimmed, not its view; it
\* replaces the transcript.  A context error of the retry ends the turn.
Retries ==
  /\ phase = "call" /\ phase' = "retry"
  /\ msgs' = ContextTrim(msgs) /\ request' = msgs'
  /\ UNCHANGED <<clock, fresh, said, heads, dropped>>

\* summarizeAtLimit, after the tools of the last iteration: the whole transcript and a
\* prompt that does not enter it.
AsksForSummary ==
  /\ phase = "step" /\ Last(msgs).kind = "tool" /\ phase' = "limit"
  /\ request' = Append(msgs, Message("system", PromptSize, 0, 0, NoCallMade, TRUE, 0, {}))
  /\ UNCHANGED <<msgs, clock, fresh, said, heads, dropped>>

\* A request is out.
Out == phase \in {"call", "retry", "limit"}

\* What the endpoint may report: nothing, or the request and the answer.
Reported(size) == {0} \cup {EstimateTokens(request) + size + more : more \in {0, Under}}

Replies(think) ==
  /\ Out /\ clock < MaxTs
  /\ \E usage \in Reported(ReplySize + think) :
       /\ msgs' = Append(msgs, Message("assistant", ReplySize, think, 0, NoCallMade, TRUE, usage, {}))
       /\ fresh' = (fresh \/ usage > 0)
  /\ clock' = clock + 1 /\ said' = said \cup {clock + 1} /\ phase' = "idle"
  /\ UNCHANGED <<request, heads, dropped>>

\* The response and the result of its call, or the error it ends in.  At the limit a
\* response that calls a tool is not kept.
CallsTool(made, think, ok) ==
  /\ phase \in {"call", "retry"} /\ clock + 1 < MaxTs
  /\ \E usage \in Reported(made.args + think) :
       /\ msgs' = msgs \o
            <<Message("assistant", 0, think, made.args, made.call, TRUE, usage, {}),
              [Message("tool", IF ok THEN made.out ELSE 1, 0, 0, made.call, ok, 0, {})
                 EXCEPT !.ts = clock + 2]>>
       /\ fresh' = (fresh \/ usage > 0)
  /\ clock' = clock + 2 /\ said' = said \cup {clock + 1, clock + 2} /\ phase' = "step"
  /\ UNCHANGED <<request, heads, dropped>>

\* The request fails for good, the summary at the limit calls a tool, or the turn is
\* stopped before or during a request: what there is goes to the session.
TurnStops ==
  /\ phase # "idle" /\ phase' = "idle"
  /\ UNCHANGED <<msgs, request, clock, fresh, said, heads, dropped>>

CompactionNext ==
  \/ \E size \in UserSizes : UserAsks(size)
  \/ SendView \/ Summarized \/ Lossy
  \/ Retries \/ AsksForSummary \/ TurnStops
  \/ \E think \in Thinks : Replies(think)
  \/ \E made \in CallsMade, think \in Thinks, ok \in BOOLEAN : CallsTool(made, think, ok)

CompactionSpec == CompactionInit /\ [][CompactionNext]_compactionVars

-----------------------------------------------------------------------------
(* Properties.                                                             *)

CompactionTypeOK ==
  /\ phase \in {"idle", "step", "call", "retry", "limit"}
  /\ clock \in Nat /\ fresh \in BOOLEAN
  /\ heads \subseteq 1..clock /\ dropped \subseteq 1..clock
  /\ \A i \in DOMAIN msgs : msgs[i].ts \in 1..clock

\* No request that BeforeLLM lets through is larger than four fifths of the window by
\* the local estimate, but for its placeholders, not even one let through on what the
\* endpoint measured earlier, in a history that a retry has trimmed since.  A result
\* may be shorter than the placeholder it is folded to later.  The retry and the
\* summary at the limit are not measured by anything.
RequestFits == phase = "call" => EstimateTokens(Bare(request)) <= Target

\* The same with the placeholders (budget.go:65-66: "error if still over").
EstimateFits == phase = "call" => EstimateTokens(request) <= Target

\* The same of the two requests that do not pass BeforeLLM.
EveryRequestFits == Out => EstimateTokens(Bare(request)) <= Target

\* "trimHistoryForContext tightens history" (history_util.go:21): the retry is no
\* larger than the request that the endpoint refused as too large.
RetryIsTighter ==
  [][Retries => EstimateTokens(request') <= EstimateTokens(request)]_compactionVars

\* The newest message of the session is in every request, the last but for the prompt
\* of a summary at the limit.  It is never summarized, dropped, folded or shrunk: only
\* the retry after a context error cuts a result, and only one above its cap.
LatestSeen ==
  Out => LET newest == request[IF phase = "limit" THEN Len(request) - 1 ELSE Len(request)]
         IN /\ newest.ts = Max(said)
            /\ \/ newest.whole
               \/ phase = "retry" /\ newest.kind = "tool" /\ newest.text = TrimCap

\* Every message of the session is in the request, or in what its summary stands
\* for, or was dropped by a lossy step, or was a first round kept beside a summary.
AccountedAfter(gone) ==
  Out => said \subseteq TsOf(request) \cup Told(request) \cup gone

SummaryKeepsAll == AccountedAfter(heads \cup dropped)

\* The same without the exception (split.go:138: compactWithSummary "retains the
\* earliest 1 round").
FirstRoundRetained == AccountedAfter(dropped)

\* A history that a summary has just replaced is not compacted again on what the
\* endpoint measured before: a response is measured in between, or the history is
\* too large by the local estimate.
NoStaleCompaction ==
  [][phase = "step" /\ ~UNCHANGED msgs =>
       fresh \/ EstimateTokens(View) > Target]_compactionVars

\* A result is folded only if the same read, a successful write to its file or the
\* same command came later.  The other two requests fold nothing.
FoldedIsSuperseded ==
  phase = "call" => \A i \in DOMAIN msgs, k \in DOMAIN request :
    /\ msgs[i].kind = "tool" /\ request[k].ts = msgs[i].ts /\ request[k].text # msgs[i].text
    => \E j \in DOMAIN msgs :
         /\ j > i /\ msgs[j].kind = "tool"
         /\ \/ msgs[j].call = msgs[i].call
            \/ msgs[j].call.name = "write" /\ msgs[j].ok /\ msgs[j].call.on = msgs[i].call.on
            \/ msgs[j].call.name = "shell" /\ msgs[j].call.on = msgs[i].call.on

=============================================================================
