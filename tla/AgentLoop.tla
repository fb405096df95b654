------------------------------ MODULE AgentLoop ------------------------------
(***************************************************************************)
(* One turn of the agent: Run (miniagent/loop.go) with callLLMWithDowngrade*)
(* and applyBeforeLLM (loop_extra.go), handleToolCalls (tool_handler.go)   *)
(* and the tool goroutines of runToolsParallel (loop_tools.go), under the  *)
(* hooks that package policy and package compaction plug in.               *)
(*                                                                         *)
(* A message keeps its role, its tool call ids and what kind of result it  *)
(* carries; texts, reasoning and token sizes are left out.  A response     *)
(* costs one token.                                                        *)
(***************************************************************************)
EXTENDS Naturals, Sequences, FiniteSets, SequencesExt

CONSTANTS
  Histories,  \* transcripts a turn may resume from
  CallIds,    \* ids the model gives its tool calls
  UniqueIds,  \* does it keep them distinct within a response?
  MaxCalls,   \* bound on the tool calls of a response
  MaxIter,    \* LoopConfig.MaxIterations
  Parallel,   \* LoopConfig.MaxParallelTools
  Budget,     \* LoopConfig.MaxTotalTokens
  PanicPoints \* where in the loop a hook may panic

NoId == "" \* the ToolCallID of a message that is no result

PanicPlaces == {"before", "retry", "after", "notify", "collect"}

ASSUME LoopAssumption ==
  /\ MaxIter \in Nat \ {0} /\ Parallel \in Nat \ {0}
  /\ MaxCalls \in Nat /\ Budget \in Nat
  /\ UniqueIds \in BOOLEAN /\ PanicPoints \subseteq PanicPlaces
  /\ NoId \notin CallIds \* handleToolCalls makes up an id for a call without one

VARIABLES
  pc, step,
  cancelled, \* ctx is done
  msgs,      \* Run's transcript
  newMsgs,   \* this turn's additions
  part,      \* what handleToolCalls has appended to its copy of msgs
  calls,     \* tool call ids of the last response
  denied,    \* calls OnToolUse denied, by position
  tool,      \* the goroutine of each call
  result,    \* the results slice of runToolsParallel
  slots,     \* tokens in its semaphore
  idx,       \* position of the hook loops of handleToolCalls
  thinking,  \* a thinking level is still being sent
  total,     \* usage counted
  billed,    \* usage of every response the endpoint gave
  recorded,  \* responses whose usage recordStepUsage counted
  committed, \* a BeforeLLM view replaced the transcript
  res        \* what Run returns

transcript == <<msgs, newMsgs, committed>>
tools      == <<part, denied, tool, result, slots, idx>>
usage      == <<thinking, total, billed, recorded>>
vars == <<pc, step, cancelled, calls, res, transcript, tools, usage>>

-----------------------------------------------------------------------------
(* Messages.                                                               *)

Message(role, ids, id, body) == [role |-> role, calls |-> ids, call |-> id, body |-> body]

User       == Message("user", <<>>, NoId, "text")
Summary    == Message("summary", <<>>, NoId, "text")
Reply      == Message("assistant", <<>>, NoId, "text")
Asks(ids)  == Message("assistant", ids, NoId, "text")
Tool(id, body) == Message("tool", <<>>, id, body)

Bodies == {"text", "output", "error", "rejected", "unknown", "cancelled", "placeholder"}
Ids    == CallIds \cup {NoId}
Distinct(ids) == UniqueIds => \A i, j \in DOMAIN ids : ids[i] = ids[j] => i = j
CallLists == {ids \in Seq(CallIds) : Distinct(ids)}
Answers   == {ids \in UNION {[1..n -> CallIds] : n \in 0..MaxCalls} : Distinct(ids)}

\* Only the model asks for tools, and only a result names the call it answers.
Messages ==
  {m \in [role : {"user", "summary", "assistant", "tool"},
          calls : CallLists, call : Ids, body : Bodies] :
     /\ m.role # "assistant" => m.calls = <<>>
     /\ m.role # "tool" => m.call = NoId}

Calls == 1..Len(calls)

\* ValidateToolPairing looks at one message after the other and keeps the ids
\* still waiting for a result.
PairingStep(acc, m) ==
  [ok |-> /\ acc.ok
          /\ \A i \in DOMAIN m.calls :
               /\ m.calls[i] \notin acc.pending
               /\ \A j \in DOMAIN m.calls : m.calls[i] = m.calls[j] => i = j
          /\ m.role = "tool" => m.call \in acc.pending,
   pending |-> (acc.pending \cup ToSet(m.calls)) \ {m.call}]

NothingPending == [ok |-> TRUE, pending |-> {}]

ValidateToolPairing(ms) ==
  LET after[i \in 0..Len(ms)] ==
        IF i = 0 THEN NothingPending ELSE PairingStep(after[i - 1], ms[i])
  IN after[Len(ms)] = NothingPending

\* Every assistant message with tool calls is followed at once by one result
\* per call, in the order of the calls, and there are no other results.
Answered(ms) ==
  \A i \in DOMAIN ms :
    /\ \A j \in DOMAIN ms[i].calls :
         /\ i + j \in DOMAIN ms
         /\ ms[i + j].role = "tool" /\ ms[i + j].call = ms[i].calls[j]
    /\ ms[i].role = "tool" => \E k \in DOMAIN ms : k < i /\ i - k \in DOMAIN ms[k].calls

\* A turn resumes what an earlier one left, or nothing.
ASSUME HistoriesAssumption ==
  \A h \in Histories : h \in Seq(Messages) /\ Answered(h)

-----------------------------------------------------------------------------
(* What BeforeLLM (package compaction) may make of a transcript.  Rounds   *)
(* are never cut; how many are kept depends on the configuration and on    *)
(* token estimates, so any number of the latest ones may be.               *)

\* Mutant: a round may start at any message.
RoundStartsAnywhere(ms) == DOMAIN ms

\* splitRounds: a tool result belongs to the round before it.
RoundStarts(ms) == {i \in DOMAIN ms : ms[i].role # "tool"}

\* applyCompactionBarrier: the view starts at the latest summary.
View(ms) ==
  SubSeq(ms, Max({1} \cup {i \in DOMAIN ms : ms[i].role = "summary"}), Len(ms))

SecondRound(v) == {j \in RoundStarts(v) \ {1} : \A i \in RoundStarts(v) : i = 1 \/ i >= j}
FirstRound(v)  == {SubSeq(v, 1, j - 1) : j \in SecondRound(v)}

\* A head, and the rounds from one of these starts on.
Joined(heads, v, starts) == UNION {{h \o SubSeq(v, j, Len(v)) : j \in starts} : h \in heads}

\* compactWithSummary: a first round that is no summary, the summary of a middle
\* and the latest rounds; trimRecentRounds drops the first round only.
WithSummary(v) ==
  Joined({h \o <<Summary>> : h \in {<<>>} \cup {r \in FirstRound(v) : r[1] # Summary}},
         v, RoundStarts(v) \ ({1} \cup SecondRound(v)))

\* compactHistory: the first round and the latest ones; trimRecentRounds drops
\* the first round too, unless it is a summary.
WithoutSummary(v) ==
  {v} \cup Joined(FirstRound(v) \cup {r \in {<<>>} : v[1] # Summary}, v, RoundStarts(v) \ {1})

\* mergePersisted: a new summary replaces the turn's earlier one, in front.
MergePersisted(ms) ==
  LET kept[i \in 0..Len(ms)] ==
        IF i = 0 THEN <<Summary>>
        ELSE IF ms[i].role = "summary" THEN kept[i - 1] ELSE Append(kept[i - 1], ms[i])
  IN kept[Len(ms)]

-----------------------------------------------------------------------------
Init ==
  /\ pc = "step" /\ step = 1
  /\ cancelled = FALSE
  /\ \E h \in Histories : msgs = h \o <<User>>
  /\ newMsgs = <<User>>
  /\ part = <<>> /\ calls = <<>> /\ denied = {}
  /\ tool = <<>> /\ result = <<>> /\ slots = 0 /\ idx = 0
  /\ thinking \in BOOLEAN
  /\ total = 0 /\ billed = 0 /\ recorded = 0
  /\ committed = FALSE
  /\ res = [finish |-> "none", steps |-> 0]

Return(finish, steps) ==
  /\ pc' = "done"
  /\ res' = [finish |-> finish, steps |-> steps]

Goto(label) == pc' = label /\ UNCHANGED res

\* The deferred recover of Run: its own transcript, no steps.
Panics(place) == place \in PanicPoints /\ Return("panic", 0)

-----------------------------------------------------------------------------
(* Run.                                                                    *)

\* The top of an iteration: ctx.Err is checked before anything is sent.
Step ==
  /\ pc = "step"
  /\ IF cancelled THEN Return("error", step - 1) ELSE Goto("before")
  /\ UNCHANGED <<step, cancelled, calls, transcript, tools, usage>>

\* BeforeLLM hands the view back uncommitted.
ViewOnly ==
  /\ pc = "before"
  /\ Goto("call")
  /\ UNCHANGED <<step, cancelled, calls, transcript, tools, usage>>

\* summarizeMiddle asks a second time if the first summary is unfit.
Asked == 1..2

\* The history does not fit, even after a summary that was paid for.
BeforeFails ==
  /\ pc = "before"
  /\ \/ Return("error", step - 1) /\ \E n \in Asked \cup {0} : billed' = billed + n
     \/ Panics("before") /\ UNCHANGED billed
  /\ UNCHANGED <<step, cancelled, calls, transcript, tools, thinking, total, recorded>>

\* A summary replaces the middle; its tokens are the step's ExtraUsage.
Summarized ==
  /\ pc = "before" /\ ~cancelled
  /\ msgs' \in WithSummary(View(msgs))
  /\ newMsgs' = MergePersisted(newMsgs)
  /\ committed' = TRUE
  /\ \E n \in Asked : total' = total + n /\ billed' = billed + n
  /\ Goto("call")
  /\ UNCHANGED <<step, cancelled, calls, tools, thinking, recorded>>

\* Lossy compaction: nothing to summarize, or a summarizer that was billed for
\* an unusable answer (compactWithSummary drops its usage with the error).
Lossy ==
  /\ pc = "before"
  /\ msgs' \in WithoutSummary(View(msgs))
  /\ committed' = TRUE
  /\ \E n \in Asked \cup {0} : billed' = billed + n
  /\ Goto("call")
  /\ UNCHANGED <<step, cancelled, calls, newMsgs, tools, thinking, total, recorded>>

\* callLLMWithDowngrade: an endpoint that refuses thinking, or burns the whole
\* output on it, is asked once more without; the first answer's usage is dropped.
Attempt(first, outcome) ==
  /\ first # "none" => thinking
  /\ outcome = "ok" => ~cancelled
  /\ thinking' = (thinking /\ first = "none")
  /\ billed' = billed + (IF first = "burned" THEN 1 ELSE 0) + (IF outcome = "ok" THEN 1 ELSE 0)
  /\ UNCHANGED <<total, recorded>>

Firsts == {"none", "unsupported", "burned"}

CallLLM ==
  /\ pc = "call"
  /\ \E first \in Firsts :
       \/ Attempt(first, "ok") /\ calls' \in Answers /\ Goto("after")
       \/ Attempt(first, "too long") /\ Goto("retry") /\ UNCHANGED calls
       \/ Attempt(first, "error") /\ Return("error", step - 1) /\ UNCHANGED calls
  /\ UNCHANGED <<step, cancelled, transcript, tools>>

\* OnLLMError tightens the texts of the transcript; the call is retried once.
RetryLLM ==
  /\ pc = "retry"
  /\ \/ \E first \in Firsts :
          \/ Attempt(first, "ok") /\ calls' \in Answers /\ Goto("after")
          \/ Attempt(first, "error") /\ Return("error", step - 1) /\ UNCHANGED calls
     \/ Panics("retry") /\ UNCHANGED <<calls, usage>>
  /\ UNCHANGED <<step, cancelled, transcript, tools>>

\* AfterLLM ends the turn before the usage is recorded.
AfterFails ==
  /\ pc = "after"
  /\ Return("error", step - 1) \/ Panics("after")
  /\ UNCHANGED <<step, cancelled, calls, transcript, tools, usage>>

\* recordStepUsage.
Record == total' = total + 1 /\ recorded' = recorded + 1

OverBudget == total + 1 > Budget

RecordOverBudget ==
  /\ pc = "after" /\ OverBudget
  /\ Record
  /\ Return("error", step)
  /\ UNCHANGED <<step, cancelled, calls, transcript, tools, thinking, billed>>

\* No tool calls: the reply ends the turn.
FinalReply ==
  /\ pc = "after" /\ ~OverBudget /\ calls = <<>>
  /\ Record
  /\ msgs' = Append(msgs, Reply) /\ newMsgs' = Append(newMsgs, Reply)
  /\ Return("stop", step)
  /\ UNCHANGED <<step, cancelled, calls, committed, tools, thinking, billed>>

-----------------------------------------------------------------------------
(* handleToolCalls.                                                        *)

\* Mutant: the additions of the turn miss the assistant message.
BeginToolsUnsaved ==
  /\ pc = "after" /\ ~OverBudget /\ calls # <<>>
  /\ Record
  /\ part' = <<Asks(calls)>>
  /\ denied' = {} /\ idx' = 1
  /\ Goto("notify")
  /\ UNCHANGED <<step, cancelled, calls, transcript, tool, result, slots, thinking, billed>>

\* The assistant message goes to its copy of msgs and straight to newMsgs.
BeginTools ==
  /\ pc = "after" /\ ~OverBudget /\ calls # <<>>
  /\ Record
  /\ part' = <<Asks(calls)>>
  /\ newMsgs' = Append(newMsgs, Asks(calls))
  /\ denied' = {} /\ idx' = 1
  /\ Goto("notify")
  /\ UNCHANGED <<step, cancelled, calls, msgs, committed, tool, result, slots,
                 thinking, billed>>

\* OnToolUse, in order.  A denial is remembered by tool call id.
Allow ==
  /\ pc = "notify" /\ idx \in Calls
  /\ denied' \in {denied, denied \cup {calls[idx]}}
  /\ idx' = idx + 1
  /\ UNCHANGED <<pc, res, step, cancelled, calls, transcript, part, tool, result, slots, usage>>

\* The locals of handleToolCalls and the response die with it.
ToolsOver ==
  /\ calls' = <<>> /\ part' = <<>> /\ denied' = {} /\ idx' = 0
  /\ tool' = <<>> /\ result' = <<>>
  /\ UNCHANGED slots

\* Mutant: the placeholders start one call late.
AbandonOffByOne(answered, from) ==
  LET tail == answered \o [i \in 1..Len(calls) - from |-> Tool(calls[from + i], "placeholder")]
  IN /\ msgs' = msgs \o part \o tail
     /\ newMsgs' = newMsgs \o tail
     /\ Return("error", step)

\* fillPlaceholderTail, and the return of the error.
Abandon(answered, from) ==
  LET tail == answered \o [i \in 1..Len(calls) - from + 1 |-> Tool(calls[from + i - 1], "placeholder")]
  IN /\ msgs' = msgs \o part \o tail
     /\ newMsgs' = newMsgs \o tail
     /\ Return("error", step)

NotifyFails ==
  /\ pc = "notify" /\ idx \in Calls
  /\ \/ Abandon(<<>>, 1)
     \/ Panics("notify") /\ UNCHANGED <<msgs, newMsgs>>
  /\ ToolsOver
  /\ UNCHANGED <<step, cancelled, committed, usage>>

\* Mutant: only unknown tools are held back.
LaunchDenied ==
  /\ pc = "notify" /\ idx \notin Calls
  /\ \E unknown \in SUBSET Calls :
       /\ tool' = [i \in Calls |-> IF i \in unknown THEN "skipped" ELSE "queued"]
       /\ result' = [i \in Calls |-> IF i \in unknown THEN "unknown" ELSE "none"]
  /\ Goto("run")
  /\ UNCHANGED <<step, cancelled, calls, transcript, part, denied, slots, idx, usage>>

\* runToolsParallel starts a goroutine per call, except for denied ids and
\* unknown tools, whose results it fills in.
Launch ==
  /\ pc = "notify" /\ idx \notin Calls
  /\ \E unknown \in SUBSET Calls :
       /\ tool' = [i \in Calls |-> IF calls[i] \in denied \/ i \in unknown THEN "skipped" ELSE "queued"]
       /\ result' = [i \in Calls |-> IF calls[i] \in denied THEN "rejected"
                                     ELSE IF i \in unknown THEN "unknown" ELSE "none"]
  /\ Goto("run")
  /\ UNCHANGED <<step, cancelled, calls, transcript, part, denied, slots, idx, usage>>

\* A goroutine looks at ctx first ...
CheckCtx(i) ==
  /\ tool[i] = "queued"
  /\ IF cancelled
     THEN /\ tool' = [tool EXCEPT ![i] = "joined"]
          /\ result' = [result EXCEPT ![i] = "cancelled"]
     ELSE tool' = [tool EXCEPT ![i] = "waiting"] /\ UNCHANGED result
  /\ UNCHANGED slots

\* Mutant: the semaphore has room for one more.
TakeSlotUnbounded(i) ==
  /\ tool[i] = "waiting" /\ slots < Parallel + 1
  /\ tool' = [tool EXCEPT ![i] = "running"]
  /\ slots' = slots + 1
  /\ UNCHANGED result

\* ... then selects between the semaphore and ctx; Go picks any ready case.
TakeSlot(i) ==
  /\ tool[i] = "waiting" /\ slots < Parallel
  /\ tool' = [tool EXCEPT ![i] = "running"]
  /\ slots' = slots + 1
  /\ UNCHANGED result

Abort(i) ==
  /\ tool[i] = "waiting" /\ cancelled
  /\ tool' = [tool EXCEPT ![i] = "joined"]
  /\ result' = [result EXCEPT ![i] = "cancelled"]
  /\ UNCHANGED slots

\* Mutant: the slot is not given back.
ToolReturnsLeaky(i) ==
  /\ tool[i] = "running"
  /\ tool' = [tool EXCEPT ![i] = "joined"]
  /\ \E r \in {"output", "error"} : result' = [result EXCEPT ![i] = r]
  /\ UNCHANGED slots

\* safeCall returns, the slot is freed and the WaitGroup told.
ToolReturns(i) ==
  /\ tool[i] = "running"
  /\ tool' = [tool EXCEPT ![i] = "joined"]
  /\ \E r \in {"output", "error"} : result' = [result EXCEPT ![i] = r]
  /\ slots' = slots - 1

Goroutine(i) ==
  /\ pc = "run"
  /\ CheckCtx(i) \/ TakeSlot(i) \/ Abort(i) \/ ToolReturns(i)
  /\ UNCHANGED <<pc, res, step, cancelled, calls, transcript, part, denied, idx, usage>>

\* wg.Wait returns.
Join ==
  /\ pc = "run" /\ \A i \in Calls : tool[i] \in {"skipped", "joined"}
  /\ idx' = 1
  /\ Goto("collect")
  /\ UNCHANGED <<step, cancelled, calls, transcript, part, denied, tool, result, slots, usage>>

\* OnToolResult and ShapeToolResult accept the next result.
Collect ==
  /\ pc = "collect" /\ idx \in Calls
  /\ part' = Append(part, Tool(calls[idx], result[idx]))
  /\ newMsgs' = Append(newMsgs, Tool(calls[idx], result[idx]))
  /\ idx' = idx + 1
  /\ UNCHANGED <<pc, res, step, cancelled, calls, msgs, committed, denied, tool, result, slots, usage>>

\* OnToolResult refuses it, or ShapeToolResult does: then it is kept unshaped.
CollectFails ==
  /\ pc = "collect" /\ idx \in Calls
  /\ \/ Abandon(<<>>, idx)
     \/ Abandon(<<Tool(calls[idx], result[idx])>>, idx + 1)
     \/ Panics("collect") /\ UNCHANGED <<msgs, newMsgs>>
  /\ ToolsOver
  /\ UNCHANGED <<step, cancelled, committed, usage>>

\* handleToolCalls returns its copy of the transcript.
EndTools ==
  /\ pc = "collect" /\ idx \notin Calls
  /\ msgs' = msgs \o part
  /\ ToolsOver
  /\ IF step = MaxIter THEN Goto("summary") /\ UNCHANGED step
                       ELSE Goto("step") /\ step' = step + 1
  /\ UNCHANGED <<cancelled, newMsgs, committed, usage>>

-----------------------------------------------------------------------------
(* summarizeAtLimit, and the end of the loop.                              *)

Summarize ==
  /\ pc = "summary"
  /\ \E first \in Firsts :
       \/ Attempt(first, "ok") /\ calls' \in Answers /\ Goto("summarized")
       \/ Attempt(first, "error") /\ Goto("limit") /\ UNCHANGED calls
  /\ UNCHANGED <<step, cancelled, transcript, tools>>

\* The model still wants tools: its usage counts, nothing runs.
StillWantsTools ==
  /\ pc = "summarized" /\ calls # <<>>
  /\ Record
  /\ IF OverBudget THEN Return("error", step + 1) ELSE Goto("limit")
  /\ UNCHANGED <<step, cancelled, calls, transcript, tools, thinking, billed>>

\* The reply is appended before AfterLLM and OnBudget are asked.
SummaryReply ==
  /\ pc = "summarized" /\ calls = <<>>
  /\ msgs' = Append(msgs, Reply) /\ newMsgs' = Append(newMsgs, Reply)
  /\ \/ Return("error", step) /\ UNCHANGED <<total, recorded>>
     \/ Record /\ OverBudget /\ Return("error", step + 1)
     \/ Record /\ ~OverBudget /\ Return("stop", step + 1)
  /\ UNCHANGED <<step, cancelled, calls, committed, tools, thinking, billed>>

\* Mutant: ctx is not looked at again.
LimitUnchecked ==
  /\ pc = "limit"
  /\ Return("max_iterations", step)
  /\ UNCHANGED <<step, cancelled, calls, transcript, tools, usage>>

Limit ==
  /\ pc = "limit"
  /\ Return(IF cancelled THEN "error" ELSE "max_iterations", step)
  /\ UNCHANGED <<step, cancelled, calls, transcript, tools, usage>>

-----------------------------------------------------------------------------
Cancel ==
  /\ pc # "done" /\ ~cancelled
  /\ cancelled' = TRUE
  /\ UNCHANGED <<pc, res, step, calls, transcript, tools, usage>>

Run ==
  \/ Step \/ ViewOnly \/ BeforeFails \/ Summarized \/ Lossy
  \/ CallLLM \/ RetryLLM
  \/ AfterFails \/ RecordOverBudget \/ FinalReply
  \/ BeginTools \/ Allow \/ NotifyFails \/ Launch \/ Join
  \/ Collect \/ CollectFails \/ EndTools
  \/ Summarize \/ StillWantsTools \/ SummaryReply \/ Limit

\* A turn that has returned stays as it is.
Returned == pc = "done" /\ UNCHANGED vars

Next == Run \/ Cancel \/ Returned \/ \E i \in Calls : Goroutine(i)

Spec == Init /\ [][Next]_vars

\* The endpoint answers or times out, and so does every tool.
FairSpec ==
  /\ Spec
  /\ WF_vars(Run)
  /\ \A i \in 1..MaxCalls : WF_vars(i \in Calls /\ Goroutine(i))

-----------------------------------------------------------------------------
(* Properties.                                                             *)

PCs == PanicPlaces \cup {"step", "call", "run", "summary", "summarized", "limit", "done"}
Working == {"notify", "run", "collect"}

TypeOK ==
  /\ pc \in PCs /\ step \in 1..MaxIter
  /\ cancelled \in BOOLEAN /\ thinking \in BOOLEAN /\ committed \in BOOLEAN
  /\ msgs \in Seq(Messages) /\ newMsgs \in Seq(Messages) /\ part \in Seq(Messages)
  /\ calls \in CallLists
  /\ denied \subseteq CallIds
  /\ tool \in Seq({"skipped", "queued", "waiting", "running", "joined"})
  /\ result \in Seq(Bodies \cup {"none"})
  /\ slots \in 0..Parallel /\ idx \in Nat
  /\ total \in Nat /\ billed \in Nat /\ recorded \in Nat
  /\ res \in [finish : {"none", "stop", "max_iterations", "error", "panic"}, steps : Nat]

(***************************************************************************)
(* Outside handleToolCalls the transcript is complete, whatever compaction,*)
(* cancellation or a failing hook did (run_turn.go:177, "pairing is        *)
(* completed by fillPlaceholderTail").                                     *)
(***************************************************************************)
TranscriptAnswered == Answered(msgs)

(***************************************************************************)
(* The transcript a turn leaves in the session passes the check LoadSession*)
(* makes of it (session.go:130).                                           *)
(***************************************************************************)
SessionLoads == pc = "done" => ValidateToolPairing(msgs)

(***************************************************************************)
(* Messages is "History + new additions this round" (loop_api.go:203): the *)
(* two records of the turn, one updated through a pointer and one by the   *)
(* return of handleToolCalls, never drift apart, until a compaction.       *)
(***************************************************************************)
TranscriptIsHistoryPlusNew ==
  committed \/ pc \in Working \/ \E h \in Histories : msgs = h \o newMsgs

(***************************************************************************)
(* The goroutines of a step are over before its results are read, the      *)
(* semaphore counts those that run, and never more than its capacity       *)
(* (loop_tools.go:41-80).                                                  *)
(***************************************************************************)
Running == {i \in Calls \cap DOMAIN tool : tool[i] = "running"}

ToolsJoined ==
  /\ slots <= Parallel
  /\ pc = "run" => slots = Cardinality(Running)
  /\ pc # "run" => slots = 0
  /\ pc = "collect" => \A i \in Calls : result[i] # "none"

(***************************************************************************)
(* A call the policy denied never runs, and its result says so, although   *)
(* the denial is remembered by id and looked up per call                   *)
(* (tool_handler.go:32, loop_tools.go:44).                                 *)
(***************************************************************************)
DeniedNeverRun ==
  pc \in {"run", "collect"} =>
    \A i \in Calls : calls[i] \in denied => tool[i] = "skipped" /\ result[i] = "rejected"

(***************************************************************************)
(* Steps is "the number of LLM calls whose usage has been accounted for"   *)
(* (loop_api.go:189), but for the summary call that still wants tools      *)
(* (loop.go:107).                                                          *)
(***************************************************************************)
StepsAreRecorded ==
  pc = "done" /\ res.finish # "panic" =>
    \/ res.steps = recorded
    \/ /\ res.finish \in {"max_iterations", "error"}
       /\ res.steps = MaxIter /\ recorded = MaxIter + 1

(***************************************************************************)
(* The budget fuse: a turn goes on only within its budget, which it        *)
(* overspends by no more than one response and one summary, which may have *)
(* been asked for twice (loop_hooks_default.go:64).                        *)
(***************************************************************************)
BudgetStops ==
  /\ pc \in Working \cup {"step", "summary"} => total <= Budget
  /\ total <= Budget + 3

(***************************************************************************)
(* A cancelled turn is not reported as one that hit its iteration limit    *)
(* (loop.go:211-216).                                                      *)
(***************************************************************************)
CancelNotSwallowed == res.finish = "max_iterations" => ~cancelled

(***************************************************************************)
(* Every turn returns: no goroutine waits for a slot nobody frees, and no  *)
(* path of the loop goes on for ever.                                      *)
(***************************************************************************)
TurnReturns == <>(pc = "done")

-----------------------------------------------------------------------------
(* Statements of the sources that the code does not meet.                  *)

(***************************************************************************)
(* "after cancellation, queued calls immediately abort without waiting for *)
(* a slot ... a cancelled tool could win the slot and run. Check ctx       *)
(* non-blocking first" (loop_tools.go:60-64): no tool starts once the turn *)
(* is cancelled.                                                           *)
(***************************************************************************)
NoStartAfterCancel ==
  [][\A i \in Calls \cap DOMAIN tool \cap DOMAIN tool' :
        tool[i] = "waiting" /\ tool'[i] = "running" => ~cancelled]_vars

(***************************************************************************)
(* "Both attempts' usage is accumulated (like the length/429 downgrade     *)
(* path)" (assemble.go:204): what the endpoint bills is what the budget    *)
(* sees, once a step's usage is recorded.                                  *)
(***************************************************************************)
BilledIsCounted == pc \in {"step", "summary"} => total = billed

=============================================================================
