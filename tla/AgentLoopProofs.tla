--------------------------- MODULE AgentLoopProofs ---------------------------
(***************************************************************************)
(* Proofs about AgentLoop, for any histories, ids, number of calls and     *)
(* iterations, budget and semaphore: the accounts of a turn, its tool      *)
(* goroutines, and its transcript, which stays complete through tool       *)
(* steps, failing hooks, cancellation and compaction and until a           *)
(* compaction is the history followed by the additions of the turn.        *)
(***************************************************************************)
EXTENDS AgentLoop, Induction, FiniteSetTheorems, SequenceTheorems, WellFoundedInduction, TLAPS

LEMMA Limits ==
  /\ MaxIter \in Nat /\ MaxIter >= 1
  /\ Parallel \in Nat /\ Parallel >= 1
  /\ Budget \in Nat
  BY LoopAssumption

-----------------------------------------------------------------------------
(* The accounts: steps, usage and the way a turn ended.                    *)

AccountTypes ==
  /\ pc \in PCs /\ step \in 1..MaxIter
  /\ cancelled \in BOOLEAN
  /\ total \in Nat /\ recorded \in Nat
  /\ res \in [finish : {"none", "stop", "max_iterations", "error", "panic"}, steps : Nat]

\* What has been recorded when the loop is at pc.
RecordedSoFar ==
  /\ pc \in {"step", "before", "call", "retry", "after"} => recorded = step - 1
  /\ pc \in Working => recorded = step
  /\ pc \in {"summary", "summarized"} => step = MaxIter /\ recorded = MaxIter
  /\ pc = "limit" => step = MaxIter /\ recorded \in {MaxIter, MaxIter + 1}

\* What may have been spent: BeforeLLM adds two summaries at most.
SpentSoFar ==
  /\ pc \in Working \cup {"step", "before", "summary", "summarized", "limit"} => total <= Budget
  /\ pc \in {"call", "retry", "after"} => total <= Budget + 2
  /\ total <= Budget + 3

NotReturned == pc # "done" => res.finish = "none"

Accounts ==
  /\ AccountTypes /\ RecordedSoFar /\ SpentSoFar /\ NotReturned
  /\ StepsAreRecorded /\ CancelNotSwallowed

LEMMA AccountsInit == Init => Accounts
<1> SUFFICES ASSUME Init PROVE Accounts
  OBVIOUS
<1> USE Limits DEF Init
<1>1. AccountTypes
  <2>1. pc \in PCs
    BY DEF PCs
  <2>4. step \in 1..MaxIter
    OBVIOUS
  <2>5. cancelled \in BOOLEAN
    OBVIOUS
  <2>2. total \in Nat /\ recorded \in Nat
    OBVIOUS
  <2>3. res \in [finish : {"none", "stop", "max_iterations", "error", "panic"}, steps : Nat]
    OBVIOUS
  <2> QED
    BY <2>1, <2>2, <2>3, <2>4, <2>5 DEF AccountTypes
<1>2. RecordedSoFar /\ SpentSoFar
  BY DEF RecordedSoFar, SpentSoFar, Working
<1>3. NotReturned /\ StepsAreRecorded /\ CancelNotSwallowed
  BY DEF NotReturned, StepsAreRecorded, CancelNotSwallowed
<1> QED
  BY <1>1, <1>2, <1>3 DEF Accounts

\* A step that moves the loop without returning or recording anything.
LEMMA AccountsMove ==
  ASSUME Accounts, NEW to \in PCs \ {"done"}, Goto(to), pc # "done",
         UNCHANGED <<step, cancelled, total, recorded>>,
         \/ to = pc
         \/ pc = "step" /\ to = "before"
         \/ pc \in {"before", "call"} /\ to \in {"call", "retry", "after"}
         \/ pc = "retry" /\ to = "after"
         \/ pc \in Working /\ to \in Working
         \/ pc = "summary" /\ to \in {"summarized", "limit"}
  PROVE  Accounts'
<1> USE Limits DEF Accounts, Goto
<1>1. AccountTypes'
  BY DEF AccountTypes
<1>2. RecordedSoFar'
  BY DEF RecordedSoFar, AccountTypes, Working
<1>3. SpentSoFar'
  BY DEF SpentSoFar, AccountTypes, Working
<1>4. NotReturned' /\ StepsAreRecorded' /\ CancelNotSwallowed'
  BY DEF NotReturned, StepsAreRecorded, CancelNotSwallowed
<1> QED
  BY <1>1, <1>2, <1>3, <1>4

\* A return that reports the steps recorded.
LEMMA AccountsReturn ==
  ASSUME Accounts, NEW finish \in {"stop", "error", "panic", "max_iterations"},
         NEW steps \in Nat, Return(finish, steps),
         UNCHANGED <<step, cancelled>>,
         total' \in Nat, total' <= Budget + 3, recorded' \in Nat,
         finish = "max_iterations" => ~cancelled,
         \/ finish = "panic"
         \/ steps = recorded'
         \/ finish # "stop" /\ steps = MaxIter /\ recorded' = MaxIter + 1
  PROVE  Accounts'
<1> USE Limits DEF Accounts, Return
<1>1. AccountTypes'
  BY DEF AccountTypes, PCs
<1>2. RecordedSoFar' /\ SpentSoFar'
  BY DEF RecordedSoFar, SpentSoFar, Working
<1>3. NotReturned' /\ StepsAreRecorded' /\ CancelNotSwallowed'
  BY DEF NotReturned, StepsAreRecorded, CancelNotSwallowed, AccountTypes
<1> QED
  BY <1>1, <1>2, <1>3

-----------------------------------------------------------------------------
(* The accounts, action by action.                                         *)

LEMMA AccountsIteration ==
  ASSUME Accounts, Step \/ ViewOnly \/ BeforeFails \/ Summarized \/ Lossy
  PROVE  Accounts'
<1> USE Limits
<1>0. AccountTypes /\ RecordedSoFar /\ SpentSoFar
  BY DEF Accounts
<1>t. step \in Nat /\ step >= 1 /\ step - 1 \in Nat /\ total \in Nat /\ recorded \in Nat
  BY <1>0 DEF AccountTypes
<1>1. CASE Step
  <2>1. recorded = step - 1 /\ total <= Budget + 3
    BY <1>0, <1>1 DEF Step, RecordedSoFar, SpentSoFar
  <2>2. CASE cancelled
    BY <1>1, <1>t, <2>1, <2>2, AccountsReturn DEF Step, usage
  <2>3. CASE ~cancelled
    BY <1>1, <1>t, <2>3, AccountsMove DEF Step, usage, PCs, PanicPlaces
  <2> QED
    BY <2>2, <2>3
<1>2. CASE ViewOnly
  BY <1>2, AccountsMove DEF ViewOnly, usage, PCs
<1>3. CASE BeforeFails
  <2>1. recorded = step - 1 /\ total <= Budget + 3
    BY <1>0, <1>3 DEF BeforeFails, RecordedSoFar, SpentSoFar, PCs
  <2>2. CASE Return("error", step - 1)
    BY <1>3, <1>t, <2>1, <2>2, AccountsReturn DEF BeforeFails
  <2>3. CASE Panics("before")
    BY <1>3, <1>t, <2>1, <2>3, AccountsReturn DEF BeforeFails, Panics
  <2> QED
    BY <1>3, <2>2, <2>3 DEF BeforeFails
<1>4. CASE Summarized
  <2>1. PICK n \in 1..2 : total' = total + n
    BY <1>4 DEF Summarized, Asked
  <2>2. pc = "before" /\ pc' = "call" /\ UNCHANGED <<step, cancelled, recorded, res>>
    BY <1>4 DEF Summarized, Goto
  <2>3. total <= Budget /\ recorded = step - 1
    BY <1>0, <2>2 DEF SpentSoFar, RecordedSoFar
  <2>4. AccountTypes'
    BY <1>0, <2>1, <2>2 DEF AccountTypes, PCs
  <2>5. RecordedSoFar' /\ SpentSoFar'
    BY <1>t, <2>1, <2>2, <2>3 DEF RecordedSoFar, SpentSoFar, Working
  <2>6. NotReturned' /\ StepsAreRecorded' /\ CancelNotSwallowed'
    BY <2>2 DEF Accounts, NotReturned, StepsAreRecorded, CancelNotSwallowed
  <2> QED
    BY <2>4, <2>5, <2>6 DEF Accounts
<1>5. CASE Lossy
  BY <1>5, AccountsMove DEF Lossy, PCs
<1> QED
  BY <1>1, <1>2, <1>3, <1>4, <1>5

LEMMA AccountsCalls ==
  ASSUME Accounts, CallLLM \/ RetryLLM \/ Summarize
  PROVE  Accounts'
<1> USE Limits
<1>0. AccountTypes /\ RecordedSoFar /\ SpentSoFar
  BY DEF Accounts
<1>t. step \in Nat /\ step >= 1 /\ step - 1 \in Nat /\ total \in Nat /\ recorded \in Nat
  BY <1>0 DEF AccountTypes
<1>1. CASE CallLLM
  <2>1. pc = "call" /\ UNCHANGED <<step, cancelled, total, recorded>>
    BY <1>1 DEF CallLLM, Attempt
  <2>2. Goto("after") \/ Goto("retry") \/ Return("error", step - 1)
    BY <1>1 DEF CallLLM
  <2>3. recorded = step - 1 /\ total <= Budget + 3
    BY <1>0, <2>1 DEF RecordedSoFar, SpentSoFar
  <2>4. CASE Goto("after") \/ Goto("retry")
    BY <2>1, <2>4, AccountsMove DEF PCs, PanicPlaces
  <2>5. CASE Return("error", step - 1)
    BY <1>t, <2>1, <2>3, <2>5, AccountsReturn
  <2> QED
    BY <2>2, <2>4, <2>5
<1>2. CASE RetryLLM
  <2>1. pc = "retry" /\ UNCHANGED <<step, cancelled, total, recorded>>
    BY <1>2 DEF RetryLLM, Attempt, usage
  <2>2. Goto("after") \/ Return("error", step - 1) \/ Return("panic", 0)
    BY <1>2 DEF RetryLLM, Panics
  <2>3. recorded = step - 1 /\ total <= Budget + 3
    BY <1>0, <2>1 DEF RecordedSoFar, SpentSoFar
  <2>4. CASE Goto("after")
    BY <2>1, <2>4, AccountsMove DEF PCs, PanicPlaces
  <2>5. CASE Return("error", step - 1)
    BY <1>t, <2>1, <2>3, <2>5, AccountsReturn
  <2>6. CASE Return("panic", 0)
    BY <1>t, <2>1, <2>3, <2>6, AccountsReturn
  <2> QED
    BY <2>2, <2>4, <2>5, <2>6
<1>3. CASE Summarize
  <2>1. pc = "summary" /\ UNCHANGED <<step, cancelled, total, recorded>>
    BY <1>3 DEF Summarize, Attempt
  <2>2. Goto("summarized") \/ Goto("limit")
    BY <1>3 DEF Summarize
  <2> QED
    BY <2>1, <2>2, AccountsMove DEF PCs
<1> QED
  BY <1>1, <1>2, <1>3

LEMMA AccountsRecords ==
  ASSUME Accounts,
         \/ AfterFails \/ RecordOverBudget \/ FinalReply \/ BeginTools
         \/ StillWantsTools \/ SummaryReply
  PROVE  Accounts'
<1> USE Limits
<1>0. AccountTypes /\ RecordedSoFar /\ SpentSoFar
  BY DEF Accounts
<1>t. /\ step \in Nat /\ step >= 1 /\ step - 1 \in Nat /\ step + 1 \in Nat
      /\ total \in Nat /\ recorded \in Nat /\ total + 1 \in Nat /\ recorded + 1 \in Nat
  BY <1>0 DEF AccountTypes
<1>a. pc = "after" => recorded = step - 1 /\ total <= Budget + 2
  BY <1>0 DEF RecordedSoFar, SpentSoFar
<1>s. pc = "summarized" => recorded = MaxIter /\ step = MaxIter /\ total <= Budget
  BY <1>0 DEF RecordedSoFar, SpentSoFar
<1>1. CASE AfterFails
  <2>1. CASE Return("error", step - 1)
    BY <1>1, <1>t, <1>a, <2>1, AccountsReturn DEF AfterFails, usage
  <2>2. CASE Panics("after")
    BY <1>1, <1>t, <1>a, <2>2, AccountsReturn DEF AfterFails, usage, Panics
  <2> QED
    BY <1>1, <2>1, <2>2 DEF AfterFails
<1>2. CASE RecordOverBudget
  BY <1>2, <1>t, <1>a, AccountsReturn DEF RecordOverBudget, Record
<1>3. CASE FinalReply
  BY <1>3, <1>t, <1>a, AccountsReturn DEF FinalReply, Record
<1>4. CASE BeginTools
  <2>1. /\ pc = "after" /\ pc' = "notify"
        /\ total' = total + 1 /\ recorded' = recorded + 1 /\ total + 1 <= Budget
        /\ UNCHANGED <<step, cancelled, res>>
    BY <1>4, <1>t DEF BeginTools, Record, OverBudget, Goto
  <2>2. AccountTypes'
    BY <1>0, <1>t, <2>1 DEF AccountTypes, PCs, PanicPlaces
  <2>3. RecordedSoFar' /\ SpentSoFar'
    BY <1>t, <1>a, <2>1 DEF RecordedSoFar, SpentSoFar, Working
  <2>4. NotReturned' /\ StepsAreRecorded' /\ CancelNotSwallowed'
    BY <2>1 DEF Accounts, NotReturned, StepsAreRecorded, CancelNotSwallowed
  <2> QED
    BY <2>2, <2>3, <2>4 DEF Accounts
<1>5. CASE StillWantsTools
  <2>1. /\ pc = "summarized"
        /\ total' = total + 1 /\ recorded' = recorded + 1 /\ UNCHANGED <<step, cancelled>>
    BY <1>5 DEF StillWantsTools, Record
  <2>2. CASE OverBudget
    BY <1>5, <1>t, <1>s, <2>1, <2>2, AccountsReturn DEF StillWantsTools
  <2>3. CASE ~OverBudget
    <3>1. pc' = "limit" /\ UNCHANGED res /\ total + 1 <= Budget
      BY <1>5, <1>t, <2>3 DEF StillWantsTools, Goto, OverBudget
    <3>2. AccountTypes'
      BY <1>0, <1>t, <2>1, <3>1 DEF AccountTypes, PCs
    <3>3. RecordedSoFar' /\ SpentSoFar'
      BY <1>t, <1>s, <2>1, <3>1 DEF RecordedSoFar, SpentSoFar, Working
    <3>4. NotReturned' /\ StepsAreRecorded' /\ CancelNotSwallowed'
      BY <2>1, <3>1 DEF Accounts, NotReturned, StepsAreRecorded, CancelNotSwallowed
    <3> QED
      BY <3>2, <3>3, <3>4 DEF Accounts
  <2> QED
    BY <2>2, <2>3
<1>6. CASE SummaryReply
  <2>1. pc = "summarized" /\ UNCHANGED <<step, cancelled>>
    BY <1>6 DEF SummaryReply
  <2>2. CASE Return("error", step) /\ UNCHANGED <<total, recorded>>
    BY <1>t, <1>s, <2>1, <2>2, AccountsReturn
  <2>3. ASSUME NEW finish \in {"error", "stop"}, Record, Return(finish, step + 1)
        PROVE  Accounts'
    BY <1>t, <1>s, <2>1, <2>3, AccountsReturn DEF Record
  <2> QED
    BY <1>6, <2>2, <2>3 DEF SummaryReply
<1> QED
  BY <1>1, <1>2, <1>3, <1>4, <1>5, <1>6

LEMMA AccountsTools ==
  ASSUME Accounts,
         \/ Allow \/ NotifyFails \/ Launch \/ Join \/ Collect \/ CollectFails \/ EndTools
         \/ Limit \/ \E i \in Calls : Goroutine(i)
  PROVE  Accounts'
<1> USE Limits
<1>0. AccountTypes /\ RecordedSoFar /\ SpentSoFar
  BY DEF Accounts
<1>t. /\ step \in 1..MaxIter /\ step \in Nat /\ step >= 1
      /\ total \in Nat /\ recorded \in Nat /\ total <= Budget + 3
  BY <1>0 DEF AccountTypes, SpentSoFar
<1>w. pc \in Working => recorded = step /\ total <= Budget
  BY <1>0 DEF RecordedSoFar, SpentSoFar
<1>1. ASSUME NEW to \in Working, pc \in Working, Goto(to), UNCHANGED <<step, cancelled, usage>>
      PROVE  Accounts'
  BY <1>1, AccountsMove DEF usage, Working, PCs, PanicPlaces
<1>2. ASSUME pc \in Working, Return("error", step) \/ Return("panic", 0),
             UNCHANGED <<step, cancelled, usage>>
      PROVE  Accounts'
  BY <1>t, <1>w, <1>2, AccountsReturn DEF usage
<1>3. CASE Allow \/ Launch \/ Join \/ Collect \/ \E i \in Calls : Goroutine(i)
  BY <1>1, <1>3 DEF Allow, Launch, Join, Collect, Goroutine, Goto, Working
<1>4. CASE NotifyFails \/ CollectFails
  BY <1>2, <1>4 DEF NotifyFails, CollectFails, Abandon, Panics, Working
<1>5. CASE EndTools
  <2>1. /\ pc = "collect" /\ UNCHANGED <<cancelled, total, recorded, res>>
        /\ \/ step = MaxIter /\ pc' = "summary" /\ step' = step
           \/ step # MaxIter /\ pc' = "step" /\ step' = step + 1
    BY <1>5 DEF EndTools, Goto, usage
  <2>2. AccountTypes'
    BY <1>0, <1>t, <2>1 DEF AccountTypes, PCs
  <2>3. RecordedSoFar' /\ SpentSoFar'
    BY <1>t, <1>w, <2>1 DEF RecordedSoFar, SpentSoFar, Working
  <2>4. NotReturned' /\ StepsAreRecorded' /\ CancelNotSwallowed'
    BY <2>1 DEF Accounts, NotReturned, StepsAreRecorded, CancelNotSwallowed
  <2> QED
    BY <2>2, <2>3, <2>4 DEF Accounts
<1>6. CASE Limit
  <2>1. step = MaxIter /\ recorded \in {MaxIter, MaxIter + 1}
    BY <1>0, <1>6 DEF Limit, RecordedSoFar
  <2> QED
    BY <1>6, <1>t, <2>1, AccountsReturn DEF Limit, usage
<1> QED
  BY <1>3, <1>4, <1>5, <1>6

LEMMA AccountsCancel ==
  ASSUME Accounts, Cancel \/ UNCHANGED vars
  PROVE  Accounts'
<1>1. /\ UNCHANGED <<pc, step, total, recorded, res>>
      /\ \/ cancelled' = cancelled
         \/ pc # "done" /\ cancelled' = TRUE
  BY DEF Cancel, vars, usage
<1>2. AccountTypes'
  BY <1>1 DEF Accounts, AccountTypes
<1>3. RecordedSoFar' /\ SpentSoFar' /\ NotReturned'
  BY <1>1 DEF Accounts, RecordedSoFar, SpentSoFar, NotReturned
<1>4. StepsAreRecorded' /\ CancelNotSwallowed'
  BY <1>1 DEF Accounts, NotReturned, StepsAreRecorded, CancelNotSwallowed
<1> QED
  BY <1>2, <1>3, <1>4 DEF Accounts

LEMMA AccountsNext == Accounts /\ [Next]_vars => Accounts'
  BY AccountsIteration, AccountsCalls, AccountsRecords, AccountsTools, AccountsCancel
     DEF Next, Run, Returned

(***************************************************************************)
(* The counters of a turn agree at every step: usage counted, responses    *)
(* recorded and steps taken (recordStepUsage and the returns of Run).      *)
(***************************************************************************)
THEOREM AccountsInvariant == Spec => []Accounts
  BY AccountsInit, AccountsNext, PTL DEF Spec

(***************************************************************************)
(* The steps a turn reports are the LLM calls whose usage it recorded.     *)
(***************************************************************************)
THEOREM StepsRecorded == Spec => []StepsAreRecorded
<1>1. Accounts => StepsAreRecorded
  BY DEF Accounts
<1> QED
  BY <1>1, AccountsInvariant, PTL

(***************************************************************************)
(* No budget is overspent by more than a response and a summary that was   *)
(* asked for twice, and no turn goes on beyond its budget.                 *)
(***************************************************************************)
THEOREM BudgetFuse == Spec => []BudgetStops
<1>1. Accounts => BudgetStops
  BY DEF Accounts, SpentSoFar, BudgetStops
<1> QED
  BY <1>1, AccountsInvariant, PTL

(***************************************************************************)
(* A cancelled turn never reports that it hit its iteration limit.         *)
(***************************************************************************)
THEOREM CancellationReported == Spec => []CancelNotSwallowed
<1>1. Accounts => CancelNotSwallowed
  BY DEF Accounts
<1> QED
  BY <1>1, AccountsInvariant, PTL

-----------------------------------------------------------------------------
(* The goroutines of a step.                                               *)

ToolStates == {"skipped", "queued", "waiting", "running", "joined"}
Kinds      == {"output", "error", "rejected", "unknown", "cancelled"}

\* The call of each goroutine is over, or it has no result yet, and never runs
\* against a denial.
CallOK(i) ==
  /\ calls[i] \in denied => tool[i] = "skipped" /\ result[i] = "rejected"
  /\ tool[i] \in {"skipped", "joined"} => result[i] # "none"

ToolsTyped ==
  /\ tool \in [Calls -> ToolStates]
  /\ result \in [Calls -> Kinds \cup {"none"}]

ToolStep ==
  /\ calls \in CallLists
  /\ pc \in {"run", "collect"} => ToolsTyped /\ \A i \in Calls : CallOK(i)
  /\ slots \in Nat /\ slots <= Parallel
  /\ pc = "run" => slots = Cardinality(Running)
  /\ pc # "run" => slots = 0
  /\ pc = "collect" => \A i \in Calls : tool[i] \in {"skipped", "joined"}

LEMMA AnswersTyped == \A ids \in Answers : ids \in CallLists
<1> SUFFICES ASSUME NEW ids \in Answers PROVE ids \in CallLists
  OBVIOUS
<1>1. PICK n \in 0..MaxCalls : ids \in [1..n -> CallIds]
  BY DEF Answers
<1>2. n \in Nat /\ Distinct(ids)
  BY LoopAssumption DEF Answers
<1>3. ids \in Seq(CallIds)
  BY <1>1, <1>2, SeqDef
<1> QED
  BY <1>2, <1>3 DEF CallLists

LEMMA CallListsTyped == CallLists \subseteq Seq(CallIds) /\ <<>> \in CallLists
  BY DEF CallLists, Distinct

\* Away from the goroutines there is nothing to say of them.
LEMMA ToolsElsewhere ==
  ASSUME ToolStep, pc # "run", pc' \notin {"run", "collect"}, UNCHANGED slots,
         calls' \in CallLists
  PROVE  ToolStep'
  BY DEF ToolStep

\* Only the goroutine of call i has moved.
LEMMA OthersUnmoved ==
  ASSUME ToolsTyped, calls \in Seq(CallIds), NEW i \in Calls, UNCHANGED <<calls, denied>>,
         NEW s \in ToolStates, tool' = [tool EXCEPT ![i] = s],
         \/ result' = result /\ s # "joined"
         \/ \E r \in Kinds : result' = [result EXCEPT ![i] = r],
         \A j \in Calls : CallOK(j), calls[i] \notin denied, s # "skipped"
  PROVE  ToolsTyped' /\ \A j \in Calls : CallOK(j)'
<1>1. ToolsTyped'
  BY DEF ToolsTyped, Calls
<1>2. ASSUME NEW j \in Calls PROVE CallOK(j)'
  <2>1. CASE j = i
    BY <2>1 DEF CallOK, ToolsTyped, Kinds
  <2>2. CASE j # i
    BY <2>2 DEF CallOK, ToolsTyped
  <2> QED
    BY <2>1, <2>2
<1> QED
  BY <1>1, <1>2

LEMMA RunningFinite ==
  ASSUME calls \in Seq(CallIds)
  PROVE  IsFiniteSet(Running) /\ Cardinality(Running) \in Nat
<1>1. Len(calls) \in Nat
  OBVIOUS
<1>2. IsFiniteSet(1..Len(calls))
  BY <1>1, FS_Interval
<1>3. Running \subseteq 1..Len(calls)
  BY DEF Running, Calls
<1> QED
  BY <1>2, <1>3, FS_Subset, FS_CardinalityType

LEMMA GoroutinePreserves ==
  ASSUME ToolStep, NEW i \in Calls, Goroutine(i)
  PROVE  ToolStep'
<1>1. /\ pc = "run" /\ pc' = "run" /\ UNCHANGED <<calls, denied>>
      /\ ToolsTyped /\ (\A j \in Calls : CallOK(j)) /\ calls \in CallLists /\ calls \in Seq(CallIds)
      /\ slots = Cardinality(Running) /\ slots \in Nat /\ slots <= Parallel
  BY CallListsTyped DEF ToolStep, Goroutine
<1>2. Calls' = Calls
  BY <1>1 DEF Calls
<1>3. IsFiniteSet(Running)
  BY <1>1, RunningFinite
<1>f. DOMAIN tool = Calls /\ Running = {j \in Calls : tool[j] = "running"}
  BY <1>1 DEF ToolsTyped, Running
<1>4. SUFFICES ASSUME TRUE
               PROVE  /\ ToolsTyped' /\ \A j \in Calls : CallOK(j)'
                      /\ slots' = Cardinality(Running') /\ slots' \in Nat /\ slots' <= Parallel
  BY <1>1, <1>2 DEF ToolStep
<1>5. CASE CheckCtx(i) \/ Abort(i)
  <2>1. CASE /\ tool' = [tool EXCEPT ![i] = "joined"]
             /\ result' = [result EXCEPT ![i] = "cancelled"]
    <3>1. ToolsTyped' /\ \A j \in Calls : CallOK(j)'
      BY <1>1, <1>5, <2>1, OthersUnmoved DEF CheckCtx, Abort, CallOK, ToolStates, Kinds
    <3>2. Running' = Running
      BY <1>1, <1>2, <1>5, <2>1, <1>f DEF CheckCtx, Abort, Running, ToolsTyped
    <3> QED
      BY <1>1, <1>5, <3>1, <3>2 DEF CheckCtx, Abort
  <2>2. CASE tool' = [tool EXCEPT ![i] = "waiting"] /\ result' = result
    <3>0. tool[i] = "queued"
      BY <1>5, <2>2, <1>1 DEF CheckCtx, Abort, ToolsTyped
    <3>1. ToolsTyped' /\ \A j \in Calls : CallOK(j)'
      BY <1>1, <3>0, <2>2, OthersUnmoved DEF CallOK, ToolStates
    <3>2. Running' = Running
      BY <1>1, <1>2, <3>0, <2>2, <1>f DEF Running, ToolsTyped
    <3> QED
      BY <1>1, <1>5, <3>1, <3>2 DEF CheckCtx, Abort
  <2> QED
    BY <1>5, <2>1, <2>2 DEF CheckCtx, Abort
<1>6. CASE TakeSlot(i)
  <2>1. ToolsTyped' /\ \A j \in Calls : CallOK(j)'
    BY <1>1, <1>6, OthersUnmoved DEF TakeSlot, CallOK, ToolStates
  <2>2. Running' = Running \cup {i} /\ i \notin Running
    BY <1>1, <1>2, <1>6, <1>f DEF TakeSlot, Running, ToolsTyped
  <2>3. Cardinality(Running') = Cardinality(Running) + 1
    BY <1>3, <2>2, FS_AddElement
  <2> QED
    BY <1>1, <1>6, <2>1, <2>3, Limits DEF TakeSlot
<1>7. CASE ToolReturns(i)
  <2>1. ToolsTyped' /\ \A j \in Calls : CallOK(j)'
    BY <1>1, <1>7, OthersUnmoved DEF ToolReturns, CallOK, ToolStates, Kinds, ToolsTyped
  <2>2. Running' = Running \ {i} /\ i \in Running
    BY <1>1, <1>2, <1>7, <1>f DEF ToolReturns, Running, ToolsTyped
  <2>3. Cardinality(Running') = Cardinality(Running) - 1 /\ Cardinality(Running') \in Nat
    BY <1>3, <2>2, FS_RemoveElement, FS_CardinalityType
  <2> QED
    BY <1>1, <1>7, <2>1, <2>3, Limits DEF ToolReturns
<1> QED
  BY <1>5, <1>6, <1>7 DEF Goroutine

LEMMA ToolsNext == ToolStep /\ [Next]_vars => ToolStep'
<1> SUFFICES ASSUME ToolStep, [Next]_vars PROVE ToolStep'
  OBVIOUS
<1>0. calls \in CallLists
  BY DEF ToolStep
<1>1. CASE Step \/ ViewOnly \/ BeforeFails \/ Summarized \/ Lossy
  <2>1. UNCHANGED <<calls, slots>> /\ pc # "run" /\ pc' \notin {"run", "collect"}
    BY <1>1 DEF Step, ViewOnly, BeforeFails, Summarized, Lossy, tools, Goto, Return, Panics
  <2> QED
    BY <1>0, <2>1, ToolsElsewhere
<1>2. CASE CallLLM \/ RetryLLM \/ Summarize
  <2>1. UNCHANGED slots /\ pc # "run" /\ pc' \notin {"run", "collect"}
    BY <1>2 DEF CallLLM, RetryLLM, Summarize, tools, Goto, Return, Panics
  <2>2. calls' \in Answers \/ calls' = calls
    BY <1>2 DEF CallLLM, RetryLLM, Summarize
  <2> QED
    BY <1>0, <2>1, <2>2, AnswersTyped, ToolsElsewhere
<1>3. CASE AfterFails \/ RecordOverBudget \/ FinalReply \/ StillWantsTools \/ SummaryReply \/ Limit
  <2>1. UNCHANGED <<calls, slots>> /\ pc # "run" /\ pc' \notin {"run", "collect"}
    BY <1>3 DEF AfterFails, RecordOverBudget, FinalReply, StillWantsTools, SummaryReply, Limit,
                tools, Goto, Return, Panics
  <2> QED
    BY <1>0, <2>1, ToolsElsewhere
<1>4. CASE BeginTools \/ Allow
  <2>1. UNCHANGED <<calls, slots>> /\ pc # "run" /\ pc' \notin {"run", "collect"}
    BY <1>4 DEF BeginTools, Allow, Goto
  <2> QED
    BY <1>0, <2>1, ToolsElsewhere
<1>5. CASE NotifyFails \/ CollectFails \/ EndTools
  <2>1. /\ UNCHANGED slots /\ calls' = <<>> /\ pc # "run" /\ pc' \notin {"run", "collect"}
    BY <1>5 DEF NotifyFails, CollectFails, EndTools, ToolsOver, Abandon, Goto, Return, Panics
  <2>2. <<>> \in CallLists
    BY CallListsTyped
  <2> QED
    BY <2>1, <2>2, ToolsElsewhere
<1>6. CASE Launch
  <2>1. PICK unknown \in SUBSET Calls :
          /\ tool' = [i \in Calls |-> IF calls[i] \in denied \/ i \in unknown THEN "skipped" ELSE "queued"]
          /\ result' = [i \in Calls |-> IF calls[i] \in denied THEN "rejected"
                                        ELSE IF i \in unknown THEN "unknown" ELSE "none"]
    BY <1>6 DEF Launch
  <2>2. UNCHANGED <<calls, slots, denied>> /\ pc = "notify" /\ pc' = "run"
    BY <1>6 DEF Launch, Goto
  <2>3. Calls' = Calls
    BY <2>2 DEF Calls
  <2>4. ToolsTyped'
    BY <2>1, <2>3 DEF ToolsTyped, ToolStates, Kinds
  <2>5. \A i \in Calls : CallOK(i)'
    BY <2>1, <2>2 DEF CallOK
  <2>6. Running' = {}
    BY <2>1, <2>3 DEF Running
  <2>7. slots' = Cardinality(Running') /\ slots' = 0
    BY <2>2, <2>6, FS_EmptySet DEF ToolStep
  <2> QED
    BY <1>0, <2>2, <2>3, <2>4, <2>5, <2>7, Limits DEF ToolStep
<1>7. CASE Join
  <2>1. UNCHANGED <<calls, slots, denied, tool, result>> /\ pc = "run" /\ pc' = "collect"
    BY <1>7 DEF Join, Goto
  <2>2. Calls' = Calls /\ ToolsTyped' /\ \A i \in Calls : CallOK(i)'
    BY <2>1 DEF ToolStep, Calls, ToolsTyped, CallOK
  <2>3. Running = {}
    BY <1>7 DEF Join, Running
  <2>4. slots = 0
    BY <2>1, <2>3, FS_EmptySet DEF ToolStep
  <2> QED
    BY <1>0, <1>7, <2>1, <2>2, <2>4, Limits DEF ToolStep, Join
<1>8. CASE Collect \/ Cancel \/ UNCHANGED vars
  <2>1. UNCHANGED <<pc, calls, slots, denied, tool, result>>
    BY <1>8 DEF Collect, Cancel, vars, tools
  <2>2. /\ Calls' = Calls /\ (ToolsTyped' <=> ToolsTyped) /\ Running' = Running
        /\ \A i \in Calls : CallOK(i)' <=> CallOK(i)
    BY <2>1 DEF Calls, ToolsTyped, CallOK, Running
  <2> QED
    BY <2>1, <2>2 DEF ToolStep
<1> QED
  BY <1>1, <1>2, <1>3, <1>4, <1>5, <1>6, <1>7, <1>8, GoroutinePreserves DEF Next, Run, Returned

(***************************************************************************)
(* The locals of handleToolCalls and the goroutines it started agree with  *)
(* each other from OnToolUse to the return of its transcript.              *)
(***************************************************************************)
THEOREM ToolStepInvariant == Spec => []ToolStep
<1>1. Init => ToolStep
  BY Limits, CallListsTyped DEF Init, ToolStep
<1> QED
  BY <1>1, ToolsNext, PTL DEF Spec

(***************************************************************************)
(* The semaphore counts the running tools, never more than its capacity,   *)
(* and every goroutine has left a result when the results are read.        *)
(***************************************************************************)
THEOREM GoroutinesJoined == Spec => []ToolsJoined
<1>1. ToolStep => ToolsJoined
  BY DEF ToolStep, ToolsJoined, CallOK
<1> QED
  BY <1>1, ToolStepInvariant, PTL

(***************************************************************************)
(* A denied call never runs, and its result is the rejection.              *)
(***************************************************************************)
THEOREM DenialsHold == Spec => []DeniedNeverRun
<1>1. ToolStep => DeniedNeverRun
  BY DEF ToolStep, DeniedNeverRun, CallOK
<1> QED
  BY <1>1, ToolStepInvariant, PTL

(***************************************************************************)
(* Answered transcripts.                                                   *)
(***************************************************************************)
\* Message i of s is followed by the results of its calls.
Followed(s, i) ==
  \A j \in 1..Len(s[i].calls) :
    i + j <= Len(s) /\ s[i + j].role = "tool" /\ s[i + j].call = s[i].calls[j]

\* Message i of s, if a result, answers a call.
Answering(s, i) ==
  s[i].role = "tool" => \E k \in 1..Len(s) : k < i /\ i - k \in 1..Len(s[k].calls)

LEMMA MessageTypes ==
  ASSUME NEW s \in Seq(Messages), NEW i \in 1..Len(s)
  PROVE  /\ s[i] \in Messages /\ s[i].calls \in Seq(CallIds)
         /\ Len(s[i].calls) \in Nat /\ DOMAIN s[i].calls = 1..Len(s[i].calls)
<1>1. s[i] \in Messages
  OBVIOUS
<1>2. s[i].calls \in Seq(CallIds)
  BY <1>1, CallListsTyped DEF Messages
<1> QED
  BY <1>1, <1>2

LEMMA AnsweredIs ==
  ASSUME NEW s \in Seq(Messages)
  PROVE  Answered(s) <=> \A i \in 1..Len(s) : Followed(s, i) /\ Answering(s, i)
<1>0. DOMAIN s = 1..Len(s) /\ Len(s) \in Nat
  OBVIOUS
<1>1. ASSUME NEW i \in 1..Len(s)
      PROVE  Followed(s, i) <=> \A j \in DOMAIN s[i].calls :
               /\ i + j \in DOMAIN s
               /\ s[i + j].role = "tool" /\ s[i + j].call = s[i].calls[j]
  <2>1. DOMAIN s[i].calls = 1..Len(s[i].calls) /\ Len(s[i].calls) \in Nat
    BY MessageTypes
  <2>2. ASSUME NEW j \in 1..Len(s[i].calls) PROVE i + j \in DOMAIN s <=> i + j <= Len(s)
    BY <1>0, <2>1
  <2> QED
    BY <2>1, <2>2 DEF Followed
<1>2. ASSUME NEW i \in 1..Len(s)
      PROVE  Answering(s, i) <=> (s[i].role = "tool" =>
               \E k \in DOMAIN s : k < i /\ i - k \in DOMAIN s[k].calls)
  BY <1>0, MessageTypes DEF Answering
<1> QED
  BY <1>0, <1>1, <1>2 DEF Answered

\* Two complete transcripts make a complete one.
LEMMA AnsweredConcat ==
  ASSUME NEW s \in Seq(Messages), NEW t \in Seq(Messages), Answered(s), Answered(t)
  PROVE  s \o t \in Seq(Messages) /\ Answered(s \o t)
<1> DEFINE c == s \o t
           n == Len(s)
           m == Len(t)
<1>1. /\ c \in Seq(Messages) /\ Len(c) = n + m /\ n \in Nat /\ m \in Nat
      /\ \A i \in 1..(n + m) : c[i] = IF i <= n THEN s[i] ELSE t[i - n]
  BY ConcatProperties
<1>s. \A i \in 1..n : Followed(s, i) /\ Answering(s, i)
  BY AnsweredIs
<1>t. \A i \in 1..m : Followed(t, i) /\ Answering(t, i)
  BY AnsweredIs
<1> HIDE DEF c
<1>2. ASSUME NEW i \in 1..n PROVE Followed(c, i) /\ Answering(c, i)
  <2>1. c[i] = s[i] /\ i \in Nat
    BY <1>1
  <2>2. Len(s[i].calls) \in Nat
    BY MessageTypes
  <2>3. ASSUME NEW j \in 1..Len(s[i].calls)
        PROVE  i + j <= Len(c) /\ c[i + j] = s[i + j]
               /\ s[i + j].role = "tool" /\ s[i + j].call = s[i].calls[j]
    <3>1. i + j <= n /\ s[i + j].role = "tool" /\ s[i + j].call = s[i].calls[j]
      BY <1>s DEF Followed
    <3>2. i + j \in 1..(n + m)
      BY <1>1, <2>2, <3>1
    <3> QED
      BY <1>1, <3>1, <3>2
  <2>4. Followed(c, i)
    BY <2>1, <2>3 DEF Followed
  <2>5. ASSUME s[i].role = "tool" PROVE \E k \in 1..Len(c) : k < i /\ i - k \in 1..Len(c[k].calls)
    <3>1. PICK k \in 1..n : k < i /\ i - k \in 1..Len(s[k].calls)
      BY <1>s, <2>5 DEF Answering
    <3>2. k \in 1..Len(c) /\ c[k] = s[k]
      BY <1>1
    <3> QED
      BY <3>1, <3>2
  <2> QED
    BY <2>1, <2>4, <2>5 DEF Answering
<1>3. ASSUME NEW i \in (n + 1)..(n + m) PROVE Followed(c, i) /\ Answering(c, i)
  <2>1. i - n \in 1..m /\ i \in Nat /\ c[i] = t[i - n]
    BY <1>1
  <2>2. Len(t[i - n].calls) \in Nat
    BY <2>1, MessageTypes
  <2>3. ASSUME NEW j \in 1..Len(t[i - n].calls)
        PROVE  i + j <= Len(c) /\ c[i + j] = t[i - n + j]
               /\ t[i - n + j].role = "tool" /\ t[i - n + j].call = t[i - n].calls[j]
    <3>1. i - n + j <= m /\ t[i - n + j].role = "tool" /\ t[i - n + j].call = t[i - n].calls[j]
      BY <1>t, <2>1 DEF Followed
    <3>2. i + j \in 1..(n + m) /\ ~(i + j <= n) /\ (i + j) - n = i - n + j
      BY <1>1, <2>2, <3>1
    <3> QED
      BY <1>1, <3>1, <3>2
  <2>4. Followed(c, i)
    BY <2>1, <2>3 DEF Followed
  <2>5. ASSUME t[i - n].role = "tool"
        PROVE  \E k \in 1..Len(c) : k < i /\ i - k \in 1..Len(c[k].calls)
    <3>1. PICK k \in 1..m : k < i - n /\ (i - n) - k \in 1..Len(t[k].calls)
      BY <1>t, <2>1, <2>5 DEF Answering
    <3>2. /\ n + k \in 1..(n + m) /\ n + k < i /\ i - (n + k) = (i - n) - k
          /\ ~(n + k <= n) /\ (n + k) - n = k
      BY <1>1, <2>1, <3>1
    <3>3. c[n + k] = t[k]
      BY <1>1, <3>2
    <3> QED
      BY <1>1, <3>1, <3>2, <3>3
  <2> QED
    BY <2>1, <2>4, <2>5 DEF Answering
<1>4. \A i \in 1..Len(c) : i \in 1..n \/ i \in (n + 1)..(n + m)
  BY <1>1
<1>5. Answered(c)
  BY <1>1, <1>2, <1>3, <1>4, AnsweredIs
<1> QED
  BY <1>1, <1>5 DEF c

\* Cut before a message that is no result, a complete transcript leaves two.
LEMMA AnsweredSuffix ==
  ASSUME NEW s \in Seq(Messages), Answered(s), NEW a \in RoundStarts(s)
  PROVE  SubSeq(s, a, Len(s)) \in Seq(Messages) /\ Answered(SubSeq(s, a, Len(s)))
<1> DEFINE c == SubSeq(s, a, Len(s))
           n == Len(s)
<1>1. a \in 1..n /\ n \in Nat /\ s[a].role # "tool"
  BY DEF RoundStarts
<1>2. /\ c \in Seq(Messages) /\ Len(c) = n - a + 1
      /\ \A i \in 1..(n - a + 1) : c[i] = s[a + i - 1]
  <2>1. \A i \in a..n : s[i] \in Messages
    BY <1>1
  <2> QED
    BY <1>1, <2>1, SubSeqProperties
<1>s. \A i \in 1..n : Followed(s, i) /\ Answering(s, i)
  BY AnsweredIs
<1> HIDE DEF c
<1>3. ASSUME NEW i \in 1..Len(c) PROVE Followed(c, i) /\ Answering(c, i)
  <2> DEFINE b == a + i - 1
  <2>1. b \in 1..n /\ c[i] = s[b] /\ i \in Nat /\ b >= a
    BY <1>1, <1>2
  <2>2. Len(s[b].calls) \in Nat
    BY <2>1, MessageTypes
  <2>3. ASSUME NEW j \in 1..Len(s[b].calls)
        PROVE  i + j <= Len(c) /\ c[i + j] = s[b + j]
               /\ s[b + j].role = "tool" /\ s[b + j].call = s[b].calls[j]
    <3>1. b + j <= n /\ s[b + j].role = "tool" /\ s[b + j].call = s[b].calls[j]
      BY <1>s, <2>1 DEF Followed
    <3>2. i + j \in 1..(n - a + 1) /\ a + (i + j) - 1 = b + j
      BY <1>1, <2>1, <2>2, <3>1
    <3> QED
      BY <1>2, <3>1, <3>2
  <2>4. Followed(c, i)
    BY <2>1, <2>3 DEF Followed
  <2>5. ASSUME s[b].role = "tool"
        PROVE  \E k \in 1..Len(c) : k < i /\ i - k \in 1..Len(c[k].calls)
    <3>1. PICK k \in 1..n : k < b /\ b - k \in 1..Len(s[k].calls)
      BY <1>s, <2>1, <2>5 DEF Answering
    <3>2. a <= k
      <4>1. SUFFICES ASSUME k < a PROVE FALSE
        BY <1>1
      <4>2. Len(s[k].calls) \in Nat
        BY MessageTypes
      <4>3. a - k \in 1..Len(s[k].calls) /\ k + (a - k) = a
        <5>1. b \in Nat /\ b >= a /\ b - k <= Len(s[k].calls)
          BY <1>1, <2>1, <3>1, <4>2
        <5> HIDE DEF b
        <5> QED
          BY <1>1, <4>1, <4>2, <5>1
      <4>4. Followed(s, k)
        BY <1>s
      <4>5. s[k + (a - k)].role = "tool"
        <5> HIDE DEF b
        <5> DEFINE d == a - k
        <5>1. d \in 1..Len(s[k].calls)
          BY <4>3
        <5> HIDE DEF d
        <5>2. s[k + d].role = "tool"
          BY <4>4, <5>1 DEF Followed
        <5> QED
          BY <5>2 DEF d
      <4> QED
        BY <1>1, <4>3, <4>5
    <3>3. k - a + 1 \in 1..Len(c) /\ c[k - a + 1] = s[k] /\ k - a + 1 < i /\ i - (k - a + 1) = b - k
      BY <1>1, <1>2, <2>1, <3>1, <3>2
    <3> QED
      BY <3>1, <3>3
  <2> QED
    BY <2>1, <2>4, <2>5 DEF Answering
<1>4. Answered(c)
  BY <1>2, <1>3, AnsweredIs
<1> QED
  BY <1>2, <1>4 DEF c

LEMMA AnsweredPrefix ==
  ASSUME NEW s \in Seq(Messages), Answered(s), NEW a \in RoundStarts(s)
  PROVE  SubSeq(s, 1, a - 1) \in Seq(Messages) /\ Answered(SubSeq(s, 1, a - 1))
<1> DEFINE c == SubSeq(s, 1, a - 1)
           n == Len(s)
<1>1. a \in 1..n /\ n \in Nat /\ s[a].role # "tool"
  BY DEF RoundStarts
<1>2. /\ c \in Seq(Messages) /\ Len(c) = a - 1
      /\ \A i \in 1..(a - 1) : c[i] = s[i]
  <2>1. \A i \in 1..(a - 1) : s[i] \in Messages
    BY <1>1
  <2> QED
    BY <1>1, <2>1, SubSeqProperties
<1>s. \A i \in 1..n : Followed(s, i) /\ Answering(s, i)
  BY AnsweredIs
<1> HIDE DEF c
<1>3. ASSUME NEW i \in 1..Len(c) PROVE Followed(c, i) /\ Answering(c, i)
  <2>1. i \in 1..n /\ i < a /\ c[i] = s[i]
    BY <1>1, <1>2
  <2>2. Len(s[i].calls) \in Nat
    BY <2>1, MessageTypes
  <2>3. \A j \in 1..Len(s[i].calls) :
          i + j <= n /\ s[i + j].role = "tool" /\ s[i + j].call = s[i].calls[j]
    BY <1>s, <2>1 DEF Followed
  <2>4. i + Len(s[i].calls) < a
    <3>1. SUFFICES ASSUME i + Len(s[i].calls) >= a PROVE FALSE
      BY <1>1, <2>1, <2>2
    <3> DEFINE d == a - i
    <3>2. d \in 1..Len(s[i].calls) /\ i + d = a
      BY <1>1, <2>1, <2>2, <3>1
    <3> HIDE DEF d
    <3>3. s[i + d].role = "tool"
      BY <2>3, <3>2
    <3> QED
      BY <1>1, <3>2, <3>3
  <2>5. ASSUME NEW j \in 1..Len(s[i].calls) PROVE i + j <= Len(c) /\ c[i + j] = s[i + j]
    BY <1>1, <1>2, <2>1, <2>2, <2>4
  <2>6. Followed(c, i)
    BY <2>1, <2>3, <2>5 DEF Followed
  <2>7. ASSUME s[i].role = "tool"
        PROVE  \E k \in 1..Len(c) : k < i /\ i - k \in 1..Len(c[k].calls)
    <3>1. PICK k \in 1..n : k < i /\ i - k \in 1..Len(s[k].calls)
      BY <1>s, <2>1, <2>7 DEF Answering
    <3>2. k \in 1..Len(c) /\ c[k] = s[k]
      BY <1>1, <1>2, <2>1, <3>1
    <3> QED
      BY <3>1, <3>2
  <2> QED
    BY <2>1, <2>6, <2>7 DEF Answering
<1>4. Answered(c)
  BY <1>2, <1>3, AnsweredIs
<1> QED
  BY <1>2, <1>4 DEF c

-----------------------------------------------------------------------------
(* Compaction keeps transcripts complete.                                  *)

LEMMA EmptyAnswered == <<>> \in Seq(Messages) /\ Answered(<<>>)
  BY DEF Answered

\* A message without calls that is no result is complete by itself.
LEMMA AloneAnswered ==
  ASSUME NEW m \in Messages, m.calls = <<>>, m.role # "tool"
  PROVE  <<m>> \in Seq(Messages) /\ Answered(<<m>>)
<1>1. <<m>> \in Seq(Messages) /\ Len(<<m>>) = 1 /\ <<m>>[1] = m
  OBVIOUS
<1> QED
  BY <1>1 DEF Answered

LEMMA PlainMessages ==
  \A m \in {User, Summary, Reply} : m \in Messages /\ m.calls = <<>> /\ m.role # "tool"
<1>1. <<>> \in CallLists /\ NoId \in Ids /\ "text" \in Bodies
  BY CallListsTyped DEF Ids, Bodies
<1> HIDE DEF Ids, Bodies
<1>2. User \in Messages /\ User.calls = <<>> /\ User.role # "tool"
  BY <1>1 DEF User, Message, Messages
<1>3. Summary \in Messages /\ Summary.calls = <<>> /\ Summary.role # "tool"
  BY <1>1 DEF Summary, Message, Messages
<1>4. Reply \in Messages /\ Reply.calls = <<>> /\ Reply.role # "tool"
  BY <1>1 DEF Reply, Message, Messages
<1> QED
  BY <1>2, <1>3, <1>4

\* A bounded set of numbers has a greatest one.
LEMMA MaxOfBounded ==
  ASSUME NEW n \in Nat, NEW T, T \subseteq 1..n, T # {}
  PROVE  Max(T) \in T /\ \A y \in T : Max(T) >= y
<1> DEFINE D == {d \in 0..n : n - d \in T}
<1>1. D \subseteq Nat /\ D # {}
  <2>1. PICK y \in T : TRUE
    OBVIOUS
  <2>2. n - y \in 0..n /\ n - (n - y) = y
    OBVIOUS
  <2>3. n - y \in D
    BY <2>2
  <2>4. D \subseteq Nat
    OBVIOUS
  <2> HIDE DEF D
  <2> QED
    BY <2>3, <2>4
<1>2. PICK d \in D : \A e \in D : ~(<<e, d>> \in OpToRel(<, Nat))
  BY <1>1, NatLessThanWellFounded, WFMin
<1>3. PICK x \in T : d = n - x
  <2>1. n - d \in T /\ d = n - (n - d)
    BY <1>1
  <2> QED
    BY <2>1
<1>4. \A y \in T : x >= y
  <2> SUFFICES ASSUME NEW y \in T, ~(x >= y) PROVE FALSE
    OBVIOUS
  <2>1. n - y \in 0..n /\ n - (n - y) = y /\ n - y < d
    BY <1>3
  <2>3. n - y \in D /\ n - y \in Nat /\ d \in Nat
    BY <1>1, <2>1
  <2>2. <<n - y, d>> \in OpToRel(<, Nat)
    BY <2>1, <2>3 DEF OpToRel
  <2> QED
    BY <1>2, <2>2, <2>3
<1> QED
  BY <1>4 DEF Max

LEMMA ViewAnswered ==
  ASSUME NEW s \in Seq(Messages), Answered(s)
  PROVE  View(s) \in Seq(Messages) /\ Answered(View(s))
<1> DEFINE n == Len(s)
           T == {1} \cup {i \in DOMAIN s : s[i].role = "summary"}
<1>1. n \in Nat /\ DOMAIN s = 1..n
  OBVIOUS
<1>2. CASE n = 0
  <2>1. s = <<>> /\ T = {1}
    BY <1>1, <1>2
  <2>2. Max(T) \in T
    BY <2>1, MaxOfBounded
  <2>3. View(s) = SubSeq(s, 1, 0)
    BY <1>2, <2>1, <2>2 DEF View
  <2>4. SubSeq(s, 1, 0) = <<>>
    BY SubSeqEmpty
  <2> QED
    BY <2>3, <2>4, EmptyAnswered
<1>3. CASE n # 0
  <2>1. T \subseteq 1..n /\ T # {}
    BY <1>1, <1>3
  <2>2. Max(T) \in T
    BY <1>1, <2>1, MaxOfBounded
  <2>3. s[1].role # "tool"
    <3>1. 1 \in 1..n
      BY <1>1, <1>3
    <3>2. Answering(s, 1)
      BY <3>1, AnsweredIs
    <3> QED
      BY <1>1, <3>2 DEF Answering
  <2>4. Max(T) \in RoundStarts(s)
    BY <1>1, <2>1, <2>2, <2>3 DEF RoundStarts
  <2> QED
    BY <2>4, AnsweredSuffix DEF View
<1> QED
  BY <1>2, <1>3

LEMMA SecondRoundStarts == \A v : SecondRound(v) \subseteq RoundStarts(v)
  BY DEF SecondRound

LEMMA FirstRoundAnswered ==
  ASSUME NEW v \in Seq(Messages), Answered(v), NEW h \in FirstRound(v)
  PROVE  h \in Seq(Messages) /\ Answered(h)
<1>1. PICK j \in SecondRound(v) : h = SubSeq(v, 1, j - 1)
  BY DEF FirstRound
<1> QED
  BY <1>1, SecondRoundStarts, AnsweredPrefix

\* Complete heads, joined to the rounds from a start on, are complete.
LEMMA JoinedAnswered ==
  ASSUME NEW v \in Seq(Messages), Answered(v), NEW heads, NEW starts,
         \A h \in heads : h \in Seq(Messages) /\ Answered(h),
         starts \subseteq RoundStarts(v), NEW s \in Joined(heads, v, starts)
  PROVE  s \in Seq(Messages) /\ Answered(s)
<1>1. PICK h \in heads : s \in {h \o SubSeq(v, j, Len(v)) : j \in starts}
  BY DEF Joined
<1>2. PICK j \in starts : s = h \o SubSeq(v, j, Len(v))
  BY <1>1
<1> QED
  BY <1>2, AnsweredSuffix, AnsweredConcat

LEMMA WithSummaryAnswered ==
  ASSUME NEW v \in Seq(Messages), Answered(v), NEW s \in WithSummary(v)
  PROVE  s \in Seq(Messages) /\ Answered(s)
<1> DEFINE heads == {h \o <<Summary>> : h \in {<<>>} \cup {r \in FirstRound(v) : r[1] # Summary}}
           starts == RoundStarts(v) \ ({1} \cup SecondRound(v))
<1>1. <<Summary>> \in Seq(Messages) /\ Answered(<<Summary>>)
  BY PlainMessages, AloneAnswered
<1>2. ASSUME NEW g \in heads PROVE g \in Seq(Messages) /\ Answered(g)
  <2>1. PICK h \in {<<>>} \cup {r \in FirstRound(v) : r[1] # Summary} : g = h \o <<Summary>>
    OBVIOUS
  <2>2. h \in Seq(Messages) /\ Answered(h)
    BY EmptyAnswered, FirstRoundAnswered
  <2> QED
    BY <1>1, <2>1, <2>2, AnsweredConcat
<1>3. s \in Joined(heads, v, starts) /\ starts \subseteq RoundStarts(v)
  BY DEF WithSummary
<1> HIDE DEF heads, starts
<1> QED
  BY <1>2, <1>3, JoinedAnswered

LEMMA WithoutSummaryAnswered ==
  ASSUME NEW v \in Seq(Messages), Answered(v), NEW s \in WithoutSummary(v)
  PROVE  s \in Seq(Messages) /\ Answered(s)
<1> DEFINE heads == FirstRound(v) \cup {r \in {<<>>} : v[1] # Summary}
           starts == RoundStarts(v) \ {1}
<1>1. \A h \in heads : h \in Seq(Messages) /\ Answered(h)
  BY EmptyAnswered, FirstRoundAnswered
<1>2. starts \subseteq RoundStarts(v) /\ (s = v \/ s \in Joined(heads, v, starts))
  BY DEF WithoutSummary
<1> HIDE DEF heads, starts
<1> QED
  BY <1>1, <1>2, JoinedAnswered

-----------------------------------------------------------------------------
(* The messages of a tool step: the request, and results in its order.     *)

Block(p, ids, k) ==
  /\ p \in Seq(Messages) /\ Len(p) = k
  /\ p[1].calls = ids /\ p[1].role # "tool"
  /\ \A j \in 1..(k - 1) : p[j + 1].role = "tool" /\ p[j + 1].call = ids[j] /\ p[j + 1].calls = <<>>

LEMMA ToolMessage ==
  ASSUME NEW id \in CallIds, NEW body \in Bodies
  PROVE  /\ Tool(id, body) \in Messages
         /\ Tool(id, body).role = "tool" /\ Tool(id, body).call = id /\ Tool(id, body).calls = <<>>
<1>1. <<>> \in CallLists
  BY CallListsTyped
<1>2. id \in Ids
  BY DEF Ids
<1> QED
  BY <1>1, <1>2 DEF Tool, Message, Messages

LEMMA BlockStarts ==
  ASSUME NEW ids \in CallLists
  PROVE  Block(<<Asks(ids)>>, ids, 1)
<1>1. NoId \in Ids /\ "text" \in Bodies
  BY DEF Ids, Bodies
<1>2. Asks(ids) \in Messages /\ Asks(ids).calls = ids /\ Asks(ids).role # "tool"
  BY <1>1 DEF Asks, Message, Messages
<1>3. <<Asks(ids)>> \in Seq(Messages) /\ Len(<<Asks(ids)>>) = 1 /\ <<Asks(ids)>>[1] = Asks(ids)
  BY <1>2
<1> QED
  BY <1>2, <1>3 DEF Block

LEMMA BlockGrows ==
  ASSUME NEW ids \in Seq(CallIds), NEW k \in 1..Len(ids), NEW p, Block(p, ids, k),
         NEW body \in Bodies
  PROVE  Block(Append(p, Tool(ids[k], body)), ids, k + 1)
<1> DEFINE m == Tool(ids[k], body)
           q == Append(p, m)
<1>1. ids[k] \in CallIds /\ k \in Nat /\ k >= 1
  OBVIOUS
<1>2. m \in Messages /\ m.role = "tool" /\ m.call = ids[k] /\ m.calls = <<>>
  BY <1>1, ToolMessage
<1>3. /\ p \in Seq(Messages) /\ Len(p) = k
      /\ p[1].calls = ids /\ p[1].role # "tool"
      /\ \A j \in 1..(k - 1) : p[j + 1].role = "tool" /\ p[j + 1].call = ids[j] /\ p[j + 1].calls = <<>>
  BY DEF Block
<1> HIDE DEF m
<1>4. /\ q \in Seq(Messages) /\ Len(q) = k + 1 /\ q[k + 1] = m
      /\ \A i \in 1..k : q[i] = p[i]
  BY <1>2, <1>3, AppendProperties
<1> HIDE DEF q
<1>5. q[1].calls = ids /\ q[1].role # "tool"
  BY <1>1, <1>3, <1>4
<1>6. ASSUME NEW j \in 1..k
      PROVE  q[j + 1].role = "tool" /\ q[j + 1].call = ids[j] /\ q[j + 1].calls = <<>>
  <2>1. CASE j = k
    BY <1>2, <1>4, <2>1
  <2>2. CASE j # k
    <3>1. j \in 1..(k - 1) /\ j + 1 \in 1..k
      BY <1>1, <2>2
    <3> QED
      BY <1>3, <1>4, <3>1
  <2> QED
    BY <2>1, <2>2
<1>7. (k + 1) - 1 = k
  BY <1>1
<1>8. Block(q, ids, k + 1)
  BY <1>4, <1>5, <1>6, <1>7 DEF Block
<1> QED
  BY <1>8 DEF q, m

\* One result for each of the remaining calls completes the step.
LEMMA BlockCompleted ==
  ASSUME NEW ids \in Seq(CallIds), NEW k \in 1..(Len(ids) + 1), NEW p, Block(p, ids, k),
         NEW tail \in Seq(Messages), Len(tail) = Len(ids) + 1 - k,
         \A i \in 1..Len(tail) :
           tail[i].role = "tool" /\ tail[i].call = ids[k + i - 1] /\ tail[i].calls = <<>>
  PROVE  Block(p \o tail, ids, Len(ids) + 1)
<1> DEFINE q == p \o tail
           n == Len(ids)
<1>1. k \in Nat /\ k >= 1 /\ n \in Nat /\ k <= n + 1
  OBVIOUS
<1>2. /\ p \in Seq(Messages) /\ Len(p) = k
      /\ p[1].calls = ids /\ p[1].role # "tool"
      /\ \A j \in 1..(k - 1) : p[j + 1].role = "tool" /\ p[j + 1].call = ids[j] /\ p[j + 1].calls = <<>>
  BY DEF Block
<1>3. /\ q \in Seq(Messages) /\ Len(q) = k + Len(tail)
      /\ \A i \in 1..(k + Len(tail)) : q[i] = IF i <= k THEN p[i] ELSE tail[i - k]
  <2>1. /\ q \in Seq(Messages) /\ Len(q) = Len(p) + Len(tail)
        /\ \A i \in 1..(Len(p) + Len(tail)) :
             q[i] = IF i <= Len(p) THEN p[i] ELSE tail[i - Len(p)]
    <3>1. p \in Seq(Messages)
      BY <1>2
    <3> QED
      BY <3>1, ConcatProperties
  <2> HIDE DEF q
  <2> QED
    BY <1>2, <2>1
<1>4. k + Len(tail) = n + 1
  BY <1>1
<1> HIDE DEF q
<1>5. q[1].calls = ids /\ q[1].role # "tool"
  BY <1>1, <1>2, <1>3, <1>4
<1>6. ASSUME NEW j \in 1..n
      PROVE  q[j + 1].role = "tool" /\ q[j + 1].call = ids[j] /\ q[j + 1].calls = <<>>
  <2>0. j + 1 \in 1..(k + Len(tail))
    BY <1>1, <1>4
  <2>1. CASE j + 1 <= k
    <3>1. j \in 1..(k - 1) /\ q[j + 1] = p[j + 1]
      BY <1>1, <1>3, <2>0, <2>1
    <3> QED
      BY <1>2, <3>1
  <2>2. CASE ~(j + 1 <= k)
    <3> DEFINE i == j + 1 - k
    <3>1. i \in 1..Len(tail) /\ k + i - 1 = j
      BY <1>1, <1>4, <2>2
    <3>2. q[j + 1] = tail[i]
      BY <1>3, <2>0, <2>2
    <3> HIDE DEF i
    <3> QED
      BY <3>1, <3>2
  <2> QED
    BY <2>1, <2>2
<1>7. (n + 1) - 1 = n
  BY <1>1
<1>8. Block(q, ids, n + 1)
  BY <1>3, <1>4, <1>5, <1>6, <1>7 DEF Block
<1> QED
  BY <1>8 DEF q

LEMMA BlockAnswered ==
  ASSUME NEW ids \in Seq(CallIds), NEW p, Block(p, ids, Len(ids) + 1)
  PROVE  p \in Seq(Messages) /\ Answered(p)
<1> DEFINE n == Len(ids)
<1>1. /\ p \in Seq(Messages) /\ Len(p) = n + 1 /\ n \in Nat
      /\ p[1].calls = ids /\ p[1].role # "tool"
      /\ \A j \in 1..n : p[j + 1].role = "tool" /\ p[j + 1].call = ids[j] /\ p[j + 1].calls = <<>>
  <2>1. n \in Nat /\ (n + 1) - 1 = n
    OBVIOUS
  <2> QED
    BY <2>1 DEF Block
<1>2. Followed(p, 1) /\ Answering(p, 1)
  BY <1>1 DEF Followed, Answering
<1>3. ASSUME NEW j \in 1..n PROVE Followed(p, j + 1) /\ Answering(p, j + 1)
  <2>1. Followed(p, j + 1)
    BY <1>1 DEF Followed
  <2>2. 1 \in 1..Len(p) /\ 1 < j + 1 /\ (j + 1) - 1 \in 1..Len(p[1].calls)
    BY <1>1
  <2> QED
    BY <2>1, <2>2 DEF Answering
<1>4. ASSUME NEW i \in 1..Len(p) PROVE Followed(p, i) /\ Answering(p, i)
  <2>1. CASE i = 1
    BY <1>2, <2>1
  <2>2. CASE i # 1
    <3>1. i - 1 \in 1..n /\ (i - 1) + 1 = i
      BY <1>1, <2>2
    <3> QED
      BY <1>3, <3>1
  <2> QED
    BY <2>1, <2>2
<1> QED
  BY <1>1, <1>4, AnsweredIs

\* The results an abandoned step adds to its part: those in hand, then placeholders.
TailFrom(answered, from, k) ==
  \/ answered = <<>> /\ from = k
  \/ /\ k <= Len(calls) /\ from = k + 1
     /\ \E body \in Bodies : answered = <<Tool(calls[k], body)>>

ResultsFrom(answered, from) ==
  answered \o [i \in 1..Len(calls) - from + 1 |-> Tool(calls[from + i - 1], "placeholder")]

LEMMA Placeholders ==
  ASSUME calls \in Seq(CallIds), NEW from \in 1..(Len(calls) + 1)
  PROVE  LET ph == [i \in 1..Len(calls) - from + 1 |-> Tool(calls[from + i - 1], "placeholder")]
         IN  /\ ph \in Seq(Messages) /\ Len(ph) = Len(calls) - from + 1
             /\ \A i \in 1..(Len(calls) - from + 1) : ph[i] = Tool(calls[from + i - 1], "placeholder")
<1> DEFINE n == Len(calls) - from + 1
           ph == [i \in 1..n |-> Tool(calls[from + i - 1], "placeholder")]
<1>1. n \in Nat
  OBVIOUS
<1>2. "placeholder" \in Bodies
  BY DEF Bodies
<1>3. ASSUME NEW i \in 1..n PROVE Tool(calls[from + i - 1], "placeholder") \in Messages
  <2> DEFINE id == calls[from + i - 1]
  <2>1. from + i - 1 \in 1..Len(calls)
    OBVIOUS
  <2>2. id \in CallIds
    BY <2>1
  <2> HIDE DEF id
  <2>3. Tool(id, "placeholder") \in Messages
    BY <1>2, <2>2, ToolMessage
  <2> QED
    BY <2>3 DEF id
<1> HIDE DEF n
<1>4. ph \in [1..n -> Messages]
  BY <1>3
<1>5. ph \in Seq(Messages) /\ Len(ph) = n
  <2>1. DOMAIN ph = 1..n
    OBVIOUS
  <2> HIDE DEF ph
  <2> QED
    BY <1>1, <1>4, <2>1, SeqDef
<1>6. \A i \in 1..n : ph[i] = Tool(calls[from + i - 1], "placeholder")
  OBVIOUS
<1> QED
  BY <1>5, <1>6 DEF n

LEMMA TailAnswers ==
  ASSUME calls \in Seq(CallIds), NEW k \in 1..(Len(calls) + 1),
         NEW answered, NEW from, TailFrom(answered, from, k)
  PROVE  LET tail == ResultsFrom(answered, from)
         IN  /\ tail \in Seq(Messages) /\ Len(tail) = Len(calls) + 1 - k
             /\ \A i \in 1..Len(tail) : /\ tail[i].role = "tool"
                                        /\ tail[i].call = calls[k + i - 1] /\ tail[i].calls = <<>>
<1> DEFINE n == Len(calls) - from + 1
           ph == [i \in 1..n |-> Tool(calls[from + i - 1], "placeholder")]
           tail == ResultsFrom(answered, from)
<1>0. from \in 1..(Len(calls) + 1) /\ Len(calls) \in Nat
  BY DEF TailFrom
<1>1. /\ ph \in Seq(Messages) /\ Len(ph) = n
      /\ \A i \in 1..n : ph[i] = Tool(calls[from + i - 1], "placeholder")
  BY <1>0, Placeholders
<1>2. ASSUME NEW i \in 1..n
      PROVE  ph[i].role = "tool" /\ ph[i].call = calls[from + i - 1] /\ ph[i].calls = <<>>
  <2> DEFINE id == calls[from + i - 1]
  <2>1. from + i - 1 \in 1..Len(calls)
    BY <1>0
  <2>2. id \in CallIds /\ ph[i] = Tool(id, "placeholder")
    BY <1>1, <2>1
  <2> HIDE DEF id, ph
  <2>3. Tool(id, "placeholder").role = "tool" /\ Tool(id, "placeholder").call = id
        /\ Tool(id, "placeholder").calls = <<>>
    BY <2>2, ToolMessage DEF Bodies
  <2> QED
    BY <2>2, <2>3 DEF id
<1>t. tail = answered \o ph
  BY DEF ResultsFrom
<1> HIDE DEF ph, tail
<1>3. CASE answered = <<>> /\ from = k
  <2>1. tail = ph
    BY <1>1, <1>3, <1>t, ConcatEmptySeq
  <2>2. n = Len(calls) + 1 - k
    BY <1>0, <1>3
  <2> QED
    BY <1>1, <1>2, <1>3, <2>1, <2>2 DEF tail
<1>4. CASE /\ k <= Len(calls) /\ from = k + 1
           /\ \E body \in Bodies : answered = <<Tool(calls[k], body)>>
  <2>1. PICK body \in Bodies : answered = <<Tool(calls[k], body)>>
    BY <1>4
  <2> DEFINE m == Tool(calls[k], body)
  <2>2. calls[k] \in CallIds
    BY <1>0, <1>4
  <2>3. m \in Messages /\ m.role = "tool" /\ m.call = calls[k] /\ m.calls = <<>>
    BY <2>2, ToolMessage
  <2> HIDE DEF m
  <2>4. answered \in Seq(Messages) /\ Len(answered) = 1 /\ answered[1] = m
    BY <2>1, <2>3 DEF m
  <2>5. /\ tail \in Seq(Messages) /\ Len(tail) = Len(answered) + Len(ph)
        /\ \A i \in 1..(Len(answered) + Len(ph)) :
             tail[i] = IF i <= Len(answered) THEN answered[i] ELSE ph[i - Len(answered)]
    BY <1>1, <1>t, <2>4, ConcatProperties
  <2>6. n \in Nat /\ 1 + n = Len(calls) + 1 - k
    BY <1>0, <1>4
  <2>7. Len(tail) = 1 + n /\ tail[1] = m /\ \A i \in 2..(1 + n) : tail[i] = ph[i - 1]
    <3> HIDE DEF n
    <3>1. Len(tail) = 1 + n /\ \A i \in 1..(1 + n) : tail[i] = IF i <= 1 THEN answered[i] ELSE ph[i - 1]
      BY <1>1, <2>4, <2>5
    <3> QED
      BY <2>4, <2>6, <3>1
  <2>8. ASSUME NEW i \in 1..(1 + n)
        PROVE  tail[i].role = "tool" /\ tail[i].call = calls[k + i - 1] /\ tail[i].calls = <<>>
    <3>1. CASE i = 1
      <4>1. k + i - 1 = k
        BY <3>1
      <4> QED
        BY <2>3, <2>7, <3>1, <4>1
    <3>2. CASE i # 1
      <4>1. i - 1 \in 1..n /\ i \in 2..(1 + n) /\ from + (i - 1) - 1 = k + i - 1
        BY <1>4, <2>6, <3>2
      <4> QED
        BY <1>2, <2>7, <4>1
    <3> QED
      BY <3>1, <3>2
  <2> QED
    BY <2>5, <2>6, <2>7, <2>8 DEF tail
<1> QED
  BY <1>3, <1>4 DEF TailFrom

\* A step that is abandoned leaves a complete transcript.
LEMMA AbandonKeeps ==
  ASSUME calls \in Seq(CallIds), NEW k \in 1..(Len(calls) + 1), Block(part, calls, k),
         msgs \in Seq(Messages), Answered(msgs),
         NEW answered, NEW from, TailFrom(answered, from, k), Abandon(answered, from)
  PROVE  msgs' \in Seq(Messages) /\ Answered(msgs')
<1> DEFINE tail == ResultsFrom(answered, from)
<1>1. /\ tail \in Seq(Messages) /\ Len(tail) = Len(calls) + 1 - k
      /\ \A i \in 1..Len(tail) : /\ tail[i].role = "tool"
                                 /\ tail[i].call = calls[k + i - 1] /\ tail[i].calls = <<>>
  BY TailAnswers
<1>2. msgs' = (msgs \o part) \o tail
  BY DEF Abandon, ResultsFrom
<1> HIDE DEF tail
<1>3. Block(part \o tail, calls, Len(calls) + 1)
  BY <1>1, BlockCompleted
<1>4. part \o tail \in Seq(Messages) /\ Answered(part \o tail)
  BY <1>3, BlockAnswered
<1>5. part \in Seq(Messages)
  BY DEF Block
<1>6. msgs' = msgs \o (part \o tail)
  BY <1>1, <1>2, <1>5, ConcatAssociative, SMTT(30)
<1> QED
  BY <1>4, <1>6, AnsweredConcat

-----------------------------------------------------------------------------
(* The transcript, action by action.                                       *)

Transcript ==
  /\ msgs \in Seq(Messages) /\ Answered(msgs)
  /\ pc \in {"notify", "run"} => Block(part, calls, 1)
  /\ pc = "collect" => idx \in 1..(Len(calls) + 1) /\ Block(part, calls, idx)

LEMMA TranscriptInit == Init => Transcript
<1> SUFFICES ASSUME Init PROVE Transcript
  OBVIOUS
<1>1. PICK h \in Histories : msgs = h \o <<User>>
  BY DEF Init
<1>2. h \in Seq(Messages) /\ Answered(h)
  BY HistoriesAssumption
<1>3. <<User>> \in Seq(Messages) /\ Answered(<<User>>)
  BY PlainMessages, AloneAnswered
<1>4. msgs \in Seq(Messages) /\ Answered(msgs)
  BY <1>1, <1>2, <1>3, AnsweredConcat
<1> QED
  BY <1>4 DEF Init, Transcript

\* Away from handleToolCalls only the transcript matters.
LEMMA TranscriptElsewhere ==
  ASSUME msgs' \in Seq(Messages), Answered(msgs)', pc' \notin Working
  PROVE  Transcript'
  BY DEF Transcript, Working

LEMMA ReplyKeeps ==
  ASSUME msgs \in Seq(Messages), Answered(msgs), msgs' = Append(msgs, Reply)
  PROVE  msgs' \in Seq(Messages) /\ Answered(msgs)'
<1>1. Reply \in Messages /\ <<Reply>> \in Seq(Messages) /\ Answered(<<Reply>>)
  BY PlainMessages, AloneAnswered
<1>2. msgs' = msgs \o <<Reply>>
  BY <1>1, AppendIsConcat
<1>3. msgs' \in Seq(Messages) /\ Answered(msgs')
  BY <1>1, <1>2, AnsweredConcat
<1> QED
  BY <1>3 DEF Answered

LEMMA TranscriptNext == ToolStep /\ Transcript /\ [Next]_vars => Transcript'
<1> SUFFICES ASSUME ToolStep, Transcript, [Next]_vars PROVE Transcript'
  OBVIOUS
<1>0. /\ msgs \in Seq(Messages) /\ Answered(msgs)
      /\ calls \in CallLists /\ calls \in Seq(CallIds)
  BY CallListsTyped DEF Transcript, ToolStep
<1>u. ASSUME UNCHANGED msgs, pc' \notin Working PROVE Transcript'
  <2>1. msgs' \in Seq(Messages) /\ Answered(msgs)'
    BY <1>0, <1>u DEF Answered
  <2> QED
    BY <1>u, <2>1, TranscriptElsewhere
<1>v. View(msgs) \in Seq(Messages) /\ Answered(View(msgs))
  BY <1>0, ViewAnswered
<1>1. CASE Step \/ ViewOnly \/ BeforeFails
  <2>1. UNCHANGED msgs /\ pc' \notin Working
    BY <1>1 DEF Step, ViewOnly, BeforeFails, transcript, Goto, Return, Panics, Working
  <2> QED
    BY <1>u, <2>1
<1>2. CASE Summarized
  <2>1. msgs' \in WithSummary(View(msgs)) /\ pc' \notin Working
    BY <1>2 DEF Summarized, Goto, Working
  <2>2. msgs' \in Seq(Messages) /\ Answered(msgs')
    BY <1>v, <2>1, WithSummaryAnswered
  <2>3. Answered(msgs)'
    BY <2>2 DEF Answered
  <2> QED
    BY <2>1, <2>2, <2>3, TranscriptElsewhere
<1>3. CASE Lossy
  <2>1. msgs' \in WithoutSummary(View(msgs)) /\ pc' \notin Working
    BY <1>3 DEF Lossy, Goto, Working
  <2>2. msgs' \in Seq(Messages) /\ Answered(msgs')
    BY <1>v, <2>1, WithoutSummaryAnswered
  <2>3. Answered(msgs)'
    BY <2>2 DEF Answered
  <2> QED
    BY <2>1, <2>2, <2>3, TranscriptElsewhere
<1>4. CASE CallLLM \/ RetryLLM \/ Summarize
  <2>1. UNCHANGED msgs /\ pc' \notin Working
    BY <1>4 DEF CallLLM, RetryLLM, Summarize, transcript, Goto, Return, Panics, Working
  <2> QED
    BY <1>u, <2>1
<1>5. CASE AfterFails \/ RecordOverBudget \/ StillWantsTools \/ Limit
  <2>1. UNCHANGED msgs /\ pc' \notin Working
    BY <1>5 DEF AfterFails, RecordOverBudget, StillWantsTools, Limit, transcript,
                Goto, Return, Panics, Working
  <2> QED
    BY <1>u, <2>1
<1>6. CASE FinalReply \/ SummaryReply
  <2>1. msgs' = Append(msgs, Reply) /\ pc' \notin Working
    BY <1>6 DEF FinalReply, SummaryReply, Return, Working
  <2> QED
    BY <1>0, <2>1, ReplyKeeps, TranscriptElsewhere
<1>7. CASE BeginTools
  <2>1. UNCHANGED <<msgs, calls>> /\ pc' = "notify" /\ part' = <<Asks(calls)>>
    BY <1>7 DEF BeginTools, Goto
  <2>2. Block(<<Asks(calls)>>, calls, 1)
    BY <1>0, BlockStarts
  <2>3. Block(part, calls, 1)' /\ Answered(msgs)'
    BY <1>0, <2>1, <2>2 DEF Block, Answered
  <2> QED
    BY <1>0, <2>1, <2>3 DEF Transcript
<1>8. CASE Allow \/ Launch \/ (\E i \in Calls : Goroutine(i)) \/ Join
  <2>1. /\ UNCHANGED <<msgs, calls, part>> /\ pc \in {"notify", "run"}
        /\ pc' \in {"notify", "run"} \/ (pc' = "collect" /\ idx' = 1)
    BY <1>8 DEF Allow, Launch, Goroutine, Join, transcript, Goto
  <2>2. Block(part, calls, 1)' /\ Answered(msgs)' /\ msgs' \in Seq(Messages)
    BY <1>0, <2>1 DEF Transcript, Block, Answered
  <2>3. 1 \in 1..(Len(calls) + 1)
    BY <1>0
  <2> QED
    BY <2>1, <2>2, <2>3 DEF Transcript
<1>9. CASE NotifyFails
  <2>0. Block(part, calls, 1) /\ 1 \in 1..(Len(calls) + 1) /\ TailFrom(<<>>, 1, 1)
    BY <1>0, <1>9 DEF NotifyFails, Transcript, TailFrom
  <2>1. CASE Abandon(<<>>, 1)
    <3>1. msgs' \in Seq(Messages) /\ Answered(msgs')
      BY <1>0, <2>0, <2>1, AbandonKeeps
    <3>2. Answered(msgs)' /\ pc' \notin Working
      BY <2>1, <3>1 DEF Answered, Abandon, Return, Working
    <3> QED
      BY <3>1, <3>2, TranscriptElsewhere
  <2>2. CASE Panics("notify") /\ UNCHANGED msgs
    BY <1>u, <2>2 DEF Panics, Return, Working
  <2> QED
    BY <1>9, <2>1, <2>2 DEF NotifyFails
<1>10. CASE Collect
  <2>1. /\ pc = "collect" /\ pc' = "collect" /\ idx \in 1..Len(calls) /\ idx' = idx + 1
        /\ part' = Append(part, Tool(calls[idx], result[idx])) /\ UNCHANGED <<msgs, calls>>
    BY <1>10 DEF Collect, Calls
  <2>2. result[idx] \in Bodies
    <3>1. /\ ToolsTyped /\ idx \in Calls /\ CallOK(idx) /\ tool[idx] \in {"skipped", "joined"}
      BY <2>1 DEF ToolStep, Calls
    <3> QED
      BY <3>1 DEF CallOK, ToolsTyped, Kinds, Bodies
  <2>3. Block(part, calls, idx)
    BY <2>1 DEF Transcript
  <2>4. Block(Append(part, Tool(calls[idx], result[idx])), calls, idx + 1)
    BY <1>0, <2>1, <2>2, <2>3, BlockGrows
  <2>5. Block(part, calls, idx)' /\ Answered(msgs)' /\ msgs' \in Seq(Messages)
    BY <1>0, <2>1, <2>4 DEF Block, Answered
  <2>6. idx' \in 1..(Len(calls') + 1)
    BY <1>0, <2>1
  <2> QED
    BY <2>1, <2>5, <2>6 DEF Transcript
<1>11. CASE CollectFails
  <2>1. pc = "collect" /\ idx \in 1..Len(calls)
    BY <1>11 DEF CollectFails, Calls
  <2>2. Block(part, calls, idx) /\ idx \in 1..(Len(calls) + 1)
    BY <2>1 DEF Transcript
  <2>3. result[idx] \in Bodies
    <3>1. /\ ToolsTyped /\ idx \in Calls /\ CallOK(idx) /\ tool[idx] \in {"skipped", "joined"}
      BY <2>1 DEF ToolStep, Calls
    <3> QED
      BY <3>1 DEF CallOK, ToolsTyped, Kinds, Bodies
  <2>4. ASSUME NEW answered, NEW from, TailFrom(answered, from, idx), Abandon(answered, from)
        PROVE  Transcript'
    <3>1. msgs' \in Seq(Messages) /\ Answered(msgs')
      BY <1>0, <2>2, <2>4, AbandonKeeps
    <3>2. Answered(msgs)' /\ pc' \notin Working
      BY <2>4, <3>1 DEF Answered, Abandon, Return, Working
    <3> QED
      BY <3>1, <3>2, TranscriptElsewhere
  <2>5. TailFrom(<<>>, idx, idx) /\ TailFrom(<<Tool(calls[idx], result[idx])>>, idx + 1, idx)
    BY <1>0, <2>1, <2>3 DEF TailFrom
  <2>6. CASE Panics("collect") /\ UNCHANGED msgs
    BY <1>u, <2>6 DEF Panics, Return, Working
  <2> QED
    BY <1>11, <2>4, <2>5, <2>6 DEF CollectFails
<1>12. CASE EndTools
  <2>1. /\ pc = "collect" /\ idx \notin 1..Len(calls) /\ msgs' = msgs \o part /\ pc' \notin Working
    BY <1>12 DEF EndTools, Calls, Goto, Working
  <2>2. Block(part, calls, idx) /\ idx \in 1..(Len(calls) + 1)
    BY <2>1 DEF Transcript
  <2>3. idx = Len(calls) + 1
    BY <1>0, <2>1, <2>2
  <2>4. part \in Seq(Messages) /\ Answered(part)
    BY <1>0, <2>2, <2>3, BlockAnswered
  <2>5. msgs' \in Seq(Messages) /\ Answered(msgs')
    BY <1>0, <2>1, <2>4, AnsweredConcat
  <2>6. Answered(msgs)'
    BY <2>5 DEF Answered
  <2> QED
    BY <2>1, <2>5, <2>6, TranscriptElsewhere
<1>13. CASE Cancel \/ UNCHANGED vars
  <2>1. UNCHANGED <<pc, msgs, calls, part, idx>>
    BY <1>13 DEF Cancel, vars, transcript, tools
  <2>2. (Answered(msgs)' <=> Answered(msgs)) /\ \A k : Block(part, calls, k)' <=> Block(part, calls, k)
    BY <2>1 DEF Answered, Block
  <2> QED
    BY <2>1, <2>2 DEF Transcript, Block
<1> QED
  BY <1>1, <1>2, <1>3, <1>4, <1>5, <1>6, <1>7, <1>8, <1>9, <1>10, <1>11, <1>12, <1>13
     DEF Next, Run, Returned

(***************************************************************************)
(* The transcript is answered, and what handleToolCalls has in hand is the *)
(* assistant message with the results collected so far.                    *)
(***************************************************************************)
THEOREM TranscriptInvariant == Spec => []Transcript
  BY TranscriptInit, TranscriptNext, ToolStepInvariant, PTL DEF Spec

(***************************************************************************)
(* Outside handleToolCalls every tool call has its result, right behind it *)
(* and in order, and there are no other results.                           *)
(***************************************************************************)
THEOREM TranscriptComplete == Spec => []TranscriptAnswered
<1>1. Transcript => TranscriptAnswered
  BY DEF Transcript, TranscriptAnswered
<1> QED
  BY <1>1, TranscriptInvariant, PTL

-----------------------------------------------------------------------------
(* A complete transcript passes the check of LoadSession.                  *)

\* The ids that wait for a result after the first k messages.
Waiting(ms, k) ==
  {id \in CallIds :
     \E b \in 1..k : \E j \in 1..Len(ms[b].calls) : b + j > k /\ ms[b].calls[j] = id}

Pairing(ms, k) == [ok |-> TRUE, pending |-> Waiting(ms, k)]

LEMMA NothingWaits == \A ms : Pairing(ms, 0) = NothingPending
<1> SUFFICES ASSUME NEW ms PROVE Waiting(ms, 0) = {}
  BY DEF Pairing, NothingPending
<1> QED
  BY DEF Waiting

\* Calls that reach message k of a complete transcript make it their result.
LEMMA ReachedIsResult ==
  ASSUME NEW ms \in Seq(Messages), Answered(ms), NEW k \in 1..Len(ms),
         NEW b \in 1..(k - 1), NEW j \in 1..Len(ms[b].calls), b + j >= k
  PROVE  /\ k - b \in 1..Len(ms[b].calls) /\ k - b <= j
         /\ ms[k].role = "tool" /\ ms[k].call = ms[b].calls[k - b]
<1>1. b \in 1..Len(ms) /\ k \in Nat /\ b < k
  OBVIOUS
<1>2. Followed(ms, b) /\ Len(ms[b].calls) \in Nat
  BY <1>1, AnsweredIs, MessageTypes
<1> DEFINE d == k - b
<1>3. d \in 1..Len(ms[b].calls) /\ d <= j /\ b + d = k
  BY <1>1, <1>2
<1> HIDE DEF d
<1>4. ms[b + d].role = "tool" /\ ms[b + d].call = ms[b].calls[d]
  BY <1>2, <1>3 DEF Followed
<1> QED
  BY <1>3, <1>4 DEF d

\* Before a message that is no result nothing waits.
LEMMA NothingWaitsBefore ==
  ASSUME NEW ms \in Seq(Messages), Answered(ms), NEW k \in 1..Len(ms), ms[k].role # "tool"
  PROVE  Waiting(ms, k - 1) = {}
<1> SUFFICES ASSUME NEW b \in 1..(k - 1), NEW j \in 1..Len(ms[b].calls), b + j > k - 1
             PROVE  FALSE
  BY DEF Waiting
<1>1. b \in 1..Len(ms)
  OBVIOUS
<1>2. Len(ms[b].calls) \in Nat
  BY <1>1, MessageTypes
<1>3. b + j >= k
  BY <1>1, <1>2
<1> QED
  BY <1>3, ReachedIsResult

LEMMA RequestStep ==
  ASSUME UniqueIds = TRUE,
         NEW ms \in Seq(Messages), Answered(ms), NEW k \in 1..Len(ms), ms[k].role # "tool"
  PROVE  PairingStep(Pairing(ms, k - 1), ms[k]) = Pairing(ms, k)
<1> DEFINE m == ms[k]
           n == Len(m.calls)
<1>1. /\ m \in Messages /\ n \in Nat /\ DOMAIN m.calls = 1..n /\ m.calls \in Seq(CallIds)
  BY MessageTypes
<1>2. m.call = NoId /\ \A i, j \in 1..n : m.calls[i] = m.calls[j] => i = j
  BY <1>1 DEF Messages, CallLists, Distinct
<1>3. Waiting(ms, k - 1) = {}
  BY NothingWaitsBefore
<1>4. ToSet(m.calls) = {id \in CallIds : \E j \in 1..n : m.calls[j] = id}
  BY <1>1 DEF ToSet
<1>5. Waiting(ms, k) = ToSet(m.calls)
  <2>1. ASSUME NEW b \in 1..k, NEW j \in 1..Len(ms[b].calls), b + j > k PROVE b = k
    <3>1. SUFFICES ASSUME b \in 1..(k - 1) PROVE FALSE
      OBVIOUS
    <3>2. b \in 1..Len(ms)
      OBVIOUS
    <3>3. Len(ms[b].calls) \in Nat
      BY <3>2, MessageTypes
    <3>4. b + j >= k
      BY <2>1, <3>2, <3>3
    <3> QED
      BY <3>1, <3>4, ReachedIsResult
  <2>2. \A j \in 1..n : k + j > k
    BY <1>1
  <2> QED
    BY <1>4, <2>1, <2>2 DEF Waiting
<1>6. ToSet(m.calls) \ {m.call} = ToSet(m.calls)
  BY <1>2, <1>4, LoopAssumption
<1> HIDE DEF m
<1> DEFINE before == Pairing(ms, k - 1)
<1>7. before.ok = TRUE /\ before.pending = {}
  BY <1>3 DEF Pairing
<1> HIDE DEF before
<1>8. PairingStep(before, m).ok = TRUE /\ PairingStep(before, m).pending = Waiting(ms, k)
  <2>1. (before.pending \cup ToSet(m.calls)) \ {m.call} = Waiting(ms, k)
    BY <1>5, <1>6, <1>7
  <2>2. m.role # "tool"
    BY DEF m
  <2> QED
    BY <1>1, <1>2, <1>7, <2>1, <2>2 DEF PairingStep
<1> QED
  BY <1>8 DEF PairingStep, Pairing, before, m

LEMMA ResultStep ==
  ASSUME UniqueIds = TRUE,
         NEW ms \in Seq(Messages), Answered(ms), NEW k \in 1..Len(ms), ms[k].role = "tool"
  PROVE  PairingStep(Pairing(ms, k - 1), ms[k]) = Pairing(ms, k)
<1> DEFINE m == ms[k]
<1>1. m \in Messages /\ m.calls = <<>> /\ k \in Nat
  BY MessageTypes DEF Messages
<1>2. PICK a \in 1..Len(ms) : a < k /\ k - a \in 1..Len(ms[a].calls)
  BY AnsweredIs DEF Answering
<1>3. a \in 1..(k - 1) /\ ms[a].calls \in Seq(CallIds) /\ Len(ms[a].calls) \in Nat
  BY <1>2, MessageTypes
<1> DEFINE d == k - a
<1>4. d \in 1..Len(ms[a].calls) /\ a + d = k /\ a + d >= k
  BY <1>2, <1>3
<1>5. m.call = ms[a].calls[d] /\ m.call \in CallIds
  <2>1. ms[k].call = ms[a].calls[k - a]
    <3> HIDE DEF d
    <3> QED
      BY <1>3, <1>4, ReachedIsResult
  <2> QED
    BY <1>3, <1>4, <2>1
<1>6. m.call \in Waiting(ms, k - 1)
  <2>1. a + d > k - 1
    BY <1>1, <1>4
  <2> HIDE DEF d, m
  <2> QED
    BY <1>3, <1>4, <1>5, <2>1 DEF Waiting
<1>7. ASSUME NEW b \in 1..(k - 1), NEW j \in 1..Len(ms[b].calls), b + j >= k
      PROVE  /\ b + j > k => ms[b].calls[j] # m.call
             /\ b + j = k => ms[b].calls[j] = m.call
  <2>1. b \in 1..Len(ms)
    OBVIOUS
  <2>2. /\ ms[b] \in Messages /\ Len(ms[b].calls) \in Nat
        /\ DOMAIN ms[b].calls = 1..Len(ms[b].calls)
    BY <2>1, MessageTypes
  <2>3. k - b \in 1..Len(ms[b].calls) /\ m.call = ms[b].calls[k - b]
    BY <1>7, ReachedIsResult
  <2>4. \A i, h \in 1..Len(ms[b].calls) : ms[b].calls[i] = ms[b].calls[h] => i = h
    BY <2>2 DEF Messages, CallLists, Distinct
  <2>5. (b + j > k => j # k - b) /\ (b + j = k => j = k - b)
    BY <1>1, <2>1, <2>2
  <2> HIDE DEF m
  <2> QED
    BY <2>3, <2>4, <2>5
<1>8. Waiting(ms, k) = Waiting(ms, k - 1) \ {m.call}
  <2>1. ASSUME NEW id \in Waiting(ms, k) PROVE id \in Waiting(ms, k - 1) /\ id # m.call
    <3>1. PICK b \in 1..k : \E j \in 1..Len(ms[b].calls) : b + j > k /\ ms[b].calls[j] = id
      BY DEF Waiting
    <3>2. PICK j \in 1..Len(ms[b].calls) : b + j > k /\ ms[b].calls[j] = id
      BY <3>1
    <3>3. b # k
      BY <1>1, <3>2
    <3>4. b \in 1..(k - 1) /\ b \in 1..Len(ms)
      BY <1>1, <3>3
    <3>5. Len(ms[b].calls) \in Nat
      BY <3>4, MessageTypes
    <3>6. b + j >= k /\ b + j > k - 1
      BY <1>1, <3>2, <3>4, <3>5
    <3>7. id # m.call
      BY <1>7, <3>2, <3>4, <3>6
    <3> QED
      BY <3>2, <3>4, <3>6, <3>7 DEF Waiting
  <2>2. ASSUME NEW id \in Waiting(ms, k - 1), id # m.call PROVE id \in Waiting(ms, k)
    <3>1. PICK b \in 1..(k - 1) : \E j \in 1..Len(ms[b].calls) : b + j > k - 1 /\ ms[b].calls[j] = id
      BY DEF Waiting
    <3>2. PICK j \in 1..Len(ms[b].calls) : b + j > k - 1 /\ ms[b].calls[j] = id
      BY <3>1
    <3>3. b \in 1..Len(ms) /\ b \in 1..k
      BY <1>1
    <3>4. Len(ms[b].calls) \in Nat
      BY <3>3, MessageTypes
    <3>5. b + j >= k /\ (b + j = k \/ b + j > k)
      BY <1>1, <3>2, <3>3, <3>4
    <3>6. b + j > k
      BY <1>7, <2>2, <3>2, <3>5
    <3> QED
      BY <3>2, <3>3, <3>6 DEF Waiting
  <2> HIDE DEF m
  <2> QED
    BY <2>1, <2>2
<1>9. m.role = "tool"
  OBVIOUS
<1> HIDE DEF m
<1> DEFINE before == Pairing(ms, k - 1)
<1>10. before.ok = TRUE /\ before.pending = Waiting(ms, k - 1)
  BY DEF Pairing
<1> HIDE DEF before
<1>11. DOMAIN m.calls = {} /\ ToSet(m.calls) = {}
  BY <1>1 DEF ToSet
<1>12. PairingStep(before, m).ok = TRUE /\ PairingStep(before, m).pending = Waiting(ms, k)
  <2>1. (before.pending \cup ToSet(m.calls)) \ {m.call} = Waiting(ms, k)
    BY <1>8, <1>10, <1>11
  <2> QED
    BY <1>6, <1>9, <1>10, <1>11, <2>1 DEF PairingStep
<1> QED
  BY <1>12 DEF PairingStep, Pairing, before, m

LEMMA NothingWaitsAtEnd ==
  ASSUME NEW ms \in Seq(Messages), Answered(ms)
  PROVE  Pairing(ms, Len(ms)) = NothingPending
<1>1. ASSUME NEW b \in 1..Len(ms), NEW j \in 1..Len(ms[b].calls) PROVE ~(b + j > Len(ms))
  <2>1. Followed(ms, b) /\ Len(ms[b].calls) \in Nat
    BY AnsweredIs, MessageTypes
  <2> QED
    BY <2>1 DEF Followed
<1>2. Waiting(ms, Len(ms)) = {}
  BY <1>1 DEF Waiting
<1> QED
  BY <1>2 DEF Pairing, NothingPending

\* With distinct ids, a transcript whose calls are followed by their results
\* passes ValidateToolPairing.
LEMMA AnsweredPairs ==
  ASSUME UniqueIds = TRUE, NEW ms \in Seq(Messages), Answered(ms)
  PROVE  ValidateToolPairing(ms)
<1> DEFINE n == Len(ms)
           FromPrevious(g, i) == IF i = 0 THEN NothingPending ELSE PairingStep(g[i - 1], ms[i])
           after == CHOOSE g : g = [i \in 0..n |-> FromPrevious(g, i)]
           run == [i \in 0..n |-> Pairing(ms, i)]
<1>0. n \in Nat
  OBVIOUS
<1>1. ASSUME NEW i \in 0..n
      PROVE  Pairing(ms, i) = FromPrevious(run, i)
  <2>1. CASE i = 0
    BY <2>1, NothingWaits
  <2>2. CASE i # 0
    <3>1. i \in 1..n /\ i - 1 \in 0..n
      BY <1>0, <2>2
    <3>2. run[i - 1] = Pairing(ms, i - 1)
      BY <3>1
    <3>3. PairingStep(Pairing(ms, i - 1), ms[i]) = Pairing(ms, i)
      BY <3>1, RequestStep, ResultStep
    <3> QED
      BY <2>2, <3>2, <3>3
  <2> QED
    BY <2>1, <2>2
<1>2. run = [i \in 0..n |-> FromPrevious(run, i)]
  <2>1. \A i \in 0..n : Pairing(ms, i) = FromPrevious(run, i)
    BY <1>1
  <2> DEFINE other == [i \in 0..n |-> FromPrevious(run, i)]
  <2>2. DOMAIN run = 0..n /\ DOMAIN other = 0..n /\ \A i \in 0..n : run[i] = other[i]
    BY <2>1, Zenon
  <2> QED
    BY <2>1, Zenon
<1>3. after = [i \in 0..n |-> FromPrevious(after, i)]
  <2> HIDE DEF run, FromPrevious
  <2> QED
    BY <1>2, Zenon
<1>4. \A i \in 0..n : after[i] = FromPrevious(after, i)
  <2> HIDE DEF after, FromPrevious
  <2> QED
    BY <1>3, Zenon
<1> HIDE DEF run
<1>5. after[n] = Pairing(ms, n)
  <2> DEFINE P == {i \in Nat : i <= n => after[i] = Pairing(ms, i)}
  <2> HIDE DEF after
  <2>1. 0 \in P
    <3>1. after[0] = FromPrevious(after, 0)
      BY <1>0, <1>4
    <3> QED
      BY <3>1, NothingWaits
  <2>2. ASSUME NEW i \in Nat, i \in P PROVE i + 1 \in P
    <3>1. SUFFICES ASSUME i + 1 <= n PROVE after[i + 1] = Pairing(ms, i + 1)
      OBVIOUS
    <3>2. i + 1 \in 1..n /\ i + 1 \in 0..n /\ (i + 1) - 1 = i /\ i + 1 # 0 /\ i <= n
      BY <1>0, <3>1
    <3>3. after[i] = Pairing(ms, i)
      BY <2>2, <3>2
    <3>4. after[i + 1] = PairingStep(Pairing(ms, i), ms[i + 1])
      BY <1>4, <3>2, <3>3
    <3>5. PairingStep(Pairing(ms, i), ms[i + 1]) = Pairing(ms, i + 1)
      BY <3>2, RequestStep, ResultStep
    <3> QED
      BY <3>4, <3>5
  <2> HIDE DEF P
  <2>3. n \in P
    BY <1>0, <2>1, <2>2, SetInduction
  <2> QED
    BY <1>0, <2>3 DEF P
<1>6. ValidateToolPairing(ms) <=> after[n] = NothingPending
  BY Zenon DEF ValidateToolPairing
<1> QED
  BY <1>5, <1>6, NothingWaitsAtEnd

(***************************************************************************)
(* The transcript a turn leaves passes ValidateToolPairing when the model  *)
(* keeps the ids of a response distinct: LoadSession accepts the session   *)
(* after it was answered, cut short by a hook, cancelled or compacted.     *)
(***************************************************************************)
THEOREM TranscriptLoads ==
  ASSUME UniqueIds = TRUE
  PROVE  Spec => []SessionLoads
<1>1. Transcript => SessionLoads
  BY AnsweredPairs DEF Transcript, SessionLoads
<1> QED
  BY <1>1, TranscriptInvariant, PTL

-----------------------------------------------------------------------------
(* The two records of the turn.                                            *)

\* A transcript is a history followed by these messages.
Follows(ms, new) == \E h \in Histories : ms = h \o new

\* Up to the first compaction, and counting what handleToolCalls has in hand.
Records ==
  \/ committed = TRUE
  \/ /\ newMsgs \in Seq(Messages)
     /\ pc \notin Working => Follows(msgs, newMsgs)
     /\ pc \in Working => /\ part \in Seq(Messages)
                         /\ Follows(msgs \o part, newMsgs)

LEMMA RecordsInit == Init => Records
<1> SUFFICES ASSUME Init PROVE Records
  OBVIOUS
<1>1. PICK h \in Histories : msgs = h \o <<User>>
  BY DEF Init
<1>2. newMsgs = <<User>> /\ <<User>> \in Seq(Messages) /\ pc = "step"
  BY PlainMessages DEF Init
<1> QED
  BY <1>1, <1>2 DEF Records, Working, Follows

\* Adding the same messages at the end of both keeps them together.
LEMMA GrowTogether ==
  ASSUME NEW s \in Seq(Messages), NEW new \in Seq(Messages), NEW more \in Seq(Messages),
         Follows(s, new)
  PROVE  new \o more \in Seq(Messages) /\ Follows(s \o more, new \o more)
<1>1. PICK h \in Histories : s = h \o new
  BY DEF Follows
<1>2. h \in Seq(Messages)
  BY HistoriesAssumption
<1>3. s \o more = h \o (new \o more)
  BY <1>1, <1>2, ConcatAssociative
<1> QED
  BY <1>3, ConcatProperties DEF Follows

LEMMA PartGrowsTogether ==
  ASSUME NEW s \in Seq(Messages), NEW p \in Seq(Messages),
         NEW new \in Seq(Messages), NEW more \in Seq(Messages),
         Follows(s \o p, new)
  PROVE  /\ new \o more \in Seq(Messages) /\ p \o more \in Seq(Messages)
         /\ Follows(s \o (p \o more), new \o more)
<1>1. s \o p \in Seq(Messages) /\ p \o more \in Seq(Messages)
  BY ConcatProperties
<1>2. /\ new \o more \in Seq(Messages)
      /\ Follows((s \o p) \o more, new \o more)
  BY <1>1, GrowTogether
<1>3. (s \o p) \o more = s \o (p \o more)
  BY ConcatAssociative
<1> QED
  BY <1>1, <1>2, <1>3

\* The committed transcript is out of the comparison for good.
LEMMA CommittedStays == committed = TRUE /\ [Next]_vars => committed' = TRUE
  BY DEF Next, Run, Returned, Step, ViewOnly, BeforeFails, Summarized, Lossy, CallLLM, RetryLLM,
         AfterFails, RecordOverBudget, FinalReply, BeginTools, Allow, NotifyFails, Launch, Join,
         Collect, CollectFails, EndTools, Summarize, StillWantsTools, SummaryReply, Limit,
         Cancel, Goroutine, transcript, vars

LEMMA AbandonTogether ==
  ASSUME newMsgs \in Seq(Messages), msgs \in Seq(Messages),
         Follows(msgs \o part, newMsgs),
         calls \in Seq(CallIds), NEW k \in 1..(Len(calls) + 1), Block(part, calls, k),
         NEW answered, NEW from, TailFrom(answered, from, k), Abandon(answered, from)
  PROVE  Records'
<1> DEFINE tail == ResultsFrom(answered, from)
<1>1. tail \in Seq(Messages) /\ part \in Seq(Messages)
  BY TailAnswers DEF Block
<1>2. /\ msgs' = (msgs \o part) \o tail /\ newMsgs' = newMsgs \o tail /\ pc' = "done"
  BY DEF Abandon, ResultsFrom, Return
<1> HIDE DEF tail
<1>3. msgs \o part \in Seq(Messages)
  BY <1>1, ConcatProperties
<1>4. /\ newMsgs \o tail \in Seq(Messages)
      /\ Follows((msgs \o part) \o tail, newMsgs \o tail)
  BY <1>1, <1>3, GrowTogether
<1> QED
  BY <1>2, <1>4 DEF Records, Working

LEMMA RecordsNext ==
  ASSUME PanicPoints \cap {"notify", "collect"} = {},
         ToolStep, Transcript, Records, [Next]_vars
  PROVE  Records'
<1>0. msgs \in Seq(Messages) /\ calls \in CallLists /\ calls \in Seq(CallIds)
  BY CallListsTyped DEF Transcript, ToolStep
<1>c. CASE committed = TRUE
  BY <1>c, CommittedStays DEF Records
<1>n. CASE committed # TRUE
  <2>0. /\ newMsgs \in Seq(Messages)
        /\ pc \notin Working => Follows(msgs, newMsgs)
        /\ pc \in Working => /\ part \in Seq(Messages)
                            /\ Follows(msgs \o part, newMsgs)
    BY <1>n DEF Records
  <2>u. ASSUME UNCHANGED <<msgs, newMsgs>>, pc \notin Working, pc' \notin Working PROVE Records'
    BY <2>0, <2>u DEF Records
  <2>1. CASE Step \/ ViewOnly \/ BeforeFails
    BY <2>1, <2>u DEF Step, ViewOnly, BeforeFails, transcript, Goto, Return, Panics, Working
  <2>2. CASE Summarized \/ Lossy
    BY <2>2 DEF Summarized, Lossy, Records
  <2>3. CASE CallLLM \/ RetryLLM \/ Summarize
    BY <2>3, <2>u DEF CallLLM, RetryLLM, Summarize, transcript, Goto, Return, Panics, Working
  <2>4. CASE AfterFails \/ RecordOverBudget \/ StillWantsTools \/ Limit
    BY <2>4, <2>u DEF AfterFails, RecordOverBudget, StillWantsTools, Limit, transcript,
                      Goto, Return, Panics, Working
  <2>5. CASE FinalReply \/ SummaryReply
    <3>1. /\ msgs' = Append(msgs, Reply) /\ newMsgs' = Append(newMsgs, Reply)
          /\ pc \notin Working /\ pc' \notin Working
      BY <2>5 DEF FinalReply, SummaryReply, Return, Working
    <3>2. Reply \in Messages /\ <<Reply>> \in Seq(Messages)
      BY PlainMessages
    <3>3. msgs' = msgs \o <<Reply>> /\ newMsgs' = newMsgs \o <<Reply>>
      BY <1>0, <2>0, <3>1, <3>2, AppendIsConcat
    <3>4. Follows(msgs, newMsgs)
      BY <2>0, <3>1
    <3>5. /\ newMsgs \o <<Reply>> \in Seq(Messages)
          /\ Follows(msgs \o <<Reply>>, newMsgs \o <<Reply>>)
      BY <1>0, <2>0, <3>2, <3>4, GrowTogether
    <3> QED
      BY <3>1, <3>3, <3>5 DEF Records
  <2>6. CASE BeginTools
    <3>1. /\ newMsgs' = Append(newMsgs, Asks(calls)) /\ part' = <<Asks(calls)>> /\ msgs' = msgs
          /\ pc \notin Working /\ pc' \in Working
      BY <2>6 DEF BeginTools, Goto, Working
    <3>2. <<Asks(calls)>> \in Seq(Messages) /\ Asks(calls) \in Messages
      <4>1. <<Asks(calls)>> \in Seq(Messages)
        BY <1>0, BlockStarts DEF Block
      <4> QED
        BY <4>1
    <3>3. newMsgs' = newMsgs \o <<Asks(calls)>>
      BY <2>0, <3>1, <3>2, AppendIsConcat
    <3>4. Follows(msgs, newMsgs)
      BY <2>0, <3>1
    <3>5. /\ newMsgs \o <<Asks(calls)>> \in Seq(Messages)
          /\ Follows(msgs \o <<Asks(calls)>>, newMsgs \o <<Asks(calls)>>)
      BY <1>0, <2>0, <3>2, <3>4, GrowTogether
    <3> QED
      BY <3>1, <3>2, <3>3, <3>5 DEF Records
  <2>7. CASE Allow \/ Launch \/ (\E i \in Calls : Goroutine(i)) \/ Join
    <3>1. UNCHANGED <<msgs, newMsgs, part>> /\ pc \in Working /\ pc' \in Working
      BY <2>7 DEF Allow, Launch, Goroutine, Join, transcript, Goto, Working
    <3> QED
      BY <2>0, <3>1 DEF Records
  <2>8. CASE NotifyFails
    <3>1. Block(part, calls, 1) /\ 1 \in 1..(Len(calls) + 1) /\ TailFrom(<<>>, 1, 1)
      BY <1>0, <2>8 DEF NotifyFails, Transcript, TailFrom
    <3>2. Abandon(<<>>, 1)
      BY <2>8 DEF NotifyFails, Panics
    <3> QED
      BY <1>0, <2>0, <2>8, <3>1, <3>2, AbandonTogether DEF NotifyFails, Working
  <2>9. CASE Collect
    <3> DEFINE m == Tool(calls[idx], result[idx])
    <3>1. /\ pc = "collect" /\ pc' = "collect" /\ UNCHANGED msgs
          /\ part' = Append(part, m) /\ newMsgs' = Append(newMsgs, m)
      BY <2>9 DEF Collect
    <3>2. m \in Messages
      <4>1. idx \in Calls /\ ToolsTyped /\ CallOK(idx) /\ tool[idx] \in {"skipped", "joined"}
        BY <2>9 DEF Collect, ToolStep
      <4>2. calls[idx] \in CallIds /\ result[idx] \in Bodies
        BY <1>0, <4>1 DEF Calls, CallOK, ToolsTyped, Kinds, Bodies
      <4> QED
        BY <4>2, ToolMessage
    <3> HIDE DEF m
    <3>3. part \in Seq(Messages) /\ Follows(msgs \o part, newMsgs)
      BY <2>0, <3>1 DEF Working
    <3> DEFINE one == <<m>>
    <3>4. one \in Seq(Messages)
      BY <3>2
    <3>5. part' = part \o one /\ newMsgs' = newMsgs \o one
      BY <2>0, <3>1, <3>2, <3>3, AppendIsConcat
    <3> HIDE DEF one
    <3>6. newMsgs \in Seq(Messages) /\ msgs \in Seq(Messages) /\ part \in Seq(Messages)
      BY <1>0, <2>0, <3>3
    <3>7. /\ newMsgs \o one \in Seq(Messages) /\ part \o one \in Seq(Messages)
          /\ Follows(msgs \o (part \o one), newMsgs \o one)
      BY <3>3, <3>4, <3>6, PartGrowsTogether
    <3> QED
      BY <3>1, <3>5, <3>7 DEF Records, Working
  <2>10. CASE CollectFails
    <3>1. pc = "collect" /\ idx \in 1..Len(calls)
      BY <2>10 DEF CollectFails, Calls
    <3>2. Block(part, calls, idx) /\ idx \in 1..(Len(calls) + 1)
      BY <3>1 DEF Transcript
    <3>3. result[idx] \in Bodies
      <4>1. /\ ToolsTyped /\ idx \in Calls /\ CallOK(idx) /\ tool[idx] \in {"skipped", "joined"}
        BY <3>1 DEF ToolStep, Calls
      <4> QED
        BY <4>1 DEF CallOK, ToolsTyped, Kinds, Bodies
    <3>4. TailFrom(<<>>, idx, idx) /\ TailFrom(<<Tool(calls[idx], result[idx])>>, idx + 1, idx)
      BY <1>0, <3>1, <3>3 DEF TailFrom
    <3>5. Abandon(<<>>, idx) \/ Abandon(<<Tool(calls[idx], result[idx])>>, idx + 1)
      BY <2>10 DEF CollectFails, Panics
    <3>6. Follows(msgs \o part, newMsgs)
      BY <2>0, <3>1 DEF Working
    <3> QED
      BY <1>0, <2>0, <3>2, <3>4, <3>5, <3>6, AbandonTogether
  <2>11. CASE EndTools
    <3>1. pc = "collect" /\ msgs' = msgs \o part /\ pc' \notin Working /\ UNCHANGED newMsgs
      BY <2>11 DEF EndTools, Goto, Working
    <3> QED
      BY <2>0, <3>1 DEF Records, Working
  <2>12. CASE Cancel \/ UNCHANGED vars
    <3>1. UNCHANGED <<pc, msgs, newMsgs, part, committed>>
      BY <2>12 DEF Cancel, vars, transcript, tools
    <3> QED
      BY <3>1 DEF Records
  <2> QED
    BY <2>1, <2>2, <2>3, <2>4, <2>5, <2>6, <2>7, <2>8, <2>9, <2>10, <2>11, <2>12
       DEF Next, Run, Returned
<1> QED
  BY <1>c, <1>n

(***************************************************************************)
(* Where no hook panics inside handleToolCalls, the transcript is the      *)
(* history followed by the additions of the turn, until a compaction.      *)
(***************************************************************************)
THEOREM RecordsAgree ==
  ASSUME PanicPoints \cap {"notify", "collect"} = {}
  PROVE  Spec => []TranscriptIsHistoryPlusNew
<1>1. ToolStep /\ Transcript /\ Records /\ [Next]_vars => Records'
  BY RecordsNext
<1>2. Records => TranscriptIsHistoryPlusNew
  BY DEF Records, TranscriptIsHistoryPlusNew, Follows
<1> QED
  BY <1>1, <1>2, RecordsInit, ToolStepInvariant, TranscriptInvariant, PTL DEF Spec

-----------------------------------------------------------------------------
(* The types of the loop.                                                  *)

\* mergePersisted makes messages of messages.
LEMMA MergeIsTranscript ==
  ASSUME NEW ms \in Seq(Messages)
  PROVE  MergePersisted(ms) \in Seq(Messages)
<1> DEFINE n == Len(ms)
           X == Seq(Messages)
           keep == [x \in X \X Nat |->
                      IF x[2] \in 1..n /\ ms[x[2]].role # "summary"
                      THEN Append(x[1], ms[x[2]]) ELSE x[1]]
           Body(f) == [i \in 0..n |->
                         IF i = 0 THEN <<Summary>>
                         ELSE IF ms[i].role = "summary" THEN f[i - 1] ELSE Append(f[i - 1], ms[i])]
           kept == CHOOSE f : f = Body(f)
<1>1. n \in Nat
  OBVIOUS
<1>2. MergePersisted(ms) = kept[n]
  BY Zenon DEF MergePersisted
<1>3. <<Summary>> \in X
  BY PlainMessages
<1>4. keep \in Steps(X)
  <2> SUFFICES ASSUME NEW x \in X \X Nat
               PROVE  (IF x[2] \in 1..n /\ ms[x[2]].role # "summary"
                       THEN Append(x[1], ms[x[2]]) ELSE x[1]) \in X
    BY DEF Steps
  <2>1. x[1] \in X
    OBVIOUS
  <2>2. CASE x[2] \in 1..n
    <3>1. ms[x[2]] \in Messages
      BY <2>2, MessageTypes
    <3> HIDE DEF n
    <3> QED
      BY <2>1, <3>1
  <2>3. CASE x[2] \notin 1..n
    BY <2>1, <2>3
  <2> QED
    BY <2>2, <2>3
<1> HIDE DEF keep, X
<1>5. PICK g : Recursion(g, n, X, <<Summary>>, keep)
  BY <1>1, <1>3, <1>4, RecursionExists
<1>6. /\ g \in [0..n -> X]
      /\ \A i \in 0..n : g[i] = IF i = 0 THEN <<Summary>> ELSE keep[<<g[i - 1], i>>]
  BY <1>5 DEF Recursion
<1>7. \A i \in 0..n : g[i] = IF i = 0 THEN <<Summary>>
                             ELSE IF ms[i].role = "summary" THEN g[i - 1]
                             ELSE Append(g[i - 1], ms[i])
  <2> TAKE i \in 0..n
  <2>1. CASE i # 0
    <3>1. i - 1 \in 0..n /\ i \in Nat /\ i \in 1..n
      BY <1>1, <2>1
    <3>2. <<g[i - 1], i>> \in X \X Nat
      BY <1>6, <3>1
    <3>3. keep[<<g[i - 1], i>>] = IF ms[i].role = "summary" THEN g[i - 1]
                                  ELSE Append(g[i - 1], ms[i])
      BY <3>1, <3>2 DEF keep
    <3> QED
      BY <1>6, <2>1, <3>3
  <2> QED
    BY <1>6, <2>1
<1>8. g = Body(g)
  BY <1>6, <1>7, Zenon
<1>9. kept = Body(kept)
  BY <1>8, Zenon
<1> HIDE DEF kept
<1>10. \A i \in 0..n : kept[i] = IF i = 0 THEN <<Summary>>
                                 ELSE IF ms[i].role = "summary" THEN kept[i - 1]
                                 ELSE Append(kept[i - 1], ms[i])
  BY <1>9, Zenon
<1>11. kept[n] \in X
  <2> DEFINE P == {k \in Nat : k \in 0..n => kept[k] \in X}
  <2>1. 0 \in P
    <3>1. 0 \in 0..n
      BY <1>1
    <3> QED
      BY <1>3, <1>10, <3>1
  <2>2. ASSUME NEW k \in Nat, k \in P PROVE k + 1 \in P
    <3>1. SUFFICES ASSUME k + 1 \in 0..n PROVE kept[k + 1] \in X
      OBVIOUS
    <3>2. k \in 0..n /\ (k + 1) - 1 = k /\ k + 1 # 0 /\ k + 1 \in 1..n
      BY <1>1, <3>1
    <3>3. kept[k] \in X /\ ms[k + 1] \in Messages
      BY <2>2, <3>2, MessageTypes
    <3>4. kept[k + 1] = IF ms[k + 1].role = "summary" THEN kept[k] ELSE Append(kept[k], ms[k + 1])
      BY <1>10, <3>1, <3>2
    <3> QED
      BY <3>3, <3>4 DEF X
  <2> HIDE DEF P
  <2>3. n \in P
    BY <1>1, <2>1, <2>2, SetInduction
  <2> QED
    BY <1>1, <2>3 DEF P
<1> QED
  BY <1>2, <1>11 DEF X

\* What the accounts, the goroutines and the transcript do not say of the types.
ToolTypes ==
  /\ tool \in Seq(ToolStates) /\ result \in Seq(Kinds \cup {"none"})
  /\ denied \subseteq CallIds /\ idx \in Nat

RecordTypes == newMsgs \in Seq(Messages) /\ part \in Seq(Messages)

FlagTypes == thinking \in BOOLEAN /\ committed \in BOOLEAN /\ billed \in Nat

LEMMA FlagTypesNext == FlagTypes /\ [Next]_vars => FlagTypes'
<1> SUFFICES ASSUME FlagTypes, [Next]_vars PROVE FlagTypes'
  OBVIOUS
<1>1. ASSUME UNCHANGED <<thinking, committed, billed>> PROVE FlagTypes'
  BY <1>1 DEF FlagTypes
<1>2. CASE BeforeFails \/ Summarized \/ Lossy
  <2>1. UNCHANGED thinking /\ (committed' = committed \/ committed' = TRUE)
    BY <1>2 DEF BeforeFails, Summarized, Lossy, transcript
  <2>2. billed' = billed \/ \E n \in Asked \cup {0} : billed' = billed + n
    BY <1>2 DEF BeforeFails, Summarized, Lossy
  <2>3. billed' \in Nat
    BY <2>2 DEF FlagTypes, Asked
  <2> QED
    BY <2>1, <2>3 DEF FlagTypes
<1>3. ASSUME NEW first \in Firsts, NEW outcome, Attempt(first, outcome), UNCHANGED committed
      PROVE  FlagTypes'
  <2>1. billed' \in Nat
    BY <1>3 DEF Attempt, FlagTypes
  <2>2. thinking' \in BOOLEAN
    BY <1>3 DEF Attempt, FlagTypes
  <2> QED
    BY <1>3, <2>1, <2>2 DEF FlagTypes
<1>4. CASE CallLLM \/ RetryLLM \/ Summarize
  <2>1. UNCHANGED committed
    BY <1>4 DEF CallLLM, RetryLLM, Summarize, transcript
  <2>2. (\E first \in Firsts : \E outcome \in {"ok", "too long", "error"} : Attempt(first, outcome))
        \/ UNCHANGED <<thinking, billed>>
    BY <1>4 DEF CallLLM, RetryLLM, Summarize, usage
  <2> QED
    BY <1>1, <1>3, <2>1, <2>2
<1>5. CASE \/ Step \/ ViewOnly \/ AfterFails \/ RecordOverBudget \/ FinalReply \/ BeginTools
           \/ Allow \/ NotifyFails \/ Launch \/ Join \/ Collect \/ CollectFails \/ EndTools
           \/ StillWantsTools \/ SummaryReply \/ Limit \/ Cancel \/ UNCHANGED vars
           \/ \E i \in Calls : Goroutine(i)
  <2>1. UNCHANGED <<thinking, committed, billed>>
    BY <1>5 DEF Step, ViewOnly, AfterFails, RecordOverBudget, FinalReply, BeginTools, Allow,
                NotifyFails, Launch, Join, Collect, CollectFails, EndTools, StillWantsTools,
                SummaryReply, Limit, Cancel, Goroutine, usage, transcript, vars
  <2> QED
    BY <1>1, <2>1
<1> QED
  BY <1>2, <1>4, <1>5 DEF Next, Run, Returned

LEMMA ToolTypesNext == ToolStep /\ ToolTypes /\ [Next]_vars => ToolTypes'
<1> SUFFICES ASSUME ToolStep, ToolTypes, [Next]_vars PROVE ToolTypes'
  OBVIOUS
<1>0. calls \in Seq(CallIds) /\ Len(calls) \in Nat
  BY CallListsTyped DEF ToolStep
<1>1. ASSUME UNCHANGED <<tool, result>>, denied' \subseteq CallIds, idx' \in Nat PROVE ToolTypes'
  BY <1>1 DEF ToolTypes
<1>2. CASE \/ Step \/ ViewOnly \/ BeforeFails \/ Summarized \/ Lossy \/ CallLLM \/ RetryLLM
           \/ AfterFails \/ RecordOverBudget \/ FinalReply \/ Summarize \/ StillWantsTools
           \/ SummaryReply \/ Limit \/ Cancel \/ UNCHANGED vars
  <2>1. UNCHANGED <<tool, result, denied, idx>>
    BY <1>2 DEF Step, ViewOnly, BeforeFails, Summarized, Lossy, CallLLM, RetryLLM, AfterFails,
                RecordOverBudget, FinalReply, Summarize, StillWantsTools, SummaryReply, Limit,
                Cancel, tools, vars
  <2> QED
    BY <2>1 DEF ToolTypes
<1>3. CASE BeginTools \/ Join \/ Collect
  <2>1. UNCHANGED <<tool, result>> /\ denied' \in {{}, denied} /\ idx' \in {1, idx + 1}
    BY <1>3 DEF BeginTools, Join, Collect
  <2> QED
    BY <1>1, <2>1 DEF ToolTypes
<1>4. CASE Allow
  <2>1. idx \in Calls /\ calls[idx] \in CallIds
    BY <1>0, <1>4 DEF Allow, Calls
  <2>2. /\ UNCHANGED <<tool, result>> /\ idx' = idx + 1
        /\ denied' \in {denied, denied \cup {calls[idx]}}
    BY <1>4 DEF Allow
  <2> QED
    BY <1>1, <2>1, <2>2 DEF ToolTypes
<1>5. CASE NotifyFails \/ CollectFails \/ EndTools
  <2>1. ToolsOver
    BY <1>5 DEF NotifyFails, CollectFails, EndTools
  <2> QED
    BY <2>1 DEF ToolsOver, ToolTypes
<1>6. CASE Launch \/ \E i \in Calls : Goroutine(i)
  <2>1. UNCHANGED <<calls, denied, idx>> /\ pc' = "run"
    BY <1>6 DEF Launch, Goroutine, Goto
  <2>2. tool' \in [1..Len(calls) -> ToolStates] /\ result' \in [1..Len(calls) -> Kinds \cup {"none"}]
    BY <2>1, ToolsNext DEF ToolStep, ToolsTyped, Calls
  <2>3. tool' \in Seq(ToolStates) /\ result' \in Seq(Kinds \cup {"none"})
    BY <1>0, <2>2, SeqDef
  <2> QED
    BY <2>1, <2>3 DEF ToolTypes
<1> QED
  BY <1>2, <1>3, <1>4, <1>5, <1>6 DEF Next, Run, Returned

\* An abandoned step adds messages.
LEMMA AbandonTyped ==
  ASSUME RecordTypes, calls \in Seq(CallIds), NEW k \in 1..(Len(calls) + 1),
         NEW answered, NEW from, TailFrom(answered, from, k), Abandon(answered, from), part' = <<>>
  PROVE  RecordTypes'
<1>1. ResultsFrom(answered, from) \in Seq(Messages)
  BY TailAnswers
<1>2. newMsgs' = newMsgs \o ResultsFrom(answered, from)
  BY DEF Abandon, ResultsFrom
<1> QED
  BY <1>1, <1>2, ConcatProperties DEF RecordTypes

LEMMA RecordTypesNext == ToolStep /\ ToolTypes /\ RecordTypes /\ [Next]_vars => RecordTypes'
<1> SUFFICES ASSUME ToolStep, ToolTypes, RecordTypes, [Next]_vars PROVE RecordTypes'
  OBVIOUS
<1>0. calls \in CallLists /\ calls \in Seq(CallIds) /\ Len(calls) \in Nat
  BY CallListsTyped DEF ToolStep
<1>1. CASE \/ Step \/ ViewOnly \/ BeforeFails \/ Lossy \/ CallLLM \/ RetryLLM \/ AfterFails
           \/ RecordOverBudget \/ Allow \/ Launch \/ Join \/ Summarize \/ StillWantsTools
           \/ Limit \/ Cancel \/ UNCHANGED vars \/ \E i \in Calls : Goroutine(i)
  <2>1. UNCHANGED <<newMsgs, part>>
    BY <1>1 DEF Step, ViewOnly, BeforeFails, Lossy, CallLLM, RetryLLM, AfterFails,
                RecordOverBudget, Allow, Launch, Join, Summarize, StillWantsTools, Limit, Cancel,
                Goroutine, tools, transcript, vars
  <2> QED
    BY <2>1 DEF RecordTypes
<1>2. CASE Summarized
  <2>1. newMsgs' = MergePersisted(newMsgs) /\ UNCHANGED part
    BY <1>2 DEF Summarized, tools
  <2> QED
    BY <2>1, MergeIsTranscript DEF RecordTypes
<1>3. CASE FinalReply \/ SummaryReply
  <2>1. newMsgs' = Append(newMsgs, Reply) /\ UNCHANGED part
    BY <1>3 DEF FinalReply, SummaryReply, tools
  <2>2. Reply \in Messages
    BY PlainMessages
  <2> QED
    BY <2>1, <2>2 DEF RecordTypes
<1>4. CASE BeginTools
  <2>1. newMsgs' = Append(newMsgs, Asks(calls)) /\ part' = <<Asks(calls)>>
    BY <1>4 DEF BeginTools
  <2>2. <<Asks(calls)>> \in Seq(Messages)
    BY <1>0, BlockStarts DEF Block
  <2> QED
    BY <2>1, <2>2 DEF RecordTypes
<1>5. ASSUME pc = "collect", idx \in Calls PROVE calls[idx] \in CallIds /\ result[idx] \in Bodies
  <2>1. ToolsTyped /\ CallOK(idx) /\ tool[idx] \in {"skipped", "joined"}
    BY <1>5 DEF ToolStep
  <2> QED
    BY <1>0, <1>5, <2>1 DEF CallOK, ToolsTyped, Kinds, Bodies, Calls
<1>6. CASE Collect
  <2> DEFINE m == Tool(calls[idx], result[idx])
  <2>1. newMsgs' = Append(newMsgs, m) /\ part' = Append(part, m)
    BY <1>6 DEF Collect
  <2>2. m \in Messages
    BY <1>5, <1>6, ToolMessage DEF Collect
  <2> HIDE DEF m
  <2> QED
    BY <2>1, <2>2 DEF RecordTypes
<1>7. CASE NotifyFails
  <2>1. part' = <<>> /\ (Abandon(<<>>, 1) \/ UNCHANGED newMsgs)
    BY <1>7 DEF NotifyFails, ToolsOver
  <2>2. 1 \in 1..(Len(calls) + 1) /\ TailFrom(<<>>, 1, 1)
    BY <1>0 DEF TailFrom
  <2>3. CASE Abandon(<<>>, 1)
    BY <1>0, <2>1, <2>2, <2>3, AbandonTyped
  <2>4. CASE UNCHANGED newMsgs
    BY <2>1, <2>4 DEF RecordTypes
  <2> QED
    BY <2>1, <2>3, <2>4
<1>8. CASE CollectFails
  <2>1. pc = "collect" /\ idx \in Calls /\ part' = <<>>
    BY <1>8 DEF CollectFails, ToolsOver
  <2>2. idx \in 1..(Len(calls) + 1) /\ idx <= Len(calls)
    BY <1>0, <2>1 DEF Calls
  <2>3. TailFrom(<<>>, idx, idx) /\ TailFrom(<<Tool(calls[idx], result[idx])>>, idx + 1, idx)
    BY <1>5, <2>1, <2>2 DEF TailFrom
  <2>4. CASE Abandon(<<>>, idx) \/ Abandon(<<Tool(calls[idx], result[idx])>>, idx + 1)
    BY <1>0, <2>1, <2>2, <2>3, <2>4, AbandonTyped
  <2>5. CASE UNCHANGED newMsgs
    BY <2>1, <2>5 DEF RecordTypes
  <2> QED
    BY <1>8, <2>4, <2>5 DEF CollectFails
<1>9. CASE EndTools
  <2>1. UNCHANGED newMsgs /\ part' = <<>>
    BY <1>9 DEF EndTools, ToolsOver
  <2> QED
    BY <2>1 DEF RecordTypes
<1> QED
  BY <1>1, <1>2, <1>3, <1>4, <1>6, <1>7, <1>8, <1>9 DEF Next, Run, Returned

(***************************************************************************)
(* Every variable of a turn keeps its type: the transcript and the turn's  *)
(* additions are messages whatever compaction, failing hooks, cancellation *)
(* and tool steps make of them, and no counter goes below zero.            *)
(***************************************************************************)
THEOREM LoopTyped == Spec => []TypeOK
<1>1. Init => FlagTypes /\ ToolTypes /\ RecordTypes
  <2> SUFFICES ASSUME Init PROVE FlagTypes /\ ToolTypes /\ RecordTypes
    OBVIOUS
  <2>1. <<User>> \in Seq(Messages)
    BY PlainMessages
  <2>2. RecordTypes
    BY <2>1 DEF Init, RecordTypes
  <2>3. FlagTypes
    BY DEF Init, FlagTypes
  <2>4. ToolTypes
    BY DEF Init, ToolTypes
  <2> QED
    BY <2>2, <2>3, <2>4
<1>2. Accounts /\ ToolStep /\ Transcript /\ FlagTypes /\ ToolTypes /\ RecordTypes => TypeOK
  <2> SUFFICES ASSUME Accounts, ToolStep, Transcript, FlagTypes, ToolTypes, RecordTypes
               PROVE  TypeOK
    OBVIOUS
  <2>1. AccountTypes /\ msgs \in Seq(Messages) /\ calls \in CallLists
    BY DEF Accounts, Transcript, ToolStep
  <2>2. slots \in 0..Parallel
    BY Limits DEF ToolStep
  <2>3. tool \in Seq({"skipped", "queued", "waiting", "running", "joined"})
    BY DEF ToolTypes, ToolStates
  <2>4. result \in Seq(Bodies \cup {"none"})
    <3>1. Kinds \cup {"none"} \subseteq Bodies \cup {"none"}
      BY DEF Kinds, Bodies
    <3>2. \A i \in 1..Len(result) : result[i] \in Bodies \cup {"none"}
      BY <3>1 DEF ToolTypes
    <3>3. Len(result) \in Nat /\ result = [i \in 1..Len(result) |-> result[i]]
      BY DEF ToolTypes
    <3> QED
      BY <3>2, <3>3, SeqDef
  <2> QED
    BY <2>1, <2>2, <2>3, <2>4 DEF TypeOK, AccountTypes, FlagTypes, RecordTypes, ToolTypes
<1> QED
  BY <1>1, <1>2, FlagTypesNext, ToolTypesNext, RecordTypesNext,
     AccountsInvariant, ToolStepInvariant, TranscriptInvariant, PTL DEF Spec
=============================================================================
