# Verification of miniagent

TLA+ modules, TLC configurations and TLAPS proofs about miniagent, a coding
agent in Go: an agent loop that talks to an OpenAI-compatible endpoint and runs
tools, a session store, and a web server (`-serve`) that runs turns, streams
their events to browsers and reloads its configuration.

Every definition is translated from the Go sources; paths in this file are
relative to `src/`. `PROJECT.json` maps each definition to its lines, lists the
runs, one mutant of the code per checked property, the hazards, the findings and
the theorems.

- [1. The system](#1-the-system)
- [2. Modules](#2-modules)
- [3. Runs and bounds](#3-runs-and-bounds)
- [4. Fairness](#4-fairness)
- [5. Proofs](#5-proofs)
- [6. Where the code and its documentation disagree](#6-where-the-code-and-its-documentation-disagree)
- [7. What is not modelled](#7-what-is-not-modelled)
- [8. What could follow](#8-what-could-follow)

To run: `tlc -config TurnRegistry_safety.cfg MCTurnRegistry`, and
`tlapm TurnRegistryProofs.tla`.

## 1. The system

### How the parts interact

```
 browser ──POST /api/turn──▶ handleTurn ──register──▶ turnRegistry (slots)
    │                          │  ▲ subscribe            │   ▲
    │                  spawns  │  │ replay + live         │   │ beginDelete / finish
    │                          ▼  │                       ▼   │
    ├─GET  …/live ────────▶ turnEntry (bus) ◀─Write── turn goroutine (runTurn)
    ├─POST …/stop ─────────────────────── cancel ───────▶ │   │
    ├─DELETE /api/sessions/{id} ──▶ slot, then os.Remove  │   │ load / rewrite
    ├─GET  /api/events ◀── lifeHub ◀── started/finished ──┘   ▼
    └─POST /api/reload ──▶ reloadCh ──▶ serveOnce / runServe  session file or remote store
                                                          │
                               agent loop (miniagent.Run) ┘
                                 BeforeLLM = compaction, OnToolUse = policy,
                                 callLLM = provider/openai, tools in parallel
```

Calls are synchronous inside a turn. What crosses goroutines: the registry map
(`r.mu`), one bus per turn (`e.mu`, bounded channels), `turnSem`, the contexts,
`reloadCh`, the WaitGroup and semaphore of the tool calls of one step, and the
session files (`flock`), which other processes may use too.

### Inventory

| Component | State | Operations | Hard behaviours | What makes it correct |
|---|---|---|---|---|
| Session slots and turn lifecycle (`cmd/miniagent/web_bus.go` turnRegistry, `web_turn.go`, `web_sessions.go`, `run_turn.go`) | session → entry, semaphore of handlers, turn context, session file | accept, register, spawn, load, run, save, finish; delete; stop | a turn outlives its handler; delete, stop and turns race; every exit must give slot and token back | one worker per session; no saved turn is lost; slots and tokens are conserved; a stop ends its turn |
| Turn event bus (`web_bus.go` turnEntry, `web_turn.go`, `web_live.go`) | bounded line buffer, drop count, subscriber channels, `done` | Write, subscribe, unsubscribe, finish, result | atomic snapshot + registration; slow readers; reader against finish | consecutive delivery, honest truncation, the engine never waits, responses end |
| Serve loop and reload (`web.go`, `web_config.go`) | generation, configuration, reload channel, signal | serveOnce, shutdown, reload, load | reload against turns, signals and edits of the file; two receivers of one channel | an exit abandons no attended turn; signals stop; a reload comes back |
| Agent loop (`miniagent/loop.go`, `loop_extra.go`, `tool_handler.go`, `loop_tools.go`) | transcript, additions of the turn, usage, step, tool goroutines | LLM call with downgrade and retry, tool step, budget, summary at the limit | hooks fail or panic half-way, cancellation anywhere, parallel tools | tool calls and results stay paired; accounting is exact; no deadlock; cancellation is reported |
| Compaction (`miniagent/compaction`) | view, summary barrier, recorded real usage | FitHistory, compactWithSummary, trims, strips | what may be dropped without breaking pairing; stale usage | views stay valid; nothing is lost that the summary does not cover |
| Default policies (`miniagent/policy`) | none of their own | OnBudget, OnLLMError, confirmation, output store | retries, denials | the budget fuse fires; a denied call never runs |
| Session file store (`miniagent/session`) | jsonl file, lock, temporary file | Load, Append, Rewrite, Delete | torn last line, rename under flock, several processes | a crash loses at most the last message; writers exclude each other |
| Remote session client (`session/client.go`, `cmd/miniagent/session_remote.go`) | the store's copy | load, create, rewrite, delete | lost answers, cancelled contexts | create and rewrite agree |
| Tool execution (`miniagent/tools`: shell, limits, timeouts) | process group, pipe, sliding output | run with timeout, drain, kill | late writers, inherited pipes | a call returns in bounded time |
| File, search and web tools | the working tree | read, write, edit, glob, grep, ast, fetch | none beyond the timeout wrapper | sequential |
| OpenAI client (`provider/openai`, `provider/httpretry`) | retry counter, partial stream | Do, DoStream | Retry-After, a stream broken after its first delta | nothing shown twice |
| Configuration (`config`, `web_config.go`) | configuration file, running configuration | load, validate, masked read, save, reload | edits between validation and load; masks | secrets survive edits |
| Lifecycle feed (`lifeHub`, `GET /api/events`) and browser (`app.js`) | subscribers, running dots | broadcast, subscribe | missed and reordered events | dots show what runs |
| Guard, tree, models; start-up; events, metrics, text; test harness, scripts | none shared | stateless | – | – |

`PROJECT.json` says for each whether it is modelled, partly modelled or not, and
lists the 40 hazards at their lines with the properties that cover them.

## 2. Modules

| Module | Models |
|---|---|
| `TurnRegistry` | slots, semaphore, handlers, turn goroutines, deletes, stops, session file |
| `TurnStream` | the bus of one turn, the posting client and the watchers |
| `OrderedFeed` | abstract specification of the bus; `TurnStream` implements it |
| `ServeLoop` | generations, reload, configuration file, signal, shutdown |
| `AgentLoop` | one call of `miniagent.Run`, with hooks, compaction and tool goroutines |
| `ContextStrips` | the pure functions of `applyContextStrips` over the messages of a request |
| `Compaction` | the steps of a session as package compaction sees them, with `ContextStrips` |
| `SessionFile` | one session jsonl, its lock and its inodes, several processes, crashes and power failures |
| `RemoteSession` | the session server's client: load, save and delete over HTTP by several machines |
| `ConfigEdit` | the configuration page: masked reads and writes against the file and the running configuration |
| `ChatCall` | one endpoint call: retries, the stream parser, cancellation |
| `ShellRun` | one shell call: the command's processes, its pipe and the goroutines around it |
| `FileTools` | parallel edits and writes of one file, with the timeout wrapper |
| `MC*` | model values, symmetry and small histories for TLC |
| `MCStores` | union of `SessionFile`, `RemoteSession` and `ConfigEdit`: one of them in a behaviour |
| `MCEffects` | union of `Compaction`, `ChatCall`, `ShellRun` and `FileTools`: one of them in a behaviour |
| `TurnRegistryProofs`, `TurnStreamProofs`, `ServeLoopProofs`, `AgentLoopProofs`, `CompactionProofs` | TLAPS proofs about the module they are named after |
| `StoresProofs` | proofs about `SessionFile`, `ConfigEdit` and `RemoteSession` |
| `EffectsProofs` | proofs about `ChatCall`, `ShellRun` and `FileTools` |
| `Induction` | induction over numbers and definitions by recursion, for the proofs |

How the modules divide a turn: `TurnRegistry` decides which turn may run and treats the
turn as one goroutine; `TurnStream` is what that goroutine writes to; `AgentLoop`
is what it does; `Compaction`, `ChatCall`, `ShellRun` and `FileTools` detail single
steps of `AgentLoop` (BeforeLLM, the call, the tools), and `SessionFile` and
`RemoteSession` the load and the save (separate modules, not checked as refinements). What the outer module takes from the
inner one: `AgentLoop!FairSpec` assumes that calls and tools return, which
`CallReturns` and `ShellReturns` show; `TurnRegistry!SaveSession` is one step that
may fail, which in `SessionFile` is the rename; `AgentLoop!View` allows any cut in
front of a round, of which `Compaction` makes one.

Definitions whose comment starts with "Mutant" are plausible bugs of the
definition below them. The specifications do not use them; each stands for the
change that makes one property fail.

### TurnRegistry

Each HTTP request is a process that runs once, and a registry entry is named by
the request that created it. `registry` is `turnRegistry.m`, `tokens` is
`len(turnSem)`, `file` the session files as sequences of the turns they hold. A
turn has two program counters, `handler` (handleTurn) and `engine` (the
goroutine of web_turn.go:112-127), because the goroutine outlives the handler.

| Code | Action |
|---|---|
| handleTurn: semaphore, `register`, `turn_started`, go | `TurnAccept`, `TurnRegister`, `AnnounceStarted` |
| handleTurn returns (turn over, or client gone), deferred release | `HandlerLeaves` |
| runTurn: resolveSession, set-up, Run, saveSession, terminal event | `LoadHistory`, `SetupFails`, `SetupOk`, `RunEmits`, `RunReturns`, `SaveSession`, `EmitTerminal` |
| finish (two critical sections), `turn_finished` | `ReleaseSlot`, `CloseEntry`, `AnnounceFinished` |
| handleSessionDelete | `BeginDelete`, `RemoveFile`, `AnnounceDeleted`, `EndDelete` |
| handleSessionStop | `StopLookup`, `StopCancel` |
| the context's deadline | `Deadline` |

An entry is removed by `finish` whoever owns it, as in the code
(`delete(r.m, sessionID)`): that no request removes the slot of another is a
consequence, not an assumption. A save is one atomic step: within one process
only the owner of the slot writes the file. The save may fail and leave the
file alone; a save after a setup error does not happen. Cancellation does not
skip the save.

Properties: `ExclusiveSession`, `HistoryGrows` (the rewrite from a history read
minutes before loses nothing), `TokensConserved`, `StopEndsTurn`, `SlotsDrain`.

### TurnStream and OrderedFeed

Lines are numbered. `buf` and `dropped` are the replay buffer, `chan`, `open` and
`subs` the subscriber channels, `pc` the handlers. An action is one critical section
of `e.mu`; finish holds `e.mu` over two visible steps (channels closed, then
`done`), so the phase `closing` blocks everything that needs the lock while
readers go on draining their channels, which need no lock. The poster has two
phases of its own: it waits for the first line before it answers 200, without
looking at its context, and answers with a status if there is none.

`Write` does not block: a full channel is closed and its reader removed.
`dropped` counts evictions; a reader is told the count when it subscribes
(`live_truncated`).

`OrderedFeed` has no channels, snapshots, phases or locks: a growing log, and
readers that are told how many lines a window of the last `Window` lines cannot
hold and then receive each following line once. The mapping: log = `lines`, from =
`skipped`, got = `seen`, a reader is "in" between its subscription and the end of
its response.

Properties: `NoGapNoDuplicate`, `SubscribersWhole` (only a lagging reader loses
a line), `BufferIsTail`, `ImplementsFeed`, `EngineNeverHeldUp`, `ResponsesEnd`.

### ServeLoop

`loop` is the control of runServe and the serveOnce it calls; a generation `gen` has
its own registry and reload channel, so a request is tagged with its `home`.
`ReloadCounts`, `ReloadChecks` and `ReloadSends` are the three steps of the
handler between which turns may register and the file may change.
`cfg` becomes `"nil"` when `LoadConfig` fails, which the code's assignment does, and a
nil `cfg` crashes serveOnce. The three cases of serveOnce's select are
`ShutdownOnSignal`, `ShutdownOnReload` and `ServeFails`: in the last, Serve returned an
error and the process ends at once, with handlers and turns running. Shutdown waits for
handlers (`Active`), not for turn goroutines; after 5 seconds (`GraceOver`) it drops them.

Properties: `AttendedTurnsFinish` (of the exits after a shutdown and of a start that fails; not of
`ServeFails`, for which it is false, §6), `SignalStopsServer`, `AcceptedReloadDrains`.

### AgentLoop

`pc` names the place in the loop: `step` (top of an iteration), `before`
(BeforeLLM), `call`, `retry` (after OnLLMError), `after` (AfterLLM, usage,
budget), `notify` (OnToolUse), `run` (goroutines), `collect` (OnToolResult and
ShapeToolResult), `summary`/`summarized` (summarizeAtLimit), `limit`, `done`.

A message keeps role, tool call ids, and the kind of a result. `msgs` and
`newMsgs` are the two records of the turn: handleToolCalls extends `newMsgs`
through a pointer and its own copy of `msgs` (`part`), which becomes the
transcript when it returns. Each tool call is a goroutine: it looks at the
context, waits for a slot or the cancellation, runs, returns (`CheckCtx`,
`TakeSlot`, `Abort`, `ToolReturns`), and `Join` is the WaitGroup.

BeforeLLM may commit a compacted view. The model takes from package compaction
what it may keep: `View` (from the latest summary), rounds that are never cut
(`RoundStarts`), with a summary (`WithSummary`) or without (`WithoutSummary`), the
first round kept or trimmed, any number of recent rounds. Which of these the
code picks depends on token estimates and configuration and is a choice.

A hook may fail wherever the code calls one, and panic at the places of
`PanicPoints`. Usage is one token per response; `billed` is a history variable
for what the endpoint charged, `recorded` for what `recordStepUsage` counted.

Properties: `TranscriptAnswered`, `SessionLoads` (the check LoadSession makes),
`TranscriptIsHistoryPlusNew`, `ToolsJoined`, `DeniedNeverRun`,
`CancelNotSwallowed`, `TurnReturns`; by proof alone `StepsRecorded` and `BudgetFuse`.

### ContextStrips and Compaction

A message keeps the sizes that count (text, reasoning, arguments), the tool call it
makes or answers, whether the result is an error, the real usage recorded on it, and
whether it is verbatim (`whole`). It is known by its timestamp; a summary is a message that also
keeps the set of timestamps its text stands for, so that what a summary of a
summary still tells can be checked.

`ContextStrips` translates the strips one function at a time and `Strips` applies
them in the order of `applyContextStrips`: reasoning outside the window cleared or
cut, arguments shortened, results of repeated reads, of reads before a successful
write, and of repeated shell commands folded.

In `Compaction`, `UserAsks`, `Replies`, `CallsTool` and `TurnStops` are what the loop
does between two BeforeLLM; `SendView`, `Summarized` and `Lossy` are the three ways
FitHistory ends: the view fits, the middle is summarized (`Summarize`: the first
round and the last `KeepRecent` rounds or what `FirstKept` fits into `TailBudget`, the middle told to the model
together with the previous summary), or the history is cut down round by round, and at last message
by message (`Trimmed`). `Answers` is the hook's summary: prose, or garbage, or an
error. `LastApplicableUsage` and `Threshold` decide between the local estimate and
what the endpoint measured; `Under` is how much the estimate may miss.

Two requests do not come from BeforeLLM. After a context error OnLLMError's `ContextTrim` clears the reasoning
and cuts every tool result, the newest too, and the retry sends all of that transcript, not its view (`Retries`;
phase `retry`); the trimmed transcript is what the session keeps. At the iteration limit summarizeAtLimit sends
the transcript with a prompt behind it (`AsksForSummary`; phase `limit`). Neither passes the barrier, the strips or the
size check. The model lets both happen at any step, since it does not count iterations. `said`, `heads` and `dropped` are history
variables for the properties.

Properties: `LatestSeen` and `SummaryKeepsAll`, of all three requests; `RequestFits` and `FoldedIsSuperseded`, of the
request BeforeLLM lets through; `NoStaleCompaction`. That the other two fit, or that the retry is smaller
than what was refused, does not hold (§6). `RequestFits` counts a message without its placeholders (`Plain`, `Bare`): a text that was folded
or shrunk and is no longer than a placeholder, and arguments of a write or a shell command that are no longer than
one, count as nothing. `EstimateFits` counts them, and does not hold (§6).

### SessionFile

Processes share a path, the path leads to an inode, `flock` belongs to an inode. Every
system call of AppendMessages, RewriteMessages and withSessionLock that another
process or a crash can come between is an action (`Open`, `Flock`, `LockBusy`,
`Trim`, `WriteHalf`, `WriteRest`, `AppendSync`, `CreateTemp`, `WriteTemp`,
`SyncTemp`, `Rename`, `SyncDir`, and their failures); `Resolve` and `EndTurn` are the load before
and the save after a run. A lock that stays busy for five seconds fails the save
(`LockBusy`). `may` and `mayDir` hold what a
power failure can leave: any content since the inode's last fsync, any target of
the path since the directory's. `Crash` ends one process and frees its lock;
`PowerFailure` ends all and picks from `may` and `mayDir`.

`Units` is what the scanner of LoadSession yields and `LoadOutcome` its result, the
tool pairing check included. A size counts lines.

Properties: `NoGluedLine`, `PathLoads`, `SavedIsDurable`, `SavesReturn`.

### RemoteSession

`stored` is the server's transcript. The server is external: `Serve` does what the client's requests and the
status codes it accepts imply. A request may be given up (`GiveUp`: timeout, lost
answer, ended context) with or without the server having acted, and in the `Late`
variant it may reach the server afterwards. `LoadStep` pages through the
transcript (`NextPage`), `SaveStep` creates on a missing session and then
replaces, `DeleteStep` deletes. `Guarded` is an assumption about the
users, that two machines do not continue one session at once; nothing in the code
sees to it, and without it acknowledged turns get lost (§6).

Property: `AckedTurnsStay`.

### ConfigEdit

Of a configuration there are the providers' names and keys and the server's own key (`Web`): the two
secrets that GET masks and PUT restores. `ConfigGet` reads the
*file* and masks, `FormEdit` is what a user can do to the form, `ConfigPut` restores
masked keys from the *running* configuration, `ConfigRename` makes the save
visible. `OtherEdit` changes or breaks the file from outside, `ConfigReload` runs what the file
holds and either waits for the saves under way or, as a crash, forgets them.

Property: `KeysBelong`.

### ChatCall

One call of `Do`, `ListModels` or `DoStream` (`mode`). `Send` is the top of the
retry loop; what the endpoint may do next is an action each (`NetworkError`, `RetryableStatus`,
`OtherStatus`, `BadBody`, `RoleChunk`, `Delta`, `ToolOpens`, `Finish`, `DoneMarker`,
`CleanClose`, `CutInLine`, `Reset`, ...). `acc` is `streamAccum`; `AfterScan` is
what parseSSE makes of a stream that ended and `Settle` what DoStream makes of that: return, return
the partial text as truncated, or retry while nothing was shown. Tokens are numbered by
attempt and position, so that a repeated or mixed answer shows. A finish_reason and [DONE] come whenever the endpoint sends them,
also in the middle of a tool call (`acc.part`): parseSSE does not look, and neither do the guards.

Properties: `ShownOnce`, `NoSilentPartial`, `CallReturns`. `NoSilentPartial` is about how a stream ended: an answer
with anything in it was ended by a finish_reason or [DONE], unless the provider allows streams without.
An empty answer may come from a connection that dropped, and an ended one may hold half a tool call (§6).

### ShellRun

`proc` are three processes: the leader `sh`, a background child in its group, and a daemon that left
it with setsid; each inherits the pipe or not. `copier`, `watcher` and `waiter` are
os/exec's goroutines (external), `killer` and `caller` are runShellLimited's. The
caller drains the pipe until it is closed, waits for Wait's answer or gives up
(`GivesUp`), kills what is left of the group (`KillsRest`) and classifies. With `Recycles` the
system may give the leader's pid to a stranger once the group is gone.

Properties: `NoGroupSurvivor`, `CodeIsTrustworthy`, `ShellReturns`.

### FileTools

Each call is the caller in runWithTimeout's select and a worker goroutine that the caller
may abandon (cancellation, timeout, grace) but not stop. Edits take the path's lock; a
write takes none. The worker's steps are the system calls of writeFileAtomic. The
content is a sequence of fragments, on which `ApplyEdits` folds the
replacements as the code does, size check first.

Properties: `NoLostEdit`, `AnswerIsTrue`.

## 3. Runs and bounds

| Run | Module, configuration | Question | Bounds, and why they are enough |
|---|---|---|---|
| registry_safety | `MCTurnRegistry`, `TurnRegistry_safety` | Do turns, a delete and a stop exclude each other on a session, and does its file survive them? | 3 turns, 1 delete, 1 stop, 1 session, 2 tokens. Slots are per session; three turns give one that ran, one that runs and one that comes; two tokens for three turns reach 429. |
| registry_live | `MCTurnRegistry`, `TurnRegistry_live` | Does a stop work, and does every path give its slot back? | 2 turns, 1 delete, 1 stop on 1 session: the stop can race the end of its turn and the start of the next. |
| stream | `MCTurnStream`, `TurnStream_bus` | Consecutive delivery, truncation, refinement of `OrderedFeed`; can a reader hold the turn up; does every response end? | 4 lines, buffer 2, channels of 1, poster and 1 watcher: the buffer evicts twice, a channel overflows while the snapshot is read, the watcher attaches before, between and after evictions. No symmetry, since it checks liveness. |
| serve_reload | `MCServeLoop`, `ServeLoop_reload` | Signals, reloads, edits, a Serve that fails and turns over two generations. | 2 turns, 2 reloads, 2 generations: a second generation is only reached if the first was drained by one token while another was in the channel. |
| serve_broken | `MCServeLoop`, `ServeLoop_broken` | Does a broken file keep the current configuration? (no, §6) | 1 turn, 2 reloads. |
| agent_tools | `MCAgentLoop`, `AgentLoop_tools` | Pairing, goroutines and denials under failures and compaction. | 2 iterations of up to 2 calls over 2 ids, 1 slot, budget 2: two goroutines compete for the slot, the second iteration compacts what the first left, the budget can stop it. Resumes an answered prompt, so that there are rounds to drop. |
| agent_steps | `MCAgentLoop`, `AgentLoop_steps` | Transcript bookkeeping, cancellation, termination. | 2 iterations of up to 1 call, budget 3; resumes nothing, or a turn with a tool call: the id of an earlier turn can come back. |
| stores | `MCStores`, `Stores` | Is what was stored there after whatever happens to the writers? | Files: 2 processes, 3 inodes, 2 saves, 1 fault, a limit of 4 lines (a metadata line and a turn and a half: the second turn meets the limit). Server: 2 machines, 5 turns, 2 lost requests, pages of 2: the third turn loads two pages, and both losses can hit one turn or two. Configuration: 2 browsers, 3 names, 2 keys, 2 changes: a stale form, a rename and a foreign edit in every order; the server's own key beside the providers'. |
| remote_cancel | `MCRemoteSession`, `RemoteSession_cancel` | Is the executed part of a stopped turn saved? (no, §6) | 2 machines, 1 turn, nothing lost. |
| config_mask | `MCConfigEdit`, `ConfigEdit_mask` | Does the mask leave a key unchanged? (no, §6) | 1 browser, 1 change, no foreign edits. |
| effects | `MCEffects`, `Effects` | What does one step of a turn do: context, endpoint call, shell command, file tools? | Context: 8 messages in a window of 18, tail of 2 rounds: summaries of summaries, a lossy step after a failed summary, repeated reads and commands; results of up to 12 tokens, which a retry cuts to 6; a retry before or after a summary. Call: 2 retries, 3 tokens: a retry before and a cut after the first delta. Shell: 2 bytes, codes 0 and 1, pids recycled. Files: two edits and a write of one file, limit of 4 fragments: a replacement can outgrow it. |
| compaction_head | `MCCompaction`, `Compaction_head` | Is the first round retained? (no, §6) | 9 messages: one summary and the step after it. |

`Under = 0` in `effects`: usage reported by the endpoint equals the local estimate of
the request that was sent. (It still diverges from the estimate of the *next* request, which
is what `Threshold` is about.)

Deadlock is checked for `AgentLoop`, whose returned turn stutters explicitly. The
others stop legitimately: requests run once, a process exits, bounded changes are
used up.

Bounds on otherwise unbounded state: the sets of requests (each runs once),
`MaxLines`, `MaxGen` (a generation beyond it is not started, which in
`serve_reload` can only be a third), `MaxCalls`, `MaxIter`, `MaxSaves`, `MaxFaults`, `MaxTurns`, `MaxLosses`, `MaxChanges`, `MaxTs`,
`MaxResponse`, `MaxBytes`. Symmetry is used only in
runs without temporal properties other than action properties and refinement.

`TurnStream_wide.cfg` is a larger instance for the safety properties of the bus (two watchers, about a million
states), to be run by hand: `tlc -config TurnStream_wide.cfg MCTurnStream`.

## 4. Fairness

- `TurnRegistry!FairSpec`: the goroutines of handlers, turns, deletes and stops are
  scheduled, and Run returns *once its context is done*. Nothing makes
  Run return otherwise, a client leave or a request arrive. `StopEndsTurn` is
  checked without any timer: the stop alone has to end the turn. `SlotsDrain` adds
  `Timers`, the context's deadline (web_turn.go sets one on every turn). That
  Run returns once its context is done is what `AgentLoop!TurnReturns` shows of
  the loop, given tools and an endpoint that return.
- `TurnStream!FairSpec`: only the engine. `EngineNeverHeldUp` then says that
  no behaviour of the readers, including none at all, stops it. `ResponsesEnd`
  assumes `ReadersServed`, handlers that run and clients that read or leave.
- `ServeLoop!FairSpec`: the loop, reload handlers and turn threads take the
  steps they can; Shutdown's timer (5 s) is one of the loop's steps, and turns
  end by their deadline. Signals, requests, edits and departures are not fair.
- `AgentLoop!FairSpec`: the endpoint answers or times out and so does every tool
  (`run_limited.go`, `tool_timeout.go`, the HTTP client's timeouts). Cancellation
  is not fair.
- `CallFairness`: the client takes its own steps; `Do` and `ListModels` run under an
  `http.Client` with a timeout; a stream has none and ends with its context alone.
  The endpoint owes nothing. `CallReturns` says that this is enough at any
  point of any attempt.
- `ShellFairness`: the five goroutines and the caller are scheduled and the shell's
  timeout passes. The command owes nothing: it may keep the pipe open for ever.
- `MCStores!StoresSpec`: the steps of *one* process, `Work(p1)`, its five seconds for a busy lock
  included. The other process may hang anywhere, with the lock in hand;
  `SavesReturn` says that the first one's save returns all the same.

All fairness is weak, on the steps of one goroutine at a time; no property
depends on who wins a lock or a `select`.

## 5. Proofs

Every theorem holds for all values of the constants under the assumptions the modules
state: `RegistryAssumption` (finitely many turns, distinct kinds of requests);
`StreamAssumption` (positive capacities, the poster is not a watcher); `ServeAssumption`;
`LoopAssumption` (at least one iteration and one slot; no call has the empty id, since
handleToolCalls makes up an id for a call that comes without one); `HistoriesAssumption` (a turn
resumes a transcript that is complete and loads, which is what an earlier turn leaves);
`ChatCallAssumption`, `FileToolsAssumption`, `ShellRunAssumption` (exit codes are bytes, zero among
them); `StripAssumption` and `CompactionAssumption` (sizes are numbers, a user message, a reply and
a summary are not empty, at least one round is kept); `SessionFileAssumption`, `NoneAssumption`,
`ConfigEditAssumption`, `FirstConfigAssumption`, `RemoteSessionAssumption` (bounds are numbers,
names that stand for "nothing" are not values). Three theorems have a
hypothesis more, and for each a `_refuted` configuration shows that it fails without it (§6):
`UniqueIds = TRUE` for `TranscriptLoads`, `Guarded = TRUE` for `RemoteTurnsStay` (and no late
requests, by its specification), and no panic inside `handleToolCalls` for `RecordsAgree`.

The proofs are by induction over the steps: `Init => IInv`, `IInv /\ [Next]_vars => IInv'`, with a
lemma per action or group of actions. The inductive invariants were model-checked before.

**Induction.** The library's induction theorems take an operator as a parameter, which no
prover here can instantiate. `SetInduction` states induction for a *set* of numbers, `LeastNumber`
follows from the library's well-founded induction in the same way, and `RecursionExists` says that a function
defined by a recursion `f[i] = F[i, f[i - 1]]` exists, for a step that is given as a function.
With these the sums of `Compaction`, the outcome of loading a session in `SessionFile` and the pairing check of
`AgentLoop` can be reasoned about for transcripts of any length.

**TurnRegistryProofs.** `ExclusiveSession` is not inductive: it says nothing of
who may release a slot. `IInv` adds `SlotOwned` (an active party is the entry of
its session, from which exclusion follows, since an entry is one request),
`PhasesAgree` (a goroutine exists only after its handler announced it),
`LoadedIsCurrent` (what a turn loaded is what the file still holds) and
`TokensConserved`, which needs the cardinality of the set of handlers that hold
a token. Theorems: `TypeCorrect`, `SessionExclusion`, `TokenAccounting`,
`HistoriesGrow` (an action property: `SaveSession` appends to what the file
holds because of `LoadedIsCurrent`, and nobody else writes because of
`SlotOwned`).

**TurnStreamProofs.** `IInv` says where every line of a reader is: the snapshot
continues what was seen, the channel continues the snapshot (`QueuesContinue`),
for a subscriber all of it reaches the last line (`SubscribersWhole`), the buffer
is a run that ends there (`BufferIsTail`), and handlers that have not subscribed
have nothing (`HandlersAgree`). Theorems: `ReplayThenLive`, `NothingLostUnlessCut`,
`BufferHonest`, and `BusImplementsFeed`: under `IInv` a step of the bus is a step
of `OrderedFeed` or leaves it unchanged. `Join`'s count is right because of
`BufferIsTail`; `Deliver`'s next line is the head of the snapshot or the channel
because of `QueuesContinue`.

**ServeLoopProofs.** `TypeCorrect`, and `AttendedTurns` from `HandlersAtHome`:
as long as no shutdown was forced, handlers belong to the generation that
serves or drains, or whose Serve failed. The theorem is about the other two ways to end,
after a shutdown and at the start of a generation.

**AgentLoopProofs.** `Accounts` says, at every point of the loop, how many responses have
been recorded (`RecordedSoFar`) and how much may have been spent (`SpentSoFar`: up to
two summaries beyond the budget between BeforeLLM and the next record); from it follow
`StepsRecorded`, `BudgetFuse` and `CancellationReported`. `ToolStep` says what
each goroutine of a step has left (`CallOK`) and that the semaphore's tokens are
the running goroutines, by the cardinality of their set; from it follow `GoroutinesJoined`
and `DenialsHold`.

The transcript: `Answered` is kept by concatenation, by a suffix that
does not start with a result and by a prefix that ends before a message that is no
result: so by the barrier and by every way of joining rounds. What handleToolCalls
has in hand is a `Block`, an assistant message with the results of its first calls,
which each result lengthens and the placeholders complete. `Transcript` puts both together;
`TranscriptComplete` follows for every history that satisfies `HistoriesAssumption`,
which is what an earlier turn leaves. `RecordsAgree` compares the two records,
counting what handleToolCalls has in hand; it assumes that no hook panics in there, the case
in which `AgentLoop_refuted.cfg` shows them drift apart. `TranscriptLoads` (`SessionLoads`): the pairing check is a recursion along
the transcript. `Pairing` says what it has after k messages: no complaint, and the ids still waiting are those of the
last calls that have no result yet (`Waiting`). In an `Answered` transcript nothing waits before a message that is no result
(`NothingWaitsBefore`), so that an assistant message may bring any distinct ids (`RequestStep`), and every result takes
away the first that waits (`ResultStep`). `LoopTyped` collects the types: what `mergePersisted` makes of messages
are messages, by induction along its filter (`MergeIsTranscript`), and the tool lists have the length of the calls
while goroutines run (`ToolStep`).

**CompactionProofs.** `CompactionInv` says that the transcript is `Sound`: every message is there once, every call is
followed by its result, only summaries stand for others (`Typed`); before a request its last message is the
newest of the session, verbatim, until a retry cuts it (`NewestLast`); what was said is shown by the transcript, or was a head, or was dropped
(`Accounted`); and without a measurement since the last summary no response after that is measured (`Measured`). What
shortens a transcript cuts it at rounds and leaves it `Reduced`: a first part and a last part that is kept whole. What
the strips leave is `Alike`: same messages, same order, other texts; so is what `ContextTrim` leaves. `SummaryMeans` is what `Summarize` makes of a
head, a summary and a tail. Theorems: `CompactionTyped`,
`NewestMessageSeen`, `NothingUnaccounted`, `FoldsAreSuperseded`, `CompactionNotStale`. The last two rest on lemmas about the
model's operators: a fold needs a later call with the same key, whose result follows it (`FoldMeans`, `CallAnswered`); a
transcript that nothing measured is judged by the estimate (`UnmeasuredIsEstimated`).

`RequestsFit` (`RequestFits`) is about a request that was let through on what the endpoint measured some steps
before: that number is of another request, with fewer messages and other strips. `Sized` is what makes it
good enough. The last response measured since the summary was charged at least the overhead and all that the view has now
of the messages up to it (`Gauged`), and the request that is out is no smaller than the view of the transcript
(`Covered`), so that the next response can be charged for it. `Gauged` survives three things. An appended message: the strips look only at what comes
later, and a later message makes them fold and cut more, never less (`StripsGrown`), as long as the placeholders are left
out. A lossy step: each response it keeps is followed by all that followed it before, stripped to the same sizes
(`LossyEnds`), so the last measured one is the last of the old view (`LossyLast`); that view was too large and the new
one is not, hence the difference lies before that response and its usage covers what is left. The one
exception is a response that opens the view, which is why every measured response also has to cover itself (`Billed`).
A summary: nothing counts as measured until the next response (`NothingMeasured`). And a retry, which shortens
messages that were measured before: each of them counts no more than it did, and what was folded or cut because of
others still is (`AlikeFold`, `TrimmedStrips`, `TrimGauged`); its own request is the whole transcript, which covers
the view (`RetriesSized`), and so does the one at the limit (`AsksForSummarySized`). The theorem needs only that the endpoint
reports nothing or at least the local estimate of the request and the response (`Reported`); what happens when the estimate is too high is
not covered.

**StoresProofs.** For session files, `PathLoads` and `SavedIsDurable` say nothing of who may write where. `SessionInv` adds that
who writes holds the lock of the inode it has open (`LocksHeld`), that the
target of the path is one of those a power failure may leave (`PathKnown`), that a temporary
file has no other writer and no name before the rename (`TempsPrivate`), that what a process has still to write is the
rest of a turn or of a transcript (`Todos`, `Writers`), that every file, and whatever a power failure may leave of
it, is a content that loads (`ContentsGood`), and a whole one unless it is being written or its writer was stopped (`Uncut`), and
that a file is synced when it is renamed and a save that waits for the directory is under the path (`Durable`).
`SessionDurable` is about changes whose name reached the directory on disk: a save whose directory sync failed, an
append to a file just created and an append to a replaced inode return nil too, and are not covered. Theorems: `SessionTyped`, `SessionWhole`, `SessionLoadsAgain`,
`SessionDurable`. For the configuration page `ConfigInv` adds to `KeysBelong` that the running
configuration, the file and every save under way hold only keys that were entered for
that provider, or for the server (`Owns`); theorem: `ConfigKeysBelong`. For the remote store `RemoteInv` says, for
each stage of a machine, what it knows and what the server holds then (`Stage`), that only one is
beyond idle (`OneAtATime`), and that the server's transcript has every acknowledged turn, each message once and none
of a turn to come (`StoredSound`); theorem: `RemoteTurnsStay`. Its two assumptions are not promises of the code:
`Guarded` is up to the users, and `RemoteSpec` has no `ServeLate`, a request that is served after its client gave it up.

**EffectsProofs.** File tools: `NoLostEdit` speaks of committed edits only. `OrderInv` adds that
an edit between its read and its rename holds the path's lock (`Held`), which is the
lock of the one it has in hand (`Route`), and that no edit committed since it read
(`Fresh`); that an abandoned worker keeps the lock matters here, since the proof has no case
for callers that left. `AnswersAreTrue` needs that what is in a call's channel is true of its commit
(`SentIsTrue`) and that an answer is what was in the channel (`AnswerIsSent`).

Endpoint calls: `DeltasShownOnce` rests on `AccIsShown`: while a stream is read its
aggregate is exactly what was shown, and outside of one nothing was shown
yet, which is the only case in which the loop goes round. `DropIsNoAnswer` needs no more than that
parseSSE's verdict on a stream that was not ended is an error whenever the aggregate holds text or a tool call. `RequestsCounted` ties requests to attempts.

Shell calls: `GroupGone`: after the caller's kill no process of the group is alive, and
none can come, since only a living leader forks (`LeaderFirst`). For the exit code: the leader's status is final
once it is dead, Wait's answer is made of that status and of the copier's end (`WaitErrSound`), and the pipe
is closed under the copier only when the call is over or cancelled
(`ClosedEarly`); so an answer with a code was given after the copier saw the end of the
pipe, unless the turn was cancelled (`AnswerSound`), and by then everything written was
read (`CopierSound`).

Model-checked only: every liveness property (fairness and ENABLED are out of the prover's
reach). Every invariant and every action property of the passing runs is stated by a theorem.

## 6. Where the code and its documentation disagree

Runs expected to end in a violation, each checking one statement of the sources:

| Run | Statement | What happens |
|---|---|---|
| serve_broken | web.go:102-104, "keeping current config" | `cfg` is already nil when the error is seen, and serveOnce dereferences it. |
| remote_cancel | run_turn.go:177, the executed part is saved "on success, error AND cancel paths" | The remote store is called with the context that the stop cancelled; nothing is sent. |
| compaction_head | compaction/split.go:138, the earliest round is retained | It is put in front of the new summary, and the next step's barrier drops what is in front of a summary; the summary was not told of it. |
| config_mask | web_config.go:26, the placeholder means "leave unchanged" | It is looked up in the running configuration while the form and the save are about the file: a key saved and not yet loaded is replaced by the one before it. |

More statements of the sources that the code does not meet can be seen with the
`<Module>_refuted.cfg` configurations, one property at a time, by hand: with the `MC` module where there is one, with the module itself otherwise; comments in the file say which constants to change.

| Configuration | Property | Statement | What happens |
|---|---|---|---|
| `TurnRegistry` | `RunningTurnsBounded` | README.md:145, `max_concurrent_turns` bounds the turns running at once | The token belongs to the handler; a client that disconnects frees it while its turn runs on. |
| | `ReplayDisjointFromLive` | .agent/L2/decisions/webui-architecture.md §9: file and live replay do not overlap | The file is saved before the slot is released. |
| `TurnStream` | `CleanEndIsComplete` | web_turn.go:162, "turn finished: every buffered line has been drained" | A reader closed for lagging drains its channel, then sees `done` closed by finish, and ends as if complete. |
| | `CutMeansLagged` | web_bus.go:30, `stream_cut` is for lagging readers | Channels are closed before `done`; a reader that looks in between is told it was cut. |
| | `StatusOnlyWithoutEvents` | web_turn.go:180 | A turn that finishes before its poster subscribes is answered with a status. |
| `ServeLoop` | `ReloadComesBack` | web_config.go:131-133, a new generation comes up | serveOnce takes the only token of the channel, runServe then waits on the empty channel: the process neither serves nor exits until it is signalled. |
| | `NeverStraddles` | web.go:90-91 | A turn may register between the reload's count and the shutdown and run on into the next generation, whose registry is empty. |
| | `ShutdownSavesTurns` | README.md:147 | A turn whose client left is neither cancelled nor waited for. |
| | `EveryEndWaits` | – | When Serve fails, `os.Exit(1)` (web.go:157-161) waits for nobody: an attended turn is cut off and not saved. |
| `AgentLoop` | `BilledIsCounted` | compaction/assemble.go:204, both attempts' usage is accumulated | The response burned on reasoning is overwritten with its usage; a failed summary returns no usage. |
| | `NoStartAfterCancel` | loop_tools.go:60-64 | The check before the `select` leaves a window: with both cases ready, Go may pick the slot. |
| | `SessionLoads`, ids repeated in a response | session.go:111-124 | The transcript is saved and does not load again. |
| | `TranscriptIsHistoryPlusNew`, panicking hooks | loop_extra.go | `newMsgs` has the assistant message, `msgs` has not. |
| `Compaction` | `EstimateFits`, placeholders longer than what they fold | compaction/budget.go:65-66, "error if still over" | What was measured stands for the messages before it, and a short result that is folded afterwards grows: the request goes out on the old measurement while its estimate is above four fifths of the window. |
| | `EveryRequestFits` | – | The retry after a context error (loop.go:155-173) and the summary at the limit (loop.go:87-90) send the whole transcript, without barrier, strips or size check. |
| | `RetryIsTighter` | policy/history_util.go:21, "tightens history" | The retry sends the transcript and not its view: after a summary it has the head that the barrier hides, and the results that the strips folded, and may be larger than the request the endpoint refused. |
| `SessionFile` | `TrimDropsOnlyIncomplete` | session.go:232, "incomplete line" | A line that lacks only its newline is loaded, and cut off by the next append. |
| | `AckedAppendIsThere` | – | A waiter on the lock of the old inode appends to it after the rename and returns nil. |
| `RemoteSession` | `AckedTurnsStay`, late requests or two machines at once | – | A request given up arrives after the next turn's save; two machines overwrite each other: there is no version on a PUT. |
| | `NotResurrected` | – | Another machine's save meets a 404 and creates the deleted session again. |
| `ChatCall` | `PartialKept` | stream.go:206 | A reset between two lines returns an empty response after text was shown. |
| | `NoTruncatedToolCall` | stream.go:211 | With text before it, a tool call with truncated arguments is returned. |
| | `OkIsEnded` | stream_parse.go:130-133, a closed connection is not "a silent success" | After the role chunk alone it is, as an empty answer. |
| | `OkIsWhole` | – | A finish_reason "length" or [DONE] in the middle of a tool call returns its truncated arguments as a complete answer. |
| `ShellRun` | `NoStrangerKilled` | – | The kills after Wait may reach a recycled pid. |
| | `PromptCancel` | – | A cancelled call with a daemon on its pipe waits for the rest of its timeout, and two seconds. |
| `FileTools` | `NoLostWrite` | tool_edit.go:20, write needs no lock | An edit that read before a write renames after it: both answer ok, the written content is gone. |
| | `TimeoutIsFinal` | – | The abandoned worker may commit after the answer. |

`ReloadComesBack` shadows what happens after a reload. The model reaches a second
generation where the code can, when a second reload's token was sent between serveOnce's receive
and the end of its handlers.

Seen while reading, not part of a model: a deleted session's tool output directory is
looked up under another name than the one turns write (web_sessions.go:235,
run_turn.go:144); an error of runTurn after the session event ends the stream without
a terminal event (run_turn.go:135); `turn_finished` is sent after the slot is free, so
the next `turn_started` may overtake it (web_turn.go:122), and the hub drops events for laggards; an
open `/api/events` makes every shutdown last its 5 seconds (web.go:148); LoadSession takes no
lock, so that it can read between an append's trim and its write; AppendMessages does not sync the directory of a
file it creates; a cancelled command whose leader had exited 0 answers ok; dedupReadResults folds
a good result in favour of a later failed one; shellCmdKey lowercases, so that commands that differ in case count as the same;
after a lossy step whose request fails, the usage of before forces another compaction; renaming a provider in the
form to the name of another one, with the key masked, takes over that one's key.

## 7. What is not modelled

- The lifecycle feed (`lifeHub`, `GET /api/events`) and the browser (`app.js`): the hub is a
  broadcast with drops, `TurnStream` without replay; its only consumer is the display of what runs.
- The sliding output window of the tools, and read, glob, grep, ast and web tools: sequential
  functions of their arguments and the working tree, with unit tests; they share `runWithTimeout` with the
  file tools, which `FileTools` models.
- Listing of remote sessions and the client's AppendMessages, which nothing calls.
- The Windows lock and process handling: the models are of the Unix files.
- Guard, tree and models endpoints, start-up and resolution of the configuration, flags, events,
  metrics, formatting, scripts, deployment: stateless or once per process.
- Composition of `TurnRegistry` with `TurnStream`: the registry knows a turn's bus as its entry only, and
  the properties that would need both (what a client that loads and attaches sees twice) are stated over
  the registry (`ReplayDisjointFromLive`).
- The summarizer's own request: `Compaction` has what it is told (`ToldBefore`) and what it answers, not its size. The
  mark that a cut result ends with is counted within `TrimCap`.
- Data: texts, names and JSON are model values; sizes are small numbers in the unit the limit counts.

## 8. What could follow

1. `LifeFeed`: the hub with its bounded channels, the order of its events against the
   registry, and the dots the browser derives.
2. `TurnRegistry` and `TurnStream` composed, with events by their kinds: terminal line, save and replay.
