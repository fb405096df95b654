----------------------------- MODULE FileTools -----------------------------
(***************************************************************************)
(* Parallel calls of the edit and write tools on one file:                 *)
(* miniagent/tools/tool_edit.go, tool_write.go and tool_timeout.go.        *)
(*                                                                         *)
(* Each call is a caller, in the select of runWithTimeout, and a worker    *)
(* goroutine that it may abandon but cannot stop.  An edit holds the lock  *)
(* of the path from before it reads the file until after its rename; a     *)
(* write takes no lock.  The content is a sequence of fragments; an edit   *)
(* replaces one fragment by a sequence of them.                            *)
(***************************************************************************)
EXTENDS Naturals, Sequences, SequencesExt

CONSTANTS
  Calls,         \* the tool calls
  Op(_),         \* what each asks for: [kind |-> "edit", edits |-> ...] or
                 \* [kind |-> "write", content |-> ...]
  Initial,       \* the content of the file
  MaxFileSize,   \* maxEditFileBytes and maxWriteFileBytes, in fragments
  NoOne,         \* the lock is free
  Refused        \* the edits do not apply

ASSUME FileToolsAssumption ==
  /\ MaxFileSize \in Nat
  /\ NoOne \notin Calls
  /\ \A c \in Calls : Op(c).kind \in {"edit", "write"}

VARIABLES
  callAnswer,   \* per call: "none", "ok", "error", "timeout", "cancelled"
  callPhase,    \* per call: "idle", "waiting", "grace", "answered"
  workerAt,     \* per call: where its worker is
  workerSent,   \* per call: the result in its channel
  turnDone,     \* the turn's context is cancelled
  lockedBy,     \* pathLocks: the holder of the path's mutex
  file,         \* the content of the file
  data,         \* per call: what its worker is about to write
  temps,        \* the calls whose .write-*.tmp exists
  commits,      \* the calls in the order of their renames
  sawCommits    \* per edit: how many there were when it read the file

fileVars ==
  <<callAnswer, callPhase, workerAt, workerSent, turnDone, lockedBy, file, data,
    temps, commits, sawCommits>>

answerVars == <<callAnswer, callPhase, turnDone>>
diskVars    == <<file, temps, commits>>

Edits  == {c \in Calls : Op(c).kind = "edit"}

FileInit ==
  /\ callAnswer = [c \in Calls |-> "none"]
  /\ callPhase = [c \in Calls |-> "idle"]
  /\ workerAt = [c \in Calls |-> "none"]
  /\ workerSent = [c \in Calls |-> "none"]
  /\ turnDone = FALSE
  /\ lockedBy = NoOne
  /\ file = Initial
  /\ data = [c \in Calls |-> <<>>]
  /\ temps = {} /\ commits = <<>>
  /\ sawCommits = [c \in Calls |-> 0]

(***************************************************************************)
(* checkEditSize and applyOne, and the fold of applyEdits.                 *)
(***************************************************************************)
Hits(content, old) == Len(SelectSeq(content, LAMBDA f : f = old))

Estimate(content, e) ==
  Len(content) + (IF e.all THEN Hits(content, e.old) ELSE 1) * Len(e.new)
    - (IF e.all THEN Hits(content, e.old) ELSE 1)

ReplaceHits(content, e) ==
  FlattenSeq([i \in 1..Len(content) |->
                IF content[i] = e.old THEN e.new ELSE <<content[i]>>])

ApplyOne(content, e) ==
  IF \/ content = Refused
     \/ Estimate(content, e) > MaxFileSize
     \/ Hits(content, e.old) = 0
     \/ ~e.all /\ Hits(content, e.old) > 1
  THEN Refused
  ELSE ReplaceHits(content, e)

ApplyEdits(content, edits) == FoldLeft(ApplyOne, content, edits)

(***************************************************************************)
(* The caller: runWithTimeout.                                             *)
(***************************************************************************)
AnswerWith(c, a) ==
  /\ callPhase' = [callPhase EXCEPT ![c] = "answered"]
  /\ callAnswer' = [callAnswer EXCEPT ![c] = a]

BeginCall(c) ==
  /\ callPhase[c] = "idle"
  /\ IF turnDone
     THEN AnswerWith(c, "cancelled") /\ UNCHANGED workerAt
     ELSE /\ callPhase' = [callPhase EXCEPT ![c] = "waiting"]
          /\ workerAt' = [workerAt EXCEPT ![c] = "check"]
          /\ UNCHANGED callAnswer
  /\ UNCHANGED <<workerSent, turnDone, lockedBy, data, sawCommits, diskVars>>

TakeResult(c) ==
  /\ callPhase[c] \in {"waiting", "grace"}
  /\ workerSent[c] # "none"
  /\ AnswerWith(c, workerSent[c])
  /\ UNCHANGED <<workerAt, workerSent, turnDone, lockedBy, data, sawCommits, diskVars>>

\* The context is done: the turn is cancelled, or the timeout of the call is over
\* and two more seconds are granted.
SeesCancel(c) ==
  /\ callPhase[c] = "waiting" /\ turnDone
  /\ AnswerWith(c, "cancelled")
  /\ UNCHANGED <<workerAt, workerSent, turnDone, lockedBy, data, sawCommits, diskVars>>

SeesTimeout(c) ==
  /\ callPhase[c] = "waiting" /\ ~turnDone
  /\ callPhase' = [callPhase EXCEPT ![c] = "grace"]
  /\ UNCHANGED <<callAnswer, workerAt, workerSent, turnDone, lockedBy, data, sawCommits, diskVars>>

GraceEnds(c) ==
  /\ callPhase[c] = "grace"
  /\ AnswerWith(c, "timeout")
  /\ UNCHANGED <<workerAt, workerSent, turnDone, lockedBy, data, sawCommits, diskVars>>

CancelCalls ==
  /\ ~turnDone
  /\ turnDone' = TRUE
  /\ UNCHANGED <<callAnswer, callPhase, workerAt, workerSent, lockedBy, data, sawCommits, diskVars>>

(***************************************************************************)
(* The worker.  Leaving runEditFile releases the lock; then the result is  *)
(* sent, into a channel of capacity one.                                   *)
(***************************************************************************)
Leave(c, r) ==
  /\ workerAt' = [workerAt EXCEPT ![c] = "done"]
  /\ workerSent' = [workerSent EXCEPT ![c] = r]
  /\ lockedBy' = IF lockedBy = c THEN NoOne ELSE lockedBy

Goto(c, pc) ==
  /\ workerAt' = [workerAt EXCEPT ![c] = pc]
  /\ UNCHANGED <<workerSent, lockedBy>>

\* Arguments, Lstat, regular file, size; for a write, the parent directories.
Check(c) ==
  /\ workerAt[c] = "check"
  /\ IF Op(c).kind = "edit" THEN Goto(c, "lock") /\ UNCHANGED data
     ELSE IF Len(Op(c).content) > MaxFileSize \/ Op(c).content = <<>>
     THEN Leave(c, "error") /\ UNCHANGED data
     ELSE Goto(c, "temp") /\ data' = [data EXCEPT ![c] = Op(c).content]
  /\ UNCHANGED <<answerVars, sawCommits, diskVars>>

\* Mutant: a failed fsync of the directory is reported.
FileStepFailsLate(c) ==
  /\ workerAt[c] \in {"check", "read", "temp", "fill", "rename", "sync"}
  /\ Leave(c, "error")
  /\ temps' = temps \ {c}
  /\ UNCHANGED <<answerVars, data, sawCommits, file, commits>>

\* A step on the file system fails: before the temporary file exists, or with
\* it, and then it is removed.
FileStepFails(c) ==
  /\ workerAt[c] \in {"check", "read", "temp", "fill", "rename"}
  /\ Leave(c, "error")
  /\ temps' = temps \ {c}
  /\ UNCHANGED <<answerVars, data, sawCommits, file, commits>>

Lock(c) ==
  /\ workerAt[c] = "lock" /\ lockedBy = NoOne
  /\ workerAt' = [workerAt EXCEPT ![c] = "read"]
  /\ lockedBy' = c
  /\ UNCHANGED <<answerVars, workerSent, data, sawCommits, diskVars>>

\* Mutant: the lock is held for the read only.
ReadThenUnlock(c) ==
  LET updated == ApplyEdits(file, Op(c).edits) IN
  /\ workerAt[c] = "read"
  /\ sawCommits' = [sawCommits EXCEPT ![c] = Len(commits)]
  /\ IF updated = Refused THEN Leave(c, "error") /\ UNCHANGED data
     ELSE /\ workerAt' = [workerAt EXCEPT ![c] = "temp"]
          /\ lockedBy' = NoOne
          /\ data' = [data EXCEPT ![c] = updated]
          /\ UNCHANGED workerSent
  /\ UNCHANGED <<answerVars, diskVars>>

ReadAndEdit(c) ==
  LET updated == ApplyEdits(file, Op(c).edits) IN
  /\ workerAt[c] = "read"
  /\ sawCommits' = [sawCommits EXCEPT ![c] = Len(commits)]
  /\ IF updated = Refused THEN Leave(c, "error") /\ UNCHANGED data
     ELSE Goto(c, "temp") /\ data' = [data EXCEPT ![c] = updated]
  /\ UNCHANGED <<answerVars, diskVars>>

\* writeFileAtomic
MakeTemp(c) ==
  /\ workerAt[c] = "temp"
  /\ Goto(c, "fill")
  /\ temps' = temps \cup {c}
  /\ UNCHANGED <<answerVars, data, sawCommits, file, commits>>

FillTemp(c) ==
  /\ workerAt[c] = "fill"
  /\ Goto(c, "rename")
  /\ UNCHANGED <<answerVars, data, sawCommits, diskVars>>

RenameTemp(c) ==
  /\ workerAt[c] = "rename"
  /\ Goto(c, "sync")
  /\ file' = data[c]
  /\ temps' = temps \ {c}
  /\ commits' = Append(commits, c)
  /\ UNCHANGED <<answerVars, data, sawCommits>>

\* fsync of the directory, its failure ignored.
SyncParent(c) ==
  /\ workerAt[c] = "sync"
  /\ Leave(c, "ok")
  /\ UNCHANGED <<answerVars, data, sawCommits, diskVars>>

CallerStep(c) == TakeResult(c) \/ SeesCancel(c) \/ SeesTimeout(c) \/ GraceEnds(c)

WorkerStep(c) ==
  \/ Check(c) \/ FileStepFails(c) \/ Lock(c) \/ ReadAndEdit(c)
  \/ MakeTemp(c) \/ FillTemp(c) \/ RenameTemp(c) \/ SyncParent(c)

FileNext ==
  \/ \E c \in Calls : BeginCall(c) \/ CallerStep(c) \/ WorkerStep(c)
  \/ CancelCalls

FileSpec == FileInit /\ [][FileNext]_fileVars

(***************************************************************************)
(* Properties.                                                             *)
(***************************************************************************)

\* Types of the variables.
FileTypeOK ==
  /\ callAnswer \in [Calls -> {"none", "ok", "error", "timeout", "cancelled"}]
  /\ callPhase \in [Calls -> {"idle", "waiting", "grace", "answered"}]
  /\ workerAt \in [Calls -> {"none", "check", "lock", "read", "temp", "fill", "rename",
                             "sync", "done"}]
  /\ workerSent \in [Calls -> {"none", "ok", "error"}]
  /\ turnDone \in BOOLEAN
  /\ lockedBy \in Calls \cup {NoOne}
  /\ temps \subseteq Calls /\ commits \in Seq(Calls)
  /\ sawCommits \in [Calls -> Nat]

\* Parallel edits of one file never overwrite each other, abandoned ones
\* included: nothing an edit has committed is missing from what the next edit
\* started from (tool_edit.go:18).
NoLostEdit ==
  \A i \in 1..Len(commits) :
    commits[i] \in Edits =>
      \A j \in (sawCommits[commits[i]] + 1)..(i - 1) : commits[j] \notin Edits

\* The answer of a call tells what it did to the file: ok only with its rename
\* done, error only when nothing of it was or will be written, its temporary
\* file removed, whatever segment or step failed.
AnswerIsTrue ==
  \A c \in Calls :
    /\ callAnswer[c] = "ok" => \E i \in 1..Len(commits) : commits[i] = c
    /\ callAnswer[c] = "error" =>
         /\ workerAt[c] = "done" /\ c \notin temps
         /\ \A i \in 1..Len(commits) : commits[i] # c

\* The file never grows past the limit, however the replacements multiply.
SizeBounded == Len(file) <= MaxFileSize

\* tool_edit.go:20: write is an atomic overwrite and needs no lock.  It fails:
\* an edit that read the file before a write renames after it, both answer ok,
\* and the written content is gone.
NoLostWrite ==
  \A i \in 1..Len(commits) :
    commits[i] \in Edits => sawCommits[commits[i]] = i - 1

\* A call that answered with a timeout is over.  It fails: its worker goes on
\* and may still commit, over what was written after the answer.
TimeoutIsFinal ==
  [][\A c \in Calls : callAnswer[c] = "timeout" => UNCHANGED file]_fileVars

(***************************************************************************)
(* Fairness: the caller's select and its timers, never the worker, which a *)
(* hung file system may hold for ever.                                     *)
(***************************************************************************)
FileFairness == \A c \in Calls : WF_fileVars(CallerStep(c))

\* Every call answers, also behind a lock whose holder hangs (tool_timeout.go:11).
FileCallReturns ==
  \A c \in Calls : (callPhase[c] = "waiting") ~> (callPhase[c] = "answered")
=============================================================================
