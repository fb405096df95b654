------------------------------ MODULE ShellRun ------------------------------
(***************************************************************************)
(* One call of the shell tool: miniagent/tools/tool_shell.go               *)
(* (runShellCommand, runShellLimited), run_limited.go (waitOutputTimeout)  *)
(* and platform.go (setPGID, killProcessGroup), with the goroutines of     *)
(* os/exec it relies on.                                                   *)
(*                                                                         *)
(* sh is the leader of its process group; it may start a background child  *)
(* in the group and a daemon that left it with setsid.  All inherit the    *)
(* output pipe unless redirected.  A copier (os/exec) moves the bytes of   *)
(* the OS pipe to an io.Pipe, which the caller drains until it is closed.  *)
(* The killer waits for the context, the watcher is exec.CommandContext's, *)
(* the waiter is in cmd.Wait.                                              *)
(***************************************************************************)
EXTENDS Naturals, FiniteSets

CONSTANTS
  MaxBytes,     \* bytes the command writes, at most
  ExitCodes,    \* codes the leader may exit with, a byte each
  Recycles      \* the system may give the leader's pid to another process

ASSUME ShellRunAssumption ==
  /\ MaxBytes \in Nat
  /\ ExitCodes \subseteq 0..255 /\ 0 \in ExitCodes
  /\ Recycles \in BOOLEAN

VARIABLES
  caller,      \* where runShellLimited is
  proc,        \* the processes: what each does with the pipe
  status,      \* the leader's exit: NotSet, a code, Signalled
  reaped,      \* the leader has been waited for
  stranger,    \* the process that got its pid
  written,     \* bytes written to the OS pipe
  copier,      \* "read", "write", "eof", "failed"
  copied,      \* bytes the copier has taken from it
  read,        \* bytes the caller has read
  pipeClosed,  \* pw.Close was called
  killer, watcher, waiter,  \* the three goroutines
  waitErr,     \* what cmd.Wait returned, in the channel of capacity one
  runErr,      \* what waitOutputTimeout returned
  parentDone,  \* the turn's context is cancelled
  expired,     \* the shell's own timeout is over
  result       \* the ToolResult

shellVars ==
  <<caller, proc, status, reaped, stranger, written, copier, copied, read, pipeClosed,
    killer, watcher, waiter, waitErr, runErr, parentDone, expired, result>>

osVars   == <<proc, status, reaped, stranger, written>>
pipeVars == <<copier, copied, read, pipeClosed>>
goVars   == <<killer, watcher, waiter, waitErr>>
callerVars == <<caller, runErr, result>>
ctxVars  == <<parentDone, expired>>

Processes == {"leader", "child", "daemon"}
Group     == {"leader", "child"}
NotSet    == 1000      \* miniagent.ExitCodeNotSet
Signalled == 1001
NoResult  == [kind |-> "none", code |-> NotSet]

Alive(p) == proc[p] \in {"holding", "redirected"}
Holders  == {p \in Processes : proc[p] = "holding"}

\* The context of the command: the turn's, the timeout, and the deferred cancel.
RunDone  == parentDone \/ expired \/ caller = "returned"

ShellInit ==
  /\ caller = "start"
  /\ proc = [p \in Processes |-> "absent"]
  /\ status = NotSet /\ reaped = FALSE /\ stranger = "none"
  /\ written = 0 /\ copier = "read" /\ copied = 0 /\ read = 0
  /\ pipeClosed = FALSE
  /\ killer = "waiting" /\ watcher = "waiting" /\ waiter = "leader"
  /\ waitErr = "none" /\ runErr = "none"
  /\ parentDone = FALSE /\ expired = FALSE
  /\ result = NoResult

(***************************************************************************)
(* The processes.                                                          *)
(***************************************************************************)
Fork(p, how) ==
  /\ Alive("leader") /\ p # "leader" /\ proc[p] = "absent"
  /\ how \in {"holding", "redirected"}
  /\ proc' = [proc EXCEPT ![p] = how]
  /\ UNCHANGED <<status, reaped, stranger, written, pipeVars, goVars, callerVars, ctxVars>>

\* With the read end closed the bytes are lost and the writer dies of SIGPIPE.
WriteOut(p) ==
  /\ proc[p] = "holding"
  /\ copier \in {"read", "write"}
  /\ written < MaxBytes
  /\ written' = written + 1
  /\ UNCHANGED <<proc, status, reaped, stranger, pipeVars, goVars, callerVars, ctxVars>>

Exit(p, code) ==
  /\ Alive(p)
  /\ proc' = [proc EXCEPT ![p] = "dead"]
  /\ status' = IF p = "leader" THEN code ELSE status
  /\ UNCHANGED <<reaped, stranger, written, pipeVars, goVars, callerVars, ctxVars>>

\* Once nothing is left of the group its id is free.
Recycle ==
  /\ Recycles
  /\ reaped /\ proc["child"] \in {"absent", "dead"}
  /\ stranger = "none"
  /\ stranger' = "alive"
  /\ UNCHANGED <<proc, status, reaped, written, pipeVars, goVars, callerVars, ctxVars>>

\* Mutant: without setpgid the signal reaches sh alone.
KillLeader ==
  /\ proc' = IF Alive("leader") THEN [proc EXCEPT !["leader"] = "dead"] ELSE proc
  /\ status' = IF Alive("leader") THEN Signalled ELSE status
  /\ UNCHANGED <<stranger, reaped, written>>

\* kill(-pgid, SIGKILL), and kill(pgid, SIGKILL) when there is no such group.
KillGroup ==
  /\ proc' = [p \in Processes |-> IF p \in Group /\ Alive(p) THEN "dead" ELSE proc[p]]
  /\ status' = IF Alive("leader") THEN Signalled ELSE status
  /\ stranger' = IF stranger = "alive" THEN "killed" ELSE stranger
  /\ UNCHANGED <<reaped, written>>

(***************************************************************************)
(* os/exec: the copier, the watcher and Wait.                              *)
(***************************************************************************)
Running == caller # "start"

CopierReads ==
  /\ Running /\ copier = "read"
  /\ \/ /\ copied < written
        /\ \E n \in (copied + 1)..written : copied' = n
        /\ copier' = "write"
     \/ /\ copied = written /\ Holders = {}
        /\ copier' = "eof"
        /\ UNCHANGED copied
  /\ UNCHANGED <<osVars, read, pipeClosed, goVars, callerVars, ctxVars>>

\* io.Pipe is a rendezvous with the reader, refused once it is closed.
CopierWrites ==
  /\ copier = "write"
  /\ \/ /\ ~pipeClosed /\ caller = "drain"
        /\ read' = copied /\ copier' = "read"
     \/ /\ pipeClosed
        /\ copier' = "failed"
        /\ UNCHANGED read
  /\ UNCHANGED <<osVars, copied, pipeClosed, goVars, callerVars, ctxVars>>

\* The watcher kills the leader alone.  Wait reports the context's error when the
\* signal could be sent: until the leader is reaped.
WatcherKills ==
  /\ Running /\ watcher = "waiting" /\ RunDone
  /\ proc' = IF Alive("leader") THEN [proc EXCEPT !["leader"] = "dead"] ELSE proc
  /\ status' = IF Alive("leader") THEN Signalled ELSE status
  /\ watcher' = IF reaped THEN "late" ELSE "killed"
  /\ UNCHANGED <<reaped, stranger, written, pipeVars, killer, waiter, waitErr, callerVars, ctxVars>>

WaiterReaps ==
  /\ Running /\ waiter = "leader" /\ proc["leader"] = "dead"
  /\ reaped' = TRUE
  /\ waiter' = "watcher"
  /\ UNCHANGED <<proc, status, stranger, written, pipeVars, killer, watcher, waitErr, callerVars, ctxVars>>

\* The leader's own failure comes first, then the watcher's, then the copier's.
LeaderErr == IF status = 0 THEN "none" ELSE IF status = Signalled THEN "signal" ELSE "exit"

WaiterJoinsWatcher ==
  /\ waiter = "watcher"
  /\ watcher' = "joined"
  /\ waiter' = IF watcher = "killed" /\ status = 0 THEN "copier-ctx" ELSE "copier"
  /\ UNCHANGED <<osVars, pipeVars, killer, waitErr, callerVars, ctxVars>>

\* Mutant: the copier's error is not looked at.
WaiterForgetsCopier ==
  /\ waiter \in {"copier", "copier-ctx"} /\ copier \in {"eof", "failed"}
  /\ waitErr' = IF LeaderErr # "none" THEN LeaderErr
                ELSE IF waiter = "copier-ctx" THEN "ctx" ELSE "clean"
  /\ waiter' = "close"
  /\ UNCHANGED <<osVars, pipeVars, killer, watcher, callerVars, ctxVars>>

WaiterJoinsCopier ==
  /\ waiter \in {"copier", "copier-ctx"} /\ copier \in {"eof", "failed"}
  /\ waitErr' = IF LeaderErr # "none" THEN LeaderErr
                ELSE IF waiter = "copier-ctx" THEN "ctx"
                ELSE IF copier = "failed" THEN "closed"
                ELSE "clean"
  /\ waiter' = "close"
  /\ UNCHANGED <<osVars, pipeVars, killer, watcher, callerVars, ctxVars>>

WaiterCloses ==
  /\ waiter = "close"
  /\ waiter' = "done" /\ pipeClosed' = TRUE
  /\ UNCHANGED <<osVars, copier, copied, read, killer, watcher, waitErr, callerVars, ctxVars>>

(***************************************************************************)
(* The killer goroutine of runShellLimited.                                *)
(***************************************************************************)
KillerKills ==
  /\ Running /\ killer = "waiting" /\ RunDone
  /\ killer' = "close"
  /\ KillGroup
  /\ UNCHANGED <<pipeVars, watcher, waiter, waitErr, callerVars, ctxVars>>

KillerCloses ==
  /\ killer = "close"
  /\ killer' = "done" /\ pipeClosed' = TRUE
  /\ UNCHANGED <<osVars, copier, copied, read, watcher, waiter, waitErr, callerVars, ctxVars>>

(***************************************************************************)
(* The caller.                                                             *)
(***************************************************************************)
StartShell ==
  /\ caller = "start" /\ ~RunDone
  /\ caller' = "drain"
  /\ proc' = [proc EXCEPT !["leader"] = "holding"]
  /\ UNCHANGED <<status, reaped, stranger, written, pipeVars, goVars, runErr, result, ctxVars>>

\* No such shell, no such directory, or the context is over already.
StartFails ==
  /\ caller = "start"
  /\ caller' = "returned"
  /\ result' = [kind |-> IF expired /\ ~parentDone THEN "timeout" ELSE "failed", code |-> NotSet]
  /\ UNCHANGED <<osVars, pipeVars, goVars, runErr, ctxVars>>

DrainEnds ==
  /\ caller = "drain" /\ pipeClosed
  /\ caller' = "wait"
  /\ UNCHANGED <<osVars, pipeVars, goVars, runErr, result, ctxVars>>

WaitAnswers ==
  /\ caller = "wait" /\ waitErr # "none"
  /\ runErr' = waitErr
  /\ caller' = "kill"
  /\ UNCHANGED <<osVars, pipeVars, goVars, result, ctxVars>>

\* Mutant: the timer is only armed when the turn was cancelled.
GivesUpIfCancelled ==
  /\ caller = "wait" /\ expired /\ parentDone
  /\ runErr' = "held"
  /\ caller' = "kill"
  /\ UNCHANGED <<osVars, pipeVars, goVars, result, ctxVars>>

\* waitOutputTimeout: two seconds after what is left of the timeout.
GivesUp ==
  /\ caller = "wait" /\ expired
  /\ runErr' = "held"
  /\ caller' = "kill"
  /\ UNCHANGED <<osVars, pipeVars, goVars, result, ctxVars>>

KillsRest ==
  /\ caller = "kill"
  /\ caller' = "classify"
  /\ KillGroup
  /\ UNCHANGED <<pipeVars, goVars, runErr, result, ctxVars>>

\* runShellCommand after runShellLimited.
Classify ==
  /\ caller = "classify"
  /\ caller' = "returned"
  /\ result' =
       IF ~parentDone /\ expired THEN [kind |-> "timeout", code |-> NotSet]
       ELSE CASE runErr = "clean"  -> [kind |-> "ok", code |-> 0]
              [] runErr = "exit"   -> [kind |-> "ok", code |-> status]
              [] runErr = "signal" -> [kind |-> "signal", code |-> NotSet]
              [] OTHER             -> [kind |-> "failed", code |-> NotSet]
  /\ UNCHANGED <<osVars, pipeVars, goVars, runErr, ctxVars>>

CancelShell ==
  /\ ~parentDone /\ caller # "returned"
  /\ parentDone' = TRUE
  /\ UNCHANGED <<osVars, pipeVars, goVars, callerVars, expired>>

Expire ==
  /\ ~expired /\ caller # "returned"
  /\ expired' = TRUE
  /\ UNCHANGED <<osVars, pipeVars, goVars, callerVars, parentDone>>

CallerSteps ==
  \/ StartShell \/ StartFails \/ DrainEnds \/ WaitAnswers \/ GivesUp
  \/ KillsRest \/ Classify

GoroutineSteps ==
  \/ CopierReads \/ CopierWrites \/ WatcherKills \/ WaiterReaps \/ WaiterJoinsWatcher
  \/ WaiterJoinsCopier \/ WaiterCloses \/ KillerKills \/ KillerCloses

ShellNext ==
  \/ CallerSteps \/ GoroutineSteps
  \/ \E p \in Processes :
       \/ \E how \in {"holding", "redirected"} : Fork(p, how)
       \/ WriteOut(p)
       \/ \E code \in ExitCodes : Exit(p, code)
  \/ Recycle \/ CancelShell \/ Expire

ShellSpec == ShellInit /\ [][ShellNext]_shellVars

(***************************************************************************)
(* Properties.                                                             *)
(***************************************************************************)

\* Types of the variables.
ShellTypeOK ==
  /\ caller \in {"start", "drain", "wait", "kill", "classify", "returned"}
  /\ proc \in [Processes -> {"absent", "holding", "redirected", "dead"}]
  /\ status \in ExitCodes \cup {NotSet, Signalled} /\ reaped \in BOOLEAN
  /\ stranger \in {"none", "alive", "killed"}
  /\ copied \in 0..written /\ read \in 0..copied /\ written \in 0..MaxBytes
  /\ copier \in {"read", "write", "eof", "failed"} /\ pipeClosed \in BOOLEAN
  /\ killer \in {"waiting", "close", "done"}
  /\ watcher \in {"waiting", "killed", "late", "joined"}
  /\ waiter \in {"leader", "watcher", "copier", "copier-ctx", "close", "done"}
  /\ waitErr \in {"none", "clean", "exit", "signal", "ctx", "closed"}
  /\ runErr \in {"none", "clean", "exit", "signal", "ctx", "closed", "held"}
  /\ parentDone \in BOOLEAN /\ expired \in BOOLEAN
  /\ result.kind \in {"none", "ok", "timeout", "signal", "failed"}

\* When the tool answers nothing of the command's process group runs any more,
\* whichever of the exit, the timeout and the cancellation came first
\* (platform.go:13: the whole tree spawned by sh -c).
NoGroupSurvivor == result.kind # "none" => \A p \in Group : ~Alive(p)

\* An exit code is only reported for a command that ended by itself, with that
\* code, and whose whole output was read; a zero even when the turn was
\* cancelled meanwhile (the pipe may be closed on unread output at any time).
CodeIsTrustworthy ==
  result.kind = "ok" =>
    /\ result.code = status
    /\ (~parentDone \/ result.code = 0) => read = written

\* The kills reach the command's own processes and no other.  It fails when the
\* system recycles the pid: the last kill of the caller, and the killer's, which
\* the deferred cancel wakes after the call, signal whoever has it by then.
NoStrangerKilled == stranger # "killed"

(***************************************************************************)
(* Fairness: the goroutines and the caller take their steps and the        *)
(* timeout passes; the command owes nothing.                               *)
(***************************************************************************)
GoroutineFairness ==
  /\ WF_shellVars(CopierReads) /\ WF_shellVars(CopierWrites)
  /\ WF_shellVars(WatcherKills) /\ WF_shellVars(WaiterReaps) /\ WF_shellVars(WaiterJoinsWatcher)
  /\ WF_shellVars(WaiterJoinsCopier) /\ WF_shellVars(WaiterCloses)
  /\ WF_shellVars(KillerKills) /\ WF_shellVars(KillerCloses)
  /\ WF_shellVars(CallerSteps)

ShellFairness == GoroutineFairness /\ WF_shellVars(Expire)

ShellNoTimeout == ShellSpec /\ GoroutineFairness

\* The tool always answers, even when a daemon keeps the pipe open for ever
\* (run_limited.go:15).
ShellReturns == (caller = "drain") ~> (caller = "returned")

\* A cancelled call answers without waiting for its timeout.  It fails: with a
\* daemon on the pipe it waits for the rest of the timeout, and two seconds.
PromptCancel == (caller = "drain" /\ parentDone) ~> (caller = "returned" \/ expired)
=============================================================================
