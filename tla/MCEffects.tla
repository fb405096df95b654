----------------------------- MODULE MCEffects -----------------------------
(* What a step of a turn does, one of them in a behaviour: prepare the      *)
(* context, call the endpoint, run a shell command, or a group of file      *)
(* tools.  They share nothing but the context that cancels them.            *)
EXTENDS MCCompaction, ChatCall, ShellRun, MCFileTools

VARIABLE effect

effectVars == <<effect, compactionVars, callVars, shellVars, fileVars>>

\* A part that is not in use has nothing left to do.
NoCall ==
  /\ mode = "chat" /\ lax = FALSE /\ callAt = "returned" /\ attempt = 0 /\ requests = 0
  /\ ctxEnded = FALSE /\ acc = Fresh0 /\ sent = 0 /\ shown = <<>> /\ outcome = Nothing

NoShell ==
  /\ caller = "returned" /\ proc = [p \in Processes |-> "absent"]
  /\ status = NotSet /\ reaped = FALSE /\ stranger = "none"
  /\ written = 0 /\ copier = "eof" /\ copied = 0 /\ read = 0 /\ pipeClosed = TRUE
  /\ killer = "done" /\ watcher = "joined" /\ waiter = "done"
  /\ waitErr = "none" /\ runErr = "none"
  /\ parentDone = FALSE /\ expired = FALSE /\ result = NoResult

EffectsInit ==
  \/ effect = "context" /\ CompactionInit /\ NoCall /\ NoShell /\ FileInit
  \/ effect = "call"  /\ CompactionInit /\ CallInit /\ NoShell /\ FileInit
  \/ effect = "shell" /\ CompactionInit /\ NoCall /\ ShellInit /\ FileInit
  \/ effect = "files" /\ CompactionInit /\ NoCall /\ NoShell /\ FileInit

EffectsNext ==
  /\ UNCHANGED effect
  /\ \/ effect = "context" /\ CompactionNext /\ UNCHANGED <<callVars, shellVars, fileVars>>
     \/ effect = "call"  /\ CallNext  /\ UNCHANGED <<compactionVars, shellVars, fileVars>>
     \/ effect = "shell" /\ ShellNext /\ UNCHANGED <<compactionVars, callVars, fileVars>>
     \/ effect = "files" /\ FileNext  /\ UNCHANGED <<compactionVars, callVars, shellVars>>

EffectsSpec ==
  /\ EffectsInit /\ [][EffectsNext]_effectVars
  /\ CallFairness /\ ShellFairness /\ FileFairness
=============================================================================
