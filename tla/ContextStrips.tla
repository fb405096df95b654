---------------------------- MODULE ContextStrips ----------------------------
(***************************************************************************)
(* What applyContextStrips (miniagent/compaction) does to the messages of  *)
(* one request: the reasoning of all but the latest responses is cleared,  *)
(* long reasoning is cut, large write arguments are shortened, and results *)
(* and arguments that a later call supersedes are folded to a marker.      *)
(*                                                                         *)
(* A message keeps the sizes that count against the window, in tokens.     *)
(* The tool call of a response is a record [name, on, part]: the file and  *)
(* the offset of a read, the command and the spelling of a shell call.  A  *)
(* response makes at most one call, and a result carries the call it       *)
(* answers in the place of its id.                                         *)
(***************************************************************************)
EXTENDS Naturals, Sequences, FiniteSets, SequencesExt

CONSTANTS
  KeepReasoning, \* responses whose reasoning stays
  KeepToolArgs,  \* responses whose calls and results stay as they are
  ReasoningCap,  \* size a long reasoning is cut to
  ArgsCap,       \* size large arguments are cut to
  Marker         \* size of a placeholder

ASSUME StripAssumption ==
  /\ KeepReasoning \in Nat /\ KeepToolArgs \in Nat
  /\ ReasoningCap \in Nat /\ ArgsCap \in Nat /\ Marker \in Nat

NoCallMade == [name |-> "none", on |-> "", part |-> ""]

Smaller(a, b) == IF a < b THEN a ELSE b

Responses(ms) == {i \in DOMAIN ms : ms[i].kind = "assistant"}

\* The n latest responses.
LatestResponses(ms, n) ==
  {i \in Responses(ms) : Cardinality({j \in Responses(ms) : j >= i}) <= n}

\* windowStartOf: what comes before it may be folded.
WindowStart(ms, n) ==
  CASE n = 0 -> Len(ms) + 1
    [] n > 0 /\ Cardinality(Responses(ms)) < n -> 1
    [] OTHER -> CHOOSE i \in LatestResponses(ms, n) :
                  \A j \in LatestResponses(ms, n) : i <= j

Is(m, kind, name) == m.kind = kind /\ m.call.name = name

(* Each strip takes the messages, a position and the message as the strips *)
(* before left it; who supersedes whom is read from the messages alone.    *)
(* Results and arguments fold before the start of the window.              *)

\* stripStaleReasoning and truncateKeptReasoning.
StripReasoning(latest, i, m) ==
  [m EXCEPT !.think = IF i \in latest THEN Smaller(@, ReasoningCap) ELSE 0]

\* stripStaleToolArgs.
StripToolArgs(latest, i, m) ==
  IF i \notin latest /\ Is(m, "assistant", "write")
  THEN [m EXCEPT !.args = Smaller(@, ArgsCap)] ELSE m

Folded(m) == [m EXCEPT !.text = Marker, !.whole = FALSE]

\* Mutant: the reads of a file are one whatever their offsets.
ReadAgainAnyPart(ms, i) ==
  \E j \in DOMAIN ms : j > i /\ Is(ms[j], "tool", "read") /\ ms[j].call.on = ms[i].call.on

\* A later result for the same file and offset, be it an error.
ReadAgain(ms, i) ==
  \E j \in DOMAIN ms : j > i /\ ms[j].kind = "tool" /\ ms[j].call = ms[i].call

\* dedupReadResults.
DedupRead(ms, start, i, m) ==
  IF Is(m, "tool", "read") /\ i < start /\ ReadAgain(ms, i) THEN Folded(m) ELSE m

\* Mutant: a write that failed counts.
WrittenAfterOrTried(ms, i) ==
  \E w \in DOMAIN ms : w > i /\ Is(ms[w], "assistant", "write") /\ ms[w].call.on = ms[i].call.on

\* successWriteEditPaths: a later write of the file that no result calls failed.
WrittenAfter(ms, i) ==
  \E w \in DOMAIN ms :
    /\ w > i /\ Is(ms[w], "assistant", "write") /\ ms[w].call.on = ms[i].call.on
    /\ ~(w < Len(ms) /\ ms[w + 1].kind = "tool" /\ ~ms[w + 1].ok)

\* foldStaleReadResults.
FoldRead(ms, start, i, m) ==
  IF Is(m, "tool", "read") /\ i < start /\ WrittenAfter(ms, i)
  THEN Folded(m) ELSE m

\* foldStaleWriteEditArgs.
FoldWrite(ms, start, i, m) ==
  IF Is(m, "assistant", "write") /\ i < start /\ WrittenAfter(ms, i)
  THEN [m EXCEPT !.args = Marker] ELSE m

\* A shell call the messages repeat: upper and lower case and white space, the
\* spelling of a command, do not count.
RunAgain(ms, start, i) ==
  /\ Is(ms[i], "assistant", "shell") /\ i < start
  /\ \E j \in DOMAIN ms :
       j > i /\ Is(ms[j], "assistant", "shell") /\ ms[j].call.on = ms[i].call.on

\* dedupShellCommands: arguments and result of all but the last.
DedupShell(ms, start, i, m) ==
  CASE RunAgain(ms, start, i) -> [m EXCEPT !.args = Marker]
    [] Is(m, "tool", "shell") /\ RunAgain(ms, start, i - 1) -> Folded(m)
    [] OTHER -> m

\* applyContextStrips, in its order.
Strips(ms, reasoning, calls) ==
  LET thoughts == LatestResponses(ms, reasoning)
      latest   == LatestResponses(ms, calls)
      start    == WindowStart(ms, calls)
      shorter(i) == StripToolArgs(latest, i, StripReasoning(thoughts, i, ms[i]))
      unread(i)  == FoldRead(ms, start, i, DedupRead(ms, start, i, shorter(i)))
  IN [i \in DOMAIN ms |-> DedupShell(ms, start, i, FoldWrite(ms, start, i, unread(i)))] \o <<>>

=============================================================================
