----------------------------- MODULE SessionFile -----------------------------
(***************************************************************************)
(* One session jsonl shared by several processes (a web server, command    *)
(* lines, and whatever calls the package): miniagent/session/session.go    *)
(* (LoadSession, AppendMessages, ensureTrailingNewline),                   *)
(* session_rewrite.go (RewriteMessages), lock_unix.go (withSessionLock),   *)
(* and resolveSession of cmd/miniagent/session.go, which a run calls       *)
(* before it saves.                                                        *)
(*                                                                         *)
(* A process names the file by its path, which leads to an inode; flock    *)
(* belongs to the inode.  A line is written in two steps, so that a crash, *)
(* a failed write or a writer that ignored the lock can leave or meet half *)
(* a line.  may and mayDir are what a power failure can leave on the disk: *)
(* any content the inode had, any inode the path led to, since the last    *)
(* fsync.  Sizes count lines.                                              *)
(***************************************************************************)
EXTENDS Naturals, Sequences

CONSTANTS
  Procs,       \* processes
  Inodes,      \* inodes that can be allocated
  MaxBytes,    \* max_session_bytes, in lines
  MaxFaults,   \* bound: crashes, power failures and deletes
  MaxSaves,    \* bound: saves begun
  Appends,     \* TRUE: AppendMessages is used beside RewriteMessages
  None

ASSUME SessionFileAssumption ==
  /\ MaxBytes \in Nat /\ MaxFaults \in Nat /\ MaxSaves \in Nat
  /\ Appends \in BOOLEAN
  /\ None \notin Procs \cup Inodes

VARIABLES
  file,     \* inode -> its lines and the unterminated rest after them
  may,      \* inode -> contents a power failure can leave
  used,     \* inodes allocated so far
  dir,      \* the inode the path leads to
  mayDir,   \* inodes the path can lead to after a power failure
  owner,    \* flock: inode -> process
  pc,       \* where a process is
  fd,       \* the session file it has open
  tmp,      \* its temporary file
  todo,     \* in a turn: the history loaded; in a save: the lines to write
  faults,   \* faults so far
  saves,    \* saves begun so far
  cut,      \* inodes on which an append was cut short
  lastBy,   \* the process that last changed the file or the path
  safe      \* that change returned nil and its name was synced too

ghosts    == <<lastBy, safe>>
fileState == <<file, may, used>>
dirState  == <<dir, mayDir>>
proc      == <<fd, tmp, todo>>
vars == <<fileState, dirState, owner, pc, proc, faults, saves, cut, ghosts>>

Meta == [run |-> None, kind |-> "meta"]   \* the metadata first line
Bad  == [run |-> None, kind |-> "bad"]    \* bytes of two lines run together
Msg  == [run : Procs, kind : {"call", "result"}]
Line == Msg \cup {Meta, Bad}

\* What one turn of p adds: an assistant message with a tool call, its result.
Turn(p) == << [run |-> p, kind |-> "call"], [run |-> p, kind |-> "result"] >>

Residue == [by : Procs \cup {None}, line : Line, whole : BOOLEAN]

\* No residue is the absence of one.
ASSUME NoneAssumption == None \notin Residue

Content == [lines : Seq(Line), tail : Residue \cup {None}]
Empty   == [lines |-> <<>>, tail |-> None]
Whole(ls) == [lines |-> ls, tail |-> None]

Size(c) == Len(c.lines) + IF c.tail = None THEN 0 ELSE 1

(***************************************************************************)
(* LoadSession.  The last line may be illegal JSON; an unterminated line   *)
(* that has all its bytes but the newline is legal and counts.             *)
(***************************************************************************)
Pending(ms, i) ==
  {r \in Procs : \E j \in 1..i :
     /\ ms[j] = [run |-> r, kind |-> "call"]
     /\ \A k \in (j + 1)..i : ms[k] # [run |-> r, kind |-> "result"]}

ValidateToolPairing(ms) ==
  /\ Pending(ms, Len(ms)) = {}
  /\ \A i \in 1..Len(ms) :
       (ms[i].run \in Pending(ms, i - 1)) <=> (ms[i].kind = "result")

Units(c) ==   \* what the scanner yields: an incomplete tail is illegal JSON
  c.lines \o (IF c.tail = None THEN <<>>
              ELSE << IF c.tail.whole THEN c.tail.line ELSE Bad >>)

Loaded(c) ==
  LET u == Units(c)
      upTo[i \in 0..Len(u)] ==
        IF i = 0 THEN <<>>
        ELSE IF u[i].kind \in {"call", "result"} THEN Append(upTo[i - 1], u[i])
        ELSE upTo[i - 1]
  IN upTo[Len(u)]

HasMeta(c) == \E i \in 1..Len(Units(c)) : Units(c)[i] = Meta

LoadOutcome(c) ==
  LET u == Units(c) IN
  IF Size(c) > MaxBytes THEN "toobig"
  ELSE IF \E i \in 1..Len(u) : i < Len(u) /\ u[i] = Bad THEN "corrupt"
  ELSE IF ValidateToolPairing(Loaded(c)) THEN "ok" ELSE "pairing"

AtPath == IF dir = None THEN Empty ELSE file[dir]

(***************************************************************************)
(* Writing one inode.                                                      *)
(***************************************************************************)
SetFile(i, c) ==
  /\ file' = [file EXCEPT ![i] = c]
  /\ may' = [may EXCEPT ![i] = @ \cup {c}]
  /\ used' = used

\* Mutant: the save trusts the write, without an fsync.
Flushed(i) == may' = [may EXCEPT ![i] = @ \cup {file[i]}]

\* fsync of the file: what it holds now is what a power failure leaves.
SyncFile(i) == may' = [may EXCEPT ![i] = {file[i]}]

\* Which free inode it is makes no difference.
Fresh == CHOOSE i \in Inodes : i \notin used

Allocate(i) ==
  /\ used # Inodes
  /\ used' = used \cup {i}
  /\ file' = [file EXCEPT ![i] = Empty]
  /\ may' = [may EXCEPT ![i] = {Empty}]

\* The bytes of the next line: on a clean end of the file they start a line of
\* their own, behind the rest of another line they run into it.
HalfLine(p, w) ==
  [file[fd[p]] EXCEPT !.tail =
     IF @ = None THEN [by |-> p, line |-> Head(todo[p]), whole |-> w]
     ELSE [by |-> p, line |-> Bad, whole |-> FALSE]]

FullLine(p) ==
  LET c == file[fd[p]] IN
  [lines |-> Append(c.lines, IF c.tail # None /\ c.tail.by = p THEN c.tail.line
                             ELSE Bad),
   tail |-> None]

ChangedBy(p) == lastBy' = p /\ safe' = FALSE

\* A tail whose writer is gone belongs to nobody.
Orphaned(c) == IF c.tail = None THEN c ELSE [c EXCEPT !.tail.by = None]

(***************************************************************************)
(* Returning: unlock and close (the deferred calls of withSessionLock).    *)
(***************************************************************************)
Unlocked(p) == [i \in Inodes |-> IF owner[i] = p THEN None ELSE owner[i]]

Return(p) ==
  /\ pc' = [pc EXCEPT ![p] = "idle"]
  /\ fd' = [fd EXCEPT ![p] = None]
  /\ tmp' = [tmp EXCEPT ![p] = None]
  /\ todo' = [todo EXCEPT ![p] = <<>>]
  /\ owner' = Unlocked(p)

Goto(p, l) == pc' = [pc EXCEPT ![p] = l]

(***************************************************************************)
(* resolveSession: a run with saveNew starts a session when the file has   *)
(* no metadata, a resume fails there; a file that does not load ends both. *)
(***************************************************************************)
Resolve(p, saveNew) ==
  /\ pc[p] = "idle"
  /\ LoadOutcome(AtPath) = "ok"
  /\ saveNew \/ HasMeta(AtPath)
  /\ Goto(p, "turn")
  /\ todo' = [todo EXCEPT ![p] = Loaded(AtPath)]
  /\ UNCHANGED <<fileState, dirState, owner, fd, tmp, faults, saves, cut, ghosts>>

\* Mutant: the limit leaves out the line being added.
OverLimitByOne(n) == n > MaxBytes + 1

OverLimit(n) == n > MaxBytes

\* RewriteMessages with the history and the turn, or the turn alone when
\* compaction dropped the history; AppendMessages with the turn.  The size of
\* a rewrite is checked before anything is touched.
BeginRewrite(p, keep) ==
  LET ls == <<Meta>> \o keep \o Turn(p) IN
  /\ pc[p] = "turn"
  /\ saves < MaxSaves
  /\ saves' = saves + 1
  /\ IF OverLimit(Len(ls))
     THEN /\ Goto(p, "idle")
          /\ todo' = [todo EXCEPT ![p] = <<>>]
     ELSE /\ Goto(p, "openRewrite")
          /\ todo' = [todo EXCEPT ![p] = ls]
  /\ UNCHANGED <<fileState, dirState, owner, fd, tmp, faults, cut, ghosts>>

BeginAppend(p) ==
  /\ Appends
  /\ pc[p] = "turn"
  /\ saves < MaxSaves
  /\ saves' = saves + 1
  /\ Goto(p, "openAppend")
  /\ todo' = [todo EXCEPT ![p] = Turn(p)]
  /\ UNCHANGED <<fileState, dirState, owner, fd, tmp, faults, cut, ghosts>>

\* A turn with nothing to save.
EndTurn(p) ==
  /\ pc[p] = "turn"
  /\ Return(p)
  /\ UNCHANGED <<fileState, dirState, faults, saves, cut, ghosts>>

\* OpenNoFollow with O_CREATE: a missing file is created empty.
Locking == [openRewrite |-> "lockRewrite", openAppend |-> "lockAppend"]

Open(p) ==
  /\ pc[p] \in DOMAIN Locking
  /\ Goto(p, Locking[pc[p]])
  /\ \/ /\ dir # None
        /\ fd' = [fd EXCEPT ![p] = dir]
        /\ UNCHANGED <<fileState, dirState, ghosts>>
     \/ /\ dir = None
        /\ Allocate(Fresh)
        /\ dir' = Fresh
        /\ mayDir' = mayDir \cup {Fresh}
        /\ fd' = [fd EXCEPT ![p] = Fresh]
        /\ ChangedBy(p)
  /\ UNCHANGED <<owner, tmp, todo, faults, saves, cut>>

\* MkdirAll or the open fails: a full disk, a symlink, no permission.
OpenFails(p) ==
  /\ pc[p] \in DOMAIN Locking
  /\ Return(p)
  /\ UNCHANGED <<fileState, dirState, faults, saves, cut, ghosts>>

(***************************************************************************)
(* lockSession: LOCK_EX | LOCK_NB polled until it succeeds or 5s are over. *)
(***************************************************************************)
Entry == [lockRewrite |-> "create", lockAppend |-> "trim",
          pollRewrite |-> "create", pollAppend |-> "trim"]
Poll  == [lockRewrite |-> "pollRewrite", lockAppend |-> "pollAppend",
          pollRewrite |-> "pollRewrite", pollAppend |-> "pollAppend"]

Flock(p) ==
  /\ pc[p] \in DOMAIN Entry
  /\ \/ /\ owner[fd[p]] = None
        /\ owner' = [owner EXCEPT ![fd[p]] = p]
        /\ Goto(p, Entry[pc[p]])
     \/ /\ owner[fd[p]] # None
        /\ Goto(p, Poll[pc[p]])
        /\ UNCHANGED owner
  /\ UNCHANGED <<fileState, dirState, proc, faults, saves, cut, ghosts>>

\* Mutant: the deadline is only looked at when the lock was free.
LockBusyLate(p) ==
  /\ pc[p] \in {"pollRewrite", "pollAppend"} /\ owner[fd[p]] = None
  /\ Return(p)
  /\ UNCHANGED <<fileState, dirState, faults, saves, cut, ghosts>>

LockBusy(p) ==
  /\ pc[p] \in {"pollRewrite", "pollAppend"}
  /\ Return(p)
  /\ UNCHANGED <<fileState, dirState, faults, saves, cut, ghosts>>

(***************************************************************************)
(* AppendMessages under the lock.                                          *)
(***************************************************************************)
\* ensureTrailingNewline truncates the file behind its last newline.
\* Mutant: it leaves the residual line where it is.
KeepResidue(c) == c

EnsureTrailingNewline(c) == Whole(c.lines)

\* Size check, ensureTrailingNewline, the metadata line of an empty file, the
\* second size check.  The residual line is gone even when that one refuses.
WithHeader(ls, msgs) == IF ls = <<>> THEN <<Meta>> \o msgs ELSE msgs

Trim(p) ==
  LET c == file[fd[p]]
      out == WithHeader(c.lines, todo[p])
  IN
  /\ pc[p] = "trim"
  /\ IF Size(c) > MaxBytes
     THEN Return(p) /\ UNCHANGED <<fileState, ghosts>>
     ELSE /\ IF c.tail = None THEN UNCHANGED <<fileState, ghosts>>
             ELSE SetFile(fd[p], EnsureTrailingNewline(c)) /\ ChangedBy(p)
          /\ IF OverLimit(Len(c.lines) + Len(out)) THEN Return(p)
             ELSE /\ Goto(p, "write")
                  /\ todo' = [todo EXCEPT ![p] = out]
                  /\ UNCHANGED <<owner, fd, tmp>>
  /\ UNCHANGED <<dirState, faults, saves, cut>>

WriteHalf(p, w) ==
  /\ pc[p] = "write"
  /\ SetFile(fd[p], HalfLine(p, w))
  /\ Goto(p, "rest")
  /\ ChangedBy(p)
  /\ UNCHANGED <<dirState, owner, proc, faults, saves, cut>>

WriteRest(p) ==
  /\ pc[p] = "rest"
  /\ SetFile(fd[p], FullLine(p))
  /\ todo' = [todo EXCEPT ![p] = Tail(@)]
  /\ Goto(p, IF Len(todo[p]) = 1 THEN "sync" ELSE "write")
  /\ ChangedBy(p)
  /\ UNCHANGED <<dirState, owner, fd, tmp, faults, saves, cut>>

\* The flush fails part of the way (a full disk): what it wrote stays.
WriteFails(p) ==
  /\ pc[p] \in {"write", "rest"}
  /\ file' = [file EXCEPT ![fd[p]] = Orphaned(@)]
  /\ may' = [may EXCEPT ![fd[p]] = @ \cup {Orphaned(file[fd[p]])}]
  /\ cut' = cut \cup {fd[p]}
  /\ ChangedBy(p)
  /\ Return(p)
  /\ UNCHANGED <<used, dirState, faults, saves>>

\* The lines of a new file are safe only when its name is.
AppendSync(p) ==
  /\ pc[p] = "sync"
  /\ SyncFile(fd[p])
  /\ safe' = (mayDir = {fd[p]})
  /\ Return(p)
  /\ UNCHANGED <<file, used, dirState, faults, saves, cut, lastBy>>

AppendSyncFails(p) ==
  /\ pc[p] = "sync"
  /\ Return(p)
  /\ UNCHANGED <<fileState, dirState, faults, saves, cut, ghosts>>

(***************************************************************************)
(* RewriteMessages under the lock.                                         *)
(***************************************************************************)
CreateTemp(p) ==
  /\ pc[p] = "create"
  /\ Allocate(Fresh)
  /\ tmp' = [tmp EXCEPT ![p] = Fresh]
  /\ Goto(p, "fill")
  /\ UNCHANGED <<dirState, owner, fd, todo, faults, saves, cut, ghosts>>

\* The write of the temporary file; until the fsync a power failure may keep
\* none of it, or half a line.
WriteTemp(p) ==
  /\ pc[p] = "fill"
  /\ file' = [file EXCEPT ![tmp[p]] = Whole(todo[p])]
  /\ may' = [may EXCEPT ![tmp[p]] =
       @ \cup {Whole(todo[p]),
               [lines |-> <<>>,
                tail |-> [by |-> None, line |-> Meta, whole |-> FALSE]]}]
  /\ Goto(p, "tsync")
  /\ UNCHANGED <<used, dirState, owner, proc, faults, saves, cut, ghosts>>

SyncTemp(p) ==
  /\ pc[p] = "tsync"
  /\ SyncFile(tmp[p])
  /\ Goto(p, "rename")
  /\ UNCHANGED <<file, used, dirState, owner, proc, faults, saves, cut, ghosts>>

Rename(p) ==
  /\ pc[p] = "rename"
  /\ dir' = tmp[p]
  /\ mayDir' = mayDir \cup {tmp[p]}
  /\ Goto(p, "dirsync")
  /\ ChangedBy(p)
  /\ UNCHANGED <<fileState, owner, proc, faults, saves, cut>>

\* CreateTemp, the write, the fsync or the rename fails; the temporary file is
\* removed and the session is as it was.
RewriteFails(p) ==
  /\ pc[p] \in {"create", "fill", "tsync", "rename"}
  /\ Return(p)
  /\ UNCHANGED <<fileState, dirState, faults, saves, cut, ghosts>>

SyncDir(p) ==
  /\ pc[p] = "dirsync"
  /\ mayDir' = {dir}
  /\ safe' = (safe \/ lastBy = p)
  /\ Return(p)
  /\ UNCHANGED <<fileState, dir, faults, saves, cut, lastBy>>

\* The fsync of the directory fails; the save still returns nil.
SyncDirFails(p) ==
  /\ pc[p] = "dirsync"
  /\ Return(p)
  /\ UNCHANGED <<fileState, dirState, faults, saves, cut, ghosts>>

(***************************************************************************)
(* The environment: a process dies, the machine does, the file is deleted  *)
(* (handleSessionDelete takes no flock).                                   *)
(***************************************************************************)
Crash(p) ==
  /\ pc[p] # "idle"
  /\ faults < MaxFaults
  /\ faults' = faults + 1
  /\ IF pc[p] \in {"write", "rest"}
     THEN /\ file' = [file EXCEPT ![fd[p]] = Orphaned(@)]
          /\ may' = [may EXCEPT ![fd[p]] = @ \cup {Orphaned(file[fd[p]])}]
          /\ cut' = cut \cup {fd[p]}
          /\ ChangedBy(p)
     ELSE UNCHANGED <<file, may, cut, ghosts>>
  /\ Return(p)
  /\ UNCHANGED <<used, dirState, saves>>

\* What nothing leads to any more is not followed further.
PowerFailure ==
  /\ faults < MaxFaults
  /\ faults' = faults + 1
  /\ \E d \in mayDir :
       /\ dir' = d
       /\ mayDir' = {d}
       /\ IF d = None THEN file' = [i \in Inodes |-> Empty] /\ cut' = {}
          ELSE \E c \in may[d] :
            /\ file' = [i \in Inodes |-> IF i = d THEN Orphaned(c) ELSE Empty]
            /\ cut' = IF may[d] = {file[d]} THEN cut ELSE cut \cup {d}
       /\ may' = [i \in Inodes |-> {file'[i]}]
  /\ owner' = [i \in Inodes |-> None]
  /\ pc' = [p \in Procs |-> "idle"]
  /\ fd' = [p \in Procs |-> None]
  /\ tmp' = [p \in Procs |-> None]
  /\ todo' = [p \in Procs |-> <<>>]
  /\ UNCHANGED <<used, saves, ghosts>>

Delete ==
  /\ dir # None
  /\ faults < MaxFaults
  /\ faults' = faults + 1
  /\ dir' = None
  /\ mayDir' = mayDir \cup {None}
  /\ ChangedBy(None)
  /\ UNCHANGED <<fileState, owner, pc, proc, saves, cut>>

Init ==
  /\ file = [i \in Inodes |-> Empty]
  /\ may = [i \in Inodes |-> {Empty}]
  /\ used = {}
  /\ dir = None
  /\ mayDir = {None}
  /\ owner = [i \in Inodes |-> None]
  /\ pc = [p \in Procs |-> "idle"]
  /\ fd = [p \in Procs |-> None]
  /\ tmp = [p \in Procs |-> None]
  /\ todo = [p \in Procs |-> <<>>]
  /\ faults = 0
  /\ saves = 0
  /\ cut = {}
  /\ lastBy = None
  /\ safe = FALSE

Work(p) ==   \* the steps of a save, once it has begun
  \/ Open(p) \/ OpenFails(p) \/ Flock(p) \/ LockBusy(p)
  \/ Trim(p) \/ (\E w \in BOOLEAN : WriteHalf(p, w)) \/ WriteRest(p)
  \/ WriteFails(p) \/ AppendSync(p) \/ AppendSyncFails(p)
  \/ CreateTemp(p) \/ WriteTemp(p) \/ SyncTemp(p) \/ Rename(p)
  \/ RewriteFails(p) \/ SyncDir(p) \/ SyncDirFails(p)

Next ==
  \/ \E p \in Procs :
       \/ \E saveNew \in BOOLEAN : Resolve(p, saveNew)
       \/ \E keep \in {todo[p], <<>>} : BeginRewrite(p, keep)
       \/ BeginAppend(p)
       \/ EndTurn(p)
       \/ Work(p)
       \/ Crash(p)
  \/ PowerFailure
  \/ Delete

Spec == Init /\ [][Next]_vars

(***************************************************************************)
(* Properties.                                                             *)
(***************************************************************************)

PCs == {"idle", "turn", "openRewrite", "openAppend", "trim", "write", "rest",
        "sync", "create", "fill", "tsync", "rename", "dirsync"} \cup DOMAIN Entry

\* Types of the variables.
TypeOK ==
  /\ file \in [Inodes -> Content] /\ may \in [Inodes -> SUBSET Content]
  /\ used \subseteq Inodes /\ cut \subseteq Inodes
  /\ dir \in used \cup {None} /\ mayDir \subseteq used \cup {None}
  /\ owner \in [Inodes -> Procs \cup {None}]
  /\ pc \in [Procs -> PCs]
  /\ fd \in [Procs -> used \cup {None}] /\ tmp \in [Procs -> used \cup {None}]
  /\ todo \in [Procs -> Seq(Line)]
  /\ faults \in 0..MaxFaults /\ saves \in 0..MaxSaves
  /\ lastBy \in Procs \cup {None} /\ safe \in BOOLEAN

\* Whatever crashes, fills the disk or loses power, and whoever appends, no
\* session file ever holds a line made of two: a residual line stays the last
\* one and is cut off before the next line is written (session.go:189).  The
\* metadata is the first line and only the first, also after the cut emptied
\* the file.
Shaped(c) ==
  /\ \A i \in 1..Len(c.lines) : c.lines[i] # Bad /\ (c.lines[i] = Meta <=> i = 1)
  /\ c.tail # None => c.tail.line # Bad

NoGluedLine == \A i \in Inodes : Shaped(file[i])

\* What LoadSession says of the path: never corrupt in the middle, never over
\* the size limit the writers enforce; a tool call without its result only
\* while an append is under way or after one was cut short, so a session that
\* is only rewritten always loads.
PathLoads ==
  /\ LoadOutcome(AtPath) \in {"ok", "pairing"}
  /\ LoadOutcome(AtPath) = "pairing" =>
       \/ dir \in cut
       \/ \E p \in Procs : pc[p] \in {"write", "rest"} /\ fd[p] = dir

\* A save that returned nil, with its directory synced, is what a power failure
\* leaves, until the next change: the temporary file is synced before the
\* rename and the directory after it.
SavedIsDurable ==
  safe => /\ dir # None
          /\ mayDir = {dir}
          /\ may[dir] = {file[dir]}

\* Trimming takes away only what LoadSession would not have returned
\* (session.go:232 calls it an incomplete line).  It fails: a line that lacks
\* nothing but its newline is loaded, and then cut off by the next append.
TrimDropsOnlyIncomplete ==
  [][ \A p \in Procs : Trim(p) /\ file[fd[p]].tail # None =>
        ~file[fd[p]].tail.whole ]_vars

\* An append that returned nil went to the file the path leads to.  It fails:
\* a waiter on the lock of the old inode appends to it after the rename.
AckedAppendIsThere ==
  [][ \A p \in Procs : AppendSync(p) => fd[p] = dir ]_vars

\* A save returns, also when the holder of the lock never does (lock_unix.go:22).
SaveReturns(p) == pc[p] \notin {"idle", "turn"} ~> pc[p] = "idle"
=============================================================================
