---------------------------- MODULE StoresProofs ----------------------------
(***************************************************************************)
(* What survives the process, for every number of processes, files,        *)
(* browsers, machines and messages: each of SessionFile, ConfigEdit and    *)
(* RemoteSession has an inductive invariant, a lemma for each of its       *)
(* actions that it is kept, and theorems for its properties.               *)
(***************************************************************************)
EXTENDS SessionFile, ConfigEdit, RemoteSession, Induction, Functions,
        SequenceTheorems, FiniteSetTheorems, TLAPS

(***************************************************************************)
(* Session files: what a file may hold.                                     *)
(***************************************************************************)

\* What a file may hold: readable lines, the metadata first, within the limit.
Good(c) == c \in Content /\ Shaped(c) /\ Size(c) <= MaxBytes

\* The lines of a whole transcript: nothing, or the metadata and messages in
\* which every call has its result.
Complete(ls) ==
  \/ ls = <<>>
  \/ /\ ls \in Seq(Line) /\ Len(ls) > 0 /\ ls[1] = Meta
     /\ Tail(ls) \in Seq(Msg) /\ ValidateToolPairing(Tail(ls))

\* Nothing of it is half written.
CompleteFile(c) == c.tail = None /\ Complete(c.lines)

\* Lines a writer may add to lines ls: the metadata exactly when it is the first
\* of the file, and within the limit (AppendMessages).
CanWrite(ls, out) ==
  /\ out \in Seq(Line) /\ Len(out) > 0
  /\ \A j \in 1..Len(out) : out[j] # Bad /\ (out[j] = Meta <=> j = 1 /\ ls = <<>>)
  /\ Len(ls) + Len(out) <= MaxBytes

\* The size counts the residue as a line.
LEMMA SizeOf ==
  ASSUME NEW c, c.lines \in Seq(Line)
  PROVE  /\ c.tail = None => Size(c) = Len(c.lines)
         /\ c.tail # None => Size(c) = Len(c.lines) + 1
<1>1. Len(c.lines) \in Nat
  OBVIOUS
<1>2. CASE c.tail = None
  <2>1. Size(c) = Len(c.lines) + 0
    BY <1>2 DEF Size
  <2> QED
    BY <1>1, <1>2, <2>1
<1>3. CASE c.tail # None
  BY <1>3 DEF Size
<1> QED
  BY <1>2, <1>3

\* An empty file is a good one.
LEMMA EmptyGood == Good(Empty) /\ CompleteFile(Empty)
<1>1. <<>> \in Seq(Line) /\ Len(<<>>) = 0
  OBVIOUS
<1>2. Empty \in Content /\ Size(Empty) = 0
  BY <1>1 DEF Empty, Content, Size
<1> QED
  BY <1>1, <1>2, SessionFileAssumption DEF Good, Shaped, Empty, CompleteFile, Complete

\* A file stays good when nobody owns its residue any more.
LEMMA OrphanedGood ==
  ASSUME NEW c, Good(c)
  PROVE  /\ Good(Orphaned(c))
         /\ CompleteFile(c) => Orphaned(c) = c
<1>1. CASE c.tail = None
  BY <1>1 DEF Orphaned
<1>2. CASE c.tail # None
  <2>1. Orphaned(c) = [c EXCEPT !.tail.by = None]
    BY <1>2 DEF Orphaned
  <2>2. /\ c.lines \in Seq(Line) /\ c.tail \in Residue
        /\ c = [lines |-> c.lines, tail |-> c.tail]
    BY <1>2 DEF Good, Content
  <2>3. Orphaned(c) =
          [lines |-> c.lines,
           tail |-> [by |-> None, line |-> c.tail.line, whole |-> c.tail.whole]]
    BY <2>1, <2>2 DEF Residue
  <2>4. Orphaned(c) \in Content
    <3>1. [by |-> None, line |-> c.tail.line, whole |-> c.tail.whole] \in Residue
      BY <2>2 DEF Residue
    <3> QED
      BY <2>2, <2>3, <3>1 DEF Content
  <2>5. Orphaned(c).tail # None
    <3>1. Orphaned(c).tail \in Residue
      BY <2>2, <2>3 DEF Residue
    <3> QED
      BY <3>1, NoneAssumption
  <2>6. Shaped(Orphaned(c))
    BY <2>3, <2>5, <1>2 DEF Good, Shaped
  <2>7. Size(Orphaned(c)) = Size(c)
    <3>1. Orphaned(c).lines = c.lines
      BY <2>3
    <3> QED
      BY <3>1, <2>5, <1>2 DEF Size
  <2> QED
    BY <1>2, <2>4, <2>6, <2>7 DEF Good, CompleteFile
<1> QED
  BY <1>1, <1>2

\* A file stays good when its residue is cut off (ensureTrailingNewline).
LEMMA TrimmedGood ==
  ASSUME NEW c, Good(c)
  PROVE  Good(EnsureTrailingNewline(c))
<1>1. c.lines \in Seq(Line) /\ Len(c.lines) \in Nat
  BY DEF Good, Content
<1>2. Size(Whole(c.lines)) = Len(c.lines) /\ Len(c.lines) <= Size(c) /\ Size(c) \in Nat
  <2>1. Whole(c.lines).tail = None /\ Whole(c.lines).lines = c.lines
    BY DEF Whole
  <2> QED
    BY <1>1, <2>1, SizeOf
<1>3. Whole(c.lines) \in Content
  BY <1>1 DEF Whole, Content
<1>4. Shaped(Whole(c.lines))
  BY DEF Whole, Shaped, Good
<1> QED
  BY <1>1, <1>2, <1>3, <1>4, SessionFileAssumption DEF Good, EnsureTrailingNewline

\* Half a line behind whole ones.
LEMMA HalfGood ==
  ASSUME NEW c, Good(c), c.tail = None, NEW out, CanWrite(c.lines, out),
         NEW p \in Procs, NEW w \in BOOLEAN
  PROVE  LET h == [c EXCEPT !.tail = [by |-> p, line |-> Head(out), whole |-> w]]
         IN  /\ Good(h)
             /\ h.lines = c.lines
             /\ h.tail # None /\ h.tail.by = p /\ h.tail.line = out[1]
<1> DEFINE t == [by |-> p, line |-> Head(out), whole |-> w]
           h == [c EXCEPT !.tail = t]
<1>1. c.lines \in Seq(Line) /\ Len(c.lines) \in Nat
  BY DEF Good, Content
<1>2. /\ Head(out) = out[1] /\ out[1] \in Line /\ out[1] # Bad /\ Len(out) \in Nat
      /\ Len(out) >= 1
  BY DEF CanWrite
<1>3. t \in Residue /\ t # None
  BY <1>2, NoneAssumption DEF Residue
<1>4. h = [lines |-> c.lines, tail |-> t]
  BY DEF Good, Content
<1>5. h \in Content
  BY <1>1, <1>3, <1>4 DEF Content
<1>6. Size(h) = Len(c.lines) + 1
  BY <1>1, <1>3, <1>4 DEF Size
<1>7. Size(h) <= MaxBytes
  BY <1>1, <1>2, <1>6, SessionFileAssumption DEF CanWrite
<1>8. Shaped(h)
  BY <1>4, <1>2, <1>3 DEF Shaped, Good
<1> QED
  BY <1>2, <1>3, <1>4, <1>5, <1>7, <1>8 DEF Good

\* Lines are appended one part after the other.
LEMMA LinesJoin ==
  ASSUME NEW s \in Seq(Line), NEW t \in Seq(Line), NEW u \in Seq(Line)
  PROVE  (s \o t) \o u = s \o (t \o u)
BY ConcatAssociative

\* The rest of that line: what is written and what is to be written together
\* stay the same lines.
LEMMA FullGood ==
  ASSUME NEW c, Good(c), NEW out, CanWrite(c.lines, out)
  PROVE  /\ Good(Whole(Append(c.lines, out[1])))
         /\ Len(out) # 1 => CanWrite(Append(c.lines, out[1]), Tail(out))
         /\ Append(c.lines, out[1]) \o Tail(out) = c.lines \o out
         /\ Len(out) = 1 => Append(c.lines, out[1]) = c.lines \o out
<1> DEFINE ls == c.lines
           new == Append(ls, out[1])
<1>1. ls \in Seq(Line) /\ Len(ls) \in Nat
  BY DEF Good, Content
<1>2. /\ out \in Seq(Line) /\ out[1] \in Line /\ out[1] # Bad /\ Len(out) \in Nat
      /\ Len(out) >= 1
  BY DEF CanWrite
<1>3. new \in Seq(Line) /\ Len(new) = Len(ls) + 1 /\ new[Len(ls) + 1] = out[1]
      /\ \A i \in 1..Len(ls) : new[i] = ls[i]
  BY <1>1, <1>2
<1>4. out[1] = Meta <=> Len(ls) = 0
  BY <1>1, <1>2 DEF CanWrite
<1>5. \A i \in 1..Len(ls) : ls[i] # Bad /\ (ls[i] = Meta <=> i = 1)
  BY DEF Good, Shaped
<1>6. \A i \in 1..Len(new) : new[i] # Bad /\ (new[i] = Meta <=> i = 1)
  <2> TAKE i \in 1..Len(new)
  <2>1. CASE i \in 1..Len(ls)
    BY <1>3, <1>5, <2>1
  <2>2. CASE i = Len(ls) + 1
    BY <1>2, <1>3, <1>4, <2>2, <1>1
  <2> QED
    BY <2>1, <2>2, <1>3, <1>1
<1>7. Shaped(Whole(new))
  BY <1>6 DEF Shaped, Whole
<1>8. Whole(new) \in Content
  BY <1>3 DEF Whole, Content
<1>9. Size(Whole(new)) = Len(ls) + 1
  BY <1>3, <1>1 DEF Size, Whole
<1>10. Good(Whole(new))
  BY <1>1, <1>2, <1>7, <1>8, <1>9, SessionFileAssumption DEF Good, CanWrite
<1>11. Tail(out) \in Seq(Line) /\ Len(Tail(out)) = Len(out) - 1
       /\ \A j \in 1..(Len(out) - 1) : Tail(out)[j] = out[j + 1]
  BY <1>2
<1>12. Len(out) # 1 => CanWrite(new, Tail(out))
  <2>1. new # <<>>
    BY <1>3, <1>1
  <2>2. \A j \in 1..(Len(out) - 1) : Tail(out)[j] # Bad /\ Tail(out)[j] # Meta
    BY <1>11, <1>2 DEF CanWrite
  <2> QED
    BY <2>1, <2>2, <1>1, <1>2, <1>3, <1>11 DEF CanWrite
<1>13. new \o Tail(out) = ls \o out
  <2> DEFINE one == <<out[1]>>
             rest == Tail(out)
  <2>1. new = ls \o one /\ one \in Seq(Line) /\ Len(one) = 1 /\ one[1] = out[1]
    BY <1>1, <1>2, AppendIsConcat
  <2>2. rest \in Seq(Line) /\ Len(rest) = Len(out) - 1
        /\ \A j \in 1..(Len(out) - 1) : rest[j] = out[j + 1]
    BY <1>11
  <2> HIDE DEF one, rest
  <2>3. one \o rest = out
    <3>1. /\ Len(one \o rest) = Len(one) + Len(rest) /\ one \o rest \in Seq(Line)
          /\ \A i \in 1..Len(one) + Len(rest) :
               (one \o rest)[i] = IF i <= Len(one) THEN one[i] ELSE rest[i - Len(one)]
      BY <2>1, <2>2, ConcatProperties
    <3>2. Len(out) \in Nat /\ Len(one) + Len(rest) = Len(out)
      BY <1>2, <2>1, <2>2
    <3>3. ASSUME NEW i \in 1..Len(out) PROVE (one \o rest)[i] = out[i]
      <4>1. CASE i = 1
        BY <2>1, <3>1, <3>2, <4>1
      <4>2. CASE i # 1
        <5>1. i - 1 \in 1..(Len(out) - 1) /\ i - 1 + 1 = i /\ ~(i <= 1)
          BY <3>2, <4>2
        <5> QED
          BY <2>1, <2>2, <3>1, <3>2, <5>1
      <4> QED
        BY <4>1, <4>2
    <3> QED
      BY <3>1, <3>2, <3>3, <1>2, SeqEqual
  <2>4. (ls \o one) \o rest = ls \o (one \o rest)
    <3>1. ls \in Seq(Line) /\ one \in Seq(Line) /\ rest \in Seq(Line)
      BY <1>1, <2>1, <2>2
    <3> QED
      BY <3>1, LinesJoin, Zenon
  <2>5. new \o rest = ls \o out
    BY <2>1, <2>3, <2>4
  <2> QED
    BY <2>5 DEF rest
<1>14. Len(out) = 1 => new = ls \o out
  <2>1. Len(out) = 1 => Tail(out) = <<>>
    <3>1. Len(out) = 1 => Len(Tail(out)) = 0
      BY <1>2, <1>11
    <3> QED
      BY <1>11, <3>1, EmptySeq
  <2>2. new \o <<>> = new
    BY <1>3, ConcatEmptySeq
  <2> QED
    BY <1>13, <2>1, <2>2
<1> QED
  BY <1>10, <1>12, <1>13, <1>14

\* A turn behind calls that all have their results.
LEMMA TurnPaired ==
  ASSUME NEW ms \in Seq(Msg), ValidateToolPairing(ms), NEW p \in Procs
  PROVE  /\ ms \o Turn(p) \in Seq(Msg)
         /\ ValidateToolPairing(ms \o Turn(p))
<1> DEFINE n == Len(ms)
           out == ms \o Turn(p)
<1> DEFINE asks == [run |-> p, kind |-> "call"]
           says == [run |-> p, kind |-> "result"]
<1>1. n \in Nat
  OBVIOUS
<1>2. asks \in Msg /\ says \in Msg /\ Turn(p) = <<asks, says>>
  BY DEF Turn, Msg
<1>3. asks.run = p /\ asks.kind = "call" /\ says.run = p /\ says.kind = "result"
  OBVIOUS
<1>4. \A q : /\ [run |-> q, kind |-> "call"] # says /\ [run |-> q, kind |-> "result"] # asks
             /\ [run |-> q, kind |-> "call"] = asks => q = p
  OBVIOUS
<1>5. [run |-> p, kind |-> "call"] = asks /\ [run |-> p, kind |-> "result"] = says
  OBVIOUS
<1> HIDE DEF asks, says, n
<1>6. /\ Turn(p) \in Seq(Msg) /\ Len(Turn(p)) = 2
      /\ Turn(p)[1] = asks /\ Turn(p)[2] = says
  BY <1>2
<1>7. /\ out \in Seq(Msg) /\ Len(out) = n + 2
      /\ \A i \in 1..n : out[i] = ms[i]
      /\ out[n + 1] = asks /\ out[n + 2] = says
  <2>1. out \in Seq(Msg) /\ Len(out) = n + 2
    <3> HIDE DEF Turn
    <3>1. out \in Seq(Msg) /\ Len(out) = Len(ms) + Len(Turn(p))
      BY <1>6, ConcatProperties
    <3> QED
      BY <1>6, <3>1 DEF n
  <2>2. \A i \in 1..(n + 2) : out[i] = IF i <= n THEN ms[i] ELSE Turn(p)[i - n]
    <3>1. \A i \in 1..(Len(ms) + Len(Turn(p))) :
            out[i] = IF i <= Len(ms) THEN ms[i] ELSE Turn(p)[i - Len(ms)]
      BY <1>6, ConcatProperties
    <3> QED
      BY <1>6, <3>1 DEF n
  <2> HIDE DEF out
  <2>3. \A i \in 1..n : out[i] = ms[i]
    BY <1>1, <2>2
  <2>4. n + 1 \in 1..(n + 2) /\ ~(n + 1 <= n) /\ (n + 1) - n = 1
        /\ n + 2 \in 1..(n + 2) /\ ~(n + 2 <= n) /\ (n + 2) - n = 2
    BY <1>1
  <2>5. out[n + 1] = Turn(p)[1] /\ out[n + 2] = Turn(p)[2]
    BY <2>2, <2>4
  <2> QED
    BY <1>6, <2>1, <2>3, <2>5
<1> HIDE DEF out
<1>8. \A i \in 0..n : Pending(out, i) = Pending(ms, i)
  <2> TAKE i \in 0..n
  <2>1. \A j \in 1..i : out[j] = ms[j]
    BY <1>1, <1>7
  <2>2. \A j \in 1..i : \A k \in (j + 1)..i : out[k] = ms[k]
    BY <1>1, <1>7
  <2> QED
    BY <2>1, <2>2 DEF Pending
<1>9. Pending(ms, n) = {}
  BY DEF ValidateToolPairing, n
<1>10. Pending(out, n + 1) = {p}
  <2>1. p \in Pending(out, n + 1)
    <3>1. n + 1 \in 1..(n + 1) /\ \A k \in ((n + 1) + 1)..(n + 1) : FALSE
      BY <1>1
    <3> QED
      BY <1>7, <1>5, <3>1 DEF Pending
  <2>2. ASSUME NEW r \in Pending(out, n + 1), r # p PROVE FALSE
    <3>1. PICK j \in 1..(n + 1) :
            /\ out[j] = [run |-> r, kind |-> "call"]
            /\ \A k \in (j + 1)..(n + 1) : out[k] # [run |-> r, kind |-> "result"]
      BY <2>2 DEF Pending
    <3>2. j # n + 1
      BY <1>7, <1>4, <2>2, <3>1
    <3>3. j \in 1..n /\ \A k \in (j + 1)..n : k \in (j + 1)..(n + 1)
      BY <1>1, <3>1, <3>2
    <3>4. r \in Pending(out, n)
      BY <2>2, <3>1, <3>3 DEF Pending
    <3> QED
      BY <1>1, <1>8, <1>9, <3>4
  <2> QED
    BY <2>1, <2>2
<1>11. Pending(out, n + 2) = {}
  <2> SUFFICES ASSUME NEW r \in Pending(out, n + 2) PROVE FALSE
    OBVIOUS
  <2>1. PICK j \in 1..(n + 2) :
          /\ out[j] = [run |-> r, kind |-> "call"]
          /\ \A k \in (j + 1)..(n + 2) : out[k] # [run |-> r, kind |-> "result"]
    BY DEF Pending
  <2>2. j # n + 2
    BY <1>7, <1>4, <2>1
  <2>3. j \in 1..(n + 1) /\ \A k \in (j + 1)..(n + 1) : k \in (j + 1)..(n + 2)
    BY <1>1, <2>1, <2>2
  <2>4. r \in Pending(out, n + 1)
    BY <2>1, <2>3 DEF Pending
  <2>5. r = p /\ n + 2 \in (j + 1)..(n + 2)
    BY <1>1, <1>10, <2>3, <2>4
  <2> QED
    BY <1>7, <1>5, <2>1, <2>5
<1>12. ASSUME NEW i \in 1..Len(out)
      PROVE  (out[i].run \in Pending(out, i - 1)) <=> (out[i].kind = "result")
  <2>1. CASE i \in 1..n
    <3>1. i - 1 \in 0..n /\ out[i] = ms[i] /\ Pending(out, i - 1) = Pending(ms, i - 1)
      BY <1>1, <1>7, <1>8, <2>1
    <3> QED
      BY <2>1, <3>1 DEF ValidateToolPairing, n
  <2>2. CASE i = n + 1
    <3>1. i - 1 = n /\ n \in 0..n
      BY <1>1, <2>2
    <3>2. Pending(out, i - 1) = {}
      BY <1>8, <1>9, <3>1
    <3> QED
      BY <1>7, <1>3, <2>2, <3>2
  <2>3. CASE i = n + 2
    <3>1. i - 1 = n + 1
      BY <1>1, <2>3
    <3> QED
      BY <1>7, <1>3, <1>10, <2>3, <3>1
  <2> QED
    BY <1>1, <1>7, <2>1, <2>2, <2>3
<1>13. ValidateToolPairing(out)
  BY <1>7, <1>11, <1>12 DEF ValidateToolPairing
<1> QED
  BY <1>7, <1>13 DEF out

\* Without messages no call waits for a result.
LEMMA NoTurnPaired == <<>> \in Seq(Msg) /\ ValidateToolPairing(<<>>)
  BY DEF ValidateToolPairing, Pending

(***************************************************************************)
(* What LoadSession makes of it.                                            *)
(***************************************************************************)

\* The lines LoadSession keeps.
IsMsg(l) == l.kind \in {"call", "result"}

\* Those lines are the messages.
LEMMA LineKinds == \A l \in Line : IsMsg(l) <=> l \in Msg
  BY DEF Line, Meta, Bad, Msg, IsMsg

\* What LoadSession keeps of the lines, one line after the other.
LEMMA LoadedStepwise ==
  ASSUME NEW c, Units(c) \in Seq(Line)
  PROVE  \E g \in [0..Len(Units(c)) -> Seq(Msg)] :
           /\ Loaded(c) = g[Len(Units(c))]
           /\ \A i \in 0..Len(Units(c)) :
                g[i] = IF i = 0 THEN <<>>
                       ELSE IF IsMsg(Units(c)[i]) THEN Append(g[i - 1], Units(c)[i])
                       ELSE g[i - 1]
<1> DEFINE u == Units(c)
           n == Len(u)
           X == Seq(Msg)
           step == [x \in X \X Nat |->
                      IF x[2] \in 1..n /\ IsMsg(u[x[2]]) THEN Append(x[1], u[x[2]])
                      ELSE x[1]]
           Body(f) == [i \in 0..n |->
                         IF i = 0 THEN <<>>
                         ELSE IF IsMsg(u[i]) THEN Append(f[i - 1], u[i])
                         ELSE f[i - 1]]
           upTo == CHOOSE f : f = Body(f)
<1>1. n \in Nat /\ \A i \in 1..n : u[i] \in Line
  OBVIOUS
<1>2. Loaded(c) = upTo[n]
  BY Zenon DEF Loaded, IsMsg
<1> HIDE DEF u, n
<1>3. <<>> \in X
  OBVIOUS
<1>4. step \in Steps(X)
  <2> SUFFICES ASSUME NEW x \in X \X Nat
               PROVE  (IF x[2] \in 1..n /\ IsMsg(u[x[2]]) THEN Append(x[1], u[x[2]])
                       ELSE x[1]) \in X
    BY DEF Steps
  <2>1. x[1] \in X
    OBVIOUS
  <2>2. CASE x[2] \in 1..n /\ IsMsg(u[x[2]])
    <3>1. u[x[2]] \in Msg
      BY <1>1, <2>2, LineKinds
    <3> QED
      BY <2>1, <2>2, <3>1
  <2> QED
    BY <2>1, <2>2
<1> HIDE DEF step, X
<1>5. PICK g : Recursion(g, n, X, <<>>, step)
  BY <1>1, <1>3, <1>4, RecursionExists
<1>6. /\ g \in [0..n -> X]
      /\ \A i \in 0..n : g[i] = IF i = 0 THEN <<>> ELSE step[<<g[i - 1], i>>]
  BY <1>5 DEF Recursion
<1>7. \A i \in 0..n : g[i] = IF i = 0 THEN <<>>
                             ELSE IF IsMsg(u[i]) THEN Append(g[i - 1], u[i])
                             ELSE g[i - 1]
  <2> TAKE i \in 0..n
  <2>1. CASE i # 0
    <3>1. i - 1 \in 0..n /\ i \in Nat /\ i \in 1..n
      BY <1>1, <2>1
    <3>2. <<g[i - 1], i>> \in X \X Nat
      BY <1>6, <3>1
    <3>3. step[<<g[i - 1], i>>] = IF IsMsg(u[i]) THEN Append(g[i - 1], u[i]) ELSE g[i - 1]
      BY <3>1, <3>2 DEF step
    <3> QED
      BY <1>6, <2>1, <3>3
  <2> QED
    BY <1>6, <2>1
<1>8. g = Body(g)
  BY <1>6, <1>7, Zenon
<1>9. upTo = Body(upTo)
  BY <1>8, Zenon
<1> HIDE DEF upTo
<1>10. \A i \in 0..n : upTo[i] = IF i = 0 THEN <<>>
                                ELSE IF IsMsg(u[i]) THEN Append(upTo[i - 1], u[i])
                                ELSE upTo[i - 1]
  BY <1>9, Zenon
<1>11. \A i \in 0..n : upTo[i] = g[i]
  <2> DEFINE P == {k \in Nat : k \in 0..n => upTo[k] = g[k]}
  <2>1. 0 \in P
    BY <1>7, <1>10
  <2>2. ASSUME NEW k \in Nat, k \in P PROVE k + 1 \in P
    <3> SUFFICES ASSUME k + 1 \in 0..n PROVE upTo[k + 1] = g[k + 1]
      OBVIOUS
    <3>1. k \in 0..n /\ k + 1 # 0 /\ (k + 1) - 1 = k
      BY <1>1
    <3>2. upTo[k] = g[k]
      BY <2>2, <3>1
    <3> QED
      BY <1>7, <1>10, <3>1, <3>2
  <2> HIDE DEF P
  <2>3. Nat \subseteq P
    BY <2>1, <2>2, SetInduction
  <2> QED
    BY <1>1, <2>3 DEF P
<1>12. Loaded(c) = g[n]
  BY <1>1, <1>2, <1>11
<1> QED
  BY <1>6, <1>7, <1>12 DEF u, n, X

\* What a reader finds in a good file: its lines, and the residue as one more.
LEMMA UnitsAreLines ==
  ASSUME NEW c, Good(c)
  PROVE  /\ Units(c) \in Seq(Line)
         /\ Len(Units(c)) = Size(c)
         /\ \A i \in 1..Len(c.lines) : Units(c)[i] = c.lines[i]
         /\ c.tail = None => Units(c) = c.lines
<1>1. c.lines \in Seq(Line)
  BY DEF Good, Content
<1>2. CASE c.tail = None
  <2>1. Units(c) = c.lines \o <<>>
    BY <1>2 DEF Units
  <2> QED
    BY <1>1, <1>2, <2>1, ConcatEmptySeq, SizeOf
<1>3. CASE c.tail # None
  <2> DEFINE l == IF c.tail.whole THEN c.tail.line ELSE Bad
  <2>1. l \in Line
    BY <1>3 DEF Good, Content, Residue, Line
  <2>2. Units(c) = c.lines \o <<l>>
    BY <1>3 DEF Units
  <2> HIDE DEF l
  <2>3. <<l>> \in Seq(Line) /\ Len(<<l>>) = 1
    BY <2>1
  <2>4. /\ Units(c) \in Seq(Line)
        /\ Len(Units(c)) = Len(c.lines) + 1
        /\ \A i \in 1..(Len(c.lines) + 1) :
             i <= Len(c.lines) => Units(c)[i] = c.lines[i]
    BY <1>1, <2>2, <2>3, ConcatProperties
  <2> QED
    BY <1>1, <1>3, <2>4, SizeOf
<1> QED
  BY <1>2, <1>3

\* LoadSession returns messages, and never finds a file corrupt or too big.
LEMMA GoodLoads ==
  ASSUME NEW c, Good(c)
  PROVE  /\ Loaded(c) \in Seq(Msg)
         /\ LoadOutcome(c) = IF ValidateToolPairing(Loaded(c)) THEN "ok" ELSE "pairing"
<1> DEFINE u == Units(c)
<1>1. /\ c.lines \in Seq(Line) /\ Len(c.lines) \in Nat
      /\ Size(c) <= MaxBytes /\ Size(c) \in Nat
      /\ Size(c) = Len(c.lines) \/ Size(c) = Len(c.lines) + 1
  BY SizeOf DEF Good, Content
<1>2. /\ u \in Seq(Line) /\ Len(u) = Size(c)
      /\ \A i \in 1..Len(c.lines) : u[i] = c.lines[i]
  BY UnitsAreLines
<1> HIDE DEF u
<1>3. Loaded(c) \in Seq(Msg)
  <2>1. Len(u) \in 0..Len(u)
    BY <1>2
  <2> QED
    BY <1>2, <2>1, LoadedStepwise DEF u
<1>4. ~\E i \in 1..Len(u) : i < Len(u) /\ u[i] = Bad
  <2> SUFFICES ASSUME NEW i \in 1..Len(u), i < Len(u) PROVE u[i] # Bad
    OBVIOUS
  <2>1. i \in 1..Len(c.lines)
    BY <1>1, <1>2
  <2> QED
    BY <1>2, <2>1 DEF Good, Shaped
<1>5. ~(Size(c) > MaxBytes)
  BY <1>1, SessionFileAssumption
<1> QED
  BY <1>3, <1>4, <1>5 DEF LoadOutcome, u

\* A complete file loads.
LEMMA CompleteLoads ==
  ASSUME NEW c, Good(c), CompleteFile(c)
  PROVE  LoadOutcome(c) = "ok"
<1> DEFINE u == c.lines
           n == Len(u)
<1>1. u \in Seq(Line) /\ Units(c) = u /\ n \in Nat
  BY UnitsAreLines DEF Good, Content, CompleteFile
<1>2. PICK g \in [0..n -> Seq(Msg)] :
        /\ Loaded(c) = g[n]
        /\ \A i \in 0..n : g[i] = IF i = 0 THEN <<>>
                                  ELSE IF IsMsg(u[i]) THEN Append(g[i - 1], u[i])
                                  ELSE g[i - 1]
  BY <1>1, LoadedStepwise
<1>3. CASE u = <<>>
  <2>1. n = 0 /\ Loaded(c) = <<>>
    BY <1>2, <1>3
  <2> QED
    BY <2>1, NoTurnPaired, GoodLoads
<1>4. CASE u # <<>>
  <2> DEFINE ms == Tail(u)
             P == {k \in Nat : k + 1 <= n => g[k + 1] = SubSeq(ms, 1, k)}
  <2>1. n >= 1 /\ u[1] = Meta /\ ms \in Seq(Msg) /\ ValidateToolPairing(ms)
    BY <1>1, <1>4 DEF CompleteFile, Complete
  <2>2. Len(ms) = n - 1 /\ \A i \in 1..(n - 1) : ms[i] = u[i + 1]
    BY <1>1, <1>4
  <2> HIDE DEF n, ms, u
  <2>3. 0 \in P
    <3>1. ~IsMsg(u[1])
      BY <2>1 DEF IsMsg, Meta
    <3>2. 0 \in 0..n /\ 1 \in 0..n /\ 1 # 0 /\ 1 - 1 = 0
      BY <1>1, <2>1
    <3>3. g[0] = <<>> /\ g[1] = g[0]
      BY <1>2, <3>1, <3>2
    <3>4. SubSeq(ms, 1, 0) = <<>>
      BY <2>1
    <3> QED
      BY <3>3, <3>4
  <2>4. ASSUME NEW k \in Nat, k \in P PROVE k + 1 \in P
    <3> SUFFICES ASSUME (k + 1) + 1 <= n PROVE g[(k + 1) + 1] = SubSeq(ms, 1, k + 1)
      OBVIOUS
    <3>1. /\ (k + 1) + 1 \in 0..n /\ (k + 1) + 1 # 0 /\ ((k + 1) + 1) - 1 = k + 1
          /\ k + 1 \in 1..(n - 1) /\ k + 1 <= n
      BY <1>1
    <3>2. ms[k + 1] = u[(k + 1) + 1] /\ ms[k + 1] \in Msg
      BY <2>1, <2>2, <3>1
    <3>3. IsMsg(u[(k + 1) + 1])
      BY <3>2, LineKinds DEF Line
    <3>4. g[(k + 1) + 1] = Append(g[k + 1], ms[k + 1])
      BY <1>2, <3>1, <3>2, <3>3
    <3>5. g[k + 1] = SubSeq(ms, 1, k)
      BY <2>4, <3>1
    <3>6. SubSeq(ms, 1, k + 1) = Append(SubSeq(ms, 1, k), ms[k + 1])
      BY <2>1, <2>2, <3>1
    <3> QED
      BY <3>4, <3>5, <3>6
  <2> HIDE DEF P
  <2>5. n - 1 \in P
    <3>1. n - 1 \in Nat
      BY <1>1, <2>1
    <3> QED
      BY <2>3, <2>4, <3>1, SetInduction
  <2>6. g[n] = SubSeq(ms, 1, n - 1)
    BY <1>1, <2>1, <2>5 DEF P
  <2>7. SubSeq(ms, 1, n - 1) = ms
    BY <2>1, <2>2, SubSeqFull
  <2> QED
    BY <1>2, <2>1, <2>6, <2>7, GoodLoads
<1> QED
  BY <1>3, <1>4

(***************************************************************************)
(* What a save may write.                                                   *)
(***************************************************************************)

\* Messages are neither the metadata line nor a glued one.
LEMMA MsgLines ==
  /\ Msg \subseteq Line /\ Meta \in Line
  /\ \A l \in Msg : l # Meta /\ l # Bad
  BY DEF Line, Meta, Bad, Msg

\* The metadata line is readable.
LEMMA MetaNotBad == Meta # Bad
  BY DEF Meta, Bad

\* What SaveSession writes is a whole transcript.
LEMMA HistoryComplete ==
  ASSUME NEW keep \in Seq(Msg), ValidateToolPairing(keep), NEW p \in Procs
  PROVE  /\ <<Meta>> \o keep \o Turn(p) # <<>>
         /\ Complete(<<Meta>> \o keep \o Turn(p))
         /\ <<Meta>> \o keep \o Turn(p) \in Seq(Line)
<1> DEFINE ms == keep \o Turn(p)
           ls == <<Meta>> \o ms
<1>1. ms \in Seq(Msg) /\ ValidateToolPairing(ms)
  BY TurnPaired
<1>2. <<Meta>> \o keep \o Turn(p) = ls
  <2>1. Turn(p) \in Seq(Msg)
    BY DEF Turn, Msg
  <2>2. <<Meta>> \in Seq(Line) /\ keep \in Seq(Line) /\ Turn(p) \in Seq(Line)
    BY <2>1, MsgLines, SeqMonotonic
  <2> QED
    BY <2>2, ConcatAssociative
<1> HIDE DEF ms
<1>3. ms \in Seq(Line) /\ <<Meta>> \in Seq(Line) /\ Len(<<Meta>>) = 1
  BY <1>1, MsgLines, SeqMonotonic
<1>4. /\ ls \in Seq(Line) /\ Len(ls) = 1 + Len(ms) /\ Len(ms) \in Nat
      /\ \A i \in 1..(1 + Len(ms)) : ls[i] = IF i <= 1 THEN <<Meta>>[i] ELSE ms[i - 1]
  BY <1>3, ConcatProperties
<1> HIDE DEF ls
<1>5. Len(ls) > 0 /\ ls[1] = Meta /\ ls # <<>>
  BY <1>4
<1>6. Tail(ls) = ms
  <2>1. Tail(ls) \in Seq(Line) /\ Len(Tail(ls)) = Len(ms)
        /\ \A i \in 1..Len(ms) : Tail(ls)[i] = ls[i + 1]
    BY <1>4, <1>5, HeadTailProperties
  <2>2. ASSUME NEW i \in 1..Len(ms) PROVE ls[i + 1] = ms[i]
    <3>1. i + 1 \in 1..(1 + Len(ms)) /\ ~(i + 1 <= 1) /\ (i + 1) - 1 = i
      BY <1>4
    <3> QED
      BY <1>4, <3>1
  <2> QED
    BY <1>3, <2>1, <2>2, SeqEqual
<1> QED
  BY <1>1, <1>2, <1>4, <1>5, <1>6 DEF Complete

\* The temporary file of a rewrite is good when it is half written and when it
\* is written.
LEMMA RewrittenGood ==
  ASSUME NEW ls, ls # <<>>, Complete(ls), Len(ls) <= MaxBytes
  PROVE  /\ Good(Whole(ls)) /\ CompleteFile(Whole(ls))
         /\ Good([lines |-> <<>>, tail |-> [by |-> None, line |-> Meta, whole |-> FALSE]])
<1>1. /\ ls \in Seq(Line) /\ Len(ls) \in Nat /\ Len(ls) > 0 /\ ls[1] = Meta
      /\ Tail(ls) \in Seq(Msg)
  BY DEF Complete
<1>2. /\ Whole(ls).lines = ls /\ Whole(ls).tail = None /\ Whole(ls) \in Content
  BY <1>1 DEF Whole, Content
<1>3. ASSUME NEW i \in 1..Len(ls)
      PROVE  ls[i] # Bad /\ (ls[i] = Meta <=> i = 1)
  <2>1. CASE i = 1
    BY <1>1, <2>1, MetaNotBad
  <2>2. CASE i # 1
    <3>1. /\ i - 1 \in 1..Len(Tail(ls)) /\ Tail(ls)[i - 1] = ls[(i - 1) + 1]
          /\ (i - 1) + 1 = i
      BY <1>1, <2>2
    <3>2. ls[i] \in Msg
      BY <1>1, <3>1, ElementOfSeq
    <3> QED
      BY <2>2, <3>2, MsgLines
  <2> QED
    BY <2>1, <2>2
<1>4. Shaped(Whole(ls))
  BY <1>2, <1>3 DEF Shaped
<1>5. Size(Whole(ls)) = Len(ls)
  BY <1>1, <1>2, SizeOf
<1> DEFINE t == [by |-> None, line |-> Meta, whole |-> FALSE]
           h == [lines |-> <<>>, tail |-> t]
<1>6. t \in Residue /\ t # None /\ t.line = Meta
  <2>1. t \in Residue
    BY MsgLines DEF Residue
  <2> QED
    BY <2>1, NoneAssumption
<1> HIDE DEF t
<1>7. h \in Content /\ h.lines = <<>> /\ h.tail = t
  BY <1>6 DEF Content
<1> HIDE DEF h
<1>8. Size(h) = 1
  <2>1. h.lines \in Seq(Line) /\ Len(h.lines) = 0
    BY <1>7
  <2>2. h.tail # None
    BY <1>6, <1>7
  <2>3. Size(h) = Len(h.lines) + 1
    BY <2>1, <2>2, SizeOf
  <2> QED
    BY <2>1, <2>3
<1>9. Shaped(h)
  BY <1>6, <1>7, MetaNotBad DEF Shaped
<1>10. Good(h)
  BY <1>1, <1>7, <1>8, <1>9, SessionFileAssumption DEF Good
<1> QED
  BY <1>1, <1>2, <1>4, <1>5, <1>10 DEF Good, CompleteFile, h, t

\* A writer may add a turn, with the metadata before it in an empty file.
LEMMA HeaderGood ==
  ASSUME NEW c, Good(c), NEW p \in Procs,
         Len(c.lines) + Len(WithHeader(c.lines, Turn(p))) <= MaxBytes
  PROVE  /\ CanWrite(c.lines, WithHeader(c.lines, Turn(p)))
         /\ Complete(c.lines) => Complete(c.lines \o WithHeader(c.lines, Turn(p)))
<1> DEFINE ls == c.lines
           out == WithHeader(ls, Turn(p))
<1>1. ls \in Seq(Line)
  BY DEF Good, Content
<1>2. /\ Turn(p) \in Seq(Line) /\ Len(Turn(p)) = 2
      /\ Turn(p)[1] \in Msg /\ Turn(p)[2] \in Msg
  <2>1. /\ Turn(p) \in Seq(Msg) /\ Len(Turn(p)) = 2
        /\ Turn(p)[1] \in Msg /\ Turn(p)[2] \in Msg
    BY DEF Turn, Msg
  <2> QED
    BY <2>1, MsgLines, SeqMonotonic
<1>3. \A j \in 1..2 : Turn(p)[j] # Bad /\ Turn(p)[j] # Meta
  <2>1. \A j \in 1..2 : j = 1 \/ j = 2
    OBVIOUS
  <2> QED
    BY <1>2, <2>1, MsgLines
<1>4. CASE ls # <<>>
  <2>1. out = Turn(p)
    BY <1>4 DEF WithHeader
  <2>2. CanWrite(ls, out)
    <3>1. Len(ls) + Len(Turn(p)) <= MaxBytes
      BY <2>1
    <3>2. \A j \in 1..Len(Turn(p)) :
            Turn(p)[j] # Bad /\ (Turn(p)[j] = Meta <=> j = 1 /\ ls = <<>>)
      BY <1>2, <1>3, <1>4
    <3>3. CanWrite(ls, Turn(p))
      BY <1>2, <3>1, <3>2 DEF CanWrite
    <3> QED
      BY <2>1, <3>3
  <2>3. Complete(ls) => Complete(ls \o out)
    <3> SUFFICES ASSUME Complete(ls) PROVE Complete(ls \o out)
      OBVIOUS
    <3> DEFINE ms == Tail(ls)
    <3>1. Len(ls) > 0 /\ ls[1] = Meta /\ ms \in Seq(Msg) /\ ValidateToolPairing(ms)
      BY <1>4 DEF Complete
    <3>2. ls = <<Meta>> \o ms
      <4>1. /\ <<Meta>> \in Seq(Line) /\ Len(<<Meta>>) = 1 /\ ms \in Seq(Line)
            /\ Len(ms) = Len(ls) - 1 /\ Len(ls) \in Nat
            /\ \A i \in 1..Len(ms) : ms[i] = ls[i + 1]
        BY <1>1, <1>4, MsgLines, HeadTailProperties
      <4> HIDE DEF ms
      <4>2. /\ <<Meta>> \o ms \in Seq(Line) /\ Len(<<Meta>> \o ms) = Len(ls)
            /\ \A i \in 1..(1 + Len(ms)) :
                 (<<Meta>> \o ms)[i] = IF i <= 1 THEN <<Meta>>[i] ELSE ms[i - 1]
        BY <4>1, ConcatProperties
      <4>3. ASSUME NEW i \in 1..Len(ls) PROVE ls[i] = (<<Meta>> \o ms)[i]
        <5>1. CASE i = 1
          BY <3>1, <4>1, <4>2, <5>1
        <5>2. CASE i # 1
          <6>1. /\ i - 1 \in 1..Len(ms) /\ (i - 1) + 1 = i /\ ~(i <= 1)
                /\ i \in 1..(1 + Len(ms))
            BY <4>1, <5>2
          <6> QED
            BY <4>1, <4>2, <6>1
        <5> QED
          BY <5>1, <5>2
      <4> QED
        BY <1>1, <4>2, <4>3, SeqEqual
    <3> QED
      BY <2>1, <3>1, <3>2, HistoryComplete
  <2> QED
    BY <2>2, <2>3
<1>5. CASE ls = <<>>
  <2>1. out = <<Meta>> \o Turn(p)
    BY <1>5 DEF WithHeader
  <2>2. <<Meta>> \in Seq(Line) /\ Len(<<Meta>>) = 1
    BY MsgLines
  <2>3. /\ out \in Seq(Line) /\ Len(out) = 3
        /\ \A i \in 1..(1 + 2) : out[i] = IF i <= 1 THEN <<Meta>>[i] ELSE Turn(p)[i - 1]
    BY <1>2, <2>1, <2>2, ConcatProperties, SMTT(30)
  <2>4. \A i \in 1..3 : out[i] # Bad /\ (out[i] = Meta <=> i = 1)
    BY <1>3, <2>3, MetaNotBad
  <2>5. CanWrite(ls, out)
    BY <1>5, <2>3, <2>4 DEF CanWrite
  <2>6. ls \o out = out
    BY <1>5, <2>3, ConcatEmptySeq
  <2>7. Complete(out)
    <3>1. <<Meta>> \o <<>> = <<Meta>>
      OBVIOUS
    <3> QED
      BY <2>1, <3>1, NoTurnPaired, HistoryComplete
  <2> QED
    BY <2>5, <2>6, <2>7
<1> QED
  BY <1>4, <1>5

(***************************************************************************)
(* The inductive invariant and its steps.                                   *)
(***************************************************************************)

\* Where a writer is, by what it holds.
Appending == {"trim", "write", "rest", "sync"}
Writing   == {"write", "rest"}
Rewriting == {"create", "fill", "tsync", "rename", "dirsync"}
Temping == {"fill", "tsync", "rename"}
BeforeAppend == {"openAppend", "lockAppend", "pollAppend", "trim"}
BeforeRename == {"openRewrite", "lockRewrite", "pollRewrite", "create", "fill"}
Opened    == {"lockRewrite", "lockAppend", "pollRewrite", "pollAppend"}
               \cup Appending \cup Rewriting

\* Who has opened the file has a file, and who writes holds its lock.
LocksHeld ==
  \A p \in Procs :
    /\ pc[p] \in Opened => fd[p] \in used
    /\ pc[p] \in Appending \cup Rewriting => owner[fd[p]] = p

\* The name the path has is one of those a power failure may leave.
PathKnown == dir \in mayDir

\* The temporary file of a rewrite is its own: no other writer has it open and
\* no power failure can give it the name before the rename.
TempsPrivate ==
  \A p \in Procs :
    /\ pc[p] \in Temping \cup {"dirsync"} => tmp[p] \in used
    /\ tmp[p] # None => pc[p] \in Temping \cup {"dirsync"}
    /\ \A q \in Procs : tmp[p] # None /\ tmp[p] = tmp[q] => p = q
    /\ pc[p] \in Temping => tmp[p] \notin mayDir /\ \A q \in Procs : fd[q] # tmp[p]

\* What is to be written: the history of a turn, the turn of an append, the whole
\* transcript of a rewrite.
Todos ==
  \A p \in Procs :
    /\ pc[p] = "turn" => todo[p] \in Seq(Msg) /\ ValidateToolPairing(todo[p])
    /\ pc[p] \in BeforeAppend => todo[p] = Turn(p)
    /\ pc[p] \in BeforeRename =>
         todo[p] # <<>> /\ Complete(todo[p]) /\ Len(todo[p]) <= MaxBytes

\* Every file holds a good content, and so does every content a power failure
\* may leave of it.
ContentsGood ==
  \A i \in Inodes : Good(file[i]) /\ file[i] \in may[i] /\ \A c \in may[i] : Good(c)

\* A writer between its lines: it may add what is left, the residue is its own,
\* and with what is left an uncut file is a whole transcript.
WriterSound(p) ==
  /\ pc[p] \in Writing => CanWrite(file[fd[p]].lines, todo[p])
  /\ pc[p] = "write" => file[fd[p]].tail = None
  /\ pc[p] = "rest" => /\ file[fd[p]].tail # None
                       /\ file[fd[p]].tail.by = p
                       /\ file[fd[p]].tail.line = todo[p][1]
  /\ pc[p] \in Writing /\ fd[p] \notin cut =>
       /\ Complete(file[fd[p]].lines \o todo[p])
       /\ may[fd[p]] = {file[fd[p]]} => CompleteFile(file[fd[p]])

\* All of them.
Writers == \A p \in Procs : WriterSound(p)

\* A file that nobody was stopped in the middle of is whole, or being written.
Uncut ==
  \A i \in Inodes \ cut :
    \/ CompleteFile(file[i])
    \/ \E p \in Procs : pc[p] \in Writing /\ fd[p] = i

\* What is synced is what a power failure leaves.
Durable ==
  \A p \in Procs :
    /\ pc[p] = "rename" => may[tmp[p]] = {file[tmp[p]]}
    /\ pc[p] = "dirsync" /\ lastBy = p => dir = tmp[p] /\ may[dir] = {file[dir]}

\* The conjuncts of TypeOK, by the parts of the state.
FileTypes == file \in [Inodes -> Content] /\ may \in [Inodes -> SUBSET Content]
DirTypes  == /\ used \subseteq Inodes /\ cut \subseteq Inodes
             /\ dir \in used \cup {None} /\ mayDir \subseteq used \cup {None}
PcTypes   == pc \in [Procs -> PCs]
ProcTypes == /\ owner \in [Inodes -> Procs \cup {None}]
             /\ fd \in [Procs -> used \cup {None}]
             /\ tmp \in [Procs -> used \cup {None}]
TodoTypes == todo \in [Procs -> Seq(Line)]
CountTypes == /\ faults \in 0..MaxFaults /\ saves \in 0..MaxSaves
              /\ lastBy \in Procs \cup {None} /\ safe \in BOOLEAN

\* The inductive invariant of the session files.
SessionInv ==
  /\ FileTypes /\ DirTypes /\ PcTypes /\ ProcTypes /\ TodoTypes /\ CountTypes
  /\ LocksHeld /\ PathKnown /\ TempsPrivate /\ Todos
  /\ ContentsGood /\ Writers /\ Uncut /\ Durable /\ SavedIsDurable

\* A new inode is free.
LEMMA FreshFree ==
  ASSUME DirTypes, used # Inodes
  PROVE  Fresh \in Inodes /\ Fresh \notin used
<1>1. \E i \in Inodes : i \notin used
  BY DEF DirTypes
<1> QED
  BY <1>1, Zenon DEF Fresh

\* What a reader finds under the path is good.
LEMMA PathGood ==
  ASSUME DirTypes, ContentsGood
  PROVE  Good(AtPath)
<1>1. CASE dir = None
  BY <1>1, EmptyGood DEF AtPath
<1>2. CASE dir # None
  BY <1>2 DEF AtPath, DirTypes, ContentsGood
<1> QED
  BY <1>1, <1>2

\* A turn is lines.
LEMMA TurnLines ==
  ASSUME NEW p \in Procs
  PROVE  Turn(p) \in Seq(Line)
<1>1. Turn(p) \in Seq(Msg)
  BY DEF Turn, Msg
<1> QED
  BY <1>1, MsgLines, SeqMonotonic

\* Who appends or rewrites holds the lock, so nobody else does on that inode.
LEMMA OneWriter ==
  ASSUME LocksHeld
  PROVE  \A p, q \in Procs :
           /\ pc[p] \in Appending \cup Rewriting
           /\ pc[q] \in Appending \cup Rewriting
           /\ fd[p] = fd[q]
           => p = q
  BY DEF LocksHeld

\* One file changes, to a good content.
LEMMA OneContent ==
  ASSUME FileTypes, ContentsGood, NEW i \in Inodes, NEW c, NEW S,
         Good(c), c \in S, \A d \in S : d \in may[i] \/ Good(d),
         file' = [file EXCEPT ![i] = c], may' = [may EXCEPT ![i] = S]
  PROVE  FileTypes' /\ ContentsGood'
<1>1. \A d \in S : Good(d)
  BY DEF ContentsGood
<1>2. S \subseteq Content /\ c \in Content
  BY <1>1 DEF Good
<1> QED
  BY <1>1, <1>2 DEF FileTypes, ContentsGood

\* A writer whose file and plans stay as they were.
LEMMA WriterKept ==
  ASSUME Writers, NEW q \in Procs,
         pc'[q] \in Writing =>
           /\ pc'[q] = pc[q] /\ fd'[q] = fd[q] /\ todo'[q] = todo[q]
           /\ file'[fd[q]] = file[fd[q]] /\ may'[fd[q]] = may[fd[q]]
           /\ fd[q] \in cut => fd[q] \in cut'
  PROVE  WriterSound(q)'
  BY DEF Writers, WriterSound, Writing

\* A writer that gives up or is done: it lets go of its lock and its files.
LEMMA ReturnKeeps ==
  ASSUME SessionInv, NEW p \in Procs,
         Return(p), pc[p] \notin Writing, faults' \in 0..MaxFaults,
         UNCHANGED <<fileState, dirState, saves, cut, ghosts>>
  PROVE  SessionInv'
<1>1. (FileTypes /\ DirTypes /\ PcTypes /\ ProcTypes /\ TodoTypes)'
  BY DEF SessionInv, FileTypes, DirTypes, PcTypes, ProcTypes, TodoTypes, PCs, Return,
     Unlocked, fileState, dirState
<1>2. (CountTypes /\ PathKnown /\ Todos /\ ContentsGood)'
  BY DEF SessionInv, PcTypes, CountTypes, PathKnown, Todos, ContentsGood,
     BeforeAppend, BeforeRename, Return, ghosts, dirState, fileState
<1>3. LocksHeld'
  BY DEF SessionInv, DirTypes, PcTypes, LocksHeld, Appending, Rewriting, Opened,
     Return, Unlocked, fileState
<1>4. TempsPrivate'
  BY SessionFileAssumption DEF SessionInv, DirTypes, PcTypes, ProcTypes, TempsPrivate,
     Temping, Return, fileState, dirState
<1>5. Writers'
  BY DEF SessionInv, Writers, WriterSound, Writing, Return, fileState
<1>6. Uncut'
  BY DEF SessionInv, Uncut, Return, fileState
<1>7. Durable'
  BY DEF SessionInv, PcTypes, Durable, Return, fileState, dirState, ghosts
<1>8. SavedIsDurable'
  BY DEF SessionInv, SavedIsDurable, fileState, dirState, ghosts
<1> QED
  BY <1>1, <1>2, <1>3, <1>4, <1>5, <1>6, <1>7, <1>8 DEF SessionInv

\* A writer fails or is killed between two halves of a line: what it wrote stays
\* and nobody owns the rest of it.
LEMMA CutShortKeeps ==
  ASSUME SessionInv, NEW p \in Procs,
         pc[p] \in Writing,
         file' = [file EXCEPT ![fd[p]] = Orphaned(@)],
         may' = [may EXCEPT ![fd[p]] = @ \cup {Orphaned(file[fd[p]])}],
         cut' = cut \cup {fd[p]}, ChangedBy(p), Return(p), faults' \in 0..MaxFaults,
         UNCHANGED <<used, dirState, saves>>
  PROVE  SessionInv'
<1>1. fd[p] \in used /\ fd[p] \in Inodes
  BY DEF SessionInv, LocksHeld, Opened, Appending, Writing, DirTypes
<1>2. FileTypes' /\ ContentsGood'
  <2> DEFINE c == Orphaned(file[fd[p]])
             S == may[fd[p]] \cup {c}
  <2>1. Good(c)
    BY <1>1, OrphanedGood DEF SessionInv, ContentsGood
  <2>2. file' = [file EXCEPT ![fd[p]] = c] /\ may' = [may EXCEPT ![fd[p]] = S]
    BY <1>1 DEF SessionInv, FileTypes
  <2>3. c \in S /\ \A d \in S : d \in may[fd[p]] \/ Good(d)
    BY <2>1
  <2> HIDE DEF c, S
  <2> QED
    BY <1>1, <2>1, <2>2, <2>3, OneContent DEF SessionInv
<1>3. DirTypes'
  BY <1>1 DEF SessionInv, DirTypes, dirState
<1>4. (PcTypes /\ ProcTypes /\ TodoTypes /\ Todos)'
  BY DEF SessionInv, PcTypes, ProcTypes, TodoTypes, Todos, PCs, Writing, BeforeAppend,
     BeforeRename, Return, Unlocked
<1>5. CountTypes'
  BY DEF SessionInv, CountTypes, ChangedBy
<1>6. LocksHeld'
  BY DEF SessionInv, DirTypes, PcTypes, LocksHeld, Appending, Rewriting, Opened,
     Return, Unlocked
<1>7. PathKnown'
  BY DEF SessionInv, PathKnown, dirState
<1>8. TempsPrivate'
  BY SessionFileAssumption DEF SessionInv, DirTypes, TempsPrivate, Writing, Temping,
     Return, dirState
<1>9. Writers'
  BY DEF SessionInv, FileTypes, DirTypes, PcTypes, ProcTypes, LocksHeld, Writers,
     WriterSound, Appending, Writing, Return
<1>10. Uncut'
  BY DEF SessionInv, Uncut, Return
<1>11. Durable'
  BY <1>1, SessionFileAssumption DEF SessionInv, ProcTypes, TempsPrivate, Durable,
     Writing, Return, ChangedBy
<1>12. SavedIsDurable'
  BY DEF SessionInv, SavedIsDurable, ChangedBy
<1> QED
  BY <1>2, <1>3, <1>4, <1>5, <1>6, <1>7, <1>8, <1>9, <1>10, <1>11, <1>12 DEF SessionInv

\* LoadSession, for the history of the turn to come.
LEMMA ResolveKeeps ==
  ASSUME SessionInv, NEW p \in Procs, NEW saveNew \in BOOLEAN, Resolve(p, saveNew)
  PROVE  SessionInv'
<1>1. /\ Loaded(AtPath) \in Seq(Msg) /\ Loaded(AtPath) \in Seq(Line)
      /\ ValidateToolPairing(Loaded(AtPath))
  <2>1. Loaded(AtPath) \in Seq(Msg) /\ ValidateToolPairing(Loaded(AtPath))
    BY PathGood, GoodLoads DEF SessionInv, Resolve
  <2> QED
    BY <2>1, MsgLines, SeqMonotonic
<1>2. (FileTypes /\ DirTypes /\ PcTypes /\ ProcTypes /\ CountTypes)'
  BY DEF SessionInv, FileTypes, DirTypes, PcTypes, ProcTypes, CountTypes, PCs,
     Resolve, Goto, fileState, dirState, ghosts
<1>3. TodoTypes'
  BY <1>1 DEF SessionInv, TodoTypes, Resolve
<1>4. (LocksHeld /\ PathKnown /\ TempsPrivate)'
  BY DEF SessionInv, LocksHeld, PathKnown, TempsPrivate, Appending, Rewriting, Opened,
     Temping, Resolve, Goto, fileState, dirState
<1>5. Todos'
  BY <1>1 DEF SessionInv, TodoTypes, Todos, BeforeAppend, BeforeRename, Resolve, Goto
<1>6. (ContentsGood /\ SavedIsDurable)'
  BY DEF SessionInv, ContentsGood, SavedIsDurable, Resolve, fileState, dirState,
     ghosts
<1>7. Writers'
  BY DEF SessionInv, Writers, WriterSound, Writing, Resolve, Goto, fileState
<1>8. Uncut'
  BY DEF SessionInv, Uncut, Writing, Resolve, Goto, fileState
<1>9. Durable'
  BY DEF SessionInv, Durable, Resolve, Goto, fileState, dirState, ghosts
<1> QED
  BY <1>2, <1>3, <1>4, <1>5, <1>6, <1>7, <1>8, <1>9 DEF SessionInv

\* SaveSession asked to write the whole history anew; past the limit it refuses.
LEMMA BeginRewriteKeeps ==
  ASSUME SessionInv, NEW p \in Procs, NEW keep \in {todo[p], <<>>},
         BeginRewrite(p, keep)
  PROVE  SessionInv'
<1>1. pc[p] = "turn" /\ keep \in Seq(Msg) /\ ValidateToolPairing(keep)
  BY NoTurnPaired DEF SessionInv, Todos, BeginRewrite
<1>2. LET ls == <<Meta>> \o keep \o Turn(p)
      IN  ls # <<>> /\ Complete(ls) /\ ls \in Seq(Line)
  BY <1>1, HistoryComplete
<1>3. PICK ls : /\ ls # <<>> /\ Complete(ls) /\ ls \in Seq(Line)
      /\ \/ pc' = [pc EXCEPT ![p] = "idle"] /\ todo' = [todo EXCEPT ![p] = <<>>]
         \/ /\ Len(ls) <= MaxBytes /\ pc' = [pc EXCEPT ![p] = "openRewrite"]
            /\ todo' = [todo EXCEPT ![p] = ls]
  <2>1. CASE OverLimit(Len(<<Meta>> \o keep \o Turn(p)))
    BY <1>2, <2>1 DEF BeginRewrite, Goto
  <2>2. CASE ~OverLimit(Len(<<Meta>> \o keep \o Turn(p)))
    <3>1. Len(<<Meta>> \o keep \o Turn(p)) <= MaxBytes
      BY <1>2, <2>2, SessionFileAssumption DEF OverLimit
    <3> QED
      BY <1>2, <2>2, <3>1 DEF BeginRewrite, Goto
  <2> QED
    BY <2>1, <2>2
<1>4. /\ saves < MaxSaves /\ saves' = saves + 1
      /\ UNCHANGED <<fileState, dirState, owner, fd, tmp, faults, cut, ghosts>>
  BY DEF BeginRewrite
<1>5. FileTypes'
  BY <1>4 DEF SessionInv, FileTypes, fileState
<1>6. DirTypes'
  BY <1>4 DEF SessionInv, DirTypes, fileState, dirState
<1>7. PcTypes'
  BY <1>3 DEF SessionInv, PcTypes, PCs
<1>8. ProcTypes'
  BY <1>4 DEF SessionInv, ProcTypes, fileState
<1>9. TodoTypes'
  <2>1. CASE todo' = [todo EXCEPT ![p] = <<>>]
    <3>1. <<>> \in Seq(Line)
      OBVIOUS
    <3> QED
      BY <2>1, <3>1 DEF SessionInv, TodoTypes
  <2>2. CASE todo' = [todo EXCEPT ![p] = ls]
    BY <1>3, <2>2 DEF SessionInv, TodoTypes
  <2> QED
    BY <1>3, <2>1, <2>2
<1>10. CountTypes'
  BY <1>4, SessionFileAssumption DEF SessionInv, CountTypes, ghosts
<1>11. LocksHeld'
  BY <1>3, <1>4 DEF SessionInv, PcTypes, LocksHeld, Appending, Rewriting, Opened,
     fileState
<1>12. PathKnown'
  BY <1>4 DEF SessionInv, PathKnown, dirState
<1>13. TempsPrivate'
  <2>1. \A q \in Procs : pc'[q] = pc[q] \/ (q = p /\ pc'[q] \in {"idle", "openRewrite"})
    <3>1. \E l \in {"idle", "openRewrite"} : pc' = [pc EXCEPT ![p] = l]
      BY <1>3
    <3> QED
      BY <3>1 DEF SessionInv, PcTypes
  <2> QED
    BY <1>1, <1>4, <2>1 DEF SessionInv, TempsPrivate, Temping, fileState, dirState
<1>14. Todos'
  BY <1>1, <1>2, <1>3 DEF SessionInv, FileTypes, PcTypes, TodoTypes, TempsPrivate,
     Todos, Writers, Durable, WriterSound, Writing, Temping, BeforeAppend,
     BeforeRename, PCs, Entry
<1>15. ContentsGood'
  BY <1>4 DEF SessionInv, ContentsGood, fileState
<1>16. Writers'
  BY <1>3, <1>4 DEF SessionInv, FileTypes, PcTypes, TodoTypes, Writers, WriterSound,
     Writing, fileState
<1>17. Uncut'
  BY <1>1, <1>3, <1>4 DEF SessionInv, FileTypes, DirTypes, PcTypes, ProcTypes, Todos,
     Uncut, Writing, fileState
<1>18. Durable'
  BY <1>3, <1>4 DEF SessionInv, FileTypes, DirTypes, PcTypes, TempsPrivate, Durable,
     Temping, fileState, dirState, ghosts
<1>19. SavedIsDurable'
  BY <1>4 DEF SessionInv, SavedIsDurable, fileState, dirState, ghosts
<1> QED
  BY <1>5, <1>6, <1>7, <1>8, <1>9, <1>10, <1>11, <1>12, <1>13, <1>14, <1>15, <1>16,
     <1>17, <1>18, <1>19 DEF SessionInv

\* AppendSession asked to add the turn.
LEMMA BeginAppendKeeps ==
  ASSUME SessionInv, NEW p \in Procs, BeginAppend(p)
  PROVE  SessionInv'
<1>1. Turn(p) \in Seq(Line)
  BY TurnLines
<1>2. (FileTypes /\ DirTypes /\ PcTypes /\ ProcTypes)'
  BY DEF SessionInv, FileTypes, DirTypes, PcTypes, ProcTypes, PCs, BeginAppend, Goto,
     fileState, dirState
<1>3. TodoTypes'
  BY <1>1 DEF SessionInv, TodoTypes, BeginAppend
<1>4. CountTypes'
  BY SessionFileAssumption DEF SessionInv, CountTypes, BeginAppend, ghosts
<1>5. (LocksHeld /\ PathKnown /\ TempsPrivate)'
  BY DEF SessionInv, LocksHeld, PathKnown, TempsPrivate, Appending, Rewriting, Opened,
     Temping, BeginAppend, Goto, fileState, dirState
<1>6. (Todos /\ ContentsGood /\ SavedIsDurable)'
  BY DEF SessionInv, PcTypes, TodoTypes, Todos, ContentsGood, SavedIsDurable,
     BeforeRename, BeginAppend, Goto, fileState, dirState, ghosts
<1>7. Writers'
  BY DEF SessionInv, Writers, WriterSound, Writing, BeginAppend, Goto, fileState
<1>8. Uncut'
  BY DEF SessionInv, Uncut, Writing, BeginAppend, Goto, fileState
<1>9. Durable'
  BY DEF SessionInv, Durable, BeginAppend, Goto, fileState, dirState, ghosts
<1> QED
  BY <1>2, <1>3, <1>4, <1>5, <1>6, <1>7, <1>8, <1>9 DEF SessionInv

\* The writer opens the file that has the name.
LEMMA OpenOldKeeps ==
  ASSUME SessionInv, NEW p \in Procs,
         pc[p] \in {"openRewrite", "openAppend"},
         pc' = [pc EXCEPT ![p] = IF pc[p] = "openRewrite" THEN "lockRewrite"
                                ELSE "lockAppend"],
         dir # None, fd' = [fd EXCEPT ![p] = dir],
         UNCHANGED <<fileState, dirState, ghosts, owner, tmp, todo, faults, saves, cut>>
  PROVE  SessionInv'
<1>1. (FileTypes /\ DirTypes /\ PcTypes /\ ProcTypes /\ TodoTypes /\ CountTypes)'
  BY DEF SessionInv, FileTypes, DirTypes, PcTypes, ProcTypes, TodoTypes, CountTypes,
     PCs, Entry, fileState, dirState, ghosts
<1>2. (LocksHeld /\ PathKnown /\ TempsPrivate)'
  BY DEF SessionInv, DirTypes, ProcTypes, LocksHeld, PathKnown, TempsPrivate,
     Appending, Rewriting, Temping, fileState, dirState
<1>3. (Todos /\ ContentsGood /\ SavedIsDurable)'
  BY DEF SessionInv, Todos, ContentsGood, SavedIsDurable, BeforeAppend, BeforeRename,
     fileState, dirState, ghosts
<1>4. Writers'
  BY DEF SessionInv, Writers, WriterSound, Writing, fileState
<1>5. Uncut'
  BY DEF SessionInv, Uncut, Writing, fileState
<1>6. Durable'
  BY DEF SessionInv, Durable, fileState, dirState, ghosts
<1> QED
  BY <1>1, <1>2, <1>3, <1>4, <1>5, <1>6 DEF SessionInv

\* The writer opens the name when no file has it: an empty file takes it.
LEMMA OpenNewKeeps ==
  ASSUME SessionInv, NEW p \in Procs,
         pc[p] \in {"openRewrite", "openAppend"},
         pc' = [pc EXCEPT ![p] = IF pc[p] = "openRewrite" THEN "lockRewrite"
                                ELSE "lockAppend"],
         NEW f \in Inodes \ used, used' = used \cup {f},
         file' = [file EXCEPT ![f] = Empty], may' = [may EXCEPT ![f] = {Empty}],
         dir = None, dir' = f, mayDir' = mayDir \cup {f}, fd' = [fd EXCEPT ![p] = f],
         ChangedBy(p), UNCHANGED <<owner, tmp, todo, faults, saves, cut>>
  PROVE  SessionInv'
<1>1. FileTypes' /\ ContentsGood'
  <2>1. Empty \in {Empty} /\ \A d \in {Empty} : Good(d)
    BY EmptyGood
  <2> QED
    BY <2>1, OneContent DEF SessionInv
<1>2. \A i \in used : file'[i] = file[i] /\ may'[i] = may[i]
  BY DEF SessionInv, FileTypes, DirTypes
<1>3. \A i \in Inodes : file'[i] = file[i] \/ CompleteFile(file'[i])
  BY EmptyGood DEF SessionInv, FileTypes, DirTypes
<1>4. f # None
  BY SessionFileAssumption
<1>5. (DirTypes /\ PcTypes /\ ProcTypes /\ TodoTypes /\ CountTypes /\ LocksHeld)'
  BY DEF SessionInv, DirTypes, PcTypes, ProcTypes, TodoTypes, CountTypes, LocksHeld,
     PCs, Appending, Rewriting, Entry, ChangedBy
<1>6. (PathKnown /\ TempsPrivate /\ Todos /\ SavedIsDurable)'
  BY DEF SessionInv, PathKnown, TempsPrivate, Todos, SavedIsDurable, Temping,
     BeforeAppend, BeforeRename, ChangedBy
<1>7. Writers'
  <2> SUFFICES ASSUME NEW q \in Procs PROVE WriterSound(q)'
    BY DEF Writers
  <2>1. pc'[q] \in Writing =>
          q # p /\ pc'[q] = pc[q] /\ fd'[q] = fd[q] /\ fd[q] \in used
    BY DEF SessionInv, PcTypes, ProcTypes, LocksHeld, Opened, Appending, Writing
  <2> QED
    BY <1>2, <2>1, WriterKept DEF SessionInv
<1>8. Uncut'
  BY <1>3 DEF SessionInv, Uncut, Writing
<1>9. Durable'
  BY <1>4 DEF SessionInv, ProcTypes, Durable, ChangedBy
<1> QED
  BY <1>1, <1>5, <1>6, <1>7, <1>8, <1>9 DEF SessionInv

\* The lock was free.
LEMMA FlockGotKeeps ==
  ASSUME SessionInv, NEW p \in Procs,
         pc[p] \in {"lockRewrite", "lockAppend", "pollRewrite", "pollAppend"},
         owner[fd[p]] = None, owner' = [owner EXCEPT ![fd[p]] = p],
         pc' = [pc EXCEPT ![p] = IF pc[p] \in {"lockRewrite", "pollRewrite"} THEN "create"
                                ELSE "trim"],
         UNCHANGED <<fileState, dirState, proc, faults, saves, cut, ghosts>>
  PROVE  SessionInv'
<1>1. (FileTypes /\ DirTypes /\ PcTypes /\ ProcTypes /\ TodoTypes /\ CountTypes)'
  BY DEF SessionInv, FileTypes, DirTypes, PcTypes, ProcTypes, TodoTypes, CountTypes,
     PCs, fileState, dirState, proc, ghosts
<1>2. LocksHeld'
  BY SessionFileAssumption DEF SessionInv, DirTypes, ProcTypes, LocksHeld, Opened,
     fileState, proc
<1>3. (PathKnown /\ TempsPrivate /\ Todos /\ ContentsGood)'
  BY DEF SessionInv, PathKnown, TempsPrivate, Todos, ContentsGood, Temping,
     BeforeAppend, BeforeRename, dirState, fileState, proc
<1>4. Writers'
  BY DEF SessionInv, Writers, WriterSound, Writing, fileState, proc
<1>5. Uncut'
  BY DEF SessionInv, Uncut, Writing, fileState, proc
<1>6. Durable'
  BY DEF SessionInv, Durable, fileState, dirState, proc, ghosts
<1>7. SavedIsDurable'
  BY DEF SessionInv, SavedIsDurable, fileState, dirState, ghosts
<1> QED
  BY <1>1, <1>2, <1>3, <1>4, <1>5, <1>6, <1>7 DEF SessionInv

\* The lock is held: the writer polls for it.
LEMMA FlockBusyKeeps ==
  ASSUME SessionInv, NEW p \in Procs,
         pc[p] \in {"lockRewrite", "lockAppend", "pollRewrite", "pollAppend"},
         pc' = [pc EXCEPT ![p] = IF pc[p] \in {"lockRewrite", "pollRewrite"}
                                THEN "pollRewrite" ELSE "pollAppend"],
         UNCHANGED <<owner, fileState, dirState, proc, faults, saves, cut, ghosts>>
  PROVE  SessionInv'
<1>1. (FileTypes /\ DirTypes /\ PcTypes /\ ProcTypes /\ TodoTypes)'
  BY DEF SessionInv, FileTypes, DirTypes, PcTypes, ProcTypes, TodoTypes, PCs, Entry,
     fileState, dirState, proc
<1>2. (CountTypes /\ LocksHeld /\ PathKnown)'
  BY DEF SessionInv, CountTypes, LocksHeld, PathKnown, Appending, Rewriting, Opened,
     ghosts, fileState, proc, dirState
<1>3. (TempsPrivate /\ Todos /\ ContentsGood /\ SavedIsDurable)'
  BY DEF SessionInv, TempsPrivate, Todos, ContentsGood, SavedIsDurable, Temping,
     BeforeAppend, BeforeRename, fileState, dirState, proc, ghosts
<1>4. Writers'
  BY DEF SessionInv, Writers, WriterSound, Writing, fileState, proc
<1>5. Uncut'
  BY DEF SessionInv, Uncut, Writing, fileState, proc
<1>6. Durable'
  BY DEF SessionInv, Durable, fileState, dirState, proc, ghosts
<1> QED
  BY <1>1, <1>2, <1>3, <1>4, <1>5, <1>6 DEF SessionInv

\* The residue is cut off, and the limit or the system ends the append there.
LEMMA TrimCutKeeps ==
  ASSUME SessionInv, NEW p \in Procs,
         pc[p] = "trim",
         SetFile(fd[p], EnsureTrailingNewline(file[fd[p]])), ChangedBy(p), Return(p),
         UNCHANGED <<dirState, faults, saves, cut>>
  PROVE  SessionInv'
<1>1. fd[p] \in used /\ fd[p] \in Inodes
  BY DEF SessionInv, LocksHeld, Opened, Appending, DirTypes
<1>2. Good(file[fd[p]]) /\ Good(EnsureTrailingNewline(file[fd[p]]))
  BY <1>1, TrimmedGood DEF SessionInv, ContentsGood
<1>3. FileTypes' /\ ContentsGood'
  <2> DEFINE c == EnsureTrailingNewline(file[fd[p]])
             S == may[fd[p]] \cup {c}
  <2>1. file' = [file EXCEPT ![fd[p]] = c] /\ may' = [may EXCEPT ![fd[p]] = S]
    BY <1>1 DEF SessionInv, FileTypes, SetFile
  <2>2. c \in S /\ \A d \in S : d \in may[fd[p]] \/ Good(d)
    BY <1>2
  <2> HIDE DEF c, S
  <2> QED
    BY <1>1, <1>2, <2>1, <2>2, OneContent DEF SessionInv, c
<1>4. \A q \in Procs : q # p /\ pc[q] \in Writing => fd[q] # fd[p]
  BY OneWriter DEF SessionInv, Writing, Appending
<1>5. fd[p] \notin cut => CompleteFile(file[fd[p]])
  BY <1>1, <1>4 DEF SessionInv, Uncut, Writing
<1>6. CompleteFile(file[fd[p]]) => EnsureTrailingNewline(file[fd[p]]) = file[fd[p]]
  <2>1. file[fd[p]] = [lines |-> file[fd[p]].lines, tail |-> file[fd[p]].tail]
    BY <1>2 DEF Good, Content
  <2> QED
    BY <2>1 DEF CompleteFile, EnsureTrailingNewline, Whole
<1>7. (DirTypes /\ PcTypes /\ ProcTypes /\ PathKnown)'
  BY DEF SessionInv, DirTypes, PcTypes, ProcTypes, PathKnown, PCs, SetFile, Return,
     Unlocked, dirState
<1>8. TodoTypes'
  BY DEF SessionInv, TodoTypes, Return
<1>9. CountTypes'
  BY DEF SessionInv, CountTypes, ChangedBy
<1>10. LocksHeld'
  BY DEF SessionInv, DirTypes, PcTypes, LocksHeld, Appending, Rewriting, Opened,
     SetFile, Return, Unlocked
<1>11. TempsPrivate'
  BY SessionFileAssumption DEF SessionInv, DirTypes, TempsPrivate, Temping, SetFile,
     Return, dirState
<1>12. (Todos /\ SavedIsDurable)'
  BY DEF SessionInv, PcTypes, Todos, SavedIsDurable, BeforeAppend, BeforeRename,
     Return, ChangedBy
<1>13. Writers'
  BY <1>4 DEF SessionInv, Writers, WriterSound, Writing, SetFile, Return
<1>14. Uncut'
  BY <1>5, <1>6 DEF SessionInv, Uncut, SetFile, Return
<1>15. Durable'
  BY <1>1, SessionFileAssumption DEF SessionInv, ProcTypes, TempsPrivate, Durable,
     SetFile, ChangedBy, Return
<1> QED
  BY <1>3, <1>7, <1>8, <1>9, <1>10, <1>11, <1>12, <1>13, <1>14, <1>15 DEF SessionInv

\* The residue, if any, is cut off and the lines to write are known.
LEMMA TrimStartKeeps ==
  ASSUME SessionInv, NEW p \in Procs,
         pc[p] = "trim", NEW out, NEW c,
         c = EnsureTrailingNewline(file[fd[p]]),
         \/ c = file[fd[p]] /\ UNCHANGED <<fileState, ghosts>>
         \/ SetFile(fd[p], c) /\ ChangedBy(p),
         out = WithHeader(c.lines, Turn(p)), Len(c.lines) + Len(out) <= MaxBytes,
         pc' = [pc EXCEPT ![p] = "write"],
         todo' = [todo EXCEPT ![p] = out],
         UNCHANGED <<owner, fd, tmp, dirState, faults, saves, cut>>
  PROVE  SessionInv'
<1>1. fd[p] \in used /\ fd[p] \in Inodes
  BY DEF SessionInv, LocksHeld, Opened, Appending, DirTypes
<1>2. Good(file[fd[p]]) /\ Good(EnsureTrailingNewline(file[fd[p]]))
  BY <1>1, TrimmedGood DEF SessionInv, ContentsGood
<1>3. FileTypes' /\ ContentsGood'
  <2>1. CASE UNCHANGED <<fileState, ghosts>>
    BY <2>1 DEF SessionInv, FileTypes, ContentsGood, fileState
  <2>2. CASE SetFile(fd[p], c)
    <3> DEFINE S == may[fd[p]] \cup {c}
    <3>1. file' = [file EXCEPT ![fd[p]] = c] /\ may' = [may EXCEPT ![fd[p]] = S]
      BY <1>1, <2>2 DEF SessionInv, FileTypes, SetFile
    <3>2. c \in S /\ Good(c) /\ \A d \in S : d \in may[fd[p]] \/ Good(d)
      BY <1>2
    <3> HIDE DEF S
    <3> QED
      BY <1>1, <3>1, <3>2, OneContent DEF SessionInv
  <2> QED
    BY <2>1, <2>2
<1>4. \A q \in Procs : q # p /\ pc[q] \in Writing => fd[q] # fd[p]
  BY OneWriter DEF SessionInv, Writing, Appending
<1>5. fd[p] \notin cut => CompleteFile(file[fd[p]])
  BY <1>1, <1>4 DEF SessionInv, Uncut, Writing
<1>6. CompleteFile(file[fd[p]]) => EnsureTrailingNewline(file[fd[p]]) = file[fd[p]]
  <2>1. file[fd[p]] = [lines |-> file[fd[p]].lines, tail |-> file[fd[p]].tail]
    BY <1>2 DEF Good, Content
  <2> QED
    BY <2>1 DEF CompleteFile, EnsureTrailingNewline, Whole
<1>7. /\ CanWrite(c.lines, out) /\ out \in Seq(Line) /\ c.tail = None
      /\ c.lines = file[fd[p]].lines
      /\ Complete(c.lines) => Complete(c.lines \o out)
  <2>1. CanWrite(c.lines, out) /\ (Complete(c.lines) => Complete(c.lines \o out))
    BY <1>2, HeaderGood
  <2> QED
    BY <2>1 DEF CanWrite, EnsureTrailingNewline, Whole
<1>8. /\ file'[fd[p]] = c
      /\ \A i \in Inodes : i # fd[p] => file'[i] = file[i] /\ may'[i] = may[i]
  BY <1>1 DEF SessionInv, FileTypes, SetFile, fileState
<1>9. fd[p] \notin cut => c = file[fd[p]] /\ Complete(c.lines)
  BY <1>5, <1>6 DEF CompleteFile
<1>10. (DirTypes /\ PcTypes /\ ProcTypes /\ CountTypes /\ PathKnown)'
  BY DEF SessionInv, DirTypes, PcTypes, ProcTypes, CountTypes, PathKnown, PCs,
     SetFile, ChangedBy, fileState, dirState, ghosts
<1>11. TodoTypes'
  BY <1>7 DEF SessionInv, TodoTypes
<1>12. LocksHeld'
  BY <1>1 DEF SessionInv, LocksHeld, Appending, SetFile, fileState
<1>13. (TempsPrivate /\ Todos)'
  BY DEF SessionInv, PcTypes, TempsPrivate, Todos, Temping, BeforeAppend,
     BeforeRename, SetFile, fileState, dirState
<1>14. Writers'
  <2>1. WriterSound(p)'
    <3>1. /\ pc'[p] = "write" /\ fd'[p] = fd[p] /\ todo'[p] = out /\ cut' = cut
          /\ file'[fd[p]] = c
      BY <1>8 DEF SessionInv, PcTypes, TodoTypes
    <3>2. CompleteFile(c) \/ fd[p] \in cut
      BY <1>7, <1>9 DEF CompleteFile
    <3> QED
      BY <1>7, <1>9, <3>1, <3>2 DEF WriterSound
  <2>2. ASSUME NEW q \in Procs, q # p PROVE WriterSound(q)'
    <3>1. pc'[q] = pc[q] /\ fd'[q] = fd[q] /\ todo'[q] = todo[q] /\ cut' = cut
      BY <2>2 DEF SessionInv, PcTypes, TodoTypes
    <3>2. pc'[q] \in Writing => fd[q] # fd[p] /\ fd[q] \in Inodes
      BY <1>4, <2>2, <3>1 DEF SessionInv, LocksHeld, Opened, Appending, Writing,
         DirTypes
    <3> QED
      BY <1>8, <3>1, <3>2, WriterKept DEF SessionInv
  <2> QED
    BY <2>1, <2>2 DEF Writers
<1>15. Uncut'
  BY <1>5, <1>8, <1>9 DEF SessionInv, Uncut
<1>16. Durable'
  BY <1>8 DEF SessionInv, DirTypes, TempsPrivate, Durable, Temping, ChangedBy,
     fileState, dirState, ghosts
<1>17. SavedIsDurable'
  BY DEF SessionInv, SavedIsDurable, ChangedBy, fileState, dirState, ghosts
<1> QED
  BY <1>3, <1>10, <1>11, <1>12, <1>13, <1>14, <1>15, <1>16, <1>17 DEF SessionInv

\* A line reaches the file in part.
LEMMA WriteHalfKeeps ==
  ASSUME SessionInv, NEW p \in Procs, NEW w \in BOOLEAN, WriteHalf(p, w)
  PROVE  SessionInv'
<1>1. fd[p] \in used /\ fd[p] \in Inodes
  BY DEF SessionInv, LocksHeld, Opened, Appending, DirTypes, WriteHalf
<1>2. PICK new :
        /\ Good(new) /\ new.lines = file[fd[p]].lines
        /\ new.tail # None /\ new.tail.by = p /\ new.tail.line = todo[p][1]
        /\ file' = [file EXCEPT ![fd[p]] = new]
        /\ may' = [may EXCEPT ![fd[p]] = @ \cup {new}]
  <2> DEFINE c == file[fd[p]]
             h == [c EXCEPT !.tail = [by |-> p, line |-> Head(todo[p]), whole |-> w]]
  <2>1. Good(c) /\ c.tail = None /\ CanWrite(c.lines, todo[p])
    BY <1>1 DEF SessionInv, ContentsGood, Writers, WriterSound, WriteHalf, Writing
  <2>2. HalfLine(p, w) = h
    BY <2>1 DEF HalfLine
  <2>3. /\ Good(h) /\ h.lines = c.lines
        /\ h.tail # None /\ h.tail.by = p /\ h.tail.line = todo[p][1]
    BY <2>1, HalfGood
  <2>4. SetFile(fd[p], h)
    BY <2>2 DEF WriteHalf
  <2> HIDE DEF h
  <2> QED
    BY <2>3, <2>4 DEF SetFile
<1>3. FileTypes' /\ ContentsGood'
  <2> DEFINE S == may[fd[p]] \cup {new}
  <2>1. file' = [file EXCEPT ![fd[p]] = new] /\ may' = [may EXCEPT ![fd[p]] = S]
    BY <1>1, <1>2 DEF SessionInv, FileTypes
  <2>2. new \in S /\ Good(new) /\ \A d \in S : d \in may[fd[p]] \/ Good(d)
    BY <1>2
  <2> HIDE DEF S
  <2> QED
    BY <1>1, <2>1, <2>2, OneContent DEF SessionInv
<1>4. \A q \in Procs : q # p /\ pc[q] \in Writing => fd[q] # fd[p]
  BY OneWriter DEF SessionInv, Writing, Appending, WriteHalf
<1>5. /\ pc[p] = "write" /\ pc' = [pc EXCEPT ![p] = "rest"]
      /\ used' = used /\ ChangedBy(p)
      /\ UNCHANGED <<dirState, owner, proc, faults, saves, cut>>
  BY DEF WriteHalf, Goto, SetFile
<1>6. /\ file'[fd[p]] = new /\ file[fd[p]] # new /\ file[fd[p]] \in may'[fd[p]]
      /\ new \in may'[fd[p]]
      /\ \A i \in Inodes : i # fd[p] => file'[i] = file[i] /\ may'[i] = may[i]
  BY <1>1, <1>2, <1>5 DEF SessionInv, FileTypes, Writers, WriterSound, ContentsGood
<1>7. DirTypes'
  BY <1>5 DEF SessionInv, DirTypes, WriteHalf, dirState
<1>8. PcTypes'
  BY <1>5 DEF SessionInv, PcTypes, PCs, WriteHalf
<1>9. ProcTypes'
  BY <1>5 DEF SessionInv, ProcTypes, WriteHalf, proc
<1>10. (TodoTypes /\ CountTypes /\ PathKnown /\ SavedIsDurable)'
  BY DEF SessionInv, TodoTypes, CountTypes, PathKnown, SavedIsDurable, WriteHalf,
     ChangedBy, proc, dirState
<1>11. LocksHeld'
  BY <1>1, <1>5 DEF SessionInv, LocksHeld, Appending, WriteHalf, proc
<1>12. TempsPrivate'
  BY <1>5 DEF SessionInv, TempsPrivate, Temping, WriteHalf, dirState, proc
<1>13. Todos'
  BY <1>5 DEF SessionInv, Todos, BeforeAppend, BeforeRename, WriteHalf, proc
<1>14. Writers'
  <2>1. WriterSound(p)'
    <3>1. /\ pc'[p] = "rest" /\ fd'[p] = fd[p] /\ todo'[p] = todo[p] /\ cut' = cut
          /\ file'[fd[p]] = new /\ may'[fd[p]] # {new}
      BY <1>5, <1>6 DEF SessionInv, PcTypes, TodoTypes, proc
    <3>2. WriterSound(p)
      BY DEF SessionInv, Writers
    <3> QED
      BY <1>2, <1>5, <3>1, <3>2 DEF WriterSound, Writing
  <2>2. ASSUME NEW q \in Procs, q # p PROVE WriterSound(q)'
    <3>1. pc'[q] = pc[q] /\ fd'[q] = fd[q] /\ todo'[q] = todo[q] /\ cut' = cut
      BY <1>5, <2>2 DEF SessionInv, PcTypes, TodoTypes, proc
    <3>2. pc'[q] \in Writing => fd[q] # fd[p] /\ fd[q] \in Inodes
      BY <1>4, <2>2, <3>1 DEF SessionInv, LocksHeld, Opened, Appending, Writing,
         DirTypes
    <3> QED
      BY <1>6, <3>1, <3>2, WriterKept DEF SessionInv
  <2> QED
    BY <2>1, <2>2 DEF Writers
<1>15. Uncut'
  BY <1>5, <1>6 DEF SessionInv, Uncut, Writing, WriteHalf, proc
<1>16. Durable'
  BY <1>1, <1>2, <1>5, SessionFileAssumption DEF SessionInv, ProcTypes, TempsPrivate,
     Durable, WriteHalf, ChangedBy, proc
<1> QED
  BY <1>3, <1>7, <1>8, <1>9, <1>10, <1>11, <1>12, <1>13, <1>14, <1>15, <1>16
    DEF SessionInv

\* The rest of the line reaches the file.
LEMMA WriteRestKeeps ==
  ASSUME SessionInv, NEW p \in Procs, WriteRest(p)
  PROVE  SessionInv'
<1>1. fd[p] \in used /\ fd[p] \in Inodes
  BY DEF SessionInv, LocksHeld, Opened, Appending, DirTypes, WriteRest
<1>2. PICK new :
        /\ Good(new) /\ new.tail = None
        /\ Len(todo[p]) # 1 => CanWrite(new.lines, Tail(todo[p]))
        /\ new.lines \o Tail(todo[p]) = file[fd[p]].lines \o todo[p]
        /\ Len(todo[p]) = 1 => new.lines = file[fd[p]].lines \o todo[p]
        /\ file' = [file EXCEPT ![fd[p]] = new]
        /\ may' = [may EXCEPT ![fd[p]] = @ \cup {new}]
  <2> DEFINE c == file[fd[p]]
             n == Whole(Append(c.lines, todo[p][1]))
  <2>1. /\ Good(c) /\ CanWrite(c.lines, todo[p])
        /\ c.tail # None /\ c.tail.by = p /\ c.tail.line = todo[p][1]
    BY <1>1 DEF SessionInv, ContentsGood, Writers, WriterSound, WriteRest, Writing
  <2>2. FullLine(p) = n
    BY <2>1 DEF FullLine, Whole
  <2>3. n.tail = None /\ n.lines = Append(c.lines, todo[p][1])
    BY DEF Whole
  <2>4. SetFile(fd[p], n)
    BY <2>2 DEF WriteRest
  <2>5. Good(n)
    BY <2>1, FullGood
  <2> HIDE DEF n
  <2>6. /\ Len(todo[p]) # 1 => CanWrite(n.lines, Tail(todo[p]))
        /\ n.lines \o Tail(todo[p]) = c.lines \o todo[p]
        /\ Len(todo[p]) = 1 => n.lines = c.lines \o todo[p]
    BY <2>1, <2>3, FullGood
  <2> QED
    BY <2>3, <2>4, <2>5, <2>6 DEF SetFile
<1>3. FileTypes' /\ ContentsGood'
  <2> DEFINE S == may[fd[p]] \cup {new}
  <2>1. file' = [file EXCEPT ![fd[p]] = new] /\ may' = [may EXCEPT ![fd[p]] = S]
    BY <1>1, <1>2 DEF SessionInv, FileTypes
  <2>2. new \in S /\ Good(new) /\ \A d \in S : d \in may[fd[p]] \/ Good(d)
    BY <1>2
  <2> HIDE DEF S
  <2> QED
    BY <1>1, <2>1, <2>2, OneContent DEF SessionInv
<1>4. \A q \in Procs : q # p /\ pc[q] \in Writing => fd[q] # fd[p]
  BY OneWriter DEF SessionInv, Writing, Appending, WriteRest
<1>5. /\ pc[p] = "rest" /\ todo' = [todo EXCEPT ![p] = Tail(@)]
      /\ pc' = [pc EXCEPT ![p] = IF Len(todo[p]) = 1 THEN "sync" ELSE "write"]
      /\ used' = used /\ ChangedBy(p)
      /\ UNCHANGED <<dirState, owner, fd, tmp, faults, saves, cut>>
  BY DEF WriteRest, Goto, SetFile
<1>6. /\ file'[fd[p]] = new /\ file[fd[p]] # new /\ file[fd[p]] \in may'[fd[p]]
      /\ new \in may'[fd[p]]
      /\ \A i \in Inodes : i # fd[p] => file'[i] = file[i] /\ may'[i] = may[i]
  BY <1>1, <1>2, <1>5 DEF SessionInv, FileTypes, Writers, WriterSound, ContentsGood
<1>7. Tail(todo[p]) \in Seq(Line)
  <2>1. CanWrite(file[fd[p]].lines, todo[p])
    BY <1>5 DEF SessionInv, Writers, WriterSound, Writing
  <2> QED
    BY <2>1 DEF CanWrite
<1>8. DirTypes'
  BY <1>5 DEF SessionInv, DirTypes, WriteRest, dirState
<1>9. PcTypes'
  BY <1>5 DEF SessionInv, PcTypes, PCs, WriteRest
<1>10. ProcTypes'
  BY <1>5 DEF SessionInv, ProcTypes, WriteRest
<1>11. TodoTypes'
  BY <1>7 DEF SessionInv, TodoTypes, WriteRest
<1>12. (CountTypes /\ PathKnown /\ SavedIsDurable)'
  BY DEF SessionInv, CountTypes, PathKnown, SavedIsDurable, WriteRest, ChangedBy,
     dirState
<1>13. LocksHeld'
  BY <1>1, <1>5 DEF SessionInv, LocksHeld, Appending, WriteRest
<1>14. TempsPrivate'
  BY <1>5 DEF SessionInv, TempsPrivate, Temping, WriteRest, dirState
<1>15. Todos'
  BY <1>5 DEF SessionInv, Todos, BeforeAppend, BeforeRename, WriteRest
<1>16. Writers'
  <2>1. WriterSound(p)'
    <3>1. /\ fd'[p] = fd[p] /\ todo'[p] = Tail(todo[p]) /\ cut' = cut
          /\ file'[fd[p]] = new /\ may'[fd[p]] # {new}
          /\ pc'[p] = IF Len(todo[p]) = 1 THEN "sync" ELSE "write"
      BY <1>5, <1>6 DEF SessionInv, PcTypes, TodoTypes
    <3>2. WriterSound(p)
      BY DEF SessionInv, Writers
    <3>3. CASE Len(todo[p]) = 1
      BY <3>1, <3>3 DEF WriterSound, Writing
    <3>4. CASE Len(todo[p]) # 1
      <4>1. pc'[p] = "write" /\ CanWrite(new.lines, Tail(todo[p])) /\ new.tail = None
        BY <1>2, <3>1, <3>4
      <4>2. fd[p] \notin cut => Complete(new.lines \o Tail(todo[p]))
        BY <1>2, <1>5, <3>2 DEF WriterSound, Writing
      <4> QED
        BY <3>1, <4>1, <4>2 DEF WriterSound, Writing
    <3> QED
      BY <3>3, <3>4
  <2>2. ASSUME NEW q \in Procs, q # p PROVE WriterSound(q)'
    <3>1. pc'[q] = pc[q] /\ fd'[q] = fd[q] /\ todo'[q] = todo[q] /\ cut' = cut
      BY <1>5, <2>2 DEF SessionInv, PcTypes, TodoTypes, proc
    <3>2. pc'[q] \in Writing => fd[q] # fd[p] /\ fd[q] \in Inodes
      BY <1>4, <2>2, <3>1 DEF SessionInv, LocksHeld, Opened, Appending, Writing,
         DirTypes
    <3> QED
      BY <1>6, <3>1, <3>2, WriterKept DEF SessionInv
  <2> QED
    BY <2>1, <2>2 DEF Writers
<1>17. Uncut'
  <2> SUFFICES ASSUME NEW i \in Inodes, i \notin cut'
               PROVE  \/ CompleteFile(file'[i])
                      \/ \E q \in Procs : pc'[q] \in Writing /\ fd'[q] = i
    BY DEF Uncut
  <2>1. CASE i = fd[p]
    <3>1. WriterSound(p) /\ file'[i] = new /\ fd[p] \notin cut
      BY <1>5, <1>6, <2>1 DEF SessionInv, Writers
    <3>2. CASE Len(todo[p]) = 1
      BY <1>2, <1>5, <3>1, <3>2 DEF WriterSound, CompleteFile, Writing
    <3>3. CASE Len(todo[p]) # 1
      BY <1>5, <2>1, <3>3 DEF SessionInv, PcTypes, Writing
    <3> QED
      BY <3>2, <3>3
  <2>2. CASE i # fd[p]
    <3>1. file'[i] = file[i] /\ i \notin cut /\ fd' = fd
      BY <1>5, <1>6, <2>2
    <3>2. \A q \in Procs : q # p => pc'[q] = pc[q]
      BY <1>5 DEF SessionInv, PcTypes
    <3> QED
      BY <2>2, <3>1, <3>2 DEF SessionInv, Uncut
  <2> QED
    BY <2>1, <2>2
<1>18. Durable'
  <2>1. pc'[p] \in {"sync", "write"} /\ lastBy' = p /\ tmp' = tmp
    BY <1>5 DEF SessionInv, PcTypes, ChangedBy
  <2>2. ASSUME NEW q \in Procs, pc'[q] = "rename" PROVE may'[tmp[q]] = {file'[tmp[q]]}
    <3>1. q # p /\ pc[q] = "rename"
      BY <1>5, <2>1, <2>2 DEF SessionInv, PcTypes
    <3>2. tmp[q] \in Inodes /\ tmp[q] # fd[p]
      BY <3>1 DEF SessionInv, TempsPrivate, Temping, DirTypes
    <3>3. may[tmp[q]] = {file[tmp[q]]}
      BY <3>1 DEF SessionInv, Durable
    <3> QED
      BY <1>6, <3>2, <3>3
  <2>3. ASSUME NEW q \in Procs, pc'[q] = "dirsync", lastBy' = q PROVE FALSE
    BY <2>1, <2>3
  <2> QED
    BY <2>1, <2>2, <2>3 DEF Durable
<1> QED
  BY <1>3, <1>8, <1>9, <1>10, <1>11, <1>12, <1>13, <1>14, <1>15, <1>16, <1>17,
     <1>18 DEF SessionInv

\* Sync of an append, which may fail.
LEMMA AppendSyncKeeps ==
  ASSUME SessionInv, NEW p \in Procs, AppendSync(p)
  PROVE  SessionInv'
<1>1. \A q \in Procs : pc[q] \in Writing => fd[q] # fd[p]
  BY OneWriter DEF SessionInv, AppendSync, Writing, Appending
<1>2. (FileTypes /\ DirTypes /\ PcTypes)'
  BY DEF SessionInv, FileTypes, DirTypes, PcTypes, LocksHeld, Appending, Opened, PCs,
     AppendSync, SyncFile, Return, dirState
<1>3. (ProcTypes /\ TodoTypes /\ CountTypes /\ PathKnown /\ Todos)'
  BY DEF SessionInv, ProcTypes, TodoTypes, CountTypes, PathKnown, Todos, BeforeAppend,
     BeforeRename, AppendSync, Return, Unlocked, dirState
<1>4. LocksHeld'
  BY DEF SessionInv, DirTypes, PcTypes, LocksHeld, Appending, Rewriting, Opened,
     AppendSync, Return, Unlocked
<1>5. TempsPrivate'
  BY SessionFileAssumption DEF SessionInv, DirTypes, TempsPrivate, Temping,
     AppendSync, Return, dirState
<1>6. ContentsGood'
  BY DEF SessionInv, ContentsGood, AppendSync, SyncFile
<1>7. Writers'
  <2> SUFFICES ASSUME NEW q \in Procs PROVE WriterSound(q)'
    BY DEF Writers
  <2>1. pc'[q] \in Writing =>
          q # p /\ pc'[q] = pc[q] /\ fd'[q] = fd[q] /\ todo'[q] = todo[q]
    BY DEF SessionInv, PcTypes, ProcTypes, TodoTypes, Writing, AppendSync, Return
  <2>2. pc'[q] \in Writing => file'[fd[q]] = file[fd[q]] /\ may'[fd[q]] = may[fd[q]]
    BY <1>1, <2>1 DEF SessionInv, AppendSync, SyncFile, FileTypes
  <2> QED
    BY <2>1, <2>2, WriterKept DEF SessionInv, AppendSync
<1>8. Uncut'
  BY <1>1 DEF SessionInv, Uncut, AppendSync, Return
<1>9. Durable'
  BY DEF SessionInv, Durable, AppendSync, SyncFile, Return, dirState
<1>10. SavedIsDurable'
  BY SessionFileAssumption DEF SessionInv, FileTypes, DirTypes, CountTypes, LocksHeld,
     PathKnown, SavedIsDurable, Appending, Opened, AppendSync, SyncFile, dirState
<1> QED
  BY <1>2, <1>3, <1>4, <1>5, <1>6, <1>7, <1>8, <1>9, <1>10 DEF SessionInv

\* The temporary file of a rewrite.
LEMMA CreateTempKeeps ==
  ASSUME SessionInv, NEW p \in Procs, CreateTemp(p)
  PROVE  SessionInv'
<1>1. PICK f : f \in Inodes \ used /\ Allocate(f) /\ tmp' = [tmp EXCEPT ![p] = f]
  BY FreshFree DEF SessionInv, CreateTemp, Allocate
<1>2. FileTypes' /\ ContentsGood'
  <2>1. Empty \in {Empty} /\ \A d \in {Empty} : Good(d)
    BY EmptyGood
  <2> QED
    BY <1>1, <2>1, OneContent DEF SessionInv, Allocate
<1>3. \A i \in used : file'[i] = file[i] /\ may'[i] = may[i]
  BY <1>1 DEF SessionInv, FileTypes, DirTypes, Allocate
<1>4. \A i \in Inodes : file'[i] = file[i] \/ CompleteFile(file'[i])
  BY <1>1, EmptyGood DEF SessionInv, FileTypes, DirTypes, Allocate
<1>5. f # None
  BY <1>1, SessionFileAssumption
<1>6. pc[p] = "create" /\ pc' = [pc EXCEPT ![p] = "fill"] /\ used' = used \cup {f}
      /\ UNCHANGED <<dirState, owner, fd, todo, faults, saves, cut, ghosts>>
  BY <1>1 DEF CreateTemp, Goto, Allocate
<1>7. DirTypes'
  BY <1>1, <1>6 DEF SessionInv, DirTypes, CreateTemp, dirState
<1>8. PcTypes'
  BY <1>6 DEF SessionInv, PcTypes, PCs, CreateTemp
<1>9. ProcTypes'
  BY <1>1, <1>6 DEF SessionInv, ProcTypes, CreateTemp
<1>10. (TodoTypes /\ CountTypes /\ PathKnown)'
  BY DEF SessionInv, TodoTypes, CountTypes, PathKnown, CreateTemp, ghosts, dirState
<1>11. LocksHeld'
  BY <1>6 DEF SessionInv, LocksHeld, Rewriting, Opened, CreateTemp
<1>12. TempsPrivate'
  BY <1>1, <1>5, <1>6 DEF SessionInv, DirTypes, PcTypes, ProcTypes, TempsPrivate,
     Temping, CreateTemp, dirState
<1>13. Todos'
  BY <1>6 DEF SessionInv, Todos, BeforeAppend, BeforeRename, CreateTemp
<1>14. Writers'
  <2> SUFFICES ASSUME NEW q \in Procs PROVE WriterSound(q)'
    BY DEF Writers
  <2>1. pc'[q] \in Writing => pc'[q] = pc[q] /\ fd[q] \in used
    BY <1>6 DEF SessionInv, PcTypes, LocksHeld, Opened, Appending, Writing
  <2> QED
    BY <1>3, <1>6, <2>1, WriterKept DEF SessionInv
<1>15. Uncut'
  BY <1>4, <1>6 DEF SessionInv, Uncut, Writing, CreateTemp
<1>16. Durable'
  BY <1>3, <1>5, <1>6 DEF SessionInv, ProcTypes, Durable, CreateTemp, Allocate,
     dirState, ghosts
<1>17. SavedIsDurable'
  BY <1>1, <1>2 DEF SessionInv, ContentsGood, SavedIsDurable, CreateTemp, Allocate,
     dirState, ghosts
<1> QED
  BY <1>2, <1>7, <1>8, <1>9, <1>10, <1>11, <1>12, <1>13, <1>14, <1>15, <1>16, <1>17
    DEF SessionInv

\* All lines of a rewrite in the temporary file.
LEMMA WriteTempKeeps ==
  ASSUME SessionInv, NEW p \in Procs, WriteTemp(p)
  PROVE  SessionInv'
<1>1. /\ tmp[p] \in used /\ tmp[p] \in Inodes /\ tmp[p] \notin mayDir
      /\ \A q \in Procs : fd[q] # tmp[p]
  BY DEF SessionInv, TempsPrivate, Temping, DirTypes, WriteTemp
<1>2. PICK new, half : /\ Good(new) /\ CompleteFile(new) /\ Good(half)
        /\ file' = [file EXCEPT ![tmp[p]] = new]
        /\ may' = [may EXCEPT ![tmp[p]] = @ \cup {new, half}]
  <2>1. todo[p] # <<>> /\ Complete(todo[p]) /\ Len(todo[p]) <= MaxBytes
    BY DEF SessionInv, Todos, BeforeRename, WriteTemp
  <2> QED
    BY <2>1, RewrittenGood DEF WriteTemp
<1>3. FileTypes' /\ ContentsGood'
  <2> DEFINE S == may[tmp[p]] \cup {new, half}
  <2>1. file' = [file EXCEPT ![tmp[p]] = new] /\ may' = [may EXCEPT ![tmp[p]] = S]
    BY <1>1, <1>2 DEF SessionInv, FileTypes
  <2>2. new \in S /\ \A d \in S : d \in may[tmp[p]] \/ Good(d)
    BY <1>2
  <2> HIDE DEF S
  <2> QED
    BY <1>1, <1>2, <2>1, <2>2, OneContent DEF SessionInv
<1>4. pc[p] = "fill" /\ pc' = [pc EXCEPT ![p] = "tsync"]
      /\ UNCHANGED <<used, dirState, owner, proc, faults, saves, cut, ghosts>>
  BY DEF WriteTemp, Goto
<1>5. (DirTypes /\ ProcTypes /\ TodoTypes /\ CountTypes /\ PathKnown)'
  BY DEF SessionInv, DirTypes, ProcTypes, TodoTypes, CountTypes, PathKnown, WriteTemp,
     dirState, proc, ghosts
<1>6. PcTypes'
  BY <1>4 DEF SessionInv, PcTypes, PCs, WriteTemp
<1>7. LocksHeld'
  BY <1>4 DEF SessionInv, LocksHeld, Rewriting, Opened, WriteTemp, proc
<1>8. TempsPrivate'
  BY <1>4 DEF SessionInv, TempsPrivate, Temping, WriteTemp, dirState, proc
<1>9. Todos'
  BY <1>4 DEF SessionInv, Todos, BeforeAppend, BeforeRename, WriteTemp, proc
<1>10. Writers'
  BY <1>1, <1>4 DEF SessionInv, Writers, WriterSound, Writing, WriteTemp, proc
<1>11. Uncut'
  BY <1>2, <1>4 DEF SessionInv, Uncut, Writing, WriteTemp, proc
<1>12. Durable'
  BY <1>1, <1>4, SessionFileAssumption DEF SessionInv, ProcTypes, TempsPrivate,
     Durable, WriteTemp, dirState, proc, ghosts
<1>13. SavedIsDurable'
  BY <1>1 DEF SessionInv, SavedIsDurable, WriteTemp, dirState, ghosts
<1> QED
  BY <1>3, <1>5, <1>6, <1>7, <1>8, <1>9, <1>10, <1>11, <1>12, <1>13 DEF SessionInv

\* Sync of the temporary file.
LEMMA SyncTempKeeps ==
  ASSUME SessionInv, NEW p \in Procs, SyncTemp(p)
  PROVE  SessionInv'
<1>1. FileTypes'
  BY DEF SessionInv, FileTypes, SyncTemp, SyncFile
<1>2. DirTypes'
  BY DEF SessionInv, DirTypes, SyncTemp, dirState
<1>3. (PcTypes /\ CountTypes /\ LocksHeld)'
  BY DEF SessionInv, PcTypes, CountTypes, LocksHeld, PCs, Rewriting, Opened, SyncTemp,
     Goto, ghosts, proc
<1>4. ProcTypes'
  BY DEF SessionInv, ProcTypes, SyncTemp, proc
<1>5. TodoTypes'
  BY DEF SessionInv, TodoTypes, SyncTemp, proc
<1>6. (PathKnown /\ TempsPrivate /\ Todos)'
  BY DEF SessionInv, PathKnown, TempsPrivate, Todos, Temping, BeforeAppend,
     BeforeRename, SyncTemp, Goto, dirState, proc
<1>7. (ContentsGood /\ SavedIsDurable)'
  BY DEF SessionInv, ContentsGood, SavedIsDurable, SyncTemp, SyncFile, dirState,
     ghosts
<1>8. Writers'
  BY SessionFileAssumption DEF SessionInv, FileTypes, DirTypes, PcTypes, ProcTypes,
     TempsPrivate, Writers, WriterSound, Writing, SyncTemp, Goto, SyncFile, proc
<1>9. Uncut'
  BY DEF SessionInv, Uncut, Writing, SyncTemp, Goto, proc
<1>10. Durable'
  BY DEF SessionInv, FileTypes, DirTypes, TempsPrivate, Durable, Temping, SyncTemp,
     Goto, SyncFile, dirState, proc, ghosts
<1> QED
  BY <1>1, <1>2, <1>3, <1>4, <1>5, <1>6, <1>7, <1>8, <1>9, <1>10 DEF SessionInv

\* The temporary file takes the name.
LEMMA RenameKeeps ==
  ASSUME SessionInv, NEW p \in Procs, Rename(p)
  PROVE  SessionInv'
<1>1. (FileTypes /\ DirTypes /\ PcTypes /\ ProcTypes /\ TodoTypes)'
  BY DEF SessionInv, FileTypes, DirTypes, PcTypes, ProcTypes, TodoTypes, TempsPrivate,
     PCs, Rename, Goto, fileState, proc
<1>2. (CountTypes /\ ContentsGood)'
  BY DEF SessionInv, CountTypes, ContentsGood, Rename, ChangedBy, fileState
<1>3. LocksHeld'
  BY DEF SessionInv, LocksHeld, Rewriting, Opened, Rename, Goto, fileState, proc
<1>4. PathKnown'
  BY DEF SessionInv, PathKnown, Rename
<1>5. TempsPrivate'
  BY SessionFileAssumption DEF SessionInv, DirTypes, PcTypes, TempsPrivate, Temping,
     Rename, Goto, fileState, proc
<1>6. Todos'
  BY DEF SessionInv, Todos, BeforeAppend, BeforeRename, Rename, Goto, proc
<1>7. Writers'
  BY DEF SessionInv, Writers, WriterSound, Writing, Rename, Goto, fileState, proc
<1>8. Uncut'
  BY DEF SessionInv, Uncut, Writing, Rename, Goto, fileState, proc
<1>9. Durable'
  BY DEF SessionInv, Durable, Rename, ChangedBy, Goto, fileState, proc
<1>10. SavedIsDurable'
  BY DEF SessionInv, SavedIsDurable, Rename, ChangedBy
<1> QED
  BY <1>1, <1>2, <1>3, <1>4, <1>5, <1>6, <1>7, <1>8, <1>9, <1>10 DEF SessionInv

\* Sync of the directory behind a rename.
LEMMA SyncDirKeeps ==
  ASSUME SessionInv, NEW p \in Procs, SyncDir(p)
  PROVE  SessionInv'
<1>1. (FileTypes /\ DirTypes /\ PcTypes /\ ProcTypes /\ TodoTypes /\ CountTypes)'
  BY DEF SessionInv, FileTypes, DirTypes, PcTypes, ProcTypes, TodoTypes, CountTypes,
     PCs, SyncDir, Return, Unlocked, fileState
<1>2. LocksHeld'
  BY DEF SessionInv, DirTypes, PcTypes, LocksHeld, Appending, Rewriting, Opened,
     SyncDir, Return, Unlocked, fileState
<1>3. (PathKnown /\ Todos /\ ContentsGood)'
  BY DEF SessionInv, PathKnown, Todos, ContentsGood, BeforeAppend, BeforeRename,
     SyncDir, Return, fileState
<1>4. TempsPrivate'
  BY SessionFileAssumption DEF SessionInv, DirTypes, PcTypes, ProcTypes, PathKnown,
     TempsPrivate, Temping, SyncDir, Return, fileState
<1>5. Writers'
  BY DEF SessionInv, Writers, WriterSound, Writing, SyncDir, Return, fileState
<1>6. Uncut'
  BY DEF SessionInv, Uncut, Writing, SyncDir, Return, fileState
<1>7. Durable'
  BY SessionFileAssumption DEF SessionInv, PcTypes, Durable, SyncDir, Return,
     fileState
<1>8. SavedIsDurable'
  BY SessionFileAssumption DEF SessionInv, DirTypes, CountTypes, TempsPrivate,
     Durable, SavedIsDurable, SyncDir, fileState
<1> QED
  BY <1>1, <1>2, <1>3, <1>4, <1>5, <1>6, <1>7, <1>8 DEF SessionInv

\* The machine loses what was not synced: the name is one it may have had, its
\* file one it may have held, and nobody runs.
LEMMA PowerFailureKeeps ==
  ASSUME SessionInv, PowerFailure
  PROVE  SessionInv'
<1>1. PICK d \in mayDir :
        /\ dir' = d /\ mayDir' = {d}
        /\ IF d = None THEN file' = [i \in Inodes |-> Empty] /\ cut' = {}
          ELSE \E c \in may[d] :
            /\ file' = [i \in Inodes |-> IF i = d THEN Orphaned(c) ELSE Empty]
            /\ cut' = IF may[d] = {file[d]} THEN cut ELSE cut \cup {d}
  BY DEF PowerFailure
<1>2. may' = [i \in Inodes |-> {file'[i]}]
  BY DEF PowerFailure
<1>3. d # None => d \in Inodes /\ d \in used
  BY DEF SessionInv, DirTypes
<1>4. cut' \subseteq Inodes
  BY <1>1, <1>3 DEF SessionInv, DirTypes
<1>5. DOMAIN file' = Inodes /\ file' = [i \in Inodes |-> file'[i]]
  BY <1>1
<1>6. \A i \in Inodes : Good(file'[i])
  BY <1>1, <1>3, EmptyGood, OrphanedGood DEF SessionInv, ContentsGood
<1>7. FileTypes'
  <2>1. \A i \in Inodes : file'[i] \in Content
    BY <1>6 DEF Good
  <2> QED
    BY <1>2, <1>5, <2>1 DEF FileTypes
<1>8. ContentsGood'
  BY <1>2, <1>6 DEF ContentsGood
<1>9. Uncut'
  <2> SUFFICES ASSUME NEW i \in Inodes, i \notin cut' PROVE CompleteFile(file'[i])
    BY DEF Uncut
  <2>1. CASE file'[i] = Empty
    BY <2>1, EmptyGood
  <2>2. CASE file'[i] # Empty
    <3>1. d # None /\ i = d
      BY <1>1, <2>2
    <3>2. PICK c \in may[d] :
            /\ file'[d] = Orphaned(c)
            /\ cut' = IF may[d] = {file[d]} THEN cut ELSE cut \cup {d}
      BY <1>1, <1>3, <3>1
    <3>3. may[d] = {file[d]} /\ d \notin cut /\ c = file[d]
      BY <3>1, <3>2
    <3>4. CompleteFile(file[d])
      BY <1>3, <3>1, <3>3 DEF SessionInv, Uncut, Writers, WriterSound
    <3> QED
      BY <1>3, <3>1, <3>2, <3>3, <3>4, OrphanedGood DEF SessionInv, ContentsGood
  <2> QED
    BY <2>1, <2>2
<1>10. (DirTypes /\ PcTypes /\ ProcTypes /\ TodoTypes /\ LocksHeld /\ PathKnown)'
  BY DEF SessionInv, DirTypes, PcTypes, ProcTypes, TodoTypes, LocksHeld, PathKnown,
     PCs, Appending, Rewriting, Opened, PowerFailure
<1>11. CountTypes'
  BY SessionFileAssumption DEF SessionInv, CountTypes, PowerFailure, ghosts
<1>12. (TempsPrivate /\ Todos)'
  BY DEF SessionInv, TempsPrivate, Todos, Temping, BeforeAppend, BeforeRename,
     PowerFailure
<1>13. Writers'
  BY DEF SessionInv, Writers, WriterSound, Writing, PowerFailure
<1>14. Durable'
  BY DEF SessionInv, Durable, PowerFailure
<1>15. SavedIsDurable'
  BY <1>3 DEF SessionInv, SavedIsDurable, PowerFailure, ghosts
<1> QED
  BY <1>7, <1>8, <1>9, <1>10, <1>11, <1>12, <1>13, <1>14, <1>15 DEF SessionInv

\* The session is deleted.
LEMMA DeleteKeeps ==
  ASSUME SessionInv, Delete
  PROVE  SessionInv'
<1>1. (FileTypes /\ DirTypes /\ PcTypes /\ ProcTypes
      /\ TodoTypes /\ LocksHeld /\ PathKnown /\ Todos)'
  BY DEF SessionInv, FileTypes, DirTypes, PcTypes, ProcTypes, TodoTypes, LocksHeld,
     PathKnown, Todos, Delete, fileState, proc
<1>2. CountTypes'
  <2>1. faults' \in 0..MaxFaults
    BY SessionFileAssumption DEF SessionInv, CountTypes, Delete
  <2>2. lastBy' = None /\ safe' = FALSE /\ saves' = saves
    BY DEF Delete, ChangedBy
  <2> QED
    BY <2>1, <2>2 DEF SessionInv, CountTypes
<1>3. TempsPrivate'
  BY SessionFileAssumption DEF SessionInv, DirTypes, TempsPrivate, Delete, fileState,
     proc
<1>4. (ContentsGood /\ SavedIsDurable)'
  BY DEF SessionInv, ContentsGood, SavedIsDurable, Delete, ChangedBy, fileState
<1>5. Writers'
  BY DEF SessionInv, Writers, WriterSound, Delete, fileState, proc
<1>6. Uncut'
  BY DEF SessionInv, Uncut, Delete, fileState, proc
<1>7. Durable'
  BY SessionFileAssumption DEF SessionInv, Durable, Delete, ChangedBy, fileState, proc
<1> QED
  BY <1>1, <1>2, <1>3, <1>4, <1>5, <1>6, <1>7 DEF SessionInv

(***************************************************************************)
(* The actions, and what follows.                                           *)
(***************************************************************************)

\* No session is saved yet.
LEMMA SessionInitially == Init => SessionInv
<1> SUFFICES ASSUME Init PROVE SessionInv
  OBVIOUS
<1>1. Empty \in Content /\ Good(Empty) /\ CompleteFile(Empty)
  BY EmptyGood DEF Good
<1>2. FileTypes /\ ContentsGood /\ Uncut
  BY <1>1 DEF Init, FileTypes, ContentsGood, Uncut
<1>3. DirTypes /\ PcTypes /\ ProcTypes /\ TodoTypes
  <2>1. <<>> \in Seq(Line)
    OBVIOUS
  <2> QED
    BY <2>1 DEF Init, DirTypes, PcTypes, PCs, ProcTypes, TodoTypes
<1>4. CountTypes
  <2>1. 0 \in 0..MaxFaults /\ 0 \in 0..MaxSaves
    BY SessionFileAssumption
  <2> QED
    BY <2>1 DEF Init, CountTypes
<1>5. LocksHeld /\ PathKnown /\ TempsPrivate /\ Todos
  BY DEF Init, LocksHeld, PathKnown, TempsPrivate, Todos, Opened, Appending, Rewriting,
     Temping, BeforeAppend, BeforeRename
<1>6. Writers /\ Durable /\ SavedIsDurable
  BY DEF Init, Writers, WriterSound, Writing, Durable, SavedIsDurable
<1> QED
  BY <1>2, <1>3, <1>4, <1>5, <1>6 DEF SessionInv

\* The writer opens the path, which gives it a file or creates one.
LEMMA OpenKeeps ==
  ASSUME SessionInv, NEW p \in Procs, Open(p)
  PROVE  SessionInv'
<1>1. pc[p] \in {"openRewrite", "openAppend"}
  BY DEF Open, Locking
<1>2. pc' = [pc EXCEPT ![p] = IF pc[p] = "openRewrite" THEN "lockRewrite" ELSE "lockAppend"]
  <2>1. Locking[pc[p]] = IF pc[p] = "openRewrite" THEN "lockRewrite" ELSE "lockAppend"
    BY <1>1 DEF Locking
  <2>2. pc' = [pc EXCEPT ![p] = Locking[pc[p]]]
    BY DEF Open, Goto
  <2> QED
    BY <2>1, <2>2
<1>3. UNCHANGED <<owner, tmp, todo, faults, saves, cut>>
  BY DEF Open
<1>4. CASE dir # None
  <2>1. fd' = [fd EXCEPT ![p] = dir] /\ UNCHANGED <<fileState, dirState, ghosts>>
    BY <1>4 DEF Open
  <2> QED
    BY <1>1, <1>2, <1>3, <1>4, <2>1, OpenOldKeeps
<1>5. CASE dir = None
  <2>1. /\ Allocate(Fresh) /\ dir' = Fresh /\ mayDir' = mayDir \cup {Fresh}
        /\ fd' = [fd EXCEPT ![p] = Fresh] /\ ChangedBy(p)
    BY <1>5 DEF Open
  <2>2. Fresh \in Inodes \ used
    BY <2>1, FreshFree DEF SessionInv, Allocate
  <2> QED
    BY <1>1, <1>2, <1>3, <1>5, <2>1, <2>2, OpenNewKeeps DEF Allocate
<1> QED
  BY <1>4, <1>5

\* flock answers that the lock is taken, or that it is held.
LEMMA FlockKeeps ==
  ASSUME SessionInv, NEW p \in Procs, Flock(p)
  PROVE  SessionInv'
<1>1. pc[p] \in {"lockRewrite", "lockAppend", "pollRewrite", "pollAppend"}
  BY DEF Flock, Entry
<1>2. /\ Entry[pc[p]] = IF pc[p] \in {"lockRewrite", "pollRewrite"} THEN "create" ELSE "trim"
      /\ Poll[pc[p]] = IF pc[p] \in {"lockRewrite", "pollRewrite"} THEN "pollRewrite"
                       ELSE "pollAppend"
  BY <1>1 DEF Entry, Poll
<1>3. UNCHANGED <<fileState, dirState, proc, faults, saves, cut, ghosts>>
  BY DEF Flock
<1>4. CASE owner[fd[p]] = None
  BY <1>1, <1>2, <1>3, <1>4, FlockGotKeeps DEF Flock, Goto
<1>5. CASE owner[fd[p]] # None
  BY <1>1, <1>2, <1>3, <1>5, FlockBusyKeeps DEF Flock, Goto
<1> QED
  BY <1>4, <1>5

\* AppendMessages before it writes: the residue, the limit, the header.
LEMMA TrimKeeps ==
  ASSUME SessionInv, NEW p \in Procs, Trim(p)
  PROVE  SessionInv'
<1> DEFINE c == file[fd[p]]
           d == EnsureTrailingNewline(c)
           out == WithHeader(c.lines, todo[p])
<1>1. /\ pc[p] = "trim" /\ UNCHANGED <<dirState, faults, saves, cut>>
      /\ pc[p] \notin Writing
  BY DEF Trim, Writing
<1>2. faults' \in 0..MaxFaults
  BY <1>1 DEF SessionInv, CountTypes
<1>3. Good(c) /\ d = Whole(c.lines) /\ d.lines = c.lines
  <2>1. fd[p] \in Inodes
    BY <1>1 DEF SessionInv, LocksHeld, DirTypes, Opened, Appending
  <2> QED
    BY <2>1 DEF SessionInv, ContentsGood, EnsureTrailingNewline, Whole
<1>4. c.tail = None => d = c
  BY <1>3 DEF Good, Content, Whole
<1>5. todo[p] = Turn(p)
  BY <1>1 DEF SessionInv, Todos, BeforeAppend
<1>6. CASE Size(c) > MaxBytes
  BY <1>1, <1>2, <1>6, ReturnKeeps DEF Trim
<1>7. CASE ~(Size(c) > MaxBytes)
  <2>1. \/ d = c /\ UNCHANGED <<fileState, ghosts>>
        \/ SetFile(fd[p], d) /\ ChangedBy(p)
    BY <1>4, <1>7 DEF Trim
  <2>2. CASE OverLimit(Len(c.lines) + Len(out))
    <3>1. Return(p)
      BY <1>7, <2>2 DEF Trim
    <3> QED
      BY <1>1, <1>2, <2>1, <3>1, ReturnKeeps, TrimCutKeeps
  <2>3. CASE ~OverLimit(Len(c.lines) + Len(out))
    <3>1. /\ pc' = [pc EXCEPT ![p] = "write"] /\ todo' = [todo EXCEPT ![p] = out]
          /\ UNCHANGED <<owner, fd, tmp>>
      BY <1>7, <2>3 DEF Trim, Goto
    <3>2. Len(c.lines) + Len(out) <= MaxBytes
      <4>1. Len(c.lines) \in Nat /\ out \in Seq(Line)
        <5>1. out = Turn(p) \/ out = <<Meta>> \o Turn(p)
          BY <1>5 DEF WithHeader
        <5>2. <<Meta>> \in Seq(Line) /\ Turn(p) \in Seq(Line)
          BY MsgLines, TurnLines
        <5>3. <<Meta>> \o Turn(p) \in Seq(Line)
          BY <5>2, ConcatProperties
        <5>4. c.lines \in Seq(Line)
          BY <1>3 DEF Good, Content
        <5>5. out \in Seq(Line)
          BY <5>1, <5>2, <5>3, Zenon
        <5>6. Len(c.lines) \in Nat
          BY <5>4, LenProperties
        <5> QED
          BY <5>5, <5>6
      <4> HIDE DEF out
      <4>2. Len(out) \in Nat
        BY <4>1
      <4> QED
        BY <2>3, <4>1, <4>2, SessionFileAssumption DEF OverLimit
    <3>3. out = WithHeader(d.lines, Turn(p))
      BY <1>3, <1>5
    <3> HIDE DEF d, out
    <3>4. d = EnsureTrailingNewline(file[fd[p]])
      BY DEF d
    <3> QED
      BY <1>1, <1>3, <2>1, <3>1, <3>2, <3>3, <3>4, TrimStartKeeps
  <2> QED
    BY <2>2, <2>3
<1> QED
  BY <1>6, <1>7

\* A process dies, in the middle of a line or elsewhere.
LEMMA CrashKeeps ==
  ASSUME SessionInv, NEW p \in Procs, Crash(p)
  PROVE  SessionInv'
<1>1. faults' \in 0..MaxFaults
  BY SessionFileAssumption DEF SessionInv, CountTypes, Crash
<1>2. Return(p) /\ UNCHANGED <<used, dirState, saves>>
  BY DEF Crash
<1>3. CASE pc[p] \in Writing
  <2>1. /\ file' = [file EXCEPT ![fd[p]] = Orphaned(@)]
        /\ may' = [may EXCEPT ![fd[p]] = @ \cup {Orphaned(file[fd[p]])}]
        /\ cut' = cut \cup {fd[p]} /\ ChangedBy(p)
    BY <1>3 DEF Crash, Writing
  <2> QED
    BY <1>1, <1>2, <1>3, <2>1, CutShortKeeps
<1>4. CASE pc[p] \notin Writing
  <2>1. UNCHANGED <<fileState, cut, ghosts>>
    BY <1>2, <1>4 DEF Crash, Writing, fileState
  <2> QED
    BY <1>1, <1>2, <1>4, <2>1, ReturnKeeps
<1> QED
  BY <1>3, <1>4

\* The steps that only return to the caller, with nothing changed.
LEMMA ReturnsKeep ==
  ASSUME SessionInv, NEW p \in Procs,
         \/ EndTurn(p) \/ OpenFails(p) \/ LockBusy(p)
         \/ AppendSyncFails(p) \/ RewriteFails(p) \/ SyncDirFails(p)
  PROVE  SessionInv'
<1>1. faults' \in 0..MaxFaults
  BY DEF SessionInv, CountTypes, EndTurn, OpenFails, LockBusy, AppendSyncFails,
     RewriteFails, SyncDirFails
<1>2. Return(p) /\ UNCHANGED <<fileState, dirState, saves, cut, ghosts>>
  BY DEF EndTurn, OpenFails, LockBusy, AppendSyncFails, RewriteFails, SyncDirFails
<1>3. pc[p] \notin Writing
  BY DEF EndTurn, OpenFails, LockBusy, AppendSyncFails, RewriteFails, SyncDirFails,
     Locking, Writing
<1> QED
  BY <1>1, <1>2, <1>3, ReturnKeeps

\* Every step of a save.
LEMMA WorkKeeps ==
  ASSUME SessionInv, NEW p \in Procs, Work(p)
  PROVE  SessionInv'
<1>1. CASE Open(p)
  BY <1>1, OpenKeeps
<1>2. CASE \/ OpenFails(p)
           \/ LockBusy(p)
           \/ AppendSyncFails(p)
           \/ RewriteFails(p)
           \/ SyncDirFails(p)
  BY <1>2, ReturnsKeep
<1>3. CASE Flock(p)
  BY <1>3, FlockKeeps
<1>4. CASE Trim(p)
  BY <1>4, TrimKeeps
<1>5. CASE \E w \in BOOLEAN : WriteHalf(p, w)
  BY <1>5, WriteHalfKeeps
<1>6. CASE WriteRest(p)
  BY <1>6, WriteRestKeeps
<1>7. CASE WriteFails(p)
  <2>1. faults' \in 0..MaxFaults
    BY <1>7 DEF SessionInv, CountTypes, WriteFails
  <2> QED
    BY <1>7, <2>1, CutShortKeeps DEF WriteFails, Writing
<1>8. CASE AppendSync(p)
  BY <1>8, AppendSyncKeeps
<1>9. CASE CreateTemp(p)
  BY <1>9, CreateTempKeeps
<1>10. CASE WriteTemp(p)
  BY <1>10, WriteTempKeeps
<1>11. CASE SyncTemp(p)
  BY <1>11, SyncTempKeeps
<1>12. CASE Rename(p)
  BY <1>12, RenameKeeps
<1>13. CASE SyncDir(p)
  BY <1>13, SyncDirKeeps
<1> QED
  BY <1>1, <1>2, <1>3, <1>4, <1>5, <1>6, <1>7, <1>8, <1>9, <1>10, <1>11, <1>12, <1>13
     DEF Work

\* Every step keeps the invariant.
LEMMA SessionStep == SessionInv /\ [Next]_vars => SessionInv'
<1> SUFFICES ASSUME SessionInv, [Next]_vars PROVE SessionInv'
  OBVIOUS
<1>1. ASSUME NEW p \in Procs, NEW saveNew \in BOOLEAN, Resolve(p, saveNew)
      PROVE  SessionInv'
  BY <1>1, ResolveKeeps
<1>2. ASSUME NEW p \in Procs, NEW keep \in {todo[p], <<>>}, BeginRewrite(p, keep)
      PROVE  SessionInv'
  BY <1>2, BeginRewriteKeeps
<1>3. ASSUME NEW p \in Procs, BeginAppend(p) PROVE SessionInv'
  BY <1>3, BeginAppendKeeps
<1>4. ASSUME NEW p \in Procs, EndTurn(p) PROVE SessionInv'
  BY <1>4, ReturnsKeep
<1>5. ASSUME NEW p \in Procs, Work(p) PROVE SessionInv'
  BY <1>5, WorkKeeps
<1>6. ASSUME NEW p \in Procs, Crash(p) PROVE SessionInv'
  BY <1>6, CrashKeeps
<1>7. CASE PowerFailure
  BY <1>7, PowerFailureKeeps
<1>8. CASE Delete
  BY <1>8, DeleteKeeps
<1>9. CASE UNCHANGED vars
  <2>1. UNCHANGED <<fileState, dirState, owner, pc, proc, faults, saves, cut, ghosts>>
    BY <1>9 DEF vars
  <2>2. (FileTypes /\ DirTypes /\ PcTypes /\ ProcTypes /\ TodoTypes /\ CountTypes)'
    BY <2>1 DEF SessionInv, FileTypes, DirTypes, PcTypes, ProcTypes, TodoTypes,
       CountTypes,
       fileState, dirState, proc, ghosts
  <2>3. (LocksHeld /\ PathKnown /\ TempsPrivate /\ Todos)'
    BY <2>1 DEF SessionInv, LocksHeld, PathKnown, TempsPrivate, Todos,
       fileState, dirState, proc, ghosts
  <2>4. (ContentsGood /\ Writers /\ Uncut /\ Durable /\ SavedIsDurable)'
    BY <2>1 DEF SessionInv, ContentsGood, Writers, WriterSound, Uncut, Durable,
       SavedIsDurable, fileState, dirState, proc, ghosts
  <2> QED
    BY <2>2, <2>3, <2>4 DEF SessionInv
<1> QED
  BY <1>1, <1>2, <1>3, <1>4, <1>5, <1>6, <1>7, <1>8, <1>9 DEF Next

\* What the invariant says of the properties.
LEMMA SessionMeans ==
  ASSUME SessionInv
  PROVE  TypeOK /\ NoGluedLine /\ PathLoads /\ SavedIsDurable
<1>1. TypeOK
  BY DEF SessionInv, FileTypes, DirTypes, PcTypes, ProcTypes, TodoTypes, CountTypes,
     TypeOK
<1>2. NoGluedLine
  BY DEF SessionInv, ContentsGood, Good, NoGluedLine
<1>3. PathLoads
  <2>1. Good(AtPath)
    BY PathGood DEF SessionInv
  <2>2. LoadOutcome(AtPath) \in {"ok", "pairing"}
    BY <2>1, GoodLoads
  <2>3. ASSUME LoadOutcome(AtPath) = "pairing", dir \notin cut
        PROVE  \E p \in Procs : pc[p] \in {"write", "rest"} /\ fd[p] = dir
    <3>1. ~CompleteFile(AtPath)
      BY <2>1, <2>3, CompleteLoads
    <3>2. dir # None
      BY <3>1, EmptyGood DEF AtPath
    <3> QED
      BY <2>3, <3>1, <3>2 DEF SessionInv, DirTypes, Uncut, Writing, AtPath
  <2> QED
    BY <2>2, <2>3 DEF PathLoads
<1> QED
  BY <1>1, <1>2, <1>3 DEF SessionInv

\* Types of the session files (SessionFile, every number of processes and files).
THEOREM SessionTyped == Spec => []TypeOK
<1>1. SessionInv => TypeOK
  BY SessionMeans
<1> QED
  BY <1>1, SessionInitially, SessionStep, PTL DEF Spec

\* No file and nothing a power failure can leave of it holds a line glued to the
\* residue of another, or a metadata line inside (ensureTrailingNewline).
THEOREM SessionWhole == Spec => []NoGluedLine
<1>1. SessionInv => NoGluedLine
  BY SessionMeans
<1> QED
  BY <1>1, SessionInitially, SessionStep, PTL DEF Spec

\* A session loads at every moment, and is incomplete only while it is written or
\* behind a writer that was stopped (LoadSession, AppendMessages, RewriteMessages).
THEOREM SessionLoadsAgain == Spec => []PathLoads
<1>1. SessionInv => PathLoads
  BY SessionMeans
<1> QED
  BY <1>1, SessionInitially, SessionStep, PTL DEF Spec

\* A change that returned nil, and whose name had reached the directory on disk,
\* survives a power failure (writeFileAtomic's syncs).  It says nothing of changes that
\* return nil without that: a save whose directory sync failed, an append to a new
\* file, an append to an inode that a rewrite replaced (AckedAppendIsThere).
THEOREM SessionDurable == Spec => []SavedIsDurable
<1>1. SessionInv => SavedIsDurable
  BY SessionMeans
<1> QED
  BY <1>1, SessionInitially, SessionStep, PTL DEF Spec

(***************************************************************************)
(* Configuration: keys belong to their owner.                               *)
(***************************************************************************)

\* What a form can hold: owners with their keys, with the placeholder.
Forms == UNION {[D \cup {Web} -> Keys \cup {NoKey, Mask}] : D \in SUBSET Names}

\* The types, as the steps need them.
ConfigTypes ==
  /\ running \in Configs /\ cfgOnDisk \in Configs \cup {NoConfig}
  /\ form \in [Browsers -> Forms \cup {NoConfig}]
  /\ saving \in [Browsers -> Configs \cup {NoConfig}]
  /\ told \in [Browsers -> {"nothing", "refused", "failed", "saved", "restart"}]
  /\ entered \subseteq Owners \X Keys

\* Its keys were entered where they are.
Owns(c) == c # NoConfig => KeysOf(c) \subseteq entered

\* The inductive invariant of the configuration: every key was entered for the
\* owner it stands at.
ConfigInv ==
  /\ ConfigTypes
  /\ Owns(running) /\ Owns(cfgOnDisk) /\ \A b \in Browsers : Owns(saving[b])

\* A configuration is a function on some providers, at least one, and the server.
LEMMA ConfigIs ==
  ASSUME NEW c
  PROVE  c \in Configs <=> /\ c \in [DOMAIN c -> Keys \cup {NoKey}] /\ Web \in DOMAIN c
                           /\ DOMAIN c \subseteq Owners /\ DOMAIN c # {Web}
<1>1. ASSUME c \in Configs
      PROVE  /\ c \in [DOMAIN c -> Keys \cup {NoKey}] /\ Web \in DOMAIN c
             /\ DOMAIN c \subseteq Owners /\ DOMAIN c # {Web}
  <2>1. PICK D \in (SUBSET Names) \ {{}} : c \in [D \cup {Web} -> Keys \cup {NoKey}]
    BY <1>1 DEF Configs
  <2>2. PICK n \in D : n \in Names
    BY <2>1
  <2>3. DOMAIN c = D \cup {Web}
    BY <2>1
  <2>4. DOMAIN c # {Web}
    BY <2>2, <2>3, ConfigEditAssumption
  <2> QED
    BY <2>1, <2>3, <2>4 DEF Owners
<1>2. ASSUME c \in [DOMAIN c -> Keys \cup {NoKey}], Web \in DOMAIN c, DOMAIN c \subseteq Owners,
             DOMAIN c # {Web}
      PROVE  c \in Configs
  <2> DEFINE D == DOMAIN c \ {Web}
  <2>1. D \in SUBSET Names /\ D \cup {Web} = DOMAIN c
    BY <1>2 DEF Owners
  <2>2. D # {}
    BY <1>2
  <2> HIDE DEF D
  <2>3. D \in (SUBSET Names) \ {{}}
    BY <2>1, <2>2, Zenon
  <2>4. c \in [D \cup {Web} -> Keys \cup {NoKey}]
    BY <1>2, <2>1
  <2> QED
    BY <2>3, <2>4 DEF Configs
<1> QED
  BY <1>1, <1>2

\* And so is what a form holds.
LEMMA FormIs ==
  ASSUME NEW c
  PROVE  c \in Forms <=> /\ c \in [DOMAIN c -> Keys \cup {NoKey, Mask}]
                         /\ Web \in DOMAIN c /\ DOMAIN c \subseteq Owners
<1>1. ASSUME c \in Forms
      PROVE  /\ c \in [DOMAIN c -> Keys \cup {NoKey, Mask}]
             /\ Web \in DOMAIN c /\ DOMAIN c \subseteq Owners
  BY <1>1 DEF Forms, Owners
<1>2. ASSUME c \in [DOMAIN c -> Keys \cup {NoKey, Mask}], Web \in DOMAIN c,
             DOMAIN c \subseteq Owners
      PROVE  c \in Forms
  <2> DEFINE D == DOMAIN c \ {Web}
  <2>1. D \in SUBSET Names /\ D \cup {Web} = DOMAIN c
    BY <1>2 DEF Owners
  <2> HIDE DEF D
  <2>2. c \in [D \cup {Web} -> Keys \cup {NoKey, Mask}]
    BY <1>2, <2>1
  <2> QED
    BY <2>1, <2>2 DEF Forms
<1> QED
  BY <1>1, <1>2

\* A masked configuration can be shown.
LEMMA MaskedIsForm ==
  ASSUME NEW c \in Configs
  PROVE  MaskedConfig(c) \in Forms
<1>1. MaskedConfig(c) \in [DOMAIN c -> Keys \cup {NoKey, Mask}]
  BY DEF MaskedConfig
<1>2. DOMAIN MaskedConfig(c) = DOMAIN c
  BY DEF MaskedConfig
<1>3. Web \in DOMAIN c /\ DOMAIN c \subseteq Owners
  BY ConfigIs
<1> QED
  BY <1>1, <1>2, <1>3, FormIs

\* Keys are entered for owners.
LEMMA ConfigKeys ==
  ASSUME NEW c \in Forms
  PROVE  KeysOf(c) \subseteq Owners \X Keys
  BY FormIs DEF KeysOf

\* A configuration can be shown.
LEMMA ConfigIsForm ==
  ASSUME NEW c \in Configs
  PROVE  c \in Forms
<1>1. /\ c \in [DOMAIN c -> Keys \cup {NoKey}]
      /\ Web \in DOMAIN c /\ DOMAIN c \subseteq Owners
  BY ConfigIs
<1>2. c \in [DOMAIN c -> Keys \cup {NoKey, Mask}]
  BY <1>1
<1> QED
  BY <1>1, <1>2, FormIs

\* The first configuration.
LEMMA ConfigInitially == ConfigInit => ConfigInv
<1> SUFFICES ASSUME ConfigInit PROVE ConfigInv
  OBVIOUS
<1>1. FirstConfig \in Configs /\ FirstConfig \in Forms
  BY FirstConfigAssumption, ConfigIsForm
<1>2. entered \subseteq Owners \X Keys
  BY <1>1, ConfigKeys DEF ConfigInit
<1> QED
  BY <1>1, <1>2 DEF ConfigInit, ConfigInv, ConfigTypes, Owns

\* A browser reads the configuration.
LEMMA ConfigGetKeeps ==
  ASSUME ConfigInv, NEW b \in Browsers, ConfigGet(b)
  PROVE  ConfigInv'
<1> DEFINE c == IF cfgOnDisk = NoConfig THEN running ELSE cfgOnDisk
<1>1. MaskedConfig(c) \in Forms
  BY MaskedIsForm DEF ConfigInv, ConfigTypes
<1> QED
  BY <1>1 DEF ConfigInv, ConfigTypes, ConfigGet, Owns

\* A user edits the form: a key, a provider more or less, another name.
LEMMA FormEditKeeps ==
  ASSUME ConfigInv, NEW b \in Browsers, FormEdit(b)
  PROVE  ConfigInv'
<1> DEFINE c == form[b]
           V == Keys \cup {NoKey, Mask}
<1>1. c \in [DOMAIN c -> V] /\ Web \in DOMAIN c /\ DOMAIN c \subseteq Owners
  BY FormIs DEF ConfigInv, ConfigTypes, FormEdit
<1> HIDE DEF c
<1>2. ASSUME NEW D, Web \in D, D \subseteq Owners, NEW f, f \in [D -> V]
      PROVE  f \in Forms
  <2>1. DOMAIN f = D
    BY <1>2
  <2> QED
    BY <1>2, <2>1, FormIs
<1>3. ASSUME NEW n \in Owners, NEW k \in Keys \cup {NoKey}
      PROVE  [m \in DOMAIN c \cup {n} |-> IF m = n THEN k ELSE c[m]] \in Forms
  <2>1. [m \in DOMAIN c \cup {n} |-> IF m = n THEN k ELSE c[m]] \in [DOMAIN c \cup {n} -> V]
    BY <1>1
  <2> QED
    BY <1>1, <1>2, <2>1
<1>4. ASSUME NEW n \in DOMAIN c \ {Web}
      PROVE  /\ [m \in DOMAIN c \ {n} |-> c[m]] \in Forms
             /\ \A new \in Names \ DOMAIN c :
                  [m \in (DOMAIN c \ {n}) \cup {new} |-> IF m = new THEN c[n] ELSE c[m]] \in Forms
  <2>1. [m \in DOMAIN c \ {n} |-> c[m]] \in [DOMAIN c \ {n} -> V]
    BY <1>1
  <2>2. ASSUME NEW new \in Names \ DOMAIN c
        PROVE  [m \in (DOMAIN c \ {n}) \cup {new} |-> IF m = new THEN c[n] ELSE c[m]] \in Forms
    <3>1. [m \in (DOMAIN c \ {n}) \cup {new} |-> IF m = new THEN c[n] ELSE c[m]]
            \in [(DOMAIN c \ {n}) \cup {new} -> V]
      BY <1>1
    <3>2. (DOMAIN c \ {n}) \cup {new} \subseteq Owners /\ Web \in (DOMAIN c \ {n}) \cup {new}
      BY <1>1 DEF Owners
    <3> QED
      BY <1>2, <3>1, <3>2
  <2>3. Web \in DOMAIN c \ {n} /\ DOMAIN c \ {n} \subseteq Owners
    BY <1>1
  <2> QED
    BY <1>2, <2>1, <2>2, <2>3
<1>5. \E f \in Forms : form' = [form EXCEPT ![b] = f]
  BY <1>3, <1>4 DEF FormEdit, c
<1> QED
  BY <1>5 DEF ConfigInv, ConfigTypes, FormEdit, Owns

\* A key that was masked comes back to the provider it was stored with.
LEMMA UnmaskedOwns ==
  ASSUME NEW c \in Forms, DOMAIN c # {Web}, running \in Configs,
         KeysOf(running) \subseteq entered,
         Unmasked(c) # NoConfig
  PROVE  Unmasked(c) \in Configs /\ KeysOf(Unmasked(c)) \subseteq entered \cup KeysOf(c)
<1> DEFINE d == [n \in DOMAIN c |-> IF c[n] = Mask THEN running[n] ELSE c[n]]
<1>1. /\ d = Unmasked(c)
      /\ \A n \in DOMAIN c : c[n] = Mask => n \in DOMAIN running
  BY DEF Unmasked
<1>2. /\ c \in [DOMAIN c -> Keys \cup {NoKey, Mask}]
      /\ Web \in DOMAIN c /\ DOMAIN c \subseteq Owners
  BY FormIs
<1>3. running \in [DOMAIN running -> Keys \cup {NoKey}]
  BY ConfigIs
<1>4. d \in [DOMAIN c -> Keys \cup {NoKey}]
  BY <1>1, <1>2, <1>3
<1>5. d \in Configs
  <2>1. DOMAIN d = DOMAIN c
    OBVIOUS
  <2> HIDE DEF d
  <2> QED
    BY <1>2, <1>4, <2>1, ConfigIs
<1>6. ASSUME NEW n \in DOMAIN c, d[n] \in Keys
      PROVE  <<n, d[n]>> \in entered \cup KeysOf(c)
  <2>1. CASE c[n] = Mask
    BY <1>1, <1>6, <2>1 DEF KeysOf
  <2>2. CASE c[n] # Mask
    BY <1>6, <2>2 DEF KeysOf
  <2> QED
    BY <2>1, <2>2
<1>7. KeysOf(d) \subseteq entered \cup KeysOf(c)
  BY <1>6 DEF KeysOf
<1> QED
  BY <1>1, <1>5, <1>7

\* PUT of the form: the masked keys are put back, or the form is refused.
LEMMA ConfigPutKeeps ==
  ASSUME ConfigInv, NEW b \in Browsers, ConfigPut(b)
  PROVE  ConfigInv'
<1> DEFINE c == form[b]
<1>1. c \in Forms /\ entered' = entered \cup KeysOf(c)
  BY DEF ConfigInv, ConfigTypes, ConfigPut
<1>2. entered' \subseteq Owners \X Keys
  BY <1>1, ConfigKeys DEF ConfigInv, ConfigTypes
<1>3. CASE Unmasked(c) = NoConfig \/ DOMAIN c = {Web}
  <2>1. told' = [told EXCEPT ![b] = "refused"] /\ UNCHANGED saving
    BY <1>3 DEF ConfigPut
  <2> QED
    BY <1>1, <1>2, <2>1 DEF ConfigInv, ConfigTypes, ConfigPut, Owns
<1>4. CASE ~(Unmasked(c) = NoConfig \/ DOMAIN c = {Web})
  <2>1. saving' = [saving EXCEPT ![b] = Unmasked(c)] /\ UNCHANGED told
    BY <1>4 DEF ConfigPut
  <2>2. Unmasked(c) \in Configs /\ KeysOf(Unmasked(c)) \subseteq entered'
    BY <1>1, <1>4, UnmaskedOwns, FirstConfigAssumption DEF ConfigInv, ConfigTypes, Owns
  <2> HIDE DEF c
  <2> QED
    BY <1>1, <1>2, <2>1, <2>2 DEF ConfigInv, ConfigTypes, ConfigPut, Owns
<1> QED
  BY <1>3, <1>4

\* The new configuration reaches the disk or not.
LEMMA ConfigSaveKeeps ==
  ASSUME ConfigInv, NEW b \in Browsers, ConfigSaveFails(b) \/ ConfigRename(b)
  PROVE  ConfigInv'
<1>1. CASE ConfigSaveFails(b)
  BY <1>1 DEF ConfigInv, ConfigTypes, ConfigSaveFails, Owns
<1>2. CASE ConfigRename(b)
  <2>1. MaskedConfig(saving[b]) \in Forms
    BY <1>2, MaskedIsForm DEF ConfigInv, ConfigTypes, ConfigRename
  <2> QED
    BY <1>2, <2>1 DEF ConfigInv, ConfigTypes, ConfigRename, Owns
<1> QED
  BY <1>1, <1>2

\* The file is edited by other means.
LEMMA OtherEditKeeps ==
  ASSUME ConfigInv, OtherEdit
  PROVE  ConfigInv'
<1>1. cfgOnDisk' \in Configs \cup {NoConfig}
  <2>1. ASSUME NEW n \in DOMAIN FirstConfig, NEW k \in Keys
        PROVE  [FirstConfig EXCEPT ![n] = k] \in Configs
    <3>1. /\ FirstConfig \in [DOMAIN FirstConfig -> Keys \cup {NoKey}]
          /\ Web \in DOMAIN FirstConfig /\ DOMAIN FirstConfig \subseteq Owners
          /\ DOMAIN FirstConfig # {Web}
      BY FirstConfigAssumption, ConfigIs
    <3>2. [FirstConfig EXCEPT ![n] = k] \in [DOMAIN FirstConfig -> Keys \cup {NoKey}]
      BY <3>1
    <3>3. DOMAIN [FirstConfig EXCEPT ![n] = k] = DOMAIN FirstConfig
      OBVIOUS
    <3> QED
      BY <3>1, <3>2, <3>3, ConfigIs
  <2> QED
    BY <2>1 DEF OtherEdit
<1>2. entered' \subseteq Owners \X Keys
  BY <1>1, ConfigKeys, ConfigIsForm DEF ConfigInv, ConfigTypes, OtherEdit
<1> QED
  BY <1>1, <1>2 DEF ConfigInv, ConfigTypes, OtherEdit, Owns

\* The next loop reads the file.
LEMMA ConfigReloadKeeps ==
  ASSUME ConfigInv, ConfigReload
  PROVE  ConfigInv'
  BY DEF ConfigInv, ConfigTypes, ConfigReload, Owns

\* Every step keeps the invariant.
LEMMA ConfigStep == ConfigInv /\ [ConfigNext]_configVars => ConfigInv'
<1> SUFFICES ASSUME ConfigInv, [ConfigNext]_configVars PROVE ConfigInv'
  OBVIOUS
<1>1. ASSUME NEW b \in Browsers,
             \/ ConfigGet(b)
             \/ FormEdit(b)
             \/ ConfigPut(b)
             \/ ConfigSaveFails(b)
             \/ ConfigRename(b)
      PROVE  ConfigInv'
  BY <1>1, ConfigGetKeeps, FormEditKeeps, ConfigPutKeeps, ConfigSaveKeeps
<1>2. CASE UNCHANGED configVars
  BY <1>2 DEF configVars, ConfigInv, ConfigTypes, Owns
<1> QED
  BY <1>1, <1>2, OtherEditKeeps, ConfigReloadKeeps DEF ConfigNext

\* What the invariant says of the properties.
LEMMA ConfigMeans ==
  ASSUME ConfigInv
  PROVE  ConfigTypeOK /\ KeysBelong
<1>1. ConfigTypeOK
  BY FormIs DEF ConfigInv, ConfigTypes, ConfigTypeOK
<1>2. ASSUME NEW c \in Configs, KeysOf(c) \subseteq entered, NEW n \in DOMAIN c,
             c[n] # NoKey
      PROVE  <<n, c[n]>> \in entered
  BY <1>2, ConfigIs DEF KeysOf
<1>3. KeysBelong
  BY <1>2 DEF ConfigInv, ConfigTypes, Owns, KeysBelong
<1> QED
  BY <1>1, <1>3

\* A key, a provider's or web.key, is stored nowhere other than where it was entered,
\* whoever edits, renames and saves at the same time (applyMaskedSecrets).
THEOREM ConfigKeysBelong == ConfigSpec => [](ConfigTypeOK /\ KeysBelong)
<1>1. ConfigInv => ConfigTypeOK /\ KeysBelong
  BY ConfigMeans
<1> QED
  BY <1>1, ConfigInitially, ConfigStep, PTL DEF ConfigSpec

(***************************************************************************)
(* Remote session: acknowledged turns stay.                                 *)
(***************************************************************************)

\* The messages machines write.
Msgs == Machines \X Nat

\* The server's answer, with a status and the messages of a page.
Reply(status, page) == [verb |-> "answer", status |-> status, page |-> page]

\* What the requests of a turn look like.
Ask(verb) == [verb |-> verb]
\* The request for a page.
AskPage(offset) == [verb |-> "page", offset |-> offset]

\* The status of a request that a missing session fails.
Found == IF stored = Absent THEN 404 ELSE 200

\* The transcript a run continues.
Base == IF stored = Absent THEN <<>> ELSE stored

\* No message of the transcript is of the turn that runs.
Older == stored # Absent => \A i \in 1..Len(stored) : stored[i][2] < turns

\* A machine between turns.
Idle(m) == at[m] = "idle" /\ call[m] = NoCall /\ answer[m] = NoCall /\ got[m] = <<>>

\* It asks whether the session exists.
AsksMeta(m) ==
  /\ at[m] = "meta" /\ call[m] = Ask("meta") /\ got[m] = <<>> /\ Older
  /\ answer[m] \in {NoCall, Reply(Found, <<>>)}

\* It asks for the next page, of a transcript that stays as it is meanwhile.
AsksPage(m) ==
  /\ at[m] = "page" /\ call[m] = AskPage(Len(got[m])) /\ Older
  /\ stored # Absent
  /\ Len(got[m]) <= Len(stored) /\ got[m] = SubSeq(stored, 1, Len(got[m]))
  /\ answer[m] \in {NoCall, Reply(200, Page(Len(got[m])))}

\* It has loaded the whole transcript and runs the turn on it.
Runs(m) ==
  /\ at[m] = "run" /\ call[m] = NoCall /\ answer[m] = NoCall
  /\ got[m] = Base /\ Older

\* It sends the transcript with the turn; the answer says what the server holds.
Puts(m) ==
  /\ at[m] = "put" /\ call[m] = Put(m, got[m])
  /\ \/ answer[m] = NoCall /\ got[m] = Append(Base, Message(m)) /\ Older
     \/ answer[m] = Reply(404, <<>>) /\ stored = Absent /\ got[m] = <<Message(m)>>
     \/ answer[m] = Reply(200, <<>>) /\ stored = got[m] /\ got[m] # <<>>

\* It creates the session the server did not know.
Creates(m) ==
  /\ at[m] = "create" /\ call[m] = Ask("create") /\ got[m] = <<Message(m)>>
  /\ \/ answer[m] = NoCall /\ stored = Absent
     \/ answer[m] = Reply(201, <<>>) /\ stored = <<>> /\ acked = {}

\* And sends the transcript again.
PutsAgain(m) ==
  /\ at[m] = "reput" /\ call[m] = Put(m, got[m]) /\ got[m] = <<Message(m)>>
  /\ \/ answer[m] = NoCall /\ stored = <<>> /\ acked = {}
     \/ answer[m] = Reply(200, <<>>) /\ stored = got[m]

\* It deletes the session.
Deletes(m) ==
  /\ at[m] = "delete" /\ call[m] = Ask("delete") /\ got[m] = <<>>
  /\ (answer[m] = NoCall \/ \E s \in Nat : answer[m] = Reply(s, <<>>))

\* Where a machine is, with what it knows and what the server holds then.
Stage(m) ==
  \/ Idle(m) \/ AsksMeta(m) \/ AsksPage(m) \/ Runs(m)
  \/ Puts(m) \/ Creates(m) \/ PutsAgain(m) \/ Deletes(m)

\* The types the steps need.
RemoteTypes ==
  /\ at = [m \in Machines |-> at[m]]
  /\ call = [m \in Machines |-> call[m]]
  /\ answer = [m \in Machines |-> answer[m]]
  /\ got \in [Machines -> Seq(Msgs)]
  /\ turns \in Nat
  /\ stored \in Seq(Msgs) \cup {Absent}

\* One turn at a time: the guard of the deployment.
OneAtATime == \A m, n \in Machines : at[m] # "idle" /\ at[n] # "idle" => m = n

\* The transcript holds every acknowledged turn, each message once and none of a
\* turn to come.
StoredSound ==
  /\ stored = Absent => acked = {}
  /\ stored # Absent =>
       /\ acked \subseteq {stored[i] : i \in 1..Len(stored)}
       /\ \A i, j \in 1..Len(stored) : stored[i] = stored[j] => i = j
       /\ \A i \in 1..Len(stored) : stored[i][2] <= turns

\* The inductive invariant of the remote session.
RemoteInv == RemoteTypes /\ OneAtATime /\ StoredSound /\ (\A m \in Machines : Stage(m))

\* Where a machine is tells its stage.
LEMMA Where ==
  ASSUME NEW m, Stage(m)
  PROVE  /\ at[m] = "idle" <=> Idle(m)
         /\ at[m] = "meta" <=> AsksMeta(m)
         /\ at[m] = "page" <=> AsksPage(m)
         /\ at[m] = "run" <=> Runs(m)
         /\ at[m] = "put" <=> Puts(m)
         /\ at[m] = "create" <=> Creates(m)
         /\ at[m] = "reput" <=> PutsAgain(m)
         /\ at[m] = "delete" <=> Deletes(m)
<1>1. Idle(m) => at[m] = "idle" BY DEF Idle
<1>2. AsksMeta(m) => at[m] = "meta" BY DEF AsksMeta
<1>3. AsksPage(m) => at[m] = "page" BY DEF AsksPage
<1>4. Runs(m) => at[m] = "run" BY DEF Runs
<1>5. Puts(m) => at[m] = "put" BY DEF Puts
<1>6. Creates(m) => at[m] = "create" BY DEF Creates
<1>7. PutsAgain(m) => at[m] = "reput" BY DEF PutsAgain
<1>8. Deletes(m) => at[m] = "delete" BY DEF Deletes
<1> QED BY <1>1, <1>2, <1>3, <1>4, <1>5, <1>6, <1>7, <1>8 DEF Stage

\* An answer is not a missing one.
LEMMA Replies ==
  ASSUME NEW s, NEW p
  PROVE  Reply(s, p) # NoCall /\ Reply(s, p).status = s /\ Reply(s, p).page = p
BY DEF Reply, NoCall

\* The parts of a request.
LEMMA Asks ==
  ASSUME NEW m, NEW ms, NEW v, NEW k
  PROVE  /\ Ask(v).verb = v
         /\ AskPage(k).verb = "page" /\ AskPage(k).offset = k
         /\ Put(m, ms).verb = "put" /\ Put(m, ms).body = ms
         /\ NoCall.verb = "none"
BY DEF Ask, AskPage, Put, NoCall

\* No session, no turn.
LEMMA RemoteInitially == RemoteInit => RemoteInv
<1>1. Absent \notin Seq(Msgs) /\ <<>> \in Seq(Msgs) BY RemoteSessionAssumption DEF Msgs
<1> SUFFICES ASSUME RemoteInit PROVE RemoteInv
  OBVIOUS
<1>2. RemoteTypes
  <2> DEFINE none == NoCall
  <2> HIDE DEF none
  <2>1. call = [m \in Machines |-> none] /\ answer = [m \in Machines |-> none]
    BY DEF RemoteInit, none
  <2>2. call = [m \in Machines |-> call[m]] /\ answer = [m \in Machines |-> answer[m]]
    BY <2>1
  <2>3. /\ turns \in Nat
        /\ at = [m \in Machines |-> at[m]] /\ stored = Absent
    BY DEF RemoteInit
  <2>4. got \in [Machines -> Seq(Msgs)]
    <3> DEFINE empty == <<>>
    <3>1. empty \in Seq(Msgs) /\ got = [m \in Machines |-> empty] BY <1>1 DEF RemoteInit
    <3> HIDE DEF empty
    <3> QED BY <3>1
  <2> QED BY <2>2, <2>3, <2>4 DEF RemoteTypes
<1>3. OneAtATime BY DEF RemoteInit, OneAtATime
<1>4. StoredSound BY DEF RemoteInit, StoredSound
<1>5. \A m \in Machines : Stage(m) BY DEF RemoteInit, Stage, Idle
<1> QED BY <1>2, <1>3, <1>4, <1>5 DEF RemoteInv

\* One machine acts, the others stay idle.
LEMMA Alone ==
  ASSUME RemoteInv, NEW m \in Machines,
         \A n \in Machines \ {m} : Idle(n),
         NEW n \in Machines \ {m},
         at'[n] = at[n], call'[n] = call[n], answer'[n] = answer[n], got'[n] = got[n]
  PROVE  Stage(n)' /\ at'[n] = "idle"
BY DEF Stage, Idle

\* The invariant from the stage of the machine that acts.
LEMMA AloneKeeps ==
  ASSUME RemoteTypes', StoredSound', NEW m \in Machines, Stage(m)',
         \A n \in Machines \ {m} : Stage(n)' /\ at'[n] = "idle"
  PROVE  RemoteInv'
BY DEF RemoteInv, OneAtATime

\* Between turns and when one ends.
LEMMA Others ==
  ASSUME RemoteInv, NEW m \in Machines,
         at[m] # "idle" \/ \A n \in Machines : at[n] = "idle"
  PROVE  \A n \in Machines \ {m} : Idle(n)
BY DEF RemoteInv, OneAtATime, Stage, Idle, AsksMeta, AsksPage, Runs, Puts, Creates,
   PutsAgain, Deletes

\* The same, when the others are left as they are.
LEMMA Only ==
  ASSUME RemoteInv, NEW m \in Machines,
         at[m] # "idle" \/ \A n \in Machines : at[n] = "idle",
         \A n \in Machines \ {m} :
           /\ at'[n] = at[n] /\ call'[n] = call[n] /\ answer'[n] = answer[n]
           /\ got'[n] = got[n],
         RemoteTypes', StoredSound', Stage(m)'
  PROVE  RemoteInv'
<1>1. \A n \in Machines \ {m} : Idle(n) BY Others
<1>2. \A n \in Machines \ {m} : Stage(n)' /\ at'[n] = "idle" BY <1>1, Alone
<1> QED BY <1>2, AloneKeeps

\* A page behind the pages before it: a longer prefix of the transcript, and all
\* of it when the page is not full (loadMessages).
LEMMA PageIs ==
  ASSUME RemoteTypes, stored # Absent, NEW g \in Seq(Msgs),
         Len(g) <= Len(stored), g = SubSeq(stored, 1, Len(g)),
         NEW s, s = g \o Page(Len(g))
  PROVE  /\ s \in Seq(Msgs)
         /\ Len(s) <= Len(stored) /\ s = SubSeq(stored, 1, Len(s))
         /\ Len(Page(Len(g))) < PageSize => s = stored
<1> DEFINE k == Len(g)
<1>1. k \in 0..Len(stored) /\ s = SubSeq(stored, 1, k) \o Page(k)
  BY DEF RemoteTypes
<1> DEFINE e == IF Len(stored) < k + PageSize THEN Len(stored) ELSE k + PageSize
<1>2. stored \in Seq(Msgs) /\ PageSize \in Nat /\ PageSize > 0 /\ Len(stored) \in Nat
  BY RemoteSessionAssumption DEF RemoteTypes
<1> HIDE DEF k
<1>3. e \in k..Len(stored) /\ Page(k) = SubSeq(stored, k + 1, e)
  BY <1>1, <1>2 DEF Page
<1> HIDE DEF e
<1>4. s = SubSeq(stored, 1, e)
  <2>1. 1 \in 1..Len(stored) + 1 /\ k \in 1 - 1..Len(stored) /\ e \in k..Len(stored)
    BY <1>1, <1>2, <1>3
  <2> QED BY <1>1, <1>2, <1>3, <2>1, ConcatAdjacentSubSeq
<1>5. /\ Len(SubSeq(stored, 1, e)) = e /\ Len(SubSeq(stored, k + 1, e)) = e - k
      /\ SubSeq(stored, 1, e) \in Seq(Msgs)
  <2>1. \A i \in 1..Len(stored) : stored[i] \in Msgs BY <1>2, ElementOfSeq
  <2>2. /\ e \in Int /\ k + 1 \in Int /\ 1 \in Int /\ k \in Int /\ e >= k
        /\ e <= Len(stored)
    BY <1>1, <1>2, <1>3
  <2>3. /\ Len(SubSeq(stored, 1, e)) = (IF 1 <= e THEN e - 1 + 1 ELSE 0)
        /\ SubSeq(stored, 1, e) \in Seq(Msgs)
    BY <2>1, <2>2, <1>2, SubSeqProperties
  <2>4. Len(SubSeq(stored, k + 1, e)) = IF k + 1 <= e THEN e - (k + 1) + 1 ELSE 0
    BY <2>1, <2>2, <1>2, SubSeqProperties
  <2> QED BY <1>1, <2>2, <2>3, <2>4
<1>6. Len(Page(k)) < PageSize => e = Len(stored)
  BY <1>1, <1>2, <1>3, <1>5 DEF e
<1>7. SubSeq(stored, 1, Len(stored)) = stored BY <1>2, SubSeqFull
<1>8. Len(s) = e /\ e <= Len(stored) BY <1>1, <1>2, <1>3, <1>4, <1>5
<1> QED BY <1>4, <1>5, <1>6, <1>7, <1>8 DEF k

\* A turn starts.
LEMMA StartTurnKeeps ==
  ASSUME Guarded = TRUE, RemoteInv, NEW m \in Machines, StartTurn(m)
  PROVE  RemoteInv'
<1>1. \A n \in Machines : at[n] = "idle" BY DEF StartTurn
<1>2. Idle(m) BY <1>1, Where DEF RemoteInv
<1> DEFINE c == Ask("meta")
<1>3. call' = [call EXCEPT ![m] = c] BY DEF StartTurn, Request, Ask
<1> HIDE DEF c
<1>4. RemoteTypes'
  <2>1. call' = [n \in Machines |-> call'[n]] BY <1>3 DEF RemoteInv, RemoteTypes
  <2>2. at' = [n \in Machines |-> at'[n]]
    BY DEF RemoteInv, RemoteTypes, StartTurn, Request
  <2>3. turns' = turns + 1 /\ UNCHANGED <<stored, answer, got>> BY DEF StartTurn
  <2> QED BY <2>1, <2>2, <2>3 DEF RemoteInv, RemoteTypes
<1>5. StoredSound'
  <2>1. ASSUME stored # Absent, NEW i \in 1..Len(stored) PROVE stored[i][2] <= turns + 1
    <3>1. stored \in Seq(Msgs) BY <2>1 DEF RemoteInv, RemoteTypes
    <3>2. stored[i] \in Machines \X Nat BY <3>1, <2>1, ElementOfSeq DEF Msgs
    <3> QED BY <2>1, <3>2 DEF RemoteInv, RemoteTypes, StoredSound
  <2> QED BY <2>1 DEF RemoteInv, StoredSound, StartTurn
<1>6. call'[m] = Ask("meta") BY <1>3 DEF RemoteInv, RemoteTypes, c
<1>7. Older'
  BY <1>2, RemoteSessionAssumption, SMTT(30) DEF Msgs, RemoteInv, RemoteTypes, StoredSound,
     StartTurn, Older
<1>8. AsksMeta(m)'
  BY <1>2, <1>6, <1>7 DEF RemoteInv, RemoteTypes, StartTurn, Request, AsksMeta, Idle
<1>9. \A n \in Machines \ {m} :
        /\ at'[n] = at[n] /\ call'[n] = call[n] /\ answer'[n] = answer[n]
        /\ got'[n] = got[n]
  BY DEF RemoteInv, RemoteTypes, StartTurn, Request
<1> QED BY <1>1, <1>4, <1>5, <1>8, <1>9, Only DEF Stage

\* A deletion starts.
LEMMA StartDeleteKeeps ==
  ASSUME Guarded = TRUE, RemoteInv, NEW m \in Machines, StartDelete(m)
  PROVE  RemoteInv'
<1>1. \A n \in Machines : at[n] = "idle" BY DEF StartDelete
<1>2. Idle(m) BY <1>1, Where DEF RemoteInv
<1> DEFINE c == Ask("delete")
<1>3. call' = [call EXCEPT ![m] = c] BY DEF StartDelete, Request, Ask
<1> HIDE DEF c
<1>4. RemoteTypes'
  <2>1. call' = [n \in Machines |-> call'[n]] BY <1>3 DEF RemoteInv, RemoteTypes
  <2>2. at' = [n \in Machines |-> at'[n]]
    BY DEF RemoteInv, RemoteTypes, StartDelete, Request
  <2>3. turns' = turns + 1 /\ UNCHANGED <<stored, answer, got>> BY DEF StartDelete
  <2> QED BY <2>1, <2>2, <2>3 DEF RemoteInv, RemoteTypes
<1>5. StoredSound'
  <2>1. ASSUME stored # Absent, NEW i \in 1..Len(stored) PROVE stored[i][2] <= turns + 1
    <3>1. stored \in Seq(Msgs) BY <2>1 DEF RemoteInv, RemoteTypes
    <3>2. stored[i] \in Machines \X Nat BY <3>1, <2>1, ElementOfSeq DEF Msgs
    <3> QED BY <2>1, <3>2 DEF RemoteInv, RemoteTypes, StoredSound
  <2> QED BY <2>1 DEF RemoteInv, StoredSound, StartDelete
<1>6. Deletes(m)'
  BY <1>3, <1>2 DEF RemoteInv, RemoteTypes, StartDelete, Request, Deletes, Idle, c
<1>7. \A n \in Machines \ {m} :
        /\ at'[n] = at[n] /\ call'[n] = call[n] /\ answer'[n] = answer[n]
        /\ got'[n] = got[n]
  BY DEF RemoteInv, RemoteTypes, StartDelete, Request
<1> QED BY <1>1, <1>4, <1>5, <1>6, <1>7, Only DEF Stage

\* What ends a turn leaves an idle machine.
LEMMA OverIs ==
  ASSUME RemoteTypes, NEW m \in Machines, Over(m)
  PROVE  /\ at' = [n \in Machines |-> at'[n]] /\ at'[m] = "idle"
         /\ got' \in [Machines -> Seq(Msgs)] /\ got'[m] = <<>>
         /\ \A n \in Machines \ {m} : at'[n] = at[n] /\ got'[n] = got[n]
<1> DEFINE none == <<>>
<1>1. none \in Seq(Msgs) BY EmptySeq
<1>2. got' = [got EXCEPT ![m] = none] BY DEF Over
<1>3. /\ at' = [n \in Machines |-> at'[n]] /\ at'[m] = "idle"
      /\ \A n \in Machines \ {m} : at'[n] = at[n]
  BY DEF RemoteTypes, Over
<1> HIDE DEF none
<1>4. /\ got' \in [Machines -> Seq(Msgs)] /\ got'[m] = none
      /\ \A n \in Machines \ {m} : got'[n] = got[n]
  BY <1>1, <1>2 DEF RemoteTypes
<1> QED BY <1>3, <1>4 DEF none

\* A turn ends, with the transcript as it is.
LEMMA EndKeeps ==
  ASSUME RemoteInv, NEW m \in Machines, at[m] # "idle", Over(m), StoredSound',
         UNCHANGED <<stored, turns>>,
         call' = [call EXCEPT ![m] = NoCall], answer' = [answer EXCEPT ![m] = NoCall]
  PROVE  RemoteInv'
<1> DEFINE none == NoCall
<1>1. call' = [call EXCEPT ![m] = none] /\ answer' = [answer EXCEPT ![m] = none]
  OBVIOUS
<1> HIDE DEF none
<1>2. RemoteTypes' BY OverIs, <1>1 DEF RemoteInv, RemoteTypes
<1>3. call'[m] = none /\ answer'[m] = none BY <1>1 DEF RemoteInv, RemoteTypes
<1>4. Idle(m)' BY OverIs, <1>3 DEF RemoteInv, Idle, none
<1>5. \A n \in Machines \ {m} :
        /\ at'[n] = at[n] /\ call'[n] = call[n] /\ answer'[n] = answer[n]
        /\ got'[n] = got[n]
  BY OverIs, <1>1 DEF RemoteInv, RemoteTypes
<1> QED BY <1>2, <1>4, <1>5, Only DEF Stage

\* The answer is lost or is an error: the turn ends.
LEMMA GiveUpKeeps ==
  ASSUME RemoteInv, NEW m \in Machines, GiveUp(m)
  PROVE  RemoteInv'
<1>1. at[m] # "idle" BY Where DEF GiveUp, RemoteInv, Idle
<1>2. StoredSound' BY DEF GiveUp, RemoteInv, StoredSound
<1> QED BY <1>1, <1>2, EndKeeps DEF GiveUp, Hang

\* The deletion is answered.
LEMMA DeleteStepKeeps ==
  ASSUME RemoteInv, NEW m \in Machines, DeleteStep(m)
  PROVE  RemoteInv'
<1>1. StoredSound' BY DEF DeleteStep, RemoteInv, StoredSound
<1> QED BY <1>1, EndKeeps DEF DeleteStep, Hang

\* Nothing of this changes.
LEMMA StutterKeeps ==
  ASSUME RemoteInv, UNCHANGED <<stored, at, call, answer, got, turns, acked>>
  PROVE  RemoteInv'
<1>1. UNCHANGED <<stored, at, call, answer, got, turns, acked>> OBVIOUS
<1>2. RemoteTypes' /\ StoredSound' /\ OneAtATime'
  BY <1>1 DEF RemoteInv, RemoteTypes, StoredSound, OneAtATime
<1>3. ASSUME NEW n \in Machines PROVE Stage(n)'
  <2>1. Stage(n) BY DEF RemoteInv
  <2>2. Idle(n) => Idle(n)' BY <1>1 DEF Idle
  <2>3. AsksMeta(n) => AsksMeta(n)' BY <1>1 DEF AsksMeta, Older, Reply, Ask, Found
  <2>4. AsksPage(n) => AsksPage(n)'
    BY <1>1, ZenonT(40) DEF AsksPage, Older, Reply, AskPage, Page
  <2>5. Runs(n) => Runs(n)' BY <1>1 DEF Runs, Older, Base
  <2>6. Puts(n) => Puts(n)' BY <1>1 DEF Puts, Older, Base, Reply, Put, Message
  <2>7. Creates(n) => Creates(n)' BY <1>1 DEF Creates, Reply, Ask, Message
  <2>8. PutsAgain(n) => PutsAgain(n)' BY <1>1 DEF PutsAgain, Reply, Put, Message
  <2>9. Deletes(n) => Deletes(n)' BY <1>1 DEF Deletes, Reply, Ask
  <2> QED BY <2>1, <2>2, <2>3, <2>4, <2>5, <2>6, <2>7, <2>8, <2>9 DEF Stage
<1> QED BY <1>2, <1>3 DEF RemoteInv

\* The turn is cancelled: the request under way may still be served.
LEMMA CancelKeeps ==
  ASSUME RemoteInv, NEW m \in Machines, Cancel(m)
  PROVE  RemoteInv'
BY StutterKeeps DEF Cancel

\* A step that sets a machine's place, request, answer and messages.
LEMMA Moved ==
  ASSUME RemoteInv, NEW m \in Machines, at[m] # "idle",
         NEW a, NEW c, NEW w, NEW g \in Seq(Msgs),
         at' = [at EXCEPT ![m] = a], call' = [call EXCEPT ![m] = c],
         answer' = [answer EXCEPT ![m] = w], got' = [got EXCEPT ![m] = g],
         turns' = turns, stored' \in Seq(Msgs) \cup {Absent}
  PROVE  /\ at'[m] = a /\ call'[m] = c /\ answer'[m] = w /\ got'[m] = g
         /\ Stage(m)' /\ StoredSound' => RemoteInv'
<1>1. RemoteTypes' BY DEF RemoteInv, RemoteTypes
<1>2. at'[m] = a /\ call'[m] = c /\ answer'[m] = w /\ got'[m] = g
  BY DEF RemoteInv, RemoteTypes
<1>3. \A n \in Machines \ {m} :
        /\ at'[n] = at[n] /\ call'[n] = call[n] /\ answer'[n] = answer[n]
        /\ got'[n] = got[n]
  BY DEF RemoteInv, RemoteTypes
<1> QED BY <1>1, <1>2, <1>3, Only

\* What a step leaves alone it sets to what it was.
LEMMA Kept ==
  ASSUME RemoteInv, NEW m \in Machines
  PROVE  /\ at = [at EXCEPT ![m] = at[m]] /\ call = [call EXCEPT ![m] = call[m]]
         /\ answer = [answer EXCEPT ![m] = answer[m]]
         /\ got = [got EXCEPT ![m] = got[m]]
         /\ got[m] \in Seq(Msgs) /\ stored \in Seq(Msgs) \cup {Absent} /\ turns \in Nat
BY DEF RemoteInv, RemoteTypes

\* The run is over and the transcript is sent, or there is nothing to send.
LEMMA RunEndsKeeps ==
  ASSUME RemoteInv, NEW m \in Machines, RunEnds(m)
  PROVE  RemoteInv'
<1>1. at[m] = "run" /\ Runs(m) BY Where DEF RunEnds, RemoteInv
<1>2. CASE cancelled[m]
  <2>1. StoredSound' BY <1>2 DEF RunEnds, RemoteInv, StoredSound
  <2>2. call = [call EXCEPT ![m] = NoCall] /\ answer = [answer EXCEPT ![m] = NoCall]
    BY <1>1, Kept DEF Runs
  <2>3. Over(m) /\ UNCHANGED <<stored, turns, call, answer>> BY <1>2 DEF RunEnds
  <2> QED BY <1>1, <2>1, <2>2, <2>3, EndKeeps
<1>3. CASE ~cancelled[m]
  <2> DEFINE ms == Append(got[m], Message(m))
             c == Put(m, ms)
  <2>1. ms \in Seq(Msgs)
    <3>1. Message(m) \in Msgs BY Kept DEF Message, Msgs
    <3> QED BY <3>1, Kept
  <2>2. /\ at' = [at EXCEPT ![m] = "put"] /\ call' = [call EXCEPT ![m] = c]
        /\ got' = [got EXCEPT ![m] = ms] /\ answer' = [answer EXCEPT ![m] = answer[m]]
        /\ UNCHANGED <<stored, turns, acked>>
    BY <1>3, Kept DEF RunEnds, Request
  <2>3. StoredSound' BY <2>2 DEF RemoteInv, StoredSound
  <2>4. c = Put(m, ms) /\ ms = Append(got[m], Message(m)) OBVIOUS
  <2> HIDE DEF ms, c
  <2>5. /\ at'[m] = "put" /\ call'[m] = c /\ got'[m] = ms /\ answer'[m] = answer[m]
        /\ Stage(m)' /\ StoredSound' => RemoteInv'
    BY <1>1, <2>1, <2>2, Kept, Moved, ZenonT(40)
  <2>6. Puts(m)'
    BY <1>1, <2>2, <2>4, <2>5 DEF Puts, Runs, Older, Base, Put, Message
  <2> QED BY <2>3, <2>5, <2>6 DEF Stage
<1> QED BY <1>2, <1>3

\* An answer while the session is loaded.
LEMMA LoadStepKeeps ==
  ASSUME RemoteInv, NEW m \in Machines, NEW saveNew \in BOOLEAN, LoadStep(m, saveNew)
  PROVE  RemoteInv'
<1> DEFINE a == answer[m]
           ms == got[m] \o a.page
<1>1. /\ at[m] \in {"meta", "page"} /\ answer[m] # NoCall
      /\ answer' = [answer EXCEPT ![m] = NoCall]
      /\ UNCHANGED <<stored, turns, acked>>
  BY DEF LoadStep
<1>2. StoredSound' BY <1>1 DEF RemoteInv, StoredSound
<1>3. AsksMeta(m) \/ AsksPage(m) BY <1>1, Where DEF RemoteInv
<1>4. CASE /\ a.status = 200 /\ (at[m] = "meta" \/ Len(a.page) = PageSize)
           /\ NextPage(m, ms)
  <2>1. AskPage(Len(ms)) = [verb |-> "page", offset |-> Len(ms)] BY DEF AskPage
  <2>2. /\ at' = [at EXCEPT ![m] = "page"]
        /\ call' = [call EXCEPT ![m] = AskPage(Len(ms))]
        /\ got' = [got EXCEPT ![m] = ms]
    BY <1>4, <2>1 DEF NextPage, Request
  <2>3. /\ stored # Absent /\ Older /\ ms \in Seq(Msgs)
        /\ Len(ms) <= Len(stored) /\ ms = SubSeq(stored, 1, Len(ms))
    <3>1. CASE AsksMeta(m)
      <4>1. answer[m] = Reply(Found, <<>>) /\ got[m] = <<>> /\ Older
        BY <1>1, <3>1 DEF AsksMeta
      <4>2. Found = 200 /\ a.page = <<>> BY <4>1, <1>4, Replies
      <4>3. stored # Absent BY <4>2 DEF Found
      <4>4. ms = <<>> BY <4>1, <4>2
      <4>5. Len(stored) \in Nat /\ SubSeq(stored, 1, 0) = <<>>
        BY <4>3, Kept, SubSeqEmpty
      <4>6. Len(<<>>) = 0 /\ <<>> \in Seq(Msgs) BY EmptySeq
      <4> DEFINE none == <<>>
      <4>7. /\ none \in Seq(Msgs) /\ Len(none) = 0 /\ ms = none
            /\ none = SubSeq(stored, 1, 0)
        BY <4>4, <4>5, <4>6
      <4> HIDE DEF none, ms
      <4>8. Len(ms) = 0 BY <4>7
      <4>9. ms = SubSeq(stored, 1, Len(ms)) BY <4>7, <4>8
      <4> QED BY <4>1, <4>3, <4>5, <4>7, <4>8, <4>9
    <3>2. CASE AsksPage(m)
      <4>1. /\ answer[m] = Reply(200, Page(Len(got[m]))) /\ Older /\ stored # Absent
            /\ Len(got[m]) <= Len(stored) /\ got[m] = SubSeq(stored, 1, Len(got[m]))
        BY <1>1, <3>2 DEF AsksPage
      <4>2. a.page = Page(Len(got[m])) BY <4>1, Replies
      <4>3. got[m] \in Seq(Msgs) /\ ms = got[m] \o Page(Len(got[m])) BY <4>2, Kept
      <4> HIDE DEF ms, a
      <4> QED BY <4>1, <4>3, PageIs DEF RemoteInv
    <3> QED BY <1>3, <3>1, <3>2
  <2> HIDE DEF ms, a
  <2>4. /\ at'[m] = "page" /\ call'[m] = AskPage(Len(ms)) /\ got'[m] = ms
        /\ answer'[m] = NoCall
        /\ Stage(m)' /\ StoredSound' => RemoteInv'
    BY <1>1, <2>2, <2>3, Kept, Moved
  <2>5. AsksPage(m)'
    BY <1>1, <2>3, <2>4 DEF AsksPage, AskPage, Older
  <2> QED BY <1>2, <2>4, <2>5 DEF Stage
<1>5. CASE /\ a.status = 200 /\ at[m] = "page" /\ Len(a.page) < PageSize
           /\ at' = [at EXCEPT ![m] = "run"]
           /\ got' = [got EXCEPT ![m] = ms]
           /\ call' = [call EXCEPT ![m] = NoCall]
  <2>1. /\ answer[m] = Reply(200, Page(Len(got[m]))) /\ Older /\ stored # Absent
        /\ Len(got[m]) <= Len(stored) /\ got[m] = SubSeq(stored, 1, Len(got[m]))
    BY <1>1, <1>3, <1>5 DEF AsksPage, AsksMeta
  <2>2. a.page = Page(Len(got[m])) BY <2>1, Replies
  <2>3. got[m] \in Seq(Msgs) /\ ms = got[m] \o Page(Len(got[m])) BY <2>2, Kept
  <2>4. /\ at' = [at EXCEPT ![m] = "run"] /\ got' = [got EXCEPT ![m] = ms]
        /\ call' = [call EXCEPT ![m] = NoCall] /\ at[m] # "idle"
        /\ answer' = [answer EXCEPT ![m] = NoCall] /\ turns' = turns
        /\ stored' \in Seq(Msgs) \cup {Absent}
    BY <1>1, <1>5, Kept
  <2>5. Len(Page(Len(got[m]))) < PageSize BY <1>5, <2>2
  <2> HIDE DEF ms, a
  <2>6. ms = stored /\ ms \in Seq(Msgs) BY <2>1, <2>3, <2>5, PageIs DEF RemoteInv
  <2>7. /\ at'[m] = "run" /\ call'[m] = NoCall /\ got'[m] = ms /\ answer'[m] = NoCall
        /\ Stage(m)' /\ StoredSound' => RemoteInv'
    BY <2>4, <2>6, Moved
  <2>8. Runs(m)' BY <1>1, <2>1, <2>6, <2>7 DEF Runs, Base, Older, NoCall
  <2> QED BY <1>2, <2>7, <2>8 DEF Stage
<1>6. CASE /\ a.status = 404
           /\ at' = [at EXCEPT ![m] = "run"]
           /\ got' = [got EXCEPT ![m] = <<>>]
           /\ call' = [call EXCEPT ![m] = NoCall]
  <2>1. AsksMeta(m) /\ Found = 404
    <3>1. CASE AsksMeta(m)
      BY <1>1, <1>6, <3>1, Replies DEF AsksMeta
    <3>2. CASE AsksPage(m)
      BY <1>1, <1>6, <3>2, Replies DEF AsksPage
    <3> QED BY <1>3, <3>1, <3>2
  <2>2. stored = Absent BY <2>1 DEF Found
  <2> DEFINE none == <<>>
  <2>3. /\ none \in Seq(Msgs) /\ got' = [got EXCEPT ![m] = none] /\ at[m] # "idle"
        /\ at' = [at EXCEPT ![m] = "run"] /\ call' = [call EXCEPT ![m] = NoCall]
        /\ answer' = [answer EXCEPT ![m] = NoCall] /\ turns' = turns
        /\ stored' \in Seq(Msgs) \cup {Absent}
    BY <1>1, <1>6, EmptySeq, Kept
  <2> HIDE DEF none
  <2>4. /\ at'[m] = "run" /\ call'[m] = NoCall /\ got'[m] = none /\ answer'[m] = NoCall
        /\ Stage(m)' /\ StoredSound' => RemoteInv'
    BY <2>3, Moved
  <2>5. /\ at'[m] = "run" /\ call'[m] = NoCall /\ got'[m] = <<>> /\ answer'[m] = NoCall
        /\ Stage(m)' /\ StoredSound' => RemoteInv'
    BY <2>4 DEF none
  <2>6. Runs(m)' BY <1>1, <2>2, <2>5 DEF Runs, Base, Older, NoCall
  <2> QED BY <1>2, <2>5, <2>6 DEF Stage
<1>7. CASE call' = [call EXCEPT ![m] = NoCall] /\ Over(m)
  BY <1>1, <1>2, <1>7, EndKeeps
<1> HIDE DEF ms
<1> QED BY <1>4, <1>5, <1>6, <1>7 DEF LoadStep, ms

\* An answer while the session is saved.
LEMMA SaveStepKeeps ==
  ASSUME RemoteInv, NEW m \in Machines, SaveStep(m)
  PROVE  RemoteInv'
<1>1. /\ at[m] \in {"put", "create", "reput"} /\ at[m] # "idle" /\ answer[m] # NoCall
      /\ answer' = [answer EXCEPT ![m] = NoCall]
      /\ UNCHANGED <<stored, turns>> /\ stored' \in Seq(Msgs) \cup {Absent}
  BY Kept DEF SaveStep, Saving
<1>2. Puts(m) \/ Creates(m) \/ PutsAgain(m) BY <1>1, Where DEF RemoteInv
<1>3. CASE /\ at[m] \in {"put", "reput"} /\ answer[m].status = 200
           /\ acked' = acked \cup {Last(got[m])}
           /\ call' = [call EXCEPT ![m] = NoCall]
           /\ Over(m)
  <2>1. stored = got[m] /\ got[m] # <<>>
    <3>1. CASE Puts(m) BY <1>1, <1>3, <3>1, Replies DEF Puts
    <3>2. CASE PutsAgain(m) BY <1>1, <1>3, <3>2, Replies DEF PutsAgain
    <3>3. ~Creates(m) BY <1>3 DEF Creates
    <3> QED BY <1>2, <3>1, <3>2, <3>3
  <2>2. stored \in Seq(Msgs) /\ stored # <<>> /\ stored # Absent
    BY <2>1, Kept, RemoteSessionAssumption DEF Msgs
  <2>3. Last(stored) = stored[Len(stored)] /\ Len(stored) \in 1..Len(stored)
    <3>1. Len(stored) \in Nat /\ Len(stored) # 0 BY <2>2, EmptySeq
    <3> QED BY <3>1 DEF Last
  <2>4. StoredSound'
    BY <1>1, <1>3, <2>1, <2>2, <2>3 DEF RemoteInv, StoredSound
  <2> QED BY <1>1, <1>3, <2>4, EndKeeps
<1>4. CASE /\ at[m] = "put" /\ answer[m].status = 404
           /\ Request(m, [verb |-> "create"], "create")
           /\ UNCHANGED <<got, acked>>
  <2>1. stored = Absent /\ got[m] = <<Message(m)>>
    BY <1>1, <1>2, <1>4, Replies DEF Puts, Creates, PutsAgain
  <2>2. /\ at' = [at EXCEPT ![m] = "create"]
        /\ call' = [call EXCEPT ![m] = Ask("create")]
        /\ answer' = [answer EXCEPT ![m] = NoCall] /\ got' = [got EXCEPT ![m] = got[m]]
        /\ turns' = turns /\ got[m] \in Seq(Msgs) /\ at[m] # "idle"
        /\ stored' \in Seq(Msgs) \cup {Absent}
    BY <1>1, <1>4, Kept DEF Request, Ask
  <2>3. /\ at'[m] = "create" /\ call'[m] = Ask("create") /\ got'[m] = got[m]
        /\ answer'[m] = NoCall
        /\ Stage(m)' /\ StoredSound' => RemoteInv'
    BY <2>2, Moved, ZenonT(40)
  <2>4. StoredSound' BY <1>1, <1>4 DEF RemoteInv, StoredSound
  <2>5. Creates(m)' BY <1>1, <2>1, <2>3 DEF Creates, Ask, Message, NoCall
  <2> QED BY <2>3, <2>4, <2>5 DEF Stage
<1>5. CASE /\ at[m] = "create" /\ answer[m].status = 201
           /\ Request(m, Put(m, got[m]), "reput")
           /\ UNCHANGED <<got, acked>>
  <2>1. stored = <<>> /\ acked = {} /\ got[m] = <<Message(m)>>
    BY <1>1, <1>2, <1>5, Replies DEF Puts, Creates, PutsAgain
  <2>2. /\ at' = [at EXCEPT ![m] = "reput"]
        /\ call' = [call EXCEPT ![m] = Put(m, got[m])]
        /\ answer' = [answer EXCEPT ![m] = NoCall] /\ got' = [got EXCEPT ![m] = got[m]]
        /\ turns' = turns /\ got[m] \in Seq(Msgs) /\ at[m] # "idle"
        /\ stored' \in Seq(Msgs) \cup {Absent}
    BY <1>1, <1>5, Kept DEF Request
  <2>3. /\ at'[m] = "reput" /\ call'[m] = Put(m, got[m]) /\ got'[m] = got[m]
        /\ answer'[m] = NoCall
        /\ Stage(m)' /\ StoredSound' => RemoteInv'
    BY <2>2, Moved, ZenonT(40)
  <2>4. StoredSound' BY <1>1, <1>5 DEF RemoteInv, StoredSound
  <2>5. PutsAgain(m)' BY <1>1, <1>5, <2>1, <2>3 DEF PutsAgain, Put, Message, NoCall
  <2> QED BY <2>3, <2>4, <2>5 DEF Stage
<1>6. CASE call' = [call EXCEPT ![m] = NoCall] /\ Over(m) /\ UNCHANGED acked
  <2>1. StoredSound' BY <1>1, <1>6 DEF RemoteInv, StoredSound
  <2> QED BY <1>1, <1>6, <2>1, EndKeeps
<1> QED BY <1>3, <1>4, <1>5, <1>6 DEF SaveStep

\* What the server makes of each request.
LEMMA Served ==
  ASSUME NEW v \in {"meta", "create", "delete"}, NEW k, NEW m, NEW ms
  PROVE  /\ AfterCall(Ask("meta")) = stored /\ Status(Ask("meta")) = Found
         /\ AfterCall(AskPage(k)) = stored /\ Status(AskPage(k)) = Found
         /\ stored # Absent => AfterCall(Put(m, ms)) = ms
         /\ stored = Absent => AfterCall(Put(m, ms)) = Absent
         /\ Status(Put(m, ms)) = Found
         /\ stored = Absent =>
              AfterCall(Ask("create")) = <<>> /\ Status(Ask("create")) = 201
         /\ AfterCall(Ask("delete")) = Absent /\ Status(Ask("delete")) = Found
         /\ Ask(v).verb # "page" /\ Put(m, ms).verb # "page"
<1>1. Ask("meta").verb = "meta" /\ AskPage(k).verb = "page" /\ Put(m, ms).verb = "put"
      /\ Ask("create").verb = "create" /\ Ask("delete").verb = "delete"
      /\ Put(m, ms).body = ms /\ Ask(v).verb = v
  BY Asks
<1>2. AfterCall(Ask("meta")) = stored /\ Status(Ask("meta")) = Found
  BY <1>1 DEF AfterCall, Status, Found
<1>3. AfterCall(AskPage(k)) = stored /\ Status(AskPage(k)) = Found
  BY <1>1 DEF AfterCall, Status, Found
<1>4. /\ stored # Absent => AfterCall(Put(m, ms)) = ms
      /\ stored = Absent => AfterCall(Put(m, ms)) = Absent
      /\ Status(Put(m, ms)) = Found
  BY <1>1 DEF AfterCall, Status, Found
<1>5. stored = Absent => AfterCall(Ask("create")) = <<>> /\ Status(Ask("create")) = 201
  BY <1>1 DEF AfterCall, Status
<1>6. AfterCall(Ask("delete")) = Absent /\ Status(Ask("delete")) = Found
  BY <1>1 DEF AfterCall, Status, Found
<1> QED BY <1>1, <1>2, <1>3, <1>4, <1>5, <1>6

\* The server serves the request that is under way.
LEMMA ServeKeeps ==
  ASSUME RemoteInv, NEW m \in Machines, Serve(m)
  PROVE  RemoteInv'
<1> DEFINE pg == IF call[m].verb = "page" /\ stored # Absent THEN Page(call[m].offset)
                 ELSE <<>>
           w == Reply(Status(call[m]), pg)
<1>1. /\ call[m] # NoCall /\ answer[m] = NoCall /\ stored' = AfterCall(call[m])
      /\ answer' = [answer EXCEPT ![m] = w]
      /\ acked' = IF call[m].verb = "delete" THEN {} ELSE acked
      /\ UNCHANGED <<at, call, got, turns>>
  BY DEF Serve, Handle, Reply
<1>2. AsksMeta(m) \/ AsksPage(m) \/ Puts(m) \/ Creates(m) \/ PutsAgain(m) \/ Deletes(m)
  BY <1>1, Where DEF RemoteInv, Stage, Idle, Runs
<1>3. at[m] # "idle"
  BY <1>2, Where DEF RemoteInv, AsksMeta, AsksPage, Puts, Creates, PutsAgain, Deletes
<1>4. /\ w = Reply(Status(call[m]), pg)
      /\ pg = IF call[m].verb = "page" /\ stored # Absent THEN Page(call[m].offset)
             ELSE <<>>
  OBVIOUS
<1> HIDE DEF w, pg
<1>5. stored' \in Seq(Msgs) \cup {Absent} =>
        /\ at'[m] = at[m] /\ call'[m] = call[m] /\ got'[m] = got[m] /\ answer'[m] = w
        /\ Stage(m)' /\ StoredSound' => RemoteInv'
  <2>1. /\ at' = [at EXCEPT ![m] = at[m]] /\ call' = [call EXCEPT ![m] = call[m]]
        /\ answer' = [answer EXCEPT ![m] = w] /\ got' = [got EXCEPT ![m] = got[m]]
        /\ turns' = turns /\ got[m] \in Seq(Msgs)
    BY <1>1, Kept
  <2> QED BY <2>1, <1>3, Moved
<1>6. CASE AsksMeta(m)
  <2>1. /\ call[m] = Ask("meta") /\ call[m].verb = "meta" /\ got[m] = <<>> /\ Older
        /\ at[m] = "meta"
    BY <1>6, Asks DEF AsksMeta
  <2>2. stored' = stored /\ acked' = acked /\ w = Reply(Found, <<>>)
    BY <1>1, <1>4, <2>1, Served
  <2>3. StoredSound' BY <1>1, <2>2 DEF RemoteInv, StoredSound
  <2>4. AsksMeta(m)'
    BY <1>1, <1>5, <2>1, <2>2, Kept DEF AsksMeta, Older, Found, Ask, Reply
  <2> QED BY <1>5, <2>2, <2>3, <2>4, Kept DEF Stage
<1>7. CASE AsksPage(m)
  <2>1. /\ call[m] = AskPage(Len(got[m])) /\ call[m].verb = "page"
        /\ call[m].offset = Len(got[m])
        /\ at[m] = "page" /\ stored # Absent
    BY <1>7, Asks DEF AsksPage
  <2>2. Status(call[m]) = 200 BY <2>1, Served DEF Found
  <2>3. stored' = stored /\ acked' = acked /\ w = Reply(200, Page(Len(got[m])))
    BY <1>1, <1>4, <2>1, <2>2, Served
  <2>4. StoredSound' BY <1>1, <2>3 DEF RemoteInv, StoredSound
  <2>5. AsksPage(m)'
    BY <1>1, <1>5, <1>7, <2>3, Kept, ZenonT(40) DEF AsksPage, Older, AskPage, Reply, Page
  <2> QED BY <1>5, <2>3, <2>4, <2>5, Kept DEF Stage
<1>8. CASE Puts(m)
  <2>1. /\ call[m] = Put(m, got[m]) /\ call[m].verb = "put" /\ at[m] = "put"
        /\ got[m] = Append(Base, Message(m)) /\ Older
    BY <1>1, <1>8, Asks, Replies DEF Puts
  <2>2. acked' = acked /\ w = Reply(Found, <<>>)
    BY <1>1, <1>4, <2>1, Served
  <2>3. CASE stored = Absent
    <3>1. stored' = Absent /\ Found = 404 BY <1>1, <2>1, <2>3, Served DEF Found
    <3>2. StoredSound' BY <2>2, <2>3, <3>1 DEF RemoteInv, StoredSound
    <3>3. got[m] = <<Message(m)>> BY <2>1, <2>3 DEF Base
    <3>4. Puts(m)' BY <1>1, <1>5, <2>1, <2>2, <3>1, <3>3 DEF Puts, Put, Reply, Message
    <3> QED BY <1>5, <3>1, <3>2, <3>4 DEF Stage
  <2>4. CASE stored # Absent
    <3>1. stored' = got[m] /\ Found = 200 /\ got[m] = Append(stored, Message(m))
      <4>1. stored' = AfterCall(Put(m, got[m])) BY <1>1, <2>1
      <4>2. stored' = got[m] BY <4>1, <2>4, Served
      <4> QED BY <4>2, <2>1, <2>4 DEF Found, Base
    <3>2. /\ got[m] \in Seq(Msgs) /\ stored \in Seq(Msgs) /\ Len(stored) \in Nat
          /\ got[m] # Absent
      BY <2>4, Kept, RemoteSessionAssumption DEF Msgs
    <3>3. /\ Len(got[m]) = Len(stored) + 1 /\ got[m][Len(stored) + 1] = Message(m)
          /\ \A i \in 1..Len(stored) : got[m][i] = stored[i]
          /\ got[m] # <<>>
      BY <3>1, <3>2
    <3>4. Message(m)[2] = turns /\ turns \in Nat BY Kept DEF Message
    <3>5. \A i \in 1..Len(stored) : stored[i][2] < turns /\ stored[i] # Message(m)
      BY <2>1, <2>4, <3>4 DEF Older
    <3>6. /\ \A i \in 1..Len(got[m]) : got[m][i][2] <= turns
          /\ \A i, j \in 1..Len(got[m]) : got[m][i] = got[m][j] => i = j
      <4>1. \A i \in 1..Len(got[m]) : i \in 1..Len(stored) \/ i = Len(stored) + 1
        BY <3>2, <3>3
      <4>2. \A i \in 1..Len(stored) : stored[i] \in Machines \X Nat
        BY <3>2, ElementOfSeq DEF Msgs
      <4>3. \A i \in 1..Len(got[m]) : got[m][i][2] <= turns
        BY <4>1, <4>2, <3>3, <3>4, <3>5
      <4> QED BY <2>4, <4>1, <4>3, <3>3, <3>5 DEF RemoteInv, StoredSound
    <3>7. acked' \subseteq {got[m][i] : i \in 1..Len(got[m])}
      <4>1. acked \subseteq {stored[i] : i \in 1..Len(stored)}
        BY <2>4 DEF RemoteInv, StoredSound
      <4> QED BY <4>1, <2>2, <3>2, <3>3
    <3>8. StoredSound' BY <1>1, <3>1, <3>2, <3>6, <3>7 DEF StoredSound
    <3>9. Puts(m)'
      BY <1>1, <1>5, <2>1, <2>2, <3>1, <3>2, <3>3 DEF Puts, Put, Reply, Message
    <3> QED BY <1>5, <3>1, <3>2, <3>8, <3>9 DEF Stage
  <2> QED BY <2>3, <2>4
<1>9. CASE Creates(m)
  <2>1. /\ call[m] = Ask("create") /\ call[m].verb = "create" /\ at[m] = "create"
        /\ got[m] = <<Message(m)>> /\ stored = Absent
    BY <1>1, <1>9, Asks, Replies DEF Creates
  <2>2. acked' = {} /\ w = Reply(201, <<>>) /\ stored' = <<>>
    BY <1>1, <1>4, <2>1, Served DEF RemoteInv, StoredSound
  <2>3. stored' \in Seq(Msgs) /\ Len(stored') = 0 /\ stored' # Absent
    BY <2>2, EmptySeq, RemoteSessionAssumption DEF Msgs
  <2>4. StoredSound' BY <2>2, <2>3 DEF StoredSound
  <2>5. Creates(m)' BY <1>1, <1>5, <2>1, <2>2, <2>3 DEF Creates, Ask, Reply, Message
  <2> QED BY <1>5, <2>3, <2>4, <2>5 DEF Stage
<1>10. CASE PutsAgain(m)
  <2>1. /\ call[m] = Put(m, got[m]) /\ call[m].verb = "put" /\ at[m] = "reput"
        /\ got[m] = <<Message(m)>> /\ stored = <<>> /\ acked = {}
    BY <1>1, <1>10, Asks, Replies DEF PutsAgain
  <2>2. stored # Absent BY <2>1, EmptySeq, RemoteSessionAssumption
  <2>3. acked' = {} /\ w = Reply(200, <<>>) /\ stored' = got[m]
    BY <1>1, <1>4, <2>1, <2>2, Served DEF Found
  <2>4. /\ got[m] \in Seq(Msgs) /\ got[m] # Absent /\ Len(got[m]) = 1
        /\ got[m][1] = Message(m)
    <3>1. got[m] \in Seq(Msgs) /\ got[m] # Absent
      BY Kept, RemoteSessionAssumption DEF Msgs
    <3> QED BY <2>1, <3>1
  <2>5. Message(m)[2] = turns /\ turns \in Nat BY Kept DEF Message
  <2>6. StoredSound' BY <1>1, <2>3, <2>4, <2>5 DEF StoredSound
  <2>7. PutsAgain(m)' BY <1>1, <1>5, <2>1, <2>3, <2>4 DEF PutsAgain, Put, Reply, Message
  <2> QED BY <1>5, <2>3, <2>4, <2>6, <2>7 DEF Stage
<1>11. CASE Deletes(m)
  <2>1. /\ call[m] = Ask("delete") /\ call[m].verb = "delete" /\ at[m] = "delete"
        /\ got[m] = <<>>
    BY <1>11, Asks DEF Deletes
  <2>2. acked' = {} /\ w = Reply(Found, <<>>) /\ stored' = Absent /\ Found \in Nat
    BY <1>1, <1>4, <2>1, Served DEF Found
  <2>3. StoredSound' BY <2>2 DEF StoredSound
  <2>4. Deletes(m)' BY <1>1, <1>5, <2>1, <2>2 DEF Deletes, Ask, Reply
  <2> QED BY <1>5, <2>2, <2>3, <2>4 DEF Stage
<1> QED BY <1>2, <1>6, <1>7, <1>8, <1>9, <1>10, <1>11

\* Every step keeps the invariant, while one machine at a time uses the session.
LEMMA RemoteStep ==
  ASSUME Guarded = TRUE, RemoteInv, [RemoteNext]_remoteVars
  PROVE  RemoteInv'
<1>1. ASSUME NEW m \in Machines,
             \/ StartTurn(m) \/ StartDelete(m)
             \/ \E saveNew \in BOOLEAN : LoadStep(m, saveNew)
             \/ RunEnds(m) \/ SaveStep(m) \/ DeleteStep(m)
             \/ Serve(m) \/ GiveUp(m) \/ Cancel(m)
      PROVE  RemoteInv'
  BY <1>1, StartTurnKeeps, StartDeleteKeeps, LoadStepKeeps, RunEndsKeeps, SaveStepKeeps,
     DeleteStepKeeps, ServeKeeps, GiveUpKeeps, CancelKeeps
<1>2. CASE UNCHANGED remoteVars
  <2>1. UNCHANGED <<stored, at, call, answer, got, turns, acked>> BY <1>2 DEF remoteVars
  <2> QED BY <2>1, StutterKeeps
<1> QED BY <1>1, <1>2 DEF RemoteNext

\* As many messages as places: none is stored twice.
LEMMA Counted ==
  ASSUME NEW s \in Seq(Msgs), \A i, j \in 1..Len(s) : s[i] = s[j] => i = j
  PROVE  Cardinality({s[i] : i \in 1..Len(s)}) = Len(s)
<1> DEFINE R == {s[i] : i \in 1..Len(s)}
           f == [i \in 1..Len(s) |-> s[i]]
<1>1. f \in Injection(1..Len(s), R) BY DEF Injection, IsInjective
<1>2. f \in Surjection(1..Len(s), R) BY DEF Surjection
<1>3. ExistsBijection(1..Len(s), R) BY <1>1, <1>2 DEF ExistsBijection, Bijection
<1>4. Len(s) \in Nat OBVIOUS
<1> HIDE DEF R, f
<1>5. Cardinality(R) = Len(s) BY <1>3, <1>4, FS_CountingElements
<1> QED BY <1>5 DEF R

\* What the invariant says of the property.
LEMMA RemoteMeans == RemoteInv => AckedTurnsStay
<1> SUFFICES ASSUME RemoteInv, stored # Absent
             PROVE  /\ acked \subseteq {stored[i] : i \in 1..Len(stored)}
                    /\ Cardinality({stored[i] : i \in 1..Len(stored)}) = Len(stored)
  BY DEF AckedTurnsStay
<1>1. stored \in Seq(Msgs) BY DEF RemoteInv, RemoteTypes
<1>2. \A i, j \in 1..Len(stored) : stored[i] = stored[j] => i = j
  BY DEF RemoteInv, StoredSound
<1>3. Cardinality({stored[i] : i \in 1..Len(stored)}) = Len(stored)
  BY <1>1, <1>2, Counted
<1> QED BY <1>3 DEF RemoteInv, StoredSound

\* Every acknowledged turn is in the stored transcript and none is in it twice, however
\* often requests and answers are lost (Client.LoadSession, Client.RewriteMessages),
\* under two assumptions: Guarded, that the users keep their machines from using the
\* session at the same time, for nothing in the code does; and that no request is served
\* after its client gave it up, for RemoteSpec has no ServeLate.
THEOREM RemoteTurnsStay ==
  ASSUME Guarded = TRUE
  PROVE  RemoteSpec => []AckedTurnsStay
<1>1. RemoteInit => RemoteInv BY RemoteInitially
<1>2. RemoteInv /\ [RemoteNext]_remoteVars => RemoteInv' BY RemoteStep
<1>3. RemoteInv => AckedTurnsStay BY RemoteMeans
<1> QED BY <1>1, <1>2, <1>3, PTL DEF RemoteSpec
=============================================================================
