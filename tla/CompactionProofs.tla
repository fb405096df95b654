--------------------------- MODULE CompactionProofs ---------------------------
(***************************************************************************)
(* Compaction keeps what a session is made of, for every window, budget    *)
(* and sequence of answers: the newest message ends every request, nothing *)
(* gets lost unaccounted, a result is folded only for a later one, and a   *)
(* summary is not made again on what was measured before it.               *)
(*                                                                         *)
(* The argument: a transcript is Sound (each message once, every call with *)
(* its result), and everything that shortens one cuts it at rounds.  A     *)
(* Reduced transcript keeps its newest message and its latest summary; the *)
(* strips leave one Alike; a summary joins a first round, itself and a     *)
(* tail.  What a request shows then only loses what is noted as dropped.   *)
(***************************************************************************)
EXTENDS Compaction, Induction, SequenceTheorems, FiniteSetTheorems, TLAPS

-----------------------------------------------------------------------------
(* The k-th element of a set of numbers.                                   *)

\* Elements of a set of numbers that are not beyond i.
Upto(S, i) == {j \in S : j <= i}

\* Membership, element by element.
LEMMA InUpto ==
  ASSUME NEW S, NEW i, NEW k
  PROVE  k \in Upto(S, i) <=> k \in S /\ k <= i
BY DEF Upto

\* Such sets are finite, and grow with i from nothing to the whole.
LEMMA UptoIs ==
  ASSUME NEW n \in Nat, NEW S \in SUBSET (1..n)
  PROVE  /\ IsFiniteSet(S) /\ Cardinality(S) \in Nat /\ Cardinality(S) <= n
         /\ \A i \in 0..n : IsFiniteSet(Upto(S, i)) /\ Cardinality(Upto(S, i)) \in Nat
         /\ Cardinality(Upto(S, 0)) = 0 /\ Upto(S, n) = S
         /\ \A i \in 0..n :
              \A j \in 0..i : Cardinality(Upto(S, j)) <= Cardinality(Upto(S, i))
<1>1. \A j \in S : j \in Nat /\ 1 <= j /\ j <= n OBVIOUS
<1>2. IsFiniteSet(1..n) /\ Cardinality(1..n) = n
  BY FS_Interval
<1>3. IsFiniteSet(S) /\ Cardinality(S) \in Nat /\ Cardinality(S) <= n
  BY <1>2, FS_Subset, FS_CardinalityType
<1>4. ASSUME NEW i \in 0..n
      PROVE  IsFiniteSet(Upto(S, i)) /\ Cardinality(Upto(S, i)) \in Nat
  <2>1. Upto(S, i) \in SUBSET S BY DEF Upto
  <2> QED BY <1>3, <2>1, FS_Subset, FS_CardinalityType
<1>5. Cardinality(Upto(S, 0)) = 0
  <2>1. ASSUME NEW k \in S PROVE ~(k <= 0)
    <3>1. k \in Int /\ 1 <= k BY <1>1
    <3> QED BY <3>1
  <2>2. \A k : k \notin Upto(S, 0) BY <2>1, InUpto
  <2>3. Upto(S, 0) = {} BY <2>2
  <2> QED BY <2>3, FS_EmptySet
<1>6. Upto(S, n) = S
  <2>1. \A k : k \in Upto(S, n) <=> k \in S BY <1>1, InUpto
  <2> QED BY <2>1
<1>7. ASSUME NEW i \in 0..n, NEW j \in 0..i
      PROVE  Cardinality(Upto(S, j)) <= Cardinality(Upto(S, i))
  <2>1. ASSUME NEW k \in S, k <= j PROVE k <= i
    <3>1. k \in Int /\ i \in Int /\ j \in Int /\ j <= i BY <1>1
    <3> QED BY <2>1, <3>1
  <2>2. \A k : k \in Upto(S, j) => k \in Upto(S, i) BY <2>1, InUpto
  <2>3. Upto(S, j) \in SUBSET Upto(S, i) BY <2>2
  <2> QED BY <1>4, <2>3, FS_Subset
<1> QED BY <1>3, <1>4, <1>5, <1>6, <1>7

\* The next number adds itself or nothing.
LEMMA UptoNext ==
  ASSUME NEW n \in Nat, NEW S \in SUBSET (1..n), NEW i \in 1..n
  PROVE  Cardinality(Upto(S, i)) =
           IF i \in S THEN Cardinality(Upto(S, i - 1)) + 1 ELSE Cardinality(Upto(S, i - 1))
<1>1. \A j \in S : j \in Nat /\ 1 <= j /\ j <= n OBVIOUS
<1>2. ASSUME NEW k \in S PROVE k <= i <=> (k <= i - 1 \/ k = i)
  <2>1. k \in Int /\ i \in Int BY <1>1
  <2> QED BY <2>1
<1>3. i \in Int /\ ~(i <= i - 1) /\ i <= i /\ i - 1 \in 0..n OBVIOUS
<1>4. IsFiniteSet(Upto(S, i - 1)) /\ i \notin Upto(S, i - 1) BY UptoIs, <1>3, InUpto
<1>5. CASE i \in S
  <2>1. \A k : k \in Upto(S, i) <=> (k \in Upto(S, i - 1) \/ k = i)
    BY <1>2, <1>5, <1>3, InUpto
  <2>2. Upto(S, i) = Upto(S, i - 1) \cup {i} BY <2>1
  <2> QED BY <1>4, <1>5, <2>2, FS_AddElement
<1>6. CASE i \notin S
  <2>1. \A k : k \in Upto(S, i) <=> k \in Upto(S, i - 1) BY <1>2, <1>6, <1>3, InUpto
  <2> QED BY <1>6, <2>1
<1> QED BY <1>5, <1>6

\* The k-th element.
LEMMA KthExists ==
  ASSUME NEW n \in Nat, NEW S \in SUBSET (1..n), NEW k \in 1..Cardinality(S)
  PROVE  \E i \in S : Cardinality(Upto(S, i)) = k
<1> DEFINE T == {i \in 0..n : Cardinality(Upto(S, i)) >= k}
<1>1. n \in T BY UptoIs
<1>2. k \in Nat /\ k >= 1 /\ n \in 0..n BY UptoIs
<1>3. PICK i \in T : \A j \in T : i <= j
  <2>1. T \subseteq Nat /\ T # {} BY <1>1
  <2> HIDE DEF T
  <2> QED BY <2>1, LeastNumber
<1>4. i # 0
  <2>1. Cardinality(Upto(S, i)) >= k /\ Cardinality(Upto(S, 0)) = 0 BY <1>3, UptoIs
  <2> QED BY <1>2, <2>1
<1>5. i - 1 \in 0..n /\ i - 1 \notin T /\ i \in 1..n BY <1>3, <1>4
<1>6. Cardinality(Upto(S, i - 1)) < k /\ Cardinality(Upto(S, i - 1)) \in Nat
  <2>1. Cardinality(Upto(S, i - 1)) \in Nat BY <1>5, UptoIs
  <2>2. ~(Cardinality(Upto(S, i - 1)) >= k) BY <1>5
  <2> QED BY <1>2, <2>1, <2>2
<1>7. Cardinality(Upto(S, i)) >= k BY <1>3
<1> HIDE DEF T
<1>8. i \in 1..n BY <1>5
<1>9. Cardinality(Upto(S, i)) =
        IF i \in S THEN Cardinality(Upto(S, i - 1)) + 1 ELSE Cardinality(Upto(S, i - 1))
  BY <1>8, UptoNext
<1> QED BY <1>5, <1>6, <1>7, <1>9, UptoIs

\* An element with fewer in front of it is the smaller one.
LEMMA KthOrdered ==
  ASSUME NEW n \in Nat, NEW S \in SUBSET (1..n), NEW i \in S, NEW j \in S,
         Cardinality(Upto(S, i)) < Cardinality(Upto(S, j))
  PROVE  i < j
<1> SUFFICES ASSUME j <= i PROVE FALSE OBVIOUS
<1>1. i \in 1..n /\ j \in 1..n /\ i \in 0..n /\ j \in 0..i /\ j \in 0..n OBVIOUS
<1>2. Cardinality(Upto(S, j)) <= Cardinality(Upto(S, i)) BY <1>1, UptoIs
<1>3. Cardinality(Upto(S, i)) \in Nat /\ Cardinality(Upto(S, j)) \in Nat BY <1>1, UptoIs
<1> QED BY <1>2, <1>3

-----------------------------------------------------------------------------
(* Rounds.                                                                 *)

\* What messages are made of.
Messages ==
  [kind : {"user", "assistant", "tool", "summary", "system"}, ts : Nat, text : Nat, think : Nat,
   args : Nat, call : {NoCallMade} \cup {c.call : c \in CallsMade}, ok : BOOLEAN,
   usage : Nat, covers : SUBSET Nat, whole : BOOLEAN]

\* splitRounds: the k-th round starts at the k-th message that is no result.
LEMMA StartsAre ==
  ASSUME NEW ms \in Seq(Messages)
  PROVE  /\ Len(ms) \in Nat /\ Starts(ms) \in SUBSET (1..Len(ms))
         /\ Rounds(ms) \in Nat /\ Rounds(ms) <= Len(ms)
         /\ \A k \in 1..Rounds(ms) :
              /\ StartOf(ms, k) \in Starts(ms)
              /\ Cardinality(Upto(Starts(ms), StartOf(ms, k))) = k
<1>1. Len(ms) \in Nat /\ Starts(ms) \in SUBSET (1..Len(ms)) BY DEF Starts
<1>2. Rounds(ms) \in Nat /\ Rounds(ms) <= Len(ms) BY <1>1, UptoIs DEF Rounds
<1>3. ASSUME NEW k \in 1..Rounds(ms)
      PROVE  /\ StartOf(ms, k) \in Starts(ms)
             /\ Cardinality(Upto(Starts(ms), StartOf(ms, k))) = k
  <2>1. \E i \in Starts(ms) : Cardinality(Upto(Starts(ms), i)) = k
    BY <1>1, KthExists DEF Rounds
  <2>2. StartOf(ms, k) = CHOOSE i \in Starts(ms) : Cardinality(Upto(Starts(ms), i)) = k
    <3>1. ~(k > Rounds(ms)) BY <1>2
    <3> QED BY <3>1 DEF StartOf, Upto
  <2> HIDE DEF Upto
  <2> QED BY <2>1, <2>2, Zenon
<1> QED BY <1>1, <1>2, <1>3

\* Where a transcript may be cut.
Edges(ms) == Starts(ms) \cup {Len(ms) + 1}

\* Rounds come in the order of their numbers, and the last ends with the transcript.
LEMMA RoundsOrdered ==
  ASSUME NEW ms \in Seq(Messages)
  PROVE  /\ StartOf(ms, Rounds(ms) + 1) = Len(ms) + 1
         /\ \A k \in 1..Rounds(ms) :
              StartOf(ms, k) \in Starts(ms) /\ StartOf(ms, k) \in 1..Len(ms)
         /\ \A k, l \in 1..Rounds(ms) + 1 : k < l => StartOf(ms, k) < StartOf(ms, l)
         /\ \A k \in 1..Rounds(ms) + 1 :
              StartOf(ms, k) \in Edges(ms) /\ StartOf(ms, k) \in 1..Len(ms) + 1
<1>1. Len(ms) \in Nat /\ Rounds(ms) \in Nat BY StartsAre
<1>2. StartOf(ms, Rounds(ms) + 1) = Len(ms) + 1 BY <1>1 DEF StartOf
<1>3. \A k \in 1..Rounds(ms) :
        StartOf(ms, k) \in Starts(ms) /\ StartOf(ms, k) \in 1..Len(ms)
  BY StartsAre
<1>4. \A k \in 1..Rounds(ms) + 1 : k \in 1..Rounds(ms) \/ k = Rounds(ms) + 1 BY <1>1
<1>5. ASSUME NEW k \in 1..Rounds(ms) + 1, NEW l \in 1..Rounds(ms) + 1, k < l
      PROVE  StartOf(ms, k) < StartOf(ms, l)
  <2>1. k \in 1..Rounds(ms) BY <1>1, <1>5
  <2>2. CASE l = Rounds(ms) + 1
    <3>1. StartOf(ms, l) = Len(ms) + 1 /\ StartOf(ms, k) \in 1..Len(ms)
      BY <1>2, <1>3, <2>1, <2>2
    <3> QED BY <1>1, <3>1
  <2>3. CASE l \in 1..Rounds(ms)
    <3>1. /\ StartOf(ms, k) \in Starts(ms) /\ StartOf(ms, l) \in Starts(ms)
          /\ Cardinality(Upto(Starts(ms), StartOf(ms, k))) = k
          /\ Cardinality(Upto(Starts(ms), StartOf(ms, l))) = l
      BY <2>1, <2>3, StartsAre
    <3>2. Cardinality(Upto(Starts(ms), StartOf(ms, k))) <
            Cardinality(Upto(Starts(ms), StartOf(ms, l)))
      BY <1>5, <3>1
    <3> QED BY <3>1, <3>2, StartsAre, KthOrdered
  <2> QED BY <1>4, <2>2, <2>3
<1>6. Len(ms) + 1 \in 1..Len(ms) + 1 BY <1>1
<1>7. ASSUME NEW k \in 1..Rounds(ms) + 1
      PROVE  StartOf(ms, k) \in Edges(ms) /\ StartOf(ms, k) \in 1..Len(ms) + 1
  BY <1>1, <1>2, <1>3, <1>4, <1>6 DEF Edges
<1> QED BY <1>2, <1>3, <1>5, <1>7

\* The first round begins with the first message.
LEMMA FirstStart ==
  ASSUME NEW ms \in Seq(Messages), 1 \in Starts(ms)
  PROVE  StartOf(ms, 1) = 1 /\ 1 <= Rounds(ms)
<1> DEFINE S == Starts(ms)
<1>1. /\ Len(ms) \in Nat /\ S \in SUBSET (1..Len(ms)) /\ IsFiniteSet(S)
      /\ Rounds(ms) = Cardinality(S)
  BY StartsAre, UptoIs DEF Rounds
<1>2. 1 \in S OBVIOUS
<1> HIDE DEF S
<1>3. Cardinality(S) # 0 /\ Cardinality(S) \in Nat
  BY <1>1, <1>2, FS_EmptySet, FS_CardinalityType
<1>4. 1 \in 1..Rounds(ms) BY <1>1, <1>3
<1>5. StartOf(ms, 1) \in S /\ Cardinality(Upto(S, StartOf(ms, 1))) = 1
  BY <1>4, StartsAre DEF S
<1> DEFINE s == StartOf(ms, 1)
<1>6. s \in 1..Len(ms) BY <1>1, <1>5
<1> HIDE DEF s
<1>7. Cardinality(Upto(S, s)) = Cardinality(Upto(S, s - 1)) + 1
  <2>1. s \in S BY <1>5 DEF s
  <2> QED BY <1>1, <1>6, <2>1, UptoNext
<1>8. s - 1 \in 0..Len(ms) BY <1>6
<1>9. IsFiniteSet(Upto(S, s - 1)) /\ Cardinality(Upto(S, s - 1)) \in Nat
  BY <1>1, <1>8, UptoIs
<1>10. Cardinality(Upto(S, s - 1)) = 0 BY <1>5, <1>7, <1>9 DEF s
<1>11. Upto(S, s - 1) = {} BY <1>9, <1>10, FS_EmptySet
<1>12. ~(1 <= s - 1) BY <1>2, <1>11, InUpto
<1> QED BY <1>4, <1>6, <1>12 DEF s

-----------------------------------------------------------------------------
(* Transcripts and their parts.                                            *)

\* Two messages that differ at most in what counts against the window.
Like(m, n) ==
  /\ n.kind = m.kind /\ n.ts = m.ts /\ n.call = m.call
  /\ n.ok = m.ok /\ n.usage = m.usage /\ n.covers = m.covers

\* The same messages in the same places.
Alike(ms, ns) ==
  /\ ms \in Seq(Messages) /\ ns \in Seq(Messages) /\ Len(ns) = Len(ms)
  /\ \A i \in 1..Len(ms) : Like(ms[i], ns[i])

\* A result follows the response it answers, a call is followed by its result.
Answering(ms, i) ==
  ms[i].kind = "tool" =>
    i > 1 /\ ms[i - 1].kind = "assistant" /\ ms[i - 1].call = ms[i].call
Answered(ms, i) ==
  ms[i].kind = "assistant" /\ ms[i].call # NoCallMade =>
    i < Len(ms) /\ ms[i + 1].kind = "tool"

\* What every transcript and every view is: each message once, only summaries stand
\* for others, and no call without its result.
Sound(ms) ==
  /\ ms \in Seq(Messages)
  /\ \A i, j \in 1..Len(ms) : ms[i].ts = ms[j].ts => i = j
  /\ \A i \in 1..Len(ms) : ms[i].kind # "summary" => ms[i].covers = {}
  /\ \A i \in 1..Len(ms) : Answering(ms, i)
  /\ \A i \in 1..Len(ms) : Answered(ms, i)

\* A part of a sequence.
LEMMA Part ==
  ASSUME NEW S, NEW ms \in Seq(S), NEW b \in 1..Len(ms) + 1, NEW e \in b - 1..Len(ms)
  PROVE  /\ SubSeq(ms, b, e) \in Seq(S) /\ Len(SubSeq(ms, b, e)) = e - b + 1
         /\ \A i \in 1..e - b + 1 :
              SubSeq(ms, b, e)[i] = ms[b - 1 + i] /\ b - 1 + i \in 1..Len(ms)
<1>1. Len(ms) \in Nat /\ b \in Int /\ e \in Int /\ b >= 1 /\ e <= Len(ms) /\ b <= e + 1
  OBVIOUS
<1>2. \A i \in b..e : ms[i] \in S
  <2>1. \A i \in b..e : i \in 1..Len(ms) BY <1>1
  <2> QED BY <2>1, ElementOfSeq
<1>3. /\ SubSeq(ms, b, e) \in Seq(S)
      /\ Len(SubSeq(ms, b, e)) = IF b <= e THEN e - b + 1 ELSE 0
      /\ \A i \in 1..e - b + 1 : SubSeq(ms, b, e)[i] = ms[b + i - 1]
  BY <1>1, <1>2, SubSeqProperties
<1>4. (IF b <= e THEN e - b + 1 ELSE 0) = e - b + 1 BY <1>1
<1>5. \A i \in 1..e - b + 1 : b + i - 1 = b - 1 + i /\ b - 1 + i \in 1..Len(ms) BY <1>1
<1> QED BY <1>3, <1>4, <1>5

\* A part that is cut at rounds is sound.
LEMMA PartSound ==
  ASSUME NEW ms, Sound(ms), NEW b \in 1..Len(ms) + 1, NEW e \in b - 1..Len(ms),
         b \in Edges(ms), e + 1 \in Edges(ms)
  PROVE  Sound(SubSeq(ms, b, e))
<1> DEFINE p == SubSeq(ms, b, e)
<1>1. ms \in Seq(Messages) /\ Len(ms) \in Nat BY DEF Sound
<1>2. /\ p \in Seq(Messages) /\ Len(p) = e - b + 1
      /\ \A i \in 1..Len(p) : p[i] = ms[b - 1 + i] /\ b - 1 + i \in 1..Len(ms)
  BY <1>1, Part, SMTT(30)
<1> HIDE DEF p
<1>3. \A i, j \in 1..Len(p) : p[i].ts = p[j].ts => i = j
  <2> TAKE i, j \in 1..Len(p)
  <2> HAVE p[i].ts = p[j].ts
  <2>1. /\ ms[b - 1 + i].ts = ms[b - 1 + j].ts /\ b - 1 + i \in 1..Len(ms)
        /\ b - 1 + j \in 1..Len(ms)
    BY <1>2
  <2>2. b - 1 + i = b - 1 + j BY <2>1 DEF Sound
  <2> QED BY <2>2
<1>4. \A i \in 1..Len(p) : p[i].kind # "summary" => p[i].covers = {} BY <1>2 DEF Sound
<1>5. ASSUME NEW i \in 1..Len(p), p[i].kind = "tool"
      PROVE  i > 1 /\ p[i - 1].kind = "assistant" /\ p[i - 1].call = p[i].call
  <2>1. p[i] = ms[b - 1 + i] /\ b - 1 + i \in 1..Len(ms) BY <1>2
  <2>2. ms[b - 2 + i].kind = "assistant" /\ ms[b - 2 + i].call = ms[b - 1 + i].call
    <3>1. b - 1 + i - 1 = b - 2 + i OBVIOUS
    <3> QED BY <1>5, <2>1, <3>1 DEF Sound, Answering
  <2>3. i # 1
    <3> SUFFICES ASSUME i = 1 PROVE FALSE OBVIOUS
    <3>1. b - 1 + i = b BY <1>2
    <3>2. ms[b].kind = "tool" /\ b \in 1..Len(ms) BY <1>5, <2>1, <3>1
    <3> QED BY <1>1, <3>2 DEF Edges, Starts
  <2>4. i - 1 \in 1..Len(p) /\ i > 1 /\ b - 1 + (i - 1) = b - 2 + i BY <1>2, <2>3
  <2> QED BY <1>2, <2>1, <2>2, <2>4
<1>6. ASSUME NEW i \in 1..Len(p), p[i].kind = "assistant", p[i].call # NoCallMade
      PROVE  i < Len(p) /\ p[i + 1].kind = "tool"
  <2>1. p[i] = ms[b - 1 + i] /\ b - 1 + i \in 1..Len(ms) BY <1>2
  <2>2. b - 1 + i < Len(ms) /\ ms[b + i].kind = "tool"
    <3>1. b - 1 + i + 1 = b + i OBVIOUS
    <3> QED BY <1>6, <2>1, <3>1 DEF Sound, Answered
  <2>3. i # Len(p)
    <3> SUFFICES ASSUME i = Len(p) PROVE FALSE OBVIOUS
    <3>1. b + i = e + 1 BY <1>2
    <3>2. ms[e + 1].kind = "tool" /\ e + 1 \in 1..Len(ms) BY <1>1, <2>2, <3>1
    <3> QED BY <1>1, <3>2 DEF Edges, Starts
  <2>4. i + 1 \in 1..Len(p) /\ i < Len(p) /\ b - 1 + (i + 1) = b + i BY <1>1, <1>2, <2>3
  <2> QED BY <1>2, <2>2, <2>4
<1> QED BY <1>2, <1>3, <1>4, <1>5, <1>6 DEF Sound, Answering, Answered, p

\* Two sequences joined.
LEMMA Joined ==
  ASSUME NEW S, NEW a \in Seq(S), NEW b \in Seq(S)
  PROVE  /\ a \o b \in Seq(S) /\ Len(a \o b) = Len(a) + Len(b)
         /\ \A i \in 1..Len(a) : (a \o b)[i] = a[i]
         /\ \A i \in 1..Len(b) : (a \o b)[Len(a) + i] = b[i]
         /\ \A i \in 1..Len(a \o b) :
              i \in 1..Len(a) \/ (i - Len(a) \in 1..Len(b) /\ i = Len(a) + (i - Len(a)))
<1>1. Len(a) \in Nat /\ Len(b) \in Nat OBVIOUS
<1>2. /\ a \o b \in Seq(S) /\ Len(a \o b) = Len(a) + Len(b)
      /\ \A i \in 1..Len(a) + Len(b) :
           (a \o b)[i] = IF i <= Len(a) THEN a[i] ELSE b[i - Len(a)]
  BY ConcatProperties
<1>3. \A i \in 1..Len(b) :
        /\ Len(a) + i - Len(a) = i /\ Len(a) + i \in 1..Len(a) + Len(b)
        /\ ~(Len(a) + i <= Len(a))
  BY <1>1
<1>4. \A i \in 1..Len(a) : i \in 1..Len(a) + Len(b) /\ i <= Len(a) BY <1>1
<1>5. \A i \in 1..Len(b) : (a \o b)[Len(a) + i] = b[i]
  <2> TAKE i \in 1..Len(b)
  <2>1. (a \o b)[Len(a) + i] = b[Len(a) + i - Len(a)] BY <1>2, <1>3
  <2> QED BY <1>3, <2>1
<1>6. \A i \in 1..Len(a) + Len(b) :
        i \in 1..Len(a) \/ (i - Len(a) \in 1..Len(b) /\ i = Len(a) + (i - Len(a)))
  BY <1>1
<1> QED BY <1>2, <1>4, <1>5, <1>6

\* Two sound sequences with no message in common are sound when joined.
LEMMA JoinSound ==
  ASSUME NEW a, NEW b, Sound(a), Sound(b),
         \A i \in 1..Len(a), j \in 1..Len(b) : a[i].ts # b[j].ts
  PROVE  Sound(a \o b)
<1> DEFINE c == a \o b
<1>1. a \in Seq(Messages) /\ b \in Seq(Messages) /\ Len(a) \in Nat /\ Len(b) \in Nat
  BY DEF Sound
<1>2. /\ c \in Seq(Messages) /\ Len(c) = Len(a) + Len(b)
      /\ \A i \in 1..Len(a) : c[i] = a[i]
      /\ \A i \in 1..Len(b) : c[Len(a) + i] = b[i]
      /\ \A i \in 1..Len(c) :
           i \in 1..Len(a) \/ (i - Len(a) \in 1..Len(b) /\ i = Len(a) + (i - Len(a)))
  BY <1>1, Joined
<1> HIDE DEF c
<1>3. ASSUME NEW i \in 1..Len(c), i - Len(a) \in 1..Len(b) PROVE c[i] = b[i - Len(a)]
  <2>1. i = Len(a) + (i - Len(a)) BY <1>1
  <2> QED BY <1>2, <1>3, <2>1
<1>4. ASSUME NEW i \in 1..Len(c), NEW j \in 1..Len(c), c[i].ts = c[j].ts PROVE i = j
  <2>1. CASE i \in 1..Len(a) /\ j \in 1..Len(a) BY <1>2, <1>4, <2>1 DEF Sound
  <2>2. CASE i - Len(a) \in 1..Len(b) /\ j - Len(a) \in 1..Len(b)
    <3>1. c[i] = b[i - Len(a)] /\ c[j] = b[j - Len(a)] BY <1>3, <2>2
    <3>2. i - Len(a) = j - Len(a) BY <1>4, <2>2, <3>1 DEF Sound
    <3> QED BY <1>1, <3>2
  <2>3. CASE i \in 1..Len(a) /\ j - Len(a) \in 1..Len(b)
    <3>1. c[i] = a[i] BY <1>2, <2>3
    <3>2. c[j] = b[j - Len(a)] BY <1>3, <2>3
    <3> QED BY <1>4, <2>3, <3>1, <3>2
  <2>4. CASE j \in 1..Len(a) /\ i - Len(a) \in 1..Len(b)
    <3>1. c[j] = a[j] BY <1>2, <2>4
    <3>2. c[i] = b[i - Len(a)] BY <1>3, <2>4
    <3> QED BY <1>4, <2>4, <3>1, <3>2
  <2> QED BY <1>2, <2>1, <2>2, <2>3, <2>4
<1>5. ASSUME NEW i \in 1..Len(c), c[i].kind # "summary" PROVE c[i].covers = {}
  <2>1. CASE i \in 1..Len(a) BY <1>2, <1>5, <2>1 DEF Sound
  <2>2. CASE i - Len(a) \in 1..Len(b)
    <3>1. c[i] = b[i - Len(a)] BY <1>3, <2>2
    <3> QED BY <1>5, <2>2, <3>1 DEF Sound
  <2> QED BY <1>2, <2>1, <2>2
<1>6. ASSUME NEW i \in 1..Len(c), c[i].kind = "tool"
      PROVE  i > 1 /\ c[i - 1].kind = "assistant" /\ c[i - 1].call = c[i].call
  <2>1. CASE i \in 1..Len(a)
    <3>1. i > 1 /\ a[i - 1].kind = "assistant" /\ a[i - 1].call = a[i].call
      BY <1>2, <1>6, <2>1 DEF Sound, Answering
    <3>2. i - 1 \in 1..Len(a) BY <2>1, <3>1
    <3> QED BY <1>2, <2>1, <3>1, <3>2
  <2>2. CASE i - Len(a) \in 1..Len(b)
    <3>1. c[i] = b[i - Len(a)] BY <1>3, <2>2
    <3>2. /\ i - Len(a) > 1 /\ b[i - Len(a) - 1].kind = "assistant"
          /\ b[i - Len(a) - 1].call = b[i - Len(a)].call
      BY <1>6, <2>2, <3>1 DEF Sound, Answering
    <3>3. i - Len(a) - 1 \in 1..Len(b) /\ i - 1 = Len(a) + (i - Len(a) - 1) /\ i > 1
      BY <1>1, <2>2, <3>2
    <3> QED BY <1>2, <3>1, <3>2, <3>3
  <2> QED BY <1>2, <2>1, <2>2
<1>7. ASSUME NEW i \in 1..Len(c), c[i].kind = "assistant", c[i].call # NoCallMade
      PROVE  i < Len(c) /\ c[i + 1].kind = "tool"
  <2>1. CASE i \in 1..Len(a)
    <3>1. i < Len(a) /\ a[i + 1].kind = "tool" BY <1>2, <1>7, <2>1 DEF Sound, Answered
    <3>2. i + 1 \in 1..Len(a) /\ i < Len(c) BY <1>1, <1>2, <2>1, <3>1
    <3> QED BY <1>2, <3>1, <3>2
  <2>2. CASE i - Len(a) \in 1..Len(b)
    <3>1. c[i] = b[i - Len(a)] BY <1>3, <2>2
    <3>2. i - Len(a) < Len(b) /\ b[i - Len(a) + 1].kind = "tool"
      BY <1>7, <2>2, <3>1 DEF Sound, Answered
    <3>3. /\ i - Len(a) + 1 \in 1..Len(b) /\ i + 1 = Len(a) + (i - Len(a) + 1)
          /\ i < Len(c)
      <4>1. i \in Int /\ Len(c) = Len(a) + Len(b) BY <1>2
      <4> QED BY <1>1, <2>2, <3>2, <4>1
    <3> QED BY <1>2, <3>2, <3>3
  <2> QED BY <1>2, <2>1, <2>2
<1> QED BY <1>2, <1>4, <1>5, <1>6, <1>7 DEF Sound, Answering, Answered, c

\* Strips keep a view sound.
LEMMA AlikeSound ==
  ASSUME NEW ms, NEW ns, Alike(ms, ns), Sound(ms)
  PROVE  Sound(ns)
<1>1. Len(ms) \in Nat /\ Len(ns) = Len(ms) /\ ns \in Seq(Messages) BY DEF Alike
<1>2. \A i \in 1..Len(ms) : /\ ns[i].kind = ms[i].kind /\ ns[i].ts = ms[i].ts
                            /\ ns[i].call = ms[i].call /\ ns[i].covers = ms[i].covers
  BY DEF Alike, Like
<1>3. \A i, j \in 1..Len(ms) : ns[i].ts = ns[j].ts => i = j BY <1>2 DEF Sound
<1>4. \A i \in 1..Len(ms) : ns[i].kind # "summary" => ns[i].covers = {}
  BY <1>2 DEF Sound
<1>5. ASSUME NEW i \in 1..Len(ms) PROVE Answering(ns, i)
  <2>1. Answering(ms, i) BY DEF Sound
  <2>2. i > 1 => i - 1 \in 1..Len(ms) OBVIOUS
  <2> QED BY <1>2, <2>1, <2>2 DEF Answering
<1>6. ASSUME NEW i \in 1..Len(ms) PROVE Answered(ns, i)
  <2>1. Answered(ms, i) BY DEF Sound
  <2>2. i < Len(ms) => i + 1 \in 1..Len(ms) BY <1>1
  <2> QED BY <1>1, <1>2, <2>1, <2>2 DEF Answered
<1> QED BY <1>1, <1>3, <1>4, <1>5, <1>6 DEF Sound

-----------------------------------------------------------------------------
(* The barrier of the latest summary.                                      *)

\* The greatest of a finite set of numbers is one.
LEMMA MaxIs ==
  ASSUME NEW n \in Nat, NEW S \in SUBSET (1..n), S # {}
  PROVE  Max(S) \in S /\ \A y \in S : Max(S) >= y
<1> DEFINE T == {k \in 0..n : n - k \in S}
<1>1. T \subseteq Nat /\ T # {}
  <2>1. PICK x \in S : TRUE OBVIOUS
  <2>2. x \in 1..n /\ n - x \in 0..n /\ n - (n - x) = x OBVIOUS
  <2>3. n - x \in T BY <2>2
  <2>4. \A k \in T : k \in Nat OBVIOUS
  <2> HIDE DEF T
  <2> QED BY <2>3, <2>4
<1>2. PICK k \in T : \A y \in T : k <= y
  <2> HIDE DEF T
  <2> QED BY <1>1, LeastNumber
<1>3. n - k \in S /\ k \in Nat OBVIOUS
<1>4. ASSUME NEW y \in S PROVE n - k >= y
  <2>1. y \in 1..n /\ n - y \in 0..n /\ n - (n - y) = y OBVIOUS
  <2>2. k <= n - y BY <1>2, <2>1
  <2> QED BY <1>3, <2>1, <2>2
<1>5. \E x \in S : \A y \in S : x >= y BY <1>3, <1>4
<1> QED BY <1>5, Zenon DEF Max

\* The largest of a set is the one that is at least as large as the others.
LEMMA MaxOf ==
  ASSUME NEW S \in SUBSET Nat, NEW x \in S, \A y \in S : x >= y
  PROVE  Max(S) = x
<1>1. Max(S) \in S /\ \A y \in S : Max(S) >= y BY Zenon DEF Max
<1>2. Max(S) \in Nat /\ x \in Nat /\ Max(S) >= x /\ x >= Max(S) BY <1>1
<1> QED BY <1>2

\* The latest summary, and none after it.
LEMMA LatestIs ==
  ASSUME NEW ms \in Seq(Messages)
  PROVE  /\ LatestSummary(ms) \in 0..Len(ms)
         /\ LatestSummary(ms) > 0 => ms[LatestSummary(ms)].kind = "summary"
         /\ \A i \in 1..Len(ms) : i > LatestSummary(ms) => ms[i].kind # "summary"
<1> DEFINE at == {i \in DOMAIN ms : ms[i].kind = "summary"}
<1>1. at \in SUBSET (1..Len(ms)) /\ Len(ms) \in Nat OBVIOUS
<1>2. LatestSummary(ms) = IF at = {} THEN 0 ELSE Max(at) BY DEF LatestSummary
<1>3. CASE at = {}
  <2>1. \A i \in 1..Len(ms) : ms[i].kind # "summary" BY <1>3
  <2> QED BY <1>1, <1>2, <1>3, <2>1
<1>4. CASE at # {}
  <2>1. Max(at) \in at /\ \A y \in at : Max(at) >= y
    <3> HIDE DEF at
    <3> QED BY <1>1, <1>4, MaxIs
  <2>2. LatestSummary(ms) = Max(at) BY <1>2, <1>4
  <2>3. LatestSummary(ms) \in 1..Len(ms) /\ ms[LatestSummary(ms)].kind = "summary"
    BY <2>1, <2>2
  <2>4. ASSUME NEW i \in 1..Len(ms), i > LatestSummary(ms) PROVE ms[i].kind # "summary"
    <3>1. i \notin at BY <1>1, <2>1, <2>2, <2>4
    <3> QED BY <3>1
  <2> QED BY <2>3, <2>4
<1> QED BY <1>3, <1>4

\* It is known by what it is.
LEMMA LatestUnique ==
  ASSUME NEW ms \in Seq(Messages), NEW l \in 0..Len(ms),
         l > 0 => ms[l].kind = "summary",
         \A i \in 1..Len(ms) : i > l => ms[i].kind # "summary"
  PROVE  LatestSummary(ms) = l
<1>1. LatestSummary(ms) \in 0..Len(ms) /\ Len(ms) \in Nat BY LatestIs
<1>2. ~(LatestSummary(ms) > l)
  <2> SUFFICES ASSUME LatestSummary(ms) > l PROVE FALSE OBVIOUS
  <2>1. LatestSummary(ms) \in 1..Len(ms) /\ LatestSummary(ms) > 0 BY <1>1
  <2> QED BY <2>1, LatestIs
<1>3. ~(l > LatestSummary(ms))
  <2> SUFFICES ASSUME l > LatestSummary(ms) PROVE FALSE OBVIOUS
  <2>1. l \in 1..Len(ms) /\ l > 0 BY <1>1
  <2> QED BY <2>1, LatestIs
<1> QED BY <1>1, <1>2, <1>3

\* No summary but in front.
Fronted(ms) == \A i \in 2..Len(ms) : ms[i].kind # "summary"

\* Where what a request shows begins.
ViewStart(ms) == IF LatestSummary(ms) = 0 THEN 1 ELSE LatestSummary(ms)

\* applyCompactionBarrier: from the latest summary on.
LEMMA BarrierIs ==
  ASSUME NEW ms, Sound(ms)
  PROVE  /\ ViewStart(ms) \in 1..Len(ms) + 1
         /\ Len(Barrier(ms)) = Len(ms) - ViewStart(ms) + 1
         /\ \A i \in 1..Len(Barrier(ms)) :
              /\ Barrier(ms)[i] = ms[ViewStart(ms) - 1 + i]
              /\ ViewStart(ms) - 1 + i \in 1..Len(ms)
         /\ Sound(Barrier(ms)) /\ Fronted(Barrier(ms))
         /\ LatestSummary(Barrier(ms)) = IF LatestSummary(ms) = 0 THEN 0 ELSE 1
         /\ SummaryTs(Barrier(ms)) = SummaryTs(ms)
<1> DEFINE l == LatestSummary(ms)
           b == ViewStart(ms)
           p == SubSeq(ms, b, Len(ms))
<1>1. ms \in Seq(Messages) /\ Len(ms) \in Nat BY DEF Sound
<1>2. /\ l \in 0..Len(ms) /\ (l > 0 => ms[l].kind = "summary")
      /\ \A i \in 1..Len(ms) : i > l => ms[i].kind # "summary"
  BY <1>1, LatestIs
<1>3. b = IF l = 0 THEN 1 ELSE l BY DEF ViewStart
<1> HIDE DEF l, b
<1>4. b \in 1..Len(ms) + 1 /\ Len(ms) \in b - 1..Len(ms) BY <1>1, <1>2, <1>3
<1>5. Barrier(ms) = p
  <2>1. SubSeq(ms, 1, Len(ms)) = ms BY <1>1, SubSeqFull
  <2> QED BY <1>3, <2>1 DEF Barrier, l
<1>6. b \in Edges(ms) /\ Len(ms) + 1 \in Edges(ms)
  <2>1. ASSUME Len(ms) # 0, l = 0 PROVE 1 \in Starts(ms)
    <3>1. 1 \in 1..Len(ms) BY <1>1, <2>1
    <3>2. ms[1].kind # "tool" BY <3>1 DEF Sound, Answering
    <3> QED BY <1>1, <3>1, <3>2 DEF Starts
  <2>2. ASSUME l # 0 PROVE l \in Starts(ms)
    <3>1. l \in 1..Len(ms) /\ ms[l].kind # "tool" BY <1>2, <2>2
    <3> QED BY <1>1, <3>1 DEF Starts
  <2> QED BY <1>1, <1>3, <2>1, <2>2 DEF Edges
<1>7. Sound(p) BY <1>4, <1>6, PartSound
<1>8. /\ Len(p) = Len(ms) - b + 1 /\ p \in Seq(Messages)
      /\ \A i \in 1..Len(p) : p[i] = ms[b - 1 + i] /\ b - 1 + i \in 1..Len(ms)
  BY <1>1, <1>4, Part
<1> HIDE DEF p
<1>9. ASSUME NEW i \in 2..Len(p) PROVE p[i].kind # "summary"
  <2>1. i \in 1..Len(p) BY <1>8
  <2>2. p[i] = ms[b - 1 + i] /\ b - 1 + i \in 1..Len(ms) BY <1>8, <2>1
  <2>3. b - 1 + i > l BY <1>2, <1>4, <1>3
  <2> QED BY <1>2, <2>2, <2>3
<1>10. LatestSummary(p) = IF l = 0 THEN 0 ELSE 1
  <2>1. CASE l = 0
    <3>1. \A i \in 1..Len(p) : p[i].kind # "summary"
      <4> TAKE i \in 1..Len(p)
      <4>1. p[i] = ms[b - 1 + i] /\ b - 1 + i \in 1..Len(ms) /\ b - 1 + i > l
        BY <1>8, <1>3, <2>1
      <4> QED BY <1>2, <4>1
    <3>2. 0 \in 0..Len(p) /\ ~(0 > 0) BY <1>1, <1>4, <1>8
    <3> QED BY <1>8, <2>1, <3>1, <3>2, LatestUnique
  <2>2. CASE l # 0
    <3>1. b = l /\ Len(p) \in Nat /\ Len(p) >= 1 BY <1>1, <1>2, <1>8, <1>3, <2>2
    <3>2. p[1].kind = "summary" /\ 1 \in 0..Len(p)
      <4>1. 1 \in 1..Len(p) /\ b - 1 + 1 = l BY <1>2, <3>1
      <4>2. p[1] = ms[l] BY <1>8, <4>1
      <4> QED BY <1>2, <2>2, <4>1, <4>2
    <3>3. \A i \in 1..Len(p) : i > 1 => p[i].kind # "summary"
      <4> TAKE i \in 1..Len(p)
      <4> HAVE i > 1
      <4>1. i \in 2..Len(p) BY <3>1
      <4> QED BY <1>9, <4>1
    <3> QED BY <1>8, <2>2, <3>2, <3>3, LatestUnique
  <2> QED BY <2>1, <2>2
<1>11. SummaryTs(p) = SummaryTs(ms)
  <2>1. CASE l = 0 BY <1>10, <2>1 DEF SummaryTs, l
  <2>2. CASE l # 0
    <3>1. b = l /\ Len(p) \in Nat /\ Len(p) >= 1 /\ b - 1 + 1 = l /\ 1 \in 1..Len(p)
      BY <1>1, <1>2, <1>8, <1>3, <2>2
    <3>2. p[1] = ms[l] BY <1>8, <3>1
    <3> QED BY <1>10, <2>2, <3>2 DEF SummaryTs, l
  <2> QED BY <2>1, <2>2
<1> QED BY <1>4, <1>5, <1>7, <1>8, <1>9, <1>10, <1>11 DEF Fronted, b, l

-----------------------------------------------------------------------------
(* Reductions: rounds are dropped in the middle or in front.               *)

\* A transcript without some of its rounds: the last and the latest summary stay.
Reduced(ms, out) ==
  \E b, c, a \in Edges(ms) :
    /\ b <= c /\ c <= a /\ a <= Len(ms)
    /\ out = SubSeq(ms, b, c - 1) \o SubSeq(ms, a, Len(ms))
    /\ LatestSummary(ms) > 0 =>
         (b <= LatestSummary(ms) /\ LatestSummary(ms) < c) \/ a <= LatestSummary(ms)

\* Such a reduction keeps the newest message and the latest summary.
LEMMA ReducedMeans ==
  ASSUME NEW ms, NEW out, Sound(ms), Reduced(ms, out)
  PROVE  /\ Sound(out) /\ Len(out) >= 1 /\ out[Len(out)] = ms[Len(ms)] /\ Len(ms) >= 1
         /\ \A k \in 1..Len(out) : \E i \in 1..Len(ms) : out[k] = ms[i]
         /\ LatestSummary(ms) = 0 => LatestSummary(out) = 0
         /\ LatestSummary(ms) > 0 =>
              /\ LatestSummary(out) \in 1..Len(out)
              /\ out[LatestSummary(out)] = ms[LatestSummary(ms)]
              /\ \A k \in 1..Len(out) : k < LatestSummary(out) =>
                   \E i \in 1..Len(ms) : i < LatestSummary(ms) /\ out[k] = ms[i]
<1> DEFINE L == LatestSummary(ms)
<1>1. ms \in Seq(Messages) /\ Len(ms) \in Nat BY DEF Sound
<1>2. PICK b \in Edges(ms), c \in Edges(ms), a \in Edges(ms) :
        /\ b <= c /\ c <= a /\ a <= Len(ms)
        /\ out = SubSeq(ms, b, c - 1) \o SubSeq(ms, a, Len(ms))
        /\ L > 0 => (b <= L /\ L < c) \/ a <= L
  BY DEF Reduced
<1>3. /\ L \in 0..Len(ms) /\ (L > 0 => ms[L].kind = "summary")
      /\ \A i \in 1..Len(ms) : i > L => ms[i].kind # "summary"
  BY <1>1, LatestIs
<1> HIDE DEF L
<1>4. Edges(ms) \subseteq 1..Len(ms) + 1 BY <1>1, StartsAre DEF Edges
<1>5. /\ a \in 1..Len(ms) /\ b \in 1..Len(ms) /\ c \in 1..Len(ms)
      /\ Len(ms) + 1 \in Edges(ms)
  BY <1>1, <1>2, <1>4 DEF Edges
<1> DEFINE p == SubSeq(ms, b, c - 1)
           q == SubSeq(ms, a, Len(ms))
<1>6. c - 1 \in b - 1..Len(ms) /\ b \in 1..Len(ms) + 1 /\ a \in 1..Len(ms) + 1
      /\ Len(ms) \in a - 1..Len(ms) /\ c - 1 + 1 = c /\ c - 1 - b + 1 = c - b
  BY <1>1, <1>2, <1>5
<1>7. /\ p \in Seq(Messages) /\ Len(p) = c - b
      /\ \A i \in 1..c - b : p[i] = ms[b - 1 + i] /\ b - 1 + i \in 1..Len(ms)
  <2>1. /\ p \in Seq(Messages) /\ Len(p) = c - 1 - b + 1
        /\ \A i \in 1..c - 1 - b + 1 : p[i] = ms[b - 1 + i] /\ b - 1 + i \in 1..Len(ms)
    BY <1>1, <1>6, Part
  <2> QED BY <1>6, <2>1
<1>8. /\ q \in Seq(Messages) /\ Len(q) = Len(ms) - a + 1
      /\ \A i \in 1..Len(ms) - a + 1 : q[i] = ms[a - 1 + i] /\ a - 1 + i \in 1..Len(ms)
  BY <1>1, <1>6, Part
<1>9. Sound(p) /\ Sound(q)
  <2>1. Sound(p) BY <1>2, <1>6, PartSound
  <2>2. Sound(q) BY <1>2, <1>5, <1>6, PartSound
  <2> QED BY <2>1, <2>2
<1> HIDE DEF p, q
<1>10. out = p \o q BY <1>2 DEF p, q
<1>11. /\ out \in Seq(Messages) /\ Len(out) = Len(p) + Len(q)
       /\ \A i \in 1..Len(p) : out[i] = p[i]
       /\ \A i \in 1..Len(q) : out[Len(p) + i] = q[i]
       /\ \A i \in 1..Len(out) :
            i \in 1..Len(p) \/ (i - Len(p) \in 1..Len(q) /\ i = Len(p) + (i - Len(p)))
  <2>1. p \in Seq(Messages) /\ q \in Seq(Messages) BY <1>7, <1>8
  <2> QED BY <1>10, <2>1, Joined
<1>12. Sound(out)
  <2>1. ASSUME NEW i \in 1..Len(p), NEW j \in 1..Len(q) PROVE p[i].ts # q[j].ts
    <3>1. /\ p[i] = ms[b - 1 + i] /\ q[j] = ms[a - 1 + j]
          /\ b - 1 + i \in 1..Len(ms) /\ a - 1 + j \in 1..Len(ms)
      BY <1>7, <1>8
    <3>2. b - 1 + i # a - 1 + j BY <1>2, <1>5, <1>7
    <3> QED BY <3>1, <3>2 DEF Sound
  <2> QED BY <1>9, <1>10, <2>1, JoinSound
\* Where a message of the result comes from.
<1>13. \A k \in 1..Len(p) : out[k] = ms[b - 1 + k] /\ b - 1 + k \in 1..Len(ms)
  BY <1>7, <1>11
<1>14. \A k \in 1..Len(q) : out[Len(p) + k] = ms[a - 1 + k] /\ a - 1 + k \in 1..Len(ms)
  BY <1>8, <1>11
<1>15. Len(out) >= 1 /\ out[Len(out)] = ms[Len(ms)]
  <2>1. Len(q) \in 1..Len(q) /\ a - 1 + Len(q) = Len(ms) /\ Len(p) \in Nat
    BY <1>5, <1>7, <1>8, <1>6
  <2> QED BY <1>11, <1>14, <2>1
<1>16. \A k \in 1..Len(out) : \E i \in 1..Len(ms) : out[k] = ms[i]
  <2> TAKE k \in 1..Len(out)
  <2>1. CASE k \in 1..Len(p) BY <1>13, <2>1
  <2>2. CASE k - Len(p) \in 1..Len(q) /\ k = Len(p) + (k - Len(p))
    <3>1. out[k] = ms[a - 1 + (k - Len(p))] /\ a - 1 + (k - Len(p)) \in 1..Len(ms)
      BY <1>14, <2>2
    <3> QED BY <3>1
  <2> QED BY <1>11, <2>1, <2>2
<1>17. ASSUME L = 0 PROVE LatestSummary(out) = 0
  <2>1. \A i \in 1..Len(ms) : ms[i].kind # "summary" BY <1>3, <1>17
  <2>2. \A k \in 1..Len(out) : out[k].kind # "summary" BY <1>16, <2>1
  <2>3. 0 \in 0..Len(out) /\ ~(0 > 0) BY <1>15, <1>11
  <2> QED BY <1>11, <2>2, <2>3, LatestUnique
<1>18. ASSUME L > 0
       PROVE  \E l \in 1..Len(out) :
                /\ out[l] = ms[L]
                /\ \A k \in 1..Len(out) : k > l => out[k].kind # "summary"
                /\ \A k \in 1..Len(out) :
                     k < l => \E i \in 1..Len(ms) : i < L /\ out[k] = ms[i]
  <2>1. CASE b <= L /\ L < c
    <3>1. L - b + 1 \in 1..Len(p) /\ b - 1 + (L - b + 1) = L BY <1>3, <1>5, <1>7, <2>1
    <3>2. L - b + 1 \in 1..Len(out) /\ out[L - b + 1] = ms[L]
      <4>1. Len(p) \in Nat /\ Len(q) \in Nat BY <1>7, <1>8
      <4> QED BY <1>11, <1>13, <3>1, <4>1
    <3>3. ASSUME NEW k \in 1..Len(out), k > L - b + 1 PROVE out[k].kind # "summary"
      <4>1. CASE k \in 1..Len(p)
        <5>1. b - 1 + k > L BY <1>3, <1>5, <3>3
        <5> QED BY <1>3, <1>13, <4>1, <5>1
      <4>2. CASE k - Len(p) \in 1..Len(q) /\ k = Len(p) + (k - Len(p))
        <5>1. out[k] = ms[a - 1 + (k - Len(p))] /\ a - 1 + (k - Len(p)) \in 1..Len(ms)
          BY <1>14, <4>2
        <5>2. a - 1 + (k - Len(p)) > L
          <6>1. a > L /\ k - Len(p) >= 1 BY <1>2, <1>3, <1>5, <2>1, <4>2
          <6> QED BY <1>3, <1>5, <4>2, <6>1
        <5> QED BY <1>3, <5>1, <5>2
      <4> QED BY <1>11, <4>1, <4>2
    <3>4. ASSUME NEW k \in 1..Len(out), k < L - b + 1
          PROVE  \E i \in 1..Len(ms) : i < L /\ out[k] = ms[i]
      <4>1. k \in 1..Len(p) BY <1>3, <1>5, <1>7, <3>1, <3>4
      <4>2. b - 1 + k < L BY <1>3, <1>5, <3>4
      <4> QED BY <1>13, <4>1, <4>2
    <3> QED BY <3>2, <3>3, <3>4
  <2>2. CASE a <= L
    <3>1. L - a + 1 \in 1..Len(q) /\ a - 1 + (L - a + 1) = L BY <1>3, <1>5, <1>8, <2>2
    <3>2. Len(p) + (L - a + 1) \in 1..Len(out) /\ out[Len(p) + (L - a + 1)] = ms[L]
      <4>1. Len(p) \in Nat /\ Len(q) \in Nat BY <1>7, <1>8
      <4> QED BY <1>11, <1>14, <3>1, <4>1
    <3>3. ASSUME NEW k \in 1..Len(out), k > Len(p) + (L - a + 1)
          PROVE  out[k].kind # "summary"
      <4>1. Len(p) \in Nat /\ k \in Int /\ L - a + 1 \in Nat BY <1>7, <3>1
      <4>2. k \notin 1..Len(p) BY <3>3, <4>1
      <4>3. k - Len(p) \in 1..Len(q) /\ k = Len(p) + (k - Len(p)) BY <1>11, <4>2
      <4>4. out[k] = ms[a - 1 + (k - Len(p))] /\ a - 1 + (k - Len(p)) \in 1..Len(ms)
        BY <1>14, <4>3
      <4>5. a - 1 + (k - Len(p)) > L BY <1>3, <1>5, <3>3, <4>1
      <4> QED BY <1>3, <4>4, <4>5
    <3>4. ASSUME NEW k \in 1..Len(out), k < Len(p) + (L - a + 1)
          PROVE  \E i \in 1..Len(ms) : i < L /\ out[k] = ms[i]
      <4>1. Len(p) \in Nat /\ k \in Int /\ L \in Int /\ a \in Int BY <1>3, <1>5, <1>7
      <4>2. CASE k \in 1..Len(p)
        <5>1. b - 1 + k < L BY <1>2, <1>5, <1>7, <2>2, <4>1, <4>2
        <5> QED BY <1>13, <4>2, <5>1
      <4>3. CASE k - Len(p) \in 1..Len(q) /\ k = Len(p) + (k - Len(p))
        <5>1. out[k] = ms[a - 1 + (k - Len(p))] /\ a - 1 + (k - Len(p)) \in 1..Len(ms)
          BY <1>14, <4>3
        <5>2. a - 1 + (k - Len(p)) < L BY <3>4, <4>1
        <5> QED BY <5>1, <5>2
      <4> QED BY <1>11, <4>2, <4>3
    <3> QED BY <3>2, <3>3, <3>4
  <2> QED BY <1>2, <1>18, <2>1, <2>2
<1>19. ASSUME L > 0
       PROVE  /\ LatestSummary(out) \in 1..Len(out) /\ out[LatestSummary(out)] = ms[L]
              /\ \A k \in 1..Len(out) :
                   k < LatestSummary(out) =>
                     \E i \in 1..Len(ms) : i < L /\ out[k] = ms[i]
  <2>1. PICK l \in 1..Len(out) :
          /\ out[l] = ms[L]
          /\ \A k \in 1..Len(out) : k > l => out[k].kind # "summary"
          /\ \A k \in 1..Len(out) :
               k < l => \E i \in 1..Len(ms) : i < L /\ out[k] = ms[i]
    BY <1>18, <1>19
  <2>2. l \in 0..Len(out) /\ out[l].kind = "summary" BY <1>3, <1>19, <2>1
  <2>3. LatestSummary(out) = l BY <1>11, <2>1, <2>2, LatestUnique
  <2> QED BY <2>1, <2>3
<1> QED BY <1>12, <1>15, <1>16, <1>17, <1>19, <1>5 DEF L

\* A sound transcript begins with a round.
LEMMA FirstEdge ==
  ASSUME NEW ms, Sound(ms), Len(ms) >= 1
  PROVE  1 \in Starts(ms) /\ 1 \in Edges(ms) /\ StartOf(ms, 1) = 1 /\ 1 <= Rounds(ms)
<1>1. ms \in Seq(Messages) /\ 1 \in 1..Len(ms) BY DEF Sound
<1>2. ms[1].kind # "tool" BY <1>1 DEF Sound, Answering
<1>3. 1 \in Starts(ms) BY <1>1, <1>2 DEF Starts
<1> QED BY <1>1, <1>3, FirstStart DEF Edges

\* A summary is a round.
LEMMA NextEdge ==
  ASSUME NEW ms, Sound(ms), NEW l \in 1..Len(ms), ms[l].kind = "summary"
  PROVE  l \in Edges(ms) /\ l + 1 \in Edges(ms)
<1>1. ms \in Seq(Messages) /\ Len(ms) \in Nat BY DEF Sound
<1>2. l \in Starts(ms) BY <1>1 DEF Starts
<1>3. CASE l = Len(ms) BY <1>2, <1>3 DEF Edges
<1>4. CASE l # Len(ms)
  <2>1. l + 1 \in 1..Len(ms) /\ l + 1 - 1 = l BY <1>1, <1>4
  <2>2. ms[l + 1].kind # "tool" BY <2>1 DEF Sound, Answering
  <2> QED BY <1>1, <1>2, <2>1, <2>2 DEF Edges, Starts
<1> QED BY <1>3, <1>4

\* The transcript is a reduction of itself.
LEMMA WholeReduced ==
  ASSUME NEW ms, Sound(ms), Len(ms) >= 1
  PROVE  Reduced(ms, ms)
<1>1. ms \in Seq(Messages) /\ Len(ms) \in Nat BY DEF Sound
<1>2. 1 \in Edges(ms) BY FirstEdge
<1>3. SubSeq(ms, 1, 1 - 1) = <<>> BY <1>1, SubSeqEmpty
<1>4. SubSeq(ms, 1, Len(ms)) = ms BY <1>1, SubSeqFull
<1>5. ms = SubSeq(ms, 1, 1 - 1) \o SubSeq(ms, 1, Len(ms))
  BY <1>1, <1>3, <1>4, ConcatEmptySeq
<1>6. LatestSummary(ms) > 0 => 1 <= LatestSummary(ms)
  <2>1. LatestSummary(ms) \in Nat BY <1>1, LatestIs
  <2> QED BY <2>1
<1>7. 1 <= 1 /\ 1 <= Len(ms) OBVIOUS
<1> QED BY <1>2, <1>5, <1>6, <1>7 DEF Reduced

\* The rounds from the k-th on.
LEMMA TailOf ==
  ASSUME NEW ms, Sound(ms), NEW k \in 1..Rounds(ms)
  PROVE  /\ RoundsFromTo(ms, k, Rounds(ms)) = SubSeq(ms, StartOf(ms, k), Len(ms))
         /\ StartOf(ms, k) \in Edges(ms) /\ StartOf(ms, k) \in 1..Len(ms)
<1>1. ms \in Seq(Messages) /\ Len(ms) \in Nat /\ Rounds(ms) \in Nat
  BY StartsAre DEF Sound
<1>2. StartOf(ms, Rounds(ms) + 1) - 1 = Len(ms) BY <1>1, RoundsOrdered
<1>3. k \in 1..Rounds(ms) + 1 BY <1>1
<1> QED BY <1>1, <1>2, <1>3, RoundsOrdered DEF RoundsFromTo

\* trimRecentRounds is such a reduction.
LEMMA TrimReduced ==
  ASSUME NEW ms, Sound(ms), Len(ms) >= 1
  PROVE  Reduced(ms, TrimRecentRounds(ms))
<1>1. ms \in Seq(Messages) /\ Len(ms) \in Nat /\ Rounds(ms) \in Nat
  BY StartsAre DEF Sound
<1>2. KeepRecent \in Nat /\ KeepRecent >= 1 BY CompactionAssumption
<1>3. CASE Rounds(ms) <= KeepRecent
  <2>1. TrimRecentRounds(ms) = ms BY <1>1, <1>2, <1>3 DEF TrimRecentRounds
  <2> QED BY <2>1, WholeReduced
<1>4. CASE Rounds(ms) > KeepRecent
  <2> DEFINE a == StartOf(ms, Rounds(ms) - KeepRecent + 1)
             L == LatestSummary(ms)
             q == SubSeq(ms, a, Len(ms))
  <2>1. LatestRounds(ms, KeepRecent) =
          RoundsFromTo(ms, Rounds(ms) - KeepRecent + 1, Rounds(ms))
    BY <1>1, <1>2, <1>4 DEF LatestRounds, Smaller
  <2>2. Rounds(ms) - KeepRecent + 1 \in 1..Rounds(ms) BY <1>1, <1>2, <1>4
  <2>3. LatestRounds(ms, KeepRecent) = q /\ a \in Edges(ms) /\ a \in 1..Len(ms)
    BY <2>1, <2>2, TailOf
  <2>4. L \in 0..Len(ms) /\ (L > 0 => ms[L].kind = "summary")
        /\ \A i \in 1..Len(ms) : i > L => ms[i].kind # "summary"
    BY <1>1, LatestIs
  <2> HIDE DEF a, L
  <2>5. /\ q \in Seq(Messages) /\ Len(q) = Len(ms) - a + 1
        /\ \A i \in 1..Len(q) : q[i] = ms[a - 1 + i] /\ a - 1 + i \in 1..Len(ms)
    <3>1. a \in 1..Len(ms) + 1 /\ Len(ms) \in a - 1..Len(ms) BY <1>1, <2>3
    <3> QED BY <1>1, <3>1, Part
  <2> HIDE DEF q
  <2>6. /\ LatestSummary(q) \in 0..Len(q)
        /\ (LatestSummary(q) > 0 => q[LatestSummary(q)].kind = "summary")
        /\ \A i \in 1..Len(q) : i > LatestSummary(q) => q[i].kind # "summary"
    BY <2>5, LatestIs
  <2>7. ASSUME L > 0, LatestSummary(q) = 0 PROVE L < a
    <3> SUFFICES ASSUME a <= L PROVE FALSE BY <2>3, <2>4
    <3>1. L - a + 1 \in 1..Len(q) /\ a - 1 + (L - a + 1) = L BY <2>3, <2>4, <2>5
    <3>2. q[L - a + 1].kind = "summary" BY <2>4, <2>5, <2>7, <3>1
    <3>3. L - a + 1 > LatestSummary(q) BY <2>7, <3>1
    <3> QED BY <2>6, <3>1, <3>2, <3>3
  <2>8. ASSUME LatestSummary(q) # 0 PROVE a <= L
    <3>1. LatestSummary(q) \in 1..Len(q) /\ q[LatestSummary(q)].kind = "summary"
      BY <2>5, <2>6, <2>8
    <3>2. /\ a - 1 + LatestSummary(q) \in 1..Len(ms)
          /\ ms[a - 1 + LatestSummary(q)].kind = "summary"
      BY <2>5, <3>1
    <3>3. ~(a - 1 + LatestSummary(q) > L) BY <2>4, <3>2
    <3> QED BY <2>3, <2>4, <2>5, <3>1, <3>3
  <2>9. CASE L > 0 /\ LatestSummary(q) = 0
    <3>1. TrimRecentRounds(ms) = <<ms[L]>> \o q
      BY <1>1, <1>2, <1>4, <2>3, <2>9 DEF TrimRecentRounds, L
    <3>2. /\ L \in 1..Len(ms) /\ L < a /\ L + 1 <= a /\ L <= L + 1 /\ L < L + 1
          /\ L + 1 - 1 = L
      BY <2>3, <2>4, <2>7, <2>9
    <3>3. L \in Edges(ms) /\ L + 1 \in Edges(ms) BY <2>4, <2>9, <3>2, NextEdge
    <3>4. SubSeq(ms, L, L) = <<ms[L]>>
      <4>1. L \in 1..Len(ms) + 1 /\ L \in L - 1..Len(ms) /\ L - L + 1 = 1 BY <1>1, <3>2
      <4>2. /\ SubSeq(ms, L, L) \in Seq(Messages) /\ Len(SubSeq(ms, L, L)) = 1
            /\ SubSeq(ms, L, L)[1] = ms[L]
        <5>1. 1 \in 1..L - L + 1 /\ L - 1 + 1 = L BY <4>1, <3>2
        <5> QED BY <1>1, <4>1, <5>1, Part
      <4>3. ms[L] \in Messages BY <1>1, <3>2, ElementOfSeq
      <4> DEFINE one == <<ms[L]>>
      <4>4. one \in Seq(Messages) /\ Len(one) = 1 /\ one[1] = ms[L] BY <4>3
      <4> HIDE DEF one
      <4> DEFINE part == SubSeq(ms, L, L)
      <4>5. part \in Seq(Messages) /\ Len(part) = 1 /\ part[1] = ms[L] BY <4>2
      <4> HIDE DEF part
      <4>6. \A i \in 1..Len(part) : part[i] = one[i] BY <4>4, <4>5
      <4>7. part = one BY <4>4, <4>5, <4>6, SeqEqual
      <4> QED BY <4>7 DEF one, part
    <3>5. TrimRecentRounds(ms) = SubSeq(ms, L, L + 1 - 1) \o SubSeq(ms, a, Len(ms))
      BY <3>1, <3>2, <3>4 DEF q
    <3>6. a <= Len(ms) /\ L <= L /\ L <= L + 1 BY <2>3, <3>2
    <3> DEFINE c == L + 1
               out == TrimRecentRounds(ms)
    <3>7. /\ L \in Edges(ms) /\ c \in Edges(ms) /\ a \in Edges(ms)
          /\ L <= c /\ c <= a /\ a <= Len(ms)
          /\ out = SubSeq(ms, L, c - 1) \o SubSeq(ms, a, Len(ms))
          /\ L <= L /\ L < c
      BY <2>3, <3>2, <3>3, <3>5, <3>6
    <3> HIDE DEF c, out
    <3>8. Reduced(ms, out) BY <3>7 DEF Reduced, L
    <3> QED BY <3>8 DEF out
  <2>10. CASE ~(L > 0 /\ LatestSummary(q) = 0)
    <3>1. TrimRecentRounds(ms) = q
      BY <1>1, <1>2, <1>4, <2>3, <2>10 DEF TrimRecentRounds, L
    <3>2. SubSeq(ms, 1, 1 - 1) = <<>> BY <1>1, SubSeqEmpty
    <3>3. TrimRecentRounds(ms) = SubSeq(ms, 1, 1 - 1) \o SubSeq(ms, a, Len(ms))
      BY <2>5, <3>1, <3>2, ConcatEmptySeq DEF q
    <3>4. 1 \in Edges(ms) /\ 1 <= 1 /\ 1 <= a /\ a <= Len(ms) BY <2>3, FirstEdge
    <3>5. L > 0 => a <= L BY <2>8, <2>10
    <3> QED BY <2>3, <3>3, <3>4, <3>5 DEF Reduced, L
  <2> QED BY <2>9, <2>10
<1> QED BY <1>1, <1>2, <1>3, <1>4

\* compactHistory is such a reduction of a view whose summary is in front.
LEMMA CompactReduced ==
  ASSUME NEW ms, Sound(ms), Fronted(ms), Len(ms) >= 1
  PROVE  Reduced(ms, CompactHistory(ms))
<1>1. ms \in Seq(Messages) /\ Len(ms) \in Nat /\ Rounds(ms) \in Nat
  BY StartsAre DEF Sound
<1>2. KeepRecent \in Nat /\ KeepRecent >= 1 BY CompactionAssumption
<1>3. CASE Rounds(ms) <= 1 + KeepRecent
  <2>1. CompactHistory(ms) = ms BY <1>3 DEF CompactHistory
  <2> QED BY <2>1, WholeReduced
<1>4. CASE ~(Rounds(ms) <= 1 + KeepRecent)
  <2> DEFINE k == Rounds(ms) - KeepRecent + 1
             a == StartOf(ms, k)
             c == StartOf(ms, 2)
             L == LatestSummary(ms)
  <2>1. LatestRounds(ms, KeepRecent) = RoundsFromTo(ms, k, Rounds(ms))
    BY <1>1, <1>2, <1>4 DEF LatestRounds, Smaller
  <2>2. /\ k \in 1..Rounds(ms) /\ 2 \in 1..Rounds(ms) + 1 /\ k \in 1..Rounds(ms) + 1
        /\ 2 < k
        /\ 1 \in 1..Rounds(ms) + 1
    BY <1>1, <1>2, <1>4
  <2> HIDE DEF k
  <2>3. /\ LatestRounds(ms, KeepRecent) = SubSeq(ms, a, Len(ms)) /\ a \in Edges(ms)
        /\ a \in 1..Len(ms)
    BY <2>1, <2>2, TailOf
  <2>4. c < a /\ c \in Edges(ms) /\ 1 < c /\ c \in 1..Len(ms) + 1
    <3>1. c < a /\ StartOf(ms, 1) < c BY <1>1, <2>2, RoundsOrdered
    <3>2. c \in Edges(ms) /\ c \in 1..Len(ms) + 1 BY <1>1, <2>2, RoundsOrdered
    <3>3. StartOf(ms, 1) = 1 BY FirstEdge
    <3> HIDE DEF a, c
    <3> QED BY <3>1, <3>2, <3>3
  <2>5. RoundsFromTo(ms, 1, 1) = SubSeq(ms, 1, c - 1)
    <3>1. 1 + 1 = 2 /\ StartOf(ms, 1) = 1 BY FirstEdge
    <3> QED BY <3>1 DEF RoundsFromTo
  <2>6. CompactHistory(ms) = SubSeq(ms, 1, c - 1) \o SubSeq(ms, a, Len(ms))
    BY <1>4, <2>3, <2>5 DEF CompactHistory
  <2>7. L > 0 => 1 <= L /\ L < c
    <3>1. L \in 0..Len(ms) /\ (L > 0 => ms[L].kind = "summary") BY <1>1, LatestIs
    <3> HIDE DEF L
    <3>2. L \notin 2..Len(ms) \/ L = 0 BY <3>1 DEF Fronted
    <3>3. L > 0 => L = 1 BY <3>1, <3>2
    <3> QED BY <2>4, <3>3
  <2>8. 1 \in Edges(ms) /\ 1 <= c /\ c <= a /\ a <= Len(ms) BY <2>3, <2>4, FirstEdge
  <2> HIDE DEF a, c
  <2> QED BY <2>3, <2>4, <2>6, <2>7, <2>8 DEF Reduced
<1> QED BY <1>3, <1>4

-----------------------------------------------------------------------------
(* Views that are alike, and the strips.                                   *)

\* The timestamps of a transcript, element by element.
LEMMA InTs ==
  ASSUME NEW ms \in Seq(Messages), NEW t
  PROVE  t \in TsOf(ms) <=> \E i \in 1..Len(ms) : ms[i].kind # "summary" /\ ms[i].ts = t
<1>1. DOMAIN ms = 1..Len(ms) OBVIOUS
<1> QED BY <1>1 DEF TsOf

\* What its summaries stand for, element by element.
LEMMA InTold ==
  ASSUME NEW ms \in Seq(Messages), NEW t
  PROVE  t \in Told(ms) <=> \E i \in 1..Len(ms) : t \in ms[i].covers
<1>1. DOMAIN ms = 1..Len(ms) OBVIOUS
<1> QED BY <1>1 DEF Told

\* Views that are alike have the same rounds, summaries and timestamps.
LEMMA AlikeSame ==
  ASSUME NEW ms, NEW ns, Alike(ms, ns)
  PROVE  /\ LatestSummary(ns) = LatestSummary(ms) /\ SummaryTs(ns) = SummaryTs(ms)
         /\ TsOf(ns) = TsOf(ms) /\ Told(ns) = Told(ms) /\ Starts(ns) = Starts(ms)
         /\ Responses(ns) = Responses(ms) /\ Len(ns) = Len(ms)
<1>1. /\ ms \in Seq(Messages) /\ ns \in Seq(Messages) /\ Len(ns) = Len(ms)
      /\ Len(ms) \in Nat
      /\ DOMAIN ms = 1..Len(ms) /\ DOMAIN ns = 1..Len(ms)
  BY DEF Alike
<1>2. \A i \in 1..Len(ms) : /\ ns[i].kind = ms[i].kind /\ ns[i].ts = ms[i].ts
                            /\ ns[i].covers = ms[i].covers
  BY DEF Alike, Like
<1>3. LatestSummary(ns) = LatestSummary(ms)
  <2> DEFINE l == LatestSummary(ms)
  <2>1. /\ l \in 0..Len(ms) /\ (l > 0 => ms[l].kind = "summary")
        /\ \A i \in 1..Len(ms) : i > l => ms[i].kind # "summary"
    BY <1>1, LatestIs
  <2> HIDE DEF l
  <2>2. l > 0 => ns[l].kind = "summary" BY <1>1, <1>2, <2>1
  <2>3. \A i \in 1..Len(ns) : i > l => ns[i].kind # "summary" BY <1>1, <1>2, <2>1
  <2>4. l \in 0..Len(ns) BY <1>1, <2>1
  <2>5. LatestSummary(ns) = l BY <1>1, <2>2, <2>3, <2>4, LatestUnique
  <2> QED BY <2>5 DEF l
<1>4. SummaryTs(ns) = SummaryTs(ms)
  <2>1. LatestSummary(ms) \in 0..Len(ms) BY <1>1, LatestIs
  <2>2. LatestSummary(ms) # 0 => ns[LatestSummary(ms)].ts = ms[LatestSummary(ms)].ts
    BY <1>1, <1>2, <2>1
  <2> QED BY <1>3, <2>2 DEF SummaryTs
<1>5. TsOf(ns) = TsOf(ms)
  <2>1. \A t : t \in TsOf(ns) <=> t \in TsOf(ms) BY <1>1, <1>2, InTs
  <2> QED BY <2>1
<1>6. Told(ns) = Told(ms)
  <2>1. \A t : t \in Told(ns) <=> t \in Told(ms) BY <1>1, <1>2, InTold
  <2> QED BY <2>1
<1>7. Starts(ns) = Starts(ms) BY <1>1, <1>2 DEF Starts
<1>8. Responses(ns) = Responses(ms) BY <1>1, <1>2 DEF Responses
<1> QED BY <1>1, <1>3, <1>4, <1>5, <1>6, <1>7, <1>8

\* A view is like itself,
LEMMA AlikeSelf ==
  ASSUME NEW ms \in Seq(Messages)
  PROVE  Alike(ms, ms)
BY DEF Alike, Like

\* likeness is transitive,
LEMMA AlikeAgain ==
  ASSUME NEW ms, NEW ns, NEW os, Alike(ms, ns), Alike(ns, os)
  PROVE  Alike(ms, os)
BY DEF Alike, Like

\* and it holds of what is joined when it holds of the parts.
LEMMA AlikeJoined ==
  ASSUME NEW a, NEW b, NEW c, NEW d, Alike(a, b), Alike(c, d)
  PROVE  Alike(a \o c, b \o d)
<1>1. /\ a \in Seq(Messages) /\ b \in Seq(Messages) /\ c \in Seq(Messages)
      /\ d \in Seq(Messages)
      /\ Len(b) = Len(a) /\ Len(d) = Len(c) /\ Len(a) \in Nat /\ Len(c) \in Nat
  BY DEF Alike
<1> DEFINE e == a \o c
           f == b \o d
<1>2. /\ e \in Seq(Messages) /\ Len(e) = Len(a) + Len(c)
      /\ \A i \in 1..Len(a) : e[i] = a[i]
      /\ \A i \in 1..Len(c) : e[Len(a) + i] = c[i]
      /\ \A i \in 1..Len(e) :
           i \in 1..Len(a) \/ (i - Len(a) \in 1..Len(c) /\ i = Len(a) + (i - Len(a)))
  BY <1>1, Joined
<1>3. /\ f \in Seq(Messages) /\ Len(f) = Len(b) + Len(d)
      /\ \A i \in 1..Len(b) : f[i] = b[i]
      /\ \A i \in 1..Len(d) : f[Len(b) + i] = d[i]
  <2>1. b \in Seq(Messages) /\ d \in Seq(Messages) BY <1>1
  <2> HIDE DEF e
  <2> QED BY <2>1, Joined
<1> HIDE DEF e, f
<1>4. ASSUME NEW i \in 1..Len(e) PROVE Like(e[i], f[i])
  <2>1. CASE i \in 1..Len(a)
    <3>1. e[i] = a[i] /\ f[i] = b[i] BY <1>1, <1>2, <1>3, <2>1
    <3> QED BY <2>1, <3>1 DEF Alike
  <2>2. CASE i - Len(a) \in 1..Len(c) /\ i = Len(a) + (i - Len(a))
    <3>1. e[i] = c[i - Len(a)] /\ f[i] = d[i - Len(a)] BY <1>1, <1>2, <1>3, <2>2
    <3> QED BY <2>2, <3>1 DEF Alike
  <2> QED BY <1>2, <2>1, <2>2
<1>5. Len(f) = Len(e) BY <1>1, <1>2, <1>3
<1>6. Alike(e, f) BY <1>2, <1>3, <1>4, <1>5 DEF Alike
<1> QED BY <1>6 DEF e, f

\* What a strip changes of a message is its reasoning, its arguments or, when it
\* folds a result, the text.
LEMMA ThinkKeeps ==
  ASSUME NEW m \in Messages, NEW v \in Nat
  PROVE  /\ [m EXCEPT !.think = v] \in Messages /\ Like(m, [m EXCEPT !.think = v])
         /\ [m EXCEPT !.think = v].text = m.text
         /\ [m EXCEPT !.think = v].whole = m.whole
BY DEF Messages, Like

\* And arguments that are cut.
LEMMA ArgsKeeps ==
  ASSUME NEW m \in Messages, NEW v \in Nat
  PROVE  /\ [m EXCEPT !.args = v] \in Messages /\ Like(m, [m EXCEPT !.args = v])
         /\ [m EXCEPT !.args = v].text = m.text /\ [m EXCEPT !.args = v].whole = m.whole
BY DEF Messages, Like

\* A folded result is the same message.
LEMMA FoldKeeps ==
  ASSUME NEW m \in Messages
  PROVE  Folded(m) \in Messages /\ Like(m, Folded(m))
BY StripAssumption DEF Folded, Messages, Like

\* So is one whose reasoning is stripped,
LEMMA ReasoningKeeps ==
  ASSUME NEW m \in Messages, NEW latest, NEW i
  PROVE  /\ StripReasoning(latest, i, m) \in Messages
         /\ Like(m, StripReasoning(latest, i, m))
         /\ StripReasoning(latest, i, m).text = m.text
         /\ StripReasoning(latest, i, m).whole = m.whole
<1> DEFINE v == IF i \in latest THEN Smaller(m.think, ReasoningCap) ELSE 0
<1>1. m.think \in Nat /\ ReasoningCap \in Nat BY StripAssumption DEF Messages
<1>2. v \in Nat BY <1>1 DEF Smaller
<1>3. StripReasoning(latest, i, m) = [m EXCEPT !.think = v] BY DEF StripReasoning
<1> HIDE DEF v
<1>4. /\ [m EXCEPT !.think = v] \in Messages /\ Like(m, [m EXCEPT !.think = v])
      /\ [m EXCEPT !.think = v].text = m.text /\ [m EXCEPT !.think = v].whole = m.whole
  BY <1>2, ThinkKeeps
<1> QED BY <1>3, <1>4, Zenon

\* and one whose arguments are stripped.
LEMMA ToolArgsKeeps ==
  ASSUME NEW m \in Messages, NEW latest, NEW i
  PROVE  /\ StripToolArgs(latest, i, m) \in Messages
         /\ Like(m, StripToolArgs(latest, i, m))
         /\ StripToolArgs(latest, i, m).text = m.text
         /\ StripToolArgs(latest, i, m).whole = m.whole
<1> DEFINE v == Smaller(m.args, ArgsCap)
<1>1. m.args \in Nat /\ ArgsCap \in Nat BY StripAssumption DEF Messages
<1>2. v \in Nat BY <1>1 DEF Smaller
<1>3. \/ StripToolArgs(latest, i, m) = [m EXCEPT !.args = v]
      \/ StripToolArgs(latest, i, m) = m
  BY DEF StripToolArgs
<1> HIDE DEF v
<1>4. /\ [m EXCEPT !.args = v] \in Messages /\ Like(m, [m EXCEPT !.args = v])
      /\ [m EXCEPT !.args = v].text = m.text /\ [m EXCEPT !.args = v].whole = m.whole
  BY <1>2, ArgsKeeps
<1>5. Like(m, m) BY DEF Like
<1> QED BY <1>3, <1>4, <1>5, Zenon

\* What the strips leave of a message: its kind, its place and what it answers.
LEMMA StripsAlike ==
  ASSUME NEW ms \in Seq(Messages), NEW r, NEW n
  PROVE  /\ Alike(ms, Strips(ms, r, n))
         /\ \A i \in 1..Len(ms) :
              \/ /\ Strips(ms, r, n)[i].text = ms[i].text
                 /\ Strips(ms, r, n)[i].whole = ms[i].whole
              \/ Is(ms[i], "tool", "read") /\ (ReadAgain(ms, i) \/ WrittenAfter(ms, i))
              \/ Is(ms[i], "tool", "shell") /\ \E start : RunAgain(ms, start, i - 1)
<1> DEFINE thoughts == LatestResponses(ms, r)
           latest == LatestResponses(ms, n)
           start == WindowStart(ms, n)
           s1(i) == StripReasoning(thoughts, i, ms[i])
           s2(i) == StripToolArgs(latest, i, s1(i))
           s3(i) == DedupRead(ms, start, i, s2(i))
           s4(i) == FoldRead(ms, start, i, s3(i))
           s5(i) == FoldWrite(ms, start, i, s4(i))
           s6(i) == DedupShell(ms, start, i, s5(i))
           out == [i \in DOMAIN ms |-> s6(i)]
           read(i) == /\ Is(ms[i], "tool", "read")
                      /\ ReadAgain(ms, i) \/ WrittenAfter(ms, i)
           shell(i) == Is(ms[i], "tool", "shell") /\ \E st : RunAgain(ms, st, i - 1)
<1>1. Strips(ms, r, n) = out \o <<>> BY DEF Strips
<1>2. DOMAIN ms = 1..Len(ms) /\ Len(ms) \in Nat OBVIOUS
<1>3. Marker \in Nat BY StripAssumption
<1>4. ASSUME NEW i \in 1..Len(ms)
      PROVE  /\ s6(i) \in Messages /\ Like(ms[i], s6(i))
             /\ \/ s6(i).text = ms[i].text /\ s6(i).whole = ms[i].whole
                \/ read(i)
                \/ shell(i)
  <2> HIDE DEF thoughts, latest, start
  <2> DEFINE Same(m) == m \in Messages /\ Like(ms[i], m)
             Kept(m) == m.text = ms[i].text /\ m.whole = ms[i].whole
  <2>1. ms[i] \in Messages BY ElementOfSeq
  <2>2. Same(s1(i)) /\ Kept(s1(i)) BY <2>1, ReasoningKeeps
  <2> HIDE DEF s1
  <2>3. Same(s2(i)) /\ Kept(s2(i))
    <3>1. /\ StripToolArgs(latest, i, s1(i)) \in Messages
          /\ Like(s1(i), StripToolArgs(latest, i, s1(i)))
          /\ StripToolArgs(latest, i, s1(i)).text = s1(i).text
          /\ StripToolArgs(latest, i, s1(i)).whole = s1(i).whole
      BY <2>2, ToolArgsKeeps
    <3> QED BY <2>2, <3>1 DEF Like
  <2> HIDE DEF s2
  <2>4. Same(s3(i)) /\ (Kept(s3(i)) \/ read(i))
    <3>1. CASE s3(i) = s2(i) BY <2>3, <3>1
    <3>2. CASE s3(i) = Folded(s2(i)) /\ Is(s2(i), "tool", "read") /\ ReadAgain(ms, i)
      <4>1. s3(i) \in Messages /\ Like(s2(i), s3(i)) BY <2>3, <3>2, FoldKeeps
      <4> QED BY <2>3, <3>2, <4>1 DEF Like, Is
    <3> QED BY <3>1, <3>2 DEF DedupRead
  <2> HIDE DEF s3
  <2>5. Same(s4(i)) /\ (Kept(s4(i)) \/ read(i))
    <3>1. CASE s4(i) = s3(i) BY <2>4, <3>1
    <3>2. CASE s4(i) = Folded(s3(i)) /\ Is(s3(i), "tool", "read") /\ WrittenAfter(ms, i)
      <4>1. s4(i) \in Messages /\ Like(s3(i), s4(i)) BY <2>4, <3>2, FoldKeeps
      <4> QED BY <2>4, <3>2, <4>1 DEF Like, Is
    <3> QED BY <3>1, <3>2 DEF FoldRead
  <2> HIDE DEF s4
  <2>6. Same(s5(i)) /\ (Kept(s5(i)) \/ read(i))
    <3>1. CASE s5(i) = s4(i) BY <2>5, <3>1
    <3>2. CASE s5(i) = [s4(i) EXCEPT !.args = Marker]
      <4>1. /\ s5(i) \in Messages /\ Like(s4(i), s5(i)) /\ s5(i).text = s4(i).text
            /\ s5(i).whole = s4(i).whole
        BY <1>3, <2>5, <3>2, ArgsKeeps
      <4> QED BY <2>5, <4>1 DEF Like
    <3> QED BY <3>1, <3>2 DEF FoldWrite
  <2> HIDE DEF s5
  <2>7. Same(s6(i)) /\ (Kept(s6(i)) \/ read(i) \/ shell(i))
    <3>1. CASE s6(i) = s5(i) BY <2>6, <3>1
    <3>2. CASE s6(i) = [s5(i) EXCEPT !.args = Marker]
      <4>1. /\ s6(i) \in Messages /\ Like(s5(i), s6(i)) /\ s6(i).text = s5(i).text
            /\ s6(i).whole = s5(i).whole
        BY <1>3, <2>6, <3>2, ArgsKeeps
      <4> QED BY <2>6, <4>1 DEF Like
    <3>3. CASE /\ s6(i) = Folded(s5(i)) /\ Is(s5(i), "tool", "shell")
               /\ RunAgain(ms, start, i - 1)
      <4>1. s6(i) \in Messages /\ Like(s5(i), s6(i)) BY <2>6, <3>3, FoldKeeps
      <4> QED BY <2>6, <3>3, <4>1 DEF Like, Is
    <3> QED BY <3>1, <3>2, <3>3 DEF DedupShell
  <2> HIDE DEF s6, read, shell
  <2> QED BY <2>7
<1> HIDE DEF s6, read, shell
<1>5. /\ out \in Seq(Messages) /\ Len(out) = Len(ms)
      /\ \A i \in 1..Len(ms) : out[i] = s6(i)
  <2>1. \A i \in 1..Len(ms) : s6(i) \in Messages BY <1>4
  <2>2. out \in [1..Len(ms) -> Messages] BY <1>2, <2>1
  <2> QED BY <1>2, <2>2
<1> HIDE DEF out
<1>6. out \o <<>> = out BY <1>5, ConcatEmptySeq
<1>7. Alike(ms, out) BY <1>4, <1>5 DEF Alike
<1>8. Strips(ms, r, n) = out BY <1>1, <1>6
<1>9. ASSUME NEW i \in 1..Len(ms)
      PROVE  \/ out[i].text = ms[i].text /\ out[i].whole = ms[i].whole
             \/ read(i)
             \/ shell(i)
  BY <1>4, <1>5
<1> QED BY <1>7, <1>8, <1>9 DEF read, shell

-----------------------------------------------------------------------------
(* Where the tail begins.                                                  *)

\* The tail begins with a later round than the first, and has the last.
LEMMA FirstKeptIs ==
  ASSUME NEW view, Sound(view), Rounds(view) >= 2, NEW budget
  PROVE  FirstKept(view, budget) \in 2..Rounds(view)
<1> DEFINE n == Rounds(view)
           fits(k) == /\ n - k + 1 <= KeepRecent
                      /\ budget = 0 \/ k = n \/ RoundSize(view, k, n) <= budget
           S == {k \in 2..n : fits(k)}
<1>1. n \in Nat /\ KeepRecent \in Nat /\ KeepRecent >= 1
  BY StartsAre, CompactionAssumption DEF Sound
<1>2. n \in S
  <2>1. n \in 2..n /\ n - n + 1 = 1 BY <1>1
  <2> QED BY <1>1, <2>1
<1>3. PICK k \in S : \A j \in S : k <= j
  <2>1. S \subseteq Nat /\ S # {} BY <1>1, <1>2
  <2> HIDE DEF S
  <2> QED BY <2>1, LeastNumber
<1>4. k \in 2..n /\ fits(k) /\ (k = 2 \/ ~fits(k - 1))
  <2>1. k \in 2..n /\ fits(k) BY <1>3
  <2>2. ASSUME k # 2, fits(k - 1) PROVE FALSE
    <3>1. k - 1 \in 2..n /\ ~(k <= k - 1) BY <1>1, <2>1, <2>2
    <3>2. k - 1 \in S BY <2>2, <3>1
    <3> QED BY <1>3, <3>1, <3>2
  <2> QED BY <2>1, <2>2
<1>5. FirstKept(view, budget) = CHOOSE j \in 2..n : fits(j) /\ (j = 2 \/ ~fits(j - 1))
  BY Zenon DEF FirstKept
<1>6. \E j \in 2..n : fits(j) /\ (j = 2 \/ ~fits(j - 1)) BY <1>4
<1> HIDE DEF fits, n
<1>7. FirstKept(view, budget) \in 2..n BY <1>5, <1>6, Zenon
<1> QED BY <1>7 DEF n

\* The round the budget stopped at joins with all its messages, if it does.
LEMMA BoundaryAlike ==
  ASSUME NEW view, NEW k, NEW left \in Nat,
         RoundsFromTo(view, k, k) \in Seq(Messages), RoundSize(view, k, k) \in Nat
  PROVE  \/ Boundary(view, k, left) = <<>>
         \/ Alike(RoundsFromTo(view, k, k), Boundary(view, k, left))
<1> DEFINE size == RoundSize(view, k, k)
           round == RoundsFromTo(view, k, k)
           small == [i \in DOMAIN round |->
                       IF round[i].kind = "tool" /\ size > left
                       THEN [round[i] EXCEPT !.whole = FALSE,
                                             !.text = Shrunk(@, size, left)]
                       ELSE round[i]]
<1>1. Boundary(view, k, left) = small \/ Boundary(view, k, left) = <<>> BY DEF Boundary
<1> HIDE DEF size, round
<1>2. /\ round \in Seq(Messages) /\ size \in Nat /\ DOMAIN round = 1..Len(round)
      /\ Len(round) \in Nat
  BY DEF size, round
<1>3. ASSUME NEW i \in 1..Len(round)
      PROVE  small[i] \in Messages /\ Like(round[i], small[i])
  <2>1. round[i] \in Messages BY <1>2, ElementOfSeq
  <2> DEFINE m == round[i]
             v == Shrunk(m.text, size, left)
  <2>2. \/ small[i] = m
        \/ (size > left /\ small[i] = [m EXCEPT !.whole = FALSE, !.text = v])
    BY <1>2
  <2> HIDE DEF small
  <2>3. CASE small[i] = m BY <2>1, <2>3 DEF Like
  <2>4. CASE size > left /\ small[i] = [m EXCEPT !.whole = FALSE, !.text = v]
    <3>1. v \in Nat
      <4>1. m.text \in Nat BY <2>1 DEF Messages
      <4>2. m.text * left \in Nat BY <4>1
      <4>3. size \in Nat \ {0} BY <1>2, <2>4
      <4>4. (m.text * left) \div size \in Nat BY <4>2, <4>3
      <4> QED BY <4>1, <4>4 DEF Shrunk
    <3> HIDE DEF v
    <3>2. m \in Messages BY <2>1
    <3> HIDE DEF m
    <3>3. [m EXCEPT !.whole = FALSE, !.text = v] \in Messages
          /\ Like(m, [m EXCEPT !.whole = FALSE, !.text = v])
      BY <3>1, <3>2 DEF Messages, Like
    <3>4. small[i] \in Messages /\ Like(m, small[i]) BY <2>4, <3>3, Zenon
    <3> QED BY <3>4 DEF m
  <2> QED BY <2>2, <2>3, <2>4
<1>4. small \in Seq(Messages) /\ Len(small) = Len(round)
  <2>1. small \in [1..Len(round) -> Messages]
    <3>1. \A i \in 1..Len(round) : small[i] \in Messages BY <1>3
    <3>2. small = [i \in 1..Len(round) |-> small[i]] BY <1>2
    <3> HIDE DEF small
    <3> QED BY <3>1, <3>2
  <2> HIDE DEF small
  <2> QED BY <1>2, <2>1
<1> HIDE DEF small
<1>5. Alike(round, small) BY <1>2, <1>3, <1>4 DEF Alike
<1> QED BY <1>1, <1>5 DEF round

-----------------------------------------------------------------------------
(* Sizes.                                                                  *)

\* What a message takes.
Weight(m) == m.text + m.think + m.args

\* It is a number, and so are its parts.
LEMMA WeightIsNat ==
  ASSUME NEW m \in Messages
  PROVE  Weight(m) \in Nat /\ m.text \in Nat /\ m.think \in Nat /\ m.args \in Nat
<1> DEFINE t == m.text
           k == m.think
           a == m.args
<1>1. t \in Nat /\ k \in Nat /\ a \in Nat BY DEF Messages
<1>2. Weight(m) = t + k + a BY DEF Weight
<1> HIDE DEF t, k, a
<1>3. t + k + a \in Nat BY <1>1
<1> QED BY <1>1, <1>2, <1>3 DEF t, k, a

\* The sizes that Size adds up, one message after the other.
LEMMA SizeStepwise ==
  ASSUME NEW ms \in Seq(Messages), NEW a \in Nat \ {0}, NEW b \in 0..Len(ms)
  PROVE  \E g \in [0..b -> Nat] :
           /\ Size(ms, a, b) = g[b]
           /\ \A i \in 0..b : g[i] = IF i < a THEN 0 ELSE g[i - 1] + Weight(ms[i])
<1> DEFINE step == [x \in Nat \X Nat |->
                      IF x[2] >= a /\ x[2] \in 1..Len(ms)
                      THEN x[1] + Weight(ms[x[2]]) ELSE 0]
           Body(f) == [i \in 0..b |->
                         IF i < a THEN 0
                         ELSE f[i - 1] + ms[i].text + ms[i].think + ms[i].args]
           upTo == CHOOSE f : f = Body(f)
<1>1. b \in Nat /\ Len(ms) \in Nat /\ b <= Len(ms) OBVIOUS
<1>2. ASSUME NEW i \in 1..Len(ms)
      PROVE  /\ Weight(ms[i]) \in Nat /\ ms[i].text \in Nat /\ ms[i].think \in Nat
             /\ ms[i].args \in Nat
  <2>1. ms[i] \in Messages BY ElementOfSeq
  <2> QED BY <2>1, WeightIsNat
<1>3. Size(ms, a, b) = upTo[b] BY Zenon DEF Size
<1>4. step \in Steps(Nat)
  <2> SUFFICES ASSUME NEW x \in Nat \X Nat
               PROVE  (IF x[2] >= a /\ x[2] \in 1..Len(ms)
                       THEN x[1] + Weight(ms[x[2]]) ELSE 0) \in Nat
    BY DEF Steps
  <2>1. x[1] \in Nat OBVIOUS
  <2>2. CASE x[2] \in 1..Len(ms)
    <3>1. Weight(ms[x[2]]) \in Nat BY <1>2, <2>2
    <3>2. x[1] + Weight(ms[x[2]]) \in Nat BY <2>1, <3>1
    <3> QED BY <3>2
  <2>3. CASE x[2] \notin 1..Len(ms) BY <2>3
  <2> QED BY <2>2, <2>3
<1> HIDE DEF step
<1>5. PICK g : Recursion(g, b, Nat, 0, step) BY <1>1, <1>4, RecursionExists
<1>6. /\ g \in [0..b -> Nat]
      /\ \A i \in 0..b : g[i] = IF i = 0 THEN 0 ELSE step[<<g[i - 1], i>>]
  BY <1>5 DEF Recursion
<1>7. ASSUME NEW i \in 0..b
      PROVE  /\ g[i] = IF i < a THEN 0 ELSE g[i - 1] + Weight(ms[i])
             /\ g[i] = IF i < a THEN 0 ELSE g[i - 1] + ms[i].text + ms[i].think + ms[i].args
  <2>1. CASE i # 0
    <3>1. i - 1 \in 0..b /\ i \in Nat /\ i \in 1..Len(ms) BY <1>1, <2>1
    <3>2. <<g[i - 1], i>> \in Nat \X Nat /\ g[i - 1] \in Nat BY <1>6, <3>1
    <3>3. step[<<g[i - 1], i>>] = IF i < a THEN 0 ELSE g[i - 1] + Weight(ms[i])
      <4>1. step[<<g[i - 1], i>>] = IF i >= a THEN g[i - 1] + Weight(ms[i]) ELSE 0
        BY <3>1, <3>2 DEF step
      <4> QED BY <3>1, <4>1
    <3>4. Weight(ms[i]) = ms[i].text + ms[i].think + ms[i].args BY DEF Weight
    <3>5. g[i - 1] + Weight(ms[i]) = g[i - 1] + ms[i].text + ms[i].think + ms[i].args
      <4>1. ms[i].text \in Nat /\ ms[i].think \in Nat /\ ms[i].args \in Nat
        BY <1>2, <3>1
      <4> DEFINE t == ms[i].text
                 h == ms[i].think
                 r == ms[i].args
                 w == Weight(ms[i])
                 f == g[i - 1]
      <4>2. t \in Nat /\ h \in Nat /\ r \in Nat /\ f \in Nat /\ w = t + h + r
        BY <3>2, <3>4, <4>1
      <4> HIDE DEF t, h, r, w, f
      <4>3. f + w = f + t + h + r BY <4>2
      <4> QED BY <4>3 DEF t, h, r, w, f
    <3> QED BY <1>6, <2>1, <3>3, <3>5
  <2>2. CASE i = 0
    <3>1. i < a BY <2>2
    <3> QED BY <1>6, <2>2, <3>1
  <2> QED BY <2>1, <2>2
<1>8. g = Body(g) BY <1>6, <1>7, Zenon
<1>9. upTo = Body(upTo) BY <1>8, Zenon
<1> HIDE DEF upTo
<1>10. \A i \in 0..b : upTo[i] = IF i < a THEN 0
                                ELSE upTo[i - 1] + ms[i].text + ms[i].think + ms[i].args
  BY <1>9, Zenon
<1>11. \A i \in 0..b : upTo[i] = g[i]
  <2> DEFINE P == {k \in Nat : k \in 0..b => upTo[k] = g[k]}
  <2>1. 0 \in P
    <3>1. 0 < a /\ 0 \in 0..b BY <1>1
    <3> QED BY <1>7, <1>10, <3>1
  <2>2. ASSUME NEW k \in Nat, k \in P PROVE k + 1 \in P
    <3> SUFFICES ASSUME k + 1 \in 0..b PROVE upTo[k + 1] = g[k + 1]
      OBVIOUS
    <3>1. k \in 0..b /\ (k + 1) - 1 = k BY <1>1
    <3>2. upTo[k] = g[k] BY <2>2, <3>1
    <3>3. g[k + 1] = IF k + 1 < a THEN 0
                     ELSE g[k] + ms[k + 1].text + ms[k + 1].think + ms[k + 1].args
      BY <1>7, <3>1
    <3>4. upTo[k + 1] = IF k + 1 < a THEN 0
                        ELSE upTo[k] + ms[k + 1].text + ms[k + 1].think + ms[k + 1].args
      BY <1>10, <3>1
    <3> QED BY <3>2, <3>3, <3>4
  <2> HIDE DEF P
  <2>3. Nat \subseteq P BY <2>1, <2>2, SetInduction
  <2> QED BY <1>1, <2>3 DEF P
<1>12. Size(ms, a, b) = g[b] BY <1>1, <1>3, <1>11
<1> QED BY <1>6, <1>7, <1>12

\* A size is a natural number,
LEMMA SizeIsNat ==
  ASSUME NEW ms \in Seq(Messages), NEW a \in Nat \ {0}, NEW b \in 0..Len(ms)
  PROVE  Size(ms, a, b) \in Nat
<1>1. b \in 0..b OBVIOUS
<1>2. PICK g \in [0..b -> Nat] : Size(ms, a, b) = g[b] BY SizeStepwise
<1> QED BY <1>1, <1>2

\* the estimate of a request is one,
LEMMA EstimateIsNat ==
  ASSUME NEW ms \in Seq(Messages)
  PROVE  EstimateTokens(ms) \in Nat /\ Target \in Nat
<1>1. Len(ms) \in 0..Len(ms) /\ 1 \in Nat \ {0} OBVIOUS
<1>2. Size(ms, 1, Len(ms)) \in Nat BY <1>1, SizeIsNat
<1>3. Overhead \in Nat /\ Window \in Nat BY CompactionAssumption
<1> QED BY <1>2, <1>3 DEF EstimateTokens, Target

\* and so is the size of any run of rounds.
LEMMA RoundsSized ==
  ASSUME NEW ms, Sound(ms), NEW k \in 1..Rounds(ms), NEW n \in k..Rounds(ms)
  PROVE  /\ RoundSize(ms, k, n) \in Nat
         /\ RoundsFromTo(ms, k, n) = SubSeq(ms, StartOf(ms, k), StartOf(ms, n + 1) - 1)
         /\ StartOf(ms, k) \in Edges(ms) /\ StartOf(ms, n + 1) \in Edges(ms)
         /\ StartOf(ms, k) < StartOf(ms, n + 1)
         /\ StartOf(ms, k) \in 1..Len(ms) /\ StartOf(ms, n + 1) \in 1..Len(ms) + 1
         /\ RoundsFromTo(ms, k, n) \in Seq(Messages)
<1>1. ms \in Seq(Messages) /\ Len(ms) \in Nat /\ Rounds(ms) \in Nat
  BY StartsAre DEF Sound
<1>2. k \in 1..Rounds(ms) + 1 /\ n + 1 \in 1..Rounds(ms) + 1 /\ k < n + 1 BY <1>1
<1>3. /\ StartOf(ms, k) \in Edges(ms) /\ StartOf(ms, n + 1) \in Edges(ms)
      /\ StartOf(ms, k) < StartOf(ms, n + 1)
      /\ StartOf(ms, k) \in 1..Len(ms) /\ StartOf(ms, n + 1) \in 1..Len(ms) + 1
  BY <1>1, <1>2, RoundsOrdered
<1> DEFINE s == StartOf(ms, k)
           e == StartOf(ms, n + 1)
<1>4. s \in 1..Len(ms) /\ e \in 1..Len(ms) + 1 /\ s < e BY <1>3
<1>5. /\ RoundSize(ms, k, n) = Size(ms, s, e - 1)
      /\ RoundsFromTo(ms, k, n) = SubSeq(ms, s, e - 1)
  BY DEF RoundSize, RoundsFromTo
<1> HIDE DEF s, e
<1>6. /\ s \in Nat \ {0} /\ e - 1 \in 0..Len(ms) /\ s \in 1..Len(ms) + 1
      /\ e - 1 \in s - 1..Len(ms)
  BY <1>1, <1>4
<1>7. Size(ms, s, e - 1) \in Nat BY <1>1, <1>6, SizeIsNat
<1>8. SubSeq(ms, s, e - 1) \in Seq(Messages) BY <1>1, <1>6, Part
<1> QED BY <1>3, <1>5, <1>7, <1>8 DEF s, e

-----------------------------------------------------------------------------
(* What a cut makes.                                                       *)

\* The last trim is a reduction, or nothing.
LEMMA TrimmedReduced ==
  ASSUME NEW ms, Sound(ms), Len(ms) >= 1
  PROVE  Reduced(ms, Trimmed(ms))
BY TrimReduced, WholeReduced DEF Trimmed

\* jointTailBudget is a natural number.
LEMMA BudgetIsNat ==
  ASSUME NEW view, Sound(view), Rounds(view) >= 1
  PROVE  TailBudget(view) \in Nat
<1>1. view \in Seq(Messages) /\ Rounds(view) \in Nat BY StartsAre DEF Sound
<1>2. 1 \in 1..Rounds(view) /\ 1 \in 1..Rounds(view) BY <1>1
<1>3. RoundSize(view, 1, 1) \in Nat BY <1>2, RoundsSized
<1> DEFINE head == IF view[1].kind = "summary" THEN 0 ELSE RoundSize(view, 1, 1)
           fixed == Overhead + SummarySize + head
<1>4. Target \in Nat /\ fixed \in Nat /\ Preserve \in Nat
  <2>1. head \in Nat BY <1>3
  <2> HIDE DEF head
  <2> QED BY <1>1, <2>1, EstimateIsNat, CompactionAssumption
<1>5. TailBudget(view) = IF fixed >= Target THEN 0 ELSE Smaller(Target - fixed, Preserve)
  BY DEF TailBudget
<1> HIDE DEF fixed
<1> QED BY <1>4, <1>5 DEF Smaller

\* Two parts next to each other are one.
LEMMA PartsJoin ==
  ASSUME NEW S, NEW ms \in Seq(S), NEW a \in 1..Len(ms) + 1, NEW b \in a..Len(ms) + 1
  PROVE  SubSeq(ms, a, b - 1) \o SubSeq(ms, b, Len(ms)) = SubSeq(ms, a, Len(ms))
<1> DEFINE p == SubSeq(ms, a, b - 1)
           q == SubSeq(ms, b, Len(ms))
           r == SubSeq(ms, a, Len(ms))
           c == p \o q
<1>1. /\ Len(ms) \in Nat /\ b \in 1..Len(ms) + 1 /\ b - 1 \in a - 1..Len(ms)
      /\ Len(ms) \in b - 1..Len(ms)
      /\ Len(ms) \in a - 1..Len(ms)
  OBVIOUS
<1>2. /\ p \in Seq(S) /\ Len(p) = b - 1 - a + 1
      /\ \A i \in 1..b - 1 - a + 1 : p[i] = ms[a - 1 + i]
  BY <1>1, Part
<1>3. /\ q \in Seq(S) /\ Len(q) = Len(ms) - b + 1
      /\ \A i \in 1..Len(ms) - b + 1 : q[i] = ms[b - 1 + i]
  BY <1>1, Part
<1>4. /\ r \in Seq(S) /\ Len(r) = Len(ms) - a + 1
      /\ \A i \in 1..Len(ms) - a + 1 : r[i] = ms[a - 1 + i]
  BY <1>1, Part
<1>5. /\ c \in Seq(S) /\ Len(c) = Len(p) + Len(q)
      /\ \A i \in 1..Len(p) : c[i] = p[i]
      /\ \A i \in 1..Len(q) : c[Len(p) + i] = q[i]
      /\ \A i \in 1..Len(c) :
           i \in 1..Len(p) \/ (i - Len(p) \in 1..Len(q) /\ i = Len(p) + (i - Len(p)))
  <2>1. p \in Seq(S) /\ q \in Seq(S) BY <1>2, <1>3
  <2> HIDE DEF p, q
  <2> QED BY <2>1, Joined
<1> HIDE DEF p, q, r, c
<1>6. Len(c) = Len(r) BY <1>1, <1>2, <1>3, <1>4, <1>5
<1>7. ASSUME NEW i \in 1..Len(c) PROVE c[i] = r[i]
  <2>1. r[i] = ms[a - 1 + i] BY <1>4, <1>6
  <2>2. CASE i \in 1..Len(p) BY <1>2, <1>5, <2>1, <2>2
  <2>3. CASE i - Len(p) \in 1..Len(q) /\ i = Len(p) + (i - Len(p))
    <3>1. c[i] = q[i - Len(p)] BY <1>5, <2>3
    <3>2. q[i - Len(p)] = ms[b - 1 + (i - Len(p))] BY <1>3, <2>3
    <3>3. b - 1 + (i - Len(p)) = a - 1 + i BY <1>1, <1>2
    <3> QED BY <2>1, <3>1, <3>2, <3>3
  <2> QED BY <1>5, <2>2, <2>3
<1>8. c = r BY <1>4, <1>5, <1>6, <1>7, SeqEqual
<1> QED BY <1>8 DEF p, q, r, c

\* What a cut makes of the view: the first round or nothing, the rounds in between
\* and the later ones, up to the last, with their messages.
LEMMA CutMeans ==
  ASSUME NEW view, Sound(view), Rounds(view) >= 2, NEW k \in 2..Rounds(view),
         NEW budget \in Nat
  PROVE  \E e \in Edges(view) :
           /\ StartOf(view, 2) \in Edges(view) /\ 1 < StartOf(view, 2)
           /\ StartOf(view, 2) <= e /\ e <= Len(view)
           /\ CutAt(view, k, budget).head =
                IF view[1].kind = "summary" THEN <<>>
                ELSE SubSeq(view, 1, StartOf(view, 2) - 1)
           /\ CutAt(view, k, budget).middle = SubSeq(view, StartOf(view, 2), e - 1)
           /\ Alike(SubSeq(view, e, Len(view)), CutAt(view, k, budget).tail)
           /\ Len(CutAt(view, k, budget).tail) >= 1
           /\ CutAt(view, k, budget).tail[Len(CutAt(view, k, budget).tail)] = view[Len(view)]
<1> DEFINE n == Rounds(view)
           used == RoundSize(view, k, n)
           joins == IF k > 2 /\ n - k + 1 < KeepRecent /\ used < budget
                    THEN Boundary(view, k - 1, budget - used) ELSE <<>>
           s == StartOf(view, k)
           c == StartOf(view, 2)
           late == SubSeq(view, s, Len(view))
           parts == CutAt(view, k, budget)
<1>1. view \in Seq(Messages) /\ Len(view) \in Nat /\ n \in Nat /\ k \in Int
  BY StartsAre DEF Sound
<1>2. /\ 1 \in 1..n + 1 /\ 2 \in 1..n + 1 /\ k \in 1..n /\ n \in k..n /\ 2 \in 1..n
      /\ k \in 1..n + 1
  BY <1>1
<1>3. Len(view) >= 1
  <2>1. Starts(view) \in SUBSET (1..Len(view)) /\ n <= Len(view) BY <1>1, StartsAre
  <2> QED BY <1>1, <2>1
<1>4. StartOf(view, 1) = 1 BY <1>3, FirstEdge
<1>5. /\ c \in Edges(view) /\ 1 < c /\ c \in 1..Len(view) /\ c <= s /\ s \in Edges(view)
      /\ s \in 1..Len(view)
  <2>1. /\ c \in Edges(view) /\ c \in 1..Len(view) /\ s \in Edges(view)
        /\ s \in 1..Len(view)
    BY <1>1, <1>2, RoundsOrdered
  <2>2. StartOf(view, 1) < c BY <1>1, <1>2, RoundsOrdered
  <2>3. k = 2 \/ c < s BY <1>1, <1>2, RoundsOrdered
  <2> QED BY <1>4, <2>1, <2>2, <2>3
<1>6. used \in Nat BY <1>2, RoundsSized
<1>7. RoundsFromTo(view, k, n) = late BY <1>2, TailOf
<1>8. /\ parts.head = (IF view[1].kind = "summary" THEN <<>> ELSE RoundsFromTo(view, 1, 1))
      /\ parts.middle = RoundsFromTo(view, 2, IF joins = <<>> THEN k - 1 ELSE k - 2)
      /\ parts.tail = joins \o RoundsFromTo(view, k, n)
  BY Zenon DEF CutAt
<1>9. RoundsFromTo(view, 1, 1) = SubSeq(view, 1, c - 1)
  <2>1. 1 + 1 = 2 OBVIOUS
  <2> QED BY <1>4, <2>1 DEF RoundsFromTo
<1> HIDE DEF parts, n
<1>10. /\ late \in Seq(Messages) /\ Len(late) = Len(view) - s + 1 /\ Len(late) >= 1
       /\ late[Len(late)] = view[Len(view)]
  <2>1. s \in 1..Len(view) + 1 /\ Len(view) \in s - 1..Len(view) BY <1>1, <1>5
  <2>2. /\ late \in Seq(Messages) /\ Len(late) = Len(view) - s + 1
        /\ \A i \in 1..Len(view) - s + 1 : late[i] = view[s - 1 + i]
    BY <1>1, <2>1, Part
  <2>3. Len(late) \in 1..Len(view) - s + 1 /\ s - 1 + Len(late) = Len(view)
    BY <1>1, <1>5, <2>2
  <2>4. late[Len(late)] = view[s - 1 + Len(late)] BY <2>2, <2>3
  <2>5. Len(late) >= 1 BY <2>3, <1>1, <1>5
  <2> HIDE DEF late, s
  <2> QED BY <2>2, <2>3, <2>4, <2>5
<1>11. CASE joins = <<>>
  <2>1. parts.tail = late BY <1>7, <1>8, <1>10, <1>11, ConcatEmptySeq
  <2>2. parts.middle = SubSeq(view, c, s - 1)
    <3>1. k - 1 + 1 = k BY <1>1
    <3> QED BY <1>8, <1>11, <3>1 DEF RoundsFromTo
  <2>3. Alike(late, parts.tail) BY <1>10, <2>1, AlikeSelf
  <2>4. Len(parts.tail) >= 1 /\ parts.tail[Len(parts.tail)] = view[Len(view)]
    BY <1>10, <2>1
  <2>5. s <= Len(view) BY <1>5
  <2> HIDE DEF c, s, late
  <2> QED BY <1>5, <1>8, <1>9, <2>2, <2>3, <2>4, <2>5 DEF parts, late, c
<1>12. CASE joins # <<>>
  <2> DEFINE e == StartOf(view, k - 1)
             early == SubSeq(view, e, s - 1)
             left == budget - used
  <2>1. k > 2 /\ used < budget /\ joins = Boundary(view, k - 1, left) BY <1>12
  <2>2. /\ k - 1 \in 1..n /\ k - 1 \in k - 1..n /\ k - 1 + 1 = k /\ k - 1 \in 1..n + 1
        /\ k - 2 + 1 = k - 1
        /\ left \in Nat
    BY <1>1, <1>2, <1>6, <2>1
  <2>3. e \in Edges(view) /\ e < s /\ e \in 1..Len(view) /\ c <= e
    <3>1. e \in Edges(view) /\ e \in 1..Len(view) /\ e < s
      BY <1>1, <1>2, <2>2, RoundsOrdered DEF n
    <3>2. k - 1 = 2 \/ c < e BY <1>1, <1>2, <2>1, <2>2, RoundsOrdered DEF n
    <3> QED BY <1>5, <3>1, <3>2
  <2>4. RoundsFromTo(view, k - 1, k - 1) = early BY <2>2 DEF RoundsFromTo
  <2>5. early \in Seq(Messages)
    <3>1. e \in 1..Len(view) + 1 /\ s - 1 \in e - 1..Len(view) BY <1>1, <1>5, <2>3
    <3> QED BY <1>1, <3>1, Part
  <2>6. RoundSize(view, k - 1, k - 1) \in Nat
    <3>1. k - 1 \in 1..Rounds(view) /\ k - 1 \in k - 1..Rounds(view) BY <1>1, <2>2 DEF n
    <3> QED BY <3>1, RoundsSized
  <2>7. Alike(early, joins)
    <3>1. RoundsFromTo(view, k - 1, k - 1) \in Seq(Messages) BY <2>4, <2>5
    <3> HIDE DEF left, joins, early
    <3>2. Boundary(view, k - 1, left) = <<>>
            \/ Alike(RoundsFromTo(view, k - 1, k - 1), Boundary(view, k - 1, left))
      BY <2>2, <2>6, <3>1, BoundaryAlike
    <3> QED BY <1>12, <2>1, <2>4, <3>2
  <2>8. Alike(early \o late, joins \o late)
    <3>1. Alike(late, late) BY <1>10, AlikeSelf
    <3> QED BY <2>7, <3>1, AlikeJoined
  <2>9. early \o late = SubSeq(view, e, Len(view))
    <3>1. e \in 1..Len(view) + 1 /\ s \in e..Len(view) + 1 BY <1>1, <1>5, <2>3
    <3> QED BY <1>1, <3>1, PartsJoin
  <2>10. parts.tail = joins \o late BY <1>7, <1>8
  <2>11. Len(parts.tail) >= 1 /\ parts.tail[Len(parts.tail)] = view[Len(view)]
    <3>1. joins \in Seq(Messages) BY <2>7 DEF Alike
    <3> HIDE DEF joins, late
    <3>2. /\ Len(joins \o late) = Len(joins) + Len(late)
          /\ \A i \in 1..Len(late) : (joins \o late)[Len(joins) + i] = late[i]
      BY <1>10, <3>1, Joined
    <3>3. Len(late) \in 1..Len(late) /\ Len(joins) \in Nat BY <1>10, <3>1
    <3> QED BY <1>10, <2>10, <3>2, <3>3
  <2>12. parts.middle = SubSeq(view, c, e - 1) BY <1>8, <1>12, <2>2 DEF RoundsFromTo
  <2>13. e <= Len(view) BY <2>3
  <2>14. Alike(SubSeq(view, e, Len(view)), parts.tail) BY <2>8, <2>9, <2>10
  <2> HIDE DEF c, e
  <2> QED BY <1>5, <1>8, <1>9, <2>3, <2>11, <2>12, <2>13, <2>14 DEF parts, c
<1> QED BY <1>11, <1>12

-----------------------------------------------------------------------------
(* What a request shows.                                                   *)

\* The messages a request shows, itself or through its summary.
Shown(ms) == TsOf(Barrier(ms)) \cup Told(Barrier(ms))

\* What a request shows, message by message of the transcript.
LEMMA InShown ==
  ASSUME NEW ms, Sound(ms), NEW t
  PROVE  t \in Shown(ms) <=>
           \E i \in 1..Len(ms) :
             /\ i >= LatestSummary(ms)
             /\ ((ms[i].kind # "summary" /\ ms[i].ts = t) \/ t \in ms[i].covers)
<1> DEFINE b == Barrier(ms)
           f == ViewStart(ms)
           at(m) == (m.kind # "summary" /\ m.ts = t) \/ t \in m.covers
<1>1. ms \in Seq(Messages) /\ Len(ms) \in Nat BY DEF Sound
<1>2. /\ f \in 1..Len(ms) + 1 /\ Len(b) = Len(ms) - f + 1 /\ b \in Seq(Messages)
      /\ \A i \in 1..Len(b) : b[i] = ms[f - 1 + i] /\ f - 1 + i \in 1..Len(ms)
  <2>1. Sound(b) BY BarrierIs
  <2>2. b \in Seq(Messages) BY <2>1 DEF Sound
  <2> QED BY <2>2, BarrierIs
<1>3. /\ LatestSummary(ms) \in 0..Len(ms)
      /\ f = IF LatestSummary(ms) = 0 THEN 1 ELSE LatestSummary(ms)
  BY <1>1, LatestIs DEF ViewStart
<1> HIDE DEF b, f
<1>4. t \in Shown(ms) <=> \E i \in 1..Len(b) : at(b[i])
  <2>1. t \in Shown(ms) <=> t \in TsOf(b) \/ t \in Told(b) BY DEF Shown, b
  <2>2. t \in TsOf(b) <=> \E i \in 1..Len(b) : b[i].kind # "summary" /\ b[i].ts = t
    BY <1>2, InTs
  <2>3. t \in Told(b) <=> \E i \in 1..Len(b) : t \in b[i].covers BY <1>2, InTold
  <2> QED BY <2>1, <2>2, <2>3
<1>5. ASSUME NEW i \in 1..Len(b), at(b[i])
      PROVE  \E j \in 1..Len(ms) : j >= LatestSummary(ms) /\ at(ms[j])
  <2>1. b[i] = ms[f - 1 + i] /\ f - 1 + i \in 1..Len(ms) BY <1>2
  <2>2. f - 1 + i >= LatestSummary(ms) BY <1>2, <1>3
  <2> QED BY <1>5, <2>1, <2>2
<1>6. ASSUME NEW j \in 1..Len(ms), j >= LatestSummary(ms), at(ms[j])
      PROVE  \E i \in 1..Len(b) : at(b[i])
  <2>1. j >= f BY <1>3, <1>6
  <2>2. j - f + 1 \in 1..Len(b) /\ f - 1 + (j - f + 1) = j BY <1>2, <2>1
  <2>3. b[j - f + 1] = ms[j] BY <1>2, <2>2
  <2> QED BY <1>6, <2>2, <2>3
<1> QED BY <1>4, <1>5, <1>6

\* Messages that come after others.
LEMMA AppendMeans ==
  ASSUME NEW ms, NEW add, Sound(ms), Sound(add),
         \A i \in 1..Len(ms), j \in 1..Len(add) : ms[i].ts # add[j].ts,
         \A j \in 1..Len(add) : add[j].kind # "summary"
  PROVE  /\ Sound(ms \o add) /\ Len(ms \o add) = Len(ms) + Len(add)
         /\ \A i \in 1..Len(ms) : (ms \o add)[i] = ms[i]
         /\ \A j \in 1..Len(add) : (ms \o add)[Len(ms) + j] = add[j]
         /\ \A i \in 1..Len(ms \o add) :
              \/ i \in 1..Len(ms)
              \/ (i - Len(ms) \in 1..Len(add) /\ i = Len(ms) + (i - Len(ms)))
         /\ SummaryTs(ms \o add) = SummaryTs(ms)
         /\ Shown(ms) \cup TsOf(add) \subseteq Shown(ms \o add)
<1> DEFINE c == ms \o add
           l == LatestSummary(ms)
<1>1. /\ ms \in Seq(Messages) /\ add \in Seq(Messages) /\ Len(ms) \in Nat
      /\ Len(add) \in Nat
  BY DEF Sound
<1>2. Sound(c) BY JoinSound
<1>3. /\ c \in Seq(Messages) /\ Len(c) = Len(ms) + Len(add)
      /\ \A i \in 1..Len(ms) : c[i] = ms[i]
      /\ \A j \in 1..Len(add) : c[Len(ms) + j] = add[j]
      /\ \A i \in 1..Len(c) :
           \/ i \in 1..Len(ms)
           \/ (i - Len(ms) \in 1..Len(add) /\ i = Len(ms) + (i - Len(ms)))
  BY <1>1, Joined
<1>4. /\ l \in 0..Len(ms) /\ (l > 0 => ms[l].kind = "summary")
      /\ \A i \in 1..Len(ms) : i > l => ms[i].kind # "summary"
  BY <1>1, LatestIs
<1> HIDE DEF c, l
<1>5. LatestSummary(c) = l
  <2>1. l \in 0..Len(c) BY <1>1, <1>3, <1>4
  <2>2. l > 0 => c[l].kind = "summary"
    <3>1. l > 0 => l \in 1..Len(ms) BY <1>4
    <3> QED BY <1>3, <1>4, <3>1
  <2>3. ASSUME NEW i \in 1..Len(c), i > l PROVE c[i].kind # "summary"
    <3>1. CASE i \in 1..Len(ms) BY <1>3, <1>4, <2>3, <3>1
    <3>2. CASE i - Len(ms) \in 1..Len(add) /\ i = Len(ms) + (i - Len(ms))
      <4>1. c[i] = add[i - Len(ms)] BY <1>3, <3>2
      <4> QED BY <3>2, <4>1
    <3> QED BY <1>3, <3>1, <3>2
  <2> QED BY <1>3, <2>1, <2>2, <2>3, LatestUnique
<1>6. SummaryTs(c) = SummaryTs(ms)
  <2>1. l # 0 => l \in 1..Len(ms) BY <1>4
  <2>2. l # 0 => c[l] = ms[l] BY <1>3, <2>1
  <2> QED BY <1>5, <2>2 DEF SummaryTs, l
<1>7. ASSUME NEW t \in Shown(ms) PROVE t \in Shown(c)
  <2>1. PICK i \in 1..Len(ms) :
          i >= l /\ ((ms[i].kind # "summary" /\ ms[i].ts = t) \/ t \in ms[i].covers)
    BY <1>7, InShown DEF l
  <2>2. i \in 1..Len(c) /\ c[i] = ms[i] BY <1>1, <1>3
  <2> QED BY <1>2, <1>5, <2>1, <2>2, InShown
<1>8. ASSUME NEW t \in TsOf(add) PROVE t \in Shown(c)
  <2>1. PICK j \in 1..Len(add) : add[j].kind # "summary" /\ add[j].ts = t
    BY <1>1, <1>8, InTs
  <2>2. Len(ms) + j \in 1..Len(c) /\ c[Len(ms) + j] = add[j] /\ Len(ms) + j >= l
    BY <1>1, <1>3, <1>4
  <2> QED BY <1>2, <1>5, <2>1, <2>2, InShown
<1> QED BY <1>2, <1>3, <1>6, <1>7, <1>8 DEF c

\* The newest message is never folded.
LEMMA LastStripped ==
  ASSUME NEW b \in Seq(Messages), Len(b) >= 1, NEW r, NEW n
  PROVE  /\ Strips(b, r, n)[Len(b)].whole = b[Len(b)].whole
         /\ Strips(b, r, n)[Len(b)].ts = b[Len(b)].ts
<1> DEFINE q == Strips(b, r, n)
<1>1. Len(b) \in Nat /\ Len(b) \in 1..Len(b) /\ DOMAIN b = 1..Len(b) OBVIOUS
<1>2. Alike(b, q) BY StripsAlike
<1>3. \/ q[Len(b)].text = b[Len(b)].text /\ q[Len(b)].whole = b[Len(b)].whole
      \/ /\ Is(b[Len(b)], "tool", "read")
         /\ (ReadAgain(b, Len(b)) \/ WrittenAfter(b, Len(b)))
      \/ Is(b[Len(b)], "tool", "shell") /\ \E start : RunAgain(b, start, Len(b) - 1)
  BY <1>1, StripsAlike
<1>4. ~ReadAgain(b, Len(b)) /\ ~WrittenAfter(b, Len(b))
  <2>1. ASSUME NEW j \in 1..Len(b), j > Len(b) PROVE FALSE BY <1>1, <2>1
  <2> QED BY <1>1, <2>1 DEF ReadAgain, WrittenAfter
<1>5. ASSUME Is(b[Len(b)], "tool", "shell"), NEW start, RunAgain(b, start, Len(b) - 1)
      PROVE  FALSE
  <2>1. PICK j \in 1..Len(b) : j > Len(b) - 1 /\ Is(b[j], "assistant", "shell")
    <3>1. DOMAIN b = 1..Len(b) BY <1>1
    <3>2. RunAgain(b, start, Len(b) - 1) BY <1>5
    <3>3. \E j \in DOMAIN b : j > Len(b) - 1 /\ Is(b[j], "assistant", "shell")
      BY <3>2, Zenon DEF RunAgain
    <3> QED BY <3>1, <3>3, Zenon
  <2>2. j = Len(b)
    <3>1. j \in 1..Len(b) /\ j > Len(b) - 1 /\ Len(b) \in Nat BY <1>1, <2>1
    <3> HIDE DEF q
    <3> QED BY <3>1
  <2> QED BY <1>5, <2>1, <2>2 DEF Is
<1>6. q[Len(b)].whole = b[Len(b)].whole BY <1>3, <1>4, <1>5
<1> QED BY <1>1, <1>2, <1>6 DEF Alike, Like

\* The barrier keeps the newest message.
LEMMA BarrierEnds ==
  ASSUME NEW ms, Sound(ms), Len(ms) >= 1
  PROVE  /\ Barrier(ms) \in Seq(Messages) /\ Len(Barrier(ms)) >= 1
         /\ Barrier(ms)[Len(Barrier(ms))] = ms[Len(ms)]
<1> DEFINE b == Barrier(ms)
           f == ViewStart(ms)
<1>1. Len(ms) \in Nat /\ ms \in Seq(Messages) BY DEF Sound
<1>2. /\ f \in 1..Len(ms) + 1 /\ Len(b) = Len(ms) - f + 1 /\ Sound(b)
      /\ \A i \in 1..Len(b) : b[i] = ms[f - 1 + i] /\ f - 1 + i \in 1..Len(ms)
  BY BarrierIs
<1>3. f <= Len(ms)
  <2>1. LatestSummary(ms) \in 0..Len(ms) BY <1>1, LatestIs
  <2> QED BY <1>1, <2>1 DEF ViewStart
<1> HIDE DEF b, f
<1>4. b \in Seq(Messages) BY <1>2 DEF Sound
<1>5. Len(b) \in 1..Len(b) /\ f - 1 + Len(b) = Len(ms) /\ Len(b) >= 1
  BY <1>1, <1>2, <1>3
<1> QED BY <1>2, <1>4, <1>5 DEF b

\* The view of a request shows what the transcript does, and ends with the newest.
LEMMA SendMeans ==
  ASSUME NEW ms, Sound(ms), Len(ms) >= 1, NEW r, NEW n
  PROVE  /\ Alike(Barrier(ms), Strips(Barrier(ms), r, n))
         /\ Len(Strips(Barrier(ms), r, n)) >= 1
         /\ Last(Strips(Barrier(ms), r, n)).ts = ms[Len(ms)].ts
         /\ Last(Strips(Barrier(ms), r, n)).whole = ms[Len(ms)].whole
         /\ TsOf(Strips(Barrier(ms), r, n)) \cup Told(Strips(Barrier(ms), r, n)) = Shown(ms)
<1> DEFINE b == Barrier(ms)
           q == Strips(b, r, n)
<1>1. b \in Seq(Messages) /\ Len(b) >= 1 /\ b[Len(b)] = ms[Len(ms)] BY BarrierEnds
<1>2. Alike(b, q) BY <1>1, StripsAlike
<1>3. q[Len(b)].whole = b[Len(b)].whole /\ q[Len(b)].ts = b[Len(b)].ts
  BY <1>1, LastStripped
<1>4. Len(q) = Len(b) /\ TsOf(q) = TsOf(b) /\ Told(q) = Told(b) BY <1>2, AlikeSame
<1> HIDE DEF q, b
<1>5. Last(q) = q[Len(b)] BY <1>4 DEF Last
<1>6. TsOf(q) \cup Told(q) = Shown(ms) BY <1>4 DEF Shown, b
<1> QED BY <1>1, <1>2, <1>3, <1>4, <1>5, <1>6 DEF b, q

\* What a transcript without some rounds shows.
LEMMA ReducedShown ==
  ASSUME NEW ms, NEW out, Sound(ms), Reduced(ms, out)
  PROVE  /\ SummaryTs(out) = SummaryTs(ms)
         /\ LatestSummary(ms) > 0 => ms[LatestSummary(ms)].covers \subseteq Shown(out)
         /\ \A t \in TsOf(out) :
              \/ t \in Shown(out)
              \/ \E i \in 1..Len(ms) : i < LatestSummary(ms) /\ ms[i].ts = t
<1> DEFINE L == LatestSummary(ms)
           l == LatestSummary(out)
<1>1. /\ Sound(out) /\ Len(out) >= 1
      /\ L = 0 => l = 0
      /\ L > 0 => /\ l \in 1..Len(out) /\ out[l] = ms[L]
                  /\ \A k \in 1..Len(out) :
                       k < l => \E i \in 1..Len(ms) : i < L /\ out[k] = ms[i]
  BY ReducedMeans
<1>2. ms \in Seq(Messages) /\ out \in Seq(Messages) /\ Len(out) \in Nat
  BY <1>1 DEF Sound
<1>3. L \in Nat /\ l \in 0..Len(out) BY <1>2, LatestIs
<1>4. SummaryTs(out) = SummaryTs(ms)
  <2>1. L = 0 \/ L > 0 BY <1>3
  <2>2. CASE L = 0 BY <1>1, <2>2 DEF SummaryTs
  <2>3. CASE L > 0
    <3>1. l # 0 /\ L # 0 /\ out[l].ts = ms[L].ts BY <1>1, <2>3
    <3> QED BY <3>1 DEF SummaryTs
  <2> QED BY <2>1, <2>2, <2>3
<1>5. ASSUME L > 0, NEW t \in ms[L].covers PROVE t \in Shown(out)
  <2>1. l \in 1..Len(out) /\ l >= l /\ t \in out[l].covers BY <1>1, <1>3, <1>5
  <2> QED BY <1>1, <2>1, InShown
<1>6. ASSUME NEW t \in TsOf(out)
      PROVE  t \in Shown(out) \/ \E i \in 1..Len(ms) : i < L /\ ms[i].ts = t
  <2>1. PICK k \in 1..Len(out) : out[k].kind # "summary" /\ out[k].ts = t
    BY <1>2, <1>6, InTs
  <2>2. CASE k >= l BY <1>1, <2>1, <2>2, InShown
  <2>3. CASE ~(k >= l)
    <3>1. k < l /\ l # 0 BY <1>3, <2>3
    <3>2. L > 0 BY <1>1, <1>3, <3>1
    <3>3. PICK i \in 1..Len(ms) : i < L /\ out[k] = ms[i] BY <1>1, <3>1, <3>2
    <3> QED BY <2>1, <3>3
  <2> QED BY <2>2, <2>3
<1> QED BY <1>4, <1>5, <1>6

-----------------------------------------------------------------------------
(* A lossy step and a summary.                                             *)

\* What a lossy step leaves: the newest, the summary, and of the others what it does
\* not drop.
LEMMA LossyMeans ==
  ASSUME NEW ms, Sound(ms), Len(ms) >= 1, NEW r, NEW n, NEW final,
         final = Trimmed(Strips(CompactHistory(Barrier(ms)), r, n))
  PROVE  /\ Sound(final) /\ Len(final) >= 1
         /\ final[Len(final)].ts = ms[Len(ms)].ts
         /\ final[Len(final)].whole = ms[Len(ms)].whole
         /\ \A k \in 1..Len(final) : \E i \in 1..Len(ms) : Like(ms[i], final[k])
         /\ SummaryTs(final) = SummaryTs(ms)
         /\ Shown(ms) \subseteq Shown(final) \cup (TsOf(Barrier(ms)) \ TsOf(final))
<1> DEFINE b == Barrier(ms)
           h == CompactHistory(b)
           s == Strips(h, r, n)
           f == ViewStart(ms)
<1>1. /\ Sound(b) /\ Fronted(b) /\ SummaryTs(b) = SummaryTs(ms)
      /\ \A i \in 1..Len(b) : b[i] = ms[f - 1 + i] /\ f - 1 + i \in 1..Len(ms)
      /\ LatestSummary(b) = IF LatestSummary(ms) = 0 THEN 0 ELSE 1
  BY BarrierIs
<1>2. b \in Seq(Messages) /\ Len(b) >= 1 /\ b[Len(b)] = ms[Len(ms)] BY BarrierEnds
<1> HIDE DEF b, f
<1>3. Reduced(b, h) BY <1>1, <1>2, CompactReduced
<1> HIDE DEF h
<1>4. /\ Sound(h) /\ Len(h) >= 1 /\ h[Len(h)] = b[Len(b)]
      /\ \A k \in 1..Len(h) : \E i \in 1..Len(b) : h[k] = b[i]
      /\ LatestSummary(b) = 0 => LatestSummary(h) = 0
      /\ LatestSummary(b) > 0 =>
           /\ LatestSummary(h) \in 1..Len(h)
           /\ h[LatestSummary(h)] = b[LatestSummary(b)]
           /\ \A k \in 1..Len(h) : k < LatestSummary(h) =>
                \E i \in 1..Len(b) : i < LatestSummary(b) /\ h[k] = b[i]
  BY <1>1, <1>3, ReducedMeans
<1>5. h \in Seq(Messages) BY <1>4 DEF Sound
<1>6. Alike(h, s) BY <1>5, StripsAlike
<1>7. s[Len(h)].whole = h[Len(h)].whole /\ s[Len(h)].ts = h[Len(h)].ts
  BY <1>4, <1>5, LastStripped
<1>8. /\ LatestSummary(s) = LatestSummary(h) /\ SummaryTs(s) = SummaryTs(h)
      /\ Len(s) = Len(h)
  BY <1>6, AlikeSame
<1>9. final = Trimmed(s) BY DEF s, h, b
<1> HIDE DEF s
<1>10. Sound(s) /\ Len(s) >= 1 BY <1>4, <1>6, <1>8, AlikeSound
<1>11. Reduced(s, final) BY <1>9, <1>10, TrimmedReduced
<1>12. /\ Sound(final) /\ Len(final) >= 1 /\ final[Len(final)] = s[Len(s)]
       /\ \A k \in 1..Len(final) : \E i \in 1..Len(s) : final[k] = s[i]
  BY <1>10, <1>11, ReducedMeans
<1>13. /\ final[Len(final)].ts = ms[Len(ms)].ts
       /\ final[Len(final)].whole = ms[Len(ms)].whole
  BY <1>2, <1>4, <1>7, <1>8, <1>12
<1>14. ASSUME NEW k \in 1..Len(final) PROVE \E i \in 1..Len(ms) : Like(ms[i], final[k])
  <2>1. PICK i \in 1..Len(s) : final[k] = s[i] BY <1>12
  <2>2. Like(h[i], s[i]) /\ i \in 1..Len(h) BY <1>6, <1>8 DEF Alike
  <2>3. PICK j \in 1..Len(b) : h[i] = b[j] BY <1>4, <2>2
  <2>4. b[j] = ms[f - 1 + j] /\ f - 1 + j \in 1..Len(ms) BY <1>1
  <2>5. Like(ms[f - 1 + j], final[k]) BY <2>1, <2>2, <2>3, <2>4
  <2> QED BY <2>4, <2>5
<1>15. SummaryTs(final) = SummaryTs(ms)
  <2>1. SummaryTs(h) = SummaryTs(b) BY <1>1, <1>3, ReducedShown
  <2>2. SummaryTs(final) = SummaryTs(s) BY <1>10, <1>11, ReducedShown
  <2> QED BY <1>1, <1>8, <2>1, <2>2
\* Nothing is in front of the summary.
<1>16. \A i \in 1..Len(s) : ~(i < LatestSummary(s))
  <2> TAKE i \in 1..Len(s)
  <2>1. CASE LatestSummary(b) = 0 BY <1>4, <1>8, <2>1
  <2>2. CASE LatestSummary(b) = 1
    <3>1. ASSUME i < LatestSummary(h) PROVE FALSE
      <4>1. i \in 1..Len(h) /\ LatestSummary(b) > 0 BY <1>8, <2>2
      <4>2. PICK j \in 1..Len(b) : j < LatestSummary(b) BY <1>4, <3>1, <4>1
      <4> QED BY <2>2, <4>2
    <3> QED BY <1>8, <3>1
  <2> QED BY <1>1, <2>1, <2>2
<1>17. ASSUME NEW t \in TsOf(b), t \in TsOf(final) PROVE t \in Shown(final)
  <2>1. t \in Shown(final) \/ \E i \in 1..Len(s) : i < LatestSummary(s) /\ s[i].ts = t
    BY <1>10, <1>11, <1>17, ReducedShown
  <2> QED BY <1>16, <2>1
<1>18. ASSUME NEW t \in Told(b) PROVE t \in Shown(final)
  <2>1. PICK i \in 1..Len(b) : t \in b[i].covers BY <1>2, <1>18, InTold
  <2>2. b[i].kind = "summary" BY <1>1, <2>1 DEF Sound
  <2>3. i = 1
    <3>1. i \notin 2..Len(b) BY <1>1, <2>2 DEF Fronted
    <3> QED BY <3>1
  <2>4. LatestSummary(b) # 0
    <3>1. i > 0 /\ \A j \in 1..Len(b) : j > LatestSummary(b) => b[j].kind # "summary"
      BY <1>2, LatestIs
    <3> QED BY <2>2, <3>1
  <2>5. LatestSummary(b) = 1 /\ LatestSummary(b) > 0 BY <1>1, <2>4
  <2> DEFINE l == LatestSummary(h)
  <2>6. l \in 1..Len(h) /\ h[l] = b[i] BY <1>4, <2>3, <2>5
  <2> HIDE DEF l
  <2>7. s[l].covers = b[i].covers BY <1>6, <2>6 DEF Alike, Like
  <2>8. LatestSummary(s) = l /\ l > 0 BY <1>8, <2>6 DEF l
  <2>9. s[LatestSummary(s)].covers \subseteq Shown(final)
    BY <1>10, <1>11, <2>8, ReducedShown
  <2> QED BY <2>1, <2>7, <2>8, <2>9
<1>19. Shown(ms) = TsOf(b) \cup Told(b) BY DEF Shown, b
<1>20. Shown(ms) \subseteq Shown(final) \cup (TsOf(b) \ TsOf(final))
  BY <1>17, <1>18, <1>19
<1> QED BY <1>12, <1>13, <1>14, <1>15, <1>20 DEF b

\* If the second message begins a round, the first round is the first message.
LEMMA SecondStart ==
  ASSUME NEW ms \in Seq(Messages), 1 \in Starts(ms), 2 \in Starts(ms), Rounds(ms) >= 2
  PROVE  StartOf(ms, 2) = 2
<1> DEFINE S == Starts(ms)
           s == StartOf(ms, 2)
           n == Len(ms)
<1>1. n \in Nat /\ S \in SUBSET (1..n) /\ Rounds(ms) \in Nat BY StartsAre
<1>2. s \in S /\ Cardinality(Upto(S, s)) = 2
  <2>1. 2 \in 1..Rounds(ms) BY <1>1
  <2> QED BY <2>1, StartsAre
<1>3. 1 \in S /\ 2 \in S OBVIOUS
<1> HIDE DEF S, s, n
<1>4. 1 \in 1..n /\ 2 \in 1..n /\ s \in 1..n BY <1>1, <1>2, <1>3
<1>5. Cardinality(Upto(S, 0)) = 0 BY <1>1, UptoIs
<1>6. Cardinality(Upto(S, 1)) = 1
  <2>1. Cardinality(Upto(S, 1)) = Cardinality(Upto(S, 1 - 1)) + 1
    BY <1>1, <1>3, <1>4, UptoNext
  <2>2. 1 - 1 = 0 OBVIOUS
  <2> QED BY <1>5, <2>1, <2>2
<1>7. Cardinality(Upto(S, 2)) = 2
  <2>1. Cardinality(Upto(S, 2)) = Cardinality(Upto(S, 2 - 1)) + 1
    BY <1>1, <1>3, <1>4, UptoNext
  <2>2. 2 - 1 = 1 OBVIOUS
  <2> QED BY <1>6, <2>1, <2>2
<1>8. s # 1 BY <1>2, <1>6
<1>9. ASSUME s > 2 PROVE FALSE
  <2>1. s - 1 \in 0..n /\ 2 \in 0..(s - 1) BY <1>1, <1>4, <1>9
  <2>2. Cardinality(Upto(S, s)) = Cardinality(Upto(S, s - 1)) + 1
    BY <1>1, <1>2, <1>4, UptoNext
  <2>3. Cardinality(Upto(S, 2)) <= Cardinality(Upto(S, s - 1)) BY <1>1, <2>1, UptoIs
  <2>4. Cardinality(Upto(S, s - 1)) \in Nat BY <1>1, <2>1, UptoIs
  <2> QED BY <1>2, <1>7, <2>2, <2>3, <2>4
<1> QED BY <1>4, <1>8, <1>9 DEF s

\* A summary is a sound transcript by itself.
LEMMA SummaryIs ==
  ASSUME clock \in Nat, NEW size \in Nat, NEW told \in SUBSET Nat
  PROVE  /\ <<Summary(size, told)>> \in Seq(Messages)
         /\ Len(<<Summary(size, told)>>) = 1
         /\ <<Summary(size, told)>>[1] = Summary(size, told)
         /\ Summary(size, told).kind = "summary" /\ Summary(size, told).ts = clock + 1
         /\ Summary(size, told).covers = told
         /\ Sound(<<Summary(size, told)>>)
<1> DEFINE m == Summary(size, told)
           q == <<m>>
<1>1. m \in Messages /\ m.kind = "summary" /\ m.ts = clock + 1 /\ m.covers = told
  BY DEF Summary, Message, Messages
<1> HIDE DEF m
<1>2. q \in Seq(Messages) /\ Len(q) = 1 /\ q[1] = m BY <1>1
<1> HIDE DEF q
<1>3. \A i \in 1..Len(q) : i = 1 /\ q[i] = m BY <1>2
<1>4. Sound(q) BY <1>1, <1>2, <1>3 DEF Sound, Answering, Answered
<1> QED BY <1>1, <1>2, <1>4 DEF q, m

\* A tail whose reasoning is stripped.
Stripped(latest, tail) == [i \in DOMAIN tail |-> StripReasoning(latest, i, tail[i])]

\* It is the same messages, and whole where it was.
LEMMA TailStripped ==
  ASSUME NEW tail \in Seq(Messages), NEW latest
  PROVE  /\ Alike(tail, Stripped(latest, tail))
         /\ \A i \in 1..Len(tail) : Stripped(latest, tail)[i].whole = tail[i].whole
<1> DEFINE out == Stripped(latest, tail)
<1>1. DOMAIN tail = 1..Len(tail) /\ Len(tail) \in Nat OBVIOUS
<1>2. ASSUME NEW i \in 1..Len(tail)
      PROVE  /\ out[i] \in Messages /\ Like(tail[i], out[i])
             /\ out[i].whole = tail[i].whole
  <2>1. tail[i] \in Messages BY ElementOfSeq
  <2>2. out[i] = StripReasoning(latest, i, tail[i]) BY <1>1 DEF Stripped
  <2> QED BY <2>1, <2>2, ReasoningKeeps
<1>3. out \in Seq(Messages) /\ Len(out) = Len(tail)
  <2>1. out \in [1..Len(tail) -> Messages]
    <3>1. out = [i \in 1..Len(tail) |-> out[i]] BY <1>1 DEF Stripped
    <3> QED BY <1>2, <3>1
  <2> QED BY <1>1, <2>1
<1> QED BY <1>1, <1>2, <1>3 DEF Alike

\* Timestamps are natural numbers.
LEMMA TsNat ==
  ASSUME NEW ms \in Seq(Messages)
  PROVE  TsOf(ms) \in SUBSET Nat /\ Told(ms) \in SUBSET Nat
<1>1. ASSUME NEW i \in 1..Len(ms) PROVE ms[i].ts \in Nat /\ ms[i].covers \in SUBSET Nat
  <2>1. ms[i] \in Messages BY ElementOfSeq
  <2> QED BY <2>1 DEF Messages
<1>2. \A t \in TsOf(ms) : t \in Nat BY <1>1, InTs
<1>3. \A t \in Told(ms) : t \in Nat BY <1>1, InTold
<1> QED BY <1>2, <1>3

\* What compactWithSummary puts together, part by part.
HeadOf(view, head) ==
  head = IF view[1].kind = "summary" THEN <<>> ELSE SubSeq(view, 1, StartOf(view, 2) - 1)
ToldOf(view, e, told) ==
  told = ToldBefore(view) \cup TsOf(SubSeq(view, StartOf(view, 2), e - 1))
MadeOf(head, size, told, tail, final) ==
  final = Trimmed(head \o <<Summary(size, told)>> \o tail)

\* The first round or nothing, a summary and the later rounds from the e-th message on:
\* what they leave of a view.
LEMMA SummaryJoins ==
  ASSUME NEW view, Sound(view), Fronted(view), Len(view) >= 1, Rounds(view) >= 2,
         NEW size \in Nat, clock \in Nat, \A i \in 1..Len(view) : view[i].ts <= clock,
         NEW e \in Edges(view), 1 < StartOf(view, 2), StartOf(view, 2) \in Edges(view),
         StartOf(view, 2) <= e, e <= Len(view),
         NEW head, HeadOf(view, head),
         NEW tail, Alike(SubSeq(view, e, Len(view)), tail),
         tail[Len(tail)].whole = view[Len(view)].whole,
         NEW told, ToldOf(view, e, told), NEW final, MadeOf(head, size, told, tail, final)
  PROVE  /\ Sound(final) /\ Len(final) >= 1 /\ SummaryTs(final) = clock + 1
         /\ final[Len(final)].ts = view[Len(view)].ts
         /\ final[Len(final)].whole = view[Len(view)].whole
         /\ \A j \in 1..Len(final) :
              \/ final[j] = Summary(size, told)
              \/ \E i \in 1..Len(view) : Like(view[i], final[j])
         /\ TsOf(head) \subseteq TsOf(view) /\ TsOf(head \o tail) \subseteq TsOf(view)
         /\ TsOf(view) \cup Told(view) \subseteq
              Shown(final) \cup TsOf(head) \cup (TsOf(head \o tail) \ TsOf(final))
<1> DEFINE c == StartOf(view, 2)
           mid == SubSeq(view, c, e - 1)
           N == Len(view)
           sum == <<Summary(size, told)>>
<1>1. /\ view \in Seq(Messages) /\ N \in Nat /\ N >= 1 /\ Rounds(view) \in Nat
      /\ Rounds(view) <= N
  BY StartsAre DEF Sound
<1>2. c \in Edges(view) /\ 1 < c /\ c <= e /\ e <= N OBVIOUS
<1>3. head = (IF view[1].kind = "summary" THEN <<>> ELSE SubSeq(view, 1, c - 1))
  BY DEF HeadOf
<1>4. told = ToldBefore(view) \cup TsOf(mid) BY DEF ToldOf
<1>5. Edges(view) \subseteq 1..N + 1 /\ N + 1 \in Edges(view)
  BY <1>1, StartsAre DEF Edges
<1>6. 1 \in Edges(view) /\ StartOf(view, 1) = 1 /\ 1 \in Starts(view) BY FirstEdge
<1>7. c \in 1..N /\ e \in 1..N BY <1>1, <1>2, <1>5
\* A first message that is a summary is a round.
<1>8. ASSUME view[1].kind = "summary" PROVE c = 2
  <2>1. 2 \in 1..N BY <1>1
  <2>2. view[2].kind # "tool"
    <3>1. 2 - 1 = 1 OBVIOUS
    <3> QED BY <1>8, <2>1, <3>1 DEF Sound, Answering
  <2>3. 2 \in Starts(view) BY <1>1, <2>1, <2>2 DEF Starts
  <2> QED BY <1>1, <1>6, <2>3, SecondStart
<1> HIDE DEF c
\* The three parts and where their messages come from.
<1>9. /\ Sound(head) /\ head \in Seq(Messages) /\ Len(head) \in 0..c - 1
      /\ \A i \in 1..Len(head) :
           head[i] = view[i] /\ i \in 1..N /\ head[i].kind # "summary"
      /\ view[1].kind # "summary" => Len(head) = c - 1
  <2>1. CASE view[1].kind = "summary"
    <3>1. head = <<>> BY <1>3, <2>1
    <3>2. head \in Seq(Messages) /\ Len(head) = 0 BY <3>1
    <3>3. Sound(head) BY <3>2 DEF Sound
    <3>4. Len(head) = 0 /\ head \in Seq(Messages) BY <3>2
    <3> QED BY <1>2, <1>7, <2>1, <3>3, <3>4
  <2>2. CASE view[1].kind # "summary"
    <3>1. head = SubSeq(view, 1, c - 1) BY <1>3, <2>2
    <3>2. 1 \in 1..N + 1 /\ c - 1 \in 1 - 1..N /\ c - 1 + 1 = c /\ c - 1 - 1 + 1 = c - 1
      BY <1>1, <1>7
    <3>3. Sound(head) BY <1>2, <1>6, <3>1, <3>2, PartSound
    <3>4. /\ head \in Seq(Messages) /\ Len(head) = c - 1
          /\ \A i \in 1..c - 1 : head[i] = view[1 - 1 + i] /\ 1 - 1 + i \in 1..N
      <4>1. /\ SubSeq(view, 1, c - 1) \in Seq(Messages)
            /\ Len(SubSeq(view, 1, c - 1)) = c - 1 - 1 + 1
            /\ \A i \in 1..c - 1 - 1 + 1 :
                 SubSeq(view, 1, c - 1)[i] = view[1 - 1 + i] /\ 1 - 1 + i \in 1..N
        BY <1>1, <3>2, Part
      <4> QED BY <3>1, <3>2, <4>1
    <3>5. ASSUME NEW i \in 1..Len(head)
          PROVE  head[i] = view[i] /\ i \in 1..N /\ head[i].kind # "summary"
      <4>1. 1 - 1 + i = i /\ i \in 1..c - 1 BY <3>4
      <4>2. head[i] = view[i] /\ i \in 1..N BY <3>4, <4>1
      <4>3. i = 1 \/ i \in 2..N BY <4>2
      <4> QED BY <2>2, <4>2, <4>3 DEF Fronted
    <3> QED BY <1>7, <3>3, <3>4, <3>5
  <2> QED BY <2>1, <2>2
<1>10. /\ mid \in Seq(Messages) /\ Len(mid) = e - c
      /\ \A i \in 1..e - c : mid[i] = view[c - 1 + i] /\ c - 1 + i \in 1..N
  <2>1. c \in 1..N + 1 /\ e - 1 \in c - 1..N /\ e - 1 - c + 1 = e - c
    BY <1>1, <1>2, <1>7
  <2>2. /\ SubSeq(view, c, e - 1) \in Seq(Messages)
        /\ Len(SubSeq(view, c, e - 1)) = e - 1 - c + 1
        /\ \A i \in 1..e - 1 - c + 1 :
             SubSeq(view, c, e - 1)[i] = view[c - 1 + i] /\ c - 1 + i \in 1..N
    BY <1>1, <2>1, Part
  <2>3. mid = SubSeq(view, c, e - 1) OBVIOUS
  <2> HIDE DEF mid
  <2> QED BY <2>1, <2>2, <2>3
<1> DEFINE late == SubSeq(view, e, N)
<1>11. /\ Sound(late) /\ late \in Seq(Messages) /\ Len(late) = N - e + 1
      /\ \A i \in 1..N - e + 1 : late[i] = view[e - 1 + i] /\ e - 1 + i \in 1..N
  <2>1. e \in 1..N + 1 /\ N \in e - 1..N BY <1>1, <1>7
  <2>2. Sound(late) BY <1>5, <2>1, PartSound
  <2> QED BY <1>1, <2>1, <2>2, Part, SMTT(30)
<1>12. /\ Alike(late, tail) /\ Sound(tail) /\ tail \in Seq(Messages)
       /\ Len(tail) = N - e + 1
  <2>1. Alike(late, tail) OBVIOUS
  <2>2. Sound(tail) BY <1>11, <2>1, AlikeSound
  <2> QED BY <1>11, <2>1, <2>2 DEF Alike
<1> HIDE DEF late
<1>13. \A i \in 1..Len(tail) : Like(view[e - 1 + i], tail[i]) /\ e - 1 + i \in 1..N
  <2> TAKE i \in 1..Len(tail)
  <2>1. i \in 1..Len(late) BY <1>11, <1>12
  <2>2. Like(late[i], tail[i]) BY <1>12, <2>1 DEF Alike
  <2>3. late[i] = view[e - 1 + i] /\ e - 1 + i \in 1..N BY <1>11, <2>1
  <2> QED BY <2>2, <2>3
<1>14. told \in SUBSET Nat
  <2>1. TsOf(mid) \in SUBSET Nat BY <1>10, TsNat
  <2>2. ToldBefore(view) \in SUBSET Nat
    <3>1. 1 \in 1..Rounds(view) /\ 1 \in 1..Rounds(view) BY <1>1
    <3>2. RoundsFromTo(view, 1, 1) \in Seq(Messages) BY <3>1, RoundsSized
    <3> QED BY <3>2, TsNat DEF ToldBefore
  <2> QED BY <1>4, <2>1, <2>2
<1>15. /\ Sound(sum) /\ sum \in Seq(Messages) /\ Len(sum) = 1
       /\ sum[1] = Summary(size, told)
       /\ sum[1].kind = "summary" /\ sum[1].ts = clock + 1 /\ sum[1].covers = told
  BY <1>14, SummaryIs
<1> HIDE DEF sum, mid
<1> DEFINE hs == head \o sum
           pre == hs \o tail
           L == Len(head) + 1
<1>16. /\ hs \in Seq(Messages) /\ Len(hs) = L /\ hs[L] = sum[1]
       /\ \A i \in 1..Len(head) : hs[i] = head[i]
       /\ \A i \in 1..L : i \in 1..Len(head) \/ i = L
  <2>1. /\ hs \in Seq(Messages) /\ Len(hs) = Len(head) + Len(sum)
        /\ \A i \in 1..Len(head) : hs[i] = head[i]
        /\ \A i \in 1..Len(sum) : hs[Len(head) + i] = sum[i]
    <3>1. head \in Seq(Messages) /\ sum \in Seq(Messages) BY <1>9, <1>15
    <3> QED BY <3>1, Joined
  <2>2. 1 \in 1..Len(sum) /\ Len(head) \in Nat BY <1>9, <1>15
  <2> HIDE DEF hs
  <2> QED BY <1>15, <2>1, <2>2
<1>17. Sound(hs)
  <2>1. ASSUME NEW i \in 1..Len(head), NEW j \in 1..Len(sum)
        PROVE  head[i].ts # sum[j].ts
    <3>1. j = 1 /\ head[i] = view[i] /\ i \in 1..N BY <1>9, <1>15
    <3>2. sum[j].ts = clock + 1 /\ head[i].ts <= clock BY <1>15, <3>1
    <3>3. head[i].ts \in Nat
      <4>1. head[i] \in Messages BY <1>9, ElementOfSeq
      <4> QED BY <4>1 DEF Messages
    <3> QED BY <3>2, <3>3
  <2> QED BY <1>9, <1>15, <2>1, JoinSound
<1> HIDE DEF hs
<1>18. /\ pre \in Seq(Messages) /\ Len(pre) = L + Len(tail)
       /\ \A i \in 1..L : pre[i] = hs[i]
       /\ \A i \in 1..Len(tail) : pre[L + i] = tail[i]
       /\ \A i \in 1..Len(pre) :
            i \in 1..L \/ (i - L \in 1..Len(tail) /\ i = L + (i - L))
  <2>1. hs \in Seq(Messages) /\ tail \in Seq(Messages) /\ Len(hs) = L BY <1>12, <1>16
  <2>2. /\ pre \in Seq(Messages) /\ Len(pre) = Len(hs) + Len(tail)
        /\ \A i \in 1..Len(hs) : pre[i] = hs[i]
        /\ \A i \in 1..Len(tail) : pre[Len(hs) + i] = tail[i]
        /\ \A i \in 1..Len(pre) :
             \/ i \in 1..Len(hs)
             \/ (i - Len(hs) \in 1..Len(tail) /\ i = Len(hs) + (i - Len(hs)))
    BY <2>1, Joined
  <2> HIDE DEF L, pre
  <2> QED BY <2>1, <2>2
<1>19. Sound(pre)
  <2>1. ASSUME NEW i \in 1..Len(hs), NEW j \in 1..Len(tail) PROVE hs[i].ts # tail[j].ts
    <3>1. tail[j].ts = view[e - 1 + j].ts /\ e - 1 + j \in 1..N BY <1>13 DEF Like
    <3>2. CASE i \in 1..Len(head)
      <4>1. hs[i].ts = view[i].ts /\ i \in 1..N BY <1>9, <1>16, <3>2
      <4>2. i # e - 1 + j BY <1>2, <1>7, <1>9, <3>2
      <4> QED BY <3>1, <4>1, <4>2 DEF Sound
    <3>3. CASE i = L
      <4>1. hs[i].ts = clock + 1 BY <1>15, <1>16, <3>3
      <4>2. tail[j].ts <= clock BY <3>1
      <4>3. tail[j].ts \in Nat
        <5>1. tail[j] \in Messages BY <1>12, ElementOfSeq
        <5> QED BY <5>1 DEF Messages
      <4> QED BY <4>1, <4>2, <4>3
    <3> QED BY <1>16, <3>2, <3>3
  <2> QED BY <1>12, <1>17, <2>1, JoinSound
<1>20. Len(head) \in Nat /\ Len(tail) \in Nat /\ L \in Nat \ {0} BY <1>9, <1>12
<1> HIDE DEF pre
<1>21. LatestSummary(pre) = L
  <2>1. L \in 0..Len(pre) BY <1>18, <1>20
  <2>2. pre[L].kind = "summary"
    <3>1. L \in 1..L BY <1>20
    <3>2. pre[L] = hs[L] BY <1>18, <3>1
    <3> QED BY <1>15, <1>16, <3>2
  <2>3. ASSUME NEW i \in 1..Len(pre), i > L PROVE pre[i].kind # "summary"
    <3>1. i - L \in 1..Len(tail) /\ i = L + (i - L) BY <1>18, <1>20, <2>3
    <3>2. pre[i] = tail[i - L] BY <1>18, <3>1
    <3>3. tail[i - L].kind = view[e - 1 + (i - L)].kind /\ e - 1 + (i - L) \in 1..N
      BY <1>13, <3>1 DEF Like
    <3>4. e - 1 + (i - L) \in 2..N BY <1>2, <1>7, <3>1, <3>3
    <3> QED BY <3>2, <3>3, <3>4 DEF Fronted
  <2> HIDE DEF L
  <2> QED BY <1>18, <2>1, <2>2, <2>3, LatestUnique
<1>22. pre[L] = Summary(size, told) /\ pre[L].covers = told /\ pre[L].ts = clock + 1
  <2>1. L \in 1..L BY <1>20
  <2>2. pre[L] = hs[L] BY <1>18, <2>1
  <2> QED BY <1>15, <1>16, <2>2
<1>23. Len(pre) >= 1 BY <1>18, <1>20
<1>24. final = Trimmed(pre) BY DEF MadeOf, pre, hs, sum
<1>25. Reduced(pre, final) BY <1>19, <1>23, <1>24, TrimmedReduced
<1>26. /\ Sound(final) /\ Len(final) >= 1 /\ final[Len(final)] = pre[Len(pre)]
       /\ \A j \in 1..Len(final) : \E i \in 1..Len(pre) : final[j] = pre[i]
  <2>1. Sound(pre) /\ Reduced(pre, final) BY <1>19, <1>25
  <2> QED BY <2>1, ReducedMeans
<1>27. /\ SummaryTs(final) = SummaryTs(pre)
       /\ pre[LatestSummary(pre)].covers \subseteq Shown(final)
       /\ \A t \in TsOf(final) :
            \/ t \in Shown(final)
            \/ \E i \in 1..Len(pre) : i < LatestSummary(pre) /\ pre[i].ts = t
  <2>1. LatestSummary(pre) > 0 BY <1>20, <1>21
  <2> QED BY <1>19, <1>25, <2>1, ReducedShown
<1>28. SummaryTs(final) = clock + 1 BY <1>20, <1>21, <1>22, <1>27 DEF SummaryTs
<1>29. final[Len(final)].ts = view[N].ts /\ final[Len(final)].whole = view[N].whole
  <2>1. Len(tail) \in 1..Len(tail) /\ e - 1 + Len(tail) = N /\ Len(pre) = L + Len(tail)
    <3>1. Len(tail) = N - e + 1 /\ Len(pre) = L + Len(tail) BY <1>12, <1>18
    <3>2. N \in Nat /\ e \in 1..N BY <1>1, <1>7
    <3> HIDE DEF L
    <3> QED BY <3>1, <3>2
  <2>2. pre[Len(pre)] = tail[Len(tail)] BY <1>18, <2>1
  <2>3. tail[Len(tail)].ts = view[N].ts
    <3>1. Like(view[e - 1 + Len(tail)], tail[Len(tail)]) BY <1>13, <2>1
    <3> QED BY <2>1, <3>1 DEF Like
  <2>4. tail[Len(tail)].whole = view[N].whole OBVIOUS
  <2> QED BY <1>26, <2>2, <2>3, <2>4
<1>30. ASSUME NEW j \in 1..Len(final)
       PROVE  final[j] = Summary(size, told) \/ \E i \in 1..N : Like(view[i], final[j])
  <2>1. PICK i \in 1..Len(pre) : final[j] = pre[i] BY <1>26
  <2>2. CASE i \in 1..Len(head)
    <3>1. i \in 1..L /\ i \in 1..N BY <1>9, <1>20, <2>2
    <3>2. pre[i] = view[i] BY <1>9, <1>16, <1>18, <2>2, <3>1
    <3>3. Like(view[i], view[i]) BY DEF Like
    <3> QED BY <2>1, <3>1, <3>2, <3>3
  <2>3. CASE i = L BY <1>22, <2>1, <2>3
  <2>4. CASE i - L \in 1..Len(tail) /\ i = L + (i - L)
    <3>1. pre[i] = tail[i - L] BY <1>18, <2>4
    <3>2. Like(view[e - 1 + (i - L)], tail[i - L]) /\ e - 1 + (i - L) \in 1..N
      BY <1>13, <2>4
    <3> QED BY <2>1, <3>1, <3>2
  <2> QED BY <1>16, <1>18, <2>2, <2>3, <2>4
<1>31. TsOf(head) \subseteq TsOf(view)
  <2> SUFFICES ASSUME NEW t \in TsOf(head) PROVE t \in TsOf(view) OBVIOUS
  <2>1. PICK i \in 1..Len(head) : head[i].kind # "summary" /\ head[i].ts = t
    BY <1>9, InTs
  <2>2. head[i] = view[i] /\ i \in 1..N BY <1>9
  <2> QED BY <1>1, <2>1, <2>2, InTs
<1>32. tail \in Seq(Messages) /\ head \in Seq(Messages) BY <1>9, <1>12
<1>33. ASSUME NEW t \in TsOf(tail) PROVE t \in TsOf(view)
  <2>1. PICK i \in 1..Len(tail) : tail[i].kind # "summary" /\ tail[i].ts = t
    BY <1>32, <1>33, InTs
  <2>2. Like(view[e - 1 + i], tail[i]) /\ e - 1 + i \in 1..N BY <1>13
  <2>3. view[e - 1 + i].kind # "summary" /\ view[e - 1 + i].ts = t
    BY <2>1, <2>2 DEF Like
  <2> QED BY <1>1, <2>2, <2>3, InTs
<1>34. ASSUME NEW t
       PROVE  t \in TsOf(head \o tail) <=> t \in TsOf(head) \/ t \in TsOf(tail)
  <2>1. /\ head \o tail \in Seq(Messages) /\ Len(head \o tail) = Len(head) + Len(tail)
        /\ \A i \in 1..Len(head) : (head \o tail)[i] = head[i]
        /\ \A i \in 1..Len(tail) : (head \o tail)[Len(head) + i] = tail[i]
        /\ \A i \in 1..Len(head \o tail) :
             \/ i \in 1..Len(head)
             \/ (i - Len(head) \in 1..Len(tail) /\ i = Len(head) + (i - Len(head)))
    BY <1>32, Joined
  <2> DEFINE ht == head \o tail
             at(m) == m.kind # "summary" /\ m.ts = t
  <2>2. /\ ht \in Seq(Messages) /\ Len(ht) = Len(head) + Len(tail)
        /\ \A i \in 1..Len(head) : ht[i] = head[i]
        /\ \A i \in 1..Len(tail) : ht[Len(head) + i] = tail[i]
        /\ \A i \in 1..Len(ht) :
             \/ i \in 1..Len(head)
             \/ (i - Len(head) \in 1..Len(tail) /\ i = Len(head) + (i - Len(head)))
    BY <2>1
  <2> HIDE DEF ht
  <2>3. Len(head) \in Nat /\ Len(tail) \in Nat BY <1>20
  <2>4. t \in TsOf(ht) <=> \E i \in 1..Len(ht) : at(ht[i]) BY <2>2, InTs
  <2>5. t \in TsOf(head) <=> \E i \in 1..Len(head) : at(head[i]) BY <1>32, InTs
  <2>6. t \in TsOf(tail) <=> \E i \in 1..Len(tail) : at(tail[i]) BY <1>32, InTs
  <2>7. ASSUME NEW i \in 1..Len(ht), at(ht[i])
        PROVE  \/ (\E j \in 1..Len(head) : at(head[j]))
               \/ \E j \in 1..Len(tail) : at(tail[j])
    <3>1. CASE i \in 1..Len(head) BY <2>2, <2>7, <3>1
    <3>2. CASE i - Len(head) \in 1..Len(tail) /\ i = Len(head) + (i - Len(head))
      <4>1. ht[i] = tail[i - Len(head)] BY <2>2, <3>2
      <4> QED BY <2>7, <3>2, <4>1
    <3> QED BY <2>2, <3>1, <3>2
  <2>8. ASSUME NEW j \in 1..Len(head), at(head[j]) PROVE \E i \in 1..Len(ht) : at(ht[i])
    <3>1. j \in 1..Len(ht) /\ ht[j] = head[j] BY <2>3, <2>2
    <3> QED BY <2>8, <3>1
  <2>9. ASSUME NEW j \in 1..Len(tail), at(tail[j]) PROVE \E i \in 1..Len(ht) : at(ht[i])
    <3>1. Len(head) + j \in 1..Len(ht) /\ ht[Len(head) + j] = tail[j] BY <2>3, <2>2
    <3> QED BY <2>9, <3>1
  <2> HIDE DEF at
  <2>10. t \in TsOf(ht) <=> t \in TsOf(head) \/ t \in TsOf(tail)
    BY <2>4, <2>5, <2>6, <2>7, <2>8, <2>9
  <2> QED BY <2>10 DEF ht
<1>35. TsOf(head \o tail) \subseteq TsOf(view) BY <1>31, <1>33, <1>34
\* Where every message of the view went.
<1>36. ASSUME NEW t \in TsOf(view)
       PROVE  t \in TsOf(head) \/ t \in told \/ t \in TsOf(tail)
  <2>1. PICK i \in 1..N : view[i].kind # "summary" /\ view[i].ts = t
    BY <1>1, <1>36, InTs
  <2>2. CASE i < c
    <3>1. CASE view[1].kind = "summary"
      <4>1. i = 1 BY <1>8, <2>2, <3>1
      <4> QED BY <2>1, <3>1, <4>1
    <3>2. CASE view[1].kind # "summary"
      <4>1. i \in 1..Len(head) BY <1>7, <1>9, <2>2, <3>2
      <4>2. head[i].kind # "summary" /\ head[i].ts = t BY <1>9, <2>1, <4>1
      <4> QED BY <1>32, <4>1, <4>2, InTs
    <3> QED BY <3>1, <3>2
  <2>3. CASE c <= i /\ i < e
    <3>1. i - c + 1 \in 1..e - c /\ c - 1 + (i - c + 1) = i BY <1>7, <2>3
    <3>2. mid[i - c + 1] = view[i] /\ i - c + 1 \in 1..Len(mid) BY <1>10, <3>1
    <3>3. t \in TsOf(mid) BY <1>10, <2>1, <3>2, InTs
    <3> QED BY <1>4, <3>3
  <2>4. CASE e <= i
    <3>1. i - e + 1 \in 1..Len(tail) /\ e - 1 + (i - e + 1) = i BY <1>7, <1>12, <2>4
    <3>2. Like(view[i], tail[i - e + 1])
      <4>1. Like(view[e - 1 + (i - e + 1)], tail[i - e + 1]) BY <1>13, <3>1
      <4> QED BY <3>1, <4>1
    <3>3. tail[i - e + 1].kind # "summary" /\ tail[i - e + 1].ts = t
      BY <2>1, <3>2 DEF Like
    <3> QED BY <1>32, <3>1, <3>3, InTs
  <2> QED BY <1>7, <2>2, <2>3, <2>4
<1>37. ASSUME NEW t \in Told(view) PROVE t \in told
  <2>1. PICK i \in 1..N : t \in view[i].covers BY <1>1, <1>37, InTold
  <2>2. view[i].kind = "summary" BY <2>1 DEF Sound
  <2>3. i = 1
    <3>1. i \notin 2..N BY <2>2 DEF Fronted
    <3> QED BY <3>1
  <2>4. t \in ToldBefore(view)
    <3> DEFINE one == RoundsFromTo(view, 1, 1)
    <3>1. one = SubSeq(view, 1, c - 1)
      <4>1. 1 + 1 = 2 OBVIOUS
      <4> QED BY <1>6, <4>1 DEF RoundsFromTo, c
    <3>2. /\ 1 \in 1..N + 1 /\ c - 1 \in 1 - 1..N /\ 1 \in 1..c - 1 - 1 + 1
          /\ 1 - 1 + 1 = 1
      BY <1>1, <1>2, <1>7
    <3>3. /\ SubSeq(view, 1, c - 1) \in Seq(Messages)
          /\ Len(SubSeq(view, 1, c - 1)) = c - 1 - 1 + 1
          /\ \A j \in 1..c - 1 - 1 + 1 :
               SubSeq(view, 1, c - 1)[j] = view[1 - 1 + j] /\ 1 - 1 + j \in 1..N
      BY <1>1, <3>2, Part, SMTT(30)
    <3> HIDE DEF one
    <3>4. one \in Seq(Messages) /\ 1 \in 1..Len(one) /\ one[1] = view[1]
      BY <3>1, <3>2, <3>3
    <3>5. t \in Told(one) BY <2>1, <2>3, <3>4, InTold
    <3> QED BY <3>5 DEF ToldBefore, one
  <2> QED BY <1>4, <2>4
<1>38. told \subseteq Shown(final) BY <1>20, <1>21, <1>22, <1>27
<1>39. ASSUME NEW t \in TsOf(tail), t \in TsOf(final)
       PROVE  t \in Shown(final) \/ t \in TsOf(head)
  <2>1. CASE t \in Shown(final) BY <2>1
  <2>2. CASE \E i \in 1..Len(pre) : i < L /\ pre[i].ts = t
    <3>1. PICK i \in 1..Len(pre) : i < L /\ pre[i].ts = t BY <2>2
    <3>2. i \in 1..Len(head) /\ i \in 1..L BY <1>20, <3>1
    <3>3. head[i].ts = t /\ head[i].kind # "summary" BY <1>9, <1>16, <1>18, <3>1, <3>2
    <3> QED BY <1>32, <3>2, <3>3, InTs
  <2> QED BY <1>21, <1>27, <1>39, <2>1, <2>2
<1>40. ASSUME NEW t, t \in TsOf(view) \/ t \in Told(view)
       PROVE  \/ t \in Shown(final)
              \/ t \in TsOf(head)
              \/ (t \in TsOf(head \o tail) /\ t \notin TsOf(final))
  BY <1>34, <1>36, <1>37, <1>38, <1>39, <1>40
<1>41. TsOf(view) \cup Told(view) \subseteq
         Shown(final) \cup TsOf(head) \cup (TsOf(head \o tail) \ TsOf(final))
  BY <1>40
<1> QED BY <1>26, <1>28, <1>29, <1>30, <1>31, <1>35, <1>41

\* The parts of a cut, what its summary stands for, where its messages are from, and
\* that none is shrunk.
CutOf(view, k, budget, parts) == parts = CutAt(view, k, budget)
ToldFrom(view, parts, told)   == told = ToldBefore(view) \cup TsOf(parts.middle)

From(view, size, told, final) ==
  \A j \in 1..Len(final) :
    final[j] = Summary(size, told) \/ \E i \in 1..Len(view) : Like(view[i], final[j])
WholeAs(ms, ns)               == \A i \in 1..Len(ms) : ns[i].whole = ms[i].whole

\* What a summary leaves: the newest, and of the others what the summary does not
\* stand for, or what it drops.
LEMMA SummaryMeans ==
  ASSUME NEW view, Sound(view), Fronted(view), Len(view) >= 1, Rounds(view) >= 2,
         NEW k \in 2..Rounds(view), NEW budget \in Nat, NEW size \in Nat,
         clock \in Nat, \A i \in 1..Len(view) : view[i].ts <= clock,
         NEW parts, CutOf(view, k, budget, parts), NEW told, ToldFrom(view, parts, told),
         NEW tail, Alike(parts.tail, tail),
         WholeAs(parts.tail, tail), NEW final, MadeOf(parts.head, size, told, tail, final)
  PROVE  /\ Sound(final) /\ Len(final) >= 1 /\ SummaryTs(final) = clock + 1
         /\ final[Len(final)].ts = view[Len(view)].ts
         /\ final[Len(final)].whole = view[Len(view)].whole
         /\ From(view, size, told, final)
         /\ TsOf(parts.head) \subseteq TsOf(view)
         /\ TsOf(parts.head \o tail) \subseteq TsOf(view)
         /\ TsOf(view) \cup Told(view) \subseteq
              Shown(final) \cup TsOf(parts.head)
                \cup (TsOf(parts.head \o tail) \ TsOf(final))
<1>1. PICK e \in Edges(view) :
        /\ StartOf(view, 2) \in Edges(view) /\ 1 < StartOf(view, 2)
        /\ StartOf(view, 2) <= e /\ e <= Len(view)
        /\ parts.head = (IF view[1].kind = "summary" THEN <<>>
                         ELSE SubSeq(view, 1, StartOf(view, 2) - 1))
        /\ parts.middle = SubSeq(view, StartOf(view, 2), e - 1)
        /\ Alike(SubSeq(view, e, Len(view)), parts.tail)
        /\ Len(parts.tail) >= 1 /\ parts.tail[Len(parts.tail)] = view[Len(view)]
  BY CutMeans, ZenonT(40) DEF CutOf
<1>2. Alike(SubSeq(view, e, Len(view)), tail) BY <1>1, AlikeAgain
<1>3. tail[Len(tail)].whole = view[Len(view)].whole
  <2>1. Len(tail) = Len(parts.tail) /\ Len(parts.tail) \in 1..Len(parts.tail)
    BY <1>1 DEF Alike
  <2> QED BY <1>1, <2>1 DEF WholeAs
<1>4. ToldOf(view, e, told) BY <1>1 DEF ToldOf, ToldFrom
<1>5. HeadOf(view, parts.head) BY <1>1 DEF HeadOf
<1>6. /\ StartOf(view, 2) \in Edges(view) /\ 1 < StartOf(view, 2)
      /\ StartOf(view, 2) <= e /\ e <= Len(view)
  BY <1>1
<1> DEFINE h == parts.head
<1>7. HeadOf(view, h) /\ MadeOf(h, size, told, tail, final) BY <1>5
<1> HIDE DEF h
<1>8. /\ Sound(final) /\ Len(final) >= 1 /\ SummaryTs(final) = clock + 1
      /\ final[Len(final)].ts = view[Len(view)].ts
      /\ final[Len(final)].whole = view[Len(view)].whole
      /\ \A j \in 1..Len(final) :
           \/ final[j] = Summary(size, told)
           \/ \E i \in 1..Len(view) : Like(view[i], final[j])
      /\ TsOf(h) \subseteq TsOf(view) /\ TsOf(h \o tail) \subseteq TsOf(view)
      /\ TsOf(view) \cup Told(view) \subseteq
           Shown(final) \cup TsOf(h) \cup (TsOf(h \o tail) \ TsOf(final))
  BY <1>2, <1>3, <1>4, <1>6, <1>7, SummaryJoins
<1> QED BY <1>8 DEF h, From

-----------------------------------------------------------------------------
(* Folds.                                                                  *)

\* Why the text of a result may be folded.
Superseded(ms, i) ==
  \E j \in 1..Len(ms) :
    /\ j > i /\ ms[j].kind = "tool"
    /\ \/ ms[j].call = ms[i].call
       \/ ms[j].call.name = "write" /\ ms[j].ok /\ ms[j].call.on = ms[i].call.on
       \/ ms[j].call.name = "shell" /\ ms[j].call.on = ms[i].call.on

\* A call of a name is followed by its result.
LEMMA CallAnswered ==
  ASSUME NEW ms, Sound(ms), NEW w \in 1..Len(ms), ms[w].kind = "assistant",
         ms[w].call.name # "none"
  PROVE  w + 1 \in 1..Len(ms) /\ ms[w + 1].kind = "tool" /\ ms[w + 1].call = ms[w].call
<1>1. ms[w].call # NoCallMade
  <2>1. NoCallMade.name = "none" BY DEF NoCallMade
  <2> QED BY <2>1
<1>2. w < Len(ms) /\ ms[w + 1].kind = "tool" BY <1>1 DEF Sound, Answered
<1>3. w + 1 \in 1..Len(ms) /\ w + 1 - 1 = w
  <2>1. Len(ms) \in Nat BY DEF Sound
  <2> QED BY <1>2, <2>1
<1>4. ms[w + 1 - 1].call = ms[w + 1].call BY <1>2, <1>3 DEF Sound, Answering
<1> QED BY <1>2, <1>3, <1>4

\* A strip that changes the text of a result found that the result is superseded.
LEMMA FoldMeans ==
  ASSUME NEW b, Sound(b), NEW r, NEW n, NEW i \in 1..Len(b), b[i].kind = "tool",
         Strips(b, r, n)[i].text # b[i].text
  PROVE  Superseded(b, i)
<1>1. b \in Seq(Messages) /\ Len(b) \in Nat /\ DOMAIN b = 1..Len(b) BY DEF Sound
<1>2. \/ Is(b[i], "tool", "read") /\ (ReadAgain(b, i) \/ WrittenAfter(b, i))
      \/ Is(b[i], "tool", "shell") /\ \E start : RunAgain(b, start, i - 1)
  BY <1>1, StripsAlike
<1>3. CASE ReadAgain(b, i) BY <1>1, <1>3 DEF ReadAgain, Superseded
<1>4. CASE WrittenAfter(b, i)
  <2>1. PICK w \in 1..Len(b) :
          /\ w > i /\ Is(b[w], "assistant", "write") /\ b[w].call.on = b[i].call.on
          /\ ~(w < Len(b) /\ b[w + 1].kind = "tool" /\ ~b[w + 1].ok)
    BY <1>1, <1>4, Zenon DEF WrittenAfter
  <2>2. b[w].kind = "assistant" /\ b[w].call.name = "write" BY <2>1 DEF Is
  <2>3. w + 1 \in 1..Len(b) /\ b[w + 1].kind = "tool" /\ b[w + 1].call = b[w].call
    BY <2>2, CallAnswered
  <2>4. w < Len(b) /\ w + 1 > i BY <1>1, <2>1, <2>3
  <2>5. b[w + 1].ok BY <2>1, <2>3, <2>4
  <2> QED BY <2>1, <2>2, <2>3, <2>4, <2>5 DEF Superseded
<1>5. CASE Is(b[i], "tool", "shell") /\ \E start : RunAgain(b, start, i - 1)
  <2>1. PICK start : RunAgain(b, start, i - 1) BY <1>5
  <2>2. PICK j \in 1..Len(b) : /\ j > i - 1 /\ Is(b[j], "assistant", "shell")
                               /\ b[j].call.on = b[i - 1].call.on
    BY <1>1, <2>1, Zenon DEF RunAgain
  <2>3. b[j].kind = "assistant" /\ b[j].call.name = "shell" BY <2>2 DEF Is
  <2>4. j + 1 \in 1..Len(b) /\ b[j + 1].kind = "tool" /\ b[j + 1].call = b[j].call
    BY <2>3, CallAnswered
  <2>5. i - 1 \in 1..Len(b) /\ b[i - 1].call = b[i].call
    <3>1. i > 1 /\ b[i - 1].call = b[i].call BY DEF Sound, Answering
    <3> QED BY <3>1
  <2>6. j + 1 > i
    <3>1. j \in Int /\ j > i - 1 BY <2>2
    <3> QED BY <3>1
  <2>7. b[j + 1].call.name = "shell" /\ b[j + 1].call.on = b[i].call.on
    BY <2>2, <2>3, <2>4, <2>5
  <2> QED BY <2>4, <2>6, <2>7 DEF Superseded
<1> QED BY <1>2, <1>3, <1>4, <1>5

\* What the view of a request folds is superseded in the transcript.
LEMMA ViewFolds ==
  ASSUME NEW ms, Sound(ms), NEW r, NEW n, NEW i \in 1..Len(ms),
         NEW k \in 1..Len(Strips(Barrier(ms), r, n)), ms[i].kind = "tool",
         Strips(Barrier(ms), r, n)[k].ts = ms[i].ts,
         Strips(Barrier(ms), r, n)[k].text # ms[i].text
  PROVE  Superseded(ms, i)
<1> DEFINE b == Barrier(ms)
           f == ViewStart(ms)
           q == Strips(b, r, n)
<1>1. ms \in Seq(Messages) /\ Len(ms) \in Nat BY DEF Sound
<1>2. /\ f \in 1..Len(ms) + 1 /\ Len(b) = Len(ms) - f + 1 /\ Sound(b)
      /\ \A j \in 1..Len(b) : b[j] = ms[f - 1 + j] /\ f - 1 + j \in 1..Len(ms)
  BY BarrierIs
<1> HIDE DEF b, f
<1>3. b \in Seq(Messages) BY <1>2 DEF Sound
<1>4. Alike(b, q) BY <1>3, StripsAlike
<1>5. k \in 1..Len(b) /\ q[k].ts = b[k].ts BY <1>4 DEF Alike, Like, b
<1>6. b[k] = ms[f - 1 + k] /\ f - 1 + k \in 1..Len(ms) BY <1>2, <1>5
<1>7. i = f - 1 + k
  <2>1. ms[i].ts = ms[f - 1 + k].ts BY <1>5, <1>6 DEF b
  <2> QED BY <1>6, <2>1 DEF Sound
<1>8. b[k] = ms[i] BY <1>6, <1>7
<1>9. Superseded(b, k)
  <2>1. b[k].kind = "tool" /\ q[k].text # b[k].text BY <1>8 DEF b
  <2> QED BY <1>2, <1>5, <2>1, FoldMeans
<1>10. PICK j \in 1..Len(b) :
         /\ j > k /\ b[j].kind = "tool"
         /\ \/ b[j].call = b[k].call
            \/ b[j].call.name = "write" /\ b[j].ok /\ b[j].call.on = b[k].call.on
            \/ b[j].call.name = "shell" /\ b[j].call.on = b[k].call.on
  BY <1>9 DEF Superseded
<1>11. b[j] = ms[f - 1 + j] /\ f - 1 + j \in 1..Len(ms) BY <1>2
<1>12. f - 1 + j > i
  <2>1. j > k /\ j \in Int /\ k \in Int /\ f \in Int BY <1>2, <1>5, <1>10
  <2> QED BY <1>7, <2>1
<1> QED BY <1>8, <1>10, <1>11, <1>12 DEF Superseded

-----------------------------------------------------------------------------
(* The inductive invariant, and one lemma per action.                      *)

\* Types: every timestamp was given, every message of the transcript is one.
Typed ==
  /\ phase \in {"idle", "step", "call", "retry", "limit"} /\ clock \in Nat /\ fresh \in BOOLEAN
  /\ said \in SUBSET (1..clock) /\ heads \in SUBSET (1..clock)
  /\ dropped \in SUBSET (1..clock)
  /\ Sound(msgs) /\ request \in Seq(Messages)
  /\ \A i \in 1..Len(msgs) : msgs[i].ts \in 1..clock

\* Before a request, and while BeforeLLM's is out, the newest message is the last of
\* the transcript.
NewestLast ==
  phase \in {"step", "call"} =>
    /\ Len(msgs) >= 1 /\ msgs[Len(msgs)].whole = TRUE
    /\ msgs[Len(msgs)].ts \in said /\ \A t \in said : t <= msgs[Len(msgs)].ts

\* Every message of the session is shown by the transcript, was a first round beside
\* a summary, or was dropped.
Accounted == said \subseteq Shown(msgs) \cup heads \cup dropped

\* If no response was measured since the last summary, then none is after it.
Measured ==
  fresh = FALSE => \A i \in 1..Len(msgs) :
    msgs[i].kind = "assistant" /\ msgs[i].usage > 0 => msgs[i].ts < SummaryTs(msgs)

\* The inductive invariant: what the requests promise, and what the transcript has to
\* promise for the next one.
CompactionInv ==
  /\ Typed /\ NewestLast /\ Accounted /\ Measured
  /\ LatestSeen /\ SummaryKeepsAll /\ FoldedIsSuperseded

\* It holds at the start.
LEMMA CompactionInitially == CompactionInit => CompactionInv
<1> SUFFICES ASSUME CompactionInit PROVE CompactionInv OBVIOUS
<1>1. msgs = <<>> /\ request = <<>> /\ phase = "idle" /\ clock = 0 /\ fresh = TRUE
      /\ said = {} /\ heads = {} /\ dropped = {}
  BY DEF CompactionInit
<1>2. msgs \in Seq(Messages) /\ Len(msgs) = 0 BY <1>1
<1>3. Sound(msgs) BY <1>2 DEF Sound
<1>4. Typed BY <1>1, <1>2, <1>3 DEF Typed
<1>5. Accounted BY <1>1 DEF Accounted
<1> QED
  BY <1>1, <1>4, <1>5 DEF CompactionInv, NewestLast, Measured, LatestSeen,
     SummaryKeepsAll, AccountedAfter, FoldedIsSuperseded, Out

\* The invariants of a request that is out speak of no other phase.
LEMMA NoCallOut ==
  ASSUME phase' \in {"idle", "step"}
  PROVE  LatestSeen' /\ SummaryKeepsAll' /\ FoldedIsSuperseded'
BY DEF LatestSeen, SummaryKeepsAll, AccountedAfter, FoldedIsSuperseded, Out

\* What a step adds to the transcript: a response comes first, and if it was measured
\* it was charged the request and itself.
Grown(add) ==
  /\ Sound(add) /\ Len(add) >= 1 /\ msgs' = msgs \o add /\ phase' \in {"idle", "step"}
  /\ \A j \in 1..Len(add) :
       add[j].kind # "summary" /\ add[j].ts \in clock + 1..clock'
  /\ \A j \in 2..Len(add) : add[j].kind # "assistant"
  /\ add[1].kind = "assistant" /\ add[1].usage > 0 =>
       Out /\ add[1].usage >= EstimateTokens(request) + Weight(add[1])

\* The transcript grows by messages that are newer.
LEMMA GrowKeeps ==
  ASSUME CompactionInv, NEW add, Sound(add), Len(add) >= 1,
         \A j \in 1..Len(add) :
           add[j].kind # "summary" /\ add[j].ts \in clock + 1..clock',
         add[Len(add)].whole = TRUE, add[Len(add)].ts = clock',
         msgs' = msgs \o add, clock' \in Nat, clock' >= clock, said' = said \cup TsOf(add),
         fresh' \in BOOLEAN,
         fresh' = FALSE =>
           /\ fresh = FALSE
           /\ \A j \in 1..Len(add) : add[j].kind = "assistant" => ~(add[j].usage > 0),
         phase' \in {"idle", "step"}, UNCHANGED <<request, heads, dropped>>
  PROVE  CompactionInv'
<1> DEFINE ms == msgs \o add
<1>1. /\ clock \in Nat /\ fresh \in BOOLEAN /\ Sound(msgs) /\ request \in Seq(Messages)
      /\ said \in SUBSET (1..clock) /\ heads \in SUBSET (1..clock)
      /\ dropped \in SUBSET (1..clock)
      /\ \A i \in 1..Len(msgs) : msgs[i].ts \in 1..clock
  BY DEF CompactionInv, Typed
<1>2. \A i \in 1..Len(msgs), j \in 1..Len(add) : msgs[i].ts # add[j].ts
  <2> TAKE i \in 1..Len(msgs), j \in 1..Len(add)
  <2>1. msgs[i].ts \in 1..clock /\ add[j].ts \in clock + 1..clock' BY <1>1
  <2> QED BY <1>1, <2>1, SMTT(30)
<1>3. /\ Sound(ms) /\ Len(ms) = Len(msgs) + Len(add)
      /\ \A i \in 1..Len(msgs) : ms[i] = msgs[i]
      /\ \A j \in 1..Len(add) : ms[Len(msgs) + j] = add[j]
      /\ \A i \in 1..Len(ms) :
           \/ i \in 1..Len(msgs)
           \/ (i - Len(msgs) \in 1..Len(add) /\ i = Len(msgs) + (i - Len(msgs)))
      /\ SummaryTs(ms) = SummaryTs(msgs)
      /\ Shown(msgs) \cup TsOf(add) \subseteq Shown(ms)
  BY <1>1, <1>2, AppendMeans
<1>4. /\ msgs' = ms /\ msgs \in Seq(Messages) /\ add \in Seq(Messages)
      /\ Len(msgs) \in Nat /\ Len(add) \in Nat
  BY <1>1 DEF Sound
<1> HIDE DEF ms
<1>5. ASSUME NEW i \in 1..Len(ms) PROVE ms[i].ts \in 1..clock'
  <2>1. CASE i \in 1..Len(msgs)
    <3>1. ms[i].ts \in 1..clock BY <1>1, <1>3, <2>1
    <3> QED BY <1>1, <3>1
  <2>2. CASE i - Len(msgs) \in 1..Len(add) /\ i = Len(msgs) + (i - Len(msgs))
    <3>1. ms[i].ts \in clock + 1..clock' BY <1>3, <2>2
    <3> QED BY <1>1, <3>1
  <2> QED BY <1>3, <2>1, <2>2
<1>6. ASSUME NEW t \in TsOf(add) PROVE t \in clock + 1..clock' BY <1>4, <1>6, InTs
<1>7. Typed'
  <2>1. said' \in SUBSET (1..clock')
    <3>1. ASSUME NEW t \in 1..clock PROVE t \in 1..clock' BY <1>1
    <3>2. ASSUME NEW t \in clock + 1..clock' PROVE t \in 1..clock' BY <1>1
    <3>3. \A t \in said' : t \in 1..clock' BY <1>1, <1>6, <3>1, <3>2
    <3> QED BY <3>3
  <2>2. heads' \in SUBSET (1..clock') /\ dropped' \in SUBSET (1..clock')
    <3>1. ASSUME NEW t \in 1..clock PROVE t \in 1..clock' BY <1>1
    <3> QED BY <1>1, <3>1
  <2>3. Sound(msgs') /\ request' \in Seq(Messages) BY <1>1, <1>3, <1>4
  <2>4. \A i \in 1..Len(msgs') : msgs'[i].ts \in 1..clock' BY <1>4, <1>5
  <2> QED BY <2>1, <2>2, <2>3, <2>4 DEF Typed
<1>8. NewestLast'
  <2>1. Len(add) \in 1..Len(add) /\ Len(ms) = Len(msgs) + Len(add) BY <1>3, <1>4
  <2>2. ms[Len(ms)] = add[Len(add)] /\ Len(ms) >= 1 BY <1>3, <1>4, <2>1
  <2>3. ms[Len(ms)].ts = clock' /\ ms[Len(ms)].whole = TRUE BY <2>2
  <2>4. clock' \in said'
    <3>1. add[Len(add)].kind # "summary" BY <2>1
    <3>2. clock' \in TsOf(add) BY <1>4, <2>1, <3>1, InTs
    <3> QED BY <3>2
  <2>5. \A t \in said' : t <= clock'
    <3>1. said' \in SUBSET (1..clock') BY <1>7 DEF Typed
    <3> QED BY <3>1
  <2> QED BY <1>4, <2>2, <2>3, <2>4, <2>5 DEF NewestLast
<1>9. Accounted'
  <2>1. said \subseteq Shown(msgs) \cup heads \cup dropped
    BY DEF CompactionInv, Accounted
  <2>2. said' \subseteq Shown(ms) \cup heads \cup dropped BY <1>3, <2>1
  <2>3. Shown(ms)= Shown(msgs)' BY <1>4 DEF Shown, TsOf, Told, Barrier, LatestSummary
  <2> QED BY <2>2, <2>3 DEF Accounted
<1>10. Measured'
  <2> SUFFICES ASSUME fresh' = FALSE, NEW i \in 1..Len(ms), ms[i].kind = "assistant",
                      ms[i].usage > 0
               PROVE  ms[i].ts < SummaryTs(ms)
    <3>1. SummaryTs(ms) = SummaryTs(msgs)' BY <1>4 DEF SummaryTs, LatestSummary
    <3> QED BY <1>4, <3>1 DEF Measured
  <2>1. CASE i \in 1..Len(msgs)
    <3>1. ms[i] = msgs[i] BY <1>3, <2>1
    <3>2. msgs[i].ts < SummaryTs(msgs) BY <2>1, <3>1 DEF CompactionInv, Measured
    <3> QED BY <1>3, <3>1, <3>2
  <2>2. CASE i - Len(msgs) \in 1..Len(add) /\ i = Len(msgs) + (i - Len(msgs))
    <3>1. ms[i] = add[i - Len(msgs)] BY <1>3, <2>2
    <3> QED BY <2>2, <3>1
  <2> QED BY <1>3, <2>1, <2>2
<1>11. LatestSeen' /\ SummaryKeepsAll' /\ FoldedIsSuperseded'
  <2>1. phase' \in {"idle", "step"} OBVIOUS
  <2> QED BY <2>1, NoCallOut
<1> QED BY <1>7, <1>8, <1>9, <1>10, <1>11 DEF CompactionInv

\* A message that is no result is sound by itself,
LEMMA OneMessage ==
  ASSUME NEW m \in Messages, m.kind \notin {"tool", "summary"}, m.covers = {},
         m.kind = "assistant" => m.call = NoCallMade
  PROVE  /\ Sound(<<m>>) /\ Len(<<m>>) = 1 /\ <<m>>[1] = m
         /\ TsOf(<<m>>) = {m.ts}
<1> DEFINE q == <<m>>
<1>1. q \in Seq(Messages) /\ Len(q) = 1 /\ q[1] = m OBVIOUS
<1> HIDE DEF q
<1>2. \A i \in 1..Len(q) : i = 1 /\ q[i] = m BY <1>1
<1>3. Sound(q) BY <1>1, <1>2 DEF Sound, Answering, Answered
<1>4. \A t : t \in TsOf(q) <=> t = m.ts
  <2>1. 1 \in 1..Len(q) BY <1>1
  <2> QED BY <1>1, <1>2, <2>1, InTs
<1>5. TsOf(q) = {m.ts} BY <1>4
<1> QED BY <1>1, <1>3, <1>5 DEF q

\* and so is a call with its result.
LEMMA TwoMessages ==
  ASSUME NEW m \in Messages, NEW n \in Messages, m.kind = "assistant", n.kind = "tool",
         m.covers = {}, n.covers = {}, n.call = m.call, m.ts # n.ts
  PROVE  /\ Sound(<<m, n>>) /\ Len(<<m, n>>) = 2 /\ <<m, n>>[1] = m /\ <<m, n>>[2] = n
         /\ TsOf(<<m, n>>) = {m.ts, n.ts}
<1> DEFINE q == <<m, n>>
<1>1. q \in Seq(Messages) /\ Len(q) = 2 /\ q[1] = m /\ q[2] = n
  <2>1. q \in Seq(Messages) OBVIOUS
  <2>2. Len(q) = 2 OBVIOUS
  <2>3. q[1] = m OBVIOUS
  <2>4. q[2] = n OBVIOUS
  <2> QED BY <2>1, <2>2, <2>3, <2>4
<1> HIDE DEF q
<1>2. \A i \in 1..Len(q) : (i = 1 /\ q[i] = m) \/ (i = 2 /\ q[i] = n) BY <1>1
<1>3. \A i, j \in 1..Len(q) : q[i].ts = q[j].ts => i = j BY <1>2
<1>4. \A i \in 1..Len(q) : q[i].covers = {} BY <1>2
<1>5. ASSUME NEW i \in 1..Len(q) PROVE Answering(q, i) /\ Answered(q, i)
  <2>1. 2 - 1 = 1 /\ 1 + 1 = 2 OBVIOUS
  <2>2. CASE i = 1 BY <1>1, <2>1, <2>2 DEF Answering, Answered
  <2>3. CASE i = 2 BY <1>1, <2>1, <2>3 DEF Answering, Answered
  <2> QED BY <1>2, <2>2, <2>3
<1>6. Sound(q) BY <1>1, <1>3, <1>4, <1>5 DEF Sound
<1>7. \A t : t \in TsOf(q) <=> t = m.ts \/ t = n.ts
  <2>1. 1 \in 1..Len(q) /\ 2 \in 1..Len(q) BY <1>1
  <2>2. \A t :
          t \in TsOf(q) <=> \E i \in 1..Len(q) : q[i].kind # "summary" /\ q[i].ts = t
    BY <1>1, InTs
  <2> QED BY <1>1, <1>2, <2>1, <2>2
<1>8. TsOf(q) = {m.ts, n.ts} BY <1>7
<1> QED BY <1>1, <1>6, <1>8 DEF q

\* Run appends the prompt.
LEMMA UserAsksKeeps ==
  ASSUME CompactionInv, NEW size \in UserSizes, UserAsks(size)
  PROVE  CompactionInv' /\ \E add : Grown(add)
<1> DEFINE m == UserMessage(size)
           add == <<m>>
<1>1. clock \in Nat /\ Sound(msgs) /\ fresh \in BOOLEAN BY DEF CompactionInv, Typed
<1>2. /\ m \in Messages /\ m.kind = "user" /\ m.covers = {} /\ m.ts = clock + 1
      /\ m.whole = TRUE
  <2>1. size \in Nat BY CompactionAssumption
  <2> QED BY <1>1, <2>1 DEF UserMessage, Message, Messages
<1>3. /\ msgs' = Append(msgs, m) /\ clock' = clock + 1 /\ said' = said \cup {clock + 1}
      /\ phase' = "step" /\ UNCHANGED <<request, heads, dropped>> /\ fresh' = fresh
  BY DEF UserAsks
<1> HIDE DEF m
<1>4. msgs' = msgs \o add
  <2>1. msgs \in Seq(Messages) BY <1>1 DEF Sound
  <2> QED BY <1>2, <1>3, <2>1, AppendIsConcat
<1>5. Sound(add) /\ Len(add) = 1 /\ add[1] = m /\ TsOf(add) = {m.ts} BY <1>2, OneMessage
<1> HIDE DEF add
<1>6. \A j \in 1..Len(add) : add[j].kind # "summary" /\ add[j].ts \in clock + 1..clock'
                             /\ add[j].kind # "assistant"
  <2>1. \A j \in 1..Len(add) : j = 1 BY <1>5
  <2>2. clock + 1 \in clock + 1..clock' BY <1>1, <1>3
  <2> QED BY <1>2, <1>5, <2>1, <2>2
<1>7. add[Len(add)].whole = TRUE /\ add[Len(add)].ts = clock' /\ Len(add) >= 1
  BY <1>2, <1>3, <1>5
<1>8. said' = said \cup TsOf(add) BY <1>2, <1>3, <1>5
<1>9. /\ clock' \in Nat /\ clock' >= clock /\ phase' \in {"idle", "step"}
      /\ fresh' \in BOOLEAN
  BY <1>1, <1>3
<1>10. fresh' = FALSE =>
         /\ fresh = FALSE
         /\ \A j \in 1..Len(add) : add[j].kind = "assistant" => ~(add[j].usage > 0)
  BY <1>3, <1>6
<1>11. UNCHANGED <<request, heads, dropped>> BY <1>3
<1>12. CompactionInv'
  BY <1>4, <1>5, <1>6, <1>7, <1>8, <1>9, <1>10, <1>11, GrowKeeps
<1>13. Grown(add)
  <2>1. \A j \in 2..Len(add) : add[j].kind # "assistant" BY <1>5
  <2>2. add[1].kind # "assistant" BY <1>2, <1>5
  <2> QED BY <1>4, <1>5, <1>6, <1>7, <1>9, <2>1, <2>2 DEF Grown
<1> QED BY <1>12, <1>13

\* What the endpoint reports is a number, of at least the request and the answer.
LEMMA ReportedNat ==
  ASSUME CompactionInv, NEW size \in Nat, NEW usage \in Reported(size)
  PROVE  usage \in Nat /\ (usage > 0 => usage >= EstimateTokens(request) + size)
<1>1. EstimateTokens(request) \in Nat BY EstimateIsNat DEF CompactionInv, Typed
<1>2. Under \in Nat BY CompactionAssumption
<1> DEFINE sent == EstimateTokens(request)
<1>3. usage = 0 \/ \E more \in {0, Under} : usage = sent + size + more BY DEF Reported
<1> HIDE DEF sent
<1>4. sent \in Nat BY <1>1 DEF sent
<1>5. usage \in Nat /\ (usage > 0 => usage >= sent + size) BY <1>2, <1>3, <1>4
<1> QED BY <1>5 DEF sent

\* The endpoint answers.
LEMMA RepliesKeeps ==
  ASSUME CompactionInv, NEW think \in Thinks, Replies(think)
  PROVE  CompactionInv' /\ \E add : Grown(add)
<1>1. clock \in Nat /\ Sound(msgs) /\ fresh \in BOOLEAN BY DEF CompactionInv, Typed
<1>2. think \in Nat /\ ReplySize \in Nat BY CompactionAssumption
<1>3. PICK usage \in Reported(ReplySize + think) :
         /\ msgs' = Append(msgs, Message("assistant", ReplySize, think, 0, NoCallMade, TRUE,
                                         usage, {}))
         /\ fresh' = (fresh \/ usage > 0)
  BY DEF Replies
<1>4. /\ usage \in Nat
      /\ usage > 0 => usage >= EstimateTokens(request) + (ReplySize + think)
  <2>1. ReplySize + think \in Nat BY <1>2
  <2> QED BY <2>1, ReportedNat
<1> DEFINE m == Message("assistant", ReplySize, think, 0, NoCallMade, TRUE, usage, {})
           add == <<m>>
<1>5. /\ m \in Messages /\ m.kind = "assistant" /\ m.covers = {} /\ m.ts = clock + 1
      /\ m.whole = TRUE
      /\ m.call = NoCallMade /\ m.usage = usage
      /\ m.text = ReplySize /\ m.think = think /\ m.args = 0
  BY <1>2, <1>1, <1>4 DEF Message, Messages
<1>6. /\ msgs' = Append(msgs, m) /\ clock' = clock + 1 /\ said' = said \cup {clock + 1}
      /\ phase' = "idle" /\ UNCHANGED <<request, heads, dropped>>
  BY <1>3 DEF Replies
<1> HIDE DEF m
<1>7. msgs' = msgs \o add
  <2>1. msgs \in Seq(Messages) BY <1>1 DEF Sound
  <2> QED BY <1>5, <1>6, <2>1, AppendIsConcat
<1>8. Sound(add) /\ Len(add) = 1 /\ add[1] = m /\ TsOf(add) = {m.ts} BY <1>5, OneMessage
<1> HIDE DEF add
<1>9. \A j \in 1..Len(add) : j = 1 BY <1>8
<1>10. \A j \in 1..Len(add) : add[j].kind # "summary" /\ add[j].ts \in clock + 1..clock'
  <2>1. clock + 1 \in clock + 1..clock' BY <1>1, <1>6
  <2> QED BY <1>5, <1>8, <1>9, <2>1
<1>11. add[Len(add)].whole = TRUE /\ add[Len(add)].ts = clock' /\ Len(add) >= 1
  BY <1>5, <1>6, <1>8
<1>12. said' = said \cup TsOf(add) BY <1>5, <1>6, <1>8
<1>13. clock' \in Nat /\ clock' >= clock /\ phase' \in {"idle", "step"} BY <1>1, <1>6
<1>14. fresh' \in BOOLEAN BY <1>3
<1>15. fresh' = FALSE =>
         /\ fresh = FALSE
         /\ \A j \in 1..Len(add) : add[j].kind = "assistant" => ~(add[j].usage > 0)
  <2>1. fresh' = FALSE => fresh = FALSE /\ ~(usage > 0) BY <1>1, <1>3
  <2> QED BY <1>5, <1>8, <1>9, <2>1
<1>16. UNCHANGED <<request, heads, dropped>> BY <1>6
<1>17. CompactionInv'
  BY <1>7, <1>8, <1>10, <1>11, <1>12, <1>13, <1>15, <1>16, <1>14, GrowKeeps
<1>18. Grown(add)
  <2>1. \A j \in 2..Len(add) : add[j].kind # "assistant" BY <1>8
  <2>2. Out BY DEF Replies
  <2>3. Weight(add[1]) = ReplySize + think BY <1>2, <1>5, <1>8 DEF Weight
  <2>4. add[1].usage > 0 => add[1].usage >= EstimateTokens(request) + Weight(add[1])
    BY <1>4, <1>5, <1>8, <2>3
  <2> QED BY <1>7, <1>8, <1>10, <1>11, <1>13, <2>1, <2>2, <2>4 DEF Grown
<1> QED BY <1>17, <1>18

\* The endpoint calls a tool, and its result follows.
LEMMA CallsToolKeeps ==
  ASSUME CompactionInv, NEW made \in CallsMade, NEW think \in Thinks,
         NEW ok \in BOOLEAN,
         CallsTool(made, think, ok)
  PROVE  CompactionInv' /\ \E add : Grown(add)
<1>1. clock \in Nat /\ Sound(msgs) /\ fresh \in BOOLEAN BY DEF CompactionInv, Typed
<1>2. think \in Nat /\ made.args \in Nat /\ made.out \in Nat BY CompactionAssumption
<1> DEFINE asst(usage) == Message("assistant", 0, think, made.args, made.call, TRUE,
                                  usage, {})
           n == [Message("tool", IF ok THEN made.out ELSE 1, 0, 0, made.call, ok, 0, {})
                   EXCEPT !.ts = clock + 2]
<1>3. PICK usage \in Reported(made.args + think) :
         /\ msgs' = msgs \o <<asst(usage), n>>
         /\ fresh' = (fresh \/ usage > 0)
  BY DEF CallsTool
<1>4. /\ usage \in Nat
      /\ usage > 0 => usage >= EstimateTokens(request) + (made.args + think)
  <2>1. made.args + think \in Nat BY <1>2
  <2> QED BY <2>1, ReportedNat
<1> DEFINE m == asst(usage)
           add == <<m, n>>
<1>5. /\ m \in Messages /\ m.kind = "assistant" /\ m.covers = {} /\ m.ts = clock + 1
      /\ m.call = made.call /\ m.usage = usage
      /\ m.text = 0 /\ m.think = think /\ m.args = made.args
  BY <1>2, <1>1, <1>4 DEF Message, Messages
<1>6. /\ n \in Messages /\ n.kind = "tool" /\ n.covers = {} /\ n.ts = clock + 2
      /\ n.whole = TRUE
       /\ n.call = made.call
  <2> DEFINE v == IF ok THEN made.out ELSE 1
             r == Message("tool", v, 0, 0, made.call, ok, 0, {})
  <2>1. v \in Nat BY <1>2
  <2> HIDE DEF v
  <2>2. /\ r \in Messages /\ r.kind = "tool" /\ r.covers = {} /\ r.whole = TRUE
        /\ r.call = made.call
    BY <1>1, <2>1 DEF Message, Messages
  <2>3. n = [r EXCEPT !.ts = clock + 2] BY DEF v
  <2> HIDE DEF n, r
  <2>4. clock + 2 \in Nat BY <1>1
  <2> QED BY <2>2, <2>3, <2>4, Zenon DEF Messages
<1>7. /\ clock' = clock + 2 /\ said' = said \cup {clock + 1, clock + 2}
      /\ phase' = "step" /\ UNCHANGED <<request, heads, dropped>>
  BY DEF CallsTool
<1>8. msgs' = msgs \o add BY <1>3
<1> HIDE DEF m, n
<1>9. Sound(add) /\ Len(add) = 2 /\ add[1] = m /\ add[2] = n /\ TsOf(add) = {m.ts, n.ts}
  <2>1. m.ts # n.ts BY <1>1, <1>5, <1>6
  <2> QED BY <1>5, <1>6, <2>1, TwoMessages
<1> HIDE DEF add
<1>10. \A j \in 1..Len(add) : j = 1 \/ j = 2 BY <1>9
<1>11. \A j \in 1..Len(add) : add[j].kind # "summary" /\ add[j].ts \in clock + 1..clock'
  <2>1. clock + 1 \in clock + 1..clock' /\ clock + 2 \in clock + 1..clock' BY <1>1, <1>7
  <2> QED BY <1>5, <1>9, <1>10, <1>6, <2>1
<1>12. add[Len(add)].whole = TRUE /\ add[Len(add)].ts = clock' /\ Len(add) >= 1
  BY <1>7, <1>9, <1>6
<1>13. said' = said \cup TsOf(add) BY <1>5, <1>7, <1>9, <1>6
<1>14. clock' \in Nat /\ clock' >= clock /\ phase' \in {"idle", "step"} BY <1>1, <1>7
<1>15. fresh' \in BOOLEAN BY <1>3
<1>16. fresh' = FALSE =>
         /\ fresh = FALSE
         /\ \A j \in 1..Len(add) : add[j].kind = "assistant" => ~(add[j].usage > 0)
  <2>1. fresh' = FALSE => fresh = FALSE /\ ~(usage > 0) BY <1>1, <1>3
  <2> QED BY <1>5, <1>9, <1>10, <1>6, <2>1
<1>17. UNCHANGED <<request, heads, dropped>> BY <1>7
<1>18. CompactionInv'
  BY <1>8, <1>9, <1>11, <1>12, <1>13, <1>14, <1>16, <1>17, <1>15, GrowKeeps
<1>19. Grown(add)
  <2>1. \A j \in 2..Len(add) : add[j].kind # "assistant"
    <3>1. \A j \in 2..Len(add) : j = 2 BY <1>9
    <3> QED BY <1>6, <1>9, <3>1
  <2>2. Out BY DEF CallsTool, Out
  <2>3. Weight(add[1]) = made.args + think BY <1>2, <1>5, <1>9 DEF Weight
  <2>4. add[1].usage > 0 => add[1].usage >= EstimateTokens(request) + Weight(add[1])
    BY <1>4, <1>5, <1>9, <2>3
  <2> QED BY <1>7, <1>8, <1>9, <1>11, <1>12, <1>14, <2>1, <2>2, <2>4 DEF Grown
<1> QED BY <1>18, <1>19

\* What a request shows is in the transcript.
LEMMA ShownWithin ==
  ASSUME NEW ms, Sound(ms)
  PROVE  Shown(ms) \subseteq TsOf(ms) \cup Told(ms)
<1> SUFFICES ASSUME NEW t \in Shown(ms) PROVE t \in TsOf(ms) \/ t \in Told(ms)
  OBVIOUS
<1>1. PICK i \in 1..Len(ms) : (ms[i].kind # "summary" /\ ms[i].ts = t) \/ t \in ms[i].covers
  BY InShown
<1>2. ms \in Seq(Messages) BY DEF Sound
<1> QED BY <1>1, <1>2, InTs, InTold

\* The newest message that was said.
LEMMA NewestIsMax ==
  ASSUME NEW S \in SUBSET Nat, NEW t \in S, \A u \in S : u <= t
  PROVE  Max(S) = t
<1>1. t \in S /\ \A u \in S : t >= u OBVIOUS
<1>2. Max(S) \in S /\ \A u \in S : Max(S) >= u BY <1>1, Zenon DEF Max
<1>3. Max(S) >= t /\ t >= Max(S) /\ Max(S) \in Nat /\ t \in Nat BY <1>1, <1>2
<1> QED BY <1>3

\* The turn ends, or a summary was made that does not help.
LEMMA IdleKeeps ==
  ASSUME CompactionInv, phase' = "idle", clock' \in {clock, clock + 1},
         UNCHANGED <<msgs, request, fresh, said, heads, dropped>>
  PROVE  CompactionInv'
<1>1. /\ clock \in Nat /\ fresh \in BOOLEAN /\ Sound(msgs) /\ request \in Seq(Messages)
      /\ said \in SUBSET (1..clock) /\ heads \in SUBSET (1..clock)
      /\ dropped \in SUBSET (1..clock)
      /\ \A i \in 1..Len(msgs) : msgs[i].ts \in 1..clock
  BY DEF CompactionInv, Typed
<1>2. clock' \in Nat /\ \A t \in 1..clock : t \in 1..clock' BY <1>1
<1>3. Typed'
  <2>1. /\ said' \in SUBSET (1..clock') /\ heads' \in SUBSET (1..clock')
        /\ dropped' \in SUBSET (1..clock')
    BY <1>1, <1>2
  <2>2. \A i \in 1..Len(msgs') : msgs'[i].ts \in 1..clock' BY <1>1, <1>2
  <2> QED BY <1>1, <1>2, <2>1, <2>2 DEF Typed
<1>4. NewestLast' BY DEF NewestLast
<1>5. Accounted'
  <2>1. Shown(msgs)' = Shown(msgs) BY DEF Shown, TsOf, Told, Barrier, LatestSummary
  <2> QED BY <2>1 DEF CompactionInv, Accounted
<1>6. Measured'
  <2>1. SummaryTs(msgs)' = SummaryTs(msgs) BY DEF SummaryTs, LatestSummary
  <2> QED BY <2>1 DEF CompactionInv, Measured
<1>7. LatestSeen' /\ SummaryKeepsAll' /\ FoldedIsSuperseded'
  <2>1. phase' \in {"idle", "step"} OBVIOUS
  <2> QED BY <2>1, NoCallOut
<1> QED BY <1>3, <1>4, <1>5, <1>6, <1>7 DEF CompactionInv

\* A history of the steps before goes out as its view.
LEMMA SendViewKeeps == ASSUME CompactionInv, SendView PROVE CompactionInv'
<1> DEFINE q == Strips(Barrier(msgs), KeepReasoning, KeepToolArgs)
<1>1. /\ clock \in Nat /\ fresh \in BOOLEAN /\ Sound(msgs) /\ request \in Seq(Messages)
      /\ said \in SUBSET (1..clock) /\ heads \in SUBSET (1..clock)
      /\ dropped \in SUBSET (1..clock)
      /\ \A i \in 1..Len(msgs) : msgs[i].ts \in 1..clock
  BY DEF CompactionInv, Typed
<1>2. /\ phase = "step" /\ phase' = "call" /\ request' = q
      /\ UNCHANGED <<msgs, clock, fresh, said, heads, dropped>>
  BY DEF SendView, View
<1>3. /\ Len(msgs) >= 1 /\ msgs[Len(msgs)].whole = TRUE
      /\ msgs[Len(msgs)].ts \in said /\ \A t \in said : t <= msgs[Len(msgs)].ts
  BY <1>2 DEF CompactionInv, NewestLast
<1>4. /\ Alike(Barrier(msgs), q) /\ Last(q).ts = msgs[Len(msgs)].ts
      /\ Last(q).whole = msgs[Len(msgs)].whole /\ TsOf(q) \cup Told(q) = Shown(msgs)
  BY <1>1, <1>3, SendMeans
<1>5. ASSUME NEW i \in 1..Len(msgs), NEW k \in 1..Len(q), msgs[i].kind = "tool",
             q[k].ts = msgs[i].ts, q[k].text # msgs[i].text
      PROVE  Superseded(msgs, i)
  BY <1>1, <1>5, ViewFolds
<1> HIDE DEF q
<1>6. q \in Seq(Messages) /\ DOMAIN q = 1..Len(q) BY <1>4 DEF Alike
<1>7. msgs \in Seq(Messages) /\ DOMAIN msgs = 1..Len(msgs) BY <1>1 DEF Sound
<1>8. Typed' BY <1>1, <1>2, <1>6 DEF Typed
<1>9. NewestLast' BY <1>2, <1>3 DEF NewestLast
<1>10. Shown(msgs)' = Shown(msgs) BY <1>2 DEF Shown, TsOf, Told, Barrier, LatestSummary
<1>11. said \subseteq Shown(msgs) \cup heads \cup dropped
  BY DEF CompactionInv, Accounted
<1>12. Accounted' BY <1>2, <1>10, <1>11 DEF Accounted
<1>13. Measured'
  <2>1. SummaryTs(msgs)' = SummaryTs(msgs) BY <1>2 DEF SummaryTs, LatestSummary
  <2> QED BY <1>2, <2>1 DEF CompactionInv, Measured
<1>14. LatestSeen'
  <2>1. Max(said) = msgs[Len(msgs)].ts
    <3>1. said \in SUBSET Nat BY <1>1
    <3> QED BY <1>3, <3>1, NewestIsMax
  <2>2. Last(q) = q[Len(q)] BY DEF Last
  <2> QED BY <1>2, <1>3, <1>4, <2>1, <2>2 DEF LatestSeen
<1>15. SummaryKeepsAll'
  <2>1. TsOf(request)' = TsOf(q) /\ Told(request)' = Told(q) BY <1>2 DEF TsOf, Told
  <2> QED BY <1>2, <1>4, <1>11, <2>1 DEF SummaryKeepsAll, AccountedAfter
<1>16. FoldedIsSuperseded'
  <2> SUFFICES ASSUME NEW i \in 1..Len(msgs), NEW k \in 1..Len(q),
                      msgs[i].kind = "tool",
                      q[k].ts = msgs[i].ts, q[k].text # msgs[i].text
               PROVE  Superseded(msgs, i)
    BY <1>2, <1>6, <1>7 DEF FoldedIsSuperseded, Superseded
  <2> QED BY <1>5
<1> QED BY <1>8, <1>9, <1>12, <1>13, <1>14, <1>15, <1>16 DEF CompactionInv

\* What replaces the transcript is what goes out.
LEMMA ReplacesKeeps ==
  ASSUME CompactionInv, phase = "step", NEW final, Sound(final), Len(final) >= 1,
         final[Len(final)].ts = msgs[Len(msgs)].ts,
         final[Len(final)].whole = msgs[Len(msgs)].whole,
         \A k \in 1..Len(final) : final[k].ts \in 1..clock',
         clock' \in {clock, clock + 1}, said' = said, phase' = "call",
         msgs' = final, request' = final, fresh' \in BOOLEAN,
         heads' \in SUBSET (1..clock), dropped' \in SUBSET (1..clock),
         said \subseteq Shown(final) \cup heads' \cup dropped',
         fresh' = FALSE => \A k \in 1..Len(final) :
           final[k].kind = "assistant" /\ final[k].usage > 0 =>
             final[k].ts < SummaryTs(final)
  PROVE  CompactionInv'
<1>1. clock \in Nat /\ said \in SUBSET (1..clock) BY DEF CompactionInv, Typed
<1>2. clock' \in Nat /\ \A t \in 1..clock : t \in 1..clock' BY <1>1
<1>3. /\ msgs[Len(msgs)].whole = TRUE /\ msgs[Len(msgs)].ts \in said
      /\ \A t \in said : t <= msgs[Len(msgs)].ts
  BY DEF CompactionInv, NewestLast
<1>4. final \in Seq(Messages) /\ DOMAIN final = 1..Len(final) /\ Len(final) \in Nat
  BY DEF Sound
<1>5. Typed'
  <2>1. /\ said' \in SUBSET (1..clock') /\ heads' \in SUBSET (1..clock')
        /\ dropped' \in SUBSET (1..clock')
    BY <1>1, <1>2
  <2> QED BY <1>2, <1>4, <2>1 DEF Typed
<1>6. NewestLast' BY <1>3 DEF NewestLast
<1>7. Shown(msgs)' = Shown(final) BY DEF Shown, TsOf, Told, Barrier, LatestSummary
<1>8. Accounted' BY <1>7 DEF Accounted
<1>9. Measured'
  <2>1. SummaryTs(msgs)' = SummaryTs(final) BY DEF SummaryTs, LatestSummary
  <2> QED BY <2>1 DEF Measured
<1>10. LatestSeen'
  <2>1. Max(said) = msgs[Len(msgs)].ts
    <3>1. said \in SUBSET Nat BY <1>1
    <3> QED BY <1>3, <3>1, NewestIsMax
  <2> QED BY <1>3, <2>1 DEF LatestSeen
<1>11. SummaryKeepsAll'
  <2>1. TsOf(request)' = TsOf(final) /\ Told(request)' = Told(final) BY DEF TsOf, Told
  <2>2. said \subseteq TsOf(final) \cup Told(final) \cup heads' \cup dropped'
    BY ShownWithin
  <2> QED BY <2>1, <2>2 DEF SummaryKeepsAll, AccountedAfter
<1>12. FoldedIsSuperseded'
  <2>1. \A i, k \in 1..Len(final) :
          final[k].ts = final[i].ts => final[k].text = final[i].text
    BY DEF Sound
  <2> QED BY <1>4, <2>1 DEF FoldedIsSuperseded
<1> QED BY <1>5, <1>6, <1>8, <1>9, <1>10, <1>11, <1>12 DEF CompactionInv

\* A history that a step replaces, or one that is too large even so.
LEMMA LossyKeeps == ASSUME CompactionInv, Lossy PROVE CompactionInv'
<1>1. /\ clock \in Nat /\ fresh \in BOOLEAN /\ Sound(msgs) /\ msgs \in Seq(Messages)
      /\ said \in SUBSET (1..clock) /\ heads \in SUBSET (1..clock)
      /\ dropped \in SUBSET (1..clock)
      /\ \A i \in 1..Len(msgs) : msgs[i].ts \in 1..clock
  BY DEF CompactionInv, Typed, Sound
<1>2. phase = "step" /\ clock' = clock /\ said' = said BY DEF Lossy
<1>3. Len(msgs) >= 1 BY <1>2 DEF CompactionInv, NewestLast
<1>4. PICK final :
        /\ final = Trimmed(Strips(CompactHistory(Barrier(msgs)), KeepReasoning,
                                  KeepToolArgs))
        /\ Commit(final, fresh, heads, TsOf(Barrier(msgs)) \ TsOf(final))
  BY Zenon DEF Lossy
<1>5. /\ Sound(final) /\ Len(final) >= 1
      /\ final[Len(final)].ts = msgs[Len(msgs)].ts
      /\ final[Len(final)].whole = msgs[Len(msgs)].whole
      /\ \A k \in 1..Len(final) : \E i \in 1..Len(msgs) : Like(msgs[i], final[k])
      /\ SummaryTs(final) = SummaryTs(msgs)
      /\ Shown(msgs) \subseteq Shown(final) \cup (TsOf(Barrier(msgs)) \ TsOf(final))
  BY <1>1, <1>3, <1>4, LossyMeans
<1>6. \/ /\ phase' = "call" /\ msgs' = final /\ request' = final
         /\ fresh' = fresh /\ heads' = heads
         /\ dropped' = dropped \cup (TsOf(Barrier(msgs)) \ TsOf(final))
      \/ phase' = "idle" /\ UNCHANGED <<msgs, request, fresh, heads, dropped>>
  BY <1>4 DEF Commit
<1>7. CASE phase' = "idle" /\ UNCHANGED <<msgs, request, fresh, heads, dropped>>
  BY <1>2, <1>7, IdleKeeps
<1>8. CASE /\ phase' = "call" /\ msgs' = final /\ request' = final
           /\ fresh' = fresh /\ heads' = heads
           /\ dropped' = dropped \cup (TsOf(Barrier(msgs)) \ TsOf(final))
  <2>1. \A k \in 1..Len(final) : final[k].ts \in 1..clock' BY <1>1, <1>2, <1>5 DEF Like
  <2>2. dropped' \in SUBSET (1..clock)
    <3>1. ASSUME NEW t \in TsOf(Barrier(msgs)) PROVE t \in 1..clock
      <4>1. Barrier(msgs) \in Seq(Messages) BY <1>1, BarrierIs DEF Sound
      <4>2. PICK i \in 1..Len(Barrier(msgs)) : Barrier(msgs)[i].ts = t
        BY <3>1, <4>1, InTs
      <4>3. \E j \in 1..Len(msgs) : Barrier(msgs)[i] = msgs[j] BY <1>1, BarrierIs
      <4> QED BY <1>1, <4>2, <4>3
    <3> QED BY <1>1, <1>8, <3>1
  <2>3. said \subseteq Shown(final) \cup heads' \cup dropped'
    <3>1. said \subseteq Shown(msgs) \cup heads \cup dropped
      BY DEF CompactionInv, Accounted
    <3> QED BY <1>5, <1>8, <3>1
  <2>4. fresh' = FALSE => \A k \in 1..Len(final) :
          final[k].kind = "assistant" /\ final[k].usage > 0 =>
            final[k].ts < SummaryTs(final)
    BY <1>5, <1>8 DEF CompactionInv, Measured, Like
  <2>5. /\ phase' = "call" /\ msgs' = final /\ request' = final /\ fresh' \in BOOLEAN
        /\ clock' \in {clock, clock + 1} /\ heads' \in SUBSET (1..clock)
    BY <1>1, <1>2, <1>8
  <2> QED BY <1>2, <1>5, <2>1, <2>2, <2>3, <2>4, <2>5, ReplacesKeeps
<1> QED BY <1>6, <1>7, <1>8

\* A summary takes the place of the middle.
LEMMA RetoldKeeps ==
  ASSUME CompactionInv, phase = "step", clock' = clock + 1, said' = said,
         NEW view, view = Barrier(msgs), Rounds(view) > 1 + KeepRecent,
         NEW size \in 1..SummarySize,
         NEW k \in 2..Rounds(view), NEW parts, CutOf(view, k, TailBudget(view), parts),
         NEW told, ToldFrom(view, parts, told),
         NEW tail, Alike(parts.tail, tail),
         WholeAs(parts.tail, tail), NEW final, MadeOf(parts.head, size, told, tail, final),
         Commit(final, FALSE, heads \cup TsOf(parts.head),
                TsOf(parts.head \o tail) \ TsOf(final))
  PROVE  CompactionInv'
<1>1. /\ clock \in Nat /\ Sound(msgs) /\ msgs \in Seq(Messages)
      /\ said \in SUBSET (1..clock) /\ heads \in SUBSET (1..clock)
      /\ dropped \in SUBSET (1..clock)
      /\ \A i \in 1..Len(msgs) : msgs[i].ts \in 1..clock
  BY DEF CompactionInv, Typed, Sound
<1>2. Len(msgs) >= 1 BY DEF CompactionInv, NewestLast
<1>3. /\ Sound(view) /\ Fronted(view)
      /\ \A i \in 1..Len(view) :
           /\ view[i] = msgs[ViewStart(msgs) - 1 + i]
           /\ ViewStart(msgs) - 1 + i \in 1..Len(msgs)
  BY <1>1, BarrierIs
<1>4. view \in Seq(Messages) /\ Len(view) >= 1 /\ view[Len(view)] = msgs[Len(msgs)]
  BY <1>1, <1>2, BarrierEnds
<1>5. \A i \in 1..Len(view) : view[i].ts \in 1..clock /\ view[i].ts <= clock
  <2> TAKE i \in 1..Len(view)
  <2>1. view[i].ts \in 1..clock BY <1>1, <1>3
  <2> QED BY <1>1, <2>1
<1>6. Rounds(view) >= 2 /\ Rounds(view) >= 1
  <2>1. Rounds(view) \in Nat /\ KeepRecent \in Nat /\ KeepRecent >= 1
    BY <1>4, StartsAre, CompactionAssumption
  <2> QED BY <2>1
<1>7. TailBudget(view) \in Nat /\ size \in Nat
  <2>1. TailBudget(view) \in Nat BY <1>3, <1>6, BudgetIsNat
  <2>2. SummarySize \in Nat BY CompactionAssumption
  <2> QED BY <2>1, <2>2
<1> DEFINE head == parts.head
<1>8. /\ Sound(final) /\ Len(final) >= 1 /\ SummaryTs(final) = clock + 1
      /\ final[Len(final)].ts = view[Len(view)].ts
      /\ final[Len(final)].whole = view[Len(view)].whole
      /\ From(view, size, told, final)
      /\ TsOf(head) \subseteq TsOf(view) /\ TsOf(head \o tail) \subseteq TsOf(view)
      /\ TsOf(view) \cup Told(view) \subseteq
           Shown(final) \cup TsOf(head) \cup (TsOf(head \o tail) \ TsOf(final))
  <2>1. PICK budget \in Nat : CutOf(view, k, budget, parts) BY <1>7
  <2>2. /\ Sound(view) /\ Fronted(view) /\ Len(view) >= 1 /\ Rounds(view) >= 2
        /\ clock \in Nat
        /\ (\A i \in 1..Len(view) : view[i].ts <= clock) /\ size \in Nat
        /\ k \in 2..Rounds(view) /\ ToldFrom(view, parts, told)
        /\ Alike(parts.tail, tail)
        /\ WholeAs(parts.tail, tail) /\ MadeOf(parts.head, size, told, tail, final)
    BY <1>1, <1>3, <1>4, <1>5, <1>6, <1>7
  <2> QED BY <2>1, <2>2, SummaryMeans, ZenonT(60)
<1> HIDE DEF head
<1>9. \/ /\ phase' = "call" /\ msgs' = final /\ request' = final
         /\ fresh' = FALSE /\ heads' = heads \cup TsOf(head)
         /\ dropped' = dropped \cup (TsOf(head \o tail) \ TsOf(final))
      \/ phase' = "idle" /\ UNCHANGED <<msgs, request, fresh, heads, dropped>>
  BY DEF Commit, head
<1>10. CASE phase' = "idle" /\ UNCHANGED <<msgs, request, fresh, heads, dropped>>
  <2>1. clock' \in {clock, clock + 1} OBVIOUS
  <2> QED BY <1>10, <2>1, IdleKeeps
<1>11. CASE /\ phase' = "call" /\ msgs' = final /\ request' = final
            /\ fresh' = FALSE /\ heads' = heads \cup TsOf(head)
            /\ dropped' = dropped \cup (TsOf(head \o tail) \ TsOf(final))
  <2>1. TsOf(view) \in SUBSET (1..clock)
    <3> SUFFICES ASSUME NEW t \in TsOf(view) PROVE t \in 1..clock OBVIOUS
    <3>1. PICK i \in 1..Len(view) : view[i].ts = t BY <1>4, InTs
    <3> QED BY <1>5, <3>1
  <2>2. heads' \in SUBSET (1..clock) /\ dropped' \in SUBSET (1..clock)
    BY <1>1, <1>8, <1>11, <2>1
  <2>3. Summary(size, told).ts = clock + 1 /\ Summary(size, told).kind = "summary"
    BY DEF Summary, Message
  <2>4. \A j \in 1..Len(final) : final[j].ts \in 1..clock'
    <3> TAKE j \in 1..Len(final)
    <3>1. CASE final[j] = Summary(size, told)
      <4>1. clock + 1 \in 1..clock' BY <1>1
      <4> QED BY <2>3, <3>1, <4>1
    <3>2. CASE \E i \in 1..Len(view) : Like(view[i], final[j])
      <4>1. final[j].ts \in 1..clock BY <1>5, <3>2 DEF Like
      <4> QED BY <1>1, <4>1
    <3> QED BY <1>8, <3>1, <3>2 DEF From
  <2>5. \A j \in 1..Len(final) :
          final[j].kind = "assistant" /\ final[j].usage > 0 =>
            final[j].ts < SummaryTs(final)
    <3> TAKE j \in 1..Len(final)
    <3>1. CASE final[j] = Summary(size, told) BY <2>3, <3>1
    <3>2. CASE \E i \in 1..Len(view) : Like(view[i], final[j])
      <4>1. final[j].ts \in 1..clock BY <1>5, <3>2 DEF Like
      <4>2. final[j].ts < clock + 1 BY <1>1, <4>1
      <4> QED BY <1>8, <4>2
    <3> QED BY <1>8, <3>1, <3>2 DEF From
  <2>6. said \subseteq Shown(final) \cup heads' \cup dropped'
    <3>1. said \subseteq Shown(msgs) \cup heads \cup dropped
      BY DEF CompactionInv, Accounted
    <3>2. Shown(msgs) = TsOf(view) \cup Told(view) BY DEF Shown
    <3> QED BY <1>8, <1>11, <3>1, <3>2
  <2>7. /\ final[Len(final)].ts = msgs[Len(msgs)].ts
        /\ final[Len(final)].whole = msgs[Len(msgs)].whole
    BY <1>4, <1>8
  <2>8. clock' \in {clock, clock + 1} /\ fresh' \in BOOLEAN BY <1>11
  <2>9. Sound(final) /\ Len(final) >= 1 BY <1>8
  <2>10. phase' = "call" /\ msgs' = final /\ request' = final BY <1>11
  <2> QED BY <2>2, <2>4, <2>5, <2>6, <2>7, <2>8, <2>9, <2>10, ReplacesKeeps
<1> QED BY <1>9, <1>10, <1>11

\* compactWithSummary.
LEMMA SummarizedKeeps == ASSUME CompactionInv, Summarized PROVE CompactionInv'
<1>1. /\ phase = "step" /\ clock' = clock + 1 /\ said' = said
      /\ Rounds(Barrier(msgs)) > 1 + KeepRecent
  BY DEF Summarized
<1>2. PICK view :
        /\ view = Barrier(msgs)
        /\ \E k \in {FirstKept(view, TailBudget(view))} :
             \E parts \in {CutAt(view, k, TailBudget(view))}, size \in 1..SummarySize :
               parts.middle # <<>> /\ Summarize(view, parts, size)
  BY Zenon DEF Summarized
<1>3. PICK k :
        /\ k = FirstKept(view, TailBudget(view))
        /\ \E parts \in {CutAt(view, k, TailBudget(view))}, size \in 1..SummarySize :
             parts.middle # <<>> /\ Summarize(view, parts, size)
  BY <1>2, Zenon
<1>4. PICK parts \in {CutAt(view, k, TailBudget(view))}, size \in 1..SummarySize :
        Summarize(view, parts, size)
  BY <1>3
<1>5. Sound(msgs) BY DEF CompactionInv, Typed
<1>6. Sound(view) BY <1>2, <1>5, BarrierIs
<1>7. Rounds(view) >= 2 /\ Rounds(view) >= 1
  <2>1. Rounds(view) \in Nat /\ KeepRecent \in Nat /\ KeepRecent >= 1
    BY <1>6, StartsAre, CompactionAssumption DEF Sound
  <2> QED BY <1>1, <1>2, <2>1
<1>8. k \in 2..Rounds(view) BY <1>3, <1>6, <1>7, FirstKeptIs
<1>9. TailBudget(view) \in Nat BY <1>6, <1>7, BudgetIsNat
<1>10. parts.tail \in Seq(Messages)
  <2>1. PICK e \in Edges(view) : Alike(SubSeq(view, e, Len(view)), parts.tail)
    BY <1>4, <1>6, <1>7, <1>8, <1>9, CutMeans
  <2> QED BY <2>1 DEF Alike
<1>11. PICK told : told = ToldBefore(view) \cup TsOf(parts.middle) OBVIOUS
<1>12. ToldFrom(view, parts, told) BY <1>11 DEF ToldFrom
<1>13. PICK tail :
         /\ Alike(parts.tail, tail) /\ WholeAs(parts.tail, tail)
         /\ \E final \in {Trimmed(parts.head \o <<Summary(size, told)>> \o tail)} :
              Commit(final, FALSE, heads \cup TsOf(parts.head),
                     TsOf(parts.head \o tail) \ TsOf(final))
  <2> DEFINE stripped == Stripped(LatestResponses(parts.tail, KeepReasoning), parts.tail)
  <2>1. \E final \in {Trimmed(parts.head \o <<Summary(size, told)>> \o stripped)} :
          Commit(final, FALSE, heads \cup TsOf(parts.head),
                 TsOf(parts.head \o stripped) \ TsOf(final))
    BY <1>4, <1>11, Zenon DEF Summarize, Stripped
  <2>2. Alike(parts.tail, stripped) /\ WholeAs(parts.tail, stripped)
    BY <1>10, TailStripped DEF WholeAs
  <2> HIDE DEF stripped
  <2> QED BY <2>1, <2>2
<1>14. PICK final :
         /\ MadeOf(parts.head, size, told, tail, final)
         /\ Commit(final, FALSE, heads \cup TsOf(parts.head),
                   TsOf(parts.head \o tail) \ TsOf(final))
  BY <1>13, Zenon DEF MadeOf
<1>15. Rounds(view) > 1 + KeepRecent BY <1>1, <1>2
<1>16. Alike(parts.tail, tail) /\ WholeAs(parts.tail, tail)
  BY <1>13
<1>17. CutOf(view, k, TailBudget(view), parts) BY <1>4 DEF CutOf
<1> QED BY <1>1, <1>2, <1>8, <1>14, <1>15, <1>16, <1>17, <1>12, RetoldKeeps

\* Nothing happens.
LEMMA StutterKeeps == ASSUME CompactionInv,
                             UNCHANGED compactionVars PROVE CompactionInv'
<1>1. /\ phase' = phase /\ clock' = clock /\ fresh' = fresh /\ said' = said
      /\ heads' = heads
      /\ dropped' = dropped /\ msgs' = msgs /\ request' = request
  BY DEF compactionVars
<1>2. Typed' BY <1>1 DEF CompactionInv, Typed
<1>3. NewestLast' BY <1>1 DEF CompactionInv, NewestLast
<1>4. Accounted'
  <2>1. Shown(msgs)' = Shown(msgs) BY <1>1 DEF Shown, TsOf, Told, Barrier, LatestSummary
  <2> QED BY <1>1, <2>1 DEF CompactionInv, Accounted
<1>5. Measured' BY <1>1 DEF CompactionInv, Measured, SummaryTs, LatestSummary
<1>6. LatestSeen' BY <1>1 DEF CompactionInv, LatestSeen, Out
<1>7. SummaryKeepsAll'
  BY <1>1 DEF CompactionInv, SummaryKeepsAll, AccountedAfter, Out, TsOf, Told
<1>8. FoldedIsSuperseded' BY <1>1 DEF CompactionInv, FoldedIsSuperseded
<1> QED BY <1>2, <1>3, <1>4, <1>5, <1>6, <1>7, <1>8 DEF CompactionInv

-----------------------------------------------------------------------------
(* The two requests that do not pass BeforeLLM.                            *)

\* What the retry leaves of a message.
TrimmedTo(m, n) ==
  /\ n.think = 0 /\ n.args = m.args
  /\ n.text = (IF m.kind = "tool" THEN Smaller(m.text, TrimCap) ELSE m.text)
  /\ n.whole = (IF m.kind = "tool" THEN m.whole /\ m.text <= TrimCap ELSE m.whole)

\* It keeps the messages, and what they are: only results lose text.
LEMMA ContextTrimIs ==
  ASSUME NEW ms \in Seq(Messages)
  PROVE  /\ Alike(ms, ContextTrim(ms))
         /\ \A i \in 1..Len(ms) : TrimmedTo(ms[i], ContextTrim(ms)[i])
<1> DEFINE cut(m) == IF m.kind = "tool"
                     THEN [m EXCEPT !.think = 0, !.text = Smaller(@, TrimCap),
                                    !.whole = @ /\ m.text <= TrimCap]
                     ELSE [m EXCEPT !.think = 0]
<1>1. Len(ms) \in Nat /\ DOMAIN ms = 1..Len(ms) OBVIOUS
<1>2. ContextTrim(ms) = [i \in 1..Len(ms) |-> cut(ms[i])] BY <1>1 DEF ContextTrim
<1>3. ASSUME NEW m \in Messages
      PROVE  cut(m) \in Messages /\ Like(m, cut(m)) /\ TrimmedTo(m, cut(m))
  <2> DEFINE t == Smaller(m.text, TrimCap)
             w == m.whole /\ m.text <= TrimCap
  <2>1. m.text \in Nat /\ m.whole \in BOOLEAN /\ TrimCap \in Nat
    BY CompactionAssumption DEF Messages
  <2>2. t \in Nat /\ w \in BOOLEAN BY <2>1 DEF Smaller
  <2>3. CASE m.kind = "tool"
    <3> DEFINE r == [m EXCEPT !.think = 0, !.text = t, !.whole = w]
    <3>1. cut(m) = r BY <2>3
    <3> HIDE DEF t, w
    <3>2. /\ r \in Messages /\ r.kind = m.kind /\ r.ts = m.ts /\ r.call = m.call
          /\ r.ok = m.ok /\ r.usage = m.usage /\ r.covers = m.covers
          /\ r.think = 0 /\ r.args = m.args /\ r.text = t /\ r.whole = w
      BY <2>2 DEF Messages
    <3> HIDE DEF r, cut
    <3> QED BY <2>3, <3>1, <3>2 DEF Like, TrimmedTo, t, w
  <2>4. CASE m.kind # "tool"
    <3> DEFINE r == [m EXCEPT !.think = 0]
    <3>1. cut(m) = r BY <2>4
    <3>2. /\ r \in Messages /\ r.kind = m.kind /\ r.ts = m.ts /\ r.call = m.call
          /\ r.ok = m.ok /\ r.usage = m.usage /\ r.covers = m.covers
          /\ r.think = 0 /\ r.args = m.args /\ r.text = m.text /\ r.whole = m.whole
      BY DEF Messages
    <3> HIDE DEF r, cut
    <3> QED BY <2>4, <3>1, <3>2 DEF Like, TrimmedTo
  <2> QED BY <2>3, <2>4
<1> HIDE DEF cut
<1>4. \A i \in 1..Len(ms) : ms[i] \in Messages BY ElementOfSeq
<1>5. ContextTrim(ms) \in [1..Len(ms) -> Messages] BY <1>2, <1>3, <1>4
<1>6. ContextTrim(ms) \in Seq(Messages) /\ Len(ContextTrim(ms)) = Len(ms) BY <1>1, <1>5
<1>7. \A i \in 1..Len(ms) : ContextTrim(ms)[i] = cut(ms[i]) BY <1>2
<1> QED BY <1>3, <1>4, <1>6, <1>7 DEF Alike

\* The retry sends the whole transcript, trimmed.
LEMMA RetriesKeeps == ASSUME CompactionInv, Retries PROVE CompactionInv'
<1> DEFINE c == ContextTrim(msgs)
<1>1. /\ clock \in Nat /\ fresh \in BOOLEAN /\ Sound(msgs) /\ msgs \in Seq(Messages)
      /\ said \in SUBSET (1..clock) /\ heads \in SUBSET (1..clock)
      /\ dropped \in SUBSET (1..clock) /\ Len(msgs) \in Nat
      /\ \A i \in 1..Len(msgs) : msgs[i].ts \in 1..clock
  BY DEF CompactionInv, Typed, Sound
<1>2. /\ phase = "call" /\ phase' = "retry" /\ msgs' = c /\ request' = c
      /\ UNCHANGED <<clock, fresh, said, heads, dropped>>
  BY DEF Retries
<1>3. /\ Len(msgs) >= 1 /\ msgs[Len(msgs)].whole = TRUE
      /\ msgs[Len(msgs)].ts \in said /\ \A t \in said : t <= msgs[Len(msgs)].ts
  BY <1>2 DEF CompactionInv, NewestLast
<1>4. /\ Alike(msgs, c) /\ \A i \in 1..Len(msgs) : TrimmedTo(msgs[i], c[i])
  BY <1>1, ContextTrimIs
<1> HIDE DEF c
<1>5. /\ c \in Seq(Messages) /\ Len(c) = Len(msgs)
      /\ \A i \in 1..Len(msgs) : Like(msgs[i], c[i])
  BY <1>4 DEF Alike
<1>6. Sound(c) BY <1>1, <1>4, AlikeSound
<1>7. /\ SummaryTs(c) = SummaryTs(msgs) /\ TsOf(c) = TsOf(msgs) /\ Told(c) = Told(msgs)
      /\ LatestSummary(c) = LatestSummary(msgs)
  BY <1>4, AlikeSame
<1>8. Shown(c) = Shown(msgs)
  <2>1. \A t : t \in Shown(c) <=> t \in Shown(msgs)
    BY <1>1, <1>5, <1>6, <1>7, InShown DEF Like
  <2> QED BY <2>1
<1>9. Typed' BY <1>1, <1>2, <1>5, <1>6 DEF Typed, Like
<1>10. NewestLast' BY <1>2 DEF NewestLast
<1>11. said \subseteq Shown(msgs) \cup heads \cup dropped
  BY DEF CompactionInv, Accounted
<1>12. Accounted'
  <2>1. Shown(msgs)' = Shown(c) BY <1>2 DEF Shown, TsOf, Told, Barrier, LatestSummary
  <2> QED BY <1>2, <1>8, <1>11, <2>1 DEF Accounted
<1>13. Measured'
  <2>1. SummaryTs(msgs)' = SummaryTs(c) BY <1>2 DEF SummaryTs, LatestSummary
  <2>2. fresh = FALSE => \A i \in 1..Len(c) :
          c[i].kind = "assistant" /\ c[i].usage > 0 => c[i].ts < SummaryTs(c)
    BY <1>5, <1>7 DEF CompactionInv, Measured, Like
  <2> QED BY <1>2, <2>1, <2>2 DEF Measured
<1>14. LatestSeen'
  <2> DEFINE m == msgs[Len(msgs)]
             n == c[Len(c)]
  <2>1. Max(said) = m.ts
    <3>1. said \in SUBSET Nat BY <1>1
    <3> QED BY <1>3, <3>1, NewestIsMax
  <2>2. Len(msgs) \in 1..Len(msgs) BY <1>1, <1>3
  <2>3. n.ts = m.ts /\ n.kind = m.kind /\ TrimmedTo(m, n) BY <1>4, <1>5, <2>2 DEF Like
  <2>4. m.whole = TRUE BY <1>3
  <2>5. m.text \in Nat
    <3>1. m \in Messages BY <1>1, <2>2, ElementOfSeq
    <3> QED BY <3>1 DEF Messages
  <2> HIDE DEF m, n
  <2>6. n.whole \/ (n.kind = "tool" /\ n.text = TrimCap)
    <3>1. CASE m.kind = "tool" /\ ~(m.text <= TrimCap)
      <4>1. n.text = Smaller(m.text, TrimCap) BY <2>3, <3>1 DEF TrimmedTo
      <4>2. n.text = TrimCap
        BY <2>5, <3>1, <4>1, CompactionAssumption DEF Smaller
      <4> QED BY <2>3, <3>1, <4>2
    <3>2. CASE ~(m.kind = "tool" /\ ~(m.text <= TrimCap))
      BY <2>3, <2>4, <3>2, Zenon DEF TrimmedTo
    <3> QED BY <3>1, <3>2
  <2>7. n.ts = Max(said) BY <2>1, <2>3
  <2> QED BY <1>2, <2>6, <2>7 DEF LatestSeen, n
<1>15. SummaryKeepsAll'
  <2>1. TsOf(request)' = TsOf(c) /\ Told(request)' = Told(c) BY <1>2 DEF TsOf, Told
  <2>2. Shown(msgs) \subseteq TsOf(msgs) \cup Told(msgs) BY <1>1, ShownWithin
  <2> QED BY <1>2, <1>7, <1>11, <2>1, <2>2 DEF SummaryKeepsAll, AccountedAfter
<1>16. FoldedIsSuperseded' BY <1>2 DEF FoldedIsSuperseded
<1> QED BY <1>9, <1>10, <1>12, <1>13, <1>14, <1>15, <1>16 DEF CompactionInv

\* The request of the summary at the limit: the transcript, and a prompt behind it.
LEMMA PromptedIs ==
  ASSUME CompactionInv, AsksForSummary
  PROVE  /\ request' \in Seq(Messages) /\ Len(request') = Len(msgs) + 1
         /\ \A i \in 1..Len(msgs) : request'[i] = msgs[i]
<1> DEFINE p == Message("system", PromptSize, 0, 0, NoCallMade, TRUE, 0, {})
<1>1. clock \in Nat /\ msgs \in Seq(Messages) BY DEF CompactionInv, Typed, Sound
<1>2. p \in Messages BY <1>1, CompactionAssumption DEF Message, Messages
<1>3. request' = Append(msgs, p) BY DEF AsksForSummary
<1> HIDE DEF p
<1> QED BY <1>1, <1>2, <1>3

LEMMA AsksForSummaryKeeps == ASSUME CompactionInv, AsksForSummary PROVE CompactionInv'
<1> DEFINE q == request'
<1>1. /\ clock \in Nat /\ fresh \in BOOLEAN /\ Sound(msgs) /\ msgs \in Seq(Messages)
      /\ said \in SUBSET (1..clock) /\ heads \in SUBSET (1..clock)
      /\ dropped \in SUBSET (1..clock) /\ Len(msgs) \in Nat
      /\ \A i \in 1..Len(msgs) : msgs[i].ts \in 1..clock
  BY DEF CompactionInv, Typed, Sound
<1>2. /\ phase = "step" /\ phase' = "limit"
      /\ UNCHANGED <<msgs, clock, fresh, said, heads, dropped>>
  BY DEF AsksForSummary
<1>3. /\ Len(msgs) >= 1 /\ msgs[Len(msgs)].whole = TRUE
      /\ msgs[Len(msgs)].ts \in said /\ \A t \in said : t <= msgs[Len(msgs)].ts
  BY <1>2 DEF CompactionInv, NewestLast
<1>4. /\ q \in Seq(Messages) /\ Len(q) = Len(msgs) + 1
      /\ \A i \in 1..Len(msgs) : q[i] = msgs[i]
  BY PromptedIs
<1>5. Typed' BY <1>1, <1>2, <1>4 DEF Typed
<1>6. NewestLast' BY <1>2 DEF NewestLast
<1>7. said \subseteq Shown(msgs) \cup heads \cup dropped
  BY DEF CompactionInv, Accounted
<1>8. Accounted'
  <2>1. Shown(msgs)' = Shown(msgs) BY <1>2 DEF Shown, TsOf, Told, Barrier, LatestSummary
  <2> QED BY <1>2, <1>7, <2>1 DEF Accounted
<1>9. Measured'
  <2>1. SummaryTs(msgs)' = SummaryTs(msgs) BY <1>2 DEF SummaryTs, LatestSummary
  <2> QED BY <1>2, <2>1 DEF CompactionInv, Measured
<1>10. LatestSeen'
  <2>1. Max(said) = msgs[Len(msgs)].ts
    <3>1. said \in SUBSET Nat BY <1>1
    <3> QED BY <1>3, <3>1, NewestIsMax
  <2>2. Len(q) - 1 = Len(msgs) /\ Len(msgs) \in 1..Len(msgs) BY <1>1, <1>3, <1>4
  <2>3. q[Len(q) - 1] = msgs[Len(msgs)] BY <1>4, <2>2
  <2> QED BY <1>2, <1>3, <2>1, <2>3 DEF LatestSeen
<1>11. SummaryKeepsAll'
  <2>1. TsOf(request)' = TsOf(q) /\ Told(request)' = Told(q) BY DEF TsOf, Told
  <2>2. \A i \in 1..Len(msgs) : i \in 1..Len(q) BY <1>1, <1>4
  <2> HIDE DEF q
  <2>3. TsOf(msgs) \subseteq TsOf(q) BY <1>1, <1>4, <2>2, InTs
  <2>4. Told(msgs) \subseteq Told(q) BY <1>1, <1>4, <2>2, InTold
  <2>5. Shown(msgs) \subseteq TsOf(msgs) \cup Told(msgs) BY <1>1, ShownWithin
  <2> QED BY <1>2, <1>7, <2>1, <2>3, <2>4, <2>5 DEF SummaryKeepsAll, AccountedAfter
<1>12. FoldedIsSuperseded' BY <1>2 DEF FoldedIsSuperseded
<1> QED BY <1>5, <1>6, <1>8, <1>9, <1>10, <1>11, <1>12 DEF CompactionInv

-----------------------------------------------------------------------------
(* The theorems.                                                           *)

\* Every step keeps the invariant.
LEMMA CompactionStep == CompactionInv /\ [CompactionNext]_compactionVars =>
  CompactionInv'
<1> SUFFICES ASSUME CompactionInv, [CompactionNext]_compactionVars PROVE CompactionInv'
  OBVIOUS
<1>1. ASSUME NEW size \in UserSizes, UserAsks(size) PROVE CompactionInv'
  BY <1>1, UserAsksKeeps
<1>2. CASE SendView BY <1>2, SendViewKeeps
<1>3. CASE Summarized BY <1>3, SummarizedKeeps
<1>4. CASE Lossy BY <1>4, LossyKeeps
<1>5. CASE TurnStops
  <2>1. clock' \in {clock, clock + 1} BY <1>5 DEF TurnStops
  <2> QED BY <1>5, <2>1, IdleKeeps DEF TurnStops
<1>6. ASSUME NEW think \in Thinks, Replies(think) PROVE CompactionInv'
  BY <1>6, RepliesKeeps
<1>7. ASSUME NEW made \in CallsMade, NEW think \in Thinks, NEW ok \in BOOLEAN,
             CallsTool(made, think, ok)
      PROVE  CompactionInv'
  BY <1>7, CallsToolKeeps
<1>8. CASE UNCHANGED compactionVars BY <1>8, StutterKeeps
<1>9. CASE Retries BY <1>9, RetriesKeeps
<1>10. CASE AsksForSummary BY <1>10, AsksForSummaryKeeps
<1> QED
  BY <1>1, <1>2, <1>3, <1>4, <1>5, <1>6, <1>7, <1>8, <1>9, <1>10 DEF CompactionNext

\* The invariant holds of every state.
LEMMA CompactionAlways == CompactionSpec => []CompactionInv
<1>1. CompactionInit => CompactionInv BY CompactionInitially
<1>2. CompactionInv /\ [CompactionNext]_compactionVars => CompactionInv'
  BY CompactionStep
<1> QED BY <1>1, <1>2, PTL DEF CompactionSpec

\* The types of a session under compaction: every message of the transcript has a
\* timestamp that was given.
THEOREM CompactionTyped == CompactionSpec => []CompactionTypeOK
<1>1. CompactionInv => CompactionTypeOK
  <2> SUFFICES ASSUME CompactionInv PROVE CompactionTypeOK OBVIOUS
  <2>1. Typed BY DEF CompactionInv
  <2>2. DOMAIN msgs = 1..Len(msgs) BY <2>1 DEF Typed, Sound
  <2> QED BY <2>1, <2>2 DEF Typed, CompactionTypeOK
<1> QED BY <1>1, CompactionAlways, PTL

\* Whatever was compacted, every request holds the newest message of the session: of
\* BeforeLLM's and of the retry after a context error it is the last, at the limit the
\* last before the prompt.  It is verbatim but for one case: the retry cuts the result
\* of a tool that is larger than its cap.
THEOREM NewestMessageSeen == CompactionSpec => []LatestSeen
<1>1. CompactionInv => LatestSeen BY DEF CompactionInv
<1> QED BY <1>1, CompactionAlways, PTL

\* No message of the session gets lost without a trace: it is in the request, be it
\* BeforeLLM's, the retry or the summary at the limit, or in what the summaries in it
\* stand for, or known as dropped or as a first round kept beside a summary.
THEOREM NothingUnaccounted == CompactionSpec => []SummaryKeepsAll
<1>1. CompactionInv => SummaryKeepsAll BY DEF CompactionInv
<1> QED BY <1>1, CompactionAlways, PTL

\* BeforeLLM folds no result unless a later one makes it obsolete.
THEOREM FoldsAreSuperseded == CompactionSpec => []FoldedIsSuperseded
<1>1. CompactionInv => FoldedIsSuperseded BY DEF CompactionInv
<1> QED BY <1>1, CompactionAlways, PTL

\* Nothing was measured: the estimate decides.
LEMMA UnmeasuredIsEstimated ==
  ASSUME NEW ms, Sound(ms), NEW ns, Alike(ms, ns),
         \A i \in 1..Len(ms) :
           ms[i].kind = "assistant" /\ ms[i].usage > 0 => ms[i].ts < SummaryTs(ms)
  PROVE  /\ LastApplicableUsage(ns) = 0 /\ Threshold(ns) = EstimateTokens(ns)
         /\ ~Forced(ns)
<1>1. /\ ms \in Seq(Messages) /\ ns \in Seq(Messages) /\ Len(ns) = Len(ms)
      /\ DOMAIN ns = 1..Len(ms)
      /\ SummaryTs(ns) = SummaryTs(ms)
  BY AlikeSame DEF Alike
<1>2. SummaryTs(ms) \in Nat
  <2>1. LatestSummary(ms) \in 0..Len(ms) BY <1>1, LatestIs
  <2>2. CASE LatestSummary(ms) = 0 BY <2>2 DEF SummaryTs
  <2>3. CASE LatestSummary(ms) # 0
    <3> DEFINE l == LatestSummary(ms)
    <3>1. l \in 1..Len(ms) BY <1>1, <2>1, <2>3
    <3> HIDE DEF l
    <3>2. ms[l] \in Messages BY <1>1, <3>1, ElementOfSeq
    <3>3. ms[l].ts \in Nat BY <3>2 DEF Messages
    <3> QED BY <2>3, <3>3 DEF SummaryTs, l
  <2> QED BY <2>2, <2>3
<1> DEFINE at == {i \in Responses(ns) : ns[i].usage > 0 /\ ns[i].ts >= SummaryTs(ns)}
<1>3. ASSUME NEW i \in at PROVE FALSE
  <2>1. /\ i \in 1..Len(ms) /\ ns[i].kind = "assistant" /\ ns[i].usage > 0
        /\ ns[i].ts >= SummaryTs(ms)
    BY <1>1, <1>3 DEF Responses
  <2>2. ms[i].kind = "assistant" /\ ms[i].usage > 0 /\ ms[i].ts = ns[i].ts
    BY <2>1 DEF Alike, Like
  <2>3. ms[i].ts < SummaryTs(ms) BY <2>1, <2>2
  <2>4. ms[i].ts \in Nat
    <3>1. ms[i] \in Messages BY <1>1, <2>1, ElementOfSeq
    <3> QED BY <3>1 DEF Messages
  <2> QED BY <1>2, <2>1, <2>2, <2>3, <2>4
<1>4. at = {} BY <1>3
<1>5. LastApplicableUsage(ns) = IF at = {} THEN 0 ELSE Max(at)
  BY DEF LastApplicableUsage
<1> HIDE DEF at
<1>6. LastApplicableUsage(ns) = 0 BY <1>4, <1>5
<1> QED BY <1>6 DEF Threshold, Forced

\* After a summary the history is not compacted again on what the endpoint measured
\* before it.
THEOREM CompactionNotStale == CompactionSpec => NoStaleCompaction
<1>1. ASSUME CompactionInv, CompactionNext, phase = "step", ~UNCHANGED msgs,
             fresh = FALSE
      PROVE  EstimateTokens(View) > Target
  <2> DEFINE q == Strips(Barrier(msgs), KeepReasoning, KeepToolArgs)
             b == Barrier(msgs)
  <2>1. Sound(msgs) /\ Len(msgs) >= 1 BY <1>1 DEF CompactionInv, Typed, NewestLast
  <2>2. ~Fits(View)
    <3>1. ~SendView BY <1>1 DEF SendView
    <3>2. ~TurnStops /\ ~Retries /\ ~AsksForSummary
      BY <1>1 DEF TurnStops, Retries, AsksForSummary
    <3>3. \A size \in UserSizes : ~UserAsks(size) BY <1>1 DEF UserAsks
    <3>4. \A think \in Thinks : ~Replies(think) BY <1>1 DEF Replies, Out
    <3>5. \A made \in CallsMade, think \in Thinks, ok \in BOOLEAN :
            ~CallsTool(made, think, ok)
      BY <1>1 DEF CallsTool
    <3>6. Summarized \/ Lossy BY <1>1, <3>1, <3>2, <3>3, <3>4, <3>5 DEF CompactionNext
    <3> QED BY <3>6 DEF Summarized, Lossy
  <2>3. \A i \in 1..Len(msgs) :
          msgs[i].kind = "assistant" /\ msgs[i].usage > 0 =>
            msgs[i].ts < SummaryTs(msgs)
    BY <1>1 DEF CompactionInv, Measured
  <2>4. ~Forced(msgs)
    <3>1. Alike(msgs, msgs) BY <2>1, AlikeSelf DEF Sound
    <3> QED BY <2>1, <2>3, <3>1, UnmeasuredIsEstimated
  <2>5. Sound(b) /\ SummaryTs(b) = SummaryTs(msgs)
        /\ \A i \in 1..Len(b) : \E j \in 1..Len(msgs) : b[i] = msgs[j]
    BY <2>1, BarrierIs
  <2>6. Alike(b, q) BY <2>1, SendMeans
  <2> HIDE DEF b, q
  <2>7. \A i \in 1..Len(b) :
          b[i].kind = "assistant" /\ b[i].usage > 0 => b[i].ts < SummaryTs(b)
    BY <2>3, <2>5
  <2>8. Threshold(q) = EstimateTokens(q) BY <2>5, <2>6, <2>7, UnmeasuredIsEstimated
  <2>9. EstimateTokens(q) \in Nat /\ Target \in Nat BY <2>6, EstimateIsNat DEF Alike
  <2>10. View = q BY DEF View, q
  <2>11. ~(Threshold(q) <= Target) BY <2>2, <2>4, <2>10 DEF Fits
  <2> QED BY <2>8, <2>9, <2>10, <2>11
<1>2. CompactionInv /\ [CompactionNext]_compactionVars =>
        [phase = "step" /\ ~UNCHANGED msgs =>
           fresh \/ EstimateTokens(View) > Target]_compactionVars
  <2> SUFFICES ASSUME CompactionInv, CompactionNext, phase = "step", ~UNCHANGED msgs,
                      ~fresh
               PROVE  EstimateTokens(View) > Target
    OBVIOUS
  <2>1. fresh = FALSE BY DEF CompactionInv, Typed
  <2> QED BY <1>1, <2>1
<1> QED BY <1>2, CompactionAlways, PTL DEF CompactionSpec, NoStaleCompaction

-----------------------------------------------------------------------------
(* What the strips make of a message, and what it depends on.              *)

\* The responses after the p-th message.
Later(ms, p) == {j \in Responses(ms) : j > p}

\* They are finitely many, no more than there are responses.
LEMMA LaterIs ==
  ASSUME NEW ms \in Seq(Messages), NEW p
  PROVE  /\ Responses(ms) \in SUBSET (1..Len(ms)) /\ Len(ms) \in Nat
         /\ IsFiniteSet(Responses(ms)) /\ Cardinality(Responses(ms)) \in Nat
         /\ IsFiniteSet(Later(ms, p)) /\ Cardinality(Later(ms, p)) \in Nat
         /\ Cardinality(Later(ms, p)) <= Cardinality(Responses(ms))
<1>1. Responses(ms) \in SUBSET (1..Len(ms)) /\ Len(ms) \in Nat BY DEF Responses
<1>2. IsFiniteSet(Responses(ms)) /\ Cardinality(Responses(ms)) \in Nat BY <1>1, UptoIs
<1>3. Later(ms, p) \in SUBSET Responses(ms) BY DEF Later
<1>4. IsFiniteSet(Later(ms, p)) /\ Cardinality(Later(ms, p)) <= Cardinality(Responses(ms))
  BY <1>2, <1>3, FS_Subset
<1> QED BY <1>1, <1>2, <1>4, FS_CardinalityType

\* Later messages have fewer responses after them.
LEMMA LaterFewer ==
  ASSUME NEW ms \in Seq(Messages), NEW p \in Int, NEW q \in Int, p <= q
  PROVE  Cardinality(Later(ms, q)) <= Cardinality(Later(ms, p))
<1>1. ASSUME NEW j \in Later(ms, q) PROVE j \in Later(ms, p)
  <2>1. j > q /\ j \in Responses(ms) BY DEF Later
  <2>2. Responses(ms) \in SUBSET (1..Len(ms)) BY LaterIs
  <2>3. j \in Int /\ j > p BY <2>1, <2>2
  <2> QED BY <2>1, <2>3 DEF Later
<1>2. Later(ms, q) \in SUBSET Later(ms, p) BY <1>1
<1> QED BY <1>2, LaterIs, FS_Subset

\* From one message to the next, a response that is passed is one less.
LEMMA LaterNext ==
  ASSUME NEW ms \in Seq(Messages), NEW p \in Responses(ms)
  PROVE  Cardinality(Later(ms, p - 1)) = Cardinality(Later(ms, p)) + 1
<1>1. p \in 1..Len(ms) /\ p \in Int /\ IsFiniteSet(Later(ms, p)) BY LaterIs
<1>2. p \notin Later(ms, p) /\ p \in Later(ms, p - 1) BY <1>1 DEF Later
<1>3. ASSUME NEW j PROVE j \in Later(ms, p - 1) <=> (j \in Later(ms, p) \/ j = p)
  <2>1. j \in Responses(ms) => j \in Int BY LaterIs
  <2>2. j \in Int => (j > p - 1 <=> j > p \/ j = p) BY <1>1
  <2> QED BY <1>2, <2>1, <2>2 DEF Later
<1>4. Later(ms, p - 1) = Later(ms, p) \cup {p} BY <1>3
<1> QED BY <1>1, <1>2, <1>4, FS_AddElement

\* The n latest responses are those with fewer than n after them.
LEMMA LatestAre ==
  ASSUME NEW ms \in Seq(Messages), NEW n \in Nat, NEW i
  PROVE  i \in LatestResponses(ms, n) <=>
           i \in Responses(ms) /\ Cardinality(Later(ms, i)) < n
<1> SUFFICES ASSUME i \in Responses(ms)
             PROVE  i \in LatestResponses(ms, n) <=> Cardinality(Later(ms, i)) < n
  BY DEF LatestResponses
<1>1. i \in Int BY LaterIs
<1>2. ASSUME NEW j \in Responses(ms) PROVE j >= i <=> j > i - 1
  <2>1. j \in Int BY LaterIs
  <2> QED BY <1>1, <2>1
<1>3. {j \in Responses(ms) : j >= i} = Later(ms, i - 1) BY <1>2 DEF Later
<1>4. i \in LatestResponses(ms, n) <=> Cardinality(Later(ms, i - 1)) <= n
  BY <1>3 DEF LatestResponses
<1>5. Cardinality(Later(ms, i - 1)) = Cardinality(Later(ms, i)) + 1 BY LaterNext
<1>6. Cardinality(Later(ms, i)) \in Nat BY LaterIs
<1> QED BY <1>4, <1>5, <1>6

\* windowStartOf: a message is before the start if n responses come after it.
LEMMA WindowStartIs ==
  ASSUME NEW ms \in Seq(Messages), NEW n \in Nat, NEW p \in 1..Len(ms)
  PROVE  p < WindowStart(ms, n) <=> Cardinality(Later(ms, p)) >= n
<1> DEFINE R == Responses(ms)
           c == Cardinality(Later(ms, p))
<1>1. /\ R \in SUBSET (1..Len(ms)) /\ Len(ms) \in Nat /\ Cardinality(R) \in Nat
      /\ c \in Nat /\ c <= Cardinality(R)
  BY LaterIs
<1>2. CASE n = 0
  <2>1. WindowStart(ms, n) = Len(ms) + 1 BY <1>2 DEF WindowStart
  <2> QED BY <1>1, <1>2, <2>1
<1>3. CASE n > 0 /\ Cardinality(R) < n
  <2>1. n # 0 BY <1>3
  <2>2. WindowStart(ms, n) = 1 BY <1>3, <2>1 DEF WindowStart
  <2>3. ~(c >= n) BY <1>1, <1>3
  <2> QED BY <2>2, <2>3
<1>4. CASE n > 0 /\ ~(Cardinality(R) < n)
  <2> DEFINE L == LatestResponses(ms, n)
             w == WindowStart(ms, n)
  <2>1. PICK i \in R : Cardinality(Later(ms, i)) = n - 1
    <3>1. Cardinality(R) - n + 1 \in 1..Cardinality(R) BY <1>1, <1>4
    <3>2. PICK i \in R : Cardinality(Upto(R, i)) = Cardinality(R) - n + 1
      BY <1>1, <3>1, KthExists
    <3>3. IsFiniteSet(R) BY LaterIs
    <3>4. Upto(R, i) \in SUBSET R /\ R \ Upto(R, i) = Later(ms, i)
      <4>1. ASSUME NEW j \in R PROVE ~(j <= i) <=> j > i
        <5>1. j \in Int /\ i \in Int BY <1>1
        <5> QED BY <5>1
      <4> QED BY <4>1 DEF Upto, Later
    <3>5. R \cap Upto(R, i) = Upto(R, i) BY <3>4
    <3>6. Cardinality(R \ Upto(R, i)) = Cardinality(R) - Cardinality(R \cap Upto(R, i))
      BY <3>3, FS_Difference
    <3>7. Cardinality(Later(ms, i)) = Cardinality(R) - Cardinality(Upto(R, i))
      BY <3>4, <3>5, <3>6, Zenon
    <3> HIDE DEF R
    <3> QED BY <1>1, <3>2, <3>7
  <2>2. i \in L
    <3>1. n - 1 < n OBVIOUS
    <3> QED BY <2>1, <3>1, LatestAre
  <2>3. L \subseteq Nat
    <3>1. L \subseteq R BY DEF LatestResponses
    <3>2. \A j \in R : j \in Nat BY <1>1
    <3> HIDE DEF L, R
    <3> QED BY <3>1, <3>2
  <2>4. n # 0 BY <1>4
  <2>5. w = CHOOSE j \in L : \A k \in L : j <= k BY <1>4, <2>4 DEF WindowStart
  <2>6. \E j \in L : \A k \in L : j <= k
    <3>1. L # {} BY <2>2
    <3> HIDE DEF L
    <3> QED BY <2>3, <3>1, LeastNumber
  <2>7. w \in L /\ \A k \in L : w <= k
    <3> HIDE DEF L, w
    <3> QED BY <2>5, <2>6, Zenon
  <2>8. w \in R /\ Cardinality(Later(ms, w)) < n
    <3> HIDE DEF w
    <3> QED BY <2>7, LatestAre
  <2>9. w <= i /\ w \in 1..Len(ms) /\ i \in 1..Len(ms) BY <1>1, <2>1, <2>2, <2>7, <2>8
  <2> HIDE DEF L, w
  <2>10. Cardinality(Later(ms, w)) = n - 1
    <3>1. w \in Int /\ i \in Int BY <2>9
    <3>2. Cardinality(Later(ms, i)) <= Cardinality(Later(ms, w))
      BY <2>9, <3>1, LaterFewer
    <3>3. Cardinality(Later(ms, w)) \in Nat BY LaterIs
    <3> QED BY <2>1, <2>8, <3>2, <3>3
  <2>11. Cardinality(Later(ms, w - 1)) = n BY <2>8, <2>10, LaterNext
  <2>12. CASE p < w
    <3>1. p \in Int /\ w - 1 \in Int /\ p <= w - 1 BY <2>9, <2>12
    <3>2. Cardinality(Later(ms, w - 1)) <= c BY <3>1, LaterFewer
    <3> QED BY <2>11, <2>12, <3>2 DEF w
  <2>13. CASE ~(p < w)
    <3>1. p \in Int /\ w \in Int /\ w <= p BY <2>9, <2>13
    <3>2. c <= Cardinality(Later(ms, w)) BY <3>1, LaterFewer
    <3>3. ~(c >= n) BY <1>1, <2>10, <3>2
    <3> QED BY <2>13, <3>3 DEF w
  <2> QED BY <2>12, <2>13
<1> QED BY <1>2, <1>3, <1>4

\* A set that can be shifted into another is no larger.
LEMMA CardShift ==
  ASSUME NEW S, NEW T, NEW d \in Int, IsFiniteSet(S), IsFiniteSet(T),
         \A j \in S : j \in Int /\ j + d \in T
  PROVE  Cardinality(S) <= Cardinality(T)
<1> DEFINE f == [j \in S |-> j + d]
<1>1. f \in [S -> T] OBVIOUS
<1>2. \A j, k \in S : f[j] = f[k] => j = k
  <2> TAKE j, k \in S
  <2>1. j \in Int /\ k \in Int /\ f[j] = j + d /\ f[k] = k + d OBVIOUS
  <2> HIDE DEF f
  <2> QED BY <2>1
<1> HIDE DEF f
<1>3. f \in Injection(S, T) BY <1>1, <1>2 DEF Injection, IsInjective
<1>4. \E g : g \in Injection(S, T) BY <1>3
<1> QED BY <1>4, FS_Injection

\* When the strips fold a text, fold the arguments and cut them.
TextFolds(ms, n, i) ==
  \/ /\ Is(ms[i], "tool", "read") /\ i < WindowStart(ms, n)
     /\ ReadAgain(ms, i) \/ WrittenAfter(ms, i)
  \/ Is(ms[i], "tool", "shell") /\ RunAgain(ms, WindowStart(ms, n), i - 1)

ArgsFold(ms, n, i) ==
  \/ Is(ms[i], "assistant", "write") /\ i < WindowStart(ms, n) /\ WrittenAfter(ms, i)
  \/ RunAgain(ms, WindowStart(ms, n), i)

ArgsCut(ms, n, i) == i \notin LatestResponses(ms, n) /\ Is(ms[i], "assistant", "write")

\* The sizes of a message after the strips.
StripsTo(ms, r, n, i, m) ==
  /\ m.think = IF i \in LatestResponses(ms, r) THEN Smaller(ms[i].think, ReasoningCap) ELSE 0
  /\ m.text = IF TextFolds(ms, n, i) THEN Marker ELSE ms[i].text
  /\ m.whole = IF TextFolds(ms, n, i) THEN FALSE ELSE ms[i].whole
  /\ m.args = IF ArgsFold(ms, n, i) THEN Marker
              ELSE IF ArgsCut(ms, n, i) THEN Smaller(ms[i].args, ArgsCap) ELSE ms[i].args

\* Two sizes of a message and what it is, as one strip leaves them.
Sizes(m, text, think, args, whole) ==
  m.text = text /\ m.think = think /\ m.args = args /\ m.whole = whole

\* A folded result keeps its reasoning and arguments,
LEMMA FoldedSizes ==
  ASSUME NEW m \in Messages
  PROVE  /\ Folded(m) \in Messages /\ Folded(m).kind = m.kind /\ Folded(m).call = m.call
         /\ Sizes(Folded(m), Marker, m.think, m.args, FALSE)
BY StripAssumption DEF Folded, Messages, Sizes

\* one whose arguments change the rest,
LEMMA ArgsSizes ==
  ASSUME NEW m \in Messages, NEW v \in Nat
  PROVE  /\ [m EXCEPT !.args = v] \in Messages /\ [m EXCEPT !.args = v].kind = m.kind
         /\ [m EXCEPT !.args = v].call = m.call
         /\ Sizes([m EXCEPT !.args = v], m.text, m.think, v, m.whole)
BY DEF Messages, Sizes

\* and one whose reasoning changes.
LEMMA ThinkSizes ==
  ASSUME NEW m \in Messages, NEW v \in Nat
  PROVE  /\ [m EXCEPT !.think = v] \in Messages /\ [m EXCEPT !.think = v].kind = m.kind
         /\ [m EXCEPT !.think = v].call = m.call
         /\ Sizes([m EXCEPT !.think = v], m.text, v, m.args, m.whole)
BY DEF Messages, Sizes

\* The strips, message by message.
LEMMA StripsAre ==
  ASSUME NEW ms \in Seq(Messages), NEW r, NEW n, NEW i \in 1..Len(ms)
  PROVE  StripsTo(ms, r, n, i, Strips(ms, r, n)[i])
<1> DEFINE thoughts == LatestResponses(ms, r)
           latest == LatestResponses(ms, n)
           start == WindowStart(ms, n)
           s1(k) == StripReasoning(thoughts, k, ms[k])
           s2(k) == StripToolArgs(latest, k, s1(k))
           s3(k) == DedupRead(ms, start, k, s2(k))
           s4(k) == FoldRead(ms, start, k, s3(k))
           s5(k) == FoldWrite(ms, start, k, s4(k))
           s6(k) == DedupShell(ms, start, k, s5(k))
           out == [k \in DOMAIN ms |-> s6(k)]
           think == IF i \in thoughts THEN Smaller(ms[i].think, ReasoningCap) ELSE 0
           cut == IF ArgsCut(ms, n, i) THEN Smaller(ms[i].args, ArgsCap) ELSE ms[i].args
           text == ms[i].text
           whole == ms[i].whole
           reads == /\ Is(ms[i], "tool", "read") /\ i < start
                    /\ ReadAgain(ms, i) \/ WrittenAfter(ms, i)
           writes == Is(ms[i], "assistant", "write") /\ i < start /\ WrittenAfter(ms, i)
           Same(m) == m \in Messages /\ m.kind = ms[i].kind /\ m.call = ms[i].call
<1>1. Strips(ms, r, n) = out \o <<>> BY DEF Strips
<1>2. DOMAIN ms = 1..Len(ms) /\ Len(ms) \in Nat OBVIOUS
<1>3. Marker \in Nat /\ ReasoningCap \in Nat /\ ArgsCap \in Nat BY StripAssumption
<1>4. /\ ms[i] \in Messages /\ text \in Nat /\ ms[i].think \in Nat /\ ms[i].args \in Nat
      /\ think \in Nat /\ cut \in Nat
  <2>1. ms[i] \in Messages BY ElementOfSeq
  <2>2. text \in Nat /\ ms[i].think \in Nat /\ ms[i].args \in Nat BY <2>1 DEF Messages
  <2> QED BY <1>3, <2>1, <2>2 DEF Smaller
<1> HIDE DEF thoughts, text, whole
<1>5. Same(s1(i)) /\ Sizes(s1(i), text, think, ms[i].args, whole)
  <2>1. s1(i) = [ms[i] EXCEPT !.think = think] BY DEF StripReasoning
  <2> HIDE DEF s1, think
  <2>2. Same(s1(i)) /\ Sizes(s1(i), ms[i].text, think, ms[i].args, ms[i].whole)
    BY <1>4, <2>1, ThinkSizes
  <2> QED BY <2>2 DEF text, whole
<1> HIDE DEF s1, think
<1>6. Same(s2(i)) /\ Sizes(s2(i), text, think, cut, whole)
  <2>1. Is(s1(i), "assistant", "write") <=> Is(ms[i], "assistant", "write")
    BY <1>5 DEF Is
  <2>2. CASE ArgsCut(ms, n, i)
    <3>1. s2(i) = [s1(i) EXCEPT !.args = Smaller(s1(i).args, ArgsCap)]
      BY <2>1, <2>2 DEF StripToolArgs, ArgsCut
    <3>2. s1(i).args = ms[i].args BY <1>5 DEF Sizes
    <3>3. s2(i) = [s1(i) EXCEPT !.args = cut] BY <2>2, <3>1, <3>2
    <3> HIDE DEF s2, cut
    <3>4. /\ [s1(i) EXCEPT !.args = cut] \in Messages
          /\ [s1(i) EXCEPT !.args = cut].kind = s1(i).kind
          /\ [s1(i) EXCEPT !.args = cut].call = s1(i).call
          /\ Sizes([s1(i) EXCEPT !.args = cut], s1(i).text, s1(i).think, cut, s1(i).whole)
      BY <1>4, <1>5, ArgsSizes
    <3>5. s1(i).text = text /\ s1(i).think = think /\ s1(i).whole = whole
      BY <1>5 DEF Sizes
    <3> QED BY <1>5, <3>3, <3>4, <3>5
  <2>3. CASE ~ArgsCut(ms, n, i)
    <3>1. s2(i) = s1(i) BY <2>1, <2>3 DEF StripToolArgs, ArgsCut
    <3>2. cut = ms[i].args BY <2>3
    <3> HIDE DEF s2, cut
    <3> QED BY <1>5, <3>1, <3>2
  <2> QED BY <2>2, <2>3
<1> HIDE DEF s2, cut
<1> DEFINE again == Is(ms[i], "tool", "read") /\ i < start /\ ReadAgain(ms, i)
           after == Is(ms[i], "tool", "read") /\ i < start /\ WrittenAfter(ms, i)
<1>7. Same(s3(i)) /\ Sizes(s3(i), IF again THEN Marker ELSE text, think, cut,
                           IF again THEN FALSE ELSE whole)
  <2>1. Is(s2(i), "tool", "read") <=> Is(ms[i], "tool", "read") BY <1>6 DEF Is
  <2>2. CASE again
    <3>1. s3(i) = Folded(s2(i)) BY <2>1, <2>2 DEF DedupRead
    <3> HIDE DEF s3, again
    <3>2. /\ Same(s3(i)) /\ Sizes(s3(i), Marker, s2(i).think, s2(i).args, FALSE)
      BY <1>6, <3>1, FoldedSizes
    <3>3. s2(i).think = think /\ s2(i).args = cut BY <1>6 DEF Sizes
    <3> QED BY <2>2, <3>2, <3>3
  <2>3. CASE ~again
    <3>1. s3(i) = s2(i) BY <2>1, <2>3 DEF DedupRead
    <3> HIDE DEF s3, again
    <3> QED BY <1>6, <2>3, <3>1
  <2> QED BY <2>2, <2>3
<1> HIDE DEF s3
<1>8. Same(s4(i)) /\ Sizes(s4(i), IF reads THEN Marker ELSE text, think, cut,
                           IF reads THEN FALSE ELSE whole)
  <2>1. Is(s3(i), "tool", "read") <=> Is(ms[i], "tool", "read") BY <1>7 DEF Is
  <2>2. reads <=> again \/ after OBVIOUS
  <2>3. CASE after
    <3>1. s4(i) = Folded(s3(i)) BY <2>1, <2>3 DEF FoldRead
    <3> HIDE DEF s4, again, after, reads
    <3>2. /\ Same(s4(i)) /\ Sizes(s4(i), Marker, s3(i).think, s3(i).args, FALSE)
      BY <1>7, <3>1, FoldedSizes
    <3>3. s3(i).think = think /\ s3(i).args = cut BY <1>7 DEF Sizes
    <3> QED BY <2>2, <2>3, <3>2, <3>3
  <2>4. CASE ~after
    <3>1. s4(i) = s3(i) BY <2>1, <2>4 DEF FoldRead
    <3>2. reads <=> again BY <2>2, <2>4
    <3> HIDE DEF s4, again, after, reads
    <3> QED BY <1>7, <3>1, <3>2
  <2> QED BY <2>3, <2>4
<1> HIDE DEF s4, again, after
<1>9. Same(s5(i)) /\ Sizes(s5(i), IF reads THEN Marker ELSE text, think,
                           IF writes THEN Marker ELSE cut, IF reads THEN FALSE ELSE whole)
  <2>1. Is(s4(i), "assistant", "write") <=> Is(ms[i], "assistant", "write")
    BY <1>8 DEF Is
  <2>2. CASE writes
    <3>1. s5(i) = [s4(i) EXCEPT !.args = Marker] BY <2>1, <2>2 DEF FoldWrite
    <3> HIDE DEF s5, writes, reads
    <3>2. Same(s5(i)) /\ Sizes(s5(i), s4(i).text, s4(i).think, Marker, s4(i).whole)
      BY <1>3, <1>8, <3>1, ArgsSizes
    <3>3. /\ s4(i).text = (IF reads THEN Marker ELSE text) /\ s4(i).think = think
          /\ s4(i).whole = IF reads THEN FALSE ELSE whole
      BY <1>8 DEF Sizes
    <3> QED BY <2>2, <3>2, <3>3
  <2>3. CASE ~writes
    <3>1. s5(i) = s4(i) BY <2>1, <2>3 DEF FoldWrite
    <3> HIDE DEF s5, writes, reads
    <3> QED BY <1>8, <2>3, <3>1
  <2> QED BY <2>2, <2>3
<1> HIDE DEF s5
<1> DEFINE shellText == Is(ms[i], "tool", "shell") /\ RunAgain(ms, start, i - 1)
           shellArgs == RunAgain(ms, start, i)
<1>10. Same(s6(i)) /\ Sizes(s6(i), IF reads \/ shellText THEN Marker ELSE text, think,
                            IF writes \/ shellArgs THEN Marker ELSE cut,
                            IF reads \/ shellText THEN FALSE ELSE whole)
  <2>1. Is(s5(i), "tool", "shell") <=> Is(ms[i], "tool", "shell") BY <1>9 DEF Is
  <2>2. ~(shellArgs /\ shellText)
    <3>1. shellArgs => Is(ms[i], "assistant", "shell") BY Zenon DEF RunAgain
    <3>2. shellText => Is(ms[i], "tool", "shell") OBVIOUS
    <3> HIDE DEF shellArgs, shellText
    <3>3. shellArgs => ms[i].kind = "assistant" BY <3>1 DEF Is
    <3>4. shellText => ms[i].kind = "tool" BY <3>2 DEF Is
    <3> QED BY <3>3, <3>4
  <2>3. CASE shellArgs
    <3>1. s6(i) = [s5(i) EXCEPT !.args = Marker] BY <2>1, <2>2, <2>3 DEF DedupShell
    <3> HIDE DEF s6, writes, reads, shellText, shellArgs
    <3>2. Same(s6(i)) /\ Sizes(s6(i), s5(i).text, s5(i).think, Marker, s5(i).whole)
      BY <1>3, <1>9, <3>1, ArgsSizes
    <3>3. /\ s5(i).text = (IF reads THEN Marker ELSE text) /\ s5(i).think = think
          /\ s5(i).whole = IF reads THEN FALSE ELSE whole
      BY <1>9 DEF Sizes
    <3> QED BY <2>2, <2>3, <3>2, <3>3
  <2>4. CASE ~shellArgs /\ shellText
    <3>1. s6(i) = Folded(s5(i)) BY <2>1, <2>4 DEF DedupShell
    <3> HIDE DEF s6, writes, reads, shellText, shellArgs
    <3>2. /\ Same(s6(i)) /\ Sizes(s6(i), Marker, s5(i).think, s5(i).args, FALSE)
      BY <1>9, <3>1, FoldedSizes
    <3>3. s5(i).think = think /\ s5(i).args = IF writes THEN Marker ELSE cut
      BY <1>9 DEF Sizes
    <3> QED BY <2>4, <3>2, <3>3
  <2>5. CASE ~shellArgs /\ ~shellText
    <3>1. s6(i) = s5(i) BY <2>1, <2>5 DEF DedupShell
    <3> HIDE DEF s6, writes, reads, shellText, shellArgs
    <3> QED BY <1>9, <2>5, <3>1
  <2> QED BY <2>3, <2>4, <2>5
<1>11. /\ (reads \/ shellText <=> TextFolds(ms, n, i))
       /\ (writes \/ shellArgs <=> ArgsFold(ms, n, i))
  BY DEF TextFolds, ArgsFold
<1>12. Strips(ms, r, n)[i] = s6(i)
  <2> HIDE DEF s6
  <2>1. (out \o <<>>)[i] = out[i]
    <3>1. Len(out) = Len(ms) /\ DOMAIN out = DOMAIN ms BY <1>2
    <3> QED BY <1>2, <3>1
  <2> QED BY <1>1, <1>2, <2>1
<1> HIDE DEF s6, writes, reads, shellText, shellArgs
<1>13. StripsTo(ms, r, n, i, s6(i))
  <2>1. /\ s6(i).text = (IF TextFolds(ms, n, i) THEN Marker ELSE text)
        /\ s6(i).think = think
        /\ s6(i).args = (IF ArgsFold(ms, n, i) THEN Marker ELSE cut)
        /\ s6(i).whole = (IF TextFolds(ms, n, i) THEN FALSE ELSE whole)
    BY <1>10, <1>11 DEF Sizes
  <2> QED BY <2>1 DEF StripsTo, think, cut, text, whole, thoughts
<1> QED BY <1>12, <1>13

\* From its k-th message on, ms is a part of ns, d places further.
Within(ms, ns, k, d) ==
  /\ Sound(ms) /\ Sound(ns) /\ d \in Int /\ k \in 1..Len(ms) /\ k + d \in 1..Len(ns)
  /\ Len(ns) >= Len(ms) + d
  /\ \A j \in k..Len(ms) : j + d \in 1..Len(ns) /\ ns[j + d] = ms[j]

\* What comes later there comes later here.
LEMMA LaterMore ==
  ASSUME NEW ms, NEW ns, NEW k, NEW d, Within(ms, ns, k, d), NEW p \in k - 1..k
  PROVE  Cardinality(Later(ms, p)) <= Cardinality(Later(ns, p + d))
<1>1. /\ ms \in Seq(Messages) /\ ns \in Seq(Messages) /\ d \in Int /\ k \in 1..Len(ms)
      /\ Len(ms) \in Nat
  BY DEF Within, Sound
<1>2. IsFiniteSet(Later(ms, p)) /\ IsFiniteSet(Later(ns, p + d)) BY <1>1, LaterIs
<1>3. ASSUME NEW j \in Later(ms, p) PROVE j \in Int /\ j + d \in Later(ns, p + d)
  <2>1. j > p /\ j \in 1..Len(ms) /\ ms[j].kind = "assistant"
    BY <1>1, <1>3 DEF Later, Responses
  <2>2. j \in k..Len(ms) /\ j + d > p + d /\ j \in Int BY <1>1, <2>1
  <2>3. j + d \in 1..Len(ns) /\ ns[j + d] = ms[j] BY <2>2 DEF Within
  <2> QED BY <1>1, <2>1, <2>2, <2>3 DEF Later, Responses
<1> QED BY <1>1, <1>2, <1>3, CardShift

\* So what is folded here is folded there,
LEMMA FoldsMore ==
  ASSUME NEW ms, NEW ns, NEW k, NEW d, Within(ms, ns, k, d), NEW n \in Nat
  PROVE  /\ TextFolds(ms, n, k) => TextFolds(ns, n, k + d)
         /\ ArgsFold(ms, n, k) => ArgsFold(ns, n, k + d)
         /\ k + d \in LatestResponses(ns, n) => k \in LatestResponses(ms, n)
<1>1. /\ Sound(ms) /\ Sound(ns) /\ ms \in Seq(Messages) /\ ns \in Seq(Messages)
      /\ d \in Int /\ k \in 1..Len(ms) /\ k + d \in 1..Len(ns)
      /\ Len(ms) \in Nat /\ Len(ns) \in Nat /\ DOMAIN ms = 1..Len(ms)
      /\ DOMAIN ns = 1..Len(ns) /\ Len(ns) >= Len(ms) + d
  BY DEF Within, Sound
<1>2. \A j \in k..Len(ms) : j + d \in 1..Len(ns) /\ ns[j + d] = ms[j] BY DEF Within
<1>3. ns[k + d] = ms[k] BY <1>1, <1>2
<1>4. ASSUME NEW p \in 1..Len(ms), p \in k - 1..k, p + d \in 1..Len(ns),
             p < WindowStart(ms, n)
      PROVE  p + d < WindowStart(ns, n)
  <2>1. Cardinality(Later(ms, p)) >= n BY <1>1, <1>4, WindowStartIs
  <2>2. Cardinality(Later(ms, p)) <= Cardinality(Later(ns, p + d)) BY <1>4, LaterMore
  <2>3. Cardinality(Later(ms, p)) \in Nat /\ Cardinality(Later(ns, p + d)) \in Nat
    BY <1>1, LaterIs
  <2>4. Cardinality(Later(ns, p + d)) >= n BY <2>1, <2>2, <2>3
  <2> QED BY <1>1, <1>4, <2>4, WindowStartIs
<1>5. k < WindowStart(ms, n) => k + d < WindowStart(ns, n)
  <2>1. k \in k - 1..k BY <1>1
  <2> QED BY <1>1, <1>4, <2>1
<1>6. ReadAgain(ms, k) => ReadAgain(ns, k + d)
  <2> SUFFICES ASSUME NEW j \in 1..Len(ms), j > k, ms[j].kind = "tool",
                      ms[j].call = ms[k].call
               PROVE  ReadAgain(ns, k + d)
    BY <1>1 DEF ReadAgain
  <2>1. j \in k..Len(ms) /\ j + d > k + d BY <1>1
  <2>2. j + d \in 1..Len(ns) /\ ns[j + d] = ms[j] BY <1>2, <2>1
  <2> QED BY <1>1, <1>3, <2>1, <2>2 DEF ReadAgain
<1>7. WrittenAfter(ms, k) => WrittenAfter(ns, k + d)
  <2> SUFFICES ASSUME NEW w \in 1..Len(ms), w > k, Is(ms[w], "assistant", "write"),
                      ms[w].call.on = ms[k].call.on,
                      ~(w < Len(ms) /\ ms[w + 1].kind = "tool" /\ ~ms[w + 1].ok)
               PROVE  WrittenAfter(ns, k + d)
    BY <1>1, Zenon DEF WrittenAfter
  <2>1. w \in k..Len(ms) /\ w + d > k + d /\ w \in Int BY <1>1
  <2>2. w + d \in 1..Len(ns) /\ ns[w + d] = ms[w] BY <1>2, <2>1
  <2>3. ms[w].kind = "assistant" /\ ms[w].call.name = "write" BY DEF Is
  <2>4. w + 1 \in 1..Len(ms) /\ ms[w + 1].kind = "tool" BY <1>1, <2>3, CallAnswered
  <2>5. w + 1 \in k..Len(ms) /\ w < Len(ms) /\ w + 1 + d = w + d + 1 BY <1>1, <2>1, <2>4
  <2>6. ns[w + d + 1] = ms[w + 1]
    <3>1. ns[w + 1 + d] = ms[w + 1] BY <1>2, <2>5
    <3> QED BY <2>5, <3>1
  <2>7. ns[w + d + 1].ok BY <2>4, <2>5, <2>6
  <2>8. Is(ns[w + d], "assistant", "write") /\ ns[w + d].call.on = ns[k + d].call.on
    BY <1>3, <2>2
  <2> QED BY <1>1, <2>1, <2>2, <2>7, <2>8, Zenon DEF WrittenAfter
<1>8. ASSUME NEW p \in 1..Len(ms), p \in k - 1..k, p + d \in 1..Len(ns),
             ns[p + d].kind = ms[p].kind, ns[p + d].call = ms[p].call,
             RunAgain(ms, WindowStart(ms, n), p)
      PROVE  RunAgain(ns, WindowStart(ns, n), p + d)
  <2>1. PICK j \in 1..Len(ms) : /\ j > p /\ Is(ms[j], "assistant", "shell")
                                /\ ms[j].call.on = ms[p].call.on
    BY <1>1, <1>8, Zenon DEF RunAgain
  <2>2. Is(ms[p], "assistant", "shell") /\ p < WindowStart(ms, n) BY <1>8, Zenon DEF RunAgain
  <2>3. p + d < WindowStart(ns, n) BY <1>4, <1>8, <2>2
  <2>4. Is(ns[p + d], "assistant", "shell") BY <1>8, <2>2 DEF Is
  <2>5. j \in k..Len(ms) /\ j + d > p + d
    <3>1. j \in Int /\ p \in Int /\ j > p /\ p >= k - 1 /\ j <= Len(ms) BY <1>8, <2>1
    <3> QED BY <1>1, <3>1
  <2>6. j + d \in 1..Len(ns) /\ ns[j + d] = ms[j] BY <1>2, <2>5
  <2>7. Is(ns[j + d], "assistant", "shell") /\ ns[j + d].call.on = ns[p + d].call.on
    BY <1>8, <2>1, <2>6
  <2> QED BY <1>1, <2>3, <2>4, <2>5, <2>6, <2>7, Zenon DEF RunAgain
<1>9. RunAgain(ms, WindowStart(ms, n), k) => RunAgain(ns, WindowStart(ns, n), k + d)
  <2>1. k \in k - 1..k BY <1>1
  <2>2. ns[k + d].kind = ms[k].kind /\ ns[k + d].call = ms[k].call BY <1>3
  <2> QED BY <1>1, <1>8, <2>1, <2>2
<1>10. ASSUME Is(ms[k], "tool", "shell"), RunAgain(ms, WindowStart(ms, n), k - 1)
       PROVE  RunAgain(ns, WindowStart(ns, n), (k + d) - 1)
  <2>1. ms[k].kind = "tool" /\ ns[k + d].kind = "tool" /\ ns[k + d].call = ms[k].call
    BY <1>3, <1>10 DEF Is
  <2>2. k > 1 /\ ms[k - 1].kind = "assistant" /\ ms[k - 1].call = ms[k].call
    BY <1>1, <2>1 DEF Sound, Answering
  <2>3. /\ k + d > 1 /\ ns[(k + d) - 1].kind = "assistant"
        /\ ns[(k + d) - 1].call = ns[k + d].call
    BY <1>1, <2>1 DEF Sound, Answering
  <2>4. /\ k - 1 \in 1..Len(ms) /\ k - 1 \in k - 1..k /\ k - 1 + d \in 1..Len(ns)
        /\ k - 1 + d = (k + d) - 1
    BY <1>1, <2>2, <2>3
  <2>5. ns[k - 1 + d].kind = ms[k - 1].kind /\ ns[k - 1 + d].call = ms[k - 1].call
    BY <2>1, <2>2, <2>3, <2>4
  <2>6. RunAgain(ns, WindowStart(ns, n), k - 1 + d) BY <1>8, <1>10, <2>4, <2>5
  <2> QED BY <2>4, <2>6
<1>11. k + d \in LatestResponses(ns, n) => k \in LatestResponses(ms, n)
  <2> SUFFICES ASSUME k + d \in Responses(ns), Cardinality(Later(ns, k + d)) < n
               PROVE  k \in LatestResponses(ms, n)
    BY <1>1, LatestAre
  <2>1. k \in Responses(ms) BY <1>1, <1>3 DEF Responses
  <2>2. k \in k - 1..k BY <1>1
  <2>3. Cardinality(Later(ms, k)) <= Cardinality(Later(ns, k + d)) BY <2>2, LaterMore
  <2>4. Cardinality(Later(ms, k)) \in Nat /\ Cardinality(Later(ns, k + d)) \in Nat
    BY <1>1, LaterIs
  <2>5. Cardinality(Later(ms, k)) < n BY <2>3, <2>4
  <2> QED BY <1>1, <2>1, <2>5, LatestAre
<1>12. TextFolds(ms, n, k) => TextFolds(ns, n, k + d)
  <2>1. CASE /\ Is(ms[k], "tool", "read") /\ k < WindowStart(ms, n)
             /\ ReadAgain(ms, k) \/ WrittenAfter(ms, k)
    <3>1. Is(ns[k + d], "tool", "read") BY <1>3, <2>1
    <3>2. k + d < WindowStart(ns, n) BY <1>5, <2>1
    <3>3. ReadAgain(ns, k + d) \/ WrittenAfter(ns, k + d) BY <1>6, <1>7, <2>1
    <3> QED BY <3>1, <3>2, <3>3, Zenon DEF TextFolds
  <2>2. CASE Is(ms[k], "tool", "shell") /\ RunAgain(ms, WindowStart(ms, n), k - 1)
    <3>1. Is(ns[k + d], "tool", "shell") BY <1>3, <2>2
    <3>2. RunAgain(ns, WindowStart(ns, n), (k + d) - 1) BY <1>10, <2>2
    <3> QED BY <3>1, <3>2, Zenon DEF TextFolds
  <2> QED BY <2>1, <2>2, Zenon DEF TextFolds
<1>13. ArgsFold(ms, n, k) => ArgsFold(ns, n, k + d)
  BY <1>3, <1>5, <1>7, <1>9, Zenon DEF ArgsFold
<1> QED BY <1>11, <1>12, <1>13

\* and if both end together, the other way round too: the strips leave the same.
LEMMA StripsSame ==
  ASSUME NEW ms, NEW ns, NEW k, NEW d, Within(ms, ns, k, d), Len(ns) = Len(ms) + d,
         NEW r \in Nat, NEW n \in Nat
  PROVE  Weight(Strips(ns, r, n)[k + d]) = Weight(Strips(ms, r, n)[k])
<1>1. /\ Sound(ms) /\ Sound(ns) /\ ms \in Seq(Messages) /\ ns \in Seq(Messages)
      /\ d \in Int /\ k \in 1..Len(ms) /\ k + d \in 1..Len(ns)
      /\ Len(ms) \in Nat /\ Len(ns) \in Nat
  BY DEF Within, Sound
<1>2. ns[k + d] = ms[k]
  <2>1. k \in k..Len(ms) BY <1>1
  <2> QED BY <2>1 DEF Within
<1> DEFINE e == 0 - d
<1>3. e \in Int /\ k + d + e = k /\ Len(ms) >= Len(ns) + e BY <1>1
<1>4. \A j \in k + d..Len(ns) : j + e \in 1..Len(ms) /\ ms[j + e] = ns[j]
  <2> TAKE j \in k + d..Len(ns)
  <2>1. j + e \in k..Len(ms) /\ j + e + d = j /\ j + e \in 1..Len(ms) BY <1>1
  <2>2. ns[j + e + d] = ms[j + e] BY <2>1 DEF Within
  <2> QED BY <2>1, <2>2
<1> HIDE DEF e
<1>5. Within(ns, ms, k + d, e) BY <1>1, <1>3, <1>4 DEF Within
<1>6. ASSUME NEW m \in Nat
      PROVE  /\ TextFolds(ms, m, k) <=> TextFolds(ns, m, k + d)
             /\ ArgsFold(ms, m, k) <=> ArgsFold(ns, m, k + d)
             /\ k \in LatestResponses(ms, m) <=> k + d \in LatestResponses(ns, m)
  <2>1. /\ TextFolds(ms, m, k) => TextFolds(ns, m, k + d)
        /\ ArgsFold(ms, m, k) => ArgsFold(ns, m, k + d)
        /\ k + d \in LatestResponses(ns, m) => k \in LatestResponses(ms, m)
    BY FoldsMore
  <2>2. /\ TextFolds(ns, m, k + d) => TextFolds(ms, m, k + d + e)
        /\ ArgsFold(ns, m, k + d) => ArgsFold(ms, m, k + d + e)
        /\ k + d + e \in LatestResponses(ms, m) => k + d \in LatestResponses(ns, m)
    BY <1>5, FoldsMore
  <2> QED BY <1>3, <2>1, <2>2, Zenon
<1>7. ArgsCut(ms, n, k) <=> ArgsCut(ns, n, k + d) BY <1>2, <1>6 DEF ArgsCut
<1>8. StripsTo(ms, r, n, k, Strips(ms, r, n)[k]) BY <1>1, StripsAre
<1>9. StripsTo(ns, r, n, k + d, Strips(ns, r, n)[k + d]) BY <1>1, StripsAre
<1> DEFINE a == Strips(ms, r, n)[k]
           b == Strips(ns, r, n)[k + d]
<1> HIDE DEF a, b
<1>10. a.think = b.think
  <2>1. a.think = IF k \in LatestResponses(ms, r) THEN Smaller(ms[k].think, ReasoningCap) ELSE 0
    BY <1>8 DEF StripsTo, a
  <2>2. b.think = IF k + d \in LatestResponses(ns, r)
                  THEN Smaller(ns[k + d].think, ReasoningCap) ELSE 0
    BY <1>9 DEF StripsTo, b
  <2> QED BY <1>2, <1>6, <2>1, <2>2, Zenon
<1>11. a.text = b.text
  <2>1. a.text = IF TextFolds(ms, n, k) THEN Marker ELSE ms[k].text
    BY <1>8 DEF StripsTo, a
  <2>2. b.text = IF TextFolds(ns, n, k + d) THEN Marker ELSE ns[k + d].text
    BY <1>9 DEF StripsTo, b
  <2> QED BY <1>2, <1>6, <2>1, <2>2, Zenon
<1>12. a.args = b.args
  <2>1. a.args = IF ArgsFold(ms, n, k) THEN Marker
                 ELSE IF ArgsCut(ms, n, k) THEN Smaller(ms[k].args, ArgsCap) ELSE ms[k].args
    BY <1>8 DEF StripsTo, a
  <2>2. b.args = IF ArgsFold(ns, n, k + d) THEN Marker
                 ELSE IF ArgsCut(ns, n, k + d) THEN Smaller(ns[k + d].args, ArgsCap)
                 ELSE ns[k + d].args
    BY <1>9 DEF StripsTo, b
  <2> QED BY <1>2, <1>6, <1>7, <2>1, <2>2, Zenon
<1> QED BY <1>10, <1>11, <1>12 DEF Weight, a, b

-----------------------------------------------------------------------------
(* Sizes without placeholders.                                             *)

\* What counts of a message besides its placeholders.
PlainText(m) == IF ~m.whole /\ m.text <= Marker THEN 0 ELSE m.text
PlainArgs(m) == IF m.call.name \in {"write", "shell"} /\ m.args <= Marker THEN 0 ELSE m.args

\* It is a message that is no larger.
LEMMA PlainIs ==
  ASSUME NEW m \in Messages
  PROVE  /\ Plain(m) \in Messages /\ Weight(Plain(m)) = PlainText(m) + m.think + PlainArgs(m)
         /\ m.text \in Nat /\ m.think \in Nat /\ m.args \in Nat /\ m.whole \in BOOLEAN
         /\ Weight(m) \in Nat /\ Weight(Plain(m)) \in Nat /\ Weight(Plain(m)) <= Weight(m)
<1> DEFINE t == PlainText(m)
           a == PlainArgs(m)
<1>1. m.text \in Nat /\ m.think \in Nat /\ m.args \in Nat /\ m.whole \in BOOLEAN
  BY DEF Messages
<1>2. Marker \in Nat BY StripAssumption
<1>3. t \in Nat /\ t <= m.text /\ a \in Nat /\ a <= m.args
  BY <1>1, <1>2 DEF PlainText, PlainArgs
<1>4. Plain(m) = [m EXCEPT !.text = t, !.args = a] BY DEF Plain, PlainText, PlainArgs
<1> HIDE DEF t, a
<1>5. /\ [m EXCEPT !.text = t, !.args = a] \in Messages
      /\ [m EXCEPT !.text = t, !.args = a].text = t
      /\ [m EXCEPT !.text = t, !.args = a].args = a
      /\ [m EXCEPT !.text = t, !.args = a].think = m.think
  BY <1>3 DEF Messages
<1>6. /\ Plain(m) \in Messages /\ Plain(m).text = t /\ Plain(m).args = a
      /\ Plain(m).think = m.think
  BY <1>4, <1>5
<1>7. Weight(Plain(m)) = t + m.think + a BY <1>6 DEF Weight
<1>8. Weight(m) = m.text + m.think + m.args BY DEF Weight
<1>9. Weight(Plain(m)) \in Nat /\ Weight(m) \in Nat /\ Weight(Plain(m)) <= Weight(m)
  BY <1>1, <1>3, <1>7, <1>8
<1> QED BY <1>1, <1>6, <1>7, <1>9 DEF t, a

\* Messages of which one has been shortened or folded further.
LEMMA PlainLess ==
  ASSUME NEW m \in Messages, NEW n \in Messages, n.call = m.call, n.think <= m.think,
         (n.text = m.text /\ n.whole = m.whole) \/ (n.text = Marker /\ n.whole = FALSE),
         n.args <= m.args \/ (n.args = Marker /\ m.call.name \in {"write", "shell"})
  PROVE  Weight(Plain(n)) <= Weight(Plain(m))
<1>1. /\ m.text \in Nat /\ m.think \in Nat /\ m.args \in Nat
      /\ n.text \in Nat /\ n.think \in Nat /\ n.args \in Nat /\ Marker \in Nat
  BY PlainIs, StripAssumption
<1>2. PlainText(n) \in Nat /\ PlainText(m) \in Nat /\ PlainText(n) <= PlainText(m)
  BY <1>1 DEF PlainText
<1>3. PlainArgs(n) \in Nat /\ PlainArgs(m) \in Nat /\ PlainArgs(n) <= PlainArgs(m)
  <2>1. CASE m.call.name \in {"write", "shell"} BY <1>1, <2>1 DEF PlainArgs
  <2>2. CASE m.call.name \notin {"write", "shell"} BY <1>1, <2>2 DEF PlainArgs
  <2> QED BY <2>1, <2>2
<1>4. Weight(Plain(n)) = PlainText(n) + n.think + PlainArgs(n) BY PlainIs
<1>5. Weight(Plain(m)) = PlainText(m) + m.think + PlainArgs(m) BY PlainIs
<1> QED BY <1>1, <1>2, <1>3, <1>4, <1>5

\* The message a strip leaves is one of those.
LEMMA StripsPlain ==
  ASSUME NEW ms \in Seq(Messages), NEW r, NEW n, NEW i \in 1..Len(ms)
  PROVE  /\ Strips(ms, r, n)[i] \in Messages /\ Strips(ms, r, n)[i].call = ms[i].call
         /\ Weight(Plain(Strips(ms, r, n)[i])) <= Weight(Plain(ms[i]))
<1> DEFINE q == Strips(ms, r, n)
           s == q[i]
           o == ms[i]
<1>1. q \in Seq(Messages) /\ Len(q) = Len(ms) /\ Like(o, s) BY StripsAlike DEF Alike
<1>2. o \in Messages BY ElementOfSeq
<1>3. s \in Messages
  <2>1. i \in 1..Len(q) BY <1>1
  <2> HIDE DEF q
  <2> QED BY <1>1, <2>1, ElementOfSeq
<1>4. s.call = o.call BY <1>1 DEF Like
<1>5. StripsTo(ms, r, n, i, s) BY StripsAre
<1>6. /\ o.think \in Nat /\ o.args \in Nat /\ ReasoningCap \in Nat /\ ArgsCap \in Nat
  BY <1>2, StripAssumption DEF Messages
<1> HIDE DEF q, s
<1>7. s.think <= o.think
  <2>1. s.think = IF i \in LatestResponses(ms, r) THEN Smaller(o.think, ReasoningCap) ELSE 0
    BY <1>5 DEF StripsTo
  <2> HIDE DEF o
  <2>2. Smaller(o.think, ReasoningCap) <= o.think /\ 0 <= o.think BY <1>6 DEF Smaller
  <2> QED BY <2>1, <2>2
<1>8. (s.text = o.text /\ s.whole = o.whole) \/ (s.text = Marker /\ s.whole = FALSE)
  <2>1. /\ s.text = IF TextFolds(ms, n, i) THEN Marker ELSE o.text
        /\ s.whole = IF TextFolds(ms, n, i) THEN FALSE ELSE o.whole
    BY <1>5 DEF StripsTo
  <2> HIDE DEF o
  <2> QED BY <2>1
<1>9. s.args <= o.args \/ (s.args = Marker /\ o.call.name \in {"write", "shell"})
  <2>1. s.args = IF ArgsFold(ms, n, i) THEN Marker
                 ELSE IF ArgsCut(ms, n, i) THEN Smaller(o.args, ArgsCap) ELSE o.args
    BY <1>5 DEF StripsTo
  <2>2. ArgsFold(ms, n, i) => o.call.name \in {"write", "shell"}
    <3>1. RunAgain(ms, WindowStart(ms, n), i) => Is(o, "assistant", "shell")
      BY Zenon DEF RunAgain
    <3> QED BY <3>1 DEF ArgsFold, Is
  <2> HIDE DEF o
  <2>3. Smaller(o.args, ArgsCap) <= o.args BY <1>6 DEF Smaller
  <2>4. o.args <= o.args BY <1>6
  <2> QED BY <2>1, <2>2, <2>3, <2>4
<1>10. Weight(Plain(s)) <= Weight(Plain(o))
  <2> HIDE DEF o
  <2> QED BY <1>2, <1>3, <1>4, <1>7, <1>8, <1>9, PlainLess
<1> QED BY <1>3, <1>4, <1>10 DEF q, s

\* What comes after a message only folds it further.
LEMMA StripsGrown ==
  ASSUME NEW ms, NEW ns, NEW k, NEW d, Within(ms, ns, k, d), NEW r \in Nat, NEW n \in Nat
  PROVE  Weight(Plain(Strips(ns, r, n)[k + d])) <= Weight(Plain(Strips(ms, r, n)[k]))
<1>1. /\ Sound(ms) /\ Sound(ns) /\ ms \in Seq(Messages) /\ ns \in Seq(Messages)
      /\ d \in Int /\ k \in 1..Len(ms) /\ k + d \in 1..Len(ns)
      /\ Len(ms) \in Nat /\ Len(ns) \in Nat
  BY DEF Within, Sound
<1> DEFINE o == ms[k]
           a == Strips(ms, r, n)[k]
           b == Strips(ns, r, n)[k + d]
<1>2. ns[k + d] = o
  <2>1. k \in k..Len(ms) BY <1>1
  <2> QED BY <2>1 DEF Within
<1>3. o \in Messages BY <1>1, ElementOfSeq
<1>4. a \in Messages /\ a.call = o.call /\ StripsTo(ms, r, n, k, a)
  BY <1>1, StripsPlain, StripsAre
<1>5. b \in Messages /\ b.call = o.call /\ StripsTo(ns, r, n, k + d, b)
  BY <1>1, <1>2, StripsPlain, StripsAre
<1>6. /\ o.think \in Nat /\ o.args \in Nat /\ ReasoningCap \in Nat /\ ArgsCap \in Nat
  BY <1>3, StripAssumption DEF Messages
<1> HIDE DEF a, b
<1>7. b.think <= a.think
  <2>1. a.think = IF k \in LatestResponses(ms, r) THEN Smaller(o.think, ReasoningCap) ELSE 0
    BY <1>4 DEF StripsTo
  <2>2. b.think = IF k + d \in LatestResponses(ns, r) THEN Smaller(o.think, ReasoningCap) ELSE 0
    BY <1>2, <1>5 DEF StripsTo
  <2>3. k + d \in LatestResponses(ns, r) => k \in LatestResponses(ms, r) BY FoldsMore
  <2> HIDE DEF o
  <2>4. Smaller(o.think, ReasoningCap) \in Nat BY <1>6 DEF Smaller
  <2>5. 0 <= Smaller(o.think, ReasoningCap) /\ 0 <= 0
        /\ Smaller(o.think, ReasoningCap) <= Smaller(o.think, ReasoningCap)
    BY <2>4
  <2> QED BY <2>1, <2>2, <2>3, <2>5
<1>8. (b.text = a.text /\ b.whole = a.whole) \/ (b.text = Marker /\ b.whole = FALSE)
  <2>1. /\ a.text = IF TextFolds(ms, n, k) THEN Marker ELSE o.text
        /\ a.whole = IF TextFolds(ms, n, k) THEN FALSE ELSE o.whole
    BY <1>4 DEF StripsTo
  <2>2. /\ b.text = IF TextFolds(ns, n, k + d) THEN Marker ELSE o.text
        /\ b.whole = IF TextFolds(ns, n, k + d) THEN FALSE ELSE o.whole
    BY <1>2, <1>5 DEF StripsTo
  <2>3. TextFolds(ms, n, k) => TextFolds(ns, n, k + d) BY FoldsMore
  <2> HIDE DEF o
  <2> QED BY <2>1, <2>2, <2>3
<1>9. b.args <= a.args \/ (b.args = Marker /\ a.call.name \in {"write", "shell"})
  <2>1. a.args = IF ArgsFold(ms, n, k) THEN Marker
                 ELSE IF ArgsCut(ms, n, k) THEN Smaller(o.args, ArgsCap) ELSE o.args
    BY <1>4 DEF StripsTo
  <2>2. b.args = IF ArgsFold(ns, n, k + d) THEN Marker
                 ELSE IF ArgsCut(ns, n, k + d) THEN Smaller(o.args, ArgsCap) ELSE o.args
    BY <1>2, <1>5 DEF StripsTo
  <2>3. ArgsFold(ms, n, k) => ArgsFold(ns, n, k + d) BY FoldsMore
  <2>4. ArgsFold(ns, n, k + d) => a.call.name \in {"write", "shell"}
    <3>1. RunAgain(ns, WindowStart(ns, n), k + d) => Is(ns[k + d], "assistant", "shell")
      BY Zenon DEF RunAgain
    <3>2. a.call = ns[k + d].call BY <1>2, <1>4
    <3> QED BY <3>1, <3>2 DEF ArgsFold, Is
  <2>5. ArgsCut(ms, n, k) => ArgsCut(ns, n, k + d)
    <3>1. k + d \in LatestResponses(ns, n) => k \in LatestResponses(ms, n) BY FoldsMore
    <3> QED BY <1>2, <3>1 DEF ArgsCut
  <2> HIDE DEF o
  <2>6. /\ Smaller(o.args, ArgsCap) <= o.args /\ o.args <= o.args
        /\ Smaller(o.args, ArgsCap) <= Smaller(o.args, ArgsCap)
    BY <1>6 DEF Smaller
  <2> QED BY <2>1, <2>2, <2>3, <2>4, <2>5, <2>6
<1>10. b.call = a.call BY <1>4, <1>5
<1>11. Weight(Plain(b)) <= Weight(Plain(a))
  BY <1>4, <1>5, <1>7, <1>8, <1>9, <1>10, PlainLess
<1> QED BY <1>11 DEF a, b

-----------------------------------------------------------------------------
(* Sizes of parts.                                                         *)

\* Nothing is summed, or one message more.
LEMMA SizeNext ==
  ASSUME NEW ms \in Seq(Messages), NEW a \in Nat \ {0}, NEW b \in 0..Len(ms)
  PROVE  /\ b < a => Size(ms, a, b) = 0
         /\ b >= a => Size(ms, a, b) = Size(ms, a, b - 1) + Weight(ms[b])
<1>1. PICK g \in [0..b -> Nat] :
           /\ Size(ms, a, b) = g[b]
           /\ \A i \in 0..b : g[i] = IF i < a THEN 0 ELSE g[i - 1] + Weight(ms[i])
  BY SizeStepwise
<1>2. b \in 0..b /\ b \in Nat /\ Len(ms) \in Nat OBVIOUS
<1>3. b < a => Size(ms, a, b) = 0 BY <1>1, <1>2
<1>4. ASSUME b >= a PROVE Size(ms, a, b) = Size(ms, a, b - 1) + Weight(ms[b])
  <2>1. b - 1 \in 0..Len(ms) /\ b - 1 \in Nat BY <1>2, <1>4
  <2>2. PICK h \in [0..b - 1 -> Nat] :
             /\ Size(ms, a, b - 1) = h[b - 1]
             /\ \A i \in 0..b - 1 : h[i] = IF i < a THEN 0 ELSE h[i - 1] + Weight(ms[i])
    BY <2>1, SizeStepwise
  <2> DEFINE P == {i \in Nat : i <= b - 1 => g[i] = h[i]}
  <2>3. 0 \in P
    <3>1. 0 \in 0..b /\ 0 \in 0..b - 1 /\ 0 < a BY <1>2, <2>1
    <3>2. g[0] = 0 /\ h[0] = 0 BY <1>1, <2>2, <3>1
    <3> QED BY <3>2
  <2>4. ASSUME NEW i \in Nat, i \in P PROVE i + 1 \in P
    <3> SUFFICES ASSUME i + 1 <= b - 1 PROVE g[i + 1] = h[i + 1] OBVIOUS
    <3>1. i <= b - 1 /\ i + 1 \in 0..b /\ i + 1 \in 0..b - 1 /\ i + 1 - 1 = i
      BY <1>2, <2>1
    <3>2. g[i] = h[i] BY <2>4, <3>1
    <3>3. g[i + 1] = IF i + 1 < a THEN 0 ELSE g[i + 1 - 1] + Weight(ms[i + 1])
      BY <1>1, <3>1
    <3>4. h[i + 1] = IF i + 1 < a THEN 0 ELSE h[i + 1 - 1] + Weight(ms[i + 1])
      BY <2>2, <3>1
    <3> QED BY <3>1, <3>2, <3>3, <3>4
  <2> HIDE DEF P
  <2>5. Nat \subseteq P BY <2>3, <2>4, SetInduction
  <2>6. g[b - 1] = h[b - 1] BY <2>1, <2>5 DEF P
  <2>7. g[b] = IF b < a THEN 0 ELSE g[b - 1] + Weight(ms[b]) BY <1>1, <1>2
  <2>8. ~(b < a) BY <1>2, <1>4
  <2> QED BY <1>1, <2>2, <2>6, <2>7, <2>8
<1> QED BY <1>3, <1>4

\* A part is no larger than one whose messages are no smaller.
LEMMA SizeCompare ==
  ASSUME NEW ms \in Seq(Messages), NEW ns \in Seq(Messages), NEW d \in Int,
         NEW a \in Nat \ {0}, NEW b \in Nat, b >= a - 1, b <= Len(ms),
         a + d >= 1, b + d <= Len(ns),
         \A j \in a..b : Weight(ms[j]) <= Weight(ns[j + d])
  PROVE  Size(ms, a, b) <= Size(ns, a + d, b + d)
<1>1. /\ Len(ms) \in Nat /\ Len(ns) \in Nat /\ a + d \in Nat \ {0} /\ b - a + 1 \in Nat
  OBVIOUS
<1> DEFINE Ends(k) == Size(ms, a, a - 1 + k) <= Size(ns, a + d, a - 1 + k + d)
           P == {k \in Nat : k <= b - a + 1 => Ends(k)}
<1>2. 0 \in P
  <2>1. a - 1 \in 0..Len(ms) /\ a - 1 + d \in 0..Len(ns) /\ a - 1 < a /\ a - 1 + d < a + d
        /\ a - 1 + 0 = a - 1 /\ a - 1 + 0 + d = a - 1 + d
    BY <1>1
  <2>2. Size(ms, a, a - 1) = 0 BY <2>1, SizeNext
  <2>3. Size(ns, a + d, a - 1 + d) = 0 BY <1>1, <2>1, SizeNext
  <2>4. Ends(0) BY <2>1, <2>2, <2>3
  <2> QED BY <2>4
<1>3. ASSUME NEW k \in Nat, k \in P PROVE k + 1 \in P
  <2> SUFFICES ASSUME k + 1 <= b - a + 1 PROVE Ends(k + 1) OBVIOUS
  <2> DEFINE m == a + k
  <2>1. k <= b - a + 1 /\ Ends(k) BY <1>1, <1>3
  <2>2. /\ m \in 0..Len(ms) /\ m >= a /\ m \in a..b /\ m + d \in 0..Len(ns) /\ m + d >= a + d
        /\ m \in 1..Len(ms) /\ m + d \in 1..Len(ns)
        /\ a - 1 + (k + 1) = m /\ a - 1 + k = m - 1 /\ m - 1 \in 0..Len(ms)
        /\ a - 1 + (k + 1) + d = m + d /\ a - 1 + k + d = m + d - 1 /\ m + d - 1 \in 0..Len(ns)
    BY <1>1
  <2> HIDE DEF m
  <2>3. Size(ms, a, m) = Size(ms, a, m - 1) + Weight(ms[m]) BY <2>2, SizeNext
  <2>4. Size(ns, a + d, m + d) = Size(ns, a + d, m + d - 1) + Weight(ns[m + d])
    BY <1>1, <2>2, SizeNext
  <2>5. Size(ms, a, m - 1) <= Size(ns, a + d, m + d - 1) BY <2>1, <2>2
  <2>6. Weight(ms[m]) <= Weight(ns[m + d]) BY <2>2
  <2>7. Size(ms, a, m - 1) \in Nat /\ Size(ns, a + d, m + d - 1) \in Nat
    BY <1>1, <2>2, SizeIsNat
  <2>8. Weight(ms[m]) \in Nat /\ Weight(ns[m + d]) \in Nat BY <2>2, PlainIs, ElementOfSeq
  <2>9. Size(ms, a, m) <= Size(ns, a + d, m + d)
    BY <2>3, <2>4, <2>5, <2>6, <2>7, <2>8
  <2> QED BY <2>2, <2>9
<1> HIDE DEF P, Ends
<1>4. Nat \subseteq P BY <1>2, <1>3, SetInduction
<1>5. Ends(b - a + 1) BY <1>1, <1>4 DEF P
<1>6. a - 1 + (b - a + 1) = b /\ a - 1 + (b - a + 1) + d = b + d BY <1>1
<1> QED BY <1>5, <1>6 DEF Ends

\* Two parts in a row.
LEMMA SizeSplit ==
  ASSUME NEW ms \in Seq(Messages), NEW a \in Nat \ {0}, NEW b \in Nat, NEW c \in Nat,
         b >= a - 1, b <= c, c <= Len(ms)
  PROVE  /\ Size(ms, a, c) = Size(ms, a, b) + Size(ms, b + 1, c)
         /\ Size(ms, a, b) \in Nat /\ Size(ms, b + 1, c) \in Nat
<1>1. Len(ms) \in Nat /\ b + 1 \in Nat \ {0} /\ c - b \in Nat OBVIOUS
<1> DEFINE Adds(k) == Size(ms, a, b + k) = Size(ms, a, b) + Size(ms, b + 1, b + k)
           P == {k \in Nat : k <= c - b => Adds(k)}
<1>2. b \in 0..Len(ms) /\ c \in 0..Len(ms) BY <1>1
<1>3. Size(ms, a, b) \in Nat /\ Size(ms, b + 1, c) \in Nat BY <1>1, <1>2, SizeIsNat
<1>4. 0 \in P
  <2>1. b + 0 = b /\ b < b + 1 BY <1>1
  <2>2. Size(ms, b + 1, b) = 0 BY <1>1, <1>2, <2>1, SizeNext
  <2>3. Adds(0) BY <1>3, <2>1, <2>2
  <2> QED BY <2>3
<1>5. ASSUME NEW k \in Nat, k \in P PROVE k + 1 \in P
  <2> SUFFICES ASSUME k + 1 <= c - b PROVE Adds(k + 1) OBVIOUS
  <2> DEFINE m == b + k + 1
  <2>1. k <= c - b /\ Adds(k) BY <1>1, <1>5
  <2>2. /\ m \in 0..Len(ms) /\ m >= a /\ m >= b + 1 /\ b + (k + 1) = m /\ b + k = m - 1
        /\ m - 1 \in 0..Len(ms) /\ m \in 1..Len(ms)
    BY <1>1, <1>2
  <2> HIDE DEF m
  <2>3. Size(ms, a, m) = Size(ms, a, m - 1) + Weight(ms[m]) BY <2>2, SizeNext
  <2>4. Size(ms, b + 1, m) = Size(ms, b + 1, m - 1) + Weight(ms[m]) BY <1>1, <2>2, SizeNext
  <2>5. Size(ms, a, m - 1) = Size(ms, a, b) + Size(ms, b + 1, m - 1) BY <2>1, <2>2
  <2>6. Size(ms, a, m - 1) \in Nat /\ Size(ms, b + 1, m - 1) \in Nat
    BY <1>1, <2>2, SizeIsNat
  <2>7. Weight(ms[m]) \in Nat BY <2>2, PlainIs, ElementOfSeq
  <2>8. Size(ms, a, m) = Size(ms, a, b) + Size(ms, b + 1, m)
    BY <1>3, <2>3, <2>4, <2>5, <2>6, <2>7
  <2> QED BY <2>2, <2>8
<1> HIDE DEF P, Adds
<1>6. Nat \subseteq P BY <1>4, <1>5, SetInduction
<1>7. Adds(c - b) /\ b + (c - b) = c BY <1>1, <1>6 DEF P
<1> QED BY <1>3, <1>7 DEF Adds

\* Messages without their placeholders.
LEMMA BareIs ==
  ASSUME NEW ms \in Seq(Messages)
  PROVE  /\ Bare(ms) \in Seq(Messages) /\ Len(Bare(ms)) = Len(ms)
         /\ \A i \in 1..Len(ms) :
              /\ Bare(ms)[i] = Plain(ms[i]) /\ ms[i] \in Messages
              /\ Weight(Bare(ms)[i]) <= Weight(ms[i])
         /\ \A b \in 0..Len(ms) : Size(Bare(ms), 1, b) <= Size(ms, 1, b)
         /\ EstimateTokens(Bare(ms)) <= EstimateTokens(ms)
<1>1. Len(ms) \in Nat /\ DOMAIN ms = 1..Len(ms) OBVIOUS
<1>2. \A i \in 1..Len(ms) : ms[i] \in Messages BY ElementOfSeq
<1>3. Bare(ms) = [i \in 1..Len(ms) |-> Plain(ms[i])] BY <1>1 DEF Bare
<1>4. \A i \in 1..Len(ms) : Plain(ms[i]) \in Messages BY <1>2, PlainIs
<1>5. Bare(ms) \in [1..Len(ms) -> Messages] BY <1>3, <1>4
<1>6. Bare(ms) \in Seq(Messages) /\ Len(Bare(ms)) = Len(ms) BY <1>1, <1>5
<1>7. \A i \in 1..Len(ms) : Bare(ms)[i] = Plain(ms[i]) BY <1>3
<1>8. ASSUME NEW i \in 1..Len(ms) PROVE Weight(Bare(ms)[i]) <= Weight(ms[i])
  BY <1>2, <1>7, PlainIs
<1>9. ASSUME NEW b \in 0..Len(ms) PROVE Size(Bare(ms), 1, b) <= Size(ms, 1, b)
  <2>1. /\ b \in Nat /\ b >= 1 - 1 /\ b <= Len(ms) /\ b <= Len(Bare(ms)) /\ 0 \in Int
        /\ 1 \in Nat \ {0} /\ 1 + 0 >= 1 /\ 1 + 0 = 1 /\ b + 0 = b
    BY <1>1, <1>6
  <2>2. \A j \in 1..b : Weight(Bare(ms)[j]) <= Weight(ms[j + 0])
    <3> TAKE j \in 1..b
    <3>1. j \in 1..Len(ms) /\ j + 0 = j BY <1>1
    <3> QED BY <1>8, <3>1
  <2>3. Size(Bare(ms), 1, b) <= Size(ms, 1 + 0, b + 0)
    BY <1>6, <2>1, <2>2, SizeCompare
  <2> QED BY <2>1, <2>3
<1>10. EstimateTokens(Bare(ms)) <= EstimateTokens(ms)
  <2>1. Len(ms) \in 0..Len(ms) /\ 1 \in Nat \ {0} BY <1>1
  <2>2. Size(Bare(ms), 1, Len(ms)) <= Size(ms, 1, Len(ms)) BY <1>9, <2>1
  <2>3. Size(Bare(ms), 1, Len(ms)) \in Nat /\ Size(ms, 1, Len(ms)) \in Nat
    BY <1>6, <2>1, SizeIsNat
  <2> QED BY <1>6, <2>2, <2>3, CompactionAssumption DEF EstimateTokens
<1> QED BY <1>2, <1>6, <1>7, <1>8, <1>9, <1>10

-----------------------------------------------------------------------------
(* Where the responses of a reduced view come from.                        *)

\* From its k-th message on, out ends as ms does: e places further.
Ends(ms, out, k, e) ==
  \A j \in k..Len(out) : j + e \in 1..Len(ms) /\ out[j] = ms[j + e]

\* trimRecentRounds keeps an end, and perhaps a summary before it.
LEMMA TrimEnds ==
  ASSUME NEW ms, Sound(ms), Len(ms) >= 1
  PROVE  \E e \in Nat :
           /\ Len(TrimRecentRounds(ms)) = Len(ms) - e
           /\ \A k \in 1..Len(TrimRecentRounds(ms)) :
                \/ Ends(ms, TrimRecentRounds(ms), k, e)
                \/ k = 1 /\ TrimRecentRounds(ms)[1].kind = "summary"
<1>1. ms \in Seq(Messages) /\ Len(ms) \in Nat /\ Rounds(ms) \in Nat
  BY StartsAre DEF Sound
<1>2. KeepRecent \in Nat /\ KeepRecent >= 1 BY CompactionAssumption
<1> DEFINE out == TrimRecentRounds(ms)
<1>3. CASE Rounds(ms) <= KeepRecent
  <2>1. out = ms BY <1>1, <1>2, <1>3 DEF TrimRecentRounds
  <2> HIDE DEF out
  <2>2. Len(out) = Len(ms) - 0 BY <1>1, <2>1
  <2>3. \A k \in 1..Len(out) : Ends(ms, out, k, 0) BY <1>1, <2>1 DEF Ends
  <2>4. 0 \in Nat OBVIOUS
  <2> QED BY <2>2, <2>3, <2>4 DEF out
<1>4. CASE Rounds(ms) > KeepRecent
  <2> DEFINE k0 == Rounds(ms) - KeepRecent + 1
             a == StartOf(ms, k0)
             L == LatestSummary(ms)
             q == SubSeq(ms, a, Len(ms))
  <2>1. LatestRounds(ms, KeepRecent) = RoundsFromTo(ms, k0, Rounds(ms))
    BY <1>1, <1>2, <1>4 DEF LatestRounds, Smaller
  <2>2. k0 \in 1..Rounds(ms) /\ k0 \in 1..Rounds(ms) + 1 /\ 1 \in 1..Rounds(ms) + 1 /\ 1 < k0
    BY <1>1, <1>2, <1>4
  <2> HIDE DEF k0
  <2>3. LatestRounds(ms, KeepRecent) = q /\ a \in 1..Len(ms) BY <2>1, <2>2, TailOf
  <2>4. 1 < a
    <3>1. StartOf(ms, 1) < a BY <1>1, <2>2, RoundsOrdered
    <3>2. StartOf(ms, 1) = 1 BY FirstEdge
    <3> HIDE DEF a
    <3> QED BY <3>1, <3>2
  <2>5. L \in 0..Len(ms) /\ (L > 0 => ms[L].kind = "summary") BY <1>1, LatestIs
  <2> HIDE DEF a
  <2>6. /\ q \in Seq(Messages) /\ Len(q) = Len(ms) - a + 1
        /\ \A i \in 1..Len(q) : q[i] = ms[a - 1 + i] /\ a - 1 + i \in 1..Len(ms)
    <3>1. a \in 1..Len(ms) + 1 /\ Len(ms) \in a - 1..Len(ms) BY <1>1, <2>3
    <3> HIDE DEF q
    <3> QED BY <1>1, <3>1, Part DEF q
  <2>7. CASE L > 0 /\ LatestSummary(q) = 0
    <3>1. out = <<ms[L]>> \o q
      <4> HIDE DEF q
      <4> QED BY <1>1, <1>2, <1>4, <2>3, <2>7 DEF TrimRecentRounds, L
    <3> DEFINE one == <<ms[L]>>
    <3>2. one \in Seq(Messages) /\ Len(one) = 1 /\ one[1] = ms[L]
      <4>1. L \in 1..Len(ms) BY <2>5, <2>7
      <4>2. ms[L] \in Messages BY <1>1, <4>1, ElementOfSeq
      <4> HIDE DEF L
      <4> QED BY <4>2
    <3>3. ms[L].kind = "summary" BY <2>5, <2>7
    <3> HIDE DEF one, q, L
    <3>4. out = one \o q BY <3>1 DEF one
    <3> HIDE DEF out
    <3>5. /\ Len(out) = 1 + Len(q) /\ \A i \in 1..1 : out[i] = one[i]
          /\ \A i \in 1..Len(q) : out[1 + i] = q[i]
      <4>1. q \in Seq(Messages) /\ one \in Seq(Messages) BY <2>6, <3>2
      <4>2. /\ Len(out) = Len(one) + Len(q) /\ \A i \in 1..Len(one) : out[i] = one[i]
            /\ \A i \in 1..Len(q) : out[Len(one) + i] = q[i]
        BY <3>4, <4>1, Joined
      <4> QED BY <3>2, <4>2
    <3> DEFINE e == a - 2
    <3>6. e \in Nat /\ Len(out) = Len(ms) - e BY <1>1, <2>3, <2>4, <2>6, <3>5
    <3>7. ASSUME NEW k \in 1..Len(out), k # 1 PROVE Ends(ms, out, k, e)
      <4>1. ASSUME NEW j \in k..Len(out) PROVE j + e \in 1..Len(ms) /\ out[j] = ms[j + e]
        <5>1. j - 1 \in 1..Len(q) /\ 1 + (j - 1) = j /\ a - 1 + (j - 1) = j + e
          BY <1>1, <2>3, <2>4, <2>6, <3>5, <3>7
        <5>2. out[1 + (j - 1)] = q[j - 1] BY <3>5, <5>1
        <5>3. q[j - 1] = ms[a - 1 + (j - 1)] /\ a - 1 + (j - 1) \in 1..Len(ms)
          BY <2>6, <5>1
        <5> QED BY <5>1, <5>2, <5>3
      <4> QED BY <4>1 DEF Ends
    <3>8. out[1].kind = "summary" BY <3>2, <3>3, <3>5
    <3> HIDE DEF e
    <3> QED BY <3>6, <3>7, <3>8 DEF out
  <2>8. CASE ~(L > 0 /\ LatestSummary(q) = 0)
    <3>1. out = q
      <4> HIDE DEF q
      <4> QED BY <1>1, <1>2, <1>4, <2>3, <2>8 DEF TrimRecentRounds, L
    <3> HIDE DEF q, out
    <3> DEFINE e == a - 1
    <3>2. e \in Nat /\ Len(out) = Len(ms) - e BY <1>1, <2>3, <2>4, <2>6, <3>1
    <3>3. ASSUME NEW k \in 1..Len(out) PROVE Ends(ms, out, k, e)
      <4>1. ASSUME NEW j \in k..Len(out) PROVE j + e \in 1..Len(ms) /\ out[j] = ms[j + e]
        <5>1. j \in 1..Len(q) /\ a - 1 + j = j + e BY <1>1, <2>3, <2>6, <3>1
        <5> QED BY <2>6, <3>1, <5>1
      <4> QED BY <4>1 DEF Ends
    <3> HIDE DEF e
    <3> QED BY <3>2, <3>3 DEF out
  <2> QED BY <2>7, <2>8
<1> QED BY <1>1, <1>2, <1>3, <1>4

\* compactHistory keeps the first round, in which only the first message can be a
\* response, and an end.
Compacted(ms, out, c, d) ==
  /\ c \in 1..Len(out) /\ d \in Nat /\ Len(out) = Len(ms) - d
  /\ Ends(ms, out, c, d)
  /\ \A j \in 1..c - 1 : out[j] = ms[j]
  /\ \A j \in 2..c - 1 : out[j].kind = "tool"

\* So it does, whether anything is dropped or not.
LEMMA CompactEnds ==
  ASSUME NEW ms, Sound(ms), Len(ms) >= 1
  PROVE  \E c, d \in Nat : Compacted(ms, CompactHistory(ms), c, d)
<1>1. ms \in Seq(Messages) /\ Len(ms) \in Nat /\ Rounds(ms) \in Nat
  BY StartsAre DEF Sound
<1>2. KeepRecent \in Nat /\ KeepRecent >= 1 BY CompactionAssumption
<1> DEFINE out == CompactHistory(ms)
<1>3. CASE Rounds(ms) <= 1 + KeepRecent
  <2>1. out = ms BY <1>3 DEF CompactHistory
  <2> HIDE DEF out
  <2>2. 1 \in 1..Len(out) /\ 0 \in Nat /\ 1 \in Nat /\ Len(out) = Len(ms) - 0 BY <1>1, <2>1
  <2>3. Ends(ms, out, 1, 0) BY <1>1, <2>1 DEF Ends
  <2>4. 1..1 - 1 = {} /\ 2..1 - 1 = {} OBVIOUS
  <2>5. Compacted(ms, out, 1, 0) BY <2>2, <2>3, <2>4 DEF Compacted
  <2> QED BY <2>2, <2>5 DEF out
<1>4. CASE ~(Rounds(ms) <= 1 + KeepRecent)
  <2> DEFINE k == Rounds(ms) - KeepRecent + 1
             a == StartOf(ms, k)
             c == StartOf(ms, 2)
             h == SubSeq(ms, 1, c - 1)
             q == SubSeq(ms, a, Len(ms))
  <2>1. LatestRounds(ms, KeepRecent) = RoundsFromTo(ms, k, Rounds(ms))
    BY <1>1, <1>2, <1>4 DEF LatestRounds, Smaller
  <2>2. /\ k \in 1..Rounds(ms) /\ 2 \in 1..Rounds(ms) + 1 /\ k \in 1..Rounds(ms) + 1
        /\ 2 < k /\ 1 \in 1..Rounds(ms) + 1 /\ 2 \in 1..Rounds(ms)
    BY <1>1, <1>2, <1>4
  <2> HIDE DEF k
  <2>3. LatestRounds(ms, KeepRecent) = q /\ a \in 1..Len(ms) BY <2>1, <2>2, TailOf
  <2>4. c < a /\ 1 < c /\ c \in 1..Len(ms)
    <3>1. c < a /\ StartOf(ms, 1) < c BY <1>1, <2>2, RoundsOrdered
    <3>2. c \in 1..Len(ms) BY <1>1, <2>2, RoundsOrdered
    <3>3. StartOf(ms, 1) = 1 BY FirstEdge
    <3> HIDE DEF a, c
    <3> QED BY <3>1, <3>2, <3>3
  <2>5. RoundsFromTo(ms, 1, 1) = h
    <3>1. 1 + 1 = 2 /\ StartOf(ms, 1) = 1 BY FirstEdge
    <3> QED BY <3>1 DEF RoundsFromTo
  <2>6. ASSUME NEW i \in 2..c - 1 PROVE ms[i].kind = "tool"
    <3> DEFINE S == Starts(ms)
    <3>1. S \in SUBSET (1..Len(ms)) /\ Len(ms) \in Nat BY <1>1, StartsAre
    <3>2. 1 \in S BY FirstEdge
    <3>3. c \in S /\ Cardinality(Upto(S, c)) = 2 BY <1>1, <2>2, StartsAre
    <3> HIDE DEF a, c
    <3>4. /\ i \in 1..Len(ms) /\ i <= c - 1 /\ i > 1
          /\ c - 1 \in 0..Len(ms) /\ c - 1 \in 1..Len(ms)
      BY <2>4, <2>6
    <3> SUFFICES ASSUME i \in S PROVE FALSE
      <4>1. i \in DOMAIN ms BY <1>1, <3>4
      <4> QED BY <4>1 DEF Starts
    <3> HIDE DEF S
    <3>5. Cardinality(Upto(S, c)) = Cardinality(Upto(S, c - 1)) + 1
      BY <2>4, <3>1, <3>3, UptoNext
    <3>6. Cardinality(Upto(S, i)) = Cardinality(Upto(S, i - 1)) + 1 BY <3>1, <3>4, UptoNext
    <3>7. Cardinality(Upto(S, 1)) = Cardinality(Upto(S, 0)) + 1
      <4>1. 1 \in 1..Len(ms) /\ 1 - 1 = 0 BY <3>4
      <4> QED BY <3>1, <3>2, <4>1, UptoNext
    <3>8. /\ \A u \in 0..Len(ms) : Cardinality(Upto(S, u)) \in Nat
          /\ Cardinality(Upto(S, 0)) = 0
          /\ \A u \in 0..Len(ms) : \A v \in 0..u :
               Cardinality(Upto(S, v)) <= Cardinality(Upto(S, u))
      BY <3>1, UptoIs
    <3>9. /\ i - 1 \in 0..Len(ms) /\ 1 \in 0..i - 1 /\ i \in 0..c - 1 /\ i \in 0..Len(ms)
          /\ 1 \in 0..Len(ms)
      BY <3>4
    <3>10. Cardinality(Upto(S, 1)) <= Cardinality(Upto(S, i - 1)) BY <3>8, <3>9
    <3>11. Cardinality(Upto(S, i)) <= Cardinality(Upto(S, c - 1)) BY <3>4, <3>8, <3>9
    <3>12. Cardinality(Upto(S, i - 1)) \in Nat /\ Cardinality(Upto(S, c - 1)) \in Nat
      BY <3>4, <3>8, <3>9
    <3> QED BY <3>3, <3>5, <3>6, <3>7, <3>8, <3>10, <3>11, <3>12
  <2>7. out = h \o q
    <3> HIDE DEF h, q, a, c
    <3> QED BY <1>4, <2>3, <2>5 DEF CompactHistory
  <2> HIDE DEF a, c
  <2>8. /\ h \in Seq(Messages) /\ Len(h) = c - 1
        /\ \A i \in 1..c - 1 : h[i] = ms[i] /\ i \in 1..Len(ms)
    <3>1. 1 \in 1..Len(ms) + 1 /\ c - 1 \in 1 - 1..Len(ms) /\ c - 1 - 1 + 1 = c - 1
      BY <1>1, <2>4
    <3>2. /\ h \in Seq(Messages) /\ Len(h) = c - 1 - 1 + 1
          /\ \A i \in 1..c - 1 - 1 + 1 : h[i] = ms[1 - 1 + i] /\ 1 - 1 + i \in 1..Len(ms)
      BY <1>1, <3>1, Part
    <3>3. \A i \in 1..c - 1 : 1 - 1 + i = i BY <2>4
    <3> HIDE DEF h
    <3> QED BY <3>1, <3>2, <3>3
  <2>9. /\ q \in Seq(Messages) /\ Len(q) = Len(ms) - a + 1
        /\ \A i \in 1..Len(q) : q[i] = ms[a - 1 + i] /\ a - 1 + i \in 1..Len(ms)
    <3>1. a \in 1..Len(ms) + 1 /\ Len(ms) \in a - 1..Len(ms) BY <1>1, <2>3
    <3> HIDE DEF q
    <3> QED BY <1>1, <3>1, Part DEF q
  <2> HIDE DEF h, q, out
  <2>10. /\ Len(out) = Len(h) + Len(q)
         /\ \A i \in 1..Len(h) : out[i] = h[i]
         /\ \A i \in 1..Len(q) : out[Len(h) + i] = q[i]
    <3>1. h \in Seq(Messages) /\ q \in Seq(Messages) BY <2>8, <2>9
    <3> QED BY <2>7, <3>1, Joined
  <2> DEFINE d == a - c
  <2>11. c \in 1..Len(out) /\ c \in Nat /\ d \in Nat /\ Len(out) = Len(ms) - d
    BY <1>1, <2>3, <2>4, <2>8, <2>9, <2>10
  <2>12. Ends(ms, out, c, d)
    <3>1. ASSUME NEW j \in c..Len(out) PROVE j + d \in 1..Len(ms) /\ out[j] = ms[j + d]
      <4>1. j - c + 1 \in 1..Len(q) /\ Len(h) + (j - c + 1) = j /\ a - 1 + (j - c + 1) = j + d
        BY <1>1, <2>3, <2>4, <2>8, <2>9, <2>10
      <4>2. out[Len(h) + (j - c + 1)] = q[j - c + 1] BY <2>10, <4>1
      <4>3. q[j - c + 1] = ms[a - 1 + (j - c + 1)] /\ a - 1 + (j - c + 1) \in 1..Len(ms)
        BY <2>9, <4>1
      <4> QED BY <4>1, <4>2, <4>3
    <3> QED BY <3>1 DEF Ends
  <2>13. \A j \in 1..c - 1 : out[j] = ms[j] BY <2>8, <2>10
  <2>14. \A j \in 2..c - 1 : out[j].kind = "tool"
    <3> TAKE j \in 2..c - 1
    <3>1. j \in 1..c - 1 BY <2>4
    <3> QED BY <2>6, <2>13, <3>1
  <2> HIDE DEF d
  <2>15. Compacted(ms, out, c, d) BY <2>11, <2>12, <2>13, <2>14 DEF Compacted
  <2> QED BY <2>11, <2>15 DEF out
<1> QED BY <1>3, <1>4

\* The end of FitHistory, which trims or does not.
LEMMA TrimmedEnds ==
  ASSUME NEW ms, Sound(ms), Len(ms) >= 1
  PROVE  \E e \in Nat :
           /\ Len(Trimmed(ms)) = Len(ms) - e
           /\ \A k \in 1..Len(Trimmed(ms)) :
                \/ Ends(ms, Trimmed(ms), k, e)
                \/ k = 1 /\ Trimmed(ms)[1].kind = "summary"
<1>1. ms \in Seq(Messages) /\ Len(ms) \in Nat BY DEF Sound
<1>2. CASE EstimateTokens(ms) > Target
  <2>1. Trimmed(ms) = TrimRecentRounds(ms) BY <1>2 DEF Trimmed
  <2> QED BY <2>1, TrimEnds
<1>3. CASE ~(EstimateTokens(ms) > Target)
  <2>1. Trimmed(ms) = ms BY <1>3 DEF Trimmed
  <2>2. Len(ms) = Len(ms) - 0 /\ 0 \in Nat BY <1>1
  <2>3. \A k \in 1..Len(ms) : Ends(ms, ms, k, 0) BY <1>1 DEF Ends
  <2> QED BY <2>1, <2>2, <2>3
<1> QED BY <1>2, <1>3

\* From its k-th message on, out is what the view v of b is, e places further.
EndsAs(b, v, out, k, e) ==
  \A j \in k..Len(out) :
    /\ j + e \in 1..Len(b) /\ Like(b[j + e], out[j]) /\ Weight(v[j + e]) = Weight(out[j])
    /\ Weight(Plain(out[j])) <= Weight(Plain(b[j + e]))

\* A lossy step keeps every response it keeps with what came after it, but for the
\* first response of the view.
LEMMA LossyEnds ==
  ASSUME NEW b, Sound(b), Fronted(b), Len(b) >= 1, NEW r \in Nat, NEW n \in Nat,
         NEW final, final = Trimmed(Strips(CompactHistory(b), r, n))
  PROVE  \E e \in Int :
           /\ Len(final) = Len(b) - e
           /\ \A k \in 1..Len(final) : final[k].kind = "assistant" =>
                \/ EndsAs(b, Strips(b, r, n), final, k, e)
                \/ /\ k = 1 /\ Like(b[1], final[1])
                   /\ Weight(Plain(final[1])) <= Weight(Plain(b[1]))
<1> DEFINE C == CompactHistory(b)
           S == Strips(C, r, n)
           V == Strips(b, r, n)
<1>1. Sound(C) /\ Len(C) >= 1 BY CompactReduced, ReducedMeans
<1>2. PICK c \in Nat, d \in Nat : Compacted(b, C, c, d) BY CompactEnds
<1>3. C \in Seq(Messages) /\ b \in Seq(Messages) /\ Len(C) \in Nat /\ Len(b) \in Nat
  BY <1>1 DEF Sound
<1> HIDE DEF C
<1>4. Alike(C, S) BY <1>3, StripsAlike
<1>5. /\ Sound(S) /\ Len(S) = Len(C) /\ Len(S) >= 1 /\ S \in Seq(Messages)
      /\ \A j \in 1..Len(C) : Like(C[j], S[j])
  BY <1>1, <1>4, AlikeSound DEF Alike
<1>6. /\ c \in 1..Len(C) /\ Len(C) = Len(b) - d
      /\ \A j \in c..Len(C) : j + d \in 1..Len(b) /\ C[j] = b[j + d]
      /\ \A j \in 1..c - 1 : C[j] = b[j]
      /\ \A j \in 2..c - 1 : C[j].kind = "tool"
  BY <1>2 DEF Compacted, Ends
<1>7. \A j \in 1..Len(C) : Weight(Plain(S[j])) <= Weight(Plain(C[j]))
  BY <1>3, StripsPlain
<1>8. \A j \in c..Len(C) : Weight(V[j + d]) = Weight(S[j])
  <2> TAKE j \in c..Len(C)
  <2>1. j \in 1..Len(C) /\ j + d \in 1..Len(b) /\ Len(b) = Len(C) + d /\ Len(b) >= Len(C) + d
        /\ d \in Int
    BY <1>3, <1>6
  <2>2. \A i \in j..Len(C) : i + d \in 1..Len(b) /\ b[i + d] = C[i]
    <3> TAKE i \in j..Len(C)
    <3>1. i \in c..Len(C) BY <2>1, <1>6
    <3> QED BY <1>6, <3>1
  <2>3. Within(C, b, j, d) BY <1>1, <2>1, <2>2 DEF Within
  <2> QED BY <2>1, <2>3, StripsSame
<1> HIDE DEF S, V
<1>9. final = Trimmed(S) BY DEF S, C
<1>10. PICK e \in Nat :
           /\ Len(final) = Len(S) - e
           /\ \A k \in 1..Len(final) :
                \/ Ends(S, final, k, e)
                \/ k = 1 /\ final[1].kind = "summary"
  <2> DEFINE t == Trimmed(S)
  <2>1. Sound(S) /\ Len(S) >= 1 BY <1>5
  <2>2. PICK x \in Nat :
           /\ Len(t) = Len(S) - x
           /\ \A k \in 1..Len(t) : Ends(S, t, k, x) \/ (k = 1 /\ t[1].kind = "summary")
    BY <2>1, TrimmedEnds
  <2>3. t = final BY <1>9
  <2> HIDE DEF t
  <2>4. /\ Len(final) = Len(S) - x
        /\ \A k \in 1..Len(final) :
             Ends(S, final, k, x) \/ (k = 1 /\ final[1].kind = "summary")
    BY <2>2, <2>3, Zenon
  <2> QED BY <2>4
<1>11. Len(final) \in Int /\ e + d \in Int /\ Len(final) = Len(b) - (e + d)
  <2>1. Len(final) = Len(S) - e /\ Len(S) = Len(C) /\ Len(C) = Len(b) - d
    BY <1>5, <1>6, <1>10
  <2> HIDE DEF C, S
  <2> QED BY <1>3, <2>1
<1>12. ASSUME NEW k \in 1..Len(final), final[k].kind = "assistant"
       PROVE  \/ EndsAs(b, V, final, k, e + d)
              \/ /\ k = 1 /\ Like(b[1], final[1])
                 /\ Weight(Plain(final[1])) <= Weight(Plain(b[1]))
  <2>1. Ends(S, final, k, e)
    <3>1. k = 1 => final[1].kind # "summary" BY <1>12
    <3> QED BY <1>10, <3>1
  <2>2. \A j \in k..Len(final) : j + e \in 1..Len(S) /\ final[j] = S[j + e]
    BY <2>1 DEF Ends
  <2>3. k \in k..Len(final) /\ k + e \in 1..Len(C) BY <1>5, <1>11, <2>2
  <2>4. final[k] = S[k + e] /\ Like(C[k + e], S[k + e]) BY <1>5, <2>2, <2>3
  <2>5. CASE k + e >= c
    <3>1. ASSUME NEW j \in k..Len(final)
          PROVE  /\ j + (e + d) \in 1..Len(b) /\ Like(b[j + (e + d)], final[j])
                 /\ Weight(V[j + (e + d)]) = Weight(final[j])
                 /\ Weight(Plain(final[j])) <= Weight(Plain(b[j + (e + d)]))
      <4>1. j + e \in 1..Len(C) /\ final[j] = S[j + e] /\ j + e \in c..Len(C)
            /\ (j + e) + d = j + (e + d)
        <5>1. j + e \in 1..Len(S) /\ final[j] = S[j + e] BY <2>2
        <5>2. j \in Int /\ j >= k /\ k \in Int /\ Len(S) = Len(C) /\ Len(C) \in Nat /\ c \in Nat
          BY <1>3, <1>5, <1>11
        <5> QED BY <2>5, <5>1, <5>2, SMTT(30)
      <4>2. (j + e) + d \in 1..Len(b) /\ C[j + e] = b[(j + e) + d] BY <1>6, <4>1
      <4>3. Like(C[j + e], S[j + e]) BY <1>5, <4>1
      <4>4. Weight(V[(j + e) + d]) = Weight(S[j + e]) BY <1>8, <4>1
      <4>5. Weight(Plain(S[j + e])) <= Weight(Plain(C[j + e])) BY <1>7, <4>1
      <4> QED BY <4>1, <4>2, <4>3, <4>4, <4>5
    <3> QED BY <3>1 DEF EndsAs
  <2>6. CASE ~(k + e >= c)
    <3>1. C[k + e].kind = "assistant" BY <1>12, <2>4 DEF Like
    <3>2. k + e \notin 2..c - 1
      <4>1. k + e \in 2..c - 1 => C[k + e].kind = "tool" BY <1>6
      <4> QED BY <3>1, <4>1
    <3>3. k + e = 1 /\ k = 1 /\ 1 \in 1..c - 1 /\ 1 \in 1..Len(C)
      BY <1>6, <1>11, <2>3, <2>6, <3>2
    <3>4. C[1] = b[1] /\ final[1] = S[1] BY <1>6, <2>4, <3>3
    <3>5. Weight(Plain(S[1])) <= Weight(Plain(C[1])) BY <1>7, <3>3
    <3>6. Like(C[1], S[1]) BY <2>4, <3>3
    <3> QED BY <3>3, <3>4, <3>5, <3>6
  <2> QED BY <2>5, <2>6
<1> QED BY <1>11, <1>12 DEF V

-----------------------------------------------------------------------------
(* The last response that was measured.                                    *)

\* A response that was measured after the last summary.
Applies(ms, i) ==
  /\ i \in 1..Len(ms) /\ ms[i].kind = "assistant" /\ ms[i].usage > 0
  /\ ms[i].ts >= SummaryTs(ms)

\* lastApplicableUsageIndex finds the last of them, if there is one,
LEMMA LastIs ==
  ASSUME NEW ms \in Seq(Messages)
  PROVE  /\ LastApplicableUsage(ms) \in 0..Len(ms)
         /\ LastApplicableUsage(ms) > 0 => Applies(ms, LastApplicableUsage(ms))
         /\ \A i : Applies(ms, i) => i <= LastApplicableUsage(ms)
<1> DEFINE at == {i \in Responses(ms) : ms[i].usage > 0 /\ ms[i].ts >= SummaryTs(ms)}
<1>1. Responses(ms) \in SUBSET (1..Len(ms)) /\ Len(ms) \in Nat BY LaterIs
<1>2. DOMAIN ms = 1..Len(ms) OBVIOUS
<1>3. \A i : i \in at <=> Applies(ms, i) BY <1>2 DEF Applies, Responses
<1>4. at \in SUBSET (1..Len(ms)) BY <1>1
<1>5. LastApplicableUsage(ms) = IF at = {} THEN 0 ELSE Max(at) BY DEF LastApplicableUsage
<1> HIDE DEF at
<1>6. CASE at = {}
  <2>1. LastApplicableUsage(ms) = 0 BY <1>5, <1>6
  <2>2. \A i : ~Applies(ms, i) BY <1>3, <1>6
  <2> QED BY <1>1, <2>1, <2>2
<1>7. CASE at # {}
  <2>1. LastApplicableUsage(ms) = Max(at) BY <1>5, <1>7
  <2>2. Max(at) \in at /\ \A y \in at : Max(at) >= y BY <1>1, <1>4, <1>7, MaxIs
  <2>3. \A y \in at : y \in Nat BY <1>1, <1>4
  <2>4. Max(at) \in 1..Len(ms) /\ Applies(ms, Max(at)) BY <1>3, <1>4, <2>2
  <2>5. \A i : Applies(ms, i) => i <= Max(at)
    <3> TAKE i
    <3>1. Applies(ms, i) => i \in at BY <1>3
    <3> QED BY <1>1, <2>2, <2>3, <2>4, <3>1
  <2> QED BY <1>1, <2>1, <2>4, <2>5
<1> QED BY <1>6, <1>7

\* and nothing else.
LEMMA LastUnique ==
  ASSUME NEW ms \in Seq(Messages), NEW i, Applies(ms, i),
         \A j : Applies(ms, j) => j <= i
  PROVE  LastApplicableUsage(ms) = i /\ i > 0
<1>1. i \in 1..Len(ms) BY DEF Applies
<1>2. LastApplicableUsage(ms) \in 0..Len(ms) /\ i <= LastApplicableUsage(ms) BY LastIs
<1>3. LastApplicableUsage(ms) > 0 BY <1>1, <1>2
<1>4. LastApplicableUsage(ms) <= i BY <1>3, LastIs
<1> QED BY <1>1, <1>2, <1>4

\* It is the same message in the transcript and behind its barrier,
LEMMA LastBarrier ==
  ASSUME NEW ms, Sound(ms), LastApplicableUsage(Barrier(ms)) > 0
  PROVE  LastApplicableUsage(ms) = ViewStart(ms) - 1 + LastApplicableUsage(Barrier(ms))
<1> DEFINE b == Barrier(ms)
           s == ViewStart(ms)
           i == LastApplicableUsage(b)
<1>1. /\ s \in 1..Len(ms) + 1 /\ Len(b) = Len(ms) - s + 1
      /\ \A j \in 1..Len(b) : b[j] = ms[s - 1 + j] /\ s - 1 + j \in 1..Len(ms)
      /\ Sound(b) /\ SummaryTs(b) = SummaryTs(ms)
  BY BarrierIs
<1>2. ms \in Seq(Messages) /\ b \in Seq(Messages) /\ Len(ms) \in Nat BY <1>1 DEF Sound
<1>3. i > 0 OBVIOUS
<1> HIDE DEF b, s
<1>4. i \in 1..Len(b) /\ Applies(b, i) /\ \A j : Applies(b, j) => j <= i
  BY <1>2, <1>3, LastIs
<1> HIDE DEF i
<1>5. Applies(ms, s - 1 + i)
  <2>1. b[i].kind = "assistant" /\ b[i].usage > 0 /\ b[i].ts >= SummaryTs(b)
    BY <1>4 DEF Applies
  <2> QED BY <1>1, <1>4, <2>1 DEF Applies
<1>6. ASSUME NEW j, Applies(ms, j) PROVE j <= s - 1 + i
  <2> SUFFICES ASSUME ~(j <= s - 1 + i) PROVE FALSE OBVIOUS
  <2>1. /\ j \in 1..Len(ms) /\ ms[j].kind = "assistant" /\ ms[j].usage > 0
        /\ ms[j].ts >= SummaryTs(ms)
    BY <1>6 DEF Applies
  <2>2. j - s + 1 \in 1..Len(b) /\ s - 1 + (j - s + 1) = j /\ ~(j - s + 1 <= i)
    BY <1>1, <1>2, <1>4, <2>1
  <2>3. b[j - s + 1] = ms[j] BY <1>1, <2>2
  <2>4. Applies(b, j - s + 1) BY <1>1, <2>1, <2>2, <2>3 DEF Applies
  <2> QED BY <1>4, <2>2, <2>4
<1>7. LastApplicableUsage(ms) = s - 1 + i BY <1>2, <1>5, <1>6, LastUnique
<1> QED BY <1>7 DEF s, i, b

\* and in a view that is alike.
LEMMA LastAlike ==
  ASSUME NEW ms, NEW ns, Alike(ms, ns)
  PROVE  /\ LastApplicableUsage(ns) = LastApplicableUsage(ms)
         /\ \A i \in 1..Len(ms) : ns[i].usage = ms[i].usage
<1>1. /\ Responses(ns) = Responses(ms) /\ SummaryTs(ns) = SummaryTs(ms)
      /\ ms \in Seq(Messages) /\ ns \in Seq(Messages) /\ Len(ns) = Len(ms)
  BY AlikeSame DEF Alike
<1>2. \A i \in 1..Len(ms) : ns[i].usage = ms[i].usage /\ ns[i].ts = ms[i].ts
  BY DEF Alike, Like
<1>3. \A i \in Responses(ms) : i \in 1..Len(ms)
  <2>1. Responses(ms) \in SUBSET (1..Len(ms)) BY <1>1, LaterIs
  <2> QED BY <2>1
<1>4. {i \in Responses(ns) : ns[i].usage > 0 /\ ns[i].ts >= SummaryTs(ns)} =
      {i \in Responses(ms) : ms[i].usage > 0 /\ ms[i].ts >= SummaryTs(ms)}
  BY <1>1, <1>2, <1>3
<1> QED BY <1>2, <1>4 DEF LastApplicableUsage

-----------------------------------------------------------------------------
(* What was measured covers what is sent.                                  *)

\* What a request of a transcript would be.
ViewOf(ms) == Strips(Barrier(ms), KeepReasoning, KeepToolArgs)

\* A measured response was charged at least itself,
Billed(ms) ==
  \A i \in 1..Len(Barrier(ms)) :
    Applies(Barrier(ms), i) =>
      Barrier(ms)[i].usage >= Overhead + Weight(Plain(Barrier(ms)[i]))

\* the last one the view up to it,
Gauged(ms) ==
  RealUsage /\ LastApplicableUsage(Barrier(ms)) > 0 =>
    Barrier(ms)[LastApplicableUsage(Barrier(ms))].usage >=
      Overhead + Size(Bare(ViewOf(ms)), 1, LastApplicableUsage(Barrier(ms)))

\* and the request that is out is no smaller than the view.
Covered(ms, req) ==
  Size(Bare(ViewOf(ms)), 1, Len(ViewOf(ms))) <= Size(req, 1, Len(req))

\* The view of a transcript.
LEMMA ViewIs ==
  ASSUME NEW ms, Sound(ms)
  PROVE  /\ Sound(Barrier(ms)) /\ Barrier(ms) \in Seq(Messages)
         /\ Alike(Barrier(ms), ViewOf(ms)) /\ ViewOf(ms) \in Seq(Messages)
         /\ Len(ViewOf(ms)) = Len(Barrier(ms)) /\ Len(Barrier(ms)) \in Nat
         /\ Bare(ViewOf(ms)) \in Seq(Messages) /\ Len(Bare(ViewOf(ms))) = Len(Barrier(ms))
         /\ \A i \in 1..Len(Barrier(ms)) :
              /\ Bare(ViewOf(ms))[i] = Plain(ViewOf(ms)[i])
              /\ Weight(Bare(ViewOf(ms))[i]) \in Nat
              /\ Weight(Bare(ViewOf(ms))[i]) <= Weight(Plain(Barrier(ms)[i]))
              /\ Weight(Plain(Barrier(ms)[i])) <= Weight(Barrier(ms)[i])
              /\ Weight(Plain(Barrier(ms)[i])) \in Nat /\ Weight(Barrier(ms)[i]) \in Nat
<1> DEFINE b == Barrier(ms)
           v == ViewOf(ms)
<1>1. Sound(b) BY BarrierIs
<1>2. b \in Seq(Messages) /\ Len(b) \in Nat BY <1>1 DEF Sound
<1> HIDE DEF b
<1>3. Alike(b, v) /\ v \in Seq(Messages) /\ Len(v) = Len(b)
  <2>1. Alike(b, v) BY <1>2, StripsAlike DEF ViewOf, b
  <2> QED BY <2>1 DEF Alike
<1>4. ASSUME NEW i \in 1..Len(b)
      PROVE  Weight(Plain(v[i])) <= Weight(Plain(b[i]))
  BY <1>2, StripsPlain DEF ViewOf, b
<1> HIDE DEF v
<1>5. /\ Bare(v) \in Seq(Messages) /\ Len(Bare(v)) = Len(b)
      /\ \A i \in 1..Len(b) : Bare(v)[i] = Plain(v[i]) /\ v[i] \in Messages
  BY <1>3, BareIs
<1>6. ASSUME NEW i \in 1..Len(b)
      PROVE  /\ Bare(v)[i] = Plain(v[i]) /\ Weight(Bare(v)[i]) \in Nat
             /\ Weight(Bare(v)[i]) <= Weight(Plain(b[i]))
             /\ Weight(Plain(b[i])) <= Weight(b[i])
             /\ Weight(Plain(b[i])) \in Nat /\ Weight(b[i]) \in Nat
  <2>1. b[i] \in Messages BY <1>2, ElementOfSeq
  <2>2. /\ Weight(Plain(b[i])) <= Weight(b[i])
        /\ Weight(Plain(b[i])) \in Nat /\ Weight(b[i]) \in Nat
    BY <2>1, PlainIs
  <2>3. Bare(v)[i] = Plain(v[i]) /\ v[i] \in Messages BY <1>5
  <2>4. Weight(Plain(v[i])) \in Nat BY <2>3, PlainIs
  <2> QED BY <1>4, <2>2, <2>3, <2>4
<1> QED BY <1>1, <1>2, <1>3, <1>5, <1>6 DEF b, v

\* Messages are appended: the view only grows.
LEMMA BarrierGrows ==
  ASSUME NEW ms, NEW add, Sound(ms), Sound(add),
         \A i \in 1..Len(ms), j \in 1..Len(add) : ms[i].ts # add[j].ts,
         \A j \in 1..Len(add) : add[j].kind # "summary"
  PROVE  /\ Sound(ms \o add) /\ Len(Barrier(ms \o add)) = Len(Barrier(ms)) + Len(add)
         /\ SummaryTs(Barrier(ms \o add)) = SummaryTs(Barrier(ms))
         /\ \A i \in 1..Len(Barrier(ms)) : Barrier(ms \o add)[i] = Barrier(ms)[i]
         /\ \A j \in 1..Len(add) : Barrier(ms \o add)[Len(Barrier(ms)) + j] = add[j]
<1> DEFINE n == ms \o add
           L == LatestSummary(ms)
           s == ViewStart(ms)
<1>1. /\ Sound(n) /\ Len(n) = Len(ms) + Len(add)
      /\ \A i \in 1..Len(ms) : n[i] = ms[i]
      /\ \A j \in 1..Len(add) : n[Len(ms) + j] = add[j]
      /\ \A i \in 1..Len(n) :
           \/ i \in 1..Len(ms)
           \/ (i - Len(ms) \in 1..Len(add) /\ i = Len(ms) + (i - Len(ms)))
      /\ SummaryTs(n) = SummaryTs(ms)
  BY AppendMeans
<1>2. /\ ms \in Seq(Messages) /\ add \in Seq(Messages) /\ n \in Seq(Messages)
      /\ Len(ms) \in Nat /\ Len(add) \in Nat
  BY <1>1 DEF Sound
<1> HIDE DEF n
<1>3. /\ L \in 0..Len(ms) /\ (L > 0 => ms[L].kind = "summary")
      /\ \A i \in 1..Len(ms) : i > L => ms[i].kind # "summary"
  BY <1>2, LatestIs
<1> HIDE DEF L
<1>4. LatestSummary(n) = L
  <2>1. L \in 0..Len(n) /\ (L > 0 => n[L].kind = "summary") BY <1>1, <1>2, <1>3
  <2>2. ASSUME NEW i \in 1..Len(n), i > L PROVE n[i].kind # "summary"
    <3>1. CASE i \in 1..Len(ms) BY <1>1, <1>3, <2>2, <3>1
    <3>2. CASE i - Len(ms) \in 1..Len(add) /\ i = Len(ms) + (i - Len(ms))
      <4>1. n[Len(ms) + (i - Len(ms))] = add[i - Len(ms)] BY <1>1, <3>2
      <4> QED BY <3>2, <4>1
    <3> QED BY <1>1, <3>1, <3>2
  <2> QED BY <1>2, <2>1, <2>2, LatestUnique
<1>5. ViewStart(n) = s BY <1>4 DEF ViewStart, L
<1>6. /\ s \in 1..Len(ms) + 1 /\ Len(Barrier(ms)) = Len(ms) - s + 1
      /\ \A i \in 1..Len(Barrier(ms)) :
           Barrier(ms)[i] = ms[s - 1 + i] /\ s - 1 + i \in 1..Len(ms)
      /\ SummaryTs(Barrier(ms)) = SummaryTs(ms)
  BY BarrierIs
<1>7. /\ Len(Barrier(n)) = Len(n) - s + 1
      /\ \A i \in 1..Len(Barrier(n)) : Barrier(n)[i] = n[s - 1 + i]
      /\ SummaryTs(Barrier(n)) = SummaryTs(n)
  <2>1. Sound(n) BY <1>1
  <2>2. /\ Len(Barrier(n)) = Len(n) - ViewStart(n) + 1
        /\ \A i \in 1..Len(Barrier(n)) : Barrier(n)[i] = n[ViewStart(n) - 1 + i]
        /\ SummaryTs(Barrier(n)) = SummaryTs(n)
    BY <2>1, BarrierIs
  <2> HIDE DEF s
  <2> QED BY <1>5, <2>2
<1> HIDE DEF s
<1>8. Len(Barrier(n)) = Len(Barrier(ms)) + Len(add) /\ Len(Barrier(ms)) \in Nat
  BY <1>1, <1>2, <1>6, <1>7
<1>9. ASSUME NEW i \in 1..Len(Barrier(ms)) PROVE Barrier(n)[i] = Barrier(ms)[i]
  <2>1. i \in 1..Len(Barrier(n)) BY <1>2, <1>8
  <2>2. Barrier(n)[i] = n[s - 1 + i] BY <1>7, <2>1
  <2>3. Barrier(ms)[i] = ms[s - 1 + i] /\ s - 1 + i \in 1..Len(ms) BY <1>6
  <2>4. n[s - 1 + i] = ms[s - 1 + i] BY <1>1, <2>3
  <2> QED BY <2>2, <2>3, <2>4
<1>10. ASSUME NEW j \in 1..Len(add) PROVE Barrier(n)[Len(Barrier(ms)) + j] = add[j]
  <2>1. /\ Len(Barrier(ms)) + j \in 1..Len(Barrier(n))
        /\ s - 1 + (Len(Barrier(ms)) + j) = Len(ms) + j
    BY <1>2, <1>6, <1>8
  <2>2. Barrier(n)[Len(Barrier(ms)) + j] = n[s - 1 + (Len(Barrier(ms)) + j)] BY <1>7, <2>1
  <2> QED BY <1>1, <2>1, <2>2
<1> QED BY <1>1, <1>6, <1>7, <1>8, <1>9, <1>10 DEF n

\* The response to a request is charged the request and itself.
LEMMA AppendGauged ==
  ASSUME NEW ms, NEW add, Sound(ms), Sound(add), Len(add) >= 1,
         \A i \in 1..Len(ms), j \in 1..Len(add) : ms[i].ts # add[j].ts,
         \A j \in 1..Len(add) : add[j].kind # "summary",
         \A j \in 2..Len(add) : add[j].kind # "assistant",
         NEW req \in Seq(Messages),
         add[1].kind = "assistant" /\ add[1].usage > 0 =>
           Covered(ms, req) /\ add[1].usage >= EstimateTokens(req) + Weight(add[1]),
         Billed(ms), Gauged(ms)
  PROVE  Billed(ms \o add) /\ Gauged(ms \o add)
<1> DEFINE n == ms \o add
           b == Barrier(ms)
           c == Barrier(n)
           v == Bare(ViewOf(ms))
           w == Bare(ViewOf(n))
           i == LastApplicableUsage(c)
<1>1. /\ Sound(n) /\ Len(c) = Len(b) + Len(add) /\ SummaryTs(c) = SummaryTs(b)
      /\ \A k \in 1..Len(b) : c[k] = b[k]
      /\ \A j \in 1..Len(add) : c[Len(b) + j] = add[j]
  BY BarrierGrows
<1> HIDE DEF n
<1>2. /\ b \in Seq(Messages) /\ Len(b) \in Nat /\ v \in Seq(Messages) /\ Len(v) = Len(b)
      /\ Len(ViewOf(ms)) = Len(b) /\ Sound(b)
      /\ \A k \in 1..Len(b) : v[k] = Plain(ViewOf(ms)[k])
  BY ViewIs
<1>3. /\ c \in Seq(Messages) /\ Len(c) \in Nat /\ w \in Seq(Messages) /\ Len(w) = Len(c)
      /\ Sound(c)
      /\ \A k \in 1..Len(c) :
           /\ w[k] = Plain(ViewOf(n)[k]) /\ Weight(w[k]) \in Nat
           /\ Weight(w[k]) <= Weight(Plain(c[k]))
           /\ Weight(Plain(c[k])) <= Weight(c[k])
           /\ Weight(Plain(c[k])) \in Nat /\ Weight(c[k]) \in Nat
  BY <1>1, ViewIs
<1>4. Len(add) \in Nat /\ add \in Seq(Messages) BY DEF Sound
<1>5. \A k \in 1..Len(b) : Weight(w[k]) <= Weight(v[k])
  <2> TAKE k \in 1..Len(b)
  <2>1. k \in 1..Len(c) /\ k + 0 = k /\ 0 \in Int /\ Len(c) >= Len(b) + 0 BY <1>1, <1>2, <1>4
  <2>2. \A j \in k..Len(b) : j + 0 \in 1..Len(c) /\ c[j + 0] = b[j]
    <3> TAKE j \in k..Len(b)
    <3>1. j \in 1..Len(b) /\ j + 0 = j BY <1>2
    <3> QED BY <1>1, <1>2, <1>4, <3>1
  <2> HIDE DEF b, c
  <2>3. Within(b, c, k, 0) BY <1>2, <1>3, <2>1, <2>2 DEF Within
  <2>4. Weight(Plain(Strips(c, KeepReasoning, KeepToolArgs)[k + 0])) <=
          Weight(Plain(Strips(b, KeepReasoning, KeepToolArgs)[k]))
    BY <2>3, StripsGrown, StripAssumption
  <2>5. Weight(Plain(ViewOf(n)[k])) <= Weight(Plain(ViewOf(ms)[k]))
    BY <2>1, <2>4 DEF ViewOf, b, c
  <2> QED BY <1>2, <1>3, <2>1, <2>5
<1>6. Overhead \in Nat BY CompactionAssumption
<1>7. \A k \in 0..Len(b) : Size(w, 1, k) <= Size(v, 1, k)
  <2> TAKE k \in 0..Len(b)
  <2>1. /\ k \in Nat /\ k >= 1 - 1 /\ k <= Len(w) /\ 1 + 0 >= 1 /\ k + 0 <= Len(v)
        /\ 1 \in Nat \ {0} /\ 0 \in Int /\ 1 + 0 = 1 /\ k + 0 = k
    BY <1>1, <1>2, <1>3, <1>4
  <2>2. \A j \in 1..k : Weight(w[j]) <= Weight(v[j + 0])
    <3> TAKE j \in 1..k
    <3>1. j \in 1..Len(b) /\ j + 0 = j BY <1>2
    <3> QED BY <1>5, <3>1
  <2> HIDE DEF v, w
  <2>3. Size(w, 1, k) <= Size(v, 1 + 0, k + 0)
    BY <1>2, <1>3, <2>1, <2>2, SizeCompare
  <2> QED BY <2>1, <2>3
<1> HIDE DEF b, c, v, w
<1>8. ASSUME NEW k, Applies(c, k)
      PROVE  \/ k \in 1..Len(b) /\ Applies(b, k) /\ c[k] = b[k]
             \/ /\ k = Len(b) + 1 /\ c[k] = add[1]
                /\ add[1].kind = "assistant" /\ add[1].usage > 0
  <2>1. /\ k \in 1..Len(c) /\ c[k].kind = "assistant" /\ c[k].usage > 0
        /\ c[k].ts >= SummaryTs(c)
    BY <1>8 DEF Applies
  <2>2. CASE k \in 1..Len(b) BY <1>1, <2>1, <2>2 DEF Applies
  <2>3. CASE k \notin 1..Len(b)
    <3>1. k - Len(b) \in 1..Len(add) /\ Len(b) + (k - Len(b)) = k
      BY <1>1, <1>2, <1>4, <2>1, <2>3
    <3>2. c[k] = add[k - Len(b)] BY <1>1, <3>1
    <3>3. k - Len(b) \notin 2..Len(add) BY <2>1, <3>2
    <3>4. k - Len(b) = 1 /\ k = Len(b) + 1 BY <1>2, <1>4, <3>1, <3>3
    <3> QED BY <2>1, <3>2, <3>4
  <2> QED BY <2>2, <2>3
<1>9. \A k \in 1..Len(b) : Applies(b, k) => Applies(c, k)
  BY <1>1, <1>2, <1>3, <1>4 DEF Applies
<1>10. add[1].kind = "assistant" /\ add[1].usage > 0 =>
         add[1].usage >= Overhead + Size(v, 1, Len(b)) + Weight(add[1])
  <2> SUFFICES ASSUME Covered(ms, req),
                      add[1].usage >= EstimateTokens(req) + Weight(add[1])
               PROVE  add[1].usage >= Overhead + Size(v, 1, Len(b)) + Weight(add[1])
    OBVIOUS
  <2>1. Size(v, 1, Len(b)) <= Size(req, 1, Len(req)) BY <1>2 DEF Covered, v
  <2>2. /\ 1 \in Nat \ {0} /\ Len(req) \in 0..Len(req) /\ Len(b) \in 0..Len(v)
        /\ 1 \in 1..Len(add)
    BY <1>2, <1>4
  <2>3. Size(v, 1, Len(b)) \in Nat /\ Size(req, 1, Len(req)) \in Nat
    BY <1>2, <2>2, SizeIsNat
  <2>4. add[1] \in Messages BY <1>4, <2>2, ElementOfSeq
  <2>5. add[1].usage \in Nat /\ Weight(add[1]) \in Nat BY <2>4, PlainIs DEF Messages
  <2>6. EstimateTokens(req) = Overhead + Size(req, 1, Len(req)) BY DEF EstimateTokens
  <2> QED BY <1>6, <2>1, <2>3, <2>5, <2>6
<1>11. Billed(n)
  <2> SUFFICES ASSUME NEW k \in 1..Len(c), Applies(c, k)
               PROVE  c[k].usage >= Overhead + Weight(Plain(c[k]))
    BY DEF Billed, c
  <2>1. CASE k \in 1..Len(b) /\ Applies(b, k) /\ c[k] = b[k]
    BY <2>1 DEF Billed, b
  <2>2. CASE /\ k = Len(b) + 1 /\ c[k] = add[1]
             /\ add[1].kind = "assistant" /\ add[1].usage > 0
    <3>1. add[1].usage >= Overhead + Size(v, 1, Len(b)) + Weight(add[1]) BY <1>10, <2>2
    <3>2. Len(b) \in 0..Len(v) /\ 1 \in Nat \ {0} BY <1>2
    <3>3. Size(v, 1, Len(b)) \in Nat BY <1>2, <3>2, SizeIsNat
    <3>4. Weight(Plain(c[k])) <= Weight(c[k]) /\ Weight(Plain(c[k])) \in Nat
          /\ Weight(c[k]) \in Nat
      BY <1>3
    <3>5. c[k] \in Messages BY <1>3, ElementOfSeq
    <3>6. c[k].usage \in Nat BY <3>5 DEF Messages
    <3> QED BY <1>6, <2>2, <3>1, <3>3, <3>4, <3>6
  <2> QED BY <1>8, <2>1, <2>2
<1>12. Gauged(n)
  <2> SUFFICES ASSUME RealUsage, i > 0 PROVE c[i].usage >= Overhead + Size(w, 1, i)
    BY DEF Gauged, c, w
  <2>1. i \in 1..Len(c) /\ Applies(c, i) /\ \A k : Applies(c, k) => k <= i
    BY <1>3, LastIs
  <2> HIDE DEF i
  <2>2. c[i] \in Messages BY <1>3, <2>1, ElementOfSeq
  <2>3. c[i].usage \in Nat BY <2>2 DEF Messages
  <2>4. 1 \in Nat \ {0} /\ i \in 0..Len(w) BY <1>3, <2>1
  <2>5. Size(w, 1, i) \in Nat BY <1>3, <2>4, SizeIsNat
  <2>6. CASE i \in 1..Len(b) /\ Applies(b, i) /\ c[i] = b[i]
    <3>1. \A k : Applies(b, k) => k <= i
      <4> TAKE k
      <4>1. Applies(b, k) => k \in 1..Len(b) BY DEF Applies
      <4> QED BY <1>9, <2>1, <4>1
    <3>2. LastApplicableUsage(b) = i /\ i > 0 BY <1>2, <2>6, <3>1, LastUnique
    <3>3. b[i].usage >= Overhead + Size(v, 1, i) BY <3>2 DEF Gauged, b, v
    <3>4. i \in 0..Len(b) /\ i \in 0..Len(v) BY <1>2, <2>6
    <3>5. Size(v, 1, i) \in Nat /\ Size(w, 1, i) <= Size(v, 1, i)
      BY <1>2, <1>7, <2>4, <3>4, SizeIsNat
    <3> QED BY <1>6, <2>3, <2>5, <2>6, <3>3, <3>5
  <2>7. CASE /\ i = Len(b) + 1 /\ c[i] = add[1]
             /\ add[1].kind = "assistant" /\ add[1].usage > 0
    <3>1. add[1].usage >= Overhead + Size(v, 1, Len(b)) + Weight(add[1]) BY <1>10, <2>7
    <3>2. i >= 1 /\ i - 1 = Len(b) BY <1>2, <2>7
    <3>3. Size(w, 1, i) = Size(w, 1, i - 1) + Weight(w[i]) BY <1>3, <2>4, <3>2, SizeNext
    <3>4. Len(b) \in 0..Len(b) /\ Len(b) \in 0..Len(v) /\ Len(b) \in 0..Len(w)
      BY <1>1, <1>2, <1>3, <1>4
    <3>5. Size(w, 1, Len(b)) <= Size(v, 1, Len(b)) /\ Size(v, 1, Len(b)) \in Nat
          /\ Size(w, 1, Len(b)) \in Nat
      BY <1>2, <1>3, <1>7, <2>4, <3>4, SizeIsNat
    <3>6. Weight(w[i]) \in Nat /\ Weight(w[i]) <= Weight(c[i]) /\ Weight(c[i]) \in Nat
      <4>1. /\ Weight(w[i]) \in Nat /\ Weight(w[i]) <= Weight(Plain(c[i]))
            /\ Weight(Plain(c[i])) <= Weight(c[i])
            /\ Weight(Plain(c[i])) \in Nat /\ Weight(c[i]) \in Nat
        BY <1>3, <2>1
      <4> QED BY <4>1
    <3> QED BY <1>6, <2>3, <2>7, <3>1, <3>2, <3>3, <3>5, <3>6
  <2> QED BY <1>8, <2>1, <2>6, <2>7
<1> QED BY <1>11, <1>12 DEF n

\* A transcript that is sent as it is covers its view.
LEMMA CoveredSelf ==
  ASSUME NEW ms, Sound(ms)
  PROVE  /\ Covered(ms, ms)
         /\ \A i \in 0..Len(Barrier(ms)) :
              Size(Bare(ViewOf(ms)), 1, i) <= Size(ms, 1, ViewStart(ms) - 1 + i)
<1> DEFINE b == Barrier(ms)
           w == Bare(ViewOf(ms))
           s == ViewStart(ms)
<1>1. /\ s \in 1..Len(ms) + 1 /\ Len(b) = Len(ms) - s + 1
      /\ \A i \in 1..Len(b) : b[i] = ms[s - 1 + i] /\ s - 1 + i \in 1..Len(ms)
  BY BarrierIs
<1>2. /\ b \in Seq(Messages) /\ Len(b) \in Nat /\ w \in Seq(Messages) /\ Len(w) = Len(b)
      /\ Len(ViewOf(ms)) = Len(b)
      /\ \A i \in 1..Len(b) :
           /\ Weight(w[i]) \in Nat /\ Weight(w[i]) <= Weight(Plain(b[i]))
           /\ Weight(Plain(b[i])) <= Weight(b[i])
           /\ Weight(Plain(b[i])) \in Nat /\ Weight(b[i]) \in Nat
  BY ViewIs
<1>3. ms \in Seq(Messages) /\ Len(ms) \in Nat BY DEF Sound
<1> HIDE DEF b, w, s
<1>4. ASSUME NEW i \in 0..Len(b) PROVE Size(w, 1, i) <= Size(ms, 1, s - 1 + i)
  <2> DEFINE d == s - 1
  <2>1. /\ d \in Int /\ 1 \in Nat \ {0} /\ i \in Nat /\ i >= 1 - 1 /\ i <= Len(w)
        /\ 1 + d >= 1 /\ i + d <= Len(ms) /\ 1 + d = s /\ i + d = s - 1 + i
        /\ d \in Nat /\ d >= 1 - 1 /\ i + d \in Nat /\ d <= i + d /\ d + 1 = s
    BY <1>1, <1>2, <1>3
  <2>2. \A j \in 1..i : Weight(w[j]) <= Weight(ms[j + d])
    <3> TAKE j \in 1..i
    <3>1. j \in 1..Len(b) /\ j + d = s - 1 + j BY <1>1, <1>2
    <3>2. b[j] = ms[j + d] BY <1>1, <3>1
    <3>3. /\ Weight(w[j]) \in Nat /\ Weight(w[j]) <= Weight(Plain(b[j]))
          /\ Weight(Plain(b[j])) <= Weight(b[j])
          /\ Weight(Plain(b[j])) \in Nat /\ Weight(b[j]) \in Nat
      BY <1>2, <3>1
    <3>4. Weight(w[j]) <= Weight(b[j]) BY <3>3
    <3> QED BY <3>2, <3>4
  <2> HIDE DEF d
  <2>3. Size(w, 1, i) <= Size(ms, 1 + d, i + d)
    BY <1>2, <1>3, <2>1, <2>2, SizeCompare
  <2>4. /\ Size(ms, 1, i + d) = Size(ms, 1, d) + Size(ms, d + 1, i + d)
        /\ Size(ms, 1, d) \in Nat /\ Size(ms, d + 1, i + d) \in Nat
    BY <1>3, <2>1, SizeSplit
  <2>5. i \in 0..Len(w) BY <1>2
  <2>6. Size(w, 1, i) \in Nat BY <1>2, <2>1, <2>5, SizeIsNat
  <2> QED BY <2>1, <2>3, <2>4, <2>6
<1>5. Covered(ms, ms)
  <2>1. Len(b) \in 0..Len(b) /\ s - 1 + Len(b) = Len(ms) BY <1>1, <1>2, <1>3
  <2>2. Size(w, 1, Len(b)) <= Size(ms, 1, Len(ms)) BY <1>4, <2>1
  <2> QED BY <1>2, <2>2 DEF Covered, w
<1> QED BY <1>4, <1>5 DEF b, w, s

\* A transcript of which nothing was measured since the summary.
LEMMA NothingMeasured ==
  ASSUME NEW ms, Sound(ms),
         \A i \in 1..Len(ms) :
           ms[i].kind = "assistant" /\ ms[i].usage > 0 => ms[i].ts < SummaryTs(ms)
  PROVE  Billed(ms) /\ Gauged(ms)
<1> DEFINE b == Barrier(ms)
<1>1. /\ \A i \in 1..Len(b) :
           b[i] = ms[ViewStart(ms) - 1 + i] /\ ViewStart(ms) - 1 + i \in 1..Len(ms)
      /\ Sound(b) /\ SummaryTs(b) = SummaryTs(ms)
  BY BarrierIs
<1>2. b \in Seq(Messages) BY <1>1 DEF Sound
<1>3. SummaryTs(ms) \in Nat
  <2>1. ms \in Seq(Messages) BY DEF Sound
  <2>2. LatestSummary(ms) \in 0..Len(ms) BY <2>1, LatestIs
  <2>3. CASE LatestSummary(ms) = 0
    BY <2>3 DEF SummaryTs
  <2>4. CASE LatestSummary(ms) # 0
    <3>1. ms[LatestSummary(ms)] \in Messages
      <4>1. LatestSummary(ms) \in 1..Len(ms) BY <2>1, <2>2, <2>4
      <4> QED BY <2>1, <4>1, ElementOfSeq
    <3>2. ms[LatestSummary(ms)].ts \in Nat BY <3>1 DEF Messages
    <3> QED BY <2>4, <3>2 DEF SummaryTs
  <2> QED BY <2>3, <2>4
<1> HIDE DEF b
<1>4. \A i \in 1..Len(b) : ~Applies(b, i)
  <2> SUFFICES ASSUME NEW i \in 1..Len(b), Applies(b, i) PROVE FALSE OBVIOUS
  <2>1. /\ b[i].kind = "assistant" /\ b[i].usage > 0 /\ b[i].ts >= SummaryTs(ms)
    BY <1>1 DEF Applies
  <2>2. b[i].ts < SummaryTs(ms) BY <1>1, <2>1
  <2>3. b[i] \in Messages BY <1>2, ElementOfSeq
  <2>4. b[i].ts \in Nat BY <2>3 DEF Messages
  <2> QED BY <1>3, <2>1, <2>2, <2>4
<1>5. ~(LastApplicableUsage(b) > 0)
  <2>1. LastApplicableUsage(b) > 0 => Applies(b, LastApplicableUsage(b)) BY <1>2, LastIs
  <2>2. Applies(b, LastApplicableUsage(b)) => LastApplicableUsage(b) \in 1..Len(b)
    BY DEF Applies
  <2> QED BY <1>4, <2>1, <2>2
<1>6. Billed(ms) BY <1>4 DEF Billed, b
<1>7. Gauged(ms) BY <1>5 DEF Gauged, b
<1> QED BY <1>6, <1>7

\* What is usable of the window is no less than the target.
LEMMA TargetIsUsable == Target \in Nat /\ Usable \in Nat /\ Usable >= Target
<1> DEFINE q == Window \div 5
           s == Smaller(Reserved, q)
<1>1. Window \in Nat /\ Reserved \in Nat BY CompactionAssumption
<1>2. q \in Nat /\ 5 * q <= Window BY <1>1
<1>3. Target \in Nat /\ 5 * Target <= 4 * Window BY <1>1 DEF Target
<1> HIDE DEF q
<1>4. s \in Nat /\ s <= q BY <1>1, <1>2 DEF Smaller
<1>5. Usable = Window - s BY DEF Usable, q
<1> HIDE DEF s
<1> QED BY <1>1, <1>2, <1>3, <1>4, <1>5

-----------------------------------------------------------------------------
(* A lossy step keeps what was measured.                                   *)

\* What a lossy step makes of a transcript.
LossyOf(ms, final) ==
  final = Trimmed(Strips(CompactHistory(Barrier(ms)), KeepReasoning, KeepToolArgs))

\* A response the endpoint measured is found again after a lossy step, at the end of
\* the view or at its front.
LEMMA LossyApplies ==
  ASSUME NEW ms, Sound(ms), Len(ms) >= 1, NEW final, Sound(final),
         LossyOf(ms, final),
         SummaryTs(final) = SummaryTs(ms)
  PROVE  \E e \in Int :
           /\ Len(final) = Len(Barrier(ms)) - e
           /\ \A i : Applies(Barrier(final), i) =>
                LET k == ViewStart(final) - 1 + i
                IN /\ k \in 1..Len(final) /\ Barrier(final)[i] = final[k]
                   /\ \/ /\ EndsAs(Barrier(ms), ViewOf(ms), final, k, e)
                         /\ Applies(Barrier(ms), k + e)
                      \/ /\ i = 1 /\ k = 1 /\ Applies(Barrier(ms), 1)
                         /\ Like(Barrier(ms)[1], final[1])
                         /\ Weight(Plain(final[1])) <= Weight(Plain(Barrier(ms)[1]))
<1> DEFINE b == Barrier(ms)
           c == Barrier(final)
           v == ViewOf(ms)
           s == ViewStart(final)
<1>1. /\ Sound(b) /\ Fronted(b) /\ SummaryTs(b) = SummaryTs(ms)
      /\ ViewStart(ms) \in 1..Len(ms) + 1 /\ Len(b) = Len(ms) - ViewStart(ms) + 1
  BY BarrierIs
<1>2. /\ s \in 1..Len(final) + 1 /\ Len(c) = Len(final) - s + 1
      /\ \A i \in 1..Len(c) : c[i] = final[s - 1 + i] /\ s - 1 + i \in 1..Len(final)
      /\ SummaryTs(c) = SummaryTs(final)
  BY BarrierIs
<1>3. ms \in Seq(Messages) /\ b \in Seq(Messages) /\ final \in Seq(Messages)
  BY <1>1 DEF Sound
<1>4. Len(b) >= 1 BY <1>3, BarrierEnds
<1>5. KeepReasoning \in Nat /\ KeepToolArgs \in Nat BY StripAssumption
<1>6. v = Strips(b, KeepReasoning, KeepToolArgs) BY DEF ViewOf
<1>7. final = Trimmed(Strips(CompactHistory(b), KeepReasoning, KeepToolArgs))
  BY DEF LossyOf
<1> HIDE DEF b, c, v, s
<1>8. PICK e \in Int :
        /\ Len(final) = Len(b) - e
        /\ \A k \in 1..Len(final) : final[k].kind = "assistant" =>
             \/ EndsAs(b, Strips(b, KeepReasoning, KeepToolArgs), final, k, e)
             \/ /\ k = 1 /\ Like(b[1], final[1])
                /\ Weight(Plain(final[1])) <= Weight(Plain(b[1]))
  BY <1>1, <1>4, <1>5, <1>7, LossyEnds
<1>9. ASSUME NEW i, Applies(c, i)
      PROVE  /\ s - 1 + i \in 1..Len(final) /\ c[i] = final[s - 1 + i]
             /\ \/ /\ EndsAs(b, v, final, s - 1 + i, e)
                   /\ Applies(b, (s - 1 + i) + e)
                \/ /\ i = 1 /\ s - 1 + i = 1 /\ Applies(b, 1) /\ Like(b[1], final[1])
                   /\ Weight(Plain(final[1])) <= Weight(Plain(b[1]))
  <2>1. /\ i \in 1..Len(c) /\ c[i].kind = "assistant" /\ c[i].usage > 0
        /\ c[i].ts >= SummaryTs(c)
    BY <1>9 DEF Applies
  <2> DEFINE k == s - 1 + i
  <2>2. k \in 1..Len(final) /\ c[i] = final[k] BY <1>2, <2>1
  <2>3. k = 1 => i = 1
    <3>1. s \in Int /\ s >= 1 /\ i \in Int /\ i >= 1 BY <1>2, <1>3, <2>1
    <3> QED BY <3>1
  <2> HIDE DEF k
  <2>4. CASE EndsAs(b, v, final, k, e)
    <3>1. Len(final) \in Nat /\ k \in k..Len(final) BY <1>3, <2>2
    <3>2. k + e \in 1..Len(b) /\ Like(b[k + e], final[k]) BY <2>4, <3>1 DEF EndsAs
    <3>3. Applies(b, k + e) BY <1>1, <1>2, <2>1, <2>2, <3>2 DEF Applies, Like
    <3> QED BY <2>2, <2>4, <3>3 DEF k
  <2>5. CASE /\ k = 1 /\ Like(b[1], final[1])
             /\ Weight(Plain(final[1])) <= Weight(Plain(b[1]))
    <3>1. 1 \in 1..Len(b) BY <1>3, <1>4
    <3>2. Applies(b, 1) BY <1>1, <1>2, <2>1, <2>2, <2>5, <3>1 DEF Applies, Like
    <3> QED BY <2>2, <2>3, <2>5, <3>2 DEF k
  <2> QED BY <1>6, <1>8, <2>1, <2>2, <2>4, <2>5
<1> QED BY <1>8, <1>9 DEF b, c, v, s

\* The last measured response of final is the (k + e)-th message of what ms shows, and
\* what comes after it is the rest of the view.
LastKept(ms, final, k, e) ==
  /\ LastApplicableUsage(Barrier(final)) > 0
  /\ k = ViewStart(final) - 1 + LastApplicableUsage(Barrier(final))
  /\ SummaryTs(final) = SummaryTs(ms) /\ Len(final) = Len(Barrier(ms)) - e
  /\ EndsAs(Barrier(ms), ViewOf(ms), final, k, e) /\ Applies(Barrier(ms), k + e)

\* It is the last of the view too: what made the view too large leaves its usage above
\* what is kept up to it.
LEMMA LossyLast ==
  ASSUME NEW ms, Sound(ms), NEW final, Sound(final), NEW k, NEW e \in Int,
         LastKept(ms, final, k, e), EstimateTokens(final) <= Target, RealUsage,
         Forced(ms) \/ ~(Threshold(ViewOf(ms)) <= Target)
  PROVE  final[k].usage >= Overhead + Size(final, 1, k)
<1> DEFINE b == Barrier(ms)
           c == Barrier(final)
           v == ViewOf(ms)
           s == ViewStart(final)
           i == LastApplicableUsage(c)
           n == Len(final)
           u == final[k].usage
<1>1. /\ s \in 1..n + 1 /\ Len(c) = n - s + 1
      /\ \A j \in 1..Len(c) : c[j] = final[s - 1 + j] /\ s - 1 + j \in 1..n
      /\ SummaryTs(c) = SummaryTs(final) /\ Sound(c)
  BY BarrierIs
<1>2. /\ b \in Seq(Messages) /\ Len(b) \in Nat /\ Sound(b) /\ Alike(b, v)
      /\ v \in Seq(Messages) /\ Len(v) = Len(b)
  BY ViewIs
<1>3. /\ ViewStart(ms) \in 1..Len(ms) + 1 /\ Len(b) = Len(ms) - ViewStart(ms) + 1
      /\ \A j \in 1..Len(b) : b[j] = ms[ViewStart(ms) - 1 + j]
      /\ SummaryTs(b) = SummaryTs(ms)
  BY BarrierIs
<1>4. final \in Seq(Messages) /\ n \in Nat /\ c \in Seq(Messages) BY <1>1 DEF Sound
<1>5. i \in 1..Len(c) /\ \A j : Applies(c, j) => j <= i
  <2>1. Applies(c, i) /\ \A j : Applies(c, j) => j <= i BY <1>4, LastIs DEF LastKept
  <2> QED BY <2>1 DEF Applies
<1>6. k \in 1..n /\ k = s - 1 + i /\ c[i] = final[k] BY <1>1, <1>5 DEF LastKept
<1>7. /\ Len(final) = Len(b) - e /\ EndsAs(b, v, final, k, e) /\ Applies(b, k + e)
      /\ SummaryTs(final) = SummaryTs(ms)
  BY DEF LastKept
<1> HIDE DEF b, c, v, s, i
<1>8. \A j : Applies(b, j) => j <= k + e
  <2> SUFFICES ASSUME NEW j, Applies(b, j), ~(j <= k + e) PROVE FALSE OBVIOUS
  <2>1. /\ j \in 1..Len(b) /\ b[j].kind = "assistant" /\ b[j].usage > 0
        /\ b[j].ts >= SummaryTs(b)
    BY DEF Applies
  <2> DEFINE m == j - e
             h == m - s + 1
  <2>2. m \in k..n /\ m + e = j /\ h \in 1..Len(c) /\ s - 1 + h = m /\ ~(h <= i)
    BY <1>1, <1>2, <1>4, <1>5, <1>6, <1>7, <2>1
  <2> HIDE DEF m, h
  <2>3. Like(b[m + e], final[m]) BY <1>7, <2>2 DEF EndsAs
  <2>4. c[h] = final[m] BY <1>1, <2>2
  <2>5. Applies(c, h) BY <1>1, <1>3, <1>7, <2>1, <2>2, <2>3, <2>4 DEF Applies, Like
  <2> QED BY <1>5, <2>2, <2>5
<1> DEFINE p == k + e
<1>9. LastApplicableUsage(b) = p /\ p > 0 BY <1>2, <1>7, <1>8, LastUnique
<1>10. p \in 1..Len(b) /\ b[p].usage = u
  <2>1. k \in k..n BY <1>4, <1>6
  <2> QED BY <1>7, <2>1 DEF EndsAs, Like
<1>11. LastApplicableUsage(ms) = ViewStart(ms) - 1 + p /\ b[p] = ms[ViewStart(ms) - 1 + p]
  <2>1. LastApplicableUsage(Barrier(ms)) > 0 BY <1>9 DEF b
  <2>2. LastApplicableUsage(ms) = ViewStart(ms) - 1 + LastApplicableUsage(Barrier(ms))
    BY <2>1, LastBarrier
  <2> QED BY <1>3, <1>9, <1>10, <2>2 DEF b
<1>12. LastApplicableUsage(v) = p /\ v[p].usage = u BY <1>2, <1>9, <1>10, LastAlike
<1> HIDE DEF p, n
<1>13. u \in Nat
  <2>1. final[k] \in Messages BY <1>4, <1>6, ElementOfSeq DEF n
  <2> QED BY <2>1 DEF Messages
<1> HIDE DEF u
<1>14. /\ Size(final, 1, n) = Size(final, 1, k) + Size(final, k + 1, n)
       /\ Size(final, 1, k) \in Nat /\ Size(final, k + 1, n) \in Nat
  <2>1. 1 \in Nat \ {0} /\ k \in Nat /\ n \in Nat /\ k >= 1 - 1 /\ k <= n /\ n <= Len(final)
    BY <1>4, <1>6 DEF n
  <2> QED BY <1>4, <2>1, SizeSplit
<1>15. Overhead \in Nat /\ EstimateTokens(final) = Overhead + Size(final, 1, n)
  BY CompactionAssumption DEF EstimateTokens, n
<1>16. Overhead + Size(final, 1, k) + Size(final, k + 1, n) <= Target
  BY <1>14, <1>15
<1>17. Target \in Nat /\ Usable \in Nat /\ Usable >= Target BY TargetIsUsable
<1>18. CASE Forced(ms)
  <2>1. ms[LastApplicableUsage(ms)].usage >= Usable BY <1>18 DEF Forced
  <2>2. u >= Usable BY <1>10, <1>11, <2>1
  <2> QED BY <1>13, <1>14, <1>15, <1>16, <1>17, <2>2 DEF u
<1>19. CASE ~(Threshold(v) <= Target)
  <2>1. Threshold(v) = u + Size(v, p + 1, Len(v)) BY <1>9, <1>12 DEF Threshold
  <2>2. Size(v, p + 1, Len(v)) <= Size(final, k + 1, n)
    <3> DEFINE d == 0 - e
               a == p + 1
    <3> DEFINE y == Len(b)
    <3>0. y \in Nat /\ Len(v) = y /\ Len(final) = n /\ n = y - e /\ p \in 1..y
      BY <1>2, <1>7, <1>10 DEF n
    <3> HIDE DEF y
    <3>5. k \in Int /\ k >= 1 /\ n \in Int /\ p = k + e /\ p \in Int
      BY <1>4, <1>6, <3>0 DEF p
    <3>6. d \in Int /\ a \in Nat \ {0} /\ a + d = k + 1 /\ y + d = n
      BY <3>0, <3>5
    <3>7. a + d >= 1 /\ y >= a - 1 BY <3>0, <3>5, <3>6
    <3>1. /\ d \in Int /\ a \in Nat \ {0} /\ Len(v) \in Nat /\ Len(v) >= a - 1
          /\ a + d = k + 1 /\ Len(v) + d = n /\ a + d >= 1 /\ Len(v) + d <= Len(final)
      <4> HIDE DEF d, a
      <4> QED BY <3>0, <3>5, <3>6, <3>7
    <3>2. \A j \in a..Len(v) : Weight(v[j]) <= Weight(final[j + d])
      <4> TAKE j \in a..Len(v)
      <4>1. j + d \in k..n /\ (j + d) + e = j /\ j \in 1..Len(v)
        BY <1>2, <1>4, <1>6, <1>7, <1>10, <3>1
      <4>2. Weight(v[j]) = Weight(final[j + d]) BY <1>7, <4>1 DEF EndsAs, n
      <4>3. v[j] \in Messages BY <1>2, <4>1, ElementOfSeq
      <4>4. Weight(v[j]) \in Nat BY <4>3, PlainIs
      <4> QED BY <4>2, <4>4
    <3>3. Len(v) <= Len(v) BY <1>2
    <3> HIDE DEF d, a
    <3>4. Size(v, a, Len(v)) <= Size(final, a + d, Len(v) + d)
      BY <1>2, <1>4, <3>1, <3>2, <3>3, SizeCompare
    <3> QED BY <3>1, <3>4 DEF a
  <2>3. Size(v, p + 1, Len(v)) \in Nat
    <3>1. p + 1 \in Nat \ {0} /\ Len(v) \in 0..Len(v) BY <1>2, <1>10
    <3> QED BY <1>2, <3>1, SizeIsNat
  <2>4. ~(u + Size(v, p + 1, Len(v)) <= Target) BY <1>19, <2>1
  <2>5. u >= Overhead + Size(final, 1, k)
    BY <1>13, <1>14, <1>15, <1>16, <1>17, <2>2, <2>3, <2>4
  <2> QED BY <2>5 DEF u
<1>20. Forced(ms) \/ ~(Threshold(v) <= Target) BY DEF v
<1> QED BY <1>18, <1>19, <1>20

\* What a lossy step leaves of what was measured still covers what it keeps.
LEMMA LossyGauged ==
  ASSUME NEW ms, Sound(ms), Len(ms) >= 1, NEW final, Sound(final),
         LossyOf(ms, final),
         Forced(ms) \/ ~(Threshold(ViewOf(ms)) <= Target),
         EstimateTokens(final) <= Target,
         SummaryTs(final) = SummaryTs(ms), Billed(ms)
  PROVE  Billed(final) /\ Gauged(final)
<1> DEFINE b == Barrier(ms)
           c == Barrier(final)
           v == ViewOf(ms)
           w == Bare(ViewOf(final))
           s == ViewStart(final)
<1>1. PICK e \in Int :
        /\ Len(final) = Len(b) - e
        /\ \A i : Applies(c, i) =>
             LET k == s - 1 + i
             IN /\ k \in 1..Len(final) /\ c[i] = final[k]
                /\ \/ EndsAs(b, v, final, k, e) /\ Applies(b, k + e)
                   \/ /\ i = 1 /\ k = 1 /\ Applies(b, 1) /\ Like(b[1], final[1])
                      /\ Weight(Plain(final[1])) <= Weight(Plain(b[1]))
  BY LossyApplies
<1>2. /\ b \in Seq(Messages) /\ Len(b) \in Nat
      /\ \A j \in 1..Len(b) : Weight(Plain(b[j])) \in Nat
  <2>1. b \in Seq(Messages) /\ Len(b) \in Nat BY ViewIs
  <2>2. ASSUME NEW j \in 1..Len(b) PROVE Weight(Plain(b[j])) \in Nat
    <3>1. b[j] \in Messages BY <2>1, ElementOfSeq
    <3> QED BY <3>1, PlainIs
  <2> QED BY <2>1, <2>2
<1>3. /\ c \in Seq(Messages) /\ Len(c) \in Nat /\ w \in Seq(Messages) /\ Len(w) = Len(c)
      /\ \A j \in 1..Len(c) :
           /\ Weight(w[j]) \in Nat /\ Weight(w[j]) <= Weight(Plain(c[j]))
           /\ Weight(Plain(c[j])) \in Nat
  BY ViewIs
<1>4. \A j \in 1..Len(b) : Applies(b, j) => b[j].usage >= Overhead + Weight(Plain(b[j]))
  BY DEF Billed
<1>5. \A j \in 0..Len(c) : Size(w, 1, j) <= Size(final, 1, s - 1 + j)
  BY CoveredSelf
<1>6. final \in Seq(Messages) /\ Len(final) \in Nat /\ Overhead \in Nat
  BY CompactionAssumption DEF Sound
<1> HIDE DEF b, c, v, w, s
<1>7. ASSUME NEW i \in 1..Len(c), Applies(c, i)
      PROVE  c[i].usage >= Overhead + Weight(Plain(c[i])) /\ c[i].usage \in Nat
  <2> DEFINE k == s - 1 + i
  <2>1. /\ k \in 1..Len(final) /\ c[i] = final[k]
        /\ \/ EndsAs(b, v, final, k, e) /\ Applies(b, k + e)
           \/ /\ k = 1 /\ Applies(b, 1) /\ Like(b[1], final[1])
              /\ Weight(Plain(final[1])) <= Weight(Plain(b[1]))
    BY <1>1, <1>7
  <2> HIDE DEF k
  <2>2. PICK p \in 1..Len(b) : /\ Applies(b, p) /\ Like(b[p], final[k])
                               /\ Weight(Plain(final[k])) <= Weight(Plain(b[p]))
    <3>1. CASE EndsAs(b, v, final, k, e) /\ Applies(b, k + e)
      <4>1. k \in k..Len(final) BY <1>6, <2>1
      <4>2. /\ k + e \in 1..Len(b) /\ Like(b[k + e], final[k])
            /\ Weight(Plain(final[k])) <= Weight(Plain(b[k + e]))
        BY <3>1, <4>1 DEF EndsAs
      <4> QED BY <3>1, <4>2
    <3>2. CASE /\ k = 1 /\ Applies(b, 1) /\ Like(b[1], final[1])
               /\ Weight(Plain(final[1])) <= Weight(Plain(b[1]))
      <4>1. 1 \in 1..Len(b) BY <3>2 DEF Applies
      <4> QED BY <3>2, <4>1
    <3> QED BY <2>1, <3>1, <3>2
  <2>3. final[k].usage = b[p].usage /\ b[p].usage >= Overhead + Weight(Plain(b[p]))
    BY <1>4, <2>2 DEF Like
  <2>4. Weight(Plain(b[p])) \in Nat BY <1>2
  <2>5. Weight(Plain(final[k])) \in Nat BY <1>3, <2>1
  <2>6. b[p].usage \in Nat
    <3>1. b[p] \in Messages BY <1>2, ElementOfSeq
    <3> QED BY <3>1 DEF Messages
  <2>7. final[k].usage >= Overhead + Weight(Plain(final[k])) /\ final[k].usage \in Nat
    BY <1>6, <2>2, <2>3, <2>4, <2>5, <2>6
  <2> QED BY <2>1, <2>7
<1>8. Billed(final) BY <1>7 DEF Billed, c
<1>9. Gauged(final)
  <2> DEFINE i == LastApplicableUsage(c)
             k == s - 1 + i
  <2> SUFFICES ASSUME RealUsage, i > 0 PROVE c[i].usage >= Overhead + Size(w, 1, i)
    BY DEF Gauged, c, w
  <2>1. Applies(c, i) BY <1>3, LastIs
  <2>2. i \in 1..Len(c) /\ i \in 0..Len(c) /\ i \in 0..Len(w)
    <3>1. i \in 1..Len(c) BY <2>1 DEF Applies
    <3> QED BY <1>3, <3>1
  <2>3. /\ k \in 1..Len(final) /\ c[i] = final[k]
        /\ \/ EndsAs(b, v, final, k, e) /\ Applies(b, k + e)
           \/ i = 1
    BY <1>1, <2>1
  <2>4. 1 \in Nat \ {0} BY <1>3
  <2>5. CASE EndsAs(b, v, final, k, e) /\ Applies(b, k + e)
    <3>1. final[k].usage >= Overhead + Size(final, 1, k)
      <4>1. LastKept(ms, final, k, e) BY <1>1, <2>5 DEF LastKept, b, v, c, s
      <4> QED BY <4>1, LossyLast
    <3>2. Size(w, 1, i) <= Size(final, 1, k) BY <1>5, <2>2
    <3>3. Size(w, 1, i) \in Nat BY <1>3, <2>2, <2>4, SizeIsNat
    <3>4. k \in 0..Len(final) BY <1>6, <2>3
    <3>5. Size(final, 1, k) \in Nat BY <1>6, <2>4, <3>4, SizeIsNat
    <3>6. c[i].usage \in Nat BY <1>7, <2>1, <2>2
    <3> QED BY <1>6, <2>3, <3>1, <3>2, <3>3, <3>5, <3>6
  <2>6. CASE i = 1
    <3>1. c[i].usage >= Overhead + Weight(Plain(c[i])) /\ c[i].usage \in Nat
      BY <1>7, <2>1, <2>2
    <3>2. /\ Weight(w[i]) \in Nat /\ Weight(w[i]) <= Weight(Plain(c[i]))
          /\ Weight(Plain(c[i])) \in Nat
      BY <1>3, <2>2
    <3>3. Size(w, 1, i) = Size(w, 1, i - 1) + Weight(w[i]) /\ Size(w, 1, i - 1) = 0
      <4>1. i >= 1 /\ i - 1 \in 0..Len(w) /\ i - 1 < 1 BY <1>3, <2>2, <2>6
      <4>2. Size(w, 1, i - 1) = 0 BY <1>3, <2>4, <4>1, SizeNext
      <4>3. Size(w, 1, i) = Size(w, 1, i - 1) + Weight(w[i])
        BY <1>3, <2>2, <2>4, <4>1, SizeNext
      <4> QED BY <4>2, <4>3
    <3> QED BY <1>6, <3>1, <3>2, <3>3
  <2> QED BY <2>3, <2>5, <2>6
<1> QED BY <1>8, <1>9

-----------------------------------------------------------------------------
(* A transcript that the retry has trimmed.                                *)

\* Whether a message is folded depends on what messages are, not on their sizes.
LEMMA AlikeFold ==
  ASSUME NEW ms, NEW ns, Alike(ms, ns), Sound(ms), NEW n \in Nat, NEW k \in 1..Len(ms)
  PROVE  /\ TextFolds(ms, n, k) => TextFolds(ns, n, k)
         /\ ArgsFold(ms, n, k) => ArgsFold(ns, n, k)
         /\ ArgsCut(ms, n, k) => ArgsCut(ns, n, k)
<1>1. /\ ms \in Seq(Messages) /\ ns \in Seq(Messages) /\ Len(ns) = Len(ms)
      /\ Len(ms) \in Nat /\ DOMAIN ms = 1..Len(ms) /\ DOMAIN ns = 1..Len(ms)
  BY DEF Alike
<1>2. \A j \in 1..Len(ms) : /\ ns[j].kind = ms[j].kind /\ ns[j].call = ms[j].call
                            /\ ns[j].ok = ms[j].ok
  BY DEF Alike, Like
<1>3. Responses(ns) = Responses(ms) BY AlikeSame
<1>4. LatestResponses(ns, n) = LatestResponses(ms, n) BY <1>3 DEF LatestResponses
<1>5. WindowStart(ns, n) = WindowStart(ms, n) BY <1>1, <1>3, <1>4 DEF WindowStart
<1>6. ReadAgain(ms, k) => ReadAgain(ns, k) BY <1>1, <1>2, Zenon DEF ReadAgain
<1>7. WrittenAfter(ms, k) => WrittenAfter(ns, k)
  <2> SUFFICES ASSUME NEW w \in 1..Len(ms), w > k, Is(ms[w], "assistant", "write"),
                      ms[w].call.on = ms[k].call.on,
                      ~(w < Len(ms) /\ ms[w + 1].kind = "tool" /\ ~ms[w + 1].ok)
               PROVE  WrittenAfter(ns, k)
    BY <1>1, Zenon DEF WrittenAfter
  <2>1. w < Len(ms) => w + 1 \in 1..Len(ms) BY <1>1
  <2>2. ~(w < Len(ns) /\ ns[w + 1].kind = "tool" /\ ~ns[w + 1].ok) BY <1>1, <1>2, <2>1
  <2>3. Is(ns[w], "assistant", "write") /\ ns[w].call.on = ns[k].call.on BY <1>2 DEF Is
  <2> QED BY <1>1, <2>2, <2>3, Zenon DEF WrittenAfter
<1>8. ASSUME NEW p \in 1..Len(ms), RunAgain(ms, WindowStart(ms, n), p)
      PROVE  RunAgain(ns, WindowStart(ns, n), p)
  <2>1. PICK j \in 1..Len(ms) : /\ j > p /\ Is(ms[j], "assistant", "shell")
                                /\ ms[j].call.on = ms[p].call.on
    BY <1>1, <1>8, Zenon DEF RunAgain
  <2>2. Is(ms[p], "assistant", "shell") /\ p < WindowStart(ms, n) BY <1>8, Zenon DEF RunAgain
  <2>3. /\ Is(ns[p], "assistant", "shell") /\ Is(ns[j], "assistant", "shell")
        /\ ns[j].call.on = ns[p].call.on
    BY <1>2, <2>1, <2>2 DEF Is
  <2> QED BY <1>1, <1>5, <2>1, <2>2, <2>3, Zenon DEF RunAgain
<1>9. Is(ms[k], "tool", "shell") => k - 1 \in 1..Len(ms)
  <2>1. ms[k].kind = "tool" => k > 1 BY DEF Sound, Answering
  <2> QED BY <1>1, <2>1 DEF Is
<1>10. \A kind, name : Is(ns[k], kind, name) <=> Is(ms[k], kind, name) BY <1>2 DEF Is
<1>11. TextFolds(ms, n, k) => TextFolds(ns, n, k)
  BY <1>5, <1>6, <1>7, <1>8, <1>9, <1>10, Zenon DEF TextFolds
<1>12. ArgsFold(ms, n, k) => ArgsFold(ns, n, k)
  BY <1>5, <1>7, <1>8, <1>10, Zenon DEF ArgsFold
<1>13. ArgsCut(ms, n, k) => ArgsCut(ns, n, k) BY <1>4, <1>10, Zenon DEF ArgsCut
<1> QED BY <1>11, <1>12, <1>13

\* A message of which the retry left less counts less,
LEMMA TrimmedPlain ==
  ASSUME NEW m \in Messages, NEW n \in Messages, n.call = m.call, n.args = m.args,
         n.think <= m.think,
         \/ n.text = m.text /\ n.whole = m.whole
         \/ n.text <= m.text /\ n.text = TrimCap /\ n.whole = FALSE
  PROVE  Weight(Plain(n)) <= Weight(Plain(m))
<1>1. /\ m.text \in Nat /\ m.think \in Nat /\ m.args \in Nat
      /\ n.text \in Nat /\ n.think \in Nat /\ n.args \in Nat /\ Marker \in Nat
  BY PlainIs, StripAssumption
<1>2. PlainText(n) \in Nat /\ PlainText(m) \in Nat /\ PlainText(n) <= PlainText(m)
  BY <1>1 DEF PlainText
<1>3. PlainArgs(n) \in Nat /\ PlainArgs(m) = PlainArgs(n) BY <1>1 DEF PlainArgs
<1>4. Weight(Plain(n)) = PlainText(n) + n.think + PlainArgs(n) BY PlainIs
<1>5. Weight(Plain(m)) = PlainText(m) + m.think + PlainArgs(m) BY PlainIs
<1> QED BY <1>1, <1>2, <1>3, <1>4, <1>5

\* also after the strips.
LEMMA TrimmedStrips ==
  ASSUME NEW ms, NEW ns, Alike(ms, ns), Sound(ms), NEW k \in 1..Len(ms),
         TrimmedTo(ms[k], ns[k]), NEW r \in Nat, NEW n \in Nat
  PROVE  /\ Weight(Plain(ns[k])) <= Weight(Plain(ms[k]))
         /\ Weight(Plain(Strips(ns, r, n)[k])) <= Weight(Plain(Strips(ms, r, n)[k]))
<1> DEFINE o == ms[k]
           p == ns[k]
           a == Strips(ms, r, n)[k]
           b == Strips(ns, r, n)[k]
<1>1. /\ ms \in Seq(Messages) /\ ns \in Seq(Messages) /\ Len(ns) = Len(ms)
      /\ k \in 1..Len(ns) /\ p.call = o.call
  BY DEF Alike, Like
<1>2. o \in Messages /\ p \in Messages BY <1>1, ElementOfSeq
<1>3. Sound(ns) BY AlikeSound
<1>4. Alike(ns, ms) BY DEF Alike, Like
<1>5. /\ TextFolds(ms, n, k) <=> TextFolds(ns, n, k)
      /\ ArgsFold(ms, n, k) <=> ArgsFold(ns, n, k)
      /\ ArgsCut(ms, n, k) <=> ArgsCut(ns, n, k)
  BY <1>1, <1>3, <1>4, AlikeFold
<1>6. a \in Messages /\ a.call = o.call /\ StripsTo(ms, r, n, k, a)
  BY <1>1, StripsPlain, StripsAre
<1>7. b \in Messages /\ b.call = p.call /\ StripsTo(ns, r, n, k, b)
  BY <1>1, StripsPlain, StripsAre
<1>8. /\ p.think = 0 /\ p.args = o.args
      /\ \/ p.text = o.text /\ p.whole = o.whole
         \/ p.text <= o.text /\ p.text = TrimCap /\ p.whole = FALSE
  <2>1. /\ o.text \in Nat /\ TrimCap \in Nat /\ o.whole \in BOOLEAN
    BY <1>2, CompactionAssumption DEF Messages
  <2>2. TrimmedTo(o, p) OBVIOUS
  <2> HIDE DEF o, p
  <2>3. p.think = 0 /\ p.args = o.args BY <2>2 DEF TrimmedTo
  <2>4. CASE o.kind = "tool" /\ ~(o.text <= TrimCap)
    <3>1. p.text = Smaller(o.text, TrimCap) /\ p.whole = FALSE
      BY <2>2, <2>4, Zenon DEF TrimmedTo
    <3> QED BY <2>1, <2>3, <2>4, <3>1 DEF Smaller
  <2>5. CASE o.kind = "tool" /\ o.text <= TrimCap
    <3>1. p.text = Smaller(o.text, TrimCap) /\ p.whole = o.whole
      <4>1. p.whole = (o.whole /\ o.text <= TrimCap) BY <2>2, <2>5, Zenon DEF TrimmedTo
      <4>2. o.whole = TRUE \/ o.whole = FALSE BY <2>1
      <4>3. p.whole = o.whole BY <2>5, <4>1, <4>2, Zenon
      <4> QED BY <2>2, <2>5, <4>3, Zenon DEF TrimmedTo
    <3>2. p.text = o.text BY <2>1, <2>5, <3>1 DEF Smaller
    <3> QED BY <2>3, <3>1, <3>2
  <2>6. CASE o.kind # "tool" BY <2>2, <2>3, <2>6, Zenon DEF TrimmedTo
  <2> QED BY <2>4, <2>5, <2>6
<1> HIDE DEF o, p, a, b
<1>9. Weight(Plain(p)) <= Weight(Plain(o))
  <2>1. p.think <= o.think BY <1>2, <1>8, PlainIs
  <2> QED BY <1>1, <1>2, <1>8, <2>1, TrimmedPlain DEF o, p
<1>10. b.think <= a.think
  <2>1. b.think = 0
    <3>1. b.think = IF k \in LatestResponses(ns, r) THEN Smaller(p.think, ReasoningCap) ELSE 0
      BY <1>7 DEF StripsTo, p
    <3>2. Smaller(0, ReasoningCap) = 0 BY StripAssumption DEF Smaller
    <3> QED BY <1>8, <3>1, <3>2
  <2> QED BY <1>6, <2>1, PlainIs
<1>11. b.args = a.args
  <2>1. a.args = IF ArgsFold(ms, n, k) THEN Marker
                 ELSE IF ArgsCut(ms, n, k) THEN Smaller(o.args, ArgsCap) ELSE o.args
    BY <1>6 DEF StripsTo, o
  <2>2. b.args = IF ArgsFold(ns, n, k) THEN Marker
                 ELSE IF ArgsCut(ns, n, k) THEN Smaller(p.args, ArgsCap) ELSE p.args
    BY <1>7 DEF StripsTo, p
  <2> QED BY <1>5, <1>8, <2>1, <2>2, Zenon
<1>12. \/ b.text = a.text /\ b.whole = a.whole
       \/ b.text <= a.text /\ b.text = TrimCap /\ b.whole = FALSE
  <2>1. /\ a.text = IF TextFolds(ms, n, k) THEN Marker ELSE o.text
        /\ a.whole = IF TextFolds(ms, n, k) THEN FALSE ELSE o.whole
    BY <1>6 DEF StripsTo, o
  <2>2. /\ b.text = IF TextFolds(ns, n, k) THEN Marker ELSE p.text
        /\ b.whole = IF TextFolds(ns, n, k) THEN FALSE ELSE p.whole
    BY <1>7 DEF StripsTo, p
  <2> QED BY <1>5, <1>8, <2>1, <2>2
<1>13. b.call = a.call BY <1>1, <1>6, <1>7 DEF o, p
<1>14. Weight(Plain(b)) <= Weight(Plain(a))
  BY <1>6, <1>7, <1>10, <1>11, <1>12, <1>13, TrimmedPlain
<1> QED BY <1>9, <1>14 DEF a, b, o, p

\* So what was measured still covers the view.
LEMMA TrimGauged ==
  ASSUME NEW ms, Sound(ms), Billed(ms), Gauged(ms)
  PROVE  Sound(ContextTrim(ms)) /\ Billed(ContextTrim(ms)) /\ Gauged(ContextTrim(ms))
<1> DEFINE t == ContextTrim(ms)
           b == Barrier(ms)
           c == Barrier(t)
           v == Bare(ViewOf(ms))
           w == Bare(ViewOf(t))
           i == LastApplicableUsage(b)
           s == ViewStart(ms)
<1>1. ms \in Seq(Messages) /\ Len(ms) \in Nat BY DEF Sound
<1>2. Alike(ms, t) /\ \A j \in 1..Len(ms) : TrimmedTo(ms[j], t[j]) BY <1>1, ContextTrimIs
<1>3. Sound(t) BY <1>2, AlikeSound
<1>4. Len(t) = Len(ms) /\ ViewStart(t) = s
  BY <1>2, AlikeSame DEF ViewStart
<1>5. /\ Sound(b) /\ Len(b) = Len(ms) - s + 1
      /\ \A j \in 1..Len(b) : b[j] = ms[s - 1 + j] /\ s - 1 + j \in 1..Len(ms)
  BY BarrierIs
<1>6. /\ Sound(c) /\ Len(c) = Len(t) - ViewStart(t) + 1
      /\ \A j \in 1..Len(c) : c[j] = t[ViewStart(t) - 1 + j]
  BY <1>3, BarrierIs
<1> HIDE DEF t, s
<1>7. Len(c) = Len(b) /\ \A j \in 1..Len(b) : c[j] = t[s - 1 + j] BY <1>4, <1>5, <1>6
<1> HIDE DEF b, c
<1>8. b \in Seq(Messages) /\ c \in Seq(Messages) /\ Len(b) \in Nat BY <1>5, <1>6 DEF Sound
<1>9. Alike(b, c)
  <2>1. \A j \in 1..Len(b) : Like(b[j], c[j]) BY <1>2, <1>5, <1>7 DEF Alike
  <2> QED BY <1>7, <1>8, <2>1 DEF Alike
<1>10. \A j \in 1..Len(b) : TrimmedTo(b[j], c[j]) BY <1>2, <1>5, <1>7
<1>11. /\ v \in Seq(Messages) /\ Len(v) = Len(b)
       /\ \A j \in 1..Len(b) : /\ v[j] = Plain(ViewOf(ms)[j])
                               /\ Weight(Plain(b[j])) \in Nat
  BY ViewIs DEF b
<1>12. /\ w \in Seq(Messages) /\ Len(w) = Len(b)
       /\ \A j \in 1..Len(b) : /\ w[j] = Plain(ViewOf(t)[j])
                               /\ Weight(Plain(c[j])) \in Nat
  BY <1>3, <1>7, ViewIs DEF c
<1>13. ASSUME NEW j \in 1..Len(b)
       PROVE  /\ Weight(Plain(c[j])) <= Weight(Plain(b[j]))
              /\ Weight(w[j]) <= Weight(v[j])
  <2>1. KeepReasoning \in Nat /\ KeepToolArgs \in Nat BY StripAssumption
  <2>2. /\ Weight(Plain(c[j])) <= Weight(Plain(b[j]))
        /\ Weight(Plain(Strips(c, KeepReasoning, KeepToolArgs)[j])) <=
             Weight(Plain(Strips(b, KeepReasoning, KeepToolArgs)[j]))
    BY <1>5, <1>9, <1>10, <2>1, TrimmedStrips
  <2> QED BY <1>11, <1>12, <2>2 DEF ViewOf, b, c
<1> HIDE DEF v, w
<1>14. \A j \in 1..Len(b) : Applies(c, j) => Applies(b, j) /\ c[j].usage = b[j].usage
  <2>1. SummaryTs(c) = SummaryTs(b) BY <1>9, AlikeSame
  <2>2. \A j \in 1..Len(b) : /\ c[j].kind = b[j].kind /\ c[j].usage = b[j].usage
                             /\ c[j].ts = b[j].ts
    BY <1>9 DEF Alike, Like
  <2> QED BY <2>1, <2>2 DEF Applies
<1>15. Overhead \in Nat BY CompactionAssumption
<1>16. \A j \in 1..Len(b) : b[j].usage \in Nat
  <2>1. \A j \in 1..Len(b) : b[j] \in Messages BY <1>8, ElementOfSeq
  <2> QED BY <2>1 DEF Messages
<1>17. Billed(t)
  <2> SUFFICES ASSUME NEW j \in 1..Len(b), Applies(c, j)
               PROVE  c[j].usage >= Overhead + Weight(Plain(c[j]))
    BY <1>7 DEF Billed, c
  <2>1. b[j].usage >= Overhead + Weight(Plain(b[j])) BY <1>14 DEF Billed, b
  <2>2. c[j].usage = b[j].usage BY <1>14
  <2> QED BY <1>11, <1>12, <1>13, <1>15, <1>16, <2>1, <2>2
<1>18. Gauged(t)
  <2>1. LastApplicableUsage(c) = i /\ \A j \in 1..Len(b) : c[j].usage = b[j].usage
    BY <1>9, LastAlike
  <2> SUFFICES ASSUME RealUsage, i > 0 PROVE c[i].usage >= Overhead + Size(w, 1, i)
    BY <2>1 DEF Gauged, c, w
  <2>2. b[i].usage >= Overhead + Size(v, 1, i) BY DEF Gauged, b, v
  <2>3. i \in 1..Len(b) BY <1>8, LastIs
  <2> HIDE DEF i
  <2>4. /\ i \in Nat /\ i >= 1 - 1 /\ i <= Len(w) /\ 1 + 0 >= 1 /\ i + 0 <= Len(v)
        /\ 1 \in Nat \ {0} /\ 0 \in Int /\ 1 + 0 = 1 /\ i + 0 = i
        /\ i \in 0..Len(v) /\ i \in 0..Len(w)
    BY <1>8, <1>11, <1>12, <2>3
  <2>5. \A j \in 1..i : Weight(w[j]) <= Weight(v[j + 0])
    <3> TAKE j \in 1..i
    <3>1. j \in 1..Len(b) /\ j + 0 = j BY <1>8, <2>3
    <3> QED BY <1>13, <3>1
  <2>6. Size(w, 1, i) <= Size(v, 1 + 0, i + 0) BY <1>11, <1>12, <2>4, <2>5, SizeCompare
  <2>7. Size(w, 1, i) \in Nat /\ Size(v, 1, i) \in Nat BY <1>11, <1>12, <2>4, SizeIsNat
  <2> QED BY <1>15, <1>16, <2>1, <2>2, <2>3, <2>4, <2>6, <2>7
<1> QED BY <1>3, <1>17, <1>18 DEF t

-----------------------------------------------------------------------------
(* Every request that BeforeLLM lets through fits.                         *)

\* What the inductive invariant adds for RequestFits: what was measured covers the
\* view, and so does every request that is out, for the endpoint measures all three.
Sized ==
  /\ Billed(msgs) /\ Gauged(msgs)
  /\ Out => Covered(msgs, request)
  /\ RequestFits

\* Nothing was measured yet.
LEMMA SizedInitially == CompactionInit => Sized
<1> SUFFICES ASSUME CompactionInit PROVE Sized OBVIOUS
<1>1. msgs = <<>> /\ phase = "idle" BY DEF CompactionInit
<1>2. msgs \in Seq(Messages) /\ Len(msgs) = 0 BY <1>1
<1>3. Sound(msgs) BY <1>2 DEF Sound
<1>4. \A i \in 1..Len(msgs) :
        msgs[i].kind = "assistant" /\ msgs[i].usage > 0 => msgs[i].ts < SummaryTs(msgs)
  BY <1>2
<1>5. Billed(msgs) /\ Gauged(msgs) BY <1>3, <1>4, NothingMeasured
<1> QED BY <1>1, <1>5 DEF Sized, RequestFits, Out

\* The transcript is left alone, and nothing is sent.
LEMMA QuietSized ==
  ASSUME Sized, msgs' = msgs, phase' \in {"idle", "step"}
  PROVE  Sized'
<1>1. Billed(msgs) /\ Gauged(msgs) BY DEF Sized
<1> QED BY <1>1 DEF Sized, RequestFits, Out

\* The transcript grows by what the endpoint was asked for.
LEMMA GrownSized ==
  ASSUME CompactionInv, Sized, NEW add, Grown(add)
  PROVE  Sized'
<1>1. /\ clock \in Nat /\ Sound(msgs) /\ msgs \in Seq(Messages)
      /\ request \in Seq(Messages) /\ \A i \in 1..Len(msgs) : msgs[i].ts \in 1..clock
  BY DEF CompactionInv, Typed, Sound
<1>2. /\ Sound(add) /\ Len(add) >= 1 /\ msgs' = msgs \o add /\ phase' \in {"idle", "step"}
      /\ \A j \in 1..Len(add) :
           add[j].kind # "summary" /\ add[j].ts \in clock + 1..clock'
      /\ \A j \in 2..Len(add) : add[j].kind # "assistant"
      /\ add[1].kind = "assistant" /\ add[1].usage > 0 =>
           Out /\ add[1].usage >= EstimateTokens(request) + Weight(add[1])
  BY DEF Grown
<1>3. \A i \in 1..Len(msgs), j \in 1..Len(add) : msgs[i].ts # add[j].ts
  <2> TAKE i \in 1..Len(msgs), j \in 1..Len(add)
  <2>1. msgs[i].ts \in Nat /\ msgs[i].ts <= clock BY <1>1
  <2>2. add[j].ts \in clock + 1..clock' BY <1>2
  <2>3. add[j].ts >= clock + 1 BY <2>2
  <2> QED BY <1>1, <2>1, <2>3
<1>4. add[1].kind = "assistant" /\ add[1].usage > 0 =>
        /\ Covered(msgs, request)
        /\ add[1].usage >= EstimateTokens(request) + Weight(add[1])
  BY <1>2 DEF Sized
<1>5. Billed(msgs) /\ Gauged(msgs) BY DEF Sized
<1>6. \A j \in 1..Len(add) : add[j].kind # "summary" BY <1>2
<1>7. Billed(msgs \o add) /\ Gauged(msgs \o add)
  BY <1>1, <1>2, <1>3, <1>4, <1>5, <1>6, AppendGauged
<1>8. phase' \in {"idle", "step"} BY <1>2
<1> QED BY <1>2, <1>7, <1>8 DEF Sized, RequestFits, Out

\* A view that fits without its placeholders: by what was measured and the messages
\* since, or by the estimate.
LEMMA FittingView ==
  ASSUME NEW ms, Sound(ms), Billed(ms), Gauged(ms), Threshold(ViewOf(ms)) <= Target
  PROVE  EstimateTokens(Bare(ViewOf(ms))) <= Target
<1> DEFINE b == Barrier(ms)
           v == ViewOf(ms)
           w == Bare(v)
           i == LastApplicableUsage(b)
           n == Len(v)
<1>1. /\ b \in Seq(Messages) /\ Alike(b, v) /\ v \in Seq(Messages)
      /\ n = Len(b) /\ n \in Nat /\ w \in Seq(Messages) /\ Len(w) = n
  BY ViewIs
<1>2. \A j \in 1..n : /\ v[j] \in Messages /\ Weight(w[j]) <= Weight(v[j])
                      /\ v[j].usage = b[j].usage
  <2>1. \A j \in 1..n : v[j] \in Messages /\ Weight(w[j]) <= Weight(v[j])
    BY <1>1, BareIs
  <2> QED BY <1>1, <2>1 DEF Alike, Like
<1>3. LastApplicableUsage(v) = i BY <1>1, LastAlike
<1>4. i \in 0..n BY <1>1, LastIs
<1>5. RealUsage /\ i > 0 => b[i].usage >= Overhead + Size(w, 1, i) BY DEF Gauged
<1>6. EstimateTokens(w) <= EstimateTokens(v) /\ EstimateTokens(w) = Overhead + Size(w, 1, n)
  BY <1>1, BareIs DEF EstimateTokens
<1>7. Threshold(v) <= Target OBVIOUS
<1> HIDE DEF b, w, v, i, n
<1>8. /\ Overhead \in Nat /\ Target \in Nat /\ EstimateTokens(w) \in Nat
      /\ EstimateTokens(v) \in Nat
  BY <1>1, EstimateIsNat, CompactionAssumption
<1>9. CASE ~(RealUsage /\ i > 0)
  <2>1. Threshold(v) = EstimateTokens(v) BY <1>3, <1>9 DEF Threshold
  <2> QED BY <1>6, <1>7, <1>8, <2>1 DEF w, v
<1>10. CASE RealUsage /\ i > 0
  <2>1. Threshold(v) = v[i].usage + Size(v, i + 1, n) BY <1>3, <1>10 DEF Threshold, n
  <2>2. i \in 1..n /\ v[i].usage = b[i].usage /\ v[i].usage \in Nat
    <3>1. i \in 1..n BY <1>1, <1>4, <1>10
    <3>2. v[i] \in Messages /\ v[i].usage = b[i].usage BY <1>2, <3>1
    <3> QED BY <3>1, <3>2 DEF Messages
  <2>3. /\ Size(w, 1, n) = Size(w, 1, i) + Size(w, i + 1, n)
        /\ Size(w, 1, i) \in Nat /\ Size(w, i + 1, n) \in Nat
    <3>1. 1 \in Nat \ {0} /\ i \in Nat /\ i >= 1 - 1 /\ i <= n /\ n <= Len(w)
      BY <1>1, <2>2
    <3> QED BY <1>1, <3>1, SizeSplit
  <2>4. Size(w, i + 1, n) <= Size(v, i + 1, n) /\ Size(v, i + 1, n) \in Nat
    <3> DEFINE a == i + 1
    <3>1. /\ a \in Nat \ {0} /\ n >= a - 1 /\ n <= Len(w) /\ 0 \in Int
          /\ a + 0 >= 1 /\ n + 0 <= Len(v) /\ a + 0 = a /\ n + 0 = n /\ n \in 0..Len(v)
      BY <1>1, <2>2 DEF n
    <3>2. \A j \in a..n : Weight(w[j]) <= Weight(v[j + 0])
      <4> TAKE j \in a..n
      <4>1. j \in 1..n /\ j + 0 = j BY <1>1, <2>2
      <4> QED BY <1>2, <4>1
    <3> HIDE DEF a
    <3>3. Size(w, a, n) <= Size(v, a + 0, n + 0) BY <1>1, <3>1, <3>2, SizeCompare
    <3>4. Size(v, a, n) \in Nat BY <1>1, <3>1, SizeIsNat
    <3> QED BY <3>1, <3>3, <3>4 DEF a
  <2>5. EstimateTokens(w) <= Target
    BY <1>5, <1>6, <1>7, <1>8, <1>10, <2>1, <2>2, <2>3, <2>4
  <2> QED BY <2>5 DEF w, v
<1> QED BY <1>9, <1>10

\* A view that fits goes out.
LEMMA SendViewSized ==
  ASSUME CompactionInv, Sized, SendView
  PROVE  Sized'
<1>1. Sound(msgs) BY DEF CompactionInv, Typed
<1>2. View = ViewOf(msgs) BY DEF View, ViewOf
<1>3. Fits(View) /\ request' = View /\ msgs' = msgs /\ phase' = "call" BY DEF SendView
<1>4. Billed(msgs) /\ Gauged(msgs) BY DEF Sized
<1>5. Threshold(ViewOf(msgs)) <= Target BY <1>2, <1>3 DEF Fits
<1>6. EstimateTokens(Bare(ViewOf(msgs))) <= Target BY <1>1, <1>4, <1>5, FittingView
<1>7. Covered(msgs, ViewOf(msgs))
  <2>1. ViewOf(msgs) \in Seq(Messages) BY <1>1, ViewIs
  <2> DEFINE v == ViewOf(msgs)
  <2>2. Len(v) \in 0..Len(v) BY <2>1
  <2> HIDE DEF v
  <2>3. Size(Bare(v), 1, Len(v)) <= Size(v, 1, Len(v)) BY <2>1, <2>2, BareIs DEF v
  <2> QED BY <2>3 DEF Covered, v
<1> QED BY <1>2, <1>3, <1>4, <1>6, <1>7 DEF Sized, RequestFits

\* A transcript that goes out as it is.
LEMMA ReplacedSized ==
  ASSUME NEW final, Sound(final), EstimateTokens(final) <= Target,
         Billed(final), Gauged(final), msgs' = final, request' = final, phase' = "call"
  PROVE  Sized'
<1>1. Covered(final, final) BY CoveredSelf
<1>2. final \in Seq(Messages) BY DEF Sound
<1>3. EstimateTokens(Bare(final)) <= Target
  <2>1. Bare(final) \in Seq(Messages) /\ EstimateTokens(Bare(final)) <= EstimateTokens(final)
    BY <1>2, BareIs
  <2>2. /\ EstimateTokens(Bare(final)) \in Nat /\ EstimateTokens(final) \in Nat
        /\ Target \in Nat
    BY <1>2, <2>1, EstimateIsNat
  <2> QED BY <2>1, <2>2
<1> QED BY <1>1, <1>3 DEF Sized, RequestFits

\* A lossy step.
LEMMA LossySized ==
  ASSUME CompactionInv, Sized, Lossy
  PROVE  Sized'
<1>1. Sound(msgs) BY DEF CompactionInv, Typed
<1>2. phase = "step" /\ ~Fits(View) BY DEF Lossy
<1>3. Len(msgs) >= 1 BY <1>2 DEF CompactionInv, NewestLast
<1>4. PICK final :
        /\ final = Trimmed(Strips(CompactHistory(Barrier(msgs)), KeepReasoning,
                                  KeepToolArgs))
        /\ Commit(final, fresh, heads, TsOf(Barrier(msgs)) \ TsOf(final))
  BY Zenon DEF Lossy
<1>5. Sound(final) /\ SummaryTs(final) = SummaryTs(msgs)
  BY <1>1, <1>3, <1>4, LossyMeans
<1>6. \/ /\ phase' = "call" /\ msgs' = final /\ request' = final
         /\ EstimateTokens(final) <= Target
      \/ phase' = "idle" /\ msgs' = msgs
  BY <1>4 DEF Commit
<1>7. CASE phase' = "idle" /\ msgs' = msgs
  <2>1. phase' \in {"idle", "step"} BY <1>7
  <2> QED BY <1>7, <2>1, QuietSized
<1>8. CASE /\ phase' = "call" /\ msgs' = final /\ request' = final
           /\ EstimateTokens(final) <= Target
  <2>1. LossyOf(msgs, final) BY <1>4 DEF LossyOf
  <2>2. Forced(msgs) \/ ~(Threshold(ViewOf(msgs)) <= Target)
    BY <1>2 DEF Fits, View, ViewOf
  <2>3. Billed(msgs) /\ EstimateTokens(final) <= Target BY <1>8 DEF Sized
  <2>4. Billed(final) /\ Gauged(final)
    BY <1>1, <1>3, <1>5, <2>1, <2>2, <2>3, LossyGauged
  <2> QED BY <1>5, <1>8, <2>4, ReplacedSized
<1> QED BY <1>6, <1>7, <1>8

\* A summary: nothing was measured since.
LEMMA SummarizedSized ==
  ASSUME CompactionInv, Sized, Summarized
  PROVE  Sized'
<1>1. CompactionInv' BY SummarizedKeeps
<1>2. \/ /\ phase' = "call" /\ msgs' = request' /\ fresh' = FALSE
         /\ EstimateTokens(msgs') <= Target
      \/ phase' = "idle" /\ msgs' = msgs
  <2>1. PICK view :
          \E k \in {FirstKept(view, TailBudget(view))} :
            \E parts \in {CutAt(view, k, TailBudget(view))}, size \in 1..SummarySize :
              parts.middle # <<>> /\ Summarize(view, parts, size)
    BY Zenon DEF Summarized
  <2>2. PICK parts, size : Summarize(view, parts, size) BY <2>1, Zenon
  <2>3. PICK final, kept, lost : Commit(final, FALSE, kept, lost)
    BY <2>2, Zenon DEF Summarize
  <2> QED BY <2>3 DEF Commit
<1>3. CASE phase' = "idle" /\ msgs' = msgs
  <2>1. phase' \in {"idle", "step"} BY <1>3
  <2> QED BY <1>3, <2>1, QuietSized
<1>4. CASE /\ phase' = "call" /\ msgs' = request' /\ fresh' = FALSE
           /\ EstimateTokens(msgs') <= Target
  <2> DEFINE final == msgs'
  <2>1. Sound(final) BY <1>1 DEF CompactionInv, Typed
  <2>2. \A i \in 1..Len(final) :
          final[i].kind = "assistant" /\ final[i].usage > 0 =>
            final[i].ts < SummaryTs(final)
    BY <1>1, <1>4 DEF CompactionInv, Measured
  <2>3. msgs' = final /\ request' = final /\ phase' = "call"
        /\ EstimateTokens(final) <= Target
    BY <1>4
  <2> HIDE DEF final
  <2>4. Billed(final) /\ Gauged(final) BY <2>1, <2>2, NothingMeasured
  <2> QED BY <2>1, <2>3, <2>4, ReplacedSized
<1> QED BY <1>2, <1>3, <1>4

\* The retry sends the transcript that it leaves.
LEMMA RetriesSized ==
  ASSUME CompactionInv, Sized, Retries
  PROVE  Sized'
<1> DEFINE t == ContextTrim(msgs)
<1>1. Sound(msgs) /\ Billed(msgs) /\ Gauged(msgs) BY DEF CompactionInv, Typed, Sized
<1>2. Sound(t) /\ Billed(t) /\ Gauged(t) BY <1>1, TrimGauged
<1>3. msgs' = t /\ request' = t /\ phase' = "retry" BY DEF Retries
<1> HIDE DEF t
<1>4. Covered(t, t) BY <1>2, CoveredSelf
<1> QED BY <1>2, <1>3, <1>4 DEF Sized, RequestFits

\* The summary at the limit is asked for with all of the transcript, and more.
LEMMA AsksForSummarySized ==
  ASSUME CompactionInv, Sized, AsksForSummary
  PROVE  Sized'
<1> DEFINE q == request'
           n == Len(msgs)
<1>1. Sound(msgs) /\ msgs \in Seq(Messages) /\ n \in Nat
  BY DEF CompactionInv, Typed, Sound
<1>2. /\ q \in Seq(Messages) /\ Len(q) = n + 1 /\ \A i \in 1..n : q[i] = msgs[i]
  BY PromptedIs
<1>3. phase' = "limit" /\ msgs' = msgs BY DEF AsksForSummary
<1> DEFINE size == Size(Bare(ViewOf(msgs)), 1, Len(ViewOf(msgs)))
<1>4. size <= Size(msgs, 1, n)
  <2>1. Covered(msgs, msgs) BY <1>1, CoveredSelf
  <2> QED BY <2>1 DEF Covered
<1>5. size \in Nat
  <2>1. /\ Bare(ViewOf(msgs)) \in Seq(Messages) /\ Len(Bare(ViewOf(msgs))) = Len(ViewOf(msgs))
        /\ Len(ViewOf(msgs)) \in Nat
    BY <1>1, ViewIs
  <2>2. Len(ViewOf(msgs)) \in 0..Len(Bare(ViewOf(msgs))) /\ 1 \in Nat \ {0} BY <2>1
  <2> QED BY <2>1, <2>2, SizeIsNat
<1> HIDE DEF q, n, size
<1>6. Size(msgs, 1, n) <= Size(q, 1, n)
  <2>1. /\ 1 \in Nat \ {0} /\ 0 \in Int /\ n >= 1 - 1 /\ n <= Len(msgs) /\ 1 + 0 >= 1
        /\ n + 0 <= Len(q) /\ 1 + 0 = 1 /\ n + 0 = n
    BY <1>1, <1>2 DEF n
  <2>2. \A j \in 1..n : Weight(msgs[j]) <= Weight(q[j + 0])
    <3> TAKE j \in 1..n
    <3>1. j + 0 = j /\ q[j] = msgs[j] BY <1>1, <1>2
    <3>2. msgs[j] \in Messages BY <1>1, ElementOfSeq DEF n
    <3>3. Weight(msgs[j]) \in Nat BY <3>2, PlainIs
    <3> QED BY <3>1, <3>3
  <2>3. Size(msgs, 1, n) <= Size(q, 1 + 0, n + 0) BY <1>1, <1>2, <2>1, <2>2, SizeCompare
  <2> QED BY <2>1, <2>3
<1>7. Size(q, 1, n + 1) = Size(q, 1, n) + Weight(q[n + 1]) /\ Weight(q[n + 1]) \in Nat
  <2>1. n + 1 \in 0..Len(q) /\ n + 1 >= 1 /\ 1 \in Nat \ {0} /\ n + 1 - 1 = n
        /\ n + 1 \in 1..Len(q)
    BY <1>1, <1>2
  <2>2. q[n + 1] \in Messages BY <1>2, <2>1, ElementOfSeq
  <2>3. Weight(q[n + 1]) \in Nat BY <2>2, PlainIs
  <2> DEFINE k == n + 1
  <2>4. k \in 0..Len(q) /\ k >= 1 BY <2>1
  <2> HIDE DEF k
  <2>5. Size(q, 1, k) = Size(q, 1, k - 1) + Weight(q[k])
    BY <1>2, <2>1, <2>4, SizeNext
  <2>6. k - 1 = n /\ k = n + 1 BY <1>1 DEF k
  <2> QED BY <2>3, <2>5, <2>6
<1>8. Size(msgs, 1, n) \in Nat /\ Size(q, 1, n) \in Nat
  <2>1. n \in 0..Len(msgs) /\ n \in 0..Len(q) /\ 1 \in Nat \ {0} BY <1>1, <1>2 DEF n
  <2> QED BY <1>1, <1>2, <2>1, SizeIsNat
<1>9. size <= Size(q, 1, Len(q)) BY <1>2, <1>4, <1>5, <1>6, <1>7, <1>8
<1>10. Covered(msgs, q) BY <1>9 DEF Covered, size
<1> QED BY <1>3, <1>10 DEF Sized, RequestFits, q

\* Every step keeps it.
LEMMA SizedStep ==
  CompactionInv /\ Sized /\ [CompactionNext]_compactionVars => Sized'
<1> SUFFICES ASSUME CompactionInv, Sized, [CompactionNext]_compactionVars PROVE Sized'
  OBVIOUS
<1>1. ASSUME NEW size \in UserSizes, UserAsks(size) PROVE Sized'
  <2>1. \E add : Grown(add) BY <1>1, UserAsksKeeps
  <2> QED BY <2>1, GrownSized
<1>2. CASE SendView BY <1>2, SendViewSized
<1>3. CASE Summarized BY <1>3, SummarizedSized
<1>4. CASE Lossy BY <1>4, LossySized
<1>5. CASE TurnStops
  <2>1. phase' \in {"idle", "step"} /\ msgs' = msgs BY <1>5 DEF TurnStops
  <2> QED BY <2>1, QuietSized
<1>6. ASSUME NEW think \in Thinks, Replies(think) PROVE Sized'
  <2>1. \E add : Grown(add) BY <1>6, RepliesKeeps
  <2> QED BY <2>1, GrownSized
<1>7. ASSUME NEW made \in CallsMade, NEW think \in Thinks, NEW ok \in BOOLEAN,
             CallsTool(made, think, ok)
      PROVE  Sized'
  <2>1. \E add : Grown(add) BY <1>7, CallsToolKeeps
  <2> QED BY <2>1, GrownSized
<1>8. CASE UNCHANGED compactionVars
  <2>1. msgs' = msgs /\ phase' = phase /\ request' = request BY <1>8 DEF compactionVars
  <2> QED BY <2>1 DEF Sized, RequestFits, Out
<1>9. CASE Retries BY <1>9, RetriesSized
<1>10. CASE AsksForSummary BY <1>10, AsksForSummarySized
<1> QED
  BY <1>1, <1>2, <1>3, <1>4, <1>5, <1>6, <1>7, <1>8, <1>9, <1>10 DEF CompactionNext

\* No request that BeforeLLM lets through is larger than four fifths of the window, but
\* for its placeholders: not one that was let through on what the endpoint measured, for
\* whatever else changed since, a retry's trim too, the measured view was no smaller
\* than the same messages are now.  The retry and the summary at the limit are measured
\* by nothing, and the theorem does not speak of their size.
THEOREM RequestsFit == CompactionSpec => []RequestFits
<1>1. CompactionInit => CompactionInv /\ Sized BY CompactionInitially, SizedInitially
<1>2. CompactionInv /\ Sized /\ [CompactionNext]_compactionVars => (CompactionInv /\ Sized)'
  BY CompactionStep, SizedStep
<1>3. Sized => RequestFits BY DEF Sized
<1> QED BY <1>1, <1>2, <1>3, PTL DEF CompactionSpec

=============================================================================
