---------------------------- MODULE Ingest_proofs ----------------------------
(***************************************************************************)
(* Theorems about the way from the capture log to the confirmation queue,  *)
(* for any number of ingest processes, hooks and envelopes, any answers of *)
(* the model, any sizes of a read and of a batch, and any number of        *)
(* rotations, truncations, lost cursors and crashes.                       *)
(***************************************************************************)
EXTENDS Ingest, TLAPS, NaturalsInduction, WellFoundedInduction

-----------------------------------------------------------------------------
(* Loops.                                                                  *)

(* A set of naturals that is not empty has a least member.                 *)
LEMMA LeastNatural ==
  ASSUME NEW T, T \subseteq Nat, T # {}
  PROVE  \E n \in T : \A m \in T : n <= m
<1>1. IsWellFoundedOn(OpToRel(<, Nat), Nat)
  BY NatLessThanWellFounded, Zenon
<1>2. PICK n \in T : \A m \in T : ~(<<m, n>> \in OpToRel(<, Nat))
  BY <1>1, WFMin, Zenon
<1>3. \A m \in T : ~(m < n)
  BY <1>2, Zenon DEF OpToRel
<1>4. QED
  BY <1>3

(* What holds before a loop and is kept by each turn holds after any turn. *)
LEMMA ByTurns ==
  ASSUME NEW N \in Nat, NEW ok, 0 \in ok,
         \A i \in 1..N : i - 1 \in ok => i \in ok
  PROVE  \A i \in 0..N : i \in ok
<1> DEFINE bad == {i \in 0..N : i \notin ok}
<1>1. SUFFICES ASSUME bad # {} PROVE FALSE
  OBVIOUS
<1>2. bad \subseteq Nat
  OBVIOUS
<1>3. PICK n \in bad : \A k \in bad : n <= k
  <2> HIDE DEF bad
  <2>1. QED
    BY <1>1, <1>2, LeastNatural
<1>4. n \in 1..N
  OBVIOUS
<1>5. n - 1 \in 0..N /\ n - 1 \notin bad
  BY <1>3, <1>4
<1>6. QED
  BY <1>4, <1>5

(* The courses of a loop over 1..N from b, each turn i of which takes a    *)
(* member x of V to G[<<i, x>>].                                           *)
Course(N, V, b, G) ==
  {f \in [0..N -> V] : f[0] = b /\ \A i \in 1..N : f[i] = G[<<i, f[i - 1]>>]}

(* A loop has a course: its recursive definition defines something.        *)
LEMMA LoopRuns ==
  ASSUME NEW N \in Nat, NEW V, NEW b \in V, NEW G \in [(1..N) \X V -> V]
  PROVE  Course(N, V, b, G) # {}
<1> DEFINE Runs(f, n) ==
             f[0] = b /\ \A i \in 1..n : f[i] = G[<<i, f[i - 1]>>]
           ok == {n \in 0..N : \E f \in [0..n -> V] : Runs(f, n)}
<1>1. 0 \in ok
  <2> DEFINE f == [i \in 0..0 |-> b]
  <2>1. f \in [0..0 -> V] /\ Runs(f, 0)
    OBVIOUS
  <2>2. \E h \in [0..0 -> V] : Runs(h, 0)
    <3> HIDE DEF f, Runs
    <3>1. QED
      BY <2>1
  <2> HIDE DEF Runs
  <2>3. QED
    BY <2>2
<1>2. ASSUME NEW n \in 1..N, n - 1 \in ok PROVE n \in ok
  <2>1. n - 1 \in 0..N
    OBVIOUS
  <2>2. PICK f \in [0..(n - 1) -> V] : Runs(f, n - 1)
    BY <1>2, <2>1
  <2> DEFINE e == [i \in 0..n |-> IF i = n THEN G[<<n, f[n - 1]>>] ELSE f[i]]
  <2>3. f[n - 1] \in V /\ G[<<n, f[n - 1]>>] \in V
    <3>1. n - 1 \in 0..(n - 1)
      OBVIOUS
    <3>2. f[n - 1] \in V
      BY <3>1
    <3>3. <<n, f[n - 1]>> \in (1..N) \X V
      BY <3>2
    <3>4. QED
      BY <3>2, <3>3
  <2>4. e \in [0..n -> V]
    <3>1. ASSUME NEW i \in 0..n, i # n PROVE f[i] \in V
      <4>1. i \in 0..(n - 1)
        BY <3>1
      <4>2. QED
        BY <4>1
    <3>2. QED
      BY <2>3, <3>1
  <2>5. Runs(e, n)
    <3>1. e[0] = b
      BY <2>2
    <3>2. ASSUME NEW i \in 1..n PROVE e[i] = G[<<i, e[i - 1]>>]
      <4>1. i - 1 \in 0..n /\ i - 1 # n
        OBVIOUS
      <4>2. e[i - 1] = f[i - 1]
        BY <4>1
      <4>3. CASE i = n
        <5>1. e[n] = G[<<n, f[n - 1]>>]
          OBVIOUS
        <5> HIDE DEF e
        <5>2. QED
          BY <4>2, <4>3, <5>1
      <4>4. CASE i # n
        <5>1. i \in 1..(n - 1)
          BY <4>4
        <5>2. QED
          BY <2>2, <4>2, <4>4, <5>1
      <4>5. QED
        BY <4>3, <4>4
    <3>3. QED
      BY <3>1, <3>2
  <2>6. \E h \in [0..n -> V] : Runs(h, n)
    <3> HIDE DEF e, Runs
    <3>1. QED
      BY <2>4, <2>5
  <2> HIDE DEF Runs
  <2>7. QED
    BY <2>6
<1>3. \A n \in 0..N : n \in ok
  <2> HIDE DEF ok
  <2>1. QED
    BY <1>1, <1>2, ByTurns
<1>4. N \in ok
  BY <1>3
<1>5. QED
  BY <1>4 DEF Course

-----------------------------------------------------------------------------
(* The invariant.                                                          *)

Line == Envelopes \cup {Malformed}
Position == [ino : Nat, offset : Nat, gen : Nat]
Candidates(e) == {Route(raw) : raw \in Says[e]}
Candidate == UNION {Candidates(e) : e \in Own}
Answers == {<<>>} \cup UNION {[S -> SUBSET Candidate] : S \in SUBSET Own}
Batch == Seq(Own) \ {<<>>}

Runs ==
  [pc : {"idle", "reading", "asking", "queueing"}, cursor : Position,
   next : Position, rounds : Nat, exhausted : BOOLEAN, deferred : BOOLEAN,
   batches : Seq(Batch), queue : Seq(Own), todo : SUBSET Candidate,
   answer : Answers]

Types ==
  /\ file \in [ino : Nat, gen : Nat, lines : Seq(Line), tail : Seq(Line)]
  /\ halves \subseteq Envelopes /\ toWrite \subseteq Envelopes
  /\ cursor \in Position /\ overtaken \in BOOLEAN
  /\ run \in [Processes -> Runs]

(* An envelope is on one line of the log at most, and one that a hook has  *)
(* still to write or to finish is on none.                                 *)
WrittenOnce ==
  /\ halves \cap toWrite = {}
  /\ \A i \in DOMAIN file.lines : file.lines[i] \notin toWrite \cup halves
  /\ \A i, j \in DOMAIN file.lines :
       file.lines[i] \in Envelopes /\ file.lines[i] = file.lines[j] => i = j

(* A position is of this log or an earlier one.                            *)
Behind(c) == c.ino <= file.ino /\ c.gen <= file.gen
Here(c) == c.ino = file.ino /\ c.gen = file.gen

(* Up to a position of this log everything was ingested, save what is in S. *)
Covers(c, S) ==
  Here(c) =>
    /\ c.offset <= Len(file.lines)
    /\ ~overtaken => \A i \in 1..c.offset :
         file.lines[i] \in Own => file.lines[i] \in ingested \cup S

InBatches(bs) == UNION {ToSet(bs[b]) : b \in DOMAIN bs}

(* What a run has read and not marked.                                     *)
Left(r) ==
  IF r.pc = "queueing" THEN ToSet(r.queue) \cup InBatches(Tail(r.batches))
  ELSE InBatches(r.batches)

CoveredRun(r) ==
  /\ r.pc = "reading" => Behind(r.cursor) /\ Covers(r.cursor, {})
  /\ r.pc \in {"asking", "queueing"} =>
       Behind(r.next) /\ (r.deferred \/ Covers(r.next, Left(r)))

CursorInv ==
  /\ Behind(cursor) /\ Covers(cursor, {})
  /\ \A p \in Processes : CoveredRun(run[p])

(* No envelope is twice in what a run has read; what it is queueing is     *)
(* what is left of its first batch, with the model's answer on it.         *)
Distinct(bs) ==
  \A b, d \in DOMAIN bs : \A i \in DOMAIN bs[b], j \in DOMAIN bs[d] :
    bs[b][i] = bs[d][j] => b = d /\ i = j

Queueing(r) ==
  /\ r.batches # <<>>
  /\ \E k \in 1..Len(Head(r.batches)) :
       r.queue = SubSeq(Head(r.batches), k, Len(Head(r.batches)))
  /\ DOMAIN r.answer = ToSet(Head(r.batches))
  /\ \A e \in DOMAIN r.answer : r.answer[e] \subseteq Candidates(e)
  /\ r.todo \subseteq r.answer[Head(r.queue)]

BatchInv ==
  \A p \in Processes :
    Distinct(run[p].batches) /\ (run[p].pc = "queueing" => Queueing(run[p]))

(* A candidate has been put in the queue: it is there, or was decided.     *)
Put(e, c) ==
  \/ <<e, c>> \in decided
  \/ \E id \in DOMAIN pending : pending[id] = [envelope |-> e, candidate |-> c]

PendingInv ==
  \A id \in DOMAIN pending : \E e \in Own : \E c \in Candidates(e) :
    id = PendingId(e, c) /\ pending[id] = [envelope |-> e, candidate |-> c]

(* A run that is at an envelope's candidate no longer has put it there.    *)
At(r, e, c) == r.pc = "queueing" /\ Head(r.queue) = e /\ c \notin r.todo

QueuedInv ==
  /\ \A p \in Processes : \A e, c :
       At(run[p], e, c) /\ c \in run[p].answer[e] => Put(e, c)
  /\ \A f \in found : \E e, c : f = <<e, c>> /\ Put(e, c)

(* Two runs at one envelope excuse it, and so is a marked envelope that a  *)
(* run still has to mark.                                                  *)
Excuses(R, done, exc) ==
  /\ \A p, q \in Processes : p # q =>
       InBatches(R[p].batches) \cap InBatches(R[q].batches) \subseteq exc
  /\ \A p \in Processes : Left(R[p]) \cap done \subseteq exc

(* An envelope is marked or excused, or a run is past its candidate c.     *)
Accounted(e, c) ==
  e \in ingested \cup excused \/ \E p \in Processes : At(run[p], e, c)

OnceInv ==
  /\ Excuses(run, ingested, excused)
  /\ \A e, c : Put(e, c) => Accounted(e, c)

-----------------------------------------------------------------------------
(* Reading and batching.                                                   *)

Wanted(l) == l \in Own /\ l \notin ingested

(* k is what is wanted of the first i lines of s.                          *)
OnceIn(s, i) == \A a, b \in 1..i : s[a] \in Envelopes /\ s[a] = s[b] => a = b
Filtered(s, k, i) ==
  /\ k \in Seq(Own)
  /\ \A n \in DOMAIN k : \E j \in 1..i : k[n] = s[j] /\ Wanted(s[j])
  /\ \A j \in 1..i : Wanted(s[j]) => \E n \in DOMAIN k : k[n] = s[j]
  /\ OnceIn(s, i) => \A m, n \in DOMAIN k : k[m] = k[n] => m = n

(* The filter keeps what is the persona's and not marked, all of it, and   *)
(* nothing twice that the lines have once.                                 *)
LEMMA FreshFacts ==
  ASSUME NEW s \in Seq(Line)
  PROVE  /\ Fresh(s) \in Seq(Own)
         /\ \A n \in DOMAIN Fresh(s) : Wanted(Fresh(s)[n])
         /\ \A j \in DOMAIN s : Wanted(s[j]) => s[j] \in ToSet(Fresh(s))
         /\ (\A i, j \in DOMAIN s : s[i] \in Envelopes /\ s[i] = s[j] => i = j) =>
              \A m, n \in DOMAIN Fresh(s) : Fresh(s)[m] = Fresh(s)[n] => m = n
<1> DEFINE N == Len(s)
           V == Seq(Own)
           Rec(f) == [i \in 0..N |->
             IF i = 0 THEN <<>>
             ELSE IF s[i] \in Own /\ ~HasIngested(s[i])
             THEN Append(f[i - 1], s[i]) ELSE f[i - 1]]
           kept == CHOOSE f : f = Rec(f)
<1>1. N \in Nat /\ <<>> \in V /\ DOMAIN s = 1..N
  OBVIOUS
<1>2. \A i \in 1..N, k \in V : Wanted(s[i]) => Append(k, s[i]) \in V
  BY DEF Wanted
<1>3. \E f : f = Rec(f)
  <2> DEFINE G == [p \in (1..N) \X V |->
                IF Wanted(s[p[1]]) THEN Append(p[2], s[p[1]]) ELSE p[2]]
             none == <<>>
  <2>1. G \in [(1..N) \X V -> V]
    <3> HIDE DEF V, N
    <3>1. QED
      BY <1>2
  <2>2. PICK f \in Course(N, V, none, G) : TRUE
    <3>1. N \in Nat /\ none \in V
      BY <1>1
    <3> HIDE DEF V, N, G, none
    <3>2. Course(N, V, none, G) # {}
      BY <2>1, <3>1, LoopRuns
    <3>3. QED
      BY <3>2
  <2>3. /\ f \in [0..N -> V] /\ f[0] = <<>>
        /\ \A i \in 1..N : f[i] = G[<<i, f[i - 1]>>]
    <3> HIDE DEF V, N, G
    <3>1. QED
      BY <2>2 DEF Course
  <2>4. ASSUME NEW i \in 0..N PROVE f[i] = Rec(f)[i]
    <3>1. CASE i = 0
      BY <2>3, <3>1
    <3>2. CASE i # 0
      <4>1. i \in 1..N /\ i - 1 \in 0..N
        BY <1>1, <3>2
      <4>2. <<i, f[i - 1]>> \in (1..N) \X V
        BY <2>3, <4>1
      <4>3. G[<<i, f[i - 1]>>] =
              IF Wanted(s[i]) THEN Append(f[i - 1], s[i]) ELSE f[i - 1]
        <5> HIDE DEF V, N
        <5>1. QED
          BY <4>2
      <4>4. QED
        BY <2>3, <3>2, <4>1, <4>3 DEF Wanted, HasIngested
    <3>3. QED
      BY <3>1, <3>2
  <2>5. f = Rec(f)
    <3> HIDE DEF V, N
    <3>1. f = [i \in 0..N |-> f[i]]
      BY <2>3
    <3>2. QED
      BY <2>4, <3>1
  <2>6. QED
    BY <2>5
<1>4. kept = Rec(kept)
  BY <1>3
<1>5. Fresh(s) = kept[N]
  BY DEF Fresh
<1> HIDE DEF kept
<1>6. kept[0] = <<>> /\ \A i \in 1..N :
        kept[i] = IF Wanted(s[i]) THEN Append(kept[i - 1], s[i]) ELSE kept[i - 1]
  <2>1. \A i \in 0..N : kept[i] = Rec(kept)[i]
    BY <1>4
  <2>2. 0 \in 0..N /\ \A i \in 1..N : i \in 0..N /\ i # 0
    BY <1>1
  <2> HIDE DEF N
  <2>3. QED
    BY <2>1, <2>2 DEF Wanted, HasIngested
<1> DEFINE ok == {i \in 0..N : Filtered(s, kept[i], i)}
<1>7. 0 \in ok
  <2>1. <<>> \in Seq(Own) /\ DOMAIN <<>> = {} /\ 1..0 = {}
    OBVIOUS
  <2>2. Filtered(s, <<>>, 0)
    BY <2>1 DEF Filtered
  <2>3. QED
    BY <1>1, <1>6, <2>2
<1>8. ASSUME NEW i \in 1..N, i - 1 \in ok PROVE i \in ok
  <2>1. PICK k : k = kept[i - 1]
    OBVIOUS
  <2>2. Filtered(s, k, i - 1)
    BY <1>8, <2>1
  <2>3. i \in 1..i /\ \A j \in 1..i : j # i => j \in 1..(i - 1)
    OBVIOUS
  <2>4. \A j \in 1..(i - 1) : j \in 1..i /\ j # i
    OBVIOUS
  <2>5. CASE ~Wanted(s[i])
    <3>1. kept[i] = k
      BY <1>6, <2>1, <2>5
    <3>2. Filtered(s, k, i)
      BY <2>2, <2>3, <2>4, <2>5 DEF Filtered, OnceIn
    <3>3. QED
      BY <3>1, <3>2
  <2>6. CASE Wanted(s[i])
    <3>1. PICK a : a = Append(k, s[i])
      OBVIOUS
    <3>2. kept[i] = a
      BY <1>6, <2>1, <2>6, <3>1
    <3>3. s[i] \in Own /\ s[i] \in Envelopes
      BY <2>6, IngestAssumption DEF Wanted
    <3>4. PICK last : last = Len(k) + 1
      OBVIOUS
    <3>5. /\ a \in Seq(Own) /\ DOMAIN a = DOMAIN k \cup {last}
          /\ last \notin DOMAIN k /\ a[last] = s[i]
          /\ \A n \in DOMAIN k : a[n] = k[n]
      BY <2>2, <3>1, <3>3, <3>4 DEF Filtered
    <3>6. ASSUME NEW n \in DOMAIN a
          PROVE  \E j \in 1..i : a[n] = s[j] /\ Wanted(s[j])
      <4>1. CASE n = last
        BY <2>3, <2>6, <3>5, <4>1
      <4>2. CASE n \in DOMAIN k
        <5>1. PICK j \in 1..(i - 1) : k[n] = s[j] /\ Wanted(s[j])
          BY <2>2, <4>2 DEF Filtered
        <5>2. QED
          BY <2>4, <3>5, <4>2, <5>1
      <4>3. QED
        BY <3>5, <4>1, <4>2
    <3>7. ASSUME NEW j \in 1..i, Wanted(s[j]) PROVE \E n \in DOMAIN a : a[n] = s[j]
      <4>1. CASE j = i
        BY <3>5, <4>1
      <4>2. CASE j # i
        <5>1. PICK n \in DOMAIN k : k[n] = s[j]
          BY <2>2, <2>3, <3>7, <4>2 DEF Filtered
        <5>2. QED
          BY <3>5, <5>1
      <4>3. QED
        BY <4>1, <4>2
    <3>8. ASSUME OnceIn(s, i) PROVE \A m, n \in DOMAIN a : a[m] = a[n] => m = n
      <4>1. OnceIn(s, i - 1)
        BY <2>4, <3>8 DEF OnceIn
      <4>2. ASSUME NEW n \in DOMAIN k PROVE k[n] # s[i]
        <5>1. PICK j \in 1..(i - 1) : k[n] = s[j]
          BY <2>2 DEF Filtered
        <5>2. QED
          BY <2>3, <2>4, <3>3, <3>8, <5>1 DEF OnceIn
      <4>3. \A m, n \in DOMAIN k : k[m] = k[n] => m = n
        BY <2>2, <4>1 DEF Filtered
      <4>4. QED
        BY <3>5, <4>2, <4>3
    <3>9. Filtered(s, a, i)
      BY <3>5, <3>6, <3>7, <3>8 DEF Filtered
    <3>10. QED
      BY <3>2, <3>9
  <2>7. QED
    BY <2>5, <2>6
<1>9. \A i \in 0..N : i \in ok
  <2> HIDE DEF ok
  <2>1. QED
    BY <1>1, <1>7, <1>8, ByTurns
<1>10. Filtered(s, Fresh(s), N)
  <2>1. N \in ok
    BY <1>1, <1>9
  <2>2. QED
    BY <1>5, <2>1
<1> HIDE DEF N
<1>11. QED
  BY <1>1, <1>10 DEF ToSet, Filtered, OnceIn

(* Multiplication does not reverse an order.                               *)
LEMMA TimesKeepsOrder ==
  \A a, b, c \in Nat : a <= b => a * c <= b * c /\ a * c \in Nat
<1> SUFFICES ASSUME NEW a \in Nat, NEW b \in Nat, NEW c \in Nat, a <= b
             PROVE  a * c <= b * c /\ a * c \in Nat
  OBVIOUS
<1>1. PICK d \in Nat : b = a + d
  <2>1. b - a \in Nat /\ b = a + (b - a)
    OBVIOUS
  <2>2. QED
    BY <2>1
<1>2. b * c = a * c + d * c /\ d * c \in Nat /\ a * c \in Nat
  BY <1>1
<1>3. QED
  BY <1>2

(* Where the bth batch of N lines starts and ends.                         *)
Lo(b) == (b - 1) * BatchSize
Hi(N, b) == IF b * BatchSize < N THEN b * BatchSize ELSE N
BatchCount(N) == (N + BatchSize - 1) \div BatchSize

(* Every batch has a line, at most BatchSize of them, and they are next to *)
(* each other.                                                             *)
LEMMA BatchBounds ==
  ASSUME NEW N \in Nat
  PROVE  /\ BatchCount(N) \in Nat
         /\ \A b \in 1..BatchCount(N) :
              /\ Lo(b) \in Nat /\ Hi(N, b) \in Nat
              /\ Lo(b) < Hi(N, b) /\ Hi(N, b) <= N /\ Hi(N, b) <= Lo(b) + BatchSize
         /\ \A b, d \in 1..BatchCount(N) : b < d => Lo(b) + BatchSize <= Lo(d)
         /\ \A j \in 1..N : \E b \in 1..BatchCount(N) :
              Lo(b) < j /\ j <= Hi(N, b)
<1> DEFINE B == BatchSize
           M == BatchCount(N)
<1>1. B \in Nat \ {0}
  BY IngestAssumption
<1>2. M \in Nat /\ B * M <= N + B - 1 /\ N + B - 1 < B * M + B
  BY <1>1 DEF BatchCount
<1> HIDE DEF M
<1>3. ASSUME NEW b \in 1..M
      PROVE  /\ Lo(b) \in Nat /\ b * B = Lo(b) + B /\ b * B <= N + B - 1
  <2>1. b \in Nat /\ b - 1 \in Nat /\ b <= M
    BY <1>2
  <2>2. (b - 1) * B \in Nat /\ b * B = (b - 1) * B + B
    BY <1>1, <2>1
  <2>3. b * B <= M * B /\ M * B = B * M
    BY <1>1, <1>2, <2>1, TimesKeepsOrder
  <2>4. QED
    BY <1>1, <1>2, <2>1, <2>2, <2>3 DEF Lo
<1>4. ASSUME NEW b \in 1..M
      PROVE  /\ Hi(N, b) \in Nat
             /\ Lo(b) < Hi(N, b) /\ Hi(N, b) <= N /\ Hi(N, b) <= Lo(b) + B
  <2>1. PICK lo \in Nat, h \in Nat : lo = Lo(b) /\ h = b * B /\ h = lo + B
                                     /\ h <= N + B - 1
    BY <1>1, <1>3
  <2>2. Hi(N, b) = IF h < N THEN h ELSE N
    BY <2>1 DEF Hi
  <2>3. QED
    BY <1>1, <2>1, <2>2
<1>5. ASSUME NEW b \in 1..M, NEW d \in 1..M, b < d
      PROVE  Lo(b) + B <= Lo(d)
  <2>1. b \in Nat /\ d - 1 \in Nat /\ b <= d - 1
    BY <1>2, <1>5
  <2>2. b * B <= (d - 1) * B
    BY <1>1, <2>1, TimesKeepsOrder
  <2>3. QED
    BY <1>3, <2>2 DEF Lo
<1>6. ASSUME NEW j \in 1..N
      PROVE  \E b \in 1..M : Lo(b) < j /\ j <= Hi(N, b)
  <2>1. PICK q \in Nat : B * q <= j - 1 /\ j - 1 < B * q + B
    <3>1. /\ (j - 1) \div B \in Nat /\ B * ((j - 1) \div B) <= j - 1
          /\ j - 1 < B * ((j - 1) \div B) + B
      BY <1>1
    <3>2. QED
      BY <3>1
  <2>2. q + 1 <= M
    <3>1. SUFFICES ASSUME M <= q PROVE FALSE
      BY <1>2
    <3>2. M * B <= q * B /\ M * B = B * M /\ q * B = B * q
          /\ B * M \in Nat /\ B * q \in Nat
      BY <1>1, <1>2, <3>1, TimesKeepsOrder
    <3>3. QED
      BY <1>1, <1>2, <2>1, <3>2
  <2>3. PICK b \in 1..M : b = q + 1
    BY <1>2, <2>2
  <2>4. Lo(b) = B * q /\ b * B = B * q + B /\ B * q \in Nat
    BY <1>1, <2>3 DEF Lo
  <2>5. Lo(b) < j
    BY <2>1, <2>4
  <2>6. j <= b * B
    BY <1>1, <2>1, <2>4
  <2>7. j <= Hi(N, b)
    BY <2>6 DEF Hi
  <2>8. QED
    BY <2>5, <2>7
<1>7. QED
  BY <1>2, <1>3, <1>4, <1>5, <1>6 DEF M

(* The batches are of the lines that were filtered, all of them, each in   *)
(* one place.                                                              *)
LEMMA BatchedFacts ==
  ASSUME NEW s \in Seq(Own)
  PROVE  /\ Batched(s) \in Seq(Batch)
         /\ InBatches(Batched(s)) = ToSet(s)
         /\ (\A m, n \in DOMAIN s : s[m] = s[n] => m = n) => Distinct(Batched(s))
<1> DEFINE N == Len(s)
           M == BatchCount(N)
           bs == Batched(s)
<1>1. N \in Nat /\ DOMAIN s = 1..N /\ BatchSize \in Nat
  BY IngestAssumption
<1>2. M \in Nat
  BY <1>1, BatchBounds
<1>3. bs = [b \in 1..M |-> SubSeq(s, Lo(b) + 1, Hi(N, b))]
  BY DEF Batched, BatchCount, Lo, Hi
<1> HIDE DEF M, bs
<1>4. DOMAIN bs = 1..M
  BY <1>3
<1>5. ASSUME NEW b \in 1..M
      PROVE  /\ bs[b] \in Batch /\ DOMAIN bs[b] = 1..(Hi(N, b) - Lo(b))
             /\ \A i \in DOMAIN bs[b] : /\ Lo(b) + i \in 1..N
                                        /\ bs[b][i] = s[Lo(b) + i]
  <2>1. PICK lo \in Nat, hi \in Nat :
          /\ lo = Lo(b) /\ hi = Hi(N, b) /\ lo < hi /\ hi <= N
    BY <1>1, BatchBounds DEF M
  <2>2. bs[b] = SubSeq(s, lo + 1, hi)
    BY <1>3, <2>1
  <2>3. /\ SubSeq(s, lo + 1, hi) \in Seq(Own) /\ Len(SubSeq(s, lo + 1, hi)) = hi - lo
        /\ \A i \in 1..(hi - lo) : SubSeq(s, lo + 1, hi)[i] = s[lo + i]
    BY <2>1
  <2>4. bs[b] \in Seq(Own) /\ DOMAIN bs[b] = 1..(hi - lo) /\ Len(bs[b]) # 0
    BY <2>1, <2>2, <2>3
  <2>5. bs[b] # <<>>
    BY <2>4
  <2>6. ASSUME NEW i \in 1..(hi - lo) PROVE lo + i \in 1..N /\ bs[b][i] = s[lo + i]
    <3> HIDE DEF N
    <3>1. lo + i \in 1..N
      BY <1>1, <2>1
    <3>2. bs[b][i] = s[lo + i]
      BY <2>2, <2>3
    <3>3. QED
      BY <3>1, <3>2
  <2>7. QED
    BY <2>1, <2>4, <2>5, <2>6 DEF Batch
<1>6. bs \in Seq(Batch)
  <2>1. bs \in [1..M -> Batch]
    BY <1>3, <1>4, <1>5
  <2>2. QED
    BY <1>2, <2>1
<1>7. InBatches(bs) = ToSet(s)
  <2>1. ASSUME NEW e \in InBatches(bs) PROVE e \in ToSet(s)
    <3>1. PICK b \in 1..M : e \in ToSet(bs[b])
      BY <1>4 DEF InBatches
    <3>2. PICK i \in DOMAIN bs[b] : e = bs[b][i]
      BY <3>1 DEF ToSet
    <3>3. QED
      BY <1>1, <1>5, <3>2 DEF ToSet
  <2>2. ASSUME NEW e \in ToSet(s) PROVE e \in InBatches(bs)
    <3>1. PICK j \in 1..N : e = s[j]
      BY <1>1 DEF ToSet
    <3>2. PICK b \in 1..M : Lo(b) < j /\ j <= Hi(N, b)
      BY <1>1, BatchBounds DEF M
    <3>3. Lo(b) \in Nat /\ Hi(N, b) \in Nat
      BY <1>1, BatchBounds DEF M
    <3>4. PICK i \in 1..(Hi(N, b) - Lo(b)) : j = Lo(b) + i
      <4>1. j - Lo(b) \in 1..(Hi(N, b) - Lo(b)) /\ j = Lo(b) + (j - Lo(b))
        BY <3>2, <3>3
      <4>2. QED
        BY <4>1
    <3>5. e = bs[b][i] /\ i \in DOMAIN bs[b]
      BY <1>5, <3>1, <3>4
    <3>6. QED
      BY <1>4, <3>5 DEF InBatches, ToSet
  <2>3. QED
    BY <2>1, <2>2
<1>8. ASSUME \A m, n \in DOMAIN s : s[m] = s[n] => m = n
      PROVE  Distinct(bs)
  <2>1. SUFFICES ASSUME NEW b \in 1..M, NEW d \in 1..M, NEW i \in DOMAIN bs[b],
                        NEW j \in DOMAIN bs[d], bs[b][i] = bs[d][j]
                 PROVE  b = d /\ i = j
    BY <1>4 DEF Distinct
  <2>2. Lo(b) + i = Lo(d) + j
    BY <1>1, <1>5, <1>8, <2>1
  <2>3. /\ Lo(b) \in Nat /\ Lo(d) \in Nat /\ Hi(N, b) \in Nat /\ Hi(N, d) \in Nat
        /\ Hi(N, b) <= Lo(b) + BatchSize /\ Hi(N, d) <= Lo(d) + BatchSize
        /\ b < d => Lo(b) + BatchSize <= Lo(d)
        /\ d < b => Lo(d) + BatchSize <= Lo(b)
    BY <1>1, BatchBounds DEF M
  <2>4. i \in 1..(Hi(N, b) - Lo(b)) /\ j \in 1..(Hi(N, d) - Lo(d))
    BY <1>5
  <2>5. b = d
    <3>1. ~(b < d) /\ ~(d < b)
      BY <1>1, <2>2, <2>3, <2>4
    <3>2. QED
      BY <1>2, <3>1
  <2>6. QED
    BY <2>2, <2>3, <2>4, <2>5
<1>9. QED
  BY <1>6, <1>7, <1>8 DEF bs

-----------------------------------------------------------------------------
(* The log and the runs.                                                   *)

Base == Types /\ WrittenOnce /\ BatchInv

(* A run record, as far as Base is concerned.                              *)
SoundRun(r) ==
  r \in Runs /\ Distinct(r.batches) /\ (r.pc = "queueing" => Queueing(r))

(* The run of somebody who has not started.                                *)
LEMMA IdleIsSound ==
  SoundRun(Idle) /\ Left(Idle) = {} /\ InBatches(Idle.batches) = {}
<1>1. <<>> \in Seq(Batch) /\ <<>> \in Seq(Own) /\ DOMAIN <<>> = {}
  OBVIOUS
<1>2. Idle \in Runs
  BY <1>1 DEF Runs, Idle, Position, NoCursor, Answers
<1>3. Idle.batches = <<>> /\ Idle.pc = "idle"
  BY DEF Idle
<1>4. InBatches(<<>>) = {} /\ Distinct(<<>>)
  BY <1>1 DEF InBatches, Distinct
<1>5. QED
  BY <1>2, <1>3, <1>4 DEF SoundRun, Left

(* What a run is queueing, seen from the front.                            *)
LEMMA QueueFront ==
  ASSUME NEW r \in Runs, Queueing(r)
  PROVE  /\ r.batches \in Seq(Batch) /\ r.batches # <<>>
         /\ r.queue \in Seq(Own) /\ r.queue # <<>>
         /\ Head(r.queue) \in Own /\ Head(r.queue) \in DOMAIN r.answer
         /\ Tail(r.batches) \in Seq(Batch)
         /\ \E k \in 1..Len(Head(r.batches)) :
              /\ Len(r.queue) = Len(Head(r.batches)) - k + 1
              /\ \A i \in DOMAIN r.queue : /\ k + i - 1 \in DOMAIN Head(r.batches)
                                           /\ r.queue[i] = Head(r.batches)[k + i - 1]
<1>1. r.batches \in Seq(Batch) /\ r.batches # <<>> /\ r.queue \in Seq(Own)
  BY DEF Runs, Queueing
<1>2. PICK H : H = Head(r.batches)
  OBVIOUS
<1>3. H \in Batch /\ Tail(r.batches) \in Seq(Batch)
  BY <1>1, <1>2
<1>4. H \in Seq(Own) /\ Len(H) \in Nat
  BY <1>3 DEF Batch
<1>5. PICK k \in 1..Len(H) : r.queue = SubSeq(H, k, Len(H))
  BY <1>2 DEF Queueing
<1>6. PICK m \in Nat : k = m + 1 /\ m < Len(H)
  <2>1. k - 1 \in Nat /\ k = (k - 1) + 1 /\ k - 1 < Len(H)
    BY <1>4
  <2>2. QED
    BY <2>1
<1>7. /\ Len(SubSeq(H, m + 1, Len(H))) = Len(H) - m
      /\ \A i \in 1..(Len(H) - m) : SubSeq(H, m + 1, Len(H))[i] = H[m + i]
  BY <1>4, <1>6
<1>8. Len(r.queue) = Len(H) - m /\ DOMAIN r.queue = 1..(Len(H) - m)
      /\ \A i \in DOMAIN r.queue : r.queue[i] = H[m + i]
  BY <1>1, <1>5, <1>6, <1>7
<1>9. r.queue # <<>> /\ Head(r.queue) = r.queue[1] /\ 1 \in DOMAIN r.queue
  BY <1>1, <1>4, <1>6, <1>8
<1>10. ASSUME NEW i \in DOMAIN r.queue
       PROVE  k + i - 1 \in DOMAIN H /\ r.queue[i] = H[k + i - 1]
  <2>1. PICK n \in Nat : n = Len(H)
    BY <1>4
  <2>2. i \in 1..(n - m) /\ r.queue[i] = H[m + i]
    BY <1>8, <2>1
  <2>3. k + i - 1 = m + i /\ m + i \in 1..n
    BY <1>6, <2>1, <2>2
  <2>4. DOMAIN H = 1..n
    BY <1>4, <2>1
  <2>5. QED
    BY <2>2, <2>3, <2>4
<1>11. Head(r.queue) \in ToSet(H)
  BY <1>9, <1>10 DEF ToSet
<1>12. Head(r.queue) \in Own
  BY <1>1, <1>9
<1>13. Len(r.queue) = Len(H) - k + 1
  BY <1>4, <1>6, <1>8
<1>14. QED
  BY <1>1, <1>2, <1>3, <1>9, <1>10, <1>11, <1>12, <1>13 DEF Queueing

(* The first of what a run has left is not among the rest of it.           *)
LEMMA FrontIsOnce ==
  ASSUME NEW r, SoundRun(r), r.pc = "queueing"
  PROVE  /\ Head(r.queue) \notin ToSet(Tail(r.queue))
         /\ Head(r.queue) \notin InBatches(Tail(r.batches))
         /\ ToSet(r.queue) = {Head(r.queue)} \cup ToSet(Tail(r.queue))
         /\ ToSet(r.queue) \subseteq InBatches(r.batches)
         /\ InBatches(r.batches) = ToSet(Head(r.batches)) \cup InBatches(Tail(r.batches))
<1> DEFINE bs == r.batches
           H == Head(bs)
<1>1. r \in Runs /\ Queueing(r) /\ Distinct(bs)
  BY DEF SoundRun
<1>2. /\ bs \in Seq(Batch) /\ bs # <<>> /\ r.queue \in Seq(Own) /\ r.queue # <<>>
      /\ Tail(bs) \in Seq(Batch)
  BY <1>1, QueueFront
<1>3. PICK k \in 1..Len(H) :
        \A i \in DOMAIN r.queue : k + i - 1 \in DOMAIN H /\ r.queue[i] = H[k + i - 1]
  BY <1>1, QueueFront
<1>4. /\ Head(r.queue) = r.queue[1] /\ 1 \in DOMAIN r.queue
      /\ Tail(r.queue) \in Seq(Own) /\ Len(Tail(r.queue)) = Len(r.queue) - 1
      /\ \A i \in DOMAIN Tail(r.queue) : /\ i + 1 \in DOMAIN r.queue /\ i \in Nat \ {0}
                                         /\ Tail(r.queue)[i] = r.queue[i + 1]
  BY <1>2
<1>5. /\ H = bs[1] /\ 1 \in DOMAIN bs
      /\ \A b \in DOMAIN Tail(bs) : /\ b + 1 \in DOMAIN bs /\ b \in Nat \ {0}
                                    /\ Tail(bs)[b] = bs[b + 1]
  BY <1>2
<1>6. \A b \in DOMAIN bs : b # 1 => b - 1 \in DOMAIN Tail(bs) /\ Tail(bs)[b - 1] = bs[b]
  BY <1>2
<1>7. \A i \in DOMAIN r.queue : i # 1 =>
        i - 1 \in DOMAIN Tail(r.queue) /\ Tail(r.queue)[i - 1] = r.queue[i]
  BY <1>2
<1>8. k \in Nat /\ k \in DOMAIN H /\ Head(r.queue) = H[k]
  <2>1. H \in Seq(Own)
    BY <1>2 DEF Batch
  <2>2. k \in Nat
    BY <2>1
  <2>3. QED
    BY <1>3, <1>4, <2>2
<1> HIDE DEF bs, H
<1>9. ASSUME NEW i \in DOMAIN Tail(r.queue), Tail(r.queue)[i] = Head(r.queue)
      PROVE  FALSE
  <2>1. r.queue[i + 1] = H[k + i] /\ k + i \in DOMAIN H /\ i \in Nat \ {0}
    <3>1. i + 1 \in DOMAIN r.queue /\ i \in Nat \ {0}
      BY <1>4
    <3>2. k + (i + 1) - 1 = k + i
      BY <1>8, <3>1
    <3>3. QED
      BY <1>3, <3>1, <3>2
  <2>2. H[k + i] = H[k]
    BY <1>4, <1>8, <1>9, <2>1
  <2>3. k + i = k
    BY <1>1, <1>5, <1>8, <2>1, <2>2 DEF Distinct
  <2>4. QED
    BY <1>8, <2>1, <2>3
<1>10. ASSUME NEW b \in DOMAIN Tail(bs), NEW i \in DOMAIN Tail(bs)[b],
              Tail(bs)[b][i] = Head(r.queue)
       PROVE  FALSE
  <2>1. bs[b + 1][i] = bs[1][k] /\ b + 1 \in DOMAIN bs /\ b \in Nat \ {0}
        /\ i \in DOMAIN bs[b + 1] /\ k \in DOMAIN bs[1] /\ 1 \in DOMAIN bs
    BY <1>5, <1>8, <1>10
  <2>2. b + 1 = 1
    BY <1>1, <2>1 DEF Distinct
  <2>3. QED
    BY <2>1, <2>2
<1>11. ToSet(r.queue) = {Head(r.queue)} \cup ToSet(Tail(r.queue))
  BY <1>4, <1>7 DEF ToSet
<1>12. InBatches(bs) = ToSet(H) \cup InBatches(Tail(bs))
  BY <1>5, <1>6 DEF InBatches
<1>13. ToSet(r.queue) \subseteq ToSet(H)
  BY <1>3 DEF ToSet
<1>14. Head(r.queue) \notin ToSet(Tail(r.queue))
  BY <1>9 DEF ToSet
<1>15. Head(r.queue) \notin InBatches(Tail(bs))
  BY <1>10 DEF ToSet, InBatches
<1>16. ToSet(r.queue) \subseteq InBatches(bs)
  BY <1>12, <1>13
<1>17. QED
  BY <1>11, <1>12, <1>14, <1>15, <1>16 DEF bs, H

(* The log goes on, or it is another one from its start.                   *)
GoesOn ==
  /\ file'.ino = file.ino /\ file'.gen = file.gen
  /\ Len(file.lines) <= Len(file'.lines)
  /\ \A i \in 1..Len(file.lines) : file'.lines[i] = file.lines[i]
Another ==
  file'.ino >= file.ino /\ file'.gen >= file.gen
  /\ (file'.ino > file.ino \/ file'.gen > file.gen)

(* Hooks and rotations leave the log sound, and touch nothing else.        *)
LEMMA LineEnds ==
  ASSUME Types, WrittenOnce, NEW e \in Envelopes, NEW whole \in BOOLEAN,
         e \in toWrite \cup halves, EndLine(e, whole),
         toWrite' = toWrite \ {e}, halves' = halves \ {e}
  PROVE  /\ file' \in [ino : Nat, gen : Nat, lines : Seq(Line), tail : Seq(Line)]
         /\ WrittenOnce' /\ (GoesOn \/ Another)
<1>1. PICK l : l = IF whole THEN e ELSE Malformed
  OBVIOUS
<1>2. l \in Line /\ (l \in Envelopes => l = e)
  BY <1>1, IngestAssumption DEF Line
<1>3. PICK ls \in Seq(Line) : ls = file.lines
  BY DEF Types
<1>4. file \in [ino : Nat, gen : Nat, lines : Seq(Line), tail : Seq(Line)]
  BY DEF Types
<1>5. /\ file'.ino = (IF file.ino = 0 THEN 1 ELSE file.ino) /\ file'.gen = file.gen
      /\ file'.tail = <<>> /\ file'.lines = Append(ls, l)
      /\ DOMAIN file' = DOMAIN file
  BY <1>1, <1>3, <1>4 DEF EndLine
<1>6. file' \in [ino : Nat, gen : Nat, lines : Seq(Line), tail : Seq(Line)]
  <2>1. Append(ls, l) \in Seq(Line) /\ <<>> \in Seq(Line)
    BY <1>2, <1>3
  <2>2. PICK ls2, rest : /\ ls2 = Append(ls, l) /\ rest = <<>>
                         /\ ls2 \in Seq(Line) /\ rest \in Seq(Line)
    BY <2>1, Zenon
  <2>3. file' = [file EXCEPT !.ino = IF @ = 0 THEN 1 ELSE @, !.tail = rest, !.lines = ls2]
    BY <1>1, <1>3, <1>4, <2>2 DEF EndLine
  <2>4. QED
    BY <1>4, <2>2, <2>3
<1>7. PICK n \in Nat : n = Len(ls)
  BY <1>3
<1>8. /\ DOMAIN ls = 1..n /\ DOMAIN file'.lines = 1..(n + 1) /\ file'.lines[n + 1] = l
      /\ \A i \in 1..n : file'.lines[i] = ls[i]
      /\ Len(file'.lines) = n + 1
  BY <1>2, <1>3, <1>5, <1>7
<1>9. \A i \in 1..n : ls[i] # e /\ ls[i] \notin toWrite \cup halves
  BY <1>3, <1>8 DEF WrittenOnce
<1>10. WrittenOnce'
  <2>1. (halves \cap toWrite = {})'
    BY DEF WrittenOnce
  <2>2. \A i \in 1..(n + 1) : i \in 1..n \/ i = n + 1
    BY <1>7
  <2>3. l \notin (toWrite \ {e}) \cup (halves \ {e})
    BY <1>2 DEF Types
  <2>4. (\A i \in DOMAIN file.lines : file.lines[i] \notin toWrite \cup halves)'
    <3>1. SUFFICES ASSUME NEW i \in 1..(n + 1)
                   PROVE  file'.lines[i] \notin toWrite' \cup halves'
      BY <1>8
    <3>2. QED
      BY <1>8, <1>9, <2>2, <2>3
  <2>5. (\A i, j \in DOMAIN file.lines :
           file.lines[i] \in Envelopes /\ file.lines[i] = file.lines[j] => i = j)'
    <3>1. SUFFICES ASSUME NEW i \in 1..(n + 1), NEW j \in 1..(n + 1),
                          file'.lines[i] \in Envelopes, file'.lines[i] = file'.lines[j]
                   PROVE  i = j
      BY <1>8
    <3>2. CASE i \in 1..n /\ j \in 1..n
      BY <1>3, <1>8, <3>1, <3>2 DEF WrittenOnce
    <3>3. CASE i = n + 1 \/ j = n + 1
      BY <1>2, <1>8, <1>9, <2>2, <3>1, <3>3
    <3>4. QED
      BY <2>2, <3>2, <3>3
  <2>6. QED
    BY <2>1, <2>4, <2>5 DEF WrittenOnce
<1>11. GoesOn \/ Another
  <2>1. CASE file.ino = 0
    BY <1>4, <1>5, <2>1 DEF Another
  <2>2. CASE file.ino # 0
    BY <1>3, <1>5, <1>7, <1>8, <2>2 DEF GoesOn
  <2>3. QED
    BY <2>1, <2>2
<1>12. QED
  BY <1>6, <1>10, <1>11

(* What a step on the log leaves.                                          *)
LogSound ==
  /\ file' \in [ino : Nat, gen : Nat, lines : Seq(Line), tail : Seq(Line)]
  /\ halves' \subseteq Envelopes /\ toWrite' \subseteq Envelopes
  /\ WrittenOnce' /\ (GoesOn \/ Another)

LogActs ==
  \/ \E e \in Envelopes : AppendToRegularFile(e) \/ WriteFirstHalf(e)
                          \/ WriteRest(e) \/ HookDies(e)
  \/ Rotate \/ Truncate

(* The same, for every step on the log.                                    *)
LEMMA LogStep ==
  ASSUME Base, LogActs
  PROVE  Base' /\ (GoesOn \/ Another) /\ UNCHANGED <<store, run, history>>
<1>1. Types /\ WrittenOnce /\ BatchInv
  BY DEF Base
<1>2. UNCHANGED <<store, run, history>>
  BY DEF LogActs, AppendToRegularFile, WriteFirstHalf, WriteRest, HookDies, Rotate,
         Truncate
<1>3. file \in [ino : Nat, gen : Nat, lines : Seq(Line), tail : Seq(Line)]
      /\ halves \subseteq Envelopes /\ toWrite \subseteq Envelopes
  BY <1>1 DEF Types
<1>4. LogSound
  <2>1. ASSUME NEW e \in Envelopes, AppendToRegularFile(e) PROVE LogSound
    <3>1. e \notin halves /\ e \in toWrite
      BY <1>1, <2>1 DEF WrittenOnce, AppendToRegularFile, EnvelopeFromHookEvent
    <3>2. toWrite' = toWrite \ {e} /\ halves' = halves \ {e}
          /\ EndLine(e, file.tail = <<>>)
      BY <2>1, <3>1 DEF AppendToRegularFile
    <3>3. PICK whole \in BOOLEAN : whole = (file.tail = <<>>)
      OBVIOUS
    <3>4. EndLine(e, whole)
      BY <3>2, <3>3
    <3>5. QED
      BY <1>1, <1>3, <3>1, <3>2, <3>4, LineEnds DEF LogSound
  <2>2. ASSUME NEW e \in Envelopes, WriteRest(e) PROVE LogSound
    <3>1. e \in halves /\ e \notin toWrite
      BY <1>1, <2>2 DEF WrittenOnce, WriteRest
    <3>2. toWrite' = toWrite \ {e} /\ halves' = halves \ {e}
          /\ EndLine(e, file.tail = <<e>>)
      BY <2>2, <3>1 DEF WriteRest
    <3>3. PICK whole \in BOOLEAN : whole = (file.tail = <<e>>)
      OBVIOUS
    <3>4. EndLine(e, whole)
      BY <3>2, <3>3
    <3>5. QED
      BY <1>1, <1>3, <3>1, <3>2, <3>4, LineEnds DEF LogSound
  <2>3. ASSUME NEW e \in Envelopes, WriteFirstHalf(e) PROVE LogSound
    <3>1. e \in toWrite /\ toWrite' = toWrite \ {e} /\ halves' = halves \cup {e}
      BY <2>3 DEF WriteFirstHalf, EnvelopeFromHookEvent
    <3>2. PICK t \in Seq(Line) : t = Append(file.tail, e)
      <4>1. e \in Line /\ file.tail \in Seq(Line)
        BY <1>3 DEF Line
      <4>2. Append(file.tail, e) \in Seq(Line)
        BY <4>1
      <4>3. QED
        BY <4>2, Zenon
    <3>3. /\ file'.ino = (IF file.ino = 0 THEN 1 ELSE file.ino) /\ file'.gen = file.gen
          /\ file'.lines = file.lines
          /\ file' \in [ino : Nat, gen : Nat, lines : Seq(Line), tail : Seq(Line)]
      BY <1>3, <2>3, <3>2 DEF WriteFirstHalf
    <3>4. WrittenOnce'
      BY <1>1, <3>1, <3>3 DEF WrittenOnce
    <3>5. GoesOn \/ Another
      BY <1>3, <3>3 DEF GoesOn, Another
    <3>6. QED
      BY <1>3, <3>1, <3>3, <3>4, <3>5 DEF LogSound
  <2>4. ASSUME NEW e \in Envelopes, HookDies(e) PROVE LogSound
    <3>1. file' = file /\ halves' = halves \ {e} /\ toWrite' = toWrite
      BY <2>4 DEF HookDies
    <3>2. WrittenOnce'
      BY <1>1, <3>1 DEF WrittenOnce
    <3>3. GoesOn
      BY <1>3, <3>1 DEF GoesOn
    <3>4. QED
      BY <1>3, <3>1, <3>2, <3>3 DEF LogSound
  <2>5. ASSUME Rotate \/ Truncate PROVE LogSound
    <3>1. /\ file'.lines = <<>> /\ halves' = {} /\ toWrite' = toWrite /\ Another
          /\ file' \in [ino : Nat, gen : Nat, lines : Seq(Line), tail : Seq(Line)]
      <4>1. PICK new : new = <<>> /\ new \in Seq(Line)
        <5>1. <<>> \in Seq(Line)
          OBVIOUS
        <5>2. QED
          BY <5>1, Zenon
      <4>2. \/ file' = [file EXCEPT !.ino = @ + 1, !.lines = new, !.tail = new]
            \/ file' = [file EXCEPT !.gen = @ + 1, !.lines = new, !.tail = new]
        BY <2>5, <4>1 DEF Rotate, Truncate
      <4>3. halves' = {} /\ toWrite' = toWrite
        BY <2>5 DEF Rotate, Truncate
      <4>4. /\ file' \in [ino : Nat, gen : Nat, lines : Seq(Line), tail : Seq(Line)]
            /\ file'.lines = new
            /\ Another
        <5>0. new \in Seq(Line)
          BY <4>1
        <5>1. CASE file' = [file EXCEPT !.ino = @ + 1, !.lines = new, !.tail = new]
          <6>1. PICK n \in Nat : n = file.ino + 1
            BY <1>3
          <6>2. file' = [file EXCEPT !.ino = n, !.lines = new, !.tail = new]
            BY <5>1, <6>1
          <6>3. /\ file'.ino = n /\ file'.gen = file.gen /\ file'.lines = new
                /\ file' \in [ino : Nat, gen : Nat, lines : Seq(Line), tail : Seq(Line)]
            BY <1>3, <5>0, <6>2
          <6>4. QED
            BY <1>3, <6>1, <6>3 DEF Another
        <5>2. CASE file' = [file EXCEPT !.gen = @ + 1, !.lines = new, !.tail = new]
          <6>1. PICK n \in Nat : n = file.gen + 1
            BY <1>3
          <6>2. file' = [file EXCEPT !.gen = n, !.lines = new, !.tail = new]
            BY <5>2, <6>1
          <6>3. /\ file'.gen = n /\ file'.ino = file.ino /\ file'.lines = new
                /\ file' \in [ino : Nat, gen : Nat, lines : Seq(Line), tail : Seq(Line)]
            BY <1>3, <5>0, <6>2
          <6>4. QED
            BY <1>3, <6>1, <6>3 DEF Another
        <5>3. QED
          BY <4>2, <5>1, <5>2
      <4>5. QED
        BY <4>1, <4>3, <4>4
    <3>2. WrittenOnce'
      BY <3>1 DEF WrittenOnce
    <3>3. QED
      BY <1>3, <3>1, <3>2 DEF LogSound
  <2>6. QED
    BY <2>1, <2>2, <2>3, <2>4, <2>5 DEF LogActs
<1>5. Types' /\ BatchInv'
  BY <1>1, <1>2, <1>4 DEF LogSound, Types, BatchInv, store, history
<1>6. QED
  BY <1>2, <1>4, <1>5 DEF LogSound, Base

-----------------------------------------------------------------------------
(* The steps of a run.                                                     *)

(* A step that gives one process a sound record keeps what all rest on.    *)
LEMMA RunStep ==
  ASSUME Base, NEW p \in Processes, NEW r, SoundRun(r), SetRun(p, r),
         UNCHANGED <<file, halves, toWrite>>, cursor' \in Position,
         overtaken' \in BOOLEAN
  PROVE  /\ Base' /\ run'[p] = r
         /\ \A q \in Processes : q # p => run'[q] = run[q]
<1>1. Types /\ WrittenOnce /\ BatchInv
  BY DEF Base
<1>2. run' = [run EXCEPT ![p] = r] /\ run \in [Processes -> Runs] /\ r \in Runs
  BY <1>1 DEF SetRun, Types, SoundRun
<1>3. /\ run' \in [Processes -> Runs] /\ run'[p] = r
      /\ \A q \in Processes : q # p => run'[q] = run[q]
  BY <1>2
<1>4. Types'
  BY <1>1, <1>3 DEF Types
<1>5. WrittenOnce'
  BY <1>1 DEF WrittenOnce
<1>6. BatchInv'
  <2>1. ASSUME NEW q \in Processes
        PROVE  Distinct(run'[q].batches) /\ (run'[q].pc = "queueing" => Queueing(run'[q]))
    <3>1. CASE q = p
      BY <1>3, <3>1 DEF SoundRun
    <3>2. CASE q # p
      BY <1>1, <1>3, <3>2 DEF BatchInv
    <3>3. QED
      BY <3>1, <3>2
  <2>2. QED
    BY <2>1 DEF BatchInv
<1>7. QED
  BY <1>3, <1>4, <1>5, <1>6 DEF Base

(* What is known of a process's record before it moves.                    *)
LEMMA RunNow ==
  ASSUME Base, NEW p \in Processes
  PROVE  SoundRun(run[p]) /\ run[p] \in Runs /\ cursor \in Position
         /\ overtaken \in BOOLEAN /\ run[p].batches \in Seq(Batch)
<1>1. run[p] \in Runs /\ cursor \in Position /\ overtaken \in BOOLEAN
  BY DEF Base, Types
<1>2. QED
  BY <1>1 DEF Base, BatchInv, SoundRun, Runs

(* What a run that read lines from + 1 to to has before it.                *)
Reads(p, r, from, to) ==
  /\ from \in Nat /\ to \in Nat /\ from <= to /\ to <= Len(file.lines)
  /\ from = ReadFrom(run[p].cursor)
  /\ r.pc = "asking" /\ r.deferred = FALSE
  /\ r.next = [ino |-> file.ino, offset |-> to, gen |-> file.gen]
  /\ \A i \in 1..to : i > from /\ Wanted(file.lines[i]) =>
       file.lines[i] \in InBatches(r.batches)
  /\ InBatches(r.batches) \cap ingested = {}
  /\ overtaken' = (overtaken \/ (from > 0 /\ run[p].cursor.gen # file.gen))
  /\ excused' = excused \cup
       (InBatches(r.batches) \cap UNION {InFlight(q) : q \in Processes \ {p}})

(* readEnvelopeLog leaves a sound run, which has before it what it read.   *)
LEMMA ReadLogRun ==
  ASSUME Base, NEW p \in Processes, ReadLog(p)
  PROVE  /\ \E r : SoundRun(r) /\ SetRun(p, r)
                   /\ (r = Idle \/ \E from, to : Reads(p, r, from, to))
         /\ overtaken' \in BOOLEAN /\ (overtaken => overtaken')
         /\ excused \subseteq excused'
<1>1. PICK r0 : r0 = run[p]
  OBVIOUS
<1>2. r0 \in Runs /\ Distinct(r0.batches) /\ overtaken \in BOOLEAN
  BY <1>1, RunNow DEF SoundRun
<1>3. /\ file.ino \in Nat /\ file.gen \in Nat /\ file.lines \in Seq(Line)
      /\ Len(file.lines) \in Nat
  BY DEF Base, Types
<1>4. PICK n \in Nat : n = Len(file.lines)
  BY <1>3
<1>5. PICK from \in Nat : from = ReadFrom(r0.cursor) /\ from <= n
  <2>1. r0.cursor.offset \in Nat
    BY <1>2 DEF Runs, Position
  <2>2. ReadFrom(r0.cursor) \in Nat /\ ReadFrom(r0.cursor) <= n
    BY <1>4, <2>1 DEF ReadFrom
  <2>3. QED
    BY <2>2
<1>6. PICK to \in Nat : /\ to = IF n - from > MaxBytes THEN from + MaxBytes ELSE n
                        /\ from <= to /\ to <= n
  <2>1. MaxBytes \in Nat
    BY IngestAssumption
  <2>2. PICK t : t = IF n - from > MaxBytes THEN from + MaxBytes ELSE n
    OBVIOUS
  <2>3. t \in Nat /\ from <= t /\ t <= n
    BY <1>5, <2>1, <2>2
  <2>4. QED
    BY <2>2, <2>3
<1>7. PICK s : s = SubSeq(file.lines, from + 1, to)
  OBVIOUS
<1>8. /\ s \in Seq(Line) /\ Len(s) = to - from
      /\ \A i \in 1..(to - from) : s[i] = file.lines[from + i]
  BY <1>3, <1>4, <1>6, <1>7
<1>9. DOMAIN s = 1..(to - from)
  BY <1>8
<1>10. \A i \in 1..(to - from) : from + i \in DOMAIN file.lines
  BY <1>3, <1>4, <1>5, <1>6
<1>11. \A i, j \in DOMAIN s : s[i] \in Envelopes /\ s[i] = s[j] => i = j
  <2>1. SUFFICES ASSUME NEW i \in 1..(to - from), NEW j \in 1..(to - from),
                        s[i] \in Envelopes, s[i] = s[j]
                 PROVE  i = j
    BY <1>9
  <2>2. from + i = from + j
    BY <1>8, <1>10, <2>1 DEF Base, WrittenOnce
  <2>3. QED
    BY <2>2
<1>12. PICK f : f = Fresh(s)
  OBVIOUS
<1>13. /\ f \in Seq(Own) /\ \A m \in DOMAIN f : Wanted(f[m])
       /\ \A j \in DOMAIN s : Wanted(s[j]) => s[j] \in ToSet(f)
       /\ \A i, j \in DOMAIN f : f[i] = f[j] => i = j
  BY <1>8, <1>11, <1>12, FreshFacts
<1>14. PICK bs : bs = Batched(f)
  OBVIOUS
<1>15. bs \in Seq(Batch) /\ InBatches(bs) = ToSet(f) /\ Distinct(bs)
  BY <1>13, <1>14, BatchedFacts
<1>16. /\ r0.pc = "reading"
       /\ SetRun(p, IF file.ino = 0 THEN Idle
                    ELSE [r0 EXCEPT !.pc = "asking", !.batches = bs,
                            !.rounds = @ + 1, !.deferred = FALSE,
                            !.next = [ino |-> file.ino, offset |-> to, gen |-> file.gen],
                            !.exhausted = Len(file.lines) > to])
       /\ overtaken' = (overtaken \/ (from > 0 /\ r0.cursor.gen # file.gen))
       /\ excused' = excused \cup (ToSet(f) \cap UNION {InFlight(q) : q \in Processes \ {p}})
  BY <1>1, <1>4, <1>5, <1>6, <1>7, <1>12, <1>14 DEF ReadLog
<1>17. CASE file.ino = 0
  BY <1>2, <1>16, <1>17, IdleIsSound
<1>18. CASE file.ino # 0
  <2>1. PICK nx : nx = [ino |-> file.ino, offset |-> to, gen |-> file.gen]
    OBVIOUS
  <2>2. PICK more \in BOOLEAN : more = (Len(file.lines) > to)
    <3>1. (Len(file.lines) > to) \in BOOLEAN
      BY <1>3
    <3>2. QED
      BY <3>1, Zenon
  <2>3. nx \in Position
    BY <1>3, <2>1 DEF Position
  <2>3a. PICK k \in Nat : k = r0.rounds + 1
    <3>1. r0.rounds \in Nat
      BY <1>2 DEF Runs
    <3>2. QED
      BY <3>1
  <2>4. PICK r : r = [r0 EXCEPT !.pc = "asking", !.batches = bs, !.rounds = k,
                                !.deferred = FALSE, !.next = nx, !.exhausted = more]
    OBVIOUS
  <2>5. /\ r \in Runs /\ r.pc = "asking" /\ r.deferred = FALSE /\ r.batches = bs
        /\ r.next = nx
    BY <1>2, <1>15, <2>3, <2>4 DEF Runs
  <2>6. SetRun(p, r)
    BY <1>16, <1>18, <2>1, <2>2, <2>4, <2>3a
  <2>7. SoundRun(r)
    BY <1>15, <2>5 DEF SoundRun
  <2>8. ASSUME NEW i \in 1..to, i > from, Wanted(file.lines[i])
        PROVE  file.lines[i] \in InBatches(bs)
    <3>1. i - from \in 1..(to - from) /\ from + (i - from) = i
      BY <1>5, <1>6, <2>8
    <3>2. file.lines[i] = s[i - from]
      BY <1>8, <3>1
    <3>3. QED
      BY <1>9, <1>13, <1>15, <2>8, <3>1, <3>2
  <2>9. ASSUME NEW e \in InBatches(bs) PROVE e \notin ingested
    <3>1. PICK m \in DOMAIN f : e = f[m]
      BY <1>15 DEF ToSet
    <3>2. QED
      BY <1>13, <3>1 DEF Wanted
  <2>10. Reads(p, r, from, to)
    BY <1>1, <1>4, <1>5, <1>6, <1>15, <1>16, <2>1, <2>5, <2>8, <2>9 DEF Reads
  <2>11. QED
    BY <1>2, <1>16, <2>6, <2>7, <2>10
<1>19. QED
  BY <1>17, <1>18

(* The batches after the first.                                            *)
LEMMA TailOfBatches ==
  ASSUME NEW bs \in Seq(Batch), bs # <<>>, Distinct(bs)
  PROVE  /\ Tail(bs) \in Seq(Batch) /\ Distinct(Tail(bs))
         /\ Head(bs) \in Seq(Own) /\ Head(bs) # <<>>
         /\ InBatches(bs) = ToSet(Head(bs)) \cup InBatches(Tail(bs))
<1>1. /\ Head(bs) = bs[1] /\ 1 \in DOMAIN bs /\ Tail(bs) \in Seq(Batch)
      /\ \A b \in DOMAIN Tail(bs) : /\ b + 1 \in DOMAIN bs /\ b \in Nat \ {0}
                                    /\ Tail(bs)[b] = bs[b + 1]
  OBVIOUS
<1>2. \A b \in DOMAIN bs : b # 1 => b - 1 \in DOMAIN Tail(bs) /\ Tail(bs)[b - 1] = bs[b]
  OBVIOUS
<1>3. Head(bs) \in Seq(Own) /\ Head(bs) # <<>>
  BY <1>1 DEF Batch
<1>4. InBatches(bs) = ToSet(Head(bs)) \cup InBatches(Tail(bs))
  BY <1>1, <1>2 DEF InBatches
<1>5. Distinct(Tail(bs))
  <2>1. SUFFICES ASSUME NEW b \in DOMAIN Tail(bs), NEW d \in DOMAIN Tail(bs),
                        NEW i \in DOMAIN Tail(bs)[b], NEW j \in DOMAIN Tail(bs)[d],
                        Tail(bs)[b][i] = Tail(bs)[d][j]
                 PROVE  b = d /\ i = j
    BY DEF Distinct
  <2>2. /\ b + 1 \in DOMAIN bs /\ d + 1 \in DOMAIN bs /\ b \in Nat /\ d \in Nat
        /\ i \in DOMAIN bs[b + 1] /\ j \in DOMAIN bs[d + 1]
        /\ bs[b + 1][i] = bs[d + 1][j]
    BY <1>1, <2>1
  <2>3. b + 1 = d + 1 /\ i = j
    BY <2>2 DEF Distinct
  <2>4. QED
    BY <2>2, <2>3
<1>6. QED
  BY <1>1, <1>3, <1>4, <1>5

(* What a run has left to mark is in flight.                               *)
LEMMA LeftIsInFlight ==
  ASSUME NEW r, SoundRun(r)
  PROVE  Left(r) \subseteq InBatches(r.batches)
         /\ (r.pc = "queueing" => Head(r.queue) \in Left(r))
<1>1. CASE r.pc = "queueing"
  <2>1. /\ ToSet(r.queue) \subseteq InBatches(r.batches)
        /\ InBatches(r.batches) = ToSet(Head(r.batches)) \cup InBatches(Tail(r.batches))
        /\ ToSet(r.queue) = {Head(r.queue)} \cup ToSet(Tail(r.queue))
    BY <1>1, FrontIsOnce
  <2>2. QED
    BY <1>1, <2>1 DEF Left
<1>2. CASE r.pc # "queueing"
  BY <1>2 DEF Left
<1>3. QED
  BY <1>1, <1>2

(* A run starts from the saved cursor.                                     *)
LEMMA StartRun ==
  ASSUME Base, NEW p \in Processes, Start(p)
  PROVE  \E r : /\ SoundRun(r) /\ SetRun(p, r) /\ r.pc = "reading" /\ r.cursor = cursor
                /\ InBatches(r.batches) = {} /\ Left(r) = {}
<1>1. PICK r : r = [Idle EXCEPT !.pc = "reading", !.cursor = cursor]
  OBVIOUS
<1>2. SetRun(p, r)
  BY <1>1 DEF Start, ReadCursor
<1>3. Idle \in Runs /\ cursor \in Position /\ Idle.batches = <<>>
      /\ InBatches(<<>>) = {} /\ Distinct(<<>>)
  BY RunNow, IdleIsSound DEF SoundRun, Idle
<1>4. r \in Runs /\ r.pc = "reading" /\ r.cursor = cursor /\ r.batches = <<>>
  BY <1>1, <1>3 DEF Runs
<1>5. SoundRun(r) /\ Left(r) = {}
  BY <1>3, <1>4 DEF SoundRun, Left
<1>6. QED
  BY <1>2, <1>3, <1>4, <1>5

(* A rejected batch is given up for this round.                            *)
LEMMA RejectRun ==
  ASSUME Base, NEW p \in Processes, RejectBatch(p)
  PROVE  \E r : /\ SoundRun(r) /\ SetRun(p, r) /\ r.pc = "asking" /\ r.deferred
                /\ r.next = run[p].next /\ run[p].pc = "asking"
                /\ InBatches(r.batches) \subseteq InBatches(run[p].batches)
<1>1. PICK r0 : r0 = run[p]
  OBVIOUS
<1>2. r0 \in Runs /\ Distinct(r0.batches) /\ r0.batches \in Seq(Batch)
  BY <1>1, RunNow DEF SoundRun
<1>3. PICK bs : bs = Tail(r0.batches)
  OBVIOUS
<1>4. /\ r0.pc = "asking" /\ r0.batches # <<>>
      /\ SetRun(p, [r0 EXCEPT !.deferred = TRUE, !.batches = bs])
  BY <1>1, <1>3 DEF RejectBatch
<1>5. bs \in Seq(Batch) /\ Distinct(bs) /\ InBatches(bs) \subseteq InBatches(r0.batches)
  BY <1>2, <1>3, <1>4, TailOfBatches
<1>6. PICK r : r = [r0 EXCEPT !.deferred = TRUE, !.batches = bs]
  OBVIOUS
<1>7. r \in Runs /\ r.pc = "asking" /\ r.deferred = TRUE /\ r.batches = bs
      /\ r.next = r0.next
  BY <1>2, <1>4, <1>5, <1>6 DEF Runs
<1>8. SoundRun(r)
  BY <1>5, <1>7 DEF SoundRun
<1>9. QED
  BY <1>1, <1>4, <1>5, <1>6, <1>7, <1>8

(* A run has moved on in what it read, and dropped nothing.                *)
SameRound(r0, r) ==
  /\ r.next = r0.next /\ r.deferred = r0.deferred
  /\ InBatches(r.batches) \subseteq InBatches(r0.batches)

(* A run at its next envelope has all of the candidates before it.         *)
AllToDo(r) == r.pc = "queueing" => r.todo = r.answer[Head(r.queue)]

(* An accepted batch is queued from its first envelope.                    *)
LEMMA AcceptRun ==
  ASSUME Base, NEW p \in Processes, AcceptBatch(p)
  PROVE  \E r : /\ SoundRun(r) /\ SetRun(p, r) /\ r.pc = "queueing" /\ AllToDo(r)
                /\ SameRound(run[p], r) /\ run[p].pc = "asking"
                /\ Left(r) = Left(run[p])
<1>1. PICK r0 : r0 = run[p]
  OBVIOUS
<1>2. r0 \in Runs /\ Distinct(r0.batches) /\ r0.batches \in Seq(Batch)
  BY <1>1, RunNow DEF SoundRun
<1>3. PICK H : H = Head(r0.batches)
  OBVIOUS
<1>4. r0.pc = "asking" /\ r0.batches # <<>>
  BY <1>1 DEF AcceptBatch
<1>5. /\ H \in Seq(Own) /\ H # <<>>
      /\ InBatches(r0.batches) = ToSet(H) \cup InBatches(Tail(r0.batches))
  BY <1>2, <1>3, <1>4, TailOfBatches
<1>6. PICK read \in SUBSET ToSet(H) :
        SetRun(p, [r0 EXCEPT !.pc = "queueing", !.queue = H,
                             !.answer = ByEnvelope(H, read),
                             !.todo = ByEnvelope(H, read)[Head(H)]])
  BY <1>1, <1>3 DEF AcceptBatch
<1>7. PICK a : a = ByEnvelope(H, read)
  OBVIOUS
<1>8. /\ DOMAIN a = ToSet(H) /\ \A e \in ToSet(H) : a[e] \subseteq Candidates(e)
      /\ a = [e \in ToSet(H) |-> a[e]]
  BY <1>7 DEF ByEnvelope, Candidates
<1>9. ToSet(H) \subseteq Own /\ Head(H) \in ToSet(H)
  <2>1. \A i \in DOMAIN H : H[i] \in Own
    BY <1>5
  <2>2. Head(H) = H[1] /\ 1 \in DOMAIN H
    BY <1>5
  <2>3. QED
    BY <2>1, <2>2 DEF ToSet
<1>10. \A e \in ToSet(H) : a[e] \subseteq Candidate
  BY <1>8, <1>9 DEF Candidate
<1>11. a \in Answers
  <2>1. a \in [ToSet(H) -> SUBSET Candidate]
    BY <1>8, <1>10
  <2>2. QED
    BY <1>9, <2>1 DEF Answers
<1>12. PICK r : r = [r0 EXCEPT !.pc = "queueing", !.queue = H, !.answer = a,
                               !.todo = a[Head(H)]]
  OBVIOUS
<1>13. /\ r \in Runs /\ r.pc = "queueing" /\ r.queue = H /\ r.answer = a
       /\ r.todo = a[Head(H)] /\ r.batches = r0.batches /\ r.next = r0.next
       /\ r.deferred = r0.deferred
  <2>1. a[Head(H)] \in SUBSET Candidate
    BY <1>9, <1>10
  <2> HIDE <1>7
  <2>2. QED
    BY <1>2, <1>5, <1>11, <1>12, <2>1 DEF Runs
<1>14. Queueing(r)
  <2>1. H = SubSeq(H, 1, Len(H)) /\ 1 \in 1..Len(H)
    BY <1>5
  <2>2. \E k \in 1..Len(H) : H = SubSeq(H, k, Len(H))
    BY <2>1
  <2>3. QED
    BY <1>3, <1>4, <1>8, <1>13, <2>2 DEF Queueing
<1>15. SoundRun(r)
  BY <1>2, <1>13, <1>14 DEF SoundRun
<1>16. Left(r) = Left(r0)
  BY <1>3, <1>4, <1>5, <1>13 DEF Left
<1>17. SameRound(r0, r) /\ AllToDo(r)
  BY <1>13 DEF SameRound, AllToDo
<1>18. SetRun(p, r)
  BY <1>6, <1>7, <1>12
<1>19. QED
  BY <1>1, <1>4, <1>13, <1>15, <1>16, <1>17, <1>18

(* A queued candidate is no longer to do.                                  *)
LEMMA QueueRun ==
  ASSUME Base, NEW p \in Processes, QueuePendingExtraction(p)
  PROVE  \E r, e, c :
           /\ SoundRun(r) /\ SetRun(p, r) /\ SameRound(run[p], r)
           /\ run[p].pc = "queueing" /\ r.pc = "queueing" /\ Left(r) = Left(run[p])
           /\ e = Head(run[p].queue) /\ e = Head(r.queue) /\ r.answer = run[p].answer
           /\ c \in run[p].todo /\ r.todo = run[p].todo \ {c}
           /\ e \in Own /\ e \in Left(run[p]) /\ c \in Candidates(e)
           /\ pending' = [id \in DOMAIN pending \cup {PendingId(e, c)} |->
                            IF id = PendingId(e, c)
                            THEN [envelope |-> e, candidate |-> c] ELSE pending[id]]
<1>1. PICK r0 : r0 = run[p]
  OBVIOUS
<1>2. r0.pc = "queueing"
  BY <1>1 DEF QueuePendingExtraction
<1>3. SoundRun(r0) /\ r0 \in Runs /\ Distinct(r0.batches) /\ Queueing(r0)
  BY <1>1, <1>2, RunNow DEF SoundRun
<1>4. PICK e : e = Head(r0.queue)
  OBVIOUS
<1>5. e \in Own /\ e \in DOMAIN r0.answer /\ e \in Left(r0)
  BY <1>2, <1>3, <1>4, QueueFront, LeftIsInFlight
<1>6. PICK c \in r0.todo :
        /\ pending' = [id \in DOMAIN pending \cup {PendingId(e, c)} |->
                         IF id = PendingId(e, c)
                         THEN [envelope |-> e, candidate |-> c] ELSE pending[id]]
        /\ SetRun(p, [r0 EXCEPT !.todo = @ \ {c}])
  BY <1>1, <1>4 DEF QueuePendingExtraction
<1>7. c \in Candidates(e)
  BY <1>3, <1>4, <1>5 DEF Queueing
<1>8. PICK r : r = [r0 EXCEPT !.todo = @ \ {c}]
  OBVIOUS
<1>9. /\ r \in Runs /\ r.pc = "queueing" /\ r.queue = r0.queue /\ r.answer = r0.answer
      /\ r.todo = r0.todo \ {c} /\ r.batches = r0.batches /\ r.next = r0.next
      /\ r.deferred = r0.deferred
  BY <1>2, <1>3, <1>8 DEF Runs
<1>10. Queueing(r)
  BY <1>3, <1>9 DEF Queueing
<1>11. SoundRun(r)
  BY <1>3, <1>9, <1>10 DEF SoundRun
<1>12. Left(r) = Left(r0) /\ SameRound(r0, r)
  BY <1>2, <1>9 DEF Left, SameRound
<1>13. SetRun(p, r)
  BY <1>6, <1>8
<1>14. QED
  BY <1>1, <1>2, <1>4, <1>5, <1>6, <1>7, <1>9, <1>11, <1>12, <1>13

(* A marked envelope is behind the run, and the rest of what it read is    *)
(* not.                                                                    *)
LEMMA MarkRun ==
  ASSUME Base, NEW p \in Processes, MarkIngested(p)
  PROVE  \E r, e :
           /\ SoundRun(r) /\ SetRun(p, r) /\ SameRound(run[p], r) /\ AllToDo(r)
           /\ run[p].pc = "queueing" /\ r.pc \in {"asking", "queueing"}
           /\ e = Head(run[p].queue) /\ e \in Own /\ e \in DOMAIN run[p].answer
           /\ Left(run[p]) = {e} \cup Left(r) /\ e \notin Left(r)
           /\ run[p].todo = {} /\ ingested' = ingested \cup {e}
           /\ found' = found \cup {<<e, c>> : c \in run[p].answer[e]}
<1>1. PICK r0 : r0 = run[p]
  OBVIOUS
<1>2. r0.pc = "queueing"
  BY <1>1 DEF MarkIngested
<1>3. SoundRun(r0) /\ r0 \in Runs /\ Distinct(r0.batches) /\ Queueing(r0)
  BY <1>1, <1>2, RunNow DEF SoundRun
<1>4. PICK e : e = Head(r0.queue)
  OBVIOUS
<1>5. /\ e \in Own /\ e \in DOMAIN r0.answer /\ r0.queue \in Seq(Own) /\ r0.queue # <<>>
      /\ r0.batches \in Seq(Batch) /\ r0.batches # <<>>
  BY <1>3, <1>4, QueueFront
<1>6. PICK q : q = Tail(r0.queue)
  OBVIOUS
<1>7. PICK bs : bs = Tail(r0.batches)
  OBVIOUS
<1>8. /\ bs \in Seq(Batch) /\ Distinct(bs)
      /\ InBatches(r0.batches) = ToSet(Head(r0.batches)) \cup InBatches(bs)
  BY <1>3, <1>5, <1>7, TailOfBatches
<1>9. /\ e \notin ToSet(q) /\ e \notin InBatches(bs) /\ ToSet(r0.queue) = {e} \cup ToSet(q)
  BY <1>2, <1>3, <1>4, <1>6, <1>7, FrontIsOnce
<1>10. Left(r0) = {e} \cup (ToSet(q) \cup InBatches(bs))
  BY <1>2, <1>7, <1>9 DEF Left
<1>11. /\ r0.todo = {} /\ ingested' = ingested \cup {e}
       /\ found' = found \cup {<<e, c>> : c \in r0.answer[e]}
       /\ SetRun(p, IF Len(r0.queue) > 1
                    THEN [r0 EXCEPT !.queue = q, !.todo = r0.answer[r0.queue[2]]]
                    ELSE [r0 EXCEPT !.pc = "asking", !.batches = bs, !.answer = <<>>,
                                    !.queue = <<>>, !.todo = {}])
  BY <1>1, <1>4, <1>6, <1>7 DEF MarkIngested, Mark, QueuedBeforeMark
<1>12. CASE Len(r0.queue) > 1
  <2>1. PICK H : H = Head(r0.batches)
    OBVIOUS
  <2>2. H \in Seq(Own) /\ Len(H) \in Nat
    BY <1>3, <1>5, <2>1, TailOfBatches
  <2>3. PICK k \in 1..Len(H) : r0.queue = SubSeq(H, k, Len(H))
    BY <1>3, <2>1 DEF Queueing
  <2>4. k + 1 \in 1..Len(H) /\ q = SubSeq(H, k + 1, Len(H))
    BY <1>5, <1>6, <1>12, <2>2, <2>3
  <2>5. q \in Seq(Own) /\ Head(q) = r0.queue[2] /\ 1 \in DOMAIN q /\ Head(q) = q[1]
    BY <1>5, <1>6, <1>12
  <2>6. Head(q) \in ToSet(H)
    <3>1. q[1] = H[k + 1] /\ k + 1 \in DOMAIN H
      BY <2>2, <2>3, <2>4
    <3>2. QED
      BY <2>5, <3>1 DEF ToSet
  <2>7. PICK t : t = r0.answer[Head(q)]
    OBVIOUS
  <2>8. t \subseteq Candidates(Head(q)) /\ Head(q) \in Own
    BY <1>3, <2>1, <2>5, <2>6, <2>7 DEF Queueing
  <2>9. t \in SUBSET Candidate
    BY <2>8 DEF Candidate
  <2>10. PICK r : r = [r0 EXCEPT !.queue = q, !.todo = t]
    OBVIOUS
  <2>11. /\ r \in Runs /\ r.pc = "queueing" /\ r.queue = q /\ r.answer = r0.answer
         /\ r.todo = t /\ r.batches = r0.batches /\ r.next = r0.next
         /\ r.deferred = r0.deferred
    <3>1. QED
      BY <1>2, <1>3, <2>5, <2>9, <2>10 DEF Runs
  <2>12. Queueing(r)
    <3>1. \E j \in 1..Len(H) : q = SubSeq(H, j, Len(H))
      BY <2>4
    <3>2. QED
      BY <1>3, <2>1, <2>7, <2>11, <3>1 DEF Queueing
  <2>13. SoundRun(r)
    BY <1>3, <2>11, <2>12 DEF SoundRun
  <2>14. Left(r) = ToSet(q) \cup InBatches(bs)
    BY <1>7, <2>11 DEF Left
  <2>15. SetRun(p, r)
    BY <1>11, <1>12, <2>5, <2>7, <2>10
  <2>16. SameRound(r0, r) /\ AllToDo(r)
    BY <2>7, <2>11 DEF SameRound, AllToDo
  <2>17. QED
    BY <1>1, <1>2, <1>4, <1>5, <1>9, <1>10, <1>11, <2>11, <2>13, <2>14, <2>15, <2>16
<1>13. CASE ~(Len(r0.queue) > 1)
  <2>1. ToSet(q) = {}
    <3>1. Len(r0.queue) = 1
      <4>1. PICK w \in Seq(Own) : w = r0.queue /\ w # <<>>
        BY <1>5
      <4>2. Len(w) \in Nat /\ Len(w) # 0
        BY <4>1
      <4>3. PICK n \in Nat : n = Len(w) /\ n # 0
        BY <4>2, Zenon
      <4>4. ~(n > 1) /\ Len(r0.queue) = n
        BY <1>13, <4>1, <4>3, Zenon
      <4>5. n = 1
        BY <4>3, <4>4
      <4>6. QED
        BY <4>4, <4>5
    <3>2. q \in Seq(Own) /\ Len(q) = 0
      BY <1>5, <1>6, <3>1
    <3>3. DOMAIN q = {}
      BY <3>2
    <3>4. QED
      BY <3>3 DEF ToSet
  <2>2. PICK none : none = <<>> /\ none \in Seq(Own) /\ none \in Answers
    <3>1. <<>> \in Seq(Own) /\ <<>> \in Answers
      BY DEF Answers
    <3>2. QED
      BY <3>1, Zenon
  <2>3. none \in Seq(Own) /\ none \in Answers
    BY <2>2
  <2>4. PICK r : r = [r0 EXCEPT !.pc = "asking", !.batches = bs, !.answer = none,
                                !.queue = none, !.todo = {}]
    OBVIOUS
  <2>5. /\ r \in Runs /\ r.pc = "asking" /\ r.batches = bs /\ r.next = r0.next
        /\ r.deferred = r0.deferred
    BY <1>3, <1>8, <2>3, <2>4 DEF Runs
  <2>6. SoundRun(r)
    BY <1>8, <2>5 DEF SoundRun
  <2>7. Left(r) = InBatches(bs)
    BY <2>5 DEF Left
  <2>8. SetRun(p, r)
    BY <1>11, <1>13, <2>2, <2>4
  <2>9. SameRound(r0, r) /\ AllToDo(r)
    BY <1>8, <2>5 DEF SameRound, AllToDo
  <2>10. Left(r0) = {e} \cup Left(r) /\ e \notin Left(r)
    BY <1>9, <1>10, <2>1, <2>7
  <2>11. QED
    BY <1>1, <1>2, <1>4, <1>5, <1>11, <2>5, <2>6, <2>8, <2>9, <2>10
<1>14. QED
  BY <1>12, <1>13

(* A round ends where everything it read is marked, and the cursor stays   *)
(* where something was put off.                                            *)
LEMMA FinishRun ==
  ASSUME Base, NEW p \in Processes, FinishRound(p)
  PROVE  \E r : /\ SoundRun(r) /\ SetRun(p, r) /\ Left(r) = {}
                /\ InBatches(r.batches) = {} /\ Left(run[p]) = {}
                /\ run[p].pc = "asking" /\ cursor' \in Position
                /\ cursor' = IF run[p].deferred THEN cursor ELSE run[p].next
                /\ \/ r = Idle
                   \/ r.pc = "reading" /\ r.cursor = run[p].next /\ ~run[p].deferred
<1>1. PICK r0 : r0 = run[p]
  OBVIOUS
<1>2. r0 \in Runs /\ Distinct(r0.batches) /\ cursor \in Position
  BY <1>1, RunNow DEF SoundRun
<1>3. PICK nx : nx = r0.next
  OBVIOUS
<1>4. nx \in Position /\ r0.deferred \in BOOLEAN
  BY <1>2, <1>3 DEF Runs
<1>5. /\ r0.pc = "asking" /\ r0.batches = <<>>
      /\ cursor' = IF r0.deferred THEN cursor ELSE nx
      /\ SetRun(p, IF r0.exhausted /\ ~r0.deferred /\ r0.rounds < MaxRounds
                   THEN [r0 EXCEPT !.pc = "reading", !.cursor = nx] ELSE Idle)
  BY <1>1, <1>3 DEF FinishRound, WriteCursor, CursorAdvanced
<1>6. InBatches(<<>>) = {} /\ Left(r0) = {} /\ Idle.batches = <<>>
  BY <1>5, IdleIsSound DEF Left, Idle
<1>7. cursor' \in Position
  BY <1>2, <1>4, <1>5
<1>8. CASE r0.exhausted /\ ~r0.deferred /\ r0.rounds < MaxRounds
  <2>1. PICK r : r = [r0 EXCEPT !.pc = "reading", !.cursor = nx]
    OBVIOUS
  <2>2. r \in Runs /\ r.pc = "reading" /\ r.cursor = nx /\ r.batches = <<>>
    BY <1>2, <1>4, <1>5, <2>1 DEF Runs
  <2>3. SoundRun(r) /\ Left(r) = {}
    BY <1>2, <1>5, <1>6, <2>2 DEF SoundRun, Left
  <2>4. SetRun(p, r)
    BY <1>5, <1>8, <2>1
  <2>5. QED
    BY <1>1, <1>3, <1>5, <1>6, <1>7, <1>8, <2>2, <2>3, <2>4
<1>9. CASE ~(r0.exhausted /\ ~r0.deferred /\ r0.rounds < MaxRounds)
  <2>1. SetRun(p, Idle)
    BY <1>5, <1>9
  <2>2. QED
    BY <1>1, <1>3, <1>5, <1>6, <1>7, <2>1, IdleIsSound
<1>10. QED
  BY <1>8, <1>9

(* What a run's steps are.                                                 *)
RunActs(p) ==
  \/ Start(p) \/ ReadLog(p) \/ RejectBatch(p) \/ AcceptBatch(p)
  \/ QueuePendingExtraction(p) \/ MarkIngested(p) \/ FinishRound(p) \/ IngestCrashes(p)

(* A step that leaves the log and the runs alone keeps what all rest on.   *)
LEMMA OtherStep ==
  ASSUME Base, UNCHANGED <<file, halves, toWrite, run>>, cursor' \in Position,
         overtaken' \in BOOLEAN
  PROVE  Base'
BY DEF Base, Types, WrittenOnce, BatchInv

(* No step of a run moves the log, and none but FinishRound the cursor.    *)
LEMMA RunFrame ==
  ASSUME NEW p \in Processes, RunActs(p)
  PROVE  /\ UNCHANGED <<file, halves, toWrite, stored, decided>>
         /\ ~ReadLog(p) => UNCHANGED overtaken
         /\ ~FinishRound(p) => UNCHANGED cursor
         /\ ~MarkIngested(p) => UNCHANGED <<ingested, found>>
         /\ ~QueuePendingExtraction(p) => UNCHANGED pending
         /\ ~ReadLog(p) /\ ~IngestCrashes(p) => UNCHANGED excused
<1>1. CASE Start(p)
  BY <1>1 DEF Start, store, history
<1>2. CASE ReadLog(p)
  BY <1>2 DEF ReadLog, store, history
<1>3. CASE RejectBatch(p)
  BY <1>3 DEF RejectBatch, store, history
<1>4. CASE AcceptBatch(p)
  BY <1>4 DEF AcceptBatch, store, history
<1>5. CASE QueuePendingExtraction(p)
  BY <1>5 DEF QueuePendingExtraction, store, history
<1>6. CASE MarkIngested(p)
  BY <1>6 DEF MarkIngested, store, history
<1>7. CASE FinishRound(p)
  BY <1>7 DEF FinishRound, store, history
<1>8. CASE IngestCrashes(p)
  BY <1>8 DEF IngestCrashes, store, history
<1>9. QED
  BY <1>1, <1>2, <1>3, <1>4, <1>5, <1>6, <1>7, <1>8 DEF RunActs

(* The steps of a run keep what all rest on, and are the process's own.    *)
LEMMA RunBase ==
  ASSUME Base, NEW p \in Processes, RunActs(p)
  PROVE  /\ Base' /\ \A q \in Processes : q # p => run'[q] = run[q]
         /\ \A r : SetRun(p, r) => run'[p] = r
<1>1. cursor' \in Position
  <2>1. CASE FinishRound(p)
    BY <2>1, FinishRun
  <2>2. CASE ~FinishRound(p)
    BY <2>2, RunFrame, RunNow
  <2>3. QED
    BY <2>1, <2>2
<1>2. overtaken' \in BOOLEAN
  <2>1. CASE ReadLog(p)
    BY <2>1, ReadLogRun
  <2>2. CASE ~ReadLog(p)
    BY <2>2, RunFrame, RunNow
  <2>3. QED
    BY <2>1, <2>2
<1>3. \E r : SoundRun(r) /\ SetRun(p, r)
  <2>1. CASE Start(p)
    BY <2>1, StartRun
  <2>2. CASE ReadLog(p)
    BY <2>2, ReadLogRun
  <2>3. CASE RejectBatch(p)
    BY <2>3, RejectRun
  <2>4. CASE AcceptBatch(p)
    BY <2>4, AcceptRun
  <2>5. CASE QueuePendingExtraction(p)
    BY <2>5, QueueRun
  <2>6. CASE MarkIngested(p)
    BY <2>6, MarkRun
  <2>7. CASE FinishRound(p)
    BY <2>7, FinishRun
  <2>8. CASE IngestCrashes(p)
    BY <2>8, IdleIsSound DEF IngestCrashes
  <2>9. QED
    BY <2>1, <2>2, <2>3, <2>4, <2>5, <2>6, <2>7, <2>8 DEF RunActs
<1>4. UNCHANGED <<file, halves, toWrite>>
  BY RunFrame
<1>5. PICK r : SoundRun(r) /\ SetRun(p, r)
  BY <1>3
<1>6. Base' /\ \A q \in Processes : q # p => run'[q] = run[q]
  BY <1>1, <1>2, <1>4, <1>5, RunStep
<1>7. \A s : SetRun(p, s) => run'[p] = s
  BY DEF SetRun, Base, Types
<1>8. QED
  BY <1>6, <1>7

(* The person's steps ...                                                  *)
PersonActs ==
  \E id \in DOMAIN pending : Dismiss(id) \/ ConfirmPending(id) \/ ConfirmCrashes(id)

(* ... leave the log, the cursor, the markers and the runs alone.          *)
LEMMA PersonFrame ==
  ASSUME PersonActs
  PROVE  UNCHANGED <<file, halves, toWrite, cursor, ingested, run, found, overtaken>>
BY DEF PersonActs, Dismiss, ConfirmPending, ConfirmCrashes

(* The kinds of step there are.                                            *)
LEMMA StepKinds ==
  ASSUME [Next]_vars
  PROVE  \/ LogActs \/ LoseCursor \/ (\E p \in Processes : RunActs(p)) \/ PersonActs
         \/ UNCHANGED vars
<1>1. CASE Next
  BY <1>1 DEF Next, LogActs, RunActs, PersonActs
<1>2. QED
  BY <1>1

(* Nothing is wrong at the start ...                                       *)
LEMMA BaseInit == Init => Base
<1> SUFFICES ASSUME Init PROVE Base
  OBVIOUS
<1>1. <<>> \in Seq(Line) /\ DOMAIN <<>> = {}
  OBVIOUS
<1>2. file \in [ino : Nat, gen : Nat, lines : Seq(Line), tail : Seq(Line)]
      /\ file.lines = <<>>
  BY <1>1 DEF Init
<1>3. run \in [Processes -> Runs] /\ \A p \in Processes : run[p] = Idle
  BY IdleIsSound DEF Init, SoundRun
<1>4. Types
  BY <1>2, <1>3 DEF Types, Init, NoCursor, Position
<1>5. WrittenOnce
  BY <1>1, <1>2 DEF WrittenOnce, Init
<1>6. BatchInv
  BY <1>3, IdleIsSound DEF BatchInv, SoundRun
<1>7. QED
  BY <1>4, <1>5, <1>6 DEF Base

(* ... and no step makes it so.                                            *)
LEMMA BaseStep == Base /\ [Next]_vars => Base'
<1> SUFFICES ASSUME Base, [Next]_vars PROVE Base'
  OBVIOUS
<1>1. cursor \in Position /\ overtaken \in BOOLEAN
  BY DEF Base, Types
<1>2. CASE LogActs
  BY <1>2, LogStep
<1>3. CASE LoseCursor
  <2>1. cursor' \in Position
    BY <1>3 DEF LoseCursor, NoCursor, Position
  <2>2. UNCHANGED <<file, halves, toWrite, run, overtaken>>
    BY <1>3 DEF LoseCursor, history
  <2>3. QED
    BY <1>1, <2>1, <2>2, OtherStep
<1>4. CASE \E p \in Processes : RunActs(p)
  BY <1>4, RunBase
<1>5. CASE PersonActs
  BY <1>1, <1>5, PersonFrame, OtherStep
<1>6. CASE UNCHANGED vars
  BY <1>1, <1>6, OtherStep DEF vars, store, history
<1>7. QED
  BY <1>2, <1>3, <1>4, <1>5, <1>6, StepKinds

-----------------------------------------------------------------------------
(* The cursor.                                                             *)

(* A position stays behind the log.                                        *)
LEMMA BehindKept ==
  ASSUME Base, Base', GoesOn \/ Another, NEW c \in Position, Behind(c)
  PROVE  (Behind(c))'
<1>1. /\ file.ino \in Nat /\ file.gen \in Nat /\ file'.ino \in Nat /\ file'.gen \in Nat
      /\ c.ino \in Nat /\ c.gen \in Nat
  BY DEF Base, Types, Position
<1>2. file.ino <= file'.ino /\ file.gen <= file'.gen
  BY <1>1 DEF GoesOn, Another
<1>3. QED
  BY <1>1, <1>2 DEF Behind

(* What was covered stays so while the log goes on or is another, and what *)
(* is marked need no longer be excepted.                                   *)
LEMMA CoversKept ==
  ASSUME Base, Base', GoesOn \/ Another, overtaken => overtaken',
         ingested \subseteq ingested', NEW c \in Position, NEW S, NEW T,
         S \subseteq T \cup ingested', Behind(c), Covers(c, S)
  PROVE  (Behind(c))' /\ (Covers(c, T))'
<1>1. /\ file.ino \in Nat /\ file.gen \in Nat /\ file'.ino \in Nat /\ file'.gen \in Nat
      /\ file.lines \in Seq(Line) /\ file'.lines \in Seq(Line)
  BY DEF Base, Types
<1>2. c.ino \in Nat /\ c.offset \in Nat /\ c.gen \in Nat
  BY DEF Position
<1>3. CASE Another
  <2>1. c.ino <= file'.ino /\ c.gen <= file'.gen /\ ~(c.ino = file'.ino /\ c.gen = file'.gen)
    BY <1>1, <1>2, <1>3 DEF Another, Behind
  <2>2. QED
    BY <2>1 DEF Behind, Covers, Here
<1>4. CASE GoesOn
  <2>1. (Behind(c))'
    BY <1>4 DEF GoesOn, Behind
  <2>2. ASSUME c.ino = file'.ino, c.gen = file'.gen
        PROVE  /\ c.offset <= Len(file'.lines)
               /\ ~overtaken' => \A i \in 1..c.offset :
                    file'.lines[i] \in Own => file'.lines[i] \in ingested' \cup T
    <3>1. Here(c) /\ Len(file.lines) <= Len(file'.lines)
      BY <1>4, <2>2 DEF GoesOn, Here
    <3>2. /\ c.offset <= Len(file.lines)
          /\ ~overtaken => \A i \in 1..c.offset :
               file.lines[i] \in Own => file.lines[i] \in ingested \cup S
      BY <3>1 DEF Covers
    <3>3. Len(file.lines) \in Nat /\ Len(file'.lines) \in Nat
      BY <1>1
    <3>4. c.offset <= Len(file'.lines)
      BY <1>2, <3>1, <3>2, <3>3
    <3>5. \A i \in 1..c.offset : file'.lines[i] = file.lines[i]
      <4>1. \A i \in 1..c.offset : i \in 1..Len(file.lines)
        BY <1>2, <3>2, <3>3
      <4>2. QED
        BY <1>4, <4>1 DEF GoesOn
    <3>6. ASSUME ~overtaken', NEW i \in 1..c.offset, file'.lines[i] \in Own
          PROVE  file'.lines[i] \in ingested' \cup T
      <4>1. file.lines[i] \in ingested \cup S
        BY <3>2, <3>5, <3>6
      <4>2. QED
        BY <3>5, <4>1
    <3>7. QED
      BY <3>4, <3>6
  <2>3. (Covers(c, T))'
    BY <2>2 DEF Covers, Here
  <2>4. QED
    BY <2>1, <2>3
<1>5. QED
  BY <1>3, <1>4

(* So does a run that does not move.                                       *)
LEMMA CoveredKept ==
  ASSUME Base, Base', GoesOn \/ Another, overtaken => overtaken',
         ingested \subseteq ingested', NEW r \in Runs, CoveredRun(r)
  PROVE  (CoveredRun(r))'
<1>1. r.cursor \in Position /\ r.next \in Position
  BY DEF Runs
<1>2. ASSUME r.pc = "reading" PROVE (Behind(r.cursor))' /\ (Covers(r.cursor, {}))'
  <2>1. Behind(r.cursor) /\ Covers(r.cursor, {})
    BY <1>2 DEF CoveredRun
  <2>2. QED
    BY <1>1, <2>1, CoversKept
<1>3. ASSUME r.pc \in {"asking", "queueing"}
      PROVE  (Behind(r.next))' /\ (r.deferred \/ (Covers(r.next, Left(r)))')
  <2>1. Behind(r.next) /\ (r.deferred \/ Covers(r.next, Left(r)))
    BY <1>3 DEF CoveredRun
  <2>2. (Behind(r.next))'
    BY <1>1, <2>1, BehindKept
  <2>3. ASSUME ~r.deferred PROVE (Covers(r.next, Left(r)))'
    <3>1. PICK S : S = Left(r)
      OBVIOUS
    <3>2. Covers(r.next, S)
      BY <2>1, <2>3, <3>1
    <3>3. (Covers(r.next, S))'
      BY <1>1, <2>1, <3>2, CoversKept
    <3>4. QED
      BY <3>1, <3>3
  <2>4. QED
    BY <2>2, <2>3
<1>4. QED
  BY <1>2, <1>3 DEF CoveredRun

(* A run in the same round, whose next offset was covered, is covered.     *)
LEMMA RoundCovered ==
  ASSUME Base, Base', GoesOn, overtaken => overtaken', ingested \subseteq ingested',
         NEW r0 \in Runs, CoveredRun(r0), r0.pc \in {"asking", "queueing"},
         NEW r, r.pc \in {"asking", "queueing"}, r.next = r0.next,
         r.deferred \/ (~r0.deferred /\ Left(r0) \subseteq Left(r) \cup ingested')
  PROVE  (CoveredRun(r))'
<1>1. r0.next \in Position
  BY DEF Runs
<1>2. Behind(r0.next) /\ (r0.deferred \/ Covers(r0.next, Left(r0)))
  BY DEF CoveredRun
<1>3. (Behind(r.next))'
  BY <1>2 DEF Behind, GoesOn
<1>4. ASSUME ~r.deferred PROVE (Covers(r.next, Left(r)))'
  <2>0. PICK c \in Position : c = r0.next
    BY <1>1, Zenon
  <2>1. PICK S, T : S = Left(r0) /\ T = Left(r)
    OBVIOUS
  <2>2. Behind(c) /\ Covers(c, S) /\ S \subseteq T \cup ingested'
    BY <1>2, <1>4, <2>0, <2>1
  <2>3. (Covers(c, T))'
    BY <2>2, CoversKept
  <2>4. QED
    BY <2>0, <2>1, <2>3
<1>5. QED
  BY <1>3, <1>4 DEF CoveredRun

(* Nothing is past the cursor at the start.                                *)
LEMMA CursorInit == Init => CursorInv
<1> SUFFICES ASSUME Init PROVE CursorInv
  OBVIOUS
<1>1. Behind(cursor) /\ Covers(cursor, {})
  <2>1. cursor.offset = 0 /\ cursor.ino = 0 /\ cursor.gen = 0 /\ file.ino = 0
        /\ file.gen = 0 /\ file.lines = <<>> /\ Len(<<>>) = 0
    BY DEF Init, NoCursor
  <2>2. QED
    BY <2>1 DEF Behind, Covers
<1>2. \A p \in Processes : CoveredRun(run[p])
  BY DEF Init, Idle, CoveredRun
<1>3. QED
  BY <1>1, <1>2 DEF CursorInv

(* A read covers what it read: the lines before it were covered, and those *)
(* of it are marked or before the run.                                     *)
LEMMA ReadCovers ==
  ASSUME Base, CursorInv, NEW p \in Processes, run[p].pc = "reading",
         NEW r, SoundRun(r), NEW from, NEW to, Reads(p, r, from, to),
         file' = file, ingested' = ingested
  PROVE  (CoveredRun(r))'
<1>1. /\ from \in Nat /\ to \in Nat /\ from <= to /\ to <= Len(file.lines)
      /\ from = ReadFrom(run[p].cursor) /\ r.pc = "asking" /\ r.deferred = FALSE
      /\ r.next.ino = file.ino /\ r.next.offset = to /\ r.next.gen = file.gen
  BY DEF Reads
<1>2. /\ file.ino \in Nat /\ file.gen \in Nat /\ overtaken \in BOOLEAN
  BY DEF Base, Types
<1>3. Left(r) = InBatches(r.batches)
  BY <1>1 DEF Left
<1>4. Behind(run[p].cursor) /\ Covers(run[p].cursor, {})
  BY DEF CursorInv, CoveredRun
<1>5. ASSUME ~overtaken', NEW i \in 1..to, file.lines[i] \in Own
      PROVE  file.lines[i] \in ingested \cup Left(r)
  <2>1. ~overtaken /\ (from > 0 => run[p].cursor.gen = file.gen)
    BY <1>5 DEF Reads
  <2>2. CASE i > from
    BY <1>3, <1>5, <2>2 DEF Reads, Wanted
  <2>3. CASE ~(i > from)
    <3>1. from > 0 /\ i \in 1..from
      BY <1>1, <2>3
    <3>2. run[p].cursor.ino = file.ino /\ from = run[p].cursor.offset
      BY <1>1, <3>1 DEF ReadFrom
    <3>3. Here(run[p].cursor)
      BY <2>1, <3>1, <3>2 DEF Here
    <3>4. QED
      BY <1>4, <1>5, <2>1, <3>1, <3>2, <3>3 DEF Covers
  <2>4. QED
    BY <2>2, <2>3
<1>6. (Behind(r.next))'
  BY <1>1, <1>2 DEF Behind
<1>7. (Covers(r.next, Left(r)))'
  BY <1>1, <1>5 DEF Covers
<1>8. QED
  BY <1>1, <1>6, <1>7 DEF CoveredRun

(* No step leaves an envelope behind a cursor.                             *)
LEMMA CursorStep == Base /\ CursorInv /\ [Next]_vars => CursorInv'
<1> SUFFICES ASSUME Base, CursorInv, [Next]_vars PROVE CursorInv'
  OBVIOUS
<1>1. Base'
  BY BaseStep
<1>2. cursor \in Position /\ \A p \in Processes : run[p] \in Runs
  BY DEF Base, Types
<1>3. Behind(cursor) /\ Covers(cursor, {}) /\ \A p \in Processes : CoveredRun(run[p])
  BY DEF CursorInv
<1>4. ASSUME GoesOn \/ Another, overtaken => overtaken', UNCHANGED <<cursor, ingested, run>>
      PROVE  CursorInv'
  <2>1. (Behind(cursor))' /\ (Covers(cursor, {}))'
    <3>1. PICK c \in Position : c = cursor
      BY <1>2
    <3>2. (Behind(c))' /\ (Covers(c, {}))'
      BY <1>1, <1>3, <1>4, <3>1, CoversKept
    <3>3. QED
      BY <1>4, <3>1, <3>2 DEF Behind, Covers, Here
  <2>2. ASSUME NEW p \in Processes PROVE (CoveredRun(run[p]))'
    <3>1. PICK r \in Runs : r = run[p]
      BY <1>2
    <3>2. (CoveredRun(r))'
      BY <1>1, <1>3, <1>4, <3>1, CoveredKept
    <3>3. r = run'[p]
      BY <1>4, <3>1
    <3>4. QED
      BY <3>2, <3>3 DEF CoveredRun, Behind, Covers, Here
  <2>3. QED
    BY <2>1, <2>2 DEF CursorInv
<1>5. ASSUME file' = file PROVE GoesOn
  <2>1. Len(file.lines) \in Nat
    BY DEF Base, Types
  <2>2. QED
    BY <1>5, <2>1 DEF GoesOn
<1>6. CASE LogActs
  BY <1>4, <1>6, LogStep DEF store, history
<1>7. CASE LoseCursor
  <2>1. /\ file' = file /\ UNCHANGED <<ingested, run, overtaken>> /\ cursor' = NoCursor
    BY <1>7 DEF LoseCursor, history
  <2>2. cursor'.ino = 0 /\ cursor'.gen = 0 /\ cursor'.offset = 0
    BY <2>1 DEF NoCursor
  <2>3. file.ino \in Nat /\ file.gen \in Nat /\ file.lines \in Seq(Line)
        /\ Len(file.lines) \in Nat
    BY DEF Base, Types
  <2>4. (Behind(cursor))' /\ (Covers(cursor, {}))'
    BY <2>1, <2>2, <2>3 DEF Behind, Covers
  <2>5. \A p \in Processes : (CoveredRun(run[p]))'
    BY <1>3, <2>1 DEF CoveredRun, Behind, Covers, Here
  <2>6. QED
    BY <2>4, <2>5 DEF CursorInv
<1>8. ASSUME NEW p \in Processes, RunActs(p) PROVE CursorInv'
  <2>1. file' = file /\ GoesOn
    BY <1>5, <1>8, RunFrame
  <2>2. overtaken => overtaken'
    <3>1. CASE ReadLog(p)
      BY <3>1, ReadLogRun
    <3>2. CASE ~ReadLog(p)
      BY <1>8, <3>2, RunFrame
    <3>3. QED
      BY <3>1, <3>2
  <2>3. ingested \subseteq ingested'
    <3>1. CASE MarkIngested(p)
      BY <3>1, MarkRun
    <3>2. CASE ~MarkIngested(p)
      BY <1>8, <3>2, RunFrame
    <3>3. QED
      BY <3>1, <3>2
  <2>4. PICK r0 \in Runs : r0 = run[p]
    BY <1>2
  <2>5. CoveredRun(r0)
    BY <1>3, <2>4
  <2>6. ~MarkIngested(p) => ingested' = ingested
    BY <1>8, RunFrame
  <2>7. PICK r : SetRun(p, r) /\ (CoveredRun(r))'
    <3>1. CASE Start(p)
      <4>1. PICK r : SoundRun(r) /\ SetRun(p, r) /\ r.pc = "reading" /\ r.cursor = cursor
        BY <3>1, StartRun
      <4>2. PICK c \in Position : c = cursor
        BY <1>2
      <4>3. (Behind(c))' /\ (Covers(c, {}))'
        BY <1>1, <1>3, <2>1, <2>2, <2>3, <4>2, CoversKept
      <4>4. (CoveredRun(r))'
        BY <4>1, <4>2, <4>3 DEF CoveredRun, Behind, Covers, Here
      <4>5. QED
        BY <4>1, <4>4
    <3>2. CASE ReadLog(p)
      <4>1. PICK r : SoundRun(r) /\ SetRun(p, r)
                     /\ (r = Idle \/ \E from, to : Reads(p, r, from, to))
        BY <3>2, ReadLogRun
      <4>2. CASE r = Idle
        BY <4>1, <4>2 DEF CoveredRun, Idle
      <4>3. CASE \E from, to : Reads(p, r, from, to)
        <5>1. run[p].pc = "reading"
          BY <3>2 DEF ReadLog
        <5>2. ingested' = ingested
          BY <3>2 DEF ReadLog, store
        <5>3. (CoveredRun(r))'
          BY <2>1, <4>1, <4>3, <5>1, <5>2, ReadCovers
        <5>4. QED
          BY <4>1, <5>3
      <4>4. QED
        BY <4>1, <4>2, <4>3
    <3>3. CASE RejectBatch(p)
      <4>1. PICK r : /\ SetRun(p, r) /\ r.pc = "asking" /\ r.deferred
                     /\ r.next = r0.next /\ r0.pc = "asking"
        BY <2>4, <3>3, RejectRun
      <4>2. (CoveredRun(r))'
        BY <1>1, <2>1, <2>2, <2>3, <2>5, <4>1, RoundCovered
      <4>3. QED
        BY <4>1, <4>2
    <3>4. CASE AcceptBatch(p)
      <4>1. PICK r : /\ SetRun(p, r) /\ r.pc = "queueing" /\ SameRound(r0, r)
                     /\ r0.pc = "asking" /\ Left(r) = Left(r0)
        BY <2>4, <3>4, AcceptRun
      <4>2. r.deferred \/ (~r0.deferred /\ Left(r0) \subseteq Left(r) \cup ingested')
        BY <4>1 DEF SameRound
      <4>3. r.next = r0.next
        BY <4>1 DEF SameRound
      <4>4. (CoveredRun(r))'
        BY <1>1, <2>1, <2>2, <2>3, <2>5, <4>1, <4>2, <4>3, RoundCovered
      <4>5. QED
        BY <4>1, <4>4
    <3>5. CASE QueuePendingExtraction(p)
      <4>1. PICK r : /\ SetRun(p, r) /\ r.pc = "queueing" /\ SameRound(r0, r)
                     /\ r0.pc = "queueing" /\ Left(r) = Left(r0)
        BY <2>4, <3>5, QueueRun
      <4>2. r.deferred \/ (~r0.deferred /\ Left(r0) \subseteq Left(r) \cup ingested')
        BY <4>1 DEF SameRound
      <4>3. r.next = r0.next
        BY <4>1 DEF SameRound
      <4>4. (CoveredRun(r))'
        BY <1>1, <2>1, <2>2, <2>3, <2>5, <4>1, <4>2, <4>3, RoundCovered
      <4>5. QED
        BY <4>1, <4>4
    <3>6. CASE MarkIngested(p)
      <4>1. PICK r, e : /\ SetRun(p, r) /\ r.pc \in {"asking", "queueing"}
                        /\ SameRound(r0, r) /\ r0.pc = "queueing"
                        /\ Left(r0) = {e} \cup Left(r) /\ ingested' = ingested \cup {e}
        BY <2>4, <3>6, MarkRun
      <4>2. r.deferred \/ (~r0.deferred /\ Left(r0) \subseteq Left(r) \cup ingested')
        BY <4>1 DEF SameRound
      <4>3. r.next = r0.next
        BY <4>1 DEF SameRound
      <4>4. (CoveredRun(r))'
        BY <1>1, <2>1, <2>2, <2>3, <2>5, <4>1, <4>2, <4>3, RoundCovered
      <4>5. QED
        BY <4>1, <4>4
    <3>7. CASE FinishRound(p)
      <4>1. PICK r : /\ SetRun(p, r) /\ Left(r0) = {} /\ r0.pc = "asking"
                     /\ \/ r = Idle
                        \/ r.pc = "reading" /\ r.cursor = r0.next /\ ~r0.deferred
        BY <2>4, <3>7, FinishRun
      <4>2. CASE r = Idle
        BY <4>1, <4>2 DEF CoveredRun, Idle
      <4>3. CASE r.pc = "reading" /\ r.cursor = r0.next /\ ~r0.deferred
        <5>1. PICK c \in Position : c = r0.next
          BY DEF Runs
        <5>2. Behind(c) /\ Covers(c, {})
          BY <2>5, <4>1, <4>3, <5>1 DEF CoveredRun
        <5>3. (Behind(c))' /\ (Covers(c, {}))'
          BY <1>1, <2>1, <2>2, <2>3, <5>2, CoversKept
        <5>4. (CoveredRun(r))'
          BY <4>3, <5>1, <5>3 DEF CoveredRun
        <5>5. QED
          BY <4>1, <5>4
      <4>4. QED
        BY <4>1, <4>2, <4>3
    <3>8. CASE IngestCrashes(p)
      BY <3>8 DEF IngestCrashes, CoveredRun, Idle
    <3>9. QED
      BY <1>8, <3>1, <3>2, <3>3, <3>4, <3>5, <3>6, <3>7, <3>8 DEF RunActs
  <2>8. ASSUME NEW q \in Processes PROVE (CoveredRun(run[q]))'
    <3>1. CASE q = p
      <4>1. run'[q] = r
        BY <1>8, <2>7, <3>1, RunBase
      <4>2. QED
        BY <2>7, <4>1 DEF CoveredRun, Behind, Covers, Here
    <3>2. CASE q # p
      <4>1. PICK s \in Runs : s = run[q]
        BY <1>2
      <4>2. (CoveredRun(s))'
        BY <1>1, <1>3, <2>1, <2>2, <2>3, <4>1, CoveredKept
      <4>3. run'[q] = s
        BY <1>8, <3>2, <4>1, RunBase
      <4>4. QED
        BY <4>2, <4>3 DEF CoveredRun, Behind, Covers, Here
    <3>3. QED
      BY <3>1, <3>2
  <2>9. (Behind(cursor))' /\ (Covers(cursor, {}))'
    <3>1. PICK c \in Position : c = cursor' /\ Behind(c) /\ Covers(c, {})
      <4>1. CASE FinishRound(p)
        <5>1. /\ Left(r0) = {} /\ r0.pc = "asking" /\ cursor' \in Position
              /\ cursor' = IF r0.deferred THEN cursor ELSE r0.next
          BY <2>4, <4>1, FinishRun
        <5>2. CASE r0.deferred
          BY <1>2, <1>3, <5>1, <5>2
        <5>3. CASE ~r0.deferred
          <6>1. Behind(r0.next) /\ Covers(r0.next, {}) /\ cursor' = r0.next
            BY <2>5, <5>1, <5>3 DEF CoveredRun
          <6>2. r0.next \in Position
            BY DEF Runs
          <6>3. QED
            BY <6>1, <6>2
        <5>4. QED
          BY <5>2, <5>3
      <4>2. CASE ~FinishRound(p)
        <5>1. cursor' = cursor
          BY <1>8, <4>2, RunFrame
        <5>2. QED
          BY <1>2, <1>3, <5>1
      <4>3. QED
        BY <4>1, <4>2
    <3>2. (Behind(c))' /\ (Covers(c, {}))'
      BY <1>1, <2>1, <2>2, <2>3, <3>1, CoversKept
    <3>3. QED
      BY <3>1, <3>2 DEF Behind, Covers, Here
  <2>10. QED
    BY <2>8, <2>9 DEF CursorInv
<1>9. CASE PersonActs
  BY <1>4, <1>5, <1>9, PersonFrame
<1>10. CASE UNCHANGED vars
  BY <1>4, <1>5, <1>10 DEF vars, store, history
<1>11. QED
  BY <1>6, <1>7, <1>8, <1>9, <1>10, StepKinds

(* runIngest never saves a cursor past an envelope it has not ingested:    *)
(* however many runs overlap, and however the log is rotated, truncated    *)
(* and written to meanwhile.                                               *)
THEOREM NothingIsSkipped == Spec => []NothingSkipped
<1>1. Init => Base /\ CursorInv
  BY BaseInit, CursorInit
<1>2. Base /\ CursorInv /\ [Next]_vars => (Base /\ CursorInv)'
  BY BaseStep, CursorStep
<1>3. Base /\ CursorInv => NothingSkipped
  BY DEF CursorInv, Covers, Here, NothingSkipped
<1>4. QED
  BY <1>1, <1>2, <1>3, PTL DEF Spec

-----------------------------------------------------------------------------
(* The confirmation queue.                                                 *)

Entry(e, c) == [envelope |-> e, candidate |-> c]

(* The person decides on one entry, which leaves the queue unless the node *)
(* dies before deletePending.                                              *)
Decides(id, e, c) ==
  /\ id \in DOMAIN pending /\ e \in Own /\ c \in Candidates(e)
  /\ id = PendingId(e, c) /\ pending[id] = Entry(e, c)
  /\ decided' = decided \cup {<<e, c>>}
  /\ \/ excused' = excused /\ pending' = [o \in DOMAIN pending \ {id} |-> pending[o]]
     \/ excused' = excused \cup {e} /\ pending' = pending

(* Every step of the person is one of these.                               *)
LEMMA PersonStep ==
  ASSUME PendingInv, PersonActs
  PROVE  \E id, e, c : Decides(id, e, c)
<1>1. PICK id \in DOMAIN pending : Dismiss(id) \/ ConfirmPending(id) \/ ConfirmCrashes(id)
  BY DEF PersonActs
<1>2. PICK e \in Own : \E c \in Candidates(e) :
        id = PendingId(e, c) /\ pending[id] = [envelope |-> e, candidate |-> c]
  BY DEF PendingInv
<1>3. PICK c \in Candidates(e) : id = PendingId(e, c) /\ pending[id] = Entry(e, c)
  BY <1>2 DEF Entry
<1>4. pending[id].envelope = e /\ pending[id].candidate = c
  BY <1>3 DEF Entry
<1>5. decided' = decided \cup {<<e, c>>}
  BY <1>1, <1>4 DEF Dismiss, ConfirmPending, ConfirmCrashes, Decided
<1>6. \/ excused' = excused /\ pending' = [o \in DOMAIN pending \ {id} |-> pending[o]]
      \/ excused' = excused \cup {e} /\ pending' = pending
  BY <1>1, <1>4 DEF Dismiss, ConfirmPending, ConfirmCrashes, Decided
<1>7. QED
  BY <1>3, <1>5, <1>6 DEF Decides

(* A run puts one candidate in the queue, over an entry of the same id.    *)
Queues(p, r, e, c) ==
  /\ SoundRun(r) /\ SetRun(p, r) /\ SameRound(run[p], r)
  /\ run[p].pc = "queueing" /\ r.pc = "queueing" /\ Left(r) = Left(run[p])
  /\ e = Head(run[p].queue) /\ e = Head(r.queue) /\ r.answer = run[p].answer
  /\ c \in run[p].todo /\ r.todo = run[p].todo \ {c}
  /\ e \in Own /\ e \in Left(run[p]) /\ c \in Candidates(e)
  /\ pending' = [id \in DOMAIN pending \cup {PendingId(e, c)} |->
                   IF id = PendingId(e, c) THEN Entry(e, c) ELSE pending[id]]
  /\ UNCHANGED <<decided, excused, ingested, found>>

(* LocalPendingSink's step on a candidate is this.                         *)
LEMMA QueueStep ==
  ASSUME Base, NEW p \in Processes, QueuePendingExtraction(p)
  PROVE  \E r, e, c : Queues(p, r, e, c)
<1>1. UNCHANGED <<decided, excused, ingested, found>>
  BY DEF QueuePendingExtraction, history
<1>2. QED
  BY <1>1, QueueRun DEF Queues, Entry

(* The queue holds candidates of the persona's envelopes, under their ids. *)
LEMMA PendingStep == Base /\ PendingInv /\ [Next]_vars => PendingInv'
<1> SUFFICES ASSUME Base, PendingInv, [Next]_vars PROVE PendingInv'
  OBVIOUS
<1>1. ASSUME pending' = pending PROVE PendingInv'
  BY <1>1 DEF PendingInv
<1>2. CASE LogActs
  BY <1>1, <1>2, LogStep DEF store
<1>3. CASE LoseCursor
  BY <1>1, <1>3 DEF LoseCursor
<1>4. ASSUME NEW p \in Processes, RunActs(p) PROVE PendingInv'
  <2>1. CASE QueuePendingExtraction(p)
    <3>1. PICK r, e, c : Queues(p, r, e, c)
      BY <2>1, QueueStep
    <3>2. PICK new : new = PendingId(e, c)
      OBVIOUS
    <3>3. /\ e \in Own /\ c \in Candidates(e)
          /\ pending' = [id \in DOMAIN pending \cup {new} |->
                           IF id = new THEN Entry(e, c) ELSE pending[id]]
      BY <3>1, <3>2 DEF Queues
    <3>4. ASSUME NEW id \in DOMAIN pending'
          PROVE  \E d \in Own : \E b \in Candidates(d) :
                   id = PendingId(d, b) /\ pending'[id] = [envelope |-> d, candidate |-> b]
      <4>1. CASE id = new
        BY <3>2, <3>3, <4>1 DEF Entry
      <4>2. CASE id # new
        <5>1. id \in DOMAIN pending /\ pending'[id] = pending[id]
          BY <3>3, <4>2
        <5>2. QED
          BY <5>1 DEF PendingInv
      <4>3. QED
        BY <4>1, <4>2
    <3>5. QED
      BY <3>4 DEF PendingInv
  <2>2. CASE ~QueuePendingExtraction(p)
    BY <1>1, <1>4, <2>2, RunFrame
  <2>3. QED
    BY <2>1, <2>2
<1>5. CASE PersonActs
  <2>1. PICK id, e, c : Decides(id, e, c)
    BY <1>5, PersonStep
  <2>2. CASE pending' = pending
    BY <1>1, <2>2
  <2>3. CASE pending' = [o \in DOMAIN pending \ {id} |-> pending[o]]
    BY <2>3 DEF PendingInv
  <2>4. QED
    BY <2>1, <2>2, <2>3 DEF Decides
<1>6. CASE UNCHANGED vars
  BY <1>1, <1>6 DEF vars, store
<1>7. QED
  BY <1>2, <1>3, <1>4, <1>5, <1>6, StepKinds

(* No step of the person takes back what was put in the queue, or puts     *)
(* there what was not.                                                     *)
LEMMA PersonPuts ==
  ASSUME NEW id, NEW e, NEW c, Decides(id, e, c), NEW d, NEW b
  PROVE  Put(d, b) <=> (Put(d, b))'
<1>1. Entry(e, c).envelope = e /\ Entry(e, c).candidate = c
  BY DEF Entry
<1>2. [envelope |-> d, candidate |-> b] = Entry(e, c) => <<d, b>> = <<e, c>>
  BY DEF Entry
<1>3. <<d, b>> = <<e, c>> => [envelope |-> d, candidate |-> b] = Entry(e, c)
  BY DEF Entry
<1>4. \A x : x \in DOMAIN pending' =>
        x \in DOMAIN pending /\ pending'[x] = pending[x]
  BY DEF Decides
<1>5. \A x : x \in DOMAIN pending /\ x # id =>
        x \in DOMAIN pending' /\ pending'[x] = pending[x]
  BY DEF Decides
<1>6. id \in DOMAIN pending /\ pending[id] = Entry(e, c)
      /\ decided' = decided \cup {<<e, c>>}
  BY DEF Decides
<1>7. ASSUME Put(d, b) PROVE (Put(d, b))'
  BY <1>2, <1>5, <1>6, <1>7 DEF Put
<1>8. ASSUME (Put(d, b))' PROVE Put(d, b)
  <2>1. CASE <<d, b>> \in decided'
    BY <1>3, <1>6, <2>1 DEF Put
  <2>2. CASE <<d, b>> \notin decided'
    <3>1. PICK x \in DOMAIN pending' : pending'[x] = [envelope |-> d, candidate |-> b]
      BY <1>8, <2>2 DEF Put
    <3>2. QED
      BY <1>4, <3>1 DEF Put
  <2>3. QED
    BY <2>1, <2>2
<1>9. QED
  BY <1>7, <1>8

(* The candidates of an envelope have different ids: no two people owe the *)
(* same words in it.                                                       *)
OneIdEach ==
  \A e \in Own : \A a, b \in Candidates(e) : PendingId(e, a) = PendingId(e, b) => a = b

(* Where ids differ, a run takes nothing out of the queue.                 *)
LEMMA QueueingPuts ==
  ASSUME OneIdEach, PendingInv, NEW p, NEW r, NEW e, NEW c, Queues(p, r, e, c)
  PROVE  (Put(e, c))' /\ \A d, b : Put(d, b) => (Put(d, b))'
<1>1. PICK new : new = PendingId(e, c)
  OBVIOUS
<1>2. /\ e \in Own /\ c \in Candidates(e) /\ decided' = decided
      /\ pending' = [id \in DOMAIN pending \cup {new} |->
                       IF id = new THEN Entry(e, c) ELSE pending[id]]
  BY <1>1 DEF Queues
<1>3. (Put(e, c))'
  BY <1>2 DEF Put, Entry
<1>4. ASSUME NEW d, NEW b, Put(d, b) PROVE (Put(d, b))'
  <2>1. CASE <<d, b>> \in decided
    BY <1>2, <2>1 DEF Put
  <2>2. CASE <<d, b>> \notin decided
    <3>1. PICK id \in DOMAIN pending : pending[id] = [envelope |-> d, candidate |-> b]
      BY <1>4, <2>2 DEF Put
    <3>2. CASE id # new
      BY <1>2, <3>1, <3>2 DEF Put
    <3>3. CASE id = new
      <4>1. PICK d1 \in Own : \E b1 \in Candidates(d1) :
              id = PendingId(d1, b1) /\ pending[id] = [envelope |-> d1, candidate |-> b1]
        BY DEF PendingInv
      <4>2. PICK b1 \in Candidates(d1) :
              id = PendingId(d1, b1) /\ pending[id] = [envelope |-> d1, candidate |-> b1]
        BY <4>1
      <4>3. d1 = d /\ b1 = b
        BY <3>1, <4>2
      <4>4. d1 = e
        BY <1>1, <3>3, <4>2 DEF PendingId
      <4>5. b1 = c
        BY <1>1, <1>2, <3>3, <4>2, <4>4 DEF OneIdEach
      <4>6. QED
        BY <1>3, <4>3, <4>4, <4>5
    <3>4. QED
      BY <3>2, <3>3
  <2>3. QED
    BY <2>1, <2>2
<1>5. QED
  BY <1>3, <1>4

(* A run has put in the queue every candidate it is past.                  *)
PutSoFar(r) == \A e, c : At(r, e, c) /\ c \in r.answer[e] => Put(e, c)

(* What has been found, and what a run is past, has been put in the queue. *)
LEMMA QueuedStep ==
  ASSUME OneIdEach
  PROVE  Base /\ PendingInv /\ QueuedInv /\ [Next]_vars => QueuedInv'
<1> SUFFICES ASSUME Base, PendingInv, QueuedInv, [Next]_vars PROVE QueuedInv'
  OBVIOUS
<1>1. /\ \A p \in Processes : PutSoFar(run[p])
      /\ \A f \in found : \E e, c : f = <<e, c>> /\ Put(e, c)
  BY DEF QueuedInv, PutSoFar
<1>2. ASSUME UNCHANGED <<run, found>>, \A d, b : Put(d, b) => (Put(d, b))'
      PROVE  QueuedInv'
  <2>1. (\A p \in Processes : \A e, c :
           At(run[p], e, c) /\ c \in run[p].answer[e] => Put(e, c))'
    BY <1>1, <1>2 DEF PutSoFar
  <2>2. (\A f \in found : \E e, c : f = <<e, c>> /\ Put(e, c))'
    BY <1>1, <1>2
  <2>3. QED
    BY <2>1, <2>2 DEF QueuedInv
<1>3. ASSUME UNCHANGED <<pending, decided>> PROVE \A d, b : Put(d, b) => (Put(d, b))'
  BY <1>3 DEF Put
<1>4. CASE LogActs
  BY <1>2, <1>3, <1>4, LogStep DEF store, history
<1>5. CASE LoseCursor
  BY <1>2, <1>3, <1>5 DEF LoseCursor, history
<1>6. ASSUME NEW p \in Processes, RunActs(p) PROVE QueuedInv'
  <2>1. \A d, b : Put(d, b) => (Put(d, b))'
    <3>1. CASE QueuePendingExtraction(p)
      BY <3>1, QueueStep, QueueingPuts
    <3>2. CASE ~QueuePendingExtraction(p)
      BY <1>3, <1>6, <3>2, RunFrame
    <3>3. QED
      BY <3>1, <3>2
  <2>2. ASSUME NEW r, r.pc # "queueing" PROVE (PutSoFar(r))'
    BY <2>2 DEF PutSoFar, At
  <2>3. ASSUME NEW r, AllToDo(r) PROVE (PutSoFar(r))'
    BY <2>3 DEF PutSoFar, At, AllToDo
  <2>4. PICK r : SetRun(p, r) /\ (PutSoFar(r))'
    <3>1. CASE Start(p)
      BY <2>2, <3>1, StartRun
    <3>2. CASE ReadLog(p)
      <4>1. PICK r : SetRun(p, r) /\ (r = Idle \/ \E from, to : Reads(p, r, from, to))
        BY <3>2, ReadLogRun
      <4>2. r.pc # "queueing"
        <5>1. CASE r = Idle
          BY <5>1 DEF Idle
        <5>2. CASE \E from, to : Reads(p, r, from, to)
          BY <5>2 DEF Reads
        <5>3. QED
          BY <4>1, <5>1, <5>2
      <4>3. QED
        BY <2>2, <4>1, <4>2
    <3>3. CASE RejectBatch(p)
      BY <2>2, <3>3, RejectRun
    <3>4. CASE AcceptBatch(p)
      BY <2>3, <3>4, AcceptRun
    <3>5. CASE QueuePendingExtraction(p)
      <4>1. PICK r, e, c : Queues(p, r, e, c)
        BY <3>5, QueueStep
      <4>2. (Put(e, c))'
        BY <4>1, QueueingPuts
      <4>3. ASSUME NEW d, NEW b, At(r, d, b), b \in r.answer[d] PROVE (Put(d, b))'
        <5>1. d = e /\ b \in run[p].answer[d] /\ (b = c \/ b \notin run[p].todo)
              /\ run[p].pc = "queueing" /\ Head(run[p].queue) = e
          BY <4>1, <4>3 DEF Queues, At
        <5>2. CASE b = c
          BY <4>2, <5>1, <5>2
        <5>3. CASE b \notin run[p].todo
          BY <1>1, <2>1, <5>1, <5>3 DEF PutSoFar, At
        <5>4. QED
          BY <5>1, <5>2, <5>3
      <4>4. (PutSoFar(r))'
        BY <4>3 DEF PutSoFar
      <4>5. QED
        BY <4>1, <4>4 DEF Queues
    <3>6. CASE MarkIngested(p)
      BY <2>3, <3>6, MarkRun
    <3>7. CASE FinishRound(p)
      <4>1. PICK r : SetRun(p, r) /\ (r = Idle \/ r.pc = "reading")
        BY <3>7, FinishRun
      <4>2. r.pc # "queueing"
        BY <4>1 DEF Idle
      <4>3. QED
        BY <2>2, <4>1, <4>2
    <3>8. CASE IngestCrashes(p)
      <4>1. SetRun(p, Idle) /\ Idle.pc # "queueing"
        BY <3>8 DEF IngestCrashes, Idle
      <4>2. QED
        BY <2>2, <4>1
    <3>9. QED
      BY <1>6, <3>1, <3>2, <3>3, <3>4, <3>5, <3>6, <3>7, <3>8 DEF RunActs
  <2>5. ASSUME NEW q \in Processes PROVE (PutSoFar(run[q]))'
    <3>1. CASE q = p
      <4>1. run'[q] = r
        BY <1>6, <2>4, <3>1, RunBase
      <4>2. QED
        BY <2>4, <4>1 DEF PutSoFar
    <3>2. CASE q # p
      <4>1. run'[q] = run[q]
        BY <1>6, <3>2, RunBase
      <4>2. QED
        BY <1>1, <2>1, <4>1 DEF PutSoFar
    <3>3. QED
      BY <3>1, <3>2
  <2>6. ASSUME NEW f \in found' PROVE \E e, c : f = <<e, c>> /\ (Put(e, c))'
    <3>1. CASE f \in found
      BY <1>1, <2>1, <3>1
    <3>2. CASE f \notin found
      <4>1. MarkIngested(p)
        BY <1>6, <2>6, <3>2, RunFrame
      <4>2. PICK e : /\ e = Head(run[p].queue) /\ run[p].todo = {}
                     /\ run[p].pc = "queueing"
                     /\ found' = found \cup {<<e, c>> : c \in run[p].answer[e]}
        BY <4>1, MarkRun
      <4>3. PICK c \in run[p].answer[e] : f = <<e, c>>
        BY <2>6, <3>2, <4>2
      <4>4. Put(e, c)
        BY <1>1, <4>2, <4>3 DEF PutSoFar, At
      <4>5. QED
        BY <2>1, <4>3, <4>4
    <3>3. QED
      BY <3>1, <3>2
  <2>7. QED
    BY <2>5, <2>6 DEF QueuedInv, PutSoFar
<1>7. CASE PersonActs
  <2>1. PICK id, e, c : Decides(id, e, c)
    BY <1>7, PersonStep
  <2>2. \A d, b : Put(d, b) => (Put(d, b))'
    BY <2>1, PersonPuts
  <2>3. QED
    BY <1>2, <1>7, <2>2, PersonFrame
<1>8. CASE UNCHANGED vars
  BY <1>2, <1>3, <1>8 DEF vars, store, history
<1>9. QED
  BY <1>4, <1>5, <1>6, <1>7, <1>8, StepKinds

(* The queue is empty at the start and nothing has been found.             *)
LEMMA QueueInit == Init => PendingInv /\ QueuedInv
<1> SUFFICES ASSUME Init PROVE PendingInv /\ QueuedInv
  OBVIOUS
<1>1. DOMAIN pending = {} /\ found = {} /\ \A p \in Processes : run[p].pc = "idle"
  BY DEF Init, Idle
<1>2. QED
  BY <1>1 DEF PendingInv, QueuedInv, At

(* Every finding of a marked envelope waits in the queue or was decided,   *)
(* whatever crashes and overlaps, where the ids of its findings differ.    *)
THEOREM FindingsSurface ==
  ASSUME OneIdEach
  PROVE  Spec => []EveryFindingSurfaces
<1> DEFINE Inv == Base /\ PendingInv /\ QueuedInv
<1>1. Init => Inv
  BY BaseInit, QueueInit
<1>2. Inv /\ [Next]_vars => Inv'
  BY BaseStep, PendingStep, QueuedStep
<1>3. Inv => EveryFindingSurfaces
  <2> SUFFICES ASSUME Inv, NEW f \in found, f \notin decided
               PROVE  \E id \in DOMAIN pending :
                        f = <<pending[id].envelope, pending[id].candidate>>
    BY DEF EveryFindingSurfaces
  <2>1. PICK e, c : f = <<e, c>> /\ Put(e, c)
    BY DEF QueuedInv
  <2>2. PICK id \in DOMAIN pending : pending[id] = [envelope |-> e, candidate |-> c]
    BY <2>1 DEF Put
  <2>3. QED
    BY <2>1, <2>2
<1> HIDE DEF Inv
<1>4. QED
  BY <1>1, <1>2, <1>3, PTL DEF Spec

-----------------------------------------------------------------------------
(* A decided promise is not put to the person again.                       *)

(* A run that takes nothing new in flight excuses as before.               *)
LEMMA ExcusesKept ==
  ASSUME NEW p \in Processes, Excuses(run, ingested, excused), excused \subseteq excused',
         \A q \in Processes : q # p => run'[q] = run[q],
         InBatches(run'[p].batches) \subseteq InBatches(run[p].batches),
         Left(run'[p]) \cap ingested' \subseteq excused',
         \A q \in Processes : q # p => Left(run[q]) \cap ingested' \subseteq excused'
  PROVE  Excuses(run', ingested', excused')
<1>1. ASSUME NEW q \in Processes, NEW s \in Processes, q # s
      PROVE  InBatches(run'[q].batches) \cap InBatches(run'[s].batches) \subseteq excused'
  <2>1. InBatches(run[q].batches) \cap InBatches(run[s].batches) \subseteq excused
    BY <1>1 DEF Excuses
  <2>2. /\ InBatches(run'[q].batches) \subseteq InBatches(run[q].batches)
        /\ InBatches(run'[s].batches) \subseteq InBatches(run[s].batches)
    OBVIOUS
  <2>3. QED
    BY <2>1, <2>2
<1>2. ASSUME NEW q \in Processes PROVE Left(run'[q]) \cap ingested' \subseteq excused'
  OBVIOUS
<1>3. QED
  BY <1>1, <1>2 DEF Excuses

(* No step of a run loses an excuse.                                       *)
LEMMA ExcusesStep ==
  ASSUME Base, OnceInv, NEW p \in Processes, RunActs(p)
  PROVE  Excuses(run', ingested', excused') /\ excused \subseteq excused'
<1>1. Excuses(run, ingested, excused) /\ SoundRun(run[p])
  BY RunNow DEF OnceInv
<1>2. excused \subseteq excused'
  <2>1. CASE ReadLog(p)
    BY <2>1, ReadLogRun
  <2>2. CASE IngestCrashes(p)
    BY <2>2 DEF IngestCrashes
  <2>3. CASE ~ReadLog(p) /\ ~IngestCrashes(p)
    BY <2>3, RunFrame
  <2>4. QED
    BY <2>1, <2>2, <2>3
<1>3. \A q \in Processes : q # p => run'[q] = run[q]
  BY RunBase
<1>4. \A q \in Processes : Left(run[q]) \cap ingested \subseteq excused'
  BY <1>1, <1>2 DEF Excuses
<1>5. ASSUME NEW r, SetRun(p, r) PROVE run'[p] = r
  BY <1>5, RunBase
<1>6. ASSUME ingested' = ingested,
             InBatches(run'[p].batches) \subseteq InBatches(run[p].batches),
             Left(run'[p]) \subseteq Left(run[p])
      PROVE  Excuses(run', ingested', excused')
  <2>1. Left(run'[p]) \cap ingested' \subseteq excused'
    BY <1>4, <1>6
  <2>2. \A q \in Processes : q # p => Left(run[q]) \cap ingested' \subseteq excused'
    BY <1>4, <1>6
  <2>3. QED
    BY <1>1, <1>2, <1>3, <1>6, <2>1, <2>2, ExcusesKept
<1>7. ASSUME ingested' = ingested, InBatches(run'[p].batches) = {}, Left(run'[p]) = {}
      PROVE  Excuses(run', ingested', excused')
  BY <1>6, <1>7
<1>8. ~MarkIngested(p) => ingested' = ingested
  BY RunFrame
<1>9. CASE MarkIngested(p)
  <2>1. PICK r, e : /\ SetRun(p, r) /\ SameRound(run[p], r) /\ run[p].pc = "queueing"
                    /\ e = Head(run[p].queue) /\ Left(run[p]) = {e} \cup Left(r)
                    /\ e \notin Left(r) /\ ingested' = ingested \cup {e}
    BY <1>9, MarkRun
  <2>2. run'[p] = r
    BY <1>5, <2>1
  <2>3. Left(run'[p]) \cap ingested' \subseteq excused'
    BY <1>4, <2>1, <2>2
  <2>4. ASSUME NEW q \in Processes, q # p
        PROVE  Left(run[q]) \cap ingested' \subseteq excused'
    <3>1. /\ Left(run[q]) \subseteq InBatches(run[q].batches)
          /\ e \in InBatches(run[p].batches)
      BY <1>1, <2>1, LeftIsInFlight, RunNow
    <3>2. e \in Left(run[q]) => e \in excused
      BY <1>1, <2>4, <3>1 DEF Excuses
    <3>3. QED
      BY <1>2, <1>4, <2>1, <3>2
  <2>5. InBatches(run'[p].batches) \subseteq InBatches(run[p].batches)
    BY <2>1, <2>2 DEF SameRound
  <2>6. QED
    BY <1>1, <1>2, <1>3, <2>3, <2>4, <2>5, ExcusesKept
<1>10. CASE Start(p)
  <2>1. ~MarkIngested(p)
    BY <1>10 DEF Start, MarkIngested
  <2>2. QED
    BY <1>2, <1>5, <1>7, <1>8, <1>10, <2>1, StartRun
<1>11. CASE FinishRound(p)
  <2>1. ~MarkIngested(p)
    BY <1>11 DEF FinishRound, MarkIngested
  <2>2. QED
    BY <1>2, <1>5, <1>7, <1>8, <1>11, <2>1, FinishRun
<1>12. CASE IngestCrashes(p)
  <2>1. SetRun(p, Idle) /\ ingested' = ingested
    BY <1>12 DEF IngestCrashes, store
  <2>2. QED
    BY <1>2, <1>5, <1>7, <2>1, IdleIsSound
<1>13. CASE RejectBatch(p)
  <2>1. ingested' = ingested
    BY <1>13 DEF RejectBatch, store
  <2>2. PICK r : /\ SetRun(p, r) /\ r.pc = "asking" /\ run[p].pc = "asking"
                 /\ InBatches(r.batches) \subseteq InBatches(run[p].batches)
    BY <1>13, RejectRun
  <2>3. run'[p] = r /\ Left(r) = InBatches(r.batches)
        /\ Left(run[p]) = InBatches(run[p].batches)
    BY <1>5, <2>2 DEF Left
  <2>4. QED
    BY <1>2, <1>6, <2>1, <2>2, <2>3
<1>14. CASE AcceptBatch(p)
  <2>1. ingested' = ingested
    BY <1>14 DEF AcceptBatch, store
  <2>2. PICK r : SetRun(p, r) /\ SameRound(run[p], r) /\ Left(r) = Left(run[p])
    BY <1>14, AcceptRun
  <2>3. QED
    BY <1>2, <1>5, <1>6, <2>1, <2>2 DEF SameRound
<1>15. CASE QueuePendingExtraction(p)
  <2>1. PICK r, e, c : Queues(p, r, e, c)
    BY <1>15, QueueStep
  <2>2. SetRun(p, r) /\ SameRound(run[p], r) /\ Left(r) = Left(run[p])
        /\ ingested' = ingested
    BY <2>1 DEF Queues
  <2>3. QED
    BY <1>2, <1>5, <1>6, <2>2 DEF SameRound
<1>16. CASE ReadLog(p)
  <2>1. ingested' = ingested
    BY <1>16 DEF ReadLog, store
  <2>2. PICK r : /\ SoundRun(r) /\ SetRun(p, r)
                 /\ (r = Idle \/ \E from, to : Reads(p, r, from, to))
    BY <1>16, ReadLogRun
  <2>3. run'[p] = r
    BY <1>5, <2>2
  <2>4. CASE r = Idle
    BY <1>2, <1>7, <2>1, <2>3, <2>4, IdleIsSound
  <2>5. CASE \E from, to : Reads(p, r, from, to)
    <3>1. /\ InBatches(r.batches) \cap ingested = {} /\ r.pc = "asking"
          /\ excused' = excused \cup
               (InBatches(r.batches) \cap UNION {InFlight(q) : q \in Processes \ {p}})
      BY <2>5 DEF Reads
    <3>2. ASSUME NEW q \in Processes, q # p
          PROVE  InBatches(r.batches) \cap InBatches(run[q].batches) \subseteq excused'
      <4>1. InFlight(q) = InBatches(run[q].batches)
        BY DEF InFlight, InBatches
      <4>2. QED
        BY <3>1, <3>2, <4>1
    <3>3. ASSUME NEW q \in Processes, NEW s \in Processes, q # s
          PROVE  InBatches(run'[q].batches) \cap InBatches(run'[s].batches) \subseteq excused'
      <4>1. CASE q = p
        BY <1>3, <2>3, <3>2, <3>3, <4>1
      <4>2. CASE s = p
        BY <1>3, <2>3, <3>2, <3>3, <4>2
      <4>3. CASE q # p /\ s # p
        BY <1>1, <1>2, <1>3, <3>3, <4>3 DEF Excuses
      <4>4. QED
        BY <4>1, <4>2, <4>3
    <3>4. Left(r) = InBatches(r.batches)
      BY <3>1 DEF Left
    <3>5. ASSUME NEW q \in Processes PROVE Left(run'[q]) \cap ingested' \subseteq excused'
      BY <1>3, <1>4, <2>1, <2>3, <3>1, <3>4
    <3>6. QED
      BY <1>2, <3>3, <3>5 DEF Excuses
  <2>6. QED
    BY <1>2, <2>2, <2>4, <2>5
<1>17. QED
  BY <1>2, <1>9, <1>10, <1>11, <1>12, <1>13, <1>14, <1>15, <1>16 DEF RunActs

(* No step loses the account of a candidate.                               *)
LEMMA AccountedStep ==
  ASSUME Base, OnceInv, NEW p \in Processes, RunActs(p), NEW d, NEW b, (Put(d, b))'
  PROVE  (Accounted(d, b))'
<1>1. \A q \in Processes : q # p => run'[q] = run[q]
  BY RunBase
<1>2. excused \subseteq excused'
  BY ExcusesStep
<1>3. ingested \subseteq ingested'
  <2>1. CASE MarkIngested(p)
    BY <2>1, MarkRun
  <2>2. CASE ~MarkIngested(p)
    BY <2>2, RunFrame
  <2>3. QED
    BY <2>1, <2>2
<1>4. ASSUME NEW q \in Processes, q # p, At(run[q], d, b) PROVE (Accounted(d, b))'
  <2>1. At(run'[q], d, b)
    BY <1>1, <1>4
  <2>2. QED
    BY <2>1 DEF Accounted
<1>5. ASSUME d \in ingested' \cup excused' PROVE (Accounted(d, b))'
  BY <1>5 DEF Accounted
<1>6. CASE QueuePendingExtraction(p)
  <2>1. PICK r, e, c : Queues(p, r, e, c)
    BY <1>6, QueueStep
  <2>2. run'[p] = r
    BY <2>1, RunBase DEF Queues
  <2>3. CASE d = e /\ b = c
    <3>1. At(r, d, b)
      BY <2>1, <2>3 DEF At, Queues
    <3>2. QED
      BY <2>2, <3>1 DEF Accounted
  <2>4. CASE ~(d = e /\ b = c)
    <3>1. Put(d, b)
      <4>1. CASE <<d, b>> \in decided
        BY <4>1 DEF Put
      <4>2. CASE <<d, b>> \notin decided
        <5>1. decided' = decided
          BY <2>1 DEF Queues
        <5>2. PICK id \in DOMAIN pending' : pending'[id] = [envelope |-> d, candidate |-> b]
          BY <4>2, <5>1 DEF Put
        <5>3. PICK new : new = PendingId(e, c)
          OBVIOUS
        <5>4. pending' = [x \in DOMAIN pending \cup {new} |->
                            IF x = new THEN Entry(e, c) ELSE pending[x]]
          BY <2>1, <5>3 DEF Queues
        <5>5. id # new
          <6>1. [envelope |-> d, candidate |-> b] # Entry(e, c)
            BY <2>4 DEF Entry
          <6>2. QED
            BY <5>2, <5>4, <6>1
        <5>6. id \in DOMAIN pending /\ pending[id] = [envelope |-> d, candidate |-> b]
          BY <5>2, <5>4, <5>5
        <5>7. QED
          BY <5>6 DEF Put
      <4>3. QED
        BY <4>1, <4>2
    <3>2. Accounted(d, b)
      BY <3>1 DEF OnceInv
    <3>3. ASSUME At(run[p], d, b) PROVE (Accounted(d, b))'
      <4>1. At(r, d, b)
        BY <2>1, <3>3 DEF At, Queues
      <4>2. QED
        BY <2>2, <4>1 DEF Accounted
    <3>4. QED
      BY <1>2, <1>3, <1>4, <1>5, <3>2, <3>3 DEF Accounted
  <2>5. QED
    BY <2>3, <2>4
<1>7. CASE ~QueuePendingExtraction(p)
  <2>1. Put(d, b)
    BY <1>7, RunFrame DEF Put
  <2>2. Accounted(d, b)
    BY <2>1 DEF OnceInv
  <2>3. ASSUME At(run[p], d, b) PROVE d \in ingested' \cup excused'
    <3>1. run[p].pc = "queueing" /\ Head(run[p].queue) = d
      BY <2>3 DEF At
    <3>2. MarkIngested(p) \/ IngestCrashes(p)
      BY <1>7, <3>1 DEF RunActs, Start, ReadLog, RejectBatch, AcceptBatch, FinishRound
    <3>3. CASE MarkIngested(p)
      BY <3>1, <3>3, MarkRun
    <3>4. CASE IngestCrashes(p)
      BY <3>1, <3>4 DEF IngestCrashes
    <3>5. QED
      BY <3>2, <3>3, <3>4
  <2>4. QED
    BY <1>2, <1>3, <1>4, <1>5, <2>2, <2>3 DEF Accounted
<1>8. QED
  BY <1>6, <1>7

(* Excuses and accounts are kept by every step.                            *)
LEMMA OnceStep == Base /\ PendingInv /\ OnceInv /\ [Next]_vars => OnceInv'
<1> SUFFICES ASSUME Base, PendingInv, OnceInv, [Next]_vars PROVE OnceInv'
  OBVIOUS
<1>1. ASSUME UNCHANGED <<run, ingested>>, excused \subseteq excused',
             \A d, b : (Put(d, b))' => Put(d, b)
      PROVE  OnceInv'
  <2>1. Excuses(run', ingested', excused')
    BY <1>1 DEF OnceInv, Excuses
  <2>2. ASSUME NEW d, NEW b, (Put(d, b))' PROVE (Accounted(d, b))'
    <3>1. Accounted(d, b)
      BY <1>1, <2>2 DEF OnceInv
    <3>2. QED
      BY <1>1, <3>1 DEF Accounted
  <2>3. QED
    BY <2>1, <2>2 DEF OnceInv
<1>2. ASSUME UNCHANGED <<pending, decided>> PROVE \A d, b : (Put(d, b))' => Put(d, b)
  BY <1>2 DEF Put
<1>3. CASE LogActs
  BY <1>1, <1>2, <1>3, LogStep DEF store, history
<1>4. CASE LoseCursor
  BY <1>1, <1>2, <1>4 DEF LoseCursor, history
<1>5. ASSUME NEW p \in Processes, RunActs(p) PROVE OnceInv'
  <2>1. Excuses(run', ingested', excused')
    BY <1>5, ExcusesStep
  <2>2. \A d, b : (Put(d, b))' => (Accounted(d, b))'
    BY <1>5, AccountedStep
  <2>3. QED
    BY <2>1, <2>2 DEF OnceInv
<1>6. CASE PersonActs
  <2>1. PICK id, e, c : Decides(id, e, c)
    BY <1>6, PersonStep
  <2>2. excused \subseteq excused'
    BY <2>1 DEF Decides
  <2>3. \A d, b : (Put(d, b))' => Put(d, b)
    BY <2>1, PersonPuts
  <2>4. QED
    BY <1>1, <1>6, <2>2, <2>3, PersonFrame
<1>7. CASE UNCHANGED vars
  BY <1>1, <1>2, <1>7 DEF vars, store, history
<1>8. QED
  BY <1>3, <1>4, <1>5, <1>6, <1>7, StepKinds

(* No step puts a decided promise back, other than where it is excused.    *)
LEMMA NotReproposedStep ==
  Base /\ PendingInv /\ OnceInv /\ NotReproposed /\ [Next]_vars => NotReproposed'
<1> SUFFICES ASSUME Base, PendingInv, OnceInv, NotReproposed, [Next]_vars
             PROVE  NotReproposed'
  OBVIOUS
<1>1. ASSUME UNCHANGED <<pending, decided>>, excused \subseteq excused'
      PROVE  NotReproposed'
  BY <1>1 DEF NotReproposed
<1>2. CASE LogActs
  BY <1>1, <1>2, LogStep DEF store, history
<1>3. CASE LoseCursor
  BY <1>1, <1>3 DEF LoseCursor, history
<1>4. ASSUME NEW p \in Processes, RunActs(p) PROVE NotReproposed'
  <2>1. CASE ~QueuePendingExtraction(p)
    BY <1>1, <1>4, <2>1, RunFrame, ExcusesStep
  <2>2. CASE QueuePendingExtraction(p)
    <3>1. PICK r, e, c : Queues(p, r, e, c)
      BY <2>2, QueueStep
    <3>2. PICK new : new = PendingId(e, c)
      OBVIOUS
    <3>3. /\ pending' = [x \in DOMAIN pending \cup {new} |->
                           IF x = new THEN Entry(e, c) ELSE pending[x]]
          /\ decided' = decided /\ excused' = excused /\ c \in run[p].todo
          /\ e \in Left(run[p])
      BY <3>1, <3>2 DEF Queues
    <3>4. ASSUME <<e, c>> \in decided PROVE e \in excused
      <4>1. Accounted(e, c)
        BY <3>4 DEF OnceInv, Put
      <4>2. CASE e \in ingested
        BY <3>3, <4>2 DEF OnceInv, Excuses
      <4>3. ASSUME NEW q \in Processes, At(run[q], e, c) PROVE e \in excused
        <5>1. q # p
          BY <3>3, <4>3 DEF At
        <5>2. e \in InBatches(run[p].batches)
          BY <3>3, LeftIsInFlight, RunNow
        <5>3. e \in InBatches(run[q].batches)
          BY <4>3, LeftIsInFlight, RunNow DEF At
        <5>4. QED
          BY <5>1, <5>2, <5>3 DEF OnceInv, Excuses
      <4>4. QED
        BY <4>1, <4>2, <4>3 DEF Accounted
    <3>5. ASSUME NEW id \in DOMAIN pending',
                 <<pending'[id].envelope, pending'[id].candidate>> \in decided
          PROVE  pending'[id].envelope \in excused
      <4>1. CASE id = new
        <5>1. pending'[id].envelope = e /\ pending'[id].candidate = c
          BY <3>3, <4>1 DEF Entry
        <5>2. QED
          BY <3>4, <3>5, <5>1
      <4>2. CASE id # new
        <5>1. id \in DOMAIN pending /\ pending'[id] = pending[id]
          BY <3>3, <4>2
        <5>2. QED
          BY <3>5, <5>1 DEF NotReproposed
      <4>3. QED
        BY <4>1, <4>2
    <3>6. QED
      BY <3>3, <3>5 DEF NotReproposed
  <2>3. QED
    BY <2>1, <2>2
<1>5. CASE PersonActs
  <2>1. PICK id, e, c : Decides(id, e, c)
    BY <1>5, PersonStep
  <2>2. ASSUME NEW x \in DOMAIN pending',
               <<pending'[x].envelope, pending'[x].candidate>> \in decided'
        PROVE  pending'[x].envelope \in excused'
    <3>1. x \in DOMAIN pending /\ pending'[x] = pending[x] /\ excused \subseteq excused'
      BY <2>1 DEF Decides
    <3>2. CASE <<pending[x].envelope, pending[x].candidate>> \in decided
      BY <3>1, <3>2 DEF NotReproposed
    <3>3. CASE <<pending[x].envelope, pending[x].candidate>> \notin decided
      <4>1. pending[x].envelope = e /\ pending[x].candidate = c
        BY <2>1, <2>2, <3>1, <3>3 DEF Decides
      <4>2. x = PendingId(e, c)
        <5>1. PICK d \in Own : \E b \in Candidates(d) :
                x = PendingId(d, b) /\ pending[x] = [envelope |-> d, candidate |-> b]
          BY <3>1 DEF PendingInv
        <5>2. QED
          BY <4>1, <5>1
      <4>3. x = id
        BY <2>1, <4>2 DEF Decides
      <4>4. excused' = excused \cup {e}
        BY <2>1, <4>3 DEF Decides
      <4>5. QED
        BY <3>1, <4>1, <4>4
    <3>4. QED
      BY <3>2, <3>3
  <2>3. QED
    BY <2>2 DEF NotReproposed
<1>6. CASE UNCHANGED vars
  BY <1>1, <1>6 DEF vars, store, history
<1>7. QED
  BY <1>2, <1>3, <1>4, <1>5, <1>6, StepKinds

(* The envelope's marker keeps a decided promise away for good: the log    *)
(* may be read again from its start, by any number of runs, and only a     *)
(* crash between two writes, or two runs at one envelope, brings it back.  *)
THEOREM DecisionsStand == Spec => []NotReproposed
<1> DEFINE Inv == Base /\ PendingInv /\ OnceInv /\ NotReproposed
<1>1. Init => Inv
  <2> SUFFICES ASSUME Init PROVE Inv
    OBVIOUS
  <2>1. Base /\ PendingInv
    BY BaseInit, QueueInit
  <2>2. DOMAIN pending = {} /\ decided = {} /\ \A p \in Processes : run[p] = Idle
    BY DEF Init
  <2>3. NotReproposed
    BY <2>2 DEF NotReproposed
  <2>4. OnceInv
    BY <2>2, IdleIsSound DEF OnceInv, Excuses, Put
  <2>5. QED
    BY <2>1, <2>3, <2>4
<1>2. Inv /\ [Next]_vars => Inv'
  BY BaseStep, PendingStep, OnceStep, NotReproposedStep
<1>3. Inv => NotReproposed
  OBVIOUS
<1> HIDE DEF Inv
<1>4. QED
  BY <1>1, <1>2, <1>3, PTL DEF Spec
=============================================================================
