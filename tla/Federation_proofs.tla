--------------------------- MODULE Federation_proofs ---------------------------
(***************************************************************************)
(* Theorems about two nodes and the edge between them, for any parties,    *)
(* due date and windows, any bounds on the clock, the chains and the       *)
(* courier, and any losses, repetitions, reorderings and crashes.          *)
(***************************************************************************)
EXTENDS Federation, FiniteSetTheorems, NaturalsInduction, WellFoundedInduction, TLAPS

-----------------------------------------------------------------------------
(* Loops.                                                                  *)

(* A set of naturals that is not empty has a least member.                 *)
LEMMA LeastNatural ==
  ASSUME NEW T, T \subseteq Nat, T # {}
  PROVE  \E n \in T : \A m \in T : n <= m
<1>1. IsWellFoundedOn(OpToRel(<, Nat), Nat)
  BY NatLessThanWellFounded, Zenon
<1>2. PICK n \in T : \A m \in T : ~(<<m, n>> \in OpToRel(<, Nat))
  BY <1>1, WFMin, Zenon
<1>3. \A m \in T : ~(m < n)
  BY <1>2, Zenon DEF OpToRel
<1>4. QED
  BY <1>3

(* What holds before a loop and is kept by each turn holds after any turn. *)
LEMMA ByTurns ==
  ASSUME NEW N \in Nat, NEW ok, 0 \in ok,
         \A i \in 1..N : i - 1 \in ok => i \in ok
  PROVE  \A i \in 0..N : i \in ok
<1> DEFINE bad == {i \in 0..N : i \notin ok}
<1>1. SUFFICES ASSUME bad # {} PROVE FALSE
  OBVIOUS
<1>2. bad \subseteq Nat
  OBVIOUS
<1>3. PICK n \in bad : \A k \in bad : n <= k
  <2> HIDE DEF bad
  <2>1. QED
    BY <1>1, <1>2, LeastNatural
<1>4. n \in 1..N
  OBVIOUS
<1>5. n - 1 \in 0..N /\ n - 1 \notin bad
  BY <1>3, <1>4
<1>6. QED
  BY <1>4, <1>5

(* The courses of a loop over 1..N from b, each turn i of which takes a    *)
(* member x of V to G[<<i, x>>].                                           *)
Course(N, V, b, G) ==
  {f \in [0..N -> V] : f[0] = b /\ \A i \in 1..N : f[i] = G[<<i, f[i - 1]>>]}

(* A loop has a course: its recursive definition defines something.        *)
LEMMA LoopRuns ==
  ASSUME NEW N \in Nat, NEW V, NEW b \in V, NEW G \in [(1..N) \X V -> V]
  PROVE  Course(N, V, b, G) # {}
<1> DEFINE Runs(f, n) ==
             f[0] = b /\ \A i \in 1..n : f[i] = G[<<i, f[i - 1]>>]
           ok == {n \in 0..N : \E f \in [0..n -> V] : Runs(f, n)}
<1>1. 0 \in ok
  <2> DEFINE f == [i \in 0..0 |-> b]
  <2>1. f \in [0..0 -> V] /\ Runs(f, 0)
    OBVIOUS
  <2>2. \E h \in [0..0 -> V] : Runs(h, 0)
    <3> HIDE DEF f, Runs
    <3>1. QED
      BY <2>1
  <2> HIDE DEF Runs
  <2>3. QED
    BY <2>2
<1>2. ASSUME NEW n \in 1..N, n - 1 \in ok PROVE n \in ok
  <2>1. n - 1 \in 0..N
    OBVIOUS
  <2>2. PICK f \in [0..(n - 1) -> V] : Runs(f, n - 1)
    BY <1>2, <2>1
  <2> DEFINE e == [i \in 0..n |-> IF i = n THEN G[<<n, f[n - 1]>>] ELSE f[i]]
  <2>3. f[n - 1] \in V /\ G[<<n, f[n - 1]>>] \in V
    <3>1. n - 1 \in 0..(n - 1)
      OBVIOUS
    <3>2. f[n - 1] \in V
      BY <3>1
    <3>3. <<n, f[n - 1]>> \in (1..N) \X V
      BY <3>2
    <3>4. QED
      BY <3>2, <3>3
  <2>4. e \in [0..n -> V]
    <3>1. ASSUME NEW i \in 0..n, i # n PROVE f[i] \in V
      <4>1. i \in 0..(n - 1)
        BY <3>1
      <4>2. QED
        BY <4>1
    <3>2. QED
      BY <2>3, <3>1
  <2>5. Runs(e, n)
    <3>1. e[0] = b
      BY <2>2
    <3>2. ASSUME NEW i \in 1..n PROVE e[i] = G[<<i, e[i - 1]>>]
      <4>1. i - 1 \in 0..n /\ i - 1 # n
        OBVIOUS
      <4>2. e[i - 1] = f[i - 1]
        BY <4>1
      <4>3. CASE i = n
        <5>1. e[n] = G[<<n, f[n - 1]>>]
          OBVIOUS
        <5> HIDE DEF e
        <5>2. QED
          BY <4>2, <4>3, <5>1
      <4>4. CASE i # n
        <5>1. i \in 1..(n - 1)
          BY <4>4
        <5>2. QED
          BY <2>2, <4>2, <4>4, <5>1
      <4>5. QED
        BY <4>3, <4>4
    <3>3. QED
      BY <3>1, <3>2
  <2>6. \E h \in [0..n -> V] : Runs(h, n)
    <3> HIDE DEF e, Runs
    <3>1. QED
      BY <2>4, <2>5
  <2> HIDE DEF Runs
  <2>7. QED
    BY <2>6
<1>3. \A n \in 0..N : n \in ok
  <2> HIDE DEF ok
  <2>1. QED
    BY <1>1, <1>2, ByTurns
<1>4. N \in ok
  BY <1>3
<1>5. QED
  BY <1>4 DEF Course

-----------------------------------------------------------------------------
(* What a chain may become.                                                *)

(* The table takes nothing before a proposal.                              *)
LEMMA FirstIsProposed ==
  ASSUME NEW a, TakenAfter(<<>>, a)
  PROVE  a.state = "proposed"
<1> DEFINE Rec(f) == [i \in 0..Len(<<>>) |->
             IF i = 0 THEN InitChainState
             ELSE Step(theEdge, lineage, now, f[i - 1], <<>>[i])]
           after == CHOOSE f : f = Rec(f)
<1>1. Len(<<>>) = 0
  OBVIOUS
<1>2. \E f : f = Rec(f)
  <2>1. PICK f : f = [i \in 0..0 |-> InitChainState]
    OBVIOUS
  <2>2. f = Rec(f)
    BY <1>1, <2>1
  <2>3. QED
    BY <2>2
<1>3. after = Rec(after)
  BY <1>2
<1>4. after[0] = InitChainState
  <2> HIDE DEF after
  <2>1. QED
    BY <1>1, <1>3
<1>5. VerifyAssertionChain(theEdge, lineage, now, <<>>) = after[0]
  BY <1>1 DEF VerifyAssertionChain
<1>6. Accepts(theEdge, lineage, now, InitChainState, a)
  BY <1>4, <1>5 DEF TakenAfter
<1>7. InitChainState.state = "none" /\ InitChainState.exit = {}
  BY DEF InitChainState
<1>8. LegalByTable(theEdge, lineage, now, InitChainState, a)
  BY <1>6, <1>7 DEF Accepts, Contests
<1>9. QED
  BY <1>7, <1>8 DEF LegalByTable, LegalClosed, LegalExpired

(* r is c with assertions of S after it, a proposal first.                 *)
Continues(c, r, S) ==
  /\ r \in Seq(Assertion) /\ Len(c) <= Len(r)
  /\ \A i \in 1..Len(c) : r[i] = c[i]
  /\ \A i \in DOMAIN r : r[i] \in Range(c) \cup S
  /\ c = <<>> /\ r # <<>> => r[1].state = "proposed"

(* Nothing more is a continuation.                                         *)
LEMMA ContinuesItself ==
  ASSUME NEW c \in Seq(Assertion), NEW S
  PROVE  Continues(c, c, S)
BY DEF Continues, Range

(* An assertion the table takes continues a chain.                         *)
LEMMA ContinuesWith ==
  ASSUME NEW c \in Seq(Assertion), NEW S, NEW r, Continues(c, r, S),
         NEW a \in Assertion, a \in S, TakenAfter(r, a)
  PROVE  Continues(c, Append(r, a), S)
<1>1. r \in Seq(Assertion) /\ Len(c) \in Nat /\ Len(r) \in Nat /\ Len(c) <= Len(r)
  BY DEF Continues
<1>2. PICK e : e = Append(r, a)
  OBVIOUS
<1>3. PICK n \in Nat : n = Len(r)
  BY <1>1
<1>4. /\ e \in Seq(Assertion) /\ Len(e) = n + 1 /\ DOMAIN e = 1..(n + 1)
      /\ e[n + 1] = a /\ \A i \in 1..n : e[i] = r[i]
  BY <1>1, <1>2, <1>3
<1>5. Len(c) <= Len(e)
  BY <1>1, <1>3, <1>4
<1>6. \A i \in 1..Len(c) : e[i] = c[i]
  <2>1. \A i \in 1..Len(c) : i \in 1..n
    BY <1>1, <1>3
  <2>2. QED
    BY <1>4, <2>1 DEF Continues
<1>7. \A i \in DOMAIN e : e[i] \in Range(c) \cup S
  <2>1. \A i \in 1..(n + 1) : i = n + 1 \/ (i \in 1..n /\ i \in DOMAIN r)
    BY <1>1, <1>3
  <2>2. QED
    BY <1>4, <2>1 DEF Continues
<1>8. ASSUME c = <<>> PROVE e[1].state = "proposed"
  <2>1. CASE r = <<>>
    <3>1. a.state = "proposed"
      BY <2>1, FirstIsProposed
    <3>2. n = 0
      BY <1>3, <2>1
    <3>3. QED
      BY <1>4, <3>1, <3>2
  <2>2. CASE r # <<>>
    <3>1. 1 \in 1..n
      BY <1>1, <1>3, <2>2
    <3>2. QED
      BY <1>4, <1>8, <2>2, <3>1 DEF Continues
  <2>3. QED
    BY <2>1, <2>2
<1>9. QED
  BY <1>2, <1>4, <1>5, <1>6, <1>7, <1>8 DEF Continues

-----------------------------------------------------------------------------
(* The two loops of applyReconResponse.                                    *)

(* The loop over what is dated t: what each turn leaves.                   *)
DayOf(t, c, held, s, taken) ==
  /\ taken[0] = held
  /\ \A i \in 1..Len(s) :
       taken[i] = IF s[i].asserted_at = t /\ s[i] \notin Range(c)
                       /\ TakenAfter(taken[i - 1], s[i])
                  THEN Append(taken[i - 1], s[i]) ELSE taken[i - 1]

(* It runs.                                                                *)
LEMMA DayRuns ==
  ASSUME NEW t, NEW c, NEW s \in Seq(Assertion), NEW held \in Seq(Assertion)
  PROVE  \E taken : /\ DayOf(t, c, held, s, taken)
                    /\ InWireOrder(t, c, held, s) = taken[Len(s)]
<1> DEFINE N == Len(s)
           V == Seq(Assertion)
           Takes(h, a) == a.asserted_at = t /\ a \notin Range(c) /\ TakenAfter(h, a)
           Rec(f) == [i \in 0..N |->
             IF i = 0 THEN held
             ELSE IF Takes(f[i - 1], s[i]) THEN Append(f[i - 1], s[i]) ELSE f[i - 1]]
           taken == CHOOSE f : f = Rec(f)
<1>1. N \in Nat /\ held \in V /\ DOMAIN s = 1..N
  OBVIOUS
<1>2. \A i \in 1..N, h \in V : Append(h, s[i]) \in V
  OBVIOUS
<1>3. \E f : f = Rec(f)
  <2> DEFINE G == [p \in (1..N) \X V |->
                IF Takes(p[2], s[p[1]]) THEN Append(p[2], s[p[1]]) ELSE p[2]]
  <2> HIDE DEF Takes
  <2>1. G \in [(1..N) \X V -> V]
    <3> HIDE DEF V, N
    <3>1. QED
      BY <1>2
  <2>2. PICK f \in Course(N, V, held, G) : TRUE
    <3> HIDE DEF V, N, G
    <3>1. Course(N, V, held, G) # {}
      BY <1>1, <2>1, LoopRuns
    <3>2. QED
      BY <3>1
  <2>3. /\ f \in [0..N -> V] /\ f[0] = held
        /\ \A i \in 1..N : f[i] = G[<<i, f[i - 1]>>]
    <3> HIDE DEF V, N, G
    <3>1. QED
      BY <2>2 DEF Course
  <2>4. ASSUME NEW i \in 0..N PROVE f[i] = Rec(f)[i]
    <3>1. CASE i = 0
      BY <2>3, <3>1
    <3>2. CASE i # 0
      <4>1. i \in 1..N /\ i - 1 \in 0..N
        BY <1>1, <3>2
      <4>2. <<i, f[i - 1]>> \in (1..N) \X V
        BY <2>3, <4>1
      <4>3. G[<<i, f[i - 1]>>] =
              IF Takes(f[i - 1], s[i]) THEN Append(f[i - 1], s[i]) ELSE f[i - 1]
        <5> HIDE DEF V, N
        <5>1. QED
          BY <4>2
      <4>4. QED
        BY <2>3, <3>2, <4>1, <4>3
    <3>3. QED
      BY <3>1, <3>2
  <2>5. f = Rec(f)
    <3> HIDE DEF V, N
    <3>1. f = [i \in 0..N |-> f[i]]
      BY <2>3
    <3>2. QED
      BY <2>4, <3>1
  <2>6. QED
    BY <2>5
<1>4. taken = Rec(taken)
  BY <1>3
<1>5. InWireOrder(t, c, held, s) = taken[N]
  BY DEF InWireOrder
<1> HIDE DEF taken
<1>6. taken[0] = held /\ \A i \in 1..N :
        taken[i] = IF Takes(taken[i - 1], s[i])
                   THEN Append(taken[i - 1], s[i]) ELSE taken[i - 1]
  <2>1. \A i \in 0..N : taken[i] = Rec(taken)[i]
    BY <1>4
  <2>2. 0 \in 0..N /\ \A i \in 1..N : i \in 0..N /\ i # 0
    BY <1>1
  <2> HIDE DEF N, Takes
  <2>3. QED
    BY <2>1, <2>2
<1>7. DayOf(t, c, held, s, taken)
  BY <1>6 DEF DayOf
<1>8. QED
  BY <1>5, <1>7

(* P is kept by taking any assertion of S.                                 *)
Closed(P, S) ==
  /\ P \subseteq Seq(Assertion)
  /\ \A h \in P : \A a \in S : TakenAfter(h, a) => Append(h, a) \in P

LEMMA ClosedUnderFewer ==
  ASSUME NEW P, NEW S, Closed(P, S), NEW T, T \subseteq S
  PROVE  Closed(P, T)
BY DEF Closed

(* What such a P holds of before the day it holds of after it: only what   *)
(* is not in c is taken.                                                   *)
LEMMA DayKeeps ==
  ASSUME NEW t, NEW c, NEW s \in Seq(Assertion), NEW P, Closed(P, Range(s) \ Range(c)),
         NEW held \in P
  PROVE  InWireOrder(t, c, held, s) \in P
<1>1. held \in Seq(Assertion)
  BY DEF Closed
<1>2. PICK taken : /\ DayOf(t, c, held, s, taken)
                   /\ InWireOrder(t, c, held, s) = taken[Len(s)]
  BY <1>1, DayRuns
<1>3. PICK N \in Nat : N = Len(s) /\ DOMAIN s = 1..N
  OBVIOUS
<1> DEFINE ok == {i \in 0..N : taken[i] \in P}
<1>4. 0 \in ok
  BY <1>2 DEF DayOf
<1>5. ASSUME NEW i \in 1..N, i - 1 \in ok PROVE i \in ok
  <2>1. PICK h \in P : h = taken[i - 1]
    BY <1>5
  <2>2. s[i] \in Range(s) /\ i \in 0..N
    BY <1>3 DEF Range
  <2>3. taken[i] = h \/ (/\ TakenAfter(h, s[i]) /\ taken[i] = Append(h, s[i])
                         /\ s[i] \notin Range(c))
    BY <1>2, <1>3, <2>1 DEF DayOf
  <2>4. QED
    BY <2>1, <2>2, <2>3 DEF Closed
<1>6. \A i \in 0..N : i \in ok
  <2> HIDE DEF ok
  <2>1. QED
    BY <1>4, <1>5, ByTurns
<1>7. QED
  BY <1>2, <1>3, <1>6

(* A day on which something new is acceptable from the start does not      *)
(* leave the chain as it was: what is taken before it is more too.         *)
LEMMA DayTakes ==
  ASSUME NEW t, NEW c \in Seq(Assertion), NEW s \in Seq(Assertion), NEW P,
         Closed(P, Range(s)), \A a \in Range(s) : TakenAfter(c, a) => Append(c, a) \in P,
         NEW b \in Range(s), b.asserted_at = t, b \notin Range(c), TakenAfter(c, b)
  PROVE  InWireOrder(t, c, c, s) \in P
<1>1. PICK taken : DayOf(t, c, c, s, taken) /\ InWireOrder(t, c, c, s) = taken[Len(s)]
  BY DayRuns
<1>2. PICK N \in Nat : N = Len(s) /\ DOMAIN s = 1..N
  OBVIOUS
<1>3. PICK j \in 1..N : s[j] = b
  BY <1>2 DEF Range
<1> DEFINE ok == {i \in 0..N : /\ taken[i] \in P \/ taken[i] = c
                               /\ i >= j => taken[i] \in P}
<1>4. 0 \in ok
  BY <1>1 DEF DayOf
<1>5. ASSUME NEW i \in 1..N, i - 1 \in ok PROVE i \in ok
  <2>1. PICK h : h = taken[i - 1]
    OBVIOUS
  <2>2. (h \in P \/ h = c) /\ (i - 1 >= j => h \in P)
    BY <1>5, <2>1
  <2>3. s[i] \in Range(s) /\ i \in 0..N
    BY <1>2 DEF Range
  <2>4. taken[i] = IF s[i].asserted_at = t /\ s[i] \notin Range(c) /\ TakenAfter(h, s[i])
                   THEN Append(h, s[i]) ELSE h
    BY <1>1, <1>2, <2>1 DEF DayOf
  <2>5. TakenAfter(h, s[i]) => Append(h, s[i]) \in P
    BY <2>2, <2>3 DEF Closed
  <2>6. i >= j => i - 1 >= j \/ i = j
    OBVIOUS
  <2>7. i = j /\ h = c => taken[i] \in P
    BY <1>3, <2>4, <2>5
  <2>8. taken[i] \in P \/ taken[i] = h
    BY <2>4, <2>5
  <2>9. QED
    BY <2>2, <2>3, <2>6, <2>7, <2>8
<1>6. \A i \in 0..N : i \in ok
  <2> HIDE DEF ok
  <2>1. QED
    BY <1>4, <1>5, ByTurns
<1>7. QED
  BY <1>1, <1>2, <1>6

(* The loop over the days: what each leaves.                               *)
DaysOf(c, s, after) ==
  /\ after[0] = c
  /\ \A i \in 1..(MaxNow + 1) : after[i] = InWireOrder(i - 1, c, after[i - 1], s)

LEMMA DaysRun ==
  ASSUME NEW c \in Seq(Assertion), NEW s \in Seq(Assertion)
  PROVE  \E after : DaysOf(c, s, after) /\ ApplyReconResponse(c, s) = after[MaxNow + 1]
<1> DEFINE N == MaxNow + 1
           V == Seq(Assertion)
           Rec(f) == [d \in 0..N |->
             IF d = 0 THEN c ELSE InWireOrder(d - 1, c, f[d - 1], s)]
           after == CHOOSE f : f = Rec(f)
<1>1. N \in Nat
  BY FederationAssumption
<1>2. c \in V
  OBVIOUS
<1>3. \A d, h : h \in V => InWireOrder(d, c, h, s) \in V
  <2>1. Closed(V, Range(s))
    <3>1. Range(s) \subseteq Assertion
      BY DEF Range
    <3>2. QED
      BY <3>1 DEF Closed
  <2>2. Closed(V, Range(s) \ Range(c))
    <3> HIDE DEF V
    <3>1. QED
      BY <2>1, ClosedUnderFewer
  <2>3. QED
    BY <2>2, DayKeeps
<1> HIDE DEF V, N
<1>4. PICK f : f \in [0..N -> V] /\ f = Rec(f)
  <2> DEFINE G == [p \in (1..N) \X V |-> InWireOrder(p[1] - 1, c, p[2], s)]
  <2>1. G \in [(1..N) \X V -> V]
    BY <1>3
  <2>2. PICK f \in Course(N, V, c, G) : TRUE
    <3> HIDE DEF G
    <3>1. Course(N, V, c, G) # {}
      BY <1>1, <1>2, <2>1, LoopRuns
    <3>2. QED
      BY <3>1
  <2>3. /\ f \in [0..N -> V] /\ f[0] = c
        /\ \A i \in 1..N : f[i] = G[<<i, f[i - 1]>>]
    <3> HIDE DEF G
    <3>1. QED
      BY <2>2 DEF Course
  <2>4. ASSUME NEW i \in 0..N PROVE f[i] = Rec(f)[i]
    <3>1. CASE i = 0
      BY <2>3, <3>1
    <3>2. CASE i # 0
      <4>1. i \in 1..N /\ i - 1 \in 0..N
        BY <1>1, <3>2
      <4>2. <<i, f[i - 1]>> \in (1..N) \X V
        BY <2>3, <4>1
      <4>3. G[<<i, f[i - 1]>>] = InWireOrder(i - 1, c, f[i - 1], s)
        BY <4>2
      <4>4. QED
        BY <2>3, <3>2, <4>1, <4>3
    <3>3. QED
      BY <3>1, <3>2
  <2>5. f = [i \in 0..N |-> f[i]]
    BY <2>3
  <2>6. f = Rec(f)
    BY <2>4, <2>5
  <2>7. QED
    BY <2>3, <2>6
<1>5. after = Rec(after)
  BY <1>4
<1>6. ApplyReconResponse(c, s) = after[N]
  BY DEF ApplyReconResponse, N
<1> HIDE DEF after
<1>7. after[0] = c /\ \A i \in 1..N : after[i] = InWireOrder(i - 1, c, after[i - 1], s)
  <2>1. \A i \in 0..N : after[i] = Rec(after)[i]
    BY <1>5
  <2>2. 0 \in 0..N /\ \A i \in 1..N : i \in 0..N /\ i # 0
    BY <1>1
  <2>3. QED
    BY <2>1, <2>2
<1>8. QED
  BY <1>6, <1>7 DEF DaysOf, N

(* What taking a new assertion keeps, applyReconResponse keeps.            *)
LEMMA ReconKeeps ==
  ASSUME NEW s \in Seq(Assertion), NEW c, NEW P, Closed(P, Range(s) \ Range(c)), c \in P
  PROVE  ApplyReconResponse(c, s) \in P
<1>1. c \in Seq(Assertion)
  BY DEF Closed
<1>2. PICK after : DaysOf(c, s, after) /\ ApplyReconResponse(c, s) = after[MaxNow + 1]
  BY <1>1, DaysRun
<1>3. PICK N \in Nat : N = MaxNow + 1
  BY FederationAssumption
<1> DEFINE ok == {i \in 0..N : after[i] \in P}
<1>4. 0 \in ok
  BY <1>2 DEF DaysOf
<1>5. ASSUME NEW i \in 1..N, i - 1 \in ok PROVE i \in ok
  <2>1. after[i] = InWireOrder(i - 1, c, after[i - 1], s)
    BY <1>2, <1>3 DEF DaysOf
  <2>2. after[i - 1] \in P /\ i \in 0..N
    BY <1>5
  <2>3. QED
    BY <2>1, <2>2, DayKeeps
<1>6. \A i \in 0..N : i \in ok
  <2> HIDE DEF ok
  <2>1. QED
    BY <1>4, <1>5, ByTurns
<1>7. QED
  BY <1>2, <1>3, <1>6

(* If the table would take something new of a response, the response does  *)
(* not leave the chain as it was.                                          *)
LEMMA ReconTakes ==
  ASSUME NEW c \in Seq(Assertion), NEW s \in Seq(Assertion), NEW b \in Range(s),
         b \notin Range(c), b.asserted_at \in 0..MaxNow, TakenAfter(c, b)
  PROVE  ApplyReconResponse(c, s) # c
<1>1. PICK after : DaysOf(c, s, after) /\ ApplyReconResponse(c, s) = after[MaxNow + 1]
  BY DaysRun
<1>2. PICK N \in Nat : N = MaxNow + 1
  BY FederationAssumption
<1>3. PICK j \in 1..N : b.asserted_at = j - 1
  <2>1. b.asserted_at + 1 \in 1..N /\ b.asserted_at = (b.asserted_at + 1) - 1
    BY <1>2, FederationAssumption
  <2>2. QED
    BY <2>1
<1> DEFINE P == {h \in Seq(Assertion) : Len(h) > Len(c)}
<1>4. Range(s) \subseteq Assertion
  BY DEF Range
<1>5. \A h \in Seq(Assertion) : \A a \in Range(s) :
        Append(h, a) \in Seq(Assertion) /\ Len(Append(h, a)) = Len(h) + 1 /\ Len(h) \in Nat
  BY <1>4
<1>6. Closed(P, Range(s)) /\ \A a \in Range(s) : TakenAfter(c, a) => Append(c, a) \in P
  BY <1>5 DEF Closed
<1>7. c \notin P
  OBVIOUS
<1> HIDE DEF P
<1> DEFINE ok == {i \in 0..N : /\ after[i] \in P \/ after[i] = c
                               /\ i >= j => after[i] \in P}
<1>8. 0 \in ok
  BY <1>1 DEF DaysOf
<1>9. ASSUME NEW i \in 1..N, i - 1 \in ok PROVE i \in ok
  <2>1. PICK h : h = after[i - 1]
    OBVIOUS
  <2>2. (h \in P \/ h = c) /\ (i - 1 >= j => h \in P) /\ i \in 0..N
    BY <1>9, <2>1
  <2>3. after[i] = InWireOrder(i - 1, c, h, s)
    BY <1>1, <1>2, <2>1 DEF DaysOf
  <2>4. h \in P => after[i] \in P
    <3>1. Closed(P, Range(s) \ Range(c))
      BY <1>6, ClosedUnderFewer
    <3>2. QED
      BY <2>3, <3>1, DayKeeps
  <2>5. i = j /\ h = c => after[i] \in P
    BY <1>3, <1>6, <2>3, DayTakes
  <2>6. h = c => after[i] \in P \/ after[i] = c
    <3>1. PICK Q : Q = P \cup {c}
      OBVIOUS
    <3>2. Closed(Q, Range(s) \ Range(c)) /\ c \in Q
      BY <1>6, <3>1 DEF Closed
    <3>3. InWireOrder(i - 1, c, c, s) \in Q
      BY <3>2, DayKeeps
    <3>4. QED
      BY <2>3, <3>1, <3>3
  <2>7. i >= j => i - 1 >= j \/ i = j
    OBVIOUS
  <2>8. QED
    BY <2>2, <2>4, <2>5, <2>6, <2>7
<1>10. \A i \in 0..N : i \in ok
  <2> HIDE DEF ok
  <2>1. QED
    BY <1>8, <1>9, ByTurns
<1>11. after[N] \in P
  BY <1>10
<1>12. QED
  BY <1>1, <1>2, <1>7, <1>11

(* What applyReconResponse leaves continues the chain it was given, with   *)
(* assertions of the response.                                             *)
LEMMA ReconContinues ==
  ASSUME NEW c \in Seq(Assertion), NEW s \in Seq(Assertion)
  PROVE  Continues(c, ApplyReconResponse(c, s), Range(s))
<1> DEFINE P == {h \in Seq(Assertion) : Continues(c, h, Range(s))}
<1>1. c \in P
  BY ContinuesItself
<1>2. Closed(P, Range(s))
  <2>1. ASSUME NEW h \in P, NEW a \in Range(s), TakenAfter(h, a)
        PROVE  Append(h, a) \in P
    <3>1. a \in Assertion
      BY DEF Range
    <3>2. Continues(c, Append(h, a), Range(s))
      BY <2>1, <3>1, ContinuesWith
    <3>3. QED
      BY <3>1, <3>2
  <2>2. QED
    BY <2>1 DEF Closed
<1>3. ApplyReconResponse(c, s) \in P
  <2> HIDE DEF P
  <2>1. Closed(P, Range(s) \ Range(c))
    BY <1>2, ClosedUnderFewer
  <2>2. QED
    BY <1>1, <2>1, ReconKeeps
<1>4. QED
  BY <1>3

-----------------------------------------------------------------------------
(* The invariant.                                                          *)

(* There is one proposal, and it opens the owner's chain.                  *)
TheProposal(a) ==
  a.state = "proposed" => chain[owner] # <<>> /\ a = chain[owner][1]

(* The courier carries that proposal, and an assertion only from a         *)
(* creditor who has it.                                                    *)
Carries(m) ==
  /\ m.type = "propose" => chain[owner] # <<>> /\ m.assertion = chain[owner][1]
  /\ m.type = "assert" => /\ TheProposal(m.assertion)
                          /\ m.to = owner => chain[creditor] # <<>>
  /\ m.type = "recon_response" => \A a \in Range(m.assertions) : TheProposal(a)

Stages ==
  /\ committing \in {"idle", "edge"} => chain[owner] = <<>>
  /\ committing = "idle" => owner \notin holds
  /\ committing = "proposed" => chain[owner] # <<>>
  /\ outbox # "none" => chain[owner] # <<>>
  /\ outbox = "acknowledged" => chain[creditor] # <<>>

Chains ==
  /\ \A n \in Node : \A a \in Range(chain[n]) : TheProposal(a)
  /\ chain[creditor] # <<>> =>
       /\ creditor \in holds
       /\ chain[owner] # <<>> /\ chain[owner][1] \in Range(chain[creditor])

Wire == \A m \in net : Carries(m)

FederationInv == TypeOK /\ Stages /\ Chains /\ Wire

(* The parties are each other's other.                                     *)
LEMMA TheOther ==
  /\ Other(owner) = creditor /\ Other(creditor) = owner
  /\ owner \in Node /\ creditor \in Node
  /\ owner \in Key /\ creditor \in Key
  /\ \A n \in Node : Other(n) \in Node
<1>1. owner # creditor /\ Node = {owner, creditor} /\ owner \in Key /\ creditor \in Key
  BY FederationAssumption DEF Node
<1>2. \A m \in Node : m # owner <=> m = creditor
  BY <1>1
<1>3. \A m \in Node : m # creditor <=> m = owner
  BY <1>1
<1>4. Other(owner) = creditor
  BY <1>1, <1>2 DEF Other
<1>5. Other(creditor) = owner
  BY <1>1, <1>3 DEF Other
<1>6. QED
  BY <1>1, <1>4, <1>5

(* What a node signs now is an assertion.                                  *)
LEMMA SignedType ==
  ASSUME TypeOK, NEW n \in Node, NEW s \in WireAssertionState, NEW v \in BOOLEAN
  PROVE  /\ Signed(n, s, v) \in Assertion /\ Signed(n, s, v).state = s
<1>1. now \in Nat /\ n \in Key
  BY FederationAssumption DEF TypeOK
<1>2. edgeId \in STRING
  BY FederationAssumption
<1>3. QED
  BY <1>1, <1>2 DEF Signed, Assertion, Time

(* Chains only grow, at their ends.                                        *)
Grown ==
  /\ chain[owner] # <<>> => chain'[owner] # <<>> /\ chain'[owner][1] = chain[owner][1]
  /\ chain[creditor] # <<>> => chain'[creditor] # <<>>

(* So there stays one proposal.                                            *)
LEMMA ProposalStays ==
  ASSUME Grown, NEW a, TheProposal(a)
  PROVE  (TheProposal(a))'
BY DEF Grown, TheProposal

(* The wire, likewise.                                                     *)
LEMMA WireStays ==
  ASSUME Grown, Wire, NEW m \in net
  PROVE  (Carries(m))'
<1>1. Carries(m)
  BY DEF Wire
<1>2. m.type = "propose" => chain'[owner] # <<>> /\ m.assertion = chain'[owner][1]
  BY <1>1 DEF Carries, Grown
<1>3. ASSUME m.type = "assert"
      PROVE  (TheProposal(m.assertion))' /\ (m.to = owner => chain'[creditor] # <<>>)
  BY <1>1, <1>3, ProposalStays DEF Carries, Grown
<1>4. ASSUME m.type = "recon_response", NEW a \in Range(m.assertions)
      PROVE  (TheProposal(a))'
  BY <1>1, <1>4, ProposalStays DEF Carries
<1>5. QED
  BY <1>2, <1>3, <1>4 DEF Carries

(* What is in a chain is an assertion.                                     *)
LEMMA RangeType ==
  ASSUME NEW c \in Seq(Assertion)
  PROVE  /\ Range(c) \subseteq Assertion
         /\ c # <<>> => c[1] \in Assertion /\ c[1] \in Range(c)
<1>1. \A i \in DOMAIN c : c[i] \in Assertion
  OBVIOUS
<1>2. c # <<>> => 1 \in DOMAIN c
  OBVIOUS
<1>3. QED
  BY <1>1, <1>2 DEF Range

(* And what is appended to it is, too.                                     *)
LEMMA RangeWith ==
  ASSUME NEW c \in Seq(Assertion), NEW a \in Assertion
  PROVE  /\ Append(c, a) \in Seq(Assertion) /\ Append(c, a) # <<>>
         /\ Range(Append(c, a)) = Range(c) \cup {a}
<1>1. PICK n \in Nat : n = Len(c)
  OBVIOUS
<1>2. PICK r : r = Append(c, a)
  OBVIOUS
<1>3. /\ r \in Seq(Assertion) /\ DOMAIN r = 1..(n + 1) /\ DOMAIN c = 1..n
      /\ r[n + 1] = a /\ \A i \in 1..n : r[i] = c[i]
  BY <1>1, <1>2
<1>4. \A i \in 1..(n + 1) : i = n + 1 \/ i \in 1..n
  OBVIOUS
<1>5. n + 1 \in 1..(n + 1) /\ \A i \in 1..n : i \in 1..(n + 1)
  OBVIOUS
<1>6. r # <<>>
  BY <1>3, <1>5
<1>7. QED
  BY <1>2, <1>3, <1>4, <1>5, <1>6 DEF Range

(* A node's chain continued with assertions of S, which are genuine.       *)
LEMMA ChainStep ==
  ASSUME FederationInv, NEW n \in Node, NEW r, NEW S, Continues(chain[n], r, S),
         \A a \in S : TheProposal(a), r = chain[n] \/ (n \in holds /\ Free(n)),
         chain' = [chain EXCEPT ![n] = r],
         outbox' = outbox \/ (outbox' = "acknowledged" /\ outbox # "none"
                              /\ chain[creditor] # <<>>),
         UNCHANGED <<holds, committing, memory, net, now>>
  PROVE  FederationInv'
<1>1. TypeOK /\ Stages /\ Chains /\ Wire
  BY DEF FederationInv
<1>2. /\ chain \in [Node -> Seq(Assertion)] /\ r \in Seq(Assertion)
      /\ owner \in Node /\ creditor \in Node /\ owner # creditor
  BY <1>1, TheOther, FederationAssumption DEF TypeOK, Continues
<1>3. /\ chain'[n] = r /\ \A m \in Node : m # n => chain'[m] = chain[m]
      /\ chain' \in [Node -> Seq(Assertion)]
  BY <1>2
<1>4. \A a \in Range(chain[n]) : TheProposal(a)
  BY <1>1 DEF Chains
<1>5. \A a \in Range(r) : TheProposal(a)
  BY <1>4 DEF Continues, Range
<1>6. chain[n] # <<>> => r # <<>> /\ r[1] = chain[n][1] /\ Range(chain[n]) \subseteq Range(r)
  <2>1. PICK c \in Seq(Assertion) : c = chain[n]
    BY <1>2
  <2>2. SUFFICES ASSUME c # <<>>
                 PROVE  r # <<>> /\ r[1] = c[1] /\ Range(c) \subseteq Range(r)
    BY <2>1
  <2>3. Len(c) \in Nat /\ Len(r) \in Nat /\ 1 \in 1..Len(c) /\ DOMAIN c = 1..Len(c)
        /\ DOMAIN r = 1..Len(r)
    BY <1>2, <2>2
  <2>4. Len(c) <= Len(r) /\ \A i \in 1..Len(c) : r[i] = c[i]
    BY <2>1 DEF Continues
  <2>5. \A i \in 1..Len(c) : i \in 1..Len(r)
    BY <2>3, <2>4
  <2>6. QED
    BY <2>3, <2>4, <2>5 DEF Range
<1>7. ASSUME chain[n] = <<>>, r # <<>> PROVE chain[owner] # <<>> /\ chain[owner][1] \in Range(r)
  <2>1. r[1].state = "proposed" /\ r[1] \in Range(r)
    BY <1>2, <1>7, RangeType DEF Continues
  <2>2. QED
    BY <1>5, <2>1 DEF TheProposal
<1>8. Grown
  BY <1>2, <1>3, <1>6 DEF Grown
<1>9. TypeOK'
  BY <1>1, <1>3 DEF TypeOK, memory, DeliveryState
<1>10. chain[owner] = <<>> => chain'[owner] = <<>>
  BY <1>2, <1>3, <1>7
<1>11. Stages'
  <2>1. outbox' # "none" => outbox # "none"
    OBVIOUS
  <2>2. outbox' = "acknowledged" => chain'[creditor] # <<>>
    BY <1>1, <1>8 DEF Stages, Grown
  <2>3. chain[owner] # <<>> => chain'[owner] # <<>>
    BY <1>8 DEF Grown
  <2>4. QED
    BY <1>1, <1>10, <2>1, <2>2, <2>3 DEF Stages
<1>12. ASSUME NEW m \in Node, NEW a \in Range(chain'[m]) PROVE (TheProposal(a))'
  <2>1. TheProposal(a)
    <3>1. CASE m = n
      BY <1>3, <1>5, <1>12, <3>1
    <3>2. CASE m # n
      BY <1>1, <1>3, <1>12, <3>2 DEF Chains
    <3>3. QED
      BY <3>1, <3>2
  <2>2. QED
    BY <1>8, <2>1, ProposalStays
<1>13. ASSUME chain'[creditor] # <<>>
       PROVE  /\ creditor \in holds
              /\ chain'[owner] # <<>> /\ chain'[owner][1] \in Range(chain'[creditor])
  <2>1. CASE chain[creditor] # <<>>
    <3>1. creditor \in holds /\ chain[owner] # <<>>
          /\ chain[owner][1] \in Range(chain[creditor])
      BY <1>1, <2>1 DEF Chains
    <3>2. Range(chain[creditor]) \subseteq Range(chain'[creditor])
      BY <1>2, <1>3, <1>6, <2>1
    <3>3. QED
      BY <1>8, <3>1, <3>2 DEF Grown
  <2>2. CASE chain[creditor] = <<>>
    <3>1. n = creditor /\ r # <<>> /\ n \in holds
      BY <1>2, <1>3, <1>13, <2>2
    <3>2. chain[owner] # <<>> /\ chain[owner][1] \in Range(r)
      BY <1>7, <2>2, <3>1
    <3>3. QED
      BY <1>2, <1>3, <3>1, <3>2
  <2>3. QED
    BY <2>1, <2>2
<1>14. Chains'
  BY <1>12, <1>13 DEF Chains
<1>15. Wire'
  BY <1>1, <1>8, WireStays DEF Wire
<1>16. QED
  BY <1>9, <1>11, <1>14, <1>15 DEF FederationInv

(* A step on the wire and in a process's memory, with genuine messages.    *)
LEMMA WireStep ==
  ASSUME FederationInv, UNCHANGED <<holds, chain, committing, now>>,
         \A m \in net' : m \in net \/ (m \in Message /\ Carries(m)),
         sent' \in BOOLEAN, sentAssertions' \in [Node -> SUBSET Assertion],
         outbox' = outbox \/ (outbox' = "sent" /\ outbox \in {"queued", "sent"})
  PROVE  FederationInv'
<1>1. TypeOK /\ Stages /\ Chains /\ Wire
  BY DEF FederationInv
<1>2. TypeOK'
  BY <1>1 DEF TypeOK, DeliveryState
<1>3. Stages'
  BY <1>1 DEF Stages
<1>4. Chains'
  BY <1>1 DEF Chains, TheProposal
<1>5. Wire'
  BY <1>1 DEF Wire, Carries, TheProposal
<1>6. QED
  BY <1>2, <1>3, <1>4, <1>5 DEF FederationInv

-----------------------------------------------------------------------------
(* The steps.                                                              *)

(* confirm and act: what a node signs of its own is not a proposal.        *)
LEMMA RecordStep ==
  ASSUME FederationInv, NEW n \in Node, NEW s \in WireAssertionState, s # "proposed",
         NEW v \in BOOLEAN, Record(n, Signed(n, s, v))
  PROVE  FederationInv'
<1>1. PICK a : a = Signed(n, s, v)
  OBVIOUS
<1>2. a \in Assertion /\ a.state = s /\ chain[n] \in Seq(Assertion)
  BY <1>1, SignedType DEF FederationInv, TypeOK
<1>3. /\ Free(n) /\ n \in holds /\ TakenAfter(chain[n], a)
      /\ chain' = [chain EXCEPT ![n] = Append(chain[n], a)]
      /\ UNCHANGED <<holds, committing, outbox, memory, net, now>>
  BY <1>1 DEF Record
<1>4. Continues(chain[n], Append(chain[n], a), {a})
  BY <1>2, <1>3, ContinuesItself, ContinuesWith
<1>5. TheProposal(a)
  BY <1>2 DEF TheProposal
<1>6. QED
  BY <1>3, <1>4, <1>5, ChainStep

(* push hands over the proposal of an owner who has it, and what the chain *)
(* of either party holds.                                                  *)
LEMMA PushStep ==
  ASSUME FederationInv, NEW n \in Node, Push(n)
  PROVE  FederationInv'
<1>1. TypeOK /\ Stages /\ Chains /\ Wire
  BY DEF FederationInv
<1>2. PICK handed \in {FALSE, ProposeDue(n)} :
        \E taken \in SUBSET AssertionsDue(n, handed) : PushOf(n, handed, taken)
  BY DEF Push
<1>3. PICK taken \in SUBSET AssertionsDue(n, handed) : PushOf(n, handed, taken)
  BY <1>2
<1>4. handed \in BOOLEAN
  BY <1>2 DEF ProposeDue, Unacknowledged
<1>5. handed => n = owner /\ outbox \in {"queued", "sent"}
  BY <1>2 DEF ProposeDue, Unacknowledged
<1>6. /\ chain[n] \in Seq(Assertion) /\ chain[owner] \in Seq(Assertion)
      /\ owner \in Node /\ creditor \in Node
  BY <1>1, TheOther DEF TypeOK
<1>7. outbox \in {"queued", "sent"} =>
        chain[owner] # <<>> /\ chain[owner][1] \in Assertion
  BY <1>1, <1>6, RangeType DEF Stages
<1>8. taken \subseteq Range(chain[n]) /\ taken \subseteq Assertion
  BY <1>6, RangeType DEF AssertionsDue
<1>9. CarriedByPropose(n, handed) \subseteq Assertion
  BY <1>7 DEF CarriedByPropose, Unacknowledged
<1>10. PICK kept \in SUBSET net :
         net' = kept \cup ({AssertMessage(n, a) : a \in taken}
                             \cup (IF handed THEN {ProposeMessage} ELSE {}))
  BY <1>3 DEF PushOf, Post
<1>11. ASSUME NEW a \in taken
       PROVE  AssertMessage(n, a) \in Message /\ Carries(AssertMessage(n, a))
  <2>1. PICK to : to = Other(n)
    OBVIOUS
  <2>2. to \in Node /\ (to = owner => n = creditor)
    <3>1. n = owner \/ n = creditor
      BY DEF Node
    <3>2. owner # creditor
      BY FederationAssumption
    <3>3. QED
      BY <2>1, <3>1, <3>2, TheOther
  <2>3. AssertMessage(n, a) = [type |-> "assert", to |-> to, assertion |-> a]
    BY <2>1 DEF AssertMessage
  <2>4. AssertMessage(n, a) \in Message
    BY <1>8, <2>2, <2>3 DEF Message
  <2>5. TheProposal(a)
    BY <1>1, <1>8 DEF Chains
  <2>6. to = owner => chain[creditor] # <<>>
    <3>1. chain[n] # <<>>
      BY <1>8 DEF Range
    <3>2. QED
      BY <2>2, <3>1
  <2>7. Carries(AssertMessage(n, a))
    BY <2>3, <2>5, <2>6 DEF Carries
  <2>8. QED
    BY <2>4, <2>7
<1>12. ASSUME handed PROVE ProposeMessage \in Message /\ Carries(ProposeMessage)
  <2>1. PICK a \in Assertion : a = chain[owner][1]
    BY <1>5, <1>7, <1>12
  <2>2. ProposeMessage = [type |-> "propose", to |-> creditor, assertion |-> a]
    BY <2>1 DEF ProposeMessage
  <2>3. ProposeMessage \in Message
    BY <1>6, <2>2 DEF Message
  <2>4. Carries(ProposeMessage)
    BY <1>5, <1>7, <1>12, <2>1, <2>2 DEF Carries
  <2>5. QED
    BY <2>3, <2>4
<1>13. \A m \in net' : m \in net \/ (m \in Message /\ Carries(m))
  BY <1>10, <1>11, <1>12
<1>14. sent' \in BOOLEAN
  BY <1>1, <1>3, <1>4 DEF PushOf, TypeOK
<1>15. sentAssertions' \in [Node -> SUBSET Assertion]
  <2>1. PICK more : more = sentAssertions[n] \cup taken \cup CarriedByPropose(n, handed)
    OBVIOUS
  <2>2. more \in SUBSET Assertion /\ sentAssertions \in [Node -> SUBSET Assertion]
    BY <1>1, <1>8, <1>9, <2>1 DEF TypeOK
  <2>3. sentAssertions' = [sentAssertions EXCEPT ![n] = more]
    BY <1>3, <2>1 DEF PushOf
  <2>4. QED
    BY <2>2, <2>3
<1>16. outbox' = outbox \/ (outbox' = "sent" /\ outbox \in {"queued", "sent"})
  BY <1>3, <1>5 DEF PushOf, OutboxAfterPush
<1>17. UNCHANGED <<holds, chain, committing, now>>
  BY <1>3 DEF PushOf
<1>18. QED
  BY <1>13, <1>14, <1>15, <1>16, <1>17, WireStep

(* A step that only posts one genuine message.                             *)
LEMMA PostStep ==
  ASSUME FederationInv, NEW m, m \in Message, Carries(m), Post({m}),
         UNCHANGED <<vault, committing, memory, now>>
  PROVE  FederationInv'
<1>1. \A x \in net' : x \in net \/ (x \in Message /\ Carries(x))
  BY DEF Post
<1>2. sent' \in BOOLEAN /\ sentAssertions' \in [Node -> SUBSET Assertion]
      /\ outbox' = outbox /\ UNCHANGED <<holds, chain, committing, now>>
  BY DEF FederationInv, TypeOK, vault, memory
<1>3. QED
  BY <1>1, <1>2, WireStep

(* Asking carries no assertion, and answering the node's own chain.        *)
LEMMA ReconSteps ==
  ASSUME FederationInv, NEW n \in Node, RequestRecon(n) \/ AnswerRecon(n)
  PROVE  FederationInv'
<1>1. /\ chain[n] \in Seq(Assertion) /\ Range(chain[n]) \subseteq Assertion
      /\ Other(n) \in Node /\ \A a \in Range(chain[n]) : TheProposal(a)
  BY TheOther, RangeType DEF FederationInv, TypeOK, Chains
<1>2. CASE RequestRecon(n)
  <2>1. PICK m : m = BuildReconRequest(n)
    OBVIOUS
  <2>2. PICK to \in Node, d \in SUBSET Assertion :
          m = [type |-> "recon_request", to |-> to, digest |-> d]
    BY <1>1, <2>1 DEF BuildReconRequest, LatestAssertionHash
  <2>3. m \in Message /\ Carries(m)
    BY <2>2 DEF Message, Carries
  <2>4. Post({m}) /\ UNCHANGED <<vault, committing, memory, now>>
    BY <1>2, <2>1 DEF RequestRecon
  <2>5. QED
    BY <2>3, <2>4, PostStep
<1>3. CASE AnswerRecon(n)
  <2>1. PICK q \in net : \E m \in AnswerReconRequest(n, q) : Post({m})
    BY <1>3 DEF AnswerRecon
  <2>2. PICK m \in AnswerReconRequest(n, q) : Post({m})
    BY <2>1
  <2>3. m = [type |-> "recon_response", to |-> Other(n), assertions |-> chain[n]]
    BY <2>2 DEF AnswerReconRequest
  <2>4. PICK to \in Node, c \in Seq(Assertion) :
          c = chain[n] /\ m = [type |-> "recon_response", to |-> to, assertions |-> c]
    BY <1>1, <2>3
  <2>5. m \in Message /\ Carries(m)
    BY <1>1, <2>4 DEF Message, Carries
  <2>6. UNCHANGED <<vault, committing, memory, now>>
    BY <1>3 DEF AnswerRecon
  <2>7. QED
    BY <2>2, <2>5, <2>6, PostStep
<1>4. QED
  BY <1>2, <1>3

(* pull: an assertion of the courier's, judged, and the acknowledgement it *)
(* is when the creditor signed it.                                         *)
LEMMA ReceiveAssertStep ==
  ASSUME FederationInv, NEW n \in Node, ReceiveAssert(n)
  PROVE  FederationInv'
<1>1. PICK m \in net :
        /\ Free(n) /\ m.type = "assert" /\ m.to = n
        /\ chain' = [chain EXCEPT ![n] = IngestAssert(n, m.assertion)]
        /\ outbox' = OutboxAfterPull(m)
        /\ UNCHANGED <<holds, committing, memory, net, now>>
  BY DEF ReceiveAssert
<1>2. Carries(m) /\ m \in Message /\ chain[n] \in Seq(Assertion)
  BY DEF FederationInv, Wire, TypeOK
<1>3. PICK a : a = m.assertion
  OBVIOUS
<1>4. a \in Assertion /\ TheProposal(a)
  BY <1>1, <1>2, <1>3 DEF Message, Carries
<1>5. PICK r : r = IngestAssert(n, a)
  OBVIOUS
<1>6. Continues(chain[n], r, {a})
  <2>1. CASE n \in holds /\ a \notin Range(chain[n]) /\ TakenAfter(chain[n], a)
    <3>1. r = Append(chain[n], a)
      BY <1>5, <2>1 DEF IngestAssert
    <3>2. QED
      BY <1>2, <1>4, <2>1, <3>1, ContinuesItself, ContinuesWith
  <2>2. CASE ~(n \in holds /\ a \notin Range(chain[n]) /\ TakenAfter(chain[n], a))
    <3>1. r = chain[n]
      BY <1>5, <2>2 DEF IngestAssert
    <3>2. QED
      BY <1>2, <3>1, ContinuesItself
  <2>3. QED
    BY <2>1, <2>2
<1>7. r = chain[n] \/ n \in holds
  BY <1>5 DEF IngestAssert
<1>8. outbox' = outbox \/ (outbox' = "acknowledged" /\ outbox # "none"
                           /\ chain[creditor] # <<>>)
  BY <1>1, <1>2 DEF OutboxAfterPull, Unacknowledged, Carries
<1>9. chain' = [chain EXCEPT ![n] = r]
  BY <1>1, <1>3, <1>5
<1>10. \A x \in {a} : TheProposal(x)
  BY <1>4
<1>11. r = chain[n] \/ (n \in holds /\ Free(n))
  BY <1>1, <1>7
<1>12. UNCHANGED <<holds, committing, memory, net, now>>
  BY <1>1
<1>13. PICK S : S = {a}
  OBVIOUS
<1>14. Continues(chain[n], r, S) /\ \A x \in S : TheProposal(x)
  BY <1>6, <1>10, <1>13
<1>15. QED
  BY <1>8, <1>9, <1>11, <1>12, <1>14, ChainStep

(* pull: a recon_response.                                                 *)
LEMMA ReceiveReconStep ==
  ASSUME FederationInv, NEW n \in Node, ReceiveReconResponse(n)
  PROVE  FederationInv'
<1>1. PICK m \in net :
        /\ Free(n) /\ n \in holds /\ m.type = "recon_response"
        /\ chain' = [chain EXCEPT ![n] = ApplyReconResponse(chain[n], m.assertions)]
        /\ UNCHANGED <<holds, committing, outbox, memory, net, now>>
  BY DEF ReceiveReconResponse
<1>2. Carries(m) /\ m \in Message /\ chain[n] \in Seq(Assertion)
  BY DEF FederationInv, Wire, TypeOK
<1>3. m.assertions \in Seq(Assertion) /\ \A a \in Range(m.assertions) : TheProposal(a)
  BY <1>1, <1>2 DEF Message, Carries
<1>4. Continues(chain[n], ApplyReconResponse(chain[n], m.assertions), Range(m.assertions))
  BY <1>2, <1>3, ReconContinues
<1>5. QED
  BY <1>1, <1>3, <1>4, ChainStep

(* pull: the proposal, stored after the edge it is about.                  *)
LEMMA ReceiveProposeStep ==
  ASSUME FederationInv, ReceivePropose
  PROVE  FederationInv'
<1>1. TypeOK /\ Stages /\ Chains /\ Wire
  BY DEF FederationInv
<1>2. PICK m \in net :
        /\ m.type = "propose" /\ holds' = holds \cup {creditor}
        /\ chain' = [chain EXCEPT ![creditor] =
                       IF m.assertion \in Range(chain[creditor]) THEN chain[creditor]
                       ELSE Append(chain[creditor], m.assertion)]
        /\ UNCHANGED <<committing, outbox, memory, net, now>>
  BY DEF ReceivePropose
<1>3. /\ chain \in [Node -> Seq(Assertion)] /\ owner \in Node /\ creditor \in Node
      /\ owner # creditor /\ Node = {owner, creditor}
  BY <1>1, TheOther, FederationAssumption DEF TypeOK, Node
<1>4. PICK a : a = m.assertion
  OBVIOUS
<1>5. a \in Assertion /\ chain[owner] # <<>> /\ a = chain[owner][1]
  BY <1>1, <1>2, <1>4 DEF TypeOK, Message, Wire, Carries
<1>6. PICK c \in Seq(Assertion) : c = chain[creditor]
  BY <1>3
<1>7. PICK r : r = IF a \in Range(c) THEN c ELSE Append(c, a)
  OBVIOUS
<1>8. r \in Seq(Assertion) /\ r # <<>> /\ Range(r) = Range(c) \cup {a}
  <2>1. CASE a \in Range(c)
    BY <1>7, <2>1 DEF Range
  <2>2. CASE a \notin Range(c)
    BY <1>5, <1>7, <2>2, RangeWith
  <2>3. QED
    BY <2>1, <2>2
<1>9. chain' = [chain EXCEPT ![creditor] = r]
  BY <1>2, <1>4, <1>6, <1>7
<1>10. /\ chain'[creditor] = r /\ chain'[owner] = chain[owner]
       /\ chain' \in [Node -> Seq(Assertion)]
  BY <1>3, <1>8, <1>9
<1>11. Grown
  BY <1>8, <1>10 DEF Grown
<1>12. TypeOK'
  BY <1>1, <1>2, <1>3, <1>10 DEF TypeOK, memory
<1>13. Stages'
  <2>1. owner \in holds' => owner \in holds
    BY <1>2, <1>3
  <2>2. QED
    BY <1>1, <1>2, <1>8, <1>10, <2>1 DEF Stages
<1>14. TheProposal(a)
  BY <1>5 DEF TheProposal
<1>15. ASSUME NEW n \in Node, NEW x \in Range(chain'[n]) PROVE (TheProposal(x))'
  <2>1. TheProposal(x)
    <3>1. CASE n = owner
      BY <1>1, <1>3, <1>10, <1>15, <3>1 DEF Chains
    <3>2. CASE n = creditor
      <4>1. x \in Range(c) \/ x = a
        BY <1>8, <1>10, <1>15, <3>2
      <4>2. QED
        BY <1>1, <1>3, <1>6, <1>14, <4>1 DEF Chains
    <3>3. QED
      BY <1>3, <3>1, <3>2
  <2>2. QED
    BY <1>11, <2>1, ProposalStays
<1>16. /\ creditor \in holds' /\ chain'[owner] # <<>>
       /\ chain'[owner][1] \in Range(chain'[creditor])
  BY <1>2, <1>5, <1>8, <1>10
<1>17. Chains'
  BY <1>15, <1>16 DEF Chains
<1>18. Wire'
  BY <1>1, <1>2, <1>11, WireStays DEF Wire
<1>19. QED
  BY <1>12, <1>13, <1>17, <1>18 DEF FederationInv

(* The other steps of a commit and of a process's life, which sign         *)
(* nothing.                                                                *)
LEMMA QuietSteps ==
  ASSUME FederationInv, NEW n \in Node,
         \/ CommitEdge \/ QueuePropose \/ CrashInCommit \/ CrashInReceivePropose
         \/ Restart(n) \/ Lose \/ Tick
  PROVE  FederationInv'
<1>1. TypeOK /\ Stages /\ Chains /\ Wire
  BY DEF FederationInv
<1>2. chain' = chain
  BY DEF CommitEdge, QueuePropose, CrashInCommit, CrashInReceivePropose,
         Restart, Lose, Tick, vault
<1>3. net' \subseteq net
  BY DEF CommitEdge, QueuePropose, CrashInCommit, CrashInReceivePropose,
         Restart, Lose, Tick
<1>4. Wire'
  BY <1>1, <1>2, <1>3 DEF Wire, Carries, TheProposal
<1>5. holds \subseteq holds'
  BY DEF CommitEdge, QueuePropose, CrashInCommit, CrashInReceivePropose,
         Restart, Lose, Tick, vault
<1>6. Chains'
  BY <1>1, <1>2, <1>5 DEF Chains, TheProposal
<1>7. owner \in Node /\ creditor \in Node /\ owner # creditor
  BY TheOther, FederationAssumption
<1>8. Stages' /\ TypeOK'
  <2>1. CASE CommitEdge
    BY <1>1, <1>2, <1>7, <2>1 DEF CommitEdge, Stages, TypeOK, memory
  <2>2. CASE QueuePropose
    BY <1>1, <1>2, <2>2 DEF QueuePropose, Stages, TypeOK, memory, DeliveryState
  <2>3. CASE CrashInCommit
    BY <1>1, <1>2, <1>7, <2>3 DEF CrashInCommit, Stages, TypeOK, vault
  <2>4. CASE CrashInReceivePropose
    BY <1>1, <1>2, <1>7, <2>4 DEF CrashInReceivePropose, Stages, TypeOK
  <2>5. CASE Restart(n)
    <3>1. sent' \in BOOLEAN /\ sentAssertions' \in [Node -> SUBSET Assertion]
      BY <1>1, <2>5 DEF Restart, TypeOK
    <3>2. QED
      BY <1>1, <1>2, <2>5, <3>1 DEF Restart, Stages, TypeOK, vault
  <2>6. CASE Lose
    BY <1>1, <1>2, <1>3, <2>6 DEF Lose, Stages, TypeOK, vault, memory
  <2>7. CASE Tick
    <3>1. now' \in 0..MaxNow
      BY <1>1, <2>7, FederationAssumption DEF Tick, TypeOK
    <3>2. QED
      BY <1>1, <1>2, <2>7, <3>1 DEF Tick, Stages, TypeOK, vault, memory
  <2>8. QED
    BY <2>1, <2>2, <2>3, <2>4, <2>5, <2>6, <2>7
<1>9. QED
  BY <1>4, <1>6, <1>8 DEF FederationInv

(* commit signs the proposal onto an empty chain, when nobody has any.     *)
LEMMA CommitAssertionStep ==
  ASSUME FederationInv, CommitAssertion
  PROVE  FederationInv'
<1>1. TypeOK /\ Stages /\ Chains /\ Wire
  BY DEF FederationInv
<1>2. PICK a : a = Signed(owner, "proposed", FALSE)
  OBVIOUS
<1>3. /\ owner \in Node /\ creditor \in Node /\ owner # creditor
      /\ Node = {owner, creditor} /\ chain \in [Node -> Seq(Assertion)]
  BY <1>1, TheOther, FederationAssumption DEF TypeOK, Node
<1>4. a \in Assertion
  BY <1>1, <1>2, <1>3, SignedType DEF WireAssertionState
<1>5. committing = "edge" /\ chain[owner] = <<>>
  BY <1>1 DEF CommitAssertion, Stages
<1>6. chain[creditor] = <<>> /\ outbox = "none"
  BY <1>1, <1>5 DEF Chains, Stages
<1>7. PICK r : r = <<a>>
  OBVIOUS
<1>8. r \in Seq(Assertion) /\ r # <<>> /\ r[1] = a /\ Range(r) = {a}
  BY <1>4, <1>7 DEF Range
<1>9. chain' = [chain EXCEPT ![owner] = r]
  BY <1>2, <1>5, <1>7 DEF CommitAssertion
<1>10. /\ chain'[owner] = r /\ chain'[creditor] = <<>>
       /\ chain' \in [Node -> Seq(Assertion)]
  BY <1>3, <1>6, <1>8, <1>9
<1>11. /\ committing' = "proposed"
       /\ UNCHANGED <<holds, outbox, sent, sentAssertions, net, now>>
  BY DEF CommitAssertion, memory
<1>12. TypeOK'
  BY <1>1, <1>10, <1>11 DEF TypeOK
<1>13. Stages'
  BY <1>6, <1>8, <1>10, <1>11 DEF Stages
<1>14. Chains'
  <2>1. ASSUME NEW n \in Node, NEW x \in Range(chain'[n]) PROVE (TheProposal(x))'
    <3>1. Range(<<>>) = {}
      BY DEF Range
    <3>2. x = a
      BY <1>3, <1>8, <1>10, <2>1, <3>1
    <3>3. QED
      BY <1>8, <1>10, <3>2 DEF TheProposal
  <2>2. QED
    BY <1>10, <2>1 DEF Chains
<1>15. Wire'
  <2>1. Grown
    BY <1>5, <1>6 DEF Grown
  <2>2. QED
    BY <1>1, <1>11, <2>1, WireStays DEF Wire
<1>16. QED
  BY <1>12, <1>13, <1>14, <1>15 DEF FederationInv

(* Every step keeps the invariant.                                         *)
LEMMA FederationStep ==
  ASSUME FederationInv, Next
  PROVE  FederationInv'
<1>1. owner \in Node /\ creditor \in Node
  BY TheOther
<1>2. CASE CommitAssertion
  BY <1>2, CommitAssertionStep
<1>3. CASE CommitEdge \/ QueuePropose \/ CrashInCommit \/ CrashInReceivePropose
             \/ Lose \/ Tick
  BY <1>1, <1>3, QuietSteps
<1>4. CASE ReceivePropose
  BY <1>4, ReceiveProposeStep
<1>5. CASE Confirm
  BY <1>1, <1>5, RecordStep DEF Confirm, WireAssertionState
<1>6. CASE ReleaseIt
  BY <1>1, <1>6, RecordStep DEF ReleaseIt, WireAssertionState
<1>7. ASSUME NEW evidence \in BOOLEAN, Done(evidence) PROVE FederationInv'
  BY <1>1, <1>7, RecordStep DEF Done, WireAssertionState
<1>8. ASSUME NEW n \in Node,
             \/ ExpireIt(n) \/ Push(n) \/ ReceiveAssert(n)
             \/ RequestRecon(n) \/ AnswerRecon(n) \/ ReceiveReconResponse(n)
      PROVE  FederationInv'
  <2>1. CASE ExpireIt(n)
    BY <2>1, RecordStep DEF ExpireIt, WireAssertionState
  <2>2. CASE Push(n)
    BY <2>2, PushStep
  <2>3. CASE ReceiveAssert(n)
    BY <2>3, ReceiveAssertStep
  <2>4. CASE RequestRecon(n) \/ AnswerRecon(n)
    BY <2>4, ReconSteps
  <2>5. CASE ReceiveReconResponse(n)
    BY <2>5, ReceiveReconStep
  <2>6. QED
    BY <1>8, <2>1, <2>2, <2>3, <2>4, <2>5
<1>9. ASSUME NEW n \in Node, Restart(n) PROVE FederationInv'
  BY <1>9, QuietSteps
<1>10. QED
  BY <1>2, <1>3, <1>4, <1>5, <1>6, <1>7, <1>8, <1>9 DEF Next, InProcess, Commit

(* So does a step in which nothing happens.                                *)
LEMMA FederationStutter ==
  ASSUME FederationInv, UNCHANGED vars
  PROVE  FederationInv'
<1>1. UNCHANGED <<holds, chain, committing, outbox, sent, sentAssertions, net, now>>
  BY DEF vars
<1>2. QED
  BY <1>1, WireStep DEF FederationInv, TypeOK

(* And the first state has it.                                             *)
LEMMA FederationInit ==
  ASSUME Init
  PROVE  FederationInv
<1>1. owner \in Node /\ creditor \in Node /\ owner # creditor
  BY TheOther, FederationAssumption
<1>2. <<>> \in Seq(Assertion)
  OBVIOUS
<1>3. chain[owner] = <<>> /\ chain[creditor] = <<>>
  BY <1>1 DEF Init
<1>4. chain \in [Node -> Seq(Assertion)]
  BY <1>2 DEF Init
<1>5. TypeOK
  <2>1. {} \in SUBSET Assertion /\ {} \subseteq Message /\ {} \subseteq Node
    OBVIOUS
  <2>2. sentAssertions \in [Node -> SUBSET Assertion]
    BY <2>1 DEF Init
  <2>3. holds \subseteq Node /\ net \subseteq Message
    BY <2>1 DEF Init
  <2>4. now \in 0..MaxNow
    BY FederationAssumption DEF Init
  <2>5. committing = "idle" /\ outbox = "none" /\ sent \in BOOLEAN
    BY DEF Init
  <2>6. QED
    BY <1>4, <2>2, <2>3, <2>4, <2>5 DEF TypeOK, DeliveryState
<1>6. Stages
  BY <1>3 DEF Init, Stages
<1>7. Chains
  <2>1. \A n \in Node : chain[n] = <<>>
    BY <1>3 DEF Node
  <2>2. Range(<<>>) = {}
    BY DEF Range
  <2>3. QED
    BY <1>3, <2>1, <2>2 DEF Chains
<1>8. Wire
  BY DEF Init, Wire
<1>9. QED
  BY <1>5, <1>6, <1>7, <1>8 DEF FederationInv

-----------------------------------------------------------------------------
(* The theorems.                                                           *)

(* What the vaults, the outbox, the processes' memory and the courier hold *)
(* is well formed: whatever a reconciliation leaves, a chain is a sequence *)
(* of assertions and the courier holds messages (federated-node.ts).       *)
THEOREM FederationTypes == Spec => []TypeOK
<1>1. Init => FederationInv
  BY FederationInit
<1>2. FederationInv /\ [Next]_vars => FederationInv'
  BY FederationStep, FederationStutter
<1>3. FederationInv => TypeOK
  BY DEF FederationInv
<1>4. QED
  BY <1>1, <1>2, <1>3, PTL DEF Spec

(* An outbox record reads acknowledged only when the creditor's vault      *)
(* holds the edge and its proposal, through any losses, repetitions,       *)
(* reorderings and crashes (recordAcknowledgements).  The invariant says   *)
(* that an assertion on its way to the owner comes from a creditor whose   *)
(* chain has begun, and that no chain begins with anything but the one     *)
(* proposal.                                                               *)
THEOREM AcknowledgementsAreTrue == Spec => []AcknowledgedMeansHeld
<1>1. Init => FederationInv
  BY FederationInit
<1>2. FederationInv /\ [Next]_vars => FederationInv'
  BY FederationStep, FederationStutter
<1>3. FederationInv => AcknowledgedMeansHeld
  BY DEF FederationInv, Stages, Chains, AcknowledgedMeansHeld
<1>4. QED
  BY <1>1, <1>2, <1>3, PTL DEF Spec
-----------------------------------------------------------------------------
(* Chains of honest nodes.                                                 *)

(* What a party may sign: the owner the proposal and evidence, the         *)
(* creditor the confirmation and the release, each an expiry.              *)
Genuine(a) ==
  /\ a.edge_id = edgeId /\ a.signer = a.by /\ a.by \in Node
  /\ a.asserted_at <= now
  /\ \/ a.state \in {"proposed", "closed"} /\ a.by = owner
     \/ a.state \in {"confirmed", "released"} /\ a.by = creditor
     \/ a.state = "expired"

(* x is a way out of the edge that p proposed and k confirmed.             *)
FirstExit(p, k, x) ==
  /\ x.state \in UNILATERAL_EXITS
  /\ x.state = "closed" => x.evidence
  /\ x.state = "expired" => Due # Null /\ x.asserted_at >= Due
  /\ x.asserted_at >= (IF x.by = owner THEN p ELSE k).asserted_at

(* A proposal, a confirmation, a first exit, another exit.                 *)
Shaped(c) ==
  /\ Len(c) >= 1 => c[1].state = "proposed"
  /\ Len(c) >= 2 => c[2].state = "confirmed"
  /\ Len(c) >= 3 => FirstExit(c[1], c[2], c[3])
  /\ Len(c) >= 4 => c[4].state \in UNILATERAL_EXITS /\ c[4] # c[3]

Honest(c) == Shaped(c) /\ \A a \in Range(c) : Genuine(a)

(* The contexts such a chain leads to.                                     *)
Context(s, opened, exit, latest, resolved) ==
  [state |-> s, window_opened_at |-> opened, superseded_by |-> {},
   dispute_closed_by |-> {}, exit |-> exit, contest_closed_by |-> {},
   contest_superseded_by |-> {}, contested_at |-> Null, disputed_at |-> Null,
   latest_by_signer |-> latest, resolved_at |-> resolved]

DatedAfter(latest, a) == [latest EXCEPT ![a.by] = a.asserted_at]

Proposed(p) ==
  Context("proposed", Null, {}, DatedAfter([k \in Key |-> Null], p), Null)

Confirmed(p, k) ==
  Context("open", Null, {}, DatedAfter(Proposed(p).latest_by_signer, k), Null)

Exited(p, k, x) ==
  Context(IF x.state = "closed" THEN "pending-acceptance" ELSE x.state,
          IF x.state = "closed" THEN x.asserted_at ELSE Null,
          {[state |-> x.state, by |-> x.by, at |-> x.asserted_at]},
          DatedAfter(Confirmed(p, k).latest_by_signer, x),
          IF x.state = "closed" THEN Null ELSE x.asserted_at)

(* The edge is well formed, and each party has its one key.                *)
LEMMA TheEdge ==
  /\ ~EdgeMalformed(theEdge)
  /\ \A a : /\ IsOwner(lineage, a) <=> a.by = owner
            /\ IsOwedTo(lineage, a) <=> a.by = creditor
            /\ Authentic(theEdge, a) <=> a.edge_id = edgeId /\ a.signer = a.by
<1>1. ~EdgeMalformed(theEdge)
  BY FederationAssumption DEF EdgeMalformed, AcceptanceWindowMalformed, theEdge, Null
<1>2. \A a : Authentic(theEdge, a) <=> a.edge_id = edgeId /\ a.signer = a.by
  BY DEF Authentic, theEdge
<1>3. \A a : /\ IsOwner(lineage, a) <=> a.by = owner
             /\ IsOwedTo(lineage, a) <=> a.by = creditor
  <2>1. ASSUME NEW S, NEW n, S = {[key |-> n, supersededAt |-> Null]}
        PROVE  \A by, at : HeldBy(S, by, at) <=> by = n
    BY <2>1 DEF HeldBy
  <2>2. PICK S, T : /\ S = {[key |-> owner, supersededAt |-> Null]} /\ S = lineage.owner
                    /\ T = {[key |-> creditor, supersededAt |-> Null]} /\ T = lineage.owed_to
    BY DEF lineage
  <2>3. /\ \A by, at : HeldBy(S, by, at) <=> by = owner
        /\ \A by, at : HeldBy(T, by, at) <=> by = creditor
    BY <2>1, <2>2
  <2>4. QED
    BY <2>2, <2>3 DEF IsOwner, IsOwedTo
<1>4. QED
  BY <1>1, <1>2, <1>3

(* What is judged where no exit has been taken.                            *)
LEMMA Judgement ==
  ASSUME NEW s \in {"none", "proposed", "open"}, NEW latest,
         NEW a \in Assertion, Genuine(a), now \in Nat
  PROVE  Accepts(theEdge, lineage, now, Context(s, Null, {}, latest, Null), a)
           <=> /\ a.asserted_at >= latest[a.by]
               /\ \/ s = "none" /\ a.state = "proposed"
                  \/ s = "proposed" /\ a.state = "confirmed"
                  \/ /\ s = "open" /\ a.state \in UNILATERAL_EXITS
                     /\ a.state = "closed" => a.evidence
                     /\ a.state = "expired" => Due # Null /\ a.asserted_at >= Due
<1>1. PICK c : c = Context(s, Null, {}, latest, Null)
  OBVIOUS
<1>2. c.state = s /\ c.exit = {} /\ c.latest_by_signer = latest
  BY <1>1 DEF Context
<1>3. ~Contests(c, a) /\ s \notin TERMINAL_STATES /\ s # "contested-closure"
  BY <1>2 DEF Contests, TERMINAL_STATES
<1>4. /\ Authentic(theEdge, a) /\ (IsOwner(lineage, a) \/ IsOwedTo(lineage, a))
      /\ a.state \notin NON_ASSERTABLE_STATES
  BY TheEdge DEF Genuine, Node, NON_ASSERTABLE_STATES
<1>5. Accepts(theEdge, lineage, now, c, a)
        <=> InSignersOrder(c, a) /\ LegalByTable(theEdge, lineage, now, c, a)
  BY <1>2, <1>3, <1>4, TheEdge DEF Accepts
<1>6. InSignersOrder(c, a) <=> a.asserted_at >= latest[a.by]
  BY <1>2 DEF InSignersOrder
<1>7. owner # creditor
  BY FederationAssumption
<1>8. NotInTheFuture(now, a)
  BY WindowAssumption DEF NotInTheFuture, Genuine, Assertion, Time
<1>9. LegalByTable(theEdge, lineage, now, c, a)
        <=> \/ s = "none" /\ a.state = "proposed"
            \/ s = "proposed" /\ a.state = "confirmed"
            \/ /\ s = "open" /\ a.state \in UNILATERAL_EXITS
               /\ a.state = "closed" => a.evidence
               /\ a.state = "expired" => Due # Null /\ a.asserted_at >= Due
  <2>1. CASE a.state = "proposed"
    BY <1>2, <2>1, <1>7, TheEdge DEF LegalByTable, Genuine, UNILATERAL_EXITS
  <2>2. CASE a.state = "confirmed"
    BY <1>2, <2>2, <1>7, TheEdge DEF LegalByTable, Genuine, UNILATERAL_EXITS
  <2>3. CASE a.state = "released"
    BY <1>2, <2>3, <1>7, TheEdge DEF LegalByTable, Genuine, UNILATERAL_EXITS
  <2>4. CASE a.state = "closed"
    BY <1>2, <2>4, <1>7, TheEdge DEF LegalByTable, LegalClosed, Genuine, UNILATERAL_EXITS
  <2>5. CASE a.state = "expired"
    <3>1. LegalByTable(theEdge, lineage, now, c, a)
            <=> s = "open" /\ theEdge.due # Null /\ a.asserted_at >= theEdge.due
      BY <1>2, <1>8, <2>5 DEF LegalByTable, LegalExpired, LegalUnilateralExit
    <3>2. theEdge.due = Due
      BY DEF theEdge
    <3>3. QED
      BY <2>5, <3>1, <3>2 DEF UNILATERAL_EXITS
  <2>6. QED
    BY <2>1, <2>2, <2>3, <2>4, <2>5 DEF Genuine
<1>10. QED
  BY <1>1, <1>5, <1>6, <1>9

(* The steps of the verifier along such a chain.                           *)
LEMMA StepsOfChain ==
  ASSUME now \in Nat, NEW p \in Assertion, Genuine(p), p.state = "proposed"
  PROVE  /\ Step(theEdge, lineage, now, InitChainState, p) = Proposed(p)
         /\ \A k \in Assertion :
              Genuine(k) /\ k.state = "confirmed" =>
                /\ Step(theEdge, lineage, now, Proposed(p), k) = Confirmed(p, k)
                /\ \A x \in Assertion :
                     Genuine(x) /\ FirstExit(p, k, x) =>
                       Step(theEdge, lineage, now, Confirmed(p, k), x) = Exited(p, k, x)
<1> DEFINE none == [k \in Key |-> Null]
<1>1. /\ owner \in Key /\ creditor \in Key /\ owner # creditor
      /\ owner \in Node /\ creditor \in Node
  BY TheOther, FederationAssumption
<1>2. InitChainState = Context("none", Null, {}, none, Null)
  BY DEF InitChainState, Context
<1>3. p.by = owner /\ p.asserted_at \in Nat
  BY <1>1 DEF Genuine, Assertion, Time
<1>4. Step(theEdge, lineage, now, InitChainState, p) = Proposed(p)
  <2>1. p.asserted_at >= none[p.by]
    BY <1>1, <1>3 DEF Null
  <2>2. Accepts(theEdge, lineage, now, InitChainState, p)
    BY <1>2, <2>1, Judgement
  <2>3. ~Contests(InitChainState, p)
    BY <1>2 DEF Contests, Context
  <2>4. Effect(theEdge, InitChainState, p)
          = [[InitChainState EXCEPT !.state = "proposed"]
               EXCEPT !.latest_by_signer[p.by] = p.asserted_at]
    BY <2>3 DEF Effect, EffectByTable, InitChainState
  <2>5. Effect(theEdge, InitChainState, p) = Proposed(p)
    BY <2>4 DEF Proposed, Context, DatedAfter, InitChainState
  <2>6. QED
    BY <2>2, <2>5 DEF Step
<1>5. ASSUME NEW k \in Assertion, Genuine(k), k.state = "confirmed"
      PROVE  Step(theEdge, lineage, now, Proposed(p), k) = Confirmed(p, k)
  <2>1. k.by = creditor /\ k.asserted_at \in Nat
    BY <1>1, <1>5 DEF Genuine, Assertion, Time
  <2>2. DatedAfter(none, p)[k.by] = Null
    BY <1>1, <1>3, <2>1 DEF DatedAfter
  <2>3. k.asserted_at >= DatedAfter(none, p)[k.by]
    BY <2>1, <2>2 DEF Null
  <2>4. Accepts(theEdge, lineage, now, Proposed(p), k)
    BY <1>5, <2>3, Judgement DEF Proposed
  <2>5. ~Contests(Proposed(p), k) /\ Proposed(p).state # "contested-closure"
    BY DEF Contests, Proposed, Context
  <2>6. Effect(theEdge, Proposed(p), k)
          = [[Proposed(p) EXCEPT !.state = "open"]
               EXCEPT !.latest_by_signer[k.by] = k.asserted_at]
    BY <1>5, <2>5 DEF Effect, EffectByTable
  <2>7. Effect(theEdge, Proposed(p), k) = Confirmed(p, k)
    BY <2>6 DEF Proposed, Confirmed, Context, DatedAfter
  <2>8. QED
    BY <2>4, <2>7 DEF Step
<1>6. ASSUME NEW k \in Assertion, Genuine(k), k.state = "confirmed",
             NEW x \in Assertion, Genuine(x), FirstExit(p, k, x)
      PROVE  Step(theEdge, lineage, now, Confirmed(p, k), x) = Exited(p, k, x)
  <2>1. k.by = creditor /\ k.asserted_at \in Nat /\ x.asserted_at \in Nat
        /\ (x.by = owner \/ x.by = creditor)
    BY <1>1, <1>6 DEF Genuine, Assertion, Time, Node
  <2>2. PICK latest : latest = Confirmed(p, k).latest_by_signer
    OBVIOUS
  <2>3. Confirmed(p, k) = Context("open", Null, {}, latest, Null)
    BY <2>2 DEF Confirmed, Context
  <2>4. latest[owner] = p.asserted_at /\ latest[creditor] = k.asserted_at
    BY <1>1, <1>3, <2>1, <2>2 DEF Confirmed, Proposed, Context, DatedAfter
  <2>5. x.asserted_at >= latest[x.by]
    BY <1>1, <1>6, <2>1, <2>4 DEF FirstExit
  <2>6. Accepts(theEdge, lineage, now, Confirmed(p, k), x)
    BY <1>6, <2>3, <2>5, Judgement DEF FirstExit
  <2>7. PICK c : c = Context("open", Null, {}, latest, Null)
    OBVIOUS
  <2>8. ~Contests(c, x) /\ c.state = "open"
    BY <2>7 DEF Contests, Context
  <2>9. PICK r : r = RecordExit(c, x)
    OBVIOUS
  <2>10. r = Context("open", Null, {[state |-> x.state, by |-> x.by, at |-> x.asserted_at]},
                     latest, Null)
    BY <2>7, <2>9 DEF RecordExit, Context
  <2>11. Effect(theEdge, c, x)
           = [EffectByTable(theEdge, c, x)
                EXCEPT !.latest_by_signer[x.by] = x.asserted_at]
    BY <2>8 DEF Effect
  <2>12. EffectByTable(theEdge, c, x)
           = Context(IF x.state = "closed" THEN "pending-acceptance" ELSE x.state,
                     IF x.state = "closed" THEN x.asserted_at ELSE Null,
                     {[state |-> x.state, by |-> x.by, at |-> x.asserted_at]},
                     latest,
                     IF x.state = "closed" THEN Null ELSE x.asserted_at)
    <3>1. CASE x.state = "closed"
      <4>1. EffectByTable(theEdge, c, x)
              = [r EXCEPT !.state = "pending-acceptance", !.window_opened_at = x.asserted_at]
        BY <2>8, <2>9, <3>1 DEF EffectByTable, EffectOfClosed, EvidenceClose, theEdge
      <4>2. QED
        BY <2>10, <3>1, <4>1 DEF Context
    <3>2. CASE x.state = "released"
      <4>1. EffectByTable(theEdge, c, x) = Resolve(r, "released", x)
        BY <2>9, <3>2 DEF EffectByTable
      <4>2. QED
        BY <2>10, <3>2, <4>1 DEF Context, Resolve
    <3>3. CASE x.state = "expired"
      <4>1. EffectByTable(theEdge, c, x) = Resolve(r, "expired", x)
        BY <2>8, <2>9, <3>3 DEF EffectByTable
      <4>2. QED
        BY <2>10, <3>3, <4>1 DEF Context, Resolve
    <3>4. QED
      BY <1>6, <3>1, <3>2, <3>3 DEF FirstExit, UNILATERAL_EXITS
  <2>13. Effect(theEdge, c, x) = Exited(p, k, x)
    <3>1. PICK s, opened, exit, resolved :
            /\ s = IF x.state = "closed" THEN "pending-acceptance" ELSE x.state
            /\ opened = IF x.state = "closed" THEN x.asserted_at ELSE Null
            /\ exit = {[state |-> x.state, by |-> x.by, at |-> x.asserted_at]}
            /\ resolved = IF x.state = "closed" THEN Null ELSE x.asserted_at
      OBVIOUS
    <3>2. EffectByTable(theEdge, c, x) = Context(s, opened, exit, latest, resolved)
      BY <2>12, <3>1
    <3>3. Effect(theEdge, c, x)
            = Context(s, opened, exit, [latest EXCEPT ![x.by] = x.asserted_at], resolved)
      BY <2>11, <3>2 DEF Context
    <3>4. Exited(p, k, x) = Context(s, opened, exit, DatedAfter(latest, x), resolved)
      BY <2>2, <3>1 DEF Exited
    <3>5. QED
      BY <3>3, <3>4 DEF DatedAfter
  <2>14. QED
    BY <2>3, <2>6, <2>7, <2>13 DEF Step
<1>7. QED
  BY <1>4, <1>5, <1>6

(* What is genuine and what it is about.                                   *)
LEMMA GenuineStates ==
  ASSUME NEW a, Genuine(a)
  PROVE  /\ a.state \in {"proposed", "confirmed"} \cup UNILATERAL_EXITS
         /\ a.state \in {"proposed", "closed"} => a.by = owner
         /\ a.state \in {"confirmed", "released"} => a.by = creditor
BY DEF Genuine, UNILATERAL_EXITS

(* The context after a chain of three or fewer.                            *)
ContextAfter(c, i) ==
  IF i = 0 THEN InitChainState
  ELSE IF i = 1 THEN Proposed(c[1])
  ELSE IF i = 2 THEN Confirmed(c[1], c[2]) ELSE Exited(c[1], c[2], c[3])

LEMMA ShortReplay ==
  ASSUME now \in Nat, NEW c \in Seq(Assertion), Honest(c), Len(c) <= 3
  PROVE  VerifyAssertionChain(theEdge, lineage, now, c) = ContextAfter(c, Len(c))
<1>1. PICK N \in 0..3 : N = Len(c) /\ DOMAIN c = 1..N
  <2>1. PICK n \in Nat : n = Len(c) /\ DOMAIN c = 1..n
    OBVIOUS
  <2>2. n \in 0..3
    BY <2>1
  <2>3. QED
    BY <2>1, <2>2
<1> DEFINE K(i) == ContextAfter(c, i)
           Rec(f) == [i \in 0..Len(c) |->
             IF i = 0 THEN InitChainState
             ELSE Step(theEdge, lineage, now, f[i - 1], c[i])]
           after == CHOOSE f : f = Rec(f)
<1>2. \A i \in 1..N : c[i] \in Assertion /\ Genuine(c[i])
  BY <1>1 DEF Honest, Range
<1>3. ASSUME NEW i \in 1..N PROVE Step(theEdge, lineage, now, K(i - 1), c[i]) = K(i)
  <2>1. 1 \in 1..N /\ c[1].state = "proposed"
    BY <1>1 DEF Honest, Shaped
  <2>2. CASE i = 1
    <3>1. K(i - 1) = InitChainState /\ K(i) = Proposed(c[1])
      BY <2>2 DEF ContextAfter
    <3>2. QED
      BY <1>2, <2>1, <2>2, <3>1, StepsOfChain
  <2>3. CASE i = 2
    <3>1. K(i - 1) = Proposed(c[1]) /\ K(i) = Confirmed(c[1], c[2])
      BY <2>3 DEF ContextAfter
    <3>2. 2 \in 1..N /\ c[2].state = "confirmed"
      BY <1>1, <2>3 DEF Honest, Shaped
    <3>3. QED
      BY <1>2, <2>1, <2>3, <3>1, <3>2, StepsOfChain
  <2>4. CASE i = 3
    <3>1. K(i - 1) = Confirmed(c[1], c[2]) /\ K(i) = Exited(c[1], c[2], c[3])
      BY <2>4 DEF ContextAfter
    <3>2. /\ 2 \in 1..N /\ 3 \in 1..N /\ c[2].state = "confirmed"
          /\ FirstExit(c[1], c[2], c[3])
      BY <1>1, <2>4 DEF Honest, Shaped
    <3>3. QED
      BY <1>2, <2>1, <2>4, <3>1, <3>2, StepsOfChain
  <2>5. QED
    BY <2>2, <2>3, <2>4
<1> HIDE DEF K
<1>4. K(0) = InitChainState
  BY DEF K, ContextAfter
<1>5. \E f : f = Rec(f)
  <2>1. PICK f : f = [i \in 0..N |-> K(i)]
    OBVIOUS
  <2>2. ASSUME NEW i \in 0..N
        PROVE  f[i] = IF i = 0 THEN InitChainState
                      ELSE Step(theEdge, lineage, now, f[i - 1], c[i])
    <3>1. i # 0 => i \in 1..N /\ f[i - 1] = K(i - 1)
      BY <2>1
    <3>2. f[i] = K(i)
      BY <2>1
    <3>3. QED
      BY <1>3, <1>4, <3>1, <3>2
  <2>3. f = Rec(f)
    BY <1>1, <2>1, <2>2
  <2>4. QED
    BY <2>3
<1>6. after = Rec(after)
  BY <1>5
<1>7. VerifyAssertionChain(theEdge, lineage, now, c) = after[Len(c)]
  BY DEF VerifyAssertionChain
<1> HIDE DEF after
<1>8. after[0] = K(0) /\ \A i \in 1..N :
        after[i] = Step(theEdge, lineage, now, after[i - 1], c[i])
  <2>1. \A i \in 0..N : after[i] = Rec(after)[i]
    BY <1>6
  <2>2. 0 \in 0..N /\ \A i \in 1..N : i \in 0..N /\ i # 0
    OBVIOUS
  <2>3. QED
    BY <1>1, <1>4, <2>1, <2>2
<1> DEFINE ok == {i \in 0..N : after[i] = K(i)}
<1>9. 0 \in ok
  BY <1>8
<1>10. ASSUME NEW i \in 1..N, i - 1 \in ok PROVE i \in ok
  <2>1. i \in 0..N /\ after[i - 1] = K(i - 1)
    BY <1>10
  <2>2. QED
    BY <1>3, <1>8, <2>1
<1>11. \A i \in 0..N : i \in ok
  <2> HIDE DEF ok
  <2>1. N \in Nat
    OBVIOUS
  <2>2. QED
    BY <1>9, <1>10, <2>1, ByTurns
<1>12. QED
  BY <1>1, <1>7, <1>11 DEF K

(* What the table takes after such a chain keeps its shape.                *)
LEMMA ShapedWith ==
  ASSUME now \in Nat, NEW c \in Seq(Assertion), Honest(c),
         NEW a \in Assertion, Genuine(a), TakenAfter(c, a)
  PROVE  Honest(Append(c, a))
<1>1. PICK n \in Nat : n = Len(c) /\ DOMAIN c = 1..n
  OBVIOUS
<1>2. PICK e : e = Append(c, a)
  OBVIOUS
<1>3. Len(e) = n + 1 /\ DOMAIN e = 1..(n + 1) /\ e[n + 1] = a /\ \A i \in 1..n : e[i] = c[i]
  BY <1>1, <1>2
<1>4. \A b \in Range(e) : Genuine(b)
  <2>1. \A i \in 1..(n + 1) : i = n + 1 \/ i \in 1..n
    OBVIOUS
  <2>2. QED
    BY <1>1, <1>3, <2>1 DEF Honest, Range
<1>5. \A i \in 1..n : c[i] \in Assertion /\ Genuine(c[i])
  BY <1>1 DEF Honest, Range
<1>6. /\ n >= 1 => 1 \in 1..n /\ c[1].state = "proposed"
      /\ n >= 2 => 2 \in 1..n /\ c[2].state = "confirmed"
      /\ n >= 3 => 3 \in 1..n /\ FirstExit(c[1], c[2], c[3])
      /\ n >= 4 => 4 \in 1..n /\ c[4].state \in UNILATERAL_EXITS /\ c[4] # c[3]
  BY <1>1 DEF Honest, Shaped
<1>7. n <= 3 => Accepts(theEdge, lineage, now, ContextAfter(c, n), a)
  BY <1>1, ShortReplay DEF TakenAfter
<1>8. /\ owner \in Key /\ creditor \in Key /\ owner # creditor
      /\ owner \in Node /\ creditor \in Node
  BY TheOther, FederationAssumption
<1>9. CASE n = 0
  <2>1. c = <<>>
    BY <1>1, <1>9
  <2>2. a.state = "proposed"
    BY <2>1, FirstIsProposed
  <2>3. Len(e) = 1 /\ e[1] = a
    BY <1>3, <1>9
  <2>4. Shaped(e)
    BY <2>2, <2>3 DEF Shaped
  <2>5. QED
    BY <1>2, <1>4, <2>4 DEF Honest
<1>10. CASE n = 1
  <2>1. Accepts(theEdge, lineage, now, Proposed(c[1]), a)
    BY <1>7, <1>10 DEF ContextAfter
  <2>2. a.state = "confirmed"
    BY <2>1, Judgement DEF Proposed
  <2>3. Len(e) = 2 /\ e[1] = c[1] /\ e[2] = a
    BY <1>3, <1>10
  <2>4. Shaped(e)
    BY <1>6, <1>10, <2>2, <2>3 DEF Shaped
  <2>5. QED
    BY <1>2, <1>4, <2>4 DEF Honest
<1>11. CASE n = 2
  <2>1. PICK p, k : p = c[1] /\ k = c[2]
    OBVIOUS
  <2>2. /\ p \in Assertion /\ Genuine(p) /\ p.state = "proposed"
        /\ k \in Assertion /\ Genuine(k) /\ k.state = "confirmed"
    BY <1>5, <1>6, <1>11, <2>1
  <2>3. p.by = owner /\ k.by = creditor
    BY <2>2, GenuineStates
  <2>4. PICK latest : latest = Confirmed(p, k).latest_by_signer
    OBVIOUS
  <2>5. Confirmed(p, k) = Context("open", Null, {}, latest, Null)
    BY <2>4 DEF Confirmed, Context
  <2>6. latest[owner] = p.asserted_at /\ latest[creditor] = k.asserted_at
    BY <1>8, <2>3, <2>4 DEF Confirmed, Proposed, Context, DatedAfter
  <2>7. Accepts(theEdge, lineage, now, Context("open", Null, {}, latest, Null), a)
    BY <1>7, <1>11, <2>1, <2>5 DEF ContextAfter
  <2>8. FirstExit(p, k, a)
    <3>1. /\ a.asserted_at >= latest[a.by] /\ a.state \in UNILATERAL_EXITS
          /\ a.state = "closed" => a.evidence
          /\ a.state = "expired" => Due # Null /\ a.asserted_at >= Due
      BY <2>7, Judgement
    <3>2. a.by = owner \/ a.by = creditor
      BY DEF Genuine, Node
    <3>3. QED
      BY <1>8, <2>6, <3>1, <3>2 DEF FirstExit
  <2>9. Len(e) = 3 /\ e[1] = p /\ e[2] = k /\ e[3] = a
    BY <1>3, <1>11, <2>1
  <2>10. Shaped(e)
    BY <2>2, <2>8, <2>9 DEF Shaped
  <2>11. QED
    BY <1>2, <1>4, <2>10 DEF Honest
<1>12. CASE n = 3
  <2>1. PICK p, k, x : p = c[1] /\ k = c[2] /\ x = c[3]
    OBVIOUS
  <2>2. x \in Assertion /\ Genuine(x) /\ FirstExit(p, k, x)
    BY <1>5, <1>6, <1>12, <2>1
  <2>3. PICK d : d = Exited(p, k, x)
    OBVIOUS
  <2>4. Accepts(theEdge, lineage, now, d, a)
    BY <1>7, <1>12, <2>1, <2>3 DEF ContextAfter
  <2>5. /\ d.state = (IF x.state = "closed" THEN "pending-acceptance" ELSE x.state)
        /\ d.window_opened_at = (IF x.state = "closed" THEN x.asserted_at ELSE Null)
        /\ d.exit = {[state |-> x.state, by |-> x.by, at |-> x.asserted_at]}
    BY <2>3 DEF Exited, Context
  <2>6. a.state \in UNILATERAL_EXITS /\ a # x
    <3>1. CASE Contests(d, a)
      <4>1. a.state \in UNILATERAL_EXITS /\ x.state # a.state
        BY <2>5, <3>1 DEF Contests
      <4>2. QED
        BY <4>1
    <3>2. CASE ~Contests(d, a)
      <4>1. d.state \notin TERMINAL_STATES /\ d.state = "pending-acceptance"
        BY <2>2, <2>4, <2>5, <3>2 DEF Accepts, FirstExit, UNILATERAL_EXITS, TERMINAL_STATES
      <4>2. x.state = "closed"
        BY <2>2, <2>5, <4>1 DEF FirstExit, UNILATERAL_EXITS
      <4>3. LegalByTable(theEdge, lineage, now, d, a)
        BY <2>4, <3>2, <4>1 DEF Accepts
      <4>4. a.state = "closed"
        BY <4>1, <4>3, GenuineStates DEF LegalByTable, LegalExpired, UNILATERAL_EXITS
      <4>5. LegalClosed(theEdge, lineage, d, a)
        BY <4>3, <4>4 DEF LegalByTable
      <4>6. a.by # creditor
        BY <1>8, <4>4, GenuineStates
      <4>7. WindowElapsed(d.window_opened_at, theEdge.acceptance_window, a.asserted_at)
        BY <4>1, <4>5, <4>6, TheEdge DEF LegalClosed
      <4>8. a.asserted_at >= x.asserted_at + Window /\ Window >= 1
        BY <2>5, <4>2, <4>7, FederationAssumption DEF WindowElapsed, theEdge
      <4>9. a.asserted_at # x.asserted_at
        BY <2>2, <4>8, FederationAssumption DEF Assertion, Time
      <4>10. QED
        BY <4>4, <4>9 DEF UNILATERAL_EXITS
    <3>3. QED
      BY <3>1, <3>2
  <2>7. Len(e) = 4 /\ e[1] = p /\ e[2] = k /\ e[3] = x /\ e[4] = a
    BY <1>3, <1>12, <2>1
  <2>8. Shaped(e)
    BY <1>6, <1>12, <2>1, <2>6, <2>7 DEF Shaped
  <2>9. QED
    BY <1>2, <1>4, <2>8 DEF Honest
<1>13. CASE n >= 4
  <2>1. Len(e) >= 4 /\ e[1] = c[1] /\ e[2] = c[2] /\ e[3] = c[3] /\ e[4] = c[4]
    BY <1>3, <1>13
  <2>2. Shaped(e)
    BY <1>6, <1>13, <2>1 DEF Shaped
  <2>3. QED
    BY <1>2, <1>4, <2>2 DEF Honest
<1>14. QED
  BY <1>9, <1>10, <1>11, <1>12, <1>13

-----------------------------------------------------------------------------
(* The second invariant: nothing is in a chain or on the wire that its     *)
(* signer does not hold, and every chain is one of honest nodes.           *)

Kept(a) == Genuine(a) /\ a \in Range(chain[a.by])

Brought(m) ==
  /\ m.type = "assert" => Kept(m.assertion)
  /\ m.type = "recon_response" => \A a \in Range(m.assertions) : Kept(a)

OriginInv ==
  /\ \A n \in Node : Shaped(chain[n]) /\ \A a \in Range(chain[n]) : Kept(a)
  /\ \A m \in net : Brought(m)

(* A chain is honest.                                                      *)
LEMMA HonestChain ==
  ASSUME OriginInv, NEW n \in Node
  PROVE  Honest(chain[n])
BY DEF OriginInv, Honest, Kept

(* Time passes, chains grow, and what was kept is.                         *)
LEMMA KeptStays ==
  ASSUME TypeOK, now' \in Nat, now <= now',
         \A n \in Node : Range(chain[n]) \subseteq Range(chain'[n]),
         NEW a \in Assertion, Kept(a)
  PROVE  Kept(a)'
<1>1. now \in Nat /\ a.asserted_at \in Nat
  BY DEF TypeOK, Assertion, Time
<1>2. Genuine(a)'
  BY <1>1 DEF Genuine, Kept
<1>3. QED
  BY <1>2 DEF Kept, Genuine

(* What the courier holds carries assertions.                              *)
LEMMA CarriedType ==
  ASSUME TypeOK, NEW m \in net
  PROVE  /\ m.type = "assert" => m.assertion \in Assertion
         /\ m.type = "recon_response" => /\ m.assertions \in Seq(Assertion)
                                         /\ Range(m.assertions) \subseteq Assertion
<1>1. m \in Message
  BY DEF TypeOK
<1>2. m.type = "assert" => m.assertion \in Assertion
  BY <1>1 DEF Message
<1>3. m.type = "recon_response" => m.assertions \in Seq(Assertion)
  BY <1>1 DEF Message
<1>4. QED
  BY <1>2, <1>3, RangeType

(* A node's chain continued with what is kept or its own.                  *)
LEMMA OriginChain ==
  ASSUME FederationInv, OriginInv, NEW n \in Node, NEW r \in Seq(Assertion), Honest(r),
         Range(chain[n]) \subseteq Range(r),
         \A a \in Range(r) : a.by = n \/ Kept(a),
         chain' = [chain EXCEPT ![n] = r], UNCHANGED <<net, now>>
  PROVE  OriginInv'
<1>1. TypeOK /\ now \in Nat /\ chain \in [Node -> Seq(Assertion)]
  BY DEF FederationInv, TypeOK
<1>2. chain'[n] = r /\ \A m \in Node : m # n => chain'[m] = chain[m]
  BY <1>1
<1>3. \A m \in Node : Range(chain[m]) \subseteq Range(chain'[m])
  BY <1>2
<1>4. ASSUME NEW a \in Assertion, Kept(a) PROVE Kept(a)'
  BY <1>1, <1>3, <1>4, KeptStays
<1>5. ASSUME NEW m \in Node PROVE Shaped(chain[m])' /\ \A a \in Range(chain'[m]) : Kept(a)'
  <2>1. CASE m = n
    <3>1. ASSUME NEW a \in Range(r) PROVE Kept(a)'
      <4>1. a \in Assertion
        BY RangeType
      <4>2. CASE a.by = n
        <5>1. Genuine(a)
          BY DEF Honest
        <5>2. Genuine(a)'
          BY <5>1 DEF Genuine
        <5>3. QED
          BY <1>2, <4>2, <5>2 DEF Kept
      <4>3. QED
        BY <1>4, <4>1, <4>2
    <3>2. QED
      BY <1>2, <2>1, <3>1 DEF Honest
  <2>2. CASE m # n
    <3>1. Range(chain[m]) \subseteq Assertion
      BY <1>1, RangeType
    <3>2. QED
      BY <1>2, <1>4, <2>2, <3>1 DEF OriginInv
  <2>3. QED
    BY <2>1, <2>2
<1>6. ASSUME NEW m \in net PROVE Brought(m)'
  <2>1. Brought(m)
    BY DEF OriginInv
  <2>2. QED
    BY <1>1, <1>4, <2>1, CarriedType DEF Brought
<1>7. QED
  BY <1>5, <1>6 DEF OriginInv

(* A step that leaves the chains, with messages made of them.              *)
LEMMA OriginWire ==
  ASSUME FederationInv, OriginInv, UNCHANGED chain, now' \in Nat, now <= now',
         \A m \in net' : m \in net \/ Brought(m)
  PROVE  OriginInv'
<1>1. TypeOK /\ now \in Nat /\ chain \in [Node -> Seq(Assertion)]
  BY DEF FederationInv, TypeOK
<1>2. ASSUME NEW a, Kept(a) PROVE Kept(a)'
  <2>1. a \in Assertion
    <3>1. a.by \in Node /\ a \in Range(chain[a.by])
      BY <1>2 DEF Kept, Genuine
    <3>2. QED
      BY <1>1, <3>1, RangeType
  <2>2. QED
    BY <1>1, <1>2, <2>1, KeptStays
<1>3. ASSUME NEW m, Brought(m) PROVE Brought(m)'
  BY <1>2, <1>3 DEF Brought
<1>4. \A m \in net' : Brought(m)'
  BY <1>3 DEF OriginInv
<1>5. \A n \in Node : Shaped(chain[n])' /\ \A a \in Range(chain'[n]) : Kept(a)'
  BY <1>2 DEF OriginInv
<1>6. QED
  BY <1>4, <1>5 DEF OriginInv

(* confirm and act.                                                        *)
LEMMA OriginRecord ==
  ASSUME FederationInv, OriginInv, NEW n \in Node, NEW s \in WireAssertionState,
         NEW v \in BOOLEAN, Record(n, Signed(n, s, v)),
         \/ s = "closed" /\ n = owner
         \/ s \in {"confirmed", "released"} /\ n = creditor
         \/ s = "expired"
  PROVE  OriginInv'
<1>1. PICK a : a = Signed(n, s, v)
  OBVIOUS
<1>2. /\ TypeOK /\ chain[n] \in Seq(Assertion) /\ now \in Nat
      /\ a \in Assertion /\ a.state = s
  BY <1>1, SignedType DEF FederationInv, TypeOK
<1>3. a.by = n /\ Genuine(a)
  BY <1>1, <1>2 DEF Signed, Genuine
<1>4. /\ TakenAfter(chain[n], a)
      /\ chain' = [chain EXCEPT ![n] = Append(chain[n], a)] /\ UNCHANGED <<net, now>>
  BY <1>1 DEF Record
<1>5. PICK r : r = Append(chain[n], a)
  OBVIOUS
<1>6. r \in Seq(Assertion) /\ Range(r) = Range(chain[n]) \cup {a}
  BY <1>2, <1>5, RangeWith
<1>7. Honest(r)
  BY <1>2, <1>3, <1>4, <1>5, HonestChain, ShapedWith
<1>8. \A b \in Range(r) : b.by = n \/ Kept(b)
  BY <1>3, <1>6 DEF OriginInv
<1>9. QED
  BY <1>4, <1>5, <1>6, <1>7, <1>8, OriginChain

(* An assertion off the wire.                                              *)
LEMMA OriginAssert ==
  ASSUME FederationInv, OriginInv, NEW n \in Node, ReceiveAssert(n)
  PROVE  OriginInv'
<1>1. PICK m \in net :
        /\ m.type = "assert"
        /\ chain' = [chain EXCEPT ![n] = IngestAssert(n, m.assertion)]
        /\ UNCHANGED <<net, now>>
  BY DEF ReceiveAssert
<1>2. PICK a : a = m.assertion
  OBVIOUS
<1>3. TypeOK /\ chain[n] \in Seq(Assertion) /\ now \in Nat /\ a \in Assertion
  BY <1>1, <1>2, CarriedType DEF FederationInv, TypeOK
<1>4. Kept(a)
  BY <1>1, <1>2 DEF OriginInv, Brought
<1>5. PICK r : r = IngestAssert(n, a)
  OBVIOUS
<1>6. r \in Seq(Assertion) /\ Honest(r) /\ Range(chain[n]) \subseteq Range(r)
      /\ Range(r) \subseteq Range(chain[n]) \cup {a}
  <2>1. CASE n \in holds /\ a \notin Range(chain[n]) /\ TakenAfter(chain[n], a)
    <3>1. r = Append(chain[n], a)
      BY <1>5, <2>1 DEF IngestAssert
    <3>2. r \in Seq(Assertion) /\ Range(r) = Range(chain[n]) \cup {a}
      BY <1>3, <3>1, RangeWith
    <3>3. Honest(r)
      BY <1>3, <1>4, <2>1, <3>1, HonestChain, ShapedWith DEF Kept
    <3>4. QED
      BY <3>2, <3>3
  <2>2. CASE ~(n \in holds /\ a \notin Range(chain[n]) /\ TakenAfter(chain[n], a))
    <3>1. r = chain[n]
      BY <1>5, <2>2 DEF IngestAssert
    <3>2. QED
      BY <1>3, <3>1, HonestChain
  <2>3. QED
    BY <2>1, <2>2
<1>7. \A b \in Range(r) : b.by = n \/ Kept(b)
  BY <1>4, <1>6 DEF OriginInv
<1>8. chain' = [chain EXCEPT ![n] = r] /\ UNCHANGED <<net, now>>
  BY <1>1, <1>2, <1>5
<1>9. QED
  BY <1>6, <1>7, <1>8, OriginChain

(* A chain off the wire.                                                   *)
LEMMA OriginRecon ==
  ASSUME FederationInv, OriginInv, NEW n \in Node, ReceiveReconResponse(n)
  PROVE  OriginInv'
<1>1. PICK m \in net :
        /\ m.type = "recon_response"
        /\ chain' = [chain EXCEPT ![n] = ApplyReconResponse(chain[n], m.assertions)]
        /\ UNCHANGED <<net, now>>
  BY DEF ReceiveReconResponse
<1>2. PICK s, c : s = m.assertions /\ c = chain[n]
  OBVIOUS
<1>3. TypeOK /\ c \in Seq(Assertion) /\ now \in Nat /\ s \in Seq(Assertion)
      /\ Range(s) \subseteq Assertion
  BY <1>1, <1>2, CarriedType DEF FederationInv, TypeOK
<1>4. \A a \in Range(s) : Kept(a)
  BY <1>1, <1>2 DEF OriginInv, Brought
<1>5. PICK r : r = ApplyReconResponse(c, s)
  OBVIOUS
<1>6. r \in Seq(Assertion) /\ Honest(r)
  <2> DEFINE P == {h \in Seq(Assertion) : Honest(h)}
  <2>1. Closed(P, Range(s))
    <3>1. ASSUME NEW h \in P, NEW a \in Range(s), TakenAfter(h, a)
          PROVE  Append(h, a) \in P
      <4>1. Honest(Append(h, a))
        BY <1>3, <1>4, <3>1, ShapedWith DEF Kept
      <4>2. QED
        BY <1>3, <4>1
    <3>2. QED
      BY <3>1 DEF Closed
  <2>2. c \in P
    BY <1>2, <1>3, HonestChain
  <2>3. r \in P
    <3> HIDE DEF P
    <3>1. Closed(P, Range(s) \ Range(c))
      BY <2>1, ClosedUnderFewer
    <3>2. QED
      BY <1>3, <1>5, <2>2, <3>1, ReconKeeps
  <2>4. QED
    BY <2>3
<1>7. Range(c) \subseteq Range(r) /\ Range(r) \subseteq Range(c) \cup Range(s)
  <2>1. Continues(c, r, Range(s))
    BY <1>3, <1>5, ReconContinues
  <2>2. /\ \A i \in 1..Len(c) : r[i] = c[i] /\ i \in 1..Len(r)
        /\ DOMAIN c = 1..Len(c) /\ DOMAIN r = 1..Len(r)
    BY <1>3, <1>6, <2>1 DEF Continues
  <2>3. \A i \in DOMAIN r : r[i] \in Range(c) \cup Range(s)
    BY <2>1 DEF Continues
  <2>4. Range(c) \subseteq Range(r)
    BY <2>2 DEF Range
  <2>5. Range(r) \subseteq Range(c) \cup Range(s)
    <3>1. ASSUME NEW b \in Range(r) PROVE b \in Range(c) \cup Range(s)
      <4>1. PICK i \in DOMAIN r : b = r[i]
        BY DEF Range
      <4>2. QED
        BY <2>3, <4>1
    <3>2. QED
      BY <3>1
  <2>6. QED
    BY <2>4, <2>5
<1>8. \A b \in Range(r) : b.by = n \/ Kept(b)
  BY <1>2, <1>4, <1>7 DEF OriginInv
<1>9. chain' = [chain EXCEPT ![n] = r] /\ UNCHANGED <<net, now>>
  BY <1>1, <1>2, <1>5
<1>10. QED
  BY <1>2, <1>6, <1>7, <1>8, <1>9, OriginChain

(* The owner's own proposal, off the wire: it is the creditor's first.     *)
LEMMA OriginPropose ==
  ASSUME FederationInv, OriginInv, ReceivePropose
  PROVE  OriginInv'
<1>1. PICK m \in net :
        /\ m.type = "propose"
        /\ chain' = [chain EXCEPT ![creditor] =
                       IF m.assertion \in Range(chain[creditor]) THEN chain[creditor]
                       ELSE Append(chain[creditor], m.assertion)]
        /\ UNCHANGED <<net, now>>
  BY DEF ReceivePropose
<1>2. PICK a, c : a = m.assertion /\ c = chain[creditor]
  OBVIOUS
<1>3. /\ owner \in Node /\ creditor \in Node /\ now \in Nat
      /\ c \in Seq(Assertion) /\ chain[owner] \in Seq(Assertion)
  BY <1>2, TheOther DEF FederationInv, TypeOK
<1>4. /\ chain[owner] # <<>> /\ a = chain[owner][1]
      /\ c # <<>> => chain[owner][1] \in Range(c)
  BY <1>1, <1>2 DEF FederationInv, Chains, Wire, Carries
<1>5. a \in Assertion /\ a \in Range(chain[owner])
  BY <1>3, <1>4, RangeType
<1>6. Kept(a) /\ a.state = "proposed"
  <2>1. Len(chain[owner]) >= 1
    BY <1>3, <1>4
  <2>2. QED
    BY <1>3, <1>4, <1>5, <2>1 DEF OriginInv, Shaped
<1>7. PICK r : r = IF a \in Range(c) THEN c ELSE Append(c, a)
  OBVIOUS
<1>8. r \in Seq(Assertion) /\ Honest(r) /\ Range(c) \subseteq Range(r)
      /\ Range(r) \subseteq Range(c) \cup {a}
  <2>1. CASE a \in Range(c)
    BY <1>2, <1>3, <1>7, <2>1, HonestChain
  <2>2. CASE a \notin Range(c)
    <3>1. c = <<>> /\ r = <<a>>
      <4>1. c = <<>> /\ r = Append(c, a)
        BY <1>4, <1>7, <2>2
      <4>2. Append(<<>>, a) = <<a>>
        BY <1>5
      <4>3. QED
        BY <4>1, <4>2
    <3>2. r \in Seq(Assertion) /\ Range(r) = {a} /\ Len(r) = 1 /\ r[1] = a
      BY <1>5, <3>1 DEF Range
    <3>3. Honest(r)
      BY <1>6, <3>2 DEF Honest, Shaped, Kept
    <3>4. Range(c) = {}
      BY <3>1 DEF Range
    <3>5. QED
      BY <3>2, <3>3, <3>4
  <2>3. QED
    BY <2>1, <2>2
<1>9. \A b \in Range(r) : b.by = creditor \/ Kept(b)
  BY <1>2, <1>3, <1>6, <1>8 DEF OriginInv
<1>10. chain' = [chain EXCEPT ![creditor] = r] /\ UNCHANGED <<net, now>>
  BY <1>1, <1>2, <1>7
<1>11. QED
  BY <1>2, <1>3, <1>8, <1>9, <1>10, OriginChain

(* commit signs the proposal.                                              *)
LEMMA OriginCommit ==
  ASSUME FederationInv, OriginInv, CommitAssertion
  PROVE  OriginInv'
<1>1. PICK a : a = Signed(owner, "proposed", FALSE)
  OBVIOUS
<1>2. owner \in Node /\ now \in Nat /\ chain[owner] = <<>> /\ TypeOK
  BY TheOther DEF FederationInv, TypeOK, Stages, CommitAssertion
<1>3. a \in Assertion /\ a.state = "proposed"
  BY <1>1, <1>2, SignedType DEF WireAssertionState
<1>4. a.by = owner /\ Genuine(a)
  BY <1>1, <1>2, <1>3 DEF Signed, Genuine
<1>5. PICK r : r = <<a>>
  OBVIOUS
<1>6. r \in Seq(Assertion) /\ Range(r) = {a} /\ Len(r) = 1 /\ r[1] = a
  BY <1>3, <1>5 DEF Range
<1>7. Honest(r)
  BY <1>3, <1>4, <1>6 DEF Honest, Shaped
<1>8. Range(chain[owner]) = {}
  BY <1>2 DEF Range
<1>9. chain' = [chain EXCEPT ![owner] = r] /\ UNCHANGED <<net, now>>
  BY <1>1, <1>2, <1>5 DEF CommitAssertion
<1>10. QED
  BY <1>2, <1>4, <1>6, <1>7, <1>8, <1>9, OriginChain

(* push and the reconciliation round carry what the sender's chain holds.  *)
LEMMA OriginPosts ==
  ASSUME FederationInv, OriginInv, NEW n \in Node,
         Push(n) \/ RequestRecon(n) \/ AnswerRecon(n)
  PROVE  OriginInv'
<1>1. now \in Nat
  BY DEF FederationInv, TypeOK
<1>2. \A a \in Range(chain[n]) : Kept(a)
  BY DEF OriginInv
<1>3. CASE Push(n)
  <2>1. PICK handed \in {FALSE, ProposeDue(n)} :
          \E taken \in SUBSET AssertionsDue(n, handed) : PushOf(n, handed, taken)
    BY <1>3 DEF Push
  <2>2. PICK taken \in SUBSET AssertionsDue(n, handed) : PushOf(n, handed, taken)
    BY <2>1
  <2>3. PICK kept \in SUBSET net :
          net' = kept \cup ({AssertMessage(n, a) : a \in taken}
                              \cup (IF handed THEN {ProposeMessage} ELSE {}))
    BY <2>2 DEF PushOf, Post
  <2>4. taken \subseteq Range(chain[n])
    BY DEF AssertionsDue
  <2>5. \A a \in taken : Brought(AssertMessage(n, a))
    BY <1>2, <2>4 DEF Brought, AssertMessage
  <2>6. Brought(ProposeMessage)
    BY DEF Brought, ProposeMessage
  <2>7. \A m \in net' : m \in net \/ Brought(m)
    BY <2>3, <2>5, <2>6
  <2>8. UNCHANGED <<chain, now>>
    BY <2>2 DEF PushOf
  <2>9. QED
    BY <1>1, <2>7, <2>8, OriginWire
<1>4. CASE RequestRecon(n)
  <2>1. Brought(BuildReconRequest(n))
    BY DEF Brought, BuildReconRequest
  <2>2. \A m \in net' : m \in net \/ Brought(m)
    BY <1>4, <2>1 DEF RequestRecon, Post
  <2>3. UNCHANGED <<chain, now>>
    BY <1>4 DEF RequestRecon, vault
  <2>4. QED
    BY <1>1, <2>2, <2>3, OriginWire
<1>5. CASE AnswerRecon(n)
  <2>1. PICK q \in net : \E m \in AnswerReconRequest(n, q) : Post({m})
    BY <1>5 DEF AnswerRecon
  <2>2. PICK m \in AnswerReconRequest(n, q) : Post({m})
    BY <2>1
  <2>3. m = [type |-> "recon_response", to |-> Other(n), assertions |-> chain[n]]
    BY <2>2 DEF AnswerReconRequest
  <2>4. Brought(m)
    BY <1>2, <2>3 DEF Brought
  <2>5. \A x \in net' : x \in net \/ Brought(x)
    BY <2>2, <2>4 DEF Post
  <2>6. UNCHANGED <<chain, now>>
    BY <1>5 DEF AnswerRecon, vault
  <2>7. QED
    BY <1>1, <2>5, <2>6, OriginWire
<1>6. QED
  BY <1>3, <1>4, <1>5

(* Every step keeps the second invariant.                                  *)
LEMMA OriginStep ==
  ASSUME FederationInv, OriginInv, Next
  PROVE  OriginInv'
<1>1. owner \in Node /\ creditor \in Node /\ now \in Nat
  BY TheOther DEF FederationInv, TypeOK
<1>2. CASE \/ CommitEdge \/ QueuePropose \/ CrashInCommit \/ CrashInReceivePropose
           \/ Lose \/ Tick \/ \E n \in Node : Restart(n)
  <2>1. chain' = chain /\ net' \subseteq net /\ now' \in Nat /\ now <= now'
    BY <1>1, <1>2 DEF CommitEdge, QueuePropose, CrashInCommit, CrashInReceivePropose,
                      Lose, Tick, Restart, vault
  <2>2. QED
    BY <2>1, OriginWire
<1>3. CASE CommitAssertion
  BY <1>3, OriginCommit
<1>4. CASE ReceivePropose
  BY <1>4, OriginPropose
<1>5. CASE Confirm
  BY <1>1, <1>5, OriginRecord DEF Confirm, WireAssertionState
<1>6. CASE ReleaseIt
  BY <1>1, <1>6, OriginRecord DEF ReleaseIt, WireAssertionState
<1>7. ASSUME NEW evidence \in BOOLEAN, Done(evidence) PROVE OriginInv'
  BY <1>1, <1>7, OriginRecord DEF Done, WireAssertionState
<1>8. ASSUME NEW n \in Node,
             \/ ExpireIt(n) \/ Push(n) \/ ReceiveAssert(n)
             \/ RequestRecon(n) \/ AnswerRecon(n) \/ ReceiveReconResponse(n)
      PROVE  OriginInv'
  <2>1. CASE ExpireIt(n)
    BY <2>1, OriginRecord DEF ExpireIt, WireAssertionState
  <2>2. CASE Push(n) \/ RequestRecon(n) \/ AnswerRecon(n)
    BY <2>2, OriginPosts
  <2>3. CASE ReceiveAssert(n)
    BY <2>3, OriginAssert
  <2>4. CASE ReceiveReconResponse(n)
    BY <2>4, OriginRecon
  <2>5. QED
    BY <1>8, <2>1, <2>2, <2>3, <2>4
<1>9. QED
  BY <1>2, <1>3, <1>4, <1>5, <1>6, <1>7, <1>8 DEF Next, InProcess, Commit

LEMMA OriginInvHolds == Spec => [](FederationInv /\ OriginInv)
<1>1. Init => FederationInv /\ OriginInv
  <2> SUFFICES ASSUME Init PROVE OriginInv
    BY FederationInit
  <2>1. \A n \in Node : chain[n] = <<>>
    BY DEF Init
  <2>2. net = {} /\ Range(<<>>) = {} /\ Len(<<>>) = 0
    BY DEF Init, Range
  <2>3. QED
    BY <2>1, <2>2 DEF OriginInv, Shaped
<1>2. FederationInv /\ OriginInv /\ [Next]_vars => (FederationInv /\ OriginInv)'
  <2> SUFFICES ASSUME FederationInv, OriginInv, [Next]_vars
               PROVE  FederationInv' /\ OriginInv'
    OBVIOUS
  <2>1. CASE Next
    BY <2>1, FederationStep, OriginStep
  <2>2. CASE UNCHANGED vars
    <3>1. UNCHANGED <<chain, net, now>> /\ now \in Nat
      BY <2>2 DEF vars, FederationInv, TypeOK
    <3>2. OriginInv'
      BY <3>1, OriginWire
    <3>3. QED
      BY <2>2, <3>2, FederationStutter
  <2>3. QED
    BY <2>1, <2>2
<1>3. QED
  BY <1>1, <1>2, PTL DEF Spec

-----------------------------------------------------------------------------
(* Agreement.                                                              *)

(* The exits taken are finitely many.                                      *)
LEMMA ExitsAreFinite ==
  ASSUME FederationInv
  PROVE  IsFiniteSet(Exits)
<1>1. chain[owner] \in Seq(Assertion) /\ chain[creditor] \in Seq(Assertion)
  BY TheOther DEF FederationInv, TypeOK
<1>2. ASSUME NEW c \in Seq(Assertion) PROVE IsFiniteSet(Range(c))
  <2>1. PICK N \in Nat : N = Len(c) /\ DOMAIN c = 1..N
    OBVIOUS
  <2>2. IsFiniteSet(1..N)
    BY <2>1, FS_Interval
  <2>3. c \in Surjection(1..N, Range(c))
    BY <2>1 DEF Range, Surjection
  <2>4. QED
    BY <2>2, <2>3, FS_Surjection
<1>3. IsFiniteSet(Range(chain[owner]) \cup Range(chain[creditor]))
  BY <1>1, <1>2, FS_Union
<1>4. Exits \subseteq Range(chain[owner]) \cup Range(chain[creditor])
  BY DEF Exits
<1>5. QED
  BY <1>3, <1>4, FS_Subset

(* Where one has been taken at most, any two are one.                      *)
LEMMA OneExit ==
  ASSUME FederationInv, Cardinality(Exits) <= 1, NEW x \in Exits, NEW y \in Exits
  PROVE  x = y
<1>1. SUFFICES ASSUME x # y PROVE FALSE
  OBVIOUS
<1>2. PICK S, T : S = {x} /\ T = S \cup {y}
  OBVIOUS
<1>3. IsFiniteSet(S) /\ Cardinality(S) = 1 /\ y \notin S
  BY <1>1, <1>2, FS_Singleton
<1>4. Cardinality(T) = 2
  BY <1>2, <1>3, FS_AddElement
<1>5. T \in SUBSET Exits
  BY <1>2
<1>6. Cardinality(T) <= Cardinality(Exits) /\ Cardinality(Exits) \in Nat
  BY <1>5, ExitsAreFinite, FS_Subset, FS_CardinalityType
<1>7. QED
  BY <1>4, <1>6

(* So no chain is longer than three.                                       *)
LEMMA ShortChains ==
  ASSUME FederationInv, OriginInv, Cardinality(Exits) <= 1, NEW n \in Node
  PROVE  /\ Len(chain[n]) <= 3
         /\ Len(chain[n]) = 3 => chain[n][3] \in Exits
<1>1. PICK c \in Seq(Assertion) : c = chain[n]
  BY DEF FederationInv, TypeOK
<1>2. PICK N \in Nat : N = Len(c) /\ DOMAIN c = 1..N
  OBVIOUS
<1>3. \A i \in 1..N : c[i].state \in UNILATERAL_EXITS => c[i] \in Exits
  BY <1>1, <1>2 DEF Exits, Range, Node
<1>4. Shaped(c)
  BY <1>1 DEF OriginInv
<1>5. N >= 3 => c[3] \in Exits
  BY <1>2, <1>3, <1>4 DEF Shaped, FirstExit
<1>6. N >= 4 => c[4] \in Exits /\ c[4] # c[3]
  BY <1>2, <1>3, <1>4 DEF Shaped
<1>7. N <= 3
  BY <1>5, <1>6, OneExit
<1>8. QED
  BY <1>1, <1>2, <1>5, <1>7

(* A response that goes further gives something.                           *)
LEMMA GoesFurther ==
  ASSUME now \in 0..MaxNow, NEW c \in Seq(Assertion), NEW d \in Seq(Assertion),
         Honest(c), Honest(d), c # <<>>, Len(c) < Len(d), Len(d) <= 3,
         \A i \in 1..Len(c) : c[i] = d[i]
  PROVE  ApplyReconResponse(c, d) # c
<1>1. PICK n \in Nat, N \in Nat : n = Len(c) /\ DOMAIN c = 1..n /\ N = Len(d) /\ DOMAIN d = 1..N
  OBVIOUS
<1>2. /\ n = 1 \/ n = 2
      /\ n < N /\ N <= 3
  BY <1>1
<1>3. now \in Nat
  BY FederationAssumption
<1>4. PICK b : b = d[n + 1]
  OBVIOUS
<1>5. n + 1 \in 1..N /\ b \in Range(d) /\ b \in Assertion
  BY <1>1, <1>2, <1>4 DEF Range
<1>6. Genuine(b) /\ \A i \in 1..n : c[i] \in Assertion /\ Genuine(c[i])
  BY <1>1, <1>5 DEF Honest, Range
<1>7. b.asserted_at \in 0..MaxNow
  BY <1>3, <1>5, <1>6, FederationAssumption DEF Genuine, Assertion, Time
<1>8. /\ c[1].state = "proposed"
      /\ n = 2 => c[2].state = "confirmed"
      /\ n = 1 => b.state = "confirmed"
      /\ n = 2 => FirstExit(c[1], c[2], b)
  <2>1. c[1] = d[1] /\ (n = 2 => c[2] = d[2])
    BY <1>1, <1>2
  <2>2. QED
    BY <1>1, <1>2, <1>4, <2>1 DEF Honest, Shaped
<1>9. b \notin Range(c)
  <2>1. n = 2 => b.state \in UNILATERAL_EXITS
    BY <1>8 DEF FirstExit
  <2>2. \A i \in 1..n : i = 1 \/ (n = 2 /\ i = 2)
    BY <1>2
  <2>3. \A i \in 1..n : c[i].state # b.state
    BY <1>2, <1>8, <2>1, <2>2 DEF UNILATERAL_EXITS
  <2>4. QED
    BY <1>1, <2>3 DEF Range
<1>10. VerifyAssertionChain(theEdge, lineage, now, c) = ContextAfter(c, n)
  BY <1>1, <1>2, <1>3, ShortReplay
<1>11. /\ owner \in Key /\ creditor \in Key /\ owner # creditor
  BY TheOther, FederationAssumption
<1>12. PICK p : p = c[1]
  OBVIOUS
<1>13. /\ p \in Assertion /\ Genuine(p) /\ p.state = "proposed" /\ p.by = owner
       /\ p.asserted_at \in Nat
  <2>1. 1 \in 1..n
    BY <1>2
  <2>2. p \in Assertion /\ Genuine(p) /\ p.state = "proposed"
    BY <1>6, <1>8, <1>12, <2>1
  <2>3. QED
    BY <2>2, GenuineStates DEF Assertion, Time
<1>14. TakenAfter(c, b)
  <2>1. CASE n = 1
    <3>1. PICK latest : latest = DatedAfter([k \in Key |-> Null], p)
      OBVIOUS
    <3>2. ContextAfter(c, n) = Context("proposed", Null, {}, latest, Null)
      BY <1>12, <2>1, <3>1 DEF ContextAfter, Proposed
    <3>3. b.by = creditor /\ latest[creditor] = Null
      BY <1>6, <1>8, <1>11, <1>13, <2>1, <3>1, GenuineStates DEF DatedAfter
    <3>4. b.asserted_at >= latest[b.by]
      BY <1>7, <3>3 DEF Null
    <3>5. Accepts(theEdge, lineage, now, Context("proposed", Null, {}, latest, Null), b)
      BY <1>3, <1>5, <1>6, <1>8, <2>1, <3>4, Judgement
    <3>6. QED
      BY <1>10, <3>2, <3>5 DEF TakenAfter
  <2>2. CASE n = 2
    <3>1. PICK k : k = c[2]
      OBVIOUS
    <3>2. PICK latest : latest = Confirmed(p, k).latest_by_signer
      OBVIOUS
    <3>3. Confirmed(p, k) = Context("open", Null, {}, latest, Null)
      BY <3>2 DEF Confirmed, Context
    <3>4. k.by = creditor
      BY <1>6, <1>8, <2>2, <3>1, GenuineStates
    <3>5. latest[owner] = p.asserted_at /\ latest[creditor] = k.asserted_at
      BY <1>11, <1>13, <3>2, <3>4 DEF Confirmed, Proposed, Context, DatedAfter
    <3>6. FirstExit(p, k, b) /\ (b.by = owner \/ b.by = creditor)
      BY <1>6, <1>8, <1>12, <2>2, <3>1 DEF Genuine, Node
    <3>7. b.asserted_at >= latest[b.by]
      BY <1>11, <3>5, <3>6 DEF FirstExit
    <3>8. Accepts(theEdge, lineage, now, Context("open", Null, {}, latest, Null), b)
      BY <1>3, <1>5, <1>6, <3>6, <3>7, Judgement DEF FirstExit
    <3>9. ContextAfter(c, n) = Context("open", Null, {}, latest, Null)
      BY <1>12, <2>2, <3>1, <3>3 DEF ContextAfter
    <3>10. QED
      BY <1>10, <3>8, <3>9 DEF TakenAfter
  <2>3. QED
    BY <1>2, <2>1, <2>2
<1>15. QED
  BY <1>5, <1>7, <1>9, <1>14, ReconTakes

(* Two settled nodes that saw one exit at most hold the same chain.        *)
LEMMA SettledAreEqual ==
  ASSUME FederationInv, OriginInv, Cardinality(Exits) <= 1, Settled
  PROVE  chain[owner] = chain[creditor]
<1>1. /\ owner \in Node /\ creditor \in Node
      /\ Other(owner) = creditor /\ Other(creditor) = owner
  BY TheOther
<1>2. PICK c \in Seq(Assertion), d \in Seq(Assertion) : c = chain[owner] /\ d = chain[creditor]
  BY <1>1 DEF FederationInv, TypeOK
<1>3. /\ c # <<>> /\ d # <<>> /\ Honest(c) /\ Honest(d)
      /\ ApplyReconResponse(c, d) = c /\ ApplyReconResponse(d, c) = d
  BY <1>1, <1>2, HonestChain DEF Settled
<1>4. PICK n \in 1..3, N \in 1..3 :
        n = Len(c) /\ DOMAIN c = 1..n /\ N = Len(d) /\ DOMAIN d = 1..N
  <2>1. PICK n \in Nat, N \in Nat :
          n = Len(c) /\ DOMAIN c = 1..n /\ N = Len(d) /\ DOMAIN d = 1..N
    OBVIOUS
  <2>2. n <= 3 /\ N <= 3
    BY <1>1, <1>2, <2>1, ShortChains
  <2>3. n # 0 /\ N # 0
    BY <1>3, <2>1
  <2>4. n \in 1..3 /\ N \in 1..3
    BY <2>2, <2>3
  <2>5. QED
    BY <2>1, <2>4
<1>5. /\ c[1].state = "proposed" /\ d[1].state = "proposed"
      /\ n >= 2 => c[2].state = "confirmed"
      /\ N >= 2 => d[2].state = "confirmed"
      /\ N >= 3 => d[3].state \in UNILATERAL_EXITS
  BY <1>3, <1>4 DEF Honest, Shaped, FirstExit
<1>6. c[1] = d[1]
  <2>1. d[1] \in Range(d)
    BY <1>4 DEF Range
  <2>2. TheProposal(d[1])
    BY <1>1, <1>2, <2>1 DEF FederationInv, Chains
  <2>3. QED
    BY <1>2, <1>5, <2>2 DEF TheProposal
<1>7. n >= 2 /\ N >= 2 => c[2] = d[2]
  <2>1. SUFFICES ASSUME n >= 2, N >= 2 PROVE c[2] = d[2]
    OBVIOUS
  <2>2. PICK k : k = c[2]
    OBVIOUS
  <2>3. k \in Range(c) /\ k.state = "confirmed"
    BY <1>4, <1>5, <2>1, <2>2 DEF Range
  <2>4. Kept(k)
    BY <1>1, <1>2, <2>3 DEF OriginInv
  <2>5. k \in Range(d)
    BY <1>2, <2>3, <2>4, GenuineStates DEF Kept
  <2>6. PICK j \in 1..N : k = d[j]
    BY <1>4, <2>5 DEF Range
  <2>7. j = 1 \/ j = 2 \/ j = 3
    OBVIOUS
  <2>8. j # 1 /\ j # 3
    BY <1>5, <2>3, <2>6 DEF UNILATERAL_EXITS
  <2>9. QED
    BY <2>2, <2>6, <2>7, <2>8
<1>8. n = 3 /\ N = 3 => c[3] = d[3]
  BY <1>1, <1>2, <1>4, ShortChains, OneExit
<1>9. \A i \in 1..3 : i <= n /\ i <= N => c[i] = d[i]
  <2>1. \A i \in 1..3 : i = 1 \/ i = 2 \/ i = 3
    OBVIOUS
  <2>2. QED
    BY <1>6, <1>7, <1>8, <2>1
<1>10. now \in 0..MaxNow
  BY DEF FederationInv, TypeOK
<1>11. ~(n < N)
  <2>1. SUFFICES ASSUME n < N PROVE FALSE
    OBVIOUS
  <2>2. \A i \in 1..n : c[i] = d[i]
    BY <1>9, <2>1
  <2>3. QED
    BY <1>3, <1>4, <1>10, <2>1, <2>2, GoesFurther
<1>12. ~(N < n)
  <2>1. SUFFICES ASSUME N < n PROVE FALSE
    OBVIOUS
  <2>2. \A i \in 1..N : d[i] = c[i]
    BY <1>9, <2>1
  <2>3. QED
    BY <1>3, <1>4, <1>10, <2>1, <2>2, GoesFurther
<1>13. n = N /\ \A i \in 1..n : c[i] = d[i]
  BY <1>9, <1>11, <1>12
<1>14. c = d
  BY <1>4, <1>13
<1>15. QED
  BY <1>2, <1>14

(* With one exit taken at most, two nodes that reconciliation can give     *)
(* nothing more compute the same state, whatever was lost, repeated or     *)
(* reordered and whoever crashed (recon.ts).  Every assertion in a chain   *)
(* or on the wire is in its signer's own chain, and the table takes only   *)
(* a proposal, a confirmation, a first exit and another; so what one node  *)
(* has and the other lacks, the other would take.                          *)
THEOREM SettledRegistersAgree == Spec => []SettledAgree
<1>1. FederationInv /\ OriginInv => SettledAgree
  BY SettledAreEqual DEF SettledAgree, Agree
<1>2. QED
  BY <1>1, OriginInvHolds, PTL

-----------------------------------------------------------------------------
(* Replays of chains of any length.                                        *)

(* The contexts a replay without a clock goes through.                     *)
Trace(c, f) ==
  /\ f[0] = InitChainState
  /\ \A i \in 1..Len(c) : f[i] = Step(theEdge, lineage, Null, f[i - 1], c[i])

(* The clock refuses nothing a party signed.                               *)
LEMMA ClockRefusesNothing ==
  ASSUME now \in Nat, NEW a \in Assertion, Genuine(a), NEW w
  PROVE  /\ Accepts(theEdge, lineage, now, w, a) <=> Accepts(theEdge, lineage, Null, w, a)
         /\ Step(theEdge, lineage, now, w, a) = Step(theEdge, lineage, Null, w, a)
<1>1. NotInTheFuture(now, a) /\ NotInTheFuture(Null, a)
  BY WindowAssumption DEF NotInTheFuture, Genuine, Assertion, Time
<1>2. LegalUnilateralExit(theEdge, lineage, now, a)
        <=> LegalUnilateralExit(theEdge, lineage, Null, a)
  BY <1>1 DEF LegalUnilateralExit
<1>3. LegalFromContested(now, w, a) <=> LegalFromContested(Null, w, a)
  BY <1>1 DEF LegalFromContested
<1>4. LegalExpired(theEdge, lineage, now, w, a) <=> LegalExpired(theEdge, lineage, Null, w, a)
  BY <1>2 DEF LegalExpired
<1>5. LegalByTable(theEdge, lineage, now, w, a) <=> LegalByTable(theEdge, lineage, Null, w, a)
  <2>1. CASE a.state = "expired"
    BY <1>4, <2>1 DEF LegalByTable
  <2>2. CASE a.state # "expired"
    BY <2>2 DEF LegalByTable, Assertion, WireAssertionState
  <2>3. QED
    BY <2>1, <2>2
<1>6. Accepts(theEdge, lineage, now, w, a) <=> Accepts(theEdge, lineage, Null, w, a)
  BY <1>2, <1>3, <1>5 DEF Accepts
<1>7. QED
  BY <1>6 DEF Step

(* So whether with the clock or without, a replay ends where the trace     *)
(* does.                                                                   *)
LEMMA ReplayEnds ==
  ASSUME now \in Nat, NEW c \in Seq(Assertion), \A a \in Range(c) : Genuine(a),
         NEW f, Trace(c, f), NEW clock \in {now, Null}
  PROVE  VerifyAssertionChain(theEdge, lineage, clock, c) = f[Len(c)]
<1>1. PICK N \in Nat : N = Len(c) /\ DOMAIN c = 1..N
  OBVIOUS
<1> DEFINE Rec(g) == [i \in 0..Len(c) |->
             IF i = 0 THEN InitChainState
             ELSE Step(theEdge, lineage, clock, g[i - 1], c[i])]
           after == CHOOSE g : g = Rec(g)
<1>2. \A w : \A i \in 1..N :
        Step(theEdge, lineage, clock, w, c[i]) = Step(theEdge, lineage, Null, w, c[i])
  <2>1. \A i \in 1..N : c[i] \in Assertion /\ Genuine(c[i])
    BY <1>1 DEF Range
  <2>2. QED
    BY <2>1, ClockRefusesNothing
<1>3. \E g : g = Rec(g)
  <2>1. PICK g : g = [i \in 0..N |-> f[i]]
    OBVIOUS
  <2>2. ASSUME NEW i \in 0..N
        PROVE  g[i] = IF i = 0 THEN InitChainState
                      ELSE Step(theEdge, lineage, clock, g[i - 1], c[i])
    <3>1. i # 0 => i \in 1..N /\ g[i - 1] = f[i - 1]
      BY <2>1
    <3>2. g[i] = f[i]
      BY <2>1
    <3>3. QED
      BY <1>1, <1>2, <3>1, <3>2 DEF Trace
  <2>3. g = Rec(g)
    BY <1>1, <2>1, <2>2
  <2>4. QED
    BY <2>3
<1>4. after = Rec(after)
  BY <1>3
<1>5. VerifyAssertionChain(theEdge, lineage, clock, c) = after[Len(c)]
  BY DEF VerifyAssertionChain
<1> HIDE DEF after
<1>6. after[0] = InitChainState /\ \A i \in 1..N :
        after[i] = Step(theEdge, lineage, clock, after[i - 1], c[i])
  <2>1. \A i \in 0..N : after[i] = Rec(after)[i]
    BY <1>1, <1>4
  <2>2. 0 \in 0..N /\ \A i \in 1..N : i \in 0..N /\ i # 0
    BY <1>1
  <2>3. QED
    BY <1>1, <2>1, <2>2
<1> DEFINE ok == {i \in 0..N : after[i] = f[i]}
<1>7. 0 \in ok
  BY <1>6 DEF Trace
<1>8. ASSUME NEW i \in 1..N, i - 1 \in ok PROVE i \in ok
  <2>1. i \in 0..N /\ after[i - 1] = f[i - 1]
    BY <1>8
  <2>2. f[i] = Step(theEdge, lineage, Null, f[i - 1], c[i])
    BY <1>1 DEF Trace
  <2>3. after[i] = Step(theEdge, lineage, clock, f[i - 1], c[i])
    BY <1>6, <2>1
  <2>4. QED
    BY <1>2, <2>1, <2>2, <2>3
<1>9. \A i \in 0..N : i \in ok
  <2> HIDE DEF ok
  <2>1. QED
    BY <1>7, <1>8, ByTurns
<1>10. QED
  BY <1>1, <1>5, <1>9

(* One assertion more is one step more.                                    *)
LEMMA TraceWith ==
  ASSUME NEW c \in Seq(Assertion), NEW a \in Assertion, NEW f, Trace(c, f)
  PROVE  \E g : /\ Trace(Append(c, a), g)
                /\ g[Len(Append(c, a))] = Step(theEdge, lineage, Null, f[Len(c)], a)
<1>1. PICK n \in Nat : n = Len(c)
  OBVIOUS
<1>2. PICK e : e = Append(c, a)
  OBVIOUS
<1>3. Len(e) = n + 1 /\ e[n + 1] = a /\ \A i \in 1..n : e[i] = c[i]
  BY <1>1, <1>2
<1>4. PICK g : g = [i \in 0..(n + 1) |->
                      IF i = n + 1 THEN Step(theEdge, lineage, Null, f[n], a) ELSE f[i]]
  OBVIOUS
<1>5. \A i \in 0..n : g[i] = f[i]
  BY <1>4
<1>6. g[n + 1] = Step(theEdge, lineage, Null, f[n], a)
  BY <1>4
<1>7. Trace(e, g)
  <2>1. g[0] = InitChainState
    BY <1>5 DEF Trace
  <2>2. ASSUME NEW i \in 1..(n + 1)
        PROVE  g[i] = Step(theEdge, lineage, Null, g[i - 1], e[i])
    <3>1. CASE i = n + 1
      <4>1. g[i - 1] = f[n]
        BY <1>5, <3>1
      <4>2. QED
        BY <1>3, <1>6, <3>1, <4>1
    <3>2. CASE i # n + 1
      <4>1. i \in 1..n /\ g[i - 1] = f[i - 1] /\ g[i] = f[i] /\ e[i] = c[i]
        BY <1>3, <1>5, <3>2
      <4>2. QED
        BY <1>1, <4>1 DEF Trace
    <3>3. QED
      BY <3>1, <3>2
  <2>3. QED
    BY <1>3, <2>1, <2>2 DEF Trace
<1>8. QED
  BY <1>1, <1>2, <1>3, <1>6, <1>7

-----------------------------------------------------------------------------
(* What becomes of an edge once a party has left it.                       *)

(* a contests x: another's exit of another kind, dated no later.           *)
Against(x, a) ==
  /\ a.state \in UNILATERAL_EXITS /\ a.by # x.by /\ a.state # x.state
  /\ a.asserted_at <= x.asserted_at

(* The first exit is contested at place j: at once, or after the owner     *)
(* closed what the owner's own close had left to be accepted.              *)
FirstContest(c, j) ==
  /\ j \in 4..Len(c) /\ Against(c[3], c[j])
  /\ j = 4 \/ (j = 5 /\ c[4].state = "closed" /\ c[4].by = c[3].by)

(* a is an expiry of a deadlock that began with y.                         *)
Overdue(y, a) ==
  a.state = "expired" /\ a.asserted_at >= y.asserted_at + DISPUTE_WINDOW

Expired(c, j) == \E q \in (j + 1)..Len(c) : Overdue(c[j], c[q])

(* The exit is contested once more after such an expiry.                   *)
Again(c, j) ==
  \E q \in (j + 1)..Len(c) : \E l \in (q + 1)..Len(c) :
    Overdue(c[j], c[q]) /\ Against(c[3], c[l])

(* Where three or more assertions have led.                                *)
Exit(c, w) ==
  /\ Len(c) = 3
  /\ w.state = (IF c[3].state = "closed" THEN "pending-acceptance" ELSE c[3].state)
  /\ c[3].state = "closed" => w.window_opened_at = c[3].asserted_at

Accepted(c, w) ==
  /\ Len(c) = 4 /\ w.state = "closed"
  /\ c[3].state = "closed" /\ c[4].state = "closed" /\ c[4].by = c[3].by

Contested(c, j, w) ==
  \/ /\ w.state = "contested-closure" /\ w.contested_at = c[j].asserted_at
     /\ \A i \in (j + 1)..Len(c) : c[i].state = "closed"
  \/ w.state = "expired" /\ Expired(c, j)
  \/ w.state \in {"contested-closure", "expired"} /\ Again(c, j)

AfterContest(c, w) ==
  /\ \E j \in 4..Len(c) : FirstContest(c, j) /\ Contested(c, j, w)
  /\ w.state = "contested-closure" =>
       \E h \in 3..Len(c) : c[h].state \in UNILATERAL_EXITS
                            /\ w.contested_at = c[h].asserted_at

ExitOf(x) == {[state |-> x.state, by |-> x.by, at |-> x.asserted_at]}

FullContext(s, opened, exit, closers, contested, latest, resolved) ==
  [state |-> s, window_opened_at |-> opened, superseded_by |-> {},
   dispute_closed_by |-> {}, exit |-> exit, contest_closed_by |-> closers,
   contest_superseded_by |-> {},
   contested_at |-> contested, disputed_at |-> Null,
   latest_by_signer |-> latest, resolved_at |-> resolved]

Left(x, w) ==
  /\ w = FullContext(w.state, w.window_opened_at, ExitOf(x), w.contest_closed_by,
                     w.contested_at, w.latest_by_signer, w.resolved_at)
  /\ w.contest_closed_by \subseteq {owner}
  /\ w.state \in {"pending-acceptance", "closed", "released", "expired",
                  "contested-closure"}

Story(c, w) ==
  IF Len(c) < 3 THEN w = ContextAfter(c, Len(c))
  ELSE Left(c[3], w) /\ (Exit(c, w) \/ Accepted(c, w) \/ AfterContest(c, w))

(* w knows the last date of each signer, and none went back in time.       *)
Dated(c, w) ==
  /\ w.latest_by_signer \in [Key -> TimeOrNull]
  /\ \A i \in 1..Len(c) : c[i].asserted_at <= w.latest_by_signer[c[i].by]
  /\ \A i, j \in 1..Len(c) : i < j /\ c[i].by = c[j].by => c[i].asserted_at <= c[j].asserted_at

Told(c, w) == Dated(c, w) /\ Story(c, w)

(* What n signed is dated no earlier than all n held then ...              *)
OwnLater(c, n) ==
  \A i, j \in 1..Len(c) : i < j /\ c[j].by = n => c[i].asserted_at <= c[j].asserted_at

(* ... and, if it is not n's first exit, after the date of some exit.      *)
ExitsLater(c, n) ==
  \A i, j \in 1..Len(c) :
    /\ i < j /\ c[i].by = n /\ c[j].by = n
    /\ c[i].state \in UNILATERAL_EXITS /\ c[j].state \in UNILATERAL_EXITS
    => \E h \in 1..Len(c) : /\ c[h].state \in UNILATERAL_EXITS
                            /\ c[h].asserted_at < c[j].asserted_at

(* What n took from the other is none of what n held when it last signed.  *)
Fresh(c, n) ==
  \A h, q, l \in 1..Len(c) : h < q /\ q < l /\ c[q].by = n /\ c[l].by # n => c[l] # c[h]

(* The ways on from an edge that x left: a contest, an acceptance, one     *)
(* party's closing of a deadlock, an expiry of it.                         *)
Turn(x, a, w, w2) ==
  \/ /\ w.state # "contested-closure" /\ Against(x, a)
     /\ w2.state = "contested-closure" /\ w2.contested_at = a.asserted_at
  \/ /\ w.state = "pending-acceptance" /\ w2.state = "closed"
     /\ a.state = "closed" /\ a.asserted_at >= w.window_opened_at + Window
  \/ /\ w.state = "contested-closure" /\ w2.state = "contested-closure"
     /\ w2.contested_at = w.contested_at /\ a.state = "closed"
  \/ /\ w.state = "contested-closure" /\ w2.state = "expired"
     /\ a.state = "expired" /\ a.asserted_at >= w.contested_at + DISPUTE_WINDOW

(* Resolving such a context.                                               *)
LEMMA ResolveFull ==
  ASSUME NEW s, NEW opened, NEW exit, NEW closers, NEW contested, NEW latest,
         NEW resolved, NEW w, NEW s2, NEW a,
         w = FullContext(s, opened, exit, closers, contested, latest, resolved)
  PROVE  Resolve(w, s2, a) = FullContext(s2, opened, exit, closers, contested, latest,
                                         a.asserted_at)
<1>1. [w EXCEPT !.state = s2, !.resolved_at = a.asserted_at]
        = [[w EXCEPT !.state = s2] EXCEPT !.resolved_at = a.asserted_at]
  OBVIOUS
<1>2. [w EXCEPT !.state = s2]
        = FullContext(s2, opened, exit, closers, contested, latest, resolved)
  BY DEF FullContext
<1>3. PICK v : v = FullContext(s2, opened, exit, closers, contested, latest, resolved)
  OBVIOUS
<1>4. [v EXCEPT !.resolved_at = a.asserted_at]
        = FullContext(s2, opened, exit, closers, contested, latest, a.asserted_at)
  BY <1>3 DEF FullContext
<1>5. QED
  BY <1>1, <1>2, <1>3, <1>4 DEF Resolve

(* What the table takes once the edge has been left, and what that does.   *)
LEMMA AfterExit ==
  ASSUME NEW x, NEW w, Left(x, w),
         NEW a \in Assertion, Genuine(a), Accepts(theEdge, lineage, Null, w, a),
         NEW w2, w2 = Effect(theEdge, w, a)
  PROVE  /\ a.asserted_at >= w.latest_by_signer[a.by]
         /\ w2.latest_by_signer = DatedAfter(w.latest_by_signer, a)
         /\ Left(x, w2) /\ Turn(x, a, w, w2)
<1> DEFINE States == {"pending-acceptance", "closed", "released", "expired",
                      "contested-closure"}
<1>1. PICK s \in States : s = w.state
  BY DEF Left
<1>2. PICK closers \in SUBSET {owner} : closers = w.contest_closed_by
  BY DEF Left
<1>3. PICK opened, contested, latest, resolved :
        /\ w = FullContext(s, opened, ExitOf(x), closers, contested, latest, resolved)
        /\ w.state = s /\ w.latest_by_signer = latest /\ w.window_opened_at = opened
        /\ w.exit = ExitOf(x)
        /\ w.contest_closed_by = closers /\ w.contested_at = contested
  <2>1. PICK opened, contested, latest, resolved :
          w = FullContext(s, opened, ExitOf(x), closers, contested, latest, resolved)
    BY <1>1, <1>2 DEF Left
  <2>2. QED
    BY <2>1 DEF FullContext
<1>4. Contests(w, a) <=> s # "contested-closure" /\ Against(x, a)
  <2>1. PICK y : y = [state |-> x.state, by |-> x.by, at |-> x.asserted_at]
    OBVIOUS
  <2>2. w.exit = {y} /\ y.state = x.state /\ y.by = x.by /\ y.at = x.asserted_at
    BY <1>3, <2>1 DEF ExitOf
  <2>3. QED
    BY <1>3, <2>2 DEF Contests, Against
<1>5. a.asserted_at >= latest[a.by]
  BY <1>3 DEF Accepts, InSignersOrder
<1>6. owner # creditor /\ (a.by = owner \/ a.by = creditor)
  BY FederationAssumption DEF Genuine, Node
<1>7. ASSUME NEW s2, NEW closers2, NEW contested2, NEW resolved2, NEW moved,
             moved = FullContext(s2, opened, ExitOf(x), closers2, contested2, latest, resolved2)
      PROVE  [moved EXCEPT !.latest_by_signer[a.by] = a.asserted_at]
               = FullContext(s2, opened, ExitOf(x), closers2, contested2,
                             DatedAfter(latest, a), resolved2)
  BY <1>7 DEF FullContext, DatedAfter
<1>8. ASSUME NEW s2 \in States, NEW closers2 \in SUBSET {owner}, NEW contested2,
             NEW resolved2,
             w2 = FullContext(s2, opened, ExitOf(x), closers2, contested2,
                              DatedAfter(latest, a), resolved2)
      PROVE  /\ w2.latest_by_signer = DatedAfter(latest, a) /\ Left(x, w2)
             /\ w2.state = s2 /\ w2.contested_at = contested2
  <2>1. /\ w2.state = s2 /\ w2.contest_closed_by = closers2 /\ w2.window_opened_at = opened
        /\ w2.contested_at = contested2 /\ w2.resolved_at = resolved2
        /\ w2.latest_by_signer = DatedAfter(latest, a)
    BY <1>8 DEF FullContext
  <2>2. QED
    BY <1>8, <2>1 DEF Left
<1>9. CASE Contests(w, a)
  <2>1. Contest(w, a) = FullContext("contested-closure", opened, ExitOf(x), closers, a.asserted_at,
                                    latest, a.asserted_at)
    <3>1. PICK v : v = FullContext("contested-closure", opened, ExitOf(x), closers,
                                   contested, latest, a.asserted_at)
      OBVIOUS
    <3>2. Resolve(w, "contested-closure", a) = v
      BY <1>3, <3>1, ResolveFull
    <3>3. [v EXCEPT !.contested_at = a.asserted_at]
            = FullContext("contested-closure", opened, ExitOf(x), closers, a.asserted_at,
                          latest, a.asserted_at)
      BY <3>1 DEF FullContext
    <3>4. QED
      BY <3>2, <3>3 DEF Contest
  <2>2. Effect(theEdge, w, a) = [Contest(w, a) EXCEPT !.latest_by_signer[a.by] = a.asserted_at]
    BY <1>9 DEF Effect
  <2>3. Effect(theEdge, w, a) = FullContext("contested-closure", opened, ExitOf(x), closers,
                       a.asserted_at, DatedAfter(latest, a), a.asserted_at)
    BY <1>7, <2>1, <2>2
  <2>4. QED
    <3>1. /\ w2.latest_by_signer = DatedAfter(latest, a) /\ Left(x, w2)
          /\ w2.state = "contested-closure" /\ w2.contested_at = a.asserted_at
      BY <1>8, <2>3
    <3>2. QED
      BY <1>3, <1>4, <1>5, <1>9, <3>1 DEF Turn
<1>10. CASE ~Contests(w, a) /\ s = "contested-closure"
  <2>1. LegalFromContested(Null, w, a)
    BY <1>3, <1>10 DEF Accepts
  <2>2. Effect(theEdge, w, a)
          = [EffectFromContested(w, a) EXCEPT !.latest_by_signer[a.by] = a.asserted_at]
    BY <1>3, <1>10 DEF Effect
  <2>3. CASE a.state = "closed"
    <3>1. a.by = owner
      BY <2>3, GenuineStates
    <3>2. owner \notin closers
      BY <1>3, <2>1, <2>3, <3>1 DEF LegalFromContested
    <3>3. closers = {}
      BY <3>2
    <3>4. Cardinality({owner}) = 1
      BY FS_Singleton
    <3>5. ~TwoHaveSigned(w.contest_closed_by, a)
      BY <1>3, <3>1, <3>3, <3>4 DEF TwoHaveSigned
    <3>6. ContestClose(w, a) = [w EXCEPT !.contest_closed_by = {owner}]
      BY <1>3, <3>1, <3>3, <3>5 DEF ContestClose
    <3>7. ContestClose(w, a)
            = FullContext(s, opened, ExitOf(x), {owner}, contested, latest, resolved)
      BY <1>3, <3>6 DEF FullContext
    <3>8. EffectFromContested(w, a) = ContestClose(w, a)
      BY <2>3 DEF EffectFromContested
    <3>9. Effect(theEdge, w, a) = FullContext(s, opened, ExitOf(x), {owner}, contested,
                                              DatedAfter(latest, a), resolved)
      <4>1. PICK v : v = ContestClose(w, a)
        OBVIOUS
      <4>2. v = FullContext(s, opened, ExitOf(x), {owner}, contested, latest, resolved)
        BY <3>7, <4>1
      <4>3. [v EXCEPT !.latest_by_signer[a.by] = a.asserted_at]
              = FullContext(s, opened, ExitOf(x), {owner}, contested,
                            DatedAfter(latest, a), resolved)
        <5>1. PICK one : one = {owner}
          OBVIOUS
        <5>2. v = FullContext(s, opened, ExitOf(x), one, contested, latest, resolved)
          BY <4>2, <5>1
        <5>3. [v EXCEPT !.latest_by_signer[a.by] = a.asserted_at]
                = FullContext(s, opened, ExitOf(x), one, contested,
                              DatedAfter(latest, a), resolved)
          BY <1>7, <5>2
        <5>4. QED
          BY <5>1, <5>3
      <4>4. QED
        BY <2>2, <3>8, <4>1, <4>3
    <3>10. QED
      <4>1. PICK one \in SUBSET {owner} : one = {owner}
        OBVIOUS
      <4>2. /\ w2.latest_by_signer = DatedAfter(latest, a) /\ Left(x, w2)
            /\ w2.state = s /\ w2.contested_at = contested
        BY <1>8, <3>9, <4>1
      <4>3. QED
        BY <1>3, <1>5, <1>10, <2>3, <4>2 DEF Turn
  <2>4. CASE a.state = "expired"
    <3>1. a.asserted_at >= contested + DISPUTE_WINDOW
      BY <1>3, <2>1, <2>4 DEF LegalFromContested, WindowElapsed
    <3>2. EffectFromContested(w, a) = Resolve(w, "expired", a)
      BY <2>4 DEF EffectFromContested
    <3>3. Resolve(w, "expired", a) = FullContext("expired", opened, ExitOf(x), closers, contested,
                                                 latest, a.asserted_at)
      BY <1>3, ResolveFull
    <3>4. Effect(theEdge, w, a) = FullContext("expired", opened, ExitOf(x), closers, contested,
                                              DatedAfter(latest, a), a.asserted_at)
      BY <1>7, <2>2, <3>2, <3>3
    <3>5. QED
      <4>1. /\ w2.latest_by_signer = DatedAfter(latest, a) /\ Left(x, w2)
            /\ w2.state = "expired" /\ w2.contested_at = contested
        BY <1>8, <3>4
      <4>2. QED
        BY <1>3, <1>5, <1>10, <2>4, <3>1, <4>1 DEF Turn
  <2>5. a.state # "superseded"
    BY GenuineStates DEF UNILATERAL_EXITS
  <2>6. QED
    BY <2>1, <2>3, <2>4, <2>5 DEF LegalFromContested
<1>11. CASE ~Contests(w, a) /\ s # "contested-closure"
  <2>1. s \notin TERMINAL_STATES /\ LegalByTable(theEdge, lineage, Null, w, a)
    BY <1>3, <1>11 DEF Accepts
  <2>2. s = "pending-acceptance"
    BY <1>11, <2>1 DEF TERMINAL_STATES
  <2>3. a.state = "closed"
    BY <1>3, <2>1, <2>2, GenuineStates DEF LegalByTable, LegalExpired, UNILATERAL_EXITS
  <2>4. a.by = owner /\ LegalClosed(theEdge, lineage, w, a)
    BY <2>1, <2>3, GenuineStates DEF LegalByTable
  <2>5. WindowElapsed(opened, Window, a.asserted_at)
    BY <1>3, <1>6, <2>2, <2>4, TheEdge DEF LegalClosed, theEdge
  <2>6. a.asserted_at >= opened + Window
    BY <2>5 DEF WindowElapsed
  <2>7. Effect(theEdge, w, a)
          = [EffectByTable(theEdge, w, a) EXCEPT !.latest_by_signer[a.by] = a.asserted_at]
    BY <1>3, <1>11 DEF Effect
  <2>8. EffectByTable(theEdge, w, a) = Resolve(w, "closed", a)
    BY <1>3, <2>2, <2>3 DEF EffectByTable, EffectOfClosed
  <2>9. Resolve(w, "closed", a) = FullContext("closed", opened, ExitOf(x), closers, contested,
                                              latest, a.asserted_at)
    BY <1>3, ResolveFull
  <2>10. Effect(theEdge, w, a) = FullContext("closed", opened, ExitOf(x), closers, contested,
                                             DatedAfter(latest, a), a.asserted_at)
    BY <1>7, <2>7, <2>8, <2>9
  <2>11. QED
    <3>1. /\ w2.latest_by_signer = DatedAfter(latest, a) /\ Left(x, w2)
          /\ w2.state = "closed" /\ w2.contested_at = contested
      BY <1>8, <2>10
    <3>2. QED
      BY <1>3, <1>5, <2>2, <2>3, <2>6, <3>1 DEF Turn
<1>12. QED
  BY <1>9, <1>10, <1>11

(* A chain with one assertion more.                                        *)
Longer(c, a, e) ==
  /\ Len(c) \in Nat /\ Len(e) = Len(c) + 1
  /\ e[Len(c) + 1] = a /\ \A i \in 1..Len(c) : e[i] = c[i]

LEMMA AppendIsLonger ==
  ASSUME NEW c \in Seq(Assertion), NEW a \in Assertion
  PROVE  Longer(c, a, Append(c, a))
BY DEF Longer

(* What was told of the contest stays.                                     *)
LEMMA ContestStays ==
  ASSUME NEW c, NEW a, NEW e, Longer(c, a, e), NEW j, FirstContest(c, j)
  PROVE  /\ FirstContest(e, j) /\ e[3] = c[3] /\ e[j] = c[j] /\ j \in 4..Len(e)
         /\ Expired(c, j) => Expired(e, j)
         /\ Again(c, j) => Again(e, j)
         /\ Expired(c, j) /\ Against(c[3], a) => Again(e, j)
<1>1. PICK n \in Nat : n = Len(c) /\ Len(e) = n + 1
  BY DEF Longer
<1>2. e[n + 1] = a /\ \A i \in 1..n : e[i] = c[i]
  BY <1>1 DEF Longer
<1>3. j \in 4..n
  BY <1>1 DEF FirstContest
<1>4. 3 \in 1..n /\ 4 \in 1..n /\ j \in 1..n /\ j \in 4..(n + 1)
  BY <1>3
<1>5. e[3] = c[3] /\ e[4] = c[4] /\ e[j] = c[j]
  BY <1>2, <1>4
<1>6. FirstContest(e, j)
  BY <1>1, <1>4, <1>5 DEF FirstContest
<1>7. \A q \in (j + 1)..n : q \in (j + 1)..(n + 1) /\ e[q] = c[q]
  BY <1>2, <1>3
<1>8. Expired(c, j) => Expired(e, j)
  BY <1>1, <1>5, <1>7 DEF Expired
<1>9. Again(c, j) => Again(e, j)
  <2>1. SUFFICES ASSUME Again(c, j) PROVE Again(e, j)
    OBVIOUS
  <2>2. PICK q \in (j + 1)..n : \E l \in (q + 1)..n : Overdue(c[j], c[q]) /\ Against(c[3], c[l])
    BY <1>1, <2>1 DEF Again
  <2>3. PICK l \in (q + 1)..n : Overdue(c[j], c[q]) /\ Against(c[3], c[l])
    BY <2>2
  <2>4. l \in (j + 1)..n /\ l \in (q + 1)..(n + 1)
    BY <1>3
  <2>5. Overdue(e[j], e[q]) /\ Against(e[3], e[l])
    BY <1>5, <1>7, <2>3, <2>4
  <2>6. QED
    BY <1>1, <1>7, <2>4, <2>5 DEF Again
<1>10. Expired(c, j) /\ Against(c[3], a) => Again(e, j)
  <2>1. SUFFICES ASSUME Expired(c, j), Against(c[3], a) PROVE Again(e, j)
    OBVIOUS
  <2>2. PICK q \in (j + 1)..n : Overdue(c[j], c[q])
    BY <1>1, <2>1 DEF Expired
  <2>3. n + 1 \in (q + 1)..(n + 1) /\ Against(e[3], e[n + 1])
    BY <1>2, <1>5, <2>1
  <2>4. Overdue(e[j], e[q])
    BY <1>5, <1>7, <2>2
  <2>5. QED
    BY <1>1, <1>7, <2>3, <2>4 DEF Again
<1>11. QED
  BY <1>1, <1>4, <1>5, <1>6, <1>8, <1>9, <1>10

(* Dates, after an assertion in its signer's order.                        *)
LEMMA DatedWith ==
  ASSUME NEW c \in Seq(Assertion), NEW a \in Assertion, NEW e, Longer(c, a, e),
         NEW w, Dated(c, w), a.asserted_at >= w.latest_by_signer[a.by],
         NEW w2, w2.latest_by_signer = DatedAfter(w.latest_by_signer, a)
  PROVE  Dated(e, w2)
<1>1. PICK n \in Nat : n = Len(c) /\ Len(e) = n + 1
  BY DEF Longer
<1>2. e[n + 1] = a /\ \A i \in 1..n : e[i] = c[i] /\ c[i] \in Assertion
  <2>1. \A i \in 1..n : c[i] \in Assertion
    BY <1>1
  <2>2. QED
    BY <1>1, <2>1 DEF Longer
<1>3. PICK old, new : old = w.latest_by_signer /\ new = w2.latest_by_signer
  OBVIOUS
<1>4. /\ old \in [Key -> TimeOrNull]
      /\ \A i \in 1..n : c[i].asserted_at <= old[c[i].by]
      /\ \A i, j \in 1..n : i < j /\ c[i].by = c[j].by => c[i].asserted_at <= c[j].asserted_at
  BY <1>1, <1>3 DEF Dated
<1>5. a.by \in Key /\ a.asserted_at \in Nat /\ a.asserted_at \in TimeOrNull
  BY DEF Assertion, Time, TimeOrNull
<1>6. /\ new \in [Key -> TimeOrNull] /\ new[a.by] = a.asserted_at
      /\ \A k \in Key : k # a.by => new[k] = old[k]
  BY <1>3, <1>4, <1>5 DEF DatedAfter
<1>7. ASSUME NEW i \in 1..n, c[i].by = a.by PROVE c[i].asserted_at <= a.asserted_at
  <2>1. c[i].asserted_at \in Nat /\ old[a.by] \in Int
    BY <1>2, <1>4, <1>5 DEF Assertion, Time, TimeOrNull, Null
  <2>2. c[i].asserted_at <= old[a.by] /\ old[a.by] <= a.asserted_at
    BY <1>3, <1>4, <1>5, <1>7, <2>1
  <2>3. QED
    BY <1>5, <2>1, <2>2
<1>8. ASSUME NEW i \in 1..(n + 1) PROVE e[i].asserted_at <= new[e[i].by]
  <2>1. CASE i = n + 1
    BY <1>2, <1>5, <1>6, <2>1
  <2>2. CASE i # n + 1
    <3>1. i \in 1..n
      BY <2>2
    <3>2. c[i].by \in Key
      BY <1>2, <3>1 DEF Assertion
    <3>3. QED
      BY <1>2, <1>4, <1>6, <1>7, <3>1, <3>2
  <2>3. QED
    BY <2>1, <2>2
<1>9. ASSUME NEW i \in 1..(n + 1), NEW j \in 1..(n + 1), i < j, e[i].by = e[j].by
      PROVE  e[i].asserted_at <= e[j].asserted_at
  <2>1. i \in 1..n
    BY <1>9
  <2>2. CASE j = n + 1
    BY <1>2, <1>7, <1>9, <2>1, <2>2
  <2>3. CASE j # n + 1
    <3>1. j \in 1..n
      BY <2>3
    <3>2. QED
      BY <1>2, <1>4, <1>9, <2>1, <3>1
  <2>4. QED
    BY <2>2, <2>3
<1>10. QED
  BY <1>1, <1>3, <1>6, <1>8, <1>9 DEF Dated

(* The first three assertions lead where they should ...                   *)
LEMMA StoryBegins ==
  ASSUME now \in Nat, NEW c \in Seq(Assertion), NEW a \in Assertion,
         NEW e \in Seq(Assertion), Longer(c, a, e), Honest(e), Len(c) < 3,
         NEW w, w = ContextAfter(c, Len(c)),
         NEW w2, w2 = Step(theEdge, lineage, now, w, a)
  PROVE  Story(e, w2) /\ w2.latest_by_signer = DatedAfter(w.latest_by_signer, a)
<1>1. PICK n \in 0..2 : n = Len(c) /\ Len(e) = n + 1 /\ DOMAIN e = 1..(n + 1)
  <2>1. PICK n \in Nat : n = Len(c) /\ Len(e) = n + 1
    BY DEF Longer
  <2>2. n \in 0..2 /\ DOMAIN e = 1..(n + 1)
    BY <2>1
  <2>3. QED
    BY <2>1, <2>2
<1>2. e[n + 1] = a /\ \A i \in 1..n : e[i] = c[i]
  BY <1>1 DEF Longer
<1>3. \A i \in 1..(n + 1) : e[i] \in Assertion /\ Genuine(e[i])
  BY <1>1 DEF Honest, Range
<1>4. /\ e[1].state = "proposed"
      /\ n >= 1 => e[2].state = "confirmed"
      /\ n >= 2 => FirstExit(e[1], e[2], e[3])
  BY <1>1 DEF Honest, Shaped
<1>5. PICK p : p = e[1] /\ p \in Assertion /\ Genuine(p) /\ p.state = "proposed"
  BY <1>3, <1>4
<1>6. CASE n = 0
  <2>1. w = InitChainState /\ a = p
    BY <1>1, <1>2, <1>5, <1>6 DEF ContextAfter
  <2>2. w2 = Proposed(p)
    BY <1>5, <2>1, StepsOfChain
  <2>3. ContextAfter(e, 1) = Proposed(p) /\ Len(e) = 1
    BY <1>1, <1>5, <1>6 DEF ContextAfter
  <2>4. w2.latest_by_signer = DatedAfter(w.latest_by_signer, a)
    BY <2>1, <2>2 DEF Proposed, Context, InitChainState
  <2>5. QED
    BY <2>2, <2>3, <2>4 DEF Story
<1>7. CASE n = 1
  <2>1. PICK k : k = e[2] /\ k \in Assertion /\ Genuine(k) /\ k.state = "confirmed"
    BY <1>3, <1>4, <1>7
  <2>2. w = Proposed(p) /\ a = k
    BY <1>1, <1>2, <1>5, <1>7, <2>1 DEF ContextAfter
  <2>3. w2 = Confirmed(p, k)
    BY <1>5, <2>1, <2>2, StepsOfChain
  <2>4. ContextAfter(e, 2) = Confirmed(p, k) /\ Len(e) = 2
    BY <1>1, <1>5, <1>7, <2>1 DEF ContextAfter
  <2>5. w2.latest_by_signer = DatedAfter(w.latest_by_signer, a)
    BY <2>2, <2>3 DEF Confirmed, Context
  <2>6. QED
    BY <2>3, <2>4, <2>5 DEF Story
<1>8. CASE n = 2
  <2>1. PICK k : k = e[2] /\ k \in Assertion /\ Genuine(k) /\ k.state = "confirmed"
    BY <1>3, <1>4, <1>8
  <2>2. a = e[3] /\ Genuine(a) /\ FirstExit(p, k, a)
    BY <1>2, <1>3, <1>4, <1>5, <1>8, <2>1
  <2>3. w = Confirmed(p, k)
    BY <1>1, <1>2, <1>5, <1>8, <2>1 DEF ContextAfter
  <2>4. w2 = Exited(p, k, a)
    BY <1>5, <2>1, <2>2, <2>3, StepsOfChain
  <2>5. PICK s, opened, resolved :
          /\ s = (IF a.state = "closed" THEN "pending-acceptance" ELSE a.state)
          /\ opened = (IF a.state = "closed" THEN a.asserted_at ELSE Null)
          /\ resolved = (IF a.state = "closed" THEN Null ELSE a.asserted_at)
    OBVIOUS
  <2>6. PICK latest : latest = DatedAfter(w.latest_by_signer, a)
    OBVIOUS
  <2>7. w2 = Context(s, opened, ExitOf(a), latest, resolved)
    BY <2>3, <2>4, <2>5, <2>6 DEF Exited, ExitOf
  <2>8. w2 = FullContext(s, opened, ExitOf(a), {}, Null, latest, resolved)
    BY <2>7 DEF Context, FullContext
  <2>9. /\ w2.state = s /\ w2.window_opened_at = opened /\ w2.latest_by_signer = latest
        /\ w2.contest_closed_by = {} /\ w2.contested_at = Null /\ w2.resolved_at = resolved
    BY <2>8 DEF FullContext
  <2>10. Exit(e, w2)
    BY <1>1, <1>8, <2>2, <2>5, <2>9 DEF Exit
  <2>11. Story(e, w2)
    <3>1. Left(e[3], w2)
      BY <2>2, <2>5, <2>8, <2>9 DEF Left, FirstExit, UNILATERAL_EXITS
    <3>2. ~(Len(e) < 3)
      BY <1>1, <1>8
    <3>3. QED
      BY <2>10, <3>1, <3>2 DEF Story
  <2>12. QED
    BY <2>6, <2>9, <2>11
<1>9. QED
  BY <1>6, <1>7, <1>8

(* ... and what is accepted after them goes on.                            *)
LEMMA StoryGoesOn ==
  ASSUME NEW c \in Seq(Assertion), NEW a \in Assertion, NEW e, Longer(c, a, e),
         Honest(c), Genuine(a), Len(c) >= 3, NEW w, Story(c, w),
         Accepts(theEdge, lineage, Null, w, a), NEW w2, w2 = Effect(theEdge, w, a)
  PROVE  Story(e, w2) /\ w2.latest_by_signer = DatedAfter(w.latest_by_signer, a)
<1>1. PICK n \in Nat : n = Len(c) /\ Len(e) = n + 1 /\ n >= 3 /\ DOMAIN c = 1..n
  BY DEF Longer
<1>2. e[n + 1] = a /\ \A i \in 1..n : e[i] = c[i]
  BY <1>1 DEF Longer
<1>3. PICK x : x = c[3] /\ x = e[3] /\ x \in Assertion /\ Genuine(x)
               /\ x.state \in UNILATERAL_EXITS
  <2>1. 3 \in 1..n
    BY <1>1
  <2>2. c[3] \in Range(c) /\ c[3] \in Assertion /\ FirstExit(c[1], c[2], c[3])
    BY <1>1, <2>1 DEF Honest, Shaped, Range
  <2>3. QED
    BY <1>2, <2>1, <2>2 DEF Honest, FirstExit
<1>4. PICK s, s2, contested, contested2 :
        /\ s = w.state /\ s2 = w2.state
        /\ contested = w.contested_at /\ contested2 = w2.contested_at
  OBVIOUS
<1>5. Left(x, w) /\ (Exit(c, w) \/ Accepted(c, w) \/ AfterContest(c, w))
  BY <1>1, <1>3 DEF Story
<1>6. /\ w2.latest_by_signer = DatedAfter(w.latest_by_signer, a)
      /\ Left(x, w2) /\ Turn(x, a, w, w2)
  BY <1>5, AfterExit
<1>7. w2.state = s2 /\ w2.contested_at = contested2
  BY <1>4
<1>8. s = "contested-closure" => AfterContest(c, w)
  BY <1>3, <1>4, <1>5 DEF Exit, Accepted, UNILATERAL_EXITS
<1>9. SUFFICES Accepted(e, w2) \/ AfterContest(e, w2)
  <2>1. Len(e) >= 3 /\ ~(Len(e) < 3)
    BY <1>1
  <2>2. QED
    BY <1>3, <1>6, <2>1 DEF Story
<1>10. ASSUME AfterContest(c, w), s = "contested-closure", s2 = s, contested2 = contested
       PROVE  \E h \in 3..(n + 1) : e[h].state \in UNILATERAL_EXITS
                                    /\ w2.contested_at = e[h].asserted_at
  <2>1. PICK h \in 3..n : c[h].state \in UNILATERAL_EXITS /\ w.contested_at = c[h].asserted_at
    BY <1>1, <1>4, <1>10 DEF AfterContest
  <2>2. h \in 1..n /\ h \in 3..(n + 1)
    BY <1>1
  <2>3. QED
    BY <1>2, <1>4, <1>7, <1>10, <2>1, <2>2
<1>11. CASE /\ s # "contested-closure" /\ Against(x, a)
            /\ s2 = "contested-closure" /\ contested2 = a.asserted_at
  <2>1. \E j \in 4..(n + 1) : FirstContest(e, j) /\ Contested(e, j, w2)
    <3>1. CASE Exit(c, w)
      <4>1. n = 3 /\ e[4] = a
        BY <1>1, <1>2, <3>1 DEF Exit
      <4>2. FirstContest(e, 4)
        BY <1>1, <1>3, <1>11, <4>1 DEF FirstContest
      <4>3. Contested(e, 4, w2)
        BY <1>1, <1>7, <1>11, <4>1 DEF Contested
      <4>4. QED
        BY <4>1, <4>2, <4>3
    <3>2. CASE Accepted(c, w)
      <4>1. n = 4 /\ e[5] = a /\ e[4] = c[4] /\ c[4].state = "closed" /\ c[4].by = x.by
        BY <1>1, <1>2, <1>3, <3>2 DEF Accepted
      <4>2. FirstContest(e, 5)
        BY <1>1, <1>3, <1>11, <4>1 DEF FirstContest
      <4>3. Contested(e, 5, w2)
        BY <1>1, <1>7, <1>11, <4>1 DEF Contested
      <4>4. QED
        BY <4>1, <4>2, <4>3
    <3>3. CASE AfterContest(c, w)
      <4>1. PICK j \in 4..n : FirstContest(c, j) /\ Contested(c, j, w)
        BY <1>1, <3>3 DEF AfterContest
      <4>2. Expired(c, j) \/ Again(c, j)
        BY <1>4, <1>11, <4>1 DEF Contested
      <4>3. FirstContest(e, j) /\ Again(e, j)
        BY <1>3, <1>11, <4>1, <4>2, ContestStays
      <4>4. QED
        BY <1>7, <1>11, <4>1, <4>3 DEF Contested
    <3>4. QED
      BY <1>5, <3>1, <3>2, <3>3
  <2>2. n + 1 \in 3..(n + 1) /\ e[n + 1].state \in UNILATERAL_EXITS
        /\ w2.contested_at = e[n + 1].asserted_at
    BY <1>1, <1>2, <1>7, <1>11 DEF Against
  <2>3. QED
    BY <1>1, <2>1, <2>2 DEF AfterContest
<1>12. CASE /\ s = "pending-acceptance" /\ s2 = "closed"
            /\ a.state = "closed" /\ a.asserted_at >= w.window_opened_at + Window
  <2>1. Exit(c, w) /\ x.state = "closed"
    BY <1>3, <1>4, <1>5, <1>12
       DEF Exit, Accepted, AfterContest, Contested, UNILATERAL_EXITS
  <2>2. x.by = owner /\ a.by = owner
    BY <1>3, <1>12, <2>1, GenuineStates
  <2>3. n = 3 /\ e[4] = a
    BY <1>1, <1>2, <2>1 DEF Exit
  <2>4. QED
    BY <1>1, <1>3, <1>7, <1>12, <2>1, <2>2, <2>3 DEF Accepted
<1>13. CASE /\ s = "contested-closure" /\ s2 = s /\ contested2 = contested
            /\ a.state = "closed"
  <2>1. PICK j \in 4..n : FirstContest(c, j) /\ Contested(c, j, w)
    BY <1>1, <1>8, <1>13 DEF AfterContest
  <2>2. FirstContest(e, j) /\ e[j] = c[j] /\ j \in 4..(n + 1)
    BY <1>1, <2>1, ContestStays
  <2>3. Contested(e, j, w2)
    <3>1. CASE Again(c, j)
      BY <1>7, <1>13, <2>1, <3>1, ContestStays DEF Contested
    <3>2. CASE ~Again(c, j)
      <4>1. contested = c[j].asserted_at /\ \A i \in (j + 1)..n : c[i].state = "closed"
        BY <1>1, <1>4, <1>13, <2>1, <3>2 DEF Contested
      <4>2. \A i \in (j + 1)..(n + 1) : i = n + 1 \/ (i \in (j + 1)..n /\ i \in 1..n)
        BY <1>1
      <4>3. \A i \in (j + 1)..(n + 1) : e[i].state = "closed"
        BY <1>2, <1>13, <4>1, <4>2
      <4>4. QED
        BY <1>1, <1>7, <1>13, <2>2, <4>1, <4>3 DEF Contested
    <3>3. QED
      BY <3>1, <3>2
  <2>4. QED
    BY <1>1, <1>7, <1>8, <1>10, <1>13, <2>2, <2>3 DEF AfterContest
<1>14. CASE /\ s = "contested-closure" /\ s2 = "expired"
            /\ a.state = "expired" /\ a.asserted_at >= contested + DISPUTE_WINDOW
  <2>1. PICK j \in 4..n : FirstContest(c, j) /\ Contested(c, j, w)
    BY <1>1, <1>8, <1>14 DEF AfterContest
  <2>2. FirstContest(e, j) /\ e[j] = c[j] /\ j \in 4..(n + 1)
    BY <1>1, <2>1, ContestStays
  <2>3. Contested(e, j, w2)
    <3>1. CASE Again(c, j)
      BY <1>7, <1>14, <2>1, <3>1, ContestStays DEF Contested
    <3>2. CASE ~Again(c, j)
      <4>1. contested = c[j].asserted_at
        BY <1>1, <1>4, <1>14, <2>1, <3>2 DEF Contested
      <4>2. n + 1 \in (j + 1)..(n + 1) /\ Overdue(e[j], e[n + 1])
        BY <1>2, <1>14, <2>2, <4>1 DEF Overdue
      <4>3. QED
        BY <1>1, <1>7, <1>14, <4>2 DEF Contested, Expired
    <3>3. QED
      BY <3>1, <3>2
  <2>4. QED
    BY <1>1, <1>7, <1>14, <2>2, <2>3 DEF AfterContest
<1>15. QED
  BY <1>4, <1>6, <1>11, <1>12, <1>13, <1>14 DEF Turn

(* Every assertion a node takes goes on the story of its chain.            *)
LEMMA ToldWith ==
  ASSUME now \in Nat, NEW c \in Seq(Assertion), Honest(c),
         NEW a \in Assertion, Genuine(a), TakenAfter(c, a),
         NEW f, Trace(c, f), Told(c, f[Len(c)])
  PROVE  \E g : /\ Trace(Append(c, a), g)
                /\ Told(Append(c, a), g[Len(Append(c, a))])
<1>1. PICK e : e = Append(c, a)
  OBVIOUS
<1>2. PICK w : w = f[Len(c)]
  OBVIOUS
<1>3. PICK w2 : w2 = Step(theEdge, lineage, Null, w, a)
  OBVIOUS
<1>4. e \in Seq(Assertion) /\ Honest(e) /\ Longer(c, a, e)
  BY <1>1, RangeWith, ShapedWith, AppendIsLonger
<1>5. Accepts(theEdge, lineage, Null, w, a) /\ w2 = Step(theEdge, lineage, now, w, a)
  <2>1. VerifyAssertionChain(theEdge, lineage, now, c) = w
    BY <1>2, ReplayEnds DEF Honest
  <2>2. QED
    BY <1>3, <2>1, ClockRefusesNothing DEF TakenAfter
<1>6. w2 = Effect(theEdge, w, a)
  BY <1>3, <1>5 DEF Step
<1>7. Dated(c, w) /\ Story(c, w)
  BY <1>2 DEF Told
<1>8. Story(e, w2) /\ w2.latest_by_signer = DatedAfter(w.latest_by_signer, a)
  <2>1. CASE Len(c) < 3
    <3>1. w = ContextAfter(c, Len(c))
      BY <1>7, <2>1 DEF Story
    <3>2. QED
      BY <1>4, <1>5, <2>1, <3>1, StoryBegins
  <2>2. CASE ~(Len(c) < 3)
    <3>1. Len(c) >= 3
      BY <2>2
    <3>2. QED
      BY <1>4, <1>5, <1>6, <1>7, <3>1, StoryGoesOn
  <2>3. QED
    BY <2>1, <2>2
<1>9. Dated(e, w2)
  <2>1. a.asserted_at >= w.latest_by_signer[a.by]
    BY <1>5 DEF Accepts, InSignersOrder
  <2>2. QED
    BY <1>4, <1>7, <1>8, <2>1, DatedWith
<1>10. PICK g : Trace(e, g) /\ g[Len(e)] = w2
  BY <1>1, <1>2, <1>3, TraceWith
<1>11. QED
  BY <1>1, <1>8, <1>9, <1>10 DEF Told

(* The history of a chain in n's vault.                                    *)
History(c, n) ==
  \E f : /\ Trace(c, f) /\ Told(c, f[Len(c)])
         /\ OwnLater(c, n) /\ ExitsLater(c, n) /\ Fresh(c, n)

(* A second exit of one's own comes after some exit.                       *)
LEMMA ExitsLaterWith ==
  ASSUME NEW c \in Seq(Assertion), NEW a \in Assertion, NEW e, Longer(c, a, e),
         Honest(c), Genuine(a), NEW w, Story(c, w), Accepts(theEdge, lineage, Null, w, a),
         NEW n, a.by = n, ExitsLater(c, n),
         \A i \in 1..Len(c) : c[i].asserted_at <= a.asserted_at,
         a.state = "closed" => w.state # "contested-closure"
  PROVE  ExitsLater(e, n)
<1>1. PICK N \in Nat : N = Len(c) /\ Len(e) = N + 1 /\ DOMAIN c = 1..N
  BY DEF Longer
<1>2. e[N + 1] = a /\ \A i \in 1..N : e[i] = c[i] /\ i \in 1..(N + 1)
  BY <1>1 DEF Longer
<1>3. \A i \in 1..N : c[i] \in Assertion /\ Genuine(c[i]) /\ c[i].asserted_at \in Nat
  <2>1. \A i \in 1..N : c[i] \in Assertion /\ Genuine(c[i])
    BY <1>1 DEF Honest, Range
  <2>2. QED
    BY <2>1 DEF Assertion, Time
<1>4. ASSUME NEW i \in 1..N, c[i].by = n, c[i].state \in UNILATERAL_EXITS,
             a.state \in UNILATERAL_EXITS
      PROVE  \E h \in 1..N : /\ c[h].state \in UNILATERAL_EXITS
                             /\ c[h].asserted_at < a.asserted_at
  <2>1. N >= 3 /\ i >= 3 /\ 3 \in 1..N
    <3>1. /\ N >= 1 => c[1].state \notin UNILATERAL_EXITS
          /\ N >= 2 => c[2].state \notin UNILATERAL_EXITS
      BY <1>1 DEF Honest, Shaped, UNILATERAL_EXITS
    <3>2. i # 1 /\ i # 2
      BY <1>4, <3>1
    <3>3. QED
      BY <3>2
  <2>2. PICK x : x = c[3] /\ x.state \in UNILATERAL_EXITS
    BY <1>1, <2>1 DEF Honest, Shaped, FirstExit
  <2>3. Left(x, w) /\ (Exit(c, w) \/ Accepted(c, w) \/ AfterContest(c, w))
    BY <1>1, <2>1, <2>2 DEF Story
  <2>4. Turn(x, a, w, Effect(theEdge, w, a))
    BY <2>3, AfterExit
  <2>5. CASE w.state # "contested-closure" /\ Against(x, a)
    <3>1. i \in 4..N
      BY <1>4, <2>1, <2>2, <2>5 DEF Against
    <3>2. ~Exit(c, w)
      BY <1>1, <3>1 DEF Exit
    <3>3. ~Accepted(c, w)
      <4>1. SUFFICES ASSUME Accepted(c, w) PROVE FALSE
        OBVIOUS
      <4>2. i = 4 /\ c[4].by = x.by
        BY <1>1, <2>2, <3>1, <4>1 DEF Accepted
      <4>3. QED
        BY <1>4, <2>5, <4>2 DEF Against
    <3>4. PICK j \in 4..N : FirstContest(c, j) /\ Contested(c, j, w)
      BY <1>1, <2>3, <3>2, <3>3 DEF AfterContest
    <3>5. \E q \in (j + 1)..N : Overdue(c[j], c[q])
      BY <1>1, <2>5, <3>4 DEF Contested, Expired, Again
    <3>6. PICK q \in (j + 1)..N : Overdue(c[j], c[q])
      BY <3>5
    <3>7. j \in 1..N /\ q \in 1..N
      OBVIOUS
    <3>8. c[j].asserted_at < c[q].asserted_at /\ c[q].asserted_at <= a.asserted_at
      <4>1. c[q].asserted_at >= c[j].asserted_at + DISPUTE_WINDOW
        BY <3>6 DEF Overdue
      <4>2. DISPUTE_WINDOW \in Nat /\ DISPUTE_WINDOW > 0
        BY FederationAssumption, WindowAssumption
      <4>3. QED
        BY <1>1, <1>3, <3>7, <4>1, <4>2
    <3>9. c[j].asserted_at < a.asserted_at
      BY <1>3, <3>7, <3>8 DEF Assertion, Time
    <3>10. QED
      BY <3>4, <3>7, <3>9 DEF FirstContest, Against
  <2>6. CASE w.state = "pending-acceptance" /\ a.asserted_at >= w.window_opened_at + Window
    <3>1. Exit(c, w) /\ x.state = "closed"
      BY <2>2, <2>3, <2>6 DEF Exit, Accepted, AfterContest, Contested, UNILATERAL_EXITS
    <3>2. w.window_opened_at = x.asserted_at
      BY <2>2, <3>1 DEF Exit
    <3>3. x.asserted_at < a.asserted_at
      BY <1>3, <2>1, <2>2, <2>6, <3>2, FederationAssumption DEF Assertion, Time
    <3>4. QED
      BY <2>1, <2>2, <3>3
  <2>7. CASE w.state = "contested-closure" /\ a.asserted_at >= w.contested_at + DISPUTE_WINDOW
    <3>1. AfterContest(c, w)
      BY <2>2, <2>3, <2>7 DEF Exit, Accepted, UNILATERAL_EXITS
    <3>2. PICK h \in 3..N : c[h].state \in UNILATERAL_EXITS
                            /\ w.contested_at = c[h].asserted_at
      BY <1>1, <2>7, <3>1 DEF AfterContest
    <3>3. h \in 1..N
      OBVIOUS
    <3>4. c[h].asserted_at < a.asserted_at
      BY <1>3, <2>7, <3>2, <3>3, FederationAssumption, WindowAssumption DEF Assertion, Time
    <3>5. QED
      BY <3>2, <3>3, <3>4
  <2>8. QED
    BY <2>4, <2>5, <2>6, <2>7 DEF Turn
<1>5. SUFFICES ASSUME NEW i \in 1..(N + 1), NEW j \in 1..(N + 1), i < j,
                      e[i].by = n, e[j].by = n,
                      e[i].state \in UNILATERAL_EXITS, e[j].state \in UNILATERAL_EXITS
               PROVE  \E h \in 1..(N + 1) : /\ e[h].state \in UNILATERAL_EXITS
                                            /\ e[h].asserted_at < e[j].asserted_at
  BY <1>1 DEF ExitsLater
<1>6. i \in 1..N /\ c[i] = e[i]
  BY <1>2, <1>5
<1>7. CASE j = N + 1
  <2>1. PICK h \in 1..N : c[h].state \in UNILATERAL_EXITS /\ c[h].asserted_at < a.asserted_at
    BY <1>2, <1>4, <1>5, <1>6, <1>7
  <2>2. QED
    BY <1>2, <1>7, <2>1
<1>8. CASE j # N + 1
  <2>1. j \in 1..N /\ c[j] = e[j]
    BY <1>2, <1>8
  <2>2. PICK h \in 1..N : /\ c[h].state \in UNILATERAL_EXITS
                          /\ c[h].asserted_at < c[j].asserted_at
    BY <1>1, <1>5, <1>6, <2>1 DEF ExitsLater
  <2>3. QED
    BY <1>2, <2>1, <2>2
<1>9. QED
  BY <1>7, <1>8

(* What n signs, dated no earlier than all it holds ...                    *)
LEMMA OwnWith ==
  ASSUME NEW c, NEW a, NEW e, Longer(c, a, e), NEW n, a.by = n,
         \A i \in 1..Len(c) : c[i].asserted_at <= a.asserted_at,
         OwnLater(c, n), Fresh(c, n)
  PROVE  OwnLater(e, n) /\ Fresh(e, n)
<1>1. PICK N \in Nat : N = Len(c) /\ Len(e) = N + 1
  BY DEF Longer
<1>2. e[N + 1] = a /\ \A i \in 1..N : e[i] = c[i]
  BY <1>1 DEF Longer
<1>3. \A i \in 1..(N + 1) : i = N + 1 \/ i \in 1..N
  OBVIOUS
<1>4. \A i, j \in 1..(N + 1) : i < j => i \in 1..N
  OBVIOUS
<1>5. OwnLater(e, n)
  BY <1>1, <1>2, <1>3, <1>4 DEF OwnLater
<1>6. Fresh(e, n)
  BY <1>1, <1>2, <1>3, <1>4 DEF Fresh
<1>7. QED
  BY <1>5, <1>6

(* ... and what n takes of the other that it does not hold already.        *)
LEMMA TakenWith ==
  ASSUME NEW c, NEW a, NEW e, Longer(c, a, e), NEW n, a.by # n,
         \A h, q \in 1..Len(c) : h < q /\ c[q].by = n => c[h] # a,
         OwnLater(c, n), ExitsLater(c, n), Fresh(c, n)
  PROVE  OwnLater(e, n) /\ ExitsLater(e, n) /\ Fresh(e, n)
<1>1. PICK N \in Nat : N = Len(c) /\ Len(e) = N + 1
  BY DEF Longer
<1>2. e[N + 1] = a /\ \A i \in 1..N : e[i] = c[i] /\ i \in 1..(N + 1)
  BY <1>1 DEF Longer
<1>3. \A i \in 1..(N + 1) : i = N + 1 \/ i \in 1..N
  OBVIOUS
<1>4. \A i, j \in 1..(N + 1) : i < j => i \in 1..N
  OBVIOUS
<1>5. OwnLater(e, n)
  BY <1>1, <1>2, <1>3 DEF OwnLater
<1>6. ExitsLater(e, n)
  <2>1. SUFFICES ASSUME NEW i \in 1..(N + 1), NEW j \in 1..(N + 1), i < j,
                        e[i].by = n, e[j].by = n,
                        e[i].state \in UNILATERAL_EXITS, e[j].state \in UNILATERAL_EXITS
                 PROVE  \E h \in 1..(N + 1) : /\ e[h].state \in UNILATERAL_EXITS
                                              /\ e[h].asserted_at < e[j].asserted_at
    BY <1>1 DEF ExitsLater
  <2>2. i \in 1..N /\ j \in 1..N /\ e[i] = c[i] /\ e[j] = c[j]
    BY <1>2, <1>3, <2>1
  <2>3. PICK h \in 1..N : /\ c[h].state \in UNILATERAL_EXITS
                          /\ c[h].asserted_at < c[j].asserted_at
    BY <1>1, <2>1, <2>2 DEF ExitsLater
  <2>4. QED
    BY <1>2, <2>2, <2>3
<1>7. Fresh(e, n)
  <2>1. SUFFICES ASSUME NEW h \in 1..(N + 1), NEW q \in 1..(N + 1), NEW l \in 1..(N + 1),
                        h < q, q < l, e[q].by = n, e[l].by # n
                 PROVE  e[l] # e[h]
    BY <1>1 DEF Fresh
  <2>2. h \in 1..N /\ q \in 1..N /\ e[h] = c[h] /\ e[q] = c[q]
    BY <1>2, <2>1
  <2>3. CASE l = N + 1
    BY <1>1, <1>2, <2>1, <2>2, <2>3
  <2>4. CASE l # N + 1
    <3>1. l \in 1..N /\ e[l] = c[l]
      BY <1>2, <2>4
    <3>2. QED
      BY <1>1, <2>1, <2>2, <3>1 DEF Fresh
  <2>5. QED
    BY <2>3, <2>4
<1>8. QED
  BY <1>5, <1>6, <1>7

(* Histories go on: with what n signs now ...                              *)
LEMMA HistoryWithOwn ==
  ASSUME now \in Nat, NEW c \in Seq(Assertion), Honest(c),
         NEW a \in Assertion, Genuine(a), TakenAfter(c, a),
         NEW n, a.by = n, a.asserted_at = now, History(c, n),
         a.state = "closed" => StateOf(c) # "contested-closure"
  PROVE  History(Append(c, a), n)
<1>1. PICK f : /\ Trace(c, f) /\ Told(c, f[Len(c)])
               /\ OwnLater(c, n) /\ ExitsLater(c, n) /\ Fresh(c, n)
  BY DEF History
<1>2. PICK e, w : e = Append(c, a) /\ w = f[Len(c)]
  OBVIOUS
<1>3. PICK g : Trace(e, g) /\ Told(e, g[Len(e)])
  BY <1>1, <1>2, ToldWith
<1>4. Longer(c, a, e)
  BY <1>2, AppendIsLonger
<1>5. \A i \in 1..Len(c) : c[i].asserted_at <= a.asserted_at
  BY DEF Honest, Genuine, Range
<1>6. /\ VerifyAssertionChain(theEdge, lineage, now, c) = w
      /\ VerifyAssertionChain(theEdge, lineage, Null, c) = w
  BY <1>1, <1>2, ReplayEnds DEF Honest
<1>7. Accepts(theEdge, lineage, Null, w, a)
  BY <1>6, ClockRefusesNothing DEF TakenAfter
<1>8. a.state = "closed" => w.state # "contested-closure"
  BY <1>6 DEF StateOf
<1>9. ExitsLater(e, n)
  <2>1. Story(c, w)
    BY <1>1, <1>2 DEF Told
  <2>2. QED
    BY <1>1, <1>4, <1>5, <1>7, <1>8, <2>1, ExitsLaterWith
<1>10. OwnLater(e, n) /\ Fresh(e, n)
  BY <1>1, <1>4, <1>5, OwnWith
<1>11. QED
  BY <1>2, <1>3, <1>9, <1>10 DEF History

(* ... and with what n takes of the other.                                 *)
LEMMA HistoryWithTaken ==
  ASSUME now \in Nat, NEW c \in Seq(Assertion), Honest(c),
         NEW a \in Assertion, Genuine(a), TakenAfter(c, a),
         NEW n, a.by # n, History(c, n),
         \A h, q \in 1..Len(c) : h < q /\ c[q].by = n => c[h] # a
  PROVE  History(Append(c, a), n)
<1>1. PICK f : /\ Trace(c, f) /\ Told(c, f[Len(c)])
               /\ OwnLater(c, n) /\ ExitsLater(c, n) /\ Fresh(c, n)
  BY DEF History
<1>2. PICK e : e = Append(c, a)
  OBVIOUS
<1>3. PICK g : Trace(e, g) /\ Told(e, g[Len(e)])
  BY <1>1, <1>2, ToldWith
<1>4. Longer(c, a, e)
  BY <1>2, AppendIsLonger
<1>5. OwnLater(e, n) /\ ExitsLater(e, n) /\ Fresh(e, n)
  BY <1>1, <1>4, TakenWith
<1>6. QED
  BY <1>2, <1>3, <1>5 DEF History

(* They begin with nothing, ...                                            *)
LEMMA HistoryOfNothing ==
  ASSUME NEW n
  PROVE  History(<<>>, n)
<1>1. PICK c : c = <<>>
  OBVIOUS
<1>2. Len(c) = 0 /\ 1..0 = {}
  BY <1>1
<1>3. PICK f : f = [i \in 0..0 |-> InitChainState]
  OBVIOUS
<1>4. f[0] = InitChainState
  BY <1>3
<1>5. Trace(c, f)
  BY <1>2, <1>4 DEF Trace
<1>6. Told(c, InitChainState)
  <2>1. InitChainState.latest_by_signer \in [Key -> TimeOrNull]
    BY DEF InitChainState, TimeOrNull
  <2>2. Story(c, InitChainState)
    BY <1>2 DEF Story, ContextAfter
  <2>3. QED
    BY <1>2, <2>1, <2>2 DEF Told, Dated
<1>7. OwnLater(c, n) /\ ExitsLater(c, n) /\ Fresh(c, n)
  BY <1>2 DEF OwnLater, ExitsLater, Fresh
<1>8. QED
  BY <1>1, <1>2, <1>4, <1>5, <1>6, <1>7 DEF History

(* ... and a proposal makes the first.                                     *)
LEMMA HistoryOfProposal ==
  ASSUME now \in Nat, NEW a \in Assertion, Genuine(a), a.state = "proposed", NEW n
  PROVE  History(<<a>>, n)
<1>1. PICK c : c = <<>> /\ c \in Seq(Assertion) /\ Len(c) = 0
  <2>1. <<>> \in Seq(Assertion) /\ Len(<<>>) = 0
    OBVIOUS
  <2>2. QED
    BY <2>1
<1>2. PICK e : e = Append(c, a) /\ e = <<a>>
  <2>1. Append(<<>>, a) = <<a>>
    OBVIOUS
  <2>2. QED
    BY <1>1, <2>1
<1>3. Len(e) = 1 /\ e[1] = a /\ e \in Seq(Assertion) /\ Longer(c, a, e)
  <2>1. Len(e) = 1 /\ e[1] = a
    BY <1>2
  <2>2. e \in Seq(Assertion)
    BY <1>2
  <2>3. Longer(c, a, e)
    BY <1>1, <1>2, <2>1 DEF Longer
  <2>4. QED
    BY <2>1, <2>2, <2>3
<1>4. Honest(e)
  <2>1. Range(e) = {a}
    BY <1>2 DEF Range
  <2>2. QED
    BY <1>3, <2>1 DEF Honest, Shaped
<1>5. PICK f, w : Trace(c, f) /\ Told(c, w) /\ w = f[Len(c)]
  BY <1>1, HistoryOfNothing DEF History
<1>6. w = ContextAfter(c, Len(c)) /\ w = InitChainState
  BY <1>1, <1>5 DEF Told, Story, ContextAfter
<1>7. PICK w2 : w2 = Step(theEdge, lineage, Null, w, a) /\ w2 = Step(theEdge, lineage, now, w, a)
  BY ClockRefusesNothing
<1>8. Story(e, w2) /\ w2.latest_by_signer = DatedAfter(w.latest_by_signer, a)
  <2>1. c \in Seq(Assertion) /\ Len(c) < 3
    BY <1>1
  <2>2. w = ContextAfter(c, Len(c)) /\ w2 = Step(theEdge, lineage, now, w, a)
    BY <1>6, <1>7
  <2>3. QED
    BY <1>3, <1>4, <2>1, <2>2, StoryBegins
<1>9. Dated(e, w2)
  <2>1. a.asserted_at >= w.latest_by_signer[a.by]
    BY <1>6 DEF InitChainState, Assertion, Time, Null
  <2>2. Dated(c, w)
    BY <1>5 DEF Told
  <2>3. QED
    BY <1>1, <1>3, <1>8, <2>1, <2>2, DatedWith
<1>10. PICK g : Trace(e, g) /\ g[Len(e)] = w2
  BY <1>1, <1>2, <1>5, <1>7, TraceWith
<1>11. OwnLater(e, n) /\ ExitsLater(e, n) /\ Fresh(e, n)
  <2>1. \A i, j \in 1..1 : ~(i < j)
    OBVIOUS
  <2>2. QED
    BY <1>3, <2>1 DEF OwnLater, ExitsLater, Fresh
<1>12. QED
  BY <1>2, <1>8, <1>9, <1>10, <1>11 DEF History, Told

(* The third invariant.                                                    *)
HistoryInv == \A n \in Node : History(chain[n], n)

LEMMA HistoryChain ==
  ASSUME FederationInv, HistoryInv, NEW n \in Node, NEW r, History(r, n),
         chain' = [chain EXCEPT ![n] = r]
  PROVE  HistoryInv'
<1>1. chain'[n] = r /\ \A m \in Node : m # n => chain'[m] = chain[m]
  BY DEF FederationInv, TypeOK
<1>2. QED
  BY <1>1 DEF HistoryInv

(* confirm and act.                                                        *)
LEMMA HistoryRecord ==
  ASSUME FederationInv, OriginInv, HistoryInv, NEW n \in Node, NEW s \in WireAssertionState,
         NEW v \in BOOLEAN, Record(n, Signed(n, s, v)),
         \/ s = "closed" /\ n = owner
         \/ s \in {"confirmed", "released"} /\ n = creditor
         \/ s = "expired",
         s = "closed" => StateOf(chain[n]) # "contested-closure"
  PROVE  HistoryInv'
<1>1. PICK a : a = Signed(n, s, v)
  OBVIOUS
<1>2. /\ TypeOK /\ chain[n] \in Seq(Assertion) /\ now \in Nat
      /\ a \in Assertion /\ a.state = s
  BY <1>1, SignedType DEF FederationInv, TypeOK
<1>3. a.by = n /\ Genuine(a) /\ a.asserted_at = now
  BY <1>1, <1>2 DEF Signed, Genuine
<1>4. TakenAfter(chain[n], a) /\ chain' = [chain EXCEPT ![n] = Append(chain[n], a)]
  BY <1>1 DEF Record
<1>5. History(Append(chain[n], a), n)
  <2>1. Honest(chain[n]) /\ History(chain[n], n)
    BY HonestChain DEF HistoryInv
  <2>2. QED
    BY <1>2, <1>3, <1>4, <2>1, HistoryWithOwn
<1>6. QED
  BY <1>4, <1>5, HistoryChain

(* An assertion off the wire.                                              *)
LEMMA HistoryAssert ==
  ASSUME FederationInv, OriginInv, HistoryInv, NEW n \in Node, ReceiveAssert(n)
  PROVE  HistoryInv'
<1>1. PICK m \in net :
        /\ m.type = "assert"
        /\ chain' = [chain EXCEPT ![n] = IngestAssert(n, m.assertion)]
  BY DEF ReceiveAssert
<1>2. PICK a, c : a = m.assertion /\ c = chain[n]
  OBVIOUS
<1>3. c \in Seq(Assertion) /\ now \in Nat /\ a \in Assertion
  BY <1>1, <1>2, CarriedType DEF FederationInv, TypeOK
<1>4. Kept(a)
  BY <1>1, <1>2 DEF OriginInv, Brought
<1>5. Honest(c) /\ History(c, n)
  BY <1>2, HonestChain DEF HistoryInv
<1>6. PICK r : r = IngestAssert(n, a)
  OBVIOUS
<1>7. History(r, n)
  <2>1. CASE n \in holds /\ a \notin Range(c) /\ TakenAfter(c, a)
    <3>1. r = Append(c, a)
      BY <1>2, <1>6, <2>1 DEF IngestAssert
    <3>2. a.by # n
      BY <1>2, <1>4, <2>1 DEF Kept
    <3>3. \A h, q \in 1..Len(c) : h < q /\ c[q].by = n => c[h] # a
      BY <1>3, <2>1 DEF Range
    <3>4. QED
      BY <1>3, <1>4, <1>5, <2>1, <3>1, <3>2, <3>3, HistoryWithTaken DEF Kept
  <2>2. CASE ~(n \in holds /\ a \notin Range(c) /\ TakenAfter(c, a))
    BY <1>2, <1>5, <1>6, <2>2 DEF IngestAssert
  <2>3. QED
    BY <2>1, <2>2
<1>8. chain' = [chain EXCEPT ![n] = r]
  BY <1>1, <1>2, <1>6
<1>9. QED
  BY <1>7, <1>8, HistoryChain

(* A chain off the wire: what it adds was the other's and was not held.    *)
LEMMA HistoryRecon ==
  ASSUME FederationInv, OriginInv, HistoryInv, NEW n \in Node, ReceiveReconResponse(n)
  PROVE  HistoryInv'
<1>1. PICK m \in net :
        /\ m.type = "recon_response"
        /\ chain' = [chain EXCEPT ![n] = ApplyReconResponse(chain[n], m.assertions)]
  BY DEF ReceiveReconResponse
<1>2. PICK s, c : s = m.assertions /\ c = chain[n]
  OBVIOUS
<1>3. c \in Seq(Assertion) /\ now \in Nat /\ s \in Seq(Assertion) /\ Range(s) \subseteq Assertion
  BY <1>1, <1>2, CarriedType DEF FederationInv, TypeOK
<1>4. \A a \in Range(s) \ Range(c) : Genuine(a) /\ a.by # n
  <2>1. \A a \in Range(s) : Kept(a)
    BY <1>1, <1>2 DEF OriginInv, Brought
  <2>2. QED
    BY <1>2, <2>1 DEF Kept
<1>5. PICK N \in Nat : N = Len(c) /\ DOMAIN c = 1..N
  BY <1>3
<1> DEFINE Grows(h) == /\ Honest(h) /\ History(h, n) /\ Len(h) >= N
                       /\ \A i \in 1..N : h[i] = c[i]
                       /\ \A i \in 1..Len(h) : i > N => h[i].by # n
           P == {h \in Seq(Assertion) : Grows(h)}
<1>6. Closed(P, Range(s) \ Range(c))
  <2>1. ASSUME NEW h \in P, NEW a \in Range(s) \ Range(c), TakenAfter(h, a)
        PROVE  Append(h, a) \in P
    <3>1. h \in Seq(Assertion) /\ Grows(h) /\ a \in Assertion /\ Genuine(a) /\ a.by # n
      BY <1>3, <1>4
    <3>2. PICK k \in Nat : k = Len(h)
      BY <3>1
    <3>3. PICK e : e = Append(h, a)
      OBVIOUS
    <3>4. /\ e \in Seq(Assertion) /\ Len(e) = k + 1 /\ e[k + 1] = a
          /\ \A i \in 1..k : e[i] = h[i]
      BY <3>1, <3>2, <3>3
    <3>5. Honest(e)
      BY <1>3, <2>1, <3>1, <3>3, ShapedWith
    <3>6. \A i, q \in 1..Len(h) : i < q /\ h[q].by = n => h[i] # a
      <4>1. SUFFICES ASSUME NEW i \in 1..Len(h), NEW q \in 1..Len(h), i < q, h[q].by = n
                     PROVE  h[i] # a
        OBVIOUS
      <4>2. i \in 1..N /\ h[i] = c[i]
        BY <1>5, <3>1, <3>2, <4>1
      <4>3. c[i] \in Range(c)
        BY <1>5, <4>2 DEF Range
      <4>4. QED
        BY <2>1, <4>2, <4>3
    <3>7. History(e, n)
      BY <1>3, <2>1, <3>1, <3>3, <3>6, HistoryWithTaken
    <3>8. Len(e) >= N /\ \A i \in 1..N : e[i] = c[i]
      BY <1>5, <3>1, <3>2, <3>4
    <3>9. \A i \in 1..Len(e) : i > N => e[i].by # n
      <4>1. \A i \in 1..(k + 1) : i = k + 1 \/ i \in 1..k
        OBVIOUS
      <4>2. QED
        BY <3>1, <3>2, <3>4, <4>1
    <3>10. QED
      BY <3>3, <3>4, <3>5, <3>7, <3>8, <3>9
  <2>2. QED
    BY <2>1 DEF Closed
<1>7. c \in P
  <2>1. Honest(c) /\ History(c, n)
    BY <1>2, HonestChain DEF HistoryInv
  <2>2. QED
    BY <1>3, <1>5, <2>1
<1>8. PICK r : r = ApplyReconResponse(c, s)
  OBVIOUS
<1>9. r \in P
  <2> HIDE DEF P
  <2>1. QED
    BY <1>3, <1>6, <1>7, <1>8, ReconKeeps
<1>10. History(r, n) /\ chain' = [chain EXCEPT ![n] = r]
  BY <1>1, <1>2, <1>8, <1>9
<1>11. QED
  BY <1>10, HistoryChain

(* The proposal, signed or off the wire: the first there is.               *)
LEMMA HistoryPropose ==
  ASSUME FederationInv, OriginInv, HistoryInv, CommitAssertion \/ ReceivePropose
  PROVE  HistoryInv'
<1>1. /\ owner \in Node /\ creditor \in Node /\ now \in Nat /\ TypeOK
      /\ chain[owner] \in Seq(Assertion) /\ chain[creditor] \in Seq(Assertion)
  BY TheOther DEF FederationInv, TypeOK
<1>2. CASE CommitAssertion
  <2>1. PICK a : a = Signed(owner, "proposed", FALSE)
    OBVIOUS
  <2>2. a \in Assertion /\ a.state = "proposed" /\ Genuine(a)
    <3>1. a \in Assertion /\ a.state = "proposed"
      BY <1>1, <2>1, SignedType DEF WireAssertionState
    <3>2. QED
      BY <1>1, <2>1, <3>1 DEF Signed, Genuine
  <2>3. Append(chain[owner], a) = <<a>>
    <3>1. chain[owner] = <<>>
      BY <1>2 DEF FederationInv, Stages, CommitAssertion
    <3>2. Append(<<>>, a) = <<a>>
      BY <2>2
    <3>3. QED
      BY <3>1, <3>2
  <2>4. chain' = [chain EXCEPT ![owner] = <<a>>]
    BY <1>2, <2>1, <2>3 DEF CommitAssertion
  <2>5. QED
    BY <1>1, <2>2, <2>4, HistoryOfProposal, HistoryChain
<1>3. CASE ReceivePropose
  <2>1. PICK m \in net :
          /\ m.type = "propose"
          /\ chain' = [chain EXCEPT ![creditor] =
                         IF m.assertion \in Range(chain[creditor]) THEN chain[creditor]
                         ELSE Append(chain[creditor], m.assertion)]
    BY <1>3 DEF ReceivePropose
  <2>2. PICK a, c : a = m.assertion /\ c = chain[creditor]
    OBVIOUS
  <2>3. /\ chain[owner] # <<>> /\ a = chain[owner][1]
        /\ c # <<>> => a \in Range(c)
    BY <2>1, <2>2 DEF FederationInv, Chains, Wire, Carries
  <2>4. a \in Assertion /\ a \in Range(chain[owner]) /\ Len(chain[owner]) >= 1
    BY <1>1, <2>3, RangeType
  <2>5. Genuine(a) /\ a.state = "proposed"
    BY <1>1, <2>3, <2>4 DEF OriginInv, Shaped, Kept
  <2>6. PICK r : r = IF a \in Range(c) THEN c ELSE Append(c, a)
    OBVIOUS
  <2>7. History(r, creditor)
    <3>1. CASE a \in Range(c)
      BY <1>1, <2>2, <2>6, <3>1 DEF HistoryInv
    <3>2. CASE a \notin Range(c)
      <4>1. c = <<>> /\ r = Append(c, a)
        BY <2>3, <2>6, <3>2
      <4>2. r = <<a>>
        BY <2>4, <4>1
      <4>3. QED
        BY <1>1, <2>4, <2>5, <4>2, HistoryOfProposal
    <3>3. QED
      BY <3>1, <3>2
  <2>8. chain' = [chain EXCEPT ![creditor] = r]
    BY <2>1, <2>2, <2>6
  <2>9. QED
    BY <1>1, <2>7, <2>8, HistoryChain
<1>4. QED
  BY <1>2, <1>3

(* Every step keeps the third invariant.                                   *)
LEMMA HistoryStep ==
  ASSUME FederationInv, OriginInv, HistoryInv, Next
  PROVE  HistoryInv'
<1>1. owner \in Node /\ creditor \in Node
  BY TheOther
<1>2. CASE chain' = chain
  BY <1>2 DEF HistoryInv
<1>3. CASE CommitAssertion \/ ReceivePropose
  BY <1>3, HistoryPropose
<1>4. CASE Confirm
  BY <1>1, <1>4, HistoryRecord DEF Confirm, WireAssertionState
<1>5. CASE ReleaseIt
  BY <1>1, <1>5, HistoryRecord DEF ReleaseIt, WireAssertionState
<1>6. ASSUME NEW evidence \in BOOLEAN, Done(evidence) PROVE HistoryInv'
  BY <1>1, <1>6, HistoryRecord DEF Done, WireAssertionState
<1>7. ASSUME NEW n \in Node, ExpireIt(n) PROVE HistoryInv'
  BY <1>7, HistoryRecord DEF ExpireIt, WireAssertionState
<1>8. ASSUME NEW n \in Node, ReceiveAssert(n) PROVE HistoryInv'
  BY <1>8, HistoryAssert
<1>9. ASSUME NEW n \in Node, ReceiveReconResponse(n) PROVE HistoryInv'
  BY <1>9, HistoryRecon
<1>10. ASSUME NEW n \in Node, Push(n) \/ RequestRecon(n) \/ AnswerRecon(n) \/ Restart(n)
       PROVE  chain' = chain
  BY <1>10 DEF Push, PushOf, RequestRecon, AnswerRecon, Restart, vault
<1>11. CommitEdge \/ QueuePropose \/ CrashInCommit \/ CrashInReceivePropose \/ Lose \/ Tick
         => chain' = chain
  BY DEF CommitEdge, QueuePropose, CrashInCommit, CrashInReceivePropose, Lose, Tick, vault
<1>12. QED
  BY <1>2, <1>3, <1>4, <1>5, <1>6, <1>7, <1>8, <1>9, <1>10, <1>11
     DEF Next, InProcess, Commit

LEMMA HistoryInvHolds == Spec => [](FederationInv /\ OriginInv /\ HistoryInv)
<1>1. Init => HistoryInv
  <2>1. Init => \A n \in Node : chain[n] = <<>>
    BY DEF Init
  <2>2. QED
    BY <2>1, HistoryOfNothing DEF HistoryInv
<1>2. FederationInv /\ OriginInv /\ HistoryInv /\ [Next]_vars => HistoryInv'
  <2>1. ASSUME FederationInv, OriginInv, HistoryInv, UNCHANGED vars PROVE HistoryInv'
    BY <2>1 DEF HistoryInv, vars
  <2>2. QED
    BY <2>1, HistoryStep
<1>3. QED
  BY <1>1, <1>2, OriginInvHolds, PTL DEF Spec

-----------------------------------------------------------------------------
(* What a set of assertions says by itself.                                *)

ExitsIn(c) == {a \in Range(c) : a.state \in UNILATERAL_EXITS}

(* The exits of a chain follow its first two assertions.                   *)
LEMMA ExitPlaces ==
  ASSUME NEW c \in Seq(Assertion), Honest(c)
  PROVE  /\ \A i \in 1..Len(c) : c[i].state \in UNILATERAL_EXITS => c[i] \in ExitsIn(c)
         /\ \A z \in ExitsIn(c) : \E i \in 3..Len(c) : z = c[i]
         /\ \A z \in ExitsIn(c) : z \in Assertion /\ z.by \in Node
         /\ Len(c) >= 3 => c[3] \in ExitsIn(c)
         /\ ExitsIn(c) = {} <=> Len(c) < 3
<1>1. PICK N \in Nat : N = Len(c) /\ DOMAIN c = 1..N
  OBVIOUS
<1>2. \A i \in 1..N : c[i].state \in UNILATERAL_EXITS => c[i] \in ExitsIn(c)
  BY <1>1 DEF ExitsIn, Range
<1>3. \A z \in ExitsIn(c) : \E i \in 3..N : z = c[i]
  <2>1. SUFFICES ASSUME NEW z \in ExitsIn(c) PROVE \E i \in 3..N : z = c[i]
    OBVIOUS
  <2>2. PICK i \in 1..N : z = c[i] /\ c[i].state \in UNILATERAL_EXITS
    BY <1>1 DEF ExitsIn, Range
  <2>3. i # 1 /\ i # 2
    BY <1>1, <2>2 DEF Honest, Shaped, UNILATERAL_EXITS
  <2>4. i \in 3..N
    BY <2>3
  <2>5. QED
    BY <2>2, <2>4
<1>4. \A z \in ExitsIn(c) : z \in Assertion /\ z.by \in Node
  BY RangeType DEF ExitsIn, Honest, Genuine
<1>5. N >= 3 => c[3] \in ExitsIn(c)
  BY <1>1, <1>2 DEF Honest, Shaped, FirstExit
<1>6. ExitsIn(c) = {} <=> N < 3
  <2>1. N < 3 => 3..N = {}
    OBVIOUS
  <2>2. QED
    BY <1>3, <1>5, <2>1
<1>7. QED
  BY <1>1, <1>2, <1>3, <1>4, <1>5, <1>6

(* Before an exit, the state is read off the set ...                       *)
LEMMA StateBeforeExit ==
  ASSUME NEW c \in Seq(Assertion), Honest(c), NEW w, Story(c, w), Len(c) < 3
  PROVE  w.state = IF Range(c) = {} THEN "none"
                   ELSE IF \E a \in Range(c) : a.state = "confirmed" THEN "open"
                   ELSE "proposed"
<1>1. PICK N \in 0..2 : N = Len(c) /\ DOMAIN c = 1..N
  <2>1. PICK k \in Nat : k = Len(c) /\ DOMAIN c = 1..k
    OBVIOUS
  <2>2. k \in 0..2
    BY <2>1
  <2>3. QED
    BY <2>1, <2>2
<1>2. w = ContextAfter(c, N)
  BY <1>1 DEF Story
<1>3. /\ N >= 1 => c[1].state = "proposed"
      /\ N >= 2 => c[2].state = "confirmed"
  BY <1>1 DEF Honest, Shaped
<1>4. CASE N = 0
  <2>1. Range(c) = {}
    BY <1>1, <1>4 DEF Range
  <2>2. QED
    BY <1>2, <1>4, <2>1 DEF ContextAfter, InitChainState
<1>5. CASE N = 1
  <2>1. Range(c) = {c[1]}
    BY <1>1, <1>5 DEF Range
  <2>2. QED
    BY <1>2, <1>3, <1>5, <2>1 DEF ContextAfter, Proposed, Context
<1>6. CASE N = 2
  <2>1. c[2] \in Range(c)
    BY <1>1, <1>6 DEF Range
  <2>2. QED
    BY <1>2, <1>3, <1>6, <2>1 DEF ContextAfter, Confirmed, Context
<1>7. QED
  BY <1>4, <1>5, <1>6

(* ... and where one party alone has exited, too.                          *)
Uncontested(E, s) ==
  /\ \A y, z \in E : y.by = z.by
  /\ \A z \in E : /\ (\A y \in E : y = z) =>
                       s = (IF z.state = "closed" THEN "pending-acceptance" ELSE z.state)
                  /\ (\E y \in E : y # z) => s = "closed"

LEMMA StateOfOneSide ==
  ASSUME NEW c \in Seq(Assertion), Honest(c), NEW w, Exit(c, w) \/ Accepted(c, w)
  PROVE  Uncontested(ExitsIn(c), w.state)
<1>1. PICK x, N : x = c[3] /\ N = Len(c) /\ (N = 3 \/ N = 4)
  BY DEF Exit, Accepted
<1>2. x \in ExitsIn(c)
  BY <1>1, ExitPlaces
<1>3. CASE Exit(c, w)
  <2>1. \A i \in 3..N : i = 3
    BY <1>1, <1>3 DEF Exit
  <2>2. \A z \in ExitsIn(c) : z = x
    BY <1>1, <2>1, ExitPlaces
  <2>3. QED
    BY <1>1, <1>2, <1>3, <2>2 DEF Uncontested, Exit
<1>4. CASE Accepted(c, w)
  <2>1. PICK y : y = c[4] /\ y # x /\ y.by = x.by /\ w.state = "closed"
    BY <1>1, <1>4 DEF Accepted, Honest, Shaped
  <2>2. N = 4 /\ \A i \in 3..N : i = 3 \/ i = 4
    BY <1>1, <1>4 DEF Accepted
  <2>3. \A z \in ExitsIn(c) : z = x \/ z = y
    BY <1>1, <2>1, <2>2, ExitPlaces
  <2>4. y \in ExitsIn(c)
    <3>1. 4 \in 1..Len(c) /\ c[4].state \in UNILATERAL_EXITS
      BY <1>1, <1>4, <2>2 DEF Accepted, UNILATERAL_EXITS
    <3>2. QED
      BY <2>1, <3>1, ExitPlaces
  <2>5. QED
    BY <1>2, <2>1, <2>3, <2>4 DEF Uncontested
<1>5. QED
  BY <1>3, <1>4

(* Where it is contested, the first exit is the first of its signer, what  *)
(* contests it is the other's and no later, ...                            *)
LEMMA FirstOfItsSigner ==
  ASSUME NEW c \in Seq(Assertion), Honest(c), NEW w, Dated(c, w),
         NEW j, FirstContest(c, j)
  PROVE  /\ c[3] \in ExitsIn(c) /\ c[j] \in ExitsIn(c) /\ j \in 4..Len(c)
         /\ c[3].by # c[j].by /\ c[j].asserted_at <= c[3].asserted_at
         /\ \A z \in ExitsIn(c) : z.by = c[3].by => c[3].asserted_at <= z.asserted_at
<1>1. PICK N \in Nat : N = Len(c) /\ DOMAIN c = 1..N
  OBVIOUS
<1>2. j \in 4..N /\ Against(c[3], c[j])
  BY <1>1 DEF FirstContest
<1>3. j \in 1..N /\ 3 \in 1..N
  BY <1>2
<1>4. c[3] \in ExitsIn(c) /\ c[j] \in ExitsIn(c)
  BY <1>1, <1>2, <1>3, ExitPlaces DEF Against
<1>5. ASSUME NEW z \in ExitsIn(c), z.by = c[3].by PROVE c[3].asserted_at <= z.asserted_at
  <2>1. PICK i \in 3..N : z = c[i]
    BY <1>1, ExitPlaces
  <2>2. CASE i = 3
    <3>1. c[3] \in Assertion
      BY <1>4, ExitPlaces
    <3>2. QED
      BY <2>1, <2>2, <3>1 DEF Assertion, Time
  <2>3. CASE i # 3
    <3>1. i \in 1..N /\ 3 < i
      BY <2>3
    <3>2. QED
      BY <1>1, <1>3, <1>5, <2>1, <3>1 DEF Dated
  <2>4. QED
    BY <2>2, <2>3
<1>6. QED
  BY <1>1, <1>2, <1>4, <1>5 DEF Against

(* ... so whoever holds the chain has seen no own exit before the other's. *)
LEMMA OthersFirst ==
  ASSUME NEW c \in Seq(Assertion), Honest(c), NEW w, Dated(c, w),
         NEW j, FirstContest(c, j), NEW n, OwnLater(c, n),
         NEW z \in ExitsIn(c), z.by = n
  PROVE  \E m \in ExitsIn(c) : m.by # n /\ m.asserted_at <= z.asserted_at
<1>1. PICK N \in Nat : N = Len(c) /\ DOMAIN c = 1..N
  OBVIOUS
<1>2. PICK x, y : x = c[3] /\ y = c[j]
  OBVIOUS
<1>3. /\ x \in ExitsIn(c) /\ y \in ExitsIn(c) /\ x.by # y.by
      /\ y.asserted_at <= x.asserted_at
      /\ x.by = n => x.asserted_at <= z.asserted_at
  BY <1>2, FirstOfItsSigner
<1>4. x.asserted_at \in Nat /\ y.asserted_at \in Nat /\ z.asserted_at \in Nat
  <2>1. x \in Assertion /\ y \in Assertion /\ z \in Assertion
    BY <1>3, ExitPlaces
  <2>2. QED
    BY <2>1 DEF Assertion, Time
<1>5. CASE x.by = n
  BY <1>3, <1>4, <1>5
<1>6. CASE x.by # n
  <2>1. PICK i \in 3..N : z = c[i]
    BY <1>1, ExitPlaces
  <2>2. i # 3
    BY <1>2, <1>6, <2>1
  <2>3. i \in 1..N /\ 3 \in 1..N /\ 3 < i
    BY <2>2
  <2>4. x.asserted_at <= z.asserted_at
    BY <1>1, <1>2, <2>1, <2>3 DEF OwnLater
  <2>5. QED
    BY <1>3, <1>6, <2>4
<1>7. QED
  BY <1>5, <1>6

(* t is the date of the first exits of both.                               *)
FirstOfBoth(E, t) ==
  /\ \A z \in E : t <= z.asserted_at
  /\ \A n \in Node : \E z \in E : z.by = n /\ z.asserted_at = t

(* No node's own vault has two exits of its own dated so.                  *)
LEMMA OneAtFirst ==
  ASSUME NEW c \in Seq(Assertion), Honest(c), NEW n, ExitsLater(c, n),
         NEW t \in Nat, FirstOfBoth(ExitsIn(c), t),
         NEW y \in ExitsIn(c), NEW z \in ExitsIn(c), y.by = n, z.by = n,
         y.asserted_at = t, z.asserted_at = t
  PROVE  y = z
<1>1. PICK N \in Nat : N = Len(c) /\ DOMAIN c = 1..N
  OBVIOUS
<1>2. PICK i \in 3..N, k \in 3..N : y = c[i] /\ z = c[k]
  BY <1>1, ExitPlaces
<1>3. i \in 1..N /\ k \in 1..N
  OBVIOUS
<1>4. \A h \in 1..N : c[h].state \in UNILATERAL_EXITS => ~(c[h].asserted_at < t)
  <2>1. SUFFICES ASSUME NEW h \in 1..N, c[h].state \in UNILATERAL_EXITS
                 PROVE  ~(c[h].asserted_at < t)
    OBVIOUS
  <2>2. c[h] \in ExitsIn(c)
    BY <1>1, <2>1, ExitPlaces
  <2>3. c[h].asserted_at \in Nat
    BY <2>2, ExitPlaces DEF Assertion, Time
  <2>4. QED
    BY <2>2, <2>3 DEF FirstOfBoth
<1>5. y.state \in UNILATERAL_EXITS /\ z.state \in UNILATERAL_EXITS
  BY DEF ExitsIn
<1>6. ~(i < k) /\ ~(k < i)
  BY <1>1, <1>2, <1>3, <1>4, <1>5 DEF ExitsLater
<1>7. i = k
  BY <1>6
<1>8. QED
  BY <1>2, <1>7

(* Then the exit is not contested a second time, ...                       *)
LEMMA NotAgain ==
  ASSUME NEW c \in Seq(Assertion), Honest(c), NEW w, Dated(c, w),
         NEW j, FirstContest(c, j), NEW n \in Node, OwnLater(c, n), Fresh(c, n),
         NEW t \in Nat, FirstOfBoth(ExitsIn(c), t),
         \A y, z \in ExitsIn(c) :
           y.by # n /\ z.by # n /\ y.asserted_at = t /\ z.asserted_at = t => y = z
  PROVE  ~Again(c, j) /\ c[3].asserted_at = t /\ c[j].asserted_at = t
<1>1. PICK N \in Nat : N = Len(c) /\ DOMAIN c = 1..N
  OBVIOUS
<1>2. PICK x, y : x = c[3] /\ y = c[j]
  OBVIOUS
<1>3. /\ x \in ExitsIn(c) /\ y \in ExitsIn(c) /\ j \in 4..N /\ x.by # y.by
      /\ y.asserted_at <= x.asserted_at
      /\ \A z \in ExitsIn(c) : z.by = x.by => x.asserted_at <= z.asserted_at
  BY <1>1, <1>2, FirstOfItsSigner
<1>4. \A z \in ExitsIn(c) : z.asserted_at \in Nat /\ t <= z.asserted_at /\ z.by \in Node
  BY ExitPlaces DEF FirstOfBoth, Assertion, Time
<1>5. x.asserted_at = t /\ y.asserted_at = t
  <2>1. PICK z \in ExitsIn(c) : z.by = x.by /\ z.asserted_at = t
    BY <1>3, <1>4 DEF FirstOfBoth
  <2>2. x.asserted_at <= t /\ t <= x.asserted_at /\ t <= y.asserted_at
    BY <1>3, <1>4, <2>1
  <2>3. x.asserted_at \in Nat /\ y.asserted_at \in Nat
    BY <1>3, <1>4
  <2>4. QED
    BY <1>3, <2>2, <2>3
<1>6. SUFFICES ASSUME Again(c, j) PROVE FALSE
  BY <1>2, <1>5
<1>7. PICK q \in (j + 1)..N : \E l \in (q + 1)..N : Overdue(y, c[q]) /\ Against(x, c[l])
  BY <1>1, <1>2, <1>6 DEF Again
<1>8. PICK l \in (q + 1)..N : Overdue(y, c[q]) /\ Against(x, c[l])
  BY <1>7
<1>9. j \in 1..N /\ q \in 1..N /\ l \in 1..N /\ j < q /\ q < l
  BY <1>3
<1>10. PICK u, v : u = c[q] /\ v = c[l]
  OBVIOUS
<1>11. u \in ExitsIn(c) /\ v \in ExitsIn(c)
  BY <1>1, <1>8, <1>9, <1>10, ExitPlaces DEF Overdue, Against, UNILATERAL_EXITS
<1>12. u.asserted_at > t
  <2>1. u.asserted_at >= t + DISPUTE_WINDOW
    BY <1>5, <1>8, <1>10 DEF Overdue
  <2>2. u.asserted_at \in Nat
    BY <1>4, <1>11
  <2>3. QED
    BY <2>1, <2>2, FederationAssumption, WindowAssumption
<1>13. v.asserted_at = t /\ v.by # x.by
  <2>1. v.asserted_at <= t /\ v.by # x.by
    BY <1>5, <1>8, <1>10 DEF Against
  <2>2. QED
    BY <1>4, <1>11, <2>1
<1>14. ~(u.asserted_at <= v.asserted_at)
  BY <1>4, <1>11, <1>12, <1>13
<1>15. u.by # v.by
  BY <1>1, <1>9, <1>10, <1>14 DEF Dated
<1>16. v.by # n
  BY <1>1, <1>9, <1>10, <1>14 DEF OwnLater
<1>17. u.by = n
  BY <1>4, <1>11, <1>15, <1>16 DEF Node
<1>18. y.by = v.by /\ y.by # n
  BY <1>3, <1>4, <1>11, <1>13, <1>16 DEF Node
<1>19. v = y
  BY <1>3, <1>5, <1>11, <1>13, <1>16, <1>18
<1>20. QED
  BY <1>1, <1>2, <1>9, <1>10, <1>16, <1>17, <1>19 DEF Fresh

(* ... and whether it is a deadlock still is read off the set, too.        *)
Deadlocked(E, t, s) ==
  s = IF \E z \in E : z.state = "expired" /\ z.asserted_at > t
      THEN "expired" ELSE "contested-closure"

LEMMA StateOfDeadlock ==
  ASSUME NEW c \in Seq(Assertion), Honest(c), NEW w,
         NEW j, FirstContest(c, j), Contested(c, j, w), ~Again(c, j),
         NEW t \in Nat, c[3].asserted_at = t, c[j].asserted_at = t
  PROVE  Deadlocked(ExitsIn(c), t, w.state)
<1>1. PICK N \in Nat : N = Len(c) /\ DOMAIN c = 1..N
  OBVIOUS
<1>2. j \in 4..N /\ (j = 4 \/ (j = 5 /\ c[4].state = "closed"))
  BY <1>1 DEF FirstContest
<1>3. CASE w.state = "expired" /\ Expired(c, j)
  <2>1. PICK q \in (j + 1)..N : Overdue(c[j], c[q])
    BY <1>1, <1>3 DEF Expired
  <2>2. q \in 1..N
    BY <1>2
  <2>3. c[q] \in ExitsIn(c) /\ c[q].state = "expired"
    BY <1>1, <2>1, <2>2, ExitPlaces DEF Overdue, UNILATERAL_EXITS
  <2>4. c[q].asserted_at > t
    <3>1. c[q].asserted_at >= t + DISPUTE_WINDOW
      BY <2>1 DEF Overdue
    <3>2. c[q].asserted_at \in Nat
      BY <2>3, ExitPlaces DEF Assertion, Time
    <3>3. QED
      BY <3>1, <3>2, FederationAssumption, WindowAssumption
  <2>5. QED
    BY <1>3, <2>3, <2>4 DEF Deadlocked
<1>4. CASE w.state = "contested-closure" /\ \A i \in (j + 1)..N : c[i].state = "closed"
  <2>1. ASSUME NEW z \in ExitsIn(c), z.state = "expired" PROVE ~(z.asserted_at > t)
    <3>1. PICK i \in 3..N : z = c[i]
      BY <1>1, ExitPlaces
    <3>2. i = 3 \/ i = 4 \/ i = j \/ i \in (j + 1)..N
      BY <1>2
    <3>3. i = 3 \/ i = j
      BY <1>2, <1>4, <2>1, <3>1, <3>2
    <3>4. QED
      BY <3>1, <3>3
  <2>2. QED
    BY <1>4, <2>1 DEF Deadlocked
<1>5. QED
  BY <1>1, <1>3, <1>4 DEF Contested

(* The history of a node's chain, and what it says where there was a       *)
(* contest: each was late, by what the other's vault shows.                *)
LEMMA SameDate ==
  ASSUME NEW E, NEW E2, E = E2, \A z \in E : z \in Assertion /\ z.by \in Node, E # {},
         \A z \in E : z.by = owner =>
           \E m \in E : m.by # owner /\ m.asserted_at <= z.asserted_at,
         \A z \in E : z.by = creditor =>
           \E m \in E : m.by # creditor /\ m.asserted_at <= z.asserted_at
  PROVE  \E t \in Nat : FirstOfBoth(E, t)
<1> DEFINE dates == {d \in Nat : \E z \in E : z.asserted_at = d}
<1>1. \A z \in E : z.asserted_at \in Nat
  BY DEF Assertion, Time
<1>2. PICK t \in dates : \A d \in dates : t <= d
  <2>1. dates # {} /\ dates \subseteq Nat
    BY <1>1
  <2>2. QED
    BY <2>1, LeastNatural
<1>3. t \in Nat /\ \A z \in E : t <= z.asserted_at
  BY <1>1, <1>2
<1>4. PICK z \in E : z.asserted_at = t
  BY <1>2
<1>5. PICK m \in E : m.by # z.by /\ m.asserted_at <= t
  BY <1>4 DEF Node
<1>6. m.asserted_at = t
  BY <1>1, <1>3, <1>5
<1>7. \A n \in Node : n = z.by \/ n = m.by
  BY <1>5 DEF Node
<1>8. QED
  BY <1>3, <1>4, <1>5, <1>6, <1>7 DEF FirstOfBoth

(* Two chains of one set, in the vaults of the two parties.                *)
LEMMA SameSetSameEnd ==
  ASSUME now \in Nat, NEW c \in Seq(Assertion), NEW d \in Seq(Assertion),
         Honest(c), Honest(d), Range(c) = Range(d),
         NEW w, Told(c, w), OwnLater(c, owner), ExitsLater(c, owner), Fresh(c, owner),
         NEW v, Told(d, v), OwnLater(d, creditor), ExitsLater(d, creditor), Fresh(d, creditor)
  PROVE  w.state = v.state
<1>1. PICK E : E = ExitsIn(c) /\ E = ExitsIn(d)
  BY DEF ExitsIn
<1>2. Dated(c, w) /\ Story(c, w) /\ Dated(d, v) /\ Story(d, v)
  BY DEF Told
<1>3. Len(c) \in Nat /\ Len(d) \in Nat
  OBVIOUS
<1>4. \A z \in E : z \in Assertion /\ z.by \in Node
  BY <1>1, ExitPlaces
<1>5. owner \in Node /\ creditor \in Node /\ owner # creditor
  BY TheOther, FederationAssumption
<1>6. Len(c) < 3 <=> Len(d) < 3
  <2>1. Len(c) < 3 <=> E = {}
    BY <1>1, ExitPlaces
  <2>2. Len(d) < 3 <=> E = {}
    BY <1>1, ExitPlaces
  <2>3. QED
    BY <2>1, <2>2
<1>7. CASE Len(c) < 3
  BY <1>2, <1>6, <1>7, StateBeforeExit
<1>8. CASE ~(Len(c) < 3)
  <2>1. /\ Exit(c, w) \/ Accepted(c, w) \/ AfterContest(c, w)
        /\ Exit(d, v) \/ Accepted(d, v) \/ AfterContest(d, v)
    BY <1>2, <1>6, <1>8 DEF Story
  <2>2. E # {}
    BY <1>1, <1>8, ExitPlaces
  <2>3. AfterContest(c, w) => \E y, z \in E : y.by # z.by
    <3>1. SUFFICES ASSUME AfterContest(c, w) PROVE \E y, z \in E : y.by # z.by
      OBVIOUS
    <3>2. PICK j : FirstContest(c, j)
      BY <3>1 DEF AfterContest
    <3>3. c[3] \in ExitsIn(c) /\ c[j] \in ExitsIn(c) /\ c[3].by # c[j].by
      BY <1>2, <3>2, FirstOfItsSigner
    <3>4. QED
      BY <1>1, <3>3
  <2>4. AfterContest(d, v) => \E y, z \in E : y.by # z.by
    <3>1. SUFFICES ASSUME AfterContest(d, v) PROVE \E y, z \in E : y.by # z.by
      OBVIOUS
    <3>2. PICK j : FirstContest(d, j)
      BY <3>1 DEF AfterContest
    <3>3. d[3] \in ExitsIn(d) /\ d[j] \in ExitsIn(d) /\ d[3].by # d[j].by
      BY <1>2, <3>2, FirstOfItsSigner
    <3>4. QED
      BY <1>1, <3>3
  <2>5. CASE \A y, z \in E : y.by = z.by
    <3>1. Uncontested(E, w.state)
      BY <1>1, <2>1, <2>3, <2>5, StateOfOneSide
    <3>2. Uncontested(E, v.state)
      BY <1>1, <2>1, <2>4, <2>5, StateOfOneSide
    <3>3. QED
      BY <2>2, <3>1, <3>2 DEF Uncontested
  <2>6. CASE \E y, z \in E : y.by # z.by
    <3>1. AfterContest(c, w) /\ AfterContest(d, v)
      BY <1>1, <2>1, <2>6, StateOfOneSide DEF Uncontested
    <3>2. PICK j : FirstContest(c, j) /\ Contested(c, j, w)
      BY <3>1 DEF AfterContest
    <3>3. PICK k : FirstContest(d, k) /\ Contested(d, k, v)
      BY <3>1 DEF AfterContest
    <3>4. PICK t \in Nat : FirstOfBoth(E, t)
      <4>1. \A z \in E : z.by = owner =>
              \E m \in E : m.by # owner /\ m.asserted_at <= z.asserted_at
        BY <1>1, <1>2, <3>2, OthersFirst
      <4>2. \A z \in E : z.by = creditor =>
              \E m \in E : m.by # creditor /\ m.asserted_at <= z.asserted_at
        BY <1>1, <1>2, <3>3, OthersFirst
      <4>3. QED
        BY <1>4, <2>2, <4>1, <4>2, SameDate
    <3>5. ~Again(c, j) /\ c[3].asserted_at = t /\ c[j].asserted_at = t
      <4>1. \A y, z \in E :
              y.by # owner /\ z.by # owner /\ y.asserted_at = t /\ z.asserted_at = t => y = z
        <5>1. SUFFICES ASSUME NEW y \in E, NEW z \in E, y.by # owner, z.by # owner,
                              y.asserted_at = t, z.asserted_at = t
                       PROVE  y = z
          OBVIOUS
        <5>2. y.by = creditor /\ z.by = creditor
          BY <1>1, <1>4, <5>1 DEF Node
        <5>3. FirstOfBoth(ExitsIn(d), t) /\ y \in ExitsIn(d) /\ z \in ExitsIn(d)
          BY <1>1, <3>4, <5>1
        <5>4. QED
          BY <5>1, <5>2, <5>3, OneAtFirst
      <4>2. QED
        <5>1. /\ FirstOfBoth(ExitsIn(c), t)
              /\ \A y, z \in ExitsIn(c) :
                   y.by # owner /\ z.by # owner
                   /\ y.asserted_at = t /\ z.asserted_at = t => y = z
          BY <1>1, <3>4, <4>1
        <5>2. QED
          BY <1>2, <1>5, <3>2, <5>1, NotAgain
    <3>6. ~Again(d, k) /\ d[3].asserted_at = t /\ d[k].asserted_at = t
      <4>1. \A y, z \in E :
              y.by # creditor /\ z.by # creditor /\ y.asserted_at = t /\ z.asserted_at = t => y = z
        <5>1. SUFFICES ASSUME NEW y \in E, NEW z \in E, y.by # creditor, z.by # creditor,
                              y.asserted_at = t, z.asserted_at = t
                       PROVE  y = z
          OBVIOUS
        <5>2. y.by = owner /\ z.by = owner
          BY <1>1, <1>4, <5>1 DEF Node
        <5>3. FirstOfBoth(ExitsIn(c), t) /\ y \in ExitsIn(c) /\ z \in ExitsIn(c)
          BY <1>1, <3>4, <5>1
        <5>4. QED
          BY <5>1, <5>2, <5>3, OneAtFirst
      <4>2. QED
        <5>1. /\ FirstOfBoth(ExitsIn(d), t)
              /\ \A y, z \in ExitsIn(d) :
                   y.by # creditor /\ z.by # creditor
                   /\ y.asserted_at = t /\ z.asserted_at = t => y = z
          BY <1>1, <3>4, <4>1
        <5>2. QED
          BY <1>2, <1>5, <3>3, <5>1, NotAgain
    <3>7. Deadlocked(E, t, w.state) /\ Deadlocked(E, t, v.state)
      BY <1>1, <3>2, <3>3, <3>5, <3>6, StateOfDeadlock
    <3>8. QED
      BY <3>7 DEF Deadlocked
  <2>7. QED
    BY <2>5, <2>6
<1>9. QED
  BY <1>7, <1>8

(* Two nodes that hold the same assertions compute the same state, each in *)
(* the order its own came in and whoever contested whose exit              *)
(* (transitions.ts, recon.ts).  The table alone does not make this so: it  *)
(* reads a chain in the order it is stored in, and the same assertions in  *)
(* another order can lead elsewhere.  How a node's chain comes about does: *)
(* what it signs it dates after all it holds and judges by its own chain,  *)
(* and what it takes is what the other has signed and it does not hold.    *)
THEOREM SameActsSameState == Spec => []SameSetSameState
<1>1. FederationInv /\ OriginInv /\ HistoryInv => SameSetSameState
  <2> SUFFICES ASSUME FederationInv, OriginInv, HistoryInv,
                      Range(chain[owner]) = Range(chain[creditor])
               PROVE  StateOf(chain[owner]) = StateOf(chain[creditor])
    BY DEF SameSetSameState, Agree
  <2>1. PICK c, d : c = chain[owner] /\ d = chain[creditor]
    OBVIOUS
  <2>2. /\ owner \in Node /\ creditor \in Node /\ now \in Nat
        /\ c \in Seq(Assertion) /\ d \in Seq(Assertion)
    BY <2>1, TheOther DEF FederationInv, TypeOK
  <2>3. /\ Honest(c) /\ Honest(d) /\ Range(c) = Range(d)
        /\ History(c, owner) /\ History(d, creditor)
    BY <2>1, <2>2, HonestChain DEF HistoryInv
  <2>4. PICK f : /\ Trace(c, f) /\ Told(c, f[Len(c)])
                 /\ OwnLater(c, owner) /\ ExitsLater(c, owner) /\ Fresh(c, owner)
    BY <2>3 DEF History
  <2>5. PICK g : /\ Trace(d, g) /\ Told(d, g[Len(d)])
                 /\ OwnLater(d, creditor) /\ ExitsLater(d, creditor) /\ Fresh(d, creditor)
    BY <2>3 DEF History
  <2>6. f[Len(c)].state = g[Len(d)].state
    BY <2>2, <2>3, <2>4, <2>5, SameSetSameEnd
  <2>7. StateOf(c) = f[Len(c)].state
    BY <2>2, <2>3, <2>4, ReplayEnds DEF StateOf, Honest
  <2>8. StateOf(d) = g[Len(d)].state
    BY <2>2, <2>3, <2>5, ReplayEnds DEF StateOf, Honest
  <2>9. QED
    BY <2>1, <2>6, <2>7, <2>8
<1>2. QED
  BY <1>1, HistoryInvHolds, PTL
=============================================================================
