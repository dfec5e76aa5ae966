----------------------------- MODULE Node_proofs -----------------------------
(***************************************************************************)
(* Theorems about three parts that stand around a node and share nothing   *)
(* with each other: edge recovery on both its sides, an executor and its   *)
(* trust gradient, and the register with the walks and gestures on it.     *)
(* Each holds of its own specification, for every value of its constants;  *)
(* a proof cites the assumptions of its own part only.                     *)
(***************************************************************************)
EXTENDS Recovery, Executors, Gestures, FiniteSetTheorems, NaturalsInduction,
        WellFoundedInduction, TLAPS

-----------------------------------------------------------------------------
(* Loops.                                                                  *)

(* A set of naturals that is not empty has a least member.                 *)
LEMMA LeastNatural ==
  ASSUME NEW T, T \subseteq Nat, T # {}
  PROVE  \E n \in T : \A m \in T : n <= m
<1>1. IsWellFoundedOn(OpToRel(<, Nat), Nat)
  BY NatLessThanWellFounded, Zenon
<1>2. PICK n \in T : \A m \in T : ~(<<m, n>> \in OpToRel(<, Nat))
  BY <1>1, WFMin, Zenon
<1>3. \A m \in T : ~(m < n)
  BY <1>2, Zenon DEF OpToRel
<1>4. QED
  BY <1>3

(* What holds before a loop and is kept by each turn holds after any turn. *)
LEMMA ByTurns ==
  ASSUME NEW N \in Nat, NEW ok, 0 \in ok,
         \A i \in 1..N : i - 1 \in ok => i \in ok
  PROVE  \A i \in 0..N : i \in ok
<1> DEFINE bad == {i \in 0..N : i \notin ok}
<1>1. SUFFICES ASSUME bad # {} PROVE FALSE
  OBVIOUS
<1>2. bad \subseteq Nat
  OBVIOUS
<1>3. PICK n \in bad : \A k \in bad : n <= k
  <2> HIDE DEF bad
  <2>1. QED
    BY <1>1, <1>2, LeastNatural
<1>4. n \in 1..N
  OBVIOUS
<1>5. n - 1 \in 0..N /\ n - 1 \notin bad
  BY <1>3, <1>4
<1>6. QED
  BY <1>4, <1>5

(* The courses of a loop over 1..N from b, each turn i of which takes a    *)
(* member x of V to G[<<i, x>>].                                           *)
Course(N, V, b, G) ==
  {f \in [0..N -> V] : f[0] = b /\ \A i \in 1..N : f[i] = G[<<i, f[i - 1]>>]}

(* A loop has a course: its recursive definition defines something.        *)
LEMMA LoopRuns ==
  ASSUME NEW N \in Nat, NEW V, NEW b \in V, NEW G \in [(1..N) \X V -> V]
  PROVE  Course(N, V, b, G) # {}
<1> DEFINE Runs(f, n) ==
             f[0] = b /\ \A i \in 1..n : f[i] = G[<<i, f[i - 1]>>]
           ok == {n \in 0..N : \E f \in [0..n -> V] : Runs(f, n)}
<1>1. 0 \in ok
  <2> DEFINE f == [i \in 0..0 |-> b]
  <2>1. f \in [0..0 -> V] /\ Runs(f, 0)
    OBVIOUS
  <2>2. \E h \in [0..0 -> V] : Runs(h, 0)
    <3> HIDE DEF f, Runs
    <3>1. QED
      BY <2>1
  <2> HIDE DEF Runs
  <2>3. QED
    BY <2>2
<1>2. ASSUME NEW n \in 1..N, n - 1 \in ok PROVE n \in ok
  <2>1. n - 1 \in 0..N
    OBVIOUS
  <2>2. PICK f \in [0..(n - 1) -> V] : Runs(f, n - 1)
    BY <1>2, <2>1
  <2> DEFINE e == [i \in 0..n |-> IF i = n THEN G[<<n, f[n - 1]>>] ELSE f[i]]
  <2>3. f[n - 1] \in V /\ G[<<n, f[n - 1]>>] \in V
    <3>1. n - 1 \in 0..(n - 1)
      OBVIOUS
    <3>2. f[n - 1] \in V
      BY <3>1
    <3>3. <<n, f[n - 1]>> \in (1..N) \X V
      BY <3>2
    <3>4. QED
      BY <3>2, <3>3
  <2>4. e \in [0..n -> V]
    <3>1. ASSUME NEW i \in 0..n, i # n PROVE f[i] \in V
      <4>1. i \in 0..(n - 1)
        BY <3>1
      <4>2. QED
        BY <4>1
    <3>2. QED
      BY <2>3, <3>1
  <2>5. Runs(e, n)
    <3>1. e[0] = b
      BY <2>2
    <3>2. ASSUME NEW i \in 1..n PROVE e[i] = G[<<i, e[i - 1]>>]
      <4>1. i - 1 \in 0..n /\ i - 1 # n
        OBVIOUS
      <4>2. e[i - 1] = f[i - 1]
        BY <4>1
      <4>3. CASE i = n
        <5>1. e[n] = G[<<n, f[n - 1]>>]
          OBVIOUS
        <5> HIDE DEF e
        <5>2. QED
          BY <4>2, <4>3, <5>1
      <4>4. CASE i # n
        <5>1. i \in 1..(n - 1)
          BY <4>4
        <5>2. QED
          BY <2>2, <4>2, <4>4, <5>1
      <4>5. QED
        BY <4>3, <4>4
    <3>3. QED
      BY <3>1, <3>2
  <2>6. \E h \in [0..n -> V] : Runs(h, n)
    <3> HIDE DEF e, Runs
    <3>1. QED
      BY <2>4, <2>5
  <2> HIDE DEF Runs
  <2>7. QED
    BY <2>6
<1>3. \A n \in 0..N : n \in ok
  <2> HIDE DEF ok
  <2>1. QED
    BY <1>1, <1>2, ByTurns
<1>4. N \in ok
  BY <1>3
<1>5. QED
  BY <1>4 DEF Course

-----------------------------------------------------------------------------
(* Edge recovery: who a responder answers.                                 *)

Signature == [challenge : 1..challenges, key : Own]
OwnRotation == {Rotation(o, n, o) : o \in Own, n \in Own}

(* Signatures and rotations are of the persona's own keys, on challenges   *)
(* that were issued.                                                       *)
SpokenInv ==
  /\ challenges \in Nat /\ issued \subseteq 1..challenges
  /\ signatures \subseteq Signature
  /\ rotations \subseteq OwnRotation

(* An answer is to a challenge that is spent, and to whom it may go.       *)
Rightful(a) ==
  /\ a.challenge \in 1..challenges \ issued
  /\ [challenge |-> a.challenge, key |-> a.persona] \in signatures
       \/ a.persona = stranger
  /\ \A e \in a.edges :
       IsParty(e, a.persona)
         \/ \E k \in Own : IsParty(e, k) /\ Rotation(k, a.persona, k) \in rotations

(* The answers so far: to spent challenges, each to another one.           *)
AnswerInv ==
  /\ answers \in Seq([challenge : Nat, persona : Key, edges : SUBSET Edges])
  /\ \A i \in DOMAIN answers : Rightful(answers[i])
  /\ \A i, j \in DOMAIN answers :
       answers[i].challenge = answers[j].challenge => i = j

RecoveryInv == SpokenInv /\ AnswerInv

(* A request that passes verifyRequest is rightful once its challenge is   *)
(* spent: whoever is answered signed it, and a rotation it presents was    *)
(* signed by the key it rotates from, which no stranger can sign with.     *)
LEMMA AnswerIsRightful ==
  ASSUME SpokenInv, NEW q \in Requests, Succession(q), Possession(q)
  PROVE  LET a == [challenge |-> q.proof.challenge, persona |-> q.persona,
                   edges |-> Served(Identities(q))] IN
         /\ a \in [challenge : Nat, persona : Key, edges : SUBSET Edges]
         /\ a.challenge \in 1..challenges
         /\ [challenge |-> a.challenge, key |-> a.persona] \in signatures
              \/ a.persona = stranger
         /\ \A e \in a.edges :
              IsParty(e, a.persona)
                \/ \E k \in Own : IsParty(e, k)
                                    /\ Rotation(k, a.persona, k) \in rotations
<1> DEFINE forged == {Rotation(o, n, stranger) : o \in Own, n \in Own \cup {stranger}}
<1>1. /\ q.persona \in Key
      /\ q.proof \in signatures \cup [challenge : 1..challenges, key : {stranger}]
      /\ \A r \in q.rotation : r \in rotations \cup forged
  BY DEF Requests
<1>2. q.proof.challenge \in 1..challenges /\ q.proof.key = q.persona
  BY DEF Possession, SpokenInv
<1>3. [challenge |-> q.proof.challenge, key |-> q.persona] \in signatures
        \/ q.persona = stranger
  BY <1>1, <1>2 DEF SpokenInv, Signature
<1>4. Served(Identities(q)) \subseteq Edges
  BY DEF Served, HeldEdges
<1>5. ASSUME NEW e \in Served(Identities(q))
      PROVE  IsParty(e, q.persona)
               \/ \E k \in Own : IsParty(e, k) /\ Rotation(k, q.persona, k) \in rotations
  <2>1. PICK k \in Identities(q) : IsParty(e, k)
    BY <1>5 DEF Served
  <2>2. CASE k = q.persona
    BY <2>1, <2>2
  <2>3. ASSUME NEW r \in q.rotation, k = r.old
        PROVE  k \in Own /\ Rotation(k, q.persona, k) \in rotations
    <3>1. r.new = q.persona /\ r.signer = r.old
      BY <2>3 DEF Succession, VerifyRotation
    <3>2. r \notin forged
      <4>1. SUFFICES ASSUME NEW o \in Own, NEW n \in Own \cup {stranger},
                            r = Rotation(o, n, stranger)
                     PROVE  FALSE
        OBVIOUS
      <4>2. r.signer = stranger /\ r.old = o
        BY <4>1 DEF Rotation
      <4>3. QED
        BY <3>1, <4>2, RecoveryAssumption
    <3>3. r \in rotations
      BY <1>1, <3>2
    <3>4. PICK o \in Own, n \in Own : r = Rotation(o, n, o)
      BY <3>3 DEF SpokenInv, OwnRotation
    <3>5. r.old = o /\ r.new = n
      BY <3>4 DEF Rotation
    <3>6. QED
      BY <2>3, <3>1, <3>3, <3>4, <3>5
  <2>4. QED
    BY <2>1, <2>2, <2>3 DEF Identities
<1>6. QED
  BY <1>1, <1>2, <1>3, <1>4, <1>5

(* What grows takes nothing from what was rightful.                        *)
LEMMA StillRightful ==
  ASSUME SpokenInv, NEW a, Rightful(a), challenges' \in Nat,
         challenges <= challenges', issued' \cap 1..challenges \subseteq issued,
         signatures \subseteq signatures', rotations \subseteq rotations'
  PROVE  Rightful(a)'
BY DEF Rightful, SpokenInv

(* A step that gives no answer keeps the answers rightful.                 *)
LEMMA AnswersStay ==
  ASSUME RecoveryInv, answers' = answers, challenges' \in Nat,
         challenges <= challenges', issued' \cap 1..challenges \subseteq issued,
         signatures \subseteq signatures', rotations \subseteq rotations'
  PROVE  AnswerInv'
<1>1. ASSUME NEW i \in DOMAIN answers PROVE Rightful(answers[i])'
  <2>1. PICK a : a = answers[i]
    OBVIOUS
  <2>2. Rightful(a)'
    BY <2>1, StillRightful DEF RecoveryInv, AnswerInv
  <2>3. QED
    BY <2>1, <2>2 DEF Rightful
<1>2. QED
  BY <1>1 DEF RecoveryInv, AnswerInv

(* One challenge draws one answer, to who signed it, of edges that are     *)
(* that persona's or of a key that signed its own rotation to it           *)
(* (RecoveryResponder.verifyRequest, answer), however often requests are   *)
(* replayed, challenges issued and processes restarted.                    *)
THEOREM AnsweredOnce == Spec => []AnsweredToTheHolderOnce
<1>1. Init => RecoveryInv
  BY DEF Init, RecoveryInv, SpokenInv, AnswerInv
<1>2. RecoveryInv /\ [Next]_vars => RecoveryInv'
  <2>0. SUFFICES ASSUME RecoveryInv, [Next]_vars PROVE RecoveryInv'
    OBVIOUS
  <2>00. SpokenInv /\ AnswerInv /\ challenges \in Nat
    BY <2>0 DEF RecoveryInv, SpokenInv
  <2>1. CASE IssueChallenge
    <3>1. /\ challenges' = challenges + 1 /\ issued' = issued \cup {challenges + 1}
          /\ answers' = answers /\ signatures' = signatures /\ rotations' = rotations
      BY <2>1 DEF IssueChallenge
    <3>2. SpokenInv'
      BY <2>00, <3>1 DEF SpokenInv, Signature, OwnRotation, Rotation
    <3>3. AnswerInv'
      BY <2>0, <2>00, <3>1, AnswersStay DEF SpokenInv
    <3>4. QED
      BY <3>2, <3>3 DEF RecoveryInv
  <2>2. CASE ResponderRestarts
    <3>1. SpokenInv'
      BY <2>00, <2>2 DEF ResponderRestarts, SpokenInv, Signature, OwnRotation
    <3>2. AnswerInv'
      BY <2>0, <2>00, <2>2, AnswersStay DEF ResponderRestarts
    <3>3. QED
      BY <3>1, <3>2 DEF RecoveryInv
  <2>3. ASSUME NEW q \in Requests, Answer(q) PROVE RecoveryInv'
    <3> DEFINE a == [challenge |-> q.proof.challenge, persona |-> q.persona,
                     edges |-> Served(Identities(q))]
               n == Len(answers)
    <3>1. /\ answers' = Append(answers, a) /\ issued' = issued \ {q.proof.challenge}
          /\ q.proof.challenge \in issued
          /\ challenges' = challenges /\ signatures' = signatures
          /\ rotations' = rotations
      BY <2>3 DEF Answer, Spent, Possession
    <3>2. /\ a \in [challenge : Nat, persona : Key, edges : SUBSET Edges]
          /\ a.challenge \in 1..challenges
          /\ [challenge |-> a.challenge, key |-> a.persona] \in signatures
               \/ a.persona = stranger
          /\ \A e \in a.edges :
               IsParty(e, a.persona)
                 \/ \E k \in Own : IsParty(e, k)
                                     /\ Rotation(k, a.persona, k) \in rotations
      BY <2>00, <2>3, AnswerIsRightful DEF Answer
    <3>3. a.challenge = q.proof.challenge
      OBVIOUS
    <3> HIDE DEF a
    <3>4. PICK r : r = a
      OBVIOUS
    <3>5. /\ n \in Nat /\ Len(answers') = n + 1 /\ DOMAIN answers = 1..n
          /\ DOMAIN answers' = 1..(n + 1) /\ answers'[n + 1] = r
          /\ \A i \in 1..n : answers'[i] = answers[i]
          /\ answers' \in Seq([challenge : Nat, persona : Key, edges : SUBSET Edges])
      BY <2>00, <3>1, <3>2, <3>4 DEF AnswerInv
    <3>6. SpokenInv'
      <4>1. /\ issued' \subseteq issued /\ challenges' = challenges
            /\ signatures' = signatures /\ rotations' = rotations
        BY <3>1
      <4>2. QED
        BY <2>00, <4>1 DEF SpokenInv, Signature, OwnRotation, Rotation
    <3>7. Rightful(r)'
      BY <3>1, <3>2, <3>3, <3>4 DEF Rightful
    <3>8. ASSUME NEW i \in 1..n 
          PROVE  Rightful(answers[i])' /\ answers[i].challenge # r.challenge
      <4>1. PICK b : b = answers[i]
        OBVIOUS
      <4>2. Rightful(b)
        BY <2>00, <3>5, <4>1 DEF AnswerInv
      <4>3. Rightful(b)'
        BY <2>00, <3>1, <4>2, StillRightful
      <4>4. b = answers'[i] /\ b.challenge # r.challenge
        BY <3>1, <3>3, <3>4, <3>5, <4>1, <4>2 DEF Rightful
      <4>5. QED
        BY <4>1, <4>3, <4>4 DEF Rightful
    <3>9. \A i \in 1..(n + 1) : i = n + 1 \/ i \in 1..n
      BY <3>5
    <3>10. ASSUME NEW i \in DOMAIN answers' PROVE Rightful(answers[i])'
      <4>1. CASE i = n + 1
        BY <3>5, <3>7, <4>1 DEF Rightful
      <4>2. QED
        BY <3>5, <3>8, <3>9, <4>1
    <3>11. \A i, j \in DOMAIN answers' :
             answers'[i].challenge = answers'[j].challenge => i = j
      BY <2>00, <3>5, <3>8, <3>9 DEF AnswerInv
    <3>12. QED
      BY <3>5, <3>6, <3>10, <3>11 DEF RecoveryInv, AnswerInv
  <2>4. ASSUME NEW k \in Own, NEW c \in 1..challenges, SignChallenge(k, c)
        PROVE  RecoveryInv'
    <3>1. /\ signatures' = signatures \cup {[challenge |-> c, key |-> k]}
          /\ challenges' = challenges /\ issued' = issued /\ answers' = answers
          /\ rotations' = rotations
      BY <2>4 DEF SignChallenge, responder
    <3>2. SpokenInv'
      BY <2>00, <3>1 DEF SpokenInv, Signature, OwnRotation, Rotation
    <3>3. AnswerInv'
      BY <2>0, <2>00, <3>1, AnswersStay
    <3>4. QED
      BY <3>2, <3>3 DEF RecoveryInv
  <2>5. ASSUME NEW old \in Own, NEW new \in Own, SignRotation(old, new)
        PROVE  RecoveryInv'
    <3>1. /\ rotations' = rotations \cup {Rotation(old, new, old)}
          /\ challenges' = challenges /\ issued' = issued /\ answers' = answers
          /\ signatures' = signatures
      BY <2>5 DEF SignRotation, responder
    <3>2. SpokenInv'
      BY <2>00, <3>1 DEF SpokenInv, Signature, OwnRotation
    <3>3. AnswerInv'
      BY <2>0, <2>00, <3>1, AnswersStay
    <3>4. QED
      BY <3>2, <3>3 DEF RecoveryInv
  <2>6. CASE /\ challenges' = challenges /\ issued' = issued
             /\ answers' = answers /\ signatures' = signatures
             /\ rotations' = rotations
    <3>1. SpokenInv'
      BY <2>00, <2>6 DEF SpokenInv, Signature, OwnRotation, Rotation
    <3>2. AnswerInv'
      BY <2>0, <2>00, <2>6, AnswersStay
    <3>3. QED
      BY <3>1, <3>2 DEF RecoveryInv
  <2>7. ASSUME NEW r \in rotations, PutRotation(r) PROVE RecoveryInv'
    BY <2>6, <2>7 DEF PutRotation, responder
  <2>8. ASSUME NEW e \in Edges, NEW s \in Handable(e), ApplyRecoverResponse(e, s)
        PROVE  RecoveryInv'
    <3>1. UNCHANGED <<responder, signatures, rotations>>
      BY <2>8 DEF ApplyRecoverResponse
    <3>2. QED
      BY <2>6, <3>1 DEF responder
  <2>9. CASE UNCHANGED vars
    BY <2>6, <2>9 DEF vars, responder
  <2>10. QED
    BY <2>0, <2>1, <2>2, <2>3, <2>4, <2>5, <2>7, <2>8, <2>9 DEF Next
<1>3. RecoveryInv => AnsweredToTheHolderOnce
  BY DEF RecoveryInv, AnswerInv, Rightful, AnsweredToTheHolderOnce
<1>4. QED
  BY <1>1, <1>2, <1>3, PTL DEF Spec

-----------------------------------------------------------------------------
(* The keys of a party.                                                    *)

(* The walk along a party's rotations: what each turn leaves.              *)
WalkOf(rots, key, steps) ==
  /\ steps[0] = <<key>>
  /\ \A i \in 1..Cardinality(rots) :
       \/ steps[i] = steps[i - 1]
       \/ \E k \in Own : steps[i] = Append(steps[i - 1], k)
                         /\ k \in Successors(rots, Last(steps[i - 1]))

(* It runs, and each key it adds is one of the persona's own.              *)
LEMMA WalkRuns ==
  ASSUME NEW rots, rots \subseteq OwnRotation, IsFiniteSet(rots), NEW key
  PROVE  \E steps : /\ WalkOf(rots, key, steps)
                   /\ ResolveSuccessor(rots, key) = steps[Cardinality(rots)]
<1> DEFINE N == Cardinality(rots)
           V == Seq(Own \cup {key})
           Next1(keys) == Successors(rots, Last(keys))
           Goes(keys) == Cardinality(Next1(keys)) = 1 /\ Next1(keys) \cap ToSet(keys) = {}
           More(keys) == IF Goes(keys) THEN Append(keys, CHOOSE k \in Next1(keys) : TRUE)
                         ELSE keys
           Rec(f) == [i \in 0..N |-> IF i = 0 THEN <<key>> ELSE More(f[i - 1])]
           steps == CHOOSE f : f = Rec(f)
<1>1. N \in Nat /\ <<key>> \in V
  BY FS_CardinalityType
<1>2. \A keys : Next1(keys) \subseteq Own
  <2>1. \A r \in rots : r.new \in Own
    BY DEF OwnRotation, Rotation
  <2>2. QED
    BY <2>1 DEF Successors
<1>3. \A keys : Goes(keys) => (CHOOSE k \in Next1(keys) : TRUE) \in Next1(keys)
  <2>1. \A keys : Cardinality(Next1(keys)) = 1 => Next1(keys) # {}
    BY FS_EmptySet
  <2> HIDE DEF Next1
  <2>2. QED
    BY <2>1
<1> HIDE DEF Next1
<1>4. \A keys \in V : More(keys) \in V
  BY <1>2, <1>3
<1>5. \A keys : More(keys) = keys
        \/ \E k \in Own : More(keys) = Append(keys, k) /\ k \in Next1(keys)
  BY <1>2, <1>3
<1> HIDE DEF More, V, N
<1>6. \E f : f = Rec(f)
  <2> DEFINE G == [p \in (1..N) \X V |-> More(p[2])]
  <2>1. G \in [(1..N) \X V -> V]
    BY <1>4
  <2>2. PICK f \in Course(N, V, <<key>>, G) : TRUE
    <3> HIDE DEF G
    <3>1. Course(N, V, <<key>>, G) # {}
      BY <1>1, <2>1, LoopRuns
    <3>2. QED
      BY <3>1
  <2>3. /\ f \in [0..N -> V] /\ f[0] = <<key>>
        /\ \A i \in 1..N : f[i] = G[<<i, f[i - 1]>>]
    <3> HIDE DEF G
    <3>1. QED
      BY <2>2 DEF Course
  <2>4. ASSUME NEW i \in 0..N PROVE f[i] = Rec(f)[i]
    <3>1. CASE i = 0
      BY <2>3, <3>1
    <3>2. CASE i # 0
      <4>1. i \in 1..N /\ i - 1 \in 0..N
        BY <1>1, <3>2
      <4>2. <<i, f[i - 1]>> \in (1..N) \X V
        BY <2>3, <4>1
      <4>3. G[<<i, f[i - 1]>>] = More(f[i - 1])
        BY <4>2
      <4>4. QED
        BY <2>3, <3>2, <4>1, <4>3
    <3>3. QED
      BY <3>1, <3>2
  <2>5. f = [i \in 0..N |-> f[i]]
    BY <2>3
  <2>6. f = Rec(f)
    BY <2>4, <2>5
  <2>7. QED
    BY <2>6
<1>7. steps = Rec(steps)
  BY <1>6
<1>8. ResolveSuccessor(rots, key) = steps[N]
  BY DEF ResolveSuccessor, More, Next1, N
<1> HIDE DEF steps
<1>9. steps[0] = <<key>> /\ \A i \in 1..N : steps[i] = More(steps[i - 1])
  <2>1. \A i \in 0..N : steps[i] = Rec(steps)[i]
    BY <1>7
  <2>2. 0 \in 0..N /\ \A i \in 1..N : i \in 0..N /\ i # 0
    BY <1>1
  <2>3. QED
    BY <2>1, <2>2
<1>10. QED
  BY <1>5, <1>8, <1>9 DEF WalkOf, N, Next1

(* A party's first key counts as the party's: until it was rotated, and    *)
(* for ever if nobody can rotate it.                                       *)
LEMMA FirstKeyCounts ==
  ASSUME NEW rots, rots \subseteq OwnRotation, IsFiniteSet(rots), NEW key,
         NEW at \in Nat, key \in Own => at < RotatedAt
  PROVE  HeldBy(LineageOf(rots, key), key, at)
<1>1. PICK steps : /\ WalkOf(rots, key, steps)
                  /\ ResolveSuccessor(rots, key) = steps[Cardinality(rots)]
  BY WalkRuns
<1>2. PICK N \in Nat : N = Cardinality(rots)
  BY FS_CardinalityType
<1> DEFINE V == Seq(Own \cup {key})
           ok == {i \in 0..N : /\ steps[i] \in V /\ Len(steps[i]) >= 1 /\ steps[i][1] = key
                               /\ key \notin Own => steps[i] = <<key>>}
<1>3. 0 \in ok
  <2>1. PICK keys : keys = <<key>>
    OBVIOUS
  <2>2. steps[0] = keys
    BY <1>1, <2>1 DEF WalkOf
  <2>3. keys \in V /\ Len(keys) >= 1 /\ keys[1] = key
    BY <2>1
  <2>4. steps[0] \in V /\ Len(steps[0]) >= 1 /\ steps[0][1] = key
    BY <2>2, <2>3
  <2>5. 0 \in 0..N
    OBVIOUS
  <2>6. QED
    BY <2>1, <2>2, <2>4, <2>5
<1>4. ASSUME NEW i \in 1..N, i - 1 \in ok PROVE i \in ok
  <2>1. PICK keys \in V : keys = steps[i - 1]
    BY <1>4
  <2>2. /\ Len(keys) \in Nat /\ Len(keys) >= 1 /\ keys[1] = key
        /\ key \notin Own => keys = <<key>>
    BY <1>4, <2>1
  <2>3. i \in 0..N
    OBVIOUS
  <2>4. CASE steps[i] = keys
    BY <2>1, <2>2, <2>3, <2>4
  <2>5. ASSUME NEW k \in Own, steps[i] = Append(keys, k), k \in Successors(rots, Last(keys))
        PROVE  i \in ok
    <3>1. Append(keys, k) \in V /\ Len(Append(keys, k)) = Len(keys) + 1
          /\ Append(keys, k)[1] = keys[1]
      BY <2>2
    <3>2. key \in Own
      <4>1. PICK r \in rots : r.old = Last(keys)
        BY <2>5 DEF Successors
      <4>2. r.old \in Own
        BY DEF OwnRotation, Rotation
      <4>3. key \notin Own => Last(keys) = key
        BY <2>2 DEF Last
      <4>4. QED
        BY <4>1, <4>2, <4>3
    <3>3. steps[i] \in V /\ Len(steps[i]) >= 1 /\ steps[i][1] = key
      BY <2>2, <2>5, <3>1
    <3>4. QED
      BY <2>3, <3>2, <3>3
  <2>6. QED
    BY <1>1, <1>2, <2>1, <2>4, <2>5 DEF WalkOf
<1>5. \A i \in 0..N : i \in ok
  <2> HIDE DEF ok
  <2>1. QED
    BY <1>3, <1>4, ByTurns
<1>6. PICK keys : keys = ResolveSuccessor(rots, key)
  OBVIOUS
<1>7. /\ keys \in V /\ Len(keys) >= 1 /\ keys[1] = key
      /\ key \notin Own => keys = <<key>>
  <2>1. N \in ok
    BY <1>5
  <2>2. QED
    BY <1>1, <1>2, <1>6, <2>1
<1>8. PICK k : k = [key |-> keys[1],
                    supersededAt |-> IF 1 = Len(keys) THEN Null ELSE RotatedAt]
  OBVIOUS
<1>9. k \in LineageOf(rots, key)
  <2>1. 1 \in DOMAIN keys
    BY <1>7
  <2>2. QED
    BY <1>6, <1>8, <2>1 DEF LineageOf
<1>10. k.key = key /\ (k.supersededAt = Null \/ at < k.supersededAt)
  <2>1. key \notin Own => Len(keys) = 1
    BY <1>7
  <2>2. QED
    BY <1>7, <1>8, <2>1
<1>11. QED
  BY <1>9, <1>10 DEF HeldBy

-----------------------------------------------------------------------------
(* Chains that a table took in turn.                                       *)

(* g is the first n of h.                                                  *)
FirstOf(g, n, h) == Len(g) = n /\ n <= Len(h) /\ \A i \in 1..n : g[i] = h[i]

(* f is what a replay of g goes through.                                   *)
ReplayOf(e, lin, g, f) ==
  /\ f[0] = InitChainState
  /\ \A i \in 1..Len(g) : f[i] = Step(e, lin, Now, f[i - 1], g[i])

(* A replay runs.                                                          *)
LEMMA ReplayRuns ==
  ASSUME NEW e, NEW lin, NEW g, Len(g) \in Nat
  PROVE  \E f : ReplayOf(e, lin, g, f) /\ VerifyAssertionChain(e, lin, Now, g) = f[Len(g)]
<1> DEFINE N == Len(g)
           Turn(i, c) == Step(e, lin, Now, c, g[i])
           Rec(f) == [i \in 0..N |-> IF i = 0 THEN InitChainState ELSE Turn(i, f[i - 1])]
           Runs(f, n) == f[0] = InitChainState /\ \A i \in 1..n : f[i] = Turn(i, f[i - 1])
           ok == {n \in 0..N : \E f : Runs(f, n)}
           after == CHOOSE f : f = Rec(f)
<1> HIDE DEF Turn
<1>1. 0 \in ok
  <2> DEFINE f == [i \in 0..0 |-> InitChainState]
  <2>1. Runs(f, 0)
    OBVIOUS
  <2> HIDE DEF f, Runs
  <2>2. \E h : Runs(h, 0)
    BY <2>1
  <2>3. QED
    BY <2>2
<1>2. ASSUME NEW n \in 1..N, n - 1 \in ok PROVE n \in ok
  <2>1. PICK f : Runs(f, n - 1)
    BY <1>2
  <2> DEFINE h == [i \in 0..n |-> IF i = n THEN Turn(n, f[n - 1]) ELSE f[i]]
  <2>2. h[0] = InitChainState
    BY <2>1
  <2>3. ASSUME NEW i \in 1..n PROVE h[i] = Turn(i, h[i - 1])
    <3>1. h[i - 1] = f[i - 1]
      OBVIOUS
    <3>2. CASE i = n
      BY <3>1, <3>2
    <3>3. CASE i # n
      <4>1. i \in 1..(n - 1) /\ h[i] = f[i]
        BY <3>3
      <4>2. QED
        BY <2>1, <3>1, <4>1
    <3>4. QED
      BY <3>2, <3>3
  <2>4. Runs(h, n)
    BY <2>2, <2>3
  <2> HIDE DEF h, Runs
  <2>5. \E x : Runs(x, n)
    BY <2>4
  <2>6. QED
    BY <2>5
<1>3. N \in ok
  <2>1. \A i \in 0..N : i \in ok
    <3> HIDE DEF ok
    <3>1. QED
      BY <1>1, <1>2, ByTurns
  <2>2. QED
    BY <2>1
<1>4. PICK f : Runs(f, N)
  BY <1>3
<1>5. \E x : x = Rec(x)
  <2>1. PICK x : x = [i \in 0..N |-> f[i]]
    OBVIOUS
  <2>2. ASSUME NEW i \in 0..N
        PROVE  x[i] = IF i = 0 THEN InitChainState ELSE Turn(i, x[i - 1])
    <3>1. i # 0 => i \in 1..N /\ x[i - 1] = f[i - 1]
      BY <2>1
    <3>2. x[i] = f[i]
      BY <2>1
    <3>3. QED
      BY <1>4, <3>1, <3>2
  <2>3. x = Rec(x)
    BY <2>1, <2>2
  <2>4. QED
    BY <2>3
<1>6. after = Rec(after)
  BY <1>5
<1>7. VerifyAssertionChain(e, lin, Now, g) = after[N]
  BY DEF VerifyAssertionChain, Turn
<1> HIDE DEF after
<1>8. Runs(after, N)
  <2>1. \A i \in 0..N : after[i] = IF i = 0 THEN InitChainState ELSE Turn(i, after[i - 1])
    BY <1>6
  <2>2. 0 \in 0..N /\ \A i \in 1..N : i \in 0..N /\ i # 0
    OBVIOUS
  <2> HIDE DEF N
  <2>3. QED
    BY <2>1, <2>2
<1>9. QED
  BY <1>7, <1>8 DEF ReplayOf, Turn

(* The first n are replayed as in the whole.                               *)
LEMMA FirstAreReplayed ==
  ASSUME NEW e, NEW lin, NEW h, Len(h) \in Nat, NEW f, ReplayOf(e, lin, h, f),
         NEW n \in Nat, NEW g, FirstOf(g, n, h)
  PROVE  VerifyAssertionChain(e, lin, Now, g) = f[n]
<1>1. Len(g) = n /\ n <= Len(h) /\ \A i \in 1..n : g[i] = h[i]
  BY DEF FirstOf
<1>2. PICK x : ReplayOf(e, lin, g, x) /\ VerifyAssertionChain(e, lin, Now, g) = x[n]
  BY <1>1, ReplayRuns
<1> DEFINE ok == {i \in 0..n : x[i] = f[i]}
<1>3. 0 \in ok
  BY <1>2 DEF ReplayOf
<1>4. ASSUME NEW i \in 1..n, i - 1 \in ok PROVE i \in ok
  <2>1. i \in 1..Len(h) /\ i \in 1..Len(g) /\ i \in 0..n
    BY <1>1
  <2>2. x[i] = Step(e, lin, Now, x[i - 1], g[i]) /\ f[i] = Step(e, lin, Now, f[i - 1], h[i])
    BY <1>2, <2>1 DEF ReplayOf
  <2>3. QED
    BY <1>1, <1>4, <2>1, <2>2
<1>5. \A i \in 0..n : i \in ok
  <2> HIDE DEF ok
  <2>1. QED
    BY <1>3, <1>4, ByTurns
<1>6. QED
  BY <1>2, <1>5

(* The parties' first keys, for ever.                                      *)
FirstKeys(e) ==
  [owner |-> {[key |-> e.owner, supersededAt |-> Null]},
   owed_to |-> {[key |-> e.owed_to, supersededAt |-> Null]}]

(* What is legal for them stays legal where they still counted.            *)
LEMMA CountedKeysSuffice ==
  ASSUME NEW e, NEW lin, NEW c, NEW a, Accepts(e, FirstKeys(e), Now, c, a),
         a.by = e.owner => IsOwner(lin, a), a.by = e.owed_to => IsOwedTo(lin, a)
  PROVE  Accepts(e, lin, Now, c, a)
<1>1. IsOwner(FirstKeys(e), a) => IsOwner(lin, a)
  BY DEF FirstKeys, IsOwner, HeldBy
<1>2. IsOwedTo(FirstKeys(e), a) => IsOwedTo(lin, a)
  BY DEF FirstKeys, IsOwedTo, HeldBy
<1>3. LegalUnilateralExit(e, FirstKeys(e), Now, a) => LegalUnilateralExit(e, lin, Now, a)
  BY <1>1, <1>2 DEF LegalUnilateralExit
<1>4. LegalClosed(e, FirstKeys(e), c, a) => LegalClosed(e, lin, c, a)
  BY <1>1, <1>2 DEF LegalClosed
<1>5. LegalExpired(e, FirstKeys(e), Now, c, a) => LegalExpired(e, lin, Now, c, a)
  BY <1>3 DEF LegalExpired
<1>6. LegalByTable(e, FirstKeys(e), Now, c, a) => LegalByTable(e, lin, Now, c, a)
  <2>1. CASE a.state = "proposed"
    BY <1>1, <2>1 DEF LegalByTable
  <2>2. CASE a.state = "confirmed"
    BY <1>2, <2>2 DEF LegalByTable
  <2>3. CASE a.state = "closed"
    BY <1>4, <2>3 DEF LegalByTable
  <2>4. CASE a.state = "released"
    BY <1>2, <2>4 DEF LegalByTable
  <2>5. CASE a.state = "expired"
    BY <1>5, <2>5 DEF LegalByTable
  <2>6. CASE a.state \notin {"proposed", "confirmed", "closed", "released", "expired"}
    BY <2>6 DEF LegalByTable
  <2>7. QED
    BY <2>1, <2>2, <2>3, <2>4, <2>5, <2>6
<1>7. QED
  BY <1>1, <1>2, <1>3, <1>6 DEF Accepts

(* The node takes in turn what is held, if its own signed it before it     *)
(* rotated.                                                                *)
LEMMA HeldIsTaken ==
  ASSUME ownRotations \subseteq OwnRotation, IsFiniteSet(ownRotations),
         NEW e, NEW h \in Seq(Dated), TakenInTurn(e, h),
         \A i \in 1..Len(h) : h[i].by \in Own => h[i].asserted_at < RotatedAt,
         NEW n \in Nat, n + 1 <= Len(h), NEW g \in Seq(Assertion), FirstOf(g, n, h)
  PROVE  TakenAfter(e, g, h[n + 1])
<1>1. PICK N \in Nat : N = Len(h) /\ DOMAIN h = 1..N
  OBVIOUS
<1>2. PICK f : ReplayOf(e, FirstKeys(e), h, f)
  <2>1. Len(h) \in Nat
    OBVIOUS
  <2>2. QED
    BY <2>1, ReplayRuns
<1>3. ASSUME NEW i \in 1..N
      PROVE  Accepts(e, FirstKeys(e), Now, f[i - 1], h[i])
  <2>1. PICK p : p = SubSeq(h, 1, i - 1)
    OBVIOUS
  <2>2. FirstOf(p, i - 1, h) /\ i - 1 \in Nat
    BY <1>1, <2>1 DEF FirstOf
  <2>3. VerifyAssertionChain(e, FirstKeys(e), Now, p) = f[i - 1]
    BY <1>2, <2>2, FirstAreReplayed
  <2>4. Accepts(e, FirstKeys(e), Now, VerifyAssertionChain(e, FirstKeys(e), Now, p), h[i])
    BY <1>1, <2>1 DEF TakenInTurn, FirstKeys
  <2>5. QED
    BY <2>3, <2>4
<1>4. ASSUME NEW i \in 1..N
      PROVE  Accepts(e, Lineage(e), Now, f[i - 1], h[i])
  <2>1. PICK a \in Assertion : a = h[i]
    BY <1>1 DEF Dated
  <2>2. a.asserted_at \in Nat /\ (a.by \in Own => a.asserted_at < RotatedAt)
    BY <1>1, <2>1 DEF Assertion, Time
  <2>3. HeldBy(LineageOf(ownRotations, a.by), a.by, a.asserted_at)
    BY <2>2, FirstKeyCounts
  <2>4. /\ a.by = e.owner => IsOwner(Lineage(e), a)
        /\ a.by = e.owed_to => IsOwedTo(Lineage(e), a)
    BY <2>3 DEF IsOwner, IsOwedTo, Lineage
  <2>5. QED
    BY <1>3, <2>1, <2>4, CountedKeysSuffice
<1>5. ReplayOf(e, Lineage(e), h, f)
  <2>1. \A i \in 1..N : Step(e, FirstKeys(e), Now, f[i - 1], h[i])
                          = Step(e, Lineage(e), Now, f[i - 1], h[i])
    BY <1>3, <1>4 DEF Step
  <2>2. QED
    BY <1>1, <1>2, <2>1 DEF ReplayOf
<1>6. VerifyAssertionChain(e, Lineage(e), Now, g) = f[n]
  BY <1>1, <1>5, FirstAreReplayed
<1>7. n + 1 \in 1..N /\ (n + 1) - 1 = n
  BY <1>1
<1>8. Accepts(e, Lineage(e), Now, f[n], h[n + 1])
  BY <1>4, <1>7
<1>9. QED
  BY <1>6, <1>8 DEF TakenAfter

-----------------------------------------------------------------------------
(* The two loops of applyRecoverResponse.                                  *)

Taking(e, t, g, a) == WireOrder(a) = t /\ a \notin ToSet(chain[e]) /\ TakenAfter(e, g, a)

(* The loop over what is dated t: what each turn leaves.                   *)
DayOf(e, t, before, s, taken) ==
  /\ taken[0] = before
  /\ \A i \in 1..Len(s) :
       taken[i] = IF Taking(e, t, taken[i - 1], s[i])
                  THEN Append(taken[i - 1], s[i]) ELSE taken[i - 1]

(* It runs.                                                                *)
LEMMA DayRuns ==
  ASSUME NEW e, NEW t, NEW s \in Seq(Assertion), NEW before \in Seq(Assertion)
  PROVE  \E taken : /\ DayOf(e, t, before, s, taken)
                    /\ InWireOrder(e, t, before, s) = taken[Len(s)]
<1> DEFINE N == Len(s)
           V == Seq(Assertion)
           Takes(g, a) == Taking(e, t, g, a)
           Rec(f) == [i \in 0..N |->
             IF i = 0 THEN before
             ELSE IF Takes(f[i - 1], s[i]) THEN Append(f[i - 1], s[i]) ELSE f[i - 1]]
           taken == CHOOSE f : f = Rec(f)
<1>1. N \in Nat /\ before \in V /\ DOMAIN s = 1..N
  OBVIOUS
<1>2. \A i \in 1..N, h \in V : Append(h, s[i]) \in V
  OBVIOUS
<1>3. \E f : f = Rec(f)
  <2> DEFINE G == [p \in (1..N) \X V |->
                IF Takes(p[2], s[p[1]]) THEN Append(p[2], s[p[1]]) ELSE p[2]]
  <2> HIDE DEF Takes
  <2>1. G \in [(1..N) \X V -> V]
    <3> HIDE DEF V, N
    <3>1. QED
      BY <1>2
  <2>2. PICK f \in Course(N, V, before, G) : TRUE
    <3> HIDE DEF V, N, G
    <3>1. Course(N, V, before, G) # {}
      BY <1>1, <2>1, LoopRuns
    <3>2. QED
      BY <3>1
  <2>3. /\ f \in [0..N -> V] /\ f[0] = before
        /\ \A i \in 1..N : f[i] = G[<<i, f[i - 1]>>]
    <3> HIDE DEF V, N, G
    <3>1. QED
      BY <2>2 DEF Course
  <2>4. ASSUME NEW i \in 0..N PROVE f[i] = Rec(f)[i]
    <3>1. CASE i = 0
      BY <2>3, <3>1
    <3>2. CASE i # 0
      <4>1. i \in 1..N /\ i - 1 \in 0..N
        BY <1>1, <3>2
      <4>2. <<i, f[i - 1]>> \in (1..N) \X V
        BY <2>3, <4>1
      <4>3. G[<<i, f[i - 1]>>] =
              IF Takes(f[i - 1], s[i]) THEN Append(f[i - 1], s[i]) ELSE f[i - 1]
        <5> HIDE DEF V, N
        <5>1. QED
          BY <4>2
      <4>4. QED
        BY <2>3, <3>2, <4>1, <4>3
    <3>3. QED
      BY <3>1, <3>2
  <2>5. f = Rec(f)
    <3> HIDE DEF V, N
    <3>1. f = [i \in 0..N |-> f[i]]
      BY <2>3
    <3>2. QED
      BY <2>4, <3>1
  <2>6. QED
    BY <2>5
<1>4. taken = Rec(taken)
  BY <1>3
<1>5. InWireOrder(e, t, before, s) = taken[N]
  BY DEF InWireOrder, Taking
<1> HIDE DEF taken
<1>6. taken[0] = before /\ \A i \in 1..N :
        taken[i] = IF Takes(taken[i - 1], s[i])
                   THEN Append(taken[i - 1], s[i]) ELSE taken[i - 1]
  <2>1. \A i \in 0..N : taken[i] = Rec(taken)[i]
    BY <1>4
  <2>2. 0 \in 0..N /\ \A i \in 1..N : i \in 0..N /\ i # 0
    BY <1>1
  <2> HIDE DEF N, Takes
  <2>3. QED
    BY <2>1, <2>2
<1>7. DayOf(e, t, before, s, taken)
  BY <1>6 DEF DayOf
<1>8. QED
  BY <1>5, <1>7

(* A day leaves a chain, and takes nothing away.                           *)
LEMMA DayIsChain ==
  ASSUME NEW e, NEW t, NEW s \in Seq(Assertion), NEW before \in Seq(Assertion)
  PROVE  /\ InWireOrder(e, t, before, s) \in Seq(Assertion)
         /\ Len(InWireOrder(e, t, before, s)) >= Len(before)
<1>1. PICK taken : /\ DayOf(e, t, before, s, taken)
                   /\ InWireOrder(e, t, before, s) = taken[Len(s)]
  BY DayRuns
<1>2. PICK N \in Nat : N = Len(s) /\ DOMAIN s = 1..N
  OBVIOUS
<1> DEFINE ok == {i \in 0..N : taken[i] \in Seq(Assertion) /\ Len(taken[i]) >= Len(before)}
<1>3. 0 \in ok
  BY <1>1 DEF DayOf
<1>4. ASSUME NEW i \in 1..N, i - 1 \in ok PROVE i \in ok
  <2>1. PICK g \in Seq(Assertion), a \in Assertion :
          g = taken[i - 1] /\ a = s[i] /\ Len(g) >= Len(before)
    BY <1>2, <1>4
  <2>2. /\ Append(g, a) \in Seq(Assertion) /\ i \in 0..N
        /\ Len(Append(g, a)) >= Len(before)
    BY <2>1
  <2>3. taken[i] = Append(g, a) \/ taken[i] = g
    BY <1>1, <1>2, <2>1 DEF DayOf
  <2>4. QED
    BY <2>1, <2>2, <2>3
<1>5. \A i \in 0..N : i \in ok
  <2> HIDE DEF ok
  <2>1. QED
    BY <1>3, <1>4, ByTurns
<1>6. QED
  BY <1>1, <1>2, <1>5

(* The loop over the days: what each leaves.                               *)
DaysOf(e, s, after) ==
  /\ after[0] = chain[e]
  /\ \A d \in 1..(Now + 1) : after[d] = InWireOrder(e, d - 1, after[d - 1], s)

(* It runs.                                                                *)
LEMMA DaysRun ==
  ASSUME NEW e, NEW s \in Seq(Assertion), chain[e] \in Seq(Assertion)
  PROVE  \E after : DaysOf(e, s, after) /\ Judged(e, s) = after[Now + 1]
<1> DEFINE N == Now + 1
           V == Seq(Assertion)
           Rec(f) == [d \in 0..N |->
             IF d = 0 THEN chain[e] ELSE InWireOrder(e, d - 1, f[d - 1], s)]
           after == CHOOSE f : f = Rec(f)
<1>1. N \in Nat
  BY RecoveryAssumption DEF Time
<1>2. chain[e] \in V
  OBVIOUS
<1>3. \A d, h : h \in V => InWireOrder(e, d, h, s) \in V
  BY DayIsChain
<1> HIDE DEF V, N
<1>4. PICK f : f \in [0..N -> V] /\ f = Rec(f)
  <2> DEFINE G == [p \in (1..N) \X V |-> InWireOrder(e, p[1] - 1, p[2], s)]
  <2>1. G \in [(1..N) \X V -> V]
    BY <1>3
  <2>2. PICK f \in Course(N, V, chain[e], G) : TRUE
    <3> HIDE DEF G
    <3>1. Course(N, V, chain[e], G) # {}
      BY <1>1, <1>2, <2>1, LoopRuns
    <3>2. QED
      BY <3>1
  <2>3. /\ f \in [0..N -> V] /\ f[0] = chain[e]
        /\ \A i \in 1..N : f[i] = G[<<i, f[i - 1]>>]
    <3> HIDE DEF G
    <3>1. QED
      BY <2>2 DEF Course
  <2>4. ASSUME NEW i \in 0..N PROVE f[i] = Rec(f)[i]
    <3>1. CASE i = 0
      BY <2>3, <3>1
    <3>2. CASE i # 0
      <4>1. i \in 1..N /\ i - 1 \in 0..N
        BY <1>1, <3>2
      <4>2. <<i, f[i - 1]>> \in (1..N) \X V
        BY <2>3, <4>1
      <4>3. G[<<i, f[i - 1]>>] = InWireOrder(e, i - 1, f[i - 1], s)
        BY <4>2
      <4>4. QED
        BY <2>3, <3>2, <4>1, <4>3
    <3>3. QED
      BY <3>1, <3>2
  <2>5. f = [i \in 0..N |-> f[i]]
    BY <2>3
  <2>6. f = Rec(f)
    BY <2>4, <2>5
  <2>7. QED
    BY <2>3, <2>6
<1>5. after = Rec(after)
  BY <1>4
<1>6. Judged(e, s) = after[N]
  BY DEF Judged, N
<1> HIDE DEF after
<1>7. after[0] = chain[e] /\ \A i \in 1..N : after[i] = InWireOrder(e, i - 1, after[i - 1], s)
  <2>1. \A i \in 0..N : after[i] = Rec(after)[i]
    BY <1>5
  <2>2. 0 \in 0..N /\ \A i \in 1..N : i \in 0..N /\ i # 0
    BY <1>1
  <2>3. QED
    BY <2>1, <2>2
<1>8. QED
  BY <1>6, <1>7 DEF DaysOf, N

Distinct(s) == \A i, j \in 1..Len(s) : s[i] = s[j] => i = j

(* g is c with assertions of S after it.                                   *)
Continues(c, g, S) ==
  /\ g \in Seq(Dated) /\ Len(c) <= Len(g)
  /\ \A i \in 1..Len(c) : g[i] = c[i]
  /\ \A i \in 1..Len(g) : g[i] \in ToSet(c) \cup S

(* A day adds something handed, or nothing.                                *)
LEMMA DayContinues ==
  ASSUME NEW e, NEW t, NEW s \in Seq(Dated), NEW c, NEW before,
         Continues(c, before, ToSet(s)), Len(c) \in Nat
  PROVE  Continues(c, InWireOrder(e, t, before, s), ToSet(s))
<1>1. s \in Seq(Assertion) /\ before \in Seq(Assertion)
  BY DEF Dated, Continues
<1>2. PICK taken : /\ DayOf(e, t, before, s, taken)
                   /\ InWireOrder(e, t, before, s) = taken[Len(s)]
  BY <1>1, DayRuns
<1>3. PICK N \in Nat : N = Len(s) /\ DOMAIN s = 1..N
  OBVIOUS
<1> DEFINE ok == {i \in 0..N : Continues(c, taken[i], ToSet(s))}
<1>4. 0 \in ok
  BY <1>2 DEF DayOf
<1>5. ASSUME NEW i \in 1..N, i - 1 \in ok PROVE i \in ok
  <2>1. PICK g \in Seq(Dated) : g = taken[i - 1] /\ Continues(c, g, ToSet(s))
    BY <1>5 DEF Continues
  <2>2. PICK a \in Dated : a = s[i] /\ a \in ToSet(s)
    BY <1>3 DEF ToSet
  <2>3. PICK r : r = Append(g, a)
    OBVIOUS
  <2>4. PICK n \in Nat : n = Len(g)
    OBVIOUS
  <2>5. r \in Seq(Dated) /\ Len(r) = n + 1 /\ r[n + 1] = a /\ \A k \in 1..n : r[k] = g[k]
    BY <2>3, <2>4
  <2>6. PICK m \in Nat : m = Len(c) /\ m <= n
    BY <2>1, <2>4 DEF Continues
  <2>7. \A k \in 1..m : r[k] = c[k]
    BY <2>1, <2>5, <2>6 DEF Continues
  <2>8. \A k \in 1..(n + 1) : r[k] \in ToSet(c) \cup ToSet(s)
    <3>1. \A k \in 1..(n + 1) : k = n + 1 \/ k \in 1..n
      BY <2>4
    <3>2. QED
      BY <2>1, <2>2, <2>4, <2>5, <3>1 DEF Continues
  <2>9. Continues(c, r, ToSet(s))
    BY <2>5, <2>6, <2>7, <2>8 DEF Continues
  <2>10. taken[i] = r \/ taken[i] = g
    BY <1>2, <1>3, <2>1, <2>2, <2>3 DEF DayOf
  <2>11. QED
    BY <2>1, <2>9, <2>10
<1>6. \A i \in 0..N : i \in ok
  <2> HIDE DEF ok
  <2>1. QED
    BY <1>4, <1>5, ByTurns
<1>7. QED
  BY <1>2, <1>3, <1>6

(* Whatever is handed over goes after what was there.                      *)
LEMMA JudgedContinues ==
  ASSUME NEW e, NEW s \in Seq(Dated), chain[e] \in Seq(Dated)
  PROVE  Continues(chain[e], Judged(e, s), ToSet(s))
<1>1. s \in Seq(Assertion) /\ chain[e] \in Seq(Assertion)
  BY DEF Dated
<1>2. PICK after : DaysOf(e, s, after) /\ Judged(e, s) = after[Now + 1]
  BY <1>1, DaysRun
<1>3. PICK N \in Nat : N = Now + 1
  BY RecoveryAssumption DEF Time
<1>4. PICK c \in Seq(Dated) : c = chain[e]
  OBVIOUS
<1> DEFINE ok == {d \in 0..N : Continues(c, after[d], ToSet(s))}
<1>5. 0 \in ok
  <2>1. Continues(c, c, ToSet(s))
    BY DEF Continues, ToSet
  <2>2. QED
    BY <1>2, <1>4, <2>1 DEF DaysOf
<1>6. ASSUME NEW d \in 1..N, d - 1 \in ok PROVE d \in ok
  <2>1. after[d] = InWireOrder(e, d - 1, after[d - 1], s)
    BY <1>2, <1>3 DEF DaysOf
  <2>2. Continues(c, after[d - 1], ToSet(s)) /\ Len(c) \in Nat
    BY <1>6
  <2>3. Continues(c, after[d], ToSet(s))
    BY <2>1, <2>2, DayContinues
  <2>4. QED
    BY <2>3
<1>7. \A d \in 0..N : d \in ok
  <2> HIDE DEF ok
  <2>1. QED
    BY <1>5, <1>6, ByTurns
<1>8. N \in 0..N
  OBVIOUS
<1>9. QED
  BY <1>2, <1>3, <1>4, <1>7, <1>8

-----------------------------------------------------------------------------
(* What is handed as held is held.                                         *)

(* g is the beginning of what is held that is dated before t, or t and     *)
(* among the first i of s, if it was not stored before.                    *)
HeldUpTo(e, s, t, i, g) ==
  /\ g \in Seq(Dated) /\ FirstOf(g, Len(g), held[e]) /\ Len(chain[e]) <= Len(g)
  /\ \A k \in (Len(chain[e]) + 1)..Len(held[e]) :
       k <= Len(g) <=> \/ held[e][k].asserted_at < t
                       \/ /\ held[e][k].asserted_at = t
                          /\ \E j \in 1..i : s[j] = held[e][k]

(* Two sequences, one after the other, have the elements of both.          *)
LEMMA JoinedSets ==
  ASSUME NEW c \in Seq(Dated), NEW s \in Seq(Dated)
  PROVE  ToSet(c \o s) = ToSet(c) \cup ToSet(s)
<1>1. PICK m \in Nat, n \in Nat : m = Len(c) /\ n = Len(s)
  OBVIOUS
<1>2. PICK j : j = c \o s
  OBVIOUS
<1>3. /\ DOMAIN c = 1..m /\ DOMAIN s = 1..n /\ DOMAIN j = 1..(m + n)
      /\ \A i \in 1..(m + n) : j[i] = IF i <= m THEN c[i] ELSE s[i - m]
  BY <1>1, <1>2
<1>4. \A i \in 1..m : i \in 1..(m + n) /\ j[i] = c[i]
  BY <1>3
<1>5. \A i \in 1..n : i + m \in 1..(m + n) /\ j[i + m] = s[i]
  BY <1>3
<1>6. \A i \in 1..(m + n) : i \in 1..m \/ (i - m \in 1..n /\ j[i] = s[i - m])
  BY <1>3
<1>7. ASSUME NEW x PROVE x \in ToSet(j) <=> x \in ToSet(c) \/ x \in ToSet(s)
  <2>1. x \in ToSet(j) => x \in ToSet(c) \/ x \in ToSet(s)
    BY <1>3, <1>4, <1>6 DEF ToSet
  <2>2. x \in ToSet(c) => x \in ToSet(j)
    BY <1>3, <1>4 DEF ToSet
  <2>3. x \in ToSet(s) => x \in ToSet(j)
    BY <1>3, <1>5 DEF ToSet
  <2>4. QED
    BY <2>1, <2>2, <2>3
<1>8. QED
  BY <1>2, <1>7

(* What was stored is the beginning of h, and s brings the rest of it.     *)
LEMMA RestIsHanded ==
  ASSUME NEW h \in Seq(Dated), NEW c \in Seq(Dated), NEW s \in Seq(Dated),
         \A i, j \in 1..Len(h) : h[i] = h[j] => i = j,
         IsPrefix(c, h), ToSet(c \o s) = ToSet(h)
  PROVE  /\ FirstOf(c, Len(c), h)
         /\ \A k \in 1..Len(h) : h[k] \in ToSet(c) <=> k <= Len(c)
         /\ \A k \in (Len(c) + 1)..Len(h) : \E j \in 1..Len(s) : s[j] = h[k]
         /\ \A j \in 1..Len(s) : \E k \in 1..Len(h) : s[j] = h[k]
<1>1. PICK m \in Nat, n \in Nat : m = Len(c) /\ n = Len(h) /\ m <= n
  BY DEF IsPrefix
<1>2. DOMAIN c = 1..m /\ DOMAIN h = 1..n /\ DOMAIN s = 1..Len(s)
  BY <1>1
<1>3. ASSUME NEW i \in 1..m PROVE c[i] = h[i]
  <2>1. SubSeq(c, 1, m) = SubSeq(h, 1, m)
    BY <1>1 DEF IsPrefix
  <2>2. SubSeq(c, 1, m)[i] = c[i] /\ SubSeq(h, 1, m)[i] = h[i]
    BY <1>1
  <2>3. QED
    BY <2>1, <2>2
<1>4. ASSUME NEW k \in 1..n PROVE h[k] \in ToSet(c) <=> k <= m
  <2>1. k <= m => k \in 1..m
    OBVIOUS
  <2>2. ASSUME NEW i \in 1..m, c[i] = h[k] PROVE k <= m
    <3>1. i \in 1..n /\ h[i] = h[k]
      BY <1>1, <1>3, <2>2
    <3>2. QED
      BY <1>1, <3>1
  <2>3. QED
    BY <1>2, <1>3, <2>1, <2>2 DEF ToSet
<1>5. ToSet(c) \cup ToSet(s) = ToSet(h)
  BY JoinedSets
<1>6. \A k \in (m + 1)..n : k \in 1..n /\ ~(k <= m)
  BY <1>1
<1>7. ASSUME NEW k \in (m + 1)..n PROVE \E j \in 1..Len(s) : s[j] = h[k]
  <2>1. h[k] \in ToSet(h) /\ h[k] \notin ToSet(c)
    BY <1>2, <1>4, <1>6 DEF ToSet
  <2>2. h[k] \in ToSet(s)
    BY <1>5, <2>1
  <2>3. QED
    BY <1>2, <2>2 DEF ToSet
<1>8. ASSUME NEW j \in 1..Len(s) PROVE \E k \in 1..n : s[j] = h[k]
  <2>1. s[j] \in ToSet(s)
    BY <1>2 DEF ToSet
  <2>2. s[j] \in ToSet(h)
    BY <1>5, <2>1
  <2>3. QED
    BY <1>2, <2>2 DEF ToSet
<1>9. QED
  BY <1>1, <1>3, <1>4, <1>7, <1>8 DEF FirstOf

(* A day takes what is held of it.                                         *)
LEMMA DayAsHeld ==
  ASSUME ownRotations \subseteq OwnRotation, IsFiniteSet(ownRotations),
         NEW e, held[e] \in Seq(Dated), chain[e] \in Seq(Dated), TakenInTurn(e, held[e]),
         NEW s \in Seq(Dated), Distinct(s), HandedAsHeld(e, s),
         NEW t \in Nat, NEW before, HeldUpTo(e, s, t, 0, before)
  PROVE  HeldUpTo(e, s, t + 1, 0, InWireOrder(e, t, before, s))
<1>1. PICK h \in Seq(Dated), c \in Seq(Dated) : h = held[e] /\ c = chain[e]
  OBVIOUS
<1>2. PICK n \in Nat, m \in Nat, N \in Nat :
        /\ n = Len(h) /\ m = Len(c) /\ N = Len(s)
        /\ DOMAIN h = 1..n /\ DOMAIN s = 1..N
  OBVIOUS
<1>3. /\ \A i, j \in 1..n : h[i] = h[j] => i = j
      /\ \A i, j \in 1..N : s[i] = s[j] => i = j
  BY <1>1, <1>2 DEF TakenInTurn, Distinct
<1>4. /\ IsPrefix(c, h) /\ ToSet(c \o s) = ToSet(h)
      /\ \A i \in 1..n : h[i].by \in Own => h[i].asserted_at < RotatedAt
      /\ \A i, j \in (m + 1)..n : i < j =>
           \/ h[i].asserted_at < h[j].asserted_at
           \/ /\ h[i].asserted_at = h[j].asserted_at
              /\ \E k, l \in 1..N : k < l /\ s[k] = h[i] /\ s[l] = h[j]
  <2>1. IsPrefix(c, h) /\ ToSet(c \o s) = ToSet(h)
    BY <1>1 DEF HandedAsHeld
  <2>2. \A i \in DOMAIN h : h[i].by \in Own => h[i].asserted_at < RotatedAt
    BY <1>1 DEF HandedAsHeld
  <2>3. ASSUME NEW i \in (m + 1)..n, NEW j \in (m + 1)..n, i < j
        PROVE  \/ h[i].asserted_at < h[j].asserted_at
               \/ /\ h[i].asserted_at = h[j].asserted_at
                  /\ \E k, l \in 1..N : k < l /\ s[k] = h[i] /\ s[l] = h[j]
    BY <1>1, <1>2, <2>3 DEF HandedAsHeld
  <2>4. QED
    BY <1>2, <2>1, <2>2, <2>3
<1>5. /\ \A k \in 1..n : h[k] \in ToSet(c) <=> k <= m
      /\ \A k \in (m + 1)..n : \E j \in 1..N : s[j] = h[k]
      /\ \A j \in 1..N : \E k \in 1..n : s[j] = h[k]
  <2>1. \A i, j \in 1..Len(h) : h[i] = h[j] => i = j
    BY <1>2, <1>3
  <2>2. IsPrefix(c, h) /\ ToSet(c \o s) = ToSet(h)
    BY <1>4
  <2>3. /\ \A k \in 1..Len(h) : h[k] \in ToSet(c) <=> k <= Len(c)
        /\ \A k \in (Len(c) + 1)..Len(h) : \E j \in 1..Len(s) : s[j] = h[k]
        /\ \A j \in 1..Len(s) : \E k \in 1..Len(h) : s[j] = h[k]
    BY <2>1, <2>2, RestIsHanded, Zenon
  <2>4. QED
    BY <1>2, <2>3, Zenon
<1>6. \A k \in 1..n : h[k] \in Assertion /\ h[k].asserted_at \in Nat
  BY <1>2 DEF Dated, Assertion, Time
<1>7. before \in Seq(Dated) /\ before \in Seq(Assertion) /\ s \in Seq(Assertion)
  BY DEF HeldUpTo, Dated
<1>8. PICK taken : /\ DayOf(e, t, before, s, taken)
                   /\ InWireOrder(e, t, before, s) = taken[N]
  BY <1>2, <1>7, DayRuns
<1> DEFINE Due(k, i) == \/ h[k].asserted_at < t
                        \/ h[k].asserted_at = t /\ \E j \in 1..i : s[j] = h[k]
           ok == {i \in 0..N : HeldUpTo(e, s, t, i, taken[i])}
<1>9. 0 \in ok
  BY <1>8 DEF DayOf
<1>10. ASSUME NEW i \in 1..N, i - 1 \in ok PROVE i \in ok
  <2>1. PICK g \in Seq(Dated) : g = taken[i - 1] /\ HeldUpTo(e, s, t, i - 1, g)
    BY <1>10 DEF HeldUpTo
  <2>2. PICK q \in Nat : q = Len(g) /\ m <= q /\ q <= n /\ \A k \in 1..q : g[k] = h[k]
    BY <1>1, <1>2, <2>1 DEF HeldUpTo, FirstOf
  <2>3. \A k \in (m + 1)..n : k <= q <=> Due(k, i - 1)
    BY <1>1, <1>2, <2>1, <2>2 DEF HeldUpTo
  <2>4. PICK a \in Dated : a = s[i]
    BY <1>2
  <2>5. PICK k \in 1..n : a = h[k]
    BY <1>5, <2>4
  <2>6. \A j \in 1..i : j = i \/ j \in 1..(i - 1)
    OBVIOUS
  <2>7. \A j \in 1..(i - 1) : j \in 1..i /\ j \in 1..N /\ j # i
    OBVIOUS
  <2>8. \A x \in (m + 1)..n : x \in 1..n /\ (x # k => (Due(x, i) <=> Due(x, i - 1)))
    <3>1. ASSUME NEW x \in (m + 1)..n, x # k PROVE s[i] # h[x]
      <4>1. x \in 1..n
        BY <1>2
      <4>2. QED
        BY <1>3, <2>4, <2>5, <3>1, <4>1
    <3>2. \A x \in (m + 1)..n : x \in 1..n
      BY <1>2
    <3>3. QED
      BY <2>6, <2>7, <3>1, <3>2
  <2>9. taken[i] = IF Taking(e, t, g, a) THEN Append(g, a) ELSE g
    BY <1>2, <1>8, <2>1, <2>4 DEF DayOf
  <2>10. i \in 0..N
    OBVIOUS
  <2>11. CASE a.asserted_at # t \/ k <= m
    <3>1. ~Taking(e, t, g, a)
      BY <1>1, <1>5, <2>5, <2>11 DEF Taking, WireOrder
    <3>2. \A x \in (m + 1)..n : x <= q <=> Due(x, i)
      <4>1. k \in (m + 1)..n => (Due(k, i) <=> Due(k, i - 1))
        <5>1. ASSUME k \in (m + 1)..n PROVE h[k].asserted_at # t
          BY <1>2, <2>5, <2>11, <5>1
        <5>2. QED
          BY <5>1
      <4>2. QED
        BY <2>3, <2>8, <4>1
    <3>3. taken[i] = g
      BY <2>9, <3>1
    <3>4. HeldUpTo(e, s, t, i, g)
      BY <1>1, <1>2, <2>1, <2>2, <3>2 DEF HeldUpTo
    <3>5. QED
      BY <2>10, <3>3, <3>4
  <2>12. CASE a.asserted_at = t /\ ~(k <= m)
    <3>1. k \in (m + 1)..n
      BY <1>2, <2>12
    <3>2. ~(k <= q)
      <4>1. SUFFICES ASSUME Due(k, i - 1) PROVE FALSE
        BY <2>3, <3>1
      <4>2. PICK j \in 1..(i - 1) : s[j] = h[k]
        BY <1>6, <2>5, <2>12, <4>1
      <4>3. QED
        BY <1>3, <2>4, <2>5, <2>7, <4>2
    <3>3. k = q + 1
      <4>1. SUFFICES ASSUME q + 1 < k PROVE FALSE
        BY <2>2, <3>2
      <4>2. q + 1 \in (m + 1)..n
        BY <2>2, <3>1, <4>1
      <4>3. Due(q + 1, i - 1)
        <5>1. CASE h[q + 1].asserted_at < h[k].asserted_at
          BY <2>5, <2>12, <5>1
        <5>2. CASE /\ h[q + 1].asserted_at = h[k].asserted_at
                   /\ \E j, l \in 1..N : j < l /\ s[j] = h[q + 1] /\ s[l] = h[k]
          <6>1. PICK j \in 1..N, l \in 1..N : j < l /\ s[j] = h[q + 1] /\ s[l] = h[k]
            BY <5>2
          <6>2. l = i
            BY <1>3, <2>4, <2>5, <6>1
          <6>3. j \in 1..(i - 1)
            BY <6>1, <6>2
          <6>4. QED
            BY <2>5, <2>12, <5>2, <6>1, <6>3
        <5>3. \/ h[q + 1].asserted_at < h[k].asserted_at
              \/ /\ h[q + 1].asserted_at = h[k].asserted_at
                 /\ \E j, l \in 1..N : j < l /\ s[j] = h[q + 1] /\ s[l] = h[k]
          <6>1. PICK x \in (m + 1)..n : x = q + 1
            BY <4>2
          <6>2. x < k
            BY <4>1, <6>1
          <6>3. \/ h[x].asserted_at < h[k].asserted_at
                \/ /\ h[x].asserted_at = h[k].asserted_at
                   /\ \E j, l \in 1..N : j < l /\ s[j] = h[x] /\ s[l] = h[k]
            BY <1>4, <3>1, <6>2
          <6>4. QED
            BY <6>1, <6>3
        <5>4. QED
          BY <5>1, <5>2, <5>3
      <4>4. q + 1 <= q
        BY <2>3, <4>2, <4>3
      <4>5. QED
        BY <4>4
    <3>4. FirstOf(g, q, h) /\ g \in Seq(Assertion) /\ q + 1 <= n
      <4>1. g \in Seq(Assertion)
        BY DEF Dated
      <4>2. q + 1 <= n
        BY <3>3
      <4>3. QED
        BY <1>2, <2>2, <4>1, <4>2 DEF FirstOf
    <3>5. TakenAfter(e, g, h[q + 1])
      BY <1>1, <1>2, <1>4, <3>4, HeldIsTaken
    <3>6. Taking(e, t, g, a)
      BY <1>1, <1>5, <2>5, <2>12, <3>3, <3>5 DEF Taking, WireOrder
    <3>7. PICK r : r = Append(g, a)
      OBVIOUS
    <3>8. r \in Seq(Dated) /\ Len(r) = q + 1 /\ r[q + 1] = a /\ \A x \in 1..q : r[x] = g[x]
      BY <2>2, <3>7
    <3>9. \A x \in 1..(q + 1) : r[x] = h[x]
      <4>1. \A x \in 1..(q + 1) : x = q + 1 \/ x \in 1..q
        OBVIOUS
      <4>2. QED
        BY <2>2, <2>5, <3>3, <3>8, <4>1
    <3>10. Due(k, i)
      <4>1. i \in 1..i
        OBVIOUS
      <4>2. QED
        BY <2>4, <2>5, <2>12, <4>1
    <3>11. \A x \in (m + 1)..n : x <= q + 1 <=> Due(x, i)
      <4>1. ASSUME NEW x \in (m + 1)..n, x # k PROVE x <= q + 1 <=> Due(x, i)
        <5>1. x <= q + 1 <=> x <= q
          BY <2>2, <3>3, <4>1
        <5>2. QED
          BY <2>3, <2>8, <4>1, <5>1
      <4>2. QED
        BY <3>3, <3>10, <4>1
    <3>12. taken[i] = r
      BY <2>9, <3>6, <3>7
    <3>13. m <= q + 1
      BY <2>2
    <3>14. HeldUpTo(e, s, t, i, r)
      BY <1>1, <1>2, <3>4, <3>8, <3>9, <3>11, <3>13 DEF HeldUpTo, FirstOf
    <3>15. QED
      BY <2>10, <3>12, <3>14
  <2>13. QED
    BY <2>11, <2>12
<1>11. \A i \in 0..N : i \in ok
  <2> HIDE DEF ok
  <2>1. QED
    BY <1>9, <1>10, ByTurns
<1>12. PICK r : r = taken[N]
  OBVIOUS
<1>13. HeldUpTo(e, s, t, N, r)
  BY <1>11, <1>12
<1>14. ASSUME NEW k \in (m + 1)..n
       PROVE  Due(k, N) <=> h[k].asserted_at < t + 1
  <2>1. k \in 1..n
    BY <1>2
  <2>2. h[k].asserted_at \in Nat /\ \E j \in 1..N : s[j] = h[k]
    BY <1>5, <1>6, <2>1
  <2>3. QED
    BY <2>2
<1>15. HeldUpTo(e, s, t + 1, 0, r)
  <2>1. \A k \in (m + 1)..n : k <= Len(r) <=> h[k].asserted_at < t + 1
    <3>1. \A k \in (m + 1)..n : k <= Len(r) <=> Due(k, N)
      BY <1>1, <1>2, <1>13 DEF HeldUpTo
    <3>2. QED
      BY <1>14, <3>1
  <2>2. QED
    BY <1>1, <1>2, <1>13, <2>1 DEF HeldUpTo
<1>16. QED
  BY <1>8, <1>12, <1>15

(* Handed as held, what is held is stored.                                 *)
LEMMA JudgedAsHeld ==
  ASSUME ownRotations \subseteq OwnRotation, IsFiniteSet(ownRotations),
         NEW e, held[e] \in Seq(Dated), chain[e] \in Seq(Dated), TakenInTurn(e, held[e]),
         NEW s \in Seq(Dated), Distinct(s), HandedAsHeld(e, s)
  PROVE  Judged(e, s) = held[e]
<1>1. PICK h \in Seq(Dated), c \in Seq(Dated) : h = held[e] /\ c = chain[e]
  OBVIOUS
<1>2. PICK n \in Nat, m \in Nat : n = Len(h) /\ m = Len(c) /\ DOMAIN h = 1..n
  OBVIOUS
<1>3. s \in Seq(Assertion) /\ c \in Seq(Assertion)
  BY DEF Dated
<1>4. PICK after : DaysOf(e, s, after) /\ Judged(e, s) = after[Now + 1]
  BY <1>1, <1>3, DaysRun
<1>5. PICK N \in Nat : N = Now + 1
  BY RecoveryAssumption DEF Time
<1>6. \A k \in 1..n : h[k].asserted_at \in Nat /\ h[k].asserted_at < N
  BY <1>2, <1>5, RecoveryAssumption DEF Dated, Assertion, Time
<1> DEFINE ok == {d \in 0..N : HeldUpTo(e, s, d, 0, after[d])}
<1>7. 0 \in ok
  <2>1. IsPrefix(c, h) /\ ToSet(c \o s) = ToSet(h)
        /\ \A i, j \in 1..n : h[i] = h[j] => i = j
    BY <1>1, <1>2 DEF HandedAsHeld, TakenInTurn
  <2>2. FirstOf(c, m, h)
    BY <1>2, <2>1, RestIsHanded
  <2>3. \A k \in (m + 1)..n : k \in 1..n /\ ~(k <= m)
    BY <1>2
  <2>4. \A k \in (m + 1)..n : ~(h[k].asserted_at < 0) /\ ~(\E j \in 1..0 : s[j] = h[k])
    BY <1>6, <2>3
  <2>5. HeldUpTo(e, s, 0, 0, c)
    BY <1>1, <1>2, <2>2, <2>3, <2>4 DEF HeldUpTo
  <2>6. QED
    BY <1>1, <1>4, <2>5 DEF DaysOf
<1>8. ASSUME NEW d \in 1..N, d - 1 \in ok PROVE d \in ok
  <2>1. PICK t \in Nat : t = d - 1 /\ d = t + 1
    OBVIOUS
  <2>2. after[d] = InWireOrder(e, t, after[t], s)
    BY <1>4, <1>5, <2>1 DEF DaysOf
  <2>3. HeldUpTo(e, s, t, 0, after[t])
    BY <1>8, <2>1
  <2>4. HeldUpTo(e, s, t + 1, 0, after[d])
    BY <2>2, <2>3, DayAsHeld
  <2>5. QED
    BY <2>1, <2>4
<1>9. \A d \in 0..N : d \in ok
  <2> HIDE DEF ok
  <2>1. QED
    BY <1>7, <1>8, ByTurns
<1>10. PICK r : r = Judged(e, s)
  OBVIOUS
<1>11. HeldUpTo(e, s, N, 0, r)
  <2>1. N \in ok
    BY <1>9
  <2>2. QED
    BY <1>4, <1>5, <1>10, <2>1
<1>12. /\ r \in Seq(Dated) /\ Len(r) <= n /\ m <= Len(r)
       /\ \A i \in 1..Len(r) : r[i] = h[i]
       /\ \A k \in (m + 1)..n : h[k].asserted_at < N => k <= Len(r)
  BY <1>1, <1>2, <1>11 DEF HeldUpTo, FirstOf
<1>13. Len(r) = n
  <2>1. Len(r) \in Nat
    BY <1>12
  <2>2. SUFFICES ASSUME m < n PROVE n <= Len(r)
    BY <1>2, <1>12, <2>1
  <2>3. n \in (m + 1)..n /\ n \in 1..n
    BY <1>2, <2>2
  <2>4. QED
    BY <1>6, <1>12, <2>3
<1>14. r = h
  <2>1. DOMAIN r = 1..n /\ \A i \in 1..n : r[i] = h[i]
    BY <1>12, <1>13
  <2>2. r \in [1..n -> Dated] /\ h \in [1..n -> Dated]
    BY <1>2, <1>12, <2>1
  <2>3. QED
    BY <2>1, <2>2
<1>15. QED
  BY <1>1, <1>10, <1>14

-----------------------------------------------------------------------------
(* The state a recovering node arrives at.                                 *)

(* What is stored is what was held or made up, and all of what is held if  *)
(* it was handed over so.                                                  *)
StoredOf(e) ==
  /\ \A i \in 1..Len(chain[e]) : chain[e][i] \in ToSet(held[e]) \cup PeerMade
  /\ e \in restored /\ e.owner \in Own => held[e] # <<>>
  /\ e \in whole => chain[e] = held[e]

StoredTypes ==
  /\ held \in HeldChains /\ chain \in [Edges -> Seq(Dated)]
  /\ rotations \subseteq OwnRotation /\ ownRotations \subseteq OwnRotation
  /\ IsFiniteSet(ownRotations)
  /\ restored \subseteq Edges /\ whole \subseteq Edges

StoredInv == StoredTypes /\ \A e \in Edges : StoredOf(e)

(* A response to a request of the node's own keeps all of it.              *)
LEMMA ResponseIsStored ==
  ASSUME StoredInv, NEW e \in Edges, NEW s \in Handable(e), ApplyRecoverResponse(e, s)
  PROVE  StoredInv'
<1> DEFINE S == ToSet(held[e]) \cup PeerMade
<1>0. PICK h \in Seq(Dated), c \in Seq(Dated) : h = held[e] /\ c = chain[e]
  BY RecoveryAssumption DEF StoredInv, StoredTypes
<1>1. s \in Seq(Dated) /\ Distinct(s) /\ \A i \in 1..Len(s) : s[i] \in S
  <2>1. PICK n \in 0..MaxHanded :
          s \in [1..n -> ToSet(held[e]) \cup {a \in PeerMade : a.edge_id = e.edge_id}]
    BY DEF Handable
  <2>2. \A i, j \in DOMAIN s : s[i] = s[j] => i = j
    BY DEF Handable
  <2>3. S \subseteq Dated
    BY <1>0, RecoveryAssumption DEF ToSet
  <2>4. s \in [1..n -> S]
    BY <2>1
  <2>5. n \in Nat
    BY RecoveryAssumption
  <2>6. s \in Seq(S) /\ s \in Seq(Dated) /\ DOMAIN s = 1..n /\ Len(s) = n
    BY <2>3, <2>4, <2>5
  <2>7. QED
    BY <2>2, <2>4, <2>6 DEF Distinct
<1>2. PICK r : r = Judged(e, s)
  OBVIOUS
<1>3. PICK written \in Len(c)..Len(r) :
        /\ chain' = [chain EXCEPT ![e] = SubSeq(r, 1, written)]
        /\ whole' = IF written = Len(r) /\ HandedAsHeld(e, s)
                    THEN whole \cup {e} ELSE whole \ {e}
  BY <1>0, <1>2 DEF ApplyRecoverResponse
<1>4. /\ restored' = restored \cup {e} /\ held' = held
      /\ rotations' = rotations /\ ownRotations' = ownRotations
  BY DEF ApplyRecoverResponse, responder
<1>5. PICK x : x = SubSeq(r, 1, written)
  OBVIOUS
<1>6. Continues(c, r, ToSet(s))
  BY <1>0, <1>1, <1>2, JudgedContinues
<1>7. r \in Seq(Dated) /\ written \in 0..Len(r)
  BY <1>0, <1>6 DEF Continues
<1>8. x \in Seq(Dated) /\ Len(x) = written /\ \A i \in 1..written : x[i] = r[i]
  BY <1>5, <1>7
<1>9. \A i \in 1..Len(r) : r[i] \in S
  <2>1. \A a \in ToSet(c) : a \in S
    BY <1>0 DEF StoredInv, StoredOf, ToSet
  <2>2. \A a \in ToSet(s) : a \in S
    BY <1>1 DEF ToSet
  <2>3. QED
    BY <1>6, <2>1, <2>2 DEF Continues
<1>10. chain' \in [Edges -> Seq(Dated)] /\ chain'[e] = x
       /\ \A f \in Edges : f # e => chain'[f] = chain[f]
  BY <1>3, <1>5, <1>8 DEF StoredInv, StoredTypes
<1>11. StoredTypes'
  BY <1>3, <1>4, <1>10 DEF StoredInv, StoredTypes
<1>12. ASSUME e \in whole' PROVE x = h
  <2>1. written = Len(r) /\ HandedAsHeld(e, s)
    BY <1>3, <1>12
  <2>2. TakenInTurn(e, h)
    BY <1>0, HeldAssumption DEF StoredInv, StoredTypes
  <2>3. r = h
    BY <1>0, <1>1, <1>2, <2>1, <2>2, JudgedAsHeld DEF StoredInv, StoredTypes
  <2>4. QED
    BY <1>5, <1>7, <2>1, <2>3
<1>13. ASSUME NEW f \in Edges PROVE StoredOf(f)'
  <2>1. StoredOf(f)
    BY DEF StoredInv
  <2>2. CASE f # e
    <3>1. f \in whole' => f \in whole
      BY <1>3, <2>2
    <3>2. QED
      BY <1>4, <1>10, <2>1, <2>2, <3>1 DEF StoredOf
  <2>3. CASE f = e
    <3>1. \A i \in 1..written : i \in 1..Len(r)
      BY <1>7
    <3>2. \A i \in 1..Len(x) : x[i] \in S
      BY <1>8, <1>9, <3>1
    <3>3. ASSUME e.owner \in Own PROVE held[e] # <<>>
      <4>1. PICK i \in DOMAIN r : /\ r[i].by = e.owner
                                  /\ TakenAfter(e, SubSeq(r, 1, i - 1), r[i])
        BY <1>2 DEF ApplyRecoverResponse, ProposedByOwner
      <4>2. r[i].signer = e.owner
        BY <4>1 DEF TakenAfter, Accepts, Authentic
      <4>3. r[i] \in S
        BY <1>7, <1>9, <4>1
      <4>4. r[i] \in ToSet(held[e])
        BY <3>3, <4>2, <4>3, RecoveryAssumption
      <4>5. QED
        BY <4>4 DEF ToSet
    <3>4. QED
      BY <1>0, <1>4, <1>10, <1>12, <2>3, <3>2, <3>3 DEF StoredOf
  <2>4. QED
    BY <2>2, <2>3
<1>14. QED
  BY <1>11, <1>13 DEF StoredInv

(* Nothing else touches what is stored.                                    *)
LEMMA StoredStays ==
  ASSUME StoredInv, held' = held, chain' = chain, restored' = restored, whole' = whole,
         rotations' \subseteq OwnRotation, ownRotations' \subseteq OwnRotation,
         IsFiniteSet(ownRotations')
  PROVE  StoredInv'
<1>1. StoredTypes'
  BY DEF StoredInv, StoredTypes
<1>2. \A e \in Edges : StoredOf(e)'
  BY DEF StoredInv, StoredOf
<1>3. QED
  BY <1>1, <1>2 DEF StoredInv

(* So it is in every reachable state.                                      *)
LEMMA StoredInvHolds == Spec => []StoredInv
<1>1. Init => StoredInv
  <2>1. SUFFICES ASSUME Init PROVE StoredInv
    OBVIOUS
  <2>2. StoredTypes
    <3>1. <<>> \in Seq(Dated)
      OBVIOUS
    <3>2. IsFiniteSet(ownRotations)
      BY <2>1, FS_EmptySet DEF Init
    <3>3. QED
      BY <2>1, <3>1, <3>2 DEF Init, StoredTypes
  <2>3. ASSUME NEW e \in Edges PROVE StoredOf(e)
    <3>1. chain[e] = <<>> /\ restored = {} /\ whole = {} /\ Len(<<>>) = 0
      BY <2>1 DEF Init
    <3>2. QED
      BY <3>1 DEF StoredOf
  <2>4. QED
    BY <2>2, <2>3 DEF StoredInv
<1>2. StoredInv /\ [Next]_vars => StoredInv'
  <2>0. SUFFICES ASSUME StoredInv, [Next]_vars PROVE StoredInv'
    OBVIOUS
  <2>00. rotations \subseteq OwnRotation /\ ownRotations \subseteq OwnRotation
         /\ IsFiniteSet(ownRotations)
    BY <2>0 DEF StoredInv, StoredTypes
  <2>1. CASE /\ held' = held /\ chain' = chain /\ restored' = restored
             /\ whole' = whole /\ rotations' = rotations /\ ownRotations' = ownRotations
    BY <2>0, <2>00, <2>1, StoredStays
  <2>2. CASE IssueChallenge \/ ResponderRestarts
    BY <2>1, <2>2 DEF IssueChallenge, ResponderRestarts, requester
  <2>3. ASSUME NEW q \in Requests, Answer(q) PROVE StoredInv'
    BY <2>1, <2>3 DEF Answer, requester
  <2>4. ASSUME NEW k \in Own, NEW c \in 1..challenges, SignChallenge(k, c) PROVE StoredInv'
    BY <2>1, <2>4 DEF SignChallenge, responder, requester
  <2>5. ASSUME NEW old \in Own, NEW new \in Own, SignRotation(old, new) PROVE StoredInv'
    <3>1. rotations' = rotations \cup {Rotation(old, new, old)}
          /\ ownRotations' = ownRotations /\ held' = held /\ chain' = chain
          /\ restored' = restored /\ whole' = whole
      BY <2>5 DEF SignRotation, responder, requester
    <3>2. Rotation(old, new, old) \in OwnRotation
      BY DEF OwnRotation
    <3>3. QED
      BY <2>0, <2>00, <3>1, <3>2, StoredStays
  <2>6. ASSUME NEW r \in rotations, PutRotation(r) PROVE StoredInv'
    <3>1. ownRotations' = ownRotations \cup {r} /\ rotations' = rotations
          /\ held' = held /\ chain' = chain /\ restored' = restored /\ whole' = whole
      BY <2>6 DEF PutRotation, responder
    <3>2. IsFiniteSet(ownRotations')
      BY <2>00, <3>1, FS_AddElement
    <3>3. QED
      BY <2>0, <2>00, <3>1, <3>2, StoredStays
  <2>7. ASSUME NEW e \in Edges, NEW s \in Handable(e), ApplyRecoverResponse(e, s)
        PROVE  StoredInv'
    BY <2>0, <2>7, ResponseIsStored
  <2>8. CASE UNCHANGED vars
    BY <2>1, <2>8 DEF vars, responder, requester
  <2>9. QED
    BY <2>0, <2>2, <2>3, <2>4, <2>5, <2>6, <2>7, <2>8 DEF Next
<1>3. QED
  BY <1>1, <1>2, PTL DEF Spec

(* A restored promise of the node's own was held by its counterparty, and  *)
(* once the node was handed what is held of a promise, in whatever order   *)
(* of dates but with those of one instant as held, all at once or after a  *)
(* beginning of it, it reads the same state (applyRecoverResponse): for    *)
(* histories of any length that a table took in turn.                      *)
THEOREM RestoredIsHeld == Spec => []RestoredAsHeld
<1>1. StoredInv => RestoredAsHeld
  BY DEF StoredInv, StoredTypes, StoredOf, RestoredAsHeld, HeldEdges
<1>2. QED
  BY <1>1, StoredInvHolds, PTL

-----------------------------------------------------------------------------
(* Executors: how much an executor may do alone, and what its drafts are.  *)

Level == {"draft-for-review", "auto-apply-with-window", "silent-with-receipt"}

(* The order of the levels.                                                *)
LEMMA Ranks ==
  /\ LevelRank("draft-for-review") = 1
  /\ LevelRank("auto-apply-with-window") = 2
  /\ LevelRank("silent-with-receipt") = 3
<1>1. /\ AUTONOMY_LEVELS[1] = "draft-for-review"
      /\ AUTONOMY_LEVELS[2] = "auto-apply-with-window"
      /\ AUTONOMY_LEVELS[3] = "silent-with-receipt"
  BY DEF AUTONOMY_LEVELS
<1>2. \A i \in 1..3 : i = 1 \/ i = 2 \/ i = 3
  OBVIOUS
<1>3. QED
  BY <1>1, <1>2 DEF LevelRank

(* The lesser of two levels is one of them, and above neither.             *)
LEMMA Lesser ==
  ASSUME NEW a \in Level, NEW b \in Level
  PROVE  /\ MinLevel(a, b) \in Level
         /\ MinLevel(a, b) # "draft-for-review" =>
              a # "draft-for-review" /\ b # "draft-for-review"
         /\ MinLevel(a, b) = "silent-with-receipt" =>
              a = "silent-with-receipt" /\ b = "silent-with-receipt"
BY Ranks DEF MinLevel, Level

(* A level above the least was reached by a streak and let through by the  *)
(* ceiling, on an edge that can be verified.                               *)
LEMMA AutonomyGranted ==
  ASSUME NEW streak \in Nat, NEW c \in Class, NEW files, NEW verifiable \in BOOLEAN,
         NEW level,
         level = EffectiveAutonomy(streak, CeilingFor(RiskClass(c), files), verifiable),
         level # "draft-for-review"
  PROVE  /\ level \in {"auto-apply-with-window", "silent-with-receipt"}
         /\ streak >= PROMOTION_THRESHOLDS[level]
         /\ level = "silent-with-receipt" => c # "dep-bump"
         /\ files \cap SensitiveFile = {}
         /\ verifiable
<1>1. verifiable
  BY DEF EffectiveAutonomy
<1>2. PICK earned : earned = LevelFromHistory(streak)
  OBVIOUS
<1>3. PICK top : top = CeilingFor(RiskClass(c), files)
  OBVIOUS
<1>4. /\ earned \in Level
      /\ earned = "silent-with-receipt" =>
           streak >= PROMOTION_THRESHOLDS["silent-with-receipt"]
      /\ earned # "draft-for-review" =>
           streak >= PROMOTION_THRESHOLDS["auto-apply-with-window"]
  BY <1>2, ExecutorAssumption DEF LevelFromHistory, Level
<1>5. /\ RISK_CEILING(RiskClass(c)) \in Level
      /\ RISK_CEILING(RiskClass(c)) = "silent-with-receipt" => c # "dep-bump"
      /\ RISK_CEILING("sensitive") = "draft-for-review"
  BY DEF RISK_CEILING, RiskClass, Class, Level
<1>6. /\ top \in Level
      /\ top = "silent-with-receipt" => c # "dep-bump"
      /\ top # "draft-for-review" => files \cap SensitiveFile = {}
  <2>1. CASE files \cap SensitiveFile = {}
    BY <1>3, <1>5, <2>1 DEF CeilingFor
  <2>2. CASE files \cap SensitiveFile # {}
    <3>1. top = MinLevel(RISK_CEILING(RiskClass(c)), RISK_CEILING("sensitive"))
      BY <1>3, <2>2 DEF CeilingFor
    <3>2. "draft-for-review" \in Level
      BY DEF Level
    <3>3. QED
      BY <1>5, <3>1, <3>2, Lesser
  <2>3. QED
    BY <2>1, <2>2
<1>7. level = MinLevel(earned, top)
  BY <1>1, <1>2, <1>3 DEF EffectiveAutonomy
<1>8. /\ level \in Level
      /\ earned # "draft-for-review" /\ top # "draft-for-review"
      /\ level = "silent-with-receipt" =>
           earned = "silent-with-receipt" /\ top = "silent-with-receipt"
  BY <1>4, <1>6, <1>7, Lesser
<1>9. level \in {"auto-apply-with-window", "silent-with-receipt"}
  BY <1>8 DEF Level
<1>10. streak >= PROMOTION_THRESHOLDS[level]
  <2>1. CASE level = "silent-with-receipt"
    BY <1>4, <1>8, <2>1
  <2>2. CASE level = "auto-apply-with-window"
    BY <1>4, <1>8, <2>2
  <2>3. QED
    BY <1>9, <2>1, <2>2
<1>11. QED
  BY <1>1, <1>6, <1>8, <1>9, <1>10

(* What a verifiable edge has behind it.                                   *)
LEMMA VerifiedBySomething ==
  ASSUME NEW promise, EdgeVerifiable(promise)
  PROVE  /\ CollectiveDecompositionValid(promise.edge)
         /\ promise.edge.closure_policy = "on-evidence" =>
              \E ref \in promise.refs :
                ref.wellFormed /\ ref.kind \in promise.capable \ {"url"}
<1>1. CollectiveDecompositionValid(promise.edge)
  BY DEF EdgeVerifiable, IsEdgeVerifiable
<1>2. ASSUME promise.edge.closure_policy = "on-evidence"
      PROVE  \E ref \in promise.refs :
               ref.wellFormed /\ ref.kind \in promise.capable \ {"url"}
  <2>1. VerifyCommitment(promise.refs, promise.edge, promise.capable).verifiable
    BY <1>2 DEF EdgeVerifiable, IsEdgeVerifiable
  <2>2. PICK ref \in promise.refs :
          AdapterFor(ref.kind) /\ Observe(ref, promise.capable).verifiable
    BY <2>1 DEF VerifyCommitment, NotVerifiable
  <2>3. ref.wellFormed /\ ref.kind \in promise.capable
    BY <2>2 DEF Observe, NotVerifiable
  <2>4. ref.kind # "url"
    BY <2>2 DEF AdapterFor, OBSERVABLE_REF_KINDS
  <2>5. QED
    BY <2>3, <2>4
<1>3. QED
  BY <1>1, <1>2

(* The image of a finite set is finite.                                    *)
LEMMA ImageIsFinite ==
  ASSUME NEW S, IsFiniteSet(S), NEW R, NEW f \in [S -> R],
         \A y \in R : \E x \in S : f[x] = y
  PROVE  IsFiniteSet(R)
<1>1. f \in Surjection(S, R)
  BY DEF Surjection
<1>2. QED
  BY <1>1, FS_Surjection

(* What a class's own code proposes is a finite answer: a write to the one *)
(* file its target names, if any.                                          *)
LEMMA OwnAnswerIsFinite ==
  ASSUME NEW c \in Class, NEW snapshot, NEW target
  PROVE  IsFiniteSet(RunClass(c, snapshot, target))
<1>1. ASSUME NEW d PROVE IsFiniteSet(ReadOrNull(d, snapshot, target.path))
  <2>1. IsFiniteSet({target.path.file})
    BY FS_Singleton
  <2>2. ReadOrNull(d, snapshot, target.path) \in SUBSET {target.path.file}
    BY DEF ReadOrNull, AssertPermitted, NormalizeWorkspacePath
  <2>3. QED
    BY <2>1, <2>2, FS_Subset
<1>2. IsFiniteSet(TestsExecutor(snapshot, target))
  <2> DEFINE V == {g \in ReadOrNull("tests", snapshot, target.path) :
                    1 \in snapshot[g] /\ snapshot[TestOf[g]] = NoFile}
             f == [g \in V |-> Write(Plain(TestOf[g]), snapshot[g])]
  <2>1. IsFiniteSet(V)
    BY <1>1, FS_Subset
  <2>2. PICK R : R = TestsExecutor(snapshot, target)
    OBVIOUS
  <2>3. f \in [V -> R] /\ \A y \in R : \E x \in V : f[x] = y
    BY <2>2 DEF TestsExecutor
  <2> HIDE DEF f, V
  <2>4. QED
    BY <2>1, <2>2, <2>3, ImageIsFinite
<1>3. IsFiniteSet(DeadCodeExecutor(snapshot, target))
  <2> DEFINE V == {g \in ReadOrNull("dead-code", snapshot, target.path) :
                    /\ target.line \in snapshot[g]
                    /\ \A h \in File \ {g} : target.line \notin snapshot[h]}
             f == [g \in V |-> Write(Plain(g), snapshot[g] \ {target.line})]
  <2>1. IsFiniteSet(V)
    BY <1>1, FS_Subset
  <2>2. PICK R : R = DeadCodeExecutor(snapshot, target)
    OBVIOUS
  <2>3. f \in [V -> R] /\ \A y \in R : \E x \in V : f[x] = y
    BY <2>2 DEF DeadCodeExecutor
  <2> HIDE DEF f, V
  <2>4. QED
    BY <2>1, <2>2, <2>3, ImageIsFinite
<1>4. IsFiniteSet(DepBumpExecutor(snapshot, target))
  <2> DEFINE V == {g \in ReadOrNull("dep-bump", snapshot, target.path) :
                    target.line \notin snapshot[g]}
             f == [g \in V |-> Write(Plain(g), {target.line})]
  <2>1. IsFiniteSet(V)
    BY <1>1, FS_Subset
  <2>2. PICK R : R = DepBumpExecutor(snapshot, target)
    OBVIOUS
  <2>3. f \in [V -> R] /\ \A y \in R : \E x \in V : f[x] = y
    BY <2>2 DEF DepBumpExecutor
  <2> HIDE DEF f, V
  <2>4. QED
    BY <2>1, <2>2, <2>3, ImageIsFinite
<1>5. QED
  BY <1>2, <1>3, <1>4 DEF RunClass, Class

(* The changes a proposal makes are a finite set.                          *)
LEMMA ChangesAreFinite ==
  ASSUME NEW snapshot, NEW proposal, IsFiniteSet(proposal)
  PROVE  IsFiniteSet(Changes(snapshot, proposal))
<1> DEFINE V == {v \in proposal :
                   IF v.lines = NoFile THEN snapshot[v.path.file] # NoFile
                   ELSE UnifiedDiff(snapshot[v.path.file], v.lines) > 0}
           f == [w \in V |->
                  [spelt |-> w.path.spelt, file |-> w.path.file,
                   kind |-> IF w.lines = NoFile THEN "deleted"
                            ELSE IF snapshot[w.path.file] = NoFile THEN "added"
                            ELSE "modified",
                   lines |-> UnifiedDiff(snapshot[w.path.file], w.lines)]]
<1>1. IsFiniteSet(V)
  BY FS_Subset
<1>2. PICK R : R = Changes(snapshot, proposal)
  OBVIOUS
<1>3. f \in [V -> R] /\ \A y \in R : \E x \in V : f[x] = y
  BY <1>2 DEF Changes
<1> HIDE DEF f, V
<1>4. QED
  BY <1>1, <1>2, <1>3, ImageIsFinite

(* A file of the changes is one the class may write.                       *)
LEMMA ChangesAreWritable ==
  ASSUME NEW c, NEW snapshot, NEW proposal, Revalidated(c, proposal),
         NEW f \in Files(Changes(snapshot, proposal))
  PROVE  PlaceOf[f] \in Writable(c)
<1>1. PICK w \in proposal : f = w.path.file
  BY DEF Files, Changes
<1>2. AssertPermitted(Writable(c), w.path) # {}
  BY DEF Revalidated
<1>3. QED
  BY <1>1, <1>2 DEF AssertPermitted, NormalizeWorkspacePath

-----------------------------------------------------------------------------
(* The streak a review in flight has read, and the one a draft's level is  *)
(* computed from.                                                          *)

(* A streak that no correction should have reset is no more than the       *)
(* unedited approvals since the last one: the stored streak, the one a     *)
(* review in flight has read and the one a run began with.                 *)
TrustInv ==
  /\ trust \in [Class -> Nat] /\ unedited \in [Class -> Nat]
  /\ \A c \in Class \ uncorrected : trust[c] <= unedited[c]

ReviewInv ==
  /\ DOMAIN recording = Reviewer
  /\ \A p \in Reviewer :
       recording[p] # NotRecording =>
         /\ recording[p].class \in Class /\ recording[p].streak \in Nat
         /\ recording[p].outcome \in Outcome
         /\ p \notin outdated => recording[p].streak <= unedited[recording[p].class]

(* A run: a class of the registry, the streak its caller read and, from    *)
(* the child on, a finite answer if any.                                   *)
Waiting(w) ==
  /\ DOMAIN w = {"stage", "class", "streak", "target", "promise", "snapshot",
                    "child", "out"}
  /\ IsFiniteSet(w.out.proposal)

RunInv ==
  /\ DOMAIN run = Runner
  /\ \A r \in Runner :
       /\ run[r] # Idle =>
            /\ run[r].class \in Class /\ run[r].streak \in Nat
            /\ r \notin outdated => run[r].streak <= unedited[run[r].class]
       /\ run[r].stage = "waiting" => Waiting(run[r])

(* Reading a streak: it has outlived a correction just if the reader is    *)
(* taken for one that holds such a streak.                                 *)
LEMMA ReadIsBounded ==
  ASSUME TrustInv, NEW who, NEW c \in Class, Reads(who, c)
  PROVE  /\ who \notin outdated' => trust[c] <= unedited[c]
         /\ outdated \subseteq outdated'
BY DEF TrustInv, Reads

(* A review reads.                                                         *)
LEMMA ReviewReads ==
  ASSUME TrustInv, ReviewInv, RunInv, NEW p \in Reviewer, GetTrust(p)
  PROVE  TrustInv' /\ ReviewInv' /\ RunInv'
<1>1. PICK c \in Class, outcome \in Outcome :
        /\ recording' = [recording EXCEPT ![p] = [class |-> c, streak |-> trust[c],
                                                  outcome |-> outcome]]
        /\ Reads(p, c)
  <2>1. PICK review \in Reviews :
          /\ recording' = [recording EXCEPT ![p] =
                             [class |-> review[1], streak |-> trust[review[1]],
                              outcome |-> review[2]]]
          /\ Reads(p, review[1])
    BY DEF GetTrust
  <2>2. review[1] \in Class /\ review[2] \in Outcome
    BY ExecutorAssumption
  <2>3. QED
    BY <2>1, <2>2
<1>2. /\ trust' = trust /\ unedited' = unedited /\ uncorrected' = uncorrected
      /\ run' = run
  BY DEF GetTrust
<1>3. /\ p \notin outdated' => trust[c] <= unedited[c]
      /\ outdated \subseteq outdated'
  BY <1>1, ReadIsBounded
<1>4. TrustInv'
  BY <1>2 DEF TrustInv
<1>5. RunInv'
  BY <1>2, <1>3 DEF RunInv, Waiting
<1>6. ASSUME NEW q \in Reviewer, recording'[q] # NotRecording
      PROVE  /\ recording'[q].class \in Class /\ recording'[q].streak \in Nat
             /\ recording'[q].outcome \in Outcome
             /\ q \notin outdated' =>
                  recording'[q].streak <= unedited[recording'[q].class]
  <2>1. CASE q = p
    <3>1. recording'[q] = [class |-> c, streak |-> trust[c], outcome |-> outcome]
      BY <1>1, <2>1 DEF ReviewInv
    <3>2. trust[c] \in Nat
      BY DEF TrustInv
    <3>3. QED
      BY <1>3, <2>1, <3>1, <3>2
  <2>2. CASE q # p
    BY <1>1, <1>3, <1>6, <2>2 DEF ReviewInv
  <2>3. QED
    BY <2>1, <2>2
<1>7. DOMAIN recording' = Reviewer
  BY <1>1 DEF ReviewInv
<1>8. QED
  BY <1>2, <1>4, <1>5, <1>6, <1>7 DEF ReviewInv, NotRecording

(* And writes.  After a correction whoever holds a streak of the class     *)
(* holds one that outlived it; anything else only adds to the approvals.   *)
LEMMA ReviewWrites ==
  ASSUME TrustInv, ReviewInv, RunInv, NEW p \in Reviewer, PutTrust(p)
  PROVE  TrustInv' /\ ReviewInv' /\ RunInv'
<1>1. PICK c, outcome, streak :
        /\ c = recording[p].class /\ outcome = recording[p].outcome
        /\ streak = recording[p].streak
  OBVIOUS
<1>2. /\ c \in Class /\ streak \in Nat /\ outcome \in Outcome
      /\ p \notin outdated => streak <= unedited[c]
  BY <1>1 DEF ReviewInv, PutTrust
<1>3. PICK t \in Nat : t = ApplyOutcome(streak, outcome)
  BY <1>2 DEF ApplyOutcome, Outcome
<1>4. PICK u \in Nat : u = CASE outcome = "approved" -> unedited[c] + 1
                            [] outcome = "corrected" -> 0
                            [] OTHER -> unedited[c]
  BY <1>2 DEF Outcome, TrustInv
<1>5. /\ trust' = [trust EXCEPT ![c] = t]
      /\ recording' = [recording EXCEPT ![p] = NotRecording]
      /\ unedited' = [unedited EXCEPT ![c] = u]
      /\ run' = run
  BY <1>1, <1>3, <1>4 DEF PutTrust
<1>6. IF outcome = "corrected"
      THEN /\ uncorrected' = uncorrected \ {c}
           /\ outdated' = (outdated \cup Holders(c)) \ {p}
      ELSE /\ uncorrected' = IF p \in outdated THEN uncorrected \cup {c}
                             ELSE uncorrected
           /\ outdated' = outdated \ {p}
  BY <1>1 DEF PutTrust, LetsGo
<1>7. /\ trust' \in [Class -> Nat] /\ unedited' \in [Class -> Nat]
      /\ trust'[c] = t /\ unedited'[c] = u
      /\ \A d \in Class \ {c} : trust'[d] = trust[d] /\ unedited'[d] = unedited[d]
      /\ DOMAIN recording' = Reviewer /\ recording'[p] = NotRecording
      /\ \A q \in Reviewer \ {p} : recording'[q] = recording[q]
  BY <1>2, <1>5 DEF TrustInv, ReviewInv
<1>8. TrustInv'
  <2>1. ASSUME NEW d \in Class \ uncorrected' PROVE trust'[d] <= unedited'[d]
    <3>1. CASE d # c
      BY <1>6, <1>7, <3>1 DEF TrustInv
    <3>2. CASE d = c /\ outcome = "corrected"
      BY <1>3, <1>4, <1>7, <3>2 DEF ApplyOutcome
    <3>3. CASE d = c /\ outcome # "corrected"
      <4>1. p \notin outdated
        BY <1>6, <3>3
      <4>2. streak <= unedited[c] /\ unedited[c] \in Nat
        BY <1>2, <4>1 DEF TrustInv
      <4>3. t <= u
        BY <1>2, <1>3, <1>4, <3>3, <4>2 DEF ApplyOutcome, Outcome
      <4>4. QED
        BY <1>7, <3>3, <4>3
    <3>4. QED
      BY <3>1, <3>2, <3>3
  <2>2. QED
    BY <1>7, <2>1 DEF TrustInv
<1>9. ASSUME NEW who, who # p, who \notin outdated', NEW d \in Class, NEW n \in Nat,
             who \notin outdated => n <= unedited[d], d = c => who \in Holders(c)
      PROVE  n <= unedited'[d]
  <2>1. who \notin outdated /\ n <= unedited[d] /\ unedited[d] \in Nat
    BY <1>6, <1>9 DEF TrustInv
  <2>2. CASE d # c
    BY <1>7, <2>1, <2>2
  <2>3. CASE d = c
    <3>1. outcome # "corrected"
      BY <1>6, <1>9, <2>3
    <3>2. unedited[c] <= u
      BY <1>2, <1>4, <2>1, <2>3, <3>1 DEF Outcome
    <3>3. QED
      BY <1>7, <2>1, <2>3, <3>2
  <2>4. QED
    BY <2>2, <2>3
<1>10. ReviewInv'
  <2>1. ASSUME NEW q \in Reviewer, recording'[q] # NotRecording
        PROVE  /\ recording'[q].class \in Class /\ recording'[q].streak \in Nat
               /\ recording'[q].outcome \in Outcome
               /\ q \notin outdated' =>
                    recording'[q].streak <= unedited'[recording'[q].class]
    <3>1. q # p /\ recording'[q] = recording[q]
      BY <1>7, <2>1
    <3>2. /\ recording[q].class \in Class /\ recording[q].streak \in Nat
          /\ recording[q].outcome \in Outcome
          /\ q \notin outdated => recording[q].streak <= unedited[recording[q].class]
      BY <2>1, <3>1 DEF ReviewInv
    <3>3. recording[q].class = c => q \in Holders(c)
      BY DEF Holders
    <3>4. QED
      BY <1>9, <3>1, <3>2, <3>3
  <2>2. QED
    BY <1>7, <2>1 DEF ReviewInv, NotRecording
<1>11. RunInv'
  <2>1. ASSUME NEW r \in Runner, run[r] # Idle, r \notin outdated'
        PROVE  run[r].streak <= unedited'[run[r].class]
    <3>1. r # p
      BY ExecutorAssumption
    <3>2. /\ run[r].class \in Class /\ run[r].streak \in Nat
          /\ r \notin outdated => run[r].streak <= unedited[run[r].class]
      BY <2>1 DEF RunInv
    <3>3. run[r].class = c => r \in Holders(c)
      BY DEF Holders
    <3>4. QED
      BY <1>9, <2>1, <3>1, <3>2, <3>3
  <2>2. QED
    BY <1>5, <2>1 DEF RunInv, Waiting, Idle
<1>12. QED
  BY <1>8, <1>10, <1>11

(* A draft is made of an answer that passed every check.                   *)
LEMMA DraftIsSound ==
  ASSUME RunInv, TrustInv, NEW r \in Runner, Close(r), artifact' # NoArtifact
  PROVE  AutonomyIsEarned' /\ ArtifactWithinItsWorld'
<1>1. PICK changed : changed = Changes(run[r].snapshot, run[r].out.proposal)
  OBVIOUS
<1>2. /\ Revalidated(run[r].class, run[r].out.proposal)
      /\ changed # {} /\ WithinBudget(run[r].class, changed)
      /\ artifact' = Draft(r, changed)
  BY <1>1 DEF Close
<1>3. /\ run[r].class \in Class /\ run[r].streak \in Nat
      /\ r \notin outdated => run[r].streak <= unedited[run[r].class]
      /\ unedited[run[r].class] \in Nat
      /\ IsFiniteSet(run[r].out.proposal)
  BY DEF RunInv, TrustInv, Close, Idle, Waiting
<1>4. PICK verifiable \in BOOLEAN : verifiable = EdgeVerifiable(run[r].promise)
  BY DEF EdgeVerifiable, IsEdgeVerifiable, CollectiveDecompositionValid
<1>5. PICK level :
        level = EffectiveAutonomy(run[r].streak,
                  CeilingFor(RiskClass(run[r].class), Files(changed)), verifiable)
  OBVIOUS
<1>6. /\ artifact'.level = level /\ artifact'.class = run[r].class
      /\ artifact'.changes = changed /\ artifact'.promise = run[r].promise
      /\ artifact'.earned = unedited[run[r].class]
      /\ artifact'.outdated = (r \in outdated)
  BY <1>2, <1>4, <1>5 DEF Draft
<1>7. ASSUME level # "draft-for-review" PROVE AutonomyIsEarned'
  <2>1. /\ level \in {"auto-apply-with-window", "silent-with-receipt"}
        /\ run[r].streak >= PROMOTION_THRESHOLDS[level]
        /\ level = "silent-with-receipt" => run[r].class # "dep-bump"
        /\ Files(changed) \cap SensitiveFile = {}
        /\ verifiable
    BY <1>3, <1>5, <1>7, AutonomyGranted
  <2>2. r \in outdated \/ unedited[run[r].class] >= PROMOTION_THRESHOLDS[level]
    BY <1>3, <2>1, ExecutorAssumption
  <2>3. PICK promise : promise = run[r].promise
    OBVIOUS
  <2>4. /\ CollectiveDecompositionValid(promise.edge)
        /\ promise.edge.closure_policy = "on-evidence" =>
             \E ref \in promise.refs :
               ref.wellFormed /\ ref.kind \in promise.capable \ {"url"}
    BY <1>4, <2>1, <2>3, VerifiedBySomething
  <2>5. QED
    BY <1>6, <2>1, <2>2, <2>3, <2>4
       DEF AutonomyIsEarned
<1>8. level = "draft-for-review" => AutonomyIsEarned'
  BY <1>6 DEF AutonomyIsEarned
<1>9. ArtifactWithinItsWorld'
  <2>1. \A f \in Files(changed) : PlaceOf[f] \in Writable(run[r].class)
    BY <1>1, <1>2, ChangesAreWritable
  <2>2. IsFiniteSet(changed)
    BY <1>1, <1>3, ChangesAreFinite
  <2>3. Cardinality(changed) \in Nat /\ Cardinality(changed) # 0
    BY <1>2, <2>2, FS_CardinalityType, FS_EmptySet
  <2>4. /\ Cardinality(changed) <= MaxChangedFiles[run[r].class]
        /\ TotalLines(changed) <= MaxChangedLines[run[r].class]
    BY <1>2 DEF WithinBudget
  <2>5. MaxChangedFiles[run[r].class] \in Nat
    BY <1>3, ExecutorAssumption
  <2>6. Cardinality(changed) \in 1..MaxChangedFiles[run[r].class]
    BY <2>3, <2>4, <2>5
  <2>7. QED
    BY <1>6, <2>1, <2>4, <2>6 DEF ArtifactWithinItsWorld
<1>10. QED
  BY <1>7, <1>8, <1>9

ExecutorInv ==
  /\ TrustInv /\ ReviewInv /\ RunInv
  /\ AutonomyIsEarned /\ ArtifactWithinItsWorld

(* A step that returns no draft owes nothing.                              *)
LEMMA NoDraft ==
  ASSUME artifact' = NoArtifact
  PROVE  AutonomyIsEarned' /\ ArtifactWithinItsWorld'
BY DEF AutonomyIsEarned, ArtifactWithinItsWorld

(* A step of a run alone: reviews are as they were, and the runs of the    *)
(* others too.                                                             *)
LEMMA RunSteps ==
  ASSUME TrustInv, ReviewInv, RunInv, NEW r \in Runner, NEW new,
         UNCHANGED <<trust, recording, unedited, uncorrected>>,
         run' = [run EXCEPT ![r] = new],
         \A q \in (Reviewer \cup Runner) \ {r} : q \in outdated => q \in outdated',
         new # Idle => /\ new.class \in Class /\ new.streak \in Nat
                       /\ r \notin outdated' => new.streak <= unedited[new.class],
         new.stage = "waiting" => Waiting(new)
  PROVE  TrustInv' /\ ReviewInv' /\ RunInv'
<1>1. TrustInv'
  BY DEF TrustInv
<1>2. ReviewInv'
  <2>1. \A p \in Reviewer : p # r
    BY ExecutorAssumption
  <2>2. QED
    BY <2>1 DEF ReviewInv, NotRecording
<1>3. RunInv'
  <2>1. DOMAIN run' = Runner /\ run'[r] = new
        /\ \A q \in Runner \ {r} : run'[q] = run[q]
    BY DEF RunInv
  <2>2. ASSUME NEW q \in Runner
        PROVE  /\ run'[q] # Idle =>
                    /\ run'[q].class \in Class /\ run'[q].streak \in Nat
                    /\ q \notin outdated' => run'[q].streak <= unedited[run'[q].class]
               /\ run'[q].stage = "waiting" => Waiting(run'[q])
    <3>1. CASE q = r
      BY <2>1, <3>1
    <3>2. CASE q # r
      BY <2>1, <3>2 DEF RunInv
    <3>3. QED
      BY <3>1, <3>2
  <2>3. QED
    BY <2>1, <2>2 DEF RunInv, Idle, Waiting
<1>4. QED
  BY <1>1, <1>2, <1>3

LEMMA RunEnds ==
  ASSUME TrustInv, ReviewInv, RunInv, NEW r \in Runner, Ends(r)
  PROVE  TrustInv' /\ ReviewInv' /\ RunInv'
<1>1. /\ UNCHANGED <<trust, recording, unedited, uncorrected>>
      /\ run' = [run EXCEPT ![r] = Idle] /\ outdated' = outdated \ {r}
  BY DEF Ends, LetsGo
<1>2. Idle.stage # "waiting"
  BY DEF Idle
<1>3. QED
  BY <1>1, <1>2, RunSteps

LEMMA ExecutorInvHolds == ExecutorSpec => []ExecutorInv
<1>1. ExecutorInit => ExecutorInv
  BY DEF ExecutorInit, ExecutorInv, TrustInv, ReviewInv, RunInv, AutonomyIsEarned,
         ArtifactWithinItsWorld, Idle, NotRecording
<1>2. ExecutorInv /\ [ExecutorNext]_executorVars => ExecutorInv'
  <2> SUFFICES ASSUME ExecutorInv, [ExecutorNext]_executorVars PROVE ExecutorInv'
    OBVIOUS
  <2>0. TrustInv /\ ReviewInv /\ RunInv /\ AutonomyIsEarned /\ ArtifactWithinItsWorld
    BY DEF ExecutorInv
  <2>1. ASSUME NEW r \in Runner, ReadTrust(r) PROVE ExecutorInv'
    <3>1. PICK c \in Class :
            /\ run' = [run EXCEPT ![r] = [stage |-> "asked", class |-> c,
                                          streak |-> trust[c]]]
            /\ Reads(r, c)
      BY <2>1, ExecutorAssumption DEF ReadTrust
    <3>2. UNCHANGED <<trust, recording, unedited, uncorrected>>
          /\ artifact' = NoArtifact
      BY <2>1 DEF ReadTrust
    <3>3. /\ r \notin outdated' => trust[c] <= unedited[c]
          /\ outdated \subseteq outdated' /\ trust[c] \in Nat
      BY <2>0, <3>1, ReadIsBounded DEF TrustInv
    <3> DEFINE new == [stage |-> "asked", class |-> c, streak |-> trust[c]]
    <3>4. TrustInv' /\ ReviewInv' /\ RunInv'
      <4>1. /\ new.class \in Class /\ new.streak \in Nat /\ new.stage # "waiting"
            /\ r \notin outdated' => new.streak <= unedited[new.class]
        BY <3>3
      <4>2. run' = [run EXCEPT ![r] = new]
        BY <3>1
      <4> HIDE DEF new
      <4>3. QED
        BY <2>0, <3>2, <3>3, <4>1, <4>2, RunSteps
    <3>5. QED
      BY <3>2, <3>4, NoDraft DEF ExecutorInv
  <2>2. ASSUME NEW r \in Runner, RunExecutor(r) PROVE ExecutorInv'
    <3>1. PICK ask \in Asks[r] :
            /\ run[r].stage = "asked" /\ run[r].class = ask.class
            /\ run' = [run EXCEPT ![r] =
                 [stage |-> "waiting", class |-> ask.class,
                  streak |-> run[r].streak,
                  target |-> ask.target, promise |-> ask.promise,
                  snapshot |-> SnapshotRepo(ask.class), child |-> "running",
                  out |-> NoAnswer]]
      BY <2>2 DEF RunExecutor
    <3>2. UNCHANGED <<trust, recording, unedited, uncorrected, outdated>>
          /\ artifact' = NoArtifact
      BY <2>2 DEF RunExecutor, history
    <3> DEFINE new == [stage |-> "waiting", class |-> ask.class,
                  streak |-> run[r].streak,
                  target |-> ask.target, promise |-> ask.promise,
                  snapshot |-> SnapshotRepo(ask.class), child |-> "running",
                  out |-> NoAnswer]
    <3>3. /\ run[r].class \in Class /\ run[r].streak \in Nat
          /\ r \notin outdated => run[r].streak <= unedited[run[r].class]
      BY <2>0, <3>1 DEF RunInv, Idle
    <3>4. /\ new.class \in Class /\ new.streak \in Nat
          /\ r \notin outdated' => new.streak <= unedited[new.class]
      BY <3>1, <3>2, <3>3
    <3>5. Waiting(new)
      BY FS_EmptySet DEF Waiting, NoAnswer
    <3>6. run' = [run EXCEPT ![r] = new]
      BY <3>1
    <3> HIDE DEF new
    <3>7. TrustInv' /\ ReviewInv' /\ RunInv'
      BY <2>0, <3>2, <3>4, <3>5, <3>6, RunSteps
    <3>8. QED
      BY <3>2, <3>7, NoDraft DEF ExecutorInv
  <2>3. ASSUME NEW r \in Runner, ChildAnswers(r) PROVE ExecutorInv'
    <3>1. PICK answer \in {Answered(RunClass(run[r].class, run[r].snapshot,
                                             run[r].target)), Refusal}
                          \cup {Answered(proposal) : proposal \in Rogue[run[r].class]} :
            run' = [run EXCEPT ![r].out = answer]
      BY <2>3 DEF ChildAnswers
    <3>2. /\ run[r].stage = "waiting" /\ Waiting(run[r])
          /\ run[r].class \in Class /\ run[r].streak \in Nat
          /\ r \notin outdated => run[r].streak <= unedited[run[r].class]
      BY <2>0, <2>3 DEF ChildAnswers, RunInv, Idle
    <3>3. IsFiniteSet(answer.proposal)
      <4>1. IsFiniteSet(RunClass(run[r].class, run[r].snapshot, run[r].target))
        BY <3>2, OwnAnswerIsFinite
      <4>2. CASE answer \in {Answered(proposal) : proposal \in Rogue[run[r].class]}
        BY <3>2, <4>2, ExecutorAssumption DEF Answered
      <4>3. CASE answer = Answered(RunClass(run[r].class, run[r].snapshot, run[r].target))
        BY <4>1, <4>3 DEF Answered
      <4>4. CASE answer = Refusal
        BY <4>4, FS_EmptySet DEF Refusal
      <4>5. QED
        BY <3>1, <4>2, <4>3, <4>4
    <3> DEFINE new == [run[r] EXCEPT !.out = answer]
    <3>4. /\ new.class = run[r].class /\ new.streak = run[r].streak
          /\ Waiting(new)
      BY <3>2, <3>3 DEF Waiting
    <3>5. run' = [run EXCEPT ![r] = new]
      BY <3>1
    <3>6. /\ UNCHANGED <<trust, recording, unedited, uncorrected, outdated>>
          /\ artifact' = NoArtifact
      BY <2>3 DEF ChildAnswers, history
    <3> HIDE DEF new
    <3>7. TrustInv' /\ ReviewInv' /\ RunInv'
      BY <2>0, <3>2, <3>4, <3>5, <3>6, RunSteps
    <3>8. QED
      BY <3>6, <3>7, NoDraft DEF ExecutorInv
  <2>4. ASSUME NEW r \in Runner, ChildExits(r) PROVE ExecutorInv'
    <3>1. /\ run[r].stage = "waiting" /\ Waiting(run[r])
          /\ run[r].class \in Class /\ run[r].streak \in Nat
          /\ r \notin outdated => run[r].streak <= unedited[run[r].class]
      BY <2>0, <2>4 DEF ChildExits, RunInv, Idle
    <3> DEFINE new == [run[r] EXCEPT !.child = "exited"]
    <3>2. /\ new.class = run[r].class /\ new.streak = run[r].streak
          /\ Waiting(new)
      BY <3>1 DEF Waiting
    <3>3. run' = [run EXCEPT ![r] = new]
      BY <2>4 DEF ChildExits
    <3>4. /\ UNCHANGED <<trust, recording, unedited, uncorrected, outdated>>
          /\ artifact' = NoArtifact
      BY <2>4 DEF ChildExits, history
    <3> HIDE DEF new
    <3>5. TrustInv' /\ ReviewInv' /\ RunInv'
      BY <2>0, <3>1, <3>2, <3>3, <3>4, RunSteps
    <3>6. QED
      BY <3>4, <3>5, NoDraft DEF ExecutorInv
  <2>5. ASSUME NEW r \in Runner, StdinBreaks(r) \/ Timeout(r) PROVE ExecutorInv'
    <3>1. artifact' = NoArtifact /\ Ends(r)
      BY <2>5 DEF StdinBreaks, Timeout
    <3>2. QED
      BY <2>0, <3>1, RunEnds, NoDraft DEF ExecutorInv
  <2>6. ASSUME NEW r \in Runner, Close(r) PROVE ExecutorInv'
    <3>1. Ends(r)
      BY <2>6 DEF Close
    <3>2. QED
      BY <2>0, <2>6, <3>1, RunEnds, DraftIsSound, NoDraft DEF ExecutorInv
  <2>7. CASE Edit
    <3>1. artifact' = NoArtifact /\ UNCHANGED <<trust, recording, run, history>>
      BY <2>7 DEF Edit
    <3>2. TrustInv' /\ ReviewInv' /\ RunInv'
      BY <2>0, <3>1 DEF TrustInv, ReviewInv, RunInv, Waiting, Idle, NotRecording, history
    <3>3. QED
      BY <3>1, <3>2, NoDraft DEF ExecutorInv
  <2>8. ASSUME NEW p \in Reviewer, GetTrust(p) \/ PutTrust(p) PROVE ExecutorInv'
    <3>1. artifact' = NoArtifact
      BY <2>8 DEF GetTrust, PutTrust
    <3>2. TrustInv' /\ ReviewInv' /\ RunInv'
      BY <2>0, <2>8, ReviewReads, ReviewWrites
    <3>3. QED
      BY <3>1, <3>2, NoDraft DEF ExecutorInv
  <2>9. CASE UNCHANGED executorVars
    <3>1. /\ artifact' = artifact
          /\ UNCHANGED <<trust, recording, run, history>>
      BY <2>9 DEF executorVars
    <3>2. TrustInv' /\ ReviewInv' /\ RunInv'
      BY <2>0, <3>1 DEF TrustInv, ReviewInv, RunInv, Waiting, Idle, NotRecording, history
    <3>3. AutonomyIsEarned' /\ ArtifactWithinItsWorld'
      BY <2>0, <3>1 DEF AutonomyIsEarned, ArtifactWithinItsWorld
    <3>4. QED
      BY <3>2, <3>3 DEF ExecutorInv
  <2>10. QED
    BY <2>1, <2>2, <2>3, <2>4, <2>5, <2>6, <2>7, <2>8, <2>9 DEF ExecutorNext
<1>3. QED
  BY <1>1, <1>2, PTL DEF ExecutorSpec

(* What a draft may do without review was earned by unedited approvals     *)
(* since the last correction of its class, the one recorded during the run *)
(* or overwritten by an older review excepted, on an edge somebody can     *)
(* verify, never silently for a dependency and never with a sensitive file *)
(* among its changes (gradient.ts effectiveAutonomy, run.ts), whatever the *)
(* child answers, however runs overlap and reviews are recorded meanwhile. *)
THEOREM DraftsAreEarned == ExecutorSpec => []AutonomyIsEarned
<1>1. ExecutorInv => AutonomyIsEarned
  BY DEF ExecutorInv
<1>2. QED
  BY <1>1, ExecutorInvHolds, PTL

(* A draft changes only files its class may write, within the class's      *)
(* budget, whatever the child answers (run.ts, the host's own validation). *)
THEOREM DraftsStayInBounds == ExecutorSpec => []ArtifactWithinItsWorld
<1>1. ExecutorInv => ArtifactWithinItsWorld
  BY DEF ExecutorInv
<1>2. QED
  BY <1>1, ExecutorInvHolds, PTL

-----------------------------------------------------------------------------
(* The register: reading a view page by page while it changes.             *)

(* The order of a view: by score, the highest first, and then by id.       *)

Item == [score : Int, id : Nat]
Before(k, i) == k.score > i.score \/ (k.score = i.score /\ k.id < i.id)

LEMMA BeforeIsTotal ==
  ASSUME NEW i \in Item, NEW j \in Item
  PROVE  /\ ~(Before(i, j) /\ Before(j, i))
         /\ ~Before(i, i)
         /\ i # j => Before(i, j) \/ Before(j, i)
         /\ \A k \in Item : Before(i, j) /\ Before(j, k) => Before(i, k)
BY DEF Before, Item

(* Where an item stands is how many stand before it.                       *)
LEMMA Standing ==
  ASSUME NEW S, S \subseteq Item, IsFiniteSet(S), NEW i
  PROVE  /\ Position(S, i) = Cardinality({k \in S : Before(k, i)})
         /\ Position(S, i) \in Nat
         /\ IsFiniteSet({k \in S : Before(k, i)})
<1>1. IsFiniteSet({k \in S : Before(k, i)})
  BY FS_Subset
<1>2. Position(S, i) = Cardinality({k \in S : Before(k, i)})
  BY DEF Position, Before
<1>3. QED
  BY <1>1, <1>2, FS_CardinalityType

(* Whoever is before another stands at a lower place.                      *)
LEMMA StandsLower ==
  ASSUME NEW S, S \subseteq Item, IsFiniteSet(S), NEW i \in S, NEW j \in Item,
         Before(i, j)
  PROVE  Position(S, i) < Position(S, j)
<1> DEFINE A == {k \in S : Before(k, i)}
           B == {k \in S : Before(k, j)}
<1>1. IsFiniteSet(A) /\ IsFiniteSet(B)
  BY Standing
<1>2. A \in SUBSET (B \ {i}) /\ i \in B
  BY BeforeIsTotal
<1>3. IsFiniteSet(B \ {i}) /\ Cardinality(B \ {i}) = Cardinality(B) - 1
  BY <1>1, <1>2, FS_RemoveElement
<1>4. Cardinality(A) <= Cardinality(B) - 1
  BY <1>2, <1>3, FS_Subset
<1>5. Position(S, i) = Cardinality(A) /\ Position(S, j) = Cardinality(B)
  BY Standing
<1>6. Cardinality(A) \in Nat /\ Cardinality(B) \in Nat
  BY <1>1, FS_CardinalityType
<1>7. QED
  BY <1>4, <1>5, <1>6

(* A page of an order from a place on, and the items of an order that come *)
(* before all the others.                                                  *)
PageFrom(S, start) == {i \in S : Position(S, i) \in start..(start + PAGE_SIZE - 1)}
Leads(S, D) == D \subseteq S /\ \A i \in D, k \in S : Before(k, i) => k \in D

(* A leading set of n items stands on the first n places.                  *)
LEMMA LeadersStandFirst ==
  ASSUME NEW S, S \subseteq Item, IsFiniteSet(S), NEW D, Leads(S, D)
  PROVE  /\ IsFiniteSet(D) /\ Cardinality(D) \in Nat
         /\ Cardinality(D) <= Cardinality(S) /\ Cardinality(S) \in Nat
         /\ \A i \in D : Position(S, i) < Cardinality(D)
         /\ \A i \in S \ D : Position(S, i) >= Cardinality(D)
<1>1. D \in SUBSET S
  BY DEF Leads
<1>2. /\ IsFiniteSet(D) /\ Cardinality(D) \in Nat
      /\ Cardinality(D) <= Cardinality(S) /\ Cardinality(S) \in Nat
  BY <1>1, FS_Subset, FS_CardinalityType
<1>3. ASSUME NEW i \in D PROVE Position(S, i) < Cardinality(D)
  <2> DEFINE A == {k \in S : Before(k, i)}
  <2>1. A \in SUBSET (D \ {i})
    BY <1>1, BeforeIsTotal DEF Leads
  <2>2. IsFiniteSet(D \ {i}) /\ Cardinality(D \ {i}) = Cardinality(D) - 1
    BY <1>2, FS_RemoveElement
  <2>3. Cardinality(A) <= Cardinality(D) - 1
    BY <2>1, <2>2, FS_Subset
  <2>4. Position(S, i) = Cardinality(A) /\ Cardinality(A) \in Nat
    BY Standing
  <2>5. QED
    BY <1>2, <2>3, <2>4
<1>4. ASSUME NEW i \in S \ D PROVE Position(S, i) >= Cardinality(D)
  <2> DEFINE A == {k \in S : Before(k, i)}
  <2>1. D \in SUBSET A
    BY <1>1, BeforeIsTotal DEF Leads
  <2>2. IsFiniteSet(A) /\ Position(S, i) = Cardinality(A) /\ Cardinality(A) \in Nat
    BY Standing
  <2>3. Cardinality(D) <= Cardinality(A)
    BY <2>1, <2>2, FS_Subset
  <2>4. QED
    BY <1>2, <2>2, <2>3
<1>5. QED
  BY <1>2, <1>3, <1>4

(* The next page after a leading set.                                      *)
LEMMA NextPageAfter ==
  ASSUME NEW S, S \subseteq Item, IsFiniteSet(S), NEW D, Leads(S, D),
         NEW page, page = PageFrom(S, Cardinality(D))
  PROVE  /\ page \subseteq S /\ page \cap D = {} /\ IsFiniteSet(page)
         /\ Cardinality(page) \in Nat
         /\ Cardinality(D \cup page) = Cardinality(D) + Cardinality(page)
         /\ Cardinality(D) + Cardinality(page) <= Cardinality(S)
<1>1. page \in SUBSET S
  BY DEF PageFrom
<1>2. IsFiniteSet(page) /\ Cardinality(page) \in Nat
  BY <1>1, FS_Subset, FS_CardinalityType
<1>3. /\ IsFiniteSet(D) /\ Cardinality(D) \in Nat /\ Cardinality(S) \in Nat
      /\ \A i \in D : Position(S, i) < Cardinality(D)
  BY LeadersStandFirst
<1>4. page \cap D = {}
  BY <1>3, Standing DEF PageFrom
<1>5. Cardinality(D \cup page) = Cardinality(D) + Cardinality(page)
  <2>1. Cardinality(D \cup page)
          = Cardinality(D) + Cardinality(page) - Cardinality(D \cap page)
    BY <1>2, <1>3, FS_Union
  <2>2. Cardinality(D \cap page) = 0
    BY <1>4, FS_EmptySet
  <2>3. QED
    BY <1>2, <1>3, <2>1, <2>2
<1>6. D \cup page \in SUBSET S
  BY <1>1 DEF Leads
<1>7. Cardinality(D \cup page) <= Cardinality(S)
  BY <1>6, FS_Subset
<1>8. QED
  BY <1>1, <1>2, <1>4, <1>5, <1>7

(* A page that reaches the end leaves nothing.                             *)
LEMMA LastPage ==
  ASSUME NEW S, S \subseteq Item, IsFiniteSet(S), NEW D, Leads(S, D),
         NEW page, page = PageFrom(S, Cardinality(D)),
         Cardinality(D) + Cardinality(page) >= Cardinality(S)
  PROVE  S = D \cup page
<1>1. /\ page \subseteq S /\ Cardinality(page) \in Nat
      /\ Cardinality(D \cup page) = Cardinality(D) + Cardinality(page)
      /\ Cardinality(D) + Cardinality(page) <= Cardinality(S)
  BY NextPageAfter
<1>2. Cardinality(D) \in Nat /\ Cardinality(S) \in Nat
  BY LeadersStandFirst
<1>3. Cardinality(S) = Cardinality(D \cup page)
  BY <1>1, <1>2
<1>4. D \cup page \in SUBSET S
  BY <1>1 DEF Leads
<1>5. QED
  BY <1>3, <1>4, FS_Subset

(* A page that does not has a last item, and what comes after it is what   *)
(* has not been led up to.                                                 *)
LEMMA EarlierPage ==
  ASSUME NEW S, S \subseteq Item, IsFiniteSet(S), NEW D, Leads(S, D),
         NEW page, page = PageFrom(S, Cardinality(D)),
         Cardinality(D) + Cardinality(page) < Cardinality(S)
  PROVE  /\ \E g \in page : Position(page, g) = Cardinality(page) - 1
         /\ \A g \in page : Position(page, g) = Cardinality(page) - 1 =>
              \A i \in S : Before(g, i) <=> i \notin D \cup page
<1>1. /\ page \subseteq S /\ Cardinality(page) \in Nat /\ IsFiniteSet(page)
      /\ page \cap D = {} /\ page \subseteq Item
      /\ Cardinality(D \cup page) = Cardinality(D) + Cardinality(page)
  BY NextPageAfter
<1>2. /\ Cardinality(D) \in Nat /\ Cardinality(S) \in Nat /\ D \subseteq S
      /\ IsFiniteSet(D) /\ \A i \in S \ D : Position(S, i) >= Cardinality(D)
  BY LeadersStandFirst DEF Leads
<1>3. page # {}
  <2>1. S \ D # {}
    <3>1. D # S
      BY <1>1, <1>2
    <3>2. QED
      BY <1>2, <3>1
  <2> DEFINE T == {Position(S, i) : i \in S \ D}
  <2>2. T \subseteq Nat /\ T # {}
    BY <2>1, Standing
  <2>3. PICK m \in S \ D : \A k \in S \ D : Position(S, m) <= Position(S, k)
    <3> HIDE DEF T
    <3>1. PICK n \in T : \A k \in T : n <= k
      BY <2>2, LeastNatural
    <3>2. QED
      BY <3>1 DEF T
  <2>4. ASSUME NEW k \in S, Before(k, m) PROVE k \in D
    <3>1. Position(S, k) < Position(S, m)
      BY <2>3, <2>4, StandsLower
    <3>2. Position(S, k) \in Nat /\ Position(S, m) \in Nat
      BY Standing
    <3>3. QED
      BY <2>3, <3>1, <3>2
  <2>5. {k \in S : Before(k, m)} \in SUBSET D
    BY <2>4
  <2>6. Position(S, m) <= Cardinality(D)
    <3>1. Cardinality({k \in S : Before(k, m)}) <= Cardinality(D)
      BY <1>2, <2>5, FS_Subset
    <3>2. QED
      BY <3>1, Standing
  <2>7. Position(S, m) \in Nat /\ Position(S, m) >= Cardinality(D)
    BY <1>2, <2>3, Standing
  <2>8. Position(S, m) \in Cardinality(D)..(Cardinality(D) + PAGE_SIZE - 1)
    BY <1>2, <2>6, <2>7, RegisterAssumption
  <2>9. QED
    BY <2>3, <2>8 DEF PageFrom
<1>4. \A i \in page : Position(page, i) \in Nat /\ Position(page, i) < Cardinality(page)
  <2>1. Leads(page, page)
    BY DEF Leads
  <2>2. QED
    BY <1>1, <2>1, LeadersStandFirst, Standing
<1>5. \E g \in page : Position(page, g) = Cardinality(page) - 1
  <2> DEFINE T == {Cardinality(page) - Position(page, i) : i \in page}
  <2>1. T \subseteq Nat /\ T # {}
    BY <1>1, <1>3, <1>4
  <2>2. PICK g \in page : \A k \in page :
          Cardinality(page) - Position(page, g) <= Cardinality(page) - Position(page, k)
    <3> HIDE DEF T
    <3>1. PICK n \in T : \A k \in T : n <= k
      BY <2>1, LeastNatural
    <3>2. QED
      BY <3>1 DEF T
  <2>3. ASSUME NEW k \in page, k # g PROVE Before(k, g)
    <3>1. Position(page, k) <= Position(page, g)
      BY <1>1, <1>4, <2>2
    <3>2. ~Before(g, k)
      BY <1>1, <1>4, <3>1, StandsLower
    <3>3. QED
      BY <1>1, <2>3, <3>2, BeforeIsTotal
  <2>4. {k \in page : Before(k, g)} = page \ {g}
    BY <1>1, <2>3, BeforeIsTotal
  <2>5. Position(page, g) = Cardinality({k \in page : Before(k, g)})
    BY <1>1, Standing
  <2>6. Cardinality(page \ {g}) = Cardinality(page) - 1
    BY <1>1, FS_RemoveElement
  <2>7. QED
    BY <2>4, <2>5, <2>6
<1>6. ASSUME NEW g \in page, Position(page, g) = Cardinality(page) - 1, NEW i \in S
      PROVE  Before(g, i) <=> i \notin D \cup page
  <2>1. \A k \in page : k = g \/ Before(k, g)
    <3> DEFINE A == {k \in page : Before(k, g)}
    <3>1. A \in SUBSET (page \ {g})
      BY <1>1, BeforeIsTotal
    <3>2. Cardinality(A) = Cardinality(page) - 1
      BY <1>1, <1>6, Standing
    <3>3. IsFiniteSet(page \ {g}) /\ Cardinality(page \ {g}) = Cardinality(page) - 1
      BY <1>1, FS_RemoveElement
    <3>4. A = page \ {g}
      BY <3>1, <3>2, <3>3, FS_Subset
    <3>5. QED
      BY <3>4
  <2>2. g \in S /\ g \notin D /\ g \in Item /\ i \in Item
    BY <1>1
  <2>3. CASE i \in D
    BY <2>2, <2>3 DEF Leads
  <2>4. CASE i \in page
    BY <1>1, <2>1, <2>2, <2>4, BeforeIsTotal
  <2>5. CASE i \notin D \cup page
    <3>1. Position(S, i) \in Nat /\ Position(S, g) \in Nat
      BY Standing
    <3>2. Position(S, i) > Position(S, g)
      BY <1>2, <2>5, <3>1, RegisterAssumption DEF PageFrom
    <3>3. ~Before(i, g)
      BY <2>2, <3>1, <3>2, StandsLower
    <3>4. QED
      BY <2>2, <2>5, <3>3, BeforeIsTotal
  <2>6. QED
    BY <2>3, <2>4, <2>5
<1>7. QED
  BY <1>5, <1>6

-----------------------------------------------------------------------------
(* A view as a set of items.                                               *)

IsRegister(rs) == rs \in [DOMAIN rs -> RecordType] /\ DOMAIN rs \subseteq Ids
ItemOf(rs, at, id) == [score |-> ScoreOf(rs, id, at), id |-> id]
ViewOf(rs, view, at) == {ItemOf(rs, at, id) : id \in ItemsFor(rs, view)}

LEMMA BandIsInt ==
  ASSUME NEW b \in Int, NEW weight \in Int
  PROVE  Band(b, weight) \in Int
<1>1. BAND_STRIDE \in Int /\ b * BAND_STRIDE \in Int
  BY RegisterAssumption
<1>2. PICK low \in Int : low = b * BAND_STRIDE
  BY <1>1
<1>3. Band(b, weight) = low + (IF weight < 0 THEN 0
                              ELSE IF weight > BAND_STRIDE - 1 THEN BAND_STRIDE - 1
                              ELSE weight)
  BY <1>2 DEF Band
<1>4. QED
  BY <1>1, <1>2, <1>3

LEMMA RankIsInt ==
  ASSUME NEW r \in RecordType, NEW at \in Nat
  PROVE  Rank(r, at) \in Int
<1>2. /\ r.due \in Int /\ r.since \in Int /\ r.blocking \in Int
      /\ DUE_SOON_HORIZON_DAYS \in Int
  BY RegisterAssumption DEF RecordType, None
<1>3. \A a, b \in Int : a * b \in Int
  OBVIOUS
<1> DEFINE toDue == r.due - at
           age == IF at > r.since THEN at - r.since ELSE 0
<1>4. toDue \in Int /\ age \in Int /\ 1 + r.blocking \in Int
  BY <1>2
<1>5. /\ -toDue * (1 + r.blocking) \in Int
      /\ (DUE_SOON_HORIZON_DAYS - toDue) * (1 + r.blocking) \in Int
      /\ age * (1 + r.blocking) \in Int
  BY <1>2, <1>4
<1> DEFINE late == Band(2, -toDue * (1 + r.blocking))
           soon == Band(1, (DUE_SOON_HORIZON_DAYS - toDue) * (1 + r.blocking))
           aged == Band(0, age * (1 + r.blocking))
<1> HIDE DEF toDue, age
<1>6. late \in Int /\ soon \in Int /\ aged \in Int
  <2>1. 2 \in Int /\ 1 \in Int /\ 0 \in Int
    OBVIOUS
  <2>2. late \in Int
    BY <1>5, <2>1, BandIsInt, Zenon
  <2>3. soon \in Int
    BY <1>5, <2>1, BandIsInt, Zenon
  <2>4. aged \in Int
    BY <1>5, <2>1, BandIsInt, Zenon
  <2>5. QED
    BY <2>2, <2>3, <2>4
<1>7. Rank(r, at) = CASE r.due # None /\ toDue < 0 -> late
                     [] r.due # None /\ toDue \in 0..DUE_SOON_HORIZON_DAYS -> soon
                     [] OTHER -> aged
  BY DEF Rank, toDue, age
<1>8. QED
  <2> HIDE DEF late, soon, aged
  <2>1. QED
    BY <1>6, <1>7

LEMMA ViewIsFinite ==
  ASSUME NEW rs, IsRegister(rs), NEW view, NEW at \in Nat
  PROVE  /\ ViewOf(rs, view, at) \subseteq Item /\ IsFiniteSet(ViewOf(rs, view, at))
         /\ ItemsFor(rs, view) \subseteq Ids
         /\ \A id \in ItemsFor(rs, view) : ItemOf(rs, at, id) \in Item
<1>1. ItemsFor(rs, view) \subseteq DOMAIN rs /\ DOMAIN rs \in SUBSET Ids
  BY DEF ItemsFor, IsRegister
<1>2. IsFiniteSet(ItemsFor(rs, view))
  <2>1. ItemsFor(rs, view) \in SUBSET Ids
    BY <1>1
  <2>2. QED
    BY <2>1, RegisterAssumption, FS_Subset
<1>3. ASSUME NEW id \in ItemsFor(rs, view) PROVE ItemOf(rs, at, id) \in Item
  <2>1. rs[id] \in RecordType /\ id \in Nat
    BY <1>1, RegisterAssumption DEF IsRegister
  <2>2. ScoreOf(rs, id, at) \in Int
    BY <2>1, RankIsInt DEF ScoreOf
  <2>3. QED
    BY <2>1, <2>2 DEF ItemOf, Item
<1>4. IsFiniteSet(ViewOf(rs, view, at))
  <2> DEFINE f == [id \in ItemsFor(rs, view) |-> ItemOf(rs, at, id)]
  <2>1. f \in Surjection(ItemsFor(rs, view), ViewOf(rs, view, at))
    BY DEF Surjection, ViewOf
  <2>2. QED
    BY <1>2, <2>1, FS_Surjection
<1>5. QED
  BY <1>1, <1>3, <1>4 DEF ViewOf

LEMMA ScoredIsView == \A view, at : Scored(view, at) = ViewOf(records, view, at)
BY DEF Scored, ViewOf, ItemOf

(* Items of a view are as many as their ids.                               *)
IdsOf(D) == {i.id : i \in D}

LEMMA AsManyIds ==
  ASSUME NEW rs, NEW view, NEW at, NEW D, D \subseteq ViewOf(rs, view, at),
         IsFiniteSet(D)
  PROVE  /\ IsFiniteSet(IdsOf(D)) /\ Cardinality(IdsOf(D)) = Cardinality(D)
         /\ \A i \in D : i = ItemOf(rs, at, i.id) /\ i.id \in ItemsFor(rs, view)
         /\ \A id : id \in IdsOf(D) <=>
              id \in ItemsFor(rs, view) /\ ItemOf(rs, at, id) \in D
<1>1. ASSUME NEW i \in D
      PROVE  i = ItemOf(rs, at, i.id) /\ i.id \in ItemsFor(rs, view)
  <2>1. PICK id \in ItemsFor(rs, view) : i = ItemOf(rs, at, id)
    BY DEF ViewOf
  <2>2. i.id = id
    BY <2>1 DEF ItemOf
  <2>3. QED
    BY <2>1, <2>2
<1>2. ASSUME NEW id
      PROVE  id \in IdsOf(D) <=> id \in ItemsFor(rs, view) /\ ItemOf(rs, at, id) \in D
  <2>1. ItemOf(rs, at, id).id = id
    BY DEF ItemOf
  <2>2. QED
    BY <1>1, <2>1 DEF IdsOf
<1> DEFINE f == [i \in D |-> i.id]
<1>3. f \in Surjection(D, IdsOf(D))
  BY DEF Surjection, IdsOf
<1>4. f \in Injection(D, IdsOf(D))
  BY <1>1, <1>3 DEF Injection, IsInjective, Surjection
<1>5. IsFiniteSet(IdsOf(D)) /\ Cardinality(IdsOf(D)) = Cardinality(D)
  BY <1>3, <1>4, FS_Surjection
<1>6. QED
  BY <1>1, <1>2, <1>5

-----------------------------------------------------------------------------
(* A walk.                                                                 *)

WalkType ==
  [pc : {"none", "walking", "finished", "truncated"}, view : Views \cup {"all"},
   as_of : Nat, score : Int, id : Nat, above : Nat, read : SUBSET Ids,
   reread : SUBSET Ids, skipped : Nat, pages : Nat]

(* What a reader who has come to D in the order has of X.                  *)
ReadInOrder(X, w, rs, at, D) ==
  \A id \in X : /\ id \in ItemsFor(rs, w.view) /\ id \notin w.reread
                /\ id \in w.read <=> ItemOf(rs, at, id) \in D

(* Nothing has left: what was read is still there, before the reader.      *)
AllThere(w, rs, at, D) ==
  \A id \in w.read : id \in ItemsFor(rs, w.view) /\ ItemOf(rs, at, id) \in D

(* What one page of S must leave behind it.                                *)
PageRead(w, view, rs, S, at, X, exact, unread) ==
  /\ w \in WalkType /\ w.view = view
  /\ w.pc = "finished" =>
       /\ X \subseteq w.read \ w.reread
       /\ exact => w.skipped = Cardinality(unread)
  /\ w.pc = "walking" =>
       /\ w.as_of = at
       /\ LET E == {i \in S : ~SortsAfter(w, i)} IN
            /\ ReadInOrder(X, w, rs, at, E)
            /\ exact => /\ AllThere(w, rs, at, E)
                        /\ w.above = Cardinality(w.read) + w.skipped
                        /\ w.above <= Cardinality(E)

(* One page for a reader who has come to D.                                *)
LEMMA Delivery ==
  ASSUME IsRegister(records), NEW c \in WalkType, NEW at \in Nat,
         NEW S, S = Scored(c.view, at), NEW D, Leads(S, D),
         Deliver(c, at, S, Cardinality(D)),
         NEW X, ReadInOrder(X, c, records, at, D),
         NEW exact \in BOOLEAN,
         exact => /\ AllThere(c, records, at, D)
                  /\ Cardinality(c.read) + c.skipped = Cardinality(D)
  PROVE  PageRead(walk', c.view, records, S, at, X, exact, missed')
<1> DEFINE start == Cardinality(D)
           page == PageFrom(S, start)
           ids == IdsOf(page)
           last == CHOOSE i \in page : Position(page, i) = Cardinality(page) - 1
           finished == start + Cardinality(page) >= Cardinality(S)
           after == [c EXCEPT !.read = c.read \cup ids,
                              !.reread = c.reread \cup (c.read \cap ids),
                              !.pages = c.pages + 1]
           above == start + Cardinality(page)
<1>1. /\ walk' = CASE finished -> [after EXCEPT !.pc = "finished"]
                   [] ~finished /\ after.pages >= MAX_PAGES ->
                        [after EXCEPT !.pc = "truncated"]
                   [] OTHER -> [after EXCEPT !.pc = "walking", !.as_of = at,
                                             !.id = last.id, !.score = last.score,
                                             !.above = above]
      /\ missed' = {i.id : i \in S} \ after.read
  BY DEF Deliver, PageFrom, IdsOf, Above
<1>2. S = ViewOf(records, c.view, at) /\ S \subseteq Item /\ IsFiniteSet(S)
  BY ScoredIsView, ViewIsFinite
<1>3. /\ start \in Nat /\ Cardinality(S) \in Nat /\ IsFiniteSet(D) /\ D \subseteq S
  BY <1>2, LeadersStandFirst DEF Leads
<1>4. /\ page \subseteq S /\ page \cap D = {} /\ IsFiniteSet(page)
      /\ Cardinality(page) \in Nat
      /\ Cardinality(D \cup page) = start + Cardinality(page)
  <2>1. S \subseteq Item /\ IsFiniteSet(S) /\ Leads(S, D)
    BY <1>2
  <2>2. \A P : P = PageFrom(S, Cardinality(D)) =>
          /\ P \subseteq S /\ P \cap D = {} /\ IsFiniteSet(P)
          /\ Cardinality(P) \in Nat
          /\ Cardinality(D \cup P) = Cardinality(D) + Cardinality(P)
    BY <2>1, NextPageAfter
  <2>3. QED
    BY <2>2
<1>5. /\ IsFiniteSet(ids) /\ Cardinality(ids) = Cardinality(page)
      /\ \A id : id \in ids <=> id \in ItemsFor(records, c.view)
                               /\ ItemOf(records, at, id) \in page
  <2>1. page \subseteq ViewOf(records, c.view, at)
    BY <1>2, <1>4
  <2> HIDE DEF page
  <2>2. QED
    BY <1>4, <2>1, AsManyIds
<1>6. ids \subseteq Ids
  BY <1>2, <1>5, ViewIsFinite
<1> HIDE DEF ids, page, start, finished
<1>7. /\ after \in WalkType /\ after.view = c.view /\ after.skipped = c.skipped
      /\ after.read = c.read \cup ids
      /\ after.reread = c.reread \cup (c.read \cap ids)
  <2>1. c.read \in SUBSET Ids /\ c.reread \in SUBSET Ids /\ c.pages \in Nat
    BY DEF WalkType
  <2>2. PICK R \in SUBSET Ids : R = c.read \cup ids
    BY <1>6, <2>1
  <2>3. PICK Q \in SUBSET Ids : Q = c.reread \cup (c.read \cap ids)
    BY <1>6, <2>1
  <2>4. PICK n \in Nat : n = c.pages + 1
    BY <2>1
  <2>5. after = [c EXCEPT !.read = R, !.reread = Q, !.pages = n]
    BY <2>2, <2>3, <2>4
  <2>6. QED
    BY <2>2, <2>3, <2>5 DEF WalkType
<1> HIDE DEF after
<1>8. ASSUME NEW id \in X
      PROVE  /\ id \notin after.reread
             /\ id \in after.read <=> ItemOf(records, at, id) \in D \cup page
  BY <1>4, <1>5, <1>7 DEF ReadInOrder
<1>9. ASSUME exact
      PROVE  /\ \A id \in after.read : /\ id \in ItemsFor(records, c.view)
                                      /\ ItemOf(records, at, id) \in D \cup page
             /\ Cardinality(after.read) + c.skipped = above
  <2>1. AllThere(c, records, at, D) /\ Cardinality(c.read) + c.skipped = start
    BY <1>9 DEF start
  <2>2. c.read \cap ids = {}
    BY <1>4, <1>5, <2>1 DEF AllThere
  <2>3. IsFiniteSet(c.read)
    <3>1. c.read \in SUBSET Ids
      BY DEF WalkType
    <3>2. QED
      BY <3>1, RegisterAssumption, FS_Subset
  <2>4. Cardinality(c.read \cup ids) =
          Cardinality(c.read) + Cardinality(ids) - Cardinality(c.read \cap ids)
    BY <1>5, <2>3, FS_Union
  <2>5. Cardinality(c.read \cap ids) = 0 /\ Cardinality(c.read) \in Nat
    BY <2>2, <2>3, FS_EmptySet, FS_CardinalityType
  <2>6. Cardinality(after.read) = Cardinality(c.read) + Cardinality(page)
    BY <1>4, <1>5, <1>7, <2>4, <2>5
  <2>7. c.skipped \in Nat
    BY DEF WalkType
  <2>8. Cardinality(after.read) + c.skipped = above
    BY <1>3, <1>4, <2>1, <2>5, <2>6, <2>7
  <2>9. QED
    BY <1>5, <1>7, <2>1, <2>8 DEF AllThere
<1>10. CASE finished
  <2>1. walk' = [after EXCEPT !.pc = "finished"]
    BY <1>1, <1>10
  <2>2. /\ walk' \in WalkType /\ walk'.view = c.view /\ walk'.pc = "finished"
        /\ walk'.read = after.read /\ walk'.reread = after.reread
        /\ walk'.skipped = c.skipped
    BY <1>7, <2>1 DEF WalkType
  <2>3. S = D \cup page
    BY <1>2, <1>10, LastPage DEF finished, start, page
  <2>4. X \subseteq walk'.read \ walk'.reread
    <3>1. \A id \in X : ItemOf(records, at, id) \in S
      BY <1>2 DEF ReadInOrder, ViewOf
    <3>2. QED
      BY <1>8, <2>2, <2>3, <3>1
  <2>5. ASSUME exact PROVE walk'.skipped = Cardinality(missed')
    <3>1. IdsOf(S) = {i.id : i \in S}
      BY DEF IdsOf
    <3>2. /\ IsFiniteSet(IdsOf(S)) /\ Cardinality(IdsOf(S)) = Cardinality(S)
          /\ \A id : id \in IdsOf(S) <=> id \in ItemsFor(records, c.view)
                                        /\ ItemOf(records, at, id) \in S
      BY <1>2, AsManyIds
    <3>3. after.read \in SUBSET IdsOf(S)
      BY <1>5, <1>9, <2>3, <2>5, <3>2
    <3>4. IsFiniteSet(after.read) /\ Cardinality(after.read) \in Nat
      BY <3>2, <3>3, FS_Subset, FS_CardinalityType
    <3>5. Cardinality(IdsOf(S) \ after.read)
            = Cardinality(IdsOf(S)) - Cardinality(IdsOf(S) \cap after.read)
      BY <3>2, FS_Difference
    <3>6. IdsOf(S) \cap after.read = after.read
      BY <3>3
    <3>7. Cardinality(missed') = Cardinality(S) - Cardinality(after.read)
      BY <1>1, <3>1, <3>2, <3>5, <3>6
    <3>8. Cardinality(S) = above
      BY <1>4, <2>3
    <3>9. c.skipped \in Nat
      BY DEF WalkType
    <3>10. QED
      BY <1>3, <1>4, <1>9, <2>2, <2>5, <3>4, <3>7, <3>8, <3>9
  <2>6. QED
    BY <2>2, <2>4, <2>5 DEF PageRead
<1>11. CASE ~finished /\ after.pages >= MAX_PAGES
  <2>1. walk' = [after EXCEPT !.pc = "truncated"]
    BY <1>1, <1>11
  <2>2. walk' \in WalkType /\ walk'.view = c.view /\ walk'.pc = "truncated"
    BY <1>7, <2>1 DEF WalkType
  <2>3. QED
    BY <2>2 DEF PageRead
<1>12. CASE ~finished /\ ~(after.pages >= MAX_PAGES)
  <2>1. walk' = [after EXCEPT !.pc = "walking", !.as_of = at,
                              !.id = last.id, !.score = last.score, !.above = above]
    BY <1>1, <1>12
  <2>2. start + Cardinality(page) < Cardinality(S)
    BY <1>3, <1>4, <1>12 DEF finished
  <2>3. /\ \E g \in page : Position(page, g) = Cardinality(page) - 1
        /\ \A g \in page : Position(page, g) = Cardinality(page) - 1 =>
             \A i \in S : Before(g, i) <=> i \notin D \cup page
    <3>1. PICK P : P = page
      OBVIOUS
    <3>2. P = PageFrom(S, Cardinality(D)) /\ Cardinality(D) + Cardinality(P) < Cardinality(S)
      BY <2>2, <3>1 DEF page, start
    <3>3. /\ \E g \in P : Position(P, g) = Cardinality(P) - 1
          /\ \A g \in P : Position(P, g) = Cardinality(P) - 1 =>
               \A i \in S : Before(g, i) <=> i \notin D \cup P
      BY <1>2, <3>2, EarlierPage
    <3>4. QED
      BY <3>1, <3>3
  <2>4. last \in page /\ Position(page, last) = Cardinality(page) - 1
    BY <2>3
  <2> HIDE DEF last
  <2>5. \A i \in S : Before(last, i) <=> i \notin D \cup page
    BY <2>3, <2>4
  <2>6. last \in Item
    BY <1>2, <1>4, <2>4
  <2>7. above \in Nat
    BY <1>3, <1>4
  <2> HIDE DEF above
  <2>8. /\ walk' \in WalkType /\ walk'.view = c.view /\ walk'.pc = "walking"
        /\ walk'.read = after.read /\ walk'.reread = after.reread
        /\ walk'.skipped = c.skipped /\ walk'.as_of = at /\ walk'.above = above
        /\ walk'.score = last.score /\ walk'.id = last.id
    BY <1>7, <2>1, <2>6, <2>7 DEF WalkType, Item
  <2>9. \A i \in S : SortsAfter(walk', i) <=> Before(last, i)
    <3>1. \A i \in S : i.score \in Int /\ i.id \in Nat
      BY <1>2 DEF Item
    <3>2. last.score \in Int /\ last.id \in Nat
      BY <2>6 DEF Item
    <3>3. QED
      BY <2>8, <3>1, <3>2 DEF SortsAfter, Before
  <2>10. {i \in S : ~SortsAfter(walk', i)} = D \cup page
    BY <1>3, <1>4, <2>5, <2>9
  <2>11. ReadInOrder(X, walk', records, at, D \cup page)
    BY <1>8, <2>8 DEF ReadInOrder
  <2>12. ASSUME exact
         PROVE  /\ AllThere(walk', records, at, D \cup page)
                /\ walk'.above = Cardinality(walk'.read) + walk'.skipped
                /\ walk'.above <= Cardinality(D \cup page)
    BY <1>4, <1>9, <2>7, <2>8, <2>12 DEF AllThere, above
  <2>13. QED
    BY <2>8, <2>10, <2>11, <2>12 DEF PageRead
<1>13. QED
  BY <1>10, <1>11, <1>12
-----------------------------------------------------------------------------
(* The invariant.  A walk in progress stands at a place in the order it    *)
(* reads: of the items that stayed it has read those before that place and *)
(* no other, and while nothing has left, everything it has read is there   *)
(* and what it has read or counted as skipped is what it had come to.      *)

Reached(w, rs) == {i \in ViewOf(rs, w.view, w.as_of) : ~SortsAfter(w, i)}

Reading(w, rs, X, lost) ==
  w.pc = "walking" =>
    /\ ReadInOrder(X, w, rs, w.as_of, Reached(w, rs))
    /\ ~lost => /\ AllThere(w, rs, w.as_of, Reached(w, rs))
                /\ w.above = Cardinality(w.read) + w.skipped
                /\ w.above <= Cardinality(Reached(w, rs))

RegisterTypes ==
  /\ IsRegister(records) /\ now \in Nat /\ left \in BOOLEAN
  /\ walk \in WalkType

RegisterInv ==
  /\ RegisterTypes
  /\ Reading(walk, records, stayed, left)
  /\ WalkDeliversOnce /\ SkippedIsExact

LEMMA RegisterStarts == RegisterInit => RegisterInv
<1> SUFFICES ASSUME RegisterInit PROVE RegisterInv
  OBVIOUS
<1>1. IsRegister(records)
  BY RegisterAssumption DEF RegisterInit, IsRegister
<1>2. walk \in WalkType /\ walk.pc = "none"
  BY DEF RegisterInit, NoWalk, WalkType
<1>3. QED
  BY <1>1, <1>2 DEF RegisterInit, RegisterInv, RegisterTypes, Reading,
                    WalkDeliversOnce, SkippedIsExact

LEMMA ViewLeads ==
  ASSUME RegisterTypes
  PROVE  Leads(Scored(walk.view, walk.as_of), Reached(walk, records))
<1> DEFINE S == Scored(walk.view, walk.as_of)
           D == Reached(walk, records)
<1>1. walk.as_of \in Nat /\ walk.score \in Int /\ walk.id \in Nat
  BY DEF RegisterTypes, WalkType
<1>2. S = ViewOf(records, walk.view, walk.as_of) /\ S \subseteq Item
  BY <1>1, ScoredIsView, ViewIsFinite DEF RegisterTypes
<1>3. D = {i \in S : ~SortsAfter(walk, i)}
  BY <1>2 DEF Reached
<1>4. ASSUME NEW i \in D, NEW k \in S, Before(k, i) PROVE k \in D
  <2>1. i \in S /\ ~SortsAfter(walk, i)
    BY <1>3
  <2>2. /\ i.score \in Int /\ i.id \in Nat
        /\ k.score \in Int /\ k.id \in Nat
    BY <1>2, <2>1 DEF Item
  <2>3. ~SortsAfter(walk, k)
    BY <1>1, <1>4, <2>1, <2>2 DEF SortsAfter, Before
  <2>4. QED
    BY <1>3, <2>3
<1>5. QED
  BY <1>3, <1>4 DEF Leads

(* What a page leaves behind it is what the invariant says of a walk.      *)
LEMMA PageReadsOn ==
  ASSUME IsRegister(records), records' = records,
         NEW at \in Nat, NEW view, NEW S, S = Scored(view, at),
         PageRead(walk', view, records, S, at, stayed', ~left', missed')
  PROVE  /\ Reading(walk', records', stayed', left')
         /\ WalkDeliversOnce' /\ SkippedIsExact'
<1>1. ASSUME walk'.pc = "walking"
      PROVE  Reached(walk', records') = {i \in S : ~SortsAfter(walk', i)}
  BY <1>1, ScoredIsView DEF Reached, PageRead
<1>2. Reading(walk', records', stayed', left')
  BY <1>1 DEF Reading, PageRead
<1>3. QED
  BY <1>2 DEF WalkDeliversOnce, SkippedIsExact, PageRead

LEMMA FirstPageReads ==
  ASSUME RegisterInv, NEW view \in Views, FirstPage(view)
  PROVE  RegisterInv'
<1> DEFINE c == [NoWalk EXCEPT !.view = view]
           S == Scored(view, now)
<1>1. c \in WalkType /\ c.view = view /\ c.read = {} /\ c.reread = {} /\ c.skipped = 0
  BY DEF NoWalk, WalkType
<1> HIDE DEF c
<1>2. /\ Deliver(c, now, S, 0) /\ stayed' = ItemsFor(records, view)
      /\ left' = FALSE /\ records' = records /\ now' = now
  BY DEF FirstPage, c
<1>3. IsRegister(records) /\ now \in Nat
  BY DEF RegisterInv, RegisterTypes
<1>4. Cardinality({}) = 0
  BY FS_EmptySet
<1>5. Leads(S, {})
  BY DEF Leads
<1>6. ReadInOrder(ItemsFor(records, view), c, records, now, {})
  BY <1>1 DEF ReadInOrder
<1>7. /\ AllThere(c, records, now, {})
      /\ Cardinality(c.read) + c.skipped = Cardinality({})
  BY <1>1, <1>4 DEF AllThere
<1>8. S = Scored(c.view, now) /\ Deliver(c, now, S, Cardinality({}))
  BY <1>1, <1>2, <1>4
<1> DEFINE X == ItemsFor(records, view)
<1> HIDE DEF X, S
<1>9. PageRead(walk', c.view, records, S, now, X, TRUE, missed')
  <2>1. ReadInOrder(X, c, records, now, {})
    BY <1>6 DEF X
  <2>2. S = Scored(c.view, now)
    BY <1>8
  <2>3. QED
    BY <1>1, <1>3, <1>5, <1>7, <1>8, <2>1, <2>2, Delivery
<1>10. PageRead(walk', view, records, S, now, stayed', ~left', missed')
  BY <1>1, <1>2, <1>9 DEF X
<1>11. /\ Reading(walk', records', stayed', left')
       /\ WalkDeliversOnce' /\ SkippedIsExact'
  BY <1>2, <1>3, <1>10, PageReadsOn DEF S
<1>12. QED
  BY <1>2, <1>3, <1>10, <1>11 DEF RegisterInv, RegisterTypes, PageRead

LEMMA NextPageReads ==
  ASSUME RegisterInv, NextPage
  PROVE  RegisterInv'
<1> DEFINE at == walk.as_of
           S == Scored(walk.view, at)
           D == Reached(walk, records)
           start == Cardinality(D)
           skipped == IF start > walk.above THEN start - walk.above ELSE 0
           c == [walk EXCEPT !.skipped = walk.skipped + skipped]
           exact == ~left
<1>1. RegisterTypes /\ Reading(walk, records, stayed, left)
  BY DEF RegisterInv
<1>2. /\ walk \in WalkType /\ at \in Nat /\ walk.above \in Nat /\ walk.skipped \in Nat
      /\ IsRegister(records) /\ left \in BOOLEAN
  BY <1>1 DEF RegisterTypes, WalkType
<1>3. S = ViewOf(records, walk.view, at) /\ S \subseteq Item /\ IsFiniteSet(S)
  BY <1>2, ScoredIsView, ViewIsFinite
<1>4. D = {i \in S : ~SortsAfter(walk, i)}
  BY <1>3 DEF Reached
<1>5. /\ walk.pc = "walking" /\ Deliver(c, at, S, start)
      /\ records' = records /\ now' = now /\ stayed' = stayed /\ left' = left
  BY <1>4 DEF NextPage, AsOf
<1>6. Leads(S, D)
  BY <1>1, ViewLeads
<1>7. start \in Nat
  BY <1>3, <1>6, LeadersStandFirst
<1>8. /\ ReadInOrder(stayed, walk, records, at, D)
      /\ ~left => /\ AllThere(walk, records, at, D)
                  /\ walk.above = Cardinality(walk.read) + walk.skipped
                  /\ walk.above <= start
  BY <1>1, <1>5 DEF Reading
<1> HIDE DEF at, S, D, start
<1>9. skipped \in Nat
  BY <1>2, <1>7
<1>10. exact => walk.above + skipped = start
  BY <1>2, <1>7, <1>8
<1> HIDE DEF skipped
<1>11. /\ c \in WalkType /\ c.view = walk.view /\ c.read = walk.read
       /\ c.reread = walk.reread /\ c.skipped = walk.skipped + skipped
  BY <1>2, <1>9 DEF WalkType
<1> HIDE DEF c
<1>12. ReadInOrder(stayed, c, records, at, D)
  BY <1>8, <1>11 DEF ReadInOrder
<1>13. exact => AllThere(c, records, at, D)
  BY <1>8, <1>11 DEF AllThere
<1>14. exact => Cardinality(c.read) + c.skipped = Cardinality(D)
  <2> SUFFICES ASSUME exact PROVE Cardinality(c.read) + c.skipped = start
    BY DEF start
  <2>1. walk.read \in SUBSET Ids
    BY <1>2 DEF WalkType
  <2>2. Cardinality(walk.read) \in Nat
    BY <2>1, RegisterAssumption, FS_Subset, FS_CardinalityType
  <2>3. QED
    BY <1>2, <1>7, <1>8, <1>9, <1>10, <1>11, <2>2
<1>15. exact \in BOOLEAN
  BY <1>2
<1>16. S = Scored(c.view, at) /\ Deliver(c, at, S, Cardinality(D))
  BY <1>5, <1>11 DEF S, start
<1> HIDE DEF exact
<1>17. PageRead(walk', c.view, records, S, at, stayed, exact, missed')
  BY <1>2, <1>6, <1>11, <1>12, <1>13, <1>14, <1>15, <1>16, Delivery
<1>18. PageRead(walk', walk.view, records, S, at, stayed', ~left', missed')
  BY <1>5, <1>11, <1>17 DEF exact
<1>19. /\ Reading(walk', records', stayed', left')
       /\ WalkDeliversOnce' /\ SkippedIsExact'
  BY <1>2, <1>5, <1>18, PageReadsOn DEF S
<1>20. QED
  BY <1>1, <1>5, <1>18, <1>19 DEF RegisterInv, RegisterTypes, PageRead
-----------------------------------------------------------------------------
(* What changes the register between two pages: a record that stays with   *)
(* its kind keeps what its rank is made of.                                *)

Steady(rs) ==
  /\ IsRegister(rs)
  /\ \A id \in DOMAIN records \cap DOMAIN rs :
       records[id].kind = rs[id].kind =>
         /\ rs[id].since = records[id].since /\ rs[id].due = records[id].due
         /\ rs[id].blocking = records[id].blocking

LEMMA ItemsStay ==
  ASSUME NEW rs, Steady(rs), NEW view, NEW at,
         NEW id \in ItemsFor(records, view) \cap ItemsFor(rs, view),
         records[id].kind = rs[id].kind
  PROVE  ItemOf(rs, at, id) = ItemOf(records, at, id)
<1>1. id \in DOMAIN records \cap DOMAIN rs
  BY DEF ItemsFor
<1>2. /\ rs[id].since = records[id].since /\ rs[id].due = records[id].due
      /\ rs[id].blocking = records[id].blocking
  BY <1>1 DEF Steady
<1>3. Rank(rs[id], at) = Rank(records[id], at)
  BY <1>2 DEF Rank
<1>4. QED
  BY <1>3 DEF ItemOf, ScoreOf

LEMMA ChangesKeepReading ==
  ASSUME RegisterInv, NEW rs, Steady(rs), Becomes(rs)
  PROVE  RegisterInv'
<1> DEFINE before == ItemsFor(records, walk.view)
           keeps == {id \in before \cap ItemsFor(rs, walk.view) :
                       records[id].kind = rs[id].kind}
           at == walk.as_of
           D == Reached(walk, records)
           E == Reached(walk, rs)
<1>1. /\ records' = rs /\ stayed' = stayed \cap keeps
      /\ left' = (left \/ (walk.pc = "walking" /\ before # keeps))
      /\ now' = now /\ walk' = walk /\ missed' = missed
  BY DEF Becomes
<1>2. RegisterTypes /\ Reading(walk, records, stayed, left)
  BY DEF RegisterInv
<1>3. RegisterTypes'
  BY <1>1, <1>2 DEF RegisterTypes, Steady
<1>4. /\ at \in Nat /\ IsRegister(records) /\ IsRegister(rs) /\ walk \in WalkType
  BY <1>2 DEF RegisterTypes, WalkType, Steady
<1> HIDE DEF at, D, E
<1>5. \A id \in keeps : /\ ItemOf(rs, at, id) = ItemOf(records, at, id)
                        /\ id \in before /\ id \in ItemsFor(rs, walk.view)
  BY ItemsStay
<1>6. \A id \in keeps : ItemOf(records, at, id) \in D <=> ItemOf(rs, at, id) \in E
  <2>1. \A x : x \in D <=> x \in ViewOf(records, walk.view, at) /\ ~SortsAfter(walk, x)
    BY DEF D, at, Reached
  <2>2. \A x : x \in E <=> x \in ViewOf(rs, walk.view, at) /\ ~SortsAfter(walk, x)
    BY DEF E, at, Reached
  <2>3. \A id \in keeps : /\ ItemOf(records, at, id) \in ViewOf(records, walk.view, at)
                          /\ ItemOf(rs, at, id) \in ViewOf(rs, walk.view, at)
    BY <1>5 DEF ViewOf
  <2>4. QED
    BY <1>5, <2>1, <2>2, <2>3
<1>7. ASSUME walk.pc = "walking"
      PROVE  /\ ReadInOrder(stayed, walk, records, at, D)
             /\ ~left => /\ AllThere(walk, records, at, D)
                         /\ walk.above = Cardinality(walk.read) + walk.skipped
                         /\ walk.above <= Cardinality(D)
  BY <1>2, <1>7 DEF Reading, at, D
<1> HIDE DEF before, keeps
<1>8. ASSUME walk.pc = "walking"
      PROVE  ReadInOrder(stayed \cap keeps, walk, rs, at, E)
  BY <1>5, <1>6, <1>7, <1>8 DEF ReadInOrder
<1>9. ASSUME walk.pc = "walking", ~left, before = keeps
      PROVE  /\ AllThere(walk, rs, at, E)
             /\ walk.above = Cardinality(walk.read) + walk.skipped
             /\ walk.above <= Cardinality(E)
  <2>1. AllThere(walk, rs, at, E)
    <3>1. \A id \in walk.read : id \in before /\ ItemOf(records, at, id) \in D
      BY <1>7, <1>9 DEF AllThere, before
    <3>2. QED
      BY <1>5, <1>6, <1>9, <3>1 DEF AllThere
  <2>2. D \in SUBSET E
    <3>1. \A x \in D : \E id \in before : x = ItemOf(records, at, id)
      BY DEF D, Reached, ViewOf, before, at
    <3>2. QED
      BY <1>5, <1>6, <1>9, <3>1
  <2>3. IsFiniteSet(E)
    <3>1. E \in SUBSET ViewOf(rs, walk.view, at)
      BY DEF E, Reached, at
    <3>2. IsFiniteSet(ViewOf(rs, walk.view, at))
      BY <1>4, ViewIsFinite
    <3>3. QED
      BY <3>1, <3>2, FS_Subset
  <2>4. /\ Cardinality(D) <= Cardinality(E) /\ Cardinality(D) \in Nat
        /\ Cardinality(E) \in Nat
    BY <2>2, <2>3, FS_Subset, FS_CardinalityType
  <2>5. walk.above \in Nat
    BY <1>4 DEF WalkType
  <2>6. QED
    BY <1>7, <1>9, <2>1, <2>4, <2>5
<1>10. Reading(walk', records', stayed', left')
  BY <1>1, <1>8, <1>9 DEF Reading, at, E
<1>11. WalkDeliversOnce' /\ SkippedIsExact'
  <2>1. WalkDeliversOnce /\ SkippedIsExact
    BY DEF RegisterInv
  <2>2. QED
    BY <1>1, <2>1 DEF WalkDeliversOnce, SkippedIsExact
<1>12. QED
  BY <1>3, <1>10, <1>11 DEF RegisterInv

LEMMA RecordIsTyped ==
  ASSUME NEW kind \in {"edge", "commitment", "expectation", "pending"},
         NEW since \in Nat, NEW due \in Nat \cup {None}, NEW blocking \in Nat,
         NEW state \in RecordState, NEW mine \in BOOLEAN, NEW of \in Nat \cup {None}
  PROVE  Record(kind, since, due, blocking, state, mine, of) \in RecordType
BY DEF Record, RecordType

LEMMA AddedIsSteady ==
  ASSUME RegisterTypes, NEW id \in Ids, Free(id), NEW r \in RecordType
  PROVE  Steady(With(id, r))
BY DEF RegisterTypes, IsRegister, Free, With, Steady

LEMMA CommitIsSteady ==
  ASSUME RegisterTypes, NEW id \in Ids, NEW due \in Nat \cup {None}, Commit(id, due)
  PROVE  \E rs : Steady(rs) /\ Becomes(rs)
<1> DEFINE r == Record("commitment", now, due, 0, "vault-local", TRUE, None)
<1>1. r \in RecordType
  BY RecordIsTyped DEF RecordState, RegisterTypes
<1> HIDE DEF r
<1>2. Steady(With(id, r))
  BY <1>1, AddedIsSteady DEF Commit
<1>3. QED
  BY <1>2 DEF Commit, r

LEMMA CommitAndProposeIsSteady ==
  ASSUME RegisterTypes, NEW id \in Ids, NEW edge \in Ids, NEW due \in Nat \cup {None},
         CommitAndPropose(id, edge, due)
  PROVE  \E rs : Steady(rs) /\ Becomes(rs)
<1> DEFINE e == Record("edge", now, due, 0, "proposed", TRUE, id)
           r == Record("commitment", now, due, 0, "vault-local", TRUE, None)
           rs == [k \in DOMAIN records \cup {id, edge} |->
                    CASE k = edge -> e [] k = id -> r [] OTHER -> records[k]]
<1>1. r \in RecordType /\ e \in RecordType
  <2>1. id \in Nat /\ now \in Nat
    BY RegisterAssumption DEF RegisterTypes
  <2>2. QED
    BY <2>1, RecordIsTyped DEF RecordState
<1>2. Free(id) /\ Free(edge) /\ id # edge /\ Becomes(rs)
  BY DEF CommitAndPropose
<1> HIDE DEF r, e
<1>3. Steady(rs)
  BY <1>1, <1>2 DEF RegisterTypes, IsRegister, Free, Steady
<1>4. QED
  BY <1>2, <1>3

LEMMA InboundIsSteady ==
  ASSUME RegisterTypes, NEW edge \in Ids, NEW since \in Nat, NEW due \in Nat \cup {None},
         NEW blocking \in Nat, InboundProposal(edge, since, due, blocking)
  PROVE  \E rs : Steady(rs) /\ Becomes(rs)
<1> DEFINE r == Record("edge", since, due, blocking, "proposed", FALSE, None)
<1>1. r \in RecordType
  BY RecordIsTyped DEF RecordState
<1> HIDE DEF r
<1>2. Steady(With(edge, r))
  BY <1>1, AddedIsSteady DEF InboundProposal
<1>3. QED
  BY <1>2 DEF InboundProposal, r

LEMMA ExpectIsSteady ==
  ASSUME RegisterTypes, NEW id \in Ids, Expect(id)
  PROVE  \E rs : Steady(rs) /\ Becomes(rs)
<1> DEFINE r == Record("expectation", now, None, 0, "open", FALSE, None)
<1>1. r \in RecordType
  BY RecordIsTyped DEF RecordState, RegisterTypes
<1> HIDE DEF r
<1>2. Steady(With(id, r))
  BY <1>1, AddedIsSteady DEF Expect
<1>3. QED
  BY <1>2 DEF Expect, r

LEMMA QueueIsSteady ==
  ASSUME RegisterTypes, NEW id \in Ids, NEW mine \in BOOLEAN,
         QueuePendingExtraction(id, mine)
  PROVE  \E rs : Steady(rs) /\ Becomes(rs)
<1> DEFINE r == Record("pending", now, None, 0, "vault-local", mine, None)
<1>1. r \in RecordType
  BY RecordIsTyped DEF RecordState, RegisterTypes
<1> HIDE DEF r
<1>2. Steady(With(id, r))
  BY <1>1, AddedIsSteady DEF QueuePendingExtraction
<1>3. QED
  BY <1>2 DEF QueuePendingExtraction, r

(* Taking a candidate: the record under its id goes or becomes another     *)
(* kind of record.                                                         *)
LEMMA AcceptIsSteady ==
  ASSUME RegisterTypes, NEW id, AcceptPending(id)
  PROVE  \E rs : Steady(rs) /\ Becomes(rs)
<1>1. /\ id \in DOMAIN records /\ records[id].kind = "pending"
      /\ records[id] \in RecordType /\ id \in Ids
  BY DEF AcceptPending, InQueue, RegisterTypes, IsRegister
<1>2. records[id].since \in Nat
  BY <1>1 DEF RecordType, RecordState
<1>3. CASE records[id].mine
  <2> DEFINE r == Record("commitment", records[id].since, None, 0, "vault-local", TRUE, None)
  <2>1. r \in RecordType
    BY <1>2, RecordIsTyped DEF RecordState
  <2>2. PICK hash \in Ids :
          /\ Free(hash)
          /\ Becomes([k \in (DOMAIN records \cup {hash}) \ {id} |->
                        IF k = hash THEN r ELSE records[k]])
    BY <1>3 DEF AcceptPending
  <2> DEFINE rs == [k \in (DOMAIN records \cup {hash}) \ {id} |->
                      IF k = hash THEN r ELSE records[k]]
  <2> HIDE DEF r
  <2>3. Steady(rs)
    BY <2>1, <2>2 DEF RegisterTypes, IsRegister, Free, Steady
  <2>4. QED
    BY <2>2, <2>3
<1>4. CASE ~records[id].mine
  <2> DEFINE r == Record("expectation", records[id].since, None, 0, "open", FALSE, None)
  <2>1. r \in RecordType /\ r.kind = "expectation"
    BY <1>2, RecordIsTyped DEF RecordState, Record
  <2>2. Becomes(With(id, r))
    BY <1>4 DEF AcceptPending
  <2> HIDE DEF r
  <2>3. Steady(With(id, r))
    BY <1>1, <2>1 DEF RegisterTypes, IsRegister, With, Steady
  <2>4. QED
    BY <2>2, <2>3
<1>5. QED
  BY <1>3, <1>4

LEMMA DismissIsSteady ==
  ASSUME RegisterTypes, NEW id, DismissPending(id)
  PROVE  \E rs : Steady(rs) /\ Becomes(rs)
<1> DEFINE rs == [k \in DOMAIN records \ {id} |-> records[k]]
<1>1. Becomes(rs)
  BY DEF DismissPending
<1>2. Steady(rs)
  BY DEF RegisterTypes, IsRegister, Steady
<1>3. QED
  BY <1>1, <1>2

(* An act on an edge changes where it stands, and nothing of its rank.     *)
LEMMA EdgeActIsSteady ==
  ASSUME RegisterTypes, NEW id \in DOMAIN records, NEW r \in RecordType,
         r.since = records[id].since, r.due = records[id].due,
         r.blocking = records[id].blocking
  PROVE  Steady([records EXCEPT ![id] = r])
BY DEF RegisterTypes, IsRegister, Steady

LEMMA ConfirmIsSteady ==
  ASSUME RegisterTypes, NEW id, ConfirmEdge(id)
  PROVE  \E rs : Steady(rs) /\ Becomes(rs)
<1> DEFINE r == [records[id] EXCEPT !.state = "open", !.dismissed = FALSE]
           rs == [records EXCEPT ![id] = r]
<1>1. id \in DOMAIN records /\ records[id] \in RecordType
  BY DEF ConfirmEdge, RegisterTypes, IsRegister
<1>2. /\ r \in RecordType /\ r.since = records[id].since /\ r.due = records[id].due
      /\ r.blocking = records[id].blocking
  BY <1>1 DEF RecordType, RecordState
<1>3. Steady(rs)
  <2> HIDE DEF r
  <2>1. QED
    BY <1>1, <1>2, EdgeActIsSteady
<1>4. [records EXCEPT ![id].state = "open", ![id].dismissed = FALSE] = rs
  BY <1>1 DEF RecordType, RecordState
<1>5. Becomes(rs)
  BY <1>4 DEF ConfirmEdge
<1>6. QED
  BY <1>3, <1>5

LEMMA DismissEdgeIsSteady ==
  ASSUME RegisterTypes, NEW id, DismissEdge(id)
  PROVE  \E rs : Steady(rs) /\ Becomes(rs)
<1> DEFINE r == [records[id] EXCEPT !.dismissed = TRUE]
           rs == [records EXCEPT ![id] = r]
<1>1. id \in DOMAIN records /\ records[id] \in RecordType /\ Becomes(rs)
  BY DEF DismissEdge, RegisterTypes, IsRegister
<1>2. /\ r \in RecordType /\ r.since = records[id].since /\ r.due = records[id].due
      /\ r.blocking = records[id].blocking
  BY <1>1 DEF RecordType, RecordState
<1>3. Steady(rs)
  <2> HIDE DEF r
  <2>1. QED
    BY <1>1, <1>2, EdgeActIsSteady
<1>4. QED
  BY <1>1, <1>3

LEMMA EdgeEndIsSteady ==
  ASSUME RegisterTypes, NEW id, EdgeEnds(id)
  PROVE  \E rs : Steady(rs) /\ Becomes(rs)
<1> DEFINE r == [records[id] EXCEPT !.state = "closed"]
           rs == [records EXCEPT ![id] = r]
<1>1. id \in DOMAIN records /\ records[id] \in RecordType /\ Becomes(rs)
  BY DEF EdgeEnds, RegisterTypes, IsRegister
<1>2. /\ r \in RecordType /\ r.since = records[id].since /\ r.due = records[id].due
      /\ r.blocking = records[id].blocking
  BY <1>1 DEF RecordType, RecordState
<1>3. Steady(rs)
  <2> HIDE DEF r
  <2>1. QED
    BY <1>1, <1>2, EdgeActIsSteady
<1>4. QED
  BY <1>1, <1>3

LEMMA ChangeIsSteady ==
  ASSUME RegisterTypes, Change
  PROVE  \E rs : Steady(rs) /\ Becomes(rs)
<1>1. PICK id \in Ids :
         \/ Expect(id) \/ AcceptPending(id) \/ DismissPending(id)
         \/ ConfirmEdge(id) \/ DismissEdge(id) \/ EdgeEnds(id)
         \/ \E mine \in BOOLEAN : QueuePendingExtraction(id, mine)
         \/ \E due \in Dues :
              \/ Commit(id, due)
              \/ \E edge \in Ids : CommitAndPropose(id, edge, due)
              \/ \E since \in 0..now, blocking \in Blocking :
                   InboundProposal(id, since, due, blocking)
  BY DEF Change
<1>2. CASE Expect(id)
  BY <1>2, ExpectIsSteady
<1>3. CASE AcceptPending(id)
  BY <1>3, AcceptIsSteady
<1>4. CASE DismissPending(id)
  BY <1>4, DismissIsSteady
<1>5. CASE ConfirmEdge(id)
  BY <1>5, ConfirmIsSteady
<1>6. CASE DismissEdge(id)
  BY <1>6, DismissEdgeIsSteady
<1>7. CASE EdgeEnds(id)
  BY <1>7, EdgeEndIsSteady
<1>8. CASE \E mine \in BOOLEAN : QueuePendingExtraction(id, mine)
  BY <1>8, QueueIsSteady
<1>9. ASSUME NEW due \in Dues, Commit(id, due)
      PROVE  \E rs : Steady(rs) /\ Becomes(rs)
  BY <1>9, CommitIsSteady, RegisterAssumption
<1>10. ASSUME NEW due \in Dues, NEW edge \in Ids, CommitAndPropose(id, edge, due)
       PROVE  \E rs : Steady(rs) /\ Becomes(rs)
  BY <1>10, CommitAndProposeIsSteady, RegisterAssumption
<1>11. ASSUME NEW due \in Dues, NEW since \in 0..now, NEW blocking \in Blocking,
              InboundProposal(id, since, due, blocking)
       PROVE  \E rs : Steady(rs) /\ Becomes(rs)
  <2>1. /\ due \in Nat \cup {None} /\ since \in Nat /\ blocking \in Nat
    BY RegisterAssumption DEF RegisterTypes
  <2>2. QED
    BY <1>11, <2>1, InboundIsSteady
<1>12. QED
  BY <1>1, <1>2, <1>3, <1>4, <1>5, <1>6, <1>7, <1>8, <1>9, <1>10, <1>11

LEMMA WalkStepKeeps ==
  ASSUME RegisterInv, WalkStep
  PROVE  RegisterInv'
<1>1. CASE NextPage
  BY <1>1, NextPageReads
<1>2. ASSUME NEW view \in Views, FirstPage(view) PROVE RegisterInv'
  BY <1>2, FirstPageReads
<1>3. CASE RefuseCursor
  <2>1. /\ walk' = NoWalk /\ stayed' = {} /\ left' = FALSE /\ missed' = {}
        /\ records' = records /\ now' = now
    BY <1>3 DEF RefuseCursor
  <2>2. NoWalk \in WalkType /\ NoWalk.pc = "none"
    BY DEF NoWalk, WalkType
  <2>3. QED
    BY <2>1, <2>2 DEF RegisterInv, RegisterTypes, Reading, WalkDeliversOnce, SkippedIsExact
<1>4. QED
  BY <1>1, <1>2, <1>3 DEF WalkStep

LEMMA RegisterStays ==
  ASSUME RegisterInv, records' = records, now' \in Nat, walk' = walk, stayed' = stayed,
         left' = left, missed' = missed
  PROVE  RegisterInv'
BY DEF RegisterInv, RegisterTypes, WalkDeliversOnce, SkippedIsExact

LEMMA RegisterSteps ==
  ASSUME RegisterInv, RegisterNext \/ UNCHANGED registerVars
  PROVE  RegisterInv'
<1>1. RegisterTypes
  BY DEF RegisterInv
<1>2. CASE WalkStep
  BY <1>2, WalkStepKeeps
<1>3. CASE Change
  BY <1>1, <1>3, ChangeIsSteady, ChangesKeepReading
<1>4. CASE Tick
  BY <1>1, <1>4, RegisterStays DEF Tick, RegisterTypes
<1>5. CASE UNCHANGED registerVars
  BY <1>1, <1>5, RegisterStays DEF registerVars, RegisterTypes
<1>6. QED
  BY <1>2, <1>3, <1>4, <1>5 DEF RegisterNext

(* A tap is one of the register's changes.                                 *)
LEMMA TapIsSteady ==
  ASSUME RegisterTypes, NEW intent, RunIntent(intent)
  PROVE  \E rs : Steady(rs) /\ Becomes(rs)
<1>1. \/ AcceptPending(intent.id)
      \/ DismissPending(intent.id)
      \/ \E id \in Ids : Expect(id)
      \/ \E id, edge \in Ids : CommitAndPropose(id, edge, None)
      \/ \E id \in Ids : Commit(id, None)
  BY Zenon DEF RunIntent
<1>2. CASE AcceptPending(intent.id)
  BY <1>2, AcceptIsSteady
<1>3. CASE DismissPending(intent.id)
  BY <1>3, DismissIsSteady
<1>4. CASE \E id \in Ids : Expect(id)
  BY <1>4, ExpectIsSteady
<1>5. None \in Nat \cup {None}
  OBVIOUS
<1>6. CASE \E id, edge \in Ids : CommitAndPropose(id, edge, None)
  BY <1>5, <1>6, CommitAndProposeIsSteady
<1>7. CASE \E id \in Ids : Commit(id, None)
  BY <1>5, <1>7, CommitIsSteady
<1>8. QED
  BY <1>1, <1>2, <1>3, <1>4, <1>6, <1>7

LEMMA GestureKeepsRegister ==
  ASSUME RegisterInv, GestureNext \/ UNCHANGED gestureVars
  PROVE  RegisterInv'
<1>1. RegisterTypes
  BY DEF RegisterInv
<1>2. CASE Change \/ WalkStep \/ Tick \/ UNCHANGED registerVars
  BY <1>2, RegisterSteps DEF RegisterNext
<1>3. CASE ReactInChat \/ ReactInReview \/ MeetingEnds \/ QueueCards
  <2>1. UNCHANGED registerVars
    BY <1>3 DEF ReactInChat, ReactInReview, MeetingEnds, QueueCards, Shows
  <2>2. QED
    BY <2>1, RegisterSteps
<1>4. ASSUME NEW intent \in card.intents, Tap(intent) PROVE RegisterInv'
  <2>1. \E rs : Steady(rs) /\ Becomes(rs)
    BY <1>1, <1>4, TapIsSteady DEF Tap
  <2>2. QED
    BY <2>1, ChangesKeepReading
<1>5. CASE UNCHANGED gestureVars
  <2>1. UNCHANGED registerVars
    BY <1>5 DEF gestureVars, registerVars
  <2>2. QED
    BY <2>1, RegisterSteps
<1>6. QED
  BY <1>2, <1>3, <1>4, <1>5 DEF GestureNext

LEMMA RegisterInvHolds ==
  /\ RegisterSpec => []RegisterInv
  /\ GestureSpec => []RegisterInv
<1>1. RegisterInv /\ [RegisterNext]_registerVars => RegisterInv'
  BY RegisterSteps
<1>2. RegisterInv /\ [GestureNext]_gestureVars => RegisterInv'
  BY GestureKeepsRegister
<1>3. GestureInit => RegisterInit
  BY DEF GestureInit
<1>4. QED
  BY <1>1, <1>2, <1>3, RegisterStarts, PTL DEF RegisterSpec, GestureSpec

(* A client that reads a view to its end has been given every item that    *)
(* stayed in it, and none twice, whatever the register did between its     *)
(* pages, with gestures among what happens and without (openLoops,         *)
(* sortsAfter, walkView).                                                  *)
THEOREM WalksLoseNothing ==
  /\ RegisterSpec => []WalkDeliversOnce
  /\ GestureSpec => []WalkDeliversOnce
<1>1. RegisterInv => WalkDeliversOnce
  BY DEF RegisterInv
<1>2. QED
  BY <1>1, RegisterInvHolds, PTL

(* The skipped counts of a finished walk add up to what overtook the       *)
(* reader, if nothing left the view meanwhile (openLoops, cursor.above).   *)
THEOREM SkippedIsCounted ==
  /\ RegisterSpec => []SkippedIsExact
  /\ GestureSpec => []SkippedIsExact
<1>1. RegisterInv => SkippedIsExact
  BY DEF RegisterInv
<1>2. QED
  BY <1>1, RegisterInvHolds, PTL

-----------------------------------------------------------------------------
(* What a card holds: only what the viewer said can be confirmed or        *)
(* recorded as a commitment from it.                                       *)

CardInv ==
  \A intent \in card.intents :
    /\ intent.tool \in {"confirm", "dismiss", "expect", "commit"}
    /\ intent.tool \in {"confirm", "commit"} => card.by = viewer

Sound(c) ==
  \A intent \in c.intents :
    /\ intent.tool \in {"confirm", "dismiss", "expect", "commit"}
    /\ intent.tool \in {"confirm", "commit"} => c.by = viewer

LEMMA CardsAreSound ==
  /\ Sound(NoCard)
  /\ \A utterance, id : AsOwn(utterance) => Sound(ConfirmCard(utterance, id))
  /\ \A utterance : AsOwn(utterance) => Sound(RecordCard(utterance))
  /\ \A utterance : Sound(ExpectationCard(utterance))
<1>1. Sound(NoCard)
  BY DEF Sound, NoCard
<1>2. ASSUME NEW utterance, NEW id, AsOwn(utterance)
      PROVE  Sound(ConfirmCard(utterance, id))
  BY <1>2 DEF Sound, ConfirmCard, Card, ConfirmIntent, DismissIntent, AsOwn
<1>3. ASSUME NEW utterance, AsOwn(utterance) PROVE Sound(RecordCard(utterance))
  BY <1>3 DEF Sound, RecordCard, Card, CommitIntent, AsOwn
<1>4. ASSUME NEW utterance PROVE Sound(ExpectationCard(utterance))
  BY DEF Sound, ExpectationCard, Card, ExpectIntent, DismissIntent
<1>5. QED
  BY <1>1, <1>2, <1>3, <1>4

LEMMA ReactionsAreSound ==
  ASSUME NEW reaction, NEW utterance
  PROVE  Sound(ResolveReaction(reaction, utterance))
<1>1. CASE reaction # CONFIRM_REACTION \/ ~utterance.said
  <2>1. ~(reaction = CONFIRM_REACTION /\ utterance.said /\ ~AsOwn(utterance))
    BY <1>1
  <2>2. ResolveReaction(reaction, utterance) = NoCard
    BY <1>1, <2>1, Zenon DEF ResolveReaction
  <2>3. QED
    BY <2>2, CardsAreSound
<1>2. CASE /\ ~(reaction # CONFIRM_REACTION \/ ~utterance.said)
           /\ ~AsOwn(utterance)
  <2>1. ResolveReaction(reaction, utterance) = ExpectationCard(utterance)
    BY <1>2 DEF ResolveReaction
  <2>2. QED
    BY <2>1, CardsAreSound
<1>3. CASE /\ ~(reaction # CONFIRM_REACTION \/ ~utterance.said)
           /\ AsOwn(utterance)
  <2>1. ResolveReaction(reaction, utterance) =
          IF utterance.pendingId = None THEN RecordCard(utterance)
          ELSE ConfirmCard(utterance, utterance.pendingId)
    BY <1>3 DEF ResolveReaction
  <2>2. QED
    BY <1>3, <2>1, CardsAreSound
<1>4. QED
  BY <1>1, <1>2, <1>3

LEMMA CardSteps ==
  ASSUME CardInv, GestureNext \/ UNCHANGED gestureVars
  PROVE  CardInv'
<1>1. CardInv = Sound(card) /\ CardInv' = Sound(card')
  BY DEF CardInv, Sound
<1>2. CASE card' = card
  BY <1>1, <1>2
<1>3. CASE ReactInChat
  BY <1>1, <1>3, ReactionsAreSound DEF ReactInChat, Shows
<1>4. CASE ReactInReview
  BY <1>1, <1>4, ReactionsAreSound DEF ReactInReview, Shows
<1>5. CASE MeetingEnds
  <2>1. PICK item \in ActionItem, id \in Queued \cup {TranscriptId} :
          card' = IF AsOwn(MeetingUtterance(item, id))
                  THEN ConfirmCard(MeetingUtterance(item, id), id)
                  ELSE ExpectationCard(MeetingUtterance(item, id))
    BY <1>5 DEF MeetingEnds, Shows
  <2>2. QED
    BY <1>1, <2>1, CardsAreSound
<1>6. CASE QueueCards
  <2>1. PICK i \in Scored("pending", now) : card' = ConfirmCard(UtteranceOf(i.id), i.id)
    BY <1>6 DEF QueueCards, Shows
  <2>2. AsOwn(UtteranceOf(i.id))
    BY DEF AsOwn, UtteranceOf, Utterance
  <2>3. QED
    BY <1>1, <2>1, <2>2, CardsAreSound
<1>7. QED
  BY <1>2, <1>3, <1>4, <1>5, <1>6 DEF GestureNext, Tap, gestureVars

LEMMA NewRecords ==
  ASSUME RegisterTypes, CardInv, NEW intent \in card.intents, Tap(intent),
         NEW id \in DOMAIN records', id \notin DOMAIN records,
         records'[id].kind \in {"commitment", "edge"}
  PROVE  /\ card.by = viewer
         /\ intent.tool = "confirm" => records[intent.id].mine
<1>1. /\ RunIntent(intent)
      /\ intent.tool \in {"confirm", "dismiss", "expect", "commit"}
      /\ intent.tool \in {"confirm", "commit"} => card.by = viewer
  BY DEF Tap, CardInv
<1>2. CASE intent.tool = "confirm"
  <2>1. AcceptPending(intent.id)
    BY <1>1, <1>2 DEF RunIntent
  <2>2. records[intent.id].mine
    <3>1. SUFFICES ASSUME ~records[intent.id].mine PROVE FALSE
      OBVIOUS
    <3>2. intent.id \in DOMAIN records
      BY <2>1 DEF AcceptPending, InQueue
    <3>3. records' = With(intent.id, Record("expectation", records[intent.id].since, None,
                                            0, "open", FALSE, None))
      BY <2>1, <3>1 DEF AcceptPending, Becomes
    <3>4. QED
      BY <3>2, <3>3 DEF With
  <2>3. QED
    BY <1>1, <1>2, <2>2
<1>3. CASE intent.tool = "dismiss"
  <2>1. DismissPending(intent.id)
    BY <1>1, <1>3 DEF RunIntent
  <2>2. records' = [k \in DOMAIN records \ {intent.id} |-> records[k]]
    BY <2>1 DEF DismissPending, Becomes
  <2>3. QED
    BY <2>2
<1>4. CASE intent.tool = "expect"
  <2>1. PICK new \in Ids : Expect(new)
    BY <1>1, <1>4 DEF RunIntent
  <2>2. records' = With(new, Record("expectation", now, None, 0, "open", FALSE, None))
    BY <2>1 DEF Expect, Becomes
  <2>3. records'[id].kind = "expectation"
    BY <2>2 DEF With, Record
  <2>4. QED
    BY <2>3
<1>5. CASE intent.tool = "commit"
  BY <1>1, <1>5
<1>6. QED
  BY <1>1, <1>2, <1>3, <1>4, <1>5

(* Only the viewer's own words become a promise, from whichever surface    *)
(* the card came and whatever has changed since (asOwn, runIntent,         *)
(* confirmPending).                                                        *)
THEOREM PromisesAreTheViewersOwn == GestureSpec => OwnWordsOnly
<1> DEFINE A == \A intent \in card.intents :
                  (Tap(intent) /\ \E id \in DOMAIN records' :
                                      /\ records'[id].kind \in {"commitment", "edge"}
                                      /\ id \notin DOMAIN records)
                  => /\ card.by = viewer
                     /\ intent.tool = "confirm" => records[intent.id].mine
<1>1. GestureInit => CardInv
  BY CardsAreSound DEF GestureInit, CardInv, Sound
<1>2. CardInv /\ [GestureNext]_gestureVars => CardInv'
  BY CardSteps
<1>3. RegisterInv /\ CardInv => A
  BY NewRecords DEF RegisterInv
<1>4. RegisterInv /\ CardInv => [A]_gestureVars
  BY <1>3
<1>5. QED
  BY <1>1, <1>2, <1>4, RegisterInvHolds, PTL DEF GestureSpec, OwnWordsOnly
=============================================================================
