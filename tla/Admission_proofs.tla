-------------------------- MODULE Admission_proofs --------------------------
(***************************************************************************)
(* Theorems about a persona's mail and what it lets in, for any hubs,      *)
(* readers and senders, any number of faithless hubs, any queue, nonce and *)
(* clock bounds and any budget.                                            *)
(***************************************************************************)
EXTENDS Admission, FiniteSetTheorems, TLAPS

-----------------------------------------------------------------------------
(* Loops.                                                                  *)

(* A set of naturals that is not empty has a least member.                 *)
LEMMA LeastNatural ==
  ASSUME NEW T, T \subseteq Nat, T # {}
  PROVE  \E n \in T : \A m \in T : n <= m
<1>1. IsWellFoundedOn(OpToRel(<, Nat), Nat)
  BY NatLessThanWellFounded, Zenon
<1>2. PICK n \in T : \A m \in T : ~(<<m, n>> \in OpToRel(<, Nat))
  BY <1>1, WFMin, Zenon
<1>3. \A m \in T : ~(m < n)
  BY <1>2, Zenon DEF OpToRel
<1>4. QED
  BY <1>3

(* What holds before a loop and is kept by each turn holds after any turn. *)
LEMMA LoopKeeps ==
  ASSUME NEW N \in Nat, NEW f, NEW V, f[0] \in V,
         \A i \in 1..N : f[i - 1] \in V => f[i] \in V
  PROVE  \A i \in 0..N : f[i] \in V
<1> DEFINE bad == {i \in 0..N : f[i] \notin V}
<1>1. SUFFICES ASSUME bad # {} PROVE FALSE
  OBVIOUS
<1>2. bad \subseteq Nat
  OBVIOUS
<1>3. PICK n \in bad : \A k \in bad : n <= k
  <2> HIDE DEF bad
  <2>1. QED
    BY <1>1, <1>2, LeastNatural
<1>4. n \in 1..N
  OBVIOUS
<1>5. n - 1 \in 0..N /\ n - 1 \notin bad
  BY <1>3, <1>4
<1>6. QED
  BY <1>4, <1>5

(* The courses of a loop over 1..N from b, each turn i of which takes a    *)
(* member x of V to G[<<i, x>>].                                           *)
Course(N, V, b, G) ==
  {f \in [0..N -> V] : f[0] = b /\ \A i \in 1..N : f[i] = G[<<i, f[i - 1]>>]}

(* A loop has a course: its recursive definition defines something.        *)
LEMMA LoopRuns ==
  ASSUME NEW N \in Nat, NEW V, NEW b \in V, NEW G \in [(1..N) \X V -> V]
  PROVE  Course(N, V, b, G) # {}
<1> DEFINE Runs(f, n) ==
             f[0] = b /\ \A i \in 1..n : f[i] = G[<<i, f[i - 1]>>]
           ok == {n \in 0..N : \E f \in [0..n -> V] : Runs(f, n)}
           g == [n \in 0..N |-> n]
<1>1. g[0] \in ok
  <2> DEFINE f == [i \in 0..0 |-> b]
  <2>1. f \in [0..0 -> V] /\ Runs(f, 0)
    OBVIOUS
  <2>2. \E h \in [0..0 -> V] : Runs(h, 0)
    <3> HIDE DEF f, Runs
    <3>1. QED
      BY <2>1
  <2>3. g[0] = 0 /\ 0 \in 0..N
    OBVIOUS
  <2> HIDE DEF Runs, g
  <2>4. QED
    BY <2>2, <2>3
<1>2. ASSUME NEW n \in 1..N, g[n - 1] \in ok PROVE g[n] \in ok
  <2>1. n - 1 \in 0..N /\ g[n - 1] = n - 1
    OBVIOUS
  <2>2. PICK f \in [0..(n - 1) -> V] : Runs(f, n - 1)
    BY <1>2, <2>1
  <2> DEFINE e == [i \in 0..n |-> IF i = n THEN G[<<n, f[n - 1]>>] ELSE f[i]]
  <2>3. f[n - 1] \in V /\ G[<<n, f[n - 1]>>] \in V
    <3>1. n - 1 \in 0..(n - 1)
      OBVIOUS
    <3>2. f[n - 1] \in V
      BY <3>1
    <3>3. <<n, f[n - 1]>> \in (1..N) \X V
      BY <3>2
    <3>4. QED
      BY <3>2, <3>3
  <2>4. e \in [0..n -> V]
    <3>1. ASSUME NEW i \in 0..n, i # n PROVE f[i] \in V
      <4>1. i \in 0..(n - 1)
        BY <3>1
      <4>2. QED
        BY <4>1
    <3>2. QED
      BY <2>3, <3>1
  <2>5. Runs(e, n)
    <3>1. e[0] = b
      BY <2>2
    <3>2. ASSUME NEW i \in 1..n PROVE e[i] = G[<<i, e[i - 1]>>]
      <4>1. i - 1 \in 0..n /\ i - 1 # n
        OBVIOUS
      <4>2. e[i - 1] = f[i - 1]
        BY <4>1
      <4>3. CASE i = n
        <5>1. e[n] = G[<<n, f[n - 1]>>]
          OBVIOUS
        <5> HIDE DEF e
        <5>2. QED
          BY <4>2, <4>3, <5>1
      <4>4. CASE i # n
        <5>1. i \in 1..(n - 1)
          BY <4>4
        <5>2. QED
          BY <2>2, <4>2, <4>4, <5>1
      <4>5. QED
        BY <4>3, <4>4
    <3>3. QED
      BY <3>1, <3>2
  <2>6. \E h \in [0..n -> V] : Runs(h, n)
    <3> HIDE DEF e, Runs
    <3>1. QED
      BY <2>4, <2>5
  <2>7. g[n] = n /\ n \in 0..N
    OBVIOUS
  <2> HIDE DEF Runs, g
  <2>8. QED
    BY <2>6, <2>7
<1>3. \A n \in 0..N : g[n] \in ok
  <2> HIDE DEF ok, g
  <2>1. QED
    BY <1>1, <1>2, LoopKeeps
<1>4. N \in ok
  BY <1>3
<1>5. QED
  BY <1>4 DEF Course

(* A hub keeps some of what it queued, whatever its age limit.             *)
LEMMA KeptIsQueued ==
  ASSUME NEW h, NEW E, queue[h] \in Seq(E)
  PROVE  Kept(h) \in Seq(ToSet(queue[h]))
<1> DEFINE N == Len(queue[h])
           Q == ToSet(queue[h])
           V == Seq(Q)
           Fresh(i) == queue[h][i].received_at >= clock - TTL
           Rec(f) == [i \in 0..N |->
             IF i = 0 THEN <<>>
             ELSE IF Fresh(i) THEN Append(f[i - 1], queue[h][i]) ELSE f[i - 1]]
           kept == CHOOSE f : f = Rec(f)
<1>1. N \in Nat /\ <<>> \in V /\ \A i \in 1..N : queue[h][i] \in Q
  BY DEF ToSet
<1>2. \A i \in 1..N, s \in V : Append(s, queue[h][i]) \in V
  BY <1>1
<1>3. \E f : f = Rec(f)
  <2> DEFINE G == [p \in (1..N) \X V |->
                IF Fresh(p[1]) THEN Append(p[2], queue[h][p[1]]) ELSE p[2]]
  <2>1. G \in [(1..N) \X V -> V]
    <3> HIDE DEF V, N, Q, Fresh
    <3>1. QED
      BY <1>2
  <2>2. PICK f \in [0..N -> V] :
          f[0] = <<>> /\ \A i \in 1..N : f[i] = G[<<i, f[i - 1]>>]
    <3> DEFINE none == <<>>
    <3>1. N \in Nat /\ none \in V
      BY <1>1
    <3> HIDE DEF V, N, G, none
    <3>2. Course(N, V, none, G) # {}
      BY <2>1, <3>1, LoopRuns
    <3>3. QED
      BY <3>2 DEF Course, none
  <2>3. ASSUME NEW i \in 0..N PROVE f[i] = Rec(f)[i]
    <3>1. CASE i = 0
      BY <2>2, <3>1
    <3>2. CASE i # 0
      <4>1. i \in 1..N /\ i - 1 \in 0..N
        BY <1>1, <3>2
      <4>2. f[i - 1] \in V
        BY <4>1
      <4>3. <<i, f[i - 1]>> \in (1..N) \X V
        BY <4>1, <4>2
      <4>4. G[<<i, f[i - 1]>>] =
              IF Fresh(i) THEN Append(f[i - 1], queue[h][i]) ELSE f[i - 1]
        <5> HIDE DEF V, N, Fresh
        <5>1. QED
          BY <4>3
      <4>5. QED
        BY <2>2, <3>2, <4>1, <4>4
    <3>3. QED
      BY <3>1, <3>2
  <2>4. f = Rec(f)
    <3> HIDE DEF V, N, Fresh
    <3>1. f = [i \in 0..N |-> f[i]]
      OBVIOUS
    <3>2. QED
      BY <2>3, <3>1
  <2>5. QED
    BY <2>4
<1>4. kept = Rec(kept)
  BY <1>3
<1>5. Kept(h) = kept[N]
  BY DEF Kept
<1> HIDE DEF kept
<1>6. \A i \in 0..N :
        kept[i] = IF i = 0 THEN <<>>
                  ELSE IF Fresh(i) THEN Append(kept[i - 1], queue[h][i])
                  ELSE kept[i - 1]
  <2> HIDE DEF N, Fresh
  <2>1. QED
    BY <1>4
<1>7. kept[0] \in V /\ \A i \in 1..N : kept[i - 1] \in V => kept[i] \in V
  <2> HIDE DEF V, Fresh
  <2>1. QED
    BY <1>1, <1>2, <1>6
<1>8. \A i \in 0..N : kept[i] \in V
  <2> HIDE DEF V
  <2>1. QED
    BY <1>1, <1>7, LoopKeeps
<1>9. QED
  BY <1>1, <1>5, <1>8

-----------------------------------------------------------------------------
(* The hubs.                                                               *)

(* A message as somebody signed it, or somebody forged it.                 *)
Signed == {m \in Message : m.sender = Proposer[m.edge]}

Envelope ==
  [message : Signed, key : {Node}, sent_at : 0..MaxTime, bound : 0..MaxTime,
   received_at : 0..MaxTime]

Inquiry == [hub : Hub, challenge : Nat \ {0}]

HubTypes ==
  /\ clock \in 0..MaxTime /\ nonce \in Nat
  /\ queue \in [Hub -> Seq(Envelope)]
  /\ challenges \in [Hub -> Nat]
  /\ reader \in [Reader -> Inquiry \cup {NotReading}]
  /\ sent \subseteq Dated

(* The record that carries the persona's signature names its key.          *)
RecordsInv ==
  \A rec \in records :
    rec.sig = Node => rec.dh_key = Node /\ rec.hubs = HubOrder

(* What verifies was sent, under the date the seal binds, whatever date    *)
(* the hub has put on it since.                                            *)
Genuine(env) ==
  VerifyMessage(env.message)
    => [message |-> env.message, sent_at |-> env.bound] \in sent

QueueInv == \A h \in Hub : \A i \in DOMAIN queue[h] : Genuine(queue[h][i])

(* A challenge is given out once; one that was answered to a faithless hub *)
(* is not what that hub, which the answer names, is waiting for.           *)
ChallengeInv ==
  /\ \A r \in Reader : reader[r].challenge <= nonce
  /\ \A auth \in seen :
       /\ auth.audience \in Hub /\ auth.challenge \in 1..nonce
       /\ challenges[auth.audience] # auth.challenge

HubInv == HubTypes /\ RecordsInv /\ QueueInv /\ ChallengeInv

(* What the courier of Courier.tla may do in one step.                     *)
CourierStep ==
  \/ UNCHANGED <<sent, handed>>
  \/ \E i \in Dated : sent' = sent \cup {i} /\ handed' = handed
  \/ \E p \in {Node} \cup Hub : \E items \in SUBSET sent :
       /\ \A i \in items : Recipient(i) = p
       /\ handed' = Given(p, items) /\ sent' = sent

(* What a hub still holds after a read is of its kind and as genuine as it *)
(* was.                                                                    *)
LEMMA KeptIsGenuine ==
  ASSUME HubInv, NEW h \in Hub
  PROVE  /\ Kept(h) \in Seq(Envelope)
         /\ \A s \in ToSet(Kept(h)) : s \in Envelope /\ Genuine(s)
<1> DEFINE Q == ToSet(queue[h])
<1>1. queue[h] \in Seq(Envelope)
  BY DEF HubInv, HubTypes
<1>2. \A s \in Q : s \in Envelope /\ Genuine(s)
  BY <1>1 DEF ToSet, HubInv, QueueInv
<1>3. Kept(h) \in Seq(Q)
  BY <1>1, KeptIsQueued
<1> HIDE DEF Q
<1>4. \A s \in ToSet(Kept(h)) : s \in Q
  BY <1>3 DEF ToSet
<1>5. Kept(h) \in Seq(Envelope)
  <2>1. Q \subseteq Envelope
    BY <1>2
  <2>2. QED
    BY <1>3, <2>1
<1>6. QED
  BY <1>2, <1>4, <1>5

(* A hub's queue cut down to what a read keeps.                            *)
LEMMA CutKeeps ==
  ASSUME HubInv, NEW h \in Hub, queue' = [queue EXCEPT ![h] = Kept(h)],
         sent' = sent
  PROVE  queue' \in [Hub -> Seq(Envelope)] /\ QueueInv'
<1>1. /\ Kept(h) \in Seq(Envelope)
      /\ \A i \in DOMAIN Kept(h) : Genuine(Kept(h)[i])
  BY KeptIsGenuine DEF ToSet
<1>2. queue' \in [Hub -> Seq(Envelope)]
  BY <1>1 DEF HubInv, HubTypes
<1>3. \A k \in Hub : queue'[k] = IF k = h THEN Kept(h) ELSE queue[k]
  BY DEF HubInv, HubTypes
<1>4. ASSUME NEW k \in Hub, NEW i \in DOMAIN queue'[k]
      PROVE  (Genuine(queue[k][i]))'
  <2>1. \E env : queue'[k][i] = env /\ Genuine(env)
    BY <1>1, <1>3 DEF HubInv, QueueInv
  <2>2. QED
    BY <2>1 DEF Genuine, VerifyMessage
<1>5. QED
  BY <1>2, <1>4 DEF QueueInv

(* An envelope added at the end of a hub's queue.                          *)
LEMMA DeliverKeeps ==
  ASSUME HubInv, NEW h \in Hub, NEW env \in Envelope,
         queue' = [queue EXCEPT ![h] = Append(queue[h], env)],
         sent \subseteq sent', (Genuine(env))'
  PROVE  queue' \in [Hub -> Seq(Envelope)] /\ QueueInv'
<1>1. queue[h] \in Seq(Envelope)
  BY DEF HubInv, HubTypes
<1>2. queue' \in [Hub -> Seq(Envelope)]
  BY <1>1 DEF HubInv, HubTypes
<1>3. \A k \in Hub : queue'[k] = IF k = h THEN Append(queue[h], env) ELSE queue[k]
  BY DEF HubInv, HubTypes
<1>4. ASSUME NEW k \in Hub, NEW i \in DOMAIN queue'[k]
      PROVE  (Genuine(queue[k][i]))'
  <2>1. queue'[k][i] = env \/ \E s : queue'[k][i] = s /\ Genuine(s)
    <3>1. CASE k = h /\ i = Len(queue[h]) + 1
      BY <1>1, <1>3, <3>1
    <3>2. CASE k = h /\ i # Len(queue[h]) + 1
      <4>1. i \in DOMAIN queue[h] /\ queue'[k][i] = queue[h][i]
        BY <1>1, <1>3, <3>2
      <4>2. QED
        BY <4>1 DEF HubInv, QueueInv
    <3>3. CASE k # h
      BY <1>3, <3>3 DEF HubInv, QueueInv
    <3>4. QED
      BY <3>1, <3>2, <3>3
  <2>2. QED
    BY <2>1 DEF Genuine, VerifyMessage
<1>5. QED
  BY <1>2, <1>4 DEF QueueInv

-----------------------------------------------------------------------------
(* Each step of the hubs, the senders and the readers.                     *)

(* At the start nothing was sent, queued or asked.                         *)
LEMMA HubStarts ==
  HubInit => HubInv
<1> SUFFICES ASSUME HubInit PROVE HubInv
  OBVIOUS
<1>1. clock \in 0..MaxTime
  BY HubAssumption DEF HubInit
<1>2. /\ queue = [h \in Hub |-> <<>>] /\ challenges = [h \in Hub |-> 0]
      /\ reader = [r \in Reader |-> NotReading] /\ nonce = 0
      /\ records = {} /\ seen = {} /\ sent = {}
  BY DEF HubInit
<1>3. <<>> \in Seq(Envelope) /\ DOMAIN <<>> = {}
  OBVIOUS
<1>4. HubTypes
  BY <1>1, <1>2, <1>3 DEF HubTypes
<1>5. RecordsInv /\ QueueInv
  BY <1>2, <1>3 DEF RecordsInv, QueueInv
<1>6. ChallengeInv
  BY <1>2 DEF ChallengeInv, NotReading
<1>7. QED
  BY <1>4, <1>5, <1>6 DEF HubInv

(* The persona's own record names its own key.                             *)
LEMMA PublishKeeps ==
  ASSUME HubInv, PublishRecord
  PROVE  HubInv' /\ CourierStep
<1>1. /\ records' = records \cup {InboxRecord(Node, HubOrder, Node)}
      /\ UNCHANGED <<clock, queue, challenges, nonce, reader, seen, sent, handed>>
  BY DEF PublishRecord
<1>2. RecordsInv'
  BY <1>1 DEF HubInv, RecordsInv, InboxRecord
<1>3. QED
  BY <1>1, <1>2 DEF HubInv, HubTypes, QueueInv, Genuine, VerifyMessage,
                    ChallengeInv, CourierStep

(* A hub's false record does not carry the persona's signature.            *)
LEMMA PublishFalseKeeps ==
  ASSUME HubInv, NEW h \in Hub, PublishFalseRecord(h)
  PROVE  HubInv' /\ CourierStep
<1>1. /\ records' = records \cup {InboxRecord(h, <<h>>, h)}
      /\ UNCHANGED <<clock, queue, challenges, nonce, reader, seen, sent, handed>>
  BY DEF PublishFalseRecord
<1>2. Node # h
  BY HubAssumption
<1>3. RecordsInv'
  BY <1>1, <1>2 DEF HubInv, RecordsInv, InboxRecord
<1>4. QED
  BY <1>1, <1>3 DEF HubInv, HubTypes, QueueInv, Genuine, VerifyMessage,
                    ChallengeInv, CourierStep

(* What a sender signs is its own proposal.                                *)
LEMMA SignedMessage ==
  ASSUME NEW e \in Proposal, NEW to \in {Node, Elsewhere}
  PROVE  /\ SignMessage(e, to) \in Signed
         /\ SignMessage(e, to).recipient = to
         /\ SignMessage(e, to).sender = Proposer[e]
BY HubAssumption DEF SignMessage, Signed, Message

(* A sender seals to the key the persona signed for, so no hub is handed   *)
(* anything, and what it queues was sent.                                  *)
LEMMA DeliverViaInboxKeeps ==
  ASSUME HubInv, NEW e \in Proposal, NEW to \in {Node, Elsewhere},
         DeliverViaInbox(e, to)
  PROVE  HubInv' /\ CourierStep
<1>1. PICK rec \in records : \E key \in DhKeyFrom(rec) :
        LET env == SealFor(SignMessage(e, to), key) IN
        /\ \E i \in DOMAIN HubsFor(rec) : Deliver(HubsFor(rec)[i], env)
        /\ sent' = sent \cup {MailOf(env)}
        /\ handed' = IF key = Node THEN handed ELSE Given(key, {MailOf(env)})
        /\ UNCHANGED <<clock, records, challenges, nonce, reader, seen>>
  BY DEF DeliverViaInbox
<1>2. PICK key \in DhKeyFrom(rec) :
        LET env == SealFor(SignMessage(e, to), key) IN
        /\ \E i \in DOMAIN HubsFor(rec) : Deliver(HubsFor(rec)[i], env)
        /\ sent' = sent \cup {MailOf(env)}
        /\ handed' = IF key = Node THEN handed ELSE Given(key, {MailOf(env)})
        /\ UNCHANGED <<clock, records, challenges, nonce, reader, seen>>
  BY <1>1
<1>3. key = Node /\ rec.hubs = HubOrder
  BY DEF DhKeyFrom, VerifyInboxRecord, HubInv, RecordsInv
<1>4. PICK m \in Signed : m = SignMessage(e, to)
  BY SignedMessage
<1>5. PICK env : env = SealFor(m, Node)
  OBVIOUS
<1>6. PICK i \in DOMAIN HubsFor(rec) : Deliver(HubsFor(rec)[i], env)
  BY <1>2, <1>3, <1>4, <1>5
<1>7. PICK h \in Hub : h = HubsFor(rec)[i]
  <2>1. i \in DOMAIN HubOrder /\ HubsFor(rec) = HubOrder
    BY <1>3, <1>6 DEF HubsFor
  <2>2. QED
    BY <2>1 DEF Hub
<1>8. /\ env.message = m /\ env.key = Node /\ env.sent_at = clock
      /\ env.bound = clock /\ clock \in 0..MaxTime
  BY <1>5 DEF SealFor, HubInv, HubTypes
<1>9. PICK stored : stored = Stored(env)
  OBVIOUS
<1>10. /\ stored \in Envelope /\ stored.message = m /\ stored.bound = clock
  BY <1>8, <1>9 DEF Stored, Envelope
<1>11. queue' = [queue EXCEPT ![h] = Append(queue[h], stored)]
  BY <1>6, <1>7, <1>9 DEF Deliver
<1>12. MailOf(env) = [message |-> m, sent_at |-> clock] /\ MailOf(env) \in Dated
  BY <1>8 DEF MailOf, Dated, Signed
<1>13. sent' = sent \cup {MailOf(env)} /\ handed' = handed
       /\ UNCHANGED <<clock, records, challenges, nonce, reader, seen>>
  BY <1>2, <1>3, <1>4, <1>5
<1>14. (Genuine(stored))'
  BY <1>10, <1>12, <1>13 DEF Genuine
<1>15. queue' \in [Hub -> Seq(Envelope)] /\ QueueInv'
  BY <1>10, <1>11, <1>13, <1>14, DeliverKeeps
<1>16. HubTypes'
  BY <1>12, <1>13, <1>15 DEF HubInv, HubTypes
<1>17. RecordsInv' /\ ChallengeInv'
  BY <1>13 DEF HubInv, RecordsInv, ChallengeInv
<1>18. QED
  BY <1>12, <1>13, <1>15, <1>16, <1>17 DEF HubInv, CourierStep

(* A new challenge is one nobody has been given.                           *)
LEMMA AskKeeps ==
  ASSUME HubInv, NEW r \in Reader, NEW h \in Hub, AskChallenge(r, h)
  PROVE  HubInv' /\ CourierStep
<1>1. PICK issuer \in Hub :
        /\ nonce' = nonce + 1
        /\ challenges' = [challenges EXCEPT ![issuer] = nonce + 1]
  BY DEF AskChallenge, NewChallenge
<1>2. /\ reader' = [reader EXCEPT ![r] = [hub |-> h, challenge |-> nonce + 1]]
      /\ UNCHANGED <<clock, records, queue, seen, sent, handed>>
  BY DEF AskChallenge
<1>3. nonce \in Nat /\ nonce + 1 \in Nat \ {0}
      /\ [hub |-> h, challenge |-> nonce + 1] \in Inquiry
  BY DEF HubInv, HubTypes, Inquiry
<1>4. HubTypes'
  BY <1>1, <1>2, <1>3 DEF HubInv, HubTypes
<1>5. RecordsInv' /\ QueueInv'
  BY <1>2 DEF HubInv, RecordsInv, QueueInv, Genuine, VerifyMessage
<1>6. ChallengeInv'
  <2>1. \A q \in Reader : reader'[q] = IF q = r
          THEN [hub |-> h, challenge |-> nonce + 1] ELSE reader[q]
    BY <1>2 DEF HubInv, HubTypes
  <2>2. \A q \in Reader : reader[q].challenge \in Nat
    BY DEF HubInv, HubTypes, Inquiry, NotReading
  <2>3. \A q \in Reader : reader'[q].challenge <= nonce'
    BY <1>1, <1>3, <2>1, <2>2 DEF HubInv, ChallengeInv
  <2>4. \A k \in Hub : challenges'[k] = IF k = issuer THEN nonce + 1
                                        ELSE challenges[k]
    BY <1>1 DEF HubInv, HubTypes
  <2>5. ASSUME NEW auth \in seen
        PROVE  /\ auth.audience \in Hub /\ auth.challenge \in 1..nonce'
               /\ challenges'[auth.audience] # auth.challenge
    BY <1>1, <1>3, <2>4 DEF HubInv, ChallengeInv
  <2>6. QED
    BY <1>2, <2>3, <2>5 DEF ChallengeInv
<1>7. QED
  BY <1>2, <1>4, <1>5, <1>6 DEF HubInv, CourierStep

(* What a reader takes from what a hub kept was sent to this persona, on   *)
(* the date it is handed over with.                                        *)
LEMMA ReceivedWasSent ==
  ASSUME HubInv, NEW h \in Hub, NEW s \in ToSet(Kept(h)), Received(s)
  PROVE  MailOf(s) \in sent /\ Recipient(MailOf(s)) = Node
<1>1. Genuine(s)
  BY KeptIsGenuine
<1>2. s.bound = s.sent_at /\ VerifyMessage(s.message) /\ s.message.recipient = Node
  BY DEF Received, Opens, ForThisPersona
<1>3. QED
  BY <1>1, <1>2 DEF Genuine, MailOf, Recipient

(* A read spends the challenge it answers, and an answer a faithless hub   *)
(* gets to keep is worth nothing at that hub.                              *)
LEMMA ReadKeeps ==
  ASSUME HubInv, NEW r \in Reader, ReadInbox(r)
  PROVE  HubInv' /\ CourierStep
<1>1. PICK h : h = reader[r].hub
  OBVIOUS
<1>2. /\ challenges' = [challenges EXCEPT ![h] = 0]
      /\ queue' = [queue EXCEPT ![h] = Kept(h)]
      /\ handed' = Given(Node, {MailOf(env) :
                     env \in {s \in ToSet(Kept(h)) : Received(s)}})
      /\ reader' = [reader EXCEPT ![r] = NotReading]
      /\ seen' = IF h \in Faithless THEN seen \cup {Auth(r)} ELSE seen
      /\ UNCHANGED <<clock, records, nonce, sent>>
  BY <1>1 DEF ReadInbox
<1>3. reader[r] \in Inquiry
  BY DEF ReadInbox, HubInv, HubTypes
<1>4. h \in Hub /\ reader[r].challenge \in Nat \ {0}
  BY <1>1, <1>3 DEF Inquiry
<1>5. queue' \in [Hub -> Seq(Envelope)] /\ QueueInv'
  BY <1>2, <1>4, CutKeeps
<1>6. HubTypes'
  BY <1>2, <1>5 DEF HubInv, HubTypes
<1>7. RecordsInv'
  BY <1>2 DEF HubInv, RecordsInv
<1>8. ChallengeInv'
  <2>1. \A q \in Reader :
          reader'[q] = IF q = r THEN NotReading ELSE reader[q]
    BY <1>2 DEF HubInv, HubTypes
  <2>2. nonce' = nonce /\ nonce \in Nat
    BY <1>2 DEF HubInv, HubTypes
  <2>3. \A q \in Reader : reader'[q].challenge <= nonce'
    BY <2>1, <2>2 DEF HubInv, ChallengeInv, NotReading
  <2>4. \A k \in Hub : challenges'[k] = IF k = h THEN 0 ELSE challenges[k]
    BY <1>2 DEF HubInv, HubTypes
  <2>5. ASSUME NEW auth \in seen'
        PROVE  /\ auth.audience \in Hub /\ auth.challenge \in 1..nonce'
               /\ challenges'[auth.audience] # auth.challenge
    <3>1. CASE auth \in seen
      BY <2>2, <2>4, <3>1 DEF HubInv, ChallengeInv
    <3>2. CASE auth = Auth(r)
      <4>1. auth.audience = h /\ auth.challenge = reader[r].challenge
        BY <1>1, <3>2 DEF Auth
      <4>2. reader[r].challenge <= nonce
        BY DEF HubInv, ChallengeInv
      <4>3. QED
        BY <1>4, <2>2, <2>4, <4>1, <4>2
    <3>3. QED
      BY <1>2, <3>1, <3>2
  <2>6. QED
    BY <2>3, <2>5 DEF ChallengeInv
<1>9. CourierStep
  <2> DEFINE items == {MailOf(env) : env \in {s \in ToSet(Kept(h)) : Received(s)}}
  <2>1. \A i \in items : i \in sent /\ Recipient(i) = Node
    BY <1>4, ReceivedWasSent
  <2>2. handed' = Given(Node, items) /\ sent' = sent
    BY <1>2
  <2> HIDE DEF items
  <2>3. QED
    BY <2>1, <2>2 DEF CourierStep
<1>10. QED
  BY <1>5, <1>6, <1>7, <1>8, <1>9 DEF HubInv

(* A read that is refused is over.                                         *)
LEMMA RefusedKeeps ==
  ASSUME HubInv, NEW r \in Reader, ReadRefused(r)
  PROVE  HubInv' /\ CourierStep
<1>1. /\ reader' = [reader EXCEPT ![r] = NotReading]
      /\ UNCHANGED <<clock, records, queue, challenges, nonce, seen, sent, handed>>
  BY DEF ReadRefused
<1>2. \A q \in Reader : reader'[q] = IF q = r THEN NotReading ELSE reader[q]
  BY <1>1 DEF HubInv, HubTypes
<1>3. HubTypes' /\ RecordsInv' /\ QueueInv'
  BY <1>1 DEF HubInv, HubTypes, RecordsInv, QueueInv, Genuine, VerifyMessage
<1>4. ChallengeInv'
  BY <1>1, <1>2 DEF HubInv, HubTypes, ChallengeInv, NotReading
<1>5. QED
  BY <1>1, <1>3, <1>4 DEF HubInv, CourierStep

(* No answer a faithless hub was given opens the inbox anywhere.           *)
LEMMA NothingToRelay ==
  ASSUME HubInv, NEW h \in Hub, NEW other \in Hub, Relay(h, other)
  PROVE  FALSE
<1>1. PICK auth \in seen : InboxOpens(other, auth)
  BY DEF Relay
<1>2. QED
  BY <1>1 DEF InboxOpens, AudienceIs, HubInv, ChallengeInv

(* A date a hub changes is not the date the seal binds.                    *)
LEMMA RedateKeeps ==
  ASSUME HubInv, NEW h \in Hub, Redate(h)
  PROVE  HubInv' /\ CourierStep
<1>1. PICK i \in DOMAIN queue[h], t \in 0..MaxTime :
        /\ queue' = [queue EXCEPT ![h] =
                       [queue[h] EXCEPT ![i] = [queue[h][i] EXCEPT !.sent_at = t]]]
        /\ UNCHANGED <<clock, records, challenges, nonce, reader, seen, sent, handed>>
  BY DEF Redate
<1>2. queue[h] \in Seq(Envelope) /\ queue[h][i] \in Envelope
  BY DEF HubInv, HubTypes
<1>3. PICK env : env = [queue[h][i] EXCEPT !.sent_at = t]
  OBVIOUS
<1>4. /\ env \in Envelope /\ env.message = queue[h][i].message
      /\ env.bound = queue[h][i].bound
  BY <1>2, <1>3 DEF Envelope
<1>5. PICK q : q = [queue[h] EXCEPT ![i] = env]
  OBVIOUS
<1>6. q \in Seq(Envelope) /\ DOMAIN q = DOMAIN queue[h]
      /\ \A j \in DOMAIN q : q[j] = IF j = i THEN env ELSE queue[h][j]
  BY <1>2, <1>4, <1>5
<1>7. queue' = [queue EXCEPT ![h] = q]
  BY <1>1, <1>3, <1>5
<1>8. HubTypes'
  BY <1>1, <1>6, <1>7 DEF HubInv, HubTypes
<1>9. \A k \in Hub : queue'[k] = IF k = h THEN q ELSE queue[k]
  BY <1>7 DEF HubInv, HubTypes
<1>10. ASSUME NEW k \in Hub, NEW j \in DOMAIN queue'[k]
       PROVE  (Genuine(queue[k][j]))'
  <2>1. j \in DOMAIN queue[k] /\ queue'[k][j].message = queue[k][j].message
        /\ queue'[k][j].bound = queue[k][j].bound
    BY <1>4, <1>6, <1>9
  <2>2. Genuine(queue[k][j])
    BY <2>1 DEF HubInv, QueueInv
  <2>3. QED
    BY <1>1, <2>1, <2>2 DEF Genuine, VerifyMessage
<1>11. QED
  BY <1>1, <1>8, <1>10 DEF HubInv, RecordsInv, QueueInv, ChallengeInv, CourierStep

(* A message a hub makes up does not verify.                               *)
LEMMA ForgeKeeps ==
  ASSUME HubInv, NEW h \in Hub, Forge(h)
  PROVE  HubInv' /\ CourierStep
<1>1. PICK e \in Proposal :
        /\ Deliver(h, SealFor([SignMessage(e, Node) EXCEPT !.sig = h], Node))
        /\ UNCHANGED <<clock, records, challenges, nonce, reader, seen, sent, handed>>
  BY DEF Forge
<1>2. PICK m : m = [SignMessage(e, Node) EXCEPT !.sig = h]
  OBVIOUS
<1>3. m \in Signed /\ m.sender = Proposer[e] /\ m.sig = h
  BY <1>2, HubAssumption DEF SignMessage, Signed, Message
<1>4. ~VerifyMessage(m)
  BY <1>3, HubAssumption DEF VerifyMessage
<1>5. PICK stored : stored = Stored(SealFor(m, Node))
  OBVIOUS
<1>6. stored \in Envelope /\ stored.message = m
  BY <1>3, <1>5 DEF Stored, SealFor, Envelope, HubInv, HubTypes
<1>7. queue' = [queue EXCEPT ![h] = Append(queue[h], stored)]
  BY <1>1, <1>2, <1>5 DEF Deliver
<1>8. (Genuine(stored))'
  BY <1>4, <1>6 DEF Genuine, VerifyMessage
<1>9. queue' \in [Hub -> Seq(Envelope)] /\ QueueInv'
  BY <1>1, <1>6, <1>7, <1>8, DeliverKeeps
<1>10. QED
  BY <1>1, <1>9 DEF HubInv, HubTypes, RecordsInv, ChallengeInv, CourierStep

(* Time passes over the hubs.                                              *)
LEMMA TickKeeps ==
  ASSUME HubInv, Tick
  PROVE  HubInv' /\ CourierStep
<1>1. clock < MaxTime /\ clock' = clock + 1
      /\ UNCHANGED <<records, queue, challenges, nonce, reader, seen, sent, handed>>
  BY DEF Tick, mail
<1>2. clock' \in 0..MaxTime
  BY <1>1, HubAssumption DEF HubInv, HubTypes
<1>3. QED
  BY <1>1, <1>2 DEF HubInv, HubTypes, RecordsInv, QueueInv, Genuine,
                    VerifyMessage, ChallengeInv, CourierStep

(* A new process is in the middle of no read.                              *)
LEMMA RestartHubKeeps ==
  ASSUME HubInv, Restart
  PROVE  HubInv' /\ CourierStep
<1>1. /\ reader' = [r \in Reader |-> NotReading]
      /\ UNCHANGED <<clock, records, queue, challenges, nonce, seen, sent, handed>>
  BY DEF Restart
<1>2. HubTypes' /\ RecordsInv' /\ QueueInv'
  BY <1>1 DEF HubInv, HubTypes, RecordsInv, QueueInv, Genuine, VerifyMessage
<1>3. ChallengeInv'
  BY <1>1 DEF HubInv, HubTypes, ChallengeInv, NotReading
<1>4. QED
  BY <1>1, <1>2, <1>3 DEF HubInv, CourierStep

(* Every step keeps the hubs' invariant and is one a courier may take.     *)
LEMMA StepIsCourierStep ==
  ASSUME HubInv, [Next]_vars
  PROVE  HubInv' /\ CourierStep
<1>1. CASE HubStep
  <2>1. CASE PublishRecord
    BY <2>1, PublishKeeps
  <2>2. ASSUME NEW h \in Hub, PublishFalseRecord(h) PROVE HubInv' /\ CourierStep
    BY <2>2, PublishFalseKeeps
  <2>3. ASSUME NEW e \in Proposal, NEW to \in {Node, Elsewhere},
               DeliverViaInbox(e, to)
        PROVE  HubInv' /\ CourierStep
    BY <2>3, DeliverViaInboxKeeps
  <2>4. ASSUME NEW r \in Reader, NEW h \in Hub, AskChallenge(r, h)
        PROVE  HubInv' /\ CourierStep
    BY <2>4, AskKeeps
  <2>5. ASSUME NEW r \in Reader, ReadRefused(r) PROVE HubInv' /\ CourierStep
    BY <2>5, RefusedKeeps
  <2>6. ASSUME NEW h \in Hub, NEW other \in Hub, Relay(h, other)
        PROVE  HubInv' /\ CourierStep
    BY <2>6, NothingToRelay
  <2>7. ASSUME NEW h \in Hub, Redate(h) PROVE HubInv' /\ CourierStep
    BY <2>7, RedateKeeps
  <2>8. ASSUME NEW h \in Hub, Forge(h) PROVE HubInv' /\ CourierStep
    BY <2>8, ForgeKeeps
  <2>9. QED
    BY <1>1, <2>1, <2>2, <2>3, <2>4, <2>5, <2>6, <2>7, <2>8 DEF HubStep
<1>2. CASE Tick
  BY <1>2, TickKeeps
<1>3. ASSUME NEW r \in Reader, Pull(r) PROVE HubInv' /\ CourierStep
  BY <1>3, ReadKeeps DEF Pull
<1>4. CASE UNCHANGED <<clock, mail>>
  BY <1>4 DEF mail, HubInv, HubTypes, RecordsInv, QueueInv, Genuine,
              VerifyMessage, ChallengeInv, CourierStep
<1>5. CASE Restart
  BY <1>5, RestartHubKeeps
<1>6. ASSUME NEW e \in Proposal, Confirm(e) PROVE HubInv' /\ CourierStep
  BY <1>4, <1>6 DEF Confirm
<1>7. CASE UNCHANGED vars
  BY <1>4, <1>7 DEF vars
<1>8. QED
  BY <1>1, <1>2, <1>3, <1>5, <1>6, <1>7 DEF Next

(* The hubs are a blind courier, whatever the faithless ones among them    *)
(* do: nothing reaches the persona that was not sent to it on that date,   *)
(* and its mail reaches nobody else.  This is the promise of the transport *)
(* port, and it rests on the signed inbox record, the date bound into the  *)
(* seal, the message's own signature and the audience of a signed          *)
(* challenge (hub-transport.ts, addressing.ts, hub.ts).                    *)
THEOREM HubsAreBlind ==
  Spec => BlindCourier
<1>1. Init => HubInv
  BY HubStarts DEF Init
<1>2. HubInv /\ [Next]_vars => HubInv'
  BY StepIsCourierStep
<1>3. Init => TheCourier!Init
  BY DEF Init, HubInit, TheCourier!Init, Given
<1>4. HubInv /\ [Next]_vars => [TheCourier!Next]_<<sent, handed>>
  <2> SUFFICES ASSUME HubInv, [Next]_vars PROVE [TheCourier!Next]_<<sent, handed>>
    OBVIOUS
  <2>1. CourierStep
    BY StepIsCourierStep
  <2>2. CASE UNCHANGED <<sent, handed>>
    BY <2>2
  <2>3. ASSUME NEW i \in Dated, sent' = sent \cup {i}, handed' = handed
        PROVE  TheCourier!Next
    BY <2>3 DEF TheCourier!Next, TheCourier!Send
  <2>4. ASSUME NEW p \in {Node} \cup Hub, NEW items \in SUBSET sent,
               \A i \in items : Recipient(i) = p,
               handed' = Given(p, items), sent' = sent
        PROVE  TheCourier!Next
    BY <2>4 DEF TheCourier!Next, TheCourier!Hand, Given
  <2>5. QED
    BY <2>1, <2>2, <2>3, <2>4 DEF CourierStep
<1>5. QED
  BY <1>1, <1>2, <1>3, <1>4, PTL DEF Spec, BlindCourier, TheCourier!Spec

-----------------------------------------------------------------------------
(* The budget.                                                             *)

Books ==
  [edges : SUBSET Proposal,
   budget : [recent : [Sender -> SUBSET Spending], surfacedLevelZero : Nat],
   surfaced : SUBSET Spending]

EdgesOf(S) == {x.edge : x \in S}

InWindow(S, s, t) ==
  {x \in S : Proposer[x.edge] = s /\ x.at \in t..(t + windowMs - 1)}

(* The books of a process at an instant: what is spent is what surfaced,   *)
(* and what the sender's list still counts is what surfaced of it in the   *)
(* last windowMs, so that an allowance asked of the list is one of the     *)
(* window.                                                                 *)
Balanced(st, now) ==
  /\ st \in Books /\ IsFiniteSet(st.surfaced)
  /\ EdgesOf(st.surfaced) \subseteq st.edges
  /\ st.budget.surfacedLevelZero = Cardinality(EdgesOf(st.surfaced))
  /\ st.budget.surfacedLevelZero <= levelZeroCap
  /\ \A x \in st.surfaced : x.at <= now
  /\ \A s \in Sender : st.budget.recent[s] \subseteq st.surfaced
  /\ \A x \in st.surfaced :
       now - x.at < windowMs => x \in st.budget.recent[Proposer[x.edge]]
  /\ \A s \in Sender, t \in 0..MaxTime :
       Cardinality(InWindow(st.surfaced, s, t)) <= perUnknownSenderLimit

(* Subsets of what surfaced, and their sizes.                              *)
LEMMA SurfacedIsFinite ==
  ASSUME NEW st, NEW now, Balanced(st, now)
  PROVE  /\ IsFiniteSet(EdgesOf(st.surfaced))
         /\ \A T \in SUBSET st.surfaced : IsFiniteSet(T) /\ Cardinality(T) \in Nat
<1> DEFINE S == st.surfaced
           f == [x \in S |-> x.edge]
<1>1. IsFiniteSet(S)
  BY DEF Balanced
<1>2. f \in Surjection(S, EdgesOf(S))
  BY DEF Surjection, EdgesOf
<1>3. IsFiniteSet(EdgesOf(S))
  BY <1>1, <1>2, FS_Surjection
<1>4. \A T \in SUBSET S : IsFiniteSet(T) /\ Cardinality(T) \in Nat
  BY <1>1, FS_Subset, FS_CardinalityType
<1>5. QED
  BY <1>3, <1>4

(* A proposal let in on the budget keeps the books balanced.               *)
LEMMA SpendBalances ==
  ASSUME NEW st, clock \in 0..MaxTime, Balanced(st, clock),
         NEW e \in Proposal, e \notin st.edges, Admits(st.budget, Proposer[e])
  PROVE  Balanced([edges |-> st.edges \cup {e}, budget |-> Spend(st.budget, e),
                   surfaced |-> st.surfaced
                                  \cup ([at : {clock}, edge : {e} \ st.edges])],
                  clock)
<1>1. PICK x : x = [at |-> clock, edge |-> e]
  OBVIOUS
<1>2. x \in Spending /\ x.at = clock /\ x.edge = e /\ x \notin st.surfaced
  BY <1>1 DEF Spending, Balanced, EdgesOf
<1> DEFINE S == st.surfaced
           U == S \cup {x}
           b == st.budget
           p == Proposer[e]
           near == Recent(b, p)
           spent == Spend(b, e)
<1>3. [at : {clock}, edge : {e} \ st.edges] = {x}
  <2>1. {e} \ st.edges = {e}
    OBVIOUS
  <2>2. ASSUME NEW y \in [at : {clock}, edge : {e}] PROVE y = x
    <3>1. y = [at |-> y.at, edge |-> y.edge] /\ y.at = clock /\ y.edge = e
      OBVIOUS
    <3>2. QED
      BY <1>1, <3>1
  <2>3. x \in [at : {clock}, edge : {e}]
    BY <1>1
  <2>4. QED
    BY <2>1, <2>2, <2>3
<1>4. /\ p \in Sender /\ S \subseteq Spending /\ st.edges \subseteq Proposal
      /\ b.recent \in [Sender -> SUBSET Spending] /\ b.surfacedLevelZero \in Nat
  BY HubAssumption DEF Balanced, Books
<1>5. /\ spent.recent = [b.recent EXCEPT ![p] = near \cup {x}]
      /\ spent.surfacedLevelZero = b.surfacedLevelZero + 1
      /\ spent = [recent |-> spent.recent,
                  surfacedLevelZero |-> spent.surfacedLevelZero]
  BY <1>1 DEF Spend
<1>6. near \subseteq b.recent[p] /\ near \subseteq S
  BY <1>4 DEF Recent, Balanced
<1>7. \A s \in Sender : spent.recent[s] = IF s = p THEN near \cup {x}
                                          ELSE b.recent[s]
  BY <1>4, <1>5
<1>8. PICK new : new = [edges |-> st.edges \cup {e}, budget |-> spent, surfaced |-> U]
  OBVIOUS
<1> HIDE DEF spent, near
<1>9. /\ new.edges = st.edges \cup {e} /\ new.budget = spent /\ new.surfaced = U
  BY <1>8
<1>10. new \in Books
  <2>1. spent.recent \in [Sender -> SUBSET Spending]
    BY <1>2, <1>4, <1>5, <1>6
  <2>2. spent \in [recent : [Sender -> SUBSET Spending], surfacedLevelZero : Nat]
    BY <1>4, <1>5, <2>1
  <2>3. QED
    BY <1>2, <1>4, <1>8, <2>2 DEF Books
<1>11. IsFiniteSet(S) /\ IsFiniteSet(U)
  BY FS_AddElement DEF Balanced
<1>12. /\ EdgesOf(U) = EdgesOf(S) \cup {e} /\ e \notin EdgesOf(S)
       /\ EdgesOf(U) \subseteq new.edges
  BY <1>2, <1>9 DEF EdgesOf, Balanced
<1>13. /\ new.budget.surfacedLevelZero = Cardinality(EdgesOf(U))
       /\ new.budget.surfacedLevelZero <= levelZeroCap
  <2>1. Cardinality(EdgesOf(U)) = Cardinality(EdgesOf(S)) + 1
    BY <1>12, SurfacedIsFinite, FS_AddElement
  <2>2. b.surfacedLevelZero < levelZeroCap
        /\ b.surfacedLevelZero = Cardinality(EdgesOf(S))
    BY DEF Admits, Balanced
  <2>3. QED
    BY <1>4, <1>5, <1>9, <2>1, <2>2, BudgetAssumption
<1>14. \A y \in U : y.at <= clock
  BY <1>2 DEF Balanced
<1>15. \A s \in Sender : new.budget.recent[s] \subseteq U
  BY <1>6, <1>7, <1>9 DEF Balanced
<1>16. ASSUME NEW y \in U, clock - y.at < windowMs
       PROVE  y \in new.budget.recent[Proposer[y.edge]]
  <2>1. Proposer[y.edge] \in Sender
    BY <1>2, <1>4, HubAssumption DEF Spending
  <2>2. CASE y = x
    BY <1>2, <1>7, <1>9, <2>1, <2>2
  <2>3. CASE y \in S
    <3>1. y \in b.recent[Proposer[y.edge]]
      BY <1>16, <2>3 DEF Balanced
    <3>2. Proposer[y.edge] = p => y \in near
      BY <1>16, <3>1 DEF near, Recent
    <3>3. QED
      BY <1>7, <1>9, <2>1, <3>1, <3>2
  <2>4. QED
    BY <2>2, <2>3
<1>17. ASSUME NEW s \in Sender, NEW t \in 0..MaxTime
       PROVE  Cardinality(InWindow(U, s, t)) <= perUnknownSenderLimit
  <2> DEFINE W == InWindow(S, s, t)
  <2>1. Cardinality(W) <= perUnknownSenderLimit
    BY DEF Balanced
  <2>2. W \subseteq S /\ IsFiniteSet(W)
    BY SurfacedIsFinite DEF InWindow
  <2>3. CASE s = p /\ clock \in t..(t + windowMs - 1)
    <3>1. W \subseteq near
      <4>1. SUFFICES ASSUME NEW y \in W PROVE y \in near
        OBVIOUS
      <4>2. y \in S /\ Proposer[y.edge] = p /\ y.at \in t..(t + windowMs - 1)
        BY <2>3 DEF InWindow
      <4>3. clock - y.at < windowMs
        BY <2>3, <4>2, BudgetAssumption, HubAssumption
      <4>4. y \in b.recent[p]
        BY <4>2, <4>3 DEF Balanced
      <4>5. QED
        BY <4>3, <4>4 DEF near, Recent
    <3>2. IsFiniteSet(near) /\ Cardinality(near) \in Nat
      BY <1>6, SurfacedIsFinite
    <3>3. Cardinality(W) \in Nat /\ Cardinality(W) <= Cardinality(near)
      BY <2>2, <3>1, <3>2, FS_Subset, FS_CardinalityType
    <3>4. Cardinality(near) < perUnknownSenderLimit
      BY DEF Admits, near
    <3>5. InWindow(U, s, t) = W \cup {x} /\ x \notin W
      BY <1>2, <2>2, <2>3 DEF InWindow
    <3>6. Cardinality(InWindow(U, s, t)) = Cardinality(W) + 1
      BY <2>2, <3>5, FS_AddElement
    <3>7. QED
      BY <3>2, <3>3, <3>4, <3>6, BudgetAssumption
  <2>4. CASE ~(s = p /\ clock \in t..(t + windowMs - 1))
    <3>1. InWindow(U, s, t) = W
      BY <1>2, <2>4 DEF InWindow
    <3>2. QED
      BY <2>1, <3>1
  <2>5. QED
    BY <2>3, <2>4
<1>18. Balanced(new, clock)
  BY <1>9, <1>10, <1>11, <1>12, <1>13, <1>14, <1>15, <1>16, <1>17 DEF Balanced
<1>19. QED
  BY <1>3, <1>8, <1>18 DEF spent

(* One proposal of a read: held already, from somebody known, suppressed   *)
(* or let in on the budget.                                                *)
LEMMA IngestBalances ==
  ASSUME clock \in 0..MaxTime, NEW st, Balanced(st, clock), NEW m \in Signed
  PROVE  Balanced(IngestPropose(st, m), clock)
<1>1. m.edge \in Proposal /\ m.sender = Proposer[m.edge]
  BY DEF Signed, Message
<1>2. CASE m.edge \in st.edges
  BY <1>2 DEF IngestPropose, AlreadyHeld
<1>3. CASE m.edge \notin st.edges /\ ~LevelZero(m.sender)
  <2>1. PICK new : new = [st EXCEPT !.edges = @ \cup {m.edge}]
    OBVIOUS
  <2>2. IngestPropose(st, m) = new
    BY <1>3, <2>1 DEF IngestPropose, AlreadyHeld
  <2>3. /\ new \in Books /\ new.edges = st.edges \cup {m.edge}
        /\ new.budget = st.budget /\ new.surfaced = st.surfaced
    BY <1>1, <2>1 DEF Balanced, Books
  <2>4. QED
    BY <2>2, <2>3 DEF Balanced
<1>4. CASE m.edge \notin st.edges /\ LevelZero(m.sender)
           /\ ~Admits(st.budget, m.sender)
  BY <1>4 DEF IngestPropose, AlreadyHeld
<1>5. CASE m.edge \notin st.edges /\ LevelZero(m.sender)
           /\ Admits(st.budget, m.sender)
  <2>1. PICK e \in Proposal : e = m.edge
    BY <1>1
  <2>2. IngestPropose(st, m) =
          [edges |-> st.edges \cup {e}, budget |-> Spend(st.budget, e),
           surfaced |-> st.surfaced \cup ([at : {clock}, edge : {e} \ st.edges])]
    BY <1>5, <2>1 DEF IngestPropose, AlreadyHeld
  <2>3. QED
    BY <1>1, <1>5, <2>1, <2>2, SpendBalances
<1>6. QED
  BY <1>2, <1>3, <1>4, <1>5

OnTheBooks == [edges |-> edges, budget |-> budget, surfaced |-> surfaced]

(* A whole read, however long and however often it repeats itself.         *)
LEMMA ReadBalances ==
  ASSUME clock \in 0..MaxTime, Balanced(OnTheBooks, clock),
         NEW envelopes \in Seq(Envelope)
  PROVE  Balanced(Ingest(envelopes), clock)
<1> DEFINE N == Len(envelopes)
           V == {st \in Books : Balanced(st, clock)}
           Turn(i, st) == IF Received(envelopes[i])
                          THEN IngestPropose(st, envelopes[i].message) ELSE st
           Rec(f) == [i \in 0..N |->
             IF i = 0 THEN OnTheBooks
             ELSE IF Received(envelopes[i])
             THEN IngestPropose(f[i - 1], envelopes[i].message) ELSE f[i - 1]]
           after == CHOOSE f : f = Rec(f)
<1>1. N \in Nat /\ \A i \in 1..N : envelopes[i].message \in Signed
  <2>1. N \in Nat /\ \A i \in 1..N : envelopes[i] \in Envelope
    OBVIOUS
  <2>2. \A env \in Envelope : env.message \in Signed
    BY DEF Envelope
  <2>3. QED
    BY <2>1, <2>2
<1>2. OnTheBooks \in V
  BY DEF Balanced
<1>3. ASSUME NEW i \in 1..N, NEW st \in V PROVE Turn(i, st) \in V
  <2>1. Balanced(st, clock) /\ envelopes[i].message \in Signed
    BY <1>1
  <2>2. Balanced(IngestPropose(st, envelopes[i].message), clock)
    BY <2>1, IngestBalances
  <2>3. \A u : Balanced(u, clock) => u \in V
    BY DEF Balanced
  <2> HIDE DEF V
  <2>4. QED
    BY <2>2, <2>3
<1> HIDE DEF V
<1>4. \E f : f = Rec(f)
  <2> DEFINE G == [p \in (1..N) \X V |-> Turn(p[1], p[2])]
  <2>1. G \in [(1..N) \X V -> V]
    <3> HIDE DEF Turn, N
    <3>1. QED
      BY <1>3
  <2>2. PICK f \in Course(N, V, OnTheBooks, G) : TRUE
    <3> HIDE DEF G, N
    <3>1. Course(N, V, OnTheBooks, G) # {}
      BY <1>1, <1>2, <2>1, LoopRuns
    <3>2. QED
      BY <3>1
  <2>3. f \in [0..N -> V] /\ f[0] = OnTheBooks
        /\ \A i \in 1..N : f[i] = G[<<i, f[i - 1]>>]
    <3> HIDE DEF G, N
    <3>1. QED
      BY <2>2 DEF Course
  <2>4. ASSUME NEW i \in 0..N PROVE f[i] = Rec(f)[i]
    <3>1. CASE i = 0
      BY <2>3, <3>1
    <3>2. CASE i # 0
      <4>1. i \in 1..N /\ i - 1 \in 0..N
        BY <1>1, <3>2
      <4>2. <<i, f[i - 1]>> \in (1..N) \X V
        BY <2>3, <4>1
      <4>3. G[<<i, f[i - 1]>>] = Turn(i, f[i - 1])
        <5> HIDE DEF Turn, N
        <5>1. QED
          BY <4>2
      <4>4. QED
        BY <2>3, <3>2, <4>1, <4>3
    <3>3. QED
      BY <3>1, <3>2
  <2>5. f = Rec(f)
    <3>1. f = [i \in 0..N |-> f[i]]
      BY <2>3
    <3>2. QED
      BY <2>4, <3>1
  <2>6. QED
    BY <2>5
<1>5. after = Rec(after)
  BY <1>4
<1>6. Ingest(envelopes) = after[N]
  BY DEF Ingest, OnTheBooks
<1> HIDE DEF after
<1>7. after[0] = OnTheBooks /\ \A i \in 1..N : after[i] = Turn(i, after[i - 1])
  <2>1. \A i \in 0..N : after[i] = Rec(after)[i]
    BY <1>5
  <2>2. 0 \in 0..N /\ \A i \in 1..N : i \in 0..N /\ i # 0
    BY <1>1
  <2> HIDE DEF N
  <2>3. QED
    BY <2>1, <2>2
<1>8. \A i \in 0..N : after[i] \in V
  <2>1. after[0] \in V /\ \A i \in 1..N : after[i - 1] \in V => after[i] \in V
    <3> HIDE DEF Turn, N
    <3>1. QED
      BY <1>2, <1>3, <1>7
  <2>2. QED
    BY <1>1, <2>1, LoopKeeps
<1>9. QED
  BY <1>1, <1>6, <1>8 DEF V

(* The books of a process that has let nothing in.                         *)
LEMMA FreshBalances ==
  ASSUME NEW E \in SUBSET Proposal, NEW now
  PROVE  Balanced([edges |-> E, budget |-> NoneSpent, surfaced |-> {}], now)
<1>1. PICK st : st = [edges |-> E, budget |-> NoneSpent, surfaced |-> {}]
  OBVIOUS
<1>2. /\ NoneSpent.recent = [s \in Sender |-> {}] /\ NoneSpent.surfacedLevelZero = 0
      /\ NoneSpent \in [recent : [Sender -> SUBSET Spending],
                        surfacedLevelZero : Nat]
  BY DEF NoneSpent
<1>3. st \in Books /\ st.budget = NoneSpent /\ st.surfaced = {} /\ st.edges = E
  BY <1>1, <1>2 DEF Books
<1>4. IsFiniteSet({}) /\ Cardinality({}) = 0
  BY FS_EmptySet
<1>5. EdgesOf({}) = {} /\ \A s, t : InWindow({}, s, t) = {}
  BY DEF EdgesOf, InWindow
<1>6. Balanced(st, now)
  BY <1>2, <1>3, <1>4, <1>5, BudgetAssumption DEF Balanced
<1>7. QED
  BY <1>1, <1>6

(* Balanced books stay balanced as time passes: a window only closes.      *)
LEMMA LaterBalances ==
  ASSUME NEW st, NEW now \in Nat, NEW later \in Nat, now <= later,
         Balanced(st, now)
  PROVE  Balanced(st, later)
<1>1. \A x \in st.surfaced : x.at \in Nat
  BY HubAssumption DEF Balanced, Books, Spending
<1>2. \A x \in st.surfaced : x.at <= later
  BY <1>1 DEF Balanced
<1>3. \A x \in st.surfaced :
        later - x.at < windowMs => x \in st.budget.recent[Proposer[x.edge]]
  BY <1>1, BudgetAssumption DEF Balanced
<1>4. QED
  BY <1>2, <1>3 DEF Balanced

BudgetInv == HubInv /\ Balanced(OnTheBooks, clock)

(* The budget's invariant at the start.                                    *)
LEMMA BudgetStarts ==
  Init => BudgetInv
<1> SUFFICES ASSUME Init PROVE BudgetInv
  OBVIOUS
<1>1. HubInv
  BY HubStarts DEF Init
<1>2. Balanced([edges |-> {}, budget |-> NoneSpent, surfaced |-> {}], clock)
  BY FreshBalances
<1>3. QED
  BY <1>1, <1>2 DEF Init, BudgetInv, OnTheBooks

(* Every step keeps the books balanced.                                    *)
LEMMA BudgetKept ==
  ASSUME BudgetInv, [Next]_vars
  PROVE  BudgetInv'
<1>1. HubInv /\ HubInv' /\ clock \in 0..MaxTime /\ clock' \in 0..MaxTime
      /\ Balanced(OnTheBooks, clock)
  BY StepIsCourierStep DEF BudgetInv, HubInv, HubTypes
<1>2. ASSUME NEW st, st = OnTheBooks', Balanced(st, clock')
      PROVE  BudgetInv'
  BY <1>1, <1>2 DEF BudgetInv
<1>3. PICK old : old = OnTheBooks
  OBVIOUS
<1>4. CASE /\ edges' = edges /\ budget' = budget /\ surfaced' = surfaced
           /\ clock <= clock'
  <2>1. Balanced(old, clock)
    BY <1>1, <1>3
  <2>2. clock \in Nat /\ clock' \in Nat
    BY <1>1, HubAssumption
  <2>3. Balanced(old, clock')
    BY <1>4, <2>1, <2>2, LaterBalances
  <2>4. old = OnTheBooks'
    BY <1>3, <1>4 DEF OnTheBooks
  <2>5. QED
    BY <1>2, <1>4, <2>3, <2>4
<1>5. CASE (HubStep \/ Tick) /\ UNCHANGED <<edges, confirmed, budget, surfaced>>
  <2>1. clock <= clock'
    <3>1. HubStep => clock' = clock
      BY DEF HubStep, PublishRecord, PublishFalseRecord, DeliverViaInbox,
             AskChallenge, ReadRefused, Relay, Redate, Forge
    <3>2. Tick => clock' = clock + 1
      BY DEF Tick
    <3>3. QED
      BY <1>1, <1>5, <3>1, <3>2, HubAssumption
  <2>2. QED
    BY <1>1, <1>4, <1>5, <2>1
<1>6. ASSUME NEW r \in Reader, Pull(r) PROVE BudgetInv'
  <2>1. PICK h \in Hub : h = reader[r].hub
    BY <1>1, <1>6 DEF Pull, ReadInbox, HubInv, HubTypes, Inquiry
  <2>2. PICK after : after = Ingest(Kept(h))
    OBVIOUS
  <2>3. /\ edges' = after.edges /\ budget' = after.budget
        /\ surfaced' = after.surfaced /\ clock' = clock
    BY <1>6, <2>1, <2>2 DEF Pull, ReadInbox
  <2>4. Balanced(after, clock)
    BY <1>1, <2>2, KeptIsGenuine, ReadBalances
  <2>5. after = OnTheBooks'
    BY <2>3, <2>4 DEF Balanced, Books, OnTheBooks
  <2>6. QED
    BY <1>2, <2>3, <2>4, <2>5
<1>7. ASSUME NEW e \in Proposal, Confirm(e) PROVE BudgetInv'
  BY <1>1, <1>4, <1>7, HubAssumption DEF Confirm
<1>8. CASE Restart
  <2>1. edges' = edges /\ budget' = NoneSpent /\ surfaced' = {}
    BY <1>8 DEF Restart
  <2>2. PICK new : new = [edges |-> edges, budget |-> NoneSpent, surfaced |-> {}]
    OBVIOUS
  <2>3. edges \in SUBSET Proposal
    BY <1>1 DEF Balanced, Books, OnTheBooks
  <2>4. Balanced(new, clock')
    BY <2>2, <2>3, FreshBalances
  <2>5. new = OnTheBooks'
    BY <2>1, <2>2 DEF OnTheBooks
  <2>6. QED
    BY <1>2, <2>4, <2>5
<1>9. CASE UNCHANGED vars
  BY <1>1, <1>4, <1>9, HubAssumption DEF vars
<1>10. QED
  BY <1>5, <1>6, <1>7, <1>8, <1>9 DEF Next

(* The budget counts proposals and not deliveries, and what a process lets *)
(* in of strangers stays within the cap and, in every window, within the   *)
(* sender's allowance, however the hubs repeat their queues and the clock  *)
(* runs (ProposalBudget, inbox.ts ingestPropose).                          *)
THEOREM BudgetIsKept ==
  Spec => []BudgetCountsProposals
<1>1. BudgetInv => BudgetCountsProposals
  BY DEF BudgetInv, Balanced, OnTheBooks, BudgetCountsProposals, EdgesOf, InWindow
<1>2. BudgetInv /\ [Next]_vars => BudgetInv'
  BY BudgetKept
<1>3. QED
  BY <1>1, <1>2, BudgetStarts, PTL DEF Spec
=============================================================================
