------------------------- MODULE GitTransport_proofs -------------------------
(***************************************************************************)
(* Theorems about the git courier, for any number of parties and items,    *)
(* any directories and clocks, and syncs in any order.                     *)
(***************************************************************************)
EXTENDS GitTransport, FiniteSetTheorems, TLAPS

-----------------------------------------------------------------------------
(* Messages and files.                                                     *)

(* What a party sends: a proposal is dated when it was queued.             *)
Sent ==
  {m \in Message : Type[m.item] = "propose" =>
                     m.sent_at = CHOOSE u \in Instant[Sender[m.item]] : TRUE}

NumberedFile == [dir : {DirOf[i] : i \in Item}, seq : Nat, message : Sent]

InDir(t, d) == {f \in t : f.dir = d}

(* A tree in which no number is beyond the count of its directory and no   *)
(* message is filed twice.                                                 *)
Orderly(t) ==
  /\ t \subseteq NumberedFile /\ IsFiniteSet(t)
  /\ \A f \in t : f.seq <= Cardinality(InDir(t, f.dir))
  /\ \A f, g \in t : f.message = g.message => f = g

(* A set of naturals that is not empty has a least member.                 *)
LEMMA LeastNatural ==
  ASSUME NEW T, T \subseteq Nat, T # {}
  PROVE  \E n \in T : \A m \in T : n <= m
<1>1. IsWellFoundedOn(OpToRel(<, Nat), Nat)
  BY NatLessThanWellFounded, Zenon
<1>2. PICK n \in T : \A m \in T : ~(<<m, n>> \in OpToRel(<, Nat))
  BY <1>1, WFMin, Zenon
<1>3. \A m \in T : ~(m < n)
  BY <1>2, Zenon DEF OpToRel
<1>4. QED
  BY <1>3

(* A message is an item of some party and a reading of that party's clock. *)
LEMMA MessageShape ==
  ASSUME NEW m \in Message
  PROVE  m.item \in Item /\ m.sent_at \in Instant[Sender[m.item]]
         /\ m = [item |-> m.item, sent_at |-> m.sent_at]
<1>1. PICK i \in Item : m \in [item : {i}, sent_at : Instant[Sender[i]]]
  BY DEF Message
<1>2. QED
  BY <1>1

(* What is signed is sent.                                                 *)
LEMMA SignedIsSent ==
  ASSUME NEW i \in Item, NEW t \in Instant[Sender[i]]
  PROVE  SignedAt(i, t) \in Sent
<1>1. Instant[Sender[i]] # {}
  BY GitAssumption
<1>2. (CHOOSE u \in Instant[Sender[i]] : TRUE) \in Instant[Sender[i]]
  BY <1>1
<1>3. SignedAt(i, t) \in [item : {i}, sent_at : Instant[Sender[i]]]
  BY <1>2 DEF SignedAt
<1>4. QED
  BY <1>3 DEF SignedAt, Sent, Message

(* Two messages that carry one proposal are one.                           *)
LEMMA ProposalIsOneMessage ==
  ASSUME NEW m \in Sent, NEW n \in Sent, m.item = n.item, Type[m.item] = "propose"
  PROVE  m = n
BY MessageShape DEF Sent

(* Placing a message keeps a tree orderly and takes nothing from it: the   *)
(* next number of the directory is free.                                   *)
LEMMA PlaceKeeps ==
  ASSUME NEW t, Orderly(t), NEW m \in Sent
  PROVE  Orderly(Place(t, m)) /\ t \subseteq Place(t, m)
<1>1. CASE \E f \in t : f.message = m
  BY <1>1 DEF Place
<1>2. CASE ~\E f \in t : f.message = m
  <2> DEFINE d == DirOf[m.item]
             next == NextFile(t, m)
             u == t \cup {next}
  <2>1. m.item \in Item
    BY MessageShape DEF Sent
  <2>2. \A e : InDir(t, e) \subseteq t /\ IsFiniteSet(InDir(t, e))
               /\ Cardinality(InDir(t, e)) \in Nat
    BY FS_Subset, FS_CardinalityType DEF Orderly, InDir
  <2>3. /\ next.dir = d /\ next.message = m
        /\ next.seq = Cardinality(InDir(t, d)) + 1
        /\ next \in NumberedFile
    <3>1. next = [dir |-> d, message |-> m, seq |-> Cardinality(InDir(t, d)) + 1]
      BY DEF NextFile, InDir
    <3>2. Cardinality(InDir(t, d)) + 1 \in Nat
      BY <2>2
    <3>3. QED
      BY <2>1, <3>1, <3>2 DEF NumberedFile
  <2>4. next \notin t
    BY <1>2, <2>3
  <2> HIDE DEF next
  <2>5. Named(t, next) = {}
    <3>1. ASSUME NEW g \in t, SameName(g, next) PROVE FALSE
      <4>1. g.dir = d /\ g.seq = Cardinality(InDir(t, d)) + 1 /\ g.seq \in Nat
        BY <2>3, <3>1 DEF SameName, Orderly, NumberedFile
      <4>2. g.seq <= Cardinality(InDir(t, d))
        BY <4>1 DEF Orderly
      <4>3. QED
        BY <2>2, <4>1, <4>2
    <3>2. QED
      BY <3>1 DEF Named
  <2>6. Place(t, m) = u
    BY <1>2, <2>5 DEF Place, Write, next
  <2>7. IsFiniteSet(u)
    BY FS_AddElement DEF Orderly
  <2>8. \A e : IsFiniteSet(InDir(u, e)) /\ Cardinality(InDir(u, e)) \in Nat
               /\ Cardinality(InDir(t, e)) <= Cardinality(InDir(u, e))
    <3>1. \A e : InDir(u, e) \subseteq u /\ InDir(t, e) \subseteq InDir(u, e)
      BY DEF InDir
    <3>2. QED
      BY <2>7, <3>1, FS_Subset, FS_CardinalityType
  <2>9. Cardinality(InDir(u, d)) = Cardinality(InDir(t, d)) + 1
    <3>1. InDir(u, d) = InDir(t, d) \cup {next} /\ next \notin InDir(t, d)
      BY <2>3, <2>4 DEF InDir
    <3>2. QED
      BY <2>2, <3>1, FS_AddElement
  <2>10. ASSUME NEW f \in u PROVE f.seq <= Cardinality(InDir(u, f.dir))
    <3>1. CASE f \in t
      <4>1. f.seq \in Nat /\ f.seq <= Cardinality(InDir(t, f.dir))
        BY <3>1 DEF Orderly, NumberedFile
      <4>2. QED
        BY <2>2, <2>8, <4>1
    <3>2. CASE f = next
      BY <2>2, <2>3, <2>9, <3>2
    <3>3. QED
      BY <2>10, <3>1, <3>2
  <2>11. \A f, g \in u : f.message = g.message => f = g
    BY <1>2, <2>3 DEF Orderly
  <2>12. u \subseteq NumberedFile
    BY <2>3 DEF Orderly
  <2>13. QED
    BY <2>6, <2>7, <2>10, <2>11, <2>12 DEF Orderly
<1>3. QED
  BY <1>1, <1>2

(* Placing message after message is defined by its recursion: a function   *)
(* that follows it to each length extends to the next.                     *)
LEMMA PlacingFollowsRecursion ==
  ASSUME NEW s, NEW N \in Nat, N = Len(pending[s])
  PROVE  \E f : f = [i \in 0..N |->
            IF i = 0 THEN Working(s)
            ELSE IF pending[s][i] \in placed[s] THEN f[i - 1]
            ELSE Place(f[i - 1], pending[s][i])]
<1> DEFINE Follows(f, n) == f = [i \in 0..n |->
            IF i = 0 THEN Working(s)
            ELSE IF pending[s][i] \in placed[s] THEN f[i - 1]
            ELSE Place(f[i - 1], pending[s][i])]
           bad == {n \in 0..N : ~\E f : Follows(f, n)}
<1>1. SUFFICES bad = {}
  BY DEF bad
<1>2. SUFFICES ASSUME bad # {} PROVE FALSE
  OBVIOUS
<1>3. bad \subseteq Nat
  OBVIOUS
<1>4. PICK n \in bad : \A k \in bad : n <= k
  <2> HIDE DEF bad
  <2>1. QED
    BY <1>2, <1>3, LeastNatural
<1>5. n \in 0..N /\ ~\E f : Follows(f, n)
  OBVIOUS
<1>6. CASE n = 0
  <2> DEFINE f == [i \in 0..0 |-> Working(s)]
  <2>1. Follows(f, 0)
    OBVIOUS
  <2>2. QED
    BY <1>5, <1>6, <2>1
<1>7. CASE n # 0
  <2>1. n - 1 \in 0..N /\ n - 1 \notin bad
    BY <1>4, <1>5, <1>7
  <2>2. PICK f : Follows(f, n - 1)
    BY <2>1
  <2> DEFINE g == [i \in 0..n |->
               IF i = n THEN IF pending[s][n] \in placed[s] THEN f[n - 1]
                             ELSE Place(f[n - 1], pending[s][n])
               ELSE f[i]]
             h == [i \in 0..n |->
               IF i = 0 THEN Working(s)
               ELSE IF pending[s][i] \in placed[s] THEN g[i - 1]
               ELSE Place(g[i - 1], pending[s][i])]
  <2>3. ASSUME NEW i \in 0..n PROVE g[i] = h[i]
    <3>1. CASE i = n
      <4>1. n - 1 \in 0..n /\ n - 1 # n
        BY <1>5, <1>7
      <4>2. g[n - 1] = f[n - 1]
        BY <4>1
      <4>3. QED
        BY <1>7, <3>1, <4>2
    <3>2. CASE i # n
      <4>1. i \in 0..(n - 1)
        BY <1>5, <2>3, <3>2
      <4>2. g[i] = f[i]
        BY <3>2
      <4>3. f[i] = IF i = 0 THEN Working(s)
                   ELSE IF pending[s][i] \in placed[s] THEN f[i - 1]
                   ELSE Place(f[i - 1], pending[s][i])
        BY <2>2, <4>1
      <4>4. i # 0 => g[i - 1] = f[i - 1]
        <5>1. i # 0 => i - 1 \in 0..n /\ i - 1 # n
          BY <1>5, <4>1
        <5>2. QED
          BY <5>1
      <4>5. QED
        BY <4>2, <4>3, <4>4
    <3>3. QED
      BY <3>1, <3>2
  <2>4. g = h
    <3> HIDE DEF g
    <3>1. g = [i \in 0..n |-> g[i]]
      BY DEF g
    <3>2. QED
      BY <2>3, <3>1
  <2>5. Follows(g, n)
    BY <2>4
  <2>6. QED
    BY <1>5, <2>5
<1>8. QED
  BY <1>6, <1>7

(* So the clone's directory is orderly after any number of messages, and   *)
(* still has what it had.                                                  *)
LEMMA AfterPlacingKeeps ==
  ASSUME NEW s, pending[s] \in Seq(Sent), Orderly(Working(s)),
         NEW n \in 0..Len(pending[s])
  PROVE  Orderly(AfterPlacing(s, n)) /\ Working(s) \subseteq AfterPlacing(s, n)
<1> DEFINE N == Len(pending[s])
           Rec(f) == [i \in 0..N |->
            IF i = 0 THEN Working(s)
            ELSE IF pending[s][i] \in placed[s] THEN f[i - 1]
            ELSE Place(f[i - 1], pending[s][i])]
           after == CHOOSE f : f = Rec(f)
           Good(i) == Orderly(after[i]) /\ Working(s) \subseteq after[i]
           bad == {i \in 0..N : ~Good(i)}
<1>0. N \in Nat /\ \A i \in 1..N : pending[s][i] \in Sent
  OBVIOUS
<1>1. after = Rec(after)
  <2>1. \E f : f = Rec(f)
    BY <1>0, PlacingFollowsRecursion
  <2>2. QED
    BY <2>1
<1>2. AfterPlacing(s, n) = after[n]
  BY DEF AfterPlacing
<1>3. \A i \in 0..N :
        after[i] = IF i = 0 THEN Working(s)
                   ELSE IF pending[s][i] \in placed[s] THEN after[i - 1]
                   ELSE Place(after[i - 1], pending[s][i])
  <2> HIDE DEF after
  <2>1. QED
    BY <1>1
<1> HIDE DEF after
<1>4. bad = {}
  <2>1. SUFFICES ASSUME bad # {} PROVE FALSE
    OBVIOUS
  <2>2. bad \subseteq Nat
    BY <1>0
  <2>3. PICK k \in bad : \A j \in bad : k <= j
    <3> HIDE DEF bad
    <3>1. QED
      BY <2>1, <2>2, LeastNatural
  <2>4. k \in 0..N /\ ~Good(k)
    OBVIOUS
  <2>5. k # 0
    BY <1>0, <1>3, <2>4
  <2>6. k - 1 \in 0..N /\ k - 1 \notin bad
    BY <1>0, <2>3, <2>4, <2>5
  <2>7. Good(k - 1)
    BY <2>6
  <2>8. after[k] = after[k - 1] \/ after[k] = Place(after[k - 1], pending[s][k])
    BY <1>3, <2>4, <2>5
  <2>9. pending[s][k] \in Sent
    BY <1>0, <2>4, <2>5
  <2>10. Orderly(Place(after[k - 1], pending[s][k]))
         /\ after[k - 1] \subseteq Place(after[k - 1], pending[s][k])
    BY <2>7, <2>9, PlaceKeeps
  <2>11. Good(k)
    BY <2>7, <2>8, <2>10
  <2>12. QED
    BY <2>4, <2>11
<1>5. QED
  BY <1>2, <1>4

(* A finite set put in an order is a sequence of its members.              *)
LEMMA SetToSeqType ==
  ASSUME NEW S, IsFiniteSet(S)
  PROVE  SetToSeq(S) \in Seq(S)
<1>1. PICK n \in Nat : ExistsBijection(1..n, S)
  BY FS_NatBijection
<1>2. IsFiniteSet(1..n) /\ Cardinality(1..n) = n
  BY FS_Interval
<1>3. Cardinality(S) = n
  BY <1>1, <1>2, FS_Bijection
<1>4. PICK f : f \in Bijection(1..n, S)
  BY <1>1 DEF ExistsBijection
<1>5. f \in [1..Cardinality(S) -> S] /\ IsInjective(f)
  BY <1>3, <1>4 DEF Bijection, Injection, IsInjective
<1>6. SetToSeq(S) \in [1..n -> S]
  BY <1>3, <1>5 DEF SetToSeq
<1>7. QED
  BY <1>6

-----------------------------------------------------------------------------
(* The courier.                                                            *)

Outboxes ==
  /\ outbox \in [Party -> SUBSET Item]
  /\ \A s \in Party : IsFiniteSet(outbox[s]) /\ \A i \in outbox[s] : Sender[i] = s

Clones ==
  /\ origin \in [Party -> SUBSET NumberedFile]
  /\ tree \in [Party -> SUBSET NumberedFile]
  /\ untracked = [s \in Party |-> {}]
  /\ pending \in [Party -> Seq(Sent)]

(* Every tree is orderly, and a clone's main has what it last fetched: it  *)
(* was checked out there and only added to.                                *)
Trees ==
  /\ Orderly(remote)
  /\ \A s \in Party : Orderly(tree[s]) /\ origin[s] \subseteq tree[s]

GitInv == Outboxes /\ Clones /\ Trees

(* With nothing untracked the clone's directory is its main.               *)
LEMMA WorkingIsTree ==
  ASSUME Clones, NEW s \in Party
  PROVE  Working(s) = tree[s]
BY DEF Clones, Working, Named

(* The next thing to send.                                                 *)
LEMMA QueueKeeps ==
  ASSUME GitInv, NEW s \in Party, Queue(s)
  PROVE  GitInv'
<1>1. PICK i \in Item : /\ Sender[i] = s
                        /\ outbox' = [outbox EXCEPT ![s] = outbox[s] \cup {i}]
  BY DEF Queue, GitInv, Outboxes
<1>2. /\ remote' = remote /\ origin' = origin /\ tree' = tree
      /\ untracked' = untracked /\ pending' = pending
  BY DEF Queue, clone, memory
<1>3. IsFiniteSet(outbox[s] \cup {i})
  BY FS_AddElement DEF GitInv, Outboxes
<1>4. Outboxes'
  <2>1. \A q \in Party : outbox'[q] = IF q = s THEN outbox[s] \cup {i} ELSE outbox[q]
    BY <1>1 DEF GitInv, Outboxes
  <2>2. outbox' \in [Party -> SUBSET Item]
    BY <1>1 DEF GitInv, Outboxes
  <2>3. QED
    BY <1>1, <1>3, <2>1, <2>2 DEF GitInv, Outboxes
<1>5. QED
  BY <1>2, <1>4 DEF GitInv, Clones, Trees

(* What a push takes up is what its own party signed.                      *)
LEMMA PushKeeps ==
  ASSUME GitInv, NEW s \in Party, Push(s)
  PROVE  GitInv'
<1> DEFINE due == outbox[s] \ handed[s]
<1>1. PICK t \in Instant[s] :
        pending' = [pending EXCEPT ![s] =
          pending[s] \o SetToSeq({SignedAt(i, t) : i \in due} \ placed[s])]
  BY DEF Push, GitInv, Clones
<1> DEFINE fresh == {SignedAt(i, t) : i \in due} \ placed[s]
<1>2. /\ remote' = remote /\ origin' = origin /\ tree' = tree
      /\ untracked' = untracked /\ outbox' = outbox
  BY DEF Push, clone
<1>3. IsFiniteSet(fresh)
  <2>1. IsFiniteSet(due)
    BY FS_Difference DEF GitInv, Outboxes
  <2> DEFINE T == {SignedAt(i, t) : i \in due}
             f == [i \in due |-> SignedAt(i, t)]
  <2>2. f \in Surjection(due, T)
    BY DEF Surjection
  <2>3. IsFiniteSet(T)
    BY <2>1, <2>2, FS_Surjection
  <2>4. QED
    BY <2>3, FS_Difference
<1>4. fresh \subseteq Sent
  BY SignedIsSent DEF GitInv, Outboxes
<1> HIDE DEF fresh
<1>5. SetToSeq(fresh) \in Seq(Sent)
  BY <1>3, <1>4, SetToSeqType
<1>6. pending[s] \o SetToSeq(fresh) \in Seq(Sent)
  BY <1>5 DEF GitInv, Clones
<1>7. pending' \in [Party -> Seq(Sent)]
  BY <1>1, <1>6 DEF GitInv, Clones, fresh
<1>8. QED
  BY <1>2, <1>7 DEF GitInv, Outboxes, Clones, Trees

(* A checkout of what was fetched.                                         *)
LEMMA AdoptKeeps ==
  ASSUME GitInv, NEW s \in Party, Adopt(s)
  PROVE  GitInv' /\ remote' = remote
<1>1. /\ origin' = [origin EXCEPT ![s] = remote]
      /\ tree' = [tree EXCEPT ![s] = IF remote = {} THEN tree[s] ELSE remote]
      /\ remote' = remote /\ outbox' = outbox /\ untracked' = untracked
      /\ pending' = pending
  BY DEF Adopt, memory, GitInv, Clones
<1>2. remote \subseteq NumberedFile
  BY DEF GitInv, Trees, Orderly
<1>3. Clones' /\ Outboxes'
  BY <1>1, <1>2 DEF GitInv, Clones, Outboxes
<1>4. \A q \in Party :
        /\ origin'[q] = IF q = s THEN remote ELSE origin[q]
        /\ tree'[q] = IF q = s /\ remote # {} THEN remote ELSE tree[q]
  BY <1>1 DEF GitInv, Clones
<1>5. Trees'
  BY <1>1, <1>4 DEF GitInv, Trees
<1>6. QED
  BY <1>1, <1>3, <1>5 DEF GitInv

(* placeAll adds to the clone's main and to nothing else.                  *)
LEMMA PlaceAllKeeps ==
  ASSUME GitInv, NEW s \in Party, PlaceAll(s)
  PROVE  GitInv' /\ remote' = remote
<1> DEFINE N == Len(pending[s])
           t == AfterPlacing(s, N)
<1>1. /\ tree' = [tree EXCEPT ![s] = t]
      /\ untracked' = [untracked EXCEPT ![s] = {}]
      /\ pending' = [pending EXCEPT ![s] = <<>>]
      /\ remote' = remote /\ outbox' = outbox /\ origin' = origin
  BY DEF PlaceAll, Placed
<1>2. pending[s] \in Seq(Sent) /\ Working(s) = tree[s] /\ Orderly(Working(s))
  BY WorkingIsTree DEF GitInv, Clones, Trees
<1>3. Orderly(t) /\ tree[s] \subseteq t
  <2>1. N \in 0..N
    BY <1>2
  <2>2. QED
    BY <1>2, <2>1, AfterPlacingKeeps
<1> HIDE DEF t
<1>4. t \subseteq NumberedFile
  BY <1>3 DEF Orderly
<1>5. Clones' /\ Outboxes'
  <2>1. tree' \in [Party -> SUBSET NumberedFile]
    BY <1>1, <1>4 DEF GitInv, Clones
  <2>2. untracked' = [q \in Party |-> {}]
    BY <1>1 DEF GitInv, Clones
  <2>3. <<>> \in Seq(Sent)
    OBVIOUS
  <2>4. pending' \in [Party -> Seq(Sent)]
    BY <1>1, <2>3 DEF GitInv, Clones
  <2>5. Outboxes'
    BY <1>1 DEF GitInv, Outboxes
  <2>6. QED
    BY <1>1, <2>1, <2>2, <2>4, <2>5 DEF GitInv, Clones
<1>6. \A q \in Party : tree'[q] = IF q = s THEN t ELSE tree[q]
  BY <1>1 DEF GitInv, Clones
<1>7. Trees'
  BY <1>1, <1>3, <1>6 DEF GitInv, Trees
<1>8. QED
  BY <1>1, <1>5, <1>7 DEF GitInv

(* A push that is accepted replaces the shared tree by one that has it.    *)
LEMMA PushAcceptedKeeps ==
  ASSUME GitInv, NEW s \in Party, PushAccepted(s)
  PROVE  GitInv' /\ remote \subseteq remote'
<1>1. /\ remote = origin[s] /\ remote' = tree[s]
      /\ origin' = [origin EXCEPT ![s] = tree[s]]
      /\ outbox' = outbox /\ tree' = tree /\ untracked' = untracked
      /\ pending' = pending
  BY DEF PushAccepted, FastForward, memory
<1>2. Clones' /\ Outboxes'
  BY <1>1 DEF GitInv, Clones, Outboxes
<1>3. \A q \in Party : origin'[q] = IF q = s THEN tree[s] ELSE origin[q]
  BY <1>1 DEF GitInv, Clones
<1>4. Trees'
  BY <1>1, <1>3 DEF GitInv, Trees
<1>5. QED
  BY <1>1, <1>2, <1>4 DEF GitInv, Trees

(* A restart forgets and leaves the clone.                                 *)
LEMMA RestartKeeps ==
  ASSUME GitInv, NEW s \in Party, Restart(s)
  PROVE  GitInv' /\ remote' = remote
<1>1. /\ remote' = remote /\ outbox' = outbox /\ origin' = origin
      /\ tree' = tree /\ untracked' = untracked
      /\ pending' = [pending EXCEPT ![s] = <<>>]
  BY DEF Restart, Forgotten, clone
<1>2. pending' \in [Party -> Seq(Sent)]
  BY <1>1 DEF GitInv, Clones
<1>3. QED
  BY <1>1, <1>2 DEF GitInv, Clones, Outboxes, Trees

(* Every step keeps the invariant and adds to the shared history.          *)
LEMMA GitStep ==
  ASSUME GitInv, [Next]_vars
  PROVE  GitInv' /\ remote \subseteq remote'
<1>1. ASSUME NEW s \in Party, Queue(s) PROVE GitInv' /\ remote' = remote
  BY <1>1, QueueKeeps DEF Queue
<1>2. ASSUME NEW s \in Party, Push(s) PROVE GitInv' /\ remote' = remote
  BY <1>2, PushKeeps DEF Push
<1>3. ASSUME NEW s \in Party, Sync(s) PROVE GitInv' /\ remote \subseteq remote'
  <2>1. CASE PushFails(s)
    BY <2>1 DEF PushFails, clone, memory, GitInv, Outboxes, Clones, Trees
  <2>2. QED
    BY <1>3, <2>1, AdoptKeeps, PlaceAllKeeps, PushAcceptedKeeps DEF Sync
<1>4. ASSUME NEW s \in Party, Restart(s) PROVE GitInv' /\ remote' = remote
  BY <1>4, RestartKeeps
<1>5. CASE UNCHANGED vars
  BY <1>5 DEF vars, GitInv, Outboxes, Clones, Trees
<1>6. QED
  BY <1>1, <1>2, <1>3, <1>4, <1>5 DEF Next, InProcess

(* The trees are orderly in every behaviour of whole syncs.                *)
LEMMA GitInvHolds == Spec => []GitInv
<1>1. Init => GitInv
  <2>1. Init => Outboxes /\ Clones
    BY FS_EmptySet DEF Init, Outboxes, Clones
  <2>2. Orderly({})
    BY FS_EmptySet DEF Orderly
  <2>3. QED
    BY <2>1, <2>2 DEF Init, GitInv, Trees
<1>2. GitInv /\ [Next]_vars => GitInv'
  BY GitStep
<1>3. QED
  BY <1>1, <1>2, PTL DEF Spec

(* The shared history only grows (sync: fetch, checkout, place, push),     *)
(* however the commands of the parties' syncs interleave, whichever pushes *)
(* are refused and whichever processes start anew.                         *)
THEOREM HistoryGrows == Spec => SharedHistoryGrows
<1>1. GitInv /\ [Next]_vars => [remote \subseteq remote']_remote
  BY GitStep
<1>2. QED
  BY <1>1, GitInvHolds, PTL DEF Spec, SharedHistoryGrows

(* A message is filed once (placeAll's alreadyPresent and its numbers),    *)
(* and a proposal is one message, however many processes send it.          *)
THEOREM MessagesFiledOnce == Spec => []FiledOnce
<1>1. GitInv => FiledOnce
  <2>0. SUFFICES ASSUME GitInv, NEW f \in remote, NEW g \in remote
                 PROVE  /\ f.message = g.message => f = g
                        /\ f.message.item = g.message.item
                             /\ Type[f.message.item] = "propose" => f = g
    BY DEF FiledOnce
  <2>1. f.message = g.message => f = g
    BY <2>0 DEF GitInv, Trees, Orderly
  <2>2. f.message \in Sent /\ g.message \in Sent
    BY <2>0 DEF GitInv, Trees, Orderly, NumberedFile
  <2>3. QED
    BY <2>1, <2>2, ProposalIsOneMessage
<1>2. QED
  BY <1>1, GitInvHolds, PTL
=============================================================================
