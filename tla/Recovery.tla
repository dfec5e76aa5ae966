------------------------------ MODULE Recovery ------------------------------
(***************************************************************************)
(* A persona that lost its vault asks a counterparty for its edges         *)
(* (federation/src/recovery.ts, serve.ts, applyRecoverResponse of          *)
(* inbox.ts), under its old key or under the key it rotated to.  The       *)
(* responder answers a signed challenge of its own making; its process may *)
(* restart.  The requester stores what the answer shows to be genuine; its *)
(* process may die while it stores.                                        *)
(*                                                                         *)
(* Signatures and rotations are public once made, and whoever has seen     *)
(* them may put them together and send them, as often as it likes.  Nobody *)
(* signs with a key that is not its own.  What a responder hands back is   *)
(* its choice: any assertions it has seen or can sign, in any order, with  *)
(* any edge.  A definition whose name extends the next one's is a slip.    *)
(***************************************************************************)
EXTENDS EdgeTable, SequencesExt

CONSTANTS
  Own,            \* the keys of the persona that recovers
  peer,           \* the counterparty's key
  stranger,       \* a key that is party to nothing here
  Edges,          \* edge bodies with their parties, the made-up ones too
  HeldChains,     \* what the responder's vault may hold: Edges -> chains
  PeerMade,       \* assertions the responder can sign or forge
  RotatedAt, Now, \* when a rotation is dated, and the clock
  MaxChallenge, MaxAnswers, MaxHanded

(* Nothing is dated after the clock.                                       *)
Dated == {a \in Assertion : a.asserted_at <= Now}

ASSUME RecoveryAssumption ==
  /\ Own \cup {peer, stranger} \subseteq Key /\ stranger \notin Own
  /\ RotatedAt \in Time /\ Now \in Time
  /\ HeldChains \subseteq [Edges -> Seq(Dated)] /\ PeerMade \subseteq Dated
  /\ \A a \in PeerMade : a.signer \notin Own
  /\ MaxChallenge \in Nat /\ MaxAnswers \in Nat /\ MaxHanded \in Nat

(* h is a chain of e that its table took, each assertion in turn and once, *)
(* at a node that knows the parties' first keys.                           *)
TakenInTurn(e, h) ==
  LET only(k) == {[key |-> k, supersededAt |-> Null]}
      lin == [owner |-> only(e.owner), owed_to |-> only(e.owed_to)]
  IN  /\ \A i, j \in DOMAIN h : h[i] = h[j] => i = j
      /\ \A i \in DOMAIN h :
           Accepts(e, lin, Now, VerifyAssertionChain(e, lin, Now, SubSeq(h, 1, i - 1)), h[i])

ASSUME HeldAssumption == \A c \in HeldChains : \A e \in Edges : TakenInTurn(e, c[e])

VARIABLES
  held,         \* the responder's vault: chains, empty for an edge not held
  issued,       \* challenges this process of the responder issued, unspent
  challenges,   \* how many were ever issued
  signatures,   \* challenges the persona signed, with the key
  rotations,    \* rotation statements the persona published
  answers,      \* answers given to verified requests (history)
  persona,      \* the key the requester recovers under
  ownRotations, \* rotations in the requester's vault
  restored,     \* edges in the requester's vault
  chain,        \* their chains
  whole         \* edges it was last handed all of, as held (history)

responder == <<held, issued, challenges, answers>>
requester == <<persona, ownRotations, restored, chain, whole>>
vars == <<responder, signatures, rotations, requester>>

Init ==
  /\ held \in HeldChains
  /\ issued = {} /\ challenges = 0 /\ signatures = {} /\ rotations = {}
  /\ answers = <<>> /\ persona \in Own /\ ownRotations = {}
  /\ restored = {} /\ chain = [e \in Edges |-> <<>>] /\ whole = {}

-----------------------------------------------------------------------------
(* identity/rotation.ts                                                    *)

Rotation(old, new, signer) ==
  [old |-> old, new |-> new, rotated_at |-> RotatedAt, signer |-> signer]

VerifyRotation(r) == r.old # r.new /\ r.signer = r.old

Successors(rots, k) == {r.new : r \in {x \in rots : x.old = k /\ VerifyRotation(x)}}

(* The keys from this one on, oldest first; a fork or a cycle ends it.     *)
ResolveSuccessor(rots, key) ==
  LET walk[i \in 0..Cardinality(rots)] ==
        IF i = 0 THEN <<key>>
        ELSE LET keys == walk[i - 1]
                 next == Successors(rots, Last(keys))
             IN IF Cardinality(next) = 1 /\ next \cap ToSet(keys) = {}
                THEN Append(keys, CHOOSE k \in next : TRUE) ELSE keys
  IN walk[Cardinality(rots)]

LineageOf(rots, key) ==
  LET keys == ResolveSuccessor(rots, key)
  IN {[key |-> keys[i],
       supersededAt |-> IF i = Len(keys) THEN Null ELSE RotatedAt] : i \in DOMAIN keys}

-----------------------------------------------------------------------------
(* serve.ts                                                                *)

IsParty(e, k) == k \in {e.owner, e.owed_to}

IsPartyOrSuccessor(e, k, rots) ==
  \/ IsParty(e, k)
  \/ k \in ToSet(ResolveSuccessor(rots, e.owner)) \cup ToSet(ResolveSuccessor(rots, e.owed_to))

(* By party-ship alone: recovery restores nothing that only a scope was    *)
(* shown, and the responder's vault has learned of no rotation.            *)
MayServeEdge(k, e) == IsPartyOrSuccessor(e, k, {})

-----------------------------------------------------------------------------
(* The responder.                                                          *)

HeldEdges == {e \in Edges : held[e] # <<>>}

IssueChallenge ==
  /\ challenges < MaxChallenge
  /\ challenges' = challenges + 1
  /\ issued' = issued \cup {challenges + 1}
  /\ UNCHANGED <<held, answers, signatures, rotations, requester>>

(* A new process has issued nothing.                                       *)
ResponderRestarts ==
  /\ issued # {}
  /\ issued' = {}
  /\ UNCHANGED <<held, challenges, answers, signatures, rotations, requester>>

(* What anybody can put in a recover_request; rotation is empty for none.  *)
Requests ==
  LET signed == signatures \cup [challenge : 1..challenges, key : {stranger}]
      rots == rotations \cup {Rotation(o, n, stranger) : o \in Own, n \in Own \cup {stranger}}
  IN [persona : Key, proof : signed, rotation : {{}} \cup {{r} : r \in rots}]

KnowsParty(k) == \E e \in HeldEdges : IsParty(e, k)

(* verifyRequest: succession where a rotation is presented, and possession *)
(* of the persona's key always.                                            *)
Succession(q) ==
  \A r \in q.rotation :
    r.new = q.persona /\ VerifyRotation(r) /\ KnowsParty(r.old)

Possession(q) == q.proof.challenge \in issued /\ q.proof.key = q.persona

SpentPlainOnly(q) == IF q.rotation = {} THEN issued \ {q.proof.challenge} ELSE issued
Spent(q) == issued \ {q.proof.challenge}

Identities(q) == {q.persona} \cup {r.old : r \in q.rotation}

Served(who) ==
  {e \in HeldEdges :
     (\E k \in who : IsParty(e, k)) /\ (\E k \in who : MayServeEdge(k, e))}

Answer(q) ==
  /\ Succession(q) /\ Possession(q)
  /\ Len(answers) < MaxAnswers
  /\ issued' = Spent(q)
  /\ answers' = Append(answers,
       [challenge |-> q.proof.challenge, persona |-> q.persona,
        edges |-> Served(Identities(q))])
  /\ UNCHANGED <<held, challenges, signatures, rotations, requester>>

-----------------------------------------------------------------------------
(* The persona.                                                            *)

SignChallenge(k, c) ==
  /\ [challenge |-> c, key |-> k] \notin signatures
  /\ signatures' = signatures \cup {[challenge |-> c, key |-> k]}
  /\ UNCHANGED <<responder, rotations, requester>>

SignRotation(old, new) ==
  /\ old # new /\ Rotation(old, new, old) \notin rotations
  /\ rotations' = rotations \cup {Rotation(old, new, old)}
  /\ UNCHANGED <<responder, signatures, requester>>

(* A persona that recovers under a new key puts its rotation in its vault  *)
(* first.                                                                  *)
PutRotation(r) ==
  /\ r \notin ownRotations
  /\ ownRotations' = ownRotations \cup {r}
  /\ UNCHANGED <<responder, signatures, rotations, persona, restored, chain, whole>>

Lineage(e) ==
  [owner |-> LineageOf(ownRotations, e.owner), owed_to |-> LineageOf(ownRotations, e.owed_to)]

(* Does the table take one more assertion, as it is now?                   *)
TakenAfter(e, c, a) ==
  LET lin == Lineage(e)
  IN Accepts(e, lin, Now, VerifyAssertionChain(e, lin, Now, c), a)

(* Where an assertion goes in the order they are judged in.                *)
WireOrderAsHanded(a) == 0
WireOrder(a) == a.asserted_at

(* inWireOrder and the loop of applyRecoverResponse: what is not held is   *)
(* judged in the order of its dates, as handed where they agree, each      *)
(* after what was held and taken before it; first those dated t, ...       *)
InWireOrder(e, t, before, s) ==
  LET taken[i \in 0..Len(s)] ==
        IF i = 0 THEN before
        ELSE LET soFar == taken[i - 1] IN
             IF /\ WireOrder(s[i]) = t
                /\ s[i] \notin ToSet(chain[e])
                /\ TakenAfter(e, soFar, s[i])
             THEN Append(soFar, s[i]) ELSE soFar
  IN taken[Len(s)]

(* ... and so for every date.                                              *)
Judged(e, s) ==
  LET after[d \in 0..Now + 1] ==
        IF d = 0 THEN chain[e] ELSE InWireOrder(e, d - 1, after[d - 1], s)
  IN after[Now + 1]

ProposedByOwner(e, c) ==
  \E i \in DOMAIN c :
    c[i].state = "proposed" /\ c[i].by = e.owner /\ TakenAfter(e, SubSeq(c, 1, i - 1), c[i])

(* The id is that of this body, and no other body is held under it.        *)
EdgeBinds(e) == e.binds /\ \A f \in restored : f.edge_id = e.edge_id => f = e

(* All that is held of it and no more, after a beginning of it; the order  *)
(* the rest is judged in, by date and for one date as handed, is the order *)
(* it is held in; and the persona signed none of it with a key it had      *)
(* given up.                                                               *)
HandedAsHeld(e, s) ==
  LET c == chain[e]
      h == held[e]
  IN  /\ IsPrefix(c, h) /\ ToSet(c \o s) = ToSet(h)
      /\ \A i, j \in Len(c) + 1..Len(h) : i < j =>
           \/ h[i].asserted_at < h[j].asserted_at
           \/ /\ h[i].asserted_at = h[j].asserted_at
              /\ \E k, l \in DOMAIN s : k < l /\ s[k] = h[i] /\ s[l] = h[j]
      /\ \A i \in DOMAIN h : h[i].by \in Own => h[i].asserted_at < RotatedAt

(* applyRecoverResponse for one edge of a response: the edge is written,   *)
(* then the accepted assertions one by one, all of them unless the process *)
(* dies.  A node applies a response only to a request it made.             *)
ApplyRecoverResponse(e, s) ==
  LET judged == Judged(e, s)
  IN  /\ answers # <<>>
      /\ IsPartyOrSuccessor(e, persona, ownRotations)
      /\ EdgeBinds(e)
      /\ ProposedByOwner(e, judged)
      /\ restored' = restored \cup {e}
      /\ \E written \in Len(chain[e])..Len(judged) :
           /\ chain' = [chain EXCEPT ![e] = SubSeq(judged, 1, written)]
           /\ whole' = IF written = Len(judged) /\ HandedAsHeld(e, s)
                       THEN whole \cup {e} ELSE whole \ {e}
      /\ UNCHANGED <<responder, signatures, rotations, persona, ownRotations>>

-----------------------------------------------------------------------------
(* What a responder may hand over with an edge: what it holds of it and    *)
(* what it can make up, each once, in any order.                           *)
Handable(e) ==
  {s \in UNION {[1..n -> ToSet(held[e]) \cup {a \in PeerMade : a.edge_id = e.edge_id}] :
                n \in 0..MaxHanded} :
     \A i, j \in DOMAIN s : s[i] = s[j] => i = j}

Next ==
  \/ IssueChallenge \/ ResponderRestarts
  \/ \E q \in Requests : Answer(q)
  \/ \E k \in Own, c \in 1..challenges : SignChallenge(k, c)
  \/ \E old, new \in Own : SignRotation(old, new)
  \/ \E r \in rotations : PutRotation(r)
  \/ \E e \in Edges : \E s \in Handable(e) : ApplyRecoverResponse(e, s)

Spec == Init /\ [][Next]_vars

StateOf(e, c) == VerifyAssertionChain(e, Lineage(e), Null, c).state

-----------------------------------------------------------------------------
(* One challenge draws one answer, whatever is replayed and whoever        *)
(* restarts; it was signed with the key of the persona answered, and every *)
(* edge in it is that persona's or that of a key which itself signed its   *)
(* rotation to that persona (RecoveryResponder.verifyRequest, answer).     *)
AnsweredToTheHolderOnce ==
  \A i \in DOMAIN answers :
    LET a == answers[i] IN
    /\ \A j \in DOMAIN answers : answers[j].challenge = a.challenge => j = i
    /\ [challenge |-> a.challenge, key |-> a.persona] \in signatures
         \/ a.persona = stranger          \* which signs for itself
    /\ \A e \in a.edges :
         IsParty(e, a.persona)
           \/ \E k \in Own : IsParty(e, k) /\ Rotation(k, a.persona, k) \in rotations

(* No edge is stored that its owner never proposed, and the state a        *)
(* recovering node arrives at is its counterparty's: once it was handed    *)
(* the held assertions, all or the rest of them, before or after its own   *)
(* rotations, a crash, refused answers and answers in parts, in any order  *)
(* of dates, it reads the same state (applyRecoverResponse, inWireOrder).  *)
(* Assertions of one instant keep the responder's order, so this is of     *)
(* those handed as held (HandedAsHeld): [confirmed, proposed] of one       *)
(* instant reads as proposed until the rest is handed again.               *)
RestoredAsHeld ==
  /\ \A e \in restored : e.owner \in Own => e \in HeldEdges
  /\ \A e \in whole : StateOf(e, chain[e]) = StateOf(e, held[e])
=============================================================================
