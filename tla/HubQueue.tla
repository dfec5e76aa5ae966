------------------------------ MODULE HubQueue ------------------------------
(***************************************************************************)
(* One persona's mail (federation/src): the inbox record that says where   *)
(* it goes and which key may seal it (addressing.ts), the sender's and the *)
(* reader's side of the hub protocol (hub-transport.ts), and the hubs that *)
(* queue it (hub.ts).  A hub is not trusted: a faithless one also rewrites *)
(* what it holds, makes up messages, circulates records of its own, passes *)
(* another hub's challenge on as its own and presents the answer there.    *)
(*                                                                         *)
(* A message names its sender, its recipient and the proposed edge it      *)
(* carries; the signature is the key that made it.  An envelope is the     *)
(* message, the key it is sealed to, and its date twice: as it travels and *)
(* as the seal binds it.                                                   *)
(***************************************************************************)
EXTENDS Integers, Sequences, SequencesExt

CONSTANTS
  Node,        \* the persona
  Elsewhere,   \* another persona
  Sender,      \* personas that propose
  Proposal,    \* edges they may propose to Node
  Proposer,    \* who proposes each
  HubOrder,    \* the hubs Node declares, in its order
  Faithless,   \* the hubs that do not keep to the protocol
  Reader,      \* Node's processes that read its inbox
  TTL, RecordLifetime,
  MaxTime, MaxNonce, MaxQueue

Hub == {HubOrder[i] : i \in DOMAIN HubOrder}

ASSUME HubAssumption ==
  /\ Proposer \in [Proposal -> Sender] /\ Faithless \subseteq Hub
  /\ Node \notin Sender \cup Hub /\ Elsewhere # Node /\ Sender \cap Hub = {}
  /\ TTL \in Nat /\ RecordLifetime \in Nat
  /\ MaxTime \in Nat /\ MaxNonce \in Nat /\ MaxQueue \in [Hub -> Nat]

VARIABLES
  clock,
  records,     \* inbox records in circulation
  queue,       \* each hub's queue for Node
  challenges,  \* each hub's outstanding challenge for Node, 0 when none
  nonce,       \* challenges issued so far
  reader,      \* the inbox read each reader is in the middle of
  seen,        \* signed challenges a faithless hub was given
  sent,        \* what was sealed and sent, with its date (history)
  handed       \* who was last given what (history)

mail == <<records, queue, challenges, nonce, reader, seen, sent, handed>>

-----------------------------------------------------------------------------
(* messages.ts                                                             *)

Message == [sender : Sender, recipient : {Node, Elsewhere}, edge : Proposal,
            sig : Sender \cup Hub]

SignMessage(e, to) ==
  [sender |-> Proposer[e], recipient |-> to, edge |-> e, sig |-> Proposer[e]]

VerifyMessage(m) == m.sig = m.sender

(* inbox.ts: one meant for somebody else and sealed again is refused.      *)
ForThisPersona(m) == m.recipient = Node

-----------------------------------------------------------------------------
(* addressing.ts                                                           *)

InboxRecord(signer, hubs, dh) ==
  [sig |-> signer, hubs |-> hubs, dh_key |-> dh, issued_at |-> clock]

(* (A definition whose name extends the next one's is a slip the           *)
(* properties are tried against; nothing uses it.)                         *)
VerifyInboxRecordAny(rec) == TRUE
VerifyInboxRecord(rec) == rec.sig = Node

(* Valid from the date it names for its lifetime, and at neither end out.  *)
HubsFor(rec) ==
  IF clock - rec.issued_at \in 0..RecordLifetime THEN rec.hubs ELSE <<>>

ShouldRepublish(rec) == 2 * (clock - rec.issued_at) >= RecordLifetime

DhKeyFrom(rec) ==
  IF VerifyInboxRecord(rec) /\ HubsFor(rec) # <<>> THEN {rec.dh_key} ELSE {}

-----------------------------------------------------------------------------
(* hub-transport.ts                                                        *)

SealFor(m, key) ==
  [message |-> m, key |-> key, sent_at |-> clock, bound |-> clock]

(* Opened with the persona's own key, under the date it travelled with.    *)
Opens(env) == env.key = Node /\ env.bound = env.sent_at

MailOf(env) == [message |-> env.message, sent_at |-> env.sent_at]

(* What a reader takes from the envelopes a hub answers with.              *)
Received(env) ==
  Opens(env) /\ VerifyMessage(env.message) /\ ForThisPersona(env.message)

NotReading == [hub |-> "none", challenge |-> 0]

-----------------------------------------------------------------------------
(* hub.ts                                                                  *)

Stored(env) ==
  [message |-> env.message, key |-> env.key, sent_at |-> env.sent_at,
   bound |-> env.bound, received_at |-> clock]

Deliver(h, env) ==
  /\ Len(queue[h]) < MaxQueue[h]
  /\ queue' = [queue EXCEPT ![h] = Append(@, Stored(env))]

(* Kept up to its age limit, that age included; run by a read only.        *)
Kept(h) ==
  LET kept[i \in 0..Len(queue[h])] ==
        IF i = 0 THEN <<>>
        ELSE IF queue[h][i].received_at >= clock - TTL
        THEN Append(kept[i - 1], queue[h][i]) ELSE kept[i - 1]
  IN kept[Len(queue[h])]

NewChallenge(h) ==
  /\ nonce < MaxNonce /\ nonce' = nonce + 1
  /\ challenges' = [challenges EXCEPT ![h] = nonce + 1]

AudienceIs(h, auth) == auth.audience = h

InboxOpens(h, auth) ==
  AudienceIs(h, auth) /\ auth.challenge # 0 /\ challenges[h] = auth.challenge

Given(p, items) == [to |-> p, mail |-> items]

-----------------------------------------------------------------------------
HubInit ==
  /\ clock = 0 /\ records = {} /\ queue = [h \in Hub |-> <<>>]
  /\ challenges = [h \in Hub |-> 0] /\ nonce = 0
  /\ reader = [r \in Reader |-> NotReading] /\ seen = {}
  /\ sent = {} /\ handed = Given(Node, {})

(* The persona publishes its record, again from half its life on.          *)
PublishRecord ==
  /\ \A rec \in records : VerifyInboxRecord(rec) => ShouldRepublish(rec)
  /\ records' = records \cup {InboxRecord(Node, HubOrder, Node)}
  /\ UNCHANGED <<clock, queue, challenges, nonce, reader, seen, sent, handed>>

(* A hub circulates a record that names the persona and its own key; one   *)
(* per hub is enough.                                                      *)
PublishFalseRecord(h) ==
  /\ h \in Faithless /\ \A rec \in records : rec.sig # h
  /\ records' = records \cup {InboxRecord(h, <<h>>, h)}
  /\ UNCHANGED <<clock, queue, challenges, nonce, reader, seen, sent, handed>>

(* deliverViaInbox: the declared hubs in their order, until one accepts;   *)
(* the ones before it failed.  A hub that holds the key reads what it is   *)
(* given.                                                                  *)
DeliverViaInbox(e, to) ==
  \E rec \in records : \E key \in DhKeyFrom(rec) :
    LET env == SealFor(SignMessage(e, to), key) IN
    /\ \E i \in DOMAIN HubsFor(rec) : Deliver(HubsFor(rec)[i], env)
    /\ sent' = sent \cup {MailOf(env)}
    /\ handed' = IF key = Node THEN handed ELSE Given(key, {MailOf(env)})
    /\ UNCHANGED <<clock, records, challenges, nonce, reader, seen>>

(* receive, first half: a read without a signature is answered with a      *)
(* challenge.  A faithless hub may ask another hub and pass its answer on. *)
AskChallenge(r, h) ==
  /\ reader[r] = NotReading
  /\ \E issuer \in (IF h \in Faithless THEN Hub ELSE {h}) : NewChallenge(issuer)
  /\ reader' = [reader EXCEPT ![r] = [hub |-> h, challenge |-> nonce + 1]]
  /\ UNCHANGED <<clock, records, queue, seen, sent, handed>>

Auth(r) == [audience |-> reader[r].hub, challenge |-> reader[r].challenge]

(* The envelopes the reader's hub answers with, or a refusal.              *)
Answers(r) ==
  reader[r].hub \in Faithless \/ InboxOpens(reader[r].hub, Auth(r))

(* receive, second half.  The challenge is spent and old mail dropped.     *)
ReadInbox(r) ==
  LET h == reader[r].hub IN
  /\ reader[r] # NotReading /\ Answers(r)
  /\ challenges' = [challenges EXCEPT ![h] = 0]
  /\ queue' = [queue EXCEPT ![h] = Kept(h)]
  /\ handed' = Given(Node, {MailOf(env) : env \in {s \in ToSet(Kept(h)) : Received(s)}})
  /\ reader' = [reader EXCEPT ![r] = NotReading]
  /\ seen' = IF h \in Faithless THEN seen \cup {Auth(r)} ELSE seen
  /\ UNCHANGED <<clock, records, nonce, sent>>

(* Another reader's challenge replaced this one's, or was spent.           *)
ReadRefused(r) ==
  /\ reader[r] # NotReading /\ ~Answers(r)
  /\ reader' = [reader EXCEPT ![r] = NotReading]
  /\ UNCHANGED <<clock, records, queue, challenges, nonce, seen, sent, handed>>

(* A faithless hub presents a signature it was given to another hub.       *)
Relay(h, other) ==
  \E auth \in seen :
    /\ h \in Faithless /\ other # h /\ InboxOpens(other, auth)
    /\ challenges' = [challenges EXCEPT ![other] = 0]
    /\ queue' = [queue EXCEPT ![other] = Kept(other)]
    /\ handed' = Given(h, {MailOf(env) : env \in ToSet(Kept(other))})
    /\ UNCHANGED <<clock, records, nonce, reader, seen, sent>>

(* A faithless hub changes the date it may read, or makes a message up.    *)
Redate(h) ==
  \E i \in DOMAIN queue[h], t \in 0..MaxTime :
    /\ h \in Faithless /\ t # queue[h][i].sent_at
    /\ queue' = [queue EXCEPT ![h][i].sent_at = t]
    /\ UNCHANGED <<clock, records, challenges, nonce, reader, seen, sent, handed>>

Forge(h) ==
  \E e \in Proposal :
    /\ h \in Faithless
    /\ Deliver(h, SealFor([SignMessage(e, Node) EXCEPT !.sig = h], Node))
    /\ UNCHANGED <<clock, records, challenges, nonce, reader, seen, sent, handed>>

Tick ==
  /\ clock < MaxTime /\ clock' = clock + 1
  /\ UNCHANGED mail

(* Everything but a read that is answered, which hands mail to the inbox.  *)
HubStep ==
  \/ PublishRecord \/ \E h \in Hub : PublishFalseRecord(h)
  \/ \E e \in Proposal, to \in {Node, Elsewhere} : DeliverViaInbox(e, to)
  \/ \E r \in Reader, h \in Hub : AskChallenge(r, h)
  \/ \E r \in Reader : ReadRefused(r)
  \/ \E h, other \in Hub : Relay(h, other)
  \/ \E h \in Hub : Redate(h) \/ Forge(h)

-----------------------------------------------------------------------------
Dated == [message : Message, sent_at : 0..MaxTime]

HubTypeOK ==
  /\ clock \in 0..MaxTime
  /\ \A rec \in records :
       rec.sig \in {Node} \cup Hub /\ rec.issued_at \in 0..clock
  /\ \A h \in Hub : \A s \in ToSet(queue[h]) :
       MailOf(s) \in Dated /\ s.received_at \in 0..clock
  /\ challenges \in [Hub -> 0..MaxNonce] /\ nonce \in 0..MaxNonce
  /\ reader \in [Reader -> [hub : Hub \cup {"none"}, challenge : 0..MaxNonce]]
  /\ seen \subseteq [audience : Hub, challenge : 1..MaxNonce]
  /\ sent \subseteq Dated
  /\ handed.to \in {Node} \cup Hub /\ handed.mail \subseteq Dated

(* The hubs, whatever they do, are a courier: nothing reaches the inbox    *)
(* that its sender did not send to this persona on that date, and nobody   *)
(* but the persona is given its mail.                                      *)
Recipient(i) == i.message.recipient
TheCourier == INSTANCE Courier WITH
  Party <- {Node} \cup Hub, Item <- Dated, To <- Recipient
BlindCourier == TheCourier!Spec
=============================================================================
