----------------------------- MODULE Federation -----------------------------
(***************************************************************************)
(* Two nodes and one edge between them (packages/federation/src and the    *)
(* acts of packages/node/src/node.ts).  The owner commits, the proposal    *)
(* travels through the outbox, each party signs its own acts, push hands   *)
(* them to a courier, pull feeds what the courier holds to the inbox, and  *)
(* reconciliation exchanges chains.                                        *)
(*                                                                         *)
(* The courier is a set of messages: a message may be delivered any number *)
(* of times, in any order, or be lost.  Both nodes run this code, so only  *)
(* genuine messages travel (EdgeChain has the forged ones).  No key        *)
(* rotates.  The nodes read one clock.  A step that would leave everything *)
(* as it is (a redelivery, a refused act) is not a step of the model.      *)
(***************************************************************************)
EXTENDS EdgeTable, Functions

CONSTANTS
  owner, creditor,     \* the two parties, each the key it signs with
  edgeId,              \* the edge's id
  Due,                 \* the edge's due date
  Window,              \* DEFAULT_ACCEPTANCE_WINDOW
  Acts,                \* the acts the parties may take: <<party, act>> pairs
  MaxNow,              \* bound on the clock
  MaxChain,            \* bound on the acts a node takes on its chain
  MaxNet               \* bound on the messages the courier holds

Node == {owner, creditor}

ASSUME FederationAssumption ==
  /\ Node \subseteq Key /\ owner # creditor
  /\ edgeId \in STRING /\ Due \in TimeOrNull /\ Window \in Nat \ {0}
  /\ Acts \subseteq Node \X {"done", "release", "expire"}
  /\ MaxNow \in Nat /\ MaxChain \in Nat /\ MaxNet \in Nat
  /\ DISPUTE_WINDOW > 0

VARIABLES
  holds,           \* the nodes whose vault holds the edge body
  chain,           \* each node's stored chain
  committing,      \* how far the owner's commit call has come
  outbox,          \* delivery state of the propose in the owner's outbox
  sent,            \* the owner's process has handed the propose over
  sentAssertions,  \* what each process has put on the wire
  net,             \* what the courier holds
  now

vars == <<holds, chain, committing, outbox, sent, sentAssertions, net, now>>
vault == <<holds, chain, outbox>>
memory == <<sent, sentAssertions>>

Other(n) == CHOOSE m \in Node : m # n

(* buildEdge: a cross-person edge is always on-acceptance.                 *)
theEdge ==
  [edge_id |-> edgeId, binds |-> TRUE, due |-> Due,
   closure_policy |-> "on-acceptance", acceptance_window |-> Window]

lineage == [owner   |-> {[key |-> owner, supersededAt |-> Null]},
            owed_to |-> {[key |-> creditor, supersededAt |-> Null]}]

(* signAssertion: the persona's own key, dated now.                        *)
Signed(n, s, evidence) ==
  [edge_id |-> edgeId, state |-> s, asserted_at |-> now, by |-> n,
   signer |-> n, evidence |-> evidence]

Message ==
  [type : {"propose", "assert"}, to : Node, assertion : Assertion]
    \cup [type : {"recon_request"}, to : Node, digest : SUBSET Assertion]
    \cup [type : {"recon_response"}, to : Node, assertions : Seq(Assertion)]

Init ==
  /\ holds = {} /\ chain = [n \in Node |-> <<>>]
  /\ committing = "idle" /\ outbox = "none"
  /\ sent = FALSE /\ sentAssertions = [n \in Node |-> {}]
  /\ net = {} /\ now = 0

-----------------------------------------------------------------------------
(* What a chain says (edgeState reads without a clock), and the table's    *)
(* verdict on one more assertion at the clock's instant.                   *)
StateOf(c) == VerifyAssertionChain(theEdge, lineage, Null, c).state

TakenAfter(c, a) ==
  Accepts(theEdge, lineage, now,
          VerifyAssertionChain(theEdge, lineage, now, c), a)

(* inWireOrder and the loop of applyReconResponse: what is not held is     *)
(* judged in the order of its dates, as listed where they agree, each      *)
(* after what was held and taken before it; first those dated t, ...       *)
InWireOrder(t, c, held, assertions) ==
  LET taken[i \in 0..Len(assertions)] ==
        IF i = 0 THEN held
        ELSE LET before == taken[i - 1]
                 a == assertions[i]
             IN IF a.asserted_at = t /\ a \notin Range(c) /\ TakenAfter(before, a)
                THEN Append(before, a) ELSE before
  IN taken[Len(assertions)]

(* ... and so for every date.                                              *)
ApplyReconResponse(c, assertions) ==
  LET after[d \in 0..(MaxNow + 1)] ==
        IF d = 0 THEN c ELSE InWireOrder(d - 1, c, after[d - 1], assertions)
  IN after[MaxNow + 1]

-----------------------------------------------------------------------------
(* commit on the owner's node: three writes, each of them durable, with    *)
(* nothing else of that process in between; a crash leaves the ones made.  *)

Committing == committing \in {"edge", "proposed"}

CommitEdge ==
  /\ committing = "idle"
  /\ holds' = holds \cup {owner}
  /\ committing' = "edge"
  /\ UNCHANGED <<chain, outbox, memory, net, now>>

CommitAssertion ==
  /\ committing = "edge"
  /\ chain' = [chain EXCEPT ![owner] =
                 Append(@, Signed(owner, "proposed", FALSE))]
  /\ committing' = "proposed"
  /\ UNCHANGED <<holds, outbox, memory, net, now>>

QueuePropose ==
  /\ committing = "proposed"
  /\ outbox' = "queued"
  /\ committing' = "done"
  /\ UNCHANGED <<holds, chain, memory, net, now>>

CrashInCommit ==
  /\ Committing
  /\ committing' = "done"
  /\ sent' = FALSE /\ sentAssertions' = [sentAssertions EXCEPT ![owner] = {}]
  /\ UNCHANGED <<vault, net, now>>

(* A node is running and not in the middle of a commit.                    *)
Free(n) == n = owner => ~Committing

(* confirm and act: sign, judge the own assertion as if it were anybody's, *)
(* store it or leave no trace.                                             *)
Record(n, a) ==
  /\ Free(n)
  /\ n \in holds
  /\ Len(chain[n]) < MaxChain
  /\ TakenAfter(chain[n], a)
  /\ chain' = [chain EXCEPT ![n] = Append(@, a)]
  /\ UNCHANGED <<holds, committing, outbox, memory, net, now>>

Confirm == Record(creditor, Signed(creditor, "confirmed", FALSE))

Done(evidence) ==
  /\ <<owner, "done">> \in Acts
  /\ StateOf(chain[owner]) \notin {"disputed", "contested-closure"}
  /\ Record(owner, Signed(owner, "closed", evidence))

ReleaseIt ==
  /\ <<creditor, "release">> \in Acts
  /\ Record(creditor, Signed(creditor, "released", FALSE))

ExpireIt(n) ==
  /\ <<n, "expire">> \in Acts
  /\ Record(n, Signed(n, "expired", FALSE))

-----------------------------------------------------------------------------
ProposeMessage ==
  [type |-> "propose", to |-> creditor, assertion |-> chain[owner][1]]

AssertMessage(n, a) == [type |-> "assert", to |-> Other(n), assertion |-> a]

(* What the courier accepts.  At its bound it forgets something for it,    *)
(* which it may do at any time.                                            *)
Post(messages) ==
  \E kept \in SUBSET net :
    /\ net' = kept \cup messages
    /\ Cardinality(net') = (IF Cardinality(net \cup messages) < MaxNet
                            THEN Cardinality(net \cup messages) ELSE MaxNet)

Unacknowledged == outbox \in {"queued", "sent"}

(* What push offers the courier: the propose until its recipient proves    *)
(* they hold it, unless this process already handed it over ...  (As in    *)
(* EdgeTable, a definition whose name extends the next one's is a slip the *)
(* properties are tried against.)                                          *)
ProposeDueUnsent(n) == n = owner /\ outbox = "queued" /\ ~sent
ProposeDue(n) == n = owner /\ Unacknowledged /\ ~sent

(* ... and the own assertions this process has not put on the wire, save   *)
(* the one an unacknowledged propose carries.                              *)
CarriedMessage(n, handed) ==
  IF n = owner /\ Unacknowledged /\ (sent \/ handed)
  THEN {ProposeMessage} ELSE {}

CarriedByPropose(n, handed) ==
  IF n = owner /\ Unacknowledged /\ (sent \/ handed)
  THEN {chain[owner][1]} ELSE {}

AssertionsDue(n, handed) ==
  {a \in Range(chain[n]) : a.by = n}
    \ (sentAssertions[n] \cup CarriedByPropose(n, handed))

OutboxAfterPushAcknowledged(handed) == IF handed THEN "acknowledged" ELSE outbox
OutboxAfterPush(handed) == IF handed THEN "sent" ELSE outbox

(* push, with what the courier accepted: handed for the propose, taken of  *)
(* the assertions.  What it refused is offered again by the next push.     *)
PushOf(n, handed, taken) ==
  /\ Free(n) /\ n \in holds
  /\ handed \/ taken # {}
  /\ LET messages == {AssertMessage(n, a) : a \in taken}
                       \cup (IF handed THEN {ProposeMessage} ELSE {})
     IN Post(messages)
  /\ sent' = (sent \/ handed)
  /\ sentAssertions' =
       [sentAssertions EXCEPT ![n] = @ \cup taken \cup CarriedByPropose(n, handed)]
  /\ outbox' = OutboxAfterPush(handed)
  /\ UNCHANGED <<holds, chain, committing, now>>

Push(n) ==
  \E handed \in {FALSE, ProposeDue(n)} :
    \E taken \in SUBSET AssertionsDue(n, handed) : PushOf(n, handed, taken)

(* The courier takes everything.                                           *)
PushAll(n) ==
  PushOf(n, ProposeDue(n), AssertionsDue(n, ProposeDue(n)))

-----------------------------------------------------------------------------
(* pull, one message of what the courier holds at a time; the courier may  *)
(* hand it over again.                                                     *)

AlreadyHeldEdgeOnly(a) == creditor \in holds
AlreadyHeld(a) == creditor \in holds /\ a \in Range(chain[creditor])

ReceivePropose ==
  \E m \in net :
    /\ m.type = "propose"
    /\ ~AlreadyHeld(m.assertion)
    /\ holds' = holds \cup {creditor}
    /\ chain' = [chain EXCEPT ![creditor] =
                   IF m.assertion \in Range(@) THEN @
                   ELSE Append(@, m.assertion)]
    /\ UNCHANGED <<committing, outbox, memory, net, now>>

(* The process dies between the two writes of ingestPropose.               *)
CrashInReceivePropose ==
  \E m \in net :
    /\ m.type = "propose"
    /\ ~AlreadyHeld(m.assertion)
    /\ holds' = holds \cup {creditor}
    /\ sentAssertions' = [sentAssertions EXCEPT ![creditor] = {}]
    /\ UNCHANGED <<chain, committing, outbox, sent, net, now>>

(* recordAcknowledgements: a message the creditor signed names the edge,   *)
(* whether or not the inbox had a use for it.                              *)
OutboxAfterPull(m) ==
  IF m.to = owner /\ m.type = "assert" /\ Unacknowledged
  THEN "acknowledged" ELSE outbox

IngestAssertUnjudged(n, a) ==
  IF n \in holds /\ a \notin Range(chain[n])
  THEN Append(chain[n], a) ELSE chain[n]

IngestAssert(n, a) ==
  IF n \in holds /\ a \notin Range(chain[n]) /\ TakenAfter(chain[n], a)
  THEN Append(chain[n], a) ELSE chain[n]

ReceiveAssert(n) ==
  \E m \in net :
    /\ Free(n)
    /\ m.type = "assert" /\ m.to = n
    /\ chain' = [chain EXCEPT ![n] = IngestAssert(n, m.assertion)]
    /\ outbox' = OutboxAfterPull(m)
    /\ <<chain', outbox'>> # <<chain, outbox>>
    /\ UNCHANGED <<holds, committing, memory, net, now>>

OPEN_FAMILYConfirmed == {"open", "pending-acceptance", "disputed"}
OPEN_FAMILY == {"proposed", "open", "pending-acceptance", "disputed"}

(* A hash of what is held, whatever the order it arrived in.               *)
LatestAssertionHash(c) == Range(c)

BuildReconRequest(n) ==
  [type |-> "recon_request", to |-> Other(n),
   digest |-> LatestAssertionHash(chain[n])]

SharedOpenEdge(n) == n \in holds /\ StateOf(chain[n]) \in OPEN_FAMILY

RequestRecon(n) ==
  /\ Free(n) /\ SharedOpenEdge(n)
  /\ BuildReconRequest(n) \notin net
  /\ Post({BuildReconRequest(n)})
  /\ UNCHANGED <<vault, committing, memory, now>>

(* The whole chain, unless the two sides hold the same set; an answer with *)
(* nothing in it is not sent.                                              *)
AnswerReconRequest(n, m) ==
  IF n \in holds /\ m.digest # LatestAssertionHash(chain[n])
  THEN {[type |-> "recon_response", to |-> Other(n), assertions |-> chain[n]]}
  ELSE {}

AnswerRecon(n) ==
  \E m \in net :
    /\ Free(n)
    /\ m.type = "recon_request" /\ m.to = n
    /\ \E response \in AnswerReconRequest(n, m) :
         response \notin net /\ Post({response})
    /\ UNCHANGED <<vault, committing, memory, now>>

ReceiveReconResponse(n) ==
  \E m \in net :
    /\ Free(n) /\ n \in holds
    /\ m.type = "recon_response" /\ m.to = n
    /\ chain' = [chain EXCEPT ![n] = ApplyReconResponse(@, m.assertions)]
    /\ chain' # chain
    /\ UNCHANGED <<holds, committing, outbox, memory, net, now>>

-----------------------------------------------------------------------------
(* A new process forgets what the old one handed over.                     *)
Restart(n) ==
  /\ Free(n)
  /\ sent' = (sent /\ n # owner)
  /\ sentAssertions' = [sentAssertions EXCEPT ![n] = {}]
  /\ UNCHANGED <<vault, committing, net, now>>

Lose ==
  \E m \in net :
    /\ net' = net \ {m}
    /\ UNCHANGED <<vault, committing, memory, now>>

Tick ==
  /\ now < MaxNow
  /\ now' = now + 1
  /\ UNCHANGED <<vault, committing, memory, net>>

Commit == CommitEdge \/ CommitAssertion \/ QueuePropose

InProcess ==
  \/ Commit \/ Confirm \/ ReleaseIt
  \/ \E evidence \in BOOLEAN : Done(evidence)
  \/ ReceivePropose
  \/ \E n \in Node :
       \/ ExpireIt(n) \/ Push(n) \/ ReceiveAssert(n)
       \/ RequestRecon(n) \/ AnswerRecon(n) \/ ReceiveReconResponse(n)
  \/ Lose \/ Tick

Next == InProcess \/ CrashInCommit \/ CrashInReceivePropose
          \/ \E n \in Node : Restart(n)

Spec == Init /\ [][Next]_vars

(* Each party keeps syncing, each sync in a new process (bin servanda      *)
(* sync), a proposal sent again and again is delivered in the end, and the *)
(* parties keep asking and answering, whatever push and pull lose.         *)
SyncingSpec ==
  /\ Spec
  /\ SF_vars(ReceivePropose)
  /\ \A n \in Node :
       /\ WF_vars(Restart(n)) /\ WF_vars(PushAll(n))
       /\ WF_vars(RequestRecon(n))
       /\ SF_vars(AnswerRecon(n))
       /\ SF_vars(ReceiveReconResponse(n))

-----------------------------------------------------------------------------
DeliveryState == {"none", "queued", "sent", "acknowledged"}

TypeOK ==
  /\ holds \subseteq Node
  /\ chain \in [Node -> Seq(Assertion)]
  /\ committing \in {"idle", "edge", "proposed", "done"}
  /\ outbox \in DeliveryState
  /\ sent \in BOOLEAN
  /\ sentAssertions \in [Node -> SUBSET Assertion]
  /\ net \subseteq Message
  /\ now \in 0..MaxNow

(* acknowledged is the one delivery state that says anything about the     *)
(* recipient (federated-node.ts): it is shown only when the creditor's     *)
(* vault holds the edge and the proposal, through losses, duplicates and   *)
(* crashes.                                                                *)
AcknowledgedMeansHeld ==
  outbox = "acknowledged" =>
    /\ creditor \in holds
    /\ chain[owner] # <<>> /\ chain[owner][1] \in Range(chain[creditor])

(* Reconciliation has nothing left to give either side.                    *)
Settled ==
  /\ holds = Node /\ \A n \in Node : chain[n] # <<>>
  /\ \A n \in Node : ApplyReconResponse(chain[n], chain[Other(n)]) = chain[n]

Agree == StateOf(chain[owner]) = StateOf(chain[creditor])

Exits == {a \in Range(chain[owner]) \cup Range(chain[creditor]) :
            a.state \in UNILATERAL_EXITS}

(* With at most one exit taken, two nodes reconciliation cannot bring      *)
(* closer are in the same state, whatever was lost, repeated or delivered  *)
(* out of order before.                                                    *)
SettledAgree == Cardinality(Exits) <= 1 /\ Settled => Agree

(* Holding the same set of assertions is enough, whatever the order each   *)
(* node received them in.                                                  *)
SameSetSameState ==
  holds = Node /\ Range(chain[owner]) = Range(chain[creditor]) => Agree

(* A proposal in the outbox reaches the creditor, though the courier may   *)
(* refuse, lose or repeat it and either process may die.                   *)
ProposeArrives == outbox # "none" ~> chain[creditor] # <<>>

(* A crash between the two writes of ingestPropose leaves an edge without  *)
(* its proposal; a redelivery completes it.                                *)
HalfReceivedCompleted == creditor \in holds ~> chain[creditor] # <<>>

(* Where at most one exit is ever taken, the two registers come to agree   *)
(* again after every divergence, whatever push and pull lose (recon.ts).    *)
EventuallyAgree ==
  (<>(Cardinality(Exits) > 1)) \/ (holds = Node /\ chain[creditor] # <<>> ~> Agree)
=============================================================================
