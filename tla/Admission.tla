----------------------------- MODULE Admission ------------------------------
(***************************************************************************)
(* What a node lets in (federation/src/inbox.ts, antispam.ts): every read  *)
(* of the hub hands the inbox everything still queued, and each proposal   *)
(* among it is judged in turn.  The budget for strangers is memory and     *)
(* starts at zero in every process; the edges are in the vault.            *)
(*                                                                         *)
(* A stranger is a sender at level 0: nothing of its is confirmed.  What   *)
(* raises a level otherwise is in Ladder.                                  *)
(***************************************************************************)
EXTENDS HubQueue, FiniteSets

CONSTANTS
  levelZeroCap,            \* ProposalBudget options
  perUnknownSenderLimit,
  windowMs

ASSUME BudgetAssumption ==
  levelZeroCap \in Nat /\ perUnknownSenderLimit \in Nat /\ windowMs \in Nat

VARIABLES
  edges,       \* proposals held in the vault
  confirmed,   \* the ones Node has confirmed
  budget,      \* the process's ProposalBudget
  surfaced     \* strangers' proposals this process let in that were not
               \* held before (history)

NoneSpent == [recent |-> [s \in Sender |-> {}], surfacedLevelZero |-> 0]

vars == <<clock, mail, edges, confirmed, budget, surfaced>>

-----------------------------------------------------------------------------
(* node.ts verificationLevel, the part that rests on confirmed edges.      *)
LevelZero(s) == \A e \in confirmed : Proposer[e] # s

(* antispam.ts admit.  A time of the window counts once: two of one        *)
(* instant are told apart by the edge they were spent on.                  *)
Recent(b, s) == {x \in b.recent[s] : clock - x.at < windowMs}

Admits(b, s) ==
  /\ Cardinality(Recent(b, s)) < perUnknownSenderLimit
  /\ b.surfacedLevelZero < levelZeroCap

Spend(b, e) ==
  [recent |-> [b.recent EXCEPT ![Proposer[e]] =
                 Recent(b, Proposer[e]) \cup {[at |-> clock, edge |-> e]}],
   surfacedLevelZero |-> b.surfacedLevelZero + 1]

(* inbox.ts ingestPropose: a redelivery is accepted before the budget is   *)
(* asked; a suppressed proposal leaves no trace.  (AlreadyHeldNever is a   *)
(* slip the properties are tried against.)                                 *)
AlreadyHeldNever(st, e) == FALSE
AlreadyHeld(st, e) == e \in st.edges

IngestPropose(st, m) ==
  LET e == m.edge IN
  IF AlreadyHeld(st, e) THEN st
  ELSE IF ~LevelZero(m.sender) THEN [st EXCEPT !.edges = @ \cup {e}]
  ELSE IF ~Admits(st.budget, m.sender) THEN st
  ELSE [edges |-> st.edges \cup {e}, budget |-> Spend(st.budget, e),
        surfaced |-> st.surfaced
                       \cup ([at : {clock}, edge : {e} \ st.edges])]

(* inbox.ts ingest: what is received of one read, in its order.            *)
Ingest(envelopes) ==
  LET after[i \in 0..Len(envelopes)] ==
        IF i = 0 THEN [edges |-> edges, budget |-> budget, surfaced |-> surfaced]
        ELSE IF Received(envelopes[i])
        THEN IngestPropose(after[i - 1], envelopes[i].message) ELSE after[i - 1]
  IN after[Len(envelopes)]

-----------------------------------------------------------------------------
Init ==
  /\ HubInit
  /\ edges = {} /\ confirmed = {} /\ budget = NoneSpent /\ surfaced = {}

(* FederatedNode.pull over a hub.                                          *)
Pull(r) ==
  /\ ReadInbox(r)
  /\ LET after == Ingest(Kept(reader[r].hub)) IN
       /\ edges' = after.edges
       /\ budget' = after.budget
       /\ surfaced' = after.surfaced
  /\ UNCHANGED confirmed

Confirm(e) ==
  /\ e \in edges \ confirmed
  /\ confirmed' = confirmed \cup {e}
  /\ UNCHANGED <<clock, mail, edges, budget, surfaced>>

(* A new process: its budget and the read it was in are gone.              *)
Restart ==
  /\ budget # NoneSpent
  /\ budget' = NoneSpent /\ surfaced' = {}
  /\ reader' = [r \in Reader |-> NotReading]
  /\ UNCHANGED <<clock, records, queue, challenges, nonce, seen, sent, handed,
                 edges, confirmed>>

Next ==
  \/ (HubStep \/ Tick) /\ UNCHANGED <<edges, confirmed, budget, surfaced>>
  \/ \E r \in Reader : Pull(r)
  \/ \E e \in Proposal : Confirm(e)
  \/ Restart

Spec == Init /\ [][Next]_vars

-----------------------------------------------------------------------------
Spending == [at : 0..MaxTime, edge : Proposal]

TypeOK ==
  /\ HubTypeOK
  /\ confirmed \subseteq edges /\ edges \subseteq Proposal
  /\ budget.recent \in [Sender -> SUBSET Spending]
  /\ budget.surfacedLevelZero \in 0..levelZeroCap
  /\ surfaced \subseteq Spending

(* The budget counts proposals, not deliveries: a hub hands the same queue *)
(* over on every read and a sender may send again, yet what is spent is    *)
(* exactly the strangers' proposals this process let in, within the cap    *)
(* and within the sender's allowance in every window.                      *)
BudgetCountsProposals ==
  /\ budget.surfacedLevelZero = Cardinality({x.edge : x \in surfaced})
  /\ budget.surfacedLevelZero <= levelZeroCap
  /\ {x.edge : x \in surfaced} \subseteq edges
  /\ \A s \in Sender, t \in 0..MaxTime :
       Cardinality({x \in surfaced : Proposer[x.edge] = s
                      /\ x.at \in t..(t + windowMs - 1)})
         <= perUnknownSenderLimit
=============================================================================
