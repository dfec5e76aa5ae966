------------------------------ MODULE EdgeTable ------------------------------
(***************************************************************************)
(* The transition table of an edge (packages/node/src/transitions.ts).     *)
(*                                                                         *)
(* An edge is a promise between two parties, its owner and the party it is *)
(* owed_to.  Its state is never stored: it is what a verifier computes     *)
(* from the chain of signed assertions.  This module holds the verifier as *)
(* pure operators: the context a verification carries (ChainState), which  *)
(* assertions it accepts and what accepting one does.  The reason given    *)
(* for a refusal is not modelled, only that the assertion is discarded.    *)
(*                                                                         *)
(* Instants are naturals and null is Null.  A signature is the pair of the *)
(* key the assertion names (by) and the key that really produced it        *)
(* (signer); a hash of evidence is present or absent.                      *)
(***************************************************************************)
EXTENDS Integers, Sequences, FiniteSets

CONSTANTS
  Key,              \* public keys, of the parties and of anybody else
  DISPUTE_WINDOW,   \* P30D, in units of the model's clock
  EXPIRY_SKEW       \* EXPIRY_SKEW_MS, in the same unit

ASSUME WindowAssumption == DISPUTE_WINDOW \in Nat /\ EXPIRY_SKEW \in Nat

Null == -1
Time == Nat
TimeOrNull == Time \cup {Null}

WireAssertionState ==
  {"proposed", "confirmed", "open", "closed", "released", "expired",
   "disputed", "superseded"}

EffectiveState ==
  {"none", "proposed", "open", "pending-acceptance", "closed", "released",
   "expired", "contested-closure", "disputed", "superseded"}

NON_ASSERTABLE_STATES == {"open"}
UNILATERAL_EXITS == {"closed", "released", "expired"}
TERMINAL_STATES == {"closed", "released", "expired", "superseded"}

(* What of an edge body the table reads.  binds is edgeIdBindsBody.        *)
EdgeBody ==
  [edge_id : STRING, binds : BOOLEAN, due : TimeOrNull,
   closure_policy : {"on-evidence", "on-acceptance"},
   acceptance_window : TimeOrNull]

Assertion ==
  [edge_id : STRING, state : WireAssertionState, asserted_at : Time,
   by : Key, signer : Key, evidence : BOOLEAN]

(* The keys a party has held, each with the instant it stopped being       *)
(* current.                                                                *)
PartyKey == [key : Key, supersededAt : TimeOrNull]
KeyLineage == [owner : SUBSET PartyKey, owed_to : SUBSET PartyKey]

-----------------------------------------------------------------------------
(* The context of a verification.  exit is the empty set for null and a    *)
(* singleton otherwise; latest_by_signer is total, Null for no entry.      *)

ChainState ==
  [state : EffectiveState, window_opened_at : TimeOrNull,
   superseded_by : SUBSET Key, dispute_closed_by : SUBSET Key,
   exit : SUBSET [state : UNILATERAL_EXITS, by : Key, at : Time],
   contest_closed_by : SUBSET Key, contest_superseded_by : SUBSET Key,
   contested_at : TimeOrNull, disputed_at : TimeOrNull,
   latest_by_signer : [Key -> TimeOrNull], resolved_at : TimeOrNull]

InitChainState ==
  [state |-> "none", window_opened_at |-> Null,
   superseded_by |-> {}, dispute_closed_by |-> {}, exit |-> {},
   contest_closed_by |-> {}, contest_superseded_by |-> {},
   contested_at |-> Null, disputed_at |-> Null,
   latest_by_signer |-> [k \in Key |-> Null], resolved_at |-> Null]

(* An acceptance window is stated exactly when the policy is on-acceptance *)
AcceptanceWindowMalformed(e) ==
  ~((e.closure_policy = "on-acceptance") <=> (e.acceptance_window # Null))

EdgeMalformed(e) == ~e.binds \/ AcceptanceWindowMalformed(e)

-----------------------------------------------------------------------------
(* Was by this party's current key at the instant at?                      *)
HeldBy(lineage, by, at) ==
  \E k \in lineage :
    k.key = by /\ (k.supersededAt = Null \/ at < k.supersededAt)

IsOwner(lin, a) == HeldBy(lin.owner, a.by, a.asserted_at)
IsOwedTo(lin, a) == HeldBy(lin.owed_to, a.by, a.asserted_at)

(* now is Null for a clockless replay, which applies no bound.  (Here and  *)
(* below, a definition placed before another with its name as a prefix is  *)
(* a slip the properties are tried against; nothing uses it.)              *)
NotInTheFutureClockless(now, a) == a.asserted_at <= now + EXPIRY_SKEW
NotInTheFuture(now, a) == now = Null \/ a.asserted_at <= now + EXPIRY_SKEW

WindowElapsedAtOnce(openedAt, window, assertedAt) == assertedAt >= openedAt
WindowElapsed(openedAt, window, assertedAt) == assertedAt >= openedAt + window

(* Would this assertion have been a legal exit from open?                  *)
LegalUnilateralExit(e, lin, now, a) ==
  \/ a.state = "closed" /\ IsOwner(lin, a) /\ a.evidence
  \/ a.state = "released" /\ IsOwedTo(lin, a)
  \/ /\ a.state = "expired"
     /\ e.due # Null
     /\ a.asserted_at >= e.due
     /\ NotInTheFuture(now, a)

ContestsLater(c, a) ==
  /\ a.state \in UNILATERAL_EXITS
  /\ c.state # "contested-closure"
  /\ \E x \in c.exit : x.by # a.by /\ x.state # a.state

(* Another signer took a different exit from open, no later than the one   *)
(* the chain already holds.                                                *)
Contests(c, a) ==
  /\ a.state \in UNILATERAL_EXITS
  /\ c.state # "contested-closure"
  /\ \E x \in c.exit :
       x.by # a.by /\ x.state # a.state /\ a.asserted_at <= x.at

LegalFromContestedBothOnly(now, c, a) ==
  \/ a.state = "closed" /\ a.by \notin c.contest_closed_by
  \/ a.state = "superseded" /\ a.by \notin c.contest_superseded_by

(* The rows out of contested-closure.                                      *)
LegalFromContested(now, c, a) ==
  \/ a.state = "closed" /\ a.by \notin c.contest_closed_by
  \/ a.state = "superseded" /\ a.by \notin c.contest_superseded_by
  \/ /\ a.state = "expired"
     /\ c.contested_at # Null
     /\ WindowElapsed(c.contested_at, DISPUTE_WINDOW, a.asserted_at)
     /\ NotInTheFuture(now, a)

LegalClosed(e, lin, c, a) ==
  \/ c.state = "open" /\ IsOwner(lin, a) /\ a.evidence
  \/ /\ c.state = "pending-acceptance"
     /\ \/ IsOwedTo(lin, a)
        \/ /\ c.window_opened_at # Null
           /\ WindowElapsed(c.window_opened_at, e.acceptance_window,
                            a.asserted_at)
  \/ c.state = "disputed" /\ a.by \notin c.dispute_closed_by

LegalExpired(e, lin, now, c, a) ==
  \/ /\ c.state = "disputed"
     /\ c.disputed_at # Null
     /\ WindowElapsed(c.disputed_at, DISPUTE_WINDOW, a.asserted_at)
  \/ c.state = "open" /\ LegalUnilateralExit(e, lin, now, a)

(* The rows of the table proper: every source state that is neither        *)
(* terminal nor contested-closure.                                         *)
LegalByTable(e, lin, now, c, a) ==
  CASE a.state = "proposed"   -> c.state = "none" /\ IsOwner(lin, a)
    [] a.state = "confirmed"  -> c.state = "proposed" /\ IsOwedTo(lin, a)
    [] a.state = "closed"     -> LegalClosed(e, lin, c, a)
    [] a.state = "released"   -> c.state = "open" /\ IsOwedTo(lin, a)
    [] a.state = "expired"    -> LegalExpired(e, lin, now, c, a)
    [] a.state = "disputed"   -> /\ c.state \in {"open", "pending-acceptance"}
                                 /\ a.evidence
    [] a.state = "superseded" -> /\ c.state \in {"open", "disputed"}
                                 /\ a.by \notin c.superseded_by
    [] OTHER                  -> FALSE

AuthenticUnverified(e, a) == a.edge_id = e.edge_id

(* The assertion is about this edge, and the key it names signed it.       *)
Authentic(e, a) == a.edge_id = e.edge_id /\ a.signer = a.by

(* No signer goes back in time.                                            *)
InSignersOrder(c, a) == a.asserted_at >= c.latest_by_signer[a.by]

(* The whole of step's judgement, with the two checks that precede it in   *)
(* verifyAssertionChain: a malformed edge accepts nothing, and a signer's  *)
(* own dates never decrease.                                               *)
Accepts(e, lin, now, c, a) ==
  /\ ~EdgeMalformed(e)
  /\ InSignersOrder(c, a)
  /\ Authentic(e, a)
  /\ IsOwner(lin, a) \/ IsOwedTo(lin, a)
  /\ a.state \notin NON_ASSERTABLE_STATES
  /\ IF Contests(c, a) THEN LegalUnilateralExit(e, lin, now, a)
     ELSE /\ c.state \notin TERMINAL_STATES
          /\ IF c.state = "contested-closure"
             THEN LegalFromContested(now, c, a)
             ELSE LegalByTable(e, lin, now, c, a)

-----------------------------------------------------------------------------
(* What accepting an assertion does to the context.                        *)

Resolve(c, s, a) == [c EXCEPT !.state = s, !.resolved_at = a.asserted_at]

RecordExitFrom(c, a) ==
  [c EXCEPT !.exit = {[state |-> c.state, by |-> a.by, at |-> a.asserted_at]}]
RecordExit(c, a) ==
  [c EXCEPT !.exit = {[state |-> a.state, by |-> a.by, at |-> a.asserted_at]}]

TwoHaveSignedOrOne(seen, a) == Cardinality(seen \cup {a.by}) > 0

(* The second distinct signer of a joint act completes it.                 *)
TwoHaveSigned(seen, a) == Cardinality(seen \cup {a.by}) = 2

JointClose(c, a) ==
  LET signed == [c EXCEPT !.dispute_closed_by = @ \cup {a.by}]
  IN IF TwoHaveSigned(c.dispute_closed_by, a)
     THEN Resolve(signed, "closed", a) ELSE signed

JointSupersede(c, a) ==
  LET signed == [c EXCEPT !.superseded_by = @ \cup {a.by}]
  IN IF TwoHaveSigned(c.superseded_by, a)
     THEN Resolve(signed, "superseded", a) ELSE signed

ContestClose(c, a) ==
  LET signed == [c EXCEPT !.contest_closed_by = @ \cup {a.by}]
  IN IF TwoHaveSigned(c.contest_closed_by, a)
     THEN Resolve(signed, "closed", a) ELSE signed

ContestSupersede(c, a) ==
  LET signed == [c EXCEPT !.contest_superseded_by = @ \cup {a.by}]
  IN IF TwoHaveSigned(c.contest_superseded_by, a)
     THEN Resolve(signed, "superseded", a) ELSE signed

Contest(c, a) ==
  [Resolve(c, "contested-closure", a) EXCEPT !.contested_at = a.asserted_at]

(* The owner's evidence: it closes under on-evidence and opens the         *)
(* acceptance window under on-acceptance.                                  *)
EvidenceClose(e, c, a) ==
  IF e.closure_policy = "on-evidence"
  THEN Resolve(RecordExit(c, a), "closed", a)
  ELSE [RecordExit(c, a) EXCEPT !.state = "pending-acceptance",
                                !.window_opened_at = a.asserted_at]

EffectFromContested(c, a) ==
  CASE a.state = "closed"     -> ContestClose(c, a)
    [] a.state = "superseded" -> ContestSupersede(c, a)
    [] a.state = "expired"    -> Resolve(c, "expired", a)

EffectOfClosed(e, c, a) ==
  CASE c.state = "open"               -> EvidenceClose(e, c, a)
    [] c.state = "pending-acceptance" -> Resolve(c, "closed", a)
    [] c.state = "disputed"           -> JointClose(c, a)

EffectByTable(e, c, a) ==
  CASE a.state = "proposed"   -> [c EXCEPT !.state = "proposed"]
    [] a.state = "confirmed"  -> [c EXCEPT !.state = "open"]
    [] a.state = "closed"     -> EffectOfClosed(e, c, a)
    [] a.state = "released"   -> Resolve(RecordExit(c, a), "released", a)
    [] a.state = "expired"    -> IF c.state = "open"
                                 THEN Resolve(RecordExit(c, a), "expired", a)
                                 ELSE Resolve(c, "expired", a)
    [] a.state = "disputed"   -> [c EXCEPT !.state = "disputed",
                                           !.disputed_at = a.asserted_at]
    [] a.state = "superseded" -> JointSupersede(c, a)

Effect(e, c, a) ==
  LET moved == CASE Contests(c, a)                 -> Contest(c, a)
                 [] ~Contests(c, a) /\ c.state = "contested-closure"
                                                   -> EffectFromContested(c, a)
                 [] OTHER                          -> EffectByTable(e, c, a)
  IN [moved EXCEPT !.latest_by_signer[a.by] = a.asserted_at]

(* One assertion of a chain: applied when accepted, discarded otherwise.   *)
Step(e, lin, now, c, a) ==
  IF Accepts(e, lin, now, c, a) THEN Effect(e, c, a) ELSE c

(* verifyAssertionChain: the context after the whole chain.                *)
VerifyAssertionChain(e, lin, now, chain) ==
  LET after[i \in 0..Len(chain)] ==
        IF i = 0 THEN InitChainState
        ELSE LET c == after[i - 1] IN Step(e, lin, now, c, chain[i])
  IN after[Len(chain)]

(* The instant the dispute window runs from, Null in every other state.    *)
DeadlockedSince(c) ==
  CASE c.state = "disputed"          -> c.disputed_at
    [] c.state = "contested-closure" -> c.contested_at
    [] OTHER                         -> Null
=============================================================================
