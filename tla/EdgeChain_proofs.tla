--------------------------- MODULE EdgeChain_proofs ---------------------------
(***************************************************************************)
(* Theorems about one edge's chain, for every set of keys and assertions,  *)
(* every lineage and every bound.                                          *)
(***************************************************************************)
EXTENDS Offers, FiniteSetTheorems, TLAPS

-----------------------------------------------------------------------------
(* Every context update keeps the context well typed.                      *)

(* Moving to a state and dating the move keeps the type.                   *)
LEMMA ResolveType ==
  ASSUME NEW c \in ChainState, NEW a \in Assertion, NEW s \in EffectiveState
  PROVE  Resolve(c, s, a) \in ChainState
BY DEF Resolve, ChainState, Assertion, TimeOrNull

(* Recording an exit keeps the type.                                       *)
LEMMA RecordExitType ==
  ASSUME NEW c \in ChainState, NEW a \in Assertion, a.state \in UNILATERAL_EXITS
  PROVE  RecordExit(c, a) \in ChainState
BY DEF RecordExit, ChainState, Assertion

(* The four joint acts keep the type.                                      *)
LEMMA JointType ==
  ASSUME NEW c \in ChainState, NEW a \in Assertion
  PROVE  /\ JointClose(c, a) \in ChainState
         /\ JointSupersede(c, a) \in ChainState
         /\ ContestClose(c, a) \in ChainState
         /\ ContestSupersede(c, a) \in ChainState
<1>1. "closed" \in EffectiveState /\ "superseded" \in EffectiveState
  BY DEF EffectiveState
<1>2. JointClose(c, a) \in ChainState
  BY <1>1, ResolveType DEF JointClose, ChainState, Assertion
<1>3. JointSupersede(c, a) \in ChainState
  BY <1>1, ResolveType DEF JointSupersede, ChainState, Assertion
<1>4. ContestClose(c, a) \in ChainState
  BY <1>1, ResolveType DEF ContestClose, ChainState, Assertion
<1>5. ContestSupersede(c, a) \in ChainState
  BY <1>1, ResolveType DEF ContestSupersede, ChainState, Assertion
<1>6. QED
  BY <1>2, <1>3, <1>4, <1>5

(* Naming a contest keeps the type.                                        *)
LEMMA ContestType ==
  ASSUME NEW c \in ChainState, NEW a \in Assertion
  PROVE  Contest(c, a) \in ChainState
<1>1. Resolve(c, "contested-closure", a) \in ChainState
  BY ResolveType DEF EffectiveState
<1>2. QED
  BY <1>1 DEF Contest, ChainState, Assertion, TimeOrNull

(* The rows out of contested-closure keep the type.                        *)
LEMMA EffectFromContestedType ==
  ASSUME NEW t, NEW c \in ChainState, NEW a \in Assertion,
         LegalFromContested(t, c, a)
  PROVE  /\ a.state \in {"closed", "superseded", "expired"}
         /\ EffectFromContested(c, a) \in ChainState
<1>1. a.state \in {"closed", "superseded", "expired"}
  BY DEF LegalFromContested
<1>2. Resolve(c, "expired", a) \in ChainState
  BY ResolveType DEF EffectiveState
<1>3. QED
  BY <1>1, <1>2, JointType DEF EffectFromContested

(* The owner's evidence keeps the type.                                    *)
LEMMA EvidenceCloseType ==
  ASSUME NEW e, NEW c \in ChainState, NEW a \in Assertion, a.state = "closed"
  PROVE  EvidenceClose(e, c, a) \in ChainState
<1>1. RecordExit(c, a) \in ChainState
  BY RecordExitType DEF UNILATERAL_EXITS
<1>2. Resolve(RecordExit(c, a), "closed", a) \in ChainState
  BY <1>1, ResolveType DEF EffectiveState
<1>3. [RecordExit(c, a) EXCEPT !.state = "pending-acceptance",
                               !.window_opened_at = a.asserted_at] \in ChainState
  BY <1>1 DEF ChainState, Assertion, TimeOrNull, EffectiveState
<1>4. QED
  BY <1>2, <1>3 DEF EvidenceClose

(* The rows of the table keep the type.                                    *)
LEMMA EffectByTableType ==
  ASSUME NEW e, NEW lin, NEW t, NEW c \in ChainState, NEW a \in Assertion,
         LegalByTable(e, lin, t, c, a)
  PROVE  EffectByTable(e, c, a) \in ChainState
<1>1. a.state \in {"proposed", "confirmed", "closed", "released", "expired",
                   "disputed", "superseded"}
  BY DEF LegalByTable
<1>2. CASE a.state = "closed"
  <2>1. c.state \in {"open", "pending-acceptance", "disputed"}
    BY <1>2 DEF LegalByTable, LegalClosed
  <2>2. Resolve(c, "closed", a) \in ChainState
    BY ResolveType DEF EffectiveState
  <2>3. EffectOfClosed(e, c, a) \in ChainState
    BY <1>2, <2>1, <2>2, EvidenceCloseType, JointType DEF EffectOfClosed
  <2>4. QED
    BY <1>2, <2>3 DEF EffectByTable
<1>3. CASE a.state = "disputed"
  <2>1. [c EXCEPT !.state = "disputed", !.disputed_at = a.asserted_at]
          \in ChainState
    BY DEF ChainState, Assertion, TimeOrNull, EffectiveState
  <2>2. EffectByTable(e, c, a)
          = [c EXCEPT !.state = "disputed", !.disputed_at = a.asserted_at]
    BY <1>3 DEF EffectByTable
  <2>3. QED
    BY <2>1, <2>2, Zenon
<1>4. CASE a.state \in {"released", "expired"}
  <2>1. a.state \in UNILATERAL_EXITS /\ a.state \in EffectiveState
    BY <1>4 DEF UNILATERAL_EXITS, EffectiveState
  <2>2. /\ Resolve(RecordExit(c, a), a.state, a) \in ChainState
        /\ Resolve(c, a.state, a) \in ChainState
    BY <2>1, RecordExitType, ResolveType
  <2>3. QED
    BY <1>4, <2>2 DEF EffectByTable
<1>5. CASE a.state \in {"proposed", "confirmed"}
  <2>1. \A s \in {"proposed", "open"} : [c EXCEPT !.state = s] \in ChainState
    BY DEF ChainState, EffectiveState
  <2>2. QED
    BY <1>5, <2>1 DEF EffectByTable
<1>6. CASE a.state = "superseded"
  BY <1>6, JointType DEF EffectByTable
<1>7. QED
  BY <1>1, <1>2, <1>3, <1>4, <1>5, <1>6

(* The context with the signer's latest assertion dated.                   *)
Dated(d, a) == [d EXCEPT !.latest_by_signer[a.by] = a.asserted_at]

(* Dating keeps the type and every other member.                           *)
LEMMA DatedKeeps ==
  ASSUME NEW d \in ChainState, NEW a \in Assertion
  PROVE  /\ Dated(d, a) \in ChainState
         /\ Dated(d, a).state = d.state
         /\ Dated(d, a).exit = d.exit
         /\ Dated(d, a).superseded_by = d.superseded_by
         /\ Dated(d, a).contest_superseded_by = d.contest_superseded_by
BY DEF Dated, ChainState, Assertion, TimeOrNull

(* Accepting an assertion is one of three things: naming a contest, a row  *)
(* out of contested-closure, or a row of the table.                        *)
LEMMA EffectCases ==
  ASSUME NEW e, NEW lin, NEW t, NEW c, NEW a, Accepts(e, lin, t, c, a)
  PROVE  \/ Contests(c, a) /\ Effect(e, c, a) = Dated(Contest(c, a), a)
         \/ /\ c.state = "contested-closure"
            /\ LegalFromContested(t, c, a)
            /\ Effect(e, c, a) = Dated(EffectFromContested(c, a), a)
         \/ /\ ~Contests(c, a)
            /\ c.state # "contested-closure"
            /\ LegalByTable(e, lin, t, c, a)
            /\ Effect(e, c, a) = Dated(EffectByTable(e, c, a), a)
BY DEF Accepts, Effect, Dated

(* Accepting an assertion keeps the context well typed.                    *)
LEMMA EffectType ==
  ASSUME NEW e, NEW lin, NEW t, NEW c \in ChainState, NEW a \in Assertion,
         Accepts(e, lin, t, c, a)
  PROVE  Effect(e, c, a) \in ChainState
BY EffectCases, DatedKeeps, ContestType, EffectFromContestedType,
   EffectByTableType

-----------------------------------------------------------------------------
(* The context before any assertion is well typed.                         *)
LEMMA InitChainStateType == InitChainState \in ChainState
BY DEF InitChainState, ChainState, EffectiveState, TimeOrNull

(* Every step of the chain is one accepted assertion, or the clock.        *)
LEMMA NextCases ==
  ASSUME TypeOK, [Next]_vars
  PROVE  \/ \E a \in Wire : Store(a)
         \/ UNCHANGED <<edge, chain, ctx>> /\ now' \in 0..MaxNow
<1>1. CASE Tick
  BY <1>1, ChainAssumption DEF Tick, TypeOK
<1>2. CASE UNCHANGED vars
  BY <1>2 DEF vars, TypeOK
<1>3. CASE OwnerExpires
  BY <1>3 DEF OwnerExpires
<1>4. CASE Propose \/ Confirm \/ Close \/ Release \/ Expire \/ Dispute \/ Supersede
  BY <1>4 DEF Propose, Confirm, Close, Release, Expire, Dispute, Supersede, Take
<1>5. QED
  BY <1>1, <1>2, <1>3, <1>4 DEF Next

(* Type correctness: the chain, the context and the clock never leave      *)
(* their types, whatever arrives.                                          *)
THEOREM TypeCorrect == Spec => []TypeOK
<1>1. Init => TypeOK
  BY InitChainStateType, ChainAssumption DEF Init, TypeOK
<1>2. TypeOK /\ [Next]_vars => TypeOK'
  <2> SUFFICES ASSUME TypeOK, [Next]_vars
               PROVE  TypeOK'
    OBVIOUS
  <2>1. ASSUME NEW a \in Wire, Store(a)
        PROVE  TypeOK'
    <3>1. a \in Assertion /\ ctx \in ChainState
      BY ChainAssumption DEF TypeOK
    <3>2. ctx' \in ChainState
      BY <2>1, <3>1, EffectType DEF Store
    <3>3. chain' \in Seq(Wire)
      BY <2>1 DEF Store, TypeOK
    <3>4. edge' \in Edge /\ now' \in 0..MaxNow
      BY <2>1 DEF Store, TypeOK
    <3>5. QED
      BY <3>2, <3>3, <3>4 DEF TypeOK
  <2>2. CASE UNCHANGED <<edge, chain, ctx>> /\ now' \in 0..MaxNow
    BY <2>2 DEF TypeOK
  <2>3. QED
    BY <2>1, <2>2, NextCases
<1>3. QED
  BY <1>1, <1>2, PTL DEF Spec

-----------------------------------------------------------------------------
(* Confirm-first.                                                          *)

(* The state each kind of update leaves behind.                            *)
LEMMA StateAfter ==
  ASSUME NEW c \in ChainState, NEW a \in Assertion
  PROVE  /\ \A d \in ChainState, s \in EffectiveState : Resolve(d, s, a).state = s
         /\ Contest(c, a).state = "contested-closure"
         /\ RecordExit(c, a).state = c.state
         /\ JointClose(c, a).state \in {c.state, "closed"}
         /\ JointSupersede(c, a).state \in {c.state, "superseded"}
         /\ ContestClose(c, a).state \in {c.state, "closed"}
         /\ ContestSupersede(c, a).state \in {c.state, "superseded"}
<1>1. \A d \in ChainState, s \in EffectiveState : Resolve(d, s, a).state = s
  BY DEF Resolve, ChainState
<1>2. Contest(c, a).state = "contested-closure"
  BY DEF Contest, Resolve, ChainState
<1>3. RecordExit(c, a).state = c.state
  BY DEF RecordExit, ChainState
<1>4. JointClose(c, a).state \in {c.state, "closed"}
  BY DEF JointClose, Resolve, ChainState
<1>5. JointSupersede(c, a).state \in {c.state, "superseded"}
  BY DEF JointSupersede, Resolve, ChainState
<1>6. ContestClose(c, a).state \in {c.state, "closed"}
  BY DEF ContestClose, Resolve, ChainState
<1>7. ContestSupersede(c, a).state \in {c.state, "superseded"}
  BY DEF ContestSupersede, Resolve, ChainState
<1>8. QED
  BY <1>1, <1>2, <1>3, <1>4, <1>5, <1>6, <1>7

(* The first two moves of a chain are the owner's proposal and the         *)
(* creditor's confirmation, and no later move leads back before them.      *)
LEMMA OpeningMoves ==
  ASSUME NEW e, NEW lin, NEW t, NEW c \in ChainState, NEW a \in Assertion,
         Accepts(e, lin, t, c, a),
         c.state \in {"none", "proposed"} => c.exit = {}
  PROVE  /\ c.state = "none" =>
              /\ a.state = "proposed" /\ IsOwner(lin, a)
              /\ Effect(e, c, a).state = "proposed"
              /\ Effect(e, c, a).exit = {}
         /\ c.state = "proposed" =>
              /\ a.state = "confirmed" /\ IsOwedTo(lin, a)
              /\ Effect(e, c, a).state = "open"
         /\ c.state \notin {"none", "proposed"} =>
              Effect(e, c, a).state \notin {"none", "proposed"}
<1>1. ASSUME c.state \in {"none", "proposed"}
      PROVE  /\ LegalByTable(e, lin, t, c, a)
             /\ Effect(e, c, a) = Dated(EffectByTable(e, c, a), a)
  <2>1. ~Contests(c, a)
    BY <1>1 DEF Contests
  <2>2. QED
    BY <1>1, <2>1, EffectCases
<1>2. ASSUME c.state = "none"
      PROVE  /\ a.state = "proposed" /\ IsOwner(lin, a)
             /\ Effect(e, c, a).state = "proposed"
             /\ Effect(e, c, a).exit = {}
  <2>1. a.state = "proposed" /\ IsOwner(lin, a)
    BY <1>1, <1>2 DEF LegalByTable, LegalClosed, LegalExpired
  <2>2. EffectByTable(e, c, a) = [c EXCEPT !.state = "proposed"]
    BY <2>1 DEF EffectByTable
  <2>3. /\ EffectByTable(e, c, a).state = "proposed"
        /\ EffectByTable(e, c, a).exit = {}
    BY <1>2, <2>2 DEF ChainState
  <2>4. QED
    BY <1>1, <1>2, <2>1, <2>3, EffectByTableType, DatedKeeps
<1>3. ASSUME c.state = "proposed"
      PROVE  /\ a.state = "confirmed" /\ IsOwedTo(lin, a)
             /\ Effect(e, c, a).state = "open"
  <2>1. a.state = "confirmed" /\ IsOwedTo(lin, a)
    BY <1>1, <1>3 DEF LegalByTable, LegalClosed, LegalExpired
  <2>2. EffectByTable(e, c, a) = [c EXCEPT !.state = "open"]
    BY <2>1 DEF EffectByTable
  <2>3. EffectByTable(e, c, a).state = "open"
    BY <2>2 DEF ChainState
  <2>4. QED
    BY <1>1, <1>3, <2>1, <2>3, EffectByTableType, DatedKeeps
<1>4. ASSUME c.state \notin {"none", "proposed"}
      PROVE  Effect(e, c, a).state \notin {"none", "proposed"}
  <2>1. CASE Effect(e, c, a) = Dated(Contest(c, a), a)
    BY <2>1, ContestType, StateAfter, DatedKeeps
  <2>2. CASE /\ c.state = "contested-closure"
             /\ LegalFromContested(t, c, a)
             /\ Effect(e, c, a) = Dated(EffectFromContested(c, a), a)
    <3>1. EffectFromContested(c, a).state \notin {"none", "proposed"}
      BY <2>2, EffectFromContestedType, StateAfter
      DEF EffectFromContested, EffectiveState
    <3>2. QED
      BY <2>2, <3>1, EffectFromContestedType, DatedKeeps
  <2>3. CASE /\ LegalByTable(e, lin, t, c, a)
             /\ Effect(e, c, a) = Dated(EffectByTable(e, c, a), a)
    <3>1. EffectByTable(e, c, a).state \notin {"none", "proposed"}
      <4>1. CASE a.state = "closed"
        <5>1. c.state \in {"open", "pending-acceptance", "disputed"}
          BY <2>3, <4>1 DEF LegalByTable, LegalClosed
        <5>2. RecordExit(c, a) \in ChainState
          BY <4>1, RecordExitType DEF UNILATERAL_EXITS
        <5>3. EvidenceClose(e, c, a).state \in {"closed", "pending-acceptance"}
          BY <5>2, StateAfter DEF EvidenceClose, EffectiveState, ChainState
        <5>4. EffectOfClosed(e, c, a).state \notin {"none", "proposed"}
          BY <5>1, <5>3, StateAfter DEF EffectOfClosed, EffectiveState
        <5>5. QED
          BY <4>1, <5>4 DEF EffectByTable
      <4>2. CASE a.state \in {"released", "expired"}
        <5>1. RecordExit(c, a) \in ChainState
          BY <4>2, RecordExitType DEF UNILATERAL_EXITS
        <5>2. QED
          BY <4>2, <5>1, StateAfter DEF EffectByTable, EffectiveState
      <4>3. CASE a.state = "disputed"
        BY <4>3 DEF EffectByTable, ChainState
      <4>4. CASE a.state = "superseded"
        BY <1>4, <4>4, StateAfter DEF EffectByTable
      <4>5. a.state \in {"closed", "released", "expired", "disputed", "superseded"}
        BY <1>4, <2>3 DEF LegalByTable
      <4>6. QED
        BY <4>1, <4>2, <4>3, <4>4, <4>5
    <3>2. QED
      BY <2>3, <3>1, EffectByTableType, DatedKeeps
  <2>4. QED
    BY <2>1, <2>2, <2>3, EffectCases
<1>5. QED
  BY <1>2, <1>3, <1>4

-----------------------------------------------------------------------------
(* The owner's proposal is in the chain.                                   *)
ProposalSigned ==
  \E i \in 1..Len(chain) :
    chain[i].state = "proposed" /\ SignedByOwner(chain[i])

(* The strengthening of ConfirmFirst.  The proposal has to be remembered   *)
(* before the confirmation arrives, and no exit may be on record before    *)
(* the edge is open, or a contest could skip both signatures.              *)
ConfirmFirstInv ==
  /\ TypeOK
  /\ ctx.state \in {"none", "proposed"} => ctx.exit = {}
  /\ ctx.state # "none" => ProposalSigned
  /\ ConfirmFirst

(* No edge takes effect without the owner's proposal followed by the       *)
(* counterparty's confirmation, for every lineage, whatever arrives.       *)
THEOREM ConfirmFirstHolds == Spec => []ConfirmFirst
<1>1. Init => ConfirmFirstInv
  BY InitChainStateType, ChainAssumption
  DEF Init, ConfirmFirstInv, ConfirmFirst, TypeOK, InitChainState
<1>2. ConfirmFirstInv /\ [Next]_vars => ConfirmFirstInv'
  <2> SUFFICES ASSUME ConfirmFirstInv, [Next]_vars
               PROVE  ConfirmFirstInv'
    OBVIOUS
  <2>0. TypeOK
    BY DEF ConfirmFirstInv
  <2>1. ASSUME NEW a \in Wire, Store(a)
        PROVE  ConfirmFirstInv'
    <3>1. a \in Assertion /\ ctx \in ChainState /\ chain \in Seq(Wire)
      BY <2>0, ChainAssumption DEF TypeOK
    <3>2. /\ Accepts(edge, Lineage, now, ctx, a)
          /\ ctx' = Effect(edge, ctx, a)
          /\ chain' = Append(chain, a)
          /\ edge' = edge /\ now' = now
      BY <2>1 DEF Store
    <3>3. a.signer = a.by
      BY <3>2 DEF Accepts, Authentic
    <3>4. /\ Len(chain) \in Nat
          /\ Len(chain') = Len(chain) + 1
          /\ chain'[Len(chain) + 1] = a
          /\ \A i \in 1..Len(chain) : chain'[i] = chain[i]
      BY <3>1, <3>2
    <3>5. TypeOK'
      <4>1. ctx' \in ChainState
        BY <3>1, <3>2, EffectType
      <4>2. chain' \in Seq(Wire)
        BY <3>1, <3>2
      <4>3. QED
        BY <2>0, <3>2, <4>1, <4>2 DEF TypeOK
    <3>6. ctx.state \in {"none", "proposed"} => ctx.exit = {}
      BY DEF ConfirmFirstInv
    <3>7. /\ ctx.state = "none" =>
              /\ a.state = "proposed" /\ IsOwner(Lineage, a)
              /\ ctx'.state = "proposed" /\ ctx'.exit = {}
          /\ ctx.state = "proposed" =>
              /\ a.state = "confirmed" /\ IsOwedTo(Lineage, a)
              /\ ctx'.state = "open"
          /\ ctx.state \notin {"none", "proposed"} =>
              ctx'.state \notin {"none", "proposed"}
      <4>1. Accepts(edge, Lineage, now, ctx, a)
        BY <3>2
      <4>2. /\ ctx.state = "none" =>
                /\ a.state = "proposed" /\ IsOwner(Lineage, a)
                /\ Effect(edge, ctx, a).state = "proposed"
                /\ Effect(edge, ctx, a).exit = {}
            /\ ctx.state = "proposed" =>
                /\ a.state = "confirmed" /\ IsOwedTo(Lineage, a)
                /\ Effect(edge, ctx, a).state = "open"
            /\ ctx.state \notin {"none", "proposed"} =>
                Effect(edge, ctx, a).state \notin {"none", "proposed"}
        BY <3>1, <3>6, <4>1, OpeningMoves
      <4>3. QED
        BY <3>2, <4>2, Zenon
    <3>8. CASE ctx.state = "none"
      <4>1. /\ a.state = "proposed" /\ IsOwner(Lineage, a)
            /\ ctx'.state = "proposed" /\ ctx'.exit = {}
        BY <3>8, <3>7, Zenon
      <4>2. ProposalSigned'
        BY <3>3, <3>4, <4>1 DEF ProposalSigned, SignedByOwner, IsOwner
      <4>3. QED
        BY <3>5, <4>1, <4>2 DEF ConfirmFirstInv, ConfirmFirst
    <3>9. CASE ctx.state = "proposed"
      <4>1. /\ a.state = "confirmed" /\ IsOwedTo(Lineage, a)
            /\ ctx'.state = "open"
        BY <3>9, <3>7, Zenon
      <4>2. PICK i \in 1..Len(chain) :
              chain[i].state = "proposed" /\ SignedByOwner(chain[i])
        BY <3>9 DEF ConfirmFirstInv, ProposalSigned
      <4>3. /\ i \in 1..Len(chain') /\ Len(chain) + 1 \in 1..Len(chain')
            /\ i < Len(chain) + 1
            /\ chain'[i].state = "proposed" /\ SignedByOwner(chain'[i])
        BY <3>4, <4>2
      <4>4. /\ chain'[Len(chain) + 1].state = "confirmed"
            /\ SignedByOwedTo(chain'[Len(chain) + 1])
        BY <3>3, <3>4, <4>1 DEF SignedByOwedTo, IsOwedTo
      <4>5. ProposalSigned'
        BY <4>3 DEF ProposalSigned, SignedByOwner
      <4>6. ConfirmFirst'
        BY <4>3, <4>4 DEF ConfirmFirst, SignedByOwner, SignedByOwedTo
      <4>7. QED
        BY <3>5, <4>1, <4>5, <4>6 DEF ConfirmFirstInv
    <3>10. CASE ctx.state \notin {"none", "proposed"}
      <4>1. ctx'.state \notin {"none", "proposed"}
        BY <3>10, <3>7, Zenon
      <4>2. PICK i, j \in 1..Len(chain) :
              /\ i < j
              /\ chain[i].state = "proposed" /\ SignedByOwner(chain[i])
              /\ chain[j].state = "confirmed" /\ SignedByOwedTo(chain[j])
        BY <3>10 DEF ConfirmFirstInv, ConfirmFirst
      <4>3. /\ i \in 1..Len(chain') /\ j \in 1..Len(chain')
            /\ i < j
            /\ chain'[i].state = "proposed" /\ SignedByOwner(chain'[i])
            /\ chain'[j].state = "confirmed" /\ SignedByOwedTo(chain'[j])
        BY <3>4, <4>2
      <4>4. ProposalSigned'
        BY <4>3 DEF ProposalSigned, SignedByOwner
      <4>5. ConfirmFirst'
        BY <4>3 DEF ConfirmFirst, SignedByOwner, SignedByOwedTo
      <4>6. QED
        BY <3>5, <4>1, <4>4, <4>5 DEF ConfirmFirstInv
    <3>11. QED
      BY <3>8, <3>9, <3>10
  <2>2. CASE UNCHANGED <<edge, chain, ctx>> /\ now' \in 0..MaxNow
    BY <2>2 DEF ConfirmFirstInv, ConfirmFirst, ProposalSigned, TypeOK,
                SignedByOwner, SignedByOwedTo
  <2>3. QED
    BY <2>0, <2>1, <2>2, NextCases
<1>3. ConfirmFirstInv => ConfirmFirst
  BY DEF ConfirmFirstInv
<1>4. QED
  BY <1>1, <1>2, <1>3, PTL DEF Spec

-----------------------------------------------------------------------------
(* Supersession is joint.                                                  *)

TwoIn(S) == \E k, l \in S : k # l

(* A set counted as two holds two members.                                 *)
LEMMA CountedTwo ==
  ASSUME NEW S, Cardinality(S) = 2
  PROVE  TwoIn(S)
<1>1. S # {}
  BY FS_EmptySet
<1>2. PICK k \in S : TRUE
  BY <1>1
<1>3. S # {k}
  BY FS_Singleton
<1>4. QED
  BY <1>2, <1>3 DEF TwoIn

(* What each kind of update does to the two tallies of supersession.       *)
LEMMA TalliesAfter ==
  ASSUME NEW c \in ChainState, NEW a \in Assertion
  PROVE  /\ \A d \in ChainState, s \in EffectiveState :
              /\ Resolve(d, s, a).superseded_by = d.superseded_by
              /\ Resolve(d, s, a).contest_superseded_by = d.contest_superseded_by
         /\ Contest(c, a).superseded_by = c.superseded_by
         /\ Contest(c, a).contest_superseded_by = c.contest_superseded_by
         /\ RecordExit(c, a).superseded_by = c.superseded_by
         /\ RecordExit(c, a).contest_superseded_by = c.contest_superseded_by
         /\ JointClose(c, a).superseded_by = c.superseded_by
         /\ JointClose(c, a).contest_superseded_by = c.contest_superseded_by
         /\ ContestClose(c, a).superseded_by = c.superseded_by
         /\ ContestClose(c, a).contest_superseded_by = c.contest_superseded_by
<1>1. \A d \in ChainState, s \in EffectiveState :
        /\ Resolve(d, s, a).superseded_by = d.superseded_by
        /\ Resolve(d, s, a).contest_superseded_by = d.contest_superseded_by
  BY DEF Resolve, ChainState
<1>2. /\ Contest(c, a).superseded_by = c.superseded_by
      /\ Contest(c, a).contest_superseded_by = c.contest_superseded_by
  BY DEF Contest, Resolve, ChainState
<1>3. /\ RecordExit(c, a).superseded_by = c.superseded_by
      /\ RecordExit(c, a).contest_superseded_by = c.contest_superseded_by
  BY DEF RecordExit, ChainState
<1>4. /\ JointClose(c, a).superseded_by = c.superseded_by
      /\ JointClose(c, a).contest_superseded_by = c.contest_superseded_by
  BY DEF JointClose, Resolve, ChainState
<1>5. /\ ContestClose(c, a).superseded_by = c.superseded_by
      /\ ContestClose(c, a).contest_superseded_by = c.contest_superseded_by
  BY DEF ContestClose, Resolve, ChainState
<1>6. QED
  BY <1>1, <1>2, <1>3, <1>4, <1>5

(* A joint supersession adds its signer to one tally, and completes only   *)
(* when that tally holds two.                                              *)
LEMMA SupersedeTally ==
  ASSUME NEW c \in ChainState, NEW a \in Assertion, c.state # "superseded"
  PROVE  /\ JointSupersede(c, a).superseded_by = c.superseded_by \cup {a.by}
         /\ JointSupersede(c, a).contest_superseded_by = c.contest_superseded_by
         /\ JointSupersede(c, a).state = "superseded" =>
              TwoIn(c.superseded_by \cup {a.by})
         /\ ContestSupersede(c, a).superseded_by = c.superseded_by
         /\ ContestSupersede(c, a).contest_superseded_by
              = c.contest_superseded_by \cup {a.by}
         /\ ContestSupersede(c, a).state = "superseded" =>
              TwoIn(c.contest_superseded_by \cup {a.by})
<1>1. /\ JointSupersede(c, a).superseded_by = c.superseded_by \cup {a.by}
      /\ JointSupersede(c, a).contest_superseded_by = c.contest_superseded_by
  BY DEF JointSupersede, Resolve, ChainState
<1>2. JointSupersede(c, a).state = "superseded" =>
        Cardinality(c.superseded_by \cup {a.by}) = 2
  BY DEF JointSupersede, Resolve, ChainState, TwoHaveSigned
<1>3. /\ ContestSupersede(c, a).superseded_by = c.superseded_by
      /\ ContestSupersede(c, a).contest_superseded_by
           = c.contest_superseded_by \cup {a.by}
  BY DEF ContestSupersede, Resolve, ChainState
<1>4. ContestSupersede(c, a).state = "superseded" =>
        Cardinality(c.contest_superseded_by \cup {a.by}) = 2
  BY DEF ContestSupersede, Resolve, ChainState, TwoHaveSigned
<1>5. QED
  BY <1>1, <1>2, <1>3, <1>4, CountedTwo

(* How accepting an assertion moves the tallies: only a superseded         *)
(* assertion adds to one, its own signer, and an edge that comes to be     *)
(* superseded has a tally of two.                                          *)
LEMMA SupersedeMoves ==
  ASSUME NEW e, NEW lin, NEW t, NEW c \in ChainState, NEW a \in Assertion,
         Accepts(e, lin, t, c, a)
  PROVE  LET f == Effect(e, c, a)
         IN /\ a.state # "superseded" =>
                 /\ f.superseded_by = c.superseded_by
                 /\ f.contest_superseded_by = c.contest_superseded_by
            /\ f.superseded_by \subseteq c.superseded_by \cup {a.by}
            /\ f.contest_superseded_by \subseteq c.contest_superseded_by \cup {a.by}
            /\ f.state = "superseded" =>
                 TwoIn(f.superseded_by) \/ TwoIn(f.contest_superseded_by)
<1> DEFINE f == Effect(e, c, a)
<1>1. CASE Contests(c, a) /\ f = Dated(Contest(c, a), a)
  BY <1>1, ContestType, StateAfter, TalliesAfter, DatedKeeps
<1>2. CASE /\ c.state = "contested-closure"
           /\ LegalFromContested(t, c, a)
           /\ f = Dated(EffectFromContested(c, a), a)
  <2> DEFINE g == EffectFromContested(c, a)
  <2>1. a.state \in {"closed", "superseded", "expired"} /\ g \in ChainState
    BY <1>2, EffectFromContestedType
  <2>2. CASE a.state = "superseded"
    <3>1. g = ContestSupersede(c, a)
      BY <2>2 DEF EffectFromContested
    <3>2. /\ f.superseded_by = c.superseded_by
          /\ f.contest_superseded_by = c.contest_superseded_by \cup {a.by}
          /\ f.state = "superseded" =>
               TwoIn(c.contest_superseded_by \cup {a.by})
      <4>1. f.state = g.state /\ f.superseded_by = g.superseded_by
              /\ f.contest_superseded_by = g.contest_superseded_by
        BY <1>2, <2>1, DatedKeeps
      <4>2. c.state # "superseded"
        BY <1>2
      <4>3. QED
        BY <3>1, <4>1, <4>2, SupersedeTally
    <3>3. QED
      BY <2>2, <3>2
  <2>3. CASE a.state = "closed"
    <3>1. g = ContestClose(c, a)
      BY <2>3 DEF EffectFromContested
    <3>2. QED
      BY <1>2, <2>1, <2>3, <3>1, TalliesAfter, StateAfter, DatedKeeps
  <2>4. CASE a.state = "expired"
    <3>1. g = Resolve(c, "expired", a)
      BY <2>4 DEF EffectFromContested
    <3>2. "expired" \in EffectiveState
      BY DEF EffectiveState
    <3>3. QED
      BY <1>2, <2>1, <2>4, <3>1, <3>2, TalliesAfter, StateAfter, DatedKeeps
  <2>5. QED
    BY <2>1, <2>2, <2>3, <2>4
<1>3. CASE /\ ~Contests(c, a)
           /\ c.state # "contested-closure"
           /\ LegalByTable(e, lin, t, c, a)
           /\ f = Dated(EffectByTable(e, c, a), a)
  <2> DEFINE g == EffectByTable(e, c, a)
  <2>1. g \in ChainState
    BY <1>3, EffectByTableType
  <2>2. a.state \in {"proposed", "confirmed", "closed", "released", "expired",
                     "disputed", "superseded"}
    BY <1>3 DEF LegalByTable
  <2>3. c.state # "superseded"
    BY <1>3 DEF Accepts, TERMINAL_STATES
  <2>4. CASE a.state = "superseded"
    <3>1. g = JointSupersede(c, a)
      BY <2>4 DEF EffectByTable
    <3>2. /\ f.superseded_by = c.superseded_by \cup {a.by}
          /\ f.contest_superseded_by = c.contest_superseded_by
          /\ f.state = "superseded" => TwoIn(c.superseded_by \cup {a.by})
      <4>1. f.state = g.state /\ f.superseded_by = g.superseded_by
              /\ f.contest_superseded_by = g.contest_superseded_by
        BY <1>3, <2>1, DatedKeeps
      <4>2. QED
        BY <2>3, <3>1, <4>1, SupersedeTally
    <3>3. QED
      BY <2>4, <3>2
  <2>5. CASE a.state # "superseded"
    <3>1. /\ g.superseded_by = c.superseded_by
          /\ g.contest_superseded_by = c.contest_superseded_by
          /\ g.state # "superseded"
      <4>1. CASE a.state \in {"proposed", "confirmed", "disputed"}
        BY <4>1 DEF EffectByTable, ChainState
      <4>2. CASE a.state \in {"released", "expired"}
        <5>1. RecordExit(c, a) \in ChainState /\ a.state \in EffectiveState
          BY <4>2, RecordExitType DEF UNILATERAL_EXITS, EffectiveState
        <5>2. \/ g = Resolve(RecordExit(c, a), a.state, a)
              \/ g = Resolve(c, a.state, a)
          BY <4>2 DEF EffectByTable
        <5>3. QED
          BY <4>2, <5>1, <5>2, TalliesAfter, StateAfter
      <4>3. CASE a.state = "closed"
        <5>1. RecordExit(c, a) \in ChainState /\ "closed" \in EffectiveState
          BY <4>3, RecordExitType DEF UNILATERAL_EXITS, EffectiveState
        <5>2. c.state \in {"open", "pending-acceptance", "disputed"}
          BY <1>3, <4>3 DEF LegalByTable, LegalClosed
        <5>3. g = EffectOfClosed(e, c, a)
          BY <4>3 DEF EffectByTable
        <5>4. CASE c.state = "open"
          <6>1. g = EvidenceClose(e, c, a)
            BY <5>3, <5>4 DEF EffectOfClosed
          <6>2. CASE e.closure_policy = "on-evidence"
            BY <5>1, <6>1, <6>2, TalliesAfter, StateAfter DEF EvidenceClose
          <6>3. CASE e.closure_policy # "on-evidence"
            BY <5>1, <6>1, <6>3, TalliesAfter DEF EvidenceClose, ChainState
          <6>4. QED
            BY <6>2, <6>3
        <5>5. CASE c.state = "pending-acceptance"
          <6>1. g = Resolve(c, "closed", a)
            BY <5>3, <5>5 DEF EffectOfClosed
          <6>2. QED
            BY <5>1, <6>1, TalliesAfter, StateAfter
        <5>6. CASE c.state = "disputed"
          <6>1. g = JointClose(c, a)
            BY <5>3, <5>6 DEF EffectOfClosed
          <6>2. QED
            BY <2>3, <6>1, TalliesAfter, StateAfter
        <5>7. QED
          BY <5>2, <5>4, <5>5, <5>6
      <4>4. QED
        BY <2>2, <2>5, <4>1, <4>2, <4>3
    <3>2. QED
      BY <1>3, <2>1, <2>5, <3>1, DatedKeeps
  <2>6. QED
    BY <2>4, <2>5
<1>4. QED
  BY <1>1, <1>2, <1>3, EffectCases

(* Nobody has rotated: each party has held one key.                        *)
OneKeyEach ==
  \A lineage \in {Lineage.owner, Lineage.owed_to} :
    \A k, l \in lineage : k.key = l.key

(* k really signed a superseded assertion of the chain, as a party.        *)
SignedSuperseded(k) ==
  \E i \in 1..Len(chain) :
    /\ chain[i].state = "superseded" /\ chain[i].signer = k
    /\ SignedByOwner(chain[i]) \/ SignedByOwedTo(chain[i])

(* The strengthening of SupersededByBoth: a tally only counts keys that    *)
(* really signed.                                                          *)
SupersedeInv ==
  /\ TypeOK
  /\ \A k \in ctx.superseded_by \cup ctx.contest_superseded_by :
       SignedSuperseded(k)
  /\ ctx.state = "superseded" =>
       TwoIn(ctx.superseded_by) \/ TwoIn(ctx.contest_superseded_by)

(* The strengthening is inductive, for every lineage.                      *)
LEMMA SupersedeInvHolds == Spec => []SupersedeInv
<1>1. Init => SupersedeInv
  BY InitChainStateType, ChainAssumption
  DEF Init, SupersedeInv, TypeOK, InitChainState
<1>2. SupersedeInv /\ [Next]_vars => SupersedeInv'
  <2> SUFFICES ASSUME SupersedeInv, [Next]_vars
               PROVE  SupersedeInv'
    OBVIOUS
  <2>0. TypeOK
    BY DEF SupersedeInv
  <2>1. ASSUME NEW a \in Wire, Store(a)
        PROVE  SupersedeInv'
    <3>1. a \in Assertion /\ ctx \in ChainState /\ chain \in Seq(Wire)
      BY <2>0, ChainAssumption DEF TypeOK
    <3>2. /\ Accepts(edge, Lineage, now, ctx, a)
          /\ ctx' = Effect(edge, ctx, a)
          /\ chain' = Append(chain, a)
          /\ edge' = edge /\ now' = now
      BY <2>1 DEF Store
    <3>3. a.signer = a.by /\ (IsOwner(Lineage, a) \/ IsOwedTo(Lineage, a))
      BY <3>2 DEF Accepts, Authentic
    <3>4. /\ Len(chain) \in Nat
          /\ Len(chain') = Len(chain) + 1
          /\ chain'[Len(chain) + 1] = a
          /\ \A i \in 1..Len(chain) : chain'[i] = chain[i]
      BY <3>1, <3>2
    <3>5. TypeOK'
      <4>1. ctx' \in ChainState
        BY <3>1, <3>2, EffectType
      <4>2. chain' \in Seq(Wire)
        BY <3>1, <3>2
      <4>3. QED
        BY <2>0, <3>2, <4>1, <4>2 DEF TypeOK
    <3>6. /\ a.state # "superseded" =>
                /\ ctx'.superseded_by = ctx.superseded_by
                /\ ctx'.contest_superseded_by = ctx.contest_superseded_by
          /\ ctx'.superseded_by \subseteq ctx.superseded_by \cup {a.by}
          /\ ctx'.contest_superseded_by
                \subseteq ctx.contest_superseded_by \cup {a.by}
          /\ ctx'.state = "superseded" =>
                TwoIn(ctx'.superseded_by) \/ TwoIn(ctx'.contest_superseded_by)
      <4>1. Accepts(edge, Lineage, now, ctx, a)
        BY <3>2
      <4>2. QED
        BY <3>1, <3>2, <4>1, SupersedeMoves
    <3>7. \A k : SignedSuperseded(k) => SignedSuperseded(k)'
      <4> SUFFICES ASSUME NEW k, SignedSuperseded(k)
                   PROVE  SignedSuperseded(k)'
        OBVIOUS
      <4>1. PICK i \in 1..Len(chain) :
              /\ chain[i].state = "superseded" /\ chain[i].signer = k
              /\ SignedByOwner(chain[i]) \/ SignedByOwedTo(chain[i])
        BY DEF SignedSuperseded
      <4>2. i \in 1..Len(chain') /\ chain'[i] = chain[i]
        BY <3>4
      <4>3. QED
        BY <4>1, <4>2 DEF SignedSuperseded, SignedByOwner, SignedByOwedTo
    <3>8. a.state = "superseded" => SignedSuperseded(a.by)'
      <4>1. Len(chain) + 1 \in 1..Len(chain')
        BY <3>4
      <4>2. QED
        BY <3>3, <3>4, <4>1
        DEF SignedSuperseded, SignedByOwner, SignedByOwedTo, IsOwner, IsOwedTo
    <3>9. \A k \in ctx'.superseded_by \cup ctx'.contest_superseded_by :
            SignedSuperseded(k)'
      <4> SUFFICES ASSUME NEW k \in ctx'.superseded_by \cup ctx'.contest_superseded_by
                   PROVE  SignedSuperseded(k)'
        OBVIOUS
      <4>1. CASE k \in ctx.superseded_by \cup ctx.contest_superseded_by
        BY <3>7, <4>1 DEF SupersedeInv
      <4>2. CASE k \notin ctx.superseded_by \cup ctx.contest_superseded_by
        BY <3>6, <3>8, <4>2
      <4>3. QED
        BY <4>1, <4>2
    <3>10. QED
      BY <3>5, <3>6, <3>9 DEF SupersedeInv
  <2>2. CASE UNCHANGED <<edge, chain, ctx>> /\ now' \in 0..MaxNow
    BY <2>2 DEF SupersedeInv, SignedSuperseded, TypeOK,
                SignedByOwner, SignedByOwedTo
  <2>3. QED
    BY <2>0, <2>1, <2>2, NextCases
<1>3. QED
  BY <1>1, <1>2, PTL DEF Spec

(* While nobody has rotated, no edge is superseded without the signature   *)
(* of both parties.  (The row counts keys, so a party that has held two    *)
(* can sign twice: the assumption is needed.)                              *)
THEOREM SupersessionIsJoint ==
  ASSUME OneKeyEach
  PROVE  Spec => []SupersededByBoth
<1>1. SupersedeInv => SupersededByBoth
  <2> SUFFICES ASSUME SupersedeInv, ctx.state = "superseded"
               PROVE  \E i, j \in 1..Len(chain) :
                        /\ chain[i].state = "superseded" /\ SignedByOwner(chain[i])
                        /\ chain[j].state = "superseded" /\ SignedByOwedTo(chain[j])
    BY DEF SupersededByBoth
  <2>1. PICK k, l : SignedSuperseded(k) /\ SignedSuperseded(l) /\ k # l
    BY DEF SupersedeInv, TwoIn
  <2>2. PICK i \in 1..Len(chain) :
          /\ chain[i].state = "superseded" /\ chain[i].signer = k
          /\ SignedByOwner(chain[i]) \/ SignedByOwedTo(chain[i])
    BY <2>1 DEF SignedSuperseded
  <2>3. PICK j \in 1..Len(chain) :
          /\ chain[j].state = "superseded" /\ chain[j].signer = l
          /\ SignedByOwner(chain[j]) \/ SignedByOwedTo(chain[j])
    BY <2>1 DEF SignedSuperseded
  <2>4. ~(SignedByOwner(chain[i]) /\ SignedByOwner(chain[j]))
    BY <2>1, <2>2, <2>3 DEF OneKeyEach, SignedByOwner, HeldBy
  <2>5. ~(SignedByOwedTo(chain[i]) /\ SignedByOwedTo(chain[j]))
    BY <2>1, <2>2, <2>3 DEF OneKeyEach, SignedByOwedTo, HeldBy
  <2>6. QED
    BY <2>2, <2>3, <2>4, <2>5
<1>2. QED
  BY <1>1, SupersedeInvHolds, PTL

-----------------------------------------------------------------------------
(* Closing, expiring and contesting.                                       *)

(* The members that date the turns of a chain, carried over unchanged.     *)
KeepsMarks(f, c) ==
  /\ f.window_opened_at = c.window_opened_at
  /\ f.exit = c.exit
  /\ f.contested_at = c.contested_at
  /\ f.disputed_at = c.disputed_at

(* The tallies of a joint close, carried over unchanged.                   *)
KeepsClosers(f, c) ==
  /\ f.dispute_closed_by = c.dispute_closed_by
  /\ f.contest_closed_by = c.contest_closed_by

(* What each kind of update does to the marks and to the closers.          *)
LEMMA MarksAfter ==
  ASSUME NEW c \in ChainState, NEW a \in Assertion
  PROVE  /\ \A s \in EffectiveState :
              KeepsMarks(Resolve(c, s, a), c) /\ KeepsClosers(Resolve(c, s, a), c)
         /\ Contest(c, a).window_opened_at = c.window_opened_at
         /\ Contest(c, a).exit = c.exit
         /\ Contest(c, a).contested_at = a.asserted_at
         /\ Contest(c, a).disputed_at = c.disputed_at
         /\ KeepsClosers(Contest(c, a), c)
         /\ RecordExit(c, a).window_opened_at = c.window_opened_at
         /\ RecordExit(c, a).exit
              = {[state |-> a.state, by |-> a.by, at |-> a.asserted_at]}
         /\ RecordExit(c, a).contested_at = c.contested_at
         /\ RecordExit(c, a).disputed_at = c.disputed_at
         /\ KeepsClosers(RecordExit(c, a), c)
         /\ KeepsMarks(Dated(c, a), c) /\ KeepsClosers(Dated(c, a), c)
<1>1. \A s \in EffectiveState :
        KeepsMarks(Resolve(c, s, a), c) /\ KeepsClosers(Resolve(c, s, a), c)
  BY DEF Resolve, ChainState, KeepsMarks, KeepsClosers
<1>2. /\ Contest(c, a).window_opened_at = c.window_opened_at
      /\ Contest(c, a).exit = c.exit
      /\ Contest(c, a).contested_at = a.asserted_at
      /\ Contest(c, a).disputed_at = c.disputed_at
      /\ KeepsClosers(Contest(c, a), c)
  BY DEF Contest, Resolve, ChainState, KeepsClosers
<1>3. /\ RecordExit(c, a).window_opened_at = c.window_opened_at
      /\ RecordExit(c, a).exit
           = {[state |-> a.state, by |-> a.by, at |-> a.asserted_at]}
      /\ RecordExit(c, a).contested_at = c.contested_at
      /\ RecordExit(c, a).disputed_at = c.disputed_at
      /\ KeepsClosers(RecordExit(c, a), c)
  BY DEF RecordExit, ChainState, KeepsClosers
<1>4. KeepsMarks(Dated(c, a), c) /\ KeepsClosers(Dated(c, a), c)
  BY DEF Dated, ChainState, KeepsMarks, KeepsClosers
<1>5. QED
  BY <1>1, <1>2, <1>3, <1>4

(* A joint act keeps the marks; a joint close adds its signer to one       *)
(* tally, and completes only when that tally holds two.                    *)
LEMMA CloseTally ==
  ASSUME NEW c \in ChainState, NEW a \in Assertion, c.state # "closed"
  PROVE  /\ KeepsMarks(JointClose(c, a), c)
         /\ JointClose(c, a).dispute_closed_by = c.dispute_closed_by \cup {a.by}
         /\ JointClose(c, a).contest_closed_by = c.contest_closed_by
         /\ JointClose(c, a).state = "closed" =>
              TwoIn(c.dispute_closed_by \cup {a.by})
         /\ KeepsMarks(ContestClose(c, a), c)
         /\ ContestClose(c, a).dispute_closed_by = c.dispute_closed_by
         /\ ContestClose(c, a).contest_closed_by = c.contest_closed_by \cup {a.by}
         /\ ContestClose(c, a).state = "closed" =>
              TwoIn(c.contest_closed_by \cup {a.by})
         /\ KeepsMarks(JointSupersede(c, a), c)
         /\ KeepsClosers(JointSupersede(c, a), c)
         /\ KeepsMarks(ContestSupersede(c, a), c)
         /\ KeepsClosers(ContestSupersede(c, a), c)
<1>1. /\ KeepsMarks(JointClose(c, a), c)
      /\ JointClose(c, a).dispute_closed_by = c.dispute_closed_by \cup {a.by}
      /\ JointClose(c, a).contest_closed_by = c.contest_closed_by
  BY DEF JointClose, Resolve, ChainState, KeepsMarks
<1>2. JointClose(c, a).state = "closed" =>
        Cardinality(c.dispute_closed_by \cup {a.by}) = 2
  BY DEF JointClose, Resolve, ChainState, TwoHaveSigned
<1>3. /\ KeepsMarks(ContestClose(c, a), c)
      /\ ContestClose(c, a).dispute_closed_by = c.dispute_closed_by
      /\ ContestClose(c, a).contest_closed_by = c.contest_closed_by \cup {a.by}
  BY DEF ContestClose, Resolve, ChainState, KeepsMarks
<1>4. ContestClose(c, a).state = "closed" =>
        Cardinality(c.contest_closed_by \cup {a.by}) = 2
  BY DEF ContestClose, Resolve, ChainState, TwoHaveSigned
<1>5. /\ KeepsMarks(JointSupersede(c, a), c)
      /\ KeepsClosers(JointSupersede(c, a), c)
  BY DEF JointSupersede, Resolve, ChainState, KeepsMarks, KeepsClosers
<1>6. /\ KeepsMarks(ContestSupersede(c, a), c)
      /\ KeepsClosers(ContestSupersede(c, a), c)
  BY DEF ContestSupersede, Resolve, ChainState, KeepsMarks, KeepsClosers
<1>7. QED
  BY <1>1, <1>2, <1>3, <1>4, <1>5, <1>6, CountedTwo

(* What accepting an assertion may do to each mark, and what it takes to   *)
(* reach closed, expired and contested-closure, or to leave a terminal     *)
(* state.                                                                  *)
Moves(e, lin, t, c, a, f) ==
  /\ \/ f.exit = c.exit
     \/ /\ a.state \in UNILATERAL_EXITS
        /\ LegalUnilateralExit(e, lin, t, a)
        /\ f.exit = {[state |-> a.state, by |-> a.by, at |-> a.asserted_at]}
  /\ \/ f.window_opened_at = c.window_opened_at
     \/ /\ a.state = "closed" /\ IsOwner(lin, a) /\ a.evidence
        /\ f.window_opened_at = a.asserted_at
  /\ \/ f.disputed_at = c.disputed_at
     \/ a.state = "disputed" /\ f.disputed_at = a.asserted_at
  /\ \/ f.contested_at = c.contested_at
     \/ a.state \in UNILATERAL_EXITS /\ f.contested_at = a.asserted_at
  /\ a.state # "closed" => KeepsClosers(f, c)
  /\ f.dispute_closed_by \subseteq c.dispute_closed_by \cup {a.by}
  /\ f.contest_closed_by \subseteq c.contest_closed_by \cup {a.by}
  /\ f.state = "closed" =>
       /\ a.state = "closed"
       /\ \/ IsOwedTo(lin, a)
          \/ IsOwner(lin, a) /\ a.evidence /\ e.closure_policy = "on-evidence"
          \/ /\ c.window_opened_at # Null
             /\ a.asserted_at >= c.window_opened_at + e.acceptance_window
          \/ TwoIn(f.dispute_closed_by) \/ TwoIn(f.contest_closed_by)
  /\ f.state = "expired" =>
       /\ a.state = "expired"
       /\ \/ e.due # Null /\ a.asserted_at >= e.due
          \/ /\ c.disputed_at # Null
             /\ a.asserted_at >= c.disputed_at + DISPUTE_WINDOW
          \/ /\ c.contested_at # Null
             /\ a.asserted_at >= c.contested_at + DISPUTE_WINDOW
  /\ f.state = "contested-closure" =>
       \/ c.state = "contested-closure"
       \/ Contests(c, a) /\ LegalUnilateralExit(e, lin, t, a)
  /\ c.state \in TERMINAL_STATES =>
       /\ f.state = "contested-closure"
       /\ Contests(c, a) /\ f.contested_at = a.asserted_at

(* Naming a contest moves the context so.                                  *)
LEMMA ContestMoves ==
  ASSUME NEW e, NEW lin, NEW t, NEW c \in ChainState, NEW a \in Assertion,
         Contests(c, a), LegalUnilateralExit(e, lin, t, a)
  PROVE  Moves(e, lin, t, c, a, Dated(Contest(c, a), a))
<1> DEFINE g == Contest(c, a)
           f == Dated(g, a)
<1>1. g \in ChainState
  BY ContestType
<1>2. KeepsMarks(f, g) /\ KeepsClosers(f, g) /\ f.state = g.state
  BY <1>1, MarksAfter, DatedKeeps
<1>3. /\ g.window_opened_at = c.window_opened_at
      /\ g.exit = c.exit
      /\ g.contested_at = a.asserted_at
      /\ g.disputed_at = c.disputed_at
      /\ KeepsClosers(g, c)
      /\ g.state = "contested-closure"
  BY MarksAfter, StateAfter
<1>4. a.state \in UNILATERAL_EXITS
  BY DEF Contests
<1>5. QED
  BY <1>2, <1>3, <1>4 DEF Moves, KeepsMarks, KeepsClosers

(* A row out of contested-closure moves the context so.                    *)
LEMMA FromContestedMoves ==
  ASSUME NEW e, NEW lin, NEW t, NEW c \in ChainState, NEW a \in Assertion,
         c.state = "contested-closure", LegalFromContested(t, c, a)
  PROVE  Moves(e, lin, t, c, a, Dated(EffectFromContested(c, a), a))
<1> DEFINE g == EffectFromContested(c, a)
           f == Dated(g, a)
<1>0. c.state # "closed"
  OBVIOUS
<1>1. a.state \in {"closed", "superseded", "expired"} /\ g \in ChainState
  BY EffectFromContestedType
<1>2. KeepsMarks(f, g) /\ KeepsClosers(f, g) /\ f.state = g.state
  BY <1>1, MarksAfter, DatedKeeps
<1>3. CASE a.state = "closed"
  <2>1. g = ContestClose(c, a)
    BY <1>3 DEF EffectFromContested
  <2>2. /\ KeepsMarks(g, c)
        /\ g.dispute_closed_by = c.dispute_closed_by
        /\ g.contest_closed_by = c.contest_closed_by \cup {a.by}
        /\ g.state = "closed" => TwoIn(g.contest_closed_by)
        /\ g.state \in {"contested-closure", "closed"}
    BY <1>0, <2>1, CloseTally, StateAfter DEF TwoIn
  <2>3. QED
    BY <1>2, <1>3, <2>2 DEF Moves, KeepsMarks, KeepsClosers, TERMINAL_STATES
<1>4. CASE a.state = "superseded"
  <2>1. g = ContestSupersede(c, a)
    BY <1>4 DEF EffectFromContested
  <2>2. /\ KeepsMarks(g, c) /\ KeepsClosers(g, c)
        /\ g.state \in {"contested-closure", "superseded"}
    BY <1>0, <2>1, CloseTally, StateAfter
  <2>3. QED
    BY <1>2, <1>4, <2>2 DEF Moves, KeepsMarks, KeepsClosers, TERMINAL_STATES
<1>5. CASE a.state = "expired"
  <2>1. g = Resolve(c, "expired", a) /\ "expired" \in EffectiveState
    BY <1>5 DEF EffectFromContested, EffectiveState
  <2>2. KeepsMarks(g, c) /\ KeepsClosers(g, c) /\ g.state = "expired"
    BY <2>1, MarksAfter, StateAfter
  <2>3. /\ c.contested_at # Null
        /\ a.asserted_at >= c.contested_at + DISPUTE_WINDOW
    BY <1>5 DEF LegalFromContested, WindowElapsed
  <2>4. QED
    BY <1>2, <1>5, <2>2, <2>3 DEF Moves, KeepsMarks, KeepsClosers, TERMINAL_STATES
<1>6. QED
  BY <1>1, <1>3, <1>4, <1>5

(* A row of the table moves the context so.                                *)
LEMMA ByTableMoves ==
  ASSUME NEW e, NEW lin, NEW t, NEW c \in ChainState, NEW a \in Assertion,
         c.state \notin TERMINAL_STATES, c.state # "contested-closure",
         LegalByTable(e, lin, t, c, a)
  PROVE  Moves(e, lin, t, c, a, Dated(EffectByTable(e, c, a), a))
<1> DEFINE g == EffectByTable(e, c, a)
           f == Dated(g, a)
           x == {[state |-> a.state, by |-> a.by, at |-> a.asserted_at]}
<1>0. c.state \notin {"closed", "expired", "released", "superseded"}
  BY DEF TERMINAL_STATES
<1>1. g \in ChainState
  BY EffectByTableType
<1>2. KeepsMarks(f, g) /\ KeepsClosers(f, g) /\ f.state = g.state
  BY <1>1, MarksAfter, DatedKeeps
<1>3. CASE a.state \in {"proposed", "confirmed"}
  <2>1. /\ KeepsMarks(g, c) /\ KeepsClosers(g, c)
        /\ g.state \in {"proposed", "open"}
    BY <1>3 DEF EffectByTable, ChainState, KeepsMarks, KeepsClosers
  <2>2. QED
    BY <1>2, <1>3, <2>1 DEF Moves, KeepsMarks, KeepsClosers
<1>4. CASE a.state = "disputed"
  <2>1. /\ g.window_opened_at = c.window_opened_at
        /\ g.exit = c.exit
        /\ g.contested_at = c.contested_at
        /\ g.disputed_at = a.asserted_at
        /\ KeepsClosers(g, c)
        /\ g.state = "disputed"
    BY <1>4 DEF EffectByTable, ChainState, KeepsClosers
  <2>2. QED
    BY <1>2, <1>4, <2>1 DEF Moves, KeepsMarks, KeepsClosers
<1>5. CASE a.state = "superseded"
  <2>1. /\ KeepsMarks(g, c) /\ KeepsClosers(g, c)
        /\ g.state \in {c.state, "superseded"}
    BY <1>0, <1>5, CloseTally, StateAfter DEF EffectByTable
  <2>2. QED
    BY <1>0, <1>2, <1>5, <2>1 DEF Moves, KeepsMarks, KeepsClosers
<1>6. ASSUME a.state \in UNILATERAL_EXITS, c.state = "open",
             NEW s \in EffectiveState, g = Resolve(RecordExit(c, a), s, a)
      PROVE  /\ g.window_opened_at = c.window_opened_at
             /\ g.exit = x
             /\ g.contested_at = c.contested_at
             /\ g.disputed_at = c.disputed_at
             /\ KeepsClosers(g, c)
             /\ g.state = s
  <2>1. RecordExit(c, a) \in ChainState
    BY <1>6, RecordExitType
  <2>2. QED
    BY <1>6, <2>1, MarksAfter, StateAfter DEF KeepsMarks, KeepsClosers
<1>7. CASE a.state = "released"
  <2>1. c.state = "open" /\ IsOwedTo(lin, a)
    BY <1>7 DEF LegalByTable
  <2>2. /\ a.state \in UNILATERAL_EXITS /\ "released" \in EffectiveState
        /\ g = Resolve(RecordExit(c, a), "released", a)
    BY <1>7 DEF EffectByTable, UNILATERAL_EXITS, EffectiveState
  <2>3. LegalUnilateralExit(e, lin, t, a)
    BY <1>7, <2>1 DEF LegalUnilateralExit
  <2>4. /\ g.window_opened_at = c.window_opened_at
        /\ g.exit = x
        /\ g.contested_at = c.contested_at
        /\ g.disputed_at = c.disputed_at
        /\ KeepsClosers(g, c)
        /\ g.state = "released"
    BY <1>6, <2>1, <2>2
  <2>5. QED
    BY <1>0, <1>2, <1>7, <2>2, <2>3, <2>4 DEF Moves, KeepsMarks, KeepsClosers
<1>8. CASE a.state = "expired"
  <2>0. a.state \in UNILATERAL_EXITS /\ "expired" \in EffectiveState
    BY <1>8 DEF UNILATERAL_EXITS, EffectiveState
  <2>1. CASE c.state = "open"
    <3>1. LegalUnilateralExit(e, lin, t, a)
      BY <1>8, <2>1 DEF LegalByTable, LegalExpired
    <3>2. e.due # Null /\ a.asserted_at >= e.due
      BY <1>8, <3>1 DEF LegalUnilateralExit
    <3>3. g = Resolve(RecordExit(c, a), "expired", a)
      BY <1>8, <2>1 DEF EffectByTable
    <3>4. /\ g.window_opened_at = c.window_opened_at
          /\ g.exit = x
          /\ g.contested_at = c.contested_at
          /\ g.disputed_at = c.disputed_at
          /\ KeepsClosers(g, c)
          /\ g.state = "expired"
      BY <1>6, <2>0, <2>1, <3>3
    <3>5. QED
      BY <1>0, <1>2, <1>8, <2>0, <3>1, <3>2, <3>4
      DEF Moves, KeepsMarks, KeepsClosers
  <2>2. CASE c.state # "open"
    <3>1. /\ c.disputed_at # Null
          /\ a.asserted_at >= c.disputed_at + DISPUTE_WINDOW
      BY <1>8, <2>2 DEF LegalByTable, LegalExpired, WindowElapsed
    <3>2. g = Resolve(c, "expired", a)
      BY <1>8, <2>2 DEF EffectByTable
    <3>3. KeepsMarks(g, c) /\ KeepsClosers(g, c) /\ g.state = "expired"
      BY <2>0, <3>2, MarksAfter, StateAfter
    <3>4. QED
      BY <1>0, <1>2, <1>8, <3>1, <3>3 DEF Moves, KeepsMarks, KeepsClosers
  <2>3. QED
    BY <2>1, <2>2
<1>9. CASE a.state = "closed"
  <2>0. /\ a.state \in UNILATERAL_EXITS /\ "closed" \in EffectiveState
        /\ c.state \in {"open", "pending-acceptance", "disputed"}
        /\ g = EffectOfClosed(e, c, a)
    BY <1>9
    DEF LegalByTable, LegalClosed, EffectByTable, UNILATERAL_EXITS, EffectiveState
  <2>1. CASE c.state = "open"
    <3>1. IsOwner(lin, a) /\ a.evidence
      BY <1>9, <2>1 DEF LegalByTable, LegalClosed
    <3>2. LegalUnilateralExit(e, lin, t, a)
      BY <1>9, <3>1 DEF LegalUnilateralExit
    <3>3. g = EvidenceClose(e, c, a)
      BY <2>0, <2>1 DEF EffectOfClosed
    <3>4. CASE e.closure_policy = "on-evidence"
      <4>1. g = Resolve(RecordExit(c, a), "closed", a)
        BY <3>3, <3>4 DEF EvidenceClose
      <4>2. /\ g.window_opened_at = c.window_opened_at
            /\ g.exit = x
            /\ g.contested_at = c.contested_at
            /\ g.disputed_at = c.disputed_at
            /\ KeepsClosers(g, c)
            /\ g.state = "closed"
        BY <1>6, <2>0, <2>1, <4>1
      <4>3. QED
        BY <1>0, <1>2, <1>9, <2>0, <3>1, <3>2, <3>4, <4>2
        DEF Moves, KeepsMarks, KeepsClosers
    <3>5. CASE e.closure_policy # "on-evidence"
      <4>1. g = [RecordExit(c, a) EXCEPT !.state = "pending-acceptance",
                                         !.window_opened_at = a.asserted_at]
        BY <3>3, <3>5 DEF EvidenceClose
      <4>2. RecordExit(c, a) \in ChainState
        BY <2>0, RecordExitType
      <4>3. /\ g.window_opened_at = a.asserted_at
            /\ g.exit = RecordExit(c, a).exit
            /\ g.contested_at = RecordExit(c, a).contested_at
            /\ g.disputed_at = RecordExit(c, a).disputed_at
            /\ KeepsClosers(g, RecordExit(c, a))
            /\ g.state = "pending-acceptance"
        BY <4>1, <4>2 DEF ChainState, KeepsClosers
      <4>4. /\ g.exit = x
            /\ g.contested_at = c.contested_at
            /\ g.disputed_at = c.disputed_at
            /\ KeepsClosers(g, c)
        BY <4>3, MarksAfter DEF KeepsClosers
      <4>5. QED
        BY <1>0, <1>2, <1>9, <2>0, <3>1, <3>2, <4>3, <4>4
        DEF Moves, KeepsMarks, KeepsClosers
    <3>6. QED
      BY <3>4, <3>5
  <2>2. CASE c.state = "pending-acceptance"
    <3>1. \/ IsOwedTo(lin, a)
          \/ /\ c.window_opened_at # Null
             /\ a.asserted_at >= c.window_opened_at + e.acceptance_window
      BY <1>9, <2>2 DEF LegalByTable, LegalClosed, WindowElapsed
    <3>2. g = Resolve(c, "closed", a)
      BY <2>0, <2>2 DEF EffectOfClosed
    <3>3. KeepsMarks(g, c) /\ KeepsClosers(g, c) /\ g.state = "closed"
      BY <2>0, <3>2, MarksAfter, StateAfter
    <3>4. QED
      BY <1>0, <1>2, <1>9, <3>1, <3>3 DEF Moves, KeepsMarks, KeepsClosers
  <2>3. CASE c.state = "disputed"
    <3>1. g = JointClose(c, a)
      BY <2>0, <2>3 DEF EffectOfClosed
    <3>2. /\ KeepsMarks(g, c)
          /\ g.dispute_closed_by = c.dispute_closed_by \cup {a.by}
          /\ g.contest_closed_by = c.contest_closed_by
          /\ g.state = "closed" => TwoIn(g.dispute_closed_by)
          /\ g.state \in {"disputed", "closed"}
      BY <1>0, <2>3, <3>1, CloseTally, StateAfter DEF TwoIn
    <3>3. QED
      BY <1>0, <1>2, <1>9, <3>2 DEF Moves, KeepsMarks, KeepsClosers
  <2>4. QED
    BY <2>0, <2>1, <2>2, <2>3
<1>10. a.state \in {"proposed", "confirmed", "closed", "released", "expired",
                    "disputed", "superseded"}
  BY DEF LegalByTable
<1>11. QED
  BY <1>3, <1>4, <1>5, <1>7, <1>8, <1>9, <1>10

(* Every accepted assertion moves the context so.                          *)
LEMMA EffectMoves ==
  ASSUME NEW e, NEW lin, NEW t, NEW c \in ChainState, NEW a \in Assertion,
         Accepts(e, lin, t, c, a)
  PROVE  Moves(e, lin, t, c, a, Effect(e, c, a))
<1>1. CASE Contests(c, a) /\ Effect(e, c, a) = Dated(Contest(c, a), a)
  <2>1. LegalUnilateralExit(e, lin, t, a)
    BY <1>1 DEF Accepts
  <2>2. QED
    BY <1>1, <2>1, ContestMoves
<1>2. CASE /\ c.state = "contested-closure"
           /\ LegalFromContested(t, c, a)
           /\ Effect(e, c, a) = Dated(EffectFromContested(c, a), a)
  BY <1>2, FromContestedMoves
<1>3. CASE /\ ~Contests(c, a)
           /\ c.state # "contested-closure"
           /\ LegalByTable(e, lin, t, c, a)
           /\ Effect(e, c, a) = Dated(EffectByTable(e, c, a), a)
  <2>1. c.state \notin TERMINAL_STATES
    BY <1>3 DEF Accepts
  <2>2. QED
    BY <1>3, <2>1, ByTableMoves
<1>4. QED
  BY <1>1, <1>2, <1>3, EffectCases

-----------------------------------------------------------------------------
(* What a stored assertion changes, and what it leaves in place.           *)
LEMMA StoreFacts ==
  ASSUME TypeOK, NEW a \in Wire, Store(a)
  PROVE  /\ a \in Assertion /\ ctx \in ChainState /\ ctx' \in ChainState
         /\ TypeOK'
         /\ Moves(edge, Lineage, now, ctx, a, ctx')
         /\ a.signer = a.by
         /\ IsOwner(Lineage, a) \/ IsOwedTo(Lineage, a)
         /\ Len(chain) \in Nat
         /\ Len(chain') = Len(chain) + 1
         /\ chain'[Len(chain) + 1] = a
         /\ \A i \in 1..Len(chain) : chain'[i] = chain[i]
         /\ edge' = edge
<1>1. a \in Assertion /\ ctx \in ChainState /\ chain \in Seq(Wire)
  BY ChainAssumption DEF TypeOK
<1>2. /\ Accepts(edge, Lineage, now, ctx, a)
      /\ ctx' = Effect(edge, ctx, a)
      /\ chain' = Append(chain, a)
      /\ edge' = edge /\ now' = now
  BY DEF Store
<1>3. ctx' \in ChainState
  BY <1>1, <1>2, EffectType
<1>4. TypeOK'
  <2>1. chain' \in Seq(Wire)
    BY <1>1, <1>2
  <2>2. QED
    BY <1>2, <1>3, <2>1 DEF TypeOK
<1>5. Moves(edge, Lineage, now, ctx, a, ctx')
  <2>1. Accepts(edge, Lineage, now, ctx, a)
    BY <1>2
  <2>2. Moves(edge, Lineage, now, ctx, a, Effect(edge, ctx, a))
    BY <1>1, <2>1, EffectMoves
  <2>3. QED
    BY <1>2, <2>2, Zenon
<1>6. a.signer = a.by /\ (IsOwner(Lineage, a) \/ IsOwedTo(Lineage, a))
  BY <1>2 DEF Accepts, Authentic
<1>7. /\ Len(chain) \in Nat
      /\ Len(chain') = Len(chain) + 1
      /\ chain'[Len(chain) + 1] = a
      /\ \A i \in 1..Len(chain) : chain'[i] = chain[i]
  BY <1>1, <1>2
<1>8. QED
  BY <1>1, <1>2, <1>3, <1>4, <1>5, <1>6, <1>7

(* The chain holds the rightful exit that x records.                       *)
ExitOnRecord(x) ==
  \E i \in 1..Len(chain) :
    /\ chain[i].state = x.state /\ chain[i].signer = x.by
    /\ chain[i].asserted_at = x.at
    /\ RightfulExit(chain[i])

(* The owner's evidence opened the acceptance window at the instant t.     *)
WindowOnRecord(t) ==
  \E i \in 1..Len(chain) :
    /\ chain[i].state = "closed" /\ SignedByOwner(chain[i])
    /\ chain[i].evidence /\ chain[i].asserted_at = t

(* A dispute, or a unilateral exit, was dated at the instant t.            *)
DeadlockOnRecord(t) ==
  \E i \in 1..Len(chain) :
    /\ chain[i].state \in UNILATERAL_EXITS \cup {"disputed"}
    /\ chain[i].asserted_at = t

(* k really signed a closed assertion of the chain, as a party.            *)
SignedClosed(k) ==
  \E i \in 1..Len(chain) :
    /\ chain[i].state = "closed" /\ chain[i].signer = k
    /\ SignedByOwner(chain[i]) \/ SignedByOwedTo(chain[i])

(* One party closed by right: what ClosureEarned asks of a closed edge.    *)
ClosureOnRecord ==
  \E i \in 1..Len(chain) :
    /\ chain[i].state = "closed"
    /\ \/ SignedByOwedTo(chain[i])
       \/ /\ SignedByOwner(chain[i]) /\ chain[i].evidence
          /\ \/ edge.closure_policy = "on-evidence"
             \/ \E j \in (i + 1)..Len(chain) :
                  /\ chain[j].state = "closed" /\ SignedByOwner(chain[j])
                  /\ chain[j].asserted_at >=
                       chain[i].asserted_at + edge.acceptance_window

(* The marks of the context are all found in the chain.  Without this the  *)
(* three properties are not inductive: the row that takes an edge into the *)
(* state reads a mark that an earlier assertion left.                      *)
MarksOnRecord ==
  /\ \A x \in ctx.exit : ExitOnRecord(x)
  /\ ctx.window_opened_at # Null => WindowOnRecord(ctx.window_opened_at)
  /\ ctx.disputed_at # Null => DeadlockOnRecord(ctx.disputed_at)
  /\ ctx.contested_at # Null => DeadlockOnRecord(ctx.contested_at)
  /\ \A k \in ctx.dispute_closed_by \cup ctx.contest_closed_by : SignedClosed(k)

(* The strengthening of ClosureEarned, ContestIsConcurrent, ExpiryEarned.  *)
ResolutionInv ==
  /\ TypeOK
  /\ MarksOnRecord
  /\ ctx.state = "closed" =>
       ClosureOnRecord \/ TwoIn(ctx.dispute_closed_by)
                       \/ TwoIn(ctx.contest_closed_by)
  /\ ContestIsConcurrent
  /\ ExpiryEarned

(* What is on record stays on record.                                      *)
LEMMA RecordGrows ==
  ASSUME Len(chain) \in Nat, Len(chain') = Len(chain) + 1,
         \A i \in 1..Len(chain) : chain'[i] = chain[i], edge' = edge
  PROVE  /\ \A x : ExitOnRecord(x) => ExitOnRecord(x)'
         /\ \A t : WindowOnRecord(t) => WindowOnRecord(t)'
         /\ \A t : DeadlockOnRecord(t) => DeadlockOnRecord(t)'
         /\ \A k : SignedClosed(k) => SignedClosed(k)'
<1>0. \A i \in 1..Len(chain) : i \in 1..Len(chain') /\ chain'[i] = chain[i]
  OBVIOUS
<1>1. ASSUME NEW x, ExitOnRecord(x)
      PROVE  ExitOnRecord(x)'
  BY <1>0, <1>1
  DEF ExitOnRecord, RightfulExit, SignedByOwner, SignedByOwedTo
<1>2. ASSUME NEW t, WindowOnRecord(t)
      PROVE  WindowOnRecord(t)'
  BY <1>0, <1>2 DEF WindowOnRecord, SignedByOwner
<1>3. ASSUME NEW t, DeadlockOnRecord(t)
      PROVE  DeadlockOnRecord(t)'
  BY <1>0, <1>3 DEF DeadlockOnRecord
<1>4. ASSUME NEW k, SignedClosed(k)
      PROVE  SignedClosed(k)'
  BY <1>0, <1>4 DEF SignedClosed, SignedByOwner, SignedByOwedTo
<1>5. QED
  BY <1>1, <1>2, <1>3, <1>4

(* A legal exit signed by the party it names is a rightful one.            *)
LEMMA LegalIsRightful ==
  ASSUME NEW t, NEW a, LegalUnilateralExit(edge, Lineage, t, a),
         a.signer = a.by, IsOwner(Lineage, a) \/ IsOwedTo(Lineage, a)
  PROVE  RightfulExit(a)
BY DEF LegalUnilateralExit, RightfulExit, IsOwner, IsOwedTo,
       SignedByOwner, SignedByOwedTo

(* A stored assertion keeps every mark on record.                          *)
LEMMA StoreKeepsMarks ==
  ASSUME TypeOK, MarksOnRecord, NEW a \in Wire, Store(a)
  PROVE  MarksOnRecord'
<1>0. PICK n : n = Len(chain) + 1
  OBVIOUS
<1>1. /\ a \in Assertion
      /\ Moves(edge, Lineage, now, ctx, a, ctx')
      /\ a.signer = a.by
      /\ IsOwner(Lineage, a) \/ IsOwedTo(Lineage, a)
      /\ Len(chain) \in Nat /\ Len(chain') = Len(chain) + 1
      /\ chain'[n] = a
      /\ \A i \in 1..Len(chain) : chain'[i] = chain[i]
      /\ edge' = edge
  BY <1>0, StoreFacts
<1>2. /\ \A x : ExitOnRecord(x) => ExitOnRecord(x)'
      /\ \A t : WindowOnRecord(t) => WindowOnRecord(t)'
      /\ \A t : DeadlockOnRecord(t) => DeadlockOnRecord(t)'
      /\ \A k : SignedClosed(k) => SignedClosed(k)'
  BY <1>1, RecordGrows
<1>3. n \in 1..Len(chain')
  BY <1>0, <1>1
<1>4. \A x \in ctx'.exit : ExitOnRecord(x)'
  <2>1. CASE ctx'.exit = ctx.exit
    BY <1>2, <2>1 DEF MarksOnRecord
  <2>2. CASE /\ LegalUnilateralExit(edge, Lineage, now, a)
             /\ ctx'.exit = {[state |-> a.state, by |-> a.by, at |-> a.asserted_at]}
    <3>1. RightfulExit(a)
      BY <1>1, <2>2, LegalIsRightful
    <3>2. RightfulExit(chain[n])'
      BY <1>1, <3>1 DEF RightfulExit, SignedByOwner, SignedByOwedTo
    <3>3. QED
      BY <1>1, <1>3, <2>2, <3>2 DEF ExitOnRecord
  <2>3. QED
    BY <1>1, <2>1, <2>2 DEF Moves
<1>5. ctx'.window_opened_at # Null => WindowOnRecord(ctx.window_opened_at)'
  <2>1. CASE ctx'.window_opened_at = ctx.window_opened_at
    BY <1>2, <2>1 DEF MarksOnRecord, WindowOnRecord
  <2>2. CASE /\ a.state = "closed" /\ IsOwner(Lineage, a) /\ a.evidence
             /\ ctx'.window_opened_at = a.asserted_at
    BY <1>1, <1>3, <2>2 DEF WindowOnRecord, SignedByOwner, IsOwner
  <2>3. QED
    BY <1>1, <2>1, <2>2 DEF Moves
<1>6. ctx'.disputed_at # Null => DeadlockOnRecord(ctx.disputed_at)'
  <2>1. CASE ctx'.disputed_at = ctx.disputed_at
    BY <1>2, <2>1 DEF MarksOnRecord, DeadlockOnRecord
  <2>2. CASE a.state = "disputed" /\ ctx'.disputed_at = a.asserted_at
    BY <1>1, <1>3, <2>2 DEF DeadlockOnRecord
  <2>3. QED
    BY <1>1, <2>1, <2>2 DEF Moves
<1>7. ctx'.contested_at # Null => DeadlockOnRecord(ctx.contested_at)'
  <2>1. CASE ctx'.contested_at = ctx.contested_at
    BY <1>2, <2>1 DEF MarksOnRecord, DeadlockOnRecord
  <2>2. CASE a.state \in UNILATERAL_EXITS /\ ctx'.contested_at = a.asserted_at
    BY <1>1, <1>3, <2>2 DEF DeadlockOnRecord
  <2>3. QED
    BY <1>1, <2>1, <2>2 DEF Moves
<1>8. \A k \in ctx'.dispute_closed_by \cup ctx'.contest_closed_by : SignedClosed(k)'
  <2>1. a.state = "closed" => SignedClosed(a.by)'
    BY <1>1, <1>3
    DEF SignedClosed, SignedByOwner, SignedByOwedTo, IsOwner, IsOwedTo
  <2>2. a.state # "closed" =>
          /\ ctx'.dispute_closed_by = ctx.dispute_closed_by
          /\ ctx'.contest_closed_by = ctx.contest_closed_by
    BY <1>1 DEF Moves, KeepsClosers
  <2>3. /\ ctx'.dispute_closed_by \subseteq ctx.dispute_closed_by \cup {a.by}
        /\ ctx'.contest_closed_by \subseteq ctx.contest_closed_by \cup {a.by}
    BY <1>1 DEF Moves
  <2> SUFFICES ASSUME NEW k \in ctx'.dispute_closed_by \cup ctx'.contest_closed_by
               PROVE  SignedClosed(k)'
    OBVIOUS
  <2>4. CASE k \in ctx.dispute_closed_by \cup ctx.contest_closed_by
    BY <1>2, <2>4 DEF MarksOnRecord
  <2>5. CASE k \notin ctx.dispute_closed_by \cup ctx.contest_closed_by
    BY <2>1, <2>2, <2>3, <2>5
  <2>6. QED
    BY <2>4, <2>5
<1>9. QED
  BY <1>4, <1>5, <1>6, <1>7, <1>8 DEF MarksOnRecord

(* A stored assertion that closes the edge does so by right, or as the     *)
(* second of two signers.                                                  *)
LEMMA StoreCloses ==
  ASSUME TypeOK, MarksOnRecord, NEW a \in Wire, Store(a), ctx'.state = "closed"
  PROVE  \/ ClosureOnRecord'
         \/ TwoIn(ctx'.dispute_closed_by) \/ TwoIn(ctx'.contest_closed_by)
<1>0. PICK n : n = Len(chain) + 1
  OBVIOUS
<1>1. /\ a \in Assertion
      /\ Moves(edge, Lineage, now, ctx, a, ctx')
      /\ a.signer = a.by
      /\ IsOwner(Lineage, a) \/ IsOwedTo(Lineage, a)
      /\ Len(chain) \in Nat /\ Len(chain') = Len(chain) + 1
      /\ chain'[n] = a
      /\ \A i \in 1..Len(chain) : chain'[i] = chain[i]
      /\ edge' = edge
  BY <1>0, StoreFacts
<1>2. n \in 1..Len(chain')
  BY <1>0, <1>1
<1>3. /\ a.state = "closed"
      /\ \/ IsOwedTo(Lineage, a)
         \/ IsOwner(Lineage, a) /\ a.evidence /\ edge.closure_policy = "on-evidence"
         \/ /\ ctx.window_opened_at # Null
            /\ a.asserted_at >= ctx.window_opened_at + edge.acceptance_window
         \/ TwoIn(ctx'.dispute_closed_by) \/ TwoIn(ctx'.contest_closed_by)
  BY <1>1 DEF Moves
<1>4. CASE IsOwedTo(Lineage, a)
  BY <1>1, <1>2, <1>3, <1>4 DEF ClosureOnRecord, SignedByOwedTo, IsOwedTo
<1>5. CASE IsOwner(Lineage, a) /\ a.evidence /\ edge.closure_policy = "on-evidence"
  BY <1>1, <1>2, <1>3, <1>5 DEF ClosureOnRecord, SignedByOwner, IsOwner
<1>6. CASE /\ IsOwner(Lineage, a)
           /\ ctx.window_opened_at # Null
           /\ a.asserted_at >= ctx.window_opened_at + edge.acceptance_window
  <2>1. PICK i \in 1..Len(chain) :
          /\ chain[i].state = "closed" /\ SignedByOwner(chain[i])
          /\ chain[i].evidence /\ chain[i].asserted_at = ctx.window_opened_at
    BY <1>6 DEF MarksOnRecord, WindowOnRecord
  <2>2. /\ i \in 1..Len(chain') /\ n \in (i + 1)..Len(chain')
        /\ chain'[i] = chain[i]
    BY <1>0, <1>1, <2>1
  <2>3. chain'[n].state = "closed" /\ SignedByOwner(chain'[n])
    BY <1>1, <1>3, <1>6 DEF SignedByOwner, IsOwner
  <2>4. chain'[n].asserted_at >= chain'[i].asserted_at + edge'.acceptance_window
    BY <1>1, <1>6, <2>1, <2>2
  <2>5. QED
    BY <2>1, <2>2, <2>3, <2>4 DEF ClosureOnRecord, SignedByOwner
<1>7. QED
  BY <1>1, <1>3, <1>4, <1>5, <1>6

(* A stored assertion keeps a named contest a real one.                    *)
LEMMA StoreContests ==
  ASSUME TypeOK, MarksOnRecord, ContestIsConcurrent, NEW a \in Wire, Store(a)
  PROVE  ContestIsConcurrent'
<1>0. PICK n : n = Len(chain) + 1
  OBVIOUS
<1>1. /\ Moves(edge, Lineage, now, ctx, a, ctx')
      /\ a.signer = a.by
      /\ IsOwner(Lineage, a) \/ IsOwedTo(Lineage, a)
      /\ Len(chain) \in Nat /\ Len(chain') = Len(chain) + 1
      /\ chain'[n] = a
      /\ \A i \in 1..Len(chain) : chain'[i] = chain[i]
      /\ edge' = edge
  BY <1>0, StoreFacts
<1>2. SUFFICES ASSUME ctx'.state = "contested-closure"
               PROVE  \E i, j \in 1..Len(chain') :
                        /\ i < j
                        /\ chain'[i].signer # chain'[j].signer
                        /\ chain'[i].state # chain'[j].state
                        /\ RightfulExit(chain[i])' /\ RightfulExit(chain[j])'
                        /\ chain'[j].asserted_at <= chain'[i].asserted_at
  BY DEF ContestIsConcurrent, RightfulExit, SignedByOwner, SignedByOwedTo
<1>3. CASE ctx.state = "contested-closure"
  <2>1. PICK i, j \in 1..Len(chain) :
          /\ i < j
          /\ chain[i].signer # chain[j].signer
          /\ chain[i].state # chain[j].state
          /\ RightfulExit(chain[i]) /\ RightfulExit(chain[j])
          /\ chain[j].asserted_at <= chain[i].asserted_at
    BY <1>3 DEF ContestIsConcurrent
  <2>2. /\ i \in 1..Len(chain') /\ chain'[i] = chain[i]
        /\ j \in 1..Len(chain') /\ chain'[j] = chain[j]
    BY <1>1
  <2>3. RightfulExit(chain[i])' /\ RightfulExit(chain[j])'
    BY <1>1, <2>1, <2>2 DEF RightfulExit, SignedByOwner, SignedByOwedTo
  <2>4. QED
    BY <2>1, <2>2, <2>3
<1>4. CASE Contests(ctx, a) /\ LegalUnilateralExit(edge, Lineage, now, a)
  <2>1. PICK x \in ctx.exit :
          x.by # a.by /\ x.state # a.state /\ a.asserted_at <= x.at
    BY <1>4 DEF Contests
  <2>2. PICK i \in 1..Len(chain) :
          /\ chain[i].state = x.state /\ chain[i].signer = x.by
          /\ chain[i].asserted_at = x.at
          /\ RightfulExit(chain[i])
    BY <2>1 DEF MarksOnRecord, ExitOnRecord
  <2>3. RightfulExit(a)
    BY <1>1, <1>4, LegalIsRightful
  <2>4. /\ i \in 1..Len(chain') /\ chain'[i] = chain[i]
        /\ n \in 1..Len(chain') /\ i < n
    BY <1>0, <1>1
  <2>5. RightfulExit(chain[i])' /\ RightfulExit(chain[n])'
    BY <1>1, <2>2, <2>3, <2>4 DEF RightfulExit, SignedByOwner, SignedByOwedTo
  <2>6. /\ chain'[i].signer # chain'[n].signer
        /\ chain'[i].state # chain'[n].state
        /\ chain'[n].asserted_at <= chain'[i].asserted_at
    BY <1>1, <2>1, <2>2, <2>4
  <2>7. QED
    BY <2>4, <2>5, <2>6
<1>5. QED
  BY <1>1, <1>2, <1>3, <1>4 DEF Moves

(* A stored assertion expires the edge only when its due date has passed   *)
(* or a deadlock has stood for the whole dispute window.                   *)
LEMMA StoreExpires ==
  ASSUME TypeOK, MarksOnRecord, ExpiryEarned, NEW a \in Wire, Store(a)
  PROVE  ExpiryEarned'
<1>0. PICK n : n = Len(chain) + 1
  OBVIOUS
<1>1. /\ Moves(edge, Lineage, now, ctx, a, ctx')
      /\ Len(chain) \in Nat /\ Len(chain') = Len(chain) + 1
      /\ chain'[n] = a
      /\ \A i \in 1..Len(chain) : chain'[i] = chain[i]
      /\ edge' = edge
  BY <1>0, StoreFacts
<1>2. n \in 1..Len(chain') /\ n - 1 = Len(chain)
  BY <1>0, <1>1
<1> SUFFICES ASSUME ctx'.state = "expired"
             PROVE  ExpiryEarned'
  BY DEF ExpiryEarned
<1>3. a.state = "expired"
  BY <1>1 DEF Moves
<1>4. CASE edge.due # Null /\ a.asserted_at >= edge.due
  BY <1>1, <1>2, <1>3, <1>4 DEF ExpiryEarned
<1>5. ASSUME NEW t, DeadlockOnRecord(t), a.asserted_at >= t + DISPUTE_WINDOW
      PROVE  ExpiryEarned'
  <2>1. PICK j \in 1..Len(chain) :
          /\ chain[j].state \in UNILATERAL_EXITS \cup {"disputed"}
          /\ chain[j].asserted_at = t
    BY <1>5 DEF DeadlockOnRecord
  <2>2. j \in 1..(n - 1) /\ chain'[j] = chain[j]
    BY <1>1, <1>2
  <2>3. QED
    BY <1>1, <1>2, <1>3, <1>5, <2>1, <2>2 DEF ExpiryEarned
<1>6. \/ edge.due # Null /\ a.asserted_at >= edge.due
      \/ /\ ctx.disputed_at # Null
         /\ a.asserted_at >= ctx.disputed_at + DISPUTE_WINDOW
      \/ /\ ctx.contested_at # Null
         /\ a.asserted_at >= ctx.contested_at + DISPUTE_WINDOW
  BY <1>1 DEF Moves
<1>7. QED
  BY <1>4, <1>5, <1>6 DEF MarksOnRecord

(* The strengthening is inductive, for every lineage.                      *)
LEMMA ResolutionInvHolds == Spec => []ResolutionInv
<1>1. Init => ResolutionInv
  BY InitChainStateType, ChainAssumption
  DEF Init, ResolutionInv, MarksOnRecord, ContestIsConcurrent, ExpiryEarned,
      TypeOK, InitChainState
<1>2. ResolutionInv /\ [Next]_vars => ResolutionInv'
  <2> SUFFICES ASSUME ResolutionInv, [Next]_vars
               PROVE  ResolutionInv'
    OBVIOUS
  <2>0. TypeOK /\ MarksOnRecord /\ ContestIsConcurrent /\ ExpiryEarned
    BY DEF ResolutionInv
  <2>1. ASSUME NEW a \in Wire, Store(a)
        PROVE  ResolutionInv'
    <3>1. TypeOK'
      BY <2>0, <2>1, StoreFacts
    <3>2. MarksOnRecord'
      BY <2>0, <2>1, StoreKeepsMarks
    <3>3. ctx'.state = "closed" =>
            \/ ClosureOnRecord'
            \/ TwoIn(ctx'.dispute_closed_by) \/ TwoIn(ctx'.contest_closed_by)
      BY <2>0, <2>1, StoreCloses
    <3>4. ContestIsConcurrent'
      BY <2>0, <2>1, StoreContests
    <3>5. ExpiryEarned'
      BY <2>0, <2>1, StoreExpires
    <3>6. QED
      BY <3>1, <3>2, <3>3, <3>4, <3>5 DEF ResolutionInv, TwoIn
  <2>2. CASE UNCHANGED <<edge, chain, ctx>> /\ now' \in 0..MaxNow
    BY <2>2
    DEF ResolutionInv, MarksOnRecord, ContestIsConcurrent, ExpiryEarned, TypeOK,
        ExitOnRecord, WindowOnRecord, DeadlockOnRecord, SignedClosed,
        ClosureOnRecord, RightfulExit, SignedByOwner, SignedByOwedTo, TwoIn
  <2>3. QED
    BY <2>0, <2>1, <2>2, NextCases
<1>3. QED
  BY <1>1, <1>2, PTL DEF Spec

(* contested-closure always names two rightful exits of two signers that   *)
(* crossed, for every lineage, whatever arrives.                           *)
THEOREM ContestsAreReal == Spec => []ContestIsConcurrent
<1>1. ResolutionInv => ContestIsConcurrent
  BY DEF ResolutionInv
<1>2. QED
  BY <1>1, ResolutionInvHolds, PTL

(* No edge expires before its due date or before the end of a dispute      *)
(* window that really began.                                               *)
THEOREM ExpiryIsEarned == Spec => []ExpiryEarned
<1>1. ResolutionInv => ExpiryEarned
  BY DEF ResolutionInv
<1>2. QED
  BY <1>1, ResolutionInvHolds, PTL

(* While nobody has rotated, no edge is closed but by the owner's evidence *)
(* under its policy, by the creditor's signature, or by the owner after    *)
(* the acceptance window.  (A joint close counts keys, as supersession     *)
(* does: the assumption is needed.)                                        *)
THEOREM ClosureIsEarned ==
  ASSUME OneKeyEach
  PROVE  Spec => []ClosureEarned
<1>1. ResolutionInv => ClosureEarned
  <2> SUFFICES ASSUME ResolutionInv, ctx.state = "closed"
               PROVE  ClosureOnRecord
    BY DEF ClosureEarned, ClosureOnRecord
  <2>1. CASE ClosureOnRecord
    BY <2>1
  <2>2. CASE TwoIn(ctx.dispute_closed_by) \/ TwoIn(ctx.contest_closed_by)
    <3>1. PICK k, l : SignedClosed(k) /\ SignedClosed(l) /\ k # l
      BY <2>2 DEF ResolutionInv, MarksOnRecord, TwoIn
    <3>2. PICK i \in 1..Len(chain) :
            /\ chain[i].state = "closed" /\ chain[i].signer = k
            /\ SignedByOwner(chain[i]) \/ SignedByOwedTo(chain[i])
      BY <3>1 DEF SignedClosed
    <3>3. PICK j \in 1..Len(chain) :
            /\ chain[j].state = "closed" /\ chain[j].signer = l
            /\ SignedByOwner(chain[j]) \/ SignedByOwedTo(chain[j])
      BY <3>1 DEF SignedClosed
    <3>4. ~(SignedByOwner(chain[i]) /\ SignedByOwner(chain[j]))
      BY <3>1, <3>2, <3>3 DEF OneKeyEach, SignedByOwner, HeldBy
    <3>5. SignedByOwedTo(chain[i]) \/ SignedByOwedTo(chain[j])
      BY <3>2, <3>3, <3>4
    <3>6. QED
      BY <3>2, <3>3, <3>5 DEF ClosureOnRecord
  <2>3. QED
    BY <2>1, <2>2 DEF ResolutionInv
<1>2. QED
  BY <1>1, ResolutionInvHolds, PTL

(* No step takes an edge out of a terminal state, except one that names a  *)
(* contest with an exit dated no later than the one on record.             *)
THEOREM OnlyContestsReopen == Spec => ReopenedOnlyByContest
<1>1. TypeOK /\ [Next]_vars =>
        [ctx.state \in TERMINAL_STATES =>
           \/ ctx'.state = ctx.state
           \/ /\ ctx'.state = "contested-closure"
              /\ \E x \in ctx.exit : ctx'.contested_at <= x.at]_ctx
  <2> SUFFICES ASSUME TypeOK, [Next]_vars, ctx' # ctx,
                      ctx.state \in TERMINAL_STATES
               PROVE  /\ ctx'.state = "contested-closure"
                      /\ \E x \in ctx.exit : ctx'.contested_at <= x.at
    OBVIOUS
  <2>1. PICK a \in Wire : Store(a)
    BY NextCases
  <2>2. Moves(edge, Lineage, now, ctx, a, ctx')
    BY <2>1, StoreFacts
  <2>3. /\ ctx'.state = "contested-closure"
        /\ Contests(ctx, a) /\ ctx'.contested_at = a.asserted_at
    BY <2>2 DEF Moves
  <2>4. QED
    BY <2>3 DEF Contests
<1>2. QED
  BY <1>1, TypeCorrect, PTL DEF Spec, ReopenedOnlyByContest

-----------------------------------------------------------------------------
(* Replaying the chain.                                                    *)

(* A set of naturals that is not empty has a least member.                 *)
LEMMA LeastNatural ==
  ASSUME NEW T, T \subseteq Nat, T # {}
  PROVE  \E n \in T : \A m \in T : n <= m
<1>1. IsWellFoundedOn(OpToRel(<, Nat), Nat)
  BY NatLessThanWellFounded, Zenon
<1>2. PICK n \in T : \A m \in T : ~(<<m, n>> \in OpToRel(<, Nat))
  BY <1>1, WFMin, Zenon
<1>3. \A m \in T : ~(m < n)
  BY <1>2, Zenon DEF OpToRel
<1>4. QED
  BY <1>3

(* What is accepted at one instant is accepted at every later one, and by  *)
(* a replay without a clock.                                               *)
LEMMA AcceptsLater ==
  ASSUME NEW e, NEW lin, NEW c, NEW a \in Assertion, NEW t \in Nat,
         NEW u \in {v \in Nat : v >= t} \cup {Null}, Accepts(e, lin, t, c, a)
  PROVE  Accepts(e, lin, u, c, a)
<1>1. NotInTheFuture(t, a) => NotInTheFuture(u, a)
  BY WindowAssumption DEF NotInTheFuture, Assertion, Time, Null
<1>2. LegalUnilateralExit(e, lin, t, a) => LegalUnilateralExit(e, lin, u, a)
  BY <1>1 DEF LegalUnilateralExit
<1>3. LegalFromContested(t, c, a) => LegalFromContested(u, c, a)
  BY <1>1 DEF LegalFromContested
<1>4. LegalExpired(e, lin, t, c, a) => LegalExpired(e, lin, u, c, a)
  BY <1>2 DEF LegalExpired
<1>5. LegalByTable(e, lin, t, c, a) => LegalByTable(e, lin, u, c, a)
  BY <1>4 DEF LegalByTable
<1>6. QED
  BY <1>2, <1>3, <1>5 DEF Accepts

(* f lists the contexts the chain went through, each assertion accepted    *)
(* after those before it, judged at the instant t.                         *)
Trace(f, t) ==
  /\ f = [i \in 0..Len(chain) |-> f[i]]
  /\ f[0] = InitChainState
  /\ \A i \in 1..Len(chain) :
       /\ Accepts(edge, Lineage, t, f[i - 1], chain[i])
       /\ f[i] = Effect(edge, f[i - 1], chain[i])

(* The strengthening of ReplayStable: each assertion of the chain would be *)
(* accepted again now, in its place.                                       *)
ReplayInv ==
  /\ TypeOK
  /\ \E f : Trace(f, now) /\ f[Len(chain)] = ctx

(* A trace is the recomputation, whatever the chain.                       *)
LEMMA TraceIsReplay ==
  ASSUME NEW f, NEW t, Trace(f, t), Len(chain) \in Nat
  PROVE  VerifyAssertionChain(edge, Lineage, t, chain) = f[Len(chain)]
<1> DEFINE Replays(g) ==
             g = [i \in 0..Len(chain) |->
                    IF i = 0 THEN InitChainState
                    ELSE Step(edge, Lineage, t, g[i - 1], chain[i])]
<1>1. Replays(f)
  <2>1. \A i \in 0..Len(chain) :
          f[i] = IF i = 0 THEN InitChainState
                 ELSE Step(edge, Lineage, t, f[i - 1], chain[i])
    <3>1. f[0] = InitChainState
      BY DEF Trace
    <3>2. ASSUME NEW i \in 1..Len(chain)
          PROVE  f[i] = Step(edge, Lineage, t, f[i - 1], chain[i])
      BY DEF Trace, Step
    <3>3. QED
      BY <3>1, <3>2
  <2>2. f = [i \in 0..Len(chain) |-> f[i]]
    BY DEF Trace
  <2>3. QED
    BY <2>1, <2>2
<1>2. ASSUME NEW g, Replays(g)
      PROVE  \A i \in 0..Len(chain) : g[i] = f[i]
  <2> DEFINE T == {i \in 0..Len(chain) : g[i] # f[i]}
  <2>1. SUFFICES ASSUME T # {} PROVE FALSE
    OBVIOUS
  <2>2. PICK n \in T : \A m \in T : n <= m
    <3>1. T \subseteq Nat
      OBVIOUS
    <3> HIDE DEF T
    <3>2. QED
      BY <2>1, <3>1, LeastNatural
  <2>3. n # 0
    BY <1>1, <1>2, <2>2
  <2>4. n - 1 \in 0..Len(chain) /\ g[n - 1] = f[n - 1]
    BY <2>2, <2>3
  <2>5. g[n] = f[n]
    BY <1>1, <1>2, <2>2, <2>3, <2>4
  <2>6. QED
    BY <2>2, <2>5
<1>3. QED
  BY <1>1, <1>2 DEF VerifyAssertionChain

(* The clock stands still or moves on by one.                              *)
LEMMA NowMoves ==
  ASSUME TypeOK, [Next]_vars
  PROVE  now' \in {now, now + 1}
BY DEF Next, Tick, OwnerExpires, Propose, Confirm, Close, Release, Expire,
       Dispute, Supersede, Take, Store, vars

(* The trace grows with the chain, and outlives the clock.                 *)
LEMMA ReplayInvHolds == Spec => []ReplayInv
<1>1. Init => ReplayInv
  <2> SUFFICES ASSUME Init
               PROVE  ReplayInv
    OBVIOUS
  <2>1. TypeOK
    BY InitChainStateType, ChainAssumption DEF Init, TypeOK
  <2>2. Len(chain) = 0 /\ ctx = InitChainState
    BY DEF Init
  <2>3. Trace([i \in 0..0 |-> InitChainState], now)
    BY <2>2 DEF Trace
  <2>4. QED
    BY <2>1, <2>2, <2>3 DEF ReplayInv
<1>2. ReplayInv /\ [Next]_vars => ReplayInv'
  <2> SUFFICES ASSUME ReplayInv, [Next]_vars
               PROVE  ReplayInv'
    OBVIOUS
  <2>0. TypeOK
    BY DEF ReplayInv
  <2>1. PICK f : Trace(f, now) /\ f[Len(chain)] = ctx
    BY DEF ReplayInv
  <2>2. ASSUME NEW a \in Wire, Store(a)
        PROVE  ReplayInv'
    <3>1. /\ TypeOK'
          /\ Len(chain) \in Nat
          /\ Len(chain') = Len(chain) + 1
          /\ chain'[Len(chain) + 1] = a
          /\ \A i \in 1..Len(chain) : chain'[i] = chain[i]
          /\ edge' = edge
      BY <2>0, <2>2, StoreFacts
    <3>2. /\ Accepts(edge, Lineage, now, ctx, a)
          /\ ctx' = Effect(edge, ctx, a)
          /\ now' = now
      BY <2>2 DEF Store
    <3>3. PICK g : g = [i \in 0..Len(chain') |->
                          IF i <= Len(chain) THEN f[i] ELSE ctx']
      OBVIOUS
    <3>4. /\ \A i \in 0..Len(chain) : g[i] = f[i]
          /\ g[Len(chain) + 1] = ctx'
          /\ g = [i \in 0..Len(chain') |-> g[i]]
      BY <3>1, <3>3
    <3>5. ASSUME NEW i \in 1..Len(chain')
          PROVE  /\ Accepts(edge, Lineage, now, g[i - 1], chain'[i])
                 /\ g[i] = Effect(edge, g[i - 1], chain'[i])
      <4>1. CASE i \in 1..Len(chain)
        <5>1. /\ g[i - 1] = f[i - 1] /\ g[i] = f[i] /\ chain'[i] = chain[i]
          BY <3>1, <3>4, <4>1
        <5>2. QED
          BY <2>1, <4>1, <5>1 DEF Trace
      <4>2. CASE i = Len(chain) + 1
        <5>1. g[i - 1] = ctx /\ g[i] = ctx' /\ chain'[i] = a
          BY <2>1, <3>1, <3>4, <4>2
        <5>2. QED
          BY <3>2, <5>1, Zenon
      <4>3. QED
        BY <3>1, <4>1, <4>2
    <3>6. g[0] = InitChainState
      BY <2>1, <3>1, <3>4 DEF Trace
    <3>7. Trace(g, now)'
      BY <3>1, <3>2, <3>4, <3>5, <3>6 DEF Trace
    <3>8. g[Len(chain')] = ctx'
      BY <3>1, <3>4
    <3>9. QED
      BY <3>1, <3>7, <3>8 DEF ReplayInv
  <2>3. CASE UNCHANGED <<edge, chain, ctx>> /\ now' \in 0..MaxNow
    <3>1. TypeOK'
      BY <2>0, <2>3 DEF TypeOK
    <3>2. now \in Nat /\ now' \in Nat /\ now' >= now
      <4>1. now' \in {now, now + 1}
        BY <2>0, <2>3, NowMoves
      <4>2. QED
        BY <2>0, <4>1 DEF TypeOK
    <3>3. \A i \in 1..Len(chain) : chain[i] \in Assertion
      BY <2>0, ChainAssumption DEF TypeOK
    <3>4. \A i \in 1..Len(chain) :
            Accepts(edge, Lineage, now', f[i - 1], chain[i])
      BY <2>1, <3>2, <3>3, AcceptsLater DEF Trace
    <3>5. Trace(f, now)'
      BY <2>1, <2>3, <3>4 DEF Trace
    <3>6. QED
      BY <2>1, <2>3, <3>1, <3>5 DEF ReplayInv
  <2>4. QED
    BY <2>0, <2>2, <2>3, NextCases
<1>3. QED
  BY <1>1, <1>2, PTL DEF Spec

(* What was accepted stays accepted: recomputing the stored chain, with    *)
(* the clock as it stands or with none, always gives the context the chain *)
(* was built with.                                                         *)
THEOREM ReplayIsStable == Spec => []ReplayStable
<1>1. ReplayInv => ReplayStable
  <2> SUFFICES ASSUME ReplayInv, NEW t \in {now, Null}
               PROVE  VerifyAssertionChain(edge, Lineage, t, chain) = ctx
    BY DEF ReplayStable
  <2>1. PICK f : Trace(f, now) /\ f[Len(chain)] = ctx
    BY DEF ReplayInv
  <2>2. /\ Len(chain) \in Nat /\ now \in Nat
        /\ \A i \in 1..Len(chain) : chain[i] \in Assertion
    BY ChainAssumption DEF ReplayInv, TypeOK
  <2>3. t \in {v \in Nat : v >= now} \cup {Null}
    BY <2>2
  <2>4. \A i \in 1..Len(chain) : Accepts(edge, Lineage, t, f[i - 1], chain[i])
    BY <2>1, <2>2, <2>3, AcceptsLater DEF Trace
  <2>5. Trace(f, t)
    BY <2>1, <2>4 DEF Trace
  <2>6. QED
    BY <2>1, <2>2, <2>5, TraceIsReplay
<1>2. QED
  BY <1>1, ReplayInvHolds, PTL

-----------------------------------------------------------------------------
(* Offers: what a view tells a party, beside what the table takes.         *)

(* How an edge comes to await its creditor's word: only from open, by the  *)
(* owner's evidence, whose date opens the window; and nothing leads back.  *)
LEMMA WindowMoves ==
  ASSUME NEW e \in EdgeBody, NEW lin, NEW t, NEW c \in ChainState,
         NEW a \in Assertion, Accepts(e, lin, t, c, a)
  PROVE  LET f == Effect(e, c, a)
         IN /\ f.state \in {"none", "proposed", "open"} =>
                 c.state \in {"none", "proposed", "open"} /\ a.state # "closed"
            /\ f.state = "pending-acceptance" =>
                 /\ c.state = "open" /\ a.state = "closed" /\ IsOwner(lin, a)
                 /\ e.closure_policy = "on-acceptance"
                 /\ f.window_opened_at = a.asserted_at
<1> DEFINE f == Effect(e, c, a)
<1>1. CASE Contests(c, a) /\ f = Dated(Contest(c, a), a)
  BY <1>1, ContestType, StateAfter, DatedKeeps
<1>2. CASE /\ c.state = "contested-closure"
           /\ LegalFromContested(t, c, a)
           /\ f = Dated(EffectFromContested(c, a), a)
  <2> DEFINE g == EffectFromContested(c, a)
  <2>1. g.state \in {"contested-closure", "closed", "superseded", "expired"}
    BY <1>2, StateAfter DEF EffectFromContested, LegalFromContested, EffectiveState
  <2>2. f.state = g.state
    BY <1>2, EffectFromContestedType, DatedKeeps
  <2>3. QED
    BY <2>1, <2>2
<1>3. CASE /\ c.state # "contested-closure"
           /\ LegalByTable(e, lin, t, c, a)
           /\ f = Dated(EffectByTable(e, c, a), a)
  <2> DEFINE g == EffectByTable(e, c, a)
  <2>1. g \in ChainState
    BY <1>3, EffectByTableType
  <2>2. f.state = g.state /\ f.window_opened_at = g.window_opened_at
    BY <1>3, <2>1, DatedKeeps, MarksAfter DEF KeepsMarks
  <2>3. CASE a.state = "proposed"
    <3>1. c.state = "none" /\ g.state = "proposed"
      BY <1>3, <2>3 DEF LegalByTable, EffectByTable, ChainState
    <3>2. QED
      BY <2>2, <2>3, <3>1
  <2>4. CASE a.state = "confirmed"
    <3>1. c.state = "proposed" /\ g.state = "open"
      BY <1>3, <2>4 DEF LegalByTable, EffectByTable, ChainState
    <3>2. QED
      BY <2>2, <2>4, <3>1
  <2>5. CASE a.state \in {"released", "expired"}
    <3>1. RecordExit(c, a) \in ChainState
      BY <2>5, RecordExitType DEF UNILATERAL_EXITS
    <3>2. g.state \in {"released", "expired"}
      BY <2>5, <3>1, StateAfter DEF EffectByTable, EffectiveState
    <3>3. QED
      BY <2>2, <3>2
  <2>6. CASE a.state = "disputed"
    <3>1. g.state = "disputed"
      BY <2>6 DEF EffectByTable, ChainState
    <3>2. QED
      BY <2>2, <3>1
  <2>7. CASE a.state = "superseded"
    <3>1. c.state \in {"open", "disputed"} /\ g.state \in {c.state, "superseded"}
      BY <1>3, <2>7, StateAfter DEF LegalByTable, EffectByTable
    <3>2. QED
      BY <2>2, <2>7, <3>1
  <2>8. CASE a.state = "closed"
    <3>1. LegalClosed(e, lin, c, a) /\ g = EffectOfClosed(e, c, a)
      BY <1>3, <2>8 DEF LegalByTable, EffectByTable
    <3>2. CASE c.state = "open"
      <4>1. RecordExit(c, a) \in ChainState
        BY <2>8, RecordExitType DEF UNILATERAL_EXITS
      <4>2. g = EvidenceClose(e, c, a) /\ IsOwner(lin, a)
        BY <3>1, <3>2 DEF EffectOfClosed, LegalClosed
      <4>3. CASE e.closure_policy = "on-evidence"
        <5>1. g.state = "closed"
          BY <4>1, <4>2, <4>3, StateAfter DEF EvidenceClose, EffectiveState
        <5>2. QED
          BY <2>2, <5>1
      <4>4. CASE e.closure_policy # "on-evidence"
        <5>1. e.closure_policy = "on-acceptance"
          BY <4>4 DEF EdgeBody
        <5>2. g.state = "pending-acceptance" /\ g.window_opened_at = a.asserted_at
          BY <4>1, <4>2, <4>4 DEF EvidenceClose, ChainState
        <5>3. QED
          BY <2>2, <2>8, <3>2, <4>2, <5>1, <5>2
      <4>5. QED
        BY <4>3, <4>4
    <3>3. CASE c.state = "pending-acceptance"
      <4>1. g.state = "closed"
        BY <3>1, <3>3, StateAfter DEF EffectOfClosed, EffectiveState
      <4>2. QED
        BY <2>2, <4>1
    <3>4. CASE c.state = "disputed"
      <4>1. g.state \in {"disputed", "closed"}
        BY <3>1, <3>4, StateAfter DEF EffectOfClosed
      <4>2. QED
        BY <2>2, <4>1
    <3>5. QED
      BY <3>1, <3>2, <3>3, <3>4 DEF LegalClosed
  <2>9. QED
    BY <1>3, <2>3, <2>4, <2>5, <2>6, <2>7, <2>8 DEF LegalByTable
<1>4. QED
  BY <1>1, <1>2, <1>3, EffectCases

(* The two parties of Offers hold one key each, the one the edge names.    *)
PartiesNamed ==
  Lineage = [owner   |-> {[key |-> ownerKey, supersededAt |-> Null]},
             owed_to |-> {[key |-> owedToKey, supersededAt |-> Null]}]

ClosedByOwner(i) == chain[i].state = "closed" /\ chain[i].by = ownerKey

(* The clock that actions.ts reads off the chain a second time is the one  *)
(* the table keeps: the first closed the owner signed is the one that      *)
(* opened the window.  A malformed edge never gets anywhere.               *)
WindowInv ==
  /\ TypeOK
  /\ EdgeMalformed(edge) => ctx.state = "none"
  /\ ctx.state \in {"none", "proposed", "open"} =>
       \A i \in 1..Len(chain) : ~ClosedByOwner(i)
  /\ ctx.state = "pending-acceptance" =>
       /\ edge.closure_policy = "on-acceptance"
       /\ \E i \in 1..Len(chain) :
            /\ ClosedByOwner(i) /\ chain[i].asserted_at = ctx.window_opened_at
            /\ \A j \in 1..Len(chain) : ClosedByOwner(j) => j = i

(* It holds of every state.                                                *)
LEMMA WindowInvHolds ==
  ASSUME PartiesNamed
  PROVE  Spec => []WindowInv
<1>1. Init => WindowInv
  <2> SUFFICES ASSUME Init PROVE WindowInv
    OBVIOUS
  <2>1. TypeOK
    BY InitChainStateType, ChainAssumption DEF Init, TypeOK
  <2>2. ctx.state = "none"
    BY DEF Init, InitChainState
  <2>3. QED
    BY <2>1, <2>2 DEF Init, WindowInv
<1>2. WindowInv /\ [Next]_vars => WindowInv'
  <2> SUFFICES ASSUME WindowInv, [Next]_vars
               PROVE  WindowInv'
    OBVIOUS
  <2>0. TypeOK
    BY DEF WindowInv
  <2>1. ASSUME NEW a \in Wire, Store(a) PROVE WindowInv'
    <3>1. /\ a \in Assertion /\ ctx \in ChainState /\ TypeOK'
          /\ Len(chain) \in Nat /\ Len(chain') = Len(chain) + 1
          /\ chain'[Len(chain) + 1] = a
          /\ \A i \in 1..Len(chain) : chain'[i] = chain[i]
          /\ edge' = edge
      BY <2>0, <2>1, StoreFacts
    <3>2. Accepts(edge, Lineage, now, ctx, a) /\ ctx' = Effect(edge, ctx, a)
          /\ edge \in EdgeBody
      BY <2>0, <2>1, ChainAssumption DEF Store, TypeOK
    <3>3. ~EdgeMalformed(edge)
      BY <3>2 DEF Accepts
    <3>4. /\ ctx'.state \in {"none", "proposed", "open"} =>
               ctx.state \in {"none", "proposed", "open"} /\ a.state # "closed"
          /\ ctx'.state = "pending-acceptance" =>
               /\ ctx.state = "open" /\ a.state = "closed" /\ IsOwner(Lineage, a)
               /\ edge.closure_policy = "on-acceptance"
               /\ ctx'.window_opened_at = a.asserted_at
      BY <3>1, <3>2, WindowMoves
    <3>5. PICK n \in Nat : n = Len(chain)
      BY <3>1
    <3>6. /\ Len(chain') = n + 1 /\ chain'[n + 1] = a
          /\ \A i \in 1..(n + 1) : i = n + 1 \/ (i \in 1..n /\ chain'[i] = chain[i])
          /\ n + 1 \in 1..(n + 1)
      BY <3>1, <3>5
    <3>7. ASSUME ctx'.state \in {"none", "proposed", "open"},
                 NEW i \in 1..(n + 1)
          PROVE  ~(ClosedByOwner(i))'
      BY <3>4, <3>5, <3>6, <3>7 DEF WindowInv, ClosedByOwner
    <3>8. ASSUME ctx'.state = "pending-acceptance"
          PROVE  \E i \in 1..(n + 1) :
                   /\ (ClosedByOwner(i))' /\ chain'[i].asserted_at = ctx'.window_opened_at
                   /\ \A j \in 1..(n + 1) : (ClosedByOwner(j))' => j = i
      <4>1. a.by = ownerKey
        BY <3>4, <3>8 DEF IsOwner, HeldBy, PartiesNamed
      <4>2. (ClosedByOwner(n + 1))' /\ chain'[n + 1].asserted_at = ctx'.window_opened_at
        BY <3>4, <3>6, <3>8, <4>1 DEF ClosedByOwner
      <4>3. ASSUME NEW j \in 1..(n + 1), (ClosedByOwner(j))' PROVE j = n + 1
        BY <3>4, <3>5, <3>6, <3>8, <4>3 DEF WindowInv, ClosedByOwner
      <4>4. QED
        BY <3>6, <4>2, <4>3
    <3>9. QED
      BY <3>1, <3>3, <3>4, <3>6, <3>7, <3>8 DEF WindowInv
  <2>2. CASE UNCHANGED <<edge, chain, ctx>> /\ now' \in 0..MaxNow
    BY <2>0, <2>2 DEF WindowInv, TypeOK, ClosedByOwner
  <2>3. QED
    BY <2>0, <2>1, <2>2, NextCases
<1>3. QED
  BY <1>1, <1>2, PTL DEF Spec

Lists(acts, act) == \E i \in DOMAIN acts : acts[i] = act

(* What is in two lists one after the other.                               *)
LEMMA InBoth ==
  ASSUME NEW T, NEW s \in Seq(T), NEW t \in Seq(T), NEW x
  PROVE  /\ s \o t \in Seq(T)
         /\ Lists(s \o t, x) <=> Lists(s, x) \/ Lists(t, x)
<1>1. PICK m \in Nat, n \in Nat : m = Len(s) /\ n = Len(t)
  OBVIOUS
<1>2. PICK r : r = s \o t
  OBVIOUS
<1>3. /\ r \in Seq(T) /\ DOMAIN r = 1..(m + n)
      /\ DOMAIN s = 1..m /\ DOMAIN t = 1..n
      /\ \A i \in 1..(m + n) : r[i] = IF i <= m THEN s[i] ELSE t[i - m]
  BY <1>1, <1>2
<1>4. ASSUME NEW i \in DOMAIN r, r[i] = x
      PROVE  (\E j \in DOMAIN s : s[j] = x) \/ (\E j \in DOMAIN t : t[j] = x)
  <2>1. CASE i <= m
    <3>1. i \in 1..m /\ s[i] = x
      BY <1>3, <1>4, <2>1
    <3>2. QED
      BY <1>3, <3>1
  <2>2. CASE ~(i <= m)
    <3>1. i - m \in 1..n /\ t[i - m] = x
      BY <1>3, <1>4, <2>2
    <3>2. QED
      BY <1>3, <3>1
  <2>3. QED
    BY <2>1, <2>2
<1>5. ASSUME NEW j \in DOMAIN s, s[j] = x PROVE \E i \in DOMAIN r : r[i] = x
  <2>1. j \in 1..(m + n) /\ r[j] = x
    BY <1>3, <1>5
  <2>2. QED
    BY <1>3, <2>1
<1>6. ASSUME NEW j \in DOMAIN t, t[j] = x PROVE \E i \in DOMAIN r : r[i] = x
  <2>1. j + m \in 1..(m + n) /\ ~(j + m <= m) /\ (j + m) - m = j
    BY <1>3
  <2>2. r[j + m] = x
    BY <1>3, <1>6, <2>1
  <2>3. QED
    BY <1>3, <2>1, <2>2
<1>7. QED
  BY <1>2, <1>3, <1>4, <1>5, <1>6 DEF Lists

(* A list of none, of one and of two.                                      *)
LEMMA ShortLists ==
  ASSUME NEW p, NEW q, NEW x
  PROVE  /\ ~Lists(<<>>, x)
         /\ Lists(<<p>>, x) <=> x = p
         /\ Lists(<<p, q>>, x) <=> x = p \/ x = q
<1>1. ~Lists(<<>>, x)
  BY DEF Lists
<1>2. Lists(<<p>>, x) <=> x = p
  BY DEF Lists
<1>3. Lists(<<p, q>>, x) <=> x = p \/ x = q
  <2>1. DOMAIN <<p, q>> = {1, 2} /\ <<p, q>>[1] = p /\ <<p, q>>[2] = q
    OBVIOUS
  <2>2. QED
    BY <2>1, Zenon DEF Lists
<1>4. QED
  BY <1>1, <1>2, <1>3

ItemAct == {"done", "release", "expire", "confirm", "dismiss",
            "supersede", "delegate", "ping", "propose"}

(* What actionsFor offers: each signing act in the states, to the roles    *)
(* and under the clocks that make it one.                                  *)
Listed(acts, s, r, w, dw, d) ==
  /\ acts \in Seq(ItemAct)
  /\ Lists(acts, "done") <=>
       r = "owner" /\ (s = "open" \/ (s = "pending-acceptance" /\ w))
  /\ Lists(acts, "release") <=> r = "owed_to" /\ s = "open"
  /\ Lists(acts, "expire") <=>
       \/ s = "open" /\ d
       \/ s \in {"disputed", "contested-closure"} /\ dw
  /\ Lists(acts, "confirm") <=> r = "owed_to" /\ s = "proposed"
  /\ Lists(acts, "dismiss") <=> r = "owed_to" /\ s = "proposed"

LEMMA ActsOffered ==
  ASSUME NEW s, NEW r \in {"owner", "owed_to"},
         NEW w \in BOOLEAN, NEW dw \in BOOLEAN, NEW d \in BOOLEAN,
         NEW acts, acts = ActionsFor(s, r, w, dw, d)
  PROVE  Listed(acts, s, r, w, dw, d)
<1> USE DEF Listed
<1>1. PICK expire : expire = IF d THEN <<"expire">> ELSE <<>>
  OBVIOUS
<1>2. PICK close : close = IF w THEN <<"done">> ELSE <<>>
  OBVIOUS
<1>3. PICK leave : leave = IF dw THEN <<"expire">> ELSE <<>>
  OBVIOUS
<1>4. /\ \A p, q \in ItemAct : <<p>> \in Seq(ItemAct) /\ <<p, q>> \in Seq(ItemAct)
      /\ <<>> \in Seq(ItemAct)
  OBVIOUS
<1>5. /\ "done" \in ItemAct /\ "release" \in ItemAct /\ "expire" \in ItemAct
      /\ "confirm" \in ItemAct /\ "dismiss" \in ItemAct /\ "supersede" \in ItemAct
      /\ "delegate" \in ItemAct /\ "ping" \in ItemAct
  BY DEF ItemAct
<1>6. expire \in Seq(ItemAct) /\ close \in Seq(ItemAct) /\ leave \in Seq(ItemAct)
  <2>1. expire \in Seq(ItemAct)
    BY <1>1, <1>4, <1>5, Zenon
  <2>2. close \in Seq(ItemAct)
    BY <1>2, <1>4, <1>5, Zenon
  <2>3. leave \in Seq(ItemAct)
    BY <1>3, <1>4, <1>5, Zenon
  <2>4. QED
    BY <2>1, <2>2, <2>3
<1>7. \A x : /\ Lists(expire, x) <=> d /\ x = "expire"
             /\ Lists(close, x) <=> w /\ x = "done"
             /\ Lists(leave, x) <=> dw /\ x = "expire"
  <2> TAKE x
  <2>1. Lists(expire, x) <=> d /\ x = "expire"
    BY <1>1, ShortLists, Zenon
  <2>2. Lists(close, x) <=> w /\ x = "done"
    BY <1>2, ShortLists, Zenon
  <2>3. Lists(leave, x) <=> dw /\ x = "expire"
    BY <1>3, ShortLists, Zenon
  <2>4. QED
    BY <2>1, <2>2, <2>3
<1>8. ASSUME NEW u \in Seq(ItemAct), NEW v \in Seq(ItemAct)
      PROVE  /\ u \o v \in Seq(ItemAct)
             /\ \A x : Lists(u \o v, x) <=> Lists(u, x) \/ Lists(v, x)
  <2>1. u \o v \in Seq(ItemAct)
    OBVIOUS
  <2>2. ASSUME NEW x PROVE Lists(u \o v, x) <=> Lists(u, x) \/ Lists(v, x)
    BY InBoth
  <2>3. QED
    BY <2>1, <2>2
<1>9. CASE s = "proposed"
  <2>1. acts = IF r = "owner" THEN <<"ping">> ELSE <<"confirm", "dismiss">>
    BY <1>9 DEF ActionsFor
  <2>2. acts \in Seq(ItemAct)
    BY <1>4, <1>5, <2>1, Zenon
  <2>3. CASE r = "owner"
    <3>1. acts = <<"ping">>
      BY <2>1, <2>3
    <3>2. \A x : Lists(acts, x) <=> x = "ping"
      BY <3>1, ShortLists, Zenon
    <3>3. QED
      BY <1>9, <2>2, <2>3, <3>2
  <2>4. CASE r = "owed_to"
    <3>1. PICK v \in Seq(ItemAct) : v = <<"confirm", "dismiss">>
      BY <1>4, <1>5
    <3>2. \A x : Lists(v, x) <=> x = "confirm" \/ x = "dismiss"
      BY <3>1, ShortLists, Zenon
    <3>3. acts = v
      BY <2>1, <2>4, <3>1
    <3>4. QED
      BY <1>9, <2>4, <3>2, <3>3
  <2>5. QED
    BY <2>3, <2>4
<1>10. CASE s = "open" /\ r = "owner"
  <2>1. acts = (<<"done">> \o expire) \o <<"supersede", "delegate">>
    BY <1>1, <1>10 DEF ActionsFor
  <2>2. PICK u \in Seq(ItemAct) : u = <<"done">>
    BY <1>4, <1>5
  <2>3. PICK v \in Seq(ItemAct) : v = <<"supersede", "delegate">>
    BY <1>4, <1>5
  <2>4. PICK y \in Seq(ItemAct) : y = u \o expire
    BY <1>6, <1>8
  <2>5. acts = y \o v
    BY <2>1, <2>2, <2>3, <2>4
  <2>6. \A x : Lists(u, x) <=> x = "done"
    BY <2>2, ShortLists, Zenon
  <2>7. \A x : Lists(v, x) <=> x = "supersede" \/ x = "delegate"
    BY <2>3, ShortLists, Zenon
  <2>8. \A x : Lists(y, x) <=> x = "done" \/ (d /\ x = "expire")
    BY <1>6, <1>7, <1>8, <2>4, <2>6
  <2>9. acts \in Seq(ItemAct)
        /\ \A x : Lists(acts, x) <=> Lists(y, x) \/ Lists(v, x)
    BY <1>8, <2>5
  <2>10. \A x : Lists(acts, x) <=> \/ x = "done" \/ (d /\ x = "expire")
                                  \/ x = "supersede" \/ x = "delegate"
    BY <2>7, <2>8, <2>9, Zenon
  <2>11. acts \in Seq(ItemAct)
    BY <2>9
  <2>12. /\ Lists(acts, "done") /\ ~Lists(acts, "release")
         /\ ~Lists(acts, "confirm") /\ ~Lists(acts, "dismiss")
    BY <2>10
  <2>13. Lists(acts, "expire") <=> d
    BY <2>10
  <2>14. QED
    BY <1>10, <2>11, <2>12, <2>13
<1>11. CASE s = "open" /\ r = "owed_to"
  <2>1. acts = (<<"release">> \o expire) \o <<"ping", "supersede">>
    BY <1>1, <1>11 DEF ActionsFor
  <2>2. PICK u \in Seq(ItemAct) : u = <<"release">>
    BY <1>4, <1>5
  <2>3. PICK v \in Seq(ItemAct) : v = <<"ping", "supersede">>
    BY <1>4, <1>5
  <2>4. PICK y \in Seq(ItemAct) : y = u \o expire
    BY <1>6, <1>8
  <2>5. acts = y \o v
    BY <2>1, <2>2, <2>3, <2>4
  <2>6. \A x : Lists(u, x) <=> x = "release"
    BY <2>2, ShortLists, Zenon
  <2>7. \A x : Lists(v, x) <=> x = "ping" \/ x = "supersede"
    BY <2>3, ShortLists, Zenon
  <2>8. \A x : Lists(y, x) <=> x = "release" \/ (d /\ x = "expire")
    BY <1>6, <1>7, <1>8, <2>4, <2>6
  <2>9. acts \in Seq(ItemAct)
        /\ \A x : Lists(acts, x) <=> Lists(y, x) \/ Lists(v, x)
    BY <1>8, <2>5
  <2>10. \A x : Lists(acts, x) <=> \/ x = "release" \/ (d /\ x = "expire")
                                  \/ x = "ping" \/ x = "supersede"
    BY <2>7, <2>8, <2>9, Zenon
  <2>11. acts \in Seq(ItemAct)
    BY <2>9
  <2>12. /\ Lists(acts, "release") /\ ~Lists(acts, "done")
         /\ ~Lists(acts, "confirm") /\ ~Lists(acts, "dismiss")
    BY <2>10
  <2>13. Lists(acts, "expire") <=> d
    BY <2>10
  <2>14. QED
    BY <1>11, <2>11, <2>12, <2>13
<1>12. CASE s = "pending-acceptance" /\ r = "owner"
  <2>1. acts = close \o <<"supersede", "delegate">>
    BY <1>2, <1>12 DEF ActionsFor
  <2>2. PICK v \in Seq(ItemAct) : v = <<"supersede", "delegate">>
    BY <1>4, <1>5
  <2>3. \A x : Lists(v, x) <=> x = "supersede" \/ x = "delegate"
    BY <2>2, ShortLists, Zenon
  <2>4. acts = close \o v
    BY <2>1, <2>2
  <2>5. acts \in Seq(ItemAct)
        /\ \A x : Lists(acts, x) <=> Lists(close, x) \/ Lists(v, x)
    BY <1>6, <1>8, <2>4
  <2>6. QED
    BY <1>7, <1>12, <2>3, <2>5
<1>13. CASE s = "pending-acceptance" /\ r = "owed_to"
  <2>1. acts = <<"supersede">>
    BY <1>13 DEF ActionsFor
  <2>2. acts \in Seq(ItemAct)
    BY <1>4, <1>5, <2>1, Zenon
  <2>3. \A x : Lists(acts, x) <=> x = "supersede"
    BY <2>1, ShortLists, Zenon
  <2>4. QED
    BY <1>13, <2>2, <2>3
<1>14. CASE s \in {"disputed", "contested-closure"}
  <2>1. acts = leave \o <<"supersede">>
    BY <1>3, <1>14 DEF ActionsFor
  <2>2. PICK v \in Seq(ItemAct) : v = <<"supersede">>
    BY <1>4, <1>5
  <2>3. \A x : Lists(v, x) <=> x = "supersede"
    BY <2>2, ShortLists, Zenon
  <2>4. acts = leave \o v
    BY <2>1, <2>2
  <2>5. acts \in Seq(ItemAct)
        /\ \A x : Lists(acts, x) <=> Lists(leave, x) \/ Lists(v, x)
    BY <1>6, <1>8, <2>4
  <2>6. QED
    BY <1>7, <1>14, <2>3, <2>5
<1>15. CASE s \notin {"proposed", "open", "pending-acceptance", "disputed",
                      "contested-closure"}
  <2>1. acts = <<>>
    BY <1>15 DEF ActionsFor
  <2>2. acts \in Seq(ItemAct)
    BY <1>4, <2>1, Zenon
  <2>3. \A x : ~Lists(acts, x)
    BY <2>1 DEF Lists
  <2>4. QED
    BY <1>15, <2>2, <2>3
<1>16. QED
  BY <1>9, <1>10, <1>11, <1>12, <1>13, <1>14, <1>15

(* What act and confirm sign for a party whose clock is past what it has   *)
(* to act on is judged by the row of the edge's state: no contest, no date *)
(* out of order, and the party is who it says.                             *)
LEMMA JudgedByState ==
  ASSUME TypeOK, PartiesNamed, NEW k \in InStep, NEW s, NEW v, NEW a,
         a = Assertable(k, s, v), s \in {"confirmed", "closed", "released", "expired"}
  PROVE  /\ a.state = s /\ a.by = k /\ a.asserted_at = now /\ a.evidence = v
         /\ IsOwner(Lineage, a) <=> k = ownerKey
         /\ IsOwedTo(Lineage, a) <=> k = owedToKey
         /\ ~Contests(ctx, a)
         /\ Accepts(edge, Lineage, now, ctx, a) <=>
              /\ ~EdgeMalformed(edge)
              /\ ctx.state \notin TERMINAL_STATES
              /\ IF ctx.state = "contested-closure"
                 THEN LegalFromContested(now, ctx, a)
                 ELSE LegalByTable(edge, Lineage, now, ctx, a)
<1>1. /\ a.state = s /\ a.by = k /\ a.asserted_at = now /\ a.evidence = v
      /\ a.signer = k /\ a.edge_id = edge.edge_id
  BY DEF Assertable
<1>2. /\ k \in {ownerKey, owedToKey} /\ ownerKey # owedToKey
      /\ ctx.latest_by_signer[k] <= now
      /\ \A x \in ctx.exit : x.by = k \/ x.at < now
  BY PartyAssumption DEF InStep, Party
<1>3. now \in Nat /\ ctx \in ChainState
  BY ChainAssumption DEF TypeOK
<1>4. IsOwner(Lineage, a) <=> k = ownerKey
  <2>1. Lineage.owner = {[key |-> ownerKey, supersededAt |-> Null]}
    BY DEF PartiesNamed
  <2>2. QED
    BY <1>1, <2>1 DEF IsOwner, HeldBy
<1>5. IsOwedTo(Lineage, a) <=> k = owedToKey
  <2>1. Lineage.owed_to = {[key |-> owedToKey, supersededAt |-> Null]}
    BY DEF PartiesNamed
  <2>2. QED
    BY <1>1, <2>1 DEF IsOwedTo, HeldBy
<1>6. ~Contests(ctx, a)
  <2> SUFFICES ASSUME NEW x \in ctx.exit, x.by # k, now <= x.at
               PROVE  FALSE
    BY <1>1 DEF Contests
  <2>1. x.at \in Nat
    BY <1>3 DEF ChainState, Time
  <2>2. QED
    BY <1>2, <1>3, <2>1
<1>7. InSignersOrder(ctx, a)
  <2>1. ctx.latest_by_signer[k] \in Nat \cup {Null}
    BY <1>2, <1>3, PartyAssumption DEF ChainState, TimeOrNull, Time
  <2>2. now >= ctx.latest_by_signer[k]
    BY <1>2, <1>3, <2>1 DEF Null
  <2>3. QED
    BY <1>1, <2>2 DEF InSignersOrder
<1>8. Authentic(edge, a) /\ a.state \notin NON_ASSERTABLE_STATES
  BY <1>1 DEF Authentic, NON_ASSERTABLE_STATES
<1>9. IsOwner(Lineage, a) \/ IsOwedTo(Lineage, a)
  BY <1>2, <1>4, <1>5
<1>10. QED
  BY <1>1, <1>4, <1>5, <1>6, <1>7, <1>8, <1>9, Zenon DEF Accepts

(* When each signing act is taken.                                         *)
LEMMA ActsTaken ==
  ASSUME WindowInv, PartiesNamed, NEW k \in InStep
  PROVE  /\ Taken(k, "done") <=>
              /\ k = ownerKey
              /\ \/ ctx.state = "open"
                 \/ ctx.state = "pending-acceptance" /\ AcceptanceWindowElapsed(now)
         /\ Taken(k, "release") <=> k = owedToKey /\ ctx.state = "open"
         /\ Taken(k, "expire") <=>
              \/ ctx.state = "open" /\ DueElapsed(now)
              \/ /\ ctx.state \in {"disputed", "contested-closure"}
                 /\ DisputeWindowElapsed(now)
         /\ Taken(k, "confirm") <=> k = owedToKey /\ ctx.state = "proposed"
         /\ Taken(k, "dismiss")
<1>1. /\ TypeOK /\ now \in Nat /\ ctx \in ChainState
      /\ DISPUTE_WINDOW \in Nat /\ EXPIRY_SKEW \in Nat
      /\ edge \in EdgeBody
  BY ChainAssumption, WindowAssumption DEF WindowInv, TypeOK
<1>2. k \in Party /\ ownerKey # owedToKey /\ Party = {ownerKey, owedToKey}
  BY PartyAssumption DEF InStep, Party
<1>3. EdgeMalformed(edge) => ctx.state = "none"
  BY DEF WindowInv
<1>4. Taken(k, "confirm") <=> k = owedToKey /\ ctx.state = "proposed"
  <2>0. PICK v \in BOOLEAN : v = FALSE
    OBVIOUS
  <2>1. PICK a : a = Assertable(k, "confirmed", v)
    OBVIOUS
  <2>2. /\ a.state = "confirmed" /\ (IsOwedTo(Lineage, a) <=> k = owedToKey)
        /\ Accepts(edge, Lineage, now, ctx, a) <=>
             /\ ~EdgeMalformed(edge)
             /\ ctx.state \notin TERMINAL_STATES
             /\ IF ctx.state = "contested-closure"
                THEN LegalFromContested(now, ctx, a)
                ELSE LegalByTable(edge, Lineage, now, ctx, a)
    BY <1>1, <1>2, <2>1, JudgedByState
  <2>3. ~LegalFromContested(now, ctx, a)
    BY <2>2 DEF LegalFromContested
  <2>4. LegalByTable(edge, Lineage, now, ctx, a) <=>
          ctx.state = "proposed" /\ IsOwedTo(Lineage, a)
    BY <2>2 DEF LegalByTable
  <2>5. Accepts(edge, Lineage, now, ctx, a) <=> k = owedToKey /\ ctx.state = "proposed"
    BY <1>3, <2>2, <2>3, <2>4 DEF TERMINAL_STATES
  <2>6. Taken(k, "confirm") <=> k = owedToKey /\ Accepts(edge, Lineage, now, ctx, a)
    BY <2>0, <2>1 DEF Taken, ConfirmTakes, ACT_TOOL_BINDINGS
  <2>7. QED
    BY <2>5, <2>6
<1>5. Taken(k, "dismiss")
  BY DEF Taken, ConfirmTakes, ACT_TOOL_BINDINGS
<1>6. Taken(k, "release") <=> k = owedToKey /\ ctx.state = "open"
  <2>0. PICK v \in BOOLEAN : v = FALSE
    OBVIOUS
  <2>1. PICK a : a = Assertable(k, "released", v)
    OBVIOUS
  <2>2. /\ a.state = "released" /\ (IsOwedTo(Lineage, a) <=> k = owedToKey)
        /\ Accepts(edge, Lineage, now, ctx, a) <=>
             /\ ~EdgeMalformed(edge)
             /\ ctx.state \notin TERMINAL_STATES
             /\ IF ctx.state = "contested-closure"
                THEN LegalFromContested(now, ctx, a)
                ELSE LegalByTable(edge, Lineage, now, ctx, a)
    BY <1>1, <1>2, <2>1, JudgedByState
  <2>3. ~LegalFromContested(now, ctx, a)
    BY <2>2 DEF LegalFromContested
  <2>4. LegalByTable(edge, Lineage, now, ctx, a) <=>
          ctx.state = "open" /\ IsOwedTo(Lineage, a)
    BY <2>2 DEF LegalByTable
  <2>5. Accepts(edge, Lineage, now, ctx, a) <=> k = owedToKey /\ ctx.state = "open"
    BY <1>3, <2>2, <2>3, <2>4 DEF TERMINAL_STATES
  <2>6. Taken(k, "release") <=> k = owedToKey /\ Accepts(edge, Lineage, now, ctx, a)
    BY <1>2, <2>0, <2>1 DEF Taken, ActTakes, Asserts, ACT_TOOL_BINDINGS
  <2>7. QED
    BY <2>5, <2>6
<1>7. Taken(k, "expire") <=>
        \/ ctx.state = "open" /\ DueElapsed(now)
        \/ /\ ctx.state \in {"disputed", "contested-closure"}
           /\ DisputeWindowElapsed(now)
  <2>0. PICK v \in BOOLEAN : v = FALSE
    OBVIOUS
  <2>1. PICK a : a = Assertable(k, "expired", v)
    OBVIOUS
  <2>2. /\ a.state = "expired" /\ a.asserted_at = now
        /\ Accepts(edge, Lineage, now, ctx, a) <=>
             /\ ~EdgeMalformed(edge)
             /\ ctx.state \notin TERMINAL_STATES
             /\ IF ctx.state = "contested-closure"
                THEN LegalFromContested(now, ctx, a)
                ELSE LegalByTable(edge, Lineage, now, ctx, a)
    BY <1>1, <1>2, <2>1, JudgedByState
  <2>3. NotInTheFuture(now, a)
    BY <1>1, <2>2 DEF NotInTheFuture
  <2>4. ctx.state = "contested-closure" =>
          (LegalFromContested(now, ctx, a) <=> DisputeWindowElapsed(now))
    BY <2>2, <2>3
    DEF LegalFromContested, DisputeWindowElapsed, DeadlockedSince, WindowElapsed
  <2>5. ctx.state = "disputed" =>
          (LegalByTable(edge, Lineage, now, ctx, a) <=> DisputeWindowElapsed(now))
    BY <2>2
    DEF LegalByTable, LegalExpired, DisputeWindowElapsed, DeadlockedSince, WindowElapsed
  <2>6. ctx.state = "open" =>
          (LegalByTable(edge, Lineage, now, ctx, a) <=> DueElapsed(now))
    BY <2>2, <2>3 DEF LegalByTable, LegalExpired, LegalUnilateralExit, DueElapsed
  <2>7. ctx.state \notin {"open", "disputed"} =>
          ~LegalByTable(edge, Lineage, now, ctx, a)
    BY <2>2 DEF LegalByTable, LegalExpired
  <2>8. Accepts(edge, Lineage, now, ctx, a) <=>
          \/ ctx.state = "open" /\ DueElapsed(now)
          \/ /\ ctx.state \in {"disputed", "contested-closure"}
             /\ DisputeWindowElapsed(now)
    BY <1>3, <2>2, <2>4, <2>5, <2>6, <2>7 DEF TERMINAL_STATES
  <2>9. Taken(k, "expire") <=> Accepts(edge, Lineage, now, ctx, a)
    BY <1>2, <2>0, <2>1 DEF Taken, ActTakes, Asserts, ACT_TOOL_BINDINGS
  <2>10. QED
    BY <2>8, <2>9
<1>8. ctx.state = "pending-acceptance" =>
        (AcceptanceWindowElapsed(now) <=>
           /\ ctx.window_opened_at # Null
           /\ now >= ctx.window_opened_at + edge.acceptance_window)
  <2> SUFFICES ASSUME ctx.state = "pending-acceptance"
               PROVE  AcceptanceWindowElapsed(now) <=>
                        /\ ctx.window_opened_at # Null
                        /\ now >= ctx.window_opened_at + edge.acceptance_window
    OBVIOUS
  <2>1. edge.closure_policy = "on-acceptance" /\ ~EdgeMalformed(edge)
    BY <1>3 DEF WindowInv
  <2>2. edge.acceptance_window # Null
    BY <2>1 DEF EdgeMalformed, AcceptanceWindowMalformed
  <2>3. DOMAIN chain = 1..Len(chain) /\ Len(chain) \in Nat
        /\ \A i \in 1..Len(chain) : chain[i] \in Assertion
    BY <1>1, ChainAssumption DEF TypeOK
  <2>4. PICK i \in 1..Len(chain) :
          /\ ClosedByOwner(i) /\ chain[i].asserted_at = ctx.window_opened_at
          /\ \A j \in 1..Len(chain) : ClosedByOwner(j) => j = i
    BY DEF WindowInv
  <2>5. ctx.window_opened_at \in Nat /\ ctx.window_opened_at # Null
    BY <2>3, <2>4 DEF Assertion, Time, Null
  <2>6. {j \in DOMAIN chain : chain[j].state = "closed" /\ chain[j].by = ownerKey} = {i}
    BY <2>3, <2>4 DEF ClosedByOwner
  <2>7. AcceptanceWindowElapsed(now) <=>
          now >= chain[i].asserted_at + edge.acceptance_window
    BY <2>1, <2>2, <2>3, <2>6 DEF AcceptanceWindowElapsed
  <2>8. QED
    BY <2>4, <2>5, <2>7
<1>9. ASSUME NEW v \in BOOLEAN, NEW a, a = Assertable(k, "closed", v), k = ownerKey
      PROVE  Accepts(edge, Lineage, now, ctx, a) <=>
               \/ ctx.state = "open" /\ v
               \/ ctx.state = "pending-acceptance" /\ AcceptanceWindowElapsed(now)
               \/ /\ ctx.state \in {"disputed", "contested-closure"}
                  /\ Accepts(edge, Lineage, now, ctx, a)
  <2>1. /\ a.state = "closed" /\ a.asserted_at = now /\ a.evidence = v
        /\ IsOwner(Lineage, a) /\ ~IsOwedTo(Lineage, a)
        /\ Accepts(edge, Lineage, now, ctx, a) <=>
             /\ ~EdgeMalformed(edge)
             /\ ctx.state \notin TERMINAL_STATES
             /\ IF ctx.state = "contested-closure"
                THEN LegalFromContested(now, ctx, a)
                ELSE LegalByTable(edge, Lineage, now, ctx, a)
    BY <1>1, <1>2, <1>9, JudgedByState
  <2>2. LegalByTable(edge, Lineage, now, ctx, a) <=> LegalClosed(edge, Lineage, ctx, a)
    BY <2>1 DEF LegalByTable
  <2>3. ctx.state = "open" => (LegalClosed(edge, Lineage, ctx, a) <=> v)
    BY <2>1 DEF LegalClosed
  <2>4. ctx.state = "pending-acceptance" =>
          (LegalClosed(edge, Lineage, ctx, a) <=> AcceptanceWindowElapsed(now))
    BY <1>8, <2>1 DEF LegalClosed, WindowElapsed
  <2>5. ctx.state \notin {"open", "pending-acceptance", "disputed"} =>
          ~LegalClosed(edge, Lineage, ctx, a)
    BY DEF LegalClosed
  <2>6. QED
    BY <1>3, <2>1, <2>2, <2>3, <2>4, <2>5 DEF TERMINAL_STATES
<1>10. Taken(k, "done") <=>
         /\ k = ownerKey
         /\ \/ ctx.state = "open"
            \/ ctx.state = "pending-acceptance" /\ AcceptanceWindowElapsed(now)
  <2>1. Taken(k, "done") <=>
          /\ k = ownerKey
          /\ ctx.state \notin {"disputed", "contested-closure"}
          /\ \E v \in BOOLEAN :
               Accepts(edge, Lineage, now, ctx, Assertable(k, "closed", v))
    BY <1>2 DEF Taken, ActTakes, Asserts, ACT_TOOL_BINDINGS
  <2>2. ASSUME k = ownerKey, ctx.state \notin {"disputed", "contested-closure"},
               NEW v \in BOOLEAN
        PROVE  Accepts(edge, Lineage, now, ctx, Assertable(k, "closed", v)) <=>
                 \/ ctx.state = "open" /\ v
                 \/ ctx.state = "pending-acceptance" /\ AcceptanceWindowElapsed(now)
    <3>1. PICK a : a = Assertable(k, "closed", v)
      OBVIOUS
    <3>2. QED
      BY <1>9, <2>2, <3>1
  <2>3. QED
    BY <2>1, <2>2
<1>11. QED
  BY <1>4, <1>5, <1>6, <1>7, <1>10

(* What a party is offered at an instant.                                  *)
LEMMA OfferedThen ==
  ASSUME NEW k \in Party, NEW t
  PROVE  /\ Actions(k, t) \in Seq(ItemAct)
         /\ \A act \in Offered(k, t) : act \in ItemAct
         /\ "done" \in Offered(k, t) <=>
              /\ k = ownerKey
              /\ \/ ctx.state = "open"
                 \/ ctx.state = "pending-acceptance" /\ AcceptanceWindowElapsed(t)
         /\ "release" \in Offered(k, t) <=> k = owedToKey /\ ctx.state = "open"
         /\ "expire" \in Offered(k, t) <=>
              \/ ctx.state = "open" /\ DueElapsed(t)
              \/ /\ ctx.state \in {"disputed", "contested-closure"}
                 /\ DisputeWindowElapsed(t)
         /\ "confirm" \in Offered(k, t) <=> k = owedToKey /\ ctx.state = "proposed"
         /\ "dismiss" \in Offered(k, t) <=> k = owedToKey /\ ctx.state = "proposed"
<1>1. PICK w \in BOOLEAN : w <=> AcceptanceWindowElapsed(t)
  OBVIOUS
<1>2. w = AcceptanceWindowElapsed(t)
  BY <1>1 DEF AcceptanceWindowElapsed
<1>3. PICK dw \in BOOLEAN : dw = DisputeWindowElapsed(t)
  BY DEF DisputeWindowElapsed
<1>4. PICK d \in BOOLEAN : d = DueElapsed(t)
  BY DEF DueElapsed
<1>5. PICK r \in {"owner", "owed_to"} :
        r = RoleOf(k) /\ (r = "owner" <=> k = ownerKey) /\ (r = "owed_to" <=> k = owedToKey)
  BY PartyAssumption DEF RoleOf, Party
<1>6. PICK s, acts : s = ctx.state /\ acts = ActionsFor(s, r, w, dw, d)
  OBVIOUS
<1>7. acts = Actions(k, t)
  BY <1>2, <1>3, <1>4, <1>5, <1>6 DEF Actions
<1>8. Offered(k, t) = {acts[i] : i \in DOMAIN acts}
  BY <1>7 DEF Offered
<1>9. \A act : act \in Offered(k, t) <=> Lists(acts, act)
  BY <1>8 DEF Lists
<1>10. Listed(acts, s, r, w, dw, d)
  BY <1>6, ActsOffered, Zenon
<1>11. \A act \in Offered(k, t) : act \in ItemAct
  BY <1>8, <1>10 DEF Listed
<1>12. QED
  BY <1>2, <1>3, <1>4, <1>5, <1>6, <1>7, <1>9, <1>10, <1>11 DEF Listed

(* The offers and the table are written apart and agree: a signing act is  *)
(* on offer to a party exactly when it would be taken if it were pressed   *)
(* now (actions.ts, node.ts act and confirm).  The view computes the end   *)
(* of the acceptance window from the chain and the table from the context; *)
(* WindowInv says that they read the same date.                            *)
THEOREM OffersAreHonest ==
  ASSUME PartiesNamed
  PROVE  Spec => []OffersMatchTable
<1>1. WindowInv => OffersMatchTable
  <2> SUFFICES ASSUME WindowInv, NEW k \in InStep
               PROVE  /\ \A act \in Signing(Offered(k, now)) : Taken(k, act)
                      /\ \A act \in {"done", "release", "expire", "confirm"} :
                           Taken(k, act) => act \in Offered(k, now)
    BY DEF OffersMatchTable
  <2>1. k \in Party
    BY DEF InStep
  <2>2. ASSUME NEW act \in Signing(Offered(k, now))
        PROVE  act \in {"done", "release", "expire", "confirm", "dismiss"}
               /\ act \in Offered(k, now)
    <3>1. act \in Offered(k, now) /\ ACT_TOOL_BINDINGS[act] # "none"
      BY DEF Signing
    <3>2. act \in ItemAct
      BY <2>1, <3>1, OfferedThen
    <3>3. act \notin {"supersede", "delegate", "ping", "propose"}
      BY <3>1, <3>2 DEF ACT_TOOL_BINDINGS, ItemAct
    <3>4. QED
      BY <3>1, <3>2, <3>3 DEF ItemAct
  <2>3. /\ "done" \in Offered(k, now) <=> Taken(k, "done")
        /\ "release" \in Offered(k, now) <=> Taken(k, "release")
        /\ "expire" \in Offered(k, now) <=> Taken(k, "expire")
        /\ "confirm" \in Offered(k, now) <=> Taken(k, "confirm")
        /\ Taken(k, "dismiss")
    BY <2>1, OfferedThen, ActsTaken
  <2>4. QED
    BY <2>2, <2>3
<1>2. QED
  BY <1>1, WindowInvHolds, PTL

(* Whatever still waits for a party, for the node to escalate or for a     *)
(* deadlock to end is among what a party owes or waits for exactly when    *)
(* that party has not dismissed it, and an overdue open edge shows both of *)
(* them the way out (open_loops, escalation.ts).                           *)
THEOREM NothingIsFiledAway == Spec => []NothingFiledAway
<1>1. TypeOK => NothingFiledAway
  <2> SUFFICES ASSUME TypeOK, NEW k \in Party, NEW dismissed \in BOOLEAN
               PROVE  /\ \/ Signing(Offered(k, now)) # {}
                         \/ MayAutoEscalate(now) \/ DeadlockedSince(ctx) # Null
                         => /\ InView("owe", k, dismissed) \/ InView("waiting", k, dismissed)
                                 <=> ~dismissed
                            /\ ~InView("closed", k, dismissed)
                      /\ MayAutoEscalate(now) /\ ctx.state = "open" =>
                           /\ "expire" \in Offered(k, now)
                           /\ PrimaryActionOf(Actions(k, now)) # {}
    BY DEF NothingFiledAway
  <2>1. Signing(Offered(k, now)) # {} => Live(ctx.state)
    <3> SUFFICES ASSUME NEW act \in Signing(Offered(k, now)) PROVE Live(ctx.state)
      OBVIOUS
    <3>1. act \in Offered(k, now) /\ ACT_TOOL_BINDINGS[act] # "none"
      BY DEF Signing
    <3>2. act \in ItemAct
      BY <3>1, OfferedThen
    <3>3. act \in {"done", "release", "expire", "confirm", "dismiss"}
      BY <3>1, <3>2 DEF ACT_TOOL_BINDINGS, ItemAct
    <3>4. QED
      BY <3>1, <3>3, OfferedThen DEF Live
  <2>2. MayAutoEscalate(now) => Live(ctx.state)
    BY DEF MayAutoEscalate, Live
  <2>3. DeadlockedSince(ctx) # Null => Live(ctx.state)
    BY DEF DeadlockedSince, Live
  <2>4. Live(ctx.state) =>
          /\ InView("owe", k, dismissed) \/ InView("waiting", k, dismissed) <=> ~dismissed
          /\ ~InView("closed", k, dismissed)
    BY DEF InView
  <2>5. ASSUME MayAutoEscalate(now), ctx.state = "open"
        PROVE  "expire" \in Offered(k, now) /\ PrimaryActionOf(Actions(k, now)) # {}
    <3>1. DueElapsed(now)
      <4>1. now \in Nat /\ edge.due \in Nat
        BY <2>5, ChainAssumption
        DEF TypeOK, EdgeBody, TimeOrNull, Time, MayAutoEscalate
      <4>2. QED
        BY <2>5, <4>1 DEF MayAutoEscalate, DueElapsed
    <3>2. "expire" \in Offered(k, now)
      BY <2>5, <3>1, OfferedThen
    <3>3. PrimaryActionOf(Actions(k, now)) # {}
      <4>1. PICK acts : acts = Actions(k, now)
        OBVIOUS
      <4>2. PICK i \in DOMAIN acts : acts[i] = "expire"
        BY <3>2, <4>1 DEF Offered
      <4>3. acts \in Seq(ItemAct)
        BY <4>1, OfferedThen
      <4>4. DOMAIN acts = 1..Len(acts) /\ Len(acts) \in Nat
        BY <4>3
      <4> DEFINE Signs == {j \in DOMAIN acts : ACT_TOOL_BINDINGS[acts[j]] # "none"}
      <4>5. i \in Signs
        BY <4>2 DEF ACT_TOOL_BINDINGS
      <4>6. Signs \subseteq Nat
        BY <4>4
      <4>7. PICK n \in Signs : \A m \in Signs : n <= m
        <5> HIDE DEF Signs
        <5>1. QED
          BY <4>5, <4>6, LeastNatural
      <4>8. \A m \in 1..(n - 1) : ACT_TOOL_BINDINGS[acts[m]] = "none"
        BY <4>4, <4>7
      <4>9. acts[n] \in PrimaryActionOf(acts)
        BY <4>7, <4>8 DEF PrimaryActionOf
      <4>10. QED
        BY <4>1, <4>9
    <3>4. QED
      BY <3>2, <3>3
  <2>6. QED
    BY <2>1, <2>2, <2>3, <2>4, <2>5
<1>2. QED
  BY <1>1, TypeCorrect, PTL
=============================================================================
