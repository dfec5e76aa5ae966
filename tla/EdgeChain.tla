------------------------------ MODULE EdgeChain ------------------------------
(***************************************************************************)
(* One edge as one node holds it: the stored chain of accepted assertions, *)
(* fed by whatever arrives.  The assertions that may arrive are a          *)
(* parameter (Wire): they may be forged, backdated, post-dated, repeated   *)
(* or signed by a stranger, because nothing outside the table constrains   *)
(* them.  A caller appends an assertion only when the table accepts it     *)
(* after the chain already held (node.ts act and confirm, inbox.ts), and   *)
(* off the wire never one it already holds; a refused assertion leaves no  *)
(* trace.                                                                  *)
(*                                                                         *)
(* ctx is the verifier's context after the stored chain.  The node         *)
(* recomputes it from the chain on every read; ReplayStable states that    *)
(* the recomputation gives the value carried here.                         *)
(***************************************************************************)
EXTENDS EdgeTable

CONSTANTS
  Edge,       \* the edge bodies the chain may be about
  Lineage,    \* the keys each party has held
  Wire,       \* the assertions that may arrive
  MaxNow,     \* bound on the node's clock
  MaxChain    \* bound on the length of the chain

ASSUME ChainAssumption ==
  /\ Edge \subseteq EdgeBody
  /\ Lineage \in KeyLineage
  /\ Wire \subseteq Assertion
  /\ MaxNow \in Nat /\ MaxChain \in Nat

VARIABLES
  edge,    \* the edge body, fixed
  chain,   \* the accepted assertions, in the order they were stored
  ctx,     \* the context after chain
  now      \* the node's clock

vars == <<edge, chain, ctx, now>>

Init ==
  /\ edge \in Edge
  /\ chain = <<>>
  /\ ctx = InitChainState
  /\ now = 0

(* The bound leaves room for the assertion that ends a deadlock, so that   *)
(* it is never the bound that keeps an edge frozen.                        *)
RoomFor(a) ==
  \/ Len(chain) < MaxChain
  \/ a.state = "expired" /\ DeadlockedSince(ctx) # Null

Held(a) == \E i \in 1..Len(chain) : chain[i] = a

(* The table decides, and only an accepted assertion is stored.            *)
Store(a) ==
  /\ RoomFor(a)
  /\ Accepts(edge, Lineage, now, ctx, a)
  /\ chain' = Append(chain, a)
  /\ ctx' = Effect(edge, ctx, a)
  /\ UNCHANGED <<edge, now>>

(* An assertion off the wire is taken at most once.                        *)
Take(a) == ~Held(a) /\ Store(a)

Propose   == \E a \in Wire : a.state = "proposed" /\ Take(a)
Confirm   == \E a \in Wire : a.state = "confirmed" /\ Take(a)
Close     == \E a \in Wire : a.state = "closed" /\ Take(a)
Release   == \E a \in Wire : a.state = "released" /\ Take(a)
Expire    == \E a \in Wire : a.state = "expired" /\ Take(a)
Dispute   == \E a \in Wire : a.state = "disputed" /\ Take(a)
Supersede == \E a \in Wire : a.state = "superseded" /\ Take(a)

(* act('expire') on the owner's own node, which dates what it signs now.   *)
OwnerExpires ==
  \E a \in Wire :
    /\ a.state = "expired" /\ ~a.evidence
    /\ a.asserted_at = now
    /\ IsOwner(Lineage, a)
    /\ Store(a)

Tick ==
  /\ now < MaxNow
  /\ now' = now + 1
  /\ UNCHANGED <<edge, chain, ctx>>

Next ==
  \/ Propose \/ Confirm \/ Close \/ Release
  \/ Expire \/ Dispute \/ Supersede
  \/ OwnerExpires \/ Tick

Spec == Init /\ [][Next]_vars

(* Time passes, and an owner who is offered expiry takes it.               *)
FairSpec == Spec /\ WF_vars(Tick) /\ WF_vars(OwnerExpires)

-----------------------------------------------------------------------------
(* Who really signed an assertion of the chain.                            *)
SignedByOwner(a) == HeldBy(Lineage.owner, a.signer, a.asserted_at)
SignedByOwedTo(a) == HeldBy(Lineage.owed_to, a.signer, a.asserted_at)

TypeOK ==
  /\ edge \in Edge
  /\ chain \in Seq(Wire)
  /\ ctx \in ChainState
  /\ now \in 0..MaxNow

(* Confirm-first (M-1, M-2): an edge past proposed carries the owner's own *)
(* proposal and, after it, the counterparty's own confirmation, whatever   *)
(* was forged or reordered on the way (transitions.ts step).               *)
ConfirmFirst ==
  ctx.state \notin {"none", "proposed"} =>
    \E i, j \in 1..Len(chain) :
      /\ i < j
      /\ chain[i].state = "proposed" /\ SignedByOwner(chain[i])
      /\ chain[j].state = "confirmed" /\ SignedByOwedTo(chain[j])

(* A closed edge was closed by right: on the owner's evidence where the    *)
(* policy says so, with the creditor's own signature on closed, or by the  *)
(* owner alone once the acceptance window had run between two of the       *)
(* owner's assertions, the first one carrying evidence.                    *)
ClosureEarned ==
  ctx.state = "closed" =>
    \E i \in 1..Len(chain) :
      /\ chain[i].state = "closed"
      /\ \/ SignedByOwedTo(chain[i])
         \/ /\ SignedByOwner(chain[i]) /\ chain[i].evidence
            /\ \/ edge.closure_policy = "on-evidence"
               \/ \E j \in (i + 1)..Len(chain) :
                    /\ chain[j].state = "closed" /\ SignedByOwner(chain[j])
                    /\ chain[j].asserted_at >=
                         chain[i].asserted_at + edge.acceptance_window

(* Superseding takes both parties of the edge ("one party signing twice is *)
(* not two parties", transitions.ts).                                      *)
SupersededByBoth ==
  ctx.state = "superseded" =>
    \E i, j \in 1..Len(chain) :
      /\ chain[i].state = "superseded" /\ SignedByOwner(chain[i])
      /\ chain[j].state = "superseded" /\ SignedByOwedTo(chain[j])

(* a is an exit its signer could lawfully have taken from open.            *)
RightfulExit(a) ==
  \/ a.state = "closed" /\ SignedByOwner(a) /\ a.evidence
  \/ a.state = "released" /\ SignedByOwedTo(a)
  \/ /\ a.state = "expired"
     /\ SignedByOwner(a) \/ SignedByOwedTo(a)
     /\ edge.due # Null /\ a.asserted_at >= edge.due

(* contested-closure names a real conflict: two different rightful exits   *)
(* by two signers, the later arrival dated no later than the first.        *)
ContestIsConcurrent ==
  ctx.state = "contested-closure" =>
    \E i, j \in 1..Len(chain) :
      /\ i < j
      /\ chain[i].signer # chain[j].signer
      /\ chain[i].state # chain[j].state
      /\ RightfulExit(chain[i]) /\ RightfulExit(chain[j])
      /\ chain[j].asserted_at <= chain[i].asserted_at

(* No edge expires early: its due date had passed, or a deadlock had       *)
(* stood for the whole dispute window.                                     *)
ExpiryEarned ==
  ctx.state = "expired" =>
    \E i \in 1..Len(chain) :
      /\ chain[i].state = "expired"
      /\ \/ edge.due # Null /\ chain[i].asserted_at >= edge.due
         \/ \E j \in 1..(i - 1) :
              /\ chain[j].state \in UNILATERAL_EXITS \cup {"disputed"}
              /\ chain[i].asserted_at >=
                   chain[j].asserted_at + DISPUTE_WINDOW

(* What was accepted stays accepted: replaying the stored chain, with the  *)
(* clock as it now stands or with none (how edgeState reads), gives back   *)
(* the context the chain was built with.                                   *)
ReplayStable ==
  \A t \in {now, Null} :
    VerifyAssertionChain(edge, Lineage, t, chain) = ctx

(* A terminal state is left only for contested-closure, and only for an    *)
(* exit the resolved chain did not know of when it resolved.               *)
ReopenedOnlyByContest ==
  [][ctx.state \in TERMINAL_STATES =>
       \/ ctx'.state = ctx.state
       \/ /\ ctx'.state = "contested-closure"
          /\ \E x \in ctx.exit : ctx'.contested_at <= x.at]_ctx

(* Neither party can freeze an edge by going silent: a deadlock ends as    *)
(* long as the other side keeps a running clock and expires it when the    *)
(* table lets it.                                                          *)
DeadlockEnds == DeadlockedSince(ctx) # Null ~> DeadlockedSince(ctx) = Null
=============================================================================
