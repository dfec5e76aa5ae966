------------------------------- MODULE Offers -------------------------------
(***************************************************************************)
(* What a node tells a party it may do with an edge (packages/node/src:    *)
(* actions.ts, escalation.ts and the parts of node.ts that fill open_loops *)
(* and brief), beside what act and confirm would take from that party at   *)
(* the same instant.  The two are written apart in the code: the offers    *)
(* from a state name and three clocks, the acts from the table.            *)
(*                                                                         *)
(* The parties are seen under the keys the edge names; a party whose own   *)
(* key was rotated is not a case of this module.  Collective edges, and    *)
(* with them "unverifiable", are left out.                                 *)
(***************************************************************************)
EXTENDS EdgeChain

CONSTANTS ownerKey, owedToKey     \* edge.owner and edge.owed_to

ASSUME PartyAssumption == ownerKey \in Key /\ owedToKey \in Key /\ ownerKey # owedToKey

Party == {ownerKey, owedToKey}
RoleOf(persona) == IF persona = ownerKey THEN "owner" ELSE "owed_to"

(* Which tool signs an act.                                                *)
ACT_TOOL_BINDINGS ==
  [act \in {"done", "release", "expire", "confirm", "dismiss",
            "supersede", "delegate", "ping", "propose"} |->
     CASE act \in {"done", "release", "expire"} -> "act"
       [] act \in {"confirm", "dismiss"} -> "confirm"
       [] OTHER -> "none"]

(* The acts on offer, most consequential first.  (A definition whose name  *)
(* extends the next one's is a slip the properties are tried against.)     *)
ActionsForUndated(state, role, windowElapsed, disputeWindowElapsed, dueElapsed) ==
  CASE state = "proposed" ->
         IF role = "owner" THEN <<"ping">> ELSE <<"confirm", "dismiss">>
    [] state = "open" ->
         IF role = "owner" THEN <<"done", "supersede", "delegate">>
         ELSE <<"release", "ping", "supersede">>
    [] state = "pending-acceptance" /\ role = "owed_to" -> <<"supersede">>
    [] state = "pending-acceptance" /\ role = "owner" ->
         (IF windowElapsed THEN <<"done">> ELSE <<>>) \o <<"supersede", "delegate">>
    [] state \in {"disputed", "contested-closure"} ->
         (IF disputeWindowElapsed THEN <<"expire">> ELSE <<>>) \o <<"supersede">>
    [] OTHER -> <<>>

ActionsFor(state, role, windowElapsed, disputeWindowElapsed, dueElapsed) ==
  LET expire == IF dueElapsed THEN <<"expire">> ELSE <<>> IN
  CASE state = "proposed" ->
         IF role = "owner" THEN <<"ping">> ELSE <<"confirm", "dismiss">>
    [] state = "open" ->
         IF role = "owner" THEN <<"done">> \o expire \o <<"supersede", "delegate">>
         ELSE <<"release">> \o expire \o <<"ping", "supersede">>
    [] state = "pending-acceptance" /\ role = "owed_to" -> <<"supersede">>
    [] state = "pending-acceptance" /\ role = "owner" ->
         (IF windowElapsed THEN <<"done">> ELSE <<>>) \o <<"supersede", "delegate">>
    [] state \in {"disputed", "contested-closure"} ->
         (IF disputeWindowElapsed THEN <<"expire">> ELSE <<>>) \o <<"supersede">>
    [] OTHER -> <<>>

(* The three clocks.  The first is read off the chain a second time, from  *)
(* the first closed the owner signed.                                      *)
AcceptanceWindowElapsed(t) ==
  /\ edge.closure_policy = "on-acceptance" /\ edge.acceptance_window # Null
  /\ LET closings == {i \in DOMAIN chain :
                        chain[i].state = "closed" /\ chain[i].by = ownerKey}
     IN \E i \in closings :
          /\ \A j \in closings : i <= j
          /\ t >= chain[i].asserted_at + edge.acceptance_window

DisputeWindowElapsed(t) ==
  DeadlockedSince(ctx) # Null /\ t >= DeadlockedSince(ctx) + DISPUTE_WINDOW

DueElapsed(t) == edge.due # Null /\ t >= edge.due

Actions(persona, t) ==
  ActionsFor(ctx.state, RoleOf(persona), AcceptanceWindowElapsed(t),
             DisputeWindowElapsed(t), DueElapsed(t))

Offered(persona, t) == {Actions(persona, t)[i] : i \in DOMAIN Actions(persona, t)}
Signing(acts) == {act \in acts : ACT_TOOL_BINDINGS[act] # "none"}

(* The one act a brief shows, if there is one: the first that signs.       *)
PrimaryActionOf(acts) ==
  {acts[i] : i \in {j \in DOMAIN acts :
     /\ ACT_TOOL_BINDINGS[acts[j]] # "none"
     /\ \A k \in 1..(j - 1) : ACT_TOOL_BINDINGS[acts[k]] = "none"}}

-----------------------------------------------------------------------------
(* What the two signing tools would sign, dated now.                       *)
Assertable(persona, state, evidence) ==
  [edge_id |-> edge.edge_id, state |-> state, asserted_at |-> now,
   by |-> persona, signer |-> persona, evidence |-> evidence]

Asserts(act) == CASE act = "done" -> "closed" [] act = "expire" -> "expired"
                  [] act = "release" -> "released"

(* act: the binding, the role, the evidence, the two deadlocks, the table. *)
ActTakes(persona, act, evidence) ==
  /\ persona \in Party
  /\ ACT_TOOL_BINDINGS[act] = "act"
  /\ act = "done" => persona = ownerKey
  /\ act = "release" => persona = owedToKey
  /\ act \in {"expire", "release"} => ~evidence
  /\ ~(act = "done" /\ ctx.state \in {"disputed", "contested-closure"})
  /\ Accepts(edge, Lineage, now, ctx, Assertable(persona, Asserts(act), evidence))

(* confirm(dismiss) signs nothing and is always taken.                     *)
ConfirmTakes(persona, act) ==
  \/ act = "dismiss"
  \/ /\ act = "confirm" /\ persona = owedToKey
     /\ Accepts(edge, Lineage, now, ctx, Assertable(persona, "confirmed", FALSE))

Taken(persona, act) ==
  IF ACT_TOOL_BINDINGS[act] = "act"
  THEN \E evidence \in BOOLEAN : ActTakes(persona, act, evidence)
  ELSE ConfirmTakes(persona, act)

(* Which of the views of open_loops an edge is in.  One that the party     *)
(* dismissed is in none; the flag is the party's own, and confirm(dismiss) *)
(* sets it on an edge in any state.                                        *)
LiveUncontested(state) ==
  state \in {"open", "pending-acceptance", "proposed", "disputed"}
Live(state) ==
  state \in {"open", "pending-acceptance", "proposed", "disputed",
             "contested-closure"}

InView(view, persona, dismissed) ==
  /\ ~dismissed
  /\ CASE view = "owe"     -> persona = ownerKey /\ Live(ctx.state)
       [] view = "waiting" -> persona # ownerKey /\ Live(ctx.state)
       [] view = "closed"  -> ~Live(ctx.state)
       [] view = "pending" -> ctx.state = "proposed" /\ persona # ownerKey
       [] view = "all"     -> TRUE

(* What the node may raise on its own initiative.                          *)
MayAutoEscalate(t) ==
  /\ edge.due # Null /\ t > edge.due
  /\ ctx.state \in {"open", "pending-acceptance"}

-----------------------------------------------------------------------------
(* The parties whose clock is past everything they have to act on: their   *)
(* own last assertion, and the exit the other took.                        *)
InStep ==
  {k \in Party : /\ ctx.latest_by_signer[k] <= now
                 /\ \A x \in ctx.exit : x.by = k \/ x.at < now}

(* A control that is shown works, and one that would work is shown (M-20;  *)
(* actions.ts): a signing act is on offer exactly when it would be taken   *)
(* if it were pressed now.                                                 *)
OffersMatchTable ==
  \A persona \in InStep :
    /\ \A act \in Signing(Offered(persona, now)) : Taken(persona, act)
    /\ \A act \in {"done", "release", "expire", "confirm"} :
         Taken(persona, act) => act \in Offered(persona, now)

(* Nothing that still needs somebody is filed under things that do not:    *)
(* an edge with an act to sign, one the node itself may escalate and one   *)
(* in deadlock are all among what the party owes or waits for, unless that *)
(* party itself dismissed it; an edge the node escalates while it is open  *)
(* offers both of them the way out.                                        *)
NothingFiledAway ==
  \A persona \in Party, dismissed \in BOOLEAN :
    /\ \/ Signing(Offered(persona, now)) # {}
       \/ MayAutoEscalate(now) \/ DeadlockedSince(ctx) # Null
       => /\ InView("owe", persona, dismissed) \/ InView("waiting", persona, dismissed)
               <=> ~dismissed
          /\ ~InView("closed", persona, dismissed)
    /\ MayAutoEscalate(now) /\ ctx.state = "open" =>
         /\ "expire" \in Offered(persona, now)
         /\ PrimaryActionOf(Actions(persona, now)) # {}
=============================================================================
