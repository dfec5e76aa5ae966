----------------------------- MODULE MCRecovery -----------------------------
(***************************************************************************)
(* Recovery for TLC: a promise of the persona's, held open or disputed,    *)
(* one owed to it, and two that were never made: one in the persona's name *)
(* and one whose id does not digest its body.                              *)
(***************************************************************************)
EXTENDS Recovery

CONSTANTS old, new

MCKey == {old, new, peer, stranger}

Body(id, owner, owed_to, binds) ==
  [edge_id |-> id, owner |-> owner, owed_to |-> owed_to, binds |-> binds, due |-> Null,
   closure_policy |-> "on-evidence", acceptance_window |-> Null]

Owes == Body("owes", old, peer, TRUE)
Owed == Body("owed", peer, old, TRUE)
MadeUp == Body("madeUp", old, peer, TRUE)
Unbound == Body("owes", peer, old, FALSE)

MCEdges == {Owes, Owed, MadeUp, Unbound}

Says(e, s, t, by, signer) ==
  [edge_id |-> e.edge_id, state |-> s, asserted_at |-> t, by |-> by, signer |-> signer,
   evidence |-> TRUE]

(* Proposed and confirmed within one tick of the clock, or not.            *)
Opened(e, t) == <<Says(e, "proposed", 0, e.owner, e.owner),
                  Says(e, "confirmed", t, e.owed_to, e.owed_to)>>

(* Disputed; given up after the dispute window.                            *)
Disputed(e, t) == Append(Opened(e, t), Says(e, "disputed", 2, old, old))
GivenUp(e, t) == Append(Disputed(e, t), Says(e, "expired", 4, peer, peer))

MCHeldChains ==
  {[e \in MCEdges |-> CASE e = Owes -> h[1] [] e = Owed -> h[2] [] OTHER -> <<>>] :
     h \in {<<Opened(Owes, 1), <<>>>>, <<GivenUp(Owes, 0), <<>>>>,
           <<Disputed(Owes, 1), Opened(Owed, 0)>>}}

MCPeerMade ==
  {Says(Owes, "released", 2, peer, peer), Says(MadeUp, "proposed", 0, old, peer),
   Says(MadeUp, "proposed", 0, peer, peer), Says(Owed, "proposed", 0, peer, peer)}
=============================================================================
