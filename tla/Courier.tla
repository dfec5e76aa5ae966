------------------------------ MODULE Courier -------------------------------
(***************************************************************************)
(* What a node may count on from any transport (federation/src/            *)
(* transport.ts): a courier may lose, delay, repeat and reorder, but what  *)
(* it hands to a party was sent, as it was sent, and to that party.        *)
(***************************************************************************)
CONSTANTS Party, Item, To(_)

VARIABLES
  sent,        \* items some sender gave to a courier
  handed       \* who was last given what

Init == sent = {} /\ handed \in [to : Party, mail : {{}}]

Send(i) == sent' = sent \cup {i} /\ UNCHANGED handed

Hand(p, items) ==
  /\ items \subseteq {i \in sent : To(i) = p}
  /\ handed' = [to |-> p, mail |-> items]
  /\ UNCHANGED sent

Next ==
  \/ \E i \in Item : Send(i)
  \/ \E p \in Party, items \in SUBSET sent : Hand(p, items)

Spec == Init /\ [][Next]_<<sent, handed>>
=============================================================================
