--------------------------- MODULE MCGitTransport ---------------------------
(***************************************************************************)
(* GitTransport for TLC: two parties.  a sends a proposal and an assertion *)
(* (or two assertions) about an edge, b an assertion about the same edge   *)
(* and, where torn syncs are looked at, one about another edge.            *)
(***************************************************************************)
EXTENDS GitTransport

CONSTANTS a, b, i1, i2, i3, i4

MCParty == {a, b}
MCSender == [i \in Item |-> IF i \in {i1, i2} THEN a ELSE b]
MCDirOf == [i \in Item |-> IF i = i4 THEN "other edge" ELSE "edge"]

ProposeFirst == [i \in Item |-> IF i = i1 THEN "propose" ELSE "assert"]
TwiceForA == [s \in MCParty |-> IF s = a THEN {0, 1} ELSE {0}]
Once == [s \in MCParty |-> {0}]
AllAssert == [i \in Item |-> "assert"]
=============================================================================
