---------------------------- MODULE MCAdmission -----------------------------
(***************************************************************************)
(* Admission for TLC: one stranger with two proposals, an honest hub with  *)
(* room for both and a faithless one after it.                             *)
(***************************************************************************)
EXTENDS Admission, TLC

CONSTANTS bob, honest, faithless

MCProposer == [e \in Proposal |-> bob]
MCHubOrder == <<honest, faithless>>
MCMaxQueue == [h \in Hub |-> IF h = honest THEN 2 ELSE 1]

(* The readers are processes of one program.                               *)
Symmetry == Permutations(Reader)
=============================================================================
