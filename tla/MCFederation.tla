---------------------------- MODULE MCFederation ----------------------------
(***************************************************************************)
(* Federation for TLC.                                                     *)
(***************************************************************************)
EXTENDS Federation

MCKey == {owner, creditor}

ThreeActs == {<<owner, "done">>, <<owner, "expire">>,
              <<creditor, "release">>}
OwnerActs == {<<owner, "done">>}
=============================================================================
