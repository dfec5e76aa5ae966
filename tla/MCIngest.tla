------------------------------ MODULE MCIngest ------------------------------
(***************************************************************************)
(* Two envelopes; the first states a promise to a known contact and        *)
(* mentions what another person owes, so the two findings have two ids.    *)
(***************************************************************************)
EXTENDS Ingest

CONSTANTS e1, e2, p1, p2

RawExtraction(what, owner, to) == [intent |-> what, owner |-> owner, owed_to |-> to]

MCSays ==
    e1 :> {RawExtraction("offer", "local_user", "georgi"), RawExtraction("invoice", "georgi", "local_user")}
    @@ e2 :> {}

MCKnown == "georgi" :> "georgikey"

Symmetry == Permutations({p1, p2})
=============================================================================
