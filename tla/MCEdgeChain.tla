---------------------------- MODULE MCEdgeChain ----------------------------
(***************************************************************************)
(* EdgeChain and Offers for TLC: three keys, the owner's, the creditor's   *)
(* and a stranger's; every assertion about the edge dated in WireAt,       *)
(* forged ones included.                                                   *)
(***************************************************************************)
EXTENDS Offers

CONSTANTS
  o, p, x,      \* the owner's key, the creditor's, a stranger's
  Signers,      \* whose genuine assertions arrive
  WireAt,       \* the instants assertions are dated at
  ExpireAt,     \* the instants expired is dated at
  FirstAt       \* the instants the proposal and the confirmation are dated at

MCKey == {o, p, x}

MCLineage == [owner   |-> {[key |-> o, supersededAt |-> Null]},
              owed_to |-> {[key |-> p, supersededAt |-> Null]}]

Body(due, policy, window) ==
  [edge_id |-> "e", binds |-> TRUE, due |-> due,
   closure_policy |-> policy, acceptance_window |-> window]

(* A dated edge of either policy, an undated one, and a malformed one.     *)
MCEdge == {Body(1, "on-evidence", Null), Body(1, "on-acceptance", 1),
           Body(Null, "on-acceptance", 2), Body(1, "on-evidence", 1)}

Said(id, s, at, by, signer, evidence) ==
  [edge_id |-> id, state |-> s, asserted_at |-> at, by |-> by,
   signer |-> signer, evidence |-> evidence]

Opening == {"proposed", "confirmed"}
WithEvidence == {"closed", "disputed"}
Later == WireAssertionState \ (Opening \cup WithEvidence \cup {"expired"})

(* Evidence is varied only where the table reads it.                       *)
Genuine ==
  {Said("e", s, at, k, k, FALSE) : s \in Opening, at \in FirstAt, k \in Signers}
    \cup {Said("e", s, at, k, k, FALSE) : s \in Later, at \in WireAt, k \in Signers}
    \cup {Said("e", "expired", at, k, k, FALSE) : at \in ExpireAt, k \in Signers}
    \cup {Said("e", s, at, k, k, ev) :
            s \in WithEvidence, at \in WireAt, k \in Signers, ev \in BOOLEAN}

(* The owner signing in the creditor's name, and the reverse.              *)
Forged ==
  {Said("e", s, 1, p, o, TRUE) : s \in WireAssertionState}
    \cup {Said("e", s, 1, o, p, TRUE) : s \in WireAssertionState}

(* A stranger, and a party speaking of another edge.                       *)
Stray ==
  {Said("e", s, 1, x, x, TRUE) : s \in WireAssertionState}
    \cup {Said("other", s, 1, p, p, TRUE) : s \in WireAssertionState}

MCWire == Genuine \cup Forged \cup Stray
=============================================================================
