------------------------------ MODULE MCLadder ------------------------------
(***************************************************************************)
(* Ladder for TLC.                                                         *)
(***************************************************************************)
EXTENDS Ladder, TLC

CONSTANTS key, o1, o2

(* One that ends while another, begun later, goes on.                      *)
MCAttestation ==
  {[org |-> o1, subject |-> key, sig |-> o1, issued_at |-> 0, expires_at |-> 1],
   [org |-> o1, subject |-> key, sig |-> o1, issued_at |-> 1, expires_at |-> 3]}

(* Two by the org, the second a repetition of the first.                   *)
MCRevocation ==
  {[org |-> o1, subject |-> key, sig |-> o1, revoked_at |-> 1],
   [org |-> o1, subject |-> key, sig |-> o1, revoked_at |-> 2]}

(* The right root in one source, to be kept for longer than the ceiling,   *)
(* and another root in the other source; a resolution that begins before   *)
(* the move and ends after it sees the two disagree.                       *)
MCPublication ==
  {[wellKnown |-> o1, wellKnownTtl |-> 9, txt |-> {}, txtTtl |-> 9],
   [wellKnown |-> "malformed", wellKnownTtl |-> 9, txt |-> {o2}, txtTtl |-> 0]}

(* Two calls of verify are interchangeable.                                *)
Symmetry == Permutations(Call)
=============================================================================
