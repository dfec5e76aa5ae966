------------------------------ MODULE MCVault -------------------------------
(***************************************************************************)
(* Vault for TLC.                                                          *)
(***************************************************************************)
EXTENDS Vault, TLC

(* The least cost that may be asked for, and one past what an open will    *)
(* spend.                                                                  *)
MCProfile == {ARGON2ID_CONSTRAINED, [m |-> 2097152, t |-> 3, p |-> 4]}

(* The processes run the same code.                                        *)
Symmetry == Permutations(Proc)
=============================================================================
