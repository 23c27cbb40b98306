------------------------------ MODULE MCLoans -------------------------------
(* Small instances of Loans for TLC. *)
EXTENDS Loans, TLC

\* The loans a player may make or take do not depend on who it is.
PlayerSymmetry == Permutations(Players)
=============================================================================
