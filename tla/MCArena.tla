------------------------------- MODULE MCArena -------------------------------
(* TLC instances of the two paper lanes.                                   *)
EXTENDS Arena, TLC

Symmetry == Permutations(Ticker)
=============================================================================
