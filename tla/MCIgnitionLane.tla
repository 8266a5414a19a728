--------------------------- MODULE MCIgnitionLane ---------------------------
(* TLC instances of the ignition lane.                                     *)
EXTENDS IgnitionLane, TLC

Symmetry == Permutations(Tickers)
=============================================================================
