--------------------------- MODULE MCSessionLane ---------------------------
(* TLC instances of the session lane.                                      *)
EXTENDS SessionLane, TLC

Symmetry == Permutations(Tickers)
=============================================================================
