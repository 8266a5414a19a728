--------------------------- MODULE MCGapfadeLane ---------------------------
(* TLC instances of the gap-fade lane.                                     *)
EXTENDS GapfadeLane, TLC

\* Counting shares is summing.
ASSUME TotalIsSum ==
  \A n \in [Ids -> 0..Lot] : Total(n) = MapThenSumSet(LAMBDA i : n[i], Ids)

Symmetry == Permutations(Tickers)
=============================================================================
