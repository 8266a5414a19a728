---------------------------- MODULE MCAutoDepot ----------------------------
(* TLC instances of the Auto-Depot.                                        *)
EXTENDS AutoDepot

LongShort == {-6, 0, 2}
=============================================================================
