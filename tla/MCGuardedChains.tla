---------------------------- MODULE MCGuardedChains ----------------------------
(* TLC instances of the guarded chains.                                    *)
EXTENDS GuardedChains, TLC
=============================================================================
