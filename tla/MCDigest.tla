------------------------------- MODULE MCDigest -------------------------------
(* TLC instances of the daily digest.                                      *)
EXTENDS Digest, TLC
=============================================================================
