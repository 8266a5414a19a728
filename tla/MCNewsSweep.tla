------------------------------ MODULE MCNewsSweep ------------------------------
(* TLC instances of the news sweep.                                        *)
EXTENDS NewsSweep, TLC
=============================================================================
