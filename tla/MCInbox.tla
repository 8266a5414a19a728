------------------------------- MODULE MCInbox -------------------------------
(* TLC instances of the decision inbox.                                    *)
EXTENDS Inbox, TLC

Symmetry == Permutations(Ticker)
=============================================================================
