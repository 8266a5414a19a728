---------------------------- MODULE PitchContract ----------------------------
(***************************************************************************)
(* What the inbox promises about a pitch (inbox_storage.py): it is offered *)
(* once, it leaves the status "open" exactly once, either by a decision or *)
(* by being withdrawn, and what it left it for stays what it is.           *)
(***************************************************************************)
EXTENDS Sequences, Naturals

CONSTANTS
  Ticker,
  Decisions   \* buy, pass, later

VARIABLE offers   \* the pitches by id: ticker and status

Outcomes == Decisions \cup {"expired"}
Statuses == Outcomes \cup {"open"}

Init == offers = <<>>

OpenOffers == {i \in DOMAIN offers : offers[i].status = "open"}

Offer(t) == offers' = Append(offers, [ticker |-> t, status |-> "open"])

\* WHERE id = ? AND status = 'open'
Decide(i, d) ==
  /\ i \in OpenOffers
  /\ offers' = [offers EXCEPT ![i].status = d]

\* One sweep withdraws any number of open pitches.
Withdraw(S) ==
  /\ S \subseteq OpenOffers
  /\ offers' = [i \in DOMAIN offers |->
                  IF i \in S THEN [offers[i] EXCEPT !.status = "expired"] ELSE offers[i]]

Next ==
  \/ \E t \in Ticker : Offer(t)
  \/ \E i \in DOMAIN offers, d \in Decisions : Decide(i, d)
  \/ \E S \in SUBSET DOMAIN offers : Withdraw(S)

Spec == Init /\ [][Next]_offers
=============================================================================
