----------------------------- MODULE LaneLedger -----------------------------
(***************************************************************************)
(* What a trading lane promises of its persisted book, whatever happens    *)
(* between two writes: the book changes only by whole passes.  A pass      *)
(* sells some positions completely and opens some new ones, never resizes  *)
(* one, opens no ticker an earlier pass of the same day traded, and stays  *)
(* within the caps on positions and on the entries of a day.               *)
(* (shortterm_book.LaneBook, shortterm_storage.persist_lane_step.)         *)
(***************************************************************************)
EXTENDS Integers, FiniteSets

CONSTANTS Tickers, Lot, MaxDay, MaxPositions, MaxEntriesPerDay

VARIABLES book, entries, tradedOn, day

ledgerVars == <<book, entries, tradedOn, day>>

Flat == [qty |-> 0, opened |-> 0]
Open == {t \in Tickers : book[t].qty > 0}
CountToday == IF entries.day = day THEN entries.n ELSE 0

Init ==
  /\ book = [t \in Tickers |-> Flat]
  /\ entries = [day |-> 0, n |-> 0]
  /\ tradedOn = [t \in Tickers |-> 0]
  /\ day = 1

NewDay ==
  /\ day < MaxDay
  /\ day' = day + 1
  /\ UNCHANGED <<book, entries, tradedOn>>

\* One write: `sold` leaves, `opened` enters with a quantity of its own, the
\* rest stays as it is.
Pass(sold, opened) ==
  /\ opened \cap (Open \ sold) = {}
  /\ \A t \in opened : tradedOn[t] # day
  /\ \E qty \in [opened -> 1..Lot] :
       book' = [t \in Tickers |->
                  IF t \in opened THEN [qty |-> qty[t], opened |-> day]
                  ELSE IF t \in sold THEN Flat ELSE book[t]]
  /\ Cardinality((Open \ sold) \cup opened) <= MaxPositions
  /\ CountToday + Cardinality(opened) <= MaxEntriesPerDay
  /\ entries' = [day |-> day, n |-> CountToday + Cardinality(opened)]
  /\ tradedOn' = [t \in Tickers |->
                    IF t \in sold \cup opened THEN day ELSE tradedOn[t]]
  /\ UNCHANGED day

Next ==
  \/ NewDay
  \/ \E sold \in SUBSET Open, opened \in SUBSET Tickers : Pass(sold, opened)

Spec == Init /\ [][Next]_ledgerVars

=============================================================================
