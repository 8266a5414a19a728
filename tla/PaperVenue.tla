----------------------------- MODULE PaperVenue -----------------------------
(***************************************************************************)
(* The Alpaca paper account, as the lanes use it through alpaca_broker.py: *)
(* entry orders that rest until they fill or are cancelled, the protective *)
(* legs of a bracket (stop and target, one cancels the other), and market  *)
(* sells that are accepted first and filled later.  Prices are abstracted: *)
(* what the lanes can lose track of is the NUMBER of shares.               *)
(*                                                                         *)
(* The account is one ledger per ticker, not per order and not per lane:   *)
(* DELETE /v2/positions/<ticker> sells everything the account holds.       *)
(***************************************************************************)
EXTENDS Integers, FiniteSets

CONSTANTS
  Tickers,     \* the symbols that can be traded
  Lot,         \* shares of one entry order
  MaxOrders,   \* bound: entry orders submitted in one behaviour
  MaxDay       \* bound: the last trading day of a behaviour

ASSUME VenueAssumption ==
  /\ Tickers # {} /\ IsFiniteSet(Tickers)
  /\ Lot \in Nat \ {0}
  /\ MaxOrders \in Nat \ {0}
  /\ MaxDay \in Nat \ {0}

VARIABLES
  orders,    \* every entry order ever submitted, by id
  placed,    \* how many ids are in use
  shares,    \* the account's position per ticker
  selling,   \* shares in accepted market sells that have not filled yet
  day        \* the trading day

venueVars == <<orders, placed, shares, selling>>

Placed == 1..placed
Days == 0..MaxDay

Order == [ticker: Tickers, day: Days, filled: 0..Lot,
          status: {"new", "filled", "canceled"},
          legs: {"none", "live", "done"}]

VenueTypeOK ==
  /\ placed \in 0..MaxOrders
  /\ orders \in [Placed -> Order]
  /\ shares \in [Tickers -> Int]
  /\ selling \in [Tickers -> Nat]
  /\ day \in 1..MaxDay

VenueInit ==
  /\ orders = [i \in 1..0 |-> 0]
  /\ placed = 0
  /\ shares = [t \in Tickers |-> 0]
  /\ selling = [t \in Tickers |-> 0]
  /\ day = 1

OrdersOf(t) == {i \in Placed : orders[i].ticker = t}
Open(i) == orders[i].status = "new"
Filled(i) == orders[i].filled > 0

-----------------------------------------------------------------------------
(* What a caller asks of the venue.                                        *)

\* POST /v2/orders accepted: the answer is pending_new, nothing has filled.
Submit(t) ==
  /\ placed < MaxOrders
  /\ placed' = placed + 1
  /\ orders' = [i \in 1..placed + 1 |->
                  IF i \in Placed THEN orders[i]
                  ELSE [ticker |-> t, day |-> day, filled |-> 0,
                        status |-> "new", legs |-> "none"]]
  /\ UNCHANGED <<shares, selling>>

\* DELETE /v2/orders/<id> accepted.  What a partial fill's bracket legs become
\* is the venue's decision, so both outcomes are possible.
CancelOrder(i) ==
  /\ Open(i)
  /\ \E legs \in IF Filled(i) THEN {"none", "live"} ELSE {"none"} :
       orders' = [orders EXCEPT ![i] = [@ EXCEPT !.status = "canceled", !.legs = legs]]
  /\ UNCHANGED <<placed, shares, selling>>

\* The orders after every resting order of t, legs included, is cancelled.
WithoutResting(t) ==
  [i \in Placed |->
     IF i \in OrdersOf(t)
     THEN [orders[i] EXCEPT !.status = IF @ = "new" THEN "canceled" ELSE @,
                            !.legs = IF @ = "live" THEN "none" ELSE @]
     ELSE orders[i]]

\* close_position: cancel everything that rests for t, then sell the whole
\* position at market.  The venue accepts the sell; it fills later.
ClosePosition(t) ==
  /\ shares[t] > selling[t]
  /\ orders' = WithoutResting(t)
  /\ selling' = [selling EXCEPT ![t] = shares[t]]
  /\ UNCHANGED <<placed, shares>>

\* close_position raises: the listing failed and nothing was cancelled, or the
\* flatten was refused AFTER the resting orders were cancelled (always so when
\* there is nothing left to sell).
ClosePositionRefused(t) ==
  /\ orders' \in {orders, WithoutResting(t)}
  /\ UNCHANGED <<placed, shares, selling>>

-----------------------------------------------------------------------------
(* What the venue does by itself.                                          *)

\* One more share of a resting entry fills; a complete fill arms the legs.
FillShare(i) ==
  /\ Open(i)
  /\ LET n == orders[i].filled + 1
         t == orders[i].ticker
         full == n = Lot
     IN /\ orders' = [orders EXCEPT
                        ![i] = [@ EXCEPT !.filled = n,
                                         !.status = IF full THEN "filled" ELSE "new",
                                         !.legs = IF full THEN "live" ELSE "none"]]
        /\ shares' = [shares EXCEPT ![t] = @ + 1]
  /\ UNCHANGED <<placed, selling>>

\* The venue rejects or expires an entry that has not traded.
RejectOrder(i) ==
  /\ Open(i) /\ ~Filled(i)
  /\ orders' = [orders EXCEPT ![i].status = "canceled"]
  /\ UNCHANGED <<placed, shares, selling>>

\* A protective leg fires: the shares of that entry are sold, whoever looks.
LegFires(i) ==
  /\ orders[i].legs = "live"
  /\ orders' = [orders EXCEPT ![i].legs = "done"]
  /\ shares' = [shares EXCEPT ![orders[i].ticker] = @ - orders[i].filled]
  /\ UNCHANGED <<placed, selling>>

\* An accepted market sell fills.
SellFills(t) ==
  /\ selling[t] > 0
  /\ shares' = [shares EXCEPT ![t] = @ - selling[t]]
  /\ selling' = [selling EXCEPT ![t] = 0]
  /\ UNCHANGED <<orders, placed>>

VenueStep ==
  \/ \E i \in Placed : FillShare(i) \/ RejectOrder(i) \/ LegFires(i)
  \/ \E t \in Tickers : SellFills(t)

=============================================================================
