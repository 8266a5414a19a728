----------------------------- MODULE GapfadeLane -----------------------------
(***************************************************************************)
(* The gap-fade lane (scripts/run_shortterm.py, run_gapfade): it buys into *)
(* the opening auction, hands every fill to the closing auction at once,   *)
(* and reads both auctions back in later runs.  One run has three phases,  *)
(* old business first: settle the exits, absorb the entries, signal.  Each *)
(* phase places orders one by one and writes its lists of open orders at   *)
(* its end, so between an order and that write only memory knows the order.*)
(***************************************************************************)
EXTENDS Integers, FiniteSets, FiniteSetsExt

CONSTANTS
  Tickers,       \* the watchlist
  Lot,           \* shares of one entry order
  MaxPositions,  \* MAX_POSITIONS
  MaxOrders,     \* bound: auction orders in one behaviour
  MaxDay,        \* bound: the last trading day
  MaxFaults      \* bound: crashes and failed broker calls

ASSUME GapfadeAssumption ==
  /\ IsFiniteSet(Tickers)
  /\ Lot \in Nat \ {0}
  /\ MaxPositions \in Nat /\ MaxOrders \in Nat
  /\ MaxDay \in Nat \ {0} /\ MaxFaults \in Nat

VARIABLES
  day, phase,   \* the trading day: before the open, in session, after the close
  orders,       \* every auction order ever accepted, by id
  shares,       \* the account's position per ticker
  book,         \* st_books: shares per ticker, 0 when flat
  marker,       \* gapfade_signal_day
  entryOrders,  \* gapfade_entry_orders: ids still to be absorbed
  exitOrders,   \* gapfade_exit_orders: the sells still to be settled
  pc, run,      \* the running process and its memory
  faults

venueVars == <<day, phase, orders, shares>>
laneVars == <<book, marker, entryOrders, exitOrders>>
vars == <<venueVars, laneVars, pc, run, faults>>

Placed == DOMAIN orders
NextId == Cardinality(Placed) + 1
Ids == 1..MaxOrders

Order == [ticker: Tickers, side: {"buy", "sell"}, day: 1..MaxDay,
          qty: 1..Lot, filled: 0..Lot, status: {"new", "filled", "canceled"}]

\* An exit entry: the entry fill it is for, and the sell's id or 0 for None.
ExitEntry == [for: Ids, id: Ids \cup {0}]
TickerOf(e) == orders[e.for].ticker

NoRun == [book |-> [t \in Tickers |-> 0], exits |-> {}, left |-> {},
          entries |-> {}, unread |-> {}, picks |-> {}]

Init ==
  /\ day = 1 /\ phase = "pre"
  /\ orders = [i \in {} |-> 0]
  /\ shares = [t \in Tickers |-> 0]
  /\ book = [t \in Tickers |-> 0]
  /\ marker = 0
  /\ entryOrders = {} /\ exitOrders = {}
  /\ pc = "idle" /\ run = NoRun
  /\ faults = 0

-----------------------------------------------------------------------------
(* The venue: an auction resolves every order routed into it, in whole, in *)
(* part or not at all; an order for an auction that has passed is refused, *)
(* or kept for the next one when it is a sell.                             *)

Resting(side) == {i \in Placed : orders[i].side = side /\ orders[i].status = "new"}

\* The shares that n orders have, counted one by one: a count can be reasoned
\* about for any number of orders.
Total(n) == Cardinality({s \in (DOMAIN n) \X (1..Lot) : s[2] <= n[s[1]]})

FilledIn(fill, t) ==
  Total([i \in {j \in DOMAIN fill : orders[j].ticker = t} |-> fill[i]])

Auction(side) ==
  \E fill \in [Resting(side) -> 0..Lot] :
    /\ \A i \in Resting(side) : fill[i] <= orders[i].qty
    /\ orders' = [i \in Placed |->
                    IF i \notin Resting(side) THEN orders[i]
                    ELSE [orders[i] EXCEPT
                            !.filled = fill[i],
                            !.status = IF fill[i] = orders[i].qty THEN "filled"
                                       ELSE "canceled"]]
    /\ shares' = [t \in Tickers |->
                    IF side = "buy" THEN shares[t] + FilledIn(fill, t)
                    ELSE shares[t] - FilledIn(fill, t)]

OpeningAuction ==
  /\ phase = "pre" /\ phase' = "session"
  /\ Auction("buy")
  /\ UNCHANGED <<day, laneVars, pc, run, faults>>

ClosingAuction ==
  /\ phase = "session" /\ phase' = "closed"
  /\ Auction("sell")
  /\ UNCHANGED <<day, laneVars, pc, run, faults>>

NextDay ==
  /\ phase = "closed" /\ day < MaxDay /\ pc = "idle"
  /\ day' = day + 1 /\ phase' = "pre"
  /\ UNCHANGED <<orders, shares, laneVars, pc, run, faults>>

\* place_auction_order accepted.
Place(t, side, qty) ==
  /\ NextId <= MaxOrders
  /\ side = "buy" => phase = "pre"
  /\ orders' = [i \in Placed \cup {NextId} |->
                  IF i \in Placed THEN orders[i]
                  ELSE [ticker |-> t, side |-> side, day |-> day, qty |-> qty,
                        filled |-> 0, status |-> "new"]]
  /\ UNCHANGED <<day, phase, shares>>

Held(b) == {t \in Tickers : b[t] > 0}

-----------------------------------------------------------------------------
(* Phase one of a run: _gapfade_settle_exits.                              *)

Start ==
  /\ pc = "idle"
  /\ run' = [NoRun EXCEPT !.book = book, !.exits = exitOrders]
  /\ pc' = "settle"
  /\ UNCHANGED <<venueVars, laneVars, faults>>

\* The exit entry e has been dealt with; `keep` of it stays on the list.
Settled(e, keep) == [run EXCEPT !.exits = @ \ {e}, !.left = @ \cup keep]

\* fetch_order raised: the entry stays for the next run.
ExitUnread(e) ==
  /\ pc = "settle" /\ e \in run.exits
  /\ run.book[TickerOf(e)] > 0 /\ e.id # 0
  /\ faults < MaxFaults /\ faults' = faults + 1
  /\ run' = Settled(e, {e})
  /\ UNCHANGED <<venueVars, laneVars, pc>>

\* Any fill of the sell flattens the position in the book.
IsSold(e) == e.id # 0 /\ orders[e.id].filled > 0

\* A sell that never went out, or died unfilled, is to be placed again.
Mut_PendingIsDead(e) == e.id \in {0} \cup {i \in Placed : orders[i].filled = 0}
IsDead(e) ==
  e.id \in {0} \cup {i \in Placed : orders[i].status = "canceled" /\ orders[i].filled = 0}

\* The position is gone already, was sold, or its sell is still pending.
SettleExit(e) ==
  /\ pc = "settle" /\ e \in run.exits
  /\ LET t == TickerOf(e)
     IN \/ run.book[t] = 0 /\ run' = Settled(e, {})
        \/ run.book[t] > 0 /\ IsSold(e) /\ run' = [Settled(e, {}) EXCEPT !.book[t] = 0]
        \/ run.book[t] > 0 /\ ~IsSold(e) /\ ~IsDead(e)
           /\ run' = Settled(e, {e})
  /\ UNCHANGED <<venueVars, laneVars, pc, faults>>

\* A dead sell is placed again for the whole position ...
RenewExit(e) ==
  /\ pc = "settle" /\ e \in run.exits
  /\ run.book[TickerOf(e)] > 0 /\ IsDead(e) /\ ~IsSold(e)
  /\ Place(TickerOf(e), "sell", run.book[TickerOf(e)])
  /\ run' = Settled(e, {[e EXCEPT !.id = NextId]})
  /\ UNCHANGED <<laneVars, pc, faults>>

\* ... or the venue refuses it, and the entry stays for the next run.
Mut_RefusedIsDropped(e) ==
  /\ pc = "settle" /\ e \in run.exits
  /\ run.book[TickerOf(e)] > 0 /\ IsDead(e) /\ ~IsSold(e)
  /\ run' = Settled(e, {})
  /\ UNCHANGED <<venueVars, laneVars, pc, faults>>
RenewRefused(e) ==
  /\ pc = "settle" /\ e \in run.exits
  /\ run.book[TickerOf(e)] > 0 /\ IsDead(e) /\ ~IsSold(e)
  /\ run' = Settled(e, {e})
  /\ UNCHANGED <<venueVars, laneVars, pc, faults>>

\* One write: the book and the exits that remain.
SettleDone ==
  /\ pc = "settle" /\ run.exits = {}
  /\ book' = run.book /\ exitOrders' = run.left
  /\ run' = [run EXCEPT !.entries = entryOrders]
  /\ pc' = "absorb"
  /\ UNCHANGED <<venueVars, marker, entryOrders, faults>>

-----------------------------------------------------------------------------
(* Phase two: _gapfade_absorb_entries.                                     *)

Absorbed(i, exit) == [run EXCEPT !.entries = @ \ {i}, !.left = @ \cup exit]

EntryUnread(i) ==
  /\ pc = "absorb" /\ i \in run.entries
  /\ faults < MaxFaults /\ faults' = faults + 1
  /\ run' = [Absorbed(i, {}) EXCEPT !.unread = @ \cup {i}]
  /\ UNCHANGED <<venueVars, laneVars, pc>>

\* buy with the broker's quantity: a ticker already held is refused.
Mut_WholeLot(i) == [run.book EXCEPT ![orders[i].ticker] = IF @ = 0 THEN Lot ELSE @]
Mut_AddsToHeld(i) == [run.book EXCEPT ![orders[i].ticker] = @ + orders[i].filled]
Bought(i) == [run.book EXCEPT ![orders[i].ticker] = IF @ = 0 THEN orders[i].filled ELSE @]

\* A fill is booked and handed to the closing auction ...
AbsorbFill(i) ==
  /\ pc = "absorb" /\ i \in run.entries /\ orders[i].filled > 0
  /\ Place(orders[i].ticker, "sell", orders[i].filled)
  /\ run' = [Absorbed(i, {[for |-> i, id |-> NextId]}) EXCEPT !.book = Bought(i)]
  /\ UNCHANGED <<laneVars, pc, faults>>

\* ... or the venue refuses the sell, and the exit entry carries no id.
AbsorbRefused(i) ==
  /\ pc = "absorb" /\ i \in run.entries /\ orders[i].filled > 0
  /\ run' = [Absorbed(i, {[for |-> i, id |-> 0]}) EXCEPT !.book = Bought(i)]
  /\ UNCHANGED <<venueVars, laneVars, pc, faults>>

\* Nothing filled: a dead order is dropped, a pending one kept.
AbsorbNone(i) ==
  /\ pc = "absorb" /\ i \in run.entries /\ orders[i].filled = 0
  /\ run' = [Absorbed(i, {}) EXCEPT
               !.unread = IF orders[i].status = "new" THEN @ \cup {i} ELSE @]
  /\ UNCHANGED <<venueVars, laneVars, pc, faults>>

\* run_gapfade: inside the window, and not yet signalled today.
Mut_DueInWindow == phase = "pre"
SignalDue == phase = "pre" /\ marker # day

\* One write: the book, the entries that remain and the exits.
AbsorbDone ==
  /\ pc = "absorb" /\ run.entries = {}
  /\ book' = run.book /\ entryOrders' = run.unread /\ exitOrders' = run.left
  /\ IF SignalDue
     THEN pc' = "signal" /\ UNCHANGED run
     ELSE pc' = "idle" /\ run' = NoRun
  /\ UNCHANGED <<venueVars, marker, faults>>

-----------------------------------------------------------------------------
(* Phase three: _gapfade_signals.                                          *)

\* The pre-market prices could not be read: no marker, the next run retries.
SignalUnread ==
  /\ pc = "signal"
  /\ pc' = "idle" /\ run' = NoRun
  /\ UNCHANGED <<venueVars, laneVars, faults>>

\* The deepest gaps take the free slots.
Mut_SlotsOfEmptyBook == MaxPositions
Slots == MaxPositions - Cardinality(Held(run.book))

\* The day marker is set BEFORE the first submission.
Signal ==
  /\ pc = "signal"
  /\ \E gaps \in SUBSET (Tickers \ Held(run.book)) : \E picks \in SUBSET gaps :
       /\ Cardinality(picks) = Min({Cardinality(gaps), Max({0, Slots})})
       /\ run' = [run EXCEPT !.picks = picks]
  /\ marker' = day
  /\ pc' = "submit"
  /\ UNCHANGED <<venueVars, book, entryOrders, exitOrders, faults>>

Submit(t) ==
  /\ pc = "submit" /\ t \in run.picks
  /\ Place(t, "buy", Lot)
  /\ run' = [run EXCEPT !.picks = @ \ {t}, !.unread = @ \cup {NextId}]
  /\ UNCHANGED <<laneVars, pc, faults>>

\* Under one share, or the venue refuses.
SubmitRefused(t) ==
  /\ pc = "submit" /\ t \in run.picks
  /\ run' = [run EXCEPT !.picks = @ \ {t}]
  /\ UNCHANGED <<venueVars, laneVars, pc, faults>>

\* Only now are the order ids written.
SubmitDone ==
  /\ pc = "submit" /\ run.picks = {}
  /\ entryOrders' = run.unread
  /\ pc' = "idle" /\ run' = NoRun
  /\ UNCHANGED <<venueVars, book, marker, exitOrders, faults>>

Crash ==
  /\ pc # "idle" /\ faults < MaxFaults
  /\ faults' = faults + 1
  /\ pc' = "idle" /\ run' = NoRun
  /\ UNCHANGED <<venueVars, laneVars>>

Next ==
  \/ OpeningAuction \/ ClosingAuction \/ NextDay
  \/ Start \/ SettleDone \/ AbsorbDone \/ SignalUnread \/ Signal \/ SubmitDone
  \/ \E e \in run.exits :
       ExitUnread(e) \/ SettleExit(e) \/ RenewExit(e) \/ RenewRefused(e)
  \/ \E i \in run.entries :
       EntryUnread(i) \/ AbsorbFill(i) \/ AbsorbRefused(i) \/ AbsorbNone(i)
  \/ \E t \in Tickers : Submit(t) \/ SubmitRefused(t)
  \/ Crash

Spec == Init /\ [][Next]_vars

-----------------------------------------------------------------------------
(* Properties.                                                             *)

\* The types of the calendar, the orders and the lane's stores ...
StoresOK ==
  /\ day \in 1..MaxDay /\ phase \in {"pre", "session", "closed"}
  /\ Placed = 1..Cardinality(Placed) /\ Placed \subseteq Ids
  /\ \A i \in Placed : orders[i] \in Order /\ orders[i].filled <= orders[i].qty
  /\ book \in [Tickers -> 0..Lot]
  /\ marker \in 0..MaxDay
  /\ entryOrders \subseteq Placed
  /\ \A e \in exitOrders : e \in ExitEntry /\ {e.for, e.id} \subseteq Placed \cup {0}
  /\ pc \in {"idle", "settle", "absorb", "signal", "submit"}
  /\ faults \in 0..MaxFaults

\* ... and of the account.
TypeOK == StoresOK /\ shares \in [Tickers -> Int]

\* _gapfade_signals: the marker before the first submission means that no
\* crash and no retry of the five-minute cron buys a ticker twice on one day.
OneEntryPerDay ==
  \A i, j \in {k \in Placed : orders[k].side = "buy"} :
    orders[i].ticker = orders[j].ticker /\ orders[i].day = orders[j].day => i = j

\* _gapfade_settle_exits: whatever dies between two writes, a position of the
\* stored book always has an exit on the stored list that will be retried.
HeldHasExit == \A t \in Held(book) : \E e \in exitOrders : TickerOf(e) = t

Filled(ids, t) ==
  Total([i \in {j \in ids : orders[j].ticker = t} |-> orders[i].filled])
SellsOf(exits) == {e.id : e \in exits} \ {0}

PartlySold(i, t) ==
  /\ orders[i].side = "sell" /\ orders[i].ticker = t
  /\ orders[i].status = "canceled" /\ orders[i].filled > 0

\* Shares a closing auction left over after a partial fill that was settled.
LeftOver(t) ==
  Total([i \in {j \in Placed \ SellsOf(exitOrders) : PartlySold(j, t)}
           |-> orders[i].qty - orders[i].filled])

\* Between two runs without a fault every share of the account is accounted
\* for: by the book, by a fill still to be read, or as the rest of a partly
\* filled closing order.
AccountKnown ==
  pc = "idle" /\ faults = 0 =>
    \A t \in Tickers :
      shares[t] = book[t] + Filled(entryOrders, t)
                  - Filled(SellsOf(exitOrders), t) + LeftOver(t)

\* The lane's cap holds as long as every fill could be read when it was asked
\* for: slots are counted from the book, not from the open orders.
CapWithoutFaults == faults = 0 => Cardinality(Held(book)) <= MaxPositions

Idle == pc = "idle"
Known(t) == book[t] > 0 \/ \E i \in entryOrders : orders[i].ticker = t
            \/ \E e \in exitOrders : TickerOf(e) = t

\* _gapfade_settle_exits: "a position must never linger because its order went
\* terminal": without a fault the account holds no ticker the lane has put
\* aside.
NothingLingers == Idle /\ faults = 0 => \A t \in Tickers : Known(t) \/ shares[t] = 0

\* _gapfade_settle_exits: without a fault a position has one closing order at a
\* time: a second one would sell the account short at the close.
OneRestingSell ==
  faults = 0 =>
    \A i, j \in Resting("sell") : orders[i].ticker = orders[j].ticker => i = j

=============================================================================
