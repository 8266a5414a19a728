---------------------------- MODULE IgnitionLane ----------------------------
(***************************************************************************)
(* The ignition lane (scripts/run_ignition_lane.py, st_ignition.py): every *)
(* minute of the session a process loads the lane's book, sells what has   *)
(* to go, buys what the catalyst scan signalled, and writes the book ONCE  *)
(* at the end.  Between the first order and that write the account has     *)
(* moved and the book has not; the wrapper kills the process after fifty   *)
(* seconds, and any broker call may fail.                                  *)
(*                                                                         *)
(* Prices are abstracted to what the rules decide with them: a held ticker *)
(* has a price or not, and its stop or trail is breached or not.  So is    *)
(* cash: four positions of a tenth of the book each never exhaust it.      *)
(***************************************************************************)
EXTENDS PaperVenue

CONSTANTS
  Buckets,            \* the move buckets a day's signals of one ticker can have
  MaxPositions,       \* MAX_POSITIONS
  MaxEntriesPerDay,   \* MAX_ENTRIES_PER_DAY
  MaxHoldDays,        \* MAX_HOLD_DAYS
  StopTrades,         \* STOP_CRITERION_TRADES
  MaxFaults           \* bound: crashes and failed broker calls in one behaviour

ASSUME LaneAssumption ==
  /\ IsFiniteSet(Buckets)
  /\ MaxPositions \in Nat /\ MaxEntriesPerDay \in Nat
  /\ MaxHoldDays \in Nat /\ StopTrades \in Nat /\ MaxFaults \in Nat

VARIABLES
  book,        \* st_books: the lane's positions
  entries,     \* st_state entries_on: the day and its entry count
  tradedOn,    \* st_trades: the last day each ticker was bought or sold
  closed,      \* st_trades: closed trades, counted up to StopTrades
  verdict,     \* what assess_trades says of the closed trades
  executions,  \* st_executions: the orders whose fill was recorded
  reported,    \* st_state broker_divergence: the tickers last found to diverge
  signals,     \* catalyst_signals of today, by ticker and move bucket
  traded,      \* the signals carrying traded_at
  pc,          \* where the running process is
  run,         \* its memory
  faults       \* crashes and failed calls so far

laneVars == <<book, entries, tradedOn, closed, verdict, executions, reported>>
radarVars == <<signals, traded>>
vars == <<venueVars, day, laneVars, radarVars, pc, run, faults>>

Signals == Tickers \X Buckets

NoPosition == [qty |-> 0, opened |-> 0]
Position == [qty: 0..Lot, opened: Days]
Held(b) == {t \in Tickers : b[t].qty > 0}
Smaller(m, n) == IF m <= n THEN m ELSE n

\* _entries_today: a marker of another day counts as none.
EntriesToday == IF entries.day = day THEN entries.n ELSE 0

\* The memory of one run; everything in it dies with the process.
NoRun == [book |-> [t \in Tickers |-> NoPosition], entries |-> 0, todo |-> {},
          exits |-> {}, picks |-> {}, pick |-> {}, order |-> 0,
          fills |-> {}, sells |-> 0, won |-> {}]

PCs == {"idle", "exits", "pick", "enter", "settle", "book",
        "mark", "report"}

Init ==
  /\ VenueInit
  /\ book = [t \in Tickers |-> NoPosition]
  /\ entries = [day |-> 0, n |-> 0]
  /\ tradedOn = [t \in Tickers |-> 0]
  /\ closed = 0 /\ verdict = "offen"
  /\ executions = {} /\ reported = {}
  /\ signals = {} /\ traded = {}
  /\ pc = "idle" /\ run = NoRun
  /\ faults = 0

-----------------------------------------------------------------------------
(* The environment between two runs.                                       *)

NewDay ==
  /\ pc = "idle" /\ day < MaxDay
  /\ day' = day + 1
  /\ signals' = {} /\ traded' = {}
  /\ UNCHANGED <<venueVars, laneVars, pc, run, faults>>

\* The scan (same minute, before the lane) writes a signal whose dedup key,
\* ticker and move bucket, is new today.
SignalArrives(s) ==
  /\ pc = "idle" /\ s \notin signals
  /\ signals' = signals \cup {s}
  /\ UNCHANGED <<venueVars, day, laneVars, traded, pc, run, faults>>

Venue ==
  /\ VenueStep
  /\ UNCHANGED <<day, laneVars, radarVars, pc, run, faults>>

-----------------------------------------------------------------------------
(* One run of the lane.                                                    *)

Stopped == closed >= StopTrades /\ verdict = "negativ"

\* pick_exits: a ticker without a price is left alone; with one it goes when
\* stop or trail is breached or the position is MaxHoldDays old.
Aged(b, t) == b[t].qty > 0 /\ day - b[t].opened >= MaxHoldDays
Mut_ExitsOnlyOnBreach(b, priced, breached) == breached
PickExits(b, priced, breached) == {t \in priced : t \in breached \/ Aged(b, t)}

\* Load the book, the day's counter and the untraded signals, then decide the
\* exits.  A lane that met its stop criterion returns before any of it.
StartWith(priced) ==
  /\ pc = "idle" /\ ~Stopped
  /\ \E breached \in SUBSET priced :
       run' = [NoRun EXCEPT !.book = book, !.entries = EntriesToday,
                            !.todo = signals \ traded,
                            !.exits = PickExits(book, priced, breached)]
  /\ pc' = "exits"
  /\ UNCHANGED <<venueVars, day, laneVars, radarVars, faults>>

StartRun == \E priced \in SUBSET Held(book) : StartWith(priced)

\* The broker accepted the sell: the book is flat at the SIGNAL price.
Exit(t) ==
  /\ pc = "exits" /\ t \in run.exits
  /\ ClosePosition(t)
  /\ run' = [run EXCEPT !.exits = @ \ {t}, !.book[t] = NoPosition,
                        !.fills = @ \cup {t}, !.sells = @ + 1]
  /\ UNCHANGED <<day, laneVars, radarVars, pc, faults>>

\* The broker refused: the book keeps the position, the run goes on.  That the
\* account holds nothing is not a fault of the call, everything else is.
ExitRefused(t) ==
  /\ pc = "exits" /\ t \in run.exits
  /\ shares[t] > selling[t] => faults < MaxFaults
  /\ ClosePositionRefused(t)
  /\ run' = [run EXCEPT !.exits = @ \ {t}]
  /\ faults' = IF shares[t] > selling[t] THEN faults + 1 ELSE faults
  /\ UNCHANGED <<day, laneVars, radarVars, pc>>

\* Whether pick_entries may pick a signal: the book of THIS pass does not hold
\* its ticker and no trade of an EARLIER pass touched it today.
Mut_EnterableUnlessHeld(s) == run.book[s[1]].qty = 0
Enterable(s) == run.book[s[1]].qty = 0 /\ tradedOn[s[1]] # day

\* free_slots and remaining_today, whichever is smaller.
Mut_QuotaOfTheDay == MaxEntriesPerDay - run.entries
Quota ==
  LET slots == MaxPositions - Cardinality(Held(run.book))
      left  == MaxEntriesPerDay - run.entries
  IN Smaller(IF slots < 0 THEN 0 ELSE slots, IF left < 0 THEN 0 ELSE left)

\* pick_entries: of the signals that pass the filters (score, move, volume,
\* quote) as many as there are free slots and entries left today; none at all
\* shortly before the close.
PickEntries ==
  /\ pc = "exits" /\ run.exits = {}
  /\ \E passing \in SUBSET {s \in run.todo : Enterable(s)} :
     \E picks \in SUBSET passing :
       /\ \/ Cardinality(picks) = Smaller(Cardinality(passing), Quota)
          \/ picks = {}
       /\ run' = [run EXCEPT !.picks = picks]
  /\ pc' = "enter"
  /\ UNCHANGED <<venueVars, day, laneVars, radarVars, faults>>

\* place_limit_bracket was accepted; the order now rests at the venue.
PlaceEntry(s) ==
  /\ pc = "enter" /\ s \in run.picks
  /\ Submit(s[1])
  /\ run' = [run EXCEPT !.picks = @ \ {s}, !.pick = {s}, !.order = placed + 1]
  /\ pc' = "settle"
  /\ UNCHANGED <<day, laneVars, radarVars, faults>>

\* Position size under one share, or place_limit_bracket raised.
SkipEntry(s) ==
  /\ pc = "enter" /\ s \in run.picks
  /\ run' = [run EXCEPT !.picks = @ \ {s}]
  /\ UNCHANGED <<venueVars, day, laneVars, radarVars, pc, faults>>

\* settle_or_cancel: the polls ended and the order still rests, so it is
\* cancelled ...
Mut_AwaitOnly ==
  /\ pc = "settle" /\ Open(run.order)
  /\ pc' = "book"
  /\ UNCHANGED <<venueVars, day, laneVars, radarVars, run, faults>>
CancelUnfilled ==
  /\ pc = "settle" /\ CancelOrder(run.order)
  /\ pc' = "book"
  /\ UNCHANGED <<day, laneVars, radarVars, run, faults>>

\* ... or the cancel raises although the order still rests, and is swallowed.
CancelLost ==
  /\ pc = "settle" /\ Open(run.order)
  /\ faults < MaxFaults
  /\ faults' = faults + 1
  /\ pc' = "book"
  /\ UNCHANGED <<venueVars, day, laneVars, radarVars, run>>

\* A poll or the final read raises AFTER the order was accepted.  The runner
\* reports a refused entry and takes the next pick.
Mut_BooksAnyway ==
  /\ pc \in {"settle", "book"}
  /\ faults < MaxFaults
  /\ faults' = faults + 1
  /\ run' = [run EXCEPT !.pick = {}, !.order = 0]
  /\ pc' = "book"
  /\ UNCHANGED <<venueVars, day, laneVars, radarVars>>
ReadFails ==
  /\ pc \in {"settle", "book"}
  /\ faults < MaxFaults
  /\ faults' = faults + 1
  /\ run' = [run EXCEPT !.pick = {}, !.order = 0]
  /\ pc' = "enter"
  /\ UNCHANGED <<venueVars, day, laneVars, radarVars>>

\* bookable: the shares of the order as it was last read.
Mut_IntendedQty(i) == Lot
Bookable(i) == orders[i].filled

\* The order as last read is booked: bookable, then buy with the broker's
\* quantity, which refuses a ticker the book already holds.
BookEntry ==
  /\ pc = "book" \/ (pc = "settle" /\ ~Open(run.order))
  /\ LET t == orders[run.order].ticker
         n == Bookable(run.order)
         bought == n > 0 /\ run.book[t].qty = 0
         next == [run EXCEPT !.pick = {}, !.order = 0]
     IN \/ /\ bought
           /\ run' = [next EXCEPT !.book[t] = [qty |-> n, opened |-> day],
                                  !.entries = @ + 1,
                                  !.fills = @ \cup {t},
                                  !.won = @ \cup run.pick]
           /\ executions' = executions \cup {run.order}
        \/ /\ ~bought
           /\ run' = next
           /\ UNCHANGED executions
  /\ pc' = "enter"
  /\ UNCHANGED <<venueVars, day, book, entries, tradedOn, closed, verdict,
                 reported, radarVars, faults>>

\* persist_lane_step: book, trades and day marker in ONE transaction.
Persist ==
  /\ pc = "enter" /\ run.picks = {}
  /\ book' = run.book
  /\ entries' = [day |-> day, n |-> run.entries]
  /\ tradedOn' = [t \in Tickers |-> IF t \in run.fills THEN day ELSE tradedOn[t]]
  /\ closed' = Smaller(closed + run.sells, StopTrades)
  /\ \/ run.sells = 0 /\ UNCHANGED verdict
     \/ run.sells > 0 /\ verdict' \in {"offen", "negativ"}
  /\ pc' = "mark"
  /\ UNCHANGED <<venueVars, day, executions, reported, radarVars, run, faults>>

\* mark_traded: another database, another transaction.
MarkTraded ==
  /\ pc = "mark"
  /\ traded' = traded \cup run.won
  /\ pc' = "report"
  /\ UNCHANGED <<venueVars, day, laneVars, signals, run, faults>>

Diverges(b, t) == b[t].qty # shares[t]

\* record_divergence, after the book is written: the finding replaces the last.
Mut_ReportNeverClears ==
  /\ pc = "report"
  /\ reported' = reported \cup {t \in Tickers : Diverges(run.book, t)}
  /\ pc' = "idle" /\ run' = NoRun
  /\ UNCHANGED <<venueVars, day, book, entries, tradedOn, closed, verdict,
                 executions, radarVars, faults>>
ReportDivergence ==
  /\ pc = "report"
  /\ reported' = {t \in Tickers : Diverges(run.book, t)}
  /\ pc' = "idle" /\ run' = NoRun
  /\ UNCHANGED <<venueVars, day, book, entries, tradedOn, closed, verdict,
                 executions, radarVars, faults>>

\* fetch_positions raised: the comparison is skipped, the finding stays.
ReportSkipped ==
  /\ pc = "report"
  /\ pc' = "idle" /\ run' = NoRun
  /\ UNCHANGED <<venueVars, day, laneVars, radarVars, faults>>

\* timeout, network exception or power loss: the memory is gone, the orders
\* are not.
Crash ==
  /\ pc # "idle" /\ faults < MaxFaults
  /\ pc' = "idle" /\ run' = NoRun
  /\ faults' = faults + 1
  /\ UNCHANGED <<venueVars, day, laneVars, radarVars>>

RunStep ==
  \/ StartRun \/ PickEntries \/ CancelUnfilled \/ CancelLost \/ ReadFails
  \/ BookEntry \/ Persist \/ MarkTraded \/ ReportDivergence \/ ReportSkipped
  \/ \E t \in Tickers : Exit(t) \/ ExitRefused(t)
  \/ \E s \in Signals : PlaceEntry(s) \/ SkipEntry(s)

Next ==
  \/ RunStep \/ Crash \/ Venue \/ NewDay
  \/ \E s \in Signals : SignalArrives(s)

Spec == Init /\ [][Next]_vars

-----------------------------------------------------------------------------
(* Properties.                                                             *)

RunMemory ==
  [book: [Tickers -> Position], entries: Nat, todo: SUBSET Signals,
   exits: SUBSET Tickers, picks: SUBSET Signals, pick: SUBSET Signals,
   order: 0..MaxOrders, fills: SUBSET Tickers, sells: Nat,
   won: SUBSET Signals]

\* The types of the lane's stores, the venue's ledger and the run's memory.
TypeOK ==
  /\ VenueTypeOK
  /\ book \in [Tickers -> Position]
  /\ entries \in [day: Days, n: Nat]
  /\ tradedOn \in [Tickers -> Days]
  /\ closed \in 0..StopTrades
  /\ verdict \in {"offen", "negativ"}
  /\ executions \subseteq Placed
  /\ reported \subseteq Tickers
  /\ signals \subseteq Signals /\ traded \subseteq Signals
  /\ pc \in PCs /\ run \in RunMemory
  /\ pc \in {"settle", "book"} => run.order \in Placed
  /\ faults \in 0..MaxFaults

\* The hard caps of st_ignition.pick_entries as the BOOK sees them: never more
\* than MaxPositions positions, never more than MaxEntriesPerDay entries of one
\* day, however runs, crashes and refused exits interleave.
BookWithinCaps ==
  /\ Cardinality(Held(book)) <= MaxPositions
  /\ entries.n <= MaxEntriesPerDay

\* Why the caps hold: what a pass has bought and what it may still buy fit the
\* slots and the day's entries, and its memory differs from the stored book
\* only in tickers it sold whole or bought anew.
Buying == pc \in {"settle", "book"}
Claims == Cardinality(run.picks) + (IF Buying THEN 1 ELSE 0)
Opened == run.fills \cap Held(run.book)

PassInv ==
  pc \in {"exits", "enter", "settle", "book"} =>
    /\ \A t \in Tickers \ run.fills : run.book[t] = book[t]
    /\ \A t \in run.fills \ Opened : run.book[t] = NoPosition /\ t \in Held(book)
    /\ \A t \in Opened : run.book[t].opened = day /\ tradedOn[t] # day
    /\ \A s \in run.picks \cup run.pick : tradedOn[s[1]] # day
    /\ Buying => \E s \in Signals : run.pick = {s} /\ orders[run.order].ticker = s[1]
    /\ pc = "exits" => Opened = {} /\ run.exits \subseteq Held(book) \ run.fills
    /\ run.entries = EntriesToday + Cardinality(Opened)
    /\ run.entries + Claims <= MaxEntriesPerDay
    /\ Cardinality(Held(run.book)) + Claims <= MaxPositions

\* Two orders of one ticker filled on one day.
Doubled(t) ==
  \E i, j \in OrdersOf(t) : /\ i # j /\ orders[i].day = orders[j].day
                            /\ Filled(i) /\ Filled(j)

\* The account sold the booked position by a leg of its bracket.
SoldByLeg(t) ==
  \E i \in OrdersOf(t) : orders[i].legs = "done" /\ orders[i].day = book[t].opened

\* What bookable and settle_or_cancel are for: while no call failed and no run
\* died, the book between two runs holds exactly what the account holds (less
\* the sells on their way), through partial fills, late fills and cancels.
\* The two ways out are a leg that fired and a ticker bought twice.
BookIsAccount ==
  pc = "idle" /\ faults = 0 =>
    \A t \in Tickers :
      \/ shares[t] - selling[t] = book[t].qty
      \/ SoldByLeg(t) /\ shares[t] = selling[t]
      \/ Doubled(t)

\* An execution row is written before the book is: still, whatever fails, the
\* book never holds more shares of a ticker than one recorded execution of
\* the day it was opened bought.
BookFromExecutions ==
  \A t \in Held(book) :
    \E i \in executions : /\ orders[i].ticker = t
                          /\ orders[i].day = book[t].opened
                          /\ orders[i].filled >= book[t].qty

\* README.md, "Harte Deckel": "einer pro Titel", one entry per ticker and day.
OneEntryPerTitle == \A t \in Tickers : ~Doubled(t)

-----------------------------------------------------------------------------
(* Fairness.  Cron starts a run every minute and a run that starts goes    *)
(* through its steps; a sell the venue accepted fills.  A price for a held *)
(* ticker, an accepted sell and an answered position query are only        *)
(* assumed to come again and again as long as they are asked for.          *)

PricedRun(t) == \E priced \in SUBSET Held(book) : t \in priced /\ StartWith(priced)

Fairness ==
  /\ WF_vars(RunStep)
  /\ SF_vars(ReportDivergence)
  /\ \A t \in Tickers :
       SF_vars(PricedRun(t)) /\ SF_vars(Exit(t)) /\ WF_vars(Venue /\ SellFills(t))

FairSpec == Spec /\ Fairness

\* st_ignition.position_rule_text: sold at the latest after MaxHoldDays.
TimeStop == \A t \in Tickers : Aged(book, t) ~> ~Aged(book, t)

\* The part of that promise the venue cannot take away: a position that both
\* the book and the account hold is eventually sold, while the lane is alive
\* (its stop criterion ends the exits too).
TimeStopWhileRunning ==
  \A t \in Tickers :
    Aged(book, t) /\ shares[t] > selling[t]
      ~> ~Aged(book, t) \/ shares[t] <= selling[t] \/ Stopped

\* No divergence of book and account stays unreported, and none is reported
\* for ever after it is gone, as long as the lane is alive.
DivergenceTracked ==
  \A t \in Tickers : []<>(Stopped \/ (t \in reported <=> Diverges(book, t)))

\* The detailed lane implements the ledger: see LaneLedger.
Ledger == INSTANCE LaneLedger
ImplementsLedger == Ledger!Spec

=============================================================================
