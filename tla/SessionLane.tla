----------------------------- MODULE SessionLane -----------------------------
(***************************************************************************)
(* The session lane (scripts/run_shortterm.py, run_session): every minute  *)
(* a process first books what the broker's bracket legs did without it,    *)
(* flattens what is left of an earlier day, lets decide() judge each       *)
(* ticker's fresh bars, and writes the book once.  Outside the market      *)
(* window the same process sweeps what is still open.  Its brackets are    *)
(* DAY orders: at the close the venue drops their legs.                    *)
(*                                                                         *)
(* Bars are abstracted to how many have settled today (tick) and decide()  *)
(* to the actions it may emit; prices and sizes do not matter to it here.  *)
(***************************************************************************)
EXTENDS PaperVenue

CONSTANTS
  MaxTick,    \* bound: settled bars of a session; the last one forces the exit
  MaxGap,     \* MAX_RUN_GAP, in bars
  MaxFaults   \* bound: crashes and refused or failed broker calls

ASSUME SessionAssumption ==
  /\ MaxTick \in Nat \ {0} /\ MaxGap \in Nat /\ MaxFaults \in Nat

VARIABLES
  market,    \* is it inside the market window
  tick,      \* settled bars of today
  book,      \* st_books: shares per ticker
  opened,    \* LanePosition.opened_at: the day the position was opened
  state,     \* session_state: its date, the traded tickers, the last bar of each
  lastRun,   \* last_session_run
  pc, run,   \* the running process and its memory
  faults

clockVars == <<day, market, tick>>
laneVars == <<book, opened, state, lastRun>>
vars == <<venueVars, clockVars, laneVars, pc, run, faults>>

Held(b) == {t \in Tickers : b[t] > 0}
Now == (day - 1) * (MaxTick + MaxGap + 2) + tick + 1
FreshState == [date |-> day, traded |-> {}, lastBar |-> [t \in Tickers |-> 0]]

NoRun == [book |-> [t \in Tickers |-> 0], opened |-> [t \in Tickers |-> 0],
          state |-> [date |-> 0, traded |-> {}, lastBar |-> [t \in Tickers |-> 0]],
          sweep |-> FALSE, mayOpen |-> FALSE, now |-> 0, tick |-> 0, bars |-> {},
          todo |-> {}, order |-> 0]

Init ==
  /\ VenueInit
  /\ market = TRUE /\ tick = 0
  /\ book = NoRun.book /\ opened = NoRun.opened
  /\ state = NoRun.state
  /\ lastRun = 0
  /\ pc = "idle" /\ run = NoRun
  /\ faults = 0

-----------------------------------------------------------------------------
(* The market.                                                             *)

VenueActs ==
  /\ market /\ VenueStep
  /\ UNCHANGED <<clockVars, laneVars, pc, run, faults>>

Tick ==
  /\ market /\ tick < MaxTick
  /\ tick' = tick + 1
  /\ UNCHANGED <<venueVars, day, market, laneVars, pc, run, faults>>

\* The DAY brackets end: what has not filled is dropped, the legs expire.
Close ==
  /\ market /\ tick > 0
  /\ market' = FALSE
  /\ orders' = [i \in Placed |->
                  [orders[i] EXCEPT !.status = IF @ = "new" THEN "canceled" ELSE @,
                                    !.legs = IF @ = "live" THEN "none" ELSE @]]
  /\ UNCHANGED <<placed, shares, selling, day, tick, laneVars, pc, run, faults>>

NextDay ==
  /\ ~market /\ pc = "idle" /\ day < MaxDay
  /\ day' = day + 1 /\ market' = TRUE /\ tick' = 0
  /\ UNCHANGED <<venueVars, laneVars, pc, run, faults>>

Fault == faults < MaxFaults /\ faults' = faults + 1

-----------------------------------------------------------------------------
(* A run begins: _absorb_broker_exits.                                     *)

\* The tickers the book holds and the account does not, read in one listing.
BookOnly == {t \in Held(book) : shares[t] = 0}

\* may_open_new_position: the last run that reached its end is not too long ago.
Mut_AlwaysOpen == TRUE
MayOpen == lastRun = 0 \/ Now - lastRun <= MaxGap

\* Outside the window only an open position makes the process do anything.
Start ==
  /\ pc = "idle"
  /\ market \/ Held(book) # {}
  /\ \E bars \in SUBSET Tickers :
       run' = [NoRun EXCEPT !.book = book, !.opened = opened, !.sweep = ~market,
                 !.mayOpen = MayOpen, !.now = Now, !.tick = tick, !.bars = bars,
                 !.todo = BookOnly,
                 !.state = IF state.date = day THEN state ELSE FreshState]
  /\ pc' = "absorb"
  /\ UNCHANGED <<venueVars, clockVars, laneVars, faults>>

Done(t) == [run EXCEPT !.todo = @ \ {t}]
Sold(t) == [Done(t) EXCEPT !.book[t] = 0, !.opened[t] = 0]

\* resolve_book_only: the sells in the history add up to the position.
AbsorbExit(t) ==
  /\ pc = "absorb" /\ t \in run.todo
  /\ run' = Sold(t)
  /\ UNCHANGED <<venueVars, clockVars, laneVars, pc, faults>>

\* The history cannot be read: the divergence stays open.
HistoryUnread(t) ==
  /\ pc = "absorb" /\ t \in run.todo /\ Fault
  /\ run' = Done(t)
  /\ UNCHANGED <<venueVars, clockVars, laneVars, pc>>

\* What was absorbed is written at once; then the sweep, or the session's work
\* unless no ticker has bars.
AbsorbDone ==
  /\ pc = "absorb" /\ run.todo = {}
  /\ book' = run.book /\ opened' = run.opened
  /\ \/ /\ run.sweep \/ run.bars # {}
        /\ run' = [run EXCEPT !.todo = IF run.sweep THEN Held(run.book) \cap run.bars
                                       ELSE run.bars]
        /\ pc' = IF run.sweep THEN "sweep" ELSE "flatten"
     \/ /\ ~run.sweep /\ run.bars = {}
        /\ run' = NoRun /\ pc' = "idle"
  /\ UNCHANGED <<venueVars, clockVars, state, lastRun, faults>>

-----------------------------------------------------------------------------
(* The session: flatten what is old, then one decision per ticker.         *)

\* _flatten_stale_positions: positions of an earlier day leave the BOOK at the
\* open of today's first settled bar; the broker is not asked.
Stale == {t \in Held(run.book) \cap run.bars : run.tick > 0 /\ run.opened[t] < day}
Without(gone) == [run EXCEPT !.book = [t \in Tickers |-> IF t \in gone THEN 0 ELSE @[t]],
                             !.opened = [t \in Tickers |-> IF t \in gone THEN 0 ELSE @[t]]]

Flatten ==
  /\ pc = "flatten"
  /\ run' = Without(Stale)
  /\ pc' = "decide"
  /\ UNCHANGED <<venueVars, clockVars, laneVars, faults>>

LastBar == run.tick = MaxTick
Fresh(t) == run.tick > run.state.lastBar[t]
Holding(t) == run.book[t] > 0

\* The bars of t are dealt with: the marker moves on, whatever came of them.
Judged(t) == [Done(t) EXCEPT !.state.lastBar[t] = run.tick]

\* No fresh bar, or nothing in it: a position only survives an earlier bar.
Hold(t) ==
  /\ pc = "decide" /\ t \in run.todo
  /\ Holding(t) /\ Fresh(t) => ~LastBar
  /\ run' = Judged(t)
  /\ UNCHANGED <<venueVars, clockVars, laneVars, pc, faults>>

\* decide() fills a breakout at the open of the bar after it and walks all fresh
\* bars: with the closing bar among them, an earlier fresh one must take the entry.
\* A breakout on the newest bar leaves that bar unprocessed; here it counts as
\* judged, and the next fresh bar may buy.
BarToFill(t) == LastBar => run.tick - run.state.lastBar[t] > 1

\* One entry per ticker and day, none after a gap between the runs.
Mut_NotHeld(t) == ~Holding(t) /\ Fresh(t) /\ BarToFill(t) /\ run.mayOpen
MayBuy(t) ==
  ~Holding(t) /\ Fresh(t) /\ BarToFill(t) /\ run.mayOpen /\ t \notin run.state.traded

\* _open_position: place_bracket accepted; settle_or_cancel begins.
Buy(t) ==
  /\ pc = "decide" /\ t \in run.todo /\ MayBuy(t)
  /\ market /\ Submit(t)
  /\ run' = [run EXCEPT !.order = placed + 1]
  /\ pc' = "await"
  /\ UNCHANGED <<clockVars, laneVars, faults>>

\* Mutant: the entry day is not stored with the position.
Mut_NoEntryDay(t, qty) ==
  [run EXCEPT !.order = 0, !.book[t] = qty, !.state.traded = @ \cup {t}]

\* Filled, or dead, while it was polled: the broker's quantity is booked.
Booked(t, qty) ==
  [run EXCEPT !.order = 0, !.book[t] = qty, !.opened[t] = day,
              !.state.traded = @ \cup {t}]
Dropped(t) == [Judged(t) EXCEPT !.order = 0]
Outcome(t, qty) == IF qty > 0 THEN Booked(t, qty) ELSE Dropped(t)

Settle ==
  /\ pc = "await" /\ ~Open(run.order)
  /\ run' = Outcome(orders[run.order].ticker, orders[run.order].filled)
  /\ pc' = "decide"
  /\ UNCHANGED <<venueVars, clockVars, laneVars, faults>>

\* Still open after the polls: cancelled, and the FINAL state is booked.
Mut_BookBeforeCancel ==
  /\ pc = "await" /\ Open(run.order)
  /\ UNCHANGED <<venueVars, clockVars, laneVars, faults>>
  /\ run' = Outcome(orders[run.order].ticker, orders[run.order].filled)
  /\ pc' = "decide"
Cancel ==
  /\ pc = "await" /\ Open(run.order)
  /\ CancelOrder(run.order)
  /\ UNCHANGED <<clockVars, laneVars, pc, run, faults>>

\* The cancel fails for another reason: the error counts as "completed meanwhile",
\* and what has filled by now is booked with the order still open.
CancelLost ==
  /\ pc = "await" /\ Open(run.order) /\ Fault
  /\ run' = Outcome(orders[run.order].ticker, orders[run.order].filled)
  /\ pc' = "decide"
  /\ UNCHANGED <<venueVars, clockVars, laneVars>>

\* _close_position: the sell is accepted and the book sells ...
SellSignal(t) ==
  \/ pc = "decide" /\ t \in run.todo /\ Holding(t) /\ Fresh(t)
  \/ pc = "sweep" /\ t \in run.todo

Exited(t) == IF pc = "sweep" THEN Sold(t)
             ELSE [Judged(t) EXCEPT !.book[t] = 0, !.opened[t] = 0]

CloseAccepted(t) ==
  /\ SellSignal(t)
  /\ ClosePosition(t)
  /\ run' = Exited(t)
  /\ UNCHANGED <<clockVars, laneVars, pc, faults>>

\* ... and the book sells as well when the sell is refused: because nothing is
\* left to sell, or because a call failed.
CloseRefused(t) ==
  /\ SellSignal(t)
  /\ ClosePositionRefused(t)
  /\ IF shares[t] > selling[t] THEN Fault ELSE UNCHANGED faults
  /\ run' = Exited(t)
  /\ UNCHANGED <<clockVars, laneVars, pc>>

\* One write: the book, the day's state and the run's own time stamp.  A sweep
\* writes the book only.
Mut_SweepForgotten ==
  /\ pc \in {"decide", "sweep"} /\ run.todo = {}
  /\ IF run.sweep THEN UNCHANGED laneVars
     ELSE /\ book' = run.book /\ opened' = run.opened
          /\ state' = run.state /\ lastRun' = run.now
  /\ run' = NoRun /\ pc' = "idle"
  /\ UNCHANGED <<venueVars, clockVars, faults>>
Persist ==
  /\ pc \in {"decide", "sweep"} /\ run.todo = {}
  /\ book' = run.book /\ opened' = run.opened
  /\ IF run.sweep THEN UNCHANGED <<state, lastRun>>
     ELSE state' = run.state /\ lastRun' = run.now
  /\ run' = NoRun /\ pc' = "idle"
  /\ UNCHANGED <<venueVars, clockVars, faults>>

\* The wrapper's timeout kills the process, or an error it does not catch.
Crash ==
  /\ pc # "idle" /\ Fault
  /\ run' = NoRun /\ pc' = "idle"
  /\ UNCHANGED <<venueVars, clockVars, laneVars>>

RunStep ==
  \/ AbsorbDone \/ Flatten \/ Settle \/ Cancel \/ Persist
  \/ \E t \in Tickers :
       AbsorbExit(t) \/ Hold(t) \/ Buy(t) \/ CloseAccepted(t) \/ CloseRefused(t)

Next ==
  \/ VenueActs \/ Tick \/ Close \/ NextDay
  \/ Start \/ RunStep
  \/ \E t \in Tickers : HistoryUnread(t)
  \/ CancelLost \/ Crash

Spec == Init /\ [][Next]_vars

\* Cron starts the process again and again, its steps end, the venue fills
\* accepted sells, sessions end, and a held ticker has bars sooner or later.
StartWithBars(t) == Start /\ t \in run'.bars
SellFilled(t) == VenueActs /\ SellFills(t)
Fairness ==
  /\ WF_vars(RunStep) /\ WF_vars(Start)
  /\ WF_vars(Close) /\ WF_vars(Tick) /\ WF_vars(NextDay)
  /\ \A t \in Tickers : SF_vars(StartWithBars(t)) /\ WF_vars(SellFilled(t))

LiveSpec == Spec /\ Fairness

-----------------------------------------------------------------------------
(* Properties.                                                             *)

Idle == pc = "idle"

\* The types of the venue, the lane's stores and the run's memory.
TypeOK ==
  /\ VenueTypeOK
  /\ market \in BOOLEAN /\ tick \in 0..MaxTick
  /\ book \in [Tickers -> 0..Lot] /\ opened \in [Tickers -> Days]
  /\ \A t \in Tickers : book[t] > 0 <=> opened[t] > 0
  /\ state.date \in Days /\ state.traded \subseteq Tickers
  /\ state.lastBar \in [Tickers -> 0..MaxTick]
  /\ lastRun \in 0..Now
  /\ pc \in {"idle", "absorb", "flatten", "decide", "await", "sweep"}
  /\ run.order \in 0..placed /\ (pc = "await" <=> run.order > 0)
  /\ faults \in 0..MaxFaults

\* settle_or_cancel and _close_position: within one day and without a fault,
\* the account holds, beyond sells on their way, exactly what the book holds,
\* or less when a bracket leg has sold it.
BookIsAccount ==
  Idle /\ faults = 0 /\ day = 1 =>
    \A t \in Tickers :
      \/ shares[t] - selling[t] = book[t]
      \/ book[t] > 0 /\ shares[t] = 0

\* st_session.py, "One entry per ticker per day": without a fault at most one
\* order per ticker and day fills.
OneEntryPerDay ==
  faults = 0 =>
    \A t \in Tickers : \A i, j \in {k \in OrdersOf(t) : Filled(k)} :
      orders[i].day = orders[j].day => i = j

\* may_open_new_position: no entry on the word of a run of an earlier day.  A run
\* that did not reach its end counts as one that did not happen.
NoEntryAfterGap ==
  [][placed' > placed => lastRun = 0 \/ state.date = day]_vars

\* The overnight sweep and the reconciliation: every position leaves the book,
\* whatever failed on the way.
EveryPositionEnds == \A t \in Tickers : book[t] > 0 ~> book[t] = 0

\* _session_overnight_sweep: "flattening the book while the broker keeps the
\* position is exactly the divergence this design exists to prevent".
BookFlatWithBroker ==
  Idle /\ faults = 0 => \A t \in Tickers : book[t] = 0 => shares[t] = selling[t]

=============================================================================
