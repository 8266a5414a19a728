-------------------------------- MODULE Arena --------------------------------
(***************************************************************************)
(* The two paper lanes (scripts/run_lanes.py, lanes.py, lane_storage.py):  *)
(* one run advances "nico", who buys the approved pitches, and             *)
(* "autopilot", who buys from the watchlist, and writes for each lane its  *)
(* portfolio, its valuation and its trades in three transactions.  The     *)
(* trades are the audit trail and the marker that a pitch was executed.    *)
(* The pitches themselves obey PitchContract, which Inbox implements.      *)
(*                                                                         *)
(* A portfolio is the set of its tickers: every price, rule and age that   *)
(* makes apply_exits sell is a choice, and since cash only falls while the *)
(* orders are worked off, what it buys is a first part of the orders.      *)
(***************************************************************************)
EXTENDS Integers, Sequences, FiniteSets

CONSTANTS
  Ticker,
  Decisions,   \* ACTIONS; "buy" is one of them
  MaxOffers,   \* bound: pitches
  MaxDay,      \* bound: days
  MaxRuns,     \* bound: runs
  MaxCrashes   \* bound: runs that die half way

ASSUME ArenaAssumption ==
  /\ "buy" \in Decisions
  /\ MaxOffers \in Nat /\ MaxDay \in Nat \ {0} /\ MaxRuns \in Nat /\ MaxCrashes \in Nat

Lanes == {"nico", "autopilot"}

VARIABLES
  offers,     \* the pitches, by id (PitchContract)
  day,
  held,       \* lane_portfolios: the tickers each lane holds
  credited,   \* the days of dividends in each portfolio's cash
  valued,     \* lane_valuations: the last day of each lane (0: none)
  net,        \* lane_trades: buys minus sells of each lane and ticker
  executed,   \* lane_trades: the pitch ids lane nico has bought
  run,        \* the running process
  fills,      \* for checking: how often each pitch was bought into a portfolio
  runs, crashes

storeVars == <<held, credited, valued, net, executed>>
vars == <<offers, day, storeVars, run, fills, runs, crashes>>

Pitches == INSTANCE PitchContract

Idle == [pc |-> "idle", lane |-> "nico", priced |-> {}, orders |-> {}, picks |-> {}, now |-> 0, days |-> 0,
         sells |-> {}, buys |-> {}]

Init ==
  /\ Pitches!Init
  /\ day = 1
  /\ held = [l \in Lanes |-> {}]
  /\ credited = [l \in Lanes |-> 0]
  /\ valued = [l \in Lanes |-> 0]
  /\ net = [l \in Lanes |-> [t \in Ticker |-> 0]]
  /\ executed = {}
  /\ run = Idle
  /\ fills = [i \in 1..MaxOffers |-> 0]
  /\ runs = 0 /\ crashes = 0

-----------------------------------------------------------------------------
(* The inbox and the calendar.                                             *)

InboxStep ==
  /\ Pitches!Next
  /\ Len(offers') <= MaxOffers /\ offers' # offers
  /\ UNCHANGED <<day, storeVars, run, fills, runs, crashes>>

NextDay ==
  /\ day < MaxDay /\ day' = day + 1
  /\ UNCHANGED <<offers, storeVars, run, fills, runs, crashes>>

-----------------------------------------------------------------------------
(* One run.                                                                *)

\* _lane_a_orders: approved and not executed.
Mut_NotRejected == {i \in DOMAIN offers : offers[i].status # "pass" /\ i \notin executed}
Mut_Executed == {i \in DOMAIN offers : offers[i].status = "buy"}
LaneAOrders == {i \in DOMAIN offers : offers[i].status = "buy" /\ i \notin executed}

\* _days_since_last_run: over both lanes, 0 before the first valuation.
LastValued == IF valued["nico"] > valued["autopilot"] THEN valued["nico"] ELSE valued["autopilot"]
Mut_SinceEver == day - LastValued
Mut_Swapped == IF LastValued = 0 THEN 0 ELSE LastValued - day
DaysSinceLastRun == IF LastValued = 0 THEN 0 ELSE day - LastValued

\* The clock, both books, both orders (of the watchlist: the priced picks)
\* and one set of prices for both lanes.
Start ==
  /\ run.pc = "idle" /\ runs < MaxRuns
  /\ runs' = runs + 1
  /\ \E priced \in SUBSET Ticker : \E picks \in SUBSET priced :
       run' = [Idle EXCEPT !.pc = "portfolio", !.priced = priced, !.orders = LaneAOrders,
                           !.picks = picks, !.now = day, !.days = DaysSinceLastRun]
  /\ UNCHANGED <<offers, day, storeVars, fills, crashes>>

\* lane_b_orders leaves out what the lane held when the run began.
Mut_WhatItHoldsNow(sells) == run.picks \ (held["autopilot"] \ sells)
LaneBBuyable(sells) == run.picks \ held["autopilot"]

\* The orders execute_buys can fill: priced, not held, the newest of its ticker.
TickerOf(i) == offers[i].ticker
Buyable(sells) ==
  {i \in run.orders :
     /\ TickerOf(i) \in run.priced \ (held["nico"] \ sells)
     /\ \A j \in run.orders : TickerOf(j) = TickerOf(i) => j <= i}

\* credit_dividends, apply_exits, execute_buys, save_lane_portfolio.
Save(l, sells, bought) ==
  /\ held' = [held EXCEPT ![l] = (@ \ sells) \cup bought]
  /\ credited' = [credited EXCEPT ![l] = @ + run.days]
  /\ UNCHANGED <<offers, day, valued, net, executed, runs, crashes>>

SaveNico ==
  /\ run.pc = "portfolio" /\ run.lane = "nico"
  /\ \E sells \in SUBSET (held["nico"] \cap run.priced), cut \in 1..MaxOffers + 1 :
       LET buys == {i \in Buyable(sells) : i >= cut} IN
       /\ Save("nico", sells, {TickerOf(i) : i \in buys})
       /\ fills' = [i \in 1..MaxOffers |-> IF i \in buys THEN fills[i] + 1 ELSE fills[i]]
       /\ run' = [run EXCEPT !.pc = "valuation", !.sells = sells, !.buys = buys]

SaveAutopilot ==
  /\ run.pc = "portfolio" /\ run.lane = "autopilot"
  /\ \E sells \in SUBSET (held["autopilot"] \cap run.priced) :
       \E bought \in SUBSET LaneBBuyable(sells) :
         /\ Save("autopilot", sells, bought)
         /\ run' = [run EXCEPT !.pc = "valuation", !.sells = sells, !.picks = bought]
  /\ UNCHANGED fills

\* valued_on is the day the run began.
SaveValuation ==
  /\ run.pc = "valuation"
  /\ valued' = [valued EXCEPT ![run.lane] = run.now]
  /\ run' = [run EXCEPT !.pc = "trades"]
  /\ UNCHANGED <<offers, day, held, credited, net, executed, fills, runs, crashes>>

Mut_WithPitch == {TickerOf(i) : i \in run.buys}
Bought == IF run.lane = "nico" THEN {TickerOf(i) : i \in run.buys} ELSE run.picks

\* record_trades, one transaction; then the other lane or the end.
RecordTrades ==
  /\ run.pc = "trades"
  /\ net' = [net EXCEPT ![run.lane] = [t \in Ticker |->
               @[t] + (IF t \in Bought THEN 1 ELSE 0) - (IF t \in run.sells THEN 1 ELSE 0)]]
  /\ executed' = executed \cup run.buys
  /\ run' = IF run.lane = "nico"
              THEN [run EXCEPT !.pc = "portfolio", !.lane = "autopilot", !.orders = {}, !.sells = {},
                             !.buys = {}]
              ELSE Idle
  /\ UNCHANGED <<offers, day, held, credited, valued, fills, runs, crashes>>

\* The step's time limit or a reboot.
Crash ==
  /\ run.pc # "idle" /\ crashes < MaxCrashes
  /\ crashes' = crashes + 1
  /\ run' = Idle
  /\ UNCHANGED <<offers, day, storeVars, fills, runs>>

-----------------------------------------------------------------------------
RunStep == SaveNico \/ SaveAutopilot \/ SaveValuation \/ RecordTrades

Next == InboxStep \/ NextDay \/ Start \/ RunStep \/ Crash

Spec == Init /\ [][Next]_vars

-----------------------------------------------------------------------------
(* Properties.                                                             *)

TypeOK ==
  /\ offers \in Seq([ticker : Ticker, status : Pitches!Statuses])
  /\ day \in 1..MaxDay /\ runs \in 0..MaxRuns /\ crashes \in 0..MaxCrashes
  /\ held \in [Lanes -> SUBSET Ticker] /\ net \in [Lanes -> [Ticker -> Int]]
  /\ credited \in [Lanes -> Nat] /\ valued \in [Lanes -> 0..MaxDay]
  /\ executed \subseteq DOMAIN offers
  /\ fills \in [1..MaxOffers -> Nat]
  /\ run \in [pc : {"idle", "portfolio", "valuation", "trades"}, lane : Lanes,
              priced : SUBSET Ticker, orders : SUBSET DOMAIN offers, picks : SUBSET Ticker,
              now : 0..MaxDay, days : 0..MaxDay, sells : SUBSET Ticker,
              buys : SUBSET DOMAIN offers]

(* An approved pitch is bought once, and only an approved one is: a second *)
(* fill, or a fill the marker does not know, takes a crash between the     *)
(* portfolio and the trades.  It rests on the contract of the inbox: what  *)
(* was read as "buy" when the run began still is when it is bought.        *)
ApprovedOnce ==
  \A i \in 1..MaxOffers :
    /\ fills[i] > 0 => i \in DOMAIN offers /\ offers[i].status = "buy"
    /\ fills[i] <= 1 + crashes
    /\ fills[i] > 0 /\ run.pc = "idle" /\ crashes = 0 => i \in executed

(* "lane_trades ... is BOTH the fairness audit trail and the executed      *)
(* marker": without a crash the recorded buys and sells add up to what a   *)
(* lane holds after every run, for both lanes.                             *)
AuditTrail ==
  run.pc = "idle" /\ crashes = 0 =>
    \A l \in Lanes, t \in Ticker : net[l][t] = IF t \in held[l] THEN 1 ELSE 0

(* Fairness of the comparison: the two lanes are credited the same days of *)
(* dividends, and no day twice, through reruns on one day and days without *)
(* a run.                                                                  *)
FairSpan ==
  run.pc = "idle" /\ crashes = 0 =>
    /\ credited["nico"] = credited["autopilot"]
    /\ credited["nico"] <= IF LastValued = 0 THEN 0 ELSE LastValued - 1

(* A run that sells a ticker buys it back only in lane nico, and only on a *)
(* second approved pitch (or one whose marker a crash lost): an exit is    *)
(* never undone by the order it came from.                                 *)
NoRoundTrip ==
  /\ run.lane = "autopilot" /\ run.pc \in {"valuation", "trades"} => run.sells \cap run.picks = {}
  /\ \A i \in run.buys :
       TickerOf(i) \in run.sells =>
         crashes > 0 \/ \E j \in executed : j # i /\ TickerOf(j) = TickerOf(i)

(* "Both lanes are always valued together, so their latest valued_on       *)
(* matches" (run_lanes.py:113).                                            *)
ValuedTogether == run.pc = "idle" => valued["nico"] = valued["autopilot"]
=============================================================================
