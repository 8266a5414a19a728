----------------------------- MODULE ArenaProofs -----------------------------
(***************************************************************************)
(* The two paper lanes for any number of tickers, pitches, days, runs and  *)
(* crashes: a pitch is bought once, the trades add up to the portfolios,   *)
(* both lanes are credited the same days, and no exit is undone.           *)
(***************************************************************************)
EXTENDS Arena, SequenceTheorems, TLAPS

-----------------------------------------------------------------------------
(* Types, and the clock: nothing is valued ahead of the day.               *)

Runs == [pc : {"idle", "portfolio", "valuation", "trades"}, lane : Lanes,
         priced : SUBSET Ticker, orders : SUBSET DOMAIN offers, picks : SUBSET Ticker,
         now : 0..MaxDay, days : 0..MaxDay, sells : SUBSET Ticker,
         buys : SUBSET DOMAIN offers]

TypeInv ==
  /\ TypeOK
  /\ \A l \in Lanes : valued[l] <= day
  /\ run.now <= day
  /\ run.pc = "idle" => run = Idle
  /\ run.pc # "idle" => run.now > 0
  /\ run.pc = "portfolio" => run.buys = {}

-----------------------------------------------------------------------------
(* The buys of a run come from pitches approved and not yet executed.      *)

FillInv(i) ==
  /\ fills[i] > 0 => i \in DOMAIN offers /\ offers[i].status = "buy"
  /\ fills[i] <= crashes + (IF i \in executed \cup run.buys THEN 1 ELSE 0)
  /\ crashes = 0 /\ fills[i] > 0 => i \in executed \cup run.buys

OrderInv(i) == offers[i].status = "buy" /\ i \notin executed

ApprovedInv == (\A i \in 1..MaxOffers : FillInv(i)) /\ \A i \in run.orders : OrderInv(i)

-----------------------------------------------------------------------------
(* The trades: what a portfolio took before its trades are recorded.       *)

One(t, S) == IF t \in S THEN 1 ELSE 0

Pending(l, t) ==
  IF run.lane = l /\ run.pc \in {"valuation", "trades"} THEN One(t, Bought) - One(t, run.sells) ELSE 0

AuditInv == crashes = 0 => \A l \in Lanes, t \in Ticker : net[l][t] + Pending(l, t) = One(t, held[l])

\* Without a crash every ticker of lane nico stands for a pitch it bought.
HeldBought ==
  crashes = 0 =>
    \A t \in held["nico"] : \E j \in executed \cup run.buys : TickerOf(j) = t

TripInv == NoRoundTrip /\ HeldBought

-----------------------------------------------------------------------------
(* Dividends: where the two lanes stand in the course of a run.            *)

Span(v) == IF v = 0 THEN 0 ELSE v - 1
Since(v) == IF v = 0 THEN 0 ELSE run.now - v

Level == valued["nico"] = valued["autopilot"] /\ credited["autopilot"] <= Span(valued["autopilot"])
Ahead == valued["nico"] = run.now /\ credited["nico"] <= run.now - 1

SpanInv ==
  crashes = 0 =>
    /\ run.pc = "idle" => Level /\ credited["nico"] = credited["autopilot"]
    /\ run.lane = "nico" /\ run.pc \in {"portfolio", "valuation"} =>
         /\ Level /\ run.days = Since(valued["nico"])
         /\ credited["nico"] =
              credited["autopilot"] + (IF run.pc = "portfolio" THEN 0 ELSE run.days)
    /\ (run.lane = "nico" /\ run.pc = "trades") \/ (run.lane = "autopilot" /\ run.pc = "portfolio")
         => Ahead /\ credited["nico"] = credited["autopilot"] + run.days
    /\ run.lane = "autopilot" /\ run.pc \in {"valuation", "trades"} =>
         /\ Ahead /\ credited["nico"] = credited["autopilot"]
         /\ run.pc = "trades" => valued["autopilot"] = run.now
    /\ run.pc # "idle" => valued["nico"] <= run.now

-----------------------------------------------------------------------------
(* What the steps do to the run.                                           *)

LEMMA Parts ==
  ASSUME TypeInv
  PROVE  /\ MaxOffers \in Nat /\ MaxDay \in Nat \ {0} /\ MaxRuns \in Nat /\ MaxCrashes \in Nat
         /\ offers \in Seq([ticker : Ticker, status : Pitches!Statuses])
         /\ day \in 1..MaxDay /\ runs \in 0..MaxRuns /\ crashes \in 0..MaxCrashes
         /\ held \in [Lanes -> SUBSET Ticker] /\ net \in [Lanes -> [Ticker -> Int]]
         /\ credited \in [Lanes -> Nat] /\ valued \in [Lanes -> 0..MaxDay]
         /\ executed \subseteq DOMAIN offers /\ fills \in [1..MaxOffers -> Nat] /\ run \in Runs
         /\ "nico" \in Lanes /\ "autopilot" \in Lanes
BY ArenaAssumption DEF TypeInv, TypeOK, Runs, ArenaAssumption, Lanes

LEMMA IdleIsRun ==
  ASSUME TypeInv
  PROVE  Idle \in Runs
BY Parts DEF Idle, Runs

\* The parts of a run, the ones the proofs use.
LEMMA RunParts ==
  ASSUME TypeInv
  PROVE  /\ run.pc \in {"idle", "portfolio", "valuation", "trades"}
         /\ run.lane \in {"nico", "autopilot"}
         /\ run.orders \subseteq DOMAIN offers /\ run.buys \subseteq DOMAIN offers
         /\ run.picks \subseteq Ticker /\ run.priced \subseteq Ticker /\ run.sells \subseteq Ticker
         /\ run.now \in Nat /\ run.days \in Nat /\ run.now \in 0..MaxDay
BY Parts DEF Runs, Lanes

\* A pitch keeps its ticker, and its status once it is approved.
LEMMA PitchStep ==
  ASSUME TypeInv, Pitches!Next
  PROVE  /\ offers' \in Seq([ticker : Ticker, status : Pitches!Statuses])
         /\ DOMAIN offers \subseteq DOMAIN offers'
         /\ \A i \in DOMAIN offers : /\ offers'[i].ticker = offers[i].ticker
                                     /\ offers[i].status = "buy" => offers'[i].status = "buy"
<1> DEFINE Pitch == [ticker : Ticker, status : Pitches!Statuses]
<1>1. offers \in Seq(Pitch) /\ DOMAIN offers = 1..Len(offers) /\ Len(offers) \in Nat
  BY Parts, LenProperties
<1>2. \A j \in DOMAIN offers : offers[j] \in Pitch
  <2> HIDE DEF Pitch
  <2> QED BY <1>1, ElementOfSeq
<1>3. ASSUME NEW t \in Ticker, Pitches!Offer(t)
      PROVE  /\ offers' \in Seq(Pitch) /\ DOMAIN offers \subseteq DOMAIN offers'
             /\ \A i \in DOMAIN offers : offers'[i] = offers[i]
  <2> DEFINE new == [ticker |-> t, status |-> "open"]
  <2>1. offers' = Append(offers, new) BY <1>3 DEF Pitches!Offer
  <2>2. new \in Pitch BY DEF Pitches!Statuses
  <2> HIDE DEF Pitch, new
  <2> QED BY <1>1, <2>1, <2>2, AppendProperties
<1>4. ASSUME NEW i \in DOMAIN offers, NEW d \in Decisions, Pitches!Decide(i, d)
      PROVE  /\ offers' \in Seq(Pitch) /\ DOMAIN offers' = DOMAIN offers
             /\ \A j \in DOMAIN offers : /\ offers'[j].ticker = offers[j].ticker
                                         /\ offers[j].status = "buy" => offers'[j].status = "buy"
  <2>1. offers[i].status = "open" /\ offers' = [offers EXCEPT ![i].status = d]
    BY <1>4 DEF Pitches!Decide, Pitches!OpenOffers
  <2>2. offers[i] \in Pitch BY <1>2
  <2>3. d \in Pitches!Statuses BY DEF Pitches!Statuses, Pitches!Outcomes
  <2>4. [offers[i] EXCEPT !.status = d] \in Pitch BY <2>2, <2>3
  <2>5. offers' = [offers EXCEPT ![i] = [offers[i] EXCEPT !.status = d]] BY <2>1
  <2>6. offers' \in Seq(Pitch) /\ DOMAIN offers' = DOMAIN offers
    <3> HIDE DEF Pitch
    <3> QED BY <1>1, <2>4, <2>5, ExceptSeq
  <2>7. \A j \in DOMAIN offers \ {i} : offers'[j] = offers[j] BY <2>5
  <2>8. offers'[i] = [offers[i] EXCEPT !.status = d] BY <2>5
  <2>9. offers'[i].ticker = offers[i].ticker BY <2>2, <2>8
  <2> QED BY <2>1, <2>6, <2>7, <2>9
<1>5. ASSUME NEW S \in SUBSET DOMAIN offers, Pitches!Withdraw(S)
      PROVE  /\ offers' \in Seq(Pitch) /\ DOMAIN offers' = DOMAIN offers
             /\ \A j \in DOMAIN offers : /\ offers'[j].ticker = offers[j].ticker
                                         /\ offers[j].status = "buy" => offers'[j].status = "buy"
  <2>1. /\ \A j \in S : offers[j].status = "open"
        /\ offers' = [j \in DOMAIN offers |->
             IF j \in S THEN [offers[j] EXCEPT !.status = "expired"] ELSE offers[j]]
    BY <1>5 DEF Pitches!Withdraw, Pitches!OpenOffers
  <2>2. \A j \in DOMAIN offers : offers[j] \in Pitch BY <1>2
  <2>3. "expired" \in Pitches!Statuses BY DEF Pitches!Statuses, Pitches!Outcomes
  <2>4. ASSUME NEW j \in DOMAIN offers
        PROVE  /\ offers'[j] \in Pitch /\ offers'[j].ticker = offers[j].ticker
               /\ offers[j].status = "buy" => offers'[j] = offers[j]
    <3>1. CASE j \in S
      <4>1. offers'[j] = [offers[j] EXCEPT !.status = "expired"] BY <2>1, <3>1
      <4>2. offers[j].status # "buy" BY <2>1, <3>1
      <4> QED BY <2>2, <2>3, <4>1, <4>2
    <3>2. CASE j \notin S BY <2>1, <2>2, <3>2
    <3> QED BY <3>1, <3>2
  <2>5. DOMAIN offers' = DOMAIN offers BY <2>1
  <2>6. offers' \in Seq(Pitch)
    <3> HIDE DEF Pitch
    <3>1. offers' = [j \in 1..Len(offers) |-> offers'[j]] BY <1>1, <2>1
    <3>2. \A j \in 1..Len(offers) : offers'[j] \in Pitch BY <1>1, <2>4
    <3> QED BY <1>1, <3>1, <3>2, IsASeq
  <2> QED BY <2>4, <2>5, <2>6
<1> QED BY <1>3, <1>4, <1>5 DEF Pitches!Next

LEMMA StartDoes ==
  ASSUME TypeInv, Start
  PROVE  /\ run.pc = "idle" /\ run' \in Runs
         /\ run'.pc = "portfolio" /\ run'.lane = "nico" /\ run'.orders = LaneAOrders
         /\ run'.buys = {} /\ run'.now = day /\ run'.days = DaysSinceLastRun
         /\ DaysSinceLastRun \in 0..MaxDay
         /\ UNCHANGED <<offers, day, storeVars, fills, crashes>> /\ runs' \in 0..MaxRuns
<1>1. PICK priced \in SUBSET Ticker, picks \in SUBSET Ticker :
        run' = [Idle EXCEPT !.pc = "portfolio", !.priced = priced, !.orders = LaneAOrders,
                            !.picks = picks, !.now = day, !.days = DaysSinceLastRun]
  BY DEF Start
<1>2. DaysSinceLastRun \in 0..MaxDay
  <2>1. valued["nico"] \in 0..day /\ valued["autopilot"] \in 0..day BY Parts DEF TypeInv
  <2> QED BY <2>1, Parts DEF DaysSinceLastRun, LastValued
<1>3. LaneAOrders \subseteq DOMAIN offers /\ picks \subseteq Ticker BY DEF LaneAOrders
<1>4. run' \in Runs
  <2>1. day \in 0..MaxDay /\ "nico" \in Lanes BY Parts
  <2>2. Idle \in Runs BY IdleIsRun
  <2> QED BY <1>1, <1>2, <1>3, <2>1, <2>2 DEF Runs, Idle
<1>5. /\ run'.pc = "portfolio" /\ run'.lane = "nico" /\ run'.orders = LaneAOrders
      /\ run'.buys = {} /\ run'.now = day /\ run'.days = DaysSinceLastRun
  BY <1>1 DEF Idle
<1>6. /\ run.pc = "idle" /\ runs < MaxRuns /\ runs' = runs + 1
      /\ UNCHANGED <<offers, day, storeVars, fills, crashes>>
  BY DEF Start
<1>7. runs' \in 0..MaxRuns BY <1>6, Parts
<1> QED BY <1>2, <1>4, <1>5, <1>6, <1>7

\* Both lanes save alike: what is sold was held, what is bought is not held any more.
LEMMA SaveDoes ==
  ASSUME TypeInv, NEW l \in Lanes, NEW sells \in SUBSET held[l], NEW bought \in SUBSET Ticker,
         Save(l, sells, bought)
  PROVE  /\ UNCHANGED <<offers, day, valued, net, executed, runs, crashes>>
         /\ held' \in [Lanes -> SUBSET Ticker] /\ credited' \in [Lanes -> Nat]
         /\ held'[l] = (held[l] \ sells) \cup bought /\ credited'[l] = credited[l] + run.days
         /\ \A m \in Lanes \ {l} : held'[m] = held[m] /\ credited'[m] = credited[m]
<1>1. /\ held' = [held EXCEPT ![l] = (held[l] \ sells) \cup bought]
      /\ credited' = [credited EXCEPT ![l] = credited[l] + run.days]
      /\ UNCHANGED <<offers, day, valued, net, executed, runs, crashes>>
  BY DEF Save
<1>2. (held[l] \ sells) \cup bought \in SUBSET Ticker BY Parts
<1>3. credited[l] + run.days \in Nat
  <2>1. credited[l] \in Nat BY Parts
  <2>2. run.days \in Nat BY RunParts
  <2> QED BY <2>1, <2>2
<1> QED BY <1>1, <1>2, <1>3, Parts

LEMMA SaveNicoDoes ==
  ASSUME TypeInv, SaveNico
  PROVE  \E sells \in SUBSET held["nico"], buys \in SUBSET run.orders :
           /\ run.pc = "portfolio" /\ run.lane = "nico"
           /\ Save("nico", sells, {TickerOf(i) : i \in buys})
           /\ {TickerOf(i) : i \in buys} \subseteq Ticker
           /\ {TickerOf(i) : i \in buys} \cap (held["nico"] \ sells) = {}
           /\ fills' = [i \in 1..MaxOffers |-> IF i \in buys THEN fills[i] + 1 ELSE fills[i]]
           /\ run' \in Runs
           /\ run'.pc = "valuation" /\ run'.lane = "nico" /\ run'.sells = sells
           /\ run'.buys = buys /\ run'.orders = run.orders
           /\ run'.now = run.now /\ run'.days = run.days
<1>1. PICK sells \in SUBSET (held["nico"] \cap run.priced), cut \in 1..MaxOffers + 1 :
        LET buys == {i \in Buyable(sells) : i >= cut} IN
        /\ Save("nico", sells, {TickerOf(i) : i \in buys})
        /\ fills' = [i \in 1..MaxOffers |-> IF i \in buys THEN fills[i] + 1 ELSE fills[i]]
        /\ run' = [run EXCEPT !.pc = "valuation", !.sells = sells, !.buys = buys]
  BY DEF SaveNico
<1> DEFINE buys == {i \in Buyable(sells) : i >= cut}
<1>2. /\ Save("nico", sells, {TickerOf(i) : i \in buys})
      /\ fills' = [i \in 1..MaxOffers |-> IF i \in buys THEN fills[i] + 1 ELSE fills[i]]
      /\ run' = [run EXCEPT !.pc = "valuation", !.sells = sells, !.buys = buys]
  BY <1>1
<1>3. /\ buys \subseteq run.orders
      /\ \A i \in buys : TickerOf(i) \in run.priced \ (held["nico"] \ sells)
  BY DEF Buyable
<1> HIDE DEF buys
<1>4. sells \in SUBSET held["nico"] /\ sells \in SUBSET Ticker /\ run.orders \subseteq DOMAIN offers
  BY RunParts
<1>5. {TickerOf(i) : i \in buys} \subseteq Ticker BY <1>3, RunParts
<1>6. {TickerOf(i) : i \in buys} \cap (held["nico"] \ sells) = {} BY <1>3
<1>7. run \in Runs /\ buys \subseteq DOMAIN offers BY <1>3, <1>4, Parts
<1>8. run' \in Runs BY <1>2, <1>4, <1>7 DEF Runs
<1>9. /\ run'.pc = "valuation" /\ run'.lane = run.lane /\ run'.sells = sells
      /\ run'.buys = buys /\ run'.orders = run.orders
      /\ run'.now = run.now /\ run'.days = run.days
  BY <1>2, <1>7 DEF Runs
<1>10. run.pc = "portfolio" /\ run.lane = "nico" BY DEF SaveNico
<1> QED BY <1>2, <1>3, <1>4, <1>5, <1>6, <1>8, <1>9, <1>10

LEMMA SaveAutopilotDoes ==
  ASSUME TypeInv, SaveAutopilot
  PROVE  \E sells \in SUBSET held["autopilot"], bought \in SUBSET Ticker :
           /\ run.pc = "portfolio" /\ run.lane = "autopilot"
           /\ Save("autopilot", sells, bought) /\ bought \cap held["autopilot"] = {}
           /\ UNCHANGED fills /\ run' \in Runs
           /\ run'.pc = "valuation" /\ run'.lane = "autopilot" /\ run'.sells = sells
           /\ run'.picks = bought /\ run'.buys = run.buys /\ run'.orders = run.orders
           /\ run'.now = run.now /\ run'.days = run.days
<1>1. PICK sells \in SUBSET (held["autopilot"] \cap run.priced) :
        \E bought \in SUBSET LaneBBuyable(sells) :
          /\ Save("autopilot", sells, bought)
          /\ run' = [run EXCEPT !.pc = "valuation", !.sells = sells, !.picks = bought]
  BY DEF SaveAutopilot
<1>2. PICK bought \in SUBSET LaneBBuyable(sells) :
        /\ Save("autopilot", sells, bought)
        /\ run' = [run EXCEPT !.pc = "valuation", !.sells = sells, !.picks = bought]
  BY <1>1
<1>3. run.pc = "portfolio" /\ run.lane = "autopilot" /\ UNCHANGED fills BY DEF SaveAutopilot
<1>4. /\ sells \in SUBSET held["autopilot"] /\ sells \in SUBSET Ticker
      /\ bought \in SUBSET Ticker /\ bought \cap held["autopilot"] = {}
  BY RunParts DEF LaneBBuyable
<1>5. run \in Runs BY Parts
<1>6. run' \in Runs BY <1>2, <1>4, <1>5 DEF Runs
<1>7. /\ run'.pc = "valuation" /\ run'.lane = run.lane /\ run'.sells = sells
      /\ run'.picks = bought /\ run'.buys = run.buys /\ run'.orders = run.orders
      /\ run'.now = run.now /\ run'.days = run.days
  BY <1>2, <1>5 DEF Runs
<1> QED BY <1>2, <1>3, <1>4, <1>6, <1>7

LEMMA SaveValuationDoes ==
  ASSUME TypeInv, SaveValuation
  PROVE  /\ UNCHANGED <<offers, day, held, credited, net, executed, fills, runs, crashes>>
         /\ run.pc = "valuation" /\ run' \in Runs
         /\ run'.pc = "trades" /\ run'.lane = run.lane /\ run'.sells = run.sells
         /\ run'.buys = run.buys /\ run'.picks = run.picks /\ run'.orders = run.orders
         /\ run'.now = run.now /\ run'.days = run.days
         /\ valued' \in [Lanes -> 0..MaxDay] /\ valued'[run.lane] = run.now
         /\ \A l \in Lanes \ {run.lane} : valued'[l] = valued[l]
<1>1. /\ UNCHANGED <<offers, day, held, credited, net, executed, fills, runs, crashes>>
      /\ run.pc = "valuation" /\ valued' = [valued EXCEPT ![run.lane] = run.now]
      /\ run' = [run EXCEPT !.pc = "trades"]
  BY DEF SaveValuation
<1>2. run \in Runs BY Parts
<1>3. run' \in Runs BY <1>1, <1>2 DEF Runs
<1>4. /\ run'.pc = "trades" /\ run'.lane = run.lane /\ run'.sells = run.sells
      /\ run'.buys = run.buys /\ run'.picks = run.picks /\ run'.orders = run.orders
      /\ run'.now = run.now /\ run'.days = run.days
  BY <1>1, <1>2 DEF Runs
<1>5. run.lane \in Lanes /\ run.now \in 0..MaxDay BY RunParts DEF Lanes
<1>6. /\ valued' \in [Lanes -> 0..MaxDay] /\ valued'[run.lane] = run.now
      /\ \A l \in Lanes \ {run.lane} : valued'[l] = valued[l]
  BY <1>1, <1>5, Parts
<1> QED BY <1>1, <1>3, <1>4, <1>6

LEMMA RecordTradesDoes ==
  ASSUME TypeInv, RecordTrades
  PROVE  /\ UNCHANGED <<offers, day, held, credited, valued, fills, runs, crashes>>
         /\ run.pc = "trades" /\ run' \in Runs /\ executed' = executed \cup run.buys
         /\ net' \in [Lanes -> [Ticker -> Int]]
         /\ \A t \in Ticker :
              net'[run.lane][t] = net[run.lane][t] + One(t, Bought) - One(t, run.sells)
         /\ \A l \in Lanes \ {run.lane} : net'[l] = net[l]
         /\ \/ /\ run.lane = "nico" /\ run'.pc = "portfolio" /\ run'.lane = "autopilot"
               /\ run'.orders = {} /\ run'.sells = {} /\ run'.buys = {}
               /\ run'.now = run.now /\ run'.days = run.days
            \/ run.lane = "autopilot" /\ run' = Idle
<1>1. /\ UNCHANGED <<offers, day, held, credited, valued, fills, runs, crashes>>
      /\ run.pc = "trades" /\ executed' = executed \cup run.buys
      /\ net' = [net EXCEPT ![run.lane] = [t \in Ticker |->
                   net[run.lane][t] + One(t, Bought) - One(t, run.sells)]]
  BY DEF RecordTrades, One
<1>2. run \in Runs /\ Idle \in Runs /\ run.lane \in Lanes BY Parts, IdleIsRun, RunParts DEF Lanes
<1>3. \A t \in Ticker : net[run.lane][t] + One(t, Bought) - One(t, run.sells) \in Int
  BY <1>2, Parts DEF One
<1>4. /\ net' \in [Lanes -> [Ticker -> Int]]
      /\ \A t \in Ticker :
           net'[run.lane][t] = net[run.lane][t] + One(t, Bought) - One(t, run.sells)
      /\ \A l \in Lanes \ {run.lane} : net'[l] = net[l]
  <2> DEFINE row == [t \in Ticker |-> net[run.lane][t] + One(t, Bought) - One(t, run.sells)]
  <2>1. row \in [Ticker -> Int] BY <1>3
  <2>2. \A t \in Ticker : row[t] = net[run.lane][t] + One(t, Bought) - One(t, run.sells) OBVIOUS
  <2>3. net' = [net EXCEPT ![run.lane] = row] BY <1>1
  <2> HIDE DEF row
  <2>4. net' \in [Lanes -> [Ticker -> Int]] /\ net'[run.lane] = row BY <1>2, <2>1, <2>3, Parts
  <2>5. \A l \in Lanes \ {run.lane} : net'[l] = net[l] BY <1>2, <2>3, Parts
  <2> QED BY <2>2, <2>4, <2>5
<1>5. CASE run.lane = "nico"
  <2>1. run' = [run EXCEPT !.pc = "portfolio", !.lane = "autopilot", !.orders = {}, !.sells = {},
                           !.buys = {}]
    BY <1>5 DEF RecordTrades
  <2>2. run' \in Runs BY <1>2, <2>1 DEF Runs, Lanes
  <2>3. /\ run'.pc = "portfolio" /\ run'.lane = "autopilot"
        /\ run'.orders = {} /\ run'.sells = {} /\ run'.buys = {}
        /\ run'.now = run.now /\ run'.days = run.days
    BY <1>2, <2>1 DEF Runs
  <2> QED BY <1>1, <1>4, <1>5, <2>2, <2>3
<1>6. CASE run.lane # "nico"
  <2>1. run' = Idle /\ run.lane = "autopilot" BY <1>2, <1>6 DEF RecordTrades, Lanes
  <2> QED BY <1>1, <1>2, <1>4, <2>1
<1> QED BY <1>5, <1>6

LEMMA StillDoes ==
  ASSUME TypeInv, NextDay \/ UNCHANGED vars
  PROVE  /\ UNCHANGED <<offers, storeVars, run, fills, runs, crashes>>
         /\ day' \in 1..MaxDay /\ day <= day'
BY Parts DEF NextDay, vars

LEMMA CrashDoes ==
  ASSUME TypeInv, Crash
  PROVE  /\ UNCHANGED <<offers, day, storeVars, fills, runs>>
         /\ run' = Idle /\ run' \in Runs /\ crashes' \in 1..MaxCrashes /\ crashes' = crashes + 1
<1>1. /\ UNCHANGED <<offers, day, storeVars, fills, runs>>
      /\ run' = Idle /\ crashes < MaxCrashes /\ crashes' = crashes + 1
  BY DEF Crash
<1>2. Idle \in Runs BY IdleIsRun
<1> QED BY <1>1, <1>2, Parts

LEMMA IdleParts ==
  /\ Idle.pc = "idle" /\ Idle.lane = "nico" /\ Idle.now = 0 /\ Idle.days = 0
  /\ Idle.orders = {} /\ Idle.sells = {} /\ Idle.buys = {} /\ Idle.picks = {}
BY DEF Idle

-----------------------------------------------------------------------------
(* Types.                                                                  *)

LEMMA TypeInit == Init => TypeInv
<1> SUFFICES ASSUME Init PROVE TypeInv OBVIOUS
<1>1. offers = << >> BY DEF Init, Pitches!Init
<1>2. offers \in Seq([ticker : Ticker, status : Pitches!Statuses]) BY <1>1, EmptySeq
<1>3. /\ day = 1 /\ held = [l \in Lanes |-> {}] /\ credited = [l \in Lanes |-> 0]
      /\ valued = [l \in Lanes |-> 0] /\ net = [l \in Lanes |-> [t \in Ticker |-> 0]]
      /\ executed = {} /\ run = Idle /\ fills = [i \in 1..MaxOffers |-> 0]
      /\ runs = 0 /\ crashes = 0
  BY DEF Init
<1>4. /\ MaxOffers \in Nat /\ MaxDay \in Nat \ {0} /\ MaxRuns \in Nat /\ MaxCrashes \in Nat
  BY ArenaAssumption DEF ArenaAssumption
<1>5. /\ day \in 1..MaxDay /\ runs \in 0..MaxRuns /\ crashes \in 0..MaxCrashes
      /\ valued \in [Lanes -> 0..MaxDay] /\ credited \in [Lanes -> Nat]
      /\ fills \in [1..MaxOffers -> Nat]
  BY <1>3, <1>4
<1>6. /\ held \in [Lanes -> SUBSET Ticker] /\ net \in [Lanes -> [Ticker -> Int]]
      /\ executed \subseteq DOMAIN offers
  BY <1>3
<1>7. run \in Runs BY <1>3, <1>4 DEF Runs, Idle, Lanes
<1>8. TypeOK BY <1>2, <1>5, <1>6, <1>7 DEF TypeOK, Runs
<1>9. /\ \A l \in Lanes : valued[l] <= day
      /\ run.now <= day /\ run = Idle /\ run.pc = "idle" /\ run.buys = {}
  BY <1>3, IdleParts
<1> QED BY <1>8, <1>9 DEF TypeInv

LEMMA TypeStep == TypeInv /\ [Next]_vars => TypeInv'
<1> SUFFICES ASSUME TypeInv, [Next]_vars PROVE TypeInv' OBVIOUS
<1> USE Parts
<1>1. CASE InboxStep
  <2>1. /\ offers' \in Seq([ticker : Ticker, status : Pitches!Statuses])
        /\ DOMAIN offers \subseteq DOMAIN offers'
    BY <1>1, PitchStep DEF InboxStep
  <2>2. UNCHANGED <<day, storeVars, run, fills, runs, crashes>> BY <1>1 DEF InboxStep
  <2>3. run' \in Runs' BY <2>1, <2>2 DEF Runs
  <2>4. TypeOK' BY <2>1, <2>2, <2>3 DEF TypeOK, Runs, storeVars
  <2> QED BY <2>2, <2>4 DEF TypeInv, storeVars
<1>2. CASE NextDay \/ UNCHANGED vars
  <2>1. /\ UNCHANGED <<offers, storeVars, run, fills, runs, crashes>>
        /\ day' \in 1..MaxDay /\ day <= day'
    BY <1>2, StillDoes
  <2>2. TypeOK' BY <2>1 DEF TypeOK, Runs, storeVars
  <2>3. \A l \in Lanes : valued'[l] <= day' BY <2>1 DEF TypeInv, storeVars
  <2>4. run'.now <= day' BY <2>1, RunParts DEF TypeInv
  <2> QED BY <2>1, <2>2, <2>3, <2>4 DEF TypeInv
<1>3. CASE Start
  <2>1. /\ run' \in Runs /\ run'.pc = "portfolio" /\ run'.buys = {} /\ run'.now = day
        /\ UNCHANGED <<offers, day, storeVars, fills, crashes>> /\ runs' \in 0..MaxRuns
    BY <1>3, StartDoes
  <2>2. TypeOK' BY <2>1 DEF TypeOK, Runs, storeVars
  <2>3. \A l \in Lanes : valued'[l] <= day' BY <2>1 DEF TypeInv, storeVars
  <2>4. run'.now <= day' /\ run'.now > 0 BY <2>1
  <2> QED BY <2>1, <2>2, <2>3, <2>4 DEF TypeInv
<1>4. CASE SaveNico
  <2>1. PICK sells \in SUBSET held["nico"], buys \in SUBSET run.orders :
          /\ run.pc = "portfolio" /\ run.lane = "nico"
          /\ Save("nico", sells, {TickerOf(i) : i \in buys})
          /\ {TickerOf(i) : i \in buys} \subseteq Ticker
          /\ fills' = [i \in 1..MaxOffers |-> IF i \in buys THEN fills[i] + 1 ELSE fills[i]]
          /\ run' \in Runs /\ run'.pc = "valuation" /\ run'.now = run.now
    BY <1>4, SaveNicoDoes
  <2>2. /\ UNCHANGED <<offers, day, valued, net, executed, runs, crashes>>
        /\ held' \in [Lanes -> SUBSET Ticker] /\ credited' \in [Lanes -> Nat]
    BY <2>1, SaveDoes
  <2>3. fills' \in [1..MaxOffers -> Nat] BY <2>1
  <2>4. TypeOK' BY <2>1, <2>2, <2>3 DEF TypeOK, Runs
  <2>5. run'.now > 0 BY <2>1 DEF TypeInv
  <2> QED BY <2>1, <2>2, <2>4, <2>5 DEF TypeInv
<1>5. CASE SaveAutopilot
  <2>1. PICK sells \in SUBSET held["autopilot"], bought \in SUBSET Ticker :
          /\ run.pc = "portfolio" /\ run.lane = "autopilot"
          /\ Save("autopilot", sells, bought) /\ UNCHANGED fills
          /\ run' \in Runs /\ run'.pc = "valuation" /\ run'.now = run.now
    BY <1>5, SaveAutopilotDoes
  <2>2. /\ UNCHANGED <<offers, day, valued, net, executed, runs, crashes>>
        /\ held' \in [Lanes -> SUBSET Ticker] /\ credited' \in [Lanes -> Nat]
    BY <2>1, SaveDoes
  <2>3. TypeOK' BY <2>1, <2>2 DEF TypeOK, Runs
  <2>4. run'.now > 0 BY <2>1 DEF TypeInv
  <2> QED BY <2>1, <2>2, <2>3, <2>4 DEF TypeInv
<1>6. CASE SaveValuation
  <2>1. /\ UNCHANGED <<offers, day, held, credited, net, executed, fills, runs, crashes>>
        /\ run.pc = "valuation" /\ run' \in Runs /\ run'.pc = "trades" /\ run'.now = run.now
        /\ valued' \in [Lanes -> 0..MaxDay] /\ valued'[run.lane] = run.now
        /\ \A l \in Lanes \ {run.lane} : valued'[l] = valued[l]
    BY <1>6, SaveValuationDoes
  <2>2. TypeOK' BY <2>1 DEF TypeOK, Runs
  <2>3. run.now <= day /\ run.now > 0 BY <2>1 DEF TypeInv
  <2>4. \A l \in Lanes : valued'[l] <= day'
    <3> TAKE l \in Lanes
    <3>1. CASE l = run.lane BY <2>1, <2>3, <3>1
    <3>2. CASE l # run.lane BY <2>1, <3>2 DEF TypeInv
    <3> QED BY <3>1, <3>2
  <2> QED BY <2>1, <2>2, <2>3, <2>4 DEF TypeInv
<1>7. CASE RecordTrades
  <2>1. /\ UNCHANGED <<offers, day, held, credited, valued, fills, runs, crashes>>
        /\ run.pc = "trades" /\ run' \in Runs /\ executed' = executed \cup run.buys
        /\ net' \in [Lanes -> [Ticker -> Int]]
        /\ \/ run'.pc = "portfolio" /\ run'.buys = {} /\ run'.now = run.now
           \/ run' = Idle
    BY <1>7, RecordTradesDoes
  <2>2. executed' \subseteq DOMAIN offers' BY <2>1, RunParts
  <2>3. TypeOK' BY <2>1, <2>2 DEF TypeOK, Runs
  <2>4. CASE run' = Idle
    <3>1. run'.pc = "idle" /\ run'.now = 0 /\ run'.buys = {} BY <2>4, IdleParts
    <3> QED BY <2>1, <2>3, <2>4, <3>1 DEF TypeInv
  <2>5. CASE run'.pc = "portfolio" /\ run'.buys = {} /\ run'.now = run.now
    <3>1. run'.now > 0 BY <2>1, <2>5 DEF TypeInv
    <3> QED BY <2>1, <2>3, <2>5, <3>1 DEF TypeInv
  <2> QED BY <2>1, <2>4, <2>5
<1>8. CASE Crash
  <2>1. /\ UNCHANGED <<offers, day, storeVars, fills, runs>>
        /\ run' = Idle /\ run' \in Runs /\ crashes' \in 0..MaxCrashes
    BY <1>8, CrashDoes
  <2>2. TypeOK' BY <2>1 DEF TypeOK, Runs, storeVars
  <2>3. run'.pc = "idle" /\ run'.now = 0 /\ run'.buys = {} BY <2>1, IdleParts
  <2> QED BY <2>1, <2>2, <2>3 DEF TypeInv, storeVars
<1> QED BY <1>1, <1>2, <1>3, <1>4, <1>5, <1>6, <1>7, <1>8 DEF Next, RunStep

(* Types: every value of every variable and of the run in progress is of   *)
(* its kind, no valuation and no run is dated ahead of the day, and a dead *)
(* process leaves no run behind.                                           *)
THEOREM TypeCorrect == Spec => []TypeOK
<1>1. TypeInv => TypeOK BY DEF TypeInv
<1> QED BY <1>1, TypeInit, TypeStep, PTL DEF Spec

-----------------------------------------------------------------------------
(* An approved pitch is bought once.                                       *)

LEMMA FillKept ==
  ASSUME TypeInv, ApprovedInv, UNCHANGED <<offers, fills, crashes>>,
         executed' \cup run'.buys = executed \cup run.buys
  PROVE  \A i \in 1..MaxOffers : FillInv(i)'
BY DEF ApprovedInv, FillInv

LEMMA OrderKept ==
  ASSUME ApprovedInv, UNCHANGED <<offers, executed>>, run'.orders \subseteq run.orders
  PROVE  \A i \in run'.orders : OrderInv(i)'
BY DEF ApprovedInv, OrderInv

LEMMA ApprovedStep == TypeInv /\ ApprovedInv /\ [Next]_vars => ApprovedInv'
<1> SUFFICES ASSUME TypeInv, ApprovedInv, [Next]_vars PROVE ApprovedInv' OBVIOUS
<1>1. CASE InboxStep
  <2>1. /\ UNCHANGED <<executed, run, fills, crashes>> /\ run.orders \subseteq DOMAIN offers
        /\ DOMAIN offers \subseteq DOMAIN offers'
        /\ \A i \in DOMAIN offers : offers[i].status = "buy" => offers'[i].status = "buy"
    BY <1>1, PitchStep, RunParts DEF InboxStep, storeVars
  <2>2. \A i \in 1..MaxOffers : FillInv(i)' BY <2>1 DEF ApprovedInv, FillInv
  <2>3. \A i \in run'.orders : OrderInv(i)' BY <2>1 DEF ApprovedInv, OrderInv
  <2> QED BY <2>2, <2>3 DEF ApprovedInv
<1>2. CASE NextDay \/ UNCHANGED vars
  <2>1. UNCHANGED <<offers, executed, run, fills, crashes>>
    BY <1>2, StillDoes DEF storeVars
  <2> QED BY <2>1, FillKept, OrderKept DEF ApprovedInv
<1>3. CASE Start
  <2>1. /\ run.pc = "idle" /\ run'.orders = LaneAOrders /\ run'.buys = {}
        /\ UNCHANGED <<offers, executed, fills, crashes>>
    BY <1>3, StartDoes DEF storeVars
  <2>2. run.buys = {} BY <2>1, IdleParts DEF TypeInv
  <2>3. \A i \in run'.orders : OrderInv(i)' BY <2>1 DEF OrderInv, LaneAOrders
  <2> QED BY <2>1, <2>2, <2>3, FillKept DEF ApprovedInv
<1>4. CASE SaveNico
  <2>1. PICK sells \in SUBSET held["nico"], buys \in SUBSET run.orders :
          /\ run.pc = "portfolio" /\ Save("nico", sells, {TickerOf(i) : i \in buys})
          /\ fills' = [i \in 1..MaxOffers |-> IF i \in buys THEN fills[i] + 1 ELSE fills[i]]
          /\ run'.buys = buys /\ run'.orders = run.orders
    BY <1>4, SaveNicoDoes
  <2>2. UNCHANGED <<offers, executed, crashes>> BY <2>1 DEF Save
  <2>3. run.buys = {} /\ run.orders \subseteq DOMAIN offers BY <2>1, RunParts DEF TypeInv
  <2>4. crashes \in Nat BY Parts
  <2>5. ASSUME NEW i \in 1..MaxOffers PROVE FillInv(i)'
    <3>1. fills[i] \in Nat BY Parts
    <3>2. FillInv(i) BY DEF ApprovedInv
    <3>3. CASE i \in buys
      <4>1. i \in DOMAIN offers /\ offers[i].status = "buy" /\ i \notin executed
        BY <2>3, <3>3 DEF ApprovedInv, OrderInv
      <4>2. fills[i] <= crashes BY <2>3, <2>4, <3>1, <3>2, <4>1 DEF FillInv
      <4>3. fills'[i] = fills[i] + 1 /\ i \in executed' \cup run'.buys BY <2>1, <3>3
      <4>4. fills'[i] <= crashes + 1 BY <2>4, <3>1, <4>2, <4>3
      <4> QED BY <2>2, <4>1, <4>3, <4>4 DEF FillInv
    <3>4. CASE i \notin buys
      <4>1. fills'[i] = fills[i] BY <2>1, <3>4
      <4>2. i \in executed' \cup run'.buys <=> i \in executed \cup run.buys
        BY <2>1, <2>2, <2>3, <3>4
      <4> QED BY <2>2, <3>2, <4>1, <4>2 DEF FillInv
    <3> QED BY <3>3, <3>4
  <2>6. \A i \in run'.orders : OrderInv(i)' BY <2>1, <2>2, OrderKept
  <2> QED BY <2>5, <2>6 DEF ApprovedInv
<1>5. CASE SaveAutopilot
  <2>1. PICK sells \in SUBSET held["autopilot"], bought \in SUBSET Ticker :
          /\ Save("autopilot", sells, bought) /\ UNCHANGED fills
          /\ run'.buys = run.buys /\ run'.orders = run.orders
    BY <1>5, SaveAutopilotDoes
  <2>2. UNCHANGED <<offers, executed, crashes>> BY <2>1 DEF Save
  <2> QED BY <2>1, <2>2, FillKept, OrderKept DEF ApprovedInv
<1>6. CASE SaveValuation
  <2>1. /\ UNCHANGED <<offers, executed, fills, crashes>>
        /\ run'.buys = run.buys /\ run'.orders = run.orders
    BY <1>6, SaveValuationDoes
  <2> QED BY <2>1, FillKept, OrderKept DEF ApprovedInv
<1>7. CASE RecordTrades
  <2>1. UNCHANGED <<offers, fills, crashes>> /\ executed' = executed \cup run.buys
    BY <1>7, RecordTradesDoes
  <2>2. run'.orders = {} /\ run'.buys = {} BY <1>7, RecordTradesDoes, IdleParts
  <2> QED BY <2>1, <2>2, FillKept DEF ApprovedInv
<1>8. CASE Crash
  <2>1. UNCHANGED <<offers, executed, fills>> /\ run' = Idle /\ crashes' = crashes + 1
    BY <1>8, CrashDoes DEF storeVars
  <2>2. run'.orders = {} BY <2>1, IdleParts
  <2>3. crashes \in Nat BY Parts
  <2>4. ASSUME NEW i \in 1..MaxOffers PROVE FillInv(i)'
    <3>1. fills[i] \in Nat /\ FillInv(i) BY Parts DEF ApprovedInv
    <3>2. fills[i] <= crashes + 1 BY <2>3, <3>1 DEF FillInv
    <3>3. fills'[i] <= crashes' /\ crashes' # 0 BY <2>1, <2>3, <3>2
    <3>4. fills'[i] <= crashes' + (IF i \in (executed \cup run.buys)' THEN 1 ELSE 0)
      BY <2>1, <2>3, <3>1, <3>3
    <3> QED BY <2>1, <3>1, <3>3, <3>4 DEF FillInv
  <2> QED BY <2>2, <2>4 DEF ApprovedInv
<1> QED BY <1>1, <1>2, <1>3, <1>4, <1>5, <1>6, <1>7, <1>8 DEF Next, RunStep

LEMMA ApprovedInit == Init => ApprovedInv
<1> SUFFICES ASSUME Init PROVE ApprovedInv OBVIOUS
<1>1. /\ run = Idle /\ executed = {} /\ crashes = 0 /\ fills = [i \in 1..MaxOffers |-> 0]
  BY DEF Init
<1>2. run.orders = {} /\ run.buys = {} BY <1>1, IdleParts
<1> QED BY <1>1, <1>2 DEF ApprovedInv, FillInv

(* A pitch is bought into the portfolio only once approved, at most once   *)
(* more than the lane's runs crashed, and without a crash never without    *)
(* its executed marker.  What makes it inductive: an order of the run in   *)
(* progress is approved and not executed, and a buy whose trades are not   *)
(* recorded yet counts as executed.                                        *)
THEOREM BoughtOnce == Spec => []ApprovedOnce
<1>1. TypeInv /\ ApprovedInv => ApprovedOnce
  <2> SUFFICES ASSUME TypeInv, ApprovedInv, NEW i \in 1..MaxOffers
               PROVE  /\ fills[i] > 0 => i \in DOMAIN offers /\ offers[i].status = "buy"
                      /\ fills[i] <= 1 + crashes
                      /\ fills[i] > 0 /\ run.pc = "idle" /\ crashes = 0 => i \in executed
    BY DEF ApprovedOnce
  <2>1. fills[i] \in Nat /\ crashes \in Nat /\ FillInv(i) BY Parts DEF ApprovedInv
  <2>2. fills[i] <= 1 + crashes BY <2>1 DEF FillInv
  <2>3. run.pc = "idle" => run.buys = {} BY IdleParts DEF TypeInv
  <2> QED BY <2>1, <2>2, <2>3 DEF FillInv
<1> QED BY <1>1, TypeInit, TypeStep, ApprovedInit, ApprovedStep, PTL DEF Spec

-----------------------------------------------------------------------------
(* The trades add up to the portfolios.                                    *)

LEMMA OneSave ==
  ASSUME NEW H, NEW S \in SUBSET H, NEW B, B \cap (H \ S) = {}, NEW t
  PROVE  One(t, (H \ S) \cup B) = One(t, H) + (One(t, B) - One(t, S))
BY DEF One

\* The inbox changes nothing of what the run in progress bought.
LEMMA BoughtKept ==
  ASSUME TypeInv, InboxStep
  PROVE  /\ UNCHANGED <<held, credited, valued, net, executed, run, fills, crashes>>
         /\ \A i \in DOMAIN offers : TickerOf(i)' = TickerOf(i)
         /\ Bought' = Bought
<1>1. /\ UNCHANGED <<held, credited, valued, net, executed, run, fills, crashes>>
      /\ \A i \in DOMAIN offers : offers'[i].ticker = offers[i].ticker
  BY PitchStep DEF InboxStep, storeVars
<1>2. \A i \in DOMAIN offers : TickerOf(i)' = TickerOf(i) BY <1>1 DEF TickerOf
<1>3. run.buys \subseteq DOMAIN offers BY RunParts
<1>4. {TickerOf(i)' : i \in run'.buys} = {TickerOf(i) : i \in run.buys} BY <1>1, <1>2, <1>3
<1> QED BY <1>1, <1>2, <1>4 DEF Bought

\* One lane has saved its portfolio, and no trades were pending before.
LEMMA AuditSave ==
  ASSUME TypeInv, AuditInv, NEW l \in Lanes, NEW sells \in SUBSET held[l], NEW bought \in SUBSET Ticker,
         Save(l, sells, bought), bought \cap (held[l] \ sells) = {},
         run.pc = "portfolio", run'.pc = "valuation", run'.lane = l, run'.sells = sells,
         Bought' = bought
  PROVE  AuditInv'
<1> SUFFICES ASSUME crashes' = 0, NEW m \in Lanes, NEW t \in Ticker
             PROVE  net'[m][t] + Pending(m, t)' = One(t, held'[m])
  BY DEF AuditInv, One, Pending
<1>1. /\ UNCHANGED <<net, crashes>> /\ held'[l] = (held[l] \ sells) \cup bought
      /\ \A k \in Lanes \ {l} : held'[k] = held[k]
  BY SaveDoes
<1>2. net[m][t] \in Int BY Parts
<1>3. Pending(m, t) = 0 BY DEF Pending
<1>4. net[m][t] = One(t, held[m]) BY <1>1, <1>2, <1>3 DEF AuditInv
<1>5. CASE m = l
  <2>1. Pending(m, t)' = One(t, bought) - One(t, sells) BY <1>5 DEF Pending, One
  <2>2. One(t, held'[l]) = One(t, held[l]) + (One(t, bought) - One(t, sells)) BY <1>1, OneSave
  <2> QED BY <1>1, <1>4, <1>5, <2>1, <2>2
<1>6. CASE m # l
  <2>1. Pending(m, t)' = 0 BY <1>6 DEF Pending
  <2> QED BY <1>1, <1>2, <1>4, <1>6, <2>1
<1> QED BY <1>5, <1>6

LEMMA AuditStep == TypeInv /\ AuditInv /\ [Next]_vars => AuditInv'
<1> SUFFICES ASSUME TypeInv, AuditInv, [Next]_vars PROVE AuditInv' OBVIOUS
<1>1. CASE InboxStep
  <2>1. UNCHANGED <<held, net, run, crashes>> /\ Bought' = Bought BY <1>1, BoughtKept
  <2> QED BY <2>1 DEF AuditInv, Pending, One
<1>2. CASE NextDay \/ UNCHANGED vars
  <2>1. UNCHANGED <<offers, held, net, run, crashes>> BY <1>2, StillDoes DEF storeVars
  <2>2. Bought' = Bought BY <2>1 DEF Bought, TickerOf
  <2> QED BY <2>1, <2>2 DEF AuditInv, Pending, One
<1>3. CASE Start
  <2>1. UNCHANGED <<held, net, crashes>> /\ run.pc = "idle" /\ run'.pc = "portfolio"
    BY <1>3, StartDoes DEF storeVars
  <2>2. \A l \in Lanes, t \in Ticker : Pending(l, t) = 0 /\ Pending(l, t)' = 0
    BY <2>1 DEF Pending
  <2> QED BY <2>1, <2>2 DEF AuditInv, One
<1>4. CASE SaveNico
  <2>1. PICK sells \in SUBSET held["nico"], buys \in SUBSET run.orders :
          /\ run.pc = "portfolio" /\ Save("nico", sells, {TickerOf(i) : i \in buys})
          /\ {TickerOf(i) : i \in buys} \subseteq Ticker
          /\ {TickerOf(i) : i \in buys} \cap (held["nico"] \ sells) = {}
          /\ run'.pc = "valuation" /\ run'.lane = "nico" /\ run'.sells = sells /\ run'.buys = buys
    BY <1>4, SaveNicoDoes
  <2>2. Bought' = {TickerOf(i) : i \in buys} BY <2>1 DEF Bought, TickerOf, Save
  <2>3. "nico" \in Lanes BY DEF Lanes
  <2> QED BY <2>1, <2>2, <2>3, AuditSave
<1>5. CASE SaveAutopilot
  <2>1. PICK sells \in SUBSET held["autopilot"], bought \in SUBSET Ticker :
          /\ run.pc = "portfolio" /\ Save("autopilot", sells, bought)
          /\ bought \cap held["autopilot"] = {}
          /\ run'.pc = "valuation" /\ run'.lane = "autopilot" /\ run'.sells = sells
          /\ run'.picks = bought
    BY <1>5, SaveAutopilotDoes
  <2>2. Bought' = bought BY <2>1 DEF Bought
  <2>3. "autopilot" \in Lanes /\ bought \cap (held["autopilot"] \ sells) = {} BY <2>1 DEF Lanes
  <2> QED BY <2>1, <2>2, <2>3, AuditSave
<1>6. CASE SaveValuation
  <2>1. /\ UNCHANGED <<offers, held, net, crashes>> /\ run.pc = "valuation" /\ run'.pc = "trades"
        /\ run'.lane = run.lane /\ run'.sells = run.sells /\ run'.buys = run.buys
        /\ run'.picks = run.picks
    BY <1>6, SaveValuationDoes
  <2>2. Bought' = Bought BY <2>1 DEF Bought, TickerOf
  <2>3. \A l \in Lanes, t \in Ticker : Pending(l, t)' = Pending(l, t)
    BY <2>1, <2>2 DEF Pending, One
  <2> QED BY <2>1, <2>3 DEF AuditInv, One
<1>7. CASE RecordTrades
  <2>1. /\ UNCHANGED <<held, crashes>> /\ run.pc = "trades"
        /\ \A t \in Ticker :
             net'[run.lane][t] = net[run.lane][t] + One(t, Bought) - One(t, run.sells)
        /\ \A l \in Lanes \ {run.lane} : net'[l] = net[l]
        /\ run'.pc \in {"portfolio", "idle"}
    BY <1>7, RecordTradesDoes, IdleParts
  <2>2. SUFFICES ASSUME crashes' = 0, NEW l \in Lanes, NEW t \in Ticker
                 PROVE  net'[l][t] + Pending(l, t)' = One(t, held'[l])
    BY DEF AuditInv, One, Pending
  <2>3. Pending(l, t)' = 0 BY <2>1 DEF Pending
  <2>4. net[l][t] + Pending(l, t) = One(t, held[l]) BY <2>1, <2>2 DEF AuditInv
  <2>5. net[l][t] \in Int BY Parts
  <2>6. CASE l = run.lane
    <3>1. Pending(l, t) = One(t, Bought) - One(t, run.sells) BY <2>1, <2>6 DEF Pending
    <3>2. One(t, Bought) \in Int /\ One(t, run.sells) \in Int BY DEF One
    <3>3. net'[l][t] = One(t, held[l]) BY <2>1, <2>4, <2>5, <2>6, <3>1, <3>2
    <3>4. One(t, held[l]) \in Int BY DEF One
    <3> QED BY <2>1, <2>3, <3>3, <3>4
  <2>7. CASE l # run.lane
    <3>1. Pending(l, t) = 0 BY <2>7 DEF Pending
    <3> QED BY <2>1, <2>3, <2>4, <2>7, <3>1
  <2> QED BY <2>6, <2>7
<1>8. CASE Crash
  <2>1. crashes' # 0 BY <1>8, CrashDoes
  <2> QED BY <2>1 DEF AuditInv
<1> QED BY <1>1, <1>2, <1>3, <1>4, <1>5, <1>6, <1>7, <1>8 DEF Next, RunStep

LEMMA AuditInit == Init => AuditInv
<1> SUFFICES ASSUME Init PROVE AuditInv OBVIOUS
<1>1. /\ run = Idle /\ held = [l \in Lanes |-> {}]
      /\ net = [l \in Lanes |-> [t \in Ticker |-> 0]]
  BY DEF Init
<1>2. run.pc = "idle" BY <1>1, IdleParts
<1>3. \A l \in Lanes, t \in Ticker : net[l][t] = 0 /\ One(t, held[l]) = 0 /\ Pending(l, t) = 0
  BY <1>1, <1>2 DEF One, Pending
<1> QED BY <1>3 DEF AuditInv

(* Without a crash the recorded trades of a lane add up to what it holds   *)
(* after every run.  In the course of a run the trades still to be         *)
(* recorded make up the difference, and each counts once, because a run    *)
(* sells only what is held and buys only what is not held any more.        *)
THEOREM TradesAddUp == Spec => []AuditTrail
<1>1. TypeInv /\ AuditInv => AuditTrail
  <2> SUFFICES ASSUME TypeInv, AuditInv, run.pc = "idle", crashes = 0,
                      NEW l \in Lanes, NEW t \in Ticker
               PROVE  net[l][t] = IF t \in held[l] THEN 1 ELSE 0
    BY DEF AuditTrail
  <2>1. Pending(l, t) = 0 /\ net[l][t] \in Int BY Parts DEF Pending
  <2>2. net[l][t] + Pending(l, t) = One(t, held[l]) BY DEF AuditInv
  <2> QED BY <2>1, <2>2 DEF One
<1> QED BY <1>1, TypeInit, TypeStep, AuditInit, AuditStep, PTL DEF Spec

-----------------------------------------------------------------------------
(* No exit is undone.                                                      *)

LEMMA HeldKept ==
  ASSUME TypeInv, TripInv, UNCHANGED <<crashes, offers>>, held'["nico"] = held["nico"],
         executed' \cup run'.buys = executed \cup run.buys
  PROVE  HeldBought'
BY DEF TripInv, HeldBought, TickerOf

LEMMA TripStep == TypeInv /\ ApprovedInv /\ TripInv /\ [Next]_vars => TripInv'
<1> SUFFICES ASSUME TypeInv, ApprovedInv, TripInv, [Next]_vars PROVE TripInv' OBVIOUS
<1>1. CASE InboxStep
  <2>1. /\ UNCHANGED <<held, executed, run, crashes>>
        /\ \A i \in DOMAIN offers : TickerOf(i)' = TickerOf(i)
    BY <1>1, BoughtKept
  <2>2. run.buys \subseteq DOMAIN offers /\ executed \subseteq DOMAIN offers BY Parts, RunParts
  <2>3. HeldBought' BY <2>1, <2>2 DEF TripInv, HeldBought
  <2>4. NoRoundTrip' BY <2>1, <2>2 DEF TripInv, NoRoundTrip
  <2> QED BY <2>3, <2>4 DEF TripInv
<1>2. CASE NextDay \/ UNCHANGED vars
  <2>1. UNCHANGED <<offers, held, executed, run, crashes>> BY <1>2, StillDoes DEF storeVars
  <2> QED BY <2>1 DEF TripInv, NoRoundTrip, HeldBought, TickerOf
<1>3. CASE Start
  <2>1. /\ run.pc = "idle" /\ run'.pc = "portfolio" /\ run'.lane = "nico" /\ run'.buys = {}
        /\ UNCHANGED <<offers, held, executed, crashes>>
    BY <1>3, StartDoes DEF storeVars
  <2>2. run.buys = {} BY <2>1, IdleParts DEF TypeInv
  <2>3. HeldBought' BY <2>1, <2>2, HeldKept
  <2> QED BY <2>1, <2>3 DEF TripInv, NoRoundTrip
<1>4. CASE SaveNico
  <2>1. PICK sells \in SUBSET held["nico"], buys \in SUBSET run.orders :
          /\ run.pc = "portfolio" /\ Save("nico", sells, {TickerOf(i) : i \in buys})
          /\ {TickerOf(i) : i \in buys} \subseteq Ticker
          /\ run'.pc = "valuation" /\ run'.lane = "nico" /\ run'.sells = sells /\ run'.buys = buys
    BY <1>4, SaveNicoDoes
  <2>2. /\ UNCHANGED <<offers, executed, crashes>>
        /\ held'["nico"] = (held["nico"] \ sells) \cup {TickerOf(i) : i \in buys}
    BY <2>1, SaveDoes, Parts
  <2>3. run.buys = {} /\ crashes \in Nat BY <2>1, Parts DEF TypeInv
  <2>4. \A i \in DOMAIN offers' \cup buys \cup executed : TickerOf(i)' = TickerOf(i) BY <2>2 DEF TickerOf
  <2>5. HeldBought' BY <2>1, <2>2, <2>3, <2>4 DEF TripInv, HeldBought
  <2>6. ASSUME NEW i \in buys, TickerOf(i) \in sells, ~(crashes > 0)
        PROVE  \E j \in executed : j # i /\ TickerOf(j) = TickerOf(i)
    <3>1. i \notin executed BY DEF ApprovedInv, OrderInv
    <3>2. crashes = 0 BY <2>3, <2>6
    <3>3. PICK j \in executed \cup run.buys : TickerOf(j) = TickerOf(i)
      BY <2>6, <3>2 DEF TripInv, HeldBought
    <3> QED BY <2>3, <3>1, <3>3
  <2>7. NoRoundTrip' BY <2>1, <2>2, <2>4, <2>6 DEF NoRoundTrip
  <2> QED BY <2>5, <2>7 DEF TripInv
<1>5. CASE SaveAutopilot
  <2>1. PICK sells \in SUBSET held["autopilot"], bought \in SUBSET Ticker :
          /\ run.pc = "portfolio" /\ run.lane = "autopilot" /\ Save("autopilot", sells, bought)
          /\ bought \cap held["autopilot"] = {}
          /\ run'.sells = sells /\ run'.picks = bought /\ run'.buys = run.buys
    BY <1>5, SaveAutopilotDoes
  <2>2. UNCHANGED <<offers, executed, crashes>> /\ held'["nico"] = held["nico"]
    BY <2>1, SaveDoes, Parts
  <2>3. run.buys = {} BY <2>1 DEF TypeInv
  <2>4. HeldBought' BY <2>1, <2>2, HeldKept
  <2>5. NoRoundTrip' BY <2>1, <2>3 DEF NoRoundTrip
  <2> QED BY <2>4, <2>5 DEF TripInv
<1>6. CASE SaveValuation
  <2>1. /\ UNCHANGED <<offers, held, executed, crashes>> /\ run.pc = "valuation"
        /\ run'.lane = run.lane /\ run'.sells = run.sells
        /\ run'.buys = run.buys /\ run'.picks = run.picks
    BY <1>6, SaveValuationDoes
  <2>2. HeldBought' BY <2>1, HeldKept
  <2>3. NoRoundTrip' BY <2>1 DEF TripInv, NoRoundTrip, TickerOf
  <2> QED BY <2>2, <2>3 DEF TripInv
<1>7. CASE RecordTrades
  <2>1. /\ UNCHANGED <<offers, held, crashes>> /\ executed' = executed \cup run.buys
        /\ run'.buys = {} /\ run'.pc \in {"portfolio", "idle"}
    BY <1>7, RecordTradesDoes, IdleParts
  <2>2. HeldBought' BY <2>1, HeldKept
  <2>3. NoRoundTrip' BY <2>1 DEF NoRoundTrip
  <2> QED BY <2>2, <2>3 DEF TripInv
<1>8. CASE Crash
  <2>1. crashes' # 0 /\ run' = Idle BY <1>8, CrashDoes
  <2>2. run'.pc = "idle" /\ run'.buys = {} BY <2>1, IdleParts
  <2> QED BY <2>1, <2>2 DEF TripInv, NoRoundTrip, HeldBought
<1> QED BY <1>1, <1>2, <1>3, <1>4, <1>5, <1>6, <1>7, <1>8 DEF Next, RunStep

LEMMA TripInit == Init => TripInv
<1> SUFFICES ASSUME Init PROVE TripInv OBVIOUS
<1>1. run = Idle /\ held = [l \in Lanes |-> {}] /\ "nico" \in Lanes BY DEF Init, Lanes
<1>2. run.pc = "idle" /\ run.buys = {} /\ held["nico"] = {} BY <1>1, IdleParts
<1> QED BY <1>2 DEF TripInv, NoRoundTrip, HeldBought

(* What a run sells it does not buy back: the autopilot lane never, lane   *)
(* nico only on another approved pitch for the ticker, because what it     *)
(* holds stands for a pitch that is executed and so orders nothing.        *)
THEOREM NothingUndone == Spec => []NoRoundTrip
<1>1. TripInv => NoRoundTrip BY DEF TripInv
<1> QED
  BY <1>1, TypeInit, TypeStep, ApprovedInit, ApprovedStep, TripInit, TripStep, PTL DEF Spec

-----------------------------------------------------------------------------
(* Both lanes are credited the same days.                                  *)

LEMMA Numbers ==
  ASSUME TypeInv
  PROVE  /\ credited["nico"] \in Nat /\ credited["autopilot"] \in Nat
         /\ valued["nico"] \in Nat /\ valued["autopilot"] \in Nat
         /\ run.now \in Nat /\ run.days \in Nat /\ crashes \in Nat
<1>1. \A l \in Lanes : credited[l] \in Nat /\ valued[l] \in 0..MaxDay BY Parts
<1> QED BY <1>1, RunParts, Parts

LEMMA SpanKept ==
  ASSUME SpanInv, UNCHANGED <<credited, valued, run, crashes>>
  PROVE  SpanInv'
BY DEF SpanInv, Level, Ahead, Span, Since

LEMMA SpanStep == TypeInv /\ SpanInv /\ [Next]_vars => SpanInv'
<1> SUFFICES ASSUME TypeInv, SpanInv, [Next]_vars PROVE SpanInv' OBVIOUS
<1> USE Numbers
<1>1. CASE InboxStep
  <2>1. UNCHANGED <<credited, valued, run, crashes>> BY <1>1, BoughtKept
  <2> QED BY <2>1, SpanKept
<1>2. CASE NextDay \/ UNCHANGED vars
  <2>1. UNCHANGED <<credited, valued, run, crashes>> BY <1>2, StillDoes DEF storeVars
  <2> QED BY <2>1, SpanKept
<1>3. CASE Start
  <2>1. /\ run.pc = "idle" /\ run'.pc = "portfolio" /\ run'.lane = "nico"
        /\ run'.now = day /\ run'.days = DaysSinceLastRun
        /\ UNCHANGED <<credited, valued, crashes>>
    BY <1>3, StartDoes DEF storeVars
  <2>2. SUFFICES ASSUME crashes = 0 PROVE SpanInv' BY <2>1 DEF SpanInv
  <2>3. Level /\ credited["nico"] = credited["autopilot"] BY <2>1, <2>2 DEF SpanInv
  <2>4. Level' BY <2>1, <2>3 DEF Level, Span
  <2>5. run'.days = Since(valued["nico"])'
    BY <2>1, <2>3 DEF Since, DaysSinceLastRun, LastValued, Level
  <2>6. valued'["nico"] <= run'.now
    <3>1. "nico" \in Lanes BY DEF Lanes
    <3> QED BY <2>1, <3>1 DEF TypeInv
  <2> QED BY <2>1, <2>3, <2>4, <2>5, <2>6 DEF SpanInv
<1>4. CASE SaveNico
  <2>1. PICK sells \in SUBSET held["nico"], buys \in SUBSET run.orders :
          /\ run.pc = "portfolio" /\ run.lane = "nico"
          /\ Save("nico", sells, {TickerOf(i) : i \in buys})
          /\ {TickerOf(i) : i \in buys} \subseteq Ticker
          /\ run'.pc = "valuation" /\ run'.lane = "nico"
          /\ run'.now = run.now /\ run'.days = run.days
    BY <1>4, SaveNicoDoes
  <2>2. /\ UNCHANGED <<valued, crashes>> /\ credited'["nico"] = credited["nico"] + run.days
        /\ credited'["autopilot"] = credited["autopilot"]
    BY <2>1, SaveDoes, Parts
  <2>3. SUFFICES ASSUME crashes = 0 PROVE SpanInv' BY <2>2 DEF SpanInv
  <2>4. /\ Level /\ run.days = Since(valued["nico"]) /\ valued["nico"] <= run.now
        /\ credited["nico"] = credited["autopilot"] + 0
    BY <2>1, <2>3 DEF SpanInv
  <2>5. Level' BY <2>2, <2>4 DEF Level, Span
  <2>6. run'.days = Since(valued["nico"])' /\ valued'["nico"] <= run'.now
    BY <2>1, <2>2, <2>4 DEF Since
  <2>7. credited'["nico"] = credited'["autopilot"] + run'.days BY <2>1, <2>2, <2>4
  <2> QED BY <2>1, <2>5, <2>6, <2>7 DEF SpanInv
<1>5. CASE SaveAutopilot
  <2>1. PICK sells \in SUBSET held["autopilot"], bought \in SUBSET Ticker :
          /\ run.pc = "portfolio" /\ run.lane = "autopilot" /\ Save("autopilot", sells, bought)
          /\ run'.pc = "valuation" /\ run'.lane = "autopilot"
          /\ run'.now = run.now /\ run'.days = run.days
    BY <1>5, SaveAutopilotDoes
  <2>2. /\ UNCHANGED <<valued, crashes>> /\ credited'["nico"] = credited["nico"]
        /\ credited'["autopilot"] = credited["autopilot"] + run.days
    BY <2>1, SaveDoes, Parts
  <2>3. SUFFICES ASSUME crashes = 0 PROVE SpanInv' BY <2>2 DEF SpanInv
  <2>4. /\ Ahead /\ credited["nico"] = credited["autopilot"] + run.days
        /\ valued["nico"] <= run.now
    BY <2>1, <2>3 DEF SpanInv
  <2>5. Ahead' /\ valued'["nico"] <= run'.now BY <2>1, <2>2, <2>4 DEF Ahead
  <2>6. credited'["nico"] = credited'["autopilot"] BY <2>2, <2>4
  <2> QED BY <2>1, <2>5, <2>6 DEF SpanInv
<1>6. CASE SaveValuation
  <2>1. /\ UNCHANGED <<credited, crashes>> /\ run.pc = "valuation" /\ run'.pc = "trades"
        /\ run'.lane = run.lane /\ run'.now = run.now /\ run'.days = run.days
        /\ valued'[run.lane] = run.now /\ \A l \in Lanes \ {run.lane} : valued'[l] = valued[l]
        /\ run.lane \in Lanes
    BY <1>6, SaveValuationDoes, RunParts DEF Lanes
  <2>2. SUFFICES ASSUME crashes = 0 PROVE SpanInv' BY <2>1 DEF SpanInv
  <2>3. CASE run.lane = "nico"
    <3>1. /\ Level /\ run.days = Since(valued["nico"]) /\ valued["nico"] <= run.now
          /\ credited["nico"] = credited["autopilot"] + run.days
      BY <2>1, <2>2, <2>3 DEF SpanInv
    <3>2. run.now > 0 BY <2>1 DEF TypeInv
    <3>3. credited["autopilot"] <= Span(valued["nico"]) BY <3>1 DEF Level
    <3>4. credited["nico"] <= run.now - 1 BY <3>1, <3>2, <3>3 DEF Since, Span
    <3>5. valued'["nico"] = run'.now BY <2>1, <2>3
    <3>6. Ahead' BY <2>1, <3>4, <3>5 DEF Ahead
    <3>7. valued'["nico"] <= run'.now BY <2>1, <3>5
    <3>8. credited'["nico"] = credited'["autopilot"] + run'.days BY <2>1, <3>1
    <3> QED BY <2>1, <2>3, <3>6, <3>7, <3>8 DEF SpanInv
  <2>4. CASE run.lane = "autopilot"
    <3>1. Ahead /\ credited["nico"] = credited["autopilot"] /\ valued["nico"] <= run.now
      BY <2>1, <2>2, <2>4 DEF SpanInv
    <3>2. valued'["nico"] = valued["nico"] /\ valued'["autopilot"] = run'.now
      <4>1. "nico" \in Lanes \ {run.lane} BY <2>4 DEF Lanes
      <4> QED BY <2>1, <2>4, <4>1
    <3>3. Ahead' /\ valued'["nico"] <= run'.now BY <2>1, <3>1, <3>2 DEF Ahead
    <3>4. credited'["nico"] = credited'["autopilot"] BY <2>1, <3>1
    <3> QED BY <2>1, <2>4, <3>2, <3>3, <3>4 DEF SpanInv
  <2> QED BY <2>1, <2>3, <2>4 DEF Lanes
<1>7. CASE RecordTrades
  <2>1. /\ UNCHANGED <<credited, valued, crashes>> /\ run.pc = "trades"
        /\ \/ /\ run.lane = "nico" /\ run'.pc = "portfolio" /\ run'.lane = "autopilot"
              /\ run'.now = run.now /\ run'.days = run.days
           \/ run.lane = "autopilot" /\ run' = Idle
    BY <1>7, RecordTradesDoes
  <2>2. SUFFICES ASSUME crashes = 0 PROVE SpanInv' BY <2>1 DEF SpanInv
  <2>3. CASE /\ run.lane = "nico" /\ run'.pc = "portfolio" /\ run'.lane = "autopilot"
             /\ run'.now = run.now /\ run'.days = run.days
    <3>1. /\ Ahead /\ credited["nico"] = credited["autopilot"] + run.days
          /\ valued["nico"] <= run.now
      BY <2>1, <2>2, <2>3 DEF SpanInv
    <3>2. Ahead' /\ valued'["nico"] <= run'.now BY <2>1, <2>3, <3>1 DEF Ahead
    <3>3. credited'["nico"] = credited'["autopilot"] + run'.days BY <2>1, <2>3, <3>1
    <3> QED BY <2>3, <3>2, <3>3 DEF SpanInv
  <2>4. CASE run.lane = "autopilot" /\ run' = Idle
    <3>1. /\ Ahead /\ credited["nico"] = credited["autopilot"]
          /\ valued["autopilot"] = run.now
      BY <2>1, <2>2, <2>4 DEF SpanInv
    <3>2. run'.pc = "idle" BY <2>4, IdleParts
    <3>3. run.now > 0 BY <2>1 DEF TypeInv
    <3>4. valued["nico"] = valued["autopilot"] BY <3>1 DEF Ahead
    <3>5. credited["autopilot"] <= Span(valued["autopilot"]) BY <3>1, <3>3 DEF Ahead, Span
    <3>6. Level' BY <2>1, <3>4, <3>5 DEF Level, Span
    <3>7. run'.lane = "nico" BY <2>4, IdleParts
    <3> QED BY <2>1, <3>1, <3>2, <3>6, <3>7 DEF SpanInv
  <2> QED BY <2>1, <2>3, <2>4
<1>8. CASE Crash
  <2>1. crashes' # 0 BY <1>8, CrashDoes
  <2> QED BY <2>1 DEF SpanInv
<1> QED BY <1>1, <1>2, <1>3, <1>4, <1>5, <1>6, <1>7, <1>8 DEF Next, RunStep

LEMMA SpanInit == Init => SpanInv
<1> SUFFICES ASSUME Init PROVE SpanInv OBVIOUS
<1>1. /\ run = Idle /\ "nico" \in Lanes /\ "autopilot" \in Lanes
      /\ credited = [l \in Lanes |-> 0] /\ valued = [l \in Lanes |-> 0]
  BY DEF Init, Lanes
<1>2. run.pc = "idle" /\ run.lane = "nico" BY <1>1, IdleParts
<1>3. /\ credited["nico"] = 0 /\ credited["autopilot"] = 0
      /\ valued["nico"] = 0 /\ valued["autopilot"] = 0
  BY <1>1
<1>4. Level BY <1>3 DEF Level, Span
<1> QED BY <1>2, <1>3, <1>4 DEF SpanInv

(* Without a crash both lanes are credited the same days of dividends      *)
(* after every run, and never more days than have passed since the first.  *)
(* In a run lane nico is ahead by the days of this run from its save until *)
(* the autopilot's: both get the days counted at the start.                *)
THEOREM SameDays == Spec => []FairSpan
<1>1. TypeInv /\ SpanInv => FairSpan
  <2> SUFFICES ASSUME TypeInv, SpanInv, run.pc = "idle", crashes = 0
               PROVE  /\ credited["nico"] = credited["autopilot"]
                      /\ credited["nico"] <= IF LastValued = 0 THEN 0 ELSE LastValued - 1
    BY DEF FairSpan
  <2>1. Level /\ credited["nico"] = credited["autopilot"] BY DEF SpanInv
  <2> QED BY <2>1, Numbers DEF Level, Span, LastValued
<1> QED BY <1>1, TypeInit, TypeStep, SpanInit, SpanStep, PTL DEF Spec
=============================================================================
