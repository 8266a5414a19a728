------------------------- MODULE IgnitionLaneProofs -------------------------
(***************************************************************************)
(* For every choice of the constants: type correctness of the ignition     *)
(* lane, its caps, that its persisted book implements LaneLedger and is    *)
(* right of the account; and of the session lane, on the same venue, its   *)
(* types, its one entry per ticker and day, and its book.                  *)
(***************************************************************************)
EXTENDS IgnitionLane, FiniteSetTheorems, TLAPS

-----------------------------------------------------------------------------
(* The venue's ledger stays typed under everything it does and is asked.   *)

\* A resting entry has shares left to fill; without this a fill could exceed
\* the order.
RestingBelowLot == \A i \in Placed : Open(i) => orders[i].filled < Lot

VenueInv == VenueTypeOK /\ RestingBelowLot

\* Replacing one order by a well-formed one keeps the venue's invariant.
LEMMA UpdateOrder ==
  ASSUME VenueInv, NEW i \in Placed, NEW o \in Order,
         o.status = "new" => o.filled < Lot,
         orders' = [orders EXCEPT ![i] = o], UNCHANGED <<placed, day>>,
         shares' \in [Tickers -> Int], selling' \in [Tickers -> Nat]
  PROVE  VenueInv'
  <1>1. orders' \in [Placed' -> Order]
    BY DEF VenueInv, VenueTypeOK, Placed
  <1>2. RestingBelowLot'
    BY DEF VenueInv, VenueTypeOK, RestingBelowLot, Placed, Open
  <1> QED BY <1>1, <1>2 DEF VenueInv, VenueTypeOK, Order, Days

\* Cancelling everything that rests for a ticker keeps it too.
LEMMA CancelAll ==
  ASSUME VenueInv, NEW t \in Tickers, orders' = WithoutResting(t),
         UNCHANGED <<placed, day>>,
         shares' \in [Tickers -> Int], selling' \in [Tickers -> Nat]
  PROVE  VenueInv'
  <1>1. ASSUME NEW i \in Placed
        PROVE  /\ WithoutResting(t)[i] \in Order
               /\ WithoutResting(t)[i].status = "new" => Open(i)
               /\ WithoutResting(t)[i].filled = orders[i].filled
    <2>1. orders[i] \in Order
      BY DEF VenueInv, VenueTypeOK
    <2> QED BY <2>1 DEF WithoutResting, Order, Open
  <1>2. orders' \in [Placed' -> Order]
    BY <1>1 DEF WithoutResting, Placed
  <1>3. RestingBelowLot'
    BY <1>1 DEF VenueInv, RestingBelowLot, Placed, Open
  <1> QED BY <1>2, <1>3 DEF VenueInv, VenueTypeOK, Order, Days

LEMMA SubmitType ==
  ASSUME VenueInv, NEW t \in Tickers, Submit(t), UNCHANGED day
  PROVE  VenueInv' /\ placed' = placed + 1
  <1> DEFINE o == [ticker |-> t, day |-> day, filled |-> 0,
                   status |-> "new", legs |-> "none"]
  <1>1. o \in Order
    BY VenueAssumption DEF VenueInv, VenueTypeOK, Order, Days, VenueAssumption
  <1>2. o.status = "new" /\ o.filled < Lot
    BY VenueAssumption DEF VenueAssumption
  <1>3. orders' = [i \in 1..placed + 1 |-> IF i \in Placed THEN orders[i] ELSE o]
    BY DEF Submit
  <1> HIDE DEF o
  <1>4. placed' = placed + 1 /\ placed' \in 0..MaxOrders
    BY VenueAssumption DEF Submit, VenueInv, VenueTypeOK, VenueAssumption
  <1>5. orders' \in [Placed' -> Order]
    BY <1>1, <1>3, <1>4 DEF VenueInv, VenueTypeOK, Placed
  <1>6. RestingBelowLot'
    BY <1>2, <1>3, <1>4 DEF VenueInv, VenueTypeOK, RestingBelowLot, Placed, Open
  <1> QED BY <1>4, <1>5, <1>6 DEF VenueInv, VenueTypeOK, Submit, Order, Days

LEMMA CancelOrderType ==
  ASSUME VenueInv, NEW i \in Placed, CancelOrder(i), UNCHANGED day
  PROVE  VenueInv'
  <1>1. orders[i] \in Order
    BY DEF VenueInv, VenueTypeOK
  <1>2. PICK legs \in {"none", "live"} :
          orders' = [orders EXCEPT ![i] = [orders[i] EXCEPT !.status = "canceled", !.legs = legs]]
    BY DEF CancelOrder
  <1>3. /\ [orders[i] EXCEPT !.status = "canceled", !.legs = legs] \in Order
        /\ [orders[i] EXCEPT !.status = "canceled", !.legs = legs].status # "new"
    BY <1>1 DEF Order
  <1> QED BY <1>2, <1>3, UpdateOrder DEF CancelOrder, VenueInv, VenueTypeOK

LEMMA VenueStepType ==
  ASSUME VenueInv, VenueStep, UNCHANGED day
  PROVE  VenueInv' /\ UNCHANGED placed
  <1>1. ASSUME NEW i \in Placed
        PROVE  /\ orders[i] \in Order /\ orders[i].filled \in 0..Lot
               /\ orders[i].ticker \in Tickers
               /\ shares \in [Tickers -> Int] /\ selling \in [Tickers -> Nat]
    BY DEF VenueInv, VenueTypeOK, Order
  <1>2. ASSUME NEW i \in Placed, FillShare(i) PROVE VenueInv' /\ UNCHANGED placed
    <2> DEFINE n == orders[i].filled + 1
               o == [orders[i] EXCEPT !.filled = n,
                                      !.status = IF n = Lot THEN "filled" ELSE "new",
                                      !.legs = IF n = Lot THEN "live" ELSE "none"]
    <2>1. n \in 0..Lot
      BY <1>1, <1>2, VenueAssumption DEF FillShare, VenueInv, RestingBelowLot, VenueAssumption
    <2>2. o \in Order /\ (o.status = "new" => o.filled < Lot)
      <3> HIDE DEF n
      <3>1. orders[i] \in Order
        BY <1>1
      <3>2. CASE n = Lot
        <4>1. o = [orders[i] EXCEPT !.filled = n, !.status = "filled", !.legs = "live"]
          BY <3>2
        <4> QED BY <2>1, <3>1, <4>1 DEF Order
      <3>3. CASE n # Lot
        <4>1. o = [orders[i] EXCEPT !.filled = n, !.status = "new", !.legs = "none"]
          BY <3>3
        <4>2. n < Lot
          BY <2>1, <3>3, VenueAssumption DEF VenueAssumption
        <4> QED BY <2>1, <3>1, <4>1, <4>2 DEF Order
      <3> QED BY <3>2, <3>3
    <2>3. orders' = [orders EXCEPT ![i] = o]
      BY <1>2 DEF FillShare
    <2>4. shares' \in [Tickers -> Int] /\ UNCHANGED <<placed, selling>>
      BY <1>1, <1>2 DEF FillShare
    <2> HIDE DEF n, o
    <2> QED BY <1>1, <2>2, <2>3, <2>4, UpdateOrder
  <1>3. ASSUME NEW i \in Placed, RejectOrder(i) PROVE VenueInv' /\ UNCHANGED placed
    <2> DEFINE o == [orders[i] EXCEPT !.status = "canceled"]
    <2>1. o \in Order /\ o.status # "new"
      BY <1>1 DEF Order
    <2>2. orders' = [orders EXCEPT ![i] = o] /\ UNCHANGED <<placed, shares, selling>>
      BY <1>3 DEF RejectOrder
    <2> HIDE DEF o
    <2> QED BY <1>1, <2>1, <2>2, UpdateOrder
  <1>4. ASSUME NEW i \in Placed, LegFires(i) PROVE VenueInv' /\ UNCHANGED placed
    <2> DEFINE o == [orders[i] EXCEPT !.legs = "done"]
    <2>1. o \in Order /\ (o.status = "new" => o.filled < Lot)
      BY <1>1 DEF Order, VenueInv, RestingBelowLot, Open
    <2>2. orders' = [orders EXCEPT ![i] = o] /\ UNCHANGED <<placed, selling>>
      BY <1>4 DEF LegFires
    <2>3. shares' \in [Tickers -> Int]
      BY <1>1, <1>4 DEF LegFires
    <2> HIDE DEF o
    <2> QED BY <1>1, <2>1, <2>2, <2>3, UpdateOrder
  <1>5. ASSUME NEW t \in Tickers, SellFills(t) PROVE VenueInv' /\ UNCHANGED placed
    BY <1>5 DEF SellFills, VenueInv, VenueTypeOK, RestingBelowLot, Placed, Open
  <1> QED BY <1>2, <1>3, <1>4, <1>5 DEF VenueStep

-----------------------------------------------------------------------------
(* Type correctness of the lane.                                           *)

TypeInv == TypeOK /\ RestingBelowLot

LEMMA InitType == Init => TypeInv
  <1> SUFFICES ASSUME Init PROVE TypeInv
    OBVIOUS
  <1>1. VenueInv
    BY VenueAssumption DEF Init, VenueInit, VenueInv, VenueTypeOK,
       RestingBelowLot, Placed, VenueAssumption
  <1>2. NoPosition \in Position
    BY VenueAssumption DEF NoPosition, Position, Days, VenueAssumption
  <1>3. run \in RunMemory
    BY <1>2, VenueAssumption DEF Init, NoRun, RunMemory, VenueAssumption
  <1>4. entries \in [day: Days, n: Nat] /\ tradedOn \in [Tickers -> Days]
    BY VenueAssumption DEF Init, Days, VenueAssumption
  <1>5. closed \in 0..StopTrades /\ faults \in 0..MaxFaults
    BY LaneAssumption DEF Init, LaneAssumption
  <1> QED BY <1>1, <1>2, <1>3, <1>4, <1>5
          DEF Init, TypeInv, TypeOK, VenueInv, PCs

\* A step that leaves the venue and the lane's stores alone has only the run's
\* memory to keep typed.
LEMMA MemoryStep ==
  ASSUME TypeInv, UNCHANGED <<venueVars, day, laneVars, radarVars>>,
         run' \in RunMemory, pc' \in PCs, faults' \in 0..MaxFaults,
         pc' \in {"settle", "book"} => run'.order \in Placed
  PROVE  TypeInv'
  BY DEF TypeInv, TypeOK, VenueTypeOK, RestingBelowLot, Placed, Open,
         venueVars, laneVars, radarVars

LEMMA NoRunType == NoRun \in RunMemory
  <1>1. NoPosition \in Position
    BY VenueAssumption DEF NoPosition, Position, Days, VenueAssumption
  <1> QED BY <1>1, VenueAssumption DEF NoRun, RunMemory, VenueAssumption

LEMMA StepType ==
  ASSUME TypeInv, [Next]_vars
  PROVE  TypeInv'
  <1> USE DEF PCs
  <1>v. VenueInv
    BY DEF TypeInv, TypeOK, VenueInv
  <1>f. faults < MaxFaults => faults + 1 \in 0..MaxFaults
    BY LaneAssumption DEF TypeInv, TypeOK, LaneAssumption
  <1>r. run \in RunMemory /\ pc \in PCs /\ faults \in 0..MaxFaults
    BY DEF TypeInv, TypeOK
  <1>o. 0 \in 0..MaxOrders
    BY VenueAssumption DEF VenueAssumption
  <1>1. CASE StartRun
    <2>1. PICK priced \in SUBSET Held(book) : StartWith(priced)
      BY <1>1 DEF StartRun
    <2>2. PICK breached \in SUBSET priced :
            run' = [NoRun EXCEPT !.book = book, !.entries = EntriesToday,
                                 !.todo = signals \ traded,
                                 !.exits = PickExits(book, priced, breached)]
      BY <2>1 DEF StartWith
    <2>3. PickExits(book, priced, breached) \subseteq Tickers
      BY DEF PickExits, Held
    <2>4. EntriesToday \in Nat
      BY DEF EntriesToday, TypeInv, TypeOK
    <2>5. run' \in RunMemory
      BY <2>2, <2>3, <2>4, NoRunType DEF RunMemory, TypeInv, TypeOK
    <2> QED BY <2>1, <2>5, <1>r, MemoryStep DEF StartWith
  <1>2. CASE PickEntries
    <2>1. run' \in RunMemory
      BY <1>2, <1>r DEF PickEntries, RunMemory
    <2> QED BY <1>2, <2>1, <1>r, MemoryStep DEF PickEntries
  <1>3. CASE CancelUnfilled
    <2>1. VenueInv' /\ UNCHANGED placed
      BY <1>3, <1>v, CancelOrderType DEF CancelUnfilled, CancelOrder, TypeInv, TypeOK
    <2> QED BY <1>3, <2>1 DEF CancelUnfilled, TypeInv, TypeOK, VenueInv, Placed,
                              laneVars, radarVars
  <1>4. CASE CancelLost
    BY <1>4, <1>f, <1>r, MemoryStep DEF CancelLost, TypeInv, TypeOK
  <1>5. CASE ReadFails
    <2>1. run' \in RunMemory
      BY <1>5, <1>r, <1>o DEF ReadFails, RunMemory
    <2> QED BY <1>5, <2>1, <1>f, MemoryStep DEF ReadFails
  <1>6. CASE BookEntry
    <2>1. run.order \in Placed
      BY <1>6 DEF BookEntry, TypeInv, TypeOK
    <2>2. orders[run.order] \in Order
      BY <2>1 DEF TypeInv, TypeOK, VenueTypeOK
    <2>3. Bookable(run.order) \in 0..Lot /\ orders[run.order].ticker \in Tickers
      BY <2>2 DEF Order, Bookable
    <2>4. [qty |-> Bookable(run.order), opened |-> day] \in Position
      BY <2>3, VenueAssumption
         DEF Position, TypeInv, TypeOK, VenueTypeOK, Days, VenueAssumption
    <2>5. run' \in RunMemory
      <3> DEFINE t == orders[run.order].ticker
                 position == [qty |-> Bookable(run.order), opened |-> day]
                 next == [run EXCEPT !.pick = {}, !.order = 0]
      <3>1. next \in RunMemory
        BY <1>r, <1>o DEF RunMemory
      <3>2. [run.book EXCEPT ![t] = position] \in [Tickers -> Position]
        BY <1>r, <2>4 DEF RunMemory
      <3>3. \/ run' = next
            \/ run' = [next EXCEPT !.book = [run.book EXCEPT ![t] = position],
                                   !.entries = run.entries + 1,
                                   !.fills = run.fills \cup {t},
                                   !.won = run.won \cup run.pick]
        BY <1>6, <1>r DEF BookEntry, RunMemory
      <3>4. t \in Tickers
        BY <2>3
      <3> HIDE DEF t, position, next
      <3>5. run.entries + 1 \in Nat /\ run.fills \cup {t} \in SUBSET Tickers
            /\ run.won \cup run.pick \in SUBSET Signals
        BY <1>r, <3>4 DEF RunMemory
      <3> QED BY <3>1, <3>2, <3>3, <3>5 DEF RunMemory
    <2>6. executions' \subseteq Placed
      BY <1>6, <2>1 DEF BookEntry, TypeInv, TypeOK
    <2> QED BY <1>6, <2>5, <2>6 DEF BookEntry, TypeInv, TypeOK, VenueTypeOK,
               RestingBelowLot, Placed, Open, venueVars, radarVars
  <1>7. CASE Persist
    <2>1. closed' \in 0..StopTrades
      BY <1>7, <1>r, LaneAssumption
         DEF Persist, Smaller, RunMemory, TypeInv, TypeOK, LaneAssumption
    <2>2. book' \in [Tickers -> Position] /\ entries' \in [day: Days, n: Nat]
      BY <1>7, <1>r, VenueAssumption
         DEF Persist, RunMemory, TypeInv, TypeOK, VenueTypeOK, Days, VenueAssumption
    <2>3. tradedOn' \in [Tickers -> Days]
      BY <1>7, VenueAssumption
         DEF Persist, TypeInv, TypeOK, VenueTypeOK, Days, VenueAssumption
    <2> QED BY <1>7, <2>1, <2>2, <2>3 DEF Persist, TypeInv, TypeOK, VenueTypeOK,
               RestingBelowLot, Placed, Open, venueVars, radarVars
  <1>8. CASE MarkTraded
    <2>1. traded' \subseteq Signals
      BY <1>8, <1>r DEF MarkTraded, RunMemory, TypeInv, TypeOK
    <2> QED BY <1>8, <2>1 DEF MarkTraded, TypeInv, TypeOK, VenueTypeOK,
               RestingBelowLot, Placed, Open, venueVars, laneVars
  <1>9. CASE ReportDivergence
    BY <1>9, NoRunType DEF ReportDivergence, TypeInv, TypeOK, VenueTypeOK,
       RestingBelowLot, Placed, Open, venueVars, radarVars
  <1>10. CASE ReportSkipped
    BY <1>10, <1>r, NoRunType, MemoryStep DEF ReportSkipped
  <1>11. ASSUME NEW t \in Tickers, Exit(t) PROVE TypeInv'
    <2>1. /\ orders' = WithoutResting(t) /\ UNCHANGED <<placed, shares, day>>
          /\ selling' = [selling EXCEPT ![t] = shares[t]] /\ shares[t] > selling[t]
      BY <1>11 DEF Exit, ClosePosition
    <2>2. selling' \in [Tickers -> Nat] /\ shares' \in [Tickers -> Int]
      BY <2>1 DEF TypeInv, TypeOK, VenueTypeOK
    <2>3. VenueInv'
      BY <1>v, <2>1, <2>2, CancelAll
    <2>4. NoPosition \in Position
      BY VenueAssumption DEF NoPosition, Position, Days, VenueAssumption
    <2>5. run' \in RunMemory /\ run'.order = run.order
      <3>1. [run.book EXCEPT ![t] = NoPosition] \in [Tickers -> Position]
        BY <1>r, <2>4 DEF RunMemory
      <3>2. run' = [run EXCEPT !.exits = run.exits \ {t},
                               !.book = [run.book EXCEPT ![t] = NoPosition],
                               !.fills = run.fills \cup {t},
                               !.sells = run.sells + 1]
        BY <1>11, <1>r DEF Exit, RunMemory
      <3>3. /\ run.exits \ {t} \in SUBSET Tickers /\ run.sells + 1 \in Nat
            /\ run.fills \cup {t} \in SUBSET Tickers
        BY <1>r DEF RunMemory
      <3> DEFINE b == [run.book EXCEPT ![t] = NoPosition]
      <3> HIDE DEF b
      <3> QED BY <1>r, <3>1, <3>2, <3>3 DEF RunMemory
    <2> QED BY <1>11, <2>1, <2>3, <2>5
            DEF Exit, TypeInv, TypeOK, VenueInv, Placed, laneVars, radarVars
  <1>12. ASSUME NEW t \in Tickers, ExitRefused(t) PROVE TypeInv'
    <2>1. VenueInv' /\ UNCHANGED placed
      <3>1. CASE orders' = orders
        BY <1>12, <1>v, <3>1 DEF ExitRefused, ClosePositionRefused, VenueInv,
           VenueTypeOK, RestingBelowLot, Placed, Open
      <3>2. CASE orders' = WithoutResting(t)
        BY <1>12, <1>v, <3>2, CancelAll
           DEF ExitRefused, ClosePositionRefused, VenueInv, VenueTypeOK
      <3> QED BY <1>12, <3>1, <3>2 DEF ExitRefused, ClosePositionRefused
    <2>2. run' \in RunMemory /\ run'.order = run.order
      BY <1>12, <1>r DEF ExitRefused, RunMemory
    <2>3. faults' \in 0..MaxFaults
      BY <1>12, <1>f, <1>r DEF ExitRefused
    <2> QED BY <1>12, <2>1, <2>2, <2>3 DEF ExitRefused, TypeInv, TypeOK, VenueInv,
               Placed, laneVars, radarVars
  <1>13. ASSUME NEW s \in Signals, PlaceEntry(s) PROVE TypeInv'
    <2>1. s[1] \in Tickers
      BY DEF Signals
    <2>2. VenueInv' /\ placed' = placed + 1
      BY <1>13, <1>v, <2>1, SubmitType DEF PlaceEntry
    <2>3. placed \in Nat /\ placed + 1 \in 0..MaxOrders
      BY <2>2 DEF VenueInv, VenueTypeOK, TypeInv, TypeOK
    <2>4. run' \in RunMemory /\ run'.order = placed + 1
      BY <1>13, <1>r, <2>3 DEF PlaceEntry, RunMemory
    <2> QED BY <1>13, <2>2, <2>3, <2>4 DEF PlaceEntry, TypeInv, TypeOK, VenueInv,
               Placed, laneVars, radarVars
  <1>14. ASSUME NEW s \in Signals, SkipEntry(s) PROVE TypeInv'
    <2>1. run' \in RunMemory
      BY <1>14, <1>r DEF SkipEntry, RunMemory
    <2> QED BY <1>14, <2>1, <1>r, MemoryStep DEF SkipEntry
  <1>15. CASE Crash
    BY <1>15, <1>f, NoRunType, MemoryStep DEF Crash
  <1>16. CASE Venue
    <2>1. VenueInv' /\ UNCHANGED placed
      BY <1>16, <1>v, VenueStepType DEF Venue
    <2> QED BY <1>16, <2>1 DEF Venue, TypeInv, TypeOK, VenueInv, Placed,
               laneVars, radarVars
  <1>17. CASE NewDay
    <2>1. day' \in 1..MaxDay
      BY <1>17, VenueAssumption DEF NewDay, TypeInv, TypeOK, VenueTypeOK, VenueAssumption
    <2> QED BY <1>17, <2>1 DEF NewDay, TypeInv, TypeOK, VenueTypeOK,
               RestingBelowLot, Placed, Open, venueVars, laneVars
  <1>18. ASSUME NEW s \in Signals, SignalArrives(s) PROVE TypeInv'
    BY <1>18 DEF SignalArrives, TypeInv, TypeOK, VenueTypeOK, RestingBelowLot,
       Placed, Open, venueVars, laneVars
  <1>19. CASE UNCHANGED vars
    BY <1>19, <1>r, MemoryStep DEF vars, TypeInv, TypeOK
  <1> QED BY <1>1, <1>2, <1>3, <1>4, <1>5, <1>6, <1>7, <1>8, <1>9, <1>10, <1>11,
             <1>12, <1>13, <1>14, <1>15, <1>16, <1>17, <1>18, <1>19
          DEF Next, RunStep

\* The ignition lane never leaves its types: no store, order or run memory
\* holds anything but what TypeOK lists, whatever fails.
THEOREM TypeCorrect == Spec => []TypeOK
  <1>1. TypeInv /\ [Next]_vars => TypeInv'
    BY StepType
  <1>2. TypeInv => TypeOK
    BY DEF TypeInv
  <1> QED BY InitType, <1>1, <1>2, PTL DEF Spec

-----------------------------------------------------------------------------
(* The caps.  What a pass may still buy is counted against what the stored *)
(* book leaves free, so the proof is about cardinalities of finite sets.   *)

LEMMA Finite ==
  /\ \A S \in SUBSET Tickers : IsFiniteSet(S) /\ Cardinality(S) \in Nat
  /\ \A S \in SUBSET Signals : IsFiniteSet(S) /\ Cardinality(S) \in Nat
  /\ \A b : IsFiniteSet(Held(b)) /\ Cardinality(Held(b)) \in Nat
  <1>1. IsFiniteSet(Tickers) /\ IsFiniteSet(Buckets)
    BY VenueAssumption, LaneAssumption DEF VenueAssumption, LaneAssumption
  <1>2. IsFiniteSet(Signals)
    BY <1>1, FS_Product DEF Signals
  <1>3. \A S \in SUBSET Tickers : IsFiniteSet(S) /\ Cardinality(S) \in Nat
    BY <1>1, FS_Subset, FS_CardinalityType
  <1>4. \A S \in SUBSET Signals : IsFiniteSet(S) /\ Cardinality(S) \in Nat
    BY <1>2, FS_Subset, FS_CardinalityType
  <1>5. \A b : Held(b) \in SUBSET Tickers
    BY DEF Held
  <1> QED BY <1>3, <1>4, <1>5

CapInv == TypeInv /\ BookWithinCaps /\ PassInv

InPass == pc \in {"exits", "enter", "settle", "book"}

LEMMA CapTypes ==
  ASSUME TypeInv
  PROVE  /\ MaxPositions \in Nat /\ MaxEntriesPerDay \in Nat
         /\ run.entries \in Nat /\ EntriesToday \in Nat
         /\ run.book \in [Tickers -> Position] /\ book \in [Tickers -> Position]
         /\ run.fills \in SUBSET Tickers /\ run.exits \in SUBSET Tickers
         /\ run.picks \in SUBSET Signals /\ run.pick \in SUBSET Signals
         /\ Opened \in SUBSET Tickers /\ IsFiniteSet(Opened)
         /\ IsFiniteSet(run.picks) /\ IsFiniteSet(Held(run.book))
         /\ Cardinality(Opened) \in Nat /\ Cardinality(run.picks) \in Nat
         /\ Cardinality(Held(run.book)) \in Nat /\ Claims \in Nat
  <1>1. /\ run.entries \in Nat /\ run.book \in [Tickers -> Position]
        /\ run.fills \in SUBSET Tickers /\ run.exits \in SUBSET Tickers
        /\ run.picks \in SUBSET Signals /\ run.pick \in SUBSET Signals
    BY DEF TypeInv, TypeOK, RunMemory
  <1>2. EntriesToday \in Nat /\ book \in [Tickers -> Position]
    BY DEF TypeInv, TypeOK, EntriesToday
  <1>3. Opened \in SUBSET Tickers
    BY <1>1 DEF Opened
  <1>4. Cardinality(run.picks) \in Nat /\ IsFiniteSet(run.picks)
    BY <1>1, Finite
  <1>5. Claims \in Nat
    BY <1>4 DEF Claims
  <1>6. IsFiniteSet(Opened) /\ Cardinality(Opened) \in Nat
    BY <1>3, Finite
  <1>7. IsFiniteSet(Held(run.book)) /\ Cardinality(Held(run.book)) \in Nat
    BY Finite
  <1> QED BY <1>1, <1>2, <1>3, <1>4, <1>5, <1>6, <1>7, LaneAssumption DEF LaneAssumption

\* A step of a pass that books nothing and picks nothing new only gives up
\* claims, so it keeps the pass within its bounds.
LEMMA PassKept ==
  ASSUME TypeInv, TypeInv', PassInv, UNCHANGED <<book, entries, tradedOn, day>>,
         InPass' => InPass,
         run'.book = run.book, run'.entries = run.entries, run'.fills = run.fills,
         run'.picks \subseteq run.picks, run'.pick \subseteq run.pick,
         pc' = "exits" => pc = "exits" /\ run'.exits \subseteq run.exits,
         Buying' => /\ Buying /\ run'.pick = run.pick /\ run'.order = run.order
                    /\ orders'[run.order].ticker = orders[run.order].ticker
  PROVE  PassInv'
  <1> SUFFICES ASSUME InPass' PROVE PassInv'
    BY DEF PassInv, InPass
  <1>1. InPass
    OBVIOUS
  <1>2. Opened' = Opened /\ EntriesToday' = EntriesToday
    BY DEF Opened, Held, EntriesToday
  <1>3. Cardinality(run'.picks) <= Cardinality(run.picks)
    BY CapTypes, FS_Subset
  <1>4. Claims' <= Claims
    <2>1. Cardinality(run'.picks) \in Nat /\ Cardinality(run.picks) \in Nat
      BY CapTypes, Finite
    <2> QED BY <1>3, <2>1 DEF Claims
  <1>5. Claims' \in Nat
    <2>1. Cardinality(run'.picks) \in Nat
      BY CapTypes, Finite
    <2> QED BY <2>1 DEF Claims
  <1>6. /\ \A t \in Tickers \ run'.fills : run'.book[t] = book'[t]
        /\ \A t \in run'.fills \ Opened' : run'.book[t] = NoPosition /\ t \in Held(book')
        /\ \A t \in Opened' : run'.book[t].opened = day' /\ tradedOn'[t] # day'
    BY <1>1, <1>2 DEF PassInv, InPass
  <1>7. \A s \in run'.picks \cup run'.pick : tradedOn'[s[1]] # day'
    BY <1>1 DEF PassInv, InPass
  <1>8. Buying' => \E s \in Signals : run'.pick = {s} /\ orders'[run'.order].ticker = s[1]
    BY <1>1 DEF PassInv, InPass
  <1>9. pc' = "exits" => Opened' = {} /\ run'.exits \subseteq Held(book') \ run'.fills
    BY <1>1, <1>2 DEF PassInv, InPass
  <1>10. run'.entries = EntriesToday' + Cardinality(Opened')
    BY <1>1, <1>2 DEF PassInv, InPass
  <1>11. /\ run'.entries + Claims' <= MaxEntriesPerDay
         /\ Cardinality(Held(run'.book)) + Claims' <= MaxPositions
    BY <1>1, <1>4, <1>5, CapTypes DEF PassInv, InPass
  <1> QED BY <1>6, <1>7, <1>8, <1>9, <1>10, <1>11 DEF PassInv

LEMMA TickerKept ==
  ASSUME VenueInv, VenueStep, NEW j \in Placed
  PROVE  orders'[j].ticker = orders[j].ticker
  <1>1. \A i \in Placed : orders[i] \in Order
    BY DEF VenueInv, VenueTypeOK
  <1>2. ASSUME NEW i \in Placed, FillShare(i) PROVE orders'[j].ticker = orders[j].ticker
    <2>1. \E o : o.ticker = orders[i].ticker /\ orders' = [orders EXCEPT ![i] = o]
      <3> DEFINE n == orders[i].filled + 1
                 o == [orders[i] EXCEPT !.filled = n,
                                      !.status = IF n = Lot THEN "filled" ELSE "new",
                                      !.legs = IF n = Lot THEN "live" ELSE "none"]
      <3>1. o.ticker = orders[i].ticker
        BY <1>1 DEF Order
      <3>2. orders' = [orders EXCEPT ![i] = o]
        BY <1>2 DEF FillShare
      <3> HIDE DEF o
      <3> QED BY <3>1, <3>2
    <2> QED BY <2>1 DEF VenueInv, VenueTypeOK
  <1>3. ASSUME NEW i \in Placed, RejectOrder(i) PROVE orders'[j].ticker = orders[j].ticker
    <2>1. [orders[i] EXCEPT !.status = "canceled"].ticker = orders[i].ticker
      BY <1>1 DEF Order
    <2> QED BY <2>1, <1>3 DEF RejectOrder, VenueInv, VenueTypeOK
  <1>4. ASSUME NEW i \in Placed, LegFires(i) PROVE orders'[j].ticker = orders[j].ticker
    <2>1. [orders[i] EXCEPT !.legs = "done"].ticker = orders[i].ticker
      BY <1>1 DEF Order
    <2> QED BY <2>1, <1>4 DEF LegFires, VenueInv, VenueTypeOK
  <1>5. ASSUME NEW t \in Tickers, SellFills(t) PROVE orders'[j].ticker = orders[j].ticker
    BY <1>5 DEF SellFills
  <1> QED BY <1>2, <1>3, <1>4, <1>5 DEF VenueStep

\* A sell the broker accepted frees its slot.
LEMMA ExitWithinCaps ==
  ASSUME CapInv, TypeInv', NEW t \in Tickers, Exit(t)
  PROVE  PassInv' /\ BookWithinCaps'
  <1>t. TypeInv /\ BookWithinCaps /\ PassInv
    BY DEF CapInv
  <1>1. /\ pc = "exits" /\ pc' = "exits" /\ t \in run.exits
        /\ UNCHANGED <<book, entries, tradedOn, day>>
        /\ run'.book = [run.book EXCEPT ![t] = NoPosition] /\ run'.entries = run.entries
        /\ run'.fills = run.fills \cup {t} /\ run'.picks = run.picks
        /\ run'.pick = run.pick /\ run'.exits = run.exits \ {t}
    <2> DEFINE b == [run.book EXCEPT ![t] = NoPosition]
    <2>1. run' = [run EXCEPT !.exits = run.exits \ {t}, !.book = b,
                             !.fills = run.fills \cup {t}, !.sells = run.sells + 1]
      BY <1>t DEF Exit, TypeInv, TypeOK, RunMemory
    <2> HIDE DEF b
    <2>2. /\ run'.book = b /\ run'.entries = run.entries
          /\ run'.fills = run.fills \cup {t} /\ run'.picks = run.picks
          /\ run'.pick = run.pick /\ run'.exits = run.exits \ {t}
      BY <2>1, <1>t DEF TypeInv, TypeOK, RunMemory
    <2> QED BY <2>2 DEF Exit, laneVars, b
  <1>2. /\ Opened = {} /\ run.exits \subseteq Held(book) \ run.fills
        /\ \A x \in Tickers \ run.fills : run.book[x] = book[x]
        /\ \A x \in run.fills \ Opened : run.book[x] = NoPosition /\ x \in Held(book)
        /\ run.entries = EntriesToday + Cardinality(Opened)
        /\ run.entries + Claims <= MaxEntriesPerDay
        /\ Cardinality(Held(run.book)) + Claims <= MaxPositions
        /\ \A s \in run.picks \cup run.pick : tradedOn[s[1]] # day
    BY <1>1, <1>t DEF PassInv
  <1>3. run.book \in [Tickers -> Position]
    BY <1>t, CapTypes
  <1>4. Held(run'.book) = Held(run.book) \ {t}
    BY <1>1, <1>3 DEF Held, NoPosition
  <1>5. Opened' = {}
    BY <1>1, <1>2, <1>4 DEF Opened
  <1>6. Cardinality(Held(run'.book)) <= Cardinality(Held(run.book))
    BY <1>4, <1>t, CapTypes, FS_Subset
  <1>7. Claims' = Claims /\ ~Buying' /\ EntriesToday' = EntriesToday
    BY <1>1 DEF Claims, Buying, EntriesToday
  <1>8. Cardinality(Held(run'.book)) + Claims' <= MaxPositions
    <2>1. Cardinality(Held(run'.book)) \in Nat
      BY Finite
    <2> QED BY <1>2, <1>6, <1>7, <2>1, <1>t, CapTypes
  <1>9. /\ \A x \in Tickers \ run'.fills : run'.book[x] = book'[x]
        /\ \A x \in run'.fills : run'.book[x] = NoPosition /\ x \in Held(book')
    BY <1>1, <1>2, <1>3
  <1>10. PassInv'
    BY <1>1, <1>2, <1>5, <1>7, <1>8, <1>9 DEF PassInv
  <1> QED BY <1>t, <1>1, <1>10 DEF BookWithinCaps, Held

\* An entry on its way to the venue keeps the claim its pick had.
LEMMA PlaceWithinCaps ==
  ASSUME CapInv, TypeInv', NEW s \in Signals, PlaceEntry(s)
  PROVE  PassInv' /\ BookWithinCaps'
  <1>t. TypeInv /\ BookWithinCaps /\ PassInv
    BY DEF CapInv
  <1>1. /\ pc = "enter" /\ pc' = "settle" /\ s \in run.picks /\ Submit(s[1])
        /\ UNCHANGED <<book, entries, tradedOn, day>>
        /\ run'.book = run.book /\ run'.entries = run.entries /\ run'.fills = run.fills
        /\ run'.picks = run.picks \ {s} /\ run'.pick = {s} /\ run'.order = placed + 1
    <2>1. run \in RunMemory
      BY <1>t DEF TypeInv, TypeOK
    <2>2. run' = [run EXCEPT !.picks = run.picks \ {s}, !.pick = {s}, !.order = placed + 1]
      BY <2>1 DEF PlaceEntry, RunMemory
    <2>3. /\ run'.book = run.book /\ run'.entries = run.entries /\ run'.fills = run.fills
          /\ run'.picks = run.picks \ {s} /\ run'.pick = {s} /\ run'.order = placed + 1
      BY <2>1, <2>2 DEF RunMemory
    <2> QED BY <2>3 DEF PlaceEntry, laneVars
  <1>2. Opened' = Opened /\ EntriesToday' = EntriesToday
    BY <1>1 DEF Opened, EntriesToday, Held
  <1>3. Cardinality(run'.picks) = Cardinality(run.picks) - 1
    <2>1. IsFiniteSet(run.picks) /\ s \in run.picks
      BY <1>1, <1>t, CapTypes
    <2>2. Cardinality(run.picks \ {s}) = Cardinality(run.picks) - 1
      BY <2>1, FS_RemoveElement
    <2> QED BY <1>1, <2>2
  <1>4. Claims' = Claims
    <2>1. Cardinality(run.picks) \in Nat
      BY <1>t, CapTypes
    <2> QED BY <1>1, <1>3, <2>1 DEF Claims, Buying
  <1>5. orders'[run'.order].ticker = s[1]
    <2>1. placed \in Nat
      BY <1>t DEF TypeInv, TypeOK, VenueTypeOK
    <2> QED BY <1>1, <2>1 DEF Submit, Placed
  <1>6. PassInv'
    BY <1>1, <1>2, <1>4, <1>5, <1>t DEF PassInv
  <1> QED BY <1>t, <1>1, <1>6 DEF BookWithinCaps, Held

\* A fill that is booked turns its claim into a position and an entry.
LEMMA BookEntryWithinCaps ==
  ASSUME CapInv, TypeInv', BookEntry
  PROVE  PassInv' /\ BookWithinCaps'
  <1>t. TypeInv /\ BookWithinCaps /\ PassInv
    BY DEF CapInv
  <1>1. /\ Buying /\ InPass /\ pc' = "enter"
        /\ UNCHANGED <<orders, book, entries, tradedOn, day>>
    BY DEF BookEntry, Buying, InPass, venueVars
  <1>c. BookWithinCaps'
    BY <1>t, <1>1 DEF BookWithinCaps, Held
  <1> DEFINE t == orders[run.order].ticker
             n == Bookable(run.order)
             position == [qty |-> n, opened |-> day]
             next == [run EXCEPT !.pick = {}, !.order = 0]
  <1>2. PICK s \in Signals : run.pick = {s} /\ t = s[1]
    BY <1>1, <1>t DEF PassInv, Buying
  <1>3. t \in Tickers /\ tradedOn[t] # day
    BY <1>1, <1>2, <1>t DEF PassInv, InPass, Signals
  <1>4. CASE run' = next
    <2>1. /\ run'.book = run.book /\ run'.entries = run.entries /\ run'.fills = run.fills
          /\ run'.picks = run.picks /\ run'.pick = {}
      BY <1>4, <1>t DEF TypeInv, TypeOK, RunMemory
    <2> QED BY <1>1, <1>c, <2>1, <1>t, PassKept DEF InPass, Buying
  <1>5. CASE /\ n > 0 /\ run.book[t].qty = 0
             /\ run' = [next EXCEPT !.book = [run.book EXCEPT ![t] = position],
                                    !.entries = run.entries + 1,
                                    !.fills = run.fills \cup {t},
                                    !.won = run.won \cup run.pick]
    <2>1. /\ run'.book = [run.book EXCEPT ![t] = position]
          /\ run'.entries = run.entries + 1 /\ run'.fills = run.fills \cup {t}
          /\ run'.picks = run.picks /\ run'.pick = {}
      <3> DEFINE b == [run.book EXCEPT ![t] = position]
                 f == run.fills \cup {t}
      <3> HIDE DEF t, b, f
      <3>1. /\ run'.book = b /\ run'.entries = run.entries + 1 /\ run'.fills = f
            /\ run'.picks = run.picks /\ run'.pick = {}
        BY <1>5, <1>t DEF TypeInv, TypeOK, RunMemory, b, f
      <3> QED BY <3>1 DEF b, f
    <2>2. run.book \in [Tickers -> Position]
      BY <1>t, CapTypes
    <2>3. position.qty = n /\ position.opened = day
      OBVIOUS
    <2> HIDE DEF t, n, position, next
    <2>4. Held(run'.book) = Held(run.book) \cup {t} /\ t \notin Held(run.book)
      BY <1>3, <1>5, <2>1, <2>2, <2>3 DEF Held
    <2>5. Opened' = Opened \cup {t} /\ t \notin Opened
      BY <2>1, <2>4 DEF Opened
    <2>6. /\ Cardinality(Held(run'.book)) = Cardinality(Held(run.book)) + 1
          /\ Cardinality(Opened') = Cardinality(Opened) + 1
      BY <2>4, <2>5, <1>t, CapTypes, FS_AddElement
    <2>7. Claims' = Claims - 1
      <3>1. Cardinality(run.picks) \in Nat
        BY <1>t, CapTypes
      <3> QED BY <1>1, <2>1, <3>1 DEF Claims, Buying
    <2>8. /\ \A x \in Tickers \ run.fills : run.book[x] = book[x]
          /\ \A x \in run.fills \ Opened : run.book[x] = NoPosition /\ x \in Held(book)
          /\ \A x \in Opened : run.book[x].opened = day /\ tradedOn[x] # day
          /\ \A x \in run.picks \cup run.pick : tradedOn[x[1]] # day
          /\ run.entries = EntriesToday + Cardinality(Opened)
          /\ run.entries + Claims <= MaxEntriesPerDay
          /\ Cardinality(Held(run.book)) + Claims <= MaxPositions
      BY <1>1, <1>t DEF PassInv, InPass
    <2>9. EntriesToday' = EntriesToday /\ ~Buying'
      BY <1>1 DEF EntriesToday, Buying
    <2>10. /\ run'.entries = EntriesToday' + Cardinality(Opened')
           /\ run'.entries + Claims' <= MaxEntriesPerDay
           /\ Cardinality(Held(run'.book)) + Claims' <= MaxPositions
      BY <2>1, <2>6, <2>7, <2>8, <2>9, <1>t, CapTypes
    <2>11. /\ \A x \in Tickers \ run'.fills : run'.book[x] = book'[x]
           /\ \A x \in run'.fills \ Opened' : run'.book[x] = NoPosition /\ x \in Held(book')
           /\ \A x \in Opened' : run'.book[x].opened = day' /\ tradedOn'[x] # day'
      <3>1. \A x \in Tickers : run'.book[x] = IF x = t THEN position ELSE run.book[x]
        BY <2>1, <2>2
      <3>2. Opened \subseteq Tickers /\ run.fills \subseteq Tickers
        BY <1>t, CapTypes
      <3> QED BY <1>1, <1>3, <2>1, <2>3, <2>5, <2>8, <3>1, <3>2
    <2>12. PassInv'
      BY <1>1, <2>1, <2>8, <2>9, <2>10, <2>11 DEF PassInv
    <2> QED BY <2>12, <1>c
  <1>6. \/ run' = next
        \/ /\ n > 0 /\ run.book[t].qty = 0
           /\ run' = [next EXCEPT !.book = [run.book EXCEPT ![t] = position],
                                  !.entries = run.entries + 1,
                                  !.fills = run.fills \cup {t},
                                  !.won = run.won \cup run.pick]
    <2>1. run \in RunMemory
      BY <1>t DEF TypeInv, TypeOK
    <2>2. /\ next.book = run.book /\ next.entries = run.entries
          /\ next.fills = run.fills /\ next.won = run.won
      BY <2>1 DEF RunMemory
    <2>3. \/ run' = next
          \/ /\ n > 0 /\ run.book[t].qty = 0
             /\ run' = [next EXCEPT !.book = [next.book EXCEPT ![t] = position],
                                    !.entries = next.entries + 1,
                                    !.fills = next.fills \cup {t},
                                    !.won = next.won \cup run.pick]
      BY DEF BookEntry
    <2> QED BY <2>2, <2>3
  <1> QED BY <1>4, <1>5, <1>6

\* What is written is what the pass kept within its bounds.
LEMMA PersistWithinCaps ==
  ASSUME CapInv, TypeInv', Persist
  PROVE  PassInv' /\ BookWithinCaps'
  <1>t. TypeInv /\ BookWithinCaps /\ PassInv
    BY DEF CapInv
  <1>1. /\ pc = "enter" /\ pc' = "mark" /\ book' = run.book
        /\ entries' = [day |-> day, n |-> run.entries]
    BY DEF Persist
  <1>2. /\ run.entries + Claims <= MaxEntriesPerDay
        /\ Cardinality(Held(run.book)) + Claims <= MaxPositions
    BY <1>t, <1>1 DEF PassInv
  <1>3. Cardinality(Held(book')) <= MaxPositions /\ entries'.n <= MaxEntriesPerDay
    BY <1>1, <1>2, <1>t, CapTypes
  <1>4. BookWithinCaps'
    BY <1>3 DEF BookWithinCaps
  <1> QED BY <1>1, <1>4 DEF PassInv

\* What each step of a pass does to its bounds.
LEMMA PassStep ==
  ASSUME CapInv, TypeInv', [Next]_vars
  PROVE  PassInv' /\ BookWithinCaps'
  <1>t. TypeInv /\ BookWithinCaps /\ PassInv
    BY DEF CapInv
  <1>v. VenueInv
    BY <1>t DEF TypeInv, TypeOK, VenueInv
  <1>p. Buying => run.order \in Placed
    BY <1>t DEF TypeInv, TypeOK, Buying
  <1>b. ASSUME UNCHANGED <<book, entries>> PROVE BookWithinCaps'
    BY <1>b, <1>t DEF BookWithinCaps, Held
  <1>i. ASSUME ~InPass' PROVE PassInv'
    BY <1>i DEF PassInv, InPass
  <1>1. CASE StartRun
    <2>0. PICK priced \in SUBSET Held(book) : StartWith(priced)
      BY <1>1 DEF StartRun
    <2>1. PICK breached \in SUBSET priced :
            run' = [NoRun EXCEPT !.book = book, !.entries = EntriesToday,
                                 !.todo = signals \ traded,
                                 !.exits = PickExits(book, priced, breached)]
      BY <2>0 DEF StartWith
    <2>2. /\ run'.book = book /\ run'.entries = EntriesToday /\ run'.fills = {}
          /\ run'.picks = {} /\ run'.pick = {} /\ pc' = "exits"
          /\ run'.exits = PickExits(book, priced, breached)
          /\ UNCHANGED <<book, entries, tradedOn, day>>
      BY <2>0, <2>1 DEF NoRun, StartWith, laneVars
    <2>3. run'.exits \subseteq Held(book')
      BY <2>2 DEF PickExits
    <2>4. Opened' = {} /\ EntriesToday' = EntriesToday
      BY <2>2 DEF Opened, EntriesToday
    <2>5. Cardinality(run'.picks) = 0 /\ Cardinality(Opened') = 0
      BY <2>2, <2>4, FS_EmptySet
    <2>6. Claims' = 0 /\ ~Buying'
      BY <2>2, <2>5 DEF Claims, Buying
    <2>7. EntriesToday \in 0..MaxEntriesPerDay
      BY <1>t, LaneAssumption DEF EntriesToday, BookWithinCaps, TypeInv, TypeOK, LaneAssumption
    <2>8. Cardinality(Held(run'.book)) <= MaxPositions
      BY <1>t, <2>2 DEF BookWithinCaps
    <2>9. Cardinality(Held(run'.book)) \in Nat
      BY Finite
    <2>10. /\ run'.entries = EntriesToday' + Cardinality(Opened')
           /\ run'.entries + Claims' <= MaxEntriesPerDay
           /\ Cardinality(Held(run'.book)) + Claims' <= MaxPositions
      BY <2>2, <2>4, <2>5, <2>6, <2>7, <2>8, <2>9, LaneAssumption DEF LaneAssumption
    <2>11. PassInv'
      BY <2>2, <2>3, <2>4, <2>6, <2>10 DEF PassInv
    <2> QED BY <2>2, <2>11, <1>b
  <1>2. CASE PickEntries
    <2>0. PICK passing \in SUBSET {s \in run.todo : Enterable(s)} :
          \E picks \in SUBSET passing :
            /\ \/ Cardinality(picks) = Smaller(Cardinality(passing), Quota)
               \/ picks = {}
            /\ run' = [run EXCEPT !.picks = picks]
      BY <1>2 DEF PickEntries
    <2>1. PICK picks \in SUBSET passing :
            /\ \/ Cardinality(picks) = Smaller(Cardinality(passing), Quota)
               \/ picks = {}
            /\ run' = [run EXCEPT !.picks = picks]
      BY <2>0
    <2>2. passing \in SUBSET Signals /\ picks \in SUBSET Signals
      BY <2>0, <2>1, <1>t DEF TypeInv, TypeOK, RunMemory
    <2>3. /\ run'.picks = picks /\ run'.book = run.book /\ run'.entries = run.entries
          /\ run'.fills = run.fills /\ run'.pick = run.pick
      BY <2>1, <1>t DEF TypeInv, TypeOK, RunMemory
    <2>4. pc = "exits" /\ pc' = "enter" /\ UNCHANGED <<book, entries, tradedOn, day>>
      BY <1>2 DEF PickEntries, laneVars
    <2>5. Opened' = Opened /\ EntriesToday' = EntriesToday
      BY <2>3, <2>4 DEF Opened, EntriesToday, Held
    <2>6. Cardinality(picks) \in Nat /\ Cardinality(passing) \in Nat
      BY <2>2, Finite
    <2>7. Cardinality(Held(run.book)) <= MaxPositions /\ run.entries <= MaxEntriesPerDay
      BY <1>t, <2>4, CapTypes DEF PassInv
    <2>8. Cardinality(picks) <= MaxPositions - Cardinality(Held(run.book))
          /\ Cardinality(picks) <= MaxEntriesPerDay - run.entries
      <3>1. CASE picks = {}
        <4>1. Cardinality(picks) = 0
          BY <3>1, FS_EmptySet
        <4> QED BY <4>1, <2>7, <1>t, CapTypes
      <3>2. CASE Cardinality(picks) = Smaller(Cardinality(passing), Quota)
        BY <3>2, <2>6, <2>7, <1>t, CapTypes DEF Smaller, Quota
      <3> QED BY <2>1, <3>1, <3>2
    <2>9. Claims' = Cardinality(picks) /\ ~Buying'
      BY <2>3, <2>4, <2>6 DEF Claims, Buying
    <2>10. \A s \in picks : tradedOn[s[1]] # day
      BY <2>0, <2>1 DEF Enterable
    <2>11. /\ run'.entries + Claims' <= MaxEntriesPerDay
           /\ Cardinality(Held(run'.book)) + Claims' <= MaxPositions
      BY <2>3, <2>6, <2>8, <2>9, <1>t, CapTypes
    <2>12. PassInv'
      BY <2>3, <2>4, <2>5, <2>9, <2>10, <2>11, <1>t DEF PassInv
    <2> QED BY <2>4, <2>12, <1>b
  <1>3. CASE CancelUnfilled
    <2>1. /\ pc = "settle" /\ pc' = "book" /\ CancelOrder(run.order)
          /\ UNCHANGED <<run, book, entries, tradedOn, day>>
      BY <1>3 DEF CancelUnfilled, laneVars
    <2>2. run.order \in Placed /\ orders[run.order] \in Order
      BY <2>1, <1>p, <1>v DEF Buying, VenueInv, VenueTypeOK
    <2>3. orders'[run.order].ticker = orders[run.order].ticker
      <3>1. PICK legs \in {"none", "live"} :
              orders' = [orders EXCEPT ![run.order] =
                           [orders[run.order] EXCEPT !.status = "canceled", !.legs = legs]]
        BY <2>1 DEF CancelOrder
      <3>2. [orders[run.order] EXCEPT !.status = "canceled", !.legs = legs].ticker
              = orders[run.order].ticker
        BY <2>2 DEF Order
      <3> QED BY <3>1, <3>2, <2>2, <1>v DEF VenueInv, VenueTypeOK
    <2>4. PassInv'
      BY <1>t, <2>1, <2>3, PassKept DEF InPass, Buying
    <2> QED BY <2>1, <2>4, <1>b
  <1>4. CASE CancelLost
    <2>1. /\ pc = "settle" /\ pc' = "book"
          /\ UNCHANGED <<run, orders, book, entries, tradedOn, day>>
      BY <1>4 DEF CancelLost, laneVars, venueVars
    <2>2. PassInv'
      BY <1>t, <2>1, PassKept DEF InPass, Buying
    <2> QED BY <2>1, <2>2, <1>b
  <1>5. CASE ReadFails
    <2>1. /\ pc \in {"settle", "book"} /\ pc' = "enter"
          /\ UNCHANGED <<book, entries, tradedOn, day>>
          /\ run'.book = run.book /\ run'.entries = run.entries /\ run'.fills = run.fills
          /\ run'.picks = run.picks /\ run'.pick = {}
      BY <1>5, <1>t DEF ReadFails, laneVars, TypeInv, TypeOK, RunMemory
    <2>2. PassInv'
      BY <1>t, <2>1, PassKept DEF InPass, Buying
    <2> QED BY <2>1, <2>2, <1>b
  <1>8. CASE MarkTraded
    BY <1>8, <1>b, <1>i DEF MarkTraded, laneVars, InPass
  <1>9. CASE ReportDivergence
    BY <1>9, <1>b, <1>i DEF ReportDivergence, InPass
  <1>10. CASE ReportSkipped
    BY <1>10, <1>b, <1>i DEF ReportSkipped, laneVars, InPass
  <1>12. ASSUME NEW t \in Tickers, ExitRefused(t) PROVE PassInv' /\ BookWithinCaps'
    <2>1. /\ pc = "exits" /\ pc' = "exits"
          /\ UNCHANGED <<book, entries, tradedOn, day>>
          /\ run'.book = run.book /\ run'.entries = run.entries /\ run'.fills = run.fills
          /\ run'.picks = run.picks /\ run'.pick = run.pick
          /\ run'.exits = run.exits \ {t}
      BY <1>12, <1>t DEF ExitRefused, laneVars, TypeInv, TypeOK, RunMemory
    <2>2. PassInv'
      BY <1>t, <2>1, PassKept DEF InPass, Buying
    <2> QED BY <2>1, <2>2, <1>b
  <1>14. ASSUME NEW s \in Signals, SkipEntry(s) PROVE PassInv' /\ BookWithinCaps'
    <2>1. /\ pc = "enter" /\ pc' = "enter"
          /\ UNCHANGED <<book, entries, tradedOn, day>>
          /\ run'.book = run.book /\ run'.entries = run.entries /\ run'.fills = run.fills
          /\ run'.picks = run.picks \ {s} /\ run'.pick = run.pick
      BY <1>14, <1>t DEF SkipEntry, laneVars, TypeInv, TypeOK, RunMemory
    <2>2. PassInv'
      BY <1>t, <2>1, PassKept DEF InPass, Buying
    <2> QED BY <2>1, <2>2, <1>b
  <1>15. CASE Crash
    BY <1>15, <1>b, <1>i DEF Crash, laneVars, InPass
  <1>16. CASE Venue
    <2>1. /\ UNCHANGED <<run, pc, book, entries, tradedOn, day>> /\ VenueStep
      BY <1>16 DEF Venue, laneVars
    <2>2. Buying => orders'[run.order].ticker = orders[run.order].ticker
      BY <2>1, <1>v, <1>p, TickerKept
    <2>3. PassInv'
      BY <1>t, <2>1, <2>2, PassKept DEF InPass, Buying
    <2> QED BY <2>1, <2>3, <1>b
  <1>17. CASE NewDay
    BY <1>17, <1>b, <1>i DEF NewDay, laneVars, InPass
  <1>18. ASSUME NEW s \in Signals, SignalArrives(s) PROVE PassInv' /\ BookWithinCaps'
    BY <1>18, <1>b, <1>i DEF SignalArrives, laneVars, InPass
  <1>19. CASE UNCHANGED vars
    <2>1. UNCHANGED <<run, pc, orders, book, entries, tradedOn, day>>
      BY <1>19 DEF vars, laneVars, venueVars
    <2>2. PassInv'
      BY <1>t, <2>1, PassKept DEF InPass, Buying
    <2> QED BY <2>1, <2>2, <1>b
  <1> QED BY <1>1, <1>2, <1>3, <1>4, <1>5, <1>8, <1>9, <1>10, <1>12, <1>14, <1>15,
             <1>16, <1>17, <1>18, <1>19, ExitWithinCaps, PlaceWithinCaps,
             BookEntryWithinCaps, PersistWithinCaps
          DEF Next, RunStep

LEMMA InitCaps == Init => CapInv
  <1> SUFFICES ASSUME Init PROVE CapInv
    OBVIOUS
  <1>1. Held(book) = {} /\ entries.n = 0 /\ pc = "idle"
    BY DEF Init, Held, NoPosition
  <1>2. Cardinality(Held(book)) = 0
    BY <1>1, FS_EmptySet
  <1> QED BY <1>1, <1>2, InitType, LaneAssumption
          DEF CapInv, BookWithinCaps, PassInv, LaneAssumption

\* The hard caps hold for every book the lane ever writes, whatever fails.
THEOREM CapsHold == Spec => []BookWithinCaps
  <1>1. Init => CapInv
    BY InitCaps
  <1>2. CapInv /\ [Next]_vars => CapInv'
    BY StepType, PassStep DEF CapInv
  <1>3. CapInv => BookWithinCaps
    BY DEF CapInv
  <1> QED BY <1>1, <1>2, <1>3, PTL DEF Spec

-----------------------------------------------------------------------------
(* The refinement: the write of a pass is one Pass of the ledger, a new    *)
(* day is its NewDay, and everything else the lane, the venue or a crash   *)
(* does leaves the ledger alone.                                           *)

LEMMA PersistIsPass ==
  ASSUME CapInv, Persist
  PROVE  Ledger!Next
  <1>t. TypeInv /\ PassInv
    BY DEF CapInv
  <1> DEFINE sold == run.fills \cap Held(book)
  <1>1. /\ book' = run.book /\ entries' = [day |-> day, n |-> run.entries]
        /\ tradedOn' = [t \in Tickers |-> IF t \in run.fills THEN day ELSE tradedOn[t]]
        /\ pc = "enter" /\ UNCHANGED day
    BY DEF Persist
  <1>2. /\ \A t \in Tickers \ run.fills : run.book[t] = book[t]
        /\ \A t \in run.fills \ Opened : run.book[t] = NoPosition /\ t \in Held(book)
        /\ \A t \in Opened : run.book[t].opened = day /\ tradedOn[t] # day
        /\ run.entries = EntriesToday + Cardinality(Opened)
        /\ run.entries + Claims <= MaxEntriesPerDay
        /\ Cardinality(Held(run.book)) + Claims <= MaxPositions
    BY <1>1, <1>t DEF PassInv
  <1>3. /\ run.book \in [Tickers -> Position] /\ book \in [Tickers -> Position]
        /\ run.fills \subseteq Tickers /\ Opened \subseteq Tickers
    BY <1>t, CapTypes
  <1>4. Opened \subseteq run.fills /\ Opened \subseteq Held(run.book)
    BY DEF Opened
  <1>5. Ledger!Open = Held(book) /\ Ledger!CountToday = EntriesToday
    BY DEF Ledger!Open, Held, Ledger!CountToday, EntriesToday
  <1>6. sold \in SUBSET Ledger!Open
    BY <1>5
  <1>7. Opened \cap (Ledger!Open \ sold) = {}
    BY <1>4, <1>5
  <1>8. (Ledger!Open \ sold) \cup Opened = Held(run.book)
    <2>1. ASSUME NEW t \in Held(run.book) PROVE t \in (Held(book) \ sold) \cup Opened
      <3>1. t \in Tickers /\ run.book[t].qty > 0
        BY DEF Held
      <3>2. CASE t \in run.fills
        BY <3>2 DEF Opened
      <3>3. CASE t \notin run.fills
        BY <1>2, <3>1, <3>3 DEF Held
      <3> QED BY <3>2, <3>3
    <2>2. ASSUME NEW t \in Held(book) \ sold PROVE t \in Held(run.book)
      BY <1>2, <2>2 DEF Held
    <2> QED BY <1>4, <1>5, <2>1, <2>2
  <1>9. \E qty \in [Opened -> 1..Lot] :
          book' = [t \in Tickers |->
                     IF t \in Opened THEN [qty |-> qty[t], opened |-> day]
                     ELSE IF t \in sold THEN Ledger!Flat ELSE book[t]]
    <2> DEFINE qty == [t \in Opened |-> run.book[t].qty]
               b == [t \in Tickers |->
                       IF t \in Opened THEN [qty |-> qty[t], opened |-> day]
                       ELSE IF t \in sold THEN Ledger!Flat ELSE book[t]]
    <2>1. ASSUME NEW t \in Opened PROVE run.book[t].qty \in 1..Lot
      <3>1. run.book[t] \in Position /\ run.book[t].qty > 0
        BY <1>3, <1>4 DEF Held
      <3> QED BY <3>1, VenueAssumption DEF Position, VenueAssumption
    <2>2. qty \in [Opened -> 1..Lot]
      BY <2>1
    <2>3. ASSUME NEW t \in Tickers PROVE run.book[t] = b[t]
      <3>1. CASE t \in Opened
        <4>1. run.book[t] \in Position /\ run.book[t].opened = day
          BY <1>2, <1>3, <3>1
        <4>2. run.book[t] = [qty |-> run.book[t].qty, opened |-> day]
          BY <4>1 DEF Position
        <4> QED BY <3>1, <4>2
      <3>2. CASE t \notin Opened /\ t \in sold
        BY <1>2, <3>2 DEF NoPosition, Ledger!Flat
      <3>3. CASE t \notin Opened /\ t \notin sold
        BY <1>2, <3>3
      <3> QED BY <3>1, <3>2, <3>3
    <2>4. book' = b
      BY <1>1, <1>3, <2>3
    <2> QED BY <2>2, <2>4
  <1>10. tradedOn' = [t \in Tickers |-> IF t \in sold \cup Opened THEN day ELSE tradedOn[t]]
    <2>1. run.fills = sold \cup Opened
      BY <1>2, <1>4
    <2> QED BY <1>1, <2>1
  <1>11. /\ Cardinality((Ledger!Open \ sold) \cup Opened) <= MaxPositions
         /\ Ledger!CountToday + Cardinality(Opened) <= MaxEntriesPerDay
         /\ entries' = [day |-> day, n |-> Ledger!CountToday + Cardinality(Opened)]
    <2>1. Cardinality((Ledger!Open \ sold) \cup Opened) = Cardinality(Held(run.book))
      BY <1>8
    <2>2. Ledger!CountToday + Cardinality(Opened) = run.entries
      BY <1>2, <1>5
    <2>3. Cardinality(Held(run.book)) <= MaxPositions /\ run.entries <= MaxEntriesPerDay
      BY <1>2, <1>t, CapTypes
    <2> QED BY <1>1, <2>1, <2>2, <2>3
  <1> HIDE DEF sold
  <1>12. \A t \in Opened : tradedOn[t] # day
    BY <1>2
  <1>13. Ledger!Pass(sold, Opened)
    <2>1. \A S : Ledger!Cardinality(S) = Cardinality(S)
      BY DEF Ledger!Cardinality, Cardinality
    <2> QED BY <1>1, <1>7, <1>9, <1>10, <1>11, <1>12, <2>1 DEF Ledger!Pass
  <1> QED BY <1>3, <1>6, <1>13 DEF Ledger!Next

\* The persisted book of the ignition lane changes only by whole passes that
\* keep the caps, open no ticker an earlier pass of the day traded and resize
\* nothing: the detailed lane implements LaneLedger.
THEOREM LedgerImplemented == Spec => ImplementsLedger
  <1>1. Init => CapInv /\ Ledger!Init
    <2> SUFFICES ASSUME Init PROVE CapInv /\ Ledger!Init
      OBVIOUS
    <2>1. Held(book) = {} /\ entries.n = 0 /\ pc = "idle"
      BY DEF Init, Held, NoPosition
    <2>2. Cardinality(Held(book)) = 0
      BY <2>1, FS_EmptySet
    <2>3. CapInv
      BY <2>1, <2>2, InitType, LaneAssumption
         DEF CapInv, BookWithinCaps, PassInv, LaneAssumption
    <2> QED BY <2>3 DEF Init, VenueInit, Ledger!Init, Ledger!Flat, NoPosition
  <1>2. CapInv /\ [Next]_vars => CapInv'
    BY StepType, PassStep DEF CapInv
  <1>3. CapInv /\ [Next]_vars => [Ledger!Next]_(Ledger!ledgerVars)
    <2> SUFFICES ASSUME CapInv, [Next]_vars
                 PROVE  Ledger!Next \/ UNCHANGED <<book, entries, tradedOn, day>>
      BY DEF Ledger!ledgerVars
    <2>1. CASE Persist
      BY <2>1, PersistIsPass
    <2>2. CASE NewDay
      BY <2>2 DEF NewDay, laneVars, Ledger!Next, Ledger!NewDay
    <2>3. CASE RunStep /\ ~Persist
      BY <2>3 DEF RunStep, StartRun, StartWith, PickEntries, CancelUnfilled, CancelLost,
         ReadFails, BookEntry, MarkTraded, ReportDivergence, ReportSkipped, Exit,
         ExitRefused, PlaceEntry, SkipEntry, laneVars
    <2>4. CASE Crash \/ Venue \/ \E s \in Signals : SignalArrives(s)
      BY <2>4 DEF Crash, Venue, SignalArrives, laneVars
    <2>5. CASE UNCHANGED vars
      BY <2>5 DEF vars, laneVars
    <2> QED BY <2>1, <2>2, <2>3, <2>4, <2>5 DEF Next
  <1> QED BY <1>1, <1>2, <1>3, PTL DEF Spec, ImplementsLedger, Ledger!Spec

-----------------------------------------------------------------------------
(* Book and account.  Between the fill of an order and its booking the     *)
(* account is ahead of the run's memory by what that order filled; apart   *)
(* from this the two agree at every step, not only between two runs.       *)

LaneBook == IF InPass THEN run.book ELSE book

\* The orders of t that the pass is not waiting for, and the shares the one
\* it waits for has brought so far.
Settled(t) == {i \in OrdersOf(t) : ~(Buying /\ i = run.order)}
OnOrder(t) ==
  IF Buying /\ orders[run.order].ticker = t /\ orders[run.order].legs # "done"
  THEN orders[run.order].filled ELSE 0
Net(t) == shares[t] - selling[t] - OnOrder(t)

\* The account holds what the book says, and live legs protect just that.
Agrees(t) ==
  /\ Net(t) = LaneBook[t].qty
  /\ LaneBook[t].qty > 0 =>
       \E i \in Settled(t) : Filled(i) /\ orders[i].day = LaneBook[t].opened
  /\ \A i \in Settled(t) : orders[i].legs = "live" =>
       orders[i].filled = LaneBook[t].qty /\ orders[i].day = LaneBook[t].opened

\* A leg sold the position the book still has.
Gone(t) ==
  /\ Net(t) = 0 /\ LaneBook[t].qty > 0
  /\ \E i \in Settled(t) : /\ orders[i].legs = "done" /\ Filled(i)
                           /\ orders[i].day = LaneBook[t].opened
  /\ \A i \in Settled(t) : orders[i].legs # "live"

Accounted(t) == Doubled(t) \/ Agrees(t) \/ Gone(t)

\* Legs belong to fills, and nothing rests but the order of the running pass.
LegsOK ==
  \A i \in Placed : /\ orders[i].legs # "none" => Filled(i)
                    /\ Open(i) => orders[i].legs = "none"
NothingElseRests == \A i \in Placed : Open(i) => pc = "settle" /\ i = run.order
BoughtToday ==
  /\ Buying => orders[run.order].day = day
  /\ InPass => \A s \in run.picks \cup run.pick :
                 run.book[s[1]].qty = 0 \/ run.book[s[1]].opened = day

AccountInv ==
  /\ LegsOK
  /\ faults = 0 =>
       NothingElseRests /\ BoughtToday /\ \A t \in Tickers : Accounted(t)

-----------------------------------------------------------------------------
(* What a call does to one order.                                          *)

LEMMA CancelView ==
  ASSUME VenueInv, NEW i \in Placed, CancelOrder(i)
  PROVE  /\ \A j \in Placed \ {i} : orders'[j] = orders[j]
         /\ UNCHANGED <<placed, shares, selling>>
         /\ Open(i) /\ orders'[i].status = "canceled"
         /\ orders'[i].ticker = orders[i].ticker /\ orders'[i].day = orders[i].day
         /\ orders'[i].filled = orders[i].filled
         /\ orders'[i].legs \in {"none", "live"}
         /\ orders'[i].legs = "live" => Filled(i)
  <1>1. orders[i] \in Order /\ orders \in [Placed -> Order]
    BY DEF VenueInv, VenueTypeOK
  <1>2. PICK legs \in IF Filled(i) THEN {"none", "live"} ELSE {"none"} :
          orders' = [orders EXCEPT ![i] = [orders[i] EXCEPT !.status = "canceled", !.legs = legs]]
    BY DEF CancelOrder
  <1> DEFINE o == [orders[i] EXCEPT !.status = "canceled", !.legs = legs]
  <1>3. /\ o.status = "canceled" /\ o.legs = legs /\ o.ticker = orders[i].ticker
        /\ o.day = orders[i].day /\ o.filled = orders[i].filled
    BY <1>1 DEF Order
  <1>4. orders' = [orders EXCEPT ![i] = o]
    BY <1>2
  <1> HIDE DEF o
  <1>5. orders'[i] = o /\ \A j \in Placed \ {i} : orders'[j] = orders[j]
    BY <1>1, <1>4
  <1> QED BY <1>2, <1>3, <1>5 DEF CancelOrder

LEMMA RestingView ==
  ASSUME VenueInv, NEW t \in Tickers, orders' = WithoutResting(t), UNCHANGED placed,
         NEW j \in Placed
  PROVE  /\ orders'[j].ticker = orders[j].ticker /\ orders'[j].day = orders[j].day
         /\ orders'[j].filled = orders[j].filled
         /\ orders'[j].status = "new" => Open(j)
         /\ orders'[j].legs \in {orders[j].legs, "none"}
         /\ orders[j].legs = "done" => orders'[j].legs = "done"
         /\ j \in OrdersOf(t) => orders'[j].legs # "live"
  <1>1. orders[j] \in Order
    BY DEF VenueInv, VenueTypeOK
  <1>2. CASE j \in OrdersOf(t)
    <2> DEFINE s == IF orders[j].status = "new" THEN "canceled" ELSE orders[j].status
               l == IF orders[j].legs = "live" THEN "none" ELSE orders[j].legs
    <2>1. orders'[j] = [orders[j] EXCEPT !.status = s, !.legs = l]
      BY <1>1, <1>2 DEF WithoutResting, Order
    <2>2. s # "new" /\ l \in {orders[j].legs, "none"} /\ l # "live"
          /\ (orders[j].legs = "done" => l = "done")
      OBVIOUS
    <2> HIDE DEF s, l
    <2>3. /\ orders'[j].ticker = orders[j].ticker /\ orders'[j].day = orders[j].day
          /\ orders'[j].filled = orders[j].filled
          /\ orders'[j].status = s /\ orders'[j].legs = l
      BY <1>1, <2>1 DEF Order
    <2> QED BY <2>2, <2>3
  <1>3. CASE j \notin OrdersOf(t)
    <2>1. orders'[j] = orders[j]
      BY <1>3 DEF WithoutResting
    <2> QED BY <1>3, <2>1 DEF Open
  <1> QED BY <1>2, <1>3

LEMMA FillView ==
  ASSUME VenueInv, NEW i \in Placed, FillShare(i)
  PROVE  /\ \A j \in Placed \ {i} : orders'[j] = orders[j]
         /\ UNCHANGED <<placed, selling>> /\ Open(i)
         /\ shares' = [shares EXCEPT ![orders[i].ticker] = shares[orders[i].ticker] + 1]
         /\ orders'[i].ticker = orders[i].ticker /\ orders'[i].day = orders[i].day
         /\ orders'[i].filled = orders[i].filled + 1
         /\ orders'[i].legs \in {"none", "live"}
         /\ orders'[i].status = "new" => orders'[i].legs = "none"
  <1>1. orders[i] \in Order /\ orders \in [Placed -> Order]
    BY DEF VenueInv, VenueTypeOK
  <1> DEFINE n == orders[i].filled + 1
             s == IF n = Lot THEN "filled" ELSE "new"
             l == IF n = Lot THEN "live" ELSE "none"
             o == [orders[i] EXCEPT !.filled = n, !.status = s, !.legs = l]
  <1>2. orders' = [orders EXCEPT ![i] = o]
    BY DEF FillShare
  <1>3. l \in {"none", "live"} /\ (s = "new" => l = "none")
    OBVIOUS
  <1> HIDE DEF n, s, l
  <1>4. /\ o.filled = n /\ o.status = s /\ o.legs = l
        /\ o.ticker = orders[i].ticker /\ o.day = orders[i].day
    BY <1>1 DEF Order
  <1> HIDE DEF o
  <1>5. orders'[i] = o /\ \A j \in Placed \ {i} : orders'[j] = orders[j]
    BY <1>1, <1>2
  <1>6. /\ UNCHANGED <<placed, selling>> /\ Open(i)
        /\ shares' = [shares EXCEPT ![orders[i].ticker] = shares[orders[i].ticker] + 1]
    BY DEF FillShare
  <1>7. n = orders[i].filled + 1
    BY DEF n
  <1> QED BY <1>3, <1>4, <1>5, <1>6, <1>7

LEMMA RejectView ==
  ASSUME VenueInv, NEW i \in Placed, RejectOrder(i)
  PROVE  /\ \A j \in Placed \ {i} : orders'[j] = orders[j]
         /\ UNCHANGED <<placed, shares, selling>> /\ Open(i)
         /\ orders'[i].status = "canceled"
         /\ orders'[i].ticker = orders[i].ticker /\ orders'[i].day = orders[i].day
         /\ orders'[i].filled = orders[i].filled /\ orders'[i].legs = orders[i].legs
  <1>1. orders[i] \in Order /\ orders \in [Placed -> Order]
    BY DEF VenueInv, VenueTypeOK
  <1> DEFINE o == [orders[i] EXCEPT !.status = "canceled"]
  <1>2. /\ o.status = "canceled" /\ o.ticker = orders[i].ticker /\ o.day = orders[i].day
        /\ o.filled = orders[i].filled /\ o.legs = orders[i].legs
    BY <1>1 DEF Order
  <1>3. orders' = [orders EXCEPT ![i] = o]
    BY DEF RejectOrder
  <1> HIDE DEF o
  <1>4. orders'[i] = o /\ \A j \in Placed \ {i} : orders'[j] = orders[j]
    BY <1>1, <1>3
  <1> QED BY <1>2, <1>4 DEF RejectOrder

LEMMA LegView ==
  ASSUME VenueInv, NEW i \in Placed, LegFires(i)
  PROVE  /\ \A j \in Placed \ {i} : orders'[j] = orders[j]
         /\ UNCHANGED <<placed, selling>>
         /\ shares' = [shares EXCEPT ![orders[i].ticker] =
                                       shares[orders[i].ticker] - orders[i].filled]
         /\ orders[i].legs = "live" /\ orders'[i].legs = "done"
         /\ orders'[i].ticker = orders[i].ticker /\ orders'[i].day = orders[i].day
         /\ orders'[i].filled = orders[i].filled /\ orders'[i].status = orders[i].status
  <1>1. orders[i] \in Order /\ orders \in [Placed -> Order]
    BY DEF VenueInv, VenueTypeOK
  <1> DEFINE o == [orders[i] EXCEPT !.legs = "done"]
  <1>2. /\ o.legs = "done" /\ o.ticker = orders[i].ticker /\ o.day = orders[i].day
        /\ o.filled = orders[i].filled /\ o.status = orders[i].status
    BY <1>1 DEF Order
  <1>3. orders' = [orders EXCEPT ![i] = o]
    BY DEF LegFires
  <1> HIDE DEF o
  <1>4. orders'[i] = o /\ \A j \in Placed \ {i} : orders'[j] = orders[j]
    BY <1>1, <1>3
  <1> QED BY <1>2, <1>4 DEF LegFires

LEMMA SubmitView ==
  ASSUME VenueInv, NEW t \in Tickers, Submit(t)
  PROVE  /\ \A j \in Placed : orders'[j] = orders[j]
         /\ Placed' = Placed \cup {placed'} /\ placed' = placed + 1 /\ placed' \notin Placed
         /\ UNCHANGED <<shares, selling>>
         /\ orders'[placed'].ticker = t /\ orders'[placed'].day = day
         /\ orders'[placed'].filled = 0 /\ orders'[placed'].status = "new"
         /\ orders'[placed'].legs = "none"
  <1>1. placed \in Nat
    BY DEF VenueInv, VenueTypeOK
  <1> DEFINE o == [ticker |-> t, day |-> day, filled |-> 0,
                   status |-> "new", legs |-> "none"]
  <1>2. /\ o.ticker = t /\ o.day = day /\ o.filled = 0
        /\ o.status = "new" /\ o.legs = "none"
    OBVIOUS
  <1>3. /\ orders' = [i \in 1..placed + 1 |-> IF i \in Placed THEN orders[i] ELSE o]
        /\ placed' = placed + 1
    BY DEF Submit
  <1> HIDE DEF o
  <1>4. Placed' = Placed \cup {placed'} /\ placed' \notin Placed
    BY <1>1, <1>3 DEF Placed
  <1>5. \A j \in Placed : orders'[j] = orders[j]
    BY <1>1, <1>3 DEF Placed
  <1>6. orders'[placed'] = o
    BY <1>1, <1>3 DEF Placed
  <1> QED BY <1>2, <1>3, <1>4, <1>5, <1>6 DEF Submit

-----------------------------------------------------------------------------
(* What a step may do to the orders without touching a ticker's account.   *)

\* An order keeps its ticker, its day and the fact that it traded.
Lasts(j) == /\ j \in Placed'
            /\ orders'[j].ticker = orders[j].ticker /\ orders'[j].day = orders[j].day
            /\ orders[j].filled > 0 => orders'[j].filled > 0

LEMMA DoubledKept ==
  ASSUME NEW t, \A j \in Placed : Lasts(j), Doubled(t)
  PROVE  Doubled(t)'
  <1>1. PICK i, j \in OrdersOf(t) : /\ i # j /\ orders[i].day = orders[j].day
                                    /\ Filled(i) /\ Filled(j)
    BY DEF Doubled
  <1>2. i \in OrdersOf(t)' /\ j \in OrdersOf(t)'
    BY <1>1 DEF OrdersOf, Lasts
  <1>3. orders'[i].day = orders'[j].day /\ orders'[i].filled > 0 /\ orders'[j].filled > 0
    BY <1>1 DEF OrdersOf, Lasts, Filled
  <1> QED BY <1>1, <1>2, <1>3 DEF Doubled, Filled

\* An order that is booked keeps its fill, and its legs do not come back.
Settles(j) == /\ orders'[j].filled = orders[j].filled
              /\ orders'[j].legs = "live" => orders[j].legs = "live"
              /\ orders[j].legs = "done" => orders'[j].legs = "done"

LEMMA AccountedKept ==
  ASSUME NEW t \in Tickers, Accounted(t), \A j \in Placed : Lasts(j),
         Settled(t)' = Settled(t), \A j \in Settled(t) : Settles(j),
         Net(t)' = Net(t), (LaneBook[t])' = LaneBook[t]
  PROVE  Accounted(t)'
  <1>s. \A j \in Settled(t) : orders'[j].day = orders[j].day
    BY DEF Settled, OrdersOf, Lasts
  <1>1. CASE Doubled(t)
    BY <1>1, DoubledKept DEF Accounted
  <1>2. CASE Agrees(t)
    <2>1. Agrees(t)'
      BY <1>s, <1>2 DEF Agrees, Settles, Filled
    <2> QED BY <2>1 DEF Accounted
  <1>3. CASE Gone(t)
    <2>1. Gone(t)'
      BY <1>s, <1>3 DEF Gone, Settles, Filled
    <2> QED BY <2>1 DEF Accounted
  <1> QED BY <1>1, <1>2, <1>3 DEF Accounted

\* A step that leaves the orders and what the account will hold alone has only
\* to keep the picks of the pass.
LEMMA AccountUndisturbed ==
  ASSUME AccountInv, faults' = 0 => faults = 0, UNCHANGED <<orders, placed>>,
         Buying' = Buying, Buying => run'.order = run.order /\ day' = day,
         pc = "settle" => pc' = "settle",
         LaneBook' = LaneBook,
         \A t \in Tickers : shares'[t] - selling'[t] = shares[t] - selling[t],
         faults' = 0 /\ InPass' => \A s \in run'.picks \cup run'.pick :
           run'.book[s[1]].qty = 0 \/ run'.book[s[1]].opened = day'
  PROVE  AccountInv'
  <1>1. Placed' = Placed
    BY DEF Placed
  <1>2. LegsOK'
    BY <1>1 DEF AccountInv, LegsOK, Open, Filled
  <1>3. ASSUME faults' = 0
        PROVE  NothingElseRests' /\ BoughtToday' /\ \A t \in Tickers : Accounted(t)'
    <2>1. NothingElseRests /\ BoughtToday /\ \A t \in Tickers : Accounted(t)
      BY <1>3 DEF AccountInv
    <2>2. NothingElseRests'
      BY <1>1, <2>1 DEF NothingElseRests, Open, Buying
    <2>3. BoughtToday'
      BY <1>3, <2>1 DEF BoughtToday
    <2>4. ASSUME NEW t \in Tickers PROVE Accounted(t)'
      <3>1. Settled(t)' = Settled(t)
        BY <1>1 DEF Settled, OrdersOf
      <3>2. OnOrder(t)' = OnOrder(t)
        BY DEF OnOrder
      <3>3. Net(t)' = Net(t)
        BY <3>2 DEF Net
      <3>4. (LaneBook[t])' = LaneBook[t]
        OBVIOUS
      <3>5. \A j \in Placed : Lasts(j)
        BY <1>1 DEF Lasts
      <3>6. \A j \in Settled(t) : Settles(j)
        BY DEF Settles
      <3> QED BY <2>1, <3>1, <3>3, <3>4, <3>5, <3>6, AccountedKept
    <2> QED BY <2>2, <2>3, <2>4
  <1> QED BY <1>2, <1>3 DEF AccountInv

\* After a fault nothing is claimed but the shape of the legs.
LEMMA AccountFaulted ==
  ASSUME LegsOK', faults' # 0
  PROVE  AccountInv'
  BY DEF AccountInv

LEMMA SameLegs ==
  ASSUME LegsOK, UNCHANGED <<orders, placed>>
  PROVE  LegsOK'
  BY DEF LegsOK, Placed, Open, Filled

\* The order the pass waits for is the only one its own steps and, of the
\* orders that rest, the venue can touch: the accounts stay as they are.
LEMMA PendingMoves ==
  ASSUME TypeInv, AccountInv, faults' = 0 => faults = 0, UNCHANGED <<placed, run, book, day>>,
         NEW i \in Placed, pc = "settle" /\ i = run.order, pc' \in {"settle", "book"},
         \A j \in Placed \ {i} : orders'[j] = orders[j],
         Lasts(i), LegsOK',
         orders'[i].status = "new" => pc' = "settle",
         \A t \in Tickers : Net(t)' = Net(t)
  PROVE  AccountInv'
  <1>1. Placed' = Placed
    BY DEF Placed
  <1>2. ASSUME faults' = 0
        PROVE  NothingElseRests' /\ BoughtToday' /\ \A t \in Tickers : Accounted(t)'
    <2>1. NothingElseRests /\ BoughtToday /\ \A t \in Tickers : Accounted(t)
      BY <1>2 DEF AccountInv
    <2>2. NothingElseRests'
      BY <1>1, <2>1 DEF NothingElseRests, Open
    <2>3. BoughtToday'
      <3>1. InPass /\ Buying
        BY DEF InPass, Buying
      <3> QED BY <2>1, <3>1 DEF BoughtToday, Lasts
    <2>4. ASSUME NEW t \in Tickers PROVE Accounted(t)'
      <3>0. Buying /\ Buying'
        BY DEF Buying
      <3>1. Settled(t)' = Settled(t)
        <4>1. \A j \in Placed : j # i => (j \in OrdersOf(t)' <=> j \in OrdersOf(t))
          BY <1>1 DEF OrdersOf
        <4>2. Settled(t) = {j \in OrdersOf(t) : j # i} /\ Settled(t)' = {j \in OrdersOf(t)' : j # i}
          BY <3>0 DEF Settled
        <4>3. OrdersOf(t) \subseteq Placed /\ OrdersOf(t)' \subseteq Placed
          BY <1>1 DEF OrdersOf
        <4> QED BY <4>1, <4>2, <4>3
      <3>2. (LaneBook[t])' = LaneBook[t]
        BY DEF LaneBook, InPass
      <3>3. \A j \in Placed : Lasts(j)
        BY <1>1 DEF Lasts
      <3>4. \A j \in Settled(t) : Settles(j)
        <4>1. \A j \in Settled(t) : j \in Placed \ {i}
          BY <3>0 DEF Settled, OrdersOf
        <4> QED BY <4>1 DEF Settles
      <3> QED BY <2>1, <3>1, <3>2, <3>3, <3>4, AccountedKept
    <2> QED BY <2>2, <2>3, <2>4
  <1> QED BY <1>2 DEF AccountInv

\* settle_or_cancel ends the wait for an order.
LEMMA CancelAccounted ==
  ASSUME TypeInv, AccountInv, CancelUnfilled
  PROVE  AccountInv'
  <1>1. /\ pc = "settle" /\ pc' = "book" /\ CancelOrder(run.order)
        /\ UNCHANGED <<run, book, day, faults>>
    BY DEF CancelUnfilled, laneVars
  <1>2. run.order \in Placed /\ VenueInv
    BY <1>1 DEF TypeInv, TypeOK, VenueInv
  <1> DEFINE i == run.order
  <1>3. /\ \A j \in Placed \ {i} : orders'[j] = orders[j]
        /\ UNCHANGED <<placed, shares, selling>>
        /\ Open(i) /\ orders'[i].status = "canceled"
        /\ orders'[i].ticker = orders[i].ticker /\ orders'[i].day = orders[i].day
        /\ orders'[i].filled = orders[i].filled
        /\ orders'[i].legs \in {"none", "live"}
        /\ orders'[i].legs = "live" => Filled(i)
    BY <1>1, <1>2, CancelView
  <1>4. Placed' = Placed /\ Lasts(i)
    BY <1>2, <1>3 DEF Lasts, Placed
  <1>5. orders[i].legs = "none"
    BY <1>2, <1>3 DEF AccountInv, LegsOK
  <1>6. LegsOK'
    <2>1. orders'[i].legs # "none" => orders'[i].filled > 0
      BY <1>3 DEF Filled
    <2>2. ASSUME NEW j \in Placed \ {i}
          PROVE  /\ orders'[j].legs # "none" => orders'[j].filled > 0
                 /\ orders'[j].status = "new" => orders'[j].legs = "none"
      BY <1>3 DEF AccountInv, LegsOK, Open, Filled
    <2> QED BY <1>3, <1>4, <2>1, <2>2 DEF LegsOK, Open, Filled
  <1>7. ASSUME NEW t \in Tickers PROVE Net(t)' = Net(t)
    <2>1. OnOrder(t)' = OnOrder(t)
      BY <1>1, <1>3, <1>5 DEF OnOrder, Buying
    <2> QED BY <1>3, <2>1 DEF Net
  <1> HIDE DEF i
  <1>8. i = run.order
    BY DEF i
  <1> QED BY <1>1, <1>2, <1>3, <1>4, <1>6, <1>7, <1>8, PendingMoves

\* An order on its way to the venue changes no account yet.
LEMMA PlaceAccounted ==
  ASSUME TypeInv, AccountInv, NEW s \in Signals, PlaceEntry(s)
  PROVE  AccountInv'
  <1>1. /\ pc = "enter" /\ pc' = "settle" /\ s \in run.picks /\ Submit(s[1])
        /\ UNCHANGED <<book, day, faults>>
        /\ run'.book = run.book /\ run'.picks = run.picks \ {s}
        /\ run'.pick = {s} /\ run'.order = placed + 1
    <2>1. run \in RunMemory
      BY DEF TypeInv, TypeOK
    <2>2. run' = [run EXCEPT !.picks = run.picks \ {s}, !.pick = {s}, !.order = placed + 1]
      BY <2>1 DEF PlaceEntry, RunMemory
    <2>3. /\ run'.book = run.book /\ run'.picks = run.picks \ {s}
          /\ run'.pick = {s} /\ run'.order = placed + 1
      BY <2>1, <2>2 DEF RunMemory
    <2> QED BY <2>3 DEF PlaceEntry, laneVars
  <1>2. s[1] \in Tickers /\ VenueInv
    BY DEF Signals, TypeInv, TypeOK, VenueInv
  <1>3. /\ \A j \in Placed : orders'[j] = orders[j]
        /\ Placed' = Placed \cup {placed'} /\ placed' = placed + 1 /\ placed' \notin Placed
        /\ UNCHANGED <<shares, selling>>
        /\ orders'[placed'].ticker = s[1] /\ orders'[placed'].day = day
        /\ orders'[placed'].filled = 0 /\ orders'[placed'].status = "new"
        /\ orders'[placed'].legs = "none"
    BY <1>1, <1>2, SubmitView
  <1>4. LegsOK'
    BY <1>3 DEF AccountInv, LegsOK, Open, Filled
  <1>5. ASSUME faults' = 0
        PROVE  NothingElseRests' /\ BoughtToday' /\ \A t \in Tickers : Accounted(t)'
    <2>1. NothingElseRests /\ BoughtToday /\ \A t \in Tickers : Accounted(t)
      BY <1>1, <1>5 DEF AccountInv
    <2>2. NothingElseRests'
      BY <1>1, <1>3, <2>1 DEF NothingElseRests, Open
    <2>3. BoughtToday'
      <3>1. InPass
        BY <1>1 DEF InPass
      <3>2. \A x \in run'.picks \cup run'.pick : x \in run.picks
        BY <1>1
      <3> QED BY <1>1, <1>3, <2>1, <3>1, <3>2 DEF BoughtToday
    <2>4. ASSUME NEW t \in Tickers PROVE Accounted(t)'
      <3>0. ~Buying /\ Buying'
        BY <1>1 DEF Buying
      <3>1. Settled(t)' = Settled(t)
        <4>1. Settled(t) = OrdersOf(t) /\ Settled(t)' = {j \in OrdersOf(t)' : j # placed'}
          BY <3>0, <1>1, <1>3 DEF Settled
        <4>2. \A j \in Placed : j \in OrdersOf(t)' <=> j \in OrdersOf(t)
          BY <1>3 DEF OrdersOf
        <4>3. OrdersOf(t) \subseteq Placed /\ OrdersOf(t)' \subseteq Placed \cup {placed'}
          BY <1>3 DEF OrdersOf
        <4> QED BY <1>3, <4>1, <4>2, <4>3
      <3>2. OnOrder(t)' = OnOrder(t)
        BY <3>0, <1>1, <1>3 DEF OnOrder
      <3>3. Net(t)' = Net(t)
        BY <1>3, <3>2 DEF Net
      <3>4. (LaneBook[t])' = LaneBook[t]
        BY <1>1 DEF LaneBook, InPass
      <3>5. \A j \in Placed : Lasts(j)
        BY <1>3 DEF Lasts
      <3>6. \A j \in Settled(t) : Settles(j)
        BY <1>3 DEF Settles, Settled, OrdersOf
      <3> QED BY <2>1, <3>1, <3>3, <3>4, <3>5, <3>6, AccountedKept
    <2> QED BY <2>2, <2>3, <2>4
  <1> QED BY <1>4, <1>5 DEF AccountInv

\* close_position cancels what rests for a ticker: no order of it keeps a leg.
LEMMA RestingAccounted ==
  ASSUME TypeInv, LegsOK, NEW t \in Tickers, orders' = WithoutResting(t), UNCHANGED placed
  PROVE  /\ LegsOK' /\ Placed' = Placed
         /\ \A j \in Placed : Lasts(j) /\ Settles(j) /\ (orders'[j].status = "new" => Open(j))
         /\ \A x : OrdersOf(x)' = OrdersOf(x)
         /\ \A j \in OrdersOf(t) : orders'[j].legs # "live"
  <1>1. Placed' = Placed /\ VenueInv
    BY DEF Placed, TypeInv, TypeOK, VenueInv
  <1>2. ASSUME NEW j \in Placed
        PROVE  /\ orders'[j].ticker = orders[j].ticker /\ orders'[j].day = orders[j].day
               /\ orders'[j].filled = orders[j].filled
               /\ orders'[j].status = "new" => Open(j)
               /\ orders'[j].legs \in {orders[j].legs, "none"}
               /\ orders[j].legs = "done" => orders'[j].legs = "done"
               /\ j \in OrdersOf(t) => orders'[j].legs # "live"
    BY <1>1, RestingView
  <1>3. LegsOK'
    BY <1>1, <1>2 DEF LegsOK, Open, Filled
  <1>4. \A j \in Placed : Lasts(j) /\ Settles(j) /\ (orders'[j].status = "new" => Open(j))
    BY <1>1, <1>2 DEF Lasts, Settles
  <1>5. \A x : OrdersOf(x)' = OrdersOf(x)
    BY <1>1, <1>2 DEF OrdersOf
  <1>6. \A j \in OrdersOf(t) : orders'[j].legs # "live"
    BY <1>2 DEF OrdersOf
  <1> QED BY <1>1, <1>3, <1>4, <1>5, <1>6

\* An accepted sell empties book and account, and no leg stays behind.
LEMMA ExitAccounted ==
  ASSUME TypeInv, AccountInv, NEW t \in Tickers, Exit(t)
  PROVE  AccountInv'
  <1>1. /\ pc = "exits" /\ pc' = "exits" /\ ClosePosition(t)
        /\ UNCHANGED <<book, day, faults, placed, shares>>
        /\ run'.book = [run.book EXCEPT ![t] = NoPosition]
        /\ run'.picks = run.picks /\ run'.pick = run.pick
    <2> DEFINE b == [run.book EXCEPT ![t] = NoPosition]
    <2>1. run' = [run EXCEPT !.exits = run.exits \ {t}, !.book = b,
                             !.fills = run.fills \cup {t}, !.sells = run.sells + 1]
      BY DEF Exit, TypeInv, TypeOK, RunMemory
    <2> HIDE DEF b
    <2>2. run'.book = b /\ run'.picks = run.picks /\ run'.pick = run.pick
      BY <2>1 DEF TypeInv, TypeOK, RunMemory
    <2> QED BY <2>2 DEF Exit, laneVars, ClosePosition, b
  <1>2. /\ shares \in [Tickers -> Int] /\ selling \in [Tickers -> Nat]
        /\ run.book \in [Tickers -> Position]
    BY DEF TypeInv, TypeOK, VenueTypeOK, RunMemory
  <1>3. orders' = WithoutResting(t) /\ selling' = [selling EXCEPT ![t] = shares[t]]
    BY <1>1 DEF ClosePosition
  <1>4. /\ LegsOK' /\ Placed' = Placed
        /\ \A j \in Placed : Lasts(j) /\ Settles(j) /\ (orders'[j].status = "new" => Open(j))
        /\ \A x : OrdersOf(x)' = OrdersOf(x)
        /\ \A j \in OrdersOf(t) : orders'[j].legs # "live"
    BY <1>1, <1>3, RestingAccounted DEF AccountInv
  <1>5. ~Buying /\ ~Buying' /\ InPass /\ InPass'
    BY <1>1 DEF Buying, InPass
  <1>6. \A x : Settled(x) = OrdersOf(x) /\ Settled(x)' = OrdersOf(x)
    BY <1>4, <1>5 DEF Settled
  <1>7. ASSUME faults' = 0
        PROVE  NothingElseRests' /\ BoughtToday' /\ \A x \in Tickers : Accounted(x)'
    <2>1. NothingElseRests /\ BoughtToday /\ \A x \in Tickers : Accounted(x)
      BY <1>1, <1>7 DEF AccountInv
    <2>2. NothingElseRests'
      BY <1>1, <1>4, <2>1 DEF NothingElseRests, Open
    <2>3. \A s \in run.picks \cup run.pick : s[1] \in Tickers
      BY DEF TypeInv, TypeOK, RunMemory, Signals
    <2>4. BoughtToday'
      BY <1>1, <1>2, <1>5, <2>1, <2>3 DEF BoughtToday, NoPosition
    <2>5. ASSUME NEW x \in Tickers PROVE Accounted(x)'
      <3>1. OnOrder(x) = 0 /\ OnOrder(x)' = 0
        BY <1>5 DEF OnOrder
      <3>2. CASE x = t
        <4>1. (LaneBook[t])' = NoPosition
          BY <1>1, <1>2, <1>5 DEF LaneBook
        <4>2. Net(t)' = 0
          BY <1>1, <1>2, <1>3, <3>1, <3>2 DEF Net
        <4>3. \A j \in Settled(t)' : orders'[j].legs # "live"
          BY <1>4, <1>6
        <4>4. Agrees(t)'
          BY <4>1, <4>2, <4>3 DEF Agrees, NoPosition
        <4> QED BY <3>2, <4>4 DEF Accounted
      <3>3. CASE x # t
        <4>1. (LaneBook[x])' = LaneBook[x]
          BY <1>1, <1>2, <1>5, <3>3 DEF LaneBook
        <4>2. Net(x)' = Net(x)
          BY <1>1, <1>2, <1>3, <3>1, <3>3 DEF Net
        <4>3. Settled(x)' = Settled(x) /\ \A j \in Settled(x) : Settles(j)
          BY <1>4, <1>6 DEF OrdersOf
        <4> QED BY <1>4, <2>1, <4>1, <4>2, <4>3, AccountedKept
      <3> QED BY <3>2, <3>3
    <2> QED BY <2>2, <2>4, <2>5
  <1> QED BY <1>4, <1>7 DEF AccountInv

\* A refused one may have cancelled the legs; the shares are where they were.
LEMMA RefusalAccounted ==
  ASSUME TypeInv, AccountInv, NEW t \in Tickers, ExitRefused(t)
  PROVE  AccountInv'
  <1>1. /\ pc = "exits" /\ pc' = "exits" /\ ClosePositionRefused(t)
        /\ UNCHANGED <<book, day, placed, shares, selling>>
        /\ run'.book = run.book /\ run'.picks = run.picks /\ run'.pick = run.pick
        /\ faults' = faults \/ faults' = faults + 1
    <2>1. run'.book = run.book /\ run'.picks = run.picks /\ run'.pick = run.pick
      BY DEF ExitRefused, TypeInv, TypeOK, RunMemory
    <2> QED BY <2>1 DEF ExitRefused, laneVars, ClosePositionRefused
  <1>2. /\ LegsOK' /\ Placed' = Placed
        /\ \A j \in Placed : Lasts(j) /\ Settles(j) /\ (orders'[j].status = "new" => Open(j))
        /\ \A x : OrdersOf(x)' = OrdersOf(x)
    <2>1. CASE orders' = WithoutResting(t)
      BY <1>1, <2>1, RestingAccounted DEF AccountInv
    <2>2. CASE orders' = orders
      BY <1>1, <2>2, SameLegs DEF AccountInv, Lasts, Settles, OrdersOf, Placed, Open
    <2> QED BY <1>1, <2>1, <2>2 DEF ClosePositionRefused
  <1>3. faults' = 0 => faults = 0
    BY <1>1 DEF TypeInv, TypeOK
  <1>5. ~Buying /\ ~Buying' /\ InPass /\ InPass'
    BY <1>1 DEF Buying, InPass
  <1>7. ASSUME faults' = 0
        PROVE  NothingElseRests' /\ BoughtToday' /\ \A x \in Tickers : Accounted(x)'
    <2>1. NothingElseRests /\ BoughtToday /\ \A x \in Tickers : Accounted(x)
      BY <1>3, <1>7 DEF AccountInv
    <2>2. NothingElseRests'
      BY <1>1, <1>2, <2>1 DEF NothingElseRests, Open
    <2>3. BoughtToday'
      BY <1>1, <1>5, <2>1 DEF BoughtToday
    <2>4. ASSUME NEW x \in Tickers PROVE Accounted(x)'
      <3>1. OnOrder(x) = 0 /\ OnOrder(x)' = 0
        BY <1>5 DEF OnOrder
      <3>2. Net(x)' = Net(x)
        BY <1>1, <3>1 DEF Net
      <3>3. (LaneBook[x])' = LaneBook[x]
        BY <1>1, <1>5 DEF LaneBook
      <3>4. Settled(x)' = Settled(x) /\ \A j \in Settled(x) : Settles(j)
        BY <1>2, <1>5 DEF Settled, OrdersOf
      <3> QED BY <1>2, <2>1, <3>2, <3>3, <3>4, AccountedKept
    <2> QED BY <2>2, <2>3, <2>4
  <1> QED BY <1>2, <1>7 DEF AccountInv

\* What a pass waited for is booked as far as it filled; a second fill of one
\* ticker and day is Doubled.
LEMMA BookAccounted ==
  ASSUME TypeInv, PassInv, AccountInv, BookEntry
  PROVE  AccountInv'
  <1>0. Buying /\ InPass
    BY DEF BookEntry, Buying, InPass
  <1>4. PICK s \in Signals : run.pick = {s} /\ orders[run.order].ticker = s[1]
    BY <1>0 DEF PassInv, InPass
  <1> DEFINE i == run.order
             t == s[1]
             n == orders[run.order].filled
             position == [qty |-> n, opened |-> day]
             next == [run EXCEPT !.pick = {}, !.order = 0]
  <1>1. /\ Buying /\ InPass /\ pc' = "enter" /\ ~Buying' /\ InPass'
        /\ pc = "settle" => ~Open(i)
        /\ UNCHANGED <<orders, placed, shares, selling, book, day, faults>>
    BY DEF BookEntry, Buying, InPass, venueVars
  <1>2. /\ i \in Placed /\ Placed' = Placed /\ LegsOK' /\ run \in RunMemory
        /\ shares \in [Tickers -> Int] /\ selling \in [Tickers -> Nat]
        /\ run.book \in [Tickers -> Position] /\ orders[i] \in Order
    <2>1. run \in RunMemory /\ i \in Placed
      BY <1>1 DEF TypeInv, TypeOK, Buying
    <2>2. LegsOK' /\ Placed' = Placed
      BY <1>1, SameLegs DEF AccountInv, Placed
    <2> QED BY <2>1, <2>2 DEF TypeInv, TypeOK, VenueTypeOK, RunMemory
  <1>3. t \in Tickers /\ n \in 0..Lot /\ orders[i].ticker = t
    BY <1>2, <1>4 DEF Order
  <1>5. \/ run' = next /\ ~(n > 0 /\ run.book[t].qty = 0)
        \/ /\ n > 0 /\ run.book[t].qty = 0
           /\ run' = [next EXCEPT !.book = [run.book EXCEPT ![t] = position],
                                  !.entries = run.entries + 1,
                                  !.fills = run.fills \cup {t},
                                  !.won = run.won \cup run.pick]
    <2>2. /\ next.book = run.book /\ next.entries = run.entries
          /\ next.fills = run.fills /\ next.won = run.won
      BY <1>2 DEF RunMemory
    <2>3. \/ run' = next /\ ~(n > 0 /\ run.book[t].qty = 0)
          \/ /\ n > 0 /\ run.book[t].qty = 0
             /\ run' = [next EXCEPT !.book = [next.book EXCEPT ![t] = position],
                                    !.entries = next.entries + 1,
                                    !.fills = next.fills \cup {t},
                                    !.won = next.won \cup run.pick]
      BY <1>4 DEF BookEntry, Bookable
    <2> QED BY <2>2, <2>3
  <1>6. /\ run'.picks = run.picks /\ run'.pick = {}
        /\ \/ run'.book = run.book /\ ~(n > 0 /\ run.book[t].qty = 0)
           \/ run'.book = [run.book EXCEPT ![t] = position] /\ n > 0 /\ run.book[t].qty = 0
    <2> DEFINE b == [run.book EXCEPT ![t] = position]
               f == run.fills \cup {t}
    <2> HIDE DEF b, f, t, n, position
    <2>1. CASE run' = next /\ ~(n > 0 /\ run.book[t].qty = 0)
      BY <1>2, <2>1 DEF RunMemory
    <2>2. CASE /\ n > 0 /\ run.book[t].qty = 0
               /\ run' = [next EXCEPT !.book = b, !.entries = run.entries + 1,
                                      !.fills = f, !.won = run.won \cup run.pick]
      <3>1. run'.picks = run.picks /\ run'.pick = {} /\ run'.book = b
        BY <1>2, <2>2 DEF RunMemory
      <3> QED BY <2>2, <3>1 DEF b
    <2> QED BY <1>5, <2>1, <2>2 DEF b, f
  <1>7. position.qty = n /\ position.opened = day
    OBVIOUS
  <1>8. ASSUME NEW x \in Tickers
        PROVE  OrdersOf(x)' = OrdersOf(x) /\ Settled(x)' = OrdersOf(x)
               /\ Settled(x) = {j \in OrdersOf(x) : j # i}
    <2>1. OrdersOf(x)' = OrdersOf(x)
      BY <1>1, <1>2 DEF OrdersOf
    <2>2. Settled(x)' = OrdersOf(x)'
      BY <1>1 DEF Settled
    <2> QED BY <1>1, <2>1, <2>2 DEF Settled
  <1>9. i \in OrdersOf(t)
    BY <1>2, <1>3 DEF OrdersOf
  <1>10. \A j \in Placed : Lasts(j) /\ Settles(j)
    BY <1>1, <1>2 DEF Lasts, Settles
  <1> HIDE DEF i, t, n, position, next
  <1>11. ASSUME faults' = 0
         PROVE  NothingElseRests' /\ BoughtToday' /\ \A x \in Tickers : Accounted(x)'
    <2>1. NothingElseRests /\ BoughtToday /\ \A x \in Tickers : Accounted(x)
      BY <1>1, <1>11 DEF AccountInv
    <2>2. ~Open(i) /\ orders[i].day = day
      BY <1>1, <1>2, <2>1 DEF NothingElseRests, BoughtToday, Buying, i
    <2>3. NothingElseRests'
      BY <1>1, <1>2, <2>1, <2>2 DEF NothingElseRests, Open, i
    <2>4. BoughtToday'
      <3>1. ASSUME NEW x \in run.picks
            PROVE  run'.book[x[1]].qty = 0 \/ run'.book[x[1]].opened = day
        <4>1. x[1] \in Tickers
          BY <1>2 DEF RunMemory, Signals
        <4>2. run.book[x[1]].qty = 0 \/ run.book[x[1]].opened = day
          BY <1>1, <2>1 DEF BoughtToday
        <4>3. run'.book[x[1]] \in {run.book[x[1]], position}
          BY <1>2, <1>3, <1>6, <4>1
        <4> QED BY <1>7, <4>2, <4>3
      <3> QED BY <1>1, <1>6, <3>1 DEF BoughtToday
    <2>5. run.book[t].qty = 0 \/ run.book[t].opened = day
      BY <1>1, <1>4, <2>1 DEF BoughtToday, t
    <2>6. ASSUME NEW x \in Tickers PROVE Accounted(x)'
      <3>0. OnOrder(x)' = 0 /\ LaneBook = run.book /\ LaneBook' = run'.book
        BY <1>1 DEF OnOrder, LaneBook
      <3>1. CASE x # t
        <4>1. Settled(x) = OrdersOf(x) /\ Settled(x)' = Settled(x)
          <5>1. \A j \in OrdersOf(x) : j # i
            BY <1>3, <3>1 DEF OrdersOf
          <5>2. Settled(x)' = OrdersOf(x) /\ Settled(x) = {j \in OrdersOf(x) : j # i}
            BY <1>8
          <5>3. {j \in OrdersOf(x) : j # i} = OrdersOf(x)
            BY <5>1
          <5> QED BY <5>2, <5>3
        <4>2. OnOrder(x) = 0
          BY <1>3, <3>1 DEF OnOrder, i
        <4>3. Net(x)' = Net(x)
          BY <1>1, <3>0, <4>2 DEF Net
        <4>4. run'.book[x] = run.book[x]
          BY <1>2, <1>6, <3>1
        <4>5. \A j \in Settled(x) : Settles(j)
          BY <1>10, <4>1 DEF OrdersOf
        <4> QED BY <1>10, <2>1, <3>0, <4>1, <4>3, <4>4, <4>5, AccountedKept
      <3>2. CASE x = t
        <4>0. Settled(t)' = OrdersOf(t) /\ Settled(t) = {j \in OrdersOf(t) : j # i}
              /\ OrdersOf(t)' = OrdersOf(t)
          BY <1>3, <1>8
        <4>1. CASE Doubled(t)
          BY <1>10, <3>2, <4>1, DoubledKept DEF Accounted
        <4>2. CASE ~Doubled(t) /\ n > 0 /\ run.book[t].qty > 0
          <5>1. \E j \in Settled(t) : Filled(j) /\ orders[j].day = run.book[t].opened
            BY <1>3, <2>1, <3>0, <4>2 DEF Accounted, Agrees, Gone
          <5>2. \E j \in OrdersOf(t) : j # i /\ Filled(j) /\ orders[j].day = day
            BY <2>5, <4>0, <4>2, <5>1
          <5>3. Filled(i)
            BY <4>2 DEF Filled, n, i
          <5> QED BY <1>9, <2>2, <4>2, <5>2, <5>3 DEF Doubled
        <4>3. CASE ~Doubled(t) /\ ~(n > 0 /\ run.book[t].qty = 0) /\ n = 0
          <5>1. run'.book = run.book
            BY <1>6, <4>3
          <5>2. orders[i].legs = "none"
            BY <1>2, <4>3 DEF AccountInv, LegsOK, Filled, n, i
          <5>3. OnOrder(t) = 0
            BY <1>1, <4>3 DEF OnOrder, n, i
          <5>4. Net(t)' = Net(t)
            BY <1>1, <3>0, <3>2, <5>3 DEF Net
          <5>5. CASE Agrees(t)
            <6>1. Agrees(t)'
              BY <1>1, <3>0, <4>0, <5>1, <5>2, <5>4, <5>5 DEF Agrees, Filled
            <6> QED BY <3>2, <6>1 DEF Accounted
          <5>6. CASE Gone(t)
            <6>1. Gone(t)'
              BY <1>1, <3>0, <4>0, <5>1, <5>2, <5>4, <5>6 DEF Gone, Filled
            <6> QED BY <3>2, <6>1 DEF Accounted
          <5> QED BY <1>3, <2>1, <4>3, <5>5, <5>6 DEF Accounted
        <4>4. CASE ~Doubled(t) /\ n > 0 /\ run.book[t].qty = 0
          <5>1. run'.book[t] = position
            BY <1>2, <1>3, <1>6, <4>4
          <5>2. Agrees(t)
            BY <1>3, <2>1, <3>0, <4>4 DEF Accounted, Gone
          <5>3. \A j \in Settled(t) : orders[j].legs # "live"
            <6>1. \A j \in Settled(t) : orders[j].legs = "live" => orders[j].filled > 0
              BY DEF AccountInv, LegsOK, Settled, OrdersOf, Filled
            <6>2. \A j \in Settled(t) : orders[j].legs = "live" => orders[j].filled = 0
              BY <3>0, <4>4, <5>2 DEF Agrees
            <6> QED BY <6>1, <6>2
          <5>4. shares[t] - selling[t] - OnOrder(t) = 0
            BY <3>0, <4>4, <5>2 DEF Agrees, Net
          <5>5. Filled(i) /\ orders[i].filled = n
            BY <4>4 DEF Filled, n, i
          <5>6. CASE orders[i].legs = "done"
            <6>1. OnOrder(t) = 0
              BY <5>6 DEF OnOrder, i
            <6>2. Net(t)' = 0
              BY <1>1, <1>2, <1>3, <3>0, <3>2, <5>4, <6>1 DEF Net
            <6>3. Gone(t)'
              <7>1. (LaneBook[t])'.qty = n /\ (LaneBook[t])'.opened = day
                BY <1>7, <3>0, <5>1
              <7>2. \A j \in OrdersOf(t) : orders[j].legs # "live"
                BY <4>0, <5>3, <5>6
              <7> QED BY <1>1, <1>9, <2>2, <4>0, <4>4, <5>5, <5>6, <6>2, <7>1, <7>2
                      DEF Gone, Filled
            <6> QED BY <3>2, <6>3 DEF Accounted
          <5>7. CASE orders[i].legs # "done"
            <6>1. OnOrder(t) = n
              BY <1>1, <1>3, <5>7 DEF OnOrder, i, n
            <6>2. Net(t)' = n
              <7>1. shares[t] \in Int /\ selling[t] \in Int /\ n \in Int
                BY <1>2, <1>3
              <7>2. shares[t] - selling[t] = n
                BY <5>4, <6>1, <7>1
              <7> QED BY <1>1, <3>0, <3>2, <7>1, <7>2 DEF Net
            <6>3. Agrees(t)'
              <7>1. (LaneBook[t])'.qty = n /\ (LaneBook[t])'.opened = day
                BY <1>7, <3>0, <5>1
              <7>2. \A j \in OrdersOf(t) : orders[j].legs = "live" => j = i
                BY <4>0, <5>3
              <7> QED BY <1>1, <1>9, <2>2, <4>0, <5>5, <6>2, <7>1, <7>2
                      DEF Agrees, Filled
            <6> QED BY <3>2, <6>3 DEF Accounted
          <5> QED BY <5>6, <5>7
        <4>5. n = 0 \/ n > 0
          BY <1>3
        <4>6. run.book[t].qty = 0 \/ run.book[t].qty > 0
          BY <1>2, <1>3 DEF Position
        <4> QED BY <4>1, <4>2, <4>3, <4>4, <4>5, <4>6, <1>10, <3>2, DoubledKept DEF Accounted
      <3> QED BY <3>1, <3>2
    <2> QED BY <2>3, <2>4, <2>6
  <1> QED BY <1>2, <1>11 DEF AccountInv

\* The venue's own steps: a fill or a rejection reaches only the order of the
\* pass, a leg empties what it protects, a sell was already accounted for.
LEMMA VenueAccounted ==
  ASSUME TypeInv, AccountInv, Venue
  PROVE  AccountInv'
  <1>1. VenueStep /\ UNCHANGED <<run, pc, book, day, faults>> /\ VenueInv /\ LegsOK
    BY DEF Venue, laneVars, TypeInv, TypeOK, VenueInv, AccountInv
  <1>2. /\ shares \in [Tickers -> Int] /\ selling \in [Tickers -> Nat]
        /\ \A j \in Placed : orders[j].ticker \in Tickers /\ orders[j].filled \in Nat
    BY VenueAssumption DEF TypeInv, TypeOK, VenueTypeOK, Order, VenueAssumption
  <1>3. ASSUME NEW i \in Placed, FillShare(i) PROVE AccountInv'
    <2>1. /\ \A j \in Placed \ {i} : orders'[j] = orders[j]
          /\ UNCHANGED <<placed, selling>> /\ Open(i)
          /\ shares' = [shares EXCEPT ![orders[i].ticker] = shares[orders[i].ticker] + 1]
          /\ orders'[i].ticker = orders[i].ticker /\ orders'[i].day = orders[i].day
          /\ orders'[i].filled = orders[i].filled + 1
          /\ orders'[i].legs \in {"none", "live"}
          /\ orders'[i].status = "new" => orders'[i].legs = "none"
      BY <1>1, <1>3, FillView
    <2>2. Placed' = Placed /\ orders'[i].filled > 0 /\ orders[i].legs = "none"
      BY <1>1, <1>2, <2>1 DEF Placed, LegsOK
    <2>3. LegsOK'
      BY <1>1, <2>1, <2>2 DEF LegsOK, Open, Filled
    <2>4. CASE faults # 0
      BY <1>1, <2>3, <2>4, AccountFaulted
    <2>5. CASE faults = 0
      <3>1. pc = "settle" /\ i = run.order
        BY <2>1, <2>5 DEF AccountInv, NothingElseRests
      <3>2. ASSUME NEW t \in Tickers PROVE Net(t)' = Net(t)
        <4>0. Buying /\ Buying' /\ shares[t] \in Int /\ selling[t] \in Int /\ orders[i].filled \in Int
          BY <1>1, <1>2, <3>1 DEF Buying
        <4>1. CASE orders[i].ticker = t
          <5>1. OnOrder(t) = orders[i].filled /\ OnOrder(t)' = orders[i].filled + 1
            BY <1>1, <2>1, <2>2, <3>1, <4>0, <4>1 DEF OnOrder
          <5>2. shares'[t] = shares[t] + 1
            BY <1>2, <2>1, <4>1
          <5> QED BY <2>1, <4>0, <5>1, <5>2 DEF Net
        <4>2. CASE orders[i].ticker # t
          <5>1. OnOrder(t) = 0 /\ OnOrder(t)' = 0
            BY <1>1, <2>1, <3>1, <4>2 DEF OnOrder
          <5>2. shares'[t] = shares[t]
            BY <1>2, <2>1, <4>2
          <5> QED BY <2>1, <5>1, <5>2 DEF Net
        <4> QED BY <4>1, <4>2
      <3>3. Lasts(i)
        BY <2>1, <2>2 DEF Lasts
      <3> QED BY <1>1, <2>1, <2>3, <2>5, <3>1, <3>2, <3>3, PendingMoves
    <2> QED BY <2>4, <2>5
  <1>4. ASSUME NEW i \in Placed, RejectOrder(i) PROVE AccountInv'
    <2>1. /\ \A j \in Placed \ {i} : orders'[j] = orders[j]
          /\ UNCHANGED <<placed, shares, selling>> /\ Open(i)
          /\ orders'[i].status = "canceled"
          /\ orders'[i].ticker = orders[i].ticker /\ orders'[i].day = orders[i].day
          /\ orders'[i].filled = orders[i].filled /\ orders'[i].legs = orders[i].legs
      BY <1>1, <1>4, RejectView
    <2>2. Placed' = Placed
      BY <2>1 DEF Placed
    <2>3. LegsOK'
      BY <1>1, <2>1, <2>2 DEF LegsOK, Open, Filled
    <2>4. CASE faults # 0
      BY <1>1, <2>3, <2>4, AccountFaulted
    <2>5. CASE faults = 0
      <3>1. pc = "settle" /\ i = run.order
        BY <2>1, <2>5 DEF AccountInv, NothingElseRests
      <3>2. ASSUME NEW t \in Tickers PROVE Net(t)' = Net(t)
        <4>1. OnOrder(t)' = OnOrder(t)
          BY <1>1, <2>1, <3>1 DEF OnOrder, Buying
        <4> QED BY <2>1, <4>1 DEF Net
      <3>3. Lasts(i)
        BY <2>1, <2>2 DEF Lasts
      <3> QED BY <1>1, <2>1, <2>3, <2>5, <3>1, <3>2, <3>3, PendingMoves
    <2> QED BY <2>4, <2>5
  <1>5. ASSUME NEW i \in Placed, LegFires(i) PROVE AccountInv'
    <2> DEFINE T == orders[i].ticker
    <2>1. /\ \A j \in Placed \ {i} : orders'[j] = orders[j]
          /\ UNCHANGED <<placed, selling>>
          /\ shares' = [shares EXCEPT ![orders[i].ticker] =
                                        shares[orders[i].ticker] - orders[i].filled]
          /\ orders[i].legs = "live" /\ orders'[i].legs = "done"
          /\ orders'[i].ticker = orders[i].ticker /\ orders'[i].day = orders[i].day
          /\ orders'[i].filled = orders[i].filled /\ orders'[i].status = orders[i].status
      BY <1>1, <1>5, LegView
    <2>2. Placed' = Placed /\ Filled(i) /\ ~Open(i)
      BY <1>1, <2>1 DEF Placed, LegsOK
    <2>3. LegsOK'
      <3>1. ASSUME NEW j \in Placed
            PROVE  /\ orders'[j].legs # "none" => orders'[j].filled > 0
                   /\ orders'[j].status = "new" => orders'[j].legs = "none"
        BY <1>1, <2>1, <2>2 DEF LegsOK, Open, Filled
      <3> QED BY <2>2, <3>1 DEF LegsOK, Open, Filled
    <2>4. \A j \in Placed : Lasts(j) /\ (j # i => Settles(j))
      BY <2>1, <2>2 DEF Lasts, Settles
    <2>5. ASSUME faults' = 0
          PROVE  NothingElseRests' /\ BoughtToday' /\ \A t \in Tickers : Accounted(t)'
      <3>1. NothingElseRests /\ BoughtToday /\ \A t \in Tickers : Accounted(t)
        BY <1>1, <2>5 DEF AccountInv
      <3>2. NothingElseRests'
        <4>1. \A j \in Placed : orders'[j].status = orders[j].status
          BY <2>1
        <4> QED BY <1>1, <2>2, <3>1, <4>1 DEF NothingElseRests, Open
      <3>3. BoughtToday'
        <4>1. Buying => orders'[run.order].day = orders[run.order].day
          BY <2>4 DEF Lasts, Buying, TypeInv, TypeOK
        <4> QED BY <1>1, <3>1, <4>1 DEF BoughtToday, Buying, InPass
      <3>4. ASSUME NEW t \in Tickers PROVE Accounted(t)'
        <4>0. OrdersOf(t)' = OrdersOf(t)
          BY <2>2, <2>4 DEF OrdersOf, Lasts
        <4>1. Settled(t)' = Settled(t) /\ (LaneBook[t])' = LaneBook[t]
          BY <1>1, <4>0 DEF Settled, Buying, LaneBook, InPass
        <4>s. shares[t] \in Int /\ selling[t] \in Int /\ orders[i].filled \in Int
          BY <1>2
        <4>2. CASE i \notin Settled(t)
          <5>1. \A j \in Settled(t) : Settles(j)
            BY <2>4, <4>2 DEF Settled, OrdersOf
          <5>2. Net(t)' = Net(t)
            <6>1. CASE orders[i].ticker # t
              <7>1. OnOrder(t)' = OnOrder(t)
                <8>1. CASE run.order = i
                  BY <1>1, <2>1, <6>1, <8>1 DEF OnOrder
                <8>2. CASE Buying /\ run.order # i
                  <9>1. run.order \in Placed
                    BY <8>2 DEF Buying, TypeInv, TypeOK
                  <9> QED BY <1>1, <2>1, <8>2, <9>1 DEF OnOrder, Buying
                <8>3. CASE ~Buying
                  BY <1>1, <8>3 DEF OnOrder, Buying
                <8> QED BY <8>1, <8>2, <8>3
              <7>2. shares'[t] = shares[t]
                BY <1>2, <2>1, <6>1
              <7> QED BY <2>1, <7>1, <7>2 DEF Net
            <6>2. CASE orders[i].ticker = t
              <7>1. Buying /\ i = run.order
                BY <4>2, <6>2 DEF Settled, OrdersOf
              <7>2. OnOrder(t) = orders[i].filled /\ OnOrder(t)' = 0
                BY <1>1, <2>1, <6>2, <7>1 DEF OnOrder
              <7>3. shares'[t] = shares[t] - orders[i].filled
                BY <1>2, <2>1, <6>2
              <7> QED BY <2>1, <4>s, <7>2, <7>3 DEF Net
            <6> QED BY <6>1, <6>2
          <5> QED BY <2>4, <3>1, <4>1, <5>1, <5>2, AccountedKept
        <4>3. CASE i \in Settled(t) /\ ~Doubled(t)
          <5>1. orders[i].ticker = t /\ ~(Buying /\ i = run.order)
            BY <4>3 DEF Settled, OrdersOf
          <5>2. Agrees(t)
            BY <2>1, <3>1, <4>3 DEF Accounted, Gone
          <5>3. /\ orders[i].filled = LaneBook[t].qty /\ orders[i].day = LaneBook[t].opened
                /\ Net(t) = LaneBook[t].qty
            BY <2>1, <4>3, <5>2 DEF Agrees
          <5>4. OnOrder(t)' = OnOrder(t)
            <6>1. CASE Buying
              <7>1. run.order \in Placed
                BY <6>1 DEF Buying, TypeInv, TypeOK
              <7> QED BY <1>1, <2>1, <5>1, <6>1, <7>1 DEF OnOrder, Buying
            <6>2. CASE ~Buying
              BY <1>1, <6>2 DEF OnOrder, Buying
            <6> QED BY <6>1, <6>2
          <5>5. Net(t)' = 0
            <6>1. OnOrder(t) \in Int
              BY <1>2 DEF OnOrder, Buying, TypeInv, TypeOK
            <6>2. shares'[t] = shares[t] - orders[i].filled
              BY <1>2, <2>1, <5>1
            <6> QED BY <2>1, <4>s, <5>3, <5>4, <6>1, <6>2 DEF Net
          <5>6. \A j \in Settled(t) : j # i => orders[j].legs # "live"
            <6> SUFFICES ASSUME NEW j \in Settled(t), j # i, orders[j].legs = "live"
                         PROVE  FALSE
              OBVIOUS
            <6>1. orders[j].day = orders[i].day
              BY <5>2, <5>3 DEF Agrees
            <6>2. j \in OrdersOf(t) /\ i \in OrdersOf(t) /\ j \in Placed
              BY <4>3 DEF Settled, OrdersOf
            <6>3. Filled(j)
              BY <1>1, <6>2 DEF LegsOK
            <6> QED BY <2>2, <4>3, <6>1, <6>2, <6>3 DEF Doubled
          <5>7. \A j \in Settled(t) : orders'[j].legs # "live"
            BY <2>1, <5>6 DEF Settled, OrdersOf
          <5>8. LaneBook[t].qty > 0
            BY <2>2, <5>3 DEF Filled
          <5>9. orders'[i].legs = "done" /\ orders'[i].filled > 0
                /\ orders'[i].day = LaneBook[t].opened
            BY <2>1, <2>2, <5>3 DEF Filled
          <5>10. Gone(t)'
            BY <4>1, <4>3, <5>5, <5>7, <5>8, <5>9 DEF Gone, Filled
          <5> QED BY <5>10 DEF Accounted
        <4>4. CASE Doubled(t)
          BY <2>4, <4>4, DoubledKept DEF Accounted
        <4> QED BY <4>2, <4>3, <4>4
      <3> QED BY <3>2, <3>3, <3>4
    <2> QED BY <2>3, <2>5 DEF AccountInv
  <1>6. ASSUME NEW t \in Tickers, SellFills(t) PROVE AccountInv'
    <2>1. ASSUME NEW x \in Tickers PROVE shares'[x] - selling'[x] = shares[x] - selling[x]
      <3>1. shares[x] \in Int /\ selling[x] \in Int
        BY <1>2
      <3> QED BY <1>2, <1>6, <3>1 DEF SellFills
    <2>2. /\ UNCHANGED <<orders, placed>> /\ Buying' = Buying /\ LaneBook' = LaneBook
          /\ InPass' = InPass
      BY <1>1, <1>6 DEF SellFills, Buying, LaneBook, InPass
    <2>3. faults' = 0 /\ InPass' => \A s \in run'.picks \cup run'.pick :
            run'.book[s[1]].qty = 0 \/ run'.book[s[1]].opened = day'
      BY <1>1, <2>2 DEF AccountInv, BoughtToday
    <2> QED BY <1>1, <2>1, <2>2, <2>3, AccountUndisturbed
  <1> QED BY <1>1, <1>3, <1>4, <1>5, <1>6 DEF VenueStep

LEMMA AccountStep ==
  ASSUME TypeInv, PassInv, AccountInv, [Next]_vars
  PROVE  AccountInv'
  <1>l. LegsOK /\ run \in RunMemory /\ faults \in 0..MaxFaults
    BY DEF AccountInv, TypeInv, TypeOK
  <1>b. faults = 0 /\ InPass => \A s \in run.picks \cup run.pick :
          run.book[s[1]].qty = 0 \/ run.book[s[1]].opened = day
    BY DEF AccountInv, BoughtToday
  <1>1. CASE StartRun
    <2>1. PICK priced \in SUBSET Held(book) : StartWith(priced)
      BY <1>1 DEF StartRun
    <2>2. PICK exits : run' = [NoRun EXCEPT !.book = book, !.entries = EntriesToday,
                                            !.todo = signals \ traded, !.exits = exits]
      BY <2>1 DEF StartWith
    <2>3. run'.book = book /\ run'.picks = {} /\ run'.pick = {}
      BY <2>2 DEF NoRun
    <2>4. /\ pc = "idle" /\ pc' = "exits"
          /\ UNCHANGED <<orders, placed, shares, selling, book, day, faults>>
      BY <2>1 DEF StartWith, venueVars, laneVars
    <2>5. Buying' = Buying /\ ~Buying /\ LaneBook' = LaneBook
      BY <2>3, <2>4 DEF Buying, LaneBook, InPass
    <2> QED BY <2>3, <2>4, <2>5, AccountUndisturbed
  <1>2. CASE PickEntries
    <2>1. PICK picks \in SUBSET {s \in run.todo : Enterable(s)} :
            run' = [run EXCEPT !.picks = picks]
      BY <1>2 DEF PickEntries
    <2>2. run'.book = run.book /\ run'.picks = picks /\ run'.pick = run.pick
      BY <1>l, <2>1 DEF RunMemory
    <2>3. /\ pc = "exits" /\ pc' = "enter"
          /\ UNCHANGED <<orders, placed, shares, selling, book, day, faults>>
      BY <1>2 DEF PickEntries, venueVars, laneVars
    <2>4. Buying' = Buying /\ ~Buying /\ LaneBook' = LaneBook /\ InPass
      BY <2>2, <2>3 DEF Buying, LaneBook, InPass
    <2>5. \A s \in picks : run.book[s[1]].qty = 0
      BY <2>1 DEF Enterable
    <2>6. faults' = 0 => \A s \in run'.picks \cup run'.pick :
            run'.book[s[1]].qty = 0 \/ run'.book[s[1]].opened = day'
      BY <1>b, <2>2, <2>3, <2>4, <2>5
    <2> QED BY <2>3, <2>4, <2>6, AccountUndisturbed
  <1>3. CASE CancelLost
    <2>1. UNCHANGED <<orders, placed>> /\ faults' # 0
      BY <1>3, <1>l DEF CancelLost, venueVars
    <2> QED BY <1>l, <2>1, SameLegs, AccountFaulted
  <1>4. CASE ReadFails
    <2>1. UNCHANGED <<orders, placed>> /\ faults' # 0
      BY <1>4, <1>l DEF ReadFails, venueVars
    <2> QED BY <1>l, <2>1, SameLegs, AccountFaulted
  <1>5. CASE Crash
    <2>1. UNCHANGED <<orders, placed>> /\ faults' # 0
      BY <1>5, <1>l DEF Crash, venueVars
    <2> QED BY <1>l, <2>1, SameLegs, AccountFaulted
  <1>6. CASE Persist
    <2>1. /\ pc = "enter" /\ pc' = "mark" /\ book' = run.book
          /\ UNCHANGED <<orders, placed, shares, selling, run, day, faults>>
      BY <1>6 DEF Persist, venueVars
    <2>2. Buying' = Buying /\ ~Buying /\ LaneBook' = LaneBook /\ ~InPass'
      BY <2>1 DEF Buying, LaneBook, InPass
    <2> QED BY <2>1, <2>2, AccountUndisturbed
  <1>7. CASE MarkTraded \/ ReportDivergence \/ ReportSkipped
    <2>1. /\ pc \in {"mark", "report"} /\ pc' \in {"report", "idle"}
          /\ UNCHANGED <<orders, placed, shares, selling, book, day, faults>>
      BY <1>7 DEF MarkTraded, ReportDivergence, ReportSkipped, venueVars, laneVars
    <2>2. Buying' = Buying /\ ~Buying /\ LaneBook' = LaneBook /\ ~InPass'
      BY <2>1 DEF Buying, LaneBook, InPass
    <2> QED BY <2>1, <2>2, AccountUndisturbed
  <1>8. ASSUME NEW s \in Signals, SkipEntry(s) PROVE AccountInv'
    <2>1. run'.book = run.book /\ run'.picks = run.picks \ {s} /\ run'.pick = run.pick
      BY <1>8, <1>l DEF SkipEntry, RunMemory
    <2>2. /\ pc = "enter" /\ pc' = "enter"
          /\ UNCHANGED <<orders, placed, shares, selling, book, day, faults>>
      BY <1>8 DEF SkipEntry, venueVars, laneVars
    <2>3. Buying' = Buying /\ ~Buying /\ LaneBook' = LaneBook /\ InPass
      BY <2>1, <2>2 DEF Buying, LaneBook, InPass
    <2> QED BY <1>b, <2>1, <2>2, <2>3, AccountUndisturbed
  <1>9. CASE NewDay \/ \E s \in Signals : SignalArrives(s)
    <2>1. /\ pc = "idle" /\ pc' = "idle"
          /\ UNCHANGED <<orders, placed, shares, selling, book, run, faults>>
      BY <1>9 DEF NewDay, SignalArrives, venueVars, laneVars
    <2>2. Buying' = Buying /\ ~Buying /\ LaneBook' = LaneBook /\ ~InPass'
      BY <2>1 DEF Buying, LaneBook, InPass
    <2> QED BY <2>1, <2>2, AccountUndisturbed
  <1>10. CASE UNCHANGED vars
    <2>1. UNCHANGED <<orders, placed, shares, selling, book, run, pc, day, faults>>
      BY <1>10 DEF vars, venueVars, laneVars
    <2>2. Buying' = Buying /\ LaneBook' = LaneBook /\ InPass' = InPass
      BY <2>1 DEF Buying, LaneBook, InPass
    <2> QED BY <1>b, <2>1, <2>2, AccountUndisturbed
  <1> QED BY <1>1, <1>2, <1>3, <1>4, <1>5, <1>6, <1>7, <1>8, <1>9, <1>10,
             CancelAccounted, PlaceAccounted, ExitAccounted, RefusalAccounted,
             BookAccounted, VenueAccounted
          DEF Next, RunStep

\* bookable and settle_or_cancel do their work: without a fault the stored book
\* is what the account holds between two runs, through partial fills, late
\* fills and cancels, but for a leg that fired and a ticker bought twice a day.
THEOREM BookIsRight == Spec => []BookIsAccount
  <1> DEFINE Inv == CapInv /\ AccountInv
  <1>1. Init => Inv
    <2> SUFFICES ASSUME Init PROVE Inv
      OBVIOUS
    <2>1. CapInv
      BY InitCaps
    <2>2. Placed = {} /\ pc = "idle"
      BY DEF Init, VenueInit, Placed
    <2>3. ASSUME NEW t \in Tickers PROVE Accounted(t)
      <3>1. Settled(t) = {} /\ OnOrder(t) = 0
        BY <2>2 DEF Settled, OrdersOf, OnOrder, Buying
      <3>2. Net(t) = 0 /\ LaneBook[t].qty = 0
        BY <2>2, <3>1 DEF Init, VenueInit, Net, LaneBook, InPass, NoPosition
      <3> QED BY <3>1, <3>2 DEF Accounted, Agrees
    <2>4. LegsOK /\ NothingElseRests /\ BoughtToday
      BY <2>2 DEF LegsOK, NothingElseRests, BoughtToday, Buying, InPass
    <2> QED BY <2>1, <2>3, <2>4 DEF AccountInv
  <1>2. Inv /\ [Next]_vars => Inv'
    BY StepType, PassStep, AccountStep DEF CapInv
  <1>3. Inv => BookIsAccount
    <2> SUFFICES ASSUME AccountInv, TypeInv, pc = "idle", faults = 0, NEW t \in Tickers
                 PROVE  \/ shares[t] - selling[t] = book[t].qty
                        \/ SoldByLeg(t) /\ shares[t] = selling[t]
                        \/ Doubled(t)
      BY DEF BookIsAccount, CapInv
    <2>1. /\ shares[t] \in Int /\ selling[t] \in Int
          /\ OnOrder(t) = 0 /\ LaneBook = book /\ Settled(t) = OrdersOf(t)
      BY DEF TypeInv, TypeOK, VenueTypeOK, OnOrder, Buying, LaneBook, InPass, Settled
    <2>2. Accounted(t)
      BY DEF AccountInv
    <2> QED BY <2>1, <2>2 DEF Accounted, Agrees, Gone, Net, SoldByLeg
  <1> QED BY <1>1, <1>2, <1>3, PTL DEF Spec

-----------------------------------------------------------------------------
(* The session lane on the same venue.  It has the book, the program       *)
(* counter, the run and the fault count of one lane, as the ignition lane  *)
(* has; no behaviour is a behaviour of both, only the venue's lemmas are   *)
(* shared: what the account does is the same for each of them.             *)

CONSTANTS MaxTick, MaxGap
VARIABLES market, tick, opened, state, lastRun

Session == INSTANCE SessionLane

\* The instance's definitions of the venue are the ones above.
LEMMA SameOrders ==
  /\ Session!Placed = Placed /\ Session!Days = Days /\ Session!Order = Order
  /\ \A t : Session!OrdersOf(t) = OrdersOf(t)
  /\ \A i : (Session!Open(i) <=> Open(i)) /\ (Session!Filled(i) <=> Filled(i))
  /\ Session!venueVars = venueVars
  /\ Session!VenueTypeOK <=> VenueTypeOK
  /\ Session!VenueInit <=> VenueInit
<1>1. Session!Placed = Placed BY DEF Session!Placed, Placed
<1>2. Session!Days = Days BY DEF Session!Days, Days
<1>3. Session!Order = Order BY <1>2 DEF Session!Order, Order
<1>4. \A t : Session!OrdersOf(t) = OrdersOf(t) BY <1>1 DEF Session!OrdersOf, OrdersOf
<1>5. \A i : (Session!Open(i) <=> Open(i)) /\ (Session!Filled(i) <=> Filled(i))
  BY DEF Session!Open, Open, Session!Filled, Filled
<1>6. Session!venueVars = venueVars BY DEF Session!venueVars, venueVars
<1>7. Session!VenueTypeOK <=> VenueTypeOK BY <1>1, <1>3 DEF Session!VenueTypeOK, VenueTypeOK
<1>8. Session!VenueInit <=> VenueInit BY DEF Session!VenueInit, VenueInit
<1> QED BY <1>1, <1>2, <1>3, <1>4, <1>5, <1>6, <1>7, <1>8

\* The venue is the same: what it is asked and what it does mean the same.
LEMMA SameVenue ==
  /\ \A t : Session!Submit(t) <=> Submit(t)
  /\ \A t : Session!ClosePosition(t) <=> ClosePosition(t)
  /\ \A t : Session!ClosePositionRefused(t) <=> ClosePositionRefused(t)
  /\ \A i : Session!CancelOrder(i) <=> CancelOrder(i)
  /\ Session!VenueStep <=> VenueStep
<1>1. \A t : Session!WithoutResting(t) = WithoutResting(t)
  BY SameOrders DEF Session!WithoutResting, WithoutResting
<1>2. \A t : Session!Submit(t) <=> Submit(t) BY SameOrders DEF Session!Submit, Submit
<1>3. \A t : Session!ClosePosition(t) <=> ClosePosition(t)
  BY <1>1 DEF Session!ClosePosition, ClosePosition
<1>4. \A t : Session!ClosePositionRefused(t) <=> ClosePositionRefused(t)
  BY <1>1 DEF Session!ClosePositionRefused, ClosePositionRefused
<1>5. \A i : Session!CancelOrder(i) <=> CancelOrder(i)
  BY SameOrders DEF Session!CancelOrder, CancelOrder
<1>6. \A i : Session!FillShare(i) <=> FillShare(i)
  BY SameOrders DEF Session!FillShare, FillShare
<1>7. \A i : Session!RejectOrder(i) <=> RejectOrder(i)
  BY SameOrders DEF Session!RejectOrder, RejectOrder
<1>8. \A i : Session!LegFires(i) <=> LegFires(i) BY DEF Session!LegFires, LegFires
<1>9. \A t : Session!SellFills(t) <=> SellFills(t) BY DEF Session!SellFills, SellFills
<1>10. Session!VenueStep <=> VenueStep
  BY <1>6, <1>7, <1>8, <1>9, SameOrders DEF Session!VenueStep, VenueStep
<1> QED BY <1>2, <1>3, <1>4, <1>5, <1>10


-----------------------------------------------------------------------------
(* Types of the session lane.                                              *)

SessionState == [date : Days, traded : SUBSET Tickers, lastBar : [Tickers -> 0..MaxTick]]

SessionMemory ==
  [book : [Tickers -> 0..Lot], opened : [Tickers -> Days], state : SessionState,
   sweep : BOOLEAN, mayOpen : BOOLEAN, now : Nat, tick : 0..MaxTick,
   bars : SUBSET Tickers, todo : SUBSET Tickers, order : Nat]

\* A position has the day it was opened, and nothing else has one.
Dated(b, o) == \A t \in Tickers : b[t] > 0 <=> o[t] > 0

StoresOK ==
  /\ market \in BOOLEAN /\ tick \in 0..MaxTick
  /\ book \in [Tickers -> 0..Lot] /\ opened \in [Tickers -> Days] /\ Dated(book, opened)
  /\ state \in SessionState
  /\ lastRun \in Nat /\ lastRun <= Session!Now

MemoryOK(m) == m \in SessionMemory /\ Dated(m.book, m.opened) /\ m.now <= Session!Now

PhaseOK ==
  /\ pc \in {"idle", "absorb", "flatten", "decide", "await", "sweep"}
  /\ run.order \in 0..placed /\ (pc = "await" <=> run.order > 0)
  /\ pc = "sweep" => run.sweep
  /\ pc \in {"flatten", "decide", "await"} => ~run.sweep

\* The assumption on the constants rides along.
SessionTypes ==
  /\ Session!SessionAssumption
  /\ VenueInv /\ StoresOK /\ MemoryOK(run) /\ PhaseOK
  /\ faults \in 0..MaxFaults

LEMMA SessionConstants ==
  ASSUME SessionTypes
  PROVE  /\ MaxTick \in Nat /\ MaxTick > 0 /\ MaxGap \in Nat /\ MaxFaults \in Nat
         /\ Lot \in Nat /\ Lot > 0 /\ MaxDay \in Nat /\ MaxDay > 0 /\ MaxOrders \in Nat
         /\ day \in Nat /\ day > 0 /\ day \in Days /\ placed \in Nat /\ tick \in Nat
<1>1. /\ MaxTick \in Nat /\ MaxTick > 0 /\ MaxGap \in Nat /\ MaxFaults \in Nat
  BY DEF SessionTypes, Session!SessionAssumption
<1>2. Lot \in Nat /\ Lot > 0 /\ MaxDay \in Nat /\ MaxDay > 0 /\ MaxOrders \in Nat
  BY VenueAssumption DEF VenueAssumption
<1>3. day \in 1..MaxDay /\ placed \in 0..MaxOrders /\ tick \in 0..MaxTick
  BY DEF SessionTypes, VenueInv, VenueTypeOK, StoresOK
<1> QED BY <1>1, <1>2, <1>3 DEF Days

\* The clock of the gap check: every bar and every day moves it on.
LEMMA ClockRuns ==
  ASSUME Session!SessionAssumption, NEW d \in Nat, d > 0, NEW k \in 0..MaxTick
  PROVE  LET now(e, j) == (e - 1) * (MaxTick + MaxGap + 2) + j + 1 IN
         /\ now(d, k) \in Nat
         /\ now(d, k + 1) = now(d, k) + 1
         /\ now(d + 1, 0) >= now(d, k)
<1> DEFINE K == MaxTick + MaxGap + 2
           c == d - 1
<1>1. K \in Nat /\ MaxTick \in Nat /\ K > MaxTick /\ c \in Nat /\ (d + 1) - 1 = c + 1 /\ k \in Nat /\ k <= MaxTick
  BY DEF Session!SessionAssumption
<1> HIDE DEF K, c
<1>2. c * K \in Nat /\ (c + 1) * K = c * K + K BY <1>1
<1> DEFINE x == c * K
<1>3. x \in Nat /\ (c + 1) * K = x + K BY <1>2
<1> HIDE DEF x
<1>4. /\ x + k + 1 \in Nat /\ x + (k + 1) + 1 = (x + k + 1) + 1 /\ (x + K) + 0 + 1 >= x + k + 1
  BY <1>1, <1>3
<1>5. /\ c * K + k + 1 \in Nat /\ c * K + (k + 1) + 1 = (c * K + k + 1) + 1
      /\ (c + 1) * K + 0 + 1 >= c * K + k + 1
  BY <1>3, <1>4 DEF x
<1>6. ((d + 1) - 1) * K + 0 + 1 >= (d - 1) * K + k + 1 BY <1>1, <1>5 DEF c
<1> QED BY <1>5, <1>6 DEF c, K

LEMMA NowIsNat == ASSUME SessionTypes PROVE Session!Now \in Nat
BY SessionConstants, ClockRuns DEF Session!Now, SessionTypes, StoresOK

LEMMA SessionTypesGive == SessionTypes => Session!TypeOK
<1> SUFFICES ASSUME SessionTypes PROVE Session!TypeOK OBVIOUS
<1>1. Session!VenueTypeOK BY SameOrders DEF SessionTypes, VenueInv
<1>2. lastRun \in 0..Session!Now BY NowIsNat DEF SessionTypes, StoresOK
<1>3. state.date \in Session!Days /\ state.traded \subseteq Tickers /\ state.lastBar \in [Tickers -> 0..MaxTick]
  BY SameOrders DEF SessionTypes, StoresOK, SessionState
<1> QED BY <1>1, <1>2, <1>3, SameOrders
        DEF SessionTypes, StoresOK, PhaseOK, Dated, Session!TypeOK

-----------------------------------------------------------------------------
(* What the handlers do to the memory of a run.                            *)

RunKeeps(m) ==
  /\ m.sweep = run.sweep /\ m.mayOpen = run.mayOpen /\ m.now = run.now
  /\ m.tick = run.tick /\ m.bars = run.bars

LEMMA RunFields ==
  ASSUME SessionTypes
  PROVE  /\ run \in SessionMemory
         /\ run.book \in [Tickers -> 0..Lot] /\ run.opened \in [Tickers -> Days]
         /\ run.state \in SessionState /\ run.sweep \in BOOLEAN /\ run.mayOpen \in BOOLEAN
         /\ run.now \in Nat /\ run.tick \in 0..MaxTick /\ run.bars \in SUBSET Tickers
         /\ run.todo \in SUBSET Tickers /\ run.order \in Nat
         /\ Dated(run.book, run.opened) /\ run.now <= Session!Now
BY DEF SessionTypes, MemoryOK, SessionMemory

LEMMA DoneDoes ==
  ASSUME SessionTypes, NEW t
  PROVE  LET m == Session!Done(t) IN
         /\ MemoryOK(m) /\ RunKeeps(m)
         /\ m.book = run.book /\ m.opened = run.opened /\ m.state = run.state
         /\ m.todo = run.todo \ {t} /\ m.order = run.order
<1> DEFINE m == [run EXCEPT !.todo = run.todo \ {t}]
<1>1. Session!Done(t) = m BY DEF Session!Done
<1>2. /\ m \in SessionMemory
      /\ m.book = run.book /\ m.opened = run.opened /\ m.state = run.state
      /\ m.todo = run.todo \ {t} /\ m.order = run.order
      /\ m.sweep = run.sweep /\ m.mayOpen = run.mayOpen /\ m.now = run.now
      /\ m.tick = run.tick /\ m.bars = run.bars
  BY RunFields DEF SessionMemory
<1> HIDE DEF m
<1> QED BY <1>1, <1>2, RunFields DEF MemoryOK, RunKeeps

LEMMA ZeroTicker ==
  ASSUME SessionTypes, NEW t \in Tickers
  PROVE  LET b == [run.book EXCEPT ![t] = 0]
             o == [run.opened EXCEPT ![t] = 0]
         IN b \in [Tickers -> 0..Lot] /\ o \in [Tickers -> Days] /\ Dated(b, o)
<1>1. 0 \in 0..Lot /\ 0 \in Days BY SessionConstants DEF Days
<1> QED BY <1>1, RunFields DEF Dated

\* Sold off the book, by an absorbed exit or by the sweep.
LEMMA SoldDoes ==
  ASSUME SessionTypes, NEW t \in Tickers
  PROVE  LET m == Session!Sold(t) IN
         /\ MemoryOK(m) /\ RunKeeps(m)
         /\ m.book = [run.book EXCEPT ![t] = 0] /\ m.state = run.state
         /\ m.todo = run.todo \ {t} /\ m.order = run.order
<1> DEFINE d == Session!Done(t)
           b == [run.book EXCEPT ![t] = 0]
           o == [run.opened EXCEPT ![t] = 0]
<1>1. /\ MemoryOK(d) /\ RunKeeps(d) /\ d.book = run.book /\ d.opened = run.opened
      /\ d.state = run.state /\ d.todo = run.todo \ {t} /\ d.order = run.order
  BY DoneDoes
<1>2. b \in [Tickers -> 0..Lot] /\ o \in [Tickers -> Days] /\ Dated(b, o) BY ZeroTicker
<1>3. Session!Sold(t) = [d EXCEPT !.book = [d.book EXCEPT ![t] = 0],
                                  !.opened = [d.opened EXCEPT ![t] = 0]]
  BY DEF Session!Sold
<1> HIDE DEF d
<1>4. Session!Sold(t) = [d EXCEPT !.book = b, !.opened = o] BY <1>1, <1>3
<1> HIDE DEF b, o
<1> DEFINE m == [d EXCEPT !.book = b, !.opened = o]
<1>5. /\ m \in SessionMemory /\ m.book = b /\ m.opened = o
      /\ m.state = d.state /\ m.todo = d.todo /\ m.order = d.order
      /\ m.sweep = d.sweep /\ m.mayOpen = d.mayOpen /\ m.now = d.now
      /\ m.tick = d.tick /\ m.bars = d.bars
  BY <1>1, <1>2 DEF SessionMemory, MemoryOK
<1> HIDE DEF m
<1>6. MemoryOK(m) /\ RunKeeps(m) BY <1>1, <1>2, <1>5 DEF MemoryOK, RunKeeps
<1> QED BY <1>1, <1>4, <1>5, <1>6 DEF m, b

\* The bars of a ticker are dealt with: the marker of the last bar moves on.
LEMMA JudgedDoes ==
  ASSUME SessionTypes, NEW t \in Tickers
  PROVE  LET m == Session!Judged(t) IN
         /\ MemoryOK(m) /\ RunKeeps(m)
         /\ m.book = run.book /\ m.opened = run.opened
         /\ m.state.date = run.state.date /\ m.state.traded = run.state.traded
         /\ m.todo = run.todo \ {t} /\ m.order = run.order
<1> DEFINE d == Session!Done(t)
           s == [run.state EXCEPT !.lastBar = [run.state.lastBar EXCEPT ![t] = run.tick]]
<1>1. /\ MemoryOK(d) /\ RunKeeps(d) /\ d.book = run.book /\ d.opened = run.opened
      /\ d.state = run.state /\ d.todo = run.todo \ {t} /\ d.order = run.order
  BY DoneDoes
<1>2. /\ s \in SessionState /\ s.date = run.state.date /\ s.traded = run.state.traded
  <2>1. run.state.lastBar \in [Tickers -> 0..MaxTick] BY RunFields DEF SessionState
  <2>2. [run.state.lastBar EXCEPT ![t] = run.tick] \in [Tickers -> 0..MaxTick] BY <2>1, RunFields
  <2> QED BY <2>2, RunFields DEF SessionState
<1>3. Session!Judged(t) = [d EXCEPT !.state = [d.state EXCEPT !.lastBar = [d.state.lastBar EXCEPT ![t] = run.tick]]]
  BY DEF Session!Judged
<1> HIDE DEF d
<1>4. Session!Judged(t) = [d EXCEPT !.state = s] BY <1>1, <1>3
<1> HIDE DEF s
<1> DEFINE m == [d EXCEPT !.state = s]
<1>5. /\ m \in SessionMemory /\ m.book = d.book /\ m.opened = d.opened
      /\ m.state = s /\ m.todo = d.todo /\ m.order = d.order
      /\ m.sweep = d.sweep /\ m.mayOpen = d.mayOpen /\ m.now = d.now
      /\ m.tick = d.tick /\ m.bars = d.bars
  BY <1>1, <1>2 DEF SessionMemory, MemoryOK
<1> HIDE DEF m
<1>6. MemoryOK(m) /\ RunKeeps(m) BY <1>1, <1>2, <1>5 DEF MemoryOK, RunKeeps
<1> QED BY <1>1, <1>2, <1>4, <1>5, <1>6 DEF m

\* The filled order is booked: the broker's quantity, opened today.
LEMMA BookedDoes ==
  ASSUME SessionTypes, NEW t \in Tickers, NEW qty \in 1..Lot
  PROVE  LET m == Session!Booked(t, qty) IN
         /\ MemoryOK(m) /\ RunKeeps(m) /\ m.order = 0
         /\ m.book = [run.book EXCEPT ![t] = qty]
         /\ m.state.date = run.state.date /\ m.state.traded = run.state.traded \cup {t}
<1> DEFINE b == [run.book EXCEPT ![t] = qty]
           o == [run.opened EXCEPT ![t] = day]
           s == [run.state EXCEPT !.traded = run.state.traded \cup {t}]
<1>1. b \in [Tickers -> 0..Lot] /\ o \in [Tickers -> Days] /\ Dated(b, o)
  <2>1. qty \in 0..Lot /\ qty > 0 /\ day \in Days /\ day > 0 BY SessionConstants
  <2> QED BY <2>1, RunFields DEF Dated
<1>2. s \in SessionState /\ s.date = run.state.date /\ s.traded = run.state.traded \cup {t}
  <2>1. run.state.traded \cup {t} \in SUBSET Tickers BY RunFields DEF SessionState
  <2> QED BY <2>1, RunFields DEF SessionState
<1>3. Session!Booked(t, qty) = [run EXCEPT !.order = 0, !.book = b, !.opened = o, !.state = s]
  BY DEF Session!Booked
<1> HIDE DEF b, o, s
<1> DEFINE m == [run EXCEPT !.order = 0, !.book = b, !.opened = o, !.state = s]
<1>4. /\ m \in SessionMemory /\ m.book = b /\ m.opened = o /\ m.state = s /\ m.order = 0
      /\ m.sweep = run.sweep /\ m.mayOpen = run.mayOpen /\ m.now = run.now
      /\ m.tick = run.tick /\ m.bars = run.bars
  BY <1>1, <1>2, RunFields DEF SessionMemory
<1> HIDE DEF m
<1>5. MemoryOK(m) /\ RunKeeps(m) BY <1>1, <1>4, RunFields DEF MemoryOK, RunKeeps
<1> QED BY <1>2, <1>3, <1>4, <1>5 DEF m, b

LEMMA DroppedDoes ==
  ASSUME SessionTypes, NEW t \in Tickers
  PROVE  LET m == Session!Dropped(t) IN
         /\ MemoryOK(m) /\ RunKeeps(m) /\ m.order = 0
         /\ m.book = run.book
         /\ m.state.date = run.state.date /\ m.state.traded = run.state.traded
<1> DEFINE d == Session!Judged(t)
<1>1. /\ MemoryOK(d) /\ RunKeeps(d) /\ d.book = run.book /\ d.opened = run.opened
      /\ d.state.date = run.state.date /\ d.state.traded = run.state.traded
  BY JudgedDoes
<1>2. Session!Dropped(t) = [d EXCEPT !.order = 0] BY DEF Session!Dropped
<1> HIDE DEF d
<1> DEFINE m == [d EXCEPT !.order = 0]
<1>3. /\ m \in SessionMemory /\ m.book = d.book /\ m.opened = d.opened /\ m.state = d.state
      /\ m.order = 0 /\ m.sweep = d.sweep /\ m.mayOpen = d.mayOpen /\ m.now = d.now
      /\ m.tick = d.tick /\ m.bars = d.bars
  BY <1>1 DEF SessionMemory, MemoryOK
<1> HIDE DEF m
<1>4. MemoryOK(m) /\ RunKeeps(m) BY <1>1, <1>3 DEF MemoryOK, RunKeeps
<1> QED BY <1>1, <1>2, <1>3, <1>4 DEF m

\* Closed by the broker or not, the book sells.
LEMMA ExitedDoes ==
  ASSUME SessionTypes, NEW t \in Tickers
  PROVE  LET m == Session!Exited(t) IN
         /\ MemoryOK(m) /\ RunKeeps(m) /\ m.order = run.order
         /\ m.book = [run.book EXCEPT ![t] = 0]
         /\ m.state.date = run.state.date /\ m.state.traded = run.state.traded
         /\ pc = "sweep" => m.state = run.state
         /\ m.todo \in SUBSET run.todo
<1>1. CASE pc = "sweep"
  <2>1. Session!Exited(t) = Session!Sold(t) BY <1>1 DEF Session!Exited
  <2> QED BY <2>1, SoldDoes
<1>2. CASE pc # "sweep"
  <2> DEFINE d == Session!Judged(t)
             b == [run.book EXCEPT ![t] = 0]
             o == [run.opened EXCEPT ![t] = 0]
  <2>1. /\ MemoryOK(d) /\ RunKeeps(d) /\ d.book = run.book /\ d.opened = run.opened
        /\ d.state.date = run.state.date /\ d.state.traded = run.state.traded
        /\ d.todo = run.todo \ {t} /\ d.order = run.order
    BY JudgedDoes
  <2>2. b \in [Tickers -> 0..Lot] /\ o \in [Tickers -> Days] /\ Dated(b, o) BY ZeroTicker
  <2>3. Session!Exited(t) = [d EXCEPT !.book = [d.book EXCEPT ![t] = 0],
                                      !.opened = [d.opened EXCEPT ![t] = 0]]
    BY <1>2 DEF Session!Exited
  <2> HIDE DEF d
  <2>4. Session!Exited(t) = [d EXCEPT !.book = b, !.opened = o] BY <2>1, <2>3
  <2> HIDE DEF b, o
  <2> DEFINE m == [d EXCEPT !.book = b, !.opened = o]
  <2>5. /\ m \in SessionMemory /\ m.book = b /\ m.opened = o
        /\ m.state = d.state /\ m.todo = d.todo /\ m.order = d.order
        /\ m.sweep = d.sweep /\ m.mayOpen = d.mayOpen /\ m.now = d.now
        /\ m.tick = d.tick /\ m.bars = d.bars
    BY <2>1, <2>2 DEF SessionMemory, MemoryOK
  <2> HIDE DEF m
  <2>6. MemoryOK(m) /\ RunKeeps(m) BY <2>1, <2>2, <2>5 DEF MemoryOK, RunKeeps
  <2>7. m.todo \in SUBSET run.todo BY <2>1, <2>5
  <2> QED BY <1>2, <2>1, <2>4, <2>5, <2>6, <2>7 DEF m, b
<1> QED BY <1>1, <1>2

\* What is old leaves the book at the open.
LEMMA WithoutDoes ==
  ASSUME SessionTypes, NEW gone
  PROVE  LET m == Session!Without(gone) IN
         /\ MemoryOK(m) /\ RunKeeps(m) /\ m.order = run.order /\ m.state = run.state
         /\ m.book = [t \in Tickers |-> IF t \in gone THEN 0 ELSE run.book[t]]
         /\ m.todo = run.todo
<1> DEFINE b == [t \in Tickers |-> IF t \in gone THEN 0 ELSE run.book[t]]
           o == [t \in Tickers |-> IF t \in gone THEN 0 ELSE run.opened[t]]
<1>1. b \in [Tickers -> 0..Lot] /\ o \in [Tickers -> Days] /\ Dated(b, o)
  <2>1. 0 \in 0..Lot /\ 0 \in Days BY SessionConstants DEF Days
  <2> QED BY <2>1, RunFields DEF Dated
<1>2. Session!Without(gone) = [run EXCEPT !.book = b, !.opened = o] BY DEF Session!Without
<1> HIDE DEF b, o
<1> DEFINE m == [run EXCEPT !.book = b, !.opened = o]
<1>3. /\ m \in SessionMemory /\ m.book = b /\ m.opened = o
      /\ m.state = run.state /\ m.todo = run.todo /\ m.order = run.order
      /\ m.sweep = run.sweep /\ m.mayOpen = run.mayOpen /\ m.now = run.now
      /\ m.tick = run.tick /\ m.bars = run.bars
  BY <1>1, RunFields DEF SessionMemory
<1> HIDE DEF m
<1>4. MemoryOK(m) /\ RunKeeps(m) BY <1>1, <1>3, RunFields DEF MemoryOK, RunKeeps
<1> QED BY <1>2, <1>3, <1>4 DEF m, b

\* The tickers to go through, and the order the run waits for.
LEMMA SetTodo ==
  ASSUME SessionTypes, NEW todo \in SUBSET Tickers
  PROVE  LET m == [run EXCEPT !.todo = todo] IN
         /\ MemoryOK(m) /\ RunKeeps(m) /\ m.book = run.book /\ m.state = run.state
         /\ m.opened = run.opened /\ m.todo = todo /\ m.order = run.order
<1> DEFINE m == [run EXCEPT !.todo = todo]
<1>1. /\ m \in SessionMemory /\ m.book = run.book /\ m.opened = run.opened /\ m.state = run.state
      /\ m.todo = todo /\ m.order = run.order
      /\ m.sweep = run.sweep /\ m.mayOpen = run.mayOpen /\ m.now = run.now
      /\ m.tick = run.tick /\ m.bars = run.bars
  BY RunFields DEF SessionMemory
<1> HIDE DEF m
<1>2. MemoryOK(m) /\ RunKeeps(m) BY <1>1, RunFields DEF MemoryOK, RunKeeps
<1> QED BY <1>1, <1>2 DEF m

LEMMA SetOrder ==
  ASSUME SessionTypes, NEW n \in Nat
  PROVE  LET m == [run EXCEPT !.order = n] IN
         /\ MemoryOK(m) /\ RunKeeps(m) /\ m.book = run.book /\ m.state = run.state
         /\ m.order = n
<1> DEFINE m == [run EXCEPT !.order = n]
<1>1. /\ m \in SessionMemory /\ m.book = run.book /\ m.opened = run.opened /\ m.state = run.state
      /\ m.order = n
      /\ m.sweep = run.sweep /\ m.mayOpen = run.mayOpen /\ m.now = run.now
      /\ m.tick = run.tick /\ m.bars = run.bars
  BY RunFields DEF SessionMemory
<1> HIDE DEF m
<1>2. MemoryOK(m) /\ RunKeeps(m) BY <1>1, RunFields DEF MemoryOK, RunKeeps
<1> QED BY <1>1, <1>2 DEF m

LEMMA NoRunIsMemory ==
  ASSUME Session!SessionAssumption, Session!Now \in Nat
  PROVE  /\ MemoryOK(Session!NoRun) /\ Session!NoRun.order = 0
         /\ Session!NoRun.book = [t \in Tickers |-> 0]
         /\ Session!NoRun.opened = [t \in Tickers |-> 0]
         /\ Session!NoRun.state \in SessionState /\ Session!NoRun.state.date = 0
<1> DEFINE z == [t \in Tickers |-> 0]
           s == [date |-> 0, traded |-> {}, lastBar |-> [t \in Tickers |-> 0]]
           m == [book |-> z, opened |-> z, state |-> s,
                 sweep |-> FALSE, mayOpen |-> FALSE, now |-> 0, tick |-> 0, bars |-> {},
                 todo |-> {}, order |-> 0]
<1>1. 0 \in 0..Lot /\ 0 \in Days /\ 0 \in 0..MaxTick
  BY VenueAssumption DEF VenueAssumption, Session!SessionAssumption, Days
<1>2. z \in [Tickers -> 0..Lot] /\ z \in [Tickers -> Days] /\ z \in [Tickers -> 0..MaxTick] /\ Dated(z, z)
  BY <1>1 DEF Dated
<1>3. s \in SessionState /\ s.date = 0 BY <1>1, <1>2 DEF SessionState
<1>4. Session!NoRun = m BY DEF Session!NoRun
<1> HIDE DEF z, s
<1>5. m \in SessionMemory /\ m.book = z /\ m.opened = z /\ m.now = 0 /\ m.state = s /\ m.order = 0
  BY <1>1, <1>2, <1>3 DEF SessionMemory
<1> HIDE DEF m
<1>6. MemoryOK(m) BY <1>2, <1>5 DEF MemoryOK
<1> QED BY <1>3, <1>4, <1>5, <1>6 DEF z

-----------------------------------------------------------------------------
(* What the steps do.                                                      *)

SameClock == UNCHANGED <<day, market, tick>>
SameStores == UNCHANGED <<book, opened, state, lastRun>>

\* A step within a run that is neither its start nor its end.
Works == SameClock /\ SameStores /\ MemoryOK(run') /\ RunKeeps(run')

LEMMA StartDoes ==
  ASSUME SessionTypes, Session!Start
  PROVE  /\ UNCHANGED venueVars /\ SameClock /\ SameStores /\ UNCHANGED faults
         /\ pc = "idle" /\ pc' = "absorb" /\ MemoryOK(run') /\ run'.order = 0
         /\ run'.book = book /\ run'.todo = Session!BookOnly
         /\ run'.state = IF state.date = day THEN state ELSE Session!FreshState
         /\ run'.mayOpen = Session!MayOpen
<1>1. PICK bars \in SUBSET Tickers :
       run' = [Session!NoRun EXCEPT !.book = book, !.opened = opened, !.sweep = ~market,
                 !.mayOpen = Session!MayOpen, !.now = Session!Now, !.tick = tick, !.bars = bars,
                 !.todo = Session!BookOnly,
                 !.state = IF state.date = day THEN state ELSE Session!FreshState]
  BY DEF Session!Start
<1>2. /\ UNCHANGED venueVars /\ SameClock /\ SameStores /\ UNCHANGED faults
      /\ pc = "idle" /\ pc' = "absorb"
  BY SameOrders DEF Session!Start, SameClock, SameStores, Session!clockVars, Session!laneVars,
                    Session!venueVars, venueVars
<1> DEFINE s == IF state.date = day THEN state ELSE Session!FreshState
           o == Session!BookOnly
           y == Session!MayOpen
           n == Session!Now
           z == Session!NoRun
<1>3. s \in SessionState
  <2>1. Session!FreshState \in SessionState
    <3>1. 0 \in 0..MaxTick /\ day \in Days BY SessionConstants
    <3> QED BY <3>1 DEF Session!FreshState, SessionState
  <2> QED BY <2>1 DEF SessionTypes, StoresOK
<1>4. o \in SUBSET Tickers BY DEF Session!BookOnly, Session!Held
<1>5. y \in BOOLEAN BY DEF Session!MayOpen
<1>6. n \in Nat BY NowIsNat
<1>7. /\ book \in [Tickers -> 0..Lot] /\ opened \in [Tickers -> Days] /\ Dated(book, opened)
      /\ tick \in 0..MaxTick /\ (~market) \in BOOLEAN
  BY DEF SessionTypes, StoresOK
<1>8. z \in SessionMemory /\ z.order = 0 BY <1>6, NoRunIsMemory DEF SessionTypes, MemoryOK
<1> HIDE DEF s, o, y, n, z
<1> DEFINE m == [z EXCEPT !.book = book, !.opened = opened, !.sweep = ~market, !.mayOpen = y,
                          !.now = n, !.tick = tick, !.bars = bars, !.todo = o, !.state = s]
<1>9. m \in SessionMemory BY <1>3, <1>4, <1>5, <1>6, <1>7, <1>8 DEF SessionMemory
<1>10. /\ m.book = book /\ m.opened = opened /\ m.now = n /\ m.todo = o /\ m.state = s
       /\ m.order = 0 /\ m.mayOpen = y
  BY <1>8 DEF SessionMemory
<1>11. run' = m BY <1>1 DEF s, o, y, n, z
<1> HIDE DEF m
<1>12. MemoryOK(m) BY <1>6, <1>7, <1>9, <1>10 DEF MemoryOK, n
<1> QED BY <1>2, <1>10, <1>11, <1>12 DEF s, o, y

LEMMA AbsorbExitDoes ==
  ASSUME SessionTypes, NEW t \in Tickers, Session!AbsorbExit(t)
  PROVE  /\ UNCHANGED venueVars /\ Works /\ UNCHANGED <<pc, faults>> /\ pc = "absorb" /\ t \in run.todo
         /\ run'.book = [run.book EXCEPT ![t] = 0] /\ run'.state = run.state
         /\ run'.todo = run.todo \ {t} /\ run'.order = run.order
<1>1. /\ UNCHANGED venueVars /\ SameClock /\ SameStores /\ UNCHANGED <<pc, faults>>
      /\ pc = "absorb" /\ t \in run.todo /\ run' = Session!Sold(t)
  BY DEF Session!AbsorbExit, SameClock, SameStores, Session!clockVars, Session!laneVars,
         Session!venueVars, venueVars
<1> QED BY <1>1, SoldDoes DEF Works

LEMMA HistoryUnreadDoes ==
  ASSUME SessionTypes, NEW t \in Tickers, Session!HistoryUnread(t)
  PROVE  /\ UNCHANGED venueVars /\ Works /\ UNCHANGED pc /\ pc = "absorb"
         /\ faults < MaxFaults /\ faults' = faults + 1
         /\ run'.book = run.book /\ run'.state = run.state
         /\ run'.todo = run.todo \ {t} /\ run'.order = run.order
<1>1. /\ UNCHANGED venueVars /\ SameClock /\ SameStores /\ UNCHANGED pc
      /\ faults < MaxFaults /\ faults' = faults + 1
      /\ pc = "absorb" /\ run' = Session!Done(t)
  BY DEF Session!HistoryUnread, Session!Fault, SameClock, SameStores, Session!clockVars,
         Session!laneVars, Session!venueVars, venueVars
<1> QED BY <1>1, DoneDoes DEF Works

LEMMA AbsorbDoneDoes ==
  ASSUME SessionTypes, Session!AbsorbDone
  PROVE  /\ UNCHANGED venueVars /\ SameClock /\ UNCHANGED <<state, lastRun, faults>>
         /\ pc = "absorb" /\ run.order = 0 /\ run'.order = 0
         /\ book' = run.book /\ opened' = run.opened
         /\ MemoryOK(run')
         /\ \/ /\ run'.book = run.book /\ run'.state = run.state /\ RunKeeps(run')
               /\ \/ pc' = "sweep" /\ run.sweep
                  \/ pc' = "flatten" /\ ~run.sweep
            \/ pc' = "idle"
<1>1. /\ UNCHANGED venueVars /\ SameClock /\ UNCHANGED <<state, lastRun, faults>>
      /\ pc = "absorb" /\ book' = run.book /\ opened' = run.opened
  BY DEF Session!AbsorbDone, SameClock, Session!clockVars, Session!venueVars, venueVars
<1>2. run.order = 0 BY <1>1, RunFields DEF SessionTypes, PhaseOK
<1>3. CASE /\ run' = [run EXCEPT !.todo = IF run.sweep THEN Session!Held(run.book) \cap run.bars
                                          ELSE run.bars]
           /\ pc' = IF run.sweep THEN "sweep" ELSE "flatten"
  <2> DEFINE d == IF run.sweep THEN Session!Held(run.book) \cap run.bars ELSE run.bars
  <2>1. d \in SUBSET Tickers BY RunFields
  <2>2. run' = [run EXCEPT !.todo = d] BY <1>3
  <2> HIDE DEF d
  <2>3. /\ MemoryOK(run') /\ RunKeeps(run') /\ run'.book = run.book /\ run'.state = run.state
        /\ run'.order = run.order
    BY <2>1, <2>2, SetTodo
  <2> QED BY <1>1, <1>2, <1>3, <2>3, RunFields
<1>4. CASE run' = Session!NoRun /\ pc' = "idle"
  BY <1>1, <1>2, <1>4, NoRunIsMemory, NowIsNat DEF SessionTypes
<1> QED BY <1>3, <1>4 DEF Session!AbsorbDone

LEMMA FlattenDoes ==
  ASSUME SessionTypes, Session!Flatten
  PROVE  /\ UNCHANGED venueVars /\ Works /\ UNCHANGED faults /\ pc = "flatten" /\ pc' = "decide"
         /\ run'.book = [t \in Tickers |-> IF t \in Session!Stale THEN 0 ELSE run.book[t]]
         /\ run'.state = run.state /\ run'.order = run.order
<1>1. /\ UNCHANGED venueVars /\ SameClock /\ SameStores /\ UNCHANGED faults
      /\ pc = "flatten" /\ pc' = "decide" /\ run' = Session!Without(Session!Stale)
  BY DEF Session!Flatten, SameClock, SameStores, Session!clockVars, Session!laneVars,
         Session!venueVars, venueVars
<1> QED BY <1>1, WithoutDoes DEF Works

LEMMA HoldDoes ==
  ASSUME SessionTypes, NEW t \in Tickers, Session!Hold(t)
  PROVE  /\ UNCHANGED venueVars /\ Works /\ UNCHANGED <<pc, faults>> /\ pc = "decide"
         /\ run'.book = run.book /\ run'.order = run.order
         /\ run'.state.date = run.state.date /\ run'.state.traded = run.state.traded
<1>1. /\ UNCHANGED venueVars /\ SameClock /\ SameStores /\ UNCHANGED <<pc, faults>>
      /\ pc = "decide" /\ run' = Session!Judged(t)
  BY DEF Session!Hold, SameClock, SameStores, Session!clockVars, Session!laneVars,
         Session!venueVars, venueVars
<1> QED BY <1>1, JudgedDoes DEF Works

LEMMA BuyDoes ==
  ASSUME SessionTypes, NEW t \in Tickers, Session!Buy(t)
  PROVE  /\ Submit(t) /\ Works /\ UNCHANGED faults /\ pc = "decide" /\ pc' = "await"
         /\ run.book[t] = 0 /\ t \notin run.state.traded /\ run.mayOpen
         /\ run'.book = run.book /\ run'.state = run.state /\ run'.order = placed + 1
<1>1. /\ Submit(t) /\ SameClock /\ SameStores /\ UNCHANGED faults /\ pc = "decide" /\ pc' = "await"
      /\ Session!MayBuy(t) /\ run' = [run EXCEPT !.order = placed + 1]
  BY SameVenue DEF Session!Buy, SameClock, SameStores, Session!clockVars, Session!laneVars
<1>2. placed + 1 \in Nat BY SessionConstants
<1>3. /\ MemoryOK(run') /\ RunKeeps(run') /\ run'.book = run.book /\ run'.state = run.state
      /\ run'.order = placed + 1
  BY <1>1, <1>2, SetOrder
<1>4. run.book[t] = 0 /\ t \notin run.state.traded /\ run.mayOpen
  <2>1. run.book[t] \in 0..Lot /\ Lot \in Nat BY RunFields, SessionConstants
  <2>2. ~(run.book[t] > 0) /\ t \notin run.state.traded /\ run.mayOpen
    BY <1>1 DEF Session!MayBuy, Session!Holding
  <2> QED BY <2>1, <2>2
<1> QED BY <1>1, <1>3, <1>4 DEF Works

\* The order that is awaited, with what it filled.
LEMMA AwaitedOrder ==
  ASSUME SessionTypes, pc = "await"
  PROVE  /\ run.order \in Placed /\ orders[run.order] \in Order
         /\ orders[run.order].ticker \in Tickers /\ orders[run.order].filled \in 0..Lot
<1>1. run.order \in 0..placed /\ run.order > 0 BY DEF SessionTypes, PhaseOK
<1>2. run.order \in Placed BY <1>1, SessionConstants DEF Placed
<1>3. orders[run.order] \in Order BY <1>2 DEF SessionTypes, VenueInv, VenueTypeOK
<1> QED BY <1>2, <1>3 DEF Order

\* What the poll or the failed cancel leaves in the memory of the run.
LEMMA OutcomeDoes ==
  ASSUME SessionTypes, SameClock, SameStores, pc = "await",
         run' = Session!Outcome(orders[run.order].ticker, orders[run.order].filled)
  PROVE  LET o == orders[run.order] IN
         /\ Works /\ run'.order = 0
         /\ run'.state.date = run.state.date
         /\ IF Filled(run.order)
              THEN /\ run'.book = [run.book EXCEPT ![o.ticker] = o.filled]
                   /\ run'.state.traded = run.state.traded \cup {o.ticker}
              ELSE run'.book = run.book /\ run'.state.traded = run.state.traded
<1> DEFINE t == orders[run.order].ticker
           q == orders[run.order].filled
<1>1. run' = Session!Outcome(t, q) OBVIOUS
<1>2. t \in Tickers /\ q \in 0..Lot BY AwaitedOrder
<1>3. Filled(run.order) <=> q > 0 BY DEF Filled
<1> HIDE DEF t, q
<1>4. CASE q > 0
  <2>1. q \in 1..Lot BY <1>2, <1>4, SessionConstants
  <2>2. run' = Session!Booked(t, q) BY <1>1, <1>4 DEF Session!Outcome
  <2>3. /\ MemoryOK(run') /\ RunKeeps(run') /\ run'.order = 0
        /\ run'.book = [run.book EXCEPT ![t] = q]
        /\ run'.state.date = run.state.date /\ run'.state.traded = run.state.traded \cup {t}
    BY <1>2, <2>1, <2>2, BookedDoes
  <2> QED BY <1>3, <1>4, <2>3 DEF Works, t, q
<1>5. CASE ~(q > 0)
  <2>1. run' = Session!Dropped(t) BY <1>1, <1>5 DEF Session!Outcome
  <2>2. /\ MemoryOK(run') /\ RunKeeps(run') /\ run'.order = 0 /\ run'.book = run.book
        /\ run'.state.date = run.state.date /\ run'.state.traded = run.state.traded
    BY <1>2, <2>1, DroppedDoes
  <2> QED BY <1>3, <1>5, <2>2 DEF Works, t, q
<1> QED BY <1>4, <1>5

LEMMA SettleDoes ==
  ASSUME SessionTypes, Session!Settle
  PROVE  LET o == orders[run.order] IN
         /\ UNCHANGED venueVars /\ Works /\ UNCHANGED faults /\ pc = "await" /\ pc' = "decide"
         /\ ~Open(run.order) /\ run'.order = 0
         /\ run'.state.date = run.state.date
         /\ IF Filled(run.order)
              THEN /\ run'.book = [run.book EXCEPT ![o.ticker] = o.filled]
                   /\ run'.state.traded = run.state.traded \cup {o.ticker}
              ELSE run'.book = run.book /\ run'.state.traded = run.state.traded
<1>1. /\ UNCHANGED venueVars /\ SameClock /\ SameStores /\ UNCHANGED faults
      /\ pc = "await" /\ pc' = "decide" /\ ~Open(run.order)
      /\ run' = Session!Outcome(orders[run.order].ticker, orders[run.order].filled)
  BY SameOrders DEF Session!Settle, SameClock, SameStores, Session!clockVars, Session!laneVars,
                    Session!venueVars, venueVars
<1> QED BY <1>1, OutcomeDoes

LEMMA CancelLostDoes ==
  ASSUME SessionTypes, Session!CancelLost
  PROVE  /\ UNCHANGED venueVars /\ Works /\ pc = "await" /\ pc' = "decide"
         /\ faults < MaxFaults /\ faults' = faults + 1
         /\ run'.order = 0 /\ run'.state.date = run.state.date
<1>1. /\ UNCHANGED venueVars /\ SameClock /\ SameStores
      /\ faults < MaxFaults /\ faults' = faults + 1
      /\ pc = "await" /\ pc' = "decide"
      /\ run' = Session!Outcome(orders[run.order].ticker, orders[run.order].filled)
  BY DEF Session!CancelLost, Session!Fault, SameClock, SameStores, Session!clockVars,
         Session!laneVars, Session!venueVars, venueVars
<1> QED BY <1>1, OutcomeDoes

LEMMA CancelDoes ==
  ASSUME SessionTypes, Session!Cancel
  PROVE  /\ CancelOrder(run.order) /\ SameClock /\ SameStores /\ UNCHANGED <<pc, run, faults>>
         /\ pc = "await"
BY SameVenue DEF Session!Cancel, SameClock, SameStores, Session!clockVars, Session!laneVars

\* A sell the broker took, and one it refused; without a fault it refuses only
\* when nothing is left to sell.
LEMMA CloseDoes ==
  ASSUME SessionTypes, NEW t \in Tickers, Session!CloseAccepted(t) \/ Session!CloseRefused(t)
  PROVE  /\ Works /\ UNCHANGED pc /\ pc \in {"decide", "sweep"}
         /\ \/ ClosePosition(t) /\ UNCHANGED faults
            \/ /\ ClosePositionRefused(t)
               /\ \/ faults < MaxFaults /\ faults' = faults + 1
                  \/ UNCHANGED faults /\ ~(shares[t] > selling[t])
         /\ run'.book = [run.book EXCEPT ![t] = 0] /\ run'.order = run.order
         /\ run'.state.date = run.state.date /\ run'.state.traded = run.state.traded
         /\ pc = "sweep" => run'.state = run.state
<1>1. /\ SameClock /\ SameStores /\ UNCHANGED pc /\ pc \in {"decide", "sweep"}
      /\ run' = Session!Exited(t)
  BY DEF Session!CloseAccepted, Session!CloseRefused, Session!SellSignal, SameClock, SameStores,
         Session!clockVars, Session!laneVars
<1>2. \/ ClosePosition(t) /\ UNCHANGED faults
      \/ /\ ClosePositionRefused(t)
         /\ \/ faults < MaxFaults /\ faults' = faults + 1
            \/ UNCHANGED faults /\ ~(shares[t] > selling[t])
  BY SameVenue DEF Session!CloseAccepted, Session!CloseRefused, Session!Fault
<1> QED BY <1>1, <1>2, ExitedDoes DEF Works

LEMMA PersistDoes ==
  ASSUME SessionTypes, Session!Persist
  PROVE  /\ UNCHANGED venueVars /\ SameClock /\ UNCHANGED faults
         /\ pc \in {"decide", "sweep"} /\ pc' = "idle"
         /\ book' = run.book /\ opened' = run.opened
         /\ IF pc = "sweep" THEN UNCHANGED <<state, lastRun>>
            ELSE state' = run.state /\ lastRun' = run.now
         /\ MemoryOK(run') /\ run'.order = 0
<1>1. /\ UNCHANGED venueVars /\ SameClock /\ UNCHANGED faults
      /\ pc \in {"decide", "sweep"} /\ pc' = "idle"
      /\ book' = run.book /\ opened' = run.opened /\ run' = Session!NoRun
      /\ IF run.sweep THEN UNCHANGED <<state, lastRun>>
         ELSE state' = run.state /\ lastRun' = run.now
  BY DEF Session!Persist, SameClock, Session!clockVars, Session!venueVars, venueVars
<1>2. pc = "sweep" <=> run.sweep BY <1>1 DEF SessionTypes, PhaseOK
<1>3. MemoryOK(run') /\ run'.order = 0 BY <1>1, NoRunIsMemory, NowIsNat DEF SessionTypes
<1> QED BY <1>1, <1>2, <1>3

LEMMA CrashDoes ==
  ASSUME SessionTypes, Session!Crash
  PROVE  /\ UNCHANGED venueVars /\ SameClock /\ SameStores /\ pc' = "idle"
         /\ faults < MaxFaults /\ faults' = faults + 1
         /\ MemoryOK(run') /\ run'.order = 0
<1>1. /\ UNCHANGED venueVars /\ SameClock /\ SameStores /\ pc' = "idle"
      /\ faults < MaxFaults /\ faults' = faults + 1 /\ run' = Session!NoRun
  BY DEF Session!Crash, Session!Fault, SameClock, SameStores, Session!clockVars, Session!laneVars,
         Session!venueVars, venueVars
<1> QED BY <1>1, NoRunIsMemory, NowIsNat DEF SessionTypes

\* At the close nothing rests any more, entries and legs.
LEMMA CloseOfDayDoes ==
  ASSUME SessionTypes, Session!Close
  PROVE  /\ VenueInv' /\ market' = FALSE
         /\ UNCHANGED <<placed, shares, selling, day, tick, pc, run, faults>> /\ SameStores
         /\ \A i \in Placed : /\ orders'[i].ticker = orders[i].ticker
                              /\ orders'[i].day = orders[i].day
                              /\ orders'[i].filled = orders[i].filled
                              /\ orders'[i].status # "new"
                              /\ orders'[i].legs =
                                   IF orders[i].legs = "live" THEN "none" ELSE orders[i].legs
<1>1. /\ UNCHANGED <<placed, shares, selling, day, tick, pc, run, faults>> /\ SameStores
      /\ market' = FALSE
      /\ orders' = [i \in Placed |->
                      [orders[i] EXCEPT !.status = IF @ = "new" THEN "canceled" ELSE @,
                                        !.legs = IF @ = "live" THEN "none" ELSE @]]
  BY SameOrders DEF Session!Close, SameStores, Session!laneVars
<1>2. ASSUME NEW i \in Placed
      PROVE  /\ orders'[i] \in Order
             /\ orders'[i].ticker = orders[i].ticker /\ orders'[i].day = orders[i].day
             /\ orders'[i].filled = orders[i].filled /\ orders'[i].status # "new"
             /\ orders'[i].legs = IF orders[i].legs = "live" THEN "none" ELSE orders[i].legs
  <2>1. orders[i] \in Order BY DEF SessionTypes, VenueInv, VenueTypeOK
  <2> QED BY <1>1, <2>1 DEF Order
<1>3. orders' \in [Placed' -> Order'] BY <1>1, <1>2 DEF Placed, Order, Days
<1>4. RestingBelowLot' BY <1>1, <1>2 DEF RestingBelowLot, Open, Placed
<1>5. VenueInv' BY <1>1, <1>3, <1>4 DEF SessionTypes, VenueInv, VenueTypeOK
<1> QED BY <1>1, <1>2, <1>5

-----------------------------------------------------------------------------
(* Every step keeps the types.                                             *)

LEMMA SessionInitTypes ==
  ASSUME Session!SessionAssumption, Session!Init
  PROVE  SessionTypes
<1>1. VenueInv
  <2>1. VenueInit BY SameOrders DEF Session!Init
  <2> QED BY <2>1, VenueAssumption
          DEF VenueInit, VenueInv, VenueTypeOK, RestingBelowLot, Placed, VenueAssumption
<1>2. /\ market = TRUE /\ tick = 0 /\ lastRun = 0 /\ pc = "idle" /\ faults = 0
      /\ run = Session!NoRun /\ book = run.book /\ opened = run.opened /\ state = run.state
  BY DEF Session!Init
<1>3. 0 \in 0..MaxTick /\ 0 \in 0..MaxFaults BY DEF Session!SessionAssumption
<1>4. day = 1 BY SameOrders DEF Session!Init, VenueInit
<1>5. Session!Now \in Nat BY <1>2, <1>3, <1>4, ClockRuns DEF Session!Now
<1>6. MemoryOK(run) /\ run.order = 0 /\ run.state \in SessionState
  BY <1>2, <1>5, NoRunIsMemory
<1>7. StoresOK
  <2>1. run.book \in [Tickers -> 0..Lot] /\ run.opened \in [Tickers -> Days] /\ Dated(run.book, run.opened)
    BY <1>6 DEF MemoryOK, SessionMemory
  <2>2. market \in BOOLEAN BY <1>2
  <2>3. lastRun \in Nat /\ lastRun <= Session!Now BY <1>2, <1>5
  <2> QED BY <1>2, <1>3, <1>6, <2>1, <2>2, <2>3 DEF StoresOK
<1>8. PhaseOK
  <2>1. placed = 0 BY SameOrders DEF Session!Init, VenueInit
  <2> QED BY <1>2, <1>6, <2>1 DEF PhaseOK
<1> QED BY <1>1, <1>2, <1>3, <1>6, <1>7, <1>8 DEF SessionTypes

\* The stores while nothing is written, and when a run writes them.
LEMMA StoresStay ==
  ASSUME SessionTypes, SameClock, SameStores
  PROVE  StoresOK' /\ Session!Now' = Session!Now
BY DEF SessionTypes, SameClock, SameStores, StoresOK, Dated, Session!Now

LEMMA StoresWritten ==
  ASSUME SessionTypes, SameClock, book' = run.book, opened' = run.opened,
         state' \in SessionState, lastRun' \in {lastRun, run.now}
  PROVE  StoresOK'
<1>1. Session!Now' = Session!Now BY DEF SameClock, Session!Now
<1>2. Dated(book, opened)' BY RunFields DEF Dated
<1>3. SessionState' = SessionState BY DEF SessionState, Days
<1>4. lastRun' \in Nat /\ lastRun' <= Session!Now BY RunFields DEF SessionTypes, StoresOK
<1> QED BY <1>1, <1>2, <1>3, <1>4, RunFields DEF SessionTypes, StoresOK, SameClock, Days

LEMMA MemoryStays ==
  ASSUME MemoryOK(run'), Session!Now \in Nat, Session!Now' \in Nat, Session!Now <= Session!Now'
  PROVE  MemoryOK(run)'
<1>1. run' \in SessionMemory' BY DEF MemoryOK, SessionMemory, SessionState, Days
<1>2. run'.now \in Nat BY DEF MemoryOK, SessionMemory
<1>3. run'.now <= Session!Now' BY <1>2 DEF MemoryOK
<1> QED BY <1>1, <1>3 DEF MemoryOK, Dated

\* A step that leaves the clock alone.
LEMMA TypesFrom ==
  ASSUME SessionTypes, SameClock, VenueInv', StoresOK', MemoryOK(run'), PhaseOK',
         faults' = faults \/ (faults < MaxFaults /\ faults' = faults + 1)
  PROVE  SessionTypes'
<1>1. Session!Now' = Session!Now BY DEF SameClock, Session!Now
<1>2. MemoryOK(run)' BY <1>1, NowIsNat, MemoryStays
<1>3. faults' \in 0..MaxFaults
  <2>1. faults \in 0..MaxFaults /\ MaxFaults \in Nat BY SessionConstants DEF SessionTypes
  <2> QED BY <2>1
<1>4. Session!SessionAssumption' BY DEF SessionTypes, Session!SessionAssumption
<1> QED BY <1>2, <1>3, <1>4 DEF SessionTypes

LEMMA VenueStays ==
  ASSUME SessionTypes, UNCHANGED venueVars, SameClock
  PROVE  VenueInv' /\ UNCHANGED placed
BY DEF SessionTypes, SameClock, venueVars, VenueInv, VenueTypeOK, RestingBelowLot, Placed, Open, Order, Days

\* A step that moves the clock or the venue, and no run.
LEMMA TypesFromOutside ==
  ASSUME SessionTypes, VenueInv', market' \in BOOLEAN, tick' \in 0..MaxTick, SameStores,
         Session!Now' \in Nat, Session!Now <= Session!Now',
         UNCHANGED <<pc, run, placed, faults>>
  PROVE  SessionTypes'
<1>1. Session!SessionAssumption' BY DEF SessionTypes, Session!SessionAssumption
<1>2. Session!Now \in Nat BY NowIsNat
<1>3. MemoryOK(run)'
  <2>1. run' = run /\ MemoryOK(run) BY DEF SessionTypes
  <2>2. MemoryOK(run') BY <2>1 DEF MemoryOK
  <2> QED BY <1>2, <2>2, MemoryStays
<1>4. StoresOK'
  <2>1. lastRun' \in Nat /\ lastRun' <= Session!Now'
    BY <1>2 DEF SessionTypes, StoresOK, SameStores
  <2>2. /\ book' \in [Tickers -> 0..Lot] /\ opened' \in [Tickers -> Days]'
        /\ Dated(book, opened)' /\ state' \in SessionState'
    BY DEF SessionTypes, StoresOK, SameStores, Dated, SessionState, Days
  <2> QED BY <2>1, <2>2 DEF StoresOK
<1>5. PhaseOK' BY DEF SessionTypes, PhaseOK
<1> QED BY <1>1, <1>3, <1>4, <1>5 DEF SessionTypes

LEMMA SessionStepTypes ==
  ASSUME SessionTypes, [Session!Next]_Session!vars
  PROVE  SessionTypes'
<1> USE DEF PhaseOK
<1>0. PhaseOK /\ run.order \in Nat /\ placed \in Nat BY SessionConstants, RunFields DEF SessionTypes
<1>1. CASE UNCHANGED Session!vars
  <2>1. UNCHANGED <<orders, placed, shares, selling, day, market, tick, book, opened, state, lastRun, pc, run, faults>>
    BY <1>1 DEF Session!vars, Session!venueVars, Session!clockVars, Session!laneVars
  <2>2. SameClock /\ SameStores /\ UNCHANGED venueVars BY <2>1 DEF SameClock, SameStores, venueVars
  <2>3. MemoryOK(run') BY <2>1 DEF SessionTypes, MemoryOK
  <2> QED BY <1>0, <2>1, <2>2, <2>3, VenueStays, StoresStay, TypesFrom
<1>2. CASE Session!VenueActs
  <2>1. /\ VenueStep /\ SameClock /\ SameStores /\ UNCHANGED <<pc, run, faults>>
    BY <1>2, SameVenue DEF Session!VenueActs, Session!clockVars, Session!laneVars, SameClock, SameStores
  <2>2. VenueInv' /\ UNCHANGED placed BY <2>1, VenueStepType DEF SessionTypes, SameClock
  <2>3. MemoryOK(run') BY <2>1 DEF SessionTypes, MemoryOK
  <2> QED BY <1>0, <2>1, <2>2, <2>3, StoresStay, TypesFrom
<1>3. CASE Session!Tick
  <2>1. /\ UNCHANGED <<orders, placed, shares, selling, day, market, pc, run, faults>> /\ SameStores
        /\ tick < MaxTick /\ tick' = tick + 1
    BY <1>3 DEF Session!Tick, Session!venueVars, Session!laneVars, SameStores
  <2>2. VenueInv'
    BY <2>1 DEF SessionTypes, VenueInv, VenueTypeOK, RestingBelowLot, Placed, Open, Order, Days
  <2>3. tick' \in 0..MaxTick /\ market' \in BOOLEAN
    BY <2>1, SessionConstants DEF SessionTypes, StoresOK
  <2>4. Session!Now' = Session!Now + 1
    <3>1. tick \in 0..MaxTick /\ Session!SessionAssumption /\ day \in Nat /\ day > 0
      BY SessionConstants DEF SessionTypes, StoresOK
    <3> QED BY <2>1, <3>1, ClockRuns DEF Session!Now
  <2>5. Session!Now' \in Nat /\ Session!Now <= Session!Now' BY <2>4, NowIsNat
  <2> QED BY <2>1, <2>2, <2>3, <2>5, TypesFromOutside
<1>4. CASE Session!Close
  <2>1. /\ VenueInv' /\ market' \in BOOLEAN /\ SameStores
        /\ UNCHANGED <<placed, day, tick, pc, run, faults>>
    BY <1>4, CloseOfDayDoes
  <2>2. Session!Now' = Session!Now /\ Session!Now \in Nat BY <2>1, NowIsNat DEF Session!Now
  <2>3. tick' \in 0..MaxTick BY <2>1 DEF SessionTypes, StoresOK
  <2>4. Session!Now <= Session!Now' BY <2>2
  <2> QED BY <2>1, <2>2, <2>3, <2>4, TypesFromOutside
<1>5. CASE Session!NextDay
  <2>1. /\ UNCHANGED <<orders, placed, shares, selling, pc, run, faults>> /\ SameStores
        /\ day < MaxDay /\ day' = day + 1 /\ market' = TRUE /\ tick' = 0
    BY <1>5 DEF Session!NextDay, Session!venueVars, Session!laneVars, SameStores
  <2>2. VenueInv'
    <3>1. day' \in 1..MaxDay BY <2>1, SessionConstants
    <3> QED BY <2>1, <3>1 DEF SessionTypes, VenueInv, VenueTypeOK, RestingBelowLot, Placed, Open, Order, Days
  <2>3. tick' \in 0..MaxTick /\ market' \in BOOLEAN BY <2>1, SessionConstants
  <2>4. Session!Now' \in Nat /\ Session!Now <= Session!Now'
    <3>1. tick \in 0..MaxTick /\ Session!SessionAssumption /\ day \in Nat /\ day > 0
      BY SessionConstants DEF SessionTypes, StoresOK
    <3>2. Session!Now' >= Session!Now BY <2>1, <3>1, ClockRuns DEF Session!Now
    <3>3. day + 1 \in Nat /\ day + 1 > 0 /\ 0 \in 0..MaxTick BY <3>1, SessionConstants
    <3>4. Session!Now' \in Nat BY <2>1, <3>1, <3>3, ClockRuns DEF Session!Now
    <3> QED BY <3>2, <3>4, NowIsNat
  <2> QED BY <2>1, <2>2, <2>3, <2>4, TypesFromOutside
<1>6. CASE Session!Start
  <2>1. PhaseOK' BY <1>0, <1>6, StartDoes, VenueStays
  <2> QED BY <1>6, <2>1, StartDoes, VenueStays, StoresStay, TypesFrom
<1>7. ASSUME NEW t \in Tickers, Session!AbsorbExit(t) PROVE SessionTypes'
  <2>1. PhaseOK' BY <1>0, <1>7, AbsorbExitDoes, VenueStays DEF Works, RunKeeps
  <2> QED BY <1>7, <2>1, AbsorbExitDoes, VenueStays, StoresStay, TypesFrom DEF Works
<1>8. ASSUME NEW t \in Tickers, Session!HistoryUnread(t) PROVE SessionTypes'
  <2>1. PhaseOK' BY <1>0, <1>8, HistoryUnreadDoes, VenueStays DEF Works, RunKeeps
  <2> QED BY <1>8, <2>1, HistoryUnreadDoes, VenueStays, StoresStay, TypesFrom DEF Works
<1>9. CASE Session!AbsorbDone
  <2>1. PhaseOK' BY <1>0, <1>9, AbsorbDoneDoes, VenueStays DEF RunKeeps
  <2>2. StoresOK' BY <1>9, AbsorbDoneDoes, StoresWritten DEF SessionTypes, StoresOK
  <2> QED BY <1>9, <2>1, <2>2, AbsorbDoneDoes, VenueStays, TypesFrom
<1>10. CASE Session!Flatten
  <2>1. PhaseOK' BY <1>0, <1>10, FlattenDoes, VenueStays DEF Works, RunKeeps
  <2> QED BY <1>10, <2>1, FlattenDoes, VenueStays, StoresStay, TypesFrom DEF Works
<1>11. ASSUME NEW t \in Tickers, Session!Hold(t) PROVE SessionTypes'
  <2>1. PhaseOK' BY <1>0, <1>11, HoldDoes, VenueStays DEF Works, RunKeeps
  <2> QED BY <1>11, <2>1, HoldDoes, VenueStays, StoresStay, TypesFrom DEF Works
<1>12. ASSUME NEW t \in Tickers, Session!Buy(t) PROVE SessionTypes'
  <2>1. VenueInv' /\ placed' = placed + 1
    BY <1>12, BuyDoes, SubmitType DEF SessionTypes, Works, SameClock
  <2>2. PhaseOK' BY <1>0, <1>12, <2>1, BuyDoes DEF Works, RunKeeps
  <2> QED BY <1>12, <2>1, <2>2, BuyDoes, StoresStay, TypesFrom DEF Works
<1>13. CASE Session!Settle
  <2>1. PhaseOK' BY <1>0, <1>13, SettleDoes, VenueStays DEF Works, RunKeeps
  <2> QED BY <1>13, <2>1, SettleDoes, VenueStays, StoresStay, TypesFrom DEF Works
<1>14. CASE Session!Cancel
  <2>1. VenueInv' /\ UNCHANGED placed
    BY <1>14, CancelDoes, AwaitedOrder, CancelOrderType DEF SessionTypes, SameClock, CancelOrder
  <2>2. MemoryOK(run') BY <1>14, CancelDoes DEF SessionTypes, MemoryOK
  <2>3. PhaseOK' BY <1>0, <1>14, <2>1, CancelDoes
  <2> QED BY <1>14, <2>1, <2>2, <2>3, CancelDoes, StoresStay, TypesFrom
<1>15. ASSUME NEW t \in Tickers, Session!CloseAccepted(t) \/ Session!CloseRefused(t) PROVE SessionTypes'
  <2>1. VenueInv' /\ UNCHANGED placed
    <3>1. SameClock BY <1>15, CloseDoes DEF Works
    <3>2. CASE ClosePosition(t)
      <4>1. selling' \in [Tickers -> Nat]
        <5>1. /\ shares \in [Tickers -> Int] /\ selling \in [Tickers -> Nat]
              /\ selling' = [selling EXCEPT ![t] = shares[t]] /\ shares[t] > selling[t]
          BY <3>2 DEF ClosePosition, SessionTypes, VenueInv, VenueTypeOK
        <5>2. shares[t] \in Nat BY <5>1
        <5> QED BY <5>1, <5>2
      <4>2. shares' \in [Tickers -> Int] BY <3>2 DEF ClosePosition, SessionTypes, VenueInv, VenueTypeOK
      <4> QED BY <3>1, <3>2, <4>1, <4>2, CancelAll DEF ClosePosition, SessionTypes, SameClock
    <3>3. CASE ClosePositionRefused(t)
      <4>1. UNCHANGED <<placed, shares, selling, day>> BY <3>1, <3>3 DEF ClosePositionRefused, SameClock
      <4>2. shares' \in [Tickers -> Int] /\ selling' \in [Tickers -> Nat]
        BY <4>1 DEF SessionTypes, VenueInv, VenueTypeOK
      <4>3. CASE orders' = orders
        BY <3>1, <4>1, <4>3, VenueStays DEF venueVars
      <4>4. CASE orders' = WithoutResting(t)
        BY <4>1, <4>2, <4>4, CancelAll DEF SessionTypes
      <4> QED BY <3>3, <4>3, <4>4 DEF ClosePositionRefused
    <3> QED BY <1>15, <3>2, <3>3, CloseDoes
  <2>2. PhaseOK' BY <1>0, <1>15, <2>1, CloseDoes DEF Works, RunKeeps
  <2> QED BY <1>15, <2>1, <2>2, CloseDoes, StoresStay, TypesFrom DEF Works
<1>16. CASE Session!Persist
  <2>1. PhaseOK' BY <1>0, <1>16, PersistDoes, VenueStays
  <2>2. StoresOK'
    BY <1>16, PersistDoes, StoresWritten, RunFields DEF SessionTypes, StoresOK
  <2> QED BY <1>16, <2>1, <2>2, PersistDoes, VenueStays, TypesFrom
<1>17. CASE Session!Crash
  <2>1. PhaseOK' BY <1>0, <1>17, CrashDoes, VenueStays
  <2> QED BY <1>17, <2>1, CrashDoes, VenueStays, StoresStay, TypesFrom
<1>18. CASE Session!CancelLost
  <2>1. PhaseOK' BY <1>0, <1>18, CancelLostDoes, VenueStays DEF Works, RunKeeps
  <2> QED BY <1>18, <2>1, CancelLostDoes, VenueStays, StoresStay, TypesFrom DEF Works
<1> QED BY <1>1, <1>2, <1>3, <1>4, <1>5, <1>6, <1>7, <1>8, <1>9, <1>10, <1>11, <1>12, <1>13,
           <1>14, <1>15, <1>16, <1>17, <1>18 DEF Session!Next, Session!RunStep

(* The book of the session lane, its day, its clock and the memory of the  *)
(* running process keep their types, for any number of bars, days, orders  *)
(* and faults, and a position is stored with its day or not at all.        *)
THEOREM SessionTypeCorrect ==
  ASSUME Session!SessionAssumption
  PROVE  Session!Spec => []Session!TypeOK
<1>1. Session!Init => SessionTypes BY SessionInitTypes
<1>2. SessionTypes /\ [Session!Next]_Session!vars => SessionTypes' BY SessionStepTypes
<1> QED BY <1>1, <1>2, SessionTypesGive, PTL DEF Session!Spec

-----------------------------------------------------------------------------
(* One entry per ticker and day.  What filled today is in the traded set,  *)
(* of the stored state or, while it decides, of the run's memory; only the *)
(* order the run waits for may be ahead of it.                             *)

Awaits(i) == pc = "await" /\ i = run.order
Marks == IF pc \in {"decide", "await"} THEN run.state ELSE state

NothingRests == \A i \in Placed : Open(i) => Awaits(i)
OrderDays == \A i \in Placed : orders[i].day \in 1..day
OnePerDay ==
  \A i, j \in Placed : /\ Filled(i) /\ Filled(j) /\ orders[i].ticker = orders[j].ticker
                       /\ orders[i].day = orders[j].day
                       => i = j
BuysMarked ==
  \A i \in Placed : Filled(i) /\ orders[i].day = day /\ ~Awaits(i) =>
                      Marks.date = day /\ orders[i].ticker \in Marks.traded
StateOfToday ==
  /\ pc # "idle" => run.state.date = day
  /\ pc \in {"absorb", "flatten", "sweep"} /\ state.date = day => run.state = state
AwaitedIsNew ==
  pc = "await" => orders[run.order].day = day /\ orders[run.order].ticker \notin run.state.traded

EntryInv ==
  faults = 0 =>
    NothingRests /\ OrderDays /\ OnePerDay /\ BuysMarked /\ StateOfToday /\ AwaitedIsNew

\* No order is new, none is opened again, and only the awaited one fills.
OrdersMove ==
  /\ Placed' = Placed
  /\ \A i \in Placed : /\ orders'[i].ticker = orders[i].ticker /\ orders'[i].day = orders[i].day
                       /\ orders'[i].status = "new" => Open(i)
                       /\ orders'[i].filled > 0 => Filled(i) \/ Awaits(i)

\* The run stays where it is and marks nothing.
MarksStay ==
  /\ UNCHANGED <<day, state, pc>> /\ run'.order = run.order
  /\ run'.state.date = run.state.date /\ run'.state.traded = run.state.traded
  /\ pc \in {"absorb", "flatten", "sweep"} => run'.state = run.state

LEMMA EntryKept ==
  ASSUME SessionTypes, EntryInv, OrdersMove, MarksStay, faults' = 0 => faults = 0
  PROVE  EntryInv'
<1> SUFFICES ASSUME faults' = 0 PROVE EntryInv' BY DEF EntryInv
<1>1. NothingRests /\ OrderDays /\ OnePerDay /\ BuysMarked /\ StateOfToday /\ AwaitedIsNew
  BY DEF EntryInv
<1>2. Placed' = Placed /\ \A i \in Placed : Awaits(i)' <=> Awaits(i)
  BY DEF OrdersMove, MarksStay, Awaits
<1>3. NothingRests' BY <1>1, <1>2 DEF NothingRests, OrdersMove, Open
<1>4. OrderDays' BY <1>1, <1>2 DEF OrderDays, OrdersMove, MarksStay
<1>5. pc = "await" => run.order \in Placed BY AwaitedOrder
<1>6. AwaitedIsNew' BY <1>1, <1>2, <1>5 DEF AwaitedIsNew, OrdersMove, MarksStay
<1>7. Marks'.date = Marks.date /\ Marks'.traded = Marks.traded BY DEF Marks, MarksStay
<1>8. BuysMarked'
  <2> SUFFICES ASSUME NEW i \in Placed, orders'[i].filled > 0, orders'[i].day = day', ~Awaits(i)'
               PROVE  Marks'.date = day' /\ orders'[i].ticker \in Marks'.traded
    BY <1>2 DEF BuysMarked, Filled
  <2>1. Filled(i) /\ orders[i].day = day /\ ~Awaits(i) BY <1>2 DEF OrdersMove, MarksStay
  <2> QED BY <1>1, <1>7, <2>1 DEF BuysMarked, OrdersMove, MarksStay
<1>9. OnePerDay'
  <2> SUFFICES ASSUME NEW i \in Placed, NEW j \in Placed, orders'[i].filled > 0, orders'[j].filled > 0,
                      orders'[i].ticker = orders'[j].ticker, orders'[i].day = orders'[j].day
               PROVE  i = j
    BY <1>2 DEF OnePerDay, Filled
  <2>1. /\ orders[i].ticker = orders[j].ticker /\ orders[i].day = orders[j].day
        /\ Filled(i) \/ Awaits(i)
        /\ Filled(j) \/ Awaits(j)
    BY DEF OrdersMove
  <2>2. ASSUME NEW k \in Placed, NEW l \in Placed, Awaits(k), ~Awaits(l), Filled(l),
               orders[k].day = orders[l].day
        PROVE  orders[k].ticker # orders[l].ticker
    <3>1. /\ pc = "await" /\ orders[k].day = day /\ orders[k].ticker \notin run.state.traded
      BY <1>1, <2>2 DEF AwaitedIsNew, Awaits
    <3>2. orders[l].ticker \in run.state.traded
      BY <1>1, <2>2, <3>1 DEF BuysMarked, Marks
    <3> QED BY <3>1, <3>2
  <2>3. CASE Awaits(i) /\ Awaits(j) BY <2>3 DEF Awaits
  <2>4. CASE Awaits(i) /\ ~Awaits(j) BY <2>1, <2>2, <2>4
  <2>5. CASE ~Awaits(i) /\ Awaits(j) BY <2>1, <2>2, <2>5
  <2>6. CASE ~Awaits(i) /\ ~Awaits(j) BY <1>1, <2>1, <2>6 DEF OnePerDay
  <2> QED BY <2>3, <2>4, <2>5, <2>6
<1>10. StateOfToday' BY <1>1 DEF StateOfToday, MarksStay
<1> QED BY <1>3, <1>4, <1>6, <1>8, <1>9, <1>10 DEF EntryInv

\* A step between two phases: the venue stands still.
LEMMA EntryTurns ==
  ASSUME EntryInv, UNCHANGED <<orders, placed, day, faults>>,
         faults = 0 => NothingRests' /\ BuysMarked' /\ StateOfToday' /\ AwaitedIsNew'
  PROVE  EntryInv'
<1>1. Placed' = Placed BY DEF Placed
<1>2. faults = 0 => OrderDays' /\ OnePerDay'
  BY <1>1 DEF EntryInv, OrderDays, OnePerDay, Filled
<1> QED BY <1>2 DEF EntryInv

LEMMA VenueMoves ==
  ASSUME SessionTypes, EntryInv, faults = 0, VenueStep
  PROVE  OrdersMove
<1>1. VenueInv BY DEF SessionTypes
<1>2. NothingRests BY DEF EntryInv
<1>3. ASSUME NEW i \in Placed, FillShare(i) PROVE OrdersMove
  <2>1. Placed' = Placed BY <1>1, <1>3, FillView DEF Placed
  <2>2. Awaits(i) BY <1>1, <1>2, <1>3, FillView DEF NothingRests
  <2>3. ASSUME NEW j \in Placed
        PROVE  /\ orders'[j].ticker = orders[j].ticker /\ orders'[j].day = orders[j].day
               /\ orders'[j].status = "new" => Open(j)
               /\ orders'[j].filled > 0 => Filled(j) \/ Awaits(j)
    <3>1. CASE j = i BY <1>1, <1>3, <2>2, <3>1, FillView
    <3>2. CASE j # i
      <4>1. orders'[j] = orders[j] BY <1>1, <1>3, <3>2, FillView
      <4> QED BY <4>1 DEF Open, Filled
    <3> QED BY <3>1, <3>2
  <2> QED BY <2>1, <2>3 DEF OrdersMove
<1>4. ASSUME NEW i \in Placed, RejectOrder(i) PROVE OrdersMove
  <2>1. Placed' = Placed BY <1>1, <1>4, RejectView DEF Placed
  <2>2. ASSUME NEW j \in Placed
        PROVE  /\ orders'[j].ticker = orders[j].ticker /\ orders'[j].day = orders[j].day
               /\ orders'[j].status = "new" => Open(j)
               /\ orders'[j].filled > 0 => Filled(j) \/ Awaits(j)
    <3>1. CASE j = i BY <1>1, <1>4, <3>1, RejectView DEF Filled
    <3>2. CASE j # i
      <4>1. orders'[j] = orders[j] BY <1>1, <1>4, <3>2, RejectView
      <4> QED BY <4>1 DEF Open, Filled
    <3> QED BY <3>1, <3>2
  <2> QED BY <2>1, <2>2 DEF OrdersMove
<1>5. ASSUME NEW i \in Placed, LegFires(i) PROVE OrdersMove
  <2>1. Placed' = Placed BY <1>1, <1>5, LegView DEF Placed
  <2>2. ASSUME NEW j \in Placed
        PROVE  /\ orders'[j].ticker = orders[j].ticker /\ orders'[j].day = orders[j].day
               /\ orders'[j].status = "new" => Open(j)
               /\ orders'[j].filled > 0 => Filled(j) \/ Awaits(j)
    <3>1. CASE j = i BY <1>1, <1>5, <3>1, LegView DEF Filled, Open
    <3>2. CASE j # i
      <4>1. orders'[j] = orders[j] BY <1>1, <1>5, <3>2, LegView
      <4> QED BY <4>1 DEF Open, Filled
    <3> QED BY <3>1, <3>2
  <2> QED BY <2>1, <2>2 DEF OrdersMove
<1>6. ASSUME NEW t \in Tickers, SellFills(t) PROVE OrdersMove
  BY <1>6 DEF SellFills, OrdersMove, Placed, Open, Filled
<1> QED BY <1>3, <1>4, <1>5, <1>6 DEF VenueStep

\* Closing a position or cancelling the awaited order fills nothing.
LEMMA CallsMove ==
  ASSUME SessionTypes
  PROVE  /\ \A t \in Tickers : ClosePosition(t) \/ ClosePositionRefused(t) => OrdersMove
         /\ pc = "await" /\ CancelOrder(run.order) => OrdersMove
         /\ UNCHANGED <<orders, placed>> => OrdersMove
         /\ Session!Close => OrdersMove
<1>1. VenueInv BY DEF SessionTypes
<1>2. UNCHANGED <<orders, placed>> => OrdersMove BY DEF OrdersMove, Placed, Open, Filled
<1>3. ASSUME NEW t \in Tickers, orders' = WithoutResting(t), UNCHANGED placed PROVE OrdersMove
  <2>1. Placed' = Placed BY <1>3 DEF Placed
  <2> QED BY <1>1, <1>3, <2>1, RestingView DEF OrdersMove, Filled
<1>4. ASSUME NEW t \in Tickers, ClosePosition(t) \/ ClosePositionRefused(t) PROVE OrdersMove
  <2>1. UNCHANGED placed /\ orders' \in {orders, WithoutResting(t)}
    BY <1>4 DEF ClosePosition, ClosePositionRefused
  <2> QED BY <1>2, <1>3, <2>1
<1>5. ASSUME pc = "await", CancelOrder(run.order) PROVE OrdersMove
  <2> DEFINE i == run.order
  <2>1. i \in Placed BY <1>5, AwaitedOrder
  <2>2. Placed' = Placed BY <1>1, <1>5, <2>1, CancelView DEF Placed
  <2>3. ASSUME NEW j \in Placed
        PROVE  /\ orders'[j].ticker = orders[j].ticker /\ orders'[j].day = orders[j].day
               /\ orders'[j].status = "new" => Open(j)
               /\ orders'[j].filled > 0 => Filled(j) \/ Awaits(j)
    <3>1. CASE j = i BY <1>1, <1>5, <2>1, <3>1, CancelView DEF Filled
    <3>2. CASE j # i
      <4>1. orders'[j] = orders[j] BY <1>1, <1>5, <2>1, <3>2, CancelView
      <4> QED BY <4>1 DEF Open, Filled
    <3> QED BY <3>1, <3>2
  <2> QED BY <2>2, <2>3 DEF OrdersMove
<1>6. ASSUME Session!Close PROVE OrdersMove
  <2>1. Placed' = Placed BY <1>6, CloseOfDayDoes DEF Placed
  <2> QED BY <1>6, <2>1, CloseOfDayDoes DEF OrdersMove, Filled
<1> QED BY <1>2, <1>4, <1>5, <1>6

LEMMA EntryFaulted ==
  ASSUME SessionTypes, faults' = faults + 1
  PROVE  EntryInv'
<1>1. faults \in Nat BY SessionConstants DEF SessionTypes
<1> QED BY <1>1 DEF EntryInv

LEMMA EntryBuys ==
  ASSUME SessionTypes, EntryInv, faults = 0, NEW t \in Tickers, Session!Buy(t)
  PROVE  EntryInv'
<1>1. NothingRests /\ OrderDays /\ OnePerDay /\ BuysMarked /\ StateOfToday BY DEF EntryInv
<1>2. /\ Submit(t) /\ UNCHANGED <<day, state>> /\ pc = "decide" /\ pc' = "await"
      /\ t \notin run.state.traded /\ run'.state = run.state /\ run'.order = placed + 1
  BY BuyDoes DEF Works, SameClock, SameStores
<1>3. /\ \A j \in Placed : orders'[j] = orders[j]
      /\ Placed' = Placed \cup {placed'} /\ placed' = placed + 1 /\ placed' \notin Placed
      /\ orders'[placed'].ticker = t /\ orders'[placed'].day = day
      /\ orders'[placed'].filled = 0
  BY <1>2, SubmitView DEF SessionTypes
<1>4. NothingRests' BY <1>1, <1>2, <1>3 DEF NothingRests, Awaits, Open
<1>5. OrderDays'
  <2>1. day \in 1..day BY SessionConstants
  <2> QED BY <1>1, <1>2, <1>3, <2>1 DEF OrderDays
<1>6. OnePerDay'
  <2> SUFFICES ASSUME NEW i \in Placed', NEW j \in Placed', orders'[i].filled > 0, orders'[j].filled > 0,
                      orders'[i].ticker = orders'[j].ticker, orders'[i].day = orders'[j].day
               PROVE  i = j
    BY DEF OnePerDay, Filled
  <2>1. i \in Placed /\ j \in Placed BY <1>3
  <2> QED BY <1>1, <1>3, <2>1 DEF OnePerDay, Filled
<1>7. BuysMarked'
  <2> SUFFICES ASSUME NEW i \in Placed', orders'[i].filled > 0, orders'[i].day = day'
               PROVE  Marks'.date = day' /\ orders'[i].ticker \in Marks'.traded
    BY DEF BuysMarked, Filled
  <2>1. i \in Placed /\ orders'[i] = orders[i] BY <1>3
  <2>2. Marks' = run.state /\ Marks = run.state /\ ~Awaits(i) BY <1>2 DEF Marks, Awaits
  <2> QED BY <1>1, <1>2, <2>1, <2>2 DEF BuysMarked, Filled
<1>8. StateOfToday' BY <1>1, <1>2 DEF StateOfToday
<1>9. AwaitedIsNew' BY <1>2, <1>3 DEF AwaitedIsNew
<1> QED BY <1>4, <1>5, <1>6, <1>7, <1>8, <1>9 DEF EntryInv

LEMMA EntryStep == SessionTypes /\ EntryInv /\ [Session!Next]_Session!vars => EntryInv'
<1> SUFFICES ASSUME SessionTypes, EntryInv, [Session!Next]_Session!vars PROVE EntryInv'
  OBVIOUS
<1>1. CASE UNCHANGED Session!vars
  <2>1. UNCHANGED <<orders, placed, day, state, pc, run, faults>>
    BY <1>1 DEF Session!vars, Session!venueVars, Session!clockVars, Session!laneVars
  <2>2. MarksStay BY <2>1 DEF MarksStay
  <2> QED BY <2>1, <2>2, CallsMove, EntryKept
<1>2. CASE Session!VenueActs
  <2>1. /\ VenueStep /\ UNCHANGED <<day, state, pc, run, faults>>
    BY <1>2, SameVenue DEF Session!VenueActs, Session!clockVars, Session!laneVars
  <2>2. MarksStay BY <2>1 DEF MarksStay
  <2>3. CASE faults = 0 BY <2>1, <2>2, <2>3, VenueMoves, EntryKept
  <2>4. CASE faults # 0 BY <2>1, <2>4 DEF EntryInv
  <2> QED BY <2>3, <2>4
<1>3. CASE Session!Tick
  <2>1. UNCHANGED <<orders, placed, day, state, pc, run, faults>>
    BY <1>3 DEF Session!Tick, Session!venueVars, Session!laneVars
  <2>2. MarksStay BY <2>1 DEF MarksStay
  <2> QED BY <2>1, <2>2, CallsMove, EntryKept
<1>4. CASE Session!Close
  <2>1. UNCHANGED <<day, state, pc, run, faults>> BY <1>4, CloseOfDayDoes DEF SameStores
  <2>2. MarksStay BY <2>1 DEF MarksStay
  <2> QED BY <1>4, <2>1, <2>2, CallsMove, EntryKept
<1>5. CASE Session!NextDay
  <2>1. /\ UNCHANGED <<orders, placed, pc, faults>> /\ pc = "idle" /\ day' = day + 1
    BY <1>5 DEF Session!NextDay, Session!venueVars
  <2>2. SUFFICES ASSUME faults = 0, NothingRests, OrderDays, OnePerDay PROVE EntryInv'
    BY <2>1 DEF EntryInv
  <2>3. Placed' = Placed /\ day \in Nat BY <2>1, SessionConstants DEF Placed
  <2>4. NothingRests' BY <2>1, <2>2, <2>3 DEF NothingRests, Open, Awaits
  <2>5. \A i \in Placed : orders[i].day \in 1..day BY <2>2 DEF OrderDays
  <2>6. \A i \in Placed : orders[i].day \in 1..(day + 1) /\ orders[i].day # day + 1 BY <2>3, <2>5
  <2>7. OrderDays' BY <2>1, <2>3, <2>6 DEF OrderDays
  <2>8. OnePerDay' BY <2>1, <2>2, <2>3 DEF OnePerDay, Filled
  <2>9. BuysMarked' BY <2>1, <2>3, <2>6 DEF BuysMarked
  <2>10. StateOfToday' /\ AwaitedIsNew' BY <2>1 DEF StateOfToday, AwaitedIsNew
  <2> QED BY <2>4, <2>7, <2>8, <2>9, <2>10 DEF EntryInv
<1>6. CASE Session!Start
  <2>1. /\ UNCHANGED <<orders, placed, day, state, faults>> /\ pc = "idle" /\ pc' = "absorb"
        /\ run'.state = IF state.date = day THEN state ELSE Session!FreshState
    BY <1>6, StartDoes DEF venueVars, SameClock, SameStores
  <2>2. Session!FreshState.date = day BY DEF Session!FreshState
  <2>3. ASSUME faults = 0 PROVE NothingRests' /\ BuysMarked' /\ StateOfToday' /\ AwaitedIsNew'
    <3>1. Placed' = Placed BY <2>1 DEF Placed
    <3>2. NothingRests' BY <2>1, <2>3, <3>1 DEF EntryInv, NothingRests, Open, Awaits
    <3>3. BuysMarked' BY <2>1, <2>3, <3>1 DEF EntryInv, BuysMarked, Filled, Awaits, Marks
    <3>4. StateOfToday' /\ AwaitedIsNew' BY <2>1, <2>2 DEF StateOfToday, AwaitedIsNew
    <3> QED BY <3>2, <3>3, <3>4
  <2> QED BY <2>1, <2>3, EntryTurns
<1>7. ASSUME NEW t \in Tickers, Session!AbsorbExit(t) PROVE EntryInv'
  <2>1. UNCHANGED <<orders, placed, faults>> /\ MarksStay
    BY <1>7, AbsorbExitDoes DEF venueVars, Works, SameClock, SameStores, MarksStay
  <2> QED BY <2>1, CallsMove, EntryKept
<1>8. ASSUME NEW t \in Tickers, Session!HistoryUnread(t) PROVE EntryInv'
  BY <1>8, HistoryUnreadDoes, EntryFaulted
<1>9. CASE Session!AbsorbDone
  <2>1. /\ UNCHANGED <<orders, placed, day, state, faults>> /\ pc = "absorb"
        /\ \/ pc' = "idle"
           \/ pc' \in {"sweep", "flatten"} /\ run'.state = run.state
    BY <1>9, AbsorbDoneDoes DEF venueVars, SameClock
  <2>2. ASSUME faults = 0 PROVE NothingRests' /\ BuysMarked' /\ StateOfToday' /\ AwaitedIsNew'
    <3>1. Placed' = Placed BY <2>1 DEF Placed
    <3>2. NothingRests' BY <2>1, <2>2, <3>1 DEF EntryInv, NothingRests, Open, Awaits
    <3>3. BuysMarked' BY <2>1, <2>2, <3>1 DEF EntryInv, BuysMarked, Filled, Awaits, Marks
    <3>4. StateOfToday' /\ AwaitedIsNew'
      BY <2>1, <2>2 DEF EntryInv, StateOfToday, AwaitedIsNew
    <3> QED BY <3>2, <3>3, <3>4
  <2> QED BY <2>1, <2>2, EntryTurns
<1>10. CASE Session!Flatten
  <2>1. /\ UNCHANGED <<orders, placed, day, state, faults>> /\ pc = "flatten" /\ pc' = "decide"
        /\ run'.state = run.state
    BY <1>10, FlattenDoes DEF venueVars, Works, SameClock, SameStores
  <2>2. ASSUME faults = 0 PROVE NothingRests' /\ BuysMarked' /\ StateOfToday' /\ AwaitedIsNew'
    <3>1. Placed' = Placed BY <2>1 DEF Placed
    <3>2. NothingRests' BY <2>1, <2>2, <3>1 DEF EntryInv, NothingRests, Open, Awaits
    <3>3. BuysMarked'
      <4> SUFFICES ASSUME NEW i \in Placed, orders'[i].filled > 0, orders'[i].day = day'
                   PROVE  Marks'.date = day' /\ orders'[i].ticker \in Marks'.traded
        BY <3>1 DEF BuysMarked, Filled
      <4>1. Marks.date = day /\ orders[i].ticker \in Marks.traded /\ Marks = state
        BY <2>1, <2>2 DEF EntryInv, BuysMarked, Filled, Awaits, Marks
      <4>2. Marks' = state BY <2>1, <2>2, <4>1 DEF EntryInv, StateOfToday, Marks
      <4> QED BY <2>1, <4>1, <4>2
    <3>4. StateOfToday' /\ AwaitedIsNew'
      BY <2>1, <2>2 DEF EntryInv, StateOfToday, AwaitedIsNew
    <3> QED BY <3>2, <3>3, <3>4
  <2> QED BY <2>1, <2>2, EntryTurns
<1>11. ASSUME NEW t \in Tickers, Session!Hold(t) PROVE EntryInv'
  <2>1. UNCHANGED <<orders, placed, faults>> /\ MarksStay
    BY <1>11, HoldDoes DEF venueVars, Works, SameClock, SameStores, MarksStay
  <2> QED BY <2>1, CallsMove, EntryKept
<1>12. ASSUME NEW t \in Tickers, Session!Buy(t) PROVE EntryInv'
  <2>1. CASE faults = 0 BY <1>12, <2>1, EntryBuys
  <2>2. CASE faults # 0 BY <1>12, <2>2, BuyDoes DEF EntryInv
  <2> QED BY <2>1, <2>2
<1>13. CASE Session!Settle
  <2> DEFINE o == orders[run.order]
  <2>1. /\ UNCHANGED <<orders, placed, day, state, faults>> /\ pc = "await" /\ pc' = "decide"
        /\ ~Open(run.order) /\ run'.state.date = run.state.date
        /\ IF Filled(run.order) THEN run'.state.traded = run.state.traded \cup {o.ticker}
                                ELSE run'.state.traded = run.state.traded
    BY <1>13, SettleDoes DEF venueVars, Works, SameClock, SameStores
  <2>2. ASSUME faults = 0 PROVE NothingRests' /\ BuysMarked' /\ StateOfToday' /\ AwaitedIsNew'
    <3>1. Placed' = Placed BY <2>1 DEF Placed
    <3>2. NothingRests' BY <2>1, <2>2, <3>1 DEF EntryInv, NothingRests, Open, Awaits
    <3>3. BuysMarked'
      <4> SUFFICES ASSUME NEW i \in Placed, Filled(i), orders[i].day = day
                   PROVE  Marks'.date = day /\ orders[i].ticker \in Marks'.traded
        BY <2>1, <3>1 DEF BuysMarked, Filled
      <4>1. Marks' = run'.state /\ Marks = run.state BY <2>1 DEF Marks
      <4>2. run.state.date = day BY <2>1, <2>2 DEF EntryInv, StateOfToday
      <4>3. CASE i = run.order BY <2>1, <4>1, <4>2, <4>3
      <4>4. CASE i # run.order
        <5>1. orders[i].ticker \in run.state.traded
          BY <2>2, <4>1, <4>4 DEF EntryInv, BuysMarked, Awaits
        <5> QED BY <2>1, <4>1, <4>2, <5>1
      <4> QED BY <4>3, <4>4
    <3>4. StateOfToday' /\ AwaitedIsNew'
      BY <2>1, <2>2 DEF EntryInv, StateOfToday, AwaitedIsNew
    <3> QED BY <3>2, <3>3, <3>4
  <2> QED BY <2>1, <2>2, EntryTurns
<1>14. CASE Session!Cancel
  <2>1. /\ pc = "await" /\ CancelOrder(run.order) /\ UNCHANGED faults /\ MarksStay
    BY <1>14, CancelDoes DEF SameClock, SameStores, MarksStay
  <2> QED BY <2>1, CallsMove, EntryKept
<1>15. ASSUME NEW t \in Tickers, Session!CloseAccepted(t) \/ Session!CloseRefused(t) PROVE EntryInv'
  <2>1. MarksStay /\ (ClosePosition(t) \/ ClosePositionRefused(t))
    BY <1>15, CloseDoes DEF Works, SameClock, SameStores, MarksStay
  <2>2. CASE UNCHANGED faults BY <2>1, <2>2, CallsMove, EntryKept
  <2>3. CASE faults' = faults + 1 BY <2>3, EntryFaulted
  <2> QED BY <1>15, <2>2, <2>3, CloseDoes
<1>16. CASE Session!Persist
  <2>1. /\ UNCHANGED <<orders, placed, day, faults>> /\ pc \in {"decide", "sweep"} /\ pc' = "idle"
        /\ state' = IF pc = "sweep" THEN state ELSE run.state
    BY <1>16, PersistDoes DEF venueVars, SameClock
  <2>2. ASSUME faults = 0 PROVE NothingRests' /\ BuysMarked' /\ StateOfToday' /\ AwaitedIsNew'
    <3>1. Placed' = Placed BY <2>1 DEF Placed
    <3>2. NothingRests' BY <2>1, <2>2, <3>1 DEF EntryInv, NothingRests, Open, Awaits
    <3>3. Marks' = Marks BY <2>1 DEF Marks
    <3>4. BuysMarked' BY <2>1, <2>2, <3>1, <3>3 DEF EntryInv, BuysMarked, Filled, Awaits
    <3>5. StateOfToday' /\ AwaitedIsNew' BY <2>1 DEF StateOfToday, AwaitedIsNew
    <3> QED BY <3>2, <3>4, <3>5
  <2> QED BY <2>1, <2>2, EntryTurns
<1>17. CASE Session!Crash BY <1>17, CrashDoes, EntryFaulted
<1>18. CASE Session!CancelLost BY <1>18, CancelLostDoes, EntryFaulted
<1> QED BY <1>1, <1>2, <1>3, <1>4, <1>5, <1>6, <1>7, <1>8, <1>9, <1>10, <1>11, <1>12, <1>13,
           <1>14, <1>15, <1>16, <1>17, <1>18 DEF Session!Next, Session!RunStep

LEMMA EntryInit == Session!Init => EntryInv
<1> SUFFICES ASSUME Session!Init PROVE EntryInv OBVIOUS
<1>1. placed = 0 /\ pc = "idle" BY SameOrders DEF Session!Init, VenueInit
<1>2. Placed = {} BY <1>1 DEF Placed
<1> QED BY <1>1, <1>2 DEF EntryInv, NothingRests, OrderDays, OnePerDay, BuysMarked, StateOfToday,
                        AwaitedIsNew

(* One entry per ticker and day: without a fault no two orders of one day  *)
(* for one ticker fill.  The traded set is written once, at the end of a   *)
(* run, so until then the run's memory has to know what the venue has      *)
(* filled, and no order but the awaited one may still fill.                *)
THEOREM SessionBuysOnceADay ==
  ASSUME Session!SessionAssumption
  PROVE  Session!Spec => []Session!OneEntryPerDay
<1>1. Session!Init => SessionTypes /\ EntryInv BY SessionInitTypes, EntryInit
<1>2. SessionTypes /\ EntryInv /\ [Session!Next]_Session!vars => SessionTypes' /\ EntryInv'
  BY SessionStepTypes, EntryStep
<1>3. EntryInv => Session!OneEntryPerDay
  <2> SUFFICES ASSUME EntryInv, faults = 0, NEW t \in Tickers,
                      NEW i \in Session!OrdersOf(t), NEW j \in Session!OrdersOf(t),
                      Session!Filled(i), Session!Filled(j), orders[i].day = orders[j].day
               PROVE  i = j
    BY DEF Session!OneEntryPerDay
  <2>1. /\ i \in Placed /\ j \in Placed /\ orders[i].ticker = orders[j].ticker
        /\ Filled(i) /\ Filled(j)
    BY SameOrders DEF OrdersOf
  <2> QED BY <2>1 DEF EntryInv, OnePerDay
<1> QED BY <1>1, <1>2, <1>3, PTL DEF Session!Spec

-----------------------------------------------------------------------------
(* Book and account of the session lane, on its first day and without a    *)
(* fault: a ticker was never bought, or ONE order bought it, and what      *)
(* became of that order is what the book and the account still show.       *)

SessionBook == IF pc = "idle" THEN book ELSE run.book

NeverBought(t) ==
  /\ \A i \in OrdersOf(t) : ~Filled(i)
  /\ shares[t] = 0 /\ selling[t] = 0 /\ SessionBook[t] = 0

\* Still in the book, or not yet; a leg may have sold it meanwhile.
Keeps(t, i) ==
  /\ selling[t] = 0
  /\ SessionBook[t] = IF Awaits(i) THEN 0 ELSE orders[i].filled
  /\ \/ shares[t] = orders[i].filled /\ orders[i].legs # "done"
     \/ shares[t] = 0 /\ orders[i].legs = "done"

\* Out of the book: what the account has left is being sold.
SoldOff(t, i) ==
  /\ ~Awaits(i) /\ SessionBook[t] = 0
  /\ orders[i].legs # "live" /\ shares[t] = selling[t]

OneFill(t) ==
  \/ NeverBought(t)
  \/ \E i \in OrdersOf(t) : Filled(i) /\ (Keeps(t, i) \/ SoldOff(t, i))

\* What the run is about to absorb has been sold by a leg.
Absorbing(t) == pc = "absorb" /\ t \in run.todo => SessionBook[t] > 0 /\ shares[t] = 0

SessionBookInv ==
  faults = 0 /\ day = 1 =>
    /\ \A i \in Placed : Open(i) => orders[i].legs = "none"
    /\ \A t \in Tickers : OneFill(t) /\ Absorbing(t)

FirstDay == SessionTypes /\ EntryInv /\ SessionBookInv /\ faults = 0 /\ day = 1

LEMMA OnlyFill ==
  ASSUME FirstDay, NEW t, NEW i \in OrdersOf(t), NEW j \in OrdersOf(t), Filled(i), Filled(j)
  PROVE  i = j
<1>1. i \in Placed /\ j \in Placed /\ orders[i].ticker = orders[j].ticker BY DEF OrdersOf
<1>2. OnePerDay /\ OrderDays /\ day = 1 BY DEF FirstDay, EntryInv
<1>3. orders[i].day \in 1..1 /\ orders[j].day \in 1..1 BY <1>1, <1>2 DEF OrderDays
<1>4. orders[i].day = orders[j].day BY <1>3
<1> QED BY <1>1, <1>2, <1>4 DEF OnePerDay

LEMMA AwaitedAlone ==
  ASSUME FirstDay, pc = "await", NEW k \in OrdersOf(orders[run.order].ticker), Filled(k)
  PROVE  k = run.order
<1>1. k \in Placed /\ orders[k].ticker = orders[run.order].ticker BY DEF OrdersOf
<1>2. BuysMarked /\ AwaitedIsNew /\ OrderDays /\ day = 1 BY DEF FirstDay, EntryInv
<1>3. orders[k].day = day
  <2>1. orders[k].day \in 1..1 BY <1>1, <1>2 DEF OrderDays
  <2> QED BY <1>2, <2>1
<1> QED BY <1>1, <1>2, <1>3 DEF BuysMarked, AwaitedIsNew, Marks, Awaits

LEMMA FirstDayFacts ==
  ASSUME FirstDay
  PROVE  /\ VenueInv /\ \A i \in Placed : Open(i) => Awaits(i) /\ orders[i].legs = "none"
         /\ \A t \in Tickers : /\ OneFill(t) /\ Absorbing(t)
                               /\ shares[t] \in Int /\ selling[t] \in Nat
                               /\ SessionBook[t] \in 0..Lot /\ SessionBook[t] \in Nat
         /\ \A i \in Placed : /\ orders[i].filled \in Nat /\ orders[i].ticker \in Tickers
                              /\ Filled(i) <=> orders[i].filled # 0
                              /\ i \in OrdersOf(orders[i].ticker)
         /\ shares \in [Tickers -> Int] /\ selling \in [Tickers -> Nat]
<1>1. VenueInv BY DEF FirstDay, SessionTypes
<1>2. \A i \in Placed : Open(i) => Awaits(i) /\ orders[i].legs = "none"
  BY DEF FirstDay, EntryInv, NothingRests, SessionBookInv
<1>3. \A t \in Tickers : OneFill(t) /\ Absorbing(t) BY DEF FirstDay, SessionBookInv
<1>4. shares \in [Tickers -> Int] /\ selling \in [Tickers -> Nat] BY <1>1 DEF VenueInv, VenueTypeOK
<1>5. \A t \in Tickers : SessionBook[t] \in 0..Lot
  <2>1. run.book \in [Tickers -> 0..Lot] BY RunFields DEF FirstDay
  <2>2. book \in [Tickers -> 0..Lot] BY DEF FirstDay, SessionTypes, StoresOK
  <2> QED BY <2>1, <2>2 DEF SessionBook
<1>6. Lot \in Nat BY VenueAssumption DEF VenueAssumption
<1>7. ASSUME NEW i \in Placed
      PROVE  /\ orders[i].filled \in Nat /\ orders[i].ticker \in Tickers
             /\ Filled(i) <=> orders[i].filled # 0
             /\ i \in OrdersOf(orders[i].ticker)
  <2>1. orders[i] \in Order BY <1>1 DEF VenueInv, VenueTypeOK
  <2>2. orders[i].filled \in 0..Lot /\ orders[i].ticker \in Tickers BY <2>1 DEF Order
  <2> QED BY <1>6, <2>2 DEF Filled, OrdersOf
<1> QED BY <1>1, <1>2, <1>3, <1>4, <1>5, <1>6, <1>7

\* A step that does not concern the account and the book of a ticker.
Untouched(t) ==
  /\ OrdersOf(t)' = OrdersOf(t)
  /\ shares'[t] = shares[t] /\ selling'[t] = selling[t] /\ (SessionBook[t])' = SessionBook[t]
  /\ \A i \in OrdersOf(t) : /\ orders'[i].filled = orders[i].filled
                            /\ orders'[i].legs = "done" <=> orders[i].legs = "done"
                            /\ orders'[i].legs = "live" => orders[i].legs = "live" \/ Awaits(i)
                            /\ Filled(i) => (Awaits(i)' <=> Awaits(i))

LEMMA FillKept ==
  ASSUME NEW t, OneFill(t), Untouched(t)
  PROVE  OneFill(t)'
<1>1. CASE NeverBought(t)
  <2>1. NeverBought(t)' BY <1>1 DEF NeverBought, Untouched, Filled
  <2> QED BY <2>1 DEF OneFill
<1>2. ASSUME NEW i \in OrdersOf(t), Filled(i), Keeps(t, i) \/ SoldOff(t, i) PROVE OneFill(t)'
  <2>1. /\ i \in OrdersOf(t)' /\ Filled(i)' /\ (Awaits(i)' <=> Awaits(i))
        /\ orders'[i].filled = orders[i].filled
        /\ (orders'[i].legs = "done") <=> (orders[i].legs = "done")
        /\ orders'[i].legs = "live" => orders[i].legs = "live" \/ Awaits(i)
        /\ shares'[t] = shares[t] /\ selling'[t] = selling[t] /\ (SessionBook[t])' = SessionBook[t]
    BY <1>2 DEF Untouched, Filled
  <2>2. Keeps(t, i) => Keeps(t, i)' BY <2>1 DEF Keeps
  <2>3. SoldOff(t, i) => SoldOff(t, i)' BY <2>1 DEF SoldOff
  <2> QED BY <1>2, <2>1, <2>2, <2>3 DEF OneFill
<1> QED BY <1>1, <1>2 DEF OneFill

\* What the venue does by itself.
LEMMA BookFill ==
  ASSUME FirstDay, NEW i \in Placed, FillShare(i), UNCHANGED <<pc, run, book>>
  PROVE  /\ \A t \in Tickers : OneFill(t)' /\ Absorbing(t)'
         /\ \A j \in Placed : orders'[j].status = "new" => orders'[j].legs = "none"
<1>1. /\ \A j \in Placed \ {i} : orders'[j] = orders[j]
      /\ UNCHANGED <<placed, selling>> /\ Open(i)
      /\ shares' = [shares EXCEPT ![orders[i].ticker] = shares[orders[i].ticker] + 1]
      /\ orders'[i].ticker = orders[i].ticker
      /\ orders'[i].filled = orders[i].filled + 1
      /\ orders'[i].legs \in {"none", "live"}
      /\ orders'[i].status = "new" => orders'[i].legs = "none"
  BY FirstDayFacts, FillView
<1>2. Awaits(i) /\ orders[i].legs = "none" BY <1>1, FirstDayFacts
<1>3. pc = "await" /\ pc' = "await" /\ \A j : Awaits(j)' <=> Awaits(j) BY <1>2 DEF Awaits
<1>4. SessionBook' = SessionBook BY DEF SessionBook
<1>5. \A t : OrdersOf(t)' = OrdersOf(t)
  <2>1. Placed' = Placed BY <1>1 DEF Placed
  <2> QED BY <1>1, <2>1 DEF OrdersOf
<1>6. ASSUME NEW t \in Tickers, t # orders[i].ticker PROVE OneFill(t)'
  <2>1. i \notin OrdersOf(t) BY <1>6 DEF OrdersOf
  <2>2. \A j \in OrdersOf(t) : orders'[j] = orders[j] BY <1>1, <2>1 DEF OrdersOf
  <2>3. shares'[t] = shares[t] /\ selling'[t] = selling[t] BY <1>1, <1>6, FirstDayFacts
  <2>4. Untouched(t) BY <1>3, <1>4, <1>5, <2>2, <2>3 DEF Untouched
  <2> QED BY <2>4, FillKept, FirstDayFacts
<1>7. ASSUME NEW t \in Tickers, t = orders[i].ticker PROVE OneFill(t)'
  <2>1. i \in OrdersOf(t) /\ orders[i].filled \in Nat BY <1>7, FirstDayFacts
  <2>2. /\ shares[t] = orders[i].filled /\ selling[t] = 0 /\ SessionBook[t] = 0
    <3>1. CASE NeverBought(t)
      <4>1. ~Filled(i) BY <2>1, <3>1 DEF NeverBought
      <4> QED BY <2>1, <3>1, <4>1, FirstDayFacts DEF NeverBought
    <3>2. ASSUME NEW k \in OrdersOf(t), Filled(k), Keeps(t, k) \/ SoldOff(t, k)
          PROVE  shares[t] = orders[i].filled /\ selling[t] = 0 /\ SessionBook[t] = 0
      <4>1. k = i BY <1>2, <1>7, <3>2, AwaitedAlone DEF Awaits
      <4> QED BY <1>2, <3>2, <4>1 DEF Keeps, SoldOff
    <3> QED BY <2>1, <3>1, <3>2, FirstDayFacts DEF OneFill
  <2>3. /\ shares'[t] = orders'[i].filled /\ selling'[t] = 0 /\ SessionBook'[t] = 0
    BY <1>1, <1>4, <1>7, <2>1, <2>2, FirstDayFacts
  <2>4. orders'[i].filled > 0 /\ orders'[i].legs # "done" BY <1>1, <2>1
  <2>5. i \in OrdersOf(t)' BY <1>5, <2>1
  <2>6. Keeps(t, i)' BY <1>1, <1>2, <1>3, <2>3, <2>4 DEF Keeps
  <2> QED BY <1>1, <2>4, <2>5, <2>6 DEF OneFill, Filled
<1>8. \A j \in Placed : orders'[j].status = "new" => orders'[j].legs = "none"
  BY <1>1, FirstDayFacts DEF Open
<1> QED BY <1>3, <1>6, <1>7, <1>8 DEF Absorbing

LEMMA BookReject ==
  ASSUME FirstDay, NEW i \in Placed, RejectOrder(i), UNCHANGED <<pc, run, book>>
  PROVE  /\ \A t \in Tickers : OneFill(t)' /\ Absorbing(t)'
         /\ \A j \in Placed : orders'[j].status = "new" => orders'[j].legs = "none"
<1>1. /\ \A j \in Placed \ {i} : orders'[j] = orders[j]
      /\ UNCHANGED <<placed, shares, selling>> /\ orders'[i].status = "canceled"
      /\ orders'[i].ticker = orders[i].ticker
      /\ orders'[i].filled = orders[i].filled /\ orders'[i].legs = orders[i].legs
  BY FirstDayFacts, RejectView
<1>2. \A j \in Placed : /\ orders'[j].ticker = orders[j].ticker
                        /\ orders'[j].filled = orders[j].filled /\ orders'[j].legs = orders[j].legs
                        /\ orders'[j].status = "new" => Open(j)
  <2> SUFFICES ASSUME NEW j \in Placed
               PROVE  /\ orders'[j].ticker = orders[j].ticker
                      /\ orders'[j].filled = orders[j].filled /\ orders'[j].legs = orders[j].legs
                      /\ orders'[j].status = "new" => Open(j)
    OBVIOUS
  <2>1. CASE j = i BY <1>1, <2>1
  <2>2. CASE j # i BY <1>1, <2>2 DEF Open
  <2> QED BY <2>1, <2>2
<1>3. SessionBook' = SessionBook /\ \A j : Awaits(j)' <=> Awaits(j) BY DEF SessionBook, Awaits
<1>4. \A t : OrdersOf(t)' = OrdersOf(t)
  <2>1. Placed' = Placed BY <1>1 DEF Placed
  <2> QED BY <1>2, <2>1 DEF OrdersOf
<1>5. ASSUME NEW t \in Tickers PROVE OneFill(t)' /\ Absorbing(t)'
  <2>1. Untouched(t) BY <1>1, <1>2, <1>3, <1>4 DEF Untouched, OrdersOf
  <2>2. Absorbing(t)' BY <1>1, <1>3, FirstDayFacts DEF Absorbing
  <2> QED BY <2>1, <2>2, FillKept, FirstDayFacts
<1> QED BY <1>2, <1>5, FirstDayFacts

LEMMA BookLeg ==
  ASSUME FirstDay, NEW i \in Placed, LegFires(i), UNCHANGED <<pc, run, book>>
  PROVE  /\ \A t \in Tickers : OneFill(t)' /\ Absorbing(t)'
         /\ \A j \in Placed : orders'[j].status = "new" => orders'[j].legs = "none"
<1>1. /\ \A j \in Placed \ {i} : orders'[j] = orders[j]
      /\ UNCHANGED <<placed, selling>>
      /\ shares' = [shares EXCEPT ![orders[i].ticker] = shares[orders[i].ticker] - orders[i].filled]
      /\ orders[i].legs = "live" /\ orders'[i].legs = "done"
      /\ orders'[i].ticker = orders[i].ticker
      /\ orders'[i].filled = orders[i].filled /\ orders'[i].status = orders[i].status
  BY FirstDayFacts, LegView
<1>2. ~Open(i) BY <1>1, FirstDayFacts
<1>3. SessionBook' = SessionBook /\ \A j : Awaits(j)' <=> Awaits(j) BY DEF SessionBook, Awaits
<1>4. \A t : OrdersOf(t)' = OrdersOf(t)
  <2>1. Placed' = Placed BY <1>1 DEF Placed
  <2> QED BY <1>1, <2>1 DEF OrdersOf
<1>5. ASSUME NEW t \in Tickers, t # orders[i].ticker \/ ~Filled(i) PROVE OneFill(t)' /\ Absorbing(t)'
  <2>1. shares'[t] = shares[t] /\ selling'[t] = selling[t]
    <3>1. CASE t # orders[i].ticker BY <1>1, <3>1, FirstDayFacts
    <3>2. CASE ~Filled(i)
      <4>1. orders[i].filled = 0 BY <3>2, FirstDayFacts
      <4> QED BY <1>1, <4>1, FirstDayFacts
    <3> QED BY <1>5, <3>1, <3>2
  <2>2. \A j \in OrdersOf(t) : Filled(j) => orders'[j] = orders[j] BY <1>1, <1>5 DEF OrdersOf
  <2>3. \A j \in OrdersOf(t) : orders'[j].filled = orders[j].filled
    BY <1>1 DEF OrdersOf
  <2>4. OneFill(t) /\ Absorbing(t) BY FirstDayFacts
  <2>5. CASE NeverBought(t)
    <3>1. NeverBought(t)' BY <1>3, <1>4, <2>1, <2>3, <2>5 DEF NeverBought, Filled
    <3> QED BY <1>3, <2>1, <2>4, <3>1 DEF OneFill, Absorbing
  <2>6. ASSUME NEW k \in OrdersOf(t), Filled(k), Keeps(t, k) \/ SoldOff(t, k)
        PROVE  OneFill(t)' /\ Absorbing(t)'
    <3>1. orders'[k] = orders[k] /\ k \in OrdersOf(t)' BY <1>4, <2>2, <2>6
    <3>2. Keeps(t, k) => Keeps(t, k)' BY <1>3, <2>1, <3>1 DEF Keeps
    <3>3. SoldOff(t, k) => SoldOff(t, k)' BY <1>3, <2>1, <3>1 DEF SoldOff
    <3>4. Filled(k)' BY <2>6, <3>1 DEF Filled
    <3>5. Absorbing(t)' BY <1>3, <2>1, <2>4 DEF Absorbing
    <3> QED BY <2>6, <3>1, <3>2, <3>3, <3>4, <3>5 DEF OneFill
  <2> QED BY <2>4, <2>5, <2>6 DEF OneFill
<1>6. ASSUME NEW t \in Tickers, t = orders[i].ticker, Filled(i) PROVE OneFill(t)' /\ Absorbing(t)'
  <2>1. i \in OrdersOf(t) /\ orders[i].filled \in Nat /\ orders[i].filled # 0
    BY <1>6, FirstDayFacts
  <2>2. Keeps(t, i) /\ shares[t] = orders[i].filled
    <3>1. ~NeverBought(t) BY <1>6, <2>1 DEF NeverBought
    <3>2. ASSUME NEW k \in OrdersOf(t), Filled(k), Keeps(t, k) \/ SoldOff(t, k)
          PROVE  Keeps(t, i) /\ shares[t] = orders[i].filled
      <4>1. k = i BY <1>6, <2>1, <3>2, OnlyFill
      <4> QED BY <1>1, <3>2, <4>1 DEF Keeps, SoldOff
    <3> QED BY <2>1, <3>1, <3>2, FirstDayFacts DEF OneFill
  <2>3. shares'[t] = 0 BY <1>1, <1>6, <2>1, <2>2, FirstDayFacts
  <2>4. Keeps(t, i)' BY <1>1, <1>3, <2>2, <2>3 DEF Keeps
  <2>5. Filled(i)' /\ i \in OrdersOf(t)' BY <1>1, <1>4, <1>6, <2>1 DEF Filled
  <2>6. Absorbing(t)' BY <1>3, <2>1, <2>3, FirstDayFacts DEF Absorbing
  <2> QED BY <2>4, <2>5, <2>6 DEF OneFill
<1>7. ASSUME NEW j \in Placed, orders'[j].status = "new" PROVE orders'[j].legs = "none"
  <2>1. j # i BY <1>1, <1>2, <1>7 DEF Open
  <2> QED BY <1>1, <1>7, <2>1, FirstDayFacts DEF Open
<1> QED BY <1>5, <1>6, <1>7

LEMMA BookSell ==
  ASSUME FirstDay, NEW s \in Tickers, SellFills(s), UNCHANGED <<pc, run, book>>
  PROVE  /\ \A t \in Tickers : OneFill(t)' /\ Absorbing(t)'
         /\ \A j \in Placed : orders'[j].status = "new" => orders'[j].legs = "none"
<1>1. /\ UNCHANGED <<orders, placed>> /\ selling[s] > 0
      /\ shares' = [shares EXCEPT ![s] = shares[s] - selling[s]]
      /\ selling' = [selling EXCEPT ![s] = 0]
  BY DEF SellFills
<1>2. SessionBook' = SessionBook /\ \A j : Awaits(j)' <=> Awaits(j) BY DEF SessionBook, Awaits
<1>3. \A t : OrdersOf(t)' = OrdersOf(t) BY <1>1 DEF OrdersOf, Placed
<1>4. ASSUME NEW t \in Tickers, t # s PROVE OneFill(t)' /\ Absorbing(t)'
  <2>1. shares'[t] = shares[t] /\ selling'[t] = selling[t] BY <1>1, <1>4, FirstDayFacts
  <2>2. Untouched(t) BY <1>1, <1>2, <1>3, <2>1 DEF Untouched
  <2>3. Absorbing(t)' BY <1>2, <2>1, FirstDayFacts DEF Absorbing
  <2> QED BY <2>2, <2>3, FillKept, FirstDayFacts
<1>5. OneFill(s)' /\ Absorbing(s)'
  <2>1. selling[s] # 0 BY <1>1, FirstDayFacts
  <2>2. PICK k \in OrdersOf(s) : Filled(k) /\ SoldOff(s, k)
    BY <2>1, FirstDayFacts DEF OneFill, NeverBought, Keeps
  <2>3. shares'[s] = 0 /\ selling'[s] = 0 BY <1>1, <2>2, FirstDayFacts DEF SoldOff
  <2>4. SoldOff(s, k)' BY <1>1, <1>2, <2>2, <2>3 DEF SoldOff
  <2>5. k \in OrdersOf(s)' /\ Filled(k)' BY <1>1, <1>3, <2>2 DEF Filled
  <2>6. SessionBook[s] = 0 BY <2>2 DEF SoldOff
  <2>7. Absorbing(s)' BY <2>6, FirstDayFacts DEF Absorbing
  <2> QED BY <2>4, <2>5, <2>7 DEF OneFill
<1> QED BY <1>1, <1>4, <1>5, FirstDayFacts DEF Open

\* What the first day asks of the step that was taken.
StillRight ==
  /\ \A t \in Tickers : OneFill(t)' /\ Absorbing(t)'
  /\ \A j \in Placed' : Open(j)' => orders'[j].legs = "none"

LEMMA BookVenue ==
  ASSUME FirstDay, VenueStep, UNCHANGED <<pc, run, book>>
  PROVE  StillRight
<1>1. /\ UNCHANGED placed
      /\ \A t \in Tickers : OneFill(t)' /\ Absorbing(t)'
      /\ \A j \in Placed : orders'[j].status = "new" => orders'[j].legs = "none"
  <2>1. ASSUME NEW i \in Placed, FillShare(i)
        PROVE  /\ UNCHANGED placed
               /\ \A t \in Tickers : OneFill(t)' /\ Absorbing(t)'
               /\ \A j \in Placed : orders'[j].status = "new" => orders'[j].legs = "none"
    BY <2>1, BookFill DEF FillShare
  <2>2. ASSUME NEW i \in Placed, RejectOrder(i)
        PROVE  /\ UNCHANGED placed
               /\ \A t \in Tickers : OneFill(t)' /\ Absorbing(t)'
               /\ \A j \in Placed : orders'[j].status = "new" => orders'[j].legs = "none"
    BY <2>2, BookReject DEF RejectOrder
  <2>3. ASSUME NEW i \in Placed, LegFires(i)
        PROVE  /\ UNCHANGED placed
               /\ \A t \in Tickers : OneFill(t)' /\ Absorbing(t)'
               /\ \A j \in Placed : orders'[j].status = "new" => orders'[j].legs = "none"
    BY <2>3, BookLeg DEF LegFires
  <2>4. ASSUME NEW s \in Tickers, SellFills(s)
        PROVE  /\ UNCHANGED placed
               /\ \A t \in Tickers : OneFill(t)' /\ Absorbing(t)'
               /\ \A j \in Placed : orders'[j].status = "new" => orders'[j].legs = "none"
    BY <2>4, BookSell DEF SellFills
  <2> QED BY <2>1, <2>2, <2>3, <2>4 DEF VenueStep
<1> QED BY <1>1 DEF StillRight, Placed, Open

\* A call that ends orders and leaves shares, sells and books alone.
LEMMA BookRests ==
  ASSUME FirstDay, UNCHANGED <<placed, shares, selling, pc, run, book>>,
         \A j \in Placed : /\ orders'[j].ticker = orders[j].ticker
                           /\ orders'[j].filled = orders[j].filled
                           /\ orders'[j].legs = "done" <=> orders[j].legs = "done"
                           /\ orders'[j].legs = "live" => orders[j].legs = "live" \/ Awaits(j)
                           /\ orders'[j].status = "new" => orders'[j].legs = "none"
  PROVE  StillRight
<1>1. Placed' = Placed /\ SessionBook' = SessionBook /\ \A j : Awaits(j)' <=> Awaits(j)
  BY DEF Placed, SessionBook, Awaits
<1>2. \A t : OrdersOf(t)' = OrdersOf(t) BY <1>1 DEF OrdersOf
<1>3. ASSUME NEW t \in Tickers PROVE OneFill(t)' /\ Absorbing(t)'
  <2>1. Untouched(t) BY <1>1, <1>2 DEF Untouched, OrdersOf
  <2>2. Absorbing(t)' BY <1>1, FirstDayFacts DEF Absorbing
  <2> QED BY <2>1, <2>2, FillKept, FirstDayFacts
<1> QED BY <1>1, <1>3 DEF StillRight, Open

LEMMA BookCancelled ==
  ASSUME FirstDay, Session!Cancel
  PROVE  StillRight
<1>1. pc = "await" /\ run.order \in Placed /\ CancelOrder(run.order) /\ UNCHANGED <<pc, run, book>>
  BY CancelDoes, AwaitedOrder DEF FirstDay, SameStores
<1> DEFINE i == run.order
<1>2. /\ i \in Placed /\ Awaits(i) /\ Open(i) /\ orders[i].legs = "none"
      /\ \A j \in Placed \ {i} : orders'[j] = orders[j]
      /\ UNCHANGED <<placed, shares, selling>>
      /\ orders'[i].status = "canceled" /\ orders'[i].ticker = orders[i].ticker
      /\ orders'[i].filled = orders[i].filled /\ orders'[i].legs \in {"none", "live"}
  BY <1>1, CancelView, FirstDayFacts DEF Awaits
<1> HIDE DEF i
<1>3. ASSUME NEW j \in Placed
      PROVE  /\ orders'[j].ticker = orders[j].ticker
             /\ orders'[j].filled = orders[j].filled
             /\ (orders'[j].legs = "done" <=> orders[j].legs = "done")
             /\ orders'[j].legs = "live" => orders[j].legs = "live" \/ Awaits(j)
             /\ orders'[j].status = "new" => orders'[j].legs = "none"
  <2>1. CASE j = i BY <1>2, <2>1
  <2>2. CASE j # i BY <1>2, <2>2, FirstDayFacts DEF Open
  <2> QED BY <2>1, <2>2
<1> QED BY <1>1, <1>2, <1>3, BookRests

LEMMA BookDayEnds ==
  ASSUME FirstDay, Session!Close
  PROVE  StillRight
<1>1. /\ UNCHANGED <<placed, shares, selling, pc, run, book>>
      /\ \A j \in Placed :
           /\ orders'[j].ticker = orders[j].ticker /\ orders'[j].filled = orders[j].filled
           /\ orders'[j].status # "new"
           /\ orders'[j].legs = IF orders[j].legs = "live" THEN "none" ELSE orders[j].legs
  BY CloseOfDayDoes DEF FirstDay, SameStores
<1> QED BY <1>1, BookRests

\* A turn of the run that asks the venue nothing: the ticker's book stays, or
\* a position that a leg has sold leaves it.
LEMMA BookTurns ==
  ASSUME FirstDay, UNCHANGED venueVars, pc # "await", pc' # "await",
         NEW t \in Tickers, Absorbing(t)',
         \/ (SessionBook[t])' = SessionBook[t]
         \/ /\ (SessionBook[t])' = 0 /\ SessionBook[t] > 0 /\ shares[t] = 0
  PROVE  OneFill(t)' /\ Absorbing(t)'
<1>1. /\ Placed' = Placed /\ OrdersOf(t)' = OrdersOf(t) /\ \A j : ~Awaits(j) /\ ~Awaits(j)'
      /\ UNCHANGED <<orders, placed, shares, selling>>
  BY DEF venueVars, Placed, OrdersOf, Awaits
<1>2. CASE (SessionBook[t])' = SessionBook[t]
  <2>1. Untouched(t) BY <1>1, <1>2 DEF Untouched
  <2> QED BY <2>1, FillKept, FirstDayFacts
<1>3. CASE (SessionBook[t])' = 0 /\ SessionBook[t] > 0 /\ shares[t] = 0
  <2>1. SessionBook[t] # 0 BY <1>3, FirstDayFacts
  <2>2. PICK i \in OrdersOf(t) : Filled(i) /\ Keeps(t, i)
    BY <2>1, FirstDayFacts DEF OneFill, NeverBought, SoldOff
  <2>3. orders[i].legs = "done" /\ selling[t] = 0
    <3>1. orders[i].filled # 0 BY <2>2, FirstDayFacts DEF OrdersOf
    <3> QED BY <1>3, <2>2, <3>1 DEF Keeps
  <2>4. SoldOff(t, i)' BY <1>1, <1>3, <2>3 DEF SoldOff
  <2> QED BY <1>1, <2>2, <2>4 DEF OneFill, Filled
<1> QED BY <1>2, <1>3

LEMMA BookSold ==
  ASSUME FirstDay, NEW s \in Tickers, UNCHANGED <<pc, placed, shares>>, pc # "await",
         \/ ClosePosition(s)
         \/ ClosePositionRefused(s) /\ ~(shares[s] > selling[s]),
         (SessionBook[s])' = 0, \A t \in Tickers \ {s} : (SessionBook[t])' = SessionBook[t],
         pc # "absorb"
  PROVE  StillRight
<1>1. /\ \/ shares[s] > selling[s] /\ selling' = [selling EXCEPT ![s] = shares[s]]
                /\ orders' = WithoutResting(s)
         \/ ~(shares[s] > selling[s]) /\ selling' = selling
      /\ orders' = orders \/ orders' = WithoutResting(s)
  BY DEF ClosePosition, ClosePositionRefused
<1>2. \A j : ~Awaits(j) /\ ~Awaits(j)' BY DEF Awaits
<1>3. ASSUME NEW j \in Placed
      PROVE  /\ orders'[j].ticker = orders[j].ticker /\ orders'[j].filled = orders[j].filled
             /\ orders'[j].legs \in {orders[j].legs, "none"}
             /\ orders[j].legs = "done" => orders'[j].legs = "done"
             /\ orders'[j].status # "new"
  <2>1. ~Open(j) BY <1>2, FirstDayFacts
  <2>2. CASE orders' = orders BY <2>1, <2>2 DEF Open
  <2>3. CASE orders' = WithoutResting(s) BY <2>1, <2>3, RestingView, FirstDayFacts
  <2> QED BY <1>1, <2>2, <2>3
<1>4. Placed' = Placed /\ \A t : OrdersOf(t)' = OrdersOf(t) BY <1>3 DEF Placed, OrdersOf
<1>5. ASSUME NEW t \in Tickers, t # s PROVE OneFill(t)'
  <2>1. selling'[t] = selling[t] BY <1>1, <1>5, FirstDayFacts
  <2>2. \A j \in OrdersOf(t) : j \in Placed BY DEF OrdersOf
  <2>3. Untouched(t) BY <1>2, <1>3, <1>4, <1>5, <2>1, <2>2 DEF Untouched
  <2> QED BY <2>3, FillKept, FirstDayFacts
<1>6. OneFill(s)'
  <2>1. CASE NeverBought(s)
    <3>1. shares[s] = 0 /\ selling[s] = 0 BY <2>1 DEF NeverBought
    <3>2. selling' = selling BY <1>1, <3>1
    <3>3. NeverBought(s)' BY <1>3, <1>4, <2>1, <3>2 DEF NeverBought, Filled, OrdersOf
    <3> QED BY <3>3 DEF OneFill
  <2>2. ASSUME NEW i \in OrdersOf(s), Filled(i), Keeps(s, i) \/ SoldOff(s, i) PROVE OneFill(s)'
    <3>1. i \in Placed BY DEF OrdersOf
    <3>2. i \in OrdersOf(s)' /\ Filled(i)' BY <1>3, <1>4, <2>2, <3>1 DEF Filled
    <3>3. shares'[s] = selling'[s] /\ orders'[i].legs # "live"
      <4>1. CASE Keeps(s, i) /\ shares[s] > selling[s]
        <5>1. selling'[s] = shares[s] /\ orders' = WithoutResting(s) BY <1>1, <4>1, FirstDayFacts
        <5>2. orders'[i].legs # "live" BY <2>2, <3>1, <5>1, RestingView, FirstDayFacts
        <5> QED BY <5>1, <5>2
      <4>2. CASE Keeps(s, i) /\ ~(shares[s] > selling[s])
        <5>1. selling' = selling /\ selling[s] = 0 BY <1>1, <4>2 DEF Keeps
        <5>2. orders[i].filled \in Nat /\ orders[i].filled # 0 BY <2>2, <3>1, FirstDayFacts
        <5>3. shares[s] = 0 /\ orders[i].legs = "done" BY <4>2, <5>1, <5>2 DEF Keeps
        <5>4. orders'[i].legs = "done" BY <1>3, <3>1, <5>3
        <5> QED BY <5>1, <5>3, <5>4
      <4>3. CASE SoldOff(s, i)
        <5>1. shares[s] = selling[s] /\ orders[i].legs # "live" BY <4>3 DEF SoldOff
        <5>2. selling' = selling BY <1>1, <5>1, FirstDayFacts
        <5>3. orders'[i].legs # "live" BY <1>3, <3>1, <5>1
        <5> QED BY <5>1, <5>2, <5>3
      <4> QED BY <2>2, <4>1, <4>2, <4>3
    <3>4. SoldOff(s, i)' BY <1>2, <3>3 DEF SoldOff
    <3> QED BY <3>2, <3>4 DEF OneFill
  <2> QED BY <2>1, <2>2, FirstDayFacts DEF OneFill
<1> QED BY <1>3, <1>4, <1>5, <1>6 DEF StillRight, Absorbing, Open

LEMMA BookExits ==
  ASSUME FirstDay, NEW s \in Tickers, Session!CloseAccepted(s) \/ Session!CloseRefused(s),
         faults' = faults
  PROVE  StillRight
<1>1. SessionTypes /\ faults \in Nat BY SessionConstants DEF FirstDay, SessionTypes
<1>2. /\ UNCHANGED <<pc, book>> /\ pc \in {"decide", "sweep"}
      /\ \/ ClosePosition(s)
         \/ ClosePositionRefused(s) /\ ~(shares[s] > selling[s])
      /\ run'.book = [run.book EXCEPT ![s] = 0]
  BY <1>1, CloseDoes DEF Works, SameStores
<1>3. UNCHANGED <<placed, shares>> BY <1>2 DEF ClosePosition, ClosePositionRefused
<1>4. run.book \in [Tickers -> 0..Lot] BY <1>1, RunFields
<1>5. SessionBook = run.book /\ SessionBook' = run'.book BY <1>2 DEF SessionBook
<1>6. (SessionBook[s])' = 0 /\ \A t \in Tickers \ {s} : (SessionBook[t])' = SessionBook[t]
  BY <1>2, <1>4, <1>5
<1> QED BY <1>2, <1>3, <1>6, BookSold

LEMMA BookBuys ==
  ASSUME FirstDay, NEW s \in Tickers, Session!Buy(s)
  PROVE  StillRight
<1>1. /\ Submit(s) /\ pc = "decide" /\ pc' = "await"
      /\ run'.book = run.book /\ run'.order = placed + 1
  BY BuyDoes DEF FirstDay, Works
<1>2. /\ \A j \in Placed : orders'[j] = orders[j]
      /\ Placed' = Placed \cup {placed'} /\ placed' = placed + 1 /\ placed' \notin Placed
      /\ UNCHANGED <<shares, selling>>
      /\ orders'[placed'].filled = 0 /\ orders'[placed'].legs = "none"
  BY <1>1, SubmitView, FirstDayFacts
<1>3. SessionBook' = SessionBook BY <1>1 DEF SessionBook
<1>4. \A j \in Placed : ~Awaits(j) /\ ~Awaits(j)' BY <1>1, <1>2 DEF Awaits
<1>5. ASSUME NEW t \in Tickers PROVE OneFill(t)'
  <2>1. CASE NeverBought(t)
    <3>1. ASSUME NEW j \in OrdersOf(t)' PROVE ~Filled(j)'
      <4>1. j \in Placed' /\ orders'[j].ticker = t BY DEF OrdersOf
      <4>2. CASE j = placed' BY <1>2, <4>2 DEF Filled
      <4>3. CASE j \in Placed
        <5>1. j \in OrdersOf(t) BY <1>2, <4>1, <4>3 DEF OrdersOf
        <5> QED BY <1>2, <2>1, <4>3, <5>1 DEF NeverBought, Filled
      <4> QED BY <1>2, <4>1, <4>2, <4>3
    <3>2. NeverBought(t)' BY <1>2, <1>3, <2>1, <3>1 DEF NeverBought
    <3> QED BY <3>2 DEF OneFill
  <2>2. ASSUME NEW i \in OrdersOf(t), Filled(i), Keeps(t, i) \/ SoldOff(t, i) PROVE OneFill(t)'
    <3>1. i \in Placed /\ orders[i].ticker = t BY DEF OrdersOf
    <3>2. orders'[i] = orders[i] /\ i \in OrdersOf(t)' /\ Filled(i)'
      BY <1>2, <2>2, <3>1 DEF OrdersOf, Filled
    <3>3. Keeps(t, i) => Keeps(t, i)' BY <1>2, <1>3, <1>4, <3>1, <3>2 DEF Keeps
    <3>4. SoldOff(t, i) => SoldOff(t, i)' BY <1>2, <1>3, <1>4, <3>1, <3>2 DEF SoldOff
    <3> QED BY <2>2, <3>2, <3>3, <3>4 DEF OneFill
  <2> QED BY <2>1, <2>2, FirstDayFacts DEF OneFill
<1>6. ASSUME NEW j \in Placed', Open(j)' PROVE orders'[j].legs = "none"
  <2>1. CASE j = placed' BY <1>2, <2>1
  <2>2. CASE j \in Placed BY <1>2, <1>6, <2>2, FirstDayFacts DEF Open
  <2> QED BY <1>2, <2>1, <2>2
<1> QED BY <1>1, <1>5, <1>6 DEF StillRight, Absorbing

LEMMA BookSettles ==
  ASSUME FirstDay, Session!Settle
  PROVE  StillRight
<1> SUFFICES ASSUME NEW i, i = run.order PROVE StillRight OBVIOUS
<1>1. /\ UNCHANGED <<orders, placed, shares, selling>> /\ pc = "await" /\ pc' = "decide"
      /\ ~Open(i)
      /\ IF Filled(i) THEN run'.book = [run.book EXCEPT ![orders[i].ticker] = orders[i].filled]
                      ELSE run'.book = run.book
  BY SettleDoes DEF FirstDay, venueVars
<1>2. i \in Placed /\ run.book \in [Tickers -> 0..Lot] BY <1>1, AwaitedOrder, RunFields DEF FirstDay
<1>3. SessionBook = run.book /\ SessionBook' = run'.book BY <1>1 DEF SessionBook
<1>4. Placed' = Placed /\ \A t : OrdersOf(t)' = OrdersOf(t) BY <1>1 DEF Placed, OrdersOf
<1>5. Awaits(i) /\ \A j : j # i => ~Awaits(j) BY <1>1 DEF Awaits
<1>6. \A j : ~Awaits(j)' BY <1>1 DEF Awaits
<1>7. ASSUME NEW t \in Tickers, t # orders[i].ticker \/ ~Filled(i) PROVE OneFill(t)'
  <2>1. (SessionBook[t])' = SessionBook[t] BY <1>1, <1>2, <1>3, <1>7
  <2>2. \A j \in OrdersOf(t) : Filled(j) => ~Awaits(j) BY <1>5, <1>7 DEF OrdersOf
  <2>3. \A j \in OrdersOf(t) : orders'[j].legs = "live" => orders[j].legs = "live" BY <1>1
  <2>4. Untouched(t) BY <1>1, <1>4, <1>6, <2>1, <2>2, <2>3 DEF Untouched
  <2> QED BY <2>4, FillKept, FirstDayFacts
<1>8. ASSUME NEW t \in Tickers, t = orders[i].ticker, Filled(i) PROVE OneFill(t)'
  <2>1. i \in OrdersOf(t) BY <1>2, <1>8 DEF OrdersOf
  <2>2. Keeps(t, i)
    <3>1. ~NeverBought(t) BY <1>8, <2>1 DEF NeverBought
    <3>2. ASSUME NEW k \in OrdersOf(t), Filled(k), Keeps(t, k) \/ SoldOff(t, k) PROVE Keeps(t, i)
      <4>1. k = i BY <1>8, <2>1, <3>2, OnlyFill
      <4> QED BY <1>5, <3>2, <4>1 DEF SoldOff
    <3> QED BY <3>1, <3>2, FirstDayFacts DEF OneFill
  <2>3. (SessionBook[t])' = orders[i].filled BY <1>1, <1>2, <1>3, <1>8
  <2>4. Keeps(t, i)' BY <1>1, <1>6, <2>2, <2>3 DEF Keeps
  <2>5. i \in OrdersOf(t)' /\ Filled(i)' BY <1>1, <1>4, <1>8, <2>1 DEF Filled
  <2> QED BY <2>4, <2>5 DEF OneFill
<1>9. \A j \in Placed' : Open(j)' => orders'[j].legs = "none"
  BY <1>1, <1>4, FirstDayFacts DEF Open
<1> QED BY <1>1, <1>7, <1>8, <1>9 DEF StillRight, Absorbing

LEMMA BookStarts ==
  ASSUME FirstDay, Session!Start
  PROVE  StillRight
<1>1. /\ UNCHANGED venueVars /\ pc = "idle" /\ pc' = "absorb"
      /\ run'.book = book /\ run'.todo = Session!BookOnly
  BY StartDoes DEF FirstDay
<1>2. SessionBook = book /\ SessionBook' = run'.book BY <1>1 DEF SessionBook
<1>3. ASSUME NEW t \in Tickers PROVE OneFill(t)' /\ Absorbing(t)'
  <2>1. (SessionBook[t])' = SessionBook[t] BY <1>1, <1>2
  <2>2. shares'[t] = shares[t] BY <1>1 DEF venueVars
  <2>3. t \in Session!BookOnly => book[t] > 0 /\ shares[t] = 0
    BY DEF Session!BookOnly, Session!Held
  <2>4. Absorbing(t)' BY <1>1, <1>2, <2>1, <2>2, <2>3 DEF Absorbing
  <2> QED BY <1>1, <2>1, <2>4, BookTurns
<1>4. \A j \in Placed' : Open(j)' => orders'[j].legs = "none"
  BY <1>1, FirstDayFacts DEF venueVars, Placed, Open
<1> QED BY <1>3, <1>4 DEF StillRight

LEMMA BookAbsorbs ==
  ASSUME FirstDay, NEW s \in Tickers, Session!AbsorbExit(s)
  PROVE  StillRight
<1>1. /\ UNCHANGED venueVars /\ UNCHANGED pc /\ pc = "absorb" /\ s \in run.todo
      /\ run'.book = [run.book EXCEPT ![s] = 0] /\ run'.todo = run.todo \ {s}
      /\ run.book \in [Tickers -> 0..Lot]
  BY AbsorbExitDoes, RunFields DEF FirstDay
<1>2. SessionBook = run.book /\ SessionBook' = run'.book BY <1>1 DEF SessionBook
<1>3. ASSUME NEW t \in Tickers PROVE OneFill(t)' /\ Absorbing(t)'
  <2>1. shares'[t] = shares[t] BY <1>1 DEF venueVars
  <2>2. CASE t = s
    <3>1. (SessionBook[t])' = 0 BY <1>1, <1>2, <2>2
    <3>2. SessionBook[t] > 0 /\ shares[t] = 0 BY <1>1, <2>2, FirstDayFacts DEF Absorbing
    <3>3. Absorbing(t)' BY <1>1, <2>2 DEF Absorbing
    <3> QED BY <1>1, <3>1, <3>2, <3>3, BookTurns
  <2>3. CASE t # s
    <3>1. (SessionBook[t])' = SessionBook[t] BY <1>1, <1>2, <2>3
    <3>2. t \in run'.todo => SessionBook[t] > 0 /\ shares[t] = 0
      BY <1>1, FirstDayFacts DEF Absorbing
    <3>3. Absorbing(t)' BY <2>1, <3>1, <3>2 DEF Absorbing
    <3> QED BY <1>1, <3>1, <3>3, BookTurns
  <2> QED BY <2>2, <2>3
<1>4. \A j \in Placed' : Open(j)' => orders'[j].legs = "none"
  BY <1>1, FirstDayFacts DEF venueVars, Placed, Open
<1> QED BY <1>3, <1>4 DEF StillRight

\* Every other turn: the run's book stays, or is what is written.
LEMMA BookStays ==
  ASSUME FirstDay, UNCHANGED venueVars, pc # "await", pc' \notin {"await", "absorb"},
         \A t \in Tickers : (SessionBook[t])' = SessionBook[t]
  PROVE  StillRight
<1>1. ASSUME NEW t \in Tickers PROVE OneFill(t)' /\ Absorbing(t)'
  <2>1. Absorbing(t)' BY DEF Absorbing
  <2> QED BY <2>1, BookTurns
<1>2. \A j \in Placed' : Open(j)' => orders'[j].legs = "none"
  BY FirstDayFacts DEF venueVars, Placed, Open
<1> QED BY <1>1, <1>2 DEF StillRight

LEMMA BookFlattens ==
  ASSUME FirstDay, Session!Flatten
  PROVE  StillRight
<1>1. /\ UNCHANGED venueVars /\ pc = "flatten" /\ pc' = "decide"
      /\ run'.book = [t \in Tickers |-> IF t \in Session!Stale THEN 0 ELSE run.book[t]]
      /\ run.opened \in [Tickers -> Days] /\ Dated(run.book, run.opened) /\ day = 1
  BY FlattenDoes, RunFields DEF FirstDay
<1>2. ASSUME NEW t \in Tickers PROVE t \notin Session!Stale
  <2>1. run.opened[t] \in 0..MaxDay BY <1>1 DEF Days
  <2>2. run.book[t] > 0 => run.opened[t] > 0 BY <1>1 DEF Dated
  <2> QED BY <1>1, <2>1, <2>2, SessionConstants DEF Session!Stale, Session!Held, FirstDay
<1>3. SessionBook = run.book /\ SessionBook' = run'.book BY <1>1 DEF SessionBook
<1>4. \A t \in Tickers : (SessionBook[t])' = SessionBook[t] BY <1>1, <1>2, <1>3
<1> QED BY <1>1, <1>4, BookStays

LEMMA SessionBookStep ==
  SessionTypes /\ EntryInv /\ SessionBookInv /\ [Session!Next]_Session!vars => SessionBookInv'
<1> SUFFICES ASSUME SessionTypes, EntryInv, SessionBookInv, [Session!Next]_Session!vars,
                    faults' = 0, day' = 1
             PROVE  StillRight
  BY DEF SessionBookInv, StillRight
<1>0. faults \in Nat /\ day \in Nat /\ day > 0 BY SessionConstants DEF SessionTypes
<1>1. CASE UNCHANGED Session!vars
  <2>1. /\ UNCHANGED <<orders, placed, shares, selling, book, pc, run>> /\ FirstDay
    BY <1>1 DEF Session!vars, Session!venueVars, Session!clockVars, Session!laneVars, FirstDay
  <2> QED BY <2>1, FirstDayFacts, BookRests DEF Open
<1>2. CASE Session!VenueActs
  <2>1. /\ VenueStep /\ UNCHANGED <<day, book, pc, run, faults>>
    BY <1>2, SameVenue DEF Session!VenueActs, Session!clockVars, Session!laneVars
  <2>2. FirstDay BY <2>1 DEF FirstDay
  <2> QED BY <2>1, <2>2, BookVenue
<1>3. CASE Session!Tick
  <2>1. UNCHANGED <<orders, placed, shares, selling, book, pc, run>> /\ FirstDay
    BY <1>3 DEF Session!Tick, Session!venueVars, Session!laneVars, FirstDay
  <2> QED BY <2>1, FirstDayFacts, BookRests DEF Open
<1>4. CASE Session!Close
  <2>1. FirstDay BY <1>4, CloseOfDayDoes DEF FirstDay
  <2> QED BY <1>4, <2>1, BookDayEnds
<1>5. CASE Session!NextDay
  <2>1. day' = day + 1 BY <1>5 DEF Session!NextDay
  <2> QED BY <1>0, <2>1
<1>6. CASE Session!Start
  <2>1. FirstDay BY <1>6, StartDoes DEF FirstDay, SameClock
  <2> QED BY <1>6, <2>1, BookStarts
<1>7. ASSUME NEW t \in Tickers, Session!AbsorbExit(t) PROVE StillRight
  <2>1. FirstDay BY <1>7, AbsorbExitDoes DEF FirstDay, SameClock, Works
  <2> QED BY <1>7, <2>1, BookAbsorbs
<1>8. ASSUME NEW t \in Tickers, Session!HistoryUnread(t) PROVE StillRight
  <2>1. faults' = faults + 1 BY <1>8, HistoryUnreadDoes
  <2> QED BY <1>0, <2>1
<1>9. CASE Session!AbsorbDone
  <2>1. /\ UNCHANGED venueVars /\ FirstDay /\ pc = "absorb" /\ book' = run.book
        /\ \/ run'.book = run.book /\ pc' \in {"sweep", "flatten"}
           \/ pc' = "idle"
    BY <1>9, AbsorbDoneDoes DEF FirstDay, SameClock
  <2>2. \A t \in Tickers : (SessionBook[t])' = SessionBook[t] BY <2>1 DEF SessionBook
  <2>3. pc # "await" /\ pc' \notin {"await", "absorb"} BY <2>1
  <2> QED BY <2>1, <2>2, <2>3, BookStays
<1>10. CASE Session!Flatten
  <2>1. FirstDay BY <1>10, FlattenDoes DEF FirstDay, SameClock, Works
  <2> QED BY <1>10, <2>1, BookFlattens
<1>11. ASSUME NEW t \in Tickers, Session!Hold(t) PROVE StillRight
  <2>1. /\ UNCHANGED venueVars /\ FirstDay /\ pc = "decide" /\ UNCHANGED pc /\ run'.book = run.book
    BY <1>11, HoldDoes DEF FirstDay, SameClock, Works
  <2>2. \A s \in Tickers : (SessionBook[s])' = SessionBook[s] BY <2>1 DEF SessionBook
  <2> QED BY <2>1, <2>2, BookStays
<1>12. ASSUME NEW t \in Tickers, Session!Buy(t) PROVE StillRight
  <2>1. FirstDay BY <1>12, BuyDoes DEF FirstDay, SameClock, Works
  <2> QED BY <1>12, <2>1, BookBuys
<1>13. CASE Session!Settle
  <2>1. FirstDay BY <1>13, SettleDoes DEF FirstDay, SameClock, Works
  <2> QED BY <1>13, <2>1, BookSettles
<1>14. CASE Session!Cancel
  <2>1. FirstDay BY <1>14, CancelDoes DEF FirstDay, SameClock
  <2> QED BY <1>14, <2>1, BookCancelled
<1>15. ASSUME NEW t \in Tickers, Session!CloseAccepted(t) \/ Session!CloseRefused(t) PROVE StillRight
  <2>1. day' = day /\ (faults' = faults \/ faults' = faults + 1)
    BY <1>15, CloseDoes DEF Works, SameClock
  <2>2. faults' = faults BY <1>0, <2>1
  <2>3. FirstDay BY <2>1, <2>2 DEF FirstDay
  <2> QED BY <1>15, <2>2, <2>3, BookExits
<1>16. CASE Session!Persist
  <2>1. /\ UNCHANGED venueVars /\ FirstDay /\ pc \in {"decide", "sweep"} /\ pc' = "idle"
        /\ book' = run.book
    BY <1>16, PersistDoes DEF FirstDay, SameClock
  <2>2. \A t \in Tickers : (SessionBook[t])' = SessionBook[t] BY <2>1 DEF SessionBook
  <2>3. pc # "await" /\ pc' \notin {"await", "absorb"} BY <2>1
  <2> QED BY <2>1, <2>2, <2>3, BookStays
<1>17. CASE Session!Crash
  <2>1. faults' = faults + 1 BY <1>17, CrashDoes
  <2> QED BY <1>0, <2>1
<1>18. CASE Session!CancelLost
  <2>1. faults' = faults + 1 BY <1>18, CancelLostDoes
  <2> QED BY <1>0, <2>1
<1> QED BY <1>1, <1>2, <1>3, <1>4, <1>5, <1>6, <1>7, <1>8, <1>9, <1>10, <1>11, <1>12, <1>13,
           <1>14, <1>15, <1>16, <1>17, <1>18 DEF Session!Next, Session!RunStep

LEMMA SessionBookInit == Session!Init => SessionBookInv
<1> SUFFICES ASSUME Session!Init PROVE SessionBookInv OBVIOUS
<1>1. /\ placed = 0 /\ pc = "idle" /\ book = [t \in Tickers |-> 0]
      /\ shares = [t \in Tickers |-> 0] /\ selling = [t \in Tickers |-> 0]
  BY SameOrders DEF Session!Init, VenueInit, Session!NoRun
<1>2. Placed = {} BY <1>1 DEF Placed
<1>3. ASSUME NEW t \in Tickers PROVE OneFill(t) /\ Absorbing(t)
  <2>1. SessionBook[t] = 0 /\ shares[t] = 0 /\ selling[t] = 0 BY <1>1 DEF SessionBook
  <2>2. OrdersOf(t) = {} BY <1>2 DEF OrdersOf
  <2>3. NeverBought(t) BY <2>1, <2>2 DEF NeverBought
  <2> QED BY <1>1, <2>3 DEF OneFill, Absorbing
<1> QED BY <1>2, <1>3 DEF SessionBookInv

(* settle_or_cancel and _close_position of the session lane: between the   *)
(* runs of a first day without a fault, the account holds, beyond sells on *)
(* their way, what the book holds, or nothing when a bracket leg has sold  *)
(* it.  A fill is booked from the order's FINAL state, and the close       *)
(* cancels the legs before it sells, so neither can be counted twice.      *)
THEOREM SessionBookIsRight ==
  ASSUME Session!SessionAssumption
  PROVE  Session!Spec => []Session!BookIsAccount
<1>1. Session!Init => SessionTypes /\ EntryInv /\ SessionBookInv
  BY SessionInitTypes, EntryInit, SessionBookInit
<1>2. SessionTypes /\ EntryInv /\ SessionBookInv /\ [Session!Next]_Session!vars
        => SessionTypes' /\ EntryInv' /\ SessionBookInv'
  BY SessionStepTypes, EntryStep, SessionBookStep
<1>3. SessionTypes /\ EntryInv /\ SessionBookInv => Session!BookIsAccount
  <2> SUFFICES ASSUME SessionTypes, EntryInv, SessionBookInv, pc = "idle", faults = 0, day = 1,
                      NEW t \in Tickers
               PROVE  \/ shares[t] - selling[t] = book[t]
                      \/ book[t] > 0 /\ shares[t] = 0
    BY DEF Session!BookIsAccount, Session!Idle
  <2>1. FirstDay BY DEF FirstDay
  <2>2. /\ OneFill(t) /\ shares[t] \in Int /\ selling[t] \in Nat /\ SessionBook[t] = book[t]
        /\ \A i \in OrdersOf(t) : ~Awaits(i) /\ (Filled(i) => orders[i].filled > 0)
    BY <2>1, FirstDayFacts DEF SessionBook, Awaits, Filled
  <2>3. CASE NeverBought(t) BY <2>2, <2>3 DEF NeverBought
  <2>4. ASSUME NEW i \in OrdersOf(t), Filled(i), Keeps(t, i)
        PROVE  \/ shares[t] - selling[t] = book[t]
               \/ book[t] > 0 /\ shares[t] = 0
    <3>1. /\ book[t] = orders[i].filled /\ orders[i].filled > 0 /\ selling[t] = 0
          /\ shares[t] = orders[i].filled \/ shares[t] = 0
      BY <2>2, <2>4 DEF Keeps
    <3> QED BY <2>2, <3>1
  <2>5. ASSUME NEW i \in OrdersOf(t), SoldOff(t, i)
        PROVE  shares[t] - selling[t] = book[t]
    BY <2>2, <2>5 DEF SoldOff
  <2> QED BY <2>2, <2>3, <2>4, <2>5 DEF OneFill
<1> QED BY <1>1, <1>2, <1>3, PTL DEF Session!Spec

-----------------------------------------------------------------------------
(* The gap check: a night is longer than any gap it lets pass.             *)

DayBegins == (day - 1) * (MaxTick + MaxGap + 2) + 1

\* A run of an earlier day is too long ago for all of today, and a run that may
\* buy has no such run before it.
GapInv ==
  /\ lastRun > 0 /\ state.date # day => lastRun + MaxGap < DayBegins
  /\ pc # "idle" => run.state.date = day /\ (run.mayOpen /\ lastRun > 0 => state.date = day)

LEMMA NightIsLong ==
  ASSUME SessionTypes
  PROVE  /\ DayBegins \in Nat /\ DayBegins <= Session!Now
         /\ day' = day + 1 => /\ DayBegins' \in Nat /\ DayBegins <= DayBegins'
                              /\ Session!Now + MaxGap < DayBegins'
<1> DEFINE K == MaxTick + MaxGap + 2
           c == day - 1
<1>1. /\ MaxTick \in Nat /\ MaxGap \in Nat /\ K = MaxTick + MaxGap + 2 /\ K \in Nat
      /\ c \in Nat /\ (day + 1) - 1 = c + 1 /\ tick \in Nat /\ tick <= MaxTick
  BY SessionConstants DEF SessionTypes, StoresOK
<1>2. /\ DayBegins = c * K + 1 /\ Session!Now = c * K + tick + 1
      /\ day' = day + 1 => DayBegins' = (c + 1) * K + 1
  BY <1>1 DEF DayBegins, Session!Now
<1> HIDE DEF K, c
<1>3. c * K \in Nat /\ (c + 1) * K = c * K + K BY <1>1
<1> DEFINE x == c * K
<1>4. x \in Nat /\ (c + 1) * K = x + K BY <1>3
<1>5. /\ DayBegins = x + 1 /\ Session!Now = x + tick + 1
      /\ day' = day + 1 => DayBegins' = (c + 1) * K + 1
  BY <1>2
<1> HIDE DEF x
<1> QED BY <1>1, <1>4, <1>5

\* Nothing the check reads changes, or a process ends.
LEMMA GapKept ==
  ASSUME GapInv, UNCHANGED <<day, state, lastRun>>,
         \/ pc' = "idle"
         \/ pc # "idle" /\ run'.state.date = run.state.date /\ run'.mayOpen = run.mayOpen
  PROVE  GapInv'
<1>1. DayBegins' = DayBegins BY DEF DayBegins
<1> QED BY <1>1 DEF GapInv

LEMMA GapStep == SessionTypes /\ GapInv /\ [Session!Next]_Session!vars => GapInv'
<1> SUFFICES ASSUME SessionTypes, GapInv, [Session!Next]_Session!vars PROVE GapInv'
  OBVIOUS
<1>1. CASE UNCHANGED Session!vars
  <2>1. UNCHANGED <<day, state, lastRun, pc, run>>
    BY <1>1 DEF Session!vars, Session!clockVars, Session!laneVars
  <2> QED BY <2>1, GapKept
<1>2. CASE Session!VenueActs \/ Session!Tick \/ Session!Close
  <2>1. UNCHANGED <<day, state, lastRun, pc, run>>
    BY <1>2 DEF Session!VenueActs, Session!Tick, Session!Close, Session!clockVars, Session!laneVars
  <2> QED BY <2>1, GapKept
<1>3. CASE Session!NextDay
  <2>1. pc' = "idle" /\ day' = day + 1 /\ UNCHANGED <<state, lastRun>>
    BY <1>3 DEF Session!NextDay, Session!laneVars
  <2>2. lastRun \in Nat /\ lastRun <= Session!Now /\ Session!Now \in Nat /\ MaxGap \in Nat
    BY NowIsNat, SessionConstants DEF SessionTypes, StoresOK
  <2>3. lastRun + MaxGap < DayBegins' BY <2>1, <2>2, NightIsLong
  <2> QED BY <2>1, <2>3 DEF GapInv
<1>4. CASE Session!Start
  <2>1. /\ UNCHANGED <<day, state, lastRun>> /\ run'.mayOpen = Session!MayOpen
        /\ run'.state.date = day
    BY <1>4, StartDoes DEF SameClock, SameStores, Session!FreshState
  <2>2. lastRun \in Nat /\ Session!Now \in Nat /\ MaxGap \in Nat
    BY NowIsNat, SessionConstants DEF SessionTypes, StoresOK
  <2>3. Session!MayOpen /\ lastRun > 0 => state.date = day
    BY <2>2, NightIsLong DEF GapInv, Session!MayOpen
  <2>4. DayBegins' = DayBegins BY <2>1 DEF DayBegins
  <2> QED BY <2>1, <2>3, <2>4 DEF GapInv
<1>5. ASSUME NEW t \in Tickers,
             \/ Session!AbsorbExit(t) \/ Session!HistoryUnread(t) \/ Session!Hold(t)
             \/ Session!Buy(t) \/ Session!CloseAccepted(t) \/ Session!CloseRefused(t)
      PROVE  GapInv'
  <2>1. Works /\ pc # "idle" /\ run'.state.date = run.state.date
    <3>1. CASE Session!AbsorbExit(t) BY <3>1, AbsorbExitDoes
    <3>2. CASE Session!HistoryUnread(t) BY <3>2, HistoryUnreadDoes
    <3>3. CASE Session!Hold(t) BY <3>3, HoldDoes
    <3>4. CASE Session!Buy(t) BY <3>4, BuyDoes
    <3>5. CASE Session!CloseAccepted(t) \/ Session!CloseRefused(t) BY <3>5, CloseDoes
    <3> QED BY <1>5, <3>1, <3>2, <3>3, <3>4, <3>5
  <2> QED BY <2>1, GapKept DEF Works, SameClock, SameStores, RunKeeps
<1>6. CASE Session!AbsorbDone
  <2>1. /\ UNCHANGED <<day, state, lastRun>> /\ pc = "absorb"
        /\ \/ run'.state = run.state /\ run'.mayOpen = run.mayOpen
           \/ pc' = "idle"
    BY <1>6, AbsorbDoneDoes DEF SameClock, RunKeeps
  <2> QED BY <2>1, GapKept
<1>7. CASE Session!Flatten
  <2>1. Works /\ pc = "flatten" /\ run'.state = run.state BY <1>7, FlattenDoes
  <2> QED BY <2>1, GapKept DEF Works, SameClock, SameStores, RunKeeps
<1>8. CASE Session!Settle
  <2>1. Works /\ pc = "await" /\ run'.state.date = run.state.date BY <1>8, SettleDoes
  <2> QED BY <2>1, GapKept DEF Works, SameClock, SameStores, RunKeeps
<1>9. CASE Session!Cancel
  <2>1. UNCHANGED <<day, state, lastRun, pc, run>> /\ pc = "await"
    BY <1>9, CancelDoes DEF SameClock, SameStores
  <2> QED BY <2>1, GapKept
<1>10. CASE Session!Persist
  <2>1. /\ day' = day /\ pc \in {"decide", "sweep"} /\ pc' = "idle"
        /\ IF pc = "sweep" THEN UNCHANGED <<state, lastRun>> ELSE state' = run.state
    BY <1>10, PersistDoes DEF SameClock
  <2>2. CASE pc = "sweep" BY <2>1, <2>2, GapKept
  <2>3. CASE pc # "sweep"
    <3>1. state'.date = day' BY <2>1, <2>3 DEF GapInv
    <3> QED BY <2>1, <3>1 DEF GapInv
  <2> QED BY <2>2, <2>3
<1>11. CASE Session!Crash
  <2>1. UNCHANGED <<day, state, lastRun>> /\ pc' = "idle"
    BY <1>11, CrashDoes DEF SameClock, SameStores
  <2> QED BY <2>1, GapKept
<1>12. CASE Session!CancelLost
  <2>1. Works /\ pc = "await" /\ run'.state.date = run.state.date BY <1>12, CancelLostDoes
  <2> QED BY <2>1, GapKept DEF Works, SameClock, SameStores, RunKeeps
<1> QED BY <1>1, <1>2, <1>3, <1>4, <1>5, <1>6, <1>7, <1>8, <1>9, <1>10, <1>11, <1>12
        DEF Session!Next, Session!RunStep

LEMMA OnlyBuysPlace ==
  ASSUME SessionTypes, Session!Next, placed' # placed
  PROVE  \E t \in Tickers : Session!Buy(t)
<1>1. ~Session!VenueActs
  <2>1. VenueStep => placed' = placed
    BY DEF VenueStep, FillShare, RejectOrder, LegFires, SellFills
  <2> QED BY <2>1, SameVenue DEF Session!VenueActs
<1>2. /\ ~Session!Tick /\ ~Session!NextDay /\ ~Session!Start /\ ~Session!AbsorbDone
      /\ ~Session!Flatten /\ ~Session!Settle /\ ~Session!Persist /\ ~Session!Crash
      /\ ~Session!CancelLost
      /\ \A t \in Tickers : /\ ~Session!AbsorbExit(t) /\ ~Session!HistoryUnread(t)
                            /\ ~Session!Hold(t)
  BY DEF Session!Tick, Session!NextDay, Session!Start, Session!AbsorbDone, Session!Flatten,
         Session!Settle, Session!Persist, Session!Crash, Session!CancelLost, Session!AbsorbExit,
         Session!HistoryUnread, Session!Hold, Session!venueVars
<1>3. ~Session!Close BY DEF Session!Close
<1>4. ~Session!Cancel BY CancelDoes DEF CancelOrder
<1>5. \A t \in Tickers : ~Session!CloseAccepted(t) /\ ~Session!CloseRefused(t)
  BY CloseDoes DEF ClosePosition, ClosePositionRefused
<1> QED BY <1>1, <1>2, <1>3, <1>4, <1>5 DEF Session!Next, Session!RunStep

(* may_open_new_position: an order is placed only when no run has reached  *)
(* its end yet, or the last one that did was one of today.  A gap of       *)
(* MaxGap bars never bridges a night, and what the check saw at the start  *)
(* of the process still holds when it buys.                                *)
THEOREM NoEntryAcrossNights ==
  ASSUME Session!SessionAssumption
  PROVE  Session!Spec => Session!NoEntryAfterGap
<1> DEFINE Bought == placed' > placed => lastRun = 0 \/ state.date = day
<1>1. Session!Init => SessionTypes /\ GapInv
  <2> SUFFICES ASSUME Session!Init PROVE SessionTypes /\ GapInv OBVIOUS
  <2>1. lastRun = 0 /\ pc = "idle" BY DEF Session!Init
  <2> QED BY <2>1, SessionInitTypes DEF GapInv
<1>2. SessionTypes /\ GapInv /\ [Session!Next]_Session!vars => SessionTypes' /\ GapInv'
  BY SessionStepTypes, GapStep
<1>3. SessionTypes /\ GapInv /\ [Session!Next]_Session!vars => [Bought]_Session!vars
  <2> SUFFICES ASSUME SessionTypes, GapInv, Session!Next, placed' > placed
               PROVE  lastRun = 0 \/ state.date = day
    OBVIOUS
  <2>1. placed' # placed BY SessionConstants
  <2>2. PICK t \in Tickers : Session!Buy(t) BY <2>1, OnlyBuysPlace
  <2>3. run.mayOpen /\ pc = "decide" /\ lastRun \in Nat
    BY <2>2, BuyDoes DEF SessionTypes, StoresOK
  <2> QED BY <2>3 DEF GapInv
<1> QED BY <1>1, <1>2, <1>3, PTL DEF Session!Spec, Session!NoEntryAfterGap

=============================================================================
