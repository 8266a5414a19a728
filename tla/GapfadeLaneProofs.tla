-------------------------- MODULE GapfadeLaneProofs --------------------------
(***************************************************************************)
(* The gap-fade lane for any watchlist, lot, cap, number of days, orders   *)
(* and faults: one entry of a ticker a day, an exit for every position of  *)
(* the book, one closing order at a time, and an account every share of    *)
(* which is known.                                                         *)
(***************************************************************************)
EXTENDS GapfadeLane, FiniteSetTheorems, TLAPS

-----------------------------------------------------------------------------
(* Types: the stores, and the memory of the run.                           *)

Exits == {e \in ExitEntry : e.for \in Placed /\ e.id \in Placed \cup {0}}

Memories ==
  [book : [Tickers -> 0..Lot], exits : SUBSET Exits, left : SUBSET Exits,
   entries : SUBSET Placed, unread : SUBSET Placed, picks : SUBSET Tickers]

\* An order that rests has no fill.
OrdersOK ==
  /\ Placed = 1..Cardinality(Placed) /\ Placed \subseteq Ids
  /\ \A i \in Placed : /\ orders[i] \in Order /\ orders[i].filled <= orders[i].qty
                       /\ orders[i].status = "new" => orders[i].filled = 0

Stage ==
  /\ pc = "settle" => run.unread = {}
  /\ pc = "absorb" => run.entries \cap run.unread = {}
  /\ pc = "signal" => entryOrders = run.unread
  /\ pc # "settle" => run.exits = {}
  /\ pc # "absorb" => run.entries = {}
  /\ pc \in {"signal", "submit"} => run.book = book

TypeInv == StoresOK /\ OrdersOK /\ run \in Memories /\ Stage

-----------------------------------------------------------------------------
(* Entries: no order for a day that the marker has not reached.            *)

Buys == {k \in Placed : orders[k].side = "buy"}

EntryInv ==
  /\ OneEntryPerDay
  /\ marker <= day
  /\ \A k \in Buys : orders[k].day <= marker
  /\ pc = "signal" => marker < day
  /\ pc = "submit" =>
       /\ marker = day
       /\ \A k \in Buys : orders[k].day = day => orders[k].ticker \notin run.picks

-----------------------------------------------------------------------------
(* Exits: the run never holds a position it has no exit for.               *)

CoverInv ==
  /\ HeldHasExit
  /\ pc \in {"settle", "absorb"} =>
       \A t \in Held(run.book) : \E e \in run.exits \cup run.left : TickerOf(e) = t

-----------------------------------------------------------------------------
(* One closing order: the book, the exits and the entries as the lane sees *)
(* them, in memory during a run and in the stores between two.             *)

InRun == pc \in {"settle", "absorb"}
Book == IF InRun THEN run.book ELSE book
Outgoing == IF InRun THEN run.exits \cup run.left ELSE exitOrders
Incoming == IF pc \in {"idle", "settle"} THEN entryOrders ELSE run.entries \cup run.unread

\* The exits X: one per position of B, and every resting sell of o is one of
\* them.
ExitsFit(o, B, X) ==
  /\ \A i \in DOMAIN o :
       o[i].side = "sell" /\ o[i].status = "new" => \E e \in X : e.id = i
  /\ \A e \in X :
       /\ B[o[e.for].ticker] > 0
       /\ e.id # 0 => o[e.id].ticker = o[e.for].ticker
  /\ \A e, f \in X : o[e.for].ticker = o[f.for].ticker => e = f

\* The entries I: one per ticker, none of a ticker that B holds.
EntriesFit(o, B, I) ==
  /\ \A i \in I : o[i].side = "buy" /\ B[o[i].ticker] = 0
  /\ \A i, j \in I : o[i].ticker = o[j].ticker => i = j

\* What each phase of the run knows besides.
PhaseFit ==
  /\ pc = "settle" => run.exits \cap run.left = {}
  /\ pc = "absorb" => \A i \in run.unread : orders[i].day = day
  /\ pc = "signal" => run.unread = {}
  /\ pc = "submit" => /\ \A i \in run.unread : orders[i].ticker \notin run.picks
                      /\ \A t \in run.picks : book[t] = 0

\* An entry that rests is for the coming auction.
RestingToday == \A i \in Resting("buy") : phase = "pre" /\ orders[i].day = day

SoleInv ==
  /\ RestingToday
  /\ faults = 0 =>
       ExitsFit(orders, Book, Outgoing) /\ EntriesFit(orders, Book, Incoming) /\ PhaseFit

-----------------------------------------------------------------------------
(* What a step does to the orders.                                         *)

\* An order keeps its ticker, side, day and quantity.
Lasting ==
  /\ Placed \subseteq Placed'
  /\ \A i \in Placed : /\ orders'[i].ticker = orders[i].ticker
                       /\ orders'[i].side = orders[i].side
                       /\ orders'[i].day = orders[i].day
                       /\ orders'[i].qty = orders[i].qty

NewOrder(t, side, qty) ==
  [ticker |-> t, side |-> side, day |-> day, qty |-> qty, filled |-> 0, status |-> "new"]

\* Place, place_auction_order: the next id, and nothing else.
LEMMA Grows ==
  ASSUME TypeInv, NEW t \in Tickers, NEW side \in {"buy", "sell"}, NEW qty \in 1..Lot,
         Place(t, side, qty)
  PROVE  /\ NextId \notin Placed /\ Placed' = Placed \cup {NextId}
         /\ \A i \in Placed : orders'[i] = orders[i]
         /\ orders'[NextId] = NewOrder(t, side, qty)
         /\ OrdersOK' /\ Lasting
<1> DEFINE n == Cardinality(Placed)
<1>1. Placed = 1..n /\ n \in Nat
  <2>1. Placed = 1..n /\ Placed \subseteq 1..MaxOrders
    BY DEF TypeInv, OrdersOK, Ids
  <2>2. IsFiniteSet(1..MaxOrders)
    BY FS_Interval, GapfadeAssumption DEF GapfadeAssumption
  <2> QED
    BY <2>1, <2>2, FS_Subset, FS_CardinalityType
<1>2. NextId = n + 1 /\ n + 1 <= MaxOrders
  BY DEF Place, NextId
<1>3. Placed' = Placed \cup {n + 1}
  BY <1>2 DEF Place, Placed
<1>4. orders' = [i \in Placed \cup {n + 1} |->
                   IF i \in Placed THEN orders[i] ELSE NewOrder(t, side, qty)]
  BY <1>2 DEF Place, NewOrder
<1>5. n + 1 \notin Placed
  BY <1>1
<1>6. /\ \A i \in Placed : orders'[i] = orders[i]
      /\ orders'[n + 1] = NewOrder(t, side, qty)
  BY <1>4, <1>5
<1>7. Placed' = 1..(n + 1) /\ Placed' \subseteq Ids
  BY <1>1, <1>2, <1>3, GapfadeAssumption DEF GapfadeAssumption, Ids
<1>8. Cardinality(Placed') = n + 1
  BY <1>1, <1>7, FS_Interval
<1>9. NewOrder(t, side, qty) \in Order
  BY GapfadeAssumption DEF GapfadeAssumption, NewOrder, Order, TypeInv, StoresOK
<1>10. OrdersOK'
  <2>1. \A i \in Placed' : /\ orders'[i] \in Order /\ orders'[i].filled <= orders'[i].qty
                           /\ orders'[i].status = "new" => orders'[i].filled = 0
    <3> TAKE i \in Placed'
    <3>1. CASE i \in Placed
      BY <3>1, <1>6 DEF TypeInv, OrdersOK
    <3>2. CASE i = n + 1
      BY <3>2, <1>6, <1>9 DEF NewOrder
    <3> QED
      BY <3>1, <3>2, <1>3
  <2> QED
    BY <2>1, <1>7, <1>8 DEF OrdersOK
<1>11. Lasting
  BY <1>3, <1>6 DEF Lasting
<1> QED
  BY <1>2, <1>3, <1>5, <1>6, <1>10, <1>11

\* Auction: every order that rests on that side is resolved, no other.
LEMMA Resolves ==
  ASSUME TypeInv, NEW side, Auction(side)
  PROVE  /\ Placed' = Placed
         /\ \A i \in Placed \ Resting(side) : orders'[i] = orders[i]
         /\ \A i \in Resting(side) : orders'[i].status # "new"
         /\ OrdersOK' /\ Lasting
<1>1. PICK fill \in [Resting(side) -> 0..Lot] :
        /\ \A i \in Resting(side) : fill[i] <= orders[i].qty
        /\ orders' = [i \in Placed |->
                    IF i \notin Resting(side) THEN orders[i]
                    ELSE [orders[i] EXCEPT
                            !.filled = fill[i],
                            !.status = IF fill[i] = orders[i].qty THEN "filled"
                                       ELSE "canceled"]]
  BY DEF Auction
<1>2. Placed' = Placed
  BY <1>1 DEF Placed
<1>3. \A i \in Placed \ Resting(side) : orders'[i] = orders[i]
  BY <1>1
<1>4. \A i \in Placed : orders[i] \in Order
  BY DEF TypeInv, OrdersOK
<1>5. Resting(side) \subseteq Placed
  BY DEF Resting
<1>6. ASSUME NEW i \in Resting(side)
      PROVE  /\ orders'[i] \in Order /\ orders'[i].filled <= orders'[i].qty
             /\ orders'[i].status # "new"
             /\ orders'[i].ticker = orders[i].ticker /\ orders'[i].side = orders[i].side
             /\ orders'[i].day = orders[i].day /\ orders'[i].qty = orders[i].qty
  <2>1. orders[i] \in Order /\ fill[i] \in 0..Lot /\ fill[i] <= orders[i].qty
    BY <1>1, <1>4, <1>5
  <2> DEFINE o == [orders[i] EXCEPT
                     !.filled = fill[i],
                     !.status = IF fill[i] = orders[i].qty THEN "filled" ELSE "canceled"]
  <2>2. orders'[i] = o
    BY <1>1, <1>5
  <2>3. o \in Order /\ o.filled = fill[i] /\ o.status # "new"
        /\ o.ticker = orders[i].ticker /\ o.side = orders[i].side
        /\ o.day = orders[i].day /\ o.qty = orders[i].qty
    BY <2>1 DEF Order
  <2> QED
    BY <2>1, <2>2, <2>3
<1>7. OrdersOK'
  BY <1>2, <1>3, <1>6 DEF TypeInv, OrdersOK
<1>8. Lasting
  BY <1>2, <1>3, <1>6 DEF Lasting
<1> QED
  BY <1>2, <1>3, <1>6, <1>7, <1>8

LEMMA Rests ==
  ASSUME TypeInv, UNCHANGED orders
  PROVE  Placed' = Placed /\ OrdersOK' /\ Lasting
BY DEF TypeInv, OrdersOK, Placed, Lasting

\* The lists and the run's memory keep their types when orders are added.
LEMMA Widens ==
  ASSUME TypeInv, OrdersOK', Lasting
  PROVE  /\ Exits \subseteq Exits'
         /\ run \in Memories'
         /\ \A e \in Exits : TickerOf(e)' = TickerOf(e) /\ TickerOf(e) \in Tickers
<1>1. Exits \subseteq Exits'
  BY DEF Lasting, Exits, ExitEntry, Ids
<1>2. run \in Memories'
  BY <1>1 DEF Lasting, TypeInv, Memories
<1>3. \A e \in Exits : TickerOf(e)' = TickerOf(e) /\ TickerOf(e) \in Tickers
  BY DEF Exits, TickerOf, Lasting, TypeInv, OrdersOK, Order
<1> QED
  BY <1>1, <1>2, <1>3

\* NoRun, what a fresh process remembers.
LEMMA Empty ==
  /\ NoRun \in Memories /\ NoRun \in Memories'
  /\ NoRun.exits = {} /\ NoRun.entries = {} /\ NoRun.unread = {}
BY GapfadeAssumption DEF GapfadeAssumption, NoRun, Memories

\* What StoresOK adds to the orders, with Exits for the list of exits.
Lists ==
  /\ day \in 1..MaxDay /\ phase \in {"pre", "session", "closed"}
  /\ book \in [Tickers -> 0..Lot]
  /\ marker \in 0..MaxDay
  /\ entryOrders \subseteq Placed /\ exitOrders \subseteq Exits
  /\ pc \in {"idle", "settle", "absorb", "signal", "submit"}
  /\ faults \in 0..MaxFaults

LEMMA TypeParts == TypeInv <=> Lists /\ OrdersOK /\ run \in Memories /\ Stage
<1>1. StoresOK => exitOrders \subseteq Exits
  BY DEF StoresOK, Exits, ExitEntry, Ids
<1>2. exitOrders \subseteq Exits =>
        \A e \in exitOrders : e \in ExitEntry /\ {e.for, e.id} \subseteq Placed \cup {0}
  BY DEF Exits
<1> QED
  BY <1>1, <1>2 DEF TypeInv, StoresOK, Lists, OrdersOK

-----------------------------------------------------------------------------
(* Type correctness, action by action.                                     *)

LEMMA InitTypes == Init => TypeInv
<1> SUFFICES ASSUME Init PROVE TypeInv
  OBVIOUS
<1>1. Placed = {} /\ Cardinality({}) = 0
  BY FS_EmptySet DEF Init, Placed
<1>2. OrdersOK
  BY <1>1 DEF OrdersOK
<1>3. Lists
  BY <1>1, GapfadeAssumption DEF GapfadeAssumption, Init, Lists
<1>4. Stage /\ run \in Memories
  BY Empty DEF Init, Stage
<1> QED
  BY <1>2, <1>3, <1>4, TypeParts

\* What a settled or absorbed entry does to the memory.
LEMMA SettledIs ==
  ASSUME TypeInv, OrdersOK', Lasting, NEW e, NEW keep \in SUBSET Exits'
  PROVE  /\ Settled(e, keep) \in Memories'
         /\ Settled(e, keep).book = run.book
         /\ Settled(e, keep).exits = run.exits \ {e}
         /\ Settled(e, keep).left = run.left \cup keep
         /\ Settled(e, keep).entries = run.entries
         /\ Settled(e, keep).unread = run.unread
         /\ Settled(e, keep).picks = run.picks
<1>1. run \in Memories'
  BY Widens
<1> DEFINE X == Exits'
           P == Placed'
<1>2. run \in [book : [Tickers -> 0..Lot], exits : SUBSET X, left : SUBSET X,
               entries : SUBSET P, unread : SUBSET P, picks : SUBSET Tickers]
  BY <1>1 DEF Memories
<1>3. Memories' = [book : [Tickers -> 0..Lot], exits : SUBSET X, left : SUBSET X,
               entries : SUBSET P, unread : SUBSET P, picks : SUBSET Tickers]
  BY DEF Memories
<1> HIDE DEF X, P
<1>4. keep \in SUBSET X
  BY DEF X
<1> QED
  BY <1>2, <1>3, <1>4 DEF Settled

LEMMA AbsorbedIs ==
  ASSUME TypeInv, OrdersOK', Lasting, NEW i, NEW exit \in SUBSET Exits'
  PROVE  /\ Absorbed(i, exit) \in Memories'
         /\ Absorbed(i, exit).book = run.book
         /\ Absorbed(i, exit).exits = run.exits
         /\ Absorbed(i, exit).left = run.left \cup exit
         /\ Absorbed(i, exit).entries = run.entries \ {i}
         /\ Absorbed(i, exit).unread = run.unread
         /\ Absorbed(i, exit).picks = run.picks
<1>1. run \in Memories'
  BY Widens
<1> DEFINE X == Exits'
           P == Placed'
<1>2. run \in [book : [Tickers -> 0..Lot], exits : SUBSET X, left : SUBSET X,
               entries : SUBSET P, unread : SUBSET P, picks : SUBSET Tickers]
  BY <1>1 DEF Memories
<1>3. Memories' = [book : [Tickers -> 0..Lot], exits : SUBSET X, left : SUBSET X,
               entries : SUBSET P, unread : SUBSET P, picks : SUBSET Tickers]
  BY DEF Memories
<1> HIDE DEF X, P
<1>4. exit \in SUBSET X
  BY DEF X
<1> QED
  BY <1>2, <1>3, <1>4 DEF Absorbed

\* A memory with one more field changed keeps its type.
LEMMA WithBook ==
  ASSUME NEW m \in Memories', NEW b \in [Tickers -> 0..Lot]
  PROVE  LET n == [m EXCEPT !.book = b]
         IN  /\ n \in Memories' /\ n.book = b
             /\ n.exits = m.exits /\ n.left = m.left
             /\ n.entries = m.entries /\ n.unread = m.unread /\ n.picks = m.picks
BY DEF Memories

LEMMA WithUnread ==
  ASSUME NEW m \in Memories', NEW u \in SUBSET Placed'
  PROVE  LET n == [m EXCEPT !.unread = u]
         IN  /\ n \in Memories' /\ n.book = m.book
             /\ n.exits = m.exits /\ n.left = m.left
             /\ n.entries = m.entries /\ n.unread = u /\ n.picks = m.picks
BY DEF Memories

LEMMA WithEntries ==
  ASSUME NEW m \in Memories', NEW u \in SUBSET Placed'
  PROVE  LET n == [m EXCEPT !.entries = u]
         IN  /\ n \in Memories' /\ n.book = m.book
             /\ n.exits = m.exits /\ n.left = m.left
             /\ n.entries = u /\ n.unread = m.unread /\ n.picks = m.picks
BY DEF Memories

LEMMA WithPicks ==
  ASSUME NEW m \in Memories', NEW u \in SUBSET Tickers
  PROVE  LET n == [m EXCEPT !.picks = u]
         IN  /\ n \in Memories' /\ n.book = m.book
             /\ n.exits = m.exits /\ n.left = m.left
             /\ n.entries = m.entries /\ n.unread = m.unread /\ n.picks = u
BY DEF Memories

LEMMA Fields ==
  ASSUME TypeInv
  PROVE  /\ run.book \in [Tickers -> 0..Lot]
         /\ run.exits \subseteq Exits /\ run.left \subseteq Exits
         /\ run.entries \subseteq Placed /\ run.unread \subseteq Placed
         /\ run.picks \subseteq Tickers
BY DEF TypeInv, Memories

-----------------------------------------------------------------------------
(* What a step of each phase does, spelled out field by field.             *)

\* One exit entry dealt with: `keep` of it stays, the book in memory is b.
Settles(e, keep, b) ==
  /\ run' \in Memories'
  /\ run'.book = b
  /\ run'.exits = run.exits \ {e} /\ run'.left = run.left \cup keep
  /\ run'.entries = run.entries /\ run'.unread = run.unread

\* Gone already, sold, kept as it is, or with a new sell.
LEMMA Settling ==
  ASSUME TypeInv, NEW e \in run.exits,
         ExitUnread(e) \/ SettleExit(e) \/ RenewExit(e) \/ RenewRefused(e)
  PROVE  LET t == TickerOf(e)
             k == [e EXCEPT !.id = NextId]
         IN  /\ e \in Exits /\ t \in Tickers
             /\ pc = "settle" /\ pc' = pc /\ UNCHANGED <<day, phase, laneVars>>
             /\ faults' = faults \/ (faults' = faults + 1 /\ faults < MaxFaults)
             /\ OrdersOK' /\ Lasting
             /\ \/ UNCHANGED orders /\ run.book[t] = 0 /\ Settles(e, {}, run.book)
                \/ /\ UNCHANGED orders /\ IsSold(e)
                   /\ Settles(e, {}, [run.book EXCEPT ![t] = 0])
                \/ UNCHANGED orders /\ Settles(e, {e}, run.book)
                \/ /\ IsDead(e) /\ run.book[t] > 0 /\ k \in Exits'
                   /\ Place(t, "sell", run.book[t])
                   /\ Settles(e, {k}, run.book)
<1> DEFINE t == TickerOf(e)
           k == [e EXCEPT !.id = NextId]
<1>1. e \in Exits /\ t \in Tickers /\ run.book \in [Tickers -> 0..Lot]
  <2>1. e \in Exits /\ run.book \in [Tickers -> 0..Lot]
    BY Fields
  <2> QED
    BY <2>1 DEF TickerOf, Exits, TypeInv, OrdersOK, Order
<1>2. faults \in 0..MaxFaults
  BY DEF TypeInv, StoresOK
<1>3. CASE ExitUnread(e)
  <2>1. UNCHANGED orders /\ OrdersOK' /\ Lasting
    BY <1>3, Rests DEF ExitUnread, venueVars
  <2>2. e \in Exits'
    BY <1>1, <2>1, Widens
  <2>3. Settles(e, {e}, run.book)
    BY <1>3, <2>1, <2>2, SettledIs DEF Settles, ExitUnread
  <2> QED
    BY <1>1, <1>2, <1>3, <2>1, <2>3 DEF ExitUnread, venueVars
<1>4. CASE SettleExit(e)
  <2>1. UNCHANGED orders /\ OrdersOK' /\ Lasting
    BY <1>4, Rests DEF SettleExit, venueVars
  <2>2. e \in Exits' /\ {e} \in SUBSET Exits' /\ {} \in SUBSET Exits'
    BY <1>1, <2>1, Widens
  <2>3. CASE run.book[t] = 0 /\ run' = Settled(e, {})
    <3>1. /\ run' \in Memories' /\ run'.book = run.book /\ run'.exits = run.exits \ {e}
          /\ run'.left = run.left \cup {} /\ run'.entries = run.entries
          /\ run'.unread = run.unread
      <4> DEFINE none == {}
      <4>1. none \in SUBSET Exits' /\ run' = Settled(e, none)
        BY <2>3
      <4> HIDE DEF none
      <4>2. /\ run' \in Memories' /\ run'.book = run.book
            /\ run'.exits = run.exits \ {e} /\ run'.left = run.left \cup none
            /\ run'.entries = run.entries /\ run'.unread = run.unread
        BY <2>1, <4>1, SettledIs
      <4> QED
        BY <4>2 DEF none
    <3>2. Settles(e, {}, run.book)
      BY <3>1 DEF Settles
    <3> QED
      BY <1>1, <1>4, <2>1, <2>3, <3>2 DEF SettleExit, venueVars
  <2>4. CASE IsSold(e) /\ run' = [Settled(e, {}) EXCEPT !.book[t] = 0]
    <3> DEFINE m == Settled(e, {})
               b == [run.book EXCEPT ![t] = 0]
    <3>1. /\ m \in Memories' /\ m.book = run.book /\ m.exits = run.exits \ {e}
          /\ m.left = run.left \cup {} /\ m.entries = run.entries /\ m.unread = run.unread
      BY <2>1, <2>2, SettledIs
    <3> HIDE DEF m
    <3>2. run' = [m EXCEPT !.book = b]
      BY <2>4, <3>1 DEF m
    <3>3. b \in [Tickers -> 0..Lot]
      BY <1>1, GapfadeAssumption DEF GapfadeAssumption
    <3> HIDE DEF b
    <3>4. Settles(e, {}, b)
      BY <3>1, <3>2, <3>3, WithBook DEF Settles
    <3> USE DEF b
    <3> QED
      BY <1>1, <1>4, <2>1, <2>4, <3>4 DEF SettleExit, venueVars
  <2>5. CASE run' = Settled(e, {e})
    <3>1. Settles(e, {e}, run.book)
      BY <2>1, <2>2, <2>5, SettledIs DEF Settles
    <3> QED
      BY <1>1, <1>4, <2>1, <3>1 DEF SettleExit, venueVars
  <2> QED
    BY <1>4, <2>3, <2>4, <2>5 DEF SettleExit
<1>5. CASE RenewExit(e)
  <2>1. run.book[t] \in 1..Lot
    BY <1>1, <1>5, GapfadeAssumption DEF GapfadeAssumption, RenewExit
  <2>2. /\ Placed' = Placed \cup {NextId}
        /\ OrdersOK' /\ Lasting
    BY <1>1, <1>5, <2>1, Grows DEF RenewExit
  <2>3. k \in Exits'
    <3>1. NextId \in Placed' /\ Placed' \subseteq Ids
      BY <2>2 DEF OrdersOK
    <3>2. e.for \in Placed'
      BY <1>1, <2>2 DEF Exits
    <3>3. e \in ExitEntry
      BY <1>1 DEF Exits
    <3>4. k \in ExitEntry /\ k.for = e.for /\ k.id = NextId
      BY <3>1, <3>3 DEF ExitEntry
    <3> QED
      BY <3>1, <3>2, <3>4 DEF Exits
  <2>4. Settles(e, {k}, run.book)
    <3>1. {k} \in SUBSET Exits' /\ run' = Settled(e, {k})
      BY <1>5, <2>3 DEF RenewExit
    <3> HIDE DEF k
    <3> QED
      BY <2>2, <3>1, SettledIs DEF Settles
  <2> QED
    BY <1>1, <1>5, <2>2, <2>3, <2>4 DEF RenewExit, Place
<1>6. CASE RenewRefused(e)
  <2>1. UNCHANGED orders /\ OrdersOK' /\ Lasting
    BY <1>6, Rests DEF RenewRefused, venueVars
  <2>2. e \in Exits'
    BY <1>1, <2>1, Widens
  <2>3. Settles(e, {e}, run.book)
    BY <1>6, <2>1, <2>2, SettledIs DEF Settles, RenewRefused
  <2> QED
    BY <1>1, <1>2, <1>6, <2>1, <2>3 DEF RenewRefused, venueVars
<1> QED
  BY <1>3, <1>4, <1>5, <1>6

\* One entry dealt with: it leaves the entries, and may join the unread ones.
Absorbs(i, exit, b, unread) ==
  /\ run' \in Memories'
  /\ run'.book = b
  /\ run'.exits = run.exits /\ run'.left = run.left \cup exit
  /\ run'.entries = run.entries \ {i} /\ run'.unread = unread

\* Kept for the next run, booked with an exit entry x, or dropped as dead.
LEMMA Absorbing ==
  ASSUME TypeInv, NEW i \in run.entries,
         EntryUnread(i) \/ AbsorbFill(i) \/ AbsorbRefused(i) \/ AbsorbNone(i)
  PROVE  LET x(n) == [for |-> i, id |-> n]
         IN  /\ i \in Placed
             /\ pc = "absorb" /\ pc' = pc /\ UNCHANGED <<day, phase, laneVars>>
             /\ OrdersOK' /\ Lasting
             /\ \/ /\ UNCHANGED orders /\ faults' = faults + 1 /\ faults < MaxFaults
                   /\ Absorbs(i, {}, run.book, run.unread \cup {i})
                \/ /\ UNCHANGED <<orders, faults>> /\ orders[i].status = "new"
                   /\ Absorbs(i, {}, run.book, run.unread \cup {i})
                \/ /\ UNCHANGED <<orders, faults>>
                   /\ orders[i].status # "new" /\ orders[i].filled = 0
                   /\ Absorbs(i, {}, run.book, run.unread)
                \/ /\ UNCHANGED <<orders, faults>> /\ orders[i].filled > 0
                   /\ x(0) \in Exits' /\ Absorbs(i, {x(0)}, Bought(i), run.unread)
                \/ /\ UNCHANGED faults /\ orders[i].filled > 0
                   /\ Place(orders[i].ticker, "sell", orders[i].filled)
                   /\ x(NextId) \in Exits'
                   /\ Absorbs(i, {x(NextId)}, Bought(i), run.unread)
<1> DEFINE x(n) == [for |-> i, id |-> n]
<1>1. /\ i \in Placed /\ orders[i].ticker \in Tickers
      /\ orders[i].filled \in 0..Lot
      /\ run.book \in [Tickers -> 0..Lot] /\ run.unread \subseteq Placed
  <2>1. i \in Placed /\ run.book \in [Tickers -> 0..Lot] /\ run.unread \subseteq Placed
    BY Fields
  <2> QED
    BY <2>1 DEF TypeInv, OrdersOK, Order
<1>2. faults \in 0..MaxFaults
  BY DEF TypeInv, StoresOK
<1>3. Bought(i) \in [Tickers -> 0..Lot]
  BY <1>1 DEF Bought
<1>4. ASSUME UNCHANGED orders, NEW u \in SUBSET Placed,
             run' = [Absorbed(i, {}) EXCEPT !.unread = u]
      PROVE  Absorbs(i, {}, run.book, u)
  <2> DEFINE m == Absorbed(i, {})
  <2>1. OrdersOK' /\ Lasting /\ u \in SUBSET Placed'
    BY <1>4, Rests
  <2>2. /\ m \in Memories' /\ m.book = run.book /\ m.exits = run.exits
        /\ m.left = run.left \cup {} /\ m.entries = run.entries \ {i}
    <3> DEFINE none == {}
    <3>1. none \in SUBSET Exits' /\ m = Absorbed(i, none)
      OBVIOUS
    <3> HIDE DEF none, m
    <3>2. /\ m \in Memories' /\ m.book = run.book /\ m.exits = run.exits
          /\ m.left = run.left \cup none /\ m.entries = run.entries \ {i}
      BY <2>1, <3>1, AbsorbedIs
    <3> QED
      BY <3>2 DEF none
  <2>3. run' = [m EXCEPT !.unread = u]
    BY <1>4
  <2> HIDE DEF m
  <2> QED
    BY <2>1, <2>2, <2>3, WithUnread DEF Absorbs
<1>5. ASSUME NEW n, OrdersOK', Lasting, n \in Placed' \cup {0},
             run' = [Absorbed(i, {x(n)}) EXCEPT !.book = Bought(i)]
      PROVE  x(n) \in Exits' /\ Absorbs(i, {x(n)}, Bought(i), run.unread)
  <2>1. Placed \subseteq Placed' /\ Placed' \subseteq Ids
    BY <1>5 DEF Lasting, OrdersOK
  <2>2. x(n) \in Exits'
    BY <1>1, <1>5, <2>1 DEF Exits, ExitEntry
  <2> DEFINE k == x(n)
             m == Absorbed(i, {k})
  <2>3. run' = [m EXCEPT !.book = Bought(i)] /\ {k} \in SUBSET Exits'
    BY <1>5, <2>2
  <2> HIDE DEF k
  <2>4. /\ m \in Memories' /\ m.book = run.book /\ m.exits = run.exits
        /\ m.left = run.left \cup {k} /\ m.entries = run.entries \ {i}
        /\ m.unread = run.unread
    BY <1>5, <2>3, AbsorbedIs
  <2> HIDE DEF m
  <2>5. Absorbs(i, {k}, Bought(i), run.unread)
    BY <1>3, <2>3, <2>4, WithBook DEF Absorbs
  <2> QED
    BY <2>2, <2>5 DEF k
<1>6. CASE EntryUnread(i)
  <2>1. UNCHANGED orders /\ OrdersOK' /\ Lasting
    BY <1>6, Rests DEF EntryUnread, venueVars
  <2>2. Absorbed(i, {}).unread = run.unread
    <3>1. {} \in SUBSET Exits'
      OBVIOUS
    <3> QED
      BY <2>1, <3>1, AbsorbedIs
  <2>3. run' = [Absorbed(i, {}) EXCEPT !.unread = run.unread \cup {i}]
    BY <1>6, <2>2 DEF EntryUnread
  <2>4. Absorbs(i, {}, run.book, run.unread \cup {i})
    BY <1>1, <1>4, <2>1, <2>3
  <2> QED
    BY <1>1, <1>6, <2>1, <2>4 DEF EntryUnread, venueVars
<1>7. CASE AbsorbNone(i)
  <2>1. UNCHANGED orders /\ OrdersOK' /\ Lasting
    BY <1>7, Rests DEF AbsorbNone, venueVars
  <2>2. Absorbed(i, {}).unread = run.unread
    <3>1. {} \in SUBSET Exits'
      OBVIOUS
    <3> QED
      BY <2>1, <3>1, AbsorbedIs
  <2> DEFINE u == IF orders[i].status = "new" THEN run.unread \cup {i} ELSE run.unread
  <2>3. run' = [Absorbed(i, {}) EXCEPT !.unread = u]
    BY <1>7, <2>2 DEF AbsorbNone
  <2>4. Absorbs(i, {}, run.book, u)
    BY <1>1, <1>4, <2>1, <2>3
  <2> QED
    BY <1>1, <1>7, <2>1, <2>4 DEF AbsorbNone, venueVars
<1>8. CASE AbsorbFill(i)
  <2>1. orders[i].filled \in 1..Lot /\ Place(orders[i].ticker, "sell", orders[i].filled)
    BY <1>1, <1>8, GapfadeAssumption DEF GapfadeAssumption, AbsorbFill
  <2>2. Placed' = Placed \cup {NextId} /\ OrdersOK' /\ Lasting
    BY <1>1, <2>1, Grows
  <2>3. x(NextId) \in Exits' /\ Absorbs(i, {x(NextId)}, Bought(i), run.unread)
    BY <1>5, <1>8, <2>2 DEF AbsorbFill
  <2> QED
    BY <1>1, <1>8, <2>1, <2>2, <2>3 DEF AbsorbFill, Place
<1>9. CASE AbsorbRefused(i)
  <2>1. UNCHANGED orders /\ OrdersOK' /\ Lasting
    BY <1>9, Rests DEF AbsorbRefused, venueVars
  <2>2. x(0) \in Exits' /\ Absorbs(i, {x(0)}, Bought(i), run.unread)
    BY <1>5, <1>9, <2>1 DEF AbsorbRefused
  <2> QED
    BY <1>1, <1>9, <2>1, <2>2 DEF AbsorbRefused, venueVars
<1> QED
  BY <1>6, <1>7, <1>8, <1>9

\* Submit and SubmitRefused: the pick leaves; an accepted buy is remembered.
LEMMA Submitting ==
  ASSUME TypeInv, NEW t \in Tickers, Submit(t) \/ SubmitRefused(t)
  PROVE  /\ pc = "submit" /\ pc' = pc /\ t \in run.picks
         /\ UNCHANGED <<day, phase, laneVars, faults>>
         /\ OrdersOK' /\ Lasting
         /\ run' \in Memories'
         /\ run'.book = run.book /\ run'.exits = run.exits
         /\ run'.entries = run.entries /\ run'.picks = run.picks \ {t}
         /\ \/ /\ Place(t, "buy", Lot) /\ NextId \in Placed'
               /\ run'.unread = run.unread \cup {NextId}
            \/ UNCHANGED orders /\ run'.unread = run.unread
<1> DEFINE p == run.picks \ {t}
           m == [run EXCEPT !.picks = p]
<1>1. p \in SUBSET Tickers
  BY Fields
<1>2. CASE Submit(t)
  <2>1. Lot \in 1..Lot
    BY GapfadeAssumption DEF GapfadeAssumption
  <2>2. Placed' = Placed \cup {NextId} /\ OrdersOK' /\ Lasting
    BY <1>2, <2>1, Grows DEF Submit
  <2>3. run \in Memories'
    BY <2>2, Widens
  <2> DEFINE u == run.unread \cup {NextId}
  <2>4. run' = [m EXCEPT !.unread = u]
    BY <1>2, <2>3 DEF Submit, Memories
  <2>5. u \in SUBSET Placed'
    BY <2>2, Fields
  <2> HIDE DEF u, p
  <2>6. /\ m \in Memories' /\ m.book = run.book /\ m.exits = run.exits
        /\ m.entries = run.entries /\ m.picks = p
    BY <1>1, <2>3, WithPicks
  <2> HIDE DEF m
  <2>7. /\ run' \in Memories' /\ run'.book = run.book /\ run'.exits = run.exits
        /\ run'.entries = run.entries /\ run'.unread = u /\ run'.picks = p
    BY <2>4, <2>5, <2>6, WithUnread
  <2> QED
    BY <1>2, <2>2, <2>7 DEF u, p, Submit, Place
<1>3. CASE SubmitRefused(t)
  <2>1. UNCHANGED orders /\ OrdersOK' /\ Lasting
    BY <1>3, Rests DEF SubmitRefused, venueVars
  <2>2. run \in Memories' /\ run' = m
    BY <1>3, <2>1, Widens DEF SubmitRefused
  <2> HIDE DEF p
  <2>3. /\ m \in Memories' /\ m.book = run.book /\ m.exits = run.exits
        /\ m.entries = run.entries /\ m.unread = run.unread /\ m.picks = p
    BY <1>1, <2>2, WithPicks
  <2> HIDE DEF m
  <2> QED
    BY <1>3, <2>1, <2>2, <2>3 DEF p, SubmitRefused, venueVars
<1> QED
  BY <1>2, <1>3

\* Start: a fresh memory with the stored book and exits.
LEMMA Starting ==
  ASSUME TypeInv, Start
  PROVE  /\ UNCHANGED orders /\ run' \in Memories'
         /\ run'.book = book /\ run'.exits = exitOrders /\ run'.left = {}
         /\ run'.entries = {} /\ run'.unread = {} /\ run'.picks = {}
<1>1. /\ UNCHANGED orders /\ OrdersOK' /\ Lasting
  BY Rests DEF Start, venueVars
<1>2. exitOrders \subseteq Exits' /\ book \in [Tickers -> 0..Lot]
  BY <1>1, TypeParts, Widens DEF Lists
<1>3. run' = [book |-> book, exits |-> exitOrders, left |-> {},
              entries |-> {}, unread |-> {}, picks |-> {}]
  BY DEF Start, NoRun
<1> QED
  BY <1>1, <1>2, <1>3 DEF Memories

\* SettleDone: the second phase begins with the stored entries.
LEMMA Reading ==
  ASSUME TypeInv, SettleDone
  PROVE  /\ UNCHANGED orders /\ run' \in Memories'
         /\ run'.book = run.book /\ run'.exits = run.exits /\ run'.left = run.left
         /\ run'.entries = entryOrders /\ run'.unread = run.unread
<1>1. /\ UNCHANGED orders /\ OrdersOK' /\ Lasting
  BY Rests DEF SettleDone, venueVars
<1>2. run \in Memories' /\ entryOrders \in SUBSET Placed'
  BY <1>1, TypeParts, Widens DEF Lists, Lasting
<1> QED
  BY <1>1, <1>2, WithEntries DEF SettleDone

\* Signal: picks among the tickers the book does not hold.
LEMMA Picking ==
  ASSUME TypeInv, Signal
  PROVE  /\ UNCHANGED orders /\ run' \in Memories'
         /\ run'.book = run.book /\ run'.exits = run.exits
         /\ run'.entries = run.entries /\ run'.unread = run.unread
         /\ \A t \in run'.picks : t \notin Held(run.book)
<1>1. PICK gaps \in SUBSET (Tickers \ Held(run.book)) : \E picks \in SUBSET gaps :
        run' = [run EXCEPT !.picks = picks]
  BY DEF Signal
<1>2. PICK picks \in SUBSET gaps : run' = [run EXCEPT !.picks = picks]
  BY <1>1
<1>3. UNCHANGED orders /\ OrdersOK' /\ Lasting
  BY Rests DEF Signal, venueVars
<1>4. run \in Memories' /\ picks \in SUBSET Tickers
  BY <1>1, <1>2, <1>3, Widens
<1>5. /\ run' \in Memories'
      /\ run'.book = run.book /\ run'.exits = run.exits
      /\ run'.entries = run.entries /\ run'.unread = run.unread
      /\ run'.picks = picks
  BY <1>2, <1>4, WithPicks
<1> QED
  BY <1>1, <1>2, <1>3, <1>5

\* Every step keeps the orders well-formed and what is fixed about them.
LEMMA OrdersStep ==
  ASSUME TypeInv, [Next]_vars
  PROVE  OrdersOK' /\ Lasting
<1>1. CASE OpeningAuction
  BY <1>1, Resolves DEF OpeningAuction
<1>2. CASE ClosingAuction
  BY <1>2, Resolves DEF ClosingAuction
<1>3. CASE \/ NextDay \/ Start \/ SettleDone \/ AbsorbDone \/ SignalUnread \/ Signal
           \/ SubmitDone \/ Crash \/ UNCHANGED vars
  BY <1>3, Rests DEF NextDay, Start, SettleDone, AbsorbDone, SignalUnread, Signal,
     SubmitDone, Crash, venueVars, vars
<1>4. CASE \E e \in run.exits :
             ExitUnread(e) \/ SettleExit(e) \/ RenewExit(e) \/ RenewRefused(e)
  BY <1>4, Settling
<1>5. CASE \E i \in run.entries :
             EntryUnread(i) \/ AbsorbFill(i) \/ AbsorbRefused(i) \/ AbsorbNone(i)
  BY <1>5, Absorbing
<1>6. CASE \E t \in Tickers : Submit(t) \/ SubmitRefused(t)
  BY <1>6, Submitting
<1> QED
  BY <1>1, <1>2, <1>3, <1>4, <1>5, <1>6 DEF Next

\* The lists keep their types as the orders grow.
LEMMA ListsKept ==
  ASSUME TypeInv, OrdersOK', Lasting, UNCHANGED laneVars
  PROVE  /\ book' \in [Tickers -> 0..Lot] /\ marker' \in 0..MaxDay
         /\ entryOrders' \subseteq Placed' /\ exitOrders' \subseteq Exits'
<1>1. Exits \subseteq Exits' /\ Placed \subseteq Placed'
  BY Widens DEF Lasting
<1> QED
  BY <1>1, TypeParts DEF Lists, laneVars

LEMMA StepTypes ==
  ASSUME TypeInv, [Next]_vars
  PROVE  TypeInv'
<1>1. OrdersOK' /\ Lasting
  BY OrdersStep
<1>2. Lists /\ Stage
  BY TypeParts
<1>3. run \in Memories' /\ Exits \subseteq Exits' /\ Placed \subseteq Placed'
  BY <1>1, Widens DEF Lasting
<1>4. ASSUME UNCHANGED laneVars
      PROVE  /\ book' \in [Tickers -> 0..Lot] /\ marker' \in 0..MaxDay
             /\ entryOrders' \subseteq Placed' /\ exitOrders' \subseteq Exits'
  BY <1>1, <1>4, ListsKept
<1>0. faults \in 0..MaxFaults /\ MaxFaults \in Nat
  BY <1>2, GapfadeAssumption DEF GapfadeAssumption, Lists
<1>5. SUFFICES Lists' /\ run' \in Memories' /\ Stage'
  BY <1>1, TypeParts DEF TypeInv, StoresOK, Lists, OrdersOK, Exits, ExitEntry
<1>6. CASE OpeningAuction \/ ClosingAuction \/ NextDay \/ UNCHANGED vars
  <2>1. /\ UNCHANGED <<laneVars, pc, run, faults>>
        /\ day' \in 1..MaxDay /\ phase' \in {"pre", "session", "closed"}
    <3>1. CASE OpeningAuction \/ ClosingAuction
      BY <1>2, <3>1 DEF OpeningAuction, ClosingAuction, Lists
    <3>2. CASE NextDay
      BY <1>2, <3>2, GapfadeAssumption DEF GapfadeAssumption, NextDay, Lists
    <3>3. CASE UNCHANGED vars
      BY <1>2, <3>3 DEF vars, venueVars, Lists
    <3> QED
      BY <1>6, <3>1, <3>2, <3>3
  <2>2. Lists'
    BY <1>2, <1>4, <2>1 DEF Lists
  <2>3. Stage'
    BY <1>2, <2>1 DEF Stage, laneVars
  <2> QED
    BY <1>3, <2>1, <2>2, <2>3
<1>7. CASE Start
  <2>1. Lists'
    BY <1>2, <1>4, <1>7 DEF Start, Lists, venueVars
  <2>2. Stage'
    BY <1>7, Starting DEF Start, Stage
  <2> QED
    BY <1>7, <2>1, <2>2, Starting
<1>8. CASE SettleDone
  <2>1. run.book \in [Tickers -> 0..Lot] /\ run.left \subseteq Exits'
    BY <1>3, Fields
  <2>2. Lists'
    BY <1>2, <1>3, <1>8, <2>1 DEF SettleDone, Lists, venueVars
  <2>3. Stage'
    BY <1>2, <1>8, Reading DEF SettleDone, Stage
  <2> QED
    BY <1>8, <2>2, <2>3, Reading
<1>9. CASE AbsorbDone
  <2>1. /\ run.book \in [Tickers -> 0..Lot] /\ run.left \subseteq Exits'
        /\ run.unread \subseteq Placed'
    BY <1>3, Fields
  <2>2. pc = "absorb" /\ book' = run.book /\ entryOrders' = run.unread
        /\ exitOrders' = run.left /\ run.entries = {}
        /\ UNCHANGED <<day, phase, marker, faults>>
        /\ \/ pc' = "signal" /\ run' = run
           \/ pc' = "idle" /\ run' = NoRun
    BY <1>9 DEF AbsorbDone, venueVars
  <2>3. Lists'
    BY <1>2, <2>1, <2>2 DEF Lists
  <2>4. run' \in Memories' /\ Stage'
    <3>1. CASE pc' = "signal" /\ run' = run
      BY <1>2, <1>3, <2>2, <3>1 DEF Stage
    <3>2. CASE pc' = "idle" /\ run' = NoRun
      BY <3>2, Empty DEF Stage
    <3> QED
      BY <2>2, <3>1, <3>2
  <2> QED
    BY <2>3, <2>4
<1>10. CASE SignalUnread \/ Crash
  <2>1. UNCHANGED laneVars /\ UNCHANGED venueVars /\ pc' = "idle" /\ run' = NoRun
    BY <1>10 DEF SignalUnread, Crash
  <2>2. faults' \in 0..MaxFaults
    BY <1>0, <1>10 DEF SignalUnread, Crash
  <2>3. Lists'
    BY <1>2, <1>4, <2>1, <2>2 DEF Lists, venueVars
  <2> QED
    BY <2>1, <2>3, Empty DEF Stage
<1>11. CASE Signal
  <2>1. Lists'
    BY <1>2, <1>3, <1>11, GapfadeAssumption DEF GapfadeAssumption, Signal, Lists, venueVars
  <2>2. Stage'
    BY <1>2, <1>11, Picking DEF Signal, Stage
  <2> QED
    BY <1>11, <2>1, <2>2, Picking
<1>12. CASE SubmitDone
  <2>1. Lists'
    BY <1>2, <1>3, <1>12, Fields DEF SubmitDone, Lists, venueVars
  <2> QED
    BY <1>12, <2>1, Empty DEF SubmitDone, Stage
<1>13. CASE \E e \in run.exits :
              ExitUnread(e) \/ SettleExit(e) \/ RenewExit(e) \/ RenewRefused(e)
  <2>1. PICK e \in run.exits :
          ExitUnread(e) \/ SettleExit(e) \/ RenewExit(e) \/ RenewRefused(e)
    BY <1>13
  <2>2. /\ pc = "settle" /\ pc' = pc /\ UNCHANGED <<day, phase, laneVars>>
        /\ faults' = faults \/ (faults' = faults + 1 /\ faults < MaxFaults)
    BY <2>1, Settling
  <2>3. /\ run' \in Memories'
        /\ run'.entries = run.entries /\ run'.unread = run.unread
    BY <2>1, Settling DEF Settles
  <2>4. faults' \in 0..MaxFaults
    BY <1>0, <2>2
  <2>5. Lists'
    BY <1>2, <1>4, <2>2, <2>4 DEF Lists
  <2>6. Stage'
    BY <1>2, <2>2, <2>3 DEF Stage
  <2> QED
    BY <2>3, <2>5, <2>6
<1>14. CASE \E i \in run.entries :
              EntryUnread(i) \/ AbsorbFill(i) \/ AbsorbRefused(i) \/ AbsorbNone(i)
  <2>1. PICK i \in run.entries :
              EntryUnread(i) \/ AbsorbFill(i) \/ AbsorbRefused(i) \/ AbsorbNone(i)
    BY <1>14
  <2>2. /\ pc = "absorb" /\ pc' = pc /\ UNCHANGED <<day, phase, laneVars>>
        /\ faults' = faults \/ (faults' = faults + 1 /\ faults < MaxFaults)
    BY <2>1, Absorbing
  <2>3. /\ run' \in Memories' /\ run'.exits = run.exits
        /\ run'.entries = run.entries \ {i}
        /\ run'.unread = run.unread \/ run'.unread = run.unread \cup {i}
    BY <2>1, Absorbing DEF Absorbs
  <2>4. faults' \in 0..MaxFaults
    BY <1>0, <2>2
  <2>5. Lists'
    BY <1>2, <1>4, <2>2, <2>4 DEF Lists
  <2>6. Stage'
    BY <1>2, <2>1, <2>2, <2>3 DEF Stage
  <2> QED
    BY <2>3, <2>5, <2>6
<1>15. CASE \E t \in Tickers : Submit(t) \/ SubmitRefused(t)
  <2>1. PICK t \in Tickers : Submit(t) \/ SubmitRefused(t)
    BY <1>15
  <2>2. /\ pc = "submit" /\ pc' = pc /\ UNCHANGED <<day, phase, laneVars, faults>>
        /\ run' \in Memories' /\ run'.book = run.book
        /\ run'.exits = run.exits /\ run'.entries = run.entries
    BY <2>1, Submitting
  <2>3. Lists'
    BY <1>2, <1>4, <2>2 DEF Lists
  <2>4. Stage'
    BY <1>2, <2>2 DEF Stage, laneVars
  <2> QED
    BY <2>2, <2>3, <2>4
<1> QED
  BY <1>6, <1>7, <1>8, <1>9, <1>10, <1>11, <1>12, <1>13, <1>14, <1>15 DEF Next

\* The calendar, the orders and the stores of run_gapfade always have their
\* types: every listed id is an order the venue accepted, no fill exceeds its
\* order, and no position of the book exceeds one lot.
THEOREM StoresTyped == Spec => []StoresOK
<1>1. Init => TypeInv
  BY InitTypes
<1>2. TypeInv /\ [Next]_vars => TypeInv'
  BY StepTypes
<1>3. TypeInv => StoresOK
  BY DEF TypeInv
<1> QED
  BY <1>1, <1>2, <1>3, PTL DEF Spec

-----------------------------------------------------------------------------
(* One entry of a ticker a day: the marker is set before the first buy.    *)

\* Steps that add no buy: the days of the buys are those of before.
LEMMA NoNewBuy ==
  ASSUME TypeInv, OneEntryPerDay, Lasting,
         \A k \in Placed' \ Placed : orders'[k].side = "sell"
  PROVE  /\ Buys' = Buys /\ OneEntryPerDay'
         /\ \A k \in Buys : /\ orders'[k].day = orders[k].day
                            /\ orders'[k].ticker = orders[k].ticker
<1>1. /\ \A k \in Placed : orders'[k].side = orders[k].side
      /\ Placed \subseteq Placed'
  BY DEF Lasting
<1>2. Buys' = {k \in Placed' : orders'[k].side = "buy"}
  BY DEF Buys
<1>3. Buys' = Buys
  BY <1>1, <1>2 DEF Buys
<1>4. \A k \in Buys : /\ orders'[k].day = orders[k].day
                      /\ orders'[k].ticker = orders[k].ticker
  BY DEF Buys, Lasting
<1>5. OneEntryPerDay'
  <2>1. OneEntryPerDay = \A i, j \in Buys :
          orders[i].ticker = orders[j].ticker /\ orders[i].day = orders[j].day => i = j
    BY DEF OneEntryPerDay, Buys
  <2>2. OneEntryPerDay' = \A i, j \in Buys' :
          orders'[i].ticker = orders'[j].ticker /\ orders'[i].day = orders'[j].day => i = j
    BY DEF OneEntryPerDay, Buys
  <2>3. ASSUME NEW i \in Buys, NEW j \in Buys,
               orders'[i].ticker = orders'[j].ticker, orders'[i].day = orders'[j].day
        PROVE  i = j
    <3>1. orders[i].ticker = orders[j].ticker /\ orders[i].day = orders[j].day
      BY <1>4, <2>3
    <3> QED
      BY <2>1, <3>1
  <2> QED
    BY <1>3, <2>2, <2>3
<1> QED
  BY <1>3, <1>4, <1>5

\* Only Submit adds a buy.
LEMMA BuysStep ==
  ASSUME TypeInv, [Next]_vars
  PROVE  \/ \A k \in Placed' \ Placed : orders'[k].side = "sell"
         \/ \E t \in Tickers : Submit(t)
<1>1. CASE OpeningAuction \/ ClosingAuction
  BY <1>1, Resolves DEF OpeningAuction, ClosingAuction
<1>2. CASE \/ NextDay \/ Start \/ SettleDone \/ AbsorbDone \/ SignalUnread \/ Signal
           \/ SubmitDone \/ Crash \/ UNCHANGED vars
  BY <1>2, Rests DEF NextDay, Start, SettleDone, AbsorbDone, SignalUnread, Signal,
     SubmitDone, Crash, venueVars, vars
<1>3. CASE \E e \in run.exits :
             ExitUnread(e) \/ SettleExit(e) \/ RenewExit(e) \/ RenewRefused(e)
  <2>1. PICK e \in run.exits :
             ExitUnread(e) \/ SettleExit(e) \/ RenewExit(e) \/ RenewRefused(e)
    BY <1>3
  <2>2. CASE UNCHANGED orders
    BY <2>2, Rests
  <2>3. CASE Place(TickerOf(e), "sell", run.book[TickerOf(e)]) /\ run.book[TickerOf(e)] > 0
    <3> DEFINE t == TickerOf(e)
               q == run.book[t]
    <3>1. t \in Tickers
      BY <2>1, Settling
    <3>2. q \in 0..Lot /\ q > 0 /\ Place(t, "sell", q)
      BY <2>3, <3>1, Fields
    <3> HIDE DEF t, q
    <3>3. q \in 1..Lot /\ "sell" \in {"buy", "sell"}
      BY <3>2, GapfadeAssumption DEF GapfadeAssumption
    <3>4. Placed' = Placed \cup {NextId} /\ orders'[NextId] = NewOrder(t, "sell", q)
      BY <3>1, <3>2, <3>3, Grows
    <3> QED
      BY <3>4 DEF NewOrder
  <2> QED
    BY <2>1, <2>2, <2>3, Settling
<1>4. CASE \E i \in run.entries :
             EntryUnread(i) \/ AbsorbFill(i) \/ AbsorbRefused(i) \/ AbsorbNone(i)
  <2>1. PICK i \in run.entries :
             EntryUnread(i) \/ AbsorbFill(i) \/ AbsorbRefused(i) \/ AbsorbNone(i)
    BY <1>4
  <2>2. CASE UNCHANGED orders
    BY <2>2, Rests
  <2>3. CASE Place(orders[i].ticker, "sell", orders[i].filled) /\ orders[i].filled > 0
    <3>1. orders[i] \in Order
      BY <2>1, Fields DEF TypeInv, OrdersOK
    <3> DEFINE t == orders[i].ticker
               q == orders[i].filled
    <3>2. q \in 1..Lot /\ t \in Tickers
      BY <2>3, <3>1, GapfadeAssumption DEF GapfadeAssumption, Order
    <3>3. "sell" \in {"buy", "sell"} /\ Place(t, "sell", q)
      BY <2>3
    <3> HIDE DEF t, q
    <3>4. Placed' = Placed \cup {NextId} /\ orders'[NextId] = NewOrder(t, "sell", q)
      BY <3>2, <3>3, Grows
    <3> QED
      BY <3>4 DEF NewOrder
  <2> QED
    BY <2>1, <2>2, <2>3, Absorbing
<1>5. CASE \E t \in Tickers : SubmitRefused(t)
  BY <1>5, Rests DEF SubmitRefused, venueVars
<1> QED
  BY <1>1, <1>2, <1>3, <1>4, <1>5 DEF Next

LEMMA EntryStep ==
  ASSUME TypeInv, EntryInv, [Next]_vars
  PROVE  EntryInv'
<1>1. OrdersOK' /\ Lasting
  BY OrdersStep
<1>2. Lists /\ day \in Nat /\ marker \in Nat
  BY TypeParts, GapfadeAssumption DEF GapfadeAssumption, Lists
<1>3. \A k \in Buys : orders[k].day \in Nat
  BY GapfadeAssumption DEF GapfadeAssumption, Buys, TypeInv, OrdersOK, Order
<1>4. ASSUME NEW t \in Tickers, Submit(t)
      PROVE  EntryInv'
  <2>1. /\ pc = "submit" /\ pc' = pc /\ t \in run.picks
        /\ UNCHANGED <<day, marker>> /\ run'.picks = run.picks \ {t}
    BY <1>4, Submitting DEF laneVars
  <2>2. /\ NextId \notin Placed /\ Placed' = Placed \cup {NextId}
        /\ \A i \in Placed : orders'[i] = orders[i]
        /\ orders'[NextId] = NewOrder(t, "buy", Lot)
    <3>1. Lot \in 1..Lot
      BY GapfadeAssumption DEF GapfadeAssumption
    <3> QED
      BY <1>4, <3>1, Grows DEF Submit
  <2>3. Buys' = Buys \cup {NextId} /\ \A i \in Buys : orders'[i] = orders[i] /\ i # NextId
    <3>1. Buys' = {k \in Placed' : orders'[k].side = "buy"}
      BY DEF Buys
    <3> QED
      BY <2>2, <3>1 DEF Buys, NewOrder
  <2>4. orders'[NextId].ticker = t /\ orders'[NextId].day = day
    BY <2>2 DEF NewOrder
  <2>5. \A k \in Buys : orders[k].day = day => orders[k].ticker \notin run.picks
    BY <2>1 DEF EntryInv
  <2>6. OneEntryPerDay'
    <3>1. \A i, j \in Buys :
            orders[i].ticker = orders[j].ticker /\ orders[i].day = orders[j].day => i = j
      BY DEF EntryInv, OneEntryPerDay, Buys
    <3>2. \A i, j \in Buys' :
            orders'[i].ticker = orders'[j].ticker /\ orders'[i].day = orders'[j].day => i = j
      BY <2>1, <2>3, <2>4, <2>5, <3>1
    <3> QED
      BY <3>2 DEF OneEntryPerDay, Buys
  <2>7. \A k \in Buys' : orders'[k].day <= marker'
    <3>1. marker = day /\ \A k \in Buys : orders[k].day <= marker
      BY <2>1 DEF EntryInv
    <3> QED
      BY <1>2, <2>1, <2>3, <2>4, <3>1
  <2>8. \A k \in Buys' : orders'[k].day = day' => orders'[k].ticker \notin run'.picks
    BY <2>1, <2>3, <2>4, <2>5
  <2>9. marker' <= day' /\ marker' = day' /\ pc' = "submit"
    BY <1>2, <2>1 DEF EntryInv
  <2> QED
    BY <2>6, <2>7, <2>8, <2>9 DEF EntryInv
<1>5. ASSUME \A k \in Placed' \ Placed : orders'[k].side = "sell"
      PROVE  EntryInv'
  <2>1. /\ Buys' = Buys /\ OneEntryPerDay'
        /\ \A k \in Buys : /\ orders'[k].day = orders[k].day
                           /\ orders'[k].ticker = orders[k].ticker
    BY <1>1, <1>5, NoNewBuy DEF EntryInv
  <2>2. ASSUME UNCHANGED <<day, marker>>, pc' \notin {"signal", "submit"}
        PROVE  EntryInv'
    <3>1. marker' <= day' /\ \A k \in Buys' : orders'[k].day <= marker'
      BY <2>1, <2>2 DEF EntryInv
    <3> QED
      BY <2>1, <2>2, <3>1 DEF EntryInv
  <2>3. CASE \/ Start \/ SettleDone \/ SignalUnread \/ SubmitDone \/ Crash
    BY <2>2, <2>3 DEF Start, SettleDone, SignalUnread, SubmitDone, Crash, venueVars,
       laneVars
  <2>4. CASE \/ \E e \in run.exits :
                  ExitUnread(e) \/ SettleExit(e) \/ RenewExit(e) \/ RenewRefused(e)
             \/ \E i \in run.entries :
                  EntryUnread(i) \/ AbsorbFill(i) \/ AbsorbRefused(i) \/ AbsorbNone(i)
    <3>1. UNCHANGED <<day, marker>> /\ pc' \in {"settle", "absorb"}
      BY <2>4, Settling, Absorbing DEF laneVars
    <3> QED
      BY <2>2, <3>1
  <2>5. CASE AbsorbDone
    <3>1. /\ UNCHANGED <<day, marker>>
          /\ \/ pc' = "signal" /\ marker # day
             \/ pc' = "idle"
      BY <2>5 DEF AbsorbDone, venueVars, SignalDue
    <3>2. CASE pc' = "idle"
      BY <2>2, <3>1, <3>2
    <3>3. CASE pc' = "signal" /\ marker # day
      <4>1. marker < day
        BY <1>2, <3>3 DEF EntryInv
      <4>2. marker' <= day' /\ marker' < day' /\ \A k \in Buys' : orders'[k].day <= marker'
        BY <1>2, <2>1, <3>1, <4>1 DEF EntryInv
      <4> QED
        BY <2>1, <3>3, <4>2 DEF EntryInv
    <3> QED
      BY <3>1, <3>2, <3>3
  <2>6. CASE Signal
    <3>1. pc = "signal" /\ marker' = day /\ day' = day /\ pc' = "submit"
      BY <2>6 DEF Signal, venueVars
    <3>2. \A k \in Buys : orders[k].day < day
      BY <1>2, <1>3, <3>1 DEF EntryInv
    <3>3. \A k \in Buys' : orders'[k].day <= marker' /\ orders'[k].day # day'
      BY <1>2, <1>3, <2>1, <3>1, <3>2
    <3>4. marker' <= day' /\ marker' = day'
      BY <1>2, <3>1
    <3> QED
      BY <2>1, <3>1, <3>3, <3>4 DEF EntryInv
  <2>7. CASE \E t \in Tickers : SubmitRefused(t)
    <3>1. PICK t \in Tickers : SubmitRefused(t)
      BY <2>7
    <3>2. /\ pc = "submit" /\ pc' = pc
          /\ UNCHANGED <<day, marker>> /\ run'.picks = run.picks \ {t}
      BY <3>1, Submitting DEF laneVars
    <3>3. /\ marker' = day' /\ marker' <= day'
          /\ \A k \in Buys' : orders'[k].day <= marker'
      BY <2>1, <3>2 DEF EntryInv
    <3>4. \A k \in Buys' : orders'[k].day = day' => orders'[k].ticker \notin run'.picks
      BY <2>1, <3>2 DEF EntryInv
    <3> QED
      BY <2>1, <3>2, <3>3, <3>4 DEF EntryInv
  <2>8. CASE NextDay
    <3>1. day' = day + 1 /\ UNCHANGED <<marker, pc>> /\ pc = "idle"
      BY <2>8 DEF NextDay, laneVars
    <3>2. marker' <= day' /\ \A k \in Buys' : orders'[k].day <= marker'
      BY <1>2, <2>1, <3>1 DEF EntryInv
    <3> QED
      BY <2>1, <3>1, <3>2 DEF EntryInv
  <2>9. CASE OpeningAuction \/ ClosingAuction \/ UNCHANGED vars
    <3>1. UNCHANGED <<day, marker, pc, run>>
      BY <2>9 DEF OpeningAuction, ClosingAuction, vars, venueVars, laneVars
    <3>2. marker' <= day' /\ \A k \in Buys' : orders'[k].day <= marker'
      BY <2>1, <3>1 DEF EntryInv
    <3>3. pc' = "signal" => marker' < day'
      BY <3>1 DEF EntryInv
    <3>4. pc' = "submit" =>
            /\ marker' = day'
            /\ \A k \in Buys' : orders'[k].day = day' => orders'[k].ticker \notin run'.picks
      BY <2>1, <3>1 DEF EntryInv
    <3> QED
      BY <2>1, <3>2, <3>3, <3>4 DEF EntryInv
  <2>10. CASE \E t \in Tickers : Submit(t)
    BY <1>4, <2>10
  <2> QED
    BY <2>3, <2>4, <2>5, <2>6, <2>7, <2>8, <2>9, <2>10 DEF Next
<1> QED
  BY <1>4, <1>5, BuysStep

LEMMA InitEntries == Init => EntryInv
<1> SUFFICES ASSUME Init PROVE EntryInv
  OBVIOUS
<1>1. Placed = {} /\ Buys = {}
  BY DEF Init, Placed, Buys
<1>2. OneEntryPerDay
  BY <1>1 DEF OneEntryPerDay
<1>3. marker <= day /\ pc = "idle"
  BY DEF Init
<1> QED
  BY <1>1, <1>2, <1>3 DEF EntryInv

\* _gapfade_signals: the marker before the first submission means that no
\* crash and no retry of the cron buys a ticker twice on one day, whatever the
\* number of faults.
THEOREM BuysOnceADay == Spec => []OneEntryPerDay
<1>1. Init => TypeInv /\ EntryInv
  BY InitTypes, InitEntries
<1>2. TypeInv /\ EntryInv /\ [Next]_vars => (TypeInv /\ EntryInv)'
  BY StepTypes, EntryStep
<1>3. EntryInv => OneEntryPerDay
  BY DEF EntryInv
<1> QED
  BY <1>1, <1>2, <1>3, PTL DEF Spec

-----------------------------------------------------------------------------
(* Every position of the book has an exit that will be tried again.        *)

\* A book b is covered by the exits of X.
Covered(b, X) == \A t \in Held(b) : \E e \in X : TickerOf(e) = t

LEMMA CoverParts ==
  /\ CoverInv <=> /\ Covered(book, exitOrders)
                  /\ InRun => Covered(run.book, run.exits \cup run.left)
  /\ CoverInv' <=> /\ Covered(book, exitOrders)'
                   /\ InRun' => Covered(run.book, run.exits \cup run.left)'
BY DEF CoverInv, HeldHasExit, Covered, InRun

\* A later state's cover, in terms of the tickers of before.
LEMMA CoverLasts ==
  ASSUME TypeInv, OrdersOK', Lasting, NEW b, NEW X, NEW Y \in SUBSET Exits, Covered(b, Y),
         \A e \in Y : e \in X
  PROVE  \A t \in Held(b) : \E e \in X : orders'[e.for].ticker = t
<1>1. \A e \in Y : orders'[e.for].ticker = orders[e.for].ticker
  BY Widens DEF TickerOf
<1> QED
  BY <1>1 DEF Covered, TickerOf

LEMMA CoverStep ==
  ASSUME TypeInv, CoverInv, [Next]_vars
  PROVE  CoverInv'
<1>1. OrdersOK' /\ Lasting
  BY OrdersStep
<1>2. /\ exitOrders \subseteq Exits /\ run.exits \subseteq Exits /\ run.left \subseteq Exits
      /\ run.book \in [Tickers -> 0..Lot]
  BY TypeParts, Fields DEF Lists
<1>3. /\ Covered(book, exitOrders)
      /\ InRun => Covered(run.book, run.exits \cup run.left)
  BY CoverParts
<1>4. \A e \in Exits : orders'[e.for].ticker = TickerOf(e)
  BY <1>1, Widens DEF TickerOf
<1>5. /\ Covered(book, exitOrders)' <=>
            \A t \in Held(book') : \E e \in exitOrders' : orders'[e.for].ticker = t
      /\ Covered(run.book, run.exits \cup run.left)' <=>
            \A t \in Held(run'.book) :
              \E e \in run'.exits \cup run'.left : orders'[e.for].ticker = t
  BY DEF Covered, TickerOf, Held
<1>6. ASSUME UNCHANGED <<book, exitOrders>>
      PROVE  Covered(book, exitOrders)'
  <2>1. \A t \in Held(book) : \E e \in exitOrders : orders'[e.for].ticker = t
    BY <1>1, <1>2, <1>3, CoverLasts
  <2> QED
    BY <1>5, <1>6, <2>1
<1>7. CASE \/ OpeningAuction \/ ClosingAuction \/ NextDay \/ UNCHANGED vars
  <2>1. UNCHANGED <<book, exitOrders, pc, run>>
    BY <1>7 DEF OpeningAuction, ClosingAuction, NextDay, vars, laneVars
  <2> DEFINE Y == run.exits \cup run.left
  <2>2. InRun' => Covered(run.book, run.exits \cup run.left)'
    <3>1. InRun' <=> InRun
      BY <2>1 DEF InRun
    <3>2. Y \in SUBSET Exits
      BY <1>2
    <3>3. InRun => \A t \in Held(run.book) : \E e \in Y : orders'[e.for].ticker = t
      BY <1>1, <1>3, <3>2, CoverLasts
    <3> QED
      BY <1>5, <2>1, <3>1, <3>3
  <2> QED
    BY <1>6, <2>1, <2>2, CoverParts
<1>8. CASE Start
  <2>1. run'.book = book /\ run'.exits = exitOrders /\ run'.left = {}
    BY <1>8, Starting
  <2>2. UNCHANGED <<book, exitOrders>>
    BY <1>8 DEF Start, laneVars
  <2>3. Covered(book, exitOrders)'
    BY <1>6, <2>2
  <2>4. Covered(run.book, run.exits \cup run.left)'
    BY <1>5, <2>1, <2>2, <2>3
  <2> QED
    BY <2>3, <2>4, CoverParts
<1>9. CASE SettleDone
  <2>1. /\ pc = "settle" /\ run.exits = {}
        /\ book' = run.book /\ exitOrders' = run.left
    BY <1>9 DEF SettleDone
  <2>2. /\ run'.book = run.book /\ run'.exits = run.exits /\ run'.left = run.left
    BY <1>9, Reading
  <2>3. Covered(run.book, run.left)
    BY <1>3, <2>1 DEF InRun, Covered
  <2>4. \A t \in Held(run.book) : \E e \in run.left : orders'[e.for].ticker = t
    BY <1>1, <1>2, <2>3, CoverLasts
  <2> QED
    BY <1>5, <2>1, <2>2, <2>4, CoverParts
<1>10. CASE AbsorbDone
  <2>1. /\ pc = "absorb" /\ pc' \in {"signal", "idle"}
        /\ book' = run.book /\ exitOrders' = run.left
    BY <1>10 DEF AbsorbDone
  <2>2. run.exits = {}
    BY <2>1 DEF TypeInv, Stage
  <2>3. Covered(run.book, run.left)
    BY <1>3, <2>1, <2>2 DEF InRun, Covered
  <2>4. \A t \in Held(run.book) : \E e \in run.left : orders'[e.for].ticker = t
    BY <1>1, <1>2, <2>3, CoverLasts
  <2>5. ~InRun'
    BY <2>1 DEF InRun
  <2> QED
    BY <1>5, <2>1, <2>4, <2>5, CoverParts
<1>11. CASE \/ SignalUnread \/ Signal \/ SubmitDone \/ Crash
            \/ \E t \in Tickers : Submit(t) \/ SubmitRefused(t)
  <2>1. UNCHANGED <<book, exitOrders>> /\ pc' \in {"idle", "submit"}
    BY <1>11, Submitting DEF SignalUnread, Signal, SubmitDone, Crash, laneVars
  <2>2. ~InRun'
    BY <2>1 DEF InRun
  <2> QED
    BY <1>6, <2>1, <2>2, CoverParts
<1>12. ASSUME NEW e \in run.exits,
              ExitUnread(e) \/ SettleExit(e) \/ RenewExit(e) \/ RenewRefused(e)
       PROVE  CoverInv'
  <2> DEFINE t == TickerOf(e)
             k == [e EXCEPT !.id = NextId]
             Y == run.exits \cup run.left
  <2>1. /\ e \in Exits /\ t \in Tickers /\ pc = "settle"
        /\ UNCHANGED <<book, exitOrders>>
    BY <1>12, Settling DEF laneVars
  <2>2. Covered(book, exitOrders)'
    BY <1>6, <2>1
  <2>3. Covered(run.book, Y) /\ Y \subseteq Exits
    BY <1>2, <1>3, <2>1 DEF InRun
  <2>4. \A u \in Held(run.book) : \E f \in Y : orders'[f.for].ticker = u
    BY <1>1, <2>3, CoverLasts
  <2>5. orders'[e.for].ticker = t
    BY <1>4, <2>1
  <2>6. \A u \in Held(run.book) \ {t} :
          \E f \in (run.exits \ {e}) \cup run.left : orders'[f.for].ticker = u
    <3>1. \A f \in Y : f # e => f \in (run.exits \ {e}) \cup run.left
      OBVIOUS
    <3> HIDE DEF t, Y
    <3> QED
      BY <2>4, <2>5, <3>1
  <2>7. k.for = e.for
    BY <2>1 DEF Exits, ExitEntry
  <2>8. \A u \in Held(run'.book) :
          \E f \in run'.exits \cup run'.left : orders'[f.for].ticker = u
    <3>1. CASE run.book[t] = 0 /\ Settles(e, {}, run.book)
      <4>1. t \notin Held(run.book)
        BY <3>1 DEF Held
      <4> QED
        BY <2>6, <3>1, <4>1 DEF Settles
    <3>2. CASE Settles(e, {}, [run.book EXCEPT ![t] = 0])
      <4>1. Held([run.book EXCEPT ![t] = 0]) \subseteq Held(run.book) \ {t}
        BY <1>2, <2>1 DEF Held
      <4> QED
        BY <2>6, <3>2, <4>1 DEF Settles
    <3>3. CASE Settles(e, {e}, run.book)
      <4>1. run'.exits \cup run'.left = Y \cup {e} /\ run'.book = run.book
        BY <3>3 DEF Settles
      <4> QED
        BY <2>4, <4>1
    <3>4. CASE Settles(e, {k}, run.book)
      <4>1. /\ run'.exits \cup run'.left = ((run.exits \ {e}) \cup run.left) \cup {k}
            /\ run'.book = run.book
        BY <3>4 DEF Settles
      <4>2. orders'[k.for].ticker = t
        BY <2>5, <2>7
      <4> HIDE DEF k, t
      <4> QED
        BY <2>6, <4>1, <4>2
    <3> QED
      BY <1>12, <3>1, <3>2, <3>3, <3>4, Settling
  <2> QED
    BY <1>5, <2>2, <2>8, CoverParts
<1>13. ASSUME NEW i \in run.entries,
              EntryUnread(i) \/ AbsorbFill(i) \/ AbsorbRefused(i) \/ AbsorbNone(i)
       PROVE  CoverInv'
  <2> DEFINE t == orders[i].ticker
             Y == run.exits \cup run.left
  <2>1. i \in Placed /\ pc = "absorb" /\ UNCHANGED <<book, exitOrders>>
    BY <1>13, Absorbing DEF laneVars
  <2>2. Covered(book, exitOrders)'
    BY <1>6, <2>1
  <2>3. Covered(run.book, Y) /\ Y \subseteq Exits
    BY <1>2, <1>3, <2>1 DEF InRun
  <2>4. \A u \in Held(run.book) : \E f \in Y : orders'[f.for].ticker = u
    BY <1>1, <2>3, CoverLasts
  <2>5. orders'[i].ticker = t /\ t \in Tickers
    BY <1>1, <2>1 DEF Lasting, TypeInv, OrdersOK, Order
  <2>6. ASSUME NEW x, NEW u, x.for = i, Absorbs(i, {x}, Bought(i), u)
        PROVE  \A v \in Held(run'.book) :
                 \E f \in run'.exits \cup run'.left : orders'[f.for].ticker = v
    <3>1. \A v \in Held(Bought(i)) : v = t \/ v \in Held(run.book)
      BY <1>2, <2>5 DEF Bought, Held
    <3>2. run'.book = Bought(i) /\ run'.exits \cup run'.left = Y \cup {x}
      BY <2>6 DEF Absorbs
    <3>3. orders'[x.for].ticker = t
      BY <2>5, <2>6
    <3> HIDE DEF t, Y
    <3> QED
      BY <2>4, <3>1, <3>2, <3>3
  <2>7. ASSUME NEW u, Absorbs(i, {}, run.book, u)
        PROVE  \A v \in Held(run'.book) :
                 \E f \in run'.exits \cup run'.left : orders'[f.for].ticker = v
    <3>1. run'.book = run.book /\ run'.exits \cup run'.left = Y
      BY <2>7 DEF Absorbs
    <3> QED
      BY <2>4, <3>1
  <2>8. \A v \in Held(run'.book) :
          \E f \in run'.exits \cup run'.left : orders'[f.for].ticker = v
    <3> DEFINE x(n) == [for |-> i, id |-> n]
    <3>1. x(0).for = i /\ x(NextId).for = i
      OBVIOUS
    <3>2. \/ \E u : Absorbs(i, {}, run.book, u)
          \/ Absorbs(i, {x(0)}, Bought(i), run.unread)
          \/ Absorbs(i, {x(NextId)}, Bought(i), run.unread)
      BY <1>13, Absorbing
    <3> HIDE DEF x
    <3> QED
      BY <2>6, <2>7, <3>1, <3>2
  <2> QED
    BY <1>5, <2>2, <2>8, CoverParts
<1> QED
  BY <1>7, <1>8, <1>9, <1>10, <1>11, <1>12, <1>13 DEF Next

\* _gapfade_settle_exits, _gapfade_absorb_entries: whatever dies between two
\* writes and whatever the venue refuses, a position of the stored book always
\* has an exit on the stored list that will be retried.
THEOREM PositionsHaveExits == Spec => []HeldHasExit
<1>1. Init => TypeInv /\ CoverInv
  <2>1. Init => CoverInv
    BY DEF Init, CoverInv, HeldHasExit, Held
  <2> QED
    BY <2>1, InitTypes
<1>2. TypeInv /\ CoverInv /\ [Next]_vars => (TypeInv /\ CoverInv)'
  BY StepTypes, CoverStep
<1>3. CoverInv => HeldHasExit
  BY DEF CoverInv
<1> QED
  BY <1>1, <1>2, <1>3, PTL DEF Spec

-----------------------------------------------------------------------------
(* An order that rests for the opening auction is one of today's.          *)

LEMMA RestingStep ==
  ASSUME TypeInv, RestingToday, [Next]_vars
  PROVE  RestingToday'
<1>1. RestingToday' <=>
        \A i \in Placed' : orders'[i].side = "buy" /\ orders'[i].status = "new"
                             => phase' = "pre" /\ orders'[i].day = day'
  BY DEF RestingToday, Resting
<1>2. RestingToday <=>
        \A i \in Placed : orders[i].side = "buy" /\ orders[i].status = "new"
                             => phase = "pre" /\ orders[i].day = day
  BY DEF RestingToday, Resting
<1>3. ASSUME UNCHANGED <<day, phase>>, UNCHANGED orders
      PROVE  RestingToday'
  BY <1>1, <1>2, <1>3, Rests
<1>4. ASSUME NEW t \in Tickers, NEW side \in {"buy", "sell"}, NEW q \in 1..Lot,
             Place(t, side, q)
      PROVE  RestingToday'
  <2>1. /\ Placed' = Placed \cup {NextId}
        /\ \A i \in Placed : orders'[i] = orders[i]
        /\ orders'[NextId] = NewOrder(t, side, q)
    BY <1>4, Grows
  <2>2. UNCHANGED <<day, phase>> /\ (side = "buy" => phase = "pre")
    BY <1>4 DEF Place
  <2>3. orders'[NextId].side = side /\ orders'[NextId].day = day
    BY <2>1 DEF NewOrder
  <2> QED
    BY <1>1, <1>2, <2>1, <2>2, <2>3
<1>5. CASE OpeningAuction
  <2>1. Auction("buy")
    BY <1>5 DEF OpeningAuction
  <2>2. /\ Placed' = Placed
        /\ \A i \in Placed \ Resting("buy") : orders'[i] = orders[i]
        /\ \A i \in Resting("buy") : orders'[i].status # "new"
    BY <2>1, Resolves
  <2> QED
    BY <1>1, <2>2 DEF Resting
<1>6. CASE ClosingAuction
  <2>1. Auction("sell") /\ phase = "session"
    BY <1>6 DEF ClosingAuction
  <2>2. /\ Placed' = Placed
        /\ \A i \in Placed \ Resting("sell") : orders'[i] = orders[i]
        /\ \A i \in Resting("sell") : orders'[i].status # "new"
    BY <2>1, Resolves
  <2>3. \A i \in Placed : ~(orders[i].side = "buy" /\ orders[i].status = "new")
    BY <1>2, <2>1
  <2> QED
    BY <1>1, <2>2, <2>3 DEF Resting
<1>7. CASE NextDay
  <2>1. phase = "closed" /\ UNCHANGED orders
    BY <1>7 DEF NextDay
  <2> QED
    BY <1>1, <1>2, <2>1, Rests
<1>8. CASE \/ Start \/ SettleDone \/ AbsorbDone \/ SignalUnread \/ Signal
           \/ SubmitDone \/ Crash \/ UNCHANGED vars
           \/ \E t \in Tickers : SubmitRefused(t)
  BY <1>3, <1>8 DEF Start, SettleDone, AbsorbDone, SignalUnread, Signal, SubmitDone, Crash,
     SubmitRefused, venueVars, vars
<1>9. CASE \E e \in run.exits :
             ExitUnread(e) \/ SettleExit(e) \/ RenewExit(e) \/ RenewRefused(e)
  <2>1. PICK e \in run.exits :
             ExitUnread(e) \/ SettleExit(e) \/ RenewExit(e) \/ RenewRefused(e)
    BY <1>9
  <2> DEFINE t == TickerOf(e)
             q == run.book[t]
  <2>2. /\ t \in Tickers /\ UNCHANGED <<day, phase>>
        /\ UNCHANGED orders \/ (q > 0 /\ Place(t, "sell", q))
    BY <2>1, Settling
  <2>3. q \in 0..Lot
    BY <2>2, Fields
  <2> HIDE DEF t, q
  <2>4. q > 0 => q \in 1..Lot
    BY <2>3, GapfadeAssumption DEF GapfadeAssumption
  <2> QED
    BY <1>3, <1>4, <2>2, <2>4
<1>10. CASE \E i \in run.entries :
             EntryUnread(i) \/ AbsorbFill(i) \/ AbsorbRefused(i) \/ AbsorbNone(i)
  <2>1. PICK i \in run.entries :
             EntryUnread(i) \/ AbsorbFill(i) \/ AbsorbRefused(i) \/ AbsorbNone(i)
    BY <1>10
  <2> DEFINE t == orders[i].ticker
             q == orders[i].filled
  <2>2. /\ i \in Placed /\ UNCHANGED <<day, phase>>
        /\ UNCHANGED orders \/ (q > 0 /\ Place(t, "sell", q))
    BY <2>1, Absorbing
  <2>3. q \in 0..Lot /\ t \in Tickers
    BY <2>2 DEF TypeInv, OrdersOK, Order
  <2> HIDE DEF t, q
  <2>4. q > 0 => q \in 1..Lot
    BY <2>3, GapfadeAssumption DEF GapfadeAssumption
  <2> QED
    BY <1>3, <1>4, <2>2, <2>3, <2>4
<1>11. CASE \E t \in Tickers : Submit(t)
  <2>1. Lot \in 1..Lot
    BY GapfadeAssumption DEF GapfadeAssumption
  <2> QED
    BY <1>4, <1>11, <2>1 DEF Submit
<1> QED
  BY <1>5, <1>6, <1>7, <1>8, <1>9, <1>10, <1>11 DEF Next

-----------------------------------------------------------------------------
(* One closing order at a time, as long as nothing fails.                  *)

\* The fits of the next state, of what the lists are then.
LEMMA Seen ==
  ASSUME TypeInv
  PROVE  /\ Outgoing \subseteq Exits /\ Incoming \subseteq Placed
         /\ DOMAIN orders = Placed /\ DOMAIN orders' = Placed'
BY Fields, TypeParts DEF Lists, Outgoing, Incoming, Placed

\* Orders that are added, or resolved, leave a fit that was there.
LEMMA FitsLast ==
  ASSUME TypeInv, OrdersOK', Lasting, NEW B, NEW X \in SUBSET Exits,
         NEW I \in SUBSET Placed,
         ExitsFit(orders, B, X), EntriesFit(orders, B, I),
         \A i \in Placed' : orders'[i].side = "sell" /\ orders'[i].status = "new"
                              => i \in Placed /\ orders[i].status = "new"
  PROVE  ExitsFit(orders', B, X) /\ EntriesFit(orders', B, I)
<1>1. \A i \in Placed : orders'[i].ticker = orders[i].ticker
                        /\ orders'[i].side = orders[i].side
  BY DEF Lasting
<1>2. \A e \in X : e.for \in Placed /\ e.id \in Placed \cup {0}
  BY DEF Exits
<1>3. \A e \in X : orders'[e.for].ticker = orders[e.for].ticker
  BY <1>1, <1>2
<1>4. \A e \in X : e.id # 0 => orders'[e.id].ticker = orders[e.id].ticker
  BY <1>1, <1>2
<1>5. \A i \in Placed' : orders'[i].side = "sell" /\ orders'[i].status = "new"
        => \E e \in X : e.id = i
  BY <1>1 DEF ExitsFit, Placed
<1>6. ExitsFit(orders', B, X)
  BY <1>3, <1>4, <1>5 DEF ExitsFit, Placed
<1>7. EntriesFit(orders', B, I)
  BY <1>1 DEF EntriesFit
<1> QED
  BY <1>6, <1>7

\* Without a new sell, the sells that rest were resting before.
LEMMA NoNewRest ==
  ASSUME TypeInv, \/ UNCHANGED orders
                  \/ Auction("buy") \/ Auction("sell")
                  \/ \E t \in Tickers : Place(t, "buy", Lot)
  PROVE  \A i \in Placed' : orders'[i].side = "sell" /\ orders'[i].status = "new"
                              => i \in Placed /\ orders[i].status = "new"
<1>1. CASE UNCHANGED orders
  BY <1>1, Rests
<1>2. CASE Auction("buy") \/ Auction("sell")
  BY <1>2, Resolves
<1>3. CASE \E t \in Tickers : Place(t, "buy", Lot)
  <2>1. PICK t \in Tickers : Place(t, "buy", Lot)
    BY <1>3
  <2>2. Lot \in 1..Lot
    BY GapfadeAssumption DEF GapfadeAssumption
  <2>3. /\ Placed' = Placed \cup {NextId} /\ orders'[NextId] = NewOrder(t, "buy", Lot)
        /\ \A i \in Placed : orders'[i] = orders[i]
    <3>1. "buy" \in {"buy", "sell"}
      OBVIOUS
    <3> QED
      BY <2>1, <2>2, <3>1, Grows
  <2> QED
    BY <2>3 DEF NewOrder
<1> QED
  BY <1>1, <1>2, <1>3

\* The lists of the lane stay the same in every step that neither settles nor
\* absorbs an entry, nor submits a pick.
LEMMA ListsLast ==
  ASSUME TypeInv, EntryInv, RestingToday, EntriesFit(orders, Book, Incoming), PhaseFit,
         \/ OpeningAuction \/ ClosingAuction \/ NextDay \/ UNCHANGED vars
         \/ Start \/ SettleDone \/ AbsorbDone \/ SignalUnread \/ Signal \/ SubmitDone
         \/ \E t \in Tickers : SubmitRefused(t)
  PROVE  /\ UNCHANGED orders \/ Auction("buy") \/ Auction("sell")
         /\ Book' = Book /\ Outgoing' = Outgoing /\ Incoming' = Incoming
         /\ PhaseFit'
<1>1. Stage /\ OrdersOK' /\ Lasting
  <2>1. Stage
    BY DEF TypeInv
  <2>2. [Next]_vars
    BY DEF Next
  <2> QED
    BY <2>1, <2>2, OrdersStep
<1>2. run.unread \subseteq Placed /\ entryOrders \subseteq Placed
  BY Fields, TypeParts DEF Lists
<1>3. CASE OpeningAuction \/ ClosingAuction \/ NextDay \/ UNCHANGED vars
  <2>1. /\ UNCHANGED <<laneVars, pc, run>>
        /\ pc = "idle" \/ day' = day
        /\ UNCHANGED orders \/ Auction("buy") \/ Auction("sell")
    BY <1>3 DEF OpeningAuction, ClosingAuction, NextDay, vars, venueVars
  <2>2. Book' = Book /\ Outgoing' = Outgoing /\ Incoming' = Incoming
    BY <2>1 DEF Book, Outgoing, Incoming, InRun, laneVars
  <2>3. \A i \in run.unread : orders'[i].day = orders[i].day
                              /\ orders'[i].ticker = orders[i].ticker
    BY <1>1, <1>2 DEF Lasting
  <2>4. PhaseFit'
    BY <2>1, <2>3 DEF PhaseFit, laneVars
  <2> QED
    BY <2>1, <2>2, <2>4
<1>4. CASE Start
  <2>1. /\ UNCHANGED orders /\ run'.book = book /\ run'.exits = exitOrders
        /\ run'.left = {} /\ run'.entries = {} /\ run'.unread = {}
    BY <1>4, Starting
  <2>2. pc = "idle" /\ pc' = "settle" /\ UNCHANGED laneVars
    BY <1>4 DEF Start
  <2>3. Book' = Book /\ Outgoing' = Outgoing /\ Incoming' = Incoming
    BY <2>1, <2>2 DEF Book, Outgoing, Incoming, InRun, laneVars
  <2>4. PhaseFit'
    BY <2>1, <2>2 DEF PhaseFit
  <2> QED
    BY <2>1, <2>3, <2>4
<1>5. CASE SettleDone
  <2>1. /\ UNCHANGED orders
        /\ run'.book = run.book /\ run'.exits = run.exits /\ run'.left = run.left
        /\ run'.entries = entryOrders /\ run'.unread = run.unread
    BY <1>5, Reading
  <2>2. pc = "settle" /\ pc' = "absorb" /\ UNCHANGED entryOrders /\ run.unread = {}
    BY <1>1, <1>5 DEF SettleDone, Stage
  <2>3. Book' = Book /\ Outgoing' = Outgoing /\ Incoming' = Incoming
    BY <2>1, <2>2 DEF Book, Outgoing, Incoming, InRun
  <2>4. PhaseFit'
    BY <2>1, <2>2 DEF PhaseFit
  <2> QED
    BY <2>1, <2>3, <2>4
<1>6. CASE AbsorbDone
  <2>1. /\ UNCHANGED orders /\ UNCHANGED <<day, marker>>
        /\ pc = "absorb" /\ run.entries = {} /\ run.exits = {}
        /\ book' = run.book /\ entryOrders' = run.unread /\ exitOrders' = run.left
    BY <1>1, <1>6 DEF AbsorbDone, Stage, venueVars
  <2>2. \/ pc' = "signal" /\ run' = run /\ marker # day
        \/ pc' = "idle"
    BY <1>6 DEF AbsorbDone, SignalDue
  <2>3. Book' = Book /\ Outgoing' = Outgoing /\ Incoming' = Incoming
    BY <2>1, <2>2 DEF Book, Outgoing, Incoming, InRun
  <2>4. marker # day => run.unread = {}
    <3>1. \A i \in run.unread : i \in Buys /\ orders[i].day = day
      BY <1>2, <2>1 DEF PhaseFit, EntriesFit, Incoming, Buys
    <3>2. \A i \in run.unread : day <= marker
      BY <3>1 DEF EntryInv
    <3>3. day \in Nat /\ marker \in Nat /\ marker <= day
      BY TypeParts, GapfadeAssumption DEF GapfadeAssumption, Lists, EntryInv
    <3> QED
      BY <3>2, <3>3
  <2>5. PhaseFit'
    BY <2>2, <2>4 DEF PhaseFit
  <2> QED
    BY <2>1, <2>3, <2>5
<1>7. CASE SignalUnread
  <2>1. /\ UNCHANGED orders /\ UNCHANGED laneVars /\ pc = "signal" /\ pc' = "idle"
        /\ run.entries = {} /\ entryOrders = run.unread
    BY <1>1, <1>7 DEF SignalUnread, Stage, venueVars
  <2>2. Book' = Book /\ Outgoing' = Outgoing /\ Incoming' = Incoming
    BY <2>1 DEF Book, Outgoing, Incoming, InRun, laneVars
  <2> QED
    BY <2>1, <2>2 DEF PhaseFit
<1>8. CASE Signal
  <2>1. /\ pc = "signal" /\ pc' = "submit" /\ UNCHANGED <<book, exitOrders>>
        /\ run.book = book /\ run.unread = {}
    BY <1>1, <1>8 DEF Signal, Stage, PhaseFit
  <2>2. /\ UNCHANGED orders
        /\ run'.entries = run.entries /\ run'.unread = run.unread
        /\ \A t \in run'.picks : t \notin Held(book) /\ t \in Tickers
    <3>1. /\ UNCHANGED orders /\ run' \in Memories'
          /\ run'.entries = run.entries /\ run'.unread = run.unread
          /\ \A t \in run'.picks : t \notin Held(run.book)
      BY <1>8, Picking
    <3>2. run'.picks \subseteq Tickers
      BY <3>1 DEF Memories
    <3> QED
      BY <2>1, <3>1, <3>2
  <2>3. Book' = Book /\ Outgoing' = Outgoing /\ Incoming' = Incoming
    BY <2>1, <2>2 DEF Book, Outgoing, Incoming, InRun
  <2>4. \A t \in run'.picks : book'[t] = 0
    <3>1. \A t \in Tickers : book[t] \in 0..Lot /\ Lot \in Nat
      BY TypeParts, GapfadeAssumption DEF GapfadeAssumption, Lists
    <3>2. \A t \in Tickers : t \notin Held(book) => book[t] = 0
      BY <3>1 DEF Held
    <3> QED
      BY <2>1, <2>2, <3>2
  <2>5. PhaseFit'
    BY <2>1, <2>2, <2>4 DEF PhaseFit
  <2> QED
    BY <2>2, <2>3, <2>5
<1>9. CASE SubmitDone
  <2>1. /\ UNCHANGED orders /\ UNCHANGED <<book, exitOrders>>
        /\ pc = "submit" /\ pc' = "idle"
        /\ run.entries = {} /\ entryOrders' = run.unread
    BY <1>1, <1>9 DEF SubmitDone, Stage, venueVars
  <2>2. Book' = Book /\ Outgoing' = Outgoing /\ Incoming' = Incoming
    BY <2>1 DEF Book, Outgoing, Incoming, InRun
  <2> QED
    BY <2>1, <2>2 DEF PhaseFit
<1>10. CASE \E t \in Tickers : SubmitRefused(t)
  <2>1. PICK t \in Tickers : SubmitRefused(t)
    BY <1>10
  <2>2. /\ UNCHANGED orders /\ run' = [run EXCEPT !.picks = @ \ {t}]
    BY <2>1 DEF SubmitRefused, venueVars
  <2>3. /\ pc = "submit" /\ pc' = pc /\ UNCHANGED laneVars
        /\ run'.entries = run.entries /\ run'.picks = run.picks \ {t}
    BY <2>1, Submitting
  <2>4. run'.unread = run.unread
    BY <2>2 DEF TypeInv, Memories
  <2>5. Book' = Book /\ Outgoing' = Outgoing /\ Incoming' = Incoming
    BY <2>3, <2>4 DEF Book, Outgoing, Incoming, InRun, laneVars
  <2>6. PhaseFit'
    BY <2>2, <2>3, <2>4 DEF PhaseFit, laneVars
  <2> QED
    BY <2>2, <2>5, <2>6
<1> QED
  BY <1>3, <1>4, <1>5, <1>6, <1>7, <1>8, <1>9, <1>10

\* The exits Y are those of X that are not of ticker t, and every sell that
\* rests is among them still.
Others(Y, X, C, t) ==
  /\ \A f \in Y : f \in X /\ orders[f.for].ticker # t /\ C[orders[f.for].ticker] > 0
  /\ \A f \in X : f \notin Y => \A i \in Placed :
                      i = f.id => orders[i].status # "new"

\* Whose closing order rests: a fit gains the new sell q of ticker t with its
\* exit entry x, once every other exit is of another ticker.
LEMMA SellFits ==
  ASSUME TypeInv, NEW t \in Tickers, NEW q \in 1..Lot, Place(t, "sell", q),
         NEW B, NEW C, NEW X \in SUBSET Exits, ExitsFit(orders, B, X), NEW Y, NEW x,
         x.for \in Placed, orders[x.for].ticker = t, x.id = NextId, C[t] > 0,
         Others(Y, X, C, t)
  PROVE  ExitsFit(orders', C, Y \cup {x})
<1>1. /\ NextId \notin Placed /\ Placed' = Placed \cup {NextId}
      /\ \A i \in Placed : orders'[i] = orders[i]
      /\ orders'[NextId] = NewOrder(t, "sell", q)
  <2>1. "sell" \in {"buy", "sell"}
    OBVIOUS
  <2> QED
    BY <2>1, Grows
<1>2. \A f \in Y : f.for \in Placed /\ f.id \in Placed \cup {0}
  BY DEF Exits, Others
<1>3. \A f \in Y : /\ orders'[f.for] = orders[f.for]
                   /\ f.id # 0 => orders'[f.id] = orders[f.id]
  BY <1>1, <1>2
<1>4. orders'[x.for].ticker = t /\ orders'[x.id].ticker = t
  BY <1>1 DEF NewOrder
<1>5. ASSUME NEW i \in Placed', orders'[i].side = "sell", orders'[i].status = "new"
      PROVE  \E e \in Y \cup {x} : e.id = i
  <2>1. CASE i = NextId
    BY <2>1
  <2>2. CASE i \in Placed
    <3>1. orders[i].side = "sell" /\ orders[i].status = "new"
      BY <1>1, <1>5, <2>2
    <3>2. PICK f \in X : f.id = i
      BY <2>2, <3>1 DEF ExitsFit, Placed
    <3>3. f \in Y
      BY <2>2, <3>1, <3>2 DEF Others
    <3> QED
      BY <3>2, <3>3
  <2> QED
    BY <1>1, <2>1, <2>2
<1>6. ASSUME NEW e \in Y \cup {x}
      PROVE  /\ C[orders'[e.for].ticker] > 0
             /\ e.id # 0 => orders'[e.id].ticker = orders'[e.for].ticker
  <2>1. CASE e = x
    BY <1>4, <2>1
  <2>2. CASE e \in Y
    <3>1. e.id # 0 => orders[e.id].ticker = orders[e.for].ticker
      BY <2>2 DEF ExitsFit, Others
    <3>2. C[orders[e.for].ticker] > 0
      BY <2>2 DEF Others
    <3>3. orders'[e.for] = orders[e.for] /\ (e.id # 0 => orders'[e.id] = orders[e.id])
      BY <1>3, <2>2
    <3>4. C[orders'[e.for].ticker] > 0
      BY <3>2, <3>3
    <3> QED
      BY <3>1, <3>3, <3>4
  <2> QED
    BY <2>1, <2>2
<1>7. ASSUME NEW e \in Y \cup {x}, NEW f \in Y \cup {x},
             orders'[e.for].ticker = orders'[f.for].ticker
      PROVE  e = f
  <2>1. CASE e \in Y /\ f \in Y
    BY <1>3, <1>7, <2>1 DEF ExitsFit, Others
  <2>2. CASE e = x /\ f \in Y
    BY <1>3, <1>4, <1>7, <2>2 DEF Others
  <2>3. CASE e \in Y /\ f = x
    BY <1>3, <1>4, <1>7, <2>3 DEF Others
  <2> QED
    BY <2>1, <2>2, <2>3
<1> QED
  BY <1>1, <1>5, <1>6, <1>7 DEF ExitsFit, Placed

LEMMA SettlingFits ==
  ASSUME TypeInv, NEW e \in run.exits,
         ExitUnread(e) \/ SettleExit(e) \/ RenewExit(e) \/ RenewRefused(e),
         ExitsFit(orders, Book, Outgoing), EntriesFit(orders, Book, Incoming), PhaseFit
  PROVE  /\ ExitsFit(orders', Book', Outgoing') /\ EntriesFit(orders', Book', Incoming')
         /\ PhaseFit'
<1> DEFINE t == TickerOf(e)
           k == [e EXCEPT !.id = NextId]
           X == run.exits \cup run.left
           B == run.book
           I == entryOrders
<1>1. /\ e \in Exits /\ t \in Tickers /\ pc = "settle" /\ pc' = pc
      /\ OrdersOK' /\ Lasting /\ UNCHANGED laneVars
  BY Settling
<1>2. /\ Book = B /\ Outgoing = X /\ Incoming = I
      /\ Book' = run'.book /\ Outgoing' = run'.exits \cup run'.left /\ Incoming' = I
  BY <1>1 DEF Book, Outgoing, Incoming, InRun, laneVars
<1>3. run.exits \cap run.left = {} /\ X \in SUBSET Exits /\ I \in SUBSET Placed
      /\ B \in [Tickers -> 0..Lot] /\ e \in X
  BY <1>1, Fields, TypeParts DEF PhaseFit, Lists
<1>4. ExitsFit(orders, B, X) /\ EntriesFit(orders, B, I)
  BY <1>2
<1>5. orders[e.for].ticker = t
  BY DEF TickerOf
<1>6. B[t] > 0 /\ \A f \in X : orders[f.for].ticker = t => f = e
  BY <1>3, <1>4, <1>5 DEF ExitsFit
<1>7. \A f \in X : f.id \in Placed \cup {0} /\ f.for \in Placed
  BY <1>3 DEF Exits
<1>8. X \ {e} = (run.exits \ {e}) \cup run.left
  BY <1>3
<1>9. 0 \notin Placed
  BY DEF TypeInv, OrdersOK, Ids
<1> HIDE DEF X, B, I, t, k
<1>10. CASE UNCHANGED orders /\ Settles(e, {}, [B EXCEPT ![t] = 0]) /\ IsSold(e)
  <2> DEFINE C == [B EXCEPT ![t] = 0]
             Y == X \ {e}
  <2>1. Book' = C /\ Outgoing' = Y /\ run'.exits \cap run'.left = {}
    BY <1>2, <1>3, <1>8, <1>10 DEF Settles
  <2>2. /\ C[t] = 0
        /\ \A u \in Tickers \ {t} : C[u] = B[u]
    BY <1>1, <1>3
  <2>3. \A f \in Y : orders[f.for].ticker \in Tickers \ {t}
    BY <1>6, <1>7 DEF TypeInv, OrdersOK, Order
  <2>4. e.id \in Placed /\ orders[e.id].status # "new"
    <3>1. e.id # 0 /\ orders[e.id].filled > 0
      BY <1>10 DEF IsSold
    <3>2. e.id \in Placed
      BY <1>3, <1>7, <3>1
    <3> QED
      BY <3>1, <3>2 DEF TypeInv, OrdersOK
  <2> HIDE DEF C
  <2>5. ExitsFit(orders, C, Y)
    <3>1. \A i \in Placed : orders[i].side = "sell" /\ orders[i].status = "new"
            => \E f \in Y : f.id = i
      BY <1>4, <2>4 DEF ExitsFit, Placed
    <3>2. \A f \in Y : /\ C[orders[f.for].ticker] > 0
                       /\ f.id # 0 => orders[f.id].ticker = orders[f.for].ticker
      BY <1>4, <2>2, <2>3 DEF ExitsFit
    <3> QED
      BY <1>4, <3>1, <3>2 DEF ExitsFit, Placed
  <2>6. EntriesFit(orders, C, I)
    <3>1. \A i \in I : orders[i].ticker \in Tickers
      BY <1>3 DEF TypeInv, OrdersOK, Order
    <3>2. \A i \in I : C[orders[i].ticker] = 0
      BY <1>4, <2>2, <3>1 DEF EntriesFit
    <3> QED
      BY <1>4, <3>2 DEF EntriesFit
  <2>7. PhaseFit'
    BY <1>1, <2>1 DEF PhaseFit
  <2> QED
    BY <1>2, <1>10, <2>1, <2>5, <2>6, <2>7
<1>11. CASE UNCHANGED orders /\ Settles(e, {e}, B)
  <2>1. Book' = B /\ Outgoing' = X /\ run'.exits \cap run'.left = {}
    BY <1>2, <1>3, <1>8, <1>11 DEF Settles
  <2>2. PhaseFit'
    BY <1>1, <2>1 DEF PhaseFit
  <2> QED
    BY <1>2, <1>4, <1>11, <2>1, <2>2
<1>12. CASE IsDead(e) /\ Place(t, "sell", B[t]) /\ Settles(e, {k}, B)
  <2> DEFINE Y == X \ {e}
             q == B[t]
  <2>1. /\ Book' = B /\ Outgoing' = Y \cup {k}
        /\ run'.exits = run.exits \ {e} /\ run'.left = run.left \cup {k}
    BY <1>2, <1>8, <1>12 DEF Settles
  <2>2. k.for = e.for /\ k.id = NextId
    BY <1>1 DEF k, Exits, ExitEntry
  <2>3. q \in 0..Lot /\ q > 0
    BY <1>1, <1>3, <1>6
  <2>4. \A i \in Placed : i = e.id => orders[i].status # "new"
    BY <1>9, <1>12 DEF IsDead
  <2>5. \A f \in Y : f \in X /\ orders[f.for].ticker # t
    BY <1>6
  <2> HIDE DEF q
  <2>6. q \in 1..Lot /\ Place(t, "sell", q)
    BY <1>12, <2>3, GapfadeAssumption DEF GapfadeAssumption, q
  <2>7. B[t] > 0 /\ k.for \in Placed /\ orders[k.for].ticker = t
    BY <1>3, <1>5, <1>6, <1>7, <2>2
  <2>8. Others(Y, X, B, t)
    <3>1. \A f \in Y : B[orders[f.for].ticker] > 0
      BY <1>4 DEF ExitsFit
    <3> QED
      BY <2>4, <2>5, <3>1 DEF Others
  <2> HIDE DEF Y
  <2>9. ExitsFit(orders', B, Y \cup {k})
    <3>1. /\ t \in Tickers /\ X \in SUBSET Exits /\ ExitsFit(orders, B, X)
          /\ k.id = NextId
      BY <1>1, <1>3, <1>4, <2>2
    <3> QED
      BY <2>6, <2>7, <2>8, <3>1, SellFits
  <2>10. EntriesFit(orders', B, I)
    <3>1. \A i \in I : orders'[i].ticker = orders[i].ticker
                       /\ orders'[i].side = orders[i].side
      BY <1>1, <1>3 DEF Lasting
    <3> QED
      BY <1>4, <3>1 DEF EntriesFit
  <2>11. run'.exits \cap run'.left = {}
    <3>1. k \in run.exits => k = e
      <4>1. k \in run.exits => k \in X
        BY DEF X
      <4> QED
        BY <1>6, <2>7, <4>1
    <3> QED
      BY <1>3, <2>1, <3>1
  <2>12. PhaseFit'
    BY <1>1, <2>11 DEF PhaseFit
  <2> QED
    BY <1>2, <2>1, <2>9, <2>10, <2>12
<1>13. \/ UNCHANGED orders /\ B[t] = 0
       \/ UNCHANGED orders /\ Settles(e, {}, [B EXCEPT ![t] = 0]) /\ IsSold(e)
       \/ UNCHANGED orders /\ Settles(e, {e}, B)
       \/ IsDead(e) /\ Place(t, "sell", B[t]) /\ Settles(e, {k}, B)
  BY Settling DEF B, t, k
<1> QED
  BY <1>3, <1>1, <1>6, <1>10, <1>11, <1>12, <1>13

LEMMA AbsorbingFits ==
  ASSUME TypeInv, RestingToday, NEW i \in run.entries,
         EntryUnread(i) \/ AbsorbFill(i) \/ AbsorbRefused(i) \/ AbsorbNone(i),
         faults' = faults,
         ExitsFit(orders, Book, Outgoing), EntriesFit(orders, Book, Incoming), PhaseFit
  PROVE  /\ ExitsFit(orders', Book', Outgoing') /\ EntriesFit(orders', Book', Incoming')
         /\ PhaseFit'
<1> DEFINE t == orders[i].ticker
           X == run.exits \cup run.left
           B == run.book
           I == run.entries \cup run.unread
           C == [B EXCEPT ![t] = orders[i].filled]
           x(n) == [for |-> i, id |-> n]
<1>1. /\ i \in Placed /\ pc = "absorb" /\ pc' = pc
      /\ OrdersOK' /\ Lasting /\ UNCHANGED <<day, laneVars>>
  BY Absorbing
<1>2. /\ Book = B /\ Outgoing = X /\ Incoming = I
      /\ Book' = run'.book /\ Outgoing' = run'.exits \cup run'.left
      /\ Incoming' = run'.entries \cup run'.unread
  BY <1>1 DEF Book, Outgoing, Incoming, InRun
<1>3. /\ X \in SUBSET Exits /\ I \in SUBSET Placed /\ B \in [Tickers -> 0..Lot] /\ i \in I
      /\ run.entries \cap run.unread = {}
  BY <1>1, Fields DEF TypeInv, Stage
<1>4. ExitsFit(orders, B, X) /\ EntriesFit(orders, B, I)
  BY <1>2
<1>5. orders[i] \in Order
  BY <1>1 DEF TypeInv, OrdersOK
<1>6. t \in Tickers /\ orders[i].filled \in 0..Lot
  BY <1>5 DEF Order
<1>7. orders[i].side = "buy" /\ B[t] = 0 /\ \A j \in I : orders[j].ticker = t => j = i
  BY <1>3, <1>4 DEF EntriesFit
<1>8. \A j \in run.unread : orders[j].day = day
  BY <1>1 DEF PhaseFit
<1>9. \A f \in X : orders[f.for].ticker # t /\ orders[f.for].ticker \in Tickers
  <2>1. \A f \in X : B[orders[f.for].ticker] > 0 /\ f.for \in Placed
    BY <1>3, <1>4 DEF ExitsFit, Exits
  <2>2. \A j \in Placed : orders[j].ticker \in Tickers
    BY DEF TypeInv, OrdersOK, Order
  <2> QED
    BY <1>7, <2>1, <2>2
<1>10. Bought(i) = C
  BY <1>3, <1>6, <1>7 DEF Bought
<1>11. C[t] = orders[i].filled /\ \A u \in Tickers \ {t} : C[u] = B[u]
  BY <1>3, <1>6
<1>12. \A j \in I : orders[j].ticker \in Tickers
  BY <1>3 DEF TypeInv, OrdersOK, Order
<1>13. /\ (run.entries \ {i}) \cup run.unread = I \ {i}
       /\ (run.entries \ {i}) \cup (run.unread \cup {i}) = I
  BY <1>3
<1> HIDE DEF t, X, B, I, C, x
<1>14. CASE UNCHANGED orders /\ orders[i].status = "new"
            /\ Absorbs(i, {}, B, run.unread \cup {i})
  <2>1. Book' = B /\ Outgoing' = X /\ Incoming' = I /\ run'.unread = run.unread \cup {i}
    BY <1>2, <1>13, <1>14 DEF Absorbs, X
  <2>2. orders[i].day = day
    BY <1>1, <1>7, <1>14 DEF RestingToday, Resting
  <2>3. PhaseFit'
    BY <1>1, <1>8, <1>14, <2>1, <2>2 DEF PhaseFit
  <2> QED
    BY <1>4, <1>14, <2>1, <2>3
<1>15. CASE UNCHANGED orders /\ Absorbs(i, {}, B, run.unread)
  <2>1. Book' = B /\ Outgoing' = X /\ Incoming' = I \ {i} /\ run'.unread = run.unread
    BY <1>2, <1>13, <1>15 DEF Absorbs, X
  <2>2. EntriesFit(orders, B, I \ {i})
    BY <1>4 DEF EntriesFit
  <2>3. PhaseFit'
    BY <1>1, <1>8, <1>15, <2>1 DEF PhaseFit
  <2> QED
    BY <1>4, <1>15, <2>1, <2>2, <2>3
<1>16. EntriesFit(orders', C, I \ {i})
  <2>1. \A j \in I \ {i} : orders'[j].ticker = orders[j].ticker
                           /\ orders'[j].side = orders[j].side
    BY <1>1, <1>3 DEF Lasting
  <2>2. \A j \in I \ {i} : C[orders[j].ticker] = 0
    BY <1>4, <1>7, <1>11, <1>12 DEF EntriesFit
  <2> QED
    BY <1>4, <2>1, <2>2 DEF EntriesFit
<1>17. ASSUME NEW n, Absorbs(i, {x(n)}, Bought(i), run.unread)
       PROVE  /\ Book' = C /\ Outgoing' = X \cup {x(n)} /\ Incoming' = I \ {i}
              /\ PhaseFit'
  <2>1. /\ Book' = C /\ Outgoing' = X \cup {x(n)} /\ Incoming' = I \ {i}
        /\ run'.unread = run.unread
    BY <1>2, <1>10, <1>13, <1>17 DEF Absorbs, X
  <2>2. run.unread \subseteq Placed
    BY Fields
  <2>3. \A j \in run.unread : orders'[j].day = day'
    BY <1>1, <1>8, <2>2 DEF Lasting
  <2>4. PhaseFit'
    BY <1>1, <2>1, <2>3 DEF PhaseFit
  <2> QED
    BY <2>1, <2>4
<1>18. CASE UNCHANGED orders /\ orders[i].filled > 0
            /\ Absorbs(i, {x(0)}, Bought(i), run.unread)
  <2>1. /\ Book' = C /\ Outgoing' = X \cup {x(0)} /\ Incoming' = I \ {i} /\ PhaseFit'
    BY <1>17, <1>18
  <2>2. x(0).for = i /\ x(0).id = 0
    BY DEF x
  <2> DEFINE k == x(0)
  <2> HIDE DEF k
  <2>3. k.for = i /\ k.id = 0
    BY <2>2 DEF k
  <2>4. ExitsFit(orders, C, X \cup {k})
    <3>1. \A j \in Placed : orders[j].side = "sell" /\ orders[j].status = "new"
            => \E e \in X \cup {k} : e.id = j
      BY <1>4 DEF ExitsFit, Placed
    <3>2. \A e \in X : /\ C[orders[e.for].ticker] > 0
                       /\ e.id # 0 => orders[e.id].ticker = orders[e.for].ticker
      BY <1>4, <1>9, <1>11 DEF ExitsFit
    <3>3. C[orders[k.for].ticker] > 0
      BY <1>11, <1>18, <2>3 DEF t
    <3>4. \A e, f \in X \cup {k} : orders[e.for].ticker = orders[f.for].ticker => e = f
      <4>1. orders[k.for].ticker = t
        BY <2>3 DEF t
      <4>2. \A e, f \in X : orders[e.for].ticker = orders[f.for].ticker => e = f
        BY <1>4 DEF ExitsFit
      <4> QED
        BY <1>9, <4>1, <4>2
    <3> QED
      BY <2>3, <3>1, <3>2, <3>3, <3>4 DEF ExitsFit, Placed
  <2> QED
    BY <1>16, <1>18, <2>1, <2>4 DEF k
<1>19. CASE Place(t, "sell", orders[i].filled) /\ orders[i].filled > 0
            /\ Absorbs(i, {x(NextId)}, Bought(i), run.unread)
  <2> DEFINE k == x(NextId)
             q == orders[i].filled
  <2>1. /\ Book' = C /\ Outgoing' = X \cup {k} /\ Incoming' = I \ {i} /\ PhaseFit'
    BY <1>17, <1>19
  <2>2. k.for \in Placed /\ orders[k.for].ticker = t /\ k.id = NextId
    BY <1>1 DEF x, t
  <2>3. q \in 0..Lot /\ q > 0 /\ Place(t, "sell", q) /\ C[t] = q
    BY <1>6, <1>11, <1>19
  <2> HIDE DEF q, k
  <2>4. q \in 1..Lot /\ Place(t, "sell", q) /\ C[t] > 0
    BY <2>3, GapfadeAssumption DEF GapfadeAssumption
  <2>5. Others(X, X, C, t)
    <3>1. \A f \in X : C[orders[f.for].ticker] > 0
      BY <1>4, <1>9, <1>11 DEF ExitsFit
    <3> QED
      BY <1>9, <3>1 DEF Others
  <2>6. t \in Tickers /\ X \in SUBSET Exits /\ ExitsFit(orders, B, X)
    BY <1>3, <1>4, <1>6
  <2>7. ExitsFit(orders', C, X \cup {k})
    BY <2>2, <2>4, <2>5, <2>6, SellFits
  <2> QED
    BY <1>16, <2>1, <2>7
<1>20. \/ UNCHANGED orders /\ orders[i].status = "new"
          /\ Absorbs(i, {}, B, run.unread \cup {i})
       \/ UNCHANGED orders /\ Absorbs(i, {}, B, run.unread)
       \/ /\ UNCHANGED orders /\ orders[i].filled > 0
          /\ Absorbs(i, {x(0)}, Bought(i), run.unread)
       \/ /\ Place(t, "sell", orders[i].filled) /\ orders[i].filled > 0
          /\ Absorbs(i, {x(NextId)}, Bought(i), run.unread)
  <2>1. faults' # faults + 1
    BY TypeParts, GapfadeAssumption DEF GapfadeAssumption, Lists
  <2> QED
    BY <2>1, Absorbing DEF B, t, x
<1> QED
  BY <1>14, <1>15, <1>18, <1>19, <1>20

LEMMA SubmitFits ==
  ASSUME TypeInv, NEW t \in Tickers, Submit(t),
         ExitsFit(orders, Book, Outgoing), EntriesFit(orders, Book, Incoming), PhaseFit
  PROVE  /\ ExitsFit(orders', Book', Outgoing') /\ EntriesFit(orders', Book', Incoming')
         /\ PhaseFit'
<1>1. /\ pc = "submit" /\ pc' = pc /\ t \in run.picks /\ UNCHANGED laneVars
      /\ OrdersOK' /\ Lasting
      /\ run'.entries = run.entries /\ run'.picks = run.picks \ {t}
  BY Submitting
<1>2. Place(t, "buy", Lot) /\ run' = [run EXCEPT !.picks = @ \ {t}, !.unread = @ \cup {NextId}]
  BY DEF Submit
<1>3. run'.unread = run.unread \cup {NextId}
  BY <1>2 DEF TypeInv, Memories
<1>4. /\ NextId \notin Placed /\ Placed' = Placed \cup {NextId}
      /\ \A i \in Placed : orders'[i] = orders[i]
      /\ orders'[NextId] = NewOrder(t, "buy", Lot)
  <2>1. "buy" \in {"buy", "sell"} /\ Lot \in 1..Lot
    BY GapfadeAssumption DEF GapfadeAssumption
  <2> QED
    BY <1>2, <2>1, Grows
<1>5. run.entries = {} /\ run.unread \subseteq Placed
  BY <1>1, Fields DEF TypeInv, Stage
<1>6. /\ Book' = book /\ Outgoing' = exitOrders /\ Incoming' = run.unread \cup {NextId}
      /\ Book = book /\ Outgoing = exitOrders /\ Incoming = run.unread
  BY <1>1, <1>3, <1>5 DEF Book, Outgoing, Incoming, InRun, laneVars
<1>7. ExitsFit(orders', book, exitOrders) /\ EntriesFit(orders', book, run.unread)
  <2>1. \A i \in Placed' : orders'[i].side = "sell" /\ orders'[i].status = "new"
                              => i \in Placed /\ orders[i].status = "new"
    BY <1>2, NoNewRest
  <2>2. exitOrders \in SUBSET Exits /\ run.unread \in SUBSET Placed
    BY <1>5, TypeParts DEF Lists
  <2>3. ExitsFit(orders, book, exitOrders) /\ EntriesFit(orders, book, run.unread)
    BY <1>6
  <2> QED
    BY <1>1, <2>1, <2>2, <2>3, FitsLast
<1>8. /\ \A i \in run.unread : orders'[i].ticker \notin run.picks
      /\ \A u \in run.picks : book[u] = 0
  BY <1>1, <1>4, <1>5 DEF PhaseFit
<1>9. orders'[NextId].ticker = t /\ orders'[NextId].side = "buy"
  BY <1>4 DEF NewOrder
<1>10. EntriesFit(orders', book, run.unread \cup {NextId})
  <2>1. \A i \in run.unread : orders'[i].ticker # t
    BY <1>1, <1>8
  <2>2. book[t] = 0
    BY <1>1, <1>8
  <2> QED
    BY <1>7, <1>9, <2>1, <2>2 DEF EntriesFit
<1>11. PhaseFit'
  <2>1. \A i \in run'.unread : orders'[i].ticker \notin run'.picks
    BY <1>1, <1>3, <1>8, <1>9
  <2>2. \A u \in run'.picks : book'[u] = 0
    BY <1>1, <1>8 DEF laneVars
  <2> QED
    BY <1>1, <2>1, <2>2 DEF PhaseFit
<1> QED
  BY <1>6, <1>7, <1>10, <1>11

LEMMA SoleStep ==
  ASSUME TypeInv, EntryInv, SoleInv, [Next]_vars
  PROVE  SoleInv'
<1>1. OrdersOK' /\ Lasting /\ RestingToday /\ RestingToday'
  BY OrdersStep, RestingStep DEF SoleInv
<1>2. SUFFICES ASSUME faults' = 0
               PROVE  /\ ExitsFit(orders', Book', Outgoing')
                      /\ EntriesFit(orders', Book', Incoming')
                      /\ PhaseFit'
  BY <1>1 DEF SoleInv
<1>3. faults \in Nat
  BY TypeParts, GapfadeAssumption DEF GapfadeAssumption, Lists
<1>4. CASE \/ OpeningAuction \/ ClosingAuction \/ NextDay \/ UNCHANGED vars
           \/ Start \/ SettleDone \/ AbsorbDone \/ SignalUnread \/ Signal \/ SubmitDone
           \/ \E t \in Tickers : SubmitRefused(t)
  <2>1. faults = 0
    BY <1>2, <1>4 DEF OpeningAuction, ClosingAuction, NextDay, vars, Start, SettleDone,
       AbsorbDone, SignalUnread, Signal, SubmitDone, SubmitRefused
  <2>2. ExitsFit(orders, Book, Outgoing) /\ EntriesFit(orders, Book, Incoming) /\ PhaseFit
    BY <2>1 DEF SoleInv
  <2>3. /\ UNCHANGED orders \/ Auction("buy") \/ Auction("sell")
        /\ Book' = Book /\ Outgoing' = Outgoing /\ Incoming' = Incoming
        /\ PhaseFit'
    BY <1>1, <1>4, <2>2, ListsLast
  <2>4. \A i \in Placed' : orders'[i].side = "sell" /\ orders'[i].status = "new"
                              => i \in Placed /\ orders[i].status = "new"
    BY <2>3, NoNewRest
  <2>5. Outgoing \in SUBSET Exits /\ Incoming \in SUBSET Placed
    BY Seen
  <2>6. ExitsFit(orders', Book, Outgoing) /\ EntriesFit(orders', Book, Incoming)
    BY <1>1, <2>2, <2>4, <2>5, FitsLast
  <2> QED
    BY <2>3, <2>6
<1>5. CASE Crash
  BY <1>2, <1>3, <1>5 DEF Crash
<1>6. CASE \E e \in run.exits :
             ExitUnread(e) \/ SettleExit(e) \/ RenewExit(e) \/ RenewRefused(e)
  <2>1. PICK e \in run.exits :
             ExitUnread(e) \/ SettleExit(e) \/ RenewExit(e) \/ RenewRefused(e)
    BY <1>6
  <2>2. faults' = faults \/ faults' = faults + 1
    BY <2>1, Settling
  <2>3. faults = 0
    BY <1>2, <1>3, <2>2
  <2>4. ExitsFit(orders, Book, Outgoing) /\ EntriesFit(orders, Book, Incoming) /\ PhaseFit
    BY <2>3 DEF SoleInv
  <2> QED
    BY <2>1, <2>4, SettlingFits
<1>7. CASE \E i \in run.entries :
             EntryUnread(i) \/ AbsorbFill(i) \/ AbsorbRefused(i) \/ AbsorbNone(i)
  <2>1. PICK i \in run.entries :
             EntryUnread(i) \/ AbsorbFill(i) \/ AbsorbRefused(i) \/ AbsorbNone(i)
    BY <1>7
  <2>2. faults' = faults \/ faults' = faults + 1
    BY <2>1, Absorbing
  <2>3. faults = 0 /\ faults' = faults
    BY <1>2, <1>3, <2>2
  <2>4. ExitsFit(orders, Book, Outgoing) /\ EntriesFit(orders, Book, Incoming) /\ PhaseFit
    BY <2>3 DEF SoleInv
  <2> QED
    BY <1>1, <2>1, <2>3, <2>4, AbsorbingFits
<1>8. CASE \E t \in Tickers : Submit(t)
  <2>1. PICK t \in Tickers : Submit(t)
    BY <1>8
  <2>2. faults' = faults
    BY <2>1, Submitting
  <2>3. faults = 0
    BY <1>2, <1>3, <2>2
  <2>4. ExitsFit(orders, Book, Outgoing) /\ EntriesFit(orders, Book, Incoming) /\ PhaseFit
    BY <2>3 DEF SoleInv
  <2> QED
    BY <2>1, <2>4, SubmitFits
<1> QED
  BY <1>4, <1>5, <1>6, <1>7, <1>8 DEF Next

LEMMA InitSole == Init => SoleInv
<1> SUFFICES ASSUME Init PROVE SoleInv
  OBVIOUS
<1>1. Placed = {} /\ DOMAIN orders = {} /\ pc = "idle"
  BY DEF Init, Placed
<1>2. Outgoing = {} /\ Incoming = {}
  BY DEF Init, Outgoing, Incoming, InRun
<1> QED
  BY <1>1, <1>2 DEF SoleInv, RestingToday, Resting, ExitsFit, EntriesFit, PhaseFit

\* _gapfade_settle_exits: as long as nothing fails, a position has one closing
\* order at a time: a second one would sell the account short at the close.
THEOREM OneClosingOrder == Spec => []OneRestingSell
<1>1. Init => TypeInv /\ EntryInv /\ SoleInv
  BY InitTypes, InitEntries, InitSole
<1>2. TypeInv /\ EntryInv /\ SoleInv /\ [Next]_vars => (TypeInv /\ EntryInv /\ SoleInv)'
  BY StepTypes, EntryStep, SoleStep
<1>3. TypeInv /\ EntryInv /\ SoleInv => OneRestingSell
  <2> SUFFICES ASSUME TypeInv, SoleInv, faults = 0,
                      NEW i \in Resting("sell"), NEW j \in Resting("sell"),
                      orders[i].ticker = orders[j].ticker
               PROVE  i = j
    BY DEF OneRestingSell
  <2>1. ExitsFit(orders, Book, Outgoing)
    BY DEF SoleInv
  <2>2. i \in Placed /\ j \in Placed /\ 0 \notin Placed
    BY DEF Resting, TypeInv, OrdersOK, Ids
  <2>3. PICK e \in Outgoing : e.id = i
    BY <2>1 DEF ExitsFit, Resting, Placed
  <2>4. PICK f \in Outgoing : f.id = j
    BY <2>1 DEF ExitsFit, Resting, Placed
  <2>5. orders[e.for].ticker = orders[i].ticker /\ orders[f.for].ticker = orders[j].ticker
    BY <2>1, <2>2, <2>3, <2>4 DEF ExitsFit
  <2>6. e = f
    BY <2>1, <2>5 DEF ExitsFit
  <2> QED
    BY <2>3, <2>4, <2>6
<1> QED
  BY <1>1, <1>2, <1>3, PTL DEF Spec

-----------------------------------------------------------------------------
(* Sums of shares over the orders.                                         *)

Counts == [Ids -> 0..Lot]
Shares(n) == {s \in Ids \X (1..Lot) : s[2] <= n[s[1]]}

LEMMA Bounds ==
  /\ Lot \in Nat \ {0} /\ MaxOrders \in Nat /\ IsFiniteSet(Ids) /\ Ids \subseteq Nat
BY FS_Interval, GapfadeAssumption DEF GapfadeAssumption, Ids

LEMMA SharesAre ==
  ASSUME NEW n \in Counts
  PROVE  /\ Total(n) = Cardinality(Shares(n))
         /\ IsFiniteSet(Shares(n)) /\ Total(n) \in Nat
         /\ \A i, k : <<i, k>> \in Shares(n) <=> i \in Ids /\ k \in 1..n[i]
         /\ \A s \in Shares(n) : s[1] \in Ids /\ s[2] \in 1..n[s[1]] /\ s = <<s[1], s[2]>>
<1>1. Total(n) = Cardinality(Shares(n))
  <2>1. DOMAIN n = Ids BY DEF Counts
  <2> QED BY <2>1 DEF Total, Shares
<1>2. IsFiniteSet(Shares(n))
  <2>1. IsFiniteSet(1..Lot) BY FS_Interval, Bounds
  <2>2. IsFiniteSet(Ids \X (1..Lot)) BY <2>1, Bounds, FS_Product
  <2>3. Shares(n) \subseteq Ids \X (1..Lot) BY DEF Shares
  <2> QED BY <2>2, <2>3, FS_Subset
<1>3. \A i \in Ids : n[i] \in 0..Lot BY DEF Counts
<1>4. \A i, k : <<i, k>> \in Shares(n) <=> i \in Ids /\ k \in 1..n[i]
  <2> TAKE i, k
  <2>1. CASE i \in Ids
    BY <1>3, <2>1, Bounds DEF Shares
  <2>2. CASE i \notin Ids
    BY <2>2 DEF Shares
  <2> QED BY <2>1, <2>2
<1>5. \A s \in Shares(n) : s[1] \in Ids /\ s[2] \in 1..n[s[1]] /\ s = <<s[1], s[2]>>
  <2> TAKE s \in Shares(n)
  <2>1. s \in Ids \X (1..Lot) BY DEF Shares
  <2>2. s[1] \in Ids /\ s = <<s[1], s[2]>> BY <2>1
  <2> QED BY <1>4, <2>2
<1> QED BY <1>1, <1>2, <1>4, <1>5, FS_CardinalityType

LEMMA TotalAdd ==
  ASSUME NEW f \in Counts, NEW g \in Counts, NEW h \in Counts,
         \A i \in Ids : h[i] = f[i] + g[i]
  PROVE  Total(h) = Total(f) + Total(g)
<1> DEFINE U == Shares(f)
           V == Shares(g)
           W == Shares(h)
           up == [v \in V |-> <<v[1], v[2] + f[v[1]]>>]
<1>0. \A i \in Ids : f[i] \in Nat /\ g[i] \in Nat /\ h[i] \in Nat
  BY Bounds DEF Counts
<1>1. U \subseteq W
  <2> SUFFICES ASSUME NEW u \in U PROVE u \in W OBVIOUS
  <2>1. u[1] \in Ids /\ u[2] \in 1..f[u[1]] /\ u = <<u[1], u[2]>> BY SharesAre
  <2>2. u[2] \in 1..h[u[1]] BY <1>0, <2>1
  <2>3. <<u[1], u[2]>> \in W BY <2>1, <2>2, SharesAre
  <2> QED BY <2>1, <2>3
<1>2. up \in Bijection(V, W \ U)
  <2>1. ASSUME NEW v \in V
        PROVE  v[1] \in Ids /\ v[2] \in 1..g[v[1]] /\ v = <<v[1], v[2]>>
    BY SharesAre
  <2>2. ASSUME NEW v \in V PROVE up[v] \in W \ U
    <3>1. v[1] \in Ids /\ v[2] \in 1..g[v[1]] BY <2>1
    <3>2. v[2] + f[v[1]] \in 1..h[v[1]] /\ v[2] + f[v[1]] \notin 1..f[v[1]]
      BY <1>0, <3>1
    <3>3. up[v] = <<v[1], v[2] + f[v[1]]>> OBVIOUS
    <3> QED BY <3>1, <3>2, <3>3, SharesAre
  <2>3. up \in [V -> W \ U] BY <2>2
  <2>4. ASSUME NEW v \in V, NEW w \in V, up[v] = up[w] PROVE v = w
    <3>1. v[1] = w[1] /\ v[2] + f[v[1]] = w[2] + f[w[1]] BY <2>4
    <3>2. f[v[1]] \in Nat /\ f[w[1]] = f[v[1]] /\ v[2] \in Int /\ w[2] \in Int
      BY <1>0, <2>1, <3>1
    <3>3. v[2] = w[2]
      <4> DEFINE a == v[2]
                 b == w[2]
                 c == f[v[1]]
      <4>1. a \in Int /\ b \in Int /\ c \in Int /\ a + c = b + c BY <3>1, <3>2
      <4> HIDE DEF a, b, c
      <4>2. a = b BY <4>1
      <4> QED BY <4>2 DEF a, b
    <3> QED BY <2>1, <3>1, <3>3
  <2>5. ASSUME NEW x \in W \ U PROVE \E v \in V : up[v] = x
    <3>1. x[1] \in Ids /\ x[2] \in 1..h[x[1]] /\ x = <<x[1], x[2]>> BY SharesAre
    <3> DEFINE i == x[1]
               k == x[2]
    <3>2. i \in Ids /\ k \in 1..h[i] /\ x = <<i, k>> BY <3>1
    <3> HIDE DEF i, k
    <3>3. k \notin 1..f[i] BY <3>2, SharesAre
    <3>4. k - f[i] \in 1..g[i] /\ (k - f[i]) + f[i] = k BY <1>0, <3>2, <3>3
    <3>5. <<i, k - f[i]>> \in V BY <3>2, <3>4, SharesAre
    <3>6. up[<<i, k - f[i]>>] = x BY <3>2, <3>4, <3>5
    <3> QED BY <3>5, <3>6
  <2> HIDE DEF U, V, W, up
  <2>6. up \in Injection(V, W \ U) BY <2>3, <2>4 DEF Injection, IsInjective
  <2>7. up \in Surjection(V, W \ U) BY <2>3, <2>5 DEF Surjection
  <2> QED BY <2>6, <2>7 DEF Bijection
<1>3. /\ IsFiniteSet(V) /\ IsFiniteSet(W) /\ IsFiniteSet(U)
      /\ Total(f) = Cardinality(U) /\ Total(g) = Cardinality(V) /\ Total(h) = Cardinality(W)
      /\ Cardinality(U) \in Nat /\ Cardinality(V) \in Nat /\ Cardinality(W) \in Nat
  BY SharesAre
<1> HIDE DEF U, V, W, up
<1>4. Cardinality(W \ U) = Cardinality(V)
  BY <1>2, <1>3, FS_Bijection DEF ExistsBijection
<1>5. Cardinality(W \ U) = Cardinality(W) - Cardinality(W \cap U)
  BY <1>3, FS_Difference
<1>6. W \cap U = U BY <1>1
<1> QED BY <1>3, <1>4, <1>5, <1>6

\* The sum of what one order alone has.
LEMMA TotalOne ==
  ASSUME NEW n \in Counts, NEW k \in Ids, \A i \in Ids \ {k} : n[i] = 0
  PROVE  Total(n) = n[k]
<1> DEFINE S == 1..n[k]
           U == Shares(n)
           up == [j \in S |-> <<k, j>>]
<1>1. n[k] \in Nat BY Bounds DEF Counts
<1>2. up \in Bijection(S, U)
  <2>1. \A j \in S : up[j] \in U BY SharesAre
  <2>2. up \in [S -> U] BY <2>1
  <2>3. ASSUME NEW i \in S, NEW j \in S, up[i] = up[j] PROVE i = j
    BY <2>3
  <2>4. ASSUME NEW x \in U PROVE \E j \in S : up[j] = x
    <3>1. x[1] \in Ids /\ x[2] \in 1..n[x[1]] /\ x = <<x[1], x[2]>> BY SharesAre
    <3>2. x[1] = k
      <4>1. CASE x[1] # k
        <5>1. n[x[1]] = 0 BY <3>1, <4>1
        <5> QED BY <3>1, <5>1
      <4> QED BY <4>1
    <3>3. x[2] \in S /\ up[x[2]] = x BY <3>1, <3>2
    <3> QED BY <3>3
  <2> HIDE DEF S, U, up
  <2>5. up \in Injection(S, U) BY <2>2, <2>3 DEF Injection, IsInjective
  <2>6. up \in Surjection(S, U) BY <2>2, <2>4 DEF Surjection
  <2> QED BY <2>5, <2>6 DEF Bijection
<1>3. IsFiniteSet(S) /\ Cardinality(S) = n[k]
  <2>1. 1 \in Int /\ n[k] \in Int BY <1>1
  <2>2. Cardinality(1..n[k]) = IF 1 <= n[k] THEN n[k] - 1 + 1 ELSE 0
    BY <2>1, FS_Interval
  <2>3. IsFiniteSet(1..n[k]) BY <2>1, FS_Interval
  <2> QED BY <1>1, <2>2, <2>3
<1>4. Total(n) = Cardinality(U) BY SharesAre
<1> HIDE DEF S, U, up
<1> QED BY <1>2, <1>3, <1>4, FS_Bijection DEF ExistsBijection

\* Orders that are left out count nothing.
LEMMA Padded ==
  ASSUME NEW S \in SUBSET Ids, NEW n \in [S -> 0..Lot], NEW m \in Counts,
         \A i \in S : m[i] = n[i], \A i \in Ids \ S : m[i] = 0
  PROVE  Total(n) = Total(m)
<1>1. DOMAIN n = S OBVIOUS
<1>2. {s \in S \X (1..Lot) : s[2] <= n[s[1]]} = Shares(m)
  <2>1. \A s : s \in {u \in S \X (1..Lot) : u[2] <= n[u[1]]} => s \in Shares(m)
    BY DEF Shares
  <2>2. ASSUME NEW s \in Shares(m)
        PROVE  s \in {u \in S \X (1..Lot) : u[2] <= n[u[1]]}
    <3>1. s[1] \in Ids /\ s[2] \in 1..m[s[1]] /\ s = <<s[1], s[2]>> BY SharesAre
    <3>2. s[1] \in S
      <4>1. CASE s[1] \notin S
        <5>1. m[s[1]] = 0 BY <3>1, <4>1
        <5> QED BY <3>1, <5>1
      <4> QED BY <4>1
    <3>3. s \in Ids \X (1..Lot) /\ s[2] <= m[s[1]] BY DEF Shares
    <3>4. s \in S \X (1..Lot) BY <3>1, <3>2, <3>3
    <3>5. s[2] <= n[s[1]] BY <3>2, <3>3
    <3> QED BY <3>4, <3>5
  <2> QED BY <2>1, <2>2
<1> QED BY <1>1, <1>2, SharesAre DEF Total

-----------------------------------------------------------------------------
(* The account: what the lists know of it, per ticker.                     *)

\* The shares that the orders `ids` of o traded in t, and those that sells
\* among them left over.
Traded(o, ids, t) ==
  [i \in Ids |-> IF i \in ids /\ o[i].ticker = t THEN o[i].filled ELSE 0]
Unsold(o, ids, t) ==
  [i \in Ids |-> IF /\ i \in ids /\ o[i].side = "sell" /\ o[i].ticker = t
                    /\ o[i].status = "canceled" /\ o[i].filled > 0
                 THEN o[i].qty - o[i].filled ELSE 0]

Balanced(o, n, b, I, X, t) ==
  n = b + Total(Traded(o, I, t)) - Total(Traded(o, SellsOf(X), t))
      + Total(Unsold(o, (DOMAIN o) \ SellsOf(X), t))

\* A closing order is for the whole position.
SellsFit(o, B, X) ==
  \A e \in X : e.id # 0 => o[e.id].side = "sell" /\ o[e.id].qty = B[o[e.for].ticker]

AccountFits ==
  /\ Resting("buy") \subseteq Incoming
  /\ SellsFit(orders, Book, Outgoing)
  /\ \A t \in Tickers : Balanced(orders, shares[t], Book[t], Incoming, Outgoing, t)

\* What the account holds besides the book is a fill to be read, or the rest
\* of a partly filled sell.
AccountInv ==
  /\ shares \in [Tickers -> Int]
  /\ \A i \in Placed : orders[i].status = "filled" => orders[i].filled = orders[i].qty
  /\ faults = 0 => AccountFits

Fine(o) == DOMAIN o \subseteq Ids
           /\ \A i \in DOMAIN o : o[i] \in Order /\ o[i].filled <= o[i].qty

LEMMA OrdersFine ==
  /\ TypeInv => Fine(orders) /\ DOMAIN orders = Placed
  /\ OrdersOK' => Fine(orders') /\ DOMAIN orders' = Placed'
BY DEF TypeInv, OrdersOK, Fine, Placed

LEMMA AreCounts ==
  ASSUME NEW o, Fine(o), NEW t
  PROVE  /\ \A ids \in SUBSET DOMAIN o : Traded(o, ids, t) \in Counts
         /\ \A ids \in SUBSET DOMAIN o : Unsold(o, ids, t) \in Counts
<1>1. ASSUME NEW i \in DOMAIN o
      PROVE  o[i].filled \in 0..Lot /\ o[i].qty - o[i].filled \in 0..Lot
  <2>1. o[i].filled \in 0..Lot /\ o[i].qty \in 1..Lot /\ o[i].filled <= o[i].qty
    BY DEF Fine, Order
  <2> DEFINE f == o[i].filled
             q == o[i].qty
  <2> HIDE DEF f, q
  <2>2. f \in 0..Lot /\ q \in 1..Lot /\ f <= q => f \in 0..Lot /\ q - f \in 0..Lot
    BY Bounds
  <2> QED BY <2>1, <2>2 DEF f, q
<1>2. 0 \in 0..Lot BY Bounds
<1>3. \A ids \in SUBSET DOMAIN o : Traded(o, ids, t) \in Counts
  BY <1>1, <1>2 DEF Traded, Counts
<1>4. \A ids \in SUBSET DOMAIN o : Unsold(o, ids, t) \in Counts
  BY <1>1, <1>2 DEF Unsold, Counts
<1> QED BY <1>3, <1>4

\* Filled and LeftOver are these sums.
LEMMA FilledIs ==
  ASSUME TypeInv, NEW ids \in SUBSET Placed, NEW t
  PROVE  Filled(ids, t) = Total(Traded(orders, ids, t))
<1> DEFINE S == {j \in ids : orders[j].ticker = t}
           n == [i \in S |-> orders[i].filled]
           m == Traded(orders, ids, t)
<1>1. Filled(ids, t) = Total(n) BY DEF Filled
<1>2. Fine(orders) /\ DOMAIN orders = Placed BY OrdersFine
<1>3. S \in SUBSET Ids BY <1>2 DEF Fine
<1>4. m \in Counts BY <1>2, AreCounts
<1>5. /\ \A i \in S : m[i] = n[i] /\ n[i] = m[i]
      /\ \A i \in Ids \ S : m[i] = 0
  BY <1>3 DEF Traded
<1>6. n \in [S -> 0..Lot]
  <2>1. \A i \in S : m[i] \in 0..Lot BY <1>3, <1>4 DEF Counts
  <2> HIDE DEF m
  <2> QED BY <1>5, <2>1
<1> HIDE DEF S, n, m
<1>7. Total(n) = Total(m) BY <1>3, <1>4, <1>5, <1>6, Padded
<1> QED BY <1>1, <1>7 DEF m

LEMMA LeftOverIs ==
  ASSUME TypeInv, NEW t
  PROVE  LeftOver(t) = Total(Unsold(orders, Placed \ SellsOf(exitOrders), t))
<1> DEFINE R == Placed \ SellsOf(exitOrders)
           S == {j \in R : PartlySold(j, t)}
           n == [i \in S |-> orders[i].qty - orders[i].filled]
           m == Unsold(orders, R, t)
<1>1. LeftOver(t) = Total(n) BY DEF LeftOver
<1>2. Fine(orders) /\ DOMAIN orders = Placed BY OrdersFine
<1>3. S \in SUBSET Ids BY <1>2 DEF Fine
<1>4. m \in Counts
  <2>1. R \in SUBSET DOMAIN orders BY <1>2
  <2> QED BY <1>2, <2>1, AreCounts
<1>5. /\ \A i \in S : m[i] = n[i]
      /\ \A i \in Ids \ S : m[i] = 0
  BY <1>3 DEF Unsold, PartlySold
<1>6. n \in [S -> 0..Lot]
  <2>1. \A i \in S : m[i] \in 0..Lot BY <1>3, <1>4 DEF Counts
  <2> HIDE DEF m
  <2> QED BY <1>5, <2>1
<1> HIDE DEF S, n, m
<1>7. Total(n) = Total(m) BY <1>3, <1>4, <1>5, <1>6, Padded
<1> QED BY <1>1, <1>7 DEF m

\* A fill that reads the same before and after keeps the sums.
LEMMA TradedSame ==
  ASSUME NEW o, NEW p, NEW I, NEW J, NEW t,
         \A i \in Ids : i \in I /\ i \in J => p[i].ticker = o[i].ticker /\ p[i].filled = o[i].filled,
         \A i \in Ids : i \in I /\ i \notin J => o[i].ticker # t \/ o[i].filled = 0,
         \A i \in Ids : i \in J /\ i \notin I => p[i].ticker # t \/ p[i].filled = 0
  PROVE  Traded(p, J, t) = Traded(o, I, t)
<1>1. ASSUME NEW i \in Ids
      PROVE  (IF i \in J /\ p[i].ticker = t THEN p[i].filled ELSE 0)
               = (IF i \in I /\ o[i].ticker = t THEN o[i].filled ELSE 0)
  <2>1. CASE i \in I /\ i \in J BY <2>1
  <2>2. CASE i \in I /\ i \notin J BY <2>2
  <2>3. CASE i \notin I /\ i \in J BY <2>3
  <2>4. CASE i \notin I /\ i \notin J BY <2>4
  <2> QED BY <2>1, <2>2, <2>3, <2>4
<1> QED BY <1>1 DEF Traded

LEMMA UnsoldSame ==
  ASSUME NEW o, NEW p, NEW I, NEW J, NEW t,
         \A i \in Ids : i \in I /\ i \in J => p[i] = o[i],
         \A i \in Ids : i \in I /\ i \notin J =>
            ~ (o[i].side = "sell" /\ o[i].status = "canceled" /\ o[i].filled > 0),
         \A i \in Ids : i \in J /\ i \notin I =>
            ~ (p[i].side = "sell" /\ p[i].status = "canceled" /\ p[i].filled > 0)
  PROVE  Unsold(p, J, t) = Unsold(o, I, t)
<1> DEFINE U(x, S, i) == IF /\ i \in S /\ x[i].side = "sell" /\ x[i].ticker = t
                            /\ x[i].status = "canceled" /\ x[i].filled > 0
                         THEN x[i].qty - x[i].filled ELSE 0
<1>1. ASSUME NEW i \in Ids
      PROVE  U(p, J, i) = U(o, I, i)
  <2>1. CASE i \in I /\ i \in J BY <2>1
  <2>2. CASE i \in I /\ i \notin J BY <2>2
  <2>3. CASE i \notin I /\ i \in J BY <2>3
  <2>4. CASE i \notin I /\ i \notin J BY <2>4
  <2> QED BY <2>1, <2>2, <2>3, <2>4
<1>2. Unsold(p, J, t) = [i \in Ids |-> U(p, J, i)] /\ Unsold(o, I, t) = [i \in Ids |-> U(o, I, i)]
  BY DEF Unsold
<1> HIDE DEF U
<1> QED BY <1>1, <1>2

Whole(o) == \A i \in DOMAIN o : o[i].status = "filled" => o[i].filled = o[i].qty

\* An auction adds what it fills to the lists that know all of its orders.
LEMMA AuctionSums ==
  ASSUME TypeInv, Whole(orders), NEW side \in {"buy", "sell"}, Auction(side)
  PROVE  \E f \in [Tickers -> Nat] :
           /\ shares' = [t \in Tickers |-> IF side = "buy" THEN shares[t] + f[t]
                                                           ELSE shares[t] - f[t]]
           /\ \A t \in Tickers : \A ids \in SUBSET Placed :
                Resting(side) \subseteq ids =>
                  Total(Traded(orders', ids, t)) = Total(Traded(orders, ids, t)) + f[t]
           /\ \A t \in Tickers : \A ids \in SUBSET Placed :
                Resting(side) \cap ids = {} => Traded(orders', ids, t) = Traded(orders, ids, t)
           /\ \A t \in Tickers : \A ids \in SUBSET Placed :
                Resting(side) \cap ids = {} \/ side = "buy" =>
                  Unsold(orders', ids, t) = Unsold(orders, ids, t)
           /\ Whole(orders')
<1> DEFINE R == Resting(side)
<1>1. PICK fill \in [R -> 0..Lot] :
        /\ \A i \in R : fill[i] <= orders[i].qty
        /\ orders' = [i \in Placed |->
                    IF i \notin R THEN orders[i]
                    ELSE [orders[i] EXCEPT
                            !.filled = fill[i],
                            !.status = IF fill[i] = orders[i].qty THEN "filled"
                                       ELSE "canceled"]]
        /\ shares' = [t \in Tickers |->
                    IF side = "buy" THEN shares[t] + FilledIn(fill, t)
                    ELSE shares[t] - FilledIn(fill, t)]
  BY DEF Auction
<1>2. /\ Fine(orders) /\ DOMAIN orders = Placed /\ Fine(orders') /\ DOMAIN orders' = Placed
      /\ R \subseteq Placed
      /\ \A i \in R : orders[i].side = side /\ orders[i].filled = 0
  <2>1. OrdersOK' /\ Placed' = Placed BY Resolves
  <2> QED BY <2>1, OrdersFine DEF Resting, TypeInv, OrdersOK
<1>3. \A i \in Placed \ R : orders'[i] = orders[i]
  BY <1>1
<1>4. ASSUME NEW i \in R
      PROVE  /\ orders'[i].ticker = orders[i].ticker /\ orders'[i].side = orders[i].side
             /\ orders'[i].filled = fill[i]
             /\ orders'[i].status = "filled" => orders'[i].filled = orders'[i].qty
  <2> DEFINE o == [orders[i] EXCEPT
                     !.filled = fill[i],
                     !.status = IF fill[i] = orders[i].qty THEN "filled" ELSE "canceled"]
  <2>1. orders'[i] = o /\ orders[i] \in Order
    BY <1>1, <1>2 DEF Fine
  <2>2. /\ o.ticker = orders[i].ticker /\ o.side = orders[i].side /\ o.filled = fill[i]
        /\ o.qty = orders[i].qty
        /\ o.status = IF fill[i] = orders[i].qty THEN "filled" ELSE "canceled"
    BY <2>1 DEF Order
  <2>3. o.status = "filled" => o.filled = o.qty BY <2>2
  <2> HIDE DEF o
  <2> QED BY <2>1, <2>2, <2>3
<1> DEFINE G(t) == [i \in Ids |-> IF i \in R /\ orders[i].ticker = t THEN fill[i] ELSE 0]
<1>5. \A t \in Tickers : G(t) \in Counts
  <2>1. \A i \in R : fill[i] \in 0..Lot OBVIOUS
  <2>2. 0 \in 0..Lot BY Bounds
  <2> QED BY <2>1, <2>2 DEF Counts
<1>6. ASSUME NEW t \in Tickers
      PROVE  FilledIn(fill, t) = Total(G(t))
  <2> DEFINE S == {j \in R : orders[j].ticker = t}
             n == [i \in S |-> fill[i]]
             g == G(t)
  <2>1. FilledIn(fill, t) = Total(n)
    <3>1. DOMAIN fill = R OBVIOUS
    <3> QED BY <3>1 DEF FilledIn
  <2>2. S \in SUBSET Ids /\ n \in [S -> 0..Lot] BY <1>2 DEF Fine
  <2>3. \A i \in S : g[i] = n[i] BY <2>2
  <2>4. \A i \in Ids \ S : g[i] = 0 OBVIOUS
  <2>5. g \in Counts BY <1>5
  <2> HIDE DEF S, n, g
  <2>6. Total(n) = Total(g) BY <2>2, <2>3, <2>4, <2>5, Padded
  <2> QED BY <2>1, <2>6 DEF g
<1>7. ASSUME NEW t \in Tickers, NEW ids \in SUBSET Placed, R \subseteq ids
      PROVE  Total(Traded(orders', ids, t)) = Total(Traded(orders, ids, t)) + Total(G(t))
  <2> DEFINE a == Traded(orders, ids, t)
             b == Traded(orders', ids, t)
             g == G(t)
  <2>1. a \in Counts /\ b \in Counts /\ g \in Counts BY <1>2, <1>5, AreCounts
  <2>2. ASSUME NEW i \in Ids PROVE b[i] = a[i] + g[i]
    <3>0. a[i] \in 0..Lot /\ g[i] \in 0..Lot /\ b[i] \in 0..Lot BY <2>1 DEF Counts
    <3>1. CASE i \in R
      <4>1. /\ orders'[i].ticker = orders[i].ticker /\ orders'[i].filled = fill[i]
            /\ orders[i].filled = 0 /\ i \in ids
        BY <1>2, <1>4, <1>7, <3>1
      <4>2. CASE orders[i].ticker = t
        <5>1. b[i] = fill[i] /\ a[i] = 0 /\ g[i] = fill[i] BY <3>1, <4>1, <4>2 DEF Traded
        <5> HIDE DEF a, b, g
        <5> QED BY <3>0, <5>1, Bounds
      <4>3. CASE orders[i].ticker # t
        <5>1. b[i] = 0 /\ a[i] = 0 /\ g[i] = 0 BY <4>1, <4>3 DEF Traded
        <5> QED BY <5>1
      <4> QED BY <4>2, <4>3
    <3>2. CASE i \in ids \ R
      <4>1. orders'[i] = orders[i] BY <1>3, <3>2
      <4>2. b[i] = a[i] /\ g[i] = 0 BY <3>2, <4>1 DEF Traded
      <4> HIDE DEF a, b, g
      <4> QED BY <3>0, <4>2, Bounds
    <3>3. CASE i \notin ids
      <4>1. b[i] = 0 /\ a[i] = 0 /\ g[i] = 0 BY <1>7, <3>3 DEF Traded
      <4> QED BY <4>1
    <3> QED BY <3>1, <3>2, <3>3
  <2> HIDE DEF a, b, g
  <2>3. Total(b) = Total(a) + Total(g) BY <2>1, <2>2, TotalAdd
  <2> QED BY <2>3 DEF a, b, g
<1>8. ASSUME NEW t \in Tickers, NEW ids \in SUBSET Placed, R \cap ids = {}
      PROVE  Traded(orders', ids, t) = Traded(orders, ids, t)
  <2>1. \A i \in Ids : i \in ids /\ i \in ids => orders'[i].ticker = orders[i].ticker
                                               /\ orders'[i].filled = orders[i].filled
    BY <1>3, <1>8
  <2> QED BY <2>1, TradedSame
<1>9. ASSUME NEW t \in Tickers, NEW ids \in SUBSET Placed,
             R \cap ids = {} \/ side = "buy"
      PROVE  Unsold(orders', ids, t) = Unsold(orders, ids, t)
  <2>1. CASE R \cap ids = {}
    <3>1. \A i \in Ids : i \in ids /\ i \in ids => orders'[i] = orders[i] BY <1>3, <2>1
    <3> QED BY <3>1, UnsoldSame
  <2>2. CASE side = "buy"
    <3> DEFINE U(x, i) == IF /\ i \in ids /\ x[i].side = "sell" /\ x[i].ticker = t
                             /\ x[i].status = "canceled" /\ x[i].filled > 0
                          THEN x[i].qty - x[i].filled ELSE 0
    <3>1. ASSUME NEW i \in Ids PROVE U(orders', i) = U(orders, i)
      <4>1. CASE i \in R
        <5>1. orders[i].side # "sell" /\ orders'[i].side # "sell"
          BY <1>2, <1>4, <2>2, <4>1
        <5> QED BY <5>1
      <4>2. CASE i \in ids \ R
        <5>1. orders'[i] = orders[i] BY <1>3, <4>2
        <5> QED BY <5>1
      <4>3. CASE i \notin ids BY <4>3
      <4> QED BY <4>1, <4>2, <4>3
    <3>2. /\ Unsold(orders', ids, t) = [i \in Ids |-> U(orders', i)]
          /\ Unsold(orders, ids, t) = [i \in Ids |-> U(orders, i)]
      BY DEF Unsold
    <3> HIDE DEF U
    <3> QED BY <3>1, <3>2
  <2> QED BY <1>9, <2>1, <2>2
<1>10. Whole(orders')
  BY <1>2, <1>3, <1>4 DEF Whole
<1> DEFINE f == [t \in Tickers |-> Total(G(t))]
<1>11. f \in [Tickers -> Nat] BY <1>5, SharesAre
<1>12. shares' = [t \in Tickers |-> IF side = "buy" THEN shares[t] + f[t] ELSE shares[t] - f[t]]
  BY <1>1, <1>6
<1>13. \A t \in Tickers : f[t] = Total(G(t)) OBVIOUS
<1> HIDE DEF f, G
<1> WITNESS f \in [Tickers -> Nat]
<1> QED BY <1>7, <1>8, <1>9, <1>10, <1>12, <1>13

LEMMA SellsArePlaced ==
  ASSUME TypeInv, NEW X \in SUBSET Exits
  PROVE  /\ SellsOf(X) \subseteq Placed /\ 0 \notin Placed
         /\ \A i : i \in SellsOf(X) <=> i # 0 /\ \E e \in X : e.id = i
BY DEF SellsOf, Exits, TypeInv, OrdersOK, Ids

LEMMA AuctionAccount ==
  ASSUME TypeInv, shares \in [Tickers -> Int], Whole(orders), AccountFits,
         ExitsFit(orders, Book, Outgoing), EntriesFit(orders, Book, Incoming),
         NEW side \in {"buy", "sell"}, Auction(side),
         Book' = Book, Outgoing' = Outgoing, Incoming' = Incoming
  PROVE  Whole(orders') /\ AccountFits'
<1> DEFINE R == Resting(side)
           S == SellsOf(Outgoing)
           D == Placed \ S
<1>0. Outgoing \in SUBSET Exits /\ Incoming \in SUBSET Placed /\ DOMAIN orders = Placed
  BY Seen
<1>1. S \subseteq Placed /\ 0 \notin Placed
      /\ \A i : i \in S <=> i # 0 /\ \E e \in Outgoing : e.id = i
  BY <1>0, SellsArePlaced
<1>2. PICK f \in [Tickers -> Nat] :
           /\ shares' = [t \in Tickers |-> IF side = "buy" THEN shares[t] + f[t]
                                                           ELSE shares[t] - f[t]]
           /\ \A t \in Tickers : \A ids \in SUBSET Placed :
                R \subseteq ids =>
                  Total(Traded(orders', ids, t)) = Total(Traded(orders, ids, t)) + f[t]
           /\ \A t \in Tickers : \A ids \in SUBSET Placed :
                R \cap ids = {} => Traded(orders', ids, t) = Traded(orders, ids, t)
           /\ \A t \in Tickers : \A ids \in SUBSET Placed :
                R \cap ids = {} \/ side = "buy" =>
                  Unsold(orders', ids, t) = Unsold(orders, ids, t)
           /\ Whole(orders')
  BY AuctionSums
<1>3. /\ Placed' = Placed /\ Lasting /\ OrdersOK'
      /\ \A i \in Placed \ R : orders'[i] = orders[i]
      /\ \A i \in R : orders'[i].status # "new"
  BY Resolves
<1>4. /\ side = "buy" => R \subseteq Incoming /\ R \cap S = {}
      /\ side = "sell" => R \subseteq S /\ R \cap Incoming = {}
  <2>1. CASE side = "buy"
    <3>1. R \subseteq Incoming BY <2>1 DEF AccountFits
    <3>2. \A i \in S : orders[i].side = "sell" BY <1>1 DEF AccountFits, SellsFit
    <3>3. \A i \in R : orders[i].side = "buy" BY <2>1 DEF Resting
    <3> QED BY <2>1, <3>1, <3>2, <3>3
  <2>2. CASE side = "sell"
    <3>1. \A i \in R : i \in Placed /\ orders[i].side = "sell" /\ orders[i].status = "new"
      BY <2>2 DEF Resting
    <3>2. R \subseteq S BY <1>0, <1>1, <3>1 DEF ExitsFit
    <3>3. \A i \in Incoming : orders[i].side = "buy" BY DEF EntriesFit
    <3> QED BY <2>2, <3>1, <3>2, <3>3
  <2> QED BY <2>1, <2>2
<1>5. Resting("buy")' \subseteq Incoming'
  <2>1. Resting("buy")' \subseteq Resting("buy")
    BY <1>3 DEF Resting
  <2> QED BY <2>1 DEF AccountFits
<1>6. SellsFit(orders', Book', Outgoing')
  <2>1. \A e \in Outgoing : e.for \in Placed /\ e.id \in Placed \cup {0}
    BY <1>0 DEF Exits
  <2>2. \A i \in Placed : /\ orders'[i].side = orders[i].side /\ orders'[i].qty = orders[i].qty
                          /\ orders'[i].ticker = orders[i].ticker
    BY <1>3 DEF Lasting
  <2>3. SellsFit(orders, Book, Outgoing) BY DEF AccountFits
  <2> QED BY <2>1, <2>2, <2>3 DEF SellsFit
<1>7. ASSUME NEW t \in Tickers
      PROVE  Balanced(orders', shares'[t], Book'[t], Incoming', Outgoing', t)
  <2>1. Balanced(orders, shares[t], Book[t], Incoming, Outgoing, t) BY DEF AccountFits
  <2> DEFINE a == Total(Traded(orders, Incoming, t))
             b == Total(Traded(orders, S, t))
             c == Total(Unsold(orders, D, t))
             a2 == Total(Traded(orders', Incoming, t))
             b2 == Total(Traded(orders', S, t))
             c2 == Total(Unsold(orders', D, t))
  <2>2. shares[t] = Book[t] + a - b + c BY <1>0, <2>1 DEF Balanced
  <2>3. a \in Nat /\ b \in Nat /\ c \in Nat
    <3>1. Fine(orders) /\ D \in SUBSET Placed /\ S \in SUBSET Placed BY <1>1, OrdersFine
    <3>2. Traded(orders, Incoming, t) \in Counts /\ Traded(orders, S, t) \in Counts
          /\ Unsold(orders, D, t) \in Counts
      BY <1>0, <3>1, AreCounts
    <3> QED BY <3>2, SharesAre
  <2>4. shares[t] \in Int /\ f[t] \in Nat /\ Book[t] \in Int
    <3>1. Book \in [Tickers -> 0..Lot] BY Fields, TypeParts DEF Book, Lists
    <3>2. Book[t] \in 0..Lot BY <3>1
    <3> QED BY <3>2, Bounds
  <2>5. R \cap D = {} \/ side = "buy" BY <1>4
  <2>6. D \in SUBSET Placed /\ S \in SUBSET Placed BY <1>1
  <2>7. c2 = c BY <1>2, <2>5, <2>6
  <2>8. DOMAIN orders' = Placed BY <1>3, OrdersFine
  <2>9. CASE side = "buy"
    <3>1. a2 = a + f[t] BY <1>0, <1>2, <1>4, <2>9
    <3>2. b2 = b BY <1>2, <1>4, <2>6, <2>9
    <3>3. shares'[t] = shares[t] + f[t] BY <1>2, <2>9
    <3> HIDE DEF a, b, c, a2, b2, c2
    <3>4. shares'[t] = Book[t] + a2 - b2 + c2
      BY <2>2, <2>3, <2>4, <2>7, <3>1, <3>2, <3>3
    <3> QED BY <2>8, <3>4 DEF Balanced, a2, b2, c2
  <2>10. CASE side = "sell"
    <3>1. a2 = a BY <1>0, <1>2, <1>4, <2>10
    <3>2. b2 = b + f[t] BY <1>2, <1>4, <2>6, <2>10
    <3>3. shares'[t] = shares[t] - f[t] BY <1>2, <2>10
    <3> HIDE DEF a, b, c, a2, b2, c2
    <3>4. shares'[t] = Book[t] + a2 - b2 + c2
      BY <2>2, <2>3, <2>4, <2>7, <3>1, <3>2, <3>3
    <3> QED BY <2>8, <3>4 DEF Balanced, a2, b2, c2
  <2> QED BY <2>9, <2>10
<1>8. AccountFits' BY <1>5, <1>6, <1>7 DEF AccountFits
<1> QED BY <1>2, <1>8

LEMMA StillAccount ==
  ASSUME AccountFits, UNCHANGED <<orders, shares>>,
         Book' = Book, Outgoing' = Outgoing, Incoming' = Incoming
  PROVE  AccountFits'
BY DEF AccountFits, Balanced, SellsFit, Resting, Placed

\* A settled exit: the position leaves the book, what the sell left over stays.
LEMMA SoldBalance ==
  ASSUME TypeInv, Whole(orders), NEW X \in SUBSET Exits, NEW I, NEW B, NEW e \in X,
         ExitsFit(orders, B, X), SellsFit(orders, B, X), IsSold(e),
         NEW n \in Int, NEW t \in Tickers, B[t] \in Int, TickerOf(e) = t,
         I \in SUBSET Placed, Balanced(orders, n, B[t], I, X, t)
  PROVE  Balanced(orders, n, 0, I, X \ {e}, t)
<1> DEFINE S == SellsOf(X)
           T == SellsOf(X \ {e})
           k == e.id
           D == Placed \ S
           F == Placed \ T
           q == orders[k].qty
           z == orders[k].filled
           st == orders[k].status
           sb == Traded(orders, S, t)
           tb == Traded(orders, T, t)
           sc == Unsold(orders, D, t)
           tc == Unsold(orders, F, t)
           g == [i \in Ids |-> IF i = k THEN z ELSE 0]
           r == [i \in Ids |-> IF i = k THEN q - z ELSE 0]
<1>0. Fine(orders) /\ DOMAIN orders = Placed BY OrdersFine
<1>1. /\ S \subseteq Placed /\ T \subseteq Placed /\ 0 \notin Placed
      /\ \A i : i \in S <=> i # 0 /\ \E f \in X : f.id = i
      /\ \A i : i \in T <=> i # 0 /\ \E f \in X \ {e} : f.id = i
  <2>1. X \ {e} \in SUBSET Exits OBVIOUS
  <2> QED BY <2>1, SellsArePlaced
<1>2. k # 0 /\ z > 0 /\ k \in S BY <1>1 DEF IsSold
<1>3. k \in Ids /\ orders[k] \in Order /\ z <= q BY <1>0, <1>1, <1>2 DEF Fine
<1>4. /\ orders[k].ticker = t /\ orders[k].side = "sell" /\ q = B[t]
      /\ z \in 0..Lot /\ q \in 1..Lot
  BY <1>2, <1>3 DEF ExitsFit, SellsFit, TickerOf, Order
<1>5. k \notin T
  <2> SUFFICES ASSUME NEW f \in X \ {e}, f.id = k PROVE FALSE
    BY <1>1
  <2>1. orders[f.for].ticker = t BY <1>2, <1>4 DEF ExitsFit
  <2> QED BY <2>1 DEF ExitsFit, TickerOf
<1>6. S = T \cup {k} BY <1>1, <1>2
<1>7. st = "filled" \/ st = "canceled"
  <2>1. st \in {"new", "filled", "canceled"} BY <1>3 DEF Order
  <2>2. st # "new" BY <1>1, <1>2, <1>4 DEF TypeInv, OrdersOK
  <2> QED BY <2>1, <2>2
<1>8. st = "filled" => z = q BY <1>0, <1>1, <1>2 DEF Whole
<1>9. /\ sb \in Counts /\ tb \in Counts /\ sc \in Counts /\ tc \in Counts
  BY <1>0, <1>1, AreCounts
<1>10. g \in Counts /\ r \in Counts
  <2>1. 0 \in 0..Lot BY Bounds
  <2>2. q - z \in 0..Lot
    <3> HIDE DEF q, z
    <3> QED BY <1>3, <1>4, Bounds
  <2> QED BY <1>4, <2>1, <2>2 DEF Counts
<1>11. ASSUME NEW i \in Ids PROVE sb[i] = tb[i] + g[i] /\ tc[i] = sc[i] + r[i]
  <2>0. tb[i] \in Nat /\ sc[i] \in Nat /\ z \in Nat /\ q \in Nat /\ q - z \in Nat
    <3>1. tb[i] \in 0..Lot /\ sc[i] \in 0..Lot BY <1>9 DEF Counts
    <3> HIDE DEF tb, sc, z, q
    <3>2. tb[i] \in Nat /\ sc[i] \in Nat BY <3>1, Bounds
    <3>3. z \in Nat /\ q \in Nat /\ q - z \in Nat BY <1>3, <1>4, Bounds
    <3> QED BY <3>2, <3>3
  <2>1. CASE i = k
    <3>1. sb[i] = z /\ tb[i] = 0 /\ g[i] = z
      BY <1>2, <1>3, <1>4, <1>5, <2>1 DEF Traded
    <3>2. sc[i] = 0 /\ r[i] = q - z
      BY <1>2, <1>3, <2>1 DEF Unsold
    <3>3. tc[i] = q - z
      <4>1. i \in F BY <1>1, <1>2, <1>5, <2>1
      <4>2. CASE st = "canceled"
        <5>1. tc[i] = orders[i].qty - orders[i].filled
          BY <1>2, <1>3, <1>4, <2>1, <4>1, <4>2 DEF Unsold
        <5> QED BY <2>1, <5>1
      <4>3. CASE st = "filled"
        <5>1. tc[i] = 0 BY <1>3, <2>1, <4>3 DEF Unsold
        <5>2. z = q BY <1>8, <4>3
        <5> HIDE DEF tc, z, q
        <5> QED BY <2>0, <5>1, <5>2
      <4> QED BY <1>7, <4>2, <4>3
    <3> HIDE DEF sb, tb, sc, tc, g, r, z, q
    <3> QED BY <2>0, <3>1, <3>2, <3>3
  <2>2. CASE i # k
    <3>1. i \in S <=> i \in T BY <1>6, <2>2
    <3>2. sb[i] = tb[i] BY <3>1 DEF Traded
    <3>3. tc[i] = sc[i] BY <3>1 DEF Unsold
    <3>4. g[i] = 0 /\ r[i] = 0 BY <2>2
    <3> HIDE DEF sb, tb, sc, tc, g, r, z, q
    <3> QED BY <2>0, <3>2, <3>3, <3>4
  <2> QED BY <2>1, <2>2
<1>12. g[k] = z /\ r[k] = q - z /\ \A i \in Ids \ {k} : g[i] = 0 /\ r[i] = 0
  BY <1>3
<1>13. n = B[t] + Total(Traded(orders, I, t)) - Total(sb) + Total(sc)
  BY <1>0 DEF Balanced
<1>14. Total(Traded(orders, I, t)) \in Nat
  BY <1>0, AreCounts, SharesAre
<1> DEFINE a == Total(Traded(orders, I, t))
           b == B[t]
<1>15. n = b + a - Total(sb) + Total(sc) /\ a \in Nat /\ b \in Int /\ q = b
  BY <1>4, <1>13, <1>14
<1>16. z \in Int /\ q \in Int BY <1>4, Bounds
<1> HIDE DEF sb, tb, sc, tc, g, r, a, b, z, q
<1>17. Total(sb) = Total(tb) + Total(g) /\ Total(tc) = Total(sc) + Total(r)
  BY <1>9, <1>10, <1>11, TotalAdd
<1>18. Total(g) = z /\ Total(r) = q - z
  BY <1>3, <1>10, <1>12, TotalOne
<1>19. Total(tb) \in Nat /\ Total(sc) \in Nat BY <1>9, SharesAre
<1>20. n = 0 + a - Total(tb) + Total(tc)
  BY <1>15, <1>16, <1>17, <1>18, <1>19
<1> QED BY <1>0, <1>20 DEF Balanced, a, tb, tc

LEMMA SettlingAccount ==
  ASSUME TypeInv, shares \in [Tickers -> Int], Whole(orders), AccountFits, NEW e \in run.exits,
         ExitUnread(e) \/ SettleExit(e) \/ RenewExit(e) \/ RenewRefused(e),
         ExitsFit(orders, Book, Outgoing), EntriesFit(orders, Book, Incoming), PhaseFit
  PROVE  Whole(orders') /\ UNCHANGED shares /\ AccountFits'
<1> DEFINE t == TickerOf(e)
           k == [e EXCEPT !.id = NextId]
           X == run.exits \cup run.left
           B == run.book
           I == entryOrders
<1>1. /\ e \in Exits /\ t \in Tickers /\ pc = "settle" /\ pc' = pc
      /\ OrdersOK' /\ Lasting /\ UNCHANGED laneVars
  BY Settling
<1>2. /\ Book = B /\ Outgoing = X /\ Incoming = I
      /\ Book' = run'.book /\ Outgoing' = run'.exits \cup run'.left /\ Incoming' = I
  BY <1>1 DEF Book, Outgoing, Incoming, InRun, laneVars
<1>3. run.exits \cap run.left = {} /\ X \in SUBSET Exits /\ I \in SUBSET Placed
      /\ B \in [Tickers -> 0..Lot] /\ e \in X
  BY <1>1, Fields, TypeParts DEF PhaseFit, Lists
<1>4. /\ ExitsFit(orders, B, X) /\ EntriesFit(orders, B, I) /\ SellsFit(orders, B, X)
      /\ Resting("buy") \subseteq I
      /\ \A u \in Tickers : Balanced(orders, shares[u], B[u], I, X, u)
  BY <1>2 DEF AccountFits
<1>5. orders[e.for].ticker = t
  BY DEF TickerOf
<1>6. B[t] > 0 /\ \A f \in X : orders[f.for].ticker = t => f = e
  BY <1>3, <1>4, <1>5 DEF ExitsFit
<1>7. \A f \in X : f.id \in Placed \cup {0} /\ f.for \in Placed
  BY <1>3 DEF Exits
<1>8. X \ {e} = (run.exits \ {e}) \cup run.left
  BY <1>3
<1>9. UNCHANGED shares
  BY DEF ExitUnread, SettleExit, RenewExit, RenewRefused, Place, venueVars
<1>10. Fine(orders) /\ DOMAIN orders = Placed /\ 0 \notin Placed
  BY OrdersFine DEF TypeInv, OrdersOK, Ids
<1>11. \A u \in Tickers : B[u] \in Int /\ shares[u] \in Int
  <2> TAKE u \in Tickers
  <2>1. B[u] \in 0..Lot BY <1>3
  <2> QED BY <2>1, Bounds
<1> HIDE DEF X, B, I, k
<1>12. CASE UNCHANGED orders /\ Settles(e, {}, [B EXCEPT ![t] = 0]) /\ IsSold(e)
  <2> DEFINE C == [B EXCEPT ![t] = 0]
             Y == X \ {e}
  <2>1. Book' = C /\ Outgoing' = Y
    BY <1>2, <1>3, <1>8, <1>12 DEF Settles
  <2>2. C[t] = 0 /\ \A u \in Tickers \ {t} : C[u] = B[u]
    BY <1>1, <1>3
  <2>3. \A f \in Y : orders[f.for].ticker \in Tickers \ {t}
    BY <1>6, <1>7 DEF TypeInv, OrdersOK, Order
  <2> HIDE DEF C
  <2>4. SellsFit(orders, C, Y)
    BY <1>4, <2>2, <2>3 DEF SellsFit
  <2>5. ASSUME NEW u \in Tickers PROVE Balanced(orders, shares[u], C[u], I, Y, u)
    <3>1. Balanced(orders, shares[u], B[u], I, X, u) BY <1>4
    <3>2. CASE u = t
      <4>1. Balanced(orders, shares[t], 0, I, X \ {e}, t)
        BY <1>1, <1>3, <1>4, <1>11, <1>12, <3>1, <3>2, SoldBalance
      <4> QED BY <2>2, <3>2, <4>1
    <3>3. CASE u # t
      <4>1. e.id # 0 /\ orders[e.id].ticker = t
        BY <1>3, <1>4, <1>5, <1>12 DEF IsSold, ExitsFit
      <4>2. \A i : i \in SellsOf(X) /\ i \notin SellsOf(Y) => i = e.id
        BY DEF SellsOf
      <4>3. SellsOf(Y) \subseteq SellsOf(X) BY DEF SellsOf
      <4>4. Traded(orders, SellsOf(Y), u) = Traded(orders, SellsOf(X), u)
        <5> DEFINE P == SellsOf(X)
                   Q == SellsOf(Y)
        <5>1. \A i \in Ids : i \in P /\ i \notin Q
                              => orders[i].ticker # u \/ orders[i].filled = 0
          BY <3>3, <4>1, <4>2
        <5>2. \A i \in Ids : i \in Q /\ i \notin P
                              => orders[i].ticker # u \/ orders[i].filled = 0
          BY <4>3
        <5> HIDE DEF P, Q
        <5>3. Traded(orders, Q, u) = Traded(orders, P, u) BY <5>1, <5>2, TradedSame
        <5> QED BY <5>3 DEF P, Q
      <4>5. Unsold(orders, Placed \ SellsOf(Y), u) = Unsold(orders, Placed \ SellsOf(X), u)
        <5> DEFINE V(S, i) == IF /\ i \in Placed \ S /\ orders[i].side = "sell"
                                 /\ orders[i].ticker = u
                                 /\ orders[i].status = "canceled" /\ orders[i].filled > 0
                              THEN orders[i].qty - orders[i].filled ELSE 0
        <5>1. ASSUME NEW i \in Ids PROVE V(SellsOf(Y), i) = V(SellsOf(X), i)
          <6>1. CASE i = e.id BY <3>3, <4>1, <6>1
          <6>2. CASE i # e.id
            <7>1. i \in SellsOf(X) <=> i \in SellsOf(Y) BY <4>2, <4>3, <6>2
            <7> QED BY <7>1
          <6> QED BY <6>1, <6>2
        <5>2. /\ Unsold(orders, Placed \ SellsOf(Y), u) = [i \in Ids |-> V(SellsOf(Y), i)]
              /\ Unsold(orders, Placed \ SellsOf(X), u) = [i \in Ids |-> V(SellsOf(X), i)]
          BY DEF Unsold
        <5> HIDE DEF V
        <5> QED BY <5>1, <5>2
      <4>6. C[u] = B[u] BY <2>2, <3>3
      <4> QED BY <1>10, <3>1, <4>4, <4>5, <4>6 DEF Balanced
    <3> QED BY <3>2, <3>3
  <2>6. Resting("buy")' \subseteq I BY <1>4, <1>12 DEF Resting, Placed
  <2>7. AccountFits'
    BY <1>2, <1>9, <1>12, <2>1, <2>4, <2>5, <2>6 DEF AccountFits
  <2> QED BY <1>9, <1>12, <2>7
<1>13. CASE UNCHANGED orders /\ Settles(e, {e}, B)
  <2>1. Book' = B /\ Outgoing' = X
    BY <1>2, <1>3, <1>8, <1>13 DEF Settles
  <2>2. AccountFits' BY <1>2, <1>9, <1>13, <2>1, StillAccount
  <2> QED BY <1>9, <1>13, <2>2
<1>14. CASE IsDead(e) /\ Place(t, "sell", B[t]) /\ Settles(e, {k}, B)
  <2> DEFINE Y == (X \ {e}) \cup {k}
             N == NextId
             q == B[t]
  <2>1. Book' = B /\ Outgoing' = Y
    BY <1>2, <1>8, <1>14 DEF Settles
  <2>2. k.for = e.for /\ k.id = NextId
    BY <1>1 DEF k, Exits, ExitEntry
  <2>3. q \in 1..Lot /\ Place(t, "sell", q)
    <3>1. q \in 0..Lot /\ q > 0 BY <1>1, <1>3, <1>6
    <3> HIDE DEF q
    <3>2. q \in 1..Lot BY <3>1, Bounds
    <3> QED BY <1>14, <3>2 DEF q
  <2>4. /\ N \notin Placed /\ Placed' = Placed \cup {N}
        /\ \A i \in Placed : orders'[i] = orders[i]
        /\ orders'[N] = NewOrder(t, "sell", q)
    <3>1. "sell" \in {"buy", "sell"} OBVIOUS
    <3> HIDE DEF q
    <3> QED BY <1>1, <2>3, <3>1, Grows
  <2>5. /\ orders'[N].ticker = t /\ orders'[N].side = "sell" /\ orders'[N].qty = q
        /\ orders'[N].filled = 0 /\ orders'[N].status = "new"
    BY <2>4 DEF NewOrder
  <2>6. e.id \in Placed => orders[e.id].filled = 0
    BY <1>10, <1>14 DEF IsDead
  <2>7. N # 0
    <3>1. N \in Ids BY <2>4, <1>1 DEF OrdersOK
    <3> QED BY <3>1 DEF Ids
  <2>8. /\ SellsOf(X) \subseteq Placed
        /\ \A i : i \in SellsOf(X) <=> i # 0 /\ \E f \in X : f.id = i
    BY <1>3, SellsArePlaced
  <2>9. \A i : i \in SellsOf(Y) <=> i # 0 /\ \E f \in Y : f.id = i
    BY DEF SellsOf
  <2> HIDE DEF N, q
  <2>10. N \in SellsOf(Y) /\ \A i : i \in SellsOf(Y) <=> i = N \/ (i # 0 /\ \E f \in X \ {e} : f.id = i)
    BY <2>2, <2>7, <2>9 DEF N
  <2>11. \A i : i \in SellsOf(X) /\ i \notin SellsOf(Y) => i = e.id
    BY <2>8, <2>10
  <2>12. \A i : i \in SellsOf(Y) /\ i \notin SellsOf(X) => i = N
    BY <2>8, <2>10
  <2>13. SellsFit(orders', B, Y)
    <3>1. ASSUME NEW f \in X \ {e}, f.id # 0
          PROVE  orders'[f.id].side = "sell" /\ orders'[f.id].qty = B[orders'[f.for].ticker]
      <4>1. f.id \in Placed /\ f.for \in Placed BY <1>7, <3>1
      <4> QED BY <1>4, <2>4, <3>1, <4>1 DEF SellsFit
    <3>2. orders'[k.id].side = "sell" /\ orders'[k.id].qty = B[orders'[k.for].ticker]
      <4>1. orders'[e.for] = orders[e.for] BY <1>3, <1>7, <2>4
      <4> QED BY <1>5, <2>2, <2>5, <4>1 DEF N, q
    <3> QED BY <3>1, <3>2 DEF SellsFit
  <2>14. ASSUME NEW u \in Tickers PROVE Balanced(orders', shares[u], B[u], I, Y, u)
    <3>1. Balanced(orders, shares[u], B[u], I, X, u) BY <1>4
    <3>2. Traded(orders', I, u) = Traded(orders, I, u)
      <4>1. \A i \in Ids : i \in I /\ i \in I => orders'[i].ticker = orders[i].ticker
                                               /\ orders'[i].filled = orders[i].filled
        BY <1>3, <2>4
      <4> QED BY <4>1, TradedSame
    <3>3. Traded(orders', SellsOf(Y), u) = Traded(orders, SellsOf(X), u)
      <4> DEFINE P == SellsOf(X)
                 Q == SellsOf(Y)
      <4>1. \A i \in Ids : i \in P /\ i \in Q
              => orders'[i].ticker = orders[i].ticker /\ orders'[i].filled = orders[i].filled
        BY <2>4, <2>8
      <4>2. \A i \in Ids : i \in P /\ i \notin Q
              => orders[i].ticker # u \/ orders[i].filled = 0
        BY <2>6, <2>8, <2>11
      <4>3. \A i \in Ids : i \in Q /\ i \notin P
              => orders'[i].ticker # u \/ orders'[i].filled = 0
        BY <2>5, <2>12
      <4> HIDE DEF P, Q
      <4>4. Traded(orders', Q, u) = Traded(orders, P, u)
        BY <4>1, <4>2, <4>3, TradedSame
      <4> QED BY <4>4 DEF P, Q
    <3>4. Unsold(orders', Placed' \ SellsOf(Y), u) = Unsold(orders, Placed \ SellsOf(X), u)
      <4> DEFINE P == Placed \ SellsOf(X)
                 Q == Placed' \ SellsOf(Y)
      <4>1. \A i \in Ids : i \in P /\ i \in Q => orders'[i] = orders[i]
        BY <2>4
      <4>2. \A i \in Ids : i \in P /\ i \notin Q =>
              ~ (orders[i].side = "sell" /\ orders[i].status = "canceled" /\ orders[i].filled > 0)
        <5>1. \A i \in Ids : i \in P /\ i \notin Q => i = N BY <2>4, <2>12
        <5> QED BY <2>4, <5>1
      <4>3. \A i \in Ids : i \in Q /\ i \notin P =>
              ~ (orders'[i].side = "sell" /\ orders'[i].status = "canceled" /\ orders'[i].filled > 0)
        <5>1. \A i \in Ids : i \in Q /\ i \notin P => i = e.id /\ i \in Placed
          BY <2>4, <2>8, <2>10, <2>11
        <5>2. e.id \in Placed => ~ (orders'[e.id].filled > 0) BY <2>4, <2>6
        <5> QED BY <5>1, <5>2
      <4> HIDE DEF P, Q
      <4>4. Unsold(orders', Q, u) = Unsold(orders, P, u)
        BY <4>1, <4>2, <4>3, UnsoldSame
      <4> QED BY <4>4 DEF P, Q
    <3>5. DOMAIN orders' = Placed' BY DEF Placed
    <3> QED BY <1>10, <3>1, <3>2, <3>3, <3>4, <3>5 DEF Balanced
  <2>15. Resting("buy")' \subseteq I
    <3>1. \A i \in Placed' : orders'[i].side = "buy" /\ orders'[i].status = "new"
             => i \in Placed /\ orders[i].side = "buy" /\ orders[i].status = "new"
      BY <2>4, <2>5
    <3> QED BY <1>4, <3>1 DEF Resting
  <2>16. Whole(orders')
    BY <1>10, <2>4, <2>5 DEF Whole, Placed
  <2>17. AccountFits'
    BY <1>2, <1>9, <2>1, <2>13, <2>14, <2>15 DEF AccountFits
  <2> QED BY <1>9, <2>16, <2>17
<1>15. \/ UNCHANGED orders /\ B[t] = 0
       \/ UNCHANGED orders /\ Settles(e, {}, [B EXCEPT ![t] = 0]) /\ IsSold(e)
       \/ UNCHANGED orders /\ Settles(e, {e}, B)
       \/ IsDead(e) /\ Place(t, "sell", B[t]) /\ Settles(e, {k}, B)
  BY Settling DEF B, k
<1>16. ~ (B[t] = 0) BY <1>6
<1> QED BY <1>12, <1>13, <1>14, <1>15, <1>16

\* What one order of the list adds to its sum.
LEMMA TakenOut ==
  ASSUME NEW o, Fine(o), NEW I \in SUBSET DOMAIN o, NEW i \in I
  PROVE  Total(Traded(o, I, o[i].ticker))
           = Total(Traded(o, I \ {i}, o[i].ticker)) + o[i].filled
<1> DEFINE t == o[i].ticker
           z == o[i].filled
           a == Traded(o, I, t)
           b == Traded(o, I \ {i}, t)
           g == [j \in Ids |-> IF j = i THEN z ELSE 0]
<1>1. i \in Ids /\ z \in 0..Lot BY DEF Fine, Order
<1>2. a \in Counts /\ b \in Counts
  <2>1. I \ {i} \in SUBSET DOMAIN o OBVIOUS
  <2> QED BY <2>1, AreCounts
<1>3. g \in Counts
  <2>1. 0 \in 0..Lot BY Bounds
  <2> QED BY <1>1, <2>1 DEF Counts
<1>4. ASSUME NEW j \in Ids PROVE a[j] = b[j] + g[j]
  <2>0. b[j] \in Nat /\ z \in Nat
    <3>1. b[j] \in 0..Lot BY <1>2 DEF Counts
    <3> HIDE DEF b, z
    <3> QED BY <1>1, <3>1, Bounds
  <2>1. CASE j = i
    <3>1. a[j] = z /\ b[j] = 0 /\ g[j] = z BY <1>1, <2>1 DEF Traded
    <3> HIDE DEF a, b, g, z
    <3> QED BY <2>0, <3>1
  <2>2. CASE j # i
    <3>1. a[j] = b[j] /\ g[j] = 0 BY <2>2 DEF Traded
    <3> HIDE DEF a, b, g, z
    <3> QED BY <2>0, <3>1
  <2> QED BY <2>1, <2>2
<1>5. g[i] = z /\ \A j \in Ids \ {i} : g[j] = 0 BY <1>1
<1> HIDE DEF a, b, g, z, t
<1>6. Total(a) = Total(b) + Total(g) BY <1>2, <1>3, <1>4, TotalAdd
<1>7. Total(g) = z BY <1>1, <1>3, <1>5, TotalOne
<1> QED BY <1>6, <1>7 DEF a, b, z, t

LEMMA AbsorbingAccount ==
  ASSUME TypeInv, shares \in [Tickers -> Int], Whole(orders), AccountFits, NEW i \in run.entries,
         EntryUnread(i) \/ AbsorbFill(i) \/ AbsorbRefused(i) \/ AbsorbNone(i),
         faults' = faults,
         ExitsFit(orders, Book, Outgoing), EntriesFit(orders, Book, Incoming), PhaseFit
  PROVE  Whole(orders') /\ UNCHANGED shares /\ AccountFits'
<1> DEFINE t == orders[i].ticker
           z == orders[i].filled
           X == run.exits \cup run.left
           B == run.book
           I == run.entries \cup run.unread
           J == I \ {i}
           C == [B EXCEPT ![t] = z]
           x(n) == [for |-> i, id |-> n]
<1>1. /\ i \in Placed /\ pc = "absorb" /\ pc' = pc
      /\ OrdersOK' /\ Lasting /\ UNCHANGED <<day, laneVars>>
  BY Absorbing
<1>2. /\ Book = B /\ Outgoing = X /\ Incoming = I
      /\ Book' = run'.book /\ Outgoing' = run'.exits \cup run'.left
      /\ Incoming' = run'.entries \cup run'.unread
  BY <1>1 DEF Book, Outgoing, Incoming, InRun
<1>3. /\ X \in SUBSET Exits /\ I \in SUBSET Placed /\ B \in [Tickers -> 0..Lot] /\ i \in I
      /\ run.entries \cap run.unread = {}
  BY <1>1, Fields DEF TypeInv, Stage
<1>4. /\ ExitsFit(orders, B, X) /\ EntriesFit(orders, B, I) /\ SellsFit(orders, B, X)
      /\ Resting("buy") \subseteq I
      /\ \A u \in Tickers : Balanced(orders, shares[u], B[u], I, X, u)
  BY <1>2 DEF AccountFits
<1>5. orders[i] \in Order
  BY <1>1 DEF TypeInv, OrdersOK
<1>6. t \in Tickers /\ z \in 0..Lot /\ z \in Nat
  <2>1. t \in Tickers /\ z \in 0..Lot BY <1>5 DEF Order
  <2> HIDE DEF z, t
  <2> QED BY <2>1, Bounds
<1>7. orders[i].side = "buy" /\ B[t] = 0
  BY <1>3, <1>4 DEF EntriesFit
<1>8. \A f \in X : /\ orders[f.for].ticker # t /\ orders[f.for].ticker \in Tickers
                   /\ f.for \in Placed /\ f.id \in Placed \cup {0}
  <2>1. \A f \in X : B[orders[f.for].ticker] > 0 /\ f.for \in Placed /\ f.id \in Placed \cup {0}
    BY <1>3, <1>4 DEF ExitsFit, Exits
  <2>2. \A j \in Placed : orders[j].ticker \in Tickers
    BY DEF TypeInv, OrdersOK, Order
  <2> QED BY <1>7, <2>1, <2>2
<1>9. Bought(i) = C
  BY <1>3, <1>6, <1>7 DEF Bought
<1>10. C[t] = z /\ \A u \in Tickers \ {t} : C[u] = B[u]
  BY <1>3, <1>6
<1>11. /\ (run.entries \ {i}) \cup run.unread = J
       /\ (run.entries \ {i}) \cup (run.unread \cup {i}) = I
  BY <1>3
<1>12. UNCHANGED shares
  BY DEF EntryUnread, AbsorbFill, AbsorbRefused, AbsorbNone, Place, venueVars
<1>13. Fine(orders) /\ DOMAIN orders = Placed /\ 0 \notin Placed
  BY OrdersFine DEF TypeInv, OrdersOK, Ids
<1>14. \A u \in Tickers : B[u] \in Int /\ shares[u] \in Int
  <2> TAKE u \in Tickers
  <2>1. B[u] \in 0..Lot BY <1>3
  <2> QED BY <2>1, Bounds
<1>15. /\ SellsOf(X) \subseteq Placed
       /\ \A j : j \in SellsOf(X) <=> j # 0 /\ \E f \in X : f.id = j
  BY <1>3, SellsArePlaced
\* The fill moves from the entries into the book.
<1>16. ASSUME NEW u \in Tickers PROVE Balanced(orders, shares[u], C[u], J, X, u)
  <2> DEFINE a == Total(Traded(orders, I, u))
             b == Total(Traded(orders, J, u))
             c == Total(Traded(orders, SellsOf(X), u))
             d == Total(Unsold(orders, Placed \ SellsOf(X), u))
  <2>1. shares[u] = B[u] + a - c + d BY <1>4, <1>13 DEF Balanced
  <2>2. a \in Nat /\ b \in Nat /\ c \in Nat /\ d \in Nat
    <3>1. /\ Traded(orders, I, u) \in Counts /\ Traded(orders, J, u) \in Counts
          /\ Traded(orders, SellsOf(X), u) \in Counts
          /\ Unsold(orders, Placed \ SellsOf(X), u) \in Counts
      <4>1. /\ I \in SUBSET DOMAIN orders /\ J \in SUBSET DOMAIN orders
            /\ SellsOf(X) \in SUBSET DOMAIN orders
            /\ Placed \ SellsOf(X) \in SUBSET DOMAIN orders
        BY <1>3, <1>13, <1>15
      <4> HIDE DEF I, J, X
      <4> QED BY <1>13, <4>1, AreCounts
    <3> QED BY <3>1, SharesAre
  <2>3. B[u] + a = C[u] + b
    <3>1. CASE u = t
      <4>1. a = b + z
        <5>1. I \in SUBSET DOMAIN orders BY <1>3, <1>13
        <5> HIDE DEF I
        <5>2. Total(Traded(orders, I, orders[i].ticker))
                = Total(Traded(orders, I \ {i}, orders[i].ticker)) + orders[i].filled
          BY <1>3, <1>13, <5>1, TakenOut
        <5> QED BY <3>1, <5>2
      <4>2. B[u] = 0 /\ C[u] = z BY <1>7, <1>10, <3>1
      <4> HIDE DEF a, b, B, C, z
      <4> QED BY <1>6, <2>2, <4>1, <4>2
    <3>2. CASE u # t
      <4>1. Traded(orders, J, u) = Traded(orders, I, u)
        <5>1. \A j \in Ids : j \in I /\ j \notin J => orders[j].ticker # u \/ orders[j].filled = 0
          BY <3>2
        <5>2. \A j \in Ids : j \in J => j \in I OBVIOUS
        <5> HIDE DEF I, J
        <5> QED BY <5>1, <5>2, TradedSame
      <4>2. a = b BY <4>1
      <4>3. C[u] = B[u] BY <1>10, <3>2
      <4> QED BY <4>2, <4>3
    <3> QED BY <3>1, <3>2
  <2>4. C[u] \in Int
    <3>1. CASE u = t
      <4>1. C[u] = z BY <1>10, <3>1
      <4> HIDE DEF C, z
      <4> QED BY <1>6, <4>1
    <3>2. CASE u # t
      <4>1. C[u] = B[u] /\ B[u] \in Int BY <1>10, <1>14, <3>2
      <4> QED BY <4>1
    <3> QED BY <3>1, <3>2
  <2> HIDE DEF a, b, c, d, B, C
  <2>5. shares[u] = C[u] + b - c + d BY <1>14, <2>1, <2>2, <2>3, <2>4
  <2> QED BY <1>13, <2>5 DEF Balanced, b, c, d
<1> HIDE DEF t, z, X, B, I, J, C, x
<1>17. CASE UNCHANGED orders /\ orders[i].status = "new"
            /\ Absorbs(i, {}, B, run.unread \cup {i})
  <2>1. Book' = B /\ Outgoing' = X /\ Incoming' = I
    BY <1>2, <1>11, <1>17 DEF Absorbs, X
  <2>2. AccountFits' BY <1>2, <1>12, <1>17, <2>1, StillAccount
  <2> QED BY <1>12, <1>17, <2>2
<1>18. CASE /\ UNCHANGED orders /\ orders[i].status # "new" /\ orders[i].filled = 0
            /\ Absorbs(i, {}, B, run.unread)
  <2>1. Book' = B /\ Outgoing' = X /\ Incoming' = J
    BY <1>2, <1>11, <1>18 DEF Absorbs, X
  <2>2. ASSUME NEW u \in Tickers PROVE Balanced(orders, shares[u], B[u], J, X, u)
    <3>1. Balanced(orders, shares[u], C[u], J, X, u) BY <1>16
    <3>2. C[u] = B[u]
      <4>1. CASE u = t BY <1>7, <1>10, <1>18, <4>1 DEF z
      <4>2. CASE u # t BY <1>10, <4>2
      <4> QED BY <4>1, <4>2
    <3> QED BY <3>1, <3>2
  <2>3. Resting("buy")' \subseteq J
    BY <1>4, <1>18 DEF Resting, Placed, J
  <2>4. AccountFits'
    BY <1>4, <1>12, <1>18, <2>1, <2>2, <2>3 DEF AccountFits
  <2> QED BY <1>12, <1>18, <2>4
<1>19. SellsFit(orders, C, X)
  BY <1>4, <1>8, <1>10 DEF SellsFit
<1>20. orders[i].filled > 0 => orders[i].status # "new"
  BY <1>1 DEF TypeInv, OrdersOK
<1>21. ASSUME NEW n, Absorbs(i, {x(n)}, Bought(i), run.unread)
       PROVE  Book' = C /\ Outgoing' = X \cup {x(n)} /\ Incoming' = J
  BY <1>2, <1>9, <1>11, <1>21 DEF Absorbs, X
<1>22. CASE UNCHANGED orders /\ orders[i].filled > 0
            /\ Absorbs(i, {x(0)}, Bought(i), run.unread)
  <2> DEFINE k == x(0)
             Y == X \cup {k}
  <2>1. Book' = C /\ Outgoing' = Y /\ Incoming' = J
    BY <1>21, <1>22
  <2>2. k.for = i /\ k.id = 0 BY DEF x
  <2> HIDE DEF k
  <2>3. SellsOf(Y) = SellsOf(X) BY <2>2 DEF SellsOf
  <2>4. SellsFit(orders, C, Y) BY <1>19, <2>2 DEF SellsFit
  <2>5. \A u \in Tickers : Balanced(orders, shares[u], C[u], J, Y, u)
    BY <1>16, <2>3 DEF Balanced
  <2>6. Resting("buy")' \subseteq J
    BY <1>4, <1>20, <1>22 DEF Resting, Placed, J
  <2>7. AccountFits'
    BY <1>12, <1>22, <2>1, <2>4, <2>5, <2>6 DEF AccountFits
  <2> QED BY <1>12, <1>22, <2>7
<1>23. CASE Place(t, "sell", orders[i].filled) /\ orders[i].filled > 0
            /\ Absorbs(i, {x(NextId)}, Bought(i), run.unread)
  <2> DEFINE N == NextId
             k == x(NextId)
             Y == X \cup {k}
  <2>1. Book' = C /\ Outgoing' = Y /\ Incoming' = J
    BY <1>21, <1>23
  <2>2. k.for = i /\ k.id = N BY DEF x
  <2>3. z \in 1..Lot /\ Place(t, "sell", z)
    <3>1. z > 0 /\ Place(t, "sell", z) BY <1>23 DEF z
    <3> QED BY <1>6, <3>1, Bounds
  <2>4. /\ N \notin Placed /\ Placed' = Placed \cup {N}
        /\ \A j \in Placed : orders'[j] = orders[j]
        /\ orders'[N] = NewOrder(t, "sell", z)
    <3>1. "sell" \in {"buy", "sell"} OBVIOUS
    <3> QED BY <1>6, <2>3, <3>1, Grows
  <2>5. /\ orders'[N].ticker = t /\ orders'[N].side = "sell" /\ orders'[N].qty = z
        /\ orders'[N].filled = 0 /\ orders'[N].status = "new"
    BY <2>4 DEF NewOrder
  <2>6. N # 0
    <3>1. N \in Ids BY <2>4, <1>1 DEF OrdersOK
    <3> QED BY <3>1 DEF Ids
  <2> HIDE DEF N, k
  <2>7. SellsOf(Y) = SellsOf(X) \cup {N}
    BY <1>15, <2>2, <2>6 DEF SellsOf
  <2>8. SellsFit(orders', C, Y)
    <3>1. ASSUME NEW f \in X, f.id # 0
          PROVE  orders'[f.id].side = "sell" /\ orders'[f.id].qty = C[orders'[f.for].ticker]
      <4>1. f.id \in Placed /\ f.for \in Placed BY <1>8, <3>1
      <4> QED BY <1>19, <2>4, <3>1, <4>1 DEF SellsFit
    <3>2. orders'[k.id].side = "sell" /\ orders'[k.id].qty = C[orders'[k.for].ticker]
      <4>1. orders'[i] = orders[i] BY <1>1, <2>4
      <4> QED BY <1>10, <2>2, <2>5, <4>1 DEF t
    <3> QED BY <3>1, <3>2 DEF SellsFit
  <2>9. ASSUME NEW u \in Tickers PROVE Balanced(orders', shares[u], C[u], J, Y, u)
    <3>1. Balanced(orders, shares[u], C[u], J, X, u) BY <1>16
    <3>2. Traded(orders', J, u) = Traded(orders, J, u)
      <4>1. \A j \in Ids : j \in J /\ j \in J => orders'[j].ticker = orders[j].ticker
                                               /\ orders'[j].filled = orders[j].filled
        BY <1>3, <2>4 DEF J
      <4> QED BY <4>1, TradedSame
    <3>3. Traded(orders', SellsOf(Y), u) = Traded(orders, SellsOf(X), u)
      <4> DEFINE P == SellsOf(X)
                 Q == SellsOf(Y)
      <4>1. \A j \in Ids : j \in P /\ j \in Q
              => orders'[j].ticker = orders[j].ticker /\ orders'[j].filled = orders[j].filled
        BY <1>15, <2>4
      <4>2. \A j \in Ids : j \in P => j \in Q BY <2>7
      <4>3. \A j \in Ids : j \in Q /\ j \notin P
              => orders'[j].ticker # u \/ orders'[j].filled = 0
        BY <2>5, <2>7
      <4> HIDE DEF P, Q
      <4>4. Traded(orders', Q, u) = Traded(orders, P, u)
        BY <4>1, <4>2, <4>3, TradedSame
      <4> QED BY <4>4 DEF P, Q
    <3>4. Unsold(orders', Placed' \ SellsOf(Y), u) = Unsold(orders, Placed \ SellsOf(X), u)
      <4> DEFINE P == Placed \ SellsOf(X)
      <4>1. Placed' \ SellsOf(Y) = P BY <2>4, <2>7
      <4>2. \A j \in Ids : j \in P /\ j \in P => orders'[j] = orders[j] BY <2>4
      <4> HIDE DEF P
      <4>3. Unsold(orders', P, u) = Unsold(orders, P, u) BY <4>2, UnsoldSame
      <4> QED BY <4>1, <4>3 DEF P
    <3>5. DOMAIN orders' = Placed' BY DEF Placed
    <3> QED BY <1>13, <3>1, <3>2, <3>3, <3>4, <3>5 DEF Balanced
  <2>10. Resting("buy")' \subseteq J
    <3>1. \A j \in Placed' : orders'[j].side = "buy" /\ orders'[j].status = "new"
             => j \in Placed /\ orders[j].side = "buy" /\ orders[j].status = "new"
      BY <2>4, <2>5
    <3>2. orders[i].status # "new" BY <1>20, <1>23
    <3> QED BY <1>4, <3>1, <3>2 DEF Resting, J
  <2>11. Whole(orders')
    BY <1>13, <2>4, <2>5 DEF Whole, Placed
  <2>12. AccountFits'
    BY <1>12, <2>1, <2>8, <2>9, <2>10 DEF AccountFits
  <2> QED BY <1>12, <2>11, <2>12
<1>24. \/ UNCHANGED orders /\ orders[i].status = "new"
          /\ Absorbs(i, {}, B, run.unread \cup {i})
       \/ /\ UNCHANGED orders /\ orders[i].status # "new" /\ orders[i].filled = 0
          /\ Absorbs(i, {}, B, run.unread)
       \/ /\ UNCHANGED orders /\ orders[i].filled > 0
          /\ Absorbs(i, {x(0)}, Bought(i), run.unread)
       \/ /\ Place(t, "sell", orders[i].filled) /\ orders[i].filled > 0
          /\ Absorbs(i, {x(NextId)}, Bought(i), run.unread)
  <2>1. faults' # faults + 1
    BY TypeParts, GapfadeAssumption DEF GapfadeAssumption, Lists
  <2> QED
    BY <2>1, Absorbing DEF B, t, x
<1> QED BY <1>17, <1>18, <1>22, <1>23, <1>24

LEMMA SubmitAccount ==
  ASSUME TypeInv, shares \in [Tickers -> Int], Whole(orders), AccountFits,
         NEW t \in Tickers, Submit(t)
  PROVE  Whole(orders') /\ UNCHANGED shares /\ AccountFits'
<1> DEFINE N == NextId
           I == run.unread
           J == I \cup {N}
           X == exitOrders
<1>1. /\ pc = "submit" /\ pc' = pc /\ UNCHANGED laneVars
      /\ OrdersOK' /\ Lasting /\ run'.entries = run.entries
  BY Submitting
<1>2. Place(t, "buy", Lot) /\ run' = [run EXCEPT !.picks = @ \ {t}, !.unread = @ \cup {NextId}]
  BY DEF Submit
<1>3. run'.unread = run.unread \cup {NextId}
  BY <1>2 DEF TypeInv, Memories
<1>4. /\ N \notin Placed /\ Placed' = Placed \cup {N}
      /\ \A i \in Placed : orders'[i] = orders[i]
      /\ orders'[N] = NewOrder(t, "buy", Lot)
  <2>1. "buy" \in {"buy", "sell"} /\ Lot \in 1..Lot
    BY GapfadeAssumption DEF GapfadeAssumption
  <2> QED BY <1>2, <2>1, Grows
<1>5. run.entries = {} /\ I \subseteq Placed
  BY <1>1, Fields DEF TypeInv, Stage
<1>6. /\ Book' = book /\ Outgoing' = X /\ Incoming' = J
      /\ Book = book /\ Outgoing = X /\ Incoming = I
  BY <1>1, <1>3, <1>5 DEF Book, Outgoing, Incoming, InRun, laneVars
<1>7. /\ orders'[N].side = "buy" /\ orders'[N].filled = 0 /\ orders'[N].status = "new"
  BY <1>4 DEF NewOrder
<1>8. UNCHANGED shares /\ DOMAIN orders = Placed /\ DOMAIN orders' = Placed'
  BY <1>2 DEF Place, Placed
<1>9. /\ X \in SUBSET Exits /\ SellsOf(X) \subseteq Placed
      /\ \A e \in X : e.for \in Placed /\ e.id \in Placed \cup {0}
  <2>1. X \in SUBSET Exits BY TypeParts DEF Lists
  <2> QED BY <2>1, SellsArePlaced DEF Exits
<1>10. /\ Resting("buy") \subseteq I /\ SellsFit(orders, book, X)
       /\ \A u \in Tickers : Balanced(orders, shares[u], book[u], I, X, u)
  BY <1>6 DEF AccountFits
<1> HIDE DEF N, I, X
<1>11. Resting("buy")' \subseteq J
  <2>1. \A j \in Placed' : orders'[j].side = "buy" /\ orders'[j].status = "new"
             => j = N \/ (j \in Placed /\ orders[j].side = "buy" /\ orders[j].status = "new")
    BY <1>4
  <2> QED BY <1>10, <2>1 DEF Resting
<1>12. SellsFit(orders', book, X)
  BY <1>4, <1>9, <1>10 DEF SellsFit
<1>13. ASSUME NEW u \in Tickers PROVE Balanced(orders', shares[u], book[u], J, X, u)
  <2> DEFINE S == SellsOf(X)
             D == Placed \ S
             E == Placed' \ S
  <2>1. Balanced(orders, shares[u], book[u], I, X, u) BY <1>10
  <2>2. Traded(orders', J, u) = Traded(orders, I, u)
    <3>1. \A j \in Ids : j \in I /\ j \in J => orders'[j].ticker = orders[j].ticker
                                             /\ orders'[j].filled = orders[j].filled
      BY <1>4, <1>5
    <3>2. \A j \in Ids : j \in I => j \in J OBVIOUS
    <3>3. \A j \in Ids : j \in J /\ j \notin I => orders'[j].ticker # u \/ orders'[j].filled = 0
      BY <1>7
    <3> HIDE DEF J
    <3> QED BY <3>1, <3>2, <3>3, TradedSame
  <2>3. Traded(orders', S, u) = Traded(orders, S, u)
    <3>1. \A j \in Ids : j \in S /\ j \in S => orders'[j].ticker = orders[j].ticker
                                             /\ orders'[j].filled = orders[j].filled
      BY <1>4, <1>9
    <3> HIDE DEF S
    <3> QED BY <3>1, TradedSame
  <2>4. Unsold(orders', E, u) = Unsold(orders, D, u)
    <3>1. \A j \in Ids : j \in D /\ j \in E => orders'[j] = orders[j] BY <1>4
    <3>2. \A j \in Ids : j \in D => j \in E BY <1>4
    <3>3. \A j \in Ids : j \in E /\ j \notin D =>
            ~ (orders'[j].side = "sell" /\ orders'[j].status = "canceled" /\ orders'[j].filled > 0)
      BY <1>4, <1>7
    <3> HIDE DEF D, E
    <3> QED BY <3>1, <3>2, <3>3, UnsoldSame
  <2> QED BY <1>8, <2>1, <2>2, <2>3, <2>4 DEF Balanced
<1>14. Whole(orders')
  BY <1>4, <1>7, <1>8 DEF Whole
<1>15. AccountFits'
  BY <1>6, <1>8, <1>11, <1>12, <1>13 DEF AccountFits, laneVars
<1> QED BY <1>8, <1>14, <1>15

\* An accepted order is new: no order is called filled before it is.
LEMMA PlacedWhole ==
  ASSUME Whole(orders), NEW t, NEW side, NEW qty, Place(t, side, qty)
  PROVE  Whole(orders') /\ UNCHANGED shares
<1> DEFINE P == Placed \cup {NextId}
<1>1. orders' = [i \in P |->
                  IF i \in Placed THEN orders[i]
                  ELSE [ticker |-> t, side |-> side, day |-> day, qty |-> qty,
                        filled |-> 0, status |-> "new"]]
  BY DEF Place
<1>2. ASSUME NEW i \in DOMAIN orders', orders'[i].status = "filled"
      PROVE  orders'[i].filled = orders'[i].qty
  <2>1. i \in P BY <1>1
  <2>2. CASE i \in Placed
    <3>1. orders'[i] = orders[i] BY <1>1, <2>1, <2>2
    <3> QED BY <1>2, <2>2, <3>1 DEF Whole, Placed
  <2>3. CASE i \notin Placed
    <3>1. orders'[i].status = "new" BY <1>1, <2>1, <2>3
    <3> QED BY <1>2, <3>1
  <2> QED BY <2>2, <2>3
<1>3. UNCHANGED shares BY DEF Place
<1> QED BY <1>2, <1>3 DEF Whole

\* Whatever a step does, the account counts whole shares, and a filled order
\* is filled to the last of them.
LEMMA Typed ==
  ASSUME TypeInv, shares \in [Tickers -> Int], Whole(orders), [Next]_vars
  PROVE  shares' \in [Tickers -> Int] /\ Whole(orders')
<1>1. ASSUME NEW side \in {"buy", "sell"}, Auction(side)
      PROVE  shares' \in [Tickers -> Int] /\ Whole(orders')
  <2>1. PICK f \in [Tickers -> Nat] :
           /\ shares' = [t \in Tickers |-> IF side = "buy" THEN shares[t] + f[t]
                                                           ELSE shares[t] - f[t]]
           /\ Whole(orders')
    BY <1>1, AuctionSums
  <2>2. \A t \in Tickers : shares[t] \in Int /\ f[t] \in Int
    OBVIOUS
  <2>3. \A t \in Tickers : shares[t] + f[t] \in Int /\ shares[t] - f[t] \in Int
    BY <2>2
  <2> QED BY <2>1, <2>3
<1>2. CASE UNCHANGED <<orders, shares>>
  BY <1>2 DEF Whole
<1>3. CASE \E t, side, qty : Place(t, side, qty)
  <2>1. PICK t, side, qty : Place(t, side, qty) BY <1>3
  <2> QED BY <2>1, PlacedWhole
<1>4. CASE OpeningAuction
  BY <1>1, <1>4 DEF OpeningAuction
<1>5. CASE ClosingAuction
  BY <1>1, <1>5 DEF ClosingAuction
<1>6. CASE \/ NextDay \/ Start \/ SettleDone \/ AbsorbDone \/ SignalUnread \/ Signal
           \/ SubmitDone \/ Crash \/ UNCHANGED vars
  <2>1. UNCHANGED <<orders, shares>>
    BY <1>6 DEF NextDay, Start, SettleDone, AbsorbDone, SignalUnread, Signal,
       SubmitDone, Crash, venueVars, vars
  <2> QED BY <1>2, <2>1
<1>7. CASE \E e \in run.exits :
             ExitUnread(e) \/ SettleExit(e) \/ RenewExit(e) \/ RenewRefused(e)
  <2>1. UNCHANGED <<orders, shares>> \/ \E t, side, qty : Place(t, side, qty)
    BY <1>7 DEF ExitUnread, SettleExit, RenewExit, RenewRefused, venueVars
  <2> QED BY <1>2, <1>3, <2>1
<1>8. CASE \E i \in run.entries :
             EntryUnread(i) \/ AbsorbFill(i) \/ AbsorbRefused(i) \/ AbsorbNone(i)
  <2>1. UNCHANGED <<orders, shares>> \/ \E t, side, qty : Place(t, side, qty)
    BY <1>8 DEF EntryUnread, AbsorbFill, AbsorbRefused, AbsorbNone, venueVars
  <2> QED BY <1>2, <1>3, <2>1
<1>9. CASE \E t \in Tickers : Submit(t) \/ SubmitRefused(t)
  <2>1. UNCHANGED <<orders, shares>> \/ \E t, side, qty : Place(t, side, qty)
    BY <1>9 DEF Submit, SubmitRefused, venueVars
  <2> QED BY <1>2, <1>3, <2>1
<1> QED BY <1>4, <1>5, <1>6, <1>7, <1>8, <1>9 DEF Next

LEMMA AccountStep ==
  ASSUME TypeInv, SoleInv, EntryInv, AccountInv, [Next]_vars
  PROVE  AccountInv'
<1>1. shares \in [Tickers -> Int] /\ Whole(orders)
  BY DEF AccountInv, Whole, Placed
<1>2. shares' \in [Tickers -> Int] /\ Whole(orders')
  BY <1>1, Typed
<1>3. \A i \in Placed' : orders'[i].status = "filled" => orders'[i].filled = orders'[i].qty
  BY <1>2 DEF Whole, Placed
<1>4. SUFFICES ASSUME faults' = 0 PROVE AccountFits'
  BY <1>2, <1>3 DEF AccountInv
<1>5. faults \in Nat
  BY TypeParts, GapfadeAssumption DEF GapfadeAssumption, Lists
<1>6. RestingToday BY DEF SoleInv
<1>7. faults = 0 => /\ ExitsFit(orders, Book, Outgoing) /\ EntriesFit(orders, Book, Incoming)
                    /\ PhaseFit /\ AccountFits
  BY DEF SoleInv, AccountInv
<1>8. CASE \/ OpeningAuction \/ ClosingAuction \/ NextDay \/ UNCHANGED vars
           \/ Start \/ SettleDone \/ AbsorbDone \/ SignalUnread \/ Signal \/ SubmitDone
           \/ \E t \in Tickers : SubmitRefused(t)
  <2>1. faults = 0
    BY <1>4, <1>8 DEF OpeningAuction, ClosingAuction, NextDay, vars, Start, SettleDone,
       AbsorbDone, SignalUnread, Signal, SubmitDone, SubmitRefused
  <2>2. Book' = Book /\ Outgoing' = Outgoing /\ Incoming' = Incoming
    BY <1>6, <1>7, <1>8, <2>1, ListsLast
  <2>3. UNCHANGED <<orders, shares>> \/ Auction("buy") \/ Auction("sell")
    BY <1>8 DEF OpeningAuction, ClosingAuction, NextDay, vars, venueVars, Start, SettleDone,
       AbsorbDone, SignalUnread, Signal, SubmitDone, SubmitRefused
  <2>4. CASE UNCHANGED <<orders, shares>>
    BY <1>7, <2>1, <2>2, <2>4, StillAccount
  <2>5. CASE Auction("buy") \/ Auction("sell")
    <3>1. "buy" \in {"buy", "sell"} /\ "sell" \in {"buy", "sell"} OBVIOUS
    <3> QED BY <1>1, <1>7, <2>1, <2>2, <2>5, <3>1, AuctionAccount
  <2> QED BY <2>3, <2>4, <2>5
<1>9. CASE Crash
  BY <1>4, <1>5, <1>9 DEF Crash
<1>10. CASE \E e \in run.exits :
             ExitUnread(e) \/ SettleExit(e) \/ RenewExit(e) \/ RenewRefused(e)
  <2>1. PICK e \in run.exits :
             ExitUnread(e) \/ SettleExit(e) \/ RenewExit(e) \/ RenewRefused(e)
    BY <1>10
  <2>2. faults' = faults \/ faults' = faults + 1
    BY <2>1, Settling
  <2>3. faults = 0
    BY <1>4, <1>5, <2>2
  <2> QED
    BY <1>1, <1>7, <2>1, <2>3, SettlingAccount
<1>11. CASE \E i \in run.entries :
             EntryUnread(i) \/ AbsorbFill(i) \/ AbsorbRefused(i) \/ AbsorbNone(i)
  <2>1. PICK i \in run.entries :
             EntryUnread(i) \/ AbsorbFill(i) \/ AbsorbRefused(i) \/ AbsorbNone(i)
    BY <1>11
  <2>2. faults' = faults \/ faults' = faults + 1
    BY <2>1, Absorbing
  <2>3. faults = 0 /\ faults' = faults
    BY <1>4, <1>5, <2>2
  <2> QED
    BY <1>1, <1>7, <2>1, <2>3, AbsorbingAccount
<1>12. CASE \E t \in Tickers : Submit(t)
  <2>1. PICK t \in Tickers : Submit(t)
    BY <1>12
  <2>2. faults' = faults
    BY <2>1, Submitting
  <2>3. faults = 0
    BY <1>4, <1>5, <2>2
  <2> QED
    BY <1>1, <1>7, <2>1, <2>3, SubmitAccount
<1> QED
  BY <1>8, <1>9, <1>10, <1>11, <1>12 DEF Next

LEMMA InitAccount == Init => AccountInv
<1> SUFFICES ASSUME Init PROVE AccountInv
  OBVIOUS
<1>1. Placed = {} /\ DOMAIN orders = {} /\ pc = "idle"
  BY DEF Init, Placed
<1>2. Book = book /\ Outgoing = {} /\ Incoming = {} /\ SellsOf({}) = {}
  BY <1>1 DEF Init, Book, Outgoing, Incoming, InRun, SellsOf
<1> DEFINE z == [i \in Ids |-> 0]
<1>3. Total(z) = 0
  <2>1. z \in Counts BY Bounds DEF Counts
  <2>2. z = [i \in Ids |-> z[i] + z[i]] OBVIOUS
  <2>3. \A i \in Ids : z[i] = z[i] + z[i] OBVIOUS
  <2>4. Total(z) \in Nat BY <2>1, SharesAre
  <2> HIDE DEF z
  <2>5. Total(z) = Total(z) + Total(z) BY <2>1, <2>3, TotalAdd
  <2> DEFINE a == Total(z)
  <2>6. a \in Nat /\ a = a + a BY <2>4, <2>5
  <2> HIDE DEF a
  <2>7. a = 0 BY <2>6
  <2> QED BY <2>7 DEF a
<1>4. ASSUME NEW t \in Tickers
      PROVE  Balanced(orders, shares[t], Book[t], Incoming, Outgoing, t)
  <2>1. Traded(orders, {}, t) = z BY DEF Traded
  <2>2. Unsold(orders, {}, t) = z BY DEF Unsold
  <2>3. DOMAIN orders \ SellsOf({}) = {} BY <1>1
  <2>4. shares[t] = 0 /\ book[t] = 0 BY DEF Init
  <2> HIDE DEF z
  <2>5. 0 = 0 + Total(z) - Total(z) + Total(z) BY <1>3
  <2> QED BY <1>2, <2>1, <2>2, <2>3, <2>4, <2>5 DEF Balanced
<1>5. shares \in [Tickers -> Int] BY DEF Init
<1>6. AccountFits BY <1>1, <1>2, <1>4 DEF AccountFits, SellsFit, Resting
<1> QED BY <1>1, <1>5, <1>6 DEF AccountInv

AllInv == TypeInv /\ EntryInv /\ SoleInv /\ AccountInv

LEMMA AllHold == Spec => []AllInv
<1>1. Init => AllInv
  BY InitTypes, InitEntries, InitSole, InitAccount DEF AllInv
<1>2. AllInv /\ [Next]_vars => AllInv'
  BY StepTypes, EntryStep, SoleStep, AccountStep DEF AllInv
<1> QED BY <1>1, <1>2, PTL DEF Spec

\* run_gapfade: the stores keep their types, and the account holds whole
\* shares, short or long, in every ticker.
THEOREM TypeCorrect == Spec => []TypeOK
<1>1. AllInv => TypeOK BY DEF AllInv, TypeInv, AccountInv, TypeOK
<1> QED BY <1>1, AllHold, PTL

\* run_gapfade: between two runs without a fault every share of the account is
\* in the book, in a fill still to be absorbed, or the rest of a closing order
\* that was filled in part and settled as if it were sold.
THEOREM AccountIsKnown == Spec => []AccountKnown
<1>1. ASSUME AllInv, pc = "idle", faults = 0, NEW t \in Tickers
      PROVE  shares[t] = book[t] + Filled(entryOrders, t)
                           - Filled(SellsOf(exitOrders), t) + LeftOver(t)
  <2>1. TypeInv /\ AccountFits BY <1>1 DEF AllInv, AccountInv
  <2>2. Book = book /\ Outgoing = exitOrders /\ Incoming = entryOrders
    BY <1>1 DEF Book, Outgoing, Incoming, InRun
  <2>3. Balanced(orders, shares[t], book[t], entryOrders, exitOrders, t)
    BY <2>1, <2>2 DEF AccountFits
  <2>4. /\ entryOrders \in SUBSET Placed /\ exitOrders \in SUBSET Exits
        /\ DOMAIN orders = Placed
    BY <2>1, TypeParts DEF Lists, Placed
  <2>5. SellsOf(exitOrders) \in SUBSET Placed BY <2>1, <2>4, SellsArePlaced
  <2>6. Filled(entryOrders, t) = Total(Traded(orders, entryOrders, t))
    BY <2>1, <2>4, FilledIs
  <2>7. Filled(SellsOf(exitOrders), t) = Total(Traded(orders, SellsOf(exitOrders), t))
    BY <2>1, <2>5, FilledIs
  <2>8. LeftOver(t) = Total(Unsold(orders, Placed \ SellsOf(exitOrders), t))
    BY <2>1, LeftOverIs
  <2> QED BY <2>3, <2>4, <2>6, <2>7, <2>8 DEF Balanced
<1>2. AllInv => AccountKnown BY <1>1 DEF AccountKnown
<1> QED BY <1>2, AllHold, PTL
=============================================================================
