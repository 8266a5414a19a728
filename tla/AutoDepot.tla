------------------------------ MODULE AutoDepot ------------------------------
(***************************************************************************)
(* The Auto-Depot (autotrader_engine.py, advance_depot): one book over all *)
(* sleeves that advances once per panel date.  An advance values the held  *)
(* positions from their persisted marks, fills at today's open what the    *)
(* previous advance decided, decides anew behind the drawdown breaker, and *)
(* commits everything in one transaction (persist_advance).                *)
(*                                                                         *)
(* What the code sums over the tickers is left open: the equity after the  *)
(* drift and after the fill is any that the signs of the moves and of the  *)
(* trades allow.  A weight is the target it was filled at.  A price is its *)
(* logarithm in steps, so the return between two closes is a difference,   *)
(* and the returns that a position books one after the other add up.       *)
(* Dates are relative: what closed since, and days since the last change.  *)
(***************************************************************************)
EXTENDS Integers

CONSTANTS
  Tickers,       \* some of the panel; a panel date may bring none of them a close
  Raws,          \* what the sleeves may ask for in one ticker, in halves
  Soft, Hard, RecoverSoft, RecoverHard,  \* percent of the peak
  CooldownDays,  \* days between two recovery steps
  Start,         \* initial_capital, in any unit
  MaxPrice,      \* bound: prices are 1..MaxPrice
  Equities,      \* bound: what the depot may be worth; 0 stands for nothing or less
  Payers,        \* the tickers that pay distributions
  Leavers        \* the tickers whose column may leave the panel

ASSUME DepotAssumption ==
  /\ Payers \subseteq Tickers /\ Leavers \subseteq Tickers
  /\ 0 \in Raws /\ \A r \in Raws : r \in Int /\ r % 2 = 0
  /\ RecoverSoft \in 0..Soft /\ Soft \in 0..Hard /\ RecoverHard \in 0..Hard
  /\ Hard \in 1..100
  /\ CooldownDays \in Nat /\ MaxPrice \in Nat \ {0}
  /\ Equities \subseteq Nat /\ 0 \in Equities /\ Start \in Equities \ {0}

VARIABLES
  price,     \* the last close of each ticker, in today's adjustment
  closed,    \* the tickers with a close on the panel's last date
  unseen,    \* closed after the date the depot last read
  columns,   \* the tickers with a column in the panel
  due,       \* the panel has a date after last_as_of
  asOf,      \* each ticker's close on or before last_as_of
  acct,      \* the persisted account
  entry,     \* history: the price a held position was opened at
  booked,    \* history: the moves the depot has booked for it since
  received   \* history: the distributions it was held through

market == <<price, closed, columns>>
history == <<entry, booked, received>>
vars == <<market, unseen, due, asOf, acct, history>>

Prices == 1..MaxPrice
NoPrice == 0
Flat == [t \in Tickers |-> 0]

Init ==
  /\ price \in [Tickers -> Prices] /\ asOf = price
  /\ closed = Tickers /\ unseen = {} /\ columns = Tickers
  /\ due = TRUE
  /\ acct = [equity |-> Start, peak |-> Start, weights |-> Flat,
             marks |-> Flat, pending |-> Flat, stage |-> 0,
             cooled |-> CooldownDays]
  /\ entry = Flat /\ booked = Flat /\ received = Flat

Held(t) == acct.weights[t] # 0

-----------------------------------------------------------------------------
(* The market: one more date in the panel. *)

\* What may still get a close for the date of the last advance: a held position
\* without a mark has no close of its own to be newer than.
MayLand == {t \in Tickers \ closed : ~due /\ (Held(t) => acct.marks[t] # NoPrice)}

\* Some tickers close; a close of an earlier date may land late (a lane's
\* valuation, a feed gap).  A distribution lowers the whole history before it, so
\* a close that stands still after one is a gain in total return.
Day ==
  \E c \in SUBSET Tickers, p \in [Tickers -> Prices], d \in SUBSET Payers,
     late \in SUBSET MayLand, kept \in SUBSET Leavers :
    /\ c \cap late = {} /\ d \subseteq c
    /\ \A t \in Tickers : p[t] # price[t] => t \in c \cup late
    /\ \A t \in d : received[t] = 0 /\ asOf[t] > 0   \* bound: distributions
    /\ price' = p /\ closed' = c /\ unseen' = unseen \cup c \cup late
    /\ columns' = (Tickers \ Leavers) \cup kept
    /\ due' = TRUE
    /\ asOf' = [t \in Tickers |-> CASE t \in late -> p[t]
                                     [] t \in d -> asOf[t] - 1
                                     [] OTHER -> asOf[t]]
    /\ acct' = [acct EXCEPT !.cooled =
                  IF @ < CooldownDays THEN @ + 1 ELSE @]
    /\ received' = [t \in Tickers |-> IF t \in d /\ Held(t) THEN 1 ELSE received[t]]
    /\ UNCHANGED <<entry, booked>>

-----------------------------------------------------------------------------
(* One advance. *)

\* A close newer than the ticker's mark, visible in today's panel.
Fresh(t) == t \in columns \cap unseen

\* Mutant: the window from last_as_of, whatever the mark says.
Mut_Window(t) == asOf[t]

\* The mark, or without one the close on or before last_as_of.
Base(t) == IF acct.marks[t] # NoPrice THEN acct.marks[t] ELSE asOf[t]

\* _mark_return: the move from the mark to a fresh close, 0 without one.
Move(t) == IF Fresh(t) THEN price[t] - Base(t) ELSE 0

Gain(t) == acct.weights[t] * Move(t)

\* The equity after the drift step.  It falls only by a loss or by the borrow
\* proxy of a short, and rises only by a gain.
DriftsTo(marked) ==
  /\ (\A t \in Tickers : Gain(t) >= 0 /\ acct.weights[t] >= 0) => marked >= acct.equity
  /\ (\A t \in Tickers : Gain(t) <= 0) => marked <= acct.equity

Peak(marked) == IF marked > acct.peak THEN marked ELSE acct.peak

DrawdownAtLeast(percent, marked) ==
  (Peak(marked) - marked) * 100 >= percent * Peak(marked)

\* _fill_price: today's open when there is one and the ticker closed today,
\* else the last close, else nothing.
FillPrice(t, open) ==
  CASE t \notin columns -> NoPrice
    [] t \in columns /\ t \in closed /\ open[t] # NoPrice -> open[t]
    [] OTHER -> price[t]

\* An order fills only for a weight that is off its target; as soon as something
\* held has moved, that is any weight in the book.
Traded(t) ==
  \/ acct.pending[t] # acct.weights[t]
  \/ Held(t) /\ \E u \in Tickers : Held(u) /\ Move(u) # 0

\* The open-to-close leg of a fill at the open; a close_fallback has none.
Leg(t, open) == IF FillPrice(t, open) # NoPrice THEN price[t] - FillPrice(t, open) ELSE 0

\* The equity after the fill: costs lower it, and only the open-to-close legs of
\* what was traded can raise it.
FillsTo(equity, marked, open) ==
  /\ (\A t \in Tickers : ~ Traded(t)) => equity = marked
  /\ (\A t \in Tickers : Traded(t) => Leg(t, open) = 0) => equity <= marked

\* Mutant: what leaves the book keeps its mark.
Mut_MarksKept ==
  [t \in Tickers |-> IF t \in columns THEN price[t] ELSE acct.marks[t]]

\* The marks of the filled book.  A held ticker without a newer close has its
\* last close as its mark already.
FinalMarks ==
  [t \in Tickers |->
    CASE acct.pending[t] = 0 -> NoPrice
      [] acct.pending[t] # 0 /\ t \in columns -> price[t]
      [] OTHER -> acct.marks[t]]

\* DrawdownBreaker._next_stage
Recovered(stage, marked) ==
  IF stage = 2 THEN ~ DrawdownAtLeast(RecoverHard, marked)
               ELSE stage = 1 /\ ~ DrawdownAtLeast(RecoverSoft, marked)

\* Mutant: a recovery without the cooldown.
Mut_NoCooldown(marked) ==
  CASE DrawdownAtLeast(Hard, marked) -> 2
    [] ~ DrawdownAtLeast(Hard, marked) /\ DrawdownAtLeast(Soft, marked)
         /\ acct.stage < 1 -> 1
    [] OTHER -> IF Recovered(acct.stage, marked) THEN acct.stage - 1 ELSE acct.stage

NextStage(marked) ==
  CASE DrawdownAtLeast(Hard, marked) -> 2
    [] ~ DrawdownAtLeast(Hard, marked) /\ DrawdownAtLeast(Soft, marked)
         /\ acct.stage < 1 -> 1
    [] OTHER -> IF acct.cooled >= CooldownDays /\ Recovered(acct.stage, marked)
                THEN acct.stage - 1 ELSE acct.stage

Scaled(w, stage) ==
  CASE stage = 0 -> w [] stage = 1 -> w \div 2 [] stage = 2 -> 0

\* Mutant: the breaker looks at the stage before.
Mut_OldStage(raw, stage) ==
  [t \in Tickers |-> IF t \in columns THEN Scaled(raw[t], acct.stage) ELSE 0]

\* What the sleeves decide, behind the cap, the regime gate and the vol target:
\* any target in a ticker the panel has, scaled by the breaker's stage.
Targets(raw, stage) ==
  [t \in Tickers |-> IF t \in columns THEN Scaled(raw[t], stage) ELSE 0]

\* Positions that cost the whole account: it never trades again.
Wipe ==
  /\ due /\ acct.equity > 0
  /\ DriftsTo(0)
  /\ acct' = [acct EXCEPT !.equity = 0, !.weights = Flat, !.marks = Flat,
                          !.pending = Flat]
  /\ due' = FALSE
  /\ unseen' = {} /\ asOf' = price
  /\ entry' = Flat /\ booked' = Flat /\ received' = Flat
  /\ UNCHANGED market

Advance ==
  /\ due /\ acct.equity > 0
  /\ \E open \in [Tickers -> Prices \cup {NoPrice}], raw \in [Tickers -> Raws],
        marked \in Equities \ {0}, equity \in Equities :
       /\ \A t \in Tickers : open[t] # NoPrice => t \in closed /\ Traded(t)
       /\ DriftsTo(marked) /\ FillsTo(equity, marked, open)
       /\ acct' = [equity |-> equity,
                   peak |-> IF equity > Peak(marked) THEN equity ELSE Peak(marked),
                   weights |-> acct.pending,
                   marks |-> FinalMarks,
                   pending |-> Targets(raw, NextStage(marked)),
                   stage |-> NextStage(marked),
                   cooled |-> IF NextStage(marked) = acct.stage THEN acct.cooled ELSE 0]
       /\ entry' = [t \in Tickers |->
            CASE acct.pending[t] = 0 -> 0
              [] acct.pending[t] # 0 /\ Held(t) -> entry[t]
              [] OTHER -> price[t] - Leg(t, open)]
       /\ booked' = [t \in Tickers |->
            CASE acct.pending[t] = 0 -> 0
              [] acct.pending[t] # 0 /\ Held(t) -> booked[t] + Move(t)
              [] OTHER -> Leg(t, open)]
  /\ due' = FALSE
  /\ unseen' = {t \in unseen \ columns : FinalMarks[t] # NoPrice}
  /\ asOf' = price
  /\ received' = [t \in Tickers |-> IF acct.pending[t] = 0 THEN 0 ELSE received[t]]
  /\ UNCHANGED market

Next == Day \/ Advance \/ Wipe

Spec == Init /\ [][Next]_vars

\* The nightly chain runs every night and the panel gets a new date every
\* trading day.
FairSpec == Spec /\ WF_vars(Day) /\ WF_vars(Advance) /\ WF_vars(Wipe)

-----------------------------------------------------------------------------
(* Properties.                                                             *)

Halves == {0} \cup {r \div 2 : r \in Raws} \cup Raws

\* Every variable has its type, and a ticker that is not held keeps no mark, so
\* that one bought again later starts from its own price (step 6, final_marks).
TypeOK ==
  /\ price \in [Tickers -> Prices] /\ asOf \in [Tickers -> 0..MaxPrice]
  /\ closed \subseteq Tickers /\ unseen \subseteq Tickers /\ columns \subseteq Tickers
  /\ due \in BOOLEAN
  /\ DOMAIN acct = {"equity", "peak", "weights", "marks", "pending", "stage", "cooled"}
  /\ acct.equity \in Equities /\ acct.peak \in Equities /\ acct.peak >= Start
  /\ acct.weights \in [Tickers -> Halves] /\ acct.pending \in [Tickers -> Halves]
  /\ acct.marks \in [Tickers -> Prices \cup {NoPrice}]
  /\ \A t \in Tickers : ~ Held(t) => acct.marks[t] = NoPrice
  /\ acct.stage \in 0..2 /\ acct.cooled \in 0..CooldownDays
  /\ entry \in [Tickers -> Int] /\ booked \in [Tickers -> Int]
  /\ received \in [Tickers -> 0..1]

\* No move of a held ticker is booked twice and none is skipped: once its last
\* close is read, what the depot has booked for the position since it was opened
\* is the whole way from the fill to that close, through stale closes, gaps of
\* several nights, resized orders, opens and close fallbacks (_mark_return, the
\* intraday attribution, final_marks).
EveryMoveOnce ==
  \A t \in Tickers : Held(t) /\ t \notin unseen => booked[t] = price[t] - entry[t]

ObeysStage(w, stage) == \A t \in Tickers : w[t] \in {Scaled(r, stage) : r \in Raws}

\* The book an advance fills obeys the stage the breaker had reached when it
\* was decided, one advance earlier: half exposure, or cash.
BookFollowsStage ==
  [][acct'.weights # acct.weights => ObeysStage(acct'.weights, acct.stage)]_vars

\* Recovery goes one stage at a time and only a whole cooldown after the last
\* change, whatever the drawdown did since; a change restarts it.
OneStageBack ==
  [][/\ acct'.stage < acct.stage
       => acct'.stage = acct.stage - 1 /\ acct.cooled = CooldownDays
     /\ acct'.stage # acct.stage => acct'.cooled = 0]_vars

\* The hard stage stops the loss: once it has emptied the book, the equity does
\* not move until the breaker recovers.
CashStopsLoss ==
  [][acct.stage = 2 /\ acct.weights = Flat => acct'.equity = acct.equity]_vars

\* A position is closed at its last close: its last move is booked before it
\* leaves (autotrader_engine.py:190-192, "nothing is ever silently lost").
NothingLost ==
  [][\A t \in Tickers : Held(t) /\ acct'.weights[t] = 0 /\ acct'.equity # 0
       => t \in columns \/ t \notin unseen]_vars

\* A holder's distributions are part of the return (market.py:8-11: returns are
\* computed from adjusted close, splits and dividends).
ReturnsAreTotal ==
  \A t \in Tickers :
    Held(t) /\ t \notin unseen => booked[t] = price[t] - entry[t] + received[t]

\* A depot the hard stage put into cash comes back (README.md:257, "staged
\* recovery after a cooldown").
BreakerRecovers == acct.stage = 2 /\ acct.equity > 0 ~> acct.stage < 2
=============================================================================
