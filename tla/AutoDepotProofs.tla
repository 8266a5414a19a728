--------------------------- MODULE AutoDepotProofs ---------------------------
(***************************************************************************)
(* What the drawdown breaker guarantees for every value of the constants:  *)
(* its stage falls by one step per cooldown, the book that fills obeys the *)
(* stage it was decided under, and an emptied book keeps its equity.  Then *)
(* what the marks are for: every move of a held ticker is booked once.     *)
(***************************************************************************)
EXTENDS AutoDepot, TLAPS

Fields == {"equity", "peak", "weights", "marks", "pending", "stage", "cooled"}

\* The strengthening: the account keeps its fields, the breaker its range, and
\* the pending orders are what the persisted stage allows.
BreakerInv ==
  /\ DOMAIN acct = Fields
  /\ acct.stage \in 0..2
  /\ acct.cooled \in 0..CooldownDays
  /\ ObeysStage(acct.pending, acct.stage)

\* A book in cash obeys every stage.
LEMMA FlatObeys == ASSUME NEW s \in 0..2 PROVE ObeysStage(Flat, s)
<1>1. 0 \in Raws BY DepotAssumption DEF DepotAssumption
<1>2. Scaled(0, s) = 0 BY DEF Scaled
<1> QED BY <1>1, <1>2 DEF ObeysStage, Flat

\* What is decided under a stage obeys it.
LEMMA TargetsObey ==
  ASSUME NEW s \in 0..2, NEW raw \in [Tickers -> Raws]
  PROVE  ObeysStage(Targets(raw, s), s)
<1> SUFFICES ASSUME NEW t \in Tickers
             PROVE  Targets(raw, s)[t] \in {Scaled(r, s) : r \in Raws}
  BY DEF ObeysStage
<1>1. CASE t \in columns
  BY <1>1 DEF Targets
<1>2. CASE t \notin columns
  <2>1. Flat[t] \in {Scaled(r, s) : r \in Raws} BY FlatObeys DEF ObeysStage
  <2> QED BY <1>2, <2>1 DEF Targets, Flat
<1> QED BY <1>1, <1>2

\* The breaker stays in its range, and falls by one stage after a whole cooldown.
LEMMA NextStageIsAStep ==
  ASSUME BreakerInv, NEW marked
  PROVE  /\ NextStage(marked) \in 0..2
         /\ NextStage(marked) < acct.stage
              => NextStage(marked) = acct.stage - 1 /\ acct.cooled = CooldownDays
<1> DEFINE hard == DrawdownAtLeast(Hard, marked)
           soft == DrawdownAtLeast(Soft, marked)
           up == Recovered(acct.stage, marked)
           next == NextStage(marked)
<1> SUFFICES next \in 0..2
             /\ (next < acct.stage => next = acct.stage - 1 /\ acct.cooled = CooldownDays)
  OBVIOUS
<1>0. acct.stage \in 0..2 /\ acct.cooled \in 0..CooldownDays /\ CooldownDays \in Nat
  BY DepotAssumption DEF BreakerInv, DepotAssumption
<1>1. up => acct.stage \in 1..2
  BY <1>0 DEF Recovered
<1>2. next = CASE hard -> 2
               [] ~ hard /\ soft /\ acct.stage < 1 -> 1
               [] OTHER -> IF acct.cooled >= CooldownDays /\ up
                           THEN acct.stage - 1 ELSE acct.stage
  BY DEF NextStage
<1> HIDE DEF hard, soft, up, next
<1>3. CASE hard
  <2>1. next = 2 BY <1>2, <1>3
  <2> QED BY <1>0, <2>1
<1>4. CASE ~ hard /\ soft /\ acct.stage < 1
  <2>1. next = 1 BY <1>2, <1>4
  <2> QED BY <1>0, <1>4, <2>1
<1>5. CASE ~ hard /\ ~ (soft /\ acct.stage < 1)
  <2>1. next = IF acct.cooled >= CooldownDays /\ up
               THEN acct.stage - 1 ELSE acct.stage
    BY <1>2, <1>5
  <2>2. CASE acct.cooled >= CooldownDays /\ up
    BY <1>0, <1>1, <2>1, <2>2
  <2>3. CASE ~ (acct.cooled >= CooldownDays /\ up)
    <3>1. next = acct.stage BY <2>1, <2>3
    <3> QED BY <1>0, <3>1
  <2> QED BY <2>2, <2>3
<1> QED BY <1>3, <1>4, <1>5

\* What each action does to the breaker's part of the account.
LEMMA DayStep ==
  ASSUME BreakerInv, Day
  PROVE  /\ DOMAIN acct' = Fields
         /\ acct'.stage = acct.stage /\ acct'.pending = acct.pending
         /\ acct'.weights = acct.weights
         /\ acct'.cooled \in 0..CooldownDays
<1> DEFINE c == IF acct.cooled < CooldownDays THEN acct.cooled + 1 ELSE acct.cooled
<1>1. acct' = [acct EXCEPT !.cooled = c] BY DEF Day
<1>2. c \in 0..CooldownDays BY DepotAssumption DEF BreakerInv, DepotAssumption
<1> HIDE DEF c
<1>3. DOMAIN acct = Fields BY DEF BreakerInv
<1> QED BY <1>1, <1>2, <1>3 DEF Fields

LEMMA WipeStep ==
  ASSUME BreakerInv, Wipe
  PROVE  /\ DOMAIN acct' = Fields
         /\ acct'.stage = acct.stage /\ acct'.cooled = acct.cooled
         /\ acct'.pending = Flat /\ acct'.weights = Flat
<1>1. acct' = [acct EXCEPT !.equity = 0, !.weights = Flat, !.marks = Flat,
                           !.pending = Flat]
  BY DEF Wipe
<1>2. DOMAIN acct = Fields BY DEF BreakerInv
<1> QED BY <1>1, <1>2 DEF Fields

LEMMA AdvanceWrites ==
  ASSUME Advance
  PROVE  \E open \in [Tickers -> Prices \cup {NoPrice}], raw \in [Tickers -> Raws],
            marked \in Equities \ {0}, equity \in Equities :
           /\ \A t \in Tickers : open[t] # NoPrice => t \in closed /\ Traded(t)
           /\ DriftsTo(marked) /\ FillsTo(equity, marked, open)
           /\ DOMAIN acct' = Fields
           /\ acct'.equity = equity
           /\ acct'.peak = (IF equity > Peak(marked) THEN equity ELSE Peak(marked))
           /\ acct'.weights = acct.pending /\ acct'.marks = FinalMarks
           /\ acct'.pending = Targets(raw, NextStage(marked))
           /\ acct'.stage = NextStage(marked)
           /\ acct'.cooled = (IF NextStage(marked) = acct.stage THEN acct.cooled ELSE 0)
           /\ entry' = [t \in Tickers |->
                CASE acct.pending[t] = 0 -> 0
                  [] acct.pending[t] # 0 /\ Held(t) -> entry[t]
                  [] OTHER -> price[t] - Leg(t, open)]
           /\ booked' = [t \in Tickers |->
                CASE acct.pending[t] = 0 -> 0
                  [] acct.pending[t] # 0 /\ Held(t) -> booked[t] + Move(t)
                  [] OTHER -> Leg(t, open)]
<1>1. PICK open \in [Tickers -> Prices \cup {NoPrice}], raw \in [Tickers -> Raws],
           marked \in Equities \ {0}, equity \in Equities :
        /\ \A t \in Tickers : open[t] # NoPrice => t \in closed /\ Traded(t)
        /\ DriftsTo(marked) /\ FillsTo(equity, marked, open)
        /\ acct' = [equity |-> equity,
                    peak |-> IF equity > Peak(marked) THEN equity ELSE Peak(marked),
                    weights |-> acct.pending,
                    marks |-> FinalMarks,
                    pending |-> Targets(raw, NextStage(marked)),
                    stage |-> NextStage(marked),
                    cooled |-> IF NextStage(marked) = acct.stage THEN acct.cooled ELSE 0]
        /\ entry' = [t \in Tickers |->
             CASE acct.pending[t] = 0 -> 0
               [] acct.pending[t] # 0 /\ Held(t) -> entry[t]
               [] OTHER -> price[t] - Leg(t, open)]
        /\ booked' = [t \in Tickers |->
             CASE acct.pending[t] = 0 -> 0
               [] acct.pending[t] # 0 /\ Held(t) -> booked[t] + Move(t)
               [] OTHER -> Leg(t, open)]
  BY DEF Advance
<1>2. /\ DOMAIN acct' = Fields /\ acct'.equity = equity
      /\ acct'.peak = (IF equity > Peak(marked) THEN equity ELSE Peak(marked))
      /\ acct'.weights = acct.pending /\ acct'.marks = FinalMarks
      /\ acct'.pending = Targets(raw, NextStage(marked))
      /\ acct'.stage = NextStage(marked)
      /\ acct'.cooled = (IF NextStage(marked) = acct.stage THEN acct.cooled ELSE 0)
  BY <1>1 DEF Fields
<1> WITNESS open \in [Tickers -> Prices \cup {NoPrice}], raw \in [Tickers -> Raws],
            marked \in Equities \ {0}, equity \in Equities
<1> QED BY <1>1, <1>2

LEMMA AdvanceStep ==
  ASSUME Advance
  PROVE  /\ DOMAIN acct' = Fields
         /\ acct'.weights = acct.pending
         /\ \E marked \in Equities, raw \in [Tickers -> Raws] :
              /\ acct'.stage = NextStage(marked)
              /\ acct'.cooled = (IF acct'.stage = acct.stage THEN acct.cooled ELSE 0)
              /\ acct'.pending = Targets(raw, NextStage(marked))
BY AdvanceWrites

-----------------------------------------------------------------------------
\* The breaker's invariant is inductive.
LEMMA BreakerInvHolds == Spec => []BreakerInv
<1>1. Init => BreakerInv
  <2> SUFFICES ASSUME Init PROVE BreakerInv
    OBVIOUS
  <2>1. acct = [equity |-> Start, peak |-> Start, weights |-> Flat,
                marks |-> Flat, pending |-> Flat, stage |-> 0,
                cooled |-> CooldownDays]
    BY DEF Init
  <2>2. DOMAIN acct = Fields /\ acct.stage = 0 /\ acct.cooled = CooldownDays
        /\ acct.pending = Flat
    BY <2>1 DEF Fields
  <2>3. CooldownDays \in Nat BY DepotAssumption DEF DepotAssumption
  <2> QED BY <2>2, <2>3, FlatObeys DEF BreakerInv
<1>2. BreakerInv /\ [Next]_vars => BreakerInv'
  <2> SUFFICES ASSUME BreakerInv, [Next]_vars PROVE BreakerInv'
    OBVIOUS
  <2>0. acct.stage \in 0..2 /\ acct.cooled \in 0..CooldownDays /\ CooldownDays \in Nat
    BY DepotAssumption DEF BreakerInv, DepotAssumption
  <2>1. CASE Day
    <3>1. ObeysStage(acct.pending, acct.stage) BY DEF BreakerInv
    <3> QED BY <2>1, <2>0, <3>1, DayStep DEF BreakerInv, ObeysStage
  <2>2. CASE Advance
    <3>1. PICK marked \in Equities, raw \in [Tickers -> Raws] :
            /\ acct'.stage = NextStage(marked)
            /\ acct'.cooled = (IF acct'.stage = acct.stage THEN acct.cooled ELSE 0)
            /\ acct'.pending = Targets(raw, NextStage(marked))
      BY <2>2, AdvanceStep
    <3>2. NextStage(marked) \in 0..2 BY NextStageIsAStep
    <3>3. ObeysStage(Targets(raw, NextStage(marked)), NextStage(marked))
      BY <3>2, TargetsObey
    <3>4. ObeysStage(acct'.pending, acct'.stage) BY <3>1, <3>3
    <3>5. acct'.stage \in 0..2 /\ DOMAIN acct' = Fields
      BY <2>2, <3>1, <3>2, AdvanceStep
    <3>6. acct'.cooled \in 0..CooldownDays BY <2>0, <3>1
    <3> QED BY <3>4, <3>5, <3>6 DEF BreakerInv, ObeysStage
  <2>3. CASE Wipe
    <3>1. ObeysStage(Flat, acct.stage) BY <2>0, FlatObeys
    <3> QED BY <2>3, <2>0, <3>1, WipeStep DEF BreakerInv, ObeysStage
  <2>4. CASE UNCHANGED vars
    BY <2>4 DEF vars, BreakerInv, ObeysStage
  <2> QED BY <2>1, <2>2, <2>3, <2>4 DEF Next
<1> QED BY <1>1, <1>2, PTL DEF Spec

\* In every behaviour the stage recovers one step at a time, each a whole
\* cooldown after the change before it, and a change restarts the cooldown.
THEOREM RecoveryIsStepwise == Spec => OneStageBack
<1> DEFINE A ==
      /\ acct'.stage < acct.stage
           => acct'.stage = acct.stage - 1 /\ acct.cooled = CooldownDays
      /\ acct'.stage # acct.stage => acct'.cooled = 0
<1>1. BreakerInv /\ [Next]_vars => [A]_vars
  <2> SUFFICES ASSUME BreakerInv, Next PROVE A
    BY DEF A, vars
  <2>0. acct.stage \in 0..2 BY DEF BreakerInv
  <2>1. CASE Day BY <2>0, <2>1, DayStep
  <2>2. CASE Advance BY <2>0, <2>2, AdvanceStep, NextStageIsAStep
  <2>3. CASE Wipe BY <2>0, <2>3, WipeStep
  <2> QED BY <2>1, <2>2, <2>3 DEF Next
<1> QED BY <1>1, BreakerInvHolds, PTL DEF Spec, OneStageBack

\* In every behaviour the book an advance fills obeys the stage under which it
\* was decided one advance earlier.
THEOREM BookObeys == Spec => BookFollowsStage
<1> DEFINE A == acct'.weights # acct.weights
                  => ObeysStage(acct'.weights, acct.stage)
<1>1. BreakerInv /\ [Next]_vars => [A]_vars
  <2> SUFFICES ASSUME BreakerInv, Next PROVE A
    BY DEF A, vars
  <2>0. ObeysStage(acct.pending, acct.stage) BY DEF BreakerInv
  <2>1. CASE Day BY <2>1, DayStep
  <2>2. CASE Advance BY <2>0, <2>2, AdvanceStep
  <2>3. CASE Wipe
    <3>1. ObeysStage(Flat, acct.stage) BY FlatObeys DEF BreakerInv
    <3> QED BY <2>3, <3>1, WipeStep
  <2> QED BY <2>1, <2>2, <2>3 DEF Next
<1> QED BY <1>1, BreakerInvHolds, PTL DEF Spec, BookFollowsStage

-----------------------------------------------------------------------------
(* Types.                                                                  *)

LEMMA Numbers ==
  /\ Halves \subseteq Int /\ 0 \in Halves /\ Prices \subseteq Nat \ {0}
  /\ Equities \subseteq Nat /\ 0 \in Equities /\ Start \in Equities \ {0}
  /\ CooldownDays \in Nat /\ MaxPrice \in Nat \ {0}
  /\ Payers \subseteq Tickers /\ Leavers \subseteq Tickers
  /\ \A r \in Raws : r \in Int
<1>1. \A r \in Raws : r \in Int /\ r \div 2 \in Int
  BY DepotAssumption DEF DepotAssumption
<1>2. Halves \subseteq Int /\ 0 \in Halves BY <1>1 DEF Halves
<1>3. Prices \subseteq Nat \ {0} BY DepotAssumption DEF Prices, DepotAssumption
<1> QED BY <1>1, <1>2, <1>3, DepotAssumption DEF DepotAssumption

LEMMA TargetsType ==
  ASSUME NEW s \in 0..2, NEW raw \in [Tickers -> Raws]
  PROVE  Targets(raw, s) \in [Tickers -> Halves]
<1> SUFFICES ASSUME NEW t \in Tickers PROVE Targets(raw, s)[t] \in Halves
  BY DEF Targets
<1>1. raw[t] \in Raws OBVIOUS
<1>2. Scaled(raw[t], s) \in Halves
  <2>1. CASE s = 0
    <3>1. Scaled(raw[t], s) = raw[t] BY <2>1 DEF Scaled
    <3> QED BY <1>1, <3>1 DEF Halves
  <2>2. CASE s = 1
    <3>1. Scaled(raw[t], s) = raw[t] \div 2 BY <2>2 DEF Scaled
    <3> QED BY <1>1, <3>1 DEF Halves
  <2>3. CASE s = 2
    <3>1. Scaled(raw[t], s) = 0 BY <2>3 DEF Scaled
    <3> QED BY <3>1 DEF Halves
  <2> QED BY <2>1, <2>2, <2>3
<1> QED BY <1>2, Numbers DEF Targets

\* What an advance computes with is a number.
LEMMA DepotTypes ==
  ASSUME TypeOK, NEW t \in Tickers
  PROVE  /\ price[t] \in Int /\ price[t] \in 0..MaxPrice /\ price[t] # NoPrice
         /\ asOf[t] \in Int /\ acct.marks[t] \in Int
         /\ acct.weights[t] \in Int /\ acct.pending[t] \in Int
         /\ entry[t] \in Int /\ booked[t] \in Int /\ Move(t) \in Int
         /\ \A open \in [Tickers -> Prices \cup {NoPrice}] : Leg(t, open) \in Int
<1>1. price[t] \in Prices /\ asOf[t] \in 0..MaxPrice
      /\ acct.marks[t] \in Prices \cup {NoPrice}
  BY DEF TypeOK
<1>2. \A x \in Prices : x \in Int /\ x \in 0..MaxPrice /\ x # NoPrice
  BY Numbers DEF Prices, NoPrice
<1>3. price[t] \in Int /\ price[t] \in 0..MaxPrice /\ price[t] # NoPrice BY <1>1, <1>2
<1>4. asOf[t] \in Int BY <1>1, Numbers
<1>5. acct.marks[t] \in Int BY <1>1, <1>2 DEF NoPrice
<1>6. acct.weights[t] \in Int /\ acct.pending[t] \in Int
  <2>1. acct.weights[t] \in Halves /\ acct.pending[t] \in Halves BY DEF TypeOK
  <2> QED BY <2>1, Numbers
<1>7. entry[t] \in Int /\ booked[t] \in Int BY DEF TypeOK
<1>8. Move(t) \in Int
  <2>1. Base(t) \in Int BY <1>4, <1>5 DEF Base
  <2> QED BY <1>3, <2>1 DEF Move
<1>9. ASSUME NEW open \in [Tickers -> Prices \cup {NoPrice}] PROVE Leg(t, open) \in Int
  <2>1. open[t] \in Prices \cup {NoPrice} OBVIOUS
  <2>2. open[t] \in Int BY <1>2, <2>1 DEF NoPrice
  <2>3. FillPrice(t, open) \in Int BY <1>3, <2>2 DEF FillPrice, NoPrice
  <2> QED BY <1>3, <2>3 DEF Leg
<1> QED BY <1>3, <1>4, <1>5, <1>6, <1>7, <1>8, <1>9

LEMMA DayTypes ==
  ASSUME TypeOK, Day
  PROVE  TypeOK'
<1>1. PICK c \in SUBSET Tickers, p \in [Tickers -> Prices], d \in SUBSET Payers,
           late \in SUBSET MayLand, kept \in SUBSET Leavers :
    /\ c \cap late = {} /\ d \subseteq c
    /\ \A t \in Tickers : p[t] # price[t] => t \in c \cup late
    /\ \A t \in d : received[t] = 0 /\ asOf[t] > 0
    /\ price' = p /\ closed' = c /\ unseen' = unseen \cup c \cup late
    /\ columns' = (Tickers \ Leavers) \cup kept
    /\ due' = TRUE
    /\ asOf' = [t \in Tickers |-> CASE t \in late -> p[t]
                                     [] t \in d -> asOf[t] - 1
                                     [] OTHER -> asOf[t]]
    /\ acct' = [acct EXCEPT !.cooled =
                  IF @ < CooldownDays THEN @ + 1 ELSE @]
    /\ received' = [t \in Tickers |-> IF t \in d /\ Held(t) THEN 1 ELSE received[t]]
    /\ UNCHANGED <<entry, booked>>
  BY DEF Day
<1>2. late \subseteq Tickers /\ d \subseteq Tickers BY <1>1, Numbers DEF MayLand
<1>3. ASSUME NEW t \in Tickers
      PROVE  asOf'[t] \in 0..MaxPrice /\ received'[t] \in 0..1
  <2>1. asOf[t] \in 0..MaxPrice /\ received[t] \in 0..1 /\ p[t] \in Prices
    BY DEF TypeOK
  <2>2. received'[t] \in 0..1
    <3>1. received'[t] = 1 \/ received'[t] = received[t] BY <1>1
    <3> QED BY <2>1, <3>1
  <2>3. CASE t \in late
    <3>1. asOf'[t] = p[t] BY <1>1, <2>3
    <3> QED BY <2>1, <2>2, <3>1, Numbers DEF Prices
  <2>4. CASE t \in d /\ t \notin late
    <3>1. asOf'[t] = asOf[t] - 1 /\ asOf[t] > 0 BY <1>1, <2>4
    <3> QED BY <2>1, <2>2, <3>1, Numbers
  <2>5. CASE t \notin late \cup d
    <3>1. asOf'[t] = asOf[t] BY <1>1, <2>5
    <3> QED BY <2>1, <2>2, <3>1
  <2> QED BY <2>3, <2>4, <2>5
<1>4. /\ price' \in [Tickers -> Prices] /\ asOf' \in [Tickers -> 0..MaxPrice]
      /\ received' \in [Tickers -> 0..1]
      /\ entry' \in [Tickers -> Int] /\ booked' \in [Tickers -> Int]
      /\ closed' \subseteq Tickers /\ unseen' \subseteq Tickers /\ columns' \subseteq Tickers
      /\ due' \in BOOLEAN
  <2>1. asOf' \in [Tickers -> 0..MaxPrice] /\ received' \in [Tickers -> 0..1]
    BY <1>1, <1>3
  <2>2. unseen' \subseteq Tickers /\ columns' \subseteq Tickers
    BY <1>1, <1>2, Numbers DEF TypeOK
  <2> QED BY <1>1, <2>1, <2>2 DEF TypeOK
<1>5. /\ DOMAIN acct' = Fields /\ acct'.equity = acct.equity /\ acct'.peak = acct.peak
      /\ acct'.weights = acct.weights /\ acct'.pending = acct.pending
      /\ acct'.marks = acct.marks /\ acct'.stage = acct.stage
      /\ acct'.cooled \in 0..CooldownDays
  <2> DEFINE k == IF acct.cooled < CooldownDays THEN acct.cooled + 1 ELSE acct.cooled
  <2>1. acct' = [acct EXCEPT !.cooled = k] BY DEF Day
  <2>2. k \in 0..CooldownDays BY Numbers DEF TypeOK
  <2> HIDE DEF k
  <2>3. DOMAIN acct = Fields BY DEF TypeOK, Fields
  <2> QED BY <2>1, <2>2, <2>3 DEF Fields
<1>6. \A t \in Tickers : ~ Held(t)' => acct'.marks[t] = NoPrice
  BY <1>5 DEF TypeOK, Held
<1> QED BY <1>4, <1>5, <1>6 DEF TypeOK, Fields

LEMMA WipeTypes ==
  ASSUME TypeOK, Wipe
  PROVE  TypeOK'
<1>1. /\ DOMAIN acct' = Fields /\ acct'.equity = 0 /\ acct'.peak = acct.peak
      /\ acct'.weights = Flat /\ acct'.pending = Flat /\ acct'.marks = Flat
      /\ acct'.stage = acct.stage /\ acct'.cooled = acct.cooled
  <2>1. acct' = [acct EXCEPT !.equity = 0, !.weights = Flat, !.marks = Flat,
                             !.pending = Flat]
    BY DEF Wipe
  <2>2. DOMAIN acct = Fields BY DEF TypeOK, Fields
  <2> HIDE DEF Flat
  <2> QED BY <2>1, <2>2 DEF Fields
<1>2. /\ Flat \in [Tickers -> Halves] /\ Flat \in [Tickers -> Prices \cup {NoPrice}]
      /\ Flat \in [Tickers -> 0..1] /\ Flat \in [Tickers -> Int]
      /\ \A t \in Tickers : Flat[t] = NoPrice
  BY Numbers DEF Flat, NoPrice
<1>3. asOf' = price /\ unseen' = {} /\ due' = FALSE
      /\ entry' = Flat /\ booked' = Flat /\ received' = Flat
      /\ UNCHANGED <<price, closed, columns>>
  BY DEF Wipe, market
<1>4. price \in [Tickers -> 0..MaxPrice]
  <2>1. \A t \in Tickers : price[t] \in 0..MaxPrice BY DepotTypes
  <2> QED BY <2>1 DEF TypeOK
<1> HIDE DEF Flat
<1> QED BY <1>1, <1>2, <1>3, <1>4, Numbers DEF TypeOK, Fields

LEMMA AdvanceTypes ==
  ASSUME TypeOK, BreakerInv, Advance
  PROVE  TypeOK'
<1>1. PICK open \in [Tickers -> Prices \cup {NoPrice}], raw \in [Tickers -> Raws],
           marked \in Equities \ {0}, equity \in Equities :
        /\ DOMAIN acct' = Fields
        /\ acct'.equity = equity
        /\ acct'.peak = (IF equity > Peak(marked) THEN equity ELSE Peak(marked))
        /\ acct'.weights = acct.pending /\ acct'.marks = FinalMarks
        /\ acct'.pending = Targets(raw, NextStage(marked))
        /\ acct'.stage = NextStage(marked)
        /\ acct'.cooled = (IF NextStage(marked) = acct.stage THEN acct.cooled ELSE 0)
        /\ entry' = [t \in Tickers |->
             CASE acct.pending[t] = 0 -> 0
               [] acct.pending[t] # 0 /\ Held(t) -> entry[t]
               [] OTHER -> price[t] - Leg(t, open)]
        /\ booked' = [t \in Tickers |->
             CASE acct.pending[t] = 0 -> 0
               [] acct.pending[t] # 0 /\ Held(t) -> booked[t] + Move(t)
               [] OTHER -> Leg(t, open)]
  BY AdvanceWrites
<1>2. acct'.peak \in Equities /\ acct'.peak >= Start
  <2>1. acct.peak \in Equities /\ acct.peak >= Start BY DEF TypeOK
  <2>2. \A e \in Equities : e \in Int BY Numbers
  <2>3. Start \in Int BY Numbers
  <2>4. Peak(marked) \in Equities /\ Peak(marked) >= Start
    BY <2>1, <2>2, <2>3 DEF Peak
  <2> QED BY <1>1, <2>2, <2>3, <2>4
<1>3. entry' \in [Tickers -> Int] /\ booked' \in [Tickers -> Int]
  <2>1. ASSUME NEW t \in Tickers PROVE entry'[t] \in Int /\ booked'[t] \in Int
    <3>1. /\ price[t] - Leg(t, open) \in Int /\ Leg(t, open) \in Int
          /\ booked[t] + Move(t) \in Int /\ entry[t] \in Int
      BY DepotTypes
    <3> QED BY <1>1, <3>1
  <2> QED BY <1>1, <2>1
<1>4. /\ asOf' = price /\ due' = FALSE /\ UNCHANGED <<price, closed, columns>>
      /\ unseen' \subseteq unseen
  BY DEF Advance, market
<1>5. received' \in [Tickers -> 0..1]
  <2>1. \A t \in Tickers : received[t] \in 0..1 BY DEF TypeOK
  <2>2. received' = [t \in Tickers |-> IF acct.pending[t] = 0 THEN 0 ELSE received[t]]
    BY DEF Advance
  <2> QED BY <2>1, <2>2
<1>6. price \in [Tickers -> 0..MaxPrice]
  <2>1. \A t \in Tickers : price[t] \in 0..MaxPrice BY DepotTypes
  <2> QED BY <2>1 DEF TypeOK
<1>7. FinalMarks \in [Tickers -> Prices \cup {NoPrice}]
      /\ \A t \in Tickers : acct.pending[t] = 0 => FinalMarks[t] = NoPrice
  <2>1. \A t \in Tickers : acct.marks[t] \in Prices \cup {NoPrice} /\ price[t] \in Prices
    BY DEF TypeOK
  <2> QED BY <2>1 DEF FinalMarks
<1>8. NextStage(marked) \in 0..2 BY NextStageIsAStep
<1>9. acct'.pending \in [Tickers -> Halves] BY <1>1, <1>8, TargetsType
<1>10. acct'.weights \in [Tickers -> Halves] BY <1>1 DEF TypeOK
<1>11. acct'.cooled \in 0..CooldownDays BY <1>1, Numbers DEF TypeOK
<1>12. /\ \A t \in Tickers : ~ Held(t)' => acct'.marks[t] = NoPrice
       /\ acct'.marks \in [Tickers -> Prices \cup {NoPrice}]
  BY <1>1, <1>7 DEF Held
<1>13. /\ price' \in [Tickers -> Prices] /\ asOf' \in [Tickers -> 0..MaxPrice]
       /\ closed' \subseteq Tickers /\ unseen' \subseteq Tickers /\ columns' \subseteq Tickers
       /\ due' \in BOOLEAN
  BY <1>4, <1>6 DEF TypeOK
<1>14. acct'.stage \in 0..2 /\ DOMAIN acct' = Fields /\ acct'.equity \in Equities
  BY <1>1, <1>8
<1> QED
  BY <1>2, <1>3, <1>5, <1>9, <1>10, <1>11, <1>12, <1>13, <1>14 DEF TypeOK, Fields

\* Every variable keeps its type, and what is not held keeps no mark.
THEOREM TypeCorrect == Spec => []TypeOK
<1>1. Init => TypeOK
  <2> SUFFICES ASSUME Init PROVE TypeOK
    OBVIOUS
  <2>1. /\ DOMAIN acct = Fields /\ acct.equity = Start /\ acct.peak = Start
        /\ acct.weights = Flat /\ acct.pending = Flat /\ acct.marks = Flat
        /\ acct.stage = 0 /\ acct.cooled = CooldownDays
    <3> HIDE DEF Flat
    <3> QED BY DEF Init, Fields
  <2>2. /\ Flat \in [Tickers -> Halves] /\ Flat \in [Tickers -> Prices \cup {NoPrice}]
        /\ Flat \in [Tickers -> 0..1] /\ Flat \in [Tickers -> Int]
        /\ \A t \in Tickers : Flat[t] = NoPrice
    BY Numbers DEF Flat, NoPrice
  <2>3. /\ price \in [Tickers -> Prices] /\ asOf = price /\ closed = Tickers
        /\ unseen = {} /\ columns = Tickers /\ due = TRUE
        /\ entry = Flat /\ booked = Flat /\ received = Flat
    BY DEF Init
  <2>4. price \in [Tickers -> 0..MaxPrice] BY <2>3, Numbers DEF Prices
  <2>5. /\ acct.equity \in Equities /\ acct.peak \in Equities /\ acct.peak >= Start
        /\ acct.cooled \in 0..CooldownDays
    BY <2>1, Numbers
  <2> HIDE DEF Flat
  <2> QED BY <2>1, <2>2, <2>3, <2>4, <2>5 DEF TypeOK, Fields
<1>2. BreakerInv /\ TypeOK /\ [Next]_vars => TypeOK'
  <2> SUFFICES ASSUME BreakerInv, TypeOK, [Next]_vars PROVE TypeOK'
    OBVIOUS
  <2>1. CASE Day BY <2>1, DayTypes
  <2>2. CASE Advance BY <2>2, AdvanceTypes
  <2>3. CASE Wipe BY <2>3, WipeTypes
  <2>4. CASE UNCHANGED vars
    <3>1. UNCHANGED <<price, closed, columns, unseen, due, asOf, acct, entry, booked, received>>
      BY <2>4 DEF vars, market, history
    <3> QED BY <3>1 DEF TypeOK, Held
  <2> QED BY <2>1, <2>2, <2>3, <2>4 DEF Next
<1> QED BY <1>1, <1>2, BreakerInvHolds, PTL DEF Spec

-----------------------------------------------------------------------------
(* The marks.                                                              *)

\* What one held ticker must satisfy.  A marked position has booked all the way
\* to its mark, and the mark is the last close unless a newer one is unread; a
\* position without a mark is one whose column was gone when it was opened, and
\* it is on its way out.
MarkFits(t) ==
  IF acct.marks[t] # NoPrice
  THEN /\ booked[t] = acct.marks[t] - entry[t]
       /\ t \notin unseen => acct.marks[t] = price[t]
  ELSE /\ acct.pending[t] = 0
       /\ t \notin unseen => booked[t] = price[t] - entry[t]

\* EveryMoveOnce alone is not inductive: it says nothing of a position with an
\* unread close, whose mark alone knows how far its moves are booked.
MarksFit == \A t \in Tickers : Held(t) => MarkFits(t)

LEMMA DayFits ==
  ASSUME MarksFit, Day
  PROVE  MarksFit'
<1>1. PICK c \in SUBSET Tickers, p \in [Tickers -> Prices], late \in SUBSET MayLand :
    /\ \A t \in Tickers : p[t] # price[t] => t \in c \cup late
    /\ price' = p /\ unseen' = unseen \cup c \cup late
    /\ UNCHANGED <<entry, booked>>
  BY DEF Day
<1>2. acct'.weights = acct.weights /\ acct'.marks = acct.marks
      /\ acct'.pending = acct.pending
  <2> DEFINE k == IF acct.cooled < CooldownDays THEN acct.cooled + 1 ELSE acct.cooled
  <2>1. acct' = [acct EXCEPT !.cooled = k] BY DEF Day
  <2> HIDE DEF k
  <2> QED BY <2>1
<1> SUFFICES ASSUME NEW t \in Tickers, Held(t)' PROVE MarkFits(t)'
  BY DEF MarksFit
<1>3. MarkFits(t) BY <1>2 DEF MarksFit, Held
<1>4. t \notin unseen' => t \notin unseen /\ price'[t] = price[t] BY <1>1
<1> QED BY <1>1, <1>2, <1>3, <1>4 DEF MarkFits, NoPrice

LEMMA AdvanceFits ==
  ASSUME TypeOK, MarksFit, Advance
  PROVE  MarksFit'
<1>1. PICK open \in [Tickers -> Prices \cup {NoPrice}], raw \in [Tickers -> Raws],
           marked \in Equities \ {0} :
        /\ acct'.weights = acct.pending /\ acct'.marks = FinalMarks
        /\ acct'.pending = Targets(raw, NextStage(marked))
        /\ entry' = [t \in Tickers |->
             CASE acct.pending[t] = 0 -> 0
               [] acct.pending[t] # 0 /\ Held(t) -> entry[t]
               [] OTHER -> price[t] - Leg(t, open)]
        /\ booked' = [t \in Tickers |->
             CASE acct.pending[t] = 0 -> 0
               [] acct.pending[t] # 0 /\ Held(t) -> booked[t] + Move(t)
               [] OTHER -> Leg(t, open)]
  BY AdvanceWrites
<1>2. price' = price /\ unseen' = {t \in unseen \ columns : FinalMarks[t] # NoPrice}
  BY DEF Advance, market
<1> SUFFICES ASSUME NEW t \in Tickers, Held(t)' PROVE MarkFits(t)'
  BY DEF MarksFit
<1>3. acct.pending[t] # 0 BY <1>1 DEF Held
<1>4. /\ price[t] \in Int /\ price[t] # NoPrice /\ acct.marks[t] \in Int
      /\ entry[t] \in Int /\ booked[t] \in Int /\ Leg(t, open) \in Int
  BY DepotTypes
<1>5. CASE Held(t)
  <2>1. /\ acct.marks[t] # NoPrice /\ booked[t] = acct.marks[t] - entry[t]
        /\ t \notin unseen => acct.marks[t] = price[t]
    BY <1>3, <1>5 DEF MarksFit, MarkFits
  <2>2. entry'[t] = entry[t] /\ booked'[t] = booked[t] + Move(t) BY <1>1, <1>3, <1>5
  <2>3. CASE t \in columns
    <3>1. acct'.marks[t] = price[t] BY <1>1, <1>3, <2>3 DEF FinalMarks
    <3>2. Move(t) = price[t] - acct.marks[t]
      BY <1>4, <2>1, <2>3 DEF Move, Fresh, Base
    <3>3. booked'[t] = acct'.marks[t] - entry'[t] BY <1>4, <2>1, <2>2, <3>1, <3>2
    <3> QED BY <1>2, <1>4, <3>1, <3>3 DEF MarkFits, NoPrice
  <2>4. CASE t \notin columns
    <3>1. acct'.marks[t] = acct.marks[t] BY <1>1, <1>3, <2>4 DEF FinalMarks
    <3>2. Move(t) = 0 BY <2>4 DEF Move, Fresh
    <3>3. t \in unseen' <=> t \in unseen BY <1>1, <1>2, <2>1, <2>4, <3>1
    <3>4. booked'[t] = acct'.marks[t] - entry'[t] BY <1>4, <2>1, <2>2, <3>1, <3>2
    <3> QED BY <1>2, <2>1, <3>1, <3>3, <3>4 DEF MarkFits, NoPrice
  <2> QED BY <2>3, <2>4
<1>6. CASE ~ Held(t)
  <2>1. entry'[t] = price[t] - Leg(t, open) /\ booked'[t] = Leg(t, open)
    BY <1>1, <1>3, <1>6
  <2>2. booked'[t] = price[t] - entry'[t] BY <1>4, <2>1
  <2>3. CASE t \in columns
    <3>1. acct'.marks[t] = price[t] BY <1>1, <1>3, <2>3 DEF FinalMarks
    <3> QED BY <1>2, <1>4, <2>2, <3>1 DEF MarkFits, NoPrice
  <2>4. CASE t \notin columns
    <3>1. acct'.marks[t] = NoPrice
      BY <1>1, <1>3, <1>6, <2>4 DEF FinalMarks, TypeOK
    <3>2. acct'.pending[t] = 0 BY <1>1, <2>4 DEF Targets
    <3> QED BY <1>2, <2>2, <3>1, <3>2 DEF MarkFits, NoPrice
  <2> QED BY <2>3, <2>4
<1> QED BY <1>5, <1>6

\* In every behaviour every move of a held ticker is booked once, for any
\* portfolio, gap of nights, late close, distribution and leaving column.
THEOREM MovesBookOnce == Spec => []EveryMoveOnce
<1>1. Init => MarksFit
  <2> SUFFICES ASSUME Init PROVE MarksFit
    OBVIOUS
  <2>1. acct.weights = Flat
    <3> HIDE DEF Flat
    <3> QED BY DEF Init
  <2> QED BY <2>1 DEF MarksFit, Held, Flat
<1>2. TypeOK /\ MarksFit /\ [Next]_vars => MarksFit'
  <2> SUFFICES ASSUME TypeOK, MarksFit, [Next]_vars PROVE MarksFit'
    OBVIOUS
  <2>1. CASE Day BY <2>1, DayFits
  <2>2. CASE Advance BY <2>2, AdvanceFits
  <2>3. CASE Wipe
    <3>1. acct'.weights = Flat
      <4>1. acct' = [acct EXCEPT !.equity = 0, !.weights = Flat, !.marks = Flat,
                                 !.pending = Flat]
        BY <2>3 DEF Wipe
      <4>2. DOMAIN acct = Fields BY DEF TypeOK, Fields
      <4> HIDE DEF Flat
      <4> QED BY <4>1, <4>2 DEF Fields
    <3> QED BY <3>1 DEF MarksFit, Held, Flat
  <2>4. CASE UNCHANGED vars
    <3>1. UNCHANGED <<price, unseen, acct, entry, booked>>
      BY <2>4 DEF vars, market, history
    <3> QED BY <3>1 DEF MarksFit, MarkFits, Held, NoPrice
  <2> QED BY <2>1, <2>2, <2>3, <2>4 DEF Next
<1>3. TypeOK /\ MarksFit => EveryMoveOnce
  <2> SUFFICES ASSUME TypeOK, MarksFit, NEW t \in Tickers, Held(t), t \notin unseen
               PROVE  booked[t] = price[t] - entry[t]
    BY DEF EveryMoveOnce
  <2> QED BY DEF MarksFit, MarkFits
<1> QED BY <1>1, <1>2, <1>3, TypeCorrect, PTL DEF Spec

-----------------------------------------------------------------------------
\* In every behaviour a depot that the hard stage has emptied keeps its equity:
\* what it decides under that stage is cash, so nothing fills and nothing moves.
THEOREM CashIsSafe == Spec => CashStopsLoss
<1> DEFINE A == acct.stage = 2 /\ acct.weights = Flat => acct'.equity = acct.equity
<1>1. TypeOK /\ BreakerInv /\ [Next]_vars => [A]_vars
  <2> SUFFICES ASSUME TypeOK, BreakerInv, Next, acct.stage = 2, acct.weights = Flat
               PROVE  acct'.equity = acct.equity
    BY DEF vars
  <2>1. \A t \in Tickers : acct.weights[t] = 0 /\ acct.pending[t] = 0
    <3> TAKE t \in Tickers
    <3>1. acct.pending[t] \in {Scaled(r, 2) : r \in Raws}
      BY DEF BreakerInv, ObeysStage
    <3>2. \A r \in Raws : Scaled(r, 2) = 0 BY DEF Scaled
    <3> QED BY <3>1, <3>2 DEF Flat
  <2>2. \A e \in Equities : e \in Int BY Numbers
  <2>3. acct.equity \in Int BY <2>2 DEF TypeOK
  <2>4. ASSUME NEW e \in Equities, DriftsTo(e) PROVE e = acct.equity
    <3>1. \A t \in Tickers : Gain(t) = 0
      <4> TAKE t \in Tickers
      <4>1. Move(t) \in Int BY DepotTypes
      <4> QED BY <2>1, <4>1 DEF Gain
    <3>2. e >= acct.equity /\ e <= acct.equity BY <2>1, <2>4, <3>1 DEF DriftsTo
    <3> QED BY <2>2, <2>3, <3>2
  <2>5. CASE Day
    <3>1. acct' = [acct EXCEPT !.cooled =
                    IF acct.cooled < CooldownDays THEN acct.cooled + 1 ELSE acct.cooled]
      BY <2>5 DEF Day
    <3> QED BY <3>1
  <2>6. CASE Advance
    <3>1. PICK open \in [Tickers -> Prices \cup {NoPrice}],
               marked \in Equities \ {0}, equity \in Equities :
            DriftsTo(marked) /\ FillsTo(equity, marked, open) /\ acct'.equity = equity
      BY <2>6, AdvanceWrites
    <3>2. \A t \in Tickers : ~ Traded(t) BY <2>1 DEF Traded, Held
    <3>3. equity = marked BY <3>1, <3>2 DEF FillsTo
    <3> QED BY <2>4, <3>1, <3>3
  <2>7. CASE Wipe
    <3>1. acct.equity > 0 /\ DriftsTo(0) BY <2>7 DEF Wipe
    <3>2. acct.equity = 0 BY <2>4, <3>1, Numbers
    <3> QED BY <3>1, <3>2
  <2> QED BY <2>5, <2>6, <2>7 DEF Next
<1> QED BY <1>1, TypeCorrect, BreakerInvHolds, PTL DEF Spec, CashStopsLoss
=============================================================================
