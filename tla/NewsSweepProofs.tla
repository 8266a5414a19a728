--------------------------- MODULE NewsSweepProofs ---------------------------
(***************************************************************************)
(* The news sweep for every wire, page size, overlap and lag: its stores   *)
(* are well formed, and the cursor leaves no article behind but a late one.*)
(***************************************************************************)
EXTENDS NewsSweep, WellFoundedInduction, TLAPS

-----------------------------------------------------------------------------
(* Maxima: of two numbers, and of the dates of some articles.              *)

LEMMA MaxOfTwo ==
  ASSUME NEW x \in Int, NEW y \in Int
  PROVE  Max({x, y}) \in {x, y} /\ Max({x, y}) >= x /\ Max({x, y}) >= y
<1>1. \E m \in {x, y} : \A n \in {x, y} : m >= n OBVIOUS
<1> QED BY <1>1 DEF Max

\* A set of naturals below a bound has a greatest element: the one that is
\* closest to the bound.
LEMMA MaxOfBounded ==
  ASSUME NEW bound \in Nat, NEW S, S \subseteq 0..bound, S # {}
  PROVE  Max(S) \in S /\ \A x \in S : Max(S) >= x
<1> DEFINE D == {bound - x : x \in S}
           Less == {ss \in Nat \X Nat : ss[1] < ss[2]}
<1>1. IsWellFoundedOn(Less, Nat) BY NatLessThanWellFounded DEF OpToRel
<1>2. \A x \in S : x \in 0..bound /\ bound - x \in Nat /\ bound - x \in D OBVIOUS
<1>3. \A d \in D : \E x \in S : d = bound - x OBVIOUS
<1> HIDE DEF D
<1>4. D \subseteq Nat /\ D # {} BY <1>2, <1>3
<1>5. PICK d \in D : \A e \in D : ~ (<<e, d>> \in Less)
  <2> HIDE DEF Less
  <2> QED BY <1>1, <1>4, WFMin
<1>6. ASSUME NEW e \in D PROVE d <= e
  <2>1. e \in Nat /\ d \in Nat BY <1>4
  <2>2. e < d => <<e, d>> \in Less BY <2>1
  <2> QED BY <1>5, <2>1, <2>2
<1>7. PICK m \in S : d = bound - m BY <1>3
<1>8. \A x \in S : m >= x BY <1>2, <1>6, <1>7
<1> QED BY <1>8 DEF Max

\* The clock starts after every look back.
LEMMA StartBounds ==
  Start \in Nat /\ Start > 0 /\ Start >= 1 + Overlap + MaxLag /\ Start >= 1 + Overlap + FirstSpan
<1>1. {Overlap, FirstSpan, MaxLag} \subseteq Nat BY SweepAssumption DEF SweepAssumption
<1>2. /\ Max({FirstSpan, MaxLag}) \in {FirstSpan, MaxLag}
      /\ Max({FirstSpan, MaxLag}) >= FirstSpan /\ Max({FirstSpan, MaxLag}) >= MaxLag
  BY <1>1, MaxOfTwo
<1> HIDE DEF Max
<1> QED BY <1>1, <1>2 DEF Start

-----------------------------------------------------------------------------
(* Types.  Two facts are needed besides: what is on the wire is dated late *)
(* enough to look back from, and so is the cursor.                         *)

LateEnough(date) == date >= Start - MaxLag

TypeInv ==
  /\ TypeOK
  /\ \A a \in OnWire : LateEnough(dated[a])
  /\ cursor > 0 => LateEnough(cursor)

\* A pass begins inside the model's time.
LEMMA SinceInTime ==
  ASSUME TypeInv
  PROVE  Since \in 0..now
<1>1. {Overlap, FirstSpan, MaxLag} \subseteq Nat BY SweepAssumption DEF SweepAssumption
<1>2. /\ now \in Nat /\ Start <= now /\ cursor \in 0..now
      /\ cursor > 0 => cursor >= Start - MaxLag
  BY DEF TypeInv, TypeOK, LateEnough
<1> QED BY <1>1, <1>2, StartBounds DEF Since

\* The cursor only moves to the date of an article the pass has read.
LEMMA NewestIsRead ==
  ASSUME TypeInv, NEW w \in Sweeper, pass[w].fetched # {}
  PROVE  /\ \E b \in pass[w].fetched : NextCursor(w) = dated[b]
         /\ \A b \in pass[w].fetched : NextCursor(w) >= dated[b]
<1> DEFINE S == {dated[a] : a \in pass[w].fetched}
<1>1. /\ now \in Nat /\ pass[w].fetched \subseteq OnWire /\ dated \in [Article -> 0..now]
  BY DEF TypeInv, TypeOK
<1>2. S \subseteq 0..now /\ S # {} BY <1>1 DEF OnWire
<1>3. Max(S) \in S /\ \A x \in S : Max(S) >= x
  <2> HIDE DEF S
  <2> QED BY <1>1, <1>2, MaxOfBounded
<1>4. NextCursor(w) = Max(S) BY DEF NextCursor, Newest
<1> HIDE DEF Max
<1> QED BY <1>3, <1>4

Passes == [pc : {"none", "fetch", "signals", "rejections", "cursor"},
           since : 0..now, page : 0..Pages - 1, fetched : SUBSET OnWire]

\* What a step leaves alone keeps its type while the wire and the clock go on.
LEMMA TypesCarryOver ==
  ASSUME TypeInv, now' \in Nat, now' >= now, OnWire \subseteq OnWire',
         dated' \in [Article -> 0..now'], \A a \in OnWire' : LateEnough(dated'[a])
  PROVE  /\ Start <= now' /\ cursor \in 0..now' /\ horizon \in 0..now'
         /\ pass \in [Sweeper -> Passes'] /\ Passes \subseteq Passes'
         /\ late \subseteq OnWire' /\ stored \subseteq OnWire' /\ swept \in BOOLEAN
         /\ faults \in 0..MaxFaults /\ backfills \in 0..MaxBackfills
<1>1. Passes \subseteq Passes'
  <2>1. 0..now \subseteq 0..now' BY DEF TypeInv, TypeOK
  <2>2. SUBSET OnWire \subseteq SUBSET OnWire' OBVIOUS
  <2>3. now \in Nat /\ now' \in Nat BY DEF TypeInv, TypeOK
  <2> HIDE DEF OnWire
  <2> QED BY <2>1, <2>2 DEF Passes
<1>2. pass \in [Sweeper -> Passes] BY DEF TypeInv, TypeOK, Passes
<1>3. /\ now \in Nat /\ Start <= now /\ cursor \in 0..now /\ horizon \in 0..now
      /\ late \subseteq OnWire /\ stored \subseteq OnWire /\ swept \in BOOLEAN
      /\ faults \in 0..MaxFaults /\ backfills \in 0..MaxBackfills
  BY DEF TypeInv, TypeOK
<1> QED BY <1>1, <1>2, <1>3, StartBounds

\* A step that changes only the passes, and those to passes.
LEMMA PassChange ==
  ASSUME TypeInv, UNCHANGED <<now, wire>>, NEW w \in Sweeper, NEW r \in Passes,
         pass' = [pass EXCEPT ![w] = r]
  PROVE  pass' \in [Sweeper -> Passes']
<1>1. pass \in [Sweeper -> Passes] BY DEF TypeInv, TypeOK, Passes
<1>2. Passes' = Passes BY DEF Passes, OnWire, wire
<1> HIDE DEF Passes
<1> QED BY <1>1, <1>2

\* What a page does, with its promise of order.
LEMMA PageRead ==
  ASSUME NEW w \in Sweeper, FetchPage(w)
  PROVE  \E S \in SUBSET Ahead(w) :
           /\ \A a \in S, b \in Ahead(w) \ S : dated[a] <= dated[b]
           /\ pass' = [pass EXCEPT ![w] =
                IF LastPage(w, S)
                  THEN [NoPass EXCEPT !.pc = "signals", !.fetched = pass[w].fetched \cup S]
                  ELSE [pass[w] EXCEPT !.fetched = pass[w].fetched \cup S,
                                       !.page = pass[w].page + 1]]
BY DEF FetchPage

LEMMA TypeInit == Init => TypeInv
<1> SUFFICES ASSUME Init PROVE TypeInv OBVIOUS
<1>1. OnWire = {} BY DEF Init, OnWire
<1>2. NoPass \in Passes
  BY StartBounds, SweepAssumption DEF NoPass, Passes, Init, SweepAssumption
<1>3. pass \in [Sweeper -> Passes] BY <1>2 DEF Init
<1>4. /\ MaxFaults \in Nat /\ MaxBackfills \in Nat BY SweepAssumption DEF SweepAssumption
<1>5. now \in Nat /\ Start <= now /\ cursor \in 0..now /\ horizon \in 0..now /\ ~ (cursor > 0)
  BY StartBounds DEF Init
<1>6. dated \in [Article -> 0..now] /\ late \subseteq OnWire /\ stored \subseteq OnWire
  BY <1>1, <1>5 DEF Init
<1>7. swept \in BOOLEAN /\ faults \in 0..MaxFaults /\ backfills \in 0..MaxBackfills
  <2>1. swept = FALSE /\ faults = 0 /\ backfills = 0 BY DEF Init
  <2>2. swept \in BOOLEAN BY <2>1
  <2>3. faults \in 0..MaxFaults /\ backfills \in 0..MaxBackfills BY <1>4, <2>1
  <2> QED BY <2>2, <2>3
<1> QED BY <1>1, <1>3, <1>5, <1>6, <1>7 DEF TypeInv, TypeOK, Passes

LEMMA TypeStep == TypeInv /\ [Next]_vars => TypeInv'
<1> SUFFICES ASSUME TypeInv, [Next]_vars PROVE TypeInv' OBVIOUS
<1>0. /\ now \in Nat /\ Start <= now /\ cursor \in 0..now /\ horizon \in 0..now
      /\ dated \in [Article -> 0..now] /\ \A a \in OnWire : LateEnough(dated[a])
      /\ late \subseteq OnWire /\ stored \subseteq OnWire /\ swept \in BOOLEAN
      /\ pass \in [Sweeper -> Passes]
      /\ faults \in 0..MaxFaults /\ backfills \in 0..MaxBackfills
      /\ cursor > 0 => LateEnough(cursor)
  BY DEF TypeInv, TypeOK, Passes
<1>c. /\ {Overlap, FirstSpan, MaxLag, MaxNow, MaxFaults, MaxBackfills} \subseteq Nat
      /\ Pages \in Nat \ {0} /\ IsFiniteSet(Article) /\ Signal \subseteq Article
  BY SweepAssumption DEF SweepAssumption
<1>n. NoPass \in Passes BY <1>0, <1>c DEF NoPass, Passes
<1>1. ASSUME NEW a \in Article, Appear(a) PROVE TypeInv'
  <2>1. PICK lag \in 0..MaxLag :
          /\ dated' = [dated EXCEPT ![a] = now - lag]
          /\ late' = late \/ late' = late \cup {a}
    BY <1>1 DEF Appear
  <2>2. /\ now - lag \in 0..now /\ now - lag > 0 /\ LateEnough(now - lag)
    BY <1>0, <1>c, StartBounds DEF LateEnough
  <2>3. dated' \in [Article -> 0..now] /\ OnWire' = OnWire \cup {a}
    BY <1>0, <2>1, <2>2 DEF OnWire
  <2>4. \A b \in OnWire' : LateEnough(dated'[b])
    BY <1>0, <2>1, <2>2, <2>3 DEF OnWire
  <2>5. UNCHANGED <<now, stored, cursor, pass, swept, horizon, faults, backfills>>
    BY <1>1 DEF Appear
  <2>6. /\ pass \in [Sweeper -> Passes'] /\ stored \subseteq OnWire' /\ late \subseteq OnWire'
    BY <1>0, <2>3, <2>4, <2>5, TypesCarryOver
  <2> QED BY <1>0, <2>1, <2>3, <2>4, <2>5, <2>6 DEF TypeInv, TypeOK, Passes
<1>2. CASE Tick
  <2>1. UNCHANGED <<wire, stored, cursor, pass, horizon, faults, backfills>>
    BY <1>2 DEF Tick
  <2>2. OnWire' = OnWire /\ dated' = dated /\ late' = late BY <2>1 DEF OnWire, wire
  <2>3. now' \in Nat /\ now' >= now /\ swept' \in BOOLEAN
    <3>1. now' = (IF now < MaxNow THEN now + 1 ELSE now) BY <1>2 DEF Tick
    <3>2. swept' \in BOOLEAN BY <1>2 DEF Tick
    <3>3. now' \in Nat /\ now' >= now BY <1>0, <1>c, <3>1
    <3> QED BY <3>2, <3>3
  <2>4. dated' \in [Article -> 0..now'] BY <1>0, <2>2, <2>3
  <2>5. \A a \in OnWire' : LateEnough(dated'[a]) BY <1>0, <2>2
  <2>6. /\ Start <= now' /\ cursor \in 0..now' /\ horizon \in 0..now'
        /\ pass \in [Sweeper -> Passes']
    BY <2>2, <2>3, <2>4, <2>5, TypesCarryOver
  <2> QED BY <1>0, <2>1, <2>2, <2>3, <2>4, <2>5, <2>6 DEF TypeInv, TypeOK, Passes
<1>3. CASE Pass
  <2>1. Since \in 0..now BY SinceInTime
  <2>2. [NoPass EXCEPT !.pc = "fetch", !.since = Since] \in Passes
    BY <1>n, <2>1 DEF NoPass, Passes
  <2>3. /\ pass' = [pass EXCEPT !["cron"] = [NoPass EXCEPT !.pc = "fetch", !.since = Since]]
        /\ UNCHANGED <<now, wire, stored, cursor, faults, backfills>> /\ swept' = TRUE
        /\ horizon' = IF cursor > 0 THEN horizon ELSE Max({horizon, Since})
    BY <1>3 DEF Pass, Begin
  <2>4. pass' \in [Sweeper -> Passes'] BY <2>2, <2>3, PassChange DEF Sweeper
  <2>5. Max({horizon, Since}) \in {horizon, Since}
    <3>1. horizon \in Int /\ Since \in Int BY <1>0, <2>1
    <3> HIDE DEF Since
    <3> QED BY <3>1, MaxOfTwo
  <2>6. horizon' \in 0..now
    <3> HIDE DEF Max
    <3> QED BY <1>0, <2>1, <2>3, <2>5
  <2>7. OnWire' = OnWire /\ dated' = dated /\ late' = late BY <2>3 DEF OnWire, wire
  <2> QED BY <1>0, <2>3, <2>4, <2>6, <2>7 DEF TypeInv, TypeOK, Passes
<1>4. CASE Backfill
  <2>1. PICK span \in 0..Start - 1 :
          Begin("hand", now - span) /\ horizon' = Max({horizon, now - span})
    BY <1>4 DEF Backfill
  <2>2. now - span \in 0..now BY <1>0, StartBounds
  <2>3. [NoPass EXCEPT !.pc = "fetch", !.since = now - span] \in Passes
    BY <1>n, <2>2 DEF NoPass, Passes
  <2>4. /\ UNCHANGED <<now, wire, stored, cursor, swept, faults>> /\ backfills' \in 0..MaxBackfills
    BY <1>0, <1>4, <1>c DEF Backfill
  <2>5. pass' \in [Sweeper -> Passes'] BY <2>1, <2>3, <2>4, PassChange DEF Sweeper, Begin
  <2>6. Max({horizon, now - span}) \in {horizon, now - span}
    <3>1. horizon \in Int /\ now - span \in Int BY <1>0, <2>2
    <3> QED BY <3>1, MaxOfTwo
  <2>7. horizon' \in 0..now
    <3> HIDE DEF Max
    <3> QED BY <1>0, <2>1, <2>2, <2>6
  <2>8. OnWire' = OnWire /\ dated' = dated /\ late' = late BY <2>4 DEF OnWire, wire
  <2> QED BY <1>0, <2>4, <2>5, <2>7, <2>8 DEF TypeInv, TypeOK, Passes
<1>5. ASSUME NEW w \in Sweeper, Work(w) \/ Fail(w) PROVE TypeInv'
  <2>0. /\ UNCHANGED <<now, wire, swept, horizon, backfills>>
        /\ OnWire' = OnWire /\ dated' = dated /\ late' = late
    BY <1>5 DEF Work, Fail, FetchPage, StoreSignals, StoreRejections, MoveCursor, OnWire, wire
  <2>1. pass[w] \in Passes BY <1>0
  <2>2. SUFFICES /\ pass' \in [Sweeper -> Passes'] /\ stored' \subseteq OnWire
                 /\ cursor' \in 0..now /\ (cursor' > 0 => LateEnough(cursor'))
                 /\ faults' \in 0..MaxFaults
    BY <1>0, <2>0 DEF TypeInv, TypeOK, Passes
  <2>3. CASE FetchPage(w)
    <3>1. PICK S \in SUBSET Ahead(w) :
            pass' = [pass EXCEPT ![w] =
              IF LastPage(w, S)
                THEN [NoPass EXCEPT !.pc = "signals", !.fetched = pass[w].fetched \cup S]
                ELSE [pass[w] EXCEPT !.fetched = pass[w].fetched \cup S,
                                     !.page = pass[w].page + 1]]
      BY <2>3, PageRead
    <3>2. pass[w].fetched \cup S \subseteq OnWire BY <2>1 DEF Passes, Ahead
    <3>3. [NoPass EXCEPT !.pc = "signals", !.fetched = pass[w].fetched \cup S] \in Passes
      BY <1>n, <3>2 DEF NoPass, Passes
    <3>4. ASSUME ~ LastPage(w, S)
          PROVE  [pass[w] EXCEPT !.fetched = pass[w].fetched \cup S,
                                 !.page = pass[w].page + 1] \in Passes
      <4>1. pass[w].page + 1 \in 0..Pages - 1 BY <1>c, <2>1, <3>4 DEF Passes, LastPage
      <4>2. pass[w].fetched \cup S \in SUBSET OnWire BY <3>2
      <4> HIDE DEF OnWire
      <4> QED BY <2>1, <4>1, <4>2 DEF Passes
    <3>5. \E r \in Passes : pass' = [pass EXCEPT ![w] = r]
      <4>1. CASE LastPage(w, S)
        <5>1. pass' = [pass EXCEPT ![w] =
                [NoPass EXCEPT !.pc = "signals", !.fetched = pass[w].fetched \cup S]]
          BY <1>0, <3>1, <4>1
        <5> QED BY <3>3, <5>1, Zenon
      <4>2. CASE ~ LastPage(w, S)
        <5>1. pass' = [pass EXCEPT ![w] =
                [pass[w] EXCEPT !.fetched = pass[w].fetched \cup S,
                                !.page = pass[w].page + 1]]
          BY <3>1, <4>2
        <5> QED BY <3>4, <4>2, <5>1, Zenon
      <4> QED BY <4>1, <4>2
    <3>7. PICK r \in Passes : pass' = [pass EXCEPT ![w] = r] BY <3>5
    <3>6. pass' \in [Sweeper -> Passes'] BY <2>0, <3>7, PassChange
    <3> QED BY <1>0, <2>3, <3>6 DEF FetchPage
  <2>4. CASE StoreSignals(w)
    <3>1. [pass[w] EXCEPT !.pc = "rejections"] \in Passes BY <2>1 DEF Passes
    <3>2. pass' = [pass EXCEPT ![w] = [pass[w] EXCEPT !.pc = "rejections"]]
      BY <2>4 DEF StoreSignals
    <3>3. pass' \in [Sweeper -> Passes'] BY <2>0, <3>1, <3>2, PassChange
    <3>4. pass[w].fetched \subseteq OnWire BY <2>1 DEF Passes
    <3> QED BY <1>0, <2>4, <3>3, <3>4 DEF StoreSignals
  <2>5. CASE StoreRejections(w)
    <3>1. [pass[w] EXCEPT !.pc = "cursor"] \in Passes BY <2>1 DEF Passes
    <3>2. pass' = [pass EXCEPT ![w] = [pass[w] EXCEPT !.pc = "cursor"]]
      BY <2>5 DEF StoreRejections
    <3>3. pass' \in [Sweeper -> Passes'] BY <2>0, <3>1, <3>2, PassChange
    <3>4. pass[w].fetched \subseteq OnWire BY <2>1 DEF Passes
    <3> QED BY <1>0, <2>5, <3>3, <3>4 DEF StoreRejections
  <2>6. CASE MoveCursor(w)
    <3>1. pass' \in [Sweeper -> Passes']
      BY <1>n, <2>0, <2>6, PassChange DEF MoveCursor
    <3>2. CASE pass[w].fetched = {} BY <1>0, <2>6, <3>1, <3>2 DEF MoveCursor, NextCursor
    <3>3. CASE pass[w].fetched # {}
      <4>1. PICK b \in pass[w].fetched : NextCursor(w) = dated[b] BY <3>3, NewestIsRead
      <4>2. b \in OnWire BY <2>1 DEF Passes
      <4>3. dated[b] \in 0..now /\ LateEnough(dated[b]) BY <1>0, <4>2 DEF OnWire
      <4> QED BY <1>0, <2>6, <3>1, <4>1, <4>3 DEF MoveCursor
    <3> QED BY <3>2, <3>3
  <2>7. CASE Fail(w)
    <3>1. pass' \in [Sweeper -> Passes'] BY <1>n, <2>0, <2>7, PassChange DEF Fail
    <3> QED BY <1>0, <1>c, <2>7, <3>1 DEF Fail
  <2> QED BY <1>5, <2>3, <2>4, <2>5, <2>6, <2>7 DEF Work
<1>6. CASE UNCHANGED vars
  <2>1. OnWire' = OnWire BY <1>6 DEF OnWire, vars, wire
  <2> QED BY <1>0, <1>6, <2>1 DEF TypeInv, TypeOK, Passes, vars, wire
<1> QED BY <1>1, <1>2, <1>3, <1>4, <1>5, <1>6 DEF Next

-----------------------------------------------------------------------------
(* The gap.  A pass carries the promise: what it has not read is excused,  *)
(* at most an overlap behind what it has read, or still ahead of it.       *)

Excused(a) == a \in late \/ dated[a] < horizon

\* The articles a pass has missed so far.
Unread(w) == OnWire \ (stored \cup pass[w].fetched)

\* Nothing lies before the start of a pass, nor will: it starts the overlap
\* back, or at the horizon.
StartInv(w) ==
  pass[w].pc = "fetch" =>
    /\ pass[w].since + Overlap <= now \/ pass[w].since <= horizon
    /\ \A a \in OnWire \ stored : dated[a] < pass[w].since => Excused(a)

\* What lies behind the pages read came after them: cron's pass ends within its
\* minute, so it is not older than the overlap.
PagesInv(w) ==
  pass[w].pc = "fetch" =>
    \A a \in Unread(w), b \in pass[w].fetched :
      dated[a] < dated[b] => Excused(a) \/ (w = "cron" /\ dated[a] + Overlap >= now)

ReadInv(w) ==
  \A a \in Unread(w), b \in pass[w].fetched : dated[a] + Overlap < dated[b] => Excused(a)

\* The cursor moves only after everything read is stored.
StoredInv(w) ==
  /\ pass[w].pc = "rejections" => pass[w].fetched \cap Signal \subseteq stored
  /\ pass[w].pc = "cursor" => pass[w].fetched \subseteq stored

PassInv(w) == StartInv(w) /\ PagesInv(w) /\ ReadInv(w) /\ StoredInv(w)

GapInv == TypeInv /\ NoGap /\ \A w \in Sweeper : PassInv(w)

LEMMA GapInit == Init => GapInv
<1> SUFFICES ASSUME Init PROVE GapInv OBVIOUS
<1>1. OnWire = {} BY DEF Init, OnWire
<1>2. \A w \in Sweeper : pass[w].pc = "none" BY DEF Init, NoPass
<1> QED BY <1>1, <1>2, TypeInit
      DEF GapInv, NoGap, PassInv, StartInv, PagesInv, ReadInv, StoredInv, Unread

\* An article that appears breaks no promise: it is late, or not older than the overlap.
LEMMA AppearKeepsGap ==
  ASSUME GapInv, TypeInv', NEW x \in Article, Appear(x)
  PROVE  GapInv'
<1>0. /\ now \in Nat /\ cursor \in 0..now /\ dated \in [Article -> 0..now] /\ horizon \in Nat
      /\ \A w \in Sweeper : pass[w].since \in 0..now /\ pass[w].fetched \subseteq OnWire
      /\ OnWire \subseteq Article /\ Overlap \in Nat /\ stored \subseteq OnWire
  BY SweepAssumption DEF GapInv, TypeInv, TypeOK, OnWire, SweepAssumption
<1>1. PICK lag \in 0..MaxLag :
        /\ dated' = [dated EXCEPT ![x] = now - lag]
        /\ late' = IF lag > Overlap \/ BehindPages(now - lag) THEN late \cup {x} ELSE late
  BY DEF Appear
<1>2. UNCHANGED <<now, stored, cursor, pass, swept, horizon>> /\ x \notin OnWire BY DEF Appear
<1>3. lag \in Int /\ now - lag \in Int BY <1>0, SweepAssumption DEF SweepAssumption
<1>4. /\ dated'[x] = now - lag /\ \A a \in Article \ {x} : dated'[a] = dated[a]
      /\ late \subseteq late'
  BY <1>0, <1>1
<1>5. OnWire' \subseteq OnWire \cup {x} BY <1>4 DEF OnWire
<1>6. \A a \in OnWire : dated'[a] = dated[a] /\ (Excused(a) => Excused(a)')
  BY <1>0, <1>2, <1>4 DEF Excused
<1>7. Excused(x)' \/ (dated'[x] + Overlap >= now /\ ~ BehindPages(now - lag))
  BY <1>0, <1>1, <1>3, <1>4 DEF Excused
<1>8. NoGap'
  <2> SUFFICES ASSUME NEW a \in OnWire' \ stored, dated'[a] + Overlap < cursor PROVE Excused(a)'
    BY <1>2 DEF NoGap, Excused
  <2>1. CASE a \in OnWire BY <1>6, <2>1 DEF GapInv, NoGap, Excused
  <2>2. CASE a = x BY <1>0, <1>3, <1>4, <1>7, <2>2
  <2> QED BY <1>5, <2>1, <2>2
<1>9. ASSUME NEW w \in Sweeper PROVE PassInv(w)'
  <2>0. /\ Unread(w)' \subseteq Unread(w) \cup {x} /\ pass[w]' = pass[w]
        /\ \A b \in pass[w].fetched : b \in OnWire /\ dated'[b] = dated[b] /\ dated[b] \in 0..now
    BY <1>0, <1>2, <1>5, <1>6 DEF Unread
  <2>1. PassInv(w) BY DEF GapInv
  <2>2. StartInv(w)'
    <3> SUFFICES ASSUME pass[w].pc = "fetch", NEW a \in OnWire' \ stored,
                        dated'[a] < pass[w].since
                 PROVE  Excused(a)'
      BY <1>2, <2>1 DEF PassInv, StartInv
    <3>1. CASE a \in OnWire BY <1>6, <2>1, <3>1 DEF PassInv, StartInv
    <3>2. CASE a = x /\ ~ Excused(x)'
      <4>1. dated'[x] + Overlap >= now BY <1>7, <3>2
      <4>2. pass[w].since + Overlap <= now \/ pass[w].since <= horizon
        BY <2>1 DEF PassInv, StartInv
      <4>3. ~ (dated'[x] < horizon) BY <1>2, <3>2 DEF Excused
      <4>4. dated'[x] \in Int /\ pass[w].since \in Int BY <1>0, <1>3, <1>4
      <4> QED BY <1>0, <3>2, <4>1, <4>2, <4>3, <4>4
    <3> QED BY <1>5, <3>1, <3>2
  <2>3. PagesInv(w)'
    <3> SUFFICES ASSUME pass[w].pc = "fetch", NEW a \in Unread(w)', NEW b \in pass[w].fetched,
                        dated'[a] < dated[b]
                 PROVE  Excused(a)' \/ (w = "cron" /\ dated'[a] + Overlap >= now)
      BY <1>2, <2>0 DEF PagesInv
    <3>1. CASE a \in Unread(w) BY <1>0, <1>6, <2>0, <2>1, <3>1 DEF PassInv, PagesInv, Unread
    <3>2. CASE a = x
      <4>1. CASE w = "hand"
        <5>1. BehindPages(now - lag) BY <1>4, <3>2, <4>1 DEF BehindPages
        <5> QED BY <1>7, <3>2, <5>1
      <4> QED BY <1>7, <3>2, <4>1 DEF Sweeper
    <3> QED BY <2>0, <3>1, <3>2
  <2>4. ReadInv(w)'
    <3> SUFFICES ASSUME NEW a \in Unread(w)', NEW b \in pass[w].fetched,
                        dated'[a] + Overlap < dated[b]
                 PROVE  Excused(a)'
      BY <1>2, <2>0 DEF ReadInv
    <3>1. CASE a \in Unread(w) BY <1>0, <1>6, <2>0, <2>1, <3>1 DEF PassInv, ReadInv, Unread
    <3>2. CASE a = x
      <4>1. dated'[x] \in Int BY <1>3, <1>4
      <4> QED BY <1>0, <1>7, <2>0, <3>2, <4>1
    <3> QED BY <2>0, <3>1, <3>2
  <2>5. StoredInv(w)' BY <1>2, <2>1 DEF PassInv, StoredInv
  <2> QED BY <2>2, <2>3, <2>4, <2>5 DEF PassInv
<1> QED BY <1>8, <1>9 DEF GapInv

\* What the gap's promise says of numbers, in a step that leaves the wire alone.
LEMMA GapTypes ==
  ASSUME GapInv
  PROVE  /\ now \in Nat /\ cursor \in 0..now /\ horizon \in Nat /\ Overlap \in Nat
         /\ \A a \in OnWire : dated[a] \in 0..now
         /\ \A w \in Sweeper : pass[w].since \in 0..now /\ pass[w].fetched \subseteq OnWire
BY SweepAssumption DEF GapInv, TypeInv, TypeOK, OnWire, SweepAssumption

\* A pass another one runs beside keeps its promise while the stores only grow.
LEMMA OtherPass ==
  ASSUME GapInv, NEW w \in Sweeper, pass'[w] = pass[w], UNCHANGED wire,
         stored \subseteq stored', horizon' \in Nat, horizon' >= horizon,
         now' \in Nat, now' >= now, now' = now \/ pass["cron"].pc = "none"
  PROVE  PassInv(w)'
<1>1. PassInv(w) BY DEF GapInv
<1>2. OnWire' = OnWire /\ dated' = dated /\ Unread(w)' \subseteq Unread(w)
  BY DEF OnWire, wire, Unread
<1>3. \A a \in OnWire : Excused(a) => Excused(a)' BY GapTypes DEF Excused, wire
<1>4. StartInv(w)' BY <1>1, <1>2, <1>3, GapTypes DEF PassInv, StartInv
<1>5. PagesInv(w)'
  <2>1. CASE now' = now BY <1>1, <1>2, <1>3, <2>1 DEF PassInv, PagesInv, Unread
  <2>2. CASE pass["cron"].pc = "none"
    BY <1>1, <1>2, <1>3, <2>2 DEF PassInv, PagesInv, Unread, Sweeper
  <2> QED BY <2>1, <2>2
<1>6. ReadInv(w)' BY <1>1, <1>2, <1>3 DEF PassInv, ReadInv, Unread
<1>7. StoredInv(w)' BY <1>1 DEF PassInv, StoredInv
<1> QED BY <1>4, <1>5, <1>6, <1>7 DEF PassInv

\* A pass that begins behind everything excused makes its promise.
LEMMA BeginKeepsGap ==
  ASSUME GapInv, TypeInv', NEW w \in Sweeper, NEW since \in 0..now, Begin(w, since),
         UNCHANGED <<now, wire, stored, cursor>>, horizon' \in Nat, horizon' >= horizon,
         since + Overlap <= now \/ since <= horizon',
         \A a \in OnWire \ stored : dated[a] < since => Excused(a) \/ since <= horizon'
  PROVE  GapInv'
<1>1. OnWire' = OnWire /\ dated' = dated /\ late' = late BY DEF OnWire, wire
<1>2. \A a \in OnWire : Excused(a) => Excused(a)' BY <1>1, GapTypes DEF Excused
<1>3. NoGap' BY <1>1, <1>2 DEF GapInv, NoGap, Excused
<1>4. ASSUME NEW v \in Sweeper PROVE PassInv(v)'
  <2>1. CASE v # w
    <3>1. pass'[v] = pass[v] BY <2>1 DEF Begin, GapInv, TypeInv, TypeOK
    <3> QED BY <3>1, GapTypes, OtherPass
  <2>2. CASE v = w
    <3>1. pass'[w] = [NoPass EXCEPT !.pc = "fetch", !.since = since]
      BY DEF Begin, GapInv, TypeInv, TypeOK
    <3>2. pass'[w].pc = "fetch" /\ pass'[w].since = since /\ pass'[w].fetched = {}
      BY <3>1 DEF NoPass
    <3>3. ASSUME NEW a \in OnWire \ stored, dated[a] < since PROVE Excused(a)'
      <4>1. CASE Excused(a) BY <1>2, <4>1
      <4>2. CASE since <= horizon' BY <1>1, <3>3, <4>2, GapTypes DEF Excused
      <4> QED BY <3>3, <4>1, <4>2
    <3>4. StartInv(w)' BY <1>1, <3>2, <3>3 DEF StartInv
    <3>5. PagesInv(w)' /\ ReadInv(w)' /\ StoredInv(w)'
      BY <3>2 DEF PagesInv, ReadInv, StoredInv
    <3> QED BY <2>2, <3>4, <3>5 DEF PassInv
  <2> QED BY <2>1, <2>2
<1> QED BY <1>3, <1>4 DEF GapInv

\* A page is the oldest of what is ahead: what it leaves out is not older, or behind.
LEMMA FetchKeepsGap ==
  ASSUME GapInv, TypeInv', NEW w \in Sweeper, FetchPage(w)
  PROVE  GapInv'
<1>1. PICK S \in SUBSET Ahead(w) :
        /\ \A a \in S, b \in Ahead(w) \ S : dated[a] <= dated[b]
        /\ pass' = [pass EXCEPT ![w] =
             IF LastPage(w, S)
               THEN [NoPass EXCEPT !.pc = "signals", !.fetched = pass[w].fetched \cup S]
               ELSE [pass[w] EXCEPT !.fetched = pass[w].fetched \cup S,
                                    !.page = pass[w].page + 1]]
  BY PageRead
<1>2. /\ UNCHANGED <<now, wire, stored, cursor, horizon>> /\ pass[w].pc = "fetch"
  BY DEF FetchPage
<1>3. OnWire' = OnWire /\ dated' = dated /\ late' = late BY <1>2 DEF OnWire, wire
<1>4. \A a : Excused(a)' <=> Excused(a) BY <1>2, <1>3 DEF Excused
<1>5. NoGap' BY <1>2, <1>3, <1>4 DEF GapInv, NoGap
<1>6. pass \in [Sweeper -> Passes] BY DEF GapInv, TypeInv, TypeOK, Passes
<1>7. /\ pass'[w].fetched = pass[w].fetched \cup S
      /\ pass'[w].pc \in {"fetch", "signals"}
      /\ pass'[w].pc = "fetch" => pass'[w].since = pass[w].since
      /\ \A v \in Sweeper \ {w} : pass'[v] = pass[v]
  <2>1. pass[w] \in Passes /\ \A v \in Sweeper \ {w} : pass'[v] = pass[v] BY <1>1, <1>6
  <2>2. CASE LastPage(w, S)
    <3>1. pass'[w] = [NoPass EXCEPT !.pc = "signals", !.fetched = pass[w].fetched \cup S]
      BY <1>1, <1>6, <2>2, Zenon
    <3> QED BY <2>1, <3>1 DEF NoPass
  <2>3. CASE ~ LastPage(w, S)
    <3>1. pass'[w] = [pass[w] EXCEPT !.fetched = pass[w].fetched \cup S,
                                     !.page = pass[w].page + 1]
      BY <1>1, <1>6, <2>3, Zenon
    <3> QED BY <1>2, <2>1, <3>1 DEF Passes
  <2> QED BY <2>2, <2>3
<1>8. PassInv(w) BY DEF GapInv
<1>9. ASSUME NEW a \in OnWire \ (stored \cup pass'[w].fetched), NEW b \in pass'[w].fetched,
             dated[a] < dated[b]
      PROVE  Excused(a) \/ (w = "cron" /\ dated[a] + Overlap >= now)
  <2>1. a \in Unread(w) /\ a \notin S BY <1>7 DEF Unread
  <2>2. CASE b \in pass[w].fetched BY <1>2, <1>8, <1>9, <2>1, <2>2 DEF PassInv, PagesInv
  <2>3. CASE b \in S
    <3>1. dated[a] \in Nat /\ dated[b] \in Nat BY <2>1, <2>3, GapTypes DEF Ahead, Unread
    <3>2. a \notin Ahead(w) BY <1>1, <1>9, <2>1, <2>3, <3>1
    <3>3. dated[a] < pass[w].since \/ \E c \in pass[w].fetched : dated[a] < dated[c]
      <4>1. \A c \in pass[w].fetched : dated[c] \in Nat BY GapTypes
      <4>2. pass[w].since \in Nat BY GapTypes
      <4> QED BY <2>1, <3>1, <3>2, <4>1, <4>2 DEF Ahead, Unread
    <3> QED BY <1>2, <1>8, <2>1, <3>3 DEF PassInv, StartInv, PagesInv, Unread
  <2> QED BY <1>7, <2>2, <2>3
<1>10. ASSUME NEW v \in Sweeper PROVE PassInv(v)'
  <2>1. CASE v # w BY <1>2, <1>7, <2>1, GapTypes, OtherPass
  <2>2. CASE v = w
    <3>1. StartInv(w)' BY <1>2, <1>3, <1>4, <1>7, <1>8 DEF PassInv, StartInv
    <3>2. PagesInv(w)' BY <1>2, <1>3, <1>4, <1>9 DEF PagesInv, Unread
    <3>3. ReadInv(w)'
      <4> SUFFICES ASSUME NEW a \in OnWire \ (stored \cup pass'[w].fetched),
                          NEW b \in pass'[w].fetched, dated[a] + Overlap < dated[b]
                   PROVE  Excused(a)
        BY <1>2, <1>3, <1>4 DEF ReadInv, Unread
      <4>1. dated[a] \in 0..now /\ dated[b] \in 0..now
        BY <1>1, <1>7, GapTypes DEF Ahead
      <4> QED BY <1>9, <4>1, GapTypes
    <3>4. StoredInv(w)' BY <1>7 DEF StoredInv
    <3> QED BY <2>2, <3>1, <3>2, <3>3, <3>4 DEF PassInv
  <2> QED BY <2>1, <2>2
<1> QED BY <1>5, <1>10 DEF GapInv

\* A pass stores what it read, in two steps, then the cursor may move.
LEMMA StoreKeepsGap ==
  ASSUME GapInv, TypeInv', NEW w \in Sweeper, StoreSignals(w) \/ StoreRejections(w)
  PROVE  GapInv'
<1>1. /\ UNCHANGED <<now, wire, cursor, horizon>> /\ stored \subseteq stored'
      /\ OnWire' = OnWire /\ dated' = dated /\ late' = late
  BY DEF StoreSignals, StoreRejections, OnWire, wire
<1>2. \A a : Excused(a)' <=> Excused(a) BY <1>1 DEF Excused
<1>3. NoGap' BY <1>1, <1>2 DEF GapInv, NoGap
<1>4. pass \in [Sweeper -> Passes] BY DEF GapInv, TypeInv, TypeOK, Passes
<1>5. /\ pass'[w].fetched = pass[w].fetched
      /\ \/ pass'[w].pc = "rejections" /\ stored' = stored \cup (pass[w].fetched \cap Signal)
         \/ pass'[w].pc = "cursor" /\ stored' = stored \cup pass[w].fetched
      /\ \A v \in Sweeper \ {w} : pass'[v] = pass[v]
  BY <1>4 DEF StoreSignals, StoreRejections, Passes
<1>6. ASSUME NEW v \in Sweeper PROVE PassInv(v)'
  <2>1. CASE v # w BY <1>1, <1>5, <2>1, GapTypes, OtherPass
  <2>2. CASE v = w
    <3>1. StartInv(w)' /\ PagesInv(w)' BY <1>5 DEF StartInv, PagesInv
    <3>2. ReadInv(w)' BY <1>1, <1>2, <1>5 DEF GapInv, PassInv, ReadInv, Unread
    <3>3. StoredInv(w)' BY <1>5 DEF StoredInv
    <3> QED BY <2>2, <3>1, <3>2, <3>3 DEF PassInv
  <2> QED BY <2>1, <2>2
<1> QED BY <1>3, <1>6 DEF GapInv

\* A pass that ends, and the cursor with it, leaves only the excused behind.
LEMMA EndKeepsGap ==
  ASSUME GapInv, TypeInv', NEW w \in Sweeper, MoveCursor(w) \/ Fail(w)
  PROVE  GapInv'
<1>1. /\ UNCHANGED <<now, wire, stored, horizon>>
      /\ OnWire' = OnWire /\ dated' = dated /\ late' = late
  BY DEF MoveCursor, Fail, OnWire, wire
<1>2. \A a : Excused(a)' <=> Excused(a) BY <1>1 DEF Excused
<1>3. pass \in [Sweeper -> Passes] BY DEF GapInv, TypeInv, TypeOK, Passes
<1>4. pass'[w] = NoPass /\ \A v \in Sweeper \ {w} : pass'[v] = pass[v]
  BY <1>3 DEF MoveCursor, Fail
<1>5. NoGap'
  <2>1. CASE cursor' = cursor BY <1>1, <1>2, <2>1 DEF GapInv, NoGap
  <2>2. CASE MoveCursor(w) /\ cursor' # cursor
    <3>1. /\ pass[w].pc = "cursor" /\ cursor' = NextCursor(w) /\ pass[w].fetched # {}
      BY <2>2 DEF MoveCursor, NextCursor
    <3>2. PICK b \in pass[w].fetched : NextCursor(w) = dated[b]
      BY <3>1, NewestIsRead DEF GapInv
    <3>3. pass[w].fetched \subseteq stored /\ ReadInv(w)
      BY <3>1 DEF GapInv, PassInv, StoredInv
    <3> SUFFICES ASSUME NEW a \in OnWire \ stored, dated[a] + Overlap < dated[b]
                 PROVE  Excused(a)
      BY <1>1, <1>2, <3>1, <3>2 DEF NoGap, Excused
    <3> QED BY <3>3 DEF ReadInv, Unread
  <2> QED BY <2>1, <2>2 DEF Fail
<1>6. ASSUME NEW v \in Sweeper PROVE PassInv(v)'
  <2>1. CASE v # w BY <1>1, <1>4, <2>1, GapTypes, OtherPass
  <2>2. CASE v = w
    BY <1>4, <2>2 DEF NoPass, PassInv, StartInv, PagesInv, ReadInv, StoredInv
  <2> QED BY <2>1, <2>2
<1> QED BY <1>5, <1>6 DEF GapInv

LEMMA GapStep == GapInv /\ [Next]_vars => GapInv'
<1> SUFFICES ASSUME GapInv, [Next]_vars PROVE GapInv' OBVIOUS
<1>1. TypeInv' BY TypeStep DEF GapInv
<1>2. ASSUME NEW a \in Article, Appear(a) PROVE GapInv' BY <1>1, <1>2, AppearKeepsGap
<1>3. CASE Tick
  <2>1. /\ UNCHANGED <<wire, stored, cursor, pass, horizon>> /\ pass["cron"].pc = "none"
        /\ now' = IF now < MaxNow THEN now + 1 ELSE now
    BY <1>3 DEF Tick
  <2>2. now' \in Nat /\ now' >= now BY <2>1, GapTypes
  <2>3. NoGap' BY <2>1 DEF GapInv, NoGap, OnWire, wire
  <2>4. \A w \in Sweeper : PassInv(w)' BY <2>1, <2>2, GapTypes, OtherPass
  <2> QED BY <1>1, <2>3, <2>4 DEF GapInv
<1>4. CASE Pass
  <2>1. /\ Begin("cron", Since) /\ UNCHANGED <<now, wire, stored, cursor>>
        /\ horizon' = IF cursor > 0 THEN horizon ELSE Max({horizon, Since})
    BY <1>4 DEF Pass
  <2>2. Since \in 0..now BY SinceInTime DEF GapInv
  <2>3. CASE cursor > 0
    <3>1. Since = cursor - Overlap /\ horizon' = horizon BY <2>1, <2>3 DEF Since
    <3>2. \A a \in OnWire \ stored : dated[a] < Since => Excused(a)
      BY <3>1, GapTypes DEF GapInv, NoGap, Excused
    <3>3. Since + Overlap <= now BY <3>1, GapTypes
    <3>4. PICK since \in 0..now : since = Since BY <2>2
    <3>5. horizon' \in Nat /\ horizon' >= horizon BY <3>1, GapTypes
    <3> HIDE DEF Since
    <3> QED BY <1>1, <2>1, <3>2, <3>3, <3>4, <3>5, BeginKeepsGap DEF Sweeper
  <2>4. CASE ~ (cursor > 0)
    <3>1. horizon' \in {horizon, Since} /\ horizon' >= horizon /\ horizon' >= Since
      <4>1. horizon \in Int /\ Since \in Int BY <2>2, GapTypes
      <4> HIDE DEF Since
      <4> QED BY <2>1, <2>4, <4>1, MaxOfTwo
    <3> HIDE DEF Since
    <3>2. horizon' \in Nat /\ Since <= horizon' BY <2>2, <3>1, GapTypes
    <3> QED BY <1>1, <2>1, <2>2, <3>1, <3>2, GapTypes, BeginKeepsGap DEF Sweeper
  <2> QED BY <2>3, <2>4
<1>5. CASE Backfill
  <2>1. PICK span \in 0..Start - 1 :
          Begin("hand", now - span) /\ horizon' = Max({horizon, now - span})
    BY <1>5 DEF Backfill
  <2>2. UNCHANGED <<now, wire, stored, cursor>> BY <1>5 DEF Backfill
  <2>3. now - span \in 0..now BY StartBounds DEF GapInv, TypeInv, TypeOK
  <2>4. horizon' \in {horizon, now - span} /\ horizon' >= horizon /\ horizon' >= now - span
    <3>1. horizon \in Int /\ now - span \in Int BY <2>3, GapTypes
    <3> QED BY <2>1, <3>1, MaxOfTwo
  <2>5. PICK since \in 0..now : since = now - span BY <2>3
  <2>6. horizon' \in Nat /\ since <= horizon' BY <2>3, <2>4, <2>5, GapTypes
  <2> QED BY <1>1, <2>1, <2>2, <2>4, <2>5, <2>6, GapTypes, BeginKeepsGap DEF Sweeper
<1>6. ASSUME NEW w \in Sweeper, Work(w) \/ Fail(w) PROVE GapInv'
  BY <1>1, <1>6, FetchKeepsGap, StoreKeepsGap, EndKeepsGap DEF Work
<1>7. CASE UNCHANGED vars
  <2>1. UNCHANGED <<now, wire, stored, cursor, pass, horizon>> BY <1>7 DEF vars
  <2>2. NoGap' BY <2>1 DEF GapInv, NoGap, OnWire, wire
  <2>3. \A w \in Sweeper : PassInv(w)' BY <2>1, GapTypes, OtherPass
  <2> QED BY <1>1, <2>2, <2>3 DEF GapInv
<1> QED BY <1>2, <1>3, <1>4, <1>5, <1>6, <1>7 DEF Next

-----------------------------------------------------------------------------
(* The stores are always well formed: the cursor and every look back stay  *)
(* inside the model's time, and what is stored or read was on the wire.    *)
THEOREM TypeCorrect == Spec => []TypeOK
<1>1. TypeInv => TypeOK BY DEF TypeInv
<1> QED BY TypeInit, TypeStep, <1>1, PTL DEF Spec

(* An article the cursor has left behind by more than the overlap was      *)
(* stored, or is late, or lies before a pass that did not start at the     *)
(* cursor: however long the wire's pages, passes and lags are, and through *)
(* failed passes and passes by hand.                                       *)
THEOREM NothingLeftBehind == Spec => []NoGap
<1>1. GapInv => NoGap BY DEF GapInv
<1> QED BY GapInit, GapStep, <1>1, PTL DEF Spec
=============================================================================
