------------------------------ MODULE NewsSweep ------------------------------
(***************************************************************************)
(* The market-wide news sweep (scripts/run_news_sweep.py, the store of     *)
(* catalyst_storage.py): a pass a minute reads the wire from a cursor that *)
(* is rewound by an overlap, in a limited number of pages, stores what it  *)
(* found and moves the cursor to the newest article it saw.                *)
(*                                                                         *)
(* The wire is the environment: an article appears some time after the     *)
(* moment it is dated.  What an article says is left out but for whether   *)
(* a pass judges it a signal; the others are rejections or neither.        *)
(***************************************************************************)
EXTENDS Naturals, FiniteSets, FiniteSetsExt

CONSTANTS
  Article,     \* the articles of the wire
  Signal,      \* those a pass judges to be catalysts
  PageLimit,   \* articles of a page (50 in the code)
  Pages,       \* pages of a pass (4)
  Overlap,     \* minutes the cursor is rewound (10)
  FirstSpan,   \* minutes the first pass looks back (60)
  MaxLag,      \* bound: minutes between an article's date and its appearance
  MaxNow,      \* bound: minutes
  MaxFaults,   \* bound: failed or killed passes
  MaxBackfills \* bound: passes started by hand with --backfill-hours

ASSUME SweepAssumption ==
  /\ IsFiniteSet(Article) /\ Signal \subseteq Article
  /\ PageLimit \in Nat \ {0} /\ Pages \in Nat \ {0}
  /\ {Overlap, FirstSpan, MaxLag, MaxNow, MaxFaults, MaxBackfills} \subseteq Nat

VARIABLES
  now,
  dated,            \* per article, its created_at; 0 before it is on the wire
  late,             \* history: the articles that appeared later than the overlap allows, or
                    \* behind the pages a pass by hand had read
  stored,           \* the articles a pass judged and recorded, as signal, rejection or neither
  cursor,           \* news_sweep_cursor, 0 before the first pass
  pass,             \* cron's pass and one started by hand: where it starts, what it fetched
  swept,            \* has this minute's pass begun
  horizon,          \* history: the latest start of a pass that did not start at the cursor
  faults, backfills

wire == <<dated, late>>
vars == <<now, wire, stored, cursor, pass, swept, horizon, faults, backfills>>

\* cron runs one pass at a time, under a lock a pass started by hand does not take.
Sweeper == {"cron", "hand"}
NoPass == [pc |-> "none", since |-> 0, page |-> 0, fetched |-> {}]

\* The model's clock starts late enough for every look back.
Start == 1 + Overlap + Max({FirstSpan, MaxLag})

Init ==
  /\ now = Start
  /\ dated = [a \in Article |-> 0] /\ late = {}
  /\ stored = {} /\ cursor = 0 /\ pass = [w \in Sweeper |-> NoPass] /\ swept = FALSE /\ horizon = 0
  /\ faults = 0 /\ backfills = 0

OnWire == {a \in Article : dated[a] > 0}

-----------------------------------------------------------------------------
(* The wire and the clock.                                                 *)

\* A pass by hand has no time limit: what appears behind its pages may be older
\* than the overlap by the time it ends.
BehindPages(date) == pass["hand"].pc = "fetch" /\ \E b \in pass["hand"].fetched : date < dated[b]

Appear(a) ==
  /\ a \notin OnWire
  /\ \E lag \in 0..MaxLag :
       /\ dated' = [dated EXCEPT ![a] = now - lag]
       /\ late' = IF lag > Overlap \/ BehindPages(now - lag) THEN late \cup {a} ELSE late
  /\ UNCHANGED <<now, stored, cursor, pass, swept, horizon, faults, backfills>>

\* A pass has a limit of 50 seconds: cron's ends within its minute.
Tick ==
  /\ pass["cron"].pc = "none"
  /\ now' = IF now < MaxNow THEN now + 1 ELSE now
  /\ swept' = FALSE /\ (now < MaxNow \/ swept)
  /\ UNCHANGED <<wire, stored, cursor, pass, horizon, faults, backfills>>

-----------------------------------------------------------------------------
(* A pass.                                                                 *)

Begin(w, since) == pass' = [pass EXCEPT ![w] = [NoPass EXCEPT !.pc = "fetch", !.since = since]]

Mut_NoOverlap == IF cursor > 0 THEN cursor ELSE now - FirstSpan
Since == IF cursor > 0 THEN cursor - Overlap ELSE now - FirstSpan

Pass ==
  /\ pass["cron"].pc = "none" /\ ~swept
  /\ swept' = TRUE
  /\ Begin("cron", Since)
  /\ horizon' = IF cursor > 0 THEN horizon ELSE Max({horizon, Since})
  /\ UNCHANGED <<now, wire, stored, cursor, faults, backfills>>

\* By hand: the stored cursor is ignored, once.
Backfill ==
  /\ pass["hand"].pc = "none" /\ backfills < MaxBackfills
  /\ backfills' = backfills + 1
  /\ \E span \in 0..Start - 1 :
       Begin("hand", now - span) /\ horizon' = Max({horizon, now - span})
  /\ UNCHANGED <<now, wire, stored, cursor, swept, faults>>

Newest(S) == Max({dated[a] : a \in S})

\* What a page can still return, oldest first: the token stands for the articles before it.
Ahead(w) == {a \in OnWire \ pass[w].fetched : dated[a] >= pass[w].since
               /\ \A b \in pass[w].fetched : dated[b] <= dated[a]}

Mut_NoLimit(w, S) == S = Ahead(w)
LastPage(w, S) == S = Ahead(w) \/ pass[w].page + 1 = Pages

FetchPage(w) ==
  /\ pass[w].pc = "fetch"
  /\ \E S \in SUBSET Ahead(w) :
       /\ Cardinality(S) = Min({PageLimit, Cardinality(Ahead(w))})
       /\ \A a \in S, b \in Ahead(w) \ S : dated[a] <= dated[b]
       /\ pass' = [pass EXCEPT ![w] =
            IF LastPage(w, S)
              THEN [NoPass EXCEPT !.pc = "signals", !.fetched = pass[w].fetched \cup S]
              ELSE [pass[w] EXCEPT !.fetched = @ \cup S, !.page = @ + 1]]
  /\ UNCHANGED <<now, wire, stored, cursor, swept, horizon, faults, backfills>>

\* INSERT OR IGNORE by the wire's id: a second reading writes nothing.  The rejections
\* follow the signals in a transaction of their own.
StoreSignals(w) ==
  /\ pass[w].pc = "signals"
  /\ stored' = stored \cup (pass[w].fetched \cap Signal)
  /\ pass' = [pass EXCEPT ![w].pc = "rejections"]
  /\ UNCHANGED <<now, wire, cursor, swept, horizon, faults, backfills>>

StoreRejections(w) ==
  /\ pass[w].pc = "rejections"
  /\ stored' = stored \cup pass[w].fetched
  /\ pass' = [pass EXCEPT ![w].pc = "cursor"]
  /\ UNCHANGED <<now, wire, cursor, swept, horizon, faults, backfills>>

Mut_Now(w) == now
NextCursor(w) == IF pass[w].fetched = {} THEN cursor ELSE Newest(pass[w].fetched)

MoveCursor(w) ==
  /\ pass[w].pc = "cursor"
  /\ cursor' = NextCursor(w)
  /\ pass' = [pass EXCEPT ![w] = NoPass]
  /\ UNCHANGED <<now, wire, stored, swept, horizon, faults, backfills>>

\* An unreachable wire, the time limit, a kill: what was not written is lost.
Fail(w) ==
  /\ pass[w].pc # "none"
  /\ faults < MaxFaults /\ faults' = faults + 1
  /\ pass' = [pass EXCEPT ![w] = NoPass]
  /\ UNCHANGED <<now, wire, stored, cursor, swept, horizon, backfills>>

-----------------------------------------------------------------------------
Work(w) == FetchPage(w) \/ StoreSignals(w) \/ StoreRejections(w) \/ MoveCursor(w)

Next == (\E a \in Article : Appear(a)) \/ Tick \/ Pass \/ Backfill
        \/ \E w \in Sweeper : Work(w) \/ Fail(w)

Spec == Init /\ [][Next]_vars

\* cron starts a pass every minute, and its pass gets on; one started by hand may hang.
LiveSpec == Spec /\ WF_vars(Tick) /\ WF_vars(Pass) /\ WF_vars(Work("cron"))

-----------------------------------------------------------------------------
(* Properties.                                                             *)

TypeOK ==
  /\ now \in Nat /\ Start <= now /\ cursor \in 0..now /\ horizon \in 0..now
  /\ dated \in [Article -> 0..now] /\ late \subseteq OnWire
  /\ stored \subseteq OnWire /\ swept \in BOOLEAN
  /\ pass \in [Sweeper -> [pc : {"none", "fetch", "signals", "rejections", "cursor"},
                           since : 0..now, page : 0..Pages - 1, fetched : SUBSET OnWire]]
  /\ faults \in 0..MaxFaults /\ backfills \in 0..MaxBackfills

(* "A gap is silent and permanent": an article the cursor has left behind  *)
(* by more than the overlap was stored, unless it appeared later than the  *)
(* overlap allows or behind the pages of a pass by hand, or lies before    *)
(* the start of a pass that did not start at the cursor (the first one, or *)
(* one started by hand).                                                   *)
NoGap ==
  \A a \in OnWire \ stored : dated[a] + Overlap < cursor => a \in late \/ dated[a] < horizon

\* Do the other articles of one overlap alone fill a pass?
Crowded(a) ==
  \E t \in Start - MaxLag..MaxNow :
    Cardinality({b \in OnWire \ {a} : dated[b] \in t..t + Overlap}) >= PageLimit * Pages

Owed == {a \in OnWire \ (stored \cup late) : dated[a] >= horizon /\ ~Crowded(a)}

(* "A missed run catches up on the next pass": an article that appeared in *)
(* time is stored in the end, through failed passes and a backfill, unless *)
(* others fill a whole pass within one overlap; there the cursor stops.    *)
CatchesUp == Owed # {} ~> Owed = {}
=============================================================================
