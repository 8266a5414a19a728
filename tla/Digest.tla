-------------------------------- MODULE Digest --------------------------------
(***************************************************************************)
(* The daily digest and its retry (scripts/run_digest.py): the digest run  *)
(* of the daily chain first resends what is pending, then builds, mails    *)
(* and sends today's digest; the notify run of the intraday chain, under   *)
(* another lock, resends what is pending too (run_notify.py:166).  All     *)
(* they share is app_state, a table of single rows: every set_state is a   *)
(* transaction of its own, and a process may die between any two.          *)
(*                                                                         *)
(* A digest is its day and whether it carries the savings plan of the      *)
(* month; the days of one model lie in one month.                          *)
(***************************************************************************)
EXTENDS Naturals, Sequences

CONSTANTS
  MaxDay,     \* bound: days
  MaxRuns,    \* bound: digest runs and resends
  MaxFaults,  \* bound: failed sends
  MaxKills    \* bound: killed processes

ASSUME DigestAssumption ==
  MaxDay \in Nat \ {0} /\ MaxRuns \in Nat
  /\ MaxFaults \in Nat /\ MaxKills \in Nat

Processes == {"daily", "intraday"}
NoText == [day |-> 0, plan |-> FALSE]

VARIABLES
  day,
  hasMail,    \* is SMTP configured beside Telegram; never changes
  state,      \* app_state: digest_sent_on, the three pending rows, core_plan_month
  process,    \* the memory of the two processes
  delivered,  \* the chat: how often the digest of each day arrived there
  mailed,     \* the days whose digest was mailed
  planShown,  \* has a digest with the plan of the month been mailed or sent
  runs, faults, kills,
  overlap     \* have the two processes ever run at the same time

outVars == <<delivered, mailed, planShown>>
vars == <<day, hasMail, state, process, outVars, runs, faults, kills, overlap>>

Idle == [pc |-> "idle", digest |-> FALSE, day |-> 0, date |-> 0, text |-> NoText,
         writes |-> <<>>, then |-> "idle"]

Init ==
  /\ day = 1 /\ hasMail \in BOOLEAN
  /\ state = [sent |-> 0, date |-> 0, text |-> NoText, core |-> FALSE, month |-> FALSE]
  /\ process = [p \in Processes |-> Idle]
  /\ delivered = [d \in 1..MaxDay |-> 0] /\ mailed = {} /\ planShown = FALSE
  /\ runs = 0 /\ faults = 0 /\ kills = 0 /\ overlap = FALSE

Fault == faults < MaxFaults /\ faults' = faults + 1

\* The runs are afternoon and evening steps with a time limit: none spans midnight.
NextDay ==
  /\ \A p \in Processes : process[p].pc = "idle"
  /\ day < MaxDay /\ day' = day + 1
  /\ UNCHANGED <<hasMail, state, process, outVars, runs, faults, kills, overlap>>

-----------------------------------------------------------------------------
(* set_state: one row after the other, then the process goes on.           *)

Row(key, value) == [key |-> key, value |-> value]

Mut_PlanMarked(d, text, core) ==
  <<Row("date", d), Row("text", text), Row("core", core), Row("month", core)>>
StorePending(d, text, core) == <<Row("date", d), Row("text", text), Row("core", core)>>
ClearPending == <<Row("date", 0), Row("text", NoText), Row("core", FALSE)>>
MarkSent(text) ==
  <<Row("sent", text.day)>> \o (IF text.plan THEN <<Row("month", TRUE)>> ELSE <<>>)

\* Where the resend returns to: the caller's next step.
Resent(p) == IF process[p].digest THEN "check" ELSE "idle"

WriteThen(p, rows, then) ==
  process' = [process EXCEPT ![p].writes = rows, ![p].then = then, ![p].pc = "write"]

Write(p) ==
  /\ process[p].pc = "write"
  /\ LET row == Head(process[p].writes) IN
       state' = [k \in DOMAIN state |-> IF k = row.key THEN row.value ELSE state[k]]
  /\ process' = IF Len(process[p].writes) > 1 THEN [process EXCEPT ![p].writes = Tail(@)]
                ELSE IF process[p].then = "idle" THEN [process EXCEPT ![p] = Idle]
                ELSE [process EXCEPT ![p].writes = <<>>, ![p].pc = process[p].then,
                                     ![p].then = "idle"]
  /\ UNCHANGED <<day, hasMail, outVars, runs, faults, kills, overlap>>

-----------------------------------------------------------------------------
(* maybe_resend_pending.                                                   *)

Start(p) ==
  /\ process[p].pc = "idle" /\ runs < MaxRuns
  /\ runs' = runs + 1
  /\ overlap' = (overlap \/ \E q \in Processes : process[q].pc # "idle")
  /\ \E digest \in IF p = "daily" THEN BOOLEAN ELSE {FALSE} :
       process' = [process EXCEPT ![p] =
                     [Idle EXCEPT !.pc = "date", !.digest = digest, !.day = day]]
  /\ UNCHANGED <<day, hasMail, state, outVars, faults, kills>>

Mut_FallThrough(p) == process' = [process EXCEPT ![p].pc = "check"]
Leave(p) == process' = [process EXCEPT ![p] =
  IF process[p].digest THEN [@ EXCEPT !.pc = "check"] ELSE Idle]

ReadDate(p) ==
  /\ process[p].pc = "date"
  /\ IF state.date = 0 THEN Leave(p)
     ELSE process' = [process EXCEPT ![p].pc = "text", ![p].date = state.date]
  /\ UNCHANGED <<day, hasMail, state, outVars, runs, faults, kills, overlap>>

\* Same day only: a pending from yesterday is dropped, not sent.
Mut_AnyDay(p) == state.text # NoText
Sendable(p) == process[p].date = process[p].day /\ state.text # NoText

ReadText(p) ==
  /\ process[p].pc = "text"
  /\ IF Sendable(p)
       THEN process' = [process EXCEPT ![p].pc = "resend", ![p].text = state.text]
       ELSE WriteThen(p, ClearPending, Resent(p))
  /\ UNCHANGED <<day, hasMail, state, outVars, runs, faults, kills, overlap>>

Arrives(text) ==
  /\ delivered' = [delivered EXCEPT ![text.day] = @ + 1]
  /\ planShown' = (planShown \/ text.plan)

Resend(p) ==
  /\ process[p].pc = "resend"
  /\ Arrives(process[p].text)
  /\ WriteThen(p, <<Row("sent", process[p].date)>>, "core")
  /\ UNCHANGED <<day, hasMail, state, mailed, runs, faults, kills, overlap>>

\* A TelegramError; the message, or a part of it, may have arrived all the same.
ResendFails(p) ==
  /\ process[p].pc = "resend" /\ Fault
  /\ \/ Arrives(process[p].text)
     \/ UNCHANGED <<delivered, planShown>>
  /\ Leave(p)
  /\ UNCHANGED <<day, hasMail, state, mailed, runs, kills, overlap>>

\* The month of the plan is read after the send, then everything is cleared.
ReadCore(p) ==
  /\ process[p].pc = "core"
  /\ WriteThen(p, (IF state.core THEN <<Row("month", TRUE)>> ELSE <<>>) \o ClearPending, Resent(p))
  /\ UNCHANGED <<day, hasMail, state, outVars, runs, faults, kills, overlap>>

-----------------------------------------------------------------------------
(* The rest of run_digest.                                                 *)

Mut_NeverSkip(p) == FALSE
Skip(p) == state.sent = process[p].day

Check(p) ==
  /\ process[p].pc = "check"
  /\ process' = [process EXCEPT ![p] = IF Skip(p) THEN Idle ELSE [@ EXCEPT !.pc = "collect"]]
  /\ UNCHANGED <<day, hasMail, state, outVars, runs, faults, kills, overlap>>

\* The digest is collected and rendered.  The savings plan is in it once a month,
\* unless build_core_plan has none to show: no panel, too short a panel, a
\* strategy that does not decide.
Collect(p) ==
  /\ process[p].pc = "collect"
  /\ \E plan \in BOOLEAN :
       /\ plan => ~state.month
       /\ process' = [process EXCEPT
            ![p].text = [day |-> process[p].day, plan |-> plan],
            ![p].pc = IF hasMail THEN "mail" ELSE "phone"]
  /\ UNCHANGED <<day, hasMail, state, outVars, runs, faults, kills, overlap>>

Mail(p) ==
  /\ process[p].pc = "mail"
  /\ mailed' = mailed \cup {process[p].day}
  /\ planShown' = (planShown \/ process[p].text.plan)
  /\ WriteThen(p, MarkSent(process[p].text), "phone")
  /\ UNCHANGED <<day, hasMail, state, delivered, runs, faults, kills, overlap>>

Phone(p) ==
  /\ process[p].pc = "phone"
  /\ Arrives(process[p].text)
  /\ WriteThen(p, MarkSent(process[p].text), "idle")
  /\ UNCHANGED <<day, hasMail, state, mailed, runs, faults, kills, overlap>>

PhoneFails(p) ==
  /\ process[p].pc = "phone" /\ Fault
  /\ \/ Arrives(process[p].text)
     \/ UNCHANGED <<delivered, planShown>>
  /\ WriteThen(p, StorePending(process[p].day, process[p].text, process[p].text.plan), "idle")
  /\ UNCHANGED <<day, hasMail, state, mailed, runs, kills, overlap>>

\* The step's time limit, a reboot, a mail server that refuses.
Crash(p) ==
  /\ process[p].pc # "idle"
  /\ kills < MaxKills /\ kills' = kills + 1
  /\ process' = [process EXCEPT ![p] = Idle]
  /\ UNCHANGED <<day, hasMail, state, outVars, runs, faults, overlap>>

-----------------------------------------------------------------------------
Step(p) ==
  \/ Write(p) \/ Start(p) \/ ReadDate(p) \/ ReadText(p) \/ Resend(p) \/ ResendFails(p)
  \/ ReadCore(p) \/ Check(p) \/ Collect(p) \/ Mail(p) \/ Phone(p) \/ PhoneFails(p) \/ Crash(p)

Next == NextDay \/ \E p \in Processes : Step(p)

Spec == Init /\ [][Next]_vars

-----------------------------------------------------------------------------
(* Properties.                                                             *)

Texts == [day : 0..MaxDay, plan : BOOLEAN]

TypeOK ==
  /\ day \in 1..MaxDay /\ hasMail \in BOOLEAN /\ runs \in 0..MaxRuns /\ faults \in 0..MaxFaults
  /\ kills \in 0..MaxKills /\ overlap \in BOOLEAN
  /\ state \in [sent : 0..MaxDay, date : 0..MaxDay, text : Texts, core : BOOLEAN,
                month : BOOLEAN]
  /\ delivered \in [1..MaxDay -> Nat] /\ mailed \subseteq 1..MaxDay /\ planShown \in BOOLEAN
  /\ \A p \in Processes :
       /\ process[p].pc \in {"idle", "date", "text", "resend", "core", "check", "collect",
                             "mail", "phone", "write"}
       /\ process[p].digest \in BOOLEAN /\ process[p].text \in Texts /\ process[p].day \in 0..day
       /\ process[p].pc \in {"check", "collect", "mail", "phone"} => process[p].digest
       /\ process[p].pc = "write" <=> process[p].writes # <<>>

(* A digest repeated on the phone has a failed send or a killed process    *)
(* behind it, and each of them costs two copies at most: reruns of the     *)
(* chain and overlapping resends alone never repeat one.                   *)
RepeatsExplained == \A d \in 1..MaxDay : delivered[d] <= 1 + 2 * (faults + kills)

(* The month's savings plan is marked only when a digest carried it out of *)
(* the house, on one of the two channels or by a resend.                   *)
PlanMarkedWhenShown == state.month => planShown

(* It holds as long as no two runs overlap and either nothing was killed   *)
(* or no more than three sends and processes failed in all: it takes a     *)
(* failed send to store the month, a kill to leave it there without its    *)
(* text, a failed send to put a digest without the plan beside it, and a   *)
(* kill that keeps it from being corrected.                                *)
PlanShown == ~overlap /\ (kills = 0 \/ faults + kills <= 3) => PlanMarkedWhenShown

(* Same-day only: after any one kill between two rows a resend sends the   *)
(* digest of its own day, and the day's marker is true, that digest was    *)
(* mailed or arrived.  (Two runs that overlap, or two kills, can tear the  *)
(* date of one digest from the text of another.)                           *)
NeverStale ==
  ~overlap /\ kills <= 1 =>
    /\ \A p \in Processes : process[p].pc = "resend" => process[p].text.day = process[p].day
    /\ state.sent > 0 => state.sent \in mailed \/ delivered[state.sent] > 0
=============================================================================
