-------------------------------- MODULE Inbox --------------------------------
(***************************************************************************)
(* The decision inbox and everyone who writes it: the notify step of the   *)
(* daily and of the intraday chain (scripts/run_notify.py, two chains with *)
(* two different locks), the Telegram receiver (scripts/run_receiver.py)   *)
(* and the cockpit (POST /api/inbox/{id}/decision).  Between them stands   *)
(* Telegram: a send or an edit may fail or may work without the answer     *)
(* coming back, and updates are delivered again until a later getUpdates   *)
(* confirms them.                                                          *)
(*                                                                         *)
(* A pitch is its ticker, its day, its status and the message it knows.    *)
(* The radar may write a new watchlist at any time: a step finds any set   *)
(* of tickers there, and which of them qualify (zone, composite, top-up)   *)
(* is left open at every selection.                                        *)
(***************************************************************************)
EXTENDS Naturals, Sequences, FiniteSets

CONSTANTS
  Ticker,       \* the tickers a watchlist may hold
  Decisions,    \* ACTIONS: buy, pass, later
  Cooldown,     \* DEFAULT_COOLDOWN_DAYS
  MaxDay,       \* bound: days
  MaxPitches,   \* bound: rows of the inbox
  MaxPresses,   \* bound: presses on the phone
  MaxCrashes    \* bound: killed processes and failed calls

ASSUME InboxAssumption ==
  /\ Decisions \cap {"open", "expired", "asks"} = {}
  /\ Cooldown \in Nat /\ MaxDay \in Nat /\ MaxPitches \in Nat
  /\ MaxPresses \in Nat /\ MaxCrashes \in Nat

Chains == {"daily", "intraday"}
Statuses == Decisions \cup {"open", "expired"}

VARIABLES
  day,       \* the calendar day
  pitches,   \* the table pitches, by id
  notify,    \* the running notify step of each chain
  phone,     \* the messages of the chat: their pitch and what they show
  updates,   \* Telegram's queue of presses, oldest first
  confirmed, \* how many of them Telegram will not deliver again
  receiver,  \* the receiver's memory: its offset (0: none) and its round
  crashes

notifyVars == <<day, notify>>
telegramVars == <<updates, confirmed, receiver>>
vars == <<day, pitches, notify, phone, updates, confirmed, receiver, crashes>>

Idle == [pc |-> "idle", now |-> 0, watch |-> {}, todo |-> {}, seen |-> 0, row |-> 0]
NoRound == [offset |-> 0, todo |-> <<>>, next |-> 0, edit |-> 0]

Init ==
  /\ day = 0
  /\ pitches = <<>> /\ phone = <<>>
  /\ notify = [c \in Chains |-> Idle]
  /\ updates = <<>> /\ confirmed = 0 /\ receiver = NoRound
  /\ crashes = 0

Fault == crashes < MaxCrashes /\ crashes' = crashes + 1

-----------------------------------------------------------------------------
NextDay ==
  /\ day < MaxDay
  /\ day' = day + 1
  /\ UNCHANGED <<pitches, notify, phone, telegramVars, crashes>>

-----------------------------------------------------------------------------
(* One notify step of chain c.                                             *)

\* An empty watchlist withdraws nothing.  (Every pitch has a verdict.)
Mut_StaleIsAll(w) == {i \in DOMAIN pitches : pitches[i].ticker \notin w}
Stale(w) == {i \in DOMAIN pitches : /\ pitches[i].status = "open" /\ w # {}
                                    /\ pitches[i].ticker \notin w}

\* The watchlist is loaded, the clock read, and what is stale withdrawn.
NotifyStart(c) ==
  /\ notify[c].pc = "idle"
  /\ \E w \in SUBSET Ticker :
       /\ pitches' = [i \in DOMAIN pitches |->
                        IF i \in Stale(w) THEN [pitches[i] EXCEPT !.status = "expired"]
                                          ELSE pitches[i]]
       /\ notify' = [notify EXCEPT ![c] = [Idle EXCEPT !.pc = "select", !.now = day, !.watch = w]]
  /\ UNCHANGED <<day, phone, telegramVars, crashes>>

\* last_pitch_at is the latest day of the ticker's pitches, whatever became of them.
Mut_OpenCools(t, now) ==
  \E i \in DOMAIN pitches : /\ pitches[i].ticker = t /\ pitches[i].status = "open"
                            /\ now < pitches[i].at + Cooldown
InsideCooldown(t, now) ==
  \E i \in DOMAIN pitches : pitches[i].ticker = t /\ now < pitches[i].at + Cooldown

Select(c) ==
  /\ notify[c].pc = "select"
  /\ \E picks \in SUBSET {t \in notify[c].watch : ~InsideCooldown(t, notify[c].now)} :
       notify' = [notify EXCEPT ![c] = IF picks = {} THEN Idle
                    ELSE [Idle EXCEPT !.pc = "create", !.now = notify[c].now,
                                      !.todo = picks, !.seen = Len(pitches)]]
  /\ UNCHANGED <<day, pitches, phone, telegramVars, crashes>>

\* create_pitch: the row is written before anything is sent; --inbox-only
\* (the intraday chain) goes on to the next candidate.
Create(c) ==
  /\ notify[c].pc = "create" /\ Len(pitches) < MaxPitches
  /\ \E t \in notify[c].todo :
       LET rest == notify[c].todo \ {t} IN
       /\ pitches' = Append(pitches, [ticker |-> t, at |-> notify[c].now, status |-> "open",
                                      message |-> 0, seen |-> notify[c].seen])
       /\ notify' = [notify EXCEPT ![c] =
                       IF c = "daily" THEN [@ EXCEPT !.todo = rest, !.row = Len(pitches) + 1,
                                                     !.pc = "send"]
                       ELSE IF rest = {} THEN Idle ELSE [@ EXCEPT !.todo = rest]]
  /\ UNCHANGED <<day, phone, telegramVars, crashes>>

\* The next candidate, or the end of the step.
Continue(c) ==
  notify' = [notify EXCEPT ![c] = IF @.todo = {} THEN Idle
                                  ELSE [@ EXCEPT !.pc = "create", !.row = 0]]

Ask(i) == [pitch |-> i, shows |-> "asks"]

\* The photo, or after any failure the text; set_message_id comes later.
Send(c) ==
  /\ notify[c].pc = "send"
  /\ phone' = Append(phone, Ask(notify[c].row))
  /\ notify' = [notify EXCEPT ![c].pc = "mark"]
  /\ UNCHANGED <<day, pitches, telegramVars, crashes>>

\* A photo that arrived without its answer: the text is sent as well.
SendTwice(c) ==
  /\ notify[c].pc = "send" /\ Fault
  /\ phone' = phone \o <<Ask(notify[c].row), Ask(notify[c].row)>>
  /\ notify' = [notify EXCEPT ![c].pc = "mark"]
  /\ UNCHANGED <<day, pitches, telegramVars>>

\* TelegramError: no message id; the text may have arrived all the same.
SendFails(c) ==
  /\ notify[c].pc = "send" /\ Fault
  /\ phone' \in {phone, Append(phone, Ask(notify[c].row))}
  /\ Continue(c)
  /\ UNCHANGED <<day, pitches, telegramVars>>

SetMessageId(c) ==
  /\ notify[c].pc = "mark"
  /\ pitches' = [pitches EXCEPT ![notify[c].row].message = Len(phone)]
  /\ Continue(c)
  /\ UNCHANGED <<day, phone, telegramVars, crashes>>

\* The step's time limit, a reboot, an error nobody catches.
NotifyCrash(c) ==
  /\ notify[c].pc # "idle" /\ Fault
  /\ notify' = [notify EXCEPT ![c] = Idle]
  /\ UNCHANGED <<day, pitches, phone, telegramVars>>

-----------------------------------------------------------------------------
(* The phone, Telegram and the cockpit.                                    *)

\* An edit replaces the message and takes its buttons away.
Press ==
  /\ Len(updates) < MaxPresses
  /\ \E m \in DOMAIN phone, d \in Decisions :
       /\ phone[m].shows = "asks"
       /\ updates' = Append(updates, [pitch |-> phone[m].pitch, action |-> d])
  /\ UNCHANGED <<notifyVars, pitches, phone, confirmed, receiver, crashes>>

\* UPDATE ... WHERE id = ? AND status = 'open'
Mut_Overwrite(i) == i \in DOMAIN pitches
Undecided(i) == i \in DOMAIN pitches /\ pitches[i].status = "open"

Cockpit ==
  /\ \E i \in DOMAIN pitches, d \in Decisions :
       /\ Undecided(i)
       /\ pitches' = [pitches EXCEPT ![i].status = d]
  /\ UNCHANGED <<notifyVars, phone, telegramVars, crashes>>

-----------------------------------------------------------------------------
(* The receiver.                                                           *)

\* getUpdates(offset) confirms everything before the offset; without one
\* Telegram delivers all that is not confirmed.
First == IF receiver.offset > 0 THEN receiver.offset ELSE confirmed + 1

Mut_ConfirmsOnReceipt == Len(updates)
Confirms == First - 1

Waiting == Len(updates) >= First

Mut_SkipsOne == Len(updates) + 2
NextOffset == Len(updates) + 1

Fetch ==
  /\ receiver.todo = <<>> /\ receiver.edit = 0
  /\ Waiting
  /\ confirmed' = Confirms
  /\ receiver' = [receiver EXCEPT !.todo = SubSeq(updates, First, Len(updates)),
                                  !.next = NextOffset]
  /\ UNCHANGED <<notifyVars, pitches, phone, updates, crashes>>

\* The offset is assigned when process_round returns, after its last press.
RoundAfter(edit) ==
  receiver' = [receiver EXCEPT !.todo = Tail(@), !.edit = edit,
                               !.offset = IF Len(receiver.todo) = 1 THEN receiver.next ELSE @,
                               !.next = IF Len(receiver.todo) = 1 THEN 0 ELSE @]

\* decide_pitch, then the row is read again: its message, if it knows one, is edited.
Decide ==
  /\ receiver.todo # <<>> /\ receiver.edit = 0
  /\ LET press == Head(receiver.todo) IN
       /\ Undecided(press.pitch)
       /\ pitches' = [pitches EXCEPT ![press.pitch].status = press.action]
       /\ RoundAfter(IF pitches[press.pitch].message = 0 THEN 0 ELSE press.pitch)
  /\ UNCHANGED <<notifyVars, phone, updates, confirmed, crashes>>

\* "Bereits entschieden": the stored outcome is written to the message again.
AlreadyDecided ==
  /\ receiver.todo # <<>> /\ receiver.edit = 0
  /\ LET press == Head(receiver.todo) IN
       /\ ~Undecided(press.pitch)
       /\ RoundAfter(IF pitches[press.pitch].message = 0 THEN 0 ELSE press.pitch)
  /\ UNCHANGED <<notifyVars, pitches, phone, updates, confirmed, crashes>>

Mut_EditsLatest(i) == Len(phone)
Message(i) == pitches[i].message

Edit ==
  /\ receiver.edit # 0
  /\ phone' = [phone EXCEPT ![Message(receiver.edit)].shows = pitches[receiver.edit].status]
  /\ receiver' = [receiver EXCEPT !.edit = 0]
  /\ UNCHANGED <<notifyVars, pitches, updates, confirmed, crashes>>

EditFails ==
  /\ receiver.edit # 0 /\ Fault
  /\ receiver' = [receiver EXCEPT !.edit = 0]
  /\ UNCHANGED <<notifyVars, pitches, phone, updates, confirmed>>

\* The process dies and the keepalive starts it again, without an offset.
ReceiverCrash ==
  /\ receiver # NoRound /\ Fault
  /\ receiver' = NoRound
  /\ UNCHANGED <<notifyVars, pitches, phone, updates, confirmed>>

-----------------------------------------------------------------------------
NotifyStep(c) ==
  \/ NotifyStart(c) \/ Select(c) \/ Create(c) \/ Send(c)
  \/ SendTwice(c) \/ SendFails(c) \/ SetMessageId(c) \/ NotifyCrash(c)

ReceiverStep == Fetch \/ Decide \/ AlreadyDecided \/ Edit

Next ==
  \/ NextDay \/ Press \/ Cockpit
  \/ \E c \in Chains : NotifyStep(c)
  \/ ReceiverStep \/ EditFails \/ ReceiverCrash

Spec == Init /\ [][Next]_vars

\* The receiver polls for ever, and cron starts it again within five minutes.
LiveSpec == Spec /\ WF_vars(ReceiverStep)

-----------------------------------------------------------------------------
(* Properties.                                                             *)

Row == [ticker : Ticker, at : Nat, status : Statuses, message : Nat, seen : Nat]
Presses == [pitch : DOMAIN pitches, action : Decisions]

PitchesOK ==
  /\ pitches \in Seq(Row)
  /\ \A i \in DOMAIN pitches : /\ pitches[i].message \in 0..Len(phone)
                               /\ pitches[i].seen < i /\ pitches[i].at <= day

PhoneOK == phone \in Seq([pitch : DOMAIN pitches, shows : Statuses \cup {"asks"}])

QueueOK == updates \in Seq(Presses) /\ confirmed \in 0..Len(updates)

ReceiverOK ==
  receiver \in [offset : 0..Len(updates) + 1, next : 0..Len(updates) + 1,
                todo : Seq(Presses), edit : {0} \cup DOMAIN pitches]

NotifyOK ==
  notify \in [Chains -> [pc : {"idle", "select", "create", "send", "mark"},
                         now : 0..MaxDay, watch : SUBSET Ticker, todo : SUBSET Ticker,
                         seen : 0..Len(pitches), row : 0..Len(pitches)]]

(* The rows, the chat, the queue and the processes are well formed: every  *)
(* id, message and offset names something that exists.                     *)
TypeOK ==
  /\ day \in 0..MaxDay /\ crashes \in 0..MaxCrashes
  /\ PitchesOK /\ PhoneOK /\ QueueOK /\ ReceiverOK /\ NotifyOK

(* decide_pitch and expire_stale_pitches: two surfaces, two chains and a   *)
(* redelivered press all meet at the WHERE clause; a pitch leaves "open"   *)
(* once and its outcome is never changed (inbox_storage.py:4).             *)
Contract == INSTANCE PitchContract WITH
  offers <- [i \in DOMAIN pitches |-> [ticker |-> pitches[i].ticker, status |-> pitches[i].status]]
SingleTransition == Contract!Spec

(* A message never shows an outcome its pitch does not have, whichever     *)
(* surface won and whoever's edit came last.                               *)
OutcomeShown ==
  \A m \in DOMAIN phone :
    phone[m].shows # "asks" => phone[m].shows = pitches[phone[m].pitch].status

(* A ticker is pitched again inside its cooldown only by a step that made  *)
(* its selection before the first of the two pitches was written: the two  *)
(* chains overlapped.                                                      *)
RepeatNeedsOverlap ==
  \A i, j \in DOMAIN pitches :
    /\ i < j /\ pitches[i].ticker = pitches[j].ticker
    /\ pitches[j].at < pitches[i].at + Cooldown
    => pitches[j].seen < i

(* "notify.py never re-pitches a ticker inside its cooldown window".       *)
NeverInsideCooldown ==
  \A i, j \in DOMAIN pitches :
    /\ i < j /\ pitches[i].ticker = pitches[j].ticker
    => pitches[j].at >= pitches[i].at + Cooldown

(* Presses do not wait for ever, through crashes of the receiver: whenever *)
(* one is pending, later none is.                                          *)
Pending == \E k \in DOMAIN updates : Undecided(updates[k].pitch)
PressHandled == Pending ~> ~Pending
=============================================================================
