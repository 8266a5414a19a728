----------------------------- MODULE InboxProofs -----------------------------
(***************************************************************************)
(* The inbox for every set of tickers and decisions, any number of pitches *)
(* and presses, any cooldown: it is well formed, a pitch keeps the outcome *)
(* it was given, and a pitch inside the cooldown needs overlapping steps.  *)
(***************************************************************************)
EXTENDS Inbox, TLAPS, SequenceTheorems

\* What a notify step knows of the table: the clock it read is not ahead, the
\* row it sends is there, and what it is about to pitch was outside its
\* cooldown in the rows it has seen.
StepInv ==
  \A c \in Chains :
    /\ notify[c].now <= day
    /\ notify[c].pc \in {"send", "mark"} => notify[c].row \in DOMAIN pitches
    /\ \A i \in DOMAIN pitches :
         i <= notify[c].seen /\ pitches[i].ticker \in notify[c].todo =>
           pitches[i].at + Cooldown <= notify[c].now

Inv == TypeOK /\ StepInv /\ RepeatNeedsOverlap

\* The rows only change in their status and message, and are only added to.
Kept ==
  /\ Len(pitches) <= Len(pitches')
  /\ \A i \in DOMAIN pitches :
       /\ pitches'[i].ticker = pitches[i].ticker
       /\ pitches'[i].at = pitches[i].at
       /\ pitches'[i].seen = pitches[i].seen

\* ... or are not added to at all.
Relabelled == Kept /\ Len(pitches') = Len(pitches)

LEMMA RowsDomain ==
  ASSUME PitchesOK
  PROVE  /\ Len(pitches) \in Nat
         /\ DOMAIN pitches = 1..Len(pitches)
         /\ \A i \in DOMAIN pitches : pitches[i] \in Row
BY ElementOfSeq, LenProperties DEF PitchesOK

\* A row with another status or message, at one place or at many.
LEMMA Relabel ==
  ASSUME PitchesOK, PhoneOK, NEW S \in SUBSET (DOMAIN pitches),
         NEW f, \A i \in S : f[i] \in Row,
         \A i \in S : /\ f[i].ticker = pitches[i].ticker /\ f[i].at = pitches[i].at
                      /\ f[i].seen = pitches[i].seen
                      /\ f[i].message \in 0..Len(phone'),
         Len(phone) <= Len(phone'), Len(phone') \in Nat, day' >= day, day' \in Nat, day \in Nat,
         pitches' = [i \in DOMAIN pitches |-> IF i \in S THEN f[i] ELSE pitches[i]]
  PROVE  PitchesOK' /\ Relabelled
<1>1. /\ Len(pitches) \in Nat /\ DOMAIN pitches = 1..Len(pitches)
      /\ \A i \in DOMAIN pitches : pitches[i] \in Row
  BY RowsDomain
<1>2. \A i \in DOMAIN pitches : pitches'[i] \in Row BY <1>1
<1>3. pitches' \in [1..Len(pitches) -> Row] BY <1>1, <1>2
<1>4. pitches' \in Seq(Row) /\ Len(pitches') = Len(pitches)
  BY <1>1, <1>3, LenProperties
<1>5. Len(phone) \in Nat BY LenProperties DEF PhoneOK
<1>6. \A i \in DOMAIN pitches :
        /\ pitches'[i].ticker = pitches[i].ticker /\ pitches'[i].at = pitches[i].at
        /\ pitches'[i].seen = pitches[i].seen
        /\ pitches'[i].message \in 0..Len(phone')
  <2> SUFFICES ASSUME NEW i \in DOMAIN pitches
               PROVE  /\ pitches'[i].ticker = pitches[i].ticker /\ pitches'[i].at = pitches[i].at
                      /\ pitches'[i].seen = pitches[i].seen
                      /\ pitches'[i].message \in 0..Len(phone')
    OBVIOUS
  <2>1. CASE i \in S BY <2>1
  <2>2. CASE i \notin S BY <2>2, <1>5 DEF PitchesOK
  <2> QED BY <2>1, <2>2
<1>7. DOMAIN pitches' = DOMAIN pitches BY <1>1, <1>3
<1>8. \A i \in DOMAIN pitches' : pitches'[i].seen < i /\ pitches'[i].at <= day'
  <2> SUFFICES ASSUME NEW i \in DOMAIN pitches
               PROVE  pitches'[i].seen < i /\ pitches'[i].at <= day'
    BY <1>7
  <2>1. pitches[i].at \in Nat BY <1>1 DEF Row
  <2> QED BY <1>6, <2>1 DEF PitchesOK
<1> QED BY <1>1, <1>4, <1>6, <1>7, <1>8 DEF PitchesOK, Relabelled, Kept

\* One row with another status.
LEMMA OneStatus ==
  ASSUME PitchesOK, PhoneOK, phone' = phone, day \in Nat, day' = day,
         NEW i \in DOMAIN pitches, NEW d \in Decisions,
         pitches' = [pitches EXCEPT ![i].status = d]
  PROVE  PitchesOK' /\ Relabelled
<1> DEFINE f == [j \in {i} |-> [pitches[j] EXCEPT !.status = d]]
<1>1. \A j \in DOMAIN pitches : pitches[j] \in Row BY RowsDomain
<1>2. Len(phone) \in Nat BY LenProperties DEF PhoneOK
<1>3. /\ f[i] = [pitches[i] EXCEPT !.status = d]
      /\ f[i] \in Row /\ f[i].ticker = pitches[i].ticker /\ f[i].at = pitches[i].at
      /\ f[i].seen = pitches[i].seen /\ f[i].message = pitches[i].message
  BY <1>1 DEF Row, Statuses
<1>4. pitches' = [j \in DOMAIN pitches |-> IF j \in {i} THEN f[j] ELSE pitches[j]]
  BY <1>3
<1>5. f[i].message \in 0..Len(phone') BY <1>3 DEF PitchesOK
<1> HIDE DEF f
<1>6. \A j \in {i} : /\ f[j] \in Row
                     /\ f[j].ticker = pitches[j].ticker /\ f[j].at = pitches[j].at
                     /\ f[j].seen = pitches[j].seen
                     /\ f[j].message \in 0..Len(phone')
  BY <1>3, <1>5
<1>7. /\ {i} \in SUBSET (DOMAIN pitches)
      /\ Len(phone) <= Len(phone') /\ Len(phone') \in Nat /\ day' >= day /\ day' \in Nat
  BY <1>2
<1> QED BY <1>4, <1>6, <1>7, Relabel

\* One row with a message that is in the chat.
LEMMA OneMessage ==
  ASSUME PitchesOK, PhoneOK, phone' = phone, day \in Nat, day' = day, NEW i,
         pitches' = [pitches EXCEPT ![i].message = Len(phone)]
  PROVE  PitchesOK' /\ Relabelled
<1>1. \A j \in DOMAIN pitches : pitches[j] \in Row BY RowsDomain
<1>2. Len(phone) \in Nat BY LenProperties DEF PhoneOK
<1> DEFINE S == {i} \cap DOMAIN pitches
           f == [j \in S |-> [pitches[j] EXCEPT !.message = Len(phone)]]
<1>3. \A j \in S : /\ f[j] = [pitches[j] EXCEPT !.message = Len(phone)]
                   /\ f[j] \in Row /\ f[j].ticker = pitches[j].ticker
                   /\ f[j].at = pitches[j].at /\ f[j].seen = pitches[j].seen
                   /\ f[j].message = Len(phone)
  BY <1>1, <1>2 DEF Row
<1>4. pitches' = [j \in DOMAIN pitches |-> IF j \in S THEN f[j] ELSE pitches[j]]
  BY <1>3
<1> HIDE DEF f
<1>5. \A j \in S : /\ f[j] \in Row
                   /\ f[j].ticker = pitches[j].ticker /\ f[j].at = pitches[j].at
                   /\ f[j].seen = pitches[j].seen
                   /\ f[j].message \in 0..Len(phone')
  BY <1>2, <1>3
<1>6. /\ S \in SUBSET (DOMAIN pitches)
      /\ Len(phone) <= Len(phone') /\ Len(phone') \in Nat /\ day' >= day /\ day' \in Nat
  BY <1>2
<1> HIDE DEF S
<1> QED BY <1>4, <1>5, <1>6, Relabel

\* A new row at the end.
LEMMA AddRow ==
  ASSUME PitchesOK, NotifyOK, NEW c \in Chains, StepInv, Len(phone) \in Nat,
         NEW t \in notify[c].todo, phone' = phone, day \in Nat, day' = day,
         pitches' = Append(pitches, [ticker |-> t, at |-> notify[c].now, status |-> "open",
                                     message |-> 0, seen |-> notify[c].seen])
  PROVE  PitchesOK' /\ Kept
<1> DEFINE row == [ticker |-> t, at |-> notify[c].now, status |-> "open",
                   message |-> 0, seen |-> notify[c].seen]
<1>0. /\ Len(pitches) \in Nat /\ DOMAIN pitches = 1..Len(pitches) /\ pitches \in Seq(Row)
      /\ \A i \in DOMAIN pitches : pitches[i] \in Row
  BY RowsDomain DEF PitchesOK
<1>1. /\ t \in Ticker /\ notify[c].now \in Nat /\ notify[c].seen \in 0..Len(pitches)
      /\ notify[c].now <= day
  BY InboxAssumption DEF NotifyOK, InboxAssumption, StepInv
<1>2. row \in Row BY <1>0, <1>1 DEF Row, Statuses
<1>3. row.message = 0 /\ row.seen <= Len(pitches) /\ row.at <= day BY <1>0, <1>1
<1> HIDE DEF row
<1>4. /\ pitches' \in Seq(Row) /\ Len(pitches') = Len(pitches) + 1
      /\ \A i \in 1..Len(pitches) : pitches'[i] = pitches[i]
      /\ pitches'[Len(pitches) + 1] = row
  BY <1>0, <1>2, AppendProperties DEF row
<1>5. DOMAIN pitches' = 1..(Len(pitches) + 1) BY <1>4, LenProperties
<1>6. \A i \in DOMAIN pitches' : /\ pitches'[i].message \in 0..Len(phone')
                                 /\ pitches'[i].seen < i /\ pitches'[i].at <= day'
  <2> SUFFICES ASSUME NEW i \in DOMAIN pitches'
               PROVE  /\ pitches'[i].message \in 0..Len(phone')
                      /\ pitches'[i].seen < i /\ pitches'[i].at <= day'
    OBVIOUS
  <2>1. CASE i \in 1..Len(pitches)
    BY <1>0, <1>4, <2>1 DEF PitchesOK
  <2>2. CASE i = Len(pitches) + 1
    <3>1. row.seen \in Nat BY <1>2 DEF Row
    <3> QED BY <1>0, <1>3, <1>4, <2>2, <3>1
  <2> QED BY <1>0, <1>5, <2>1, <2>2
<1> QED BY <1>0, <1>4, <1>6 DEF PitchesOK, Kept

\* What each step does to the table.
LEMMA PitchesStep ==
  ASSUME Inv, Next
  PROVE  PitchesOK' /\ Kept /\ (Relabelled \/ \E c \in Chains : Create(c))
<1>0. /\ Len(pitches) \in Nat /\ DOMAIN pitches = 1..Len(pitches)
      /\ \A i \in DOMAIN pitches : pitches[i] \in Row
      /\ PitchesOK /\ PhoneOK /\ NotifyOK /\ Len(phone) \in Nat /\ day \in Nat
  BY RowsDomain, LenProperties, InboxAssumption DEF Inv, TypeOK, PhoneOK, InboxAssumption
<1>s. ASSUME pitches' = pitches, Len(phone') \in Nat, Len(phone') >= Len(phone),
             day' \in Nat, day' >= day
      PROVE  PitchesOK' /\ Kept /\ Relabelled
  <2>1. \A i \in DOMAIN pitches : pitches[i].at \in Nat BY <1>0 DEF Row
  <2>2. \A i \in DOMAIN pitches : pitches[i].message \in 0..Len(phone')
    BY <1>0, <1>s DEF PitchesOK
  <2> QED BY <1>0, <1>s, <2>1, <2>2 DEF PitchesOK, Kept, Relabelled
<1>1. CASE NextDay
  <2>1. pitches' = pitches /\ phone' = phone /\ day' = day + 1 BY <1>1 DEF NextDay
  <2> QED BY <1>0, <1>s, <2>1
<1>2. CASE Press
  <2>1. pitches' = pitches /\ phone' = phone /\ day' = day BY <1>2 DEF Press, notifyVars
  <2> QED BY <1>0, <1>s, <2>1
<1>3. CASE Cockpit
  <2>0. phone' = phone /\ day' = day BY <1>3 DEF Cockpit, notifyVars
  <2>1. PICK i \in DOMAIN pitches, d \in Decisions :
          pitches' = [pitches EXCEPT ![i].status = d]
    BY <1>3 DEF Cockpit
  <2> QED BY <1>0, <2>0, <2>1, OneStatus DEF Relabelled
<1>4. ASSUME NEW c \in Chains, NotifyStep(c)
      PROVE  PitchesOK' /\ Kept /\ (Relabelled \/ Create(c))
  <2>0. day' = day
    BY <1>4 DEF NotifyStep, NotifyStart, Select, Create, Send, SendTwice, SendFails,
                SetMessageId, NotifyCrash
  <2>1. CASE NotifyStart(c)
    <3>0. phone' = phone BY <2>1 DEF NotifyStart
    <3>1. PICK w \in SUBSET Ticker :
            pitches' = [i \in DOMAIN pitches |->
                          IF i \in Stale(w) THEN [pitches[i] EXCEPT !.status = "expired"]
                                            ELSE pitches[i]]
      BY <2>1 DEF NotifyStart
    <3> DEFINE f == [i \in Stale(w) |-> [pitches[i] EXCEPT !.status = "expired"]]
    <3>2. Stale(w) \in SUBSET (DOMAIN pitches) BY DEF Stale
    <3>3. \A i \in Stale(w) : /\ f[i] = [pitches[i] EXCEPT !.status = "expired"]
                              /\ f[i] \in Row /\ f[i].ticker = pitches[i].ticker
                              /\ f[i].at = pitches[i].at /\ f[i].seen = pitches[i].seen
                              /\ f[i].message = pitches[i].message
      BY <1>0, <3>2 DEF Row, Statuses
    <3>4. pitches' = [i \in DOMAIN pitches |-> IF i \in Stale(w) THEN f[i] ELSE pitches[i]]
      BY <3>1, <3>3
    <3>5. \A i \in Stale(w) : f[i].message \in 0..Len(phone')
      BY <1>0, <3>0, <3>2, <3>3 DEF PitchesOK
    <3> HIDE DEF f
    <3>6. \A i \in Stale(w) : /\ f[i] \in Row
                              /\ f[i].ticker = pitches[i].ticker /\ f[i].at = pitches[i].at
                              /\ f[i].seen = pitches[i].seen
                              /\ f[i].message \in 0..Len(phone')
      BY <3>3, <3>5
    <3>7. Len(phone) <= Len(phone') /\ Len(phone') \in Nat /\ day' >= day /\ day' \in Nat
      BY <1>0, <2>0, <3>0
    <3> QED BY <1>0, <3>2, <3>4, <3>6, <3>7, Relabel DEF Relabelled
  <2>2. CASE Select(c)
    BY <1>0, <1>s, <2>0, <2>2 DEF Select
  <2>3. CASE Create(c)
    <3>1. PICK t \in notify[c].todo :
            pitches' = Append(pitches, [ticker |-> t, at |-> notify[c].now, status |-> "open",
                                        message |-> 0, seen |-> notify[c].seen])
      BY <2>3 DEF Create
    <3>2. phone' = phone BY <2>3 DEF Create
    <3>3. StepInv BY DEF Inv
    <3> QED BY <1>0, <2>0, <2>3, <3>1, <3>2, <3>3, AddRow
  <2>4. CASE Send(c)
    <3>1. phone' = Append(phone, Ask(notify[c].row)) /\ pitches' = pitches BY <2>4 DEF Send
    <3>2. Len(phone') = Len(phone) + 1 BY <1>0, <3>1, AppendProperties DEF PhoneOK, Ask
    <3> QED BY <1>0, <1>s, <2>0, <3>1, <3>2
  <2>5. CASE SendTwice(c)
    <3>1. /\ phone' = phone \o <<Ask(notify[c].row), Ask(notify[c].row)>>
          /\ pitches' = pitches
      BY <2>5 DEF SendTwice
    <3>2. Len(phone') = Len(phone) + 2 BY <1>0, <3>1 DEF PhoneOK, Ask
    <3> QED BY <1>0, <1>s, <2>0, <3>1, <3>2
  <2>6. CASE SendFails(c)
    <3>1. phone' \in {phone, Append(phone, Ask(notify[c].row))} /\ pitches' = pitches
      BY <2>6 DEF SendFails
    <3>2. Len(phone') \in {Len(phone), Len(phone) + 1}
      BY <1>0, <3>1, AppendProperties DEF PhoneOK, Ask
    <3> QED BY <1>0, <1>s, <2>0, <3>1, <3>2
  <2>7. CASE SetMessageId(c)
    <3>1. /\ pitches' = [pitches EXCEPT ![notify[c].row].message = Len(phone)]
          /\ phone' = phone
      BY <2>7 DEF SetMessageId
    <3> QED BY <1>0, <2>0, <3>1, OneMessage DEF Relabelled
  <2>8. CASE NotifyCrash(c)
    BY <1>0, <1>s, <2>0, <2>8 DEF NotifyCrash
  <2> QED BY <1>4, <2>1, <2>2, <2>3, <2>4, <2>5, <2>6, <2>7, <2>8 DEF NotifyStep
<1>5. CASE Fetch
  BY <1>0, <1>s, <1>5 DEF Fetch, notifyVars
<1>6. CASE Decide
  <2>0. phone' = phone /\ day' = day BY <1>6 DEF Decide, notifyVars
  <2> DEFINE press == Head(receiver.todo)
  <2>1. /\ press.pitch \in DOMAIN pitches
        /\ pitches' = [pitches EXCEPT ![press.pitch].status = press.action]
    BY <1>6 DEF Decide, Undecided
  <2>2. press.action \in Decisions
    <3>1. receiver.todo \in Seq(Presses) /\ receiver.todo # <<>>
      BY <1>6 DEF Decide, Inv, TypeOK, ReceiverOK
    <3>2. Head(receiver.todo) \in Presses BY <3>1, HeadTailProperties
    <3> QED BY <3>2 DEF Presses
  <2> HIDE DEF press
  <2> QED BY <1>0, <2>0, <2>1, <2>2, OneStatus DEF Relabelled
<1>7. CASE AlreadyDecided
  BY <1>0, <1>s, <1>7 DEF AlreadyDecided, notifyVars
<1>8. CASE Edit
  <2>1. /\ phone' = [phone EXCEPT ![Message(receiver.edit)].shows = pitches[receiver.edit].status]
        /\ pitches' = pitches /\ day' = day
    BY <1>8 DEF Edit, notifyVars
  <2>2. Len(phone') = Len(phone)
    BY <1>0, <2>1 DEF PhoneOK
  <2> QED BY <1>0, <1>s, <2>1, <2>2
<1>9. CASE EditFails
  BY <1>0, <1>s, <1>9 DEF EditFails, notifyVars
<1>10. CASE ReceiverCrash
  BY <1>0, <1>s, <1>10 DEF ReceiverCrash, notifyVars
<1> QED
  BY <1>1, <1>2, <1>3, <1>4, <1>5, <1>6, <1>7, <1>8, <1>9, <1>10 DEF Next, ReceiverStep

LEMMA SeqSubset ==
  ASSUME NEW S, NEW T, S \subseteq T, NEW s \in Seq(S)
  PROVE  s \in Seq(T)
<1>1. Len(s) \in Nat /\ s \in [1..Len(s) -> S] BY LenProperties
<1>2. s \in [1..Len(s) -> T] BY <1>1
<1> QED BY <1>1, <1>2

\* What the rows being kept means for everything that names them.
LEMMA Monotone ==
  ASSUME PitchesOK, PitchesOK', Kept
  PROVE  DOMAIN pitches \subseteq DOMAIN pitches' /\ Presses \subseteq Presses'
<1>1. DOMAIN pitches = 1..Len(pitches) /\ DOMAIN pitches' = 1..Len(pitches')
      /\ Len(pitches) \in Nat /\ Len(pitches') \in Nat
  BY LenProperties DEF PitchesOK
<1>2. DOMAIN pitches \subseteq DOMAIN pitches' BY <1>1 DEF Kept
<1> QED BY <1>2 DEF Presses

Messages == [pitch : DOMAIN pitches, shows : Statuses \cup {"asks"}]

LEMMA PhoneStep ==
  ASSUME Inv, Next, DOMAIN pitches \subseteq DOMAIN pitches'
  PROVE  PhoneOK'
<1>0. PhoneOK /\ phone \in Seq(Messages) /\ Messages \subseteq Messages'
  BY DEF Inv, TypeOK, PhoneOK, Messages
<1>s. ASSUME phone' \in Seq(Messages) PROVE PhoneOK'
  <2>1. phone' \in Seq(Messages') BY <1>0, <1>s, SeqSubset
  <2> QED BY <2>1 DEF PhoneOK, Messages
<1>1. ASSUME NEW c \in Chains, notify[c].pc = "send" PROVE Ask(notify[c].row) \in Messages
  BY <1>1 DEF Inv, StepInv, Ask, Messages
<1>2. ASSUME NEW c \in Chains, NotifyStep(c) PROVE PhoneOK'
  <2>1. CASE Send(c)
    <3>1. phone' = Append(phone, Ask(notify[c].row)) /\ Ask(notify[c].row) \in Messages
      BY <1>1, <2>1 DEF Send
    <3> QED BY <1>0, <1>s, <3>1, AppendProperties
  <2>2. CASE SendTwice(c)
    <3> DEFINE two == <<Ask(notify[c].row), Ask(notify[c].row)>>
    <3>1. phone' = phone \o two /\ Ask(notify[c].row) \in Messages
      BY <1>1, <2>2 DEF SendTwice
    <3>2. two \in Seq(Messages) BY <3>1
    <3> QED BY <1>0, <1>s, <3>1, <3>2, ConcatProperties
  <2>3. CASE SendFails(c)
    <3>1. /\ phone' \in {phone, Append(phone, Ask(notify[c].row))}
          /\ Ask(notify[c].row) \in Messages
      BY <1>1, <2>3 DEF SendFails
    <3> QED BY <1>0, <1>s, <3>1, AppendProperties
  <2>4. CASE NotifyStart(c) BY <1>0, <1>s, <2>4 DEF NotifyStart
  <2>5. CASE Select(c) BY <1>0, <1>s, <2>5 DEF Select
  <2>6. CASE Create(c) BY <1>0, <1>s, <2>6 DEF Create
  <2>7. CASE SetMessageId(c) BY <1>0, <1>s, <2>7 DEF SetMessageId
  <2>8. CASE NotifyCrash(c) BY <1>0, <1>s, <2>8 DEF NotifyCrash
  <2> QED BY <1>2, <2>1, <2>2, <2>3, <2>4, <2>5, <2>6, <2>7, <2>8 DEF NotifyStep
<1>3. CASE Edit
  <2> DEFINE m == Message(receiver.edit)
             status == pitches[receiver.edit].status
  <2>1. phone' = [phone EXCEPT ![m].shows = status] BY <1>3 DEF Edit
  <2>2. receiver.edit \in DOMAIN pitches BY <1>3 DEF Edit, Inv, TypeOK, ReceiverOK
  <2>3. status \in Statuses BY <2>2, RowsDomain DEF Inv, TypeOK, Row
  <2>4. phone \in [1..Len(phone) -> Messages] /\ Len(phone) \in Nat BY <1>0, LenProperties
  <2> HIDE DEF m, status
  <2>5. \A i \in 1..Len(phone) : phone'[i] \in Messages
    BY <2>1, <2>3, <2>4 DEF Messages
  <2>6. phone' \in [1..Len(phone) -> Messages] BY <2>1, <2>4, <2>5
  <2> QED BY <1>s, <2>4, <2>6
<1>4. CASE NextDay BY <1>0, <1>s, <1>4 DEF NextDay
<1>5. CASE Press BY <1>0, <1>s, <1>5 DEF Press
<1>6. CASE Cockpit BY <1>0, <1>s, <1>6 DEF Cockpit
<1>7. CASE Fetch BY <1>0, <1>s, <1>7 DEF Fetch
<1>8. CASE Decide BY <1>0, <1>s, <1>8 DEF Decide
<1>9. CASE AlreadyDecided BY <1>0, <1>s, <1>9 DEF AlreadyDecided
<1>10. CASE EditFails BY <1>0, <1>s, <1>10 DEF EditFails
<1>11. CASE ReceiverCrash BY <1>0, <1>s, <1>11 DEF ReceiverCrash
<1> QED
  BY <1>2, <1>3, <1>4, <1>5, <1>6, <1>7, <1>8, <1>9, <1>10, <1>11 DEF Next, ReceiverStep

\* The presses in the queue, and the receiver's round: what it fetched are presses,
\* and its offset is at most one past the end.
LEMMA QueueStep ==
  ASSUME Inv, Next, DOMAIN pitches \subseteq DOMAIN pitches', Presses \subseteq Presses'
  PROVE  QueueOK' /\ ReceiverOK'
<1>0. /\ updates \in Seq(Presses) /\ Len(updates) \in Nat /\ confirmed \in 0..Len(updates)
      /\ receiver \in [offset : 0..Len(updates) + 1, next : 0..Len(updates) + 1,
                       todo : Seq(Presses), edit : {0} \cup DOMAIN pitches]
  BY LenProperties DEF Inv, TypeOK, QueueOK, ReceiverOK
<1>q. ASSUME updates' = updates, confirmed' \in 0..Len(updates) PROVE QueueOK'
  BY <1>0, <1>q, SeqSubset DEF QueueOK
<1>r. ASSUME updates' = updates,
             receiver' \in [offset : 0..Len(updates) + 1, next : 0..Len(updates) + 1,
                            todo : Seq(Presses), edit : {0} \cup DOMAIN pitches]
      PROVE  ReceiverOK'
  <2>1. receiver'.todo \in Seq(Presses') BY <1>r, SeqSubset
  <2> QED BY <1>r, <2>1 DEF ReceiverOK
<1>s. ASSUME UNCHANGED telegramVars PROVE QueueOK' /\ ReceiverOK'
  BY <1>0, <1>q, <1>r, <1>s DEF telegramVars
<1>1. CASE NextDay BY <1>s, <1>1 DEF NextDay
<1>2. CASE Cockpit BY <1>s, <1>2 DEF Cockpit
<1>3. ASSUME NEW c \in Chains, NotifyStep(c) PROVE QueueOK' /\ ReceiverOK'
  BY <1>s, <1>3 DEF NotifyStep, NotifyStart, Select, Create, Send, SendTwice, SendFails,
                    SetMessageId, NotifyCrash
<1>4. CASE Press
  <2>1. PICK m \in DOMAIN phone, d \in Decisions :
          updates' = Append(updates, [pitch |-> phone[m].pitch, action |-> d])
    BY <1>4 DEF Press
  <2>0. phone \in Seq(Messages) BY DEF Inv, TypeOK, PhoneOK, Messages
  <2>2. phone[m] \in Messages
    <3>1. m \in 1..Len(phone) BY <2>0, <2>1, LenProperties
    <3> QED BY <2>0, <3>1, ElementOfSeq
  <2>3. [pitch |-> phone[m].pitch, action |-> d] \in Presses
    BY <2>2 DEF Messages, Presses
  <2>4. updates' \in Seq(Presses) /\ Len(updates') = Len(updates) + 1
    BY <1>0, <2>1, <2>3, AppendProperties
  <2>5. updates' \in Seq(Presses') BY <2>4, SeqSubset
  <2>6. confirmed' = confirmed /\ receiver' = receiver BY <1>4 DEF Press
  <2>7. receiver.todo \in Seq(Presses') BY <1>0, SeqSubset
  <2> QED BY <1>0, <2>4, <2>5, <2>6, <2>7 DEF QueueOK, ReceiverOK
<1>5. CASE Fetch
  <2>1. First \in 1..Len(updates) + 1 BY <1>0 DEF First
  <2>2. /\ updates' = updates /\ confirmed' = First - 1 /\ Len(updates) >= First
        /\ receiver' = [receiver EXCEPT !.todo = SubSeq(updates, First, Len(updates)),
                                        !.next = Len(updates) + 1]
    BY <1>5 DEF Fetch, Waiting, Confirms, NextOffset
  <2>3. \A i \in First..Len(updates) : updates[i] \in Presses
    BY <1>0, <2>1, ElementOfSeq
  <2>4. SubSeq(updates, First, Len(updates)) \in Seq(Presses)
    BY <1>0, <2>1, <2>3, SubSeqProperties
  <2>5. QueueOK' BY <1>0, <1>q, <2>1, <2>2
  <2> DEFINE batch == SubSeq(updates, First, Len(updates))
  <2> HIDE DEF batch
  <2>6. batch \in Seq(Presses) BY <2>4 DEF batch
  <2>7. receiver' = [receiver EXCEPT !.todo = batch, !.next = Len(updates) + 1]
    BY <2>2 DEF batch
  <2>8. receiver' \in [offset : 0..Len(updates) + 1, next : 0..Len(updates) + 1,
                       todo : Seq(Presses), edit : {0} \cup DOMAIN pitches]
    <3>1. receiver' = [offset |-> receiver.offset, next |-> Len(updates) + 1, todo |-> batch,
                       edit |-> receiver.edit]
      BY <1>0, <2>7
    <3>2. /\ receiver.offset \in 0..Len(updates) + 1 /\ Len(updates) + 1 \in 0..Len(updates) + 1
          /\ receiver.edit \in {0} \cup DOMAIN pitches
      BY <1>0
    <3> QED BY <2>6, <3>1, <3>2
  <2>9. ReceiverOK' BY <1>r, <2>2, <2>8
  <2> QED BY <2>5, <2>9
<1>6. ASSUME NEW e \in {0} \cup DOMAIN pitches, RoundAfter(e), receiver.todo # <<>>,
             updates' = updates, confirmed' = confirmed
      PROVE  QueueOK' /\ ReceiverOK'
  <2>1. Tail(receiver.todo) \in Seq(Presses) BY <1>0, <1>6, HeadTailProperties
  <2>2. receiver' \in [offset : 0..Len(updates) + 1, next : 0..Len(updates) + 1,
                       todo : Seq(Presses), edit : {0} \cup DOMAIN pitches]
    <3> DEFINE rest == Tail(receiver.todo)
               o == IF Len(receiver.todo) = 1 THEN receiver.next ELSE receiver.offset
               n == IF Len(receiver.todo) = 1 THEN 0 ELSE receiver.next
    <3>1. receiver' = [receiver EXCEPT !.todo = rest, !.edit = e, !.offset = o, !.next = n]
      BY <1>0, <1>6 DEF RoundAfter
    <3>2. rest \in Seq(Presses) BY <2>1
    <3>3. o \in 0..Len(updates) + 1 /\ n \in 0..Len(updates) + 1 BY <1>0
    <3> HIDE DEF rest, o, n
    <3> QED BY <1>0, <1>6, <3>1, <3>2, <3>3
  <2> QED BY <1>0, <1>q, <1>r, <1>6, <2>2
<1>h. ASSUME receiver.todo # <<>> PROVE Head(receiver.todo).pitch \in DOMAIN pitches
  <2>1. Head(receiver.todo) \in Presses BY <1>0, <1>h, HeadTailProperties
  <2> QED BY <2>1 DEF Presses
<1>7. CASE Decide
  <2>1. PICK e \in {0, Head(receiver.todo).pitch} : RoundAfter(e)
    BY <1>7 DEF Decide
  <2> QED BY <1>6, <1>7, <1>h, <2>1 DEF Decide
<1>8. CASE AlreadyDecided
  <2>1. PICK e \in {0, Head(receiver.todo).pitch} : RoundAfter(e)
    BY <1>8 DEF AlreadyDecided
  <2> QED BY <1>6, <1>8, <1>h, <2>1 DEF AlreadyDecided
<1>9. CASE Edit
  BY <1>0, <1>q, <1>r, <1>9 DEF Edit
<1>10. CASE EditFails
  BY <1>0, <1>q, <1>r, <1>10 DEF EditFails
<1>11. CASE ReceiverCrash
  <2>1. NoRound \in [offset : 0..Len(updates) + 1, next : 0..Len(updates) + 1,
                     todo : Seq(Presses), edit : {0} \cup DOMAIN pitches]
    BY <1>0 DEF NoRound
  <2> QED BY <1>0, <1>q, <1>r, <1>11, <2>1 DEF ReceiverCrash
<1> QED
  BY <1>1, <1>2, <1>3, <1>4, <1>5, <1>7, <1>8, <1>9, <1>10, <1>11 DEF Next, ReceiverStep

\* A notify step only grows with the table.
LEMMA NotifyTypeStep ==
  ASSUME Inv, Next, PitchesOK', Kept
  PROVE  NotifyOK'
<1> DEFINE Steps(n) == [pc : {"idle", "select", "create", "send", "mark"},
                        now : 0..MaxDay, watch : SUBSET Ticker, todo : SUBSET Ticker,
                        seen : 0..n, row : 0..n]
<1>0. /\ notify \in [Chains -> Steps(Len(pitches))] /\ Len(pitches) \in Nat
      /\ Len(pitches') \in Nat /\ Len(pitches) <= Len(pitches')
      /\ day \in 0..MaxDay
  BY LenProperties DEF Inv, TypeOK, NotifyOK, PitchesOK, Kept
<1>1. Steps(Len(pitches)) \subseteq Steps(Len(pitches')) BY <1>0
<1>2. Idle \in Steps(Len(pitches'))
  BY <1>0, InboxAssumption DEF Idle, InboxAssumption
<1>g. \A c \in Chains : notify[c] \in Steps(Len(pitches')) BY <1>0, <1>1
<1>s. ASSUME notify' = notify PROVE NotifyOK'
  BY <1>0, <1>1, <1>s DEF NotifyOK
<1>u. ASSUME NEW c \in Chains, NEW step \in Steps(Len(pitches')),
             notify' = [notify EXCEPT ![c] = step]
      PROVE  NotifyOK'
  <2>1. notify' \in [Chains -> Steps(Len(pitches'))]
    BY <1>0, <1>g, <1>u
  <2> QED BY <2>1 DEF NotifyOK
<1>c. ASSUME NEW c \in Chains, Continue(c) PROVE NotifyOK'
  <2>1. CASE notify[c].todo = {}
    BY <1>2, <1>c, <1>u, <2>1 DEF Continue
  <2>2. CASE notify[c].todo # {}
    <3>1. notify' = [notify EXCEPT ![c] = [notify[c] EXCEPT !.pc = "create", !.row = 0]]
      BY <1>0, <1>c, <2>2 DEF Continue
    <3>2. [notify[c] EXCEPT !.pc = "create", !.row = 0] \in Steps(Len(pitches'))
      <4>1. notify[c] \in Steps(Len(pitches')) /\ 0 \in 0..Len(pitches') BY <1>0, <1>g
      <4> QED BY <4>1
    <3> QED BY <1>u, <3>1, <3>2
  <2> QED BY <2>1, <2>2
<1>3. ASSUME NEW c \in Chains, NotifyStep(c) PROVE NotifyOK'
  <2>1. CASE NotifyStart(c)
    <3>1. PICK w \in SUBSET Ticker :
            notify' = [notify EXCEPT ![c] =
                         [Idle EXCEPT !.pc = "select", !.now = day, !.watch = w]]
      BY <2>1 DEF NotifyStart
    <3>2. [Idle EXCEPT !.pc = "select", !.now = day, !.watch = w] \in Steps(Len(pitches'))
      BY <1>0, <1>2 DEF Idle
    <3> QED BY <1>u, <3>1, <3>2
  <2>2. CASE Select(c)
    <3>1. PICK picks \in SUBSET {t \in notify[c].watch : ~InsideCooldown(t, notify[c].now)} :
            notify' = [notify EXCEPT ![c] = IF picks = {} THEN Idle
                         ELSE [Idle EXCEPT !.pc = "create", !.now = notify[c].now,
                                           !.todo = picks, !.seen = Len(pitches)]]
      BY <2>2 DEF Select
    <3>2. picks \in SUBSET Ticker /\ notify[c].now \in 0..MaxDay BY <1>g
    <3>3. [Idle EXCEPT !.pc = "create", !.now = notify[c].now, !.todo = picks,
                       !.seen = Len(pitches)] \in Steps(Len(pitches'))
      <4>1. Idle \in Steps(Len(pitches')) /\ Len(pitches) \in 0..Len(pitches')
        BY <1>0, <1>2
      <4> QED BY <3>2, <4>1
    <3> QED BY <1>2, <1>u, <3>1, <3>3
  <2>3. CASE Create(c)
    <3>1. PICK t \in notify[c].todo :
            /\ notify' = [notify EXCEPT ![c] =
                 IF c = "daily" THEN [@ EXCEPT !.todo = notify[c].todo \ {t},
                                               !.row = Len(pitches) + 1, !.pc = "send"]
                 ELSE IF notify[c].todo \ {t} = {} THEN Idle
                 ELSE [@ EXCEPT !.todo = notify[c].todo \ {t}]]
            /\ pitches' = Append(pitches, [ticker |-> t, at |-> notify[c].now, status |-> "open",
                                           message |-> 0, seen |-> notify[c].seen])
      BY <2>3 DEF Create
    <3>2. Len(pitches') = Len(pitches) + 1
      BY <3>1 DEF Inv, TypeOK, PitchesOK
    <3> DEFINE first == [notify[c] EXCEPT !.todo = notify[c].todo \ {t},
                                          !.row = Len(pitches) + 1, !.pc = "send"]
               second == [notify[c] EXCEPT !.todo = notify[c].todo \ {t}]
    <3>3. first \in Steps(Len(pitches')) /\ second \in Steps(Len(pitches'))
      <4>1. /\ notify[c] \in Steps(Len(pitches')) /\ Len(pitches) + 1 \in 0..Len(pitches')
            /\ notify[c].todo \ {t} \in SUBSET Ticker
        BY <1>0, <1>g, <3>2
      <4> QED BY <4>1
    <3>4. \E step \in {first, second, Idle} : notify' = [notify EXCEPT ![c] = step]
      BY <1>0, <3>1
    <3> HIDE DEF first, second, Steps
    <3> QED BY <1>2, <1>u, <3>3, <3>4
  <2>4. CASE Send(c) \/ SendTwice(c)
    <3>1. notify' = [notify EXCEPT ![c] = [notify[c] EXCEPT !.pc = "mark"]]
      BY <1>0, <2>4 DEF Send, SendTwice
    <3>2. [notify[c] EXCEPT !.pc = "mark"] \in Steps(Len(pitches')) BY <1>g
    <3> QED BY <1>u, <3>1, <3>2
  <2>5. CASE SendFails(c) \/ SetMessageId(c)
    BY <1>c, <2>5 DEF SendFails, SetMessageId
  <2>6. CASE NotifyCrash(c)
    BY <1>2, <1>u, <2>6 DEF NotifyCrash
  <2> QED BY <1>3, <2>1, <2>2, <2>3, <2>4, <2>5, <2>6 DEF NotifyStep
<1>4. CASE NextDay BY <1>s, <1>4 DEF NextDay
<1>5. CASE Press \/ Cockpit BY <1>s, <1>5 DEF Press, Cockpit, notifyVars
<1>6. CASE ReceiverStep \/ EditFails \/ ReceiverCrash
  BY <1>s, <1>6 DEF ReceiverStep, Fetch, Decide, AlreadyDecided, Edit, EditFails, ReceiverCrash,
                    notifyVars
<1> QED BY <1>3, <1>4, <1>5, <1>6 DEF Next

\* Only NextDay moves the clock, and only faults are counted.
LEMMA ClockStep ==
  ASSUME Next
  PROVE  NextDay \/ UNCHANGED day
<1>1. ASSUME NEW c \in Chains, NotifyStep(c) PROVE UNCHANGED day
  BY <1>1 DEF NotifyStep, NotifyStart, Select, Create, Send, SendTwice, SendFails, SetMessageId,
              NotifyCrash
<1>2. CASE Press \/ Cockpit BY <1>2 DEF Press, Cockpit, notifyVars
<1>3. CASE ReceiverStep \/ EditFails \/ ReceiverCrash
  BY <1>3 DEF ReceiverStep, Fetch, Decide, AlreadyDecided, Edit, EditFails, ReceiverCrash,
              notifyVars
<1> QED BY <1>1, <1>2, <1>3 DEF Next

LEMMA CrashStep ==
  ASSUME Next
  PROVE  Fault \/ UNCHANGED crashes
<1>1. ASSUME NEW c \in Chains, NotifyStep(c) PROVE Fault \/ UNCHANGED crashes
  BY <1>1 DEF NotifyStep, NotifyStart, Select, Create, Send, SendTwice, SendFails, SetMessageId,
              NotifyCrash
<1>2. CASE Press \/ Cockpit \/ NextDay BY <1>2 DEF Press, Cockpit, NextDay
<1>3. CASE ReceiverStep \/ EditFails \/ ReceiverCrash
  BY <1>3 DEF ReceiverStep, Fetch, Decide, AlreadyDecided, Edit, EditFails, ReceiverCrash
<1> QED BY <1>1, <1>2, <1>3 DEF Next

\* A step keeps what the notify steps know.
LEMMA StepInvStep ==
  ASSUME Inv, Next, PitchesOK', Kept
  PROVE  StepInv'
<1>0. /\ NotifyOK /\ StepInv /\ Len(pitches) \in Nat /\ DOMAIN pitches = 1..Len(pitches)
      /\ Len(pitches') \in Nat /\ DOMAIN pitches' = 1..Len(pitches')
      /\ Len(pitches) <= Len(pitches') /\ day \in Nat
      /\ \A i \in DOMAIN pitches : pitches[i] \in Row
  BY LenProperties, RowsDomain, InboxAssumption
     DEF Inv, TypeOK, PitchesOK, Kept, InboxAssumption
<1> DEFINE Knows(c, step) ==
             /\ step.now <= day'
             /\ step.pc \in {"send", "mark"} => step.row \in DOMAIN pitches'
             /\ \A i \in DOMAIN pitches' :
                  i <= step.seen /\ pitches'[i].ticker \in step.todo =>
                    pitches'[i].at + Cooldown <= step.now
<1>d. day' >= day /\ day' \in Nat
  <2>1. CASE NextDay BY <1>0, <2>1 DEF NextDay
  <2>2. CASE UNCHANGED day BY <1>0, <2>2
  <2> QED BY <2>1, <2>2, ClockStep
\* A step that kept its clock and what it has seen, and took nothing on.
<1>k. ASSUME NEW c \in Chains, NEW step, step.now = notify[c].now, step.seen = notify[c].seen,
             step.todo \subseteq notify[c].todo,
             step.pc \in {"send", "mark"} => step.row \in DOMAIN pitches'
      PROVE  Knows(c, step)
  <2>1. notify[c].now <= day' /\ notify[c].seen \in 0..Len(pitches)
    <3>1. notify[c].now <= day /\ notify[c].now \in 0..MaxDay BY <1>0 DEF StepInv, NotifyOK
    <3>2. notify[c].seen \in 0..Len(pitches) BY <1>0 DEF NotifyOK
    <3> QED BY <1>0, <1>d, <3>1, <3>2, InboxAssumption DEF InboxAssumption
  <2>2. ASSUME NEW i \in DOMAIN pitches', i <= step.seen, pitches'[i].ticker \in step.todo
        PROVE  pitches'[i].at + Cooldown <= step.now
    <3>1. i \in DOMAIN pitches BY <1>0, <1>k, <2>1, <2>2
    <3>2. pitches'[i].ticker = pitches[i].ticker /\ pitches'[i].at = pitches[i].at
      BY <3>1 DEF Kept
    <3> QED BY <1>0, <1>k, <2>2, <3>1, <3>2 DEF StepInv
  <2> QED BY <1>k, <2>1, <2>2
\* A step that has nothing to pitch.
<1>e. ASSUME NEW c \in Chains, NEW step, step.now <= day', step.todo = {},
             step.pc \notin {"send", "mark"}
      PROVE  Knows(c, step)
  BY <1>e
<1>i. ASSUME NEW c \in Chains PROVE Knows(c, Idle) BY <1>d, <1>e DEF Idle
<1>n. ASSUME NEW c \in Chains PROVE Knows(c, notify[c])
  <2>1. notify[c].pc \in {"send", "mark"} => notify[c].row \in DOMAIN pitches'
    BY <1>0 DEF StepInv
  <2> QED BY <1>k, <2>1
<1>u. ASSUME NEW c \in Chains, NEW step, Knows(c, step), notify' = [notify EXCEPT ![c] = step]
      PROVE  StepInv'
  <2> HIDE DEF Knows
  <2>1. \A d \in Chains : Knows(d, notify'[d])
    BY <1>0, <1>n, <1>u DEF NotifyOK
  <2> QED BY <2>1 DEF StepInv, Knows
<1>s. ASSUME notify' = notify PROVE StepInv'
  <2> HIDE DEF Knows
  <2>1. \A d \in Chains : Knows(d, notify'[d]) BY <1>n, <1>s
  <2> QED BY <2>1 DEF StepInv, Knows
<1>f. notify \in [Chains -> [pc : {"idle", "select", "create", "send", "mark"},
                             now : 0..MaxDay, watch : SUBSET Ticker, todo : SUBSET Ticker,
                             seen : 0..Len(pitches), row : 0..Len(pitches)]]
  BY <1>0 DEF NotifyOK
<1>c. ASSUME NEW c \in Chains, Continue(c) PROVE StepInv'
  <2>1. CASE notify[c].todo = {}
    <3>1. notify' = [notify EXCEPT ![c] = Idle] BY <1>c, <1>f, <2>1 DEF Continue
    <3> HIDE DEF Knows
    <3> QED BY <1>i, <1>u, <3>1
  <2>2. CASE notify[c].todo # {}
    <3> DEFINE step == [notify[c] EXCEPT !.pc = "create", !.row = 0]
    <3>1. notify' = [notify EXCEPT ![c] = step] BY <1>c, <1>f, <2>2 DEF Continue
    <3>2. /\ step.now = notify[c].now /\ step.seen = notify[c].seen
          /\ step.todo = notify[c].todo /\ step.pc = "create"
      BY <1>f
    <3> HIDE DEF Knows, step
    <3>3. Knows(c, step) BY <1>k, <3>2
    <3> QED BY <1>u, <3>1, <3>3
  <2> QED BY <2>1, <2>2
<1>3. ASSUME NEW c \in Chains, NotifyStep(c) PROVE StepInv'
  <2>1. CASE NotifyStart(c)
    <3>1. PICK w \in SUBSET Ticker :
            notify' = [notify EXCEPT ![c] =
                         [Idle EXCEPT !.pc = "select", !.now = day, !.watch = w]]
      BY <2>1 DEF NotifyStart
    <3> DEFINE step == [Idle EXCEPT !.pc = "select", !.now = day, !.watch = w]
    <3>2. step.now = day /\ step.todo = {} /\ step.pc = "select" BY DEF Idle
    <3> HIDE DEF Knows, step
    <3>3. Knows(c, step) BY <1>d, <1>e, <3>2
    <3> QED BY <1>u, <3>1, <3>3 DEF step
  <2>2. CASE Select(c)
    <3>1. PICK picks \in SUBSET {t \in notify[c].watch : ~InsideCooldown(t, notify[c].now)} :
            notify' = [notify EXCEPT ![c] = IF picks = {} THEN Idle
                         ELSE [Idle EXCEPT !.pc = "create", !.now = notify[c].now,
                                           !.todo = picks, !.seen = Len(pitches)]]
      BY <2>2 DEF Select
    <3> DEFINE step == [Idle EXCEPT !.pc = "create", !.now = notify[c].now,
                                    !.todo = picks, !.seen = Len(pitches)]
    <3>2. /\ step.now = notify[c].now /\ step.todo = picks /\ step.seen = Len(pitches)
          /\ step.pc = "create"
      BY DEF Idle
    <3> HIDE DEF step
    <3>3. notify[c].now <= day /\ notify[c].now \in Nat
      BY <1>0, <1>f, InboxAssumption DEF StepInv, InboxAssumption
    <3>4. ASSUME NEW i \in DOMAIN pitches', i <= step.seen, pitches'[i].ticker \in step.todo
          PROVE  pitches'[i].at + Cooldown <= step.now
      <4>1. i \in DOMAIN pitches BY <1>0, <3>2, <3>4
      <4>2. pitches'[i].ticker = pitches[i].ticker /\ pitches'[i].at = pitches[i].at
        BY <4>1 DEF Kept
      <4>3. ~InsideCooldown(pitches[i].ticker, notify[c].now) BY <3>2, <3>4, <4>2
      <4>4. ~(notify[c].now < pitches[i].at + Cooldown) BY <4>1, <4>3 DEF InsideCooldown
      <4>5. pitches[i].at \in Nat BY <1>0, <4>1 DEF Row
      <4> QED BY <3>2, <3>3, <4>2, <4>4, <4>5, InboxAssumption DEF InboxAssumption
    <3>5. Knows(c, step) BY <1>0, <1>d, <3>2, <3>3, <3>4
    <3>6. \E s \in {Idle, step} : notify' = [notify EXCEPT ![c] = s] BY <3>1 DEF step
    <3> HIDE DEF Knows
    <3> QED BY <1>i, <1>u, <3>5, <3>6
  <2>3. CASE Create(c)
    <3>1. PICK t \in notify[c].todo :
            /\ notify' = [notify EXCEPT ![c] =
                 IF c = "daily" THEN [@ EXCEPT !.todo = notify[c].todo \ {t},
                                               !.row = Len(pitches) + 1, !.pc = "send"]
                 ELSE IF notify[c].todo \ {t} = {} THEN Idle
                 ELSE [@ EXCEPT !.todo = notify[c].todo \ {t}]]
            /\ pitches' = Append(pitches, [ticker |-> t, at |-> notify[c].now, status |-> "open",
                                           message |-> 0, seen |-> notify[c].seen])
            /\ notify[c].pc = "create"
      BY <2>3 DEF Create
    <3>2. Len(pitches') = Len(pitches) + 1
      BY <3>1 DEF Inv, TypeOK, PitchesOK
    <3> DEFINE first == [notify[c] EXCEPT !.todo = notify[c].todo \ {t},
                                          !.row = Len(pitches) + 1, !.pc = "send"]
               second == [notify[c] EXCEPT !.todo = notify[c].todo \ {t}]
    <3>3. /\ first.now = notify[c].now /\ first.seen = notify[c].seen
          /\ first.todo \subseteq notify[c].todo /\ first.row = Len(pitches) + 1
          /\ second.now = notify[c].now /\ second.seen = notify[c].seen
          /\ second.todo \subseteq notify[c].todo /\ second.pc = "create"
      BY <1>f, <3>1
    <3>4. \E step \in {first, second, Idle} : notify' = [notify EXCEPT ![c] = step]
      BY <1>f, <3>1
    <3>5. Len(pitches) + 1 \in DOMAIN pitches' BY <1>0, <3>2
    <3> HIDE DEF first, second, Knows
    <3>6. Knows(c, first) /\ Knows(c, second) BY <1>k, <3>3, <3>5
    <3> QED BY <1>i, <1>u, <3>4, <3>6
  <2>4. CASE Send(c) \/ SendTwice(c)
    <3> DEFINE step == [notify[c] EXCEPT !.pc = "mark"]
    <3>1. notify' = [notify EXCEPT ![c] = step] /\ notify[c].pc = "send"
      BY <1>f, <2>4 DEF Send, SendTwice
    <3>2. /\ step.now = notify[c].now /\ step.seen = notify[c].seen
          /\ step.todo = notify[c].todo /\ step.row = notify[c].row
      BY <1>f
    <3>3. notify[c].row \in DOMAIN pitches' BY <1>0, <3>1 DEF StepInv
    <3> HIDE DEF Knows, step
    <3>4. Knows(c, step) BY <1>k, <3>2, <3>3
    <3> QED BY <1>u, <3>1, <3>4
  <2>5. CASE SendFails(c) \/ SetMessageId(c)
    BY <1>c, <2>5 DEF SendFails, SetMessageId
  <2>6. CASE NotifyCrash(c)
    <3>1. notify' = [notify EXCEPT ![c] = Idle] BY <2>6 DEF NotifyCrash
    <3> HIDE DEF Knows
    <3> QED BY <1>i, <1>u, <3>1
  <2> QED BY <1>3, <2>1, <2>2, <2>3, <2>4, <2>5, <2>6 DEF NotifyStep
<1>4. CASE NextDay BY <1>s, <1>4 DEF NextDay
<1>5. CASE Press \/ Cockpit BY <1>s, <1>5 DEF Press, Cockpit, notifyVars
<1>6. CASE ReceiverStep \/ EditFails \/ ReceiverCrash
  BY <1>s, <1>6 DEF ReceiverStep, Fetch, Decide, AlreadyDecided, Edit, EditFails, ReceiverCrash,
                    notifyVars
<1> QED BY <1>3, <1>4, <1>5, <1>6 DEF Next

\* A new row inside the cooldown of an old one was selected before it.
LEMMA RepeatStep ==
  ASSUME Inv, PitchesOK', Kept, Relabelled \/ \E c \in Chains : Create(c)
  PROVE  RepeatNeedsOverlap'
<1>0. /\ Len(pitches) \in Nat /\ DOMAIN pitches = 1..Len(pitches)
      /\ Len(pitches') \in Nat /\ DOMAIN pitches' = 1..Len(pitches')
      /\ \A i \in DOMAIN pitches : pitches[i] \in Row
  BY LenProperties, RowsDomain DEF Inv, TypeOK, PitchesOK
<1> SUFFICES ASSUME NEW i \in DOMAIN pitches', NEW j \in DOMAIN pitches',
                    i < j, pitches'[i].ticker = pitches'[j].ticker,
                    pitches'[j].at < pitches'[i].at + Cooldown
             PROVE  pitches'[j].seen < i
  BY DEF RepeatNeedsOverlap
<1>1. CASE j \in DOMAIN pitches
  <2>1. i \in DOMAIN pitches BY <1>0, <1>1
  <2> QED BY <1>1, <2>1 DEF Kept, Inv, RepeatNeedsOverlap
<1>2. CASE j \notin DOMAIN pitches
  <2>1. PICK c \in Chains : Create(c) BY <1>0, <1>2 DEF Relabelled
  <2>2. PICK t \in notify[c].todo :
          pitches' = Append(pitches, [ticker |-> t, at |-> notify[c].now, status |-> "open",
                                      message |-> 0, seen |-> notify[c].seen])
    BY <2>1 DEF Create
  <2>3. Len(pitches') = Len(pitches) + 1 /\ j = Len(pitches) + 1 /\ i \in DOMAIN pitches
    BY <1>0, <1>2, <2>2 DEF Inv, TypeOK, PitchesOK
  <2>4. /\ pitches'[j].ticker = t /\ pitches'[j].at = notify[c].now
        /\ pitches'[j].seen = notify[c].seen
    BY <2>2, <2>3 DEF Inv, TypeOK, PitchesOK
  <2>5. pitches'[i].ticker = pitches[i].ticker /\ pitches'[i].at = pitches[i].at
    BY <2>3 DEF Kept
  <2>6. pitches[i].at \in Nat /\ notify[c].now \in Nat /\ notify[c].seen \in Nat
    BY <1>0, <2>3, InboxAssumption DEF Row, Inv, TypeOK, NotifyOK, InboxAssumption
  <2>7. i <= notify[c].seen => pitches[i].at + Cooldown <= notify[c].now
    BY <2>2, <2>3, <2>4, <2>5 DEF Inv, StepInv
  <2> QED BY <1>0, <2>4, <2>5, <2>6, <2>7, InboxAssumption DEF InboxAssumption
<1> QED BY <1>1, <1>2

LEMMA InvInit == Init => Inv
<1> SUFFICES ASSUME Init PROVE Inv OBVIOUS
<1>1. pitches = <<>> /\ phone = <<>> /\ updates = <<>> BY DEF Init
<1>2. Len(pitches) = 0 /\ DOMAIN pitches = {} /\ Len(updates) = 0 BY <1>1
<1>3. PitchesOK BY <1>1, <1>2 DEF PitchesOK
<1>4. PhoneOK /\ QueueOK BY <1>1, <1>2 DEF PhoneOK, QueueOK, Init
<1>5. ReceiverOK
  <2>1. <<>> \in Seq(Presses) /\ 0 \in 0..Len(updates) + 1 BY <1>2
  <2> QED BY <2>1 DEF ReceiverOK, Init, NoRound
<1>6. NotifyOK BY <1>2, InboxAssumption DEF NotifyOK, Init, Idle, InboxAssumption
<1>7. StepInv BY <1>2 DEF StepInv, Init, Idle
<1>8. RepeatNeedsOverlap BY <1>2 DEF RepeatNeedsOverlap
<1>9. day \in 0..MaxDay /\ crashes \in 0..MaxCrashes
  BY InboxAssumption DEF Init, InboxAssumption
<1> QED BY <1>3, <1>4, <1>5, <1>6, <1>7, <1>8, <1>9 DEF Inv, TypeOK

LEMMA InvStep == Inv /\ [Next]_vars => Inv'
<1> SUFFICES ASSUME Inv, [Next]_vars PROVE Inv' OBVIOUS
<1>1. CASE Next
  <2>1. PitchesOK' /\ Kept /\ (Relabelled \/ \E c \in Chains : Create(c))
    BY <1>1, PitchesStep
  <2>2. DOMAIN pitches \subseteq DOMAIN pitches' /\ Presses \subseteq Presses'
    BY <2>1, Monotone DEF Inv, TypeOK
  <2>3. PhoneOK' BY <1>1, <2>2, PhoneStep
  <2>4. QueueOK' /\ ReceiverOK' BY <1>1, <2>2, QueueStep
  <2>5. NotifyOK' BY <1>1, <2>1, NotifyTypeStep
  <2>6. StepInv' BY <1>1, <2>1, StepInvStep
  <2>7. RepeatNeedsOverlap' BY <2>1, RepeatStep
  <2>8. day' \in 0..MaxDay
    <3>1. CASE NextDay BY <3>1, InboxAssumption DEF NextDay, Inv, TypeOK, InboxAssumption
    <3>2. CASE UNCHANGED day BY <3>2 DEF Inv, TypeOK
    <3> QED BY <1>1, <3>1, <3>2, ClockStep
  <2>9. crashes' \in 0..MaxCrashes
    <3>1. CASE Fault BY <3>1, InboxAssumption DEF Fault, Inv, TypeOK, InboxAssumption
    <3>2. CASE UNCHANGED crashes BY <3>2 DEF Inv, TypeOK
    <3> QED BY <1>1, <3>1, <3>2, CrashStep
  <2> QED BY <2>1, <2>3, <2>4, <2>5, <2>6, <2>7, <2>8, <2>9 DEF Inv, TypeOK
<1>2. CASE UNCHANGED vars
  <2>1. /\ day' = day /\ pitches' = pitches /\ notify' = notify /\ phone' = phone
        /\ updates' = updates /\ confirmed' = confirmed /\ receiver' = receiver
        /\ crashes' = crashes
    BY <1>2 DEF vars
  <2>2. TypeOK'
    BY <2>1 DEF Inv, TypeOK, PitchesOK, PhoneOK, QueueOK, ReceiverOK, NotifyOK, Presses
  <2>3. StepInv' /\ RepeatNeedsOverlap' BY <2>1 DEF Inv, StepInv, RepeatNeedsOverlap
  <2> QED BY <2>2, <2>3 DEF Inv
<1> QED BY <1>1, <1>2

LEMMA InvAlways == Spec => []Inv
<1> QED BY InvInit, InvStep, PTL DEF Spec

(* Rows, chat, queue, offset and the notify steps are well formed, through *)
(* lost answers, redeliveries and crashes of every process.                *)
THEOREM TypeCorrect == Spec => []TypeOK
<1>1. Inv => TypeOK BY DEF Inv
<1> QED BY <1>1, InvAlways, PTL

(* notify.py:111: a ticker is pitched again inside its cooldown only by a  *)
(* step that made its selection before the first of the two was written.   *)
THEOREM CooldownHolds == Spec => []RepeatNeedsOverlap
<1>1. Inv => RepeatNeedsOverlap BY DEF Inv
<1> QED BY <1>1, InvAlways, PTL

-----------------------------------------------------------------------------
(* The contract of a pitch: inbox_storage.py implements PitchContract.     *)

Offers == [i \in DOMAIN pitches |-> [ticker |-> pitches[i].ticker, status |-> pitches[i].status]]

LEMMA StutterKeepsOffers ==
  ASSUME DOMAIN pitches' = DOMAIN pitches,
         \A i \in DOMAIN pitches : /\ pitches'[i].ticker = pitches[i].ticker
                                   /\ pitches'[i].status = pitches[i].status
  PROVE  Offers' = Offers
BY DEF Offers

\* One status changed at an open row is a decision.
LEMMA DecideIsDecide ==
  ASSUME PitchesOK, NEW i, Undecided(i), NEW d \in Decisions,
         pitches' = [pitches EXCEPT ![i].status = d]
  PROVE  Contract!Decide(i, d)
<1>1. i \in DOMAIN pitches /\ pitches[i].status = "open" BY DEF Undecided
<1>2. \A j \in DOMAIN pitches : pitches[j] \in Row BY RowsDomain
<1>3. i \in DOMAIN Offers /\ Offers[i].status = "open" BY <1>1 DEF Offers
<1>4. DOMAIN pitches' = DOMAIN pitches OBVIOUS
<1>5. \A j \in DOMAIN pitches : /\ pitches'[j].ticker = pitches[j].ticker
                                /\ pitches'[j].status = IF j = i THEN d ELSE pitches[j].status
  BY <1>2 DEF Row
<1>6. Offers' = [Offers EXCEPT ![i].status = d]
  <2>1. Offers' = [j \in DOMAIN pitches |->
                     [ticker |-> pitches[j].ticker,
                      status |-> IF j = i THEN d ELSE pitches[j].status]]
    BY <1>4, <1>5 DEF Offers
  <2>2. \A j \in DOMAIN pitches :
          [Offers EXCEPT ![i].status = d][j] =
            [ticker |-> pitches[j].ticker, status |-> IF j = i THEN d ELSE pitches[j].status]
    BY <1>1 DEF Offers
  <2> QED BY <2>1, <2>2 DEF Offers
<1> QED BY <1>3, <1>6 DEF Contract!Decide, Contract!OpenOffers, Offers

\* The sweep of a notify step withdraws open rows.
LEMMA SweepIsWithdraw ==
  ASSUME PitchesOK, NEW w,
         pitches' = [i \in DOMAIN pitches |->
                       IF i \in Stale(w) THEN [pitches[i] EXCEPT !.status = "expired"]
                                         ELSE pitches[i]]
  PROVE  \E S : Contract!Withdraw(S)
<1>1. \A j \in DOMAIN pitches : pitches[j] \in Row BY RowsDomain
<1>2. \A j \in Stale(w) : j \in DOMAIN pitches /\ pitches[j].status = "open" BY DEF Stale
<1> HIDE DEF Stale
<1>3. \A j \in DOMAIN pitches :
        /\ pitches'[j].ticker = pitches[j].ticker
        /\ pitches'[j].status = IF j \in Stale(w) THEN "expired" ELSE pitches[j].status
  BY <1>1 DEF Row
<1>4. DOMAIN pitches' = DOMAIN pitches OBVIOUS
<1>5. Offers' = [j \in DOMAIN Offers |-> IF j \in Stale(w)
                   THEN [Offers[j] EXCEPT !.status = "expired"] ELSE Offers[j]]
  BY <1>3, <1>4 DEF Offers
<1>6. Stale(w) \subseteq {j \in DOMAIN Offers : Offers[j].status = "open"} BY <1>2 DEF Offers
<1>7. \E S : /\ S \subseteq {j \in DOMAIN Offers : Offers[j].status = "open"}
              /\ Offers' = [j \in DOMAIN Offers |-> IF j \in S
                            THEN [Offers[j] EXCEPT !.status = "expired"] ELSE Offers[j]]
  BY <1>5, <1>6
<1> QED BY <1>7 DEF Contract!Withdraw, Contract!OpenOffers, Offers

\* A new row is an offer.
LEMMA CreateIsOffer ==
  ASSUME PitchesOK, NotifyOK, NEW c \in Chains, Create(c)
  PROVE  \E t \in Ticker : Contract!Offer(t)
<1>0. /\ Len(pitches) \in Nat /\ DOMAIN pitches = 1..Len(pitches)
      /\ \A i \in DOMAIN pitches : pitches[i] \in Row
  BY RowsDomain
<1>1. PICK t \in notify[c].todo :
        pitches' = Append(pitches, [ticker |-> t, at |-> notify[c].now, status |-> "open",
                                    message |-> 0, seen |-> notify[c].seen])
  BY DEF Create
<1>2. t \in Ticker BY <1>1 DEF NotifyOK
<1> DEFINE new == [ticker |-> t, status |-> "open"]
           n == Len(pitches) + 1
<1>3. /\ DOMAIN pitches' = 1..n
      /\ \A i \in 1..Len(pitches) : pitches'[i] = pitches[i]
      /\ pitches'[n].ticker = t /\ pitches'[n].status = "open"
  BY <1>0, <1>1 DEF PitchesOK
<1>4. Offers \in Seq([ticker : Ticker, status : Statuses]) /\ Len(Offers) = Len(pitches)
  <2> DEFINE rows == [ticker : Ticker, status : Statuses]
             k == Len(pitches)
  <2>1. Offers \in [1..k -> rows] BY <1>0 DEF Offers, Row
  <2>2. k \in Nat BY <1>0
  <2> HIDE DEF rows, k
  <2>3. Offers \in Seq(rows) BY <2>1, <2>2
  <2>4. DOMAIN Offers = 1..k BY <2>1
  <2>5. Len(Offers) \in Nat /\ DOMAIN Offers = 1..Len(Offers) BY <2>3, LenProperties
  <2>6. Len(Offers) = k BY <2>2, <2>4, <2>5
  <2> QED BY <2>3, <2>6 DEF rows, k
<1>5. Offers' = [i \in 1..n |-> IF i = n THEN new ELSE Offers[i]]
  BY <1>0, <1>3 DEF Offers
<1>6. Append(Offers, new) = [i \in 1..n |-> IF i = n THEN new ELSE Offers[i]]
  BY <1>0, <1>4
<1> QED BY <1>2, <1>5, <1>6 DEF Contract!Offer, Offers

\* A withdrawal names pitches that exist, so it is a step of the contract.
LEMMA WithdrawIsNext ==
  ASSUME NEW S, Contract!Withdraw(S)
  PROVE  Contract!Next
<1>1. S \in SUBSET DOMAIN Offers
  BY DEF Contract!Withdraw, Contract!OpenOffers, Offers
<1> QED BY <1>1 DEF Contract!Next, Offers

LEMMA ContractStep ==
  ASSUME Inv, [Next]_vars
  PROVE  [Contract!Next]_Offers
<1>0. PitchesOK /\ NotifyOK /\ \A i \in DOMAIN pitches : pitches[i] \in Row
  BY RowsDomain DEF Inv, TypeOK
<1>s. ASSUME pitches' = pitches PROVE Offers' = Offers BY <1>s DEF Offers
<1>1. ASSUME NEW c \in Chains, NotifyStep(c) PROVE [Contract!Next]_Offers
  <2>1. CASE NotifyStart(c)
    <3>1. PICK w \in SUBSET Ticker :
            pitches' = [i \in DOMAIN pitches |->
                          IF i \in Stale(w) THEN [pitches[i] EXCEPT !.status = "expired"]
                                            ELSE pitches[i]]
      BY <2>1 DEF NotifyStart
    <3>2. \E S : Contract!Withdraw(S) BY <1>0, <3>1, SweepIsWithdraw
    <3>3. PICK S : Contract!Withdraw(S) BY <3>2
    <3> QED BY <3>3, WithdrawIsNext
  <2>2. CASE Create(c)
    <3>1. \E t \in Ticker : Contract!Offer(t) BY <1>0, <2>2, CreateIsOffer
    <3> QED BY <3>1 DEF Contract!Next
  <2>3. CASE SetMessageId(c)
    <3>1. pitches' = [pitches EXCEPT ![notify[c].row].message = Len(phone)]
      BY <2>3 DEF SetMessageId
    <3>2. \A i \in DOMAIN pitches : /\ pitches'[i].ticker = pitches[i].ticker
                                    /\ pitches'[i].status = pitches[i].status
      BY <1>0, <3>1 DEF Row
    <3>3. DOMAIN pitches' = DOMAIN pitches BY <3>1
    <3> QED BY <3>2, <3>3, StutterKeepsOffers
  <2>4. CASE Select(c) \/ Send(c) \/ SendTwice(c) \/ SendFails(c) \/ NotifyCrash(c)
    BY <1>s, <2>4 DEF Select, Send, SendTwice, SendFails, NotifyCrash
  <2> QED BY <1>1, <2>1, <2>2, <2>3, <2>4 DEF NotifyStep
<1>2. CASE Cockpit
  <2>1. PICK i \in DOMAIN pitches, d \in Decisions :
          Undecided(i) /\ pitches' = [pitches EXCEPT ![i].status = d]
    BY <1>2 DEF Cockpit
  <2>2. Contract!Decide(i, d) BY <1>0, <2>1, DecideIsDecide
  <2> QED BY <2>1, <2>2 DEF Contract!Next, Offers
<1>3. CASE Decide
  <2>1. /\ Undecided(Head(receiver.todo).pitch)
        /\ pitches' = [pitches EXCEPT ![Head(receiver.todo).pitch].status =
                                         Head(receiver.todo).action]
    BY <1>3 DEF Decide
  <2>2. Head(receiver.todo).action \in Decisions
    <3>1. receiver.todo \in Seq(Presses) /\ receiver.todo # <<>>
      BY <1>3 DEF Decide, Inv, TypeOK, ReceiverOK
    <3>2. Head(receiver.todo) \in Presses BY <3>1, HeadTailProperties
    <3> QED BY <3>2 DEF Presses
  <2>3. Head(receiver.todo).pitch \in DOMAIN pitches BY <2>1 DEF Undecided
  <2>4. PICK i \in DOMAIN pitches, d \in Decisions :
          Undecided(i) /\ pitches' = [pitches EXCEPT ![i].status = d]
    BY <2>1, <2>2, <2>3, Zenon
  <2>5. Contract!Decide(i, d) BY <1>0, <2>4, DecideIsDecide
  <2> QED BY <2>4, <2>5 DEF Contract!Next, Offers
<1>4. CASE NextDay \/ Press \/ Fetch \/ AlreadyDecided \/ Edit \/ EditFails \/ ReceiverCrash
  BY <1>s, <1>4 DEF NextDay, Press, Fetch, AlreadyDecided, Edit, EditFails, ReceiverCrash
<1>5. CASE UNCHANGED vars BY <1>s, <1>5 DEF vars
<1> QED BY <1>1, <1>2, <1>3, <1>4, <1>5 DEF Next, ReceiverStep

(* inbox_storage.py:4: two surfaces, two chains and a redelivered press    *)
(* all meet at the WHERE clause; a pitch leaves "open" once.               *)
THEOREM ContractKept == Spec => SingleTransition
<1>1. Init => Contract!Init
  <2>1. Init => Offers = <<>> BY DEF Init, Offers
  <2> QED BY <2>1 DEF Contract!Init, Offers
<1>2. Inv /\ [Next]_vars => [Contract!Next]_Offers BY ContractStep
<1> QED BY <1>1, <1>2, InvAlways, PTL DEF Spec, SingleTransition, Contract!Spec, Offers

-----------------------------------------------------------------------------
(* The outcome a message shows.                                            *)

\* The chat speaks of outcomes only, a row knows a message of its own, the row
\* that is being edited knows one and is decided, and only the daily chain
\* sends: the last message of the chat is the one it is about to note.
Decided == \A m \in DOMAIN phone : phone[m].shows # "open"
Links == \A i \in DOMAIN pitches :
           pitches[i].message # 0 => phone[pitches[i].message].pitch = i
Editing == receiver.edit # 0 => /\ pitches[receiver.edit].message # 0
                                /\ pitches[receiver.edit].status # "open"
Marking ==
  \A c \in Chains :
    /\ notify[c].pc \in {"send", "mark"} => c = "daily"
    /\ notify[c].pc = "mark" => /\ Len(phone) > 0
                                /\ phone[Len(phone)].pitch = notify[c].row

OutcomeInv == OutcomeShown /\ Decided /\ Links /\ Editing /\ Marking

\* A decided row keeps its status; a row keeps its message, a new one has none.
Firm ==
  /\ DOMAIN pitches \subseteq DOMAIN pitches'
  /\ \A i \in DOMAIN pitches : /\ pitches[i].status # "open" =>
                                    pitches'[i].status = pitches[i].status
                               /\ pitches'[i].message = pitches[i].message
  /\ \A i \in DOMAIN pitches' \ DOMAIN pitches : pitches'[i].message = 0

\* What TypeOK says of the chat and of what names its messages.
LEMMA Named ==
  ASSUME Inv
  PROVE  /\ Len(phone) \in Nat /\ DOMAIN phone = 1..Len(phone)
         /\ \A m \in DOMAIN phone : /\ phone[m] \in Messages
                                    /\ phone[m].pitch \in DOMAIN pitches
         /\ \A i \in DOMAIN pitches : /\ pitches[i] \in Row
                                      /\ pitches[i].message \in 0..Len(phone)
         /\ receiver.edit # 0 => receiver.edit \in DOMAIN pitches
<1>1. phone \in Seq(Messages)
  BY DEF Inv, TypeOK, PhoneOK, Messages
<1>2. Len(phone) \in Nat /\ phone \in [1..Len(phone) -> Messages]
  BY <1>1, LenProperties
<1>3. \A m \in DOMAIN phone : phone[m] \in Messages /\ phone[m].pitch \in DOMAIN pitches
  BY <1>2 DEF Messages
<1>4. \A i \in DOMAIN pitches : /\ pitches[i] \in Row
                                /\ pitches[i].message \in 0..Len(phone)
  BY RowsDomain DEF Inv, TypeOK, PitchesOK
<1>5. receiver.edit # 0 => receiver.edit \in DOMAIN pitches
  BY DEF Inv, TypeOK, ReceiverOK
<1> QED
  BY <1>2, <1>3, <1>4, <1>5

\* A step that leaves the chat alone.
LEMMA ChatKept ==
  ASSUME Inv, OutcomeInv, phone' = phone, Firm, Editing', Marking'
  PROVE  OutcomeInv'
<1>1. \A m \in DOMAIN phone : phone[m].pitch \in DOMAIN pitches
  BY Named
<1>2. OutcomeShown'
  <2> SUFFICES ASSUME NEW m \in DOMAIN phone, phone[m].shows # "asks"
               PROVE  phone[m].shows = pitches'[phone[m].pitch].status
    BY DEF OutcomeShown
  <2>1. phone[m].shows = pitches[phone[m].pitch].status /\ phone[m].shows # "open"
    BY DEF OutcomeInv, OutcomeShown, Decided
  <2> QED
    BY <1>1, <2>1 DEF Firm
<1>3. Decided'
  BY DEF OutcomeInv, Decided
<1>4. Links'
  <2> SUFFICES ASSUME NEW i \in DOMAIN pitches', pitches'[i].message # 0
               PROVE  phone[pitches'[i].message].pitch = i
    BY DEF Links
  <2>1. i \in DOMAIN pitches /\ pitches'[i].message = pitches[i].message
    BY DEF Firm
  <2> QED
    BY <2>1 DEF OutcomeInv, Links
<1> QED
  BY <1>2, <1>3, <1>4 DEF OutcomeInv

\* A step that sends: the chat grows by questions, the rows stay.
LEMMA ChatGrows ==
  ASSUME Inv, OutcomeInv, pitches' = pitches, receiver' = receiver, Marking',
         Len(phone') \in Nat, Len(phone) <= Len(phone'), DOMAIN phone' = 1..Len(phone'),
         \A m \in 1..Len(phone) : phone'[m] = phone[m],
         \A m \in 1..Len(phone') : m > Len(phone) => phone'[m].shows = "asks"
  PROVE  OutcomeInv'
<1>1. /\ Len(phone) \in Nat /\ DOMAIN phone = 1..Len(phone)
      /\ \A i \in DOMAIN pitches : pitches[i].message \in 0..Len(phone)
  BY Named
<1>2. \A m \in DOMAIN phone' : m \in DOMAIN phone \/ phone'[m].shows = "asks"
  BY <1>1
<1>3. \A m \in DOMAIN phone : phone'[m] = phone[m]
  BY <1>1
<1>4. OutcomeShown'
  BY <1>2, <1>3 DEF OutcomeInv, OutcomeShown
<1>5. Decided'
  BY <1>2, <1>3 DEF OutcomeInv, Decided
<1>6. Links'
  <2> SUFFICES ASSUME NEW i \in DOMAIN pitches, pitches[i].message # 0
               PROVE  phone'[pitches[i].message].pitch = i
    BY DEF Links
  <2>1. pitches[i].message \in DOMAIN phone
    BY <1>1
  <2> QED
    BY <1>3, <2>1 DEF OutcomeInv, Links
<1>7. Editing'
  BY DEF OutcomeInv, Editing
<1> QED
  BY <1>4, <1>5, <1>6, <1>7 DEF OutcomeInv

\* What one notify step does to what the chains know of the chat.
LEMMA MarkingElsewhere ==
  ASSUME Inv, OutcomeInv, NEW c \in Chains, NEW s, notify' = [notify EXCEPT ![c] = s],
         s.pc \notin {"send", "mark"},
         phone' = phone \/ notify[c].pc = "send"
  PROVE  Marking'
<1>1. /\ \A d \in Chains : notify'[d] = IF d = c THEN s ELSE notify[d]
  BY DEF Inv, TypeOK, NotifyOK
<1>2. ASSUME NEW d \in Chains, notify'[d].pc \in {"send", "mark"}
      PROVE  /\ d = "daily"
             /\ notify'[d].pc = "mark" => /\ Len(phone') > 0
                                          /\ phone'[Len(phone')].pitch = notify'[d].row
  <2>1. d # c /\ notify'[d] = notify[d]
    BY <1>1, <1>2
  <2>2. d = "daily"
    BY <1>2, <2>1 DEF OutcomeInv, Marking
  <2>3. phone' = phone
    <3>1. notify[c].pc = "send" => c = "daily"
      BY DEF OutcomeInv, Marking
    <3> QED
      BY <2>1, <2>2, <3>1
  <2> QED
    BY <1>2, <2>1, <2>2, <2>3 DEF OutcomeInv, Marking
<1> QED
  BY <1>2 DEF Marking

LEMMA MarkingSame ==
  ASSUME OutcomeInv, notify' = notify, Len(phone') = Len(phone),
         Len(phone) > 0 => phone'[Len(phone)].pitch = phone[Len(phone)].pitch
  PROVE  Marking'
BY DEF OutcomeInv, Marking

\* Send and SendTwice: the last message is the row's, and the chain will note it.
LEMMA MarkingSent ==
  ASSUME Inv, OutcomeInv, NEW c \in Chains, notify[c].pc = "send",
         notify' = [notify EXCEPT ![c].pc = "mark"],
         Len(phone') > 0, phone'[Len(phone')] = Ask(notify[c].row)
  PROVE  Marking'
<1>1. c = "daily" /\ \A d \in Chains : notify[d].pc \in {"send", "mark"} => d = c
  BY DEF OutcomeInv, Marking
<1>2. /\ notify'[c].pc = "mark" /\ notify'[c].row = notify[c].row
      /\ \A d \in Chains \ {c} : notify'[d] = notify[d]
  BY DEF Inv, TypeOK, NotifyOK
<1>3. phone'[Len(phone')].pitch = notify[c].row
  BY DEF Ask
<1> QED
  BY <1>1, <1>2, <1>3 DEF Marking

LEMMA NotifyShows ==
  ASSUME Inv, OutcomeInv, NEW c \in Chains, NotifyStep(c)
  PROVE  OutcomeInv'
<1>0. /\ Len(pitches) \in Nat /\ DOMAIN pitches = 1..Len(pitches)
      /\ \A i \in DOMAIN pitches : pitches[i] \in Row
      /\ pitches \in Seq(Row)
  BY RowsDomain DEF Inv, TypeOK, PitchesOK
<1>1. /\ Len(phone) \in Nat /\ DOMAIN phone = 1..Len(phone) /\ phone \in Seq(Messages)
      /\ \A i \in DOMAIN pitches : pitches[i].message \in 0..Len(phone)
  BY Named DEF Inv, TypeOK, PhoneOK, Messages
<1>2. Firm \/ pitches' # pitches
  BY DEF Firm
<1>3. Editing \/ receiver.edit = 0
  BY DEF OutcomeInv
<1>4. ASSUME receiver' = receiver, Firm
      PROVE  Editing'
  <2>1. receiver.edit # 0 => receiver.edit \in DOMAIN pitches
    BY Named
  <2> QED
    BY <1>4, <2>1 DEF OutcomeInv, Editing, Firm
<1>5. Idle.pc = "idle"
  BY DEF Idle
<1>6. CASE NotifyStart(c)
  <2>1. PICK w \in SUBSET Ticker :
          /\ pitches' = [i \in DOMAIN pitches |->
                        IF i \in Stale(w) THEN [pitches[i] EXCEPT !.status = "expired"]
                                          ELSE pitches[i]]
          /\ notify' = [notify EXCEPT ![c] = [Idle EXCEPT !.pc = "select", !.now = day, !.watch = w]]
    BY <1>6 DEF NotifyStart
  <2>2. Firm
    <3>1. \A i \in DOMAIN pitches : i \in Stale(w) => pitches[i].status = "open"
      BY DEF Stale
    <3>2. \A i \in DOMAIN pitches :
            [pitches[i] EXCEPT !.status = "expired"].message = pitches[i].message
      BY <1>0 DEF Row
    <3> QED
      BY <2>1, <3>1, <3>2 DEF Firm
  <2>3. [Idle EXCEPT !.pc = "select", !.now = day, !.watch = w].pc = "select"
    BY DEF Idle
  <2>4. phone' = phone /\ receiver' = receiver
    BY <1>6 DEF NotifyStart, telegramVars
  <2>5. Marking'
    BY <2>1, <2>3, <2>4, MarkingElsewhere
  <2> QED
    BY <1>4, <2>2, <2>4, <2>5, ChatKept
<1>7. CASE Select(c)
  <2>1. phone' = phone /\ receiver' = receiver /\ pitches' = pitches
    BY <1>7 DEF Select, telegramVars
  <2>2. PICK picks : notify' = [notify EXCEPT ![c] = IF picks = {} THEN Idle
                    ELSE [Idle EXCEPT !.pc = "create", !.now = notify[c].now,
                                      !.todo = picks, !.seen = Len(pitches)]]
    BY <1>7 DEF Select
  <2> DEFINE s == IF picks = {} THEN Idle
                    ELSE [Idle EXCEPT !.pc = "create", !.now = notify[c].now,
                                      !.todo = picks, !.seen = Len(pitches)]
  <2>3. s.pc \in {"idle", "create"}
    BY DEF Idle
  <2>4. Marking'
    BY <2>1, <2>2, <2>3, MarkingElsewhere
  <2> QED
    BY <1>2, <1>4, <2>1, <2>4, ChatKept
<1>8. CASE Create(c)
  <2>1. PICK t \in notify[c].todo :
          LET rest == notify[c].todo \ {t} IN
          /\ pitches' = Append(pitches, [ticker |-> t, at |-> notify[c].now, status |-> "open",
                                      message |-> 0, seen |-> notify[c].seen])
          /\ notify' = [notify EXCEPT ![c] =
                       IF c = "daily" THEN [@ EXCEPT !.todo = rest, !.row = Len(pitches) + 1,
                                                     !.pc = "send"]
                       ELSE IF rest = {} THEN Idle ELSE [@ EXCEPT !.todo = rest]]
    BY <1>8 DEF Create
  <2>2. phone' = phone /\ receiver' = receiver /\ notify[c].pc = "create"
    BY <1>8 DEF Create, telegramVars
  <2>3. Firm
    <3> DEFINE row == [ticker |-> t, at |-> notify[c].now, status |-> "open",
                       message |-> 0, seen |-> notify[c].seen]
    <3>1. pitches' = Append(pitches, row) /\ row.message = 0
      BY <2>1
    <3> HIDE DEF row
    <3>2. /\ DOMAIN pitches' = 1..(Len(pitches) + 1)
          /\ \A i \in 1..Len(pitches) : pitches'[i] = pitches[i]
          /\ pitches'[Len(pitches) + 1] = row
      BY <1>0, <3>1
    <3> QED
      BY <1>0, <3>1, <3>2 DEF Firm
  <2>4. Marking'
    <3>1. CASE c # "daily"
      <4> DEFINE rest == notify[c].todo \ {t}
                 s == IF rest = {} THEN Idle ELSE [notify[c] EXCEPT !.todo = rest]
      <4>1. notify' = [notify EXCEPT ![c] = s]
        BY <2>1, <3>1 DEF Inv, TypeOK, NotifyOK
      <4>2. s.pc \in {"idle", "create"}
        BY <1>5, <2>2 DEF Inv, TypeOK, NotifyOK
      <4> HIDE DEF s
      <4> QED
        BY <2>2, <4>1, <4>2, MarkingElsewhere
    <3>2. CASE c = "daily"
      <4>1. /\ notify'[c].pc = "send"
            /\ \A d \in Chains \ {c} : notify'[d] = notify[d]
        BY <2>1, <3>2 DEF Inv, TypeOK, NotifyOK
      <4> QED
        BY <2>2, <3>2, <4>1 DEF OutcomeInv, Marking
    <3> QED
      BY <3>1, <3>2
  <2> QED
    BY <1>4, <2>2, <2>3, <2>4, ChatKept
<1>9. CASE Send(c)
  <2> DEFINE a == Ask(notify[c].row)
  <2>1. /\ phone' = Append(phone, a) /\ notify[c].pc = "send"
        /\ notify' = [notify EXCEPT ![c].pc = "mark"]
        /\ pitches' = pitches /\ receiver' = receiver
    BY <1>9 DEF Send, telegramVars
  <2>2. a.shows = "asks"
    BY DEF Ask
  <2> HIDE DEF a
  <2>3. /\ Len(phone') = Len(phone) + 1 /\ DOMAIN phone' = 1..(Len(phone) + 1)
        /\ \A m \in 1..Len(phone) : phone'[m] = phone[m]
        /\ phone'[Len(phone) + 1] = a
    BY <1>1, <2>1
  <2>4. /\ Len(phone') \in Nat /\ Len(phone') > 0 /\ Len(phone) <= Len(phone')
        /\ DOMAIN phone' = 1..Len(phone') /\ phone'[Len(phone')] = a
        /\ \A m \in 1..Len(phone') : m > Len(phone) => m = Len(phone')
    BY <1>1, <2>3
  <2>5. Marking'
    BY <2>1, <2>4, MarkingSent DEF a
  <2>6. \A m \in 1..Len(phone') : m > Len(phone) => phone'[m].shows = "asks"
    BY <2>2, <2>4
  <2> QED
    BY <2>1, <2>3, <2>4, <2>5, <2>6, ChatGrows
<1>10. CASE SendTwice(c)
  <2> DEFINE a == Ask(notify[c].row)
             two == <<a, a>>
  <2>1. /\ phone' = phone \o two /\ notify[c].pc = "send"
        /\ notify' = [notify EXCEPT ![c].pc = "mark"]
        /\ pitches' = pitches /\ receiver' = receiver
    BY <1>10 DEF SendTwice, telegramVars
  <2>2. a.shows = "asks" /\ a \in Messages /\ two \in Seq(Messages)
    <3>1. notify[c].row \in DOMAIN pitches
      BY <2>1 DEF Inv, StepInv
    <3>2. a.shows = "asks" /\ a \in Messages
      BY <3>1 DEF Ask, Messages
    <3> QED
      BY <3>2
  <2>3. Len(two) = 2 /\ two[1] = a /\ two[2] = a
    OBVIOUS
  <2> HIDE DEF a, two
  <2>4. /\ Len(phone') = Len(phone) + 2 /\ DOMAIN phone' = 1..(Len(phone) + 2)
        /\ \A m \in 1..Len(phone) : phone'[m] = phone[m]
        /\ phone'[Len(phone) + 1] = a /\ phone'[Len(phone) + 2] = a
    <3>1. /\ Len(phone') = Len(phone) + Len(two)
          /\ \A m \in 1..(Len(phone) + Len(two)) :
               phone'[m] = IF m <= Len(phone) THEN phone[m] ELSE two[m - Len(phone)]
          /\ phone' \in Seq(Messages)
      BY <1>1, <2>1, <2>2, ConcatProperties
    <3>2. DOMAIN phone' = 1..Len(phone')
      BY <3>1, LenProperties
    <3> QED
      BY <1>1, <2>3, <3>1, <3>2
  <2>5. /\ Len(phone') \in Nat /\ Len(phone') > 0 /\ Len(phone) <= Len(phone')
        /\ DOMAIN phone' = 1..Len(phone') /\ phone'[Len(phone')] = a
        /\ \A m \in 1..Len(phone') : m > Len(phone) =>
             m = Len(phone) + 1 \/ m = Len(phone) + 2
    BY <1>1, <2>4
  <2>6. Marking'
    BY <2>1, <2>5, MarkingSent DEF a
  <2>7. \A m \in 1..Len(phone') : m > Len(phone) => phone'[m].shows = "asks"
    BY <2>2, <2>4, <2>5
  <2> QED
    BY <2>1, <2>4, <2>5, <2>6, <2>7, ChatGrows
<1>11. ASSUME Continue(c)
       PROVE  \E s : notify' = [notify EXCEPT ![c] = s] /\ s.pc \in {"idle", "create"}
  <2> DEFINE s == IF notify[c].todo = {} THEN Idle ELSE [notify[c] EXCEPT !.pc = "create", !.row = 0]
  <2>1. notify' = [notify EXCEPT ![c] = s]
    BY <1>11 DEF Continue, Inv, TypeOK, NotifyOK
  <2>2. s.pc \in {"idle", "create"}
    BY <1>5 DEF Inv, TypeOK, NotifyOK
  <2> HIDE DEF s
  <2> QED
    BY <2>1, <2>2
<1>12. CASE SendFails(c)
  <2> DEFINE a == Ask(notify[c].row)
  <2>1. /\ phone' \in {phone, Append(phone, a)} /\ notify[c].pc = "send"
        /\ pitches' = pitches /\ receiver' = receiver /\ Continue(c)
    BY <1>12 DEF SendFails, telegramVars
  <2>2. a.shows = "asks"
    BY DEF Ask
  <2> HIDE DEF a
  <2>3. Marking'
    <3>1. PICK s : notify' = [notify EXCEPT ![c] = s] /\ s.pc \in {"idle", "create"}
      BY <1>11, <2>1
    <3> QED
      BY <2>1, <3>1, MarkingElsewhere
  <2>4. CASE phone' = phone
    BY <1>2, <1>4, <2>1, <2>3, <2>4, ChatKept
  <2>5. CASE phone' = Append(phone, a)
    <3>1. /\ Len(phone') = Len(phone) + 1 /\ DOMAIN phone' = 1..(Len(phone) + 1)
          /\ \A m \in 1..Len(phone) : phone'[m] = phone[m]
          /\ phone'[Len(phone) + 1] = a
      BY <1>1, <2>5
    <3>2. /\ Len(phone') \in Nat /\ Len(phone) <= Len(phone')
          /\ DOMAIN phone' = 1..Len(phone') /\ phone'[Len(phone')] = a
          /\ \A m \in 1..Len(phone') : m > Len(phone) => m = Len(phone')
      BY <1>1, <3>1
    <3>3. \A m \in 1..Len(phone') : m > Len(phone) => phone'[m].shows = "asks"
      BY <2>2, <3>2
    <3> QED
      BY <2>1, <2>3, <3>1, <3>2, <3>3, ChatGrows
  <2> QED
    BY <2>1, <2>4, <2>5
<1>13. CASE SetMessageId(c)
  <2> DEFINE r == notify[c].row
  <2>1. /\ pitches' = [pitches EXCEPT ![r].message = Len(phone)]
        /\ phone' = phone /\ receiver' = receiver /\ notify[c].pc = "mark" /\ Continue(c)
    BY <1>13 DEF SetMessageId, telegramVars
  <2>2. r \in DOMAIN pitches /\ Len(phone) > 0 /\ phone[Len(phone)].pitch = r
    BY <2>1 DEF Inv, StepInv, OutcomeInv, Marking
  <2> HIDE DEF r
  <2>3. /\ DOMAIN pitches' = DOMAIN pitches
        /\ \A i \in DOMAIN pitches : /\ pitches'[i].status = pitches[i].status
                                     /\ i # r => pitches'[i].message = pitches[i].message
        /\ pitches'[r].message = Len(phone)
    BY <1>0, <2>1, <2>2 DEF Row
  <2>4. Marking'
    <3>1. PICK s : notify' = [notify EXCEPT ![c] = s] /\ s.pc \in {"idle", "create"}
      BY <1>11, <2>1
    <3> QED
      BY <2>1, <3>1, MarkingElsewhere
  <2>5. OutcomeShown'
    <3>1. \A m \in DOMAIN phone : phone[m].pitch \in DOMAIN pitches
      BY Named
    <3> QED
      BY <2>1, <2>3, <3>1 DEF OutcomeInv, OutcomeShown
  <2>6. Decided'
    BY <2>1 DEF OutcomeInv, Decided
  <2>7. Links'
    <3> SUFFICES ASSUME NEW i \in DOMAIN pitches, pitches'[i].message # 0
                 PROVE  phone[pitches'[i].message].pitch = i
      BY <2>1, <2>3 DEF Links
    <3>1. CASE i = r
      BY <2>2, <2>3, <3>1
    <3>2. CASE i # r
      BY <2>3, <3>2 DEF OutcomeInv, Links
    <3> QED
      BY <3>1, <3>2
  <2>8. Editing'
    <3>1. Len(phone) # 0
      BY <1>1, <2>2
    <3>2. receiver.edit # 0 => receiver.edit \in DOMAIN pitches
      BY Named
    <3>3. \A i \in DOMAIN pitches : pitches[i].message # 0 => pitches'[i].message # 0
      BY <2>3, <3>1
    <3> QED
      BY <2>1, <2>3, <3>2, <3>3 DEF OutcomeInv, Editing
  <2> QED
    BY <2>4, <2>5, <2>6, <2>7, <2>8 DEF OutcomeInv
<1>14. CASE NotifyCrash(c)
  <2>1. /\ phone' = phone /\ receiver' = receiver /\ pitches' = pitches
        /\ notify' = [notify EXCEPT ![c] = Idle]
    BY <1>14 DEF NotifyCrash, telegramVars
  <2>2. Marking'
    BY <1>5, <2>1, MarkingElsewhere
  <2> QED
    BY <1>2, <1>4, <2>1, <2>2, ChatKept
<1> QED
  BY <1>6, <1>7, <1>8, <1>9, <1>10, <1>12, <1>13, <1>14 DEF NotifyStep

\* A decision at an open row.
LEMMA DecisionFirm ==
  ASSUME Inv, NEW i, Undecided(i), NEW d,
         pitches' = [pitches EXCEPT ![i].status = d]
  PROVE  /\ Firm
         /\ pitches'[i].status = d
         /\ \A j \in DOMAIN pitches : j # i => pitches'[j].status = pitches[j].status
<1>1. i \in DOMAIN pitches /\ pitches[i].status = "open"
  BY DEF Undecided
<1>2. \A j \in DOMAIN pitches : pitches[j] \in Row
  BY Named
<1>3. /\ DOMAIN pitches' = DOMAIN pitches
      /\ \A j \in DOMAIN pitches : pitches'[j] = IF j = i THEN [pitches[j] EXCEPT !.status = d]
                                                          ELSE pitches[j]
  OBVIOUS
<1>4. \A j \in DOMAIN pitches : [pitches[j] EXCEPT !.status = d].message = pitches[j].message
                                /\ [pitches[j] EXCEPT !.status = d].status = d
  BY <1>2 DEF Row
<1> QED
  BY <1>1, <1>3, <1>4 DEF Firm

\* What the receiver is about to edit after a press: its row, if it knows a message.
LEMMA RoundEdits ==
  ASSUME Inv, NEW e, RoundAfter(e)
  PROVE  receiver'.edit = e
BY DEF RoundAfter, Inv, TypeOK, ReceiverOK

\* The press at the head of the round names a row and a decision.
LEMMA HeadIsPress ==
  ASSUME Inv, receiver.todo # <<>>
  PROVE  /\ Head(receiver.todo).pitch \in DOMAIN pitches
         /\ Head(receiver.todo).action \in Decisions
<1>1. receiver.todo \in Seq(Presses)
  BY DEF Inv, TypeOK, ReceiverOK
<1>2. Head(receiver.todo) \in Presses
  BY <1>1, HeadTailProperties
<1> QED
  BY <1>2 DEF Presses

LEMMA OutcomeStep ==
  ASSUME Inv, OutcomeInv, [Next]_vars
  PROVE  OutcomeInv'
<1>1. pitches' = pitches => Firm
  BY DEF Firm
<1>2. phone' = phone /\ notify' = notify => Marking'
  BY MarkingSame
<1>3. receiver.edit # 0 => receiver.edit \in DOMAIN pitches
  BY Named
<1>4. "open" \notin Decisions
  BY InboxAssumption DEF InboxAssumption
<1>5. Firm /\ receiver'.edit = receiver.edit => Editing'
  BY <1>3 DEF OutcomeInv, Editing, Firm
<1>6. receiver'.edit = 0 => Editing'
  BY DEF Editing
<1>7. ASSUME phone' = phone, notify' = notify, Firm, Editing'
      PROVE  OutcomeInv'
  BY <1>2, <1>7, ChatKept
<1>8. CASE \E c \in Chains : NotifyStep(c)
  BY <1>8, NotifyShows
<1>9. CASE NextDay
  BY <1>1, <1>5, <1>7, <1>9 DEF NextDay, telegramVars
<1>10. CASE Press
  BY <1>1, <1>5, <1>7, <1>10 DEF Press, notifyVars
<1>11. CASE Cockpit
  <2>1. PICK i \in DOMAIN pitches, d \in Decisions :
          Undecided(i) /\ pitches' = [pitches EXCEPT ![i].status = d]
    BY <1>11 DEF Cockpit
  <2>2. Firm
    BY <2>1, DecisionFirm
  <2>3. phone' = phone /\ notify' = notify /\ receiver' = receiver
    BY <1>11 DEF Cockpit, notifyVars, telegramVars
  <2> QED
    BY <1>5, <1>7, <2>2, <2>3
<1>12. CASE Fetch
  <2>1. /\ receiver' = [receiver EXCEPT !.todo = SubSeq(updates, First, Len(updates)),
                                        !.next = NextOffset]
        /\ receiver.edit = 0 /\ phone' = phone /\ notify' = notify /\ pitches' = pitches
    BY <1>12 DEF Fetch, notifyVars
  <2>2. receiver'.edit = 0
    BY <2>1 DEF Inv, TypeOK, ReceiverOK
  <2> QED
    BY <1>1, <1>6, <1>7, <2>1, <2>2
<1>13. CASE Decide
  <2> DEFINE p == Head(receiver.todo).pitch
             e == IF pitches[p].message = 0 THEN 0 ELSE p
  <2>1. /\ receiver.todo # <<>> /\ Undecided(p) /\ RoundAfter(e)
        /\ pitches' = [pitches EXCEPT ![p].status = Head(receiver.todo).action]
        /\ phone' = phone /\ notify' = notify
    BY <1>13 DEF Decide, notifyVars
  <2>2. p \in DOMAIN pitches /\ Head(receiver.todo).action \in Decisions
    BY <2>1, HeadIsPress
  <2>3. Firm /\ pitches'[p].status = Head(receiver.todo).action
    BY <2>1, DecisionFirm
  <2>4. receiver'.edit = e
    BY <2>1, RoundEdits
  <2>5. pitches'[p].status # "open" /\ pitches'[p].message = pitches[p].message
    BY <1>4, <2>2, <2>3 DEF Firm
  <2>6. Editing'
    BY <2>4, <2>5 DEF Editing
  <2> QED
    BY <1>7, <2>1, <2>3, <2>6
<1>14. CASE AlreadyDecided
  <2> DEFINE p == Head(receiver.todo).pitch
             e == IF pitches[p].message = 0 THEN 0 ELSE p
  <2>1. /\ receiver.todo # <<>> /\ ~Undecided(p) /\ RoundAfter(e)
        /\ pitches' = pitches /\ phone' = phone /\ notify' = notify
    BY <1>14 DEF AlreadyDecided, notifyVars
  <2>2. p \in DOMAIN pitches /\ pitches[p].status # "open"
    BY <2>1, HeadIsPress DEF Undecided
  <2>3. receiver'.edit = e
    BY <2>1, RoundEdits
  <2>4. Editing'
    BY <2>1, <2>2, <2>3 DEF Editing
  <2> QED
    BY <1>1, <1>7, <2>1, <2>4
<1>15. CASE Edit
  <2> DEFINE i == receiver.edit
             m == pitches[i].message
             status == pitches[i].status
  <2>1. /\ i # 0 /\ i \in DOMAIN pitches
        /\ phone' = [phone EXCEPT ![m].shows = status]
        /\ receiver' = [receiver EXCEPT !.edit = 0]
        /\ notify' = notify /\ pitches' = pitches
    BY <1>3, <1>15 DEF Edit, Message, notifyVars
  <2>2. m # 0 /\ status # "open" /\ phone[m].pitch = i
    BY <2>1 DEF OutcomeInv, Editing, Links
  <2>3. /\ DOMAIN phone = 1..Len(phone) /\ Len(phone) \in Nat
        /\ \A k \in DOMAIN phone : phone[k] \in Messages
        /\ phone \in Seq(Messages)
    BY Named DEF Inv, TypeOK, PhoneOK, Messages
  <2> HIDE DEF i, m, status
  <2>4. /\ DOMAIN phone' = DOMAIN phone /\ Len(phone') = Len(phone)
        /\ \A k \in DOMAIN phone :
             /\ phone'[k].pitch = phone[k].pitch
             /\ phone'[k].shows = IF k = m THEN status ELSE phone[k].shows
    BY <2>1, <2>3 DEF Messages
  <2>5. OutcomeShown'
    <3> SUFFICES ASSUME NEW k \in DOMAIN phone, phone'[k].shows # "asks"
                 PROVE  phone'[k].shows = pitches[phone[k].pitch].status
      BY <2>1, <2>4 DEF OutcomeShown
    <3>1. CASE k = m
      BY <2>2, <2>4, <3>1 DEF status, i, m
    <3>2. CASE k # m
      BY <2>4, <3>2 DEF OutcomeInv, OutcomeShown
    <3> QED
      BY <3>1, <3>2
  <2>6. Decided'
    BY <2>2, <2>4 DEF OutcomeInv, Decided
  <2>7. Links'
    <3> SUFFICES ASSUME NEW k \in DOMAIN pitches, pitches[k].message # 0
                 PROVE  phone'[pitches[k].message].pitch = k
      BY <2>1 DEF Links
    <3>1. pitches[k].message \in 0..Len(phone)
      BY Named
    <3>2. pitches[k].message \in DOMAIN phone
      BY <2>3, <3>1
    <3> QED
      BY <2>4, <3>2 DEF OutcomeInv, Links
  <2>8. Editing'
    <3>1. receiver'.edit = 0
      BY <2>1 DEF Inv, TypeOK, ReceiverOK
    <3> QED
      BY <3>1 DEF Editing
  <2>9. Marking'
    <3>1. Len(phone) > 0 => Len(phone) \in DOMAIN phone
      BY <2>3
    <3>2. Len(phone) > 0 => phone'[Len(phone)].pitch = phone[Len(phone)].pitch
      BY <2>4, <3>1
    <3> QED
      BY <2>1, <2>4, <3>2, MarkingSame
  <2> QED
    BY <2>5, <2>6, <2>7, <2>8, <2>9 DEF OutcomeInv
<1>16. CASE EditFails \/ ReceiverCrash
  <2>1. /\ receiver' = [receiver EXCEPT !.edit = 0] \/ receiver' = NoRound
        /\ phone' = phone /\ notify' = notify /\ pitches' = pitches
    BY <1>16 DEF EditFails, ReceiverCrash, notifyVars
  <2>2. receiver'.edit = 0
    BY <2>1 DEF Inv, TypeOK, ReceiverOK, NoRound
  <2> QED
    BY <1>1, <1>6, <1>7, <2>1, <2>2
<1>17. CASE UNCHANGED vars
  BY <1>1, <1>5, <1>7, <1>17 DEF vars
<1> QED
  BY <1>8, <1>9, <1>10, <1>11, <1>12, <1>13, <1>14, <1>15, <1>16, <1>17
     DEF Next, ReceiverStep

LEMMA OutcomeInit == Init => OutcomeInv
<1> SUFFICES ASSUME Init PROVE OutcomeInv
  OBVIOUS
<1>1. DOMAIN phone = {} /\ DOMAIN pitches = {}
  BY DEF Init
<1>2. receiver.edit = 0
  BY DEF Init, NoRound
<1>3. \A c \in Chains : notify[c].pc = "idle"
  BY DEF Init, Idle
<1> QED
  BY <1>1, <1>2, <1>3 DEF OutcomeInv, OutcomeShown, Decided, Links, Editing, Marking

(* process_round and the cockpit: a message never shows an outcome its     *)
(* pitch does not have, whichever surface won, whichever edit came last,   *)
(* and whatever was delivered twice or lost.                               *)
THEOREM ShowsTheOutcome == Spec => []OutcomeShown
<1>1. Init => Inv /\ OutcomeInv
  BY InvInit, OutcomeInit
<1>2. Inv /\ OutcomeInv /\ [Next]_vars => (Inv /\ OutcomeInv)'
  BY InvStep, OutcomeStep
<1>3. OutcomeInv => OutcomeShown
  BY DEF OutcomeInv
<1> QED
  BY <1>1, <1>2, <1>3, PTL DEF Spec
=============================================================================
