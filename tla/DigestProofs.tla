----------------------------- MODULE DigestProofs -----------------------------
(***************************************************************************)
(* The daily digest for any number of days, runs, failed sends and kills:  *)
(* the savings plan is marked only when it left the house, one kill        *)
(* between two rows of app_state makes no resend send an old digest, and a *)
(* digest is repeated on the phone only after a failed send or a kill.     *)
(***************************************************************************)
EXTENDS Digest, SequenceTheorems, TLAPS

-----------------------------------------------------------------------------
(* Types: the rows of app_state, and the memory of a process.              *)

States == [sent : 0..MaxDay, date : 0..MaxDay, text : Texts, core : BOOLEAN, month : BOOLEAN]

Rows ==
  [key : {"sent", "date"}, value : 0..MaxDay] \cup [key : {"text"}, value : Texts]
    \cup [key : {"core", "month"}, value : BOOLEAN]

Memories ==
  [pc : {"idle", "date", "text", "resend", "core", "check", "collect", "mail", "phone", "write"},
   digest : BOOLEAN, day : 0..MaxDay, date : 0..MaxDay, text : Texts,
   writes : Seq(Rows), then : {"idle", "core", "check", "phone"}]

Digesting(m) ==
  \/ m.pc \in {"check", "collect", "mail", "phone"}
  \/ m.pc = "write" /\ m.then \in {"check", "phone"}

Fine(m) ==
  /\ m \in Memories /\ m.day <= day
  /\ Digesting(m) => m.digest
  /\ m.pc = "write" <=> m.writes # <<>>
  /\ m.pc # "idle" => m.day > 0

TypeInv == TypeOK /\ process \in [Processes -> Memories] /\ \A p \in Processes : Fine(process[p])

-----------------------------------------------------------------------------
(* The plan, while nothing overlaps: one process moves at most, and what   *)
(* app_state says of the pending month fits the number of things that went *)
(* wrong.  A month that is stored beside a plan nobody saw takes a fault;  *)
(* to part it from its text takes a kill, or a second fault; to put a text *)
(* without the plan beside it, another fault; and to leave it there, with  *)
(* nobody about to clear it, a kill more.                                  *)

Unshown == state.core /\ ~planShown
Tried == kills > 0 \/ faults > 1
Strained == (kills > 0 /\ faults > 1) \/ faults > 2
Torn == kills > 0 /\ faults + kills > 3

Clearing(w) == w # << >> /\ w[Len(w)] = Row("core", FALSE)
Storing(w) == w # << >> /\ w[Len(w)] = Row("core", TRUE)

Rowed(w) ==
  /\ \A i \in DOMAIN w :
       /\ w[i].key = "month" => planShown \/ Torn
       /\ w[i].key \in {"date", "text"} => i < Len(w)
       /\ w[i].key = "core" => i = Len(w)
       /\ w[i].key = "date" => w[i].value # 0 \/ Clearing(w)
       /\ w[i].key = "text" =>
            \/ w[i].value.plan
            \/ Clearing(w) /\ (w[i].value = NoText \/ (Unshown => Strained))
  /\ Storing(w) =>
       /\ faults > 0 /\ Len(w) <= 3
       /\ Len(w) = 1 => state.date # 0 /\ state.text.plan
       /\ Len(w) = 2 => state.date # 0 /\ w[1].key = "text" /\ w[1].value.plan
       /\ Len(w) = 3 => /\ w[1].key = "date" /\ w[1].value # 0
                        /\ w[2].key = "text" /\ w[2].value.plan

Telling(m) ==
  /\ m.pc = "resend" => m.text = state.text /\ m.text # NoText
  /\ m.pc = "core" \/ (m.pc = "write" /\ m.then = "core") => (Unshown => Torn)
  /\ m.pc \in {"check", "collect", "mail", "phone"} \/ (m.pc = "write" /\ m.then = "phone")
       => (Unshown => Tried)
  /\ m.pc = "write" /\ m.then = "check" => Clearing(m.writes)
  /\ Storing(m.writes) => m.then = "idle"
  /\ Rowed(m.writes)

Planned(m) ==
  /\ state.month => planShown \/ Torn
  /\ Unshown =>
       /\ faults > 0
       /\ state.date = 0 \/ state.text = NoText => kills > 0 \/ Clearing(m.writes)
       /\ state.text = NoText \/ state.text.plan \/ Torn \/ (Strained /\ Clearing(m.writes))
  /\ Telling(m)

PlanInv ==
  ~overlap =>
    \E p \in Processes : /\ \A q \in Processes \ {p} : process[q].pc = "idle"
                         /\ Planned(process[p])

-----------------------------------------------------------------------------
(* The days: while nothing overlaps the pending date and the pending text  *)
(* belong together, or one of the two is missing.                          *)

Dated(text) == text = NoText \/ text.day > 0
Out(d) == d > 0 => d \in mailed \/ delivered[d] > 0

\* A date row is followed by the row of its text.
Paired(w) ==
  \A i \in DOMAIN w :
    /\ w[i].key = "date" => /\ i + 1 \in DOMAIN w /\ w[i + 1].key = "text"
                            /\ w[i + 1].value.day = w[i].value
    /\ w[i].key = "text" => /\ Dated(w[i].value)
                            /\ i > 1 => w[i - 1].key = "date"
    /\ w[i].key = "sent" => Out(w[i].value)

\* Between the two rows.
Mid(m) == m.pc = "write" /\ m.writes[1].key = "text"

Apart == \A p, q \in Processes : process[p].pc # "idle" /\ process[q].pc # "idle" => p = q

Matches == state.date = state.text.day
Fits == state.date = 0 \/ state.text.day = 0 \/ Matches

\* As long as nothing was killed, a run never meets a pending of another day.
Today(m) == state.date = 0 \/ state.date = m.day

Unkilled(m) ==
  /\ m.pc \in {"resend", "core"} \/ (m.pc = "write" /\ m.then = "core") => Today(m)
  /\ m.pc \in {"check", "collect", "mail", "phone"} \/ (m.pc = "write" /\ m.then = "phone")
       => Today(m)
  /\ m.pc = "write" /\ m.then = "check" =>
       Today(m) \/ \E i \in DOMAIN m.writes : m.writes[i].key = "date"
  /\ \A i \in DOMAIN m.writes :
       m.writes[i].key = "date" => m.writes[i].value = 0 \/ (m.writes[i].value = m.day /\ Today(m))

Fresh(m) ==
  /\ Dated(m.text)
  /\ m.pc = "text" => m.date = state.date
  /\ m.pc = "resend" => m.text.day = m.day /\ m.date = m.day
  /\ m.pc \in {"mail", "phone"} \/ (m.pc = "write" /\ m.then = "phone") => m.text.day = m.day
  /\ Paired(m.writes)
  /\ Mid(m) => state.date = m.writes[1].value.day

StaleInv ==
  ~overlap /\ kills <= 1 =>
    /\ Apart
    /\ Dated(state.text) /\ Out(state.sent)
    /\ \A p \in Processes : Fresh(process[p])
    /\ (\E p \in Processes : Mid(process[p])) \/ Fits
    /\ kills = 0 =>
         /\ Fits
         /\ (\E p \in Processes : Mid(process[p])) \/ Matches
         /\ \A p \in Processes : Unkilled(process[p])

-----------------------------------------------------------------------------
(* What the steps do to the rows and to the memory of their process.       *)

Set(s, row) == [k \in DOMAIN s |-> IF k = row.key THEN row.value ELSE s[k]]

LEMMA RowSet ==
  ASSUME NEW s \in States, NEW row \in Rows
  PROVE  /\ Set(s, row) \in States
         /\ Set(s, row).sent = IF row.key = "sent" THEN row.value ELSE s.sent
         /\ Set(s, row).date = IF row.key = "date" THEN row.value ELSE s.date
         /\ Set(s, row).text = IF row.key = "text" THEN row.value ELSE s.text
         /\ Set(s, row).core = IF row.key = "core" THEN row.value ELSE s.core
         /\ Set(s, row).month = IF row.key = "month" THEN row.value ELSE s.month
<1> DEFINE t == [k \in DOMAIN s |-> IF k = row.key THEN row.value ELSE s[k]]
<1>1. DOMAIN s = {"sent", "date", "text", "core", "month"} BY DEF States
<1>2. /\ s["sent"] \in 0..MaxDay /\ s["date"] \in 0..MaxDay /\ s["text"] \in Texts
      /\ s["core"] \in BOOLEAN /\ s["month"] \in BOOLEAN
  BY DEF States
<1>3. /\ row.key \in {"sent", "date"} => row.value \in 0..MaxDay
      /\ row.key = "text" => row.value \in Texts
      /\ row.key \in {"core", "month"} => row.value \in BOOLEAN
  BY DEF Rows
<1>4. \A k \in {"sent", "date", "text", "core", "month"} :
        t[k] = IF k = row.key THEN row.value ELSE s[k]
  BY <1>1
<1>5. t = [sent |-> t.sent, date |-> t.date, text |-> t.text, core |-> t.core, month |-> t.month]
  BY <1>1
<1>6. t.sent \in 0..MaxDay /\ t.date \in 0..MaxDay BY <1>2, <1>3, <1>4
<1>7. t.text \in Texts BY <1>2, <1>3, <1>4
<1>8. t.core \in BOOLEAN BY <1>2, <1>3, <1>4
<1>9. t.month \in BOOLEAN BY <1>2, <1>3, <1>4
<1>10. Set(s, row) = t BY DEF Set
<1> HIDE DEF t
<1>11. t \in States BY <1>5, <1>6, <1>7, <1>8, <1>9 DEF States
<1> QED BY <1>4, <1>10, <1>11

LEMMA Bounds ==
  MaxDay \in Nat \ {0} /\ MaxRuns \in Nat /\ MaxFaults \in Nat /\ MaxKills \in Nat
BY DigestAssumption DEF DigestAssumption

LEMMA Parts ==
  ASSUME TypeInv
  PROVE  /\ day \in 1..MaxDay /\ day \in Nat /\ hasMail \in BOOLEAN /\ state \in States
         /\ delivered \in [1..MaxDay -> Nat] /\ mailed \subseteq 1..MaxDay /\ planShown \in BOOLEAN
         /\ faults \in Nat /\ kills \in Nat /\ overlap \in BOOLEAN
         /\ process \in [Processes -> Memories]
         /\ state.date \in 0..MaxDay /\ state.text \in Texts /\ state.sent \in 0..MaxDay
         /\ state.core \in BOOLEAN /\ state.month \in BOOLEAN
BY Bounds DEF TypeInv, TypeOK, States

LEMMA Fields ==
  ASSUME NEW m \in Memories
  PROVE  /\ m.digest \in BOOLEAN /\ m.day \in 0..MaxDay /\ m.day \in Nat
         /\ m.date \in 0..MaxDay /\ m.text \in Texts /\ m.writes \in Seq(Rows)
         /\ m.then \in {"idle", "core", "check", "phone"}
BY DEF Memories

LEMMA NoTextIsText == NoText \in Texts /\ NoText.day = 0 /\ NoText.plan = FALSE
BY Bounds DEF NoText, Texts

LEMMA IdleIsMemory ==
  /\ Idle \in Memories /\ Idle.pc = "idle" /\ Idle.day = 0 /\ Idle.text = NoText
  /\ Idle.writes = << >> /\ Idle.then = "idle" /\ Idle.digest = FALSE
<1>1. << >> \in Seq(Rows) BY EmptySeq
<1> QED BY <1>1, NoTextIsText, Bounds DEF Idle, Memories

LEMMA IdleIsFine ==
  ASSUME TypeInv
  PROVE  Fine(Idle)
BY IdleIsMemory, Parts DEF Fine, Digesting

Others(p) ==
  process' \in [Processes -> Memories] /\ \A q \in Processes \ {p} : process'[q] = process[q]

LEMMA Change ==
  ASSUME TypeInv, NEW p \in Processes, NEW m \in Memories, process' = [process EXCEPT ![p] = m]
  PROVE  process'[p] = m /\ Others(p)
BY Parts DEF Others

LEMMA WriteThenDoes ==
  ASSUME TypeInv, NEW p \in Processes, NEW rows \in Seq(Rows), rows # << >>,
         NEW then \in {"idle", "core", "check", "phone"}, WriteThen(p, rows, then),
         process[p].pc # "idle", then \in {"check", "phone"} => process[p].digest
  PROVE  /\ Others(p) /\ Fine(process'[p])
         /\ process'[p].pc = "write" /\ process'[p].writes = rows /\ process'[p].then = then
         /\ process'[p].day = process[p].day /\ process'[p].date = process[p].date
         /\ process'[p].text = process[p].text /\ process'[p].digest = process[p].digest
<1> DEFINE m == [process[p] EXCEPT !.writes = rows, !.then = then, !.pc = "write"]
<1>1. process' = [process EXCEPT ![p] = m] BY Parts DEF WriteThen
<1>2. process[p] \in Memories /\ Fine(process[p]) BY Parts DEF TypeInv
<1>3. m \in Memories BY <1>2 DEF Memories
<1>4. /\ m.pc = "write" /\ m.writes = rows /\ m.then = then /\ m.day = process[p].day
      /\ m.date = process[p].date /\ m.text = process[p].text /\ m.digest = process[p].digest
  BY <1>2 DEF Memories
<1> HIDE DEF m
<1>5. process'[p] = m /\ Others(p) BY <1>1, <1>3, Change
<1>6. Fine(m) BY <1>2, <1>3, <1>4 DEF Fine, Digesting
<1> QED BY <1>4, <1>5, <1>6

LEMMA LeaveDoes ==
  ASSUME TypeInv, NEW p \in Processes, Leave(p), process[p].pc # "idle", process[p].writes = << >>
  PROVE  /\ Others(p) /\ Fine(process'[p])
         /\ \/ process'[p] = Idle
            \/ /\ process'[p].pc = "check" /\ process'[p].day = process[p].day
               /\ process'[p].text = process[p].text /\ process'[p].writes = << >>
               /\ process[p].digest /\ process'[p].digest
<1> DEFINE m == IF process[p].digest THEN [process[p] EXCEPT !.pc = "check"] ELSE Idle
<1>1. process' = [process EXCEPT ![p] = m] BY Parts DEF Leave
<1>2. process[p] \in Memories /\ Fine(process[p]) BY Parts DEF TypeInv
<1>3. CASE process[p].digest
  <2>1. m \in Memories BY <1>2, <1>3 DEF Memories
  <2>2. /\ m.pc = "check" /\ m.day = process[p].day /\ m.digest = process[p].digest
        /\ m.text = process[p].text /\ m.writes = process[p].writes
    BY <1>2, <1>3 DEF Memories
  <2> HIDE DEF m
  <2>3. process'[p] = m /\ Others(p) BY <1>1, <2>1, Change
  <2>4. Fine(m) BY <1>2, <1>3, <2>1, <2>2 DEF Fine, Digesting
  <2> QED BY <1>3, <2>2, <2>3, <2>4
<1>4. CASE ~process[p].digest
  <2>1. m = Idle BY <1>4
  <2>2. process'[p] = Idle /\ Others(p) BY <1>1, <2>1, IdleIsMemory, Change
  <2> QED BY <2>2, IdleIsFine
<1> QED BY <1>3, <1>4

\* The row at the head is set; then the next one, or the process goes on.
LEMMA WriteDoes ==
  ASSUME TypeInv, NEW p \in Processes, Write(p)
  PROVE  LET w == process[p].writes IN
         /\ UNCHANGED <<day, hasMail, outVars, runs, faults, kills, overlap>>
         /\ Others(p) /\ Fine(process'[p]) /\ process[p].pc = "write"
         /\ w \in Seq(Rows) /\ Len(w) \in Nat \ {0} /\ DOMAIN w = 1..Len(w) /\ w[1] \in Rows
         /\ state' = Set(state, w[1])
         /\ \/ /\ Len(w) > 1 /\ process'[p].pc = "write" /\ process'[p].writes = Tail(w)
               /\ process'[p].then = process[p].then /\ process'[p].day = process[p].day
               /\ process'[p].date = process[p].date /\ process'[p].text = process[p].text
               /\ process'[p].digest = process[p].digest
               /\ DOMAIN Tail(w) = 1..(Len(w) - 1)
               /\ \A i \in DOMAIN Tail(w) : i + 1 \in DOMAIN w /\ Tail(w)[i] = w[i + 1]
            \/ Len(w) = 1 /\ process'[p] = Idle /\ process[p].then = "idle"
            \/ /\ Len(w) = 1 /\ process'[p].pc = process[p].then /\ process[p].then # "idle"
               /\ process'[p].writes = << >> /\ process'[p].day = process[p].day
               /\ process'[p].date = process[p].date /\ process'[p].text = process[p].text
               /\ process'[p].digest = process[p].digest
<1> DEFINE w == process[p].writes
<1>1. /\ process[p].pc = "write" /\ UNCHANGED <<day, hasMail, outVars, runs, faults, kills, overlap>>
      /\ state' = [k \in DOMAIN state |-> IF k = Head(w).key THEN Head(w).value ELSE state[k]]
  BY DEF Write
<1>2. process[p] \in Memories /\ Fine(process[p]) /\ w \in Seq(Rows) BY Parts, Fields DEF TypeInv
<1>3. w # << >> BY <1>1, <1>2 DEF Fine
<1>4. /\ Len(w) \in Nat \ {0} /\ DOMAIN w = 1..Len(w) /\ Head(w) = w[1] /\ w[1] \in Rows
      /\ Tail(w) \in Seq(Rows) /\ Len(Tail(w)) = Len(w) - 1
      /\ \A i \in 1..Len(Tail(w)) : Tail(w)[i] = w[i + 1]
  <2> HIDE DEF w
  <2>1. Len(w) \in Nat /\ DOMAIN w = 1..Len(w) BY <1>2, LenProperties
  <2>2. Len(w) # 0 BY <1>2, <1>3, EmptySeq
  <2>3. Head(w) = w[1] OBVIOUS
  <2>4. w[1] \in Rows BY <1>2, <2>1, <2>2, ElementOfSeq
  <2> QED BY <1>2, <1>3, <2>1, <2>2, <2>3, <2>4, HeadTailProperties
<1>5. state' = Set(state, w[1]) BY <1>1, <1>4 DEF Set
<1>6. CASE Len(w) > 1
  <2> DEFINE m == [process[p] EXCEPT !.writes = Tail(w)]
  <2>1. process' = [process EXCEPT ![p] = m] BY <1>6, Parts DEF Write
  <2>2. m \in Memories BY <1>2, <1>4 DEF Memories
  <2>3. /\ m.pc = process[p].pc /\ m.writes = Tail(w) /\ m.then = process[p].then
        /\ m.day = process[p].day /\ m.date = process[p].date /\ m.text = process[p].text
        /\ m.digest = process[p].digest
    BY <1>2 DEF Memories
  <2> HIDE DEF m, w
  <2>4. process'[p] = m /\ Others(p) BY <2>1, <2>2, Change
  <2>5. Tail(w) # << >>
    <3>1. Len(Tail(w)) # 0 BY <1>4, <1>6
    <3> QED BY <1>4, <3>1, EmptySeq
  <2>6. Fine(m) BY <1>1, <1>2, <2>2, <2>3, <2>5 DEF Fine, Digesting
  <2>7. DOMAIN Tail(w) = 1..(Len(w) - 1) BY <1>4, LenProperties
  <2>8. \A i \in DOMAIN Tail(w) : i + 1 \in DOMAIN w /\ Tail(w)[i] = w[i + 1] BY <1>4, <2>7
  <2> QED BY <1>1, <1>2, <1>4, <1>5, <1>6, <2>3, <2>4, <2>6, <2>7, <2>8 DEF w
<1>7. CASE Len(w) = 1 /\ process[p].then = "idle"
  <2>1. process' = [process EXCEPT ![p] = Idle] BY <1>7 DEF Write
  <2>2. process'[p] = Idle /\ Others(p) BY <2>1, IdleIsMemory, Change
  <2> QED BY <1>1, <1>2, <1>4, <1>5, <1>7, <2>2, IdleIsFine
<1>8. CASE Len(w) = 1 /\ process[p].then # "idle"
  <2> DEFINE m == [process[p] EXCEPT !.writes = << >>, !.pc = process[p].then, !.then = "idle"]
  <2>1. process' = [process EXCEPT ![p] = m]
    <3>1. ~(Len(process[p].writes) > 1) BY <1>8
    <3>2. process' = [process EXCEPT ![p].writes = << >>, ![p].pc = process[p].then,
                                     ![p].then = "idle"]
      BY <1>8, <3>1, Zenon DEF Write
    <3> QED BY <3>2, Parts
  <2>2. process[p].then \in {"core", "check", "phone"} /\ << >> \in Seq(Rows)
    BY <1>2, <1>8, Fields, EmptySeq
  <2>3. m \in Memories BY <1>2, <2>2 DEF Memories
  <2>4. /\ m.pc = process[p].then /\ m.writes = << >> /\ m.day = process[p].day
        /\ m.date = process[p].date /\ m.text = process[p].text /\ m.digest = process[p].digest
    BY <1>2 DEF Memories
  <2> HIDE DEF m, w
  <2>5. process'[p] = m /\ Others(p) BY <2>1, <2>3, Change
  <2>6. Fine(m) BY <1>1, <1>2, <2>2, <2>3, <2>4 DEF Fine, Digesting
  <2> QED BY <1>1, <1>2, <1>4, <1>5, <1>8, <2>4, <2>5, <2>6 DEF w
<1>9. Len(w) > 1 \/ (Len(w) = 1 /\ process[p].then = "idle")
        \/ (Len(w) = 1 /\ process[p].then # "idle")
  <2>1. Len(w) > 1 \/ Len(w) = 1
    <3> HIDE DEF w
    <3> QED BY <1>4
  <2> QED BY <2>1
<1> QED BY <1>6, <1>7, <1>8, <1>9

\* One row before other rows.
LEMMA HeadFirst ==
  ASSUME NEW S, NEW a \in S, NEW s \in Seq(S)
  PROVE  /\ <<a>> \o s \in Seq(S) /\ Len(<<a>> \o s) = 1 + Len(s) /\ (<<a>> \o s)[1] = a
         /\ \A i \in 1..Len(s) : (<<a>> \o s)[i + 1] = s[i]
<1> DEFINE t == <<a>>
<1>1. Len(t) = 1 /\ t[1] = a /\ t \in Seq(S) OBVIOUS
<1>2. Len(s) \in Nat BY LenProperties
<1> HIDE DEF t
<1>3. /\ t \o s \in Seq(S) /\ Len(t \o s) = 1 + Len(s) /\ (t \o s)[1] = a
      /\ \A i \in 1..Len(s) : (t \o s)[i + 1] = s[i]
  BY <1>1, <1>2, ConcatProperties
<1> QED BY <1>3 DEF t

LEMMA Cons ==
  ASSUME NEW S, NEW a \in S, NEW s \in Seq(S), NEW u \in Seq(S),
         u[1] = a, Len(u) = Len(s) + 1, \A i \in 1..Len(s) : u[i + 1] = s[i]
  PROVE  <<a>> \o s = u
<1> DEFINE v == <<a>> \o s
<1>1. Len(s) \in Nat BY LenProperties
<1>2. /\ v \in Seq(S) /\ Len(v) = 1 + Len(s) /\ v[1] = a
      /\ \A i \in 1..Len(s) : v[i + 1] = s[i]
  BY HeadFirst
<1> HIDE DEF v
<1>3. ASSUME NEW i \in 1..Len(s) + 1 PROVE v[i] = u[i]
  <2>1. CASE i = 1 BY <1>2, <2>1
  <2>2. CASE i # 1
    <3>1. i - 1 \in 1..Len(s) /\ (i - 1) + 1 = i BY <1>1, <2>2
    <3>2. u[(i - 1) + 1] = s[i - 1] BY <3>1
    <3>3. v[(i - 1) + 1] = s[i - 1] BY <1>2, <3>1
    <3> QED BY <3>1, <3>2, <3>3
  <2> QED BY <2>1, <2>2
<1>4. v = u BY <1>1, <1>2, <1>3, SeqEqual
<1> QED BY <1>4 DEF v

LEMMA One ==
  ASSUME NEW S, NEW a \in S
  PROVE  /\ <<a>> \in Seq(S) /\ <<a>> # << >> /\ Len(<<a>>) = 1 /\ DOMAIN <<a>> = 1..1
         /\ <<a>>[1] = a
OBVIOUS

LEMMA Two ==
  ASSUME NEW S, NEW a \in S, NEW b \in S
  PROVE  /\ <<a, b>> \in Seq(S) /\ <<a, b>> # << >> /\ Len(<<a, b>>) = 2 /\ DOMAIN <<a, b>> = 1..2
         /\ <<a, b>>[1] = a /\ <<a, b>>[2] = b
OBVIOUS

LEMMA Three ==
  ASSUME NEW S, NEW a \in S, NEW b \in S, NEW c \in S
  PROVE  /\ <<a, b, c>> \in Seq(S) /\ <<a, b, c>> # << >> /\ Len(<<a, b, c>>) = 3
         /\ DOMAIN <<a, b, c>> = 1..3
         /\ <<a, b, c>>[1] = a /\ <<a, b, c>>[2] = b /\ <<a, b, c>>[3] = c
OBVIOUS

LEMMA Four ==
  ASSUME NEW S, NEW a \in S, NEW b \in S, NEW c \in S, NEW d \in S
  PROVE  /\ <<a, b, c, d>> \in Seq(S) /\ <<a, b, c, d>> # << >> /\ Len(<<a, b, c, d>>) = 4
         /\ DOMAIN <<a, b, c, d>> = 1..4
         /\ <<a, b, c, d>>[1] = a /\ <<a, b, c, d>>[2] = b
         /\ <<a, b, c, d>>[3] = c /\ <<a, b, c, d>>[4] = d
OBVIOUS

\* The rows of each set of writes, one by one.
LEMMA MarkSentRows ==
  ASSUME NEW text \in Texts
  PROVE  /\ MarkSent(text) = IF text.plan THEN <<Row("sent", text.day), Row("month", TRUE)>>
                             ELSE <<Row("sent", text.day)>>
         /\ MarkSent(text) \in Seq(Rows) /\ MarkSent(text) # << >>
<1>1. Row("sent", text.day) \in Rows /\ Row("month", TRUE) \in Rows BY DEF Texts, Row, Rows
<1> DEFINE s == <<Row("month", TRUE)>>
           u == <<Row("sent", text.day), Row("month", TRUE)>>
           v == <<Row("sent", text.day)>>
<1>2. /\ s \in Seq(Rows) /\ u \in Seq(Rows) /\ Len(s) = 1 /\ Len(u) = 2 /\ u[1] = Row("sent", text.day)
      /\ u[2] = s[1]
  BY <1>1, One, Two
<1>3. u # << >> /\ v \in Seq(Rows) /\ v # << >> BY <1>1, One, Two
<1>4. <<Row("sent", text.day)>> \o s = u
  <2> HIDE DEF s, u
  <2>1. Len(u) = Len(s) + 1 /\ \A i \in 1..Len(s) : u[i + 1] = s[i]
    <3>1. \A i \in 1..Len(s) : i = 1 BY <1>2
    <3> QED BY <1>2, <3>1
  <2> QED BY <1>1, <1>2, <2>1, Cons
<1>5. <<Row("sent", text.day)>> \o << >> = v BY <1>3, ConcatEmptySeq
<1>6. MarkSent(text) = IF text.plan THEN u ELSE v BY <1>4, <1>5, Zenon DEF MarkSent
<1> HIDE DEF u, v
<1>7. MarkSent(text) \in Seq(Rows) /\ MarkSent(text) # << >> BY <1>2, <1>3, <1>6
<1> QED BY <1>6, <1>7 DEF u, v

LEMMA ClearRows ==
  /\ Row("date", 0) \in Rows /\ Row("text", NoText) \in Rows /\ Row("core", FALSE) \in Rows
  /\ Row("month", TRUE) \in Rows
  /\ ClearPending \in Seq(Rows) /\ ClearPending # << >>
<1>1. /\ Row("date", 0) \in Rows /\ Row("text", NoText) \in Rows /\ Row("core", FALSE) \in Rows
      /\ Row("month", TRUE) \in Rows
  BY NoTextIsText, Bounds DEF Row, Rows
<1>2. ClearPending \in Seq(Rows) BY <1>1, Three DEF ClearPending
<1>3. ClearPending # << >> BY DEF ClearPending
<1> QED BY <1>1, <1>2, <1>3

LEMMA StoreRows ==
  ASSUME NEW d \in 0..MaxDay, NEW text \in Texts, NEW core \in BOOLEAN
  PROVE  StorePending(d, text, core) \in Seq(Rows) /\ StorePending(d, text, core) # << >>
<1>1. Row("date", d) \in Rows /\ Row("text", text) \in Rows /\ Row("core", core) \in Rows
  BY DEF Row, Rows
<1> QED BY <1>1 DEF StorePending

CoreRows == (IF state.core THEN <<Row("month", TRUE)>> ELSE << >>) \o ClearPending

LEMMA CoreRowsAre ==
  /\ CoreRows = IF state.core
                  THEN <<Row("month", TRUE), Row("date", 0), Row("text", NoText), Row("core", FALSE)>>
                  ELSE <<Row("date", 0), Row("text", NoText), Row("core", FALSE)>>
  /\ CoreRows \in Seq(Rows) /\ CoreRows # << >>
<1> DEFINE u == <<Row("month", TRUE), Row("date", 0), Row("text", NoText), Row("core", FALSE)>>
           v == <<Row("date", 0), Row("text", NoText), Row("core", FALSE)>>
<1>1. /\ v = ClearPending /\ v \in Seq(Rows) /\ v # << >> /\ Row("month", TRUE) \in Rows
  BY ClearRows DEF ClearPending
<1>2. /\ u \in Seq(Rows) /\ u # << >> /\ Len(u) = 4 /\ Len(v) = 3 /\ u[1] = Row("month", TRUE)
      /\ u[2] = v[1] /\ u[3] = v[2] /\ u[4] = v[3]
  BY ClearRows, Three, Four
<1>3. <<Row("month", TRUE)>> \o v = u
  <2> HIDE DEF u, v
  <2>1. Len(u) = Len(v) + 1 BY <1>2
  <2>2. ASSUME NEW i \in 1..Len(v) PROVE u[i + 1] = v[i]
    <3>1. i = 1 \/ i = 2 \/ i = 3 BY <1>2
    <3> QED BY <1>2, <3>1
  <2> QED BY <1>1, <1>2, <2>1, <2>2, Cons
<1>4. << >> \o v = v
  <2> HIDE DEF v
  <2> QED BY <1>1, ConcatEmptySeq
<1> HIDE DEF u, v
<1>5. CoreRows = IF state.core THEN u ELSE v BY <1>1, <1>3, <1>4, Zenon DEF CoreRows
<1>6. CoreRows \in Seq(Rows) /\ CoreRows # << >> BY <1>1, <1>2, <1>5
<1> QED BY <1>5, <1>6 DEF u, v

LEMMA RowIs ==
  ASSUME NEW key, NEW value
  PROVE  Row(key, value).key = key /\ Row(key, value).value = value
BY DEF Row

LEMMA FixedRows ==
  /\ Row("date", 0).key = "date" /\ Row("date", 0).value = 0
  /\ Row("text", NoText).key = "text" /\ Row("text", NoText).value = NoText
  /\ Row("core", FALSE).key = "core" /\ Row("month", TRUE).key = "month"
BY DEF Row

LEMMA ClearIs ==
  /\ DOMAIN ClearPending = 1..3
  /\ ClearPending[1].key = "date" /\ ClearPending[1].value = 0
  /\ ClearPending[2].key = "text" /\ ClearPending[2].value = NoText
  /\ ClearPending[3].key = "core"
  /\ ClearPending[3] = Row("core", FALSE) /\ Len(ClearPending) = 3
<1>1. /\ DOMAIN ClearPending = 1..3
      /\ ClearPending[1] = Row("date", 0) /\ ClearPending[2] = Row("text", NoText)
      /\ ClearPending[3] = Row("core", FALSE) /\ Len(ClearPending) = 3
  BY ClearRows, Three DEF ClearPending
<1> QED BY <1>1, FixedRows

LEMMA StoreIs ==
  ASSUME NEW d \in 0..MaxDay, NEW text \in Texts, NEW core \in BOOLEAN
  PROVE  LET rows == StorePending(d, text, core) IN
         /\ DOMAIN rows = 1..3
         /\ rows[1].key = "date" /\ rows[1].value = d
         /\ rows[2].key = "text" /\ rows[2].value = text /\ rows[3].key = "core"
         /\ rows[3] = Row("core", core) /\ Len(rows) = 3
<1>1. Row("date", d) \in Rows /\ Row("text", text) \in Rows /\ Row("core", core) \in Rows
  BY DEF Row, Rows
<1> DEFINE rows == StorePending(d, text, core)
<1>2. /\ DOMAIN rows = 1..3 /\ rows[1] = Row("date", d) /\ rows[2] = Row("text", text)
      /\ rows[3] = Row("core", core) /\ Len(rows) = 3
  BY <1>1, Three DEF StorePending
<1> HIDE DEF rows
<1>3. /\ rows[1].key = "date" /\ rows[1].value = d
      /\ rows[2].key = "text" /\ rows[2].value = text /\ rows[3].key = "core"
  BY <1>2, RowIs
<1> QED BY <1>2, <1>3 DEF rows

LEMMA CoreIs ==
  \/ /\ DOMAIN CoreRows = 1..4
     /\ CoreRows[1].key = "month" /\ CoreRows[2].key = "date" /\ CoreRows[2].value = 0
     /\ CoreRows[3].key = "text" /\ CoreRows[3].value = NoText /\ CoreRows[4].key = "core"
     /\ CoreRows[4] = Row("core", FALSE) /\ Len(CoreRows) = 4 /\ state.core
  \/ /\ DOMAIN CoreRows = 1..3
     /\ CoreRows[1].key = "date" /\ CoreRows[1].value = 0
     /\ CoreRows[2].key = "text" /\ CoreRows[2].value = NoText /\ CoreRows[3].key = "core"
     /\ CoreRows[3] = Row("core", FALSE) /\ Len(CoreRows) = 3
<1>1. CASE state.core
  <2>1. CoreRows = <<Row("month", TRUE), Row("date", 0), Row("text", NoText), Row("core", FALSE)>>
    BY <1>1, CoreRowsAre, Zenon
  <2>2. /\ DOMAIN CoreRows = 1..4 /\ CoreRows[1] = Row("month", TRUE) /\ CoreRows[2] = Row("date", 0)
        /\ CoreRows[3] = Row("text", NoText) /\ CoreRows[4] = Row("core", FALSE) /\ Len(CoreRows) = 4
    BY <2>1, ClearRows, Four
  <2> QED BY <1>1, <2>2, FixedRows
<1>2. CASE ~state.core
  <2>1. CoreRows = <<Row("date", 0), Row("text", NoText), Row("core", FALSE)>>
    BY <1>2, CoreRowsAre, Zenon
  <2>2. /\ DOMAIN CoreRows = 1..3 /\ CoreRows[1] = Row("date", 0)
        /\ CoreRows[2] = Row("text", NoText) /\ CoreRows[3] = Row("core", FALSE) /\ Len(CoreRows) = 3
    BY <2>1, ClearRows, Three
  <2> QED BY <2>2, FixedRows
<1> QED BY <1>1, <1>2

LEMMA MarkIs ==
  ASSUME NEW text \in Texts
  PROVE  LET rows == MarkSent(text) IN
         /\ \/ DOMAIN rows = 1..1 /\ Len(rows) = 1
            \/ DOMAIN rows = 1..2 /\ Len(rows) = 2 /\ rows[2].key = "month" /\ text.plan
         /\ rows[1].key = "sent" /\ rows[1].value = text.day
<1>1. Row("sent", text.day) \in Rows /\ Row("month", TRUE) \in Rows BY DEF Texts, Row, Rows
<1>2. CASE text.plan
  <2>1. MarkSent(text) = <<Row("sent", text.day), Row("month", TRUE)>>
    BY <1>2, MarkSentRows, Zenon
  <2>2. /\ DOMAIN MarkSent(text) = 1..2 /\ Len(MarkSent(text)) = 2 /\ MarkSent(text)[1] = Row("sent", text.day)
        /\ MarkSent(text)[2] = Row("month", TRUE)
    BY <1>1, <2>1, Two
  <2>3. Row("sent", text.day).key = "sent" /\ Row("sent", text.day).value = text.day BY RowIs
  <2> QED BY <1>2, <2>2, <2>3, FixedRows
<1>3. CASE ~text.plan
  <2>1. MarkSent(text) = <<Row("sent", text.day)>> BY <1>3, MarkSentRows, Zenon
  <2>2. /\ DOMAIN MarkSent(text) = 1..1 /\ Len(MarkSent(text)) = 1
        /\ MarkSent(text)[1] = Row("sent", text.day)
    BY <1>1, <2>1, One
  <2> QED BY <2>2, RowIs
<1> QED BY <1>2, <1>3

-----------------------------------------------------------------------------
(* The steps that read and send.                                           *)

LEMMA NoWrites ==
  ASSUME TypeInv, NEW p \in Processes, process[p].pc # "write"
  PROVE  process[p].writes = << >>
BY DEF TypeInv, Fine

LEMMA StartDoes ==
  ASSUME TypeInv, NEW p \in Processes, Start(p)
  PROVE  /\ UNCHANGED <<day, hasMail, state, outVars, faults, kills>> /\ process[p].pc = "idle"
         /\ overlap' = (overlap \/ \E q \in Processes : process[q].pc # "idle")
         /\ runs' \in 0..MaxRuns
         /\ Others(p) /\ Fine(process'[p])
         /\ process'[p].pc = "date" /\ process'[p].day = day /\ process'[p].text = NoText
         /\ process'[p].writes = << >> /\ (p = "intraday" => ~process'[p].digest)
<1>1. PICK digest \in IF p = "daily" THEN BOOLEAN ELSE {FALSE} :
        process' = [process EXCEPT ![p] =
                      [Idle EXCEPT !.pc = "date", !.digest = digest, !.day = day]]
  BY DEF Start
<1> DEFINE m == [Idle EXCEPT !.pc = "date", !.digest = digest, !.day = day]
<1>2. day \in 1..MaxDay /\ day \in Nat BY Parts
<1>3. day \in 0..MaxDay BY <1>2, Bounds
<1>4. m \in Memories
  <2>1. digest \in BOOLEAN OBVIOUS
  <2> QED BY <1>3, <2>1, IdleIsMemory DEF Memories
<1>5. /\ m.pc = "date" /\ m.day = day /\ m.text = NoText /\ m.writes = << >>
      /\ p = "intraday" => ~m.digest
  BY DEF Idle
<1>6. process' = [process EXCEPT ![p] = m] BY <1>1
<1> HIDE DEF m
<1>7. process'[p] = m /\ Others(p) BY <1>4, <1>6, Change
<1>8. Fine(m) BY <1>2, <1>4, <1>5 DEF Fine, Digesting
<1>9. /\ UNCHANGED <<day, hasMail, state, outVars, faults, kills>> /\ process[p].pc = "idle"
      /\ overlap' = (overlap \/ \E q \in Processes : process[q].pc # "idle")
      /\ runs < MaxRuns /\ runs' = runs + 1
  BY DEF Start
<1>10. runs' \in 0..MaxRuns BY <1>9, Bounds DEF TypeInv, TypeOK
<1> QED BY <1>5, <1>7, <1>8, <1>9, <1>10

LEMMA ReadDateDoes ==
  ASSUME TypeInv, NEW p \in Processes, ReadDate(p)
  PROVE  /\ UNCHANGED <<day, hasMail, state, outVars, runs, faults, kills, overlap>>
         /\ process[p].pc = "date" /\ Others(p) /\ Fine(process'[p])
         /\ process'[p].writes = << >>
         /\ \/ process'[p] = Idle
            \/ /\ state.date = 0 /\ process'[p].pc = "check" /\ process'[p].day = process[p].day
               /\ process'[p].text = process[p].text
               /\ process[p].digest /\ process'[p].digest
            \/ /\ process'[p].pc = "text" /\ process'[p].day = process[p].day
               /\ process'[p].text = process[p].text /\ process'[p].date = state.date
               /\ state.date # 0 /\ process'[p].digest = process[p].digest
<1>1. /\ UNCHANGED <<day, hasMail, state, outVars, runs, faults, kills, overlap>>
      /\ process[p].pc = "date" /\ process[p].writes = << >>
  BY NoWrites DEF ReadDate
<1>2. CASE state.date = 0
  <2>1. Leave(p) BY <1>2 DEF ReadDate
  <2> QED BY <1>1, <1>2, <2>1, LeaveDoes, IdleIsMemory
<1>3. CASE state.date # 0
  <2> DEFINE m == [process[p] EXCEPT !.pc = "text", !.date = state.date]
  <2>1. process' = [process EXCEPT ![p].pc = "text", ![p].date = state.date]
    BY <1>3, Zenon DEF ReadDate
  <2>2. process' = [process EXCEPT ![p] = m] BY <2>1, Parts
  <2>3. process[p] \in Memories /\ Fine(process[p]) /\ state.date \in 0..MaxDay BY Parts DEF TypeInv
  <2>4. m \in Memories BY <2>3 DEF Memories
  <2>5. /\ m.pc = "text" /\ m.date = state.date /\ m.day = process[p].day /\ m.text = process[p].text
        /\ m.writes = process[p].writes /\ m.digest = process[p].digest
    BY <2>3 DEF Memories
  <2> HIDE DEF m
  <2>6. process'[p] = m /\ Others(p) BY <2>2, <2>4, Change
  <2>7. Fine(m) BY <1>1, <2>3, <2>4, <2>5 DEF Fine, Digesting
  <2> QED BY <1>1, <1>3, <2>5, <2>6, <2>7
<1> QED BY <1>2, <1>3

LEMMA ReadTextDoes ==
  ASSUME TypeInv, NEW p \in Processes, ReadText(p)
  PROVE  /\ UNCHANGED <<day, hasMail, state, outVars, runs, faults, kills, overlap>>
         /\ process[p].pc = "text" /\ Others(p) /\ Fine(process'[p])
         /\ process'[p].day = process[p].day /\ process'[p].date = process[p].date
         /\ process'[p].digest = process[p].digest
         /\ \/ /\ process'[p].pc = "resend" /\ process'[p].writes = << >>
               /\ process'[p].text = state.text /\ state.text # NoText
               /\ process[p].date = process[p].day
            \/ /\ process'[p].pc = "write" /\ process'[p].writes = ClearPending
               /\ process'[p].then \in {"check", "idle"} /\ process'[p].text = process[p].text
<1>1. /\ UNCHANGED <<day, hasMail, state, outVars, runs, faults, kills, overlap>>
      /\ process[p].pc = "text" /\ process[p].writes = << >>
  BY NoWrites DEF ReadText
<1>2. CASE Sendable(p)
  <2> DEFINE m == [process[p] EXCEPT !.pc = "resend", !.text = state.text]
  <2>1. process' = [process EXCEPT ![p].pc = "resend", ![p].text = state.text]
    BY <1>2, Zenon DEF ReadText
  <2>2. process' = [process EXCEPT ![p] = m] BY <2>1, Parts
  <2>3. process[p] \in Memories /\ Fine(process[p]) /\ state.text \in Texts BY Parts DEF TypeInv
  <2>4. m \in Memories BY <2>3 DEF Memories
  <2>5. /\ m.pc = "resend" /\ m.date = process[p].date /\ m.day = process[p].day
        /\ m.text = state.text /\ m.writes = process[p].writes /\ m.digest = process[p].digest
    BY <2>3 DEF Memories
  <2> HIDE DEF m
  <2>6. process'[p] = m /\ Others(p) BY <2>2, <2>4, Change
  <2>7. Fine(m) BY <1>1, <2>3, <2>4, <2>5 DEF Fine, Digesting
  <2> QED BY <1>1, <1>2, <2>5, <2>6, <2>7 DEF Sendable
<1>3. CASE ~Sendable(p)
  <2>1. WriteThen(p, ClearPending, Resent(p)) BY <1>3 DEF ReadText
  <2>2. /\ Resent(p) \in {"idle", "core", "check", "phone"} /\ Resent(p) \in {"check", "idle"}
        /\ Resent(p) \in {"check", "phone"} => process[p].digest
    BY DEF Resent
  <2>3. /\ Others(p) /\ Fine(process'[p])
        /\ process'[p].pc = "write" /\ process'[p].writes = ClearPending
        /\ process'[p].then = Resent(p) /\ process'[p].day = process[p].day
        /\ process'[p].date = process[p].date /\ process'[p].text = process[p].text
        /\ process'[p].digest = process[p].digest
    BY <1>1, <2>1, <2>2, ClearRows, WriteThenDoes
  <2> QED BY <1>1, <2>2, <2>3
<1> QED BY <1>2, <1>3

LEMMA ArrivesDoes ==
  ASSUME TypeInv, NEW text \in Texts, Arrives(text) \/ UNCHANGED <<delivered, planShown>>
  PROVE  /\ delivered' \in [1..MaxDay -> Nat] /\ planShown' \in BOOLEAN
         /\ planShown => planShown'
         /\ \A d \in 1..MaxDay : delivered[d] > 0 => delivered'[d] > 0
         /\ Arrives(text) => /\ text.plan => planShown'
                             /\ text.day > 0 => delivered'[text.day] > 0
<1>1. text.day \in 0..MaxDay /\ text.plan \in BOOLEAN BY DEF Texts
<1>2. delivered \in [1..MaxDay -> Nat] /\ planShown \in BOOLEAN BY Parts
<1>3. CASE Arrives(text)
  <2>1. /\ delivered' = [delivered EXCEPT ![text.day] = delivered[text.day] + 1]
        /\ planShown' = (planShown \/ text.plan)
    BY <1>3 DEF Arrives
  <2>2. \A d \in 1..MaxDay :
          delivered'[d] = IF d = text.day THEN delivered[d] + 1 ELSE delivered[d]
    BY <1>2, <2>1
  <2>3. \A d \in 1..MaxDay : /\ delivered'[d] \in Nat /\ delivered[d] > 0 => delivered'[d] > 0
                             /\ d = text.day => delivered'[d] > 0
    BY <1>2, <2>2
  <2>4. delivered' \in [1..MaxDay -> Nat]
    <3>1. delivered' = [d \in 1..MaxDay |-> delivered'[d]] BY <1>2, <2>1
    <3>2. \A d \in 1..MaxDay : delivered'[d] \in Nat BY <1>2, <2>2
    <3> QED BY <3>1, <3>2
  <2>5. text.day > 0 => text.day \in 1..MaxDay BY <1>1, Bounds
  <2>6. planShown' \in BOOLEAN /\ (planShown => planShown') /\ (text.plan => planShown')
    BY <1>1, <1>2, <2>1
  <2> QED BY <2>3, <2>4, <2>5, <2>6
<1>4. CASE UNCHANGED <<delivered, planShown>> /\ ~Arrives(text) BY <1>2, <1>4
<1> QED BY <1>3, <1>4

LEMMA ResendDoes ==
  ASSUME TypeInv, NEW p \in Processes, Resend(p)
  PROVE  /\ UNCHANGED <<day, hasMail, state, mailed, runs, faults, kills, overlap>>
         /\ process[p].pc = "resend" /\ Arrives(process[p].text)
         /\ Others(p) /\ Fine(process'[p]) /\ process'[p].pc = "write"
         /\ process'[p].writes = <<Row("sent", process[p].date)>> /\ process'[p].then = "core"
         /\ process'[p].day = process[p].day /\ process'[p].date = process[p].date
         /\ process'[p].text = process[p].text /\ process'[p].digest = process[p].digest
<1>1. /\ UNCHANGED <<day, hasMail, state, mailed, runs, faults, kills, overlap>>
      /\ process[p].pc = "resend" /\ Arrives(process[p].text)
      /\ WriteThen(p, <<Row("sent", process[p].date)>>, "core")
  BY DEF Resend
<1>2. process[p].date \in 0..MaxDay BY Parts, Fields
<1>3. Row("sent", process[p].date) \in Rows BY <1>2 DEF Row, Rows
<1>4. /\ <<Row("sent", process[p].date)>> \in Seq(Rows)
      /\ <<Row("sent", process[p].date)>> # << >>
  BY <1>3
<1> QED BY <1>1, <1>4, WriteThenDoes

LEMMA ResendFailsDoes ==
  ASSUME TypeInv, NEW p \in Processes, ResendFails(p)
  PROVE  /\ UNCHANGED <<day, hasMail, state, mailed, runs, kills, overlap>>
         /\ faults' \in 0..MaxFaults /\ faults' = faults + 1 /\ process[p].pc = "resend"
         /\ Arrives(process[p].text) \/ UNCHANGED <<delivered, planShown>>
         /\ Others(p) /\ Fine(process'[p])
         /\ \/ process'[p] = Idle
            \/ /\ process'[p].pc = "check" /\ process'[p].day = process[p].day
               /\ process'[p].text = process[p].text /\ process'[p].writes = << >>
               /\ process[p].digest /\ process'[p].digest
<1>1. /\ UNCHANGED <<day, hasMail, state, mailed, runs, kills, overlap>>
      /\ faults < MaxFaults /\ faults' = faults + 1 /\ process[p].pc = "resend"
      /\ Arrives(process[p].text) \/ UNCHANGED <<delivered, planShown>>
      /\ Leave(p)
  BY DEF ResendFails, Fault
<1>2. faults' \in 0..MaxFaults BY <1>1, Bounds, Parts
<1>3. process[p].writes = << >> BY <1>1, NoWrites
<1> QED BY <1>1, <1>2, <1>3, LeaveDoes

LEMMA ReadCoreDoes ==
  ASSUME TypeInv, NEW p \in Processes, ReadCore(p)
  PROVE  /\ UNCHANGED <<day, hasMail, state, outVars, runs, faults, kills, overlap>>
         /\ process[p].pc = "core" /\ Others(p) /\ Fine(process'[p])
         /\ process'[p].pc = "write" /\ process'[p].writes = CoreRows
         /\ process'[p].then \in {"check", "idle"} /\ process'[p].day = process[p].day
         /\ process'[p].date = process[p].date /\ process'[p].text = process[p].text
         /\ process'[p].digest = process[p].digest
<1>1. /\ UNCHANGED <<day, hasMail, state, outVars, runs, faults, kills, overlap>>
      /\ process[p].pc = "core" /\ WriteThen(p, CoreRows, Resent(p))
  BY DEF ReadCore, CoreRows
<1>2. /\ Resent(p) \in {"idle", "core", "check", "phone"} /\ Resent(p) \in {"check", "idle"}
      /\ Resent(p) \in {"check", "phone"} => process[p].digest
  BY DEF Resent
<1>3. CoreRows \in Seq(Rows) /\ CoreRows # << >> BY CoreRowsAre
<1> QED BY <1>1, <1>2, <1>3, WriteThenDoes

LEMMA CheckDoes ==
  ASSUME TypeInv, NEW p \in Processes, Check(p)
  PROVE  /\ UNCHANGED <<day, hasMail, state, outVars, runs, faults, kills, overlap>>
         /\ process[p].pc = "check" /\ Others(p) /\ Fine(process'[p])
         /\ process'[p].writes = << >>
         /\ \/ process'[p] = Idle
            \/ /\ process'[p].pc = "collect" /\ process'[p].day = process[p].day
               /\ process'[p].text = process[p].text /\ process'[p].digest = process[p].digest
               /\ state.sent # process[p].day
<1>1. /\ UNCHANGED <<day, hasMail, state, outVars, runs, faults, kills, overlap>>
      /\ process[p].pc = "check" /\ process[p].writes = << >>
      /\ process' = [process EXCEPT ![p] =
           IF Skip(p) THEN Idle ELSE [process[p] EXCEPT !.pc = "collect"]]
  BY NoWrites DEF Check
<1>2. CASE Skip(p)
  <2>1. process' = [process EXCEPT ![p] = Idle] BY <1>1, <1>2
  <2> QED BY <1>1, <2>1, IdleIsMemory, IdleIsFine, Change
<1>3. CASE ~Skip(p)
  <2> DEFINE m == [process[p] EXCEPT !.pc = "collect"]
  <2>1. process' = [process EXCEPT ![p] = m] BY <1>1, <1>3
  <2>2. process[p] \in Memories /\ Fine(process[p]) BY Parts DEF TypeInv
  <2>3. m \in Memories BY <2>2 DEF Memories
  <2>4. /\ m.pc = "collect" /\ m.day = process[p].day /\ m.text = process[p].text
        /\ m.writes = process[p].writes /\ m.digest = process[p].digest
    BY <2>2 DEF Memories
  <2> HIDE DEF m
  <2>5. process'[p] = m /\ Others(p) BY <2>1, <2>3, Change
  <2>6. Fine(m) BY <1>1, <2>2, <2>3, <2>4 DEF Fine, Digesting
  <2>7. state.sent # process[p].day BY <1>3 DEF Skip
  <2> QED BY <1>1, <2>4, <2>5, <2>6, <2>7
<1> QED BY <1>2, <1>3

LEMMA CollectDoes ==
  ASSUME TypeInv, NEW p \in Processes, Collect(p)
  PROVE  /\ UNCHANGED <<day, hasMail, state, outVars, runs, faults, kills, overlap>>
         /\ process[p].pc = "collect" /\ Others(p) /\ Fine(process'[p])
         /\ process'[p].writes = << >> /\ process'[p].pc \in {"mail", "phone"}
         /\ process'[p].day = process[p].day /\ process'[p].text.day = process[p].day
         /\ process'[p].day > 0 /\ process'[p].digest = process[p].digest
<1>0. PICK plan \in BOOLEAN :
        /\ plan => ~state.month
        /\ process' = [process EXCEPT
             ![p].text = [day |-> process[p].day, plan |-> plan],
             ![p].pc = IF hasMail THEN "mail" ELSE "phone"]
  BY DEF Collect
<1> DEFINE text == [day |-> process[p].day, plan |-> plan]
           pc == IF hasMail THEN "mail" ELSE "phone"
           m == [process[p] EXCEPT !.text = text, !.pc = pc]
<1>1. /\ UNCHANGED <<day, hasMail, state, outVars, runs, faults, kills, overlap>>
      /\ process[p].pc = "collect" /\ process[p].writes = << >>
      /\ process' = [process EXCEPT ![p].text = text, ![p].pc = pc]
  BY <1>0, NoWrites DEF Collect
<1>2. process' = [process EXCEPT ![p] = m] BY <1>1, Parts
<1>3. process[p] \in Memories /\ Fine(process[p]) BY Parts DEF TypeInv
<1>4. text \in Texts /\ pc \in {"mail", "phone"} BY <1>3, Fields, Parts DEF Texts
<1>5. text.day = process[p].day OBVIOUS
<1> HIDE DEF text, pc
<1>6. m \in Memories BY <1>3, <1>4 DEF Memories
<1>7. /\ m.pc = pc /\ m.day = process[p].day /\ m.text = text
      /\ m.writes = process[p].writes /\ m.digest = process[p].digest
  BY <1>3 DEF Memories
<1> HIDE DEF m
<1>8. process'[p] = m /\ Others(p) BY <1>2, <1>6, Change
<1>9. Fine(m) BY <1>1, <1>3, <1>4, <1>6, <1>7 DEF Fine, Digesting
<1>10. process[p].day > 0 BY <1>1, <1>3 DEF Fine
<1> QED BY <1>1, <1>4, <1>5, <1>7, <1>8, <1>9, <1>10

LEMMA MailDoes ==
  ASSUME TypeInv, NEW p \in Processes, Mail(p)
  PROVE  /\ UNCHANGED <<day, hasMail, state, delivered, runs, faults, kills, overlap>>
         /\ process[p].pc = "mail" /\ mailed' = mailed \cup {process[p].day}
         /\ mailed' \subseteq 1..MaxDay
         /\ planShown' \in BOOLEAN /\ planShown' = (planShown \/ process[p].text.plan)
         /\ Others(p) /\ Fine(process'[p]) /\ process'[p].pc = "write"
         /\ process'[p].writes = MarkSent(process[p].text) /\ process'[p].then = "phone"
         /\ process'[p].day = process[p].day /\ process'[p].text = process[p].text
         /\ process'[p].digest = process[p].digest
<1>1. /\ UNCHANGED <<day, hasMail, state, delivered, runs, faults, kills, overlap>>
      /\ process[p].pc = "mail" /\ mailed' = mailed \cup {process[p].day}
      /\ planShown' = (planShown \/ process[p].text.plan)
      /\ WriteThen(p, MarkSent(process[p].text), "phone")
  BY DEF Mail
<1>2. process[p] \in Memories /\ Fine(process[p]) BY Parts DEF TypeInv
<1>3. process[p].text \in Texts /\ process[p].digest BY <1>1, <1>2, Fields DEF Fine, Digesting
<1>4. mailed' \subseteq 1..MaxDay
  <2>1. process[p].day \in 0..MaxDay /\ process[p].day > 0 BY <1>1, <1>2, Fields DEF Fine
  <2>2. process[p].day \in 1..MaxDay BY <2>1, Bounds
  <2> QED BY <1>1, <2>2, Parts
<1>5. planShown' \in BOOLEAN BY <1>1, <1>3, Parts DEF Texts
<1> QED BY <1>1, <1>3, <1>4, <1>5, MarkSentRows, WriteThenDoes

LEMMA PhoneDoes ==
  ASSUME TypeInv, NEW p \in Processes, Phone(p)
  PROVE  /\ UNCHANGED <<day, hasMail, state, mailed, runs, faults, kills, overlap>>
         /\ process[p].pc = "phone" /\ Arrives(process[p].text)
         /\ Others(p) /\ Fine(process'[p]) /\ process'[p].pc = "write"
         /\ process'[p].writes = MarkSent(process[p].text) /\ process'[p].then = "idle"
         /\ process'[p].day = process[p].day /\ process'[p].text = process[p].text
         /\ process'[p].digest = process[p].digest
<1>1. /\ UNCHANGED <<day, hasMail, state, mailed, runs, faults, kills, overlap>>
      /\ process[p].pc = "phone" /\ Arrives(process[p].text)
      /\ WriteThen(p, MarkSent(process[p].text), "idle")
  BY DEF Phone
<1>2. process[p].text \in Texts BY Parts, Fields
<1> QED BY <1>1, <1>2, MarkSentRows, WriteThenDoes

LEMMA PhoneFailsDoes ==
  ASSUME TypeInv, NEW p \in Processes, PhoneFails(p)
  PROVE  /\ UNCHANGED <<day, hasMail, state, mailed, runs, kills, overlap>>
         /\ faults' \in 0..MaxFaults /\ faults' = faults + 1 /\ process[p].pc = "phone"
         /\ Arrives(process[p].text) \/ UNCHANGED <<delivered, planShown>>
         /\ Others(p) /\ Fine(process'[p]) /\ process'[p].pc = "write"
         /\ process'[p].writes = StorePending(process[p].day, process[p].text, process[p].text.plan)
         /\ process'[p].then = "idle"
         /\ process'[p].day = process[p].day /\ process'[p].text = process[p].text
         /\ process'[p].digest = process[p].digest
<1>1. /\ UNCHANGED <<day, hasMail, state, mailed, runs, kills, overlap>>
      /\ faults < MaxFaults /\ faults' = faults + 1 /\ process[p].pc = "phone"
      /\ Arrives(process[p].text) \/ UNCHANGED <<delivered, planShown>>
      /\ WriteThen(p, StorePending(process[p].day, process[p].text, process[p].text.plan), "idle")
  BY DEF PhoneFails, Fault
<1>2. faults' \in 0..MaxFaults BY <1>1, Bounds, Parts
<1>3. process[p].text \in Texts /\ process[p].day \in 0..MaxDay BY Parts, Fields
<1>4. process[p].text.plan \in BOOLEAN BY <1>3 DEF Texts
<1> QED BY <1>1, <1>2, <1>3, <1>4, StoreRows, WriteThenDoes

LEMMA CrashDoes ==
  ASSUME TypeInv, NEW p \in Processes, Crash(p)
  PROVE  /\ UNCHANGED <<day, hasMail, state, outVars, runs, faults, overlap>>
         /\ process[p].pc # "idle" /\ kills' \in 0..MaxKills /\ kills' = kills + 1
         /\ Others(p) /\ Fine(process'[p]) /\ process'[p] = Idle
<1>1. /\ UNCHANGED <<day, hasMail, state, outVars, runs, faults, overlap>>
      /\ process[p].pc # "idle" /\ kills < MaxKills /\ kills' = kills + 1
      /\ process' = [process EXCEPT ![p] = Idle]
  BY DEF Crash
<1>2. kills' \in 0..MaxKills BY <1>1, Bounds, Parts
<1>3. process'[p] = Idle /\ Others(p) BY <1>1, IdleIsMemory, Change
<1> QED BY <1>1, <1>2, <1>3, IdleIsFine

-----------------------------------------------------------------------------
(* Types.                                                                  *)

LEMMA MemoryTyped ==
  ASSUME NEW m \in Memories, NEW today \in Nat, m.day <= today
  PROVE  /\ m.pc \in {"idle", "date", "text", "resend", "core", "check", "collect",
                      "mail", "phone", "write"}
         /\ m.digest \in BOOLEAN /\ m.text \in Texts /\ m.day \in 0..today
<1>1. m.day \in 0..today
  <2>1. m.day \in Nat BY Fields
  <2> QED BY <2>1
<1> QED BY <1>1 DEF Memories

\* The stores keep their types, and the processes are fine.
LEMMA TypeFrom ==
  ASSUME day' \in 1..MaxDay, hasMail' \in BOOLEAN, runs' \in 0..MaxRuns, faults' \in 0..MaxFaults,
         kills' \in 0..MaxKills, overlap' \in BOOLEAN, state' \in States,
         delivered' \in [1..MaxDay -> Nat], mailed' \subseteq 1..MaxDay, planShown' \in BOOLEAN,
         process' \in [Processes -> Memories], \A q \in Processes : Fine(process[q])'
  PROVE  TypeInv'
<1>1. ASSUME NEW q \in Processes
      PROVE  /\ process'[q].pc \in {"idle", "date", "text", "resend", "core", "check", "collect",
                                    "mail", "phone", "write"}
             /\ process'[q].digest \in BOOLEAN /\ process'[q].text \in Texts
             /\ process'[q].day \in 0..day'
             /\ process'[q].pc \in {"check", "collect", "mail", "phone"} => process'[q].digest
             /\ process'[q].pc = "write" <=> process'[q].writes # << >>
  <2>1. /\ process'[q] \in Memories /\ process'[q].day <= day'
        /\ process'[q].pc \in {"check", "collect", "mail", "phone"} => process'[q].digest
        /\ process'[q].pc = "write" <=> process'[q].writes # << >>
    BY DEF Fine, Digesting
  <2>2. day' \in Nat BY Bounds
  <2> QED BY <2>1, <2>2, MemoryTyped
<1>2. TypeOK' BY <1>1 DEF TypeOK, States
<1> QED BY <1>2 DEF TypeInv

\* One process has moved and the day has not.
LEMMA FineKept ==
  ASSUME TypeInv, NEW p \in Processes, Others(p), Fine(process'[p]), UNCHANGED day
  PROVE  process' \in [Processes -> Memories] /\ \A q \in Processes : Fine(process[q])'
<1>1. ASSUME NEW q \in Processes PROVE Fine(process[q])'
  <2>1. Fine(process'[q])
    <3>1. CASE q = p BY <3>1
    <3>2. CASE q # p BY <3>2 DEF Others, TypeInv
    <3> QED BY <3>1, <3>2
  <2> QED BY <2>1 DEF Fine
<1> QED BY <1>1 DEF Others

LEMMA TypeInit == Init => TypeInv
<1> SUFFICES ASSUME Init PROVE TypeInv OBVIOUS
<1>1. /\ day = 1 /\ hasMail \in BOOLEAN
      /\ state = [sent |-> 0, date |-> 0, text |-> NoText, core |-> FALSE, month |-> FALSE]
      /\ process = [p \in Processes |-> Idle]
      /\ delivered = [d \in 1..MaxDay |-> 0] /\ mailed = {} /\ planShown = FALSE
      /\ runs = 0 /\ faults = 0 /\ kills = 0 /\ overlap = FALSE
  BY DEF Init
<1>2. /\ day \in 1..MaxDay /\ runs \in 0..MaxRuns /\ faults \in 0..MaxFaults
      /\ kills \in 0..MaxKills
  BY <1>1, Bounds
<1>3. /\ state \in States /\ delivered \in [1..MaxDay -> Nat]
      /\ mailed \subseteq 1..MaxDay
  BY <1>1, Bounds, NoTextIsText DEF States
<1>4. Fine(Idle) BY <1>1, IdleIsMemory DEF Fine, Digesting
<1>5. process \in [Processes -> Memories] /\ \A p \in Processes : process[p] = Idle
  BY <1>1, IdleIsMemory
<1>6. /\ Idle.digest \in BOOLEAN /\ Idle.text \in Texts /\ Idle.day \in 0..day
      /\ Idle.pc = "idle" /\ Idle.writes = << >>
  BY <1>1, IdleIsMemory, Fields
<1>7. TypeOK BY <1>1, <1>2, <1>3, <1>5, <1>6 DEF TypeOK, States
<1> QED BY <1>4, <1>5, <1>7 DEF TypeInv

LEMMA TypeStep == TypeInv /\ [Next]_vars => TypeInv'
<1> SUFFICES ASSUME TypeInv, [Next]_vars PROVE TypeInv' OBVIOUS
<1>1. /\ day \in 1..MaxDay /\ hasMail \in BOOLEAN /\ runs \in 0..MaxRuns /\ faults \in 0..MaxFaults
      /\ kills \in 0..MaxKills /\ overlap \in BOOLEAN /\ state \in States
      /\ delivered \in [1..MaxDay -> Nat] /\ mailed \subseteq 1..MaxDay /\ planShown \in BOOLEAN
      /\ process \in [Processes -> Memories] /\ \A q \in Processes : Fine(process[q])
  BY DEF TypeInv, TypeOK, States
<1>2. CASE UNCHANGED vars
  <2>1. UNCHANGED <<day, hasMail, state, process, outVars, runs, faults, kills, overlap>>
    BY <1>2 DEF vars
  <2> QED BY <2>1 DEF TypeInv, TypeOK, Fine, outVars
<1>3. CASE NextDay
  <2>1. UNCHANGED <<hasMail, state, process, outVars, runs, faults, kills, overlap>>
    BY <1>3 DEF NextDay
  <2>2. day' \in 1..MaxDay /\ day <= day' BY <1>1, <1>3, Bounds DEF NextDay
  <2>3. ASSUME NEW q \in Processes PROVE Fine(process[q])'
    <3>1. Fine(process[q]) /\ process[q].day \in Nat /\ day \in Nat BY <1>1, Fields
    <3>2. process[q].day <= day' BY <1>1, <2>2, <3>1 DEF Fine
    <3> QED BY <2>1, <3>1, <3>2 DEF Fine
  <2> QED BY <1>1, <2>1, <2>2, <2>3, TypeFrom DEF outVars
<1>4. ASSUME NEW p \in Processes, Step(p) PROVE TypeInv'
  <2>1. CASE Write(p)
    <3>1. /\ UNCHANGED <<day, hasMail, outVars, runs, faults, kills, overlap>>
          /\ Others(p) /\ Fine(process'[p]) /\ process[p].writes[1] \in Rows
          /\ state' = Set(state, process[p].writes[1])
      BY <2>1, WriteDoes
    <3>2. state' \in States BY <1>1, <3>1, RowSet
    <3> QED BY <1>1, <3>1, <3>2, FineKept, TypeFrom DEF outVars
  <2>2. CASE Start(p)
    <3>1. /\ UNCHANGED <<day, hasMail, state, outVars, faults, kills>> /\ runs' \in 0..MaxRuns
          /\ overlap' = (overlap \/ \E q \in Processes : process[q].pc # "idle")
          /\ Others(p) /\ Fine(process'[p])
      BY <2>2, StartDoes
    <3>2. overlap' \in BOOLEAN BY <1>1, <3>1
    <3> QED BY <1>1, <3>1, <3>2, FineKept, TypeFrom DEF outVars
  <2>3. CASE ReadDate(p) \/ ReadText(p) \/ ReadCore(p) \/ Check(p) \/ Collect(p)
    <3>1. /\ UNCHANGED <<day, hasMail, state, outVars, runs, faults, kills, overlap>>
          /\ Others(p) /\ Fine(process'[p])
      BY <2>3, ReadDateDoes, ReadTextDoes, ReadCoreDoes, CheckDoes, CollectDoes
    <3> QED BY <1>1, <3>1, FineKept, TypeFrom DEF outVars
  <2>4. CASE Resend(p) \/ ResendFails(p) \/ Phone(p) \/ PhoneFails(p)
    <3>1. /\ UNCHANGED <<day, hasMail, state, mailed, runs, kills, overlap>>
          /\ faults' \in 0..MaxFaults /\ Others(p) /\ Fine(process'[p])
          /\ Arrives(process[p].text) \/ UNCHANGED <<delivered, planShown>>
      BY <1>1, <2>4, ResendDoes, ResendFailsDoes, PhoneDoes, PhoneFailsDoes
    <3>2. process[p].text \in Texts BY <1>1, Fields
    <3>3. delivered' \in [1..MaxDay -> Nat] /\ planShown' \in BOOLEAN
      BY <3>1, <3>2, ArrivesDoes
    <3> QED BY <1>1, <3>1, <3>3, FineKept, TypeFrom
  <2>5. CASE Mail(p)
    <3>1. /\ UNCHANGED <<day, hasMail, state, delivered, runs, faults, kills, overlap>>
          /\ mailed' \subseteq 1..MaxDay /\ planShown' \in BOOLEAN
          /\ Others(p) /\ Fine(process'[p])
      BY <2>5, MailDoes
    <3> QED BY <1>1, <3>1, FineKept, TypeFrom
  <2>6. CASE Crash(p)
    <3>1. /\ UNCHANGED <<day, hasMail, state, outVars, runs, faults, overlap>>
          /\ kills' \in 0..MaxKills /\ Others(p) /\ Fine(process'[p])
      BY <2>6, CrashDoes
    <3> QED BY <1>1, <3>1, FineKept, TypeFrom DEF outVars
  <2> QED BY <1>4, <2>1, <2>2, <2>3, <2>4, <2>5, <2>6 DEF Step
<1> QED BY <1>2, <1>3, <1>4 DEF Next

(* Types: the rows of app_state and what every process remembers of them   *)
(* and has yet to write are of their kinds; only a digest run digests, and *)
(* a process writes exactly as long as it has rows to write.               *)
THEOREM TypeCorrect == Spec => []TypeOK
<1>1. TypeInv => TypeOK BY DEF TypeInv
<1> QED BY <1>1, TypeInit, TypeStep, PTL DEF Spec

-----------------------------------------------------------------------------
(* The plan is marked only when it was shown.                              *)

LEMMA NoRow == ~Clearing(<< >>) /\ ~Storing(<< >>)
BY DEF Clearing, Storing

\* The two rows of the month flag.
LEMMA CoreRow ==
  /\ Row("core", TRUE) # Row("core", FALSE)
  /\ \A row \in Rows : row.key = "core" => row = Row("core", TRUE) \/ row = Row("core", FALSE)
  /\ Row("core", TRUE).key = "core" /\ Row("core", TRUE).value = TRUE
  /\ Row("core", FALSE).key = "core" /\ Row("core", FALSE).value = FALSE
<1>1. /\ Row("core", TRUE).key = "core" /\ Row("core", TRUE).value = TRUE
      /\ Row("core", FALSE).key = "core" /\ Row("core", FALSE).value = FALSE
  BY RowIs
<1>2. ASSUME NEW row \in Rows, row.key = "core"
      PROVE  row = Row("core", TRUE) \/ row = Row("core", FALSE)
  <2>1. row \in [key : {"core", "month"}, value : BOOLEAN] BY <1>2 DEF Rows
  <2>2. row = [key |-> row.key, value |-> row.value] /\ row.value \in BOOLEAN BY <2>1
  <2>3. CASE row.value = TRUE BY <1>2, <2>2, <2>3 DEF Row
  <2>4. CASE row.value = FALSE BY <1>2, <2>2, <2>4 DEF Row
  <2> QED BY <2>2, <2>3, <2>4
<1>3. Row("core", TRUE) # Row("core", FALSE) BY <1>1
<1> QED BY <1>1, <1>2, <1>3

\* What is known of the process that moves, or of any process while all are idle.
LEMMA PlanHere ==
  ASSUME TypeInv, PlanInv, ~overlap, NEW p \in Processes,
         process[p].pc # "idle" \/ \A q \in Processes : process[q].pc = "idle"
  PROVE  Planned(process[p]) /\ \A q \in Processes \ {p} : process[q].pc = "idle"
<1>1. PICK r \in Processes : /\ \A q \in Processes \ {r} : process[q].pc = "idle"
                             /\ Planned(process[r])
  BY DEF PlanInv
<1>2. CASE r = p BY <1>1, <1>2
<1>3. CASE r # p
  <2>1. \A q \in Processes : process[q].pc = "idle" BY <1>1, <1>3
  <2>2. process[p].writes = << >> /\ process[r].writes = << >> BY <2>1, NoWrites
  <2>3. Telling(process[p]) BY <1>1, <2>1, <2>2, NoRow DEF Planned, Telling
  <2> QED BY <1>1, <2>1, <2>2, <2>3 DEF Planned
<1> QED BY <1>2, <1>3

LEMMA PlanFrom ==
  ASSUME NEW p \in Processes, Others(p), \A q \in Processes \ {p} : process[q].pc = "idle",
         Planned(process[p])'
  PROVE  PlanInv'
BY DEF PlanInv, Others

\* Faults and kills are only added, and what was shown stays shown.
LEMMA Grown ==
  ASSUME TypeInv, UNCHANGED state, planShown => planShown',
         faults' = faults \/ faults' = faults + 1, kills' = kills \/ kills' = kills + 1
  PROVE  /\ Unshown' => Unshown
         /\ (Tried => Tried') /\ (Strained => Strained') /\ (Torn => Torn')
         /\ faults > 0 => faults' > 0
         /\ kills > 0 => kills' > 0
<1>1. faults \in Nat /\ kills \in Nat BY Parts
<1>2. Unshown' => Unshown BY DEF Unshown
<1>3. (Tried => Tried') /\ (Strained => Strained') /\ (Torn => Torn')
  BY <1>1 DEF Tried, Strained, Torn
<1>4. (faults > 0 => faults' > 0) /\ (kills > 0 => kills' > 0) BY <1>1
<1> QED BY <1>2, <1>3, <1>4

\* The process that moves had nothing to write, and the rows stay.
LEMMA PlanRead ==
  ASSUME TypeInv, NEW p \in Processes, Planned(process[p]), process[p].writes = << >>,
         UNCHANGED state, planShown => planShown',
         faults' = faults \/ faults' = faults + 1, kills' = kills \/ kills' = kills + 1,
         Telling(process[p])'
  PROVE  Planned(process[p])'
<1>1. ~Clearing(process[p].writes) BY NoRow
<1>2. /\ Unshown' => Unshown
      /\ (Torn => Torn') /\ (faults > 0 => faults' > 0) /\ (kills > 0 => kills' > 0)
  BY Grown
<1>3. state'.month => planShown' \/ Torn' BY <1>2 DEF Planned
<1>4. Unshown' =>
        /\ faults' > 0
        /\ state'.date = 0 \/ state'.text = NoText => kills' > 0
        /\ state'.text = NoText \/ state'.text.plan \/ Torn'
  BY <1>1, <1>2 DEF Planned
<1> QED BY <1>3, <1>4 DEF Planned

LEMMA NothingToWrite ==
  ASSUME NEW p \in Processes, process'[p].writes = << >>
  PROVE  Rowed(process[p].writes)' /\ ~Storing(process[p].writes)'
<1>1. DOMAIN << >> = {} OBVIOUS
<1>2. ~Storing(process[p].writes)' BY NoRow DEF Storing
<1> QED BY <1>1, <1>2 DEF Rowed

LEMMA ClearRowed ==
  ASSUME NEW p \in Processes, process'[p].writes = ClearPending
  PROVE  /\ Rowed(process[p].writes)' /\ Clearing(process[p].writes)'
         /\ ~Storing(process[p].writes)'
<1>1. Clearing(process[p].writes)' BY ClearIs, ClearRows DEF Clearing
<1>2. ~Storing(process[p].writes)' BY ClearIs, CoreRow DEF Storing
<1>4. ASSUME NEW i \in DOMAIN ClearPending
      PROVE  /\ ClearPending[i].key # "month"
             /\ ClearPending[i].key \in {"date", "text"} => i < 3
             /\ ClearPending[i].key = "core" => i = 3
             /\ ClearPending[i].key = "text" => ClearPending[i].value = NoText
  <2>1. i = 1 \/ i = 2 \/ i = 3 BY ClearIs
  <2>2. CASE i = 1 BY <2>2, ClearIs
  <2>3. CASE i = 2 BY <2>3, ClearIs
  <2>4. CASE i = 3 BY <2>4, ClearIs
  <2> QED BY <2>1, <2>2, <2>3, <2>4
<1>5. Len(ClearPending) = 3 BY ClearIs
<1> QED BY <1>1, <1>2, <1>4, <1>5 DEF Rowed

\* The rows that follow a resend: the month is marked when the flag stood.
LEMMA CoreRowed ==
  ASSUME NEW p \in Processes, process'[p].writes = CoreRows,
         state.core => planShown' \/ Torn'
  PROVE  /\ Rowed(process[p].writes)' /\ Clearing(process[p].writes)'
         /\ ~Storing(process[p].writes)'
<1> DEFINE w == CoreRows
           Placed(i) == /\ w[i].key = "month" => state.core
                        /\ w[i].key \in {"date", "text"} => i < Len(w)
                        /\ w[i].key = "core" => i = Len(w)
                        /\ w[i].key = "text" => w[i].value = NoText
<1>1. /\ w # << >> /\ w[Len(w)] = Row("core", FALSE)
      /\ \A i \in DOMAIN w : Placed(i)
  <2>1. w # << >> BY CoreRowsAre
  <2> HIDE DEF w
  <2>2. CASE /\ DOMAIN w = 1..4
             /\ w[1].key = "month" /\ w[2].key = "date" /\ w[2].value = 0
             /\ w[3].key = "text" /\ w[3].value = NoText /\ w[4].key = "core"
             /\ w[4] = Row("core", FALSE) /\ Len(w) = 4 /\ state.core
    <3>1. ASSUME NEW i \in DOMAIN w PROVE Placed(i)
      <4>1. i = 1 \/ i = 2 \/ i = 3 \/ i = 4 BY <2>2
      <4>2. CASE i = 1 BY <2>2, <4>2
      <4>3. CASE i = 2 BY <2>2, <4>3
      <4>4. CASE i = 3 BY <2>2, <4>4
      <4>5. CASE i = 4 BY <2>2, <4>5
      <4> QED BY <4>1, <4>2, <4>3, <4>4, <4>5
    <3>2. w[Len(w)] = Row("core", FALSE) BY <2>2
    <3> HIDE DEF Placed
    <3> QED BY <2>1, <3>1, <3>2
  <2>3. CASE /\ DOMAIN w = 1..3
             /\ w[1].key = "date" /\ w[1].value = 0
             /\ w[2].key = "text" /\ w[2].value = NoText /\ w[3].key = "core"
             /\ w[3] = Row("core", FALSE) /\ Len(w) = 3
    <3>1. ASSUME NEW i \in DOMAIN w PROVE Placed(i)
      <4>1. i = 1 \/ i = 2 \/ i = 3 BY <2>3
      <4>2. CASE i = 1 BY <2>3, <4>2
      <4>3. CASE i = 2 BY <2>3, <4>3
      <4>4. CASE i = 3 BY <2>3, <4>4
      <4> QED BY <4>1, <4>2, <4>3, <4>4
    <3>2. w[Len(w)] = Row("core", FALSE) BY <2>3
    <3> HIDE DEF Placed
    <3> QED BY <2>1, <3>1, <3>2
  <2> HIDE DEF Placed
  <2> QED BY <2>2, <2>3, CoreIs DEF w
<1> HIDE DEF w
<1>2. process'[p].writes = w BY DEF w
<1>3. Clearing(process[p].writes)' BY <1>1, <1>2 DEF Clearing
<1>4. ~Storing(process[p].writes)' BY <1>1, <1>2, CoreRow DEF Storing
<1> QED BY <1>1, <1>2, <1>3, <1>4 DEF Rowed

\* The rows of a digest that arrived.
LEMMA MarkRowed ==
  ASSUME NEW p \in Processes, NEW text \in Texts, process'[p].writes = MarkSent(text),
         text.plan => planShown'
  PROVE  Rowed(process[p].writes)' /\ ~Storing(process[p].writes)'
<1> DEFINE w == MarkSent(text)
<1>1. /\ \/ DOMAIN w = 1..1 /\ Len(w) = 1
         \/ DOMAIN w = 1..2 /\ Len(w) = 2 /\ w[2].key = "month" /\ text.plan
      /\ w[1].key = "sent"
  BY MarkIs
<1> HIDE DEF w
<1>2. \A i \in DOMAIN w : w[i].key \in {"sent", "month"} /\ (w[i].key = "month" => text.plan)
  <2>1. \A i \in 1..2 : i = 1 \/ i = 2 OBVIOUS
  <2>2. \A i \in 1..1 : i = 1 OBVIOUS
  <2> QED BY <1>1, <2>1, <2>2
<1>3. w[Len(w)].key # "core" BY <1>1
<1>4. process'[p].writes = w BY DEF w
<1>5. ~Storing(process[p].writes)' BY <1>3, <1>4, CoreRow DEF Storing
<1> QED BY <1>2, <1>4, <1>5 DEF Rowed

LEMMA PlanWrite ==
  ASSUME TypeInv, NEW p \in Processes, Planned(process[p]), Write(p)
  PROVE  Planned(process[p])'
<1> DEFINE w == process[p].writes
           m == process'[p]
<1>1. /\ UNCHANGED <<planShown, faults, kills>> /\ process[p].pc = "write"
      /\ w \in Seq(Rows) /\ Len(w) \in Nat \ {0} /\ DOMAIN w = 1..Len(w) /\ w[1] \in Rows
      /\ state' = Set(state, w[1])
  BY WriteDoes DEF outVars
<1>2. \/ /\ Len(w) > 1 /\ m.pc = "write" /\ m.writes = Tail(w) /\ m.then = process[p].then
         /\ DOMAIN Tail(w) = 1..(Len(w) - 1)
         /\ \A i \in DOMAIN Tail(w) : i + 1 \in DOMAIN w /\ Tail(w)[i] = w[i + 1]
      \/ Len(w) = 1 /\ m = Idle
      \/ Len(w) = 1 /\ m.pc = process[p].then /\ m.writes = << >>
  BY WriteDoes
<1>3. /\ state'.date = IF w[1].key = "date" THEN w[1].value ELSE state.date
      /\ state'.text = IF w[1].key = "text" THEN w[1].value ELSE state.text
      /\ state'.core = IF w[1].key = "core" THEN w[1].value ELSE state.core
      /\ state'.month = IF w[1].key = "month" THEN w[1].value ELSE state.month
  BY <1>1, Parts, RowSet
<1>4. process[p].then \in {"idle", "core", "check", "phone"} BY Parts, Fields
<1>5. /\ Rowed(w) /\ (Storing(w) => process[p].then = "idle") /\ Telling(process[p])
      /\ state.month => planShown \/ Torn
      /\ Unshown =>
           /\ faults > 0
           /\ state.date = 0 \/ state.text = NoText => kills > 0 \/ Clearing(w)
           /\ state.text = NoText \/ state.text.plan \/ Torn \/ (Strained /\ Clearing(w))
  BY DEF Planned, Telling
<1>6. Torn' = Torn /\ Strained' = Strained /\ Tried' = Tried
  BY <1>1 DEF Torn, Strained, Tried
<1>7. m.writes = << >> \/ (m.writes = Tail(w) /\ Len(w) > 1) BY <1>2, IdleIsMemory
<1>8. /\ w # << >> /\ 1 \in DOMAIN w
      /\ w[1].key \in {"date", "text"} => Len(w) > 1
      /\ w[1].key = "core" => Len(w) = 1
      /\ w[1].key = "date" => w[1].value # 0 \/ Clearing(w)
      /\ w[1].key = "month" => planShown \/ Torn
      /\ w[1].key = "text" => \/ w[1].value.plan
                              \/ Clearing(w) /\ (w[1].value = NoText \/ (Unshown => Strained))
  <2> HIDE DEF w
  <2>1. 1 \in DOMAIN w BY <1>1
  <2>2. w # << >> BY <1>1, EmptySeq
  <2> QED BY <1>5, <2>1, <2>2 DEF Rowed
\* The last row stays the last one.
<1>9. ASSUME Len(w) > 1
      PROVE  /\ Len(Tail(w)) = Len(w) - 1 /\ Tail(w) # << >>
             /\ Tail(w)[Len(Tail(w))] = w[Len(w)]
             /\ \A i \in DOMAIN Tail(w) : i \in Nat /\ i + 1 \in DOMAIN w /\ Tail(w)[i] = w[i + 1]
  <2> HIDE DEF w
  <2>1. /\ Tail(w) \in Seq(Rows) /\ Len(Tail(w)) = Len(w) - 1
        /\ \A i \in 1..Len(Tail(w)) : Tail(w)[i] = w[i + 1]
    BY <1>1, <1>8, HeadTailProperties
  <2>2. DOMAIN Tail(w) = 1..(Len(w) - 1) BY <2>1, LenProperties
  <2>3. Tail(w) # << >> BY <1>1, <1>9, <2>1, EmptySeq
  <2>4. Len(w) - 1 \in 1..Len(Tail(w)) /\ (Len(w) - 1) + 1 = Len(w) BY <1>1, <1>9, <2>1
  <2>5. Tail(w)[Len(Tail(w))] = w[Len(w)] BY <2>1, <2>4
  <2>6. \A i \in DOMAIN Tail(w) : i \in Nat /\ i + 1 \in DOMAIN w /\ Tail(w)[i] = w[i + 1]
    BY <1>1, <2>1, <2>2
  <2> QED BY <2>1, <2>3, <2>5, <2>6
<1>10. ASSUME Len(w) > 1, m.writes = Tail(w)
       PROVE  /\ Clearing(process[p].writes)' <=> Clearing(w)
              /\ Storing(process[p].writes)' <=> Storing(w)
  <2>1. m.writes # << >> /\ m.writes[Len(m.writes)] = w[Len(w)] BY <1>9, <1>10
  <2> HIDE DEF w
  <2>2. Clearing(process[p].writes)' <=> Clearing(w) BY <1>8, <2>1 DEF Clearing
  <2>3. Storing(process[p].writes)' <=> Storing(w) BY <1>8, <2>1 DEF Storing
  <2> QED BY <2>2, <2>3
<1>11. ASSUME Clearing(w), Len(w) = 1 PROVE w[1] = Row("core", FALSE)
  BY <1>11 DEF Clearing
<1>12. Len(w) > 1 \/ Len(w) = 1
  <2> HIDE DEF w
  <2> QED BY <1>1
\* Unless the month flag is set, nothing comes to stand that did not.
<1>13. w[1].key # "core" => (Unshown' => Unshown)
  BY <1>1, <1>3 DEF Unshown
<1>14. ASSUME w[1].key = "core" PROVE ~Unshown' \/ (Storing(w) /\ Len(w) = 1)
  <2>1. Len(w) = 1 BY <1>8, <1>14
  <2>2. CASE w[1] = Row("core", FALSE)
    <3>1. w[1].value = FALSE BY <2>2, CoreRow
    <3>2. ~state'.core BY <1>3, <1>14, <3>1
    <3> QED BY <3>2 DEF Unshown
  <2>3. CASE w[1] = Row("core", TRUE)
    BY <1>8, <2>1, <2>3 DEF Storing
  <2> QED BY <1>1, <1>14, <2>2, <2>3, CoreRow
<1>15. ASSUME ~Storing(w) PROVE Unshown' => Unshown BY <1>13, <1>14, <1>15
<1>16. Clearing(w) => ~Storing(w) BY CoreRow DEF Clearing, Storing
<1>17. state'.month => planShown' \/ Torn' BY <1>1, <1>3, <1>5, <1>6, <1>8
<1>18. ASSUME Unshown'
       PROVE  /\ faults' > 0
              /\ state'.date = 0 \/ state'.text = NoText =>
                   kills' > 0 \/ Clearing(process[p].writes)'
              /\ \/ state'.text = NoText \/ state'.text.plan \/ Torn'
                 \/ (Strained' /\ Clearing(process[p].writes)')
  <2>1. CASE w[1].key = "core"
    <3>1. Storing(w) /\ Len(w) = 1 BY <1>14, <1>18, <2>1
    <3>2. faults > 0 /\ state.date # 0 /\ state.text.plan BY <1>5, <3>1 DEF Rowed
    <3>3. state'.date = state.date /\ state'.text = state.text BY <1>3, <2>1
    <3>4. state.text # NoText BY <3>2, NoTextIsText
    <3> QED BY <1>1, <3>2, <3>3, <3>4
  <2>2. CASE w[1].key # "core"
    <3>1. Unshown BY <1>13, <1>18, <2>2
    <3>2. Clearing(w) => Clearing(process[p].writes)'
      <4>1. Clearing(w) => Len(w) > 1 BY <1>11, <1>12, <2>2, CoreRow
      <4>2. Len(w) > 1 => m.writes = Tail(w)
        <5> HIDE DEF w
        <5> QED BY <1>1, <1>2
      <4> QED BY <1>10, <4>1, <4>2
    <3>3. faults' > 0 BY <1>1, <1>5, <3>1
    <3>4. state'.date = 0 \/ state'.text = NoText => kills' > 0 \/ Clearing(w)
      <4>1. ASSUME state'.date = 0 PROVE kills > 0 \/ Clearing(w)
        BY <1>3, <1>5, <1>8, <3>1, <4>1
      <4>2. ASSUME state'.text = NoText PROVE kills > 0 \/ Clearing(w)
        <5>1. CASE w[1].key = "text"
          <6>1. w[1].value = NoText BY <1>3, <4>2, <5>1
          <6>2. ~w[1].value.plan BY <6>1, NoTextIsText
          <6> QED BY <1>8, <5>1, <6>2
        <5>2. CASE w[1].key # "text" BY <1>3, <1>5, <3>1, <4>2, <5>2
        <5> QED BY <5>1, <5>2
      <4> QED BY <1>1, <4>1, <4>2
    <3>5. state'.text = NoText \/ state'.text.plan \/ Torn \/ (Strained /\ Clearing(w))
      <4>1. CASE w[1].key = "text"
        <5>1. state'.text = w[1].value BY <1>3, <4>1
        <5>2. w[1].value.plan \/ w[1].value = NoText \/ (Strained /\ Clearing(w))
          BY <1>8, <3>1, <4>1
        <5> QED BY <5>1, <5>2
      <4>2. CASE w[1].key # "text"
        <5>1. state'.text = state.text BY <1>3, <4>2
        <5> QED BY <1>5, <3>1, <5>1
      <4> QED BY <4>1, <4>2
    <3> QED BY <1>6, <3>2, <3>3, <3>4, <3>5
  <2> QED BY <2>1, <2>2
<1>19. CASE Len(w) = 1
  <2>1. m.writes = << >> BY <1>7, <1>19
  <2>2. Rowed(process[p].writes)' /\ ~Storing(process[p].writes)' BY <2>1, NothingToWrite
  <2>3. CASE m = Idle
    <3>1. m.pc = "idle" BY <2>3, IdleIsMemory
    <3>2. Telling(process[p])' BY <2>2, <3>1 DEF Telling
    <3> QED BY <1>17, <1>18, <3>2 DEF Planned
  <2>4. CASE m.pc = process[p].then
    <3>1. process[p].then = "core" => (Unshown' => Torn')
      BY <1>1, <1>5, <1>6, <1>15 DEF Telling
    <3>2. process[p].then = "phone" => (Unshown' => Tried')
      BY <1>1, <1>5, <1>6, <1>15 DEF Telling
    <3>3. process[p].then = "check" => ~Unshown'
      <4> SUFFICES ASSUME process[p].then = "check" PROVE ~Unshown' OBVIOUS
      <4>1. Clearing(w) BY <1>1, <1>5 DEF Telling
      <4>2. w[1] = Row("core", FALSE) BY <1>11, <1>19, <4>1
      <4>3. w[1].key = "core" BY <4>2, CoreRow
      <4> QED BY <1>14, <1>16, <4>1, <4>3
    <3>4. Telling(process[p])' BY <1>4, <2>2, <2>4, <3>1, <3>2, <3>3 DEF Telling
    <3> QED BY <1>17, <1>18, <3>4 DEF Planned
  <2>5. m = Idle \/ m.pc = process[p].then
    <3>1. ~(Len(w) > 1) BY <1>19
    <3> QED BY <1>2, <3>1
  <2> QED BY <2>3, <2>4, <2>5
<1>20. CASE Len(w) > 1
  <2>16. Len(w) # 1
    <3> HIDE DEF w
    <3> QED BY <1>1, <1>20
  <2>1. m.pc = "write" /\ m.writes = Tail(w) /\ m.then = process[p].then
    BY <1>2, <2>16
  <2>2. /\ Clearing(process[p].writes)' <=> Clearing(w)
        /\ Storing(process[p].writes)' <=> Storing(w)
    BY <1>10, <1>20, <2>1
  <2>3. w[1].key # "core" BY <1>8, <2>16
  <2>4. Unshown' => Unshown BY <1>13, <2>3
  <2>5. m.writes = Tail(w) /\ Len(m.writes) = Len(w) - 1 /\ Len(w) \in Nat
        /\ \A i \in DOMAIN m.writes : i \in Nat /\ i + 1 \in DOMAIN w /\ m.writes[i] = w[i + 1]
    BY <1>1, <1>9, <1>20, <2>1
  <2>6. ASSUME NEW i \in DOMAIN m.writes
        PROVE  /\ m.writes[i].key = "month" => planShown' \/ Torn'
               /\ m.writes[i].key \in {"date", "text"} => i < Len(m.writes)
               /\ m.writes[i].key = "core" => i = Len(m.writes)
               /\ m.writes[i].key = "date" =>
                    m.writes[i].value # 0 \/ Clearing(process[p].writes)'
               /\ m.writes[i].key = "text" =>
                    \/ m.writes[i].value.plan
                    \/ /\ Clearing(process[p].writes)'
                       /\ m.writes[i].value = NoText \/ (Unshown' => Strained')
    <3> DEFINE j == i + 1
    <3>1. i \in Nat /\ j \in DOMAIN w /\ m.writes[i] = w[j] /\ j = i + 1 BY <2>5
    <3> HIDE DEF j, w, m
    <3>2. /\ w[j].key = "month" => planShown \/ Torn
          /\ w[j].key \in {"date", "text"} => j < Len(w)
          /\ w[j].key = "core" => j = Len(w)
          /\ w[j].key = "date" => w[j].value # 0 \/ Clearing(w)
          /\ w[j].key = "text" =>
               \/ w[j].value.plan
               \/ Clearing(w) /\ (w[j].value = NoText \/ (Unshown => Strained))
      BY <1>5, <3>1 DEF Rowed
    <3>3. w[j].key = "month" => planShown' \/ Torn' BY <1>1, <1>6, <3>2
    <3>4. w[j].key \in {"date", "text"} => i < Len(m.writes) BY <2>5, <3>1, <3>2
    <3>5. w[j].key = "core" => i = Len(m.writes) BY <2>5, <3>1, <3>2
    <3>6. w[j].key = "date" => w[j].value # 0 \/ Clearing(process[p].writes)' BY <2>2, <3>2
    <3>7. w[j].key = "text" =>
            \/ w[j].value.plan
            \/ /\ Clearing(process[p].writes)'
               /\ w[j].value = NoText \/ (Unshown' => Strained')
      BY <1>6, <2>2, <2>4, <3>2
    <3> QED BY <3>1, <3>3, <3>4, <3>5, <3>6, <3>7
  <2>7. ASSUME Storing(w)
        PROVE  /\ faults' > 0 /\ Len(m.writes) <= 3
               /\ Len(m.writes) = 1 => state'.date # 0 /\ state'.text.plan
               /\ Len(m.writes) = 2 => /\ state'.date # 0 /\ m.writes[1].key = "text"
                                       /\ m.writes[1].value.plan
               /\ Len(m.writes) # 3
    <3>1. /\ faults > 0 /\ Len(w) <= 3
          /\ Len(w) = 2 => state.date # 0 /\ w[1].key = "text" /\ w[1].value.plan
          /\ Len(w) = 3 => /\ w[1].key = "date" /\ w[1].value # 0
                           /\ w[2].key = "text" /\ w[2].value.plan
      BY <1>5, <2>7 DEF Rowed
    <3>2. Len(m.writes) = 1 => Len(w) = 2 BY <2>5
    <3>3. Len(m.writes) = 2 => Len(w) = 3 /\ 1 \in DOMAIN m.writes
      <4>1. DOMAIN m.writes = 1..(Len(w) - 1) BY <1>2, <2>1, <2>16
      <4> HIDE DEF w, m
      <4> QED BY <2>5, <4>1
    <3>4. Len(m.writes) <= 3 /\ Len(m.writes) # 3
      <4> DEFINE k == Len(w)
                 l == Len(m.writes)
      <4>1. l = k - 1 /\ k \in Nat BY <2>5
      <4>2. k <= 3 BY <3>1
      <4> HIDE DEF k, l
      <4>3. l <= 3 /\ l # 3 BY <4>1, <4>2
      <4> QED BY <4>3 DEF l
    <3>5. Len(m.writes) = 1 => state'.date # 0 /\ state'.text.plan
      BY <1>3, <3>1, <3>2
    <3>6. Len(m.writes) = 2 => /\ state'.date # 0 /\ m.writes[1].key = "text"
                               /\ m.writes[1].value.plan
      <4> SUFFICES ASSUME Len(m.writes) = 2
                   PROVE  state'.date # 0 /\ m.writes[1].key = "text" /\ m.writes[1].value.plan
        OBVIOUS
      <4>1. m.writes[1] = w[2]
        <5>1. 1 \in DOMAIN m.writes BY <3>3
        <5>2. m.writes[1] = w[1 + 1] BY <2>5, <5>1
        <5> QED BY <5>2
      <4>2. state'.date = w[1].value BY <1>3, <3>1, <3>3
      <4> QED BY <3>1, <3>3, <4>1, <4>2
    <3> QED BY <1>1, <3>1, <3>4, <3>5, <3>6
  <2>8. Rowed(process[p].writes)' BY <2>2, <2>6, <2>7 DEF Rowed
  <2>9. process[p].then = "core" => (Unshown' => Torn')
    BY <1>1, <1>5, <1>6, <2>4 DEF Telling
  <2>10. process[p].then = "phone" => (Unshown' => Tried')
    BY <1>1, <1>5, <1>6, <2>4 DEF Telling
  <2>11. process[p].then = "check" => Clearing(process[p].writes)'
    BY <1>1, <1>5, <2>2 DEF Telling
  <2>12. Storing(process[p].writes)' => process[p].then = "idle" BY <1>5, <2>2
  <2>13. Telling(process[p])' BY <2>1, <2>8, <2>9, <2>10, <2>11, <2>12 DEF Telling
  <2> QED BY <1>17, <1>18, <2>13 DEF Planned
<1> QED BY <1>12, <1>19, <1>20

LEMMA PlanStep == TypeInv /\ PlanInv /\ [Next]_vars => PlanInv'
<1> SUFFICES ASSUME TypeInv, PlanInv, [Next]_vars, ~overlap' PROVE PlanInv'
  BY DEF PlanInv
<1>1. CASE NextDay \/ UNCHANGED vars
  <2>1. UNCHANGED <<state, process, planShown, faults, kills, overlap>>
    BY <1>1 DEF NextDay, vars, outVars
  <2>2. Unshown' = Unshown /\ Torn' = Torn /\ Strained' = Strained /\ Tried' = Tried
    BY <2>1 DEF Unshown, Torn, Strained, Tried
  <2>3. ASSUME NEW p \in Processes, Planned(process[p]) PROVE Planned(process[p])'
    <3>1. Rowed(process[p].writes) => Rowed(process[p].writes)'
      BY <2>1, <2>2 DEF Rowed, Clearing, Storing
    <3>2. Telling(process[p]) => Telling(process[p])'
      BY <2>1, <2>2, <3>1 DEF Telling, Clearing, Storing
    <3> QED BY <2>1, <2>2, <2>3, <3>2 DEF Planned, Clearing
  <2> QED BY <2>1, <2>3 DEF PlanInv
<1>2. ASSUME NEW p \in Processes, Step(p) PROVE PlanInv'
  <2>1. ~overlap /\ (process[p].pc # "idle" \/ \A q \in Processes : process[q].pc = "idle")
    <3>1. CASE Write(p) BY <3>1 DEF Write
    <3>2. CASE Start(p) BY <3>2 DEF Start
    <3>3. CASE ReadDate(p) BY <3>3 DEF ReadDate
    <3>4. CASE ReadText(p) BY <3>4 DEF ReadText
    <3>5. CASE Resend(p) BY <3>5 DEF Resend
    <3>6. CASE ResendFails(p) BY <3>6 DEF ResendFails
    <3>7. CASE ReadCore(p) BY <3>7 DEF ReadCore
    <3>8. CASE Check(p) BY <3>8 DEF Check
    <3>9. CASE Collect(p) BY <3>9 DEF Collect
    <3>10. CASE Mail(p) BY <3>10 DEF Mail
    <3>11. CASE Phone(p) BY <3>11 DEF Phone
    <3>12. CASE PhoneFails(p) BY <3>12 DEF PhoneFails
    <3>13. CASE Crash(p) BY <3>13 DEF Crash
    <3> QED BY <1>2, <3>1, <3>2, <3>3, <3>4, <3>5, <3>6, <3>7, <3>8, <3>9, <3>10, <3>11, <3>12, <3>13 DEF Step
  <2>2. Planned(process[p]) /\ \A q \in Processes \ {p} : process[q].pc = "idle"
    BY <2>1, PlanHere
  <2> SUFFICES Others(p) /\ Planned(process[p])' BY <2>2, PlanFrom
  <2>3. process[p].text \in Texts /\ process[p].day \in 0..MaxDay /\ faults \in Nat /\ kills \in Nat
    BY Parts, Fields
  <2>4. Telling(process[p]) BY <2>2 DEF Planned
  <2>5. process[p].pc # "write" =>
          /\ process[p].writes = << >>
          /\ Unshown => /\ faults > 0
                        /\ state.date = 0 \/ state.text = NoText => kills > 0
                        /\ state.text = NoText \/ state.text.plan \/ Torn
    BY <2>2, NoWrites, NoRow DEF Planned
  <2>6. CASE Write(p) BY <2>2, <2>6, PlanWrite, WriteDoes
  <2>7. CASE Start(p)
    <3>1. /\ UNCHANGED <<state, planShown, faults, kills>> /\ Others(p) /\ process[p].pc = "idle"
          /\ process'[p].pc = "date" /\ process'[p].writes = << >>
      BY <2>7, StartDoes DEF outVars
    <3>2. Telling(process[p])' BY <3>1, NothingToWrite DEF Telling
    <3> QED BY <2>2, <2>5, <3>1, <3>2, PlanRead
  <2>8. CASE ReadDate(p)
    <3>1. /\ UNCHANGED <<state, planShown, faults, kills>> /\ Others(p) /\ process[p].pc = "date"
          /\ process'[p].writes = << >>
          /\ \/ process'[p].pc = "idle"
             \/ state.date = 0 /\ process'[p].pc = "check"
             \/ process'[p].pc = "text"
      BY <2>8, ReadDateDoes, IdleIsMemory DEF outVars
    <3>2. process'[p].pc = "check" => (Unshown' => Tried')
      BY <2>5, <3>1 DEF Unshown, Tried
    <3>3. Telling(process[p])' BY <3>1, <3>2, NothingToWrite DEF Telling
    <3> QED BY <2>2, <2>5, <3>1, <3>3, PlanRead
  <2>9. CASE ReadText(p)
    <3>1. /\ UNCHANGED <<state, planShown, faults, kills>> /\ Others(p) /\ process[p].pc = "text"
      BY <2>9, ReadTextDoes DEF outVars
    <3>2. CASE /\ process'[p].pc = "resend" /\ process'[p].writes = << >>
               /\ process'[p].text = state.text /\ state.text # NoText
      <4>1. Telling(process[p])' BY <3>1, <3>2, NothingToWrite DEF Telling
      <4> QED BY <2>2, <2>5, <3>1, <4>1, PlanRead
    <3>3. CASE /\ process'[p].pc = "write" /\ process'[p].writes = ClearPending
               /\ process'[p].then \in {"check", "idle"}
      <4>1. Telling(process[p])' BY <3>3, ClearRowed DEF Telling
      <4> QED BY <2>2, <2>5, <3>1, <4>1, PlanRead
    <3> QED BY <2>9, <3>2, <3>3, ReadTextDoes
  <2>10. CASE Resend(p)
    <3>1. /\ UNCHANGED <<state, faults, kills>> /\ Others(p) /\ process[p].pc = "resend"
          /\ Arrives(process[p].text)
          /\ process'[p].pc = "write" /\ process'[p].then = "core"
          /\ process'[p].writes = <<Row("sent", process[p].date)>>
      BY <2>10, ResendDoes
    <3>2. planShown' = (planShown \/ process[p].text.plan) BY <3>1 DEF Arrives
    <3>3. process[p].text = state.text /\ state.text # NoText BY <2>4, <3>1 DEF Telling
    <3>4. Unshown' => Torn'
      <4>1. Unshown' => Unshown /\ ~state.text.plan BY <3>1, <3>2, <3>3 DEF Unshown
      <4>2. Torn' = Torn BY <3>1 DEF Torn
      <4> QED BY <2>5, <3>1, <3>3, <4>1, <4>2
    <3>5. Rowed(process[p].writes)' /\ ~Storing(process[p].writes)'
      <4> DEFINE r == Row("sent", process[p].date)
      <4>1. r.key = "sent" BY RowIs
      <4> HIDE DEF r
      <4>2. /\ process'[p].writes = <<r>>
            /\ \A i \in DOMAIN <<r>> : <<r>>[i] = r /\ Len(<<r>>) = 1 /\ <<r>>[1] = r
        BY <3>1 DEF r
      <4>3. <<r>>[Len(<<r>>)] = r OBVIOUS
      <4>4. ~Storing(process[p].writes)' BY <4>1, <4>2, <4>3, CoreRow DEF Storing
      <4> QED BY <4>1, <4>2, <4>4 DEF Rowed
    <3>6. Telling(process[p])' BY <3>1, <3>4, <3>5 DEF Telling
    <3> QED BY <2>2, <2>5, <3>1, <3>2, <3>6, PlanRead
  <2>11. CASE ResendFails(p)
    <3>1. /\ UNCHANGED <<state, kills>> /\ Others(p) /\ faults' = faults + 1
          /\ process[p].pc = "resend" /\ process'[p].writes = << >>
          /\ process'[p].pc \in {"idle", "check"}
      BY <2>11, ResendFailsDoes, IdleIsMemory
    <3>2. planShown => planShown' BY <2>3, <2>11, ResendFailsDoes, ArrivesDoes
    <3>3. Unshown' => Tried'
      <4>1. Unshown' => Unshown BY <3>1, <3>2 DEF Unshown
      <4>2. Unshown => faults > 0 BY <2>5, <3>1
      <4>3. faults > 0 => faults' > 1 BY <2>3, <3>1
      <4> QED BY <4>1, <4>2, <4>3 DEF Tried
    <3>4. Telling(process[p])' BY <3>1, <3>3, NothingToWrite DEF Telling
    <3> QED BY <2>2, <2>5, <3>1, <3>2, <3>4, PlanRead
  <2>12. CASE ReadCore(p)
    <3>1. /\ UNCHANGED <<state, planShown, faults, kills>> /\ Others(p) /\ process[p].pc = "core"
          /\ process'[p].pc = "write" /\ process'[p].writes = CoreRows
          /\ process'[p].then \in {"check", "idle"}
      BY <2>12, ReadCoreDoes DEF outVars
    <3>2. state.core => planShown' \/ Torn'
      <4>1. Unshown => Torn BY <2>4, <3>1 DEF Telling
      <4>2. planShown' = planShown /\ Torn' = Torn BY <3>1 DEF Torn
      <4> QED BY <4>1, <4>2 DEF Unshown
    <3>3. Telling(process[p])' BY <3>1, <3>2, CoreRowed DEF Telling
    <3> QED BY <2>2, <2>5, <3>1, <3>3, PlanRead
  <2>13. CASE Check(p) \/ Collect(p)
    <3>1. /\ UNCHANGED <<state, planShown, faults, kills>> /\ Others(p)
          /\ process[p].pc \in {"check", "collect"} /\ process'[p].writes = << >>
          /\ process'[p].pc \in {"idle", "collect", "mail", "phone"}
      BY <2>13, CheckDoes, CollectDoes, IdleIsMemory DEF outVars
    <3>2. Unshown' => Tried' BY <2>4, <3>1 DEF Telling, Unshown, Tried
    <3>3. Telling(process[p])' BY <3>1, <3>2, NothingToWrite DEF Telling
    <3> QED BY <2>2, <2>5, <3>1, <3>3, PlanRead
  <2>14. CASE Mail(p) \/ Phone(p)
    <3>1. /\ UNCHANGED <<state, faults, kills>> /\ Others(p) /\ process[p].pc \in {"mail", "phone"}
          /\ planShown' = (planShown \/ process[p].text.plan)
          /\ process'[p].pc = "write" /\ process'[p].writes = MarkSent(process[p].text)
          /\ process'[p].then \in {"phone", "idle"}
      BY <2>14, MailDoes, PhoneDoes DEF Arrives
    <3>2. Unshown' => Tried'
      <4>1. Unshown => Tried BY <2>4, <3>1 DEF Telling
      <4>2. Unshown' => Unshown BY <3>1 DEF Unshown
      <4> QED BY <3>1, <4>1, <4>2 DEF Tried
    <3>3. process[p].text.plan => planShown' BY <3>1
    <3>4. Rowed(process[p].writes)' /\ ~Storing(process[p].writes)'
      BY <2>3, <3>1, <3>3, MarkRowed
    <3>5. Telling(process[p])' BY <3>1, <3>2, <3>4 DEF Telling
    <3>6. planShown => planShown' BY <3>1
    <3> QED BY <2>2, <2>5, <3>1, <3>5, <3>6, PlanRead
  <2>15. CASE PhoneFails(p)
    <3> DEFINE rows == StorePending(process[p].day, process[p].text, process[p].text.plan)
    <3>1. /\ UNCHANGED <<state, kills>> /\ Others(p) /\ faults' = faults + 1
          /\ process[p].pc = "phone"
          /\ process'[p].pc = "write" /\ process'[p].writes = rows
          /\ process'[p].then = "idle"
      BY <2>15, PhoneFailsDoes
    <3>2. planShown => planShown' BY <2>3, <2>15, PhoneFailsDoes, ArrivesDoes
    <3>3. process[p].text.plan \in BOOLEAN BY <2>3 DEF Texts
    <3>4. process[p].day > 0
      <4>1. Fine(process[p]) BY DEF TypeInv
      <4> QED BY <3>1, <4>1 DEF Fine
    <3>5. /\ DOMAIN rows = 1..3 /\ rows[1].key = "date" /\ rows[1].value = process[p].day
          /\ rows[2].key = "text" /\ rows[2].value = process[p].text
          /\ rows[3].key = "core" /\ rows[3] = Row("core", process[p].text.plan)
          /\ Len(rows) = 3
      BY <2>3, <3>3, StoreIs
    <3>6. Unshown' => Strained'
      <4>1. Unshown' => Unshown BY <3>1, <3>2 DEF Unshown
      <4>2. Unshown => Tried /\ faults > 0 BY <2>4, <2>5, <3>1 DEF Telling
      <4>3. Tried /\ faults > 0 => Strained' BY <2>3, <3>1 DEF Tried, Strained
      <4> QED BY <4>1, <4>2, <4>3
    <3>7. faults' > 0 BY <2>3, <3>1
    <3>8. rows # << >> BY DEF StorePending
    <3> HIDE DEF rows
    <3>9. ~process[p].text.plan => Clearing(process[p].writes)'
      <4> SUFFICES ASSUME ~process[p].text.plan PROVE Clearing(process[p].writes)' OBVIOUS
      <4>1. process[p].text.plan = FALSE BY <3>3
      <4>2. rows[Len(rows)] = Row("core", FALSE) BY <3>5, <4>1
      <4> QED BY <3>1, <3>8, <4>2 DEF Clearing
    <3>10. Storing(process[p].writes)' => process[p].text.plan
      <4>1. Storing(process[p].writes)' => rows[Len(rows)] = Row("core", TRUE)
        BY <3>1 DEF Storing
      <4>2. ~process[p].text.plan => rows[Len(rows)] = Row("core", FALSE)
        <5>1. ~process[p].text.plan => process[p].text.plan = FALSE BY <3>3
        <5> QED BY <3>5, <5>1
      <4> QED BY <4>1, <4>2, CoreRow
    <3>11. ASSUME NEW i \in DOMAIN rows
           PROVE  /\ rows[i].key # "month"
                  /\ rows[i].key \in {"date", "text"} => i < Len(rows)
                  /\ rows[i].key = "core" => i = Len(rows)
                  /\ rows[i].key = "date" => rows[i].value # 0
                  /\ rows[i].key = "text" => rows[i].value = process[p].text
      <4>1. i = 1 \/ i = 2 \/ i = 3 BY <3>5
      <4>2. rows[1].value # 0 BY <2>3, <3>4, <3>5
      <4> QED BY <3>5, <4>1, <4>2
    <3>12. Rowed(process[p].writes)'
      <4>1. \A i \in DOMAIN rows :
              rows[i].key = "text" =>
                \/ rows[i].value.plan
                \/ Clearing(process[p].writes)' /\ (Unshown' => Strained')
        BY <3>6, <3>9, <3>11
      <4>2. Storing(process[p].writes)' =>
              /\ faults' > 0 /\ Len(rows) = 3
              /\ rows[1].key = "date" /\ rows[1].value # 0
              /\ rows[2].key = "text" /\ rows[2].value.plan
        <5>1. 1 \in DOMAIN rows BY <3>5
        <5>2. rows[1].value # 0 BY <3>5, <3>11, <5>1
        <5> QED BY <3>5, <3>7, <3>10, <5>2
      <4>3. \A i \in DOMAIN rows :
              /\ rows[i].key = "month" => planShown' \/ Torn'
              /\ rows[i].key \in {"date", "text"} => i < Len(rows)
              /\ rows[i].key = "core" => i = Len(rows)
              /\ rows[i].key = "date" =>
                   rows[i].value # 0 \/ Clearing(process[p].writes)'
              /\ rows[i].key = "text" =>
                   \/ rows[i].value.plan
                   \/ /\ Clearing(process[p].writes)'
                      /\ rows[i].value = NoText \/ (Unshown' => Strained')
        BY <3>11, <4>1
      <4>4. Storing(process[p].writes)' =>
              /\ faults' > 0 /\ Len(rows) <= 3
              /\ Len(rows) # 1 /\ Len(rows) # 2
              /\ rows[1].key = "date" /\ rows[1].value # 0
              /\ rows[2].key = "text" /\ rows[2].value.plan
        <5>1. Len(rows) <= 3 /\ Len(rows) # 1 /\ Len(rows) # 2 BY <3>5
        <5> QED BY <4>2, <5>1
      <4>5. process'[p].writes = rows BY <3>1
      <4> QED BY <4>3, <4>4, <4>5 DEF Rowed
    <3>13. Telling(process[p])' BY <3>1, <3>12 DEF Telling
    <3> QED BY <2>2, <2>5, <3>1, <3>2, <3>13, PlanRead
  <2>16. CASE Crash(p)
    <3>1. /\ UNCHANGED <<state, planShown, faults>> /\ Others(p) /\ kills' = kills + 1
          /\ process'[p].pc = "idle" /\ process'[p].writes = << >>
      BY <2>16, CrashDoes, IdleIsMemory DEF outVars
    <3>2. Telling(process[p])' BY <3>1, NothingToWrite DEF Telling
    <3>3. state'.month => planShown' \/ Torn'
      <4>1. Torn => Torn' BY <2>3, <3>1 DEF Torn
      <4> QED BY <2>2, <3>1, <4>1 DEF Planned
    <3>4. kills' > 0 BY <2>3, <3>1
    <3>5. Strained \/ Torn => Torn'
      BY <2>3, <3>1 DEF Strained, Torn
    <3>6. Unshown' => /\ faults' > 0
                      /\ state'.text = NoText \/ state'.text.plan \/ Torn'
      <4>1. Unshown' => Unshown BY <3>1 DEF Unshown
      <4>2. Unshown =>
              faults > 0 /\ (state.text = NoText \/ state.text.plan \/ Torn \/ Strained)
        BY <2>2 DEF Planned
      <4> QED BY <3>1, <3>5, <4>1, <4>2
    <3> QED BY <3>1, <3>2, <3>3, <3>4, <3>6 DEF Planned
  <2> QED BY <1>2, <2>6, <2>7, <2>8, <2>9, <2>10, <2>11, <2>12, <2>13, <2>14, <2>15, <2>16
          DEF Step
<1> QED BY <1>1, <1>2 DEF Next

LEMMA PlanInit == Init => PlanInv
<1> SUFFICES ASSUME Init PROVE PlanInv OBVIOUS
<1>1. /\ state.core = FALSE /\ state.month = FALSE /\ \A p \in Processes : process[p] = Idle
      /\ "daily" \in Processes
  BY DEF Init, Processes
<1>2. Idle.pc = "idle" /\ Idle.writes = << >> BY IdleIsMemory
<1>3. Rowed(<< >>)
  <2>1. DOMAIN << >> = {} OBVIOUS
  <2> QED BY <2>1, NoRow DEF Rowed
<1>4. Telling(process["daily"]) BY <1>1, <1>2, <1>3, NoRow DEF Telling
<1>5. Planned(process["daily"]) BY <1>1, <1>4 DEF Planned, Unshown
<1> QED BY <1>1, <1>2, <1>5 DEF PlanInv

(* The month of the savings plan is marked only when a digest with the     *)
(* plan was mailed or sent, as long as no two runs overlap and either      *)
(* nothing was killed or no more than three sends and processes failed in  *)
(* all, whatever the number of days, runs and faults.  The reason: what is *)
(* stored about the month fits the faults it takes (Planned).              *)
THEOREM PlanWasShown == Spec => []PlanShown
<1>1. TypeInv /\ PlanInv => PlanShown
  <2> SUFFICES ASSUME TypeInv, PlanInv, ~overlap, kills = 0 \/ faults + kills <= 3
               PROVE  PlanMarkedWhenShown
    BY DEF PlanShown
  <2>1. PICK p \in Processes : Planned(process[p]) BY DEF PlanInv
  <2>2. ~Torn BY Parts DEF Torn
  <2> QED BY <2>1, <2>2 DEF Planned, PlanMarkedWhenShown
<1> QED BY <1>1, TypeInit, TypeStep, PlanInit, PlanStep, PTL DEF Spec

-----------------------------------------------------------------------------
(* A resend sends the digest of its own day.                               *)

Calm == ~overlap /\ kills <= 1

\* While nothing overlaps, the state belongs to the process that moves.
LEMMA Solo ==
  ASSUME TypeInv, StaleInv, Calm, NEW p \in Processes,
         \A q \in Processes \ {p} : process[q].pc = "idle"
  PROVE  /\ Dated(state.text) /\ Out(state.sent) /\ Fresh(process[p])
         /\ Mid(process[p]) \/ Fits
         /\ kills = 0 => Fits /\ (Mid(process[p]) \/ Matches) /\ Unkilled(process[p])
<1>1. \A q \in Processes : Mid(process[q]) => q = p BY DEF Mid
<1> QED BY <1>1 DEF StaleInv, Calm

LEMMA Alone ==
  ASSUME StaleInv, Calm, NEW p \in Processes, process[p].pc # "idle"
  PROVE  \A q \in Processes \ {p} : process[q].pc = "idle"
BY DEF StaleInv, Calm, Apart

LEMMA StaleFrom ==
  ASSUME TypeInv, StaleInv, Calm, NEW p \in Processes, Others(p),
         \A q \in Processes \ {p} : process[q].pc = "idle",
         Dated(state.text)', Out(state.sent)', Fresh(process[p])',
         Mid(process[p])' \/ Fits',
         kills' = 0 => Fits' /\ (Mid(process[p])' \/ Matches') /\ Unkilled(process[p])'
  PROVE  StaleInv'
<1>1. ASSUME NEW q \in Processes \ {p} PROVE Fresh(process[q])' /\ Unkilled(process[q])'
  <2>1. /\ process'[q] = process[q] /\ process[q].pc = "idle" /\ Fresh(process[q])
        /\ process[q].writes = << >>
    BY NoWrites DEF Others, StaleInv, Calm
  <2>2. Fresh(process[q])' BY <2>1 DEF Fresh, Paired, Mid, Dated
  <2>3. Unkilled(process[q])' BY <2>1 DEF Unkilled
  <2> QED BY <2>2, <2>3
<1>2. Apart' BY DEF Apart, Others
<1> QED BY <1>1, <1>2 DEF StaleInv

\* A process that does not write moves, and the rows stay.
LEMMA StaleRead ==
  ASSUME TypeInv, StaleInv, Calm, NEW p \in Processes, Others(p),
         \A q \in Processes \ {p} : process[q].pc = "idle", process[p].pc # "write",
         UNCHANGED <<state, kills>>, Out(state.sent)', Fresh(process[p])',
         kills = 0 => Unkilled(process[p])'
  PROVE  StaleInv'
<1>1. ~Mid(process[p]) BY DEF Mid
<1>2. Dated(state.text) /\ Fits /\ (kills = 0 => Matches) BY <1>1, Solo
<1>3. Dated(state.text)' /\ Fits' /\ (kills' = 0 => Matches') BY <1>2 DEF Dated, Fits, Matches
<1> QED BY <1>3, StaleFrom

LEMMA OutKept ==
  ASSUME TypeInv, NEW d \in 0..MaxDay, Out(d), mailed \subseteq mailed',
         \A e \in 1..MaxDay : delivered[e] > 0 => delivered'[e] > 0
  PROVE  Out(d)'
<1>1. d > 0 => d \in 1..MaxDay BY Bounds
<1> QED BY <1>1 DEF Out

LEMMA StaleWrite ==
  ASSUME TypeInv, StaleInv, Calm, NEW p \in Processes, Write(p)
  PROVE  StaleInv'
<1> DEFINE w == process[p].writes
           m == process'[p]
<1>1. /\ UNCHANGED <<day, delivered, mailed, kills>> /\ Others(p) /\ process[p].pc = "write"
      /\ w[1] \in Rows /\ state' = Set(state, w[1])
      /\ Len(w) \in Nat \ {0} /\ DOMAIN w = 1..Len(w)
  BY WriteDoes DEF outVars
<1>2. \A q \in Processes \ {p} : process[q].pc = "idle" BY <1>1, Alone
<1>3. /\ Dated(state.text) /\ Out(state.sent) /\ Fresh(process[p])
      /\ Mid(process[p]) \/ Fits
      /\ kills = 0 => Fits /\ (Mid(process[p]) \/ Matches) /\ Unkilled(process[p])
  BY <1>2, Solo
<1>4. Paired(w) /\ 1 \in DOMAIN w
  <2>1. Paired(w) BY <1>3 DEF Fresh
  <2>2. 1 \in DOMAIN w
    <3> HIDE DEF w
    <3> QED BY <1>1
  <2> QED BY <2>1, <2>2
<1>5. /\ state'.sent = IF w[1].key = "sent" THEN w[1].value ELSE state.sent
      /\ state'.date = IF w[1].key = "date" THEN w[1].value ELSE state.date
      /\ state'.text = IF w[1].key = "text" THEN w[1].value ELSE state.text
  BY <1>1, Parts, RowSet
<1>6. Mid(process[p]) <=> w[1].key = "text" BY <1>1 DEF Mid
<1>7. Dated(state.text)' /\ Out(state.sent)'
  <2>1. w[1].key = "text" => Dated(w[1].value) BY <1>4 DEF Paired
  <2>2. w[1].key = "sent" => Out(w[1].value) BY <1>4 DEF Paired
  <2>3. Dated(state.text)' BY <1>3, <1>5, <2>1 DEF Dated
  <2>4. Out(state.sent)' BY <1>1, <1>3, <1>5, <2>2 DEF Out
  <2> QED BY <2>3, <2>4
<1>8. \/ /\ Len(w) > 1 /\ m.pc = "write" /\ m.writes = Tail(w) /\ m.then = process[p].then
         /\ m.day = process[p].day /\ m.date = process[p].date /\ m.text = process[p].text
         /\ DOMAIN Tail(w) = 1..(Len(w) - 1)
         /\ \A i \in DOMAIN Tail(w) : i + 1 \in DOMAIN w /\ Tail(w)[i] = w[i + 1]
      \/ Len(w) = 1 /\ m = Idle
      \/ /\ Len(w) = 1 /\ m.pc = process[p].then /\ process[p].then # "idle"
         /\ m.writes = << >> /\ m.day = process[p].day
         /\ m.date = process[p].date /\ m.text = process[p].text
  BY WriteDoes
<1>9. process[p].then \in {"idle", "core", "check", "phone"} BY Parts, Fields
<1>10. w[1].key = "date" => /\ Len(w) > 1 /\ w[2].key = "text" /\ w[2].value.day = w[1].value
  <2> SUFFICES ASSUME w[1].key = "date"
               PROVE  Len(w) > 1 /\ w[2].key = "text" /\ w[2].value.day = w[1].value
    OBVIOUS
  <2> HIDE DEF w
  <2>1. /\ 1 + 1 \in DOMAIN w /\ w[1 + 1].key = "text" /\ w[1 + 1].value.day = w[1].value
    BY <1>4 DEF Paired
  <2>2. 1 + 1 = 2 OBVIOUS
  <2>3. Len(w) > 1 BY <1>1, <2>1
  <2> QED BY <2>1, <2>2, <2>3
<1>11. Len(w) > 1 => Tail(w)[1] = w[2] /\ 1 \in DOMAIN Tail(w)
  <2> SUFFICES ASSUME Len(w) > 1 PROVE Tail(w)[1] = w[2] /\ 1 \in DOMAIN Tail(w) OBVIOUS
  <2>1. DOMAIN Tail(w) = 1..(Len(w) - 1) /\ \A i \in DOMAIN Tail(w) : Tail(w)[i] = w[i + 1]
    <3>1. Len(w) # 1
      <4> HIDE DEF w
      <4> QED BY <1>1
    <3> QED BY <1>8, <3>1
  <2> HIDE DEF w
  <2>2. 1 \in DOMAIN Tail(w) /\ 1 + 1 = 2 BY <1>1, <2>1
  <2> QED BY <2>1, <2>2
<1>12. w[1].key = "date" => Mid(m)
  <2> SUFFICES ASSUME w[1].key = "date" PROVE Mid(m) OBVIOUS
  <2>1. Len(w) > 1 /\ w[2].key = "text" BY <1>10
  <2>2. Len(w) # 1
    <3> HIDE DEF w
    <3> QED BY <1>1, <2>1
  <2>3. m.pc = "write" /\ m.writes = Tail(w) BY <1>8, <2>2
  <2> QED BY <1>11, <2>1, <2>3 DEF Mid
<1>13. w[1].key = "text" => Matches'
  <2> SUFFICES ASSUME w[1].key = "text" PROVE Matches' OBVIOUS
  <2>1. state.date = w[1].value.day BY <1>3, <1>6 DEF Fresh
  <2> QED BY <1>5, <2>1 DEF Matches
<1>14. Mid(process[p])' \/ Fits'
  <2>1. CASE w[1].key = "date" BY <1>12, <2>1 DEF Mid
  <2>2. CASE w[1].key = "text" BY <1>13, <2>2 DEF Fits
  <2>3. CASE w[1].key # "date" /\ w[1].key # "text"
    BY <1>3, <1>5, <1>6, <2>3 DEF Fits, Matches
  <2> QED BY <2>1, <2>2, <2>3
<1>15. Fresh(process[p])'
  <2>1. CASE /\ Len(w) > 1 /\ m.pc = "write" /\ m.writes = Tail(w) /\ m.then = process[p].then
             /\ m.day = process[p].day /\ m.date = process[p].date /\ m.text = process[p].text
             /\ DOMAIN Tail(w) = 1..(Len(w) - 1)
             /\ \A i \in DOMAIN Tail(w) : i + 1 \in DOMAIN w /\ Tail(w)[i] = w[i + 1]
    <3> DEFINE t == Tail(w)
    <3>1. ASSUME NEW i \in DOMAIN t
          PROVE  /\ t[i].key = "date" => /\ i + 1 \in DOMAIN t /\ t[i + 1].key = "text"
                                         /\ t[i + 1].value.day = t[i].value
                 /\ t[i].key = "text" => /\ Dated(t[i].value)
                                         /\ i > 1 => t[i - 1].key = "date"
                 /\ t[i].key = "sent" => Out(t[i].value)
      <4>1. i + 1 \in DOMAIN w /\ t[i] = w[i + 1] /\ i \in Nat BY <1>1, <2>1
      <4>2. ASSUME t[i].key = "date"
            PROVE  /\ i + 1 \in DOMAIN t /\ t[i + 1].key = "text"
                   /\ t[i + 1].value.day = t[i].value
        <5>1. /\ (i + 1) + 1 \in DOMAIN w /\ w[(i + 1) + 1].key = "text"
              /\ w[(i + 1) + 1].value.day = w[i + 1].value
          BY <1>4, <4>1, <4>2 DEF Paired
        <5>2. i + 1 \in DOMAIN t
          <6>1. DOMAIN t = 1..(Len(w) - 1) BY <2>1
          <6> HIDE DEF w, t
          <6> QED BY <1>1, <4>1, <5>1, <6>1
        <5>3. t[i + 1] = w[(i + 1) + 1] BY <2>1, <5>2
        <5> QED BY <4>1, <5>1, <5>2, <5>3
      <4>3. ASSUME t[i].key = "text"
            PROVE  Dated(t[i].value) /\ (i > 1 => t[i - 1].key = "date")
        <5>1. Dated(w[i + 1].value) /\ (i + 1 > 1 => w[(i + 1) - 1].key = "date")
          BY <1>4, <4>1, <4>3 DEF Paired
        <5>2. CASE i > 1
          <6>1. i - 1 \in DOMAIN t /\ (i - 1) + 1 = i /\ (i + 1) - 1 = i /\ i + 1 > 1
            <7>1. DOMAIN t = 1..(Len(w) - 1) BY <2>1
            <7> HIDE DEF w, t
            <7> QED BY <1>1, <4>1, <5>2, <7>1
          <6>2. t[i - 1] = w[(i - 1) + 1] BY <2>1, <6>1
          <6> QED BY <4>1, <5>1, <6>1, <6>2
        <5>3. CASE ~(i > 1) BY <4>1, <5>1, <5>3
        <5> QED BY <5>2, <5>3
      <4>4. t[i].key = "sent" => Out(t[i].value) BY <1>4, <4>1 DEF Paired
      <4> QED BY <4>2, <4>3, <4>4
    <3>2. Paired(process[p].writes)'
      <4>1. process'[p].writes = t BY <2>1
      <4>2. mailed' = mailed /\ delivered' = delivered BY <1>1
      <4> HIDE DEF t, m, w
      <4> QED BY <3>1, <4>1, <4>2 DEF Paired, Out, Dated
    <3>3. Mid(m) => state'.date = m.writes[1].value.day
      <4> SUFFICES ASSUME Mid(m) PROVE state'.date = m.writes[1].value.day OBVIOUS
      <4>1. w[2].key = "text" /\ m.writes[1] = w[2] BY <1>11, <2>1 DEF Mid
      <4>2. w[1].key = "date"
        <5> HIDE DEF w
        <5>1. 2 \in DOMAIN w /\ 2 > 1 /\ 2 - 1 = 1 BY <1>1, <2>1
        <5>2. w[2 - 1].key = "date" BY <1>4, <4>1, <5>1 DEF Paired
        <5> QED BY <5>1, <5>2
      <4> QED BY <1>5, <1>10, <4>1, <4>2
    <3>4. Fresh(process[p]) BY <1>3
    <3> QED BY <1>1, <2>1, <3>2, <3>3, <3>4 DEF Fresh, Mid, Dated
  <2>2. CASE m = Idle BY <2>2, IdleIsMemory DEF Fresh, Mid, Dated, Paired
  <2>3. CASE /\ m.pc = process[p].then /\ process[p].then # "idle"
             /\ m.writes = << >> /\ m.day = process[p].day
             /\ m.date = process[p].date /\ m.text = process[p].text
    BY <1>1, <1>3, <1>9, <2>3 DEF Fresh, Mid, Dated, Paired
  <2> QED BY <1>8, <2>1, <2>2, <2>3
<1>16. ASSUME kills = 0
       PROVE  Fits' /\ (Mid(process[p])' \/ Matches') /\ Unkilled(process[p])'
  <2>1. Fits /\ (w[1].key = "text" \/ Matches) /\ Unkilled(process[p]) BY <1>3, <1>6, <1>16
  <2>2. w[1].key = "date" =>
          w[1].value = 0 \/ (w[1].value = process[p].day /\ Today(process[p]))
    BY <1>4, <2>1 DEF Unkilled
  <2>3. Fits'
    <3>1. CASE w[1].key = "date"
      <4>1. state'.date = w[1].value /\ state'.text = state.text BY <1>5, <3>1
      <4>2. Matches BY <2>1, <3>1
      <4> QED BY <2>2, <3>1, <4>1, <4>2 DEF Fits, Matches, Today
    <3>2. CASE w[1].key = "text" BY <1>13, <3>2 DEF Fits
    <3>3. CASE w[1].key # "date" /\ w[1].key # "text"
      BY <1>5, <2>1, <3>3 DEF Fits, Matches
    <3> QED BY <3>1, <3>2, <3>3
  <2>4. Mid(process[p])' \/ Matches'
    <3>1. CASE w[1].key = "date" BY <1>12, <3>1 DEF Mid
    <3>2. CASE w[1].key = "text" BY <1>13, <3>2
    <3>3. CASE w[1].key # "date" /\ w[1].key # "text" BY <1>5, <2>1, <3>3 DEF Matches
    <3> QED BY <3>1, <3>2, <3>3
  <2>5. /\ Today(process[p]) => state'.date = 0 \/ state'.date = process[p].day
        /\ w[1].key = "date" => state'.date = 0 \/ state'.date = process[p].day
    BY <1>5, <2>2 DEF Today
  <2>6. Unkilled(process[p])'
    <3>1. CASE /\ Len(w) > 1 /\ m.pc = "write" /\ m.writes = Tail(w) /\ m.then = process[p].then
               /\ m.day = process[p].day
               /\ DOMAIN Tail(w) = 1..(Len(w) - 1)
               /\ \A i \in DOMAIN Tail(w) : i + 1 \in DOMAIN w /\ Tail(w)[i] = w[i + 1]
      <4>1. m.then \in {"core", "phone"} => Today(process[p])'
        BY <1>1, <2>1, <2>5, <3>1 DEF Unkilled, Today
      <4>2. m.then = "check" =>
              Today(process[p])' \/ \E i \in DOMAIN m.writes : m.writes[i].key = "date"
        <5> SUFFICES ASSUME m.then = "check", ~Today(process[p])'
                     PROVE  \E i \in DOMAIN m.writes : m.writes[i].key = "date"
          OBVIOUS
        <5>1. ~Today(process[p]) /\ w[1].key # "date" BY <2>5, <3>1 DEF Today
        <5>2. PICK i \in DOMAIN w : w[i].key = "date" BY <1>1, <2>1, <3>1, <5>1 DEF Unkilled
        <5>3. i - 1 \in DOMAIN Tail(w) /\ (i - 1) + 1 = i
          <6> HIDE DEF w
          <6>1. i # 1 BY <5>1, <5>2
          <6> QED BY <1>1, <3>1, <5>2, <6>1
        <5>4. Tail(w)[i - 1] = w[(i - 1) + 1] BY <3>1, <5>3
        <5> QED BY <3>1, <5>2, <5>3, <5>4
      <4>3. ASSUME NEW i \in DOMAIN m.writes, m.writes[i].key = "date"
            PROVE  m.writes[i].value = 0 \/ (m.writes[i].value = m.day /\ Today(process[p])')
        <5>1. i + 1 \in DOMAIN w /\ m.writes[i] = w[i + 1] BY <3>1
        <5>2. w[i + 1].value = 0 \/ (w[i + 1].value = process[p].day /\ Today(process[p]))
          BY <2>1, <4>3, <5>1 DEF Unkilled
        <5> QED BY <2>5, <3>1, <5>1, <5>2 DEF Today
      <4> QED BY <3>1, <4>1, <4>2, <4>3 DEF Unkilled
    <3>2. CASE m = Idle BY <3>2, IdleIsMemory DEF Unkilled
    <3>3. CASE /\ Len(w) = 1 /\ m.pc = process[p].then /\ process[p].then # "idle"
               /\ m.writes = << >> /\ m.day = process[p].day
      <4>1. \A i \in DOMAIN w : i = 1
        <5> HIDE DEF w
        <5> QED BY <1>1, <3>3
      <4>2. Today(process[p])' BY <1>1, <1>9, <2>1, <2>5, <3>3, <4>1 DEF Unkilled, Today
      <4> QED BY <1>9, <3>3, <4>2 DEF Unkilled
    <3> QED BY <1>8, <3>1, <3>2, <3>3
  <2> QED BY <2>3, <2>4, <2>6
<1> QED BY <1>1, <1>2, <1>7, <1>14, <1>15, <1>16, StaleFrom

\* The rows a process is about to write.
LEMMA ClearPaired ==
  /\ Paired(ClearPending) /\ ClearPending[1].key # "text" /\ 1 \in DOMAIN ClearPending
  /\ ClearPending[1].key = "date"
  /\ \A i \in DOMAIN ClearPending : ClearPending[i].key = "date" => ClearPending[i].value = 0
<1> DEFINE w == ClearPending
<1>1. /\ DOMAIN w = 1..3 /\ w[1].key = "date" /\ w[1].value = 0
      /\ w[2].key = "text" /\ w[2].value = NoText /\ w[3].key = "core"
  BY ClearIs
<1> HIDE DEF w
<1>2. \A i \in 1..3 : i = 1 \/ i = 2 \/ i = 3 OBVIOUS
<1>3. Paired(w) BY <1>1, <1>2, NoTextIsText DEF Paired, Dated
<1> QED BY <1>1, <1>2, <1>3 DEF w

LEMMA CorePaired ==
  /\ Paired(CoreRows) /\ CoreRows[1].key # "text"
  /\ \E i \in DOMAIN CoreRows : CoreRows[i].key = "date"
  /\ \A i \in DOMAIN CoreRows : CoreRows[i].key = "date" => CoreRows[i].value = 0
<1> DEFINE w == CoreRows
<1>1. \/ /\ DOMAIN w = 1..4 /\ w[1].key = "month" /\ w[2].key = "date" /\ w[2].value = 0
         /\ w[3].key = "text" /\ w[3].value = NoText /\ w[4].key = "core"
      \/ /\ DOMAIN w = 1..3 /\ w[1].key = "date" /\ w[1].value = 0
         /\ w[2].key = "text" /\ w[2].value = NoText /\ w[3].key = "core"
  BY CoreIs
<1> HIDE DEF w
<1>2. CASE /\ DOMAIN w = 1..4 /\ w[1].key = "month" /\ w[2].key = "date" /\ w[2].value = 0
           /\ w[3].key = "text" /\ w[3].value = NoText /\ w[4].key = "core"
  <2>1. \A i \in 1..4 : i = 1 \/ i = 2 \/ i = 3 \/ i = 4 OBVIOUS
  <2>2. Paired(w) BY <1>2, <2>1, NoTextIsText DEF Paired, Dated
  <2>3. \E i \in DOMAIN w : w[i].key = "date" BY <1>2
  <2> QED BY <1>2, <2>1, <2>2, <2>3 DEF w
<1>3. CASE /\ DOMAIN w = 1..3 /\ w[1].key = "date" /\ w[1].value = 0
           /\ w[2].key = "text" /\ w[2].value = NoText /\ w[3].key = "core"
  <2>1. \A i \in 1..3 : i = 1 \/ i = 2 \/ i = 3 OBVIOUS
  <2>2. Paired(w) BY <1>3, <2>1, NoTextIsText DEF Paired, Dated
  <2>3. \E i \in DOMAIN w : w[i].key = "date" BY <1>3
  <2> QED BY <1>3, <2>1, <2>2, <2>3 DEF w
<1> QED BY <1>1, <1>2, <1>3

LEMMA StorePaired ==
  ASSUME NEW d \in 0..MaxDay, NEW text \in Texts, NEW core \in BOOLEAN, text.day = d, Dated(text)
  PROVE  LET w == StorePending(d, text, core) IN
         /\ Paired(w) /\ w[1].key # "text"
         /\ \A i \in DOMAIN w : w[i].key = "date" => w[i].value = d
<1> DEFINE w == StorePending(d, text, core)
<1>1. /\ DOMAIN w = 1..3 /\ w[1].key = "date" /\ w[1].value = d
      /\ w[2].key = "text" /\ w[2].value = text /\ w[3].key = "core"
  BY StoreIs
<1> HIDE DEF w
<1>2. \A i \in 1..3 : i = 1 \/ i = 2 \/ i = 3 OBVIOUS
<1>3. Paired(w) BY <1>1, <1>2 DEF Paired
<1> QED BY <1>1, <1>2, <1>3 DEF w

\* Only a sent row, and perhaps the month.
LEMMA MarkPaired ==
  ASSUME NEW text \in Texts
  PROVE  LET w == MarkSent(text) IN
         \A i \in DOMAIN w : /\ w[i].key # "date" /\ w[i].key # "text"
                             /\ w[i].key = "sent" => w[i].value = text.day
<1> DEFINE w == MarkSent(text)
<1>1. /\ DOMAIN w = 1..1 \/ (DOMAIN w = 1..2 /\ w[2].key = "month")
      /\ w[1].key = "sent" /\ w[1].value = text.day
  BY MarkIs
<1> HIDE DEF w
<1>2. \A i \in 1..2 : i = 1 \/ i = 2 OBVIOUS
<1>3. \A i \in DOMAIN w : i = 1 \/ (i = 2 /\ w[2].key = "month") BY <1>1, <1>2
<1>4. \A i \in DOMAIN w : /\ w[i].key # "date" /\ w[i].key # "text"
                          /\ w[i].key = "sent" => w[i].value = text.day
  BY <1>1, <1>3
<1> QED BY <1>4 DEF w

LEMMA StaleStep == TypeInv /\ StaleInv /\ [Next]_vars => StaleInv'
<1> SUFFICES ASSUME TypeInv, StaleInv, [Next]_vars, ~overlap', kills' <= 1 PROVE StaleInv'
  BY DEF StaleInv
<1>1. CASE UNCHANGED vars
  <2>1. UNCHANGED <<state, process, delivered, mailed, kills, overlap>> BY <1>1 DEF vars, outVars
  <2> QED BY <2>1 DEF StaleInv, Apart, Fresh, Unkilled, Today, Fits, Matches, Mid, Paired, Out, Dated
<1>2. CASE NextDay
  <2>1. UNCHANGED <<state, process, delivered, mailed, kills, overlap>> BY <1>2 DEF NextDay, outVars
  <2> QED BY <2>1 DEF StaleInv, Apart, Fresh, Unkilled, Today, Fits, Matches, Mid, Paired, Out, Dated
<1>3. ASSUME NEW p \in Processes, Step(p) PROVE StaleInv'
  <2> DEFINE m == process'[p]
  <2>1. CASE Start(p)
    <3>1. /\ UNCHANGED <<state, delivered, mailed, kills>> /\ process[p].pc = "idle" /\ Others(p)
          /\ overlap' = (overlap \/ \E q \in Processes : process[q].pc # "idle")
          /\ m.pc = "date" /\ m.text = NoText /\ m.writes = << >>
      BY <2>1, StartDoes DEF outVars
    <3>2. Calm /\ \A q \in Processes : process[q].pc = "idle" BY <3>1, Parts DEF Calm
    <3>3. Out(state.sent) BY <3>2, Solo
    <3>4. Fresh(process[p])' BY <3>1 DEF Fresh, Mid, Dated, Paired
    <3>5. Unkilled(process[p])' BY <3>1 DEF Unkilled
    <3>6. Out(state.sent)' BY <3>1, <3>3 DEF Out
    <3> QED BY <3>1, <3>2, <3>4, <3>5, <3>6, StaleRead
  <2>2. CASE Write(p)
    <3>1. Calm BY <2>2, WriteDoes DEF Calm
    <3> QED BY <2>2, <3>1, StaleWrite
  <2>3. CASE Crash(p)
    <3>1. /\ UNCHANGED <<state, delivered, mailed, overlap>> /\ process[p].pc # "idle"
          /\ kills' = kills + 1 /\ Others(p) /\ m = Idle
      BY <2>3, CrashDoes DEF outVars
    <3>2. kills = 0 BY <3>1, Parts
    <3>3. Calm BY <3>1, <3>2 DEF Calm
    <3>4. \A q \in Processes \ {p} : process[q].pc = "idle" BY <3>1, <3>3, Alone
    <3>5. Dated(state.text) /\ Out(state.sent) /\ Fits BY <3>2, <3>3, <3>4, Solo
    <3>6. Dated(state.text)' /\ Out(state.sent)' /\ Fits'
      BY <3>1, <3>5 DEF Dated, Out, Fits, Matches
    <3>7. Fresh(process[p])' BY <3>1, IdleIsMemory DEF Fresh, Mid, Dated, Paired
    <3>8. kills' # 0 BY <3>1, <3>2
    <3> QED BY <3>3, <3>1, <3>4, <3>6, <3>7, <3>8, StaleFrom
  <2>4. ASSUME process[p].pc # "idle", process[p].pc # "write", UNCHANGED <<state, kills, overlap>>,
               Others(p), mailed \subseteq mailed',
               \A e \in 1..MaxDay : delivered[e] > 0 => delivered'[e] > 0,
               Fresh(process[p])', kills = 0 => Unkilled(process[p])'
        PROVE  StaleInv'
    <3>1. Calm BY <2>4 DEF Calm
    <3>2. \A q \in Processes \ {p} : process[q].pc = "idle" BY <2>4, <3>1, Alone
    <3>3. Out(state.sent) /\ state.sent \in 0..MaxDay BY <3>1, <3>2, Solo, Parts
    <3>4. Out(state.sent)' 
      <4>1. Out(state.sent)' = (state'.sent > 0 => state'.sent \in mailed' \/ delivered'[state'.sent] > 0)
        BY DEF Out
      <4>2. state.sent > 0 => state.sent \in 1..MaxDay BY <3>3
      <4> QED BY <2>4, <3>3, <4>2 DEF Out
    <3> QED BY <2>4, <3>1, <3>2, <3>4, StaleRead
  <2>5. ASSUME process[p].pc # "idle", process[p].pc # "write", UNCHANGED <<kills, overlap>>
        PROVE  /\ Fresh(process[p]) /\ Dated(state.text) /\ Fits
               /\ kills = 0 => Unkilled(process[p])
               /\ process[p].writes = << >> /\ process[p].day > 0 /\ process[p].text \in Texts
               /\ process[p].day \in 0..MaxDay
    <3>1. Calm BY <2>5 DEF Calm
    <3>2. \A q \in Processes \ {p} : process[q].pc = "idle" BY <2>5, <3>1, Alone
    <3>3. ~Mid(process[p]) /\ process[p].writes = << >> BY <2>5, NoWrites DEF Mid
    <3>4. /\ Fresh(process[p]) /\ Dated(state.text) /\ Fits
          /\ kills = 0 => Unkilled(process[p])
      BY <3>1, <3>2, <3>3, Solo
    <3>5. process[p].text \in Texts /\ process[p].day \in 0..MaxDay BY Parts, Fields
    <3>6. process[p].day > 0 BY <2>5 DEF TypeInv, Fine
    <3> QED BY <3>3, <3>4, <3>5, <3>6
  <2>6. CASE ReadDate(p)
    <3>1. /\ process[p].pc = "date" /\ UNCHANGED <<state, kills, overlap, mailed, delivered>> /\ Others(p)
          /\ m.writes = << >>
          /\ \/ m = Idle
             \/ /\ state.date = 0 /\ m.pc = "check" /\ m.text = process[p].text
             \/ /\ m.pc = "text" /\ m.text = process[p].text /\ m.date = state.date
      BY <2>6, ReadDateDoes DEF outVars
    <3>2. Fresh(process[p]) BY <2>5, <3>1
    <3>3. Fresh(process[p])' BY <3>1, <3>2, IdleIsMemory DEF Fresh, Mid, Dated, Paired
    <3>4. Unkilled(process[p])' BY <3>1, IdleIsMemory DEF Unkilled, Today
    <3> QED BY <2>4, <3>1, <3>3, <3>4
  <2>7. CASE ReadText(p)
    <3>1. /\ process[p].pc = "text" /\ UNCHANGED <<state, kills, overlap, mailed, delivered>> /\ Others(p)
          /\ m.day = process[p].day /\ m.date = process[p].date
      BY <2>7, ReadTextDoes DEF outVars
    <3>2. /\ Fresh(process[p]) /\ Dated(state.text) /\ Fits /\ process[p].day > 0
          /\ process[p].day \in 0..MaxDay
      BY <2>5, <3>1
    <3>3. process[p].date = state.date BY <3>1, <3>2 DEF Fresh
    <3>4. CASE /\ m.pc = "resend" /\ m.writes = << >> /\ m.text = state.text /\ state.text # NoText
               /\ process[p].date = process[p].day
      <4>1. state.date = process[p].day /\ state.date # 0 /\ state.text.day # 0
        <5>1. state.text.day > 0 /\ state.text.day \in Nat BY <3>2, <3>4, Parts DEF Dated, Texts
        <5> QED BY <3>2, <3>3, <3>4, <5>1
      <4>2. state.text.day = process[p].day BY <3>2, <4>1 DEF Fits, Matches
      <4>3. Fresh(process[p])' BY <3>1, <3>2, <3>4, <4>2 DEF Fresh, Mid, Dated, Paired
      <4>4. Unkilled(process[p])' BY <3>1, <3>4, <4>1 DEF Unkilled, Today
      <4> QED BY <2>4, <3>1, <4>3, <4>4
    <3>5. CASE /\ m.pc = "write" /\ m.writes = ClearPending
               /\ m.then \in {"check", "idle"} /\ m.text = process[p].text
      <4>1. Paired(ClearPending)'
        BY <3>1, ClearPaired DEF Paired, Out, Dated
      <4>2. Fresh(process[p])' BY <3>1, <3>2, <3>5, <4>1, ClearPaired DEF Fresh, Mid, Dated
      <4>3. Unkilled(process[p])' BY <3>5, ClearPaired DEF Unkilled
      <4> QED BY <2>4, <3>1, <4>2, <4>3
    <3> QED BY <2>7, <3>4, <3>5, ReadTextDoes
  <2>8. CASE Resend(p)
    <3>1. /\ process[p].pc = "resend" /\ UNCHANGED <<state, kills, overlap, mailed>> /\ Others(p)
          /\ Arrives(process[p].text) /\ m.pc = "write" /\ m.then = "core"
          /\ m.writes = <<Row("sent", process[p].date)>> /\ m.day = process[p].day
          /\ m.text = process[p].text
      BY <2>8, ResendDoes
    <3>2. /\ Fresh(process[p]) /\ (kills = 0 => Unkilled(process[p])) /\ process[p].day > 0
          /\ process[p].text \in Texts
      BY <2>5, <3>1
    <3>3. process[p].text.day = process[p].date /\ process[p].date > 0 BY <3>1, <3>2 DEF Fresh
    <3>4. /\ \A e \in 1..MaxDay : delivered[e] > 0 => delivered'[e] > 0
          /\ delivered'[process[p].date] > 0
      BY <3>1, <3>2, <3>3, ArrivesDoes
    <3>5. DOMAIN m.writes = 1..1 /\ m.writes[1].key = "sent" /\ m.writes[1].value = process[p].date
      BY <3>1, RowIs
    <3>6. \A i \in DOMAIN m.writes : m.writes[i].key = "sent" /\ m.writes[i].value = process[p].date
      BY <3>5
    <3>7. Paired(process[p].writes)' BY <3>4, <3>6 DEF Paired, Out
    <3>8. Fresh(process[p])' BY <3>1, <3>2, <3>5, <3>7 DEF Fresh, Mid, Dated
    <3>9. kills = 0 => Unkilled(process[p])' BY <3>1, <3>2, <3>6 DEF Unkilled, Today
    <3> QED BY <2>4, <3>1, <3>4, <3>8, <3>9
  <2>9. CASE ResendFails(p)
    <3>1. /\ process[p].pc = "resend" /\ UNCHANGED <<state, kills, overlap, mailed>> /\ Others(p)
          /\ Arrives(process[p].text) \/ UNCHANGED <<delivered, planShown>>
          /\ \/ m = Idle
             \/ /\ m.pc = "check" /\ m.day = process[p].day
                /\ m.text = process[p].text /\ m.writes = << >>
      BY <2>9, ResendFailsDoes
    <3>2. /\ Fresh(process[p]) /\ (kills = 0 => Unkilled(process[p])) /\ process[p].text \in Texts
      BY <2>5, <3>1
    <3>3. \A e \in 1..MaxDay : delivered[e] > 0 => delivered'[e] > 0
      BY <3>1, <3>2, ArrivesDoes
    <3>4. Fresh(process[p])' BY <3>1, <3>2, IdleIsMemory DEF Fresh, Mid, Dated, Paired
    <3>5. kills = 0 => Unkilled(process[p])' BY <3>1, <3>2, IdleIsMemory DEF Unkilled, Today
    <3> QED BY <2>4, <3>1, <3>3, <3>4, <3>5
  <2>10. CASE ReadCore(p)
    <3>1. /\ process[p].pc = "core" /\ UNCHANGED <<state, kills, overlap, mailed, delivered>> /\ Others(p)
          /\ m.pc = "write" /\ m.writes = CoreRows /\ m.then \in {"check", "idle"}
          /\ m.text = process[p].text
      BY <2>10, ReadCoreDoes DEF outVars
    <3>2. Fresh(process[p]) BY <2>5, <3>1
    <3>3. Paired(process[p].writes)' BY <3>1, CorePaired DEF Paired, Out, Dated
    <3>4. Fresh(process[p])' BY <3>1, <3>2, <3>3, CorePaired DEF Fresh, Mid, Dated
    <3>5. Unkilled(process[p])' BY <3>1, CorePaired DEF Unkilled
    <3> QED BY <2>4, <3>1, <3>4, <3>5
  <2>11. CASE Check(p)
    <3>1. /\ process[p].pc = "check" /\ UNCHANGED <<state, kills, overlap, mailed, delivered>> /\ Others(p)
          /\ m.writes = << >>
          /\ \/ m = Idle
             \/ m.pc = "collect" /\ m.day = process[p].day /\ m.text = process[p].text
      BY <2>11, CheckDoes DEF outVars
    <3>2. Fresh(process[p]) /\ (kills = 0 => Unkilled(process[p])) BY <2>5, <3>1
    <3>3. Fresh(process[p])' BY <3>1, <3>2, IdleIsMemory DEF Fresh, Mid, Dated, Paired
    <3>4. kills = 0 => Unkilled(process[p])' BY <3>1, <3>2, IdleIsMemory DEF Unkilled, Today
    <3> QED BY <2>4, <3>1, <3>3, <3>4
  <2>12. CASE Collect(p)
    <3>1. /\ process[p].pc = "collect" /\ UNCHANGED <<state, kills, overlap, mailed, delivered>> /\ Others(p)
          /\ m.writes = << >> /\ m.pc \in {"mail", "phone"} /\ m.day = process[p].day
          /\ m.text.day = process[p].day /\ m.day > 0
      BY <2>12, CollectDoes DEF outVars
    <3>2. kills = 0 => Unkilled(process[p]) BY <2>5, <3>1
    <3>3. Fresh(process[p])' BY <3>1 DEF Fresh, Mid, Dated, Paired
    <3>4. kills = 0 => Unkilled(process[p])' BY <3>1, <3>2 DEF Unkilled, Today
    <3> QED BY <2>4, <3>1, <3>3, <3>4
  <2>13. CASE Mail(p) \/ Phone(p)
    <3>1. /\ process[p].pc \in {"mail", "phone"} /\ UNCHANGED <<state, kills, overlap>> /\ Others(p)
          /\ m.pc = "write" /\ m.writes = MarkSent(process[p].text) /\ m.then \in {"phone", "idle"}
          /\ m.day = process[p].day /\ m.text = process[p].text
      BY <2>13, MailDoes, PhoneDoes
    <3>2. /\ Fresh(process[p]) /\ (kills = 0 => Unkilled(process[p])) /\ process[p].day > 0
          /\ process[p].text \in Texts /\ process[p].day \in 0..MaxDay
      BY <2>5, <3>1
    <3>3. process[p].text.day = process[p].day BY <3>1, <3>2 DEF Fresh
    <3>4. /\ mailed \subseteq mailed'
          /\ \A e \in 1..MaxDay : delivered[e] > 0 => delivered'[e] > 0
          /\ process[p].day \in mailed' \/ delivered'[process[p].day] > 0
      <4>1. CASE Mail(p) BY <4>1, MailDoes
      <4>2. CASE Phone(p) BY <3>2, <3>3, <4>2, PhoneDoes, ArrivesDoes
      <4> QED BY <2>13, <4>1, <4>2
    <3>5. \A i \in DOMAIN m.writes : /\ m.writes[i].key # "date" /\ m.writes[i].key # "text"
                                     /\ m.writes[i].key = "sent" => m.writes[i].value = process[p].day
      BY <3>1, <3>2, <3>3, MarkPaired
    <3>6. Paired(process[p].writes)' BY <3>4, <3>5 DEF Paired, Out
    <3>7. 1 \in DOMAIN m.writes
      <4>1. DOMAIN m.writes = 1..1 \/ DOMAIN m.writes = 1..2 BY <3>1, <3>2, MarkIs
      <4> QED BY <4>1
    <3>8. Fresh(process[p])' BY <3>1, <3>2, <3>3, <3>5, <3>6, <3>7 DEF Fresh, Mid, Dated
    <3>9. kills = 0 => Unkilled(process[p])' BY <3>1, <3>2, <3>5 DEF Unkilled, Today
    <3> QED BY <2>4, <3>1, <3>4, <3>8, <3>9
  <2>14. CASE PhoneFails(p)
    <3> DEFINE rows == StorePending(process[p].day, process[p].text, process[p].text.plan)
    <3>1. /\ process[p].pc = "phone" /\ UNCHANGED <<state, kills, overlap, mailed>> /\ Others(p)
          /\ Arrives(process[p].text) \/ UNCHANGED <<delivered, planShown>>
          /\ m.pc = "write" /\ m.writes = rows /\ m.then = "idle"
          /\ m.day = process[p].day /\ m.text = process[p].text
      BY <2>14, PhoneFailsDoes
    <3>2. /\ Fresh(process[p]) /\ (kills = 0 => Unkilled(process[p]))
          /\ process[p].text \in Texts /\ process[p].day \in 0..MaxDay
      BY <2>5, <3>1
    <3>3. process[p].text.day = process[p].day /\ Dated(process[p].text) BY <3>1, <3>2 DEF Fresh
    <3>4. \A e \in 1..MaxDay : delivered[e] > 0 => delivered'[e] > 0
      BY <3>1, <3>2, ArrivesDoes
    <3>5. /\ Paired(rows) /\ rows[1].key # "text"
          /\ \A i \in DOMAIN rows : rows[i].key = "date" => rows[i].value = process[p].day
      <4>1. process[p].text.plan \in BOOLEAN BY <3>2 DEF Texts
      <4> QED BY <3>2, <3>3, <4>1, StorePaired
    <3>6. \A i \in DOMAIN rows : rows[i].key # "sent"
      <4>1. process[p].text.plan \in BOOLEAN BY <3>2 DEF Texts
      <4>2. /\ DOMAIN rows = 1..3 /\ rows[1].key = "date" /\ rows[2].key = "text"
            /\ rows[3].key = "core"
        BY <3>2, <4>1, StoreIs
      <4> HIDE DEF rows
      <4>3. \A i \in 1..3 : i = 1 \/ i = 2 \/ i = 3 OBVIOUS
      <4> QED BY <4>2, <4>3
    <3> HIDE DEF rows
    <3>7. Paired(process[p].writes)' BY <3>1, <3>5, <3>6 DEF Paired, Out, Dated
    <3>8. Fresh(process[p])' BY <3>1, <3>2, <3>5, <3>7 DEF Fresh, Mid, Dated
    <3>9. kills = 0 => Unkilled(process[p])' BY <3>1, <3>2, <3>5 DEF Unkilled, Today
    <3> QED BY <2>4, <3>1, <3>4, <3>8, <3>9
  <2> QED BY <1>3, <2>1, <2>2, <2>3, <2>6, <2>7, <2>8, <2>9, <2>10, <2>11, <2>12, <2>13, <2>14
          DEF Step
<1> QED BY <1>1, <1>2, <1>3 DEF Next

LEMMA StaleInit == Init => StaleInv
<1> SUFFICES ASSUME Init PROVE StaleInv OBVIOUS
<1>1. /\ state = [sent |-> 0, date |-> 0, text |-> NoText, core |-> FALSE, month |-> FALSE]
      /\ \A p \in Processes : process[p] = Idle
  BY DEF Init
<1>2. state.sent = 0 /\ state.date = 0 /\ state.text = NoText BY <1>1
<1>3. Dated(state.text) /\ Out(state.sent) /\ Matches /\ Fits
  BY <1>2, NoTextIsText DEF Dated, Out, Matches, Fits
<1>4. Fresh(Idle) /\ Unkilled(Idle) BY IdleIsMemory DEF Fresh, Mid, Dated, Paired, Unkilled
<1>5. Apart BY <1>1, IdleIsMemory DEF Apart
<1> QED BY <1>1, <1>3, <1>4, <1>5 DEF StaleInv

(* While the two processes do not overlap and at most one was killed, a    *)
(* resend sends the digest of its own day and the day marked as sent was   *)
(* mailed or arrived.  The pending date and the pending text are two rows: *)
(* they match, or one of them is missing after the kill; while nothing was *)
(* killed a run that digests has no pending of another day before it, so   *)
(* the date of a new digest is never joined to an old text.                *)
THEOREM SendsItsOwnDay == Spec => []NeverStale
<1>1. TypeInv /\ StaleInv => NeverStale BY DEF StaleInv, NeverStale, Fresh, Out
<1> QED BY <1>1, TypeInit, TypeStep, StaleInit, StaleStep, PTL DEF Spec

-----------------------------------------------------------------------------
(* A repeated digest has a failed send or a killed process behind it: with *)
(* every delivery the copies that can still arrive without another fault   *)
(* get fewer, and a fault or a kill adds two of them at most.              *)

HasRow(w, key) == \E i \in DOMAIN w : w[i].key = key

\* The rows speak of today or, cleared, of nothing; a date comes just before the text.
RowsOfToday(w) ==
  /\ \A i \in DOMAIN w : /\ w[i].key = "sent" => w[i].value = day
                         /\ w[i].key = "text" => w[i].value.day <= day
                         /\ w[i].key = "date" => i + 1 \in DOMAIN w /\ w[i + 1].key = "text"
  /\ \A i, j \in DOMAIN w : w[i].key = "text" /\ w[j].key = "text" => i = j

\* The rows of a process that never builds a digest: it only clears.
Clears(w) ==
  \A i \in DOMAIN w : /\ w[i].key = "date" => w[i].value = 0
                      /\ w[i].key = "text" => w[i].value.day = 0

Current(m) ==
  /\ m.pc # "idle" => m.day = day
  /\ m.text.day <= day
  /\ m.pc = "resend" => m.date = day
  /\ m.pc = "core" => state.sent = day
  /\ m.pc \in {"mail", "phone"} \/ (m.pc = "write" /\ m.then = "phone") => m.text.day = day
  /\ m.pc = "write" /\ m.then = "core" => DOMAIN m.writes = 1..1 /\ m.writes[1].key = "sent"
  /\ RowsOfToday(m.writes)

DayInv ==
  /\ state.sent <= day /\ state.text.day <= day
  /\ ~process["intraday"].digest /\ Clears(process["intraday"].writes)
  /\ \A p \in Processes : Current(process[p])

-----------------------------------------------------------------------------
(* The copies that can still arrive.                                       *)

Composing(m) == m.pc \in {"collect", "mail", "phone"} \/ (m.pc = "write" /\ m.then = "phone")

\* The daily run can still build the digest of day d and send it.
OwnCopy(d) ==
  LET m == process["daily"] IN
  \/ d > day
  \/ d = day /\ Composing(m)
  \/ d = day /\ state.sent # day /\ m.pc # "resend" /\ ~HasRow(m.writes, "sent")

\* A pending text of day d, or its date, is still to be written.
Comes(w, d) == \E i \in DOMAIN w : w[i].key = "text" /\ w[i].value.day = d
DateComes(w) == \E i \in DOMAIN w : w[i].key = "date" /\ w[i].value # 0
TextComing(d) == Comes(process["daily"].writes, d)
DateComing == DateComes(process["daily"].writes)

\* A process that will read the pending rows as they are; one that has yet to clear the text.
WillRead(m) ==
  \/ m.pc \in {"idle", "date", "check", "collect", "mail", "phone"}
  \/ m.pc = "write" /\ m.then # "core" /\ ~HasRow(m.writes, "text")
HalfCleared(m) ==
  /\ m.pc = "write" /\ m.then # "core" /\ HasRow(m.writes, "text") /\ ~HasRow(m.writes, "date")

Resends(d, m, there) ==
  \/ m.pc = "resend" /\ m.text.day = d
  \/ m.pc = "text" /\ there
  \/ WillRead(m) /\ state.date # 0 /\ there

There(d) == state.text.day = d
OldCopy(d) == Resends(d, process["daily"], There(d)) \/ TextComing(d)

\* The other process: the text that is there, or the one that comes after its date.
Soon(d) == TextComing(d) /\ ~DateComing
OtherCopy(d) ==
  LET m == process["intraday"] IN
  \/ Resends(d, m, There(d) \/ Soon(d))
  \/ HalfCleared(m) /\ state.date # 0 /\ Soon(d)
  \/ WillRead(m) /\ state.date = 0 /\ There(d) /\ DateComing /\ ~TextComing(d)
NextCopy(d) == TextComing(d) /\ DateComing

Count(b) == IF b THEN 1 ELSE 0

\* A run that has passed the resend sends its own digest, and resends the next time.
Sum(own, old, passed, other, next) ==
  (IF passed THEN Count(own) + Count(old) ELSE Count(own \/ old)) + Count(other) + Count(next)

Owed(d) ==
  Sum(OwnCopy(d), OldCopy(d), Digesting(process["daily"]), OtherCopy(d), NextCopy(d))

RepeatsInv == \A d \in 1..MaxDay : delivered[d] + Owed(d) <= 1 + 2 * (faults + kills)

LEMMA CopyTypes ==
  ASSUME NEW d
  PROVE  /\ OwnCopy(d) \in BOOLEAN /\ OldCopy(d) \in BOOLEAN /\ OtherCopy(d) \in BOOLEAN
         /\ NextCopy(d) \in BOOLEAN /\ Digesting(process["daily"]) \in BOOLEAN
BY DEF OwnCopy, OldCopy, OtherCopy, NextCopy, Digesting, Resends, TextComing, Comes

-----------------------------------------------------------------------------
(* The rows of each set of writes.                                         *)

LEMMA ThreeIndices == \A i \in 1..3 : i = 1 \/ i = 2 \/ i = 3
OBVIOUS

LEMMA NoRows ==
  ASSUME NEW d
  PROVE  /\ ~HasRow(<< >>, "sent") /\ ~HasRow(<< >>, "text") /\ ~HasRow(<< >>, "date")
         /\ ~Comes(<< >>, d) /\ ~DateComes(<< >>) /\ RowsOfToday(<< >>) /\ Clears(<< >>)
BY DEF HasRow, Comes, DateComes, RowsOfToday, Clears

LEMMA SentRows ==
  ASSUME NEW x
  PROVE  LET w == <<Row("sent", x)>> IN
         /\ DOMAIN w = 1..1 /\ w[1].key = "sent" /\ HasRow(w, "sent") /\ Clears(w)
         /\ x = day => RowsOfToday(w)
         /\ \A d : ~Comes(w, d)
         /\ ~DateComes(w)
<1> DEFINE w == <<Row("sent", x)>>
<1>1. DOMAIN w = 1..1 /\ w[1].key = "sent" /\ w[1].value = x BY RowIs
<1> HIDE DEF w
<1>2. \A i \in DOMAIN w : i = 1 BY <1>1
<1>3. HasRow(w, "sent") BY <1>1 DEF HasRow
<1>4. Clears(w) /\ (\A d : ~Comes(w, d)) /\ ~DateComes(w) BY <1>1, <1>2 DEF Clears, Comes, DateComes
<1>5. x = day => RowsOfToday(w) BY <1>1, <1>2 DEF RowsOfToday
<1> QED BY <1>1, <1>3, <1>4, <1>5 DEF w

\* A date, a text of today at most, and the core: rows to store or to clear a pending.
LEMMA PendingRows ==
  ASSUME TypeInv, NEW w, DOMAIN w = 1..3, w[1].key = "date", w[2].key = "text", w[3].key = "core",
         w[2].value.day <= day
  PROVE  /\ RowsOfToday(w) /\ HasRow(w, "text") /\ HasRow(w, "date") /\ ~HasRow(w, "sent")
         /\ w[1].value = 0 /\ w[2].value.day = 0 => Clears(w)
         /\ w[1].value # 0 => DateComes(w)
         /\ \A d : Comes(w, d) <=> w[2].value.day = d
<1>1. 1 \in 1..3 /\ 2 \in 1..3 /\ 1 + 1 = 2 OBVIOUS
<1>2. RowsOfToday(w) BY <1>1, ThreeIndices DEF RowsOfToday
<1>3. HasRow(w, "text") /\ HasRow(w, "date") BY <1>1 DEF HasRow
<1>4. ~HasRow(w, "sent") BY ThreeIndices DEF HasRow
<1>5. w[1].value = 0 /\ w[2].value.day = 0 => Clears(w) BY ThreeIndices DEF Clears
<1>6. w[1].value # 0 => DateComes(w) BY <1>1 DEF DateComes
<1>7. \A d : Comes(w, d) <=> w[2].value.day = d BY <1>1, ThreeIndices DEF Comes
<1> QED BY <1>2, <1>3, <1>4, <1>5, <1>6, <1>7

LEMMA ClearsBringNothing ==
  ASSUME NEW w, Clears(w), NEW d \in 1..MaxDay
  PROVE  ~Comes(w, d) /\ ~DateComes(w)
BY Bounds DEF Clears, Comes, DateComes

LEMMA ClearRowsDo ==
  ASSUME TypeInv
  PROVE  /\ RowsOfToday(ClearPending) /\ HasRow(ClearPending, "text") /\ HasRow(ClearPending, "date")
         /\ ~HasRow(ClearPending, "sent") /\ Clears(ClearPending)
<1>1. 0 <= day BY Parts
<1>2. NoText.day <= day BY <1>1, NoTextIsText
<1> QED BY <1>2, ClearIs, NoTextIsText, PendingRows

LEMMA CoreRowsDo ==
  ASSUME TypeInv
  PROVE  /\ RowsOfToday(CoreRows) /\ HasRow(CoreRows, "text") /\ HasRow(CoreRows, "date")
         /\ ~HasRow(CoreRows, "sent") /\ Clears(CoreRows)
<1> DEFINE w == CoreRows
<1>1. 0 <= day /\ NoText.day <= day BY Parts, NoTextIsText
<1>2. CASE DOMAIN w = 1..3
  <2>1. /\ w[1].key = "date" /\ w[1].value = 0 /\ w[2].key = "text" /\ w[2].value = NoText
        /\ w[3].key = "core"
    <3>1. ~(DOMAIN w = 1..4)
      <4> HIDE DEF w
      <4>1. 4 \in 1..4 /\ 4 \notin 1..3 OBVIOUS
      <4> QED BY <1>2, <4>1
    <3> QED BY <3>1, CoreIs
  <2> HIDE DEF w
  <2>2. /\ RowsOfToday(w) /\ HasRow(w, "text") /\ HasRow(w, "date") /\ ~HasRow(w, "sent")
        /\ Clears(w)
    BY <1>1, <1>2, <2>1, NoTextIsText, PendingRows
  <2> QED BY <2>2 DEF w
<1>3. CASE DOMAIN w = 1..4
  <2>1. /\ w[1].key = "month" /\ w[2].key = "date" /\ w[2].value = 0
        /\ w[3].key = "text" /\ w[3].value = NoText /\ w[4].key = "core"
    <3>1. ~(DOMAIN w = 1..3)
      <4> HIDE DEF w
      <4>1. 4 \in 1..4 /\ 4 \notin 1..3 OBVIOUS
      <4> QED BY <1>3, <4>1
    <3> QED BY <3>1, CoreIs
  <2> HIDE DEF w
  <2>2. \A i \in 1..4 : i = 1 \/ i = 2 \/ i = 3 \/ i = 4 OBVIOUS
  <2>3. 2 \in 1..4 /\ 3 \in 1..4 /\ 2 + 1 = 3 OBVIOUS
  <2>4. RowsOfToday(w) BY <1>1, <1>3, <2>1, <2>2, <2>3 DEF RowsOfToday
  <2>5. HasRow(w, "text") /\ HasRow(w, "date") BY <1>3, <2>1, <2>3 DEF HasRow
  <2>6. ~HasRow(w, "sent") BY <1>3, <2>1, <2>2 DEF HasRow
  <2>7. Clears(w) BY <1>3, <2>1, <2>2, NoTextIsText DEF Clears
  <2> QED BY <2>4, <2>5, <2>6, <2>7 DEF w
<1> QED BY <1>2, <1>3, CoreIs

LEMMA MarkRowsDo ==
  ASSUME NEW text \in Texts
  PROVE  LET w == MarkSent(text) IN
         /\ HasRow(w, "sent") /\ ~HasRow(w, "text") /\ ~HasRow(w, "date") /\ Clears(w)
         /\ text.day = day => RowsOfToday(w)
<1> DEFINE w == MarkSent(text)
<1>1. /\ DOMAIN w = 1..1 \/ (DOMAIN w = 1..2 /\ w[2].key = "month")
      /\ w[1].key = "sent" /\ w[1].value = text.day
  BY MarkIs
<1> HIDE DEF w
<1>2. \A i \in DOMAIN w : i = 1 \/ (i = 2 /\ w[2].key = "month") BY <1>1
<1>3. 1 \in DOMAIN w BY <1>1
<1>4. HasRow(w, "sent") BY <1>1, <1>3 DEF HasRow
<1>5. ~HasRow(w, "text") /\ ~HasRow(w, "date") BY <1>1, <1>2 DEF HasRow
<1>6. Clears(w) BY <1>1, <1>2 DEF Clears
<1>7. text.day = day => RowsOfToday(w) BY <1>1, <1>2 DEF RowsOfToday
<1> QED BY <1>4, <1>5, <1>6, <1>7 DEF w

LEMMA StoreRowsDo ==
  ASSUME TypeInv, NEW text \in Texts, text.day = day
  PROVE  LET w == StorePending(day, text, text.plan) IN
         /\ RowsOfToday(w) /\ HasRow(w, "text") /\ HasRow(w, "date") /\ ~HasRow(w, "sent")
         /\ DateComes(w)
         /\ \A d : Comes(w, d) <=> d = day
<1> DEFINE w == StorePending(day, text, text.plan)
<1>1. day \in 0..MaxDay /\ day # 0 /\ day <= day /\ text.plan \in BOOLEAN BY Parts, Bounds DEF Texts
<1>2. /\ DOMAIN w = 1..3 /\ w[1].key = "date" /\ w[1].value = day
      /\ w[2].key = "text" /\ w[2].value = text /\ w[3].key = "core"
  BY <1>1, StoreIs
<1> HIDE DEF w
<1>3. /\ RowsOfToday(w) /\ HasRow(w, "text") /\ HasRow(w, "date") /\ ~HasRow(w, "sent")
      /\ DateComes(w) /\ \A d : Comes(w, d) <=> text.day = d
  BY <1>1, <1>2, PendingRows
<1> QED BY <1>3 DEF w

\* The first row is set and gone; the others keep their order.
LEMMA Pops ==
  ASSUME TypeInv, NEW p \in Processes, Write(p), RowsOfToday(process[p].writes), NEW d
  PROVE  LET w == process[p].writes
             v == process'[p].writes
             row == w[1]
         IN
         /\ 1 \in DOMAIN w /\ RowsOfToday(v) /\ (Clears(w) => Clears(v))
         /\ HasRow(w, "sent") <=> row.key = "sent" \/ HasRow(v, "sent")
         /\ HasRow(w, "text") <=> row.key = "text" \/ HasRow(v, "text")
         /\ HasRow(w, "date") <=> row.key = "date" \/ HasRow(v, "date")
         /\ Comes(w, d) <=> (row.key = "text" /\ row.value.day = d) \/ Comes(v, d)
         /\ DateComes(w) <=> (row.key = "date" /\ row.value # 0) \/ DateComes(v)
         /\ row.key = "text" => ~HasRow(v, "text") /\ ~HasRow(v, "date")
         /\ row.key = "date" => HasRow(v, "text") /\ ~HasRow(v, "date")
         /\ HasRow(v, "date") => HasRow(v, "text")
<1> DEFINE w == process[p].writes
           v == process'[p].writes
<1>1. Len(w) \in Nat \ {0} /\ DOMAIN w = 1..Len(w) BY WriteDoes
<1>2. /\ 1 \in DOMAIN w
      /\ \A i \in DOMAIN v : i \in Nat /\ i # 0 /\ i + 1 \in DOMAIN w /\ i + 1 # 1 /\ v[i] = w[i + 1]
      /\ \A i \in DOMAIN w : i = 1 \/ (i - 1 \in DOMAIN v /\ (i - 1) + 1 = i /\ i \in Int)
      /\ \A i, j \in DOMAIN v : i + 1 = j + 1 => i = j
  <2>1. CASE /\ Len(w) > 1 /\ v = Tail(w) /\ DOMAIN Tail(w) = 1..(Len(w) - 1)
             /\ \A i \in DOMAIN Tail(w) : i + 1 \in DOMAIN w /\ Tail(w)[i] = w[i + 1]
    <3>1. /\ DOMAIN v = 1..(Len(w) - 1)
          /\ \A i \in DOMAIN v : i + 1 \in DOMAIN w /\ v[i] = w[i + 1]
      BY <2>1
    <3> HIDE DEF w, v
    <3>2. 1 \in DOMAIN w BY <1>1
    <3>3. \A i \in DOMAIN v : i \in Nat /\ i # 0 /\ i + 1 # 1 BY <1>1, <3>1
    <3>4. \A i \in DOMAIN w : i = 1 \/ (i - 1 \in DOMAIN v /\ (i - 1) + 1 = i /\ i \in Int)
      BY <1>1, <3>1
    <3>5. \A i, j \in DOMAIN v : i + 1 = j + 1 => i = j BY <1>1, <3>1
    <3> QED BY <3>1, <3>2, <3>3, <3>4, <3>5
  <2>2. CASE Len(w) = 1 /\ v = << >>
    <3>1. DOMAIN v = {} BY <2>2
    <3> HIDE DEF w, v
    <3>2. \A i \in DOMAIN w : i = 1 BY <1>1, <2>2
    <3>3. 1 \in DOMAIN w BY <1>1
    <3> QED BY <3>1, <3>2, <3>3
  <2> QED BY <2>1, <2>2, WriteDoes, IdleIsMemory
<1>3. RowsOfToday(w) OBVIOUS
<1> HIDE DEF w, v
<1>4. ASSUME NEW i \in DOMAIN v PROVE i + 1 \in DOMAIN w /\ v[i] = w[i + 1] /\ i + 1 # 1
  BY <1>2
<1>5. ASSUME NEW i \in DOMAIN w, i # 1 PROVE \E j \in DOMAIN v : v[j] = w[i]
  <2>1. i - 1 \in DOMAIN v /\ (i - 1) + 1 = i BY <1>2, <1>5
  <2>2. v[i - 1] = w[(i - 1) + 1] BY <1>4, <2>1
  <2> QED BY <2>1, <2>2
<1>6. \A i \in DOMAIN v : v[i].key = "date" => i + 1 \in DOMAIN v /\ v[i + 1].key = "text"
  <2> SUFFICES ASSUME NEW i \in DOMAIN v, v[i].key = "date"
               PROVE  i + 1 \in DOMAIN v /\ v[i + 1].key = "text"
    OBVIOUS
  <2>1. i + 1 \in DOMAIN w /\ w[i + 1].key = "date" BY <1>4
  <2>2. (i + 1) + 1 \in DOMAIN w /\ w[(i + 1) + 1].key = "text" BY <1>3, <2>1 DEF RowsOfToday
  <2>3. i \in Nat BY <1>2
  <2>4. (i + 1) + 1 # 1 /\ ((i + 1) + 1) - 1 = i + 1 BY <2>3
  <2>5. i + 1 \in DOMAIN v BY <1>2, <2>2, <2>4
  <2> QED BY <1>4, <2>2, <2>5
<1>7. RowsOfToday(v)
  <2>1. \A i \in DOMAIN v : /\ v[i].key = "sent" => v[i].value = day
                            /\ v[i].key = "text" => v[i].value.day <= day
    BY <1>3, <1>4 DEF RowsOfToday
  <2>2. \A i, j \in DOMAIN v : v[i].key = "text" /\ v[j].key = "text" => i = j
    <3> SUFFICES ASSUME NEW i \in DOMAIN v, NEW j \in DOMAIN v, v[i].key = "text", v[j].key = "text"
                 PROVE  i = j
      OBVIOUS
    <3>1. i + 1 = j + 1 BY <1>3, <1>4 DEF RowsOfToday
    <3> QED BY <1>2, <3>1
  <2> QED BY <1>6, <2>1, <2>2 DEF RowsOfToday
<1>8. Clears(w) => Clears(v) BY <1>4 DEF Clears
<1>9. /\ HasRow(w, "sent") <=> w[1].key = "sent" \/ HasRow(v, "sent")
      /\ HasRow(w, "text") <=> w[1].key = "text" \/ HasRow(v, "text")
      /\ HasRow(w, "date") <=> w[1].key = "date" \/ HasRow(v, "date")
  <2>1. ASSUME NEW key PROVE HasRow(w, key) <=> w[1].key = key \/ HasRow(v, key)
    <3>1. HasRow(v, key) => HasRow(w, key) BY <1>4 DEF HasRow
    <3>2. w[1].key = key => HasRow(w, key) BY <1>2 DEF HasRow
    <3>3. HasRow(w, key) /\ w[1].key # key => HasRow(v, key) BY <1>5 DEF HasRow
    <3> QED BY <3>1, <3>2, <3>3
  <2> QED BY <2>1
<1>10. Comes(w, d) <=> (w[1].key = "text" /\ w[1].value.day = d) \/ Comes(v, d)
  <2>1. Comes(v, d) => Comes(w, d) BY <1>4 DEF Comes
  <2>2. w[1].key = "text" /\ w[1].value.day = d => Comes(w, d) BY <1>2 DEF Comes
  <2>3. Comes(w, d) => (w[1].key = "text" /\ w[1].value.day = d) \/ Comes(v, d) BY <1>5 DEF Comes
  <2> QED BY <2>1, <2>2, <2>3
<1>11. DateComes(w) <=> (w[1].key = "date" /\ w[1].value # 0) \/ DateComes(v)
  <2>1. DateComes(v) => DateComes(w) BY <1>4 DEF DateComes
  <2>2. w[1].key = "date" /\ w[1].value # 0 => DateComes(w) BY <1>2 DEF DateComes
  <2>3. DateComes(w) => (w[1].key = "date" /\ w[1].value # 0) \/ DateComes(v) BY <1>5 DEF DateComes
  <2> QED BY <2>1, <2>2, <2>3
<1>12. HasRow(v, "date") => HasRow(v, "text") BY <1>6 DEF HasRow
<1>13. w[1].key = "text" => ~HasRow(v, "text")
  <2> SUFFICES ASSUME w[1].key = "text", NEW i \in DOMAIN v, v[i].key = "text" PROVE FALSE
    BY DEF HasRow
  <2>1. i + 1 \in DOMAIN w /\ w[i + 1].key = "text" /\ i + 1 # 1 BY <1>4
  <2> QED BY <1>2, <1>3, <2>1 DEF RowsOfToday
<1>14. w[1].key = "date" => HasRow(v, "text") /\ ~HasRow(v, "date")
  <2> SUFFICES ASSUME w[1].key = "date" PROVE HasRow(v, "text") /\ ~HasRow(v, "date")
    OBVIOUS
  <2>1. 1 + 1 \in DOMAIN w /\ w[1 + 1].key = "text" BY <1>2, <1>3 DEF RowsOfToday
  <2>2. HasRow(v, "text")
    <3>1. 1 + 1 # 1 OBVIOUS
    <3>2. PICK j \in DOMAIN v : v[j] = w[1 + 1] BY <1>5, <2>1, <3>1
    <3> QED BY <2>1, <3>2 DEF HasRow
  <2>3. ASSUME NEW i \in DOMAIN v, v[i].key = "date" PROVE FALSE
    <3>1. /\ i \in Nat /\ i # 0 /\ i + 1 \in DOMAIN v /\ v[i + 1].key = "text"
      BY <1>2, <1>6, <2>3
    <3>2. (i + 1) + 1 \in DOMAIN w /\ w[(i + 1) + 1].key = "text" BY <1>4, <3>1
    <3>3. (i + 1) + 1 = 1 + 1 BY <1>3, <2>1, <3>2 DEF RowsOfToday
    <3> QED BY <3>1, <3>3
  <2> QED BY <2>2, <2>3 DEF HasRow
<1> QED BY <1>2, <1>7, <1>8, <1>9, <1>10, <1>11, <1>12, <1>13, <1>14 DEF w, v

-----------------------------------------------------------------------------
(* What every process holds and writes is of today.                        *)

LEMMA DayFrom ==
  ASSUME TypeInv, DayInv, NEW p \in Processes, Others(p), UNCHANGED day,
         state'.sent = state.sent \/ state'.sent = day, state'.text.day <= day,
         Current(process[p])',
         p = "intraday" => ~process'[p].digest /\ Clears(process'[p].writes)
  PROVE  DayInv'
<1>1. ASSUME NEW q \in Processes \ {p} PROVE Current(process[q])'
  <2>1. Current(process[q]) /\ process'[q] = process[q] BY DEF DayInv, Others
  <2> QED BY <2>1 DEF Current, RowsOfToday
<1>2. \A q \in Processes : Current(process[q])' BY <1>1
<1>3. state'.sent <= day' BY Parts DEF DayInv
<1>4. ~process'["intraday"].digest /\ Clears(process'["intraday"].writes)
  <2>1. CASE p = "intraday" BY <2>1
  <2>2. CASE p # "intraday"
    <3>1. process'["intraday"] = process["intraday"] BY <2>2 DEF Others, Processes
    <3> QED BY <3>1 DEF DayInv
  <2> QED BY <2>1, <2>2
<1> QED BY <1>2, <1>3, <1>4 DEF DayInv

LEMMA IdleIsCurrent ==
  ASSUME TypeInv
  PROVE  Idle.text.day <= day /\ Idle.pc = "idle" /\ Idle.writes = << >> /\ ~Idle.digest
BY IdleIsMemory, NoTextIsText, Parts

LEMMA DayWrite ==
  ASSUME TypeInv, DayInv, NEW p \in Processes, Write(p)
  PROVE  DayInv'
<1> DEFINE w == process[p].writes
           m == process'[p]
<1>1. /\ UNCHANGED day /\ Others(p) /\ process[p].pc = "write" /\ w[1] \in Rows
      /\ state' = Set(state, w[1]) /\ Len(w) \in Nat \ {0} /\ DOMAIN w = 1..Len(w)
  BY WriteDoes
<1>2. Current(process[p]) /\ RowsOfToday(w) BY DEF DayInv, Current
<1>3. 1 \in DOMAIN w /\ RowsOfToday(m.writes) /\ (Clears(w) => Clears(m.writes)) BY <1>2, Pops
<1>4. /\ state'.sent = IF w[1].key = "sent" THEN w[1].value ELSE state.sent
      /\ state'.text = IF w[1].key = "text" THEN w[1].value ELSE state.text
  BY <1>1, Parts, RowSet
<1>5. state'.sent = state.sent \/ state'.sent = day BY <1>2, <1>3, <1>4 DEF RowsOfToday
<1>6. state'.text.day <= day BY <1>2, <1>3, <1>4 DEF RowsOfToday, DayInv
<1>7. RowsOfToday(process[p].writes)' BY <1>1, <1>3 DEF RowsOfToday
<1>8. process[p].then \in {"idle", "core", "check", "phone"} BY Parts, Fields
<1>9. Current(process[p])' /\ (m.digest => process[p].digest)
  <2>1. CASE /\ Len(w) > 1 /\ m.pc = "write" /\ m.then = process[p].then /\ m.day = process[p].day
             /\ m.text = process[p].text /\ m.digest = process[p].digest
    <3>1. process[p].then # "core"
      <4>1. process[p].then = "core" => DOMAIN w = 1..1 BY <1>1, <1>2 DEF Current
      <4> HIDE DEF w
      <4>2. 2 \in DOMAIN w /\ 2 \notin 1..1 BY <1>1, <2>1
      <4> QED BY <4>1, <4>2
    <3> QED BY <1>1, <1>2, <1>7, <2>1, <3>1 DEF Current
  <2>2. CASE m = Idle BY <1>1, <1>7, <2>2, IdleIsCurrent DEF Current
  <2>3. CASE /\ Len(w) = 1 /\ m.pc = process[p].then /\ process[p].then # "idle"
             /\ m.writes = << >> /\ m.day = process[p].day /\ m.text = process[p].text
             /\ m.digest = process[p].digest
    <3>1. process[p].then = "core" => w[1].key = "sent" BY <1>1, <1>2 DEF Current
    <3>2. process[p].then = "core" => state'.sent = day BY <1>2, <1>3, <1>4, <3>1 DEF RowsOfToday
    <3> QED BY <1>1, <1>2, <1>7, <1>8, <2>3, <3>2 DEF Current
  <2> QED BY <2>1, <2>2, <2>3, WriteDoes
<1>10. p = "intraday" => ~m.digest /\ Clears(m.writes) BY <1>3, <1>9 DEF DayInv
<1> QED BY <1>1, <1>5, <1>6, <1>9, <1>10, DayFrom

\* A step that writes nothing into the rows yet.
LEMMA DayRead ==
  ASSUME TypeInv, DayInv, NEW p \in Processes, Others(p), UNCHANGED <<day, state>>,
         Current(process[p])',
         p = "intraday" => ~process'[p].digest /\ Clears(process'[p].writes)
  PROVE  DayInv'
BY DayFrom DEF DayInv

LEMMA DayStep == TypeInv /\ DayInv /\ [Next]_vars => DayInv'
<1> SUFFICES ASSUME TypeInv, DayInv, [Next]_vars PROVE DayInv' OBVIOUS
<1>1. CASE UNCHANGED vars
  <2>1. UNCHANGED <<day, state, process>> BY <1>1 DEF vars
  <2> QED BY <2>1 DEF DayInv, Current, RowsOfToday, Clears
<1>2. CASE NextDay
  <2>1. /\ UNCHANGED <<state, process>> /\ day' = day + 1 /\ day \in Nat
        /\ \A p \in Processes : process[p].pc = "idle"
    BY <1>2, Parts DEF NextDay
  <2>2. ASSUME NEW p \in Processes PROVE Current(process[p])'
    <3>1. /\ process[p].pc = "idle" /\ process[p].writes = << >> /\ process[p].text.day <= day
          /\ process[p].text.day \in Nat
      BY <2>1, NoWrites, Parts, Fields DEF DayInv, Current, Texts
    <3>2. process[p].text.day <= day + 1 BY <2>1, <3>1
    <3>3. RowsOfToday(<< >>)' BY DEF RowsOfToday
    <3> QED BY <2>1, <3>1, <3>2, <3>3 DEF Current
  <2>3. state.sent \in Nat /\ state.text.day \in Nat BY Parts DEF Texts
  <2>4. state'.sent <= day' /\ state'.text.day <= day' BY <2>1, <2>3 DEF DayInv
  <2> QED BY <2>1, <2>2, <2>4 DEF DayInv, Clears
<1>3. ASSUME NEW p \in Processes, Step(p) PROVE DayInv'
  <2> DEFINE m == process'[p]
  <2>1. /\ Current(process[p]) /\ process[p].text \in Texts /\ day \in Nat
        /\ p = "intraday" => ~process[p].digest
    BY Parts, Fields DEF DayInv
  <2>2. RowsOfToday(<< >>)' /\ Clears(<< >>) BY DEF RowsOfToday, Clears
  <2>3. CASE Write(p) BY <2>3, DayWrite
  <2>4. CASE Start(p)
    <3>1. /\ UNCHANGED <<day, state>> /\ Others(p) /\ m.pc = "date" /\ m.day = day
          /\ m.text = NoText /\ m.writes = << >> /\ (p = "intraday" => ~m.digest)
      BY <2>4, StartDoes
    <3>2. Current(process[p])' BY <2>1, <2>2, <3>1, NoTextIsText DEF Current
    <3> QED BY <2>2, <3>1, <3>2, DayRead
  <2>5. CASE ReadDate(p)
    <3>1. /\ UNCHANGED <<day, state>> /\ Others(p) /\ m.writes = << >> /\ process[p].pc = "date"
          /\ \/ m = Idle
             \/ /\ m.pc \in {"check", "text"} /\ m.day = process[p].day /\ m.text = process[p].text
                /\ m.digest => process[p].digest
      BY <2>5, ReadDateDoes
    <3>2. Current(process[p])' BY <2>1, <2>2, <3>1, IdleIsCurrent DEF Current
    <3> QED BY <2>1, <2>2, <3>1, <3>2, IdleIsCurrent, DayRead
  <2>6. CASE ReadText(p)
    <3>1. /\ UNCHANGED <<day, state>> /\ Others(p) /\ process[p].pc = "text"
          /\ m.day = process[p].day /\ m.date = process[p].date /\ m.digest = process[p].digest
      BY <2>6, ReadTextDoes
    <3>2. CASE /\ m.pc = "resend" /\ m.writes = << >> /\ m.text = state.text
               /\ process[p].date = process[p].day
      <4>1. Current(process[p])' BY <2>1, <2>2, <3>1, <3>2 DEF Current, DayInv
      <4> QED BY <2>1, <2>2, <3>1, <3>2, <4>1, DayRead
    <3>3. CASE /\ m.pc = "write" /\ m.writes = ClearPending /\ m.then \in {"check", "idle"}
               /\ m.text = process[p].text
      <4>1. RowsOfToday(process[p].writes)' BY <3>1, <3>3, ClearRowsDo DEF RowsOfToday
      <4>2. Current(process[p])' BY <2>1, <3>1, <3>3, <4>1 DEF Current
      <4> QED BY <2>1, <3>1, <3>3, <4>2, ClearRowsDo, DayRead
    <3> QED BY <2>6, <3>2, <3>3, ReadTextDoes
  <2>7. CASE Resend(p)
    <3>1. /\ UNCHANGED <<day, state>> /\ Others(p) /\ process[p].pc = "resend"
          /\ m.pc = "write" /\ m.then = "core" /\ m.writes = <<Row("sent", process[p].date)>>
          /\ m.day = process[p].day /\ m.text = process[p].text /\ m.digest = process[p].digest
      BY <2>7, ResendDoes
    <3>2. process[p].date = day BY <2>1, <3>1 DEF Current
    <3>3. /\ DOMAIN m.writes = 1..1 /\ m.writes[1].key = "sent" /\ Clears(m.writes)
          /\ RowsOfToday(m.writes)
      BY <3>1, <3>2, SentRows
    <3>4. RowsOfToday(process[p].writes)' BY <3>1, <3>3 DEF RowsOfToday
    <3>5. Current(process[p])' BY <2>1, <3>1, <3>3, <3>4 DEF Current
    <3> QED BY <2>1, <3>1, <3>3, <3>5, DayRead
  <2>8. CASE ResendFails(p)
    <3>1. /\ UNCHANGED <<day, state>> /\ Others(p) /\ process[p].pc = "resend"
          /\ \/ m = Idle
             \/ /\ m.pc = "check" /\ m.day = process[p].day /\ m.text = process[p].text
                /\ m.writes = << >> /\ process[p].digest
      BY <2>8, ResendFailsDoes
    <3>2. Current(process[p])' BY <2>1, <2>2, <3>1, IdleIsCurrent DEF Current
    <3> QED BY <2>1, <2>2, <3>1, <3>2, IdleIsCurrent, DayRead
  <2>9. CASE ReadCore(p)
    <3>1. /\ UNCHANGED <<day, state>> /\ Others(p) /\ process[p].pc = "core"
          /\ m.pc = "write" /\ m.writes = CoreRows /\ m.then \in {"check", "idle"}
          /\ m.day = process[p].day /\ m.text = process[p].text /\ m.digest = process[p].digest
      BY <2>9, ReadCoreDoes
    <3>2. RowsOfToday(m.writes) /\ Clears(m.writes) BY <3>1, CoreRowsDo
    <3>3. RowsOfToday(process[p].writes)' BY <3>1, <3>2 DEF RowsOfToday
    <3>4. Current(process[p])' BY <2>1, <3>1, <3>3 DEF Current
    <3> QED BY <2>1, <3>1, <3>2, <3>4, DayRead
  <2>10. CASE Check(p)
    <3>1. /\ UNCHANGED <<day, state>> /\ Others(p) /\ m.writes = << >> /\ process[p].pc = "check"
          /\ \/ m = Idle
             \/ /\ m.pc = "collect" /\ m.day = process[p].day /\ m.text = process[p].text
                /\ m.digest = process[p].digest
      BY <2>10, CheckDoes
    <3>2. Current(process[p])' BY <2>1, <2>2, <3>1, IdleIsCurrent DEF Current
    <3> QED BY <2>1, <2>2, <3>1, <3>2, IdleIsCurrent, DayRead
  <2>11. CASE Collect(p)
    <3>1. /\ UNCHANGED <<day, state>> /\ Others(p) /\ m.writes = << >> /\ process[p].pc = "collect"
          /\ m.pc \in {"mail", "phone"} /\ m.day = process[p].day /\ m.text.day = process[p].day
          /\ m.digest = process[p].digest
      BY <2>11, CollectDoes
    <3>2. process[p].day = day BY <2>1, <3>1 DEF Current
    <3>3. Current(process[p])' BY <2>1, <2>2, <3>1, <3>2 DEF Current
    <3> QED BY <2>1, <2>2, <3>1, <3>3, DayRead
  <2>12. CASE Mail(p) \/ Phone(p)
    <3>1. /\ UNCHANGED <<day, state>> /\ Others(p) /\ process[p].pc \in {"mail", "phone"}
          /\ m.pc = "write" /\ m.writes = MarkSent(process[p].text) /\ m.then \in {"phone", "idle"}
          /\ m.day = process[p].day /\ m.text = process[p].text /\ m.digest = process[p].digest
      BY <2>12, MailDoes, PhoneDoes
    <3>2. process[p].text.day = day BY <2>1, <3>1 DEF Current
    <3>3. RowsOfToday(m.writes) /\ Clears(m.writes) BY <2>1, <3>1, <3>2, MarkRowsDo
    <3>4. RowsOfToday(process[p].writes)' BY <3>1, <3>3 DEF RowsOfToday
    <3>5. Current(process[p])' BY <2>1, <3>1, <3>2, <3>4 DEF Current
    <3> QED BY <2>1, <3>1, <3>3, <3>5, DayRead
  <2>13. CASE PhoneFails(p)
    <3>1. /\ UNCHANGED <<day, state>> /\ Others(p) /\ process[p].pc = "phone"
          /\ m.pc = "write" /\ m.then = "idle"
          /\ m.writes = StorePending(process[p].day, process[p].text, process[p].text.plan)
          /\ m.day = process[p].day /\ m.text = process[p].text /\ m.digest = process[p].digest
      BY <2>13, PhoneFailsDoes
    <3>2. process[p].text.day = day /\ process[p].day = day BY <2>1, <3>1 DEF Current
    <3>3. p # "intraday"
      <4>1. process[p].digest BY <3>1 DEF TypeInv, Fine, Digesting
      <4> QED BY <2>1, <4>1
    <3>4. RowsOfToday(m.writes) BY <2>1, <3>1, <3>2, StoreRowsDo
    <3>5. RowsOfToday(process[p].writes)' BY <3>1, <3>4 DEF RowsOfToday
    <3>6. Current(process[p])' BY <2>1, <3>1, <3>2, <3>5 DEF Current
    <3> QED BY <3>1, <3>3, <3>6, DayRead
  <2>14. CASE Crash(p)
    <3>1. UNCHANGED <<day, state>> /\ Others(p) /\ m = Idle BY <2>14, CrashDoes
    <3>2. Current(process[p])' BY <2>1, <2>2, <3>1, IdleIsCurrent DEF Current
    <3> QED BY <2>2, <3>1, <3>2, IdleIsCurrent, DayRead
  <2> QED BY <1>3, <2>3, <2>4, <2>5, <2>6, <2>7, <2>8, <2>9, <2>10, <2>11, <2>12, <2>13, <2>14
          DEF Step
<1> QED BY <1>1, <1>2, <1>3 DEF Next

LEMMA DayInit == Init => DayInv
<1> SUFFICES ASSUME Init PROVE DayInv OBVIOUS
<1>1. /\ state.sent = 0 /\ state.text = NoText /\ day = 1 /\ \A p \in Processes : process[p] = Idle
  BY DEF Init
<1>2. TypeInv BY TypeInit
<1>3. Current(Idle) BY <1>2, IdleIsCurrent, NoRows DEF Current
<1>4. "intraday" \in Processes BY DEF Processes
<1> QED BY <1>1, <1>2, <1>3, <1>4, IdleIsCurrent, NoTextIsText, NoRows DEF DayInv

-----------------------------------------------------------------------------
(* What is owed falls with every step, and rises with faults only.         *)

LEMMA CopyTypesNext ==
  ASSUME NEW d
  PROVE  /\ OwnCopy(d)' \in BOOLEAN /\ OldCopy(d)' \in BOOLEAN /\ OtherCopy(d)' \in BOOLEAN
         /\ NextCopy(d)' \in BOOLEAN /\ Digesting(process["daily"])' \in BOOLEAN
BY DEF OwnCopy, OldCopy, OtherCopy, NextCopy, Digesting, Resends, TextComing, Comes

\* Before and after a step: no copy is gained; the own copy, a resend of the
\* daily run or one of the other process is sent; and the bounds of the sum.
LEMMA OwedMoves ==
  ASSUME NEW d
  PROVE  LET o == OwnCopy(d)
             l == OldCopy(d)
             g == Digesting(process["daily"])
             r == OtherCopy(d)
             c == NextCopy(d)
             o2 == OwnCopy(d)'
             l2 == OldCopy(d)'
             g2 == Digesting(process["daily"])'
             r2 == OtherCopy(d)'
             c2 == NextCopy(d)'
         IN
         /\ Owed(d) \in Nat /\ Owed(d)' \in Nat
         /\ (o2 => o) /\ (l2 => l) /\ ((g2 => g) \/ ~l2) /\ Count(r2) + Count(c2) <= Count(r) + Count(c)
              => Owed(d)' <= Owed(d)
         /\ g /\ ~g2 /\ o /\ ~o2 /\ (l2 => l) /\ (r2 => r) /\ (c2 => c) => 1 + Owed(d)' <= Owed(d)
         /\ l /\ ~l2 /\ ~o2 /\ ~g2 /\ (r2 => r) /\ (c2 => c) => 1 + Owed(d)' <= Owed(d)
         /\ (o2 <=> o) /\ (l2 <=> l) /\ (g2 <=> g) /\ (c2 <=> c) =>
              Owed(d)' <= Owed(d) + 1 /\ (r /\ ~r2 => 1 + Owed(d)' <= Owed(d))
         /\ Owed(d) >= Count(r) + Count(c)
         /\ o \/ l => Owed(d) >= 1 + Count(r) + Count(c)
         /\ Owed(d)' <= 2 + Count(r2) + Count(c2)
         /\ ~g2 => Owed(d)' <= 1 + Count(r2) + Count(c2)
         /\ ~g2 /\ ~l2 /\ ~o2 => Owed(d)' <= Count(r2) + Count(c2)
<1> DEFINE o == OwnCopy(d)
           l == OldCopy(d)
           g == Digesting(process["daily"])
           r == OtherCopy(d)
           c == NextCopy(d)
           o2 == OwnCopy(d)'
           l2 == OldCopy(d)'
           g2 == Digesting(process["daily"])'
           r2 == OtherCopy(d)'
           c2 == NextCopy(d)'
<1>1. /\ o \in BOOLEAN /\ l \in BOOLEAN /\ g \in BOOLEAN /\ r \in BOOLEAN /\ c \in BOOLEAN
      /\ o2 \in BOOLEAN /\ l2 \in BOOLEAN /\ g2 \in BOOLEAN /\ r2 \in BOOLEAN /\ c2 \in BOOLEAN
  BY CopyTypes, CopyTypesNext
<1>2. Owed(d) = Sum(o, l, g, r, c) BY DEF Owed
<1>3. Owed(d)' = Sum(o2, l2, g2, r2, c2) BY DEF Owed
<1> HIDE DEF o, l, g, r, c, o2, l2, g2, r2, c2
<1>4. /\ Owed(d) \in Nat /\ Owed(d)' \in Nat
      /\ Owed(d) >= Count(r) + Count(c)
      /\ o \/ l => Owed(d) >= 1 + Count(r) + Count(c)
      /\ Owed(d)' <= 2 + Count(r2) + Count(c2)
      /\ ~g2 => Owed(d)' <= 1 + Count(r2) + Count(c2)
      /\ ~g2 /\ ~l2 /\ ~o2 => Owed(d)' <= Count(r2) + Count(c2)
  BY <1>1, <1>2, <1>3 DEF Sum, Count
<1>5. (o2 => o) /\ (l2 => l) /\ ((g2 => g) \/ ~l2) /\ Count(r2) + Count(c2) <= Count(r) + Count(c)
        => Owed(d)' <= Owed(d)
  BY <1>1, <1>2, <1>3 DEF Sum, Count
<1>6. g /\ ~g2 /\ o /\ ~o2 /\ (l2 => l) /\ (r2 => r) /\ (c2 => c) => 1 + Owed(d)' <= Owed(d)
  BY <1>1, <1>2, <1>3 DEF Sum, Count
<1>7. l /\ ~l2 /\ ~o2 /\ ~g2 /\ (r2 => r) /\ (c2 => c) => 1 + Owed(d)' <= Owed(d)
  BY <1>1, <1>2, <1>3 DEF Sum, Count
<1>8. (o2 <=> o) /\ (l2 <=> l) /\ (g2 <=> g) /\ (c2 <=> c) =>
        Owed(d)' <= Owed(d) + 1 /\ (r /\ ~r2 => 1 + Owed(d)' <= Owed(d))
  BY <1>1, <1>2, <1>3 DEF Sum, Count
<1> QED BY <1>4, <1>5, <1>6, <1>7, <1>8 DEF o, l, g, r, c, o2, l2, g2, r2, c2

LEMMA Counts ==
  ASSUME NEW d
  PROVE  LET r == OtherCopy(d)
             c == NextCopy(d)
             r2 == OtherCopy(d)'
             c2 == NextCopy(d)'
         IN
         /\ Count(r) \in {0, 1} /\ Count(c) \in {0, 1} /\ Count(r2) \in {0, 1} /\ Count(c2) \in {0, 1}
         /\ r \/ Count(r) = 0
         /\ c => Count(c) = 1
         /\ r2 \/ Count(r2) = 0
         /\ c2 \/ Count(c2) = 0
         /\ (r2 => r) => Count(r2) <= Count(r)
         /\ (c2 => c) => Count(c2) <= Count(c)
<1> DEFINE r == OtherCopy(d)
           c == NextCopy(d)
           r2 == OtherCopy(d)'
           c2 == NextCopy(d)'
<1>1. r \in BOOLEAN /\ c \in BOOLEAN /\ r2 \in BOOLEAN /\ c2 \in BOOLEAN
  BY CopyTypes, CopyTypesNext
<1> HIDE DEF r, c, r2, c2
<1>2. /\ Count(r) \in {0, 1} /\ Count(c) \in {0, 1} /\ Count(r2) \in {0, 1} /\ Count(c2) \in {0, 1}
      /\ r \/ Count(r) = 0
      /\ c => Count(c) = 1
      /\ r2 \/ Count(r2) = 0
      /\ c2 \/ Count(c2) = 0
      /\ (r2 => r) => Count(r2) <= Count(r)
      /\ (c2 => c) => Count(c2) <= Count(c)
  BY <1>1 DEF Count
<1> QED BY <1>2 DEF r, c, r2, c2

\* The daily process moves and brings no pending: the other process is not concerned.
LEMMA OtherStays ==
  ASSUME TypeInv, NEW d \in 1..MaxDay, Others("daily"), UNCHANGED <<day, state>>,
         Clears(process["daily"].writes), Clears(process'["daily"].writes)
  PROVE  /\ OtherCopy(d)' <=> OtherCopy(d)
         /\ ~NextCopy(d) /\ ~NextCopy(d)' /\ ~TextComing(d) /\ ~TextComing(d)'
<1>1. process'["intraday"] = process["intraday"] BY DEF Others, Processes
<1>2. /\ ~TextComing(d) /\ ~DateComing /\ ~TextComing(d)' /\ ~DateComing'
  BY ClearsBringNothing DEF TextComing, DateComing
<1>3. OtherCopy(d)' <=> OtherCopy(d)
  BY <1>1, <1>2 DEF OtherCopy, Resends, There, Soon
<1> QED BY <1>2, <1>3 DEF NextCopy

\* The other process moves and sets no row: the daily process is not concerned.
LEMMA DailyStays ==
  ASSUME NEW d, Others("intraday"), UNCHANGED <<day, state>>
  PROVE  /\ OwnCopy(d)' <=> OwnCopy(d)
         /\ OldCopy(d)' <=> OldCopy(d)
         /\ Digesting(process["daily"])' <=> Digesting(process["daily"])
         /\ NextCopy(d)' <=> NextCopy(d)
         /\ TextComing(d)' <=> TextComing(d)
         /\ DateComing' <=> DateComing
<1>1. process'["daily"] = process["daily"] BY DEF Others, Processes
<1> QED BY <1>1 DEF OwnCopy, OldCopy, NextCopy, TextComing, DateComing, Resends, There, Digesting,
                    Composing

\* How often the digest of each day has arrived.
LEMMA ArrivesCounts ==
  ASSUME TypeInv, NEW text \in Texts, NEW d \in 1..MaxDay
  PROVE  /\ delivered[d] \in Nat
         /\ Arrives(text) => delivered'[d] = IF d = text.day THEN delivered[d] + 1 ELSE delivered[d]
BY Parts DEF Arrives

(* The two ways a step counts: it is free, or a fault or a kill pays it.   *)
Free(d) == delivered'[d] + Owed(d)' <= delivered[d] + Owed(d)
Paid(d) == delivered'[d] + Owed(d)' <= delivered[d] + Owed(d) + 2

LEMMA OtherMoves ==
  ASSUME TypeInv, DayInv, NEW d \in 1..MaxDay, Step("intraday"), ~Write("intraday")
  PROVE  /\ UNCHANGED <<faults, kills>> => Free(d)
         /\ Paid(d)
<1> DEFINE m == process["intraday"]
           v == process'["intraday"]
<1>1. /\ "intraday" \in Processes /\ Current(m) /\ ~m.digest /\ Fine(m) /\ m.text \in Texts
      /\ delivered[d] \in Nat
  BY Parts, Fields, ArrivesCounts, NoTextIsText DEF Processes, DayInv, TypeInv
<1>2. /\ ~Digesting(m) /\ Owed(d) \in Nat /\ Owed(d)' \in Nat BY <1>1, OwedMoves DEF Fine
<1>3. ASSUME Others("intraday"), UNCHANGED <<day, state, delivered>>, OtherCopy(d)' => OtherCopy(d)
      PROVE  Free(d) /\ Paid(d)
  <2>1. Owed(d)' <= Owed(d) BY <1>3, DailyStays, OwedMoves, Counts
  <2> QED BY <1>1, <1>2, <1>3, <2>1 DEF Free, Paid
<1>4. ASSUME Others("intraday"), UNCHANGED <<day, state>> PROVE Owed(d)' <= Owed(d) + 1
  BY <1>4, DailyStays, OwedMoves
<1>5. CASE Start("intraday")
  <2>1. UNCHANGED <<day, state, delivered>> /\ m.pc = "idle" /\ Others("intraday") /\ v.pc = "date"
    BY <1>1, <1>5, StartDoes DEF outVars
  <2>2. OtherCopy(d)' => OtherCopy(d)
    BY <2>1, DailyStays DEF OtherCopy, Resends, There, Soon, WillRead, HalfCleared
  <2> QED BY <1>3, <2>1, <2>2
<1>6. CASE ReadDate("intraday")
  <2>1. /\ UNCHANGED <<day, state, delivered>> /\ m.pc = "date" /\ Others("intraday")
        /\ v = Idle \/ (v.pc = "text" /\ state.date # 0)
    BY <1>1, <1>6, ReadDateDoes DEF outVars
  <2>2. OtherCopy(d)' => OtherCopy(d)
    BY <2>1, IdleIsMemory, DailyStays DEF OtherCopy, Resends, There, Soon, WillRead, HalfCleared
  <2> QED BY <1>3, <2>1, <2>2
<1>7. CASE ReadText("intraday")
  <2>1. /\ UNCHANGED <<day, state, delivered>> /\ m.pc = "text" /\ Others("intraday")
        /\ \/ v.pc = "resend" /\ v.text = state.text
           \/ v.pc = "write" /\ HasRow(v.writes, "text") /\ HasRow(v.writes, "date")
    BY <1>1, <1>7, ReadTextDoes, ClearRowsDo DEF outVars
  <2>2. OtherCopy(d)' => OtherCopy(d)
    BY <2>1, DailyStays DEF OtherCopy, Resends, There, Soon, WillRead, HalfCleared
  <2> QED BY <1>3, <2>1, <2>2
<1>8. CASE Resend("intraday")
  <2>1. /\ UNCHANGED <<day, state>> /\ m.pc = "resend" /\ Others("intraday")
        /\ Arrives(m.text) /\ v.pc = "write" /\ v.then = "core"
    BY <1>1, <1>8, ResendDoes
  <2>2. delivered'[d] = IF d = m.text.day THEN delivered[d] + 1 ELSE delivered[d]
    BY <1>1, <2>1, ArrivesCounts
  <2>3. ~OtherCopy(d)' BY <2>1 DEF OtherCopy, Resends, WillRead, HalfCleared
  <2>4. CASE d = m.text.day
    <3>1. OtherCopy(d) BY <2>1, <2>4 DEF OtherCopy, Resends
    <3>2. 1 + Owed(d)' <= Owed(d) BY <2>1, <2>3, <3>1, DailyStays, OwedMoves
    <3> QED BY <1>1, <1>2, <2>2, <2>4, <3>2 DEF Free, Paid
  <2>5. CASE d # m.text.day
    <3>1. Owed(d)' <= Owed(d) BY <2>1, <2>3, DailyStays, OwedMoves, Counts
    <3> QED BY <1>1, <1>2, <2>2, <2>5, <3>1 DEF Free, Paid
  <2> QED BY <2>4, <2>5
<1>9. CASE ResendFails("intraday")
  <2>1. /\ UNCHANGED <<day, state>> /\ Others("intraday") /\ faults' = faults + 1
        /\ Arrives(m.text) \/ UNCHANGED <<delivered, planShown>>
    BY <1>1, <1>9, ResendFailsDoes
  <2>2. delivered'[d] = delivered[d] \/ delivered'[d] = delivered[d] + 1
    BY <1>1, <2>1, ArrivesCounts
  <2>3. faults' # faults BY <2>1, Parts
  <2>4. Owed(d)' <= Owed(d) + 1 BY <1>4, <2>1
  <2> QED BY <1>1, <1>2, <2>2, <2>3, <2>4 DEF Paid
<1>10. CASE ReadCore("intraday")
  <2>1. /\ UNCHANGED <<day, state, delivered>> /\ Others("intraday")
        /\ v.pc = "write" /\ HasRow(v.writes, "text") /\ HasRow(v.writes, "date")
    BY <1>1, <1>10, ReadCoreDoes, CoreRowsDo DEF outVars
  <2>2. OtherCopy(d)' => OtherCopy(d)
    BY <2>1, DailyStays DEF OtherCopy, Resends, There, Soon, WillRead, HalfCleared
  <2> QED BY <1>3, <2>1, <2>2
<1>11. CASE Crash("intraday")
  <2>1. UNCHANGED <<day, state, delivered>> /\ Others("intraday") /\ kills' = kills + 1
    BY <1>1, <1>11, CrashDoes DEF outVars
  <2>2. kills' # kills BY <2>1, Parts
  <2>3. Owed(d)' <= Owed(d) + 1 BY <1>4, <2>1
  <2> QED BY <1>1, <1>2, <2>1, <2>2, <2>3 DEF Paid
<1>12. ~Check("intraday") /\ ~Collect("intraday") /\ ~Mail("intraday") /\ ~Phone("intraday")
       /\ ~PhoneFails("intraday")
  BY <1>2 DEF Digesting, Check, Collect, Mail, Phone, PhoneFails
<1> QED BY <1>5, <1>6, <1>7, <1>8, <1>9, <1>10, <1>11, <1>12 DEF Step

LEMMA DailyMoves ==
  ASSUME TypeInv, DayInv, NEW d \in 1..MaxDay, Step("daily"), ~Write("daily")
  PROVE  /\ UNCHANGED <<faults, kills>> => Free(d)
         /\ Paid(d)
<1> DEFINE m == process["daily"]
           v == process'["daily"]
<1>1. /\ "daily" \in Processes /\ Current(m) /\ Fine(m) /\ m.text \in Texts
      /\ m.text.day \in Nat /\ delivered[d] \in Nat /\ d \in Nat /\ day \in Nat
  BY Parts, Fields, Bounds, ArrivesCounts, NoTextIsText DEF Processes, DayInv, TypeInv, Texts
<1>2. Owed(d) \in Nat /\ Owed(d)' \in Nat BY OwedMoves
<1>3. m.pc # "write" => m.writes = << >> /\ Clears(m.writes) BY <1>1, NoWrites, NoRows
<1>4. ~HasRow(<< >>, "sent") /\ ~HasRow(<< >>, "text") /\ Clears(<< >>) BY NoRows
<1>5. ASSUME Others("daily"), UNCHANGED <<day, state>>, m.pc # "write", Clears(v.writes)
      PROVE  /\ OtherCopy(d)' <=> OtherCopy(d)
             /\ ~NextCopy(d) /\ ~NextCopy(d)' /\ ~TextComing(d) /\ ~TextComing(d)'
  BY <1>3, <1>5, OtherStays
<1>6. ASSUME Others("daily"), UNCHANGED <<day, state, delivered>>, m.pc # "write", Clears(v.writes),
             OwnCopy(d)' => OwnCopy(d), OldCopy(d)' => OldCopy(d),
             (Digesting(v) => Digesting(m)) \/ ~OldCopy(d)'
      PROVE  Free(d) /\ Paid(d)
  <2>1. /\ OtherCopy(d)' <=> OtherCopy(d)
        /\ NextCopy(d)' => NextCopy(d)
    BY <1>5, <1>6
  <2>2. Digesting(process["daily"])' <=> Digesting(v) BY DEF Digesting
  <2>3. Owed(d)' <= Owed(d) BY <1>6, <2>1, <2>2, OwedMoves, Counts
  <2> QED BY <1>1, <1>2, <1>6, <2>3 DEF Free, Paid
<1>7. CASE Start("daily")
  <2>1. /\ UNCHANGED <<day, state, delivered>> /\ m.pc = "idle" /\ Others("daily")
        /\ v.pc = "date" /\ v.writes = << >>
    BY <1>1, <1>7, StartDoes DEF outVars
  <2>2. m.writes = << >> /\ ~TextComing(d)' BY <1>3, <1>4, <1>5, <2>1
  <2>3. OwnCopy(d)' => OwnCopy(d) BY <2>1, <2>2 DEF OwnCopy, Composing
  <2>4. OldCopy(d)' => OldCopy(d) BY <2>1, <2>2 DEF OldCopy, Resends, There, WillRead
  <2>5. ~Digesting(v) BY <2>1 DEF Digesting
  <2> QED BY <1>4, <1>6, <2>1, <2>3, <2>4, <2>5
<1>8. CASE ReadDate("daily")
  <2>1. /\ UNCHANGED <<day, state, delivered>> /\ m.pc = "date" /\ Others("daily")
        /\ v.writes = << >>
        /\ \/ v.pc = "idle"
           \/ v.pc = "check" /\ state.date = 0
           \/ v.pc = "text" /\ state.date # 0
    BY <1>1, <1>8, ReadDateDoes, IdleIsMemory DEF outVars
  <2>2. m.writes = << >> /\ ~TextComing(d)' BY <1>3, <1>4, <1>5, <2>1
  <2>3. OwnCopy(d)' => OwnCopy(d) BY <2>1, <2>2 DEF OwnCopy, Composing
  <2>4. OldCopy(d)' => OldCopy(d) BY <2>1, <2>2 DEF OldCopy, Resends, There, WillRead
  <2>5. v.pc = "check" => ~OldCopy(d)' BY <2>1, <2>2 DEF OldCopy, Resends
  <2>6. v.pc # "check" => ~Digesting(v) BY <2>1 DEF Digesting
  <2> QED BY <1>4, <1>6, <2>1, <2>3, <2>4, <2>5, <2>6
<1>9. CASE ReadText("daily")
  <2>1. /\ UNCHANGED <<day, state, delivered>> /\ m.pc = "text" /\ Others("daily")
        /\ \/ v.pc = "resend" /\ v.text = state.text /\ v.writes = << >>
           \/ /\ v.pc = "write" /\ HasRow(v.writes, "text") /\ Clears(v.writes)
              /\ ~HasRow(v.writes, "sent") /\ v.then \in {"check", "idle"}
    BY <1>1, <1>9, ReadTextDoes, ClearRowsDo DEF outVars
  <2>2. Clears(v.writes) /\ m.writes = << >> BY <1>3, <1>4, <2>1
  <2>3. ~TextComing(d)' BY <1>5, <2>1, <2>2
  <2>4. OwnCopy(d)' => OwnCopy(d) BY <1>4, <2>1, <2>2 DEF OwnCopy, Composing
  <2>5. OldCopy(d)' => OldCopy(d) BY <2>1, <2>3 DEF OldCopy, Resends, There, WillRead
  <2>6. v.pc = "write" => ~OldCopy(d)' BY <2>1, <2>3 DEF OldCopy, Resends, WillRead
  <2>7. v.pc = "resend" => ~Digesting(v) BY DEF Digesting
  <2> QED BY <1>6, <2>1, <2>2, <2>4, <2>5, <2>6, <2>7
<1>10. CASE ReadCore("daily")
  <2>1. /\ UNCHANGED <<day, state, delivered>> /\ m.pc = "core" /\ Others("daily")
        /\ v.pc = "write" /\ HasRow(v.writes, "text") /\ Clears(v.writes)
        /\ v.then \in {"check", "idle"}
    BY <1>1, <1>10, ReadCoreDoes, CoreRowsDo DEF outVars
  <2>2. ~TextComing(d)' BY <1>5, <2>1
  <2>3. state.sent = day BY <1>1, <2>1 DEF Current
  <2>4. OwnCopy(d)' => OwnCopy(d) BY <2>1, <2>3 DEF OwnCopy, Composing
  <2>5. ~OldCopy(d)' BY <2>1, <2>2 DEF OldCopy, Resends, WillRead
  <2> QED BY <1>6, <2>1, <2>4, <2>5
<1>11. CASE Check("daily")
  <2>1. /\ UNCHANGED <<day, state, delivered>> /\ m.pc = "check" /\ Others("daily")
        /\ v.writes = << >> /\ (v.pc = "idle" \/ (v.pc = "collect" /\ state.sent # m.day))
    BY <1>1, <1>11, CheckDoes, IdleIsMemory DEF outVars
  <2>2. m.writes = << >> /\ ~TextComing(d)' BY <1>3, <1>4, <1>5, <2>1
  <2>3. m.day = day BY <1>1, <2>1 DEF Current
  <2>4. OwnCopy(d)' => OwnCopy(d) BY <1>4, <2>1, <2>2, <2>3 DEF OwnCopy, Composing
  <2>5. OldCopy(d)' => OldCopy(d) BY <2>1, <2>2 DEF OldCopy, Resends, There, WillRead
  <2>6. Digesting(m) BY <2>1 DEF Digesting
  <2> QED BY <1>4, <1>6, <2>1, <2>4, <2>5, <2>6
<1>12. CASE Collect("daily")
  <2>1. /\ UNCHANGED <<day, state, delivered>> /\ m.pc = "collect" /\ Others("daily")
        /\ v.writes = << >> /\ v.pc \in {"mail", "phone"}
    BY <1>1, <1>12, CollectDoes DEF outVars
  <2>2. m.writes = << >> /\ ~TextComing(d)' BY <1>3, <1>4, <1>5, <2>1
  <2>3. OwnCopy(d)' => OwnCopy(d) BY <2>1 DEF OwnCopy, Composing
  <2>4. OldCopy(d)' => OldCopy(d) BY <2>1, <2>2 DEF OldCopy, Resends, There, WillRead
  <2>5. Digesting(m) BY <2>1 DEF Digesting
  <2> QED BY <1>4, <1>6, <2>1, <2>3, <2>4, <2>5
<1>13. CASE Mail("daily")
  <2>1. /\ UNCHANGED <<day, state, delivered>> /\ m.pc = "mail" /\ Others("daily")
        /\ v.pc = "write" /\ v.then = "phone" /\ Clears(v.writes)
    BY <1>1, <1>13, MailDoes, MarkRowsDo
  <2>2. ~TextComing(d)' BY <1>5, <2>1
  <2>3. OwnCopy(d)' => OwnCopy(d) BY <2>1 DEF OwnCopy, Composing
  <2>4. OldCopy(d)' => OldCopy(d) BY <2>1, <2>2 DEF OldCopy, Resends, There, WillRead
  <2>5. Digesting(m) BY <2>1 DEF Digesting
  <2> QED BY <1>6, <2>1, <2>3, <2>4, <2>5
<1>14. CASE Phone("daily")
  <2>1. /\ UNCHANGED <<day, state>> /\ m.pc = "phone" /\ Others("daily") /\ Arrives(m.text)
        /\ v.pc = "write" /\ v.then = "idle" /\ Clears(v.writes) /\ HasRow(v.writes, "sent")
    BY <1>1, <1>14, PhoneDoes, MarkRowsDo
  <2>2. m.text.day = day BY <1>1, <2>1 DEF Current
  <2>3. delivered'[d] = IF d = day THEN delivered[d] + 1 ELSE delivered[d]
    BY <1>1, <2>1, <2>2, ArrivesCounts
  <2>4. /\ ~TextComing(d)' /\ (OtherCopy(d)' <=> OtherCopy(d))
        /\ NextCopy(d)' => NextCopy(d)
    BY <1>5, <2>1
  <2>5. OldCopy(d)' => OldCopy(d) BY <2>1, <2>4 DEF OldCopy, Resends, There, WillRead
  <2>6. Digesting(process["daily"]) /\ ~Digesting(process["daily"])' BY <2>1 DEF Digesting
  <2>7. OwnCopy(d)' => OwnCopy(d) BY <2>1 DEF OwnCopy, Composing
  <2>8. CASE d = day
    <3>1. OwnCopy(d) BY <2>1, <2>8 DEF OwnCopy, Composing
    <3>2. ~OwnCopy(d)' BY <1>1, <2>1, <2>8 DEF OwnCopy, Composing
    <3>3. 1 + Owed(d)' <= Owed(d) BY <2>4, <2>5, <2>6, <3>1, <3>2, OwedMoves
    <3> QED BY <1>1, <1>2, <2>3, <2>8, <3>3 DEF Free, Paid
  <2>9. CASE d # day
    <3>1. Owed(d)' <= Owed(d) BY <2>4, <2>5, <2>6, <2>7, OwedMoves, Counts
    <3> QED BY <1>1, <1>2, <2>3, <2>9, <3>1 DEF Free, Paid
  <2> QED BY <2>8, <2>9
<1>15. CASE Resend("daily")
  <2>1. /\ UNCHANGED <<day, state>> /\ m.pc = "resend" /\ Others("daily") /\ Arrives(m.text)
        /\ v.pc = "write" /\ v.then = "core" /\ Clears(v.writes) /\ HasRow(v.writes, "sent")
    BY <1>1, <1>15, ResendDoes, SentRows
  <2>2. delivered'[d] = IF d = m.text.day THEN delivered[d] + 1 ELSE delivered[d]
    BY <1>1, <2>1, ArrivesCounts
  <2>3. /\ ~TextComing(d)' /\ (OtherCopy(d)' <=> OtherCopy(d))
        /\ NextCopy(d)' => NextCopy(d)
    BY <1>5, <2>1
  <2>4. ~OldCopy(d)' BY <2>1, <2>3 DEF OldCopy, Resends, WillRead
  <2>5. ~Digesting(process["daily"])' BY <2>1 DEF Digesting
  <2>6. OwnCopy(d)' => d > day /\ OwnCopy(d) BY <2>1 DEF OwnCopy, Composing
  <2>7. CASE d = m.text.day
    <3>1. OldCopy(d) BY <2>1, <2>7 DEF OldCopy, Resends
    <3>2. ~OwnCopy(d)' BY <1>1, <2>6, <2>7 DEF Current
    <3>3. 1 + Owed(d)' <= Owed(d) BY <2>3, <2>4, <2>5, <3>1, <3>2, OwedMoves
    <3> QED BY <1>1, <1>2, <2>2, <2>7, <3>3 DEF Free, Paid
  <2>8. CASE d # m.text.day
    <3>1. Owed(d)' <= Owed(d) BY <2>3, <2>4, <2>6, OwedMoves, Counts
    <3> QED BY <1>1, <1>2, <2>2, <2>8, <3>1 DEF Free, Paid
  <2> QED BY <2>7, <2>8
<1>16. CASE ResendFails("daily")
  <2>1. /\ UNCHANGED <<day, state>> /\ m.pc = "resend" /\ Others("daily") /\ faults' = faults + 1
        /\ Arrives(m.text) \/ UNCHANGED <<delivered, planShown>>
        /\ v.writes = << >>
    BY <1>1, <1>16, ResendFailsDoes, IdleIsMemory
  <2>2. /\ delivered'[d] = delivered[d] \/ delivered'[d] = delivered[d] + 1
        /\ d # m.text.day => delivered'[d] = delivered[d]
    BY <1>1, <2>1, ArrivesCounts
  <2>3. faults' # faults BY <2>1, Parts
  <2>4. /\ OtherCopy(d)' <=> OtherCopy(d)
        /\ ~NextCopy(d)'
    BY <1>4, <1>5, <2>1
  <2>5. Owed(d)' <= 2 + Count(OtherCopy(d)') /\ Count(OtherCopy(d)') \in {0, 1}
        /\ Count(OtherCopy(d)') <= Count(OtherCopy(d)) /\ Count(OtherCopy(d)) \in {0, 1}
    <3>1. /\ Owed(d)' <= 2 + Count(OtherCopy(d)') + Count(NextCopy(d)')
          /\ Count(NextCopy(d)') = 0 /\ Count(OtherCopy(d)') \in {0, 1}
          /\ Count(OtherCopy(d)') <= Count(OtherCopy(d)) /\ Count(OtherCopy(d)) \in {0, 1}
      BY <2>4, OwedMoves, Counts
    <3> QED BY <1>2, <3>1
  <2>6. Owed(d) >= Count(OtherCopy(d)) + Count(NextCopy(d)) /\ Count(NextCopy(d)) \in {0, 1}
    BY OwedMoves, Counts
  <2>7. CASE d = m.text.day
    <3>1. OldCopy(d) BY <2>1, <2>7 DEF OldCopy, Resends
    <3>2. Owed(d) >= 1 + Count(OtherCopy(d)) + Count(NextCopy(d)) BY <3>1, OwedMoves
    <3> QED BY <1>1, <1>2, <2>2, <2>3, <2>5, <2>6, <3>2 DEF Paid
  <2>8. CASE d # m.text.day BY <1>1, <1>2, <2>2, <2>3, <2>5, <2>6, <2>8 DEF Paid
  <2> QED BY <2>7, <2>8
<1>17. CASE PhoneFails("daily")
  <2>1. /\ UNCHANGED <<day, state>> /\ m.pc = "phone" /\ Others("daily") /\ faults' = faults + 1
        /\ Arrives(m.text) \/ UNCHANGED <<delivered, planShown>>
        /\ v.pc = "write" /\ v.then = "idle"
        /\ v.writes = StorePending(m.day, m.text, m.text.plan)
    BY <1>1, <1>17, PhoneFailsDoes
  <2>2. m.text.day = day /\ m.day = day BY <1>1, <2>1 DEF Current
  <2>3. /\ HasRow(v.writes, "text") /\ ~HasRow(v.writes, "sent") /\ DateComes(v.writes)
        /\ Comes(v.writes, d) <=> d = day
    BY <1>1, <2>1, <2>2, StoreRowsDo
  <2>4. /\ delivered'[d] = delivered[d] \/ delivered'[d] = delivered[d] + 1
        /\ d # day => delivered'[d] = delivered[d]
    BY <1>1, <2>1, <2>2, ArrivesCounts
  <2>5. faults' # faults BY <2>1, Parts
  <2>6. /\ ~TextComing(d) /\ ~DateComing /\ DateComing' /\ (TextComing(d)' <=> d = day)
        /\ process'["intraday"] = process["intraday"]
    BY <1>3, <2>1, <2>3, ClearsBringNothing DEF TextComing, DateComing, Others, Processes
  <2>7. ~Digesting(process["daily"])' BY <2>1 DEF Digesting
  <2>8. /\ Count(OtherCopy(d)') \in {0, 1} /\ Count(OtherCopy(d)) \in {0, 1}
        /\ Count(NextCopy(d)') \in {0, 1} /\ Count(NextCopy(d)) \in {0, 1}
        /\ Owed(d)' <= 1 + Count(OtherCopy(d)') + Count(NextCopy(d)')
        /\ Owed(d) >= Count(OtherCopy(d)) + Count(NextCopy(d))
    BY <2>7, OwedMoves, Counts
  <2>9. CASE d = day
    <3>1. OtherCopy(d)' => OtherCopy(d)
      BY <2>1, <2>6, <2>9 DEF OtherCopy, Resends, There, Soon
    <3>2. OwnCopy(d) BY <2>1, <2>9 DEF OwnCopy, Composing
    <3>3. Count(OtherCopy(d)') <= Count(OtherCopy(d)) BY <3>1, Counts
    <3>4. Owed(d) >= 1 + Count(OtherCopy(d)) + Count(NextCopy(d)) BY <3>2, OwedMoves
    <3> QED BY <1>1, <1>2, <2>4, <2>5, <2>8, <3>3, <3>4 DEF Paid
  <2>10. CASE d # day
    <3>1. ~NextCopy(d)' BY <2>6, <2>10 DEF NextCopy
    <3>2. Count(NextCopy(d)') = 0 BY <3>1, Counts
    <3> QED BY <1>1, <1>2, <2>4, <2>5, <2>8, <2>10, <3>2 DEF Paid
  <2> QED BY <2>9, <2>10
<1>18. CASE Crash("daily")
  <2>1. /\ UNCHANGED <<day, state, delivered>> /\ Others("daily") /\ kills' = kills + 1
        /\ v.pc = "idle" /\ v.writes = << >>
    BY <1>1, <1>18, CrashDoes, IdleIsMemory DEF outVars
  <2>2. kills' # kills BY <2>1, Parts
  <2>3. /\ ~TextComing(d)' /\ ~DateComing' /\ process'["intraday"] = process["intraday"]
    BY <2>1, NoRows DEF TextComing, DateComing, Others, Processes
  <2>4. OtherCopy(d)' => OtherCopy(d) BY <2>1, <2>3 DEF OtherCopy, Resends, There, Soon
  <2>5. ~NextCopy(d)' /\ ~Digesting(process["daily"])' BY <2>1, <2>3 DEF NextCopy, Digesting
  <2>6. /\ Count(OtherCopy(d)') \in {0, 1} /\ Count(OtherCopy(d)) \in {0, 1}
        /\ Count(NextCopy(d)') = 0 /\ Count(NextCopy(d)) \in {0, 1}
        /\ Owed(d)' <= 1 + Count(OtherCopy(d)') + Count(NextCopy(d)')
        /\ Owed(d) >= Count(OtherCopy(d)) + Count(NextCopy(d))
        /\ Count(OtherCopy(d)') <= Count(OtherCopy(d))
    BY <2>4, <2>5, OwedMoves, Counts
  <2> QED BY <1>1, <1>2, <2>1, <2>2, <2>6 DEF Paid
<1> QED BY <1>7, <1>8, <1>9, <1>10, <1>11, <1>12, <1>13, <1>14, <1>15, <1>16, <1>17, <1>18 DEF Step

\* The rows of app_state after one of them is set, and where the writer goes.
LEMMA WriteMoves ==
  ASSUME TypeInv, DayInv, NEW p \in Processes, Write(p)
  PROVE  LET row == process[p].writes[1]
             m == process[p]
             v == process'[p]
         IN
         /\ UNCHANGED <<day, delivered, faults, kills>> /\ Others(p) /\ m.pc = "write"
         /\ state'.sent = IF row.key = "sent" THEN day ELSE state.sent
         /\ state'.date = IF row.key = "date" THEN row.value ELSE state.date
         /\ state'.text = IF row.key = "text" THEN row.value ELSE state.text
         /\ \/ v.pc = "write" /\ v.then = m.then
            \/ v.pc = "idle" /\ m.then = "idle"
            \/ v.pc = m.then /\ m.then \in {"core", "check", "phone"}
<1> DEFINE w == process[p].writes
           m == process[p]
           v == process'[p]
<1>1. /\ UNCHANGED <<day, delivered, faults, kills>> /\ Others(p) /\ m.pc = "write"
      /\ w[1] \in Rows /\ state' = Set(state, w[1])
  BY WriteDoes DEF outVars
<1>2. RowsOfToday(w) BY DEF DayInv, Current
<1>3. 1 \in DOMAIN w BY <1>2, Pops
<1>4. w[1].key = "sent" => w[1].value = day BY <1>2, <1>3 DEF RowsOfToday
<1>5. /\ state'.sent = IF w[1].key = "sent" THEN w[1].value ELSE state.sent
      /\ state'.date = IF w[1].key = "date" THEN w[1].value ELSE state.date
      /\ state'.text = IF w[1].key = "text" THEN w[1].value ELSE state.text
  BY <1>1, Parts, RowSet
<1>6. state'.sent = IF w[1].key = "sent" THEN day ELSE state.sent BY <1>4, <1>5
<1>7. m.then \in {"idle", "core", "check", "phone"} BY Parts, Fields
<1>8. \/ v.pc = "write" /\ v.then = m.then
      \/ v.pc = "idle" /\ m.then = "idle"
      \/ v.pc = m.then /\ m.then \in {"core", "check", "phone"}
  BY <1>7, WriteDoes, IdleIsMemory
<1> QED BY <1>1, <1>5, <1>6, <1>8

LEMMA OtherWrites ==
  ASSUME TypeInv, DayInv, NEW d \in 1..MaxDay, Write("intraday")
  PROVE  Free(d)
<1> DEFINE m == process["intraday"]
           v == process'["intraday"]
           row == process["intraday"].writes[1]
<1>1. /\ "intraday" \in Processes /\ Clears(m.writes) /\ RowsOfToday(m.writes)
      /\ delivered[d] \in Nat /\ d # 0
  BY Bounds, ArrivesCounts, NoTextIsText DEF Processes, DayInv, Current
<1>2. /\ UNCHANGED <<day, delivered>> /\ Others("intraday") /\ m.pc = "write"
      /\ state'.sent = IF row.key = "sent" THEN day ELSE state.sent
      /\ state'.date = IF row.key = "date" THEN row.value ELSE state.date
      /\ state'.text = IF row.key = "text" THEN row.value ELSE state.text
      /\ \/ v.pc = "write" /\ v.then = m.then
         \/ v.pc = "idle" /\ m.then = "idle"
         \/ v.pc = m.then /\ m.then \in {"core", "check", "phone"}
  BY <1>1, WriteMoves
<1>3. /\ 1 \in DOMAIN m.writes
      /\ HasRow(m.writes, "text") <=> row.key = "text" \/ HasRow(v.writes, "text")
      /\ HasRow(m.writes, "date") <=> row.key = "date" \/ HasRow(v.writes, "date")
      /\ row.key = "text" => ~HasRow(v.writes, "text") /\ ~HasRow(v.writes, "date")
      /\ row.key = "date" => HasRow(v.writes, "text") /\ ~HasRow(v.writes, "date")
  BY <1>1, Pops
<1>4. /\ row.key = "date" => row.value = 0
      /\ row.key = "text" => row.value.day = 0
  BY <1>1, <1>3 DEF Clears
<1>5. /\ state'.date # 0 => state'.date = state.date
      /\ There(d)' => There(d) /\ row.key # "text"
      /\ row.key # "date" => state'.date = state.date
  BY <1>1, <1>2, <1>4 DEF There
<1>6. process'["daily"] = process["daily"] BY <1>2 DEF Others, Processes
<1>7. /\ TextComing(d)' <=> TextComing(d)
      /\ DateComing' <=> DateComing
      /\ Soon(d)' <=> Soon(d)
      /\ NextCopy(d)' <=> NextCopy(d)
      /\ Digesting(process["daily"])' <=> Digesting(process["daily"])
  BY <1>6 DEF TextComing, DateComing, Soon, NextCopy, Digesting
<1>8. OwnCopy(d)' => OwnCopy(d) BY <1>2, <1>6 DEF OwnCopy, Composing
<1>9. OldCopy(d)' => OldCopy(d) BY <1>5, <1>6, <1>7 DEF OldCopy, Resends, WillRead
<1>10. OtherCopy(d)' => OtherCopy(d)
  <2>1. CASE Resends(d, process["intraday"], There(d) \/ Soon(d))'
    <3>1. WillRead(v) /\ state'.date # 0 /\ (There(d)' \/ Soon(d))
      BY <1>2, <1>7, <2>1 DEF Resends, WillRead
    <3>2. m.then # "core" /\ ~HasRow(v.writes, "text")
      <4>1. CASE v.pc = "write" BY <1>2, <3>1, <4>1 DEF WillRead
      <4>2. CASE v.pc # "write"
        <5>1. process'["intraday"].writes = << >>
          <6>1. TypeInv' BY <1>1, TypeStep DEF Next, Step
          <6>2. Fine(process["intraday"])' BY <1>1, <6>1 DEF TypeInv
          <6> QED BY <4>2, <6>2 DEF Fine
        <5> QED BY <1>2, <3>1, <4>2, <5>1, NoRows DEF WillRead
      <4> QED BY <4>1, <4>2
    <3>3. row.key # "date" BY <1>3, <3>2
    <3>4. CASE row.key = "text"
      <4>1. HalfCleared(m) BY <1>2, <1>3, <3>2, <3>4 DEF HalfCleared
      <4> QED BY <1>5, <3>1, <3>3, <3>4, <4>1 DEF OtherCopy
    <3>5. CASE row.key # "text"
      <4>1. WillRead(m) BY <1>2, <1>3, <3>2, <3>5 DEF WillRead
      <4> QED BY <1>5, <3>1, <3>3, <4>1 DEF OtherCopy, Resends
    <3> QED BY <3>4, <3>5
  <2>2. CASE (HalfCleared(process["intraday"]) /\ state.date # 0 /\ Soon(d))'
    <3>1. /\ v.pc = "write" /\ v.then # "core" /\ HasRow(v.writes, "text") /\ ~HasRow(v.writes, "date")
          /\ state'.date # 0 /\ Soon(d)
      BY <1>7, <2>2 DEF HalfCleared
    <3>2. row.key # "date" BY <1>2, <1>4, <3>1
    <3>3. m.then # "core" BY <1>2, <3>1
    <3>4. HalfCleared(m) BY <1>2, <1>3, <3>1, <3>2, <3>3 DEF HalfCleared
    <3> QED BY <1>5, <3>1, <3>2, <3>4 DEF OtherCopy
  <2>3. CASE (WillRead(process["intraday"]) /\ state.date = 0 /\ There(d) /\ DateComing
                /\ ~TextComing(d))'
    <3>1. /\ WillRead(v) /\ There(d) /\ row.key # "text" /\ DateComing /\ ~TextComing(d)
          /\ state'.date = 0
      BY <1>5, <1>7, <2>3 DEF WillRead
    <3>2. m.then # "core" /\ ~HasRow(v.writes, "text")
      <4>1. CASE v.pc = "write" BY <1>2, <3>1, <4>1 DEF WillRead
      <4>2. CASE v.pc # "write"
        <5>1. process'["intraday"].writes = << >>
          <6>1. TypeInv' BY <1>1, TypeStep DEF Next, Step
          <6>2. Fine(process["intraday"])' BY <1>1, <6>1 DEF TypeInv
          <6> QED BY <4>2, <6>2 DEF Fine
        <5> QED BY <1>2, <3>1, <4>2, <5>1, NoRows DEF WillRead
      <4> QED BY <4>1, <4>2
    <3>3. WillRead(m) /\ state.date = 0 BY <1>2, <1>3, <1>5, <3>1, <3>2 DEF WillRead
    <3> QED BY <3>1, <3>3 DEF OtherCopy
  <2> QED BY <2>1, <2>2, <2>3 DEF OtherCopy
<1>11. Owed(d)' <= Owed(d) BY <1>7, <1>8, <1>9, <1>10, OwedMoves, Counts
<1>12. Owed(d) \in Nat /\ Owed(d)' \in Nat BY OwedMoves
<1> QED BY <1>1, <1>2, <1>11, <1>12 DEF Free

LEMMA DailyWrites ==
  ASSUME TypeInv, DayInv, NEW d \in 1..MaxDay, Write("daily")
  PROVE  Free(d)
<1> DEFINE m == process["daily"]
           v == process'["daily"]
           row == process["daily"].writes[1]
<1>1. "daily" \in Processes /\ RowsOfToday(m.writes) /\ delivered[d] \in Nat
  BY ArrivesCounts, NoTextIsText DEF Processes, DayInv, Current
<1>2. /\ UNCHANGED <<day, delivered>> /\ Others("daily") /\ m.pc = "write"
      /\ state'.sent = IF row.key = "sent" THEN day ELSE state.sent
      /\ state'.date = IF row.key = "date" THEN row.value ELSE state.date
      /\ state'.text = IF row.key = "text" THEN row.value ELSE state.text
      /\ \/ v.pc = "write" /\ v.then = m.then
         \/ v.pc = "idle" /\ m.then = "idle"
         \/ v.pc = m.then /\ m.then \in {"core", "check", "phone"}
  BY <1>1, WriteMoves
<1>3. /\ HasRow(m.writes, "sent") <=> row.key = "sent" \/ HasRow(v.writes, "sent")
      /\ HasRow(m.writes, "text") <=> row.key = "text" \/ HasRow(v.writes, "text")
      /\ HasRow(m.writes, "date") <=> row.key = "date" \/ HasRow(v.writes, "date")
      /\ TextComing(d) <=> (row.key = "text" /\ row.value.day = d) \/ TextComing(d)'
      /\ DateComing <=> (row.key = "date" /\ row.value # 0) \/ DateComing'
      /\ row.key = "text" => ~HasRow(v.writes, "text") /\ ~HasRow(v.writes, "date")
      /\ row.key = "date" => HasRow(v.writes, "text") /\ ~HasRow(v.writes, "date")
      /\ HasRow(v.writes, "date") => HasRow(v.writes, "text")
  BY <1>1, Pops DEF TextComing, DateComing
<1>4. /\ row.key = "text" => ~TextComing(d)' /\ ~DateComing'
      /\ row.key = "date" => ~DateComing'
  BY <1>3 DEF TextComing, DateComing, Comes, DateComes, HasRow
<1>5. v.pc # "write" => v.writes = << >>
  <2>1. TypeInv' BY <1>1, TypeStep DEF Next, Step
  <2>2. Fine(process["daily"])' BY <1>1, <2>1 DEF TypeInv
  <2> QED BY <2>2 DEF Fine
<1>6. process'["intraday"] = process["intraday"] BY <1>2 DEF Others, Processes
<1>7. OwnCopy(d)' => OwnCopy(d)
  <2>1. Composing(v) => Composing(m) BY <1>2 DEF Composing
  <2>2. m.pc # "resend" BY <1>2
  <2> QED BY <1>2, <1>3, <2>1, <2>2 DEF OwnCopy, Composing
<1>8. OldCopy(d)' => OldCopy(d)
  <2>1. TextComing(d)' => TextComing(d) BY <1>3
  <2>2. ASSUME Resends(d, process["daily"], There(d))' PROVE OldCopy(d)
    <3>1. WillRead(v) /\ state'.date # 0 /\ state'.text.day = d
      BY <1>2, <2>2 DEF Resends, WillRead, There
    <3>2. m.then # "core" /\ ~HasRow(v.writes, "text")
      BY <1>2, <1>5, <3>1, NoRows DEF WillRead
    <3>3. CASE row.key = "text" BY <1>2, <1>3, <3>1, <3>3 DEF OldCopy
    <3>4. CASE row.key # "text"
      <4>1. row.key # "date" BY <1>3, <3>2
      <4>2. WillRead(m) BY <1>2, <1>3, <3>2, <3>4 DEF WillRead
      <4> QED BY <1>2, <3>1, <3>4, <4>1, <4>2 DEF OldCopy, Resends, There
    <3> QED BY <3>3, <3>4
  <2> QED BY <2>1, <2>2 DEF OldCopy
<1>9. Digesting(process["daily"])' => Digesting(process["daily"]) BY <1>2 DEF Digesting
<1>10. Count(OtherCopy(d)') + Count(NextCopy(d)') <= Count(OtherCopy(d)) + Count(NextCopy(d))
  <2>1. CASE row.key # "text" /\ row.key # "date"
    <3>1. /\ state'.date = state.date /\ (There(d)' <=> There(d))
          /\ TextComing(d)' <=> TextComing(d)
          /\ DateComing' <=> DateComing
      BY <1>2, <1>3, <2>1 DEF There
    <3>2. OtherCopy(d)' => OtherCopy(d) BY <1>6, <3>1 DEF OtherCopy, Resends, Soon
    <3>3. NextCopy(d)' => NextCopy(d) BY <3>1 DEF NextCopy
    <3> QED BY <3>2, <3>3, Counts
  <2>2. CASE row.key = "text"
    <3>1. /\ ~TextComing(d)' /\ ~DateComing' /\ ~DateComing /\ state'.date = state.date
          /\ There(d)' => TextComing(d)
      BY <1>2, <1>3, <1>4, <2>2 DEF There
    <3>2. OtherCopy(d)' => OtherCopy(d) BY <1>6, <3>1 DEF OtherCopy, Resends, Soon
    <3>3. ~NextCopy(d)' BY <3>1 DEF NextCopy
    <3> QED BY <3>2, <3>3, Counts
  <2>3. CASE row.key = "date" /\ row.value # 0 /\ TextComing(d)
    <3>1. DateComing /\ ~DateComing' BY <1>3, <1>4, <2>3
    <3>2. NextCopy(d) /\ ~NextCopy(d)' BY <2>3, <3>1 DEF NextCopy
    <3>3. Count(NextCopy(d)) = 1 /\ Count(NextCopy(d)') = 0 BY <3>2, Counts
    <3>4. Count(OtherCopy(d)') \in {0, 1} /\ Count(OtherCopy(d)) \in {0, 1} BY Counts
    <3> QED BY <3>3, <3>4
  <2>4. CASE row.key = "date" /\ row.value # 0 /\ ~TextComing(d)
    <3>1. /\ DateComing /\ ~DateComing' /\ ~TextComing(d)' /\ (There(d)' <=> There(d))
          /\ state'.date # 0
      BY <1>2, <1>3, <1>4, <2>4 DEF There
    <3>2. OtherCopy(d)' => OtherCopy(d) BY <1>6, <2>4, <3>1 DEF OtherCopy, Resends, Soon
    <3>3. ~NextCopy(d)' BY <3>1 DEF NextCopy
    <3> QED BY <3>2, <3>3, Counts
  <2>5. CASE row.key = "date" /\ row.value = 0
    <3>1. /\ ~DateComing' /\ ~DateComing /\ (There(d)' <=> There(d)) /\ state'.date = 0
          /\ TextComing(d)' <=> TextComing(d)
      BY <1>2, <1>3, <1>4, <2>5 DEF There
    <3>2. OtherCopy(d)' => OtherCopy(d) BY <1>6, <3>1 DEF OtherCopy, Resends, Soon
    <3>3. ~NextCopy(d)' BY <3>1 DEF NextCopy
    <3> QED BY <3>2, <3>3, Counts
  <2> QED BY <2>1, <2>2, <2>3, <2>4, <2>5
<1>11. Owed(d)' <= Owed(d) BY <1>7, <1>8, <1>9, <1>10, OwedMoves
<1>12. Owed(d) \in Nat /\ Owed(d)' \in Nat BY OwedMoves
<1> QED BY <1>1, <1>2, <1>11, <1>12 DEF Free

\* At the end of a day nothing is being written or sent.
LEMMA DayEnds ==
  ASSUME TypeInv, DayInv, NEW d \in 1..MaxDay, NextDay
  PROVE  Owed(d)' <= Owed(d)
<1> DEFINE m == process["daily"]
           v == process["intraday"]
<1>1. /\ UNCHANGED <<state, process>> /\ day' = day + 1 /\ day \in Nat /\ d \in Nat
      /\ m.pc = "idle" /\ v.pc = "idle"
  BY Parts, Bounds DEF NextDay, Processes
<1>2. "daily" \in Processes /\ "intraday" \in Processes BY DEF Processes
<1>3. m.writes = << >> /\ v.writes = << >> BY <1>1, <1>2, NoWrites
<1>4. state.sent <= day /\ state.sent \in Nat BY Parts, Bounds DEF DayInv, States
<1>5. OwnCopy(d)' => OwnCopy(d)
  <2>1. OwnCopy(d)' => d >= day + 1 BY <1>1 DEF OwnCopy, Composing
  <2>2. d >= day + 1 => d > day BY <1>1
  <2> QED BY <2>1, <2>2 DEF OwnCopy
<1>6. OldCopy(d)' <=> OldCopy(d) BY <1>1 DEF OldCopy, Resends, There, TextComing, WillRead, HasRow
<1>7. OtherCopy(d)' <=> OtherCopy(d)
  BY <1>1 DEF OtherCopy, Resends, There, Soon, TextComing, DateComing, WillRead, HalfCleared, HasRow
<1>8. NextCopy(d)' <=> NextCopy(d) BY <1>1 DEF NextCopy, TextComing, DateComing
<1>9. Digesting(m)' <=> Digesting(m) BY <1>1 DEF Digesting
<1> QED BY <1>5, <1>6, <1>7, <1>8, <1>9, OwedMoves, Counts

LEMMA StandsStill ==
  ASSUME UNCHANGED vars, NEW d
  PROVE  Owed(d)' = Owed(d)
BY DEF vars, outVars, Owed, OwnCopy, OldCopy, OtherCopy, NextCopy, Resends, There, Soon, TextComing,
       DateComing, Comes, DateComes, WillRead, HalfCleared, HasRow, Digesting, Composing

\* A step is free, or it is the fault or the kill that pays for it.
LEMMA FaultsPay ==
  ASSUME TypeInv, NEW p \in Processes, Step(p)
  PROVE  /\ faults \in Nat /\ kills \in Nat /\ faults' \in Nat /\ kills' \in Nat
         /\ UNCHANGED <<faults, kills>> \/ faults' + kills' = faults + kills + 1
<1>1. faults \in Nat /\ kills \in Nat BY Bounds DEF TypeInv, TypeOK
<1>2. CASE ResendFails(p) \/ PhoneFails(p)
  <2>1. faults' = faults + 1 /\ kills' = kills BY <1>2 DEF ResendFails, PhoneFails, Fault
  <2> QED BY <1>1, <2>1
<1>3. CASE Crash(p)
  <2>1. kills' = kills + 1 /\ faults' = faults BY <1>3 DEF Crash
  <2> QED BY <1>1, <2>1
<1>4. CASE UNCHANGED <<faults, kills>> BY <1>1, <1>4
<1>5. \/ UNCHANGED <<faults, kills>> \/ ResendFails(p) \/ PhoneFails(p) \/ Crash(p)
  BY DEF Step, Write, Start, ReadDate, ReadText, Resend, ReadCore, Check, Collect, Mail, Phone
<1> QED BY <1>2, <1>3, <1>4, <1>5

LEMMA RepeatsStep == TypeInv /\ DayInv /\ RepeatsInv /\ [Next]_vars => RepeatsInv'
<1> SUFFICES ASSUME TypeInv, DayInv, RepeatsInv, [Next]_vars, NEW d \in 1..MaxDay
             PROVE  delivered'[d] + Owed(d)' <= 1 + 2 * (faults' + kills')
  BY DEF RepeatsInv
<1>1. delivered[d] + Owed(d) <= 1 + 2 * (faults + kills) BY DEF RepeatsInv
<1>2. Owed(d) \in Nat /\ Owed(d)' \in Nat BY OwedMoves
<1>3. TypeInv' BY TypeStep
<1>4. delivered[d] \in Nat /\ delivered'[d] \in Nat /\ faults \in Nat /\ kills \in Nat
  <2>1. delivered \in [1..MaxDay -> Nat] /\ delivered' \in [1..MaxDay -> Nat]
    BY <1>3 DEF TypeInv, TypeOK
  <2>2. faults \in 0..MaxFaults /\ kills \in 0..MaxKills BY DEF TypeInv, TypeOK
  <2> QED BY <2>1, <2>2, Bounds
<1>5. CASE UNCHANGED vars
  <2>1. UNCHANGED <<delivered, faults, kills>> BY <1>5 DEF vars, outVars
  <2> QED BY <1>1, <1>5, <2>1, StandsStill
<1>6. CASE NextDay
  <2>1. UNCHANGED <<delivered, faults, kills>> BY <1>6 DEF NextDay, outVars
  <2>2. Owed(d)' <= Owed(d) BY <1>6, DayEnds
  <2> QED BY <1>1, <1>2, <1>4, <2>1, <2>2
<1>7. ASSUME NEW p \in Processes, Step(p)
      PROVE  delivered'[d] + Owed(d)' <= 1 + 2 * (faults' + kills')
  <2>1. \/ (UNCHANGED <<faults, kills>> => Free(d)) /\ Paid(d)
        \/ UNCHANGED <<faults, kills>> /\ Free(d)
    <3>1. CASE p = "daily" /\ Write(p) BY <3>1, DailyWrites, WriteMoves
    <3>2. CASE p = "intraday" /\ Write(p) BY <3>2, OtherWrites, WriteMoves
    <3>3. CASE p = "daily" /\ ~Write(p)
      <4>1. Step("daily") /\ ~Write("daily") BY <1>7, <3>3
      <4> QED BY <4>1, DailyMoves
    <3>4. CASE p = "intraday" /\ ~Write(p)
      <4>1. Step("intraday") /\ ~Write("intraday") BY <1>7, <3>4
      <4> QED BY <4>1, OtherMoves
    <3> QED BY <3>1, <3>2, <3>3, <3>4 DEF Processes
  <2>2. CASE UNCHANGED <<faults, kills>>
    <3>1. delivered'[d] + Owed(d)' <= delivered[d] + Owed(d) BY <2>1, <2>2 DEF Free
    <3> QED BY <1>1, <1>2, <1>4, <2>2, <3>1
  <2>3. CASE ~UNCHANGED <<faults, kills>>
    <3>1. delivered'[d] + Owed(d)' <= delivered[d] + Owed(d) + 2 BY <2>1, <2>3 DEF Paid
    <3>2. /\ faults' \in Nat /\ kills' \in Nat
          /\ faults' + kills' = faults + kills + 1
      BY <1>7, <2>3, FaultsPay
    <3> DEFINE f == faults + kills
               g == faults' + kills'
    <3>3. f \in Nat /\ g = f + 1
      <4>1. faults \in Nat /\ kills \in Nat /\ faults' \in Nat /\ kills' \in Nat BY <1>4, <3>2
      <4>2. f \in Nat BY <4>1
      <4>3. g = f + 1 BY <3>2
      <4> QED BY <4>2, <4>3
    <3>4. delivered[d] + Owed(d) <= 1 + 2 * f BY <1>1
    <3> HIDE DEF f, g
    <3>5. delivered'[d] + Owed(d)' <= 1 + 2 * g BY <1>2, <1>4, <3>1, <3>3, <3>4
    <3> QED BY <3>5 DEF g
  <2> QED BY <2>2, <2>3
<1> QED BY <1>5, <1>6, <1>7 DEF Next

LEMMA RepeatsInit == Init => RepeatsInv
<1> SUFFICES ASSUME Init, NEW d \in 1..MaxDay
             PROVE  delivered[d] + Owed(d) <= 1 + 2 * (faults + kills)
  BY DEF RepeatsInv
<1> DEFINE m == process["daily"]
           v == process["intraday"]
<1>1. /\ state.date = 0 /\ state.text = NoText /\ m = Idle /\ v = Idle
      /\ delivered[d] = 0 /\ faults = 0 /\ kills = 0
  BY DEF Init, Processes
<1>2. TypeInv BY TypeInit
<1>3. /\ m.pc = "idle" /\ v.pc = "idle" /\ m.writes = << >> BY <1>1, <1>2, IdleIsCurrent
<1>4. d # 0 /\ d \in Nat BY Bounds
<1>5. ~There(d) BY <1>1, <1>4, NoTextIsText DEF There
<1>6. ~TextComing(d) /\ ~DateComing BY <1>3 DEF TextComing, DateComing, Comes, DateComes
<1>7. ~OldCopy(d) /\ ~OtherCopy(d) /\ ~NextCopy(d) /\ ~Digesting(m)
  BY <1>1, <1>3, <1>5, <1>6
     DEF OldCopy, OtherCopy, NextCopy, Digesting, Resends, Soon, WillRead, HalfCleared
<1> HIDE DEF m, v
<1>8. OwnCopy(d) \in BOOLEAN BY CopyTypes
<1>9. Owed(d) \in {0, 1} BY <1>7, <1>8 DEF Owed, Sum, Count, m
<1> QED BY <1>1, <1>9

(* A digest arrives twice on the phone only after a failed send or a kill: *)
(* every delivery uses up a copy that could still arrive, a new day owes   *)
(* one copy, and a failed send or a killed process adds two at most, for   *)
(* the pending text it stores or leaves for both processes to resend.      *)
(* Reruns of the chain and overlapping resends alone never repeat one.     *)
THEOREM RepeatsAreExplained == Spec => []RepeatsExplained
<1>1. TypeInv /\ RepeatsInv => RepeatsExplained
  <2> SUFFICES ASSUME TypeInv, RepeatsInv, NEW d \in 1..MaxDay
               PROVE  delivered[d] <= 1 + 2 * (faults + kills)
    BY DEF RepeatsExplained
  <2>1. delivered[d] + Owed(d) <= 1 + 2 * (faults + kills) BY DEF RepeatsInv
  <2>2. Owed(d) \in Nat BY OwedMoves
  <2>3. delivered \in [1..MaxDay -> Nat] /\ faults \in 0..MaxFaults /\ kills \in 0..MaxKills
    BY DEF TypeInv, TypeOK
  <2>4. delivered[d] \in Nat /\ faults \in Nat /\ kills \in Nat BY <2>3, Bounds
  <2> QED BY <2>1, <2>2, <2>4
<1> QED BY <1>1, TypeInit, TypeStep, DayInit, DayStep, RepeatsInit, RepeatsStep, PTL DEF Spec
=============================================================================
