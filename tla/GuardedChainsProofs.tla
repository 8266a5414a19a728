------------------------- MODULE GuardedChainsProofs -------------------------
(***************************************************************************)
(* The guarded chains for every calendar, number of triggers and number of *)
(* kills: their stores are well formed, a slot runs once, a slot whose     *)
(* trigger came is served, and a reported start starts something.          *)
(***************************************************************************)
EXTENDS GuardedChains, Integers, SequenceTheorems, TLAPS

-----------------------------------------------------------------------------
(* The calendar: stamps never go back.                                     *)

LEMMA Division ==
  ASSUME NEW k \in Nat, NEW w \in Nat \ {0}
  PROVE  /\ k \div w \in Nat /\ k % w \in 0..w - 1 /\ k % w <= k
         /\ k = w * (k \div w) + (k % w)
OBVIOUS

LEMMA NoMultipleBetween ==
  ASSUME NEW n \in Int, NEW w \in Nat \ {0}
  PROVE  w * n \notin 1..w - 1
<1>1. CASE n <= 0 BY <1>1
<1>2. CASE n >= 1
  <2>1. w * n = w + w * (n - 1) OBVIOUS
  <2>2. n - 1 \in Nat BY <1>2
  <2>3. w * (n - 1) \in Nat BY <2>2
  <2> QED BY <2>1, <2>3
<1> QED BY <1>1, <1>2

LEMMA RemainderGrowsByOne ==
  ASSUME NEW k \in Nat, NEW w \in Nat \ {0}
  PROVE  (k + 1) % w <= (k % w) + 1
<1> DEFINE q == k \div w
           p == (k + 1) \div w
<1>1. q \in Nat /\ k = w * q + (k % w) /\ k % w \in 0..w - 1 BY Division
<1>2. p \in Nat /\ k + 1 = w * p + ((k + 1) % w) /\ (k + 1) % w \in 0..w - 1
  <2>1. k + 1 \in Nat OBVIOUS
  <2> QED BY <2>1, Division
<1> HIDE DEF q, p
<1>3. w * (q - p) = w * q - w * p BY <1>1, <1>2
<1>4. q - p \in Int BY <1>1, <1>2
<1>5. w * (q - p) \notin 1..w - 1 BY <1>4, NoMultipleBetween
<1>6. w * q \in Int /\ w * p \in Int BY <1>1, <1>2
<1> QED BY <1>1, <1>2, <1>3, <1>5, <1>6

LEMMA StampInTime ==
  ASSUME NEW c \in Chain, NEW d \in Nat \ {0}
  PROVE  Stamp(c, d) \in 1..d
<1>1. Week \in Nat \ {0} BY ChainsAssumption DEF ChainsAssumption
<1>2. d - 1 \in Nat OBVIOUS
<1>3. (d - 1) % Week \in Nat /\ (d - 1) % Week <= d - 1 BY <1>1, <1>2, Division
<1> QED BY <1>3 DEF Stamp

LEMMA StampsGoOn ==
  ASSUME NEW c \in Chain, NEW d \in Nat \ {0}
  PROVE  Stamp(c, d) <= Stamp(c, d + 1)
<1>1. Week \in Nat \ {0} BY ChainsAssumption DEF ChainsAssumption
<1>2. d - 1 \in Nat /\ (d + 1) - 1 = (d - 1) + 1 OBVIOUS
<1>3. ((d - 1) + 1) % Week <= ((d - 1) % Week) + 1 BY <1>1, <1>2, RemainderGrowsByOne
<1>4. (d - 1) % Week \in Nat /\ ((d - 1) + 1) % Week \in Nat BY <1>1, <1>2, Division
<1> QED BY <1>2, <1>3, <1>4 DEF Stamp

-----------------------------------------------------------------------------
(* The names.                                                              *)

LEMMA Names ==
  /\ DOMAIN Phases = 1..3 /\ Len(Phases) = 3
  /\ Phases[1] = "scout" /\ Phases[2] = "daily" /\ Phases[3] = "nightly"
  /\ Chain = {"scout", "daily", "nightly"}
  /\ Lock = {"scout", "daily", "nightly", "full"}
<1>1. /\ DOMAIN Phases = 1..3 /\ Len(Phases) = 3
      /\ Phases[1] = "scout" /\ Phases[2] = "daily" /\ Phases[3] = "nightly"
  BY DEF Phases
<1>2. Chain = {Phases[i] : i \in 1..3} BY <1>1 DEF Chain
<1>3. Chain = {"scout", "daily", "nightly"} BY <1>1, <1>2
<1> QED BY <1>1, <1>3 DEF Lock

-----------------------------------------------------------------------------
(* Types, and what the parts know of each other: a wrapper that runs has   *)
(* its chain beside it, and the refresh waits for the wrapper it started.  *)

Wrappers == [pc : {"none", "run", "mark"}, stamp : 0..MaxDay,
             by : {"none", "timer", "refresh", "cockpit"}]
Refreshes == [pc : {"none", "phase", "wait"}, forced : BOOLEAN, i : 0..Len(Phases)]
Requests == [pc : {"none", "probe", "release", "check", "launch"}, job : {"none", "daily", "full"},
             forced : BOOLEAN, locks : Seq(Lock)]

WrapperInv(c) ==
  /\ alive[c] \in {0, 1}
  /\ wrapper[c].pc = "none" => wrapper[c] = NoWrapper
  /\ wrapper[c].pc # "none" => wrapper[c].stamp \in Stamps
  /\ wrapper[c].pc = "run" => alive[c] = 1
  /\ wrapper[c].pc = "mark" => alive[c] = 0
  /\ wrapper[c].by = "refresh" => refresh.pc = "wait" /\ Phases[refresh.i] = c

TypeInv ==
  /\ TypeOK
  /\ request \in Requests
  /\ request.pc # "none" => request.job \in {"daily", "full"}
  /\ request.pc \in {"probe", "release"} => request.locks # <<>>
  /\ begun \in [Chain -> [Stamps -> Nat]] /\ failed \in [Chain -> [Stamps -> Nat]]
  /\ refresh.pc # "none" => refresh.i \in DOMAIN Phases
  /\ \A c \in Chain : WrapperInv(c)

-----------------------------------------------------------------------------
(* A slot runs once, and is served.                                        *)

\* The slot is being run, or lies at or before the marker.
Taken(c, s) == (wrapper[c].pc # "none" /\ wrapper[c].stamp = s) \/ marker[c] >= s

\* Stamps go on: the marker's, the running wrapper's, the day's.
InOrder(c) ==
  /\ marker[c] <= Stamp(c, day)
  /\ wrapper[c].pc # "none" => marker[c] <= wrapper[c].stamp /\ wrapper[c].stamp <= Stamp(c, day)

Begins(c, s) == begun[c][s] <= failed[c][s] + kills + (IF Taken(c, s) THEN 1 ELSE 0)

OnceInv == \A c \in Chain : InOrder(c) /\ \A s \in Stamps : Begins(c, s)

\* What is marked, or about to be, was served.
MarkedServed(c) ==
  /\ marker[c] > 0 => <<c, marker[c]>> \in served
  /\ wrapper[c].pc = "mark" => <<c, wrapper[c].stamp>> \in served

Answered(t) ==
  \/ kills > 0 \/ failed[t[1]][t[2]] > 0
  \/ t \in served \/ \E h \in {"run", "probe"} : <<t[1], t[2], h>> \in turned
  \/ wrapper[t[1]].pc # "none" /\ wrapper[t[1]].stamp = t[2]

ServedInv == (\A c \in Chain : MarkedServed(c)) /\ \A t \in due : Answered(t)

-----------------------------------------------------------------------------
(* A reported start: once its job's lock was found free, it stays free of  *)
(* everybody but the request's own probe until somebody moves.             *)

Probed == \/ request.pc \in {"release", "check", "launch"}
          \/ request.pc = "probe" /\ request.locks # LocksOf(request.job)

QuietInv ==
  /\ ~quiet
  /\ request.pc # "release" => probing["start"] = "none"
  /\ request.pc # "none" => Len(request.locks) <= Len(LocksOf(request.job))
  /\ Probed /\ ~moved => ~HeldByRun(request.job) /\ probing["status"] # request.job
  /\ request.pc = "launch" /\ ~moved /\ ~request.forced => ~BlockedReason(request.job)

ChainsInv == TypeInv /\ OnceInv /\ ServedInv /\ QuietInv

-----------------------------------------------------------------------------
(* Types are kept.                                                         *)

\* The type invariant, part by part.
LEMMA Parts ==
  ASSUME TypeInv
  PROVE  /\ MaxDay \in Nat \ {0} /\ MaxTriggers \in Nat /\ MaxKills \in Nat
         /\ day \in Stamps /\ triggers \in 0..MaxTriggers /\ kills \in 0..MaxKills
         /\ marker \in [Chain -> 0..MaxDay] /\ alive \in [Chain -> Nat]
         /\ wrapper \in [Chain -> Wrappers] /\ refresh \in Refreshes /\ request \in Requests
         /\ probing \in [{"start", "status"} -> Lock \cup {"none"}]
         /\ due \subseteq Chain \X Stamps /\ served \subseteq Chain \X Stamps
         /\ turned \subseteq Chain \X Stamps \X {"run", "probe"} /\ moved \in BOOLEAN
         /\ begun \in [Chain -> [Stamps -> Nat]] /\ failed \in [Chain -> [Stamps -> Nat]]
BY ChainsAssumption DEF TypeInv, TypeOK, Wrappers, Refreshes, ChainsAssumption

LEMMA PartsMake ==
  ASSUME day \in Stamps, triggers \in 0..MaxTriggers, kills \in 0..MaxKills,
         marker \in [Chain -> 0..MaxDay], alive \in [Chain -> Nat],
         wrapper \in [Chain -> Wrappers], refresh \in Refreshes, request \in Requests,
         probing \in [{"start", "status"} -> Lock \cup {"none"}],
         due \subseteq Chain \X Stamps, served \subseteq Chain \X Stamps,
         turned \subseteq Chain \X Stamps \X {"run", "probe"}, moved \in BOOLEAN,
         begun \in [Chain -> [Stamps -> Nat]], failed \in [Chain -> [Stamps -> Nat]],
         request.pc # "none" => request.job \in {"daily", "full"},
         request.pc \in {"probe", "release"} => request.locks # <<>>,
         refresh.pc # "none" => refresh.i \in DOMAIN Phases,
         \A c \in Chain : WrapperInv(c)
  PROVE  TypeInv
<1>1. request.pc \in {"none", "probe", "release", "check", "launch"} BY DEF Requests
<1>2. \A c \in Chain : wrapper[c].by = "refresh" => refresh.pc = "wait" /\ Phases[refresh.i] = c
  BY DEF WrapperInv
<1> QED BY <1>1, <1>2 DEF TypeInv, TypeOK, Wrappers, Refreshes

\* A stamp of today is a stamp of the model.
LEMMA StampToday ==
  ASSUME TypeInv, NEW c \in Chain
  PROVE  Stamp(c, day) \in Stamps /\ day \in Nat \ {0} /\ Stamp(c, day) <= day
<1>1. day \in Nat \ {0} /\ day <= MaxDay /\ MaxDay \in Nat BY Parts DEF Stamps
<1> QED BY <1>1, StampInTime DEF Stamps

LEMMA TypeInit == Init => TypeInv
<1> SUFFICES ASSUME Init PROVE TypeInv OBVIOUS
<1>1. MaxDay \in Nat \ {0} /\ MaxTriggers \in Nat /\ MaxKills \in Nat
  BY ChainsAssumption DEF ChainsAssumption
<1>2. day \in Stamps /\ triggers \in 0..MaxTriggers /\ kills \in 0..MaxKills
  BY <1>1 DEF Init, Stamps
<1>3. marker \in [Chain -> 0..MaxDay] /\ alive \in [Chain -> Nat] BY <1>1 DEF Init
<1>4. NoWrapper \in Wrappers BY <1>1 DEF NoWrapper, Wrappers
<1>5. wrapper \in [Chain -> Wrappers] BY <1>4 DEF Init
<1>6. refresh \in Refreshes BY Names DEF Init, NoRefresh, Refreshes
<1>7. request \in Requests BY DEF Init, NoRequest, Requests
<1>8. probing \in [{"start", "status"} -> Lock \cup {"none"}] BY DEF Init
<1>9. /\ due \subseteq Chain \X Stamps /\ served \subseteq Chain \X Stamps
      /\ turned \subseteq Chain \X Stamps \X {"run", "probe"} /\ moved \in BOOLEAN
  BY DEF Init
<1>10. begun \in [Chain -> [Stamps -> Nat]] /\ failed \in [Chain -> [Stamps -> Nat]]
  BY DEF Init, PerSlot
<1>11. request.pc = "none" /\ refresh.pc = "none" BY DEF Init, NoRequest, NoRefresh
<1>12. \A c \in Chain : WrapperInv(c) BY DEF Init, WrapperInv, NoWrapper
<1> QED BY <1>2, <1>3, <1>5, <1>6, <1>7, <1>8, <1>9, <1>10, <1>11, <1>12, PartsMake

\* A count of runs stays one.
LEMMA CountIsCount ==
  ASSUME NEW f \in [Chain -> [Stamps -> Nat]], NEW c \in Chain, NEW s \in Stamps
  PROVE  /\ Count(f, c, s) \in [Chain -> [Stamps -> Nat]]
         /\ Count(f, c, s)[c][s] = f[c][s] + 1
         /\ \A e \in Chain, r \in Stamps :
              e # c \/ r # s => Count(f, c, s)[e][r] = f[e][r]
BY DEF Count

\* A chain begins where nothing of it runs.
LEMMA BeginTypes ==
  ASSUME TypeInv, NEW c \in Chain, NEW forced \in BOOLEAN,
         NEW by \in {"timer", "refresh", "cockpit"}, ~ Held(c), Begin(c, forced, by)
  PROVE  /\ wrapper' \in [Chain -> Wrappers] /\ alive' \in [Chain -> Nat]
         /\ begun' \in [Chain -> [Stamps -> Nat]]
         /\ wrapper'[c] = [pc |-> "run", stamp |-> Stamp(c, day), by |-> by]
         /\ alive[c] = 0 /\ alive'[c] = 1 /\ wrapper[c] = NoWrapper
         /\ \A e \in Chain \ {c} : wrapper'[e] = wrapper[e] /\ alive'[e] = alive[e]
<1>1. Stamp(c, day) \in Stamps BY StampToday
<1>2. [pc |-> "run", stamp |-> Stamp(c, day), by |-> by] \in Wrappers
  BY <1>1, Parts DEF Wrappers, Stamps
<1>3. /\ wrapper' = [wrapper EXCEPT ![c] = [pc |-> "run", stamp |-> Stamp(c, day), by |-> by]]
      /\ alive' = [alive EXCEPT ![c] = @ + 1]
      /\ begun' = IF forced THEN begun ELSE Count(begun, c, Stamp(c, day))
  BY DEF Begin
<1>4. wrapper' \in [Chain -> Wrappers] /\ alive' \in [Chain -> Nat] BY <1>2, <1>3, Parts
<1>5. begun' \in [Chain -> [Stamps -> Nat]]
  <2>1. Count(begun, c, Stamp(c, day)) \in [Chain -> [Stamps -> Nat]]
    BY <1>1, Parts, CountIsCount
  <2> QED BY <1>3, <2>1, Parts
<1>6. wrapper[c].pc = "none" /\ ~ (alive[c] > 0)
  <2>1. c # "full" BY Names
  <2> QED BY <2>1 DEF Held, HeldByRun
<1>7. wrapper[c] = NoWrapper /\ alive[c] = 0 BY <1>6 DEF TypeInv, WrapperInv
<1>8. alive'[c] = 1 BY <1>3, <1>7, Parts
<1>9. wrapper'[c] = [pc |-> "run", stamp |-> Stamp(c, day), by |-> by] BY <1>3, Parts, Zenon
<1>10. \A e \in Chain \ {c} : wrapper'[e] = wrapper[e] /\ alive'[e] = alive[e] BY <1>3, Parts
<1> QED BY <1>4, <1>5, <1>7, <1>8, <1>9, <1>10

\* The refresh goes on when its wrapper is gone.
LEMMA AdvanceTypes ==
  ASSUME TypeInv, refresh.pc # "none", Advance
  PROVE  /\ refresh' \in Refreshes /\ refresh'.pc \in {"none", "phase"}
         /\ refresh'.pc # "none" => refresh'.i \in DOMAIN Phases
<1>1. refresh \in Refreshes /\ refresh.i \in 1..3 BY Parts, Names DEF TypeInv
<1>2. CASE refresh.i < Len(Phases)
  <2>1. refresh' = [refresh EXCEPT !.pc = "phase", !.i = refresh.i + 1] BY <1>2 DEF Advance
  <2>2. refresh.i + 1 \in 1..3 BY <1>1, <1>2, Names
  <2>3. refresh.i + 1 \in 0..Len(Phases) /\ refresh.i + 1 \in DOMAIN Phases BY <2>2, Names
  <2>4. refresh' \in Refreshes BY <1>1, <2>1, <2>3 DEF Refreshes
  <2>5. refresh'.pc = "phase" /\ refresh'.i = refresh.i + 1 BY <1>1, <2>1 DEF Refreshes
  <2> QED BY <2>3, <2>4, <2>5
<1>3. CASE ~ (refresh.i < Len(Phases))
  BY <1>3, Names DEF Advance, NoRefresh, Refreshes
<1> QED BY <1>2, <1>3

\* A wrapper ends: of the others, only the refresh that waited for it goes on.
LEMMA ExitTypes ==
  ASSUME TypeInv, NEW c \in Chain, wrapper[c].pc # "none", Exit(c)
  PROVE  /\ wrapper' \in [Chain -> Wrappers] /\ refresh' \in Refreshes
         /\ refresh'.pc # "none" => refresh'.i \in DOMAIN Phases
         /\ wrapper'[c] = NoWrapper /\ \A e \in Chain \ {c} : wrapper'[e] = wrapper[e]
         /\ \A e \in Chain : wrapper'[e].by = "refresh" =>
              refresh'.pc = "wait" /\ Phases[refresh'.i] = e
         /\ refresh'.pc # "none" => refresh.pc # "none"
<1>1. NoWrapper \in Wrappers BY Parts DEF NoWrapper, Wrappers
<1>2. /\ wrapper' = [wrapper EXCEPT ![c] = NoWrapper]
      /\ IF wrapper[c].by = "refresh" THEN Advance ELSE UNCHANGED refresh
  BY DEF Exit
<1>3. /\ wrapper' \in [Chain -> Wrappers]
      /\ wrapper'[c] = NoWrapper /\ \A e \in Chain \ {c} : wrapper'[e] = wrapper[e]
  BY <1>1, <1>2, Parts
<1>4. \A e \in Chain : wrapper[e].by = "refresh" => refresh.pc = "wait" /\ Phases[refresh.i] = e
  BY DEF TypeInv, WrapperInv
<1>5. NoWrapper.by = "none" BY DEF NoWrapper
<1>6. CASE wrapper[c].by = "refresh"
  <2>1. refresh.pc # "none" /\ Phases[refresh.i] = c BY <1>4, <1>6
  <2>2. refresh' \in Refreshes /\ (refresh'.pc # "none" => refresh'.i \in DOMAIN Phases)
    BY <1>2, <1>6, <2>1, AdvanceTypes
  <2>3. \A e \in Chain : wrapper'[e].by # "refresh" BY <1>3, <1>4, <1>5, <2>1
  <2>4. \A e \in Chain : wrapper'[e].by = "refresh" => refresh'.pc = "wait" /\ Phases[refresh'.i] = e
    BY <2>3
  <2> QED BY <1>3, <2>1, <2>2, <2>4
<1>7. CASE wrapper[c].by # "refresh"
  <2>1. refresh' = refresh BY <1>2, <1>7
  <2>2. \A e \in Chain : wrapper'[e].by = "refresh" => wrapper[e].by = "refresh"
    BY <1>3, <1>5
  <2> QED BY <1>3, <1>4, <2>1, <2>2, Parts DEF TypeInv
<1> QED BY <1>6, <1>7

\* A step of the chains: the calendar, the cockpit's request and its probes are left alone.
LEMMA ChainStepTypes ==
  ASSUME TypeInv, UNCHANGED <<day, request, probing>>,
         triggers' \in 0..MaxTriggers, kills' \in 0..MaxKills, moved' \in BOOLEAN,
         marker' \in [Chain -> 0..MaxDay], alive' \in [Chain -> Nat],
         wrapper' \in [Chain -> Wrappers], refresh' \in Refreshes,
         refresh'.pc # "none" => refresh'.i \in DOMAIN Phases,
         due' \subseteq Chain \X Stamps, served' \subseteq Chain \X Stamps,
         turned' \subseteq Chain \X Stamps \X {"run", "probe"},
         begun' \in [Chain -> [Stamps -> Nat]], failed' \in [Chain -> [Stamps -> Nat]],
         \A c \in Chain : WrapperInv(c)'
  PROVE  TypeInv'
<1>1. /\ day \in Stamps /\ request \in Requests
      /\ probing \in [{"start", "status"} -> Lock \cup {"none"}]
      /\ request.pc # "none" => request.job \in {"daily", "full"}
      /\ request.pc \in {"probe", "release"} => request.locks # <<>>
  BY Parts DEF TypeInv
<1>2. request'.pc \in {"none", "probe", "release", "check", "launch"} BY <1>1 DEF Requests
<1>3. \A c \in Chain : wrapper'[c].by = "refresh" => refresh'.pc = "wait" /\ Phases[refresh'.i] = c
  BY DEF WrapperInv
<1> QED BY <1>1, <1>2, <1>3 DEF TypeInv, TypeOK, Wrappers, Refreshes

\* A step of the calendar and the cockpit: the chains are left alone.
LEMMA CockpitStepTypes ==
  ASSUME TypeInv, UNCHANGED <<marker, wrapper, alive, refresh, history, turned, kills>>,
         day' \in Stamps, triggers' \in 0..MaxTriggers, moved' \in BOOLEAN,
         request' \in Requests, probing' \in [{"start", "status"} -> Lock \cup {"none"}],
         request'.pc # "none" => request'.job \in {"daily", "full"},
         request'.pc \in {"probe", "release"} => request'.locks # <<>>
  PROVE  TypeInv'
<1>1. /\ UNCHANGED <<marker, wrapper, alive, refresh, begun, failed, due, served, turned, kills>>
      /\ \A c \in Chain : WrapperInv(c)'
  BY DEF history, TypeInv, WrapperInv
<1>2. request'.pc \in {"none", "probe", "release", "check", "launch"} BY DEF Requests
<1>3. refresh'.pc # "none" => refresh'.i \in DOMAIN Phases BY <1>1 DEF TypeInv
<1>4. \A c \in Chain : wrapper'[c].by = "refresh" => refresh'.pc = "wait" /\ Phases[refresh'.i] = c
  BY <1>1 DEF WrapperInv
<1> QED BY <1>1, <1>2, <1>3, <1>4, Parts DEF TypeInv, TypeOK, Wrappers, Refreshes

\* A wrapper invariant carries over while its chain is left alone and the refresh it may
\* have been started by waits.
LEMMA WrapperKept ==
  ASSUME TypeInv, NEW c \in Chain, wrapper'[c] = wrapper[c], alive'[c] = alive[c],
         wrapper'[c].by = "refresh" => refresh'.pc = "wait" /\ Phases[refresh'.i] = c
  PROVE  WrapperInv(c)'
BY DEF TypeInv, WrapperInv

LEMMA BeginKeepsWrappers ==
  ASSUME TypeInv, NEW c \in Chain, NEW forced \in BOOLEAN,
         NEW by \in {"timer", "refresh", "cockpit"}, ~ Held(c), Begin(c, forced, by),
         by = "refresh" => refresh'.pc = "wait" /\ Phases[refresh'.i] = c,
         \A e \in Chain \ {c} :
           wrapper[e].by = "refresh" => refresh'.pc = "wait" /\ Phases[refresh'.i] = e
  PROVE  \A e \in Chain : WrapperInv(e)'
<1>1. /\ wrapper'[c] = [pc |-> "run", stamp |-> Stamp(c, day), by |-> by] /\ alive'[c] = 1
      /\ \A e \in Chain \ {c} : wrapper'[e] = wrapper[e] /\ alive'[e] = alive[e]
  BY BeginTypes
<1>2. WrapperInv(c)' BY <1>1, StampToday DEF WrapperInv
<1>3. \A e \in Chain \ {c} : WrapperInv(e)' BY <1>1, WrapperKept
<1> QED BY <1>2, <1>3

LEMMA TriggerTypes ==
  ASSUME TypeInv, NEW c \in Chain, Trigger(c)
  PROVE  TypeInv'
<1>1. /\ UNCHANGED <<day, marker, refresh, request, probing, failed, served, quiet, kills>>
      /\ triggers < MaxTriggers /\ triggers' = triggers + 1
  BY DEF Trigger
<1>2. triggers' \in 0..MaxTriggers BY <1>1, Parts
<1>3. due' \subseteq Chain \X Stamps BY Parts, StampToday DEF Trigger
<1>4. turned' \subseteq Chain \X Stamps \X {"run", "probe"}
  <2>1. Turned(c) \subseteq Chain \X Stamps \X {"run", "probe"} BY StampToday DEF Turned
  <2>2. turned' = turned \/ turned' = turned \cup Turned(c) BY DEF Trigger
  <2> QED BY <2>1, <2>2, Parts
<1>5. CASE Skips(c, FALSE)
  <2>1. UNCHANGED <<wrapper, alive, begun, moved>> BY <1>5 DEF Trigger
  <2>2. \A e \in Chain : WrapperInv(e)' BY <1>1, <2>1 DEF TypeInv, WrapperInv
  <2>3. refresh'.pc # "none" => refresh'.i \in DOMAIN Phases BY <1>1 DEF TypeInv
  <2> QED BY <1>1, <1>2, <1>3, <1>4, <2>1, <2>2, <2>3, Parts, ChainStepTypes
<1>6. CASE ~ Skips(c, FALSE)
  <2>1. Begin(c, FALSE, "timer") /\ Move(c) /\ ~ Held(c) BY <1>6 DEF Trigger, Skips
  <2>2. /\ wrapper' \in [Chain -> Wrappers] /\ alive' \in [Chain -> Nat]
        /\ begun' \in [Chain -> [Stamps -> Nat]]
        /\ wrapper'[c] = [pc |-> "run", stamp |-> Stamp(c, day), by |-> "timer"]
        /\ alive'[c] = 1
        /\ \A e \in Chain \ {c} : wrapper'[e] = wrapper[e] /\ alive'[e] = alive[e]
    BY <2>1, BeginTypes
  <2>3. moved' \in BOOLEAN BY <2>1 DEF Move
  <2>4. \A e \in Chain \ {c} : wrapper[e].by = "refresh" => refresh'.pc = "wait" /\ Phases[refresh'.i] = e
    BY <1>1 DEF TypeInv, WrapperInv
  <2>5. \A e \in Chain : WrapperInv(e)' BY <2>1, <2>4, BeginKeepsWrappers
  <2>6. refresh'.pc # "none" => refresh'.i \in DOMAIN Phases BY <1>1 DEF TypeInv
  <2> QED BY <1>1, <1>2, <1>3, <1>4, <2>2, <2>3, <2>5, <2>6, Parts, ChainStepTypes
<1> QED BY <1>5, <1>6

LEMMA ChainEndsWellTypes ==
  ASSUME TypeInv, NEW c \in Chain, ChainEndsWell(c)
  PROVE  TypeInv'
<1>1. /\ UNCHANGED <<day, marker, refresh, request, probing, begun, failed, due, turned, moved,
                     triggers, kills>>
      /\ wrapper[c].pc = "run" /\ alive' = [alive EXCEPT ![c] = @ - 1]
      /\ wrapper' = [wrapper EXCEPT ![c] = [wrapper[c] EXCEPT !.pc = "mark"]]
      /\ served' = served \cup {<<c, wrapper[c].stamp>>}
  BY DEF ChainEndsWell, counters
<1>2. wrapper[c] \in Wrappers /\ wrapper[c].stamp \in Stamps /\ alive[c] = 1
  BY <1>1, Parts DEF TypeInv, WrapperInv
<1>3. [wrapper[c] EXCEPT !.pc = "mark"] \in Wrappers BY <1>2 DEF Wrappers
<1>4. wrapper' \in [Chain -> Wrappers] /\ alive' \in [Chain -> Nat] /\ alive'[c] = 0
  BY <1>1, <1>2, <1>3, Parts
<1>5. /\ wrapper'[c] = [wrapper[c] EXCEPT !.pc = "mark"]
      /\ \A e \in Chain \ {c} : wrapper'[e] = wrapper[e] /\ alive'[e] = alive[e]
  BY <1>1, Parts
<1>6. wrapper'[c].pc = "mark" /\ wrapper'[c].stamp = wrapper[c].stamp /\ wrapper'[c].by = wrapper[c].by
  BY <1>2, <1>5 DEF Wrappers
<1>7. WrapperInv(c)' BY <1>1, <1>2, <1>4, <1>6 DEF TypeInv, WrapperInv
<1>8. \A e \in Chain : WrapperInv(e)' BY <1>1, <1>5, <1>7 DEF TypeInv, WrapperInv
<1>9. served' \subseteq Chain \X Stamps BY <1>1, <1>2, Parts
<1>10. refresh'.pc # "none" => refresh'.i \in DOMAIN Phases BY <1>1 DEF TypeInv
<1> QED BY <1>1, <1>4, <1>8, <1>9, <1>10, Parts, ChainStepTypes

\* The wrapper ends, with its chain or without it.
LEMMA ExitKeepsWrappers ==
  ASSUME TypeInv, NEW c \in Chain, wrapper[c].pc # "none", Exit(c),
         alive'[c] \in {0, 1}, \A e \in Chain \ {c} : alive'[e] = alive[e]
  PROVE  \A e \in Chain : WrapperInv(e)'
<1>1. /\ wrapper'[c] = NoWrapper /\ \A e \in Chain \ {c} : wrapper'[e] = wrapper[e]
      /\ \A e \in Chain : wrapper'[e].by = "refresh" =>
           refresh'.pc = "wait" /\ Phases[refresh'.i] = e
  BY ExitTypes
<1>2. WrapperInv(c)' BY <1>1 DEF WrapperInv, NoWrapper
<1>3. \A e \in Chain \ {c} : WrapperInv(e)' BY <1>1, WrapperKept
<1> QED BY <1>2, <1>3

LEMMA EndTypes ==
  ASSUME TypeInv, NEW c \in Chain, ChainFails(c) \/ WriteMarker(c) \/ KillWrapper(c)
  PROVE  TypeInv'
<1>1. /\ UNCHANGED <<day, request, probing, begun, due, served, turned, moved, triggers>>
      /\ wrapper[c].pc # "none" /\ Exit(c)
  BY DEF ChainFails, WriteMarker, KillWrapper, counters, history
<1>2. /\ wrapper' \in [Chain -> Wrappers] /\ refresh' \in Refreshes
      /\ refresh'.pc # "none" => refresh'.i \in DOMAIN Phases
  BY <1>1, ExitTypes
<1>3. wrapper[c].stamp \in Stamps /\ alive[c] \in {0, 1} /\ (wrapper[c].pc = "run" => alive[c] = 1)
  BY <1>1 DEF TypeInv, WrapperInv
<1>4. CASE ChainFails(c)
  <2>1. /\ alive' = [alive EXCEPT ![c] = @ - 1] /\ wrapper[c].pc = "run"
        /\ failed' = Count(failed, c, wrapper[c].stamp) /\ UNCHANGED <<marker, kills>>
    BY <1>4 DEF ChainFails, counters
  <2>2. /\ alive' \in [Chain -> Nat] /\ alive'[c] \in {0, 1}
        /\ \A e \in Chain \ {c} : alive'[e] = alive[e]
    BY <1>3, <2>1, Parts
  <2>3. failed' \in [Chain -> [Stamps -> Nat]] BY <1>3, <2>1, Parts, CountIsCount
  <2>4. \A e \in Chain : WrapperInv(e)' BY <1>1, <2>2, ExitKeepsWrappers
  <2> QED BY <1>1, <1>2, <2>1, <2>2, <2>3, <2>4, Parts, ChainStepTypes
<1>5. CASE WriteMarker(c)
  <2>1. /\ marker' = [marker EXCEPT ![c] = wrapper[c].stamp]
        /\ UNCHANGED <<alive, failed, kills>>
    BY <1>5 DEF WriteMarker, MarkerOf, counters, history
  <2>2. marker' \in [Chain -> 0..MaxDay] BY <1>3, <2>1, Parts DEF Stamps
  <2>3. \A e \in Chain : WrapperInv(e)' BY <1>1, <1>3, <2>1, ExitKeepsWrappers
  <2> QED BY <1>1, <1>2, <2>1, <2>2, <2>3, Parts, ChainStepTypes
<1>6. CASE KillWrapper(c)
  <2>1. /\ kills < MaxKills /\ kills' = kills + 1 /\ UNCHANGED <<marker, alive, failed>>
    BY <1>6 DEF KillWrapper, Kill, history
  <2>2. kills' \in 0..MaxKills BY <2>1, Parts
  <2>3. \A e \in Chain : WrapperInv(e)' BY <1>1, <1>3, <2>1, ExitKeepsWrappers
  <2> QED BY <1>1, <1>2, <2>1, <2>2, <2>3, Parts, ChainStepTypes
<1> QED BY <1>4, <1>5, <1>6

LEMMA OrphanEndsTypes ==
  ASSUME TypeInv, NEW c \in Chain, OrphanEnds(c)
  PROVE  TypeInv'
<1>1. /\ UNCHANGED <<day, marker, wrapper, refresh, request, probing, begun, failed, due, served,
                     turned, moved, triggers, kills>>
      /\ wrapper[c].pc = "none" /\ alive[c] > 0 /\ alive' = [alive EXCEPT ![c] = @ - 1]
  BY DEF OrphanEnds, history, counters
<1>2. alive[c] = 1 BY <1>1 DEF TypeInv, WrapperInv
<1>3. /\ alive' \in [Chain -> Nat] /\ alive'[c] = 0
      /\ \A e \in Chain \ {c} : alive'[e] = alive[e]
  BY <1>1, <1>2, Parts
<1>4. \A e \in Chain : WrapperInv(e)' BY <1>1, <1>3 DEF TypeInv, WrapperInv
<1>5. refresh'.pc # "none" => refresh'.i \in DOMAIN Phases BY <1>1 DEF TypeInv
<1> QED BY <1>1, <1>3, <1>4, <1>5, Parts, ChainStepTypes

LEMMA RefreshPhaseTypes ==
  ASSUME TypeInv, RefreshPhase
  PROVE  TypeInv'
<1> DEFINE c == Phases[refresh.i]
<1>1. /\ UNCHANGED <<day, marker, request, probing, failed, due, served, turned, triggers, kills>>
      /\ refresh.pc = "phase"
  BY DEF RefreshPhase, counters
<1>2. c \in Chain /\ refresh.i \in DOMAIN Phases BY <1>1, Names DEF TypeInv
<1>3. \A e \in Chain : wrapper[e].by # "refresh" BY <1>1 DEF TypeInv, WrapperInv
<1>4. CASE Skips(c, refresh.forced)
  <2>1. Advance /\ UNCHANGED <<wrapper, alive, begun, moved>> BY <1>4 DEF RefreshPhase
  <2>2. refresh' \in Refreshes /\ (refresh'.pc # "none" => refresh'.i \in DOMAIN Phases)
    BY <1>1, <2>1, AdvanceTypes
  <2>3. \A e \in Chain : WrapperInv(e)' BY <1>3, <2>1, WrapperKept
  <2> QED BY <1>1, <2>1, <2>2, <2>3, Parts, ChainStepTypes
<1>5. CASE ~ Skips(c, refresh.forced)
  <2>1. /\ Begin(c, refresh.forced, "refresh") /\ Move(c) /\ ~ Held(c)
        /\ refresh' = [refresh EXCEPT !.pc = "wait"]
    BY <1>5 DEF RefreshPhase, Skips
  <2>2. refresh \in Refreshes /\ refresh.forced \in BOOLEAN BY Parts DEF Refreshes
  <2>3. refresh' \in Refreshes /\ refresh'.pc = "wait" /\ refresh'.i = refresh.i
    BY <2>1, <2>2 DEF Refreshes
  <2> HIDE DEF c
  <2>4. /\ wrapper' \in [Chain -> Wrappers] /\ alive' \in [Chain -> Nat]
        /\ begun' \in [Chain -> [Stamps -> Nat]]
    BY <1>2, <2>1, <2>2, BeginTypes
  <2>5. Phases[refresh'.i] = c BY <2>3 DEF c
  <2>6. \A e \in Chain : WrapperInv(e)'
    BY <1>2, <1>3, <2>1, <2>2, <2>3, <2>5, BeginKeepsWrappers
  <2>7. moved' \in BOOLEAN BY <2>1 DEF Move
  <2> QED BY <1>1, <1>2, <2>3, <2>4, <2>6, <2>7, Parts, ChainStepTypes
<1> QED BY <1>4, <1>5

LEMMA KillRefreshTypes ==
  ASSUME TypeInv, KillRefresh
  PROVE  TypeInv'
<1>1. /\ UNCHANGED <<day, marker, alive, request, probing, begun, failed, due, served, turned,
                     moved, triggers>>
      /\ kills < MaxKills /\ kills' = kills + 1 /\ refresh' = NoRefresh
      /\ wrapper' = [c \in Chain |-> IF wrapper[c].by = "refresh"
                                       THEN [wrapper[c] EXCEPT !.by = "timer"] ELSE wrapper[c]]
  BY DEF KillRefresh, Kill, history
<1>2. kills' \in 0..MaxKills BY <1>1, Parts
<1>3. refresh' \in Refreshes /\ refresh'.pc = "none"
  BY <1>1, Names DEF NoRefresh, Refreshes
<1>4. ASSUME NEW c \in Chain PROVE wrapper'[c] \in Wrappers /\ WrapperInv(c)'
  <2>1. wrapper[c] \in Wrappers /\ WrapperInv(c) BY Parts DEF TypeInv
  <2>2. CASE wrapper[c].by = "refresh"
    <3>1. wrapper'[c] = [wrapper[c] EXCEPT !.by = "timer"] BY <1>1, <2>2
    <3>2. wrapper'[c] \in Wrappers BY <2>1, <3>1 DEF Wrappers
    <3>3. /\ wrapper'[c].pc = wrapper[c].pc /\ wrapper'[c].stamp = wrapper[c].stamp
          /\ wrapper'[c].by = "timer"
      BY <2>1, <3>1 DEF Wrappers
    <3>4. wrapper[c].pc # "none" BY <2>1, <2>2 DEF WrapperInv, NoWrapper
    <3> QED BY <1>1, <2>1, <3>2, <3>3, <3>4 DEF WrapperInv
  <2>3. CASE wrapper[c].by # "refresh"
    <3>1. wrapper'[c] = wrapper[c] BY <1>1, <2>3
    <3> QED BY <1>1, <2>1, <2>3, <3>1, WrapperKept
  <2> QED BY <2>2, <2>3
<1>5. wrapper' \in [Chain -> Wrappers]
  <2>1. wrapper' = [c \in Chain |-> wrapper'[c]] BY <1>1
  <2> QED BY <1>4, <2>1
<1> QED BY <1>1, <1>2, <1>3, <1>4, <1>5, Parts, ChainStepTypes

LEMMA RebootTypes ==
  ASSUME TypeInv, Reboot
  PROVE  TypeInv'
<1>1. /\ UNCHANGED <<day, marker, begun, failed, due, served, turned, triggers>>
      /\ kills < MaxKills /\ kills' = kills + 1 /\ refresh' = NoRefresh /\ request' = NoRequest
      /\ wrapper' = [c \in Chain |-> NoWrapper] /\ alive' = [c \in Chain |-> 0]
      /\ probing' = [e \in DOMAIN probing |-> "none"] /\ moved' = FALSE
  BY DEF Reboot, Kill, history
<1>2. kills' \in 0..MaxKills BY <1>1, Parts
<1>3. NoWrapper \in Wrappers /\ NoRefresh \in Refreshes /\ NoRequest \in Requests
  BY Parts, Names DEF NoWrapper, NoRefresh, NoRequest, Wrappers, Refreshes, Requests
<1>4. request'.pc = "none" /\ refresh'.pc = "none" BY <1>1 DEF NoRequest, NoRefresh
<1>5. \A c \in Chain : WrapperInv(c)' BY <1>1 DEF WrapperInv, NoWrapper
<1>6. wrapper' \in [Chain -> Wrappers] /\ alive' \in [Chain -> Nat] BY <1>1, <1>3
<1>7. probing' \in [{"start", "status"} -> Lock \cup {"none"}] BY <1>1, Parts
<1>8. \A c \in Chain : wrapper'[c].by # "refresh" BY <1>1 DEF NoWrapper
<1>9. refresh' \in Refreshes /\ request' \in Requests BY <1>1, <1>3
<1> QED BY <1>1, <1>2, <1>4, <1>5, <1>6, <1>7, <1>8, <1>9, Parts
        DEF TypeInv, TypeOK, Wrappers, Refreshes

\* The request's locks: one after the other, until none is left.
LEMMA LocksOfJob ==
  ASSUME NEW job \in {"daily", "full"}
  PROVE  /\ LocksOf(job) \in Seq(Lock) /\ LocksOf(job) # <<>>
         /\ Head(LocksOf(job)) = job /\ Len(LocksOf(job)) \in Nat \ {0}
<1>1. CASE job = "daily" BY <1>1, Names DEF LocksOf
<1>2. CASE job = "full" BY <1>2, Names DEF LocksOf
<1> QED BY <1>1, <1>2

LEMMA CalendarTypes ==
  ASSUME TypeInv, NextDay
  PROVE  TypeInv'
<1>1. /\ UNCHANGED <<marker, wrapper, alive, refresh, request, probing, history, turned,
                     triggers, kills>>
      /\ day < MaxDay /\ day' = day + 1 /\ moved' \in BOOLEAN
  BY DEF NextDay, counters
<1>2. day' \in Stamps BY <1>1, Parts DEF Stamps
<1> QED BY <1>1, <1>2, Parts, CockpitStepTypes DEF TypeInv

LEMMA RequestTypes ==
  ASSUME TypeInv, NEW job \in {"daily", "full"}, NEW forced \in BOOLEAN, Request(job, forced)
  PROVE  TypeInv'
<1>1. /\ UNCHANGED <<day, marker, wrapper, alive, refresh, probing, history, turned, kills>>
      /\ triggers < MaxTriggers /\ triggers' = triggers + 1 /\ moved' = FALSE
      /\ request' = [pc |-> "probe", job |-> job, forced |-> forced, locks |-> LocksOf(job)]
  BY DEF Request
<1>2. triggers' \in 0..MaxTriggers BY <1>1, Parts
<1>3. /\ request' \in Requests /\ request'.pc = "probe" /\ request'.job = job
      /\ request'.locks # <<>>
  BY <1>1, LocksOfJob DEF Requests
<1> QED BY <1>1, <1>2, <1>3, Parts, CockpitStepTypes

LEMMA ProbeTypes ==
  ASSUME TypeInv, ProbeLock \/ ReleaseLock \/ CheckBlocked
  PROVE  TypeInv'
<1>1. /\ UNCHANGED <<day, marker, wrapper, alive, refresh, history, turned, triggers, kills>>
      /\ moved' \in BOOLEAN
  BY Parts DEF ProbeLock, ReleaseLock, CheckBlocked, counters
<1>2. /\ request \in Requests /\ NoRequest \in Requests /\ NoRequest.pc = "none"
      /\ request.pc # "none" => request.job \in {"daily", "full"}
      /\ request.pc \in {"probe", "release"} => request.locks # <<>>
  BY Parts DEF NoRequest, Requests, TypeInv
<1>3. /\ request' \in Requests
      /\ request'.pc # "none" => request'.job \in {"daily", "full"}
      /\ request'.pc \in {"probe", "release"} => request'.locks # <<>>
  <2>1. CASE ProbeLock
    <3>1. request' = NoRequest \/ request' = [request EXCEPT !.pc = "release"]
      BY <2>1 DEF ProbeLock
    <3>2. request.pc = "probe" BY <2>1 DEF ProbeLock
    <3> QED BY <1>2, <3>1, <3>2 DEF Requests
  <2>2. CASE ReleaseLock
    <3>1. /\ request' = [request EXCEPT !.locks = Tail(@),
                           !.pc = IF Len(request.locks) > 1 THEN "probe" ELSE "check"]
          /\ request.pc = "release"
      BY <2>2 DEF ReleaseLock
    <3>2. /\ Tail(request.locks) \in Seq(Lock) /\ request.locks \in Seq(Lock)
          /\ Len(request.locks) > 1 => Tail(request.locks) # <<>>
      <4>1. request.locks \in Seq(Lock) /\ request.locks # <<>> BY <1>2, <3>1 DEF Requests
      <4>2. Tail(request.locks) \in Seq(Lock) /\ Len(Tail(request.locks)) = Len(request.locks) - 1
        BY <4>1, HeadTailProperties
      <4>3. Tail(request.locks) = <<>> => Len(Tail(request.locks)) = 0 BY <4>2, EmptySeq
      <4>4. Len(request.locks) \in Nat BY <4>1, LenProperties
      <4>5. Len(request.locks) > 1 => Tail(request.locks) # <<>> BY <4>2, <4>3, <4>4
      <4> QED BY <4>1, <4>2, <4>5
    <3>3. CASE Len(request.locks) > 1
      <4>1. request' = [request EXCEPT !.locks = Tail(request.locks), !.pc = "probe"]
        BY <3>1, <3>3
      <4>2. /\ request' \in Requests /\ request'.pc = "probe" /\ request'.job = request.job
            /\ request'.locks = Tail(request.locks)
        BY <1>2, <3>2, <4>1 DEF Requests
      <4> QED BY <1>2, <3>1, <3>2, <3>3, <4>2
    <3>4. CASE ~ (Len(request.locks) > 1)
      <4>1. request' = [request EXCEPT !.locks = Tail(request.locks), !.pc = "check"]
        BY <3>1, <3>4
      <4>2. request' \in Requests /\ request'.pc = "check" /\ request'.job = request.job
        BY <1>2, <3>2, <4>1 DEF Requests
      <4> QED BY <1>2, <3>1, <4>2
    <3> QED BY <3>3, <3>4
  <2>3. CASE CheckBlocked
    <3>1. request' = NoRequest \/ request' = [request EXCEPT !.pc = "launch"]
      BY <2>3 DEF CheckBlocked
    <3>2. request.pc = "check" BY <2>3 DEF CheckBlocked
    <3> QED BY <1>2, <3>1, <3>2 DEF Requests
  <2> QED BY <2>1, <2>2, <2>3
<1>4. probing' \in [{"start", "status"} -> Lock \cup {"none"}]
  <2>1. CASE ProbeLock
    <3>1. request.locks \in Seq(Lock) /\ request.locks # <<>>
      BY <1>2, <2>1 DEF ProbeLock, Requests
    <3>2. Head(request.locks) \in Lock BY <3>1
    <3> QED BY <2>1, <3>2, Parts DEF ProbeLock
  <2>2. CASE ReleaseLock BY <2>2, Parts DEF ReleaseLock
  <2>3. CASE CheckBlocked BY <2>3, Parts DEF CheckBlocked
  <2> QED BY <2>1, <2>2, <2>3
<1> QED BY <1>1, <1>3, <1>4, Parts, CockpitStepTypes

LEMMA StatusTypes ==
  ASSUME TypeInv, (\E l \in Lock : StatusTake(l)) \/ StatusRelease
  PROVE  TypeInv'
<1>1. UNCHANGED <<day, marker, wrapper, alive, refresh, request, history, turned, triggers, kills>>
  BY DEF StatusTake, StatusRelease, counters
<1>2. moved' \in BOOLEAN BY Parts DEF StatusTake, StatusRelease, Move
<1>3. probing' \in [{"start", "status"} -> Lock \cup {"none"}]
  BY Parts DEF StatusTake, StatusRelease
<1> QED BY <1>1, <1>2, <1>3, Parts, CockpitStepTypes DEF TypeInv

\* The cockpit's start: a chain, or the refresh.
LEMMA LaunchTypes ==
  ASSUME TypeInv, Launch
  PROVE  TypeInv'
<1>1. /\ UNCHANGED <<day, marker, probing, failed, due, served, turned, triggers, kills>>
      /\ request.pc = "launch" /\ request' = NoRequest /\ moved' = FALSE
  BY DEF Launch, counters
<1>2. NoRequest \in Requests /\ NoRequest.pc = "none" BY DEF NoRequest, Requests
<1>3. request.forced \in BOOLEAN /\ request.job \in {"daily", "full"}
  BY <1>1, Parts DEF Requests, TypeInv
<1>4. SUFFICES /\ wrapper' \in [Chain -> Wrappers] /\ alive' \in [Chain -> Nat]
               /\ begun' \in [Chain -> [Stamps -> Nat]] /\ refresh' \in Refreshes
               /\ refresh'.pc # "none" => refresh'.i \in DOMAIN Phases
               /\ \A c \in Chain : WrapperInv(c)'
  <2>1. \A c \in Chain : WrapperInv(c)' => (wrapper'[c].by = "refresh" =>
          refresh'.pc = "wait" /\ Phases[refresh'.i] = c)
    BY DEF WrapperInv
  <2> QED BY <1>1, <1>2, <2>1, Parts DEF TypeInv, TypeOK, Wrappers, Refreshes
<1>5. CASE LaunchSkips
  <2>1. UNCHANGED <<wrapper, alive, begun, refresh>> BY <1>5 DEF Launch
  <2> QED BY <2>1, Parts DEF TypeInv, WrapperInv
<1>6. CASE ~ LaunchSkips /\ request.job = "daily"
  <2>1. Begin("daily", request.forced, "cockpit") /\ UNCHANGED refresh /\ ~ Held("daily")
    BY <1>6 DEF Launch, LaunchSkips, Skips
  <2>2. /\ wrapper' \in [Chain -> Wrappers] /\ alive' \in [Chain -> Nat]
        /\ begun' \in [Chain -> [Stamps -> Nat]]
    BY <1>3, <2>1, Names, BeginTypes
  <2>3. \A e \in Chain : wrapper[e].by = "refresh" => refresh'.pc = "wait" /\ Phases[refresh'.i] = e
    BY <2>1 DEF TypeInv, WrapperInv
  <2>4. \A e \in Chain : WrapperInv(e)' BY <1>3, <2>1, <2>3, Names, BeginKeepsWrappers
  <2> QED BY <2>1, <2>2, <2>4, Parts DEF TypeInv
<1>7. CASE ~ LaunchSkips /\ request.job # "daily"
  <2>1. /\ UNCHANGED <<wrapper, alive, begun>>
        /\ refresh' = [pc |-> "phase", forced |-> request.forced, i |-> 1]
        /\ ~ Held("full")
    BY <1>7 DEF Launch, LaunchSkips
  <2>2. refresh.pc = "none" BY <2>1 DEF Held, HeldByRun
  <2>3. refresh' \in Refreshes /\ refresh'.i \in DOMAIN Phases
    BY <1>3, <2>1, Names DEF Refreshes
  <2>4. \A e \in Chain : wrapper[e].by # "refresh" BY <2>2 DEF TypeInv, WrapperInv
  <2>5. \A e \in Chain : WrapperInv(e)' BY <2>1, <2>4, WrapperKept
  <2> QED BY <2>1, <2>3, <2>5, Parts
<1> QED BY <1>5, <1>6, <1>7

LEMMA TypeStep == TypeInv /\ [Next]_vars => TypeInv'
<1> SUFFICES ASSUME TypeInv, [Next]_vars PROVE TypeInv' OBVIOUS
<1>1. CASE NextDay BY <1>1, CalendarTypes
<1>2. ASSUME NEW c \in Chain, ChainStep(c) PROVE TypeInv'
  BY <1>2, TriggerTypes, ChainEndsWellTypes, EndTypes, OrphanEndsTypes DEF ChainStep
<1>3. CASE RefreshPhase BY <1>3, RefreshPhaseTypes
<1>4. CASE CockpitStep
  BY <1>4, RequestTypes, ProbeTypes, LaunchTypes, StatusTypes DEF CockpitStep
<1>5. CASE KillRefresh BY <1>5, KillRefreshTypes
<1>6. CASE Reboot BY <1>6, RebootTypes
<1>7. CASE UNCHANGED vars
  <2>1. /\ UNCHANGED <<day, marker, wrapper, alive, refresh, request, probing, history, turned,
                       moved, triggers, kills>>
    BY <1>7 DEF vars, counters
  <2> QED BY <2>1, Parts, CockpitStepTypes DEF TypeInv
<1> QED BY <1>1, <1>2, <1>3, <1>4, <1>5, <1>6, <1>7 DEF Next

-----------------------------------------------------------------------------
(* A slot runs once.                                                       *)

\* Where the stamps stand, as numbers.
LEMMA OnceNumbers ==
  ASSUME TypeInv, NEW c \in Chain
  PROVE  /\ marker[c] \in Nat /\ wrapper[c].stamp \in Nat /\ kills \in Nat
         /\ Stamp(c, day) \in Stamps /\ Stamps \subseteq Nat \ {0}
         /\ \A s \in Stamps : begun[c][s] \in Nat /\ failed[c][s] \in Nat
         /\ marker \in [Chain -> Nat]
<1>1. marker[c] \in Nat /\ marker \in [Chain -> Nat] /\ kills \in Nat BY Parts
<1>2. wrapper[c] \in Wrappers /\ MaxDay \in Nat BY Parts
<1>3. wrapper[c].stamp \in Nat BY <1>2 DEF Wrappers
<1>4. Stamp(c, day) \in Stamps /\ Stamps \subseteq Nat \ {0} BY StampToday, <1>2 DEF Stamps
<1>5. \A s \in Stamps : begun[c][s] \in Nat /\ failed[c][s] \in Nat BY Parts
<1> QED BY <1>1, <1>3, <1>4, <1>5

LEMMA OnceInit == Init => OnceInv
<1> SUFFICES ASSUME Init PROVE OnceInv OBVIOUS
<1>1. TypeInv BY TypeInit
<1>2. ASSUME NEW c \in Chain PROVE InOrder(c)
  <2>1. marker[c] = 0 /\ wrapper[c].pc = "none" BY DEF Init, NoWrapper
  <2> QED BY <1>1, <2>1, OnceNumbers DEF InOrder
<1>3. ASSUME NEW c \in Chain, NEW s \in Stamps PROVE Begins(c, s)
  <2>1. begun[c][s] = 0 /\ failed[c][s] = 0 /\ kills = 0 BY DEF Init, PerSlot
  <2> QED BY <2>1 DEF Begins
<1> QED BY <1>2, <1>3 DEF OnceInv

\* A chain that is left alone, but for the day and kills, stays as it was.
LEMMA OnceKept ==
  ASSUME TypeInv, OnceInv, TypeInv', NEW c \in Chain,
         wrapper'[c].pc = wrapper[c].pc, wrapper'[c].stamp = wrapper[c].stamp,
         marker'[c] = marker[c], begun'[c] = begun[c], failed'[c] = failed[c],
         kills' >= kills, day' = day \/ day' = day + 1
  PROVE  InOrder(c)' /\ \A s \in Stamps : Begins(c, s)'
<1>1. InOrder(c) /\ \A s \in Stamps : Begins(c, s) BY DEF OnceInv
<1>2. kills' \in Nat BY DEF TypeInv, TypeOK
<1>3. Stamp(c, day) <= Stamp(c, day')
  <2>1. day \in Nat \ {0} BY StampToday
  <2>2. Stamp(c, day) \in Nat BY OnceNumbers
  <2> QED BY <2>1, <2>2, StampsGoOn
<1>4. Stamp(c, day') \in Nat
  <2>1. day' \in Nat \ {0} BY StampToday
  <2> QED BY <2>1, StampInTime
<1>5. InOrder(c)' BY <1>1, <1>3, <1>4, OnceNumbers DEF InOrder
<1>6. ASSUME NEW s \in Stamps PROVE Begins(c, s)'
  <2>1. Taken(c, s)' <=> Taken(c, s) BY DEF Taken
  <2> QED BY <1>1, <1>2, <2>1, OnceNumbers DEF Begins
<1> QED BY <1>5, <1>6

\* A run that begins without force begins a slot that was not taken.
LEMMA OnceBegin ==
  ASSUME TypeInv, OnceInv, TypeInv', NEW c \in Chain, NEW forced \in BOOLEAN,
         NEW by \in {"timer", "refresh", "cockpit"}, ~ Held(c), Begin(c, forced, by),
         forced \/ ~ Marked(c), UNCHANGED <<day, marker, failed, kills>>
  PROVE  OnceInv'
<1> DEFINE t == Stamp(c, day)
<1>1. /\ wrapper'[c].pc = "run" /\ wrapper'[c].stamp = t /\ wrapper[c] = NoWrapper
      /\ \A e \in Chain \ {c} : wrapper'[e] = wrapper[e]
      /\ begun' = IF forced THEN begun ELSE Count(begun, c, t)
  BY BeginTypes DEF Begin
<1>2. t \in Stamps BY StampToday
<1>3. /\ \A e \in Chain, s \in Stamps : e # c \/ s # t => begun'[e][s] = begun[e][s]
      /\ begun'[c][t] = begun[c][t] + (IF forced THEN 0 ELSE 1)
  <2>1. begun \in [Chain -> [Stamps -> Nat]] /\ begun[c][t] \in Nat BY <1>2, Parts, OnceNumbers
  <2>2. CASE forced BY <1>1, <2>1, <2>2
  <2>3. CASE ~ forced
    <3>1. begun' = Count(begun, c, t) BY <1>1, <2>3
    <3> HIDE DEF t
    <3> QED BY <1>2, <2>1, <2>3, <3>1, CountIsCount
  <2> QED BY <2>2, <2>3
<1>4. ASSUME NEW e \in Chain \ {c} PROVE InOrder(e)' /\ \A s \in Stamps : Begins(e, s)'
  <2>1. /\ wrapper'[e].pc = wrapper[e].pc /\ wrapper'[e].stamp = wrapper[e].stamp
        /\ failed'[e] = failed[e] /\ marker'[e] = marker[e]
    BY <1>1
  <2>2. begun'[e] = begun[e] BY <1>1, <1>2, Parts DEF Count
  <2>3. kills' >= kills BY OnceNumbers
  <2> QED BY <2>1, <2>2, <2>3, OnceKept
<1>5. InOrder(c) /\ \A s \in Stamps : Begins(c, s) BY DEF OnceInv
<1> HIDE DEF t
<1>6. InOrder(c)'
  <2>1. marker'[c] <= Stamp(c, day)' /\ wrapper'[c].stamp = Stamp(c, day)'
    BY <1>1, <1>5 DEF InOrder, t
  <2>2. Stamp(c, day)' \in Nat BY OnceNumbers
  <2> QED BY <2>1, <2>2 DEF InOrder
<1>7. ASSUME NEW s \in Stamps PROVE Begins(c, s)'
  <2>1. Taken(c, s) => Taken(c, s)' BY <1>1 DEF Taken, NoWrapper
  <2>2. CASE s # t \/ forced
    <3>1. begun'[c][s] = begun[c][s] BY <1>2, <1>3, <2>2, OnceNumbers
    <3> QED BY <1>5, <2>1, <3>1, OnceNumbers DEF Begins
  <2>3. CASE s = t /\ ~ forced
    <3>1. ~ Taken(c, s)
      <4>1. marker[c] # t /\ marker[c] <= t BY <1>5, <2>3 DEF Marked, InOrder, t
      <4> QED BY <1>1, <1>2, <2>3, <4>1, OnceNumbers DEF Taken, NoWrapper
    <3>2. Taken(c, s)' BY <1>1, <2>3 DEF Taken
    <3>3. begun'[c][s] = begun[c][s] + 1 BY <1>3, <2>3
    <3> QED BY <1>5, <3>1, <3>2, <3>3, OnceNumbers DEF Begins
  <2> QED BY <2>2, <2>3
<1> QED BY <1>4, <1>6, <1>7 DEF OnceInv

\* A wrapper that ends leaves its slot marked, or failed, or killed.
LEMMA OnceEnd ==
  ASSUME TypeInv, OnceInv, TypeInv', NEW c \in Chain,
         ChainFails(c) \/ WriteMarker(c) \/ KillWrapper(c)
  PROVE  OnceInv'
<1> DEFINE t == wrapper[c].stamp
<1>1. /\ UNCHANGED <<day, begun>> /\ wrapper[c].pc # "none" /\ Exit(c)
  BY DEF ChainFails, WriteMarker, KillWrapper, history
<1>2. wrapper'[c] = NoWrapper /\ \A e \in Chain \ {c} : wrapper'[e] = wrapper[e]
  BY <1>1, ExitTypes
<1>3. t \in Stamps BY <1>1 DEF TypeInv, WrapperInv
<1>4. /\ \A e \in Chain \ {c} : marker'[e] = marker[e] /\ failed'[e] = failed[e]
      /\ kills' \in {kills, kills + 1}
      /\ \/ /\ failed' = Count(failed, c, t) /\ UNCHANGED <<marker, kills>>
         \/ /\ marker'[c] = t /\ UNCHANGED <<failed, kills>>
         \/ /\ kills' = kills + 1 /\ UNCHANGED <<marker, failed>>
  <2>1. CASE ChainFails(c)
    <3>1. failed' = Count(failed, c, t) /\ UNCHANGED <<marker, kills>>
      BY <2>1 DEF ChainFails, counters
    <3> QED BY <3>1, Parts DEF Count
  <2>2. CASE WriteMarker(c)
    <3>1. marker' = [marker EXCEPT ![c] = t] /\ UNCHANGED <<failed, kills>>
      BY <2>2 DEF WriteMarker, MarkerOf, history, counters
    <3> QED BY <3>1, Parts
  <2>3. CASE KillWrapper(c) BY <2>3 DEF KillWrapper, Kill, history
  <2> QED BY <2>1, <2>2, <2>3
<1>5. kills' >= kills BY <1>4, Parts
<1>6. ASSUME NEW e \in Chain \ {c} PROVE InOrder(e)' /\ \A s \in Stamps : Begins(e, s)'
  BY <1>1, <1>2, <1>4, <1>5, OnceKept
<1>7. InOrder(c) /\ \A s \in Stamps : Begins(c, s) BY DEF OnceInv
<1> HIDE DEF t
<1>8. marker[c] <= t /\ t <= Stamp(c, day) BY <1>1, <1>7 DEF InOrder, t
<1>9. InOrder(c)'
  <2>1. marker'[c] <= Stamp(c, day)'
    BY <1>1, <1>3, <1>4, <1>7, <1>8, OnceNumbers DEF InOrder
  <2> QED BY <1>2, <2>1 DEF InOrder, NoWrapper
<1>10. ASSUME NEW s \in Stamps PROVE Begins(c, s)'
  <2>1. Taken(c, s) => s = t \/ marker[c] >= s BY DEF Taken, t
  <2>2. begun'[c][s] = begun[c][s] BY <1>1
  <2>3. CASE failed' = Count(failed, c, t) /\ UNCHANGED <<marker, kills>>
    <3>1. failed'[c][s] = failed[c][s] + (IF s = t THEN 1 ELSE 0)
      <4>1. failed \in [Chain -> [Stamps -> Nat]] /\ failed[c][s] \in Nat BY Parts, OnceNumbers
      <4>2. CASE s = t BY <1>3, <2>3, <4>1, <4>2, CountIsCount
      <4>3. CASE s # t
        <5>1. failed'[c][s] = failed[c][s] BY <1>3, <2>3, <4>1, <4>3, CountIsCount
        <5> QED BY <4>1, <4>3, <5>1
      <4> QED BY <4>2, <4>3
    <3>2. Taken(c, s)' <=> marker[c] >= s BY <1>2, <2>3 DEF Taken, NoWrapper
    <3> QED BY <1>7, <2>1, <2>2, <2>3, <3>1, <3>2, OnceNumbers DEF Begins
  <2>4. CASE marker'[c] = t /\ UNCHANGED <<failed, kills>>
    <3>1. Taken(c, s) => Taken(c, s)'
      BY <1>3, <1>8, <2>1, <2>4, OnceNumbers DEF Taken
    <3> QED BY <1>7, <2>2, <2>4, <3>1, OnceNumbers DEF Begins
  <2>5. CASE kills' = kills + 1 /\ UNCHANGED <<marker, failed>>
    BY <1>7, <2>2, <2>5, OnceNumbers DEF Begins
  <2> QED BY <1>4, <2>3, <2>4, <2>5
<1> QED BY <1>6, <1>9, <1>10 DEF OnceInv

LEMMA OnceStep == TypeInv /\ OnceInv /\ [Next]_vars => OnceInv'
<1> SUFFICES ASSUME TypeInv, OnceInv, [Next]_vars PROVE OnceInv' OBVIOUS
<1>1. TypeInv' BY TypeStep
<1>2. kills \in Nat BY Parts
<1>3. ASSUME UNCHANGED <<marker, begun, failed>>, kills' >= kills, day' = day \/ day' = day + 1,
             \A c \in Chain : /\ wrapper'[c].pc = wrapper[c].pc
                              /\ wrapper'[c].stamp = wrapper[c].stamp
      PROVE  OnceInv'
  BY <1>1, <1>3, OnceKept DEF OnceInv
<1>4. CASE NextDay BY <1>2, <1>3, <1>4 DEF NextDay, history, counters
<1>5. ASSUME NEW c \in Chain, Trigger(c) PROVE OnceInv'
  <2>1. CASE Skips(c, FALSE) BY <1>2, <1>3, <1>5, <2>1 DEF Trigger
  <2>2. CASE ~ Skips(c, FALSE)
    <3>1. /\ Begin(c, FALSE, "timer") /\ ~ Held(c) /\ ~ Marked(c)
          /\ UNCHANGED <<day, marker, failed, kills>>
      BY <1>5, <2>2 DEF Trigger, Skips
    <3> QED BY <1>1, <3>1, OnceBegin
  <2> QED BY <2>1, <2>2
<1>6. ASSUME NEW c \in Chain, ChainEndsWell(c) PROVE OnceInv'
  <2>1. /\ wrapper' = [wrapper EXCEPT ![c] = [wrapper[c] EXCEPT !.pc = "mark"]]
        /\ wrapper[c].pc = "run"
        /\ UNCHANGED <<day, marker, begun, failed, kills>>
    BY <1>6 DEF ChainEndsWell, counters
  <2>2. wrapper[c] \in Wrappers BY Parts
  <2>3. wrapper'[c].stamp = wrapper[c].stamp /\ wrapper'[c].pc = "mark"
    BY <2>1, <2>2, Parts DEF Wrappers
  <2>4. \A e \in Chain \ {c} : wrapper'[e] = wrapper[e] BY <2>1, Parts
  <2>5. ASSUME NEW e \in Chain \ {c} PROVE InOrder(e)' /\ \A s \in Stamps : Begins(e, s)'
    BY <1>1, <1>2, <2>1, <2>4, OnceKept
  <2>6. InOrder(c)' /\ \A s \in Stamps : Begins(c, s)'
    BY <2>1, <2>3 DEF OnceInv, InOrder, Begins, Taken
  <2> QED BY <2>5, <2>6 DEF OnceInv
<1>7. ASSUME NEW c \in Chain, ChainFails(c) \/ WriteMarker(c) \/ KillWrapper(c) PROVE OnceInv'
  BY <1>1, <1>7, OnceEnd
<1>8. ASSUME NEW c \in Chain, OrphanEnds(c) PROVE OnceInv'
  BY <1>2, <1>3, <1>8 DEF OrphanEnds, history, counters
<1>9. CASE RefreshPhase
  <2> DEFINE c == Phases[refresh.i]
  <2>1. c \in Chain /\ refresh.forced \in BOOLEAN
    <3>1. refresh.i \in DOMAIN Phases BY <1>9 DEF RefreshPhase, TypeInv
    <3>2. refresh.forced \in BOOLEAN BY Parts DEF Refreshes
    <3> QED BY <3>1, <3>2, Names
  <2>2. CASE Skips(c, refresh.forced) BY <1>2, <1>3, <1>9, <2>2 DEF RefreshPhase, counters
  <2>3. CASE ~ Skips(c, refresh.forced)
    <3>1. /\ Begin(c, refresh.forced, "refresh") /\ ~ Held(c) /\ (refresh.forced \/ ~ Marked(c))
          /\ UNCHANGED <<day, marker, failed, kills>>
      BY <1>9, <2>3 DEF RefreshPhase, Skips, counters
    <3> HIDE DEF c
    <3> QED BY <1>1, <2>1, <3>1, OnceBegin
  <2> QED BY <2>2, <2>3
<1>10. CASE Launch
  <2>1. request.forced \in BOOLEAN BY Parts DEF Requests
  <2>2. CASE LaunchSkips \/ request.job # "daily"
    BY <1>2, <1>3, <1>10, <2>2 DEF Launch, counters
  <2>3. CASE ~ LaunchSkips /\ request.job = "daily"
    <3>1. /\ Begin("daily", request.forced, "cockpit") /\ ~ Held("daily")
          /\ (request.forced \/ ~ Marked("daily")) /\ UNCHANGED <<day, marker, failed, kills>>
      BY <1>10, <2>3 DEF Launch, LaunchSkips, Skips, counters
    <3> QED BY <1>1, <2>1, <3>1, Names, OnceBegin
  <2> QED BY <2>2, <2>3
<1>11. CASE CockpitStep /\ ~ Launch
  <2>1. UNCHANGED <<day, marker, wrapper, begun, failed, kills>>
    BY <1>11 DEF CockpitStep, Request, ProbeLock, ReleaseLock, CheckBlocked, StatusTake,
                 StatusRelease, history, counters
  <2> QED BY <1>2, <1>3, <2>1
<1>12. CASE KillRefresh
  <2>1. /\ UNCHANGED <<day, marker, begun, failed>> /\ kills' = kills + 1
        /\ wrapper' = [c \in Chain |-> IF wrapper[c].by = "refresh"
                                         THEN [wrapper[c] EXCEPT !.by = "timer"] ELSE wrapper[c]]
    BY <1>12 DEF KillRefresh, Kill, history
  <2>2. \A c \in Chain : wrapper'[c].pc = wrapper[c].pc /\ wrapper'[c].stamp = wrapper[c].stamp
    BY <2>1, Parts DEF Wrappers
  <2> QED BY <1>2, <1>3, <2>1, <2>2
<1>13. CASE Reboot
  <2>1. /\ UNCHANGED <<day, marker, begun, failed>> /\ kills' = kills + 1
        /\ \A c \in Chain : wrapper'[c] = NoWrapper
    BY <1>13 DEF Reboot, Kill, history
  <2>2. ASSUME NEW c \in Chain PROVE InOrder(c)'
    <3>1. InOrder(c) BY DEF OnceInv
    <3> QED BY <2>1, <3>1 DEF InOrder, NoWrapper
  <2>3. ASSUME NEW c \in Chain, NEW s \in Stamps PROVE Begins(c, s)'
    <3>1. Begins(c, s) BY DEF OnceInv
    <3> QED BY <1>2, <2>1, <3>1, OnceNumbers DEF Begins
  <2> QED BY <2>2, <2>3 DEF OnceInv
<1>14. CASE UNCHANGED vars
  <2>1. UNCHANGED <<day, marker, wrapper, begun, failed, kills>> BY <1>14 DEF vars, history, counters
  <2> QED BY <1>2, <1>3, <2>1
<1> QED BY <1>4, <1>5, <1>6, <1>7, <1>8, <1>9, <1>10, <1>11, <1>12, <1>13, <1>14
        DEF Next, ChainStep

-----------------------------------------------------------------------------
(* A slot is served.                                                       *)

LEMMA ServedInit == Init => ServedInv
BY DEF Init, NoWrapper, ServedInv, MarkedServed

\* An answer stays one while the slot's wrapper is left alone.
LEMMA AnswerKept ==
  ASSUME TypeInv, NEW t \in due, Answered(t), t \in Chain \X Stamps,
         served \subseteq served', turned \subseteq turned', kills' >= kills, kills' \in Nat,
         failed'[t[1]][t[2]] >= failed[t[1]][t[2]], failed'[t[1]][t[2]] \in Nat,
         \/ wrapper'[t[1]].pc # "none" /\ wrapper'[t[1]].stamp = wrapper[t[1]].stamp
         \/ wrapper[t[1]].pc = "none" \/ wrapper[t[1]].stamp # t[2]
         \/ kills' > 0 \/ failed'[t[1]][t[2]] > 0 \/ t \in served'
  PROVE  Answered(t)'
<1>1. t[1] \in Chain /\ t[2] \in Stamps OBVIOUS
<1>2. kills \in Nat /\ failed[t[1]][t[2]] \in Nat BY <1>1, OnceNumbers
<1>3. CASE kills > 0 \/ failed[t[1]][t[2]] > 0 BY <1>2, <1>3 DEF Answered
<1>4. CASE t \in served \/ \E h \in {"run", "probe"} : <<t[1], t[2], h>> \in turned
  BY <1>4 DEF Answered
<1>5. CASE wrapper[t[1]].pc # "none" /\ wrapper[t[1]].stamp = t[2] BY <1>5 DEF Answered
<1> QED BY <1>3, <1>4, <1>5 DEF Answered

\* A step that leaves the wrappers, markers, triggers and answers alone.
LEMMA ServedKept ==
  ASSUME TypeInv, ServedInv, UNCHANGED <<marker, due, served, turned, failed>>,
         kills' \in Nat, kills' >= kills,
         \A c \in Chain : wrapper'[c].pc = wrapper[c].pc /\ wrapper'[c].stamp = wrapper[c].stamp
  PROVE  ServedInv'
<1>1. \A c \in Chain : MarkedServed(c)' BY DEF ServedInv, MarkedServed
<1>2. ASSUME NEW t \in due PROVE Answered(t)'
  <2>1. t \in Chain \X Stamps /\ Answered(t) BY Parts DEF ServedInv
  <2>2. t[1] \in Chain /\ t[2] \in Stamps BY <2>1
  <2>3. failed[t[1]][t[2]] \in Nat BY <2>2, OnceNumbers
  <2>4. \/ wrapper'[t[1]].pc # "none" /\ wrapper'[t[1]].stamp = wrapper[t[1]].stamp
        \/ wrapper[t[1]].pc = "none"
    BY <2>2
  <2> QED BY <2>1, <2>3, <2>4, AnswerKept
<1> QED BY <1>1, <1>2 DEF ServedInv

\* A chain begins: no wrapper had the slot before.
LEMMA ServedBegin ==
  ASSUME TypeInv, ServedInv, NEW c \in Chain, NEW forced \in BOOLEAN,
         NEW by \in {"timer", "refresh", "cockpit"}, ~ Held(c), Begin(c, forced, by),
         UNCHANGED <<marker, served, failed, kills>>, turned \subseteq turned',
         due' \subseteq due \cup {<<c, Stamp(c, day)>>}
  PROVE  ServedInv'
<1>1. /\ wrapper'[c].pc = "run" /\ wrapper'[c].stamp = Stamp(c, day) /\ wrapper[c].pc = "none"
      /\ \A e \in Chain \ {c} : wrapper'[e] = wrapper[e]
  <2>1. /\ wrapper'[c] = [pc |-> "run", stamp |-> Stamp(c, day), by |-> by]
        /\ wrapper[c] = NoWrapper /\ \A e \in Chain \ {c} : wrapper'[e] = wrapper[e]
    BY BeginTypes
  <2> QED BY <2>1 DEF NoWrapper
<1>2. \A e \in Chain : MarkedServed(e)' BY <1>1 DEF ServedInv, MarkedServed
<1>3. ASSUME NEW t \in due' PROVE Answered(t)'
  <2>1. CASE t = <<c, Stamp(c, day)>> BY <1>1, <2>1 DEF Answered
  <2>2. CASE t \in due
    <3>1. t \in Chain \X Stamps /\ Answered(t) BY <2>2, Parts DEF ServedInv
    <3>2. t[1] \in Chain /\ t[2] \in Stamps BY <3>1
    <3>3. failed[t[1]][t[2]] \in Nat /\ kills \in Nat BY <3>2, OnceNumbers
    <3>4. \/ wrapper'[t[1]].pc # "none" /\ wrapper'[t[1]].stamp = wrapper[t[1]].stamp
          \/ wrapper[t[1]].pc = "none"
      BY <1>1, <3>2
    <3> QED BY <2>2, <3>1, <3>3, <3>4, AnswerKept
  <2> QED BY <2>1, <2>2
<1> QED BY <1>2, <1>3 DEF ServedInv

\* A trigger that begins nothing was turned away, or finds its slot run or running.
LEMMA ServedSkip ==
  ASSUME TypeInv, ServedInv, NEW c \in Chain, Trigger(c), Skips(c, FALSE)
  PROVE  ServedInv'
<1> DEFINE s == Stamp(c, day)
<1>1. UNCHANGED <<marker, wrapper, served, failed, kills>> BY DEF Trigger
<1>2. s \in Stamps BY StampToday
<1>3. turned \subseteq turned' /\ due' \subseteq due \cup {<<c, s>>} BY DEF Trigger
<1>4. \A e \in Chain : MarkedServed(e)' BY <1>1 DEF ServedInv, MarkedServed
<1>5. ASSUME NEW t \in due PROVE Answered(t)'
  <2>1. t \in Chain \X Stamps /\ Answered(t) BY Parts DEF ServedInv
  <2>2. t[1] \in Chain /\ t[2] \in Stamps BY <2>1
  <2>3. failed[t[1]][t[2]] \in Nat /\ kills \in Nat BY <2>2, OnceNumbers
  <2> QED BY <1>1, <1>3, <2>1, <2>3, AnswerKept
<1>6. ASSUME NEW t \in due' \ due, t = <<c, s>> PROVE Answered(t)'
  <2>1. ~ Off(c) BY <1>6 DEF Trigger
  <2>2. turned' = turned \cup Turned(c) BY <2>1 DEF Trigger
  <2>3. t[1] = c /\ t[2] = s BY <1>6
  <2>4. CASE Held(c) /\ wrapper[c].stamp # s
    <3>1. \E h \in {"run", "probe"} : <<c, s, h>> \in turned' BY <2>2, <2>4 DEF Turned
    <3> QED BY <2>3, <3>1 DEF Answered
  <2>5. CASE Held(c) /\ wrapper[c].stamp = s
    <3>1. wrapper[c].pc # "none"
      <4>1. wrapper[c].stamp # 0 BY <1>2, <2>5, OnceNumbers
      <4> QED BY <4>1 DEF TypeInv, WrapperInv, NoWrapper
    <3> HIDE DEF s
    <3> QED BY <1>1, <2>3, <2>5, <3>1 DEF Answered
  <2>6. CASE ~ Held(c)
    <3>1. marker[c] = s BY <2>1, <2>6 DEF Skips, Marked
    <3>2. s > 0 BY <1>2, OnceNumbers
    <3> HIDE DEF s
    <3>3. <<c, s>> \in served BY <3>1, <3>2 DEF ServedInv, MarkedServed
    <3> QED BY <1>1, <1>6, <3>3 DEF Answered
  <2> QED BY <2>4, <2>5, <2>6
<1> HIDE DEF s
<1>7. \A t \in due' : Answered(t)' BY <1>3, <1>5, <1>6
<1> QED BY <1>4, <1>7 DEF ServedInv

\* A run that ends was served, failed, or was killed.
LEMMA ServedEnd ==
  ASSUME TypeInv, ServedInv, TypeInv', NEW c \in Chain,
         ChainFails(c) \/ WriteMarker(c) \/ KillWrapper(c)
  PROVE  ServedInv'
<1>1. /\ UNCHANGED <<due, served, turned>> /\ wrapper[c].pc # "none" /\ Exit(c)
  BY DEF ChainFails, WriteMarker, KillWrapper, history
<1>2. wrapper'[c] = NoWrapper /\ \A e \in Chain \ {c} : wrapper'[e] = wrapper[e]
  BY <1>1, ExitTypes
<1>3. wrapper[c].stamp \in Stamps BY <1>1 DEF TypeInv, WrapperInv
<1>4. \A e \in Chain : MarkedServed(e)'
  <2>1. CASE marker' = marker
    <3>1. wrapper'[c].pc = "none" BY <1>2 DEF NoWrapper
    <3>2. MarkedServed(c)' BY <1>1, <2>1, <3>1 DEF ServedInv, MarkedServed
    <3>3. \A e \in Chain \ {c} : MarkedServed(e)' BY <1>1, <1>2, <2>1 DEF ServedInv, MarkedServed
    <3> QED BY <3>2, <3>3
  <2>2. CASE WriteMarker(c)
    <3>1. marker' = [marker EXCEPT ![c] = wrapper[c].stamp] /\ wrapper[c].pc = "mark"
      BY <2>2 DEF WriteMarker, MarkerOf
    <3>2. /\ marker'[c] = wrapper[c].stamp /\ <<c, wrapper[c].stamp>> \in served
          /\ \A e \in Chain \ {c} : marker'[e] = marker[e]
      BY <3>1, Parts DEF ServedInv, MarkedServed
    <3> QED BY <1>1, <1>2, <3>2 DEF ServedInv, MarkedServed, NoWrapper
  <2> QED BY <2>1, <2>2 DEF ChainFails, KillWrapper
<1>5. ASSUME NEW t \in due PROVE Answered(t)'
  <2>1. t \in Chain \X Stamps /\ Answered(t) BY Parts DEF ServedInv
  <2>2. t[1] \in Chain /\ t[2] \in Stamps /\ t = <<t[1], t[2]>> BY <2>1
  <2>3. /\ failed[t[1]][t[2]] \in Nat /\ kills \in Nat
        /\ failed \in [Chain -> [Stamps -> Nat]]
    BY <2>2, OnceNumbers, Parts
  <2>4. CASE ChainFails(c)
    <3>1. failed' = Count(failed, c, wrapper[c].stamp) /\ kills' = kills
      BY <2>4 DEF ChainFails, counters
    <3>2. CASE t[1] = c /\ t[2] = wrapper[c].stamp
      <4>1. failed'[t[1]][t[2]] = failed[t[1]][t[2]] + 1
        BY <1>3, <2>3, <3>1, <3>2, CountIsCount
      <4> QED BY <2>3, <4>1 DEF Answered
    <3>3. CASE t[1] # c \/ t[2] # wrapper[c].stamp
      <4>1. failed'[t[1]][t[2]] = failed[t[1]][t[2]]
        BY <1>3, <2>2, <2>3, <3>1, <3>3, CountIsCount
      <4>2. \/ wrapper'[t[1]].pc # "none" /\ wrapper'[t[1]].stamp = wrapper[t[1]].stamp
            \/ wrapper[t[1]].pc = "none" \/ wrapper[t[1]].stamp # t[2]
        BY <1>2, <2>2, <3>3
      <4> QED BY <1>1, <2>1, <2>3, <3>1, <4>1, <4>2, AnswerKept
    <3> QED BY <3>2, <3>3
  <2>5. CASE WriteMarker(c)
    <3>1. UNCHANGED <<failed, kills>> /\ wrapper[c].pc = "mark"
      BY <2>5 DEF WriteMarker, history, counters
    <3>2. <<c, wrapper[c].stamp>> \in served BY <3>1 DEF ServedInv, MarkedServed
    <3>3. \/ wrapper'[t[1]].pc # "none" /\ wrapper'[t[1]].stamp = wrapper[t[1]].stamp
          \/ wrapper[t[1]].pc = "none" \/ wrapper[t[1]].stamp # t[2] \/ t \in served'
      BY <1>1, <1>2, <2>2, <3>2
    <3> QED BY <1>1, <2>1, <2>3, <3>1, <3>3, AnswerKept
  <2>6. CASE KillWrapper(c)
    <3>1. kills' = kills + 1 BY <2>6 DEF KillWrapper, Kill
    <3> QED BY <2>3, <3>1 DEF Answered
  <2> QED BY <2>4, <2>5, <2>6
<1> QED BY <1>1, <1>4, <1>5 DEF ServedInv

LEMMA ServedStep == TypeInv /\ ServedInv /\ [Next]_vars => ServedInv'
<1> SUFFICES ASSUME TypeInv, ServedInv, [Next]_vars PROVE ServedInv' OBVIOUS
<1>1. TypeInv' BY TypeStep
<1>2. kills \in Nat BY Parts
<1>3. CASE NextDay BY <1>2, <1>3, ServedKept DEF NextDay, history, counters
<1>4. ASSUME NEW c \in Chain, Trigger(c) PROVE ServedInv'
  <2>1. CASE Skips(c, FALSE) BY <1>4, <2>1, ServedSkip
  <2>2. CASE ~ Skips(c, FALSE)
    <3>1. /\ Begin(c, FALSE, "timer") /\ ~ Held(c)
          /\ UNCHANGED <<marker, served, failed, kills>>
      BY <1>4, <2>2 DEF Trigger, Skips
    <3>2. turned \subseteq turned' /\ due' \subseteq due \cup {<<c, Stamp(c, day)>>}
      BY <1>4 DEF Trigger
    <3> QED BY <3>1, <3>2, ServedBegin
  <2> QED BY <2>1, <2>2
<1>5. ASSUME NEW c \in Chain, ChainEndsWell(c) PROVE ServedInv'
  <2>1. /\ wrapper' = [wrapper EXCEPT ![c] = [wrapper[c] EXCEPT !.pc = "mark"]]
        /\ wrapper[c].pc = "run" /\ served' = served \cup {<<c, wrapper[c].stamp>>}
        /\ UNCHANGED <<marker, failed, due, turned, kills>>
    BY <1>5 DEF ChainEndsWell, counters
  <2>2. wrapper[c] \in Wrappers BY Parts
  <2>3. wrapper'[c].stamp = wrapper[c].stamp /\ wrapper'[c].pc = "mark"
    BY <2>1, <2>2, Parts DEF Wrappers
  <2>4. \A e \in Chain \ {c} : wrapper'[e] = wrapper[e] BY <2>1, Parts
  <2>5. \A e \in Chain : MarkedServed(e)' BY <2>1, <2>3, <2>4 DEF ServedInv, MarkedServed
  <2>6. ASSUME NEW t \in due PROVE Answered(t)'
    <3>1. t \in Chain \X Stamps /\ Answered(t) BY Parts DEF ServedInv
    <3>2. t[1] \in Chain /\ t[2] \in Stamps BY <3>1
    <3>3. failed[t[1]][t[2]] \in Nat BY <3>2, OnceNumbers
    <3>4. \/ wrapper'[t[1]].pc # "none" /\ wrapper'[t[1]].stamp = wrapper[t[1]].stamp
          \/ wrapper[t[1]].pc = "none"
      BY <2>3, <2>4, <3>2
    <3> QED BY <1>2, <2>1, <3>1, <3>3, <3>4, AnswerKept
  <2> QED BY <2>1, <2>5, <2>6 DEF ServedInv
<1>6. ASSUME NEW c \in Chain, ChainFails(c) \/ WriteMarker(c) \/ KillWrapper(c) PROVE ServedInv'
  BY <1>1, <1>6, ServedEnd
<1>7. ASSUME NEW c \in Chain, OrphanEnds(c) PROVE ServedInv'
  BY <1>2, <1>7, ServedKept DEF OrphanEnds, history, counters
<1>8. CASE RefreshPhase
  <2> DEFINE c == Phases[refresh.i]
  <2>1. c \in Chain /\ refresh.forced \in BOOLEAN
    <3>1. refresh.i \in DOMAIN Phases BY <1>8 DEF RefreshPhase, TypeInv
    <3>2. refresh.forced \in BOOLEAN BY Parts DEF Refreshes
    <3> QED BY <3>1, <3>2, Names
  <2>2. UNCHANGED <<marker, served, turned, due, failed, kills>> BY <1>8 DEF RefreshPhase, counters
  <2>3. CASE Skips(c, refresh.forced)
    <3>1. UNCHANGED wrapper BY <1>8, <2>3 DEF RefreshPhase
    <3> QED BY <1>2, <2>2, <3>1, ServedKept
  <2>4. CASE ~ Skips(c, refresh.forced)
    <3>1. Begin(c, refresh.forced, "refresh") /\ ~ Held(c) BY <1>8, <2>4 DEF RefreshPhase, Skips
    <3> HIDE DEF c
    <3> QED BY <2>1, <2>2, <3>1, ServedBegin
  <2> QED BY <2>3, <2>4
<1>9. CASE Launch
  <2>1. request.forced \in BOOLEAN BY Parts DEF Requests
  <2>2. UNCHANGED <<marker, served, turned, due, failed, kills>> BY <1>9 DEF Launch, counters
  <2>3. CASE LaunchSkips \/ request.job # "daily"
    <3>1. UNCHANGED wrapper BY <1>9, <2>3 DEF Launch
    <3> QED BY <1>2, <2>2, <3>1, ServedKept
  <2>4. CASE ~ LaunchSkips /\ request.job = "daily"
    <3>1. Begin("daily", request.forced, "cockpit") /\ ~ Held("daily")
      BY <1>9, <2>4 DEF Launch, LaunchSkips, Skips
    <3> QED BY <2>1, <2>2, <3>1, Names, ServedBegin
  <2> QED BY <2>3, <2>4
<1>10. CASE CockpitStep /\ ~ Launch
  <2>1. UNCHANGED <<marker, wrapper, served, due, turned, failed, kills>>
    BY <1>10 DEF CockpitStep, Request, ProbeLock, ReleaseLock, CheckBlocked, StatusTake,
                 StatusRelease, history, counters
  <2> QED BY <1>2, <2>1, ServedKept
<1>11. CASE KillRefresh
  <2>1. /\ UNCHANGED <<marker, served, due, turned, failed>> /\ kills' = kills + 1
        /\ wrapper' = [c \in Chain |-> IF wrapper[c].by = "refresh"
                                         THEN [wrapper[c] EXCEPT !.by = "timer"] ELSE wrapper[c]]
    BY <1>11 DEF KillRefresh, Kill, history
  <2>2. \A c \in Chain : wrapper'[c].pc = wrapper[c].pc /\ wrapper'[c].stamp = wrapper[c].stamp
    BY <2>1, Parts DEF Wrappers
  <2> QED BY <1>2, <2>1, <2>2, ServedKept
<1>12. CASE Reboot
  <2>1. /\ UNCHANGED <<marker, served, due, turned>> /\ kills' = kills + 1
        /\ \A c \in Chain : wrapper'[c] = NoWrapper
    BY <1>12 DEF Reboot, Kill, history
  <2>2. \A c \in Chain : wrapper'[c].pc = "none" BY <2>1 DEF NoWrapper
  <2>3. \A c \in Chain : MarkedServed(c)' BY <2>1, <2>2 DEF ServedInv, MarkedServed
  <2>4. kills' > 0 BY <1>2, <2>1
  <2>5. \A t \in due' : Answered(t)' BY <2>4 DEF Answered
  <2> QED BY <2>3, <2>5 DEF ServedInv
<1>13. CASE UNCHANGED vars
  <2>1. UNCHANGED <<marker, wrapper, served, due, turned, failed, kills>>
    BY <1>13 DEF vars, history, counters
  <2> QED BY <1>2, <2>1, ServedKept
<1> QED BY <1>3, <1>4, <1>5, <1>6, <1>7, <1>8, <1>9, <1>10, <1>11, <1>12, <1>13
        DEF Next, ChainStep

-----------------------------------------------------------------------------
(* A reported start does something.                                        *)

LEMMA QuietInit == Init => QuietInv
BY DEF Init, NoRequest, QuietInv, Probed

\* What the runs do disturbs a request only by taking its lock, which is a move.
LEMMA QuietKept ==
  ASSUME TypeInv, QuietInv, UNCHANGED <<request, quiet>>, probing'["start"] = probing["start"],
         moved => moved',
         request.pc # "none" /\ ~ moved' =>
           /\ HeldByRun(request.job)' => HeldByRun(request.job)
           /\ probing'["status"] = request.job => probing["status"] = request.job
           /\ BlockedReason(request.job)' => BlockedReason(request.job)
  PROVE  QuietInv'
<1>1. Probed' <=> Probed BY DEF Probed
<1>2. Probed => request.pc # "none" BY DEF Probed
<1>3. Probed' /\ ~ moved' => ~ HeldByRun(request.job)' /\ probing'["status"] # request.job
  BY <1>1, <1>2 DEF QuietInv
<1>4. request.pc = "launch" /\ ~ moved' /\ ~ request.forced => ~ BlockedReason(request.job)'
  BY DEF QuietInv
<1> QED BY <1>3, <1>4 DEF QuietInv

\* A chain begins: a request for it sees a move, one for the refresh does not care.
LEMMA QuietBegin ==
  ASSUME TypeInv, QuietInv, NEW c \in Chain, NEW forced \in BOOLEAN,
         NEW by \in {"timer", "refresh", "cockpit"}, ~ Held(c), Begin(c, forced, by), Move(c),
         refresh.pc # "none" \/ refresh' = refresh,
         UNCHANGED <<day, marker, request, probing, quiet>>
  PROVE  QuietInv'
<1>1. \A e \in Chain \ {c} : wrapper'[e] = wrapper[e] /\ alive'[e] = alive[e] BY BeginTypes
<1>2. moved => moved' BY DEF Move
<1>3. ASSUME request.pc # "none", ~ moved'
      PROVE  HeldByRun(request.job)' => HeldByRun(request.job)
  <2>1. request.job # c /\ request.job \in {"daily", "full"} BY <1>3 DEF Move, TypeInv
  <2> QED BY <1>1, <2>1, Names DEF HeldByRun
<1>4. BlockedReason(request.job)' => BlockedReason(request.job)
  BY DEF BlockedReason, Marked
<1> QED BY <1>2, <1>3, <1>4, QuietKept

\* A wrapper or chain ends: the marker of a chain is written only where its lock is held.
LEMMA QuietEnd ==
  ASSUME TypeInv, QuietInv, NEW c \in Chain,
         ChainEndsWell(c) \/ ChainFails(c) \/ WriteMarker(c) \/ KillWrapper(c) \/ OrphanEnds(c)
  PROVE  QuietInv'
<1>1. UNCHANGED <<day, request, probing, moved, quiet>>
  BY DEF ChainEndsWell, ChainFails, WriteMarker, KillWrapper, OrphanEnds
<1>2. /\ wrapper[c].pc # "none" \/ alive[c] > 0
      /\ \A e \in Chain \ {c} : /\ wrapper'[e] = wrapper[e] /\ alive'[e] = alive[e]
                                /\ marker'[e] = marker[e]
  <2>1. CASE ChainEndsWell(c) BY <2>1, Parts DEF ChainEndsWell
  <2>2. CASE OrphanEnds(c) BY <2>2, Parts DEF OrphanEnds
  <2>3. CASE ChainFails(c) BY <2>3, Parts DEF ChainFails, Exit
  <2>4. CASE WriteMarker(c) BY <2>4, Parts DEF WriteMarker, Exit
  <2>5. CASE KillWrapper(c) BY <2>5, Parts DEF KillWrapper, Exit
  <2> QED BY <2>1, <2>2, <2>3, <2>4, <2>5
<1>3. refresh'.pc # "none" => refresh.pc # "none"
  BY ExitTypes DEF ChainEndsWell, ChainFails, WriteMarker, KillWrapper, OrphanEnds
<1>4. c # "full" /\ "daily" \in Chain BY Names
<1>5. \A l \in {"daily", "full"} : HeldByRun(l)' => HeldByRun(l)
  BY <1>2, <1>3, <1>4 DEF HeldByRun
<1>6. request.pc # "none" => request.job \in {"daily", "full"} BY DEF TypeInv
<1>7. CASE request.pc = "launch" /\ ~ moved /\ request.job = "daily"
  <2>1. ~ HeldByRun("daily") BY <1>7 DEF QuietInv, Probed
  <2>2. c # "daily" BY <1>2, <1>4, <2>1 DEF HeldByRun
  <2>3. marker'["daily"] = marker["daily"] BY <1>2, <1>4, <2>2
  <2>4. BlockedReason(request.job)' => BlockedReason(request.job)
    BY <1>1, <2>3 DEF BlockedReason, Marked
  <2> QED BY <1>1, <1>5, <1>6, <2>4, QuietKept
<1>8. CASE ~ (request.pc = "launch" /\ ~ moved /\ request.job = "daily")
  <2>1. Probed' <=> Probed BY <1>1 DEF Probed
  <2>2. Probed => request.pc # "none" BY DEF Probed
  <2>3. request.job # "daily" => ~ BlockedReason(request.job)' BY <1>1 DEF BlockedReason
  <2> QED BY <1>1, <1>5, <1>6, <1>8, <2>1, <2>2, <2>3 DEF QuietInv
<1> QED BY <1>7, <1>8

\* Probing: a lock found free is free of everybody.
LEMMA QuietProbe ==
  ASSUME TypeInv, QuietInv, ProbeLock
  PROVE  QuietInv'
<1>1. /\ UNCHANGED <<day, marker, wrapper, alive, refresh, quiet>> /\ request.pc = "probe"
      /\ request \in Requests /\ probing["start"] = "none"
  BY Parts DEF ProbeLock, QuietInv
<1>2. CASE Held(Head(request.locks))
  <2>1. request'.pc = "none" /\ UNCHANGED probing BY <1>2 DEF ProbeLock, NoRequest
  <2> QED BY <1>1, <2>1 DEF QuietInv, Probed
<1>3. CASE ~ Held(Head(request.locks))
  <2>1. /\ request' = [request EXCEPT !.pc = "release"] /\ UNCHANGED moved
        /\ probing' = [probing EXCEPT !["start"] = Head(request.locks)]
    BY <1>3 DEF ProbeLock
  <2>2. /\ request'.pc = "release" /\ request'.job = request.job
        /\ request'.locks = request.locks
    BY <1>1, <2>1 DEF Requests
  <2>3. probing'["status"] = probing["status"] BY <2>1, Parts
  <2>4. request.job \in {"daily", "full"} BY <1>1 DEF TypeInv
  <2>5. ~ moved => ~ HeldByRun(request.job) /\ probing["status"] # request.job
    <3>1. CASE request.locks # LocksOf(request.job) BY <1>1, <3>1 DEF QuietInv, Probed
    <3>2. CASE request.locks = LocksOf(request.job)
      <4>1. ~ Held(request.job) BY <1>3, <2>4, <3>2, LocksOfJob
      <4>2. probing["status"] # request.job BY <4>1, Parts DEF Held, HeldByProbe
      <4> QED BY <4>1, <4>2 DEF Held
    <3> QED BY <3>1, <3>2
  <2>6. HeldByRun(request.job)' <=> HeldByRun(request.job) BY <1>1, <2>2 DEF HeldByRun
  <2> QED BY <1>1, <2>1, <2>2, <2>3, <2>5, <2>6 DEF QuietInv
<1> QED BY <1>2, <1>3

LEMMA QuietRelease ==
  ASSUME TypeInv, QuietInv, ReleaseLock
  PROVE  QuietInv'
<1>1. /\ UNCHANGED <<day, marker, wrapper, alive, refresh, moved, quiet>>
      /\ request.pc = "release" /\ request \in Requests /\ request.job \in {"daily", "full"}
      /\ request.locks # <<>>
  BY Parts DEF ReleaseLock, TypeInv
<1>2. probing' = [probing EXCEPT !["start"] = "none"] BY DEF ReleaseLock
<1>3. probing'["start"] = "none" /\ probing'["status"] = probing["status"] BY <1>2, Parts
<1>4. /\ request'.pc \in {"probe", "check"} /\ request'.job = request.job
      /\ request'.locks = Tail(request.locks)
  <2>1. \E pc \in {"probe", "check"} :
          request' = [request EXCEPT !.locks = Tail(request.locks), !.pc = pc]
    BY DEF ReleaseLock
  <2> QED BY <1>1, <2>1 DEF Requests
<1>5. Len(Tail(request.locks)) < Len(LocksOf(request.job))
  <2>1. request.locks \in Seq(Lock) BY <1>1 DEF Requests
  <2>2. Len(Tail(request.locks)) = Len(request.locks) - 1 /\ Len(request.locks) \in Nat
    BY <1>1, <2>1, HeadTailProperties, LenProperties
  <2>3. Len(request.locks) <= Len(LocksOf(request.job)) BY <1>1 DEF QuietInv
  <2>4. Len(LocksOf(request.job)) \in Nat BY <1>1, LocksOfJob
  <2> QED BY <2>2, <2>3, <2>4
<1>6. Len(Tail(request.locks)) \in Nat
  <2>1. request.locks \in Seq(Lock) BY <1>1 DEF Requests
  <2> QED BY <1>1, <2>1, HeadTailProperties, LenProperties
<1>7. Len(LocksOf(request.job)) \in Nat BY <1>1, LocksOfJob
<1>8. ~ moved => ~ HeldByRun(request.job) /\ probing["status"] # request.job
  BY <1>1 DEF QuietInv, Probed
<1>9. HeldByRun(request.job)' <=> HeldByRun(request.job) BY <1>1, <1>4 DEF HeldByRun
<1>10. Len(request'.locks) <= Len(LocksOf(request'.job)) BY <1>4, <1>5, <1>6, <1>7
<1>11. ~ quiet' BY <1>1 DEF QuietInv
<1> QED BY <1>1, <1>3, <1>4, <1>8, <1>9, <1>10, <1>11 DEF QuietInv

LEMMA QuietCheck ==
  ASSUME TypeInv, QuietInv, CheckBlocked
  PROVE  QuietInv'
<1>1. /\ UNCHANGED <<day, marker, wrapper, alive, refresh, probing, quiet>>
      /\ request.pc = "check" /\ request \in Requests
  BY Parts DEF CheckBlocked
<1>2. CASE BlockedReason(request.job) /\ ~ request.forced
  <2>1. request'.pc = "none" BY <1>2 DEF CheckBlocked, NoRequest
  <2> QED BY <1>1, <2>1 DEF QuietInv, Probed
<1>3. CASE ~ (BlockedReason(request.job) /\ ~ request.forced)
  <2>1. request' = [request EXCEPT !.pc = "launch"] /\ UNCHANGED moved
    BY <1>3 DEF CheckBlocked
  <2>2. /\ request'.pc = "launch" /\ request'.job = request.job /\ request'.locks = request.locks
        /\ request'.forced = request.forced
    BY <1>1, <2>1 DEF Requests
  <2>3. BlockedReason(request.job)' <=> BlockedReason(request.job)
    BY <1>1, <2>2 DEF BlockedReason, Marked
  <2>4. HeldByRun(request.job)' <=> HeldByRun(request.job) BY <1>1, <2>2 DEF HeldByRun
  <2>5. Probed BY <1>1 DEF Probed
  <2> QED BY <1>1, <1>3, <2>1, <2>2, <2>3, <2>4, <2>5 DEF QuietInv
<1> QED BY <1>2, <1>3

\* The start itself: where nothing moved, the script finds neither lock nor marker.
LEMMA QuietLaunch ==
  ASSUME TypeInv, QuietInv, Launch
  PROVE  QuietInv'
<1>1. /\ request.pc = "launch" /\ request.job \in {"daily", "full"} /\ UNCHANGED probing
      /\ request'.pc = "none" /\ probing["start"] = "none"
  BY DEF Launch, NoRequest, TypeInv, QuietInv
<1>2. ~ moved => ~ LaunchSkips
  <2> SUFFICES ASSUME ~ moved PROVE ~ LaunchSkips OBVIOUS
  <2>1. ~ HeldByRun(request.job) /\ probing["status"] # request.job
    BY <1>1 DEF QuietInv, Probed
  <2>2. ~ Held(request.job) BY <1>1, <2>1, Parts DEF Held, HeldByProbe
  <2>3. request.job = "daily" /\ ~ request.forced => ~ Marked("daily") /\ ~ Weekend(day)
    BY <1>1 DEF QuietInv, BlockedReason
  <2> QED BY <1>1, <2>2, <2>3 DEF LaunchSkips, Skips, Off
<1>3. ~ quiet' BY <1>2 DEF Launch, QuietInv
<1> QED BY <1>1, <1>3 DEF QuietInv, Probed

LEMMA QuietStep == TypeInv /\ QuietInv /\ [Next]_vars => QuietInv'
<1> SUFFICES ASSUME TypeInv, QuietInv, [Next]_vars PROVE QuietInv' OBVIOUS
<1>1. CASE NextDay
  <2>1. /\ UNCHANGED <<request, probing, quiet>> /\ (moved' <=> request.pc # "none")
        /\ (request.pc = "none" => ~ Probed)
    BY <1>1 DEF NextDay, Probed
  <2>2. Probed' <=> Probed BY <2>1 DEF Probed
  <2> QED BY <2>1, <2>2 DEF QuietInv
<1>2. ASSUME NEW c \in Chain, Trigger(c) PROVE QuietInv'
  <2>1. UNCHANGED <<day, marker, refresh, request, probing, quiet>> BY <1>2 DEF Trigger
  <2>2. CASE Skips(c, FALSE)
    <3>1. UNCHANGED <<wrapper, alive, moved>> BY <1>2, <2>2 DEF Trigger
    <3> QED BY <2>1, <3>1, QuietKept DEF HeldByRun, BlockedReason, Marked
  <2>3. CASE ~ Skips(c, FALSE)
    <3>1. Begin(c, FALSE, "timer") /\ Move(c) /\ ~ Held(c) BY <1>2, <2>3 DEF Trigger, Skips
    <3> QED BY <2>1, <3>1, QuietBegin
  <2> QED BY <2>2, <2>3
<1>3. ASSUME NEW c \in Chain,
             ChainEndsWell(c) \/ ChainFails(c) \/ WriteMarker(c) \/ KillWrapper(c) \/ OrphanEnds(c)
      PROVE  QuietInv'
  BY <1>3, QuietEnd
<1>4. CASE RefreshPhase
  <2> DEFINE c == Phases[refresh.i]
  <2>1. c \in Chain /\ refresh.forced \in BOOLEAN
    <3>1. refresh.i \in DOMAIN Phases BY <1>4 DEF RefreshPhase, TypeInv
    <3>2. refresh.forced \in BOOLEAN BY Parts DEF Refreshes
    <3> QED BY <3>1, <3>2, Names
  <2>2. UNCHANGED <<day, marker, request, probing, quiet>> /\ refresh.pc # "none"
    BY <1>4 DEF RefreshPhase
  <2>3. CASE Skips(c, refresh.forced)
    <3>1. UNCHANGED <<wrapper, alive, moved>> BY <1>4, <2>3 DEF RefreshPhase
    <3>2. HeldByRun(request.job)' => HeldByRun(request.job) BY <2>2, <3>1 DEF HeldByRun
    <3> QED BY <2>2, <3>1, <3>2, QuietKept DEF BlockedReason, Marked
  <2>4. CASE ~ Skips(c, refresh.forced)
    <3>1. Begin(c, refresh.forced, "refresh") /\ Move(c) /\ ~ Held(c)
      BY <1>4, <2>4 DEF RefreshPhase, Skips
    <3> HIDE DEF c
    <3> QED BY <2>1, <2>2, <3>1, QuietBegin
  <2> QED BY <2>3, <2>4
<1>5. ASSUME NEW job \in {"daily", "full"}, NEW forced \in BOOLEAN, Request(job, forced)
      PROVE  QuietInv'
  <2>1. /\ request'.pc = "probe" /\ request'.job = job /\ request'.locks = LocksOf(job)
        /\ UNCHANGED <<probing, quiet>> /\ request.pc = "none"
    BY <1>5 DEF Request
  <2>2. Len(LocksOf(job)) \in Nat BY LocksOfJob
  <2>3. ~ Probed' BY <2>1 DEF Probed
  <2> QED BY <2>1, <2>2, <2>3 DEF QuietInv
<1>6. CASE ProbeLock BY <1>6, QuietProbe
<1>7. CASE ReleaseLock BY <1>7, QuietRelease
<1>8. CASE CheckBlocked BY <1>8, QuietCheck
<1>9. CASE Launch BY <1>9, QuietLaunch
<1>10. ASSUME NEW l \in Lock, StatusTake(l) PROVE QuietInv'
  <2>1. /\ UNCHANGED <<day, marker, wrapper, alive, refresh, request, quiet>>
        /\ probing' = [probing EXCEPT !["status"] = l]
        /\ moved' = (moved \/ request.job = l)
    BY <1>10 DEF StatusTake, Move
  <2>2. probing'["start"] = probing["start"] /\ probing'["status"] = l BY <2>1, Parts
  <2>3. HeldByRun(request.job)' <=> HeldByRun(request.job) BY <2>1 DEF HeldByRun
  <2>4. BlockedReason(request.job)' <=> BlockedReason(request.job)
    BY <2>1 DEF BlockedReason, Marked
  <2> QED BY <2>1, <2>2, <2>3, <2>4, QuietKept
<1>11. CASE StatusRelease
  <2>1. /\ UNCHANGED <<day, marker, wrapper, alive, refresh, request, moved, quiet>>
        /\ probing' = [probing EXCEPT !["status"] = "none"]
    BY <1>11 DEF StatusRelease
  <2>2. probing'["start"] = probing["start"] /\ probing'["status"] = "none" BY <2>1, Parts
  <2>3. HeldByRun(request.job)' <=> HeldByRun(request.job) BY <2>1 DEF HeldByRun
  <2>4. BlockedReason(request.job)' <=> BlockedReason(request.job)
    BY <2>1 DEF BlockedReason, Marked
  <2>5. request.pc # "none" => request.job # "none" BY DEF TypeInv
  <2> QED BY <2>1, <2>2, <2>3, <2>4, <2>5, QuietKept
<1>12. CASE KillRefresh
  <2>1. /\ UNCHANGED <<day, marker, alive, request, probing, moved, quiet>>
        /\ refresh'.pc = "none"
        /\ wrapper' = [c \in Chain |-> IF wrapper[c].by = "refresh"
                                         THEN [wrapper[c] EXCEPT !.by = "timer"] ELSE wrapper[c]]
    BY <1>12 DEF KillRefresh, NoRefresh
  <2>2. \A c \in Chain : wrapper'[c].pc = wrapper[c].pc BY <2>1, Parts DEF Wrappers
  <2>3. request.pc # "none" => (HeldByRun(request.job)' => HeldByRun(request.job))
    BY <2>1, <2>2, Names DEF HeldByRun, TypeInv
  <2>4. BlockedReason(request.job)' <=> BlockedReason(request.job)
    BY <2>1 DEF BlockedReason, Marked
  <2> QED BY <2>1, <2>3, <2>4, QuietKept
<1>13. CASE Reboot
  <2>1. request'.pc = "none" /\ UNCHANGED quiet /\ probing'["start"] = "none"
    BY <1>13, Parts DEF Reboot, NoRequest
  <2> QED BY <2>1 DEF QuietInv, Probed
<1>14. CASE UNCHANGED vars
  <2>1. UNCHANGED <<day, marker, wrapper, alive, refresh, request, probing, moved, quiet>>
    BY <1>14 DEF vars
  <2> QED BY <2>1, QuietKept DEF HeldByRun, BlockedReason, Marked
<1> QED BY <1>1, <1>2, <1>3, <1>4, <1>5, <1>6, <1>7, <1>8, <1>9, <1>10, <1>11, <1>12, <1>13, <1>14
        DEF Next, ChainStep, CockpitStep

-----------------------------------------------------------------------------
(* Every state is well formed: no chain runs with two wrappers' marks, the *)
(* refresh waits for the wrapper it started, a request has locks to probe. *)
THEOREM TypeCorrect == Spec => []TypeOK
<1>1. TypeInv => TypeOK BY DEF TypeInv
<1> QED BY TypeInit, TypeStep, <1>1, PTL DEF Spec

(* A slot is run once, but for the runs that failed and the kills; no      *)
(* chain runs beside itself: for every calendar and every interleaving of  *)
(* timers, full refresh, phone and kills.                                  *)
THEOREM RunsOnceASlot == Spec => []OnceASlot
<1>1. TypeInv /\ OnceInv => OnceASlot
  <2> SUFFICES ASSUME TypeInv, OnceInv, NEW c \in Chain
               PROVE  alive[c] <= 1 /\ \A s \in Stamps : begun[c][s] <= 1 + failed[c][s] + kills
    BY DEF OnceASlot
  <2>1. alive[c] <= 1
    <3>1. alive[c] \in {0, 1} BY DEF TypeInv, WrapperInv
    <3> QED BY <3>1
  <2>2. ASSUME NEW s \in Stamps PROVE begun[c][s] <= 1 + failed[c][s] + kills
    BY OnceNumbers DEF OnceInv, Begins
  <2> QED BY <2>1, <2>2
<1> QED BY TypeInit, TypeStep, OnceInit, OnceStep, <1>1, PTL DEF Spec

(* A slot whose trigger came is served once its chain is at rest, unless a *)
(* run of it failed, something was killed, or the trigger was turned away  *)
(* by a run of another slot or by a probe.                                 *)
THEOREM ServesEverySlot == Spec => []SlotServed
<1>1. TypeInv /\ ServedInv => SlotServed
  <2> SUFFICES ASSUME TypeInv, ServedInv, NEW t \in due, ~ HeldByRun(t[1]), kills = 0,
                      failed[t[1]][t[2]] = 0
               PROVE  t \in served \/ \E h \in {"run", "probe"} : <<t[1], t[2], h>> \in turned
    BY DEF SlotServed
  <2>1. t[1] \in Chain BY Parts
  <2>2. wrapper[t[1]].pc = "none" BY <2>1, Names DEF HeldByRun
  <2>3. Answered(t) BY DEF ServedInv
  <2> QED BY <2>2, <2>3 DEF Answered
<1> QED BY TypeInit, TypeStep, ServedInit, ServedStep, <1>1, PTL DEF Spec

(* A start the cockpit reported as started does something unless somebody  *)
(* moved after its first probe.                                            *)
THEOREM StartsAreNotQuiet == Spec => []QuietStart
<1>1. QuietInv => QuietStart BY DEF QuietInv, QuietStart
<1> QED BY TypeInit, TypeStep, QuietInit, QuietStep, <1>1, PTL DEF Spec
=============================================================================
