---------------------------- MODULE GuardedChains ----------------------------
(***************************************************************************)
(* The chains and their arbitration: the guarded wrappers                  *)
(* (run_weekly_guarded.sh, run_daily_guarded.sh, run_nightly_guarded.sh),  *)
(* the full refresh that drives all three (run_full_refresh.sh) and the    *)
(* cockpit that probes their locks and starts two of them (jobs.py, the    *)
(* jobs endpoints of api.py).                                              *)
(*                                                                         *)
(* A flock belongs to an open file, and a chain inherits its wrapper's:    *)
(* the lock of a chain is held while a probe, a wrapper or a chain whose   *)
(* wrapper was killed still has it open.  The memory guard puts a chain in *)
(* a scope of its own, so its wrapper can die without it.                  *)
(***************************************************************************)
EXTENDS Naturals, Sequences, FiniteSets

CONSTANTS
  Week,         \* days of a week (7 in the calendar)
  Workdays,     \* the first days of a week, those without a weekend guard
  MaxDay,       \* bound: days
  MaxTriggers,  \* bound: triggers of the timers and requests of the phone
  MaxKills      \* bound: killed wrappers and reboots

ASSUME ChainsAssumption ==
  /\ Week \in Nat \ {0} /\ Workdays \in 1..Week
  /\ MaxDay \in Nat \ {0} /\ MaxTriggers \in Nat /\ MaxKills \in Nat

\* The phases of the full refresh, in its order.
Phases == <<"scout", "daily", "nightly">>
Chain == {Phases[i] : i \in DOMAIN Phases}
Lock == Chain \cup {"full"}
Stamps == 1..MaxDay

VARIABLES
  day,
  marker,    \* per chain, the stamp of the last run that ended well; 0 before the first
  wrapper,   \* per chain, the wrapper that got past its lock and marker
  alive,     \* per chain, how many of its processes run
  refresh,   \* the full refresh: its phase, and whether it waits for that wrapper
  request,   \* a start from the phone: the job, the locks left to probe
  probing,   \* the lock each endpoint of the cockpit holds for a moment
  begun,     \* history: the unforced runs begun, per chain and stamp
  failed,    \* history: the runs that ended with an error, per chain and stamp
  due,       \* history: <<chain, stamp>> for which an unforced trigger came
  served,    \* history: <<chain, stamp>> of the runs that ended well
  turned,    \* history: <<chain, stamp, holder>> of triggers that met a lock held by
             \* a probe or by a run of another slot
  moved,     \* history: since the request began, has its lock been taken or a day passed
  quiet,     \* history: did a reported start do nothing though nothing had moved
  triggers, kills

counters == <<triggers, kills>>
history == <<begun, failed, due, served>>
vars == <<day, marker, wrapper, alive, refresh, request, probing, history, turned, moved, quiet,
          counters>>

NoWrapper == [pc |-> "none", stamp |-> 0, by |-> "none"]
NoRefresh == [pc |-> "none", forced |-> FALSE, i |-> 0]
NoRequest == [pc |-> "none", job |-> "none", forced |-> FALSE, locks |-> <<>>]
PerSlot == [c \in Chain |-> [s \in Stamps |-> 0]]

Init ==
  /\ day = 1
  /\ marker = [c \in Chain |-> 0]
  /\ wrapper = [c \in Chain |-> NoWrapper]
  /\ alive = [c \in Chain |-> 0]
  /\ refresh = NoRefresh /\ request = NoRequest
  /\ probing = [e \in {"start", "status"} |-> "none"]
  /\ begun = PerSlot /\ failed = PerSlot /\ due = {} /\ served = {} /\ turned = {}
  /\ moved = FALSE /\ quiet = FALSE
  /\ triggers = 0 /\ kills = 0

\* Somebody else takes lock l while a request of the phone is under way.
Move(l) == moved' = (moved \/ request.job = l)

Count(f, c, s) == [f EXCEPT ![c][s] = @ + 1]

-----------------------------------------------------------------------------
(* The calendar, and what the wrappers and the cockpit make of it.         *)

Weekend(d) == (d - 1) % Week >= Workdays

\* The day itself; for the scout the ISO week (here its first day).
Stamp(c, d) == IF c = "scout" THEN d - ((d - 1) % Week) ELSE d

\* Days pass whatever runs; a trigger that is pending is served in its minute.
NextDay ==
  /\ day < MaxDay /\ day' = day + 1
  /\ moved' = (request.pc # "none")
  /\ UNCHANGED <<marker, wrapper, alive, refresh, request, probing, history, turned, quiet,
                 counters>>

-----------------------------------------------------------------------------
(* The locks.                                                              *)

Mut_ChildWithout(l) == IF l = "full" THEN refresh.pc # "none" ELSE wrapper[l].pc # "none"
\* Does a run have the lock open: the refresh, a wrapper, or a chain that inherited it.
HeldByRun(l) == IF l = "full" THEN refresh.pc # "none" ELSE wrapper[l].pc # "none" \/ alive[l] > 0
HeldByProbe(l) == \E e \in DOMAIN probing : probing[e] = l
Held(l) == HeldByRun(l) \/ HeldByProbe(l)

-----------------------------------------------------------------------------
(* The guarded wrappers.                                                   *)

Mut_NeverMarked(c) == FALSE
Marked(c) == marker[c] = Stamp(c, day)

Off(c) == c = "daily" /\ Weekend(day)

\* Every way a trigger ends with "exit 0" before its chain begins, in one step: a
\* wrapper that finds its marker has the lock for that moment, as a probe would.
Skips(c, forced) ==
  \/ ~forced /\ Off(c)
  \/ Held(c)
  \/ ~forced /\ Marked(c)

Begin(c, forced, by) ==
  /\ wrapper' = [wrapper EXCEPT
       ![c] = [pc |-> "run", stamp |-> Stamp(c, day), by |-> by]]
  /\ alive' = [alive EXCEPT ![c] = @ + 1]
  /\ begun' = IF forced THEN begun ELSE Count(begun, c, Stamp(c, day))

\* A trigger that found the lock held, unless by a run of its own slot.
Turned(c) ==
  IF ~Held(c) \/ wrapper[c].stamp = Stamp(c, day) THEN {}
  ELSE {<<c, Stamp(c, day), IF HeldByRun(c) THEN "run" ELSE "probe">>}

\* cron, the systemd timer (a missed slot is caught up, on a weekend too) or the Windows task.
Trigger(c) ==
  /\ triggers < MaxTriggers /\ triggers' = triggers + 1
  /\ IF Off(c) THEN UNCHANGED <<due, turned>>
     ELSE due' = due \cup {<<c, Stamp(c, day)>>} /\ turned' = turned \cup Turned(c)
  /\ IF Skips(c, FALSE) THEN UNCHANGED <<wrapper, alive, begun, moved>>
     ELSE Begin(c, FALSE, "timer") /\ Move(c)
  /\ UNCHANGED <<day, marker, refresh, request, probing, failed, served, quiet, kills>>

\* The refresh goes on with its next phase, whatever became of this one.
Advance ==
  refresh' = IF refresh.i < Len(Phases) THEN [refresh EXCEPT !.pc = "phase", !.i = @ + 1]
             ELSE NoRefresh

Exit(c) ==
  /\ wrapper' = [wrapper EXCEPT ![c] = NoWrapper]
  /\ IF wrapper[c].by = "refresh" THEN Advance ELSE UNCHANGED refresh

ChainEndsWell(c) ==
  /\ wrapper[c].pc = "run"
  /\ alive' = [alive EXCEPT ![c] = @ - 1]
  /\ wrapper' = [wrapper EXCEPT ![c].pc = "mark"]
  /\ served' = served \cup {<<c, wrapper[c].stamp>>}
  /\ UNCHANGED <<day, marker, refresh, request, probing, begun, failed, due, turned, moved, quiet,
                 counters>>

\* A non-zero rc: the slot is not marked, a later trigger may try again.
ChainFails(c) ==
  /\ wrapper[c].pc = "run"
  /\ alive' = [alive EXCEPT ![c] = @ - 1]
  /\ failed' = Count(failed, c, wrapper[c].stamp)
  /\ Exit(c)
  /\ UNCHANGED <<day, marker, request, probing, begun, due, served, turned, moved, quiet, counters>>

\* The stamp was read when the lock was taken, not now.
Mut_StampOfNow(c) == Stamp(c, day)
MarkerOf(c) == wrapper[c].stamp

WriteMarker(c) ==
  /\ wrapper[c].pc = "mark"
  /\ marker' = [marker EXCEPT ![c] = MarkerOf(c)]
  /\ Exit(c)
  /\ UNCHANGED <<day, alive, request, probing, history, turned, moved, quiet, counters>>

-----------------------------------------------------------------------------
(* The full refresh: one phase after the other, each a guarded wrapper.    *)

\* Mutant: the phase is started in the background.
Mut_InBackground ==
  /\ refresh.pc = "phase"
  /\ LET c == Phases[refresh.i] IN
       /\ Advance
       /\ IF Skips(c, refresh.forced) THEN UNCHANGED <<wrapper, alive, begun, moved>>
          ELSE Begin(c, refresh.forced, "refresh") /\ Move(c)
  /\ UNCHANGED <<day, marker, request, probing, failed, due, served, turned, quiet, counters>>
RefreshPhase ==
  /\ refresh.pc = "phase"
  /\ LET c == Phases[refresh.i] IN
       IF Skips(c, refresh.forced)
         THEN Advance /\ UNCHANGED <<wrapper, alive, begun, moved>>
         ELSE /\ Begin(c, refresh.forced, "refresh") /\ Move(c)
              /\ refresh' = [refresh EXCEPT !.pc = "wait"]
  /\ UNCHANGED <<day, marker, request, probing, failed, due, served, turned, quiet, counters>>

-----------------------------------------------------------------------------
(* The cockpit: busy_lock takes and releases one lock after the other.     *)

LocksOf(job) == IF job = "daily" THEN <<"daily">> ELSE <<"full", "scout", "daily", "nightly">>

\* One start request at a time; a second tap waits for the first to be answered.
Request(job, forced) ==
  /\ request.pc = "none"
  /\ triggers < MaxTriggers /\ triggers' = triggers + 1
  /\ request' = [pc |-> "probe", job |-> job, forced |-> forced, locks |-> LocksOf(job)]
  /\ moved' = FALSE
  /\ UNCHANGED <<day, marker, wrapper, alive, refresh, probing, history, turned, quiet, kills>>

\* A held lock ends the request ("already running").
ProbeLock ==
  /\ request.pc = "probe"
  /\ IF Held(Head(request.locks))
       THEN request' = NoRequest /\ moved' = FALSE /\ UNCHANGED probing
       ELSE /\ request' = [request EXCEPT !.pc = "release"]
            /\ probing' = [probing EXCEPT !["start"] = Head(request.locks)]
            /\ UNCHANGED moved
  /\ UNCHANGED <<day, marker, wrapper, alive, refresh, history, turned, quiet, counters>>

ReleaseLock ==
  /\ request.pc = "release"
  /\ probing' = [probing EXCEPT !["start"] = "none"]
  /\ request' = [request EXCEPT !.locks = Tail(@),
                                !.pc = IF Len(request.locks) > 1 THEN "probe" ELSE "check"]
  /\ UNCHANGED <<day, marker, wrapper, alive, refresh, history, turned, moved, quiet, counters>>

Mut_NeverBlocked(job) == FALSE
BlockedReason(job) == job = "daily" /\ (Marked("daily") \/ Weekend(day))

CheckBlocked ==
  /\ request.pc = "check"
  /\ IF BlockedReason(request.job) /\ ~request.forced
       THEN request' = NoRequest /\ moved' = FALSE
       ELSE request' = [request EXCEPT !.pc = "launch"] /\ UNCHANGED moved
  /\ UNCHANGED <<day, marker, wrapper, alive, refresh, probing, history, turned, quiet, counters>>

\* systemd runs the script some time after the checks.
LaunchSkips == IF request.job = "daily" THEN Skips("daily", request.forced) ELSE Held("full")

Launch ==
  /\ request.pc = "launch"
  /\ request' = NoRequest
  /\ quiet' = (quiet \/ (LaunchSkips /\ ~moved))
  /\ moved' = FALSE
  /\ CASE LaunchSkips -> UNCHANGED <<wrapper, alive, begun, refresh>>
       [] ~LaunchSkips /\ request.job = "daily" ->
            Begin("daily", request.forced, "cockpit") /\ UNCHANGED refresh
       [] OTHER ->
            /\ refresh' = [pc |-> "phase", forced |-> request.forced, i |-> 1]
            /\ UNCHANGED <<wrapper, alive, begun>>
  /\ UNCHANGED <<day, marker, probing, failed, due, served, turned, counters>>

\* The panel's status request probes the same locks.
StatusTake(l) ==
  /\ probing["status"] = "none" /\ ~Held(l)
  /\ probing' = [probing EXCEPT !["status"] = l]
  /\ Move(l)
  /\ UNCHANGED <<day, marker, wrapper, alive, refresh, request, history, turned, quiet, counters>>

StatusRelease ==
  /\ probing["status"] # "none"
  /\ probing' = [probing EXCEPT !["status"] = "none"]
  /\ UNCHANGED <<day, marker, wrapper, alive, refresh, request, history, turned, moved, quiet,
                 counters>>

-----------------------------------------------------------------------------
(* Kills.                                                                  *)

Kill == kills < MaxKills /\ kills' = kills + 1

\* The wrapper's unit is stopped; its chain, in its own scope, runs on.
KillWrapper(c) ==
  /\ wrapper[c].pc # "none" /\ Kill
  /\ Exit(c)
  /\ UNCHANGED <<day, marker, alive, request, probing, history, turned, moved, quiet, triggers>>

KillRefresh ==
  /\ refresh.pc # "none" /\ Kill
  /\ refresh' = NoRefresh
  /\ wrapper' = [c \in Chain |-> IF wrapper[c].by = "refresh"
                                   THEN [wrapper[c] EXCEPT !.by = "timer"] ELSE wrapper[c]]
  /\ UNCHANGED <<day, marker, alive, request, probing, history, turned, moved, quiet, triggers>>

OrphanEnds(c) ==
  /\ wrapper[c].pc = "none" /\ alive[c] > 0
  /\ alive' = [alive EXCEPT ![c] = @ - 1]
  /\ UNCHANGED <<day, marker, wrapper, refresh, request, probing, history, turned, moved, quiet,
                 counters>>

Reboot ==
  /\ Kill
  /\ wrapper' = [c \in Chain |-> NoWrapper] /\ alive' = [c \in Chain |-> 0]
  /\ refresh' = NoRefresh /\ request' = NoRequest
  /\ probing' = [e \in DOMAIN probing |-> "none"] /\ moved' = FALSE
  /\ UNCHANGED <<day, marker, history, turned, quiet, triggers>>

-----------------------------------------------------------------------------
ChainStep(c) ==
  \/ Trigger(c) \/ ChainEndsWell(c) \/ ChainFails(c) \/ WriteMarker(c)
  \/ KillWrapper(c) \/ OrphanEnds(c)

CockpitStep ==
  \/ \E job \in {"daily", "full"}, forced \in BOOLEAN : Request(job, forced)
  \/ ProbeLock \/ ReleaseLock \/ CheckBlocked \/ Launch
  \/ (\E l \in Lock : StatusTake(l)) \/ StatusRelease

Next == NextDay \/ (\E c \in Chain : ChainStep(c)) \/ RefreshPhase \/ CockpitStep
        \/ KillRefresh \/ Reboot

Spec == Init /\ [][Next]_vars

-----------------------------------------------------------------------------
(* Properties.                                                             *)

TypeOK ==
  /\ day \in Stamps /\ triggers \in 0..MaxTriggers /\ kills \in 0..MaxKills
  /\ marker \in [Chain -> 0..MaxDay] /\ alive \in [Chain -> Nat]
  /\ wrapper \in [Chain -> [pc : {"none", "run", "mark"}, stamp : 0..MaxDay,
                            by : {"none", "timer", "refresh", "cockpit"}]]
  /\ refresh \in [pc : {"none", "phase", "wait"}, forced : BOOLEAN, i : 0..Len(Phases)]
  /\ request.pc \in {"none", "probe", "release", "check", "launch"}
  /\ probing \in [{"start", "status"} -> Lock \cup {"none"}]
  /\ due \subseteq Chain \X Stamps /\ served \subseteq Chain \X Stamps
  /\ turned \subseteq Chain \X Stamps \X {"run", "probe"} /\ moved \in BOOLEAN
  /\ \A c \in Chain : wrapper[c].by = "refresh" => refresh.pc = "wait" /\ Phases[refresh.i] = c

(* "A caught-up or duplicate slot can never run the chain twice": every    *)
(* unforced run of a slot but one follows a run of that slot that failed,  *)
(* or a kill; and no chain runs twice at the same time, not even forced,   *)
(* from the phone, or beside a chain that lost its wrapper.                *)
OnceASlot ==
  \A c \in Chain :
    /\ alive[c] <= 1
    /\ \A s \in Stamps : begun[c][s] <= 1 + failed[c][s] + kills

(* A slot whose trigger came is served once nothing of its chain runs any  *)
(* more, unless a run of it failed, something was killed, or the trigger   *)
(* met a lock that a run of another slot, or a probe, held.                *)
SlotServed ==
  \A t \in due :
    (~HeldByRun(t[1]) /\ kills = 0 /\ failed[t[1]][t[2]] = 0) =>
      t \in served \/ \E h \in {"run", "probe"} : <<t[1], t[2], h>> \in turned

(* A start the cockpit reported as started does something, unless somebody *)
(* took the job's lock, or the day changed, after its checks began.        *)
QuietStart == ~quiet

(* "A lost race costs nothing": no trigger is turned away by a probe.      *)
ProbeCostsNothing == \A t \in turned : t[3] # "probe"
=============================================================================
