----------------------------- MODULE SyncRunner -----------------------------
(***************************************************************************)
(* createSyncRunner of src/realtime/sync-runner.ts: it runs a flush when a *)
(* page starts, wakes up or is kicked, retries a failed one and polls      *)
(* after a completed one.                                                  *)
(*                                                                         *)
(* JavaScript runs to completion, so a step here is what happens between   *)
(* two awaits, cut once more wherever update() calls the subscribers: they *)
(* are code of the app and may call the runner from inside it.  The        *)
(* delays are left out: an armed timer may fire at any time.               *)
(***************************************************************************)
EXTENDS Integers, FiniteSets

CONSTANTS
    Runs,            \* the calls of run(): two, to see whether they overlap
    ListenerCalls,   \* what a subscriber may call: "kick", "stop", "start"
    Polls,           \* TRUE: pollIntervalMs is set
    MaxFailures,     \* the failures in a row that are told apart
    MaxTimers        \* the retry timers that are told apart

ASSUME RunnerAssumption ==
    /\ ListenerCalls \subseteq {"kick", "stop", "start"}
    /\ Polls \in BOOLEAN
    /\ MaxFailures \in Nat \ {0}
    /\ MaxTimers \in Nat \ {0}

VARIABLES
    stage,        \* where each call of run() stands
    active, again, inProgress,
    retryHeld,    \* `retry` holds the handle of an armed timer
    retryTimers,  \* how many retry timers are armed
    poll,         \* the poll timer is armed
    failures, nextRetryAt,    \* of the state; nextRetryAt: is it set
    visible, online,          \* of the page
    owed          \* history: a kick that no flush has started after

timers == <<retryHeld, retryTimers, poll, nextRetryAt>>
page == <<visible, online>>
vars == <<stage, active, again, inProgress, timers, failures, page, owed>>

(* "begun", "failed", "completed", "scheduled" and "ended": inside a call  *)
(* of the subscribers.  "flushing": it awaits the flush.                   *)
Windows == {"begun", "failed", "completed", "scheduled", "ended"}

InListener == \E r \in Runs : stage[r] \in Windows

Live == visible /\ online

Init ==
    /\ stage = [r \in Runs |-> "none"]
    /\ active = FALSE /\ again = FALSE /\ inProgress = FALSE
    /\ retryHeld = FALSE /\ retryTimers = 0 /\ poll = FALSE
    /\ failures = 0 /\ nextRetryAt = FALSE
    /\ visible \in BOOLEAN /\ online \in BOOLEAN
    /\ owed = FALSE

-----------------------------------------------------------------------------
(* Operations of the runner, as parts of the steps that call them.         *)

CancelRetry ==
    /\ retryTimers' = IF retryHeld THEN retryTimers - 1 ELSE retryTimers
    /\ retryHeld' = FALSE

CancelTimers == CancelRetry /\ poll' = FALSE /\ nextRetryAt' = FALSE

Run ==
    \E r \in Runs :
        /\ stage[r] = "none"
        /\ stage' = [stage EXCEPT ![r] = "begun"]
        /\ inProgress' = TRUE
        /\ CancelTimers
        /\ UNCHANGED again

(* The call during a run is remembered in `again`.                         *)
Kick ==
    /\ owed' = TRUE
    /\ \/ ~inProgress /\ Run
       \/ /\ inProgress
          /\ again' = TRUE
          /\ UNCHANGED <<stage, inProgress, timers>>

KickIfActive ==
    \/ active /\ Kick
    \/ ~active /\ UNCHANGED <<stage, again, inProgress, timers, owed>>

(* The end of the loop: once more, or the finally block.                   *)
LoopOrEnd(r) ==
    \/ /\ again /\ active
       /\ stage' = [stage EXCEPT ![r] = "flushing"]
       /\ again' = FALSE
       /\ owed' = FALSE
       /\ UNCHANGED inProgress
    \/ /\ ~(again /\ active)
       /\ stage' = [stage EXCEPT ![r] = "ended"]
       /\ again' = FALSE
       /\ inProgress' = FALSE
       /\ UNCHANGED owed

-----------------------------------------------------------------------------
(* What the app, a subscriber or the page does.                            *)

Start ==
    /\ ~active
    /\ active' = TRUE
    /\ Kick
    /\ UNCHANGED <<failures, page>>

Stop_FreesRun ==
    /\ active
    /\ active' = FALSE
    /\ CancelTimers
    /\ owed' = FALSE
    /\ inProgress' = FALSE
    /\ UNCHANGED <<stage, again, failures, page>>

Stop ==
    /\ active
    /\ active' = FALSE
    /\ CancelTimers
    /\ owed' = FALSE
    /\ UNCHANGED <<stage, again, inProgress, failures, page>>

(* kick() of the app, and the page's focus event.                          *)
KickCall ==
    /\ KickIfActive
    /\ UNCHANGED <<active, failures, page>>

AppCalls == ~InListener /\ (Start \/ Stop \/ KickCall)

ListenerCallsBack ==
    /\ InListener
    /\ \/ "start" \in ListenerCalls /\ Start
       \/ "stop" \in ListenerCalls /\ Stop
       \/ "kick" \in ListenerCalls /\ KickCall

(* visibilitychange to visible, pageshow and online kick an active runner. *)
PageReturns ==
    /\ ~InListener
    /\ \/ ~visible /\ visible' = TRUE /\ UNCHANGED online
       \/ ~online /\ online' = TRUE /\ UNCHANGED visible
    /\ KickIfActive
    /\ UNCHANGED <<active, failures>>

PageLeaves ==
    /\ ~InListener
    /\ \/ visible /\ visible' = FALSE /\ UNCHANGED online
       \/ online /\ online' = FALSE /\ UNCHANGED visible
    /\ UNCHANGED <<stage, active, again, inProgress, timers, failures, owed>>

-----------------------------------------------------------------------------
(* Timers.  The callback forgets `retry`, whichever timer it was.          *)

RetryFires ==
    /\ ~InListener
    /\ retryTimers > 0
    /\ \/ /\ ~(active /\ ~inProgress)
          /\ retryHeld' = FALSE
          /\ retryTimers' = retryTimers - 1
          /\ IF active THEN again' = TRUE /\ owed' = TRUE ELSE UNCHANGED <<again, owed>>
          /\ UNCHANGED <<stage, inProgress, poll, nextRetryAt>>
       \/ /\ active /\ ~inProgress
          /\ \E r \in Runs :
                /\ stage[r] = "none"
                /\ stage' = [stage EXCEPT ![r] = "begun"]
          /\ inProgress' = TRUE
          /\ owed' = TRUE
          /\ retryHeld' = FALSE
          /\ retryTimers' = retryTimers - 1
          /\ poll' = FALSE
          /\ nextRetryAt' = FALSE
          /\ UNCHANGED again
    /\ UNCHANGED <<active, failures, page>>

(* No poll is armed during a run (PollAtRest), so its kick begins one.     *)
PollFires ==
    /\ ~InListener
    /\ poll /\ ~inProgress
    /\ \/ active /\ Live /\ Kick
       \/ /\ ~(active /\ Live)
          /\ poll' = FALSE
          /\ UNCHANGED <<stage, again, inProgress, retryHeld, retryTimers, nextRetryAt, owed>>
    /\ UNCHANGED <<active, failures, page>>

-----------------------------------------------------------------------------
(* The steps of run().                                                     *)

FlushStarts(r) ==
    /\ stage[r] = "begun"
    /\ stage' = [stage EXCEPT ![r] = "flushing"]
    /\ again' = FALSE
    /\ owed' = FALSE
    /\ UNCHANGED <<active, inProgress, timers, failures, page>>

FlushSettles(r) ==
    /\ ~InListener
    /\ stage[r] = "flushing"
    /\ \/ /\ stage' = [stage EXCEPT ![r] = "completed"]
          /\ failures' = 0
       \/ /\ stage' = [stage EXCEPT ![r] = "failed"]
          /\ failures' = IF failures < MaxFailures THEN failures + 1 ELSE failures
    /\ UNCHANGED <<active, again, inProgress, timers, page, owed>>

SchedulesRetry_Stopped(r) ==
    /\ stage[r] = "failed"
    /\ ~again
    /\ retryTimers < MaxTimers
    /\ stage' = [stage EXCEPT ![r] = "scheduled"]
    /\ retryTimers' = retryTimers + 1
    /\ retryHeld' = TRUE
    /\ nextRetryAt' = TRUE
    /\ UNCHANGED <<active, again, inProgress, poll, failures, page, owed>>

SchedulesRetry(r) ==
    /\ stage[r] = "failed"
    /\ ~again /\ active
    /\ retryTimers < MaxTimers
    /\ stage' = [stage EXCEPT ![r] = "scheduled"]
    /\ retryTimers' = retryTimers + 1
    /\ retryHeld' = TRUE
    /\ nextRetryAt' = TRUE
    /\ UNCHANGED <<active, again, inProgress, poll, failures, page, owed>>

RetryScheduled(r) ==
    /\ stage[r] = "scheduled"
    /\ LoopOrEnd(r)
    /\ UNCHANGED <<active, timers, failures, page>>

SchedulesPoll(r) ==
    /\ stage[r] = "completed"
    /\ ~again /\ active
    /\ poll' = (Polls /\ Live)
    /\ LoopOrEnd(r)
    /\ UNCHANGED <<active, retryHeld, retryTimers, nextRetryAt, failures, page>>

SchedulesNothing(r) ==
    /\ stage[r] \in {"failed", "completed"}
    /\ again \/ ~active
    /\ LoopOrEnd(r)
    /\ UNCHANGED <<active, timers, failures, page>>

Returns(r) ==
    /\ stage[r] = "ended"
    /\ stage' = [stage EXCEPT ![r] = "none"]
    /\ UNCHANGED <<active, again, inProgress, timers, failures, page, owed>>

RunStep(r) ==
    \/ FlushStarts(r) \/ SchedulesRetry(r) \/ RetryScheduled(r)
    \/ SchedulesPoll(r) \/ SchedulesNothing(r) \/ Returns(r)

Next ==
    \/ AppCalls \/ ListenerCallsBack
    \/ PageReturns \/ PageLeaves
    \/ RetryFires \/ PollFires
    \/ \E r \in Runs : RunStep(r) \/ FlushSettles(r)

Spec == Init /\ [][Next]_vars

(* Synchronous code goes on, a flush settles and a timer fires.            *)
Fairness ==
    /\ \A r \in Runs : WF_vars(RunStep(r)) /\ WF_vars(FlushSettles(r))
    /\ WF_vars(RetryFires)
    /\ WF_vars(PollFires)

FairSpec == Spec /\ Fairness

-----------------------------------------------------------------------------
Flushing == {r \in Runs : stage[r] = "flushing"}

(* The state is well formed.                                               *)
TypeOK ==
    /\ stage \in [Runs -> Windows \cup {"none", "flushing"}]
    /\ active \in BOOLEAN /\ again \in BOOLEAN /\ inProgress \in BOOLEAN
    /\ retryHeld \in BOOLEAN /\ retryTimers \in 0 .. MaxTimers
    /\ poll \in BOOLEAN /\ nextRetryAt \in BOOLEAN
    /\ failures \in 0 .. MaxFailures
    /\ visible \in BOOLEAN /\ online \in BOOLEAN /\ owed \in BOOLEAN

(* "One run at a time": no two flushes overlap, whatever subscribers, the  *)
(* page and a stop followed by a start do during a run.                    *)
OneFlushAtATime == \A r, s \in Flushing : r = s

(* A kick during a run is never forgotten: once no run is on, each kick of *)
(* a runner that was not stopped since has had a flush that started later. *)
NoKickLost == owed => inProgress

(* Runs neither overlap nor leave a kick behind.                           *)
RunnerSafe == OneFlushAtATime /\ NoKickLost

(* "Exactly one more run": a flush starts only for a kick, a wake-up or a  *)
(* timer that no earlier flush has answered (or in a run that was stopped  *)
(* before its first flush).                                                *)
NoSpuriousFlushStep ==
    \A r \in Runs : stage[r] # "flushing" /\ stage'[r] = "flushing" => owed \/ ~active

NoSpuriousFlush == [][NoSpuriousFlushStep]_vars

(* "Every run restarts the interval": no poll is armed while a run is on.  *)
PollAtRest == poll => ~inProgress /\ active

(* "stop() leaves nothing behind": no timer is armed once it is stopped.   *)
StopLeavesNothing == ~active => retryTimers = 0 /\ ~poll

(* What the screen shows as "retrying at" is a timer that is really armed  *)
(* after a flush that really failed.                                       *)
ShownRetryIsArmed == nextRetryAt => retryHeld /\ failures > 0

(* A failed flush is followed by another, unless the runner is stopped.    *)
FailureIsRetried == failures > 0 /\ active ~> Flushing # {} \/ ~active

(* While the page is shown and online, a started runner never falls asleep.*)
PollsWhileLive == Polls /\ <>[](active /\ Live) => []<>(Flushing # {})
=============================================================================
