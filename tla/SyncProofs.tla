----------------------------- MODULE SyncProofs -----------------------------
(***************************************************************************)
(* Theorems about when the client sends and fetches.  SyncRunner, for any  *)
(* number of calls of run(): the first three hold whatever the subscribers *)
(* do, the last two when they may stop and start the runner and not kick   *)
(* it.  ClientTransport, for any calls, changes and length of the chain:   *)
(* the first holds for every app, the others for one that connects and     *)
(* resumes when no reconnect is due, and stops when none awaits its gate.  *)
(***************************************************************************)
EXTENDS SyncRunner, ClientTransport, SequenceTheorems, TLAPS

(* The stages between the lock `inProgress` and the finally block.         *)
Running == {"begun", "flushing", "failed", "completed", "scheduled"}

Busy == {r \in Runs : stage[r] \in Running}

(* A handle that is held is the handle of an armed timer.                  *)
HeldIsArmed == retryHeld => retryTimers > 0

TypeInv == TypeOK /\ HeldIsArmed

(* `inProgress` is set exactly while one call of run() is at work.         *)
OneBusy ==
    /\ \A r, s \in Busy : r = s
    /\ inProgress <=> Busy # {}

(* A kick that waits is remembered by `again`, or the run has not flushed. *)
KickRemembered ==
    owed => /\ inProgress /\ active
            /\ again \/ \E r \in Runs : stage[r] = "begun"

RunInv == TypeInv /\ OneBusy /\ KickRemembered /\ PollAtRest

-----------------------------------------------------------------------------
LEMMA TypeInit == Init => TypeInv
<1> SUFFICES ASSUME Init PROVE TypeInv
  OBVIOUS
<1>1. stage \in [Runs -> Windows \cup {"none", "flushing"}]
  BY DEF Init
<1>2. failures \in 0 .. MaxFailures /\ retryTimers \in 0 .. MaxTimers
  BY RunnerAssumption DEF RunnerAssumption, Init
<1>3. ~retryHeld /\ retryHeld \in BOOLEAN
  BY DEF Init
<1> QED
  BY <1>1, <1>2, <1>3 DEF Init, TypeInv, TypeOK, HeldIsArmed

(* Run and LoopOrEnd, which most steps are made of, keep the types.        *)
LEMMA CancelRetryTypes ==
  ASSUME TypeInv, CancelRetry
  PROVE  retryHeld' = FALSE /\ retryTimers' \in 0 .. MaxTimers
  BY RunnerAssumption
     DEF RunnerAssumption, TypeInv, TypeOK, HeldIsArmed, CancelRetry

LEMMA KickTypes ==
  ASSUME TypeInv, Kick, UNCHANGED <<failures>>, active' \in BOOLEAN,
         visible' \in BOOLEAN, online' \in BOOLEAN
  PROVE  TypeInv'
<1>1. CASE ~inProgress /\ Run
  <2>1. retryHeld' = FALSE /\ retryTimers' \in 0 .. MaxTimers
    BY <1>1, CancelRetryTypes DEF Run, CancelTimers
  <2> QED
    BY <1>1, <2>1 DEF Kick, Run, CancelTimers, TypeInv, TypeOK, HeldIsArmed, Windows
<1>2. CASE inProgress
  BY <1>2 DEF Kick, timers, TypeInv, TypeOK, HeldIsArmed
<1> QED
  BY <1>1, <1>2 DEF Kick

LEMMA TypeStep == TypeInv /\ [Next]_vars => TypeInv'
<1> SUFFICES ASSUME TypeInv, [Next]_vars PROVE TypeInv'
  OBVIOUS
<1> USE RunnerAssumption DEF RunnerAssumption
<1>1. CASE Start
  BY <1>1, KickTypes DEF Start, page, TypeInv, TypeOK
<1>2. CASE Stop
  <2>1. retryHeld' = FALSE /\ retryTimers' \in 0 .. MaxTimers
    BY <1>2, CancelRetryTypes DEF Stop, CancelTimers
  <2> QED
    BY <1>2, <2>1 DEF Stop, CancelTimers, page, TypeInv, TypeOK, HeldIsArmed
<1>3. CASE KickCall
  <2>1. CASE active
    BY <1>3, <2>1, KickTypes DEF KickCall, KickIfActive, page, TypeInv, TypeOK
  <2>2. CASE ~active
    BY <1>3, <2>2 DEF KickCall, KickIfActive, timers, page, TypeInv, TypeOK, HeldIsArmed
  <2> QED
    BY <2>1, <2>2
<1>4. CASE PageReturns
  <2>1. visible' \in BOOLEAN /\ online' \in BOOLEAN
    BY <1>4 DEF PageReturns, TypeInv, TypeOK
  <2>2. CASE active
    BY <1>4, <2>1, <2>2, KickTypes DEF PageReturns, KickIfActive, TypeInv, TypeOK
  <2>3. CASE ~active
    BY <1>4, <2>1, <2>3
       DEF PageReturns, KickIfActive, timers, TypeInv, TypeOK, HeldIsArmed
  <2> QED
    BY <2>2, <2>3
<1>5. CASE PageLeaves
  BY <1>5 DEF PageLeaves, timers, TypeInv, TypeOK, HeldIsArmed
<1>6. CASE RetryFires
  <2>1. retryTimers' \in 0 .. MaxTimers
    BY <1>6 DEF RetryFires, TypeInv, TypeOK
  <2>2. ~retryHeld' /\ retryHeld' \in BOOLEAN
    BY <1>6 DEF RetryFires
  <2>3. stage' \in [Runs -> Windows \cup {"none", "flushing"}]
    BY <1>6 DEF RetryFires, Windows, TypeInv, TypeOK
  <2>4. again' \in BOOLEAN /\ inProgress' \in BOOLEAN /\ owed' \in BOOLEAN
    BY <1>6 DEF RetryFires, TypeInv, TypeOK
  <2>5. poll' \in BOOLEAN /\ nextRetryAt' \in BOOLEAN
    BY <1>6 DEF RetryFires, TypeInv, TypeOK
  <2> QED
    BY <1>6, <2>1, <2>2, <2>3, <2>4, <2>5
       DEF RetryFires, page, TypeInv, TypeOK, HeldIsArmed
<1>7. CASE PollFires
  <2>1. CASE Kick
    BY <1>7, <2>1, KickTypes DEF PollFires, page, TypeInv, TypeOK
  <2>2. CASE ~(active /\ Live)
    <3>1. /\ poll' = FALSE
          /\ UNCHANGED <<stage, again, inProgress, retryHeld, retryTimers, nextRetryAt, owed>>
          /\ UNCHANGED <<active, failures, page>>
      BY <1>7, <2>2 DEF PollFires
    <3> QED
      BY <3>1 DEF page, TypeInv, TypeOK, HeldIsArmed
  <2> QED
    BY <1>7, <2>1, <2>2 DEF PollFires
<1>8. ASSUME NEW r \in Runs, RunStep(r) PROVE TypeInv'
  <2>1. CASE FlushStarts(r)
    BY <2>1 DEF FlushStarts, timers, page, TypeInv, TypeOK, HeldIsArmed, Windows
  <2>2. CASE SchedulesRetry(r)
    BY <2>2 DEF SchedulesRetry, page, TypeInv, TypeOK, HeldIsArmed, Windows
  <2>3. CASE RetryScheduled(r)
    BY <2>3
       DEF RetryScheduled, LoopOrEnd, timers, page, TypeInv, TypeOK, HeldIsArmed, Windows
  <2>4. CASE SchedulesPoll(r)
    <3>1. poll' \in BOOLEAN
      BY <2>4 DEF SchedulesPoll, Live, TypeInv, TypeOK
    <3> QED
      BY <2>4, <3>1
         DEF SchedulesPoll, LoopOrEnd, page, TypeInv, TypeOK, HeldIsArmed, Windows
  <2>5. CASE SchedulesNothing(r)
    BY <2>5
       DEF SchedulesNothing, LoopOrEnd, timers, page, TypeInv, TypeOK, HeldIsArmed, Windows
  <2>6. CASE Returns(r)
    BY <2>6 DEF Returns, timers, page, TypeInv, TypeOK, HeldIsArmed, Windows
  <2> QED
    BY <1>8, <2>1, <2>2, <2>3, <2>4, <2>5, <2>6 DEF RunStep
<1>9. ASSUME NEW r \in Runs, FlushSettles(r) PROVE TypeInv'
  BY <1>9 DEF FlushSettles, timers, page, TypeInv, TypeOK, HeldIsArmed, Windows
<1>10. CASE UNCHANGED vars
  BY <1>10 DEF vars, timers, page, TypeInv, TypeOK, HeldIsArmed
<1> QED
  BY <1>1, <1>2, <1>3, <1>4, <1>5, <1>6, <1>7, <1>8, <1>9, <1>10
     DEF Next, AppCalls, ListenerCallsBack

(* The runner's variables keep their types.                                *)
THEOREM RunnerTyping == Spec => []TypeOK
<1>1. TypeInv => TypeOK
  BY DEF TypeInv
<1> QED
  BY <1>1, TypeInit, TypeStep, PTL DEF Spec

-----------------------------------------------------------------------------
(* The ways a step moves the calls of run(): one begins, goes on or ends.  *)
LEMMA RunBegins ==
  ASSUME TypeInv, OneBusy, NEW r \in Runs, ~inProgress, inProgress' = TRUE,
         stage' = [stage EXCEPT ![r] = "begun"]
  PROVE  OneBusy' /\ stage'[r] = "begun"
<1>1. Busy = {}
  BY DEF OneBusy
<1>2. stage'[r] = "begun"
  BY DEF TypeInv, TypeOK
<1>3. Busy' = {r}
  BY <1>1 DEF Busy, Running, TypeInv, TypeOK
<1> QED
  BY <1>2, <1>3 DEF OneBusy

LEMMA RunGoesOn ==
  ASSUME TypeInv, OneBusy, NEW r \in Busy, NEW s \in Running,
         stage' = [stage EXCEPT ![r] = s], inProgress' = inProgress
  PROVE  OneBusy'
<1>1. Busy' = Busy
  BY DEF Busy, Running, TypeInv, TypeOK
<1> QED
  BY <1>1 DEF OneBusy

LEMMA RunEnds ==
  ASSUME TypeInv, OneBusy, NEW r \in Busy,
         stage' = [stage EXCEPT ![r] = "ended"], inProgress' = FALSE
  PROVE  OneBusy'
<1>1. Busy = {r}
  BY DEF OneBusy
<1>2. Busy' = {}
  BY <1>1 DEF Busy, Running, TypeInv, TypeOK
<1> QED
  BY <1>2 DEF OneBusy

LEMMA RunReturns ==
  ASSUME TypeInv, OneBusy, NEW r \in Runs, stage[r] = "ended",
         stage' = [stage EXCEPT ![r] = "none"], inProgress' = inProgress
  PROVE  OneBusy'
<1>1. Busy' = Busy
  BY DEF Busy, Running, TypeInv, TypeOK
<1> QED
  BY <1>1 DEF OneBusy

LEMMA RunsStay ==
  ASSUME OneBusy, stage' = stage, inProgress' = inProgress
  PROVE  OneBusy'
  BY DEF OneBusy, Busy

(* A kick of an active runner begins a run or is remembered.               *)
LEMMA KickKeeps ==
  ASSUME RunInv, Kick, active' = TRUE
  PROVE  OneBusy' /\ KickRemembered' /\ PollAtRest'
<1> USE DEF RunInv
<1>1. CASE ~inProgress /\ Run
  <2>1. PICK r \in Runs : stage' = [stage EXCEPT ![r] = "begun"]
    BY <1>1 DEF Run
  <2>2. inProgress' = TRUE /\ poll' = FALSE
    BY <1>1 DEF Run, CancelTimers
  <2>3. OneBusy' /\ stage'[r] = "begun"
    BY <1>1, <2>1, <2>2, RunBegins
  <2>4. KickRemembered'
    BY <2>2, <2>3 DEF KickRemembered
  <2> QED
    BY <2>2, <2>3, <2>4 DEF PollAtRest
<1>2. CASE inProgress
  <2>1. /\ stage' = stage /\ inProgress' = inProgress
        /\ again' = TRUE /\ poll' = poll
    BY <1>2 DEF Kick, timers
  <2>2. OneBusy'
    BY <2>1, RunsStay
  <2>3. KickRemembered'
    BY <1>2, <2>1 DEF KickRemembered
  <2> QED
    BY <1>2, <2>1, <2>2, <2>3 DEF PollAtRest
<1> QED
  BY <1>1, <1>2 DEF Kick

LEMMA KickIfActiveKeeps ==
  ASSUME RunInv, KickIfActive, active' = active
  PROVE  OneBusy' /\ KickRemembered' /\ PollAtRest'
<1>1. CASE active
  BY <1>1, KickKeeps DEF KickIfActive, RunInv, TypeInv, TypeOK
<1>2. CASE ~active
  BY <1>2, RunsStay
     DEF KickIfActive, timers, RunInv, KickRemembered, PollAtRest
<1> QED
  BY <1>1, <1>2

(* The end of a round: the next flush begins, or the run ends and owes no  *)
(* kick, because a call that has flushed is not at "begun".                *)
LEMMA LoopKeeps ==
  ASSUME RunInv, NEW r \in Busy, stage[r] # "begun", LoopOrEnd(r),
         active' = active,
         poll' = poll \/ (poll' = (Polls /\ Live) /\ ~again /\ active)
  PROVE  OneBusy' /\ KickRemembered' /\ PollAtRest'
<1> USE DEF RunInv
<1>1. inProgress
  BY DEF OneBusy
<1>2. CASE again /\ active
  <2>1. /\ stage' = [stage EXCEPT ![r] = "flushing"]
        /\ inProgress' = inProgress /\ ~owed'
    BY <1>2 DEF LoopOrEnd
  <2>2. OneBusy'
    BY <2>1, RunGoesOn DEF Running
  <2> QED
    BY <1>1, <1>2, <2>1, <2>2 DEF KickRemembered, PollAtRest
<1>3. CASE ~(again /\ active)
  <2>1. /\ stage' = [stage EXCEPT ![r] = "ended"]
        /\ inProgress' = FALSE /\ owed' = owed
    BY <1>3 DEF LoopOrEnd
  <2>2. OneBusy'
    BY <2>1, RunEnds
  <2>3. \A s \in Runs : stage[s] # "begun"
    BY DEF OneBusy, Busy, Running
  <2>4. ~owed
    BY <1>3, <2>3 DEF KickRemembered
  <2>5. PollAtRest'
    BY <1>1, <2>1 DEF PollAtRest
  <2> QED
    BY <2>1, <2>2, <2>4, <2>5 DEF KickRemembered
<1> QED
  BY <1>2, <1>3

-----------------------------------------------------------------------------
LEMMA RunInit == Init => RunInv
<1> SUFFICES ASSUME Init PROVE RunInv
  OBVIOUS
<1>1. TypeInv
  BY TypeInit
<1>2. Busy = {}
  BY DEF Init, Busy, Running
<1> QED
  BY <1>1, <1>2 DEF Init, RunInv, OneBusy, KickRemembered, PollAtRest

LEMMA RunInvStep == RunInv /\ [Next]_vars => RunInv'
<1> SUFFICES ASSUME RunInv, [Next]_vars
             PROVE  OneBusy' /\ KickRemembered' /\ PollAtRest'
  BY TypeStep DEF RunInv
<1> USE DEF RunInv
<1>1. CASE Start
  BY <1>1, KickKeeps DEF Start
<1>2. CASE Stop
  BY <1>2, RunsStay DEF Stop, CancelTimers, KickRemembered, PollAtRest
<1>3. CASE KickCall
  BY <1>3, KickIfActiveKeeps DEF KickCall
<1>4. CASE PageReturns
  BY <1>4, KickIfActiveKeeps DEF PageReturns
<1>5. CASE PageLeaves
  BY <1>5, RunsStay DEF PageLeaves, timers, KickRemembered, PollAtRest
<1>6. CASE RetryFires
  <2>1. CASE active /\ ~inProgress
    <3>1. PICK r \in Runs : stage' = [stage EXCEPT ![r] = "begun"]
      BY <1>6, <2>1 DEF RetryFires
    <3>2. inProgress' = TRUE /\ poll' = FALSE /\ active' = active
      BY <1>6, <2>1 DEF RetryFires
    <3>3. OneBusy' /\ stage'[r] = "begun"
      BY <2>1, <3>1, <3>2, RunBegins
    <3> QED
      BY <2>1, <3>2, <3>3 DEF KickRemembered, PollAtRest
  <2>2. CASE ~(active /\ ~inProgress)
    <3>1. /\ stage' = stage /\ inProgress' = inProgress /\ poll' = poll
          /\ active' = active
          /\ IF active THEN again' = TRUE /\ owed' = TRUE ELSE UNCHANGED <<again, owed>>
      BY <1>6, <2>2 DEF RetryFires
    <3>2. OneBusy'
      BY <3>1, RunsStay
    <3>3. KickRemembered'
      BY <2>2, <3>1 DEF KickRemembered, TypeInv, TypeOK
    <3> QED
      BY <3>1, <3>2, <3>3 DEF PollAtRest
  <2> QED
    BY <2>1, <2>2
<1>7. CASE PollFires
  <2>1. CASE active /\ Kick
    <3>1. active' = TRUE
      BY <1>7, <2>1 DEF PollFires, TypeInv, TypeOK
    <3> QED
      BY <2>1, <3>1, KickKeeps
  <2>2. CASE ~(active /\ Live)
    <3>1. /\ poll' = FALSE
          /\ UNCHANGED <<stage, again, inProgress, active, owed>>
      BY <1>7, <2>2 DEF PollFires
    <3> QED
      BY <3>1, RunsStay DEF KickRemembered, PollAtRest
  <2> QED
    BY <1>7, <2>1, <2>2 DEF PollFires
<1>8. ASSUME NEW r \in Runs, RunStep(r)
      PROVE  OneBusy' /\ KickRemembered' /\ PollAtRest'
  <2>1. CASE FlushStarts(r)
    <3>1. r \in Busy
      BY <2>1 DEF FlushStarts, Busy, Running
    <3>2. OneBusy'
      BY <2>1, <3>1, RunGoesOn DEF FlushStarts, Running
    <3> QED
      BY <2>1, <3>2 DEF FlushStarts, timers, KickRemembered, PollAtRest
  <2>2. CASE SchedulesRetry(r)
    <3>1. r \in Busy /\ stage[r] # "begun"
      BY <2>2 DEF SchedulesRetry, Busy, Running
    <3>2. OneBusy'
      BY <2>2, <3>1, RunGoesOn DEF SchedulesRetry, Running
    <3>3. ~owed
      BY <2>2, <3>1 DEF SchedulesRetry, KickRemembered, OneBusy, Busy, Running
    <3> QED
      BY <2>2, <3>2, <3>3 DEF SchedulesRetry, KickRemembered, PollAtRest
  <2>3. CASE RetryScheduled(r)
    <3>1. r \in Busy /\ stage[r] # "begun"
      BY <2>3 DEF RetryScheduled, Busy, Running
    <3>2. LoopOrEnd(r) /\ active' = active /\ poll' = poll
      BY <2>3 DEF RetryScheduled, timers
    <3> QED
      BY <3>1, <3>2, LoopKeeps
  <2>4. CASE SchedulesPoll(r)
    <3>1. r \in Busy /\ stage[r] # "begun"
      BY <2>4 DEF SchedulesPoll, Busy, Running
    <3>2. poll' = (Polls /\ Live) /\ ~again /\ active /\ LoopOrEnd(r) /\ active' = active
      BY <2>4 DEF SchedulesPoll
    <3> QED
      BY <3>1, <3>2, LoopKeeps
  <2>5. CASE SchedulesNothing(r)
    <3>1. r \in Busy /\ stage[r] # "begun"
      BY <2>5 DEF SchedulesNothing, Busy, Running
    <3>2. LoopOrEnd(r) /\ active' = active /\ poll' = poll
      BY <2>5 DEF SchedulesNothing, timers
    <3> QED
      BY <3>1, <3>2, LoopKeeps
  <2>6. CASE Returns(r)
    <3>1. OneBusy'
      BY <2>6, RunReturns DEF Returns
    <3>2. KickRemembered'
      BY <2>6 DEF Returns, KickRemembered, TypeInv, TypeOK
    <3> QED
      BY <2>6, <3>1, <3>2 DEF Returns, timers, PollAtRest
  <2> QED
    BY <1>8, <2>1, <2>2, <2>3, <2>4, <2>5, <2>6 DEF RunStep
<1>9. ASSUME NEW r \in Runs, FlushSettles(r)
      PROVE  OneBusy' /\ KickRemembered' /\ PollAtRest'
  <2>1. r \in Busy /\ stage[r] # "begun"
    BY <1>9 DEF FlushSettles, Busy, Running
  <2>2. PICK s \in {"completed", "failed"} : stage' = [stage EXCEPT ![r] = s]
    BY <1>9 DEF FlushSettles
  <2>3. OneBusy'
    BY <1>9, <2>1, <2>2, RunGoesOn DEF FlushSettles, Running
  <2>4. \A q \in Runs : stage[q] # "begun"
    BY <2>1 DEF OneBusy, Busy, Running
  <2> QED
    BY <1>9, <2>3, <2>4 DEF FlushSettles, timers, KickRemembered, PollAtRest
<1>10. CASE UNCHANGED vars
  BY <1>10, RunsStay DEF vars, timers, KickRemembered, PollAtRest
<1> QED
  BY <1>1, <1>2, <1>3, <1>4, <1>5, <1>6, <1>7, <1>8, <1>9, <1>10
     DEF Next, AppCalls, ListenerCallsBack

LEMMA RunAlways == Spec => []RunInv
  BY RunInit, RunInvStep, PTL DEF Spec

(* No two flushes overlap, and no kick of a runner that is not stopped is  *)
(* forgotten, whatever subscribers do during a run.                        *)
THEOREM RunnerIsSafe == Spec => []RunnerSafe
<1>1. RunInv => OneFlushAtATime
  BY DEF RunInv, OneBusy, OneFlushAtATime, Flushing, Busy, Running
<1>2. RunInv => NoKickLost
  BY DEF RunInv, KickRemembered, NoKickLost
<1>3. RunInv => RunnerSafe
  BY <1>1, <1>2 DEF RunnerSafe
<1> QED
  BY <1>3, RunAlways, PTL

(* A flush that is to come is owed, unless the runner was stopped.         *)
ComesOwed == active => (again => owed) /\ (\A r \in Runs : stage[r] = "begun" => owed)

LEMMA ComesOwedStart == Init => ComesOwed
BY DEF Init, ComesOwed

LEMMA KickOwes == Kick => owed'
BY DEF Kick

(* One call is at work, so none is about to begin once it flushes.         *)
LEMMA LoopOwes ==
  ASSUME RunInv, ComesOwed, active' = active, NEW r \in Runs, r \in Busy, stage[r] # "begun",
         LoopOrEnd(r)
  PROVE  /\ ComesOwed'
         /\ \A q \in Runs : stage[q] # "flushing" /\ stage'[q] = "flushing" => owed
<1>1. stage \in [Runs -> Windows \cup {"none", "flushing"}]
  BY DEF RunInv, TypeInv, TypeOK
<1>2. \A q \in Runs : stage[q] # "begun"
  BY DEF RunInv, OneBusy, Busy, Running
<1>3. /\ again' = FALSE
      /\ \A q \in Runs \ {r} : stage'[q] = stage[q]
      /\ \/ again /\ active
         \/ stage'[r] = "ended"
      /\ stage'[r] # "begun"
  BY <1>1 DEF LoopOrEnd
<1>4. ComesOwed'
  BY <1>2, <1>3 DEF ComesOwed
<1>5. ASSUME NEW q \in Runs, stage[q] # "flushing", stage'[q] = "flushing" PROVE owed
  BY <1>3, <1>5 DEF ComesOwed
<1> QED
  BY <1>4, <1>5

LEMMA FlushesOwe ==
  ASSUME RunInv, ComesOwed, [Next]_vars
  PROVE  ComesOwed' /\ NoSpuriousFlushStep
<1> DEFINE NoneFlushes == \A q \in Runs : stage'[q] = "flushing" => stage[q] = "flushing"
<1>0. stage \in [Runs -> Windows \cup {"none", "flushing"}]
  BY DEF RunInv, TypeInv, TypeOK
<1>1. ASSUME owed', NoneFlushes PROVE ComesOwed' /\ NoSpuriousFlushStep
  BY <1>1 DEF ComesOwed, NoSpuriousFlushStep
<1>2. ASSUME ~active', NoneFlushes PROVE ComesOwed' /\ NoSpuriousFlushStep
  BY <1>2 DEF ComesOwed, NoSpuriousFlushStep
<1>3. ASSUME UNCHANGED <<stage, active, again, owed>> PROVE ComesOwed' /\ NoSpuriousFlushStep
  BY <1>3 DEF ComesOwed, NoSpuriousFlushStep
<1>4. Run => NoneFlushes
  BY <1>0 DEF Run
<1>5. Kick => NoneFlushes
  BY <1>4 DEF Kick
<1>6. CASE UNCHANGED vars
  BY <1>3, <1>6 DEF vars
<1>7. CASE Start
  BY <1>1, <1>5, <1>7, KickOwes DEF Start
<1>8. CASE Stop
  BY <1>2, <1>8 DEF Stop
<1>9. ASSUME KickIfActive, active' = active PROVE ComesOwed' /\ NoSpuriousFlushStep
  <2>1. CASE active /\ Kick
    BY <1>1, <1>5, <2>1, KickOwes
  <2>2. CASE ~active /\ UNCHANGED <<stage, again, inProgress, timers, owed>>
    BY <1>3, <1>9, <2>2
  <2> QED
    BY <1>9, <2>1, <2>2 DEF KickIfActive
<1>10. CASE KickCall
  BY <1>9, <1>10 DEF KickCall
<1>11. CASE PageReturns
  BY <1>9, <1>11 DEF PageReturns
<1>12. CASE PageLeaves
  BY <1>3, <1>12 DEF PageLeaves
<1>13. CASE RetryFires
  <2>1. active' = active /\ NoneFlushes
    BY <1>0, <1>13 DEF RetryFires
  <2>2. active => owed'
    BY <1>13 DEF RetryFires
  <2> QED
    BY <1>1, <1>2, <2>1, <2>2
<1>14. CASE PollFires
  <2>1. CASE Kick
    BY <1>1, <1>5, <2>1, KickOwes
  <2>2. CASE UNCHANGED <<stage, active, again, owed>>
    BY <1>3, <2>2
  <2> QED
    BY <1>14, <2>1, <2>2 DEF PollFires
<1>15. ASSUME NEW r \in Runs, FlushStarts(r) PROVE ComesOwed' /\ NoSpuriousFlushStep
  <2>1. /\ stage[r] = "begun" /\ stage' = [stage EXCEPT ![r] = "flushing"]
        /\ again' = FALSE /\ active' = active
    BY <1>15 DEF FlushStarts
  <2>2. \A q \in Runs \ {r} : stage[q] # "begun"
    BY <2>1 DEF RunInv, OneBusy, Busy, Running
  <2>3. stage'[r] = "flushing" /\ \A q \in Runs \ {r} : stage'[q] = stage[q]
    BY <1>0, <2>1
  <2>4. ComesOwed'
    BY <2>1, <2>2, <2>3 DEF ComesOwed
  <2>5. NoSpuriousFlushStep
    BY <2>1, <2>3 DEF ComesOwed, NoSpuriousFlushStep
  <2> QED
    BY <2>4, <2>5
<1>16. ASSUME NEW r \in Runs, NEW s \in {"completed", "failed", "scheduled", "none"},
              stage' = [stage EXCEPT ![r] = s], UNCHANGED <<active, again, owed>>
       PROVE  ComesOwed' /\ NoSpuriousFlushStep
  <2>1. stage'[r] = s /\ \A q \in Runs \ {r} : stage'[q] = stage[q]
    BY <1>0, <1>16
  <2>2. ComesOwed'
    BY <1>16, <2>1 DEF ComesOwed
  <2>3. NoSpuriousFlushStep
    BY <2>1 DEF NoSpuriousFlushStep
  <2> QED
    BY <2>2, <2>3
<1>17. ASSUME NEW r \in Runs, FlushSettles(r) \/ SchedulesRetry(r) \/ Returns(r)
       PROVE  ComesOwed' /\ NoSpuriousFlushStep
  <2>1. /\ UNCHANGED <<active, again, owed>>
        /\ \E s \in {"completed", "failed", "scheduled", "none"} : stage' = [stage EXCEPT ![r] = s]
    BY <1>17 DEF FlushSettles, SchedulesRetry, Returns
  <2> QED
    BY <1>16, <2>1
<1>18. ASSUME NEW r \in Runs, RetryScheduled(r) \/ SchedulesPoll(r) \/ SchedulesNothing(r)
       PROVE  ComesOwed' /\ NoSpuriousFlushStep
  <2>1. /\ stage[r] \in {"scheduled", "completed", "failed"} /\ LoopOrEnd(r) /\ active' = active
    BY <1>18 DEF RetryScheduled, SchedulesPoll, SchedulesNothing
  <2>2. r \in Busy /\ stage[r] # "begun"
    BY <2>1 DEF Busy, Running
  <2> QED
    BY <2>1, <2>2, LoopOwes DEF NoSpuriousFlushStep
<1> QED
  BY <1>6, <1>7, <1>8, <1>10, <1>11, <1>12, <1>13, <1>14, <1>15, <1>17, <1>18
     DEF Next, AppCalls, ListenerCallsBack, RunStep

(* "Exactly one more run": a flush starts only for a kick, a wake-up or a  *)
(* timer that no earlier flush has answered, or in a run that was stopped  *)
(* before its first flush.                                                 *)
THEOREM FlushesAreOwed == Spec => NoSpuriousFlush
<1>1. RunInv /\ ComesOwed /\ [Next]_vars => ComesOwed'
  BY FlushesOwe
<1>2. RunInv /\ ComesOwed /\ [Next]_vars => [NoSpuriousFlushStep]_vars
  BY FlushesOwe
<1>3. Spec => [](RunInv /\ ComesOwed)
  BY <1>1, ComesOwedStart, RunAlways, PTL DEF Spec
<1> QED
  BY <1>2, <1>3, PTL DEF Spec, NoSpuriousFlush

(* "Every run restarts the interval": no poll is armed while a run is on,  *)
(* whatever subscribers do.                                                *)
THEOREM PollsRest == Spec => []PollAtRest
<1>1. RunInv => PollAtRest
  BY DEF RunInv
<1> QED
  BY <1>1, RunAlways, PTL

-----------------------------------------------------------------------------
(* The timers of a runner that no subscriber kicks: one retry timer at     *)
(* most, none of a stopped runner and none while a flush is on.            *)
OneTimer ==
    /\ retryTimers = IF retryHeld THEN 1 ELSE 0
    /\ retryHeld => active

AtWork == {"begun", "flushing", "failed", "completed"}

NoneAtWork ==
    retryHeld => \A r \in Runs :
                   /\ stage[r] \notin AtWork
                   /\ stage[r] = "scheduled" => ~again

Failed == \A r \in Runs : stage[r] = "failed" => failures > 0

TimerInv == RunInv /\ OneTimer /\ NoneAtWork /\ Failed /\ ShownRetryIsArmed

TimersClean == OneTimer /\ NoneAtWork /\ Failed /\ ShownRetryIsArmed

(* A retry timer is armed only after the last round of a run: while a call *)
(* is at work none is.                                                     *)
LEMMA WorkHoldsNone ==
  ASSUME TimerInv, NEW r \in Runs, stage[r] \in AtWork
  PROVE  ~retryHeld /\ ~nextRetryAt
  BY DEF TimerInv, NoneAtWork, ShownRetryIsArmed

LEMMA NoTimerClean ==
  ASSUME Failed', ~retryHeld', ~nextRetryAt', retryTimers' = 0
  PROVE  TimersClean'
  BY DEF TimersClean, OneTimer, NoneAtWork, ShownRetryIsArmed

LEMMA CancelledClean ==
  ASSUME TimerInv, CancelTimers
  PROVE  ~retryHeld' /\ ~nextRetryAt' /\ retryTimers' = 0
  BY DEF TimerInv, OneTimer, CancelTimers, CancelRetry

LEMMA OneMoves ==
  ASSUME TimerInv, NEW r \in Runs, NEW s, s # "failed",
         stage' = [stage EXCEPT ![r] = s], failures' = failures
  PROVE  Failed'
  BY DEF TimerInv, RunInv, TypeInv, TypeOK, Failed

LEMMA KickClean ==
  ASSUME TimerInv, Kick, active' = TRUE, failures' = failures,
         ~InListener \/ ~retryHeld
  PROVE  TimersClean'
<1>1. CASE ~inProgress /\ Run
  <2>1. PICK r \in Runs : stage' = [stage EXCEPT ![r] = "begun"]
    BY <1>1 DEF Run
  <2>2. Failed'
    BY <2>1, OneMoves
  <2> QED
    BY <1>1, <2>2, CancelledClean, NoTimerClean DEF Run
<1>2. CASE inProgress
  <2>1. /\ stage' = stage /\ again' = TRUE /\ retryHeld' = retryHeld
        /\ retryTimers' = retryTimers /\ nextRetryAt' = nextRetryAt
    BY <1>2 DEF Kick, timers
  <2>2. retryHeld => \A r \in Runs : stage[r] # "scheduled"
    BY DEF InListener, Windows
  <2>3. NoneAtWork'
    BY <2>1, <2>2 DEF TimerInv, NoneAtWork
  <2> QED
    BY <2>1, <2>3 DEF TimerInv, TimersClean, OneTimer, Failed, ShownRetryIsArmed
<1> QED
  BY <1>1, <1>2 DEF Kick

LEMMA SameClean ==
  ASSUME TimerInv, failures' = failures, UNCHANGED <<stage, again, active>>,
         UNCHANGED <<retryHeld, retryTimers, nextRetryAt>>
  PROVE  TimersClean'
  BY DEF TimerInv, TimersClean, OneTimer, NoneAtWork, Failed, ShownRetryIsArmed

LEMMA KickIfActiveClean ==
  ASSUME TimerInv, KickIfActive, active' = active, failures' = failures, ~InListener
  PROVE  TimersClean'
<1>1. CASE active
  BY <1>1, KickClean DEF KickIfActive, TimerInv, RunInv, TypeInv, TypeOK
<1>2. CASE ~active
  BY <1>2, SameClean DEF KickIfActive, timers
<1> QED
  BY <1>1, <1>2

(* A call of run() that leaves a stage it was at.                          *)
LEMMA LeavesClean ==
  ASSUME TimerInv, NEW r \in Runs, NEW s \in {"flushing", "ended", "none"},
         stage' = [stage EXCEPT ![r] = s], failures' = failures, active' = active,
         UNCHANGED <<retryHeld, retryTimers, nextRetryAt>>,
         retryHeld => s # "flushing" /\ (again' => again)
  PROVE  TimersClean'
<1>1. Failed'
  BY OneMoves
<1>2. NoneAtWork'
  BY DEF TimerInv, RunInv, TypeInv, TypeOK, NoneAtWork, AtWork
<1> QED
  BY <1>1, <1>2 DEF TimerInv, TimersClean, OneTimer, ShownRetryIsArmed

LEMMA TimerStep ==
  ASSUME "kick" \notin ListenerCalls
  PROVE  TimerInv /\ [Next]_vars => TimerInv'
<1> SUFFICES ASSUME TimerInv, [Next]_vars PROVE TimersClean'
  BY RunInvStep DEF TimerInv, TimersClean
<1>t. TypeOK
  BY DEF TimerInv, RunInv, TypeInv
<1>1. CASE Start
  <2>1. ~retryHeld /\ active' = TRUE /\ failures' = failures /\ Kick
    BY <1>1 DEF Start, TimerInv, OneTimer
  <2> QED
    BY <2>1, KickClean
<1>2. CASE Stop
  <2>1. Failed'
    BY <1>2 DEF Stop, TimerInv, Failed
  <2> QED
    BY <1>2, <2>1, CancelledClean, NoTimerClean DEF Stop
<1>3. CASE ~InListener /\ KickCall
  BY <1>3, KickIfActiveClean DEF KickCall
<1>4. CASE PageReturns
  BY <1>4, KickIfActiveClean DEF PageReturns
<1>5. CASE PageLeaves
  BY <1>5, SameClean DEF PageLeaves, timers
<1>6. CASE RetryFires
  <2>1. retryHeld /\ active /\ retryTimers = 1
    BY <1>6 DEF RetryFires, TimerInv, OneTimer
  <2>2. ~inProgress
    <3>1. SUFFICES ASSUME NEW r \in Busy PROVE FALSE
      BY DEF TimerInv, RunInv, OneBusy
    <3>2. stage[r] \in AtWork
      BY <1>6 DEF RetryFires, InListener, Windows, Busy, Running, AtWork
    <3> QED
      BY <2>1, <3>2, WorkHoldsNone DEF Busy
  <2>3. PICK r \in Runs : stage' = [stage EXCEPT ![r] = "begun"]
    BY <1>6, <2>1, <2>2 DEF RetryFires
  <2>4. failures' = failures /\ ~retryHeld' /\ ~nextRetryAt' /\ retryTimers' = 0
    BY <1>6, <2>1, <2>2 DEF RetryFires
  <2> QED
    BY <2>3, <2>4, OneMoves, NoTimerClean
<1>7. CASE PollFires
  <2>1. ~InListener /\ failures' = failures /\ active' = active
    BY <1>7 DEF PollFires
  <2>2. CASE active /\ Kick
    BY <1>t, <2>1, <2>2, KickClean DEF TypeOK
  <2>3. CASE ~(active /\ Live)
    <3>1. UNCHANGED <<stage, again, retryHeld, retryTimers, nextRetryAt>>
      BY <1>7, <2>3 DEF PollFires
    <3> QED
      BY <2>1, <3>1, SameClean
  <2> QED
    BY <1>7, <2>2, <2>3 DEF PollFires
<1>8. ASSUME NEW r \in Runs, RunStep(r) PROVE TimersClean'
  <2>1. CASE FlushStarts(r)
    <3>1. ~retryHeld
      BY <2>1, WorkHoldsNone DEF FlushStarts, AtWork
    <3> QED
      BY <2>1, <3>1, LeavesClean DEF FlushStarts, timers
  <2>2. CASE SchedulesRetry(r)
    <3>1. ~retryHeld /\ retryTimers = 0 /\ failures > 0
      BY <2>2, WorkHoldsNone DEF SchedulesRetry, AtWork, TimerInv, OneTimer, Failed
    <3>2. /\ retryHeld' = TRUE /\ retryTimers' = 1 /\ active' = active /\ active
          /\ ~again' /\ failures' = failures
          /\ stage' = [stage EXCEPT ![r] = "scheduled"]
      BY <2>2, <3>1 DEF SchedulesRetry
    <3>3. \A q \in Runs : q = r \/ stage[q] \notin AtWork
      BY <2>2 DEF SchedulesRetry, TimerInv, RunInv, OneBusy, Busy, Running, AtWork
    <3>4. NoneAtWork'
      BY <1>t, <3>2, <3>3 DEF TypeOK, NoneAtWork, AtWork
    <3>5. Failed'
      BY <3>2, OneMoves
    <3> QED
      BY <3>1, <3>2, <3>4, <3>5 DEF TimersClean, OneTimer, ShownRetryIsArmed
  <2>3. CASE RetryScheduled(r)
    <3>1. /\ UNCHANGED <<retryHeld, retryTimers, nextRetryAt>> /\ active' = active
          /\ failures' = failures
      BY <2>3 DEF RetryScheduled, timers
    <3>2. PICK s \in {"flushing", "ended"} :
             /\ stage' = [stage EXCEPT ![r] = s]
             /\ s = "flushing" => again
             /\ ~again'
      BY <2>3 DEF RetryScheduled, LoopOrEnd
    <3>3. again => ~retryHeld
      BY <2>3 DEF RetryScheduled, TimerInv, NoneAtWork
    <3> QED
      BY <3>1, <3>2, <3>3, LeavesClean
  <2>4. CASE SchedulesPoll(r) \/ SchedulesNothing(r)
    <3>1. /\ UNCHANGED <<retryHeld, retryTimers, nextRetryAt>> /\ active' = active
          /\ failures' = failures
      BY <2>4 DEF SchedulesPoll, SchedulesNothing, timers
    <3>2. PICK s \in {"flushing", "ended"} : stage' = [stage EXCEPT ![r] = s]
      BY <2>4 DEF SchedulesPoll, SchedulesNothing, LoopOrEnd
    <3>3. ~retryHeld
      BY <2>4, WorkHoldsNone DEF SchedulesPoll, SchedulesNothing, AtWork
    <3> QED
      BY <3>1, <3>2, <3>3, LeavesClean
  <2>5. CASE Returns(r)
    BY <2>5, LeavesClean DEF Returns, timers
  <2> QED
    BY <1>8, <2>1, <2>2, <2>3, <2>4, <2>5 DEF RunStep
<1>9. ASSUME NEW r \in Runs, FlushSettles(r) PROVE TimersClean'
  <2>1. ~retryHeld /\ ~nextRetryAt /\ retryTimers = 0
    BY <1>9, WorkHoldsNone DEF FlushSettles, AtWork, TimerInv, OneTimer
  <2>2. UNCHANGED <<retryHeld, nextRetryAt, retryTimers>>
    BY <1>9 DEF FlushSettles, timers
  <2>3. \A q \in Runs : q = r \/ stage[q] # "failed"
    BY <1>9 DEF FlushSettles, TimerInv, RunInv, OneBusy, Busy, Running
  <2>4. CASE stage' = [stage EXCEPT ![r] = "completed"]
    BY <1>t, <2>1, <2>2, <2>3, <2>4, NoTimerClean DEF TypeOK, Failed
  <2>5. CASE failures' = IF failures < MaxFailures THEN failures + 1 ELSE failures
    <3>1. failures' > 0
      BY <1>t, <2>5, RunnerAssumption DEF RunnerAssumption, TypeOK
    <3> QED
      BY <2>1, <2>2, <3>1, NoTimerClean DEF Failed
  <2> QED
    BY <1>9, <2>4, <2>5 DEF FlushSettles
<1>10. CASE UNCHANGED vars
  BY <1>10, SameClean DEF vars, timers
<1> QED
  BY <1>1, <1>2, <1>3, <1>4, <1>5, <1>6, <1>7, <1>8, <1>9, <1>10
     DEF Next, AppCalls, ListenerCallsBack

LEMMA TimersAlways ==
  ASSUME "kick" \notin ListenerCalls
  PROVE  Spec => []TimerInv
<1>1. Init => TimerInv
  BY RunInit
     DEF Init, TimerInv, OneTimer, NoneAtWork, Failed, ShownRetryIsArmed
<1> QED
  BY <1>1, TimerStep, PTL DEF Spec

(* The retry time that is shown is that of an armed timer, if no           *)
(* subscriber kicks the runner.                                            *)
THEOREM ShownArmed ==
  ASSUME "kick" \notin ListenerCalls
  PROVE  Spec => []ShownRetryIsArmed
<1>1. TimerInv => ShownRetryIsArmed
  BY DEF TimerInv
<1> QED
  BY <1>1, TimersAlways, PTL

(* A stopped runner has no timer, if no subscriber kicks it.               *)
THEOREM StopIsClean ==
  ASSUME "kick" \notin ListenerCalls
  PROVE  Spec => []StopLeavesNothing
<1>1. TimerInv => StopLeavesNothing
  BY DEF TimerInv, RunInv, OneTimer, PollAtRest, StopLeavesNothing
<1> QED
  BY <1>1, TimersAlways, PTL

-----------------------------------------------------------------------------
(* ClientTransport: the invariant.                                         *)

OpenTimers == {"heartbeat", "pong", "healthy"}

(* What is true of a task in the chain, with these positions.              *)
OkAt(t, s, h) ==
    /\ t.seq <= s /\ t.read <= s
    /\ t.kind = "reconnect" => t.stage \in {"queued", "gate"}
    /\ t.stage = "gate" => t.kind = "reconnect"
    /\ t.stage = "read" => t.seq <= t.read
    /\ t.stage = "apply" => t.seq <= h

(* One reconnect at most waits in the chain.                               *)
OneReconnect ==
    \A i, j \in DOMAIN chain :
        chain[i].kind = "reconnect" /\ chain[j].kind = "reconnect" => i = j

TasksInv ==
    /\ \A i \in DOMAIN chain : OkAt(chain[i], seq, have)
    /\ \A i \in DOMAIN sock.hints : sock.hints[i] <= seq
    /\ cursor <= have /\ have <= seq

(* What status, timers, socket and chain say of one another.               *)
ShapeInv ==
    /\ stopped <=> status = "stopped"
    /\ ReconnectDue => status \in {"reconnecting", "stopped"}
    /\ AtGate => status = "reconnecting"
    /\ status \in {"idle", "stopped", "reconnecting"} => sock = NoSocket
    /\ status \in {"idle", "stopped"} => timer = {}
    /\ status = "reconnecting" => timer = IF ReconnectDue THEN {} ELSE {"reconnect"}
    /\ status = "connecting" =>
          /\ sock.state \in {"connecting", "closed"} /\ timer = {"connect"}
          /\ sock.carried = {} /\ ~sock.reconnect /\ sock.shake = "none"
    /\ status = "open" =>
          /\ sock.state \in {"open", "closed"} /\ sock.shake # "none"
          /\ "heartbeat" \in timer /\ timer \subseteq OpenTimers

(* A task that is still to read all that the server has, up to s.          *)
FetchAt(t, s) ==
    \/ t.stage = "pulling"
    \/ t.kind = "held" /\ t.stage = "queued"
    \/ t.kind = "hint" /\ t.stage = "queued" /\ t.seq = s
    \/ t.stage = "read" /\ t.read = s

Fetching == \E i \in DOMAIN chain : FetchAt(chain[i], seq)

(* What was not fetched yet is still to come: at the end of the handshake, *)
(* by a task, or with the last hint.                                       *)
MissInv ==
    sock.state = "open" /\ sock.alive /\ ~sock.failed /\ ~sock.between /\ have # seq =>
        \/ ~sock.reconnect /\ sock.shake \in {"reading", "sent"}
        \/ Fetching
        \/ sock.hints # <<>> /\ sock.hints[Len(sock.hints)] = seq

TransportInv ==
    TransportTypeOK /\ TasksInv /\ OneReconnect /\ ShapeInv /\ MissInv /\ NoCallHangs

-----------------------------------------------------------------------------
(* Sequences of tasks, and of hints.                                       *)

LEMMA Queued ==
    ASSUME NEW kind \in {"reconnect", "held", "hint"}, NEW s \in 0 .. MaxCommits
    PROVE  /\ Task(kind, s) \in Tasks
           /\ Task(kind, s).kind = kind /\ Task(kind, s).seq = s
           /\ Task(kind, s).stage = "queued" /\ Task(kind, s).read = 0
BY TransportAssumption DEF Task, Tasks

LEMMA Added ==
    ASSUME chain \in Seq(Tasks), NEW t \in Tasks, Enqueue(t)
    PROVE  /\ chain' \in Seq(Tasks) /\ Len(chain') = Len(chain) + 1
           /\ DOMAIN chain' = DOMAIN chain \cup {Len(chain) + 1}
           /\ Len(chain) + 1 \notin DOMAIN chain
           /\ chain'[Len(chain) + 1] = t
           /\ \A i \in DOMAIN chain : chain'[i] = chain[i]
BY DEF Enqueue

LEMMA First ==
    ASSUME chain \in Seq(Tasks), chain # <<>>
    PROVE  1 \in DOMAIN chain /\ Head(chain) = chain[1] /\ chain[1] \in Tasks
OBVIOUS

LEMMA Ended ==
    ASSUME chain \in Seq(Tasks), chain # <<>>, TaskEnds
    PROVE  /\ chain' \in Seq(Tasks) /\ Len(chain') = Len(chain) - 1
           /\ \A i \in DOMAIN chain' : i + 1 \in DOMAIN chain /\ i + 1 # 1
                                       /\ chain'[i] = chain[i + 1]
           /\ \A i \in DOMAIN chain : i # 1 => /\ i - 1 \in DOMAIN chain'
                                              /\ chain'[i - 1] = chain[i]
BY DEF TaskEnds

LEMMA Changed ==
    ASSUME chain \in Seq(Tasks), chain # <<>>, NEW n \in Tasks,
           chain' = [chain EXCEPT ![1] = n]
    PROVE  /\ chain' \in Seq(Tasks) /\ Len(chain') = Len(chain)
           /\ DOMAIN chain' = DOMAIN chain
           /\ chain'[1] = n
           /\ \A i \in DOMAIN chain : i # 1 => chain'[i] = chain[i]
OBVIOUS

LEMMA StageIs ==
    ASSUME chain \in Seq(Tasks), chain # <<>>,
           NEW s \in {"queued", "gate", "pulling", "read", "apply"}, Stage(s)
    PROVE  \E n \in Tasks :
              /\ n.kind = chain[1].kind /\ n.seq = chain[1].seq /\ n.read = chain[1].read
              /\ n.stage = s
              /\ chain' = [chain EXCEPT ![1] = n]
<1>. DEFINE n == [chain[1] EXCEPT !.stage = s]
<1>1. chain[1] \in Tasks
  OBVIOUS
<1>2. /\ n \in Tasks
      /\ n.kind = chain[1].kind /\ n.seq = chain[1].seq /\ n.read = chain[1].read
      /\ n.stage = s
  BY <1>1 DEF Tasks
<1>3. chain' = [chain EXCEPT ![1] = n]
  BY DEF Stage
<1>. QED
  BY <1>2, <1>3

LEMMA HintsTail ==
    ASSUME NEW h \in Seq(1 .. MaxCommits), h # <<>>
    PROVE  /\ Tail(h) \in Seq(1 .. MaxCommits) /\ Head(h) \in 1 .. MaxCommits
           /\ Head(h) = h[1]
           /\ \A i \in DOMAIN Tail(h) : i + 1 \in DOMAIN h /\ Tail(h)[i] = h[i + 1]
           /\ Tail(h) = <<>> => h[Len(h)] = h[1]
           /\ Tail(h) # <<>> => Tail(h)[Len(Tail(h))] = h[Len(h)]
<1>1. /\ Len(h) \in Nat \ {0} /\ DOMAIN h = 1 .. Len(h)
      /\ Head(h) = h[1] /\ Head(h) \in 1 .. MaxCommits
  <2>1. Len(h) \in Nat \ {0}
    BY EmptySeq
  <2>2. DOMAIN h = 1 .. Len(h)
    BY LenProperties
  <2>3. Head(h) = h[1]
    OBVIOUS
  <2>4. Head(h) \in 1 .. MaxCommits
    BY HeadTailProperties
  <2>. QED
    BY <2>1, <2>2, <2>3, <2>4
<1>2. /\ Tail(h) \in Seq(1 .. MaxCommits) /\ Len(Tail(h)) = Len(h) - 1
      /\ \A i \in 1 .. Len(Tail(h)) : Tail(h)[i] = h[i + 1]
  BY HeadTailProperties
<1>3. DOMAIN Tail(h) = 1 .. Len(h) - 1 /\ (Tail(h) # <<>> => Len(h) - 1 # 0)
  BY <1>1, <1>2, EmptySeq, LenProperties
<1>4. Tail(h) = <<>> => Len(h) = 1
  <2>1. Len(<<>>) = 0
    OBVIOUS
  <2>2. Len(h) \in Nat /\ Len(Tail(h)) = Len(h) - 1
    BY <1>1, <1>2, Zenon
  <2>3. Len(h) # 1 => Len(Tail(h)) # 0
    BY <2>2
  <2>. QED
    BY <2>1, <2>3, Zenon
<1>5. Tail(h) # <<>> => Tail(h)[Len(h) - 1] = h[Len(h)]
  BY <1>1, <1>2, <1>3
<1>. QED
  BY <1>1, <1>2, <1>3, <1>4, <1>5

LEMMA HintsAppend ==
    ASSUME NEW h \in Seq(1 .. MaxCommits), NEW s \in 1 .. MaxCommits
    PROVE  /\ Append(h, s) \in Seq(1 .. MaxCommits) /\ Append(h, s) # <<>>
           /\ Append(h, s)[Len(Append(h, s))] = s
           /\ \A i \in DOMAIN h : Append(h, s)[i] = h[i]
           /\ \A i \in DOMAIN Append(h, s) : i \notin DOMAIN h => Append(h, s)[i] = s
<1>1. /\ Append(h, s) \in Seq(1 .. MaxCommits) /\ Append(h, s) # <<>>
      /\ Len(Append(h, s)) = Len(h) + 1 /\ Append(h, s)[Len(h) + 1] = s
      /\ \A i \in 1 .. Len(h) : Append(h, s)[i] = h[i]
  BY AppendProperties
<1>2. /\ Len(h) \in Nat /\ DOMAIN h = 1 .. Len(h)
      /\ DOMAIN Append(h, s) = 1 .. Len(h) + 1
  <2>1. Len(h) \in Nat /\ DOMAIN h = 1 .. Len(h)
    BY LenProperties
  <2>2. DOMAIN Append(h, s) = 1 .. Len(Append(h, s))
    BY <1>1, LenProperties
  <2>. QED
    BY <1>1, <2>1, <2>2
<1>3. \A i \in 1 .. Len(h) + 1 : i = Len(h) + 1 \/ i \in 1 .. Len(h)
  BY <1>2
<1>4. Append(h, s)[Len(Append(h, s))] = s
  BY <1>1
<1>5. ASSUME NEW i \in DOMAIN Append(h, s)
      PROVE  i \notin DOMAIN h => Append(h, s)[i] = s
  BY <1>1, <1>2, <1>3
<1>. QED
  BY <1>1, <1>2, <1>4, <1>5

-----------------------------------------------------------------------------
(* How a step on the chain moves ReconnectDue, and AtGate.                 *)

LEMMA GateAdded ==
    ASSUME chain \in Seq(Tasks), NEW t \in Tasks, Enqueue(t)
    PROVE  ReconnectDue' <=> ReconnectDue \/ t.kind = "reconnect"
BY Added DEF ReconnectDue

LEMMA GateKept ==
    ASSUME chain \in Seq(Tasks), chain # <<>>, NEW n \in Tasks, n.kind = chain[1].kind,
           chain' = [chain EXCEPT ![1] = n]
    PROVE  ReconnectDue' <=> ReconnectDue
BY Changed, First DEF ReconnectDue

LEMMA GateEnded ==
    ASSUME chain \in Seq(Tasks), chain # <<>>, OneReconnect, TaskEnds
    PROVE  ReconnectDue' <=> ReconnectDue /\ chain[1].kind # "reconnect"
<1>1. 1 \in DOMAIN chain
  BY First
<1>2. ASSUME ReconnectDue' PROVE ReconnectDue /\ chain[1].kind # "reconnect"
  BY <1>1, <1>2, Ended DEF ReconnectDue, OneReconnect
<1>3. ASSUME ReconnectDue, chain[1].kind # "reconnect" PROVE ReconnectDue'
  BY <1>1, <1>3, Ended DEF ReconnectDue
<1>. QED
  BY <1>2, <1>3

LEMMA AskAdded ==
    ASSUME chain \in Seq(Tasks), NEW t \in Tasks, Enqueue(t), t.stage = "queued"
    PROVE  AtGate' <=> AtGate
BY Added DEF AtGate

LEMMA AskChanged ==
    ASSUME chain \in Seq(Tasks), chain # <<>>, NEW n \in Tasks, n.stage # "gate",
           chain' = [chain EXCEPT ![1] = n]
    PROVE  AtGate' => AtGate
BY Changed, First DEF AtGate

LEMMA AskEnded ==
    ASSUME chain \in Seq(Tasks), chain # <<>>, TaskEnds
    PROVE  AtGate' => AtGate
BY Ended DEF AtGate

-----------------------------------------------------------------------------
(* The types.                                                              *)

LEMMA FreshSockets ==
    /\ NoSocket \in Sockets /\ NewSocket \in Sockets
    /\ NoSocket.state = "none" /\ NoSocket.hints = <<>> /\ ~NoSocket.adopted /\ ~NoSocket.alive
    /\ NoSocket.carried = {} /\ ~NoSocket.reconnect /\ NoSocket.shake = "none"
    /\ NewSocket.state = "connecting" /\ NewSocket.hints = <<>>
    /\ NewSocket.carried = {} /\ ~NewSocket.reconnect /\ NewSocket.shake = "none"
<1>1. <<>> \in Seq(1 .. MaxCommits)
  OBVIOUS
<1>. QED
  BY <1>1 DEF NoSocket, NewSocket, Sockets

LEMMA SocketsKept ==
    ASSUME TransportTypeOK, [TransportNext]_transportVars
    PROVE  sock' \in Sockets
<1>1. sock \in Sockets
  BY DEF TransportTypeOK
<1>2. ASSUME Connect PROVE sock' \in Sockets
  BY <1>1, <1>2, FreshSockets DEF Connect, OpenSocket
<1>3. ASSUME StopTransport PROVE sock' \in Sockets
  BY <1>1, <1>3 DEF StopTransport, NoSocket, RejectAllPending, Sockets
<1>4. ASSUME ResumeReconnecting PROVE sock' \in Sockets
  BY <1>1, <1>4 DEF ResumeReconnecting, Sockets
<1>5. ASSUME ResumeConnecting PROVE sock' \in Sockets
  BY <1>1, <1>5 DEF ResumeConnecting, NoSocket, Sockets
<1>6. ASSUME ResumeOpen PROVE sock' \in Sockets
  BY <1>1, <1>6 DEF ResumeOpen, Ping, Sockets
<1>7. ASSUME NEW c \in TransportCalls, Call(c) PROVE sock' \in Sockets
  BY <1>1, <1>7 DEF Call, Sockets
<1>8. ASSUME HandleOpen PROVE sock' \in Sockets
  <2>1. attempt \in BOOLEAN
    BY DEF TransportTypeOK
  <2>. QED
    BY <1>1, <1>8, <2>1 DEF HandleOpen, Sockets
<1>9. ASSUME HandleClose PROVE sock' \in Sockets
  BY <1>1, <1>9 DEF HandleClose, NoSocket, RejectAllPending, ScheduleReconnect, Sockets
<1>10. ASSUME HintArrives PROVE sock' \in Sockets
  <2>1. sock.hints \in Seq(1 .. MaxCommits) /\ sock.hints # <<>>
    BY <1>1, <1>10 DEF HintArrives, Sockets
  <2>2. Tail(sock.hints) \in Seq(1 .. MaxCommits)
    BY <2>1, HintsTail
  <2>. QED
    BY <1>1, <1>10, <2>2 DEF HintArrives, Heard, Sockets
<1>11. ASSUME PongArrives PROVE sock' \in Sockets
  BY <1>1, <1>11 DEF PongArrives, Heard, TryResetBackoff, Sockets
<1>12. ASSUME HandshakeAcknowledged PROVE sock' \in Sockets
  BY <1>1, <1>12 DEF HandshakeAcknowledged, HandshakeEnds, Heard, TryResetBackoff, Sockets
<1>13. ASSUME NEW c \in TransportCalls, ResultArrives(c) PROVE sock' \in Sockets
  BY <1>1, <1>13 DEF ResultArrives, Heard, TryResetBackoff, Sockets
<1>14. ASSUME HeartbeatFires PROVE sock' \in Sockets
  BY <1>1, <1>14 DEF HeartbeatFires, Ping, Sockets
<1>15. ASSUME HandlePongTimeout PROVE sock' \in Sockets
  BY <1>1, <1>15 DEF HandlePongTimeout, NoSocket, RejectAllPending, ScheduleReconnect,
     Sockets
<1>16. ASSUME HandleConnectTimeout PROVE sock' \in Sockets
  BY <1>1, <1>16 DEF HandleConnectTimeout, NoSocket, ScheduleReconnect, Sockets
<1>17. ASSUME HealthyFires PROVE sock' \in Sockets
  BY <1>1, <1>17 DEF HealthyFires, TryResetBackoff, Sockets
<1>18. ASSUME ReconnectFires PROVE sock' \in Sockets
  BY <1>1, <1>18 DEF ReconnectFires, Sockets
<1>19. ASSUME NEW c \in TransportCalls, CallTimeout(c) PROVE sock' \in Sockets
  BY <1>1, <1>19 DEF CallTimeout, Sockets
<1>20. ASSUME ReconnectBegins PROVE sock' \in Sockets
  BY <1>1, <1>20 DEF ReconnectBegins, AtHead, Sockets
<1>21. ASSUME GateAllows PROVE sock' \in Sockets
  BY <1>1, <1>21, FreshSockets DEF GateAllows, OpenSocket
<1>22. ASSUME GateRefuses PROVE sock' \in Sockets
  BY <1>1, <1>22 DEF GateRefuses, AtHead, Sockets
<1>23. ASSUME GateThrows PROVE sock' \in Sockets
  BY <1>1, <1>23 DEF GateThrows, AtHead, ScheduleReconnect, Sockets
<1>24. ASSUME PullBegins PROVE sock' \in Sockets
  BY <1>1, <1>24 DEF PullBegins, AtHead, Sockets
<1>25. ASSUME HintIsOld PROVE sock' \in Sockets
  BY <1>1, <1>25 DEF HintIsOld, AtHead, Sockets
<1>26. ASSUME PullReads PROVE sock' \in Sockets
  BY <1>1, <1>26 DEF PullReads, Sockets
<1>27. ASSUME PullReturns PROVE sock' \in Sockets
  BY <1>1, <1>27 DEF PullReturns, Sockets
<1>28. ASSUME PullFails PROVE sock' \in Sockets
  BY <1>1, <1>28 DEF PullFails, NoSocket, Sockets
<1>29. ASSUME HintApplied PROVE sock' \in Sockets
  BY <1>1, <1>29 DEF HintApplied, Sockets
<1>30. ASSUME Adopt PROVE sock' \in Sockets
  BY <1>1, <1>30 DEF Adopt, Sockets
<1>31. ASSUME ServerChanges PROVE sock' \in Sockets
  <2>1. sock.hints \in Seq(1 .. MaxCommits) /\ sock.reconnect \in BOOLEAN
        /\ sock.between \in BOOLEAN
    BY <1>1 DEF Sockets
  <2>2. seq \in 0 .. MaxCommits /\ seq < MaxCommits
    BY <1>31 DEF ServerChanges, TransportTypeOK
  <2>3. seq + 1 \in 1 .. MaxCommits
    BY <2>2, TransportAssumption
  <2>4. Append(sock.hints, seq + 1) \in Seq(1 .. MaxCommits)
    BY <2>1, <2>3, HintsAppend
  <2>5. (sock.between \/ sock.reconnect \/ sock.shake = "over") \in BOOLEAN
    OBVIOUS
  <2>. QED
    BY <1>1, <1>31, <2>4, <2>5 DEF ServerChanges, Sockets
<1>32. ASSUME SocketDrops PROVE sock' \in Sockets
  <2>1. <<>> \in Seq(1 .. MaxCommits)
    OBVIOUS
  <2>. QED
    BY <1>1, <1>32, <2>1 DEF SocketDrops, Sockets
<1>33. ASSUME SocketDies PROVE sock' \in Sockets
  <2>1. <<>> \in Seq(1 .. MaxCommits)
    OBVIOUS
  <2>. QED
    BY <1>1, <1>33, <2>1 DEF SocketDies, Sockets
<1>34. ASSUME HandshakeSent PROVE sock' \in Sockets
  BY <1>1, <1>34 DEF HandshakeSent, Sockets
<1>35. ASSUME HandshakeFails PROVE sock' \in Sockets
  BY <1>1, <1>35 DEF HandshakeFails, HandshakeEnds, Sockets
<1>36. CASE UNCHANGED transportVars
  BY <1>1, <1>36 DEF transportVars
<1>. QED
  BY <1>2, <1>3, <1>4, <1>5, <1>6, <1>7, <1>8, <1>9, <1>10, <1>11, <1>12, <1>13, <1>14,
     <1>15, <1>16, <1>17, <1>18, <1>19, <1>20, <1>21, <1>22, <1>23, <1>24, <1>25, <1>26,
     <1>27, <1>28, <1>29, <1>30, <1>31, <1>32, <1>33, <1>34, <1>35, <1>36 DEF TransportNext,
     AppSteps, Arrives, TimerFires,
     TaskStep, Peer

LEMMA PositionsTyped ==
    TransportTypeOK => /\ cursor \in 0 .. MaxCommits /\ have \in 0 .. MaxCommits
                       /\ seq \in 0 .. MaxCommits
BY DEF TransportTypeOK

LEMMA ReadIs ==
    ASSUME chain \in Seq(Tasks), seq \in 0 .. MaxCommits, PullReads
    PROVE  LET n == [chain[1] EXCEPT !.stage = "read", !.read = seq]
           IN  /\ n \in Tasks /\ n.kind = chain[1].kind /\ n.seq = chain[1].seq
               /\ n.read = seq /\ n.stage = "read"
               /\ chain' = [chain EXCEPT ![1] = n]
<1>1. chain[1] \in Tasks /\ chain # <<>>
  BY DEF PullReads
<1>. DEFINE n == [chain[1] EXCEPT !.stage = "read", !.read = seq]
<1>2. /\ n \in Tasks /\ n.kind = chain[1].kind /\ n.seq = chain[1].seq
      /\ n.read = seq /\ n.stage = "read"
  BY <1>1 DEF Tasks
<1>3. chain' = [chain EXCEPT ![1] = n]
  BY DEF PullReads
<1>. QED
  BY <1>2, <1>3

(* What a step may do with the chain.                                      *)
ChainMoves ==
    \/ UNCHANGED chain
    \/ \E t \in Tasks : HasRoom /\ Enqueue(t)
    \/ chain # <<>> /\ TaskEnds
    \/ chain # <<>> /\ \E n \in Tasks : chain' = [chain EXCEPT ![1] = n]

LEMMA ChainStep ==
    ASSUME TransportTypeOK, [TransportNext]_transportVars
    PROVE  ChainMoves
<1>1. chain \in Seq(Tasks) /\ seq \in 0 .. MaxCommits /\ 0 \in 0 .. MaxCommits
  <2>1. chain \in Seq(Tasks)
    BY DEF TransportTypeOK
  <2>. QED
    BY <2>1, PositionsTyped, TransportAssumption
<1>2. Task("reconnect", 0) \in Tasks /\ Task("held", 0) \in Tasks
  BY <1>1, Queued
<1>3. ASSUME Connect
      PROVE  ChainMoves
  BY <1>3 DEF Connect, OpenSocket, NewSocket, NoSocket, ChainMoves
<1>4. ASSUME StopTransport
      PROVE  ChainMoves
  BY <1>4 DEF StopTransport, NoSocket, RejectAllPending, ChainMoves
<1>5. ASSUME ResumeReconnecting
      PROVE  ChainMoves
  BY <1>2, <1>5 DEF ResumeReconnecting, ChainMoves
<1>6. ASSUME ResumeConnecting
      PROVE  ChainMoves
  BY <1>2, <1>6 DEF ResumeConnecting, ChainMoves
<1>7. ASSUME ResumeOpen
      PROVE  ChainMoves
  BY <1>7 DEF ResumeOpen, ChainMoves
<1>8. ASSUME NEW c \in TransportCalls, Call(c)
      PROVE  ChainMoves
  BY <1>8 DEF Call, ChainMoves
<1>9. ASSUME HandleOpen
      PROVE  ChainMoves
  BY <1>2, <1>9 DEF HandleOpen, ChainMoves
<1>10. ASSUME HandleClose
      PROVE  ChainMoves
  BY <1>10 DEF HandleClose, NoSocket, RejectAllPending, ScheduleReconnect, ChainMoves
<1>11. ASSUME HintArrives
      PROVE  ChainMoves
  <2>1. sock.hints \in Seq(1 .. MaxCommits) /\ sock.hints # <<>>
    BY <1>11 DEF HintArrives, TransportTypeOK, Sockets
  <2>2. Head(sock.hints) \in 0 .. MaxCommits
    BY <2>1, HintsTail
  <2>3. Task("hint", Head(sock.hints)) \in Tasks
    BY <2>2, Queued
  <2>. QED
    BY <1>11, <2>3 DEF HintArrives, ChainMoves
<1>12. ASSUME PongArrives
      PROVE  ChainMoves
  BY <1>12 DEF PongArrives, Heard, TryResetBackoff, ChainMoves
<1>13. ASSUME HandshakeAcknowledged
      PROVE  ChainMoves
  BY <1>2, <1>13 DEF HandshakeAcknowledged, HandshakeEnds, ChainMoves
<1>14. ASSUME NEW c \in TransportCalls, ResultArrives(c)
      PROVE  ChainMoves
  BY <1>14 DEF ResultArrives, Heard, TryResetBackoff, ChainMoves
<1>15. ASSUME HeartbeatFires
      PROVE  ChainMoves
  BY <1>15 DEF HeartbeatFires, Ping, ChainMoves
<1>16. ASSUME HandlePongTimeout
      PROVE  ChainMoves
  BY <1>16 DEF HandlePongTimeout, NoSocket, RejectAllPending, ScheduleReconnect, ChainMoves
<1>17. ASSUME HandleConnectTimeout
      PROVE  ChainMoves
  BY <1>17 DEF HandleConnectTimeout, NoSocket, ScheduleReconnect, ChainMoves
<1>18. ASSUME HealthyFires
      PROVE  ChainMoves
  BY <1>18 DEF HealthyFires, TryResetBackoff, ChainMoves
<1>19. ASSUME ReconnectFires
      PROVE  ChainMoves
  BY <1>2, <1>19 DEF ReconnectFires, ChainMoves
<1>20. ASSUME NEW c \in TransportCalls, CallTimeout(c)
      PROVE  ChainMoves
  BY <1>20 DEF CallTimeout, ChainMoves
<1>21. ASSUME ReconnectBegins
      PROVE  ChainMoves
  <2>1. chain # <<>> /\ (TaskEnds \/ Stage("gate"))
    BY <1>21 DEF ReconnectBegins, AtHead
  <2>. QED
    BY <1>1, <2>1, StageIs DEF ChainMoves
<1>22. ASSUME GateAllows
      PROVE  ChainMoves
  BY <1>22 DEF GateAllows, AtHead, ChainMoves
<1>23. ASSUME GateRefuses
      PROVE  ChainMoves
  BY <1>23 DEF GateRefuses, AtHead, ChainMoves
<1>24. ASSUME GateThrows
      PROVE  ChainMoves
  BY <1>24 DEF GateThrows, AtHead, ChainMoves
<1>25. ASSUME PullBegins
      PROVE  ChainMoves
  <2>1. chain # <<>> /\ Stage("pulling")
    BY <1>25 DEF PullBegins, AtHead
  <2>. QED
    BY <1>1, <2>1, StageIs DEF ChainMoves
<1>26. ASSUME HintIsOld
      PROVE  ChainMoves
  BY <1>26 DEF HintIsOld, AtHead, ChainMoves
<1>27. ASSUME PullReads
      PROVE  ChainMoves
  <2>1. chain # <<>>
    BY <1>27 DEF PullReads
  <2>2. /\ [chain[1] EXCEPT !.stage = "read", !.read = seq] \in Tasks
        /\ chain' = [chain EXCEPT ![1] = [chain[1] EXCEPT !.stage = "read", !.read = seq]]
    BY <1>1, <1>27, <2>1, ReadIs
  <2>. QED
    BY <2>1, <2>2 DEF ChainMoves
<1>28. ASSUME PullReturns
      PROVE  ChainMoves
  <2>1. chain # <<>> /\ (TaskEnds \/ Stage("apply"))
    BY <1>28 DEF PullReturns
  <2>. QED
    BY <1>1, <2>1, StageIs DEF ChainMoves
<1>29. ASSUME PullFails
      PROVE  ChainMoves
  BY <1>29 DEF PullFails, AtHead, ChainMoves
<1>30. ASSUME HintApplied
      PROVE  ChainMoves
  BY <1>30 DEF HintApplied, AtHead, ChainMoves
<1>31. ASSUME Adopt
      PROVE  ChainMoves
  BY <1>31 DEF Adopt, ChainMoves
<1>32. ASSUME ServerChanges
      PROVE  ChainMoves
  BY <1>32 DEF ServerChanges, ChainMoves
<1>33. ASSUME SocketDrops
      PROVE  ChainMoves
  BY <1>33 DEF SocketDrops, ChainMoves
<1>34. ASSUME SocketDies
      PROVE  ChainMoves
  BY <1>34 DEF SocketDies, ChainMoves
<1>35. ASSUME HandshakeSent
      PROVE  ChainMoves
  BY <1>35 DEF HandshakeSent, ChainMoves
<1>36. ASSUME HandshakeFails
      PROVE  ChainMoves
  BY <1>2, <1>36 DEF HandshakeFails, HandshakeEnds, ChainMoves
<1>37. ASSUME UNCHANGED transportVars
      PROVE  ChainMoves
  BY <1>37 DEF transportVars, ChainMoves
<1>. QED
  BY <1>3, <1>4, <1>5, <1>6, <1>7, <1>8, <1>9, <1>10, <1>11, <1>12, <1>13,
     <1>14, <1>15, <1>16, <1>17, <1>18, <1>19, <1>20, <1>21, <1>22, <1>23,
     <1>24, <1>25, <1>26, <1>27, <1>28, <1>29, <1>30, <1>31, <1>32, <1>33,
     <1>34, <1>35, <1>36, <1>37 DEF TransportNext, AppSteps, Arrives,
     TimerFires, TaskStep, Peer

LEMMA ChainTyped ==
    ASSUME TransportTypeOK, [TransportNext]_transportVars
    PROVE  chain' \in Seq(Tasks) /\ Len(chain') <= MaxTasks
<1>1. chain \in Seq(Tasks) /\ Len(chain) <= MaxTasks
  BY DEF TransportTypeOK
<1>2. ASSUME NEW t \in Tasks, HasRoom, Enqueue(t)
      PROVE  chain' \in Seq(Tasks) /\ Len(chain') <= MaxTasks
  BY <1>1, <1>2, Added, TransportAssumption DEF HasRoom
<1>3. ASSUME chain # <<>>, TaskEnds
      PROVE  chain' \in Seq(Tasks) /\ Len(chain') <= MaxTasks
  BY <1>1, <1>3, Ended, TransportAssumption
<1>4. ASSUME chain # <<>>, NEW n \in Tasks, chain' = [chain EXCEPT ![1] = n]
      PROVE  chain' \in Seq(Tasks) /\ Len(chain') <= MaxTasks
  BY <1>1, <1>4, Changed, TransportAssumption
<1>. QED
  BY <1>1, <1>2, <1>3, <1>4, ChainStep DEF ChainMoves

-----------------------------------------------------------------------------
(* The positions, and the tasks behind them.                               *)
PositionsFine ==
    /\ cursor' \in 0 .. MaxCommits /\ have' \in 0 .. MaxCommits /\ seq' \in 0 .. MaxCommits
    /\ have <= have' /\ seq <= seq' /\ cursor' <= have' /\ have' <= seq'

LEMMA PositionsStep ==
    ASSUME TransportTypeOK, TasksInv, [TransportNext]_transportVars
    PROVE  PositionsFine
<1>1. /\ cursor \in 0 .. MaxCommits /\ have \in 0 .. MaxCommits /\ seq \in 0 .. MaxCommits
      /\ cursor <= have /\ have <= seq
      /\ chain \in Seq(Tasks) /\ \A i \in DOMAIN chain : OkAt(chain[i], seq, have)
  <2>1. chain \in Seq(Tasks)
    BY DEF TransportTypeOK
  <2>. QED
    BY <2>1, PositionsTyped DEF TasksInv
<1>2. UNCHANGED positions => PositionsFine
  BY <1>1, TransportAssumption DEF positions, PositionsFine
<1>3. ASSUME Connect
      PROVE  PositionsFine
  BY <1>2, <1>3 DEF Connect, positions
<1>4. ASSUME StopTransport
      PROVE  PositionsFine
  BY <1>2, <1>4 DEF StopTransport, positions
<1>5. ASSUME ResumeReconnecting
      PROVE  PositionsFine
  BY <1>2, <1>5 DEF ResumeReconnecting, positions
<1>6. ASSUME ResumeConnecting
      PROVE  PositionsFine
  BY <1>2, <1>6 DEF ResumeConnecting, positions
<1>7. ASSUME ResumeOpen
      PROVE  PositionsFine
  BY <1>2, <1>7 DEF ResumeOpen, positions
<1>8. ASSUME NEW c \in TransportCalls, Call(c)
      PROVE  PositionsFine
  BY <1>2, <1>8 DEF Call, positions
<1>9. ASSUME HandleOpen
      PROVE  PositionsFine
  BY <1>2, <1>9 DEF HandleOpen, positions
<1>10. ASSUME HandleClose
      PROVE  PositionsFine
  BY <1>2, <1>10 DEF HandleClose, positions
<1>11. ASSUME HintArrives
      PROVE  PositionsFine
  BY <1>2, <1>11 DEF HintArrives, positions
<1>12. ASSUME PongArrives
      PROVE  PositionsFine
  BY <1>2, <1>12 DEF PongArrives, positions
<1>13. ASSUME HandshakeAcknowledged
      PROVE  PositionsFine
  BY <1>2, <1>13 DEF HandshakeAcknowledged, HandshakeEnds, positions
<1>14. ASSUME NEW c \in TransportCalls, ResultArrives(c)
      PROVE  PositionsFine
  BY <1>2, <1>14 DEF ResultArrives, positions
<1>15. ASSUME HeartbeatFires
      PROVE  PositionsFine
  BY <1>2, <1>15 DEF HeartbeatFires, positions
<1>16. ASSUME HandlePongTimeout
      PROVE  PositionsFine
  BY <1>2, <1>16 DEF HandlePongTimeout, positions
<1>17. ASSUME HandleConnectTimeout
      PROVE  PositionsFine
  BY <1>2, <1>17 DEF HandleConnectTimeout, positions
<1>18. ASSUME HealthyFires
      PROVE  PositionsFine
  BY <1>2, <1>18 DEF HealthyFires, positions
<1>19. ASSUME ReconnectFires
      PROVE  PositionsFine
  BY <1>2, <1>19 DEF ReconnectFires, positions
<1>20. ASSUME NEW c \in TransportCalls, CallTimeout(c)
      PROVE  PositionsFine
  BY <1>2, <1>20 DEF CallTimeout, positions
<1>21. ASSUME ReconnectBegins
      PROVE  PositionsFine
  BY <1>2, <1>21 DEF ReconnectBegins, positions
<1>22. ASSUME GateAllows
      PROVE  PositionsFine
  BY <1>2, <1>22 DEF GateAllows, positions
<1>23. ASSUME GateRefuses
      PROVE  PositionsFine
  BY <1>2, <1>23 DEF GateRefuses, positions
<1>24. ASSUME GateThrows
      PROVE  PositionsFine
  BY <1>2, <1>24 DEF GateThrows, positions
<1>25. ASSUME PullBegins
      PROVE  PositionsFine
  BY <1>2, <1>25 DEF PullBegins, positions
<1>26. ASSUME HintIsOld
      PROVE  PositionsFine
  BY <1>2, <1>26 DEF HintIsOld, positions
<1>27. ASSUME PullReads
      PROVE  PositionsFine
  BY <1>2, <1>27 DEF PullReads, positions
<1>28. ASSUME PullReturns
      PROVE  PositionsFine
  <2>1. chain # <<>> /\ have' = Larger(have, Head(chain).read)
        /\ cursor' \in {cursor, Larger(cursor, Head(chain).read)} /\ seq' = seq
    BY <1>28 DEF PullReturns
  <2>2. Head(chain) = chain[1] /\ chain[1].read \in 0 .. MaxCommits /\ chain[1].read <= seq
    BY <1>1, <2>1, First DEF OkAt, Tasks
  <2>. QED
    BY <1>1, <2>1, <2>2, TransportAssumption DEF Larger, PositionsFine
<1>29. ASSUME PullFails
      PROVE  PositionsFine
  BY <1>2, <1>29 DEF PullFails, positions
<1>30. ASSUME HintApplied
      PROVE  PositionsFine
  <2>1. chain # <<>> /\ Head(chain).stage = "apply" /\ have' = have /\ seq' = seq
        /\ cursor' = IF Head(chain).seq = cursor + 1 THEN Head(chain).seq ELSE cursor
    BY <1>30 DEF HintApplied
  <2>2. Head(chain) = chain[1] /\ chain[1].seq \in 0 .. MaxCommits /\ chain[1].seq <= have
    BY <1>1, <2>1, First DEF OkAt, Tasks
  <2>. QED
    BY <1>1, <2>1, <2>2, TransportAssumption DEF PositionsFine
<1>31. ASSUME Adopt
      PROVE  PositionsFine
  BY <1>2, <1>31 DEF Adopt, positions
<1>32. ASSUME ServerChanges
      PROVE  PositionsFine
  BY <1>1, <1>32, TransportAssumption DEF ServerChanges, PositionsFine
<1>33. ASSUME SocketDrops
      PROVE  PositionsFine
  BY <1>2, <1>33 DEF SocketDrops, positions
<1>34. ASSUME SocketDies
      PROVE  PositionsFine
  BY <1>2, <1>34 DEF SocketDies, positions
<1>35. ASSUME HandshakeSent
      PROVE  PositionsFine
  BY <1>2, <1>35 DEF HandshakeSent, positions
<1>36. ASSUME HandshakeFails
      PROVE  PositionsFine
  BY <1>2, <1>36 DEF HandshakeFails, HandshakeEnds, positions
<1>37. ASSUME UNCHANGED transportVars
      PROVE  PositionsFine
  BY <1>2, <1>37 DEF transportVars, positions
<1>. QED
  BY <1>3, <1>4, <1>5, <1>6, <1>7, <1>8, <1>9, <1>10, <1>11, <1>12, <1>13,
     <1>14, <1>15, <1>16, <1>17, <1>18, <1>19, <1>20, <1>21, <1>22, <1>23,
     <1>24, <1>25, <1>26, <1>27, <1>28, <1>29, <1>30, <1>31, <1>32, <1>33,
     <1>34, <1>35, <1>36, <1>37 DEF TransportNext, AppSteps, Arrives,
     TimerFires, TaskStep, Peer

(* The chain holds no task but fine ones.                                  *)
ChainFine ==
    \/ UNCHANGED chain
    \/ \E t \in Tasks :
          /\ Enqueue(t) /\ OkAt(t, seq', have')
          /\ t.kind = "reconnect" => ResumeReconnecting \/ ResumeConnecting \/ ReconnectFires
    \/ chain # <<>> /\ TaskEnds
    \/ chain # <<>> /\ \E n \in Tasks : /\ chain' = [chain EXCEPT ![1] = n]
                                         /\ n.kind = chain[1].kind /\ OkAt(n, seq', have')

LEMMA OkKept ==
    ASSUME NEW t \in Tasks, NEW s \in Nat, NEW h \in Nat, NEW s2 \in Nat, NEW h2 \in Nat,
           s <= s2, h <= h2, OkAt(t, s, h)
    PROVE  OkAt(t, s2, h2)
BY DEF OkAt, Tasks

LEMMA OkQueued ==
    ASSUME NEW t \in Tasks, NEW s \in Nat, NEW h, t.stage = "queued", t.read = 0, t.seq <= s
    PROVE  OkAt(t, s, h)
BY DEF OkAt

LEMMA ChainIsFine ==
    ASSUME TransportTypeOK, TasksInv, [TransportNext]_transportVars
    PROVE  ChainFine
<1>1. /\ cursor \in Nat /\ have \in Nat /\ seq \in Nat /\ seq \in 0 .. MaxCommits
      /\ have' \in Nat /\ seq' \in Nat /\ have <= have' /\ seq <= seq'
  BY PositionsTyped, PositionsStep, TransportAssumption DEF PositionsFine
<1>2. chain \in Seq(Tasks)
  BY DEF TransportTypeOK
<1>3. chain # <<>> => /\ Head(chain) = chain[1] /\ chain[1] \in Tasks
                      /\ OkAt(chain[1], seq, have)
  BY <1>2, First DEF TasksInv
<1>4. \A k \in {"reconnect", "held"} : /\ Task(k, 0) \in Tasks /\ Task(k, 0).kind = k
                                       /\ OkAt(Task(k, 0), seq', have')
  BY <1>1, Queued, OkQueued, TransportAssumption
<1>5. ASSUME Connect
      PROVE  ChainFine
  BY <1>5 DEF Connect, ChainFine
<1>6. ASSUME StopTransport
      PROVE  ChainFine
  BY <1>6 DEF StopTransport, ChainFine
<1>7. ASSUME ResumeReconnecting
      PROVE  ChainFine
  BY <1>4, <1>7 DEF ResumeReconnecting, ChainFine
<1>8. ASSUME ResumeConnecting
      PROVE  ChainFine
  BY <1>4, <1>8 DEF ResumeConnecting, ChainFine
<1>9. ASSUME ResumeOpen
      PROVE  ChainFine
  BY <1>9 DEF ResumeOpen, ChainFine
<1>10. ASSUME NEW c \in TransportCalls, Call(c)
      PROVE  ChainFine
  BY <1>10 DEF Call, ChainFine
<1>11. ASSUME HandleOpen
      PROVE  ChainFine
  BY <1>4, <1>11 DEF HandleOpen, ChainFine
<1>12. ASSUME HandleClose
      PROVE  ChainFine
  BY <1>12 DEF HandleClose, ChainFine
<1>13. ASSUME HintArrives
      PROVE  ChainFine
  <2>1. sock.hints \in Seq(1 .. MaxCommits) /\ sock.hints # <<>>
        /\ Enqueue(Task("hint", Head(sock.hints)))
    BY <1>13 DEF HintArrives, TransportTypeOK, Sockets
  <2>2. Head(sock.hints) \in 0 .. MaxCommits /\ Head(sock.hints) <= seq
    BY <2>1, HintsTail DEF TasksInv
  <2>3. Head(sock.hints) <= seq'
    BY <1>1, <2>2
  <2>4. OkAt(Task("hint", Head(sock.hints)), seq', have')
    BY <1>1, <2>2, <2>3, Queued, OkQueued
  <2>. QED
    BY <2>1, <2>2, <2>4, Queued DEF ChainFine
<1>14. ASSUME PongArrives
      PROVE  ChainFine
  BY <1>14 DEF PongArrives, ChainFine
<1>15. ASSUME HandshakeAcknowledged
      PROVE  ChainFine
  BY <1>4, <1>15 DEF HandshakeAcknowledged, HandshakeEnds, ChainFine
<1>16. ASSUME NEW c \in TransportCalls, ResultArrives(c)
      PROVE  ChainFine
  BY <1>16 DEF ResultArrives, ChainFine
<1>17. ASSUME HeartbeatFires
      PROVE  ChainFine
  BY <1>17 DEF HeartbeatFires, ChainFine
<1>18. ASSUME HandlePongTimeout
      PROVE  ChainFine
  BY <1>18 DEF HandlePongTimeout, ChainFine
<1>19. ASSUME HandleConnectTimeout
      PROVE  ChainFine
  BY <1>19 DEF HandleConnectTimeout, ChainFine
<1>20. ASSUME HealthyFires
      PROVE  ChainFine
  BY <1>20 DEF HealthyFires, ChainFine
<1>21. ASSUME ReconnectFires
      PROVE  ChainFine
  BY <1>4, <1>21 DEF ReconnectFires, ChainFine
<1>22. ASSUME NEW c \in TransportCalls, CallTimeout(c)
      PROVE  ChainFine
  BY <1>22 DEF CallTimeout, ChainFine
<1>23. ASSUME ReconnectBegins
      PROVE  ChainFine
  <2>1. chain # <<>> /\ (TaskEnds \/ Stage("gate"))
        /\ Head(chain).kind = "reconnect"
    BY <1>23 DEF ReconnectBegins, AtHead
  <2>2. ASSUME Stage("gate") PROVE ChainFine
    <3>1. PICK n \in Tasks :
             /\ n.kind = chain[1].kind /\ n.seq = chain[1].seq /\ n.read = chain[1].read
             /\ n.stage = "gate"
             /\ chain' = [chain EXCEPT ![1] = n]
      BY <1>2, <2>1, <2>2, StageIs
    <3>2. OkAt(n, seq', have')
      BY <1>1, <1>3, <2>1, <3>1 DEF OkAt, Tasks
    <3>. QED
      BY <2>1, <3>1, <3>2 DEF ChainFine
  <2>. QED
    BY <2>1, <2>2 DEF ChainFine
<1>24. ASSUME GateAllows
      PROVE  ChainFine
  BY <1>24 DEF GateAllows, AtHead, ChainFine
<1>25. ASSUME GateRefuses
      PROVE  ChainFine
  BY <1>25 DEF GateRefuses, AtHead, ChainFine
<1>26. ASSUME GateThrows
      PROVE  ChainFine
  BY <1>26 DEF GateThrows, AtHead, ChainFine
<1>27. ASSUME PullBegins
      PROVE  ChainFine
  <2>1. chain # <<>> /\ Stage("pulling") /\ Head(chain).kind # "reconnect"
    BY <1>27 DEF PullBegins, AtHead
  <2>2. ASSUME Stage("pulling") PROVE ChainFine
    <3>1. PICK n \in Tasks :
             /\ n.kind = chain[1].kind /\ n.seq = chain[1].seq /\ n.read = chain[1].read
             /\ n.stage = "pulling"
             /\ chain' = [chain EXCEPT ![1] = n]
      BY <1>2, <2>1, <2>2, StageIs
    <3>2. OkAt(n, seq', have')
      BY <1>1, <1>3, <2>1, <3>1 DEF OkAt, Tasks
    <3>. QED
      BY <2>1, <3>1, <3>2 DEF ChainFine
  <2>. QED
    BY <2>1, <2>2 DEF ChainFine
<1>28. ASSUME HintIsOld
      PROVE  ChainFine
  BY <1>28 DEF HintIsOld, AtHead, ChainFine
<1>29. ASSUME PullReads
      PROVE  ChainFine
  <2>1. chain # <<>> /\ Head(chain).stage = "pulling" /\ seq' = seq
    BY <1>29 DEF PullReads, positions
  <2>2. PICK n \in Tasks :
           /\ n.kind = chain[1].kind /\ n.seq = chain[1].seq /\ n.read = seq
           /\ n.stage = "read" /\ chain' = [chain EXCEPT ![1] = n]
    BY <1>1, <1>2, <1>29, ReadIs
  <2>3. OkAt(n, seq', have')
    BY <1>1, <1>3, <2>1, <2>2 DEF OkAt, Tasks
  <2>. QED
    BY <2>1, <2>2, <2>3 DEF ChainFine
<1>30. ASSUME PullReturns
      PROVE  ChainFine
  <2>1. chain # <<>> /\ (TaskEnds \/ Stage("apply"))
        /\ Head(chain).stage = "read" /\ have' = Larger(have, Head(chain).read)
    BY <1>30 DEF PullReturns
  <2>2. ASSUME Stage("apply") PROVE ChainFine
    <3>1. PICK n \in Tasks :
             /\ n.kind = chain[1].kind /\ n.seq = chain[1].seq /\ n.read = chain[1].read
             /\ n.stage = "apply"
             /\ chain' = [chain EXCEPT ![1] = n]
      BY <1>2, <2>1, <2>2, StageIs
    <3>2. OkAt(n, seq', have')
      BY <1>1, <1>3, <2>1, <3>1 DEF OkAt, Tasks, Larger
    <3>. QED
      BY <2>1, <3>1, <3>2 DEF ChainFine
  <2>. QED
    BY <2>1, <2>2 DEF ChainFine
<1>31. ASSUME PullFails
      PROVE  ChainFine
  BY <1>31 DEF PullFails, AtHead, ChainFine
<1>32. ASSUME HintApplied
      PROVE  ChainFine
  BY <1>32 DEF HintApplied, AtHead, ChainFine
<1>33. ASSUME Adopt
      PROVE  ChainFine
  BY <1>33 DEF Adopt, ChainFine
<1>34. ASSUME ServerChanges
      PROVE  ChainFine
  BY <1>34 DEF ServerChanges, ChainFine
<1>35. ASSUME SocketDrops
      PROVE  ChainFine
  BY <1>35 DEF SocketDrops, ChainFine
<1>36. ASSUME SocketDies
      PROVE  ChainFine
  BY <1>36 DEF SocketDies, ChainFine
<1>37. ASSUME HandshakeSent
      PROVE  ChainFine
  BY <1>37 DEF HandshakeSent, ChainFine
<1>38. ASSUME HandshakeFails
      PROVE  ChainFine
  BY <1>4, <1>38 DEF HandshakeFails, HandshakeEnds, ChainFine
<1>39. ASSUME UNCHANGED transportVars
      PROVE  ChainFine
  BY <1>39 DEF transportVars, ChainFine
<1>. QED
  BY <1>5, <1>6, <1>7, <1>8, <1>9, <1>10, <1>11, <1>12, <1>13, <1>14, <1>15,
     <1>16, <1>17, <1>18, <1>19, <1>20, <1>21, <1>22, <1>23, <1>24, <1>25,
     <1>26, <1>27, <1>28, <1>29, <1>30, <1>31, <1>32, <1>33, <1>34, <1>35,
     <1>36, <1>37, <1>38, <1>39 DEF TransportNext, AppSteps, Arrives,
     TimerFires, TaskStep, Peer

LEMMA TasksKept ==
    ASSUME TransportTypeOK, TasksInv, [TransportNext]_transportVars
    PROVE  \A i \in DOMAIN chain' : OkAt(chain'[i], seq', have')
<1>1. /\ have \in Nat /\ seq \in Nat /\ have' \in Nat /\ seq' \in Nat
      /\ have <= have' /\ seq <= seq'
  BY PositionsTyped, PositionsStep, TransportAssumption DEF PositionsFine
<1>2. chain \in Seq(Tasks)
  BY DEF TransportTypeOK
<1>3. \A i \in DOMAIN chain : chain[i] \in Tasks /\ OkAt(chain[i], seq', have')
  BY <1>1, <1>2, OkKept DEF TasksInv
<1>4. ASSUME NEW t \in Tasks, Enqueue(t), OkAt(t, seq', have')
      PROVE  \A i \in DOMAIN chain' : OkAt(chain'[i], seq', have')
  BY <1>2, <1>3, <1>4, Added
<1>5. ASSUME chain # <<>>, TaskEnds
      PROVE  \A i \in DOMAIN chain' : OkAt(chain'[i], seq', have')
  BY <1>2, <1>3, <1>5, Ended
<1>6. ASSUME chain # <<>>, NEW n \in Tasks, chain' = [chain EXCEPT ![1] = n],
             OkAt(n, seq', have')
      PROVE  \A i \in DOMAIN chain' : OkAt(chain'[i], seq', have')
  BY <1>2, <1>3, <1>6, Changed
<1>. QED
  BY <1>3, <1>4, <1>5, <1>6, ChainIsFine DEF ChainFine

(* What a step may do with the hints on their way.                         *)
HintsMove ==
    \/ sock'.hints \in {sock.hints, <<>>}
    \/ sock.hints # <<>> /\ sock'.hints = Tail(sock.hints)
    \/ /\ seq \in 0 .. MaxCommits - 1 /\ seq' = seq + 1
       /\ sock'.hints = Append(sock.hints, seq + 1)

LEMMA HintsStep ==
    ASSUME TransportTypeOK, [TransportNext]_transportVars
    PROVE  HintsMove
<1>1. sock \in Sockets /\ NoSocket.hints = <<>> /\ NewSocket.hints = <<>>
  BY FreshSockets DEF TransportTypeOK
<1>2. ASSUME Connect
      PROVE  HintsMove
  BY <1>1, <1>2 DEF Connect, OpenSocket, Sockets, HintsMove
<1>3. ASSUME StopTransport
      PROVE  HintsMove
  BY <1>1, <1>3 DEF StopTransport, Sockets, HintsMove
<1>4. ASSUME ResumeReconnecting
      PROVE  HintsMove
  BY <1>1, <1>4 DEF ResumeReconnecting, Sockets, HintsMove
<1>5. ASSUME ResumeConnecting
      PROVE  HintsMove
  BY <1>1, <1>5 DEF ResumeConnecting, Sockets, HintsMove
<1>6. ASSUME ResumeOpen
      PROVE  HintsMove
  BY <1>1, <1>6 DEF ResumeOpen, Sockets, HintsMove
<1>7. ASSUME NEW c \in TransportCalls, Call(c)
      PROVE  HintsMove
  BY <1>1, <1>7 DEF Call, Sockets, HintsMove
<1>8. ASSUME HandleOpen
      PROVE  HintsMove
  BY <1>1, <1>8 DEF HandleOpen, Sockets, HintsMove
<1>9. ASSUME HandleClose
      PROVE  HintsMove
  BY <1>1, <1>9 DEF HandleClose, Sockets, HintsMove
<1>10. ASSUME HintArrives
      PROVE  HintsMove
  BY <1>1, <1>10 DEF HintArrives, Heard, Sockets, HintsMove
<1>11. ASSUME PongArrives
      PROVE  HintsMove
  BY <1>1, <1>11 DEF PongArrives, Heard, Sockets, HintsMove
<1>12. ASSUME HandshakeAcknowledged
      PROVE  HintsMove
  BY <1>1, <1>12 DEF HandshakeAcknowledged, HandshakeEnds, Heard, Sockets, HintsMove
<1>13. ASSUME NEW c \in TransportCalls, ResultArrives(c)
      PROVE  HintsMove
  BY <1>1, <1>13 DEF ResultArrives, Heard, Sockets, HintsMove
<1>14. ASSUME HeartbeatFires
      PROVE  HintsMove
  BY <1>1, <1>14 DEF HeartbeatFires, Sockets, HintsMove
<1>15. ASSUME HandlePongTimeout
      PROVE  HintsMove
  BY <1>1, <1>15 DEF HandlePongTimeout, Sockets, HintsMove
<1>16. ASSUME HandleConnectTimeout
      PROVE  HintsMove
  BY <1>1, <1>16 DEF HandleConnectTimeout, Sockets, HintsMove
<1>17. ASSUME HealthyFires
      PROVE  HintsMove
  BY <1>1, <1>17 DEF HealthyFires, Sockets, HintsMove
<1>18. ASSUME ReconnectFires
      PROVE  HintsMove
  BY <1>1, <1>18 DEF ReconnectFires, Sockets, HintsMove
<1>19. ASSUME NEW c \in TransportCalls, CallTimeout(c)
      PROVE  HintsMove
  BY <1>1, <1>19 DEF CallTimeout, Sockets, HintsMove
<1>20. ASSUME ReconnectBegins
      PROVE  HintsMove
  BY <1>1, <1>20 DEF ReconnectBegins, Sockets, HintsMove
<1>21. ASSUME GateAllows
      PROVE  HintsMove
  BY <1>1, <1>21 DEF GateAllows, OpenSocket, Sockets, HintsMove
<1>22. ASSUME GateRefuses
      PROVE  HintsMove
  BY <1>1, <1>22 DEF GateRefuses, Sockets, HintsMove
<1>23. ASSUME GateThrows
      PROVE  HintsMove
  BY <1>1, <1>23 DEF GateThrows, Sockets, HintsMove
<1>24. ASSUME PullBegins
      PROVE  HintsMove
  BY <1>1, <1>24 DEF PullBegins, Sockets, HintsMove
<1>25. ASSUME HintIsOld
      PROVE  HintsMove
  BY <1>1, <1>25 DEF HintIsOld, Sockets, HintsMove
<1>26. ASSUME PullReads
      PROVE  HintsMove
  BY <1>1, <1>26 DEF PullReads, Sockets, HintsMove
<1>27. ASSUME PullReturns
      PROVE  HintsMove
  BY <1>1, <1>27 DEF PullReturns, Sockets, HintsMove
<1>28. ASSUME PullFails
      PROVE  HintsMove
  BY <1>1, <1>28 DEF PullFails, Sockets, HintsMove
<1>29. ASSUME HintApplied
      PROVE  HintsMove
  BY <1>1, <1>29 DEF HintApplied, Sockets, HintsMove
<1>30. ASSUME Adopt
      PROVE  HintsMove
  BY <1>1, <1>30 DEF Adopt, Sockets, HintsMove
<1>31. ASSUME ServerChanges
      PROVE  HintsMove
  <2>1. seq \in 0 .. MaxCommits - 1 /\ seq' = seq + 1
    BY <1>31, PositionsTyped, TransportAssumption DEF ServerChanges
  <2>. QED
    BY <1>1, <1>31, <2>1 DEF ServerChanges, Sockets, HintsMove
<1>32. ASSUME SocketDrops
      PROVE  HintsMove
  BY <1>1, <1>32 DEF SocketDrops, Sockets, HintsMove
<1>33. ASSUME SocketDies
      PROVE  HintsMove
  BY <1>1, <1>33 DEF SocketDies, Sockets, HintsMove
<1>34. ASSUME HandshakeSent
      PROVE  HintsMove
  BY <1>1, <1>34 DEF HandshakeSent, Sockets, HintsMove
<1>35. ASSUME HandshakeFails
      PROVE  HintsMove
  BY <1>1, <1>35 DEF HandshakeFails, HandshakeEnds, Sockets, HintsMove
<1>36. ASSUME UNCHANGED transportVars
      PROVE  HintsMove
  BY <1>36 DEF transportVars, HintsMove
<1>. QED
  BY <1>2, <1>3, <1>4, <1>5, <1>6, <1>7, <1>8, <1>9, <1>10, <1>11, <1>12,
     <1>13, <1>14, <1>15, <1>16, <1>17, <1>18, <1>19, <1>20, <1>21, <1>22,
     <1>23, <1>24, <1>25, <1>26, <1>27, <1>28, <1>29, <1>30, <1>31, <1>32,
     <1>33, <1>34, <1>35, <1>36 DEF TransportNext, AppSteps, Arrives,
     TimerFires, TaskStep, Peer

LEMMA TasksInvKept ==
    ASSUME TransportTypeOK, TasksInv, [TransportNext]_transportVars
    PROVE  TasksInv'
<1>1. /\ seq \in Nat /\ seq' \in Nat /\ seq <= seq' /\ cursor' <= have' /\ have' <= seq'
  BY PositionsTyped, PositionsStep, TransportAssumption DEF PositionsFine
<1>2. /\ sock.hints \in Seq(1 .. MaxCommits)
      /\ \A i \in DOMAIN sock.hints : sock.hints[i] \in 1 .. MaxCommits /\ sock.hints[i] <= seq'
  <2>1. sock.hints \in Seq(1 .. MaxCommits)
    BY DEF TransportTypeOK, Sockets
  <2>2. \A i \in DOMAIN sock.hints : sock.hints[i] \in 1 .. MaxCommits
    BY <2>1, ElementOfSeq, LenProperties
  <2>3. \A i \in DOMAIN sock.hints : sock.hints[i] <= seq
    BY DEF TasksInv
  <2>. QED
    BY <1>1, <2>1, <2>2, <2>3, TransportAssumption
<1>3. CASE sock'.hints \in {sock.hints, <<>>}
  <2>1. \A i \in DOMAIN sock'.hints : sock'.hints[i] <= seq'
    BY <1>2, <1>3
  <2>. QED
    BY <1>1, <2>1, TasksKept DEF TasksInv
<1>4. CASE sock.hints # <<>> /\ sock'.hints = Tail(sock.hints)
  <2>1. \A i \in DOMAIN sock'.hints : sock'.hints[i] <= seq'
    BY <1>2, <1>4, HintsTail
  <2>. QED
    BY <1>1, <2>1, TasksKept DEF TasksInv
<1>5. CASE /\ seq \in 0 .. MaxCommits - 1 /\ seq' = seq + 1
           /\ sock'.hints = Append(sock.hints, seq + 1)
  <2>1. seq + 1 \in 1 .. MaxCommits
    BY <1>5, TransportAssumption
  <2>2. \A i \in DOMAIN sock'.hints : sock'.hints[i] <= seq'
    BY <1>1, <1>2, <1>5, <2>1, HintsAppend
  <2>. QED
    BY <1>1, <2>2, TasksKept DEF TasksInv
<1>. QED
  BY <1>3, <1>4, <1>5, HintsStep DEF HintsMove

(* The rest of the types.                                                  *)
PlainTypes ==
    /\ status \in {"idle", "connecting", "open", "reconnecting", "stopped"}
    /\ stopped \in BOOLEAN /\ attempt \in BOOLEAN
    /\ timer \subseteq {"connect", "reconnect", "heartbeat", "pong", "healthy"}
    /\ pending \in [TransportCalls -> {"none", "waiting", "answered", "lost", "timed out"}]

LEMMA PlainTypesKept ==
    ASSUME TransportTypeOK, [TransportNext]_transportVars
    PROVE  PlainTypes'
<1>1. PlainTypes
  BY DEF TransportTypeOK, PlainTypes
<1>2. ASSUME Connect
      PROVE  PlainTypes'
  BY <1>1, <1>2 DEF Connect, OpenSocket, PlainTypes
<1>3. ASSUME StopTransport
      PROVE  PlainTypes'
  BY <1>1, <1>3 DEF StopTransport, RejectAllPending, PlainTypes
<1>4. ASSUME ResumeReconnecting
      PROVE  PlainTypes'
  BY <1>1, <1>4 DEF ResumeReconnecting, PlainTypes
<1>5. ASSUME ResumeConnecting
      PROVE  PlainTypes'
  BY <1>1, <1>5 DEF ResumeConnecting, PlainTypes
<1>6. ASSUME ResumeOpen
      PROVE  PlainTypes'
  BY <1>1, <1>6 DEF ResumeOpen, Ping, PlainTypes
<1>7. ASSUME NEW c \in TransportCalls, Call(c)
      PROVE  PlainTypes'
  BY <1>1, <1>7 DEF Call, PlainTypes
<1>8. ASSUME HandleOpen
      PROVE  PlainTypes'
  BY <1>1, <1>8 DEF HandleOpen, PlainTypes
<1>9. ASSUME HandleClose
      PROVE  PlainTypes'
  BY <1>1, <1>9 DEF HandleClose, RejectAllPending, ScheduleReconnect, PlainTypes
<1>10. ASSUME HintArrives
      PROVE  PlainTypes'
  BY <1>1, <1>10 DEF HintArrives, TryResetBackoff, PlainTypes
<1>11. ASSUME PongArrives
      PROVE  PlainTypes'
  BY <1>1, <1>11 DEF PongArrives, TryResetBackoff, PlainTypes
<1>12. ASSUME HandshakeAcknowledged
      PROVE  PlainTypes'
  BY <1>1, <1>12 DEF HandshakeAcknowledged, HandshakeEnds, TryResetBackoff, PlainTypes
<1>13. ASSUME NEW c \in TransportCalls, ResultArrives(c)
      PROVE  PlainTypes'
  BY <1>1, <1>13 DEF ResultArrives, TryResetBackoff, PlainTypes
<1>14. ASSUME HeartbeatFires
      PROVE  PlainTypes'
  BY <1>1, <1>14 DEF HeartbeatFires, Ping, PlainTypes
<1>15. ASSUME HandlePongTimeout
      PROVE  PlainTypes'
  BY <1>1, <1>15 DEF HandlePongTimeout, RejectAllPending, ScheduleReconnect, PlainTypes
<1>16. ASSUME HandleConnectTimeout
      PROVE  PlainTypes'
  BY <1>1, <1>16 DEF HandleConnectTimeout, ScheduleReconnect, PlainTypes
<1>17. ASSUME HealthyFires
      PROVE  PlainTypes'
  BY <1>1, <1>17 DEF HealthyFires, TryResetBackoff, PlainTypes
<1>18. ASSUME ReconnectFires
      PROVE  PlainTypes'
  BY <1>1, <1>18 DEF ReconnectFires, PlainTypes
<1>19. ASSUME NEW c \in TransportCalls, CallTimeout(c)
      PROVE  PlainTypes'
  BY <1>1, <1>19 DEF CallTimeout, PlainTypes
<1>20. ASSUME ReconnectBegins
      PROVE  PlainTypes'
  BY <1>1, <1>20 DEF ReconnectBegins, PlainTypes
<1>21. ASSUME GateAllows
      PROVE  PlainTypes'
  BY <1>1, <1>21 DEF GateAllows, OpenSocket, PlainTypes
<1>22. ASSUME GateRefuses
      PROVE  PlainTypes'
  BY <1>1, <1>22 DEF GateRefuses, PlainTypes
<1>23. ASSUME GateThrows
      PROVE  PlainTypes'
  BY <1>1, <1>23 DEF GateThrows, ScheduleReconnect, PlainTypes
<1>24. ASSUME PullBegins
      PROVE  PlainTypes'
  BY <1>1, <1>24 DEF PullBegins, PlainTypes
<1>25. ASSUME HintIsOld
      PROVE  PlainTypes'
  BY <1>1, <1>25 DEF HintIsOld, PlainTypes
<1>26. ASSUME PullReads
      PROVE  PlainTypes'
  BY <1>1, <1>26 DEF PullReads, PlainTypes
<1>27. ASSUME PullReturns
      PROVE  PlainTypes'
  BY <1>1, <1>27 DEF PullReturns, PlainTypes
<1>28. ASSUME PullFails
      PROVE  PlainTypes'
  BY <1>1, <1>28 DEF PullFails, PlainTypes
<1>29. ASSUME HintApplied
      PROVE  PlainTypes'
  BY <1>1, <1>29 DEF HintApplied, PlainTypes
<1>30. ASSUME Adopt
      PROVE  PlainTypes'
  BY <1>1, <1>30 DEF Adopt, PlainTypes
<1>31. ASSUME ServerChanges
      PROVE  PlainTypes'
  BY <1>1, <1>31 DEF ServerChanges, PlainTypes
<1>32. ASSUME SocketDrops
      PROVE  PlainTypes'
  BY <1>1, <1>32 DEF SocketDrops, PlainTypes
<1>33. ASSUME SocketDies
      PROVE  PlainTypes'
  BY <1>1, <1>33 DEF SocketDies, PlainTypes
<1>34. ASSUME HandshakeSent
      PROVE  PlainTypes'
  BY <1>1, <1>34 DEF HandshakeSent, PlainTypes
<1>35. ASSUME HandshakeFails
      PROVE  PlainTypes'
  BY <1>1, <1>35 DEF HandshakeFails, HandshakeEnds, PlainTypes
<1>36. ASSUME UNCHANGED transportVars
      PROVE  PlainTypes'
  BY <1>1, <1>36 DEF transportVars, PlainTypes
<1>. QED
  BY <1>2, <1>3, <1>4, <1>5, <1>6, <1>7, <1>8, <1>9, <1>10, <1>11, <1>12,
     <1>13, <1>14, <1>15, <1>16, <1>17, <1>18, <1>19, <1>20, <1>21, <1>22,
     <1>23, <1>24, <1>25, <1>26, <1>27, <1>28, <1>29, <1>30, <1>31, <1>32,
     <1>33, <1>34, <1>35, <1>36 DEF TransportNext, AppSteps, Arrives,
     TimerFires, TaskStep, Peer

LEMMA TransportTyped ==
    ASSUME TransportTypeOK, TasksInv, [TransportNext]_transportVars
    PROVE  TransportTypeOK'
<1>1. {cursor', have', seq'} \subseteq 0 .. MaxCommits
  BY PositionsStep DEF PositionsFine
<1>. QED
  BY <1>1, PlainTypesKept, SocketsKept, ChainTyped DEF TransportTypeOK, PlainTypes

-----------------------------------------------------------------------------
(* Status, timers and socket, for an app that waits for the gate.          *)

LEMMA GateMoves ==
    ASSUME chain \in Seq(Tasks), OneReconnect
    PROVE  /\ UNCHANGED chain => (ReconnectDue' <=> ReconnectDue)
           /\ Enqueue(Task("held", 0)) => (ReconnectDue' <=> ReconnectDue)
           /\ Enqueue(Task("reconnect", 0)) => ReconnectDue'
           /\ chain # <<>> /\ TaskEnds
                 => (ReconnectDue' <=> ReconnectDue /\ Head(chain).kind # "reconnect")
           /\ chain # <<>> /\ Head(chain).kind = "reconnect" => ReconnectDue
<1>1. 0 \in 0 .. MaxCommits
  BY TransportAssumption
<1>2. UNCHANGED chain => (ReconnectDue' <=> ReconnectDue)
  BY DEF ReconnectDue
<1>3. Enqueue(Task("held", 0)) => (ReconnectDue' <=> ReconnectDue)
  BY <1>1, Queued, GateAdded
<1>4. Enqueue(Task("reconnect", 0)) => ReconnectDue'
  BY <1>1, Queued, GateAdded
<1>5. chain # <<>> /\ TaskEnds
         => (ReconnectDue' <=> ReconnectDue /\ Head(chain).kind # "reconnect")
  BY First, GateEnded
<1>6. chain # <<>> /\ Head(chain).kind = "reconnect" => ReconnectDue
  BY First DEF ReconnectDue
<1>. QED
  BY <1>2, <1>3, <1>4, <1>5, <1>6

LEMMA AskMoves ==
    ASSUME TransportInv, [TransportNext]_transportVars
    PROVE  /\ UNCHANGED chain => (AtGate' <=> AtGate)
           /\ Enqueue(Task("held", 0)) => (AtGate' <=> AtGate)
           /\ Enqueue(Task("reconnect", 0)) => (AtGate' <=> AtGate)
           /\ chain # <<>> /\ TaskEnds => (AtGate' => AtGate)
           /\ AtHead("reconnect", "gate") => AtGate
           /\ AtGate' => ReconnectDue'
<1>1. chain \in Seq(Tasks) /\ 0 \in 0 .. MaxCommits
  <2>1. chain \in Seq(Tasks)
    BY DEF TransportInv, TransportTypeOK
  <2>2. 0 \in 0 .. MaxCommits
    BY TransportAssumption
  <2>. QED
    BY <2>1, <2>2
<1>2. UNCHANGED chain => (AtGate' <=> AtGate)
  BY DEF AtGate
<1>3. Enqueue(Task("held", 0)) => (AtGate' <=> AtGate)
  BY <1>1, Queued, AskAdded
<1>4. Enqueue(Task("reconnect", 0)) => (AtGate' <=> AtGate)
  BY <1>1, Queued, AskAdded
<1>5. chain # <<>> /\ TaskEnds => (AtGate' => AtGate)
  BY <1>1, AskEnded
<1>6. AtHead("reconnect", "gate") => AtGate
  BY <1>1, First DEF AtHead, AtGate
<1>7. AtGate' => ReconnectDue'
  <2>1. TasksInv'
    BY TasksInvKept DEF TransportInv
  <2>. QED
    BY <2>1 DEF TasksInv, OkAt, AtGate, ReconnectDue
<1>. QED
  BY <1>2, <1>3, <1>4, <1>5, <1>6, <1>7

LEMMA ShapeKept ==
    ASSUME ~Impatient, TransportInv, [TransportNext]_transportVars
    PROVE  ShapeInv'
<1>1. /\ status \in {"idle", "connecting", "open", "reconnecting", "stopped"}
      /\ stopped \in BOOLEAN /\ sock \in Sockets
  BY DEF TransportInv, TransportTypeOK
<1>2. chain \in Seq(Tasks)
  BY DEF TransportInv, TransportTypeOK
<1>3. /\ UNCHANGED chain => (ReconnectDue' <=> ReconnectDue)
      /\ Enqueue(Task("held", 0)) => (ReconnectDue' <=> ReconnectDue)
      /\ Enqueue(Task("reconnect", 0)) => ReconnectDue'
      /\ chain # <<>> /\ TaskEnds
            => (ReconnectDue' <=> ReconnectDue /\ Head(chain).kind # "reconnect")
      /\ chain # <<>> /\ Head(chain).kind = "reconnect" => ReconnectDue
      /\ UNCHANGED chain => (AtGate' <=> AtGate)
      /\ Enqueue(Task("held", 0)) => (AtGate' <=> AtGate)
      /\ Enqueue(Task("reconnect", 0)) => (AtGate' <=> AtGate)
      /\ chain # <<>> /\ TaskEnds => (AtGate' => AtGate)
      /\ AtHead("reconnect", "gate") => AtGate
      /\ AtGate' => ReconnectDue'
  BY <1>2, GateMoves, AskMoves DEF TransportInv, TransportTypeOK
<1>4. chain # <<>> /\ Head(chain).stage \in {"pulling", "read", "apply"}
         => Head(chain).kind # "reconnect"
  BY <1>2, First DEF TransportInv, TasksInv, OkAt
<1>5. /\ stopped <=> status = "stopped"
      /\ ReconnectDue => status \in {"reconnecting", "stopped"}
      /\ AtGate => status = "reconnecting"
      /\ status \in {"idle", "stopped", "reconnecting"} => sock = NoSocket
      /\ status \in {"idle", "stopped"} => timer = {}
      /\ status = "reconnecting" => timer = IF ReconnectDue THEN {} ELSE {"reconnect"}
      /\ status = "connecting" =>
            /\ sock.state \in {"connecting", "closed"} /\ timer = {"connect"}
            /\ sock.carried = {} /\ ~sock.reconnect /\ sock.shake = "none"
      /\ status = "open" =>
            /\ sock.state \in {"open", "closed"} /\ sock.shake # "none"
            /\ "heartbeat" \in timer /\ timer \subseteq OpenTimers
  BY DEF TransportInv, ShapeInv
<1>6. /\ UNCHANGED <<status, stopped, timer, sock>>
      /\ ReconnectDue' <=> ReconnectDue
      /\ AtGate' => AtGate
      => ShapeInv'
  BY <1>5 DEF ShapeInv
<1>7. ASSUME Connect
      PROVE  ShapeInv'
  BY <1>1, <1>3, <1>4, <1>5, FreshSockets, <1>7 DEF Connect, OpenSocket,
     ShapeInv, OpenTimers, Sockets
<1>8. ASSUME StopTransport
      PROVE  ShapeInv'
  BY <1>1, <1>3, <1>4, <1>5, FreshSockets, <1>8 DEF StopTransport,
     ShapeInv, OpenTimers, Sockets
<1>9. ASSUME ResumeReconnecting
      PROVE  ShapeInv'
  BY <1>1, <1>3, <1>4, <1>5, FreshSockets, <1>9 DEF ResumeReconnecting,
     ShapeInv, OpenTimers, Sockets
<1>10. ASSUME ResumeConnecting
      PROVE  ShapeInv'
  BY <1>1, <1>3, <1>4, <1>5, FreshSockets, <1>10 DEF ResumeConnecting,
     ShapeInv, OpenTimers, Sockets
<1>11. ASSUME ResumeOpen
      PROVE  ShapeInv'
  BY <1>1, <1>3, <1>4, <1>5, FreshSockets, <1>11 DEF ResumeOpen, Ping,
     ShapeInv, OpenTimers, Sockets
<1>12. ASSUME NEW c \in TransportCalls, Call(c)
      PROVE  ShapeInv'
  BY <1>1, <1>3, <1>4, <1>5, FreshSockets, <1>12 DEF Call,
     ShapeInv, OpenTimers, Sockets
<1>13. ASSUME HandleOpen
      PROVE  ShapeInv'
  BY <1>1, <1>3, <1>4, <1>5, FreshSockets, <1>13 DEF HandleOpen,
     ShapeInv, OpenTimers, Sockets
<1>14. ASSUME HandleClose
      PROVE  ShapeInv'
  BY <1>1, <1>3, <1>4, <1>5, FreshSockets, <1>14 DEF HandleClose, ScheduleReconnect,
     ShapeInv, OpenTimers, Sockets
<1>15. ASSUME HintArrives
      PROVE  ShapeInv'
  <2>1. Enqueue(Task("hint", Head(sock.hints)))
    BY <1>15 DEF HintArrives
  <2>2. Task("hint", Head(sock.hints)) \in Tasks /\ Task("hint", Head(sock.hints)).kind = "hint"
    <3>1. sock.hints \in Seq(1 .. MaxCommits) /\ sock.hints # <<>>
      BY <1>1, <1>15 DEF HintArrives, Sockets
    <3>2. Head(sock.hints) \in 0 .. MaxCommits
      BY <3>1, HintsTail
    <3>. QED
      BY <3>2, Queued
  <2>3. ReconnectDue' <=> ReconnectDue
    BY <1>2, <2>1, <2>2, GateAdded
  <2>4. AtGate' <=> AtGate
    BY <1>2, <2>1, <2>2, AskAdded DEF Task
  <2>. QED
    BY <1>1, <1>5, <1>15, <2>3, <2>4, FreshSockets DEF HintArrives, Heard, ShapeInv, OpenTimers,
       Sockets
<1>16. ASSUME PongArrives
      PROVE  ShapeInv'
  BY <1>1, <1>3, <1>4, <1>5, FreshSockets, <1>16 DEF PongArrives, Heard,
     ShapeInv, OpenTimers, Sockets
<1>17. ASSUME HandshakeAcknowledged
      PROVE  ShapeInv'
  BY <1>1, <1>3, <1>4, <1>5, FreshSockets, <1>17 DEF HandshakeAcknowledged, HandshakeEnds,
     Heard,
     ShapeInv, OpenTimers, Sockets
<1>18. ASSUME NEW c \in TransportCalls, ResultArrives(c)
      PROVE  ShapeInv'
  BY <1>1, <1>3, <1>4, <1>5, FreshSockets, <1>18 DEF ResultArrives, Heard,
     ShapeInv, OpenTimers, Sockets
<1>19. ASSUME HeartbeatFires
      PROVE  ShapeInv'
  BY <1>1, <1>3, <1>4, <1>5, FreshSockets, <1>19 DEF HeartbeatFires, Ping,
     ShapeInv, OpenTimers, Sockets
<1>20. ASSUME HandlePongTimeout
      PROVE  ShapeInv'
  BY <1>1, <1>3, <1>4, <1>5, FreshSockets, <1>20 DEF HandlePongTimeout, ScheduleReconnect,
     ShapeInv, OpenTimers, Sockets
<1>21. ASSUME HandleConnectTimeout
      PROVE  ShapeInv'
  BY <1>1, <1>3, <1>4, <1>5, FreshSockets, <1>21 DEF HandleConnectTimeout,
     ScheduleReconnect,
     ShapeInv, OpenTimers, Sockets
<1>22. ASSUME HealthyFires
      PROVE  ShapeInv'
  BY <1>1, <1>3, <1>4, <1>5, FreshSockets, <1>22 DEF HealthyFires,
     ShapeInv, OpenTimers, Sockets
<1>23. ASSUME ReconnectFires
      PROVE  ShapeInv'
  BY <1>1, <1>3, <1>4, <1>5, FreshSockets, <1>23 DEF ReconnectFires,
     ShapeInv, OpenTimers, Sockets
<1>24. ASSUME NEW c \in TransportCalls, CallTimeout(c)
      PROVE  ShapeInv'
  BY <1>1, <1>3, <1>4, <1>5, FreshSockets, <1>24 DEF CallTimeout,
     ShapeInv, OpenTimers, Sockets
<1>25. ASSUME ReconnectBegins
      PROVE  ShapeInv'
  <2>1. chain # <<>> /\ ReconnectDue /\ UNCHANGED <<status, stopped, timer, sock>>
    BY <1>3, <1>25 DEF ReconnectBegins, AtHead
  <2>2. CASE stopped
    <3>1. TaskEnds /\ status = "stopped"
      BY <1>5, <1>25, <2>2 DEF ReconnectBegins
    <3>2. ~AtGate' /\ (ReconnectDue' => ReconnectDue)
      BY <1>3, <1>5, <2>1, <3>1
    <3>. QED
      BY <1>5, <2>1, <3>1, <3>2 DEF ShapeInv
  <2>3. CASE ~stopped
    <3>1. Stage("gate") /\ status = "reconnecting"
      BY <1>1, <1>5, <1>25, <2>1, <2>3 DEF ReconnectBegins
    <3>2. ReconnectDue' <=> ReconnectDue
      BY <1>2, <2>1, <3>1, StageIs, GateKept
    <3>. QED
      BY <1>5, <2>1, <3>1, <3>2 DEF ShapeInv
  <2>. QED
    BY <2>2, <2>3
<1>26. ASSUME GateAllows
      PROVE  ShapeInv'
  BY <1>1, <1>3, <1>4, <1>5, FreshSockets, <1>26 DEF GateAllows, OpenSocket, AtHead,
     ShapeInv, OpenTimers, Sockets
<1>27. ASSUME GateRefuses
      PROVE  ShapeInv'
  BY <1>1, <1>3, <1>4, <1>5, FreshSockets, <1>27 DEF GateRefuses, AtHead,
     ShapeInv, OpenTimers, Sockets
<1>28. ASSUME GateThrows
      PROVE  ShapeInv'
  BY <1>1, <1>3, <1>4, <1>5, FreshSockets, <1>28 DEF GateThrows, ScheduleReconnect, AtHead,
     ShapeInv, OpenTimers, Sockets
<1>29. ASSUME PullBegins
      PROVE  ShapeInv'
  <2>1. chain # <<>> /\ Stage("pulling")
    BY <1>29 DEF PullBegins, AtHead
  <2>2. Stage("pulling") => (ReconnectDue' <=> ReconnectDue) /\ (AtGate' => AtGate)
    BY <1>2, <2>1, StageIs, GateKept, AskChanged
  <2>. QED
    BY <1>1, <1>3, <1>4, <1>5, <1>6, <1>29, <2>1, <2>2 DEF PullBegins, AtHead
<1>30. ASSUME HintIsOld
      PROVE  ShapeInv'
  BY <1>1, <1>3, <1>4, <1>5, FreshSockets, <1>30 DEF HintIsOld, AtHead,
     ShapeInv, OpenTimers, Sockets
<1>31. ASSUME PullReads
      PROVE  ShapeInv'
  <2>1. chain # <<>>
    BY <1>31 DEF PullReads
  <2>2. seq \in 0 .. MaxCommits
    BY PositionsTyped DEF TransportInv
  <2>3. (ReconnectDue' <=> ReconnectDue) /\ (AtGate' => AtGate)
    BY <1>2, <1>31, <2>1, <2>2, ReadIs, GateKept, AskChanged
  <2>. QED
    BY <1>6, <1>31, <2>3 DEF PullReads
<1>32. ASSUME PullReturns
      PROVE  ShapeInv'
  <2>1. chain # <<>> /\ (TaskEnds \/ Stage("apply"))
    BY <1>32 DEF PullReturns, AtHead
  <2>2. Stage("apply") => (ReconnectDue' <=> ReconnectDue) /\ (AtGate' => AtGate)
    BY <1>2, <2>1, StageIs, GateKept, AskChanged
  <2>. QED
    BY <1>1, <1>3, <1>4, <1>5, <1>6, <1>32, <2>1, <2>2 DEF PullReturns, AtHead
<1>33. ASSUME PullFails
      PROVE  ShapeInv'
  BY <1>1, <1>3, <1>4, <1>5, FreshSockets, <1>33 DEF PullFails,
     ShapeInv, OpenTimers, Sockets
<1>34. ASSUME HintApplied
      PROVE  ShapeInv'
  BY <1>1, <1>3, <1>4, <1>5, FreshSockets, <1>34 DEF HintApplied,
     ShapeInv, OpenTimers, Sockets
<1>35. ASSUME Adopt
      PROVE  ShapeInv'
  BY <1>1, <1>3, <1>4, <1>5, FreshSockets, <1>35 DEF Adopt,
     ShapeInv, OpenTimers, Sockets
<1>36. ASSUME ServerChanges
      PROVE  ShapeInv'
  BY <1>1, <1>3, <1>4, <1>5, FreshSockets, <1>36 DEF ServerChanges,
     ShapeInv, OpenTimers, Sockets
<1>37. ASSUME SocketDrops
      PROVE  ShapeInv'
  BY <1>1, <1>3, <1>4, <1>5, FreshSockets, <1>37 DEF SocketDrops,
     ShapeInv, OpenTimers, Sockets
<1>38. ASSUME SocketDies
      PROVE  ShapeInv'
  BY <1>1, <1>3, <1>4, <1>5, FreshSockets, <1>38 DEF SocketDies,
     ShapeInv, OpenTimers, Sockets
<1>39. ASSUME HandshakeSent
      PROVE  ShapeInv'
  BY <1>1, <1>3, <1>4, <1>5, FreshSockets, <1>39 DEF HandshakeSent,
     ShapeInv, OpenTimers, Sockets
<1>40. ASSUME HandshakeFails
      PROVE  ShapeInv'
  BY <1>1, <1>3, <1>4, <1>5, FreshSockets, <1>40 DEF HandshakeFails, HandshakeEnds,
     ShapeInv, OpenTimers, Sockets
<1>41. ASSUME UNCHANGED transportVars
      PROVE  ShapeInv'
  BY <1>3, <1>6, <1>41 DEF transportVars
<1>. QED
  BY <1>7, <1>8, <1>9, <1>10, <1>11, <1>12, <1>13, <1>14, <1>15, <1>16,
     <1>17, <1>18, <1>19, <1>20, <1>21, <1>22, <1>23, <1>24, <1>25, <1>26,
     <1>27, <1>28, <1>29, <1>30, <1>31, <1>32, <1>33, <1>34, <1>35, <1>36,
     <1>37, <1>38, <1>39, <1>40, <1>41 DEF TransportNext, AppSteps, Arrives,
     TimerFires, TaskStep, Peer

LEMMA OneReconnectKept ==
    ASSUME ~Impatient, TransportInv, [TransportNext]_transportVars
    PROVE  OneReconnect'
<1>1. chain \in Seq(Tasks) /\ OneReconnect
  BY DEF TransportInv, TransportTypeOK
<1>2. ResumeReconnecting \/ ResumeConnecting \/ ReconnectFires => ~ReconnectDue
  BY DEF TransportInv, ShapeInv, OpenTimers, TransportTypeOK, ResumeReconnecting,
     ResumeConnecting, ReconnectFires
<1>3. ASSUME UNCHANGED chain PROVE OneReconnect'
  BY <1>1, <1>3 DEF OneReconnect
<1>4. ASSUME NEW t \in Tasks, Enqueue(t), t.kind = "reconnect" => ~ReconnectDue
      PROVE  OneReconnect'
  BY <1>1, <1>4, Added DEF OneReconnect, ReconnectDue
<1>5. ASSUME chain # <<>>, TaskEnds PROVE OneReconnect'
  <2>1. ASSUME NEW i \in DOMAIN chain', NEW j \in DOMAIN chain',
               chain'[i].kind = "reconnect", chain'[j].kind = "reconnect"
        PROVE  i = j
    <3>1. i \in Int /\ j \in Int
      BY <1>1, <1>5, Ended
    <3>2. i + 1 = j + 1
      BY <1>1, <1>5, <2>1, Ended DEF OneReconnect
    <3>. QED
      BY <3>1, <3>2
  <2>. QED
    BY <2>1 DEF OneReconnect
<1>6. ASSUME chain # <<>>, NEW n \in Tasks, chain' = [chain EXCEPT ![1] = n],
             n.kind = chain[1].kind
      PROVE  OneReconnect'
  BY <1>1, <1>6, Changed DEF OneReconnect
<1>7. TransportTypeOK /\ TasksInv
  BY DEF TransportInv
<1>. QED
  BY <1>2, <1>3, <1>4, <1>5, <1>6, <1>7, ChainIsFine DEF ChainFine

LEMMA CallsKept ==
    ASSUME ~Impatient, TransportInv, [TransportNext]_transportVars
    PROVE  NoCallHangs'
<1>1. /\ status \in {"idle", "connecting", "open", "reconnecting", "stopped"}
      /\ sock \in Sockets
  BY DEF TransportInv, TransportTypeOK
<1>2. pending \in [TransportCalls -> {"none", "waiting", "answered", "lost", "timed out"}]
  BY DEF TransportInv, TransportTypeOK
<1>3. \A d \in TransportCalls : pending[d] = "waiting" => d \in sock.carried
  BY DEF TransportInv, NoCallHangs
<1>4. /\ status \in {"idle", "stopped", "reconnecting"} => sock = NoSocket
      /\ status = "connecting" => sock.carried = {}
      /\ status = "connecting" => timer = {"connect"}
      /\ status = "open" => sock.state \in {"open", "closed"} /\ timer \subseteq OpenTimers
      /\ status = "open" => sock.state \in {"open", "closed"} /\ "heartbeat" \in timer
      /\ chain # <<>> /\ Head(chain).kind = "reconnect"
            => status \in {"reconnecting", "stopped"}
      /\ "reconnect" \in timer => status = "reconnecting"
      /\ "connect" \in timer => status = "connecting"
  <2>1. chain # <<>> /\ Head(chain).kind = "reconnect" => ReconnectDue
    BY First DEF ReconnectDue, TransportInv, TransportTypeOK
  <2>. QED
    BY <1>1, <2>1 DEF TransportInv, ShapeInv, OpenTimers
<1>5. UNCHANGED pending /\ sock'.carried = sock.carried => NoCallHangs'
  BY <1>3 DEF NoCallHangs
<1>6. ASSUME Connect
      PROVE  NoCallHangs'
  BY <1>1, <1>2, <1>3, <1>4, FreshSockets, <1>6
  DEF Connect, OpenSocket, NoCallHangs, Sockets
<1>7. ASSUME StopTransport
      PROVE  NoCallHangs'
  BY <1>1, <1>2, <1>3, <1>4, FreshSockets, <1>7
  DEF StopTransport, RejectAllPending, NoCallHangs, Sockets
<1>8. ASSUME ResumeReconnecting
      PROVE  NoCallHangs'
  BY <1>1, <1>2, <1>3, <1>4, FreshSockets, <1>8
  DEF ResumeReconnecting, NoCallHangs, Sockets
<1>9. ASSUME ResumeConnecting
      PROVE  NoCallHangs'
  BY <1>1, <1>2, <1>3, <1>4, FreshSockets, <1>9
  DEF ResumeConnecting, NoCallHangs, Sockets
<1>10. ASSUME ResumeOpen
      PROVE  NoCallHangs'
  BY <1>1, <1>2, <1>3, <1>4, FreshSockets, <1>10
  DEF ResumeOpen, NoCallHangs, Sockets
<1>11. ASSUME NEW c \in TransportCalls, Call(c)
      PROVE  NoCallHangs'
  <2>1. CASE /\ pending' = [pending EXCEPT ![c] = "waiting"]
             /\ sock' = [sock EXCEPT !.carried = @ \cup {c}]
    <3>1. sock'.carried = sock.carried \cup {c}
      BY <1>1, <2>1 DEF Sockets
    <3>. QED
      BY <1>2, <1>3, <2>1, <3>1 DEF NoCallHangs
  <2>2. CASE pending' = [pending EXCEPT ![c] = "lost"] /\ UNCHANGED sock
    BY <1>2, <1>3, <2>2 DEF NoCallHangs
  <2>. QED
    BY <1>11, <2>1, <2>2 DEF Call
<1>12. ASSUME HandleOpen
      PROVE  NoCallHangs'
  BY <1>1, <1>2, <1>3, <1>4, FreshSockets, <1>12
  DEF HandleOpen, NoCallHangs, Sockets
<1>13. ASSUME HandleClose
      PROVE  NoCallHangs'
  BY <1>1, <1>2, <1>3, <1>4, FreshSockets, <1>13
  DEF HandleClose, RejectAllPending, NoCallHangs, Sockets
<1>14. ASSUME HintArrives
      PROVE  NoCallHangs'
  BY <1>1, <1>2, <1>3, <1>4, FreshSockets, <1>14
  DEF HintArrives, Heard, NoCallHangs, Sockets
<1>15. ASSUME PongArrives
      PROVE  NoCallHangs'
  BY <1>1, <1>2, <1>3, <1>4, FreshSockets, <1>15
  DEF PongArrives, Heard, NoCallHangs, Sockets
<1>16. ASSUME HandshakeAcknowledged
      PROVE  NoCallHangs'
  BY <1>1, <1>5, <1>16 DEF HandshakeAcknowledged, HandshakeEnds, Heard, Sockets
<1>17. ASSUME NEW c \in TransportCalls, ResultArrives(c)
      PROVE  NoCallHangs'
  BY <1>1, <1>2, <1>3, <1>4, FreshSockets, <1>17
  DEF ResultArrives, Heard, NoCallHangs, Sockets
<1>18. ASSUME HeartbeatFires
      PROVE  NoCallHangs'
  BY <1>1, <1>2, <1>3, <1>4, FreshSockets, <1>18
  DEF HeartbeatFires, NoCallHangs, Sockets
<1>19. ASSUME HandlePongTimeout
      PROVE  NoCallHangs'
  <2>1. CASE sock = NoSocket
    <3>1. UNCHANGED pending /\ sock'.carried = sock.carried
      BY <1>19, <2>1 DEF HandlePongTimeout
    <3>. QED
      BY <1>5, <3>1
  <2>2. CASE sock # NoSocket
    <3>1. RejectAllPending
      BY <1>19, <2>2 DEF HandlePongTimeout
    <3>. QED
      BY <1>2, <3>1 DEF RejectAllPending, NoCallHangs
  <2>. QED
    BY <2>1, <2>2
<1>20. ASSUME HandleConnectTimeout
      PROVE  NoCallHangs'
  BY <1>1, <1>2, <1>3, <1>4, FreshSockets, <1>20
  DEF HandleConnectTimeout, NoCallHangs, Sockets
<1>21. ASSUME HealthyFires
      PROVE  NoCallHangs'
  BY <1>1, <1>2, <1>3, <1>4, FreshSockets, <1>21
  DEF HealthyFires, NoCallHangs, Sockets
<1>22. ASSUME ReconnectFires
      PROVE  NoCallHangs'
  BY <1>1, <1>2, <1>3, <1>4, FreshSockets, <1>22
  DEF ReconnectFires, NoCallHangs, Sockets
<1>23. ASSUME NEW c \in TransportCalls, CallTimeout(c)
      PROVE  NoCallHangs'
  BY <1>1, <1>2, <1>3, <1>4, FreshSockets, <1>23
  DEF CallTimeout, NoCallHangs, Sockets
<1>24. ASSUME ReconnectBegins
      PROVE  NoCallHangs'
  BY <1>1, <1>2, <1>3, <1>4, FreshSockets, <1>24
  DEF ReconnectBegins, AtHead, NoCallHangs, Sockets
<1>25. ASSUME GateAllows
      PROVE  NoCallHangs'
  BY <1>1, <1>2, <1>3, <1>4, FreshSockets, <1>25
  DEF GateAllows, AtHead, OpenSocket, NoCallHangs, Sockets
<1>26. ASSUME GateRefuses
      PROVE  NoCallHangs'
  BY <1>1, <1>2, <1>3, <1>4, FreshSockets, <1>26
  DEF GateRefuses, AtHead, NoCallHangs, Sockets
<1>27. ASSUME GateThrows
      PROVE  NoCallHangs'
  BY <1>1, <1>2, <1>3, <1>4, FreshSockets, <1>27
  DEF GateThrows, AtHead, NoCallHangs, Sockets
<1>28. ASSUME PullBegins
      PROVE  NoCallHangs'
  BY <1>1, <1>2, <1>3, <1>4, FreshSockets, <1>28
  DEF PullBegins, AtHead, NoCallHangs, Sockets
<1>29. ASSUME HintIsOld
      PROVE  NoCallHangs'
  BY <1>1, <1>2, <1>3, <1>4, FreshSockets, <1>29
  DEF HintIsOld, AtHead, NoCallHangs, Sockets
<1>30. ASSUME PullReads
      PROVE  NoCallHangs'
  BY <1>1, <1>2, <1>3, <1>4, FreshSockets, <1>30
  DEF PullReads, NoCallHangs, Sockets
<1>31. ASSUME PullReturns
      PROVE  NoCallHangs'
  BY <1>1, <1>2, <1>3, <1>4, FreshSockets, <1>31
  DEF PullReturns, NoCallHangs, Sockets
<1>32. ASSUME PullFails
      PROVE  NoCallHangs'
  BY <1>1, <1>2, <1>3, <1>4, FreshSockets, <1>32
  DEF PullFails, NoCallHangs, Sockets
<1>33. ASSUME HintApplied
      PROVE  NoCallHangs'
  BY <1>1, <1>2, <1>3, <1>4, FreshSockets, <1>33
  DEF HintApplied, NoCallHangs, Sockets
<1>34. ASSUME Adopt
      PROVE  NoCallHangs'
  BY <1>1, <1>2, <1>3, <1>4, FreshSockets, <1>34
  DEF Adopt, NoCallHangs, Sockets
<1>35. ASSUME ServerChanges
      PROVE  NoCallHangs'
  BY <1>1, <1>2, <1>3, <1>4, FreshSockets, <1>35
  DEF ServerChanges, NoCallHangs, Sockets
<1>36. ASSUME SocketDrops
      PROVE  NoCallHangs'
  BY <1>1, <1>2, <1>3, <1>4, FreshSockets, <1>36
  DEF SocketDrops, NoCallHangs, Sockets
<1>37. ASSUME SocketDies
      PROVE  NoCallHangs'
  BY <1>1, <1>2, <1>3, <1>4, FreshSockets, <1>37
  DEF SocketDies, NoCallHangs, Sockets
<1>38. ASSUME HandshakeSent
      PROVE  NoCallHangs'
  BY <1>1, <1>2, <1>3, <1>4, FreshSockets, <1>38
  DEF HandshakeSent, NoCallHangs, Sockets
<1>39. ASSUME HandshakeFails
      PROVE  NoCallHangs'
  BY <1>1, <1>5, <1>39 DEF HandshakeFails, HandshakeEnds, Heard, Sockets
<1>40. ASSUME UNCHANGED transportVars
      PROVE  NoCallHangs'
  BY <1>3, <1>40 DEF transportVars, NoCallHangs
<1>. QED
  BY <1>6, <1>7, <1>8, <1>9, <1>10, <1>11, <1>12, <1>13, <1>14, <1>15,
     <1>16, <1>17, <1>18, <1>19, <1>20, <1>21, <1>22, <1>23, <1>24, <1>25,
     <1>26, <1>27, <1>28, <1>29, <1>30, <1>31, <1>32, <1>33, <1>34, <1>35,
     <1>36, <1>37, <1>38, <1>39, <1>40 DEF TransportNext, AppSteps, Arrives,
     TimerFires, TaskStep, Peer

-----------------------------------------------------------------------------
(* What a connection at rest has missed.                                   *)

LEMMA FetchAdded ==
    ASSUME chain \in Seq(Tasks), NEW t \in Tasks, Enqueue(t), UNCHANGED seq
    PROVE  Fetching' <=> Fetching \/ FetchAt(t, seq)
BY Added DEF Fetching

LEMMA FetchEnded ==
    ASSUME chain \in Seq(Tasks), chain # <<>>, TaskEnds, UNCHANGED seq, Fetching,
           ~FetchAt(chain[1], seq)
    PROVE  Fetching'
BY First, Ended DEF Fetching

LEMMA FetchChanged ==
    ASSUME chain \in Seq(Tasks), chain # <<>>, NEW n \in Tasks, UNCHANGED seq, Fetching,
           chain' = [chain EXCEPT ![1] = n], FetchAt(chain[1], seq) => FetchAt(n, seq)
    PROVE  Fetching'
BY First, Changed DEF Fetching

LEMMA FetchStaged ==
    ASSUME chain \in Seq(Tasks), chain # <<>>, UNCHANGED seq, Fetching,
           NEW s \in {"queued", "gate", "pulling", "read", "apply"}, Stage(s),
           FetchAt(chain[1], seq) => s = "pulling"
    PROVE  Fetching'
<1>1. PICK n \in Tasks : /\ n.stage = s
                         /\ chain' = [chain EXCEPT ![1] = n]
  BY StageIs
<1>2. s = "pulling" => FetchAt(n, seq)
  BY <1>1 DEF FetchAt
<1>. QED
  BY <1>1, <1>2, FetchChanged

LEMMA FetchQueued ==
    ASSUME chain \in Seq(Tasks), Enqueue(Task("held", 0)), UNCHANGED seq
    PROVE  Fetching'
<1>1. Task("held", 0) \in Tasks /\ FetchAt(Task("held", 0), seq)
  BY Queued, TransportAssumption DEF FetchAt
<1>. QED
  BY <1>1, FetchAdded

LEMMA MissKept ==
    ASSUME ~Impatient, TransportInv, [TransportNext]_transportVars
    PROVE  MissInv'
<1>1. /\ status \in {"idle", "connecting", "open", "reconnecting", "stopped"}
      /\ sock \in Sockets /\ attempt \in BOOLEAN
  BY DEF TransportInv, TransportTypeOK
<1>2. chain \in Seq(Tasks)
  BY DEF TransportInv, TransportTypeOK
<1>3. sock.state = "open" /\ sock.alive /\ ~sock.failed /\ ~sock.between /\ have # seq =>
         \/ ~sock.reconnect /\ sock.shake \in {"reading", "sent"}
         \/ Fetching
         \/ sock.hints # <<>> /\ sock.hints[Len(sock.hints)] = seq
  BY DEF TransportInv, MissInv
<1>4. /\ status \in {"idle", "stopped", "reconnecting"} => sock = NoSocket
      /\ sock.state = "open" => status = "open" /\ ~stopped /\ sock.shake # "none"
      /\ status = "connecting" => ~sock.reconnect
      /\ chain # <<>> /\ Head(chain).kind = "reconnect" => sock = NoSocket
      /\ "reconnect" \in timer => sock = NoSocket
  <2>1. chain # <<>> /\ Head(chain).kind = "reconnect" => ReconnectDue
    BY First DEF ReconnectDue, TransportInv, TransportTypeOK
  <2>. QED
    BY <1>1, <2>1, FreshSockets DEF TransportInv, ShapeInv, OpenTimers
<1>5. /\ cursor \in Nat /\ have \in Nat /\ seq \in Nat /\ cursor <= have /\ have <= seq
      /\ seq \in 0 .. MaxCommits
  BY PositionsTyped, TransportAssumption DEF TransportInv, TasksInv
<1>6. sock'.state # "open" => MissInv'
  BY DEF MissInv
<1>7. UNCHANGED <<chain, positions, sock>> => MissInv'
  BY <1>3 DEF MissInv, Fetching, positions
<1>8. chain # <<>> => Head(chain) = chain[1] /\ chain[1] \in Tasks /\ OkAt(chain[1], seq, have)
  BY <1>2, First DEF TransportInv, TasksInv
<1>9. UNCHANGED <<chain, seq>> => (Fetching' <=> Fetching)
  BY DEF Fetching
<1>10. sock.state = "open" => sock # NoSocket
  BY FreshSockets
<1>11. ASSUME Connect
      PROVE  MissInv'
  <2>1. sock'.state # "open"
    BY <1>1, <1>4, <1>11, FreshSockets DEF Connect, OpenSocket
  <2>. QED
    BY <1>6, <2>1
<1>12. ASSUME StopTransport
      PROVE  MissInv'
  BY <1>6, <1>12, FreshSockets DEF StopTransport
<1>13. ASSUME ResumeReconnecting
      PROVE  MissInv'
  BY <1>4, <1>6, <1>13, FreshSockets DEF ResumeReconnecting
<1>14. ASSUME ResumeConnecting
      PROVE  MissInv'
  BY <1>6, <1>14, FreshSockets DEF ResumeConnecting
<1>15. ASSUME ResumeOpen
      PROVE  MissInv'
  BY <1>7, <1>15 DEF ResumeOpen
<1>16. ASSUME NEW c \in TransportCalls, Call(c)
      PROVE  MissInv'
  BY <1>1, <1>3, <1>6, <1>9, <1>16 DEF Call, Heard, MissInv, positions, Sockets
<1>17. ASSUME HandleOpen
      PROVE  MissInv'
  <2>1. /\ sock' = [sock EXCEPT !.state = "open", !.reconnect = attempt, !.shake = "reading"]
        /\ attempt => Enqueue(Task("held", 0))
        /\ UNCHANGED seq
    BY <1>17 DEF HandleOpen, positions
  <2>2. sock'.reconnect = attempt /\ sock'.shake = "reading"
    BY <1>1, <2>1 DEF Sockets
  <2>3. attempt => Fetching'
    BY <1>2, <2>1, FetchQueued
  <2>. QED
    BY <1>1, <2>2, <2>3 DEF MissInv
<1>18. ASSUME HandleClose
      PROVE  MissInv'
  BY <1>6, <1>18, FreshSockets DEF HandleClose
<1>19. ASSUME HintArrives
      PROVE  MissInv'
  <2>1. /\ sock.hints \in Seq(1 .. MaxCommits) /\ sock.hints # <<>>
        /\ Enqueue(Task("hint", Head(sock.hints))) /\ UNCHANGED <<have, seq>>
    BY <1>1, <1>19 DEF HintArrives, Sockets, positions
  <2>2. /\ sock'.state = sock.state /\ sock'.alive = sock.alive
        /\ sock'.failed = sock.failed /\ sock'.between = sock.between
        /\ sock'.reconnect = sock.reconnect /\ sock'.shake = sock.shake
        /\ sock'.hints = Tail(sock.hints)
    BY <1>1, <1>19 DEF HintArrives, Heard, Sockets
  <2>3. Head(sock.hints) \in 0 .. MaxCommits
    BY <2>1, HintsTail
  <2>4. /\ Task("hint", Head(sock.hints)) \in Tasks
        /\ Head(sock.hints) = seq => FetchAt(Task("hint", Head(sock.hints)), seq)
    BY <2>3, Queued DEF FetchAt
  <2>5. /\ Fetching => Fetching'
        /\ Head(sock.hints) = seq => Fetching'
    BY <1>2, <2>1, <2>4, FetchAdded
  <2>6. /\ sock'.hints = <<>> => sock.hints[Len(sock.hints)] = Head(sock.hints)
        /\ sock'.hints # <<>> => sock'.hints[Len(sock'.hints)] = sock.hints[Len(sock.hints)]
    BY <2>1, <2>2, HintsTail
  <2>. QED
    BY <1>3, <2>1, <2>2, <2>5, <2>6 DEF MissInv
<1>20. ASSUME PongArrives
      PROVE  MissInv'
  BY <1>1, <1>3, <1>6, <1>9, <1>20 DEF PongArrives, Heard, MissInv, positions, Sockets
<1>21. ASSUME HandshakeAcknowledged
      PROVE  MissInv'
  <2>1. /\ sock'.state = sock.state /\ sock'.alive = sock.alive /\ sock'.hints = sock.hints
        /\ sock'.failed = sock.failed /\ sock'.between = sock.between
        /\ sock'.reconnect = sock.reconnect
    BY <1>1, <1>21 DEF HandshakeAcknowledged, Heard, Sockets
  <2>2. /\ UNCHANGED <<have, seq>>
        /\ IF ~sock.reconnect /\ ~stopped /\ sock.state = "open"
           THEN Enqueue(Task("held", 0)) ELSE UNCHANGED chain
    BY <1>21 DEF HandshakeAcknowledged, HandshakeEnds, positions
  <2>3. sock.state = "open" /\ ~sock.reconnect => Fetching'
    BY <1>2, <1>4, <2>2, FetchQueued
  <2>4. sock.state = "open" /\ sock.reconnect => (Fetching' <=> Fetching)
    BY <1>9, <2>2
  <2>. QED
    BY <1>3, <2>1, <2>2, <2>3, <2>4 DEF MissInv
<1>22. ASSUME NEW c \in TransportCalls, ResultArrives(c)
      PROVE  MissInv'
  BY <1>1, <1>3, <1>6, <1>9, <1>22 DEF ResultArrives, Heard, MissInv, positions, Sockets
<1>23. ASSUME HeartbeatFires
      PROVE  MissInv'
  BY <1>7, <1>23 DEF HeartbeatFires
<1>24. ASSUME HandlePongTimeout
      PROVE  MissInv'
  BY <1>6, <1>24, FreshSockets DEF HandlePongTimeout
<1>25. ASSUME HandleConnectTimeout
      PROVE  MissInv'
  BY <1>6, <1>25, FreshSockets DEF HandleConnectTimeout
<1>26. ASSUME HealthyFires
      PROVE  MissInv'
  BY <1>1, <1>3, <1>6, <1>9, <1>26 DEF HealthyFires, Heard, MissInv, positions, Sockets
<1>27. ASSUME ReconnectFires
      PROVE  MissInv'
  BY <1>4, <1>6, <1>27, FreshSockets DEF ReconnectFires
<1>28. ASSUME NEW c \in TransportCalls, CallTimeout(c)
      PROVE  MissInv'
  BY <1>7, <1>28 DEF CallTimeout
<1>29. ASSUME ReconnectBegins
      PROVE  MissInv'
  BY <1>4, <1>6, <1>29, FreshSockets DEF ReconnectBegins, AtHead
<1>30. ASSUME GateAllows
      PROVE  MissInv'
  <2>1. sock'.state # "open"
    BY <1>1, <1>4, <1>30, FreshSockets DEF GateAllows, OpenSocket, AtHead
  <2>. QED
    BY <1>6, <2>1
<1>31. ASSUME GateRefuses
      PROVE  MissInv'
  BY <1>4, <1>6, <1>31, FreshSockets DEF GateRefuses, AtHead
<1>32. ASSUME GateThrows
      PROVE  MissInv'
  BY <1>4, <1>6, <1>32, FreshSockets DEF GateThrows, AtHead
<1>33. ASSUME PullBegins
      PROVE  MissInv'
  <2>1. chain # <<>> /\ Stage("pulling") /\ UNCHANGED <<sock, have, seq>>
    BY <1>33 DEF PullBegins, AtHead, positions
  <2>9. Fetching => Fetching'
    BY <1>2, <2>1, FetchStaged
  <2>. QED
    BY <1>3, <2>1, <2>9 DEF MissInv
<1>34. ASSUME HintIsOld
      PROVE  MissInv'
  <2>1. /\ chain # <<>> /\ TaskEnds /\ UNCHANGED <<sock, have, seq>>
        /\ chain[1].kind = "hint" /\ chain[1].stage = "queued" /\ chain[1].seq <= cursor
    BY <1>8, <1>34 DEF HintIsOld, AtHead, positions
  <2>2. have # seq => ~FetchAt(chain[1], seq)
    BY <1>5, <1>8, <2>1 DEF FetchAt, Tasks
  <2>9. have # seq /\ Fetching => Fetching'
    BY <1>2, <2>1, <2>2, FetchEnded
  <2>. QED
    BY <1>3, <2>1, <2>9 DEF MissInv
<1>35. ASSUME PullReads
      PROVE  MissInv'
  <2>1. chain # <<>> /\ UNCHANGED <<sock, have, seq>>
    BY <1>35 DEF PullReads, positions
  <2>2. PICK n \in Tasks : /\ n.read = seq /\ n.stage = "read"
                           /\ chain' = [chain EXCEPT ![1] = n]
    BY <1>2, <1>5, <1>35, ReadIs
  <2>9. Fetching => Fetching'
    BY <1>2, <2>1, <2>2, FetchChanged DEF FetchAt
  <2>. QED
    BY <1>3, <2>1, <2>9 DEF MissInv
<1>36. ASSUME PullReturns
      PROVE  MissInv'
  <2>1. /\ chain # <<>> /\ (TaskEnds \/ Stage("apply")) /\ UNCHANGED <<sock, seq>>
        /\ chain[1].stage = "read" /\ have' = Larger(have, chain[1].read)
    BY <1>8, <1>36 DEF PullReturns
  <2>2. have' # seq' => ~FetchAt(chain[1], seq) /\ have # seq
    BY <1>5, <1>8, <2>1 DEF FetchAt, OkAt, Larger, Tasks
  <2>9. have' # seq' /\ Fetching => Fetching'
    BY <1>2, <2>1, <2>2, FetchEnded, FetchStaged
  <2>. QED
    BY <1>3, <2>1, <2>2, <2>9 DEF MissInv
<1>37. ASSUME PullFails
      PROVE  MissInv'
  <2>1. CASE sock = NoSocket
    BY <1>6, <1>37, <2>1, FreshSockets DEF PullFails
  <2>2. CASE sock # NoSocket
    <3>1. sock'.failed
      BY <1>1, <1>37, <2>2 DEF PullFails, Sockets
    <3>. QED
      BY <3>1 DEF MissInv
  <2>. QED
    BY <2>1, <2>2
<1>38. ASSUME HintApplied
      PROVE  MissInv'
  <2>1. /\ chain # <<>> /\ TaskEnds /\ UNCHANGED <<sock, have, seq>>
        /\ chain[1].stage = "apply"
    BY <1>8, <1>38 DEF HintApplied
  <2>2. ~FetchAt(chain[1], seq)
    BY <2>1 DEF FetchAt
  <2>9. Fetching => Fetching'
    BY <1>2, <2>1, <2>2, FetchEnded
  <2>. QED
    BY <1>3, <2>1, <2>9 DEF MissInv
<1>39. ASSUME Adopt
      PROVE  MissInv'
  BY <1>1, <1>3, <1>6, <1>9, <1>39 DEF Adopt, Heard, MissInv, positions, Sockets
<1>40. ASSUME ServerChanges
      PROVE  MissInv'
  <2>1. seq' = seq + 1 /\ seq < MaxCommits /\ seq + 1 \in 1 .. MaxCommits
    BY <1>5, <1>40, TransportAssumption DEF ServerChanges
  <2>2. CASE sock.adopted
    <3>1. sock'.hints = Append(sock.hints, seq + 1) /\ sock.hints \in Seq(1 .. MaxCommits)
      BY <1>1, <1>40, <2>2 DEF ServerChanges, Sockets
    <3>2. sock'.hints # <<>> /\ sock'.hints[Len(sock'.hints)] = seq'
      BY <2>1, <3>1, HintsAppend
    <3>. QED
      BY <3>2 DEF MissInv
  <2>3. CASE ~sock.adopted
    <3>1. /\ sock'.state = sock.state /\ sock'.reconnect = sock.reconnect
          /\ sock'.shake = sock.shake
          /\ sock'.between = (sock.between \/ sock.reconnect \/ sock.shake = "over")
      BY <1>1, <1>40, <2>3 DEF ServerChanges, Sockets
    <3>2. sock.shake \in {"none", "reading", "sent", "over"}
      BY <1>1 DEF Sockets
    <3>. QED
      BY <1>4, <3>1, <3>2 DEF MissInv
  <2>. QED
    BY <2>2, <2>3
<1>41. ASSUME SocketDrops
      PROVE  MissInv'
  BY <1>1, <1>3, <1>6, <1>9, <1>41 DEF SocketDrops, Heard, MissInv, positions, Sockets
<1>42. ASSUME SocketDies
      PROVE  MissInv'
  BY <1>1, <1>3, <1>6, <1>9, <1>42 DEF SocketDies, Heard, MissInv, positions, Sockets
<1>43. ASSUME HandshakeSent
      PROVE  MissInv'
  BY <1>1, <1>3, <1>6, <1>9, <1>43 DEF HandshakeSent, Heard, MissInv, positions, Sockets
<1>44. ASSUME HandshakeFails
      PROVE  MissInv'
  <2>1. /\ sock'.state = sock.state /\ sock'.alive = sock.alive /\ sock'.hints = sock.hints
        /\ sock'.failed = sock.failed /\ sock'.between = sock.between
        /\ sock'.reconnect = sock.reconnect
    BY <1>1, <1>44 DEF HandshakeFails, Heard, Sockets
  <2>2. /\ UNCHANGED <<have, seq>>
        /\ IF ~sock.reconnect /\ ~stopped /\ sock.state = "open"
           THEN Enqueue(Task("held", 0)) ELSE UNCHANGED chain
    BY <1>44 DEF HandshakeFails, HandshakeEnds, positions
  <2>3. sock.state = "open" /\ ~sock.reconnect => Fetching'
    BY <1>2, <1>4, <2>2, FetchQueued
  <2>4. sock.state = "open" /\ sock.reconnect => (Fetching' <=> Fetching)
    BY <1>9, <2>2
  <2>. QED
    BY <1>3, <2>1, <2>2, <2>3, <2>4 DEF MissInv
<1>45. ASSUME UNCHANGED transportVars
      PROVE  MissInv'
  BY <1>7, <1>45 DEF transportVars, positions
<1>. QED
  BY <1>11, <1>12, <1>13, <1>14, <1>15, <1>16, <1>17, <1>18, <1>19, <1>20,
     <1>21, <1>22, <1>23, <1>24, <1>25, <1>26, <1>27, <1>28, <1>29, <1>30,
     <1>31, <1>32, <1>33, <1>34, <1>35, <1>36, <1>37, <1>38, <1>39, <1>40,
     <1>41, <1>42, <1>43, <1>44, <1>45 DEF TransportNext, AppSteps, Arrives,
     TimerFires, TaskStep, Peer

-----------------------------------------------------------------------------
(* The theorems.                                                           *)

LEMMA TransportStarts ==
    ASSUME TransportInit
    PROVE  TransportInv
<1>1. <<>> \in Seq(Tasks) /\ Len(<<>>) = 0 /\ DOMAIN <<>> = {}
  OBVIOUS
<1>2. TransportTypeOK
  <2>1. 0 \in 0 .. MaxCommits /\ 0 <= MaxTasks
    BY TransportAssumption
  <2>2. sock \in Sockets
    BY FreshSockets DEF TransportInit
  <2>3. chain \in Seq(Tasks) /\ Len(chain) <= MaxTasks
    BY <1>1, <2>1 DEF TransportInit
  <2>4. pending \in [TransportCalls -> {"none", "waiting", "answered", "lost", "timed out"}]
    BY DEF TransportInit
  <2>. QED
    BY <2>1, <2>2, <2>3, <2>4 DEF TransportInit, TransportTypeOK
<1>3. TasksInv /\ OneReconnect /\ ~ReconnectDue /\ ~AtGate
  BY <1>1, FreshSockets DEF TransportInit, TasksInv, OneReconnect, ReconnectDue, AtGate
<1>4. ShapeInv /\ MissInv /\ NoCallHangs
  BY <1>3, FreshSockets DEF TransportInit, ShapeInv, MissInv, NoCallHangs
<1>. QED
  BY <1>2, <1>3, <1>4 DEF TransportInv

(* Whatever the app does, and whenever: statuses, timers, tasks and        *)
(* positions are well formed, and the durable position moves only behind   *)
(* what a pull has brought.                                                *)
THEOREM CursorIsBacked == TransportSpec => [](TransportTypeOK /\ CursorBacked)
<1>1. TransportInit => TransportTypeOK /\ TasksInv
  BY TransportStarts DEF TransportInv
<1>2. TransportTypeOK /\ TasksInv /\ [TransportNext]_transportVars
         => TransportTypeOK' /\ TasksInv'
  BY TransportTyped, TasksInvKept
<1>3. TransportTypeOK /\ TasksInv => TransportTypeOK /\ CursorBacked
  BY DEF TasksInv, CursorBacked
<1>. QED
  BY <1>1, <1>2, <1>3, PTL DEF TransportSpec

LEMMA TransportKept ==
    ASSUME ~Impatient, TransportInv, [TransportNext]_transportVars
    PROVE  TransportInv'
<1>1. TransportTypeOK /\ TasksInv
  BY DEF TransportInv
<1>. QED
  BY <1>1, TransportTyped, TasksInvKept, OneReconnectKept, ShapeKept, MissKept, CallsKept
  DEF TransportInv

LEMMA TransportShown ==
    ASSUME TransportInv
    PROVE  TransportSafe /\ StopIsFinal
<1>1. /\ status \in {"idle", "connecting", "open", "reconnecting", "stopped"}
      /\ sock \in Sockets
  BY DEF TransportInv, TransportTypeOK
<1>2. StatusIsTrue /\ StopIsFinal
  BY <1>1, FreshSockets DEF TransportInv, ShapeInv, StatusIsTrue, StopIsFinal
<1>3. ASSUME Quiet, ~sock.failed PROVE have = seq \/ sock.between
  <2>1. DOMAIN <<>> = {}
    OBVIOUS
  <2>2. ~Fetching
    BY <1>3, <2>1 DEF Quiet, Fetching
  <2>. QED
    BY <1>3, <2>2 DEF TransportInv, MissInv, Quiet
<1>4. NothingMissed
  BY <1>3 DEF NothingMissed
<1>. QED
  BY <1>2, <1>4 DEF TransportInv, TasksInv, CursorBacked, TransportSafe

(* For an app that does not connect or resume while a reconnect is due,    *)
(* nor stop while one awaits its gate: a connection at rest has brought    *)
(* every change, no call outlives its socket, a stop stays one, and the    *)
(* status is what socket and timers say.                                   *)
THEOREM TransportIsSafe == ASSUME ~Impatient PROVE TransportSpec => []TransportSafe
<1>1. TransportInit => TransportInv
  BY TransportStarts
<1>2. TransportInv /\ [TransportNext]_transportVars => TransportInv'
  BY TransportKept
<1>3. TransportInv => TransportSafe
  BY TransportShown
<1>. QED
  BY <1>1, <1>2, <1>3, PTL DEF TransportSpec

(* For such an app a stop is final, too.                                   *)
THEOREM PatientStopIsFinal == ASSUME ~Impatient PROVE TransportSpec => []StopIsFinal
<1>1. TransportInit => TransportInv
  BY TransportStarts
<1>2. TransportInv /\ [TransportNext]_transportVars => TransportInv'
  BY TransportKept
<1>3. TransportInv => StopIsFinal
  BY TransportShown
<1>. QED
  BY <1>1, <1>2, <1>3, PTL DEF TransportSpec
=============================================================================
