----------------------------- MODULE Reminders -----------------------------
(***************************************************************************)
(* The reminder runner (createReminderRunner).  A tick looks at the        *)
(* reminders that came due since the last closed window, sends each once   *)
(* and records it at once; it may be cut short by its deadline or by       *)
(* stop(), a call of it may fail, and the process may crash at any await.  *)
(*                                                                         *)
(* Timers measure elapsed time and are punctual; the wall clock may step   *)
(* back (by less than CatchUp in all).  A write of the state that the      *)
(* deadline gives up on may still land later (stray).                      *)
(***************************************************************************)
EXTENDS Integers, FiniteSets

CONSTANTS Reminders,    \* the reminders of the listed tasks
          At,           \* the moment of each
          Interval,     \* between the end of one tick and the start of the next
          TickTimeout,  \* the longest a tick takes
          CatchUp,      \* the longest stretch a tick looks back over
          MaxTime, MaxCrashes, MaxBack    \* bounds

RemindersAssumption ==
    /\ At \in [Reminders -> Nat]
    /\ Interval \in Nat \ {0} /\ TickTimeout \in Nat \ {0}
    /\ CatchUp \in Nat /\ CatchUp >= Interval + TickTimeout
    /\ MaxTime \in Nat /\ MaxCrashes \in Nat
    /\ MaxBack \in Nat /\ MaxBack < CatchUp

Unset == 0 - 1

VARIABLES
    now,       \* the wall clock
    isStarted, \* whether start() was called and stop() was not
    wait,      \* time left on the interval timer, or Unset
    left,      \* time left to the running tick's deadline, or Unset
    joined,    \* whether the loop waits for the running tick
    tick,      \* the running tick: where it is, its window, what is left of it
    memory,    \* the runner's state, once loaded
    disk,      \* the stored state
    stray,     \* writes given up on, which may still land
    told,      \* history: "told" once delivered, "safe" once recorded on disk, "lost" when
               \* the process died in between
    twice,     \* history: reminders sent again although told
    since,     \* history: where the first window starts
    lapsed,    \* history: reminders that grew too old before they were delivered
    mishap,    \* history: a call failed, a tick was cut, the runner was not running
    crashes, back

vars == <<now, isStarted, wait, left, joined, tick, memory, disk, stray, told, twice,
          since, lapsed, mishap, crashes, back>>
history == <<told, twice, since, lapsed>>
world == <<now, crashes, back>>

Max2(a, b) == IF a > b THEN a ELSE b

NotLoaded == [loaded |-> FALSE, last |-> Unset, sent |-> {}]
IdleTick == [pc |-> "idle", cut |-> FALSE, after |-> 0, upTo |-> 0, queue |-> {},
             ok |-> TRUE, at |-> {}]

Init ==
    /\ now = 0 /\ isStarted = FALSE /\ wait = Unset /\ left = Unset /\ joined = FALSE
    /\ tick = IdleTick /\ memory = NotLoaded
    /\ disk = [last |-> Unset, sent |-> {}] /\ stray = {}
    /\ told = [r \in Reminders |-> "no"] /\ twice = {} /\ since = Unset
    /\ lapsed = {} /\ mishap = FALSE /\ crashes = 0 /\ back = 0

----------------------------------------------------------------------------
(* The steps of a tick.                                                    *)

Due(after, upTo) == {r \in Reminders : after < At[r] /\ At[r] <= upTo}

Floor == now - CatchUp

\* The loop arms the next tick when the one it waited for has ended.
Arms == joined /\ isStarted /\ wait = Unset

EndTick ==
    /\ tick' = IdleTick /\ left' = Unset /\ joined' = FALSE
    /\ wait' = IF Arms THEN Interval ELSE wait

\* Whether a call may no longer start.
Aborted(t) == t.cut

\* Where the next window starts: here, once everything in this one was delivered.
Closes(t) == IF t.ok THEN t.upTo ELSE t.after

\* The state a write stores: the window stays open until the last write of a tick.
Stored ==
    [last |-> IF tick.pc = "close" THEN memory.last ELSE tick.after, sent |-> memory.sent]

\* Goes on with the reminders of q: the earliest not yet sent, or the end of the window.
Proceed(t, m, q) ==
    LET open == q \ m.sent
        first == {r \in open : \A o \in open : At[r] <= At[o]}
    IN  \/ /\ open = {}
           /\ memory' = [m EXCEPT !.last = Closes(t)]
           /\ tick' = [t EXCEPT !.pc = "close", !.queue = {}, !.at = {}]
           /\ UNCHANGED <<left, joined, wait, twice>>
        \/ /\ open # {} /\ Aborted(t)
           /\ memory' = m /\ EndTick
           /\ UNCHANGED twice
        \/ /\ open # {} /\ ~Aborted(t)
           /\ \E r \in first :
                 /\ tick' = [t EXCEPT !.pc = "notify", !.queue = open \ {r}, !.at = {r}]
                 /\ twice' = IF told[r] \in {"told", "safe"} THEN twice \union {r} ELSE twice
           /\ memory' = m
           /\ UNCHANGED <<left, joined, wait>>

\* What the window forgets: a key at or before the floor.
Forgets(sent) == {r \in sent : At[r] <= Floor}

\* The window of a tick opens: it starts where the last one ended, or at the floor.
Opens(m) == Max2(IF m.last = Unset THEN now ELSE m.last, Floor)

OpenWindow(m) ==
    /\ memory' = [loaded |-> TRUE, last |-> Opens(m), sent |-> m.sent \ Forgets(m.sent)]
    /\ since' = IF m.last = Unset THEN now ELSE since
    /\ lapsed' = lapsed \union
                 {r \in Due(IF m.last = Unset THEN now ELSE m.last, Opens(m)) : told[r] = "no"}

Listing(m) == [IdleTick EXCEPT !.pc = "list", !.after = Opens(m), !.upTo = now]

\* A tick starts: it loads the state once per process, then opens its window.
Begin ==
    /\ left' = TickTimeout
    /\ \/ /\ ~memory.loaded
          /\ tick' = [IdleTick EXCEPT !.pc = "load"]
          /\ UNCHANGED <<memory, since, lapsed>>
       \/ /\ memory.loaded
          /\ OpenWindow(memory) /\ tick' = Listing(memory)

\* The loop runs a tick, or joins the one that is running.
Loop ==
    /\ joined' = TRUE /\ wait' = Unset
    /\ \/ /\ tick.pc = "idle" /\ Begin
       \/ /\ tick.pc # "idle"
          /\ UNCHANGED <<tick, left, memory, since, lapsed>>

Loaded ==
    /\ tick.pc = "load"
    /\ LET m == [loaded |-> TRUE, last |-> disk.last, sent |-> disk.sent] IN
          /\ OpenWindow(m)
          /\ \/ /\ Aborted(tick) /\ EndTick
             \/ /\ ~Aborted(tick) /\ tick' = Listing(m)
                /\ UNCHANGED <<left, joined, wait>>
    /\ UNCHANGED <<isStarted, disk, stray, told, twice, mishap, world>>

TasksListed ==
    /\ tick.pc = "list"
    /\ Proceed(tick, memory, Due(tick.after, tick.upTo))
    /\ UNCHANGED <<isStarted, disk, stray, told, since, lapsed, mishap, world>>

\* Loading or listing fails: the window stays open.
CallFails ==
    /\ tick.pc \in {"load", "list"}
    /\ EndTick /\ mishap' = TRUE
    /\ UNCHANGED <<isStarted, memory, disk, stray, history, world>>

\* Delivered, or never deliverable: recorded at once.
Delivered ==
    /\ tick.pc = "notify"
    /\ memory' = [memory EXCEPT !.sent = @ \union tick.at]
    /\ told' = [r \in Reminders |-> IF r \in tick.at THEN "told" ELSE told[r]]
    /\ tick' = [tick EXCEPT !.pc = "save"]
    /\ UNCHANGED <<isStarted, wait, left, joined, disk, stray, twice, since, lapsed, mishap,
                   world>>

\* To be tried again, or the call rejected.
Retry ==
    /\ tick.pc = "notify"
    /\ Proceed([tick EXCEPT !.ok = FALSE], memory, tick.queue)
    /\ mishap' = TRUE
    /\ UNCHANGED <<isStarted, disk, stray, told, since, lapsed, world>>

\* A write of the state ends; a failed one is reported and the tick goes on.
SaveEnds ==
    /\ tick.pc = "save"
    /\ \/ /\ disk' = Stored
          /\ told' = [r \in Reminders |->
                         IF r \in memory.sent /\ told[r] = "told" THEN "safe" ELSE told[r]]
       \/ UNCHANGED <<disk, told>>
    /\ Proceed(tick, memory, tick.queue)
    /\ UNCHANGED <<isStarted, stray, since, lapsed, mishap, world>>

CloseEnds ==
    /\ tick.pc = "close"
    /\ \/ /\ disk' = Stored
          /\ told' = [r \in Reminders |->
                         IF r \in memory.sent /\ told[r] = "told" THEN "safe" ELSE told[r]]
       \/ UNCHANGED <<disk, told>>
    /\ EndTick
    /\ UNCHANGED <<isStarted, memory, stray, twice, since, lapsed, mishap, world>>

\* The deadline: whatever the tick waits for is given up.
Deadline ==
    /\ tick.pc # "idle" /\ left = 0
    /\ stray' = IF tick.pc \in {"save", "close"} THEN stray \union {Stored} ELSE stray
    /\ EndTick /\ mishap' = TRUE
    /\ UNCHANGED <<isStarted, memory, disk, history, world>>

----------------------------------------------------------------------------
(* The application, time and crashes.                                      *)

Start ==
    /\ ~isStarted /\ isStarted' = TRUE
    /\ Loop
    /\ UNCHANGED <<disk, stray, told, twice, mishap, world>>

\* A tick the application asks for itself.
TickNow ==
    /\ tick.pc = "idle"
    /\ Begin
    /\ UNCHANGED <<isStarted, wait, joined, disk, stray, told, twice, mishap, world>>

TimerFires ==
    /\ wait = 0
    /\ Loop
    /\ UNCHANGED <<isStarted, disk, stray, told, twice, mishap, world>>

\* stop(): a call in flight is given up, a read or write of the state is finished first.
Cuts == tick.pc \in {"list", "notify"}

Stop ==
    /\ isStarted \/ tick.pc # "idle"
    /\ isStarted' = FALSE /\ mishap' = TRUE
    /\ \/ /\ Cuts
          /\ tick' = IdleTick /\ left' = Unset /\ joined' = FALSE
       \/ /\ ~Cuts
          /\ tick' = IF tick.pc = "idle" THEN tick ELSE [tick EXCEPT !.cut = TRUE]
          /\ UNCHANGED <<left, joined>>
    /\ wait' = Unset
    /\ UNCHANGED <<memory, disk, stray, history, world>>

Later(timer) == IF timer = Unset THEN Unset ELSE timer - 1

Advance ==
    /\ now < MaxTime /\ wait # 0 /\ left # 0
    /\ now' = now + 1
    /\ wait' = Later(wait) /\ left' = Later(left)
    /\ mishap' = (mishap \/ (~isStarted /\ tick.pc = "idle"))
    /\ UNCHANGED <<isStarted, joined, tick, memory, disk, stray, history, crashes, back>>

StepBack ==
    /\ back < MaxBack /\ now > 0
    /\ now' = now - 1 /\ back' = back + 1
    /\ UNCHANGED <<isStarted, wait, left, joined, tick, memory, disk, stray, history, mishap,
                   crashes>>

StrayLands ==
    /\ \E s \in stray :
          /\ disk' = s /\ stray' = stray \ {s}
          /\ told' = [r \in Reminders |->
                         IF told[r] = "safe" /\ r \notin s.sent THEN "told" ELSE told[r]]
    /\ UNCHANGED <<isStarted, wait, left, joined, tick, memory, twice, since, lapsed, mishap,
                   world>>

\* The process dies and another one starts; what was told but never recorded may be sent again.
Crash ==
    /\ crashes < MaxCrashes /\ crashes' = crashes + 1
    /\ isStarted' = FALSE /\ wait' = Unset /\ left' = Unset /\ joined' = FALSE
    /\ tick' = IdleTick /\ memory' = NotLoaded /\ stray' = {} /\ mishap' = TRUE
    /\ told' = [r \in Reminders |-> IF told[r] = "told" THEN "lost" ELSE told[r]]
    /\ UNCHANGED <<disk, twice, since, lapsed, now, back>>

Next == \/ Loaded \/ TasksListed \/ CallFails \/ Delivered \/ Retry \/ SaveEnds \/ CloseEnds
        \/ Deadline \/ Start \/ TickNow \/ TimerFires \/ Stop \/ Advance \/ StepBack
        \/ StrayLands \/ Crash

Spec == Init /\ [][Next]_vars

----------------------------------------------------------------------------
(* Properties.                                                             *)

\* The types of the variables; the tick's timers run only while it does, and the interval timer
\* only while the runner is started (reminder-runner.ts:342-361).
TypeOK ==
    /\ now \in 0..MaxTime /\ isStarted \in BOOLEAN /\ joined \in BOOLEAN
    /\ wait \in {Unset} \union 0..Interval /\ left \in {Unset} \union 0..TickTimeout
    /\ tick.pc \in {"idle", "load", "list", "notify", "save", "close"}
    /\ memory.sent \subseteq Reminders /\ disk.sent \subseteq Reminders
    /\ (tick.pc = "idle") <=> (left = Unset)
    /\ wait # Unset => isStarted /\ ~joined
    /\ isStarted => joined \/ wait # Unset

\* A reminder once delivered is not sent again by the same process, nor by a later one when its
\* record was written; over retries, cut ticks, a clock that steps back and late writes
\* (reminder-runner.ts:85-92, 287, 322-323).
SentOnce == twice = {}

\* A closed window hides nothing: every reminder in it was delivered or grew older than CatchUp
\* (reminder-runner.ts:326-328).
ClosedIsDone ==
    memory.loaded => \A r \in Due(since, memory.last) : told[r] # "no" \/ r \in lapsed

\* While nothing fails and the runner is left running, no reminder grows too old before it is
\* sent: two ticks look back far enough to meet (reminder-runner.ts:126-131, 188-192).
NoneSkipped == mishap \/ lapsed = {}

\* A stopped runner starts no call: not when the load or the write it finished first ends
\* (reminder-runner.ts:150-154, 226-228).
StopIsFinalStep == ~isStarted /\ tick.cut => tick'.pc \notin {"list", "notify"} \/ isStarted'
StopIsFinal == [][StopIsFinalStep]_vars
=============================================================================
