------------------------------- MODULE Saver -------------------------------
(***************************************************************************)
(* The throttled saver (ThrottledJsonSaver): marks are coalesced into at   *)
(* most one write per window, one write at a time, and flush() waits until *)
(* the marks made before it are on disk.                                   *)
(*                                                                         *)
(* A document is the number of the newest mark it holds.  A write replaces *)
(* the file at one moment (temp and rename); the code learns of it later,  *)
(* and what waits for the write goes on later still, so marks and flushes  *)
(* come in between.                                                        *)
(***************************************************************************)
EXTENDS Integers, FiniteSets

CONSTANTS Flushes,    \* calls of flush()
          Window,     \* the least time between two writes
          BatchSize,  \* the marks that force a write
          MaxMarks, SaverMaxTime, MaxFailures    \* bounds

ASSUME SaverAssumption ==
    /\ Window \in Nat \ {0} /\ BatchSize \in Nat \ {0}
    /\ MaxMarks \in Nat /\ SaverMaxTime \in Nat /\ MaxFailures \in Nat

None == 0 - 1

VARIABLES
    time,
    marked,       \* the marks made
    saved,        \* the newest mark a finished write covered
    batch,        \* the marks no write has taken
    lastWriteAt,
    timer,        \* when the armed timer fires, or None
    followUp,     \* a write was asked for while another was in flight
    writes,       \* the writes that have not settled: at most one, if the code is right
    disk,         \* the newest mark the file holds
    flushes,      \* the calls of flush: where they are, the mark they wait for, the writes waited for
    mayForget,    \* history: since the last mark a write failed, or dispose() dropped the plan
    failures

saverVars == <<time, marked, saved, batch, lastWriteAt, timer, followUp, writes, disk, flushes,
          mayForget, failures>>

SaverInit ==
    /\ time = 0 /\ marked = 0 /\ saved = 0 /\ batch = 0 /\ lastWriteAt = 0
    /\ timer = None /\ followUp = FALSE /\ writes = {} /\ disk = 0
    /\ flushes = [f \in Flushes |-> [pc |-> "idle", target |-> 0, waits |-> 0]]
    /\ mayForget = FALSE /\ failures = 0

Dirty == marked # saved
InFlight == writes # {}

\* Starts a write nobody waits for, or leaves a follow-up to the one in flight.
WriteDetached(covers, count, busy) ==
    /\ timer' = None
    /\ \/ /\ busy
          /\ followUp' = TRUE /\ batch' = count
          /\ UNCHANGED writes
       \/ /\ ~busy
          /\ writes' = {[owner |-> {}, covers |-> covers, took |-> count, ended |-> FALSE]}
          /\ batch' = 0 /\ followUp' = FALSE

MarkDirty ==
    LET due == batch + 1 >= BatchSize \/ time - lastWriteAt >= Window
    IN  /\ marked < MaxMarks /\ marked' = marked + 1
        /\ \/ /\ due
              /\ WriteDetached(marked + 1, batch + 1, InFlight)
           \/ /\ ~due
              /\ batch' = batch + 1
              /\ timer' = IF timer = None THEN lastWriteAt + Window ELSE timer
              /\ UNCHANGED <<followUp, writes>>
        /\ mayForget' = FALSE
        /\ UNCHANGED <<time, saved, lastWriteAt, disk, flushes, failures>>

TimerFires ==
    /\ timer # None /\ time >= timer
    /\ \/ /\ Dirty /\ WriteDetached(marked, batch, InFlight)
       \/ /\ ~Dirty /\ timer' = None
          /\ UNCHANGED <<followUp, writes, batch>>
    /\ UNCHANGED <<time, marked, saved, lastWriteAt, disk, flushes, mayForget, failures>>

----------------------------------------------------------------------------
(* flush().                                                                *)

\* Whether a flush for the marks up to target waits for the write in flight.
Waits(target) == InFlight /\ saved < target

\* A flush looks at the write in flight, at its start and whenever one it waited for settled.
Looks(f, target, waits) ==
    \/ /\ Waits(target)
       /\ flushes' = [flushes EXCEPT ![f] = [pc |-> "waiting", target |-> target,
                                             waits |-> waits + 1]]
       /\ UNCHANGED <<writes, batch>>
    \/ /\ ~Waits(target) /\ saved >= target
       /\ flushes' = [flushes EXCEPT ![f] = [pc |-> "done", target |-> target,
                                             waits |-> waits]]
       /\ UNCHANGED <<writes, batch>>
    \/ /\ ~Waits(target) /\ saved < target
       /\ flushes' = [flushes EXCEPT ![f] = [pc |-> "writing", target |-> target,
                                             waits |-> waits]]
       /\ writes' = writes \union {[owner |-> {f}, covers |-> marked, took |-> batch,
                                    ended |-> FALSE]}
       /\ batch' = 0

Flush(f) ==
    /\ flushes[f].pc = "idle"
    /\ timer' = None
    /\ Looks(f, marked, 0)
    /\ UNCHANGED <<time, marked, saved, lastWriteAt, followUp, disk, mayForget, failures>>

FlushLooksAgain(f) ==
    /\ flushes[f].pc = "woken"
    /\ Looks(f, flushes[f].target, flushes[f].waits)
    /\ UNCHANGED <<time, marked, saved, lastWriteAt, timer, followUp, disk, mayForget, failures>>

\* Drops the timer and the follow-up; the marks stay dirty.
Dispose ==
    /\ timer # None \/ followUp
    /\ timer' = None /\ followUp' = FALSE /\ mayForget' = TRUE
    /\ UNCHANGED <<time, marked, saved, batch, lastWriteAt, writes, disk, flushes, failures>>

----------------------------------------------------------------------------
(* The write in flight, and time.                                          *)

\* The flush that started a write hears of its outcome.
Hears(w, outcome) ==
    [f \in Flushes |-> IF f \in w.owner THEN [flushes[f] EXCEPT !.pc = outcome] ELSE flushes[f]]

Ended(w) == (writes \ {w}) \union {[w EXCEPT !.ended = TRUE]}

Covers_Latest(w) == marked

\* What a finished write has saved.
Covers(w) == w.covers

Lands(w) ==
    /\ ~w.ended /\ writes' = Ended(w)
    /\ disk' = w.covers /\ saved' = Covers(w) /\ lastWriteAt' = time
    /\ flushes' = Hears(w, "done")
    /\ UNCHANGED <<time, marked, batch, timer, followUp, mayForget, failures>>

Fails(w) ==
    /\ ~w.ended /\ writes' = Ended(w)
    /\ failures < MaxFailures /\ failures' = failures + 1
    /\ batch' = batch + w.took /\ mayForget' = TRUE
    /\ flushes' = Hears(w, "failed")
    /\ UNCHANGED <<time, marked, saved, lastWriteAt, timer, followUp, disk>>

\* The write has settled: the follow-up a mark asked for starts, and whoever waited looks again.
Settles(w) ==
    /\ w.ended
    /\ flushes' = [f \in Flushes |-> IF flushes[f].pc = "waiting"
                                     THEN [flushes[f] EXCEPT !.pc = "woken"] ELSE flushes[f]]
    /\ \/ /\ followUp /\ Dirty /\ WriteDetached(marked, batch, FALSE)
       \/ /\ ~(followUp /\ Dirty)
          /\ writes' = writes \ {w} /\ followUp' = FALSE
          /\ UNCHANGED <<timer, batch>>
    /\ UNCHANGED <<time, marked, saved, lastWriteAt, disk, mayForget, failures>>

Advance ==
    /\ time < SaverMaxTime /\ time' = time + 1
    /\ UNCHANGED <<marked, saved, batch, lastWriteAt, timer, followUp, writes, disk, flushes,
                   mayForget, failures>>

WriteEnds == \E w \in writes : Lands(w) \/ Fails(w)
WriteSettles == \E w \in writes : Settles(w)

SaverNext ==
    \/ MarkDirty \/ TimerFires \/ Dispose \/ Advance
    \/ \E f \in Flushes : Flush(f) \/ FlushLooksAgain(f)
    \/ WriteEnds \/ WriteSettles

SaverSpec == SaverInit /\ [][SaverNext]_saverVars

\* Writes end and what waits for them goes on; timers fire.
SaverFairness ==
    /\ WF_saverVars(WriteEnds) /\ WF_saverVars(WriteSettles)
    /\ \A f \in Flushes : WF_saverVars(FlushLooksAgain(f))
    /\ WF_saverVars(TimerFires) /\ WF_saverVars(Advance)

SaverFairSpec == SaverSpec /\ SaverFairness

----------------------------------------------------------------------------
(* Properties.                                                             *)

\* The types of the variables; one write at a time (throttled-saver.ts:92-97).
SaverTypeOK ==
    /\ time \in 0..SaverMaxTime /\ marked \in 0..MaxMarks /\ saved \in 0..marked
    /\ batch \in 0..marked /\ lastWriteAt \in 0..time
    /\ timer = None \/ timer \in Nat
    /\ followUp \in BOOLEAN /\ disk \in 0..marked /\ mayForget \in BOOLEAN
    /\ Cardinality(writes) <= 1

\* A flush that resolves found its promise kept: whatever was marked before the call is on disk,
\* over detached writes, follow-ups, other flushes and failures (throttled-saver.ts:155-158).
FlushKeepsPromise ==
    \A f \in Flushes : flushes[f].pc = "done" => disk >= flushes[f].target

\* A write never leaves an older document than the one before (throttled-saver.ts:93-96).
NeverBackStep == disk' >= disk
NeverBack == [][NeverBackStep]_saverVars

\* A mark that is not on disk is on its way: a timer, a write with its follow-up, or a flush will
\* save it, unless a write failed or dispose() was called since (throttled-saver.ts:130-132).
NothingForgotten ==
    Dirty => \/ timer # None \/ mayForget
             \/ \E w \in writes : followUp \/ (~w.ended /\ w.covers = marked)
             \/ \E f \in Flushes : flushes[f].pc \in {"waiting", "woken"}
                                   /\ flushes[f].target = marked

\* A flush waits for two writes at most while none fails, however many marks come meanwhile
\* (throttled-saver.ts:168-174).
FlushWaitsTwice == failures > 0 \/ \A f \in Flushes : flushes[f].waits <= 2

\* What a flush promises and a mark may rely on.
SaverSafe == FlushKeepsPromise /\ NothingForgotten /\ FlushWaitsTwice

\* A flush ends (throttled-saver.ts:171-178).
FlushEnds == \A f \in Flushes : flushes[f].pc # "idle" ~> flushes[f].pc \in {"done", "failed"}
=============================================================================
