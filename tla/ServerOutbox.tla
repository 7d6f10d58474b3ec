---------------------------- MODULE ServerOutbox ----------------------------
(***************************************************************************)
(* The transactional outbox of src/server/outbox: workers claim batches of *)
(* rows under a lease, publish them and report the outcome (processor.ts)  *)
(* with the statements of postgres-repository.ts; schedule.ts writes rows. *)
(*                                                                         *)
(* Time is relative: a row knows how long until it is available and how    *)
(* long ago it was claimed, a worker how long its drain and its event have *)
(* taken, and Tick moves them all.  A statement is one step, except giveUp,*)
(* which reads a snapshot and commits later.                               *)
(***************************************************************************)
EXTENDS Integers, Sequences, FiniteSets

CONSTANTS
    Workers,
    MaxRows,            \* the ids there are; a purged row's id is used again
    InitialRows,
    BatchSize, MaxAttempts, Lease,
    BaseDelay, MaxDelay,        \* of retryDelayMs
    Slowest,            \* slowestPublishMs, 0 when not set
    Tracks,             \* onAttemptFailed is set
    Repeats, Interval,  \* the rows are runs of one repeating job
    RepeatAfterGiveUp,
    ReplaceAfter,       \* replaceGivenUpAfter, 0 when absent
    Schedules,          \* the app also writes rows of its own
    Crashes,            \* a worker may die
    Prompt,             \* the stages no worker is slower in than Slowest
    Horizon             \* how far back times are told apart

ASSUME OutboxAssumption ==
    /\ MaxRows \in Nat \ {0} /\ InitialRows \in 0 .. MaxRows
    /\ BatchSize \in Nat \ {0} /\ MaxAttempts \in Nat \ {0}
    /\ Lease \in Nat \ {0} /\ Horizon \in Nat /\ Horizon >= 2 * Lease
    /\ BaseDelay \in Nat /\ MaxDelay \in Nat /\ Interval \in Nat
    /\ Slowest \in Nat /\ Slowest < Lease
    /\ ReplaceAfter \in Nat
    /\ {Tracks, Repeats, RepeatAfterGiveUp, Schedules, Crashes} \subseteq BOOLEAN
    /\ IsFiniteSet(Workers)

Rows == 1 .. MaxRows

VARIABLES
    row,        \* the table outbox_events
    pc,         \* where each worker stands in drainOnce
    batch,      \* the events it has not finished, the current one first
    first,      \* it is at the first event of its batch
    elapsed,    \* since startedAt
    busy,       \* since eventStartedAt
    slowest,    \* slowestMs
    others,     \* the snapshot of its giveUp holds another waiting row
    tries,      \* history: how often each row was published, or tried to be
    reports     \* history: how often each row was reported as given up

worker == <<pc, batch, first, elapsed, busy, slowest, others>>
history == <<tries, reports>>
vars == <<row, worker, history>>

Never == -1     \* claimed_at IS NULL

NoRow == [exists |-> FALSE, attempts |-> 0, availableIn |-> 0, claimedAgo |-> Never,
          processed |-> FALSE]

(* A row as insertEvent and the next run of a job write it.                *)
NewRow(delay) == [exists |-> TRUE, attempts |-> 0, availableIn |-> delay,
                  claimedAgo |-> Never, processed |-> FALSE]

Waiting == {r \in Rows : row[r].exists /\ ~row[r].processed}

GivesUp == Tracks \/ RepeatAfterGiveUp
FindsLost == GivesUp

Smaller(x, y) == IF x < y THEN x ELSE y
Larger(x, y) == IF x < y THEN y ELSE x

(* retryDelayMs: doubling from BaseDelay, at most MaxDelay.                *)
RetryDelay(attempt) == Smaller(BaseDelay * 2 ^ (attempt - 1), MaxDelay)

Init ==
    /\ row = [r \in Rows |-> IF r <= InitialRows THEN NewRow(0) ELSE NoRow]
    /\ pc = [w \in Workers |-> "idle"]
    /\ batch = [w \in Workers |-> << >>]
    /\ first = [w \in Workers |-> TRUE]
    /\ elapsed = [w \in Workers |-> 0]
    /\ busy = [w \in Workers |-> 0]
    /\ slowest = [w \in Workers |-> Slowest]
    /\ others = [w \in Workers |-> FALSE]
    /\ tries = [r \in Rows |-> 0]
    /\ reports = [r \in Rows |-> 0]

-----------------------------------------------------------------------------
(* Statements that write a row.                                            *)

(* Takes an id for a new row and forgets the history of the old one.       *)
Inserts(table, delay) ==
    \E r \in Rows :
        /\ ~table[r].exists
        /\ row' = [table EXCEPT ![r] = NewRow(delay)]
        /\ tries' = [tries EXCEPT ![r] = 0]

Closed(r) == [row EXCEPT ![r].processed = TRUE]

MarkProcessed_Always(r) ==
    IF Repeats THEN Inserts(Closed(r), Interval)
    ELSE row' = Closed(r) /\ UNCHANGED tries

(* markProcessed: a repeating row is closed, and followed, only once.      *)
MarkProcessed(r) ==
    \/ /\ ~Repeats
       /\ row' = Closed(r)
       /\ UNCHANGED tries
    \/ /\ Repeats /\ r \in Waiting
       /\ Inserts(Closed(r), Interval)
    \/ /\ Repeats /\ r \notin Waiting
       /\ UNCHANGED <<row, tries>>

(* scheduleRetry asks neither who claimed the row nor whether it is done.  *)
ScheduleRetry(r, delay) ==
    row' = [row EXCEPT ![r].availableIn = delay]

Release(r, attempt) ==
    row' = IF r \in Waiting /\ row[r].attempts = attempt
           THEN [row EXCEPT ![r].attempts = @ - 1,
                            ![r].availableIn = IF row[r].claimedAgo = Never
                                               THEN 0 ELSE -row[r].claimedAgo]
           ELSE row

GiveUp_Unchecked(w, r) ==
    /\ reports' = [reports EXCEPT ![r] = @ + 1]
    /\ row' = Closed(r)
    /\ UNCHANGED tries

(* giveUp: closes a waiting row, and writes its next run unless the        *)
(* snapshot of the statement held another waiting row of the job.          *)
GiveUp(w, r) ==
    \/ /\ r \in Waiting
       /\ reports' = [reports EXCEPT ![r] = IF Tracks THEN @ + 1 ELSE @]
       /\ \/ /\ Repeats /\ RepeatAfterGiveUp /\ ~others[w]
             /\ Inserts(Closed(r), Interval)
          \/ /\ ~(Repeats /\ RepeatAfterGiveUp /\ ~others[w])
             /\ row' = Closed(r)
             /\ UNCHANGED tries
    \/ /\ r \notin Waiting
       /\ UNCHANGED <<row, history>>

-----------------------------------------------------------------------------
(* A drain.                                                                *)

Current(w) == Head(batch[w]).row

DrainStarts(w) ==
    /\ pc[w] = "idle"
    /\ pc' = [pc EXCEPT ![w] = "claiming"]
    /\ UNCHANGED <<row, batch, first, elapsed, busy, slowest, others, history>>

(* The locals of drainOnce are gone when it returns.                       *)
Idles(w) ==
    /\ pc' = [pc EXCEPT ![w] = "idle"]
    /\ batch' = [batch EXCEPT ![w] = << >>]
    /\ first' = [first EXCEPT ![w] = TRUE]
    /\ elapsed' = [elapsed EXCEPT ![w] = 0]
    /\ busy' = [busy EXCEPT ![w] = 0]
    /\ slowest' = [slowest EXCEPT ![w] = Slowest]
    /\ others' = [others EXCEPT ![w] = FALSE]

Claimable_OffByOne == {r \in Waiting : row[r].availableIn <= 0 /\ row[r].attempts <= MaxAttempts}

Claimable_Unclaimed ==
    {r \in Waiting : row[r].claimedAgo = Never /\ row[r].attempts < MaxAttempts}

Claimable == {r \in Waiting : row[r].availableIn <= 0 /\ row[r].attempts < MaxAttempts}

Before(r, s) ==
    \/ row[r].availableIn < row[s].availableIn
    \/ row[r].availableIn = row[s].availableIn /\ r < s

(* The first rows of a set, by available_at and created_at.                *)
FirstOf(S, limit) ==
    {r \in S : Cardinality({s \in S : Before(s, r)}) < limit}

(* The rows come back in any order.                                        *)
Orders(S) ==
    {order \in [1 .. Cardinality(S) -> S] :
        \A i, j \in 1 .. Cardinality(S) : order[i] = order[j] => i = j}

EventOf_BeforeUpdate(r) == [row |-> r, attempt |-> row[r].attempts]

(* The event that a claim returns carries the attempt it has just counted. *)
EventOf(r) == [row |-> r, attempt |-> row[r].attempts + 1]

ClaimBatch(w) ==
    /\ pc[w] = "claiming"
    /\ LET claimed == FirstOf(Claimable, BatchSize)
       IN  /\ row' = [r \in Rows |->
                 IF r \in claimed
                 THEN [row[r] EXCEPT !.attempts = @ + 1, !.availableIn = Lease,
                                     !.claimedAgo = 0]
                 ELSE row[r]]
           /\ \E order \in Orders(claimed) :
                 batch' = [batch EXCEPT ![w] =
                     [i \in DOMAIN order |-> EventOf(order[i])]]
    /\ pc' = [pc EXCEPT ![w] = "loop"]
    /\ UNCHANGED <<first, elapsed, busy, slowest, others, history>>

TooLate_AtTheEnd(w) == ~first[w] /\ elapsed[w] + slowest[w] > Lease

(* Another event would not be over before the lease is.                    *)
TooLate(w) == ~first[w] /\ elapsed[w] + slowest[w] >= Lease

StartPublish(w) ==
    /\ pc[w] = "loop" /\ batch[w] # << >>
    /\ ~TooLate(w)
    /\ pc' = [pc EXCEPT ![w] = "publishing"]
    /\ tries' = [tries EXCEPT ![Current(w)] = @ + 1]
    /\ UNCHANGED <<row, batch, first, elapsed, busy, slowest, others, reports>>

StopBatch(w) ==
    /\ pc[w] = "loop" /\ batch[w] # << >>
    /\ TooLate(w)
    /\ pc' = [pc EXCEPT ![w] = "releasing"]
    /\ UNCHANGED <<row, batch, first, elapsed, busy, slowest, others, history>>

ReleaseOne(w) ==
    /\ pc[w] = "releasing"
    /\ Release(Current(w), Head(batch[w]).attempt)
    /\ batch' = [batch EXCEPT ![w] = Tail(@)]
    /\ pc' = [pc EXCEPT ![w] = IF Len(batch[w]) = 1 THEN "loop" ELSE "releasing"]
    /\ UNCHANGED <<first, elapsed, busy, slowest, others, history>>

PublishEnds(w) ==
    /\ pc[w] = "publishing"
    /\ \E next \in {"published", "failing"} : pc' = [pc EXCEPT ![w] = next]
    /\ UNCHANGED <<row, batch, first, elapsed, busy, slowest, others, history>>

(* The end of the loop's body.                                             *)
NextEvent(w) ==
    /\ pc' = [pc EXCEPT ![w] = "loop"]
    /\ batch' = [batch EXCEPT ![w] = Tail(@)]
    /\ first' = [first EXCEPT ![w] = FALSE]
    /\ slowest' = [slowest EXCEPT ![w] = Larger(@, busy[w])]
    /\ busy' = [busy EXCEPT ![w] = 0]
    /\ others' = [others EXCEPT ![w] = FALSE]
    /\ UNCHANGED elapsed

MarkSucceeds(w) ==
    /\ pc[w] = "published"
    /\ MarkProcessed(Current(w))
    /\ NextEvent(w)
    /\ UNCHANGED reports

(* markProcessed throws, before or after the database has done it.         *)
MarkThrows(w) ==
    /\ pc[w] = "published"
    /\ \/ MarkProcessed(Current(w))
       \/ UNCHANGED <<row, tries>>
    /\ pc' = [pc EXCEPT ![w] = "failing"]
    /\ UNCHANGED <<batch, first, elapsed, busy, slowest, others, reports>>

LastAttempt(w) == Head(batch[w]).attempt >= MaxAttempts

AttemptFails(w) ==
    /\ pc[w] = "failing"
    /\ ~(LastAttempt(w) /\ GivesUp)
    /\ ScheduleRetry(Current(w), RetryDelay(Head(batch[w]).attempt))
    /\ NextEvent(w)
    /\ UNCHANGED history

SnapshotOthers(w) ==
    others' = [others EXCEPT ![w] =
        Repeats /\ RepeatAfterGiveUp /\ Waiting \ {Current(w)} # {}]

GiveUpStarts(w) ==
    /\ pc[w] = "failing"
    /\ LastAttempt(w) /\ GivesUp
    /\ SnapshotOthers(w)
    /\ pc' = [pc EXCEPT ![w] = "closing"]
    /\ UNCHANGED <<row, batch, first, elapsed, busy, slowest, history>>

GiveUpEnds(w) ==
    /\ pc[w] = "closing"
    /\ GiveUp(w, Current(w))
    /\ NextEvent(w)

LoopEnds(w) ==
    /\ pc[w] = "loop" /\ batch[w] = << >>
    /\ \/ ~FindsLost /\ Idles(w)
       \/ /\ FindsLost
          /\ pc' = [pc EXCEPT ![w] = "finding"]
          /\ UNCHANGED <<batch, first, elapsed, busy, slowest, others>>
    /\ UNCHANGED <<row, history>>

(* Out of attempts, and one more lease has passed since it was available.  *)
Lost ==
    {r \in Waiting :
        /\ row[r].attempts >= MaxAttempts
        /\ row[r].availableIn
             + (IF row[r].claimedAgo = Never
                THEN 0 ELSE row[r].availableIn + row[r].claimedAgo) <= 0}

FindLost(w) ==
    /\ pc[w] = "finding"
    /\ \E order \in Orders(FirstOf(Lost, BatchSize)) :
          batch' = [batch EXCEPT ![w] =
              [i \in DOMAIN order |-> [row |-> order[i], attempt |-> MaxAttempts]]]
    /\ pc' = [pc EXCEPT ![w] = "lost"]
    /\ UNCHANGED <<row, first, elapsed, busy, slowest, others, history>>

CloseLostStarts(w) ==
    /\ pc[w] = "lost" /\ batch[w] # << >>
    /\ SnapshotOthers(w)
    /\ pc' = [pc EXCEPT ![w] = "closingLost"]
    /\ UNCHANGED <<row, batch, first, elapsed, busy, slowest, history>>

CloseLostEnds(w) ==
    /\ pc[w] = "closingLost"
    /\ GiveUp(w, Current(w))
    /\ batch' = [batch EXCEPT ![w] = Tail(@)]
    /\ others' = [others EXCEPT ![w] = FALSE]
    /\ pc' = [pc EXCEPT ![w] = "lost"]
    /\ UNCHANGED <<first, elapsed, busy, slowest>>

DrainEnds(w) ==
    /\ pc[w] = "lost" /\ batch[w] = << >>
    /\ Idles(w)
    /\ UNCHANGED <<row, history>>

(* The process dies, or a statement other than markProcessed throws.       *)
Crash(w) ==
    /\ Crashes
    /\ pc[w] # "idle"
    /\ Idles(w)
    /\ UNCHANGED <<row, history>>

-----------------------------------------------------------------------------
(* The app and the clock.                                                  *)

(* scheduleOutboxEvent.                                                    *)
Schedule ==
    /\ Schedules
    /\ Inserts(row, 0)
    /\ UNCHANGED <<worker, reports>>

(* ensureScheduledOutboxEvent, at a start-up: closes the rows that are out *)
(* of attempts if asked to, and writes one if none waits.                  *)
Replaced == {r \in Waiting : ReplaceAfter > 0 /\ row[r].attempts >= ReplaceAfter}

EnsureScheduled ==
    LET table == [r \in Rows |->
            IF r \in Replaced THEN [row[r] EXCEPT !.processed = TRUE] ELSE row[r]]
    IN  /\ Repeats
        /\ \/ Waiting \subseteq Replaced /\ Inserts(table, 0)
           \/ ~(Waiting \subseteq Replaced) /\ row' = table /\ UNCHANGED tries
        /\ UNCHANGED <<worker, reports>>

(* removeProcessed, days after the row was processed: no worker holds it.  *)
RemoveProcessed(r) ==
    /\ row[r].exists /\ row[r].processed
    /\ \A w \in Workers : \A i \in DOMAIN batch[w] : batch[w][i].row # r
    /\ row' = [row EXCEPT ![r] = NoRow]
    /\ tries' = [tries EXCEPT ![r] = 0]
    /\ reports' = [reports EXCEPT ![r] = 0]
    /\ UNCHANGED worker

AtEvent == {"publishing", "published", "failing", "closing"}

(* A worker at a prompt stage is done with its event within Slowest, and a *)
(* claim returns so early that its first event is done within the lease.   *)
MayWait(w) ==
    /\ pc[w] \in Prompt \cap AtEvent => busy[w] < Slowest
    /\ pc[w] \in Prompt \cap {"loop"} /\ first[w] => elapsed[w] + 1 + Slowest < Lease

Tick ==
    /\ \A w \in Workers : MayWait(w)
    /\ row' = [r \in Rows |->
          IF r \notin Waiting THEN row[r]
          ELSE [row[r] EXCEPT
                  !.availableIn = Larger(@ - 1, -Horizon),
                  !.claimedAgo = IF @ = Never THEN @ ELSE Smaller(@ + 1, Horizon)]]
    /\ elapsed' = [w \in Workers |->
          IF pc[w] \in {"claiming", "loop"} \cup AtEvent
          THEN Smaller(elapsed[w] + 1, Lease) ELSE elapsed[w]]
    /\ busy' = [w \in Workers |->
          IF pc[w] \in AtEvent THEN Smaller(busy[w] + 1, Lease) ELSE busy[w]]
    /\ UNCHANGED <<pc, batch, first, slowest, others, history>>

DrainStep(w) ==
    \/ DrainStarts(w) \/ ClaimBatch(w)
    \/ StartPublish(w) \/ StopBatch(w) \/ ReleaseOne(w) \/ PublishEnds(w)
    \/ MarkSucceeds(w) \/ MarkThrows(w) \/ AttemptFails(w)
    \/ GiveUpStarts(w) \/ GiveUpEnds(w) \/ LoopEnds(w)
    \/ FindLost(w) \/ CloseLostStarts(w) \/ CloseLostEnds(w) \/ DrainEnds(w)

Next ==
    \/ \E w \in Workers : DrainStep(w) \/ Crash(w)
    \/ Schedule \/ EnsureScheduled
    \/ \E r \in Rows : RemoveProcessed(r)
    \/ Tick

Spec == Init /\ [][Next]_vars

(* Workers and the clock go on.  Old rows are purged, or MaxRows would be a *)
(* reason why a next run cannot be written.                                *)
Fairness ==
    /\ WF_vars(Tick)
    /\ \A w \in Workers : WF_vars(DrainStep(w))
    /\ \A r \in Rows : WF_vars(RemoveProcessed(r))

FairSpec == Spec /\ Fairness

-----------------------------------------------------------------------------
Stages == {"idle", "claiming", "loop", "releasing", "finding", "lost", "closingLost"}
              \cup AtEvent

RowType == [exists : BOOLEAN, attempts : 0 .. MaxAttempts, availableIn : Int,
            claimedAgo : {Never} \cup Nat, processed : BOOLEAN]

Events == [row : Rows, attempt : 1 .. MaxAttempts]

(* Rows, workers and history are well formed.                              *)
TypeOK ==
    /\ row \in [Rows -> RowType]
    /\ pc \in [Workers -> Stages]
    /\ batch \in [Workers -> Seq(Events)]
    /\ first \in [Workers -> BOOLEAN] /\ others \in [Workers -> BOOLEAN]
    /\ elapsed \in [Workers -> 0 .. Lease] /\ busy \in [Workers -> 0 .. Lease]
    /\ slowest \in [Workers -> 0 .. Lease]
    /\ tries \in [Rows -> Nat] /\ reports \in [Rows -> Nat]

(* "A row that crashes the worker ... cannot be retried forever": a row is *)
(* published at most MaxAttempts times, whatever crashes, expires, comes   *)
(* late or is handed back.                                                 *)
TriesBounded == \A r \in Rows : tries[r] <= MaxAttempts

(* "Told once": one worker at most reports that a row was given up, though *)
(* a slow one and the search for lost rows may both get that far.          *)
ToldOnce == \A r \in Rows : reports[r] <= 1

(* "A publish no slower than slowestPublishMs is never delivered twice     *)
(* because of the lease": no two workers are at the same row.              *)
OneDelivery ==
    \A v, w \in Workers :
        /\ pc[v] \in {"publishing", "published"}
        /\ pc[w] \in {"publishing", "published"}
        /\ Current(v) = Current(w)
        => v = w

(* "The chain is one row at a time, never two", and with repeatAfterGiveUp *)
(* never none: one run waits, whoever finishes, gives up or starts again.  *)
OneRunWaits == Cardinality(Waiting) = 1

(* The chain outlives every run that is given up.                          *)
ChainLives == Waiting # {}

(* A drain that ends leaves the same state as a worker that dies there.    *)
CrashesStop == <>[][\A w \in Workers : Crash(w) => DrainStep(w)]_vars

(* Once workers stop dying, every row is published or given up: none is    *)
(* stranded by a dead worker, nor handed back untried for ever.            *)
EveryRowEnds ==
    CrashesStop => \A r \in Rows : r \in Waiting ~> r \notin Waiting

(* Then a repeating job also runs again and again, however its runs end.   *)
ChainRuns == CrashesStop => []<>(\E w \in Workers : pc[w] = "publishing")
=============================================================================
