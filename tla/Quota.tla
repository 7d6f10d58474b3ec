-------------------------------- MODULE Quota --------------------------------
(***************************************************************************)
(* The quota meter of src/server/quota.ts around its shared store: reserve *)
(* takes a unit before the work, release gives it back when the work did   *)
(* not happen, record counts work that was never reserved.  Each call of   *)
(* the store is one step, and may throw with or without its effect.        *)
(***************************************************************************)
EXTENDS Integers, FiniteSets

CONSTANTS
    Calls,              \* one reservation, or one record, each
    Users, Sessions,    \* the principals; sessions also spend from one pool
    Limit, PoolLimit,
    MaxWindow           \* bound: the windows the clock goes through

Pool == "session-pool"

(* The key of a principal is <kind>:<id>, so none is the pool.             *)
ASSUME QuotaAssumption ==
    /\ IsFiniteSet(Calls) /\ Users \cap Sessions = {} /\ Pool \notin Users \cup Sessions
    /\ Limit \in Nat /\ PoolLimit \in Nat /\ MaxWindow \in Nat

Principals == Users \cup Sessions
Counters == Principals \cup {Pool}

VARIABLES
    window,     \* the window the clock is in
    used,       \* the counters of the store, by window
    call,       \* the calls
    failed,     \* history: some call of the store threw, or a process died
    stepped     \* history: the clock went back

quotaVars == <<window, used, call, failed, stepped>>

QuotaInit ==
    /\ window = 0
    /\ used = [k \in Counters |-> [w \in 0 .. MaxWindow |-> 0]]
    /\ call = [c \in Calls |-> [stage |-> "new", who |-> Pool, at |-> 0]]
    /\ failed = FALSE /\ stepped = FALSE

Pooled(c) == call[c].who \in Sessions

LimitOf(k) == IF k = Pool THEN PoolLimit ELSE Limit

GoesTo(c, stage) == call' = [call EXCEPT ![c].stage = stage]

-----------------------------------------------------------------------------
(* The store: each operation is one statement.                             *)
Fits(k, w) == used[k][w] + 1 <= LimitOf(k)

Count(k, w) == used' = [used EXCEPT ![k][w] = @ + 1]

Refund(k, w) == used' = [used EXCEPT ![k][w] = IF @ > 0 THEN @ - 1 ELSE 0]

Calm == UNCHANGED <<window, failed, stepped>>

(* A call of the store throws, having had its effect or not.               *)
Throws(c, stage, effect) ==
    /\ GoesTo(c, stage) /\ (effect \/ UNCHANGED used)
    /\ failed' = TRUE /\ UNCHANGED <<window, stepped>>

-----------------------------------------------------------------------------
(* Every method reads the clock once, and keys all its calls by it.        *)
Starts(c, p, first) ==
    /\ call[c].stage = "new"
    /\ call' = [call EXCEPT ![c] = [stage |-> first, who |-> p, at |-> window]]
    /\ UNCHANGED <<window, used, failed, stepped>>

Reserve(c, p) == Starts(c, p, IF p \in Sessions THEN "pools" ELSE "owns")

ReservePool(c) ==
    /\ call[c].stage = "pools"
    /\ \/ /\ Fits(Pool, call[c].at) /\ Count(Pool, call[c].at) /\ GoesTo(c, "owns") /\ Calm
       \/ /\ ~Fits(Pool, call[c].at) /\ GoesTo(c, "refused") /\ UNCHANGED used /\ Calm
       \/ Throws(c, "error", Fits(Pool, call[c].at) /\ Count(Pool, call[c].at))

(* The pool's unit is given back when the own counter refuses, and when    *)
(* the store throws instead of answering.                                  *)
ReserveOwn(c) ==
    LET p == call[c].who  w == call[c].at
    IN  /\ call[c].stage = "owns"
        /\ \/ Fits(p, w) /\ Count(p, w) /\ GoesTo(c, "works") /\ Calm
           \/ ~Fits(p, w) /\ UNCHANGED used /\ Calm
              /\ GoesTo(c, IF Pooled(c) THEN "unpools" ELSE "refused")
           \/ Throws(c, IF Pooled(c) THEN "unpools" ELSE "error", Fits(p, w) /\ Count(p, w))

(* releasePoolQuietly: its own failure is swallowed.                       *)
ReleasePoolQuietly(c) ==
    /\ call[c].stage = "unpools"
    /\ \/ Refund(Pool, call[c].at) /\ GoesTo(c, "refused") /\ Calm
       \/ Throws(c, "refused", Refund(Pool, call[c].at))

-----------------------------------------------------------------------------
(* The caller's work is done, or fails and is released.                    *)
Works(c) ==
    /\ call[c].stage = "works" /\ \E next \in {"done", "releases"} : GoesTo(c, next)
    /\ UNCHANGED <<window, used, failed, stepped>>

RefundAt_Now(c) == window

(* The refund is keyed by the reading reserve used, clamped to this one.   *)
RefundAt(c) == IF call[c].at > window THEN window ELSE call[c].at

(* The own counter first.  What fails is not tried again.                  *)
ReleaseOwn(c) ==
    LET p == call[c].who  w == RefundAt(c)
        next == [call EXCEPT ![c].stage = IF Pooled(c) THEN "releasesPool" ELSE "released",
                             ![c].at = w]
    IN  /\ call[c].stage = "releases"
        /\ \/ Refund(p, w) /\ call' = next /\ Calm
           \/ Throws(c, "error", Refund(p, w))

ReleasePool(c) ==
    /\ call[c].stage = "releasesPool"
    /\ \/ Refund(Pool, call[c].at) /\ GoesTo(c, "released") /\ Calm
       \/ Throws(c, "error", Refund(Pool, call[c].at))

(* record: the work has happened, whatever the limit says.                 *)
Record(c, p) == Starts(c, p, IF p \in Sessions THEN "recordsPool" ELSE "records")

RecordPool(c) ==
    /\ call[c].stage = "recordsPool"
    /\ \/ Count(Pool, call[c].at) /\ GoesTo(c, "records") /\ Calm
       \/ Throws(c, "error", Count(Pool, call[c].at))

RecordOwn(c) ==
    LET p == call[c].who  w == call[c].at
    IN  /\ call[c].stage = "records"
        /\ \/ Count(p, w) /\ GoesTo(c, "recorded") /\ Calm
           \/ Throws(c, "error", Count(p, w))

-----------------------------------------------------------------------------
CallDies(c) ==
    /\ call[c].stage \notin {"new", "works", "done", "refused", "released", "recorded", "error"}
    /\ GoesTo(c, "error") /\ failed' = TRUE /\ UNCHANGED <<window, used, stepped>>

ClockMoves ==
    \/ /\ window < MaxWindow /\ window' = window + 1
       /\ UNCHANGED <<used, call, failed, stepped>>
    \/ /\ window > 0 /\ window' = window - 1 /\ stepped' = TRUE
       /\ UNCHANGED <<used, call, failed>>

QuotaNext ==
    \/ \E c \in Calls :
          \/ \E p \in Principals : Reserve(c, p) \/ Record(c, p)
          \/ ReservePool(c) \/ ReserveOwn(c) \/ ReleasePoolQuietly(c) \/ Works(c)
          \/ ReleaseOwn(c) \/ ReleasePool(c) \/ RecordPool(c) \/ RecordOwn(c) \/ CallDies(c)
    \/ ClockMoves

QuotaSpec == QuotaInit /\ [][QuotaNext]_quotaVars

-----------------------------------------------------------------------------
QuotaStages == {"new", "pools", "owns", "unpools", "refused", "works", "done", "releases",
           "releasesPool", "released", "recordsPool", "records", "recorded", "error"}

(* A call is at one of its stages, and a pool stage is a session's.        *)
QuotaTypeOK ==
    /\ window \in 0 .. MaxWindow
    /\ used \in [Counters -> [0 .. MaxWindow -> Nat]]
    /\ call \in [Calls -> [stage : QuotaStages, who : Counters, at : 0 .. MaxWindow]]
    /\ failed \in BOOLEAN /\ stepped \in BOOLEAN
    /\ \A c \in Calls :
          call[c].stage \in {"pools", "unpools", "releasesPool", "recordsPool"} => Pooled(c)

In(stages, k, w) ==
    {c \in Calls : /\ call[c].stage \in stages /\ call[c].at = w
                   /\ (call[c].who = k \/ (k = Pool /\ Pooled(c)))}

Granted == {"works", "done", "releases"}

(* "The gate is one atomic step": work that was let through and not given  *)
(* back never exceeds the budget of its window, the own one and the shared *)
(* one, whatever throws, dies or is refunded late, while clocks go forward.*)
GateHolds ==
    ~stepped => \A k \in Counters, w \in 0 .. MaxWindow :
                   Cardinality(In(Granted, k, w)) <= LimitOf(k)

Busy == QuotaStages \ {"new", "works", "done", "refused", "released", "recorded", "error"}

(* When no call is under way and none ever failed, a counter is the work   *)
(* let through and recorded: a refusal by one counter leaves nothing in    *)
(* the other, and a refund lands where its reservation did.                *)
Exact ==
    ~failed /\ ~stepped /\ (\A c \in Calls : call[c].stage \notin Busy) =>
        \A k \in Counters, w \in 0 .. MaxWindow :
            used[k][w] = Cardinality(In({"works", "done", "recorded"}, k, w))

(* A failure costs budget and never gives any: a counter holds at least    *)
(* the work that is under way or done.                                     *)
FailsClosed ==
    ~stepped => \A k \in Counters, w \in 0 .. MaxWindow :
                   used[k][w] >= Cardinality(In(Granted \cup {"recorded"}, k, w))

(* The promises of the quota together.                                     *)
QuotaSafe == GateHolds /\ Exact /\ FailsClosed
=============================================================================
