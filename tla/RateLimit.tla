----------------------------- MODULE RateLimit -----------------------------
(***************************************************************************)
(* The in-process sliding-window limiter (MemoryRateLimiter) behind its    *)
(* middleware: a request is checked, handled, and gives its slot back when *)
(* it counts as successful.  Buckets are swept when idle, and a limiter    *)
(* that is full makes room or refuses new keys.                            *)
(*                                                                         *)
(* The clock does not step back.                                           *)
(***************************************************************************)
EXTENDS Integers, FiniteSets, Sequences

CONSTANTS Requests, Keys,
          Window, Limit, Idle,   \* the window, the requests it allows, the grace of the sweep
          MaxBuckets,            \* buckets held at most
          SweepEvery,            \* checks after which a sweep is forced
          MaxTime                \* bound

RateLimitAssumption ==
    /\ Window \in Nat \ {0} /\ Limit \in Nat \ {0} /\ Idle \in Nat
    /\ MaxBuckets \in Nat \ {0} /\ SweepEvery \in Nat \ {0} /\ MaxTime \in Nat

Never == 0 - 1

VARIABLES
    now,
    buckets,    \* key -> the held bucket: the moments it recorded, and when it was last seen
    fullUntil,  \* while the limiter is full: when the first held bucket can fall idle, else Never
    lastSweep, checks,    \* when the last sweep ran, and the checks since
    requests    \* where each request is: its keys and the moment it was recorded at

vars == <<now, buckets, fullUntil, lastSweep, checks, requests>>

Kept == DOMAIN buckets

Init ==
    /\ now = 0 /\ buckets = [k \in {} |-> {}] /\ fullUntil = Never
    /\ lastSweep = 0 /\ checks = 0
    /\ requests = [r \in Requests |-> [pc |-> "new", key |-> {}, at |-> 0]]

----------------------------------------------------------------------------
(* Buckets.                                                                *)

Newest(events) == events[Len(events)]

\* Whether no event of a bucket is after a moment: its newest one is not.
QuietSince(bucket, cutoff) == bucket.events = << >> \/ Newest(bucket.events) <= cutoff

\* Where the events inside the window begin: the events are in order.
FirstLive(events) ==
    CHOOSE i \in 1 .. Len(events) + 1 :
        /\ \A j \in 1 .. i - 1 : events[j] <= now - Window
        /\ \A j \in i .. Len(events) : events[j] > now - Window

Live(events) == SubSeq(events, FirstLive(events), Len(events))

Without(bs, dropped) == [k \in DOMAIN bs \ dropped |-> bs[k]]

\* The sweep drops a bucket not seen in the grace whose events left the window and the grace.
IdleBucket_SeenOnly(bucket) == bucket.seenAt <= now - Idle    \* a mutant of IdleBucket
IdleBucket(bucket) ==
    bucket.seenAt <= now - Idle /\ QuietSince(bucket, now - Window - Idle)

SweepDue == now - lastSweep >= Window \/ checks + 1 >= SweepEvery

Swept == IF SweepDue THEN Without(buckets, {k \in Kept : IdleBucket(buckets[k])}) ELSE buckets

\* A full limiter drops the buckets with no event inside the window.
Droppable(bs) == {k \in DOMAIN bs : QuietSince(bs[k], now - Window)}

\* It looks for them only once one of the buckets it kept can have fallen idle.
Cleared(bs) == IF now >= fullUntil THEN Without(bs, Droppable(bs)) ELSE bs

FreeAt(bs) ==
    LET ends == {Newest(bs[k].events) + Window : k \in DOMAIN bs}
    IN  CHOOSE t \in ends : \A u \in ends : t <= u

\* Whether a new key may have a bucket.
HasRoom(bs) == Cardinality(DOMAIN bs) < MaxBuckets

----------------------------------------------------------------------------
(* A request.                                                              *)

Answered(r, pc, k, at) == requests' = [requests EXCEPT ![r] = [pc |-> pc, key |-> {k}, at |-> at]]

\* The key has a bucket, or gets one: the request is recorded if the window has room.
Record(r, k, bs) ==
    LET events == IF k \in DOMAIN bs THEN Live(bs[k].events) ELSE <<>>
        ok == Len(events) < Limit
    IN  /\ buckets' = [j \in DOMAIN bs \union {k} |->
                          IF j = k THEN [events |-> IF ok THEN Append(events, now) ELSE events,
                                         seenAt |-> now]
                                   ELSE bs[j]]
        /\ Answered(r, IF ok THEN "accepted" ELSE "limited", k, now)

Check(r, k) ==
    /\ requests[r].pc = "new"
    /\ lastSweep' = IF SweepDue THEN now ELSE lastSweep
    /\ checks' = IF SweepDue THEN 0 ELSE checks + 1
    /\ \/ /\ k \in DOMAIN Swept \/ HasRoom(Swept)
          /\ Record(r, k, Swept)
          /\ UNCHANGED fullUntil
       \/ /\ k \notin DOMAIN Swept /\ ~HasRoom(Swept)
          /\ \/ /\ HasRoom(Cleared(Swept))
                /\ fullUntil' = Never
                /\ Record(r, k, Cleared(Swept))
             \/ /\ ~HasRoom(Cleared(Swept))
                /\ buckets' = Cleared(Swept)
                /\ fullUntil' = IF now >= fullUntil THEN FreeAt(Cleared(Swept)) ELSE fullUntil
                /\ Answered(r, "refused", k, now)
    /\ UNCHANGED now

\* The event a refund drops: the last recorded at the request's own moment, if one is still held.
Refunded(events, at) ==
    LET places == {i \in DOMAIN events : events[i] = at}
        last == CHOOSE i \in places : \A j \in places : j <= i
    IN  IF places = {} THEN events
        ELSE [i \in 1 .. Len(events) - 1 |-> IF i < last THEN events[i] ELSE events[i + 1]]

\* The handler ended well: the slot is given back.
Refund(r) ==
    /\ requests[r].pc = "accepted"
    /\ requests' = [requests EXCEPT ![r].pc = "refunded"]
    /\ buckets' = [k \in Kept |->
                      IF k \in requests[r].key
                      THEN [buckets[k] EXCEPT !.events = Refunded(@, requests[r].at)]
                      ELSE buckets[k]]
    /\ UNCHANGED <<now, fullUntil, lastSweep, checks>>

Sweep ==
    /\ buckets' = Without(buckets, {k \in Kept : IdleBucket(buckets[k])})
    /\ lastSweep' = now /\ checks' = 0
    /\ UNCHANGED <<now, fullUntil, requests>>

Advance ==
    /\ now < MaxTime /\ now' = now + 1
    /\ UNCHANGED <<buckets, fullUntil, lastSweep, checks, requests>>

Next ==
    \/ \E r \in Requests : Refund(r) \/ \E k \in Keys : Check(r, k)
    \/ Sweep \/ Advance

Spec == Init /\ [][Next]_vars

----------------------------------------------------------------------------
(* Properties.                                                             *)

\* The requests of a key that hold a slot of the window.
Holders(k) == {r \in Requests : requests[r].pc = "accepted" /\ k \in requests[r].key
                                /\ requests[r].at > now - Window}

InOrder(events) == \A i, j \in DOMAIN events : i <= j => events[i] <= events[j]

\* The types of the variables; the map never grows past its cap (memory.ts:182-191).
TypeOK ==
    /\ now \in 0..MaxTime /\ Kept \subseteq Keys /\ Cardinality(Kept) <= MaxBuckets
    /\ fullUntil = Never \/ fullUntil \in 0..(MaxTime + Window)
    /\ lastSweep \in 0..now /\ checks \in 0..(SweepEvery - 1)
    /\ \A k \in Kept : buckets[k].seenAt \in 0..now /\ InOrder(buckets[k].events)

\* A bucket counts exactly the requests it accepted inside the window and did not refund: no
\* sweep, clean-up or refund of another request resets or frees a slot (memory.ts:184-190,
\* 329-334, 362-365).
CountsExactly ==
    \A k \in Keys :
        Cardinality(Holders(k)) = IF k \in Kept THEN Len(Live(buckets[k].events)) ELSE 0

\* A full limiter refuses a key only while no bucket fell idle by itself: a bucket it can drop was
\* emptied by a refund since it last looked (memory.ts:382-387).
RefusesWhenFull ==
    now < fullUntil =>
        \A k \in Droppable(buckets) : \E r \in Requests :
            requests[r].pc = "refunded" /\ k \in requests[r].key
=============================================================================
