------------------------------ MODULE Lockout -------------------------------
(***************************************************************************)
(* The escalating lockout of src/server/lockout: begin, fail and refund    *)
(* (mod.ts) over the store of memory-store.ts, which sweeps counters and   *)
(* holds at most MaxEntries of them.  An update of a store is one step.    *)
(***************************************************************************)
EXTENDS Integers, FiniteSets

CONSTANTS
    Subjects, Checks,
    FreeFailures, FirstLock, MaxLock, QuietReset,   \* the policy, in ticks
    MaxEntries,
    Slowest,        \* no check runs for longer
    MaxRuns,        \* bound: the checks of a subject before its count begins again
    MaxTime         \* bound: the clock stops here

LockoutAssumption ==
    /\ FreeFailures \in Nat /\ MaxEntries \in Nat \ {0} /\ QuietReset \in Nat \ {0}
    /\ FirstLock \in Nat \ {0} /\ MaxLock \in Nat /\ MaxLock >= FirstLock
    /\ Slowest \in Nat /\ MaxTime \in Nat

VARIABLES
    now,
    held, row,      \* the subjects with a counter, and the counters
    fullUntil,      \* #fullUntil, -1 for -Infinity
    lastSweepAt,
    check,          \* the checks between begin and fail or refund
    unswept,        \* history: the counters of a store that never drops one
    runs, refunds, expiries,    \* history, since the count of a subject began
    outlived        \* history: the subjects with a check that outlived its counter

store == <<held, row, fullUntil, lastSweepAt>>
history == <<unswept, runs, refunds, expiries, outlived>>
vars == <<now, store, check, history>>

None == -1          \* null
Infinity == 2 * MaxTime + MaxLock + QuietReset

Fresh == [failures |-> 0, lockedUntil |-> None, lastFailureAt |-> None, touchedAt |-> 0]
NoCheck == [subject |-> None, age |-> 0]

Smaller(x, y) == IF x < y THEN x ELSE y
Larger(x, y) == IF x < y THEN y ELSE x

Init ==
    /\ now = 0
    /\ held = {} /\ row = [s \in Subjects |-> Fresh]
    /\ fullUntil = None /\ lastSweepAt = 0
    /\ check = [c \in Checks |-> NoCheck]
    /\ unswept = [s \in Subjects |-> Fresh]
    /\ runs = [s \in Subjects |-> 0] /\ refunds = [s \in Subjects |-> 0]
    /\ expiries = [s \in Subjects |-> 0] /\ outlived = {}

-----------------------------------------------------------------------------
(* The policy.                                                             *)
LockDelay(failures) ==
    IF failures > FreeFailures
    THEN Smaller(FirstLock * 2 ^ (failures - FreeFailures - 1), MaxLock) ELSE 0

Locked(state) == state.lockedUntil # None /\ state.lockedUntil > now

Quiet(state) == state.lastFailureAt # None /\ now - state.lastFailureAt >= QuietReset

Counted(state) == (IF Quiet(state) THEN 0 ELSE state.failures) + 1

(* beginCheck of a subject that is not locked.                             *)
Begun(state) ==
    [state EXCEPT !.failures = Counted(state),
                  !.lockedUntil = IF LockDelay(Counted(state)) = 0 THEN None
                                  ELSE now + LockDelay(Counted(state)),
                  !.lastFailureAt = IF Quiet(state) \/ @ = None THEN now ELSE @,
                  !.touchedAt = now]

Failed(state) == [state EXCEPT !.lastFailureAt = now, !.touchedAt = now]

(* A right secret gives one slot back, and clears any lock.                *)
Refunded(state) ==
    [state EXCEPT !.failures = Larger(@ - 1, 0), !.lockedUntil = None, !.touchedAt = now]

-----------------------------------------------------------------------------
(* The store.                                                              *)

(* When a counter decides nothing any more.                                *)
DroppableAt(state) ==
    IF state.lastFailureAt = None /\ state.failures # 0 THEN Infinity
    ELSE Larger(Larger(state.lockedUntil, state.touchedAt + QuietReset),
                IF state.lastFailureAt = None THEN None
                ELSE state.lastFailureAt + QuietReset)

Droppable == {s \in held : DroppableAt(row[s]) <= now}

(* A sweep, which is due once in QuietReset; many calls may force one.     *)
MaybeSweeps == IF now - lastSweepAt >= QuietReset THEN {TRUE} ELSE BOOLEAN
Left(swept) == IF swept THEN held \ Droppable ELSE held
Sweeps(swept) == lastSweepAt' = IF swept THEN now ELSE lastSweepAt

Crowded_OffByOne(s, kept) == s \notin kept /\ Cardinality(kept) > MaxEntries

Crowded(s, kept) == s \notin kept /\ Cardinality(kept) >= MaxEntries

(* track: a new subject of a full store needs the place of another.        *)
Tracks(s, kept) ==
    \/ /\ ~Crowded(s, kept)
       /\ held' = kept \cup {s}
       /\ UNCHANGED fullUntil
    \/ /\ Crowded(s, kept) /\ now >= fullUntil /\ kept \cap Droppable # {}
       /\ held' = (kept \ Droppable) \cup {s}
       /\ fullUntil' = None

FreeAt(kept) ==
    CHOOSE at \in {DroppableAt(row[s]) : s \in kept} :
        \A s \in kept : at <= DroppableAt(row[s])

(* makeRoom throws: the pass found nothing, or one before it had not.      *)
Refuses(s, kept) ==
    /\ Crowded(s, kept)
    /\ now >= fullUntil => kept \cap Droppable = {}
    /\ held' = kept
    /\ fullUntil' = IF now >= fullUntil THEN FreeAt(kept) ELSE fullUntil
    /\ row' = [t \in Subjects |-> IF t \in kept THEN row[t] ELSE Fresh]

(* The counter that `change` is given, and the one it returns.             *)
Current(s, kept) == IF s \in kept THEN row[s] ELSE [Fresh EXCEPT !.touchedAt = now]

Writes(s, state) ==
    row' = [t \in Subjects |-> IF t = s THEN state
                               ELSE IF t \in held' THEN row[t] ELSE Fresh]

-----------------------------------------------------------------------------
(* The flow of a check.                                                    *)

(* The history of a subject begins again when its count does.              *)
Counts(s, again, ran, refunded, expired) ==
    LET since(f) == IF again THEN 0 ELSE f[s]
    IN  /\ runs' = [runs EXCEPT ![s] = since(runs) + ran]
        /\ refunds' = [refunds EXCEPT ![s] = since(refunds) + refunded]
        /\ expiries' = [expiries EXCEPT ![s] = since(expiries) + expired]

(* begin: the check runs, and counts as a failure in advance.              *)
BeginCheck(c, s) ==
    /\ check[c] = NoCheck
    /\ \E swept \in MaybeSweeps :
          LET kept == Left(swept)
              was == Current(s, kept)
          IN  /\ ~Locked(was) /\ (s \in kept => runs[s] < MaxRuns)
              /\ Sweeps(swept) /\ Tracks(s, kept) /\ Writes(s, Begun(was))
              /\ Counts(s, s \notin kept \/ Quiet(was), 1, 0,
                        IF was.lockedUntil = None \/ Quiet(was) THEN 0 ELSE 1)
    /\ unswept' = [unswept EXCEPT ![s] = IF Locked(@) THEN @ ELSE Begun(@)]
    /\ check' = [check EXCEPT ![c] = [subject |-> s, age |-> 0]]
    /\ UNCHANGED <<now, outlived>>

(* begin: a lock runs, so the caller is told to wait.                      *)
BeginLocked(c, s) ==
    /\ check[c] = NoCheck
    /\ \E swept \in MaybeSweeps :
          LET kept == Left(swept)
          IN  /\ s \in kept /\ Locked(row[s])
              /\ Sweeps(swept) /\ Tracks(s, kept) /\ Writes(s, row[s])
    /\ UNCHANGED <<now, check, history>>

BeginRefused(c, s) ==
    /\ check[c] = NoCheck
    /\ \E swept \in MaybeSweeps : Sweeps(swept) /\ Refuses(s, Left(swept))
    /\ UNCHANGED <<now, check, history>>

(* refund or fail, on the counter that is there by now.                    *)
Ends(c) == check' = [check EXCEPT ![c] = NoCheck]

Outlives(s, kept) == outlived' = IF s \in kept THEN outlived ELSE outlived \cup {s}

RefundCheck(c) ==
    LET s == check[c].subject
    IN  /\ check[c] # NoCheck
        /\ \E swept \in MaybeSweeps :
              LET kept == Left(swept)
              IN  /\ Sweeps(swept) /\ Tracks(s, kept)
                  /\ Writes(s, Refunded(Current(s, kept)))
                  /\ Counts(s, s \notin kept, 0, 1, 0) /\ Outlives(s, kept)
        /\ unswept' = [unswept EXCEPT ![s] = Refunded(@)]
        /\ Ends(c)
        /\ UNCHANGED now

FailCheck(c) ==
    LET s == check[c].subject
    IN  /\ check[c] # NoCheck
        /\ \E swept \in MaybeSweeps :
              LET kept == Left(swept)
              IN  /\ Sweeps(swept) /\ Tracks(s, kept)
                  /\ Writes(s, Failed(Current(s, kept)))
                  /\ Counts(s, s \notin kept, 0, 0, 0) /\ Outlives(s, kept)
        /\ unswept' = [unswept EXCEPT ![s] = Failed(@)]
        /\ Ends(c)
        /\ UNCHANGED now

(* refund or fail rejects: the counter was dropped, and there is no room.  *)
EndRefused(c) ==
    /\ check[c] # NoCheck
    /\ \E swept \in MaybeSweeps : Sweeps(swept) /\ Refuses(check[c].subject, Left(swept))
    /\ Ends(c)
    /\ UNCHANGED <<now, history>>

(* The process that checked has died, or the request was dropped.          *)
Forgotten(c) ==
    /\ check[c] # NoCheck
    /\ Ends(c)
    /\ UNCHANGED <<now, store, history>>

TimePasses ==
    /\ now < MaxTime
    /\ \A c \in Checks : check[c] # NoCheck => check[c].age < Slowest
    /\ now' = now + 1
    /\ check' = [c \in Checks |->
          IF check[c] = NoCheck THEN NoCheck ELSE [check[c] EXCEPT !.age = @ + 1]]
    /\ UNCHANGED <<store, history>>

Next ==
    \/ \E c \in Checks, s \in Subjects : BeginCheck(c, s) \/ BeginLocked(c, s) \/ BeginRefused(c, s)
    \/ \E c \in Checks : RefundCheck(c) \/ FailCheck(c) \/ EndRefused(c) \/ Forgotten(c)
    \/ TimePasses

Spec == Init /\ [][Next]_vars

-----------------------------------------------------------------------------
States == [failures : Nat, lockedUntil : Nat \cup {None}, lastFailureAt : Nat \cup {None},
           touchedAt : Nat]

(* The counters are well formed, and the store holds no more than it may.  *)
TypeOK ==
    /\ now \in 0 .. MaxTime /\ lastSweepAt \in 0 .. MaxTime
    /\ held \subseteq Subjects /\ Cardinality(held) <= MaxEntries
    /\ row \in [Subjects -> States] /\ unswept \in [Subjects -> States]
    /\ fullUntil \in Nat \cup {None}
    /\ \A f \in {runs, refunds, expiries} : f \in [Subjects -> Nat]
    /\ outlived \subseteq Subjects

(* "Of any number of simultaneous checks, at most the free budget plus one *)
(* run": each further one needs a lock that ran out, or a right secret.    *)
GuessesBounded ==
    \A s \in held : runs[s] <= FreeFailures + 1 + refunds[s] + expiries[s]

(* "A sweep drops a counter only when the next check would start it again  *)
(* from zero anyway", and filling the store clears nobody's lock or count: *)
(* the next check of a subject finds what a store that never drops says.   *)
(* A check that runs for QuietReset or longer outlives the counter that it *)
(* raised, and is then left out of the count.                              *)
SameAs(state, other) ==
    /\ Locked(state) <=> Locked(other)
    /\ IF Locked(state) THEN state.lockedUntil = other.lockedUntil
       ELSE Counted(state) = Counted(other)

SweepsUnseen == \A s \in Subjects \ outlived : SameAs(Current(s, held), unswept[s])
=============================================================================
