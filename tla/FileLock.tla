------------------------------ MODULE FileLock ------------------------------
(***************************************************************************)
(* The exclusive lock of a directory as its instances see it: one instance *)
(* per process, several calls on each.  runExclusive queues the bodies of  *)
(* an instance and takes the lock for each; acquire and release do without *)
(* the queue.                                                              *)
(***************************************************************************)
EXTENDS Sequences, Naturals

CONSTANTS Locks, Calls,
          MaxCalls     \* bound

NoLock == "free"

ASSUME FileLockAssumption == NoLock \notin Locks /\ MaxCalls \in Nat

VARIABLES
    owner,      \* whose the operating system says the lock is
    handle,     \* the instances that think they hold it
    taking,     \* the instances with an attempt in flight
    queue,      \* of each instance: the calls in the mutex, its holder first
    call,
    calls,
    crossed     \* history: acquire or release met the lock of a body

lockVars == <<owner, handle, taking, queue, call, calls, crossed>>

AtRest == [pc |-> "idle", on |-> NoLock, took |-> FALSE]

LockInit ==
    /\ owner = NoLock /\ handle = {} /\ taking = {}
    /\ queue = [l \in Locks |-> <<>>]
    /\ call = [c \in Calls |-> AtRest] /\ calls = 0
    /\ crossed = FALSE

Comes(c, pc) == call' = [call EXCEPT ![c].pc = pc]

Starts(c, l, pc) ==
    /\ call[c] = AtRest /\ calls < MaxCalls
    /\ calls' = calls + 1
    /\ call' = [call EXCEPT ![c] = [pc |-> pc, on |-> l, took |-> FALSE]]

RunExclusive(c, l) ==
    /\ Starts(c, l, "queued")
    /\ queue' = [queue EXCEPT ![l] = Append(@, c)]
    /\ UNCHANGED <<owner, handle, taking, crossed>>

HasTurn(c) == Head(queue[call[c].on]) = c

Leaves(c) == queue' = [queue EXCEPT ![call[c].on] = Tail(@)]

InBody(l) == {c \in Calls : call[c].pc = "body" /\ call[c].on = l}

StopWaiting_Forgets(c) ==
    /\ call[c].pc = "queued" /\ ~HasTurn(c)
    /\ call' = [call EXCEPT ![c] = AtRest]
    /\ UNCHANGED <<owner, handle, taking, queue, calls, crossed>>

\* The wait for the turn is bounded; the turn that comes later is passed on.
StopWaiting(c) ==
    /\ call[c].pc = "queued" /\ ~HasTurn(c)
    /\ Comes(c, "gone")
    /\ UNCHANGED <<owner, handle, taking, queue, calls, crossed>>

PassOn(c) ==
    /\ call[c].pc = "gone" /\ HasTurn(c)
    /\ Leaves(c)
    /\ call' = [call EXCEPT ![c] = AtRest]
    /\ UNCHANGED <<owner, handle, taking, calls, crossed>>

Enter(c) ==
    LET l == call[c].on
    IN  /\ call[c].pc = "queued" /\ HasTurn(c)
        /\ IF l \in handle THEN Comes(c, "body") /\ UNCHANGED taking
           ELSE /\ call' = [call EXCEPT ![c].pc = "taking", ![c].took = TRUE]
                /\ taking' = taking \cup {l}
        /\ UNCHANGED <<owner, handle, queue, calls, crossed>>

\* acquire and tryAcquire: a lock the instance has is theirs too.
Acquire(c, l) ==
    /\ IF l \in handle
       THEN Starts(c, l, "has") /\ crossed' = (crossed \/ InBody(l) # {}) /\ UNCHANGED taking
       ELSE Starts(c, l, "shares") /\ taking' = taking \cup {l} /\ UNCHANGED crossed
    /\ UNCHANGED <<owner, handle, queue>>

Sharing(l) == {c \in Calls : call[c].pc \in {"taking", "shares"} /\ call[c].on = l}

\* One attempt answers every call that shares it.
Taken(l) ==
    LET got == owner = NoLock
    IN  /\ l \in taking /\ taking' = taking \ {l}
        /\ owner' = IF got THEN l ELSE owner
        /\ handle' = IF got THEN handle \cup {l} ELSE handle
        /\ call' = [c \in Calls |->
               IF c \notin Sharing(l) THEN call[c]
               ELSE IF call[c].pc = "taking"
               THEN [call[c] EXCEPT !.pc = IF got THEN "body" ELSE "leaves"]
               ELSE IF got THEN [call[c] EXCEPT !.pc = "has"] ELSE AtRest]
        /\ crossed' = (crossed \/ \E c, d \in Sharing(l) : got /\ call[c].pc # call[d].pc)
        /\ UNCHANGED <<queue, calls>>

EndBody(c) ==
    /\ call[c].pc = "body"
    /\ IF call[c].took /\ call[c].on \in handle
       THEN Comes(c, "frees") /\ handle' = handle \ {call[c].on}
       ELSE Comes(c, "leaves") /\ UNCHANGED handle
    /\ UNCHANGED <<owner, taking, queue, calls, crossed>>

\* Where another call that shared the lock released it, nothing is left to do.
ReleaseLock(c) ==
    LET l == call[c].on
    IN  /\ call[c].pc = "has"
        /\ IF l \in handle THEN Comes(c, "releases") /\ handle' = handle \ {l}
                           ELSE call' = [call EXCEPT ![c] = AtRest] /\ UNCHANGED handle
        /\ crossed' = (crossed \/ InBody(l) # {})
        /\ UNCHANGED <<owner, taking, queue, calls>>

Freed(c) ==
    /\ call[c].pc \in {"frees", "releases"}
    /\ owner' = NoLock
    /\ IF call[c].pc = "frees" THEN Comes(c, "leaves")
                               ELSE call' = [call EXCEPT ![c] = AtRest]
    /\ UNCHANGED <<handle, taking, queue, calls, crossed>>

Leave(c) ==
    /\ call[c].pc = "leaves"
    /\ Leaves(c)
    /\ call' = [call EXCEPT ![c] = AtRest]
    /\ UNCHANGED <<owner, handle, taking, calls, crossed>>

LockNext ==
    \/ \E l \in Locks : Taken(l)
    \/ \E c \in Calls :
          \/ \E l \in Locks : RunExclusive(c, l) \/ Acquire(c, l)
          \/ StopWaiting(c) \/ PassOn(c) \/ Enter(c) \/ EndBody(c) \/ ReleaseLock(c) \/ Freed(c)
          \/ Leave(c)

LockSpec == LockInit /\ [][LockNext]_lockVars

-----------------------------------------------------------------------------

LockTypeOK ==
    /\ owner \in Locks \cup {NoLock}
    /\ handle \cup taking \subseteq Locks
    /\ queue \in [Locks -> Seq(Calls)]
    /\ call \in [Calls -> [
          pc : {"idle", "queued", "gone", "taking", "body", "frees", "leaves", "shares", "has",
                "releases"},
          on : Locks \cup {NoLock}, took : BOOLEAN]]
    /\ calls \in Nat /\ crossed \in BOOLEAN

(* Bodies never overlap, in one process or in two, and none runs without   *)
(* the lock of the system (file-lock.ts:165-174).                          *)
BodiesAlone ==
    \A c \in Calls : call[c].pc = "body" =>
        /\ \A d \in Calls : d # c => call[d].pc # "body" \/ (crossed /\ call[d].on # call[c].on)
        /\ crossed \/ owner = call[c].on

(* A turn is never lost: while calls are queued, the first of them is on   *)
(* its way.                                                                *)
QueueMoves ==
    \A l \in Locks : queue[l] # <<>> =>
        LET c == Head(queue[l])
        IN  /\ call[c].pc \in {"queued", "gone", "taking", "body", "frees", "leaves"}
            /\ call[c].on = l
            /\ call[c].pc = "taking" => l \in taking

(* Under a lock bodies run one at a time, each with the lock, and no turn  *)
(* is lost.                                                                *)
FileLockSafe == LockTypeOK /\ BodiesAlone /\ QueueMoves
=============================================================================
