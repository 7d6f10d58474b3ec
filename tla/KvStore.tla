------------------------------ MODULE KvStore ------------------------------
(***************************************************************************)
(* The Redis key-value store (RedisKvStore): calls share one connection    *)
(* that may break at any time; a call that finds it dead replaces it, one  *)
(* replacement at a time, and a command that failed on it is sent once     *)
(* more, unless it timed out or the store was closed.                      *)
(*                                                                         *)
(* A broken link is noticed only when a command fails on it.  The server   *)
(* may execute a command whose answer is lost.                             *)
(***************************************************************************)
EXTENDS Integers, FiniteSets

CONSTANTS StoreCalls,
          MaxConnections, MaxBreaks    \* bounds

ASSUME KvStoreAssumption == MaxConnections \in Nat \ {0} /\ MaxBreaks \in Nat

Ids == 1..MaxConnections

VARIABLES
    conns,     \* the connections: whether our socket is open, the link works, what was recorded
    current,   \* the connection commands are sent on
    opening,   \* the connection the shared reconnect is opening, as a set
    last,      \* the newest connection
    closed,    \* close() was called
    calls,     \* the calls: where they are, the connection they use, their sends and reconnects,
               \* and (history) whether one of their commands timed out on a frozen connection
    breaks

storeVars == <<conns, current, opening, last, closed, calls, breaks>>

Unused == [open |-> FALSE, link |-> FALSE, error |-> "none"]
Fresh == [open |-> TRUE, link |-> TRUE, error |-> "none"]

StoreInit ==
    /\ conns = [i \in Ids |-> IF i = 1 THEN Fresh ELSE Unused]
    /\ current = 1 /\ opening = {} /\ last = 1 /\ closed = FALSE
    /\ calls = [c \in StoreCalls |-> [pc |-> "idle", on |-> 1, sends |-> 0, reconnects |-> 0,
                                 frozen |-> FALSE]]
    /\ breaks = 0

----------------------------------------------------------------------------
(* A call of the store.                                                    *)

\* Sends the command of a call on the current connection.
Sent(call) == [call EXCEPT !.pc = "sent", !.on = current, !.sends = @ + 1]

\* One replacement of the connection at a time: a call joins the one in flight.
Joins == opening # {}

\* Sends on a live connection; a connection recorded dead is replaced first.
ReconnectIfDead(c, call, cs) ==
    \/ /\ cs[current].error = "none"
       /\ calls' = [calls EXCEPT ![c] = Sent(call)]
       /\ conns' = cs
       /\ UNCHANGED <<opening, last>>
    \/ /\ cs[current].error # "none"
       /\ calls' = [calls EXCEPT ![c] = [call EXCEPT !.pc = "reconnecting",
                                                     !.reconnects = @ + 1]]
       /\ \/ /\ Joins
             /\ conns' = cs
             /\ UNCHANGED <<opening, last>>
          \/ /\ ~Joins /\ last < MaxConnections
             /\ last' = last + 1 /\ opening' = opening \union {last + 1}
             /\ conns' = [cs EXCEPT ![last + 1] = Fresh]

Send(c) ==
    /\ calls[c].pc = "idle"
    /\ \/ /\ closed
          /\ calls' = [calls EXCEPT ![c].pc = "failed"]
          /\ UNCHANGED <<conns, opening, last>>
       \/ /\ ~closed /\ ReconnectIfDead(c, calls[c], conns)
    /\ UNCHANGED <<current, closed, breaks>>

\* The reconnect a call waited for has ended well.
Resume(c) ==
    /\ calls[c].pc = "resuming"
    /\ calls' = [calls EXCEPT ![c] = Sent(calls[c])]
    /\ UNCHANGED <<conns, current, opening, last, closed, breaks>>

\* An answer, or a refusal by the server.
Reply(c) ==
    /\ calls[c].pc = "sent" /\ conns[calls[c].on].open /\ conns[calls[c].on].link
    /\ calls' = [calls EXCEPT ![c].pc = "done"]
    /\ UNCHANGED <<conns, current, opening, last, closed, breaks>>

\* The connection a failure is recorded on: the one the command was sent on.
Blamed_Current(call) == current
Blamed(call) == call.on

\* What the failure of a command leaves: the first error of its connection.
Recorded(call, error) ==
    [conns EXCEPT ![Blamed(call)].error = IF @ = "none" THEN error ELSE @]

\* Whether a command that failed is sent again.
Resends(call, cs) ==
    call.sends = 1 /\ call.reconnects = 0 /\ ~closed /\ cs[call.on].error # "timeout"

SendFailed(c, call, cs) ==
    \/ /\ Resends(call, cs)
       /\ ReconnectIfDead(c, call, cs)
    \/ /\ ~Resends(call, cs)
       /\ calls' = [calls EXCEPT ![c] = [call EXCEPT !.pc = "failed"]]
       /\ conns' = cs
       /\ UNCHANGED <<opening, last>>

\* The command fails on a connection that is broken or was closed.
Fail(c) ==
    LET call == calls[c] IN
    /\ call.pc = "sent" /\ ~(conns[call.on].open /\ conns[call.on].link)
    /\ SendFailed(c, call, Recorded(call, "broken"))
    /\ UNCHANGED <<current, closed, breaks>>

\* No answer came in time: the connection is closed under every command on it.
Timeout(c) ==
    LET call == calls[c]
        seen == Recorded(call, "timeout")
    IN  /\ call.pc = "sent" /\ conns[call.on].open /\ breaks < MaxBreaks
        /\ breaks' = breaks + 1
        /\ SendFailed(c, [call EXCEPT !.frozen = conns[call.on].error = "none"],
                      [seen EXCEPT ![call.on].open = FALSE])
        /\ UNCHANGED <<current, closed>>

----------------------------------------------------------------------------
(* The shared reconnect, close(), and the network.                         *)

\* Every call that joined the reconnect hears how it ended.
Told(outcome) ==
    [c \in StoreCalls |-> IF calls[c].pc = "reconnecting" THEN [calls[c] EXCEPT !.pc = outcome]
                                                     ELSE calls[c]]

\* A store closed meanwhile closes the new connection; otherwise it replaces the old one.
ClosesLate_Never == FALSE
ClosesLate == closed

OpenSucceeds ==
    \E i \in opening :
        /\ conns[i].link /\ opening' = opening \ {i}
        /\ \/ /\ ClosesLate
              /\ conns' = [conns EXCEPT ![i].open = FALSE]
              /\ calls' = Told("failed")
              /\ UNCHANGED current
           \/ /\ ~ClosesLate
              /\ conns' = [conns EXCEPT ![current].open = FALSE]
              /\ current' = i
              /\ calls' = Told("resuming")
        /\ UNCHANGED <<last, closed, breaks>>

OpenFails ==
    \E i \in opening :
        /\ opening' = opening \ {i}
        /\ conns' = [conns EXCEPT ![i] = Unused]
        /\ last' = IF i = last THEN last - 1 ELSE last
        /\ calls' = Told("failed")
        /\ UNCHANGED <<current, closed, breaks>>

Close ==
    /\ ~closed /\ closed' = TRUE
    /\ conns' = [conns EXCEPT ![current].open = FALSE]
    /\ UNCHANGED <<current, opening, last, calls, breaks>>

LinkBreaks(i) ==
    /\ conns[i].open /\ conns[i].link
    /\ breaks < MaxBreaks /\ breaks' = breaks + 1
    /\ conns' = [conns EXCEPT ![i].link = FALSE]
    /\ UNCHANGED <<current, opening, last, closed, calls>>

\* A write on a broken link is trapped and recorded; its command still waits for an answer.
WriteFails(c) ==
    /\ calls[c].pc = "sent" /\ ~conns[calls[c].on].link
    /\ conns[calls[c].on].error = "none"
    /\ conns' = Recorded(calls[c], "broken")
    /\ UNCHANGED <<current, opening, last, closed, calls, breaks>>

StoreNext ==
    \/ \E c \in StoreCalls : Send(c) \/ Resume(c) \/ Reply(c) \/ Fail(c) \/ Timeout(c) \/ WriteFails(c)
    \/ OpenSucceeds \/ OpenFails \/ Close
    \/ \E i \in Ids : LinkBreaks(i)

StoreSpec == StoreInit /\ [][StoreNext]_storeVars

\* A command is answered or fails within its time, and an attempt to connect within its own.
StoreFairness ==
    /\ \A c \in StoreCalls : WF_storeVars(Reply(c) \/ Fail(c) \/ Timeout(c)) /\ WF_storeVars(Resume(c))
    /\ WF_storeVars(OpenSucceeds \/ OpenFails)

FairStoreSpec == StoreSpec /\ StoreFairness

----------------------------------------------------------------------------
(* Properties.                                                             *)

\* The types of the variables; one reconnect at a time (redis-kv-store.ts:370-381).
StoreTypeOK ==
    /\ current \in Ids /\ last \in Ids /\ opening \subseteq Ids
    /\ Cardinality(opening) <= 1
    /\ \A i \in Ids : conns[i].error \in {"none", "broken", "timeout"}
    /\ \A c \in StoreCalls : (calls[c].pc = "reconnecting") => opening # {}

\* No socket leaks: one is open only while it is the store's or the reconnect's, and none once the
\* store is closed and the reconnect in flight has ended (redis-kv-store.ts:375-380, 655-662).
NoneLeaks ==
    /\ \A i \in Ids : conns[i].open => i = current \/ i \in opening
    /\ closed /\ opening = {} => \A i \in Ids : ~conns[i].open

\* Only a connection that is broken or was closed is replaced: a late failure on an old connection costs the new
\* one nothing (redis-kv-store.ts:438-445).
HealthyKeptStep == current' # current => ~(conns[current].open /\ conns[current].link)
HealthyKept == [][HealthyKeptStep]_storeVars

\* A call sends its command twice at most and waits for one reconnect at most
\* (redis-kv-store.ts:502-507).
BoundedEffort == \A c \in StoreCalls : calls[c].sends <= 2 /\ calls[c].reconnects <= 1

\* A command that timed out on a connection nothing else was wrong with is not sent again
\* (redis-kv-store.ts:505-506).
FrozenNotResent == \A c \in StoreCalls : calls[c].frozen => calls[c].pc = "failed"

\* The promises of the store together.
KvStoreSafe == NoneLeaks /\ BoundedEffort /\ FrozenNotResent

\* Every call ends (redis-kv-store.ts:224-235).
EveryStoreCallEnds == \A c \in StoreCalls : calls[c].pc # "idle" ~> calls[c].pc \in {"done", "failed"}
=============================================================================
