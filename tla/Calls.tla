-------------------------------- MODULE Calls --------------------------------
(***************************************************************************)
(* One call of a page, over the socket or over HTTP: src/realtime/calls.ts *)
(* (the composed port and sendCommand / sendQuery) against the gate of     *)
(* src/realtime/operations.ts.  The network may delay or lose a request or *)
(* its answer, a proxy may answer instead of the server, and the session   *)
(* of the browser may become another user's under the running page.        *)
(***************************************************************************)
EXTENDS Integers

CONSTANTS
    Calls, CommandCalls,    \* all calls, and those that are commands
    SessionUsers, PageUser,    \* the user the page was started for
    Attempts

ASSUME CallsAssumption ==
    CommandCalls \subseteq Calls /\ PageUser \in SessionUsers /\ Attempts \in Nat \ {0}

VARIABLES
    socket,     \* the transport's status
    first,      \* whether the socket's first open has ended
    gate,       \* the one wait for it: none, waiting or over
    settled,    \* no call waits any more
    call,       \* each call: its stage, its try and what it was told
    wire,       \* each request sent: one for a try and a way
    session,    \* whose session the browser's cookie is
    works,      \* the requests whose operation runs on the server
    key,        \* what the server holds under an idempotency key
    ran         \* how often each call took effect, and for whom

callsVars == <<socket, first, gate, settled, call, wire, session, works, key, ran>>

Ways == {"socket", "http"}
SignedOut == "nobody"
Request(c, n, way) == <<c, n, way>>
WireRequests == Calls \X (1 .. Attempts) \X Ways

(* sendCommand: "sends it again with the same key".                        *)
KeyOf_EachTry(c, n) == <<c, n>>
KeyOf(c, n) == <<c, 0>>
Keys == Calls \X (0 .. Attempts)

CallsInit ==
    /\ socket = "down" /\ first = "pending" /\ gate = "none" /\ settled = FALSE
    /\ call = [c \in Calls |-> [stage |-> "new", try |-> 1, told |-> "nothing"]]
    /\ wire = [q \in WireRequests |-> "none"]
    /\ session = PageUser /\ works = {}
    /\ key = [k \in Keys |-> "free"]
    /\ ran = [c \in Calls |-> [times |-> 0, as |-> {}]]

-----------------------------------------------------------------------------
(* The page.                                                               *)
Sent(c, way) ==
    /\ call' = [call EXCEPT ![c].stage = way]
    /\ wire' = [wire EXCEPT ![Request(c, call[c].try, way)] = "sent"]

Done(c, told) == call' = [call EXCEPT ![c].stage = "done", ![c].told = told]

(* useSocket, then the first request of this try.                          *)
Begin(c) ==
    /\ call[c].stage = "new"
    /\ \/ /\ socket = "open"
          /\ settled' = TRUE /\ Sent(c, "socket") /\ UNCHANGED gate
       \/ /\ socket = "down" /\ (settled \/ first = "over")
          /\ settled' = TRUE /\ Sent(c, "http") /\ UNCHANGED gate
       \/ /\ socket = "down" /\ ~settled /\ first = "pending"
          /\ gate' = IF gate = "none" THEN "waiting" ELSE gate
          /\ call' = [call EXCEPT ![c].stage = "gate"]
          /\ UNCHANGED <<settled, wire>>
    /\ UNCHANGED <<socket, first, session, works, key, ran>>

(* The first open ended, or the bound has passed.                          *)
GateEnds_NoBound ==
    /\ gate = "waiting" /\ first = "over" /\ gate' = "over"
    /\ UNCHANGED <<socket, first, settled, call, wire, session, works, key, ran>>

GateEnds ==
    /\ gate = "waiting" /\ gate' = "over"
    /\ UNCHANGED <<socket, first, settled, call, wire, session, works, key, ran>>

PassGate(c) ==
    /\ call[c].stage = "gate" /\ gate = "over"
    /\ Sent(c, IF socket = "open" THEN "socket" ELSE "http")
    /\ UNCHANGED <<socket, first, gate, settled, session, works, key, ran>>

(* withRetry, after an answer or an error that may be tried again.         *)
Retries(c, why) ==
    IF call[c].try < Attempts
    THEN call' = [call EXCEPT ![c].stage = "sleep"]
    ELSE Done(c, why)

WakeUp(c) ==
    /\ call[c].stage = "sleep"
    /\ call' = [call EXCEPT ![c].stage = "new", ![c].try = @ + 1]
    /\ UNCHANGED <<socket, first, gate, settled, wire, session, works, key, ran>>

(* RequestTimeoutError over the socket, ConnectionLostError over HTTP.     *)
TimesOut(c) ==
    /\ call[c].stage \in Ways
    /\ Retries(c, "unknown")
    /\ UNCHANGED <<socket, first, gate, settled, wire, session, works, key, ran>>

Abort(c) ==
    /\ call[c].stage \in Ways \cup {"gate", "sleep"}
    /\ Done(c, "aborted")
    /\ UNCHANGED <<socket, first, gate, settled, wire, session, works, key, ran>>

Retryable == {"rate_limited", "timeout", "IN_PROGRESS"}

(* What a 2xx without a result, a 5xx or a bare 404 means: nobody of the   *)
(* API answered.                                                           *)
Understood(c, answer) ==
    CASE answer = "foreign" -> Retries(c, "unknown")
      [] answer \in Retryable -> Retries(c, "unknown")
      [] OTHER -> Done(c, answer)

Answers == Retryable \cup {"result", "refused", "unauthorized", "foreign"}

AnswerArrives(c, way) ==
    LET q == Request(c, call[c].try, way)
    IN  /\ call[c].stage = way /\ wire[q] \in Answers
        /\ wire' = [wire EXCEPT ![q] = "over"]
        /\ Understood(c, wire[q])
        /\ UNCHANGED <<socket, first, gate, settled, session, works, key, ran>>

-----------------------------------------------------------------------------
(* The socket.  Calls that wait for an answer on it are lost with it, and  *)
(* are sent over HTTP.                                                     *)
SocketOpens ==
    /\ socket = "down" /\ socket' = "open" /\ first' = "over"
    /\ UNCHANGED <<gate, settled, call, wire, session, works, key, ran>>

FirstOpenFails ==
    /\ socket = "down" /\ first = "pending" /\ first' = "over"
    /\ UNCHANGED <<socket, gate, settled, call, wire, session, works, key, ran>>

SocketCloses ==
    LET lost == {c \in Calls : call[c].stage = "socket"}
    IN  /\ socket = "open" /\ socket' = "down"
        /\ call' = [c \in Calls |->
              IF c \in lost THEN [call[c] EXCEPT !.stage = "http"] ELSE call[c]]
        /\ wire' = [q \in WireRequests |->
              CASE q[1] \in lost /\ q[2] = call[q[1]].try /\ q[3] = "http" -> "sent"
                [] q[3] = "socket" /\ wire[q] \in Answers \cup {"runs"} -> "over"
                [] OTHER -> wire[q]]
        /\ UNCHANGED <<first, gate, settled, session, works, key, ran>>

-----------------------------------------------------------------------------
(* The server, and the way to it.                                          *)
Loses(q) ==
    /\ wire[q] \in Answers \cup {"sent"}
    /\ wire' = [wire EXCEPT ![q] = "over"]
    /\ UNCHANGED <<socket, first, gate, settled, call, session, works, key, ran>>

ProxyAnswers(q) ==
    /\ q[3] = "http" /\ wire[q] = "sent"
    /\ wire' = [wire EXCEPT ![q] = "foreign"]
    /\ UNCHANGED <<socket, first, gate, settled, call, session, works, key, ran>>

(* admit: the session is read again for every call.                        *)
Bound == session = PageUser

(* A command's key decides whether it runs; a query always does.           *)
Held(q) == IF q[1] \in CommandCalls THEN key[KeyOf(q[1], q[2])] ELSE "free"

Holds(q, what) ==
    key' = IF q[1] \in CommandCalls THEN [key EXCEPT ![KeyOf(q[1], q[2])] = what] ELSE key

Refuse(q) ==
    /\ wire[q] = "sent"
    /\ \/ ~Bound /\ wire' = [wire EXCEPT ![q] = "unauthorized"]
       \/ wire' = [wire EXCEPT ![q] = "rate_limited"]
    /\ UNCHANGED <<socket, first, gate, settled, call, session, works, key, ran>>

(* What is admitted runs as the user who asks, or reads what a run left.   *)
Admit(q) ==
    /\ wire[q] = "sent" /\ Bound
    /\ ran' = [ran EXCEPT ![q[1]].as = @ \cup {session}]
    /\ wire' = [wire EXCEPT ![q] =
          CASE Held(q) = "free" -> "runs"
            [] Held(q) = "taken" -> "IN_PROGRESS"
            [] Held(q) = "done" -> "result"]
    /\ IF Held(q) = "free"
       THEN works' = works \cup {q} /\ Holds(q, "taken")
       ELSE UNCHANGED <<works, key>>
    /\ UNCHANGED <<socket, first, gate, settled, call, session>>

Answered(q, what) == wire' = [wire EXCEPT ![q] = IF @ = "runs" THEN what ELSE @]

(* handle commits and the key keeps the result, or it fails and the key is *)
(* free again; by then nobody may wait for the answer.                     *)
Finish(q) ==
    /\ q \in works /\ works' = works \ {q}
    /\ ran' = [ran EXCEPT ![q[1]].times = @ + 1]
    /\ Holds(q, "done") /\ Answered(q, "result")
    /\ UNCHANGED <<socket, first, gate, settled, call, session>>

Fail(q) ==
    /\ q \in works /\ works' = works \ {q}
    /\ Holds(q, "free") /\ Answered(q, "refused")
    /\ UNCHANGED <<socket, first, gate, settled, call, session, ran>>

(* The registry's timer answers a socket's request that still runs.        *)
ServerTimesOut(q) ==
    /\ q[3] = "socket" /\ wire[q] = "runs" /\ Answered(q, "timeout")
    /\ UNCHANGED <<socket, first, gate, settled, call, session, works, key, ran>>

SessionChanges(u) ==
    /\ session # u /\ session' = u
    /\ UNCHANGED <<socket, first, gate, settled, call, wire, works, key, ran>>

CallsNext ==
    \/ \E c \in Calls :
          \/ Begin(c) \/ PassGate(c) \/ WakeUp(c) \/ TimesOut(c) \/ Abort(c)
          \/ \E way \in Ways : AnswerArrives(c, way)
    \/ GateEnds \/ SocketOpens \/ FirstOpenFails \/ SocketCloses
    \/ \E q \in WireRequests :
          \/ Loses(q) \/ ProxyAnswers(q) \/ Refuse(q) \/ Admit(q)
          \/ Finish(q) \/ Fail(q) \/ ServerTimesOut(q)
    \/ \E u \in SessionUsers \cup {SignedOut} : SessionChanges(u)

CallsSpec == CallsInit /\ [][CallsNext]_callsVars

(* Every wait of a call has a timer behind it.                             *)
CallsFairness ==
    /\ WF_callsVars(GateEnds)
    /\ \A c \in Calls :
          WF_callsVars(Begin(c)) /\ WF_callsVars(PassGate(c)) /\ WF_callsVars(WakeUp(c)) /\ WF_callsVars(TimesOut(c))

FairCallsSpec == CallsSpec /\ CallsFairness

-----------------------------------------------------------------------------
(* Every call is at one stage of one of its tries, and only its present    *)
(* request can be waited for.                                              *)
CallsTypeOK ==
    /\ socket \in {"down", "open"} /\ first \in {"pending", "over"}
    /\ gate \in {"none", "waiting", "over"} /\ settled \in BOOLEAN
    /\ call \in [Calls ->
          [stage : Ways \cup {"new", "gate", "sleep", "done"}, try : 1 .. Attempts,
           told : {"nothing", "unknown", "aborted", "result", "refused", "unauthorized"}]]
    /\ wire \in [WireRequests -> Answers \cup {"none", "sent", "runs", "over"}]
    /\ session \in SessionUsers \cup {SignedOut}
    /\ works \subseteq WireRequests
    /\ key \in [Keys -> {"free", "taken", "done"}]
    /\ ran \in [Calls -> [times : Nat, as : SUBSET (SessionUsers \cup {SignedOut})]]
    /\ \A q \in WireRequests : q[2] > call[q[1]].try => wire[q] = "none"

(* "A repeat cannot do the work twice": whatever is lost, repeated, sent   *)
(* again the other way or answered late, a command takes effect once.      *)
RunsOnce == \A c \in CommandCalls : ran[c].times <= 1

(* A call that is told it succeeded did: no proxy's answer, nor another    *)
(* try's, passes for the result.                                           *)
SuccessIsTrue == \A c \in Calls : call[c].told = "result" => ran[c].times > 0

(* "A call is bound to one user": a cookie that changed under the page     *)
(* does not let a call, a repeat or a late arrival act for someone else.   *)
BoundToPage == \A c \in Calls : ran[c].as \subseteq {PageUser}

(* The promises of a call together.                                        *)
CallsSafe == RunsOnce /\ SuccessIsTrue /\ BoundToPage

(* No call waits for ever, on the gate, on a route or between tries.       *)
EveryCallEnds == \A c \in Calls : (call[c].stage # "new") ~> (call[c].stage = "done")
=============================================================================
