---------------------------- MODULE CallsProofs -----------------------------
(***************************************************************************)
(* Proofs about calls: on the client (Calls), for any calls, commands,     *)
(* users and number of attempts, and in the registry that answers them     *)
(* (Registry), for any connections, users and requests and any limits; and *)
(* about the lockout that counts those with a wrong secret (Lockout), for  *)
(* any policy, subjects, checks and size of the store.                     *)
(***************************************************************************)
EXTENDS Calls, Registry, Lockout, FiniteSetTheorems, WellFoundedInduction, TLAPS

CallStages == Ways \cup {"new", "gate", "sleep", "done"}
Tolds == {"nothing", "unknown", "aborted", "result", "refused", "unauthorized"}
CallStates == [stage : CallStages, try : 1 .. Attempts, told : Tolds]
WireStates == Answers \cup {"none", "sent", "runs", "over"}
Persons == SessionUsers \cup {SignedOut}
Runs == [times : Nat, as : SUBSET Persons]

(* The types, but for the wire of tries to come.                           *)
CallsTypes ==
    /\ call \in [Calls -> CallStates] /\ wire \in [WireRequests -> WireStates]
    /\ socket \in {"down", "open"} /\ first \in {"pending", "over"}
    /\ gate \in {"none", "waiting", "over"} /\ settled \in BOOLEAN
    /\ session \in Persons /\ works \subseteq WireRequests
    /\ key \in [Keys -> {"free", "taken", "done"}] /\ ran \in [Calls -> Runs]

(* A call sleeps only before a try that it has, and a try that has not     *)
(* come has sent nothing.                                                  *)
TriesInv ==
    /\ \A c \in Calls : call[c].stage = "sleep" => call[c].try < Attempts
    /\ \A q \in WireRequests : q[2] > call[q[1]].try => wire[q] = "none"

(* The key of a command knows whether it took effect and whether a request *)
(* of it runs, of which there is one at most.                              *)
KeyInv ==
    \A c \in CommandCalls :
        /\ ran[c].times = IF key[<<c, 0>>] = "done" THEN 1 ELSE 0
        /\ \A q \in works : q[1] = c => key[<<c, 0>>] = "taken"
        /\ \A q, r \in works : q[1] = c /\ r[1] = c => q = r

(* A result, on the wire or told, is of a call that took effect.           *)
ResultInv ==
    /\ \A q \in WireRequests : wire[q] = "result" => ran[q[1]].times > 0
    /\ SuccessIsTrue /\ BoundToPage

CallsInv == CallsTypes /\ TriesInv /\ KeyInv /\ ResultInv

LEMMA WireParts ==
    \A q \in WireRequests : /\ q[1] \in Calls /\ q[2] \in 1 .. Attempts /\ q[3] \in Ways
                            /\ q = <<q[1], q[2], q[3]>>
BY DEF WireRequests

LEMMA CallsStart == CallsInit => CallsInv
<1>. SUFFICES ASSUME CallsInit PROVE CallsInv
  OBVIOUS
<1>1. /\ [stage |-> "new", try |-> 1, told |-> "nothing"] \in CallStates
      /\ [times |-> 0, as |-> {}] \in Runs
  BY CallsAssumption DEF CallStates, CallStages, Tolds, Runs
<1>2. call \in [Calls -> CallStates] /\ ran \in [Calls -> Runs]
  BY <1>1 DEF CallsInit
<1>3. CallsTypes
  BY <1>2, CallsAssumption DEF CallsInit, CallsTypes, WireStates, Persons
<1>4. \A c \in Calls : call[c].stage = "new" /\ call[c].told = "nothing"
                       /\ ran[c].times = 0 /\ ran[c].as = {}
  BY DEF CallsInit
<1>5. /\ \A q \in WireRequests : wire[q] = "none"
      /\ works = {} /\ \A k \in Keys : key[k] = "free"
  BY DEF CallsInit
<1>6. \A c \in Calls : <<c, 0>> \in Keys
  BY CallsAssumption DEF Keys
<1>7. TriesInv /\ ResultInv
  BY <1>4, <1>5 DEF TriesInv, ResultInv, SuccessIsTrue, BoundToPage
<1>8. KeyInv
  BY <1>4, <1>5, <1>6, CallsAssumption DEF KeyInv
<1>. QED
  BY <1>3, <1>7, <1>8 DEF CallsInv

(* A step of one call of the page: the request it sends is of its present  *)
(* try, and what it is told to be a result is one.                         *)
Moves(c, next) ==
    /\ call' = [call EXCEPT ![c] = next]
    /\ next.try = call[c].try \/ next.try = call[c].try + 1
    /\ next.stage = "sleep" => next.try < Attempts
    /\ next.told = "result" => ran[c].times > 0
    /\ wire' \in [WireRequests -> WireStates]
    /\ \A q \in WireRequests :
          \/ wire'[q] = wire[q]
          \/ wire'[q] = "over" /\ wire[q] # "none"
          \/ q[1] = c /\ q[2] = next.try /\ wire'[q] = "sent"
    /\ gate' \in {"none", "waiting", "over"} /\ settled' \in BOOLEAN
    /\ UNCHANGED <<socket, first, session, works, key, ran>>

LEMMA PageMoves ==
    ASSUME CallsInv, NEW c \in Calls, NEW next \in CallStates, Moves(c, next)
    PROVE  CallsInv'
<1>0. call' = [call EXCEPT ![c] = next]
  BY DEF Moves
<1>1. /\ call \in [Calls -> CallStates] /\ call' \in [Calls -> CallStates]
      /\ \A d \in Calls : call'[d] = IF d = c THEN next ELSE call[d]
      /\ call[c].try \in 1 .. Attempts /\ next.try \in 1 .. Attempts
  BY <1>0 DEF Moves, CallsInv, CallsTypes, CallStates
<1>2. CallsTypes'
  BY <1>1 DEF Moves, CallsInv, CallsTypes
<1>3. TriesInv'
  <2>1. \A d \in Calls : call'[d].stage = "sleep" => call'[d].try < Attempts
    BY <1>1 DEF Moves, CallsInv, TriesInv
  <2>2. ASSUME NEW q \in WireRequests, q[2] > call'[q[1]].try PROVE wire'[q] = "none"
    <3>1. q[1] \in Calls /\ q[2] \in 1 .. Attempts
      BY WireParts
    <3>2. q[2] > call[q[1]].try /\ ~(q[1] = c /\ q[2] = next.try)
      <4>1. next.try \in {call[c].try, call[c].try + 1} /\ call[q[1]].try \in Int
        BY <1>1, <3>1 DEF Moves, CallStates
      <4>2. q[1] = c => q[2] > next.try
        BY <1>1, <2>2
      <4>. QED
        BY <1>1, <2>2, <3>1, <4>1, <4>2
    <3>. QED
      BY <3>2 DEF Moves, CallsInv, TriesInv
  <2>. QED
    BY <2>1, <2>2 DEF TriesInv
<1>4. KeyInv'
  BY DEF Moves, CallsInv, KeyInv
<1>5. ResultInv'
  BY <1>1 DEF Moves, CallsInv, ResultInv, SuccessIsTrue, BoundToPage
<1>. QED
  BY <1>2, <1>3, <1>4, <1>5 DEF CallsInv

(* A call that sends a request, or changes its stage only.                 *)
LEMMA StageState ==
    ASSUME CallsInv, NEW c \in Calls, NEW stage \in CallStages
    PROVE  LET next == [call[c] EXCEPT !.stage = stage]
           IN  /\ next \in CallStates /\ next.stage = stage /\ next.try = call[c].try
               /\ next.told = call[c].told /\ (next.told = "result" => ran[c].times > 0)
BY DEF CallsInv, CallsTypes, CallStates, ResultInv, SuccessIsTrue

LEMMA Sending ==
    ASSUME CallsInv, NEW c \in Calls, NEW way \in Ways, Sent(c, way),
           gate' \in {"none", "waiting", "over"}, settled' \in BOOLEAN,
           UNCHANGED <<socket, first, session, works, key, ran>>
    PROVE  CallsInv'
<1>. DEFINE next == [call[c] EXCEPT !.stage = way]
            sent == <<c, call[c].try, way>>
<1>1. call[c] \in CallStates /\ call \in [Calls -> CallStates] /\ wire \in [WireRequests -> WireStates]
  BY DEF CallsInv, CallsTypes
<1>2. /\ next \in CallStates /\ next.stage = way /\ next.try = call[c].try
      /\ (next.told = "result" => ran[c].times > 0)
  BY StageState DEF CallStages
<1>3. call' = [call EXCEPT ![c] = next]
  BY <1>1 DEF Sent
<1>4. sent \in WireRequests /\ sent[1] = c /\ sent[2] = call[c].try
  BY <1>1 DEF WireRequests, CallStates
<1>5. wire' = [wire EXCEPT ![sent] = "sent"]
  BY DEF Sent, Request
<1>6. /\ wire' \in [WireRequests -> WireStates]
      /\ \A q \in WireRequests :
            wire'[q] = wire[q] \/ (q[1] = c /\ q[2] = next.try /\ wire'[q] = "sent")
  BY <1>1, <1>2, <1>4, <1>5 DEF WireStates
<1>7. next.stage # "sleep"
  BY <1>2 DEF Ways
<1>. HIDE DEF next, sent
<1>8. Moves(c, next)
  BY <1>2, <1>3, <1>6, <1>7 DEF Moves
<1>. QED
  BY <1>2, <1>8, PageMoves

LEMMA Telling ==
    ASSUME CallsInv, NEW c \in Calls, NEW told \in Tolds \ {"nothing"}, Done(c, told),
           told = "result" => ran[c].times > 0,
           wire' \in [WireRequests -> WireStates],
           \A q \in WireRequests : wire'[q] = wire[q] \/ (wire'[q] = "over" /\ wire[q] # "none"),
           UNCHANGED <<socket, first, gate, settled, session, works, key, ran>>
    PROVE  CallsInv'
<1>. DEFINE next == [call[c] EXCEPT !.stage = "done", !.told = told]
<1>1. call[c] \in CallStates /\ call \in [Calls -> CallStates]
      /\ gate \in {"none", "waiting", "over"} /\ settled \in BOOLEAN
  BY DEF CallsInv, CallsTypes
<1>2. /\ next \in CallStates /\ next.stage = "done" /\ next.try = call[c].try
      /\ next.told = told
  BY <1>1 DEF CallStates, CallStages
<1>3. call' = [call EXCEPT ![c] = next]
  BY <1>1 DEF Done
<1>. HIDE DEF next
<1>4. Moves(c, next)
  BY <1>1, <1>2, <1>3 DEF Moves
<1>. QED
  BY <1>2, <1>4, PageMoves

LEMMA Retrying ==
    ASSUME CallsInv, NEW c \in Calls, Retries(c, "unknown"),
           wire' \in [WireRequests -> WireStates],
           \A q \in WireRequests : wire'[q] = wire[q] \/ (wire'[q] = "over" /\ wire[q] # "none"),
           UNCHANGED <<socket, first, gate, settled, session, works, key, ran>>
    PROVE  CallsInv'
<1>1. CASE call[c].try < Attempts
  <2>. DEFINE next == [call[c] EXCEPT !.stage = "sleep"]
  <2>1. call[c] \in CallStates /\ call \in [Calls -> CallStates]
        /\ gate \in {"none", "waiting", "over"} /\ settled \in BOOLEAN
    BY DEF CallsInv, CallsTypes
  <2>2. /\ next \in CallStates /\ next.stage = "sleep" /\ next.try = call[c].try
        /\ (next.told = "result" => ran[c].times > 0)
    BY StageState DEF CallStages
  <2>3. call' = [call EXCEPT ![c] = next]
    BY <1>1, <2>1 DEF Retries
  <2>. HIDE DEF next
  <2>4. Moves(c, next)
    BY <1>1, <2>1, <2>2, <2>3 DEF Moves
  <2>. QED
    BY <2>2, <2>4, PageMoves
<1>2. CASE ~(call[c].try < Attempts)
  <2>1. Done(c, "unknown")
    BY <1>2 DEF Retries
  <2>. QED
    BY <2>1, Telling DEF Tolds
<1>. QED
  BY <1>1, <1>2

LEMMA PageSteps ==
    ASSUME CallsInv, NEW c \in Calls,
           Begin(c) \/ PassGate(c) \/ WakeUp(c) \/ TimesOut(c) \/ Abort(c)
             \/ \E way \in Ways : AnswerArrives(c, way)
    PROVE  CallsInv'
<1>1. /\ call[c] \in CallStates /\ call \in [Calls -> CallStates]
      /\ wire \in [WireRequests -> WireStates]
      /\ gate \in {"none", "waiting", "over"} /\ settled \in BOOLEAN
  BY DEF CallsInv, CallsTypes
<1>2. CASE Begin(c)
  <2>1. CASE Sent(c, "socket")
    BY <1>1, <1>2, <2>1, Sending DEF Begin, Ways
  <2>2. CASE Sent(c, "http")
    BY <1>1, <1>2, <2>2, Sending DEF Begin, Ways
  <2>3. CASE /\ gate' = (IF gate = "none" THEN "waiting" ELSE gate)
             /\ call' = [call EXCEPT ![c].stage = "gate"] /\ UNCHANGED <<settled, wire>>
    <3>. DEFINE next == [call[c] EXCEPT !.stage = "gate"]
    <3>1. /\ next \in CallStates /\ next.stage = "gate" /\ next.try = call[c].try
          /\ (next.told = "result" => ran[c].times > 0)
      BY StageState DEF CallStages
    <3>2. call' = [call EXCEPT ![c] = next]
      BY <1>1, <2>3
    <3>3. UNCHANGED <<socket, first, session, works, key, ran>>
      BY <1>2 DEF Begin
    <3>. HIDE DEF next
    <3>4. Moves(c, next)
      BY <1>1, <2>3, <3>1, <3>2, <3>3 DEF Moves
    <3>. QED
      BY <3>1, <3>4, PageMoves
  <2>. QED
    BY <1>2, <2>1, <2>2, <2>3 DEF Begin
<1>3. CASE PassGate(c)
  BY <1>1, <1>3, Sending DEF PassGate, Ways
<1>4. CASE WakeUp(c)
  <2>. DEFINE n == call[c].try + 1
              next == [call[c] EXCEPT !.stage = "new", !.try = n]
  <2>1. n \in 1 .. Attempts
    BY <1>1, <1>4, CallsAssumption DEF WakeUp, CallsInv, TriesInv, CallStates
  <2>2. call' = [call EXCEPT ![c] = next]
    BY <1>1, <1>4 DEF WakeUp
  <2>. HIDE DEF n
  <2>3. /\ next \in CallStates /\ next.stage = "new" /\ next.try = n /\ next.told = call[c].told
    BY <1>1, <2>1 DEF CallStates, CallStages
  <2>4. next.told = "result" => ran[c].times > 0
    BY <2>3 DEF CallsInv, ResultInv, SuccessIsTrue
  <2>5. UNCHANGED <<socket, first, gate, settled, wire, session, works, key, ran>>
    BY <1>4 DEF WakeUp
  <2>. HIDE DEF next
  <2>6. next.try = call[c].try + 1
    BY <2>3 DEF n
  <2>7. Moves(c, next)
    BY <1>1, <2>2, <2>3, <2>4, <2>5, <2>6 DEF Moves
  <2>. QED
    BY <2>3, <2>7, PageMoves
<1>5. CASE TimesOut(c)
  BY <1>1, <1>5, Retrying DEF TimesOut
<1>6. CASE Abort(c)
  BY <1>1, <1>6, Telling DEF Abort, Tolds
<1>7. ASSUME NEW way \in Ways, AnswerArrives(c, way) PROVE CallsInv'
  <2>. DEFINE q == <<c, call[c].try, way>>
              answer == wire[q]
  <2>1. q \in WireRequests /\ q[1] = c
    BY <1>1 DEF WireRequests, CallStates
  <2>2. answer \in Answers /\ wire' = [wire EXCEPT ![q] = "over"] /\ Understood(c, answer)
        /\ UNCHANGED <<socket, first, gate, settled, session, works, key, ran>>
    BY <1>7 DEF AnswerArrives, Request
  <2>3. /\ wire' \in [WireRequests -> WireStates]
        /\ \A p \in WireRequests : wire'[p] = wire[p] \/ (wire'[p] = "over" /\ wire[p] # "none")
    BY <1>1, <2>1, <2>2 DEF WireStates, Answers, Retryable
  <2>4. answer = "result" => ran[c].times > 0
    BY <2>1 DEF CallsInv, ResultInv
  <2>. HIDE DEF answer, q
  <2>5. CASE answer = "foreign" \/ answer \in Retryable
    <3>1. Retries(c, "unknown")
      BY <2>2, <2>5 DEF Understood, Retryable
    <3>. QED
      BY <2>2, <2>3, <3>1, Retrying
  <2>6. CASE answer # "foreign" /\ answer \notin Retryable
    <3>1. Done(c, answer) /\ answer \in Tolds \ {"nothing"}
      BY <2>2, <2>6 DEF Understood, Answers, Tolds
    <3>. QED
      BY <2>2, <2>3, <2>4, <3>1, Telling
  <2>. QED
    BY <2>5, <2>6
<1>. QED
  BY <1>2, <1>3, <1>4, <1>5, <1>6, <1>7

(* A step in which calls only go from the socket to HTTP, and only the     *)
(* wire changes: nothing that was not sent by a try is on it.              *)
LEMMA NetworkMoves ==
    ASSUME CallsInv, call' \in [Calls -> CallStates],
           \A c \in Calls : /\ call'[c].try = call[c].try /\ call'[c].told = call[c].told
                            /\ call'[c].stage \in {call[c].stage, "http"},
           wire' \in [WireRequests -> WireStates],
           \A q \in WireRequests :
              /\ wire[q] = "none" => wire'[q] = "none" \/ q[2] = call[q[1]].try
              /\ wire'[q] = "result" => wire[q] = "result",
           socket' \in {"down", "open"}, first' \in {"pending", "over"},
           gate' \in {"none", "waiting", "over"}, session' \in Persons,
           UNCHANGED <<settled, works, key, ran>>
    PROVE  CallsInv'
<1>1. CallsTypes'
  BY DEF CallsInv, CallsTypes
<1>2. TriesInv'
  <2>1. \A c \in Calls : call'[c].stage = "sleep" => call'[c].try < Attempts
    BY DEF CallsInv, TriesInv
  <2>2. ASSUME NEW q \in WireRequests, q[2] > call'[q[1]].try PROVE wire'[q] = "none"
    <3>1. q[1] \in Calls /\ q[2] \in 1 .. Attempts /\ call[q[1]].try \in 1 .. Attempts
      BY WireParts DEF CallsInv, CallsTypes, CallStates
    <3>2. q[2] > call[q[1]].try /\ q[2] # call[q[1]].try
      BY <2>2, <3>1
    <3>. QED
      BY <3>2 DEF CallsInv, TriesInv
  <2>. QED
    BY <2>1, <2>2 DEF TriesInv
<1>3. KeyInv'
  BY DEF CallsInv, KeyInv
<1>4. ResultInv'
  BY DEF CallsInv, ResultInv, SuccessIsTrue, BoundToPage
<1>. QED
  BY <1>1, <1>2, <1>3, <1>4 DEF CallsInv

LEMMA NetworkSteps ==
    ASSUME CallsInv,
           \/ GateEnds \/ SocketOpens \/ FirstOpenFails \/ SocketCloses
           \/ \E q \in WireRequests :
                 Loses(q) \/ ProxyAnswers(q) \/ Refuse(q) \/ ServerTimesOut(q)
           \/ \E u \in SessionUsers \cup {SignedOut} : SessionChanges(u)
    PROVE  CallsInv'
<1>1. /\ call \in [Calls -> CallStates] /\ wire \in [WireRequests -> WireStates]
      /\ socket \in {"down", "open"} /\ first \in {"pending", "over"}
      /\ gate \in {"none", "waiting", "over"} /\ session \in Persons
  BY DEF CallsInv, CallsTypes
<1>2. CASE GateEnds \/ SocketOpens \/ FirstOpenFails
  BY <1>1, <1>2, NetworkMoves DEF GateEnds, SocketOpens, FirstOpenFails
<1>3. CASE SocketCloses
  <2>. DEFINE lost == {c \in Calls : call[c].stage = "socket"}
  <2>1. \A c \in Calls : /\ call'[c] \in CallStates /\ call'[c].try = call[c].try
                         /\ call'[c].told = call[c].told
                         /\ call'[c].stage \in {call[c].stage, "http"}
    <3>. SUFFICES ASSUME NEW c \in Calls
                  PROVE  /\ call'[c] \in CallStates /\ call'[c].try = call[c].try
                         /\ call'[c].told = call[c].told
                         /\ call'[c].stage \in {call[c].stage, "http"}
      OBVIOUS
    <3>1. call'[c] = IF c \in lost THEN [call[c] EXCEPT !.stage = "http"] ELSE call[c]
      BY <1>3 DEF SocketCloses
    <3>2. call[c] \in CallStates
      BY <1>1
    <3>. QED
      BY <3>1, <3>2 DEF CallStates, CallStages, Ways
  <2>2. call' \in [Calls -> CallStates]
    BY <1>3, <2>1 DEF SocketCloses
  <2>3. ASSUME NEW q \in WireRequests
        PROVE  /\ wire'[q] \in WireStates
               /\ wire[q] = "none" => wire'[q] = "none" \/ q[2] = call[q[1]].try
               /\ wire'[q] = "result" => wire[q] = "result"
    <3>1. \/ wire'[q] = "sent" /\ q[2] = call[q[1]].try
          \/ wire'[q] = "over" /\ wire[q] \in Answers \cup {"runs"}
          \/ wire'[q] = wire[q]
      BY <1>3 DEF SocketCloses
    <3>2. wire[q] \in WireStates
      BY <1>1
    <3>. QED
      BY <3>1, <3>2 DEF WireStates, Answers, Retryable
  <2>4. wire' \in [WireRequests -> WireStates]
    BY <1>3, <2>3 DEF SocketCloses
  <2>5. UNCHANGED <<first, gate, settled, session, works, key, ran>> /\ socket' = "down"
    BY <1>3 DEF SocketCloses
  <2>. QED
    BY <1>1, <2>1, <2>2, <2>3, <2>4, <2>5, NetworkMoves
<1>4. ASSUME NEW q \in WireRequests,
             Loses(q) \/ ProxyAnswers(q) \/ Refuse(q) \/ ServerTimesOut(q)
      PROVE  CallsInv'
  <2>1. PICK what \in {"over", "foreign", "unauthorized", "rate_limited", "timeout"} :
           wire' = [wire EXCEPT ![q] = what] /\ wire[q] # "none"
    BY <1>4 DEF Loses, ProxyAnswers, Refuse, ServerTimesOut, Answered, Answers, Retryable
  <2>2. UNCHANGED <<socket, first, gate, settled, call, session, works, key, ran>>
    BY <1>4 DEF Loses, ProxyAnswers, Refuse, ServerTimesOut
  <2>3. /\ wire' \in [WireRequests -> WireStates]
        /\ \A p \in WireRequests :
              /\ wire[p] = "none" => wire'[p] = "none" \/ p[2] = call[p[1]].try
              /\ wire'[p] = "result" => wire[p] = "result"
    BY <1>1, <2>1 DEF WireStates, Answers, Retryable
  <2>. QED
    BY <1>1, <2>2, <2>3, NetworkMoves
<1>5. ASSUME NEW u \in SessionUsers \cup {SignedOut}, SessionChanges(u) PROVE CallsInv'
  BY <1>1, <1>5, NetworkMoves DEF SessionChanges, Persons
<1>. QED
  BY <1>2, <1>3, <1>4, <1>5

(* A call that is admitted finds what its key holds.                       *)
LEMMA Admitting ==
    ASSUME CallsInv, NEW q \in WireRequests, Admit(q)
    PROVE  CallsInv'
<1>. DEFINE c == q[1]
<1>1. /\ c \in Calls /\ <<c, 0>> \in Keys /\ KeyOf(c, q[2]) = <<c, 0>>
      /\ q[2] \in 1 .. Attempts
  BY WireParts, CallsAssumption DEF Keys, KeyOf
<1>2. /\ call \in [Calls -> CallStates] /\ wire \in [WireRequests -> WireStates]
      /\ key \in [Keys -> {"free", "taken", "done"}] /\ ran \in [Calls -> Runs]
      /\ works \subseteq WireRequests /\ session \in Persons
  BY DEF CallsInv, CallsTypes
<1>3. /\ wire[q] = "sent" /\ session = PageUser
      /\ UNCHANGED <<socket, first, gate, settled, call, session>>
  BY DEF Admit, Bound
<1>4. /\ ran' \in [Calls -> Runs]
      /\ \A d \in Calls : /\ ran'[d].times = ran[d].times
                          /\ ran'[d].as \subseteq ran[d].as \cup {PageUser}
  <2>. DEFINE mine == [ran[c] EXCEPT !.as = ran[c].as \cup {session}]
  <2>1. mine \in Runs /\ mine.times = ran[c].times /\ mine.as = ran[c].as \cup {session}
    BY <1>1, <1>2 DEF Runs
  <2>2. ran' = [ran EXCEPT ![c] = mine]
    BY <1>1, <1>2 DEF Admit
  <2>. HIDE DEF mine
  <2>. QED
    BY <1>1, <1>2, <1>3, <2>1, <2>2
<1>5. Held(q) \in {"free", "taken", "done"}
  BY <1>1, <1>2 DEF Held
<1>6. \A p \in WireRequests : p # q => wire'[p] = wire[p]
  BY <1>2 DEF Admit
<1>7. /\ wire' \in [WireRequests -> WireStates]
      /\ wire'[q] = "result" => Held(q) = "done"
  BY <1>2, <1>5 DEF Admit, WireStates, Answers, Retryable
<1>8. /\ key' \in [Keys -> {"free", "taken", "done"}] /\ works' \subseteq WireRequests
      /\ \/ UNCHANGED <<works, key>>
         \/ /\ Held(q) = "free" /\ works' = works \cup {q}
            /\ key' = IF c \in CommandCalls THEN [key EXCEPT ![<<c, 0>>] = "taken"] ELSE key
  BY <1>1, <1>2 DEF Admit, Holds
<1>9. CallsTypes'
  BY <1>2, <1>3, <1>4, <1>7, <1>8 DEF CallsInv, CallsTypes
<1>10. TriesInv'
  BY <1>3, <1>6 DEF CallsInv, TriesInv
<1>11. KeyInv'
  <2>. SUFFICES ASSUME NEW d \in CommandCalls
                PROVE  /\ ran'[d].times = IF key'[<<d, 0>>] = "done" THEN 1 ELSE 0
                       /\ \A p \in works' : p[1] = d => key'[<<d, 0>>] = "taken"
                       /\ \A p, r \in works' : p[1] = d /\ r[1] = d => p = r
    BY DEF KeyInv
  <2>1. d \in Calls /\ <<d, 0>> \in Keys
    BY CallsAssumption DEF Keys
  <2>2. /\ ran[d].times = IF key[<<d, 0>>] = "done" THEN 1 ELSE 0
        /\ \A p \in works : p[1] = d => key[<<d, 0>>] = "taken"
        /\ \A p, r \in works : p[1] = d /\ r[1] = d => p = r
    BY DEF CallsInv, KeyInv
  <2>3. ran'[d].times = ran[d].times
    BY <1>4, <2>1
  <2>4. CASE UNCHANGED <<works, key>>
    BY <2>2, <2>3, <2>4
  <2>5. CASE /\ Held(q) = "free" /\ works' = works \cup {q}
             /\ key' = IF c \in CommandCalls THEN [key EXCEPT ![<<c, 0>>] = "taken"] ELSE key
    <3>1. CASE d = c
      <4>1. key[<<d, 0>>] = "free" /\ key' = [key EXCEPT ![<<d, 0>>] = "taken"]
        BY <1>1, <2>5, <3>1 DEF Held
      <4>2. key'[<<d, 0>>] = "taken" /\ \A p \in works : p[1] # d
        BY <1>2, <2>1, <2>2, <4>1
      <4>. QED
        BY <2>2, <2>3, <2>5, <4>1, <4>2
    <3>2. CASE d # c
      <4>1. key'[<<d, 0>>] = key[<<d, 0>>]
        BY <1>1, <1>2, <2>1, <2>5, <3>2
      <4>. QED
        BY <2>2, <2>3, <2>5, <3>2, <4>1
    <3>. QED
      BY <3>1, <3>2
  <2>. QED
    BY <1>8, <2>4, <2>5
<1>12. ResultInv'
  <2>1. Held(q) = "done" => ran[c].times > 0
    BY <1>1 DEF CallsInv, KeyInv, Held
  <2>2. \A p \in WireRequests : p[1] \in Calls
    BY WireParts
  <2>3. ASSUME NEW p \in WireRequests, wire'[p] = "result" PROVE ran'[p[1]].times > 0
    <3>1. CASE p = q
      BY <1>1, <1>4, <1>7, <2>1, <2>3, <3>1
    <3>2. CASE p # q
      BY <1>4, <1>6, <2>2, <2>3, <3>2 DEF CallsInv, ResultInv
    <3>. QED
      BY <3>1, <3>2
  <2>4. SuccessIsTrue' /\ BoundToPage'
    BY <1>3, <1>4 DEF CallsInv, ResultInv, SuccessIsTrue, BoundToPage
  <2>. QED
    BY <2>3, <2>4 DEF ResultInv
<1>. QED
  BY <1>9, <1>10, <1>11, <1>12 DEF CallsInv

(* An operation that ends: a command's key keeps its effect, or is free.   *)
LEMMA Finishing ==
    ASSUME CallsInv, NEW q \in WireRequests, Finish(q) \/ Fail(q)
    PROVE  CallsInv'
<1>. DEFINE c == q[1]
            won == IF Finish(q) THEN 1 ELSE 0
<1>1. /\ c \in Calls /\ <<c, 0>> \in Keys /\ KeyOf(c, q[2]) = <<c, 0>>
  BY WireParts, CallsAssumption DEF Keys, KeyOf
<1>2. /\ call \in [Calls -> CallStates] /\ wire \in [WireRequests -> WireStates]
      /\ key \in [Keys -> {"free", "taken", "done"}] /\ ran \in [Calls -> Runs]
      /\ works \subseteq WireRequests
      /\ \A d \in Calls : ran[d] \in Runs /\ ran[d].times \in Nat
  BY DEF CallsInv, CallsTypes, Runs
<1>3. PICK what \in {"result", "refused"}, left \in {"done", "free"} :
         /\ q \in works /\ works' = works \ {q}
         /\ key' = (IF c \in CommandCalls THEN [key EXCEPT ![<<c, 0>>] = left] ELSE key)
         /\ wire' = [wire EXCEPT ![q] = IF wire[q] = "runs" THEN what ELSE wire[q]]
         /\ UNCHANGED <<socket, first, gate, settled, call, session>>
         /\ \/ /\ what = "result" /\ left = "done"
               /\ ran' = [ran EXCEPT ![c].times = @ + 1]
            \/ what = "refused" /\ left = "free" /\ ran' = ran
  BY <1>1 DEF Finish, Fail, Holds, Answered
<1>4. /\ ran' \in [Calls -> Runs]
      /\ \A d \in Calls : /\ ran'[d].as = ran[d].as
                          /\ ran'[d].times = IF d = c /\ what = "result" THEN ran[d].times + 1
                                             ELSE ran[d].times
  <2>. DEFINE n == ran[c].times + 1
              mine == [ran[c] EXCEPT !.times = n]
  <2>1. n \in Nat /\ ran[c] \in Runs
    BY <1>1, <1>2
  <2>2. what = "result" => ran' = [ran EXCEPT ![c] = mine]
    BY <1>1, <1>2, <1>3
  <2>. HIDE DEF n
  <2>3. mine \in Runs /\ mine.times = n /\ mine.as = ran[c].as
    BY <2>1 DEF Runs
  <2>. HIDE DEF mine
  <2>4. CASE what = "result"
    BY <1>1, <1>2, <2>2, <2>3, <2>4 DEF n
  <2>5. CASE what = "refused"
    BY <1>2, <1>3, <2>5
  <2>. QED
    BY <2>4, <2>5
<1>5. /\ wire' \in [WireRequests -> WireStates]
      /\ \A p \in WireRequests :
            \/ wire'[p] = wire[p]
            \/ p = q /\ wire[p] = "runs" /\ wire'[p] = what
  BY <1>2, <1>3 DEF WireStates, Answers, Retryable
<1>6. key' \in [Keys -> {"free", "taken", "done"}]
  BY <1>1, <1>2, <1>3
<1>7. CallsTypes'
  BY <1>2, <1>3, <1>4, <1>5, <1>6 DEF CallsInv, CallsTypes
<1>8. TriesInv'
  BY <1>3, <1>5 DEF CallsInv, TriesInv
<1>9. KeyInv'
  <2>. SUFFICES ASSUME NEW d \in CommandCalls
                PROVE  /\ ran'[d].times = IF key'[<<d, 0>>] = "done" THEN 1 ELSE 0
                       /\ \A p \in works' : p[1] = d => key'[<<d, 0>>] = "taken"
                       /\ \A p, r \in works' : p[1] = d /\ r[1] = d => p = r
    BY DEF KeyInv
  <2>1. d \in Calls /\ <<d, 0>> \in Keys
    BY CallsAssumption DEF Keys
  <2>2. /\ ran[d].times = IF key[<<d, 0>>] = "done" THEN 1 ELSE 0
        /\ \A p \in works : p[1] = d => key[<<d, 0>>] = "taken"
        /\ \A p, r \in works : p[1] = d /\ r[1] = d => p = r
    BY DEF CallsInv, KeyInv
  <2>3. CASE d = c
    <3>1. key[<<d, 0>>] = "taken" /\ ran[d].times = 0
      BY <1>3, <2>2, <2>3
    <3>2. key'[<<d, 0>>] = left
      BY <1>2, <1>3, <2>1, <2>3
    <3>3. \A p \in works' : p[1] # d
      BY <1>3, <2>2, <2>3
    <3>4. ran'[d].times = IF what = "result" THEN 1 ELSE 0
      BY <1>4, <2>1, <2>3, <3>1
    <3>. QED
      BY <1>3, <3>2, <3>3, <3>4
  <2>4. CASE d # c
    <3>1. key'[<<d, 0>>] = key[<<d, 0>>]
      BY <1>1, <1>2, <1>3, <2>1, <2>4
    <3>2. ran'[d].times = ran[d].times
      BY <1>4, <2>1, <2>4
    <3>. QED
      BY <1>3, <2>2, <3>1, <3>2
  <2>. QED
    BY <2>3, <2>4
<1>10. ResultInv'
  <2>1. \A d \in Calls : ran[d].times > 0 => ran'[d].times > 0
    BY <1>2, <1>4
  <2>2. ASSUME NEW p \in WireRequests, wire'[p] = "result" PROVE ran'[p[1]].times > 0
    <3>1. p[1] \in Calls
      BY WireParts
    <3>2. CASE wire'[p] = wire[p]
      BY <2>1, <2>2, <3>1, <3>2 DEF CallsInv, ResultInv
    <3>3. CASE p = q /\ wire'[p] = what
      BY <1>1, <1>2, <1>4, <2>2, <3>3
    <3>. QED
      BY <1>5, <3>2, <3>3
  <2>3. SuccessIsTrue' /\ BoundToPage'
    BY <1>3, <1>4, <2>1 DEF CallsInv, ResultInv, SuccessIsTrue, BoundToPage
  <2>. QED
    BY <2>2, <2>3 DEF ResultInv
<1>. QED
  BY <1>7, <1>8, <1>9, <1>10 DEF CallsInv

LEMMA CallsSteps == CallsInv /\ [CallsNext]_callsVars => CallsInv'
<1>. SUFFICES ASSUME CallsInv, [CallsNext]_callsVars PROVE CallsInv'
  OBVIOUS
<1>1. CASE UNCHANGED callsVars
  BY <1>1 DEF callsVars, CallsInv, CallsTypes, TriesInv, KeyInv, ResultInv, SuccessIsTrue,
              BoundToPage
<1>. QED
  BY <1>1, PageSteps, NetworkSteps, Admitting, Finishing DEF CallsNext

LEMMA CallsKeepPromises == CallsInv => CallsSafe /\ CallsTypeOK
<1>. SUFFICES ASSUME CallsInv PROVE CallsSafe /\ CallsTypeOK
  OBVIOUS
<1>1. RunsOnce
  <2>. SUFFICES ASSUME NEW c \in CommandCalls PROVE ran[c].times <= 1
    BY DEF RunsOnce
  <2>1. ran[c].times = 0 \/ ran[c].times = 1
    BY DEF CallsInv, KeyInv
  <2>. QED
    BY <2>1
<1>2. CallsTypeOK
  BY DEF CallsInv, CallsTypes, TriesInv, CallsTypeOK, CallStates, CallStages, Tolds, WireStates,
         Persons, Runs
<1>. QED
  BY <1>1, <1>2 DEF CallsInv, ResultInv, CallsSafe

(* A command takes effect once, a call that is told it succeeded did, and  *)
(* nothing is done for anybody but the user of the page, whatever the      *)
(* network does and however often a call is tried.                         *)
THEOREM CallsAreSafe == CallsSpec => []CallsSafe
BY CallsStart, CallsSteps, CallsKeepPromises, PTL DEF CallsSpec

(* The types of the calls; a try that has not come has sent nothing.       *)
THEOREM CallsTypesKept == CallsSpec => []CallsTypeOK
BY CallsStart, CallsSteps, CallsKeepPromises, PTL DEF CallsSpec

-----------------------------------------------------------------------------

ConnStates == [state : {"new", "attached", "gone"}, user : Users \cup {Nobody}, silent : Nat,
               socket : {"connecting", "open", "full", "broken", "closed"}]
ReqStates == [stage : {"new", "inFlight", "answered", "dropped"}, age : 0 .. RequestTimeout,
              conn : Connections \cup {Nobody}, by : Requests \cup {Nobody},
              answer : {"none", "outcome", "timeout", "refused", "lost"}]

(* A connection is silent for at most the deadline and the beats that were *)
(* missed since: the next beat comes before another one is.                *)
BeatInv ==
    \A c \in Connections :
        /\ conn[c].state = "new" => conn[c].silent = 0
        /\ c \in Attached => conn[c].silent + beatIn <= Liveness + Heartbeat

(* What is in flight is so on a connection that is there, its work runs,   *)
(* nobody has answered it, and nothing else there has its id.              *)
FlightInv ==
    /\ \A r \in Requests : req[r].stage = "inFlight" =>
          req[r].conn \in Attached /\ run[r] = "running" /\ req[r].by = Nobody
    /\ \A q, r \in Requests :
          /\ req[q].stage = "inFlight" /\ req[r].stage = "inFlight"
          /\ req[q].conn = req[r].conn /\ IdOf[q] = IdOf[r]
          => q = r

(* Where the work for a request can be when nothing is in flight.          *)
WorkInv ==
    \A r \in Requests :
        /\ run[r] # "none" => req[r].stage # "new"
        /\ run[r] = "running" => req[r].stage = "inFlight" \/ req[r].by \notin {r, Nobody}
        /\ run[r] # "none" /\ req[r].stage = "answered"
              => req[r].answer \in {"timeout", "lost", "outcome"}
        /\ req[r].stage = "dropped"
              => req[r].conn \in Connections /\ conn[req[r].conn].state = "gone"

(* A request that has not come is answered by nobody.                      *)
NewInv == \A r \in Requests : req[r].stage = "new" => req[r].by = Nobody

(* Who answered another request was answered before it, for good.          *)
ByInv ==
    \A r \in Requests : req[r].by \notin {r, Nobody} =>
        LET q == req[r].by
        IN  /\ req[q].stage = "answered" /\ IdOf[q] = IdOf[r] /\ req[q].conn = req[r].conn
            /\ req[q].answer \in {"timeout", "lost", "outcome"}

RegistryInv == RegistryTypeOK /\ BeatInv /\ FlightInv /\ WorkInv /\ NewInv /\ ByInv

LEMMA RegistryStart == RegistryInit => RegistryInv
<1>. SUFFICES ASSUME RegistryInit PROVE RegistryInv
  OBVIOUS
<1>1. /\ NoConnection \in ConnStates /\ NoConnection.state = "new" /\ NoConnection.silent = 0
      /\ NoRequest \in ReqStates /\ NoRequest.stage = "new" /\ NoRequest.by = Nobody
  BY RegistryAssumption DEF NoConnection, NoRequest, ConnStates, ReqStates
<1>2. /\ \A c \in Connections : conn[c] = NoConnection
      /\ \A r \in Requests : req[r] = NoRequest /\ run[r] = "none"
      /\ conn \in [Connections -> ConnStates] /\ req \in [Requests -> ReqStates]
      /\ run \in [Requests -> {"none"}] /\ beatIn = NoBeat
  BY <1>1 DEF RegistryInit
<1>3. Attached = {}
  BY <1>1, <1>2 DEF Attached
<1>4. RegistryTypeOK
  BY <1>2, <1>3 DEF RegistryTypeOK, ConnStates, ReqStates
<1>5. BeatInv
  BY <1>1, <1>2, <1>3 DEF BeatInv
<1>6. FlightInv /\ WorkInv /\ NewInv /\ ByInv
  BY <1>1, <1>2 DEF FlightInv, WorkInv, NewInv, ByInv
<1>. QED
  BY <1>4, <1>5, <1>6 DEF RegistryInv

(* RegistryTypeOK by the names of its record sets.                         *)
LEMMA RegistryTypes ==
    ASSUME RegistryTypeOK
    PROVE  /\ conn \in [Connections -> ConnStates] /\ req \in [Requests -> ReqStates]
           /\ run \in [Requests -> {"none", "running", "aborted", "over"}]
           /\ beatIn \in 0 .. Heartbeat \cup {NoBeat} /\ (beatIn = NoBeat <=> Attached = {})
           /\ Attached \subseteq Connections
BY DEF RegistryTypeOK, ConnStates, ReqStates, Attached

(* What a step may do to the connections: their users and sockets change,  *)
(* a new one is attached, and who is attached goes; the clocks of those    *)
(* that stay are kept, set back, or all go on by a tick.                   *)
ConnectionsMove ==
    /\ conn' \in [Connections -> ConnStates] /\ beatIn' \in 0 .. Heartbeat \cup {NoBeat}
    /\ beatIn' = NoBeat <=> Attached' = {}
    /\ \A c \in Connections :
          /\ conn[c].state = "gone" => conn'[c].state = "gone"
          /\ conn'[c].state = "new" => conn'[c].silent = 0
          /\ c \in Attached' => conn'[c].silent + beatIn' <= Liveness + Heartbeat

(* A step that changes only connections that no request is in flight on.   *)
LEMMA RequestsKept ==
    ASSUME RegistryInv, ConnectionsMove, UNCHANGED <<req, run>>,
           \A r \in Requests : req[r].stage = "inFlight" => req[r].conn \in Attached'
    PROVE  RegistryInv'
<1>. USE DEF RegistryInv
<1>1. RegistryTypeOK'
  BY RegistryTypes DEF ConnectionsMove, RegistryTypeOK, ConnStates, ReqStates
<1>2. BeatInv'
  BY DEF ConnectionsMove, BeatInv
<1>3. FlightInv'
  BY DEF FlightInv
<1>4. WorkInv'
  BY DEF ConnectionsMove, WorkInv
<1>5. NewInv' /\ ByInv'
  BY DEF NewInv, ByInv
<1>. QED
  BY <1>1, <1>2, <1>3, <1>4, <1>5

(* Who is attached after the connections of a set are gone.                *)
LEMMA ReapMoves ==
    ASSUME RegistryInv, NEW gone \in SUBSET Attached, NEW beat \in 0 .. Heartbeat \cup {NoBeat},
           Reaped(gone, beat),
           \/ beat = beatIn
           \/ beat = Heartbeat /\ \A c \in Attached \ gone : conn[c].silent < Liveness
    PROVE  ConnectionsMove /\ Attached' = Attached \ gone
<1>1. /\ conn \in [Connections -> ConnStates] /\ Attached \subseteq Connections
      /\ (beatIn = NoBeat <=> Attached = {}) /\ beatIn \in 0 .. Heartbeat \cup {NoBeat}
  BY RegistryTypes DEF RegistryInv
<1>2. \A c \in Connections :
        /\ conn'[c] \in ConnStates /\ conn'[c].silent = conn[c].silent
        /\ conn'[c].state = IF c \in gone THEN "gone" ELSE conn[c].state
  <2>. SUFFICES ASSUME NEW c \in Connections
                PROVE  /\ conn'[c] \in ConnStates /\ conn'[c].silent = conn[c].silent
                       /\ conn'[c].state = IF c \in gone THEN "gone" ELSE conn[c].state
    OBVIOUS
  <2>1. conn[c] \in ConnStates
    BY <1>1
  <2>2. conn'[c] = IF c \in gone THEN [conn[c] EXCEPT !.state = "gone", !.socket = "closed"]
                   ELSE conn[c]
    BY DEF Reaped
  <2>. QED
    BY <2>1, <2>2 DEF ConnStates
<1>3. conn' \in [Connections -> ConnStates]
  BY <1>2 DEF Reaped
<1>4. Attached' = Attached \ gone
  BY <1>2 DEF Attached
<1>5. beatIn' = IF Attached' = {} THEN NoBeat ELSE beat
  BY <1>4 DEF Reaped
<1>6. Attached' # {} => beat \in 0 .. Heartbeat /\ beat # NoBeat
  BY <1>1, <1>4, RegistryAssumption DEF NoBeat
<1>7. ASSUME NEW c \in Attached' PROVE conn'[c].silent + beatIn' <= Liveness + Heartbeat
  <2>1. /\ c \in Attached \ gone /\ c \in Connections /\ beatIn' = beat
        /\ conn'[c].silent = conn[c].silent /\ conn[c].silent \in Nat
    BY <1>1, <1>2, <1>4, <1>5, <1>7 DEF ConnStates
  <2>2. CASE beat = beatIn
    BY <2>1, <2>2 DEF RegistryInv, BeatInv
  <2>3. CASE beat = Heartbeat /\ conn[c].silent < Liveness
    BY <2>1, <2>3, RegistryAssumption
  <2>. QED
    BY <2>1, <2>2, <2>3
<1>8. \A c \in Connections : conn'[c].state = "new" => conn'[c].silent = 0
  BY <1>2 DEF RegistryInv, BeatInv
<1>9. /\ beatIn' \in 0 .. Heartbeat \cup {NoBeat} /\ (beatIn' = NoBeat <=> Attached' = {})
  BY <1>5, <1>6
<1>. QED
  BY <1>2, <1>3, <1>4, <1>7, <1>8, <1>9 DEF ConnectionsMove

(* The requests of connections that go: those in flight are dropped, and   *)
(* one that just came is refused; the others are kept.                     *)
Refused(r) ==
    /\ req[r].stage = "new" /\ run'[r] = run[r]
    /\ req'[r] \in ReqStates /\ req'[r].stage = "answered" /\ req'[r].by = Nobody

Dropped(gone, r) ==
    /\ req[r].stage = "inFlight" /\ req[r].conn \in gone
    /\ req'[r] = [req[r] EXCEPT !.stage = "dropped"]
    /\ run'[r] = IF run[r] = "running" THEN "aborted" ELSE run[r]

Kept(gone, r) ==
    /\ ~(req[r].stage = "inFlight" /\ req[r].conn \in gone)
    /\ req'[r] = req[r] /\ run'[r] = run[r]

RequestsGo(gone) ==
    /\ req' = [r \in Requests |-> req'[r]] /\ run' = [r \in Requests |-> run'[r]]
    /\ \A r \in Requests : Refused(r) \/ Dropped(gone, r) \/ Kept(gone, r)

LEMMA DropsGo ==
    ASSUME NEW gone, Drops(gone)
    PROVE  RequestsGo(gone)
<1>1. \A r \in Requests : r \in Orphans(gone) <=> req[r].stage = "inFlight" /\ req[r].conn \in gone
  BY DEF Orphans, InFlight
<1>2. \A r \in Requests : Dropped(gone, r) \/ Kept(gone, r)
  BY <1>1 DEF Drops, Dropped, Kept
<1>. QED
  BY <1>2 DEF RequestsGo, Drops

LEMMA ReapSteps ==
    ASSUME RegistryInv, NEW gone \in SUBSET Attached, RequestsGo(gone), ConnectionsMove,
           Attached' = Attached \ gone, \A c \in gone : conn'[c].state = "gone"
    PROVE  RegistryInv'
<1>1. /\ req \in [Requests -> ReqStates] /\ Attached \subseteq Connections
      /\ run \in [Requests -> {"none", "running", "aborted", "over"}]
  BY RegistryTypes DEF RegistryInv
<1>2. \A r \in Requests : Refused(r) => run[r] = "none" /\ req[r].by = Nobody
  BY DEF Refused, RegistryInv, WorkInv, NewInv
<1>3. \A r \in Requests : Refused(r) \/ Dropped(gone, r) \/ Kept(gone, r)
  BY DEF RequestsGo
<1>4. \A r \in Requests :
        /\ req'[r] \in ReqStates /\ req'[r].by = req[r].by
        /\ run'[r] \in {"none", "running", "aborted", "over"}
        /\ ~Refused(r) =>
              /\ req'[r].conn = req[r].conn /\ req'[r].answer = req[r].answer
              /\ req'[r].stage = IF req[r].stage = "inFlight" /\ req[r].conn \in gone
                                 THEN "dropped" ELSE req[r].stage
  <2> SUFFICES ASSUME NEW r \in Requests
               PROVE  /\ req'[r] \in ReqStates /\ req'[r].by = req[r].by
                      /\ run'[r] \in {"none", "running", "aborted", "over"}
                      /\ ~Refused(r) =>
                            /\ req'[r].conn = req[r].conn /\ req'[r].answer = req[r].answer
                            /\ req'[r].stage = IF req[r].stage = "inFlight" /\ req[r].conn \in gone
                                               THEN "dropped" ELSE req[r].stage
    OBVIOUS
  <2>1. req[r] \in ReqStates /\ run[r] \in {"none", "running", "aborted", "over"}
    BY <1>1
  <2>2. CASE Refused(r)
    BY <1>2, <2>1, <2>2 DEF Refused
  <2>3. CASE Dropped(gone, r)
    BY <2>1, <2>3 DEF ReqStates, Dropped
  <2>4. CASE Kept(gone, r)
    BY <2>1, <2>4 DEF Kept
  <2> QED
    BY <1>3, <2>2, <2>3, <2>4
<1>6. req' \in [Requests -> ReqStates] /\ run' \in [Requests -> {"none", "running", "aborted", "over"}]
  BY <1>4 DEF RequestsGo
<1>7. RegistryTypeOK'
  BY <1>6 DEF ConnectionsMove, RegistryTypeOK, ConnStates, ReqStates
<1>8. BeatInv'
  BY DEF ConnectionsMove, BeatInv
<1>9. FlightInv'
  <2>1. \A r \in Requests : req'[r].stage = "inFlight" =>
          /\ req[r].stage = "inFlight" /\ req[r].conn \notin gone
          /\ req'[r] = req[r] /\ run'[r] = run[r]
    BY <1>3, <1>4 DEF Refused, Dropped, Kept
  <2>2. \A r \in Requests : req'[r].stage = "inFlight" =>
          req'[r].conn \in Attached' /\ run'[r] = "running" /\ req'[r].by = Nobody
    BY <2>1 DEF RegistryInv, FlightInv
  <2>3. \A q, r \in Requests :
          /\ req'[q].stage = "inFlight" /\ req'[r].stage = "inFlight"
          /\ req'[q].conn = req'[r].conn /\ IdOf[q] = IdOf[r]
          => q = r
    BY <2>1 DEF RegistryInv, FlightInv
  <2>. QED
    BY <2>2, <2>3 DEF FlightInv
<1>10. WorkInv'
  <2>. SUFFICES ASSUME NEW r \in Requests
                PROVE  /\ run'[r] # "none" => req'[r].stage # "new"
                       /\ run'[r] = "running" => req'[r].stage = "inFlight" \/ req'[r].by \notin {r, Nobody}
                       /\ run'[r] # "none" /\ req'[r].stage = "answered"
                             => req'[r].answer \in {"timeout", "lost", "outcome"}
                       /\ req'[r].stage = "dropped"
                             => req'[r].conn \in Connections /\ conn'[req'[r].conn].state = "gone"
    BY DEF WorkInv
  <2>1. CASE Refused(r)
    BY <1>2, <2>1 DEF Refused
  <2>2. CASE Dropped(gone, r)
    BY <1>1, <1>4, <2>2 DEF Dropped, Refused
  <2>3. CASE Kept(gone, r)
    <3>1. req'[r] = req[r] /\ run'[r] = run[r]
      BY <2>3 DEF Kept
    <3>2. req[r].stage = "dropped" =>
            req[r].conn \in Connections /\ conn'[req[r].conn].state = "gone"
      BY DEF RegistryInv, WorkInv, ConnectionsMove
    <3>. QED
      BY <3>1, <3>2 DEF RegistryInv, WorkInv
  <2>. QED
    BY <1>3, <2>1, <2>2, <2>3
<1>11. ByInv'
  <2>. SUFFICES ASSUME NEW r \in Requests, req'[r].by \notin {r, Nobody}, NEW q, q = req'[r].by
                PROVE  /\ req'[q].stage = "answered" /\ IdOf[q] = IdOf[r] /\ req'[q].conn = req'[r].conn
                       /\ req'[q].answer \in {"timeout", "lost", "outcome"}
    BY DEF ByInv
  <2>1. q = req[r].by /\ q \in Requests /\ ~Refused(r)
    BY <1>1, <1>4 DEF ReqStates, Refused
  <2>2. /\ req[q].stage = "answered" /\ IdOf[q] = IdOf[r] /\ req[q].conn = req[r].conn
        /\ req[q].answer \in {"timeout", "lost", "outcome"}
    BY <1>4, <2>1 DEF RegistryInv, ByInv
  <2>3. ~Refused(q)
    BY <2>2 DEF Refused
  <2>. QED
    BY <1>4, <2>1, <2>2, <2>3
<1>12. NewInv'
  BY <1>4 DEF Refused, RegistryInv, NewInv
<1>. QED
  BY <1>7, <1>8, <1>9, <1>10, <1>11, <1>12 DEF RegistryInv

(* A step of a socket, or of an attach: one connection changes.            *)
LEMMA OneConnection ==
    ASSUME RegistryInv, NEW c \in Connections, NEW next \in ConnStates,
           conn' = [conn EXCEPT ![c] = next], beatIn' \in 0 .. Heartbeat \cup {NoBeat},
           conn[c].state \in {"new", "attached"}, next.silent \in {0, conn[c].silent},
           \/ next.state = conn[c].state /\ beatIn' = beatIn
           \/ conn[c].state = "new" /\ next.state = "gone" /\ beatIn' = beatIn
           \/ /\ conn[c].state = "new" /\ next.state = "attached"
              /\ beatIn' = IF beatIn = NoBeat THEN Heartbeat ELSE beatIn
    PROVE  ConnectionsMove /\ Attached \subseteq Attached'
<1>1. /\ conn \in [Connections -> ConnStates] /\ Attached \subseteq Connections
      /\ (beatIn = NoBeat <=> Attached = {}) /\ beatIn \in 0 .. Heartbeat \cup {NoBeat}
  BY RegistryTypes DEF RegistryInv
<1>2. /\ conn' \in [Connections -> ConnStates] /\ conn'[c] = next
      /\ \A d \in Connections : d # c => conn'[d] = conn[d]
  BY <1>1
<1>3. Attached' = IF next.state = "attached" THEN Attached \cup {c} ELSE Attached
  <2>1. \A d \in Connections : d \in Attached' <=>
          IF d = c THEN next.state = "attached" ELSE d \in Attached
    BY <1>2 DEF Attached
  <2>2. next.state # "attached" => c \notin Attached
    BY DEF Attached
  <2>3. Attached' \subseteq Connections
    BY DEF Attached
  <2>. QED
    BY <1>1, <2>1, <2>2, <2>3
<1>4. Heartbeat \in Nat \ {0} /\ Liveness \in Nat /\ NoBeat = -1
  BY RegistryAssumption DEF NoBeat
<1>5. beatIn' = NoBeat <=> Attached' = {}
  <2>1. next.state = "attached" => c \in Attached'
    BY <1>3
  <2>2. next.state # "attached" => Attached' = Attached /\ beatIn' = beatIn
    BY <1>3
  <2>3. next.state = "attached" /\ conn[c].state = "attached" => c \in Attached /\ beatIn' = beatIn
    BY DEF Attached
  <2>4. next.state = "attached" /\ conn[c].state = "new" => beatIn' # NoBeat
    BY <1>4
  <2>. QED
    BY <1>1, <2>1, <2>2, <2>3, <2>4
<1>6. ASSUME NEW d \in Attached' PROVE conn'[d].silent + beatIn' <= Liveness + Heartbeat
  <2>1. d \in Connections /\ conn[d].silent \in Nat
    BY <1>1, <1>6 DEF Attached, ConnStates
  <2>2. conn'[d].silent \in {0, conn[d].silent}
    BY <1>2, <2>1
  <2>3. CASE d \in Attached
    <3>1. beatIn' = beatIn /\ beatIn \in 0 .. Heartbeat
      BY <1>1, <2>3
    <3>2. conn[d].silent + beatIn <= Liveness + Heartbeat
      BY <2>1, <2>3 DEF RegistryInv, BeatInv
    <3>. QED
      BY <1>4, <2>1, <2>2, <3>1, <3>2
  <2>4. CASE d \notin Attached
    <3>1. d = c /\ conn[c].state = "new" /\ next.silent = 0
      BY <1>3, <1>6, <2>1, <2>4 DEF RegistryInv, BeatInv, Attached
    <3>. QED
      BY <1>2, <1>4, <3>1
  <2>. QED
    BY <2>3, <2>4
<1>7. \A d \in Connections : conn'[d].state = "new" => conn'[d].silent = 0
  BY <1>2 DEF RegistryInv, BeatInv
<1>8. \A d \in Connections : conn[d].state = "gone" => conn'[d].state = "gone"
  BY <1>2
<1>. QED
  BY <1>2, <1>3, <1>5, <1>6, <1>7, <1>8 DEF ConnectionsMove

LEMMA ConnectionSteps ==
    ASSUME RegistryInv, NEW c \in Connections,
           \/ \E u \in Users : Attach(c, u) \/ AttachRefused(c, u)
           \/ Opens(c) \/ Receive(c)
           \/ \E how \in {"open", "full", "broken"} : SocketTurns(c, how)
    PROVE  RegistryInv'
<1>1. /\ conn \in [Connections -> ConnStates] /\ conn[c] \in ConnStates
      /\ beatIn \in 0 .. Heartbeat \cup {NoBeat} /\ Heartbeat \in 0 .. Heartbeat
  BY RegistryTypes, RegistryAssumption DEF RegistryInv
<1>2. UNCHANGED <<req, run>>
  BY DEF Attach, AttachRefused, Opens, Receive, SocketTurns
<1>3. ConnectionsMove /\ Attached \subseteq Attached'
  <2>1. ASSUME NEW u \in Users, Attach(c, u) PROVE ConnectionsMove /\ Attached \subseteq Attached'
    <3>. DEFINE next == [conn[c] EXCEPT !.state = "attached", !.user = u]
    <3>1. next \in ConnStates /\ next.state = "attached" /\ next.silent = conn[c].silent
      BY <1>1 DEF ConnStates
    <3>2. conn' = [conn EXCEPT ![c] = next]
      BY <1>1, <2>1 DEF Attach
    <3>3. conn[c].state = "new" /\ beatIn' = IF beatIn = NoBeat THEN Heartbeat ELSE beatIn
      BY <2>1 DEF Attach
    <3>4. beatIn' \in 0 .. Heartbeat \cup {NoBeat}
      BY <1>1, <3>3
    <3>. HIDE DEF next
    <3>. QED
      BY <3>1, <3>2, <3>3, <3>4, OneConnection
  <2>2. ASSUME NEW u \in Users, AttachRefused(c, u)
        PROVE  ConnectionsMove /\ Attached \subseteq Attached'
    <3>. DEFINE next == [conn[c] EXCEPT !.state = "gone", !.socket = "closed"]
    <3>1. next \in ConnStates /\ next.state = "gone" /\ next.silent = conn[c].silent
      BY <1>1 DEF ConnStates
    <3>2. conn' = [conn EXCEPT ![c] = next]
      BY <1>1, <2>2 DEF AttachRefused
    <3>3. conn[c].state = "new" /\ beatIn' = beatIn
      BY <2>2 DEF AttachRefused
    <3>. HIDE DEF next
    <3>. QED
      BY <1>1, <3>1, <3>2, <3>3, OneConnection
  <2>3. CASE Opens(c)
    <3>. DEFINE next == [conn[c] EXCEPT !.socket = "open", !.silent = 0]
    <3>1. next \in ConnStates /\ next.state = conn[c].state /\ next.silent = 0
      BY <1>1 DEF ConnStates
    <3>2. conn' = [conn EXCEPT ![c] = next]
      BY <1>1, <2>3 DEF Opens
    <3>3. conn[c].state = "attached" /\ beatIn' = beatIn
      BY <2>3 DEF Opens, Attached
    <3>. HIDE DEF next
    <3>. QED
      BY <1>1, <3>1, <3>2, <3>3, OneConnection
  <2>4. CASE Receive(c)
    <3>. DEFINE next == [conn[c] EXCEPT !.silent = 0]
    <3>1. next \in ConnStates /\ next.state = conn[c].state /\ next.silent = 0
      BY <1>1 DEF ConnStates
    <3>2. conn' = [conn EXCEPT ![c] = next]
      BY <1>1, <2>4 DEF Receive, Seen
    <3>3. conn[c].state = "attached" /\ beatIn' = beatIn
      BY <2>4 DEF Receive, Attached
    <3>. HIDE DEF next
    <3>. QED
      BY <1>1, <3>1, <3>2, <3>3, OneConnection
  <2>5. ASSUME NEW how \in {"open", "full", "broken"}, SocketTurns(c, how)
        PROVE  ConnectionsMove /\ Attached \subseteq Attached'
    <3>. DEFINE next == [conn[c] EXCEPT !.socket = how]
    <3>1. next \in ConnStates /\ next.state = conn[c].state /\ next.silent = conn[c].silent
      BY <1>1 DEF ConnStates
    <3>2. conn' = [conn EXCEPT ![c] = next]
      BY <1>1, <2>5 DEF SocketTurns
    <3>3. conn[c].state = "attached" /\ beatIn' = beatIn
      BY <2>5 DEF SocketTurns, Attached
    <3>. HIDE DEF next
    <3>. QED
      BY <1>1, <3>1, <3>2, <3>3, OneConnection
  <2>. QED
    BY <2>1, <2>2, <2>3, <2>4, <2>5
<1>4. \A r \in Requests : req[r].stage = "inFlight" => req[r].conn \in Attached'
  BY <1>3 DEF RegistryInv, FlightInv
<1>. QED
  BY <1>2, <1>3, <1>4, RequestsKept

(* Connections that go, each with its requests.                            *)
LEMMA ReapingSteps ==
    ASSUME RegistryInv,
           \/ \E c \in Connections : Drop(c)
           \/ \E u \in Users : SendToUser(u)
           \/ Shutdown \/ Beat
    PROVE  RegistryInv'
<1>1. /\ beatIn \in 0 .. Heartbeat \cup {NoBeat} /\ Attached \subseteq Connections
      /\ Heartbeat \in 0 .. Heartbeat /\ Liveness \in Nat /\ conn \in [Connections -> ConnStates]
  BY RegistryTypes, RegistryAssumption DEF RegistryInv
<1>2. PICK gone \in SUBSET Attached, beat \in 0 .. Heartbeat \cup {NoBeat} :
         /\ Reaped(gone, beat) /\ Drops(gone)
         /\ \/ beat = beatIn
            \/ beat = Heartbeat /\ \A c \in Attached \ gone : conn[c].silent < Liveness
  <2>1. ASSUME NEW gone \in SUBSET Attached, Reaps(gone)
        PROVE  \E set \in SUBSET Attached, beat \in 0 .. Heartbeat \cup {NoBeat} :
                  /\ Reaped(set, beat) /\ Drops(set)
                  /\ \/ beat = beatIn
                     \/ beat = Heartbeat /\ \A c \in Attached \ set : conn[c].silent < Liveness
    BY <1>1, <2>1 DEF Reaps
  <2>2. CASE \E c \in Connections : Drop(c)
    BY <2>1, <2>2 DEF Drop
  <2>3. CASE \E u \in Users : SendToUser(u)
    BY <2>1, <2>3 DEF SendToUser
  <2>4. CASE Shutdown
    BY <2>1, <2>4 DEF Shutdown
  <2>5. CASE Beat
    <3>. DEFINE gone == {c \in Attached : Silent(c) \/ Throws(c)}
    <3>1. Reaped(gone, Heartbeat) /\ Drops(gone) /\ gone \in SUBSET Attached
      BY <2>5 DEF Beat
    <3>2. \A c \in Attached \ gone : conn[c].silent < Liveness
      BY <1>1 DEF Silent, ConnStates
    <3>. HIDE DEF gone
    <3>. QED
      BY <1>1, <3>1, <3>2
  <2>. QED
    BY <2>2, <2>3, <2>4, <2>5
<1>3. ConnectionsMove /\ Attached' = Attached \ gone
  BY <1>2, ReapMoves
<1>4. \A c \in gone : conn'[c].state = "gone"
  BY <1>1, <1>2 DEF Reaped, ConnStates
<1>. QED
  BY <1>2, <1>3, <1>4, DropsGo, ReapSteps

(* A request that comes in when the refusal cannot be sent.                *)
LEMMA RefusalStep ==
    ASSUME RegistryInv, NEW r \in Requests, NEW c \in Connections, RefusalThrows(r, c)
    PROVE  RegistryInv'
<1>1. /\ beatIn \in 0 .. Heartbeat \cup {NoBeat} /\ {c} \in SUBSET Attached
      /\ conn \in [Connections -> ConnStates] /\ req[r] \in ReqStates
      /\ req[r].stage = "new" /\ run[r] = "none" /\ Reaped({c}, beatIn)
  BY RegistryTypes DEF RegistryInv, WorkInv, RefusalThrows, Throws
<1>2. ConnectionsMove /\ Attached' = Attached \ {c}
  BY <1>1, ReapMoves
<1>3. conn'[c].state = "gone"
  BY <1>1 DEF Reaped, ConnStates
<1>4. \A q \in Requests : q \in Orphans({c}) <=> req[q].stage = "inFlight" /\ req[q].conn \in {c}
  BY DEF Orphans, InFlight
<1>5. Refused(r)
  <2>. DEFINE said == [Says(r, Nobody, "lost") EXCEPT !.conn = c]
  <2>1. req'[r] = said /\ run'[r] = run[r]
    BY <1>1 DEF RefusalThrows
  <2>2. said \in ReqStates /\ said.stage = "answered" /\ said.by = Nobody
    BY <1>1 DEF ReqStates, Says
  <2>. HIDE DEF said
  <2>. QED
    BY <1>1, <2>1, <2>2 DEF Refused
<1>6. \A q \in Requests : q # r => Dropped({c}, q) \/ Kept({c}, q)
  BY <1>4 DEF RefusalThrows, Dropped, Kept
<1>7. RequestsGo({c})
  BY <1>5, <1>6 DEF RequestsGo, RefusalThrows
<1>. QED
  BY <1>1, <1>2, <1>3, <1>7, ReapSteps

LEMMA TickStep == ASSUME RegistryInv, Tick PROVE RegistryInv'
<1>1. /\ conn \in [Connections -> ConnStates] /\ req \in [Requests -> ReqStates]
      /\ Attached \subseteq Connections /\ beatIn \in 0 .. Heartbeat /\ Attached # {}
      /\ Heartbeat \in Nat /\ Liveness \in Nat /\ RequestTimeout \in Nat
      /\ run \in [Requests -> {"none", "running", "aborted", "over"}]
  BY RegistryTypes, RegistryAssumption DEF RegistryInv, Tick
<1>2. beatIn' = beatIn - 1 /\ beatIn' \in 0 .. Heartbeat /\ run' = run
  <2>1. beatIn' = beatIn - 1 /\ beatIn # 0 /\ run' = run
    BY DEF Tick
  <2>. QED
    BY <1>1, <2>1
<1>3. ASSUME NEW c \in Connections
      PROVE  /\ conn'[c] \in ConnStates /\ conn'[c].state = conn[c].state
             /\ conn'[c].silent = IF c \in Attached THEN conn[c].silent + 1 ELSE conn[c].silent
  <2>. DEFINE n == conn[c].silent + 1
              next == [conn[c] EXCEPT !.silent = n]
  <2>1. conn[c] \in ConnStates /\ n \in Nat
    BY <1>1 DEF ConnStates
  <2>2. conn'[c] = IF c \in Attached THEN next ELSE conn[c]
    BY DEF Tick
  <2>. HIDE DEF n
  <2>3. next \in ConnStates /\ next.state = conn[c].state /\ next.silent = n
    BY <2>1 DEF ConnStates
  <2>. HIDE DEF next
  <2>. QED
    BY <2>1, <2>2, <2>3 DEF n
<1>4. ASSUME NEW r \in Requests
      PROVE  /\ req'[r] \in ReqStates /\ req'[r].stage = req[r].stage
             /\ req'[r].conn = req[r].conn /\ req'[r].by = req[r].by
             /\ req'[r].answer = req[r].answer
  <2>. DEFINE n == req[r].age + 1
              next == [req[r] EXCEPT !.age = n]
  <2>1. req[r] \in ReqStates /\ (req[r].stage = "inFlight" => n \in 0 .. RequestTimeout)
    BY <1>1 DEF Tick, ReqStates
  <2>2. req'[r] = IF req[r].stage = "inFlight" THEN next ELSE req[r]
    BY DEF Tick
  <2>. HIDE DEF n
  <2>3. CASE req[r].stage = "inFlight"
    BY <2>1, <2>2, <2>3 DEF ReqStates
  <2>4. CASE req[r].stage # "inFlight"
    BY <2>1, <2>2, <2>4
  <2>. QED
    BY <2>3, <2>4
<1>5. Attached' = Attached
  BY <1>3 DEF Attached
<1>6. conn' \in [Connections -> ConnStates] /\ req' \in [Requests -> ReqStates]
  BY <1>3, <1>4 DEF Tick
<1>7. beatIn' # NoBeat
  BY <1>2 DEF NoBeat
<1>8. RegistryTypeOK'
  BY <1>1, <1>2, <1>5, <1>6, <1>7 DEF RegistryTypeOK, ConnStates, ReqStates
<1>9. BeatInv'
  <2>1. \A c \in Connections : conn'[c].state = "new" => conn'[c].silent = 0
    BY <1>3 DEF RegistryInv, BeatInv, Attached
  <2>2. ASSUME NEW c \in Attached PROVE conn'[c].silent + beatIn' <= Liveness + Heartbeat
    <3>1. conn[c].silent \in Nat /\ conn'[c].silent = conn[c].silent + 1 /\ c \in Connections
      BY <1>1, <1>3 DEF ConnStates
    <3>2. conn[c].silent + beatIn <= Liveness + Heartbeat
      BY <3>1 DEF RegistryInv, BeatInv
    <3>. QED
      BY <1>1, <1>2, <3>1, <3>2
  <2>. QED
    BY <1>5, <2>1, <2>2 DEF BeatInv
<1>10. FlightInv'
  BY <1>2, <1>4, <1>5 DEF RegistryInv, FlightInv
<1>11. WorkInv'
  BY <1>2, <1>3, <1>4 DEF RegistryInv, WorkInv
<1>12. ByInv'
  <2>1. \A r \in Requests : req[r].by \in Requests \cup {Nobody}
    BY <1>1 DEF ReqStates
  <2>. QED
    BY <1>4, <2>1 DEF RegistryInv, ByInv
<1>13. NewInv'
  BY <1>4 DEF RegistryInv, NewInv
<1>. QED
  BY <1>8, <1>9, <1>10, <1>11, <1>12, <1>13 DEF RegistryInv

(* A request that comes in is in flight, or is answered on the spot.       *)
LEMMA ReceiveStep ==
    ASSUME RegistryInv, NEW r \in Requests, NEW c \in Connections, ReceiveRequest(r, c)
    PROVE  RegistryInv'
<1>1. /\ conn \in [Connections -> ConnStates] /\ req \in [Requests -> ReqStates]
      /\ run \in [Requests -> {"none", "running", "aborted", "over"}]
      /\ beatIn \in 0 .. Heartbeat \cup {NoBeat}
  BY RegistryTypes DEF RegistryInv
<1>2. /\ req[r].stage = "new" /\ c \in Attached /\ conn[c].state = "attached"
      /\ beatIn' = beatIn /\ run[r] = "none"
  BY <1>1 DEF ReceiveRequest, Attached, RegistryInv, WorkInv
<1>3. ConnectionsMove /\ Attached \subseteq Attached'
  <2>. DEFINE next == [conn[c] EXCEPT !.silent = 0]
  <2>1. next \in ConnStates /\ next.state = conn[c].state /\ next.silent = 0
    BY <1>1 DEF ConnStates
  <2>2. conn' = [conn EXCEPT ![c] = next]
    BY <1>1 DEF ReceiveRequest, Seen
  <2>. HIDE DEF next
  <2>. QED
    BY <1>1, <1>2, <2>1, <2>2, OneConnection
<1>4. PICK entry \in ReqStates, work \in {"none", "running"} :
         /\ req' = [req EXCEPT ![r] = entry] /\ run' = [run EXCEPT ![r] = work]
         /\ entry.conn = c /\ entry.by = Nobody
         /\ \/ entry.stage = "inFlight" /\ work = "running" /\ Holder(c, IdOf[r]) = {}
            \/ entry.stage = "answered" /\ work = "none"
  <2>1. CASE Admits(r, c)
    <3>. DEFINE entry == [req[r] EXCEPT !.stage = "inFlight", !.conn = c]
    <3>1. /\ req' = [req EXCEPT ![r] = entry] /\ run' = [run EXCEPT ![r] = "running"]
      BY <1>1, <2>1 DEF ReceiveRequest
    <3>2. req[r] \in ReqStates /\ req[r].by = Nobody
      BY <1>1, <1>2 DEF RegistryInv, NewInv
    <3>3. /\ entry \in ReqStates /\ entry.conn = c /\ entry.by = Nobody
          /\ entry.stage = "inFlight"
      BY <3>2 DEF ReqStates
    <3>. HIDE DEF entry
    <3>. QED
      BY <2>1, <3>1, <3>3 DEF Admits
  <2>2. CASE ~Admits(r, c)
    <3>. DEFINE what == IF Reaches(c) THEN "refused" ELSE "lost"
                entry == [Says(r, Nobody, what) EXCEPT !.conn = c]
    <3>1. req' = [req EXCEPT ![r] = entry] /\ run' = run
      BY <1>1, <2>2 DEF ReceiveRequest
    <3>2. run' = [run EXCEPT ![r] = "none"]
      BY <1>1, <1>2, <3>1
    <3>3. what \in {"refused", "lost"}
      OBVIOUS
    <3>. HIDE DEF what
    <3>4. /\ entry \in ReqStates /\ entry.conn = c /\ entry.by = Nobody
          /\ entry.stage = "answered"
      BY <1>1, <3>3 DEF ReqStates, Says
    <3>. HIDE DEF entry
    <3>. QED
      BY <3>1, <3>2, <3>4
  <2>. QED
    BY <2>1, <2>2
<1>5. /\ req' \in [Requests -> ReqStates] /\ req'[r] = entry /\ run'[r] = work
      /\ run' \in [Requests -> {"none", "running", "aborted", "over"}]
      /\ \A q \in Requests : q # r => req'[q] = req[q] /\ run'[q] = run[q]
  BY <1>1, <1>4
<1>6. RegistryTypeOK'
  BY <1>3, <1>5 DEF ConnectionsMove, RegistryTypeOK, ConnStates, ReqStates
<1>7. BeatInv'
  BY <1>3 DEF ConnectionsMove, BeatInv
<1>8. FlightInv'
  <2>1. \A q \in Requests : req'[q].stage = "inFlight" =>
          req'[q].conn \in Attached' /\ run'[q] = "running" /\ req'[q].by = Nobody
    BY <1>2, <1>3, <1>4, <1>5 DEF RegistryInv, FlightInv
  <2>2. entry.stage = "inFlight" =>
          \A q \in Requests : req[q].stage = "inFlight" /\ req[q].conn = c => IdOf[q] # IdOf[r]
    BY <1>4 DEF Holder, InFlight
  <2>3. ASSUME NEW p \in Requests, NEW q \in Requests,
               req'[p].stage = "inFlight", req'[q].stage = "inFlight",
               req'[p].conn = req'[q].conn, IdOf[p] = IdOf[q]
        PROVE  p = q
    <3>1. CASE p # r /\ q # r
      BY <1>5, <2>3, <3>1 DEF RegistryInv, FlightInv
    <3>2. CASE p = r \/ q = r
      BY <1>4, <1>5, <2>2, <2>3, <3>2
    <3>. QED
      BY <3>1, <3>2
  <2>. QED
    BY <2>1, <2>3 DEF FlightInv
<1>9. WorkInv'
  <2>. SUFFICES ASSUME NEW q \in Requests
                PROVE  /\ run'[q] # "none" => req'[q].stage # "new"
                       /\ run'[q] = "running" => req'[q].stage = "inFlight" \/ req'[q].by \notin {q, Nobody}
                       /\ run'[q] # "none" /\ req'[q].stage = "answered"
                             => req'[q].answer \in {"timeout", "lost", "outcome"}
                       /\ req'[q].stage = "dropped"
                             => req'[q].conn \in Connections /\ conn'[req'[q].conn].state = "gone"
    BY DEF WorkInv
  <2>1. CASE q = r
    BY <1>4, <1>5, <2>1
  <2>2. CASE q # r
    <3>1. req'[q] = req[q] /\ run'[q] = run[q]
      BY <1>5, <2>2
    <3>2. req[q].stage = "dropped" =>
            req[q].conn \in Connections /\ conn'[req[q].conn].state = "gone"
      BY <1>3 DEF RegistryInv, WorkInv, ConnectionsMove
    <3>. QED
      BY <3>1, <3>2 DEF RegistryInv, WorkInv
  <2>. QED
    BY <2>1, <2>2
<1>10. ByInv'
  <2>. SUFFICES ASSUME NEW p \in Requests, req'[p].by \notin {p, Nobody}, NEW q, q = req'[p].by
                PROVE  /\ req'[q].stage = "answered" /\ IdOf[q] = IdOf[p] /\ req'[q].conn = req'[p].conn
                       /\ req'[q].answer \in {"timeout", "lost", "outcome"}
    BY DEF ByInv
  <2>1. p # r /\ req'[p] = req[p]
    BY <1>4, <1>5
  <2>2. q \in Requests
    BY <1>1, <2>1 DEF ReqStates
  <2>3. /\ req[q].stage = "answered" /\ IdOf[q] = IdOf[p] /\ req[q].conn = req[p].conn
        /\ req[q].answer \in {"timeout", "lost", "outcome"}
    BY <2>1 DEF RegistryInv, ByInv
  <2>4. req'[q] = req[q]
    BY <1>2, <1>5, <2>2, <2>3
  <2>. QED
    BY <2>1, <2>3, <2>4
<1>11. NewInv'
  BY <1>4, <1>5 DEF RegistryInv, NewInv
<1>. QED
  BY <1>6, <1>7, <1>8, <1>9, <1>10, <1>11 DEF RegistryInv

(* The end of a dispatcher, or of its time: whoever holds the id on the    *)
(* connection is answered, which is the request itself when it is still in *)
(* flight.                                                                 *)
LEMMA AnswerStep ==
    ASSUME RegistryInv, NEW r \in Requests, DispatcherEnds(r) \/ RequestTimesOut(r)
    PROVE  RegistryInv'
<1>. DEFINE c == req[r].conn
            told == Holder(c, IdOf[r])
            gone == IF told # {} /\ Throws(c) THEN {c} ELSE {}
            orphan(q) == req[q].stage = "inFlight" /\ req[q].conn \in gone
<1>1. /\ conn \in [Connections -> ConnStates] /\ req \in [Requests -> ReqStates]
      /\ run \in [Requests -> {"none", "running", "aborted", "over"}]
      /\ beatIn \in 0 .. Heartbeat \cup {NoBeat} /\ Attached \subseteq Connections
  BY RegistryTypes DEF RegistryInv
<1>2. PICK by \in {r, Nobody}, what \in {"outcome", "timeout"}, work \in {"over", "aborted"} :
         /\ Answer(r, by, what, work)
         /\ by = Nobody => req[r].stage = "inFlight"
  <2>1. CASE DispatcherEnds(r)
    <3>1. Answer(r, r, "outcome", "over") /\ r # Nobody
      BY <2>1, RegistryAssumption DEF DispatcherEnds
    <3>. QED
      BY <3>1
  <2>2. CASE RequestTimesOut(r)
    <3>1. Answer(r, Nobody, "timeout", "aborted") /\ req[r].stage = "inFlight"
      BY <2>2 DEF RequestTimesOut
    <3>. QED
      BY <3>1
  <2>. QED
    BY <2>1, <2>2
<1>3. run[r] # "none" /\ req[r].stage # "new"
  BY DEF DispatcherEnds, RequestTimesOut, RegistryInv, WorkInv, FlightInv
<1>4. /\ told \subseteq Requests /\ gone \subseteq Attached
      /\ \A q \in Requests : q \in told <=>
            req[q].stage = "inFlight" /\ req[q].conn = c /\ IdOf[q] = IdOf[r]
  BY DEF Holder, InFlight, Throws
<1>5. /\ \A p, q \in told : p = q
      /\ req[r].stage = "inFlight" <=> r \in told
      /\ \A q \in told : c \in Attached /\ req[q].stage = "inFlight" /\ req[q].conn = c
                         /\ IdOf[q] = IdOf[r]
  BY <1>4 DEF RegistryInv, FlightInv
<1>6. \A q \in Requests : q \in Orphans(gone) <=> orphan(q)
  BY DEF Orphans, InFlight
<1>7. /\ Reaped(gone, beatIn)
      /\ req' = [q \in Requests |->
            IF q \in told THEN Says(q, by, IF Reaches(c) THEN what ELSE "lost")
            ELSE IF q \in Orphans(gone) THEN [req[q] EXCEPT !.stage = "dropped"] ELSE req[q]]
      /\ run' = [q \in Requests |->
            IF q = r THEN work
            ELSE IF q \in Orphans(gone) /\ run[q] = "running" THEN "aborted" ELSE run[q]]
  BY <1>2 DEF Answer
<1>8. ConnectionsMove /\ Attached' = Attached \ gone
  BY <1>1, <1>4, <1>7, ReapMoves
<1>9. \A d \in gone : d \in Connections /\ conn'[d].state = "gone"
  BY <1>1, <1>4, <1>7 DEF Reaped, ConnStates
<1>. HIDE DEF gone, told
<1>10. \A q \in Requests :
         /\ q \in told => req'[q] \in {Says(q, by, what), Says(q, by, "lost")}
         /\ q \notin told /\ orphan(q) => req'[q] = [req[q] EXCEPT !.stage = "dropped"]
         /\ q \notin told /\ ~orphan(q) => req'[q] = req[q]
  BY <1>6, <1>7
<1>11. \A q \in Requests :
         /\ req'[q] \in ReqStates /\ req'[q].conn = req[q].conn
         /\ q \in told => /\ req'[q].stage = "answered" /\ req'[q].by = by
                          /\ req'[q].answer \in {"timeout", "lost", "outcome"}
         /\ q \notin told => /\ req'[q].by = req[q].by /\ req'[q].answer = req[q].answer
                             /\ req'[q].stage = IF orphan(q) THEN "dropped" ELSE req[q].stage
  <2>. SUFFICES ASSUME NEW q \in Requests
                PROVE  /\ req'[q] \in ReqStates /\ req'[q].conn = req[q].conn
                       /\ q \in told => /\ req'[q].stage = "answered" /\ req'[q].by = by
                                        /\ req'[q].answer \in {"timeout", "lost", "outcome"}
                       /\ q \notin told => /\ req'[q].by = req[q].by /\ req'[q].answer = req[q].answer
                                           /\ req'[q].stage = IF orphan(q) THEN "dropped" ELSE req[q].stage
    OBVIOUS
  <2>. HIDE DEF orphan
  <2>1. req[q] \in ReqStates /\ by \in Requests \cup {Nobody}
    BY <1>1
  <2>2. CASE q \in told
    <3>1. \A said \in {"timeout", "lost", "outcome"} :
            /\ Says(q, by, said) \in ReqStates /\ Says(q, by, said).conn = req[q].conn
            /\ Says(q, by, said).stage = "answered" /\ Says(q, by, said).by = by
            /\ Says(q, by, said).answer = said
      BY <2>1 DEF ReqStates, Says
    <3>2. \E said \in {"timeout", "lost", "outcome"} : req'[q] = Says(q, by, said)
      BY <1>10, <2>2
    <3>. QED
      BY <2>2, <3>1, <3>2
  <2>3. CASE q \notin told
    BY <1>10, <2>1, <2>3 DEF ReqStates
  <2>. QED
    BY <2>2, <2>3
<1>12. \A q \in Requests :
         run'[q] = IF q = r THEN work
                   ELSE IF orphan(q) /\ run[q] = "running" THEN "aborted" ELSE run[q]
  BY <1>6, <1>7
<1>13. /\ req' \in [Requests -> ReqStates]
       /\ run' \in [Requests -> {"none", "running", "aborted", "over"}]
  <2>1. \A q \in Requests : run'[q] \in {"none", "running", "aborted", "over"}
    BY <1>1, <1>12
  <2>. QED
    BY <1>7, <1>11, <2>1
<1>14. RegistryTypeOK'
  BY <1>8, <1>13 DEF ConnectionsMove, RegistryTypeOK, ConnStates, ReqStates
<1>15. BeatInv'
  BY <1>8 DEF ConnectionsMove, BeatInv
<1>16. FlightInv'
  <2>1. \A q \in Requests : req'[q].stage = "inFlight" =>
          /\ req[q].stage = "inFlight" /\ q \notin told /\ q # r /\ req[q].conn \notin gone
          /\ req'[q] = req[q] /\ run'[q] = run[q]
    BY <1>5, <1>10, <1>11, <1>12
  <2>2. \A q \in Requests : req'[q].stage = "inFlight" =>
          req'[q].conn \in Attached' /\ run'[q] = "running" /\ req'[q].by = Nobody
    BY <1>8, <2>1 DEF RegistryInv, FlightInv
  <2>3. \A q, p \in Requests :
          /\ req'[q].stage = "inFlight" /\ req'[p].stage = "inFlight"
          /\ req'[q].conn = req'[p].conn /\ IdOf[q] = IdOf[p]
          => q = p
    BY <2>1 DEF RegistryInv, FlightInv
  <2>. QED
    BY <2>2, <2>3 DEF FlightInv
<1>17. WorkInv'
  <2>. SUFFICES ASSUME NEW q \in Requests
                PROVE  /\ run'[q] # "none" => req'[q].stage # "new"
                       /\ run'[q] = "running" => req'[q].stage = "inFlight" \/ req'[q].by \notin {q, Nobody}
                       /\ run'[q] # "none" /\ req'[q].stage = "answered"
                             => req'[q].answer \in {"timeout", "lost", "outcome"}
                       /\ req'[q].stage = "dropped"
                             => req'[q].conn \in Connections /\ conn'[req'[q].conn].state = "gone"
    BY DEF WorkInv
  <2>1. CASE q \in told
    <3>1. run'[q] = "running" => q # r /\ by # q /\ by # Nobody
      BY <1>2, <1>5, <1>12, <2>1, RegistryAssumption
    <3>. QED
      BY <1>11, <2>1, <3>1
  <2>2. CASE q \notin told /\ orphan(q)
    <3>1. run'[q] # "running"
      BY <1>12, <2>2
    <3>. QED
      BY <1>9, <1>11, <2>2, <3>1
  <2>3. CASE q \notin told /\ ~orphan(q)
    <3>1. req'[q] = req[q]
      BY <1>10, <2>3
    <3>2. q = r \/ run'[q] = run[q]
      BY <1>12, <2>3
    <3>3. req[q].stage = "dropped" =>
            req[q].conn \in Connections /\ conn'[req[q].conn].state = "gone"
      BY <1>8 DEF RegistryInv, WorkInv, ConnectionsMove
    <3>4. CASE q = r
      BY <1>3, <1>12, <3>1, <3>3, <3>4 DEF RegistryInv, WorkInv
    <3>5. CASE run'[q] = run[q]
      BY <3>1, <3>3, <3>5 DEF RegistryInv, WorkInv
    <3>. QED
      BY <3>2, <3>4, <3>5
  <2>. QED
    BY <2>1, <2>2, <2>3
<1>18. NewInv'
  BY <1>11 DEF RegistryInv, NewInv
<1>19. ByInv'
  <2>. SUFFICES ASSUME NEW p \in Requests, req'[p].by \notin {p, Nobody}, NEW q, q = req'[p].by
                PROVE  /\ req'[q].stage = "answered" /\ IdOf[q] = IdOf[p] /\ req'[q].conn = req'[p].conn
                       /\ req'[q].answer \in {"timeout", "lost", "outcome"}
    BY DEF ByInv
  <2>1. CASE p \in told
    <3>1. q = r /\ p # r /\ r \notin told /\ req[r].stage # "inFlight"
      BY <1>2, <1>5, <1>11, <2>1
    <3>2. conn[c].state = "attached" /\ req[p].conn = c /\ IdOf[p] = IdOf[r]
      BY <1>5, <2>1 DEF Attached
    <3>3. req[r].stage # "dropped"
      BY <3>2 DEF RegistryInv, WorkInv
    <3>4. req[r].stage = "answered" /\ req[r].answer \in {"timeout", "lost", "outcome"}
      BY <1>1, <1>3, <3>1, <3>3 DEF RegistryInv, WorkInv, ReqStates
    <3>. QED
      BY <1>10, <1>11, <3>1, <3>2, <3>4
  <2>2. CASE p \notin told
    <3>1. q = req[p].by /\ q \in Requests
      BY <1>1, <1>11, <2>2 DEF ReqStates
    <3>2. /\ req[q].stage = "answered" /\ IdOf[q] = IdOf[p] /\ req[q].conn = req[p].conn
          /\ req[q].answer \in {"timeout", "lost", "outcome"}
      BY <1>11, <2>2, <3>1 DEF RegistryInv, ByInv
    <3>3. q \notin told /\ ~orphan(q)
      BY <1>5, <3>2
    <3>. QED
      BY <1>10, <1>11, <3>1, <3>2, <3>3
  <2>. QED
    BY <2>1, <2>2
<1>. QED
  BY <1>14, <1>15, <1>16, <1>17, <1>18, <1>19 DEF RegistryInv

LEMMA RegistrySteps == RegistryInv /\ [RegistryNext]_registryVars => RegistryInv'
<1>. SUFFICES ASSUME RegistryInv, [RegistryNext]_registryVars PROVE RegistryInv'
  OBVIOUS
<1>1. CASE UNCHANGED registryVars
  BY <1>1 DEF registryVars, RegistryInv, RegistryTypeOK, BeatInv, FlightInv, WorkInv, NewInv,
              ByInv, Attached
<1>2. CASE RegistryNext
  BY <1>2, ConnectionSteps, ReapingSteps, TickStep, ReceiveStep, RefusalStep, AnswerStep
     DEF RegistryNext
<1>. QED
  BY <1>1, <1>2

LEMMA RegistryKeepsPromises == RegistryInv => RegistrySafe
<1>. SUFFICES ASSUME RegistryInv PROVE RegistrySafe
  OBVIOUS
<1>1. SilentAreReaped
  <2>. SUFFICES ASSUME NEW c \in Attached PROVE conn[c].silent <= Liveness + Heartbeat
    BY DEF SilentAreReaped
  <2>1. /\ c \in Connections /\ conn[c].silent \in Nat /\ beatIn \in 0 .. Heartbeat
        /\ Heartbeat \in Nat /\ Liveness \in Nat
    BY RegistryTypes, RegistryAssumption DEF RegistryInv, ConnStates
  <2>2. conn[c].silent + beatIn <= Liveness + Heartbeat
    BY <2>1 DEF RegistryInv, BeatInv
  <2>. QED
    BY <2>1, <2>2
<1>2. NoWorkForTheGone
  BY DEF RegistryInv, FlightInv, WorkInv, NoWorkForTheGone
<1>3. AnswersFit
  BY DEF RegistryInv, ByInv, AnswersFit
<1>. QED
  BY <1>1, <1>2, <1>3 DEF RegistrySafe

(* No connection stays silent past the deadline and a beat, no work goes   *)
(* on for who is gone or answered, and an answer is of the request's own   *)
(* dispatcher or of an earlier one of the same id, whatever is reaped in   *)
(* the midst of what.                                                      *)
THEOREM RegistryIsSafe == RegistrySpec => []RegistrySafe
BY RegistryStart, RegistrySteps, RegistryKeepsPromises, PTL DEF RegistrySpec

(* The types of the registry; the beat is on while a connection is there.  *)
THEOREM RegistryTypesKept == RegistrySpec => []RegistryTypeOK
<1>1. RegistryInv => RegistryTypeOK
  BY DEF RegistryInv
<1> QED
  BY <1>1, RegistryStart, RegistrySteps, PTL DEF RegistrySpec

(* What was said about a request, or dropped with its connection, is not   *)
(* said again, however late its dispatcher ends.                           *)
THEOREM SaidOnce == RegistrySpec => AnsweredOnce
<1>1. ASSUME RegistryInv, [RegistryNext]_registryVars PROVE [AnsweredOnceStep]_registryVars
  <2>. SUFFICES ASSUME RegistryNext, NEW r \in Requests, req[r].stage \in {"answered", "dropped"}
                PROVE  req'[r] = req[r]
    BY <1>1 DEF AnsweredOnceStep
  <2>1. ASSUME NEW gone \in SUBSET Attached, Drops(gone) PROVE req'[r] = req[r]
    BY <2>1 DEF Drops, Orphans, InFlight
  <2>2. CASE \/ \E c \in Connections : Drop(c)
             \/ \E u \in Users : SendToUser(u)
             \/ Shutdown \/ Beat
    BY <2>1, <2>2 DEF Drop, SendToUser, Shutdown, Beat, Reaps
  <2>3. ASSUME NEW q \in Requests, DispatcherEnds(q) \/ RequestTimesOut(q) PROVE req'[r] = req[r]
    <3>1. PICK by, what, stage : Answer(q, by, what, stage)
      BY <2>3 DEF DispatcherEnds, RequestTimesOut
    <3>2. \A gone : r \notin Orphans(gone)
      BY DEF Orphans, InFlight
    <3>3. r \notin Holder(req[q].conn, IdOf[q])
      BY DEF Holder, InFlight
    <3>. QED
      BY <3>1, <3>2, <3>3 DEF Answer
  <2>4. ASSUME NEW q \in Requests, NEW c \in Connections,
               ReceiveRequest(q, c) \/ RefusalThrows(q, c)
        PROVE  req'[r] = req[r]
    BY <1>1, <2>4, RegistryTypes DEF ReceiveRequest, RefusalThrows, Orphans, InFlight, RegistryInv
  <2>5. CASE Tick
    BY <2>5 DEF Tick
  <2>6. CASE \/ \E c \in Connections, u \in Users : Attach(c, u) \/ AttachRefused(c, u)
             \/ \E c \in Connections : Opens(c) \/ Receive(c)
             \/ \E c \in Connections, how \in {"open", "full", "broken"} : SocketTurns(c, how)
    BY <2>6 DEF Attach, AttachRefused, Opens, Receive, SocketTurns
  <2>. QED
    BY <2>2, <2>3, <2>4, <2>5, <2>6 DEF RegistryNext
<1>. QED
  BY <1>1, RegistryStart, RegistrySteps, PTL DEF RegistrySpec, AnsweredOnce

-----------------------------------------------------------------------------
(* The lockout.  A counter in the store is what a store that never drops   *)
(* one has; a counter that was dropped says nothing there.                 *)

(* A power of two counts the subsets of a set.                             *)
LEMMA PowersOfTwo ==
    ASSUME NEW n \in Nat
    PROVE  2 ^ n \in Nat \ {0}
<1>1. IsFiniteSet(1 .. n) /\ Cardinality(1 .. n) = n
  BY FS_Interval
<1>2. IsFiniteSet(SUBSET (1 .. n)) /\ Cardinality(SUBSET (1 .. n)) = 2 ^ n
  BY <1>1, FS_SUBSET
<1>3. Cardinality(SUBSET (1 .. n)) \in Nat /\ Cardinality(SUBSET (1 .. n)) # 0
  <2>1. {} \in SUBSET (1 .. n)
    OBVIOUS
  <2>2. QED  BY <1>2, <2>1, FS_CardinalityType, FS_EmptySet
<1>4. QED  BY <1>2, <1>3

CounterTypes ==
    /\ now \in Nat /\ now <= MaxTime
    /\ row \in [Subjects -> States] /\ unswept \in [Subjects -> States]
    /\ runs \in [Subjects -> Nat] /\ refunds \in [Subjects -> Nat] /\ expiries \in [Subjects -> Nat]
    /\ held \subseteq Subjects /\ IsFiniteSet(held) /\ Cardinality(held) <= MaxEntries
    /\ check \in [Checks -> {NoCheck} \cup [subject : Subjects, age : Nat]]
    /\ outlived \subseteq Subjects

(* A check that ran is in the count or was refunded; while no lock was set *)
(* since the last refund, the free ones were not used up.                  *)
Budget(s) ==
    /\ runs[s] <= row[s].failures + refunds[s]
    /\ row[s].lockedUntil = None => runs[s] <= FreeFailures + refunds[s] + expiries[s]
    /\ runs[s] <= FreeFailures + 1 + refunds[s] + expiries[s]

(* A counter that says what none would.                                    *)
Neutral(state) ==
    ~Locked(state) /\ (Quiet(state) \/ (state.failures = 0 /\ state.lastFailureAt = None))

Agrees(s) ==
    s \in outlived \/ IF s \in held THEN row[s] = unswept[s] ELSE Neutral(unswept[s])

CountersInv ==
    /\ CounterTypes
    /\ \A s \in held : Budget(s)
    /\ \A s \in Subjects : Agrees(s)

LEMMA LockNumbers ==
    ASSUME LockoutAssumption
    PROVE  /\ FreeFailures \in Nat /\ MaxEntries \in Nat \ {0} /\ QuietReset \in Nat \ {0}
           /\ FirstLock \in Nat \ {0} /\ MaxLock \in Nat \ {0} /\ Slowest \in Nat /\ MaxTime \in Nat
BY DEF LockoutAssumption

LEMMA Delays ==
    ASSUME LockoutAssumption, NEW f \in Nat
    PROVE  LockDelay(f) \in Nat /\ (LockDelay(f) = 0 <=> f <= FreeFailures)
<1>1. \A a, b \in Nat \ {0} : a * b \in Nat \ {0}
  OBVIOUS
<1>2. CASE f > FreeFailures
  <2>1. f - FreeFailures - 1 \in Nat
    BY <1>2, LockNumbers
  <2>2. FirstLock * 2 ^ (f - FreeFailures - 1) \in Nat \ {0}
    BY <1>1, <2>1, LockNumbers, PowersOfTwo
  <2>3. Smaller(FirstLock * 2 ^ (f - FreeFailures - 1), MaxLock) \in Nat \ {0}
    BY <2>2, LockNumbers DEF Smaller
  <2>4. QED  BY <1>2, <2>3, LockNumbers DEF LockDelay
<1>3. CASE ~(f > FreeFailures)
  BY <1>3, LockNumbers DEF LockDelay
<1>4. QED  BY <1>2, <1>3

(* What a check does to a counter.                                         *)
LEMMA BegunIs ==
    ASSUME LockoutAssumption, NEW u \in States, now \in Nat
    PROVE  /\ Begun(u) \in States
           /\ Begun(u).failures = Counted(u) /\ Counted(u) \in Nat
           /\ Begun(u).lockedUntil = None <=> Counted(u) <= FreeFailures
<1>1. Counted(u) \in Nat
  BY DEF Counted, States
<1>2. LockDelay(Counted(u)) \in Nat /\ (LockDelay(Counted(u)) = 0 <=> Counted(u) <= FreeFailures)
  BY <1>1, Delays
<1> DEFINE c == Counted(u)
           until == IF LockDelay(Counted(u)) = 0 THEN None ELSE now + LockDelay(Counted(u))
           last == IF Quiet(u) \/ u.lastFailureAt = None THEN now ELSE u.lastFailureAt
<1>3. Begun(u) = [u EXCEPT !.failures = c, !.lockedUntil = until, !.lastFailureAt = last,
                           !.touchedAt = now]
  BY DEF Begun, States
<1>4. until \in Nat \cup {None} /\ (until = None <=> c <= FreeFailures)
  BY <1>2, LockNumbers DEF None
<1>5. c \in Nat /\ c = Counted(u)
  BY <1>1
<1>6. last \in Nat \cup {None}
  BY DEF States
<1> HIDE DEF c, until, last
<1>7. QED  BY <1>3, <1>4, <1>5, <1>6 DEF States

LEMMA FailedIs ==
    ASSUME NEW u \in States, now \in Nat
    PROVE  /\ Failed(u) \in States /\ Failed(u).failures = u.failures
           /\ Failed(u).lockedUntil = u.lockedUntil
BY DEF Failed, States

LEMMA RefundedIs ==
    ASSUME NEW u \in States, now \in Nat
    PROVE  /\ Refunded(u) \in States /\ Refunded(u).failures + 1 >= u.failures
           /\ Refunded(u).lockedUntil = None
<1>1. Larger(u.failures - 1, 0) \in Nat /\ Larger(u.failures - 1, 0) + 1 >= u.failures
  BY DEF Larger, States
<1> DEFINE n == Larger(u.failures - 1, 0)
<1>2. Refunded(u) = [u EXCEPT !.failures = n, !.lockedUntil = None, !.touchedAt = now]
  BY DEF Refunded, States
<1> HIDE DEF n
<1>3. QED  BY <1>1, <1>2 DEF States, None, n

LEMMA FreshIs ==
    ASSUME now \in Nat
    PROVE  /\ Fresh \in States /\ [Fresh EXCEPT !.touchedAt = now] \in States
           /\ Neutral(Fresh)
           /\ [Fresh EXCEPT !.touchedAt = now].failures = 0
           /\ [Fresh EXCEPT !.touchedAt = now].lockedUntil = None
           /\ Neutral([Fresh EXCEPT !.touchedAt = now])
           /\ ~Quiet(Fresh) /\ ~Quiet([Fresh EXCEPT !.touchedAt = now])
BY DEF Fresh, States, Neutral, Locked, Quiet, None

LEMMA NeutralIs ==
    ASSUME NEW u \in States, Neutral(u)
    PROVE  ~Locked(u) /\ Counted(u) = 1
BY DEF Neutral, Counted, States

(* Two counters that say nothing begin alike.                              *)
LEMMA BeginAlike ==
    ASSUME NEW u \in States, NEW v \in States, Neutral(u), Neutral(v)
    PROVE  Begun(u) = Begun(v)
<1>1. Counted(u) = 1 /\ Counted(v) = 1
  BY NeutralIs
<1>2. \A x \in States : Neutral(x) => Quiet(x) \/ x.lastFailureAt = None
  BY DEF Neutral
<1> DEFINE until == IF LockDelay(1) = 0 THEN None ELSE now + LockDelay(1)
<1>3. ASSUME NEW x \in States, Neutral(x), Counted(x) = 1
      PROVE  Begun(x) = [failures |-> 1, lockedUntil |-> until, lastFailureAt |-> now,
                         touchedAt |-> now]
  <2>1. Begun(x) = [x EXCEPT !.failures = 1, !.lockedUntil = until, !.lastFailureAt = now,
                             !.touchedAt = now]
    BY <1>2, <1>3 DEF Begun, States
  <2> HIDE DEF until
  <2>2. QED  BY <2>1 DEF States
<1> HIDE DEF until
<1>4. QED  BY <1>1, <1>3

(* A counter that a sweep may drop says nothing.                           *)
LEMMA DroppedIsNeutral ==
    ASSUME LockoutAssumption, CounterTypes, NEW s \in Droppable
    PROVE  s \in held /\ Neutral(row[s])
<1>1. s \in held /\ row[s] \in States /\ DroppableAt(row[s]) <= now
  BY DEF CounterTypes, Droppable
<1>2. now < Infinity
  BY LockNumbers DEF CounterTypes, Infinity
<1>3. ~(row[s].lastFailureAt = None /\ row[s].failures # 0)
  BY <1>1, <1>2 , LockNumbers DEF DroppableAt, CounterTypes, Infinity
<1>4. /\ row[s].lockedUntil <= now
      /\ row[s].lastFailureAt # None => row[s].lastFailureAt + QuietReset <= now
  BY <1>1, <1>3, LockNumbers DEF DroppableAt, CounterTypes, Larger, States, None
<1>5. QED
  BY <1>1, <1>3, <1>4, LockNumbers DEF Neutral, Locked, Quiet, CounterTypes, States, None

(* An update of the store leaves the other counters, and lets go of some   *)
(* that say nothing.                                                       *)
CountersMove(kept) ==
    /\ held' \subseteq Subjects /\ IsFiniteSet(held)' /\ Cardinality(held') <= MaxEntries
    /\ row' \in [Subjects -> States]
    /\ kept \subseteq held /\ held \ kept \subseteq Droppable
    /\ \A t \in held \ held' : t \in Droppable

LEMMA Keeps ==
    ASSUME LockoutAssumption, CounterTypes, NEW swept \in BOOLEAN
    PROVE  /\ Left(swept) \subseteq held /\ held \ Left(swept) \subseteq Droppable
           /\ IsFiniteSet(Left(swept)) /\ Cardinality(Left(swept)) <= MaxEntries
<1>1. Left(swept) \subseteq held /\ held \ Left(swept) \subseteq Droppable
  BY DEF Left, Droppable
<1>2. IsFiniteSet(Left(swept)) /\ Cardinality(Left(swept)) <= Cardinality(held)
  BY <1>1, FS_Subset DEF CounterTypes
<1>3. Cardinality(held) \in Nat /\ Cardinality(Left(swept)) \in Nat
  BY <1>2, FS_CardinalityType DEF CounterTypes
<1>4. QED  BY <1>1, <1>2, <1>3, LockNumbers DEF CounterTypes

LEMMA TracksMoves ==
    ASSUME LockoutAssumption, CounterTypes, NEW swept \in BOOLEAN, NEW s \in Subjects,
           NEW state \in States, Tracks(s, Left(swept)), Writes(s, state)
    PROVE  /\ CountersMove(Left(swept))
           /\ s \in held' /\ row'[s] = state
           /\ \A t \in held' \ {s} : t \in held /\ row'[t] = row[t]
<1> DEFINE kept == Left(swept)
<1>1. /\ kept \subseteq held /\ held \ kept \subseteq Droppable /\ held \subseteq Subjects
      /\ IsFiniteSet(kept) /\ Cardinality(kept) <= MaxEntries /\ Cardinality(kept) \in Nat
  BY Keeps, FS_CardinalityType DEF CounterTypes
<1> HIDE DEF kept
<1>2. ASSUME ~Crowded(s, kept), held' = kept \cup {s}
      PROVE  /\ held' \subseteq Subjects /\ IsFiniteSet(held') /\ Cardinality(held') <= MaxEntries
             /\ s \in held' /\ \A t \in held \ held' : t \in Droppable
             /\ \A t \in held' \ {s} : t \in held
  <2>1. IsFiniteSet(held')
    BY <1>1, <1>2, FS_AddElement
  <2>2. Cardinality(held') <= MaxEntries
    <3>1. CASE s \in kept
      <4>1. held' = kept  BY <1>2, <3>1
      <4>2. QED  BY <1>1, <4>1
    <3>2. CASE s \notin kept
      <4>1. Cardinality(held') = Cardinality(kept) + 1
        BY <1>1, <1>2, <3>2, FS_AddElement
      <4>2. ~(Cardinality(kept) >= MaxEntries)
        BY <1>2, <3>2 DEF Crowded
      <4>3. QED  BY <1>1, <4>1, <4>2, LockNumbers
    <3>3. QED  BY <3>1, <3>2
  <2>3. \A t \in held \ held' : t \in Droppable
    BY <1>1, <1>2
  <2>4. held' \subseteq Subjects /\ s \in held' /\ \A t \in held' \ {s} : t \in held
    BY <1>1, <1>2
  <2>5. QED  BY <2>1, <2>2, <2>3, <2>4
<1>3. ASSUME Crowded(s, kept), kept \cap Droppable # {}, held' = (kept \ Droppable) \cup {s}
      PROVE  /\ held' \subseteq Subjects /\ IsFiniteSet(held') /\ Cardinality(held') <= MaxEntries
             /\ s \in held' /\ \A t \in held \ held' : t \in Droppable
             /\ \A t \in held' \ {s} : t \in held
  <2> DEFINE rest == kept \ Droppable
  <2>1. PICK t \in kept : t \in Droppable
    BY <1>3
  <2>2. IsFiniteSet(rest) /\ Cardinality(rest) < Cardinality(kept) /\ Cardinality(rest) \in Nat
    <3>1. rest \subseteq kept /\ rest # kept
      BY <2>1
    <3>2. IsFiniteSet(rest) /\ Cardinality(rest) <= Cardinality(kept)
          /\ (Cardinality(rest) = Cardinality(kept) => rest = kept)
      BY <1>1, <3>1, FS_Subset
    <3>3. Cardinality(rest) \in Nat
      BY <3>2, FS_CardinalityType
    <3>4. QED  BY <1>1, <3>1, <3>2, <3>3
  <2>3. held' = rest \cup {s} /\ s \notin rest
    BY <1>3 DEF Crowded
  <2>4. IsFiniteSet(held') /\ Cardinality(held') = Cardinality(rest) + 1
    BY <2>2, <2>3, FS_AddElement
  <2>5. Cardinality(held') <= MaxEntries
    BY <1>1, <2>2, <2>4, LockNumbers
  <2>6. /\ \A u \in held \ held' : u \in Droppable
        /\ held' \subseteq Subjects /\ s \in held' /\ \A u \in held' \ {s} : u \in held
    BY <1>1, <2>3
  <2>7. QED  BY <2>4, <2>5, <2>6
<1>4. /\ held' \subseteq Subjects /\ IsFiniteSet(held') /\ Cardinality(held') <= MaxEntries
      /\ s \in held' /\ \A t \in held \ held' : t \in Droppable
      /\ \A t \in held' \ {s} : t \in held
  BY <1>2, <1>3 DEF Tracks, kept
<1>5. row' \in [Subjects -> States] /\ row'[s] = state
  <2>1. Fresh \in States
    BY FreshIs DEF CounterTypes
  <2>2. QED  BY <2>1 DEF Writes, CounterTypes
<1>6. \A t \in held' \ {s} : row'[t] = row[t]
  BY <1>4 DEF Writes
<1>7. QED  BY <1>1, <1>4, <1>5, <1>6 DEF CountersMove, kept

LEMMA RefusesMoves ==
    ASSUME LockoutAssumption, CounterTypes, NEW swept \in BOOLEAN, NEW s \in Subjects,
           Refuses(s, Left(swept))
    PROVE  /\ CountersMove(Left(swept))
           /\ \A t \in held' : t \in held /\ row'[t] = row[t]
<1>1. held' = Left(swept)
  BY DEF Refuses
<1>2. Fresh \in States
  BY FreshIs DEF CounterTypes
<1>3. row' \in [Subjects -> States]
  BY <1>2 DEF Refuses, CounterTypes
<1>4. IsFiniteSet(held') /\ Cardinality(held') <= MaxEntries
  BY <1>1, Keeps
<1>5. held' \subseteq held /\ held \ held' \subseteq Droppable
  BY <1>1, Keeps
<1>6. \A t \in held' : row'[t] = row[t]
  BY <1>1, <1>5 DEF Refuses, CounterTypes
<1>7. QED  BY <1>1, <1>3, <1>4, <1>5, <1>6 DEF CountersMove, CounterTypes

(* A subject whose counter an update does not touch agrees as before.      *)
LEMMA OthersAgree ==
    ASSUME LockoutAssumption, CountersInv, NEW kept, CountersMove(kept), NEW t \in Subjects,
           t \in held' => t \in held /\ row'[t] = row[t],
           now' = now, unswept'[t] = unswept[t], outlived \subseteq outlived'
    PROVE  Agrees(t)'
<1>1. CASE t \in outlived
  BY <1>1 DEF Agrees
<1>2. CASE t \notin outlived /\ t \in held'
  BY <1>2 DEF CountersInv, Agrees
<1>3. CASE t \notin outlived /\ t \notin held'
  <2>1. Neutral(unswept[t])
    <3>1. CASE t \in held
      <4>1. t \in Droppable
        BY <1>3, <3>1 DEF CountersMove
      <4>2. Neutral(row[t]) /\ row[t] = unswept[t]
        BY <1>3, <3>1, <4>1, DroppedIsNeutral DEF CountersInv, Agrees
      <4>3. QED  BY <4>2
    <3>2. CASE t \notin held
      BY <1>3, <3>2 DEF CountersInv, Agrees
    <3>3. QED  BY <3>1, <3>2
  <2>2. Neutral(unswept[t])'
    BY <2>1 DEF Neutral, Locked, Quiet
  <2>3. QED  BY <1>3, <2>2 DEF Agrees
<1>4. QED  BY <1>1, <1>2, <1>3

LEMMA OthersBudget ==
    ASSUME NEW t \in held, Budget(t), row'[t] = row[t], runs'[t] = runs[t],
           refunds'[t] = refunds[t], expiries'[t] = expiries[t]
    PROVE  Budget(t)'
BY DEF Budget

LEMMA CountsIs ==
    ASSUME CounterTypes, NEW s \in Subjects, NEW again \in BOOLEAN,
           NEW more \in Nat, NEW refunded \in Nat, NEW expired \in Nat,
           Counts(s, again, more, refunded, expired)
    PROVE  /\ runs' \in [Subjects -> Nat] /\ refunds' \in [Subjects -> Nat]
           /\ expiries' \in [Subjects -> Nat]
           /\ runs'[s] = (IF again THEN 0 ELSE runs[s]) + more
           /\ refunds'[s] = (IF again THEN 0 ELSE refunds[s]) + refunded
           /\ expiries'[s] = (IF again THEN 0 ELSE expiries[s]) + expired
           /\ \A t \in Subjects \ {s} :
                 runs'[t] = runs[t] /\ refunds'[t] = refunds[t] /\ expiries'[t] = expiries[t]
<1>1. /\ runs' = [runs EXCEPT ![s] = (IF again THEN 0 ELSE runs[s]) + more]
      /\ refunds' = [refunds EXCEPT ![s] = (IF again THEN 0 ELSE refunds[s]) + refunded]
      /\ expiries' = [expiries EXCEPT ![s] = (IF again THEN 0 ELSE expiries[s]) + expired]
  BY DEF Counts
<1>2. QED  BY <1>1 DEF CounterTypes

LEMMA ChecksMove ==
    ASSUME CounterTypes, NEW c \in Checks
    PROVE  /\ Ends(c) => check' \in [Checks -> {NoCheck} \cup [subject : Subjects, age : Nat]]
           /\ check[c] # NoCheck => check[c].subject \in Subjects
<1>1. check[c] \in {NoCheck} \cup [subject : Subjects, age : Nat]
  BY DEF CounterTypes
<1>2. check[c] # NoCheck => check[c].subject \in Subjects
  BY <1>1
<1>3. Ends(c) => check' \in [Checks -> {NoCheck} \cup [subject : Subjects, age : Nat]]
  BY DEF Ends, CounterTypes
<1>4. QED  BY <1>2, <1>3

LEMMA CurrentIs ==
    ASSUME CounterTypes, NEW s \in Subjects, NEW kept
    PROVE  /\ Current(s, kept) \in States
           /\ s \in kept => Current(s, kept) = row[s]
           /\ s \notin kept => Current(s, kept) = [Fresh EXCEPT !.touchedAt = now]
BY FreshIs DEF Current, CounterTypes

LEMMA DroppedAgrees ==
    ASSUME LockoutAssumption, CountersInv, NEW swept \in BOOLEAN,
           NEW s \in Subjects \ outlived, s \notin Left(swept)
    PROVE  Neutral(unswept[s])
<1>1. CASE s \in held
  <2>1. s \in Droppable
    BY <1>1, Keeps DEF CountersInv
  <2>2. Neutral(row[s]) /\ row[s] = unswept[s]
    BY <1>1, <2>1, DroppedIsNeutral DEF CountersInv, Agrees
  <2>3. QED  BY <2>2
<1>2. CASE s \notin held
  BY <1>2 DEF CountersInv, Agrees
<1>3. QED  BY <1>1, <1>2

(* A call that updates the counter of one subject, and the history of that *)
(* subject alone.                                                          *)
LEMMA Updates ==
    ASSUME LockoutAssumption, CountersInv, NEW swept \in BOOLEAN, NEW s \in Subjects,
           NEW state \in States, Tracks(s, Left(swept)), Writes(s, state),
           now' = now, outlived \subseteq outlived', outlived' \subseteq Subjects,
           check' \in [Checks -> {NoCheck} \cup [subject : Subjects, age : Nat]],
           unswept' \in [Subjects -> States],
           \A t \in Subjects \ {s} : unswept'[t] = unswept[t],
           runs' \in [Subjects -> Nat], refunds' \in [Subjects -> Nat],
           expiries' \in [Subjects -> Nat],
           \A t \in Subjects \ {s} :
              runs'[t] = runs[t] /\ refunds'[t] = refunds[t] /\ expiries'[t] = expiries[t],
           Budget(s)', Agrees(s)'
    PROVE  CountersInv'
<1>1. /\ CountersMove(Left(swept)) /\ s \in held'
      /\ \A t \in held' \ {s} : t \in held /\ row'[t] = row[t]
  BY TracksMoves DEF CountersInv
<1>2. CounterTypes'
  BY <1>1 DEF CountersInv, CounterTypes, CountersMove
<1>3. ASSUME NEW t \in held'  PROVE Budget(t)'
  <2>1. CASE t = s
    BY <2>1
  <2>2. CASE t # s
    <3>1. t \in held /\ row'[t] = row[t] /\ t \in Subjects
      BY <1>1, <1>3, <2>2 DEF CountersInv, CounterTypes
    <3>2. Budget(t)
      BY <3>1 DEF CountersInv
    <3>3. runs'[t] = runs[t] /\ refunds'[t] = refunds[t] /\ expiries'[t] = expiries[t]
      BY <2>2, <3>1
    <3>4. QED  BY <3>1, <3>2, <3>3, OthersBudget
  <2>3. QED  BY <2>1, <2>2
<1>4. ASSUME NEW t \in Subjects  PROVE Agrees(t)'
  <2>1. CASE t = s
    BY <2>1
  <2>2. CASE t # s
    <3>1. (t \in held' => t \in held /\ row'[t] = row[t]) /\ unswept'[t] = unswept[t]
      BY <1>1, <2>2
    <3>2. QED  BY <1>1, <3>1, OthersAgree
  <2>3. QED  BY <2>1, <2>2
<1>5. (\A t \in held : Budget(t))'
  BY <1>3
<1>6. (\A t \in Subjects : Agrees(t))'
  BY <1>4
<1>7. QED  BY <1>2, <1>5, <1>6 DEF CountersInv

(* A call that the full store refuses.                                     *)
LEMMA Refusals ==
    ASSUME LockoutAssumption, CountersInv, NEW swept \in BOOLEAN, NEW s \in Subjects,
           Refuses(s, Left(swept)), now' = now,
           check' \in [Checks -> {NoCheck} \cup [subject : Subjects, age : Nat]],
           UNCHANGED history
    PROVE  CountersInv'
<1>1. /\ CountersMove(Left(swept))
      /\ \A t \in held' : t \in held /\ row'[t] = row[t]
  BY RefusesMoves DEF CountersInv
<1>2. /\ unswept' = unswept /\ runs' = runs /\ refunds' = refunds /\ expiries' = expiries
      /\ outlived' = outlived
  BY DEF history
<1>3. CounterTypes'
  BY <1>1, <1>2 DEF CountersInv, CounterTypes, CountersMove
<1>4. ASSUME NEW t \in held'  PROVE Budget(t)'
  <2>1. t \in held /\ row'[t] = row[t] /\ Budget(t)
    BY <1>1, <1>4 DEF CountersInv
  <2>2. QED  BY <1>2, <2>1, OthersBudget
<1>5. ASSUME NEW t \in Subjects  PROVE Agrees(t)'
  BY <1>1, <1>2, OthersAgree
<1>6. (\A t \in held : Budget(t))'
  BY <1>4
<1>7. (\A t \in Subjects : Agrees(t))'
  BY <1>5
<1>8. QED  BY <1>3, <1>6, <1>7 DEF CountersInv

LEMMA SweepsAre == MaybeSweeps \subseteq BOOLEAN
BY DEF MaybeSweeps

LEMMA BeginCheckSafe ==
    ASSUME LockoutAssumption, CountersInv, NEW c \in Checks, NEW s \in Subjects,
           BeginCheck(c, s)
    PROVE  CountersInv'
<1>1. PICK swept \in MaybeSweeps :
         /\ ~Locked(Current(s, Left(swept)))
         /\ Tracks(s, Left(swept)) /\ Writes(s, Begun(Current(s, Left(swept))))
         /\ Counts(s, s \notin Left(swept) \/ Quiet(Current(s, Left(swept))), 1, 0,
                   IF Current(s, Left(swept)).lockedUntil = None
                      \/ Quiet(Current(s, Left(swept))) THEN 0 ELSE 1)
  BY DEF BeginCheck
<1> DEFINE kept == Left(swept)
           was == Current(s, kept)
           again == s \notin kept \/ Quiet(was)
           expired == IF was.lockedUntil = None \/ Quiet(was) THEN 0 ELSE 1
<1>2. swept \in BOOLEAN /\ now \in Nat
  BY SweepsAre DEF CountersInv, CounterTypes
<1>3. /\ was \in States /\ (s \in kept => was = row[s])
      /\ s \notin kept => was = [Fresh EXCEPT !.touchedAt = now]
  BY CurrentIs DEF CountersInv
<1>4. /\ Begun(was) \in States /\ Begun(was).failures = Counted(was) /\ Counted(was) \in Nat
      /\ Begun(was).lockedUntil = None <=> Counted(was) <= FreeFailures
  BY <1>2, <1>3, BegunIs
<1>5. /\ runs' \in [Subjects -> Nat] /\ refunds' \in [Subjects -> Nat]
      /\ expiries' \in [Subjects -> Nat]
      /\ runs'[s] = (IF again THEN 0 ELSE runs[s]) + 1
      /\ refunds'[s] = (IF again THEN 0 ELSE refunds[s])
      /\ expiries'[s] = (IF again THEN 0 ELSE expiries[s]) + expired
      /\ \A t \in Subjects \ {s} :
            runs'[t] = runs[t] /\ refunds'[t] = refunds[t] /\ expiries'[t] = expiries[t]
  <2>1. again \in BOOLEAN /\ expired \in Nat
    OBVIOUS
  <2>2. Counts(s, again, 1, 0, expired) /\ CounterTypes
    BY <1>1 DEF CountersInv
  <2> HIDE DEF again, expired
  <2>3. refunds'[s] = (IF again THEN 0 ELSE refunds[s]) + 0
    BY <2>1, <2>2, CountsIs
  <2>4. refunds[s] \in Nat
    BY <2>2 DEF CounterTypes
  <2>5. QED  BY <2>1, <2>2, <2>3, <2>4, CountsIs
<1>6. s \in held' /\ row'[s] = Begun(was)
  BY <1>1, <1>2, <1>4, TracksMoves DEF CountersInv
<1>7. Budget(s)'
  <2> HIDE DEF kept, was
  <2>1. CASE again
    <3>1. Counted(was) = 1 /\ expired = 0
      <4>1. CASE Quiet(was)
        BY <4>1 DEF Counted
      <4>2. CASE s \notin kept
        <5>1. was.failures = 0 /\ was.lockedUntil = None /\ ~Quiet(was)
          BY <1>2, <1>3, <4>2, FreshIs
        <5>2. QED  BY <5>1 DEF Counted
      <4>3. QED  BY <2>1, <4>1, <4>2
    <3>2. runs'[s] = 1 /\ refunds'[s] = 0 /\ expiries'[s] = 0
      BY <1>5, <2>1, <3>1
    <3>3. QED  BY <1>4, <1>6, <3>1, <3>2, LockNumbers DEF Budget
  <2>2. CASE ~again
    <3>1. s \in kept /\ ~Quiet(was) /\ was = row[s] /\ s \in held
      BY <1>2, <1>3, <2>2, Keeps DEF CountersInv, kept
    <3>2. Budget(s)
      BY <3>1 DEF CountersInv
    <3>3. Counted(was) = row[s].failures + 1 /\ row[s].failures \in Nat
      BY <1>3, <3>1 DEF Counted, States
    <3>4. /\ runs'[s] = runs[s] + 1 /\ refunds'[s] = refunds[s]
          /\ expiries'[s] = expiries[s] + (IF row[s].lockedUntil = None THEN 0 ELSE 1)
      BY <1>5, <2>2, <3>1
    <3>5. runs[s] \in Nat /\ refunds[s] \in Nat /\ expiries[s] \in Nat
      BY DEF CountersInv, CounterTypes
    <3>6. runs'[s] <= row'[s].failures + refunds'[s]
      BY <1>4, <1>6, <3>2, <3>3, <3>4, <3>5 DEF Budget
    <3>7. row'[s].lockedUntil = None => runs'[s] <= FreeFailures + refunds'[s] + expiries'[s]
      <4>1. row'[s].lockedUntil = None => row[s].failures + 1 <= FreeFailures
        BY <1>4, <1>6, <3>3
      <4>2. QED  BY <3>2, <3>3, <3>4, <3>5, <4>1, LockNumbers DEF Budget
    <3>8. runs'[s] <= FreeFailures + 1 + refunds'[s] + expiries'[s]
      BY <3>2, <3>4, <3>5, LockNumbers DEF Budget
    <3>9. QED  BY <3>6, <3>7, <3>8 DEF Budget
  <2>3. QED  BY <2>1, <2>2
<1>8. /\ outlived' = outlived /\ now' = now
      /\ unswept' = [unswept EXCEPT ![s] = IF Locked(unswept[s]) THEN unswept[s]
                                            ELSE Begun(unswept[s])]
      /\ unswept[s] \in States
  BY DEF BeginCheck, CountersInv, CounterTypes
<1>9. Agrees(s)'
  <2>1. CASE s \in outlived
    BY <1>8, <2>1 DEF Agrees
  <2>2. CASE s \notin outlived
    <3>1. CASE s \in kept
      <4>1. was = unswept[s] /\ ~Locked(was)
        BY <1>1, <1>2, <1>3, <2>2, <3>1, Keeps DEF CountersInv, Agrees
      <4>2. unswept'[s] = Begun(was)
        BY <1>8, <4>1 DEF CountersInv, CounterTypes
      <4>3. QED  BY <1>6, <4>2 DEF Agrees
    <3>2. CASE s \notin kept
      <4>1. Neutral(unswept[s]) /\ ~Locked(unswept[s])
        BY <1>2, <1>8, <2>2, <3>2, DroppedAgrees, NeutralIs
      <4>2. Neutral(was)
        BY <1>2, <1>3, <3>2, FreshIs
      <4>3. Begun(unswept[s]) = Begun(was)
        BY <1>3, <1>8, <4>1, <4>2, BeginAlike
      <4>4. unswept'[s] = Begun(was)
        BY <1>8, <4>1, <4>3 DEF CountersInv, CounterTypes
      <4>5. QED  BY <1>6, <4>4 DEF Agrees
    <3>3. QED  BY <3>1, <3>2
  <2>3. QED  BY <2>1, <2>2
<1>10. /\ unswept' \in [Subjects -> States]
       /\ \A t \in Subjects \ {s} : unswept'[t] = unswept[t]
  <2>1. Begun(unswept[s]) \in States
    BY <1>2, <1>8, BegunIs
  <2>2. QED  BY <1>8, <2>1 DEF CountersInv, CounterTypes
<1>11. check' \in [Checks -> {NoCheck} \cup [subject : Subjects, age : Nat]]
  BY DEF BeginCheck, CountersInv, CounterTypes
<1>12. outlived \subseteq outlived' /\ outlived' \subseteq Subjects
  BY <1>8 DEF CountersInv, CounterTypes
<1>13. Tracks(s, Left(swept)) /\ Writes(s, Begun(was))
  BY <1>1
<1> HIDE DEF kept, was, again, expired
<1>14. QED
  BY <1>2, <1>4, <1>5, <1>7, <1>8, <1>9, <1>10, <1>11, <1>12, <1>13, Updates

LEMMA BeginLockedSafe ==
    ASSUME LockoutAssumption, CountersInv, NEW c \in Checks, NEW s \in Subjects,
           BeginLocked(c, s)
    PROVE  CountersInv'
<1>1. PICK swept \in MaybeSweeps :
         s \in Left(swept) /\ Tracks(s, Left(swept)) /\ Writes(s, row[s])
  BY DEF BeginLocked
<1>2. swept \in BOOLEAN /\ row[s] \in States
  BY SweepsAre DEF CountersInv, CounterTypes
<1>3. /\ now' = now /\ check' = check /\ outlived' = outlived /\ unswept' = unswept
      /\ runs' = runs /\ refunds' = refunds /\ expiries' = expiries
  BY DEF BeginLocked, history
<1>4. s \in held /\ s \in held' /\ row'[s] = row[s]
  BY <1>1, <1>2, Keeps, TracksMoves DEF CountersInv
<1>5. Budget(s)' /\ Agrees(s)'
  <2>1. Budget(s) /\ Agrees(s)
    BY <1>4 DEF CountersInv
  <2>2. Agrees(s)'
    BY <1>3, <1>4, <2>1 DEF Agrees
  <2>3. QED  BY <1>3, <1>4, <2>1, <2>2, OthersBudget
<1>6. QED  BY <1>1, <1>2, <1>3, <1>5, Updates DEF CountersInv, CounterTypes

LEMMA RefundCheckSafe ==
    ASSUME LockoutAssumption, CountersInv, NEW c \in Checks, NEW s \in Subjects,
           s = check[c].subject, RefundCheck(c)
    PROVE  CountersInv'
<1>1. PICK swept \in MaybeSweeps :
         /\ Tracks(s, Left(swept)) /\ Writes(s, Refunded(Current(s, Left(swept))))
         /\ Counts(s, s \notin Left(swept), 0, 1, 0) /\ Outlives(s, Left(swept))
  BY DEF RefundCheck
<1>2. swept \in BOOLEAN /\ now \in Nat
  BY SweepsAre DEF CountersInv, CounterTypes
<1>3. /\ now' = now /\ unswept[s] \in States
      /\ unswept' = [unswept EXCEPT ![s] = Refunded(unswept[s])]
      /\ check' \in [Checks -> {NoCheck} \cup [subject : Subjects, age : Nat]]
  BY <1>2, ChecksMove DEF RefundCheck, CountersInv, CounterTypes
<1> DEFINE kept == Left(swept)
           was == Current(s, kept)
<1>4. /\ was \in States /\ (s \in kept => was = row[s] /\ s \in held)
  BY <1>2, CurrentIs, Keeps DEF CountersInv
<1>5. /\ Refunded(was) \in States /\ Refunded(was).failures + 1 >= was.failures
      /\ Refunded(was).lockedUntil = None
  BY <1>2, <1>4, RefundedIs
<1>6. /\ runs' \in [Subjects -> Nat] /\ refunds' \in [Subjects -> Nat]
      /\ expiries' \in [Subjects -> Nat]
      /\ runs'[s] = (IF s \notin kept THEN 0 ELSE runs[s]) + 0
      /\ refunds'[s] = (IF s \notin kept THEN 0 ELSE refunds[s]) + 1
      /\ expiries'[s] = (IF s \notin kept THEN 0 ELSE expiries[s]) + 0
      /\ \A t \in Subjects \ {s} :
            runs'[t] = runs[t] /\ refunds'[t] = refunds[t] /\ expiries'[t] = expiries[t]
  <2> DEFINE again == s \notin kept
  <2>1. again \in BOOLEAN /\ Counts(s, again, 0, 1, 0) /\ CounterTypes
    BY <1>1 DEF CountersInv
  <2> HIDE DEF again
  <2>2. /\ runs'[s] = (IF again THEN 0 ELSE runs[s]) + 0
        /\ refunds'[s] = (IF again THEN 0 ELSE refunds[s]) + 1
        /\ expiries'[s] = (IF again THEN 0 ELSE expiries[s]) + 0
    BY <1>2, <2>1, CountsIs
  <2>3. /\ runs' \in [Subjects -> Nat] /\ refunds' \in [Subjects -> Nat]
        /\ expiries' \in [Subjects -> Nat]
        /\ \A t \in Subjects \ {s} :
              runs'[t] = runs[t] /\ refunds'[t] = refunds[t] /\ expiries'[t] = expiries[t]
    BY <1>2, <2>1, CountsIs
  <2>4. QED  BY <2>2, <2>3 DEF again
<1>7. s \in held' /\ row'[s] = Refunded(was)
  BY <1>1, <1>2, <1>5, TracksMoves DEF CountersInv
<1>8. runs[s] \in Nat /\ refunds[s] \in Nat /\ expiries[s] \in Nat
  BY <1>2 DEF CountersInv, CounterTypes
<1>9. Budget(s)'
  <2> HIDE DEF kept, was
  <2>1. Refunded(was).failures \in Nat /\ was.failures \in Nat
    BY <1>4, <1>5 DEF States
  <2>2. CASE s \notin kept
    <3>1. runs'[s] = 0 /\ refunds'[s] = 1 /\ expiries'[s] = 0
      BY <1>6, <2>2
    <3>2. QED  BY <1>7, <2>1, <3>1, LockNumbers DEF Budget
  <2>3. CASE s \in kept
    <3>1. Budget(s) /\ was = row[s]
      BY <1>4, <2>3 DEF CountersInv
    <3>2. runs'[s] = runs[s] /\ refunds'[s] = refunds[s] + 1 /\ expiries'[s] = expiries[s]
      BY <1>6, <1>8, <2>3
    <3>3. QED  BY <1>5, <1>7, <1>8, <2>1, <3>1, <3>2, LockNumbers DEF Budget
  <2>4. QED  BY <2>2, <2>3
<1>10. Refunded(unswept[s]) \in States
  BY <1>2, <1>3, RefundedIs
<1>11. /\ unswept' \in [Subjects -> States] /\ unswept'[s] = Refunded(unswept[s])
       /\ \A t \in Subjects \ {s} : unswept'[t] = unswept[t]
  BY <1>2, <1>3, <1>10 DEF CountersInv, CounterTypes
<1>12. /\ outlived \subseteq outlived' /\ outlived' \subseteq Subjects
       /\ s \notin kept => s \in outlived'
  BY <1>1, <1>2 DEF Outlives, CountersInv, CounterTypes
<1>13. Agrees(s)'
  <2>1. CASE s \in outlived'
    BY <2>1 DEF Agrees
  <2>2. CASE s \notin outlived'
    <3>1. was = unswept[s]
      BY <1>2, <1>4, <1>12, <2>2 DEF CountersInv, Agrees
    <3>2. QED  BY <1>7, <1>11, <3>1 DEF Agrees
  <2>3. QED  BY <2>1, <2>2
<1>14. Tracks(s, Left(swept)) /\ Writes(s, Refunded(was))
  BY <1>1
<1> HIDE DEF kept, was
<1>15. QED
  BY <1>2, <1>3, <1>5, <1>6, <1>9, <1>11, <1>12, <1>13, <1>14, Updates

LEMMA FailCheckSafe ==
    ASSUME LockoutAssumption, CountersInv, NEW c \in Checks, NEW s \in Subjects,
           s = check[c].subject, FailCheck(c)
    PROVE  CountersInv'
<1>1. PICK swept \in MaybeSweeps :
         /\ Tracks(s, Left(swept)) /\ Writes(s, Failed(Current(s, Left(swept))))
         /\ Counts(s, s \notin Left(swept), 0, 0, 0) /\ Outlives(s, Left(swept))
  BY DEF FailCheck
<1>2. swept \in BOOLEAN /\ now \in Nat
  BY SweepsAre DEF CountersInv, CounterTypes
<1>3. /\ now' = now /\ unswept[s] \in States
      /\ unswept' = [unswept EXCEPT ![s] = Failed(unswept[s])]
      /\ check' \in [Checks -> {NoCheck} \cup [subject : Subjects, age : Nat]]
  BY <1>2, ChecksMove DEF FailCheck, CountersInv, CounterTypes
<1> DEFINE kept == Left(swept)
           was == Current(s, kept)
<1>4. /\ was \in States /\ (s \in kept => was = row[s] /\ s \in held)
  BY <1>2, CurrentIs, Keeps DEF CountersInv
<1>5. /\ Failed(was) \in States /\ Failed(was).failures = was.failures
      /\ Failed(was).lockedUntil = was.lockedUntil
  BY <1>2, <1>4, FailedIs
<1>6. /\ runs' \in [Subjects -> Nat] /\ refunds' \in [Subjects -> Nat]
      /\ expiries' \in [Subjects -> Nat]
      /\ runs'[s] = (IF s \notin kept THEN 0 ELSE runs[s]) + 0
      /\ refunds'[s] = (IF s \notin kept THEN 0 ELSE refunds[s]) + 0
      /\ expiries'[s] = (IF s \notin kept THEN 0 ELSE expiries[s]) + 0
      /\ \A t \in Subjects \ {s} :
            runs'[t] = runs[t] /\ refunds'[t] = refunds[t] /\ expiries'[t] = expiries[t]
  <2> DEFINE again == s \notin kept
  <2>1. again \in BOOLEAN /\ Counts(s, again, 0, 0, 0) /\ CounterTypes
    BY <1>1 DEF CountersInv
  <2> HIDE DEF again
  <2>2. /\ runs'[s] = (IF again THEN 0 ELSE runs[s]) + 0
        /\ refunds'[s] = (IF again THEN 0 ELSE refunds[s]) + 0
        /\ expiries'[s] = (IF again THEN 0 ELSE expiries[s]) + 0
    BY <1>2, <2>1, CountsIs
  <2>3. /\ runs' \in [Subjects -> Nat] /\ refunds' \in [Subjects -> Nat]
        /\ expiries' \in [Subjects -> Nat]
        /\ \A t \in Subjects \ {s} :
              runs'[t] = runs[t] /\ refunds'[t] = refunds[t] /\ expiries'[t] = expiries[t]
    BY <1>2, <2>1, CountsIs
  <2>4. QED  BY <2>2, <2>3 DEF again
<1>7. s \in held' /\ row'[s] = Failed(was)
  BY <1>1, <1>2, <1>5, TracksMoves DEF CountersInv
<1>8. runs[s] \in Nat /\ refunds[s] \in Nat /\ expiries[s] \in Nat
  BY <1>2 DEF CountersInv, CounterTypes
<1>9. Budget(s)'
  <2> HIDE DEF kept, was
  <2>1. Failed(was).failures \in Nat
    BY <1>5 DEF States
  <2>2. CASE s \notin kept
    <3>1. runs'[s] = 0 /\ refunds'[s] = 0 /\ expiries'[s] = 0
      BY <1>6, <2>2
    <3>2. QED  BY <1>7, <2>1, <3>1, LockNumbers DEF Budget
  <2>3. CASE s \in kept
    <3>1. Budget(s) /\ was = row[s]
      BY <1>4, <2>3 DEF CountersInv
    <3>2. runs'[s] = runs[s] /\ refunds'[s] = refunds[s] /\ expiries'[s] = expiries[s]
      BY <1>6, <1>8, <2>3
    <3>3. QED  BY <1>5, <1>7, <3>1, <3>2 DEF Budget
  <2>4. QED  BY <2>2, <2>3
<1>10. Failed(unswept[s]) \in States
  BY <1>2, <1>3, FailedIs
<1>11. /\ unswept' \in [Subjects -> States] /\ unswept'[s] = Failed(unswept[s])
       /\ \A t \in Subjects \ {s} : unswept'[t] = unswept[t]
  BY <1>2, <1>3, <1>10 DEF CountersInv, CounterTypes
<1>12. /\ outlived \subseteq outlived' /\ outlived' \subseteq Subjects
       /\ s \notin kept => s \in outlived'
  BY <1>1, <1>2 DEF Outlives, CountersInv, CounterTypes
<1>13. Agrees(s)'
  <2>1. CASE s \in outlived'
    BY <2>1 DEF Agrees
  <2>2. CASE s \notin outlived'
    <3>1. was = unswept[s]
      BY <1>2, <1>4, <1>12, <2>2 DEF CountersInv, Agrees
    <3>2. QED  BY <1>7, <1>11, <3>1 DEF Agrees
  <2>3. QED  BY <2>1, <2>2
<1>14. Tracks(s, Left(swept)) /\ Writes(s, Failed(was))
  BY <1>1
<1> HIDE DEF kept, was
<1>15. QED
  BY <1>2, <1>3, <1>5, <1>6, <1>9, <1>11, <1>12, <1>13, <1>14, Updates

LEMMA TimePassesSafe ==
    ASSUME LockoutAssumption, CountersInv, TimePasses
    PROVE  CountersInv'
<1>1. /\ now \in Nat /\ now' = now + 1 /\ now' <= MaxTime
      /\ held' = held /\ row' = row /\ unswept' = unswept /\ outlived' = outlived
      /\ runs' = runs /\ refunds' = refunds /\ expiries' = expiries
  BY LockNumbers DEF TimePasses, store, history, CountersInv, CounterTypes
<1>2. check' \in [Checks -> {NoCheck} \cup [subject : Subjects, age : Nat]]
  <2>1. ASSUME NEW c \in Checks, check[c] # NoCheck
        PROVE  [check[c] EXCEPT !.age = check[c].age + 1] \in [subject : Subjects, age : Nat]
    <3>1. check[c] \in [subject : Subjects, age : Nat]
      BY <2>1 DEF CountersInv, CounterTypes
    <3>2. QED  BY <3>1
  <2>2. QED  BY <2>1 DEF TimePasses
<1>3. CounterTypes'
  BY <1>1, <1>2 DEF CountersInv, CounterTypes
<1>4. (\A t \in held : Budget(t))'
  BY <1>1 DEF CountersInv, Budget
<1>5. ASSUME NEW u \in States, Neutral(u)  PROVE Neutral(u)'
  BY <1>1, <1>5, LockNumbers DEF Neutral, Locked, Quiet, States, None
<1>6. (\A t \in Subjects : Agrees(t))'
  <2>1. ASSUME NEW t \in Subjects  PROVE Agrees(t)'
    <3>1. Agrees(t) /\ unswept[t] \in States
      BY DEF CountersInv, CounterTypes
    <3>2. Neutral(unswept[t]) => Neutral(unswept[t])'
      BY <1>1, <1>5, <3>1 DEF Neutral, Locked, Quiet
    <3>3. QED  BY <1>1, <3>1, <3>2 DEF Agrees
  <2>2. QED  BY <2>1
<1>7. QED  BY <1>3, <1>4, <1>6 DEF CountersInv

LEMMA CountersInit ==
    ASSUME LockoutAssumption, Init
    PROVE  CountersInv
<1>1. now = 0 /\ held = {} /\ Fresh \in States /\ Neutral(Fresh)
  BY FreshIs DEF Init
<1>2. IsFiniteSet(held) /\ Cardinality(held) <= MaxEntries
  BY <1>1, FS_EmptySet, LockNumbers
<1>3. CounterTypes
  BY <1>1, <1>2, LockNumbers DEF CounterTypes, Init
<1>4. QED  BY <1>1, <1>3 DEF CountersInv, Agrees, Init

LEMMA CountersStep ==
    ASSUME LockoutAssumption, CountersInv, [Next]_vars
    PROVE  CountersInv'
<1>1. ASSUME NEW c \in Checks, NEW s \in Subjects, BeginRefused(c, s)  PROVE CountersInv'
  <2>1. PICK swept \in MaybeSweeps : Refuses(s, Left(swept))
    BY <1>1 DEF BeginRefused
  <2>2. QED
    BY <1>1, <2>1, SweepsAre, Refusals DEF BeginRefused, CountersInv, CounterTypes
<1>2. ASSUME NEW c \in Checks, EndRefused(c)  PROVE CountersInv'
  <2>1. PICK swept \in MaybeSweeps : Refuses(check[c].subject, Left(swept))
    BY <1>2 DEF EndRefused
  <2>2. /\ check[c].subject \in Subjects
        /\ check' \in [Checks -> {NoCheck} \cup [subject : Subjects, age : Nat]]
    BY <1>2, ChecksMove DEF EndRefused, CountersInv
  <2>3. QED  BY <1>2, <2>1, <2>2, SweepsAre, Refusals DEF EndRefused
<1>3. ASSUME NEW c \in Checks, Forgotten(c)  PROVE CountersInv'
  <2>1. /\ now' = now /\ held' = held /\ row' = row /\ unswept' = unswept
        /\ outlived' = outlived /\ runs' = runs /\ refunds' = refunds /\ expiries' = expiries
        /\ check' \in [Checks -> {NoCheck} \cup [subject : Subjects, age : Nat]]
    BY <1>3, ChecksMove DEF Forgotten, store, history, CountersInv
  <2>2. QED
    BY <2>1 DEF CountersInv, CounterTypes, Budget, Agrees, Neutral, Locked, Quiet
<1>4. ASSUME UNCHANGED vars  PROVE CountersInv'
  BY <1>4 DEF vars, store, history, CountersInv, CounterTypes, Budget, Agrees, Neutral,
              Locked, Quiet
<1>5. ASSUME NEW c \in Checks, RefundCheck(c) \/ FailCheck(c)  PROVE CountersInv'
  <2>1. check[c].subject \in Subjects
    BY <1>5, ChecksMove DEF RefundCheck, FailCheck, CountersInv
  <2>2. QED  BY <1>5, <2>1, RefundCheckSafe, FailCheckSafe
<1>6. QED
  BY <1>1, <1>2, <1>3, <1>4, <1>5, BeginCheckSafe, BeginLockedSafe, TimePassesSafe DEF Next

LEMMA CountersHold ==
    ASSUME LockoutAssumption
    PROVE  Spec => []CountersInv
<1>1. Init => CountersInv
  BY CountersInit
<1>2. CountersInv /\ [Next]_vars => CountersInv'
  BY CountersStep
<1>3. QED  BY <1>1, <1>2, PTL DEF Spec

LEMMA NeutralAlike ==
    ASSUME NEW u \in States, NEW v \in States, Neutral(u), Neutral(v)
    PROVE  SameAs(u, v)
BY NeutralIs DEF SameAs

LEMMA SweepsShow ==
    ASSUME CountersInv
    PROVE  SweepsUnseen
<1>1. ASSUME NEW s \in Subjects \ outlived  PROVE SameAs(Current(s, held), unswept[s])
  <2>1. Agrees(s) /\ unswept[s] \in States /\ now \in Nat /\ Current(s, held) \in States
    BY CurrentIs DEF CountersInv, CounterTypes
  <2>2. CASE s \in held
    BY <2>1, <2>2 DEF Agrees, Current, SameAs
  <2>3. CASE s \notin held
    <3>1. Neutral(unswept[s]) /\ Neutral(Current(s, held))
      BY <2>1, <2>3, FreshIs DEF Agrees, Current
    <3>2. QED  BY <2>1, <3>1, NeutralAlike
  <2>4. QED  BY <2>2, <2>3
<1>2. QED  BY <1>1 DEF SweepsUnseen

(* Of any number of simultaneous checks of a subject, at most the free     *)
(* budget plus one run: each further one is paid for by a lock that ran    *)
(* out or a secret that was right (begin of mod.ts).                       *)
THEOREM GuessesAreBounded ==
    ASSUME LockoutAssumption
    PROVE  Spec => []GuessesBounded
<1>1. CountersInv => GuessesBounded
  BY DEF CountersInv, Budget, GuessesBounded
<1>2. QED  BY <1>1, CountersHold, PTL

(* The next check of a subject finds the lock and the count that a store   *)
(* which never drops a counter would give it (sweep, makeRoom and track of *)
(* memory-store.ts), unless a check of its own outlived its counter.       *)
THEOREM SweepsAreUnseen ==
    ASSUME LockoutAssumption
    PROVE  Spec => []SweepsUnseen
<1>1. CountersInv => SweepsUnseen
  BY SweepsShow
<1>2. QED  BY <1>1, CountersHold, PTL

(* A set of numbers has a least one.                                       *)
LEMMA Least ==
    ASSUME NEW T \in SUBSET Nat, T # {}
    PROVE  \E x \in T : \A y \in T : x <= y
<1>1. \A x, y \in Nat : y < x => <<y, x>> \in OpToRel(<, Nat)
  BY DEF OpToRel
<1>2. PICK x \in T : \A y \in T : ~ (<<y, x>> \in OpToRel(<, Nat))
  <2>1. IsWellFoundedOn(OpToRel(<, Nat), Nat)
    BY NatLessThanWellFounded
  <2>2. QED  BY <2>1, WFMin
<1>3. \A y \in T : ~(y < x)
  BY <1>1, <1>2
<1>4. QED  BY <1>3

LEMMA DroppableNumber ==
    ASSUME LockoutAssumption, NEW u \in States
    PROVE  DroppableAt(u) \in Nat
<1>1. Infinity \in Nat
  BY LockNumbers DEF Infinity
<1>2. /\ u.touchedAt + QuietReset \in Nat
      /\ u.lockedUntil \in Nat \cup {-1}
      /\ (IF u.lastFailureAt = None THEN None ELSE u.lastFailureAt + QuietReset) \in Nat \cup {-1}
  BY LockNumbers DEF States, None
<1>3. \A a \in Nat, b, c \in Nat \cup {-1} : Larger(Larger(b, a), c) \in Nat
  BY DEF Larger
<1>4. Larger(Larger(u.lockedUntil, u.touchedAt + QuietReset),
             IF u.lastFailureAt = None THEN None ELSE u.lastFailureAt + QuietReset) \in Nat
  BY <1>2, <1>3
<1>5. QED  BY <1>1, <1>4 DEF DroppableAt

LEMMA FreeAtType ==
    ASSUME LockoutAssumption, CounterTypes, NEW kept \in SUBSET Subjects, kept # {}
    PROVE  FreeAt(kept) \in Nat
<1> DEFINE T == {DroppableAt(row[s]) : s \in kept}
<1>1. T \in SUBSET Nat /\ T # {}
  <2>1. \A s \in kept : DroppableAt(row[s]) \in Nat
    BY DroppableNumber DEF CounterTypes
  <2>2. QED  BY <2>1
<1>2. \E x \in T : \A y \in T : x <= y
  <2> HIDE DEF T
  <2>1. QED  BY <1>1, Least
<1>3. \E x \in T : \A s \in kept : x <= DroppableAt(row[s])
  BY <1>2
<1>4. FreeAt(kept) \in T
  BY <1>3 DEF FreeAt
<1>5. QED  BY <1>1, <1>4

SweepTypes == lastSweepAt \in 0 .. MaxTime /\ fullUntil \in Nat \cup {None}

LEMMA SweepTypesStep ==
    ASSUME LockoutAssumption, CountersInv, SweepTypes, [Next]_vars
    PROVE  SweepTypes'
<1>1. now \in 0 .. MaxTime /\ CounterTypes
  BY LockNumbers DEF CountersInv, CounterTypes
<1>2. ASSUME NEW swept \in MaybeSweeps, Sweeps(swept)  PROVE lastSweepAt' \in 0 .. MaxTime
  BY <1>1, <1>2 DEF Sweeps, SweepTypes
<1>3. ASSUME NEW swept \in MaybeSweeps, NEW s, Tracks(s, Left(swept))
      PROVE  fullUntil' \in Nat \cup {None}
  BY <1>3 DEF Tracks, SweepTypes
<1>4. ASSUME NEW swept \in MaybeSweeps, NEW s, Refuses(s, Left(swept))
      PROVE  fullUntil' \in Nat \cup {None}
  <2>1. Left(swept) \in SUBSET Subjects /\ IsFiniteSet(Left(swept))
    BY <1>1, SweepsAre, Keeps DEF CounterTypes
  <2>2. Left(swept) # {}
    <3>1. Cardinality(Left(swept)) >= MaxEntries
      BY <1>4 DEF Refuses, Crowded
    <3>2. QED  BY <3>1, FS_EmptySet, LockNumbers
  <2>3. FreeAt(Left(swept)) \in Nat
    BY <1>1, <2>1, <2>2, FreeAtType
  <2>4. QED  BY <1>4, <2>3 DEF Refuses, SweepTypes
<1>5. ASSUME UNCHANGED store  PROVE SweepTypes'
  BY <1>5 DEF store, SweepTypes
<1>6. ASSUME NEW c \in Checks, NEW s \in Subjects, BeginCheck(c, s)  PROVE SweepTypes'
  BY <1>2, <1>3, <1>6 DEF BeginCheck, SweepTypes
<1>7. ASSUME NEW c \in Checks, NEW s \in Subjects, BeginLocked(c, s)  PROVE SweepTypes'
  BY <1>2, <1>3, <1>7 DEF BeginLocked, SweepTypes
<1>8. ASSUME NEW c \in Checks, NEW s \in Subjects, BeginRefused(c, s)  PROVE SweepTypes'
  BY <1>2, <1>4, <1>8 DEF BeginRefused, SweepTypes
<1>9. ASSUME NEW c \in Checks, RefundCheck(c)  PROVE SweepTypes'
  BY <1>2, <1>3, <1>9 DEF RefundCheck, SweepTypes
<1>10. ASSUME NEW c \in Checks, FailCheck(c)  PROVE SweepTypes'
  BY <1>2, <1>3, <1>10 DEF FailCheck, SweepTypes
<1>11. ASSUME NEW c \in Checks, EndRefused(c)  PROVE SweepTypes'
  BY <1>2, <1>4, <1>11 DEF EndRefused, SweepTypes
<1>12. QED
  BY <1>5, <1>6, <1>7, <1>8, <1>9, <1>10, <1>11 DEF Next, Forgotten, TimePasses, vars

(* The counters are well formed, and the store never holds more of them    *)
(* than maxEntries.                                                        *)
THEOREM LockoutTypes ==
    ASSUME LockoutAssumption
    PROVE  Spec => []TypeOK
<1>1. Init => SweepTypes
  BY LockNumbers DEF Init, SweepTypes
<1>2. CountersInv /\ SweepTypes /\ [Next]_vars => SweepTypes'
  BY SweepTypesStep
<1>3. CountersInv /\ SweepTypes => TypeOK
  BY LockNumbers DEF CountersInv, CounterTypes, SweepTypes, TypeOK
<1>4. QED  BY <1>1, <1>2, <1>3, CountersHold, PTL DEF Spec

(* A check that runs has a counter, and raised or found it not long ago.   *)
Alive ==
    \A c \in Checks : check[c] # NoCheck =>
        /\ check[c].age <= Slowest
        /\ check[c].subject \in held
        /\ row[check[c].subject].touchedAt + check[c].age >= now

QuickInv == Alive /\ outlived = {}

LEMMA RunningIsKept ==
    ASSUME LockoutAssumption, Slowest < QuietReset, CountersInv, Alive,
           NEW c \in Checks, check[c] # NoCheck, NEW swept \in BOOLEAN
    PROVE  /\ check[c].subject \in Subjects /\ check[c].age \in Nat
           /\ check[c].subject \notin Droppable /\ check[c].subject \in Left(swept)
<1> DEFINE s == check[c].subject
<1>1. s \in Subjects /\ check[c].age \in Nat
  BY DEF CountersInv, CounterTypes
<1>2. /\ s \in held /\ row[s] \in States /\ row[s].touchedAt + check[c].age >= now
      /\ check[c].age <= Slowest
  BY <1>1 DEF Alive, CountersInv, CounterTypes
<1> HIDE DEF s
<1>3. DroppableAt(row[s]) > now
  <2>1. CASE row[s].lastFailureAt = None /\ row[s].failures # 0
    BY <2>1, LockNumbers DEF DroppableAt, Infinity, CountersInv, CounterTypes
  <2>2. CASE ~(row[s].lastFailureAt = None /\ row[s].failures # 0)
    <3>1. row[s].touchedAt + QuietReset > now
      BY <1>1, <1>2, LockNumbers DEF States, CountersInv, CounterTypes
    <3>2. /\ row[s].lockedUntil \in Int /\ row[s].lastFailureAt \in Int
          /\ row[s].touchedAt \in Int
      BY <1>2 DEF States, None
    <3>3. DroppableAt(row[s]) >= row[s].touchedAt + QuietReset
      BY <2>2, <3>2, LockNumbers DEF DroppableAt, Larger, None
    <3>4. DroppableAt(row[s]) \in Int
      BY <2>2, <3>2, LockNumbers DEF DroppableAt, Larger, None
    <3>5. QED  BY <3>1, <3>2, <3>3, <3>4, LockNumbers DEF CountersInv, CounterTypes
  <2>3. QED  BY <2>1, <2>2
<1>4. DroppableAt(row[s]) \in Int /\ now \in Int
  BY <1>2, LockNumbers DEF DroppableAt, Larger, States, None, Infinity, CountersInv, CounterTypes
<1>5. s \notin Droppable
  BY <1>3, <1>4 DEF Droppable
<1>6. s \in Left(swept)
  BY <1>2, <1>5, Keeps DEF CountersInv
<1>7. QED  BY <1>1, <1>5, <1>6 DEF s

LEMMA UpdatesAlive ==
    ASSUME LockoutAssumption, Slowest < QuietReset, CountersInv, Alive, NEW swept \in BOOLEAN,
           NEW s \in Subjects, NEW state \in States,
           Tracks(s, Left(swept)), Writes(s, state), now' = now,
           state.touchedAt = now \/ state = row[s],
           \A c \in Checks :
              \/ check'[c] \in {check[c], NoCheck}
              \/ check'[c] = [subject |-> s, age |-> 0] /\ state.touchedAt = now
    PROVE  Alive'
<1>1. /\ \A t \in held \ held' : t \in Droppable
      /\ s \in held' /\ row'[s] = state
      /\ \A t \in held' \ {s} : row'[t] = row[t]
  BY TracksMoves DEF CountersInv, CountersMove
<1>2. ASSUME NEW c \in Checks, check'[c] # NoCheck
      PROVE  /\ check'[c].age <= Slowest /\ check'[c].subject \in held'
             /\ row'[check'[c].subject].touchedAt + check'[c].age >= now'
  <2>1. CASE check'[c] = check[c]
    <3>1. /\ check[c].age <= Slowest /\ check[c].subject \in held
          /\ row[check[c].subject].touchedAt + check[c].age >= now
          /\ check[c].subject \notin Droppable /\ check[c].age \in Nat
      BY <1>2, <2>1, RunningIsKept DEF Alive
    <3>2. check[c].subject \in held'
      BY <1>1, <3>1
    <3>3. row'[check[c].subject].touchedAt + check[c].age >= now
      <4>1. CASE check[c].subject # s
        BY <1>1, <3>1, <3>2, <4>1
      <4>2. CASE check[c].subject = s /\ state = row[s]
        BY <1>1, <3>1, <4>2
      <4>3. CASE check[c].subject = s /\ state.touchedAt = now
        <5>1. now \in Nat
          BY DEF CountersInv, CounterTypes
        <5>2. QED  BY <1>1, <3>1, <4>3, <5>1
      <4>4. QED  BY <4>1, <4>2, <4>3
    <3>4. QED  BY <2>1, <3>1, <3>2, <3>3
  <2>2. CASE check'[c] = [subject |-> s, age |-> 0] /\ state.touchedAt = now
    BY <1>1, <2>2, LockNumbers DEF CountersInv, CounterTypes
  <2>3. QED  BY <1>2, <2>1, <2>2
<1>3. QED  BY <1>2 DEF Alive

LEMMA RefusesAlive ==
    ASSUME LockoutAssumption, Slowest < QuietReset, CountersInv, Alive, NEW swept \in BOOLEAN,
           NEW s \in Subjects, Refuses(s, Left(swept)), now' = now,
           \A c \in Checks : check'[c] \in {check[c], NoCheck}
    PROVE  Alive'
<1>1. /\ \A t \in held \ held' : t \in Droppable
      /\ \A t \in held' : row'[t] = row[t]
  BY RefusesMoves DEF CountersInv, CountersMove
<1>2. ASSUME NEW c \in Checks, check'[c] # NoCheck
      PROVE  /\ check'[c].age <= Slowest /\ check'[c].subject \in held'
             /\ row'[check'[c].subject].touchedAt + check'[c].age >= now'
  <2>1. /\ check'[c] = check[c]
        /\ check[c].age <= Slowest /\ check[c].subject \in held
        /\ row[check[c].subject].touchedAt + check[c].age >= now
        /\ check[c].subject \notin Droppable
    BY <1>2, RunningIsKept DEF Alive
  <2>2. QED  BY <1>1, <2>1
<1>3. QED  BY <1>2 DEF Alive

LEMMA Touched ==
    ASSUME NEW u \in States
    PROVE  Begun(u).touchedAt = now /\ Failed(u).touchedAt = now /\ Refunded(u).touchedAt = now
BY DEF Begun, Failed, Refunded, States

LEMMA QuickStep ==
    ASSUME LockoutAssumption, Slowest < QuietReset, CountersInv, QuickInv,
           [Next]_vars
    PROVE  QuickInv'
<1>0. /\ check \in [Checks -> {NoCheck} \cup [subject : Subjects, age : Nat]]
      /\ row \in [Subjects -> States] /\ now \in Nat /\ CounterTypes /\ Alive
  BY DEF CountersInv, CounterTypes, QuickInv
<1>1. ASSUME NEW c \in Checks, NEW s \in Subjects, BeginCheck(c, s)  PROVE QuickInv'
  <2>1. PICK swept \in MaybeSweeps :
           Tracks(s, Left(swept)) /\ Writes(s, Begun(Current(s, Left(swept))))
    BY <1>1 DEF BeginCheck
  <2>2. /\ Begun(Current(s, Left(swept))) \in States
        /\ Begun(Current(s, Left(swept))).touchedAt = now
    BY <1>0, CurrentIs, BegunIs, Touched
  <2>3. \A d \in Checks : check'[d] \in {check[d], [subject |-> s, age |-> 0]}
    BY <1>0, <1>1 DEF BeginCheck
  <2>4. Alive' /\ outlived' = outlived
    BY <1>0, <1>1, <2>1, <2>2, <2>3, SweepsAre, UpdatesAlive DEF BeginCheck
  <2>5. QED  BY <2>4 DEF QuickInv
<1>2. ASSUME NEW c \in Checks, NEW s \in Subjects, BeginLocked(c, s)  PROVE QuickInv'
  <2>1. PICK swept \in MaybeSweeps : Tracks(s, Left(swept)) /\ Writes(s, row[s])
    BY <1>2 DEF BeginLocked
  <2>2. Alive' /\ outlived' = outlived
    BY <1>0, <1>2, <2>1, SweepsAre, UpdatesAlive DEF BeginLocked, history
  <2>3. QED  BY <2>2 DEF QuickInv
<1>3. ASSUME NEW c \in Checks, NEW s \in Subjects, BeginRefused(c, s)  PROVE QuickInv'
  <2>1. PICK swept \in MaybeSweeps : Refuses(s, Left(swept))
    BY <1>3 DEF BeginRefused
  <2>2. Alive' /\ outlived' = outlived
    BY <1>0, <1>3, <2>1, SweepsAre, RefusesAlive DEF BeginRefused, history
  <2>3. QED  BY <2>2 DEF QuickInv
<1>4. ASSUME NEW c \in Checks, NEW s \in Subjects, s = check[c].subject, check[c] # NoCheck,
             NEW swept \in MaybeSweeps, NEW state \in States, state.touchedAt = now,
             Tracks(s, Left(swept)), Writes(s, state), Outlives(s, Left(swept)), Ends(c),
             now' = now
      PROVE  QuickInv'
  <2>1. s \in Left(swept)
    BY <1>0, <1>4, SweepsAre, RunningIsKept
  <2>2. outlived' = outlived
    BY <1>4, <2>1 DEF Outlives
  <2>3. \A d \in Checks : check'[d] \in {check[d], NoCheck}
    BY <1>0, <1>4 DEF Ends
  <2>4. Alive'
    BY <1>0, <1>4, <2>3, SweepsAre, UpdatesAlive
  <2>5. QED  BY <2>2, <2>4 DEF QuickInv
<1>5. ASSUME NEW c \in Checks, RefundCheck(c)  PROVE QuickInv'
  <2>1. check[c].subject \in Subjects /\ check[c] # NoCheck
    BY <1>0, <1>5, ChecksMove DEF RefundCheck
  <2>2. PICK swept \in MaybeSweeps :
           /\ Tracks(check[c].subject, Left(swept))
           /\ Writes(check[c].subject, Refunded(Current(check[c].subject, Left(swept))))
           /\ Outlives(check[c].subject, Left(swept))
    BY <1>5 DEF RefundCheck
  <2>3. /\ Refunded(Current(check[c].subject, Left(swept))) \in States
        /\ Refunded(Current(check[c].subject, Left(swept))).touchedAt = now
    BY <1>0, <2>1, CurrentIs, RefundedIs, Touched
  <2>4. QED  BY <1>4, <1>5, <2>1, <2>2, <2>3 DEF RefundCheck
<1>6. ASSUME NEW c \in Checks, FailCheck(c)  PROVE QuickInv'
  <2>1. check[c].subject \in Subjects /\ check[c] # NoCheck
    BY <1>0, <1>6, ChecksMove DEF FailCheck
  <2>2. PICK swept \in MaybeSweeps :
           /\ Tracks(check[c].subject, Left(swept))
           /\ Writes(check[c].subject, Failed(Current(check[c].subject, Left(swept))))
           /\ Outlives(check[c].subject, Left(swept))
    BY <1>6 DEF FailCheck
  <2>3. /\ Failed(Current(check[c].subject, Left(swept))) \in States
        /\ Failed(Current(check[c].subject, Left(swept))).touchedAt = now
    BY <1>0, <2>1, CurrentIs, FailedIs, Touched
  <2>4. QED  BY <1>4, <1>6, <2>1, <2>2, <2>3 DEF FailCheck
<1>7. ASSUME NEW c \in Checks, EndRefused(c)  PROVE QuickInv'
  <2>1. check[c].subject \in Subjects
    BY <1>0, <1>7, ChecksMove DEF EndRefused
  <2>2. PICK swept \in MaybeSweeps : Refuses(check[c].subject, Left(swept))
    BY <1>7 DEF EndRefused
  <2>3. \A d \in Checks : check'[d] \in {check[d], NoCheck}
    BY <1>0, <1>7 DEF EndRefused, Ends
  <2>4. Alive' /\ outlived' = outlived
    BY <1>0, <1>7, <2>1, <2>2, <2>3, SweepsAre, RefusesAlive DEF EndRefused, history
  <2>5. QED  BY <2>4 DEF QuickInv
<1>8. ASSUME NEW c \in Checks, Forgotten(c)  PROVE QuickInv'
  <2>1. \A d \in Checks : check'[d] \in {check[d], NoCheck}
    BY <1>0, <1>8 DEF Forgotten, Ends
  <2>2. QED  BY <1>0, <1>8, <2>1 DEF Forgotten, store, history, QuickInv, Alive
<1>9. ASSUME TimePasses  PROVE QuickInv'
  <2>1. /\ now' = now + 1 /\ held' = held /\ row' = row /\ outlived' = outlived
    BY <1>9 DEF TimePasses, store, history
  <2>2. ASSUME NEW c \in Checks, check'[c] # NoCheck
        PROVE  /\ check'[c].age <= Slowest /\ check'[c].subject \in held
               /\ row[check'[c].subject].touchedAt + check'[c].age >= now + 1
    <3>1. /\ check[c] # NoCheck /\ check[c].age < Slowest
          /\ check'[c] = [check[c] EXCEPT !.age = check[c].age + 1]
      BY <1>9, <2>2 DEF TimePasses
    <3>2. check[c] \in [subject : Subjects, age : Nat]
      BY <1>0, <3>1
    <3>3. check'[c].age = check[c].age + 1 /\ check'[c].subject = check[c].subject
      BY <3>1, <3>2
    <3>4. /\ check[c].subject \in held
          /\ row[check[c].subject].touchedAt + check[c].age >= now
          /\ row[check[c].subject].touchedAt \in Nat
      BY <1>0, <3>1, <3>2 DEF Alive, States
    <3>5. QED  BY <1>0, <3>1, <3>2, <3>3, <3>4, LockNumbers
  <2>3. QED  BY <2>1, <2>2 DEF QuickInv, Alive
<1>10. ASSUME UNCHANGED vars  PROVE QuickInv'
  BY <1>10 DEF vars, store, history, QuickInv, Alive
<1>11. QED
  BY <1>1, <1>2, <1>3, <1>5, <1>6, <1>7, <1>8, <1>9, <1>10 DEF Next

(* A check that ends sooner than quietReset finds its counter, so that, if *)
(* all do, no check outlives its counter and a sweep is never seen: what   *)
(* memory-store.ts says of the counters it drops.                          *)
NoneOutlived == outlived = {}

THEOREM QuickChecksAreCounted ==
    ASSUME LockoutAssumption, Slowest < QuietReset
    PROVE  Spec => []NoneOutlived
<1>1. Init => QuickInv
  BY DEF Init, QuickInv, Alive
<1>2. CountersInv /\ QuickInv /\ [Next]_vars => QuickInv'
  BY QuickStep
<1>3. QuickInv => NoneOutlived
  BY DEF QuickInv, NoneOutlived
<1>4. QED  BY <1>1, <1>2, <1>3, CountersHold, PTL DEF Spec
=============================================================================
