------------------------------ MODULE Registry -------------------------------
(***************************************************************************)
(* The server's connections of src/realtime/registry.ts: attach, liveness, *)
(* reaping, fan-out, and the requests of a connection between dispatch and *)
(* answer.  A step is one event; Tick moves the clock.                     *)
(***************************************************************************)
EXTENDS Integers, FiniteSets

CONSTANTS
    Connections, Users, Requests,
    IdOf,               \* the id a request's frame carries
    MaxPerUser, MaxInFlight,
    Heartbeat, Liveness, RequestTimeout     \* in ticks

Nobody == "nobody"

ASSUME RegistryAssumption ==
    /\ IsFiniteSet(Connections) /\ DOMAIN IdOf = Requests /\ Nobody \notin Requests
    /\ MaxPerUser \in Nat \ {0} /\ MaxInFlight \in Nat \ {0}
    /\ Heartbeat \in Nat \ {0} /\ Liveness \in Nat /\ Liveness > Heartbeat
    /\ RequestTimeout \in Nat \ {0}

VARIABLES
    conn,       \* the connections, each attached once
    beatIn,     \* until the next beat, NoBeat when no interval is armed
    req,        \* the requests: the entry in inFlight, and what was answered
    run         \* the dispatcher's call of each request

registryVars == <<conn, beatIn, req, run>>

NoBeat == -1

NoConnection == [state |-> "new", user |-> Nobody, socket |-> "connecting", silent |-> 0]
NoRequest == [stage |-> "new", conn |-> Nobody, age |-> 0, answer |-> "none", by |-> Nobody]

RegistryInit ==
    /\ conn = [c \in Connections |-> NoConnection]
    /\ beatIn = NoBeat
    /\ req = [r \in Requests |-> NoRequest]
    /\ run = [r \in Requests |-> "none"]

Attached == {c \in Connections : conn[c].state = "attached"}
InFlight(c) == {r \in Requests : req[r].stage = "inFlight" /\ req[r].conn = c}

-----------------------------------------------------------------------------
(* deliver: to an open socket that takes it; one that throws is reaped.    *)
Reaches(c) == conn[c].socket = "open"
Throws(c) == c \in Attached /\ conn[c].socket = "broken"

Seen(c) == conn' = [conn EXCEPT ![c].silent = 0]

(* reap: out of both maps, its requests aborted, its socket closed; the    *)
(* last one stops the heartbeat.                                           *)
Reaped(gone, beat) ==
    /\ conn' = [c \in Connections |->
          IF c \in gone THEN [conn[c] EXCEPT !.state = "gone", !.socket = "closed"] ELSE conn[c]]
    /\ beatIn' = IF Attached \subseteq gone THEN NoBeat ELSE beat

Orphans(gone) == UNION {InFlight(c) : c \in gone}

Drops_KeepsRequests(gone) == UNCHANGED <<req, run>>

Drops(gone) ==
    /\ req' = [r \in Requests |->
          IF r \in Orphans(gone) THEN [req[r] EXCEPT !.stage = "dropped"] ELSE req[r]]
    /\ run' = [r \in Requests |->
          IF r \in Orphans(gone) /\ run[r] = "running" THEN "aborted" ELSE run[r]]

Reaps(gone) == Reaped(gone, beatIn) /\ Drops(gone)

-----------------------------------------------------------------------------
Attach_KeepsBeat(c, u) ==
    /\ conn[c].state = "new"
    /\ Cardinality({d \in Attached : conn[d].user = u}) < MaxPerUser
    /\ conn' = [conn EXCEPT ![c].state = "attached", ![c].user = u]
    /\ UNCHANGED <<beatIn, req, run>>

Attach(c, u) ==
    /\ conn[c].state = "new"
    /\ Cardinality({d \in Attached : conn[d].user = u}) < MaxPerUser
    /\ conn' = [conn EXCEPT ![c].state = "attached", ![c].user = u]
    /\ beatIn' = IF beatIn = NoBeat THEN Heartbeat ELSE beatIn
    /\ UNCHANGED <<req, run>>

AttachRefused(c, u) ==
    /\ conn[c].state = "new"
    /\ Cardinality({d \in Attached : conn[d].user = u}) >= MaxPerUser
    /\ conn' = [conn EXCEPT ![c].state = "gone", ![c].socket = "closed"]
    /\ UNCHANGED <<beatIn, req, run>>

Opens(c) ==
    /\ c \in Attached /\ conn[c].socket = "connecting"
    /\ conn' = [conn EXCEPT ![c].socket = "open", ![c].silent = 0]
    /\ UNCHANGED <<beatIn, req, run>>

(* The close event, detach, or a frame over the limit.                     *)
Drop(c) == c \in Attached /\ Reaps({c})

Shutdown == Attached # {} /\ Reaps(Attached)

(* A ping, a pong, the handshake or a malformed frame.                     *)
Receive(c) ==
    /\ c \in Attached /\ conn[c].socket \in {"open", "full", "broken"}
    /\ Seen(c)
    /\ UNCHANGED <<beatIn, req, run>>

(* sendToUsers: "a failing send does not abort a broadcast".               *)
SendToUser(u) ==
    LET throwing == {c \in Attached : conn[c].user = u /\ Throws(c)}
    IN  throwing # {} /\ Reaps(throwing)

(* One interval for all: the silent are reaped, and so is one that cannot  *)
(* be pinged.                                                              *)
Silent(c) == conn[c].silent >= Liveness

Beat ==
    LET gone == {c \in Attached : Silent(c) \/ Throws(c)}
    IN  beatIn = 0 /\ Reaped(gone, Heartbeat) /\ Drops(gone)

-----------------------------------------------------------------------------
(* Requests.                                                               *)

Holder(c, id) == {r \in InFlight(c) : IdOf[r] = id}

Says(r, by, what) == [req[r] EXCEPT !.stage = "answered", !.answer = what, !.by = by]

Admits(r, c) == Holder(c, IdOf[r]) = {} /\ Cardinality(InFlight(c)) < MaxInFlight

ReceiveRequest(r, c) ==
    /\ req[r].stage = "new" /\ c \in Attached /\ conn[c].socket \in {"open", "full", "broken"}
    /\ Admits(r, c) \/ ~Throws(c)
    /\ Seen(c)
    /\ IF Admits(r, c)
       THEN /\ req' = [req EXCEPT ![r].stage = "inFlight", ![r].conn = c]
            /\ run' = [run EXCEPT ![r] = "running"]
       ELSE /\ req' = [req EXCEPT ![r] =
                  [Says(r, Nobody, IF Reaches(c) THEN "refused" ELSE "lost") EXCEPT !.conn = c]]
            /\ UNCHANGED run
    /\ UNCHANGED beatIn

(* A refusal whose send throws drops the connection and what it has in     *)
(* flight.                                                                 *)
RefusalThrows(r, c) ==
    /\ req[r].stage = "new" /\ Throws(c) /\ ~Admits(r, c)
    /\ Reaped({c}, beatIn)
    /\ req' = [q \in Requests |->
          IF q = r THEN [Says(r, Nobody, "lost") EXCEPT !.conn = c]
          ELSE IF q \in Orphans({c}) THEN [req[q] EXCEPT !.stage = "dropped"] ELSE req[q]]
    /\ run' = [q \in Requests |->
          IF q \in Orphans({c}) /\ run[q] = "running" THEN "aborted" ELSE run[q]]

(* answer: the entry of this id, if it is still there, is given the        *)
(* outcome; a send that throws drops the connection's other requests.      *)
Answer(r, by, what, stage) ==
    LET c == req[r].conn
        told == Holder(c, IdOf[r])
        gone == IF told # {} /\ Throws(c) THEN {c} ELSE {}
    IN  /\ Reaped(gone, beatIn)
        /\ req' = [q \in Requests |->
              IF q \in told THEN Says(q, by, IF Reaches(c) THEN what ELSE "lost")
              ELSE IF q \in Orphans(gone) THEN [req[q] EXCEPT !.stage = "dropped"] ELSE req[q]]
        /\ run' = [q \in Requests |->
              IF q = r THEN stage
              ELSE IF q \in Orphans(gone) /\ run[q] = "running" THEN "aborted" ELSE run[q]]

(* The dispatcher returns or throws.                                       *)
DispatcherEnds(r) == run[r] \in {"running", "aborted"} /\ Answer(r, r, "outcome", "over")

(* The timer answers, and tells the dispatcher to stop.                    *)
RequestTimesOut(r) ==
    /\ req[r].stage = "inFlight" /\ req[r].age >= RequestTimeout
    /\ Answer(r, Nobody, "timeout", "aborted")

-----------------------------------------------------------------------------
(* Sockets, and the clock, whose timers are on time.                       *)
SocketTurns(c, how) ==
    /\ c \in Attached /\ conn[c].socket \in {"open", "full"} /\ conn[c].socket # how
    /\ conn' = [conn EXCEPT ![c].socket = how]
    /\ UNCHANGED <<beatIn, req, run>>

Tick ==
    /\ beatIn # 0 /\ (beatIn # NoBeat)
    /\ \A r \in Requests : req[r].stage = "inFlight" => req[r].age < RequestTimeout
    /\ beatIn' = beatIn - 1
    /\ conn' = [c \in Connections |->
          IF c \in Attached THEN [conn[c] EXCEPT !.silent = @ + 1] ELSE conn[c]]
    /\ req' = [r \in Requests |->
          IF req[r].stage = "inFlight" THEN [req[r] EXCEPT !.age = @ + 1] ELSE req[r]]
    /\ UNCHANGED run

RegistryNext ==
    \/ \E c \in Connections, u \in Users : Attach(c, u) \/ AttachRefused(c, u)
    \/ \E c \in Connections : Opens(c) \/ Drop(c) \/ Receive(c)
    \/ \E c \in Connections, how \in {"open", "full", "broken"} : SocketTurns(c, how)
    \/ \E u \in Users : SendToUser(u)
    \/ Shutdown \/ Beat \/ Tick
    \/ \E r \in Requests, c \in Connections : ReceiveRequest(r, c) \/ RefusalThrows(r, c)
    \/ \E r \in Requests : DispatcherEnds(r) \/ RequestTimesOut(r)

RegistrySpec == RegistryInit /\ [][RegistryNext]_registryVars

(* Clocks go on, and timers fire.                                          *)
RegistryFairness ==
    /\ WF_registryVars(Tick) /\ WF_registryVars(Beat)
    /\ \A r \in Requests : WF_registryVars(RequestTimesOut(r))

FairRegistrySpec == RegistrySpec /\ RegistryFairness

-----------------------------------------------------------------------------
(* Connections, entries and dispatchers are well formed, and one interval  *)
(* runs for all connections as long as there are any.                      *)
RegistryTypeOK ==
    /\ conn \in [Connections ->
          [state : {"new", "attached", "gone"}, user : Users \cup {Nobody}, silent : Nat,
           socket : {"connecting", "open", "full", "broken", "closed"}]]
    /\ beatIn \in 0 .. Heartbeat \cup {NoBeat}
    /\ beatIn = NoBeat <=> Attached = {}
    /\ req \in [Requests ->
          [stage : {"new", "inFlight", "answered", "dropped"}, age : 0 .. RequestTimeout,
           conn : Connections \cup {Nobody}, by : Requests \cup {Nobody},
           answer : {"none", "outcome", "timeout", "refused", "lost"}]]
    /\ run \in [Requests -> {"none", "running", "aborted", "over"}]

(* "A half-open socket does not stay forever": whatever opens, closes and  *)
(* stops the one interval, no connection is silent for longer than the     *)
(* deadline and one more beat.                                             *)
SilentAreReaped == \A c \in Attached : conn[c].silent <= Liveness + Heartbeat

(* A request in flight is on a connection that is there, and the work for  *)
(* one that is answered "timeout" or whose connection is gone is told to   *)
(* stop.  The exception: a request that another one, of the same id,       *)
(* answered.                                                               *)
NoWorkForTheGone ==
    \A r \in Requests :
        /\ req[r].stage = "inFlight" => req[r].conn \in Attached /\ run[r] = "running"
        /\ run[r] = "running" => req[r].stage = "inFlight" \/ req[r].by \notin {r, Nobody}

(* An answer is of the request's own dispatcher, unless the client used    *)
(* the id again on this connection after a request that timed out.         *)
AnswersFit ==
    \A r \in Requests : req[r].by \notin {r, Nobody} =>
        LET q == req[r].by
        IN  IdOf[q] = IdOf[r] /\ req[q].conn = req[r].conn
            /\ req[q].answer \in {"timeout", "lost", "outcome"}

(* The promises of the registry together.                                  *)
RegistrySafe == SilentAreReaped /\ NoWorkForTheGone /\ AnswersFit

(* "Answer it exactly once": whatever is said about a request is not said  *)
(* again, however late its dispatcher ends.                                *)
AnsweredOnceStep ==
    \A r \in Requests : req[r].stage \in {"answered", "dropped"} => req'[r] = req[r]
AnsweredOnce == [][AnsweredOnceStep]_registryVars

(* Every request comes to an end: answered, refused, or dropped with its   *)
(* connection.                                                             *)
EveryRequestEnds == \A r \in Requests : req[r].stage = "inFlight" ~> req[r].stage # "inFlight"
=============================================================================
