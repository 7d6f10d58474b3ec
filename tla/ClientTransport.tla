--------------------------- MODULE ClientTransport ---------------------------
(***************************************************************************)
(* The reconnecting client of src/realtime/client-transport.ts: connect,   *)
(* stop and resume, the timers, the gate, calls, the sync handshake, and   *)
(* the chain of tasks in which hints are pulled before the cursor moves.   *)
(*                                                                         *)
(* A step is what runs between two awaits or events.  Delays are left out: *)
(* an armed timer may fire at any moment.  One group is enough; the peer   *)
(* and the app's pull are external.                                        *)
(***************************************************************************)
EXTENDS Integers, Sequences, FiniteSets

CONSTANTS
    TransportCalls, \* commands and queries
    Impatient,      \* the app may connect or resume while a reconnect is due, and
                    \* stop while one awaits its gate
    MaxCommits,     \* bound: the changes the server commits
    MaxTasks        \* bound: the tasks in the chain

ASSUME TransportAssumption ==
    /\ IsFiniteSet(TransportCalls) /\ Impatient \in BOOLEAN
    /\ MaxCommits \in Nat /\ MaxTasks \in Nat \ {0}

VARIABLES
    status, stopped,
    attempt,        \* #attempt > 0
    timer,          \* the armed timers of the connection
    sock,           \* the current socket, with both its ends
    chain,          \* #hintChain: the tasks, the running one first
    pending,        \* the commands and queries
    cursor,         \* the durable position of the group
    have,           \* what the pulls have brought
    seq             \* the latest change of the group on the server

positions == <<cursor, have, seq>>
transportVars == <<status, stopped, attempt, timer, sock, chain, pending, positions>>

NoSocket ==
    [state |-> "none", alive |-> FALSE, adopted |-> FALSE, hints |-> <<>>, carried |-> {},
     reconnect |-> FALSE, shake |-> "none", heard |-> FALSE, healthy |-> FALSE,
     failed |-> FALSE, between |-> FALSE]

NewSocket == [NoSocket EXCEPT !.state = "connecting", !.alive = TRUE]

Task(kind, s) == [kind |-> kind, seq |-> s, stage |-> "queued", read |-> 0]

Larger(x, y) == IF x < y THEN y ELSE x

TransportInit ==
    /\ status = "idle" /\ stopped = FALSE /\ attempt = FALSE /\ timer = {}
    /\ sock = NoSocket /\ chain = <<>>
    /\ pending = [c \in TransportCalls |-> "none"]
    /\ cursor = 0 /\ have = 0 /\ seq = 0

-----------------------------------------------------------------------------
(* Parts of the steps.                                                     *)
HasRoom == Len(chain) < MaxTasks
Enqueue(task) == chain' = Append(chain, task)

RejectAllPending ==
    pending' = [c \in TransportCalls |-> IF pending[c] = "waiting" THEN "lost" ELSE pending[c]]

(* scheduleReconnect, with these timers still armed.                       *)
ScheduleReconnect(left) ==
    IF stopped
    THEN status' = "stopped" /\ timer' = left /\ UNCHANGED attempt
    ELSE status' = "reconnecting" /\ timer' = left \cup {"reconnect"} /\ attempt' = TRUE

(* openSocket; the factory may throw.                                      *)
OpenSocket(left, tries, gone) ==
    \/ /\ sock.state \in {"connecting", "open"}
       /\ timer' = left /\ attempt' = tries
       /\ UNCHANGED <<status, sock>>
    \/ /\ sock.state \in {"none", "closed"}
       /\ status' = "connecting" /\ timer' = left \cup {"connect"} /\ attempt' = tries
       /\ sock' = NewSocket
    \/ /\ sock.state \in {"none", "closed"} /\ ~gone
       /\ status' = "reconnecting" /\ timer' = left \cup {"reconnect"} /\ attempt' = TRUE
       /\ UNCHANGED sock

(* Any frame is half of what proves a connection; the other is its age.    *)
Heard(s) == [s EXCEPT !.heard = TRUE]
TryResetBackoff(s) == attempt' = (attempt /\ ~(s.heard /\ s.healthy))

(* A reconnect is in the chain, queued or not; one awaits its gate.        *)
ReconnectDue == \E i \in DOMAIN chain : chain[i].kind = "reconnect"
AtGate == \E i \in DOMAIN chain : chain[i].stage = "gate"

-----------------------------------------------------------------------------
(* What the app calls.                                                     *)
Connect ==
    /\ status \notin {"connecting", "open"} /\ (Impatient \/ ~ReconnectDue)
    /\ stopped' = FALSE
    /\ OpenSocket(timer \ {"reconnect"}, FALSE, FALSE)
    /\ UNCHANGED <<chain, pending, positions>>

StopTransport ==
    /\ Impatient \/ ~AtGate
    /\ stopped' = TRUE /\ status' = "stopped" /\ timer' = {} /\ sock' = NoSocket
    /\ RejectAllPending
    /\ UNCHANGED <<attempt, chain, positions>>

Ping == IF status = "open" THEN timer' = timer \cup {"pong"} ELSE UNCHANGED timer

ResumeReconnecting ==
    /\ status = "reconnecting" /\ HasRoom /\ (Impatient \/ ~ReconnectDue)
    /\ timer' = timer \ {"reconnect"}
    /\ Enqueue(Task("reconnect", 0))
    /\ UNCHANGED <<status, stopped, attempt, sock, pending, positions>>

ResumeConnecting ==
    /\ status = "connecting" /\ HasRoom /\ (Impatient \/ ~ReconnectDue)
    /\ timer' = timer \ {"connect"} /\ sock' = NoSocket /\ status' = "reconnecting"
    /\ Enqueue(Task("reconnect", 0))
    /\ UNCHANGED <<stopped, attempt, pending, positions>>

ResumeOpen ==
    /\ status = "open"
    /\ Ping
    /\ UNCHANGED <<status, stopped, attempt, sock, chain, pending, positions>>

(* command and query: on an open socket only.                              *)
Call(c) ==
    /\ pending[c] = "none"
    /\ \/ /\ sock.state = "open"
          /\ pending' = [pending EXCEPT ![c] = "waiting"]
          /\ sock' = [sock EXCEPT !.carried = @ \cup {c}]
       \/ /\ sock.state # "open"
          /\ pending' = [pending EXCEPT ![c] = "lost"]
          /\ UNCHANGED sock
    /\ UNCHANGED <<status, stopped, attempt, timer, chain, positions>>

CallTimeout(c) ==
    /\ pending[c] = "waiting"
    /\ pending' = [pending EXCEPT ![c] = "timed out"]
    /\ UNCHANGED <<status, stopped, attempt, timer, sock, chain, positions>>

-----------------------------------------------------------------------------
(* The socket's events.                                                    *)
HandleOpen ==
    /\ sock.state = "connecting" /\ sock.alive /\ (attempt => HasRoom)
    /\ sock' = [sock EXCEPT !.state = "open", !.reconnect = attempt, !.shake = "reading"]
    /\ timer' = (timer \ {"connect"}) \cup {"heartbeat", "healthy"}
    /\ status' = "open"
    /\ IF attempt THEN Enqueue(Task("held", 0)) ELSE UNCHANGED chain
    /\ UNCHANGED <<stopped, attempt, pending, positions>>

HandleClose ==
    /\ sock.state = "closed"
    /\ sock' = NoSocket
    /\ RejectAllPending
    /\ ScheduleReconnect({})
    /\ UNCHANGED <<stopped, chain, positions>>

HintArrives ==
    /\ sock.state = "open" /\ sock.alive /\ sock.hints # <<>> /\ HasRoom
    /\ sock' = [Heard(sock) EXCEPT !.hints = Tail(@)]
    /\ TryResetBackoff(sock')
    /\ Enqueue(Task("hint", Head(sock.hints)))
    /\ UNCHANGED <<status, stopped, timer, pending, positions>>

PongArrives ==
    /\ sock.state = "open" /\ sock.alive /\ "pong" \in timer
    /\ sock' = Heard(sock) /\ TryResetBackoff(sock')
    /\ timer' = timer \ {"pong"}
    /\ UNCHANGED <<status, stopped, chain, pending, positions>>

(* server.result or server.error.                                          *)
ResultArrives(c) ==
    /\ sock.state = "open" /\ sock.alive /\ c \in sock.carried
    /\ sock' = [Heard(sock) EXCEPT !.carried = @ \ {c}] /\ TryResetBackoff(sock')
    /\ pending' = [pending EXCEPT ![c] = IF @ = "waiting" THEN "answered" ELSE @]
    /\ UNCHANGED <<status, stopped, timer, chain, positions>>

(* The timers.                                                             *)
HeartbeatFires ==
    /\ "heartbeat" \in timer
    /\ Ping
    /\ UNCHANGED <<status, stopped, attempt, sock, chain, pending, positions>>

HandlePongTimeout ==
    /\ "pong" \in timer
    /\ IF sock = NoSocket
       THEN timer' = timer \ {"pong"} /\ UNCHANGED <<status, attempt, pending>>
       ELSE RejectAllPending /\ ScheduleReconnect({})
    /\ sock' = NoSocket
    /\ UNCHANGED <<stopped, chain, positions>>

HandleConnectTimeout ==
    /\ "connect" \in timer /\ sock.state \in {"connecting", "closed"}
    /\ sock' = NoSocket
    /\ ScheduleReconnect(timer \ {"connect"})
    /\ UNCHANGED <<stopped, chain, pending, positions>>

HealthyFires ==
    /\ "healthy" \in timer
    /\ sock' = [sock EXCEPT !.healthy = TRUE] /\ TryResetBackoff(sock')
    /\ timer' = timer \ {"healthy"}
    /\ UNCHANGED <<status, stopped, chain, pending, positions>>

ReconnectFires ==
    /\ "reconnect" \in timer /\ HasRoom
    /\ timer' = timer \ {"reconnect"}
    /\ Enqueue(Task("reconnect", 0))
    /\ UNCHANGED <<status, stopped, attempt, sock, pending, positions>>

-----------------------------------------------------------------------------
HandshakeEnds_NoPull == UNCHANGED <<status, stopped, timer, chain, pending, positions>>

(* The handshake.  Its outcome also starts the pull of a first open.       *)
HandshakeEnds ==
    /\ IF ~sock.reconnect /\ ~stopped /\ sock.state = "open"
       THEN HasRoom /\ Enqueue(Task("held", 0)) ELSE UNCHANGED chain
    /\ UNCHANGED <<status, stopped, timer, pending, positions>>

HandshakeSent ==
    /\ sock.shake = "reading" /\ sock.state = "open"
    /\ sock' = [sock EXCEPT !.shake = "sent"]
    /\ UNCHANGED <<status, stopped, attempt, timer, chain, pending, positions>>

HandshakeAcknowledged ==
    /\ sock.shake = "sent" /\ sock.state = "open" /\ sock.alive /\ sock.adopted
    /\ sock' = [Heard(sock) EXCEPT !.shake = "over"] /\ TryResetBackoff(sock')
    /\ HandshakeEnds

(* The last attempt timed out, or the socket cannot send any more.         *)
HandshakeFails ==
    /\ \/ sock.shake = "sent"
       \/ sock.shake = "reading" /\ sock.state = "closed"
    /\ sock' = [sock EXCEPT !.shake = "over"]
    /\ HandshakeEnds
    /\ UNCHANGED attempt

-----------------------------------------------------------------------------
(* The chain: the first task runs, and the next begins when it is done.    *)
AtHead(kind, stage) ==
    chain # <<>> /\ Head(chain).kind = kind /\ Head(chain).stage = stage

Stage(stage) == chain' = [chain EXCEPT ![1].stage = stage]
TaskEnds == chain' = Tail(chain)

ReconnectBegins_Unchecked ==
    /\ AtHead("reconnect", "queued")
    /\ Stage("gate")
    /\ UNCHANGED <<status, stopped, attempt, timer, sock, pending, positions>>

ReconnectBegins ==
    /\ AtHead("reconnect", "queued")
    /\ IF stopped THEN TaskEnds ELSE Stage("gate")
    /\ UNCHANGED <<status, stopped, attempt, timer, sock, pending, positions>>

GateAllows ==
    /\ AtHead("reconnect", "gate")
    /\ TaskEnds
    /\ OpenSocket(timer, attempt, stopped)
    /\ UNCHANGED <<stopped, pending, positions>>

GateRefuses ==
    /\ AtHead("reconnect", "gate")
    /\ TaskEnds
    /\ stopped' = TRUE /\ status' = "stopped"
    /\ UNCHANGED <<attempt, timer, sock, pending, positions>>

GateThrows_Silent ==
    /\ AtHead("reconnect", "gate")
    /\ TaskEnds
    /\ UNCHANGED <<status, stopped, attempt, timer, sock, pending, positions>>

GateThrows ==
    /\ AtHead("reconnect", "gate")
    /\ TaskEnds
    /\ ScheduleReconnect(timer)
    /\ UNCHANGED <<stopped, sock, pending, positions>>

(* applyHint and pullHeldCursors, up to the pull.                          *)
PullBegins ==
    /\ \/ AtHead("held", "queued")
       \/ AtHead("hint", "queued") /\ Head(chain).seq > cursor
    /\ Stage("pulling")
    /\ UNCHANGED <<status, stopped, attempt, timer, sock, pending, positions>>

HintIsOld ==
    /\ AtHead("hint", "queued") /\ Head(chain).seq <= cursor
    /\ TaskEnds
    /\ UNCHANGED <<status, stopped, attempt, timer, sock, pending, positions>>

(* The server answers the pull with what it has at that moment.            *)
PullReads ==
    /\ chain # <<>> /\ Head(chain).stage = "pulling"
    /\ chain' = [chain EXCEPT ![1].stage = "read", ![1].read = seq]
    /\ UNCHANGED <<status, stopped, attempt, timer, sock, pending, positions>>

(* The app keeps what it pulled, and may record the position it pulled to. *)
PullReturns ==
    /\ chain # <<>> /\ Head(chain).stage = "read"
    /\ have' = Larger(have, Head(chain).read)
    /\ cursor' \in {cursor, Larger(cursor, Head(chain).read)}
    /\ IF Head(chain).kind = "hint" THEN Stage("apply") ELSE TaskEnds
    /\ UNCHANGED <<status, stopped, attempt, timer, sock, pending, seq>>

PullFails ==
    /\ chain # <<>> /\ Head(chain).stage \in {"pulling", "read"}
    /\ TaskEnds
    /\ sock' = IF sock = NoSocket THEN sock ELSE [sock EXCEPT !.failed = TRUE]
    /\ UNCHANGED <<status, stopped, attempt, timer, pending, positions>>

(* cursors.apply moves the position by one only; a gap stays.              *)
HintApplied ==
    /\ chain # <<>> /\ Head(chain).stage = "apply"
    /\ cursor' = IF Head(chain).seq = cursor + 1 THEN Head(chain).seq ELSE cursor
    /\ TaskEnds
    /\ UNCHANGED <<status, stopped, attempt, timer, sock, pending, have, seq>>

-----------------------------------------------------------------------------
(* The peer and the network.  The server sends hints to a socket it has    *)
(* adopted, and acknowledges a handshake after that.                       *)
Adopt ==
    /\ sock.state \in {"connecting", "open"} /\ sock.alive /\ ~sock.adopted
    /\ sock' = [sock EXCEPT !.adopted = TRUE]
    /\ UNCHANGED <<status, stopped, attempt, timer, chain, pending, positions>>

ServerChanges ==
    /\ seq < MaxCommits
    /\ seq' = seq + 1
    /\ sock' = IF sock.adopted THEN [sock EXCEPT !.hints = Append(@, seq + 1)]
               ELSE [sock EXCEPT !.between = @ \/ sock.reconnect \/ sock.shake = "over"]
    /\ UNCHANGED <<status, stopped, attempt, timer, chain, pending, cursor, have>>

(* The socket closes; its event comes later.                               *)
SocketDrops ==
    /\ sock.state \in {"connecting", "open"}
    /\ sock' = [sock EXCEPT !.state = "closed", !.hints = <<>>]
    /\ UNCHANGED <<status, stopped, attempt, timer, chain, pending, positions>>

(* The connection dies, and nobody is told.                                *)
SocketDies ==
    /\ sock.alive
    /\ sock' = [sock EXCEPT !.alive = FALSE, !.hints = <<>>]
    /\ UNCHANGED <<status, stopped, attempt, timer, chain, pending, positions>>

-----------------------------------------------------------------------------
AppSteps ==
    \/ Connect \/ StopTransport \/ ResumeReconnecting \/ ResumeConnecting \/ ResumeOpen
    \/ \E c \in TransportCalls : Call(c)

Arrives ==
    \/ HandleOpen \/ HandleClose \/ HintArrives \/ PongArrives \/ HandshakeAcknowledged
    \/ \E c \in TransportCalls : ResultArrives(c)

TimerFires ==
    \/ HeartbeatFires \/ HandlePongTimeout \/ HandleConnectTimeout \/ HealthyFires
    \/ ReconnectFires
    \/ \E c \in TransportCalls : CallTimeout(c)

TaskStep ==
    \/ ReconnectBegins \/ GateAllows \/ GateRefuses \/ GateThrows
    \/ PullBegins \/ HintIsOld \/ PullReads \/ PullReturns \/ PullFails \/ HintApplied

Peer == Adopt \/ ServerChanges \/ SocketDrops \/ SocketDies

TransportNext ==
    \/ AppSteps \/ Arrives \/ TimerFires \/ TaskStep \/ Peer
    \/ HandshakeSent \/ HandshakeFails

TransportSpec == TransportInit /\ [][TransportNext]_transportVars

(* Timers fire, the port `pull` and the gate settle, close events come.    *)
TransportFairness ==
    /\ WF_transportVars(HandleClose) /\ WF_transportVars(HandlePongTimeout)
    /\ WF_transportVars(HandleConnectTimeout) /\ WF_transportVars(HeartbeatFires)
    /\ WF_transportVars(ReconnectFires) /\ WF_transportVars(TaskStep)

TransportFairSpec == TransportSpec /\ TransportFairness

-----------------------------------------------------------------------------
Sockets ==
    [state : {"none", "connecting", "open", "closed"}, alive : BOOLEAN, adopted : BOOLEAN,
     hints : Seq(1 .. MaxCommits), carried : SUBSET TransportCalls, reconnect : BOOLEAN,
     shake : {"none", "reading", "sent", "over"}, heard : BOOLEAN, healthy : BOOLEAN,
     failed : BOOLEAN, between : BOOLEAN]

Tasks ==
    [kind : {"reconnect", "held", "hint"}, seq : 0 .. MaxCommits, read : 0 .. MaxCommits,
     stage : {"queued", "gate", "pulling", "read", "apply"}]

(* Statuses, timers, the socket, tasks and positions are well formed.      *)
TransportTypeOK ==
    /\ status \in {"idle", "connecting", "open", "reconnecting", "stopped"}
    /\ stopped \in BOOLEAN /\ attempt \in BOOLEAN
    /\ timer \subseteq {"connect", "reconnect", "heartbeat", "pong", "healthy"}
    /\ sock \in Sockets
    /\ chain \in Seq(Tasks) /\ Len(chain) <= MaxTasks
    /\ pending \in [TransportCalls -> {"none", "waiting", "answered", "lost", "timed out"}]
    /\ {cursor, have, seq} \subseteq 0 .. MaxCommits

(* No call outlives its socket: it is rejected with it, or it "would hang  *)
(* until its timeout".                                                     *)
NoCallHangs == \A c \in TransportCalls : pending[c] = "waiting" => c \in sock.carried

(* "The durable position moves only once a fetch has succeeded", whatever  *)
(* hints, pulls that fail and reconnects come in between.                  *)
CursorBacked == cursor <= have

(* The status is what the socket, the timers and the chain say: open while *)
(* a socket is, reconnecting while an attempt is still to come, stopped    *)
(* with nothing left behind.                                               *)
StatusIsTrue ==
    /\ sock.state = "open" => status = "open"
    /\ status = "open" => sock.state \in {"open", "closed"} /\ "heartbeat" \in timer
    /\ status = "connecting" => sock # NoSocket /\ "connect" \in timer
    /\ status = "reconnecting" => "reconnect" \in timer \/ ReconnectDue
    /\ status \in {"idle", "stopped"} => sock = NoSocket /\ timer = {}

(* "A transport that was never started or has stopped stays so": nothing   *)
(* that was under way opens a socket or arms a timer again.                *)
StopIsFinal == stopped => sock = NoSocket /\ timer = {}

Quiet ==
    /\ sock.state = "open" /\ sock.alive /\ sock.adopted /\ sock.shake = "over"
    /\ sock.hints = <<>> /\ chain = <<>>

(* A connection at rest has brought every change, unless a pull failed, or *)
(* the server adopted a reconnected socket after a change that the pull at *)
(* its open could no longer see.                                           *)
NothingMissed == Quiet /\ ~sock.failed => have = seq \/ sock.between

(* No call outlives its socket, the durable position moves only behind     *)
(* what was fetched, the status is what socket, timers and chain say, a    *)
(* stop stays one though a reconnect was queued, and a connection at rest  *)
(* has brought every change.                                               *)
TransportSafe ==
    NoCallHangs /\ CursorBacked /\ StatusIsTrue /\ StopIsFinal /\ NothingMissed

(* A socket that died silently is found, by ping or by its own timeout.    *)
DeadIsFound == sock # NoSocket /\ ~sock.alive ~> sock = NoSocket \/ sock.alive

(* While reconnecting, the gate is asked again and again: no attempt is    *)
(* lost to a pull that fails, a resume or a timer that was cleared.        *)
ReconnectGoesOn == status = "reconnecting" ~> status # "reconnecting" \/ AtHead("reconnect", "gate")
=============================================================================
