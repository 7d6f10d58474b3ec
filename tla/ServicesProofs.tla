--------------------------- MODULE ServicesProofs ---------------------------
(***************************************************************************)
(* Proofs about services of the server: the claims on a key (Idempotency), *)
(* for any number of requests, polls and tries and any lease and           *)
(* retention; the connection to the key-value store (KvStore), for any     *)
(* calls and any number of connections and breaks; the quota (Quota), for  *)
(* any finite set of calls and any limits; the addresses of a mailing list *)
(* (Subscribers), for any calls and any life of a link; the throttled      *)
(* saver (Saver), for any calls of flush, any number of marks and failures *)
(* and any window and batch.                                               *)
(***************************************************************************)
EXTENDS Idempotency, KvStore, Quota, Subscribers, Saver, FiniteSetTheorems, TLAPS

Errors == {"none", "broken", "timeout"}
Conns == [open : BOOLEAN, link : BOOLEAN, error : Errors]
CallStages == {"idle", "sent", "reconnecting", "resuming", "done", "failed"}
StoreCall == [pc : CallStages, on : Ids, sends : Nat, reconnects : Nat, frozen : BOOLEAN]

(* One connection at most is being opened, the newest, and it is not in    *)
(* use; who waits for a reconnect waits for that one.                      *)
ShapeInv ==
    /\ conns \in [Ids -> Conns] /\ calls \in [StoreCalls -> StoreCall]
    /\ current \in Ids /\ last \in Ids /\ current <= last /\ closed \in BOOLEAN
    /\ opening = {} \/ (opening = {last} /\ last # current)
    /\ \A c \in StoreCalls : calls[c].pc = "reconnecting" => opening # {}

(* Sockets: as NoneLeaks, and a closed store has closed the one in use.    *)
SocketInv ==
    /\ \A i \in Ids : conns[i].open => i = current \/ i \in opening
    /\ closed => ~conns[current].open

(* An error is recorded only on a connection that does not work, and a     *)
(* connection is replaced only once an error is recorded on it.            *)
BlameInv ==
    /\ \A i \in Ids : conns[i].error # "none" => ~(conns[i].open /\ conns[i].link)
    /\ opening # {} => conns[current].error # "none"

(* What a call has spent where it stands.                                  *)
Spent(x) ==
    /\ x.sends <= 2 /\ x.reconnects <= 1
    /\ x.pc = "idle" => x.sends = 0 /\ x.reconnects = 0
    /\ x.pc \in {"reconnecting", "resuming"} => x.sends <= 1
    /\ x.frozen => x.pc = "failed"

StoreInv == ShapeInv /\ SocketInv /\ BlameInv /\ \A c \in StoreCalls : Spent(calls[c])

(* Connections after something went wrong with them, and nothing healed.   *)
Worse(cs) ==
    /\ cs \in [Ids -> Conns]
    /\ \A i \in Ids :
          /\ cs[i].open => conns[i].open
          /\ conns[i].error # "none" => cs[i].error # "none"
          /\ cs[i].error # "none" => ~(cs[i].open /\ cs[i].link)

LEMMA StoreStarts == StoreInit => StoreInv
<1>1. ASSUME StoreInit PROVE ShapeInv
  <2>1. 1 \in Ids /\ Fresh \in Conns /\ Unused \in Conns
    BY KvStoreAssumption DEF Ids, Fresh, Unused, Conns, Errors
  <2>2. [pc |-> "idle", on |-> 1, sends |-> 0, reconnects |-> 0, frozen |-> FALSE] \in StoreCall
    BY <2>1 DEF StoreCall, CallStages
  <2>3. conns \in [Ids -> Conns] /\ calls \in [StoreCalls -> StoreCall]
    BY <1>1, <2>1, <2>2 DEF StoreInit
  <2>4. \A c \in StoreCalls : calls[c].pc = "idle"
    BY <1>1 DEF StoreInit
  <2>5. current = 1 /\ last = 1 /\ opening = {} /\ closed = FALSE
    BY <1>1 DEF StoreInit
  <2>6. current <= last
    BY <2>5
  <2>9. closed \in BOOLEAN
    BY <2>5, Zenon
  <2>7. \A c \in StoreCalls : calls[c].pc # "reconnecting"
    BY <2>4
  <2>8. current \in Ids /\ last \in Ids
    BY <2>1, <2>5
  <2>. QED
    BY <2>3, <2>5, <2>6, <2>7, <2>8, <2>9 DEF ShapeInv
<1>2. ASSUME StoreInit PROVE SocketInv /\ BlameInv
  BY <1>2 DEF StoreInit, SocketInv, BlameInv, Fresh, Unused
<1>3. ASSUME StoreInit, NEW c \in StoreCalls PROVE Spent(calls[c])
  BY <1>3 DEF StoreInit, Spent
<1>. QED
  BY <1>1, <1>2, <1>3 DEF StoreInv

(* A call whose command is sent once more.                                 *)
LEMMA SentCall ==
    ASSUME NEW x \in StoreCall, current \in Ids
    PROVE  /\ Sent(x) \in StoreCall /\ Sent(x).pc = "sent"
           /\ Sent(x).sends = x.sends + 1 /\ Sent(x).reconnects = x.reconnects
           /\ Sent(x).frozen = x.frozen
<1>. DEFINE n == x.sends + 1
<1>1. n \in Nat
  BY DEF StoreCall
<1>2. Sent(x) = [x EXCEPT !.pc = "sent", !.on = current, !.sends = n]
  BY DEF Sent
<1>. HIDE DEF n
<1>3. /\ Sent(x) \in StoreCall /\ Sent(x).pc = "sent" /\ Sent(x).sends = n
      /\ Sent(x).reconnects = x.reconnects /\ Sent(x).frozen = x.frozen
  BY <1>1, <1>2 DEF StoreCall, CallStages
<1>. QED
  BY <1>3 DEF n

LEMMA WaitingCall ==
    ASSUME NEW x \in StoreCall, x.reconnects = 0
    PROVE  LET next == [x EXCEPT !.pc = "reconnecting", !.reconnects = @ + 1]
           IN  /\ next \in StoreCall /\ next.pc = "reconnecting" /\ next.sends = x.sends
               /\ next.reconnects = 1 /\ next.frozen = x.frozen
<1>. DEFINE n == x.reconnects + 1
            next == [x EXCEPT !.pc = "reconnecting", !.reconnects = n]
<1>1. n = 1
  OBVIOUS
<1>. HIDE DEF n
<1>2. /\ next \in StoreCall /\ next.pc = "reconnecting" /\ next.sends = x.sends
      /\ next.reconnects = 1 /\ next.frozen = x.frozen
  BY <1>1 DEF StoreCall, CallStages
<1>. QED
  BY <1>2 DEF n

(* A call that may still be sent is sent, or waits for a reconnect.        *)
LEMMA Reconnecting ==
    ASSUME StoreInv, NEW c \in StoreCalls, NEW x \in StoreCall, NEW cs, Worse(cs),
           x.sends <= 1, x.reconnects = 0, ~x.frozen,
           ~closed, ReconnectIfDead(c, x, cs), UNCHANGED <<current, closed>>
    PROVE  StoreInv'
<1>. DEFINE next == calls'[c]
<1>1. /\ conns \in [Ids -> Conns] /\ calls \in [StoreCalls -> StoreCall]
      /\ current \in Ids /\ last \in Ids /\ current <= last
      /\ current' = current /\ closed' = closed /\ ~closed
      /\ cs \in [Ids -> Conns]
  BY DEF StoreInv, ShapeInv, Worse
<1>2. /\ calls' \in [StoreCalls -> StoreCall]
      /\ \A d \in StoreCalls \ {c} : calls'[d] = calls[d]
      /\ Spent(next)
  <2>1. x.sends \in 0 .. 1 /\ x.reconnects \in Nat
    BY DEF StoreCall
  <2>2. CASE calls' = [calls EXCEPT ![c] = Sent(x)]
    <3>1. /\ Sent(x) \in StoreCall /\ Sent(x).pc = "sent"
          /\ Sent(x).sends = x.sends + 1 /\ Sent(x).reconnects = x.reconnects
          /\ ~Sent(x).frozen
      BY <1>1, SentCall
    <3>. QED
      BY <1>1, <2>1, <2>2, <3>1 DEF Spent
  <2>3. CASE calls' = [calls EXCEPT ![c] = [x EXCEPT !.pc = "reconnecting",
                                                        !.reconnects = @ + 1]]
    <3>. DEFINE w == [x EXCEPT !.pc = "reconnecting", !.reconnects = @ + 1]
    <3>1. /\ w \in StoreCall /\ w.pc = "reconnecting" /\ w.sends = x.sends
          /\ w.reconnects = 1 /\ ~w.frozen
      BY WaitingCall
    <3>. HIDE DEF w
    <3>2. calls' = [calls EXCEPT ![c] = w]
      BY <2>3 DEF w
    <3>. QED
      BY <1>1, <2>1, <3>1, <3>2 DEF Spent
  <2>. QED
    BY <2>2, <2>3 DEF ReconnectIfDead
<1>3. \A d \in StoreCalls : Spent(calls'[d])
  BY <1>2 DEF StoreInv
<1>4. CASE cs[current].error = "none" /\ conns' = cs /\ UNCHANGED <<opening, last>>
            /\ calls' = [calls EXCEPT ![c] = Sent(x)]
  <2>1. calls'[c].pc = "sent"
    BY <1>1, <1>4 DEF Sent, StoreCall
  <2>2. ShapeInv'
    BY <1>1, <1>2, <1>4, <2>1 DEF StoreInv, ShapeInv
  <2>3. SocketInv' /\ BlameInv'
    BY <1>1, <1>4 DEF StoreInv, SocketInv, BlameInv, Worse
  <2>. QED
    BY <1>3, <2>2, <2>3 DEF StoreInv
<1>5. CASE cs[current].error # "none" /\ opening # {} /\ conns' = cs /\ UNCHANGED <<opening, last>>
  <2>1. ShapeInv'
    BY <1>1, <1>2, <1>5 DEF StoreInv, ShapeInv
  <2>2. SocketInv' /\ BlameInv'
    BY <1>1, <1>5 DEF StoreInv, SocketInv, BlameInv, Worse
  <2>. QED
    BY <1>3, <2>1, <2>2 DEF StoreInv
<1>6. CASE /\ cs[current].error # "none" /\ opening = {} /\ last < MaxConnections
           /\ last' = last + 1 /\ opening' = opening \union {last + 1}
           /\ conns' = [cs EXCEPT ![last + 1] = Fresh]
  <2>1. last + 1 \in Ids /\ last + 1 # current /\ last \in Int /\ current \in Int
    BY <1>1, <1>6, KvStoreAssumption DEF Ids
  <2>2. opening' = {last'} /\ last' \in Ids /\ last' # current' /\ current' <= last'
    BY <1>1, <1>6, <2>1
  <2>3. conns' \in [Ids -> Conns]
    BY <1>1, <1>6, <2>1 DEF Fresh, Conns, Errors
  <2>4. ShapeInv'
    BY <1>1, <1>2, <1>6, <2>2, <2>3 DEF StoreInv, ShapeInv
  <2>5. conns'[last'] = Fresh /\ \A i \in Ids : i # last' => conns'[i] = cs[i]
    BY <1>1, <1>6, <2>1
  <2>6. SocketInv'
    BY <1>1, <1>6, <2>2, <2>5 DEF StoreInv, SocketInv, Worse
  <2>7. BlameInv'
    BY <1>1, <1>6, <2>2, <2>5 DEF StoreInv, BlameInv, Worse, Fresh
  <2>. QED
    BY <1>3, <2>4, <2>6, <2>7 DEF StoreInv
<1>. QED
  BY <1>4, <1>5, <1>6 DEF ReconnectIfDead, Joins

(* A call that ends changes nothing else but what went wrong.              *)
LEMMA Ending ==
    ASSUME StoreInv, NEW c \in StoreCalls, NEW next \in StoreCall, NEW cs, Worse(cs),
           next.pc \in {"done", "failed"}, Spent(next),
           calls' = [calls EXCEPT ![c] = next], conns' = cs,
           UNCHANGED <<current, opening, last, closed>>
    PROVE  StoreInv'
<1>1. /\ calls' \in [StoreCalls -> StoreCall]
      /\ \A d \in StoreCalls : calls'[d] = IF d = c THEN next ELSE calls[d]
  BY DEF StoreInv, ShapeInv
<1>2. ShapeInv'
  BY <1>1 DEF StoreInv, ShapeInv, Worse
<1>3. SocketInv' /\ BlameInv'
  BY DEF StoreInv, ShapeInv, SocketInv, BlameInv, Worse
<1>. QED
  BY <1>1, <1>2, <1>3 DEF StoreInv

LEMMA SameIsWorse == StoreInv => Worse(conns)
BY DEF StoreInv, ShapeInv, BlameInv, Worse

(* What a failure records on a connection that does not work, or that is   *)
(* closed with it.                                                         *)
LEMMA RecordedIsWorse ==
    ASSUME StoreInv, NEW c \in StoreCalls, NEW error \in Errors \ {"none"}
    PROVE  LET on == calls[c].on
               seen == Recorded(calls[c], error)
           IN  /\ on \in Ids
               /\ seen \in [Ids -> Conns] /\ seen[on].error # "none"
               /\ seen[on].error = IF conns[on].error = "none" THEN error ELSE conns[on].error
               /\ seen[on].open = conns[on].open /\ seen[on].link = conns[on].link
               /\ \A i \in Ids \ {on} : seen[i] = conns[i]
               /\ ~(conns[on].open /\ conns[on].link) => Worse(seen)
               /\ Worse([seen EXCEPT ![on].open = FALSE])
               /\ [seen EXCEPT ![on].open = FALSE][on].error = seen[on].error
<1>. DEFINE on == calls[c].on
            seen == Recorded(calls[c], error)
            shut == [seen EXCEPT ![on].open = FALSE]
<1>1. on \in Ids /\ conns \in [Ids -> Conns] /\ conns[on] \in Conns
  BY DEF StoreInv, ShapeInv, StoreCall
<1>2. seen = [conns EXCEPT ![on] =
                 [conns[on] EXCEPT !.error = IF conns[on].error = "none" THEN error
                                             ELSE conns[on].error]]
  BY <1>1 DEF Recorded, Blamed, Conns
<1>3. /\ seen[on] \in Conns /\ seen[on].error # "none"
      /\ seen[on].error = IF conns[on].error = "none" THEN error ELSE conns[on].error
      /\ seen[on].open = conns[on].open /\ seen[on].link = conns[on].link
      /\ \A i \in Ids \ {on} : seen[i] = conns[i]
      /\ seen \in [Ids -> Conns]
  BY <1>1, <1>2 DEF Conns, Errors
<1>4. /\ shut \in [Ids -> Conns] /\ ~shut[on].open /\ shut[on].error = seen[on].error
      /\ \A i \in Ids \ {on} : shut[i] = conns[i]
  BY <1>1, <1>3 DEF Conns
<1>5. \A i \in Ids : conns[i].error # "none" => ~(conns[i].open /\ conns[i].link)
  BY DEF StoreInv, BlameInv
<1>6. ~(conns[on].open /\ conns[on].link) => Worse(seen)
  BY <1>1, <1>3, <1>5 DEF Worse
<1>7. Worse(shut)
  BY <1>1, <1>3, <1>4, <1>5 DEF Worse
<1>. HIDE DEF on, seen, shut
<1>. QED
  BY <1>1, <1>3, <1>4, <1>6, <1>7 DEF on, seen, shut

LEMMA SendFailing ==
    ASSUME StoreInv, NEW c \in StoreCalls, NEW x \in StoreCall, NEW cs, Worse(cs),
           calls[c].pc = "sent", x.pc = "sent",
           x.sends = calls[c].sends, x.reconnects = calls[c].reconnects,
           x.frozen => cs[x.on].error = "timeout",
           SendFailed(c, x, cs), UNCHANGED <<current, closed>>
    PROVE  StoreInv'
<1>1. CASE Resends(x, cs) /\ ReconnectIfDead(c, x, cs)
  BY <1>1, Reconnecting DEF Resends, StoreCall
<1>2. CASE /\ ~Resends(x, cs) /\ conns' = cs /\ UNCHANGED <<opening, last>>
           /\ calls' = [calls EXCEPT ![c] = [x EXCEPT !.pc = "failed"]]
  <2>. DEFINE next == [x EXCEPT !.pc = "failed"]
  <2>1. Spent(calls[c])
    BY DEF StoreInv
  <2>2. next \in StoreCall /\ next.pc = "failed" /\ Spent(next)
    BY <2>1 DEF StoreCall, CallStages, Spent
  <2>. QED
    BY <1>2, <2>2, Ending
<1>. QED
  BY <1>1, <1>2 DEF SendFailed

(* The end of a reconnect is heard by all who waited for it.               *)
LEMMA Telling ==
    ASSUME StoreInv, NEW outcome \in {"resuming", "failed"}, calls' = Told(outcome)
    PROVE  /\ calls' \in [StoreCalls -> StoreCall]
           /\ \A c \in StoreCalls : calls'[c].pc # "reconnecting" /\ Spent(calls'[c])
<1>. SUFFICES ASSUME NEW c \in StoreCalls
              PROVE  /\ calls'[c] \in StoreCall /\ calls'[c].pc # "reconnecting"
                     /\ Spent(calls'[c])
  BY DEF Told
<1>1. calls[c] \in StoreCall /\ Spent(calls[c])
  BY DEF StoreInv, ShapeInv
<1>2. CASE calls[c].pc = "reconnecting"
  <2>. DEFINE next == [calls[c] EXCEPT !.pc = outcome]
  <2>1. calls'[c] = next
    BY <1>2 DEF Told
  <2>2. /\ next \in StoreCall /\ next.pc = outcome /\ next.sends = calls[c].sends
        /\ next.reconnects = calls[c].reconnects /\ next.frozen = calls[c].frozen
    BY <1>1 DEF StoreCall, CallStages
  <2>. HIDE DEF next
  <2>. QED
    BY <1>1, <1>2, <2>1, <2>2 DEF Spent
<1>3. CASE calls[c].pc # "reconnecting"
  BY <1>1, <1>3 DEF Told
<1>. QED
  BY <1>2, <1>3

LEMMA StoreSteps == StoreInv /\ [StoreNext]_storeVars => StoreInv'
<1>. SUFFICES ASSUME StoreInv, [StoreNext]_storeVars PROVE StoreInv'
  OBVIOUS
<1>. USE SameIsWorse
<1>0. /\ conns \in [Ids -> Conns] /\ calls \in [StoreCalls -> StoreCall]
      /\ current \in Ids /\ last \in Ids /\ closed \in BOOLEAN
      /\ \A c \in StoreCalls : calls[c] \in StoreCall /\ Spent(calls[c])
  BY DEF StoreInv, ShapeInv
<1>1. ASSUME NEW c \in StoreCalls, Send(c) PROVE StoreInv'
  <2>1. CASE closed
    <3>1. calls[c].sends = 0 /\ calls[c].reconnects = 0 /\ ~calls[c].frozen
      BY <1>0, <1>1 DEF Send, Spent
    <3>. DEFINE next == [calls[c] EXCEPT !.pc = "failed"]
    <3>2. next \in StoreCall /\ next.pc = "failed" /\ Spent(next)
      BY <1>0, <3>1 DEF StoreCall, CallStages, Spent
    <3>3. calls' = [calls EXCEPT ![c] = next] /\ UNCHANGED <<conns, current, opening, last, closed>>
      BY <1>1, <2>1 DEF Send
    <3>. QED
      BY <3>2, <3>3, Ending
  <2>2. CASE ~closed /\ ReconnectIfDead(c, calls[c], conns)
    <3>1. calls[c].sends = 0 /\ calls[c].reconnects = 0 /\ ~calls[c].frozen
      BY <1>0, <1>1 DEF Send, Spent
    <3>. QED
      BY <1>0, <1>1, <2>2, <3>1, Reconnecting DEF Send
  <2>. QED
    BY <1>1, <2>1, <2>2 DEF Send
<1>2. ASSUME NEW c \in StoreCalls, Resume(c) PROVE StoreInv'
  <2>. DEFINE next == Sent(calls[c])
  <2>1. /\ next \in StoreCall /\ next.pc = "sent" /\ next.sends = calls[c].sends + 1
        /\ next.reconnects = calls[c].reconnects /\ next.frozen = calls[c].frozen
    BY <1>0, SentCall
  <2>2. calls[c].sends <= 1 /\ calls[c].reconnects <= 1 /\ ~calls[c].frozen
        /\ calls[c].sends \in Nat
    BY <1>0, <1>2 DEF Resume, Spent, StoreCall
  <2>. HIDE DEF next
  <2>3. Spent(next)
    BY <2>1, <2>2 DEF Spent
  <2>4. calls' = [calls EXCEPT ![c] = next] /\ UNCHANGED <<conns, current, opening, last, closed>>
    BY <1>2 DEF Resume, next
  <2>5. ShapeInv'
    BY <2>1, <2>4 DEF StoreInv, ShapeInv
  <2>6. SocketInv' /\ BlameInv'
    BY <2>4 DEF StoreInv, SocketInv, BlameInv
  <2>. QED
    BY <1>0, <2>3, <2>4, <2>5, <2>6 DEF StoreInv
<1>3. ASSUME NEW c \in StoreCalls, Reply(c) PROVE StoreInv'
  <2>. DEFINE next == [calls[c] EXCEPT !.pc = "done"]
  <2>1. ~calls[c].frozen
    BY <1>0, <1>3 DEF Reply, Spent
  <2>2. next \in StoreCall /\ next.pc = "done" /\ Spent(next)
    BY <1>0, <2>1 DEF StoreCall, CallStages, Spent
  <2>3. calls' = [calls EXCEPT ![c] = next] /\ UNCHANGED <<conns, current, opening, last, closed>>
    BY <1>3 DEF Reply
  <2>. QED
    BY <2>2, <2>3, Ending
<1>4. ASSUME NEW c \in StoreCalls, Fail(c) PROVE StoreInv'
  <2>1. Worse(Recorded(calls[c], "broken"))
    BY <1>4, RecordedIsWorse DEF Fail, Errors
  <2>2. ~calls[c].frozen
    BY <1>0, <1>4 DEF Fail, Spent
  <2>. QED
    BY <1>0, <1>4, <2>1, <2>2, SendFailing DEF Fail
<1>5. ASSUME NEW c \in StoreCalls, Timeout(c) PROVE StoreInv'
  <2>. DEFINE on == calls[c].on
              x == [calls[c] EXCEPT !.frozen = conns[on].error = "none"]
              cs == [Recorded(calls[c], "timeout") EXCEPT ![on].open = FALSE]
  <2>1. /\ Worse(cs)
        /\ cs[on].error = IF conns[on].error = "none" THEN "timeout" ELSE conns[on].error
    BY RecordedIsWorse DEF Errors
  <2>2. /\ x \in StoreCall /\ x.pc = calls[c].pc /\ x.sends = calls[c].sends
        /\ x.reconnects = calls[c].reconnects /\ x.on = on
        /\ x.frozen <=> conns[on].error = "none"
    BY <1>0 DEF StoreCall
  <2>3. calls[c].pc = "sent" /\ SendFailed(c, x, cs) /\ UNCHANGED <<current, closed>>
    BY <1>5 DEF Timeout
  <2>. HIDE DEF x, cs, on
  <2>. QED
    BY <2>1, <2>2, <2>3, SendFailing
<1>6. ASSUME NEW c \in StoreCalls, WriteFails(c) PROVE StoreInv'
  <2>1. Worse(conns') /\ UNCHANGED <<current, opening, last, closed, calls>>
    BY <1>6, RecordedIsWorse DEF WriteFails, Errors
  <2>2. ShapeInv' /\ SocketInv' /\ BlameInv'
    BY <1>0, <2>1 DEF StoreInv, ShapeInv, SocketInv, BlameInv, Worse
  <2>. QED
    BY <1>0, <2>1, <2>2 DEF StoreInv
<1>7. CASE OpenSucceeds
  <2>1. PICK i \in opening :
            /\ conns[i].link /\ opening' = opening \ {i}
            /\ \/ /\ closed /\ conns' = [conns EXCEPT ![i].open = FALSE]
                  /\ calls' = Told("failed") /\ UNCHANGED current
               \/ /\ ~closed /\ conns' = [conns EXCEPT ![current].open = FALSE]
                  /\ current' = i /\ calls' = Told("resuming")
            /\ UNCHANGED <<last, closed, breaks>>
    BY <1>7 DEF OpenSucceeds, ClosesLate
  <2>2. i = last /\ i \in Ids /\ i # current /\ opening' = {} /\ opening = {i}
    BY <1>0, <2>1 DEF StoreInv, ShapeInv
  <2>3. /\ calls' \in [StoreCalls -> StoreCall]
        /\ \A c \in StoreCalls : calls'[c].pc # "reconnecting" /\ Spent(calls'[c])
    BY <2>1, Telling
  <2>. DEFINE shut == IF closed THEN i ELSE current
  <2>4. /\ shut \in Ids /\ current' = (IF closed THEN current ELSE i)
        /\ conns' = [conns EXCEPT ![shut] = [conns[shut] EXCEPT !.open = FALSE]]
    BY <1>0, <2>1, <2>2
  <2>9. /\ conns' \in [Ids -> Conns] /\ ~conns'[shut].open
        /\ conns'[shut].error = conns[shut].error
        /\ \A k \in Ids \ {shut} : conns'[k] = conns[k]
    BY <1>0, <2>4 DEF Conns
  <2>5. ShapeInv'
    BY <1>0, <2>1, <2>2, <2>3, <2>4, <2>9 DEF StoreInv, ShapeInv, Ids
  <2>6. SocketInv'
    BY <1>0, <2>1, <2>2, <2>4, <2>9 DEF StoreInv, SocketInv
  <2>7. BlameInv'
    BY <1>0, <2>1, <2>2, <2>4, <2>9 DEF StoreInv, BlameInv
  <2>. QED
    BY <2>3, <2>5, <2>6, <2>7 DEF StoreInv
<1>8. CASE OpenFails
  <2>1. PICK i \in opening :
            /\ opening' = opening \ {i} /\ conns' = [conns EXCEPT ![i] = Unused]
            /\ last' = (IF i = last THEN last - 1 ELSE last)
            /\ calls' = Told("failed") /\ UNCHANGED <<current, closed, breaks>>
    BY <1>8 DEF OpenFails
  <2>2. i = last /\ i \in Ids /\ i # current /\ opening' = {} /\ opening = {i}
    BY <1>0, <2>1 DEF StoreInv, ShapeInv
  <2>3. /\ calls' \in [StoreCalls -> StoreCall]
        /\ \A c \in StoreCalls : calls'[c].pc # "reconnecting" /\ Spent(calls'[c])
    BY <2>1, Telling
  <2>4. last' = last - 1 /\ current <= last' /\ last' \in Ids
    BY <1>0, <2>1, <2>2, KvStoreAssumption DEF StoreInv, ShapeInv, Ids
  <2>5. /\ conns' \in [Ids -> Conns] /\ ~conns'[i].open /\ conns'[i].error = "none"
        /\ \A k \in Ids \ {i} : conns'[k] = conns[k]
    BY <1>0, <2>1, <2>2 DEF Conns, Unused, Errors
  <2>6. ShapeInv'
    BY <1>0, <2>1, <2>2, <2>3, <2>4, <2>5 DEF ShapeInv
  <2>7. SocketInv' /\ BlameInv'
    BY <1>0, <2>1, <2>2, <2>5 DEF StoreInv, SocketInv, BlameInv
  <2>. QED
    BY <2>3, <2>6, <2>7 DEF StoreInv
<1>9. CASE Close
  <2>1. /\ conns' \in [Ids -> Conns] /\ ~conns'[current].open
        /\ conns'[current].error = conns[current].error
        /\ \A k \in Ids \ {current} : conns'[k] = conns[k]
    BY <1>0, <1>9 DEF Close, Conns
  <2>2. ShapeInv' /\ SocketInv' /\ BlameInv'
    BY <1>0, <1>9, <2>1 DEF Close, StoreInv, ShapeInv, SocketInv, BlameInv
  <2>. QED
    BY <1>0, <1>9, <2>2 DEF Close, StoreInv
<1>10. ASSUME NEW i \in Ids, LinkBreaks(i) PROVE StoreInv'
  <2>1. /\ conns' \in [Ids -> Conns] /\ ~conns'[i].link
        /\ conns'[i].open = conns[i].open /\ conns'[i].error = conns[i].error
        /\ \A k \in Ids \ {i} : conns'[k] = conns[k]
    BY <1>0, <1>10 DEF LinkBreaks, Conns
  <2>2. ShapeInv' /\ SocketInv' /\ BlameInv'
    BY <1>0, <1>10, <2>1 DEF LinkBreaks, StoreInv, ShapeInv, SocketInv, BlameInv
  <2>. QED
    BY <1>0, <1>10, <2>2 DEF LinkBreaks, StoreInv
<1>11. CASE UNCHANGED storeVars
  BY <1>11 DEF storeVars, StoreInv, ShapeInv, SocketInv, BlameInv
<1>. QED
  BY <1>1, <1>2, <1>3, <1>4, <1>5, <1>6, <1>7, <1>8, <1>9, <1>10, <1>11 DEF StoreNext

(* The promises of the store hold in every state of the invariant.         *)
LEMMA StoreKeepsPromises == StoreInv => KvStoreSafe /\ StoreTypeOK
<1>. SUFFICES ASSUME StoreInv PROVE KvStoreSafe /\ StoreTypeOK
  OBVIOUS
<1>1. NoneLeaks
  BY DEF StoreInv, SocketInv, NoneLeaks
<1>2. BoundedEffort /\ FrozenNotResent
  BY DEF StoreInv, Spent, BoundedEffort, FrozenNotResent
<1>3. Cardinality(opening) <= 1
  <2>1. Cardinality({}) = 0 /\ Cardinality({last}) = 1
    BY FS_EmptySet, FS_Singleton
  <2>2. opening = {} \/ opening = {last}
    BY DEF StoreInv, ShapeInv
  <2>3. CASE opening = {}
    BY <2>1, <2>3
  <2>4. CASE opening = {last}
    BY <2>1, <2>4
  <2>. QED
    BY <2>2, <2>3, <2>4
<1>4. StoreTypeOK
  BY <1>3 DEF StoreInv, ShapeInv, StoreTypeOK, Conns, Errors
<1>. QED
  BY <1>1, <1>2, <1>4 DEF KvStoreSafe

(* The key-value store leaks no socket, sends a command twice at most and  *)
(* a frozen one once, whatever breaks and however many calls there are.    *)
THEOREM KvStoreIsSafe == StoreSpec => []KvStoreSafe
BY StoreStarts, StoreSteps, StoreKeepsPromises, PTL DEF StoreSpec

(* The types of the store: one connection at most is being opened, and who *)
(* waits for a reconnect waits for that one.                               *)
THEOREM StoreTypesKept == StoreSpec => []StoreTypeOK
BY StoreStarts, StoreSteps, StoreKeepsPromises, PTL DEF StoreSpec

(* Only a connection that is broken or was closed is replaced.             *)
THEOREM HealthyIsKept == StoreSpec => HealthyKept
<1>1. StoreInv /\ [StoreNext]_storeVars => [HealthyKeptStep]_storeVars
  <2>. SUFFICES ASSUME StoreInv, StoreNext, current' # current
                PROVE  ~(conns[current].open /\ conns[current].link)
    BY DEF HealthyKeptStep, storeVars
  <2>1. OpenSucceeds
    BY DEF StoreNext, Send, Resume, Reply, Fail, Timeout, WriteFails, OpenFails, Close, LinkBreaks
  <2>2. opening # {}
    BY <2>1 DEF OpenSucceeds
  <2>. QED
    BY <2>2 DEF StoreInv, ShapeInv, BlameInv
<1>. QED
  BY <1>1, StoreStarts, StoreSteps, PTL DEF StoreSpec, HealthyKept

-----------------------------------------------------------------------------

Windows == 0 .. MaxWindow
QuotaCall == [stage : QuotaStages, who : Counters, at : Windows]

(* What a call that stands so has taken from a counter and not given back, *)
(* and which of it a limit let through.                                    *)
PoolGate == {"owns", "unpools", "works", "done", "releases", "releasesPool"}

Holding(x, k, w) ==
    x.at = w /\ IF k = Pool THEN x.who \in Sessions /\ x.stage \in PoolGate \cup {"records", "recorded"}
                ELSE x.who = k /\ x.stage \in Granted \cup {"recorded"}

Admitted(x, k, w) ==
    x.at = w /\ IF k = Pool THEN x.who \in Sessions /\ x.stage \in PoolGate
                ELSE x.who = k /\ x.stage \in Granted

Holders(f, k, w) == {c \in Calls : Holding(f[c], k, w)}
Admits(f, k, w) == {c \in Calls : Admitted(f[c], k, w)}

(* A counter backs what is held of it, exactly while nothing failed, and   *)
(* what was let through fits its limit.                                    *)
Booked(k, w) ==
    /\ used[k][w] >= Cardinality(Holders(call, k, w))
    /\ ~failed => used[k][w] = Cardinality(Holders(call, k, w))
    /\ Cardinality(Admits(call, k, w)) <= LimitOf(k)

KnownCalls ==
    \A c \in Calls : call[c].stage # "new" => call[c].who \in Principals

QuotaInv ==
    /\ QuotaTypeOK /\ KnownCalls
    /\ ~stepped => /\ \A c \in Calls : call[c].at <= window
                   /\ \A k \in Counters, w \in Windows : Booked(k, w)

-----------------------------------------------------------------------------
(* A subset of the calls that one call joins or leaves.                    *)
LEMMA OneMoves ==
    ASSUME NEW S \in SUBSET Calls, NEW T \in SUBSET Calls, NEW c \in Calls,
           S \ {c} = T \ {c}
    PROVE  /\ Cardinality(S) \in Nat /\ Cardinality(T) \in Nat
           /\ (c \in S <=> c \in T) => Cardinality(T) = Cardinality(S)
           /\ (c \notin S /\ c \in T) => Cardinality(T) = Cardinality(S) + 1
           /\ (c \in S /\ c \notin T) => Cardinality(S) = Cardinality(T) + 1
<1>1. IsFiniteSet(S) /\ IsFiniteSet(T)
  BY QuotaAssumption, FS_Subset
<1>2. Cardinality(S) \in Nat /\ Cardinality(T) \in Nat
  BY <1>1, FS_CardinalityType
<1>3. (c \in S <=> c \in T) => S = T
  OBVIOUS
<1>4. (c \notin S /\ c \in T) => T = S \cup {c}
  OBVIOUS
<1>5. (c \in S /\ c \notin T) => S = T \cup {c}
  OBVIOUS
<1>6. c \notin S => Cardinality(S \cup {c}) = Cardinality(S) + 1
  BY <1>1, FS_AddElement
<1>7. c \notin T => Cardinality(T \cup {c}) = Cardinality(T) + 1
  BY <1>1, FS_AddElement
<1> QED
  BY <1>2, <1>3, <1>4, <1>5, <1>6, <1>7

LEMMA AdmittedIsHeld ==
    ASSUME NEW k, NEW w
    PROVE  /\ Cardinality(Admits(call, k, w)) \in Nat /\ Cardinality(Holders(call, k, w)) \in Nat
           /\ Cardinality(Admits(call, k, w)) <= Cardinality(Holders(call, k, w))
<1>1. IsFiniteSet(Holders(call, k, w)) /\ IsFiniteSet(Admits(call, k, w))
  BY QuotaAssumption, FS_Subset DEF Holders, Admits
<1>2. Admits(call, k, w) \subseteq Holders(call, k, w)
  BY DEF Holders, Admits, Holding, Admitted
<1> QED
  BY <1>1, <1>2, FS_Subset, FS_CardinalityType

Bit(b) == IF b THEN 1 ELSE 0

(* Call c goes on to y, and the counters with it.                          *)
MovesTo(c, y) ==
    /\ call' = [call EXCEPT ![c] = y]
    /\ used' \in [Counters -> [Windows -> Nat]]
    /\ \A k \in Counters, w \in Windows :
          LET more == Bit(Holding(y, k, w)) - Bit(Holding(call[c], k, w))
          IN  /\ used'[k][w] >= used[k][w] + more
              /\ ~failed' => used'[k][w] = used[k][w] + more /\ ~failed
              /\ Admitted(y, k, w) =>
                    Admitted(call[c], k, w) \/ used[k][w] + 1 <= LimitOf(k)

LEMMA MovesKeepBooks ==
    ASSUME QuotaInv, ~stepped, NEW c \in Calls, NEW y \in QuotaCall, MovesTo(c, y),
           NEW k \in Counters, NEW w \in Windows
    PROVE  Booked(k, w)'
<1>1. call \in [Calls -> QuotaCall] /\ used \in [Counters -> [Windows -> Nat]]
  BY DEF QuotaInv, QuotaTypeOK, QuotaCall, Windows
<1>2. call'[c] = y /\ \A d \in Calls \ {c} : call'[d] = call[d]
  BY <1>1 DEF MovesTo
<1>3. Booked(k, w)
  BY DEF QuotaInv
<1> DEFINE H == Holders(call, k, w)
           G == Admits(call, k, w)
           H2 == Holders(call', k, w)
           G2 == Admits(call', k, w)
<1>4. H \ {c} = H2 \ {c} /\ G \ {c} = G2 \ {c}
  BY <1>2 DEF Holders, Admits
<1>5. H \in SUBSET Calls /\ H2 \in SUBSET Calls /\ G \in SUBSET Calls /\ G2 \in SUBSET Calls
  BY DEF Holders, Admits
<1>6. /\ (c \in H <=> Holding(call[c], k, w)) /\ (c \in H2 <=> Holding(y, k, w))
      /\ (c \in G <=> Admitted(call[c], k, w)) /\ (c \in G2 <=> Admitted(y, k, w))
  BY <1>2 DEF Holders, Admits
<1>7. Cardinality(G) <= Cardinality(H)
  BY AdmittedIsHeld
<1>8. LimitOf(k) \in Nat
  BY QuotaAssumption DEF LimitOf
<1>9. used[k][w] \in Nat /\ used'[k][w] \in Nat
  BY <1>1 DEF MovesTo
<1> DEFINE more == Bit(Holding(y, k, w)) - Bit(Holding(call[c], k, w))
<1>10. /\ used'[k][w] >= used[k][w] + more
       /\ ~failed' => used'[k][w] = used[k][w] + more /\ ~failed
       /\ Admitted(y, k, w) => Admitted(call[c], k, w) \/ used[k][w] + 1 <= LimitOf(k)
  BY DEF MovesTo
<1>11. /\ used[k][w] >= Cardinality(H)
       /\ ~failed => used[k][w] = Cardinality(H)
       /\ Cardinality(G) <= LimitOf(k)
  BY <1>3 DEF Booked
<1>12. Cardinality(H2) = Cardinality(H) + more /\ Cardinality(H) \in Nat /\ Cardinality(H2) \in Nat
       /\ more \in Int
  <2> HIDE DEF H, H2
  <2> QED
    BY <1>4, <1>5, <1>6, OneMoves DEF Bit
<1>13. /\ Cardinality(G) \in Nat /\ Cardinality(G2) \in Nat
       /\ Cardinality(G2) > Cardinality(G) =>
             /\ Cardinality(G2) = Cardinality(G) + 1
             /\ Admitted(y, k, w) /\ ~Admitted(call[c], k, w)
  <2> HIDE DEF G, G2
  <2> QED
    BY <1>4, <1>5, <1>6, OneMoves
<1>14. Cardinality(G2) <= LimitOf(k)
  <2> HIDE DEF G, G2, H
  <2> QED
    BY <1>7, <1>8, <1>9, <1>10, <1>11, <1>12, <1>13
<1>15. used'[k][w] >= Cardinality(H2) /\ (~failed' => used'[k][w] = Cardinality(H2))
  <2> HIDE DEF H, H2, more
  <2> QED
    BY <1>9, <1>10, <1>11, <1>12
<1>16. LimitOf(k)' = LimitOf(k)
  BY DEF LimitOf
<1> QED
  BY <1>14, <1>15, <1>16 DEF Booked

PoolStages == {"pools", "unpools", "releasesPool", "recordsPool"}

(* A step of one call: where it stands then, and what it did.              *)
CallSteps(c, y) ==
    /\ call' = [call EXCEPT ![c] = y]
    /\ y.stage # "new" => y.who \in Principals
    /\ y.stage \in PoolStages => y.who \in Sessions
    /\ used' \in [Counters -> [Windows -> Nat]]
    /\ failed' \in BOOLEAN
    /\ window' = window /\ stepped' = stepped
    /\ ~stepped => y.at <= window /\ MovesTo(c, y)

LEMMA CallStepsKeep ==
    ASSUME QuotaInv, NEW c \in Calls, NEW y \in QuotaCall, CallSteps(c, y)
    PROVE  QuotaInv'
<1>1. call \in [Calls -> QuotaCall]
  BY DEF QuotaInv, QuotaTypeOK, QuotaCall, Windows
<1>2. /\ call' \in [Calls -> QuotaCall]
      /\ call'[c] = y /\ \A d \in Calls \ {c} : call'[d] = call[d]
  BY <1>1 DEF CallSteps
<1>3. QuotaTypeOK'
  <2>1. /\ \A d \in Calls : call[d].stage \in PoolStages => call[d].who \in Sessions
        /\ window \in 0 .. MaxWindow /\ stepped \in BOOLEAN
    BY DEF QuotaInv, QuotaTypeOK, Pooled, PoolStages
  <2>2. \A d \in Calls : call'[d].stage \in PoolStages => call'[d].who \in Sessions
    BY <1>2, <2>1 DEF CallSteps
  <2>3. used' \in [Counters -> [Windows -> Nat]] /\ failed' \in BOOLEAN /\ window' = window /\ stepped' = stepped
    BY DEF CallSteps
  <2> QED
    BY <1>2, <2>1, <2>2, <2>3 DEF QuotaTypeOK, QuotaCall, Windows, Pooled, PoolStages
<1>4. KnownCalls'
  BY <1>2 DEF QuotaInv, KnownCalls, CallSteps
<1>5. ASSUME ~stepped'
      PROVE  /\ \A d \in Calls : call'[d].at <= window'
             /\ \A k \in Counters, w \in Windows : Booked(k, w)'
  <2>1. ~stepped /\ window' = window /\ y.at <= window /\ MovesTo(c, y)
    BY <1>5 DEF CallSteps
  <2>2. \A d \in Calls : call'[d].at <= window'
    BY <1>2, <2>1 DEF QuotaInv
  <2> QED
    BY <2>1, <2>2, MovesKeepBooks
<1> QED
  BY <1>3, <1>4, <1>5 DEF QuotaInv, Windows

(* The store's two operations.                                             *)
LEMMA CountAdds ==
    ASSUME QuotaInv, NEW p \in Counters, NEW at \in Windows, Count(p, at)
    PROVE  /\ used' \in [Counters -> [Windows -> Nat]]
           /\ \A k \in Counters, w \in Windows :
                 used'[k][w] = used[k][w] + Bit(k = p /\ w = at)
<1>1. used \in [Counters -> [Windows -> Nat]]
  BY DEF QuotaInv, QuotaTypeOK, Windows
<1>2. used' = [used EXCEPT ![p] = [used[p] EXCEPT ![at] = used[p][at] + 1]]
  BY DEF Count
<1>3. [used[p] EXCEPT ![at] = used[p][at] + 1] \in [Windows -> Nat]
  BY <1>1
<1> QED
  BY <1>1, <1>2, <1>3 DEF Bit

LEMMA RefundTakes ==
    ASSUME QuotaInv, NEW p \in Counters, NEW at \in Windows, Refund(p, at)
    PROVE  /\ used' \in [Counters -> [Windows -> Nat]]
           /\ \A k \in Counters, w \in Windows :
                 used'[k][w] = used[k][w] - Bit(k = p /\ w = at /\ used[p][at] > 0)
<1>1. used \in [Counters -> [Windows -> Nat]]
  BY DEF QuotaInv, QuotaTypeOK, Windows
<1> DEFINE n == IF used[p][at] > 0 THEN used[p][at] - 1 ELSE 0
<1>2. used' = [used EXCEPT ![p] = [used[p] EXCEPT ![at] = n]]
  BY DEF Refund
<1>3. n \in Nat /\ [used[p] EXCEPT ![at] = n] \in [Windows -> Nat]
  BY <1>1
<1>4. n = used[p][at] - Bit(used[p][at] > 0) /\ used[p][at] \in Nat
  BY <1>1 DEF Bit
<1> HIDE DEF n
<1> QED
  BY <1>1, <1>2, <1>3, <1>4 DEF Bit

LEMMA HeldIsCounted ==
    ASSUME QuotaInv, ~stepped, NEW c \in Calls, NEW k \in Counters, NEW w \in Windows,
           Holding(call[c], k, w)
    PROVE  used[k][w] > 0
<1>1. c \in Holders(call, k, w)
  BY DEF Holders
<1>2. IsFiniteSet(Holders(call, k, w))
  BY QuotaAssumption, FS_Subset DEF Holders
<1>3. Cardinality(Holders(call, k, w)) \in Nat /\ Cardinality(Holders(call, k, w)) # 0
  BY <1>1, <1>2, FS_CardinalityType, FS_EmptySet
<1>4. used[k][w] \in Nat /\ used[k][w] >= Cardinality(Holders(call, k, w))
  BY DEF QuotaInv, Booked, QuotaTypeOK, Windows
<1> QED
  BY <1>3, <1>4

(* A call that only changes stage, as it is known to the invariant.        *)
LEMMA StageKnown ==
    ASSUME QuotaInv, NEW c \in Calls, call[c].stage # "new", NEW s \in QuotaStages \ {"new"},
           GoesTo(c, s)
    PROVE  LET y == [call[c] EXCEPT !.stage = s]
           IN  /\ call[c] \in QuotaCall /\ y \in QuotaCall
               /\ call' = [call EXCEPT ![c] = y]
               /\ y.stage = s /\ y.who = call[c].who /\ y.at = call[c].at
               /\ call[c].who \in Principals /\ call[c].who # Pool
               /\ call[c].at \in Windows
               /\ ~stepped => call[c].at <= window
<1>1. call \in [Calls -> QuotaCall]
  BY DEF QuotaInv, QuotaTypeOK, QuotaCall, Windows
<1>2. call[c].who \in Principals
  BY DEF QuotaInv, KnownCalls
<1>3. call[c].who # Pool
  BY <1>2, QuotaAssumption DEF Principals
<1>4. ~stepped => call[c].at <= window
  BY DEF QuotaInv
<1>5. call' = [call EXCEPT ![c] = [call[c] EXCEPT !.stage = s]]
  BY <1>1 DEF GoesTo
<1> QED
  BY <1>1, <1>2, <1>3, <1>4, <1>5 DEF QuotaCall

LEMMA StartsKeeps ==
    ASSUME QuotaInv, NEW c \in Calls, NEW p \in Principals, Reserve(c, p) \/ Record(c, p)
    PROVE  QuotaInv'
<1> PICK first \in {"pools", "owns", "recordsPool", "records"} :
        /\ Starts(c, p, first)
        /\ first \in {"pools", "recordsPool"} <=> p \in Sessions
  BY DEF Reserve, Record
<1> DEFINE y == [stage |-> first, who |-> p, at |-> window]
<1>1. y \in QuotaCall /\ call[c] \in QuotaCall /\ used \in [Counters -> [Windows -> Nat]]
      /\ failed \in BOOLEAN
  BY DEF QuotaInv, QuotaTypeOK, QuotaCall, QuotaStages, Counters, Windows
<1>2. y.stage \in PoolStages => y.who \in Sessions
  BY DEF PoolStages
<1>3. call[c].stage = "new" /\ p # Pool
  BY QuotaAssumption DEF Starts, Principals
<1>4. ASSUME NEW k \in Counters, NEW w \in Windows
      PROVE  /\ ~Holding(y, k, w) /\ ~Holding(call[c], k, w)
             /\ ~Admitted(y, k, w)
  BY <1>1, <1>3 DEF Holding, Admitted, PoolGate, Granted
<1>5. MovesTo(c, y)
  <2> HIDE DEF y
  <2>1. used' = used /\ failed' = failed
    BY DEF Starts
  <2>2. call' = [call EXCEPT ![c] = y]
    BY DEF Starts, y
  <2>3. \A k \in Counters, w \in Windows : used[k][w] \in Nat
    BY <1>1
  <2>4. ASSUME NEW k \in Counters, NEW w \in Windows
        PROVE  Bit(Holding(y, k, w)) = 0 /\ Bit(Holding(call[c], k, w)) = 0
    BY <1>4 DEF Bit
  <2> QED
    BY <1>1, <1>4, <2>1, <2>2, <2>3, <2>4 DEF MovesTo
<1>6. CallSteps(c, y)
  <2>1. window \in Int
    BY DEF QuotaInv, QuotaTypeOK
  <2> QED
    BY <1>1, <1>2, <1>5, <2>1 DEF CallSteps, Starts
<1> QED
  BY <1>1, <1>6, CallStepsKeep

(* A call leaves its stage with the counters as given.                     *)
LEMMA StageKeeps ==
    ASSUME QuotaInv, NEW c \in Calls, call[c].stage # "new", NEW s \in QuotaStages \ {"new"},
           GoesTo(c, s), s \in PoolStages => Pooled(c),
           used' \in [Counters -> [Windows -> Nat]], failed' \in BOOLEAN,
           window' = window, stepped' = stepped,
           ~stepped => MovesTo(c, [call[c] EXCEPT !.stage = s])
    PROVE  QuotaInv'
<1> DEFINE y == [call[c] EXCEPT !.stage = s]
<1>1. /\ y \in QuotaCall /\ call' = [call EXCEPT ![c] = y]
      /\ y.stage = s /\ y.who = call[c].who /\ y.at = call[c].at
      /\ call[c].who \in Principals /\ (~stepped => call[c].at <= window)
  BY StageKnown
<1>2. CallSteps(c, y)
  BY <1>1 DEF CallSteps, Pooled
<1> QED
  BY <1>1, <1>2, CallStepsKeep

LEMMA ReservePoolKeeps ==
    ASSUME QuotaInv, NEW c \in Calls, ReservePool(c)
    PROVE  QuotaInv'
<1>1. /\ call[c] \in QuotaCall /\ call[c].stage = "pools" /\ call[c].who \in Sessions
      /\ used \in [Counters -> [Windows -> Nat]] /\ failed \in BOOLEAN /\ Pool \in Counters
  BY DEF QuotaInv, QuotaTypeOK, QuotaCall, Windows, ReservePool, Pooled, Counters
<1>2. call[c].at \in Windows
  BY <1>1 DEF QuotaCall
<1> DEFINE at == call[c].at
           Y(s) == [call[c] EXCEPT !.stage = s]
<1>3. PICK s \in {"owns", "refused", "error"} :
        /\ GoesTo(c, s)
        /\ s = "owns" => Fits(Pool, at) /\ Count(Pool, at) /\ Calm
        /\ s = "refused" => UNCHANGED used /\ Calm
        /\ s = "error" => /\ (Count(Pool, at) \/ UNCHANGED used)
                          /\ failed' = TRUE /\ UNCHANGED <<window, stepped>>
  BY DEF ReservePool, Throws
<1>4. s \in QuotaStages \ {"new"} /\ s \notin PoolStages
  BY DEF QuotaStages, PoolStages
<1>5. /\ Y(s).stage = s /\ Y(s).who = call[c].who /\ Y(s).at = at
      /\ call' = [call EXCEPT ![c] = Y(s)]
      /\ call[c].who # Pool
  BY <1>1, <1>3, <1>4, StageKnown
<1>6. ASSUME NEW k \in Counters, NEW w \in Windows
      PROVE  /\ ~Holding(call[c], k, w)
             /\ Holding(Y(s), k, w) <=> s = "owns" /\ k = Pool /\ w = at
             /\ Admitted(Y(s), k, w) => s = "owns" /\ k = Pool /\ w = at
  <2> HIDE DEF Y
  <2> QED
    BY <1>1, <1>3, <1>5 DEF Holding, Admitted, PoolGate, Granted
<1>7. /\ used' \in [Counters -> [Windows -> Nat]]
      /\ \A k \in Counters, w \in Windows :
            /\ used'[k][w] >= used[k][w] + Bit(s = "owns" /\ k = Pool /\ w = at)
            /\ s # "error" => used'[k][w] = used[k][w] + Bit(s = "owns" /\ k = Pool /\ w = at)
  BY <1>1, <1>2, <1>3, CountAdds DEF Bit
<1>8. MovesTo(c, Y(s))
  <2> HIDE DEF Y
  <2>1. ASSUME NEW k \in Counters, NEW w \in Windows
        PROVE  Bit(Holding(Y(s), k, w)) - Bit(Holding(call[c], k, w))
                  = Bit(s = "owns" /\ k = Pool /\ w = at)
    BY <1>6 DEF Bit
  <2>2. ~failed' => s # "error" /\ ~failed
    BY <1>1, <1>3 DEF Calm
  <2>3. s = "owns" => used[Pool][at] + 1 <= LimitOf(Pool)
    BY <1>3 DEF Fits
  <2> QED
    BY <1>5, <1>6, <1>7, <2>1, <2>2, <2>3 DEF MovesTo
<1>9. failed' \in BOOLEAN /\ window' = window /\ stepped' = stepped
  BY <1>1, <1>3 DEF Calm
<1> QED
  BY <1>1, <1>3, <1>4, <1>7, <1>8, <1>9, StageKeeps

LEMMA ReserveOwnKeeps ==
    ASSUME QuotaInv, NEW c \in Calls, ReserveOwn(c)
    PROVE  QuotaInv'
<1> DEFINE p == call[c].who
           at == call[c].at
           Y(s) == [call[c] EXCEPT !.stage = s]
<1>1. /\ call[c] \in QuotaCall /\ call[c].stage = "owns"
      /\ used \in [Counters -> [Windows -> Nat]] /\ failed \in BOOLEAN
  BY DEF QuotaInv, QuotaTypeOK, QuotaCall, Windows, ReserveOwn
<1>2. at \in Windows /\ p \in Counters
  BY <1>1 DEF QuotaCall
<1>3. PICK s \in {"works", "unpools", "refused", "error"} :
        /\ GoesTo(c, s)
        /\ window' = window /\ stepped' = stepped /\ failed' \in BOOLEAN
        /\ s = "works" => Fits(p, at) /\ Count(p, at) /\ failed' = failed
        /\ s # "works" => \/ UNCHANGED used /\ failed' = failed
                          \/ (Count(p, at) \/ UNCHANGED used) /\ failed' = TRUE
        /\ s = "unpools" => Pooled(c)
        /\ s \in {"refused", "error"} => ~Pooled(c)
  <2>1. CASE Fits(p, at) /\ Count(p, at) /\ GoesTo(c, "works") /\ Calm
    BY <1>1, <2>1 DEF Calm
  <2>2. CASE /\ ~Fits(p, at) /\ UNCHANGED used /\ Calm
             /\ GoesTo(c, IF Pooled(c) THEN "unpools" ELSE "refused")
    BY <1>1, <2>2 DEF Calm
  <2>3. CASE Throws(c, IF Pooled(c) THEN "unpools" ELSE "error", Fits(p, at) /\ Count(p, at))
    BY <1>1, <2>3 DEF Throws
  <2> QED
    BY <2>1, <2>2, <2>3 DEF ReserveOwn
<1>4. s \in QuotaStages \ {"new"} /\ (s \in PoolStages => Pooled(c))
  BY <1>3 DEF QuotaStages, PoolStages
<1>5. /\ Y(s).stage = s /\ Y(s).who = p /\ Y(s).at = at
      /\ call' = [call EXCEPT ![c] = Y(s)]
      /\ p # Pool
  BY <1>1, <1>3, <1>4, StageKnown
<1>6. ASSUME NEW k \in Counters, NEW w \in Windows
      PROVE  /\ Holding(call[c], k, w) <=> k = Pool /\ Pooled(c) /\ w = at
             /\ Holding(Y(s), k, w) <=> \/ k = Pool /\ Pooled(c) /\ w = at
                                        \/ s = "works" /\ k = p /\ w = at
             /\ Admitted(Y(s), k, w) => \/ Admitted(call[c], k, w)
                                        \/ s = "works" /\ k = p /\ w = at
  <2> HIDE DEF Y
  <2> QED
    BY <1>1, <1>3, <1>5 DEF Holding, Admitted, PoolGate, Granted, Pooled
<1>7. /\ used' \in [Counters -> [Windows -> Nat]]
      /\ \A k \in Counters, w \in Windows :
            /\ used'[k][w] >= used[k][w] + Bit(s = "works" /\ k = p /\ w = at)
            /\ ~failed' => used'[k][w] = used[k][w] + Bit(s = "works" /\ k = p /\ w = at)
  <2> HIDE DEF p, at
  <2>1. CASE Count(p, at)
    BY <1>1, <1>2, <1>3, <2>1, CountAdds DEF Bit
  <2>2. CASE UNCHANGED used
    <3>1. s # "works"
      BY <1>1, <1>2, <1>3, <2>2, CountAdds DEF Bit
    <3> QED
      BY <1>1, <1>2, <1>3, <2>2, <3>1 DEF Bit
  <2> QED
    BY <1>3, <2>1, <2>2
<1>8. MovesTo(c, Y(s))
  <2> HIDE DEF Y
  <2>1. ASSUME NEW k \in Counters, NEW w \in Windows
        PROVE  Bit(Holding(Y(s), k, w)) - Bit(Holding(call[c], k, w))
                  = Bit(s = "works" /\ k = p /\ w = at)
    BY <1>5, <1>6 DEF Bit
  <2>2. ~failed' => ~failed
    BY <1>1, <1>3
  <2>3. s = "works" => used[p][at] + 1 <= LimitOf(p)
    BY <1>3 DEF Fits
  <2> QED
    BY <1>5, <1>6, <1>7, <2>1, <2>2, <2>3 DEF MovesTo
<1> QED
  BY <1>1, <1>3, <1>4, <1>7, <1>8, StageKeeps

(* A step that does no more than give a unit back, or fails to.            *)
GivesBack(c, y, k0, at) ==
    /\ call' = [call EXCEPT ![c] = y] /\ y.stage # "new" /\ y.who = call[c].who
    /\ y.who \in Principals /\ (y.stage \in PoolStages => y.who \in Sessions)
    /\ window' = window /\ stepped' = stepped
    /\ \/ Refund(k0, at) /\ failed' = failed
       \/ (Refund(k0, at) \/ UNCHANGED used) /\ failed' = TRUE
    /\ ~stepped => /\ at = call[c].at /\ y.at = at /\ at <= window
                   /\ \A k \in Counters, w \in Windows :
                         /\ Holding(call[c], k, w) <=> \/ Holding(y, k, w)
                                                       \/ k = k0 /\ w = at
                         /\ ~(Holding(y, k, w) /\ k = k0 /\ w = at)
                         /\ Admitted(y, k, w) => Admitted(call[c], k, w)

LEMMA RefundKeeps ==
    ASSUME QuotaInv, NEW c \in Calls, NEW y \in QuotaCall, NEW k0 \in Counters, NEW at \in Windows,
           GivesBack(c, y, k0, at)
    PROVE  QuotaInv'
<1>1. used \in [Counters -> [Windows -> Nat]] /\ failed \in BOOLEAN
  BY DEF QuotaInv, QuotaTypeOK, Windows
<1>2. used' \in [Counters -> [Windows -> Nat]] /\ failed' \in BOOLEAN
  BY <1>1, RefundTakes DEF GivesBack
<1>3. ASSUME ~stepped PROVE MovesTo(c, y)
  <2>1. used[k0][at] > 0
    BY <1>3, HeldIsCounted DEF GivesBack
  <2>2. ASSUME NEW k \in Counters, NEW w \in Windows
        PROVE  /\ used'[k][w] >= used[k][w] - Bit(k = k0 /\ w = at)
               /\ ~failed' => used'[k][w] = used[k][w] - Bit(k = k0 /\ w = at)
    BY <1>1, <2>1, RefundTakes DEF Bit, GivesBack
  <2>3. ASSUME NEW k \in Counters, NEW w \in Windows
        PROVE  Bit(Holding(y, k, w)) - Bit(Holding(call[c], k, w)) = 0 - Bit(k = k0 /\ w = at)
    BY <1>3 DEF Bit, GivesBack
  <2>4. ~failed' => ~failed
    BY <1>1 DEF GivesBack
  <2>5. ASSUME NEW k \in Counters, NEW w \in Windows
        PROVE  used[k][w] \in Nat /\ Bit(k = k0 /\ w = at) \in Nat
    BY <1>1 DEF Bit
  <2> QED
    BY <1>2, <1>3, <2>2, <2>3, <2>4, <2>5 DEF MovesTo, GivesBack
<1>4. CallSteps(c, y)
  BY <1>2, <1>3 DEF CallSteps, GivesBack
<1> QED
  BY <1>4, CallStepsKeep

LEMMA ReleasePoolKeeps ==
    ASSUME QuotaInv, NEW c \in Calls, ReleasePoolQuietly(c) \/ ReleasePool(c)
    PROVE  QuotaInv'
<1> DEFINE at == call[c].at
<1>1. /\ call[c] \in QuotaCall /\ call[c].stage \in {"unpools", "releasesPool"}
      /\ call[c].who \in Sessions /\ Pool \in Counters
  BY DEF QuotaInv, QuotaTypeOK, QuotaCall, Windows, ReleasePoolQuietly, ReleasePool, Pooled, Counters
<1>2. at \in Windows
  BY <1>1 DEF QuotaCall
<1>3. PICK s \in {"refused", "released", "error"} :
        /\ GoesTo(c, s)
        /\ window' = window /\ stepped' = stepped
        /\ \/ Refund(Pool, at) /\ failed' = failed
           \/ (Refund(Pool, at) \/ UNCHANGED used) /\ failed' = TRUE
  BY DEF ReleasePoolQuietly, ReleasePool, Throws, Calm
<1> DEFINE y == [call[c] EXCEPT !.stage = s]
<1>4. s \in QuotaStages \ {"new"} /\ s \notin PoolStages
  BY DEF QuotaStages, PoolStages
<1>5. /\ y.stage = s /\ y.who = call[c].who /\ y.at = at
      /\ y \in QuotaCall
      /\ call' = [call EXCEPT ![c] = y]
      /\ call[c].who # Pool /\ call[c].who \in Principals
      /\ ~stepped => at <= window
  BY <1>1, <1>3, <1>4, StageKnown
<1> HIDE DEF y
<1>6. ASSUME NEW k \in Counters, NEW w \in Windows
      PROVE  /\ Holding(call[c], k, w) <=> k = Pool /\ w = at
             /\ ~Holding(y, k, w) /\ ~Admitted(y, k, w)
  BY <1>1, <1>3, <1>5 DEF Holding, Admitted, PoolGate, Granted
<1>7. y.stage # "new" /\ y.stage \notin PoolStages
  BY <1>4, <1>5
<1>8. ~stepped => /\ at = call[c].at /\ y.at = at /\ at <= window
                  /\ \A k \in Counters, w \in Windows :
                        /\ Holding(call[c], k, w) <=> \/ Holding(y, k, w)
                                                      \/ k = Pool /\ w = at
                        /\ ~(Holding(y, k, w) /\ k = Pool /\ w = at)
                        /\ Admitted(y, k, w) => Admitted(call[c], k, w)
  BY <1>5, <1>6
<1> HIDE DEF at
<1>9. \/ Refund(Pool, at) /\ failed' = failed
      \/ (Refund(Pool, at) \/ UNCHANGED used) /\ failed' = TRUE
  BY <1>3
<1>10. y \in QuotaCall /\ Pool \in Counters /\ at \in Windows
  BY <1>1, <1>2, <1>5
<1>11. GivesBack(c, y, Pool, at)
  BY <1>3, <1>5, <1>7, <1>8, <1>9 DEF GivesBack
<1> QED
  BY <1>10, <1>11, RefundKeeps

(* While the clock has not stepped back a refund is keyed as its           *)
(* reservation was.                                                        *)
LEMMA ReleaseOwnKeeps ==
    ASSUME QuotaInv, NEW c \in Calls, ReleaseOwn(c)
    PROVE  QuotaInv'
<1> DEFINE p == call[c].who
           at == RefundAt(c)
           s == IF Pooled(c) THEN "releasesPool" ELSE "released"
           y == [call[c] EXCEPT !.stage = s, !.at = at]
           z == [call[c] EXCEPT !.stage = "error"]
<1>1. /\ call[c] \in QuotaCall /\ call[c].stage = "releases" /\ window \in Windows
      /\ call \in [Calls -> QuotaCall]
  BY DEF QuotaInv, QuotaTypeOK, QuotaCall, Windows, ReleaseOwn
<1>2. p \in Principals /\ p # Pool /\ p \in Counters /\ (~stepped => call[c].at <= window)
  BY <1>1, QuotaAssumption DEF QuotaInv, KnownCalls, Principals, Counters
<1>3. at \in Windows /\ call[c].at \in Windows /\ (~stepped => at = call[c].at)
  BY <1>1, <1>2 DEF RefundAt, QuotaCall, Windows
<1>4. s \in QuotaStages \ {"new"} /\ s \in {"releasesPool", "released"}
      /\ (s = "releasesPool" <=> Pooled(c))
  BY DEF QuotaStages
<1>5. /\ y \in QuotaCall /\ y.stage = s /\ y.who = p /\ y.at = at
      /\ z \in QuotaCall /\ z.stage = "error" /\ z.who = p /\ z.at = call[c].at
  <2> HIDE DEF s, at
  <2> QED
    BY <1>1, <1>3, <1>4 DEF QuotaCall, QuotaStages
<1>6. CASE Refund(p, at) /\ call' = [call EXCEPT ![c] = y] /\ Calm
  <2> HIDE DEF y, s, z, at, p
  <2>1. ASSUME ~stepped, NEW k \in Counters, NEW w \in Windows
        PROVE  /\ Holding(call[c], k, w) <=> Holding(y, k, w) \/ (k = p /\ w = at)
               /\ ~(Holding(y, k, w) /\ k = p /\ w = at)
               /\ Admitted(y, k, w) => Admitted(call[c], k, w)
    BY <1>1, <1>2, <1>3, <1>4, <1>5, <2>1 DEF Holding, Admitted, PoolGate, Granted, Pooled, p
  <2>2. y.who = call[c].who /\ y.stage # "new" /\ (y.stage \in PoolStages => y.who \in Sessions)
    BY <1>4, <1>5 DEF PoolStages, Pooled, p
  <2>3. failed' = failed /\ window' = window /\ stepped' = stepped
    BY <1>6 DEF Calm
  <2>4. ~stepped => at = call[c].at /\ y.at = at /\ at <= window
    BY <1>2, <1>3, <1>5
  <2> QED
    BY <1>2, <1>3, <1>5, <1>6, <2>1, <2>2, <2>3, <2>4, RefundKeeps DEF GivesBack
<1>7. CASE Throws(c, "error", Refund(p, at))
  <2>1. call' = [call EXCEPT ![c] = z]
    BY <1>1, <1>7 DEF Throws, GoesTo
  <2>2. CASE ~stepped
    <3> HIDE DEF y, s, z, at, p
    <3>1. at = call[c].at /\ z.at = at /\ at <= window
      BY <1>2, <1>3, <1>5, <2>2
    <3> DEFINE Own(k, w) == k = p /\ w = at
    <3>2. ASSUME NEW k \in Counters, NEW w \in Windows
          PROVE  /\ ~Holding(z, k, w) /\ ~Admitted(z, k, w)
                 /\ Own(k, w) => Holding(call[c], k, w)
      BY <1>1, <1>2, <1>5, <3>1 DEF Holding, Admitted, PoolGate, Granted, p
    <3>3. used \in [Counters -> [Windows -> Nat]]
      BY DEF QuotaInv, QuotaTypeOK, Windows
    <3>4. used[p][at] > 0
      BY <1>2, <1>3, <3>2, <2>2, HeldIsCounted
    <3>5. /\ used' \in [Counters -> [Windows -> Nat]]
          /\ \A k \in Counters, w \in Windows : used'[k][w] >= used[k][w] - Bit(Own(k, w))
      <4>1. CASE Refund(p, at)
        BY <1>2, <1>3, <3>3, <3>4, <4>1, RefundTakes DEF Bit
      <4>2. CASE UNCHANGED used
        BY <3>3, <4>2 DEF Bit
      <4> QED
        BY <1>7, <4>1, <4>2 DEF Throws
    <3>6. ASSUME NEW k \in Counters, NEW w \in Windows
          PROVE  used'[k][w] >= used[k][w] + (Bit(Holding(z, k, w)) - Bit(Holding(call[c], k, w)))
      <4>1. used[k][w] \in Nat /\ used'[k][w] \in Nat
        BY <3>3, <3>5
      <4>2. Bit(Holding(z, k, w)) = 0 /\ Bit(Holding(call[c], k, w)) \in {0, 1}
        BY <3>2 DEF Bit
      <4>3. Bit(Own(k, w)) = 1 => Bit(Holding(call[c], k, w)) = 1
        BY <3>2 DEF Bit
      <4>4. Bit(Own(k, w)) \in {0, 1}
        BY DEF Bit
      <4> HIDE DEF Own
      <4> QED
        BY <3>5, <4>1, <4>2, <4>3, <4>4
    <3>7. MovesTo(c, z)
      BY <1>7, <2>1, <3>2, <3>5, <3>6 DEF MovesTo, Throws
    <3>8. z.stage \notin PoolStages /\ z.who \in Principals
      BY <1>2, <1>5 DEF PoolStages
    <3>9. CallSteps(c, z)
      BY <1>7, <2>1, <3>1, <3>5, <3>7, <3>8 DEF CallSteps, Throws
    <3> QED
      BY <1>5, <3>9, CallStepsKeep
  <2>3. CASE stepped
    <3> HIDE DEF y, s, z, at, p
    <3>1. used' \in [Counters -> [Windows -> Nat]]
      BY <1>2, <1>3, <1>7, RefundTakes DEF Throws, QuotaInv, QuotaTypeOK, Windows
    <3>2. z.stage \notin PoolStages /\ z.who \in Principals
      BY <1>2, <1>5 DEF PoolStages
    <3>3. CallSteps(c, z)
      BY <1>7, <2>1, <2>3, <3>1, <3>2 DEF CallSteps, Throws
    <3> QED
      BY <1>5, <3>3, CallStepsKeep
  <2> QED
    BY <2>2, <2>3
<1>8. y = [[call[c] EXCEPT !.stage = s] EXCEPT !.at = at]
  BY <1>1
<1>9. \/ Refund(p, at) /\ call' = [call EXCEPT ![c] = y] /\ Calm
      \/ Throws(c, "error", Refund(p, at))
  BY <1>1 DEF ReleaseOwn
<1> QED
  BY <1>6, <1>7, <1>9

(* The work is recorded: pool, then own counter.                           *)
LEMMA RecordPoolKeeps ==
    ASSUME QuotaInv, NEW c \in Calls, RecordPool(c)
    PROVE  QuotaInv'
<1> DEFINE at == call[c].at
<1>1. /\ call[c] \in QuotaCall /\ call[c].stage = "recordsPool" /\ call[c].who \in Sessions
      /\ used \in [Counters -> [Windows -> Nat]] /\ failed \in BOOLEAN /\ Pool \in Counters
  BY DEF QuotaInv, QuotaTypeOK, QuotaCall, Windows, RecordPool, Pooled, Counters
<1>2. at \in Windows
  BY <1>1 DEF QuotaCall
<1>3. PICK s \in {"records", "error"} :
        /\ GoesTo(c, s)
        /\ s = "records" => Count(Pool, at) /\ Calm
        /\ s = "error" => /\ (Count(Pool, at) \/ UNCHANGED used)
                          /\ failed' = TRUE /\ UNCHANGED <<window, stepped>>
  BY DEF RecordPool, Throws
<1>4. s \in QuotaStages \ {"new"} /\ s \notin PoolStages
  BY DEF QuotaStages, PoolStages
<1> DEFINE y == [call[c] EXCEPT !.stage = s]
<1>5. /\ y.stage = s /\ y.who = call[c].who /\ y.at = at
      /\ call' = [call EXCEPT ![c] = y] /\ call[c].who # Pool
  BY <1>1, <1>3, <1>4, StageKnown
<1> HIDE DEF y
<1>6. ASSUME NEW k \in Counters, NEW w \in Windows
      PROVE  /\ ~Holding(call[c], k, w) /\ ~Admitted(y, k, w)
             /\ Holding(y, k, w) <=> s = "records" /\ k = Pool /\ w = at
  BY <1>1, <1>3, <1>5 DEF Holding, Admitted, PoolGate, Granted
<1>7. /\ used' \in [Counters -> [Windows -> Nat]]
      /\ \A k \in Counters, w \in Windows :
            /\ used'[k][w] >= used[k][w] + Bit(s = "records" /\ k = Pool /\ w = at)
            /\ s # "error" => used'[k][w] = used[k][w] + Bit(s = "records" /\ k = Pool /\ w = at)
  BY <1>1, <1>2, <1>3, CountAdds DEF Bit
<1>8. MovesTo(c, y)
  <2>1. ASSUME NEW k \in Counters, NEW w \in Windows
        PROVE  Bit(Holding(y, k, w)) - Bit(Holding(call[c], k, w))
                  = Bit(s = "records" /\ k = Pool /\ w = at)
    BY <1>6 DEF Bit
  <2>2. ~failed' => s # "error" /\ ~failed
    BY <1>1, <1>3 DEF Calm
  <2> QED
    BY <1>5, <1>6, <1>7, <2>1, <2>2 DEF MovesTo
<1>9. failed' \in BOOLEAN /\ window' = window /\ stepped' = stepped
  BY <1>1, <1>3 DEF Calm
<1> QED
  BY <1>1, <1>3, <1>4, <1>7, <1>8, <1>9, StageKeeps DEF y

LEMMA RecordOwnKeeps ==
    ASSUME QuotaInv, NEW c \in Calls, RecordOwn(c)
    PROVE  QuotaInv'
<1> DEFINE at == call[c].at
           p == call[c].who
<1>1. /\ call[c] \in QuotaCall /\ call[c].stage = "records"
      /\ used \in [Counters -> [Windows -> Nat]] /\ failed \in BOOLEAN
  BY DEF QuotaInv, QuotaTypeOK, QuotaCall, Windows, RecordOwn
<1>2. at \in Windows /\ p \in Counters
  BY <1>1 DEF QuotaCall
<1>3. PICK s \in {"recorded", "error"} :
        /\ GoesTo(c, s)
        /\ s = "recorded" => Count(p, at) /\ Calm
        /\ s = "error" => /\ (Count(p, at) \/ UNCHANGED used)
                          /\ failed' = TRUE /\ UNCHANGED <<window, stepped>>
  BY DEF RecordOwn, Throws
<1>4. s \in QuotaStages \ {"new"} /\ s \notin PoolStages
  BY DEF QuotaStages, PoolStages
<1> DEFINE y == [call[c] EXCEPT !.stage = s]
<1>5. /\ y.stage = s /\ y.who = p /\ y.at = at
      /\ call' = [call EXCEPT ![c] = y] /\ p # Pool
  BY <1>1, <1>3, <1>4, StageKnown
<1> HIDE DEF y
<1>6. ASSUME NEW k \in Counters, NEW w \in Windows
      PROVE  /\ ~Admitted(y, k, w)
             /\ Bit(Holding(y, k, w)) <= Bit(Holding(call[c], k, w))
                                            + Bit(s = "recorded" /\ k = p /\ w = at)
             /\ s = "recorded" => Bit(Holding(y, k, w)) = Bit(Holding(call[c], k, w))
                                                             + Bit(k = p /\ w = at)
             /\ Bit(Holding(y, k, w)) \in {0, 1} /\ Bit(Holding(call[c], k, w)) \in {0, 1}
  BY <1>1, <1>3, <1>5 DEF Holding, Admitted, PoolGate, Granted, Bit
<1>7. /\ used' \in [Counters -> [Windows -> Nat]]
      /\ \A k \in Counters, w \in Windows :
            /\ used'[k][w] >= used[k][w] + Bit(s = "recorded" /\ k = p /\ w = at)
            /\ s # "error" => used'[k][w] = used[k][w] + Bit(k = p /\ w = at)
  BY <1>1, <1>2, <1>3, CountAdds DEF Bit
<1>8. MovesTo(c, y)
  <2>1. ~failed' => s = "recorded" /\ ~failed
    BY <1>1, <1>3 DEF Calm
  <2>2. ASSUME NEW k \in Counters, NEW w \in Windows
        PROVE  /\ used[k][w] \in Nat /\ used'[k][w] \in Nat
               /\ Bit(s = "recorded" /\ k = p /\ w = at) \in {0, 1}
               /\ Bit(k = p /\ w = at) \in {0, 1}
    BY <1>1, <1>7 DEF Bit
  <2>3. ASSUME NEW k \in Counters, NEW w \in Windows
        PROVE  LET more == Bit(Holding(y, k, w)) - Bit(Holding(call[c], k, w))
               IN  /\ used'[k][w] >= used[k][w] + more
                   /\ ~failed' => used'[k][w] = used[k][w] + more
    BY <1>3, <1>6, <1>7, <2>1, <2>2
  <2> QED
    BY <1>5, <1>6, <1>7, <2>1, <2>3 DEF MovesTo
<1>9. failed' \in BOOLEAN /\ window' = window /\ stepped' = stepped
  BY <1>1, <1>3 DEF Calm
<1> QED
  BY <1>1, <1>3, <1>4, <1>7, <1>8, <1>9, StageKeeps DEF y

(* The work ends, or the process does: what was taken stays taken.         *)
LEMMA RestKeeps ==
    ASSUME QuotaInv, NEW c \in Calls, Works(c) \/ CallDies(c)
    PROVE  QuotaInv'
<1> DEFINE at == call[c].at
<1>1. /\ call[c] \in QuotaCall /\ call[c].stage # "new"
      /\ used \in [Counters -> [Windows -> Nat]] /\ failed \in BOOLEAN
  BY DEF QuotaInv, QuotaTypeOK, QuotaCall, Windows, Works, CallDies
<1>2. PICK s \in {"done", "releases", "error"} :
        /\ GoesTo(c, s)
        /\ s \in {"done", "releases"} => call[c].stage = "works" /\ failed' = failed
        /\ s = "error" => failed' = TRUE
        /\ UNCHANGED <<window, used, stepped>>
  BY DEF Works, CallDies
<1>3. s \in QuotaStages \ {"new"} /\ s \notin PoolStages
  BY DEF QuotaStages, PoolStages
<1> DEFINE y == [call[c] EXCEPT !.stage = s]
<1>4. /\ y.stage = s /\ y.who = call[c].who /\ y.at = at
      /\ call' = [call EXCEPT ![c] = y] /\ call[c].who # Pool
  BY <1>1, <1>2, <1>3, StageKnown
<1> HIDE DEF y
<1>5. ASSUME NEW k \in Counters, NEW w \in Windows
      PROVE  /\ Holding(y, k, w) => Holding(call[c], k, w)
             /\ s # "error" => (Holding(y, k, w) <=> Holding(call[c], k, w))
             /\ Admitted(y, k, w) => Admitted(call[c], k, w)
  BY <1>1, <1>2, <1>4 DEF Holding, Admitted, PoolGate, Granted
<1>6. MovesTo(c, y)
  <2>1. ~failed' => s # "error" /\ ~failed
    BY <1>1, <1>2
  <2>2. ASSUME NEW k \in Counters, NEW w \in Windows
        PROVE  /\ used[k][w] \in Nat
               /\ Bit(Holding(y, k, w)) - Bit(Holding(call[c], k, w)) \in {0, -1}
               /\ s # "error" => Bit(Holding(y, k, w)) - Bit(Holding(call[c], k, w)) = 0
    BY <1>1, <1>5 DEF Bit
  <2> QED
    BY <1>1, <1>2, <1>4, <1>5, <2>1, <2>2 DEF MovesTo
<1> QED
  BY <1>1, <1>2, <1>3, <1>6, StageKeeps DEF y

LEMMA ClockKeeps == QuotaInv /\ ClockMoves => QuotaInv'
<1> SUFFICES ASSUME QuotaInv, ClockMoves PROVE QuotaInv'
  OBVIOUS
<1>1. /\ used' = used /\ call' = call /\ failed' = failed
      /\ window' \in 0 .. MaxWindow /\ stepped' \in BOOLEAN
      /\ ~stepped' => ~stepped /\ window' = window + 1
  <2>1. window \in 0 .. MaxWindow /\ MaxWindow \in Nat /\ stepped \in BOOLEAN
    BY QuotaAssumption DEF QuotaInv, QuotaTypeOK
  <2>2. CASE window < MaxWindow /\ window' = window + 1 /\ UNCHANGED <<used, call, failed, stepped>>
    BY <2>1, <2>2
  <2>3. CASE window > 0 /\ window' = window - 1 /\ stepped' = TRUE /\ UNCHANGED <<used, call, failed>>
    BY <2>1, <2>3
  <2> QED
    BY <2>2, <2>3 DEF ClockMoves
<1>2. QuotaTypeOK' /\ KnownCalls'
  BY <1>1 DEF QuotaInv, QuotaTypeOK, KnownCalls, Pooled
<1>3. ASSUME ~stepped'
      PROVE  /\ \A c \in Calls : call'[c].at <= window'
             /\ \A k \in Counters, w \in Windows : Booked(k, w)'
  <2>1. \A c \in Calls : call[c].at \in Nat /\ window \in Nat
    BY DEF QuotaInv, QuotaTypeOK
  <2>2. \A k \in Counters, w \in Windows : Booked(k, w)
    BY <1>1, <1>3 DEF QuotaInv
  <2>3. \A c \in Calls : call[c].at <= window
    BY <1>1, <1>3 DEF QuotaInv
  <2> QED
    BY <1>1, <1>3, <2>1, <2>2, <2>3 DEF Booked, LimitOf
<1> QED
  BY <1>2, <1>3 DEF QuotaInv, Windows

LEMMA QuotaStarts == QuotaInit => QuotaInv
<1> SUFFICES ASSUME QuotaInit PROVE QuotaInv
  OBVIOUS
<1>1. 0 \in Windows /\ Pool \in Counters /\ "new" \in QuotaStages
  BY QuotaAssumption DEF Windows, Counters, QuotaStages
<1>2. /\ \A c \in Calls : call[c] = [stage |-> "new", who |-> Pool, at |-> 0]
      /\ \A k \in Counters, w \in Windows : used[k][w] = 0
      /\ window = 0 /\ ~failed /\ ~stepped
  BY DEF QuotaInit, Windows
<1>3. QuotaTypeOK /\ KnownCalls
  BY <1>1, <1>2 DEF QuotaInit, QuotaTypeOK, KnownCalls, Windows
<1>4. ASSUME NEW k \in Counters, NEW w \in Windows
      PROVE  Booked(k, w)
  <2>1. Holders(call, k, w) = {} /\ Admits(call, k, w) = {}
    BY <1>2 DEF Holders, Admits, Holding, Admitted, PoolGate, Granted
  <2>2. LimitOf(k) \in Nat
    BY QuotaAssumption DEF LimitOf
  <2> QED
    BY <1>2, <2>1, <2>2, FS_EmptySet DEF Booked
<1>5. \A c \in Calls : call[c].at <= window
  BY <1>2
<1> QED
  BY <1>3, <1>4, <1>5 DEF QuotaInv

LEMMA QuotaStepKeeps == QuotaInv /\ [QuotaNext]_quotaVars => QuotaInv'
<1> SUFFICES ASSUME QuotaInv, [QuotaNext]_quotaVars PROVE QuotaInv'
  OBVIOUS
<1>1. CASE \E c \in Calls, p \in Principals : Reserve(c, p) \/ Record(c, p)
  BY <1>1, StartsKeeps
<1>2. CASE \E c \in Calls : ReservePool(c)
  BY <1>2, ReservePoolKeeps
<1>3. CASE \E c \in Calls : ReserveOwn(c)
  BY <1>3, ReserveOwnKeeps
<1>4. CASE \E c \in Calls : ReleasePoolQuietly(c) \/ ReleasePool(c)
  BY <1>4, ReleasePoolKeeps
<1>5. CASE \E c \in Calls : ReleaseOwn(c)
  BY <1>5, ReleaseOwnKeeps
<1>6. CASE \E c \in Calls : RecordPool(c)
  BY <1>6, RecordPoolKeeps
<1>7. CASE \E c \in Calls : RecordOwn(c)
  BY <1>7, RecordOwnKeeps
<1>8. CASE \E c \in Calls : Works(c) \/ CallDies(c)
  BY <1>8, RestKeeps
<1>9. CASE ClockMoves
  BY <1>9, ClockKeeps
<1>10. CASE UNCHANGED quotaVars
  <2>1. QuotaTypeOK'
    BY <1>10 DEF quotaVars, QuotaInv, QuotaTypeOK, Pooled
  <2>2. KnownCalls'
    BY <1>10 DEF quotaVars, QuotaInv, KnownCalls
  <2>3. \A k \in Counters, w \in Windows : Booked(k, w)' = Booked(k, w)
    BY <1>10 DEF quotaVars, Booked, LimitOf
  <2> QED
    BY <1>10, <2>1, <2>2, <2>3 DEF quotaVars, QuotaInv
<1> QED
  BY <1>1, <1>2, <1>3, <1>4, <1>5, <1>6, <1>7, <1>8, <1>9, <1>10 DEF QuotaNext

LEMMA QuotaInvIsSafe == QuotaInv => QuotaSafe
<1> SUFFICES ASSUME QuotaInv PROVE QuotaSafe
  OBVIOUS
<1>1. call \in [Calls -> QuotaCall]
  BY DEF QuotaInv, QuotaTypeOK, QuotaCall, Windows
<1>2. ASSUME NEW c \in Calls, call[c].stage # "new" PROVE call[c].who # Pool
  BY <1>2, QuotaAssumption DEF QuotaInv, KnownCalls, Principals
<1>3. ASSUME NEW k \in Counters, NEW w \in Windows
      PROVE  /\ In(Granted, k, w) \subseteq Admits(call, k, w)
             /\ In(Granted \cup {"recorded"}, k, w) \subseteq Holders(call, k, w)
  BY <1>1, <1>2 DEF In, Granted, Admits, Holders, Admitted, Holding, PoolGate, Pooled
<1>4. ASSUME NEW k \in Counters, NEW w \in Windows
      PROVE  /\ Cardinality(In(Granted, k, w)) <= Cardinality(Admits(call, k, w))
             /\ Cardinality(In(Granted \cup {"recorded"}, k, w)) <= Cardinality(Holders(call, k, w))
             /\ Cardinality(In(Granted, k, w)) \in Nat
             /\ Cardinality(In(Granted \cup {"recorded"}, k, w)) \in Nat
  <2>1. IsFiniteSet(Admits(call, k, w)) /\ IsFiniteSet(Holders(call, k, w))
    BY QuotaAssumption, FS_Subset DEF Admits, Holders
  <2> QED
    BY <1>3, <2>1, FS_Subset, FS_CardinalityType
<1>5. ASSUME ~stepped, NEW k \in Counters, NEW w \in Windows
      PROVE  /\ Booked(k, w) /\ LimitOf(k) \in Nat /\ used[k][w] \in Nat
             /\ Cardinality(Admits(call, k, w)) \in Nat /\ Cardinality(Holders(call, k, w)) \in Nat
  BY <1>5, AdmittedIsHeld, QuotaAssumption DEF QuotaInv, LimitOf, QuotaTypeOK, Windows
<1>6. GateHolds
  BY <1>4, <1>5 DEF GateHolds, Booked, Windows
<1>7. FailsClosed
  <2> SUFFICES ASSUME ~stepped, NEW k \in Counters, NEW w \in Windows
               PROVE  used[k][w] >= Cardinality(In(Granted \cup {"recorded"}, k, w))
    BY DEF FailsClosed, Windows
  <2> QED
    BY <1>4, <1>5 DEF Booked
<1>8. ASSUME \A c \in Calls : call[c].stage \notin Busy, NEW k \in Counters, NEW w \in Windows
      PROVE  In({"works", "done", "recorded"}, k, w) = Holders(call, k, w)
  BY <1>1, <1>2, <1>8 DEF In, Granted, Holders, Holding, PoolGate, Pooled, Busy, QuotaStages,
                          QuotaCall
<1>9. Exact
  BY <1>5, <1>8 DEF Exact, Booked, Windows
<1> QED
  BY <1>6, <1>7, <1>9 DEF QuotaSafe

(* The work let through in a window and not given back fits the limit of   *)
(* its principal and of the pool, at rest a counter says it exactly, and a *)
(* failure gives nothing away, for any calls, principals and limits.       *)
THEOREM QuotaIsSafe == QuotaSpec => []QuotaSafe
<1>1. QuotaInit => QuotaInv
  BY QuotaStarts
<1>2. QuotaInv /\ [QuotaNext]_quotaVars => QuotaInv'
  BY QuotaStepKeeps
<1>3. QuotaInv => QuotaSafe
  BY QuotaInvIsSafe
<1> QED
  BY <1>1, <1>2, <1>3, PTL DEF QuotaSpec

(* The types of the quotas; only work of a pooled principal stands at a    *)
(* step of the pool.                                                       *)
THEOREM QuotaTypesKept == QuotaSpec => []QuotaTypeOK
<1>1. QuotaInv => QuotaTypeOK
  BY DEF QuotaInv
<1> QED
  BY <1>1, QuotaStarts, QuotaStepKeeps, PTL DEF QuotaSpec

-----------------------------------------------------------------------------

Times == 0 .. listTime

ListCall ==
    {NoListCall} \cup [pc : {"add"}, issuedAt : Times] \cup [pc : {"remove", "row", "prune"}, at : Times]

(* Who writes the row wrote the mark and holds the lock; the mark of the   *)
(* newest unsubscribe is there until no link from before it works.         *)
MarkStands ==
    /\ \A c \in ListCalls : listCall[c].pc = "row" => mark = listCall[c].at
    /\ leftAt # NoTime => mark >= leftAt \/ leftAt + Ttl < listTime

ListInv ==
    /\ listTime \in Nat /\ links \subseteq Times
    /\ mark \in Times \cup {NoTime} /\ leftAt \in Times \cup {NoTime}
    /\ listCall \in [ListCalls -> ListCall]
    /\ listed \in BOOLEAN /\ back \in BOOLEAN /\ excused \in BOOLEAN
    /\ ~excused => ~back /\ MarkStands

LEMMA ListStarts == ListInit => ListInv
<1> SUFFICES ASSUME ListInit PROVE ListInv
  OBVIOUS
<1>1. \A c \in ListCalls : listCall[c] = NoListCall
  BY DEF ListInit
<1>2. listCall \in [ListCalls -> ListCall]
  BY DEF ListInit, ListCall
<1>3. ASSUME NEW c \in ListCalls PROVE listCall[c].pc # "row"
  <2>1. NoListCall.pc = "idle"
    BY DEF NoListCall
  <2> QED
    BY <1>1, <2>1
<1>4. listed \in BOOLEAN /\ back \in BOOLEAN /\ excused \in BOOLEAN /\ ~back
  BY DEF ListInit
<1> QED
  BY <1>2, <1>3, <1>4 DEF ListInit, ListInv, MarkStands, Times, NoTime

(* What a call is, once it is known where it stands.                       *)
LEMMA CallAt ==
    ASSUME ListInv, NEW c \in ListCalls
    PROVE  /\ listCall[c].pc = "add" => listCall[c].issuedAt \in Times
           /\ listCall[c].pc \in {"remove", "row", "prune"} =>
                 listCall[c] = [pc |-> listCall[c].pc, at |-> listCall[c].at] /\ listCall[c].at \in Times
<1>1. listCall[c] \in ListCall
  BY DEF ListInv
<1>2. CASE listCall[c] = NoListCall
  BY <1>2 DEF NoListCall
<1>3. CASE listCall[c] \in [pc : {"add"}, issuedAt : Times]
  BY <1>3
<1>4. CASE listCall[c] \in [pc : {"remove", "row", "prune"}, at : Times]
  BY <1>4
<1> QED
  BY <1>1, <1>2, <1>3, <1>4 DEF ListCall

LEMMA ListStepKeeps == ListInv /\ [ListNext]_listVars => ListInv'
<1> SUFFICES ASSUME ListInv, [ListNext]_listVars PROVE ListInv'
  OBVIOUS
<1> USE SubscribersAssumption
<1>a. NoListCall.pc = "idle"
  BY DEF NoListCall
<1>1. CASE ListTimeGoes
  <2>1. listTime' = listTime + 1 /\ UNCHANGED <<links, listed, mark, listCall, leftAt, back, excused>>
    BY <1>1 DEF ListTimeGoes
  <2>2. Times \subseteq Times' /\ listTime' \in Nat /\ listTime \in Nat
    BY <2>1 DEF ListInv, Times
  <2>3. ListCall \subseteq ListCall'
    BY <2>2 DEF ListCall
  <2>4. ASSUME MarkStands PROVE MarkStands'
    <3>1. leftAt # NoTime => leftAt \in Nat
      BY DEF ListInv, Times
    <3> QED
      BY <2>1, <2>2, <2>4, <3>1 DEF MarkStands
  <2> QED
    BY <2>1, <2>2, <2>3, <2>4 DEF ListInv
<1>2. CASE RequestSubscription
  <2>1. listTime \in Times
    BY DEF ListInv, Times
  <2> QED
    BY <1>2, <2>1 DEF RequestSubscription, ListInv, MarkStands, Times, ListCall
<1>3. ASSUME NEW c \in ListCalls, NEW what \in ListCall, what.pc # "row", ListCallStarts(c, what)
      PROVE  ListInv'
  <2>1. listCall' = [listCall EXCEPT ![c] = what]
        /\ UNCHANGED <<listTime, links, listed, mark, leftAt, back, excused>>
    BY <1>3 DEF ListCallStarts
  <2>2. listCall' \in [ListCalls -> ListCall]
    BY <2>1 DEF ListInv
  <2>3. MarkStands => MarkStands'
    BY <1>3, <2>1 DEF MarkStands, ListInv
  <2> QED
    BY <2>1, <2>2, <2>3 DEF ListInv, Times, ListCall
<1>4. ASSUME NEW c \in ListCalls, Unsubscribe(c) \/ UnsubscribeAnother(c)
      PROVE  ListInv'
  <2>1. PICK step \in {"remove", "prune"} : ListCallStarts(c, [pc |-> step, at |-> listTime])
    BY <1>4 DEF Unsubscribe, UnsubscribeAnother
  <2>2. [pc |-> step, at |-> listTime] \in ListCall
    BY DEF ListCall, Times, ListInv
  <2> QED
    BY <1>3, <2>1, <2>2
<1>5. ASSUME NEW c \in ListCalls, NEW link \in links, Confirm(c, link)
      PROVE  ListInv'
  <2>1. [pc |-> "add", issuedAt |-> link] \in ListCall
    BY DEF ListCall, ListInv
  <2> QED
    BY <1>3, <1>5, <2>1 DEF Confirm
<1>6. ASSUME NEW c \in ListCalls, AddRow(c)
      PROVE  ListInv'
  <2> DEFINE link == listCall[c].issuedAt
  <2>1. /\ link \in Times /\ listCall' = [listCall EXCEPT ![c] = NoListCall]
        /\ UNCHANGED <<listTime, links, mark, leftAt>>
        /\ listed' = (listed \/ ~Replays(link))
        /\ back' = (back \/ (~listed /\ listed' /\ link <= leftAt))
        /\ excused' = (excused \/ ~Alive(link))
    BY <1>6, CallAt DEF AddRow, ListCallEnds
  <2>2. listCall' \in [ListCalls -> ListCall]
    BY <2>1 DEF ListInv, ListCall
  <2>3. MarkStands => MarkStands'
    BY <1>a, <2>1 DEF MarkStands, ListInv
  <2>4. ASSUME MarkStands, ~Replays(link), link <= leftAt
        PROVE  ~Alive(link)
    <3>1. /\ link \in Nat /\ listTime \in Nat /\ leftAt \in Nat \cup {NoTime}
          /\ mark \in Nat \cup {NoTime}
      BY <2>1 DEF ListInv, Times
    <3> HIDE DEF link
    <3> QED
      BY <2>4, <3>1 DEF MarkStands, Replays, Alive, NoTime
  <2>5. ~excused' => ~back'
    BY <2>1, <2>4 DEF ListInv
  <2>6. listed' \in BOOLEAN /\ back' \in BOOLEAN /\ excused' \in BOOLEAN
    BY <2>1 DEF ListInv
  <2>7. ~excused' => ~excused
    BY <2>1
  <2> QED
    BY <2>1, <2>2, <2>3, <2>5, <2>6, <2>7 DEF ListInv, Times, ListCall
<1>7. ASSUME NEW c \in ListCalls, WriteMark(c)
      PROVE  ListInv'
  <2> DEFINE at == listCall[c].at
  <2>1. /\ listCall[c] = [pc |-> "remove", at |-> at] /\ at \in Times
        /\ UNCHANGED <<listTime, links, listed, back>>
        /\ mark' = at /\ excused' = (excused \/ at < mark)
        /\ LockFree
        /\ \/ listCall' = [listCall EXCEPT ![c].pc = "row"] /\ leftAt' = leftAt
           \/ listCall' = [listCall EXCEPT ![c] = NoListCall] /\ Left(at)
    BY <1>7, CallAt DEF WriteMark, ListCallEnds
  <2>2. [listCall[c] EXCEPT !.pc = "row"] = [pc |-> "row", at |-> at]
    BY <2>1
  <2>3. [pc |-> "row", at |-> at] \in ListCall /\ NoListCall \in ListCall
    BY <2>1 DEF ListCall
  <2>4. listCall' \in [ListCalls -> ListCall]
    BY <2>1, <2>2, <2>3 DEF ListInv
  <2>5. leftAt' \in Times \cup {NoTime}
    BY <2>1 DEF Left, ListInv, Times
  <2>6. \A d \in ListCalls : listCall'[d].pc = "row" => listCall'[d].at = at
    BY <1>a, <2>1, <2>2 DEF LockFree, ListInv
  <2>7. ASSUME ~excused', leftAt' # NoTime
        PROVE  mark' >= leftAt' \/ leftAt' + Ttl < listTime'
    <3>1. /\ at \in Nat /\ listTime \in Nat /\ leftAt \in Nat \cup {NoTime}
          /\ mark \in Nat \cup {NoTime}
      BY <2>1 DEF ListInv, Times
    <3>2. ~excused /\ ~(at < mark) /\ MarkStands
      BY <2>1, <2>7 DEF ListInv
    <3>3. leftAt' = leftAt \/ Left(at)
      BY <2>1
    <3>4. mark' = at /\ listTime' = listTime
      BY <2>1
    <3> HIDE DEF at
    <3> QED
      BY <2>7, <3>1, <3>2, <3>3, <3>4 DEF MarkStands, Left, NoTime
  <2>8. ~excused' => MarkStands'
    BY <2>1, <2>6, <2>7 DEF MarkStands
  <2>9. excused' \in BOOLEAN /\ (~excused' => ~excused)
    BY <2>1 DEF ListInv
  <2> QED
    BY <2>1, <2>4, <2>5, <2>8, <2>9 DEF ListInv, Times, ListCall
<1>8. ASSUME NEW c \in ListCalls, RemoveRow(c)
      PROVE  ListInv'
  <2> DEFINE at == listCall[c].at
  <2>1. /\ listCall[c].pc = "row" /\ at \in Times /\ listed' = FALSE
        /\ listCall' = [listCall EXCEPT ![c] = NoListCall] /\ Left(at)
        /\ UNCHANGED <<listTime, links, mark, back, excused>>
    BY <1>8, CallAt DEF RemoveRow, ListCallEnds
  <2>2. listCall' \in [ListCalls -> ListCall]
    BY <2>1 DEF ListInv, ListCall
  <2>3. leftAt' \in Times \cup {NoTime}
    BY <2>1 DEF Left, ListInv
  <2>4. MarkStands => MarkStands'
    <3>1. \A d \in ListCalls : listCall'[d].pc = "row" => listCall'[d] = listCall[d]
      BY <1>a, <2>1 DEF ListInv
    <3>2. at \in Nat /\ mark \in Nat \cup {NoTime} /\ leftAt \in Nat \cup {NoTime}
      BY <2>1 DEF ListInv, Times
    <3> QED
      BY <2>1, <3>1, <3>2 DEF MarkStands, Left, NoTime
  <2> QED
    BY <2>1, <2>2, <2>3, <2>4 DEF ListInv, Times, ListCall
<1>9. ASSUME NEW c \in ListCalls, DropMark(c)
      PROVE  ListInv'
  <2> DEFINE at == listCall[c].at
  <2>1. /\ at \in Times /\ LockFree
        /\ mark' = IF Pruned(at) THEN NoTime ELSE mark
        /\ listCall' = [listCall EXCEPT ![c] = NoListCall]
        /\ UNCHANGED <<listTime, links, listed, leftAt, back, excused>>
    BY <1>9, CallAt DEF DropMark, ListCallEnds
  <2>2. listCall' \in [ListCalls -> ListCall]
    BY <2>1 DEF ListInv, ListCall
  <2>3. ASSUME MarkStands PROVE MarkStands'
    <3>1. \A d \in ListCalls : listCall'[d].pc # "row"
      BY <1>a, <2>1 DEF LockFree, ListInv
    <3>2. /\ at \in Times /\ listTime \in Nat /\ mark \in Nat \cup {NoTime}
          /\ leftAt \in Nat \cup {NoTime}
      BY <2>1 DEF ListInv, Times
    <3>3. leftAt # NoTime => mark' >= leftAt \/ leftAt + Ttl < listTime
      <4> HIDE DEF at
      <4> QED
        BY <2>1, <2>3, <3>2 DEF MarkStands, Pruned, NoTime, Times
    <3> QED
      BY <2>1, <3>1, <3>3 DEF MarkStands
  <2> QED
    BY <2>1, <2>2, <2>3 DEF ListInv, Times, ListCall
<1>10. ASSUME NEW c \in ListCalls, ListCallFails(c)
       PROVE  ListInv'
  <2>1. /\ listCall' = [listCall EXCEPT ![c] = NoListCall]
        /\ UNCHANGED <<listTime, links, listed, mark, leftAt, back, excused>>
    BY <1>10 DEF ListCallFails, ListCallEnds
  <2>2. listCall' \in [ListCalls -> ListCall]
    BY <2>1 DEF ListInv, ListCall
  <2>3. MarkStands => MarkStands'
    BY <1>a, <2>1 DEF MarkStands, ListInv
  <2> QED
    BY <2>1, <2>2, <2>3 DEF ListInv, Times, ListCall
<1>11. CASE UNCHANGED listVars
  BY <1>11 DEF listVars, ListInv, Times, ListCall, MarkStands
<1> QED
  BY <1>1, <1>2, <1>4, <1>5, <1>6, <1>7, <1>8, <1>9, <1>10, <1>11 DEF ListNext

(* No link issued before an unsubscribe brings the address back, in        *)
(* whatever order calls take the lock, but for the excuses of `excused`.   *)
THEOREM NoLinkReplays == ListSpec => []NoReplay
<1>1. ListInv => NoReplay
  BY DEF ListInv, NoReplay
<1> QED
  BY <1>1, ListStarts, ListStepKeeps, PTL DEF ListSpec

(* The types of a list's address.                                          *)
THEOREM ListTypesKept == ListSpec => []ListTypeOK
<1>1. ListInv => ListTypeOK
  <2>. SUFFICES ASSUME ListInv PROVE ListTypeOK
    OBVIOUS
  <2>1. \A c \in ListCalls : listCall[c] \in ListCall
    BY DEF ListInv
  <2>2. \A c \in ListCalls : listCall[c].pc \in {"idle", "add", "remove", "row", "prune"}
    BY <2>1 DEF ListCall, NoListCall
  <2>. QED
    BY <2>2 DEF ListInv, ListTypeOK, Times
<1> QED
  BY <1>1, ListStarts, ListStepKeeps, PTL DEF ListSpec

-----------------------------------------------------------------------------
(* A claim belongs to the input of the request that holds it, and a stored *)
(* result to a run that took effect.                                       *)
RowFits ==
    /\ Exists => row.input = Input[row.token]
    /\ row.status = "started" => row.token \in claims
    /\ row.status = "done" => row.result = row.token /\ row.result \in effects

(* Whoever is about to take a claim over has its input, unless the claim   *)
(* is younger than the look it had at the row.                             *)
TakerFits ==
    \A r \in Requests : pc[r] = "taking" =>
        /\ age[r] <= HeldUp
        /\ row.status = "started" => row.input = Input[r] \/ row.updatedAgo <= age[r]

(* A run that is not older than the lease still owns the key.              *)
YoungOwns ==
    \A r \in Requests : pc[r] = "running" /\ age[r] <= Lease =>
        Owns(r) /\ row.updatedAgo = age[r] /\ row.createdAgo = age[r]

(* A request has an answer only at its end, and one claim at most.         *)
OneClaim ==
    \A r \in Requests :
        /\ pc[r] # "done" => answer[r] = Nobody
        /\ pc[r] = "completing" => r \in effects
        /\ r \in claims \cup taken => pc[r] \in {"running", "completing", "releasing", "done"}

(* Each claim that was not given back replaced one that was over, but for  *)
(* the claim of a free key.                                                *)
ClaimsCount ==
    Cardinality(claims) <= (IF Exists THEN 1 ELSE 0) + Cardinality(taken)

Inv == TypeOK /\ RowFits /\ TakerFits /\ YoungOwns /\ OneClaim /\ AnswerFits /\ ClaimsCount

Begun == {"new", "waiting", "inserting", "reading", "taking"}
Idle == {"waiting", "inserting", "reading", "releasing", "done"}

-----------------------------------------------------------------------------
LEMMA Numbers ==
  /\ Lease \in Nat /\ Retention \in Nat /\ Lease <= Retention
  /\ HeldUp \in Nat /\ HeldUp <= Lease
  /\ MaxPolls \in Nat /\ MaxTries \in Nat /\ MaxTries > 0
  /\ Nobody \notin Requests /\ IsFiniteSet(Requests)
  BY IdempotencyAssumption DEF IdempotencyAssumption

LEMMA Counting ==
  ASSUME claims \subseteq Requests, taken \subseteq Requests
  PROVE  /\ IsFiniteSet(claims) /\ IsFiniteSet(taken)
         /\ Cardinality(claims) \in Nat /\ Cardinality(taken) \in Nat
  BY Numbers, FS_Subset, FS_CardinalityType

LEMMA OneMore ==
  ASSUME NEW S, IsFiniteSet(S), NEW x
  PROVE  /\ Cardinality(S \cup {x}) \in Nat
         /\ Cardinality(S \cup {x}) <= Cardinality(S) + 1
         /\ x \notin S => Cardinality(S \cup {x}) = Cardinality(S) + 1
<1>1. IsFiniteSet(S \cup {x}) /\ Cardinality(S) \in Nat
  BY FS_AddElement, FS_CardinalityType
<1>2. Cardinality(S \cup {x}) = IF x \in S THEN Cardinality(S) ELSE Cardinality(S) + 1
  BY FS_AddElement
<1>3. Cardinality(S \cup {x}) \in Nat
  BY <1>1, FS_CardinalityType
<1> QED
  BY <1>1, <1>2, <1>3

LEMMA NewRowType ==
  ASSUME NEW r \in Requests PROVE Started(r) \in Rows
  BY Numbers DEF Started, Rows, Inputs

(* What a step of a request does to its locals.                            *)
LEMMA PcGoesTo ==
  ASSUME TypeOK, NEW r \in Requests, NEW stage \in Stages,
         NEW attempt \in 0 .. MaxTries, NEW waited \in 0 .. MaxPolls,
         Goes(r, stage, attempt, waited)
  PROVE  /\ pc' \in [Requests -> Stages]
         /\ tries' \in [Requests -> 0 .. MaxTries]
         /\ polls' \in [Requests -> 0 .. MaxPolls]
         /\ age' \in [Requests -> 0 .. Lease + 1]
         /\ pc'[r] = stage /\ age'[r] = 0
         /\ \A q \in Requests : q # r => pc'[q] = pc[q] /\ age'[q] = age[q]
  BY Numbers DEF TypeOK, Goes

(* A step that only moves a request, and not into a run or a takeover.     *)
LEMMA Quiet ==
  ASSUME Inv, NEW r \in Requests, NEW stage \in Idle,
         NEW attempt \in 0 .. MaxTries, NEW waited \in 0 .. MaxPolls,
         Goes(r, stage, attempt, waited), pc[r] # "done",
         pc[r] \in Begun \/ stage \in {"releasing", "done"},
         UNCHANGED <<row, answer, history>>
  PROVE  Inv'
<1> USE DEF Inv, history
<1>1. stage \in Stages
  BY DEF Idle, Stages
<1>2. /\ pc' \in [Requests -> Stages]
      /\ tries' \in [Requests -> 0 .. MaxTries]
      /\ polls' \in [Requests -> 0 .. MaxPolls]
      /\ age' \in [Requests -> 0 .. Lease + 1]
      /\ pc'[r] = stage /\ age'[r] = 0
      /\ \A q \in Requests : q # r => pc'[q] = pc[q] /\ age'[q] = age[q]
  BY <1>1, PcGoesTo
<1>3. TypeOK'
  BY <1>2 DEF TypeOK
<1>4. RowFits' /\ AnswerFits' /\ ClaimsCount'
  BY DEF RowFits, AnswerFits, ClaimsCount, Exists
<1>5. TakerFits'
  BY <1>2 DEF TakerFits, Idle
<1>6. YoungOwns'
  BY <1>2 DEF YoungOwns, Owns, Idle
<1>7. OneClaim'
  BY <1>2 DEF OneClaim, Idle, Begun
<1> QED
  BY <1>3, <1>4, <1>5, <1>6, <1>7

LEMMA EndsQuietly ==
  ASSUME Inv, NEW r \in Requests, Ends(r), pc[r] # "done",
         UNCHANGED <<row, answer, history>>
  PROVE  Inv'
<1>1. 0 \in 0 .. MaxTries /\ 0 \in 0 .. MaxPolls /\ "done" \in Idle
  BY Numbers DEF Idle
<1>2. Goes(r, "done", 0, 0)
  BY DEF Ends
<1> QED
  BY <1>1, <1>2, Quiet

LEMMA InProgressStep ==
  ASSUME Inv, NEW r \in Requests, InProgress(r), pc[r] \in Begun,
         UNCHANGED <<row, answer, history>>
  PROVE  Inv'
<1>1. pc[r] # "done" /\ polls[r] \in 0 .. MaxPolls /\ 0 \in 0 .. MaxTries
  BY Numbers DEF Begun, Inv, TypeOK
<1>2. CASE Ends(r)
  BY <1>1, <1>2, EndsQuietly
<1>3. CASE polls[r] < MaxPolls /\ Goes(r, "waiting", 0, polls[r] + 1)
  <2>1. polls[r] + 1 \in 0 .. MaxPolls /\ "waiting" \in Idle
    BY <1>1, <1>3, Numbers DEF Idle
  <2> QED
    BY <1>1, <1>3, <2>1, Quiet
<1> QED
  BY <1>2, <1>3 DEF InProgress

-----------------------------------------------------------------------------
(* One lemma per action that changes more than a request's place.          *)

(* A request that forgets the key cannot disturb a run within its lease:   *)
(* its claim is younger than the retention.                                *)
LEMMA ForgetsStep ==
  ASSUME Inv, Forgets
  PROVE  /\ row' = NoRow /\ claims' = {} /\ taken' = {} /\ ClaimsCount'
         /\ \A r \in Requests : ~(pc[r] = "running" /\ age[r] <= Lease)
<1>1. row' = NoRow /\ claims' = {} /\ taken' = {} /\ Exists /\ row.createdAgo > Retention
  BY Numbers DEF Forgets, Retained, Inv, TypeOK, Rows, Exists, NoRow
<1>2. ClaimsCount'
  BY <1>1, FS_EmptySet DEF ClaimsCount, Exists, NoRow
<1>3. ASSUME NEW r \in Requests, pc[r] = "running", age[r] <= Lease PROVE FALSE
  <2>1. row.createdAgo = age[r] /\ age[r] \in 0 .. Lease + 1
    BY <1>3 DEF Inv, YoungOwns, TypeOK
  <2> QED
    BY <1>1, <1>3, <2>1, Numbers
<1> QED
  BY <1>1, <1>2, <1>3

LEMMA BeginStep ==
  ASSUME Inv, NEW r \in Requests, Begin(r)
  PROVE  Inv'
<1> USE DEF Inv
<1>1. /\ polls[r] \in 0 .. MaxPolls /\ 0 \in 0 .. MaxTries
      /\ "inserting" \in Idle /\ "inserting" \in Stages
      /\ pc[r] # "done" /\ pc[r] \in Begun
      /\ Goes(r, "inserting", 0, polls[r])
      /\ UNCHANGED <<answer, effects>>
  BY Numbers DEF TypeOK, Idle, Stages, Begun, Begin
<1>2. CASE UNCHANGED <<row, claims, taken>>
  BY <1>1, <1>2, Quiet DEF history
<1>3. CASE Forgets
  <2>1. /\ pc' \in [Requests -> Stages]
        /\ tries' \in [Requests -> 0 .. MaxTries]
        /\ polls' \in [Requests -> 0 .. MaxPolls]
        /\ age' \in [Requests -> 0 .. Lease + 1]
        /\ pc'[r] = "inserting"
        /\ \A q \in Requests : q # r => pc'[q] = pc[q] /\ age'[q] = age[q]
    BY <1>1, PcGoesTo
  <2>2. /\ row' = NoRow /\ claims' = {} /\ taken' = {} /\ ClaimsCount'
        /\ \A q \in Requests : ~(pc[q] = "running" /\ age[q] <= Lease)
    BY <1>3, ForgetsStep
  <2>3. TypeOK'
    BY <1>1, <2>1, <2>2 DEF TypeOK
  <2>4. RowFits' /\ AnswerFits'
    BY <1>1, <2>2 DEF RowFits, AnswerFits, Exists, NoRow
  <2>5. TakerFits'
    BY <2>1, <2>2 DEF TakerFits, NoRow
  <2>6. YoungOwns'
    BY <2>1, <2>2 DEF YoungOwns
  <2>7. OneClaim'
    BY <1>1, <2>1, <2>2 DEF OneClaim
  <2> QED
    BY <2>2, <2>3, <2>4, <2>5, <2>6, <2>7
<1> QED
  BY <1>2, <1>3 DEF Begin

LEMMA InsertStep ==
  ASSUME Inv, NEW r \in Requests, Insert(r)
  PROVE  Inv'
<1> USE DEF Inv
<1>1. /\ pc[r] = "inserting" /\ UNCHANGED <<answer, effects, taken>>
      /\ tries[r] \in 0 .. MaxTries /\ polls[r] \in 0 .. MaxPolls
      /\ 0 \in 0 .. MaxTries /\ 0 \in 0 .. MaxPolls
  BY Numbers DEF Insert, TypeOK
<1>2. CASE Exists /\ Goes(r, "reading", tries[r], polls[r]) /\ UNCHANGED <<row, claims>>
  BY <1>1, <1>2, Quiet DEF history, Idle, Begun
<1>3. CASE ~Exists /\ row' = Started(r) /\ claims' = claims \cup {r} /\ Claimed(r)
  <2>1. PICK stage \in {"running", "done"} : Goes(r, stage, 0, 0)
    BY <1>3 DEF Claimed, Ends
  <2>2. /\ pc' \in [Requests -> Stages]
        /\ tries' \in [Requests -> 0 .. MaxTries]
        /\ polls' \in [Requests -> 0 .. MaxPolls]
        /\ age' \in [Requests -> 0 .. Lease + 1]
        /\ pc'[r] = stage /\ age'[r] = 0
        /\ \A q \in Requests : q # r => pc'[q] = pc[q] /\ age'[q] = age[q]
    <3>1. stage \in Stages
      BY <2>1 DEF Stages
    <3> QED
      BY <1>1, <2>1, <3>1, PcGoesTo
  <2>3. TypeOK'
    BY <1>1, <1>3, <2>2, NewRowType DEF TypeOK
  <2>4. RowFits' /\ AnswerFits'
    BY <1>1, <1>3 DEF RowFits, AnswerFits, Exists, Started
  <2>5. TakerFits'
    BY <1>3, <2>1, <2>2, Numbers DEF TakerFits, Started
  <2>6. YoungOwns'
    <3>1. \A q \in Requests : ~(pc[q] = "running" /\ age[q] <= Lease)
      BY <1>3 DEF YoungOwns, Owns, Exists
    <3> QED
      BY <1>3, <2>2, <3>1 DEF YoungOwns, Owns, Started
  <2>7. OneClaim'
    BY <1>1, <1>3, <2>1, <2>2 DEF OneClaim
  <2>8. ClaimsCount'
    <3>1. Cardinality(claims) <= Cardinality(taken)
      BY <1>3, Counting DEF ClaimsCount, TypeOK
    <3>2. IsFiniteSet(claims) /\ Cardinality(claims) \in Nat /\ Cardinality(taken) \in Nat
      BY Counting DEF TypeOK
    <3>4. Cardinality(claims') \in Nat /\ Cardinality(claims') <= Cardinality(claims) + 1
      BY <1>3, <3>2, OneMore
    <3>3. Exists'
      BY <1>3 DEF Exists, Started
    <3> QED
      BY <1>1, <3>1, <3>2, <3>3, <3>4 DEF ClaimsCount
  <2> QED
    BY <2>3, <2>4, <2>5, <2>6, <2>7, <2>8
<1> QED
  BY <1>2, <1>3 DEF Insert

LEMMA TakeOverStep ==
  ASSUME Inv, NEW r \in Requests, TakeOver(r)
  PROVE  Inv'
<1> USE DEF Inv
<1>1. /\ pc[r] = "taking" /\ UNCHANGED <<answer, effects>> /\ pc[r] \in Begun
      /\ age[r] \in Nat /\ age[r] <= Lease
      /\ 0 \in 0 .. MaxTries /\ 0 \in 0 .. MaxPolls
  BY Numbers DEF TakeOver, Begun, TypeOK, TakerFits
<1>2. CASE InProgress(r) /\ UNCHANGED <<row, claims, taken>>
  BY <1>1, <1>2, InProgressStep DEF history
<1>3. CASE /\ Takeable
           /\ row' = [row EXCEPT !.token = r, !.createdAgo = 0, !.updatedAgo = 0]
           /\ claims' = claims \cup {r} /\ taken' = taken \cup {r}
           /\ Claimed(r)
  <2>1. PICK stage \in {"running", "done"} : Goes(r, stage, 0, 0)
    BY <1>3 DEF Claimed, Ends
  <2>2. /\ pc' \in [Requests -> Stages]
        /\ tries' \in [Requests -> 0 .. MaxTries]
        /\ polls' \in [Requests -> 0 .. MaxPolls]
        /\ age' \in [Requests -> 0 .. Lease + 1]
        /\ pc'[r] = stage /\ age'[r] = 0
        /\ \A q \in Requests : q # r => pc'[q] = pc[q] /\ age'[q] = age[q]
    <3>1. stage \in Stages
      BY <2>1 DEF Stages
    <3> QED
      BY <1>1, <2>1, <3>1, PcGoesTo
  <2>3. row \in Rows /\ row.status = "started" /\ row.updatedAgo > Lease /\ Exists
    BY <1>3 DEF Takeable, LeaseIsOver, TypeOK, NoRow, Exists
  <2>4. row.input = Input[r]
    <3>1. row.updatedAgo \in 0 .. Lease + 1
      BY <2>3 DEF Rows
    <3> QED
      BY <1>1, <2>3, <3>1, Numbers DEF TakerFits
  <2>5. /\ row' \in Rows /\ row'.status = "started" /\ row'.input = Input[r]
        /\ row'.token = r /\ row'.updatedAgo = 0 /\ row'.createdAgo = 0
    <3>1. 0 \in 0 .. Retention + 1 /\ 0 \in 0 .. Lease + 1
      BY Numbers
    <3>2. row' \in Rows
      BY <1>3, <2>3, <3>1, Zenon DEF Rows
    <3> QED
      BY <1>3, <2>3, <2>4, <3>2 DEF Rows
  <2>6. TypeOK'
    BY <1>1, <1>3, <2>2, <2>5 DEF TypeOK
  <2>7. RowFits' /\ AnswerFits'
    BY <1>1, <1>3, <2>5 DEF RowFits, AnswerFits, Exists
  <2>8. TakerFits'
    BY <2>1, <2>2, <2>5, Numbers DEF TakerFits, TypeOK
  <2>9. YoungOwns'
    <3>1. \A q \in Requests : ~(pc[q] = "running" /\ age[q] <= Lease)
      BY <2>3, Numbers DEF YoungOwns, TypeOK
    <3> QED
      BY <2>2, <2>5, <3>1 DEF YoungOwns, Owns
  <2>10. OneClaim'
    BY <1>1, <1>3, <2>1, <2>2 DEF OneClaim
  <2>11. ClaimsCount'
    <3>1. /\ IsFiniteSet(claims) /\ IsFiniteSet(taken)
          /\ Cardinality(claims) \in Nat /\ Cardinality(taken) \in Nat
      BY Counting DEF TypeOK
    <3>2. Cardinality(claims') \in Nat /\ Cardinality(claims') <= Cardinality(claims) + 1
      BY <1>3, <3>1, OneMore
    <3>3. r \notin taken
      BY <1>1 DEF OneClaim
    <3>4. Cardinality(taken') = Cardinality(taken) + 1
      BY <1>3, <3>1, <3>3, OneMore
    <3>5. Exists'
      BY <2>5 DEF Exists
    <3> QED
      BY <2>3, <3>1, <3>2, <3>4, <3>5 DEF ClaimsCount
  <2> QED
    BY <2>6, <2>7, <2>8, <2>9, <2>10, <2>11
<1> QED
  BY <1>2, <1>3 DEF TakeOver

LEMMA ReplayStep ==
  ASSUME Inv, NEW r \in Requests, Replay(r)
  PROVE  Inv'
<1> USE DEF Inv
<1>1. /\ pc[r] = "reading" /\ row.status = "done" /\ row.input = Input[r]
      /\ answer' = [answer EXCEPT ![r] = row.result]
      /\ Goes(r, "done", 0, 0) /\ UNCHANGED <<row, effects, claims, taken>>
      /\ 0 \in 0 .. MaxTries /\ 0 \in 0 .. MaxPolls
  BY Numbers DEF Replay, Ends, history
<1>2. /\ pc' \in [Requests -> Stages]
      /\ tries' \in [Requests -> 0 .. MaxTries]
      /\ polls' \in [Requests -> 0 .. MaxPolls]
      /\ age' \in [Requests -> 0 .. Lease + 1]
      /\ pc'[r] = "done"
      /\ \A q \in Requests : q # r => pc'[q] = pc[q] /\ age'[q] = age[q]
  <2>1. "done" \in Stages
    BY DEF Stages
  <2> QED
    BY <1>1, <2>1, PcGoesTo
<1>3. row \in Rows /\ row.result \in effects /\ row.result \in Requests
      /\ Input[row.result] = Input[r]
  BY <1>1 DEF TypeOK, RowFits, NoRow, Exists, Rows
<1>4. TypeOK'
  BY <1>1, <1>2, <1>3 DEF TypeOK
<1>5. RowFits' /\ ClaimsCount'
  BY <1>1 DEF RowFits, ClaimsCount, Exists
<1>6. AnswerFits'
  BY <1>1, <1>3 DEF AnswerFits, TypeOK
<1>7. TakerFits'
  BY <1>1, <1>2 DEF TakerFits
<1>8. YoungOwns'
  BY <1>1, <1>2 DEF YoungOwns, Owns
<1>9. OneClaim'
  BY <1>1, <1>2 DEF OneClaim, TypeOK
<1> QED
  BY <1>4, <1>5, <1>6, <1>7, <1>8, <1>9

LEMMA ReadStartedStep ==
  ASSUME Inv, NEW r \in Requests, ReadStarted(r)
  PROVE  Inv'
<1> USE DEF Inv
<1>1. /\ pc[r] = "reading" /\ pc[r] \in Begun /\ row.input = Input[r]
      /\ UNCHANGED <<row, answer, effects, claims, taken>>
      /\ tries[r] \in 0 .. MaxTries /\ polls[r] \in 0 .. MaxPolls
  BY DEF ReadStarted, history, Begun, TypeOK
<1>2. CASE InProgress(r)
  BY <1>1, <1>2, InProgressStep DEF history
<1>3. CASE Goes(r, "taking", tries[r], polls[r])
  <2>1. /\ pc' \in [Requests -> Stages]
        /\ tries' \in [Requests -> 0 .. MaxTries]
        /\ polls' \in [Requests -> 0 .. MaxPolls]
        /\ age' \in [Requests -> 0 .. Lease + 1]
        /\ pc'[r] = "taking" /\ age'[r] = 0
        /\ \A q \in Requests : q # r => pc'[q] = pc[q] /\ age'[q] = age[q]
    <3>1. "taking" \in Stages
      BY DEF Stages
    <3> QED
      BY <1>1, <1>3, <3>1, PcGoesTo
  <2>2. TypeOK'
    BY <1>1, <2>1 DEF TypeOK
  <2>3. RowFits' /\ AnswerFits' /\ ClaimsCount'
    BY <1>1 DEF RowFits, AnswerFits, ClaimsCount, Exists
  <2>4. TakerFits'
    BY <1>1, <2>1, Numbers DEF TakerFits
  <2>5. YoungOwns'
    BY <1>1, <2>1 DEF YoungOwns, Owns
  <2>6. OneClaim'
    BY <1>1, <2>1 DEF OneClaim
  <2> QED
    BY <2>2, <2>3, <2>4, <2>5, <2>6
<1> QED
  BY <1>2, <1>3 DEF ReadStarted

LEMMA RunSucceedsStep ==
  ASSUME Inv, NEW r \in Requests, RunSucceeds(r)
  PROVE  Inv'
<1> USE DEF Inv
<1>1. /\ pc[r] = "running" /\ Goes(r, "completing", 0, 0)
      /\ effects' = effects \cup {r} /\ UNCHANGED <<row, answer, claims, taken>>
      /\ 0 \in 0 .. MaxTries /\ 0 \in 0 .. MaxPolls
  BY Numbers DEF RunSucceeds
<1>2. /\ pc' \in [Requests -> Stages]
      /\ tries' \in [Requests -> 0 .. MaxTries]
      /\ polls' \in [Requests -> 0 .. MaxPolls]
      /\ age' \in [Requests -> 0 .. Lease + 1]
      /\ pc'[r] = "completing"
      /\ \A q \in Requests : q # r => pc'[q] = pc[q] /\ age'[q] = age[q]
  <2>1. "completing" \in Stages
    BY DEF Stages
  <2> QED
    BY <1>1, <2>1, PcGoesTo
<1>3. TypeOK'
  BY <1>1, <1>2 DEF TypeOK
<1>4. RowFits' /\ AnswerFits' /\ ClaimsCount'
  BY <1>1 DEF RowFits, AnswerFits, ClaimsCount, Exists
<1>5. TakerFits'
  BY <1>1, <1>2 DEF TakerFits
<1>6. YoungOwns'
  BY <1>1, <1>2 DEF YoungOwns, Owns
<1>7. OneClaim'
  BY <1>1, <1>2 DEF OneClaim
<1> QED
  BY <1>3, <1>4, <1>5, <1>6, <1>7

LEMMA CompleteStep ==
  ASSUME Inv, NEW r \in Requests, Complete(r)
  PROVE  Inv'
<1> USE DEF Inv
<1>1. /\ pc[r] = "completing" /\ Goes(r, "done", 0, 0)
      /\ answer' = [answer EXCEPT ![r] = r] /\ UNCHANGED <<effects, claims, taken>>
      /\ 0 \in 0 .. MaxTries /\ 0 \in 0 .. MaxPolls /\ r \in effects
  BY Numbers DEF Complete, Ends, history, OneClaim
<1>2. /\ pc' \in [Requests -> Stages]
      /\ tries' \in [Requests -> 0 .. MaxTries]
      /\ polls' \in [Requests -> 0 .. MaxPolls]
      /\ age' \in [Requests -> 0 .. Lease + 1]
      /\ pc'[r] = "done"
      /\ \A q \in Requests : q # r => pc'[q] = pc[q] /\ age'[q] = age[q]
  <2>1. "done" \in Stages
    BY DEF Stages
  <2> QED
    BY <1>1, <2>1, PcGoesTo
<1>3. \/ row' = row
      \/ /\ Owns(r)
         /\ row' = [row EXCEPT !.status = "done", !.result = r, !.updatedAgo = 0]
  BY DEF Complete, Stores, StoreFails
<1>4. Owns(r) => row \in Rows
  BY DEF Owns, TypeOK, NoRow
<1>5. /\ row' \in Rows \cup {NoRow} /\ Exists' = Exists
      /\ row'.status = "started" => row' = row
      /\ ~Owns(r) => row' = row
  <2>1. CASE row' = row
    BY <2>1 DEF TypeOK, Exists
  <2>2. CASE /\ Owns(r)
             /\ row' = [row EXCEPT !.status = "done", !.result = r, !.updatedAgo = 0]
    <3>1. row \in Rows /\ 0 \in 0 .. Lease + 1 /\ row.status = "started"
      BY <1>4, <2>2, Numbers DEF Owns
    <3>2. row' \in Rows
      BY <2>2, <3>1 DEF Rows
    <3> QED
      BY <2>2, <3>1, <3>2 DEF Rows, Exists
  <2> QED
    BY <1>3, <2>1, <2>2
<1>6. TypeOK'
  BY <1>1, <1>2, <1>5 DEF TypeOK
<1>7. RowFits'
  BY <1>1, <1>3, <1>4 DEF RowFits, Exists, Owns, Rows
<1>8. AnswerFits' /\ ClaimsCount'
  BY <1>1, <1>5 DEF AnswerFits, ClaimsCount, TypeOK
<1>9. TakerFits'
  BY <1>2, <1>5 DEF TakerFits
<1>10. YoungOwns'
  BY <1>1, <1>2, <1>5 DEF YoungOwns, Owns
<1>11. OneClaim'
  BY <1>1, <1>2 DEF OneClaim, TypeOK
<1> QED
  BY <1>6, <1>7, <1>8, <1>9, <1>10, <1>11

LEMMA ReleaseStep ==
  ASSUME Inv, NEW r \in Requests, Release(r)
  PROVE  Inv'
<1> USE DEF Inv
<1>1. /\ pc[r] = "releasing" /\ Ends(r) /\ UNCHANGED <<answer, effects, taken>>
      /\ 0 \in 0 .. MaxTries /\ 0 \in 0 .. MaxPolls
  BY Numbers DEF Release
<1>2. CASE UNCHANGED <<row, claims>>
  BY <1>1, <1>2, EndsQuietly DEF history
<1>3. CASE Owns(r) /\ row' = NoRow /\ claims' = claims \ {r}
  <2>1. /\ pc' \in [Requests -> Stages]
        /\ tries' \in [Requests -> 0 .. MaxTries]
        /\ polls' \in [Requests -> 0 .. MaxPolls]
        /\ age' \in [Requests -> 0 .. Lease + 1]
        /\ pc'[r] = "done"
        /\ \A q \in Requests : q # r => pc'[q] = pc[q] /\ age'[q] = age[q]
    <3>1. "done" \in Stages /\ Goes(r, "done", 0, 0)
      BY <1>1 DEF Stages, Ends
    <3> QED
      BY <1>1, <3>1, PcGoesTo
  <2>2. TypeOK'
    BY <1>1, <1>3, <2>1 DEF TypeOK
  <2>3. RowFits' /\ AnswerFits'
    BY <1>1, <1>3 DEF RowFits, AnswerFits, Exists, NoRow
  <2>4. TakerFits'
    BY <1>3, <2>1 DEF TakerFits, NoRow
  <2>5. YoungOwns'
    BY <1>1, <1>3, <2>1 DEF YoungOwns, Owns
  <2>6. OneClaim'
    BY <1>1, <1>3, <2>1 DEF OneClaim
  <2>7. ClaimsCount'
    <3>1. IsFiniteSet(claims) /\ Cardinality(claims) \in Nat /\ Cardinality(taken) \in Nat
      BY Counting DEF TypeOK
    <3>2. r \in claims /\ Exists /\ ~Exists'
      BY <1>3 DEF RowFits, Owns, Exists, NoRow
    <3>3. Cardinality(claims') = Cardinality(claims) - 1
      BY <1>3, <3>1, <3>2, FS_RemoveElement
    <3> QED
      BY <1>1, <3>1, <3>2, <3>3 DEF ClaimsCount
  <2> QED
    BY <2>2, <2>3, <2>4, <2>5, <2>6, <2>7
<1> QED
  BY <1>2, <1>3 DEF Release

LEMMA SweepStep ==
  ASSUME Inv, Sweep
  PROVE  Inv'
<1> USE DEF Inv
<1>1. UNCHANGED <<request, answer, effects>> /\ Forgets
  BY DEF Sweep
<1>2. /\ row' = NoRow /\ claims' = {} /\ taken' = {} /\ ClaimsCount'
      /\ \A r \in Requests : ~(pc[r] = "running" /\ age[r] <= Lease)
  BY <1>1, ForgetsStep
<1>3. TypeOK'
  BY <1>1, <1>2 DEF TypeOK, request
<1>4. RowFits' /\ AnswerFits' /\ TakerFits' /\ YoungOwns' /\ OneClaim'
  BY <1>1, <1>2
  DEF RowFits, AnswerFits, TakerFits, YoungOwns, OneClaim, Exists, NoRow, request
<1> QED
  BY <1>2, <1>3, <1>4

(* Runs, claims and looks at them grow old together.                       *)
LEMMA TickStep ==
  ASSUME Inv, Tick
  PROVE  Inv'
<1> USE DEF Inv
<1>1. /\ UNCHANGED <<pc, tries, polls, answer, effects, claims, taken>>
      /\ \A r \in Requests : pc[r] = "taking" => age[r] < HeldUp
  BY DEF Tick, history
<1>2. \A r \in Requests :
         /\ age[r] \in 0 .. Lease + 1 /\ age'[r] \in 0 .. Lease + 1
         /\ pc[r] \in {"taking", "running"} => age'[r] = Until(Lease, age[r])
  BY Numbers DEF Tick, TypeOK, Until
<1>3. CASE ~Exists
  <2>1. row' = row
    BY <1>3 DEF Tick
  <2>2. TypeOK'
    BY <1>1, <1>2, <2>1 DEF TypeOK, Tick
  <2>3. RowFits' /\ AnswerFits' /\ OneClaim' /\ ClaimsCount'
    BY <1>1, <2>1 DEF RowFits, AnswerFits, OneClaim, ClaimsCount, Exists
  <2>4. TakerFits'
    BY <1>1, <1>2, <1>3, <2>1, Numbers DEF TakerFits, Until, Exists
  <2>5. YoungOwns'
    BY <1>1, <1>2, <1>3, <2>1, Numbers DEF YoungOwns, Owns, Exists, Until
  <2> QED
    BY <2>2, <2>3, <2>4, <2>5
<1>4. CASE Exists
  <2>1. /\ row' = [row EXCEPT !.createdAgo = Until(Retention, @),
                              !.updatedAgo = Until(Lease, @)]
        /\ row \in Rows
        /\ row.createdAgo \in 0 .. Retention + 1 /\ row.updatedAgo \in 0 .. Lease + 1
    BY <1>4 DEF Tick, TypeOK, Exists, NoRow, Rows
  <2>2. /\ Until(Retention, row.createdAgo) \in 0 .. Retention + 1
        /\ Until(Lease, row.updatedAgo) \in 0 .. Lease + 1
    BY <2>1, Numbers DEF Until
  <2>3. /\ row' \in Rows
        /\ row'.createdAgo = Until(Retention, row.createdAgo)
        /\ row'.updatedAgo = Until(Lease, row.updatedAgo)
        /\ row'.status = row.status /\ row'.input = row.input
        /\ row'.token = row.token /\ row'.result = row.result
    BY <2>1, <2>2 DEF Rows
  <2>4. TypeOK'
    BY <1>1, <1>2, <2>3 DEF TypeOK, Tick
  <2>5. RowFits' /\ AnswerFits' /\ OneClaim' /\ ClaimsCount'
    BY <1>1, <2>3 DEF RowFits, AnswerFits, OneClaim, ClaimsCount, Exists
  <2>6. TakerFits'
    <3>1. ASSUME NEW r \in Requests, pc'[r] = "taking"
          PROVE  /\ age'[r] <= HeldUp
                 /\ row'.status = "started" =>
                       row'.input = Input[r] \/ row'.updatedAgo <= age'[r]
      <4>1. age[r] < HeldUp /\ age'[r] = age[r] + 1
        BY <1>1, <1>2, <3>1, Numbers DEF Until
      <4>2. row'.updatedAgo <= row.updatedAgo + 1
        BY <2>1, <2>3, Numbers DEF Until
      <4>3. row'.updatedAgo \in 0 .. Lease + 1
        BY <2>2, <2>3
      <4> QED
        BY <1>1, <1>2, <2>1, <2>3, <3>1, <4>1, <4>2, <4>3, Numbers DEF TakerFits
    <3> QED
      BY <3>1 DEF TakerFits
  <2>7. YoungOwns'
    <3>1. ASSUME NEW r \in Requests, pc'[r] = "running", age'[r] <= Lease
          PROVE  Owns(r)' /\ row'.updatedAgo = age'[r] /\ row'.createdAgo = age'[r]
      <4>1. age[r] <= Lease /\ age'[r] = age[r] + 1
        BY <1>1, <1>2, <3>1, Numbers DEF Until
      <4>2. Owns(r) /\ row.updatedAgo = age[r] /\ row.createdAgo = age[r]
        BY <1>1, <3>1, <4>1 DEF YoungOwns
      <4>3. /\ Until(Lease, row.updatedAgo) = age[r] + 1
            /\ Until(Retention, row.createdAgo) = age[r] + 1
        BY <1>2, <4>1, <4>2, Numbers DEF Until
      <4> QED
        BY <2>3, <4>1, <4>2, <4>3 DEF Owns
    <3> QED
      BY <3>1 DEF YoungOwns
  <2> QED
    BY <2>4, <2>5, <2>6, <2>7
<1> QED
  BY <1>3, <1>4

-----------------------------------------------------------------------------
LEMMA InitInv == Init => Inv
<1> SUFFICES ASSUME Init PROVE Inv
  OBVIOUS
<1>1. TypeOK
  BY Numbers DEF Init, TypeOK, Stages
<1>2. RowFits /\ TakerFits /\ YoungOwns /\ OneClaim /\ AnswerFits
  BY DEF Init, RowFits, TakerFits, YoungOwns, OneClaim, AnswerFits, Exists, NoRow
<1>3. ClaimsCount
  BY FS_EmptySet DEF Init, ClaimsCount, Exists, NoRow
<1> QED
  BY <1>1, <1>2, <1>3 DEF Inv

LEMMA RequestStep ==
  ASSUME Inv, NEW r \in Requests, Step(r)
  PROVE  Inv'
<1>1. CASE Begin(r)
  BY <1>1, BeginStep
<1>2. CASE Insert(r)
  BY <1>2, InsertStep
<1>3. CASE ReadNothing(r)
  <2>1. /\ pc[r] = "reading" /\ pc[r] \in Begun
        /\ UNCHANGED <<row, answer, history>>
        /\ tries[r] \in Nat /\ polls[r] \in 0 .. MaxPolls
    BY <1>3, Numbers DEF ReadNothing, Begun, Inv, TypeOK
  <2>2. CASE tries[r] + 1 < MaxTries /\ Goes(r, "inserting", tries[r] + 1, polls[r])
    <3>1. tries[r] + 1 \in 0 .. MaxTries /\ "inserting" \in Idle
      BY <2>1, <2>2, Numbers DEF Idle
    <3> QED
      BY <2>1, <2>2, <3>1, Quiet
  <2>3. CASE InProgress(r)
    BY <2>1, <2>3, InProgressStep
  <2> QED
    BY <1>3, <2>2, <2>3 DEF ReadNothing
<1>4. CASE ReadReused(r)
  BY <1>4, EndsQuietly DEF ReadReused
<1>5. CASE Replay(r)
  BY <1>5, ReplayStep
<1>6. CASE ReadStarted(r)
  BY <1>6, ReadStartedStep
<1>7. CASE TakeOver(r)
  BY <1>7, TakeOverStep
<1>8. CASE RunSucceeds(r)
  BY <1>8, RunSucceedsStep
<1>9. CASE RunThrows(r)
  <2>1. 0 \in 0 .. MaxTries /\ 0 \in 0 .. MaxPolls /\ "releasing" \in Idle
    BY Numbers DEF Idle
  <2> QED
    BY <1>9, <2>1, Quiet DEF RunThrows
<1>10. CASE Complete(r)
  BY <1>10, CompleteStep
<1>11. CASE Release(r)
  BY <1>11, ReleaseStep
<1>12. CASE Dies(r)
  BY <1>12, EndsQuietly DEF Dies
<1> QED
  BY <1>1, <1>2, <1>3, <1>4, <1>5, <1>6, <1>7, <1>8, <1>9, <1>10, <1>11, <1>12 DEF Step

LEMMA NextInv == Inv /\ [Next]_vars => Inv'
<1> SUFFICES ASSUME Inv, [Next]_vars PROVE Inv'
  OBVIOUS
<1>1. CASE \E r \in Requests : Step(r)
  BY <1>1, RequestStep
<1>2. CASE Sweep
  BY <1>2, SweepStep
<1>3. CASE Tick
  BY <1>3, TickStep
<1>4. CASE UNCHANGED vars
  BY <1>4
  DEF Inv, TypeOK, RowFits, TakerFits, YoungOwns, OneClaim, AnswerFits, ClaimsCount,
      Exists, Owns, vars, request, history
<1> QED
  BY <1>1, <1>2, <1>3, <1>4 DEF Next

(* What the theorems rest on: the row and the requests agree on who owns   *)
(* the key and for how long.                                               *)
THEOREM Invariant == Spec => []Inv
<1> QED
  BY InitInv, NextInv, PTL DEF Spec

(* The row and the requests are well formed, for any number of requests.   *)
THEOREM Typing == Spec => []TypeOK
<1>1. Inv => TypeOK
  BY DEF Inv
<1> QED
  BY <1>1, Invariant, PTL

(* Two runs at the same time: one has outlived its lease.                  *)
THEOREM RunsAlone == Spec => []NeverBeside
<1>1. Inv => NeverBeside
  <2> SUFFICES ASSUME Inv, NEW r \in Requests, NEW s \in Requests,
                      pc[r] = "running", pc[s] = "running", r # s,
                      ~(age[r] > Lease \/ age[s] > Lease)
               PROVE  FALSE
    BY DEF NeverBeside
  <2>1. age[r] <= Lease /\ age[s] <= Lease
    BY Numbers DEF Inv, TypeOK
  <2> QED
    BY <2>1 DEF Inv, YoungOwns, Owns
<1> QED
  BY <1>1, Invariant, PTL

(* Effects under one key: one, and one more for each lease that ran out.   *)
THEOREM FewRuns == Spec => []OneExtraPerLease
<1>1. Inv => OneExtraPerLease
  <2> SUFFICES ASSUME Inv PROVE OneExtraPerLease
    OBVIOUS
  <2>1. /\ IsFiniteSet(claims)
        /\ Cardinality(claims) \in Nat /\ Cardinality(taken) \in Nat
    BY Counting DEF Inv, TypeOK
  <2>2. /\ IsFiniteSet(effects \cap claims)
        /\ Cardinality(effects \cap claims) <= Cardinality(claims)
    <3>1. effects \cap claims \in SUBSET claims
      OBVIOUS
    <3> QED
      BY <2>1, <3>1, FS_Subset
  <2>3. Cardinality(effects \cap claims) \in Nat
    BY <2>2, FS_CardinalityType
  <2> QED
    BY <2>1, <2>2, <2>3 DEF Inv, ClaimsCount, OneExtraPerLease
<1> QED
  BY <1>1, Invariant, PTL

(* Every answer is the result of a run that took effect, for the same      *)
(* input.                                                                  *)
THEOREM AnswersFit == Spec => []AnswerFits
<1>1. Inv => AnswerFits
  BY DEF Inv
<1> QED
  BY <1>1, Invariant, PTL

-----------------------------------------------------------------------------
(* The refinement: who owns the key, is stored and runs, in a row.         *)
Owner == IF row.status = "started" THEN row.token ELSE Nobody
Stored == IF row.status = "done" THEN row.result ELSE Nobody
BusyRequests == {r \in Requests : pc[r] \in {"running", "completing", "releasing"}}

LEMMA Stutter ==
  ASSUME UNCHANGED <<row, answer>>, BusyRequests' = BusyRequests
  PROVE  UNCHANGED Contract!vars
  BY DEF Contract!vars, BusyRequests, LeaseIsOver

LEMMA InitRefines == Init => Contract!Init
  BY DEF Init, Contract!Init, LeaseIsOver, NoRow

LEMMA MovesOne ==
  ASSUME TypeOK, NEW r \in Requests, NEW stage, NEW attempt, NEW waited,
         Goes(r, stage, attempt, waited)
  PROVE  /\ stage \in {"running", "completing", "releasing"} => BusyRequests' = BusyRequests \cup {r}
         /\ stage \notin {"running", "completing", "releasing"} => BusyRequests' = BusyRequests \ {r}
  BY DEF TypeOK, Goes, BusyRequests

(* A step that only moves a request from one stage outside the run to      *)
(* another is none of the contract's.                                      *)
LEMMA WaitsRefines ==
  ASSUME TypeOK, NEW r \in Requests, NEW stage \in Stages, NEW attempt, NEW waited,
         Goes(r, stage, attempt, waited), UNCHANGED <<row, answer>>,
         r \notin BusyRequests, stage \notin {"running", "completing", "releasing"}
  PROVE  UNCHANGED Contract!vars
<1>1. BusyRequests' = BusyRequests
  BY MovesOne
<1> QED
  BY <1>1, Stutter

LEMMA InProgressRefines ==
  ASSUME TypeOK, NEW r \in Requests, InProgress(r), UNCHANGED <<row, answer>>, r \notin BusyRequests
  PROVE  UNCHANGED Contract!vars
<1>1. "waiting" \in Stages /\ "done" \in Stages
  BY DEF Stages
<1> QED
  BY <1>1, WaitsRefines DEF InProgress, Ends

LEMMA ForgetsRefines ==
  ASSUME Forgets, UNCHANGED answer, BusyRequests' = BusyRequests
  PROVE  Contract!Forget
  BY DEF Forgets, NoRow, Contract!Forget, BusyRequests, LeaseIsOver

(* A claim, or the takeover of a claim that is over, in one step.          *)
LEMMA OwnsRefines ==
  ASSUME Inv, NEW r \in Requests, pc[r] \in Begun, Claimed(r), UNCHANGED answer,
         row.status # "done", row'.status = "started", row'.token = r, row'.updatedAgo = 0
  PROVE  Contract!Owns(r)
<1>1. BusyRequests' \in {BusyRequests, BusyRequests \cup {r}} /\ r \notin BusyRequests /\ answer[r] = Nobody
  BY MovesOne DEF Inv, OneClaim, Begun, BusyRequests, Claimed, Ends
<1>2. Owner' = r /\ LeaseIsOver' = FALSE /\ Stored' = Stored
  BY Numbers DEF Owner, Stored, LeaseIsOver
<1> QED
  BY <1>1, <1>2 DEF Contract!Owns, BusyRequests, Owner, Stored

LEMMA InsertRefines ==
  ASSUME Inv, NEW r \in Requests, Insert(r)
  PROVE  Contract!Claim(r) \/ UNCHANGED Contract!vars
<1>1. pc[r] = "inserting" /\ pc[r] \in Begun /\ r \notin BusyRequests /\ TypeOK /\ UNCHANGED answer
  BY DEF Insert, Begun, BusyRequests, Inv
<1>2. CASE Exists /\ Goes(r, "reading", tries[r], polls[r]) /\ UNCHANGED row
  BY <1>1, <1>2, WaitsRefines DEF Stages
<1>3. CASE ~Exists /\ row' = Started(r) /\ Claimed(r)
  <2>1. /\ row.status # "done" /\ row.status # "started"
        /\ row'.status = "started" /\ row'.token = r /\ row'.updatedAgo = 0
    BY <1>3 DEF Started, Exists
  <2>2. Contract!Owns(r)
    BY <1>1, <1>3, <2>1, OwnsRefines
  <2> QED
    BY <2>1, <2>2 DEF Contract!Claim
<1> QED
  BY <1>1, <1>2, <1>3 DEF Insert

LEMMA TakeOverRefines ==
  ASSUME Inv, NEW r \in Requests, TakeOver(r)
  PROVE  Contract!TakeOver(r) \/ UNCHANGED Contract!vars
<1>1. /\ pc[r] = "taking" /\ pc[r] \in Begun /\ r \notin BusyRequests /\ TypeOK
      /\ UNCHANGED answer /\ age[r] \in Nat /\ age[r] <= Lease
  BY Numbers DEF TakeOver, Begun, BusyRequests, Inv, TypeOK, TakerFits
<1>2. CASE InProgress(r) /\ UNCHANGED row
  BY <1>1, <1>2, InProgressRefines
<1>3. CASE /\ Takeable /\ Claimed(r)
           /\ row' = [row EXCEPT !.token = r, !.createdAgo = 0, !.updatedAgo = 0]
  <2>1. /\ row \in Rows /\ LeaseIsOver /\ Exists
        /\ row.status = "started" /\ row.updatedAgo > Lease
    BY <1>3 DEF Takeable, LeaseIsOver, Inv, TypeOK, NoRow, Exists
  <2>2. row'.status = "started" /\ row'.token = r /\ row'.updatedAgo = 0
    BY <1>3, <2>1 DEF Rows
  <2>3. Contract!Owns(r)
    BY <1>1, <1>3, <2>1, <2>2, OwnsRefines
  <2>4. row.token \in Requests /\ row.token # Nobody /\ row.updatedAgo \in Nat
    BY <2>1, Numbers DEF Rows
  <2>5. Input[row.token] = Input[r]
    BY <1>1, <2>1, <2>4, Numbers DEF Inv, RowFits, TakerFits
  <2> QED
    BY <2>1, <2>3, <2>4, <2>5 DEF Contract!TakeOver
<1> QED
  BY <1>2, <1>3 DEF TakeOver

LEMMA ReplayRefines ==
  ASSUME Inv, NEW r \in Requests, Replay(r)
  PROVE  Contract!Replay(r)
<1>1. /\ pc[r] = "reading" /\ r \notin BusyRequests /\ answer[r] = Nobody
      /\ row.status = "done" /\ UNCHANGED row
      /\ answer' = [answer EXCEPT ![r] = row.result]
  BY DEF Replay, BusyRequests, Inv, OneClaim
<1>2. BusyRequests' = BusyRequests
  BY MovesOne, <1>1 DEF Replay, Ends, Inv
<1>3. /\ row.result \in Requests /\ row.result # Nobody /\ Input[row.result] = Input[r]
  BY <1>1, Numbers DEF Inv, TypeOK, Rows, RowFits, Exists, NoRow, Replay
<1> QED
  BY <1>1, <1>2, <1>3 DEF Contract!Replay, BusyRequests, LeaseIsOver

LEMMA CompleteRefines ==
  ASSUME Inv, NEW r \in Requests, Complete(r)
  PROVE  Contract!Complete(r)
<1>1. /\ r \in BusyRequests /\ TypeOK /\ Goes(r, "done", 0, 0)
      /\ answer' = [answer EXCEPT ![r] = r]
  BY DEF Complete, BusyRequests, Ends, Inv
<1>2. BusyRequests' = BusyRequests \ {r}
  BY <1>1, MovesOne
<1>3. CASE row' = row
  BY <1>1, <1>2, <1>3 DEF Contract!Complete, BusyRequests, LeaseIsOver
<1>4. CASE /\ Owns(r)
           /\ row' = [row EXCEPT !.status = "done", !.result = r, !.updatedAgo = 0]
  <2>1. row \in Rows /\ row.status = "started" /\ row.token = r
    BY <1>1, <1>4 DEF Owns, TypeOK, NoRow
  <2>2. row'.status = "done" /\ row'.result = r
    BY <1>4, <2>1 DEF Rows
  <2>3. Owner = r /\ Owner' = Nobody /\ Stored' = r /\ LeaseIsOver' = FALSE
    BY <2>1, <2>2 DEF Owner, Stored, LeaseIsOver
  <2> QED
    BY <1>1, <1>2, <2>3 DEF Contract!Complete, BusyRequests, Owner, Stored
<1> QED
  BY <1>3, <1>4 DEF Complete, Stores, StoreFails

(* A run that ends without an answer.                                      *)
LEMMA FailRefines ==
  ASSUME TypeOK, NEW r \in Requests, r \in BusyRequests, Ends(r), UNCHANGED answer,
         row' = row \/ (Owns(r) /\ row' = NoRow)
  PROVE  Contract!Fail(r)
<1>1. BusyRequests' = BusyRequests \ {r}
  BY MovesOne DEF Ends
<1>2. CASE row' = row
  BY <1>1, <1>2 DEF Contract!Fail, BusyRequests, LeaseIsOver
<1>3. CASE Owns(r) /\ row' = NoRow
  <2>1. /\ Owner = r /\ Owner' = Nobody /\ Stored' = Nobody /\ Stored = Nobody
        /\ LeaseIsOver' = FALSE
    BY <1>3 DEF Owns, NoRow, Owner, Stored, LeaseIsOver
  <2> QED
    BY <1>1, <2>1 DEF Contract!Fail, BusyRequests, Owner, Stored
<1> QED
  BY <1>2, <1>3

(* Time lapses the owner's lease, once.                                    *)
LEMMA TickRefines ==
  ASSUME Inv, Tick
  PROVE  Contract!Lapse \/ UNCHANGED Contract!vars
<1>1. UNCHANGED <<pc, answer>> /\ BusyRequests' = BusyRequests
  BY DEF Tick, BusyRequests
<1>2. CASE ~Exists
  BY <1>1, <1>2, Stutter DEF Tick
<1>3. CASE Exists
  <2>1. /\ row \in Rows
        /\ row' = [row EXCEPT !.createdAgo = Until(Retention, @),
                              !.updatedAgo = Until(Lease, @)]
    BY <1>3 DEF Tick, Inv, TypeOK, Exists, NoRow
  <2>2. /\ row'.status = row.status /\ row'.token = row.token /\ row'.result = row.result
        /\ row'.updatedAgo = Until(Lease, row.updatedAgo)
    BY <2>1 DEF Rows
  <2>3. Owner' = Owner /\ Stored' = Stored
    BY <2>2 DEF Owner, Stored
  <2>4. LeaseIsOver => LeaseIsOver' = TRUE
    BY <2>2 DEF LeaseIsOver, Until
  <2>5. LeaseIsOver' => Owner # Nobody
    <3>1. row.token \in Requests
      BY <2>1 DEF Rows
    <3> QED
      BY <2>2, <3>1, Numbers DEF LeaseIsOver, Owner
  <2>6. LeaseIsOver \in BOOLEAN /\ LeaseIsOver' \in BOOLEAN
    BY DEF LeaseIsOver
  <2>7. CASE LeaseIsOver' = LeaseIsOver
    BY <1>1, <2>3, <2>7 DEF Contract!vars, BusyRequests, Owner, Stored
  <2>8. CASE LeaseIsOver' = TRUE
    BY <1>1, <2>3, <2>5, <2>8 DEF Contract!Lapse, BusyRequests, Owner, Stored
  <2> QED
    BY <2>4, <2>6, <2>7, <2>8
<1> QED
  BY <1>2, <1>3

LEMMA StepRefines ==
  ASSUME Inv, NEW r \in Requests, Step(r)
  PROVE  [Contract!Next]_(Contract!vars)
<1> USE DEF Contract!Next
<1>0. TypeOK
  BY DEF Inv
<1>1. CASE Begin(r)
  <2>1. /\ Goes(r, "inserting", 0, polls[r]) /\ UNCHANGED answer /\ r \notin BusyRequests
        /\ "inserting" \in Stages
    BY <1>1 DEF Begin, BusyRequests, Stages
  <2>2. CASE UNCHANGED row
    BY <1>0, <2>1, <2>2, WaitsRefines
  <2>3. CASE Forgets
    <3>1. BusyRequests' = BusyRequests
      BY <1>0, <2>1, MovesOne
    <3> QED
      BY <2>1, <2>3, <3>1, ForgetsRefines
  <2> QED
    BY <1>1, <2>2, <2>3 DEF Begin
<1>2. CASE Insert(r)
  BY <1>2, InsertRefines
<1>3. CASE ReadNothing(r) \/ ReadReused(r) \/ ReadStarted(r)
  <2>1. r \notin BusyRequests /\ UNCHANGED <<row, answer>>
    BY <1>3 DEF ReadNothing, ReadReused, ReadStarted, BusyRequests
  <2>2. \/ InProgress(r) \/ Ends(r)
        \/ \E a \in {"inserting", "taking"} : Goes(r, a, tries[r] + 1, polls[r])
        \/ \E a \in {"inserting", "taking"} : Goes(r, a, tries[r], polls[r])
    BY <1>3 DEF ReadNothing, ReadReused, ReadStarted
  <2>3. "inserting" \in Stages /\ "taking" \in Stages /\ "done" \in Stages
    BY DEF Stages
  <2> QED
    BY <1>0, <2>1, <2>2, <2>3, InProgressRefines, WaitsRefines DEF Ends
<1>4. CASE Replay(r)
  BY <1>4, ReplayRefines
<1>5. CASE TakeOver(r)
  BY <1>5, TakeOverRefines
<1>6. CASE RunSucceeds(r)
  <2>1. BusyRequests' = BusyRequests \cup {r} /\ r \in BusyRequests
    BY <1>0, <1>6, MovesOne DEF RunSucceeds, BusyRequests
  <2> QED
    BY <1>6, <2>1, Stutter DEF RunSucceeds
<1>7. CASE RunThrows(r)
  <2>1. BusyRequests' = BusyRequests \cup {r} /\ r \in BusyRequests
    BY <1>0, <1>7, MovesOne DEF RunThrows, BusyRequests
  <2> QED
    BY <1>7, <2>1, Stutter DEF RunThrows
<1>8. CASE Complete(r)
  BY <1>8, CompleteRefines
<1>9. CASE Release(r)
  <2>1. r \in BusyRequests /\ Ends(r) /\ UNCHANGED answer /\ (row' = row \/ (Owns(r) /\ row' = NoRow))
    BY <1>9 DEF Release, BusyRequests
  <2> QED
    BY <1>0, <2>1, FailRefines
<1>10. CASE Dies(r)
  <2>1. Ends(r) /\ UNCHANGED <<row, answer>> /\ "done" \in Stages
    BY <1>10 DEF Dies, Stages
  <2>2. CASE r \in BusyRequests
    BY <1>0, <2>1, <2>2, FailRefines
  <2>3. CASE r \notin BusyRequests
    BY <1>0, <2>1, <2>3, WaitsRefines DEF Ends
  <2> QED
    BY <2>2, <2>3
<1> QED
  BY <1>1, <1>2, <1>3, <1>4, <1>5, <1>6, <1>7, <1>8, <1>9, <1>10 DEF Step

(* The statements of postgres.ts, in whatever order those of the requests  *)
(* come, do what the rules of memory.ts allow.                             *)
THEOREM Implements == Spec => ImplementsContract
<1>1. Inv /\ [Next]_vars => [Contract!Next]_(Contract!vars)
  <2> SUFFICES ASSUME Inv, [Next]_vars PROVE [Contract!Next]_(Contract!vars)
    OBVIOUS
  <2>1. CASE \E r \in Requests : Step(r)
    BY <2>1, StepRefines
  <2>2. CASE Sweep
    <3>1. Forgets /\ UNCHANGED answer /\ BusyRequests' = BusyRequests
      BY <2>2 DEF Sweep, request, BusyRequests
    <3> QED
      BY <3>1, ForgetsRefines DEF Contract!Next
  <2>3. CASE Tick
    BY <2>3, TickRefines DEF Contract!Next
  <2>4. CASE UNCHANGED vars
    <3>1. UNCHANGED <<row, answer>> /\ BusyRequests' = BusyRequests
      BY <2>4 DEF vars, request, BusyRequests
    <3> QED
      BY <3>1, Stutter
  <2> QED
    BY <2>1, <2>2, <2>3, <2>4 DEF Next
<1> QED
  BY <1>1, InitRefines, Invariant, PTL DEF Spec, ImplementsContract, Contract!Spec

-----------------------------------------------------------------------------
(* The throttled saver.                                                    *)

FlushStages == {"idle", "waiting", "woken", "writing", "done", "failed"}
FlushCall == [pc : FlushStages, target : Nat, waits : Nat]
Write == [owner : SUBSET Flushes, covers : Nat, took : Nat, ended : BOOLEAN]

SaverTypes ==
    /\ time \in 0 .. SaverMaxTime /\ marked \in 0 .. MaxMarks /\ saved \in Nat /\ saved <= marked
    /\ batch \in Nat /\ batch <= marked /\ lastWriteAt \in Nat /\ lastWriteAt <= time
    /\ timer = None \/ timer \in Nat
    /\ followUp \in BOOLEAN /\ mayForget \in BOOLEAN
    /\ failures \in Nat /\ disk = saved
    /\ flushes \in [Flushes -> FlushCall]
    /\ \A f \in Flushes : flushes[f].target <= marked

(* One write at a time, and it covers what was saved before.               *)
WriteFits(w) ==
    /\ w \in Write /\ w.covers <= marked
    /\ ~w.ended => saved <= w.covers /\ batch + w.took <= marked
    /\ w.ended /\ failures = 0 => w.covers <= saved
OneWrite ==
    /\ \A v, w \in writes : v = w
    /\ \A w \in writes : WriteFits(w)

(* A flush that writes has the write in flight, and what it waits for is   *)
(* covered by it; a flush is done when that is saved.                      *)
OwnerFits ==
    /\ \A w \in writes, f \in Flushes :
          f \in w.owner /\ ~w.ended => flushes[f].pc = "writing" /\ flushes[f].target <= w.covers
    /\ \A f \in Flushes : flushes[f].pc = "done" => flushes[f].target <= saved

(* The second write that a flush waits for began after it, and so covers   *)
(* its marks.                                                              *)
WaitFits(x) ==
    /\ x.waits <= 2
    /\ x.pc \in {"waiting", "woken"} => x.waits # 0
    /\ x.pc = "woken" /\ x.waits = 2 => x.target <= saved
    /\ (x.pc = "waiting" /\ x.waits = 2) \/ (x.pc = "woken" /\ x.waits = 1) =>
          \A w \in writes : x.target <= w.covers
WaitInv == failures = 0 => \A f \in Flushes : WaitFits(flushes[f])

SaverInv == SaverTypes /\ OneWrite /\ OwnerFits /\ WaitInv /\ NothingForgotten

-----------------------------------------------------------------------------
LEMMA SaverNumbers ==
    Window \in Nat \ {0} /\ BatchSize \in Nat \ {0} /\ MaxMarks \in Nat /\ SaverMaxTime \in Nat
  BY SaverAssumption

LEMMA NoTimer == None \notin Nat
  BY DEF None

(* A write that starts while none is in flight covers every mark there is. *)
LEMMA NewWriteFits ==
    ASSUME NEW o \in SUBSET Flushes, NEW covers \in Nat, NEW count \in Nat,
           marked' \in Nat, saved' \in Nat, saved' <= covers, covers = marked',
           count <= covers, batch' = 0,
           writes' = {[owner |-> o, covers |-> covers, took |-> count, ended |-> FALSE]}
    PROVE  /\ OneWrite'
           /\ \A w \in writes' : /\ w.owner = o /\ w.covers = marked' /\ ~w.ended
<1> DEFINE x == [owner |-> o, covers |-> covers, took |-> count, ended |-> FALSE]
<1>1. x.owner = o /\ x.covers = covers /\ x.took = count /\ x.ended = FALSE /\ x \in Write
  BY DEF Write
<1>2. writes' = {x}
  OBVIOUS
<1> HIDE DEF x
<1>3. \A w \in writes' : WriteFits(w)'
  BY <1>1, <1>2 DEF WriteFits
<1> QED
  BY <1>1, <1>2, <1>3 DEF OneWrite

LEMMA Shift ==
    ASSUME NEW a \in Nat, NEW b \in Nat, NEW c \in Nat, NEW d \in Nat, NEW e \in Nat,
           b + c <= d + a, a + e <= c
    PROVE  b + e <= d
  OBVIOUS

(* What is in flight goes on to fit when only marks are added, and no mark *)
(* is counted twice.                                                       *)
LEMMA OldWritesFit ==
    ASSUME SaverInv, writes' = writes, saved' = saved, failures' = failures,
           marked' \in Nat, batch' \in Nat, batch' + marked <= marked' + batch, marked <= marked'
    PROVE  OneWrite'
<1>1. marked \in Nat /\ saved \in Nat /\ batch \in Nat
  BY SaverNumbers DEF SaverInv, SaverTypes
<1>2. ASSUME NEW w \in writes
      PROVE  /\ w \in Write /\ w.covers <= marked'
             /\ ~w.ended => saved <= w.covers /\ batch' + w.took <= marked'
             /\ w.ended /\ failures = 0 => w.covers <= saved
  <2>1. w \in Write /\ WriteFits(w)
    BY DEF SaverInv, OneWrite, WriteFits
  <2>2. w.covers \in Nat /\ w.took \in Nat
    BY <2>1 DEF Write
  <2>3. w.covers <= marked /\ (~w.ended => saved <= w.covers /\ batch + w.took <= marked)
    BY <2>1 DEF WriteFits
  <2>4. w.covers <= marked'
    BY <1>1, <2>2, <2>3
  <2>5. batch + w.took <= marked => batch' + w.took <= marked'
    BY <1>1, <2>2, Shift
  <2> QED
    BY <2>1, <2>3, <2>4, <2>5 DEF WriteFits
<1>3. \A w \in writes' : WriteFits(w)'
  BY <1>2 DEF WriteFits
<1> QED
  BY <1>3 DEF SaverInv, OneWrite

(* The types, once what a step changes is known to be a number or a flag.  *)
LEMMA TypesKept ==
    ASSUME SaverInv, marked' \in 0 .. MaxMarks, marked <= marked', batch' \in Nat, batch' <= marked',
           timer' = None \/ timer' \in Nat,
           followUp' \in {followUp, TRUE, FALSE}, mayForget' \in {mayForget, TRUE, FALSE},
           flushes' \in [Flushes -> FlushCall], \A f \in Flushes : flushes'[f].target <= marked',
           UNCHANGED <<time, saved, lastWriteAt, failures, disk>>
    PROVE  SaverTypes'
<1>1. followUp' \in BOOLEAN /\ mayForget' \in BOOLEAN
  BY DEF SaverInv, SaverTypes
<1>2. saved' \in Nat /\ saved' <= marked'
  BY SaverNumbers DEF SaverInv, SaverTypes
<1> QED
  BY <1>1, <1>2 DEF SaverInv, SaverTypes

LEMMA TargetsFit ==
    ASSUME SaverInv, NEW n \in Nat, marked <= n
    PROVE  \A f \in Flushes : flushes[f].target <= n
  BY SaverNumbers DEF SaverInv, SaverTypes, FlushCall

LEMMA MarkDirtyKeeps ==
    ASSUME SaverInv, MarkDirty
    PROVE  SaverInv'
<1>1. /\ marked \in Nat /\ saved \in Nat /\ batch \in Nat /\ saved <= marked /\ batch <= marked
      /\ lastWriteAt \in Nat /\ time \in Nat
      /\ flushes \in [Flushes -> FlushCall] /\ \A f \in Flushes : flushes[f].target <= marked
  BY SaverNumbers DEF SaverInv, SaverTypes
<1>2. /\ marked' = marked + 1 /\ marked' \in 0 .. MaxMarks
      /\ UNCHANGED <<time, saved, lastWriteAt, disk, flushes, failures>> /\ mayForget' = FALSE
  BY SaverNumbers DEF MarkDirty, SaverInv, SaverTypes
<1>3. CASE InFlight /\ followUp' = TRUE /\ batch' = batch + 1 /\ timer' = None /\ writes' = writes
  <2>1. OneWrite'
    BY <1>1, <1>2, <1>3, OldWritesFit
  <2>2. NothingForgotten'
    BY <1>3 DEF NothingForgotten, InFlight
  <2>3. SaverTypes'
    <3>1. \A f \in Flushes : flushes'[f].target <= marked'
      BY <1>1, <1>2, TargetsFit
    <3>2. batch' \in Nat /\ batch' <= marked' /\ (timer' = None \/ timer' \in Nat)
      BY <1>1, <1>2, <1>3
    <3>3. followUp' \in {followUp, TRUE, FALSE} /\ mayForget' \in {mayForget, TRUE, FALSE}
      BY <1>1, <1>2, <1>3
    <3>4. /\ marked' \in 0 .. MaxMarks /\ marked <= marked' /\ flushes' \in [Flushes -> FlushCall]
          /\ UNCHANGED <<time, saved, lastWriteAt, failures, disk>>
      BY <1>1, <1>2 DEF SaverInv, SaverTypes
    <3> QED
      BY <3>1, <3>2, <3>3, <3>4, TypesKept
  <2>4. OwnerFits' /\ WaitInv'
    BY <1>2, <1>3 DEF SaverInv, OwnerFits, WaitInv, WaitFits
  <2> QED
    BY <2>1, <2>2, <2>3, <2>4 DEF SaverInv
<1>4. CASE /\ ~InFlight /\ batch' = 0 /\ followUp' = FALSE /\ timer' = None
           /\ writes' = {[owner |-> {}, covers |-> marked + 1, took |-> batch + 1, ended |-> FALSE]}
  <2>1. OneWrite' /\ \A w \in writes' : w.owner = {} /\ w.covers = marked' /\ ~w.ended
    <3>1. marked + 1 \in Nat /\ batch + 1 \in Nat /\ saved <= marked + 1 /\ batch + 1 <= marked + 1
      BY <1>1
    <3> QED
      BY <1>1, <1>2, <1>4, <3>1, NewWriteFits
  <2>2. writes' # {}
    BY <1>4
  <2>3. NothingForgotten'
    BY <2>1, <2>2 DEF NothingForgotten
  <2>4. SaverTypes'
    <3>1. \A f \in Flushes : flushes'[f].target <= marked'
      BY <1>1, <1>2, TargetsFit
    <3>2. batch' \in Nat /\ batch' <= marked' /\ (timer' = None \/ timer' \in Nat)
      BY <1>1, <1>2, <1>4
    <3>3. followUp' \in {followUp, TRUE, FALSE} /\ mayForget' \in {mayForget, TRUE, FALSE}
      BY <1>1, <1>2, <1>4
    <3>4. /\ marked' \in 0 .. MaxMarks /\ marked <= marked' /\ flushes' \in [Flushes -> FlushCall]
          /\ UNCHANGED <<time, saved, lastWriteAt, failures, disk>>
      BY <1>1, <1>2 DEF SaverInv, SaverTypes
    <3> QED
      BY <3>1, <3>2, <3>3, <3>4, TypesKept
  <2>5. OwnerFits'
    BY <1>2, <2>1 DEF SaverInv, OwnerFits
  <2>6. WaitInv'
    <3> SUFFICES ASSUME failures = 0, NEW f \in Flushes PROVE WaitFits(flushes[f])'
      BY <1>2 DEF WaitInv
    <3>1. flushes[f].target <= marked /\ flushes[f].target \in Nat /\ WaitFits(flushes[f])
      BY <1>1 DEF FlushCall, SaverInv, WaitInv
    <3> QED
      BY <1>1, <1>2, <2>1, <3>1 DEF WaitFits
  <2> QED
    BY <2>1, <2>3, <2>4, <2>5, <2>6 DEF SaverInv
<1>5. CASE /\ batch' = batch + 1 /\ UNCHANGED <<followUp, writes>>
           /\ timer' = IF timer = None THEN lastWriteAt + Window ELSE timer
  <2>1. OneWrite'
    BY <1>1, <1>2, <1>5, OldWritesFit
  <2>2. timer' \in Nat
    BY <1>1, <1>5, SaverNumbers DEF SaverInv, SaverTypes
  <2>3. NothingForgotten'
    BY <2>2, NoTimer DEF NothingForgotten
  <2>4. SaverTypes'
    <3>1. \A f \in Flushes : flushes'[f].target <= marked'
      BY <1>1, <1>2, TargetsFit
    <3>2. batch' \in Nat /\ batch' <= marked' /\ (timer' = None \/ timer' \in Nat)
      BY <1>1, <1>2, <1>5, <2>2
    <3>3. followUp' \in {followUp, TRUE, FALSE} /\ mayForget' \in {mayForget, TRUE, FALSE}
      BY <1>1, <1>2, <1>5, <2>2
    <3>4. /\ marked' \in 0 .. MaxMarks /\ marked <= marked' /\ flushes' \in [Flushes -> FlushCall]
          /\ UNCHANGED <<time, saved, lastWriteAt, failures, disk>>
      BY <1>1, <1>2 DEF SaverInv, SaverTypes
    <3> QED
      BY <3>1, <3>2, <3>3, <3>4, TypesKept
  <2>5. OwnerFits' /\ WaitInv'
    BY <1>2, <1>5 DEF SaverInv, OwnerFits, WaitInv, WaitFits
  <2> QED
    BY <2>1, <2>3, <2>4, <2>5 DEF SaverInv
<1> QED
  BY <1>3, <1>4, <1>5 DEF MarkDirty, WriteDetached

LEMMA TimerKeeps ==
    ASSUME SaverInv, TimerFires
    PROVE  SaverInv'
<1>1. /\ marked \in Nat /\ saved \in Nat /\ batch \in Nat /\ saved <= marked /\ batch <= marked
      /\ flushes \in [Flushes -> FlushCall] /\ \A f \in Flushes : flushes[f].target <= marked
  BY SaverNumbers DEF SaverInv, SaverTypes
<1>2. UNCHANGED <<time, marked, saved, lastWriteAt, disk, flushes, mayForget, failures>>
  BY DEF TimerFires
<1>3. CASE InFlight /\ followUp' = TRUE /\ batch' = batch /\ timer' = None /\ writes' = writes
  <2>1. OneWrite'
    BY <1>1, <1>2, <1>3, OldWritesFit
  <2>2. NothingForgotten'
    BY <1>3 DEF NothingForgotten, InFlight
  <2>3. SaverTypes'
    <3>1. \A f \in Flushes : flushes'[f].target <= marked'
      BY <1>1, <1>2, TargetsFit
    <3>2. batch' \in Nat /\ batch' <= marked' /\ (timer' = None \/ timer' \in Nat)
      BY <1>1, <1>2, <1>3
    <3>3. followUp' \in {followUp, TRUE, FALSE} /\ mayForget' \in {mayForget, TRUE, FALSE}
      BY <1>1, <1>2, <1>3
    <3>4. /\ marked' \in 0 .. MaxMarks /\ marked <= marked' /\ flushes' \in [Flushes -> FlushCall]
          /\ UNCHANGED <<time, saved, lastWriteAt, failures, disk>>
      BY <1>1, <1>2 DEF SaverInv, SaverTypes
    <3> QED
      BY <3>1, <3>2, <3>3, <3>4, TypesKept
  <2>4. OwnerFits' /\ WaitInv'
    BY <1>2, <1>3 DEF SaverInv, OwnerFits, WaitInv, WaitFits
  <2> QED
    BY <2>1, <2>2, <2>3, <2>4 DEF SaverInv
<1>4. CASE /\ ~InFlight /\ batch' = 0 /\ followUp' = FALSE /\ timer' = None
           /\ writes' = {[owner |-> {}, covers |-> marked, took |-> batch, ended |-> FALSE]}
  <2>1. OneWrite' /\ \A w \in writes' : w.owner = {} /\ w.covers = marked' /\ ~w.ended
    BY <1>1, <1>2, <1>4, NewWriteFits
  <2>2. writes' # {}
    BY <1>4
  <2>3. NothingForgotten'
    BY <2>1, <2>2 DEF NothingForgotten
  <2>4. SaverTypes'
    <3>1. \A f \in Flushes : flushes'[f].target <= marked'
      BY <1>1, <1>2, TargetsFit
    <3>2. batch' \in Nat /\ batch' <= marked' /\ (timer' = None \/ timer' \in Nat)
      BY <1>1, <1>2, <1>4
    <3>3. followUp' \in {followUp, TRUE, FALSE} /\ mayForget' \in {mayForget, TRUE, FALSE}
      BY <1>1, <1>2, <1>4
    <3>4. /\ marked' \in 0 .. MaxMarks /\ marked <= marked' /\ flushes' \in [Flushes -> FlushCall]
          /\ UNCHANGED <<time, saved, lastWriteAt, failures, disk>>
      BY <1>1, <1>2 DEF SaverInv, SaverTypes
    <3> QED
      BY <3>1, <3>2, <3>3, <3>4, TypesKept
  <2>5. OwnerFits'
    BY <1>2, <2>1 DEF SaverInv, OwnerFits
  <2>6. WaitInv'
    BY <1>1, <1>2, <2>1 DEF SaverInv, WaitInv, WaitFits
  <2> QED
    BY <2>1, <2>3, <2>4, <2>5, <2>6 DEF SaverInv
<1>5. CASE ~Dirty /\ timer' = None /\ UNCHANGED <<followUp, writes, batch>>
  <2>1. OneWrite'
    BY <1>1, <1>2, <1>5, OldWritesFit
  <2>2. NothingForgotten'
    BY <1>2, <1>5 DEF NothingForgotten, Dirty
  <2>3. SaverTypes'
    <3>1. \A f \in Flushes : flushes'[f].target <= marked'
      BY <1>1, <1>2, TargetsFit
    <3>2. batch' \in Nat /\ batch' <= marked' /\ (timer' = None \/ timer' \in Nat)
      BY <1>1, <1>2, <1>5
    <3>3. followUp' \in {followUp, TRUE, FALSE} /\ mayForget' \in {mayForget, TRUE, FALSE}
      BY <1>1, <1>2, <1>5
    <3>4. /\ marked' \in 0 .. MaxMarks /\ marked <= marked' /\ flushes' \in [Flushes -> FlushCall]
          /\ UNCHANGED <<time, saved, lastWriteAt, failures, disk>>
      BY <1>1, <1>2 DEF SaverInv, SaverTypes
    <3> QED
      BY <3>1, <3>2, <3>3, <3>4, TypesKept
  <2>4. OwnerFits' /\ WaitInv'
    BY <1>2, <1>5 DEF SaverInv, OwnerFits, WaitInv, WaitFits
  <2> QED
    BY <2>1, <2>2, <2>3, <2>4 DEF SaverInv
<1> QED
  BY <1>3, <1>4, <1>5 DEF TimerFires, WriteDetached

-----------------------------------------------------------------------------
(* A flush that looks at the write in flight.  What it has waited for, if  *)
(* no write failed, is nothing, one write, or a second that began after it.*)
MayLook(target, waits) ==
    \/ waits = 0
    \/ waits = 1 /\ \A w \in writes : target <= w.covers
    \/ waits = 2 /\ target <= saved

LEMMA LooksKeeps ==
    ASSUME SaverInv, NEW f \in Flushes, NEW target \in Nat, NEW waits \in Nat,
           target <= marked, flushes[f].pc \in {"idle", "woken"}, Looks(f, target, waits),
           failures = 0 => MayLook(target, waits),
           target = marked \/ (timer' = timer /\ target = flushes[f].target),
           timer' \in {timer, None},
           UNCHANGED <<time, marked, saved, lastWriteAt, followUp, disk, mayForget, failures>>
    PROVE  SaverInv'
<1>1. /\ marked \in 0 .. MaxMarks /\ marked \in Nat /\ saved \in Nat /\ batch \in Nat
      /\ saved <= marked /\ batch <= marked /\ disk = saved
      /\ (timer = None \/ timer \in Nat)
      /\ flushes \in [Flushes -> FlushCall] /\ \A g \in Flushes : flushes[g].target <= marked
  BY SaverNumbers DEF SaverInv, SaverTypes
<1>2. ASSUME NEW stage \in FlushStages, NEW n \in Nat,
             flushes' = [flushes EXCEPT ![f] = [pc |-> stage, target |-> target, waits |-> n]],
             batch' \in Nat, batch' <= marked
      PROVE  /\ SaverTypes'
             /\ flushes'[f].pc = stage /\ flushes'[f].target = target /\ flushes'[f].waits = n
             /\ \A g \in Flushes \ {f} : flushes'[g] = flushes[g]
  <2> DEFINE x == [pc |-> stage, target |-> target, waits |-> n]
  <2>1. x \in FlushCall /\ x.pc = stage /\ x.target = target /\ x.waits = n
    BY DEF FlushCall
  <2> HIDE DEF x
  <2>2. flushes' = [flushes EXCEPT ![f] = x]
    BY <1>2 DEF x
  <2>3. flushes' \in [Flushes -> FlushCall] /\ flushes'[f] = x
        /\ \A g \in Flushes \ {f} : flushes'[g] = flushes[g]
    BY <1>1, <2>1, <2>2
  <2>4. \A g \in Flushes : flushes'[g].target <= marked
    BY <1>1, <2>1, <2>3
  <2>5. SaverTypes'
    BY <1>1, <1>2, <2>3, <2>4, TypesKept DEF SaverInv, SaverTypes
  <2> QED
    BY <2>1, <2>3, <2>5
<1>3. CASE /\ Waits(target) /\ UNCHANGED <<writes, batch>>
           /\ flushes' = [flushes EXCEPT ![f] = [pc |-> "waiting", target |-> target,
                                                 waits |-> waits + 1]]
  <2>1. /\ SaverTypes' /\ flushes'[f].pc = "waiting" /\ flushes'[f].target = target
        /\ flushes'[f].waits = waits + 1
        /\ \A g \in Flushes \ {f} : flushes'[g] = flushes[g]
    <3>1. waits + 1 \in Nat /\ "waiting" \in FlushStages
      BY DEF FlushStages
    <3>2. batch' \in Nat /\ batch' <= marked
      BY <1>1, <1>3
    <3> QED
      BY <1>2, <1>3, <3>1, <3>2
  <2>2. OneWrite'
    BY <1>1, <1>3, OldWritesFit
  <2>3. OwnerFits'
    BY <1>3, <2>1 DEF SaverInv, OwnerFits
  <2>4. WaitInv'
    <3> SUFFICES ASSUME failures = 0, NEW g \in Flushes PROVE WaitFits(flushes[g])'
      BY DEF WaitInv
    <3>1. CASE g = f
      BY <1>1, <1>3, <2>1, <3>1 DEF MayLook, Waits, WaitFits
    <3>2. CASE g # f
      BY <1>3, <2>1, <3>2 DEF SaverInv, WaitInv, WaitFits
    <3> QED
      BY <3>1, <3>2
  <2>5. NothingForgotten'
    BY <1>3, <2>1 DEF SaverInv, NothingForgotten, Dirty
  <2> QED
    BY <2>1, <2>2, <2>3, <2>4, <2>5 DEF SaverInv
<1>4. CASE /\ saved >= target /\ UNCHANGED <<writes, batch>>
           /\ flushes' = [flushes EXCEPT ![f] = [pc |-> "done", target |-> target,
                                                 waits |-> waits]]
  <2>1. /\ SaverTypes' /\ flushes'[f].pc = "done" /\ flushes'[f].target = target
        /\ flushes'[f].waits = waits
        /\ \A g \in Flushes \ {f} : flushes'[g] = flushes[g]
    BY <1>1, <1>2, <1>4 DEF FlushStages
  <2>2. OneWrite'
    BY <1>1, <1>4, OldWritesFit
  <2>3. OwnerFits'
    BY <1>1, <1>4, <2>1 DEF SaverInv, OwnerFits
  <2>4. WaitInv'
    <3> SUFFICES ASSUME failures = 0, NEW g \in Flushes PROVE WaitFits(flushes[g])'
      BY DEF WaitInv
    <3>1. CASE g = f
      BY <2>1, <3>1 DEF MayLook, WaitFits
    <3>2. CASE g # f
      BY <1>4, <2>1, <3>2 DEF SaverInv, WaitInv, WaitFits
    <3> QED
      BY <3>1, <3>2
  <2>5. NothingForgotten'
    BY <1>1, <1>4, <2>1 DEF SaverInv, NothingForgotten, Dirty
  <2> QED
    BY <2>1, <2>2, <2>3, <2>4, <2>5 DEF SaverInv
<1>5. CASE /\ ~Waits(target) /\ saved < target /\ batch' = 0
           /\ flushes' = [flushes EXCEPT ![f] = [pc |-> "writing", target |-> target,
                                                 waits |-> waits]]
           /\ writes' = writes \union {[owner |-> {f}, covers |-> marked, took |-> batch,
                                        ended |-> FALSE]}
  <2>1. /\ SaverTypes' /\ flushes'[f].pc = "writing" /\ flushes'[f].target = target
        /\ flushes'[f].waits = waits
        /\ \A g \in Flushes \ {f} : flushes'[g] = flushes[g]
    <3>1. "writing" \in FlushStages
      BY DEF FlushStages
    <3>2. batch' \in Nat /\ batch' <= marked
      BY <1>1, <1>5
    <3> QED
      BY <1>2, <1>5, <3>1, <3>2
  <2>2. writes = {}
    BY <1>5 DEF Waits, InFlight
  <2>3. OneWrite' /\ \A w \in writes' : w.owner = {f} /\ w.covers = marked' /\ ~w.ended
    BY <1>1, <1>5, <2>2, NewWriteFits
  <2>4. OwnerFits'
    BY <1>1, <2>1, <2>2, <2>3 DEF SaverInv, OwnerFits
  <2>5. WaitInv'
    <3> SUFFICES ASSUME failures = 0, NEW g \in Flushes PROVE WaitFits(flushes[g])'
      BY DEF WaitInv
    <3>1. CASE g = f
      BY <2>1, <3>1 DEF MayLook, WaitFits
    <3>2. CASE g # f
      BY <1>1, <2>1, <2>3, <3>2 DEF SaverInv, WaitInv, WaitFits
    <3> QED
      BY <3>1, <3>2
  <2>6. NothingForgotten'
    BY <1>5, <2>3 DEF NothingForgotten
  <2> QED
    BY <2>1, <2>3, <2>4, <2>5, <2>6 DEF SaverInv
<1> QED
  BY <1>3, <1>4, <1>5 DEF Looks

LEMMA FlushKeeps ==
    ASSUME SaverInv, NEW f \in Flushes, Flush(f)
    PROVE  SaverInv'
<1>1. marked \in Nat
  BY SaverNumbers DEF SaverInv, SaverTypes
<1> QED
  BY <1>1, LooksKeeps DEF Flush, MayLook

LEMMA LooksAgainKeeps ==
    ASSUME SaverInv, NEW f \in Flushes, FlushLooksAgain(f)
    PROVE  SaverInv'
<1>1. flushes[f].target \in Nat /\ flushes[f].waits \in Nat /\ flushes[f].target <= marked
  BY DEF SaverInv, SaverTypes, FlushCall
<1>2. failures = 0 => MayLook(flushes[f].target, flushes[f].waits)
  <2> SUFFICES ASSUME failures = 0 PROVE MayLook(flushes[f].target, flushes[f].waits)
    OBVIOUS
  <2>1. WaitFits(flushes[f]) /\ flushes[f].pc = "woken"
    BY DEF SaverInv, WaitInv, FlushLooksAgain
  <2>2. flushes[f].waits \in {1, 2}
    BY <1>1, <2>1 DEF WaitFits
  <2> QED
    BY <2>1, <2>2 DEF WaitFits, MayLook
<1> QED
  BY <1>1, <1>2, LooksKeeps DEF FlushLooksAgain

LEMMA DisposeKeeps ==
    ASSUME SaverInv, Dispose
    PROVE  SaverInv'
<1>1. /\ timer' = None /\ followUp' = FALSE /\ mayForget' = TRUE
      /\ UNCHANGED <<time, marked, saved, batch, lastWriteAt, writes, disk, flushes, failures>>
  BY DEF Dispose
<1>2. SaverTypes'
  BY <1>1, TypesKept, SaverNumbers DEF SaverInv, SaverTypes
<1>3. OneWrite' /\ OwnerFits' /\ WaitInv'
  BY <1>1 DEF SaverInv, OneWrite, WriteFits, OwnerFits, WaitInv, WaitFits
<1>4. NothingForgotten'
  BY <1>1 DEF NothingForgotten
<1> QED
  BY <1>2, <1>3, <1>4 DEF SaverInv

LEMMA AdvanceKeeps ==
    ASSUME SaverInv, time' \in 0 .. SaverMaxTime, time <= time',
           UNCHANGED <<marked, saved, batch, lastWriteAt, timer, followUp, writes, disk, flushes,
                       mayForget, failures>>
    PROVE  SaverInv'
<1>1. SaverTypes'
  <2>1. lastWriteAt <= time'
    BY SaverNumbers DEF SaverInv, SaverTypes
  <2> QED
    BY <2>1 DEF SaverInv, SaverTypes
<1>2. OneWrite' /\ OwnerFits' /\ WaitInv' /\ NothingForgotten'
  BY DEF SaverInv, OneWrite, WriteFits, OwnerFits, WaitInv, WaitFits, NothingForgotten, Dirty
<1> QED
  BY <1>1, <1>2 DEF SaverInv

-----------------------------------------------------------------------------
(* The end of a write.                                                     *)
LEMMA EndedIs ==
    ASSUME SaverInv, NEW w \in writes, writes' = Ended(w)
    PROVE  /\ WriteFits(w) /\ w \in Write /\ w.covers \in Nat /\ w.took \in Nat
           /\ \A v \in writes' : /\ v \in Write /\ v.ended /\ v.covers = w.covers
                                 /\ v.owner = w.owner
           /\ \A v \in writes : v = w
<1> DEFINE x == [w EXCEPT !.ended = TRUE]
<1>1. WriteFits(w) /\ w \in Write /\ \A v \in writes : v = w
  BY DEF SaverInv, OneWrite, WriteFits
<1>2. w.covers \in Nat /\ w.took \in Nat
  BY <1>1 DEF Write
<1>3. x \in Write /\ x.ended = TRUE /\ x.covers = w.covers /\ x.owner = w.owner
  BY <1>1 DEF Write
<1>4. writes' = {x}
  BY <1>1 DEF Ended
<1> HIDE DEF x
<1> QED
  BY <1>1, <1>2, <1>3, <1>4

LEMMA HearsIs ==
    ASSUME SaverInv, NEW w \in writes, NEW outcome \in FlushStages, flushes' = Hears(w, outcome)
    PROVE  /\ flushes' \in [Flushes -> FlushCall]
           /\ \A f \in Flushes : /\ flushes'[f].target = flushes[f].target
                                 /\ flushes'[f].waits = flushes[f].waits
                                 /\ f \in w.owner => flushes'[f].pc = outcome
                                 /\ f \notin w.owner => flushes'[f].pc = flushes[f].pc
<1>1. flushes \in [Flushes -> FlushCall]
  BY DEF SaverInv, SaverTypes
<1>2. ASSUME NEW f \in Flushes
      PROVE  /\ [flushes[f] EXCEPT !.pc = outcome] \in FlushCall
             /\ [flushes[f] EXCEPT !.pc = outcome].pc = outcome
             /\ [flushes[f] EXCEPT !.pc = outcome].target = flushes[f].target
             /\ [flushes[f] EXCEPT !.pc = outcome].waits = flushes[f].waits
  BY <1>1 DEF FlushCall
<1> QED
  BY <1>1, <1>2 DEF Hears

LEMMA LandsKeeps ==
    ASSUME SaverInv, NEW w \in writes, Lands(w)
    PROVE  SaverInv' /\ disk <= disk'
<1>1. /\ ~w.ended /\ saved' = w.covers /\ disk' = w.covers /\ lastWriteAt' = time
      /\ writes' = Ended(w) /\ flushes' = Hears(w, "done")
      /\ UNCHANGED <<time, marked, batch, timer, followUp, mayForget, failures>>
  BY DEF Lands, Covers
<1>2. /\ w.covers \in Nat /\ saved <= w.covers /\ w.covers <= marked
      /\ \A v \in writes' : v \in Write /\ v.ended /\ v.covers = w.covers /\ v.owner = w.owner
      /\ \A v \in writes : v = w
  BY <1>1, EndedIs DEF WriteFits
<1>3. /\ flushes' \in [Flushes -> FlushCall]
      /\ \A f \in Flushes : /\ flushes'[f].target = flushes[f].target
                            /\ flushes'[f].waits = flushes[f].waits
                            /\ f \in w.owner => flushes'[f].pc = "done"
                            /\ f \notin w.owner => flushes'[f].pc = flushes[f].pc
  BY <1>1, HearsIs DEF FlushStages
<1>4. saved \in Nat /\ marked \in Nat /\ time \in Nat /\ disk = saved
      /\ \A f \in Flushes : flushes[f].target \in Nat
  BY SaverNumbers DEF SaverInv, SaverTypes, FlushCall
<1>5. SaverTypes'
  BY <1>1, <1>2, <1>3, <1>4 DEF SaverInv, SaverTypes
<1>6. OneWrite'
  <2>1. \A v, u \in writes' : u = v
    BY <1>1, <1>2 DEF Ended
  <2>2. \A v \in writes' : WriteFits(v)'
    BY <1>1, <1>2, <1>4 DEF WriteFits
  <2> QED
    BY <2>1, <2>2 DEF OneWrite
<1>7. OwnerFits'
  <2>1. ASSUME NEW f \in Flushes, flushes'[f].pc = "done" PROVE flushes[f].target <= w.covers
    <3>1. CASE f \in w.owner
      BY <1>1, <3>1 DEF SaverInv, OwnerFits
    <3>2. CASE f \notin w.owner
      BY <1>2, <1>3, <1>4, <2>1, <3>2 DEF SaverInv, OwnerFits
    <3> QED
      BY <3>1, <3>2
  <2> QED
    BY <1>1, <1>2, <1>3, <2>1 DEF OwnerFits
<1>8. WaitInv'
  <2> SUFFICES ASSUME failures = 0, NEW f \in Flushes PROVE WaitFits(flushes[f])'
    BY <1>1 DEF WaitInv
  <2>1. WaitFits(flushes[f])
    BY DEF SaverInv, WaitInv
  <2>2. flushes'[f].pc \in {flushes[f].pc, "done"}
    BY <1>3
  <2>3. flushes[f].target <= saved => flushes[f].target <= w.covers
    BY <1>2, <1>4
  <2> QED
    BY <1>1, <1>2, <1>3, <2>1, <2>2, <2>3 DEF WaitFits
<1>9. NothingForgotten'
  <2> SUFFICES ASSUME marked # w.covers, timer = None, ~mayForget,
                      \A v \in writes' : ~followUp,
                      \A f \in Flushes : ~(flushes'[f].pc \in {"waiting", "woken"}
                                           /\ flushes'[f].target = marked)
               PROVE  FALSE
    BY <1>1, <1>2 DEF NothingForgotten, Dirty
  <2>1. \A f \in Flushes : f \in w.owner => flushes[f].pc = "writing"
    BY <1>1 DEF SaverInv, OwnerFits
  <2>2. \A f \in Flushes : ~(flushes[f].pc \in {"waiting", "woken"} /\ flushes[f].target = marked)
    BY <1>3, <2>1
  <2>3. \A v \in writes : ~followUp
    BY <1>1 DEF Ended
  <2>4. Dirty
    BY <1>2, <1>4 DEF Dirty
  <2> QED
    BY <1>2, <2>2, <2>3, <2>4 DEF SaverInv, NothingForgotten
<1>10. disk <= disk'
  BY <1>1, <1>2, <1>4
<1> QED
  BY <1>5, <1>6, <1>7, <1>8, <1>9, <1>10 DEF SaverInv

LEMMA FailsKeeps ==
    ASSUME SaverInv, NEW w \in writes, Fails(w)
    PROVE  SaverInv'
<1>1. /\ ~w.ended /\ failures' = failures + 1 /\ mayForget' = TRUE /\ batch' = batch + w.took
      /\ writes' = Ended(w) /\ flushes' = Hears(w, "failed")
      /\ UNCHANGED <<time, marked, saved, lastWriteAt, timer, followUp, disk>>
  BY DEF Fails
<1>2. /\ w.took \in Nat /\ batch + w.took <= marked /\ w.covers <= marked
      /\ \A v \in writes' : v \in Write /\ v.ended /\ v.covers = w.covers /\ v.owner = w.owner
  BY <1>1, EndedIs DEF WriteFits
<1>3. /\ flushes' \in [Flushes -> FlushCall]
      /\ \A f \in Flushes : /\ flushes'[f].target = flushes[f].target
                            /\ flushes'[f].waits = flushes[f].waits
                            /\ f \in w.owner => flushes'[f].pc = "failed"
                            /\ f \notin w.owner => flushes'[f].pc = flushes[f].pc
  BY <1>1, HearsIs DEF FlushStages
<1>4. batch \in Nat /\ failures \in Nat
  BY DEF SaverInv, SaverTypes
<1>5. batch' \in Nat /\ batch' <= marked /\ failures' \in Nat /\ failures' # 0
      /\ mayForget' \in BOOLEAN
  <2>1. batch' \in Nat /\ batch' <= marked
    BY <1>1, <1>2, <1>4
  <2>2. failures' \in Nat /\ failures' # 0
    BY <1>1, <1>4
  <2> QED
    BY <1>1, <2>1, <2>2
<1>6. SaverTypes'
  BY <1>1, <1>3, <1>5 DEF SaverInv, SaverTypes
<1>7. OneWrite'
  <2>1. \A v, u \in writes' : u = v
    BY <1>1, EndedIs DEF Ended
  <2>2. \A v \in writes' : WriteFits(v)'
    BY <1>1, <1>2, <1>5 DEF WriteFits
  <2> QED
    BY <2>1, <2>2 DEF OneWrite
<1>8. OwnerFits'
  BY <1>1, <1>2, <1>3 DEF SaverInv, OwnerFits
<1>9. WaitInv'
  BY <1>5 DEF WaitInv
<1>10. NothingForgotten'
  BY <1>1 DEF NothingForgotten
<1> QED
  BY <1>6, <1>7, <1>8, <1>9, <1>10 DEF SaverInv

LEMMA WakesIs ==
    ASSUME SaverInv,
           flushes' = [f \in Flushes |-> IF flushes[f].pc = "waiting"
                                         THEN [flushes[f] EXCEPT !.pc = "woken"] ELSE flushes[f]]
    PROVE  /\ flushes' \in [Flushes -> FlushCall]
           /\ \A f \in Flushes :
                 /\ flushes'[f].target = flushes[f].target /\ flushes'[f].waits = flushes[f].waits
                 /\ flushes'[f].pc = IF flushes[f].pc = "waiting" THEN "woken" ELSE flushes[f].pc
<1>1. flushes \in [Flushes -> FlushCall] /\ "woken" \in FlushStages
  BY DEF SaverInv, SaverTypes, FlushStages
<1>2. ASSUME NEW f \in Flushes
      PROVE  /\ [flushes[f] EXCEPT !.pc = "woken"] \in FlushCall
             /\ [flushes[f] EXCEPT !.pc = "woken"].pc = "woken"
             /\ [flushes[f] EXCEPT !.pc = "woken"].target = flushes[f].target
             /\ [flushes[f] EXCEPT !.pc = "woken"].waits = flushes[f].waits
  BY <1>1 DEF FlushCall
<1> QED
  BY <1>1, <1>2

LEMMA SettlesKeeps ==
    ASSUME SaverInv, NEW w \in writes, Settles(w)
    PROVE  SaverInv'
<1>1. /\ w.ended /\ \A v \in writes : v = w
      /\ failures = 0 => w.covers <= saved
      /\ w.covers \in Nat
      /\ UNCHANGED <<time, marked, saved, lastWriteAt, disk, mayForget, failures>>
  BY DEF Settles, SaverInv, OneWrite, WriteFits, Write
<1>2. /\ flushes' \in [Flushes -> FlushCall]
      /\ \A f \in Flushes :
            /\ flushes'[f].target = flushes[f].target /\ flushes'[f].waits = flushes[f].waits
            /\ flushes'[f].pc = IF flushes[f].pc = "waiting" THEN "woken" ELSE flushes[f].pc
  BY WakesIs DEF Settles
<1>3. /\ saved \in Nat /\ marked \in Nat /\ marked \in 0 .. MaxMarks /\ batch \in Nat
      /\ batch <= marked /\ saved <= marked
      /\ \A f \in Flushes : /\ flushes[f].target \in Nat /\ flushes[f].target <= marked
                            /\ flushes[f].waits \in Nat
  BY SaverNumbers DEF SaverInv, SaverTypes, FlushCall
<1>4. \/ /\ batch' = 0 /\ followUp' = FALSE /\ timer' = None
         /\ writes' = {[owner |-> {}, covers |-> marked, took |-> batch, ended |-> FALSE]}
      \/ /\ ~(followUp /\ Dirty) /\ writes' = {} /\ followUp' = FALSE /\ UNCHANGED <<timer, batch>>
  <2>1. writes \ {w} = {}
    BY <1>1
  <2> QED
    BY <2>1 DEF Settles, WriteDetached
<1>5. SaverTypes'
  <2>1. \A f \in Flushes : flushes'[f].target <= marked'
    BY <1>1, <1>2, <1>3
  <2>2. batch' \in Nat /\ batch' <= marked' /\ (timer' = None \/ timer' \in Nat)
    BY <1>1, <1>3, <1>4 DEF SaverInv, SaverTypes
  <2>3. followUp' \in {followUp, TRUE, FALSE} /\ mayForget' \in {mayForget, TRUE, FALSE}
    BY <1>1, <1>4
  <2>4. /\ marked' \in 0 .. MaxMarks /\ marked <= marked'
        /\ UNCHANGED <<time, saved, lastWriteAt, failures, disk>>
    BY <1>1, <1>3
  <2> QED
    BY <1>2, <2>1, <2>2, <2>3, <2>4, TypesKept
<1>6. OneWrite' /\ \A v \in writes' : v.owner = {} /\ v.covers = marked /\ ~v.ended
  <2>1. CASE writes' = {}
    BY <2>1 DEF OneWrite
  <2>2. CASE /\ batch' = 0
             /\ writes' = {[owner |-> {}, covers |-> marked, took |-> batch, ended |-> FALSE]}
    BY <1>1, <1>3, <2>2, NewWriteFits
  <2> QED
    BY <1>4, <2>1, <2>2
<1>7. OwnerFits'
  BY <1>1, <1>2, <1>6 DEF SaverInv, OwnerFits
<1>8. WaitInv'
  <2> SUFFICES ASSUME failures = 0, NEW f \in Flushes PROVE WaitFits(flushes[f])'
    BY <1>1 DEF WaitInv
  <2>1. WaitFits(flushes[f])
    BY DEF SaverInv, WaitInv
  <2>2. /\ flushes'[f].waits <= 2
        /\ flushes'[f].pc \in {"waiting", "woken"} => flushes'[f].waits # 0
    BY <1>2, <2>1 DEF WaitFits
  <2>3. flushes'[f].pc = "woken" /\ flushes'[f].waits = 2 => flushes'[f].target <= saved'
    <3>1. CASE flushes[f].pc = "waiting"
      BY <1>1, <1>2, <1>3, <2>1, <3>1 DEF WaitFits
    <3>2. CASE flushes[f].pc # "waiting"
      BY <1>1, <1>2, <2>1, <3>2 DEF WaitFits
    <3> QED
      BY <3>1, <3>2
  <2>4. \A v \in writes' : flushes'[f].target <= v.covers
    BY <1>2, <1>3, <1>6
  <2> QED
    BY <2>2, <2>3, <2>4 DEF WaitFits
<1>9. NothingForgotten'
  <2>1. CASE writes' # {}
    BY <1>1, <1>6, <2>1 DEF NothingForgotten
  <2>2. CASE ~(followUp /\ Dirty) /\ timer' = timer
    BY <1>1, <1>2, <2>2 DEF SaverInv, NothingForgotten, Dirty
  <2> QED
    BY <1>4, <2>1, <2>2
<1> QED
  BY <1>5, <1>6, <1>7, <1>8, <1>9 DEF SaverInv

-----------------------------------------------------------------------------
LEMMA SaverStarts == SaverInit => SaverInv
<1> SUFFICES ASSUME SaverInit PROVE SaverInv
  OBVIOUS
<1>1. /\ time = 0 /\ marked = 0 /\ saved = 0 /\ batch = 0 /\ lastWriteAt = 0 /\ timer = None
      /\ followUp = FALSE /\ writes = {} /\ disk = 0 /\ mayForget = FALSE /\ failures = 0
      /\ flushes = [f \in Flushes |-> [pc |-> "idle", target |-> 0, waits |-> 0]]
  BY DEF SaverInit
<1>2. /\ flushes \in [Flushes -> FlushCall]
      /\ \A f \in Flushes : /\ flushes[f].pc = "idle" /\ flushes[f].target = 0
                            /\ flushes[f].waits = 0
  BY <1>1 DEF FlushCall, FlushStages
<1>3. SaverTypes
  <2>1. followUp \in BOOLEAN /\ mayForget \in BOOLEAN
    BY <1>1
  <2> QED
    BY <1>1, <1>2, <2>1, SaverNumbers DEF SaverTypes
<1>4. OneWrite /\ OwnerFits /\ WaitInv /\ NothingForgotten
  BY <1>1, <1>2 DEF OneWrite, OwnerFits, WaitInv, WaitFits, NothingForgotten, Dirty
<1> QED
  BY <1>3, <1>4 DEF SaverInv

LEMMA SaverStepKeeps ==
    ASSUME SaverInv, [SaverNext]_saverVars
    PROVE  SaverInv' /\ disk <= disk'
<1>1. disk \in Nat
  BY DEF SaverInv, SaverTypes
<1>2. CASE UNCHANGED saverVars
  <2>1. SaverTypes' /\ OneWrite' /\ OwnerFits' /\ WaitInv' /\ NothingForgotten'
    BY <1>2 DEF saverVars, SaverInv, SaverTypes, OneWrite, WriteFits, OwnerFits, WaitInv, WaitFits,
       NothingForgotten, Dirty
  <2> QED
    BY <1>1, <1>2, <2>1 DEF saverVars, SaverInv
<1>3. CASE MarkDirty
  <2>1. disk' = disk
    BY <1>3 DEF MarkDirty
  <2>2. SaverInv'
    BY <1>3, MarkDirtyKeeps
  <2> QED
    BY <1>1, <2>1, <2>2
<1>4. CASE TimerFires
  BY <1>1, <1>4, TimerKeeps DEF TimerFires
<1>5. CASE Dispose
  <2>1. disk' = disk
    BY <1>5 DEF Dispose
  <2>2. SaverInv'
    BY <1>5, DisposeKeeps
  <2> QED
    BY <1>1, <2>1, <2>2
<1>6. CASE Advance
  <2>1. time' \in 0 .. SaverMaxTime /\ time <= time'
    BY <1>6, SaverNumbers DEF Advance, SaverInv, SaverTypes
  <2> QED
    BY <1>1, <1>6, <2>1, AdvanceKeeps DEF Advance
<1>7. ASSUME NEW f \in Flushes, Flush(f) \/ FlushLooksAgain(f)
      PROVE  SaverInv' /\ disk <= disk'
  BY <1>1, <1>7, FlushKeeps, LooksAgainKeeps DEF Flush, FlushLooksAgain
<1>8. ASSUME NEW w \in writes, Lands(w) PROVE SaverInv' /\ disk <= disk'
  BY <1>8, LandsKeeps
<1>9. ASSUME NEW w \in writes, Fails(w) \/ Settles(w) PROVE SaverInv' /\ disk <= disk'
  <2>1. disk' = disk
    BY <1>9 DEF Fails, Settles
  <2>2. SaverInv'
    BY <1>9, FailsKeeps, SettlesKeeps
  <2> QED
    BY <1>1, <2>1, <2>2
<1> QED
  BY <1>2, <1>3, <1>4, <1>5, <1>6, <1>7, <1>8, <1>9 DEF SaverNext, WriteEnds, WriteSettles

LEMMA SaverInvSafe == SaverInv => SaverSafe
<1> SUFFICES ASSUME SaverInv PROVE SaverSafe
  OBVIOUS
<1>1. FlushKeepsPromise
  BY DEF SaverInv, SaverTypes, OwnerFits, FlushKeepsPromise
<1>2. FlushWaitsTwice
  <2>1. failures = 0 => \A f \in Flushes : flushes[f].waits <= 2
    BY DEF SaverInv, WaitInv, WaitFits
  <2>2. failures = 0 \/ failures > 0
    BY DEF SaverInv, SaverTypes
  <2> QED
    BY <2>1, <2>2 DEF FlushWaitsTwice
<1> QED
  BY <1>1, <1>2 DEF SaverInv, SaverSafe

(* What was marked before a flush is on disk when the flush resolves, over *)
(* detached writes, follow-ups, other flushes and failures; a mark that is *)
(* not on disk is on its way; a flush waits for two writes at most         *)
(* (throttled-saver.ts:130-132, 155-158, 168-174).                         *)
THEOREM SaverIsSafe == SaverSpec => []SaverSafe
<1>1. SaverSpec => []SaverInv
  BY SaverStarts, SaverStepKeeps, PTL DEF SaverSpec
<1> QED
  BY <1>1, SaverInvSafe, PTL

(* The types of the saver, which has one write in flight at most.          *)
THEOREM SaverTypesKept == SaverSpec => []SaverTypeOK
<1>1. SaverInv => SaverTypeOK
  <2>. SUFFICES ASSUME SaverInv PROVE SaverTypeOK
    OBVIOUS
  <2>1. /\ time \in 0 .. SaverMaxTime /\ marked \in 0 .. MaxMarks /\ saved \in 0 .. marked
        /\ batch \in 0 .. marked /\ lastWriteAt \in 0 .. time /\ disk \in 0 .. marked
        /\ (timer = None \/ timer \in Nat) /\ followUp \in BOOLEAN /\ mayForget \in BOOLEAN
    BY SaverAssumption DEF SaverInv, SaverTypes
  <2>2. CASE writes = {}
    BY <2>1, <2>2, FS_EmptySet DEF SaverTypeOK
  <2>3. CASE \E w : w \in writes
    <3>1. PICK w : writes = {w}
      BY <2>3 DEF SaverInv, OneWrite
    <3>. QED
      BY <2>1, <3>1, FS_Singleton DEF SaverTypeOK
  <2>. QED
    BY <2>2, <2>3
<1>. QED
  BY <1>1, SaverStarts, SaverStepKeeps, PTL DEF SaverSpec

(* No write leaves an older document than the one before                   *)
(* (throttled-saver.ts:93-96).                                             *)
THEOREM NeverOlder == SaverSpec => NeverBack
<1>1. SaverSpec => []SaverInv
  BY SaverStarts, SaverStepKeeps, PTL DEF SaverSpec
<1>2. SaverInv /\ [SaverNext]_saverVars => [NeverBackStep]_saverVars
  <2> SUFFICES ASSUME SaverInv, [SaverNext]_saverVars PROVE NeverBackStep
    OBVIOUS
  <2>1. disk <= disk'
    BY SaverStepKeeps
  <2> QED
    BY <2>1 DEF NeverBackStep
<1> QED
  BY <1>1, <1>2, PTL DEF SaverSpec, NeverBack
=============================================================================
