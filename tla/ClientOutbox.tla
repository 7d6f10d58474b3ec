---------------------------- MODULE ClientOutbox ----------------------------
(***************************************************************************)
(* The offline outbox of @spy4x/realtime (src/realtime/outbox.ts): a queue *)
(* of writes one signed-in user made, kept in a store that the tabs of one *)
(* browser share, and sent under idempotency keys.                         *)
(*                                                                         *)
(* Every step on the queue runs under the lock.  A step that only touches  *)
(* the store is one action; a send gives the lock up only when it settles, *)
(* so it is an action that starts it and actions that end it.  The server  *)
(* of the application is outside the repository: it is modelled from what  *)
(* `send`, `fetchServer` and `classify` say of it.                         *)
(***************************************************************************)
EXTENDS Naturals, Sequences

CONSTANTS
    Entities,     \* what the person writes: notes, tasks, ...
    Tabs,         \* the tabs of one browser that share the store
    Nobody,       \* the lock is free
    MaxChanges,   \* bound: how many changes the person makes
    MaxEvents,    \* bound: how often another device writes or a tab closes
    UndoSteps     \* UNDO_STEPS: how many merged edits withdraw can take back

Changes == 1 .. MaxChanges

ASSUME TabsAssumption == /\ Nobody \notin Tabs \cup Changes
                         /\ Tabs \cap Changes = {}
ASSUME BoundsAssumption == /\ MaxChanges \in Nat
                           /\ MaxEvents \in Nat
                           /\ UndoSteps \in Nat \ {0}

(***************************************************************************)
(* A change is named by its number; the number is also its payload and the *)
(* submit call that made it.  A process is a submit call, or the flush a   *)
(* tab starts by itself after a reconnect or a pushed hint.                *)
(***************************************************************************)
Processes == Changes \cup Tabs
Kinds     == {"create", "update", "delete"}
Reasons   == {"none", "version", "gone", "rejected"}
Refusals  == {"version", "not-found", "already-exists", "rejected"}
Outcomes  == {"none", "queued", "sent", "dropped", "failed", "conflict", "crashed"}

Snapshots == [key : Nat, kind : Kinds, payload : Changes, base : Nat,
              attempted : BOOLEAN, truncated : BOOLEAN]

Entries == [seq : Nat, entity : Entities, key : Nat, kind : Kinds,
            payload : Changes, base : Nat, attempted : BOOLEAN,
            truncated : BOOLEAN, before : Seq(Snapshots),
            conflicted : BOOLEAN, reason : Reasons, server : Nat,
            ownCreate : BOOLEAN]

Commands == [key : Nat, entity : Entities, kind : Kinds, payload : Changes,
             base : Nat]

Cards == [seq : Nat, key : Nat, payload : Changes]

VARIABLES
    queue,        \* the store: the waiting entries, ordered by their seq
    nextSeq,      \* the store's next sequence number
    nextKey,      \* the next idempotency key: newKey() never repeats one
    lock,         \* the process inside a step that waits for the network
    pc,           \* where each process is
    todo,         \* the seqs a flush has still to send; it takes the least one first
    sending,      \* the entry a send was started for, its watchers and its refusal
    call,         \* per submit: its tab, its entry's seq and its outcome
    watched,      \* the map `interactive` of each tab
    changes,      \* how many changes were made so far
    cards,        \* the conflicts that some screen has shown
    events,       \* how often another device wrote or a tab closed
    server,       \* the application's entities
    inFlight,     \* commands on the wire, or at a server that answers nobody
    applied,      \* keys of commands that took effect: the server's idempotency record
    sent,         \* history: every command a send was started for
    wanted,       \* history: the change the person wants of each entity, 0 for none
    landed        \* history: changes that took effect on the server

store   == <<queue, nextSeq, nextKey>>
procs   == <<lock, pc, todo, sending>>
people  == <<call, watched, changes, cards>>
network == <<server, inFlight, applied>>
history == <<sent, wanted, landed>>
vars    == <<store, procs, people, network, history, events>>

Absent == [alive |-> FALSE, ver |-> 0]
NoCall == [tab |-> Nobody, seq |-> 0, outcome |-> "none"]
Idle   == <<>>

TabOf(p)    == IF p \in Tabs THEN p ELSE call[p].tab
Free        == lock = Nobody
Waiters(t, s) == {c \in Changes : pc[c] # "done" /\ call[c].tab = t /\ call[c].seq = s}

(***************************************************************************)
(* Entries and their merged history.  `before` is the chain of snapshots,  *)
(* the newest first.                                                       *)
(***************************************************************************)
EntryOf(e)   == {x \in queue : x.entity = e}
Find(s)      == {x \in queue : x.seq = s}
Saved_Appends(x) == queue \cup {x}  \* mutant: the entry is added again instead of replaced
Saved(x)     == (queue \ Find(x.seq)) \cup {x}
Dropped(s)   == queue \ Find(s)

\* Whether a send of this write, or of any write merged into it, was started.
MayHaveReachedServer(x) ==
    x.attempted \/ \E i \in DOMAIN x.before : x.before[i].attempted

\* The chain cut to UndoSteps; the last kept step remembers a forgotten send.
Capped(chain) ==
    IF Len(chain) <= UndoSteps THEN chain
    ELSE [i \in 1 .. UndoSteps |->
            IF i < UndoSteps THEN chain[i]
            ELSE [chain[i] EXCEPT
                    !.attempted = \E j \in UndoSteps .. Len(chain) : chain[j].attempted,
                    !.truncated = TRUE]]

SnapshotOf(x) == [key |-> x.key, kind |-> x.kind, payload |-> x.payload,
                  base |-> x.base, attempted |-> x.attempted,
                  truncated |-> x.truncated]

\* An edit replaces the write a conflict was about, under a fresh key when a send was started.
Renewed(x, payload, kind, base, key, own) ==
    [x EXCEPT !.payload = payload, !.kind = kind, !.base = base, !.key = key,
              !.attempted = FALSE, !.conflicted = FALSE, !.reason = "none",
              !.server = 0, !.ownCreate = own,
              !.before = Capped(<<SnapshotOf(x)>> \o x.before)]

FirstEntry(e, kind, base, payload) ==
    [seq |-> nextSeq, entity |-> e, key |-> nextKey, kind |-> kind,
     payload |-> payload, base |-> base, attempted |-> FALSE,
     truncated |-> FALSE, before |-> <<>>, conflicted |-> FALSE,
     reason |-> "none", server |-> 0, ownCreate |-> FALSE]

\* Mutant: an edit keeps the key of a send whose outcome is unknown.
WithUpdate_KeepsKey(x, payload) ==
    IF x.kind = "create" /\ ~x.conflicted /\ MayHaveReachedServer(x)
    THEN Renewed(x, payload, "update", 1, x.key, TRUE)
    ELSE Renewed(x, payload, x.kind, x.base, x.key, x.ownCreate)

\* The waiting entry `x` with an update merged into it.
WithUpdate(x, payload) ==
    LET key == IF x.attempted THEN nextKey ELSE x.key
    IN  IF x.kind = "create" /\ ~x.conflicted /\ MayHaveReachedServer(x)
        THEN Renewed(x, payload, "update", 1, nextKey, TRUE)
        ELSE Renewed(x, payload, x.kind, x.base, key, x.ownCreate)

\* The waiting entry `x` with a delete merged into it, when a delete has to be sent.
WithDelete(x, payload) ==
    LET key == IF x.attempted THEN nextKey ELSE x.key
    IN  IF x.kind = "create"
        THEN Renewed(x, payload, "delete", 1, nextKey, x.ownCreate)
        ELSE Renewed(x, payload, "delete", x.base, key, FALSE)

\* The entry with its latest merged edit taken back.
StepBack(x) ==
    LET b == Head(x.before)
    IN  [x EXCEPT !.key = b.key, !.kind = b.kind, !.payload = b.payload,
                  !.base = b.base, !.attempted = b.attempted,
                  !.truncated = b.truncated, !.before = Tail(x.before)]

-----------------------------------------------------------------------------
(***************************************************************************)
(* How a process goes on after a step: the outcomes a send settles, and    *)
(* what a submit call leaves behind when its flush is over.                *)
(***************************************************************************)
Settled(t, s, outcome) ==
    [c \in Changes |-> IF c \in Waiters(t, s) THEN [call[c] EXCEPT !.outcome = outcome]
                       ELSE call[c]]

\* A tab's mark on an entry, as `submit` sets it: `alone` when no write waited before.
Marked(t, s, alone) == {w \in watched[t] : w.seq # s} \cup {[seq |-> s, alone |-> alone]}

\* The marks of the caller's tab once submit call c has returned.
Unmarked(c) ==
    LET t == call[c].tab
        s == call[c].seq
    IN  IF Waiters(t, s) \subseteq {c} THEN {w \in watched[t] : w.seq # s} ELSE watched[t]

Returned(c, calls) ==
    [calls EXCEPT ![c] = [NoCall EXCEPT !.outcome =
        IF calls[c].outcome = "none" THEN "queued" ELSE calls[c].outcome]]

\* Mutant: the lock is kept when the flush ends.
GoesOn_KeepsLock(p, rest, calls) ==
    /\ lock' = IF rest = {} THEN lock ELSE Nobody
    /\ sending' = [sending EXCEPT ![p] = Idle]
    /\ todo' = [todo EXCEPT ![p] = rest]
    /\ pc' = [pc EXCEPT ![p] = IF rest # {} THEN "flush" ELSE IF p \in Tabs THEN "idle" ELSE "done"]
    /\ call' = IF rest # {} \/ p \in Tabs THEN calls ELSE Returned(p, calls)
    /\ watched' = IF rest # {} \/ p \in Tabs THEN watched
                  ELSE [watched EXCEPT ![call[p].tab] = Unmarked(p)]

\* Process p gives the lock back and has `rest` of its flush to do; `calls` are the settled calls.
GoesOn(p, rest, calls) ==
    /\ lock' = Nobody
    /\ sending' = [sending EXCEPT ![p] = Idle]
    /\ todo' = [todo EXCEPT ![p] = rest]
    /\ \/ /\ rest # {}
          /\ pc' = [pc EXCEPT ![p] = "flush"]
          /\ call' = calls
          /\ UNCHANGED watched
       \/ /\ rest = {} /\ p \in Tabs
          /\ pc' = [pc EXCEPT ![p] = "idle"]
          /\ call' = calls
          /\ UNCHANGED watched
       \/ /\ rest = {} /\ p \in Changes
          /\ pc' = [pc EXCEPT ![p] = "done"]
          /\ call' = Returned(p, calls)
          /\ watched' = [watched EXCEPT ![call[p].tab] = Unmarked(p)]

\* The entry leaves the queue, or is saved, and nothing else of the store changes.
Removes(s) == queue' = Dropped(s) /\ UNCHANGED <<nextSeq, nextKey>>
Saves(x) ==
    /\ queue' = Saved(x)
    /\ nextKey' = IF x.key = nextKey THEN nextKey + 1 ELSE nextKey
    /\ UNCHANGED nextSeq

-----------------------------------------------------------------------------
Init ==
    /\ queue = {} /\ nextSeq = 1 /\ nextKey = 1
    /\ lock = Nobody
    /\ pc = [p \in Processes |-> "idle"]
    /\ todo = [p \in Processes |-> {}]
    /\ sending = [p \in Processes |-> Idle]
    /\ call = [c \in Changes |-> NoCall]
    /\ watched = [t \in Tabs |-> {}]
    /\ changes = 0 /\ events = 0
    /\ cards = {}
    /\ server \in [Entities -> {Absent, [alive |-> TRUE, ver |-> 1]}]
    /\ inFlight = {} /\ applied = {}
    /\ sent = {} /\ landed = {}
    /\ wanted = [e \in Entities |-> 0]

(***************************************************************************)
(* submit(change): the locked step that records the change and watches the *)
(* entry.  The call then flushes like any other process.                   *)
(***************************************************************************)
\* Mutant: a change is recorded without the lock.
NewChange_Unlocked == changes < MaxChanges /\ changes' = changes + 1

NewChange ==
    /\ Free
    /\ changes < MaxChanges
    /\ changes' = changes + 1

Watches(t, s, alone) ==
    LET c == changes + 1
    IN  /\ pc' = [pc EXCEPT ![c] = "queued"]
        /\ call' = [call EXCEPT ![c] = [tab |-> t, seq |-> s, outcome |-> "none"]]
        /\ watched' = [watched EXCEPT ![t] = Marked(t, s, alone)]
        /\ UNCHANGED <<lock, todo, sending, cards, network, sent, landed, events>>

\* No write of the entity waits.
SubmitFirst(t, e, kind, version) ==
    /\ NewChange
    /\ EntryOf(e) = {}
    /\ kind = "create" <=> version = 0
    /\ version <= server[e].ver
    /\ queue' = queue \cup {FirstEntry(e, kind, version, changes + 1)}
    /\ nextSeq' = nextSeq + 1
    /\ nextKey' = nextKey + 1
    /\ Watches(t, nextSeq, TRUE)
    /\ wanted' = [wanted EXCEPT ![e] = changes + 1]

\* A deleted entity is not edited again, and an entity that waits is not created again.
SubmitIgnored(t, e, kind) ==
    /\ NewChange
    /\ \E x \in EntryOf(e) :
          /\ x.kind = "delete" \/ kind = "create"
          /\ Watches(t, x.seq, FALSE)
    /\ UNCHANGED <<store, wanted>>

SubmitUpdate(t, e) ==
    /\ NewChange
    /\ \E x \in EntryOf(e) :
          /\ x.kind # "delete"
          /\ Saves(WithUpdate(x, changes + 1))
          /\ Watches(t, x.seq, FALSE)
    /\ wanted' = [wanted EXCEPT ![e] = changes + 1]

\* A delete that is sent: of an entity the server may have.
SubmitDelete(t, e) ==
    /\ NewChange
    /\ \E x \in EntryOf(e) :
          /\ \/ x.kind = "update"
             \/ x.kind = "create" /\ ~x.conflicted /\ MayHaveReachedServer(x)
          /\ Saves(WithDelete(x, changes + 1))
          /\ Watches(t, x.seq, FALSE)
    /\ wanted' = [wanted EXCEPT ![e] = changes + 1]

\* A delete that drops the waiting create: the server refused it, or it was never sent.
SubmitDrop(e) ==
    /\ NewChange
    /\ \E x \in EntryOf(e) :
          /\ x.kind = "create"
          /\ x.conflicted \/ ~MayHaveReachedServer(x)
          /\ Removes(x.seq)
    /\ pc' = [pc EXCEPT ![changes + 1] = "done"]
    /\ call' = [call EXCEPT ![changes + 1].outcome = "dropped"]
    /\ wanted' = [wanted EXCEPT ![e] = 0]
    /\ UNCHANGED <<lock, todo, sending, watched, cards, network, sent, landed, events>>
(***************************************************************************)
(* flush(): the locked reload, then one locked step per entry.             *)
(***************************************************************************)
Waiting == {x.seq : x \in queue}

Reload(p) ==
    /\ pc[p] = IF p \in Tabs THEN "idle" ELSE "queued"
    /\ Free
    /\ p \in Tabs => queue # {}
    /\ GoesOn(p, Waiting, call)
    /\ UNCHANGED <<store, changes, cards, network, history, events>>

NextSeqOf(p, s) == s \in todo[p] /\ \A r \in todo[p] : s <= r

\* Mutant: an entry that waits for a person stops the flush.
SkipEntry_Stops(p, s) ==
    /\ pc[p] = "flush" /\ Free /\ NextSeqOf(p, s)
    /\ \A x \in Find(s) : x.conflicted
    /\ GoesOn(p, {}, call)
    /\ UNCHANGED <<store, changes, cards, network, history, events>>

\* sendOne finds nothing to send: the entry left the queue, or waits for a person.
SkipEntry(p, s) ==
    /\ pc[p] = "flush" /\ Free /\ NextSeqOf(p, s)
    /\ \A x \in Find(s) : x.conflicted
    /\ GoesOn(p, todo[p] \ {s}, call)
    /\ UNCHANGED <<store, changes, cards, network, history, events>>

\* Process p may run sendOne: its turn has come, or it holds the lock to send the create again.
MaySendOne(p) == (pc[p] = "flush" /\ Free) \/ pc[p] = "resend"

\* canSend() is the environment's answer; when it is no, the flush stops here.
StopOffline(p, s) ==
    /\ MaySendOne(p) /\ NextSeqOf(p, s)
    /\ \E x \in Find(s) : ~x.conflicted
    /\ GoesOn(p, {}, call)
    /\ UNCHANGED <<store, changes, cards, network, history, events>>

CommandOf(x) == [key |-> x.key, entity |-> x.entity, kind |-> x.kind,
                 payload |-> x.payload, base |-> x.base]

\* `attempted` is saved before the command leaves, and the lock is held until the send settles.
StartSend(p, s) ==
    /\ MaySendOne(p) /\ NextSeqOf(p, s)
    /\ \E x \in Find(s) :
          LET y == [x EXCEPT !.attempted = TRUE]
              marks == {w \in watched[TabOf(p)] : w.seq = s}
          IN  /\ ~x.conflicted
              /\ queue' = Saved(y)
              /\ sending' = [sending EXCEPT ![p] =
                    [entry |-> y, wants |-> marks # {}, failure |-> "none",
                     alone |-> x.before = <<>> /\ \E w \in marks : w.alone]]
              /\ inFlight' = inFlight \cup {CommandOf(y)}
              /\ sent' = sent \cup {CommandOf(y)}
    /\ lock' = p
    /\ pc' = [pc EXCEPT ![p] = "sending"]
    /\ UNCHANGED <<nextSeq, nextKey, todo, people, server, applied,
                   wanted, landed, events>>

(***************************************************************************)
(* The application's server: versioned entities, and a record of the keys  *)
(* that took effect, so a repeated command is answered and not repeated.   *)
(***************************************************************************)
Verdict(m) ==
    LET here == server[m.entity]
    IN  IF m.key \in applied THEN "ok"
        ELSE IF m.kind = "create" THEN (IF here.alive THEN "already-exists" ELSE "ok")
        ELSE IF ~here.alive THEN "not-found"
        ELSE IF here.ver # m.base THEN "version" ELSE "ok"

TakesEffect(m) ==
    /\ server' = [server EXCEPT ![m.entity] =
          IF m.key \in applied THEN server[m.entity]
          ELSE CASE m.kind = "create" -> [alive |-> TRUE, ver |-> 1]
                 [] m.kind = "update" -> [alive |-> TRUE, ver |-> server[m.entity].ver + 1]
                 [] m.kind = "delete" -> [alive |-> FALSE, ver |-> server[m.entity].ver]]
    /\ applied' = applied \cup {m.key}
    /\ landed' = IF m.key \in applied THEN landed ELSE landed \cup {m.payload}

\* The server takes a command whose sender has given it up.
LateArrival(m) ==
    /\ m \in inFlight
    /\ inFlight' = inFlight \ {m}
    /\ IF Verdict(m) = "ok" THEN TakesEffect(m) ELSE UNCHANGED <<server, applied, landed>>
    /\ UNCHANGED <<store, procs, people, sent, wanted, events>>

\* Another device of the same account.
Event == events < MaxEvents /\ events' = events + 1

OtherDevice(e) ==
    /\ Event
    /\ \/ /\ server[e] = Absent
          /\ server' = [server EXCEPT ![e] = [alive |-> TRUE, ver |-> 1]]
       \/ /\ server[e].alive
          /\ server' = [server EXCEPT ![e].ver = server[e].ver + 1]
       \/ /\ server[e].alive
          /\ server' = [server EXCEPT ![e].alive = FALSE]
    /\ UNCHANGED <<store, procs, people, inFlight, applied, history>>

(***************************************************************************)
(* The end of a send.  `unchanged`: the queue still holds the entry under  *)
(* the key that was sent.  It always does, under one lock for all tabs     *)
(* (EntryHeldWhileSending), so refuse() never leaves at its first line.    *)
(***************************************************************************)
Unchanged(x) == \E y \in Find(x.seq) : y.key = x.key
SettledBy(p, x, outcome) ==
    IF sending[p].wants THEN Settled(TabOf(p), x.seq, outcome) ELSE call
AfterEntry(p, x) == todo[p] \ {x.seq}

\* The server answers process p's command: `verdict` is what p reads.
Answered(p, verdict) ==
    LET m == CommandOf(sending[p].entry)
    IN  /\ pc[p] = "sending" /\ (m \in inFlight \/ m.key \in applied)
        /\ verdict = Verdict(m) \/ (verdict = "rejected" /\ m.key \notin applied)
        /\ inFlight' = inFlight \ {m}

SendSucceeds(p) ==
    LET x == sending[p].entry
    IN  /\ Answered(p, "ok")
        /\ TakesEffect(CommandOf(x))
        /\ IF Unchanged(x) THEN Removes(x.seq) ELSE UNCHANGED store
        /\ GoesOn(p, AfterEntry(p, x), SettledBy(p, x, "sent"))
        /\ UNCHANGED <<changes, cards, sent, wanted, events>>

\* The answer is lost, or the call timed out: the outcome is unknown and the flush stops.
SendUnreachable(p) ==
    /\ pc[p] = "sending"
    /\ GoesOn(p, {}, call)
    /\ UNCHANGED <<store, changes, cards, network, history, events>>

\* A delete of an entity that is gone has reached its goal.
RefusedDeleteOfGone(p) ==
    LET x == sending[p].entry
    IN  /\ Answered(p, "not-found") /\ Unchanged(x)
        /\ x.kind = "delete"
        /\ Removes(x.seq)
        /\ GoesOn(p, AfterEntry(p, x), SettledBy(p, x, "sent"))
        /\ landed' = landed \cup {x.payload}
        /\ UNCHANGED <<changes, cards, server, applied, sent, wanted, events>>

IsOwnCreate(x, failure) == failure = "not-found" /\ x.kind = "update" /\ x.ownCreate

\* The create this edit was merged into never arrived: the latest text goes out as the create.
RefusedOwnCreate(p) ==
    LET x == sending[p].entry
    IN  /\ Answered(p, "not-found") /\ Unchanged(x)
        /\ IsOwnCreate(x, "not-found")
        /\ Saves([x EXCEPT !.kind = "create", !.base = 0, !.key = nextKey,
                           !.attempted = FALSE, !.ownCreate = FALSE])
        /\ pc' = [pc EXCEPT ![p] = "resend"]
        /\ sending' = [sending EXCEPT ![p] = Idle]
        /\ UNCHANGED <<lock, todo, people, server, applied, history, events>>

\* The refusal is the caller's to read; `alone` means the caller shows it and nothing is queued.
Refusable(p, failure) ==
    LET x == sending[p].entry
    IN  /\ Answered(p, failure) /\ Unchanged(x)
        /\ ~(failure = "not-found" /\ x.kind = "delete")
        /\ ~IsOwnCreate(x, failure)

ShownAlone(p) == sending[p].wants /\ sending[p].alone

RefusedAlone(p, failure) ==
    LET x == sending[p].entry
    IN  /\ Refusable(p, failure)
        /\ ShownAlone(p)
        /\ Removes(x.seq)
        /\ GoesOn(p, AfterEntry(p, x), Settled(TabOf(p), x.seq, "failed"))
        /\ UNCHANGED <<changes, cards, server, applied, sent, wanted, landed, events>>

\* fetchServer is asked for the other side of the conflict.
AsksServer(failure) == failure \in {"version", "not-found", "already-exists"}

RefusedStale(p, failure) ==
    /\ Refusable(p, failure) /\ ~ShownAlone(p)
    /\ AsksServer(failure)
    /\ pc' = [pc EXCEPT ![p] = "asking"]
    /\ sending' = [sending EXCEPT ![p].failure = failure]
    /\ UNCHANGED <<store, lock, todo, people, server, applied, history, events>>

\* markConflict: the entry waits for a person.
MarksConflict(p, reason, version) ==
    LET x == sending[p].entry
    IN  /\ Saves([x EXCEPT !.conflicted = TRUE, !.reason = reason, !.server = version])
        /\ GoesOn(p, AfterEntry(p, x), SettledBy(p, x, "conflict"))
        /\ cards' = cards \cup {[seq |-> x.seq, key |-> x.key, payload |-> x.payload]}

RefusedForGood(p) ==
    /\ Refusable(p, "rejected") /\ ~ShownAlone(p)
    /\ MarksConflict(p, "rejected", 0)
    /\ UNCHANGED <<changes, server, applied, sent, wanted, landed, events>>

ServerFetched(p) ==
    LET x == sending[p].entry
        here == server[x.entity]
    IN  /\ pc[p] = "asking"
        /\ IF Unchanged(x)
           THEN IF here.alive THEN MarksConflict(p, "version", here.ver)
                ELSE MarksConflict(p, "gone", 0)
           ELSE /\ GoesOn(p, AfterEntry(p, x), call)
                /\ UNCHANGED <<store, cards>>
        /\ UNCHANGED <<changes, network, sent, wanted, landed, events>>

FetchUnreachable(p) ==
    /\ pc[p] = "asking"
    /\ GoesOn(p, {}, call)
    /\ UNCHANGED <<store, changes, cards, network, history, events>>

(***************************************************************************)
(* What a person does with a waiting write.                                *)
(***************************************************************************)
Withdraw(e) ==
    /\ Free
    /\ \E x \in EntryOf(e) :
          /\ ~x.attempted /\ ~x.conflicted
          /\ \/ /\ x.before = <<>> /\ ~x.truncated
                /\ Removes(x.seq)
                /\ wanted' = [wanted EXCEPT ![e] = 0]
             \/ /\ x.before # <<>>
                /\ Saves(StepBack(x))
                /\ wanted' = [wanted EXCEPT ![e] = StepBack(x).payload]
    /\ UNCHANGED <<procs, people, network, sent, landed, events>>

\* Mutant: any conflict of the entry is settled, also one the screen has not shown.
ConflictOf_Any(card) == {x \in Find(card.seq) : x.conflicted}

\* The conflict a screen shows, while the queue still holds it under that key.
ConflictOf(card) == {x \in Find(card.seq) : x.conflicted /\ x.key = card.key}

\* The conflict's entry as a write on top of the server's version.
Mine(x, payload) ==
    [x EXCEPT !.kind = IF x.kind = "delete" THEN "delete" ELSE "update",
              !.payload = payload, !.base = x.server, !.key = nextKey,
              !.attempted = FALSE, !.conflicted = FALSE, !.reason = "none",
              !.server = 0, !.before = <<>>, !.truncated = FALSE, !.ownCreate = FALSE]

\* The person's version, or `payload` merged from both, goes out on top of the server's.
KeepMine(card, payload) ==
    /\ Free
    /\ \/ payload = card.payload /\ UNCHANGED changes
       \/ payload = changes + 1 /\ changes < MaxChanges /\ changes' = changes + 1
    /\ \E x \in ConflictOf(card) :
          /\ x.server # 0
          /\ Saves(Mine(x, payload))
          /\ wanted' = [wanted EXCEPT ![x.entity] = payload]
    /\ UNCHANGED <<procs, call, watched, cards, network, sent, landed, events>>

UseTheirs(card) ==
    /\ Free
    /\ \E x \in ConflictOf(card) :
          /\ Removes(x.seq)
          /\ wanted' = [wanted EXCEPT ![x.entity] = IF @ = card.payload THEN 0 ELSE @]
    /\ UNCHANGED <<procs, people, network, sent, landed, events>>

(***************************************************************************)
(* The environment: a tab that closes in the middle of what it runs.       *)
(***************************************************************************)
ProcessesOf(t) == {p \in Processes : TabOf(p) = t /\ pc[p] \notin {"idle", "done"}}

TabCloses(t) ==
    LET gone == ProcessesOf(t)
    IN  /\ Event
        /\ gone # {}
        /\ lock' = IF lock \in gone THEN Nobody ELSE lock
        /\ pc' = [p \in Processes |-> IF p \notin gone THEN pc[p]
                                      ELSE IF p \in Tabs THEN "idle" ELSE "done"]
        /\ todo' = [p \in Processes |-> IF p \in gone THEN {} ELSE todo[p]]
        /\ sending' = [p \in Processes |-> IF p \in gone THEN Idle ELSE sending[p]]
        /\ call' = [c \in Changes |->
              IF c \notin gone THEN call[c]
              ELSE [NoCall EXCEPT !.outcome =
                       IF call[c].outcome = "none" THEN "crashed" ELSE call[c].outcome]]
        /\ watched' = [watched EXCEPT ![t] = {}]
        /\ UNCHANGED <<store, changes, cards, network, history>>

-----------------------------------------------------------------------------
Submit ==
    \E e \in Entities :
        \/ \E t \in Tabs :
              \/ \E kind \in Kinds, version \in 0 .. server[e].ver :
                    SubmitFirst(t, e, kind, version)
              \/ \E kind \in Kinds : SubmitIgnored(t, e, kind)
              \/ SubmitUpdate(t, e)
              \/ SubmitDelete(t, e)
        \/ SubmitDrop(e)

FlushStep(p) ==
    \/ Reload(p)
    \/ \E s \in todo[p] : SkipEntry(p, s) \/ StopOffline(p, s) \/ StartSend(p, s)

Refuse(p) ==
    \/ RefusedDeleteOfGone(p)
    \/ RefusedOwnCreate(p)
    \/ \E failure \in Refusals : RefusedAlone(p, failure) \/ RefusedStale(p, failure)
    \/ RefusedForGood(p)

Answer(p) == SendSucceeds(p) \/ Refuse(p)

Settle ==
    \E card \in cards :
        \/ \E payload \in {card.payload, changes + 1} : KeepMine(card, payload)
        \/ UseTheirs(card)

Next ==
    \/ Submit
    \/ \E e \in Entities : Withdraw(e)
    \/ \E e \in Entities : OtherDevice(e)
    \/ Settle
    \/ \E p \in Processes : FlushStep(p) \/ Answer(p) \/ SendUnreachable(p)
                             \/ ServerFetched(p) \/ FetchUnreachable(p)
    \/ \E m \in inFlight : LateArrival(m)
    \/ \E t \in Tabs : TabCloses(t)

Spec == Init /\ [][Next]_vars

(***************************************************************************)
(* Fairness.  The lock serves its waiters in turn, so a process that asks  *)
(* for it again and again gets it (strong fairness of a flush's steps).  A *)
(* process that holds the lock goes on, because the `send` port must       *)
(* settle or time out.  A tab's runner flushes while something waits.      *)
(***************************************************************************)
Unreachable(p) ==
    \/ SendUnreachable(p)
    \/ FetchUnreachable(p)
    \/ \E s \in todo[p] : StopOffline(p, s)

HoldsOn(p) ==
    \/ Answer(p) \/ SendUnreachable(p)
    \/ ServerFetched(p) \/ FetchUnreachable(p)
    \/ pc[p] = "resend" /\ FlushStep(p)

FairSpec ==
    /\ Spec
    /\ \A p \in Processes : SF_vars(FlushStep(p)) /\ WF_vars(HoldsOn(p))

-----------------------------------------------------------------------------
(***************************************************************************)
(* Properties.                                                             *)
(***************************************************************************)
Sends == [entry : Entries, wants : BOOLEAN, alone : BOOLEAN,
          failure : Refusals \cup {"none"}]

StoreOK ==
    /\ queue \subseteq Entries
    /\ nextSeq \in Nat \ {0} /\ nextKey \in Nat \ {0}

ProcsOK ==
    /\ lock \in Processes \cup {Nobody}
    /\ pc \in [Processes -> {"idle", "queued", "flush", "sending", "asking", "resend", "done"}]
    /\ todo \in [Processes -> SUBSET Nat]
    /\ sending \in [Processes -> Sends \cup {Idle}]

PeopleOK ==
    /\ call \in [Changes -> [tab : Tabs \cup {Nobody}, seq : Nat, outcome : Outcomes]]
    /\ watched \in [Tabs -> SUBSET [seq : Nat, alone : BOOLEAN]]
    /\ changes \in 0 .. MaxChanges
    /\ cards \subseteq Cards

NetworkOK ==
    /\ server \in [Entities -> [alive : BOOLEAN, ver : Nat]]
    /\ inFlight \subseteq Commands
    /\ applied \subseteq Nat

HistoryOK ==
    /\ sent \subseteq Commands
    /\ wanted \in [Entities -> 0 .. MaxChanges]
    /\ landed \subseteq Changes
    /\ events \in 0 .. MaxEvents

\* Every variable keeps its type: entries stay well formed through merges, withdrawals, conflicts
\* and crashes.
TypeOK == StoreOK /\ ProcsOK /\ PeopleOK /\ NetworkOK /\ HistoryOK

\* One entry per entity: a later edit replaces the waiting one, whichever tabs made the two.
OneEntryPerEntity == \A x, y \in queue : x.entity = y.entity => x = y

Kept(e, c) == c \in landed \/ \E x \in EntryOf(e) : x.payload = c

\* The change the person wants of an entity is waiting in the queue, or took effect, or its own
\* submit call answered `failed`: no merge, withdrawal, refusal, closed tab or other tab makes it
\* vanish.
NoLostEdit ==
    \A e \in Entities, c \in Changes :
        wanted[e] = c => Kept(e, c) \/ call[c].outcome = "failed"

\* Under one idempotency key one command goes out: the server never answers a new text with the
\* result of an older one.
OneCommandPerKey == \A m, n \in sent : m.key = n.key => m = n

\* A change vanishes only while somebody is told: it waits, it took effect, or a call answered
\* `failed`.  A key that went out with two texts (OneCommandPerKey) loses the later one without a
\* word, whatever the other steps do, so the promise is one about the runs where no key did.
NoSilentLoss ==
    OneCommandPerKey =>
        \A e \in Entities, c \in Changes :
            wanted[e] = c => Kept(e, c) \/ \E d \in Changes : call[d].outcome = "failed"

\* What `submit` answers is so: a change reported as sent took effect, one reported as failed
\* is nowhere in the queue.
AnswersAreTrue ==
    \A e \in Entities, c \in Changes : wanted[e] = c =>
        /\ call[c].outcome = "sent" => c \in landed
        /\ call[c].outcome = "failed" => \A x \in EntryOf(e) : x.payload # c

\* While a send waits for its answer, the queue holds that entry under the key that was sent: no
\* other tab edits, withdraws or settles it under the lock.
EntryHeldWhileSending ==
    \A p \in Processes : pc[p] \in {"sending", "asking"} => Unchanged(sending[p].entry)

\* Every submit call answers, whatever the connection does.
SubmitReturns == \A c \in Changes : pc[c] = "queued" ~> pc[c] = "done"

\* Once the connection stays up, in the end only conflicts wait: no write is stuck in the queue.
QueueDrains ==
    <>[][\A p \in Processes : ~Unreachable(p)]_vars => <>[](\A x \in queue : x.conflicted)
=============================================================================
