------------------------- MODULE ClientOutboxProofs -------------------------
(***************************************************************************)
(* Proofs about the client outbox, for every number of entities, tabs,     *)
(* changes, events and undo steps, and tabs that share one lock.           *)
(***************************************************************************)
EXTENDS ClientOutbox, TLAPS

(***************************************************************************)
(* What TypeOK lacks to be inductive: a process that runs belongs to a tab, *)
(* and one that waits for the network has the send it waits for.           *)
(***************************************************************************)
Wired ==
    /\ \A c \in Changes : pc[c] \notin {"idle", "done"} => call[c].tab \in Tabs
    /\ \A p \in Processes : pc[p] \in {"sending", "asking"} => sending[p] \in Sends

TypeInv == TypeOK /\ Wired

-----------------------------------------------------------------------------
(***************************************************************************)
(* Entries and their merged history.                                       *)
(***************************************************************************)
\* The chain of snapshots is cut to one of the same kind.
LEMMA CappedType ==
    ASSUME NEW chain \in Seq(Snapshots)
    PROVE  Capped(chain) \in Seq(Snapshots)
<1>1. CASE Len(chain) <= UndoSteps
  BY <1>1 DEF Capped
<1>2. CASE ~(Len(chain) <= UndoSteps)
  <2>. DEFINE f == [i \in 1 .. UndoSteps |->
                      IF i < UndoSteps THEN chain[i]
                      ELSE [chain[i] EXCEPT
                              !.attempted = \E j \in UndoSteps .. Len(chain) : chain[j].attempted,
                              !.truncated = TRUE]]
  <2>1. UndoSteps \in Nat /\ Len(chain) \in Nat /\ UndoSteps < Len(chain)
    BY <1>2, BoundsAssumption
  <2>2. ASSUME NEW i \in 1 .. UndoSteps
        PROVE  f[i] \in Snapshots
    <3>1. chain[i] \in Snapshots
      BY <2>1
    <3>. QED
      BY <3>1 DEF Snapshots
  <2>3. f \in [1 .. UndoSteps -> Snapshots]
    BY <2>2
  <2>4. Capped(chain) = f
    BY <1>2 DEF Capped
  <2>. HIDE DEF f
  <2>5. f \in Seq(Snapshots)
    BY <2>1, <2>3
  <2>. QED
    BY <2>4, <2>5
<1>. QED
  BY <1>1, <1>2

\* The snapshot of an entry.
LEMMA SnapshotType ==
    ASSUME NEW x \in Entries
    PROVE  SnapshotOf(x) \in Snapshots
  BY DEF SnapshotOf, Snapshots, Entries

\* An entry changed by an edit is an entry.
LEMMA RenewedType ==
    ASSUME NEW x \in Entries, NEW payload \in Changes, NEW kind \in Kinds,
           NEW base \in Nat, NEW key \in Nat, NEW own \in BOOLEAN
    PROVE  Renewed(x, payload, kind, base, key, own) \in Entries
<1>1. <<SnapshotOf(x)>> \o x.before \in Seq(Snapshots)
  BY SnapshotType DEF Entries
<1>2. Capped(<<SnapshotOf(x)>> \o x.before) \in Seq(Snapshots)
  BY <1>1, CappedType
<1>. QED
  BY <1>2 DEF Renewed, Entries, Reasons

LEMMA WithUpdateType ==
    ASSUME NEW x \in Entries, NEW payload \in Changes, nextKey \in Nat
    PROVE  WithUpdate(x, payload) \in Entries
<1>1. x.kind \in Kinds /\ x.base \in Nat /\ x.key \in Nat /\ x.ownCreate \in BOOLEAN
  BY DEF Entries
<1>. QED
  BY <1>1, RenewedType DEF WithUpdate, Kinds

LEMMA WithDeleteType ==
    ASSUME NEW x \in Entries, NEW payload \in Changes, nextKey \in Nat
    PROVE  WithDelete(x, payload) \in Entries
<1>1. x.kind \in Kinds /\ x.base \in Nat /\ x.key \in Nat /\ x.ownCreate \in BOOLEAN
  BY DEF Entries
<1>. QED
  BY <1>1, RenewedType DEF WithDelete, Kinds

LEMMA StepBackType ==
    ASSUME NEW x \in Entries, x.before # <<>>
    PROVE  StepBack(x) \in Entries
<1>1. x.before \in Seq(Snapshots)
  BY DEF Entries
<1>2. Head(x.before) \in Snapshots /\ Tail(x.before) \in Seq(Snapshots)
  BY <1>1
<1>. QED
  BY <1>2 DEF StepBack, Entries, Snapshots

LEMMA MineType ==
    ASSUME NEW x \in Entries, NEW payload \in Changes, nextKey \in Nat
    PROVE  Mine(x, payload) \in Entries
<1>1. x.server \in Nat
  BY DEF Entries
<1>2. <<>> \in Seq(Snapshots)
  OBVIOUS
<1>. QED
  BY <1>1, <1>2 DEF Mine, Entries, Kinds, Reasons

-----------------------------------------------------------------------------
(***************************************************************************)
(* The pieces the actions are built from.                                  *)
(***************************************************************************)
Calls == [Changes -> [tab : Tabs \cup {Nobody}, seq : Nat, outcome : Outcomes]]
Marks == [seq : Nat, alone : BOOLEAN]

\* A process that runs belongs to a tab.
LEMMA RunningTab ==
    ASSUME TypeInv, NEW p \in Processes, p \in Tabs \/ pc[p] \notin {"idle", "done"}
    PROVE  TabOf(p) \in Tabs
  BY DEF TypeInv, Wired, TabOf, Processes

LEMMA SavesType ==
    ASSUME TypeOK, NEW x \in Entries, Saves(x)
    PROVE  StoreOK'
  BY DEF TypeOK, StoreOK, Saves, Saved, Find

LEMMA RemovesType ==
    ASSUME TypeOK, NEW s, Removes(s)
    PROVE  StoreOK'
  BY DEF TypeOK, StoreOK, Removes, Dropped, Find

\* Settling the waiters of an entry changes outcomes and nothing else of a call.
LEMMA SettledType ==
    ASSUME TypeOK, NEW t, NEW s, NEW outcome \in Outcomes
    PROVE  /\ Settled(t, s, outcome) \in Calls
           /\ \A c \in Changes : Settled(t, s, outcome)[c].tab = call[c].tab
  BY DEF TypeOK, PeopleOK, Settled, Calls

LEMMA SettledByType ==
    ASSUME TypeOK, NEW p, NEW x, NEW outcome \in Outcomes
    PROVE  /\ SettledBy(p, x, outcome) \in Calls
           /\ \A c \in Changes : SettledBy(p, x, outcome)[c].tab = call[c].tab
  BY SettledType DEF SettledBy, TypeOK, PeopleOK, Calls

\* A process that goes on, or is over, leaves every process and call well formed.
LEMMA GoesOnType ==
    ASSUME TypeInv, NEW p \in Processes, p \in Tabs \/ pc[p] \notin {"idle", "done"},
           NEW rest \in SUBSET Nat, NEW calls \in Calls,
           \A c \in Changes : calls[c].tab = call[c].tab,
           GoesOn(p, rest, calls)
    PROVE  /\ ProcsOK'
           /\ call' \in Calls
           /\ watched' \in [Tabs -> SUBSET Marks]
           /\ Wired'
<1>1. TabOf(p) \in Tabs
  BY RunningTab
<1>2. ProcsOK'
  BY <1>1 DEF TypeInv, TypeOK, ProcsOK, GoesOn, Sends
<1>3. CASE rest # {}
  <2>1. call' = calls /\ watched' = watched /\ pc' = [pc EXCEPT ![p] = "flush"]
    BY <1>3 DEF GoesOn
  <2>2. Wired'
    BY <2>1, TabsAssumption DEF TypeInv, TypeOK, ProcsOK, GoesOn, Wired, Processes
  <2>. QED
    BY <1>2, <2>1, <2>2 DEF TypeInv, TypeOK, PeopleOK, Marks
<1>4. CASE rest = {} /\ p \in Tabs
  <2>1. call' = calls /\ watched' = watched /\ pc' = [pc EXCEPT ![p] = "idle"]
    BY <1>4, TabsAssumption DEF GoesOn
  <2>2. Wired'
    BY <2>1 DEF TypeInv, TypeOK, ProcsOK, GoesOn, Wired, Processes
  <2>. QED
    BY <1>2, <2>1, <2>2 DEF TypeInv, TypeOK, PeopleOK, Marks
<1>5. CASE rest = {} /\ p \in Changes
  <2>1. /\ call' = Returned(p, calls) /\ pc' = [pc EXCEPT ![p] = "done"]
        /\ watched' = [watched EXCEPT ![call[p].tab] = Unmarked(p)]
    BY <1>5, TabsAssumption DEF GoesOn
  <2>2. call' \in Calls /\ \A c \in Changes \ {p} : call'[c].tab = calls[c].tab
    BY <2>1, <1>5 DEF Returned, Calls, NoCall, Outcomes
  <2>3. call[p].tab \in Tabs
    BY <1>5, TabsAssumption DEF TypeInv, Wired
  <2>4. Unmarked(p) \in SUBSET Marks
    BY <2>3 DEF Unmarked, TypeInv, TypeOK, PeopleOK, Marks
  <2>5. watched' \in [Tabs -> SUBSET Marks]
    BY <2>1, <2>3, <2>4 DEF TypeInv, TypeOK, PeopleOK, Marks
  <2>6. Wired'
    BY <2>1, <2>2 DEF TypeInv, TypeOK, ProcsOK, GoesOn, Wired, Processes
  <2>. QED
    BY <1>2, <2>2, <2>5, <2>6
<1>. QED
  BY <1>3, <1>4, <1>5 DEF Processes

-----------------------------------------------------------------------------
(***************************************************************************)
(* Every action keeps TypeInv.                                             *)
(***************************************************************************)
\* What every change of a person has in common.
LEMMA WatchesType ==
    ASSUME TypeInv, NEW t \in Tabs, NEW s \in Nat, NEW alone \in BOOLEAN,
           NewChange, Watches(t, s, alone)
    PROVE  ProcsOK' /\ PeopleOK' /\ NetworkOK' /\ Wired' /\ changes + 1 \in Changes
<1>1. changes + 1 \in Changes /\ changes' \in 0 .. MaxChanges
  BY BoundsAssumption DEF NewChange, Changes, TypeInv, TypeOK, PeopleOK
<1>2. ProcsOK'
  BY <1>1 DEF Watches, TypeInv, TypeOK, ProcsOK, Processes
<1>3. call' \in Calls
  BY <1>1 DEF Watches, TypeInv, TypeOK, PeopleOK, Calls, Outcomes
<1>4. watched' \in [Tabs -> SUBSET Marks]
  <2>1. Marked(t, s, alone) \in SUBSET Marks
    BY DEF Marked, Marks, TypeInv, TypeOK, PeopleOK
  <2>. QED
    BY <2>1 DEF Watches, TypeInv, TypeOK, PeopleOK, Marks
<1>5. PeopleOK'
  BY <1>1, <1>3, <1>4 DEF Watches, TypeInv, TypeOK, PeopleOK, Calls, Marks
<1>6. NetworkOK'
  BY DEF Watches, network, TypeInv, TypeOK, NetworkOK
<1>7. Wired'
  BY <1>1 DEF Watches, TypeInv, TypeOK, Wired, ProcsOK, PeopleOK, Processes
<1>. QED
  BY <1>1, <1>2, <1>5, <1>6, <1>7

LEMMA SubmitFirstType ==
    ASSUME TypeInv, NEW t \in Tabs, NEW e \in Entities, NEW kind \in Kinds,
           NEW version \in 0 .. server[e].ver, SubmitFirst(t, e, kind, version)
    PROVE  TypeInv'
<1>1. version \in Nat /\ nextSeq \in Nat
  BY DEF TypeInv, TypeOK, NetworkOK, StoreOK
<1>2. /\ ProcsOK' /\ PeopleOK' /\ NetworkOK' /\ Wired'
      /\ changes + 1 \in Changes
  BY <1>1, WatchesType DEF SubmitFirst
<1>3. FirstEntry(e, kind, version, changes + 1) \in Entries
  BY <1>1, <1>2 DEF FirstEntry, Entries, Reasons, TypeInv, TypeOK, StoreOK
<1>4. StoreOK'
  BY <1>3 DEF SubmitFirst, TypeInv, TypeOK, StoreOK
<1>5. HistoryOK'
  BY <1>2 DEF SubmitFirst, Watches, TypeInv, TypeOK, HistoryOK, Changes
<1>. QED
  BY <1>2, <1>4, <1>5 DEF TypeInv, TypeOK

LEMMA SubmitIgnoredType ==
    ASSUME TypeInv, NEW t \in Tabs, NEW e \in Entities, NEW kind \in Kinds,
           SubmitIgnored(t, e, kind)
    PROVE  TypeInv'
<1>1. PICK x \in EntryOf(e) : Watches(t, x.seq, FALSE)
  BY DEF SubmitIgnored
<1>2. x.seq \in Nat
  BY DEF EntryOf, TypeInv, TypeOK, StoreOK, Entries
<1>3. ProcsOK' /\ PeopleOK' /\ NetworkOK' /\ Wired'
  BY <1>1, <1>2, WatchesType DEF SubmitIgnored
<1>4. StoreOK' /\ HistoryOK'
  BY <1>1 DEF SubmitIgnored, Watches, store, TypeInv, TypeOK, StoreOK, HistoryOK
<1>. QED
  BY <1>3, <1>4 DEF TypeInv, TypeOK

LEMMA SubmitUpdateType ==
    ASSUME TypeInv, NEW t \in Tabs, NEW e \in Entities, SubmitUpdate(t, e)
    PROVE  TypeInv'
<1>1. PICK x \in EntryOf(e) : Saves(WithUpdate(x, changes + 1)) /\ Watches(t, x.seq, FALSE)
  BY DEF SubmitUpdate
<1>2. x \in Entries /\ x.seq \in Nat /\ nextKey \in Nat
  BY DEF EntryOf, TypeInv, TypeOK, StoreOK, Entries
<1>3. ProcsOK' /\ PeopleOK' /\ NetworkOK' /\ Wired' /\ changes + 1 \in Changes
  BY <1>1, <1>2, WatchesType DEF SubmitUpdate
<1>4. StoreOK'
  BY <1>1, <1>2, <1>3, WithUpdateType, SavesType DEF TypeInv
<1>5. HistoryOK'
  BY <1>1, <1>3 DEF SubmitUpdate, Watches, TypeInv, TypeOK, HistoryOK, Changes
<1>. QED
  BY <1>3, <1>4, <1>5 DEF TypeInv, TypeOK

LEMMA SubmitDeleteType ==
    ASSUME TypeInv, NEW t \in Tabs, NEW e \in Entities, SubmitDelete(t, e)
    PROVE  TypeInv'
<1>1. PICK x \in EntryOf(e) : Saves(WithDelete(x, changes + 1)) /\ Watches(t, x.seq, FALSE)
  BY DEF SubmitDelete
<1>2. x \in Entries /\ x.seq \in Nat /\ nextKey \in Nat
  BY DEF EntryOf, TypeInv, TypeOK, StoreOK, Entries
<1>3. ProcsOK' /\ PeopleOK' /\ NetworkOK' /\ Wired' /\ changes + 1 \in Changes
  BY <1>1, <1>2, WatchesType DEF SubmitDelete
<1>4. StoreOK'
  BY <1>1, <1>2, <1>3, WithDeleteType, SavesType DEF TypeInv
<1>5. HistoryOK'
  BY <1>1, <1>3 DEF SubmitDelete, Watches, TypeInv, TypeOK, HistoryOK, Changes
<1>. QED
  BY <1>3, <1>4, <1>5 DEF TypeInv, TypeOK

LEMMA SubmitDropType ==
    ASSUME TypeInv, NEW e \in Entities, SubmitDrop(e)
    PROVE  TypeInv'
<1>1. changes + 1 \in Changes /\ changes' \in 0 .. MaxChanges
  BY BoundsAssumption DEF SubmitDrop, NewChange, Changes, TypeInv, TypeOK, PeopleOK
<1>2. StoreOK'
  BY RemovesType DEF SubmitDrop, TypeInv
<1>3. ProcsOK' /\ NetworkOK'
  BY <1>1 DEF SubmitDrop, network, TypeInv, TypeOK, ProcsOK, NetworkOK, Processes
<1>4. PeopleOK'
  BY <1>1 DEF SubmitDrop, TypeInv, TypeOK, PeopleOK, Outcomes
<1>5. HistoryOK'
  BY BoundsAssumption DEF SubmitDrop, TypeInv, TypeOK, HistoryOK
<1>6. Wired'
  BY <1>1 DEF SubmitDrop, TypeInv, TypeOK, Wired, ProcsOK, PeopleOK, Processes
<1>. QED
  BY <1>2, <1>3, <1>4, <1>5, <1>6 DEF TypeInv, TypeOK

\* A step that only moves its process on: the store, the network and the history stay.
LEMMA MovesOnType ==
    ASSUME TypeInv, NEW p \in Processes, p \in Tabs \/ pc[p] \notin {"idle", "done"},
           NEW rest \in SUBSET Nat, GoesOn(p, rest, call),
           UNCHANGED <<store, changes, cards, network, history, events>>
    PROVE  TypeInv'
<1>1. call \in Calls
  BY DEF TypeInv, TypeOK, PeopleOK, Calls
<1>2. ProcsOK' /\ call' \in Calls /\ watched' \in [Tabs -> SUBSET Marks] /\ Wired'
  BY <1>1, GoesOnType
<1>3. StoreOK' /\ PeopleOK' /\ NetworkOK' /\ HistoryOK'
  BY <1>2 DEF store, network, history, Calls, Marks, TypeInv, TypeOK, StoreOK, PeopleOK,
              NetworkOK, HistoryOK
<1>. QED
  BY <1>2, <1>3 DEF TypeInv, TypeOK

LEMMA ReloadType ==
    ASSUME TypeInv, NEW p \in Processes, Reload(p)
    PROVE  TypeInv'
<1>1. p \in Tabs \/ pc[p] \notin {"idle", "done"}
  BY DEF Reload
<1>2. Waiting \in SUBSET Nat
  BY DEF Waiting, TypeInv, TypeOK, StoreOK, Entries
<1>. QED
  BY <1>1, <1>2, MovesOnType DEF Reload

LEMMA TodoType ==
    ASSUME TypeInv, NEW p \in Processes
    PROVE  todo[p] \in SUBSET Nat
  BY DEF TypeInv, TypeOK, ProcsOK

LEMMA SkipEntryType ==
    ASSUME TypeInv, NEW p \in Processes, NEW s, SkipEntry(p, s)
    PROVE  TypeInv'
<1>1. pc[p] \notin {"idle", "done"} /\ todo[p] \ {s} \in SUBSET Nat
  BY TodoType DEF SkipEntry
<1>. QED
  BY <1>1, MovesOnType DEF SkipEntry

LEMMA StopOfflineType ==
    ASSUME TypeInv, NEW p \in Processes, NEW s, StopOffline(p, s)
    PROVE  TypeInv'
<1>1. pc[p] \notin {"idle", "done"}
  BY DEF StopOffline, MaySendOne
<1>2. {} \in SUBSET Nat
  OBVIOUS
<1>. QED
  BY <1>1, <1>2, MovesOnType DEF StopOffline

LEMMA SendUnreachableType ==
    ASSUME TypeInv, NEW p \in Processes, SendUnreachable(p)
    PROVE  TypeInv'
<1>1. pc[p] \notin {"idle", "done"} /\ {} \in SUBSET Nat
  BY DEF SendUnreachable
<1>. QED
  BY <1>1, MovesOnType DEF SendUnreachable

LEMMA FetchUnreachableType ==
    ASSUME TypeInv, NEW p \in Processes, FetchUnreachable(p)
    PROVE  TypeInv'
<1>1. pc[p] \notin {"idle", "done"} /\ {} \in SUBSET Nat
  BY DEF FetchUnreachable
<1>. QED
  BY <1>1, MovesOnType DEF FetchUnreachable

LEMMA CommandType ==
    ASSUME NEW x \in Entries
    PROVE  CommandOf(x) \in Commands
  BY DEF CommandOf, Commands, Entries

LEMMA StartSendType ==
    ASSUME TypeInv, NEW p \in Processes, NEW s, StartSend(p, s)
    PROVE  TypeInv'
<1>1. pc[p] \in {"flush", "resend"}
  BY DEF StartSend, MaySendOne
<1>2. TabOf(p) \in Tabs
  BY <1>1, RunningTab
<1>. DEFINE Y(x) == [x EXCEPT !.attempted = TRUE]
            M == {w \in watched[TabOf(p)] : w.seq = s}
            Sending(x) == [entry |-> Y(x), wants |-> M # {}, failure |-> "none",
                           alone |-> x.before = <<>> /\ \E w \in M : w.alone]
<1>3. PICK x \in Find(s) :
         /\ queue' = Saved(Y(x))
         /\ sending' = [sending EXCEPT ![p] = Sending(x)]
         /\ inFlight' = inFlight \cup {CommandOf(Y(x))}
         /\ sent' = sent \cup {CommandOf(Y(x))}
  BY Zenon DEF StartSend
<1>4. x \in Entries
  BY DEF Find, TypeInv, TypeOK, StoreOK
<1>5. Y(x) \in Entries
  BY <1>4 DEF Entries
<1>6. CommandOf(Y(x)) \in Commands
  BY <1>5, CommandType
<1>7. Sending(x) \in Sends
  BY <1>5 DEF Sends
<1>8. StoreOK'
  BY <1>3, <1>5 DEF StartSend, Saved, Find, TypeInv, TypeOK, StoreOK
<1>. HIDE DEF Sending
<1>9. ProcsOK'
  BY <1>1, <1>2, <1>3, <1>7 DEF StartSend, TypeInv, TypeOK, ProcsOK
<1>10. Wired'
  BY <1>1, <1>3, <1>7 DEF StartSend, people, TypeInv, TypeOK, ProcsOK, Wired, Processes
<1>11. PeopleOK' /\ NetworkOK' /\ HistoryOK'
  BY <1>3, <1>6 DEF StartSend, people, TypeInv, TypeOK, PeopleOK, NetworkOK, HistoryOK
<1>. QED
  BY <1>8, <1>9, <1>10, <1>11 DEF TypeInv, TypeOK

-----------------------------------------------------------------------------
\* A command that takes effect keeps the server well formed.
LEMMA TakesEffectType ==
    ASSUME TypeOK, NEW m \in Commands, TakesEffect(m)
    PROVE  /\ server' \in [Entities -> [alive : BOOLEAN, ver : Nat]]
           /\ applied' \subseteq Nat
           /\ landed' \subseteq Changes
<1>1. m.entity \in Entities /\ m.key \in Nat /\ m.kind \in Kinds /\ m.payload \in Changes
  BY DEF Commands
<1>2. server \in [Entities -> [alive : BOOLEAN, ver : Nat]]
  BY DEF TypeOK, NetworkOK
<1>3. server' \in [Entities -> [alive : BOOLEAN, ver : Nat]]
  BY <1>1, <1>2 DEF TakesEffect, Kinds
<1>. QED
  BY <1>1, <1>3 DEF TakesEffect, TypeOK, NetworkOK, HistoryOK

LEMMA LateArrivalType ==
    ASSUME TypeInv, NEW m \in inFlight, LateArrival(m)
    PROVE  TypeInv'
<1>1. m \in Commands
  BY DEF TypeInv, TypeOK, NetworkOK
<1>2. /\ server' \in [Entities -> [alive : BOOLEAN, ver : Nat]]
      /\ applied' \subseteq Nat /\ landed' \subseteq Changes
  BY <1>1, TakesEffectType DEF LateArrival, TypeInv, TypeOK, NetworkOK, HistoryOK
<1>3. StoreOK' /\ ProcsOK' /\ PeopleOK' /\ Wired'
  BY DEF LateArrival, store, procs, people, TypeInv, TypeOK, StoreOK, ProcsOK, PeopleOK, Wired
<1>4. NetworkOK' /\ HistoryOK'
  BY <1>2 DEF LateArrival, TypeInv, TypeOK, NetworkOK, HistoryOK
<1>. QED
  BY <1>3, <1>4 DEF TypeInv, TypeOK

LEMMA OtherDeviceType ==
    ASSUME TypeInv, NEW e \in Entities, OtherDevice(e)
    PROVE  TypeInv'
<1>1. server' \in [Entities -> [alive : BOOLEAN, ver : Nat]]
  <2>. server \in [Entities -> [alive : BOOLEAN, ver : Nat]] /\ server[e].ver + 1 \in Nat
    BY DEF TypeInv, TypeOK, NetworkOK
  <2>. USE DEF OtherDevice
  <2>1. CASE server' = [server EXCEPT ![e] = [alive |-> TRUE, ver |-> 1]]
    BY <2>1
  <2>2. CASE server' = [server EXCEPT ![e].ver = server[e].ver + 1]
    BY <2>2
  <2>3. CASE server' = [server EXCEPT ![e].alive = FALSE]
    BY <2>3
  <2>. QED
    BY <2>1, <2>2, <2>3
<1>2. StoreOK' /\ ProcsOK' /\ PeopleOK' /\ Wired'
  BY DEF OtherDevice, store, procs, people, TypeInv, TypeOK, StoreOK, ProcsOK, PeopleOK, Wired
<1>3. NetworkOK' /\ HistoryOK'
  BY <1>1, BoundsAssumption
     DEF OtherDevice, Event, history, TypeInv, TypeOK, NetworkOK, HistoryOK
<1>. QED
  BY <1>2, <1>3 DEF TypeInv, TypeOK

LEMMA WithdrawType ==
    ASSUME TypeInv, NEW e \in Entities, Withdraw(e)
    PROVE  TypeInv'
<1>1. ProcsOK' /\ PeopleOK' /\ NetworkOK' /\ Wired'
  BY DEF Withdraw, procs, people, network, TypeInv, TypeOK, ProcsOK, PeopleOK, NetworkOK, Wired
<1>2. PICK x \in EntryOf(e) :
         \/ Removes(x.seq) /\ wanted' = [wanted EXCEPT ![e] = 0]
         \/ /\ x.before # <<>> /\ Saves(StepBack(x))
            /\ wanted' = [wanted EXCEPT ![e] = StepBack(x).payload]
  BY DEF Withdraw
<1>3. x \in Entries
  BY DEF EntryOf, TypeInv, TypeOK, StoreOK
<1>4. CASE Removes(x.seq) /\ wanted' = [wanted EXCEPT ![e] = 0]
  <2>1. StoreOK'
    BY <1>4, RemovesType DEF TypeInv
  <2>2. HistoryOK'
    BY <1>4, BoundsAssumption DEF Withdraw, TypeInv, TypeOK, HistoryOK
  <2>. QED
    BY <1>1, <2>1, <2>2 DEF TypeInv, TypeOK
<1>5. CASE /\ x.before # <<>> /\ Saves(StepBack(x))
           /\ wanted' = [wanted EXCEPT ![e] = StepBack(x).payload]
  <2>1. StepBack(x) \in Entries
    BY <1>3, <1>5, StepBackType
  <2>2. StoreOK'
    BY <1>5, <2>1, SavesType DEF TypeInv
  <2>3. StepBack(x).payload \in 0 .. MaxChanges
    BY <2>1, BoundsAssumption DEF Entries, Changes
  <2>4. HistoryOK'
    BY <1>5, <2>3 DEF Withdraw, TypeInv, TypeOK, HistoryOK
  <2>. QED
    BY <1>1, <2>2, <2>4 DEF TypeInv, TypeOK
<1>. QED
  BY <1>2, <1>4, <1>5

LEMMA KeepMineType ==
    ASSUME TypeInv, NEW card \in cards, NEW payload, KeepMine(card, payload)
    PROVE  TypeInv'
<1>1. payload \in Changes /\ changes' \in 0 .. MaxChanges
  BY BoundsAssumption DEF KeepMine, TypeInv, TypeOK, PeopleOK, Cards, Changes
<1>2. PICK x \in ConflictOf(card) :
         /\ Saves(Mine(x, payload))
         /\ wanted' = [wanted EXCEPT ![x.entity] = payload]
  BY DEF KeepMine
<1>3. x \in Entries
  BY DEF ConflictOf, Find, TypeInv, TypeOK, StoreOK
<1>4. Mine(x, payload) \in Entries
  BY <1>1, <1>3, MineType DEF TypeInv, TypeOK, StoreOK
<1>5. StoreOK'
  BY <1>2, <1>4, SavesType DEF TypeInv
<1>6. ProcsOK' /\ PeopleOK' /\ NetworkOK' /\ Wired'
  BY <1>1 DEF KeepMine, procs, network, TypeInv, TypeOK, ProcsOK, PeopleOK, NetworkOK, Wired
<1>7. HistoryOK'
  <2>1. wanted' \in [Entities -> 0 .. MaxChanges]
    <3>1. payload \in 0 .. MaxChanges
      BY <1>1, BoundsAssumption DEF Changes
    <3>. QED
      BY <1>2, <3>1 DEF TypeInv, TypeOK, HistoryOK
  <2>. QED
    BY <2>1 DEF KeepMine, TypeInv, TypeOK, HistoryOK
<1>. QED
  BY <1>5, <1>6, <1>7 DEF TypeInv, TypeOK

LEMMA UseTheirsType ==
    ASSUME TypeInv, NEW card \in cards, UseTheirs(card)
    PROVE  TypeInv'
<1>1. StoreOK'
  BY RemovesType DEF UseTheirs, TypeInv
<1>2. ProcsOK' /\ PeopleOK' /\ NetworkOK' /\ Wired'
  BY DEF UseTheirs, procs, people, network, TypeInv, TypeOK, ProcsOK, PeopleOK, NetworkOK, Wired
<1>3. HistoryOK'
  <2>1. PICK x \in ConflictOf(card) :
           /\ wanted' = [wanted EXCEPT ![x.entity] = IF @ = card.payload THEN 0 ELSE @]
    BY DEF UseTheirs
  <2>2. x.entity \in Entities
    BY DEF ConflictOf, Find, TypeInv, TypeOK, StoreOK, Entries
  <2>3. wanted' \in [Entities -> 0 .. MaxChanges]
    BY <2>1, <2>2, BoundsAssumption DEF TypeInv, TypeOK, HistoryOK
  <2>. QED
    BY <2>1, <2>3 DEF UseTheirs, TypeInv, TypeOK, HistoryOK
<1>. QED
  BY <1>1, <1>2, <1>3 DEF TypeInv, TypeOK

LEMMA TabClosesType ==
    ASSUME TypeInv, NEW t \in Tabs, TabCloses(t)
    PROVE  TypeInv'
<1>1. ProcsOK'
  BY DEF TabCloses, TypeInv, TypeOK, ProcsOK
<1>2. PeopleOK'
  BY DEF TabCloses, people, TypeInv, TypeOK, PeopleOK, NoCall, Outcomes
<1>3. StoreOK' /\ NetworkOK'
  BY DEF TabCloses, store, network, TypeInv, TypeOK, StoreOK, NetworkOK
<1>4. HistoryOK'
  BY BoundsAssumption DEF TabCloses, Event, history, TypeInv, TypeOK, HistoryOK
<1>5. Wired'
  BY TabsAssumption DEF TabCloses, TypeInv, TypeOK, ProcsOK, PeopleOK, Wired, Processes
<1>. QED
  BY <1>1, <1>2, <1>3, <1>4, <1>5 DEF TypeInv, TypeOK

-----------------------------------------------------------------------------
(***************************************************************************)
(* The end of a send.                                                      *)
(***************************************************************************)
LEMMA SenderType ==
    ASSUME TypeInv, NEW p \in Processes, pc[p] \in {"sending", "asking"}
    PROVE  /\ sending[p] \in Sends
           /\ sending[p].entry \in Entries
           /\ CommandOf(sending[p].entry) \in Commands
           /\ AfterEntry(p, sending[p].entry) \in SUBSET Nat
<1>1. sending[p] \in Sends
  BY DEF TypeInv, Wired
<1>2. sending[p].entry \in Entries
  BY <1>1 DEF Sends
<1>. QED
  BY <1>1, <1>2, CommandType, TodoType DEF AfterEntry

\* What every settled send has in common: its process goes on, and calls are answered.
LEMMA EndsType ==
    ASSUME TypeInv, NEW p \in Processes, pc[p] \in {"sending", "asking"},
           NEW calls \in Calls, \A c \in Changes : calls[c].tab = call[c].tab,
           GoesOn(p, AfterEntry(p, sending[p].entry), calls),
           UNCHANGED changes, cards' \subseteq Cards
    PROVE  ProcsOK' /\ PeopleOK' /\ Wired'
<1>1. AfterEntry(p, sending[p].entry) \in SUBSET Nat
  BY SenderType
<1>2. ProcsOK' /\ call' \in Calls /\ watched' \in [Tabs -> SUBSET Marks] /\ Wired'
  BY <1>1, GoesOnType
<1>. QED
  BY <1>2 DEF Calls, Marks, TypeInv, TypeOK, PeopleOK

LEMMA SendSucceedsType ==
    ASSUME TypeInv, NEW p \in Processes, SendSucceeds(p)
    PROVE  TypeInv'
<1>. DEFINE x == sending[p].entry
<1>1. pc[p] = "sending" /\ inFlight' = inFlight \ {CommandOf(x)}
  BY DEF SendSucceeds, Answered
<1>2. x \in Entries /\ CommandOf(x) \in Commands
  BY <1>1, SenderType
<1>3. /\ SettledBy(p, x, "sent") \in Calls
      /\ \A c \in Changes : SettledBy(p, x, "sent")[c].tab = call[c].tab
  BY SettledByType DEF TypeInv, Outcomes
<1>4. ProcsOK' /\ PeopleOK' /\ Wired'
  BY <1>1, <1>3, EndsType DEF SendSucceeds, TypeInv, TypeOK, PeopleOK
<1>5. StoreOK'
  BY RemovesType DEF SendSucceeds, store, TypeInv, TypeOK, StoreOK
<1>6. /\ server' \in [Entities -> [alive : BOOLEAN, ver : Nat]]
      /\ applied' \subseteq Nat /\ landed' \subseteq Changes
  BY <1>2, TakesEffectType DEF SendSucceeds, TypeInv
<1>7. NetworkOK' /\ HistoryOK'
  BY <1>1, <1>6 DEF SendSucceeds, TypeInv, TypeOK, NetworkOK, HistoryOK
<1>. QED
  BY <1>4, <1>5, <1>7 DEF TypeInv, TypeOK

LEMMA RefusedDeleteOfGoneType ==
    ASSUME TypeInv, NEW p \in Processes, RefusedDeleteOfGone(p)
    PROVE  TypeInv'
<1>. DEFINE x == sending[p].entry
<1>1. pc[p] = "sending" /\ inFlight' = inFlight \ {CommandOf(x)}
  BY DEF RefusedDeleteOfGone, Answered
<1>2. x \in Entries /\ x.payload \in Changes
  BY <1>1, SenderType DEF Entries
<1>3. /\ SettledBy(p, x, "sent") \in Calls
      /\ \A c \in Changes : SettledBy(p, x, "sent")[c].tab = call[c].tab
  BY SettledByType DEF TypeInv, Outcomes
<1>4. ProcsOK' /\ PeopleOK' /\ Wired'
  BY <1>1, <1>3, EndsType DEF RefusedDeleteOfGone, TypeInv, TypeOK, PeopleOK
<1>5. StoreOK'
  BY RemovesType DEF RefusedDeleteOfGone, TypeInv
<1>6. NetworkOK' /\ HistoryOK'
  BY <1>1, <1>2 DEF RefusedDeleteOfGone, TypeInv, TypeOK, NetworkOK, HistoryOK
<1>. QED
  BY <1>4, <1>5, <1>6 DEF TypeInv, TypeOK

LEMMA RefusedOwnCreateType ==
    ASSUME TypeInv, NEW p \in Processes, RefusedOwnCreate(p)
    PROVE  TypeInv'
<1>. DEFINE x == sending[p].entry
            y == [x EXCEPT !.kind = "create", !.base = 0, !.key = nextKey,
                           !.attempted = FALSE, !.ownCreate = FALSE]
<1>1. pc[p] = "sending" /\ inFlight' = inFlight \ {CommandOf(x)}
  BY DEF RefusedOwnCreate, Answered
<1>2. x \in Entries
  BY <1>1, SenderType
<1>3. y \in Entries
  BY <1>2 DEF Entries, Kinds, TypeInv, TypeOK, StoreOK
<1>4. StoreOK'
  <2>1. Saves(y)
    BY DEF RefusedOwnCreate
  <2>. HIDE DEF y
  <2>. QED
    BY <1>3, <2>1, SavesType DEF TypeInv
<1>5. ProcsOK'
  BY DEF RefusedOwnCreate, TypeInv, TypeOK, ProcsOK
<1>6. Wired'
  BY <1>1 DEF RefusedOwnCreate, people, TypeInv, TypeOK, ProcsOK, Wired, Processes
<1>7. PeopleOK' /\ NetworkOK' /\ HistoryOK'
  BY <1>1 DEF RefusedOwnCreate, people, history, TypeInv, TypeOK, PeopleOK, NetworkOK, HistoryOK
<1>. QED
  BY <1>4, <1>5, <1>6, <1>7 DEF TypeInv, TypeOK

LEMMA RefusedAloneType ==
    ASSUME TypeInv, NEW p \in Processes, NEW failure \in Refusals, RefusedAlone(p, failure)
    PROVE  TypeInv'
<1>. DEFINE x == sending[p].entry
<1>1. pc[p] = "sending" /\ inFlight' = inFlight \ {CommandOf(x)}
  BY DEF RefusedAlone, Refusable, Answered
<1>2. /\ Settled(TabOf(p), x.seq, "failed") \in Calls
      /\ \A c \in Changes : Settled(TabOf(p), x.seq, "failed")[c].tab = call[c].tab
  BY SettledType DEF TypeInv, Outcomes
<1>3. ProcsOK' /\ PeopleOK' /\ Wired'
  BY <1>1, <1>2, EndsType DEF RefusedAlone, TypeInv, TypeOK, PeopleOK
<1>4. StoreOK'
  BY RemovesType DEF RefusedAlone, TypeInv
<1>5. NetworkOK' /\ HistoryOK'
  BY <1>1 DEF RefusedAlone, TypeInv, TypeOK, NetworkOK, HistoryOK
<1>. QED
  BY <1>3, <1>4, <1>5 DEF TypeInv, TypeOK

LEMMA RefusedStaleType ==
    ASSUME TypeInv, NEW p \in Processes, NEW failure \in Refusals, RefusedStale(p, failure)
    PROVE  TypeInv'
<1>1. pc[p] = "sending" /\ inFlight' \subseteq inFlight
  BY DEF RefusedStale, Refusable, Answered
<1>2. sending[p] \in Sends
  BY <1>1, SenderType
<1>3. [sending[p] EXCEPT !.failure = failure] \in Sends
  BY <1>2 DEF Sends
<1>4. sending' = [sending EXCEPT ![p] = [sending[p] EXCEPT !.failure = failure]]
  BY DEF RefusedStale
<1>5. ProcsOK'
  BY <1>3, <1>4 DEF RefusedStale, TypeInv, TypeOK, ProcsOK
<1>6. Wired'
  BY <1>1, <1>3, <1>4
     DEF RefusedStale, people, TypeInv, TypeOK, ProcsOK, Wired, Processes
<1>7. StoreOK' /\ PeopleOK' /\ NetworkOK' /\ HistoryOK'
  BY <1>1 DEF RefusedStale, store, people, history, TypeInv, TypeOK, StoreOK, PeopleOK,
              NetworkOK, HistoryOK
<1>. QED
  BY <1>5, <1>6, <1>7 DEF TypeInv, TypeOK

LEMMA MarksConflictType ==
    ASSUME TypeInv, NEW p \in Processes, pc[p] \in {"sending", "asking"},
           NEW reason \in Reasons, NEW version \in Nat,
           MarksConflict(p, reason, version), UNCHANGED changes
    PROVE  StoreOK' /\ ProcsOK' /\ PeopleOK' /\ Wired'
<1>. DEFINE x == sending[p].entry
            y == [x EXCEPT !.conflicted = TRUE, !.reason = reason, !.server = version]
<1>1. x \in Entries
  BY SenderType
<1>2. y \in Entries
  BY <1>1 DEF Entries
<1>3. StoreOK'
  <2>1. Saves(y)
    BY DEF MarksConflict
  <2>. HIDE DEF y
  <2>. QED
    BY <1>2, <2>1, SavesType DEF TypeInv
<1>4. /\ SettledBy(p, x, "conflict") \in Calls
      /\ \A c \in Changes : SettledBy(p, x, "conflict")[c].tab = call[c].tab
  BY SettledByType DEF TypeInv, Outcomes
<1>5. cards' \subseteq Cards
  BY <1>1 DEF MarksConflict, Cards, Entries, TypeInv, TypeOK, PeopleOK
<1>6. ProcsOK' /\ PeopleOK' /\ Wired'
  BY <1>4, <1>5, EndsType DEF MarksConflict
<1>. QED
  BY <1>3, <1>6

LEMMA RefusedForGoodType ==
    ASSUME TypeInv, NEW p \in Processes, RefusedForGood(p)
    PROVE  TypeInv'
<1>1. pc[p] = "sending" /\ inFlight' \subseteq inFlight
  BY DEF RefusedForGood, Refusable, Answered
<1>2. "rejected" \in Reasons /\ 0 \in Nat
  BY DEF Reasons
<1>3. StoreOK' /\ ProcsOK' /\ PeopleOK' /\ Wired'
  BY <1>1, <1>2, MarksConflictType DEF RefusedForGood
<1>4. NetworkOK' /\ HistoryOK'
  BY <1>1, <1>3 DEF RefusedForGood, TypeInv, TypeOK, NetworkOK, HistoryOK
<1>. QED
  BY <1>3, <1>4 DEF TypeInv, TypeOK

LEMMA ServerFetchedType ==
    ASSUME TypeInv, NEW p \in Processes, ServerFetched(p)
    PROVE  TypeInv'
<1>. DEFINE x == sending[p].entry
            here == server[x.entity]
<1>1. pc[p] = "asking" /\ UNCHANGED changes
  BY DEF ServerFetched
<1>2. x \in Entries /\ here.ver \in Nat
  BY <1>1, SenderType DEF Entries, TypeInv, TypeOK, NetworkOK
<1>3. StoreOK' /\ ProcsOK' /\ PeopleOK' /\ Wired'
  <2>1. CASE MarksConflict(p, "version", here.ver)
    BY <1>1, <1>2, <2>1, MarksConflictType DEF Reasons
  <2>2. CASE MarksConflict(p, "gone", 0)
    BY <1>1, <2>2, MarksConflictType DEF Reasons
  <2>3. CASE /\ GoesOn(p, AfterEntry(p, x), call)
             /\ UNCHANGED <<store, cards>>
    <3>1. call \in Calls
      BY DEF TypeInv, TypeOK, PeopleOK, Calls
    <3>2. ProcsOK' /\ PeopleOK' /\ Wired'
      BY <1>1, <2>3, <3>1, EndsType DEF TypeInv, TypeOK, PeopleOK
    <3>. QED
      BY <2>3, <3>2 DEF store, TypeInv, TypeOK, StoreOK, HistoryOK
  <2>. QED
    BY <2>1, <2>2, <2>3 DEF ServerFetched
<1>4. NetworkOK' /\ HistoryOK'
  BY <1>3 DEF ServerFetched, network, TypeInv, TypeOK, NetworkOK, HistoryOK
<1>. QED
  BY <1>3, <1>4 DEF TypeInv, TypeOK

-----------------------------------------------------------------------------
LEMMA TypeInvInit == Init => TypeInv
<1>. SUFFICES ASSUME Init PROVE TypeInv
  OBVIOUS
<1>1. StoreOK /\ ProcsOK
  BY DEF Init, StoreOK, ProcsOK
<1>2. PeopleOK
  BY BoundsAssumption DEF Init, PeopleOK, NoCall, Outcomes
<1>3. NetworkOK
  <2>1. {Absent, [alive |-> TRUE, ver |-> 1]} \subseteq [alive : BOOLEAN, ver : Nat]
    BY DEF Absent
  <2>. HIDE DEF Absent
  <2>2. server \in [Entities -> [alive : BOOLEAN, ver : Nat]]
    BY <2>1 DEF Init
  <2>. QED
    BY <2>2 DEF Init, NetworkOK
<1>4. HistoryOK
  BY BoundsAssumption DEF Init, HistoryOK
<1>5. Wired
  BY DEF Init, Wired, Processes
<1>. QED
  BY <1>1, <1>2, <1>3, <1>4, <1>5 DEF TypeInv, TypeOK

LEMMA TypeInvNext == TypeInv /\ [Next]_vars => TypeInv'
<1>. SUFFICES ASSUME TypeInv, [Next]_vars PROVE TypeInv'
  OBVIOUS
<1>1. CASE Submit
  BY <1>1, SubmitFirstType, SubmitIgnoredType, SubmitUpdateType, SubmitDeleteType,
     SubmitDropType DEF Submit
<1>2. ASSUME NEW e \in Entities, Withdraw(e) PROVE TypeInv'
  BY <1>2, WithdrawType
<1>3. ASSUME NEW e \in Entities, OtherDevice(e) PROVE TypeInv'
  BY <1>3, OtherDeviceType
<1>4. CASE Settle
  BY <1>4, KeepMineType, UseTheirsType DEF Settle
<1>5. ASSUME NEW p \in Processes, FlushStep(p) PROVE TypeInv'
  BY <1>5, ReloadType, SkipEntryType, StopOfflineType, StartSendType DEF FlushStep
<1>6. ASSUME NEW p \in Processes, Answer(p) PROVE TypeInv'
  BY <1>6, SendSucceedsType, RefusedDeleteOfGoneType, RefusedOwnCreateType, RefusedAloneType,
     RefusedStaleType, RefusedForGoodType DEF Answer, Refuse
<1>7. ASSUME NEW p \in Processes, SendUnreachable(p) \/ ServerFetched(p) \/ FetchUnreachable(p)
      PROVE TypeInv'
  BY <1>7, SendUnreachableType, ServerFetchedType, FetchUnreachableType
<1>8. ASSUME NEW m \in inFlight, LateArrival(m) PROVE TypeInv'
  BY <1>8, LateArrivalType
<1>9. ASSUME NEW t \in Tabs, TabCloses(t) PROVE TypeInv'
  BY <1>9, TabClosesType
<1>10. CASE UNCHANGED vars
  BY <1>10 DEF vars, store, procs, people, network, history, TypeInv, TypeOK, StoreOK,
               ProcsOK, PeopleOK, NetworkOK, HistoryOK, Wired
<1>. QED
  BY <1>1, <1>2, <1>3, <1>4, <1>5, <1>6, <1>7, <1>8, <1>9, <1>10 DEF Next

\* Every variable keeps its type, for every number of entities, tabs and changes.
THEOREM Typing == Spec => []TypeOK
<1>1. Spec => []TypeInv
  BY TypeInvInit, TypeInvNext, PTL DEF Spec
<1>2. TypeInv => TypeOK
  BY DEF TypeInv
<1>. QED
  BY <1>1, <1>2, PTL

-----------------------------------------------------------------------------
(***************************************************************************)
(* One entry per entity.  The strengthening: entries differ in their seq   *)
(* as well, every seq in use was handed out, and the entry a process has   *)
(* sent belongs to the entity the queue holds under that seq.              *)
(***************************************************************************)
Distinct == \A x, y \in queue : x.seq = y.seq \/ x.entity = y.entity => x = y
Numbered == \A x \in queue : x.seq < nextSeq
SendersKnow ==
    \A p \in Processes : pc[p] \in {"sending", "asking"} =>
        /\ sending[p].entry.seq < nextSeq
        /\ \A x \in queue : x.seq = sending[p].entry.seq => x.entity = sending[p].entry.entity

QueueInv == TypeInv /\ Distinct /\ Numbered /\ SendersKnow

\* All that a step can do to the queue: drop entries, save one in place, add one of a new entity.
Drops   == queue' \subseteq queue /\ nextSeq' = nextSeq
SavesIn == \E x \in queue, y \in Entries :
              /\ y.seq = x.seq /\ y.entity = x.entity
              /\ queue' = Saved(y) /\ nextSeq' = nextSeq
Adds    == \E y \in Entries :
              /\ y.seq = nextSeq /\ EntryOf(y.entity) = {}
              /\ queue' = queue \cup {y} /\ nextSeq' = nextSeq + 1

\* All that a step can do to the sends: they go on as they are, or start with an entry of the queue.
SendsStep ==
    \A p \in Processes : pc'[p] \in {"sending", "asking"} =>
        \/ pc[p] \in {"sending", "asking"} /\ sending'[p].entry = sending[p].entry
        \/ \E x \in queue : /\ sending'[p].entry.seq = x.seq
                            /\ sending'[p].entry.entity = x.entity

LEMMA QueueStep ==
    ASSUME QueueInv, TypeInv', Drops \/ SavesIn \/ Adds, SendsStep
    PROVE  QueueInv'
<1>1. queue \subseteq Entries /\ nextSeq \in Nat /\ queue' \subseteq Entries /\ nextSeq' \in Nat
  BY DEF QueueInv, TypeInv, TypeOK, StoreOK
<1>2. \A x \in Entries : x.seq \in Nat
  BY DEF Entries
<1>3. \A p \in Processes : pc'[p] \in {"sending", "asking"} =>
         /\ sending'[p].entry.seq < nextSeq
         /\ \A x \in queue : x.seq = sending'[p].entry.seq => x.entity = sending'[p].entry.entity
  BY DEF SendsStep, QueueInv, SendersKnow, Distinct, Numbered
<1>4. \A p \in Processes : pc'[p] \in {"sending", "asking"} => sending'[p].entry.seq \in Nat
  BY <1>2 DEF TypeInv, Wired, Sends
<1>5. CASE Drops
  <2>1. Distinct' /\ Numbered'
    BY <1>5 DEF Drops, QueueInv, Distinct, Numbered
  <2>2. SendersKnow'
    BY <1>3, <1>5 DEF Drops, SendersKnow
  <2>. QED
    BY <2>1, <2>2 DEF QueueInv
<1>6. CASE SavesIn
  <2>1. PICK x \in queue, y \in Entries :
           /\ y.seq = x.seq /\ y.entity = x.entity
           /\ queue' = Saved(y) /\ nextSeq' = nextSeq
    BY <1>6 DEF SavesIn
  <2>2. \A z \in queue' : z = y \/ (z \in queue /\ z.seq # y.seq)
    BY <2>1 DEF Saved, Find
  <2>3. Distinct' /\ Numbered'
    BY <2>1, <2>2 DEF QueueInv, Distinct, Numbered
  <2>4. SendersKnow'
    BY <1>3, <2>1, <2>2 DEF SendersKnow
  <2>. QED
    BY <2>3, <2>4 DEF QueueInv
<1>7. CASE Adds
  <2>1. PICK y \in Entries :
           /\ y.seq = nextSeq /\ EntryOf(y.entity) = {}
           /\ queue' = queue \cup {y} /\ nextSeq' = nextSeq + 1
    BY <1>7 DEF Adds
  <2>2. \A z \in queue : z.entity # y.entity /\ z.seq < y.seq /\ z.seq # y.seq
    BY <1>1, <1>2, <2>1 DEF EntryOf, QueueInv, Numbered
  <2>3. Distinct'
    BY <2>1, <2>2 DEF QueueInv, Distinct
  <2>4. Numbered'
    BY <1>1, <1>2, <2>1 DEF QueueInv, Numbered
  <2>5. SendersKnow'
    BY <1>1, <1>3, <1>4, <2>1 DEF SendersKnow
  <2>. QED
    BY <2>3, <2>4, <2>5 DEF QueueInv
<1>. QED
  BY <1>5, <1>6, <1>7

\* A step that starts no send keeps the sends that go on.
LEMMA GoesOnSends ==
    ASSUME TypeInv, NEW p \in Processes, NEW rest, NEW calls, GoesOn(p, rest, calls)
    PROVE  SendsStep
<1>1. pc'[p] \notin {"sending", "asking"}
  BY TabsAssumption DEF GoesOn, Processes, TypeInv, TypeOK, ProcsOK
<1>2. \A q \in Processes \ {p} : pc'[q] = pc[q] /\ sending'[q] = sending[q]
  BY DEF GoesOn, TypeInv, TypeOK, ProcsOK
<1>. QED
  BY <1>1, <1>2 DEF SendsStep

LEMMA SameSends ==
    ASSUME TypeInv, UNCHANGED sending,
           \A p \in Processes : pc'[p] = pc[p] \/ pc'[p] \notin {"sending", "asking"}
    PROVE  SendsStep
  BY DEF SendsStep

LEMMA SavesSavesIn ==
    ASSUME NEW x \in queue, NEW y \in Entries, y.seq = x.seq, y.entity = x.entity, Saves(y)
    PROVE  SavesIn
  BY DEF Saves, SavesIn

LEMMA RemovesDrops ==
    ASSUME NEW s, Removes(s)
    PROVE  Drops
  BY DEF Removes, Drops, Dropped

\* The store stays as it is.
LEMMA SameStoreDrops ==
    ASSUME UNCHANGED store
    PROVE  Drops
  BY DEF store, Drops

\* What an edit leaves alone: the entry's place and its entity.
LEMMA MergedPlace ==
    ASSUME NEW x \in Entries, NEW payload
    PROVE  /\ WithUpdate(x, payload).seq = x.seq /\ WithUpdate(x, payload).entity = x.entity
           /\ WithDelete(x, payload).seq = x.seq /\ WithDelete(x, payload).entity = x.entity
  BY DEF WithUpdate, WithDelete, Renewed, Entries

LEMMA SettledPlace ==
    ASSUME NEW x \in Entries, NEW payload
    PROVE  /\ StepBack(x).seq = x.seq /\ StepBack(x).entity = x.entity
           /\ Mine(x, payload).seq = x.seq /\ Mine(x, payload).entity = x.entity
  BY DEF StepBack, Mine, Entries

\* A sender's entry that the queue still holds is saved in its place.
LEMMA SenderSaves ==
    ASSUME QueueInv, NEW p \in Processes, pc[p] \in {"sending", "asking"},
           Unchanged(sending[p].entry),
           NEW y \in Entries, y.seq = sending[p].entry.seq, y.entity = sending[p].entry.entity,
           Saves(y)
    PROVE  SavesIn
<1>1. PICK x \in queue : x.seq = sending[p].entry.seq
  BY DEF Unchanged, Find
<1>2. x.entity = sending[p].entry.entity
  BY <1>1 DEF QueueInv, SendersKnow
<1>. QED
  BY <1>1, <1>2, SavesSavesIn

LEMMA TabSubmitQueue ==
    ASSUME QueueInv, NEW t \in Tabs, NEW e \in Entities,
           \/ \E kind \in Kinds, version \in 0 .. server[e].ver : SubmitFirst(t, e, kind, version)
           \/ \E kind \in Kinds : SubmitIgnored(t, e, kind)
           \/ SubmitUpdate(t, e)
           \/ SubmitDelete(t, e)
    PROVE  (Drops \/ SavesIn \/ Adds) /\ SendsStep
<1>1. TypeInv /\ queue \subseteq Entries /\ nextKey \in Nat
  BY DEF QueueInv, TypeInv, TypeOK, StoreOK
<1>2. ASSUME NEW s \in Nat, NEW alone \in BOOLEAN, NewChange, Watches(t, s, alone)
      PROVE  SendsStep /\ changes + 1 \in Changes
  <2>1. changes + 1 \in Changes
    BY <1>1, <1>2, WatchesType
  <2>2. \A p \in Processes : pc'[p] = pc[p] \/ pc'[p] = "queued"
    BY <1>1, <1>2 DEF Watches, TypeInv, TypeOK, ProcsOK
  <2>. QED
    BY <1>1, <1>2, <2>1, <2>2, SameSends DEF Watches
<1>3. ASSUME NEW kind \in Kinds, NEW version \in 0 .. server[e].ver,
             SubmitFirst(t, e, kind, version)
      PROVE  Adds /\ SendsStep
  <2>1. version \in Nat /\ nextSeq \in Nat
    BY <1>1 DEF TypeInv, TypeOK, NetworkOK, StoreOK
  <2>2. SendsStep /\ changes + 1 \in Changes
    BY <1>2, <1>3, <2>1 DEF SubmitFirst
  <2>. DEFINE y == FirstEntry(e, kind, version, changes + 1)
  <2>3. y \in Entries
    BY <1>1, <2>1, <2>2 DEF FirstEntry, Entries, Reasons
  <2>4. y.seq = nextSeq /\ y.entity = e
    BY DEF FirstEntry
  <2>5. queue' = queue \cup {y} /\ nextSeq' = nextSeq + 1 /\ EntryOf(e) = {}
    BY <1>3 DEF SubmitFirst
  <2>. HIDE DEF y
  <2>6. Adds
    BY <2>3, <2>4, <2>5 DEF Adds
  <2>. QED
    BY <2>2, <2>6
<1>4. ASSUME NEW kind \in Kinds, SubmitIgnored(t, e, kind)
      PROVE  Drops /\ SendsStep
  <2>1. PICK x \in EntryOf(e) : Watches(t, x.seq, FALSE)
    BY <1>4 DEF SubmitIgnored
  <2>2. x.seq \in Nat
    BY <1>1 DEF EntryOf, Entries
  <2>. QED
    BY <1>2, <1>4, <2>1, <2>2, SameStoreDrops DEF SubmitIgnored
<1>5. CASE SubmitUpdate(t, e)
  <2>1. PICK x \in EntryOf(e) : Saves(WithUpdate(x, changes + 1)) /\ Watches(t, x.seq, FALSE)
    BY <1>5 DEF SubmitUpdate
  <2>2. x \in queue /\ x \in Entries /\ x.seq \in Nat
    BY <1>1 DEF EntryOf, Entries
  <2>3. SendsStep /\ changes + 1 \in Changes
    BY <1>2, <1>5, <2>1, <2>2 DEF SubmitUpdate
  <2>4. SavesIn
    BY <1>1, <2>1, <2>2, <2>3, WithUpdateType, MergedPlace, SavesSavesIn
  <2>. QED
    BY <2>3, <2>4
<1>6. CASE SubmitDelete(t, e)
  <2>1. PICK x \in EntryOf(e) : Saves(WithDelete(x, changes + 1)) /\ Watches(t, x.seq, FALSE)
    BY <1>6 DEF SubmitDelete
  <2>2. x \in queue /\ x \in Entries /\ x.seq \in Nat
    BY <1>1 DEF EntryOf, Entries
  <2>3. SendsStep /\ changes + 1 \in Changes
    BY <1>2, <1>6, <2>1, <2>2 DEF SubmitDelete
  <2>4. SavesIn
    BY <1>1, <2>1, <2>2, <2>3, WithDeleteType, MergedPlace, SavesSavesIn
  <2>. QED
    BY <2>3, <2>4
<1>. QED
  BY <1>3, <1>4, <1>5, <1>6

LEMMA SubmitDropQueue ==
    ASSUME QueueInv, NEW e \in Entities, SubmitDrop(e)
    PROVE  Drops /\ SendsStep
<1>1. TypeInv
  BY DEF QueueInv
<1>2. Drops
  BY RemovesDrops DEF SubmitDrop
<1>3. \A p \in Processes : pc'[p] = pc[p] \/ pc'[p] = "done"
  BY <1>1 DEF SubmitDrop, TypeInv, TypeOK, ProcsOK
<1>. QED
  BY <1>1, <1>2, <1>3, SameSends DEF SubmitDrop

LEMMA SubmitQueue ==
    ASSUME QueueInv, Submit
    PROVE  (Drops \/ SavesIn \/ Adds) /\ SendsStep
  BY TabSubmitQueue, SubmitDropQueue DEF Submit

LEMMA FlushQueue ==
    ASSUME QueueInv, NEW p \in Processes, FlushStep(p)
    PROVE  (Drops \/ SavesIn \/ Adds) /\ SendsStep
<1>1. TypeInv /\ queue \subseteq Entries
  BY DEF QueueInv, TypeInv, TypeOK, StoreOK
<1>2. CASE Reload(p)
  BY <1>1, <1>2, GoesOnSends, SameStoreDrops DEF Reload
<1>3. ASSUME NEW s \in todo[p], SkipEntry(p, s)
      PROVE  Drops /\ SendsStep
  BY <1>1, <1>3, GoesOnSends, SameStoreDrops DEF SkipEntry
<1>4. ASSUME NEW s \in todo[p], StopOffline(p, s)
      PROVE  Drops /\ SendsStep
  BY <1>1, <1>4, GoesOnSends, SameStoreDrops DEF StopOffline
<1>5. ASSUME NEW s \in todo[p], StartSend(p, s)
      PROVE  SavesIn /\ SendsStep
  <2>. DEFINE Y(x) == [x EXCEPT !.attempted = TRUE]
  <2>. DEFINE M == {w \in watched[TabOf(p)] : w.seq = s}
              Q(x) == [entry |-> Y(x), wants |-> M # {}, failure |-> "none",
                       alone |-> x.before = <<>> /\ \E w \in M : w.alone]
  <2>1. PICK x \in Find(s) :
           queue' = Saved(Y(x)) /\ sending' = [sending EXCEPT ![p] = Q(x)]
    BY <1>5, Zenon DEF StartSend
  <2>2. x \in queue /\ x \in Entries
    BY <1>1 DEF Find
  <2>3. Y(x) \in Entries /\ Y(x).seq = x.seq /\ Y(x).entity = x.entity
    BY <2>2 DEF Entries
  <2>4. nextSeq' = nextSeq /\ pc' = [pc EXCEPT ![p] = "sending"]
    BY <1>5 DEF StartSend
  <2>5. SavesIn
    BY <2>1, <2>2, <2>3, <2>4 DEF SavesIn
  <2>6. sending'[p].entry.seq = x.seq /\ sending'[p].entry.entity = x.entity
    <3>1. Q(x).entry = Y(x)
      OBVIOUS
    <3>. HIDE DEF Q
    <3>. QED
      BY <1>1, <2>1, <2>3, <3>1 DEF TypeInv, TypeOK, ProcsOK
  <2>7. \A r \in Processes \ {p} : pc'[r] = pc[r] /\ sending'[r] = sending[r]
    BY <1>1, <2>1, <2>4 DEF TypeInv, TypeOK, ProcsOK
  <2>8. SendsStep
    BY <2>2, <2>6, <2>7 DEF SendsStep
  <2>. QED
    BY <2>5, <2>8
<1>. QED
  BY <1>2, <1>3, <1>4, <1>5 DEF FlushStep

LEMMA MarksConflictQueue ==
    ASSUME QueueInv, NEW p \in Processes, pc[p] \in {"sending", "asking"},
           Unchanged(sending[p].entry), NEW reason \in Reasons, NEW version \in Nat,
           MarksConflict(p, reason, version)
    PROVE  SavesIn /\ SendsStep
<1>. DEFINE x == sending[p].entry
            y == [x EXCEPT !.conflicted = TRUE, !.reason = reason, !.server = version]
<1>1. x \in Entries
  BY SenderType DEF QueueInv
<1>2. y \in Entries /\ y.seq = x.seq /\ y.entity = x.entity /\ Saves(y)
  BY <1>1 DEF Entries, MarksConflict
<1>3. SendsStep
  BY GoesOnSends DEF MarksConflict, QueueInv
<1>. HIDE DEF y
<1>. QED
  BY <1>2, <1>3, SenderSaves

LEMMA AnswerQueue ==
    ASSUME QueueInv, NEW p \in Processes, Answer(p)
    PROVE  (Drops \/ SavesIn \/ Adds) /\ SendsStep
<1>. DEFINE x == sending[p].entry
<1>1. TypeInv
  BY DEF QueueInv
<1>2. CASE SendSucceeds(p)
  BY <1>1, <1>2, GoesOnSends, RemovesDrops, SameStoreDrops DEF SendSucceeds
<1>3. CASE RefusedDeleteOfGone(p)
  BY <1>1, <1>3, GoesOnSends, RemovesDrops DEF RefusedDeleteOfGone
<1>4. CASE RefusedOwnCreate(p)
  <2>. DEFINE y == [x EXCEPT !.kind = "create", !.base = 0, !.key = nextKey,
                             !.attempted = FALSE, !.ownCreate = FALSE]
  <2>1. pc[p] = "sending" /\ Unchanged(x) /\ Saves(y)
    BY <1>4 DEF RefusedOwnCreate, Answered
  <2>2. x \in Entries
    BY <1>1, <2>1, SenderType
  <2>3. y \in Entries /\ y.seq = x.seq /\ y.entity = x.entity
    BY <1>1, <2>2 DEF Entries, Kinds, TypeInv, TypeOK, StoreOK
  <2>4. SavesIn
    <3>. HIDE DEF y
    <3>. QED
      BY <2>1, <2>3, SenderSaves
  <2>5. pc' = [pc EXCEPT ![p] = "resend"] /\ sending' = [sending EXCEPT ![p] = Idle]
    BY <1>4 DEF RefusedOwnCreate
  <2>6. SendsStep
    BY <1>1, <2>5 DEF SendsStep, TypeInv, TypeOK, ProcsOK
  <2>. QED
    BY <2>4, <2>6
<1>5. ASSUME NEW failure \in Refusals, RefusedAlone(p, failure)
      PROVE  Drops /\ SendsStep
  BY <1>1, <1>5, GoesOnSends, RemovesDrops DEF RefusedAlone
<1>6. ASSUME NEW failure \in Refusals, RefusedStale(p, failure)
      PROVE  Drops /\ SendsStep
  <2>1. Drops
    BY <1>6, SameStoreDrops DEF RefusedStale
  <2>2. pc[p] = "sending"
    BY <1>6 DEF RefusedStale, Refusable, Answered
  <2>3. sending[p] \in Sends
    BY <1>1, <2>2, SenderType
  <2>4. /\ pc' = [pc EXCEPT ![p] = "asking"]
        /\ sending' = [sending EXCEPT ![p] = [sending[p] EXCEPT !.failure = failure]]
    BY <1>6 DEF RefusedStale
  <2>5. sending'[p].entry = sending[p].entry
    BY <1>1, <2>3, <2>4 DEF Sends, TypeInv, TypeOK, ProcsOK
  <2>6. \A q \in Processes \ {p} : pc'[q] = pc[q] /\ sending'[q] = sending[q]
    BY <1>1, <2>4 DEF TypeInv, TypeOK, ProcsOK
  <2>. QED
    BY <2>1, <2>2, <2>5, <2>6 DEF SendsStep
<1>8. CASE RefusedForGood(p)
  <2>1. pc[p] = "sending" /\ Unchanged(x) /\ MarksConflict(p, "rejected", 0)
    BY <1>8 DEF RefusedForGood, Refusable, Answered
  <2>. QED
    BY <2>1, MarksConflictQueue DEF Reasons
<1>. QED
  BY <1>2, <1>3, <1>4, <1>5, <1>6, <1>8 DEF Answer, Refuse

LEMMA FetchQueue ==
    ASSUME QueueInv, NEW p \in Processes,
           SendUnreachable(p) \/ ServerFetched(p) \/ FetchUnreachable(p)
    PROVE  (Drops \/ SavesIn \/ Adds) /\ SendsStep
<1>1. TypeInv
  BY DEF QueueInv
<1>2. CASE SendUnreachable(p)
  BY <1>1, <1>2, GoesOnSends, SameStoreDrops DEF SendUnreachable
<1>3. CASE FetchUnreachable(p)
  BY <1>1, <1>3, GoesOnSends, SameStoreDrops DEF FetchUnreachable
<1>4. CASE ServerFetched(p)
  <2>. DEFINE x == sending[p].entry
  <2>1. pc[p] = "asking"
    BY <1>4 DEF ServerFetched
  <2>2. x \in Entries
    BY <1>1, <2>1, SenderType
  <2>3. server[x.entity].ver \in Nat
    BY <1>1, <2>2 DEF Entries, TypeInv, TypeOK, NetworkOK
  <2>4. CASE Unchanged(x)
    <3>1. \/ MarksConflict(p, "version", server[x.entity].ver)
          \/ MarksConflict(p, "gone", 0)
      BY <1>4, <2>4 DEF ServerFetched
    <3>. QED
      BY <2>1, <2>3, <2>4, <3>1, MarksConflictQueue DEF Reasons
  <2>5. CASE ~Unchanged(x)
    BY <1>1, <1>4, <2>5, GoesOnSends, SameStoreDrops DEF ServerFetched
  <2>. QED
    BY <2>4, <2>5
<1>. QED
  BY <1>2, <1>3, <1>4

\* Steps that leave every process alone.
LEMMA SameProcs ==
    ASSUME TypeInv, UNCHANGED procs
    PROVE  SendsStep
  BY SameSends DEF procs

LEMMA PersonQueue ==
    ASSUME QueueInv, Settle \/ \E e \in Entities : Withdraw(e)
    PROVE  (Drops \/ SavesIn) /\ SendsStep
<1>1. TypeInv /\ queue \subseteq Entries /\ nextKey \in Nat
  BY DEF QueueInv, TypeInv, TypeOK, StoreOK
<1>2. ASSUME NEW e \in Entities, Withdraw(e)
      PROVE  (Drops \/ SavesIn) /\ SendsStep
  <2>1. PICK x \in EntryOf(e) : \/ Removes(x.seq)
                                \/ x.before # <<>> /\ Saves(StepBack(x))
    BY <1>2 DEF Withdraw
  <2>2. x \in queue /\ x \in Entries
    BY <1>1 DEF EntryOf
  <2>3. Drops \/ SavesIn
    BY <2>1, <2>2, RemovesDrops, StepBackType, SettledPlace, SavesSavesIn
  <2>. QED
    BY <1>1, <1>2, <2>3, SameProcs DEF Withdraw
<1>3. ASSUME NEW card \in cards, NEW payload, KeepMine(card, payload)
      PROVE  SavesIn /\ SendsStep
  <2>1. payload \in Changes
    BY <1>1, <1>3, BoundsAssumption
       DEF KeepMine, TypeInv, TypeOK, PeopleOK, Cards, Changes
  <2>2. PICK x \in ConflictOf(card) : Saves(Mine(x, payload))
    BY <1>3 DEF KeepMine
  <2>3. x \in queue /\ x \in Entries
    BY <1>1 DEF ConflictOf, Find
  <2>4. SavesIn
    BY <1>1, <2>1, <2>2, <2>3, MineType, SettledPlace, SavesSavesIn
  <2>. QED
    BY <1>1, <1>3, <2>4, SameProcs DEF KeepMine
<1>4. ASSUME NEW card \in cards, UseTheirs(card)
      PROVE  Drops /\ SendsStep
  BY <1>1, <1>4, RemovesDrops, SameProcs DEF UseTheirs
<1>. QED
  BY <1>2, <1>3, <1>4 DEF Settle

\* Every step of the specification is one of those.
LEMMA StoreMoves ==
    ASSUME QueueInv, [Next]_vars
    PROVE  (Drops \/ SavesIn \/ Adds) /\ SendsStep
<1>0. TypeInv
  BY DEF QueueInv
<1>1. CASE Submit
  BY <1>1, SubmitQueue
<1>2. CASE Settle \/ \E e \in Entities : Withdraw(e)
  BY <1>2, PersonQueue
<1>3. ASSUME NEW e \in Entities, OtherDevice(e) PROVE Drops /\ SendsStep
  BY <1>0, <1>3, SameStoreDrops, SameProcs DEF OtherDevice
<1>4. ASSUME NEW p \in Processes, FlushStep(p)
      PROVE  (Drops \/ SavesIn \/ Adds) /\ SendsStep
  BY <1>4, FlushQueue
<1>5. ASSUME NEW p \in Processes, Answer(p)
      PROVE  (Drops \/ SavesIn \/ Adds) /\ SendsStep
  BY <1>5, AnswerQueue
<1>6. ASSUME NEW p \in Processes,
             SendUnreachable(p) \/ ServerFetched(p) \/ FetchUnreachable(p)
      PROVE  (Drops \/ SavesIn \/ Adds) /\ SendsStep
  BY <1>6, FetchQueue
<1>7. ASSUME NEW m \in inFlight, LateArrival(m) PROVE Drops /\ SendsStep
  BY <1>0, <1>7, SameStoreDrops, SameProcs DEF LateArrival
<1>8. ASSUME NEW t \in Tabs, TabCloses(t) PROVE Drops /\ SendsStep
  <2>1. Drops
    BY <1>8, SameStoreDrops DEF TabCloses
  <2>2. \A p \in Processes : \/ pc'[p] = pc[p] /\ sending'[p] = sending[p]
                             \/ pc'[p] \in {"idle", "done"}
    BY <1>8 DEF TabCloses
  <2>. QED
    BY <2>1, <2>2 DEF SendsStep
<1>9. CASE UNCHANGED vars
  BY <1>0, <1>9, SameStoreDrops, SameProcs DEF vars
<1>. QED
  BY <1>1, <1>2, <1>3, <1>4, <1>5, <1>6, <1>7, <1>8, <1>9 DEF Next

LEMMA QueueInvNext == QueueInv /\ [Next]_vars => QueueInv'
<1>. SUFFICES ASSUME QueueInv, [Next]_vars PROVE QueueInv'
  OBVIOUS
<1>1. TypeInv'
  BY TypeInvNext DEF QueueInv
<1>. QED
  BY <1>1, StoreMoves, QueueStep

LEMMA QueueInvInit == Init => QueueInv
<1>. SUFFICES ASSUME Init PROVE QueueInv
  OBVIOUS
<1>1. Distinct /\ Numbered
  BY DEF Init, Distinct, Numbered
<1>2. SendersKnow
  BY DEF Init, SendersKnow
<1>. QED
  BY <1>1, <1>2, TypeInvInit DEF QueueInv

\* One entry per entity, for every number of tabs: no interleaving of
\* edits, sends, refusals, withdrawals and closed tabs leaves two waiting writes of one entity.
THEOREM OneEntry == Spec => []OneEntryPerEntity
<1>1. QueueInv => OneEntryPerEntity
  BY DEF QueueInv, Distinct, OneEntryPerEntity
<1>. QED
  BY <1>1, QueueInvInit, QueueInvNext, PTL DEF Spec

-----------------------------------------------------------------------------
(***************************************************************************)
(* The lock.  A process that waits for the network holds it, so nobody     *)
(* else is inside a step, and nobody touches the entry that was sent.      *)
(***************************************************************************)
Busy  == {"sending", "asking", "resend"}
Mutex == \A p \in Processes : pc[p] \in Busy => lock = p
HeldInv == TypeInv /\ Mutex /\ EntryHeldWhileSending

Calm == \A p \in Processes : pc[p] \notin Busy
CalmBut(p) == \A q \in Processes \ {p} : pc[q] \notin Busy

\* While the lock is free, or a process holds it, nobody else waits for the network.
LEMMA FreeIsCalm ==
    ASSUME HeldInv, Free
    PROVE  Calm
<1>. SUFFICES ASSUME NEW p \in Processes, pc[p] \in Busy PROVE FALSE
  BY DEF Calm
<1>1. lock = p
  BY DEF HeldInv, Mutex
<1>. QED
  BY <1>1, TabsAssumption DEF Free, Processes

LEMMA BusyIsAlone ==
    ASSUME HeldInv, NEW p \in Processes, pc[p] \in Busy
    PROVE  CalmBut(p)
<1>. SUFFICES ASSUME NEW q \in Processes \ {p}, pc[q] \in Busy PROVE FALSE
  BY DEF CalmBut
<1>. QED
  BY DEF HeldInv, Mutex

\* Nobody waits for the network after the step.
LEMMA CalmAfter ==
    ASSUME Calm', TypeInv'
    PROVE  HeldInv'
  BY DEF Calm, Busy, HeldInv, Mutex, EntryHeldWhileSending

LEMMA GoesOnCalm ==
    ASSUME TypeInv, NEW p \in Processes, NEW rest, NEW calls, GoesOn(p, rest, calls), CalmBut(p)
    PROVE  Calm'
<1>1. pc'[p] \notin Busy
  BY TabsAssumption DEF GoesOn, Processes, Busy, TypeInv, TypeOK, ProcsOK
<1>2. \A q \in Processes \ {p} : pc'[q] = pc[q]
  BY DEF GoesOn, TypeInv, TypeOK, ProcsOK
<1>. QED
  BY <1>1, <1>2 DEF Calm, CalmBut

LEMMA CallerCalm ==
    ASSUME HeldInv, Submit \/ Settle \/ \E e \in Entities : Withdraw(e)
    PROVE  Calm'
<1>1. Free
  BY DEF Submit, SubmitFirst, SubmitIgnored, SubmitUpdate, SubmitDelete, SubmitDrop, NewChange,
         Settle, KeepMine, UseTheirs, Withdraw
<1>2. Calm
  BY <1>1, FreeIsCalm
<1>3. \A p \in Processes : pc'[p] = pc[p] \/ pc'[p] \in {"queued", "done"}
  <2>. pc \in [Processes -> {"idle", "queued", "flush", "sending", "asking", "resend", "done"}]
    BY DEF HeldInv, TypeInv, TypeOK, ProcsOK
  <2>1. CASE Submit
    <3>. DEFINE moves(to) == pc' = [pc EXCEPT ![changes + 1] = to]
    <3>1. \A s \in Tabs : \A n, alone : Watches(s, n, alone) => moves("queued")
      BY DEF Watches
    <3>. HIDE DEF moves
    <3>2. ASSUME NEW s \in Tabs, NEW e \in Entities, NEW kind, NEW version,
                 \/ SubmitFirst(s, e, kind, version) \/ SubmitIgnored(s, e, kind)
                 \/ SubmitUpdate(s, e) \/ SubmitDelete(s, e)
          PROVE  moves("queued")
      BY <3>1, <3>2 DEF SubmitFirst, SubmitIgnored, SubmitUpdate, SubmitDelete
    <3>3. ASSUME NEW e \in Entities, SubmitDrop(e)
          PROVE  moves("done")
      BY <3>3 DEF SubmitDrop, moves
    <3>4. moves("queued") \/ moves("done")
      BY <2>1, <3>2, <3>3 DEF Submit
    <3>. QED
      BY <3>4 DEF moves
  <2>2. CASE Settle
    BY <2>2 DEF Settle, KeepMine, UseTheirs, procs
  <2>3. CASE \E e \in Entities : Withdraw(e)
    BY <2>3 DEF Withdraw, procs
  <2>. QED
    BY <2>1, <2>2, <2>3
<1>. QED
  BY <1>2, <1>3 DEF Calm, Busy

\* A process that may send an entry is the only one inside a step.
LEMMA SenderIsAlone ==
    ASSUME HeldInv, NEW p \in Processes, MaySendOne(p)
    PROVE  CalmBut(p)
<1>1. CASE pc[p] = "resend"
  BY <1>1, BusyIsAlone DEF Busy
<1>2. CASE pc[p] = "flush" /\ Free
  <2>. QED
    BY <1>2, FreeIsCalm DEF Calm, CalmBut
<1>. QED
  BY <1>1, <1>2 DEF MaySendOne

LEMMA FlushHeld ==
    ASSUME HeldInv, TypeInv', NEW p \in Processes, FlushStep(p)
    PROVE  HeldInv'
<1>1. TypeInv
  BY DEF HeldInv
<1>2. CASE Reload(p)
  <2>2. CalmBut(p)
    BY <1>2, FreeIsCalm DEF Reload, Calm, CalmBut
  <2>. QED
    BY <1>1, <1>2, <2>2, GoesOnCalm, CalmAfter DEF Reload
<1>3. ASSUME NEW s \in todo[p], SkipEntry(p, s) PROVE HeldInv'
  <2>1. MaySendOne(p)
    BY <1>3 DEF SkipEntry, MaySendOne
  <2>. QED
    BY <1>1, <1>3, <2>1, SenderIsAlone, GoesOnCalm, CalmAfter DEF SkipEntry
<1>4. ASSUME NEW s \in todo[p], StopOffline(p, s) PROVE HeldInv'
  BY <1>1, <1>4, SenderIsAlone, GoesOnCalm, CalmAfter DEF StopOffline
<1>5. ASSUME NEW s \in todo[p], StartSend(p, s) PROVE HeldInv'
  <2>1. CalmBut(p)
    BY <1>5, SenderIsAlone DEF StartSend
  <2>2. /\ pc' = [pc EXCEPT ![p] = "sending"]
        /\ lock' = p
    BY <1>5 DEF StartSend
  <2>4. \A q \in Processes \ {p} : pc'[q] \notin Busy
    BY <1>1, <2>1, <2>2 DEF CalmBut, TypeInv, TypeOK, ProcsOK
  <2>6. sending'[p].entry \in queue'
    <3>. DEFINE Y(x) == [x EXCEPT !.attempted = TRUE]
                M == {w \in watched[TabOf(p)] : w.seq = s}
                Q(x) == [entry |-> Y(x), wants |-> M # {}, failure |-> "none",
                         alone |-> x.before = <<>> /\ \E w \in M : w.alone]
    <3>1. PICK x \in Find(s) : queue' = Saved(Y(x)) /\ sending' = [sending EXCEPT ![p] = Q(x)]
      BY <1>5, Zenon DEF StartSend
    <3>2. Q(x).entry = Y(x)
      OBVIOUS
    <3>. HIDE DEF Q, Y
    <3>3. sending'[p] = Q(x)
      BY <1>1, <3>1 DEF TypeInv, TypeOK, ProcsOK
    <3>. QED
      BY <3>1, <3>2, <3>3 DEF Saved
  <2>7. Mutex'
    BY <2>2, <2>4 DEF Mutex
  <2>8. EntryHeldWhileSending'
    BY <2>4, <2>6 DEF EntryHeldWhileSending, Unchanged, Find, Busy
  <2>. QED
    BY <2>7, <2>8 DEF HeldInv
<1>. QED
  BY <1>2, <1>3, <1>4, <1>5 DEF FlushStep

LEMMA SettlesHeld ==
    ASSUME HeldInv, TypeInv', NEW p \in Processes,
           \/ Answer(p) \/ SendUnreachable(p)
           \/ ServerFetched(p) \/ FetchUnreachable(p)
    PROVE  HeldInv'
<1>1. TypeInv /\ pc[p] \in {"sending", "asking"}
  BY DEF HeldInv, Answer, Refuse, SendSucceeds, RefusedDeleteOfGone, RefusedOwnCreate,
         RefusedAlone, RefusedStale, RefusedForGood, Refusable, Answered,
         SendUnreachable, ServerFetched, FetchUnreachable
<1>2. CalmBut(p)
  BY <1>1, BusyIsAlone DEF Busy
<1>3. ASSUME NEW rest, NEW calls, GoesOn(p, rest, calls) PROVE HeldInv'
  BY <1>1, <1>2, <1>3, GoesOnCalm, CalmAfter
<1>4. CASE RefusedOwnCreate(p)
  <2>1. pc' = [pc EXCEPT ![p] = "resend"] /\ UNCHANGED <<lock, call>>
    BY <1>4 DEF RefusedOwnCreate, people
  <2>2. \A q \in Processes \ {p} : pc'[q] \notin Busy
    BY <1>1, <1>2, <2>1 DEF CalmBut, TypeInv, TypeOK, ProcsOK
  <2>3. pc'[p] = "resend" /\ lock' = p
    BY <1>1, <2>1 DEF HeldInv, Mutex, Busy, TypeInv, TypeOK, ProcsOK
  <2>. QED
    BY <2>2, <2>3 DEF HeldInv, Mutex, EntryHeldWhileSending, Busy
<1>5. ASSUME NEW failure \in Refusals, RefusedStale(p, failure) PROVE HeldInv'
  <2>1. /\ pc' = [pc EXCEPT ![p] = "asking"]
        /\ sending' = [sending EXCEPT ![p] = [sending[p] EXCEPT !.failure = failure]]
        /\ UNCHANGED <<lock, call, queue>>
    BY <1>5 DEF RefusedStale, people, store
  <2>2. \A q \in Processes \ {p} : pc'[q] \notin Busy
    BY <1>1, <1>2, <2>1 DEF CalmBut, TypeInv, TypeOK, ProcsOK
  <2>3. lock' = p
    BY <1>1, <2>1 DEF HeldInv, Mutex, Busy, TypeInv, TypeOK, ProcsOK
  <2>4. sending[p] \in Sends
    BY <1>1, SenderType
  <2>5. sending'[p].entry = sending[p].entry
    BY <1>1, <2>1, <2>4 DEF Sends, TypeInv, TypeOK, ProcsOK
  <2>6. Unchanged(sending[p].entry)'
    <3>1. Unchanged(sending[p].entry)
      BY <1>1 DEF HeldInv, EntryHeldWhileSending
    <3>. QED
      BY <2>1, <2>5, <3>1 DEF Unchanged, Find
  <2>7. Mutex'
    BY <2>2, <2>3 DEF Mutex
  <2>8. EntryHeldWhileSending'
    BY <2>2, <2>6 DEF EntryHeldWhileSending, Busy
  <2>. QED
    BY <2>7, <2>8 DEF HeldInv
<1>6. CASE SendSucceeds(p)
  BY <1>3, <1>6 DEF SendSucceeds
<1>7. CASE RefusedDeleteOfGone(p)
  BY <1>3, <1>7 DEF RefusedDeleteOfGone
<1>8. ASSUME NEW failure \in Refusals, RefusedAlone(p, failure) PROVE HeldInv'
  BY <1>3, <1>8 DEF RefusedAlone
<1>10. CASE RefusedForGood(p)
  BY <1>3, <1>10 DEF RefusedForGood, MarksConflict
<1>11. CASE SendUnreachable(p) \/ FetchUnreachable(p)
  BY <1>3, <1>11 DEF SendUnreachable, FetchUnreachable
<1>12. CASE ServerFetched(p)
  BY <1>3, <1>12 DEF ServerFetched, MarksConflict
<1>. QED
  BY <1>4, <1>5, <1>6, <1>7, <1>8, <1>10, <1>11, <1>12 DEF Answer, Refuse

LEMMA TabClosesHeld ==
    ASSUME HeldInv, TypeInv', NEW t \in Tabs, TabCloses(t)
    PROVE  HeldInv'
<1>1. TypeInv
  BY DEF HeldInv
<1>2. ASSUME NEW p \in Processes, pc'[p] \in Busy
      PROVE  /\ p \notin ProcessesOf(t) /\ pc'[p] = pc[p] /\ TabOf(p)' = TabOf(p)
             /\ sending'[p] = sending[p]
  <2>1. p \notin ProcessesOf(t) /\ pc'[p] = pc[p] /\ sending'[p] = sending[p]
    BY <1>2 DEF TabCloses, Busy
  <2>2. TabOf(p)' = TabOf(p)
    BY <1>2, <2>1 DEF TabCloses, TabOf, Processes
  <2>. QED
    BY <1>1, <1>2, <2>1, <2>2, RunningTab DEF Busy
<1>3. Mutex'
  BY <1>2 DEF TabCloses, HeldInv, Mutex
<1>4. EntryHeldWhileSending'
  BY <1>2 DEF TabCloses, store, HeldInv, EntryHeldWhileSending, Unchanged, Find, Busy
<1>. QED
  BY <1>3, <1>4 DEF HeldInv

LEMMA SameHeld ==
    ASSUME HeldInv, TypeInv', UNCHANGED <<store, procs, people>>
    PROVE  HeldInv'
  BY DEF store, procs, people, HeldInv, Mutex, TabOf, EntryHeldWhileSending, Unchanged, Find

LEMMA HeldInvInit == Init => HeldInv
  BY TypeInvInit DEF Init, HeldInv, Mutex, EntryHeldWhileSending, Busy

LEMMA HeldInvNext == HeldInv /\ [Next]_vars => HeldInv'
<1>. SUFFICES ASSUME HeldInv, [Next]_vars PROVE HeldInv'
  OBVIOUS
<1>1. TypeInv'
  BY TypeInvNext DEF HeldInv
<1>2. CASE Submit \/ Settle \/ \E e \in Entities : Withdraw(e)
  BY <1>1, <1>2, CallerCalm, CalmAfter
<1>3. ASSUME NEW e \in Entities, OtherDevice(e) PROVE HeldInv'
  BY <1>1, <1>3, SameHeld DEF OtherDevice
<1>4. ASSUME NEW p \in Processes, FlushStep(p) PROVE HeldInv'
  BY <1>1, <1>4, FlushHeld
<1>5. ASSUME NEW p \in Processes, \/ Answer(p) \/ SendUnreachable(p)
                                  \/ ServerFetched(p) \/ FetchUnreachable(p)
      PROVE HeldInv'
  BY <1>1, <1>5, SettlesHeld
<1>6. ASSUME NEW m \in inFlight, LateArrival(m) PROVE HeldInv'
  BY <1>1, <1>6, SameHeld DEF LateArrival
<1>7. ASSUME NEW t \in Tabs, TabCloses(t) PROVE HeldInv'
  BY <1>1, <1>7, TabClosesHeld
<1>8. CASE UNCHANGED vars
  BY <1>1, <1>8, SameHeld DEF vars
<1>. QED
  BY <1>2, <1>3, <1>4, <1>5, <1>6, <1>7, <1>8 DEF Next

\* The queue holds a sent entry under the key that was sent until the send settles, for every number
\* of tabs and interleaving: the checks of `unchanged` in the code are never needed under the lock
\* it asks for.
THEOREM HeldWhileSending == Spec => []EntryHeldWhileSending
<1>1. HeldInv => EntryHeldWhileSending
  BY DEF HeldInv
<1>. QED
  BY <1>1, HeldInvInit, HeldInvNext, PTL DEF Spec
-----------------------------------------------------------------------------
(***************************************************************************)
(* Nothing vanishes unnoticed.  A write leaves the queue when it took      *)
(* effect, when the person took it back, or when its refusal was told to a *)
(* call; so the strengthening says who waits for an entry (the calls), and *)
(* which command an entry, a conflict or an applied key stands for (the    *)
(* sends).                                                                 *)
(***************************************************************************)
\* A call is of an entry that was numbered, and a change that was not made has none.
CallsKnown ==
    \A c \in Changes : call[c].seq < nextSeq /\ (c > changes => call[c] = NoCall)

\* The entry of a call that failed and did not return yet has left the queue.
FailedIsGone ==
    \A c \in Changes : call[c].outcome = "failed" /\ pc[c] # "done" => Find(call[c].seq) = {}

\* A tab watches an entry only while a call of that tab waits for it.
MarksAwaited == \A t \in Tabs : \A w \in watched[t] : Waiters(t, w.seq) # {}

CallInv == QueueInv /\ CallsKnown /\ FailedIsGone /\ MarksAwaited

\* What every step does to the calls that failed: they stay so.
FailedStays == \A c \in Changes : call[c].outcome = "failed" => call'[c].outcome = "failed"

\* Entries that left the queue do not come back under their number.
GoneStays ==
    /\ nextSeq <= nextSeq' /\ nextSeq' \in Nat
    /\ \A s \in Nat : s < nextSeq /\ Find(s) = {} => Find(s)' = {}

LEMMA QueueGoneStays ==
    ASSUME QueueInv, [Next]_vars
    PROVE  GoneStays
<1>1. nextSeq \in Nat /\ queue \subseteq Entries /\ \A x \in Entries : x.seq \in Nat
  BY DEF QueueInv, TypeInv, TypeOK, StoreOK, Entries
<1>2. CASE Drops
  BY <1>1, <1>2 DEF Drops, GoneStays, Find
<1>3. CASE SavesIn
  BY <1>1, <1>3 DEF SavesIn, GoneStays, Find, Saved
<1>4. CASE Adds
  BY <1>1, <1>4 DEF Adds, GoneStays, Find
<1>. QED
  BY <1>2, <1>3, <1>4, StoreMoves

\* Answers that a send gives: only to calls that wait, and `failed` only for an entry that goes.
Answers(calls) ==
    /\ calls \in Calls
    /\ \A c \in Changes :
          /\ calls[c].tab = call[c].tab /\ calls[c].seq = call[c].seq
          /\ \/ calls[c] = call[c]
             \/ /\ call[c].tab \in Tabs /\ call[c].outcome # "failed"
                /\ calls[c].outcome = "failed" => \A x \in queue' : x.seq # call[c].seq

\* A process that goes on keeps what is known of the calls.
LEMMA GoesOnCalls ==
    ASSUME CallInv, GoneStays, NEW p \in Processes, p \in Tabs \/ pc[p] \notin {"idle", "done"},
           NEW rest, NEW calls, GoesOn(p, rest, calls), Answers(calls), UNCHANGED changes
    PROVE  /\ CallsKnown' /\ FailedIsGone' /\ MarksAwaited' /\ FailedStays
           /\ \A c \in Changes : calls[c].outcome = "failed" => call'[c].outcome = "failed"
<1>1. /\ pc \in [Processes -> {"idle", "queued", "flush", "sending", "asking", "resend", "done"}]
      /\ call \in Calls /\ calls \in Calls /\ nextSeq \in Nat /\ 0 < nextSeq
      /\ changes \in Nat /\ watched \in [Tabs -> SUBSET Marks]
  BY DEF CallInv, QueueInv, TypeInv, TypeOK, StoreOK, ProcsOK, PeopleOK, Calls, Marks, Answers
<1>2. Changes \subseteq Processes /\ \A t \in Tabs : t \notin Changes /\ t # Nobody
  BY TabsAssumption DEF Processes
<1>3. \A c \in Changes : calls[c].outcome = "failed" =>
         call[c].outcome = "failed" \/ \A x \in queue' : x.seq # call[c].seq
  BY DEF Answers
<1>4. \A c \in Changes : c > changes => calls[c] = NoCall
  BY <1>1, <1>2 DEF CallInv, CallsKnown, Answers, NoCall
<1>5. CASE ~(rest = {} /\ p \in Changes)
  <2>1. call' = calls /\ watched' = watched
    BY <1>2, <1>5 DEF GoesOn
  <2>2. \A c \in Changes : pc'[c] = "done" <=> pc[c] = "done"
    BY <1>1, <1>2, <1>5 DEF GoesOn, CallInv, QueueInv, TypeInv, Wired
  <2>3. CallsKnown'
    BY <1>1, <1>4, <2>1 DEF CallInv, CallsKnown, GoneStays, Answers, Calls
  <2>4. FailedIsGone'
    BY <1>1, <1>3, <2>1, <2>2 DEF CallInv, CallsKnown, FailedIsGone, GoneStays, Answers, Calls, Find
  <2>5. \A t, s : Waiters(t, s)' = Waiters(t, s)
    BY <2>1, <2>2 DEF Waiters, Answers
  <2>6. MarksAwaited'
    BY <2>1, <2>5 DEF CallInv, MarksAwaited
  <2>. QED
    BY <2>1, <2>3, <2>4, <2>6 DEF FailedStays, Answers
<1>6. CASE rest = {} /\ p \in Changes
  <2>1. /\ pc' = [pc EXCEPT ![p] = "done"] /\ call' = Returned(p, calls)
        /\ watched' = [watched EXCEPT ![call[p].tab] = Unmarked(p)]
    BY <1>2, <1>6 DEF GoesOn
  <2>2. \A c \in Changes \ {p} : call'[c] = calls[c] /\ pc'[c] = pc[c]
    BY <1>1, <1>2, <2>1 DEF Returned, Calls
  <2>3. /\ pc'[p] = "done" /\ call'[p].seq = 0 /\ call'[p].tab = Nobody
        /\ calls[p].outcome = "failed" => call'[p].outcome = "failed"
    BY <1>1, <1>2, <1>6, <2>1 DEF Returned, Calls, NoCall
  <2>4. p <= changes /\ call[p].tab \in Tabs
    <3>1. call[p].tab \in Tabs
      BY <1>2, <1>6 DEF CallInv, QueueInv, TypeInv, Wired
    <3>. QED
      BY <1>1, <1>2, <1>6, <3>1 DEF CallInv, CallsKnown, NoCall, Changes
  <2>5. CallsKnown'
    <3>1. ASSUME NEW c \in Changes \ {p}
          PROVE  call'[c].seq < nextSeq' /\ (c > changes' => call'[c] = NoCall)
      BY <1>1, <1>4, <2>2 DEF CallInv, CallsKnown, GoneStays, Answers, Calls
    <3>2. call'[p].seq < nextSeq' /\ ~(p > changes')
      BY <1>1, <1>6, <2>3, <2>4 DEF GoneStays, Changes
    <3>. QED
      BY <3>1, <3>2 DEF CallsKnown
  <2>6. FailedIsGone'
    <3>1. ASSUME NEW c \in Changes, call'[c].outcome = "failed", pc'[c] # "done"
          PROVE  \A x \in queue' : x.seq # call'[c].seq
      <4>1. c # p /\ call'[c] = calls[c] /\ pc[c] # "done" /\ call'[c].seq = call[c].seq
        BY <2>2, <2>3, <3>1 DEF Answers
      <4>2. call[c].seq \in Nat /\ call[c].seq < nextSeq
        BY <1>1 DEF Calls, CallInv, CallsKnown
      <4>3. \A x \in queue' : x.seq # call[c].seq
        BY <1>3, <3>1, <4>1, <4>2 DEF CallInv, FailedIsGone, GoneStays, Find
      <4>. QED
        BY <4>1, <4>3
    <3>. QED
      BY <3>1 DEF FailedIsGone, Find
  <2>7. \A t \in Tabs : \A s : Waiters(t, s)' = Waiters(t, s) \ {p}
    BY <1>2, <2>2, <2>3 DEF Waiters, Answers
  <2>8. ASSUME NEW t \in Tabs, NEW w \in watched'[t] PROVE Waiters(t, w.seq)' # {}
    <3>1. w \in watched[t] /\ (t = call[p].tab => w \in Unmarked(p))
      BY <1>1, <2>1, <2>4, <2>8 DEF Unmarked
    <3>2. Waiters(t, w.seq) # {}
      BY <3>1 DEF CallInv, MarksAwaited
    <3>3. CASE p \notin Waiters(t, w.seq)
      BY <2>7, <3>2, <3>3
    <3>4. CASE p \in Waiters(t, w.seq)
      <4>1. t = call[p].tab /\ w.seq = call[p].seq
        BY <3>4 DEF Waiters
      <4>2. ~(Waiters(t, w.seq) \subseteq {p})
        BY <3>1, <4>1 DEF Unmarked
      <4>. QED
        BY <2>7, <4>2
    <3>. QED
      BY <3>3, <3>4
  <2>9. MarksAwaited'
    BY <2>8 DEF MarksAwaited
  <2>10. \A c \in Changes : calls[c].outcome = "failed" => call'[c].outcome = "failed"
    BY <2>2, <2>3
  <2>. QED
    BY <2>5, <2>6, <2>9, <2>10 DEF FailedStays, Answers
<1>. QED
  BY <1>5, <1>6

\* Settling the waiters of the entry that was sent gives such answers.
LEMMA SettledAnswers ==
    ASSUME CallInv, HeldInv, NEW p \in Processes, pc[p] \in {"sending", "asking"},
           NEW outcome \in Outcomes,
           outcome = "failed" => \A x \in queue' : x.seq # sending[p].entry.seq,
           NEW calls \in {Settled(TabOf(p), sending[p].entry.seq, outcome),
                          SettledBy(p, sending[p].entry, outcome), call}
    PROVE  Answers(calls)
<1>. DEFINE s == sending[p].entry.seq
<1>1. TypeInv /\ TypeOK /\ call \in Calls /\ TabOf(p) \in Tabs
  BY RunningTab DEF HeldInv, TypeInv, TypeOK, PeopleOK, Calls
<1>2. Find(s) # {}
  BY DEF HeldInv, EntryHeldWhileSending, Unchanged
<1>3. \A c \in Waiters(TabOf(p), s) : call[c].outcome # "failed"
  BY <1>2 DEF CallInv, FailedIsGone, Waiters
<1>4. CASE calls = call
  BY <1>1, <1>4 DEF Answers
<1>5. CASE calls = Settled(TabOf(p), s, outcome)
  <2>1. calls \in Calls
    BY <1>1, <1>5, SettledType
  <2>2. \A c \in Waiters(TabOf(p), s) : calls[c] = [call[c] EXCEPT !.outcome = outcome]
    BY <1>5 DEF Settled, Waiters
  <2>3. \A c \in Changes \ Waiters(TabOf(p), s) : calls[c] = call[c]
    BY <1>5 DEF Settled
  <2>4. \A c \in Waiters(TabOf(p), s) :
           c \in Changes /\ call[c].tab = TabOf(p) /\ call[c].seq = s
    BY DEF Waiters
  <2>5. \A c \in Waiters(TabOf(p), s) :
           /\ calls[c].tab = call[c].tab /\ calls[c].seq = call[c].seq
           /\ calls[c].outcome = outcome
    <3>. SUFFICES ASSUME NEW c \in Waiters(TabOf(p), s)
                  PROVE  /\ calls[c].tab = call[c].tab /\ calls[c].seq = call[c].seq
                         /\ calls[c].outcome = outcome
      OBVIOUS
    <3>1. call[c] \in [tab : Tabs \cup {Nobody}, seq : Nat, outcome : Outcomes]
      BY <1>1, <2>4 DEF Calls
    <3>2. calls[c] = [call[c] EXCEPT !.outcome = outcome]
      BY <2>2
    <3>. QED
      BY <3>1, <3>2
  <2>. HIDE DEF s
  <2>. QED
    BY <1>1, <1>3, <2>1, <2>3, <2>4, <2>5 DEF Answers, s
<1>6. CASE calls = SettledBy(p, sending[p].entry, outcome)
  BY <1>4, <1>5, <1>6 DEF SettledBy
<1>. QED
  BY <1>4, <1>5, <1>6

\* Steps that answer nobody and end no process.
LEMMA SameCalls ==
    ASSUME CallInv, GoneStays, UNCHANGED <<call, watched>>, changes <= changes', changes' \in Nat,
           \A c \in Changes : pc'[c] = "done" <=> pc[c] = "done"
    PROVE  CallsKnown' /\ FailedIsGone' /\ MarksAwaited' /\ FailedStays
<1>1. call \in Calls /\ changes \in Nat /\ nextSeq \in Nat
  BY DEF CallInv, QueueInv, TypeInv, TypeOK, PeopleOK, StoreOK, Calls
<1>2. CallsKnown'
  <2>. SUFFICES ASSUME NEW c \in Changes
                PROVE  call[c].seq < nextSeq' /\ (c > changes' => call[c] = NoCall)
    BY DEF CallsKnown
  <2>. QED
    BY <1>1 DEF CallInv, CallsKnown, GoneStays, Calls, Changes
<1>3. FailedIsGone'
  <2>. SUFFICES ASSUME NEW c \in Changes, call[c].outcome = "failed", pc[c] # "done"
                PROVE  \A x \in queue' : x.seq # call[c].seq
    BY DEF FailedIsGone, Find
  <2>. QED
    BY <1>1 DEF CallInv, CallsKnown, FailedIsGone, GoneStays, Calls, Find
<1>4. MarksAwaited'
  <2>1. \A t, s : Waiters(t, s)' = Waiters(t, s)
    BY DEF Waiters
  <2>. QED
    BY <2>1 DEF CallInv, MarksAwaited
<1>. QED
  BY <1>2, <1>3, <1>4 DEF FailedStays

\* A change that was not made is no call, and waits for nothing.
LEMMA NewCall ==
    ASSUME CallInv, NewChange
    PROVE  /\ changes + 1 \in Changes /\ call[changes + 1] = NoCall
           /\ \A t \in Tabs : \A s : changes + 1 \notin Waiters(t, s)
<1>1. changes \in Nat /\ changes + 1 \in Changes
  BY BoundsAssumption DEF NewChange, Changes, CallInv, QueueInv, TypeInv, TypeOK, PeopleOK
<1>2. call[changes + 1] = NoCall
  BY <1>1 DEF CallInv, CallsKnown
<1>. QED
  BY <1>1, <1>2, TabsAssumption DEF Waiters, NoCall

LEMMA WatchesCalls ==
    ASSUME CallInv, GoneStays, NEW t \in Tabs, NEW s \in Nat, s < nextSeq', NEW alone,
           NewChange, Watches(t, s, alone)
    PROVE  CallsKnown' /\ FailedIsGone' /\ MarksAwaited' /\ FailedStays
<1>. DEFINE n == changes + 1
<1>1. /\ call \in Calls /\ changes \in Nat /\ nextSeq \in Nat /\ watched \in [Tabs -> SUBSET Marks]
      /\ pc \in [Processes -> {"idle", "queued", "flush", "sending", "asking", "resend", "done"}]
  BY DEF CallInv, QueueInv, TypeInv, TypeOK, PeopleOK, ProcsOK, StoreOK, Calls, Marks
<1>2. /\ n \in Changes /\ n \in Processes /\ call[n] = NoCall
      /\ \A u \in Tabs : \A r : n \notin Waiters(u, r)
  BY NewCall DEF Processes
<1>3. /\ call' = [call EXCEPT ![n] = [tab |-> t, seq |-> s, outcome |-> "none"]]
      /\ pc' = [pc EXCEPT ![n] = "queued"] /\ changes' = n
      /\ watched' = [watched EXCEPT ![t] = Marked(t, s, alone)]
  BY DEF Watches, NewChange
<1>. HIDE DEF n
<1>4. /\ \A c \in Changes \ {n} : call'[c] = call[c] /\ pc'[c] = pc[c]
      /\ call'[n] = [tab |-> t, seq |-> s, outcome |-> "none"] /\ pc'[n] = "queued"
  BY <1>1, <1>2, <1>3 DEF Calls, Processes
<1>5. CallsKnown'
  <2>1. ASSUME NEW c \in Changes \ {n}
        PROVE  call'[c].seq < nextSeq' /\ (c > changes' => call'[c] = NoCall)
    BY <1>1, <1>3, <1>4 DEF CallInv, CallsKnown, GoneStays, Calls, Changes, n
  <2>2. call'[n].seq < nextSeq' /\ ~(n > changes')
    BY <1>1, <1>2, <1>3, <1>4 DEF Changes
  <2>. QED
    BY <2>1, <2>2 DEF CallsKnown
<1>6. FailedIsGone'
  <2>1. ASSUME NEW c \in Changes, call'[c].outcome = "failed", pc'[c] # "done"
        PROVE  \A x \in queue' : x.seq # call'[c].seq
    <3>1. c # n
      BY <1>4, <2>1
    <3>. QED
      BY <1>1, <1>4, <2>1, <3>1
         DEF CallInv, CallsKnown, FailedIsGone, GoneStays, Calls, Find
  <2>. QED
    BY <2>1 DEF FailedIsGone, Find
<1>7. MarksAwaited'
  <2>1. n \in Waiters(t, s)'
    BY <1>2, <1>4 DEF Waiters
  <2>2. \A u \in Tabs : \A r : Waiters(u, r) \subseteq Waiters(u, r)'
    BY <1>2, <1>4 DEF Waiters
  <2>3. ASSUME NEW u \in Tabs, NEW w \in watched'[u] PROVE w \in watched[u] \/ (u = t /\ w.seq = s)
    BY <1>1, <1>3, <2>3 DEF Marked
  <2>. QED
    BY <2>1, <2>2, <2>3 DEF CallInv, MarksAwaited
<1>8. FailedStays
  BY <1>2, <1>4 DEF FailedStays, NoCall
<1>. QED
  BY <1>5, <1>6, <1>7, <1>8

LEMMA SubmitDropCalls ==
    ASSUME CallInv, GoneStays, NEW e \in Entities, SubmitDrop(e)
    PROVE  CallsKnown' /\ FailedIsGone' /\ MarksAwaited' /\ FailedStays
<1>. DEFINE n == changes + 1
<1>1. /\ call \in Calls /\ changes \in Nat /\ nextSeq \in Nat /\ 0 < nextSeq
      /\ pc \in [Processes -> {"idle", "queued", "flush", "sending", "asking", "resend", "done"}]
  BY DEF CallInv, QueueInv, TypeInv, TypeOK, PeopleOK, ProcsOK, StoreOK, Calls
<1>2. /\ n \in Changes /\ n \in Processes /\ call[n] = NoCall
      /\ \A u \in Tabs : \A r : n \notin Waiters(u, r)
  BY NewCall DEF Processes, SubmitDrop
<1>3. /\ call' = [call EXCEPT ![n].outcome = "dropped"] /\ pc' = [pc EXCEPT ![n] = "done"]
      /\ changes' = n /\ watched' = watched
  BY DEF SubmitDrop, NewChange
<1>. HIDE DEF n
<1>4. /\ \A c \in Changes \ {n} : call'[c] = call[c] /\ pc'[c] = pc[c]
      /\ call'[n].seq = 0 /\ call'[n].tab = Nobody /\ pc'[n] = "done"
  BY <1>1, <1>2, <1>3 DEF Calls, Processes, NoCall
<1>5. CallsKnown'
  <2>1. ASSUME NEW c \in Changes \ {n}
        PROVE  call'[c].seq < nextSeq' /\ (c > changes' => call'[c] = NoCall)
    BY <1>1, <1>3, <1>4 DEF CallInv, CallsKnown, GoneStays, Calls, Changes, n
  <2>2. call'[n].seq < nextSeq' /\ ~(n > changes')
    BY <1>1, <1>2, <1>3, <1>4 DEF Changes, GoneStays
  <2>. QED
    BY <2>1, <2>2 DEF CallsKnown
<1>6. FailedIsGone'
  <2>1. ASSUME NEW c \in Changes, call'[c].outcome = "failed", pc'[c] # "done"
        PROVE  \A x \in queue' : x.seq # call'[c].seq
    <3>1. c # n
      BY <1>4, <2>1
    <3>. QED
      BY <1>1, <1>4, <2>1, <3>1
         DEF CallInv, CallsKnown, FailedIsGone, GoneStays, Calls, Find
  <2>. QED
    BY <2>1 DEF FailedIsGone, Find
<1>7. MarksAwaited'
  <2>1. \A u \in Tabs : \A r : Waiters(u, r) \subseteq Waiters(u, r)'
    BY <1>2, <1>4 DEF Waiters
  <2>. QED
    BY <1>3, <2>1 DEF CallInv, MarksAwaited
<1>8. FailedStays
  BY <1>2, <1>4 DEF FailedStays, NoCall
<1>. QED
  BY <1>5, <1>6, <1>7, <1>8

LEMMA TabClosesCalls ==
    ASSUME CallInv, GoneStays, NEW t \in Tabs, TabCloses(t)
    PROVE  CallsKnown' /\ FailedIsGone' /\ MarksAwaited' /\ FailedStays
<1>1. /\ call \in Calls /\ changes \in Nat /\ nextSeq \in Nat /\ 0 < nextSeq
      /\ watched \in [Tabs -> SUBSET Marks]
  BY DEF CallInv, QueueInv, TypeInv, TypeOK, PeopleOK, StoreOK, Calls, Marks
<1>2. ASSUME NEW c \in Changes
      PROVE  \/ /\ c \in ProcessesOf(t) /\ call[c].tab = t /\ pc'[c] = "done"
                /\ call'[c].tab = Nobody /\ call'[c].seq = 0
                /\ call[c].outcome = "failed" => call'[c].outcome = "failed"
             \/ /\ call'[c] = call[c] /\ pc'[c] = pc[c]
                /\ call[c].tab = t => pc[c] \in {"idle", "done"}
  <2>1. c \in Processes /\ c \notin Tabs
    BY TabsAssumption DEF Processes
  <2>2. CASE c \in ProcessesOf(t)
    <3>1. call[c].tab = t /\ pc'[c] = "done"
      BY <2>1, <2>2 DEF TabCloses, ProcessesOf, TabOf
    <3>2. call'[c] = [NoCall EXCEPT !.outcome =
                         IF call[c].outcome = "none" THEN "crashed" ELSE call[c].outcome]
      BY <2>2 DEF TabCloses
    <3>. QED
      BY <2>2, <3>1, <3>2 DEF NoCall
  <2>3. CASE c \notin ProcessesOf(t)
    BY <2>1, <2>3 DEF TabCloses, ProcessesOf, TabOf
  <2>. QED
    BY <2>2, <2>3
<1>3. changes' = changes /\ nextSeq' = nextSeq /\ queue' = queue
      /\ watched' = [watched EXCEPT ![t] = {}]
  BY DEF TabCloses, store
<1>4. \A c \in Changes : call[c].tab \in Tabs => ~(c > changes)
  BY TabsAssumption DEF CallInv, CallsKnown, NoCall
<1>5. CallsKnown'
  BY <1>1, <1>2, <1>3, <1>4 DEF CallInv, CallsKnown
<1>6. FailedIsGone'
  <2>1. ASSUME NEW c \in Changes, call'[c].outcome = "failed", pc'[c] # "done"
        PROVE  \A x \in queue' : x.seq # call'[c].seq
    BY <1>2, <1>3, <2>1 DEF CallInv, FailedIsGone, Find
  <2>. QED
    BY <2>1 DEF FailedIsGone, Find
<1>7. MarksAwaited'
  <2>1. \A u \in Tabs \ {t} : \A s : Waiters(u, s) \subseteq Waiters(u, s)'
    BY <1>2 DEF Waiters
  <2>. QED
    BY <1>1, <1>3, <2>1 DEF CallInv, MarksAwaited
<1>8. FailedStays
  BY <1>2 DEF FailedStays
<1>. QED
  BY <1>5, <1>6, <1>7, <1>8

-----------------------------------------------------------------------------
\* Some send went out under key k with the text of change c.
SentUnder(k, c) == \E m \in sent : m.key = k /\ m.payload = c

\* The entry that was sent waits in the queue as it went out.
SentIsQueued ==
    \A p \in Processes : pc[p] \in {"sending", "asking"} =>
        /\ sending[p].entry \in queue
        /\ ~sending[p].entry.conflicted
        /\ CommandOf(sending[p].entry) \in sent

\* A send whose answer some call reads has such a call.
SendAwaited ==
    \A p \in Processes : pc[p] = "sending" /\ sending[p].wants =>
        Waiters(TabOf(p), sending[p].entry.seq) # {}

\* Only commands that went out travel, and an applied key is one whose text took effect.
AppliedLanded ==
    /\ inFlight \subseteq sent
    /\ \A k \in applied : \E c \in landed : SentUnder(k, c)

\* A conflict, and the card a screen shows of it, are about a command that went out.
ConflictsWereSent ==
    /\ \A x \in queue : x.conflicted => SentUnder(x.key, x.payload)
    /\ \A card \in cards : SentUnder(card.key, card.payload)

LossInv ==
    /\ CallInv /\ HeldInv
    /\ SentIsQueued /\ SendAwaited /\ AppliedLanded /\ ConflictsWereSent
    /\ NoSilentLoss

Told == \E d \in Changes : call[d].outcome = "failed"

\* What a step does to the commands that went out and to what is said of them.
SentStep ==
    /\ sent \subseteq sent' /\ landed \subseteq landed' /\ inFlight' \subseteq inFlight \cup sent'
    /\ \A k \in applied' : k \in applied \/ \E m \in sent' : m.key = k /\ m.payload \in landed'
    /\ \A x \in queue' : x.conflicted =>
          x \in queue \/ \E m \in sent' : m.key = x.key /\ m.payload = x.payload
    /\ \A card \in cards' :
          card \in cards \/ \E m \in sent' : m.key = card.key /\ m.payload = card.payload

\* What a step does to the change a person wants of an entity: there is none any more, it was put
\* into the queue, or whatever held it still does.
KeepsWanted ==
    \A e \in Entities :
        \/ wanted'[e] = 0
        \/ \E y \in queue' : y.entity = e /\ y.payload = wanted'[e]
        \/ /\ wanted'[e] = wanted[e]
           /\ \A x \in EntryOf(e) : x.payload = wanted[e] =>
                 \/ x.payload \in landed' \/ Told'
                 \/ \E y \in queue' : y.entity = e /\ y.payload = x.payload

SendsAfter == SentIsQueued' /\ SendAwaited'

\* The invariant after a step, from what the step does to its parts.
LEMMA LossAfter ==
    ASSUME LossInv, HeldInv', QueueInv', CallsKnown', FailedIsGone', MarksAwaited',
           FailedStays, SentStep, SendsAfter, OneCommandPerKey => KeepsWanted
    PROVE  LossInv'
<1>1. AppliedLanded'
  <2>1. inFlight' \subseteq sent'
    BY DEF LossInv, AppliedLanded, SentStep
  <2>2. ASSUME NEW k \in applied' PROVE \E m \in sent' : m.key = k /\ m.payload \in landed'
    BY DEF LossInv, AppliedLanded, SentStep, SentUnder
  <2>. QED
    BY <2>1, <2>2 DEF AppliedLanded, SentUnder
<1>2. ConflictsWereSent'
  BY DEF LossInv, ConflictsWereSent, SentStep, SentUnder
<1>3. NoSilentLoss'
  <2>. SUFFICES ASSUME OneCommandPerKey', NEW e \in Entities, NEW c \in Changes, wanted'[e] = c
                PROVE  Kept(e, c)' \/ Told'
    BY DEF NoSilentLoss, Told
  <2>1. OneCommandPerKey
    BY DEF OneCommandPerKey, SentStep
  <2>2. c # 0
    BY DEF Changes
  <2>3. CASE \E y \in queue' : y.entity = e /\ y.payload = c
    BY <2>3 DEF Kept, EntryOf
  <2>4. CASE /\ wanted[e] = c
             /\ \A x \in EntryOf(e) : x.payload = c =>
                   \/ x.payload \in landed' \/ Told'
                   \/ \E y \in queue' : y.entity = e /\ y.payload = x.payload
    <3>1. Kept(e, c) \/ Told
      BY <2>1, <2>4 DEF LossInv, NoSilentLoss, Told
    <3>2. Told => Told'
      BY DEF Told, FailedStays
    <3>3. c \in landed => c \in landed'
      BY DEF SentStep
    <3>. QED
      BY <2>4, <3>1, <3>2, <3>3 DEF Kept, EntryOf
  <2>. QED
    BY <2>1, <2>2, <2>3, <2>4 DEF KeepsWanted
<1>. QED
  BY <1>1, <1>2, <1>3 DEF LossInv, CallInv, SendsAfter

\* When nobody waits for the network after the step, nothing is to be said of the sends.
LEMMA CalmSends ==
    ASSUME Calm'
    PROVE  SendsAfter
  BY DEF Calm, Busy, SendsAfter, SentIsQueued, SendAwaited

\* An entry saved in place of x, or removed: every other entry stays.
LEMMA SavesOne ==
    ASSUME QueueInv, NEW x \in queue, NEW y, y.seq = x.seq, queue' = Saved(y)
    PROVE  /\ y \in queue' /\ (\A z \in queue' : z = y \/ z \in queue)
           /\ \A z \in queue : z = x \/ z \in queue'
  BY DEF Saved, Find, QueueInv, Distinct

LEMMA RemovesOne ==
    ASSUME QueueInv, NEW x \in queue, Removes(x.seq)
    PROVE  queue' \subseteq queue /\ x \notin queue' /\ \A z \in queue : z = x \/ z \in queue'
  BY DEF Removes, Dropped, Find, QueueInv, Distinct

\* A step that leaves the queue, the wishes and what took effect.
LEMMA StillLoss ==
    ASSUME UNCHANGED <<queue, cards, wanted, sent, landed, applied>>, inFlight' \subseteq inFlight
    PROVE  SentStep /\ KeepsWanted
  BY DEF SentStep, KeepsWanted, EntryOf

\* A person's change that is merged into x, or takes a change of x back.
LEMMA EditLoss ==
    ASSUME QueueInv, NEW x \in queue, NEW y \in Entries, y.seq = x.seq, y.entity = x.entity,
           ~y.conflicted, Saves(y), wanted \in [Entities -> 0 .. MaxChanges],
           wanted' = [wanted EXCEPT ![x.entity] = y.payload],
           UNCHANGED <<cards, network, sent, landed>>
    PROVE  SentStep /\ KeepsWanted
<1>1. /\ y \in queue' /\ (\A z \in queue' : z = y \/ z \in queue)
      /\ \A z \in queue : z = x \/ z \in queue'
  BY SavesOne DEF Saves
<1>2. SentStep
  BY <1>1 DEF SentStep, network
<1>3. KeepsWanted
  BY <1>1 DEF KeepsWanted, EntryOf
<1>. QED
  BY <1>2, <1>3

\* A change whose entry is taken out of the queue by the person.
LEMMA DropLoss ==
    ASSUME QueueInv, NEW x \in queue, Removes(x.seq), wanted \in [Entities -> 0 .. MaxChanges],
           wanted' = [wanted EXCEPT ![x.entity] = 0],
           UNCHANGED <<cards, network, sent, landed>>
    PROVE  SentStep /\ KeepsWanted
<1>1. queue' \subseteq queue /\ \A z \in queue : z = x \/ z \in queue'
  BY RemovesOne
<1>2. SentStep
  BY <1>1 DEF SentStep, network
<1>3. KeepsWanted
  BY <1>1 DEF KeepsWanted, EntryOf
<1>. QED
  BY <1>2, <1>3

\* The entry that was sent leaves the queue: its text took effect, or its refusal was told.
LEMMA SenderLoss ==
    ASSUME QueueInv, SentIsQueued, NEW p \in Processes, pc[p] \in {"sending", "asking"},
           Removes(sending[p].entry.seq), UNCHANGED wanted,
           OneCommandPerKey => sending[p].entry.payload \in landed' \/ Told'
    PROVE  queue' \subseteq queue /\ (OneCommandPerKey => KeepsWanted)
<1>. DEFINE x == sending[p].entry
<1>1. x \in queue
  BY DEF SentIsQueued
<1>2. queue' \subseteq queue /\ \A z \in queue : z = x \/ z \in queue'
  BY <1>1, RemovesOne
<1>. QED
  BY <1>2 DEF KeepsWanted, EntryOf

\* The entry that was sent is saved with the same text.
LEMMA SenderKeepsText ==
    ASSUME QueueInv, NEW x \in queue, NEW y, y.seq = x.seq, y.entity = x.entity,
           y.payload = x.payload, queue' = Saved(y), UNCHANGED wanted
    PROVE  KeepsWanted /\ \A z \in queue' : z = y \/ z \in queue
<1>1. /\ y \in queue' /\ (\A z \in queue' : z = y \/ z \in queue)
      /\ \A z \in queue : z = x \/ z \in queue'
  BY SavesOne
<1>. QED
  BY <1>1 DEF KeepsWanted, EntryOf

\* A command that went out takes effect, now or before: under one command per key, with its text.
LEMMA TakesEffectLands ==
    ASSUME AppliedLanded, NEW m \in sent, TakesEffect(m), UNCHANGED sent
    PROVE  /\ landed \subseteq landed'
           /\ \A k \in applied' :
                 k \in applied \/ \E n \in sent' : n.key = k /\ n.payload \in landed'
           /\ OneCommandPerKey => m.payload \in landed'
<1>1. landed \subseteq landed' /\ applied' = applied \cup {m.key}
  BY DEF TakesEffect
<1>2. CASE m.key \in applied
  <2>1. PICK c \in landed : SentUnder(m.key, c)
    BY <1>2 DEF AppliedLanded
  <2>2. OneCommandPerKey => m.payload = c
    BY <2>1 DEF OneCommandPerKey, SentUnder
  <2>. QED
    BY <1>1, <1>2, <2>1, <2>2
<1>3. CASE m.key \notin applied
  <2>1. m.payload \in landed'
    BY <1>3 DEF TakesEffect
  <2>. QED
    BY <1>1, <2>1
<1>. QED
  BY <1>2, <1>3

-----------------------------------------------------------------------------
CallsAfter == CallsKnown' /\ FailedIsGone' /\ MarksAwaited' /\ FailedStays

\* What an edit makes of an entry: the new text, and no conflict.
LEMMA MergedText ==
    ASSUME NEW x \in Entries, NEW payload
    PROVE  /\ WithUpdate(x, payload).payload = payload /\ ~WithUpdate(x, payload).conflicted
           /\ WithDelete(x, payload).payload = payload /\ ~WithDelete(x, payload).conflicted
           /\ Mine(x, payload).payload = payload /\ ~Mine(x, payload).conflicted
           /\ StepBack(x).conflicted = x.conflicted
  BY DEF WithUpdate, WithDelete, Renewed, Mine, StepBack, Entries

LEMMA SubmitLoss ==
    ASSUME LossInv, GoneStays, NEW t \in Tabs, NEW e \in Entities,
           \/ \E kind \in Kinds, version \in 0 .. server[e].ver : SubmitFirst(t, e, kind, version)
           \/ \E kind \in Kinds : SubmitIgnored(t, e, kind)
           \/ SubmitUpdate(t, e)
           \/ SubmitDelete(t, e)
    PROVE  SentStep /\ KeepsWanted /\ CallsAfter
<1>1. /\ CallInv /\ QueueInv /\ TypeInv
      /\ queue \subseteq Entries /\ nextKey \in Nat /\ nextSeq \in Nat
      /\ wanted \in [Entities -> 0 .. MaxChanges]
  BY DEF LossInv, CallInv, QueueInv, TypeInv, TypeOK, StoreOK, HistoryOK
<1>2. ASSUME NEW x \in queue
      PROVE  x \in Entries /\ x.seq \in Nat /\ x.seq < nextSeq /\ x.seq < nextSeq'
  BY <1>1 DEF QueueInv, Numbered, Entries, GoneStays
<1>3. ASSUME NEW s, NEW alone, Watches(t, s, alone)
      PROVE  UNCHANGED <<cards, network, sent, landed>>
  BY <1>3 DEF Watches
<1>4. ASSUME NEW kind \in Kinds, NEW version \in 0 .. server[e].ver,
             SubmitFirst(t, e, kind, version)
      PROVE  SentStep /\ KeepsWanted /\ CallsAfter
  <2>. DEFINE y == FirstEntry(e, kind, version, changes + 1)
  <2>1. y.entity = e /\ y.payload = changes + 1 /\ ~y.conflicted
    BY DEF FirstEntry
  <2>2. /\ NewChange /\ EntryOf(e) = {} /\ queue' = queue \cup {y} /\ nextSeq' = nextSeq + 1
        /\ Watches(t, nextSeq, TRUE) /\ wanted' = [wanted EXCEPT ![e] = changes + 1]
    BY <1>4 DEF SubmitFirst
  <2>. HIDE DEF y
  <2>3. UNCHANGED <<cards, network, sent, landed>>
    BY <1>3, <2>2
  <2>4. SentStep
    BY <2>1, <2>2, <2>3 DEF SentStep, network
  <2>5. KeepsWanted
    BY <1>1, <2>1, <2>2 DEF KeepsWanted, EntryOf
  <2>6. nextSeq < nextSeq'
    BY <1>1, <2>2
  <2>. QED
    BY <1>1, <2>2, <2>4, <2>5, <2>6, WatchesCalls DEF CallsAfter
<1>5. ASSUME NEW kind \in Kinds, SubmitIgnored(t, e, kind)
      PROVE  SentStep /\ KeepsWanted /\ CallsAfter
  <2>1. PICK x \in EntryOf(e) : Watches(t, x.seq, FALSE)
    BY <1>5 DEF SubmitIgnored
  <2>2. x \in queue /\ NewChange /\ UNCHANGED <<store, wanted>>
    BY <1>5 DEF EntryOf, SubmitIgnored
  <2>3. UNCHANGED <<queue, cards, wanted, sent, landed, applied, inFlight>>
    BY <1>3, <2>1, <2>2 DEF store, network
  <2>. QED
    BY <1>1, <1>2, <2>1, <2>2, <2>3, WatchesCalls, StillLoss DEF CallsAfter
<1>6. CASE SubmitUpdate(t, e)
  <2>1. PICK x \in EntryOf(e) : Saves(WithUpdate(x, changes + 1)) /\ Watches(t, x.seq, FALSE)
    BY <1>6 DEF SubmitUpdate
  <2>2. x \in queue /\ x.entity = e /\ NewChange
    BY <1>6 DEF EntryOf, SubmitUpdate
  <2>3. changes + 1 \in Changes
    BY <1>1, <2>2, NewCall
  <2>. DEFINE y == WithUpdate(x, changes + 1)
  <2>4. /\ y \in Entries /\ y.seq = x.seq /\ y.entity = x.entity
        /\ ~y.conflicted /\ y.payload = changes + 1
    BY <1>1, <1>2, <2>2, <2>3, WithUpdateType, MergedPlace, MergedText
  <2>5. Saves(y) /\ wanted' = [wanted EXCEPT ![x.entity] = changes + 1]
    BY <1>6, <2>1, <2>2 DEF SubmitUpdate
  <2>. HIDE DEF y
  <2>6. SentStep /\ KeepsWanted
    BY <1>1, <1>3, <2>1, <2>2, <2>4, <2>5, EditLoss
  <2>. QED
    BY <1>1, <1>2, <2>1, <2>2, <2>6, WatchesCalls DEF CallsAfter
<1>7. CASE SubmitDelete(t, e)
  <2>1. PICK x \in EntryOf(e) : Saves(WithDelete(x, changes + 1)) /\ Watches(t, x.seq, FALSE)
    BY <1>7 DEF SubmitDelete
  <2>2. x \in queue /\ x.entity = e /\ NewChange
    BY <1>7 DEF EntryOf, SubmitDelete
  <2>3. changes + 1 \in Changes
    BY <1>1, <2>2, NewCall
  <2>. DEFINE y == WithDelete(x, changes + 1)
  <2>4. /\ y \in Entries /\ y.seq = x.seq /\ y.entity = x.entity
        /\ ~y.conflicted /\ y.payload = changes + 1
    BY <1>1, <1>2, <2>2, <2>3, WithDeleteType, MergedPlace, MergedText
  <2>5. Saves(y) /\ wanted' = [wanted EXCEPT ![x.entity] = changes + 1]
    BY <1>7, <2>1, <2>2 DEF SubmitDelete
  <2>. HIDE DEF y
  <2>6. SentStep /\ KeepsWanted
    BY <1>1, <1>3, <2>1, <2>2, <2>4, <2>5, EditLoss
  <2>. QED
    BY <1>1, <1>2, <2>1, <2>2, <2>6, WatchesCalls DEF CallsAfter
<1>. QED
  BY <1>4, <1>5, <1>6, <1>7

LEMMA SubmitDropLoss ==
    ASSUME LossInv, GoneStays, NEW e \in Entities, SubmitDrop(e)
    PROVE  SentStep /\ KeepsWanted /\ CallsAfter
<1>1. CallInv /\ QueueInv /\ wanted \in [Entities -> 0 .. MaxChanges]
  BY DEF LossInv, CallInv, QueueInv, TypeInv, TypeOK, HistoryOK
<1>2. PICK x \in EntryOf(e) : Removes(x.seq)
  BY DEF SubmitDrop
<1>3. x \in queue /\ x.entity = e
  BY DEF EntryOf
<1>4. SentStep /\ KeepsWanted
  BY <1>1, <1>2, <1>3, DropLoss DEF SubmitDrop
<1>. QED
  BY <1>1, <1>4, SubmitDropCalls DEF CallsAfter

\* What a person does with a waiting write: no call is answered.
LEMMA PersonLoss ==
    ASSUME LossInv, GoneStays, Settle \/ \E e \in Entities : Withdraw(e)
    PROVE  SentStep /\ (OneCommandPerKey => KeepsWanted) /\ CallsAfter
<1>1. /\ CallInv /\ QueueInv /\ queue \subseteq Entries /\ nextKey \in Nat
      /\ wanted \in [Entities -> 0 .. MaxChanges] /\ changes \in 0 .. MaxChanges
      /\ cards \subseteq Cards
  BY DEF LossInv, CallInv, QueueInv, TypeInv, TypeOK, StoreOK, PeopleOK, HistoryOK
<1>2. ASSUME NEW e \in Entities, Withdraw(e)
      PROVE  SentStep /\ KeepsWanted /\ CallsAfter
  <2>1. PICK x \in EntryOf(e) :
           /\ ~x.attempted /\ ~x.conflicted
           /\ \/ /\ x.before = <<>> /\ ~x.truncated
                 /\ Removes(x.seq)
                 /\ wanted' = [wanted EXCEPT ![e] = 0]
              \/ /\ x.before # <<>>
                 /\ Saves(StepBack(x))
                 /\ wanted' = [wanted EXCEPT ![e] = StepBack(x).payload]
    BY <1>2 DEF Withdraw
  <2>2. x \in queue /\ x \in Entries /\ x.entity = e
    BY <1>1 DEF EntryOf
  <2>3. UNCHANGED <<cards, network, sent, landed, changes, pc, call, watched>>
    BY <1>2 DEF Withdraw, people, procs
  <2>4. ASSUME Removes(x.seq), wanted' = [wanted EXCEPT ![e] = 0]
        PROVE  SentStep /\ KeepsWanted
    BY <1>1, <2>2, <2>3, <2>4, DropLoss
  <2>5. ASSUME x.before # <<>>, Saves(StepBack(x)),
               wanted' = [wanted EXCEPT ![e] = StepBack(x).payload]
        PROVE  SentStep /\ KeepsWanted
    <3>. DEFINE y == StepBack(x)
    <3>1. y \in Entries /\ y.seq = x.seq /\ y.entity = x.entity /\ ~y.conflicted
      BY <2>1, <2>2, <2>5, StepBackType, SettledPlace, MergedText
    <3>2. Saves(y) /\ wanted' = [wanted EXCEPT ![x.entity] = y.payload]
      BY <2>2, <2>5
    <3>. HIDE DEF y
    <3>. QED
      BY <1>1, <2>2, <2>3, <3>1, <3>2, EditLoss
  <2>6. CallsAfter
    BY <1>1, <2>3, SameCalls DEF CallsAfter
  <2>. QED
    BY <2>1, <2>4, <2>5, <2>6
<1>3. ASSUME NEW card \in cards, NEW payload, KeepMine(card, payload)
      PROVE  SentStep /\ KeepsWanted /\ CallsAfter
  <2>1. payload \in Changes /\ changes <= changes' /\ changes' \in Nat
    BY <1>1, <1>3, BoundsAssumption DEF KeepMine, Cards, Changes
  <2>2. PICK x \in ConflictOf(card) :
           Saves(Mine(x, payload)) /\ wanted' = [wanted EXCEPT ![x.entity] = payload]
    BY <1>3 DEF KeepMine
  <2>3. x \in queue /\ x \in Entries
    BY <1>1 DEF ConflictOf, Find
  <2>4. UNCHANGED <<cards, network, sent, landed, pc, call, watched>>
    BY <1>3 DEF KeepMine, procs
  <2>. DEFINE y == Mine(x, payload)
  <2>5. /\ y \in Entries /\ y.seq = x.seq /\ y.entity = x.entity
        /\ ~y.conflicted /\ y.payload = payload
    BY <1>1, <2>1, <2>3, MineType, SettledPlace, MergedText
  <2>6. Saves(y)
    BY <2>2
  <2>. HIDE DEF y
  <2>7. SentStep /\ KeepsWanted
    BY <1>1, <2>2, <2>3, <2>4, <2>5, <2>6, EditLoss
  <2>. QED
    BY <1>1, <2>1, <2>4, <2>7, SameCalls DEF CallsAfter
<1>4. ASSUME NEW card \in cards, UseTheirs(card)
      PROVE  SentStep /\ (OneCommandPerKey => KeepsWanted) /\ CallsAfter
  <2>1. PICK x \in ConflictOf(card) :
           /\ Removes(x.seq)
           /\ wanted' = [wanted EXCEPT ![x.entity] =
                 IF wanted[x.entity] = card.payload THEN 0 ELSE wanted[x.entity]]
    BY <1>4 DEF UseTheirs
  <2>2. x \in queue /\ x \in Entries /\ x.conflicted /\ x.key = card.key
    BY <1>1 DEF ConflictOf, Find
  <2>3. UNCHANGED <<cards, network, sent, landed, changes, pc, call, watched>>
    BY <1>4 DEF UseTheirs, people, procs
  <2>4. SentUnder(x.key, x.payload) /\ SentUnder(card.key, card.payload)
    BY <2>2 DEF LossInv, ConflictsWereSent
  <2>5. OneCommandPerKey => x.payload = card.payload
    BY <2>2, <2>4 DEF OneCommandPerKey, SentUnder
  <2>6. queue' \subseteq queue /\ \A z \in queue : z = x \/ z \in queue'
    BY <1>1, <2>1, <2>2, RemovesOne
  <2>7. SentStep
    BY <2>3, <2>6 DEF SentStep, network
  <2>8. ASSUME OneCommandPerKey PROVE KeepsWanted
    <3>. SUFFICES ASSUME NEW e \in Entities, wanted'[e] # 0, NEW z \in EntryOf(e),
                         z.payload = wanted[e]
                  PROVE  wanted'[e] = wanted[e] /\ z \in queue'
      BY <1>1, <2>1, <2>2 DEF KeepsWanted, EntryOf, Entries
    <3>1. z \in queue /\ z.entity = e
      BY DEF EntryOf
    <3>2. wanted'[e] = wanted[e]
      BY <1>1, <2>1
    <3>3. z # x
      BY <1>1, <2>1, <2>5, <2>8, <3>1
    <3>. QED
      BY <2>6, <3>1, <3>2, <3>3
  <2>. QED
    BY <1>1, <2>3, <2>7, <2>8, SameCalls DEF CallsAfter
<1>. QED
  BY <1>2, <1>3, <1>4 DEF Settle

-----------------------------------------------------------------------------
\* A step of a flush that only moves its process on.
LEMMA MovesOnLoss ==
    ASSUME LossInv, GoneStays, NEW p \in Processes, p \in Tabs \/ pc[p] \notin {"idle", "done"},
           NEW rest, GoesOn(p, rest, call),
           UNCHANGED <<store, changes, cards, network, history, events>>
    PROVE  SentStep /\ KeepsWanted /\ CallsAfter
<1>1. CallInv /\ Answers(call)
  BY DEF LossInv, CallInv, QueueInv, TypeInv, TypeOK, PeopleOK, Answers, Calls
<1>2. CallsAfter
  BY <1>1, GoesOnCalls DEF CallsAfter
<1>3. SentStep /\ KeepsWanted
  BY StillLoss DEF store, network, history
<1>. QED
  BY <1>2, <1>3

\* The process that starts a send marks the entry, and a call waits when the tab watches it.
LEMMA StartSendLoss ==
    ASSUME LossInv, GoneStays, NEW p \in Processes, NEW s \in todo[p], StartSend(p, s)
    PROVE  SentStep /\ KeepsWanted /\ CallsAfter /\ SendsAfter
<1>. DEFINE Y(z) == [z EXCEPT !.attempted = TRUE]
            M == {w \in watched[TabOf(p)] : w.seq = s}
            Q(z) == [entry |-> Y(z), wants |-> M # {}, failure |-> "none",
                     alone |-> z.before = <<>> /\ \E w \in M : w.alone]
<1>1. /\ CallInv /\ QueueInv /\ TypeInv /\ queue \subseteq Entries
      /\ pc \in [Processes -> {"idle", "queued", "flush", "sending", "asking", "resend", "done"}]
      /\ sending \in [Processes -> Sends \cup {Idle}] /\ changes \in Nat
  BY DEF LossInv, CallInv, QueueInv, TypeInv, TypeOK, StoreOK, ProcsOK, PeopleOK
<1>2. PICK x \in Find(s) :
         /\ ~x.conflicted
         /\ queue' = Saved(Y(x)) /\ sending' = [sending EXCEPT ![p] = Q(x)]
         /\ inFlight' = inFlight \cup {CommandOf(Y(x))} /\ sent' = sent \cup {CommandOf(Y(x))}
  BY Zenon DEF StartSend
<1>3. x \in queue /\ x \in Entries /\ x.seq = s
  BY <1>1 DEF Find
<1>4. /\ Y(x).seq = x.seq /\ Y(x).entity = x.entity /\ Y(x).payload = x.payload
      /\ ~Y(x).conflicted /\ Y(x) \in Entries
  BY <1>2, <1>3 DEF Entries
<1>5. Q(x).entry = Y(x) /\ Q(x).wants = (M # {})
  OBVIOUS
<1>. HIDE DEF Y, Q
<1>6. /\ pc' = [pc EXCEPT ![p] = "sending"]
      /\ UNCHANGED <<call, watched, changes, cards, applied, wanted, landed>>
  BY DEF StartSend, people
<1>7. MaySendOne(p)
  BY DEF StartSend
<1>8. CalmBut(p)
  BY <1>7, SenderIsAlone DEF LossInv
<1>9. SentStep /\ KeepsWanted /\ Y(x) \in queue'
  <2>1. KeepsWanted /\ \A z \in queue' : z = Y(x) \/ z \in queue
    BY <1>1, <1>2, <1>3, <1>4, <1>6, SenderKeepsText
  <2>2. SentStep
    BY <1>2, <1>4, <1>6, <2>1 DEF SentStep
  <2>. QED
    BY <1>2, <2>1, <2>2 DEF Saved
<1>10. \A q \in Processes \ {p} : pc'[q] \notin {"sending", "asking"}
  BY <1>1, <1>6, <1>8 DEF CalmBut, Busy
<1>11. pc'[p] = "sending" /\ sending'[p] = Q(x)
  BY <1>1, <1>2, <1>6
<1>12. SentIsQueued'
  BY <1>2, <1>4, <1>5, <1>9, <1>10, <1>11 DEF SentIsQueued
<1>13. pc[p] \in {"flush", "resend"}
  BY <1>7 DEF MaySendOne
<1>14. \A c \in Changes : pc'[c] = "done" <=> pc[c] = "done"
  BY <1>1, <1>6, <1>13 DEF Processes
<1>15. CallsAfter
  BY <1>1, <1>6, <1>14, SameCalls DEF CallsAfter
<1>16. TabOf(p) \in Tabs
  BY <1>1, <1>13, RunningTab
<1>17. M # {} => Waiters(TabOf(p), s)' # {}
  <2>1. M # {} => Waiters(TabOf(p), s) # {}
    BY <1>1, <1>16 DEF CallInv, MarksAwaited
  <2>. QED
    BY <1>6, <1>14, <2>1 DEF Waiters, TabOf
<1>18. SendAwaited'
  BY <1>3, <1>4, <1>5, <1>6, <1>10, <1>11, <1>17 DEF SendAwaited, TabOf
<1>. QED
  BY <1>9, <1>12, <1>15, <1>18 DEF SendsAfter

LEMMA FlushLoss ==
    ASSUME LossInv, GoneStays, NEW p \in Processes, FlushStep(p)
    PROVE  SentStep /\ KeepsWanted /\ CallsAfter /\ SendsAfter
<1>1. HeldInv /\ TypeInv
  BY DEF LossInv, HeldInv
<1>2. CASE Reload(p)
  <2>1. CalmBut(p)
    BY <1>1, <1>2, FreeIsCalm DEF Reload, Calm, CalmBut
  <2>2. SendsAfter
    BY <1>1, <1>2, <2>1, GoesOnCalm, CalmSends DEF Reload
  <2>3. p \in Tabs \/ pc[p] \notin {"idle", "done"}
    BY <1>2 DEF Reload
  <2>. QED
    BY <1>2, <2>2, <2>3, MovesOnLoss DEF Reload
<1>3. ASSUME NEW s \in todo[p], SkipEntry(p, s)
      PROVE  SentStep /\ KeepsWanted /\ CallsAfter /\ SendsAfter
  <2>1. MaySendOne(p) /\ pc[p] = "flush"
    BY <1>3 DEF SkipEntry, MaySendOne
  <2>2. SendsAfter
    BY <1>1, <1>3, <2>1, SenderIsAlone, GoesOnCalm, CalmSends DEF SkipEntry
  <2>. QED
    BY <1>3, <2>1, <2>2, MovesOnLoss DEF SkipEntry
<1>4. ASSUME NEW s \in todo[p], StopOffline(p, s)
      PROVE  SentStep /\ KeepsWanted /\ CallsAfter /\ SendsAfter
  <2>1. MaySendOne(p) /\ pc[p] \in {"flush", "resend"}
    BY <1>4 DEF StopOffline, MaySendOne
  <2>2. SendsAfter
    BY <1>1, <1>4, <2>1, SenderIsAlone, GoesOnCalm, CalmSends DEF StopOffline
  <2>. QED
    BY <1>4, <2>1, <2>2, MovesOnLoss DEF StopOffline
<1>. QED
  BY <1>2, <1>3, <1>4, StartSendLoss DEF FlushStep

\* Whoever waits for an answer waits alone, for an entry the queue holds.
LEMMA SenderKnown ==
    ASSUME LossInv, NEW p \in Processes, pc[p] \in {"sending", "asking"}
    PROVE  /\ CallInv /\ QueueInv /\ HeldInv /\ TypeInv /\ SentIsQueued /\ AppliedLanded
           /\ CalmBut(p) /\ Unchanged(sending[p].entry)
           /\ sending[p].entry \in queue /\ sending[p].entry \in Entries
           /\ CommandOf(sending[p].entry) \in sent
  BY BusyIsAlone, SenderType
     DEF LossInv, CallInv, HeldInv, SentIsQueued, EntryHeldWhileSending, Busy

\* The end of a send, for the processes and the calls.
LEMMA EndsCalls ==
    ASSUME LossInv, GoneStays, NEW p \in Processes, pc[p] \in {"sending", "asking"},
           NEW outcome \in Outcomes,
           outcome = "failed" => \A x \in queue' : x.seq # sending[p].entry.seq,
           NEW calls \in {Settled(TabOf(p), sending[p].entry.seq, outcome),
                          SettledBy(p, sending[p].entry, outcome), call},
           NEW rest, GoesOn(p, rest, calls), UNCHANGED changes
    PROVE  /\ CallsAfter /\ SendsAfter
           /\ \A c \in Changes : calls[c].outcome = "failed" => call'[c].outcome = "failed"
<1>1. CallInv /\ HeldInv /\ TypeInv /\ CalmBut(p)
  BY SenderKnown
<1>2. Answers(calls)
  BY <1>1, SettledAnswers
<1>3. SendsAfter
  BY <1>1, GoesOnCalm, CalmSends
<1>4. /\ CallsKnown' /\ FailedIsGone' /\ MarksAwaited' /\ FailedStays
      /\ \A c \in Changes : calls[c].outcome = "failed" => call'[c].outcome = "failed"
  BY <1>1, <1>2, GoesOnCalls
<1>. QED
  BY <1>3, <1>4 DEF CallsAfter

LEMMA SucceedsLoss ==
    ASSUME LossInv, GoneStays, NEW p \in Processes, SendSucceeds(p)
    PROVE  SentStep /\ (OneCommandPerKey => KeepsWanted) /\ CallsAfter /\ SendsAfter
<1>. DEFINE x == sending[p].entry
            m == CommandOf(x)
<1>1. /\ pc[p] = "sending" /\ TakesEffect(m) /\ (Unchanged(x) => Removes(x.seq))
      /\ GoesOn(p, AfterEntry(p, x), SettledBy(p, x, "sent"))
      /\ UNCHANGED <<changes, cards, sent, wanted>> /\ inFlight' = inFlight \ {m}
  BY DEF SendSucceeds, Answered
<1>2. /\ QueueInv /\ SentIsQueued /\ AppliedLanded /\ Unchanged(x) /\ m \in sent
  BY <1>1, SenderKnown
<1>3. CallsAfter /\ SendsAfter
  BY <1>1, EndsCalls DEF Outcomes
<1>4. m.payload = x.payload
  BY DEF CommandOf
<1>. HIDE DEF m
<1>5. /\ landed \subseteq landed'
      /\ \A k \in applied' :
            k \in applied \/ \E n \in sent' : n.key = k /\ n.payload \in landed'
      /\ OneCommandPerKey => m.payload \in landed'
  BY <1>1, <1>2, TakesEffectLands
<1>6. queue' \subseteq queue /\ (OneCommandPerKey => KeepsWanted)
  BY <1>1, <1>2, <1>4, <1>5, SenderLoss
<1>7. SentStep
  BY <1>1, <1>5, <1>6 DEF SentStep
<1>. QED
  BY <1>3, <1>6, <1>7

LEMMA DeleteOfGoneLoss ==
    ASSUME LossInv, GoneStays, NEW p \in Processes, RefusedDeleteOfGone(p)
    PROVE  SentStep /\ (OneCommandPerKey => KeepsWanted) /\ CallsAfter /\ SendsAfter
<1>. DEFINE x == sending[p].entry
<1>1. /\ pc[p] = "sending" /\ Removes(x.seq)
      /\ GoesOn(p, AfterEntry(p, x), SettledBy(p, x, "sent"))
      /\ landed' = landed \cup {x.payload}
      /\ UNCHANGED <<changes, cards, sent, applied, wanted>> /\ inFlight' \subseteq inFlight
  BY DEF RefusedDeleteOfGone, Answered
<1>2. QueueInv /\ SentIsQueued
  BY <1>1, SenderKnown
<1>3. CallsAfter /\ SendsAfter
  BY <1>1, EndsCalls DEF Outcomes
<1>4. queue' \subseteq queue /\ (OneCommandPerKey => KeepsWanted)
  BY <1>1, <1>2, SenderLoss
<1>5. SentStep
  BY <1>1, <1>4 DEF SentStep
<1>. QED
  BY <1>3, <1>4, <1>5

LEMMA OwnCreateLoss ==
    ASSUME LossInv, GoneStays, NEW p \in Processes, RefusedOwnCreate(p)
    PROVE  SentStep /\ KeepsWanted /\ CallsAfter /\ SendsAfter
<1>. DEFINE x == sending[p].entry
            y == [x EXCEPT !.kind = "create", !.base = 0, !.key = nextKey,
                           !.attempted = FALSE, !.ownCreate = FALSE]
<1>1. /\ pc[p] = "sending" /\ Saves(y) /\ pc' = [pc EXCEPT ![p] = "resend"]
      /\ UNCHANGED <<call, watched, changes, cards, sent, landed, applied, wanted>>
      /\ inFlight' \subseteq inFlight
  BY DEF RefusedOwnCreate, Answered, people, history
<1>2. /\ CallInv /\ QueueInv /\ CalmBut(p) /\ x \in queue /\ x \in Entries /\ ~x.conflicted
      /\ pc \in [Processes -> {"idle", "queued", "flush", "sending", "asking", "resend", "done"}]
      /\ changes \in Nat
  BY <1>1, SenderKnown DEF SentIsQueued, TypeInv, TypeOK, ProcsOK, PeopleOK
<1>3. y.seq = x.seq /\ y.entity = x.entity /\ y.payload = x.payload /\ ~y.conflicted
  BY <1>2 DEF Entries
<1>. HIDE DEF y
<1>4. KeepsWanted /\ \A z \in queue' : z = y \/ z \in queue
  BY <1>1, <1>2, <1>3, SenderKeepsText DEF Saves
<1>5. SentStep
  BY <1>1, <1>3, <1>4 DEF SentStep
<1>6. \A q \in Processes : pc'[q] \notin {"sending", "asking"}
  BY <1>1, <1>2 DEF CalmBut, Busy
<1>7. \A c \in Changes : pc'[c] = "done" <=> pc[c] = "done"
  BY <1>1, <1>2 DEF Processes
<1>8. CallsAfter
  BY <1>1, <1>2, <1>7, SameCalls DEF CallsAfter
<1>. QED
  BY <1>4, <1>5, <1>6, <1>8 DEF SendsAfter, SentIsQueued, SendAwaited

\* A refusal that is dropped with its entry is told to a call that waits.
LEMMA AloneLoss ==
    ASSUME LossInv, GoneStays, NEW p \in Processes, NEW failure \in Refusals,
           RefusedAlone(p, failure)
    PROVE  SentStep /\ (OneCommandPerKey => KeepsWanted) /\ CallsAfter /\ SendsAfter
<1>. DEFINE x == sending[p].entry
            calls == Settled(TabOf(p), x.seq, "failed")
<1>1. /\ pc[p] = "sending" /\ sending[p].wants /\ Removes(x.seq)
      /\ GoesOn(p, AfterEntry(p, x), calls)
      /\ UNCHANGED <<changes, cards, sent, applied, wanted, landed>> /\ inFlight' \subseteq inFlight
  BY DEF RefusedAlone, Refusable, ShownAlone, Answered
<1>2. /\ QueueInv /\ SentIsQueued /\ TypeInv /\ x \in queue
  BY <1>1, SenderKnown
<1>3. \A z \in queue' : z.seq # x.seq
  BY <1>1, <1>2 DEF Removes, Dropped, Find
<1>4. /\ CallsAfter /\ SendsAfter
      /\ \A c \in Changes : calls[c].outcome = "failed" => call'[c].outcome = "failed"
  BY <1>1, <1>3, EndsCalls DEF Outcomes
<1>5. PICK c \in Waiters(TabOf(p), x.seq) : TRUE
  BY <1>1 DEF LossInv, SendAwaited
<1>6. c \in Changes /\ calls[c].outcome = "failed"
  <2>1. c \in Changes
    BY DEF Waiters
  <2>2. calls[c] = [call[c] EXCEPT !.outcome = "failed"]
    BY <2>1 DEF Settled
  <2>3. call[c] \in [tab : Tabs \cup {Nobody}, seq : Nat, outcome : Outcomes]
    BY <1>2, <2>1 DEF TypeInv, TypeOK, PeopleOK
  <2>. HIDE DEF calls
  <2>. QED
    BY <2>1, <2>2, <2>3
<1>7. Told'
  BY <1>4, <1>6 DEF Told
<1>8. queue' \subseteq queue /\ (OneCommandPerKey => KeepsWanted)
  BY <1>1, <1>2, <1>7, SenderLoss
<1>9. SentStep
  BY <1>1, <1>8 DEF SentStep
<1>. QED
  BY <1>4, <1>8, <1>9

LEMMA StaleLoss ==
    ASSUME LossInv, GoneStays, NEW p \in Processes, NEW failure \in Refusals,
           RefusedStale(p, failure)
    PROVE  SentStep /\ KeepsWanted /\ CallsAfter /\ SendsAfter
<1>1. /\ pc[p] = "sending" /\ pc' = [pc EXCEPT ![p] = "asking"]
      /\ sending' = [sending EXCEPT ![p] = [sending[p] EXCEPT !.failure = failure]]
      /\ UNCHANGED <<queue, call, watched, changes, cards, sent, landed, applied, wanted>>
      /\ inFlight' \subseteq inFlight
  BY DEF RefusedStale, Refusable, Answered, store, people, history
<1>2. /\ CallInv /\ CalmBut(p) /\ sending[p] \in Sends
      /\ sending \in [Processes -> Sends \cup {Idle}] /\ changes \in Nat
      /\ pc \in [Processes -> {"idle", "queued", "flush", "sending", "asking", "resend", "done"}]
  BY <1>1, SenderKnown, SenderType DEF TypeInv, TypeOK, ProcsOK, PeopleOK
<1>3. SentStep /\ KeepsWanted
  BY <1>1, StillLoss
<1>4. \A q \in Processes \ {p} : pc'[q] \notin {"sending", "asking"}
  BY <1>1, <1>2 DEF CalmBut, Busy
<1>5. pc'[p] = "asking" /\ sending'[p].entry = sending[p].entry
  BY <1>1, <1>2 DEF Sends
<1>6. SentIsQueued' /\ SendAwaited'
  BY <1>1, <1>4, <1>5 DEF LossInv, SentIsQueued, SendAwaited
<1>7. \A c \in Changes : pc'[c] = "done" <=> pc[c] = "done"
  BY <1>1, <1>2 DEF Processes
<1>8. CallsAfter
  BY <1>1, <1>2, <1>7, SameCalls DEF CallsAfter
<1>. QED
  BY <1>3, <1>6, <1>8 DEF SendsAfter

\* A conflict keeps the text, and was sent under its key.
LEMMA MarksConflictLoss ==
    ASSUME LossInv, GoneStays, NEW p \in Processes, pc[p] \in {"sending", "asking"},
           NEW reason, NEW version, MarksConflict(p, reason, version),
           UNCHANGED <<changes, applied, sent, wanted, landed>>, inFlight' \subseteq inFlight
    PROVE  SentStep /\ KeepsWanted /\ CallsAfter /\ SendsAfter
<1>. DEFINE x == sending[p].entry
            y == [x EXCEPT !.conflicted = TRUE, !.reason = reason, !.server = version]
            card == [seq |-> x.seq, key |-> x.key, payload |-> x.payload]
<1>1. /\ Saves(y) /\ GoesOn(p, AfterEntry(p, x), SettledBy(p, x, "conflict"))
      /\ cards' = cards \cup {card}
  BY DEF MarksConflict
<1>2. QueueInv /\ x \in queue /\ x \in Entries /\ CommandOf(x) \in sent
  BY SenderKnown
<1>3. /\ y.seq = x.seq /\ y.entity = x.entity /\ y.payload = x.payload /\ y.key = x.key
      /\ card.key = x.key /\ card.payload = x.payload
      /\ CommandOf(x).key = x.key /\ CommandOf(x).payload = x.payload
  BY <1>2 DEF Entries, CommandOf
<1>4. CallsAfter /\ SendsAfter
  BY <1>1, EndsCalls DEF Outcomes
<1>. HIDE DEF y, card
<1>5. KeepsWanted /\ \A z \in queue' : z = y \/ z \in queue
  BY <1>1, <1>2, <1>3, SenderKeepsText DEF Saves
<1>6. SentStep
  BY <1>1, <1>2, <1>3, <1>5 DEF SentStep
<1>. QED
  BY <1>4, <1>5, <1>6

LEMMA AnswerLoss ==
    ASSUME LossInv, GoneStays, NEW p \in Processes,
           \/ Answer(p) \/ SendUnreachable(p)
           \/ ServerFetched(p) \/ FetchUnreachable(p)
    PROVE  SentStep /\ (OneCommandPerKey => KeepsWanted) /\ CallsAfter /\ SendsAfter
<1>. DEFINE x == sending[p].entry
<1>1. CASE SendUnreachable(p) \/ FetchUnreachable(p)
  <2>1. /\ pc[p] \in {"sending", "asking"} /\ GoesOn(p, {}, call)
        /\ UNCHANGED <<store, changes, cards, network, history, events>>
    BY <1>1 DEF SendUnreachable, FetchUnreachable
  <2>2. SendsAfter
    BY <2>1, SenderKnown, GoesOnCalm, CalmSends
  <2>. QED
    BY <2>1, <2>2, MovesOnLoss
<1>2. CASE RefusedForGood(p)
  <2>1. /\ pc[p] = "sending" /\ MarksConflict(p, "rejected", 0)
        /\ UNCHANGED <<changes, applied, sent, wanted, landed>> /\ inFlight' \subseteq inFlight
    BY <1>2 DEF RefusedForGood, Refusable, Answered
  <2>. QED
    BY <2>1, MarksConflictLoss
<1>3. CASE ServerFetched(p)
  <2>1. pc[p] = "asking" /\ UNCHANGED <<changes, applied, sent, wanted, landed, inFlight>>
    BY <1>3 DEF ServerFetched, network
  <2>2. Unchanged(x)
    BY <2>1, SenderKnown
  <2>3. \E reason, version : MarksConflict(p, reason, version)
    BY <1>3, <2>2 DEF ServerFetched
  <2>. QED
    BY <2>1, <2>3, MarksConflictLoss
<1>. QED
  BY <1>1, <1>2, <1>3, SucceedsLoss, DeleteOfGoneLoss, OwnCreateLoss, AloneLoss, StaleLoss
     DEF Answer, Refuse

\* A closed tab ends its own calls and sends, and nothing of another tab.
LEMMA TabClosesLoss ==
    ASSUME LossInv, GoneStays, NEW t \in Tabs, TabCloses(t)
    PROVE  SentStep /\ KeepsWanted /\ CallsAfter /\ SendsAfter
<1>1. CallInv /\ TypeInv
  BY DEF LossInv, CallInv, QueueInv
<1>2. CallsAfter
  BY <1>1, TabClosesCalls DEF CallsAfter
<1>3. UNCHANGED <<queue, cards, wanted, sent, landed, applied, inFlight>>
  BY DEF TabCloses, store, network, history
<1>4. SentStep /\ KeepsWanted
  BY <1>3, StillLoss
<1>5. ASSUME NEW p \in Processes, pc'[p] \in {"sending", "asking"}
      PROVE  /\ pc'[p] = pc[p] /\ sending'[p] = sending[p]
             /\ TabOf(p)' = TabOf(p) /\ TabOf(p) \in Tabs \ {t}
  <2>1. p \notin ProcessesOf(t) /\ pc'[p] = pc[p] /\ sending'[p] = sending[p]
    BY <1>5 DEF TabCloses
  <2>2. TabOf(p)' = TabOf(p)
    BY <2>1 DEF TabCloses, TabOf, Processes
  <2>3. TabOf(p) \in Tabs
    BY <1>1, <1>5, <2>1, RunningTab
  <2>. QED
    BY <1>5, <2>1, <2>2, <2>3 DEF ProcessesOf
<1>6. \A u \in Tabs \ {t} : \A s : Waiters(u, s) \subseteq Waiters(u, s)'
  <2>. SUFFICES ASSUME NEW u \in Tabs \ {t}, NEW c \in Changes, call[c].tab = u
                PROVE  call'[c] = call[c] /\ pc'[c] = pc[c]
    BY DEF Waiters
  <2>1. c \in Processes /\ c \notin ProcessesOf(t)
    BY TabsAssumption DEF ProcessesOf, TabOf, Processes
  <2>. QED
    BY <2>1 DEF TabCloses
<1>7. SentIsQueued'
  BY <1>3, <1>5 DEF LossInv, SentIsQueued
<1>8. SendAwaited'
  <2>. SUFFICES ASSUME NEW p \in Processes, pc'[p] = "sending", sending'[p].wants
                PROVE  Waiters(TabOf(p), sending[p].entry.seq)' # {}
    BY DEF SendAwaited
  <2>1. Waiters(TabOf(p), sending[p].entry.seq) # {}
    BY <1>5 DEF LossInv, SendAwaited
  <2>2. Waiters(TabOf(p), sending[p].entry.seq) \subseteq
           Waiters(TabOf(p), sending[p].entry.seq)'
    BY <1>5, <1>6 DEF Waiters
  <2>. QED
    BY <2>1, <2>2
<1>. QED
  BY <1>2, <1>4, <1>7, <1>8 DEF SendsAfter

\* The environment's other steps: the server answers late, another device writes, or nothing.
LEMMA OutsideLoss ==
    ASSUME LossInv, GoneStays,
           \/ \E e \in Entities : OtherDevice(e)
           \/ \E m \in inFlight : LateArrival(m)
           \/ UNCHANGED vars
    PROVE  SentStep /\ KeepsWanted /\ CallsAfter /\ SendsAfter
<1>1. CallInv /\ changes \in Nat
  BY DEF LossInv, CallInv, QueueInv, TypeInv, TypeOK, PeopleOK
<1>2. UNCHANGED <<store, procs, people, sent, wanted>>
  BY DEF OtherDevice, LateArrival, vars, history
<1>3. SendsAfter
  BY <1>2 DEF LossInv, SendsAfter, SentIsQueued, SendAwaited, Waiters, TabOf, store, procs, people
<1>4. CallsAfter
  BY <1>1, <1>2, SameCalls DEF CallsAfter, procs, people
<1>5. UNCHANGED <<queue, cards>>
  BY <1>2 DEF store, people
<1>6. CASE UNCHANGED <<landed, applied, inFlight>>
  BY <1>2, <1>3, <1>4, <1>5, <1>6, StillLoss
<1>7. ASSUME NEW m \in inFlight, LateArrival(m)
      PROVE  SentStep /\ KeepsWanted
  <2>1. inFlight' = inFlight \ {m} /\ (TakesEffect(m) \/ UNCHANGED <<server, applied, landed>>)
    BY <1>7 DEF LateArrival
  <2>2. CASE UNCHANGED <<server, applied, landed>>
    BY <1>2, <1>5, <2>1, <2>2, StillLoss
  <2>3. CASE TakesEffect(m)
    <3>1. m \in sent /\ AppliedLanded
      BY DEF LossInv, AppliedLanded
    <3>2. /\ landed \subseteq landed'
          /\ \A k \in applied' :
                k \in applied \/ \E n \in sent' : n.key = k /\ n.payload \in landed'
      BY <1>2, <2>3, <3>1, TakesEffectLands
    <3>3. SentStep
      BY <1>2, <1>5, <2>1, <3>2 DEF SentStep
    <3>4. KeepsWanted
      BY <1>2, <1>5 DEF KeepsWanted, EntryOf
    <3>. QED
      BY <3>3, <3>4
  <2>. QED
    BY <2>1, <2>2, <2>3
<1>. QED
  BY <1>3, <1>4, <1>6, <1>7 DEF OtherDevice, vars, network, history

LEMMA LossInvNext == LossInv /\ [Next]_vars => LossInv'
<1>. SUFFICES ASSUME LossInv, [Next]_vars PROVE LossInv'
  OBVIOUS
<1>1. QueueInv /\ HeldInv /\ QueueInv' /\ HeldInv' /\ GoneStays
  BY QueueInvNext, HeldInvNext, QueueGoneStays DEF LossInv, CallInv
<1>2. SentStep /\ (OneCommandPerKey => KeepsWanted) /\ CallsAfter /\ SendsAfter
  <2>1. CASE Submit \/ Settle \/ \E e \in Entities : Withdraw(e)
    <3>1. SendsAfter
      BY <1>1, <2>1, CallerCalm, CalmSends
    <3>. QED
      BY <1>1, <2>1, <3>1, SubmitLoss, SubmitDropLoss, PersonLoss DEF Submit
  <2>2. ASSUME NEW p \in Processes, FlushStep(p)
        PROVE  SentStep /\ KeepsWanted /\ CallsAfter /\ SendsAfter
    BY <1>1, <2>2, FlushLoss
  <2>3. ASSUME NEW p \in Processes, \/ Answer(p) \/ SendUnreachable(p)
                                    \/ ServerFetched(p) \/ FetchUnreachable(p)
        PROVE  SentStep /\ (OneCommandPerKey => KeepsWanted) /\ CallsAfter /\ SendsAfter
    BY <1>1, <2>3, AnswerLoss
  <2>4. ASSUME NEW t \in Tabs, TabCloses(t)
        PROVE  SentStep /\ KeepsWanted /\ CallsAfter /\ SendsAfter
    BY <1>1, <2>4, TabClosesLoss
  <2>. QED
    BY <1>1, <2>1, <2>2, <2>3, <2>4, OutsideLoss DEF Next
<1>. QED
  BY <1>1, <1>2, LossAfter DEF CallsAfter

LEMMA LossInvInit == Init => LossInv
<1>. SUFFICES ASSUME Init PROVE LossInv
  OBVIOUS
<1>1. CallInv
  BY QueueInvInit DEF Init, CallInv, CallsKnown, FailedIsGone, MarksAwaited, NoCall
<1>2. SentIsQueued /\ SendAwaited /\ AppliedLanded /\ ConflictsWereSent
  BY DEF Init, SentIsQueued, SendAwaited, AppliedLanded, ConflictsWereSent
<1>3. NoSilentLoss
  BY DEF Init, NoSilentLoss, Changes
<1>. QED
  BY <1>1, <1>2, <1>3, HeldInvInit DEF LossInv

\* Nothing vanishes unnoticed, for every number of entities, tabs, changes and undo steps: the
\* change a person wants waits, took effect, or a call answered `failed`, as long as no key went out
\* with two texts.
THEOREM NothingVanishes == Spec => []NoSilentLoss
<1>1. LossInv => NoSilentLoss
  BY DEF LossInv
<1>. QED
  BY <1>1, LossInvInit, LossInvNext, PTL DEF Spec
=============================================================================
