---------------------------- MODULE Collections ----------------------------
(***************************************************************************)
(* Two collections behind one ordered flush (createCollections): a child's *)
(* write waits for the queued writes of the parents it refers to, and a    *)
(* reference to a parent that will never exist is removed from the queue.  *)
(* Pages share the stored queues and one lock; a send holds the lock, the   *)
(* news of a parent that is gone goes out after it was released.           *)
(*                                                                         *)
(* What happens to one entry is ClientOutbox's business: here a parent is  *)
(* a create, a child the references it and the edit behind it hold.        *)
(***************************************************************************)
EXTENDS Integers

CONSTANTS Pages,                   \* the tabs
          Parents, Children,
          MaxWrites, MaxTrouble    \* bounds: writes of the person; lost answers and closed tabs

NoHolder == "nobody"

ASSUME CollectionsAssumption ==
    /\ NoHolder \notin Pages
    /\ MaxWrites \in Nat /\ MaxTrouble \in Nat

VARIABLES
    parent,     \* the parents' queue: "none", "pending", or a conflict that a server's or no copy goes with
    started,    \* parents whose send was started: the server may have them
    child,      \* the children's queue
    server,     \* the parents the server has
    abandoned,  \* creates that left the queue unsent
    holder,     \* the tab that holds the lock in a send, or NoHolder
    tab,        \* where the flush of each tab is, and what its outboxes last read
    news,       \* abandoned parents whose references a tab has yet to remove
    kicked,     \* a tab must flush again
    asks,       \* the last flush of a tab asked its runner to try again
    closed,     \* history: tabs that were closed since the queues last changed hands
    lost,       \* history: parents whose news went with a closed tab
    early,      \* history: a child left with a reference to a parent still to come
    writes, trouble

collectionsVars == <<parent, started, child, server, abandoned, holder, tab, news, kicked, asks, closed,
          lost, early, writes, trouble>>

NoChild == [queued |-> FALSE, refs |-> {}, behind |-> {}, merged |-> FALSE, started |-> FALSE]

QueuedParents == {p \in Parents : parent[p] # "none"}
QueuedChildren == {c \in Children : child[c].queued}

Rest == [pc |-> "idle", todo |-> {}, after |-> {}, parents |-> {}, pending |-> {}, children |-> {},
         refs |-> [c \in Children |-> {}]]

CollectionsInit ==
    /\ parent = [p \in Parents |-> "none"] /\ started = {}
    /\ child = [c \in Children |-> NoChild]
    /\ server = {} /\ abandoned = {}
    /\ holder = NoHolder
    /\ tab = [t \in Pages |-> Rest]
    /\ news = [t \in Pages |-> {}]
    /\ kicked = {} /\ asks = {} /\ closed = {} /\ lost = {} /\ early = FALSE
    /\ writes = 0 /\ trouble = 0

LockFree == holder = NoHolder
Trouble == trouble < MaxTrouble /\ trouble' = trouble + 1

\* What a tab's outbox of a collection holds after it has read its store.
ReadParents(v, queue) ==
    [v EXCEPT !.parents = {p \in Parents : queue[p] # "none"},
              !.pending = {p \in Parents : queue[p] = "pending"}]
ReadChildren(v, queue) ==
    [v EXCEPT !.children = {c \in Children : queue[c].queued},
              !.refs = [c \in Children |-> queue[c].refs]]

(* What a person does.                                                     *)
Writes == LockFree /\ writes < MaxWrites /\ writes' = writes + 1

\* What a screen can refer to: what it shows is queued, on the server, or only just gone.
Shown == QueuedParents \cup server \cup UNION {news[t] : t \in Pages}

SubmitParent(t, p) ==
    /\ Writes /\ parent[p] = "none" /\ p \notin server \cup abandoned
    /\ parent' = [parent EXCEPT ![p] = "pending"]
    /\ tab' = [tab EXCEPT ![t] = ReadParents(@, parent')]
    /\ kicked' = kicked \cup {t}
    /\ UNCHANGED <<started, child, server, abandoned, holder, news, asks, closed, lost, early, trouble>>

\* A write of a child, or an edit merged into the one that waits.
SubmitChild(t, c, refs) ==
    /\ Writes /\ refs \subseteq Shown /\ ~child[c].merged
    /\ child' = [child EXCEPT ![c] =
                   [queued |-> TRUE, refs |-> refs, behind |-> child[c].refs,
                    merged |-> child[c].queued, started |-> FALSE]]
    /\ tab' = [tab EXCEPT ![t] = ReadChildren(@, child')]
    /\ kicked' = kicked \cup {t}
    /\ UNCHANGED <<parent, started, server, abandoned, holder, news, asks, closed, lost, early, trouble>>

\* Takes back the newest edit, which was not sent.
WithdrawChild(t, c) ==
    /\ Writes /\ child[c].queued /\ ~child[c].started
    /\ child' = [child EXCEPT ![c] =
                   IF @.merged THEN [NoChild EXCEPT !.queued = TRUE, !.refs = child[c].behind,
                                                    !.started = TRUE]
                   ELSE NoChild]
    /\ tab' = [tab EXCEPT ![t] = ReadChildren(@, child')]
    /\ kicked' = kicked \cup {t}
    /\ UNCHANGED <<parent, started, server, abandoned, holder, news, asks, closed, lost, early, trouble>>

Leaves(t, p) ==
    /\ parent' = [parent EXCEPT ![p] = "none"]
    /\ abandoned' = abandoned \cup {p}
    /\ news' = [news EXCEPT ![t] = @ \cup {p}]

\* A create is withdrawn, or deleted, before any send.
DropParent(t, p) ==
    /\ Writes /\ parent[p] = "pending" /\ p \notin started
    /\ Leaves(t, p)
    /\ tab' = [tab EXCEPT ![t] = ReadParents(@, parent')]
    /\ kicked' = kicked \cup {t}
    /\ UNCHANGED <<started, child, server, holder, asks, closed, lost, early, trouble>>

UseTheirs(t, p) ==
    /\ Writes /\ parent[p] \in {"rejected", "version"}
    /\ \/ /\ parent[p] = "rejected" /\ Leaves(t, p)
       \/ /\ parent[p] = "version"
          /\ parent' = [parent EXCEPT ![p] = "none"]
          /\ UNCHANGED <<abandoned, news>>
    /\ tab' = [tab EXCEPT ![t] = ReadParents(@, parent')]
    /\ kicked' = kicked \cup {t}
    /\ UNCHANGED <<started, child, server, holder, asks, closed, lost, early, trouble>>

\* A conflict is settled by sending the person's version, as it was or edited once more.
KeepMine(t, p) ==
    /\ Writes /\ parent[p] \in {"rejected", "version"}
    /\ parent' = [parent EXCEPT ![p] = "pending"]
    /\ tab' = [tab EXCEPT ![t] = ReadParents(@, parent')]
    /\ kicked' = kicked \cup {t}
    /\ UNCHANGED <<started, child, server, abandoned, holder, news, asks, closed, lost, early, trouble>>

\* The references are removed from what is queued and from the edits behind it.
Without(entry, p) == [entry EXCEPT !.refs = @ \ {p}, !.behind = @ \ {p}]

Reported(v, p) == [v EXCEPT !.after = @ \ {p}]

RemoveReferences(t, p) ==
    /\ LockFree /\ p \in news[t]
    /\ child' = [c \in Children |-> Without(child[c], p)]
    /\ news' = [news EXCEPT ![t] = @ \ {p}]
    /\ tab' = [tab EXCEPT ![t] = ReadChildren(Reported(@, p), child')]
    /\ UNCHANGED <<parent, started, server, abandoned, holder, kicked, asks, closed, lost, early, writes, trouble>>

-----------------------------------------------------------------------------
(* The flush: the parents' queue, then the children's.                     *)

FlushParents(t) ==
    /\ LockFree /\ tab[t].pc = "idle"
    /\ tab' = [tab EXCEPT ![t] = ReadParents([@ EXCEPT !.pc = "parents", !.todo = QueuedParents], parent)]
    /\ kicked' = kicked \ {t}
    /\ UNCHANGED <<parent, started, child, server, abandoned, holder, news, asks, closed, lost, early, writes, trouble>>

FlushChildren(t) ==
    /\ LockFree /\ tab[t].pc = "parents" /\ tab[t].todo = {} /\ tab[t].after = {}
    /\ tab' = [tab EXCEPT ![t] = ReadChildren([@ EXCEPT !.pc = "children", !.todo = QueuedChildren], child)]
    /\ UNCHANGED <<parent, started, child, server, abandoned, holder, news, kicked, asks, closed, lost, early, writes, trouble>>

Turn(t, pc, e) ==
    /\ LockFree /\ tab[t].pc = pc /\ e \in tab[t].todo /\ tab[t].after = {}

\* Nothing that a write refers to is queued, as the stores hold it now.
Ready(c) == child[c].refs \cap QueuedParents = {}

Skip(t, e) ==
    /\ \/ Turn(t, "parents", e) /\ parent[e] # "pending"
       \/ Turn(t, "children", e) /\ (~child[e].queued \/ ~Ready(e))
    /\ tab' = [tab EXCEPT ![t].todo = @ \ {e}]
    /\ UNCHANGED <<parent, started, child, server, abandoned, holder, news, kicked, asks, closed, lost, early, writes, trouble>>

\* canSend() says no: this collection's flush ends here.
Offline(t, e) ==
    /\ \/ Turn(t, "parents", e) /\ parent[e] = "pending"
       \/ Turn(t, "children", e) /\ child[e].queued
    /\ tab' = [tab EXCEPT ![t].todo = {}]
    /\ UNCHANGED <<parent, started, child, server, abandoned, holder, news, kicked, asks, closed, lost, early, writes, trouble>>

SendParent(t, p) ==
    /\ Turn(t, "parents", p) /\ parent[p] = "pending"
    /\ holder' = t
    /\ started' = started \cup {p}
    /\ UNCHANGED parent
    /\ tab' = [tab EXCEPT ![t] = ReadParents([@ EXCEPT !.pc = "sendParent", !.after = {p}], parent)]
    /\ UNCHANGED <<child, server, abandoned, news, kicked, asks, closed, lost, early, writes, trouble>>

Sends(t) == CHOOSE p \in tab[t].after : TRUE

\* A send ends: the flush of this collection goes on behind it, or stops.
GoesOn(v, pc, e) == [v EXCEPT !.pc = pc, !.todo = @ \ {e}, !.after = {}]
Stops(v, pc) == [v EXCEPT !.pc = pc, !.todo = {}, !.after = {}]

ParentSent(t) ==
    LET p == Sends(t)
    IN  /\ tab[t].pc = "sendParent" /\ holder' = NoHolder
        /\ UNCHANGED <<started, child, kicked, asks, closed, lost, early, writes>>
        /\ \/ /\ parent' = [parent EXCEPT ![p] = "none"] /\ server' = server \cup {p}
              /\ tab' = [tab EXCEPT ![t] = ReadParents(GoesOn(@, "parents", p), parent')]
              /\ UNCHANGED <<abandoned, news, trouble>>
           \/ /\ Trouble /\ server' \in {server, server \cup {p}}     \* the answer is lost
              /\ UNCHANGED <<parent, abandoned, news>>
              /\ tab' = [tab EXCEPT ![t] = Stops(@, "parents")]
           \/ /\ p \notin server /\ Trouble                            \* refused, nobody looks
              /\ parent' = [parent EXCEPT ![p] = "rejected"]
              /\ tab' = [tab EXCEPT ![t] = ReadParents(GoesOn(@, "parents", p), parent')]
              /\ UNCHANGED <<server, abandoned, news>>
           \/ /\ Trouble                                               \* another version is there
              /\ parent' = [parent EXCEPT ![p] = "version"] /\ server' = server \cup {p}
              /\ tab' = [tab EXCEPT ![t] = ReadParents(GoesOn(@, "parents", p), parent')]
              /\ UNCHANGED <<abandoned, news>>
           \/ /\ p \notin server /\ Trouble                            \* refused as the person looks
              /\ Leaves(t, p)
              /\ tab' = [tab EXCEPT ![t] = [ReadParents(GoesOn(@, "parents", p), parent') EXCEPT !.after = {p}]]
              /\ UNCHANGED server

SendChild(t, c) ==
    /\ Turn(t, "children", c) /\ child[c].queued /\ Ready(c)
    /\ holder' = t
    /\ child' = [child EXCEPT ![c].started = TRUE]
    /\ early' = (early \/ ~(child[c].refs \subseteq server \cup abandoned))
    /\ tab' = [tab EXCEPT ![t] = ReadChildren([@ EXCEPT !.pc = "sendChild", !.after = {c}], child')]
    /\ UNCHANGED <<parent, started, server, abandoned, news, kicked, asks, closed, lost, writes, trouble>>

\* Answered, one way or another the child leaves the queue; or the answer is lost.
ChildSent(t) ==
    LET c == CHOOSE e \in tab[t].after : TRUE
    IN  /\ tab[t].pc = "sendChild" /\ holder' = NoHolder
        /\ \/ /\ child' = [child EXCEPT ![c] = NoChild]
              /\ tab' = [tab EXCEPT ![t] = ReadChildren(GoesOn(@, "children", c), child')]
              /\ UNCHANGED trouble
           \/ /\ Trouble
              /\ tab' = [tab EXCEPT ![t] = Stops(@, "children")]
              /\ UNCHANGED child
        /\ UNCHANGED <<parent, started, server, abandoned, news, kicked, asks, closed, lost, early, writes>>

\* An entry that nothing holds back is still pending, as this tab last read the queues.
HeldBack_Refers(v) == {c \in v.children : v.refs[c] # {}}    \* a mutant of HeldBack
HeldBack(v) == {c \in v.children : v.refs[c] \cap v.parents # {}}
Stuck(v) == v.pending # {} \/ v.children \ HeldBack(v) # {}

FlushEnds(t) ==
    /\ tab[t].pc = "children" /\ tab[t].todo = {} /\ tab[t].after = {}
    /\ asks' = IF Stuck(tab[t]) THEN asks \cup {t} ELSE asks \ {t}
    /\ tab' = [tab EXCEPT ![t].pc = "idle"]
    /\ UNCHANGED <<parent, started, child, server, abandoned, holder, news, kicked, closed, lost, early, writes, trouble>>

\* A tab is closed, and opened again later: its lock is freed, the rest of it is gone.
TabCloses(t) ==
    /\ Trouble
    /\ holder' = IF holder = t THEN NoHolder ELSE holder
    /\ server' \in {server, server \cup (IF tab[t].pc = "sendParent" THEN tab[t].after ELSE {})}
    /\ tab' = [tab EXCEPT ![t] = Rest]
    /\ news' = [news EXCEPT ![t] = {}]
    /\ lost' = lost \cup news[t]
    /\ closed' = closed \cup {t}
    /\ kicked' = kicked \ {t} /\ asks' = asks \ {t}
    /\ UNCHANGED <<parent, started, child, abandoned, early, writes>>

CollectionsNext ==
    \E t \in Pages :
        \/ \E p \in Parents :
              \/ SubmitParent(t, p) \/ DropParent(t, p) \/ UseTheirs(t, p) \/ KeepMine(t, p)
              \/ RemoveReferences(t, p) \/ SendParent(t, p)
        \/ \E c \in Children :
              \/ \E refs \in SUBSET Parents : SubmitChild(t, c, refs)
              \/ WithdrawChild(t, c) \/ SendChild(t, c)
        \/ \E e \in Parents \cup Children : Skip(t, e) \/ Offline(t, e)
        \/ FlushParents(t) \/ FlushChildren(t) \/ FlushEnds(t)
        \/ ParentSent(t) \/ ChildSent(t) \/ TabCloses(t)

CollectionsSpec == CollectionsInit /\ [][CollectionsNext]_collectionsVars

-----------------------------------------------------------------------------

Entries ==
    [queued : BOOLEAN, refs : SUBSET Parents, behind : SUBSET Parents, merged : BOOLEAN,
     started : BOOLEAN]

Views ==
    [pc : {"idle", "parents", "sendParent", "children", "sendChild"},
     todo : SUBSET (Parents \cup Children), after : SUBSET (Parents \cup Children),
     parents : SUBSET Parents, pending : SUBSET Parents, children : SUBSET Children,
     refs : [Children -> SUBSET Parents]]

(* The queues, the flush of each tab and what it read are well formed.     *)
CollectionsTypeOK ==
    /\ parent \in [Parents -> {"none", "pending", "rejected", "version"}]
    /\ child \in [Children -> Entries] /\ tab \in [Pages -> Views]
    /\ started \subseteq Parents /\ server \subseteq Parents /\ abandoned \subseteq Parents
    /\ holder \in Pages \cup {NoHolder} /\ news \in [Pages -> SUBSET Parents]
    /\ kicked \subseteq Pages /\ asks \subseteq Pages /\ closed \subseteq Pages
    /\ lost \subseteq Parents /\ early \in BOOLEAN
    /\ writes \in 0 .. MaxWrites /\ trouble \in 0 .. MaxTrouble

(* A child never reaches the server before the parents it refers to: what  *)
(* it names is there, or was given up (collections.ts:11-19).              *)
ParentsFirst == ~early

(* A reference to a parent that will never exist is removed from what is   *)
(* queued and from the edits behind it, but for the news a closed tab took *)
(* along (collections.ts:20-24).                                           *)
ReferencesGo ==
    \A c \in Children :
        (child[c].refs \cup child[c].behind) \cap abandoned
            \subseteq lost \cup UNION {news[t] : t \in Pages}

(* What can be sent is not forgotten: while a write waits that nothing     *)
(* holds back, some tab flushes, will flush, or asked its runner to try    *)
(* again (collections.ts:332-338).                                         *)
Sendable == {c \in QueuedChildren : Ready(c)} # {} \/ \E p \in Parents : parent[p] = "pending"
RetryIsAsked ==
    Sendable /\ closed = {} =>
        \E t \in Pages : t \in kicked \cup asks \/ tab[t].pc # "idle" \/ news[t] # {}

(* The three of them.                                                      *)
CollectionsSafe == ParentsFirst /\ ReferencesGo /\ RetryIsAsked
=============================================================================
