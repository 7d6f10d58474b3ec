----------------------------- MODULE ChangesFeed -----------------------------
(***************************************************************************)
(* The cursor pull of src/realtime/changes.ts for one group: a device asks *)
(* page by page for what changed after the sequence its copy is complete   *)
(* through, while the server goes on changing, forgets old deletions, or   *)
(* is restored from a backup.  Every tab pulls; the copy is shared.        *)
(***************************************************************************)
EXTENDS Integers, FiniteSets

CONSTANTS
    Rows, Tabs,
    Limit,          \* changes on a page, unless one sequence has more
    MaxSeq,         \* bound: changes of the group
    Restores        \* whether the database may be restored

ASSUME ChangesAssumption ==
    /\ IsFiniteSet(Rows) /\ Limit \in Nat \ {0} /\ MaxSeq \in Nat /\ Restores \in BOOLEAN

VARIABLES
    cur,        \* the group's change sequence
    oldest,     \* deletions up to here are forgotten
    row,        \* the rows: the sequence of the last change, and whether they exist
    backup,     \* an earlier cur, oldest and row
    copy,       \* the device's rows and cursor
    pull,       \* the pull of each tab
    doubt       \* history: whether a restore, or a drop under a pull, spoilt the copy

feedVars == <<cur, oldest, row, backup, copy, pull, doubt>>

None == -1          \* no row, and no cursor
Snapshot == [cur |-> cur, oldest |-> oldest, row |-> row]

Nothing == [r \in Rows |-> None]
NoPage == [through |-> 0, more |-> FALSE, upserts |-> Nothing, tombstones |-> {}]

Idle == [stage |-> "idle", after |-> 0, full |-> FALSE, attempt |-> 1,
         got |-> Nothing, page |-> NoPage, sure |-> TRUE]
Full == [Idle EXCEPT !.stage = "asks", !.full = TRUE]
From(cursor) == [Idle EXCEPT !.stage = "asks", !.after = cursor]

FeedInit ==
    /\ cur = 0 /\ oldest = 0
    /\ row = [r \in Rows |-> [seq |-> 0, live |-> FALSE]]
    /\ backup = Snapshot
    /\ copy = [rows |-> Nothing, cursor |-> None]
    /\ pull = [t \in Tabs |-> Idle]
    /\ doubt = FALSE

Pulling == {t \in Tabs : pull[t].stage \in {"asks", "applies"}}

-----------------------------------------------------------------------------
(* The server.  Its queries read one snapshot.                             *)
Commit(changed, deleted) ==
    /\ cur < MaxSeq /\ changed \cup deleted # {} /\ changed \cap deleted = {}
    /\ \A r \in deleted : row[r].live
    /\ cur' = cur + 1
    /\ row' = [r \in Rows |->
          IF r \in changed THEN [seq |-> cur + 1, live |-> TRUE]
          ELSE IF r \in deleted THEN [seq |-> cur + 1, live |-> FALSE] ELSE row[r]]
    /\ UNCHANGED <<oldest, backup, copy, pull, doubt>>

Forget(through) ==
    /\ through \in oldest + 1 .. cur /\ oldest' = through
    /\ UNCHANGED <<cur, row, backup, copy, pull, doubt>>

Backup ==
    /\ Restores /\ backup # Snapshot /\ backup' = Snapshot
    /\ UNCHANGED <<cur, oldest, row, copy, pull, doubt>>

Restore ==
    /\ Restores /\ cur > backup.cur
    /\ cur' = backup.cur /\ oldest' = backup.oldest /\ row' = backup.row
    /\ doubt' = TRUE /\ pull' = [t \in Tabs |-> [pull[t] EXCEPT !.sure = FALSE]]
    /\ UNCHANGED <<backup, copy>>

(* planChangesPage.                                                        *)
TooOld_Deletions(after) == after > cur

TooOld(after) == (after > 0 /\ after < oldest) \/ after > cur

Tombstones(after) ==
    {r \in Rows : ~row[r].live /\ row[r].seq > oldest /\ row[r].seq > after /\ after > 0}

Changes(after) == {r \in Rows : row[r].live /\ row[r].seq > after} \cup Tombstones(after)

Upto(after, through) == {r \in Changes(after) : row[r].seq <= through}

(* The window ends before the change after the first Limit ones, and never *)
(* within a sequence.                                                      *)
Covers(after, through) ==
    \/ Cardinality(Changes(after)) <= Limit /\ through = cur
    \/ \E boundary \in after + 1 .. cur :
          /\ Cardinality(Upto(after, boundary)) > Limit
          /\ Cardinality(Upto(after, boundary - 1)) <= Limit
          /\ through = IF boundary - 1 > after THEN boundary - 1 ELSE boundary

Page(after, through) ==
    [through |-> through, more |-> through < cur,
     upserts |-> [r \in Rows |->
        IF row[r].live /\ r \in Upto(after, through) THEN row[r].seq ELSE None],
     tombstones |-> {r \in Upto(after, through) : ~row[r].live}]

-----------------------------------------------------------------------------
(* The device.                                                             *)
Put(rows, page) ==
    [r \in Rows |->
        IF page.upserts[r] # None THEN page.upserts[r]
        ELSE IF r \in page.tombstones THEN None ELSE rows[r]]

(* A pull waits for the lock and then reads the cursor.                    *)
BeginPull_NoLock(t) ==
    /\ pull[t].stage = "waits"
    /\ pull' = [pull EXCEPT ![t] =
          IF copy.cursor \in {None, 0} THEN Full ELSE From(copy.cursor)]
    /\ UNCHANGED <<cur, oldest, row, backup, copy, doubt>>

BeginPull(t) ==
    /\ pull[t].stage = "waits" /\ Pulling = {}
    /\ pull' = [pull EXCEPT ![t] =
          IF copy.cursor \in {None, 0} THEN Full ELSE From(copy.cursor)]
    /\ UNCHANGED <<cur, oldest, row, backup, copy, doubt>>

Pull(t) ==
    /\ pull[t].stage = "idle" /\ pull' = [pull EXCEPT ![t].stage = "waits"]
    /\ UNCHANGED <<cur, oldest, row, backup, copy, doubt>>

(* fetch: the server answers a page.                                       *)
AnswerPage(t) ==
    /\ pull[t].stage = "asks" /\ ~TooOld(pull[t].after)
    /\ \E through \in pull[t].after .. cur :
          /\ Covers(pull[t].after, through)
          /\ pull' = [pull EXCEPT ![t].stage = "applies", ![t].page = Page(pull[t].after, through)]
    /\ UNCHANGED <<cur, oldest, row, backup, copy, doubt>>

(* "A full read restarts once when the server cuts its log meanwhile."     *)
AnswerTooOld(t) ==
    /\ pull[t].stage = "asks" /\ TooOld(pull[t].after)
    /\ pull' = [pull EXCEPT ![t] =
          IF ~pull[t].full THEN Full
          ELSE IF pull[t].attempt = 1 THEN [Full EXCEPT !.attempt = 2] ELSE Idle]
    /\ UNCHANGED <<cur, oldest, row, backup, copy, doubt>>

(* fetch rejects, or the tab crashes: the copy stays as it is.             *)
Fails(t) ==
    /\ pull[t].stage \in {"asks", "applies"} /\ pull' = [pull EXCEPT ![t] = Idle]
    /\ UNCHANGED <<cur, oldest, row, backup, copy, doubt>>

Asks(t, through) == [pull[t] EXCEPT !.stage = "asks", !.after = through, !.page = NoPage]

(* incremental: rows, tombstones and cursor in one transaction.            *)
ApplyPage(t) ==
    LET page == pull[t].page
    IN  /\ pull[t].stage = "applies" /\ ~pull[t].full
        /\ copy' = [rows |-> Put(copy.rows, page), cursor |-> page.through]
        /\ pull' = [pull EXCEPT ![t] = IF page.more THEN Asks(t, page.through) ELSE Idle]
        /\ doubt' = (doubt \/ ~pull[t].sure)
        /\ UNCHANGED <<cur, oldest, row, backup>>

(* full: pages are kept in memory, and the last one replaces the copy.     *)
KeepPage(t) ==
    LET page == pull[t].page
    IN  /\ pull[t].stage = "applies" /\ pull[t].full /\ page.more
        /\ pull' = [pull EXCEPT ![t] = [Asks(t, page.through) EXCEPT !.got = Put(@, page)]]
        /\ UNCHANGED <<cur, oldest, row, backup, copy, doubt>>

Whole(t) == Put(pull[t].got, pull[t].page)

ReplaceCopy(t) ==
    /\ pull[t].stage = "applies" /\ pull[t].full /\ ~pull[t].page.more
    /\ copy' = [rows |-> Whole(t), cursor |-> pull[t].page.through]
    /\ pull' = [pull EXCEPT ![t] = Idle]
    /\ doubt' = ~pull[t].sure
    /\ UNCHANGED <<cur, oldest, row, backup>>

(* A row a write was answered with, before the group's first pull.         *)
PutAnswer(r) ==
    /\ copy.cursor \in {None, 0} /\ row[r].live
    /\ copy' = [rows |-> [copy.rows EXCEPT ![r] = row[r].seq], cursor |-> 0]
    /\ UNCHANGED <<cur, oldest, row, backup, pull, doubt>>

(* The person may no longer read the group.  It takes no lock: an          *)
(* incremental pull goes on into the emptied copy.                         *)
DropCopy ==
    /\ copy.cursor # None
    /\ copy' = [rows |-> Nothing, cursor |-> None]
    /\ pull' = [t \in Tabs |-> IF pull[t].full THEN pull[t] ELSE [pull[t] EXCEPT !.sure = FALSE]]
    /\ doubt' = FALSE
    /\ UNCHANGED <<cur, oldest, row, backup>>

FeedNext ==
    \/ \E changed, deleted \in SUBSET Rows : Commit(changed, deleted)
    \/ \E through \in 1 .. MaxSeq : Forget(through)
    \/ Backup \/ Restore \/ DropCopy
    \/ \E r \in Rows : PutAnswer(r)
    \/ \E t \in Tabs :
          \/ Pull(t) \/ BeginPull(t) \/ AnswerPage(t) \/ AnswerTooOld(t) \/ Fails(t)
          \/ ApplyPage(t) \/ KeepPage(t) \/ ReplaceCopy(t)

FeedSpec == FeedInit /\ [][FeedNext]_feedVars

-----------------------------------------------------------------------------
Snapshots ==
    {s \in [cur : 0 .. MaxSeq, oldest : 0 .. MaxSeq,
            row : [Rows -> [seq : 0 .. MaxSeq, live : BOOLEAN]]] :
        /\ s.oldest <= s.cur
        /\ \A r \in Rows : s.row[r].seq <= s.cur /\ (s.row[r].live => s.row[r].seq > 0)}

(* Sequences and pages are well formed: a page moves forward, one that is  *)
(* not the last leaves something, and one pull runs at a time.             *)
FeedTypeOK ==
    /\ Snapshot \in Snapshots /\ backup \in Snapshots
    /\ copy \in [rows : [Rows -> 1 .. MaxSeq \cup {None}], cursor : 0 .. MaxSeq \cup {None}]
    /\ pull \in [Tabs -> [stage : {"idle", "waits", "asks", "applies"}, after : 0 .. MaxSeq,
          full : BOOLEAN, attempt : {1, 2}, got : [Rows -> 1 .. MaxSeq \cup {None}], sure : BOOLEAN,
          page : [through : 0 .. MaxSeq, more : BOOLEAN, tombstones : SUBSET Rows,
                  upserts : [Rows -> 1 .. MaxSeq \cup {None}]]]]
    /\ doubt \in BOOLEAN
    /\ \A t \in Tabs : pull[t].page.more => pull[t].page.through > pull[t].after
    /\ \A t, u \in Pulling : t = u

Right(r, held) == held = IF row[r].live THEN row[r].seq ELSE None

(* "The sequence the copy is complete through": every change the server    *)
(* committed up to the cursor, a deletion as much as a new row, is in the  *)
(* copy, however the pages fell, unless a restore or a drop under a pull   *)
(* spoilt it.                                                              *)
CopyIsComplete ==
    ~doubt => \A r \in Rows : row[r].seq \in 1 .. copy.cursor => Right(r, copy.rows[r])

(* "Two pulls never apply pages out of order": the cursor goes back only   *)
(* when the copy is dropped, or read in full from a restored server.       *)
CursorAdvancesStep == copy'.cursor # None /\ ~doubt /\ ~doubt' => copy'.cursor >= copy.cursor
CursorAdvances == [][CursorAdvancesStep]_feedVars
=============================================================================
