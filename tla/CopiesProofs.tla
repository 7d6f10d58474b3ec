---------------------------- MODULE CopiesProofs ----------------------------
(***************************************************************************)
(* Proofs about the copies a client keeps.  The cursor pull (ChangesFeed), *)
(* for any rows, any number of tabs and any page limit: the copy holds     *)
(* every change up to its cursor.  The copy of a calendar (CalDavSync),    *)
(* for any objects and any loads: a copy that counts as in step is.  The   *)
(* queues of two collections (Collections), for any tabs, parents and      *)
(* children: no child leaves before its parents.  The reminder runner      *)
(* (Reminders), for any reminders, interval and deadline: none is sent     *)
(* twice or skipped.                                                       *)
(***************************************************************************)
EXTENDS ChangesFeed, CalDavSync, Collections, Reminders, TLAPS

Records == [stage : {"idle", "waits", "asks", "applies"}, after : 0 .. MaxSeq,
            full : BOOLEAN, attempt : {1, 2}, got : [Rows -> 1 .. MaxSeq \cup {None}],
            sure : BOOLEAN,
            page : [through : 0 .. MaxSeq, more : BOOLEAN, tombstones : SUBSET Rows,
                    upserts : [Rows -> 1 .. MaxSeq \cup {None}]]]

(* FeedTypeOK in pieces.                                                   *)
Typed ==
    /\ Snapshot \in Snapshots /\ backup \in Snapshots
    /\ copy \in [rows : [Rows -> 1 .. MaxSeq \cup {None}], cursor : 0 .. MaxSeq \cup {None}]
    /\ pull \in [Tabs -> Records]
    /\ doubt \in BOOLEAN

Forward == \A t \in Tabs : pull[t].page.more => pull[t].page.through > pull[t].after

OnePulls == \A t, u \in Pulling : t = u

LEMMA TypeParts == FeedTypeOK <=> Typed /\ Forward /\ OnePulls
  BY DEF FeedTypeOK, Typed, Forward, OnePulls, Records

(* What the server may hold, one variable at a time.                       *)
LEMMA ServerTyped ==
    Snapshot \in Snapshots <=>
        /\ cur \in 0 .. MaxSeq /\ oldest \in 0 .. MaxSeq /\ oldest <= cur
        /\ row \in [Rows -> [seq : 0 .. MaxSeq, live : BOOLEAN]]
        /\ \A r \in Rows : row[r].seq <= cur /\ (row[r].live => row[r].seq > 0)
  BY DEF Snapshot, Snapshots

(* The records a pull starts from.                                         *)
LEMMA StartsTyped ==
    /\ Idle \in Records /\ Full \in Records
    /\ \A c \in 0 .. MaxSeq : From(c) \in Records
    /\ \A c \in 0 .. MaxSeq :
          /\ From(c).after = c /\ From(c).full = FALSE /\ From(c).stage = "asks"
          /\ From(c).sure = TRUE /\ From(c).page.more = FALSE
  <1>1. MaxSeq \in Nat BY ChangesAssumption
  <1>2. Nothing \in [Rows -> 1 .. MaxSeq \cup {None}] BY DEF Nothing
  <1>3. NoPage \in [through : 0 .. MaxSeq, more : BOOLEAN, tombstones : SUBSET Rows,
                    upserts : [Rows -> 1 .. MaxSeq \cup {None}]]
    BY <1>1, <1>2 DEF NoPage
  <1>4. Idle \in Records BY <1>1, <1>2, <1>3 DEF Idle, Records
  <1>5. NoPage.more = FALSE BY DEF NoPage
  <1> QED BY <1>1, <1>2, <1>3, <1>4, <1>5 DEF Idle, Full, From, Records

(* Put keeps rows what they are.                                           *)
LEMMA PutTyped ==
    ASSUME NEW rows \in [Rows -> 1 .. MaxSeq \cup {None}], NEW p \in Records
    PROVE  Put(rows, p.page) \in [Rows -> 1 .. MaxSeq \cup {None}]
  BY DEF Put, Records

(* A page says only sequences.                                             *)
LEMMA PageTyped ==
    ASSUME Typed, NEW after \in 0 .. MaxSeq, NEW through \in after .. cur
    PROVE  Page(after, through) \in [through : 0 .. MaxSeq, more : BOOLEAN,
               tombstones : SUBSET Rows, upserts : [Rows -> 1 .. MaxSeq \cup {None}]]
  <1>1. MaxSeq \in Nat BY ChangesAssumption
  <1>2. /\ cur \in 0 .. MaxSeq
        /\ row \in [Rows -> [seq : 0 .. MaxSeq, live : BOOLEAN]]
        /\ \A r \in Rows : row[r].live => row[r].seq > 0
    BY ServerTyped DEF Typed
  <1>3. Upto(after, through) \subseteq Rows BY DEF Upto, Changes, Tombstones
  <1>4. [r \in Rows |-> IF row[r].live /\ r \in Upto(after, through) THEN row[r].seq ELSE None]
            \in [Rows -> 1 .. MaxSeq \cup {None}]
    BY <1>1, <1>2
  <1>5. through \in 0 .. MaxSeq BY <1>1, <1>2
  <1> QED BY <1>3, <1>4, <1>5 DEF Page

-----------------------------------------------------------------------------
(* Type correctness, one action at a time.                                 *)
LEMMA InitTyped == ASSUME FeedInit PROVE FeedTypeOK
  <1> SUFFICES Typed /\ Forward /\ OnePulls BY TypeParts
  <1>1. MaxSeq \in Nat BY ChangesAssumption
  <1>2. Nothing \in [Rows -> 1 .. MaxSeq \cup {None}] BY DEF Nothing
  <1>3. Snapshot \in Snapshots BY <1>1, ServerTyped DEF FeedInit
  <1>4. pull \in [Tabs -> Records] BY StartsTyped DEF FeedInit
  <1>5. copy \in [rows : [Rows -> 1 .. MaxSeq \cup {None}], cursor : 0 .. MaxSeq \cup {None}]
    BY <1>2 DEF FeedInit
  <1>6. \A t \in Tabs : pull[t].stage = "idle" /\ pull[t].page.more = FALSE
    BY DEF FeedInit, Idle, NoPage
  <1>7. Typed BY <1>3, <1>4, <1>5 DEF Typed, FeedInit
  <1>8. Forward BY <1>6 DEF Forward
  <1>9. OnePulls BY <1>6 DEF OnePulls, Pulling
  <1> QED BY <1>7, <1>8, <1>9

(* A step of one tab: its record is typed and its page moves forward, and  *)
(* it pulls only if it did before.                                         *)
LEMMA OneTabSteps ==
    ASSUME FeedTypeOK, NEW t \in Tabs, NEW p \in Records,
           pull' = [pull EXCEPT ![t] = p],
           p.page.more => p.page.through > p.after,
           p.stage \in {"asks", "applies"} => t \in Pulling \/ Pulling = {}
    PROVE  /\ pull' \in [Tabs -> Records] /\ Forward' /\ OnePulls'
  <1>1. Typed /\ Forward /\ OnePulls BY TypeParts
  <1>2. pull' \in [Tabs -> Records] BY <1>1 DEF Typed
  <1>3. \A u \in Tabs : pull'[u] = IF u = t THEN p ELSE pull[u] BY <1>1 DEF Typed
  <1>4. Forward' BY <1>1, <1>3 DEF Forward
  <1>5. \A u \in Pulling' : u \in Pulling \/ (u = t /\ Pulling = {})
    BY <1>3 DEF Pulling
  <1>6. OnePulls' BY <1>1, <1>5 DEF OnePulls
  <1> QED BY <1>2, <1>4, <1>6

(* A step that changes no page and no stage.                               *)
LEMMA NoTabSteps ==
    ASSUME FeedTypeOK, pull' \in [Tabs -> Records],
           \A t \in Tabs : /\ pull'[t].stage = pull[t].stage /\ pull'[t].page = pull[t].page
                           /\ pull'[t].after = pull[t].after
    PROVE  Forward' /\ OnePulls'
  <1>1. Forward /\ OnePulls BY TypeParts
  <1>2. Pulling' = Pulling BY DEF Pulling
  <1> QED BY <1>1, <1>2 DEF Forward, OnePulls

(* What is left alone stays typed.                                         *)
LEMMA ServerStays ==
    ASSUME FeedTypeOK, UNCHANGED <<cur, oldest, row, backup>>
    PROVE  Snapshot' \in Snapshots /\ backup' \in Snapshots
  BY TypeParts DEF Typed, Snapshot, Snapshots

LEMMA TypesTogether ==
    ASSUME Typed', Forward', OnePulls' PROVE FeedTypeOK'
  BY DEF FeedTypeOK, Typed, Forward, OnePulls, Records

LEMMA CommitTyped ==
    ASSUME FeedTypeOK, NEW changed \in SUBSET Rows, NEW deleted \in SUBSET Rows,
           Commit(changed, deleted)
    PROVE  FeedTypeOK'
  <1>1. MaxSeq \in Nat BY ChangesAssumption
  <1>2. Typed BY TypeParts
  <1>3. /\ cur \in 0 .. MaxSeq /\ oldest \in 0 .. MaxSeq /\ oldest <= cur
        /\ row \in [Rows -> [seq : 0 .. MaxSeq, live : BOOLEAN]]
        /\ \A r \in Rows : row[r].seq <= cur /\ (row[r].live => row[r].seq > 0)
    BY <1>2, ServerTyped DEF Typed
  <1>4. cur' = cur + 1 /\ cur' \in 0 .. MaxSeq /\ oldest' = oldest
    BY <1>1, <1>3 DEF Commit
  <1>5. \A r \in Rows :
            \/ row'[r] = row[r]
            \/ row'[r] = [seq |-> cur + 1, live |-> TRUE]
            \/ row'[r] = [seq |-> cur + 1, live |-> FALSE]
    BY DEF Commit
  <1>6. row' \in [Rows -> [seq : 0 .. MaxSeq, live : BOOLEAN]]
    <2>1. cur + 1 \in 0 .. MaxSeq BY <1>4
    <2> QED BY <1>3, <2>1 DEF Commit
  <1>7. \A r \in Rows : row'[r].seq <= cur' /\ (row'[r].live => row'[r].seq > 0)
    BY <1>3, <1>4, <1>5
  <1>8. Snapshot' \in Snapshots BY <1>3, <1>4, <1>6, <1>7 DEF Snapshot, Snapshots
  <1>9. UNCHANGED <<backup, copy, pull, doubt>> BY DEF Commit
  <1>10. Typed' BY <1>2, <1>8, <1>9 DEF Typed
  <1>11. Forward' /\ OnePulls' BY <1>2, <1>9, NoTabSteps DEF Typed
  <1> QED BY <1>10, <1>11, TypesTogether

LEMMA ForgetTyped ==
    ASSUME FeedTypeOK, NEW through \in 1 .. MaxSeq, Forget(through) PROVE FeedTypeOK'
  <1>2. Typed BY TypeParts
  <1>3. /\ cur \in 0 .. MaxSeq /\ oldest \in 0 .. MaxSeq /\ oldest <= cur
        /\ row \in [Rows -> [seq : 0 .. MaxSeq, live : BOOLEAN]]
        /\ \A r \in Rows : row[r].seq <= cur /\ (row[r].live => row[r].seq > 0)
    BY <1>2, ServerTyped DEF Typed
  <1>4. oldest' \in 0 .. MaxSeq /\ oldest' <= cur' BY <1>3 DEF Forget
  <1>5. UNCHANGED <<cur, row, backup, copy, pull, doubt>> BY DEF Forget
  <1>6. Snapshot' \in Snapshots BY <1>3, <1>4, <1>5 DEF Snapshot, Snapshots
  <1>7. Typed' BY <1>2, <1>5, <1>6 DEF Typed
  <1>8. Forward' /\ OnePulls' BY <1>2, <1>5, NoTabSteps DEF Typed
  <1> QED BY <1>7, <1>8, TypesTogether

LEMMA BackupTyped == ASSUME FeedTypeOK, Backup PROVE FeedTypeOK'
  <1>1. Typed BY TypeParts
  <1>2. UNCHANGED <<cur, oldest, row, copy, pull, doubt>> /\ backup' = Snapshot BY DEF Backup
  <1>3. Snapshot' = Snapshot BY <1>2 DEF Snapshot
  <1>4. Typed' BY <1>1, <1>2, <1>3 DEF Typed
  <1>5. Forward' /\ OnePulls' BY <1>1, <1>2, NoTabSteps DEF Typed
  <1> QED BY <1>4, <1>5, TypesTogether

(* Only whether the pulls are sure changes.                                *)
LEMMA Unsure ==
    ASSUME FeedTypeOK, NEW T \in SUBSET Tabs,
           pull' = [t \in Tabs |-> IF t \in T THEN [pull[t] EXCEPT !.sure = FALSE] ELSE pull[t]]
    PROVE  pull' \in [Tabs -> Records] /\ Forward' /\ OnePulls'
  <1>1. Typed BY TypeParts
  <1>2. pull' \in [Tabs -> Records]
    <2>1. \A p \in Records : [p EXCEPT !.sure = FALSE] \in Records BY DEF Records
    <2> QED BY <1>1, <2>1 DEF Typed
  <1>3. \A t \in Tabs : /\ pull'[t].stage = pull[t].stage /\ pull'[t].page = pull[t].page
                        /\ pull'[t].after = pull[t].after
    BY <1>1 DEF Typed, Records
  <1> QED BY <1>2, <1>3, NoTabSteps

LEMMA RestoreTyped == ASSUME FeedTypeOK, Restore PROVE FeedTypeOK'
  <1>1. Typed BY TypeParts
  <1>2. backup' = backup /\ copy' = copy /\ doubt' = TRUE BY DEF Restore
  <1>3. Snapshot' = backup
    BY <1>1 DEF Restore, Snapshot, Snapshots, Typed
  <1>4. pull' = [t \in Tabs |-> IF t \in Tabs THEN [pull[t] EXCEPT !.sure = FALSE] ELSE pull[t]]
    BY DEF Restore
  <1>5. pull' \in [Tabs -> Records] /\ Forward' /\ OnePulls' BY <1>4, Unsure
  <1>6. Typed' BY <1>1, <1>2, <1>3, <1>5 DEF Typed
  <1> QED BY <1>5, <1>6, TypesTogether

LEMMA DropTyped == ASSUME FeedTypeOK, DropCopy PROVE FeedTypeOK'
  <1>1. Typed BY TypeParts
  <1>2. Snapshot' \in Snapshots /\ backup' \in Snapshots BY ServerStays DEF DropCopy
  <1>3. pull' = [t \in Tabs |->
            IF t \in {u \in Tabs : ~pull[u].full} THEN [pull[t] EXCEPT !.sure = FALSE] ELSE pull[t]]
    BY <1>1 DEF DropCopy, Typed, Records
  <1>4. pull' \in [Tabs -> Records] /\ Forward' /\ OnePulls' BY <1>3, Unsure
  <1>5. copy' \in [rows : [Rows -> 1 .. MaxSeq \cup {None}], cursor : 0 .. MaxSeq \cup {None}]
    BY DEF DropCopy, Nothing
  <1>6. Typed' BY <1>2, <1>4, <1>5 DEF Typed, DropCopy
  <1> QED BY <1>4, <1>6, TypesTogether

LEMMA PutAnswerTyped == ASSUME FeedTypeOK, NEW r \in Rows, PutAnswer(r) PROVE FeedTypeOK'
  <1>1. Typed BY TypeParts
  <1>2. UNCHANGED <<cur, oldest, row, backup, pull, doubt>> BY DEF PutAnswer
  <1>3. Snapshot' \in Snapshots /\ backup' \in Snapshots BY <1>2, ServerStays
  <1>4. row[r].seq \in 1 .. MaxSeq
    BY <1>1, ServerTyped, ChangesAssumption DEF Typed, PutAnswer
  <1>5. 0 \in 0 .. MaxSeq BY ChangesAssumption
  <1>6. copy' \in [rows : [Rows -> 1 .. MaxSeq \cup {None}], cursor : 0 .. MaxSeq \cup {None}]
    BY <1>1, <1>4, <1>5 DEF PutAnswer, Typed
  <1>7. Typed' BY <1>1, <1>2, <1>3, <1>6 DEF Typed
  <1>8. Forward' /\ OnePulls' BY <1>1, <1>2, NoTabSteps DEF Typed
  <1> QED BY <1>7, <1>8, TypesTogether

(* The steps of a tab that leave the copy alone.                           *)
LEMMA TabTyped ==
    ASSUME FeedTypeOK, NEW t \in Tabs, NEW p \in Records,
           pull' = [pull EXCEPT ![t] = p],
           p.page.more => p.page.through > p.after,
           p.stage \in {"asks", "applies"} => t \in Pulling \/ Pulling = {},
           UNCHANGED <<cur, oldest, row, backup>>,
           copy' \in [rows : [Rows -> 1 .. MaxSeq \cup {None}], cursor : 0 .. MaxSeq \cup {None}],
           doubt' \in BOOLEAN
    PROVE  FeedTypeOK'
  <1>1. pull' \in [Tabs -> Records] /\ Forward' /\ OnePulls' BY OneTabSteps
  <1>2. Typed' BY <1>1, ServerStays DEF Typed
  <1> QED BY <1>1, <1>2, TypesTogether

LEMMA PullTyped == ASSUME FeedTypeOK, NEW t \in Tabs, Pull(t) PROVE FeedTypeOK'
  <1>1. Typed /\ Forward BY TypeParts
  <1> DEFINE p == [pull[t] EXCEPT !.stage = "waits"]
  <1>2. p \in Records /\ p.stage = "waits" /\ p.page = pull[t].page /\ p.after = pull[t].after
    <2>1. pull[t] \in Records BY <1>1 DEF Typed
    <2> QED BY <2>1 DEF Records
  <1>3. pull' = [pull EXCEPT ![t] = p] BY DEF Pull
  <1>4. p.page.more => p.page.through > p.after BY <1>1, <1>2 DEF Forward
  <1>5. UNCHANGED <<cur, oldest, row, backup, copy, doubt>> BY DEF Pull
  <1> HIDE DEF p
  <1> QED BY <1>1, <1>2, <1>3, <1>4, <1>5, TabTyped DEF Typed

LEMMA BeginTyped == ASSUME FeedTypeOK, NEW t \in Tabs, BeginPull(t) PROVE FeedTypeOK'
  <1>1. Typed BY TypeParts
  <1> DEFINE p == IF copy.cursor \in {None, 0} THEN Full ELSE From(copy.cursor)
  <1>2. copy.cursor \in 0 .. MaxSeq \cup {None} BY <1>1 DEF Typed
  <1>3. p \in Records BY <1>2, StartsTyped
  <1>4. p.page.more = FALSE BY <1>2, StartsTyped DEF Full, Idle, NoPage
  <1>5. pull' = [pull EXCEPT ![t] = p] /\ Pulling = {} BY DEF BeginPull
  <1>6. UNCHANGED <<cur, oldest, row, backup, copy, doubt>> BY DEF BeginPull
  <1> HIDE DEF p
  <1> QED BY <1>1, <1>3, <1>4, <1>5, <1>6, TabTyped DEF Typed

LEMMA AnswerTyped == ASSUME FeedTypeOK, NEW t \in Tabs, AnswerPage(t) PROVE FeedTypeOK'
  <1>1. Typed BY TypeParts
  <1>2. pull[t] \in Records BY <1>1 DEF Typed
  <1>3. PICK through \in pull[t].after .. cur :
            /\ Covers(pull[t].after, through)
            /\ pull' = [pull EXCEPT ![t].stage = "applies",
                                    ![t].page = Page(pull[t].after, through)]
    BY DEF AnswerPage
  <1> DEFINE p == [pull[t] EXCEPT !.stage = "applies", !.page = Page(pull[t].after, through)]
  <1>4. pull' = [pull EXCEPT ![t] = p] BY <1>1, <1>3 DEF Typed
  <1>5. pull[t].after \in 0 .. MaxSeq BY <1>2 DEF Records
  <1>6. p \in Records BY <1>1, <1>2, <1>5, PageTyped DEF Records
  <1>7. p.page.more = (through < cur) /\ p.page.through = through /\ p.after = pull[t].after
    BY <1>2 DEF Page, Records
  <1>8. through < cur => through > pull[t].after
    <2>1. cur \in Int BY <1>1, ServerTyped DEF Typed
    <2>2. CASE through = cur BY <2>1, <2>2
    <2>3. CASE \E boundary \in pull[t].after + 1 .. cur :
                  through = IF boundary - 1 > pull[t].after THEN boundary - 1 ELSE boundary
      BY <2>1, <2>3, <1>5
    <2> QED BY <1>3, <2>2, <2>3 DEF Covers
  <1>9. t \in Pulling BY DEF AnswerPage, Pulling
  <1>10. UNCHANGED <<cur, oldest, row, backup, copy, doubt>> BY DEF AnswerPage
  <1> HIDE DEF p
  <1> QED BY <1>1, <1>4, <1>6, <1>7, <1>8, <1>9, <1>10, TabTyped DEF Typed

LEMMA AnswerTooOldTyped ==
    ASSUME FeedTypeOK, NEW t \in Tabs, AnswerTooOld(t) PROVE FeedTypeOK'
  <1>1. Typed BY TypeParts
  <1> DEFINE p == IF ~pull[t].full THEN Full
                  ELSE IF pull[t].attempt = 1 THEN [Full EXCEPT !.attempt = 2] ELSE Idle
  <1>2. p \in Records /\ p.page.more = FALSE BY StartsTyped DEF Full, Idle, NoPage, Records
  <1>3. pull' = [pull EXCEPT ![t] = p] BY DEF AnswerTooOld
  <1>4. t \in Pulling BY DEF AnswerTooOld, Pulling
  <1>5. UNCHANGED <<cur, oldest, row, backup, copy, doubt>> BY DEF AnswerTooOld
  <1> HIDE DEF p
  <1> QED BY <1>1, <1>2, <1>3, <1>4, <1>5, TabTyped DEF Typed

LEMMA IdleAgain ==
    Idle \in Records /\ Idle.page.more = FALSE /\ Idle.stage = "idle"
  BY StartsTyped DEF Idle, NoPage

LEMMA FailsTyped == ASSUME FeedTypeOK, NEW t \in Tabs, Fails(t) PROVE FeedTypeOK'
  <1>1. Typed BY TypeParts
  <1>2. pull' = [pull EXCEPT ![t] = Idle] BY DEF Fails
  <1>3. UNCHANGED <<cur, oldest, row, backup, copy, doubt>> BY DEF Fails
  <1> QED BY <1>1, <1>2, <1>3, IdleAgain, TabTyped DEF Typed

(* The record of a pull that goes on to the next page.                     *)
LEMMA AsksTyped ==
    ASSUME FeedTypeOK, NEW t \in Tabs, NEW through \in 0 .. MaxSeq
    PROVE  /\ Asks(t, through) \in Records /\ Asks(t, through).page.more = FALSE
           /\ \A rows \in [Rows -> 1 .. MaxSeq \cup {None}] :
                 /\ [Asks(t, through) EXCEPT !.got = rows] \in Records
                 /\ [Asks(t, through) EXCEPT !.got = rows].page.more = FALSE
  <1>1. pull[t] \in Records BY TypeParts DEF Typed
  <1>2. NoPage \in [through : 0 .. MaxSeq, more : BOOLEAN, tombstones : SUBSET Rows,
                    upserts : [Rows -> 1 .. MaxSeq \cup {None}]] /\ NoPage.more = FALSE
    BY StartsTyped DEF Idle, Records, NoPage
  <1> QED BY <1>1, <1>2 DEF Asks, Records

LEMMA ApplyPageTyped == ASSUME FeedTypeOK, NEW t \in Tabs, ApplyPage(t) PROVE FeedTypeOK'
  <1>1. Typed BY TypeParts
  <1> DEFINE page == pull[t].page
             p == IF page.more THEN Asks(t, page.through) ELSE Idle
  <1>2. pull[t] \in Records BY <1>1 DEF Typed
  <1>3. page.through \in 0 .. MaxSeq BY <1>2 DEF Records
  <1>4. p \in Records /\ p.page.more = FALSE BY <1>3, AsksTyped, IdleAgain
  <1>5. Put(copy.rows, page) \in [Rows -> 1 .. MaxSeq \cup {None}]
    BY <1>1, <1>2, PutTyped DEF Typed
  <1>6. copy' \in [rows : [Rows -> 1 .. MaxSeq \cup {None}], cursor : 0 .. MaxSeq \cup {None}]
    BY <1>3, <1>5 DEF ApplyPage
  <1>7. doubt' \in BOOLEAN BY DEF ApplyPage
  <1>8. pull' = [pull EXCEPT ![t] = p] /\ UNCHANGED <<cur, oldest, row, backup>> BY DEF ApplyPage
  <1>9. t \in Pulling BY DEF ApplyPage, Pulling
  <1> HIDE DEF p
  <1> QED BY <1>4, <1>6, <1>7, <1>8, <1>9, TabTyped

LEMMA KeepPageTyped == ASSUME FeedTypeOK, NEW t \in Tabs, KeepPage(t) PROVE FeedTypeOK'
  <1>1. Typed BY TypeParts
  <1> DEFINE page == pull[t].page
             rows == Put(pull[t].got, page)
             p == [Asks(t, page.through) EXCEPT !.got = rows]
  <1>2. pull[t] \in Records BY <1>1 DEF Typed
  <1>3. page.through \in 0 .. MaxSeq /\ pull[t].got \in [Rows -> 1 .. MaxSeq \cup {None}]
    BY <1>2 DEF Records
  <1>4. rows \in [Rows -> 1 .. MaxSeq \cup {None}] BY <1>2, <1>3, PutTyped
  <1>5. p \in Records /\ p.page.more = FALSE BY <1>3, <1>4, AsksTyped
  <1>6. Asks(t, page.through).got = pull[t].got BY <1>2 DEF Asks, Records
  <1>7. pull' = [pull EXCEPT ![t] = p]
    <2>1. pull' = [pull EXCEPT ![t] = [Asks(t, page.through) EXCEPT
                                                !.got = Put(Asks(t, page.through).got, page)]]
      BY DEF KeepPage, Asks
    <2> QED BY <2>1, <1>6
  <1>8. UNCHANGED <<cur, oldest, row, backup, copy, doubt>> /\ t \in Pulling
    BY DEF KeepPage, Pulling
  <1> HIDE DEF p
  <1> QED BY <1>1, <1>5, <1>7, <1>8, TabTyped DEF Typed

LEMMA ReplaceCopyTyped ==
    ASSUME FeedTypeOK, NEW t \in Tabs, ReplaceCopy(t) PROVE FeedTypeOK'
  <1>1. Typed BY TypeParts
  <1>2. pull[t] \in Records BY <1>1 DEF Typed
  <1>3. pull[t].page.through \in 0 .. MaxSeq /\ pull[t].got \in [Rows -> 1 .. MaxSeq \cup {None}]
    BY <1>2 DEF Records
  <1>4. Whole(t) \in [Rows -> 1 .. MaxSeq \cup {None}] BY <1>2, <1>3, PutTyped DEF Whole
  <1>5. copy' \in [rows : [Rows -> 1 .. MaxSeq \cup {None}], cursor : 0 .. MaxSeq \cup {None}]
    BY <1>3, <1>4 DEF ReplaceCopy
  <1>6. doubt' \in BOOLEAN /\ UNCHANGED <<cur, oldest, row, backup>>
        /\ pull' = [pull EXCEPT ![t] = Idle]
    BY <1>2 DEF ReplaceCopy, Records
  <1> QED BY <1>5, <1>6, IdleAgain, TabTyped

LEMMA StepTyped == ASSUME FeedTypeOK, [FeedNext]_feedVars PROVE FeedTypeOK'
  <1>1. CASE UNCHANGED feedVars
    BY <1>1 DEF feedVars, FeedTypeOK, Snapshot, Snapshots, Pulling
  <1>2. CASE FeedNext
    BY <1>2, CommitTyped, ForgetTyped, BackupTyped, RestoreTyped, DropTyped, PutAnswerTyped,
       PullTyped, BeginTyped, AnswerTyped, AnswerTooOldTyped, FailsTyped, ApplyPageTyped,
       KeepPageTyped, ReplaceCopyTyped
    DEF FeedNext
  <1> QED BY <1>1, <1>2

(* Sequences, pages and pulls are well formed, one pull runs at a time,    *)
(* and a page always moves forward, whatever the server commits, forgets   *)
(* or restores.                                                            *)
THEOREM ChangesTypeCorrect == FeedSpec => []FeedTypeOK
  <1>1. FeedInit => FeedTypeOK BY InitTyped
  <1>2. FeedTypeOK /\ [FeedNext]_feedVars => FeedTypeOK' BY StepTyped
  <1> QED BY <1>1, <1>2, PTL DEF FeedSpec

-----------------------------------------------------------------------------
(* Completeness.  Rows held are complete through a sequence; a page holds  *)
(* exactly the changes of its window.                                      *)
Complete(rows, through) ==
    \A r \in Rows : row[r].seq \in 1 .. through => Right(r, rows[r])

Exact(after, page) ==
    \A r \in Rows :
        /\ row[r].seq \in 1 .. after => page.upserts[r] = None /\ r \notin page.tombstones
        /\ row[r].seq \in after + 1 .. page.through =>
              IF row[r].live THEN page.upserts[r] = row[r].seq
              ELSE page.upserts[r] = None /\ (after = 0 \/ r \in page.tombstones)

(* What the pull of a tab knows, while no restore or drop spoilt it.       *)
Sure(t) ==
    /\ pull[t].stage \in {"asks", "applies"} /\ pull[t].sure
    /\ pull[t].full \/ ~doubt

Knows(t) ==
    /\ pull[t].after <= cur
    /\ pull[t].full => Complete(pull[t].got, pull[t].after)
    /\ pull[t].full /\ pull[t].after = 0 => pull[t].got = Nothing
    /\ ~pull[t].full => copy.cursor = pull[t].after /\ pull[t].after > 0
    /\ pull[t].stage = "applies" =>
          /\ pull[t].page.through \in pull[t].after .. cur
          /\ Exact(pull[t].after, pull[t].page)
          /\ ~pull[t].page.more /\ ~doubt => copy.cursor <= pull[t].page.through

CopyBehind == ~doubt /\ copy.cursor # None => copy.cursor <= cur

CompleteInv ==
    /\ FeedTypeOK /\ CopyIsComplete /\ CopyBehind
    /\ \A t \in Tabs : Sure(t) => Knows(t)

(* A page put on rows complete through its start makes them complete       *)
(* through its end.                                                        *)
LEMMA PutCompletes ==
    ASSUME FeedTypeOK, NEW t \in Tabs,
           NEW rows \in [Rows -> 1 .. MaxSeq \cup {None}],
           Complete(rows, pull[t].after), Exact(pull[t].after, pull[t].page),
           pull[t].after = 0 => rows = Nothing
    PROVE  Complete(Put(rows, pull[t].page), pull[t].page.through)
  <1> DEFINE after == pull[t].after
             page == pull[t].page
  <1>1. Typed BY TypeParts
  <1>2. /\ after \in 0 .. MaxSeq /\ page.through \in 0 .. MaxSeq
        /\ page.upserts \in [Rows -> 1 .. MaxSeq \cup {None}]
    BY <1>1 DEF Typed, Records
  <1>3. MaxSeq \in Nat BY ChangesAssumption
  <1> SUFFICES ASSUME NEW r \in Rows, row[r].seq \in 1 .. page.through
               PROVE  Right(r, Put(rows, page)[r])
    BY DEF Complete
  <1>4. row[r].seq \in 0 .. MaxSeq /\ row[r].live \in BOOLEAN
    BY <1>1, ServerTyped DEF Typed
  <1>5. CASE row[r].seq \in 1 .. after
    <2>1. page.upserts[r] = None /\ r \notin page.tombstones BY <1>5 DEF Exact
    <2>2. Put(rows, page)[r] = rows[r] BY <2>1 DEF Put
    <2> QED BY <2>2, <1>5 DEF Complete, Right
  <1>6. CASE row[r].seq \in after + 1 .. page.through
    <2>1. CASE row[r].live
      <3>1. page.upserts[r] = row[r].seq BY <1>6, <2>1 DEF Exact
      <3>2. row[r].seq # None BY <1>4 DEF None
      <3> QED BY <2>1, <3>1, <3>2 DEF Put, Right
    <2>2. CASE ~row[r].live
      <3>1. page.upserts[r] = None /\ (after = 0 \/ r \in page.tombstones)
        BY <1>6, <2>2 DEF Exact
      <3>2. after = 0 => rows[r] = None BY DEF Nothing
      <3> QED BY <2>2, <3>1, <3>2 DEF Put, Right
    <2> QED BY <2>1, <2>2, <1>4
  <1>7. row[r].seq \in 1 .. after \/ row[r].seq \in after + 1 .. page.through
    BY <1>2, <1>3, <1>4
  <1> QED BY <1>5, <1>6, <1>7

(* A page the server answers holds exactly the changes of its window.      *)
LEMMA PageExact ==
    ASSUME FeedTypeOK, NEW after \in 0 .. MaxSeq, ~TooOld(after),
           NEW through \in after .. cur
    PROVE  Exact(after, Page(after, through))
  <1>1. Typed BY TypeParts
  <1>2. /\ cur \in 0 .. MaxSeq /\ oldest \in 0 .. MaxSeq
        /\ \A r \in Rows : row[r].seq \in 0 .. MaxSeq /\ row[r].live \in BOOLEAN
    BY <1>1, ServerTyped DEF Typed
  <1>3. MaxSeq \in Nat BY ChangesAssumption
  <1>4. through \in Int /\ after \in Int BY <1>2, <1>3
  <1>5. after = 0 \/ after >= oldest BY <1>2, <1>4 DEF TooOld
  <1> SUFFICES ASSUME NEW r \in Rows
      PROVE  /\ row[r].seq \in 1 .. after =>
                    /\ Page(after, through).upserts[r] = None
                    /\ r \notin Page(after, through).tombstones
             /\ row[r].seq \in after + 1 .. through =>
                  IF row[r].live THEN Page(after, through).upserts[r] = row[r].seq
                  ELSE /\ Page(after, through).upserts[r] = None
                       /\ after = 0 \/ r \in Page(after, through).tombstones
    BY DEF Exact, Page
  <1>6. r \in Upto(after, through) <=>
            /\ row[r].seq > after /\ row[r].seq <= through
            /\ row[r].live \/ (row[r].seq > oldest /\ after > 0)
    BY DEF Upto, Changes, Tombstones
  <1>7. Page(after, through).upserts[r] =
            IF row[r].live /\ r \in Upto(after, through) THEN row[r].seq ELSE None
    BY DEF Page
  <1>8. r \in Page(after, through).tombstones <=> r \in Upto(after, through) /\ ~row[r].live
    BY <1>6 DEF Page
  <1>9. CASE row[r].seq \in 1 .. after
    BY <1>2, <1>4, <1>6, <1>7, <1>8, <1>9
  <1>10. CASE row[r].seq \in after + 1 .. through
    <2>1. row[r].seq > after /\ row[r].seq <= through BY <1>2, <1>4, <1>10
    <2>2. ~(row[r].seq \in 1 .. after) BY <1>2, <1>4, <2>1
    <2>3. CASE row[r].live BY <1>6, <1>7, <2>1, <2>2, <2>3
    <2>4. CASE ~row[r].live
      <3>1. after = 0 \/ r \in Upto(after, through) BY <1>2, <1>4, <1>5, <1>6, <2>1
      <3> QED BY <1>7, <1>8, <2>2, <2>4, <3>1
    <2> QED BY <2>3, <2>4, <1>2
  <1> QED BY <1>9, <1>10

LEMMA InitComplete == ASSUME FeedInit PROVE CompleteInv
  <1>1. FeedTypeOK BY InitTyped
  <1>2. copy.cursor = None /\ \A t \in Tabs : pull[t].stage = "idle" BY DEF FeedInit, Idle
  <1>3. \A r \in Rows : row[r].seq = 0 BY DEF FeedInit
  <1> QED BY <1>1, <1>2, <1>3 DEF CompleteInv, CopyIsComplete, CopyBehind, Sure

(* A step of one tab that leaves server and copy alone.                    *)
LEMMA TabComplete ==
    ASSUME CompleteInv, NEW t \in Tabs, NEW p \in Records,
           pull' = [pull EXCEPT ![t] = p],
           UNCHANGED <<cur, oldest, row, backup, copy, doubt>>,
           Sure(t)' => Knows(t)'
    PROVE  /\ CopyIsComplete' /\ CopyBehind'
           /\ \A u \in Tabs : Sure(u)' => Knows(u)'
  <1>1. Typed BY TypeParts DEF CompleteInv
  <1>2. CopyIsComplete' /\ CopyBehind'
    BY DEF CompleteInv, CopyIsComplete, CopyBehind, Right
  <1>3. ASSUME NEW u \in Tabs, u # t, Sure(u)' PROVE Knows(u)'
    <2>1. pull'[u] = pull[u] BY <1>1, <1>3 DEF Typed
    <2>2. Sure(u) BY <1>3, <2>1 DEF Sure
    <2>3. Knows(u) BY <2>2 DEF CompleteInv
    <2> QED BY <2>1, <2>3 DEF Knows, Complete, Exact, Right
  <1> QED BY <1>2, <1>3

(* The server commits behind the end of every page and cursor.             *)
LEMMA CommitComplete ==
    ASSUME CompleteInv, NEW changed \in SUBSET Rows, NEW deleted \in SUBSET Rows,
           Commit(changed, deleted)
    PROVE  CopyIsComplete' /\ CopyBehind' /\ \A u \in Tabs : Sure(u)' => Knows(u)'
  <1>1. Typed BY TypeParts DEF CompleteInv
  <1>2. /\ cur \in 0 .. MaxSeq
        /\ \A r \in Rows : row[r].seq \in 0 .. MaxSeq /\ row[r].seq <= cur
        /\ MaxSeq \in Nat
    BY <1>1, ServerTyped, ChangesAssumption DEF Typed
  <1>3. UNCHANGED <<oldest, backup, copy, pull, doubt>> /\ cur' = cur + 1 BY DEF Commit
  <1>4. \A r \in Rows : row'[r] = row[r] \/ row'[r].seq = cur + 1 BY DEF Commit
  <1>5. \A r \in Rows, n \in Int : n <= cur /\ row'[r].seq <= n => row'[r] = row[r]
    BY <1>2, <1>4
  <1>6. copy.cursor \in Int BY <1>1, <1>2 DEF Typed, None
  <1>7. CopyIsComplete'
    <2> SUFFICES ASSUME ~doubt', NEW r \in Rows, row'[r].seq \in 1 .. copy'.cursor
                 PROVE  Right(r, copy.rows[r])'
      BY <1>3 DEF CopyIsComplete
    <2>1. copy.cursor <= cur
      BY <1>2, <1>3, <1>6 DEF CompleteInv, CopyBehind, None
    <2>2. row'[r] = row[r] BY <1>3, <1>5, <1>6, <2>1
    <2> QED BY <1>3, <2>2 DEF CompleteInv, CopyIsComplete, Right
  <1>8. CopyBehind' BY <1>2, <1>3, <1>6 DEF CompleteInv, CopyBehind
  <1>9. ASSUME NEW u \in Tabs, Sure(u)' PROVE Knows(u)'
    <2>1. Sure(u) BY <1>3, <1>9 DEF Sure
    <2>2. Knows(u) BY <2>1 DEF CompleteInv
    <2>3. pull[u].after \in Int /\ pull[u].page.through \in Int
      BY <1>1, <1>2 DEF Typed, Records
    <2>4. pull[u].full => Complete(pull[u].got, pull[u].after)'
      <3> SUFFICES ASSUME pull[u].full, NEW r \in Rows, row'[r].seq \in 1 .. pull[u].after
                   PROVE  Right(r, pull[u].got[r])'
        BY <1>3 DEF Complete
      <3>1. row'[r] = row[r] BY <1>5, <2>2, <2>3 DEF Knows
      <3> QED BY <1>3, <2>2, <3>1 DEF Knows, Complete, Right
    <2>5. pull[u].stage = "applies" => Exact(pull[u].after, pull[u].page)'
      <3> SUFFICES ASSUME pull[u].stage = "applies" PROVE Exact(pull[u].after, pull[u].page)'
        OBVIOUS
      <3>1. Exact(pull[u].after, pull[u].page) /\ pull[u].page.through <= cur
            /\ pull[u].after <= cur
        BY <2>2, <2>3, <1>2 DEF Knows
      <3>2. \A r \in Rows : row'[r].seq <= pull[u].page.through \/ row'[r].seq <= pull[u].after
                => row'[r] = row[r]
        BY <1>5, <2>3, <3>1
      <3>3. \A r \in Rows : row'[r].seq \in Int BY <1>2, <1>4
      <3>4. \A r \in Rows :
              row'[r].seq \in 1 .. pull[u].after =>
                 pull[u].page.upserts[r] = None /\ r \notin pull[u].page.tombstones
        BY <3>1, <3>2 DEF Exact
      <3>5. \A r \in Rows :
              row'[r].seq \in pull[u].after + 1 .. pull[u].page.through =>
                 IF row'[r].live THEN pull[u].page.upserts[r] = row'[r].seq
                 ELSE /\ pull[u].page.upserts[r] = None
                      /\ pull[u].after = 0 \/ r \in pull[u].page.tombstones
        BY <3>1, <3>2 DEF Exact
      <3> QED BY <1>3, <3>4, <3>5 DEF Exact
    <2> QED BY <1>2, <1>3, <2>2, <2>3, <2>4, <2>5 DEF Knows
  <1> QED BY <1>7, <1>8, <1>9

(* A restore makes nobody sure; forgetting and a backup change no row.     *)
LEMMA RestoreComplete ==
    ASSUME CompleteInv, Restore
    PROVE  CopyIsComplete' /\ CopyBehind' /\ \A u \in Tabs : Sure(u)' => Knows(u)'
  <1>1. Typed BY TypeParts DEF CompleteInv
  <1>2. doubt' = TRUE BY DEF Restore
  <1>3. \A u \in Tabs : pull'[u].sure = FALSE BY <1>1 DEF Restore, Typed, Records
  <1> QED BY <1>2, <1>3 DEF CopyIsComplete, CopyBehind, Sure

LEMMA RowsStay ==
    ASSUME CompleteInv, UNCHANGED <<cur, row, copy, pull, doubt>>
    PROVE  CopyIsComplete' /\ CopyBehind' /\ \A u \in Tabs : Sure(u)' => Knows(u)'
  BY DEF CompleteInv, CopyIsComplete, CopyBehind, Sure, Knows, Complete, Exact, Right

LEMMA DropComplete ==
    ASSUME CompleteInv, DropCopy
    PROVE  CopyIsComplete' /\ CopyBehind' /\ \A u \in Tabs : Sure(u)' => Knows(u)'
  <1>1. Typed BY TypeParts DEF CompleteInv
  <1>2. copy'.cursor = None /\ UNCHANGED <<cur, row>> BY DEF DropCopy
  <1>3. \A r \in Rows : row[r].seq \in 0 .. MaxSeq BY <1>1, ServerTyped DEF Typed
  <1>4. CopyIsComplete' /\ CopyBehind'
    BY <1>2, <1>3, ChangesAssumption DEF CopyIsComplete, CopyBehind, None
  <1>5. ASSUME NEW u \in Tabs, Sure(u)' PROVE Knows(u)'
    <2>1. pull[u].full /\ pull'[u] = pull[u] BY <1>1, <1>5 DEF DropCopy, Sure, Typed, Records
    <2>2. Knows(u) BY <1>5, <2>1 DEF CompleteInv, Sure
    <2>3. copy'.cursor <= pull[u].page.through
      BY <1>1, <1>2, ChangesAssumption DEF Typed, Records, None
    <2> QED BY <1>2, <2>1, <2>2, <2>3 DEF Knows, Complete, Exact, Right
  <1> QED BY <1>4, <1>5

LEMMA PutAnswerComplete ==
    ASSUME CompleteInv, NEW r \in Rows, PutAnswer(r)
    PROVE  CopyIsComplete' /\ CopyBehind' /\ \A u \in Tabs : Sure(u)' => Knows(u)'
  <1>1. Typed BY TypeParts DEF CompleteInv
  <1>2. copy'.cursor = 0 /\ copy.cursor \in {None, 0}
        /\ UNCHANGED <<cur, oldest, row, backup, pull, doubt>>
    BY DEF PutAnswer
  <1>3. cur \in 0 .. MaxSeq /\ MaxSeq \in Nat
        /\ \A q \in Rows : row[q].seq \in 0 .. MaxSeq
    BY <1>1, ServerTyped, ChangesAssumption DEF Typed
  <1>4. CopyIsComplete' /\ CopyBehind' BY <1>2, <1>3 DEF CopyIsComplete, CopyBehind
  <1>5. ASSUME NEW u \in Tabs, Sure(u)' PROVE Knows(u)'
    <2>1. Sure(u) BY <1>2, <1>5 DEF Sure
    <2>2. Knows(u) BY <2>1 DEF CompleteInv
    <2>3. pull[u].full \/ (pull[u].after = copy.cursor /\ pull[u].after > 0)
      BY <2>2, <1>1 DEF Knows, Typed, Records
    <2>4. pull[u].full BY <1>2, <2>3 DEF None
    <2>5. copy'.cursor <= pull[u].page.through BY <1>1, <1>2, <1>3 DEF Typed, Records
    <2> QED BY <1>2, <2>2, <2>4, <2>5 DEF Knows, Complete, Exact, Right
  <1> QED BY <1>4, <1>5

(* A pull starts from the cursor, or from nothing.                         *)
LEMMA BeginComplete ==
    ASSUME CompleteInv, NEW t \in Tabs, BeginPull(t)
    PROVE  CopyIsComplete' /\ CopyBehind' /\ \A u \in Tabs : Sure(u)' => Knows(u)'
  <1>1. Typed BY TypeParts DEF CompleteInv
  <1> DEFINE p == IF copy.cursor \in {None, 0} THEN Full ELSE From(copy.cursor)
  <1>2. copy.cursor \in 0 .. MaxSeq \cup {None} /\ MaxSeq \in Nat /\ cur \in 0 .. MaxSeq
        /\ \A r \in Rows : row[r].seq \in 0 .. MaxSeq
    BY <1>1, ServerTyped, ChangesAssumption DEF Typed
  <1>3. p \in Records BY <1>2, StartsTyped
  <1>4. pull' = [pull EXCEPT ![t] = p] /\ UNCHANGED <<cur, oldest, row, backup, copy, doubt>>
    BY DEF BeginPull
  <1>5. pull'[t] = p BY <1>1, <1>4 DEF Typed
  <1>6. Sure(t)' => Knows(t)'
    <2> SUFFICES ASSUME Sure(t)' PROVE Knows(t)' OBVIOUS
    <2>1. CASE copy.cursor \in {None, 0}
      <3>1. p.after = 0 /\ p.full /\ p.got = Nothing /\ p.stage = "asks"
        BY <2>1 DEF Full, Idle
      <3>2. 0 <= cur /\ \A r \in Rows : row[r].seq \notin 1 .. 0 BY <1>2
      <3> HIDE DEF p
      <3> QED BY <1>4, <1>5, <3>1, <3>2 DEF Knows, Complete
    <2>2. CASE copy.cursor \notin {None, 0}
      <3>4. copy.cursor \in 0 .. MaxSeq /\ copy.cursor > 0 BY <1>2, <2>2
      <3>5. p = From(copy.cursor) BY <2>2
      <3>1. p.after = copy.cursor /\ ~p.full /\ p.stage = "asks" /\ copy.cursor > 0
        <4> HIDE DEF p
        <4> QED BY <3>4, <3>5, StartsTyped
      <3>2. ~doubt BY <1>4, <1>5, <3>1 DEF Sure
      <3>3. copy.cursor <= cur BY <2>2, <3>2 DEF CompleteInv, CopyBehind
      <3> HIDE DEF p
      <3> QED BY <1>4, <1>5, <3>1, <3>3 DEF Knows
    <2> QED BY <2>1, <2>2
  <1> HIDE DEF p
  <1> QED BY <1>3, <1>4, <1>6, TabComplete

(* Steps after which a tab knows what it knew, or pulls no more.           *)
LEMMA QuietComplete ==
    ASSUME CompleteInv, NEW t \in Tabs, Pull(t) \/ Fails(t) \/ AnswerTooOld(t)
    PROVE  CopyIsComplete' /\ CopyBehind' /\ \A u \in Tabs : Sure(u)' => Knows(u)'
  <1>1. Typed BY TypeParts DEF CompleteInv
  <1>2. cur \in 0 .. MaxSeq /\ MaxSeq \in Nat /\ \A r \in Rows : row[r].seq \in 0 .. MaxSeq
    BY <1>1, ServerTyped, ChangesAssumption DEF Typed
  <1>3. CASE Pull(t)
    <2> DEFINE p == [pull[t] EXCEPT !.stage = "waits"]
    <2>1. p \in Records /\ p.stage = "waits" BY <1>1 DEF Typed, Records
    <2>2. pull' = [pull EXCEPT ![t] = p] /\ pull'[t] = p
          /\ UNCHANGED <<cur, oldest, row, backup, copy, doubt>>
      BY <1>1, <1>3 DEF Pull, Typed
    <2>3. ~Sure(t)' BY <2>1, <2>2 DEF Sure
    <2> HIDE DEF p
    <2> QED BY <2>1, <2>2, <2>3, TabComplete
  <1>4. CASE Fails(t)
    <2>1. pull' = [pull EXCEPT ![t] = Idle] /\ pull'[t] = Idle
          /\ UNCHANGED <<cur, oldest, row, backup, copy, doubt>>
      BY <1>1, <1>4 DEF Fails, Typed
    <2>2. ~Sure(t)' BY <2>1, IdleAgain DEF Sure
    <2> QED BY <2>1, <2>2, IdleAgain, TabComplete
  <1>5. CASE AnswerTooOld(t)
    <2> DEFINE p == IF ~pull[t].full THEN Full
                    ELSE IF pull[t].attempt = 1 THEN [Full EXCEPT !.attempt = 2] ELSE Idle
    <2>1. p \in Records
      <3>1. Idle \in Records /\ Full \in Records BY StartsTyped
      <3>2. [Full EXCEPT !.attempt = 2] \in Records BY <3>1 DEF Records
      <3> QED BY <3>1, <3>2
    <2>2. pull' = [pull EXCEPT ![t] = p] /\ pull'[t] = p
          /\ UNCHANGED <<cur, oldest, row, backup, copy, doubt>>
      BY <1>1, <1>5 DEF AnswerTooOld, Typed
    <2>3. p.stage = "idle" \/ (p.stage = "asks" /\ p.full /\ p.after = 0 /\ p.got = Nothing)
      BY DEF Full, Idle
    <2>4. 0 <= cur /\ \A r \in Rows : row[r].seq \notin 1 .. 0 BY <1>2
    <2> HIDE DEF p
    <2>5. Sure(t)' => Knows(t)' BY <2>2, <2>3, <2>4 DEF Sure, Knows, Complete
    <2> QED BY <2>1, <2>2, <2>5, TabComplete
  <1> QED BY <1>3, <1>4, <1>5

LEMMA AnswerComplete ==
    ASSUME CompleteInv, NEW t \in Tabs, AnswerPage(t)
    PROVE  CopyIsComplete' /\ CopyBehind' /\ \A u \in Tabs : Sure(u)' => Knows(u)'
  <1>1. Typed BY TypeParts DEF CompleteInv
  <1>2. pull[t] \in Records /\ pull[t].after \in 0 .. MaxSeq BY <1>1 DEF Typed, Records
  <1>3. PICK through \in pull[t].after .. cur :
            pull' = [pull EXCEPT ![t].stage = "applies",
                                 ![t].page = Page(pull[t].after, through)]
    BY DEF AnswerPage
  <1> DEFINE page == Page(pull[t].after, through)
             p == [pull[t] EXCEPT !.stage = "applies", !.page = page]
  <1>4. pull' = [pull EXCEPT ![t] = p] /\ pull'[t] = p BY <1>1, <1>3 DEF Typed
  <1>5. p \in Records BY <1>1, <1>2, <1>3, PageTyped DEF Records, CompleteInv
  <1>6. /\ p.after = pull[t].after /\ p.full = pull[t].full /\ p.got = pull[t].got
        /\ p.sure = pull[t].sure /\ p.stage = "applies" /\ p.page = page
    BY <1>2 DEF Records
  <1>7. page.through = through /\ (page.more <=> through < cur) BY DEF Page
  <1>8. Exact(pull[t].after, page) BY <1>1, <1>2, <1>3, PageExact DEF CompleteInv, AnswerPage
  <1>9. UNCHANGED <<cur, oldest, row, backup, copy, doubt>> /\ pull[t].stage = "asks"
    BY DEF AnswerPage
  <1>10. ~page.more /\ ~doubt => copy.cursor <= page.through
    <2>1. cur \in 0 .. MaxSeq /\ MaxSeq \in Nat
      BY <1>1, ServerTyped, ChangesAssumption DEF Typed
    <2>2. copy.cursor \in 0 .. MaxSeq \cup {None} BY <1>1 DEF Typed
    <2>3. ~doubt => copy.cursor <= cur BY <2>1, <2>2 DEF CompleteInv, CopyBehind, None
    <2> HIDE DEF page
    <2>4. ~(through < cur) => through = cur BY <1>2, <2>1
    <2> QED BY <1>7, <2>3, <2>4
  <1>11. Sure(t)' => Knows(t)'
    <2> HIDE DEF p, page
    <2> SUFFICES ASSUME Sure(t)' PROVE Knows(t)' OBVIOUS
    <2>1. Sure(t) BY <1>4, <1>6, <1>9 DEF Sure
    <2>2. Knows(t) BY <2>1 DEF CompleteInv
    <2>3. Complete(pull[t].got, pull[t].after)' <=> Complete(p.got, p.after)
      BY <1>4, <1>9 DEF Complete, Right
    <2>4. Exact(pull[t].after, pull[t].page)' <=> Exact(p.after, p.page)
      BY <1>4, <1>9 DEF Exact
    <2> QED BY <1>3, <1>4, <1>6, <1>7, <1>8, <1>9, <1>10, <2>2, <2>3, <2>4 DEF Knows
  <1> HIDE DEF p
  <1> QED BY <1>4, <1>5, <1>9, <1>11, TabComplete

(* While a tab pulls, no other tab is sure of anything.                    *)
LEMMA OthersUnsure ==
    ASSUME FeedTypeOK, NEW t \in Tabs, t \in Pulling, NEW p,
           pull' = [pull EXCEPT ![t] = p],
           NEW u \in Tabs, u # t
    PROVE  ~Sure(u)'
  <1>1. Typed /\ OnePulls BY TypeParts
  <1>2. pull'[u] = pull[u] BY <1>1 DEF Typed
  <1>3. u \notin Pulling BY <1>1 DEF OnePulls
  <1> QED BY <1>2, <1>3 DEF Sure, Pulling

LEMMA KeepPageComplete ==
    ASSUME CompleteInv, NEW t \in Tabs, KeepPage(t)
    PROVE  CopyIsComplete' /\ CopyBehind' /\ \A u \in Tabs : Sure(u)' => Knows(u)'
  <1>1. Typed /\ Forward BY TypeParts DEF CompleteInv
  <1>2. pull[t] \in Records BY <1>1 DEF Typed
  <1> DEFINE page == pull[t].page
             rows == Put(pull[t].got, page)
             p == [Asks(t, page.through) EXCEPT !.got = rows]
  <1>3. /\ page.through \in 0 .. MaxSeq /\ pull[t].got \in [Rows -> 1 .. MaxSeq \cup {None}]
        /\ pull[t].after \in 0 .. MaxSeq
    BY <1>2 DEF Records
  <1>4. rows \in [Rows -> 1 .. MaxSeq \cup {None}] BY <1>2, <1>3, PutTyped
  <1>5. p \in Records BY <1>3, <1>4, AsksTyped DEF CompleteInv
  <1>6. Asks(t, page.through).got = pull[t].got BY <1>2 DEF Asks, Records
  <1>7. pull' = [pull EXCEPT ![t] = p]
    <2>1. pull' = [pull EXCEPT ![t] = [Asks(t, page.through) EXCEPT !.got =
                      Put(Asks(t, page.through).got, page)]]
      BY DEF KeepPage, Asks
    <2> QED BY <2>1, <1>6
  <1>8. pull'[t] = p BY <1>1, <1>7 DEF Typed
  <1>9. /\ p.stage = "asks" /\ p.after = page.through /\ p.got = rows
        /\ p.full = pull[t].full /\ p.sure = pull[t].sure
    BY <1>2 DEF Asks, Records
  <1>10. /\ UNCHANGED <<cur, oldest, row, backup, copy, doubt>> /\ pull[t].full
         /\ pull[t].stage = "applies" /\ page.more
    BY DEF KeepPage
  <1>11. page.through > 0 BY <1>1, <1>3, <1>10, ChangesAssumption DEF Forward
  <1>12. Sure(t)' => Knows(t)'
    <2> SUFFICES ASSUME Sure(t)' PROVE Knows(t)' OBVIOUS
    <2>1. Sure(t) BY <1>8, <1>9, <1>10 DEF Sure
    <2>2. Knows(t) BY <2>1 DEF CompleteInv
    <2>3. Complete(rows, page.through)
      BY <1>3, <1>10, <2>2, PutCompletes DEF Knows, CompleteInv
    <2> HIDE DEF p, rows, page
    <2>4. Complete(pull[t].got, pull[t].after)' <=> Complete(p.got, p.after)
      BY <1>8, <1>10 DEF Complete, Right
    <2>5. page.through <= cur
      BY <1>3, <1>10, <2>2, ServerTyped, <1>1 DEF Knows, page, Typed
    <2> QED BY <1>8, <1>9, <1>10, <1>11, <2>3, <2>4, <2>5 DEF Knows
  <1> HIDE DEF p
  <1> QED BY <1>5, <1>7, <1>10, <1>12, TabComplete

LEMMA ApplyPageComplete ==
    ASSUME CompleteInv, NEW t \in Tabs, ApplyPage(t)
    PROVE  CopyIsComplete' /\ CopyBehind' /\ \A u \in Tabs : Sure(u)' => Knows(u)'
  <1>1. Typed /\ Forward BY TypeParts DEF CompleteInv
  <1>2. pull[t] \in Records BY <1>1 DEF Typed
  <1> DEFINE page == pull[t].page
             p == IF page.more THEN Asks(t, page.through) ELSE Idle
  <1>3. /\ page.through \in 0 .. MaxSeq /\ pull[t].after \in 0 .. MaxSeq
        /\ copy.rows \in [Rows -> 1 .. MaxSeq \cup {None}]
        /\ cur \in 0 .. MaxSeq /\ MaxSeq \in Nat
    BY <1>1, <1>2, ServerTyped, ChangesAssumption DEF Records, Typed
  <1>4. /\ copy' = [rows |-> Put(copy.rows, page), cursor |-> page.through]
        /\ doubt' = (doubt \/ ~pull[t].sure) /\ UNCHANGED <<cur, oldest, row, backup>>
        /\ ~pull[t].full /\ pull[t].stage = "applies" /\ pull' = [pull EXCEPT ![t] = p]
    BY DEF ApplyPage
  <1>5. pull'[t] = p BY <1>1, <1>4 DEF Typed
  <1>6. t \in Pulling BY <1>4 DEF Pulling
  <1>7. ASSUME ~doubt' PROVE /\ Complete(Put(copy.rows, page), page.through)
                             /\ page.through <= cur /\ page.through >= pull[t].after
                             /\ pull[t].after > 0
    <2>1. Sure(t) BY <1>2, <1>4, <1>7 DEF Sure, Records
    <2>2. Knows(t) BY <2>1 DEF CompleteInv
    <2>3. copy.cursor = pull[t].after /\ pull[t].after > 0 BY <1>4, <2>2 DEF Knows
    <2>4. ~doubt BY <1>4, <1>7
    <2>5. Complete(copy.rows, pull[t].after)
      BY <2>3, <2>4 DEF CompleteInv, CopyIsComplete, Complete
    <2>6. Exact(pull[t].after, page) /\ page.through \in pull[t].after .. cur
      BY <1>4, <2>2 DEF Knows
    <2>7. Complete(Put(copy.rows, page), page.through)
      BY <1>3, <2>3, <2>5, <2>6, PutCompletes DEF CompleteInv
    <2> QED BY <1>3, <2>3, <2>6, <2>7
  <1>8. CopyIsComplete' /\ CopyBehind'
    BY <1>4, <1>7 DEF CopyIsComplete, CopyBehind, Complete, Right
  <1>9. Sure(t)' => Knows(t)'
    <2> SUFFICES ASSUME Sure(t)' PROVE Knows(t)' OBVIOUS
    <2>1. page.more BY <1>5, IdleAgain DEF Sure
    <2>2. /\ p.stage = "asks" /\ p.after = page.through /\ p.full = FALSE
      BY <1>2, <1>4, <2>1 DEF Asks, Records
    <2>3. ~doubt' BY <1>5, <2>2 DEF Sure
    <2>4. page.through <= cur /\ page.through > 0 BY <1>3, <1>7, <2>3
    <2> HIDE DEF p
    <2> QED BY <1>4, <1>5, <2>2, <2>4 DEF Knows
  <1> HIDE DEF p
  <1>10. \A u \in Tabs : u # t => ~Sure(u)'
    BY <1>4, <1>6, OthersUnsure DEF CompleteInv
  <1> QED BY <1>8, <1>9, <1>10

LEMMA ReplaceCopyComplete ==
    ASSUME CompleteInv, NEW t \in Tabs, ReplaceCopy(t)
    PROVE  /\ CopyIsComplete' /\ CopyBehind'
           /\ \A u \in Tabs : Sure(u)' => Knows(u)'
           /\ ~doubt /\ ~doubt' => copy'.cursor >= copy.cursor
  <1>1. Typed BY TypeParts DEF CompleteInv
  <1>2. pull[t] \in Records BY <1>1 DEF Typed
  <1> DEFINE page == pull[t].page
  <1>3. /\ page.through \in 0 .. MaxSeq /\ pull[t].after \in 0 .. MaxSeq
        /\ pull[t].got \in [Rows -> 1 .. MaxSeq \cup {None}]
        /\ cur \in 0 .. MaxSeq /\ MaxSeq \in Nat
        /\ copy.cursor \in 0 .. MaxSeq \cup {None}
    BY <1>1, <1>2, ServerTyped, ChangesAssumption DEF Records, Typed
  <1>4. /\ copy' = [rows |-> Put(pull[t].got, page), cursor |-> page.through]
        /\ doubt' = ~pull[t].sure /\ UNCHANGED <<cur, oldest, row, backup>>
        /\ pull[t].full /\ pull[t].stage = "applies" /\ ~page.more
        /\ pull' = [pull EXCEPT ![t] = Idle]
    BY DEF ReplaceCopy, Whole
  <1>5. pull'[t] = Idle BY <1>1, <1>4 DEF Typed
  <1>6. t \in Pulling BY <1>4 DEF Pulling
  <1>7. ASSUME ~doubt' PROVE /\ Complete(Put(pull[t].got, page), page.through)
                             /\ page.through <= cur
                             /\ ~doubt => page.through >= copy.cursor
    <2>1. Sure(t) BY <1>4, <1>7 DEF Sure
    <2>2. Knows(t) BY <2>1 DEF CompleteInv
    <2>3. Complete(pull[t].got, pull[t].after) /\ Exact(pull[t].after, page)
          /\ page.through \in pull[t].after .. cur
          /\ (pull[t].after = 0 => pull[t].got = Nothing)
          /\ (~doubt => copy.cursor <= page.through)
      BY <1>4, <2>2 DEF Knows
    <2>4. Complete(Put(pull[t].got, page), page.through)
      BY <1>3, <2>3, PutCompletes DEF CompleteInv
    <2> QED BY <1>3, <2>3, <2>4 DEF None
  <1>8. CopyIsComplete' /\ CopyBehind'
    BY <1>4, <1>7 DEF CopyIsComplete, CopyBehind, Complete, Right
  <1>9. ~Sure(t)' BY <1>5, IdleAgain DEF Sure
  <1>10. \A u \in Tabs : u # t => ~Sure(u)'
    BY <1>4, <1>6, OthersUnsure DEF CompleteInv
  <1> QED BY <1>4, <1>7, <1>8, <1>9, <1>10

LEMMA StepComplete == ASSUME CompleteInv, [FeedNext]_feedVars PROVE CompleteInv'
  <1>1. FeedTypeOK' BY StepTyped DEF CompleteInv
  <1>2. CASE UNCHANGED feedVars
    BY <1>1, <1>2, RowsStay DEF feedVars, CompleteInv
  <1>3. CASE FeedNext
    <2>1. CASE \E through \in 1 .. MaxSeq : Forget(through)
      BY <1>1, <2>1, RowsStay DEF Forget, CompleteInv
    <2>2. CASE Backup BY <1>1, <2>2, RowsStay DEF Backup, CompleteInv
    <2>3. CASE \E changed, deleted \in SUBSET Rows : Commit(changed, deleted)
      BY <1>1, <2>3, CommitComplete DEF CompleteInv
    <2>4. CASE Restore \/ DropCopy \/ \E r \in Rows : PutAnswer(r)
      BY <1>1, <2>4, RestoreComplete, DropComplete, PutAnswerComplete DEF CompleteInv
    <2>5. CASE \E t \in Tabs : Pull(t) \/ Fails(t) \/ AnswerTooOld(t)
      BY <1>1, <2>5, QuietComplete DEF CompleteInv
    <2>6. CASE \E t \in Tabs : BeginPull(t) \/ AnswerPage(t) \/ ApplyPage(t) \/ KeepPage(t)
      BY <1>1, <2>6, BeginComplete, AnswerComplete, ApplyPageComplete, KeepPageComplete
      DEF CompleteInv
    <2>7. CASE \E t \in Tabs : ReplaceCopy(t)
      BY <1>1, <2>7, ReplaceCopyComplete DEF CompleteInv
    <2> QED BY <1>3, <2>1, <2>2, <2>3, <2>4, <2>5, <2>6, <2>7 DEF FeedNext
  <1> QED BY <1>2, <1>3

(* Every change the server committed up to the cursor is in the copy, for  *)
(* any rows, tabs and page limit.                                          *)
THEOREM ChangesComplete == FeedSpec => []CopyIsComplete
  <1>1. CompleteInv => CopyIsComplete BY DEF CompleteInv
  <1>2. FeedInit => CompleteInv BY InitComplete
  <1>3. CompleteInv /\ [FeedNext]_feedVars => CompleteInv' BY StepComplete
  <1> QED BY <1>1, <1>2, <1>3, PTL DEF FeedSpec

(* The cursor goes back only when the copy is dropped or read again from a *)
(* restored server.                                                        *)
THEOREM ChangesAdvance == FeedSpec => CursorAdvances
  <1>1. ASSUME CompleteInv, [FeedNext]_feedVars
        PROVE  [CursorAdvancesStep]_feedVars
    <2> SUFFICES ASSUME FeedNext, copy'.cursor # None, ~doubt, ~doubt'
                 PROVE  copy'.cursor >= copy.cursor
      BY <1>1 DEF CursorAdvancesStep
    <2>1. Typed BY <1>1, TypeParts DEF CompleteInv
    <2>2. copy.cursor \in 0 .. MaxSeq \cup {None} /\ MaxSeq \in Nat
      BY <2>1, ChangesAssumption DEF Typed
    <2>3. CASE UNCHANGED copy BY <2>2, <2>3 DEF None
    <2>4. CASE \E r \in Rows : PutAnswer(r) BY <2>4 DEF PutAnswer, None
    <2>5. CASE DropCopy BY <2>5 DEF DropCopy
    <2>6. CASE \E t \in Tabs : ReplaceCopy(t) BY <1>1, <2>6, ReplaceCopyComplete
    <2>7. ASSUME NEW t \in Tabs, ApplyPage(t) PROVE copy'.cursor >= copy.cursor
      <3>1. pull[t].sure /\ ~pull[t].full /\ pull[t].stage = "applies"
            /\ copy'.cursor = pull[t].page.through
        BY <2>1, <2>7 DEF ApplyPage, Typed, Records
      <3>2. Knows(t) BY <1>1, <3>1 DEF CompleteInv, Sure
      <3>3. copy.cursor = pull[t].after /\ pull[t].page.through \in pull[t].after .. cur
        BY <3>1, <3>2 DEF Knows
      <3> QED BY <2>2, <3>1, <3>3
    <2> QED
      BY <2>3, <2>4, <2>5, <2>6, <2>7
      DEF FeedNext, Commit, Forget, Backup, Restore, Pull, BeginPull, AnswerPage, AnswerTooOld, Fails, KeepPage
  <1>2. FeedInit => CompleteInv BY InitComplete
  <1>3. CompleteInv /\ [FeedNext]_feedVars => CompleteInv' BY StepComplete
  <1> QED BY <1>1, <1>2, <1>3, PTL DEF FeedSpec, CursorAdvances

-----------------------------------------------------------------------------

Versions == [Objects -> Nat]
Calendar == [listed : Int, synced : Int, completed : BOOLEAN]
Run == [pc : {"idle", "calendars", "replace", "versions", "list", "fetch", "apply", "done"},
        cal : Calendar, all : BOOLEAN, had : Versions, seen : Versions, got : Versions]

DavShape ==
    /\ onServer \in Versions /\ onDevice \in Versions /\ marker \in Nat
    /\ stored \in Calendar /\ runs \in [Works -> Run] /\ overlap \in BOOLEAN

(* What the one run that is under way has read is still so, but for what   *)
(* the server changed since the marker was listed.                         *)
Backed(run) ==
    /\ run.cal.listed <= marker
    /\ run.pc = "calendars" => stored.synced <= run.cal.listed
    /\ run.pc = "replace" => run.cal = [stored EXCEPT !.listed = run.cal.listed]
                             /\ stored.synced <= run.cal.listed
    /\ run.pc \in {"versions", "list", "fetch", "apply"} =>
          run.cal = stored /\ (run.cal.completed => run.all)
    /\ run.pc \in {"list", "fetch", "apply"} => run.had = onDevice
    /\ run.pc \in {"fetch", "apply"} /\ run.cal.listed = marker =>
          run.seen = Listed(run.all)
    /\ run.pc = "apply" /\ run.cal.listed = marker =>
          \A o \in Wanted(run) : run.got[o] \in {Absent, onServer[o]}

DavAlone ==
    /\ stored.synced <= stored.listed /\ stored.listed <= marker
    /\ \A r, t \in Busy : r = t
    /\ \A r \in Busy : Backed(runs[r])
    /\ InStep

DavInv == DavShape /\ (~overlap => DavAlone)

LEMMA DavStarts == DavInit => DavInv
<1> SUFFICES ASSUME DavInit PROVE DavInv
  OBVIOUS
<1>1. NoObjects \in Versions /\ NoCalendar \in Calendar
  BY DEF NoObjects, Versions, NoCalendar, Calendar, Absent, NoMarker
<1>2. IdleRun \in Run
  BY <1>1 DEF IdleRun, Run
<1>3. DavShape
  <2>1. onServer \in Versions /\ marker \in Nat /\ overlap \in BOOLEAN
    <3>1. onServer \in [Objects -> {0, 1}]
      BY DEF DavInit, Absent
    <3>2. onServer \in Versions
      BY <3>1 DEF Versions
    <3>3. marker \in Nat
      BY DEF DavInit
    <3>4. overlap \in BOOLEAN
      BY Zenon DEF DavInit
    <3> QED
      BY <3>2, <3>3, <3>4
  <2>2. onDevice \in Versions /\ stored \in Calendar /\ runs \in [Works -> Run]
    BY <1>1, <1>2 DEF DavInit
  <2> QED
    BY <2>1, <2>2 DEF DavShape
<1>4. Busy = {}
  <2>1. IdleRun.pc = "idle"
    BY DEF IdleRun
  <2> QED
    BY <2>1 DEF DavInit, Busy
<1>5. stored.synced = 0 - 1 /\ stored.listed = 0 - 1 /\ marker = 0
  BY DEF DavInit, NoCalendar, NoMarker
<1>6. DavAlone
  BY <1>4, <1>5 DEF DavAlone, InStep
<1> QED
  BY <1>3, <1>6 DEF DavInv

(* A step of one run, alone or not.                                        *)
Advances(r, run) ==
    /\ runs' = [runs EXCEPT ![r] = run]
    /\ onServer' = onServer /\ marker' = marker
    /\ onDevice' \in Versions /\ stored' \in Calendar /\ overlap' \in BOOLEAN
    /\ ~overlap' =>
          /\ ~overlap /\ Busy \subseteq {r}
          /\ DavAlone => /\ stored'.synced <= stored'.listed /\ stored'.listed <= marker
                         /\ run.pc \notin {"idle", "done"} => Backed(run)'
                         /\ InStep'

LEMMA OneRunSteps ==
    ASSUME DavInv, NEW r \in Works, NEW run \in Run, Advances(r, run)
    PROVE  DavInv'
<1>1. runs' \in [Works -> Run] /\ runs'[r] = run /\ \A t \in Works \ {r} : runs'[t] = runs[t]
  BY DEF DavInv, DavShape, Advances
<1>2. DavShape'
  BY <1>1 DEF DavInv, DavShape, Advances
<1>3. ASSUME ~overlap' PROVE DavAlone'
  <2>1. DavAlone /\ Busy \subseteq {r}
    BY <1>3 DEF DavInv, Advances
  <2>2. Busy' \subseteq {r} /\ (r \in Busy' => run.pc \notin {"idle", "done"})
    BY <1>1, <2>1 DEF Busy
  <2>3. \A t \in Busy' : Backed(runs[t])'
    BY <1>1, <1>3, <2>1, <2>2 DEF Advances
  <2> QED
    BY <1>3, <2>1, <2>2, <2>3 DEF DavAlone, Advances
<1> QED
  BY <1>2, <1>3 DEF DavInv

LEMMA ChangeKeeps == DavInv /\ Change => DavInv'
<1> SUFFICES ASSUME DavInv, Change PROVE DavInv'
  OBVIOUS
<1>1. /\ marker' = marker + 1 /\ marker \in Nat
      /\ UNCHANGED <<onDevice, stored, runs, refreshes, overlap>>
      /\ onServer' \in Versions
  BY DEF DavInv, DavShape, Change, Versions, Absent
<1>2. ASSUME ~overlap PROVE DavAlone'
  <2>1. stored.listed \in Int /\ stored.synced \in Int /\ DavAlone
    BY <1>2 DEF DavInv, DavShape, Calendar
  <2>2. \A r \in Works : runs[r].cal.listed \in Int
    BY DEF DavInv, DavShape, Run, Calendar
  <2>3. Busy' = Busy /\ Busy \subseteq Works
    BY <1>1 DEF Busy
  <2>4. \A r \in Busy : Backed(runs[r])'
    BY <1>1, <2>1, <2>2, <2>3 DEF DavAlone, Backed
  <2>5. InStep'
    BY <1>1, <2>1 DEF DavAlone, InStep
  <2> QED
    BY <1>1, <2>1, <2>3, <2>4, <2>5 DEF DavAlone
<1> QED
  BY <1>1, <1>2 DEF DavInv, DavShape

LEMMA Idles == IdleRun \in Run /\ IdleRun.pc = "idle" /\ NoCalendar \in Calendar
<1>1. NoObjects \in Versions /\ NoCalendar \in Calendar
  BY DEF NoObjects, Versions, NoCalendar, Calendar, Absent, NoMarker
<1> QED
  BY <1>1 DEF IdleRun, Run

LEMMA RefreshBegins ==
    ASSUME DavInv, ListCalendars
    PROVE  DavInv'
<1> PICK cal : cal = [IdleRun.cal EXCEPT !.listed = marker]
  OBVIOUS
<1> PICK run : run = [IdleRun EXCEPT !.pc = "calendars", !.cal = cal]
  OBVIOUS
<1>1. "refresh" \in Works /\ stored \in Calendar /\ marker \in Nat
  BY DEF Works, DavInv, DavShape
<1>2. IdleRun.cal \in Calendar
  BY Idles DEF Run
<1>3. cal \in Calendar /\ cal.listed = marker
  BY <1>1, <1>2 DEF Calendar
<1>4. run \in Run /\ run.pc = "calendars" /\ run.cal.listed = marker
  BY <1>3, Idles DEF Run
<1>5. /\ runs' = [runs EXCEPT !["refresh"] = run] /\ Overlaps("refresh")
      /\ UNCHANGED <<onServer, marker, onDevice, stored>>
  BY DEF ListCalendars, Goes
<1>6. overlap' \in BOOLEAN /\ (~overlap' => ~overlap /\ Busy \subseteq {"refresh"})
  BY <1>5 DEF Overlaps, DavInv, DavShape
<1>7. ASSUME DavAlone, ~overlap
      PROVE  Backed(run)' /\ InStep'
  <2>1. stored.listed \in Int /\ stored.synced \in Int
    BY <1>1 DEF Calendar
  <2>2. stored.synced <= stored.listed /\ stored.listed <= marker /\ InStep
    BY <1>7 DEF DavAlone
  <2>3. stored.synced <= marker
    BY <1>1, <2>1, <2>2
  <2>4. Backed(run)'
    <3>1. run.cal.listed <= marker' /\ stored'.synced <= run.cal.listed
      BY <1>1, <1>4, <1>5, <2>3
    <3>2. /\ run.pc # "replace" /\ run.pc \notin {"versions", "list", "fetch", "apply"}
          /\ run.pc \notin {"list", "fetch", "apply"} /\ run.pc \notin {"fetch", "apply"}
          /\ run.pc # "apply"
      BY <1>4
    <3> QED
      BY <3>1, <3>2, Zenon DEF Backed
  <2>5. InStep'
    BY <1>5, <1>6, <1>7, <2>2 DEF InStep
  <2> QED
    BY <2>4, <2>5
<1>8. Advances("refresh", run)
  BY <1>1, <1>5, <1>6, <1>7 DEF Advances, DavAlone, DavInv, DavShape
<1> QED
  BY <1>1, <1>4, <1>8, OneRunSteps

LEMMA LoadBegins ==
    ASSUME DavInv, NEW l \in Loads, LoadCompleted(l)
    PROVE  DavInv'
<1> PICK run : run = [IdleRun EXCEPT !.pc = "versions", !.cal = stored, !.all = TRUE]
  OBVIOUS
<1>1. l \in Works /\ stored \in Calendar
  BY DEF Works, DavInv, DavShape
<1>2. run \in Run /\ run.pc = "versions" /\ run.cal = stored
  BY <1>1, Idles DEF Run
<1>3. run.all
  BY Idles, Zenon DEF Run
<1>4. /\ runs' = [runs EXCEPT ![l] = run] /\ Overlaps(l)
      /\ UNCHANGED <<onServer, marker, onDevice, stored>>
  BY DEF LoadCompleted, Goes
<1>5. overlap' \in BOOLEAN /\ (~overlap' => ~overlap /\ Busy \subseteq {l})
  BY <1>4 DEF Overlaps, DavInv, DavShape
<1>6. ASSUME DavAlone, ~overlap
      PROVE  Backed(run)' /\ InStep'
  <2>1. Backed(run)'
    <3>1. run.cal.listed <= marker' /\ run.cal = stored'
      BY <1>2, <1>4, <1>6 DEF DavAlone
    <3>2. /\ run.pc # "calendars" /\ run.pc # "replace" /\ run.pc # "apply"
          /\ run.pc \notin {"list", "fetch", "apply"} /\ run.pc \notin {"fetch", "apply"}
      BY <1>2
    <3> QED
      BY <1>3, <3>1, <3>2, Zenon DEF Backed
  <2>2. InStep'
    BY <1>4, <1>5, <1>6 DEF InStep, DavAlone
  <2> QED
    BY <2>1, <2>2
<1>7. Advances(l, run)
  BY <1>1, <1>4, <1>5, <1>6 DEF Advances, DavAlone, DavInv, DavShape
<1> QED
  BY <1>1, <1>2, <1>7, OneRunSteps

(* The run under way goes on, and changes nothing of the store.            *)
LEMMA ReadsKeep ==
    ASSUME DavInv, NEW r \in Busy, NEW run \in Run,
           runs' = [runs EXCEPT ![r] = run],
           UNCHANGED <<onServer, marker, onDevice, stored, overlap>>,
           DavAlone => (run.pc \notin {"idle", "done"} => Backed(run))
    PROVE  DavInv'
<1>1. r \in Works /\ (~overlap => Busy \subseteq {r})
  BY DEF DavInv, DavAlone, Busy
<1>2. DavAlone => InStep' /\ (run.pc \notin {"idle", "done"} => Backed(run)')
  BY DEF DavAlone, InStep, Backed, Listed, Wanted, IsCurrent
<1>3. onDevice' \in Versions /\ stored' \in Calendar /\ overlap' \in BOOLEAN
  BY DEF DavInv, DavShape
<1>4. Advances(r, run)
  BY <1>1, <1>2, <1>3 DEF Advances, DavAlone
<1> QED
  BY <1>1, <1>4, OneRunSteps

LEMMA RunKnown ==
    ASSUME DavInv, NEW r \in Works
    PROVE  /\ runs[r] \in Run /\ stored \in Calendar /\ marker \in Nat
           /\ onDevice \in Versions /\ onServer \in Versions
           /\ runs[r].pc \notin {"idle", "done"} => r \in Busy
           /\ DavAlone /\ r \in Busy => Backed(runs[r])
BY DEF DavInv, DavShape, Busy, DavAlone

LEMMA ReadCalendarsKeeps ==
    ASSUME DavInv, ReadCalendars
    PROVE  DavInv'
<1> PICK old : old = runs["refresh"]
  OBVIOUS
<1> PICK cal : cal = [stored EXCEPT !.listed = old.cal.listed]
  OBVIOUS
<1> PICK run : run = [old EXCEPT !.pc = "replace", !.cal = cal]
  OBVIOUS
<1>1. /\ "refresh" \in Busy /\ old \in Run /\ old.pc = "calendars" /\ stored \in Calendar
      /\ DavAlone => Backed(old)
  BY RunKnown DEF Works, ReadCalendars
<1>2. /\ runs' = [runs EXCEPT !["refresh"] = run]
      /\ UNCHANGED <<onServer, marker, onDevice, stored, overlap>>
  BY DEF ReadCalendars, Goes
<1>3. cal \in Calendar /\ cal.listed = old.cal.listed
  BY <1>1 DEF Calendar, Run
<1>4. run \in Run /\ run.pc = "replace" /\ run.cal = cal
  BY <1>1, <1>3 DEF Run
<1>5. ASSUME DavAlone PROVE Backed(run)
  <2>1. cal.listed <= marker /\ stored.synced <= cal.listed
    BY <1>1, <1>3, <1>5 DEF Backed
  <2>2. cal = [stored EXCEPT !.listed = cal.listed]
    BY <1>3
  <2>3. /\ run.pc # "calendars" /\ run.pc # "apply"
        /\ run.pc \notin {"versions", "list", "fetch", "apply"}
        /\ run.pc \notin {"list", "fetch", "apply"} /\ run.pc \notin {"fetch", "apply"}
    BY <1>4
  <2> QED
    BY <1>4, <2>1, <2>2, <2>3, Zenon DEF Backed
<1> QED
  BY <1>1, <1>2, <1>4, <1>5, ReadsKeep

LEMMA ReplaceKeeps ==
    ASSUME DavInv, ReplaceCalendars
    PROVE  DavInv'
<1> PICK old : old = runs["refresh"]
  OBVIOUS
<1> PICK run : run = IF Unchanged(old.cal) THEN IdleRun
                     ELSE [old EXCEPT !.pc = "versions", !.all = old.cal.completed]
  OBVIOUS
<1>1. /\ "refresh" \in Works /\ "refresh" \in Busy /\ old \in Run /\ old.pc = "replace"
      /\ stored \in Calendar /\ onDevice \in Versions
      /\ DavAlone => Backed(old)
  BY RunKnown DEF Works, ReplaceCalendars
<1>2. /\ runs' = [runs EXCEPT !["refresh"] = run] /\ stored' = old.cal
      /\ UNCHANGED <<onServer, marker, onDevice, overlap>>
  BY DEF ReplaceCalendars, Goes
<1>3. old.cal \in Calendar
  BY <1>1 DEF Run
<1>4. CASE run = IdleRun
  <2>1. run \in Run /\ run.pc = "idle"
    BY <1>4, Idles
  <2>2. ASSUME DavAlone, ~overlap
        PROVE  /\ stored'.synced <= stored'.listed /\ stored'.listed <= marker /\ InStep'
               /\ Busy \subseteq {"refresh"}
    <3>1. /\ old.cal = [stored EXCEPT !.listed = old.cal.listed]
          /\ stored.synced <= old.cal.listed /\ old.cal.listed <= marker
      BY <1>1, <2>2 DEF Backed
    <3>2. old.cal.synced = stored.synced /\ old.cal.completed = stored.completed
      BY <1>1, <3>1 DEF Calendar
    <3>3. InStep'
      BY <1>2, <2>2, <3>2 DEF InStep, DavAlone
    <3> QED
      BY <1>1, <1>2, <2>2, <3>1, <3>2, <3>3 DEF DavAlone
  <2>3. Advances("refresh", run)
    BY <1>1, <1>2, <1>3, <2>1, <2>2 DEF Advances, DavInv, DavShape
  <2> QED
    BY <1>1, <2>1, <2>3, OneRunSteps
<1>5. CASE run = [old EXCEPT !.pc = "versions", !.all = old.cal.completed]
  <2>1. run \in Run /\ run.pc = "versions" /\ run.cal = old.cal
    BY <1>1, <1>3, <1>5 DEF Run, Calendar
  <2>2. run.cal.completed => run.all
    <3>1. run.all = old.cal.completed
      BY <1>1, <1>5, Zenon DEF Run
    <3> QED
      BY <2>1, <3>1, Zenon
  <2>3. ASSUME DavAlone, ~overlap
        PROVE  /\ stored'.synced <= stored'.listed /\ stored'.listed <= marker /\ InStep'
               /\ Busy \subseteq {"refresh"} /\ Backed(run)'
    <3>1. /\ old.cal = [stored EXCEPT !.listed = old.cal.listed]
          /\ stored.synced <= old.cal.listed /\ old.cal.listed <= marker
      BY <1>1, <2>3 DEF Backed
    <3>2. old.cal.synced = stored.synced /\ old.cal.completed = stored.completed
      BY <1>1, <3>1 DEF Calendar
    <3>3. InStep'
      BY <1>2, <2>3, <3>2 DEF InStep, DavAlone
    <3>4. /\ run.pc # "calendars" /\ run.pc # "replace" /\ run.pc # "apply"
          /\ run.pc \notin {"list", "fetch", "apply"} /\ run.pc \notin {"fetch", "apply"}
      BY <2>1
    <3>5. run.cal.listed <= marker' /\ run.cal = stored'
      BY <1>2, <2>1, <3>1
    <3>6. Backed(run)'
      BY <2>2, <3>4, <3>5, Zenon DEF Backed
    <3> QED
      BY <1>1, <1>2, <2>3, <3>1, <3>2, <3>3, <3>6 DEF DavAlone
  <2>4. Advances("refresh", run)
    BY <1>1, <1>2, <1>3, <2>3 DEF Advances, DavInv, DavShape
  <2> QED
    BY <1>1, <2>1, <2>4, OneRunSteps
<1> QED
  BY <1>4, <1>5

LEMMA ReadVersionsKeeps ==
    ASSUME DavInv, NEW r \in Works, ReadVersions(r)
    PROVE  DavInv'
<1> PICK run : run = [runs[r] EXCEPT !.pc = "list", !.had = onDevice]
  OBVIOUS
<1>1. /\ r \in Busy /\ runs[r] \in Run /\ runs[r].pc = "versions" /\ onDevice \in Versions
      /\ DavAlone => Backed(runs[r])
  BY RunKnown DEF ReadVersions
<1>2. /\ runs' = [runs EXCEPT ![r] = run]
      /\ UNCHANGED <<onServer, marker, onDevice, stored, overlap>>
  BY DEF ReadVersions, Goes
<1>3. /\ run \in Run /\ run.pc = "list" /\ run.had = onDevice /\ run.cal = runs[r].cal
      /\ run.all = runs[r].all
  BY <1>1 DEF Run
<1>4. ASSUME DavAlone PROVE Backed(run)
  <2>1. /\ run.cal.listed <= marker /\ run.cal = stored
        /\ run.cal.completed => run.all
    BY <1>1, <1>3, <1>4 DEF Backed
  <2>2. /\ run.pc # "calendars" /\ run.pc # "replace" /\ run.pc # "apply"
        /\ run.pc \notin {"fetch", "apply"}
    BY <1>3
  <2> QED
    BY <1>3, <2>1, <2>2, Zenon DEF Backed
<1> QED
  BY <1>1, <1>2, <1>3, <1>4, ReadsKeep

LEMMA RunFailsKeeps ==
    ASSUME DavInv, NEW r \in Works, RunFails(r)
    PROVE  DavInv'
<1> PICK run : run = Finished(r)
  OBVIOUS
<1>1. r \in Busy
  BY RunKnown DEF RunFails
<1>2. /\ runs' = [runs EXCEPT ![r] = run]
      /\ UNCHANGED <<onServer, marker, onDevice, stored, overlap>>
  BY DEF RunFails, Goes
<1>3. run \in Run /\ run.pc \in {"idle", "done"}
  BY Idles DEF Finished, Run
<1> QED
  BY <1>1, <1>2, <1>3, ReadsKeep

(* Wanted and Listed say the same of a run that differs elsewhere.         *)
LEMMA ListKeeps ==
    ASSUME DavInv, NEW r \in Works, List(r)
    PROVE  DavInv'
<1> PICK listed : listed = Listed(runs[r].all)
  OBVIOUS
<1>1. /\ r \in Busy /\ runs[r] \in Run /\ runs[r].pc = "list" /\ onServer \in Versions
      /\ DavAlone => Backed(runs[r])
  BY RunKnown DEF List
<1>2. /\ listed \in Versions
      /\ \A o \in Objects : listed[o] # Absent => listed[o] = onServer[o]
  BY <1>1 DEF Listed, Versions, Absent
<1>3. PICK run : /\ \/ run = [runs[r] EXCEPT !.pc = "apply", !.seen = listed, !.got = listed]
                    \/ run = [runs[r] EXCEPT !.pc = "fetch", !.seen = listed]
                 /\ runs' = [runs EXCEPT ![r] = run]
  BY DEF List, Goes
<1>4. UNCHANGED <<onServer, marker, onDevice, stored, overlap>>
  BY DEF List
<1>5. /\ run \in Run /\ run.pc \in {"apply", "fetch"} /\ run.seen = listed
      /\ run.pc = "apply" => run.got = listed
      /\ run.cal = runs[r].cal /\ run.all = runs[r].all /\ run.had = runs[r].had
  BY <1>1, <1>2, <1>3 DEF Run
<1>6. ASSUME DavAlone PROVE Backed(run)
  <2>1. /\ run.cal.listed <= marker /\ run.cal = stored /\ run.had = onDevice
        /\ run.cal.completed => run.all
    BY <1>1, <1>5, <1>6 DEF Backed
  <2>2. run.pc # "calendars" /\ run.pc # "replace"
    BY <1>5
  <2>3. run.seen = Listed(run.all)
    BY <1>5
  <2>4. run.pc = "apply" => \A o \in Wanted(run) : run.got[o] \in {Absent, onServer[o]}
    BY <1>2, <1>5 DEF Wanted
  <2> QED
    BY <2>1, <2>2, <2>3, <2>4, Zenon DEF Backed
<1> QED
  BY <1>1, <1>3, <1>4, <1>5, <1>6, ReadsKeep

LEMMA FetchKeeps ==
    ASSUME DavInv, NEW r \in Works, Fetch(r)
    PROVE  DavInv'
<1>1. /\ r \in Busy /\ runs[r] \in Run /\ runs[r].pc = "fetch" /\ onServer \in Versions
      /\ DavAlone => Backed(runs[r])
  BY RunKnown DEF Fetch
<1>2. PICK missed \in SUBSET Wanted(runs[r]) :
          Goes(r, [runs[r] EXCEPT !.pc = "apply",
                       !.got = [o \in Objects |-> IF o \in missed THEN Absent ELSE onServer[o]]])
  BY DEF Fetch
<1> PICK got : got = [o \in Objects |-> IF o \in missed THEN Absent ELSE onServer[o]]
  OBVIOUS
<1> PICK run : run = [runs[r] EXCEPT !.pc = "apply", !.got = got]
  OBVIOUS
<1>3. got \in Versions /\ \A o \in Objects : got[o] \in {Absent, onServer[o]}
  BY <1>1 DEF Versions, Absent
<1>4. /\ runs' = [runs EXCEPT ![r] = run]
      /\ UNCHANGED <<onServer, marker, onDevice, stored, overlap>>
  BY <1>2 DEF Goes, Fetch
<1>5. /\ run \in Run /\ run.pc = "apply" /\ run.got = got /\ run.seen = runs[r].seen
      /\ run.cal = runs[r].cal /\ run.all = runs[r].all /\ run.had = runs[r].had
  BY <1>1, <1>3 DEF Run
<1>6. ASSUME DavAlone PROVE Backed(run)
  <2>1. /\ run.cal.listed <= marker /\ run.cal = stored /\ run.had = onDevice
        /\ run.cal.completed => run.all
        /\ run.cal.listed = marker => run.seen = Listed(run.all)
    BY <1>1, <1>5, <1>6 DEF Backed
  <2>2. run.pc # "calendars" /\ run.pc # "replace"
    BY <1>5
  <2>3. \A o \in Wanted(run) : run.got[o] \in {Absent, onServer[o]}
    BY <1>3, <1>5 DEF Wanted
  <2> QED
    BY <2>1, <2>2, <2>3, Zenon DEF Backed
<1> QED
  BY <1>1, <1>4, <1>5, <1>6, ReadsKeep

(* What is written brings the copy in step with the marker it was listed   *)
(* under, or leaves it in step with the one before.                        *)
LEMMA ApplyKeeps ==
    ASSUME DavInv, NEW r \in Works, Apply(r)
    PROVE  DavInv'
<1> PICK run : run = runs[r]
  OBVIOUS
<1> DEFINE came == {o \in Wanted(run) : run.got[o] # Absent}
           complete == came = Wanted(run)
<1> PICK next : next = Finished(r)
  OBVIOUS
<1>1. /\ r \in Busy /\ run \in Run /\ run.pc = "apply" /\ onServer \in Versions
      /\ onDevice \in Versions /\ marker \in Nat
      /\ DavAlone => Backed(run)
  BY RunKnown DEF Apply
<1>2. next \in Run /\ next.pc \in {"idle", "done"}
  BY Idles DEF Finished, Run
<1>3. /\ runs' = [runs EXCEPT ![r] = next]
      /\ UNCHANGED <<onServer, marker, overlap>>
      /\ onDevice' = [o \in Objects |-> IF o \in came THEN run.got[o]
                                        ELSE IF o \in Dropped(run) THEN Absent
                                        ELSE onDevice[o]]
      /\ stored' = [run.cal EXCEPT !.synced = SyncedTo(run.cal, complete),
                                   !.completed = HoldsCompleted(run, complete)]
  BY DEF Apply, Goes
<1>4. onDevice' \in Versions
  BY <1>1, <1>3 DEF Versions, Run, Absent
<1>5. /\ run.cal \in Calendar /\ run.all \in BOOLEAN
      /\ SyncedTo(run.cal, complete) \in Int /\ HoldsCompleted(run, complete) \in BOOLEAN
  BY <1>1 DEF Run, Calendar, SyncedTo, HoldsCompleted
<1>6. /\ stored' \in Calendar
      /\ stored'.listed = run.cal.listed /\ stored'.synced = SyncedTo(run.cal, complete)
      /\ stored'.completed = HoldsCompleted(run, complete)
  <2> HIDE DEF complete
  <2> QED
    BY <1>3, <1>5 DEF Calendar
<1>7. ASSUME DavAlone, ~overlap
      PROVE  /\ stored'.synced <= stored'.listed /\ stored'.listed <= marker
             /\ InStep' /\ Busy \subseteq {r}
  <2>1. /\ run.cal = stored /\ run.had = onDevice /\ (run.cal.completed => run.all)
        /\ run.cal.listed <= marker /\ stored.synced <= stored.listed
        /\ run.cal.listed = marker =>
              /\ run.seen = Listed(run.all)
              /\ \A o \in Wanted(run) : run.got[o] \in {Absent, onServer[o]}
    BY <1>1, <1>7 DEF Backed, DavAlone
  <2>2. stored'.synced <= stored'.listed /\ stored'.listed <= marker
    BY <1>5, <1>6, <2>1 DEF SyncedTo, Calendar
  <2>3. ASSUME stored'.synced = marker
        PROVE  run.cal.listed = marker /\ (~complete => stored.synced = marker)
    BY <1>1, <1>5, <1>6, <2>1, <2>3 DEF SyncedTo, Calendar
  <2>4. ASSUME stored'.synced = marker, NEW o \in Objects
        PROVE  \/ onDevice'[o] = onServer[o]
               \/ onDevice'[o] = Absent /\ o \in Completed /\ ~stored'.completed
    <3>1. /\ run.seen[o] = IF o \in Completed /\ ~run.all THEN Absent ELSE onServer[o]
          /\ o \in Wanted(run) => run.got[o] \in {Absent, onServer[o]}
      BY <2>1, <2>3, <2>4 DEF Listed
    <3>2. CASE o \in came
      BY <1>3, <3>1, <3>2
    <3>3. CASE o \in Dropped(run)
      <4>1. o \notin came /\ onDevice'[o] = Absent /\ run.seen[o] = Absent
        BY <1>3, <3>3 DEF Dropped, Wanted
      <4>2. run.all \/ (o \in Completed /\ ~run.all)  \/ onServer[o] = Absent
        BY <3>1, <4>1
      <4>3. CASE onServer[o] = Absent
        BY <4>1, <4>3
      <4>4. CASE onServer[o] # Absent
        <5>1. o \in Completed /\ ~run.all
          BY <3>1, <4>1, <4>4
        <5>2. ~stored'.completed
          BY <1>6, <2>1, <5>1 DEF HoldsCompleted
        <5> QED
          BY <4>1, <5>1, <5>2
      <4> QED
        BY <4>3, <4>4
    <3>4. CASE o \notin came /\ o \notin Dropped(run) /\ complete
      <4>1. onDevice'[o] = onDevice[o]
        BY <1>3, <3>4
      <4>2. o \notin Wanted(run)
        BY <3>4
      <4>3. run.seen[o] # Absent => onDevice[o] = onServer[o]
        BY <2>1, <3>1, <4>2 DEF Wanted, IsCurrent
      <4>4. run.seen[o] = Absent => onDevice[o] = Absent
        BY <2>1, <3>4 DEF Dropped
      <4>5. CASE run.seen[o] = Absent /\ onServer[o] # Absent
        <5>1. o \in Completed /\ ~run.all
          BY <3>1, <4>5
        <5>2. ~stored'.completed
          BY <1>6, <3>4, <5>1 DEF HoldsCompleted
        <5> QED
          BY <4>1, <4>4, <4>5, <5>1, <5>2
      <4> QED
        BY <4>1, <4>3, <4>4, <4>5
    <3>5. CASE o \notin came /\ o \notin Dropped(run) /\ ~complete
      <4>1. onDevice'[o] = onDevice[o] /\ stored'.completed = stored.completed
        BY <1>3, <1>6, <2>1, <3>5 DEF HoldsCompleted
      <4>2. \/ onDevice[o] = onServer[o]
            \/ onDevice[o] = Absent /\ o \in Completed /\ ~stored.completed
        BY <1>7, <2>3, <2>4, <3>5 DEF DavAlone, InStep
      <4> QED
        BY <4>1, <4>2
    <3> QED
      BY <3>2, <3>3, <3>4, <3>5
  <2>5. InStep'
    BY <1>3, <2>4 DEF InStep
  <2>6. Busy \subseteq {r}
    BY <1>1, <1>7 DEF DavAlone
  <2> QED
    BY <2>2, <2>5, <2>6
<1>8. Advances(r, next)
  BY <1>2, <1>3, <1>4, <1>6, <1>7 DEF Advances, DavInv, DavShape
<1> QED
  BY <1>2, <1>8, OneRunSteps

LEMMA DavStepKeeps == DavInv /\ [DavNext]_davVars => DavInv'
<1> SUFFICES ASSUME DavInv, [DavNext]_davVars PROVE DavInv'
  OBVIOUS
<1>1. CASE Change
  BY <1>1, ChangeKeeps
<1>2. CASE ListCalendars \/ ReadCalendars \/ ReplaceCalendars
  BY <1>2, RefreshBegins, ReadCalendarsKeeps, ReplaceKeeps
<1>3. CASE \E l \in Loads : LoadCompleted(l)
  BY <1>3, LoadBegins
<1>4. CASE \E r \in Works : ReadVersions(r) \/ List(r) \/ Fetch(r) \/ RunFails(r)
  BY <1>4, ReadVersionsKeeps, ListKeeps, FetchKeeps, RunFailsKeeps
<1>5. CASE \E r \in Works : Apply(r)
  BY <1>5, ApplyKeeps
<1>6. CASE UNCHANGED davVars
  <2>1. DavShape'
    BY <1>6 DEF davVars, DavInv, DavShape
  <2>2. Busy' = Busy /\ (InStep => InStep')
    BY <1>6 DEF davVars, Busy, InStep
  <2>3. \A r \in Busy : Backed(runs[r]) => Backed(runs[r])'
    BY <1>6 DEF davVars, Backed, Listed, Wanted, IsCurrent
  <2> QED
    BY <1>6, <2>1, <2>2, <2>3 DEF davVars, DavInv, DavAlone
<1> QED
  BY <1>1, <1>2, <1>3, <1>4, <1>5, <1>6 DEF DavNext

(* While runs do not overlap: a copy that counts as in step with the       *)
(* marker holds what the server holds, but for completed tasks that were   *)
(* not asked for, for any objects and whatever changed between the         *)
(* requests of a run or did not come.                                      *)
THEOREM CopyIsInStep == DavSpec => []InStep
<1>1. DavInv => InStep
  BY DEF DavInv, DavAlone, InStep
<1> QED
  BY <1>1, DavStarts, DavStepKeeps, PTL DEF DavSpec

(* However runs overlap: no calendar counts as in step with a marker it    *)
(* was not listed with, and the refresh that has listed has the newest of  *)
(* all that is known.                                                      *)
DavOrder ==
    /\ marker <= MaxChanges /\ stored.listed <= marker
    /\ NoMarker <= stored.synced /\ stored.synced <= stored.listed
    /\ \A r \in Works :
          /\ runs[r].cal.listed <= marker
          /\ NoMarker <= runs[r].cal.synced /\ runs[r].cal.synced <= runs[r].cal.listed
    /\ runs["refresh"].pc = "calendars" =>
          /\ stored.listed <= runs["refresh"].cal.listed
          /\ \A r \in Works : runs[r].cal.listed <= runs["refresh"].cal.listed

LEMMA DavNumbers ==
    ASSUME DavInv
    PROVE  /\ marker \in Nat /\ stored.listed \in Int /\ stored.synced \in Int /\ NoMarker \in Int
           /\ "refresh" \in Works
           /\ \A r \in Works : /\ runs[r] \in Run
                                /\ runs[r].cal.listed \in Int /\ runs[r].cal.synced \in Int
BY DEF DavInv, DavShape, Calendar, Run, NoMarker, Works

(* A run goes on, or ends, with a calendar that keeps the order.           *)
LEMMA OrderSteps ==
    ASSUME DavInv, DavInv', DavOrder, NEW r \in Works, NEW run,
           runs' = [runs EXCEPT ![r] = run], marker' = marker,
           stored'.listed \in {stored.listed, runs[r].cal.listed},
           NoMarker <= stored'.synced, stored'.synced <= stored'.listed,
           run.cal.listed \in {NoMarker, runs[r].cal.listed, stored.listed},
           NoMarker <= run.cal.synced, run.cal.synced <= run.cal.listed,
           run.pc # "calendars"
    PROVE  DavOrder'
<1>1. /\ marker \in Nat /\ stored.listed \in Int /\ stored.synced \in Int /\ NoMarker = 0 - 1
      /\ \A t \in Works : runs[t].cal.listed \in Int /\ runs[t].cal.synced \in Int
      /\ "refresh" \in Works
  BY DavNumbers DEF NoMarker
<1>2. runs \in [Works -> Run]
  BY DEF DavInv, DavShape
<1>3. runs'[r] = run /\ \A t \in Works \ {r} : runs'[t] = runs[t]
  BY <1>2
<1>4. /\ stored'.listed <= marker /\ run.cal.listed <= marker /\ run.cal.listed \in Int
      /\ NoMarker <= stored.listed
  BY <1>1 DEF DavOrder
<1>5. \A t \in Works :
         /\ runs'[t].cal.listed <= marker
         /\ NoMarker <= runs'[t].cal.synced /\ runs'[t].cal.synced <= runs'[t].cal.listed
  BY <1>3, <1>4 DEF DavOrder
<1>6. ASSUME runs'["refresh"].pc = "calendars"
      PROVE  /\ stored'.listed <= runs'["refresh"].cal.listed
             /\ \A t \in Works : runs'[t].cal.listed <= runs'["refresh"].cal.listed
  <2>1. r # "refresh" /\ runs'["refresh"] = runs["refresh"] /\ runs["refresh"].pc = "calendars"
    BY <1>1, <1>3, <1>6
  <2>2. /\ stored.listed <= runs["refresh"].cal.listed
        /\ \A t \in Works : runs[t].cal.listed <= runs["refresh"].cal.listed
    BY <2>1 DEF DavOrder
  <2>3. run.cal.listed <= runs["refresh"].cal.listed
    BY <1>1, <1>4, <2>2
  <2> QED
    BY <1>3, <2>1, <2>2, <2>3
<1> QED
  BY <1>4, <1>5, <1>6 DEF DavOrder

(* A run ends.                                                             *)
LEMMA EndSteps ==
    ASSUME DavInv, DavInv', DavOrder, NEW r \in Works,
           runs' = [runs EXCEPT ![r] = Finished(r)], marker' = marker,
           stored'.listed \in {stored.listed, runs[r].cal.listed},
           NoMarker <= stored'.synced, stored'.synced <= stored'.listed
    PROVE  DavOrder'
<1>1. PICK run : run = Finished(r)
  OBVIOUS
<1>2. /\ IdleRun \in Run /\ IdleRun.cal.listed = NoMarker /\ IdleRun.cal.synced = NoMarker
  BY Idles DEF IdleRun, NoCalendar
<1>3. run.cal = IdleRun.cal /\ run.pc # "calendars"
  BY <1>1, <1>2 DEF Finished, Run
<1>4. /\ run.cal.listed = NoMarker /\ run.cal.synced = NoMarker
      /\ NoMarker <= run.cal.synced /\ run.cal.synced <= run.cal.listed
  BY <1>2, <1>3 DEF NoMarker
<1> QED
  BY <1>1, <1>3, <1>4, OrderSteps

LEMMA DavOrderStarts == DavInit => DavOrder
<1> SUFFICES ASSUME DavInit PROVE DavOrder
  OBVIOUS
<1>1. /\ IdleRun.pc = "idle" /\ IdleRun.cal.listed = 0 - 1 /\ IdleRun.cal.synced = 0 - 1
      /\ NoCalendar.listed = 0 - 1 /\ NoCalendar.synced = 0 - 1 /\ "refresh" \in Works
  BY DEF IdleRun, NoCalendar, NoMarker, Works
<1>2. stored = NoCalendar /\ marker = 0 /\ (\A r \in Works : runs[r] = IdleRun) /\ MaxChanges \in Nat
  BY CalDavSyncAssumption DEF DavInit
<1> QED
  BY <1>1, <1>2 DEF DavOrder, NoMarker

LEMMA DavOrderStep == DavInv /\ DavOrder /\ [DavNext]_davVars => DavOrder'
<1> SUFFICES ASSUME DavInv, DavOrder, [DavNext]_davVars PROVE DavOrder'
  OBVIOUS
<1>0. DavInv'
  BY DavStepKeeps
<1>1. /\ marker \in Nat /\ stored.listed \in Int /\ stored.synced \in Int /\ NoMarker = 0 - 1
      /\ "refresh" \in Works /\ MaxChanges \in Nat /\ stored \in Calendar
      /\ \A r \in Works : /\ runs[r] \in Run /\ runs[r].cal \in Calendar
                           /\ runs[r].cal.listed \in Int /\ runs[r].cal.synced \in Int
  BY DavNumbers, CalDavSyncAssumption DEF NoMarker, DavInv, DavShape, Run
<1>2. /\ IdleRun \in Run /\ IdleRun.pc = "idle"
      /\ IdleRun.cal.listed = NoMarker /\ IdleRun.cal.synced = NoMarker
  BY Idles DEF IdleRun, NoCalendar
<1>3. CASE UNCHANGED davVars
  BY <1>3 DEF davVars, DavOrder
<1>4. CASE Change
  <2>1. marker' = marker + 1 /\ marker < MaxChanges /\ UNCHANGED <<stored, runs>>
    BY <1>4 DEF Change
  <2> QED
    BY <1>1, <2>1 DEF DavOrder
<1>5. CASE ListCalendars
  <2> DEFINE run == [IdleRun EXCEPT !.pc = "calendars", !.cal.listed = marker]
  <2>1. runs' = [runs EXCEPT !["refresh"] = run] /\ UNCHANGED <<marker, stored>>
    BY <1>5 DEF ListCalendars, Goes
  <2>2. run.cal.listed = marker /\ run.cal.synced = NoMarker
    BY Idles, <1>2 DEF Run, Calendar
  <2> HIDE DEF run
  <2>3. runs'["refresh"] = run /\ \A t \in Works \ {"refresh"} : runs'[t] = runs[t]
    BY <2>1, <1>1 DEF DavInv, DavShape
  <2>4. \A t \in Works :
           /\ runs'[t].cal.listed <= marker
           /\ NoMarker <= runs'[t].cal.synced /\ runs'[t].cal.synced <= runs'[t].cal.listed
    BY <1>1, <2>2, <2>3 DEF DavOrder
  <2> QED
    BY <2>1, <2>2, <2>3, <2>4 DEF DavOrder
<1>6. CASE ReadCalendars
  <2> DEFINE old == runs["refresh"]
             run == [old EXCEPT !.pc = "replace", !.cal = [stored EXCEPT !.listed = old.cal.listed]]
  <2>1. old.pc = "calendars" /\ runs' = [runs EXCEPT !["refresh"] = run] /\ UNCHANGED <<marker, stored>>
    BY <1>6 DEF ReadCalendars, Goes
  <2>2. run.pc = "replace" /\ run.cal.listed = old.cal.listed /\ run.cal.synced = stored.synced
    BY <1>1 DEF Run, Calendar
  <2> HIDE DEF run
  <2>3. stored.synced <= stored.listed /\ stored.listed <= old.cal.listed /\ NoMarker <= stored.synced
    BY <2>1 DEF DavOrder
  <2>4. /\ stored'.listed = stored.listed /\ stored'.synced = stored.synced
        /\ run.cal.synced <= run.cal.listed /\ NoMarker <= run.cal.synced /\ run.pc # "calendars"
    BY <1>1, <2>1, <2>2, <2>3
  <2> QED
    BY <1>0, <1>1, <2>1, <2>2, <2>3, <2>4, OrderSteps
<1>7. CASE ReplaceCalendars
  <2> DEFINE old == runs["refresh"]
  <2>1. stored' = old.cal /\ marker' = marker
        /\ runs' = [runs EXCEPT !["refresh"] = IF Unchanged(old.cal) THEN IdleRun
                                   ELSE [old EXCEPT !.pc = "versions", !.all = old.cal.completed]]
    BY <1>7 DEF ReplaceCalendars, Goes
  <2>2. [old EXCEPT !.pc = "versions", !.all = old.cal.completed].cal = old.cal
        /\ [old EXCEPT !.pc = "versions", !.all = old.cal.completed].pc = "versions"
    BY <1>1 DEF Run
  <2>3. PICK run : /\ runs' = [runs EXCEPT !["refresh"] = run]
                   /\ run = IdleRun \/ (run.cal = old.cal /\ run.pc = "versions")
    BY <2>1, <2>2
  <2>4. NoMarker <= old.cal.synced /\ old.cal.synced <= old.cal.listed
    BY <1>1 DEF DavOrder
  <2>5. /\ run.pc # "calendars" /\ run.cal.listed \in {NoMarker, old.cal.listed}
        /\ NoMarker <= run.cal.synced /\ run.cal.synced <= run.cal.listed
    BY <1>1, <1>2, <2>3, <2>4
  <2> QED
    BY <1>0, <1>1, <2>1, <2>3, <2>4, <2>5, OrderSteps
<1>8. ASSUME NEW l \in Loads, LoadCompleted(l) PROVE DavOrder'
  <2> DEFINE run == [IdleRun EXCEPT !.pc = "versions", !.cal = stored, !.all = TRUE]
  <2>1. runs' = [runs EXCEPT ![l] = run] /\ UNCHANGED <<marker, stored>> /\ l \in Works
    BY <1>8 DEF LoadCompleted, Goes, Works
  <2>2. run.pc = "versions" /\ run.cal = stored
    BY Idles DEF Run
  <2> HIDE DEF run
  <2>3. stored.synced <= stored.listed /\ NoMarker <= stored.synced
    BY DEF DavOrder
  <2> QED
    BY <1>0, <2>1, <2>2, <2>3, OrderSteps
<1>9. ASSUME NEW r \in Works, NEW run, Goes(r, run), UNCHANGED <<marker, stored>>,
              run.cal = runs[r].cal, run.pc # "calendars"
       PROVE  DavOrder'
  <2>1. runs' = [runs EXCEPT ![r] = run]
    BY <1>9 DEF Goes
  <2>2. /\ stored.synced <= stored.listed /\ NoMarker <= stored.synced
        /\ runs[r].cal.synced <= runs[r].cal.listed /\ NoMarker <= runs[r].cal.synced
    BY DEF DavOrder
  <2> QED
    BY <1>0, <1>9, <2>1, <2>2, OrderSteps
<1>10. ASSUME NEW r \in Works, ReadVersions(r) \/ List(r) \/ Fetch(r) PROVE DavOrder'
  <2>1. PICK run : Goes(r, run) /\ run.cal = runs[r].cal /\ run.pc # "calendars"
                   /\ UNCHANGED <<marker, stored>>
    <3>1. runs[r] \in Run
      BY <1>1
    <3>2. CASE ReadVersions(r)
      <4>1. /\ [runs[r] EXCEPT !.pc = "list", !.had = onDevice].cal = runs[r].cal
            /\ [runs[r] EXCEPT !.pc = "list", !.had = onDevice].pc = "list"
        BY <3>1 DEF Run
      <4> QED
        BY <3>2, <4>1 DEF ReadVersions
    <3>3. CASE List(r)
      <4>1. ASSUME NEW seen, NEW got
            PROVE  /\ [runs[r] EXCEPT !.pc = "apply", !.seen = seen, !.got = got].cal = runs[r].cal
                   /\ [runs[r] EXCEPT !.pc = "apply", !.seen = seen, !.got = got].pc = "apply"
                   /\ [runs[r] EXCEPT !.pc = "fetch", !.seen = seen].cal = runs[r].cal
                   /\ [runs[r] EXCEPT !.pc = "fetch", !.seen = seen].pc = "fetch"
        BY <3>1 DEF Run
      <4>2. UNCHANGED <<marker, stored>>
            /\ \E seen, got : \/ Goes(r, [runs[r] EXCEPT !.pc = "apply", !.seen = seen, !.got = got])
                             \/ Goes(r, [runs[r] EXCEPT !.pc = "fetch", !.seen = seen])
        BY <3>3 DEF List
      <4>3. PICK seen, got : \/ Goes(r, [runs[r] EXCEPT !.pc = "apply", !.seen = seen, !.got = got])
                             \/ Goes(r, [runs[r] EXCEPT !.pc = "fetch", !.seen = seen])
        BY <4>2
      <4>4. "apply" # "calendars" /\ "fetch" # "calendars"
        OBVIOUS
      <4>5. CASE Goes(r, [runs[r] EXCEPT !.pc = "apply", !.seen = seen, !.got = got])
        <5>1. PICK run : run = [runs[r] EXCEPT !.pc = "apply", !.seen = seen, !.got = got]
          OBVIOUS
        <5>2. Goes(r, run)
          BY <4>5, <5>1
        <5>3. run.cal = runs[r].cal /\ run.pc = "apply"
          BY <4>1, <5>1
        <5> QED
          BY <4>2, <4>4, <5>2, <5>3
      <4>6. CASE Goes(r, [runs[r] EXCEPT !.pc = "fetch", !.seen = seen])
        <5>1. PICK run : run = [runs[r] EXCEPT !.pc = "fetch", !.seen = seen]
          OBVIOUS
        <5>2. Goes(r, run)
          BY <4>6, <5>1
        <5>3. run.cal = runs[r].cal /\ run.pc = "fetch"
          BY <4>1, <5>1
        <5> QED
          BY <4>2, <4>4, <5>2, <5>3
      <4> QED
        BY <4>3, <4>5, <4>6
    <3>4. CASE Fetch(r)
      <4>1. ASSUME NEW got
            PROVE  /\ [runs[r] EXCEPT !.pc = "apply", !.got = got].cal = runs[r].cal
                   /\ [runs[r] EXCEPT !.pc = "apply", !.got = got].pc = "apply"
        BY <3>1 DEF Run
      <4> QED
        BY <3>4, <4>1 DEF Fetch
    <3> QED
      BY <1>10, <3>2, <3>3, <3>4
  <2> QED
    BY <1>9, <2>1
<1>11. ASSUME NEW r \in Works, Apply(r) PROVE DavOrder'
  <2> DEFINE run == runs[r]
             complete == {o \in Wanted(run) : run.got[o] # Absent} = Wanted(run)
  <2>0. SyncedTo(run.cal, complete) \in {run.cal.listed, run.cal.synced}
    BY DEF SyncedTo
  <2>1. runs' = [runs EXCEPT ![r] = Finished(r)] /\ marker' = marker
        /\ stored' = [run.cal EXCEPT !.synced = SyncedTo(run.cal, complete),
                                     !.completed = HoldsCompleted(run, complete)]
    BY <1>11 DEF Apply, Goes
  <2> HIDE DEF complete
  <2>2. stored'.listed = runs[r].cal.listed
        /\ stored'.synced \in {runs[r].cal.listed, runs[r].cal.synced}
    BY <1>1, <2>0, <2>1 DEF Calendar
  <2>3. NoMarker <= runs[r].cal.synced /\ runs[r].cal.synced <= runs[r].cal.listed
    BY DEF DavOrder
  <2>4. NoMarker <= stored'.synced /\ stored'.synced <= stored'.listed
    BY <1>1, <2>2, <2>3
  <2> QED
    BY <1>0, <2>1, <2>2, <2>4, EndSteps
<1>12. ASSUME NEW r \in Works, RunFails(r) PROVE DavOrder'
  <2>1. runs' = [runs EXCEPT ![r] = Finished(r)] /\ UNCHANGED <<marker, stored>>
    BY <1>12 DEF RunFails, Goes
  <2>2. NoMarker <= stored.synced /\ stored.synced <= stored.listed
    BY DEF DavOrder
  <2>3. /\ stored'.listed \in {stored.listed, runs[r].cal.listed}
        /\ NoMarker <= stored'.synced /\ stored'.synced <= stored'.listed
    BY <2>1, <2>2
  <2> QED
    BY <1>0, <2>1, <2>3, EndSteps
<1> QED
  BY <1>3, <1>4, <1>5, <1>6, <1>7, <1>8, <1>10, <1>11, <1>12 DEF DavNext

(* The types of a calendar's copy: however refreshes and loads overlap, it *)
(* never counts as in step with a marker newer than the one it was listed  *)
(* with (sync.ts:195-199).                                                 *)
THEOREM DavTypesKept == DavSpec => []DavTypeOK
<1>1. DavInv /\ DavOrder => DavTypeOK
  <2> SUFFICES ASSUME DavInv, DavOrder PROVE DavTypeOK
    OBVIOUS
  <2>1. /\ marker \in Nat /\ stored.listed \in Int /\ stored.synced \in Int /\ NoMarker = 0 - 1
        /\ MaxChanges \in Nat
    BY DavNumbers, CalDavSyncAssumption DEF NoMarker
  <2>2. \A r \in Works : runs[r] \in Run
    BY DavNumbers
  <2>3. \A r \in Works : runs[r].pc \in {"idle", "calendars", "replace", "versions", "list",
                                        "fetch", "apply", "done"}
    BY <2>2 DEF Run
  <2>4. onServer \in [Objects -> Nat] /\ onDevice \in [Objects -> Nat]
    BY DEF DavInv, DavShape, Versions
  <2> QED
    BY <2>1, <2>3, <2>4 DEF DavOrder, DavTypeOK
<1> QED
  BY <1>1, DavStarts, DavStepKeeps, DavOrderStarts, DavOrderStep, PTL DEF DavSpec

LEMMA DavStepStaysLoaded == DavInv /\ [DavNext]_davVars => StaysLoadedStep
<1> SUFFICES ASSUME DavInv, [DavNext]_davVars, ~overlap', stored.completed
             PROVE  stored'.completed
  BY DEF StaysLoadedStep
<1>1. CASE UNCHANGED stored
  BY <1>1
<1>2. CASE ReplaceCalendars
  <2>1. DavAlone /\ "refresh" \in Busy /\ runs["refresh"].pc = "replace"
    BY <1>2, RunKnown DEF ReplaceCalendars, Works, DavInv
  <2>2. runs["refresh"].cal = [stored EXCEPT !.listed = runs["refresh"].cal.listed]
    BY <2>1 DEF DavAlone, Backed
  <2>3. stored \in Calendar
    BY DEF DavInv, DavShape
  <2>4. runs["refresh"].cal.completed = stored.completed
    BY <2>2, <2>3 DEF Calendar
  <2> QED
    BY <1>2, <2>4 DEF ReplaceCalendars
<1>3. ASSUME NEW r \in Works, Apply(r) PROVE stored'.completed
  <2>1. DavAlone /\ r \in Busy /\ runs[r].pc = "apply" /\ runs[r].cal \in Calendar
    BY <1>3, RunKnown DEF Apply, DavInv, Run
  <2>2. runs[r].cal = stored /\ (runs[r].cal.completed => runs[r].all)
    BY <2>1 DEF DavAlone, Backed
  <2>3. PICK b \in BOOLEAN : stored'.completed = HoldsCompleted(runs[r], b)
    <3> DEFINE came == {o \in Wanted(runs[r]) : runs[r].got[o] # Absent}
               b == came = Wanted(runs[r])
    <3>1. stored' = [runs[r].cal EXCEPT !.synced = SyncedTo(runs[r].cal, b),
                                        !.completed = HoldsCompleted(runs[r], b)]
      BY <1>3 DEF Apply
    <3> HIDE DEF b
    <3>2. stored'.completed = HoldsCompleted(runs[r], b)
      BY <2>1, <3>1 DEF Calendar
    <3> QED
      BY <3>2 DEF b
  <2> QED
    BY <2>2, <2>3 DEF HoldsCompleted
<1> QED
  BY <1>1, <1>2, <1>3 DEF DavNext, davVars, Change, ListCalendars, ReadCalendars, LoadCompleted,
                          ReadVersions, List, Fetch, RunFails

(* While runs do not overlap, completed tasks, once loaded, stay loaded.   *)
THEOREM CompletedStayLoaded == DavSpec => StaysLoaded
<1>1. DavInv /\ [DavNext]_davVars => [StaysLoadedStep]_davVars
  BY DavStepStaysLoaded
<1> QED
  BY <1>1, DavStarts, DavStepKeeps, PTL DEF DavSpec, StaysLoaded

-----------------------------------------------------------------------------
(* The queues of two collections behind one flush.                         *)

QueueInv ==
    /\ \A p \in Parents :
          /\ parent[p] # "none" => p \notin abandoned
          /\ parent[p] = "version" => p \in server
          /\ parent[p] = "rejected" => p \notin server
    /\ server \cap abandoned = {} /\ server \subseteq started
    /\ \A t \in Pages : news[t] \subseteq abandoned

(* Who sends has the lock, and what a tab sends of the parents waits still.*)
SendInv ==
    \A t \in Pages :
        /\ tab[t].pc \in {"sendParent", "sendChild"} => holder = t
        /\ tab[t].pc = "sendParent" =>
              \E p \in Parents : tab[t].after = {p} /\ parent[p] = "pending"
              /\ p \in started

(* What a child refers to has not vanished.                                *)
RefsInv ==
    \A c \in Children :
        child[c].refs \cup child[c].behind \subseteq QueuedParents \cup server \cup abandoned

(* A tab that will flush again, or whose runner will.                      *)
Minds(t) == t \in kicked \/ (t \in asks /\ tab[t].pc = "idle")

(* A flush that will ask its runner again, should the entry still wait.    *)
SeesParent(v, p) == v.pc # "idle" /\ p \in v.pending
SeesChild(v, c, refs) ==
    \/ v.pc \in {"parents", "sendParent"} /\ refs \cap v.parents = {}
    \/ /\ v.pc \in {"children", "sendChild"} /\ c \in v.children
       /\ refs \subseteq v.refs[c] /\ v.refs[c] \cap v.parents = {}

(* While no tab was closed: some tab sees to every entry that can be sent. *)
Attended ==
    /\ \A p \in Parents : parent[p] = "pending" =>
          \E t \in Pages : Minds(t) \/ SeesParent(tab[t], p)
    /\ \A c \in Children : child[c].queued /\ Ready(c) =>
          \E t \in Pages : Minds(t) \/ SeesChild(tab[t], c, child[c].refs)

CollectionsInv ==
    /\ CollectionsTypeOK /\ QueueInv /\ SendInv /\ RefsInv
    /\ ParentsFirst /\ ReferencesGo /\ (closed = {} => Attended)

-----------------------------------------------------------------------------
(* What a tab reads, and what is left of an entry.                         *)

LEMMA ParentsRead ==
    ASSUME NEW v \in Views, NEW queue
    PROVE  /\ ReadParents(v, queue) \in Views
           /\ ReadParents(v, queue).pc = v.pc /\ ReadParents(v, queue).todo = v.todo
           /\ ReadParents(v, queue).after = v.after
           /\ ReadParents(v, queue).parents = {p \in Parents : queue[p] # "none"}
           /\ ReadParents(v, queue).pending = {p \in Parents : queue[p] = "pending"}
           /\ ReadParents(v, queue).children = v.children /\ ReadParents(v, queue).refs = v.refs
BY DEF ReadParents, Views

LEMMA ChildrenRead ==
    ASSUME NEW v \in Views, NEW queue \in [Children -> Entries]
    PROVE  /\ ReadChildren(v, queue) \in Views
           /\ ReadChildren(v, queue).pc = v.pc /\ ReadChildren(v, queue).todo = v.todo
           /\ ReadChildren(v, queue).after = v.after
           /\ ReadChildren(v, queue).parents = v.parents
           /\ ReadChildren(v, queue).pending = v.pending
           /\ ReadChildren(v, queue).children = {c \in Children : queue[c].queued}
           /\ \A c \in Children : ReadChildren(v, queue).refs[c] = queue[c].refs
<1>1. [c \in Children |-> queue[c].refs] \in [Children -> SUBSET Parents]
  BY DEF Entries
<1>2. {c \in Children : queue[c].queued} \in SUBSET Children
  OBVIOUS
<1>. QED
  BY <1>1, <1>2 DEF ReadChildren, Views

LEMMA LessOf ==
    ASSUME NEW e \in Entries, NEW p
    PROVE  /\ Without(e, p) \in Entries
           /\ Without(e, p).queued = e.queued
           /\ Without(e, p).refs = e.refs \ {p} /\ Without(e, p).behind = e.behind \ {p}
BY DEF Without, Entries

LEMMA NoEntry ==
    NoChild \in Entries /\ NoChild.refs = {} /\ NoChild.behind = {} /\ ~NoChild.queued
BY DEF NoChild, Entries

LEMMA AtRest == Rest \in Views /\ Rest.pc = "idle"
BY DEF Rest, Views



(* What a step leaves of the tab that takes it, and what that tab read.    *)
SameElse(t) == \A k \in Pages \ {t} : tab'[k] = tab[k]
KeepsPlace(t) ==
    tab'[t].pc = tab[t].pc /\ tab'[t].todo = tab[t].todo /\ tab'[t].after = tab[t].after
KeepsParents(t) == tab'[t].parents = tab[t].parents /\ tab'[t].pending = tab[t].pending
KeepsChildren(t) == tab'[t].children = tab[t].children /\ tab'[t].refs = tab[t].refs
HasParents(t) ==
    /\ tab'[t].parents = {p \in Parents : parent'[p] # "none"}
    /\ tab'[t].pending = {p \in Parents : parent'[p] = "pending"}
HasChildren(t) ==
    /\ tab'[t].children = {c \in Children : child'[c].queued}
    /\ \A c \in Children : tab'[t].refs[c] = child'[c].refs

(* A tab reads the parents again, and the other tabs stay where they are.  *)
LEMMA ParentsReread ==
    ASSUME CollectionsTypeOK, NEW t \in Pages, NEW v \in Views,
           tab' = [tab EXCEPT ![t] = ReadParents(v, parent')]
    PROVE  /\ tab' \in [Pages -> Views] /\ SameElse(t) /\ HasParents(t)
           /\ tab'[t].pc = v.pc /\ tab'[t].todo = v.todo /\ tab'[t].after = v.after
           /\ tab'[t].children = v.children /\ tab'[t].refs = v.refs
<1>1. tab \in [Pages -> Views]
  BY DEF CollectionsTypeOK
<1>. DEFINE r == ReadParents(v, parent')
<1>3. /\ r \in Views
      /\ r.pc = v.pc /\ r.todo = v.todo /\ r.after = v.after
      /\ r.parents = {p \in Parents : parent'[p] # "none"}
      /\ r.pending = {p \in Parents : parent'[p] = "pending"}
      /\ r.children = v.children /\ r.refs = v.refs
  BY ParentsRead
<1>. HIDE DEF r
<1>2. tab'[t] = r /\ \A k \in Pages \ {t} : tab'[k] = tab[k]
  BY <1>1 DEF r
<1>4. tab' \in [Pages -> Views]
  BY <1>1, <1>3 DEF r
<1>. QED
  BY <1>2, <1>3, <1>4 DEF SameElse, HasParents

LEMMA ChildrenReread ==
    ASSUME CollectionsTypeOK, NEW t \in Pages, NEW v \in Views, child' \in [Children -> Entries],
           tab' = [tab EXCEPT ![t] = ReadChildren(v, child')]
    PROVE  /\ tab' \in [Pages -> Views] /\ SameElse(t) /\ HasChildren(t)
           /\ tab'[t].pc = v.pc /\ tab'[t].todo = v.todo /\ tab'[t].after = v.after
           /\ tab'[t].parents = v.parents /\ tab'[t].pending = v.pending
<1>1. tab \in [Pages -> Views]
  BY DEF CollectionsTypeOK
<1>. DEFINE r == ReadChildren(v, child')
<1>3. /\ r \in Views
      /\ r.pc = v.pc /\ r.todo = v.todo /\ r.after = v.after
      /\ r.parents = v.parents /\ r.pending = v.pending
      /\ r.children = {c \in Children : child'[c].queued}
      /\ \A c \in Children : r.refs[c] = child'[c].refs
  BY ChildrenRead
<1>. HIDE DEF r
<1>2. tab'[t] = r /\ \A k \in Pages \ {t} : tab'[k] = tab[k]
  BY <1>1 DEF r
<1>4. tab' \in [Pages -> Views]
  BY <1>1, <1>3 DEF r
<1>. QED
  BY <1>2, <1>3, <1>4 DEF SameElse, HasChildren

(* The parent that a tab sends.                                            *)
LEMMA SentParent ==
    ASSUME CollectionsTypeOK, SendInv, NEW t \in Pages, tab[t].pc = "sendParent"
    PROVE  /\ tab[t].after = {Sends(t)} /\ Sends(t) \in Parents
           /\ parent[Sends(t)] = "pending" /\ Sends(t) \in started /\ holder = t
<1>1. PICK p \in Parents : tab[t].after = {p} /\ parent[p] = "pending" /\ p \in started
  BY DEF SendInv
<1>2. Sends(t) \in {p}
  BY <1>1 DEF Sends
<1>3. Sends(t) = p
  BY <1>2
<1>. QED
  BY <1>1, <1>3 DEF SendInv

(* While the lock is free nobody sends.                                    *)
LEMMA NobodySends ==
    ASSUME CollectionsTypeOK, SendInv, LockFree, NEW k \in Pages
    PROVE  tab[k].pc \notin {"sendParent", "sendChild"}
BY CollectionsAssumption DEF SendInv, LockFree

LEMMA PersonsParent ==
    ASSUME CollectionsTypeOK, NEW t \in Pages, NEW p \in Parents,
           SubmitParent(t, p) \/ DropParent(t, p) \/ UseTheirs(t, p) \/ KeepMine(t, p)
    PROVE  /\ tab' \in [Pages -> Views] /\ SameElse(t) /\ KeepsPlace(t)
           /\ HasParents(t) /\ KeepsChildren(t)
<1>1. tab' = [tab EXCEPT ![t] = ReadParents(tab[t], parent')]
  BY DEF SubmitParent, DropParent, UseTheirs, KeepMine
<1>2. tab[t] \in Views
  BY DEF CollectionsTypeOK
<1>. QED
  BY <1>1, <1>2, ParentsReread DEF SameElse, KeepsPlace, HasParents, KeepsChildren

(* What the queue of the children becomes.                                 *)
LEMMA ChildSubmitted ==
    ASSUME CollectionsTypeOK, NEW t \in Pages, NEW c \in Children, NEW refs \in SUBSET Parents,
           SubmitChild(t, c, refs)
    PROVE  /\ child' \in [Children -> Entries] /\ \A d \in Children \ {c} : child'[d] = child[d]
           /\ child'[c].refs = refs /\ child'[c].behind = child[c].refs
<1>1. child[c] \in Entries /\ child \in [Children -> Entries]
  BY DEF CollectionsTypeOK
<1>. DEFINE x == [queued |-> TRUE, refs |-> refs, behind |-> child[c].refs,
                  merged |-> child[c].queued, started |-> FALSE]
<1>2. x \in Entries
  BY <1>1 DEF Entries
<1>3. child' = [child EXCEPT ![c] = x]
  BY DEF SubmitChild
<1>. QED
  BY <1>1, <1>2, <1>3

LEMMA ChildWithdrawn ==
    ASSUME CollectionsTypeOK, NEW t \in Pages, NEW c \in Children, WithdrawChild(t, c)
    PROVE  /\ child' \in [Children -> Entries] /\ \A d \in Children \ {c} : child'[d] = child[d]
           /\ child'[c].refs \subseteq child[c].behind /\ child'[c].behind = {}
<1>1. child[c] \in Entries /\ child \in [Children -> Entries]
  BY DEF CollectionsTypeOK
<1>. DEFINE x == [NoChild EXCEPT !.queued = TRUE, !.refs = child[c].behind, !.started = TRUE]
            y == IF child[c].merged THEN x ELSE NoChild
<1>2. x \in Entries /\ x.refs = child[c].behind /\ x.behind = {}
  BY <1>1 DEF Entries, NoChild
<1>3. y \in Entries /\ y.refs \subseteq child[c].behind /\ y.behind = {}
  BY <1>2, NoEntry
<1>4. child' = [child EXCEPT ![c] = y]
  BY DEF WithdrawChild
<1>. HIDE DEF y
<1>. QED
  BY <1>1, <1>3, <1>4

LEMMA ReferencesRemoved ==
    ASSUME CollectionsTypeOK, NEW t \in Pages, NEW p \in Parents, RemoveReferences(t, p)
    PROVE  /\ child' \in [Children -> Entries]
           /\ \A c \in Children :
                 /\ child'[c].queued = child[c].queued
                 /\ child'[c].refs = child[c].refs \ {p}
                 /\ child'[c].behind = child[c].behind \ {p}
<1>1. child \in [Children -> Entries]
      /\ child' = [c \in Children |-> Without(child[c], p)]
  BY DEF CollectionsTypeOK, RemoveReferences
<1>. QED
  BY <1>1, LessOf

LEMMA ChildStarted ==
    ASSUME CollectionsTypeOK, NEW t \in Pages, NEW c \in Children, SendChild(t, c)
    PROVE  /\ child' \in [Children -> Entries]
           /\ \A d \in Children :
                 /\ child'[d].queued = child[d].queued
                 /\ child'[d].refs = child[d].refs /\ child'[d].behind = child[d].behind
<1>1. child \in [Children -> Entries] /\ child' = [child EXCEPT ![c].started = TRUE]
  BY DEF CollectionsTypeOK, SendChild
<1>2. \A e \in Entries : /\ [e EXCEPT !.started = TRUE] \in Entries
                         /\ [e EXCEPT !.started = TRUE].queued = e.queued
                         /\ [e EXCEPT !.started = TRUE].refs = e.refs
                         /\ [e EXCEPT !.started = TRUE].behind = e.behind
  BY DEF Entries
<1>3. child' = [child EXCEPT ![c] = [child[c] EXCEPT !.started = TRUE]]
  BY <1>1
<1>4. child[c] \in Entries
  BY <1>1
<1>. QED
  BY <1>1, <1>2, <1>3, <1>4

LEMMA ChildAnswered ==
    ASSUME CollectionsTypeOK, NEW t \in Pages, ChildSent(t)
    PROVE  /\ child' \in [Children -> Entries]
           /\ \A d \in Children :
                 /\ child'[d].queued
                     => child[d].queued /\ child'[d].refs = child[d].refs
                 /\ child'[d].refs \subseteq child[d].refs
                 /\ child'[d].behind \subseteq child[d].behind
<1>. DEFINE c == CHOOSE e \in tab[t].after : TRUE
<1>1. child \in [Children -> Entries]
  BY DEF CollectionsTypeOK
<1>2. child' = [child EXCEPT ![c] = NoChild] \/ child' = child
  BY DEF ChildSent
<1>. HIDE DEF c
<1>3. CASE child' = [child EXCEPT ![c] = NoChild]
  <2>1. child' \in [Children -> Entries]
        /\ \A d \in Children : child'[d] = IF d = c THEN NoChild ELSE child[d]
    BY <1>1, <1>3, NoEntry
  <2>. QED
    BY <2>1, NoEntry
<1>. QED
  BY <1>1, <1>2, <1>3

LEMMA PersonsChild ==
    ASSUME CollectionsTypeOK, NEW t \in Pages, child' \in [Children -> Entries],
           tab' = [tab EXCEPT ![t] = ReadChildren(tab[t], child')]
    PROVE  /\ tab' \in [Pages -> Views] /\ SameElse(t) /\ KeepsPlace(t)
           /\ HasChildren(t) /\ KeepsParents(t)
<1>1. tab[t] \in Views
  BY DEF CollectionsTypeOK
<1>. QED
  BY <1>1, ChildrenReread DEF SameElse, KeepsPlace, HasChildren, KeepsParents

LEMMA AfterRemoval ==
    ASSUME CollectionsTypeOK, NEW t \in Pages, NEW p \in Parents, RemoveReferences(t, p)
    PROVE  /\ tab' \in [Pages -> Views] /\ SameElse(t) /\ tab'[t].pc = tab[t].pc
           /\ HasChildren(t) /\ KeepsParents(t)
<1>. DEFINE v == Reported(tab[t], p)
<1>1. tab[t] \in Views
  BY DEF CollectionsTypeOK
<1>2. v \in Views /\ v.pc = tab[t].pc /\ v.parents = tab[t].parents
      /\ v.pending = tab[t].pending
  BY <1>1 DEF Views, Reported
<1>3. tab' = [tab EXCEPT ![t] = ReadChildren(v, child')]
  BY DEF RemoveReferences
<1>4. child' \in [Children -> Entries]
  BY ReferencesRemoved
<1>. HIDE DEF v
<1>. QED
  BY <1>2, <1>3, <1>4, ChildrenReread DEF SameElse, HasChildren, KeepsParents

LEMMA AfterFlushParents ==
    ASSUME CollectionsTypeOK, NEW t \in Pages, FlushParents(t)
    PROVE  /\ tab' \in [Pages -> Views] /\ SameElse(t) /\ tab'[t].pc = "parents"
           /\ HasParents(t) /\ KeepsChildren(t)
<1>. DEFINE v == [tab[t] EXCEPT !.pc = "parents", !.todo = QueuedParents]
<1>1. tab[t] \in Views
  BY DEF CollectionsTypeOK
<1>2. v \in Views /\ v.pc = "parents" /\ v.children = tab[t].children
      /\ v.refs = tab[t].refs
  BY <1>1 DEF Views, QueuedParents
<1>3. tab' = [tab EXCEPT ![t] = ReadParents(v, parent')]
  BY DEF FlushParents
<1>. HIDE DEF v
<1>. QED
  BY <1>2, <1>3, ParentsReread DEF SameElse, HasParents, KeepsChildren

LEMMA AfterFlushChildren ==
    ASSUME CollectionsTypeOK, NEW t \in Pages, FlushChildren(t)
    PROVE  /\ tab' \in [Pages -> Views] /\ SameElse(t) /\ tab'[t].pc = "children"
           /\ HasChildren(t) /\ KeepsParents(t)
<1>. DEFINE v == [tab[t] EXCEPT !.pc = "children", !.todo = QueuedChildren]
<1>1. tab[t] \in Views /\ child \in [Children -> Entries]
  BY DEF CollectionsTypeOK
<1>2. v \in Views /\ v.pc = "children" /\ v.parents = tab[t].parents
      /\ v.pending = tab[t].pending
  BY <1>1 DEF Views, QueuedChildren
<1>3. tab' = [tab EXCEPT ![t] = ReadChildren(v, child')]
      /\ child' \in [Children -> Entries]
  BY <1>1 DEF FlushChildren
<1>. HIDE DEF v
<1>. QED
  BY <1>1, <1>2, <1>3, ChildrenReread DEF SameElse, HasChildren, KeepsParents

LEMMA AfterSendParent ==
    ASSUME CollectionsTypeOK, NEW t \in Pages, NEW p \in Parents, SendParent(t, p)
    PROVE  /\ tab' \in [Pages -> Views] /\ SameElse(t) /\ tab'[t].pc = "sendParent"
           /\ tab'[t].after = {p} /\ HasParents(t) /\ KeepsChildren(t)
<1>. DEFINE v == [tab[t] EXCEPT !.pc = "sendParent", !.after = {p}]
<1>1. tab[t] \in Views
  BY DEF CollectionsTypeOK
<1>2. v \in Views /\ v.pc = "sendParent" /\ v.after = {p}
      /\ v.children = tab[t].children /\ v.refs = tab[t].refs
  BY <1>1 DEF Views
<1>3. tab' = [tab EXCEPT ![t] = ReadParents(v, parent')]
  BY DEF SendParent
<1>. HIDE DEF v
<1>. QED
  BY <1>2, <1>3, ParentsReread DEF SameElse, HasParents, KeepsChildren

LEMMA AfterSendChild ==
    ASSUME CollectionsTypeOK, NEW t \in Pages, NEW c \in Children, SendChild(t, c)
    PROVE  /\ tab' \in [Pages -> Views] /\ SameElse(t) /\ tab'[t].pc = "sendChild"
           /\ HasChildren(t) /\ KeepsParents(t)
<1>. DEFINE v == [tab[t] EXCEPT !.pc = "sendChild", !.after = {c}]
<1>1. tab[t] \in Views
  BY DEF CollectionsTypeOK
<1>2. v \in Views /\ v.pc = "sendChild" /\ v.parents = tab[t].parents
      /\ v.pending = tab[t].pending
  BY <1>1 DEF Views
<1>3. tab' = [tab EXCEPT ![t] = ReadChildren(v, child')]
      /\ child' \in [Children -> Entries]
  BY ChildStarted DEF SendChild
<1>. HIDE DEF v
<1>. QED
  BY <1>2, <1>3, ChildrenReread DEF SameElse, HasChildren, KeepsParents

(* An entry is skipped, or the flush of its queue stops.                   *)
LEMMA AfterTurn ==
    ASSUME CollectionsTypeOK, NEW t \in Pages, NEW e, Skip(t, e) \/ Offline(t, e)
    PROVE  /\ tab' \in [Pages -> Views] /\ SameElse(t)
           /\ tab'[t].pc = tab[t].pc /\ tab'[t].after = tab[t].after
           /\ KeepsParents(t) /\ KeepsChildren(t)
<1>1. tab \in [Pages -> Views] /\ tab[t] \in Views
  BY DEF CollectionsTypeOK
<1>2. PICK s \in {tab[t].todo \ {e}, {}} : tab' = [tab EXCEPT ![t].todo = s]
  BY DEF Skip, Offline
<1>. DEFINE v == [tab[t] EXCEPT !.todo = s]
<1>3. v \in Views /\ v.pc = tab[t].pc /\ v.after = tab[t].after
      /\ v.parents = tab[t].parents
      /\ v.pending = tab[t].pending /\ v.children = tab[t].children /\ v.refs = tab[t].refs
  BY <1>1 DEF Views
<1>4. tab' = [tab EXCEPT ![t] = v]
  BY <1>1, <1>2
<1>. HIDE DEF v
<1>. QED
  BY <1>1, <1>3, <1>4 DEF SameElse, KeepsParents, KeepsChildren

LEMMA AfterFlushEnds ==
    ASSUME CollectionsTypeOK, NEW t \in Pages, FlushEnds(t)
    PROVE  tab' \in [Pages -> Views] /\ SameElse(t) /\ tab'[t].pc = "idle"
<1>. DEFINE v == [tab[t] EXCEPT !.pc = "idle"]
<1>1. tab \in [Pages -> Views] /\ tab[t] \in Views
  BY DEF CollectionsTypeOK
<1>2. v \in Views /\ v.pc = "idle"
  BY <1>1 DEF Views
<1>3. tab' = [tab EXCEPT ![t] = v]
  BY <1>1 DEF FlushEnds
<1>. HIDE DEF v
<1>. QED
  BY <1>1, <1>2, <1>3 DEF SameElse

LEMMA AfterTabCloses ==
    ASSUME CollectionsTypeOK, NEW t \in Pages, TabCloses(t)
    PROVE  tab' \in [Pages -> Views] /\ SameElse(t) /\ tab'[t].pc = "idle"
<1>1. tab \in [Pages -> Views] /\ tab' = [tab EXCEPT ![t] = Rest]
  BY DEF CollectionsTypeOK, TabCloses
<1>. QED
  BY <1>1, AtRest DEF SameElse

LEMMA AfterChildSent ==
    ASSUME CollectionsTypeOK, NEW t \in Pages, ChildSent(t)
    PROVE  /\ tab' \in [Pages -> Views] /\ SameElse(t) /\ tab'[t].pc = "children"
           /\ KeepsParents(t)
           /\ HasChildren(t) \/ (child' = child /\ KeepsChildren(t))
<1>. DEFINE c == CHOOSE e \in tab[t].after : TRUE
            v == GoesOn(tab[t], "children", c)
            w == Stops(tab[t], "children")
<1>1. tab \in [Pages -> Views] /\ tab[t] \in Views
  BY DEF CollectionsTypeOK
<1>2. v \in Views /\ v.pc = "children" /\ v.parents = tab[t].parents
      /\ v.pending = tab[t].pending
  BY <1>1 DEF Views, GoesOn, Stops
<1>3. w \in Views /\ w.pc = "children" /\ w.parents = tab[t].parents
      /\ w.pending = tab[t].pending
      /\ w.children = tab[t].children /\ w.refs = tab[t].refs
  BY <1>1 DEF Views, GoesOn, Stops
<1>4. \/ tab' = [tab EXCEPT ![t] = ReadChildren(v, child')]
      \/ tab' = [tab EXCEPT ![t] = w] /\ child' = child
  BY DEF ChildSent
<1>5. child' \in [Children -> Entries]
  BY ChildAnswered
<1>6. CASE tab' = [tab EXCEPT ![t] = ReadChildren(v, child')]
  <2>. HIDE DEF v
  <2>. QED
    BY <1>2, <1>5, <1>6, ChildrenReread DEF SameElse, HasChildren, KeepsParents
<1>7. CASE tab' = [tab EXCEPT ![t] = w] /\ child' = child
  <2>. HIDE DEF w
  <2>. QED
    BY <1>1, <1>3, <1>7 DEF SameElse, KeepsChildren, KeepsParents
<1>. QED
  BY <1>4, <1>6, <1>7

LEMMA AfterParentSent ==
    ASSUME CollectionsTypeOK, SendInv, NEW t \in Pages, ParentSent(t)
    PROVE  /\ tab' \in [Pages -> Views] /\ SameElse(t) /\ tab'[t].pc = "parents"
           /\ KeepsChildren(t)
           /\ HasParents(t) \/ (parent' = parent /\ KeepsParents(t))
<1>. DEFINE p == Sends(t)
            v == GoesOn(tab[t], "parents", p)
            w == Stops(tab[t], "parents")
            x == [ReadParents(v, parent') EXCEPT !.after = {p}]
<1>1. tab \in [Pages -> Views] /\ tab[t] \in Views
  BY DEF CollectionsTypeOK
<1>2. v \in Views /\ v.pc = "parents" /\ v.children = tab[t].children
      /\ v.refs = tab[t].refs
  BY <1>1 DEF Views, GoesOn, Stops
<1>3. w \in Views /\ w.pc = "parents" /\ w.parents = tab[t].parents
      /\ w.pending = tab[t].pending
      /\ w.children = tab[t].children /\ w.refs = tab[t].refs
  BY <1>1 DEF Views, GoesOn, Stops
<1>4. p \in Parents
  BY SentParent DEF ParentSent
<1>. HIDE DEF v, w, p
<1>5. \/ tab' = [tab EXCEPT ![t] = ReadParents(v, parent')]
      \/ tab' = [tab EXCEPT ![t] = w] /\ parent' = parent
      \/ tab' = [tab EXCEPT ![t] = x]
  BY DEF ParentSent, p, v, w
<1>6. ReadParents(v, parent') \in Views
  BY <1>2, ParentsRead
<1>7. /\ x \in Views /\ x.pc = ReadParents(v, parent').pc
      /\ x.parents = ReadParents(v, parent').parents
      /\ x.pending = ReadParents(v, parent').pending
      /\ x.children = ReadParents(v, parent').children
      /\ x.refs = ReadParents(v, parent').refs
  BY <1>4, <1>6 DEF Views
<1>. HIDE DEF x
<1>8. CASE tab' = [tab EXCEPT ![t] = ReadParents(v, parent')]
  BY <1>2, <1>8, ParentsReread DEF SameElse, HasParents, KeepsChildren
<1>9. CASE tab' = [tab EXCEPT ![t] = w] /\ parent' = parent
  BY <1>1, <1>3, <1>9 DEF SameElse, KeepsChildren, KeepsParents
<1>10. CASE tab' = [tab EXCEPT ![t] = x]
  <2>1. tab' \in [Pages -> Views] /\ SameElse(t) /\ tab'[t] = x
    BY <1>1, <1>7, <1>10 DEF SameElse
  <2>2. x.pc = "parents" /\ x.children = tab[t].children /\ x.refs = tab[t].refs
    BY <1>2, <1>7, ParentsRead
  <2>3. x.parents = {q \in Parents : parent'[q] # "none"}
        /\ x.pending = {q \in Parents : parent'[q] = "pending"}
    BY <1>2, <1>7, ParentsRead
  <2>. QED
    BY <2>1, <2>2, <2>3 DEF HasParents, KeepsChildren
<1>. QED
  BY <1>5, <1>8, <1>9, <1>10

(* Every step keeps the queues, the flushes and what the tabs read well formed.*)
LEMMA CollectionsTypeStep ==
    ASSUME CollectionsTypeOK, SendInv, [CollectionsNext]_collectionsVars
    PROVE  CollectionsTypeOK'
<1>1. ASSUME NEW t \in Pages, NEW p \in Parents, SubmitParent(t, p)
      PROVE  CollectionsTypeOK'
  <2>1. tab' \in [Pages -> Views]
    BY <1>1, PersonsParent
  <2>2. child' \in [Children -> Entries]
    BY <1>1 DEF CollectionsTypeOK, SubmitParent
  <2>3. /\ parent' \in [Parents -> {"none", "pending", "rejected", "version"}]
        /\ started' \subseteq Parents /\ server' \subseteq Parents /\ abandoned' \subseteq Parents
        /\ news' \in [Pages -> SUBSET Parents] /\ lost' \subseteq Parents
    BY <1>1 DEF CollectionsTypeOK, SubmitParent, Leaves
  <2>4. /\ holder' \in Pages \cup {NoHolder}
        /\ kicked' \subseteq Pages /\ asks' \subseteq Pages /\ closed' \subseteq Pages
    BY <1>1 DEF CollectionsTypeOK, SubmitParent
  <2>5. early' \in BOOLEAN
    BY <1>1 DEF CollectionsTypeOK, SubmitParent
  <2>6. writes' \in 0 .. MaxWrites /\ trouble' \in 0 .. MaxTrouble
    BY <1>1, CollectionsAssumption DEF CollectionsTypeOK, SubmitParent, Writes, Trouble
  <2>. QED
    BY <2>1, <2>2, <2>3, <2>4, <2>5, <2>6 DEF CollectionsTypeOK
<1>2. ASSUME NEW t \in Pages, NEW p \in Parents, DropParent(t, p)
      PROVE  CollectionsTypeOK'
  <2>1. tab' \in [Pages -> Views]
    BY <1>2, PersonsParent
  <2>2. child' \in [Children -> Entries]
    BY <1>2 DEF CollectionsTypeOK, DropParent
  <2>3. /\ parent' \in [Parents -> {"none", "pending", "rejected", "version"}]
        /\ started' \subseteq Parents /\ server' \subseteq Parents /\ abandoned' \subseteq Parents
        /\ news' \in [Pages -> SUBSET Parents] /\ lost' \subseteq Parents
    BY <1>2 DEF CollectionsTypeOK, DropParent, Leaves
  <2>4. /\ holder' \in Pages \cup {NoHolder}
        /\ kicked' \subseteq Pages /\ asks' \subseteq Pages /\ closed' \subseteq Pages
    BY <1>2 DEF CollectionsTypeOK, DropParent
  <2>5. early' \in BOOLEAN
    BY <1>2 DEF CollectionsTypeOK, DropParent
  <2>6. writes' \in 0 .. MaxWrites /\ trouble' \in 0 .. MaxTrouble
    BY <1>2, CollectionsAssumption DEF CollectionsTypeOK, DropParent, Writes, Trouble
  <2>. QED
    BY <2>1, <2>2, <2>3, <2>4, <2>5, <2>6 DEF CollectionsTypeOK
<1>3. ASSUME NEW t \in Pages, NEW p \in Parents, UseTheirs(t, p)
      PROVE  CollectionsTypeOK'
  <2>1. tab' \in [Pages -> Views]
    BY <1>3, PersonsParent
  <2>2. child' \in [Children -> Entries]
    BY <1>3 DEF CollectionsTypeOK, UseTheirs
  <2>3. /\ parent' \in [Parents -> {"none", "pending", "rejected", "version"}]
        /\ started' \subseteq Parents /\ server' \subseteq Parents /\ abandoned' \subseteq Parents
        /\ news' \in [Pages -> SUBSET Parents] /\ lost' \subseteq Parents
    BY <1>3 DEF CollectionsTypeOK, UseTheirs, Leaves
  <2>4. /\ holder' \in Pages \cup {NoHolder}
        /\ kicked' \subseteq Pages /\ asks' \subseteq Pages /\ closed' \subseteq Pages
    BY <1>3 DEF CollectionsTypeOK, UseTheirs
  <2>5. early' \in BOOLEAN
    BY <1>3 DEF CollectionsTypeOK, UseTheirs
  <2>6. writes' \in 0 .. MaxWrites /\ trouble' \in 0 .. MaxTrouble
    BY <1>3, CollectionsAssumption DEF CollectionsTypeOK, UseTheirs, Writes, Trouble
  <2>. QED
    BY <2>1, <2>2, <2>3, <2>4, <2>5, <2>6 DEF CollectionsTypeOK
<1>4. ASSUME NEW t \in Pages, NEW p \in Parents, KeepMine(t, p)
      PROVE  CollectionsTypeOK'
  <2>1. tab' \in [Pages -> Views]
    BY <1>4, PersonsParent
  <2>2. child' \in [Children -> Entries]
    BY <1>4 DEF CollectionsTypeOK, KeepMine
  <2>3. /\ parent' \in [Parents -> {"none", "pending", "rejected", "version"}]
        /\ started' \subseteq Parents /\ server' \subseteq Parents /\ abandoned' \subseteq Parents
        /\ news' \in [Pages -> SUBSET Parents] /\ lost' \subseteq Parents
    BY <1>4 DEF CollectionsTypeOK, KeepMine, Leaves
  <2>4. /\ holder' \in Pages \cup {NoHolder}
        /\ kicked' \subseteq Pages /\ asks' \subseteq Pages /\ closed' \subseteq Pages
    BY <1>4 DEF CollectionsTypeOK, KeepMine
  <2>5. early' \in BOOLEAN
    BY <1>4 DEF CollectionsTypeOK, KeepMine
  <2>6. writes' \in 0 .. MaxWrites /\ trouble' \in 0 .. MaxTrouble
    BY <1>4, CollectionsAssumption DEF CollectionsTypeOK, KeepMine, Writes, Trouble
  <2>. QED
    BY <2>1, <2>2, <2>3, <2>4, <2>5, <2>6 DEF CollectionsTypeOK
<1>5. ASSUME NEW t \in Pages, NEW p \in Parents, RemoveReferences(t, p)
      PROVE  CollectionsTypeOK'
  <2>1. tab' \in [Pages -> Views]
    BY <1>5, AfterRemoval
  <2>2. child' \in [Children -> Entries]
    BY <1>5, ReferencesRemoved DEF CollectionsTypeOK, RemoveReferences
  <2>3. /\ parent' \in [Parents -> {"none", "pending", "rejected", "version"}]
        /\ started' \subseteq Parents /\ server' \subseteq Parents /\ abandoned' \subseteq Parents
        /\ news' \in [Pages -> SUBSET Parents] /\ lost' \subseteq Parents
    BY <1>5 DEF CollectionsTypeOK, RemoveReferences, Leaves
  <2>4. /\ holder' \in Pages \cup {NoHolder}
        /\ kicked' \subseteq Pages /\ asks' \subseteq Pages /\ closed' \subseteq Pages
    BY <1>5 DEF CollectionsTypeOK, RemoveReferences
  <2>5. early' \in BOOLEAN
    BY <1>5 DEF CollectionsTypeOK, RemoveReferences
  <2>6. writes' \in 0 .. MaxWrites /\ trouble' \in 0 .. MaxTrouble
    BY <1>5, CollectionsAssumption DEF CollectionsTypeOK, RemoveReferences, Writes, Trouble
  <2>. QED
    BY <2>1, <2>2, <2>3, <2>4, <2>5, <2>6 DEF CollectionsTypeOK
<1>6. ASSUME NEW t \in Pages, NEW p \in Parents, SendParent(t, p)
      PROVE  CollectionsTypeOK'
  <2>1. tab' \in [Pages -> Views]
    BY <1>6, AfterSendParent
  <2>2. child' \in [Children -> Entries]
    BY <1>6 DEF CollectionsTypeOK, SendParent
  <2>3. /\ parent' \in [Parents -> {"none", "pending", "rejected", "version"}]
        /\ started' \subseteq Parents /\ server' \subseteq Parents /\ abandoned' \subseteq Parents
        /\ news' \in [Pages -> SUBSET Parents] /\ lost' \subseteq Parents
    BY <1>6 DEF CollectionsTypeOK, SendParent, Leaves
  <2>4. /\ holder' \in Pages \cup {NoHolder}
        /\ kicked' \subseteq Pages /\ asks' \subseteq Pages /\ closed' \subseteq Pages
    BY <1>6 DEF CollectionsTypeOK, SendParent
  <2>5. early' \in BOOLEAN
    BY <1>6 DEF CollectionsTypeOK, SendParent
  <2>6. writes' \in 0 .. MaxWrites /\ trouble' \in 0 .. MaxTrouble
    BY <1>6, CollectionsAssumption DEF CollectionsTypeOK, SendParent, Writes, Trouble
  <2>. QED
    BY <2>1, <2>2, <2>3, <2>4, <2>5, <2>6 DEF CollectionsTypeOK
<1>7. ASSUME NEW t \in Pages, NEW c \in Children, NEW refs \in SUBSET
       Parents, SubmitChild(t, c, refs)
      PROVE  CollectionsTypeOK'
  <2>0. child' \in [Children -> Entries]
    BY <1>7, ChildSubmitted
  <2>7. tab' = [tab EXCEPT ![t] = ReadChildren(tab[t], child')]
    BY <1>7 DEF SubmitChild
  <2>1. tab' \in [Pages -> Views]
    BY <1>7, <2>0, <2>7, PersonsChild
  <2>2. child' \in [Children -> Entries]
    BY <1>7, <2>0 DEF CollectionsTypeOK, SubmitChild
  <2>3. /\ parent' \in [Parents -> {"none", "pending", "rejected", "version"}]
        /\ started' \subseteq Parents /\ server' \subseteq Parents /\ abandoned' \subseteq Parents
        /\ news' \in [Pages -> SUBSET Parents] /\ lost' \subseteq Parents
    BY <1>7 DEF CollectionsTypeOK, SubmitChild, Leaves
  <2>4. /\ holder' \in Pages \cup {NoHolder}
        /\ kicked' \subseteq Pages /\ asks' \subseteq Pages /\ closed' \subseteq Pages
    BY <1>7 DEF CollectionsTypeOK, SubmitChild
  <2>5. early' \in BOOLEAN
    BY <1>7 DEF CollectionsTypeOK, SubmitChild
  <2>6. writes' \in 0 .. MaxWrites /\ trouble' \in 0 .. MaxTrouble
    BY <1>7, CollectionsAssumption DEF CollectionsTypeOK, SubmitChild, Writes, Trouble
  <2>. QED
    BY <2>1, <2>2, <2>3, <2>4, <2>5, <2>6 DEF CollectionsTypeOK
<1>8. ASSUME NEW t \in Pages, NEW c \in Children, WithdrawChild(t, c)
      PROVE  CollectionsTypeOK'
  <2>0. child' \in [Children -> Entries]
    BY <1>8, ChildWithdrawn
  <2>7. tab' = [tab EXCEPT ![t] = ReadChildren(tab[t], child')]
    BY <1>8 DEF WithdrawChild
  <2>1. tab' \in [Pages -> Views]
    BY <1>8, <2>0, <2>7, PersonsChild
  <2>2. child' \in [Children -> Entries]
    BY <1>8, <2>0 DEF CollectionsTypeOK, WithdrawChild
  <2>3. /\ parent' \in [Parents -> {"none", "pending", "rejected", "version"}]
        /\ started' \subseteq Parents /\ server' \subseteq Parents /\ abandoned' \subseteq Parents
        /\ news' \in [Pages -> SUBSET Parents] /\ lost' \subseteq Parents
    BY <1>8 DEF CollectionsTypeOK, WithdrawChild, Leaves
  <2>4. /\ holder' \in Pages \cup {NoHolder}
        /\ kicked' \subseteq Pages /\ asks' \subseteq Pages /\ closed' \subseteq Pages
    BY <1>8 DEF CollectionsTypeOK, WithdrawChild
  <2>5. early' \in BOOLEAN
    BY <1>8 DEF CollectionsTypeOK, WithdrawChild
  <2>6. writes' \in 0 .. MaxWrites /\ trouble' \in 0 .. MaxTrouble
    BY <1>8, CollectionsAssumption DEF CollectionsTypeOK, WithdrawChild, Writes, Trouble
  <2>. QED
    BY <2>1, <2>2, <2>3, <2>4, <2>5, <2>6 DEF CollectionsTypeOK
<1>9. ASSUME NEW t \in Pages, NEW c \in Children, SendChild(t, c)
      PROVE  CollectionsTypeOK'
  <2>1. tab' \in [Pages -> Views]
    BY <1>9, AfterSendChild
  <2>2. child' \in [Children -> Entries]
    BY <1>9, ChildStarted DEF CollectionsTypeOK, SendChild
  <2>3. /\ parent' \in [Parents -> {"none", "pending", "rejected", "version"}]
        /\ started' \subseteq Parents /\ server' \subseteq Parents /\ abandoned' \subseteq Parents
        /\ news' \in [Pages -> SUBSET Parents] /\ lost' \subseteq Parents
    BY <1>9 DEF CollectionsTypeOK, SendChild, Leaves
  <2>4. /\ holder' \in Pages \cup {NoHolder}
        /\ kicked' \subseteq Pages /\ asks' \subseteq Pages /\ closed' \subseteq Pages
    BY <1>9 DEF CollectionsTypeOK, SendChild
  <2>5. early' \in BOOLEAN
    BY <1>9 DEF CollectionsTypeOK, SendChild
  <2>6. writes' \in 0 .. MaxWrites /\ trouble' \in 0 .. MaxTrouble
    BY <1>9, CollectionsAssumption DEF CollectionsTypeOK, SendChild, Writes, Trouble
  <2>. QED
    BY <2>1, <2>2, <2>3, <2>4, <2>5, <2>6 DEF CollectionsTypeOK
<1>10. ASSUME NEW t \in Pages, NEW e \in Parents \cup Children, Skip(t, e)
      PROVE  CollectionsTypeOK'
  <2>1. tab' \in [Pages -> Views]
    BY <1>10, AfterTurn
  <2>2. child' \in [Children -> Entries]
    BY <1>10 DEF CollectionsTypeOK, Skip
  <2>3. /\ parent' \in [Parents -> {"none", "pending", "rejected", "version"}]
        /\ started' \subseteq Parents /\ server' \subseteq Parents /\ abandoned' \subseteq Parents
        /\ news' \in [Pages -> SUBSET Parents] /\ lost' \subseteq Parents
    BY <1>10 DEF CollectionsTypeOK, Skip, Leaves
  <2>4. /\ holder' \in Pages \cup {NoHolder}
        /\ kicked' \subseteq Pages /\ asks' \subseteq Pages /\ closed' \subseteq Pages
    BY <1>10 DEF CollectionsTypeOK, Skip
  <2>5. early' \in BOOLEAN
    BY <1>10 DEF CollectionsTypeOK, Skip
  <2>6. writes' \in 0 .. MaxWrites /\ trouble' \in 0 .. MaxTrouble
    BY <1>10, CollectionsAssumption DEF CollectionsTypeOK, Skip, Writes, Trouble
  <2>. QED
    BY <2>1, <2>2, <2>3, <2>4, <2>5, <2>6 DEF CollectionsTypeOK
<1>11. ASSUME NEW t \in Pages, NEW e \in Parents \cup Children, Offline(t,
       e)
      PROVE  CollectionsTypeOK'
  <2>1. tab' \in [Pages -> Views]
    BY <1>11, AfterTurn
  <2>2. child' \in [Children -> Entries]
    BY <1>11 DEF CollectionsTypeOK, Offline
  <2>3. /\ parent' \in [Parents -> {"none", "pending", "rejected", "version"}]
        /\ started' \subseteq Parents /\ server' \subseteq Parents /\ abandoned' \subseteq Parents
        /\ news' \in [Pages -> SUBSET Parents] /\ lost' \subseteq Parents
    BY <1>11 DEF CollectionsTypeOK, Offline, Leaves
  <2>4. /\ holder' \in Pages \cup {NoHolder}
        /\ kicked' \subseteq Pages /\ asks' \subseteq Pages /\ closed' \subseteq Pages
    BY <1>11 DEF CollectionsTypeOK, Offline
  <2>5. early' \in BOOLEAN
    BY <1>11 DEF CollectionsTypeOK, Offline
  <2>6. writes' \in 0 .. MaxWrites /\ trouble' \in 0 .. MaxTrouble
    BY <1>11, CollectionsAssumption DEF CollectionsTypeOK, Offline, Writes, Trouble
  <2>. QED
    BY <2>1, <2>2, <2>3, <2>4, <2>5, <2>6 DEF CollectionsTypeOK
<1>12. ASSUME NEW t \in Pages, FlushParents(t)
      PROVE  CollectionsTypeOK'
  <2>1. tab' \in [Pages -> Views]
    BY <1>12, AfterFlushParents
  <2>2. child' \in [Children -> Entries]
    BY <1>12 DEF CollectionsTypeOK, FlushParents
  <2>3. /\ parent' \in [Parents -> {"none", "pending", "rejected", "version"}]
        /\ started' \subseteq Parents /\ server' \subseteq Parents /\ abandoned' \subseteq Parents
        /\ news' \in [Pages -> SUBSET Parents] /\ lost' \subseteq Parents
    BY <1>12 DEF CollectionsTypeOK, FlushParents, Leaves
  <2>4. /\ holder' \in Pages \cup {NoHolder}
        /\ kicked' \subseteq Pages /\ asks' \subseteq Pages /\ closed' \subseteq Pages
    BY <1>12 DEF CollectionsTypeOK, FlushParents
  <2>5. early' \in BOOLEAN
    BY <1>12 DEF CollectionsTypeOK, FlushParents
  <2>6. writes' \in 0 .. MaxWrites /\ trouble' \in 0 .. MaxTrouble
    BY <1>12, CollectionsAssumption DEF CollectionsTypeOK, FlushParents, Writes, Trouble
  <2>. QED
    BY <2>1, <2>2, <2>3, <2>4, <2>5, <2>6 DEF CollectionsTypeOK
<1>13. ASSUME NEW t \in Pages, FlushChildren(t)
      PROVE  CollectionsTypeOK'
  <2>1. tab' \in [Pages -> Views]
    BY <1>13, AfterFlushChildren
  <2>2. child' \in [Children -> Entries]
    BY <1>13 DEF CollectionsTypeOK, FlushChildren
  <2>3. /\ parent' \in [Parents -> {"none", "pending", "rejected", "version"}]
        /\ started' \subseteq Parents /\ server' \subseteq Parents /\ abandoned' \subseteq Parents
        /\ news' \in [Pages -> SUBSET Parents] /\ lost' \subseteq Parents
    BY <1>13 DEF CollectionsTypeOK, FlushChildren, Leaves
  <2>4. /\ holder' \in Pages \cup {NoHolder}
        /\ kicked' \subseteq Pages /\ asks' \subseteq Pages /\ closed' \subseteq Pages
    BY <1>13 DEF CollectionsTypeOK, FlushChildren
  <2>5. early' \in BOOLEAN
    BY <1>13 DEF CollectionsTypeOK, FlushChildren
  <2>6. writes' \in 0 .. MaxWrites /\ trouble' \in 0 .. MaxTrouble
    BY <1>13, CollectionsAssumption DEF CollectionsTypeOK, FlushChildren, Writes, Trouble
  <2>. QED
    BY <2>1, <2>2, <2>3, <2>4, <2>5, <2>6 DEF CollectionsTypeOK
<1>14. ASSUME NEW t \in Pages, FlushEnds(t)
      PROVE  CollectionsTypeOK'
  <2>1. tab' \in [Pages -> Views]
    BY <1>14, AfterFlushEnds
  <2>2. child' \in [Children -> Entries]
    BY <1>14 DEF CollectionsTypeOK, FlushEnds
  <2>3. /\ parent' \in [Parents -> {"none", "pending", "rejected", "version"}]
        /\ started' \subseteq Parents /\ server' \subseteq Parents /\ abandoned' \subseteq Parents
        /\ news' \in [Pages -> SUBSET Parents] /\ lost' \subseteq Parents
    BY <1>14 DEF CollectionsTypeOK, FlushEnds, Leaves
  <2>4. /\ holder' \in Pages \cup {NoHolder}
        /\ kicked' \subseteq Pages /\ asks' \subseteq Pages /\ closed' \subseteq Pages
    BY <1>14 DEF CollectionsTypeOK, FlushEnds
  <2>5. early' \in BOOLEAN
    BY <1>14 DEF CollectionsTypeOK, FlushEnds
  <2>6. writes' \in 0 .. MaxWrites /\ trouble' \in 0 .. MaxTrouble
    BY <1>14, CollectionsAssumption DEF CollectionsTypeOK, FlushEnds, Writes, Trouble
  <2>. QED
    BY <2>1, <2>2, <2>3, <2>4, <2>5, <2>6 DEF CollectionsTypeOK
<1>15. ASSUME NEW t \in Pages, ParentSent(t)
      PROVE  CollectionsTypeOK'
  <2>0. Sends(t) \in Parents
    BY <1>15, SentParent DEF ParentSent
  <2>1. tab' \in [Pages -> Views]
    BY <1>15, AfterParentSent
  <2>2. child' \in [Children -> Entries]
    BY <1>15 DEF CollectionsTypeOK, ParentSent
  <2>3. /\ parent' \in [Parents -> {"none", "pending", "rejected", "version"}]
        /\ started' \subseteq Parents /\ server' \subseteq Parents /\ abandoned' \subseteq Parents
        /\ news' \in [Pages -> SUBSET Parents] /\ lost' \subseteq Parents
    BY <1>15, <2>0 DEF CollectionsTypeOK, ParentSent, Leaves
  <2>4. /\ holder' \in Pages \cup {NoHolder}
        /\ kicked' \subseteq Pages /\ asks' \subseteq Pages /\ closed' \subseteq Pages
    BY <1>15 DEF CollectionsTypeOK, ParentSent
  <2>5. early' \in BOOLEAN
    BY <1>15 DEF CollectionsTypeOK, ParentSent
  <2>6. writes' \in 0 .. MaxWrites /\ trouble' \in 0 .. MaxTrouble
    BY <1>15, CollectionsAssumption DEF CollectionsTypeOK, ParentSent, Writes, Trouble
  <2>. QED
    BY <2>1, <2>2, <2>3, <2>4, <2>5, <2>6 DEF CollectionsTypeOK
<1>16. ASSUME NEW t \in Pages, ChildSent(t)
      PROVE  CollectionsTypeOK'
  <2>1. tab' \in [Pages -> Views]
    BY <1>16, AfterChildSent
  <2>2. child' \in [Children -> Entries]
    BY <1>16, ChildAnswered DEF CollectionsTypeOK, ChildSent
  <2>3. /\ parent' \in [Parents -> {"none", "pending", "rejected", "version"}]
        /\ started' \subseteq Parents /\ server' \subseteq Parents /\ abandoned' \subseteq Parents
        /\ news' \in [Pages -> SUBSET Parents] /\ lost' \subseteq Parents
    BY <1>16 DEF CollectionsTypeOK, ChildSent, Leaves
  <2>4. /\ holder' \in Pages \cup {NoHolder}
        /\ kicked' \subseteq Pages /\ asks' \subseteq Pages /\ closed' \subseteq Pages
    BY <1>16 DEF CollectionsTypeOK, ChildSent
  <2>5. early' \in BOOLEAN
    BY <1>16 DEF CollectionsTypeOK, ChildSent
  <2>6. writes' \in 0 .. MaxWrites /\ trouble' \in 0 .. MaxTrouble
    BY <1>16, CollectionsAssumption DEF CollectionsTypeOK, ChildSent, Writes, Trouble
  <2>. QED
    BY <2>1, <2>2, <2>3, <2>4, <2>5, <2>6 DEF CollectionsTypeOK
<1>17. ASSUME NEW t \in Pages, TabCloses(t)
      PROVE  CollectionsTypeOK'
  <2>0. tab[t] \in Views
    BY DEF CollectionsTypeOK
  <2>7. tab[t].pc = "sendParent" => tab[t].after \subseteq Parents
    BY SentParent
  <2>1. tab' \in [Pages -> Views]
    BY <1>17, AfterTabCloses
  <2>2. child' \in [Children -> Entries]
    BY <1>17 DEF CollectionsTypeOK, TabCloses
  <2>3. /\ parent' \in [Parents -> {"none", "pending", "rejected", "version"}]
        /\ started' \subseteq Parents /\ server' \subseteq Parents /\ abandoned' \subseteq Parents
        /\ news' \in [Pages -> SUBSET Parents] /\ lost' \subseteq Parents
    BY <1>17, <2>7 DEF CollectionsTypeOK, TabCloses, Leaves
  <2>4. /\ holder' \in Pages \cup {NoHolder}
        /\ kicked' \subseteq Pages /\ asks' \subseteq Pages /\ closed' \subseteq Pages
    BY <1>17 DEF CollectionsTypeOK, TabCloses
  <2>5. early' \in BOOLEAN
    BY <1>17 DEF CollectionsTypeOK, TabCloses
  <2>6. writes' \in 0 .. MaxWrites /\ trouble' \in 0 .. MaxTrouble
    BY <1>17, CollectionsAssumption DEF CollectionsTypeOK, TabCloses, Writes, Trouble
  <2>. QED
    BY <2>1, <2>2, <2>3, <2>4, <2>5, <2>6 DEF CollectionsTypeOK
<1>18. ASSUME UNCHANGED collectionsVars
      PROVE  CollectionsTypeOK'
  BY <1>18 DEF collectionsVars, CollectionsTypeOK
<1>. QED
  BY <1>1, <1>2, <1>3, <1>4, <1>5, <1>6, <1>7, <1>8, <1>9, <1>10, <1>11,
     <1>12, <1>13, <1>14, <1>15, <1>16, <1>17, <1>18 DEF CollectionsNext


(* A parent stays in one place: queued, with the server, or given up.      *)
LEMMA QueueStep ==
    ASSUME CollectionsTypeOK, SendInv, QueueInv, [CollectionsNext]_collectionsVars
    PROVE  QueueInv'
<1>1. ASSUME NEW t \in Pages, NEW p \in Parents, SubmitParent(t, p)
      PROVE  QueueInv'
  <2>1. \A q \in Parents :
          /\ parent'[q] # "none" => q \notin abandoned'
          /\ parent'[q] = "version" => q \in server'
          /\ parent'[q] = "rejected" => q \notin server'
    BY <1>1 DEF CollectionsTypeOK, QueueInv, SubmitParent, Leaves
  <2>2. server' \cap abandoned' = {} /\ server' \subseteq started'
    BY <1>1 DEF CollectionsTypeOK, QueueInv, SubmitParent, Leaves
  <2>3. \A k \in Pages : news'[k] \subseteq abandoned'
    BY <1>1 DEF CollectionsTypeOK, QueueInv, SubmitParent, Leaves
  <2>. QED
    BY <2>1, <2>2, <2>3 DEF QueueInv
<1>2. ASSUME NEW t \in Pages, NEW p \in Parents, DropParent(t, p)
      PROVE  QueueInv'
  <2>1. \A q \in Parents :
          /\ parent'[q] # "none" => q \notin abandoned'
          /\ parent'[q] = "version" => q \in server'
          /\ parent'[q] = "rejected" => q \notin server'
    BY <1>2 DEF CollectionsTypeOK, QueueInv, DropParent, Leaves
  <2>2. server' \cap abandoned' = {} /\ server' \subseteq started'
    BY <1>2 DEF CollectionsTypeOK, QueueInv, DropParent, Leaves
  <2>3. \A k \in Pages : news'[k] \subseteq abandoned'
    BY <1>2 DEF CollectionsTypeOK, QueueInv, DropParent, Leaves
  <2>. QED
    BY <2>1, <2>2, <2>3 DEF QueueInv
<1>3. ASSUME NEW t \in Pages, NEW p \in Parents, UseTheirs(t, p)
      PROVE  QueueInv'
  <2>1. \A q \in Parents :
          /\ parent'[q] # "none" => q \notin abandoned'
          /\ parent'[q] = "version" => q \in server'
          /\ parent'[q] = "rejected" => q \notin server'
    BY <1>3 DEF CollectionsTypeOK, QueueInv, UseTheirs, Leaves
  <2>2. server' \cap abandoned' = {} /\ server' \subseteq started'
    BY <1>3 DEF CollectionsTypeOK, QueueInv, UseTheirs, Leaves
  <2>3. \A k \in Pages : news'[k] \subseteq abandoned'
    BY <1>3 DEF CollectionsTypeOK, QueueInv, UseTheirs, Leaves
  <2>. QED
    BY <2>1, <2>2, <2>3 DEF QueueInv
<1>4. ASSUME NEW t \in Pages, NEW p \in Parents, KeepMine(t, p)
      PROVE  QueueInv'
  <2>1. \A q \in Parents :
          /\ parent'[q] # "none" => q \notin abandoned'
          /\ parent'[q] = "version" => q \in server'
          /\ parent'[q] = "rejected" => q \notin server'
    BY <1>4 DEF CollectionsTypeOK, QueueInv, KeepMine, Leaves
  <2>2. server' \cap abandoned' = {} /\ server' \subseteq started'
    BY <1>4 DEF CollectionsTypeOK, QueueInv, KeepMine, Leaves
  <2>3. \A k \in Pages : news'[k] \subseteq abandoned'
    BY <1>4 DEF CollectionsTypeOK, QueueInv, KeepMine, Leaves
  <2>. QED
    BY <2>1, <2>2, <2>3 DEF QueueInv
<1>5. ASSUME NEW t \in Pages, NEW p \in Parents, RemoveReferences(t, p)
      PROVE  QueueInv'
  <2>1. \A q \in Parents :
          /\ parent'[q] # "none" => q \notin abandoned'
          /\ parent'[q] = "version" => q \in server'
          /\ parent'[q] = "rejected" => q \notin server'
    BY <1>5 DEF CollectionsTypeOK, QueueInv, RemoveReferences, Leaves
  <2>2. server' \cap abandoned' = {} /\ server' \subseteq started'
    BY <1>5 DEF CollectionsTypeOK, QueueInv, RemoveReferences, Leaves
  <2>3. \A k \in Pages : news'[k] \subseteq abandoned'
    BY <1>5 DEF CollectionsTypeOK, QueueInv, RemoveReferences, Leaves
  <2>. QED
    BY <2>1, <2>2, <2>3 DEF QueueInv
<1>6. ASSUME NEW t \in Pages, NEW p \in Parents, SendParent(t, p)
      PROVE  QueueInv'
  <2>1. \A q \in Parents :
          /\ parent'[q] # "none" => q \notin abandoned'
          /\ parent'[q] = "version" => q \in server'
          /\ parent'[q] = "rejected" => q \notin server'
    BY <1>6 DEF CollectionsTypeOK, QueueInv, SendParent, Leaves
  <2>2. server' \cap abandoned' = {} /\ server' \subseteq started'
    BY <1>6 DEF CollectionsTypeOK, QueueInv, SendParent, Leaves
  <2>3. \A k \in Pages : news'[k] \subseteq abandoned'
    BY <1>6 DEF CollectionsTypeOK, QueueInv, SendParent, Leaves
  <2>. QED
    BY <2>1, <2>2, <2>3 DEF QueueInv
<1>7. ASSUME NEW t \in Pages, NEW c \in Children, NEW refs \in SUBSET
       Parents, SubmitChild(t, c, refs)
      PROVE  QueueInv'
  <2>1. \A q \in Parents :
          /\ parent'[q] # "none" => q \notin abandoned'
          /\ parent'[q] = "version" => q \in server'
          /\ parent'[q] = "rejected" => q \notin server'
    BY <1>7 DEF CollectionsTypeOK, QueueInv, SubmitChild, Leaves
  <2>2. server' \cap abandoned' = {} /\ server' \subseteq started'
    BY <1>7 DEF CollectionsTypeOK, QueueInv, SubmitChild, Leaves
  <2>3. \A k \in Pages : news'[k] \subseteq abandoned'
    BY <1>7 DEF CollectionsTypeOK, QueueInv, SubmitChild, Leaves
  <2>. QED
    BY <2>1, <2>2, <2>3 DEF QueueInv
<1>8. ASSUME NEW t \in Pages, NEW c \in Children, WithdrawChild(t, c)
      PROVE  QueueInv'
  <2>1. \A q \in Parents :
          /\ parent'[q] # "none" => q \notin abandoned'
          /\ parent'[q] = "version" => q \in server'
          /\ parent'[q] = "rejected" => q \notin server'
    BY <1>8 DEF CollectionsTypeOK, QueueInv, WithdrawChild, Leaves
  <2>2. server' \cap abandoned' = {} /\ server' \subseteq started'
    BY <1>8 DEF CollectionsTypeOK, QueueInv, WithdrawChild, Leaves
  <2>3. \A k \in Pages : news'[k] \subseteq abandoned'
    BY <1>8 DEF CollectionsTypeOK, QueueInv, WithdrawChild, Leaves
  <2>. QED
    BY <2>1, <2>2, <2>3 DEF QueueInv
<1>9. ASSUME NEW t \in Pages, NEW c \in Children, SendChild(t, c)
      PROVE  QueueInv'
  <2>1. \A q \in Parents :
          /\ parent'[q] # "none" => q \notin abandoned'
          /\ parent'[q] = "version" => q \in server'
          /\ parent'[q] = "rejected" => q \notin server'
    BY <1>9 DEF CollectionsTypeOK, QueueInv, SendChild, Leaves
  <2>2. server' \cap abandoned' = {} /\ server' \subseteq started'
    BY <1>9 DEF CollectionsTypeOK, QueueInv, SendChild, Leaves
  <2>3. \A k \in Pages : news'[k] \subseteq abandoned'
    BY <1>9 DEF CollectionsTypeOK, QueueInv, SendChild, Leaves
  <2>. QED
    BY <2>1, <2>2, <2>3 DEF QueueInv
<1>10. ASSUME NEW t \in Pages, NEW e \in Parents \cup Children, Skip(t, e)
      PROVE  QueueInv'
  <2>1. \A q \in Parents :
          /\ parent'[q] # "none" => q \notin abandoned'
          /\ parent'[q] = "version" => q \in server'
          /\ parent'[q] = "rejected" => q \notin server'
    BY <1>10 DEF CollectionsTypeOK, QueueInv, Skip, Leaves
  <2>2. server' \cap abandoned' = {} /\ server' \subseteq started'
    BY <1>10 DEF CollectionsTypeOK, QueueInv, Skip, Leaves
  <2>3. \A k \in Pages : news'[k] \subseteq abandoned'
    BY <1>10 DEF CollectionsTypeOK, QueueInv, Skip, Leaves
  <2>. QED
    BY <2>1, <2>2, <2>3 DEF QueueInv
<1>11. ASSUME NEW t \in Pages, NEW e \in Parents \cup Children, Offline(t,
       e)
      PROVE  QueueInv'
  <2>1. \A q \in Parents :
          /\ parent'[q] # "none" => q \notin abandoned'
          /\ parent'[q] = "version" => q \in server'
          /\ parent'[q] = "rejected" => q \notin server'
    BY <1>11 DEF CollectionsTypeOK, QueueInv, Offline, Leaves
  <2>2. server' \cap abandoned' = {} /\ server' \subseteq started'
    BY <1>11 DEF CollectionsTypeOK, QueueInv, Offline, Leaves
  <2>3. \A k \in Pages : news'[k] \subseteq abandoned'
    BY <1>11 DEF CollectionsTypeOK, QueueInv, Offline, Leaves
  <2>. QED
    BY <2>1, <2>2, <2>3 DEF QueueInv
<1>12. ASSUME NEW t \in Pages, FlushParents(t)
      PROVE  QueueInv'
  <2>1. \A q \in Parents :
          /\ parent'[q] # "none" => q \notin abandoned'
          /\ parent'[q] = "version" => q \in server'
          /\ parent'[q] = "rejected" => q \notin server'
    BY <1>12 DEF CollectionsTypeOK, QueueInv, FlushParents, Leaves
  <2>2. server' \cap abandoned' = {} /\ server' \subseteq started'
    BY <1>12 DEF CollectionsTypeOK, QueueInv, FlushParents, Leaves
  <2>3. \A k \in Pages : news'[k] \subseteq abandoned'
    BY <1>12 DEF CollectionsTypeOK, QueueInv, FlushParents, Leaves
  <2>. QED
    BY <2>1, <2>2, <2>3 DEF QueueInv
<1>13. ASSUME NEW t \in Pages, FlushChildren(t)
      PROVE  QueueInv'
  <2>1. \A q \in Parents :
          /\ parent'[q] # "none" => q \notin abandoned'
          /\ parent'[q] = "version" => q \in server'
          /\ parent'[q] = "rejected" => q \notin server'
    BY <1>13 DEF CollectionsTypeOK, QueueInv, FlushChildren, Leaves
  <2>2. server' \cap abandoned' = {} /\ server' \subseteq started'
    BY <1>13 DEF CollectionsTypeOK, QueueInv, FlushChildren, Leaves
  <2>3. \A k \in Pages : news'[k] \subseteq abandoned'
    BY <1>13 DEF CollectionsTypeOK, QueueInv, FlushChildren, Leaves
  <2>. QED
    BY <2>1, <2>2, <2>3 DEF QueueInv
<1>14. ASSUME NEW t \in Pages, FlushEnds(t)
      PROVE  QueueInv'
  <2>1. \A q \in Parents :
          /\ parent'[q] # "none" => q \notin abandoned'
          /\ parent'[q] = "version" => q \in server'
          /\ parent'[q] = "rejected" => q \notin server'
    BY <1>14 DEF CollectionsTypeOK, QueueInv, FlushEnds, Leaves
  <2>2. server' \cap abandoned' = {} /\ server' \subseteq started'
    BY <1>14 DEF CollectionsTypeOK, QueueInv, FlushEnds, Leaves
  <2>3. \A k \in Pages : news'[k] \subseteq abandoned'
    BY <1>14 DEF CollectionsTypeOK, QueueInv, FlushEnds, Leaves
  <2>. QED
    BY <2>1, <2>2, <2>3 DEF QueueInv
<1>15. ASSUME NEW t \in Pages, ParentSent(t)
      PROVE  QueueInv'
  <2>0. /\ Sends(t) \in Parents /\ parent[Sends(t)] = "pending" /\ Sends(t) \in started
    BY <1>15, SentParent DEF ParentSent
  <2>1. \A q \in Parents :
          /\ parent'[q] # "none" => q \notin abandoned'
          /\ parent'[q] = "version" => q \in server'
          /\ parent'[q] = "rejected" => q \notin server'
    BY <1>15, <2>0 DEF CollectionsTypeOK, QueueInv, ParentSent, Leaves
  <2>2. server' \cap abandoned' = {} /\ server' \subseteq started'
    BY <1>15, <2>0 DEF CollectionsTypeOK, QueueInv, ParentSent, Leaves
  <2>3. \A k \in Pages : news'[k] \subseteq abandoned'
    BY <1>15, <2>0 DEF CollectionsTypeOK, QueueInv, ParentSent, Leaves
  <2>. QED
    BY <2>1, <2>2, <2>3 DEF QueueInv
<1>16. ASSUME NEW t \in Pages, ChildSent(t)
      PROVE  QueueInv'
  <2>1. \A q \in Parents :
          /\ parent'[q] # "none" => q \notin abandoned'
          /\ parent'[q] = "version" => q \in server'
          /\ parent'[q] = "rejected" => q \notin server'
    BY <1>16 DEF CollectionsTypeOK, QueueInv, ChildSent, Leaves
  <2>2. server' \cap abandoned' = {} /\ server' \subseteq started'
    BY <1>16 DEF CollectionsTypeOK, QueueInv, ChildSent, Leaves
  <2>3. \A k \in Pages : news'[k] \subseteq abandoned'
    BY <1>16 DEF CollectionsTypeOK, QueueInv, ChildSent, Leaves
  <2>. QED
    BY <2>1, <2>2, <2>3 DEF QueueInv
<1>17. ASSUME NEW t \in Pages, TabCloses(t)
      PROVE  QueueInv'
  <2>0. server' = server \/ \E p \in Parents : server' = server \cup {p}
        /\ parent[p] = "pending" /\ p \in started
    BY <1>17, SentParent DEF TabCloses
  <2>1. \A q \in Parents :
          /\ parent'[q] # "none" => q \notin abandoned'
          /\ parent'[q] = "version" => q \in server'
          /\ parent'[q] = "rejected" => q \notin server'
    BY <1>17, <2>0 DEF CollectionsTypeOK, QueueInv, TabCloses, Leaves
  <2>2. server' \cap abandoned' = {} /\ server' \subseteq started'
    BY <1>17, <2>0 DEF CollectionsTypeOK, QueueInv, TabCloses, Leaves
  <2>3. \A k \in Pages : news'[k] \subseteq abandoned'
    BY <1>17, <2>0 DEF CollectionsTypeOK, QueueInv, TabCloses, Leaves
  <2>. QED
    BY <2>1, <2>2, <2>3 DEF QueueInv
<1>18. ASSUME UNCHANGED collectionsVars
      PROVE  QueueInv'
  BY <1>18 DEF collectionsVars, QueueInv
<1>. QED
  BY <1>1, <1>2, <1>3, <1>4, <1>5, <1>6, <1>7, <1>8, <1>9, <1>10, <1>11,
     <1>12, <1>13, <1>14, <1>15, <1>16, <1>17, <1>18 DEF CollectionsNext

(* Whoever sends holds the lock, and a parent that is sent still waits.    *)
LEMMA SendStep ==
    ASSUME CollectionsTypeOK, SendInv, [CollectionsNext]_collectionsVars
    PROVE  SendInv'
<1>1. ASSUME NEW t \in Pages, NEW p \in Parents, SubmitParent(t, p)
      PROVE  SendInv'
  <2>1. tab' \in [Pages -> Views] /\ SameElse(t) /\ tab'[t].pc = tab[t].pc
    BY <1>1, PersonsParent DEF KeepsPlace
  <2>2. \A k \in Pages : tab'[k].pc \notin {"sendParent", "sendChild"}
    BY <1>1, <2>1, NobodySends DEF SameElse, SubmitParent, Writes, Turn
  <2>. QED
    BY <2>2 DEF SendInv
<1>2. ASSUME NEW t \in Pages, NEW p \in Parents, DropParent(t, p)
      PROVE  SendInv'
  <2>1. tab' \in [Pages -> Views] /\ SameElse(t) /\ tab'[t].pc = tab[t].pc
    BY <1>2, PersonsParent DEF KeepsPlace
  <2>2. \A k \in Pages : tab'[k].pc \notin {"sendParent", "sendChild"}
    BY <1>2, <2>1, NobodySends DEF SameElse, DropParent, Writes, Turn
  <2>. QED
    BY <2>2 DEF SendInv
<1>3. ASSUME NEW t \in Pages, NEW p \in Parents, UseTheirs(t, p)
      PROVE  SendInv'
  <2>1. tab' \in [Pages -> Views] /\ SameElse(t) /\ tab'[t].pc = tab[t].pc
    BY <1>3, PersonsParent DEF KeepsPlace
  <2>2. \A k \in Pages : tab'[k].pc \notin {"sendParent", "sendChild"}
    BY <1>3, <2>1, NobodySends DEF SameElse, UseTheirs, Writes, Turn
  <2>. QED
    BY <2>2 DEF SendInv
<1>4. ASSUME NEW t \in Pages, NEW p \in Parents, KeepMine(t, p)
      PROVE  SendInv'
  <2>1. tab' \in [Pages -> Views] /\ SameElse(t) /\ tab'[t].pc = tab[t].pc
    BY <1>4, PersonsParent DEF KeepsPlace
  <2>2. \A k \in Pages : tab'[k].pc \notin {"sendParent", "sendChild"}
    BY <1>4, <2>1, NobodySends DEF SameElse, KeepMine, Writes, Turn
  <2>. QED
    BY <2>2 DEF SendInv
<1>5. ASSUME NEW t \in Pages, NEW p \in Parents, RemoveReferences(t, p)
      PROVE  SendInv'
  <2>1. tab' \in [Pages -> Views] /\ SameElse(t) /\ tab'[t].pc = tab[t].pc
    BY <1>5, AfterRemoval
  <2>2. \A k \in Pages : tab'[k].pc \notin {"sendParent", "sendChild"}
    BY <1>5, <2>1, NobodySends DEF SameElse, RemoveReferences, Writes, Turn
  <2>. QED
    BY <2>2 DEF SendInv
<1>6. ASSUME NEW t \in Pages, NEW p \in Parents, SendParent(t, p)
      PROVE  SendInv'
  <2>1. SameElse(t) /\ tab'[t].pc = "sendParent" /\ tab'[t].after = {p}
    BY <1>6, AfterSendParent
  <2>2. \A k \in Pages \ {t} : tab'[k].pc \notin {"sendParent", "sendChild"}
    BY <1>6, <2>1, NobodySends DEF SameElse, SendParent, Turn
  <2>3. holder' = t /\ parent'[p] = "pending" /\ p \in started'
    BY <1>6 DEF SendParent
  <2>. QED
    BY <1>6, <2>1, <2>2, <2>3 DEF SendInv
<1>7. ASSUME NEW t \in Pages, NEW c \in Children, NEW refs \in SUBSET
       Parents, SubmitChild(t, c, refs)
      PROVE  SendInv'
  <2>1. tab' \in [Pages -> Views] /\ SameElse(t) /\ tab'[t].pc = tab[t].pc
    BY <1>7, ChildSubmitted, PersonsChild DEF KeepsPlace, SubmitChild
  <2>2. \A k \in Pages : tab'[k].pc \notin {"sendParent", "sendChild"}
    BY <1>7, <2>1, NobodySends DEF SameElse, SubmitChild, Writes, Turn
  <2>. QED
    BY <2>2 DEF SendInv
<1>8. ASSUME NEW t \in Pages, NEW c \in Children, WithdrawChild(t, c)
      PROVE  SendInv'
  <2>1. tab' \in [Pages -> Views] /\ SameElse(t) /\ tab'[t].pc = tab[t].pc
    BY <1>8, ChildWithdrawn, PersonsChild DEF KeepsPlace, WithdrawChild
  <2>2. \A k \in Pages : tab'[k].pc \notin {"sendParent", "sendChild"}
    BY <1>8, <2>1, NobodySends DEF SameElse, WithdrawChild, Writes, Turn
  <2>. QED
    BY <2>2 DEF SendInv
<1>9. ASSUME NEW t \in Pages, NEW c \in Children, SendChild(t, c)
      PROVE  SendInv'
  <2>1. SameElse(t) /\ tab'[t].pc = "sendChild"
    BY <1>9, AfterSendChild
  <2>2. \A k \in Pages \ {t} : tab'[k].pc \notin {"sendParent", "sendChild"}
    BY <1>9, <2>1, NobodySends DEF SameElse, SendChild, Turn
  <2>. QED
    BY <1>9, <2>1, <2>2 DEF SendInv, SendChild
<1>10. ASSUME NEW t \in Pages, NEW e \in Parents \cup Children, Skip(t, e)
      PROVE  SendInv'
  <2>1. tab' \in [Pages -> Views] /\ SameElse(t) /\ tab'[t].pc = tab[t].pc
    BY <1>10, AfterTurn
  <2>2. \A k \in Pages : tab'[k].pc \notin {"sendParent", "sendChild"}
    BY <1>10, <2>1, NobodySends DEF SameElse, Skip, Writes, Turn
  <2>. QED
    BY <2>2 DEF SendInv
<1>11. ASSUME NEW t \in Pages, NEW e \in Parents \cup Children, Offline(t,
       e)
      PROVE  SendInv'
  <2>1. tab' \in [Pages -> Views] /\ SameElse(t) /\ tab'[t].pc = tab[t].pc
    BY <1>11, AfterTurn
  <2>2. \A k \in Pages : tab'[k].pc \notin {"sendParent", "sendChild"}
    BY <1>11, <2>1, NobodySends DEF SameElse, Offline, Writes, Turn
  <2>. QED
    BY <2>2 DEF SendInv
<1>12. ASSUME NEW t \in Pages, FlushParents(t)
      PROVE  SendInv'
  <2>1. tab' \in [Pages -> Views] /\ SameElse(t) /\ tab'[t].pc = "parents"
    BY <1>12, AfterFlushParents
  <2>2. \A k \in Pages : tab'[k].pc \notin {"sendParent", "sendChild"}
    BY <1>12, <2>1, NobodySends DEF SameElse, FlushParents, Writes, Turn
  <2>. QED
    BY <2>2 DEF SendInv
<1>13. ASSUME NEW t \in Pages, FlushChildren(t)
      PROVE  SendInv'
  <2>1. tab' \in [Pages -> Views] /\ SameElse(t) /\ tab'[t].pc = "children"
    BY <1>13, AfterFlushChildren
  <2>2. \A k \in Pages : tab'[k].pc \notin {"sendParent", "sendChild"}
    BY <1>13, <2>1, NobodySends DEF SameElse, FlushChildren, Writes, Turn
  <2>. QED
    BY <2>2 DEF SendInv
<1>14. ASSUME NEW t \in Pages, FlushEnds(t)
      PROVE  SendInv'
  <2>1. SameElse(t) /\ tab'[t].pc = "idle"
    BY <1>14, AfterFlushEnds
  <2>2. parent' = parent /\ started' = started /\ \A k \in Pages \ {t} : holder = k
            => holder' = k
    BY <1>14 DEF FlushEnds
  <2>. QED
    BY <2>1, <2>2 DEF SendInv, SameElse
<1>15. ASSUME NEW t \in Pages, ParentSent(t)
      PROVE  SendInv'
  <2>1. SameElse(t) /\ tab'[t].pc = "parents"
    BY <1>15, AfterParentSent
  <2>2. holder = t
    BY <1>15 DEF SendInv, ParentSent
  <2>3. \A k \in Pages \ {t} : tab'[k].pc \notin {"sendParent", "sendChild"}
    BY <2>1, <2>2 DEF SendInv, SameElse
  <2>. QED
    BY <2>1, <2>3 DEF SendInv
<1>16. ASSUME NEW t \in Pages, ChildSent(t)
      PROVE  SendInv'
  <2>1. SameElse(t) /\ tab'[t].pc = "children"
    BY <1>16, AfterChildSent
  <2>2. holder = t
    BY <1>16 DEF SendInv, ChildSent
  <2>3. \A k \in Pages \ {t} : tab'[k].pc \notin {"sendParent", "sendChild"}
    BY <2>1, <2>2 DEF SendInv, SameElse
  <2>. QED
    BY <2>1, <2>3 DEF SendInv
<1>17. ASSUME NEW t \in Pages, TabCloses(t)
      PROVE  SendInv'
  <2>1. SameElse(t) /\ tab'[t].pc = "idle"
    BY <1>17, AfterTabCloses
  <2>2. parent' = parent /\ started' = started /\ \A k \in Pages \ {t} : holder = k
            => holder' = k
    BY <1>17 DEF TabCloses
  <2>. QED
    BY <2>1, <2>2 DEF SendInv, SameElse
<1>18. ASSUME UNCHANGED collectionsVars
      PROVE  SendInv'
  BY <1>18 DEF collectionsVars, SendInv
<1>. QED
  BY <1>1, <1>2, <1>3, <1>4, <1>5, <1>6, <1>7, <1>8, <1>9, <1>10, <1>11,
     <1>12, <1>13, <1>14, <1>15, <1>16, <1>17, <1>18 DEF CollectionsNext

(* A parent that an entry refers to does not vanish.                       *)
LEMMA RefsStep ==
    ASSUME CollectionsTypeOK, SendInv, QueueInv, RefsInv, [CollectionsNext]_collectionsVars
    PROVE  RefsInv'
<1>1. ASSUME NEW t \in Pages, NEW p \in Parents, SubmitParent(t, p)
      PROVE  RefsInv'
  <2>1. QueuedParents \cup server \cup abandoned
            \subseteq (QueuedParents \cup server \cup abandoned)'
    BY <1>1 DEF CollectionsTypeOK, QueueInv, QueuedParents, SubmitParent, Leaves
  <2>. QED
    BY <1>1, <2>1 DEF RefsInv, SubmitParent
<1>2. ASSUME NEW t \in Pages, NEW p \in Parents, DropParent(t, p)
      PROVE  RefsInv'
  <2>1. QueuedParents \cup server \cup abandoned
            \subseteq (QueuedParents \cup server \cup abandoned)'
    BY <1>2 DEF CollectionsTypeOK, QueueInv, QueuedParents, DropParent, Leaves
  <2>. QED
    BY <1>2, <2>1 DEF RefsInv, DropParent
<1>3. ASSUME NEW t \in Pages, NEW p \in Parents, UseTheirs(t, p)
      PROVE  RefsInv'
  <2>1. QueuedParents \cup server \cup abandoned
            \subseteq (QueuedParents \cup server \cup abandoned)'
    BY <1>3 DEF CollectionsTypeOK, QueueInv, QueuedParents, UseTheirs, Leaves
  <2>. QED
    BY <1>3, <2>1 DEF RefsInv, UseTheirs
<1>4. ASSUME NEW t \in Pages, NEW p \in Parents, KeepMine(t, p)
      PROVE  RefsInv'
  <2>1. QueuedParents \cup server \cup abandoned
            \subseteq (QueuedParents \cup server \cup abandoned)'
    BY <1>4 DEF CollectionsTypeOK, QueueInv, QueuedParents, KeepMine, Leaves
  <2>. QED
    BY <1>4, <2>1 DEF RefsInv, KeepMine
<1>5. ASSUME NEW t \in Pages, NEW p \in Parents, RemoveReferences(t, p)
      PROVE  RefsInv'
  <2>1. QueuedParents \cup server \cup abandoned
            \subseteq (QueuedParents \cup server \cup abandoned)'
    BY <1>5 DEF CollectionsTypeOK, QueueInv, QueuedParents, RemoveReferences, Leaves
  <2>3. \A d \in Children : child'[d].refs \cup child'[d].behind
                              \subseteq QueuedParents \cup server \cup abandoned
    BY <1>5, ReferencesRemoved DEF RefsInv
  <2>. QED
    BY <2>1, <2>3 DEF RefsInv
<1>6. ASSUME NEW t \in Pages, NEW p \in Parents, SendParent(t, p)
      PROVE  RefsInv'
  <2>1. QueuedParents \cup server \cup abandoned
            \subseteq (QueuedParents \cup server \cup abandoned)'
    BY <1>6 DEF CollectionsTypeOK, QueueInv, QueuedParents, SendParent, Leaves
  <2>. QED
    BY <1>6, <2>1 DEF RefsInv, SendParent
<1>7. ASSUME NEW t \in Pages, NEW c \in Children, NEW refs \in SUBSET
       Parents, SubmitChild(t, c, refs)
      PROVE  RefsInv'
  <2>1. QueuedParents \cup server \cup abandoned
            \subseteq (QueuedParents \cup server \cup abandoned)'
    BY <1>7 DEF CollectionsTypeOK, QueueInv, QueuedParents, SubmitChild, Leaves
  <2>2. refs \subseteq QueuedParents \cup server \cup abandoned
    BY <1>7 DEF SubmitChild, Shown, QueueInv
  <2>3. \A d \in Children : child'[d].refs \cup child'[d].behind
                              \subseteq QueuedParents \cup server \cup abandoned
    BY <1>7, <2>2, ChildSubmitted DEF RefsInv
  <2>. QED
    BY <2>1, <2>3 DEF RefsInv
<1>8. ASSUME NEW t \in Pages, NEW c \in Children, WithdrawChild(t, c)
      PROVE  RefsInv'
  <2>1. QueuedParents \cup server \cup abandoned
            \subseteq (QueuedParents \cup server \cup abandoned)'
    BY <1>8 DEF CollectionsTypeOK, QueueInv, QueuedParents, WithdrawChild, Leaves
  <2>3. \A d \in Children : child'[d].refs \cup child'[d].behind
                              \subseteq QueuedParents \cup server \cup abandoned
    BY <1>8, ChildWithdrawn DEF RefsInv
  <2>. QED
    BY <2>1, <2>3 DEF RefsInv
<1>9. ASSUME NEW t \in Pages, NEW c \in Children, SendChild(t, c)
      PROVE  RefsInv'
  <2>1. QueuedParents \cup server \cup abandoned
            \subseteq (QueuedParents \cup server \cup abandoned)'
    BY <1>9 DEF CollectionsTypeOK, QueueInv, QueuedParents, SendChild, Leaves
  <2>3. \A d \in Children : child'[d].refs \cup child'[d].behind
                              \subseteq QueuedParents \cup server \cup abandoned
    BY <1>9, ChildStarted DEF RefsInv
  <2>. QED
    BY <2>1, <2>3 DEF RefsInv
<1>10. ASSUME NEW t \in Pages, NEW e \in Parents \cup Children, Skip(t, e)
      PROVE  RefsInv'
  <2>1. QueuedParents \cup server \cup abandoned
            \subseteq (QueuedParents \cup server \cup abandoned)'
    BY <1>10 DEF CollectionsTypeOK, QueueInv, QueuedParents, Skip, Leaves
  <2>. QED
    BY <1>10, <2>1 DEF RefsInv, Skip
<1>11. ASSUME NEW t \in Pages, NEW e \in Parents \cup Children, Offline(t,
       e)
      PROVE  RefsInv'
  <2>1. QueuedParents \cup server \cup abandoned
            \subseteq (QueuedParents \cup server \cup abandoned)'
    BY <1>11 DEF CollectionsTypeOK, QueueInv, QueuedParents, Offline, Leaves
  <2>. QED
    BY <1>11, <2>1 DEF RefsInv, Offline
<1>12. ASSUME NEW t \in Pages, FlushParents(t)
      PROVE  RefsInv'
  <2>1. QueuedParents \cup server \cup abandoned
            \subseteq (QueuedParents \cup server \cup abandoned)'
    BY <1>12 DEF CollectionsTypeOK, QueueInv, QueuedParents, FlushParents, Leaves
  <2>. QED
    BY <1>12, <2>1 DEF RefsInv, FlushParents
<1>13. ASSUME NEW t \in Pages, FlushChildren(t)
      PROVE  RefsInv'
  <2>1. QueuedParents \cup server \cup abandoned
            \subseteq (QueuedParents \cup server \cup abandoned)'
    BY <1>13 DEF CollectionsTypeOK, QueueInv, QueuedParents, FlushChildren, Leaves
  <2>. QED
    BY <1>13, <2>1 DEF RefsInv, FlushChildren
<1>14. ASSUME NEW t \in Pages, FlushEnds(t)
      PROVE  RefsInv'
  <2>1. QueuedParents \cup server \cup abandoned
            \subseteq (QueuedParents \cup server \cup abandoned)'
    BY <1>14 DEF CollectionsTypeOK, QueueInv, QueuedParents, FlushEnds, Leaves
  <2>. QED
    BY <1>14, <2>1 DEF RefsInv, FlushEnds
<1>15. ASSUME NEW t \in Pages, ParentSent(t)
      PROVE  RefsInv'
  <2>0. Sends(t) \in Parents
    BY <1>15, SentParent DEF ParentSent
  <2>1. QueuedParents \cup server \cup abandoned
            \subseteq (QueuedParents \cup server \cup abandoned)'
    BY <1>15, <2>0 DEF CollectionsTypeOK, QueueInv, QueuedParents, ParentSent, Leaves
  <2>. QED
    BY <1>15, <2>1 DEF RefsInv, ParentSent
<1>16. ASSUME NEW t \in Pages, ChildSent(t)
      PROVE  RefsInv'
  <2>1. QueuedParents \cup server \cup abandoned
            \subseteq (QueuedParents \cup server \cup abandoned)'
    BY <1>16 DEF CollectionsTypeOK, QueueInv, QueuedParents, ChildSent, Leaves
  <2>3. \A d \in Children : child'[d].refs \cup child'[d].behind
                              \subseteq QueuedParents \cup server \cup abandoned
    BY <1>16, ChildAnswered DEF RefsInv
  <2>. QED
    BY <2>1, <2>3 DEF RefsInv
<1>17. ASSUME NEW t \in Pages, TabCloses(t)
      PROVE  RefsInv'
  <2>1. QueuedParents \cup server \cup abandoned
            \subseteq (QueuedParents \cup server \cup abandoned)'
    BY <1>17 DEF CollectionsTypeOK, QueueInv, QueuedParents, TabCloses, Leaves
  <2>. QED
    BY <1>17, <2>1 DEF RefsInv, TabCloses
<1>18. ASSUME UNCHANGED collectionsVars
      PROVE  RefsInv'
  BY <1>18 DEF collectionsVars, RefsInv, QueuedParents
<1>. QED
  BY <1>1, <1>2, <1>3, <1>4, <1>5, <1>6, <1>7, <1>8, <1>9, <1>10, <1>11,
     <1>12, <1>13, <1>14, <1>15, <1>16, <1>17, <1>18 DEF CollectionsNext

(* A child goes out behind the parents it refers to.                       *)
LEMMA OrderStep ==
    ASSUME CollectionsTypeOK, RefsInv, ParentsFirst, [CollectionsNext]_collectionsVars
    PROVE  ParentsFirst'
<1>1. ASSUME NEW t \in Pages, NEW p \in Parents, SubmitParent(t, p)
      PROVE  ParentsFirst'
  BY <1>1 DEF ParentsFirst, SubmitParent
<1>2. ASSUME NEW t \in Pages, NEW p \in Parents, DropParent(t, p)
      PROVE  ParentsFirst'
  BY <1>2 DEF ParentsFirst, DropParent
<1>3. ASSUME NEW t \in Pages, NEW p \in Parents, UseTheirs(t, p)
      PROVE  ParentsFirst'
  BY <1>3 DEF ParentsFirst, UseTheirs
<1>4. ASSUME NEW t \in Pages, NEW p \in Parents, KeepMine(t, p)
      PROVE  ParentsFirst'
  BY <1>4 DEF ParentsFirst, KeepMine
<1>5. ASSUME NEW t \in Pages, NEW p \in Parents, RemoveReferences(t, p)
      PROVE  ParentsFirst'
  BY <1>5 DEF ParentsFirst, RemoveReferences
<1>6. ASSUME NEW t \in Pages, NEW p \in Parents, SendParent(t, p)
      PROVE  ParentsFirst'
  BY <1>6 DEF ParentsFirst, SendParent
<1>7. ASSUME NEW t \in Pages, NEW c \in Children, NEW refs \in SUBSET
       Parents, SubmitChild(t, c, refs)
      PROVE  ParentsFirst'
  BY <1>7 DEF ParentsFirst, SubmitChild
<1>8. ASSUME NEW t \in Pages, NEW c \in Children, WithdrawChild(t, c)
      PROVE  ParentsFirst'
  BY <1>8 DEF ParentsFirst, WithdrawChild
<1>9. ASSUME NEW t \in Pages, NEW c \in Children, SendChild(t, c)
      PROVE  ParentsFirst'
  <2>1. child[c].refs \subseteq server \cup abandoned
    BY <1>9 DEF RefsInv, SendChild, Ready
  <2>. QED
    BY <1>9, <2>1 DEF SendChild, ParentsFirst
<1>10. ASSUME NEW t \in Pages, NEW e \in Parents \cup Children, Skip(t, e)
      PROVE  ParentsFirst'
  BY <1>10 DEF ParentsFirst, Skip
<1>11. ASSUME NEW t \in Pages, NEW e \in Parents \cup Children, Offline(t,
       e)
      PROVE  ParentsFirst'
  BY <1>11 DEF ParentsFirst, Offline
<1>12. ASSUME NEW t \in Pages, FlushParents(t)
      PROVE  ParentsFirst'
  BY <1>12 DEF ParentsFirst, FlushParents
<1>13. ASSUME NEW t \in Pages, FlushChildren(t)
      PROVE  ParentsFirst'
  BY <1>13 DEF ParentsFirst, FlushChildren
<1>14. ASSUME NEW t \in Pages, FlushEnds(t)
      PROVE  ParentsFirst'
  BY <1>14 DEF ParentsFirst, FlushEnds
<1>15. ASSUME NEW t \in Pages, ParentSent(t)
      PROVE  ParentsFirst'
  BY <1>15 DEF ParentsFirst, ParentSent
<1>16. ASSUME NEW t \in Pages, ChildSent(t)
      PROVE  ParentsFirst'
  BY <1>16 DEF ParentsFirst, ChildSent
<1>17. ASSUME NEW t \in Pages, TabCloses(t)
      PROVE  ParentsFirst'
  BY <1>17 DEF ParentsFirst, TabCloses
<1>18. ASSUME UNCHANGED collectionsVars
      PROVE  ParentsFirst'
  BY <1>18 DEF collectionsVars, ParentsFirst
<1>. QED
  BY <1>1, <1>2, <1>3, <1>4, <1>5, <1>6, <1>7, <1>8, <1>9, <1>10, <1>11,
     <1>12, <1>13, <1>14, <1>15, <1>16, <1>17, <1>18 DEF CollectionsNext

(* What is given up is news to some tab until its references are gone.     *)
LEMMA NewsStep ==
    ASSUME CollectionsTypeOK, SendInv, QueueInv, ReferencesGo, [CollectionsNext]_collectionsVars
    PROVE  ReferencesGo'
<1>1. ASSUME NEW t \in Pages, NEW p \in Parents, SubmitParent(t, p)
      PROVE  ReferencesGo'
  <2>1. (abandoned' \ abandoned) \subseteq UNION {news'[k] : k \in Pages}
    BY <1>1 DEF CollectionsTypeOK, SubmitParent, Leaves
  <2>2. lost \cup UNION {news[k] : k \in Pages}
            \subseteq (lost \cup UNION {news[k] : k \in Pages})'
    BY <1>1 DEF CollectionsTypeOK, SubmitParent, Leaves
  <2>. QED
    BY <1>1, <2>1, <2>2 DEF ReferencesGo, SubmitParent
<1>2. ASSUME NEW t \in Pages, NEW p \in Parents, DropParent(t, p)
      PROVE  ReferencesGo'
  <2>1. (abandoned' \ abandoned) \subseteq UNION {news'[k] : k \in Pages}
    BY <1>2 DEF CollectionsTypeOK, DropParent, Leaves
  <2>2. lost \cup UNION {news[k] : k \in Pages}
            \subseteq (lost \cup UNION {news[k] : k \in Pages})'
    BY <1>2 DEF CollectionsTypeOK, DropParent, Leaves
  <2>. QED
    BY <1>2, <2>1, <2>2 DEF ReferencesGo, DropParent
<1>3. ASSUME NEW t \in Pages, NEW p \in Parents, UseTheirs(t, p)
      PROVE  ReferencesGo'
  <2>1. (abandoned' \ abandoned) \subseteq UNION {news'[k] : k \in Pages}
    BY <1>3 DEF CollectionsTypeOK, UseTheirs, Leaves
  <2>2. lost \cup UNION {news[k] : k \in Pages}
            \subseteq (lost \cup UNION {news[k] : k \in Pages})'
    BY <1>3 DEF CollectionsTypeOK, UseTheirs, Leaves
  <2>. QED
    BY <1>3, <2>1, <2>2 DEF ReferencesGo, UseTheirs
<1>4. ASSUME NEW t \in Pages, NEW p \in Parents, KeepMine(t, p)
      PROVE  ReferencesGo'
  <2>1. (abandoned' \ abandoned) \subseteq UNION {news'[k] : k \in Pages}
    BY <1>4 DEF CollectionsTypeOK, KeepMine, Leaves
  <2>2. lost \cup UNION {news[k] : k \in Pages}
            \subseteq (lost \cup UNION {news[k] : k \in Pages})'
    BY <1>4 DEF CollectionsTypeOK, KeepMine, Leaves
  <2>. QED
    BY <1>4, <2>1, <2>2 DEF ReferencesGo, KeepMine
<1>5. ASSUME NEW t \in Pages, NEW p \in Parents, RemoveReferences(t, p)
      PROVE  ReferencesGo'
  <2>1. abandoned' = abandoned /\ lost' = lost
    BY <1>5 DEF RemoveReferences
  <2>2. \A k \in Pages : news[k] \subseteq news'[k] \cup {p}
    BY <1>5 DEF RemoveReferences, CollectionsTypeOK
  <2>3. \A d \in Children :
          child'[d].refs \cup child'[d].behind = (child[d].refs \cup child[d].behind) \ {p}
    BY <1>5, ReferencesRemoved
  <2>4. UNION {news[k] : k \in Pages}
            \subseteq (UNION {news'[k] : k \in Pages}) \cup {p}
    <3>. SUFFICES ASSUME NEW x, NEW k \in Pages, x \in news[k]
                  PROVE  x \in (UNION {news'[j] : j \in Pages}) \cup {p}
      OBVIOUS
    <3>1. x \in news'[k] \/ x = p
      BY <2>2
    <3>2. news'[k] \in {news'[j] : j \in Pages}
      OBVIOUS
    <3>3. x \in news'[k] => x \in UNION {news'[j] : j \in Pages}
      BY <3>2
    <3>. QED
      BY <3>1, <3>3
  <2>5. \A d \in Children : (child'[d].refs \cup child'[d].behind) \cap abandoned
                              \subseteq lost \cup UNION {news'[k] : k \in Pages}
    <3>. SUFFICES ASSUME NEW d \in Children, NEW x \in abandoned,
                         x \in child[d].refs \cup child[d].behind, x # p
                  PROVE  x \in lost \cup UNION {news'[k] : k \in Pages}
      BY <2>3
    <3>1. x \in lost \cup UNION {news[k] : k \in Pages}
      BY DEF ReferencesGo
    <3>. DEFINE old == UNION {news[k] : k \in Pages}
                new == UNION {news'[k] : k \in Pages}
    <3>2. x \in lost \cup old /\ old \subseteq new \cup {p}
      BY <2>4, <3>1
    <3>. HIDE DEF old, new
    <3>3. x \in lost \cup new
      BY <3>2
    <3>. QED
      BY <3>3 DEF new
  <2>. QED
    BY <2>1, <2>5 DEF ReferencesGo
<1>6. ASSUME NEW t \in Pages, NEW p \in Parents, SendParent(t, p)
      PROVE  ReferencesGo'
  <2>1. (abandoned' \ abandoned) \subseteq UNION {news'[k] : k \in Pages}
    BY <1>6 DEF CollectionsTypeOK, SendParent, Leaves
  <2>2. lost \cup UNION {news[k] : k \in Pages}
            \subseteq (lost \cup UNION {news[k] : k \in Pages})'
    BY <1>6 DEF CollectionsTypeOK, SendParent, Leaves
  <2>. QED
    BY <1>6, <2>1, <2>2 DEF ReferencesGo, SendParent
<1>7. ASSUME NEW t \in Pages, NEW c \in Children, NEW refs \in SUBSET
       Parents, SubmitChild(t, c, refs)
      PROVE  ReferencesGo'
  <2>1. abandoned' = abandoned /\ lost' = lost /\ news' = news
    BY <1>7 DEF SubmitChild
  <2>2. refs \cap abandoned \subseteq UNION {news[k] : k \in Pages}
    BY <1>7 DEF SubmitChild, Shown, QueueInv, QueuedParents
  <2>3. \A d \in Children : (child'[d].refs \cup child'[d].behind) \cap abandoned
                              \subseteq lost \cup UNION {news[k] : k \in Pages}
    BY <1>7, <2>2, ChildSubmitted DEF ReferencesGo
  <2>. QED
    BY <2>1, <2>3 DEF ReferencesGo
<1>8. ASSUME NEW t \in Pages, NEW c \in Children, WithdrawChild(t, c)
      PROVE  ReferencesGo'
  <2>1. (abandoned' \ abandoned) \subseteq UNION {news'[k] : k \in Pages}
    BY <1>8 DEF WithdrawChild, Leaves
  <2>2. lost \cup UNION {news[k] : k \in Pages}
            \subseteq (lost \cup UNION {news[k] : k \in Pages})'
    BY <1>8 DEF WithdrawChild, Leaves
  <2>3. \A d \in Children : child'[d].refs \cup child'[d].behind
            \subseteq child[d].refs \cup child[d].behind
    BY <1>8, ChildWithdrawn
  <2>. QED
    BY <1>8, <2>1, <2>2, <2>3 DEF ReferencesGo
<1>9. ASSUME NEW t \in Pages, NEW c \in Children, SendChild(t, c)
      PROVE  ReferencesGo'
  <2>1. (abandoned' \ abandoned) \subseteq UNION {news'[k] : k \in Pages}
    BY <1>9 DEF CollectionsTypeOK, SendChild, Leaves
  <2>2. lost \cup UNION {news[k] : k \in Pages}
            \subseteq (lost \cup UNION {news[k] : k \in Pages})'
    BY <1>9 DEF CollectionsTypeOK, SendChild, Leaves
  <2>3. \A d \in Children : child'[d].refs \cup child'[d].behind
            \subseteq child[d].refs \cup child[d].behind
    BY <1>9, ChildStarted
  <2>. QED
    BY <1>9, <2>1, <2>2, <2>3 DEF ReferencesGo
<1>10. ASSUME NEW t \in Pages, NEW e \in Parents \cup Children, Skip(t, e)
      PROVE  ReferencesGo'
  <2>1. (abandoned' \ abandoned) \subseteq UNION {news'[k] : k \in Pages}
    BY <1>10 DEF CollectionsTypeOK, Skip, Leaves
  <2>2. lost \cup UNION {news[k] : k \in Pages}
            \subseteq (lost \cup UNION {news[k] : k \in Pages})'
    BY <1>10 DEF CollectionsTypeOK, Skip, Leaves
  <2>. QED
    BY <1>10, <2>1, <2>2 DEF ReferencesGo, Skip
<1>11. ASSUME NEW t \in Pages, NEW e \in Parents \cup Children, Offline(t,
       e)
      PROVE  ReferencesGo'
  <2>1. (abandoned' \ abandoned) \subseteq UNION {news'[k] : k \in Pages}
    BY <1>11 DEF CollectionsTypeOK, Offline, Leaves
  <2>2. lost \cup UNION {news[k] : k \in Pages}
            \subseteq (lost \cup UNION {news[k] : k \in Pages})'
    BY <1>11 DEF CollectionsTypeOK, Offline, Leaves
  <2>. QED
    BY <1>11, <2>1, <2>2 DEF ReferencesGo, Offline
<1>12. ASSUME NEW t \in Pages, FlushParents(t)
      PROVE  ReferencesGo'
  <2>1. (abandoned' \ abandoned) \subseteq UNION {news'[k] : k \in Pages}
    BY <1>12 DEF CollectionsTypeOK, FlushParents, Leaves
  <2>2. lost \cup UNION {news[k] : k \in Pages}
            \subseteq (lost \cup UNION {news[k] : k \in Pages})'
    BY <1>12 DEF CollectionsTypeOK, FlushParents, Leaves
  <2>. QED
    BY <1>12, <2>1, <2>2 DEF ReferencesGo, FlushParents
<1>13. ASSUME NEW t \in Pages, FlushChildren(t)
      PROVE  ReferencesGo'
  <2>1. (abandoned' \ abandoned) \subseteq UNION {news'[k] : k \in Pages}
    BY <1>13 DEF CollectionsTypeOK, FlushChildren, Leaves
  <2>2. lost \cup UNION {news[k] : k \in Pages}
            \subseteq (lost \cup UNION {news[k] : k \in Pages})'
    BY <1>13 DEF CollectionsTypeOK, FlushChildren, Leaves
  <2>. QED
    BY <1>13, <2>1, <2>2 DEF ReferencesGo, FlushChildren
<1>14. ASSUME NEW t \in Pages, FlushEnds(t)
      PROVE  ReferencesGo'
  <2>1. (abandoned' \ abandoned) \subseteq UNION {news'[k] : k \in Pages}
    BY <1>14 DEF CollectionsTypeOK, FlushEnds, Leaves
  <2>2. lost \cup UNION {news[k] : k \in Pages}
            \subseteq (lost \cup UNION {news[k] : k \in Pages})'
    BY <1>14 DEF CollectionsTypeOK, FlushEnds, Leaves
  <2>. QED
    BY <1>14, <2>1, <2>2 DEF ReferencesGo, FlushEnds
<1>15. ASSUME NEW t \in Pages, ParentSent(t)
      PROVE  ReferencesGo'
  <2>0. Sends(t) \in Parents
    BY <1>15, SentParent DEF ParentSent
  <2>1. (abandoned' \ abandoned) \subseteq UNION {news'[k] : k \in Pages}
    BY <1>15, <2>0 DEF CollectionsTypeOK, ParentSent, Leaves
  <2>2. lost \cup UNION {news[k] : k \in Pages}
            \subseteq (lost \cup UNION {news[k] : k \in Pages})'
    BY <1>15, <2>0 DEF CollectionsTypeOK, ParentSent, Leaves
  <2>. QED
    BY <1>15, <2>1, <2>2 DEF ReferencesGo, ParentSent
<1>16. ASSUME NEW t \in Pages, ChildSent(t)
      PROVE  ReferencesGo'
  <2>1. (abandoned' \ abandoned) \subseteq UNION {news'[k] : k \in Pages}
    BY <1>16 DEF CollectionsTypeOK, ChildSent, Leaves
  <2>2. lost \cup UNION {news[k] : k \in Pages}
            \subseteq (lost \cup UNION {news[k] : k \in Pages})'
    BY <1>16 DEF CollectionsTypeOK, ChildSent, Leaves
  <2>3. \A d \in Children : child'[d].refs \cup child'[d].behind
            \subseteq child[d].refs \cup child[d].behind
    BY <1>16, ChildAnswered
  <2>. QED
    BY <1>16, <2>1, <2>2, <2>3 DEF ReferencesGo
<1>17. ASSUME NEW t \in Pages, TabCloses(t)
      PROVE  ReferencesGo'
  <2>1. abandoned' = abandoned /\ child' = child
    BY <1>17 DEF TabCloses
  <2>2. \A k \in Pages : news[k] \subseteq lost' \cup news'[k]
    BY <1>17 DEF TabCloses, CollectionsTypeOK
  <2>3. lost \cup UNION {news[k] : k \in Pages}
            \subseteq (lost \cup UNION {news[k] : k \in Pages})'
    BY <1>17, <2>2 DEF TabCloses
  <2>. QED
    BY <2>1, <2>3 DEF ReferencesGo
<1>18. ASSUME UNCHANGED collectionsVars
      PROVE  ReferencesGo'
  BY <1>18 DEF collectionsVars, ReferencesGo
<1>. QED
  BY <1>1, <1>2, <1>3, <1>4, <1>5, <1>6, <1>7, <1>8, <1>9, <1>10, <1>11,
     <1>12, <1>13, <1>14, <1>15, <1>16, <1>17, <1>18 DEF CollectionsNext



(* A tab that has just read the parents, and is still to flush the children,*)
(* sees to all that can be sent.                                           *)
LEMMA ReadsParents ==
    ASSUME NEW t \in Pages, HasParents(t), tab'[t].pc \in {"parents", "sendParent"}
    PROVE  Attended'
<1>1. \A p \in Parents : parent'[p] = "pending" => SeesParent(tab'[t], p)
  BY DEF HasParents, SeesParent
<1>2. \A c \in Children : Ready(c)' => SeesChild(tab'[t], c, child'[c].refs)
  BY DEF HasParents, SeesChild, Ready, QueuedParents
<1>. QED
  BY <1>1, <1>2 DEF Attended

(* No entry can be sent that could not be before, and whoever saw to one   *)
(* still does.                                                             *)
LEMMA StaysAttended ==
    ASSUME Attended,
           \A p \in Parents : parent'[p] = "pending" => parent[p] = "pending",
           \A c \in Children : (child[c].queued /\ Ready(c))'
               => child[c].queued /\ Ready(c),
           \A k \in Pages, p \in Parents :
              parent'[p] = "pending" /\ (Minds(k) \/ SeesParent(tab[k], p))
                  => Minds(k)' \/ SeesParent(tab'[k], p),
           \A k \in Pages, c \in Children :
              child'[c].queued /\ (Minds(k) \/ SeesChild(tab[k], c, child[c].refs))
                  => Minds(k)' \/ SeesChild(tab'[k], c, child'[c].refs)
    PROVE  Attended'
<1>1. ASSUME NEW p \in Parents, parent'[p] = "pending"
      PROVE  \E k \in Pages : Minds(k)' \/ SeesParent(tab'[k], p)
  <2>1. PICK k \in Pages : Minds(k) \/ SeesParent(tab[k], p)
    BY <1>1 DEF Attended
  <2>. QED
    BY <1>1, <2>1
<1>2. ASSUME NEW c \in Children, (child[c].queued /\ Ready(c))'
      PROVE  \E k \in Pages : Minds(k)' \/ SeesChild(tab'[k], c, child'[c].refs)
  <2>1. PICK k \in Pages : Minds(k) \/ SeesChild(tab[k], c, child[c].refs)
    BY <1>2 DEF Attended
  <2>. QED
    BY <1>2, <2>1
<1>. QED
  BY <1>1, <1>2 DEF Attended

(* While no tab is closed, some tab sees to whatever can be sent.          *)
LEMMA AttendedStep ==
    ASSUME CollectionsTypeOK, SendInv, QueueInv, Attended, [CollectionsNext]_collectionsVars,
           \A t \in Pages : ~TabCloses(t)
    PROVE  Attended'
<1>1. ASSUME NEW t \in Pages, NEW p \in Parents, SubmitParent(t, p)
      PROVE  Attended'
  <2>1. t \in kicked'
    BY <1>1 DEF SubmitParent
  <2>. QED
    BY <2>1 DEF Attended, Minds
<1>2. ASSUME NEW t \in Pages, NEW p \in Parents, DropParent(t, p)
      PROVE  Attended'
  <2>1. t \in kicked'
    BY <1>2 DEF DropParent
  <2>. QED
    BY <2>1 DEF Attended, Minds
<1>3. ASSUME NEW t \in Pages, NEW p \in Parents, UseTheirs(t, p)
      PROVE  Attended'
  <2>1. t \in kicked'
    BY <1>3 DEF UseTheirs
  <2>. QED
    BY <2>1 DEF Attended, Minds
<1>4. ASSUME NEW t \in Pages, NEW p \in Parents, KeepMine(t, p)
      PROVE  Attended'
  <2>1. t \in kicked'
    BY <1>4 DEF KeepMine
  <2>. QED
    BY <2>1 DEF Attended, Minds
<1>5. ASSUME NEW t \in Pages, NEW p \in Parents, RemoveReferences(t, p)
      PROVE  Attended'
  <2>1. SameElse(t) /\ tab'[t].pc = tab[t].pc /\ HasChildren(t) /\ KeepsParents(t)
    BY <1>5, AfterRemoval
  <2>2. parent' = parent /\ kicked' = kicked /\ asks' = asks /\ p \in news[t]
    BY <1>5 DEF RemoveReferences
  <2>3. \A d \in Children : child'[d].queued = child[d].queued /\ child'[d].refs = child[d].refs \ {p}
    BY <1>5, ReferencesRemoved
  <2>4. \A k \in Pages : Minds(k) => Minds(k)'
    BY <2>1, <2>2 DEF Minds, SameElse
  <2>5. \A k \in Pages, q \in Parents : SeesParent(tab[k], q) => SeesParent(tab'[k], q)
    BY <2>1 DEF SeesParent, SameElse, KeepsParents
  <2>6. \A k \in Pages, d \in Children :
          child'[d].queued /\ SeesChild(tab[k], d, child[d].refs)
              => SeesChild(tab'[k], d, child'[d].refs)
    BY <2>1, <2>2, <2>3 DEF SeesChild, SameElse, KeepsParents, KeepsChildren, HasChildren
  <2>8. p \notin QueuedParents /\ QueuedParents' = QueuedParents
    BY <2>2 DEF QueueInv, QueuedParents
  <2>7. \A d \in Children : (child[d].queued /\ Ready(d))'
            => child[d].queued /\ Ready(d)
    BY <2>3, <2>8 DEF Ready
  <2>. QED
    BY <2>2, <2>4, <2>5, <2>6, <2>7, StaysAttended
<1>6. ASSUME NEW t \in Pages, NEW p \in Parents, SendParent(t, p)
      PROVE  Attended'
  <2>1. HasParents(t) /\ tab'[t].pc \in {"parents", "sendParent"}
    BY <1>6, AfterSendParent
  <2>. QED
    BY <2>1, ReadsParents
<1>7. ASSUME NEW t \in Pages, NEW c \in Children, NEW refs \in SUBSET
       Parents, SubmitChild(t, c, refs)
      PROVE  Attended'
  <2>1. t \in kicked'
    BY <1>7 DEF SubmitChild
  <2>. QED
    BY <2>1 DEF Attended, Minds
<1>8. ASSUME NEW t \in Pages, NEW c \in Children, WithdrawChild(t, c)
      PROVE  Attended'
  <2>1. t \in kicked'
    BY <1>8 DEF WithdrawChild
  <2>. QED
    BY <2>1 DEF Attended, Minds
<1>9. ASSUME NEW t \in Pages, NEW c \in Children, SendChild(t, c)
      PROVE  Attended'
  <2>1. SameElse(t) /\ tab'[t].pc = "sendChild" /\ HasChildren(t) /\ KeepsParents(t)
    BY <1>9, AfterSendChild
  <2>2. parent' = parent /\ kicked' = kicked /\ asks' = asks /\ tab[t].pc = "children"
    BY <1>9 DEF SendChild, Turn
  <2>3. \A d \in Children : child'[d].queued = child[d].queued /\ child'[d].refs = child[d].refs
    BY <1>9, ChildStarted
  <2>4. \A k \in Pages : Minds(k) => Minds(k)'
    BY <2>1, <2>2 DEF Minds, SameElse
  <2>5. \A k \in Pages, q \in Parents : SeesParent(tab[k], q) => SeesParent(tab'[k], q)
    BY <2>1 DEF SeesParent, SameElse, KeepsParents
  <2>6. \A k \in Pages, d \in Children :
          child'[d].queued /\ SeesChild(tab[k], d, child[d].refs)
              => SeesChild(tab'[k], d, child'[d].refs)
    BY <2>1, <2>2, <2>3 DEF SeesChild, SameElse, KeepsParents, KeepsChildren, HasChildren
  <2>7. \A d \in Children : (child[d].queued /\ Ready(d))'
            => child[d].queued /\ Ready(d)
    BY <2>2, <2>3 DEF Ready, QueuedParents
  <2>. QED
    BY <2>2, <2>4, <2>5, <2>6, <2>7, StaysAttended
<1>10. ASSUME NEW t \in Pages, NEW e \in Parents \cup Children, Skip(t, e)
      PROVE  Attended'
  <2>1. SameElse(t) /\ tab'[t].pc = tab[t].pc /\ KeepsParents(t) /\ KeepsChildren(t)
    BY <1>10, AfterTurn
  <2>2. parent' = parent /\ kicked' = kicked /\ asks' = asks
    BY <1>10 DEF Skip
  <2>3. child' = child
    BY <1>10 DEF Skip
  <2>4. \A k \in Pages : Minds(k) => Minds(k)'
    BY <2>1, <2>2 DEF Minds, SameElse
  <2>5. \A k \in Pages, q \in Parents : SeesParent(tab[k], q) => SeesParent(tab'[k], q)
    BY <2>1 DEF SeesParent, SameElse, KeepsParents
  <2>6. \A k \in Pages, d \in Children :
          child'[d].queued /\ SeesChild(tab[k], d, child[d].refs)
              => SeesChild(tab'[k], d, child'[d].refs)
    BY <2>1, <2>2, <2>3 DEF SeesChild, SameElse, KeepsParents, KeepsChildren, HasChildren
  <2>7. \A d \in Children : (child[d].queued /\ Ready(d))'
            => child[d].queued /\ Ready(d)
    BY <2>2, <2>3 DEF Ready, QueuedParents
  <2>. QED
    BY <2>2, <2>4, <2>5, <2>6, <2>7, StaysAttended
<1>11. ASSUME NEW t \in Pages, NEW e \in Parents \cup Children, Offline(t,
       e)
      PROVE  Attended'
  <2>1. SameElse(t) /\ tab'[t].pc = tab[t].pc /\ KeepsParents(t) /\ KeepsChildren(t)
    BY <1>11, AfterTurn
  <2>2. parent' = parent /\ kicked' = kicked /\ asks' = asks
    BY <1>11 DEF Offline
  <2>3. child' = child
    BY <1>11 DEF Offline
  <2>4. \A k \in Pages : Minds(k) => Minds(k)'
    BY <2>1, <2>2 DEF Minds, SameElse
  <2>5. \A k \in Pages, q \in Parents : SeesParent(tab[k], q) => SeesParent(tab'[k], q)
    BY <2>1 DEF SeesParent, SameElse, KeepsParents
  <2>6. \A k \in Pages, d \in Children :
          child'[d].queued /\ SeesChild(tab[k], d, child[d].refs)
              => SeesChild(tab'[k], d, child'[d].refs)
    BY <2>1, <2>2, <2>3 DEF SeesChild, SameElse, KeepsParents, KeepsChildren, HasChildren
  <2>7. \A d \in Children : (child[d].queued /\ Ready(d))'
            => child[d].queued /\ Ready(d)
    BY <2>2, <2>3 DEF Ready, QueuedParents
  <2>. QED
    BY <2>2, <2>4, <2>5, <2>6, <2>7, StaysAttended
<1>12. ASSUME NEW t \in Pages, FlushParents(t)
      PROVE  Attended'
  <2>1. HasParents(t) /\ tab'[t].pc \in {"parents", "sendParent"}
    BY <1>12, AfterFlushParents
  <2>. QED
    BY <2>1, ReadsParents
<1>13. ASSUME NEW t \in Pages, FlushChildren(t)
      PROVE  Attended'
  <2>1. SameElse(t) /\ tab'[t].pc = "children" /\ HasChildren(t) /\ KeepsParents(t)
    BY <1>13, AfterFlushChildren
  <2>2. parent' = parent /\ kicked' = kicked /\ asks' = asks /\ tab[t].pc = "parents"
    BY <1>13 DEF FlushChildren
  <2>3. child' = child
    BY <1>13 DEF FlushChildren
  <2>4. \A k \in Pages : Minds(k) => Minds(k)'
    BY <2>1, <2>2 DEF Minds, SameElse
  <2>5. \A k \in Pages, q \in Parents : SeesParent(tab[k], q) => SeesParent(tab'[k], q)
    BY <2>1 DEF SeesParent, SameElse, KeepsParents
  <2>6. \A k \in Pages, d \in Children :
          child'[d].queued /\ SeesChild(tab[k], d, child[d].refs)
              => SeesChild(tab'[k], d, child'[d].refs)
    BY <2>1, <2>2, <2>3 DEF SeesChild, SameElse, KeepsParents, KeepsChildren, HasChildren
  <2>7. \A d \in Children : (child[d].queued /\ Ready(d))'
            => child[d].queued /\ Ready(d)
    BY <2>2, <2>3 DEF Ready, QueuedParents
  <2>. QED
    BY <2>2, <2>4, <2>5, <2>6, <2>7, StaysAttended
<1>14. ASSUME NEW t \in Pages, FlushEnds(t)
      PROVE  Attended'
  <2>1. SameElse(t) /\ tab'[t].pc = "idle"
    BY <1>14, AfterFlushEnds
  <2>2. /\ parent' = parent /\ child' = child /\ kicked' = kicked /\ tab[t].pc = "children"
        /\ asks' = IF Stuck(tab[t]) THEN asks \cup {t} ELSE asks \ {t}
    BY <1>14 DEF FlushEnds
  <2>3. \A p \in Parents : SeesParent(tab[t], p) => Stuck(tab[t])
    BY DEF SeesParent, Stuck
  <2>4. \A c \in Children, refs \in SUBSET Parents : SeesChild(tab[t], c, refs)
            => Stuck(tab[t])
    BY <2>2 DEF SeesChild, Stuck, HeldBack
  <2>5. \A c \in Children : child[c].refs \in SUBSET Parents
    BY DEF CollectionsTypeOK, Entries
  <2>6. Stuck(tab[t]) => Minds(t)'
    BY <2>1, <2>2 DEF Minds
  <2>7. \A k \in Pages : Minds(k) => Minds(k)'
    BY <2>1, <2>2 DEF Minds, SameElse
  <2>8. \A k \in Pages \ {t} : tab'[k] = tab[k]
    BY <2>1 DEF SameElse
  <2>9. \A c \in Children : (child[c].queued /\ Ready(c))'
            => child[c].queued /\ Ready(c)
    BY <2>2 DEF Ready, QueuedParents
  <2>. QED
    BY <2>2, <2>3, <2>4, <2>5, <2>6, <2>7, <2>8, <2>9, StaysAttended
<1>15. ASSUME NEW t \in Pages, ParentSent(t)
      PROVE  Attended'
  <2>1. SameElse(t) /\ tab'[t].pc = "parents" /\ KeepsChildren(t)
    BY <1>15, AfterParentSent
  <2>2. child' = child /\ kicked' = kicked /\ asks' = asks /\ tab[t].pc = "sendParent"
    BY <1>15 DEF ParentSent
  <2>3. CASE HasParents(t)
    BY <2>1, <2>3, ReadsParents
  <2>4. CASE parent' = parent /\ KeepsParents(t)
    <3>1. \A k \in Pages : Minds(k) => Minds(k)'
      BY <2>1, <2>2 DEF Minds, SameElse
    <3>2. \A k \in Pages, p \in Parents : SeesParent(tab[k], p)
              => SeesParent(tab'[k], p)
      BY <2>1, <2>4 DEF SeesParent, SameElse, KeepsParents
    <3>3. \A k \in Pages, c \in Children :
            SeesChild(tab[k], c, child[c].refs) => SeesChild(tab'[k], c, child'[c].refs)
      BY <2>1, <2>2, <2>4 DEF SeesChild, SameElse, KeepsParents
    <3>4. \A c \in Children : (child[c].queued /\ Ready(c))'
              => child[c].queued /\ Ready(c)
      BY <2>2, <2>4 DEF Ready, QueuedParents
    <3>. QED
      BY <2>4, <3>1, <3>2, <3>3, <3>4, StaysAttended
  <2>. QED
    BY <1>15, <2>3, <2>4, AfterParentSent
<1>16. ASSUME NEW t \in Pages, ChildSent(t)
      PROVE  Attended'
  <2>1. SameElse(t) /\ tab'[t].pc = "children" /\ KeepsParents(t)
        /\ (HasChildren(t) \/ (child' = child /\ KeepsChildren(t)))
    BY <1>16, AfterChildSent
  <2>2. parent' = parent /\ kicked' = kicked /\ asks' = asks /\ tab[t].pc = "sendChild"
    BY <1>16 DEF ChildSent
  <2>3. \A d \in Children : child'[d].queued
            => child[d].queued /\ child'[d].refs = child[d].refs
    BY <1>16, ChildAnswered
  <2>4. \A k \in Pages : Minds(k) => Minds(k)'
    BY <2>1, <2>2 DEF Minds, SameElse
  <2>5. \A k \in Pages, q \in Parents : SeesParent(tab[k], q) => SeesParent(tab'[k], q)
    BY <2>1 DEF SeesParent, SameElse, KeepsParents
  <2>6. \A k \in Pages, d \in Children :
          child'[d].queued /\ SeesChild(tab[k], d, child[d].refs)
              => SeesChild(tab'[k], d, child'[d].refs)
    BY <2>1, <2>2, <2>3 DEF SeesChild, SameElse, KeepsParents, KeepsChildren, HasChildren
  <2>7. \A d \in Children : (child[d].queued /\ Ready(d))'
            => child[d].queued /\ Ready(d)
    BY <2>2, <2>3 DEF Ready, QueuedParents
  <2>. QED
    BY <2>2, <2>4, <2>5, <2>6, <2>7, StaysAttended
<1>17. ASSUME UNCHANGED collectionsVars
      PROVE  Attended'
  <2>1. UNCHANGED <<parent, child, tab, kicked, asks>>
    BY <1>17 DEF collectionsVars
  <2>. QED
    BY <2>1 DEF Attended, Minds, Ready, QueuedParents
<1>. QED
  BY <1>1, <1>2, <1>3, <1>4, <1>5, <1>6, <1>7, <1>8, <1>9, <1>10, <1>11,
     <1>12, <1>13, <1>14, <1>15, <1>16, <1>17 DEF CollectionsNext


LEMMA CollectionsStart == CollectionsInit => CollectionsInv
<1>. SUFFICES ASSUME CollectionsInit
              PROVE  CollectionsInv
  OBVIOUS
<1>1. /\ parent \in [Parents -> {"none", "pending", "rejected", "version"}]
      /\ child \in [Children -> Entries] /\ tab \in [Pages -> Views]
      /\ news \in [Pages -> SUBSET Parents]
  BY NoEntry, AtRest DEF CollectionsInit
<1>2. CollectionsTypeOK
  <2>1. writes \in 0 .. MaxWrites /\ trouble \in 0 .. MaxTrouble
    BY CollectionsAssumption DEF CollectionsInit
  <2>2. early \in BOOLEAN
    BY DEF CollectionsInit
  <2>. QED
    BY <1>1, <2>1, <2>2 DEF CollectionsInit, CollectionsTypeOK
<1>3. QueueInv
  BY DEF CollectionsInit, QueueInv
<1>4. \A t \in Pages : tab[t].pc = "idle"
  BY AtRest DEF CollectionsInit
<1>5. SendInv
  BY <1>4 DEF SendInv
<1>6. \A c \in Children : child[c].refs = {} /\ child[c].behind = {} /\ ~child[c].queued
  BY NoEntry DEF CollectionsInit
<1>7. RefsInv /\ ReferencesGo
  BY <1>6 DEF RefsInv, ReferencesGo
<1>8. ParentsFirst
  BY DEF CollectionsInit, ParentsFirst
<1>9. Attended
  BY <1>6 DEF CollectionsInit, Attended
<1>. QED
  BY <1>2, <1>3, <1>5, <1>7, <1>8, <1>9 DEF CollectionsInv

LEMMA CollectionsStep ==
    CollectionsInv /\ [CollectionsNext]_collectionsVars => CollectionsInv'
<1>. SUFFICES ASSUME CollectionsInv, [CollectionsNext]_collectionsVars
              PROVE  CollectionsInv'
  OBVIOUS
<1>1. /\ CollectionsTypeOK /\ QueueInv /\ SendInv /\ RefsInv
      /\ ParentsFirst /\ ReferencesGo /\ (closed = {} => Attended)
  BY DEF CollectionsInv
<1>2. CollectionsTypeOK' /\ QueueInv' /\ SendInv' /\ RefsInv'
  BY <1>1, CollectionsTypeStep, QueueStep, SendStep, RefsStep
<1>3. ParentsFirst' /\ ReferencesGo'
  BY <1>1, OrderStep, NewsStep
<1>4. ASSUME closed' = {}
      PROVE  Attended'
  <2>1. \A t \in Pages : ~TabCloses(t)
    BY <1>4 DEF TabCloses
  <2>2. ASSUME NEW t \in Pages
        PROVE  /\ \A p \in Parents :
                     SubmitParent(t, p) \/ DropParent(t, p) \/ UseTheirs(t, p) \/ KeepMine(t, p)
                        \/ RemoveReferences(t, p) \/ SendParent(t, p)
                            => closed' = closed
               /\ \A c \in Children :
                     (\E refs \in SUBSET Parents : SubmitChild(t, c, refs))
                        \/ WithdrawChild(t, c) \/ SendChild(t, c) => closed' = closed
               /\ \A e \in Parents \cup Children : Skip(t, e) \/ Offline(t, e)
                   => closed' = closed
               /\ FlushParents(t) \/ FlushChildren(t) \/ FlushEnds(t)
                   => closed' = closed
               /\ ParentSent(t) \/ ChildSent(t) => closed' = closed
    <3>1. \A p \in Parents :
            SubmitParent(t, p) \/ DropParent(t, p) \/ UseTheirs(t, p) \/ KeepMine(t, p)
               \/ RemoveReferences(t, p) \/ SendParent(t, p) => closed' = closed
      BY DEF SubmitParent, DropParent, UseTheirs, KeepMine, RemoveReferences, SendParent
    <3>2. \A c \in Children :
            (\E refs \in SUBSET Parents : SubmitChild(t, c, refs))
               \/ WithdrawChild(t, c) \/ SendChild(t, c) => closed' = closed
      BY DEF SubmitChild, WithdrawChild, SendChild
    <3>3. \A e \in Parents \cup Children : Skip(t, e) \/ Offline(t, e)
              => closed' = closed
      BY DEF Skip, Offline
    <3>4. FlushParents(t) \/ FlushChildren(t) \/ FlushEnds(t) => closed' = closed
      BY DEF FlushParents, FlushChildren, FlushEnds
    <3>5. ParentSent(t) \/ ChildSent(t) => closed' = closed
      BY DEF ParentSent, ChildSent
    <3>. QED
      BY <3>1, <3>2, <3>3, <3>4, <3>5
  <2>3. closed' = closed
    <3>1. CASE UNCHANGED collectionsVars
      BY <3>1 DEF collectionsVars
    <3>2. CASE CollectionsNext
      BY <2>1, <2>2, <3>2 DEF CollectionsNext
    <3>. QED
      BY <3>1, <3>2
  <2>. QED
    BY <1>1, <1>4, <2>1, <2>3, AttendedStep
<1>. QED
  BY <1>2, <1>3, <1>4 DEF CollectionsInv

(* Two collections behind one flush, for any tabs, parents and children, any*)
(* number of writes and of lost answers: a child never reaches the server  *)
(* before the parents it refers to, a reference to a parent that will never*)
(* exist leaves the queue or is news to some tab, and what nothing holds   *)
(* back is on its way or some tab asked to try again (collections.ts:11-24,*)
(* 332-338).                                                               *)
THEOREM CollectionsAreSafe == CollectionsSpec => []CollectionsSafe
<1>1. CollectionsInv => CollectionsSafe
  <2>. SUFFICES ASSUME CollectionsInv
                PROVE  CollectionsSafe
    OBVIOUS
  <2>1. ParentsFirst /\ ReferencesGo
    BY DEF CollectionsInv
  <2>2. ASSUME Sendable, closed = {}
        PROVE  \E t \in Pages : t \in kicked \cup asks \/ tab[t].pc # "idle" \/ news[t] # {}
    <3>1. Attended
      BY <2>2 DEF CollectionsInv
    <3>2. PICK t \in Pages : \/ Minds(t)
                             \/ \E p \in Parents : SeesParent(tab[t], p)
                             \/ \E c \in Children : SeesChild(tab[t], c, child[c].refs)
      BY <2>2, <3>1 DEF Attended, Sendable, QueuedChildren
    <3>. QED
      BY <3>2 DEF Minds, SeesParent, SeesChild
  <2>. QED
    BY <2>1, <2>2 DEF CollectionsSafe, RetryIsAsked
<1>. QED
  BY <1>1, CollectionsStart, CollectionsStep, PTL DEF CollectionsSpec

(* The types of the collections.                                           *)
THEOREM CollectionsTypesKept == CollectionsSpec => []CollectionsTypeOK
<1>1. CollectionsInv => CollectionsTypeOK
  BY DEF CollectionsInv
<1> QED
  BY <1>1, CollectionsStart, CollectionsStep, PTL DEF CollectionsSpec
----------------------------------------------------------------------------
(***************************************************************************)
(* The reminder runner.                                                    *)
(***************************************************************************)

Pcs == {"idle", "load", "list", "notify", "save", "close"}
Ticks == [pc : Pcs, cut : BOOLEAN, after : Nat, upTo : Nat, queue : SUBSET Reminders,
          ok : BOOLEAN, at : SUBSET Reminders]
Lasts == Nat \cup {Unset}
Memories == [loaded : BOOLEAN, last : Lasts, sent : SUBSET Reminders]
Stores == [last : Lasts, sent : SUBSET Reminders]
Working == {"list", "notify", "save", "close"}

RunnerTypes ==
    /\ now \in Nat /\ now <= MaxTime /\ back \in Nat /\ back <= MaxBack
    /\ isStarted \in BOOLEAN /\ joined \in BOOLEAN /\ mishap \in BOOLEAN
    /\ wait \in {Unset} \cup 0 .. Interval /\ left \in {Unset} \cup 0 .. TickTimeout
    /\ tick \in Ticks /\ memory \in Memories /\ disk \in Stores /\ stray \subseteq Stores
    /\ told \in [Reminders -> {"no", "told", "safe", "lost"}]
    /\ twice \subseteq Reminders /\ lapsed \subseteq Reminders /\ since \in Lasts

(* One tick at a time, with its deadline; a started runner waits for a     *)
(* tick or for its timer, and a tick that was cut makes no more calls.     *)
TickInv ==
    /\ tick.pc = "idle" <=> left = Unset
    /\ tick.cut => tick.pc \notin {"idle", "list", "notify"}
    /\ joined => tick.pc # "idle"
    /\ wait # Unset => isStarted /\ ~joined
    /\ isStarted => joined \/ wait # Unset
    /\ tick.pc = "load" => ~memory.loaded
    /\ tick.pc \in Working => memory.loaded
    /\ memory.loaded => memory.last # Unset
    /\ ~memory.loaded => stray = {} /\ \A r \in Reminders : told[r] # "told"
    /\ tick.queue \subseteq Due(tick.after, tick.upTo)
    /\ tick.at \subseteq Due(tick.after, tick.upTo)

RunnerShape == RunnerTypes /\ TickInv

(* A reminder whose record may be forgotten: the clock steps back by less  *)
(* than CatchUp in all, so it stays behind whatever the clock says later.  *)
Behind(r) == At[r] + CatchUp <= now + back

(* A reminder that was delivered is recorded, or lies before every window  *)
(* that is or will be opened; likewise in what is stored.                  *)
SentInv ==
    /\ memory.loaded => \A r \in Reminders : told[r] \in {"told", "safe"} =>
          \/ r \in memory.sent
          \/ /\ Behind(r) /\ At[r] <= memory.last
             /\ tick.pc \in Working => At[r] <= tick.after /\ At[r] <= tick.upTo
    /\ \A r \in Reminders : told[r] = "safe" =>
          \/ r \in disk.sent
          \/ Behind(r) /\ disk.last # Unset /\ At[r] <= disk.last

(* Every reminder of a window that was closed was handled, whatever was    *)
(* stored of it and when.                                                  *)
Handled(r) == told[r] # "no" \/ r \in lapsed
HandledTo(last) == last # Unset => \A r \in Due(since, last) : Handled(r)

DoneInv ==
    /\ \A r \in memory.sent : told[r] # "no"
    /\ \A r \in disk.sent : told[r] # "no"
    /\ \A s \in stray : \A r \in s.sent : told[r] # "no"
    /\ memory.loaded => HandledTo(memory.last)
    /\ HandledTo(disk.last)
    /\ \A s \in stray : HandledTo(s.last)
    /\ tick.pc \in Working => HandledTo(tick.after)
    /\ tick.pc = "notify" /\ tick.ok =>
          \A r \in Due(tick.after, tick.upTo) : told[r] # "no" \/ r \in tick.queue \/ r \in tick.at
    /\ tick.pc = "save" /\ tick.ok =>
          \A r \in Due(tick.after, tick.upTo) : told[r] # "no" \/ r \in tick.queue

(* While nothing fails, the end of the last closed window is never further *)
(* back than a tick and a wait last.                                       *)
TimeInv == ~mishap =>
    /\ lapsed = {} /\ ~tick.cut /\ tick.ok
    /\ ~memory.loaded => disk.last = Unset
    /\ tick.pc = "idle" /\ memory.loaded =>
          now + (IF wait = Unset THEN Interval ELSE wait) <= memory.last + TickTimeout + Interval
    /\ tick.pc \in Working => now + left <= tick.upTo + TickTimeout
    /\ tick.pc = "close" => memory.last = tick.upTo

RemindersInv == RunnerShape /\ SentInv /\ DoneInv /\ TimeInv /\ twice = {}

LEMMA RunnerNumbers ==
    ASSUME RemindersAssumption
    PROVE  /\ At \in [Reminders -> Nat]
           /\ Interval \in Nat \ {0} /\ TickTimeout \in Nat \ {0} /\ CatchUp \in Nat
           /\ CatchUp >= Interval + TickTimeout
           /\ MaxTime \in Nat /\ MaxBack \in Nat /\ MaxBack < CatchUp
           /\ \A r \in Reminders : At[r] \in Nat
           /\ Unset = -1 /\ Unset \notin Nat
BY DEF RemindersAssumption, Unset

LEMMA BehindIsPast ==
    ASSUME RemindersAssumption, RunnerTypes, NEW r \in Reminders, Behind(r)
    PROVE  At[r] < now
BY RunnerNumbers DEF RunnerTypes, Behind

(* What opening a window does.                                             *)
LEMMA OpensIs ==
    ASSUME RemindersAssumption, RunnerTypes, NEW m \in Memories
    PROVE  /\ Opens(m) \in Nat /\ Opens(m) >= Floor
           /\ m.last = Unset => Opens(m) = now
           /\ m.last # Unset => Opens(m) >= m.last /\ m.last \in Nat
           /\ m.last # Unset /\ now <= m.last + CatchUp => Opens(m) = m.last
<1>1. now \in Nat /\ CatchUp \in Nat /\ m.last \in Nat \cup {Unset} /\ Unset = -1
  BY RunnerNumbers DEF RunnerTypes, Memories, Lasts
<1>2. QED  BY <1>1 DEF Opens, Max2, Floor

LEMMA OpenWindowIs ==
    ASSUME RemindersAssumption, RunnerTypes, NEW m \in Memories, OpenWindow(m)
    PROVE  /\ memory' \in Memories /\ memory'.loaded /\ memory'.last = Opens(m)
           /\ memory'.last # Unset
           /\ \A r \in Reminders : r \in memory'.sent <=> r \in m.sent /\ ~(At[r] <= Floor)
           /\ since' \in Lasts /\ lapsed' \subseteq Reminders /\ lapsed \subseteq lapsed'
           /\ since' = IF m.last = Unset THEN now ELSE since
           /\ \A r \in Reminders :
                 /\ m.last # Unset /\ m.last < At[r] /\ At[r] <= Opens(m) =>
                       told[r] # "no" \/ r \in lapsed'
           /\ m.last = Unset \/ now <= m.last + CatchUp => lapsed' = lapsed
<1>0. /\ m.loaded \in BOOLEAN /\ m.last \in Lasts /\ m.sent \in SUBSET Reminders
      /\ lapsed \subseteq Reminders /\ since \in Lasts /\ now \in Nat
      /\ told \in [Reminders -> {"no", "told", "safe", "lost"}]
  BY DEF Memories, RunnerTypes
<1>1. /\ Opens(m) \in Nat /\ Opens(m) >= Floor
      /\ m.last = Unset => Opens(m) = now
      /\ m.last # Unset => Opens(m) >= m.last /\ m.last \in Nat
      /\ m.last # Unset /\ now <= m.last + CatchUp => Opens(m) = m.last
  BY OpensIs
<1> DEFINE from == IF m.last = Unset THEN now ELSE m.last
<1>2. /\ memory' = [loaded |-> TRUE, last |-> Opens(m), sent |-> m.sent \ Forgets(m.sent)]
      /\ since' = IF m.last = Unset THEN now ELSE since
      /\ lapsed' = lapsed \union {r \in Due(from, Opens(m)) : told[r] = "no"}
  BY DEF OpenWindow
<1>3. /\ memory' \in Memories /\ memory'.loaded /\ memory'.last = Opens(m)
      /\ memory'.last # Unset
  BY <1>0, <1>1, <1>2, RunnerNumbers DEF Memories, Lasts
<1>4. \A r \in Reminders : r \in memory'.sent <=> r \in m.sent /\ ~(At[r] <= Floor)
  BY <1>2 DEF Forgets
<1>5. lapsed' \subseteq Reminders /\ lapsed \subseteq lapsed' /\ since' \in Lasts
  BY <1>0, <1>2 DEF Due, Lasts
<1>6. \A r \in Reminders : m.last # Unset /\ m.last < At[r] /\ At[r] <= Opens(m) =>
         told[r] # "no" \/ r \in lapsed'
  BY <1>2 DEF Due
<1>7. ASSUME m.last = Unset \/ now <= m.last + CatchUp  PROVE lapsed' = lapsed
  <2>1. Opens(m) = from /\ from \in Nat
    BY <1>0, <1>1, <1>7
  <2>2. Due(from, Opens(m)) = {}
    BY <2>1, RunnerNumbers DEF Due
  <2>3. QED  BY <1>2, <2>2
<1>8. QED  BY <1>2, <1>3, <1>4, <1>5, <1>6, <1>7

(* The sent reminders are recorded in the window that opens, or behind it. *)
LEMMA OpenKeepsSent ==
    ASSUME RemindersAssumption, RunnerTypes, NEW m \in Memories, OpenWindow(m),
           \A r \in Reminders : told[r] \in {"told", "safe"} =>
              r \in m.sent \/ (Behind(r) /\ m.last # Unset /\ At[r] <= m.last)
    PROVE  \A r \in Reminders : told[r] \in {"told", "safe"} =>
              r \in memory'.sent \/ (Behind(r) /\ At[r] <= Opens(m) /\ At[r] <= now)
<1> SUFFICES ASSUME NEW r \in Reminders, told[r] \in {"told", "safe"}
             PROVE  r \in memory'.sent \/ (Behind(r) /\ At[r] <= Opens(m) /\ At[r] <= now)
  OBVIOUS
<1>0. now \in Nat /\ back \in Nat /\ At[r] \in Nat /\ CatchUp \in Nat
  BY RunnerNumbers DEF RunnerTypes
<1>1. /\ Opens(m) \in Nat /\ Opens(m) >= Floor
      /\ m.last # Unset => Opens(m) >= m.last /\ m.last \in Nat
      /\ r \in memory'.sent <=> r \in m.sent /\ ~(At[r] <= Floor)
  BY OpensIs, OpenWindowIs
<1>2. CASE r \in m.sent /\ At[r] <= Floor
  <2>1. Behind(r) /\ At[r] <= now /\ At[r] <= Opens(m)
    BY <1>0, <1>1, <1>2 DEF Behind, Floor
  <2>2. QED  BY <2>1
<1>3. CASE Behind(r) /\ m.last # Unset /\ At[r] <= m.last
  <2>1. At[r] < now
    BY <1>3, BehindIsPast
  <2>2. QED  BY <1>0, <1>1, <1>3, <2>1
<1>4. QED  BY <1>1, <1>2, <1>3

(* The window opens behind what was handled.                               *)
LEMMA OpenKeepsDone ==
    ASSUME RemindersAssumption, RunnerTypes, NEW m \in Memories, OpenWindow(m),
           HandledTo(m.last)
    PROVE  \A r \in Reminders : since' < At[r] /\ At[r] <= Opens(m) =>
              told[r] # "no" \/ r \in lapsed'
<1> SUFFICES ASSUME NEW r \in Reminders, since' < At[r], At[r] <= Opens(m)
             PROVE  told[r] # "no" \/ r \in lapsed'
  OBVIOUS
<1>0. now \in Nat /\ At[r] \in Nat
  BY RunnerNumbers DEF RunnerTypes
<1>1. /\ m.last = Unset => Opens(m) = now /\ since' = now
      /\ m.last # Unset => since' = since /\ m.last \in Nat
      /\ lapsed \subseteq lapsed'
      /\ m.last # Unset /\ m.last < At[r] /\ At[r] <= Opens(m) => told[r] # "no" \/ r \in lapsed'
  BY OpensIs, OpenWindowIs
<1>2. m.last # Unset
  BY <1>0, <1>1
<1>3. CASE m.last < At[r]
  BY <1>1, <1>2, <1>3
<1>4. CASE ~(m.last < At[r])
  <2>1. At[r] <= m.last
    BY <1>0, <1>1, <1>2, <1>4
  <2>2. r \in Due(since, m.last)
    BY <1>1, <1>2, <2>1 DEF Due
  <2>3. QED  BY <1>1, <1>2, <2>2 DEF HandledTo, Handled
<1>5. QED  BY <1>3, <1>4

LEMMA ListingIs ==
    ASSUME RemindersAssumption, RunnerTypes, NEW m \in Memories
    PROVE  /\ Listing(m) \in Ticks /\ Listing(m).pc = "list" /\ Listing(m).cut = FALSE
           /\ Listing(m).after = Opens(m) /\ Listing(m).upTo = now /\ Listing(m).ok = TRUE
           /\ Listing(m).queue = {} /\ Listing(m).at = {}
<1>1. Opens(m) \in Nat /\ now \in Nat
  BY OpensIs DEF RunnerTypes
<1>2. QED  BY <1>1 DEF Listing, IdleTick, Ticks, Pcs

(* What going on with the reminders of q does.                             *)
LEMMA ProceedIs ==
    ASSUME NEW t \in Ticks, NEW m \in Memories, NEW q \in SUBSET Reminders, Proceed(t, m, q)
    PROVE  /\ memory' \in Memories /\ memory'.loaded = m.loaded /\ memory'.sent = m.sent
           /\ tick' \in Ticks
           /\ \/ /\ q \subseteq m.sent /\ memory'.last = Closes(t)
                 /\ tick'.pc = "close" /\ tick'.cut = t.cut /\ tick'.after = t.after
                 /\ tick'.upTo = t.upTo /\ tick'.ok = t.ok /\ tick'.queue = {} /\ tick'.at = {}
                 /\ UNCHANGED <<left, joined, wait, twice>>
              \/ /\ t.cut /\ memory' = m /\ EndTick /\ twice' = twice
              \/ /\ ~t.cut /\ memory' = m
                 /\ tick'.pc = "notify" /\ tick'.cut = t.cut /\ tick'.after = t.after
                 /\ tick'.upTo = t.upTo /\ tick'.ok = t.ok
                 /\ tick'.queue \cup tick'.at = q \ m.sent
                 /\ \A r \in tick'.at : told[r] \notin {"told", "safe"} => twice' = twice
                 /\ tick'.at # {}
                 /\ UNCHANGED <<left, joined, wait>>
<1> DEFINE open == q \ m.sent
<1>1. CASE /\ open = {}
           /\ memory' = [m EXCEPT !.last = Closes(t)]
           /\ tick' = [t EXCEPT !.pc = "close", !.queue = {}, !.at = {}]
           /\ UNCHANGED <<left, joined, wait, twice>>
  <2>1. Closes(t) \in Lasts
    BY DEF Closes, Ticks, Lasts
  <2>2. memory' \in Memories /\ memory'.loaded = m.loaded /\ memory'.sent = m.sent
        /\ memory'.last = Closes(t)
    BY <1>1, <2>1 DEF Memories
  <2>3. /\ tick' \in Ticks
        /\ tick'.pc = "close" /\ tick'.cut = t.cut /\ tick'.after = t.after
        /\ tick'.upTo = t.upTo /\ tick'.ok = t.ok /\ tick'.queue = {} /\ tick'.at = {}
    BY <1>1 DEF Ticks, Pcs
  <2>4. QED  BY <1>1, <2>2, <2>3
<1>2. CASE open # {} /\ Aborted(t) /\ memory' = m /\ EndTick /\ UNCHANGED twice
  <2>1. tick' \in Ticks
    BY <1>2 DEF EndTick, IdleTick, Ticks, Pcs
  <2>2. QED  BY <1>2, <2>1 DEF Aborted
<1>3. ASSUME ~Aborted(t), NEW r \in open,
             tick' = [t EXCEPT !.pc = "notify", !.queue = open \ {r}, !.at = {r}],
             twice' = IF told[r] \in {"told", "safe"} THEN twice \union {r} ELSE twice,
             memory' = m, UNCHANGED <<left, joined, wait>>
      PROVE  /\ tick' \in Ticks
             /\ ~t.cut /\ memory' = m
             /\ tick'.pc = "notify" /\ tick'.cut = t.cut /\ tick'.after = t.after
             /\ tick'.upTo = t.upTo /\ tick'.ok = t.ok
             /\ tick'.queue \cup tick'.at = q \ m.sent
             /\ \A x \in tick'.at : told[x] \notin {"told", "safe"} => twice' = twice
             /\ tick'.at # {}
  <2>1. /\ tick' \in Ticks
        /\ tick'.pc = "notify" /\ tick'.cut = t.cut /\ tick'.after = t.after
        /\ tick'.upTo = t.upTo /\ tick'.ok = t.ok
        /\ tick'.queue = open \ {r} /\ tick'.at = {r}
    BY <1>3 DEF Ticks, Pcs
  <2>2. QED  BY <1>3, <2>1 DEF Aborted
<1>4. QED  BY <1>1, <1>2, <1>3 DEF Proceed

LEMMA EndTickIs ==
    ASSUME RemindersAssumption, RunnerShape, EndTick, isStarted' = isStarted
    PROVE  /\ tick' = IdleTick /\ tick' \in Ticks /\ tick'.pc = "idle" /\ ~tick'.cut
           /\ tick'.ok /\ tick'.queue = {} /\ tick'.at = {}
           /\ left' = Unset /\ joined' = FALSE
           /\ wait' \in {Unset} \cup 0 .. Interval
           /\ wait' # Unset => isStarted' /\ ~joined'
           /\ isStarted' => joined' \/ wait' # Unset
<1>1. tick' = IdleTick /\ left' = Unset /\ joined' = FALSE
      /\ wait' = IF Arms THEN Interval ELSE wait
  BY DEF EndTick
<1>2. IdleTick \in Ticks /\ IdleTick.pc = "idle" /\ ~IdleTick.cut /\ IdleTick.ok
      /\ IdleTick.queue = {} /\ IdleTick.at = {}
  BY DEF IdleTick, Ticks, Pcs
<1>3. Interval \in 0 .. Interval /\ Interval # Unset
  BY RunnerNumbers
<1>4. QED  BY <1>1, <1>2, <1>3 DEF Arms, RunnerShape, RunnerTypes, TickInv

----------------------------------------------------------------------------
(* The steps of a tick.                                                    *)

LEMMA BehindStays ==
    ASSUME UNCHANGED <<now, back>>
    PROVE  \A r \in Reminders : Behind(r)' <=> Behind(r)
BY DEF Behind

(* A tick begins; the runner waits for it, or the application asked.       *)
LEMMA BeginKeeps ==
    ASSUME RemindersInv, RemindersAssumption, tick.pc = "idle", Begin,
           isStarted' \in BOOLEAN, joined' \in BOOLEAN,
           wait' \in {Unset} \cup 0 .. Interval,
           wait' # Unset => isStarted' /\ ~joined',
           isStarted' => joined' \/ wait' # Unset,
           UNCHANGED <<disk, stray, told, twice, mishap, world>>
    PROVE  RemindersInv'
<1>0. /\ RunnerTypes /\ TickInv /\ SentInv /\ DoneInv /\ TimeInv /\ twice = {}
      /\ UNCHANGED <<disk, stray, told, twice, mishap, now, crashes, back>>
      /\ left' = TickTimeout
      /\ disk \in Stores /\ stray \subseteq Stores /\ memory \in Memories
  BY DEF RemindersInv, RunnerShape, RunnerTypes, Begin, world
<1>1. TickTimeout \in 0 .. TickTimeout /\ TickTimeout # Unset /\ Unset = -1
  BY RunnerNumbers
<1>2. \A r \in Reminders : Behind(r)' <=> Behind(r)
  BY <1>0, BehindStays
<1>3. CASE /\ ~memory.loaded /\ tick' = [IdleTick EXCEPT !.pc = "load"]
           /\ UNCHANGED <<memory, since, lapsed>>
  <2>1. /\ tick' \in Ticks /\ tick'.pc = "load" /\ ~tick'.cut /\ tick'.ok
        /\ tick'.queue = {} /\ tick'.at = {}
    BY <1>3 DEF IdleTick, Ticks, Pcs
  <2>2. RunnerTypes'
    BY <1>0, <1>1, <1>3, <2>1 DEF RunnerTypes
  <2>3. TickInv'
    BY <1>0, <1>1, <1>3, <2>1 DEF TickInv, Working
  <2>4. SentInv'
    BY <1>0, <1>2, <1>3, <2>1 DEF SentInv, Working
  <2>5. DoneInv'
    BY <1>0, <1>3, <2>1 DEF DoneInv, Working, HandledTo, Handled, Due
  <2>6. TimeInv'
    BY <1>0, <1>3, <2>1 DEF TimeInv, Working
  <2>7. QED  BY <1>0, <2>2, <2>3, <2>4, <2>5, <2>6 DEF RemindersInv, RunnerShape
<1>4. CASE memory.loaded /\ OpenWindow(memory) /\ tick' = Listing(memory)
  <2>1. /\ memory' \in Memories /\ memory'.loaded /\ memory'.last = Opens(memory)
        /\ memory'.last # Unset /\ memory'.last \in Nat
        /\ \A r \in memory'.sent : r \in memory.sent
        /\ since' \in Lasts /\ lapsed' \subseteq Reminders /\ lapsed \subseteq lapsed'
        /\ since' = IF memory.last = Unset THEN now ELSE since
        /\ memory.last = Unset \/ now <= memory.last + CatchUp => lapsed' = lapsed
    BY <1>0, <1>4, OpenWindowIs, OpensIs DEF Memories
  <2>2. /\ tick' \in Ticks /\ tick'.pc = "list" /\ tick'.cut = FALSE
        /\ tick'.after = Opens(memory) /\ tick'.upTo = now /\ tick'.ok = TRUE
        /\ tick'.queue = {} /\ tick'.at = {}
    BY <1>0, <1>4, ListingIs
  <2>3. memory.last # Unset /\ since' = since
    BY <1>0, <1>4, <2>1 DEF TickInv
  <2>4. RunnerTypes'
    BY <1>0, <1>1, <2>1, <2>2 DEF RunnerTypes
  <2>5. TickInv'
    BY <1>0, <1>1, <2>1, <2>2 DEF TickInv, Working
  <2>6. SentInv'
    <3>1. \A r \in Reminders : told[r] \in {"told", "safe"} =>
             r \in memory.sent \/ (Behind(r) /\ memory.last # Unset /\ At[r] <= memory.last)
      BY <1>0, <1>4, <2>3 DEF SentInv
    <3>2. \A r \in Reminders : told[r] \in {"told", "safe"} =>
             r \in memory'.sent \/ (Behind(r) /\ At[r] <= Opens(memory) /\ At[r] <= now)
      BY <1>0, <1>4, <3>1, OpenKeepsSent
    <3>3. QED  BY <1>0, <1>2, <2>1, <2>2, <3>2 DEF SentInv
  <2>7. DoneInv'
    <3>1. \A r \in Reminders : since' < At[r] /\ At[r] <= Opens(memory) =>
             told[r] # "no" \/ r \in lapsed'
      BY <1>0, <1>4, OpenKeepsDone DEF DoneInv
    <3>2. HandledTo(memory.last)'
      BY <1>0, <2>1, <3>1 DEF HandledTo, Handled, Due
    <3>3. HandledTo(tick.after)'
      BY <1>0, <2>2, <3>1 DEF HandledTo, Handled, Due
    <3>4. \A last \in Lasts : HandledTo(last) => HandledTo(last)'
      BY <1>0, <2>1, <2>3 DEF HandledTo, Handled, Due
    <3>5. HandledTo(disk.last)' /\ \A s \in stray : HandledTo(s.last)'
      BY <1>0, <3>4 DEF DoneInv, Stores
    <3>6. /\ \A r \in memory.sent : told[r] # "no"
          /\ \A r \in disk.sent : told[r] # "no"
          /\ \A s \in stray : \A r \in s.sent : told[r] # "no"
      BY <1>0 DEF DoneInv
    <3>7. QED  BY <1>0, <2>1, <2>2, <3>2, <3>3, <3>5, <3>6 DEF DoneInv, HandledTo, Handled, Due
  <2>8. TimeInv'
    <3>1. ASSUME ~mishap  PROVE lapsed' = lapsed
      <4>1. now + (IF wait = Unset THEN Interval ELSE wait) <= memory.last + TickTimeout + Interval
        BY <1>0, <1>4, <3>1 DEF TimeInv
      <4>2. now <= memory.last + CatchUp
        <5>1. (IF wait = Unset THEN Interval ELSE wait) \in Nat
          BY <1>0, RunnerNumbers DEF RunnerTypes
        <5>2. memory.last \in Nat /\ now \in Nat
          BY <1>0, <2>3 DEF Memories, Lasts, RunnerTypes
        <5> DEFINE w == IF wait = Unset THEN Interval ELSE wait
        <5> HIDE DEF w
        <5>3. w \in Nat /\ now + w <= memory.last + TickTimeout + Interval
          BY <4>1, <5>1 DEF w
        <5>4. QED  BY <5>2, <5>3, RunnerNumbers
      <4>3. QED  BY <2>1, <4>2
    <3>2. now + TickTimeout <= now + TickTimeout
      BY <1>0, RunnerNumbers DEF RunnerTypes
    <3>3. QED  BY <1>0, <2>1, <2>2, <3>1, <3>2 DEF TimeInv, Working
  <2>9. QED  BY <1>0, <2>4, <2>5, <2>6, <2>7, <2>8 DEF RemindersInv, RunnerShape
<1>5. QED  BY <1>3, <1>4 DEF Begin

(* The loop runs a tick, or joins the one that runs.                       *)
LEMMA LoopKeeps ==
    ASSUME RemindersInv, RemindersAssumption, Loop, isStarted' \in BOOLEAN,
           UNCHANGED <<disk, stray, told, twice, mishap, world>>
    PROVE  RemindersInv'
<1>1. joined' = TRUE /\ wait' = Unset
  BY DEF Loop
<1>2. CASE tick.pc = "idle" /\ Begin
  BY <1>1, <1>2, BeginKeeps
<1>3. CASE tick.pc # "idle" /\ UNCHANGED <<tick, left, memory, since, lapsed>>
  BY <1>1, <1>3 DEF RemindersInv, RunnerShape, RunnerTypes, TickInv, SentInv, DoneInv, TimeInv,
                    Working, Behind, HandledTo, Handled, Due, world
<1>4. QED  BY <1>2, <1>3 DEF Loop

(* The stored state is read once.                                          *)
LEMMA LoadedKeeps ==
    ASSUME RemindersInv, RemindersAssumption, Loaded
    PROVE  RemindersInv'
<1> DEFINE m == [loaded |-> TRUE, last |-> disk.last, sent |-> disk.sent]
<1>0. /\ RunnerTypes /\ TickInv /\ SentInv /\ DoneInv /\ TimeInv /\ twice = {} /\ RunnerShape
      /\ UNCHANGED <<isStarted, disk, stray, told, twice, mishap, now, crashes, back>>
      /\ disk \in Stores /\ tick.pc = "load" /\ ~memory.loaded
  BY DEF RemindersInv, RunnerShape, RunnerTypes, Loaded, world, TickInv
<1>1. m \in Memories /\ m.loaded /\ m.last = disk.last /\ m.sent = disk.sent /\ OpenWindow(m)
  BY <1>0 DEF Loaded, Stores, Memories
<1>2. \/ tick.cut /\ EndTick
      \/ ~tick.cut /\ tick' = Listing(m) /\ UNCHANGED <<left, joined, wait>>
  BY DEF Loaded, Aborted
<1> HIDE DEF m
<1>3. /\ memory' \in Memories /\ memory'.loaded /\ memory'.last = Opens(m)
      /\ memory'.last # Unset /\ memory'.last \in Nat
      /\ \A r \in memory'.sent : r \in m.sent
      /\ since' \in Lasts /\ lapsed' \subseteq Reminders /\ lapsed \subseteq lapsed'
      /\ since' = IF m.last = Unset THEN now ELSE since
      /\ m.last = Unset \/ now <= m.last + CatchUp => lapsed' = lapsed
  BY <1>0, <1>1, OpenWindowIs, OpensIs DEF Memories
<1>4. \A r \in Reminders : Behind(r)' <=> Behind(r)
  BY <1>0, BehindStays
<1>5. stray = {} /\ \A r \in Reminders : told[r] # "told"
  BY <1>0 DEF TickInv
<1>6. \A r \in Reminders : told[r] \in {"told", "safe"} =>
         r \in memory'.sent \/ (Behind(r) /\ At[r] <= Opens(m) /\ At[r] <= now)
  <2>1. \A r \in Reminders : told[r] \in {"told", "safe"} =>
           r \in m.sent \/ (Behind(r) /\ m.last # Unset /\ At[r] <= m.last)
    BY <1>0, <1>1, <1>5 DEF SentInv
  <2>2. QED  BY <1>0, <1>1, <2>1, OpenKeepsSent
<1>7. /\ \A r \in Reminders : since' < At[r] /\ At[r] <= Opens(m) =>
            told[r] # "no" \/ r \in lapsed'
      /\ HandledTo(memory.last)'
      /\ HandledTo(disk.last)'
      /\ \A r \in memory'.sent : told[r] # "no"
      /\ \A r \in disk.sent : told[r] # "no"
  <2>1. HandledTo(m.last)
    BY <1>0, <1>1 DEF DoneInv
  <2>2. \A r \in Reminders : since' < At[r] /\ At[r] <= Opens(m) => told[r] # "no" \/ r \in lapsed'
    BY <1>0, <1>1, <2>1, OpenKeepsDone
  <2>3. HandledTo(memory.last)'
    BY <1>0, <1>3, <2>2 DEF HandledTo, Handled, Due
  <2>4. HandledTo(disk.last)'
    BY <1>0, <1>1, <1>3, <2>1 DEF HandledTo, Handled, Due
  <2>5. QED  BY <1>0, <1>1, <1>3, <2>2, <2>3, <2>4 DEF DoneInv
<1>8. CASE tick.cut /\ EndTick
  <2>1. /\ tick' \in Ticks /\ tick'.pc = "idle" /\ ~tick'.cut
        /\ tick'.ok /\ tick'.queue = {} /\ tick'.at = {}
        /\ left' = Unset /\ joined' = FALSE
        /\ wait' \in {Unset} \cup 0 .. Interval
        /\ wait' # Unset => isStarted' /\ ~joined'
        /\ isStarted' => joined' \/ wait' # Unset
    BY <1>0, <1>8, EndTickIs
  <2>2. mishap
    BY <1>0, <1>8 DEF TimeInv, RunnerTypes
  <2>3. RunnerTypes'
    BY <1>0, <1>3, <2>1 DEF RunnerTypes
  <2>4. TickInv'
    BY <1>0, <1>3, <2>1 DEF TickInv, Working
  <2>5. SentInv'
    BY <1>0, <1>3, <1>4, <1>6, <2>1 DEF SentInv, Working
  <2>6. DoneInv'
    BY <1>0, <1>3, <1>5, <1>7, <2>1 DEF DoneInv, Working
  <2>7. TimeInv'
    BY <1>0, <2>2 DEF TimeInv
  <2>8. QED  BY <1>0, <2>3, <2>4, <2>5, <2>6, <2>7 DEF RemindersInv, RunnerShape
<1>9. CASE ~tick.cut /\ tick' = Listing(m) /\ UNCHANGED <<left, joined, wait>>
  <2>1. /\ tick' \in Ticks /\ tick'.pc = "list" /\ tick'.cut = FALSE
        /\ tick'.after = Opens(m) /\ tick'.upTo = now /\ tick'.ok = TRUE
        /\ tick'.queue = {} /\ tick'.at = {}
    BY <1>0, <1>1, <1>9, ListingIs
  <2>2. RunnerTypes'
    BY <1>0, <1>3, <1>9, <2>1 DEF RunnerTypes
  <2>3. TickInv'
    BY <1>0, <1>3, <1>9, <2>1 DEF TickInv, Working
  <2>4. SentInv'
    BY <1>0, <1>3, <1>4, <1>6, <2>1 DEF SentInv, Working
  <2>5. DoneInv'
    <3>1. HandledTo(tick.after)'
      BY <1>0, <1>7, <2>1 DEF HandledTo, Handled, Due
    <3>2. QED  BY <1>0, <1>3, <1>5, <1>7, <2>1, <3>1 DEF DoneInv, Working
  <2>6. TimeInv'
    <3>1. ASSUME ~mishap  PROVE lapsed' = {}
      BY <1>0, <1>1, <1>3, <3>1 DEF TimeInv
    <3>2. now + left <= now + TickTimeout
      BY <1>0, RunnerNumbers DEF RunnerTypes, TickInv
    <3>3. QED  BY <1>0, <1>3, <1>9, <2>1, <3>1, <3>2 DEF TimeInv, Working
  <2>7. QED  BY <1>0, <2>2, <2>3, <2>4, <2>5, <2>6 DEF RemindersInv, RunnerShape
<1>10. QED  BY <1>2, <1>8, <1>9

(* A write of the state that ended, or did not happen.                     *)
Wrote ==
    \/ disk' = Stored
       /\ told' = [r \in Reminders |->
                      IF r \in memory.sent /\ told[r] = "told" THEN "safe" ELSE told[r]]
    \/ disk' = disk /\ told' = told

LEMMA WroteIs ==
    ASSUME RemindersInv, RemindersAssumption, Wrote, tick.pc \in Working,
           UNCHANGED <<since, lapsed, now, back>>
    PROVE  /\ disk' \in Stores /\ told' \in [Reminders -> {"no", "told", "safe", "lost"}]
           /\ \A r \in Reminders : /\ told'[r] \in {"told", "safe"} <=> told[r] \in {"told", "safe"}
                                   /\ told'[r] = "no" <=> told[r] = "no"
                                   /\ Handled(r)' <=> Handled(r)
           /\ \A r \in Reminders : told'[r] = "safe" =>
                 \/ r \in disk'.sent
                 \/ Behind(r) /\ disk'.last # Unset /\ At[r] <= disk'.last
           /\ \A r \in disk'.sent : told[r] # "no"
           /\ HandledTo(disk'.last)
<1>0. /\ RunnerTypes /\ TickInv /\ SentInv /\ DoneInv
      /\ told \in [Reminders -> {"no", "told", "safe", "lost"}] /\ disk \in Stores
      /\ memory \in Memories /\ tick \in Ticks /\ memory.loaded
      /\ memory.last # Unset /\ memory.sent \subseteq Reminders
  BY DEF RemindersInv, RunnerShape, RunnerTypes, TickInv, Memories
<1>1. Stored \in Stores /\ Stored.last # Unset /\ Stored.sent = memory.sent
      /\ Stored.last = IF tick.pc = "close" THEN memory.last ELSE tick.after
  BY <1>0, RunnerNumbers DEF Stored, Stores, Memories, Ticks, Lasts
<1>2. CASE disk' = disk /\ told' = told
  BY <1>0, <1>2 DEF SentInv, DoneInv, Handled
<1>3. CASE /\ disk' = Stored
           /\ told' = [r \in Reminders |->
                          IF r \in memory.sent /\ told[r] = "told" THEN "safe" ELSE told[r]]
  <2>1. /\ told' \in [Reminders -> {"no", "told", "safe", "lost"}]
        /\ \A r \in Reminders :
              told'[r] = IF r \in memory.sent /\ told[r] = "told" THEN "safe" ELSE told[r]
    BY <1>0, <1>3
  <2>2. \A r \in Reminders : /\ told'[r] \in {"told", "safe"} <=> told[r] \in {"told", "safe"}
                             /\ told'[r] = "no" <=> told[r] = "no"
                             /\ Handled(r)' <=> Handled(r)
    BY <2>1 DEF Handled
  <2>3. \A r \in Reminders : told'[r] = "safe" =>
           \/ r \in disk'.sent
           \/ Behind(r) /\ disk'.last # Unset /\ At[r] <= disk'.last
    BY <1>0, <1>1, <1>3, <2>1 DEF SentInv
  <2>4. \A r \in disk'.sent : told[r] # "no"
    BY <1>0, <1>1, <1>3 DEF DoneInv
  <2>5. HandledTo(disk'.last)
    BY <1>0, <1>1, <1>3 DEF DoneInv
  <2>6. QED  BY <1>1, <1>3, <2>1, <2>2, <2>3, <2>4, <2>5
<1>4. QED  BY <1>2, <1>3 DEF Wrote

(* What is unchanged, or only moves from told to safe, keeps what was      *)
(* handled.                                                                *)
LEMMA HandledStays ==
    ASSUME RunnerTypes, UNCHANGED since, lapsed' = lapsed,
           \A r \in Reminders : told'[r] = "no" <=> told[r] = "no"
    PROVE  /\ \A last \in Lasts : HandledTo(last) => HandledTo(last)'
           /\ DoneInv => HandledTo(disk.last) /\ \A s \in stray : HandledTo(s.last)
BY DEF HandledTo, Handled, Due, DoneInv

(* A tick goes on, after a write that ended or did not happen.             *)
LEMMA ProceedKeeps ==
    ASSUME RemindersInv, RemindersAssumption, tick.pc \in {"list", "notify", "save"},
           NEW t \in Ticks, NEW q \in SUBSET Reminders, Proceed(t, memory, q), Wrote,
           t.cut = tick.cut, t.after = tick.after, t.upTo = tick.upTo,
           q \subseteq Due(tick.after, tick.upTo),
           t.ok => \A r \in Due(tick.after, tick.upTo) : told[r] # "no" \/ r \in q,
           mishap' \in BOOLEAN, mishap => mishap', mishap' \/ t.ok,
           UNCHANGED <<isStarted, stray, since, lapsed, world>>
    PROVE  RemindersInv'
<1>0. /\ RunnerTypes /\ TickInv /\ SentInv /\ DoneInv /\ TimeInv /\ twice = {} /\ RunnerShape
      /\ UNCHANGED <<isStarted, stray, since, lapsed, now, crashes, back>>
      /\ memory \in Memories /\ memory.loaded /\ tick \in Ticks /\ stray \subseteq Stores
      /\ memory.last # Unset /\ memory.last \in Nat /\ tick.pc \in Working
      /\ tick.after \in Nat /\ tick.upTo \in Nat
  BY DEF RemindersInv, RunnerShape, RunnerTypes, TickInv, Working, world, Memories, Lasts, Ticks
<1>1. /\ disk' \in Stores /\ told' \in [Reminders -> {"no", "told", "safe", "lost"}]
      /\ \A r \in Reminders : /\ told'[r] \in {"told", "safe"} <=> told[r] \in {"told", "safe"}
                              /\ told'[r] = "no" <=> told[r] = "no"
      /\ \A r \in Reminders : told'[r] = "safe" =>
            \/ r \in disk'.sent
            \/ Behind(r) /\ disk'.last # Unset /\ At[r] <= disk'.last
      /\ \A r \in disk'.sent : told[r] # "no"
      /\ HandledTo(disk'.last)
  BY <1>0, WroteIs
<1>2. /\ memory' \in Memories /\ memory'.loaded = memory.loaded /\ memory'.sent = memory.sent
      /\ tick' \in Ticks
      /\ \/ /\ q \subseteq memory.sent /\ memory'.last = Closes(t)
            /\ tick'.pc = "close" /\ tick'.cut = t.cut /\ tick'.after = t.after
            /\ tick'.upTo = t.upTo /\ tick'.ok = t.ok /\ tick'.queue = {} /\ tick'.at = {}
            /\ UNCHANGED <<left, joined, wait, twice>>
         \/ /\ t.cut /\ memory' = memory /\ EndTick /\ twice' = twice
         \/ /\ ~t.cut /\ memory' = memory
            /\ tick'.pc = "notify" /\ tick'.cut = t.cut /\ tick'.after = t.after
            /\ tick'.upTo = t.upTo /\ tick'.ok = t.ok
            /\ tick'.queue \cup tick'.at = q \ memory.sent
            /\ \A r \in tick'.at : told[r] \notin {"told", "safe"} => twice' = twice
            /\ tick'.at # {}
            /\ UNCHANGED <<left, joined, wait>>
  BY <1>0, ProceedIs
<1>3. \A r \in Reminders : Behind(r)' <=> Behind(r)
  BY <1>0, BehindStays
<1>4. /\ \A last \in Lasts : HandledTo(last) => HandledTo(last)'
      /\ \A s \in stray : HandledTo(s.last)'
  <2>1. \A last \in Lasts : HandledTo(last) => HandledTo(last)'
    BY <1>0, <1>1, HandledStays
  <2>2. \A s \in stray : s.last \in Lasts /\ HandledTo(s.last)
    BY <1>0 DEF DoneInv, Stores
  <2>3. QED  BY <1>0, <2>1, <2>2 DEF HandledTo, Handled, Due
<1>5. /\ HandledTo(disk.last)'
      /\ HandledTo(tick.after)
      /\ \A r \in memory.sent : told'[r] # "no"
      /\ \A r \in disk'.sent : told'[r] # "no"
      /\ \A s \in stray : \A r \in s.sent : told'[r] # "no"
  <2>1. HandledTo(disk.last)'
    BY <1>0, <1>1 DEF HandledTo, Handled, Due
  <2>2. QED  BY <1>0, <1>1, <2>1 DEF DoneInv, Memories, Stores
<1>6. \A r \in Reminders : told[r] \in {"told", "safe"} =>
         \/ r \in memory.sent
         \/ Behind(r) /\ At[r] <= memory.last /\ At[r] <= tick.after /\ At[r] <= tick.upTo
  BY <1>0 DEF SentInv
<1>7. CASE /\ q \subseteq memory.sent /\ memory'.last = Closes(t)
           /\ tick'.pc = "close" /\ tick'.cut = t.cut /\ tick'.after = t.after
           /\ tick'.upTo = t.upTo /\ tick'.ok = t.ok /\ tick'.queue = {} /\ tick'.at = {}
           /\ UNCHANGED <<left, joined, wait, twice>>
  <2>1. /\ memory'.last = IF t.ok THEN tick.upTo ELSE tick.after
        /\ memory'.last \in Nat /\ memory'.last # Unset
    BY <1>0, <1>7, RunnerNumbers DEF Closes
  <2>2. RunnerTypes'
    BY <1>0, <1>1, <1>2, <1>7 DEF RunnerTypes
  <2>3. TickInv'
    BY <1>0, <1>1, <1>2, <1>7, <2>1 DEF TickInv, Working
  <2>4. SentInv'
    BY <1>0, <1>1, <1>2, <1>3, <1>6, <1>7, <2>1 DEF SentInv
  <2>5. HandledTo(tick.after)' /\ HandledTo(memory.last)'
    <3>1. \A r \in Reminders : since < At[r] /\ At[r] <= tick.after => Handled(r)
      BY <1>0, <1>5, RunnerNumbers DEF HandledTo, Due
    <3>2. \A r \in Reminders : since < At[r] /\ At[r] <= memory'.last => Handled(r)
      <4>1. SUFFICES ASSUME NEW r \in Reminders, since < At[r], At[r] <= memory'.last,
                            ~(At[r] <= tick.after)
                     PROVE  told[r] # "no"
        BY <3>1 DEF Handled
      <4>2. t.ok /\ At[r] <= tick.upTo /\ tick.after < At[r]
        BY <1>0, <2>1, <4>1, RunnerNumbers
      <4>3. told[r] # "no" \/ r \in q
        BY <4>2 DEF Due
      <4>4. QED  BY <1>0, <1>7, <4>3 DEF DoneInv
    <3>3. QED  BY <1>0, <1>1, <1>7, <3>1, <3>2 DEF HandledTo, Handled, Due
  <2>6. DoneInv'
    BY <1>0, <1>2, <1>4, <1>5, <1>7, <2>5 DEF DoneInv
  <2>7. TimeInv'
    BY <1>0, <1>2, <1>7, <2>1 DEF TimeInv, Working
  <2>8. QED  BY <1>0, <1>7, <2>2, <2>3, <2>4, <2>6, <2>7 DEF RemindersInv, RunnerShape
<1>8. CASE t.cut /\ memory' = memory /\ EndTick /\ twice' = twice
  <2>1. /\ tick'.pc = "idle" /\ ~tick'.cut
        /\ tick'.ok /\ tick'.queue = {} /\ tick'.at = {}
        /\ left' = Unset /\ joined' = FALSE
        /\ wait' \in {Unset} \cup 0 .. Interval
        /\ wait' # Unset => isStarted' /\ ~joined'
        /\ isStarted' => joined' \/ wait' # Unset
    BY <1>0, <1>8, EndTickIs
  <2>2. mishap'
    BY <1>0, <1>8 DEF TimeInv, RunnerTypes
  <2>3. RunnerTypes'
    BY <1>0, <1>1, <1>2, <1>8, <2>1 DEF RunnerTypes
  <2>4. TickInv'
    BY <1>0, <1>1, <1>2, <1>8, <2>1 DEF TickInv, Working
  <2>5. SentInv'
    BY <1>0, <1>1, <1>3, <1>6, <1>8, <2>1 DEF SentInv, Working
  <2>6. DoneInv'
    <3>1. HandledTo(memory.last)'
      BY <1>0, <1>4, <1>8 DEF DoneInv, HandledTo, Handled, Due, Memories
    <3>2. QED  BY <1>0, <1>2, <1>4, <1>5, <1>8, <2>1, <3>1 DEF DoneInv, Working
  <2>7. TimeInv'
    BY <2>2 DEF TimeInv
  <2>8. QED  BY <1>0, <1>8, <2>3, <2>4, <2>5, <2>6, <2>7 DEF RemindersInv, RunnerShape
<1>9. CASE /\ ~t.cut /\ memory' = memory
           /\ tick'.pc = "notify" /\ tick'.cut = t.cut /\ tick'.after = t.after
           /\ tick'.upTo = t.upTo /\ tick'.ok = t.ok
           /\ tick'.queue \cup tick'.at = q \ memory.sent
           /\ \A r \in tick'.at : told[r] \notin {"told", "safe"} => twice' = twice
           /\ tick'.at # {}
           /\ UNCHANGED <<left, joined, wait>>
  <2>1. /\ tick'.queue \subseteq Due(tick.after, tick.upTo)
        /\ tick'.at \subseteq Due(tick.after, tick.upTo)
        /\ \A r \in tick'.at : r \notin memory.sent
    BY <1>9
  <2>2. twice' = {}
    <3>1. PICK r \in tick'.at : TRUE
      BY <1>9
    <3>2. r \in Reminders /\ tick.after < At[r] /\ r \notin memory.sent
      BY <2>1, <3>1 DEF Due
    <3>3. told[r] \notin {"told", "safe"}
      BY <1>0, <1>6, <3>2, RunnerNumbers
    <3>4. QED  BY <1>0, <1>9, <3>1, <3>3
  <2>3. RunnerTypes'
    BY <1>0, <1>1, <1>2, <1>9, <2>2 DEF RunnerTypes
  <2>4. TickInv'
    BY <1>0, <1>1, <1>2, <1>9, <2>1 DEF TickInv, Working, Due
  <2>5. SentInv'
    BY <1>0, <1>1, <1>3, <1>6, <1>9 DEF SentInv
  <2>6. DoneInv'
    <3>1. HandledTo(memory.last)' /\ HandledTo(tick.after)'
      <4>1. HandledTo(memory.last)'
        BY <1>0, <1>4, <1>9 DEF DoneInv, HandledTo, Handled, Due, Memories
      <4>2. HandledTo(tick.after)'
        BY <1>0, <1>1, <1>5, <1>9 DEF HandledTo, Handled, Due
      <4>3. QED  BY <4>1, <4>2
    <3>2. ASSUME t.ok
          PROVE  \A r \in Due(tick.after, tick.upTo) :
                    told[r] # "no" \/ r \in tick'.queue \/ r \in tick'.at
      BY <1>0, <1>9, <3>2 DEF DoneInv
    <3>3. (Due(tick.after, tick.upTo))' = Due(tick.after, tick.upTo)
      BY <1>9 DEF Due
    <3>4. tick.ok' => \A r \in Due(tick.after, tick.upTo) :
                    told'[r] # "no" \/ r \in tick'.queue \/ r \in tick'.at
      BY <1>1, <1>9, <3>2 DEF Due
    <3>5. QED  BY <1>0, <1>2, <1>4, <1>5, <1>9, <3>1, <3>3, <3>4 DEF DoneInv
  <2>7. TimeInv'
    BY <1>0, <1>2, <1>9 DEF TimeInv, Working
  <2>8. QED  BY <1>0, <2>2, <2>3, <2>4, <2>5, <2>6, <2>7 DEF RemindersInv, RunnerShape
<1>10. QED  BY <1>2, <1>7, <1>8, <1>9

LEMMA ListedKeeps ==
    ASSUME RemindersInv, RemindersAssumption, TasksListed
    PROVE  RemindersInv'
<1>1. /\ tick \in Ticks /\ tick.pc = "list" /\ RunnerTypes /\ TimeInv
      /\ Due(tick.after, tick.upTo) \in SUBSET Reminders
  BY DEF RemindersInv, RunnerShape, RunnerTypes, TasksListed, Due
<1>2. /\ Proceed(tick, memory, Due(tick.after, tick.upTo))
      /\ UNCHANGED <<isStarted, disk, stray, told, since, lapsed, mishap, world>>
  BY DEF TasksListed
<1>3. Wrote
  BY <1>2 DEF Wrote
<1>4. mishap \in BOOLEAN /\ (mishap \/ tick.ok)
  BY <1>1 DEF RunnerTypes, TimeInv
<1>5. QED  BY <1>1, <1>2, <1>3, <1>4, ProceedKeeps

LEMMA RetryKeeps ==
    ASSUME RemindersInv, RemindersAssumption, Retry
    PROVE  RemindersInv'
<1> DEFINE t == [tick EXCEPT !.ok = FALSE]
<1>1. /\ tick \in Ticks /\ tick.pc = "notify"
      /\ tick.queue \subseteq Due(tick.after, tick.upTo) /\ tick.queue \in SUBSET Reminders
  BY DEF RemindersInv, RunnerShape, RunnerTypes, TickInv, Retry, Ticks
<1>2. /\ Proceed(t, memory, tick.queue) /\ mishap' = TRUE
      /\ UNCHANGED <<isStarted, disk, stray, told, since, lapsed, world>>
  BY DEF Retry
<1>3. /\ t \in Ticks /\ t.cut = tick.cut /\ t.after = tick.after /\ t.upTo = tick.upTo
      /\ t.ok = FALSE
  BY <1>1 DEF Ticks
<1>4. Wrote
  BY <1>2 DEF Wrote
<1> HIDE DEF t
<1>5. QED  BY <1>1, <1>2, <1>3, <1>4, ProceedKeeps

LEMMA SaveKeeps ==
    ASSUME RemindersInv, RemindersAssumption, SaveEnds
    PROVE  RemindersInv'
<1>1. /\ tick \in Ticks /\ tick.pc = "save" /\ RunnerTypes /\ TimeInv /\ DoneInv
      /\ tick.queue \subseteq Due(tick.after, tick.upTo) /\ tick.queue \in SUBSET Reminders
  BY DEF RemindersInv, RunnerShape, RunnerTypes, TickInv, SaveEnds, Ticks
<1>2. /\ Proceed(tick, memory, tick.queue)
      /\ UNCHANGED <<isStarted, stray, since, lapsed, mishap, world>>
  BY DEF SaveEnds
<1>3. Wrote
  BY DEF SaveEnds, Wrote
<1>4. mishap \in BOOLEAN /\ (mishap \/ tick.ok)
  BY <1>1 DEF RunnerTypes, TimeInv
<1>5. tick.ok => \A r \in Due(tick.after, tick.upTo) : told[r] # "no" \/ r \in tick.queue
  BY <1>1 DEF DoneInv
<1>6. QED  BY <1>1, <1>2, <1>3, <1>4, <1>5, ProceedKeeps

(* A tick ends: by a failed call, its last write, or its deadline.         *)
LEMMA EndKeeps ==
    ASSUME RemindersInv, RemindersAssumption, tick.pc # "idle", EndTick, Wrote,
           tick.pc \in Working \/ (disk' = disk /\ told' = told),
           stray' \subseteq Stores, ~memory.loaded => stray' = {},
           \A s \in stray' : HandledTo(s.last) /\ \A r \in s.sent : told[r] # "no",
           mishap' \in BOOLEAN, mishap => mishap', mishap' \/ tick.pc = "close",
           UNCHANGED <<isStarted, memory, twice, since, lapsed, world>>
    PROVE  RemindersInv'
<1>0. /\ RunnerTypes /\ TickInv /\ SentInv /\ DoneInv /\ TimeInv /\ twice = {} /\ RunnerShape
      /\ UNCHANGED <<isStarted, memory, twice, since, lapsed, now, crashes, back>>
      /\ memory \in Memories /\ tick \in Ticks /\ disk \in Stores /\ stray \subseteq Stores
  BY DEF RemindersInv, RunnerShape, RunnerTypes, world
<1>1. /\ disk' \in Stores /\ told' \in [Reminders -> {"no", "told", "safe", "lost"}]
      /\ \A r \in Reminders : /\ told'[r] \in {"told", "safe"} <=> told[r] \in {"told", "safe"}
                              /\ told'[r] = "no" <=> told[r] = "no"
      /\ \A r \in Reminders : told'[r] = "safe" =>
            \/ r \in disk'.sent
            \/ Behind(r) /\ disk'.last # Unset /\ At[r] <= disk'.last
      /\ \A r \in disk'.sent : told[r] # "no"
      /\ HandledTo(disk'.last)
  <2>1. CASE tick.pc \in Working
    BY <1>0, <2>1, WroteIs
  <2>2. CASE disk' = disk /\ told' = told
    BY <1>0, <2>2 DEF RunnerTypes, SentInv, DoneInv
  <2>3. QED  BY <2>1, <2>2
<1>2. /\ tick' \in Ticks /\ tick'.pc = "idle" /\ ~tick'.cut
      /\ tick'.ok /\ tick'.queue = {} /\ tick'.at = {}
      /\ left' = Unset /\ joined' = FALSE
      /\ wait' \in {Unset} \cup 0 .. Interval
      /\ wait' # Unset => isStarted' /\ ~joined'
      /\ isStarted' => joined' \/ wait' # Unset
  BY <1>0, EndTickIs
<1>3. \A r \in Reminders : Behind(r)' <=> Behind(r)
  BY <1>0, BehindStays
<1>4. RunnerTypes'
  BY <1>0, <1>1, <1>2 DEF RunnerTypes
<1>5. TickInv'
  <2>1. ~memory.loaded => stray' = {} /\ \A r \in Reminders : told'[r] # "told"
    <3>1. CASE tick.pc \in Working
      BY <1>0, <3>1 DEF TickInv
    <3>2. CASE disk' = disk /\ told' = told
      BY <1>0, <3>2 DEF TickInv
    <3>3. QED  BY <3>1, <3>2
  <2>2. QED  BY <1>0, <1>2, <2>1 DEF TickInv, Working
<1>6. SentInv'
  BY <1>0, <1>1, <1>2, <1>3 DEF SentInv, Working
<1>7. DoneInv'
  <2>1. \A last \in Lasts : HandledTo(last) => HandledTo(last)'
    BY <1>0, <1>1, HandledStays
  <2>2. memory.loaded => HandledTo(memory.last)'
    BY <1>0, <2>1 DEF DoneInv, Memories, HandledTo, Handled, Due
  <2>3. HandledTo(disk.last)'
    BY <1>0, <1>1 DEF HandledTo, Handled, Due
  <2>4. \A s \in stray' : s \in Stores /\ HandledTo(s.last) /\ \A r \in s.sent : told[r] # "no"
    OBVIOUS
  <2>5. (\A s \in stray : HandledTo(s.last))'
    BY <1>0, <1>1, <2>4 DEF HandledTo, Handled, Due
  <2>6. /\ \A r \in memory.sent : told'[r] # "no"
        /\ \A r \in disk'.sent : told'[r] # "no"
        /\ \A s \in stray' : \A r \in s.sent : told'[r] # "no"
    BY <1>0, <1>1, <2>4 DEF DoneInv, Memories, Stores
  <2>7. QED  BY <1>0, <1>2, <2>2, <2>3, <2>5, <2>6 DEF DoneInv, Working
<1>8. TimeInv'
  <2>1. SUFFICES ASSUME ~mishap'
                 PROVE  now + (IF wait' = Unset THEN Interval ELSE wait')
                           <= memory.last + TickTimeout + Interval
    <3>1. ASSUME ~mishap'  PROVE memory.loaded /\ lapsed = {} /\ ~mishap
      BY <1>0, <3>1 DEF TimeInv, RunnerTypes, TickInv, Working
    <3>2. QED  BY <1>0, <1>2, <2>1, <3>1 DEF TimeInv, Working
  <2>2. /\ ~mishap /\ tick.pc = "close" /\ memory.last = tick.upTo
        /\ now + left <= tick.upTo + TickTimeout /\ left # Unset
    BY <1>0, <2>1 DEF TimeInv, TickInv, Working, RunnerTypes
  <2>3. left \in Nat /\ tick.upTo \in Nat /\ now \in Nat
    BY <1>0, <2>2, RunnerNumbers DEF RunnerTypes, Ticks
  <2>4. (IF wait' = Unset THEN Interval ELSE wait') \in 0 .. Interval
    BY <1>2, RunnerNumbers
  <2> DEFINE w == IF wait' = Unset THEN Interval ELSE wait'
  <2>5. w \in 0 .. Interval
    BY <2>4
  <2> HIDE DEF w
  <2>6. now + w <= memory.last + TickTimeout + Interval
    BY <2>2, <2>3, <2>5, RunnerNumbers
  <2>7. QED  BY <2>6 DEF w
<1>9. QED  BY <1>0, <1>4, <1>5, <1>6, <1>7, <1>8 DEF RemindersInv, RunnerShape

LEMMA CloseKeeps ==
    ASSUME RemindersInv, RemindersAssumption, CloseEnds
    PROVE  RemindersInv'
<1>1. /\ tick.pc = "close" /\ EndTick /\ Wrote
      /\ UNCHANGED <<isStarted, memory, stray, twice, since, lapsed, mishap, world>>
  BY DEF CloseEnds, Wrote
<1>2. /\ stray \subseteq Stores /\ mishap \in BOOLEAN /\ (~memory.loaded => stray = {})
      /\ \A s \in stray : HandledTo(s.last) /\ \A r \in s.sent : told[r] # "no"
  BY DEF RemindersInv, RunnerShape, RunnerTypes, TickInv, DoneInv
<1>3. QED  BY <1>1, <1>2, EndKeeps DEF Working

LEMMA FailKeeps ==
    ASSUME RemindersInv, RemindersAssumption, CallFails
    PROVE  RemindersInv'
<1>1. /\ tick.pc # "idle" /\ EndTick /\ Wrote /\ disk' = disk /\ told' = told /\ stray' = stray
      /\ mishap' = TRUE /\ UNCHANGED <<isStarted, memory, twice, since, lapsed, world>>
  BY DEF CallFails, Wrote, history
<1>2. /\ stray \subseteq Stores /\ mishap \in BOOLEAN /\ (~memory.loaded => stray = {})
      /\ \A s \in stray : HandledTo(s.last) /\ \A r \in s.sent : told[r] # "no"
  BY DEF RemindersInv, RunnerShape, RunnerTypes, TickInv, DoneInv
<1>3. QED  BY <1>1, <1>2, EndKeeps

(* The write that the deadline gives up on may land later.                 *)
LEMMA DeadlineKeeps ==
    ASSUME RemindersInv, RemindersAssumption, Deadline
    PROVE  RemindersInv'
<1>1. /\ tick.pc # "idle" /\ EndTick /\ Wrote /\ disk' = disk /\ told' = told
      /\ stray' = IF tick.pc \in {"save", "close"} THEN stray \union {Stored} ELSE stray
      /\ mishap' = TRUE /\ UNCHANGED <<isStarted, memory, twice, since, lapsed, world>>
  BY DEF Deadline, Wrote, history
<1>2. /\ stray \subseteq Stores /\ mishap \in BOOLEAN /\ (~memory.loaded => stray = {})
      /\ \A s \in stray : HandledTo(s.last) /\ \A r \in s.sent : told[r] # "no"
      /\ memory \in Memories /\ tick \in Ticks
  BY DEF RemindersInv, RunnerShape, RunnerTypes, TickInv, DoneInv
<1>3. tick.pc \in {"save", "close"} =>
         /\ Stored \in Stores /\ memory.loaded
         /\ HandledTo(Stored.last) /\ \A r \in Stored.sent : told[r] # "no"
  BY <1>2 DEF RemindersInv, RunnerShape, TickInv, DoneInv, Working, Stored, Stores, Memories,
              Ticks, Lasts
<1>4. /\ stray' \subseteq Stores /\ (~memory.loaded => stray' = {})
      /\ \A s \in stray' : HandledTo(s.last) /\ \A r \in s.sent : told[r] # "no"
  BY <1>1, <1>2, <1>3
<1>5. QED  BY <1>1, <1>2, <1>4, EndKeeps

(* A delivered reminder is recorded in memory at once.                     *)
LEMMA DeliveredKeeps ==
    ASSUME RemindersInv, RemindersAssumption, Delivered
    PROVE  RemindersInv'
<1>0. /\ RunnerTypes /\ TickInv /\ SentInv /\ DoneInv /\ TimeInv /\ twice = {}
      /\ tick.pc = "notify"
      /\ memory' = [memory EXCEPT !.sent = @ \union tick.at]
      /\ told' = [r \in Reminders |-> IF r \in tick.at THEN "told" ELSE told[r]]
      /\ tick' = [tick EXCEPT !.pc = "save"]
      /\ UNCHANGED <<isStarted, wait, left, joined, disk, stray, twice, since, lapsed, mishap,
                     now, crashes, back>>
      /\ memory \in Memories /\ tick \in Ticks /\ disk \in Stores /\ stray \subseteq Stores
      /\ told \in [Reminders -> {"no", "told", "safe", "lost"}] /\ memory.loaded
  BY DEF RemindersInv, RunnerShape, RunnerTypes, TickInv, Delivered, world, Working
<1>1. /\ memory' \in Memories /\ memory'.loaded = memory.loaded /\ memory'.last = memory.last
      /\ memory'.sent = memory.sent \cup tick.at
  BY <1>0 DEF Memories, Ticks
<1>2. /\ tick' \in Ticks /\ tick'.pc = "save" /\ tick'.cut = tick.cut
      /\ tick'.after = tick.after /\ tick'.upTo = tick.upTo /\ tick'.queue = tick.queue
      /\ tick'.ok = tick.ok /\ tick'.at = tick.at
  BY <1>0 DEF Ticks, Pcs
<1>3. /\ told' \in [Reminders -> {"no", "told", "safe", "lost"}]
      /\ \A r \in Reminders : told'[r] = IF r \in tick.at THEN "told" ELSE told[r]
      /\ \A r \in Reminders : told[r] # "no" => told'[r] # "no"
  BY <1>0
<1>4. \A r \in Reminders : Behind(r)' <=> Behind(r)
  BY <1>0, BehindStays
<1>5. RunnerTypes'
  BY <1>0, <1>1, <1>2, <1>3 DEF RunnerTypes
<1>6. TickInv'
  BY <1>0, <1>1, <1>2, <1>3 DEF TickInv, Working, Due
<1>7. SentInv'
  <2>1. \A r \in Reminders : told'[r] \in {"told", "safe"} =>
           \/ r \in memory'.sent
           \/ Behind(r) /\ At[r] <= memory.last /\ At[r] <= tick.after /\ At[r] <= tick.upTo
    BY <1>0, <1>1, <1>3 DEF SentInv, Working
  <2>2. \A r \in Reminders : told'[r] = "safe" =>
           r \in disk.sent \/ (Behind(r) /\ disk.last # Unset /\ At[r] <= disk.last)
    BY <1>0, <1>3 DEF SentInv
  <2>3. QED  BY <1>0, <1>1, <1>2, <1>4, <2>1, <2>2 DEF SentInv
<1>8. DoneInv'
  <2>1. \A last \in Lasts : HandledTo(last) => HandledTo(last)'
    BY <1>0, <1>3 DEF HandledTo, Handled, Due
  <2>2. /\ HandledTo(memory.last)'
        /\ HandledTo(disk.last)'
        /\ (\A s \in stray : HandledTo(s.last))'
        /\ HandledTo(tick.after)'
    <3>1. HandledTo(memory.last)'
      BY <1>0, <1>1, <1>3 DEF DoneInv, HandledTo, Handled, Due
    <3>2. HandledTo(disk.last)'
      BY <1>0, <1>3 DEF DoneInv, HandledTo, Handled, Due
    <3>3. (\A s \in stray : HandledTo(s.last))'
      BY <1>0, <1>3 DEF DoneInv, HandledTo, Handled, Due
    <3>4. HandledTo(tick.after)'
      BY <1>0, <1>2, <1>3 DEF DoneInv, HandledTo, Handled, Due, Working
    <3>5. QED  BY <3>1, <3>2, <3>3, <3>4
  <2>3. /\ \A r \in memory'.sent : told'[r] # "no"
        /\ \A r \in disk.sent : told'[r] # "no"
        /\ \A s \in stray : \A r \in s.sent : told'[r] # "no"
    BY <1>0, <1>1, <1>3 DEF DoneInv, Memories, Stores, Ticks
  <2>4. tick.ok => \A r \in Due(tick.after, tick.upTo) : told'[r] # "no" \/ r \in tick.queue
    BY <1>0, <1>3 DEF DoneInv, Due
  <2>5. (Due(tick.after, tick.upTo))' = Due(tick.after, tick.upTo)
    BY <1>2 DEF Due
  <2>6. QED  BY <1>0, <1>2, <2>2, <2>3, <2>4, <2>5 DEF DoneInv
<1>9. TimeInv'
  BY <1>0, <1>1, <1>2 DEF TimeInv, Working
<1>10. QED  BY <1>0, <1>5, <1>6, <1>7, <1>8, <1>9 DEF RemindersInv, RunnerShape

----------------------------------------------------------------------------
(* The application, time and crashes.                                      *)

LEMMA StopKeeps ==
    ASSUME RemindersInv, RemindersAssumption, Stop
    PROVE  RemindersInv'
<1>0. /\ RunnerTypes /\ TickInv /\ SentInv /\ DoneInv /\ TimeInv /\ twice = {}
      /\ isStarted' = FALSE /\ mishap' = TRUE /\ wait' = Unset
      /\ UNCHANGED <<memory, disk, stray, told, twice, since, lapsed, now, crashes, back>>
      /\ tick \in Ticks /\ memory \in Memories
      /\ left \in {Unset} \cup 0 .. TickTimeout
  BY DEF RemindersInv, RunnerShape, RunnerTypes, Stop, world, history
<1>1. /\ \A r \in Reminders : Behind(r)' <=> Behind(r)
      /\ \A last \in Lasts : HandledTo(last)' <=> HandledTo(last)
  BY <1>0, BehindStays DEF HandledTo, Handled, Due
<1>2. /\ tick' \in Ticks /\ left' \in {Unset} \cup 0 .. TickTimeout /\ joined' \in BOOLEAN
      /\ tick'.pc = "idle" <=> left' = Unset
      /\ tick'.cut => tick'.pc \notin {"idle", "list", "notify"}
      /\ joined' => tick'.pc # "idle"
      /\ \/ tick'.pc = "idle" /\ tick'.queue = {} /\ tick'.at = {}
         \/ /\ tick'.pc = tick.pc /\ tick'.after = tick.after /\ tick'.upTo = tick.upTo
            /\ tick'.queue = tick.queue /\ tick'.at = tick.at /\ tick'.ok = tick.ok
  <2>1. CASE Cuts /\ tick' = IdleTick /\ left' = Unset /\ joined' = FALSE
    BY <2>1 DEF IdleTick, Ticks, Pcs
  <2>2. CASE /\ ~Cuts /\ UNCHANGED <<left, joined>>
             /\ tick' = IF tick.pc = "idle" THEN tick ELSE [tick EXCEPT !.cut = TRUE]
    <3>1. CASE tick.pc = "idle"
      BY <1>0, <2>2, <3>1 DEF RunnerTypes, TickInv
    <3>2. CASE tick.pc # "idle"
      <4>1. /\ tick' \in Ticks /\ tick'.cut
            /\ tick'.pc = tick.pc /\ tick'.after = tick.after /\ tick'.upTo = tick.upTo
            /\ tick'.queue = tick.queue /\ tick'.at = tick.at /\ tick'.ok = tick.ok
        BY <1>0, <2>2, <3>2 DEF Ticks
      <4>2. QED  BY <1>0, <2>2, <3>2, <4>1 DEF RunnerTypes, TickInv, Cuts
    <3>3. QED  BY <3>1, <3>2
  <2>3. QED  BY <2>1, <2>2 DEF Stop
<1>3. RunnerTypes'
  BY <1>0, <1>2 DEF RunnerTypes
<1>4. TickInv'
  BY <1>0, <1>2 DEF TickInv, Working, Due
<1>5. SentInv'
  BY <1>0, <1>1, <1>2 DEF SentInv, Working
<1>6. DoneInv'
  <2>1. /\ memory.loaded => HandledTo(memory.last)'
        /\ HandledTo(disk.last)'
        /\ (\A s \in stray : HandledTo(s.last))'
    BY <1>0 DEF DoneInv, HandledTo, Handled, Due
  <2>2. tick'.pc \in Working => HandledTo(tick.after)'
    BY <1>0, <1>2 DEF DoneInv, HandledTo, Handled, Due, Working
  <2>3. /\ tick'.pc = "notify" /\ tick'.ok =>
              \A r \in Due(tick'.after, tick'.upTo) :
                 told[r] # "no" \/ r \in tick'.queue \/ r \in tick'.at
        /\ tick'.pc = "save" /\ tick'.ok =>
              \A r \in Due(tick'.after, tick'.upTo) : told[r] # "no" \/ r \in tick'.queue
    BY <1>0, <1>2 DEF DoneInv
  <2>4. (Due(tick.after, tick.upTo))' = Due(tick'.after, tick'.upTo)
    BY DEF Due
  <2>5. QED  BY <1>0, <2>1, <2>2, <2>3, <2>4 DEF DoneInv
<1>7. TimeInv'
  BY <1>0 DEF TimeInv
<1>8. QED  BY <1>0, <1>3, <1>4, <1>5, <1>6, <1>7 DEF RemindersInv, RunnerShape

(* Time passes: a timer and the clock move together, except backwards.     *)
LEMMA AdvanceKeeps ==
    ASSUME RemindersInv, RemindersAssumption, Advance
    PROVE  RemindersInv'
<1>0. /\ RunnerTypes /\ TickInv /\ SentInv /\ DoneInv /\ TimeInv /\ twice = {}
      /\ now < MaxTime /\ wait # 0 /\ left # 0 /\ now' = now + 1
      /\ wait' = Later(wait) /\ left' = Later(left)
      /\ mishap' = (mishap \/ (~isStarted /\ tick.pc = "idle"))
      /\ UNCHANGED <<isStarted, joined, tick, memory, disk, stray, told, twice, since, lapsed,
                     crashes, back>>
      /\ now \in Nat /\ back \in Nat
  BY DEF RemindersInv, RunnerShape, RunnerTypes, Advance, history
<1>1. /\ wait = Unset <=> wait' = Unset
      /\ wait # Unset => wait' = wait - 1 /\ wait \in Nat /\ wait' \in 0 .. Interval
      /\ left = Unset <=> left' = Unset
      /\ left # Unset => left' = left - 1 /\ left \in Nat /\ left' \in 0 .. TickTimeout
  BY <1>0, RunnerNumbers DEF RunnerTypes, Later
<1>2. \A r \in Reminders : Behind(r) => Behind(r)'
  BY <1>0, RunnerNumbers DEF Behind
<1>3. RunnerTypes'
  BY <1>0, <1>1, RunnerNumbers DEF RunnerTypes
<1>4. TickInv'
  BY <1>0, <1>1 DEF TickInv, Working, Due
<1>5. SentInv'
  BY <1>0, <1>2 DEF SentInv
<1>6. DoneInv'
  BY <1>0 DEF DoneInv, HandledTo, Handled, Due
<1>7. TimeInv'
  <2>1. SUFFICES ASSUME ~mishap'  PROVE TimeInv'
    BY DEF TimeInv
  <2>2. ~mishap /\ (isStarted \/ tick.pc # "idle")
    BY <1>0, <2>1 DEF RunnerTypes
  <2>3. ASSUME tick.pc = "idle", memory.loaded
        PROVE  now' + (IF wait' = Unset THEN Interval ELSE wait')
                  <= memory.last + TickTimeout + Interval
    <3>1. wait # Unset
      BY <1>0, <2>2, <2>3 DEF TickInv
    <3>2. now + wait <= memory.last + TickTimeout + Interval /\ wait \in Nat
      BY <1>0, <1>1, <2>2, <2>3, <3>1 DEF TimeInv
    <3>3. memory.last \in Nat
      BY <1>0, <2>3 DEF TickInv, RunnerTypes, Memories, Lasts
    <3>4. now' + wait' = now + wait
      BY <1>0, <1>1, <3>1, <3>2
    <3>5. QED  BY <1>1, <3>1, <3>2, <3>3, <3>4
  <2>4. ASSUME tick.pc \in Working
        PROVE  now' + left' <= tick.upTo + TickTimeout
    <3>1. left # Unset /\ now + left <= tick.upTo + TickTimeout
      BY <1>0, <2>2, <2>4 DEF TickInv, TimeInv, Working
    <3>2. now' + left' = now + left
      BY <1>0, <1>1, <3>1
    <3>3. QED  BY <3>1, <3>2
  <2>5. QED  BY <1>0, <2>2, <2>3, <2>4 DEF TimeInv
<1>8. QED  BY <1>0, <1>3, <1>4, <1>5, <1>6, <1>7 DEF RemindersInv, RunnerShape

LEMMA StepBackKeeps ==
    ASSUME RemindersInv, RemindersAssumption, StepBack
    PROVE  RemindersInv'
<1>0. /\ RunnerTypes /\ TickInv /\ SentInv /\ DoneInv /\ TimeInv /\ twice = {}
      /\ back < MaxBack /\ now > 0 /\ now' = now - 1 /\ back' = back + 1
      /\ UNCHANGED <<isStarted, wait, left, joined, tick, memory, disk, stray, told, twice,
                     since, lapsed, mishap, crashes>>
      /\ now \in Nat /\ back \in Nat /\ now <= MaxTime
  BY DEF RemindersInv, RunnerShape, RunnerTypes, StepBack, history
<1>1. \A r \in Reminders : Behind(r) => Behind(r)'
  BY <1>0, RunnerNumbers DEF Behind
<1>2. now' \in Nat /\ now' <= MaxTime /\ back' \in Nat /\ back' <= MaxBack
  BY <1>0, RunnerNumbers
<1>3. RunnerTypes'
  BY <1>0, <1>2 DEF RunnerTypes
<1>4. TickInv'
  BY <1>0 DEF TickInv, Working, Due
<1>5. SentInv'
  BY <1>0, <1>1 DEF SentInv
<1>6. DoneInv'
  BY <1>0 DEF DoneInv, HandledTo, Handled, Due
<1>7. TimeInv'
  <2>1. ASSUME ~mishap, tick.pc = "idle", memory.loaded
        PROVE  now' + (IF wait = Unset THEN Interval ELSE wait)
                  <= memory.last + TickTimeout + Interval
    <3>1. now + (IF wait = Unset THEN Interval ELSE wait) <= memory.last + TickTimeout + Interval
      BY <1>0, <2>1 DEF TimeInv
    <3>2. (IF wait = Unset THEN Interval ELSE wait) \in Nat
      BY <1>0, RunnerNumbers DEF RunnerTypes
    <3>3. memory.last \in Nat
      BY <1>0, <2>1 DEF TickInv, RunnerTypes, Memories, Lasts
    <3> DEFINE w == IF wait = Unset THEN Interval ELSE wait
    <3>4. w \in Nat /\ now + w <= memory.last + TickTimeout + Interval
      BY <3>1, <3>2
    <3> HIDE DEF w
    <3>5. now' + w <= memory.last + TickTimeout + Interval
      BY <1>0, <3>3, <3>4, RunnerNumbers
    <3>6. QED  BY <3>5 DEF w
  <2>2. ASSUME ~mishap, tick.pc \in Working
        PROVE  now' + left <= tick.upTo + TickTimeout
    <3>1. now + left <= tick.upTo + TickTimeout /\ left # Unset
      BY <1>0, <2>2 DEF TimeInv, TickInv, Working
    <3>2. left \in Nat /\ tick.upTo \in Nat
      BY <1>0, <3>1, RunnerNumbers DEF RunnerTypes, Ticks
    <3>3. QED  BY <1>0, <3>1, <3>2, RunnerNumbers
  <2>3. QED  BY <1>0, <2>1, <2>2 DEF TimeInv
<1>8. QED  BY <1>0, <1>3, <1>4, <1>5, <1>6, <1>7 DEF RemindersInv, RunnerShape

(* A late write replaces what is stored: what it does not record is no     *)
(* longer safe, but the process that wrote it still remembers.             *)
LEMMA StrayKeeps ==
    ASSUME RemindersInv, RemindersAssumption, StrayLands
    PROVE  RemindersInv'
<1>0. /\ RunnerTypes /\ TickInv /\ SentInv /\ DoneInv /\ TimeInv /\ twice = {}
      /\ UNCHANGED <<isStarted, wait, left, joined, tick, memory, twice, since, lapsed, mishap,
                     now, crashes, back>>
      /\ told \in [Reminders -> {"no", "told", "safe", "lost"}] /\ stray \subseteq Stores
      /\ memory \in Memories /\ tick \in Ticks
  BY DEF RemindersInv, RunnerShape, RunnerTypes, StrayLands, world
<1>1. PICK s \in stray :
          /\ disk' = s /\ stray' = stray \ {s}
          /\ told' = [r \in Reminders |->
                         IF told[r] = "safe" /\ r \notin s.sent THEN "told" ELSE told[r]]
  BY DEF StrayLands
<1>2. memory.loaded
  BY <1>0, <1>1 DEF TickInv
<1>3. /\ told' \in [Reminders -> {"no", "told", "safe", "lost"}]
      /\ \A r \in Reminders : /\ told'[r] \in {"told", "safe"} <=> told[r] \in {"told", "safe"}
                              /\ told'[r] = "no" <=> told[r] = "no"
                              /\ told'[r] = "safe" => r \in s.sent
      /\ s \in Stores
  BY <1>0, <1>1
<1>4. \A r \in Reminders : Behind(r)' <=> Behind(r)
  BY <1>0, BehindStays
<1>5. RunnerTypes'
  BY <1>0, <1>1, <1>3 DEF RunnerTypes
<1>6. TickInv'
  BY <1>0, <1>1, <1>2 DEF TickInv, Working, Due
<1>7. SentInv'
  BY <1>0, <1>1, <1>3, <1>4 DEF SentInv
<1>8. DoneInv'
  <2>1. /\ HandledTo(memory.last)'
        /\ tick.pc \in Working => HandledTo(tick.after)'
        /\ HandledTo(s.last) /\ \A x \in stray' : HandledTo(x.last)
    BY <1>0, <1>1, <1>2, <1>3 DEF DoneInv, HandledTo, Handled, Due
  <2>2. /\ HandledTo(disk.last)'
        /\ (\A x \in stray : HandledTo(x.last))'
    BY <1>0, <1>1, <1>3, <2>1 DEF HandledTo, Handled, Due
  <2>3. /\ \A r \in memory.sent : told'[r] # "no"
        /\ \A r \in disk'.sent : told'[r] # "no"
        /\ \A x \in stray' : \A r \in x.sent : told'[r] # "no"
    BY <1>0, <1>1, <1>3 DEF DoneInv, Memories, Stores
  <2>4. /\ tick.pc = "notify" /\ tick.ok =>
              \A r \in Due(tick.after, tick.upTo) :
                 told'[r] # "no" \/ r \in tick.queue \/ r \in tick.at
        /\ tick.pc = "save" /\ tick.ok =>
              \A r \in Due(tick.after, tick.upTo) : told'[r] # "no" \/ r \in tick.queue
    BY <1>0, <1>3 DEF DoneInv, Due
  <2>5. (Due(tick.after, tick.upTo))' = Due(tick.after, tick.upTo)
    BY <1>0 DEF Due
  <2>6. QED  BY <1>0, <1>2, <2>1, <2>2, <2>3, <2>4, <2>5 DEF DoneInv
<1>9. TimeInv'
  BY <1>0, <1>2 DEF TimeInv
<1>10. QED  BY <1>0, <1>5, <1>6, <1>7, <1>8, <1>9 DEF RemindersInv, RunnerShape

LEMMA CrashKeeps ==
    ASSUME RemindersInv, RemindersAssumption, Crash
    PROVE  RemindersInv'
<1>0. /\ RunnerTypes /\ TickInv /\ SentInv /\ DoneInv /\ twice = {}
      /\ isStarted' = FALSE /\ wait' = Unset /\ left' = Unset /\ joined' = FALSE
      /\ tick' = IdleTick /\ memory' = NotLoaded /\ stray' = {} /\ mishap' = TRUE
      /\ told' = [r \in Reminders |-> IF told[r] = "told" THEN "lost" ELSE told[r]]
      /\ UNCHANGED <<disk, twice, since, lapsed, now, back>>
      /\ told \in [Reminders -> {"no", "told", "safe", "lost"}] /\ disk \in Stores
  BY DEF RemindersInv, RunnerShape, RunnerTypes, Crash
<1>1. /\ tick' \in Ticks /\ tick'.pc = "idle" /\ ~tick'.cut /\ tick'.queue = {} /\ tick'.at = {}
      /\ memory' \in Memories /\ ~memory'.loaded /\ memory'.sent = {}
  BY <1>0 DEF IdleTick, Ticks, Pcs, NotLoaded, Memories, Lasts
<1>2. /\ told' \in [Reminders -> {"no", "told", "safe", "lost"}]
      /\ \A r \in Reminders : /\ told'[r] # "told"
                              /\ told'[r] = "no" <=> told[r] = "no"
                              /\ told'[r] = "safe" => told[r] = "safe"
  BY <1>0
<1>3. \A r \in Reminders : Behind(r)' <=> Behind(r)
  BY <1>0, BehindStays
<1>4. RunnerTypes'
  BY <1>0, <1>1, <1>2 DEF RunnerTypes
<1>5. TickInv'
  BY <1>0, <1>1, <1>2 DEF TickInv, Working
<1>6. SentInv'
  BY <1>0, <1>1, <1>2, <1>3 DEF SentInv
<1>7. DoneInv'
  <2>1. HandledTo(disk.last)'
    BY <1>0, <1>2 DEF DoneInv, HandledTo, Handled, Due
  <2>2. \A r \in disk.sent : told'[r] # "no"
    BY <1>0, <1>2 DEF DoneInv, Stores
  <2>3. QED  BY <1>0, <1>1, <2>1, <2>2 DEF DoneInv, Working
<1>8. TimeInv'
  BY <1>0 DEF TimeInv
<1>9. QED  BY <1>0, <1>4, <1>5, <1>6, <1>7, <1>8 DEF RemindersInv, RunnerShape

----------------------------------------------------------------------------

LEMMA RemindersInitially ==
    ASSUME RemindersAssumption, Init
    PROVE  RemindersInv
<1>1. /\ IdleTick \in Ticks /\ IdleTick.pc = "idle" /\ ~IdleTick.cut /\ IdleTick.ok
      /\ IdleTick.queue = {} /\ IdleTick.at = {}
  BY DEF IdleTick, Ticks, Pcs
<1>2. /\ NotLoaded \in Memories /\ ~NotLoaded.loaded /\ NotLoaded.sent = {}
      /\ disk \in Stores /\ disk.last = Unset /\ disk.sent = {}
  BY DEF NotLoaded, Memories, Stores, Lasts, Init
<1>3. RunnerTypes
  <2>1. /\ now = 0 /\ back = 0 /\ isStarted = FALSE /\ joined = FALSE /\ mishap = FALSE
        /\ wait = Unset /\ left = Unset /\ tick = IdleTick /\ memory = NotLoaded /\ stray = {}
        /\ twice = {} /\ lapsed = {} /\ since = Unset
        /\ told = [r \in Reminders |-> "no"]
    BY DEF Init
  <2>2. told \in [Reminders -> {"no", "told", "safe", "lost"}]
    BY <2>1
  <2>3. 0 <= MaxTime /\ 0 <= MaxBack
    BY RunnerNumbers
  <2>4. QED  BY <1>1, <1>2, <2>1, <2>2, <2>3 DEF RunnerTypes, Lasts
<1>4. TickInv
  BY <1>1, <1>2 DEF Init, TickInv, Working
<1>5. SentInv /\ DoneInv
  BY <1>1, <1>2 DEF Init, SentInv, DoneInv, Working, HandledTo
<1>6. TimeInv
  BY <1>1, <1>2 DEF Init, TimeInv, Working
<1>7. QED  BY <1>3, <1>4, <1>5, <1>6 DEF RemindersInv, RunnerShape, Init

LEMMA RemindersStep ==
    ASSUME RemindersInv, RemindersAssumption, [Next]_vars
    PROVE  RemindersInv'
<1>1. CASE Loaded       BY <1>1, LoadedKeeps
<1>2. CASE TasksListed  BY <1>2, ListedKeeps
<1>3. CASE CallFails    BY <1>3, FailKeeps
<1>4. CASE Delivered    BY <1>4, DeliveredKeeps
<1>5. CASE Retry        BY <1>5, RetryKeeps
<1>6. CASE SaveEnds     BY <1>6, SaveKeeps
<1>7. CASE CloseEnds    BY <1>7, CloseKeeps
<1>8. CASE Deadline     BY <1>8, DeadlineKeeps
<1>9. CASE Start
  <2>1. isStarted' \in BOOLEAN /\ Loop /\ UNCHANGED <<disk, stray, told, twice, mishap, world>>
    BY <1>9 DEF Start
  <2>2. QED  BY <2>1, LoopKeeps
<1>10. CASE TickNow
  <2>1. /\ tick.pc = "idle" /\ Begin
        /\ UNCHANGED <<isStarted, wait, joined, disk, stray, told, twice, mishap, world>>
    BY <1>10 DEF TickNow
  <2>2. /\ isStarted \in BOOLEAN /\ joined \in BOOLEAN /\ wait \in {Unset} \cup 0 .. Interval
        /\ (wait # Unset => isStarted /\ ~joined) /\ (isStarted => joined \/ wait # Unset)
    BY DEF RemindersInv, RunnerShape, RunnerTypes, TickInv
  <2>3. QED  BY <2>1, <2>2, BeginKeeps
<1>11. CASE TimerFires
  <2>1. /\ isStarted' \in BOOLEAN /\ Loop
        /\ UNCHANGED <<disk, stray, told, twice, mishap, world>>
    BY <1>11 DEF TimerFires, RemindersInv, RunnerShape, RunnerTypes
  <2>2. QED  BY <2>1, LoopKeeps
<1>12. CASE Stop        BY <1>12, StopKeeps
<1>13. CASE Advance     BY <1>13, AdvanceKeeps
<1>14. CASE StepBack    BY <1>14, StepBackKeeps
<1>15. CASE StrayLands  BY <1>15, StrayKeeps
<1>16. CASE Crash       BY <1>16, CrashKeeps
<1>17. CASE UNCHANGED vars
  BY <1>17 DEF vars, RemindersInv, RunnerShape, RunnerTypes, TickInv, SentInv, DoneInv, TimeInv,
               Working, Behind, HandledTo, Handled, Due
<1>18. QED
  BY <1>1, <1>2, <1>3, <1>4, <1>5, <1>6, <1>7, <1>8, <1>9, <1>10, <1>11, <1>12, <1>13, <1>14,
     <1>15, <1>16, <1>17 DEF Next

LEMMA RemindersAlways ==
    ASSUME RemindersAssumption
    PROVE  Spec => []RemindersInv
<1>1. Init => RemindersInv
  BY RemindersInitially
<1>2. RemindersInv /\ [Next]_vars => RemindersInv'
  BY RemindersStep
<1>3. QED  BY <1>1, <1>2, PTL DEF Spec

(* A reminder that was delivered is not sent again by the same process,    *)
(* nor by a later one when its record was written: over retries, cut       *)
(* ticks, a clock that steps back and writes that land late                *)
(* (reminder-runner.ts:85-92, 287, 322-323).                               *)
THEOREM RemindersSentOnce == ASSUME RemindersAssumption PROVE Spec => []SentOnce
<1>1. RemindersInv => SentOnce
  BY DEF RemindersInv, SentOnce
<1>2. QED  BY <1>1, RemindersAlways, PTL

(* The types of the runner's variables, and its timers                     *)
(* (reminder-runner.ts:342-361).                                           *)
THEOREM RemindersTypeOK == ASSUME RemindersAssumption PROVE Spec => []TypeOK
<1>1. RemindersAssumption /\ RemindersInv => TypeOK
  <2>1. SUFFICES ASSUME RemindersAssumption, RemindersInv  PROVE TypeOK
    OBVIOUS
  <2>2. now \in 0 .. MaxTime
    BY <2>1, RunnerNumbers DEF RemindersInv, RunnerShape, RunnerTypes
  <2>3. QED  BY <2>1, <2>2 DEF RemindersInv, RunnerShape, RunnerTypes, TickInv, TypeOK, Ticks,
                              Pcs, Memories, Stores
<1>2. QED  BY <1>1, RemindersAlways, PTL

(* A window is closed only over reminders that were delivered or grew too  *)
(* old (reminder-runner.ts:326-328).                                       *)
THEOREM WindowsClosedAreDone == ASSUME RemindersAssumption PROVE Spec => []ClosedIsDone
<1>1. RemindersInv => ClosedIsDone
  BY DEF RemindersInv, RunnerShape, TickInv, DoneInv, HandledTo, Handled, ClosedIsDone
<1>2. QED  BY <1>1, RemindersAlways, PTL

(* While nothing fails and the runner is left running, no reminder grows   *)
(* too old before it is sent, whatever the interval, the deadline and the  *)
(* number of reminders (reminder-runner.ts:126-131, 188-192).              *)
THEOREM NoReminderSkipped == ASSUME RemindersAssumption PROVE Spec => []NoneSkipped
<1>1. RemindersInv => NoneSkipped
  BY DEF RemindersInv, RunnerShape, RunnerTypes, TimeInv, NoneSkipped
<1>2. QED  BY <1>1, RemindersAlways, PTL

(* A stopped runner starts no call: a tick that was cut is loading or      *)
(* writing, and goes on to its end only (reminder-runner.ts:150-154,       *)
(* 226-228).                                                               *)
THEOREM RunnerStopIsFinal == ASSUME RemindersAssumption PROVE Spec => StopIsFinal
<1>1. RemindersInv /\ [Next]_vars => [StopIsFinalStep]_vars
  <2>1. SUFFICES ASSUME RemindersInv, Next, ~isStarted, tick.cut, ~isStarted'
                 PROVE  tick'.pc \notin {"list", "notify"}
    BY DEF StopIsFinalStep, RemindersInv, RunnerShape, RunnerTypes
  <2>2. /\ tick.pc \notin {"idle", "list", "notify"} /\ wait # 0
        /\ tick \in Ticks /\ memory \in Memories
    BY <2>1, RunnerNumbers DEF RemindersInv, RunnerShape, RunnerTypes, TickInv, Unset
  <2>3. ASSUME EndTick  PROVE tick'.pc \notin {"list", "notify"}
    BY <2>3 DEF EndTick, IdleTick
  <2>4. CASE Loaded
    BY <2>1, <2>3, <2>4 DEF Loaded, Aborted
  <2>5. CASE SaveEnds
    <3>1. Proceed(tick, memory, tick.queue) /\ tick.queue \in SUBSET Reminders
      BY <2>2, <2>5 DEF SaveEnds, Ticks
    <3>2. tick'.pc = "close" \/ EndTick
      BY <2>1, <2>2, <3>1, ProceedIs
    <3>3. QED  BY <2>3, <3>2
  <2>6. CASE CallFails \/ CloseEnds \/ Deadline
    BY <2>3, <2>6 DEF CallFails, CloseEnds, Deadline
  <2>7. CASE TasksListed \/ Delivered \/ Retry \/ TickNow \/ TimerFires \/ Start
    BY <2>1, <2>2, <2>7 DEF TasksListed, Delivered, Retry, TickNow, TimerFires, Start
  <2>8. CASE Stop
    BY <2>2, <2>8 DEF Stop, Cuts, Ticks
  <2>9. CASE Advance \/ StepBack \/ StrayLands
    BY <2>2, <2>9 DEF Advance, StepBack, StrayLands
  <2>10. CASE Crash
    BY <2>10 DEF Crash, IdleTick
  <2>11. QED
    BY <2>1, <2>4, <2>5, <2>6, <2>7, <2>8, <2>9, <2>10 DEF Next
<1>2. QED  BY <1>1, RemindersAlways, PTL DEF Spec, StopIsFinal
=============================================================================
