------------------------- MODULE ServerOutboxProofs -------------------------
(***************************************************************************)
(* Theorems about ServerOutbox, for any number of workers, rows, batches   *)
(* and attempts and any passage of time; and about Cache, for any calls of *)
(* wrap, any writers, and any number of versions and restarts.             *)
(***************************************************************************)
EXTENDS ServerOutbox, Cache, FiniteSetTheorems, SequenceTheorems, TLAPS

(* A worker at an event has one; a worker only holds rows of the table;    *)
(* only a row of the table is processed.                                   *)
Holding == AtEvent \cup {"releasing", "closingLost"}

HasEvent == \A w \in Workers : pc[w] \in Holding => batch[w] # << >>

Held ==
    \A w \in Workers : \A i \in DOMAIN batch[w] : row[batch[w][i].row].exists

ProcessedExists == \A r \in Rows : row[r].processed => row[r].exists

TableInv == TypeOK /\ HasEvent /\ Held /\ ProcessedExists

-----------------------------------------------------------------------------
(* What the statements do to the table.                                    *)
LEMMA Numbers ==
  /\ Lease \in Nat /\ Horizon \in Nat /\ Slowest \in 0 .. Lease
  /\ Interval \in Int /\ Never \in Int
  /\ MaxAttempts \in Nat /\ MaxAttempts > 0 /\ Rows \subseteq Int /\ IsFiniteSet(Rows)
<1>1. MaxRows \in Nat
  BY OutboxAssumption DEF OutboxAssumption
<1>2. IsFiniteSet(Rows)
  BY <1>1, FS_Interval DEF Rows
<1> QED
  BY <1>1, <1>2, OutboxAssumption DEF OutboxAssumption, Rows, Never

(* A power of two counts the subsets of a set.                             *)
LEMMA PowerOfTwo ==
  ASSUME NEW n \in Nat
  PROVE  2 ^ n \in Nat
<1>1. IsFiniteSet(1 .. n) /\ Cardinality(1 .. n) = n
  BY FS_Interval
<1>2. IsFiniteSet(SUBSET (1 .. n)) /\ Cardinality(SUBSET (1 .. n)) = 2 ^ n
  BY <1>1, FS_SUBSET
<1> QED
  BY <1>2, FS_CardinalityType

LEMMA DelayType ==
  ASSUME NEW attempt \in 1 .. MaxAttempts
  PROVE  RetryDelay(attempt) \in Nat
<1>1. attempt - 1 \in Nat
  BY Numbers
<1>2. 2 ^ (attempt - 1) \in Nat
  BY <1>1, PowerOfTwo
<1>3. \A a, b \in Nat : a * b \in Nat
  OBVIOUS
<1>4. BaseDelay * 2 ^ (attempt - 1) \in Nat /\ MaxDelay \in Nat
  BY <1>2, <1>3, OutboxAssumption DEF OutboxAssumption
<1> QED
  BY <1>4 DEF RetryDelay, Smaller

LEMMA NewRowType ==
  ASSUME NEW delay \in Int
  PROVE  /\ NewRow(delay) \in RowType /\ NoRow \in RowType
         /\ NewRow(delay).exists /\ ~NewRow(delay).processed /\ ~NoRow.processed
         /\ NewRow(delay).attempts = 0
  BY Numbers DEF NewRow, NoRow, RowType

ClosedOf(table, r) ==
    /\ table \in [Rows -> RowType]
    /\ table[r].processed
    /\ \A s \in Rows :
         /\ s # r => table[s] = row[s]
         /\ table[s].exists = row[s].exists
         /\ table[s].attempts = row[s].attempts

LEMMA ClosedTable ==
  ASSUME row \in [Rows -> RowType], NEW r \in Rows
  PROVE  ClosedOf(Closed(r), r)
  BY DEF Closed, ClosedOf, RowType

(* No statement forgets a row, opens a closed one or counts an attempt,    *)
(* except for a new row that takes a free id.                              *)
Kept(r) ==
    /\ row[r].exists => row'[r].exists
    /\ row[r].processed => row'[r].processed
    /\ row'[r].processed => row'[r].exists

(* The other two statements change no row's state.                         *)
LEMMA RetryTable ==
  ASSUME TableInv, NEW r \in Rows, NEW delay \in Int, ScheduleRetry(r, delay)
  PROVE  row' \in [Rows -> RowType] /\ \A s \in Rows : Kept(s)
<1>1. row \in [Rows -> RowType] /\ row' = [row EXCEPT ![r].availableIn = delay]
  BY DEF TableInv, TypeOK, ScheduleRetry
<1>2. row' \in [Rows -> RowType]
  BY <1>1 DEF RowType
<1>3. ASSUME NEW s \in Rows PROVE Kept(s)
  <2>1. row'[s].exists = row[s].exists /\ row'[s].processed = row[s].processed
    BY <1>1 DEF RowType
  <2> QED
    BY <2>1 DEF TableInv, ProcessedExists, Kept
<1> QED
  BY <1>2, <1>3

LEMMA ReleaseTable ==
  ASSUME TableInv, NEW r \in Rows, NEW attempt \in 1 .. MaxAttempts, Release(r, attempt)
  PROVE  row' \in [Rows -> RowType] /\ \A s \in Rows : Kept(s)
<1>1. row \in [Rows -> RowType]
  BY DEF TableInv, TypeOK
<1>2. CASE row' = row
  BY <1>2, <1>1 DEF TableInv, ProcessedExists, Kept
<1>3. CASE /\ row[r].attempts = attempt
           /\ row' = [row EXCEPT ![r].attempts = @ - 1,
                                 ![r].availableIn = IF row[r].claimedAgo = Never
                                                    THEN 0 ELSE -row[r].claimedAgo]
  <2>1. /\ row[r].attempts - 1 \in 0 .. MaxAttempts
        /\ (IF row[r].claimedAgo = Never THEN 0 ELSE -row[r].claimedAgo) \in Int
    BY <1>1, <1>3, Numbers DEF RowType
  <2>2. row' \in [Rows -> RowType]
    BY <1>1, <1>3, <2>1 DEF RowType
  <2>3. ASSUME NEW s \in Rows PROVE Kept(s)
    <3>1. row'[s].exists = row[s].exists /\ row'[s].processed = row[s].processed
      BY <1>1, <1>3 DEF RowType
    <3> QED
      BY <3>1 DEF TableInv, ProcessedExists, Kept
  <2> QED
    BY <2>2, <2>3
<1> QED
  BY <1>2, <1>3 DEF Release

LEMMA ClosedKept ==
  ASSUME TableInv, NEW r \in Rows, row[r].exists, NEW s \in Rows
  PROVE  /\ row[s].exists => Closed(r)[s].exists
         /\ row[s].processed => Closed(r)[s].processed
         /\ Closed(r)[s].processed => Closed(r)[s].exists
<1> USE DEF TableInv, TypeOK
<1>1. ClosedOf(Closed(r), r)
  BY ClosedTable
<1>2. CASE s = r
  BY <1>1, <1>2 DEF ClosedOf
<1>3. CASE s # r
  BY <1>1, <1>3 DEF ClosedOf, ProcessedExists
<1> QED
  BY <1>2, <1>3

LEMMA MarkTable ==
  ASSUME TableInv, NEW r \in Rows, row[r].exists, MarkProcessed(r)
  PROVE  row' \in [Rows -> RowType] /\ tries' \in [Rows -> Nat] /\ \A s \in Rows : Kept(s)
<1> USE DEF TableInv, TypeOK
<1>1. CASE ~Repeats /\ row' = Closed(r) /\ UNCHANGED tries
  BY <1>1, ClosedTable DEF ClosedOf, Kept, ProcessedExists
<1>2. CASE Inserts(Closed(r), Interval)
  <2>1. PICK n \in Rows :
          /\ ~Closed(r)[n].exists
          /\ row' = [Closed(r) EXCEPT ![n] = NewRow(Interval)]
          /\ tries' = [tries EXCEPT ![n] = 0]
    BY <1>2 DEF Inserts
  <2>2. n # r /\ ~row[n].exists
    BY <2>1, ClosedTable DEF ClosedOf
  <2>3. NewRow(Interval) \in RowType /\ NewRow(Interval).exists
    BY NewRowType, Numbers
  <2>4. row' \in [Rows -> RowType]
    BY <2>1, <2>3, ClosedTable DEF ClosedOf
  <2>5. ASSUME NEW s \in Rows PROVE Kept(s)
    <3>1. CASE s = n
      BY <3>1, <2>1, <2>2, <2>3, ClosedTable DEF ClosedOf, Kept, ProcessedExists
    <3>2. CASE s # n
      <4>1. row'[s] = Closed(r)[s]
        BY <3>2, <2>1, ClosedTable DEF ClosedOf
      <4> QED
        BY <4>1, ClosedKept DEF Kept
    <3> QED
      BY <3>1, <3>2
  <2>6. tries' \in [Rows -> Nat]
    BY <2>1
  <2> QED
    BY <2>4, <2>5, <2>6
<1>3. CASE UNCHANGED <<row, tries>>
  BY <1>3 DEF Kept, ProcessedExists
<1> QED
  BY <1>1, <1>2, <1>3 DEF MarkProcessed

LEMMA GiveUpTable ==
  ASSUME TableInv, NEW w \in Workers, NEW r \in Rows, GiveUp(w, r)
  PROVE  /\ row' \in [Rows -> RowType] /\ tries' \in [Rows -> Nat]
         /\ reports' \in [Rows -> Nat]
         /\ \A s \in Rows : Kept(s)
         /\ \A s \in Rows :
              \/ reports'[s] = reports[s]
              \/ ~row[s].processed /\ row'[s].processed /\ reports'[s] = reports[s] + 1
<1> USE DEF TableInv, TypeOK
<1>1. CASE r \in Waiting
  <2>1. row[r].exists /\ ~row[r].processed
    BY <1>1 DEF Waiting
  <2>2. reports' = [reports EXCEPT ![r] = IF Tracks THEN @ + 1 ELSE @]
    BY <1>1 DEF GiveUp
  <2>3. CASE row' = Closed(r) /\ UNCHANGED tries
    <3>1. row' \in [Rows -> RowType] /\ tries' \in [Rows -> Nat]
      BY <2>3, ClosedTable DEF ClosedOf
    <3>2. \A s \in Rows : Kept(s)
      BY <2>1, <2>3, ClosedTable DEF ClosedOf, Kept, ProcessedExists
    <3>3. row'[r].processed
      BY <2>3, ClosedTable DEF ClosedOf
    <3>4. reports' \in [Rows -> Nat]
      BY <2>2
    <3>5. ASSUME NEW s \in Rows
          PROVE  \/ reports'[s] = reports[s]
                 \/ ~row[s].processed /\ row'[s].processed /\ reports'[s] = reports[s] + 1
      BY <2>1, <2>2, <3>3
    <3> QED
      BY <3>1, <3>2, <3>4, <3>5
  <2>4. CASE Inserts(Closed(r), Interval)
    <3>1. PICK n \in Rows :
            /\ ~Closed(r)[n].exists
            /\ row' = [Closed(r) EXCEPT ![n] = NewRow(Interval)]
            /\ tries' = [tries EXCEPT ![n] = 0]
      BY <2>4 DEF Inserts
    <3>2. n # r /\ ~row[n].exists
      BY <2>1, <3>1, ClosedTable DEF ClosedOf
    <3>3. NewRow(Interval) \in RowType /\ NewRow(Interval).exists
      BY NewRowType, Numbers
    <3>4. row' \in [Rows -> RowType]
      BY <3>1, <3>3, ClosedTable DEF ClosedOf
    <3>5. ASSUME NEW s \in Rows PROVE Kept(s)
      <4>1. CASE s = n
        BY <4>1, <3>1, <3>2, <3>3, ClosedTable DEF ClosedOf, Kept, ProcessedExists
      <4>2. CASE s # n
        <5>1. row'[s] = Closed(r)[s]
          BY <4>2, <3>1, ClosedTable DEF ClosedOf
        <5> QED
          BY <2>1, <5>1, ClosedKept DEF Kept
      <4> QED
        BY <4>1, <4>2
    <3>6. row'[r].processed
      BY <3>1, <3>2, ClosedTable DEF ClosedOf
    <3>7. /\ reports' \in [Rows -> Nat]
          /\ tries' \in [Rows -> Nat]
      BY <2>2, <3>1
    <3>8. ASSUME NEW s \in Rows
          PROVE  \/ reports'[s] = reports[s]
                 \/ ~row[s].processed /\ row'[s].processed /\ reports'[s] = reports[s] + 1
      BY <2>1, <2>2, <3>6
    <3> QED
      BY <3>4, <3>5, <3>7, <3>8
  <2> QED
    BY <1>1, <2>3, <2>4 DEF GiveUp
<1>2. CASE r \notin Waiting /\ UNCHANGED <<row, history>>
  BY <1>2 DEF history, Kept, ProcessedExists
<1> QED
  BY <1>1, <1>2 DEF GiveUp

-----------------------------------------------------------------------------
(* What the steps do to the workers.                                       *)

LEMMA TailOf ==
  ASSUME NEW q \in Seq(Events), q # << >>
  PROVE  /\ Tail(q) \in Seq(Events)
         /\ \A i \in DOMAIN Tail(q) : i + 1 \in DOMAIN q /\ Tail(q)[i] = q[i + 1]
         /\ Len(q) # 1 => Tail(q) # << >>
         /\ Head(q) \in Events /\ 1 \in DOMAIN q /\ Head(q) = q[1]
<1>1. Len(q) \in Nat /\ Len(q) > 0 /\ DOMAIN q = 1 .. Len(q)
  OBVIOUS
<1>2. Tail(q) \in Seq(Events) /\ Len(Tail(q)) = Len(q) - 1
  OBVIOUS
<1>3. \A i \in 1 .. Len(q) - 1 : Tail(q)[i] = q[i + 1]
  BY <1>1
<1>4. DOMAIN Tail(q) = 1 .. Len(q) - 1
  BY <1>2
<1>5. Len(q) # 1 => Tail(q) # << >>
  <2>1. Len(q) # 1 => Len(Tail(q)) # 0
    BY <1>1, <1>2
  <2>2. Len(<< >>) = 0
    OBVIOUS
  <2> QED
    BY <2>1, <2>2
<1>6. Head(q) \in Events /\ Head(q) = q[1]
  OBVIOUS
<1> QED
  BY <1>1, <1>2, <1>3, <1>4, <1>5, <1>6

(* One worker goes on to another stage, with the events it has or fewer.   *)
Moves(w) ==
    /\ pc' \in [Workers -> Stages]
    /\ \A v \in Workers : v # w => pc'[v] = pc[v] /\ batch'[v] = batch[v]
    /\ batch' \in [Workers -> Seq(Events)]
    /\ first' \in [Workers -> BOOLEAN] /\ others' \in [Workers -> BOOLEAN]
    /\ elapsed' \in [Workers -> 0 .. Lease] /\ busy' \in [Workers -> 0 .. Lease]
    /\ slowest' \in [Workers -> 0 .. Lease]
    /\ \/ batch'[w] = batch[w]
       \/ batch'[w] = << >>
       \/ batch[w] # << >> /\ batch'[w] = Tail(batch[w])
    /\ pc'[w] \in Holding => batch'[w] # << >>

LEMMA HeldKept ==
  ASSUME TableInv, batch' = batch, \A s \in Rows : Kept(s)
  PROVE  Held'
<1> SUFFICES ASSUME NEW v \in Workers, NEW i \in DOMAIN batch[v]
             PROVE  row'[batch[v][i].row].exists
  BY DEF Held
<1>1. batch[v][i] \in Events /\ row[batch[v][i].row].exists
  BY DEF TableInv, TypeOK, Held
<1> QED
  BY <1>1 DEF Events, Kept

LEMMA TableKept ==
  ASSUME TableInv, NEW w \in Workers, Moves(w), \A s \in Rows : Kept(s),
         row' \in [Rows -> RowType], tries' \in [Rows -> Nat],
         reports' \in [Rows -> Nat]
  PROVE  TableInv'
<1>1. TypeOK'
  BY DEF TypeOK, Moves
<1>2. HasEvent'
  BY DEF TableInv, HasEvent, Moves
<1>3. Held'
  <2> SUFFICES ASSUME NEW v \in Workers, NEW i \in DOMAIN batch'[v]
               PROVE  row'[batch'[v][i].row].exists
    BY DEF Held
  <2>1. PICK j \in DOMAIN batch[v] : batch'[v][i] = batch[v][j]
    <3>1. CASE batch'[v] = batch[v]
      BY <3>1
    <3>2. CASE batch[v] # << >> /\ batch'[v] = Tail(batch[v])
      BY <3>2, TailOf DEF TableInv, TypeOK
    <3>3. CASE batch'[v] = << >>
      BY <3>3
    <3> QED
      BY <3>1, <3>2, <3>3 DEF Moves
  <2>2. batch[v][j] \in Events
    BY DEF TableInv, TypeOK
  <2>3. row[batch[v][j].row].exists
    BY DEF TableInv, Held
  <2> QED
    BY <2>1, <2>2, <2>3 DEF Kept, Events
<1>4. ProcessedExists'
  BY DEF ProcessedExists, Kept
<1> QED
  BY <1>1, <1>2, <1>3, <1>4 DEF TableInv

(* The current event of a worker that has one.                             *)
LEMMA CurrentRow ==
  ASSUME TableInv, NEW w \in Workers, pc[w] \in Holding
  PROVE  /\ batch[w] # << >> /\ batch[w] \in Seq(Events)
         /\ Current(w) \in Rows /\ row[Current(w)].exists
         /\ Tail(batch[w]) \in Seq(Events)
         /\ Len(batch[w]) # 1 => Tail(batch[w]) # << >>
<1>1. batch[w] # << >> /\ batch[w] \in Seq(Events)
  BY DEF TableInv, TypeOK, HasEvent
<1>2. Head(batch[w]) \in Events /\ 1 \in DOMAIN batch[w] /\ Head(batch[w]) = batch[w][1]
  BY <1>1, TailOf
<1>3. row[Current(w)].exists
  BY <1>2 DEF TableInv, Held, Current
<1> QED
  BY <1>1, <1>2, <1>3, TailOf DEF Current, Events

LEMMA StagesOf ==
  /\ {"idle", "claiming", "loop", "releasing", "finding", "lost", "closingLost",
      "publishing", "published", "failing", "closing"} \subseteq Stages
  /\ Holding = {"publishing", "published", "failing", "closing", "releasing", "closingLost"}
  BY DEF Stages, Holding, AtEvent

LEMMA NextEventMoves ==
  ASSUME TableInv, NEW w \in Workers, pc[w] \in Holding, NextEvent(w)
  PROVE  Moves(w)
<1>1. TypeOK
  BY DEF TableInv
<1>2. batch[w] # << >> /\ Tail(batch[w]) \in Seq(Events)
  BY CurrentRow
<1>3. slowest' \in [Workers -> 0 .. Lease]
  BY <1>1 DEF TypeOK, NextEvent, Larger
<1>4. busy' \in [Workers -> 0 .. Lease]
  BY <1>1, Numbers DEF TypeOK, NextEvent
<1> QED
  BY <1>1, <1>2, <1>3, <1>4, StagesOf DEF TypeOK, NextEvent, Moves

LEMMA IdlesMoves ==
  ASSUME TableInv, NEW w \in Workers, Idles(w)
  PROVE  Moves(w)
<1>1. TypeOK
  BY DEF TableInv
<1> QED
  BY <1>1, Numbers, StagesOf DEF TypeOK, Idles, Moves

-----------------------------------------------------------------------------
(* A row is reported once, because only a waiting row is, and it no longer *)
(* waits then.                                                             *)
ReportsClose ==
    \A r \in Rows : reports[r] <= 1 /\ (~row[r].processed => reports[r] <= 0)

Inv == TableInv /\ ReportsClose

LEMMA ReportsKept ==
  ASSUME Inv, reports' = reports, \A s \in Rows : Kept(s)
  PROVE  ReportsClose'
  BY DEF Inv, ReportsClose, Kept

LEMMA SameTable ==
  ASSUME TableInv, row' = row
  PROVE  row' \in [Rows -> RowType] /\ \A s \in Rows : Kept(s)
  BY DEF TableInv, TypeOK, ProcessedExists, Kept

(* A step of a worker that leaves table and history alone.                 *)
LEMMA QuietStep ==
  ASSUME Inv, NEW w \in Workers, Moves(w), row' = row, tries' \in [Rows -> Nat],
         UNCHANGED reports
  PROVE  Inv'
<1>1. row' \in [Rows -> RowType] /\ \A s \in Rows : Kept(s)
  BY SameTable DEF Inv
<1>2. reports' \in [Rows -> Nat]
  BY DEF Inv, TableInv, TypeOK
<1>3. TableInv'
  BY <1>1, <1>2, TableKept DEF Inv
<1> QED
  BY <1>1, <1>3, ReportsKept DEF Inv

LEMMA InitInv == Init => Inv
<1> SUFFICES ASSUME Init PROVE Inv
  OBVIOUS
<1>1. /\ NewRow(0) \in RowType /\ NoRow \in RowType
      /\ ~NoRow.processed /\ ~NewRow(0).processed
  BY NewRowType
<1>2. \A r \in Rows : row[r] = NewRow(0) \/ row[r] = NoRow
  BY DEF Init
<1>3. row \in [Rows -> RowType]
  BY <1>1 DEF Init
<1>4. TypeOK
  BY <1>3, Numbers, StagesOf DEF TypeOK, Init
<1>5. HasEvent /\ Held
  BY DEF Init, HasEvent, Held, Holding, AtEvent
<1>6. ProcessedExists
  BY <1>1, <1>2 DEF ProcessedExists
<1>7. ReportsClose
  BY DEF Init, ReportsClose
<1> QED
  BY <1>4, <1>5, <1>6, <1>7 DEF Inv, TableInv

LEMMA GiveUpInv ==
  ASSUME Inv, NEW w \in Workers, Moves(w), Current(w) \in Rows, GiveUp(w, Current(w))
  PROVE  Inv'
<1>1. /\ row' \in [Rows -> RowType] /\ tries' \in [Rows -> Nat]
      /\ reports' \in [Rows -> Nat]
      /\ \A s \in Rows : Kept(s)
      /\ \A s \in Rows :
           \/ reports'[s] = reports[s]
           \/ ~row[s].processed /\ row'[s].processed /\ reports'[s] = reports[s] + 1
  BY GiveUpTable DEF Inv
<1>2. TableInv'
  BY <1>1, TableKept DEF Inv
<1>3. ASSUME NEW s \in Rows
      PROVE  reports'[s] <= 1 /\ (~row'[s].processed => reports'[s] <= 0)
  <2>1. Kept(s)
    BY <1>1
  <2>2. reports[s] \in Nat /\ reports[s] <= 1 /\ (~row[s].processed => reports[s] <= 0)
    BY DEF Inv, ReportsClose, TableInv, TypeOK
  <2>3. CASE reports'[s] = reports[s]
    BY <2>1, <2>2, <2>3 DEF Kept
  <2>4. CASE ~row[s].processed /\ row'[s].processed /\ reports'[s] = reports[s] + 1
    BY <2>2, <2>4
  <2> QED
    BY <1>1, <2>3, <2>4
<1> QED
  BY <1>2, <1>3 DEF Inv, ReportsClose

(* The rows that a statement returns, as a sequence.                       *)
LEMMA OrdersSeq ==
  ASSUME NEW S \in SUBSET Rows, NEW order \in Orders(S)
  PROVE  /\ order \in Seq(Rows)
         /\ \A i \in DOMAIN order : order[i] \in S
<1>1. IsFiniteSet(S)
  BY Numbers, FS_Subset
<1>2. Cardinality(S) \in Nat
  BY <1>1, FS_CardinalityType
<1>3. order \in [1 .. Cardinality(S) -> S]
  BY DEF Orders
<1> QED
  BY <1>2, <1>3

LEMMA ClaimInv ==
  ASSUME Inv, NEW w \in Workers, ClaimBatch(w)
  PROVE  Inv'
<1> DEFINE claimed == FirstOf(Claimable, BatchSize)
<1>0. TypeOK /\ TableInv
  BY DEF Inv, TableInv
<1>1. claimed \in SUBSET Rows /\ \A r \in claimed : row[r].exists /\ row[r].attempts < MaxAttempts
  BY DEF FirstOf, Claimable, Waiting
<1>2. /\ row' = [r \in Rows |->
                    IF r \in claimed
                    THEN [row[r] EXCEPT !.attempts = @ + 1, !.availableIn = Lease,
                                        !.claimedAgo = 0]
                    ELSE row[r]]
      /\ pc' = [pc EXCEPT ![w] = "loop"]
      /\ UNCHANGED <<first, elapsed, busy, slowest, others, history>>
  BY DEF ClaimBatch
<1>3. PICK order \in Orders(claimed) :
        batch' = [batch EXCEPT ![w] = [i \in DOMAIN order |-> EventOf(order[i])]]
  BY DEF ClaimBatch
<1>4. order \in Seq(Rows) /\ \A i \in DOMAIN order : order[i] \in claimed
  BY <1>1, <1>3, OrdersSeq
<1> HIDE DEF claimed
<1>5. [i \in DOMAIN order |-> EventOf(order[i])] \in Seq(Events)
  <2>1. \A r \in claimed : EventOf(r) \in Events
    <3> SUFFICES ASSUME NEW r \in claimed PROVE EventOf(r) \in Events
      OBVIOUS
    <3>1. row[r].attempts + 1 \in 1 .. MaxAttempts
      BY <1>0, <1>1, Numbers DEF TypeOK, RowType
    <3> QED
      BY <1>1, <3>1 DEF EventOf, Events
  <2>2. DOMAIN order = 1 .. Len(order) /\ Len(order) \in Nat
    BY <1>4
  <2> QED
    BY <1>4, <2>1, <2>2
<1>6. row' \in [Rows -> RowType]
  <2>1. ASSUME NEW r \in claimed
        PROVE  [row[r] EXCEPT !.attempts = @ + 1, !.availableIn = Lease, !.claimedAgo = 0]
                 \in RowType
    <3>1. row[r] \in RowType /\ row[r].attempts + 1 \in 0 .. MaxAttempts
      BY <1>0, <1>1, Numbers DEF TypeOK, RowType
    <3>2. \A x \in RowType, a \in 0 .. MaxAttempts, b \in Int, c \in Nat :
            [x EXCEPT !.attempts = a, !.availableIn = b, !.claimedAgo = c] \in RowType
      BY DEF RowType
    <3>3. Lease \in Int /\ 0 \in Nat
      BY Numbers
    <3> QED
      BY <3>1, <3>2, <3>3, Zenon
  <2> QED
    BY <1>0, <1>2, <2>1 DEF TypeOK
<1>7. \A s \in Rows : /\ Kept(s) /\ row'[s].exists = row[s].exists
                      /\ row'[s].processed = row[s].processed
  BY <1>0, <1>2 DEF Kept, TypeOK, RowType, TableInv, ProcessedExists
<1>8. TypeOK'
  BY <1>0, <1>2, <1>3, <1>5, <1>6, StagesOf DEF TypeOK, history
<1>9. HasEvent'
  BY <1>0, <1>2, <1>3, StagesOf DEF TypeOK, TableInv, HasEvent
<1>10. Held'
  <2> SUFFICES ASSUME NEW v \in Workers, NEW i \in DOMAIN batch'[v]
               PROVE  row'[batch'[v][i].row].exists
    BY DEF Held
  <2>1. CASE v = w
    <3>1. i \in DOMAIN order /\ batch'[v][i] = EventOf(order[i])
      BY <1>0, <1>3, <2>1 DEF TypeOK
    <3>2. order[i] \in claimed /\ batch'[v][i].row = order[i]
      BY <1>4, <3>1 DEF EventOf
    <3> QED
      BY <1>1, <1>7, <3>2
  <2>2. CASE v # w
    <3>1. batch'[v] = batch[v]
      BY <1>0, <1>3, <2>2 DEF TypeOK
    <3>2. batch[v][i] \in Events /\ row[batch[v][i].row].exists
      BY <1>0, <3>1 DEF TypeOK, TableInv, Held
    <3> QED
      BY <1>7, <3>1, <3>2 DEF Events
  <2> QED
    BY <2>1, <2>2
<1>11. ProcessedExists'
  BY <1>7 DEF ProcessedExists, Kept
<1>12. ReportsClose'
  BY <1>2, <1>7, ReportsKept DEF history
<1> QED
  BY <1>8, <1>9, <1>10, <1>11, <1>12 DEF Inv, TableInv

LEMMA FindInv ==
  ASSUME Inv, NEW w \in Workers, FindLost(w)
  PROVE  Inv'
<1> DEFINE found == FirstOf(Lost, BatchSize)
<1>0. TypeOK /\ TableInv
  BY DEF Inv, TableInv
<1>1. found \in SUBSET Rows /\ \A r \in found : row[r].exists
  BY DEF FirstOf, Lost, Waiting
<1>2. /\ pc' = [pc EXCEPT ![w] = "lost"]
      /\ UNCHANGED <<row, first, elapsed, busy, slowest, others, history>>
  BY DEF FindLost
<1>3. PICK order \in Orders(found) :
        batch' = [batch EXCEPT ![w] =
            [i \in DOMAIN order |-> [row |-> order[i], attempt |-> MaxAttempts]]]
  BY DEF FindLost
<1>4. order \in Seq(Rows) /\ \A i \in DOMAIN order : order[i] \in found
  BY <1>1, <1>3, OrdersSeq
<1> HIDE DEF found
<1>5. [i \in DOMAIN order |-> [row |-> order[i], attempt |-> MaxAttempts]] \in Seq(Events)
  <2>1. \A i \in DOMAIN order : [row |-> order[i], attempt |-> MaxAttempts] \in Events
    BY <1>1, <1>4, Numbers DEF Events
  <2>2. DOMAIN order = 1 .. Len(order) /\ Len(order) \in Nat
    BY <1>4
  <2> QED
    BY <2>1, <2>2
<1>6. \A s \in Rows : Kept(s)
  BY <1>0, <1>2, SameTable
<1>7. TypeOK'
  BY <1>0, <1>2, <1>3, <1>5, StagesOf DEF TypeOK, history
<1>8. HasEvent'
  BY <1>0, <1>2, <1>3, StagesOf DEF TypeOK, TableInv, HasEvent
<1>9. Held'
  <2> SUFFICES ASSUME NEW v \in Workers, NEW i \in DOMAIN batch'[v]
               PROVE  row[batch'[v][i].row].exists
    BY <1>2 DEF Held
  <2>1. CASE v = w
    <3>1. /\ i \in DOMAIN order
          /\ batch'[v][i] = [row |-> order[i], attempt |-> MaxAttempts]
      BY <1>0, <1>3, <2>1 DEF TypeOK
    <3> QED
      BY <1>1, <1>4, <3>1
  <2>2. CASE v # w
    BY <1>0, <1>3, <2>2 DEF TypeOK, TableInv, Held
  <2> QED
    BY <2>1, <2>2
<1>10. ProcessedExists'
  BY <1>0, <1>2 DEF TableInv, ProcessedExists
<1>11. ReportsClose'
  BY <1>2, <1>6, ReportsKept DEF history
<1> QED
  BY <1>7, <1>8, <1>9, <1>10, <1>11 DEF Inv, TableInv

LEMMA WorkerInv ==
  ASSUME Inv, NEW w \in Workers, DrainStep(w) \/ Crash(w)
  PROVE  Inv'
<1> USE DEF Inv
<1>0. TypeOK /\ TableInv
  BY DEF TableInv
<1>1. CASE DrainStarts(w)
  <2>1. Moves(w)
    BY <1>0, <1>1, StagesOf DEF DrainStarts, Moves, TypeOK
  <2> QED
    BY <1>0, <1>1, <2>1, QuietStep DEF DrainStarts, history, TypeOK
<1>2. CASE StartPublish(w)
  <2>1. Moves(w)
    BY <1>0, <1>2, StagesOf DEF StartPublish, Moves, TypeOK
  <2>2. tries' \in [Rows -> Nat]
    <3>1. Current(w) \in Rows
      BY <1>0, <1>2, TailOf DEF StartPublish, TypeOK, Current, Events
    <3> QED
      BY <1>0, <1>2, <3>1 DEF StartPublish, TypeOK
  <2> QED
    BY <1>2, <2>1, <2>2, QuietStep DEF StartPublish
<1>3. CASE StopBatch(w)
  <2>1. Moves(w)
    BY <1>0, <1>3, StagesOf DEF StopBatch, Moves, TypeOK
  <2> QED
    BY <1>0, <1>3, <2>1, QuietStep DEF StopBatch, history, TypeOK
<1>4. CASE ReleaseOne(w)
  <2>1. /\ Tail(batch[w]) \in Seq(Events) /\ batch[w] # << >>
        /\ Len(batch[w]) # 1 => Tail(batch[w]) # << >>
        /\ Current(w) \in Rows /\ row[Current(w)].exists
    BY <1>0, <1>4, CurrentRow, StagesOf DEF ReleaseOne
  <2>2. Moves(w)
    BY <1>0, <1>4, <2>1, StagesOf DEF ReleaseOne, Moves, TypeOK
  <2>3. row' \in [Rows -> RowType] /\ \A s \in Rows : Kept(s)
    <3>1. Head(batch[w]).attempt \in 1 .. MaxAttempts
      BY <2>1, TailOf, <1>0 DEF TypeOK, Events
    <3> QED
      BY <1>0, <1>4, <2>1, <3>1, ReleaseTable DEF ReleaseOne
  <2>4. TableInv'
    BY <1>0, <1>4, <2>2, <2>3, TableKept DEF ReleaseOne, history, TypeOK
  <2> QED
    BY <1>4, <2>3, <2>4, ReportsKept DEF ReleaseOne, history
<1>5. CASE PublishEnds(w)
  <2>1. Moves(w)
    BY <1>0, <1>5, StagesOf, CurrentRow DEF PublishEnds, Moves, TypeOK
  <2> QED
    BY <1>0, <1>5, <2>1, QuietStep DEF PublishEnds, history, TypeOK
<1>6. CASE MarkSucceeds(w)
  <2>1. pc[w] \in Holding /\ Moves(w)
    BY <1>0, <1>6, StagesOf, NextEventMoves DEF MarkSucceeds
  <2>2. row' \in [Rows -> RowType] /\ tries' \in [Rows -> Nat] /\ \A s \in Rows : Kept(s)
    BY <1>0, <1>6, <2>1, CurrentRow, MarkTable DEF MarkSucceeds
  <2>3. TableInv'
    BY <1>0, <1>6, <2>1, <2>2, TableKept DEF MarkSucceeds, TypeOK
  <2> QED
    BY <1>6, <2>2, <2>3, ReportsKept DEF MarkSucceeds
<1>7. CASE MarkThrows(w)
  <2>1. pc[w] \in Holding
    BY <1>7, StagesOf DEF MarkThrows
  <2>2. Moves(w)
    BY <1>0, <1>7, <2>1, StagesOf, CurrentRow DEF MarkThrows, Moves, TypeOK
  <2>3. row' \in [Rows -> RowType] /\ tries' \in [Rows -> Nat] /\ \A s \in Rows : Kept(s)
    <3>1. CASE MarkProcessed(Current(w))
      BY <1>0, <2>1, <3>1, CurrentRow, MarkTable
    <3>2. CASE UNCHANGED <<row, tries>>
      BY <1>0, <3>2, SameTable DEF TypeOK
    <3> QED
      BY <1>7, <3>1, <3>2 DEF MarkThrows
  <2>4. TableInv'
    BY <1>0, <1>7, <2>2, <2>3, TableKept DEF MarkThrows, TypeOK
  <2> QED
    BY <1>7, <2>3, <2>4, ReportsKept DEF MarkThrows
<1>8. CASE AttemptFails(w)
  <2>1. pc[w] \in Holding /\ Moves(w)
    BY <1>0, <1>8, StagesOf, NextEventMoves DEF AttemptFails
  <2>2. row' \in [Rows -> RowType] /\ \A s \in Rows : Kept(s)
    <3>1. Head(batch[w]).attempt \in 1 .. MaxAttempts /\ Current(w) \in Rows
      BY <1>0, <2>1, CurrentRow, TailOf DEF Events
    <3>2. RetryDelay(Head(batch[w]).attempt) \in Int
      BY <3>1, DelayType
    <3> QED
      BY <1>0, <1>8, <3>1, <3>2, RetryTable DEF AttemptFails
  <2>3. TableInv'
    BY <1>0, <1>8, <2>1, <2>2, TableKept DEF AttemptFails, history, TypeOK
  <2> QED
    BY <1>8, <2>2, <2>3, ReportsKept DEF AttemptFails, history
<1>9. CASE GiveUpStarts(w)
  <2>1. Moves(w)
    BY <1>0, <1>9, StagesOf, CurrentRow DEF GiveUpStarts, SnapshotOthers, Moves, TypeOK
  <2> QED
    BY <1>0, <1>9, <2>1, QuietStep DEF GiveUpStarts, history, TypeOK
<1>10. CASE GiveUpEnds(w)
  <2>1. pc[w] \in Holding /\ Moves(w)
    BY <1>0, <1>10, StagesOf, NextEventMoves DEF GiveUpEnds
  <2>2. GiveUp(w, Current(w)) /\ Current(w) \in Rows
    BY <1>0, <1>10, <2>1, CurrentRow DEF GiveUpEnds
  <2> QED
    BY <2>1, <2>2, GiveUpInv
<1>11. CASE LoopEnds(w)
  <2>1. Moves(w)
    BY <1>0, <1>11, StagesOf, IdlesMoves DEF LoopEnds, Moves, TypeOK
  <2> QED
    BY <1>0, <1>11, <2>1, QuietStep DEF LoopEnds, history, TypeOK
<1>12. CASE CloseLostStarts(w)
  <2>1. Moves(w)
    BY <1>0, <1>12, StagesOf DEF CloseLostStarts, SnapshotOthers, Moves, TypeOK
  <2> QED
    BY <1>0, <1>12, <2>1, QuietStep DEF CloseLostStarts, history, TypeOK
<1>13. CASE CloseLostEnds(w)
  <2>1. pc[w] \in Holding /\ GiveUp(w, Current(w)) /\ Current(w) \in Rows
    BY <1>0, <1>13, CurrentRow, StagesOf DEF CloseLostEnds
  <2>2. Moves(w)
    BY <1>0, <1>13, <2>1, CurrentRow, StagesOf DEF CloseLostEnds, Moves, TypeOK
  <2> QED
    BY <2>1, <2>2, GiveUpInv
<1>14. CASE DrainEnds(w)
  BY <1>0, <1>14, IdlesMoves, QuietStep DEF DrainEnds, history, TypeOK
<1>15. CASE Crash(w)
  BY <1>0, <1>15, IdlesMoves, QuietStep DEF Crash, history, TypeOK
<1>16. CASE ClaimBatch(w)
  BY <1>16, ClaimInv
<1>17. CASE FindLost(w)
  BY <1>17, FindInv
<1> QED
  BY <1>1, <1>2, <1>3, <1>4, <1>5, <1>6, <1>7, <1>8, <1>9, <1>10, <1>11, <1>12, <1>13,
     <1>14, <1>15, <1>16, <1>17 DEF DrainStep

-----------------------------------------------------------------------------
(* The app and the clock.                                                  *)

LEMMA ScheduleInv ==
  ASSUME Inv, Schedule
  PROVE  Inv'
<1>0. TypeOK /\ TableInv
  BY DEF Inv, TableInv
<1>1. PICK n \in Rows :
        /\ ~row[n].exists
        /\ row' = [row EXCEPT ![n] = NewRow(0)]
        /\ tries' = [tries EXCEPT ![n] = 0]
  BY DEF Schedule, Inserts
<1>2. NewRow(0) \in RowType /\ NewRow(0).exists
  BY NewRowType
<1>3. UNCHANGED <<pc, batch, first, elapsed, busy, slowest, others, reports>>
  BY DEF Schedule, worker
<1>4. TypeOK'
  BY <1>0, <1>1, <1>2, <1>3 DEF TypeOK
<1>5. \A s \in Rows : s # n => row'[s] = row[s]
  BY <1>0, <1>1 DEF TypeOK
<1>6. row'[n] = NewRow(0)
  BY <1>0, <1>1 DEF TypeOK
<1>7. HasEvent'
  BY <1>0, <1>3 DEF TableInv, HasEvent
<1>8. Held'
  <2> SUFFICES ASSUME NEW v \in Workers, NEW i \in DOMAIN batch[v]
               PROVE  row'[batch[v][i].row].exists
    BY <1>3 DEF Held
  <2>1. batch[v][i] \in Events /\ row[batch[v][i].row].exists
    BY <1>0 DEF TypeOK, TableInv, Held
  <2> QED
    BY <1>1, <1>5, <2>1 DEF Events
<1>9. ProcessedExists'
  BY <1>0, <1>2, <1>5, <1>6 DEF TableInv, ProcessedExists
<1>10. ReportsClose'
  BY <1>0, <1>1, <1>3, <1>5 DEF Inv, TableInv, ProcessedExists, ReportsClose
<1> QED
  BY <1>4, <1>7, <1>8, <1>9, <1>10 DEF Inv, TableInv

LEMMA EnsureInv ==
  ASSUME Inv, EnsureScheduled
  PROVE  Inv'
<1> DEFINE table == [r \in Rows |->
              IF r \in Replaced THEN [row[r] EXCEPT !.processed = TRUE] ELSE row[r]]
<1>0. TypeOK /\ TableInv
  BY DEF Inv, TableInv
<1>1. table \in [Rows -> RowType]
  BY <1>0 DEF TypeOK, RowType
<1>2. \A s \in Rows : /\ table[s].exists = row[s].exists
                      /\ row[s].processed => table[s].processed
                      /\ table[s].processed => row[s].exists
  BY <1>0 DEF TypeOK, RowType, Replaced, Waiting, TableInv, ProcessedExists
<1>3. /\ UNCHANGED <<pc, batch, first, elapsed, busy, slowest, others, reports>>
  BY DEF EnsureScheduled, worker
<1>4. \/ Inserts(table, 0)
      \/ row' = table /\ UNCHANGED tries
  BY DEF EnsureScheduled
<1> HIDE DEF table
<1>5. /\ row' \in [Rows -> RowType] /\ tries' \in [Rows -> Nat]
      /\ \A s \in Rows : Kept(s)
  <2>1. CASE row' = table /\ UNCHANGED tries
    <3>1. ASSUME NEW s \in Rows PROVE Kept(s)
      BY <1>2, <2>1 DEF Kept
    <3> QED
      BY <1>0, <1>1, <2>1, <3>1 DEF TypeOK
  <2>2. CASE Inserts(table, 0)
    <3>1. PICK n \in Rows :
            /\ ~table[n].exists
            /\ row' = [table EXCEPT ![n] = NewRow(0)]
            /\ tries' = [tries EXCEPT ![n] = 0]
      BY <2>2 DEF Inserts
    <3>2. NewRow(0) \in RowType /\ NewRow(0).exists
      BY NewRowType
    <3>3. row' \in [Rows -> RowType] /\ tries' \in [Rows -> Nat]
      BY <1>0, <1>1, <3>1, <3>2 DEF TypeOK
    <3>4. ASSUME NEW s \in Rows PROVE Kept(s)
      <4>1. CASE s = n
        <5>1. ~row[s].exists /\ row'[s] = NewRow(0)
          BY <1>1, <1>2, <3>1, <4>1
        <5>2. ~row[s].processed
          BY <1>0, <5>1 DEF TableInv, ProcessedExists
        <5> QED
          BY <3>2, <5>1, <5>2 DEF Kept
      <4>2. CASE s # n
        <5>1. row'[s] = table[s]
          BY <1>1, <3>1, <4>2
        <5> QED
          BY <1>2, <5>1 DEF Kept
      <4> QED
        BY <4>1, <4>2
    <3> QED
      BY <3>3, <3>4
  <2> QED
    BY <1>4, <2>1, <2>2
<1>6. TypeOK'
  BY <1>0, <1>3, <1>5 DEF TypeOK
<1>7. HasEvent'
  BY <1>0, <1>3 DEF TableInv, HasEvent
<1>8. Held'
  BY <1>0, <1>3, <1>5, HeldKept
<1>9. ProcessedExists'
  BY <1>5 DEF ProcessedExists, Kept
<1> QED
  BY <1>3, <1>5, <1>6, <1>7, <1>8, <1>9, ReportsKept DEF Inv, TableInv

LEMMA RemoveInv ==
  ASSUME Inv, NEW r \in Rows, RemoveProcessed(r)
  PROVE  Inv'
<1>0. TypeOK /\ TableInv
  BY DEF Inv, TableInv
<1>1. /\ row' = [row EXCEPT ![r] = NoRow]
      /\ tries' = [tries EXCEPT ![r] = 0]
      /\ reports' = [reports EXCEPT ![r] = 0]
      /\ UNCHANGED <<pc, batch, first, elapsed, busy, slowest, others>>
      /\ \A w \in Workers : \A i \in DOMAIN batch[w] : batch[w][i].row # r
  BY DEF RemoveProcessed, worker
<1>2. NoRow \in RowType /\ ~NoRow.processed
  BY NewRowType
<1>3. TypeOK'
  BY <1>0, <1>1, <1>2 DEF TypeOK
<1>4. /\ row'[r] = NoRow /\ reports'[r] = 0
      /\ \A s \in Rows : s # r => row'[s] = row[s] /\ reports'[s] = reports[s]
  BY <1>0, <1>1 DEF TypeOK
<1>5. HasEvent'
  BY <1>0, <1>1 DEF TableInv, HasEvent
<1>6. Held'
  <2> SUFFICES ASSUME NEW v \in Workers, NEW i \in DOMAIN batch[v]
               PROVE  row'[batch[v][i].row].exists
    BY <1>1 DEF Held
  <2>1. batch[v][i] \in Events /\ row[batch[v][i].row].exists
    BY <1>0 DEF TypeOK, TableInv, Held
  <2> QED
    BY <1>1, <1>4, <2>1 DEF Events
<1>7. ProcessedExists'
  BY <1>0, <1>2, <1>4 DEF TableInv, ProcessedExists
<1>8. ReportsClose'
  BY <1>4 DEF Inv, ReportsClose
<1> QED
  BY <1>3, <1>5, <1>6, <1>7, <1>8 DEF Inv, TableInv

LEMMA TickInv ==
  ASSUME Inv, Tick
  PROVE  Inv'
<1>0. TypeOK /\ TableInv
  BY DEF Inv, TableInv
<1>1. /\ row' = [r \in Rows |->
            IF r \notin Waiting THEN row[r]
            ELSE [row[r] EXCEPT
                    !.availableIn = Larger(@ - 1, -Horizon),
                    !.claimedAgo = IF @ = Never THEN @ ELSE Smaller(@ + 1, Horizon)]]
      /\ elapsed' = [w \in Workers |->
            IF pc[w] \in {"claiming", "loop"} \cup AtEvent
            THEN Smaller(elapsed[w] + 1, Lease) ELSE elapsed[w]]
      /\ busy' = [w \in Workers |->
            IF pc[w] \in AtEvent THEN Smaller(busy[w] + 1, Lease) ELSE busy[w]]
      /\ UNCHANGED <<pc, batch, first, slowest, others, tries, reports>>
  BY DEF Tick, history
<1>2. ASSUME NEW r \in Rows
      PROVE  /\ row'[r] \in RowType
             /\ row'[r].exists = row[r].exists /\ row'[r].processed = row[r].processed
  <2>1. row[r] \in RowType
    BY <1>0 DEF TypeOK
  <2>2. CASE r \notin Waiting
    BY <1>1, <2>1, <2>2
  <2>3. CASE r \in Waiting
    <3> DEFINE available == Larger(row[r].availableIn - 1, -Horizon)
               claimed == IF row[r].claimedAgo = Never THEN row[r].claimedAgo
                          ELSE Smaller(row[r].claimedAgo + 1, Horizon)
    <3>1. available \in Int
      BY <2>1, Numbers DEF RowType, Larger
    <3>2. claimed \in {Never} \cup Nat
      BY <2>1, Numbers DEF RowType, Smaller
    <3>3. row'[r] = [row[r] EXCEPT !.availableIn = available, !.claimedAgo = claimed]
      BY <1>1, <2>3
    <3> HIDE DEF available, claimed
    <3> QED
      BY <2>1, <3>1, <3>2, <3>3 DEF RowType
  <2> QED
    BY <2>2, <2>3
<1>3. row' \in [Rows -> RowType]
  BY <1>1, <1>2
<1>4. elapsed' \in [Workers -> 0 .. Lease] /\ busy' \in [Workers -> 0 .. Lease]
  <2>1. \A x \in 0 .. Lease : Smaller(x + 1, Lease) \in 0 .. Lease
    BY Numbers DEF Smaller
  <2>2. \A w \in Workers : elapsed[w] \in 0 .. Lease /\ busy[w] \in 0 .. Lease
    BY <1>0 DEF TypeOK
  <2> QED
    BY <1>1, <2>1, <2>2
<1>5. TypeOK'
  BY <1>0, <1>1, <1>3, <1>4 DEF TypeOK
<1>6. \A s \in Rows : Kept(s)
  BY <1>0, <1>2 DEF TableInv, ProcessedExists, Kept
<1>7. HasEvent'
  BY <1>0, <1>1 DEF TableInv, HasEvent
<1>8. Held'
  BY <1>0, <1>1, <1>6, HeldKept
<1>9. ProcessedExists'
  BY <1>6 DEF ProcessedExists, Kept
<1> QED
  BY <1>1, <1>5, <1>6, <1>7, <1>8, <1>9, ReportsKept DEF Inv, TableInv

-----------------------------------------------------------------------------
LEMMA InvIsInductive == Inv /\ [Next]_vars => Inv'
<1> SUFFICES ASSUME Inv, [Next]_vars PROVE Inv'
  OBVIOUS
<1>1. ASSUME NEW w \in Workers, DrainStep(w) \/ Crash(w) PROVE Inv'
  BY <1>1, WorkerInv
<1>2. CASE Schedule
  BY <1>2, ScheduleInv
<1>3. CASE EnsureScheduled
  BY <1>3, EnsureInv
<1>4. ASSUME NEW r \in Rows, RemoveProcessed(r) PROVE Inv'
  BY <1>4, RemoveInv
<1>5. CASE Tick
  BY <1>5, TickInv
<1>6. CASE UNCHANGED vars
  BY <1>6 DEF vars, worker, history, Inv, TableInv, TypeOK, HasEvent, Held,
              ProcessedExists, ReportsClose
<1> QED
  BY <1>1, <1>2, <1>3, <1>4, <1>5, <1>6 DEF Next

LEMMA InvHolds == Spec => []Inv
  BY InitInv, InvIsInductive, PTL DEF Spec

(* The table, the workers' events and clocks and the counts of history are *)
(* well formed: in particular no statement pushes a row's attempts above   *)
(* MaxAttempts or, handing one back, below zero.                           *)
THEOREM OutboxTyping == Spec => []TypeOK
<1>1. Inv => TypeOK
  BY DEF Inv, TableInv
<1> QED
  BY <1>1, InvHolds, PTL

(* onAttemptFailed reports a row as given up at most once, however many    *)
(* workers reach giveUp for it, from a last attempt or as a lost row.      *)
THEOREM ReportedOnce == Spec => []ToldOnce
<1>1. Inv => ToldOnce
  BY DEF Inv, ReportsClose, ToldOnce
<1> QED
  BY <1>1, InvHolds, PTL

-----------------------------------------------------------------------------
(* A row is tried once for each attempt that is counted: the attempts      *)
(* cover the tries there were and the workers that may still make one.     *)
Untried(r) ==
    {v \in Workers :
        \/ /\ pc[v] \in {"loop", "releasing"}
           /\ \E i \in DOMAIN batch[v] : batch[v][i].row = r
        \/ /\ pc[v] \in AtEvent
           /\ \E i \in DOMAIN batch[v] : i # 1 /\ batch[v][i].row = r}

HeldOnce ==
    \A w \in Workers : \A i, j \in DOMAIN batch[w] :
        batch[w][i].row = batch[w][j].row => i = j

TriesClose == \A r \in Rows : tries[r] + Cardinality(Untried(r)) <= row[r].attempts

TryInv == Inv /\ HeldOnce /\ TriesClose

LEMMA UntriedFinite ==
  ASSUME NEW r \in Rows
  PROVE  /\ IsFiniteSet(Untried(r)) /\ Cardinality(Untried(r)) \in Nat
         /\ IsFiniteSet(Untried(r)') /\ Cardinality(Untried(r)') \in Nat
<1>1. IsFiniteSet(Workers)
  BY OutboxAssumption DEF OutboxAssumption
<1>2. Untried(r) \subseteq Workers /\ Untried(r)' \subseteq Workers
  BY DEF Untried
<1> QED
  BY <1>1, <1>2, FS_Subset, FS_CardinalityType

LEMMA FewerUntried ==
  ASSUME NEW r \in Rows, Untried(r)' \subseteq Untried(r)
  PROVE  Cardinality(Untried(r)') <= Cardinality(Untried(r))
  BY UntriedFinite, FS_Subset

LEMMA OneLessUntried ==
  ASSUME NEW r \in Rows, NEW w \in Untried(r), Untried(r)' \subseteq Untried(r) \ {w}
  PROVE  Cardinality(Untried(r)') <= Cardinality(Untried(r)) - 1
<1>1. IsFiniteSet(Untried(r)) /\ Cardinality(Untried(r)) \in Nat
  BY UntriedFinite
<1>2. /\ IsFiniteSet(Untried(r) \ {w})
      /\ Cardinality(Untried(r) \ {w}) = Cardinality(Untried(r)) - 1
  BY <1>1, FS_RemoveElement
<1> QED
  BY <1>2, FS_Subset

LEMMA OneMoreUntried ==
  ASSUME NEW r \in Rows, NEW w \in Workers, Untried(r)' \subseteq Untried(r) \cup {w}
  PROVE  Cardinality(Untried(r)') <= Cardinality(Untried(r)) + 1
<1>1. IsFiniteSet(Untried(r)) /\ Cardinality(Untried(r)) \in Nat
  BY UntriedFinite
<1>2. /\ IsFiniteSet(Untried(r) \cup {w})
      /\ \/ Cardinality(Untried(r) \cup {w}) = Cardinality(Untried(r))
         \/ Cardinality(Untried(r) \cup {w}) = Cardinality(Untried(r)) + 1
  BY <1>1, FS_AddElement, Zenon
<1>3. Cardinality(Untried(r)') <= Cardinality(Untried(r) \cup {w})
  BY <1>2, FS_Subset
<1> QED
  BY <1>1, <1>2, <1>3, UntriedFinite

(* The attempts and tries of a row are as they were, or the row is new.    *)
Counts(s) ==
    \/ row'[s].attempts = row[s].attempts /\ tries'[s] = tries[s]
    \/ ~row[s].exists /\ row'[s].attempts = 0 /\ tries'[s] = 0

LEMMA TriesKept ==
  ASSUME TryInv, \A s \in Rows : Counts(s) /\ Untried(s)' \subseteq Untried(s)
  PROVE  TriesClose'
<1> SUFFICES ASSUME NEW s \in Rows
             PROVE  tries'[s] + Cardinality(Untried(s)') <= row'[s].attempts
  BY DEF TriesClose
<1>0. TypeOK /\ Held
  BY DEF TryInv, Inv, TableInv
<1>1. /\ tries[s] \in Nat /\ row[s].attempts \in Int
      /\ tries[s] + Cardinality(Untried(s)) <= row[s].attempts
      /\ Cardinality(Untried(s)') <= Cardinality(Untried(s))
      /\ Cardinality(Untried(s)) \in Nat /\ Cardinality(Untried(s)') \in Nat
  BY <1>0, FewerUntried, UntriedFinite DEF TryInv, TriesClose, TypeOK, RowType
<1>2. CASE row'[s].attempts = row[s].attempts /\ tries'[s] = tries[s]
  BY <1>1, <1>2
<1>3. CASE ~row[s].exists /\ row'[s].attempts = 0 /\ tries'[s] = 0
  <2>1. Untried(s) = {}
    <3> SUFFICES ASSUME NEW v \in Untried(s) PROVE FALSE
      OBVIOUS
    <3>1. PICK i \in DOMAIN batch[v] : v \in Workers /\ batch[v][i].row = s
      BY DEF Untried
    <3> QED
      BY <1>0, <1>3, <3>1 DEF Held
  <2>2. Cardinality(Untried(s)) = 0
    BY <2>1, FS_EmptySet
  <2> QED
    BY <1>1, <1>3, <2>2
<1> QED
  BY <1>2, <1>3 DEF Counts

LEMMA OnceKept ==
  ASSUME TryInv, NEW w \in Workers, Moves(w)
  PROVE  HeldOnce'
<1> SUFFICES ASSUME NEW v \in Workers, NEW i \in DOMAIN batch'[v], NEW j \in DOMAIN batch'[v],
                    batch'[v][i].row = batch'[v][j].row
             PROVE  i = j
  BY DEF HeldOnce
<1>0. batch[v] \in Seq(Events) /\ HeldOnce
  BY DEF TryInv, Inv, TableInv, TypeOK
<1>1. CASE batch'[v] = batch[v]
  BY <1>0, <1>1 DEF HeldOnce
<1>2. CASE batch'[v] = << >>
  BY <1>2
<1>3. CASE batch[v] # << >> /\ batch'[v] = Tail(batch[v])
  <2>1. /\ i + 1 \in DOMAIN batch[v] /\ batch'[v][i] = batch[v][i + 1]
        /\ j + 1 \in DOMAIN batch[v] /\ batch'[v][j] = batch[v][j + 1]
    BY <1>0, <1>3, TailOf
  <2>2. i + 1 = j + 1
    BY <1>0, <2>1 DEF HeldOnce
  <2>3. i \in Int /\ j \in Int
    BY <1>0, <1>3, TailOf
  <2> QED
    BY <2>2, <2>3
<1> QED
  BY <1>1, <1>2, <1>3 DEF Moves

(* The steps of a worker after which it will not try more than before.     *)
Keeps(w) ==
    \/ pc'[w] \notin {"loop", "releasing"} \cup AtEvent
    \/ pc[w] \in AtEvent /\ pc'[w] \in AtEvent /\ batch'[w] = batch[w]
    \/ pc[w] = "loop" /\ pc'[w] = "releasing" /\ batch'[w] = batch[w]
    \/ pc[w] \in AtEvent /\ pc'[w] = "loop" /\ batch'[w] = Tail(batch[w])

LEMMA StageKinds ==
  /\ AtEvent = {"publishing", "published", "failing", "closing"}
  /\ {"loop", "releasing"} \cap AtEvent = {}
  BY DEF AtEvent

LEMMA UntriedShrinks ==
  ASSUME Inv, NEW w \in Workers, Moves(w), Keeps(w), NEW s \in Rows
  PROVE  Untried(s)' \subseteq Untried(s)
<1> SUFFICES ASSUME NEW v \in Untried(s)' PROVE v \in Untried(s)
  OBVIOUS
<1>0. v \in Workers
  BY DEF Untried
<1>1. CASE v # w
  BY <1>0, <1>1 DEF Untried, Moves
<1>2. CASE v = w
  <2>1. pc'[w] \in {"loop", "releasing"} \cup AtEvent
    BY <1>2 DEF Untried
  <2>2. CASE pc[w] \in AtEvent /\ pc'[w] \in AtEvent /\ batch'[w] = batch[w]
    BY <1>0, <1>2, <2>2, StageKinds DEF Untried
  <2>3. CASE pc[w] = "loop" /\ pc'[w] = "releasing" /\ batch'[w] = batch[w]
    BY <1>0, <1>2, <2>3, StageKinds DEF Untried
  <2>4. CASE pc[w] \in AtEvent /\ pc'[w] = "loop" /\ batch'[w] = Tail(batch[w])
    <3>1. batch[w] \in Seq(Events) /\ batch[w] # << >>
      BY <2>4, StagesOf, StageKinds, CurrentRow DEF Inv
    <3>2. PICK i \in DOMAIN batch'[w] : batch'[w][i].row = s
      BY <1>2, <2>4, StageKinds DEF Untried
    <3>3. i + 1 \in DOMAIN batch[w] /\ batch[w][i + 1].row = s /\ i \in Nat /\ i > 0
      BY <2>4, <3>1, <3>2, TailOf
    <3>4. i + 1 # 1
      BY <3>3
    <3> QED
      BY <1>0, <1>2, <2>4, <3>3, <3>4 DEF Untried
  <2> QED
    BY <2>1, <2>2, <2>3, <2>4 DEF Keeps
<1> QED
  BY <1>1, <1>2

(* A worker's current event counts as untried at "loop" and "releasing".   *)
LEMMA CurrentUntried ==
  ASSUME TryInv, NEW w \in Workers, pc[w] \in {"loop", "releasing"}, batch[w] # << >>
  PROVE  /\ Current(w) \in Rows /\ w \in Untried(Current(w))
         /\ row[Current(w)].exists
         /\ Head(batch[w]).attempt \in 1 .. MaxAttempts
         /\ \A i \in DOMAIN batch[w] : i # 1 => batch[w][i].row # Current(w)
<1>1. batch[w] \in Seq(Events)
  BY DEF TryInv, Inv, TableInv, TypeOK
<1>2. Head(batch[w]) \in Events /\ 1 \in DOMAIN batch[w] /\ Head(batch[w]) = batch[w][1]
  BY <1>1, TailOf
<1>3. \A i \in DOMAIN batch[w] : i # 1 => batch[w][i].row # Current(w)
  BY <1>2 DEF TryInv, HeldOnce, Current
<1>4. row[Current(w)].exists
  BY <1>2 DEF TryInv, Inv, TableInv, Held, Current
<1> QED
  BY <1>2, <1>3, <1>4 DEF Current, Events, Untried

LEMMA StartTry ==
  ASSUME TryInv, NEW w \in Workers, StartPublish(w), Moves(w)
  PROVE  TriesClose'
<1>0. TypeOK
  BY DEF TryInv, Inv, TableInv
<1> PICK r \in Rows : r = Current(w)
  BY CurrentUntried DEF StartPublish
<1>1. w \in Untried(r) /\ \A i \in DOMAIN batch[w] : i # 1 => batch[w][i].row # r
  BY CurrentUntried DEF StartPublish
<1>2. pc[w] = "loop" /\ pc'[w] = "publishing" /\ batch' = batch /\ row' = row
  BY <1>0 DEF StartPublish, TypeOK
<1>3. tries' = [tries EXCEPT ![r] = @ + 1]
  BY DEF StartPublish
<1>4. \A s \in Rows : Untried(s)' \subseteq Untried(s)
  <2> SUFFICES ASSUME NEW s \in Rows, NEW v \in Untried(s)' PROVE v \in Untried(s)
    OBVIOUS
  <2>1. CASE v # w
    BY <2>1 DEF Untried, Moves
  <2>2. CASE v = w
    BY <1>2, <2>2, StageKinds DEF Untried
  <2> QED
    BY <2>1, <2>2
<1>5. w \notin Untried(r)'
  BY <1>1, <1>2, StageKinds DEF Untried
<1>6. ASSUME NEW s \in Rows
      PROVE  tries'[s] + Cardinality(Untried(s)') <= row'[s].attempts
  <2>1. /\ tries[s] + Cardinality(Untried(s)) <= row[s].attempts
        /\ tries[s] \in Nat /\ row[s].attempts \in Int
        /\ Cardinality(Untried(s)) \in Nat /\ Cardinality(Untried(s)') \in Nat
    BY <1>0, UntriedFinite DEF TryInv, TriesClose, TypeOK, RowType
  <2>2. CASE s = r
    <3>1. Cardinality(Untried(r)') <= Cardinality(Untried(r)) - 1
      BY <1>1, <1>4, <1>5, OneLessUntried
    <3>2. tries'[s] = tries[s] + 1
      BY <1>0, <1>3, <2>2 DEF TypeOK
    <3> QED
      BY <1>2, <2>1, <2>2, <3>1, <3>2
  <2>3. CASE s # r
    <3>1. Cardinality(Untried(s)') <= Cardinality(Untried(s)) /\ tries'[s] = tries[s]
      BY <1>0, <1>3, <1>4, <2>3, FewerUntried DEF TypeOK
    <3> QED
      BY <1>2, <2>1, <3>1
  <2> QED
    BY <2>2, <2>3
<1> QED
  BY <1>6 DEF TriesClose

LEMMA ReleaseTry ==
  ASSUME TryInv, NEW w \in Workers, ReleaseOne(w), Moves(w)
  PROVE  TriesClose'
<1>0. TypeOK
  BY DEF TryInv, Inv, TableInv
<1>1. pc[w] = "releasing" /\ batch[w] # << >> /\ batch[w] \in Seq(Events)
  BY CurrentRow, StagesOf DEF ReleaseOne, TryInv, Inv
<1> PICK r \in Rows : r = Current(w)
  BY <1>1, CurrentUntried
<1>2. /\ w \in Untried(r)
      /\ \A i \in DOMAIN batch[w] : i # 1 => batch[w][i].row # r
      /\ Head(batch[w]).attempt \in 1 .. MaxAttempts
  BY <1>1, CurrentUntried
<1>3. /\ batch'[w] = Tail(batch[w]) /\ pc'[w] \in {"loop", "releasing"} /\ tries' = tries
      /\ \/ row' = row
         \/ row' = [row EXCEPT ![r].attempts = @ - 1,
                               ![r].availableIn = IF row[r].claimedAgo = Never
                                                  THEN 0 ELSE -row[r].claimedAgo]
  BY <1>0 DEF ReleaseOne, Release, TypeOK, history
<1>4. \A s \in Rows : Untried(s)' \subseteq Untried(s)
  <2> SUFFICES ASSUME NEW s \in Rows, NEW v \in Untried(s)' PROVE v \in Untried(s)
    OBVIOUS
  <2>1. CASE v # w
    BY <2>1 DEF Untried, Moves
  <2>2. CASE v = w
    <3>1. PICK i \in DOMAIN batch'[w] : batch'[w][i].row = s
      BY <2>2 DEF Untried
    <3>2. i + 1 \in DOMAIN batch[w] /\ batch[w][i + 1].row = s
      BY <1>1, <1>3, <3>1, TailOf
    <3> QED
      BY <1>1, <2>2, <3>2 DEF Untried
  <2> QED
    BY <2>1, <2>2
<1>5. w \notin Untried(r)'
  <2> SUFFICES ASSUME NEW i \in DOMAIN batch'[w], batch'[w][i].row = r PROVE FALSE
    BY DEF Untried
  <2>1. i + 1 \in DOMAIN batch[w] /\ batch[w][i + 1].row = r /\ i \in Nat /\ i > 0
    BY <1>1, <1>3, TailOf
  <2>2. i + 1 # 1
    BY <2>1
  <2> QED
    BY <1>2, <2>1, <2>2
<1>6. ASSUME NEW s \in Rows
      PROVE  tries'[s] + Cardinality(Untried(s)') <= row'[s].attempts
  <2>1. /\ tries[s] + Cardinality(Untried(s)) <= row[s].attempts
        /\ tries[s] \in Nat /\ row[s].attempts \in Int
        /\ Cardinality(Untried(s)) \in Nat /\ Cardinality(Untried(s)') \in Nat
    BY <1>0, UntriedFinite DEF TryInv, TriesClose, TypeOK, RowType
  <2>2. CASE s = r
    <3>1. Cardinality(Untried(r)') <= Cardinality(Untried(r)) - 1
      BY <1>2, <1>4, <1>5, OneLessUntried
    <3>2. row'[s].attempts = row[s].attempts \/ row'[s].attempts = row[s].attempts - 1
      BY <1>0, <1>3, <2>2 DEF TypeOK, RowType
    <3> QED
      BY <1>3, <2>1, <2>2, <3>1, <3>2
  <2>3. CASE s # r
    <3>1. Cardinality(Untried(s)') <= Cardinality(Untried(s))
      BY <1>4, FewerUntried
    <3>2. row'[s].attempts = row[s].attempts
      BY <1>0, <1>3, <2>3 DEF TypeOK, RowType
    <3> QED
      BY <1>3, <2>1, <3>1, <3>2
  <2> QED
    BY <2>2, <2>3
<1> QED
  BY <1>6 DEF TriesClose

LEMMA ClaimTry ==
  ASSUME TryInv, NEW w \in Workers, ClaimBatch(w)
  PROVE  HeldOnce' /\ TriesClose'
<1> DEFINE set == FirstOf(Claimable, BatchSize)
<1>0. TypeOK
  BY DEF TryInv, Inv, TableInv
<1> PICK claimed \in SUBSET Rows : claimed = set
  BY DEF FirstOf, Claimable, Waiting
<1>1. /\ row' = [r \in Rows |->
                    IF r \in claimed
                    THEN [row[r] EXCEPT !.attempts = @ + 1, !.availableIn = Lease,
                                        !.claimedAgo = 0]
                    ELSE row[r]]
      /\ pc' = [pc EXCEPT ![w] = "loop"] /\ pc[w] = "claiming" /\ tries' = tries
  BY DEF ClaimBatch, history
<1>2. PICK order \in Orders(claimed) :
        batch' = [batch EXCEPT ![w] = [i \in DOMAIN order |-> EventOf(order[i])]]
  BY DEF ClaimBatch
<1>3. /\ order \in Seq(Rows)
      /\ \A i \in DOMAIN order : order[i] \in claimed
      /\ \A i, j \in DOMAIN order : order[i] = order[j] => i = j
  BY OrdersSeq DEF Orders
<1> HIDE DEF set
<1>4. /\ \A i \in DOMAIN batch'[w] : i \in DOMAIN order /\ batch'[w][i].row = order[i]
      /\ \A v \in Workers : v # w => batch'[v] = batch[v] /\ pc'[v] = pc[v]
  BY <1>0, <1>1, <1>2 DEF TypeOK, EventOf
<1>5. HeldOnce'
  <2> SUFFICES ASSUME NEW v \in Workers, NEW i \in DOMAIN batch'[v],
                      NEW j \in DOMAIN batch'[v], batch'[v][i].row = batch'[v][j].row
               PROVE  i = j
    BY DEF HeldOnce
  <2>1. CASE v = w
    BY <1>3, <1>4, <2>1
  <2>2. CASE v # w
    BY <1>4, <2>2 DEF TryInv, HeldOnce
  <2> QED
    BY <2>1, <2>2
<1>6. ASSUME NEW s \in Rows
      PROVE  tries'[s] + Cardinality(Untried(s)') <= row'[s].attempts
  <2>1. /\ tries[s] + Cardinality(Untried(s)) <= row[s].attempts
        /\ tries[s] \in Nat /\ row[s].attempts \in Int
        /\ Cardinality(Untried(s)) \in Nat /\ Cardinality(Untried(s)') \in Nat
    BY <1>0, UntriedFinite DEF TryInv, TriesClose, TypeOK, RowType
  <2>2. \A v \in Untried(s)' : v # w => v \in Untried(s)
    BY <1>4 DEF Untried
  <2>3. CASE s \in claimed
    <3>1. Cardinality(Untried(s)') <= Cardinality(Untried(s)) + 1
      BY <2>2, OneMoreUntried
    <3>2. row'[s].attempts = row[s].attempts + 1
      BY <1>0, <1>1, <2>3 DEF TypeOK, RowType
    <3>3. tries'[s] = tries[s]
      BY <1>1
    <3> QED
      BY <2>1, <3>1, <3>2, <3>3
  <2>4. CASE s \notin claimed
    <3>1. w \notin Untried(s)'
      <4> SUFFICES ASSUME NEW i \in DOMAIN batch'[w], batch'[w][i].row = s PROVE FALSE
        BY DEF Untried
      <4> QED
        BY <1>3, <1>4, <2>4
    <3>2. Cardinality(Untried(s)') <= Cardinality(Untried(s))
      BY <2>2, <3>1, FewerUntried
    <3>3. row'[s].attempts = row[s].attempts
      BY <1>1, <2>4
    <3>4. tries'[s] = tries[s]
      BY <1>1
    <3> QED
      BY <2>1, <3>2, <3>3, <3>4
  <2> QED
    BY <2>3, <2>4
<1> QED
  BY <1>5, <1>6 DEF TriesClose

LEMMA FindTry ==
  ASSUME TryInv, NEW w \in Workers, FindLost(w)
  PROVE  HeldOnce' /\ TriesClose'
<1> DEFINE set == FirstOf(Lost, BatchSize)
<1>0. TypeOK
  BY DEF TryInv, Inv, TableInv
<1> PICK found \in SUBSET Rows : found = set
  BY DEF FirstOf, Lost, Waiting
<1>1. pc' = [pc EXCEPT ![w] = "lost"] /\ row' = row /\ tries' = tries
  BY DEF FindLost, history
<1>2. PICK order \in Orders(found) :
        batch' = [batch EXCEPT ![w] =
            [i \in DOMAIN order |-> [row |-> order[i], attempt |-> MaxAttempts]]]
  BY DEF FindLost
<1>3. \A i, j \in DOMAIN order : order[i] = order[j] => i = j
  BY DEF Orders
<1> HIDE DEF set
<1>4. /\ \A i \in DOMAIN batch'[w] : i \in DOMAIN order /\ batch'[w][i].row = order[i]
      /\ \A v \in Workers : v # w => batch'[v] = batch[v] /\ pc'[v] = pc[v]
      /\ pc'[w] = "lost"
  BY <1>0, <1>1, <1>2 DEF TypeOK
<1>5. HeldOnce'
  <2> SUFFICES ASSUME NEW v \in Workers, NEW i \in DOMAIN batch'[v],
                      NEW j \in DOMAIN batch'[v], batch'[v][i].row = batch'[v][j].row
               PROVE  i = j
    BY DEF HeldOnce
  <2>1. CASE v = w
    BY <1>3, <1>4, <2>1
  <2>2. CASE v # w
    BY <1>4, <2>2 DEF TryInv, HeldOnce
  <2> QED
    BY <2>1, <2>2
<1>6. \A s \in Rows : Untried(s)' \subseteq Untried(s)
  BY <1>4, StageKinds DEF Untried
<1>7. \A s \in Rows : Counts(s)
  BY <1>1 DEF Counts
<1> QED
  BY <1>5, <1>6, <1>7, TriesKept

-----------------------------------------------------------------------------
(* The statements that may write a next run.                               *)
LEMMA ClosedCounts ==
  ASSUME TableInv, NEW r \in Rows,
         Inserts(Closed(r), Interval) \/ (row' = Closed(r) /\ tries' = tries)
  PROVE  \A s \in Rows : Counts(s)
<1> SUFFICES ASSUME NEW s \in Rows PROVE Counts(s)
  OBVIOUS
<1>0. row \in [Rows -> RowType] /\ tries \in [Rows -> Nat]
  BY DEF TableInv, TypeOK
<1>1. /\ Closed(r)[s].attempts = row[s].attempts
      /\ Closed(r)[s].exists = row[s].exists
      /\ DOMAIN Closed(r) = Rows
  BY <1>0 DEF Closed, RowType
<1>2. CASE row' = Closed(r) /\ tries' = tries
  BY <1>1, <1>2 DEF Counts
<1>3. CASE Inserts(Closed(r), Interval)
  <2>1. PICK n \in Rows :
          /\ ~Closed(r)[n].exists
          /\ row' = [Closed(r) EXCEPT ![n] = NewRow(Interval)]
          /\ tries' = [tries EXCEPT ![n] = 0]
    BY <1>3 DEF Inserts
  <2>2. CASE s = n
    <3>1. row'[s] = NewRow(Interval) /\ tries'[s] = 0
      BY <1>0, <1>1, <2>1, <2>2
    <3>2. row'[s].attempts = 0
      BY <3>1, NewRowType, Numbers
    <3> QED
      BY <1>1, <2>1, <2>2, <3>1, <3>2 DEF Counts
  <2>3. CASE s # n
    BY <1>0, <1>1, <2>1, <2>3 DEF Counts
  <2> QED
    BY <2>2, <2>3
<1> QED
  BY <1>2, <1>3

LEMMA MarkCounts ==
  ASSUME TableInv, NEW r \in Rows, MarkProcessed(r)
  PROVE  \A s \in Rows : Counts(s)
<1>1. CASE row' = row /\ tries' = tries
  BY <1>1 DEF Counts
<1>2. CASE Inserts(Closed(r), Interval) \/ (row' = Closed(r) /\ tries' = tries)
  BY <1>2, ClosedCounts
<1> QED
  BY <1>1, <1>2 DEF MarkProcessed

LEMMA GiveUpCounts ==
  ASSUME TableInv, NEW w \in Workers, NEW r \in Rows, GiveUp(w, r)
  PROVE  \A s \in Rows : Counts(s)
<1>1. CASE row' = row /\ tries' = tries
  BY <1>1 DEF Counts
<1>2. CASE Inserts(Closed(r), Interval) \/ (row' = Closed(r) /\ tries' = tries)
  BY <1>2, ClosedCounts
<1> QED
  BY <1>1, <1>2 DEF GiveUp, history

LEMMA WorkerTry ==
  ASSUME TryInv, NEW w \in Workers, DrainStep(w) \/ Crash(w)
  PROVE  HeldOnce' /\ TriesClose'
<1>0. Inv /\ TableInv /\ TypeOK
  BY DEF TryInv, Inv, TableInv
(* A step that leaves the table alone, or closes a row, and tries nothing. *)
<1>q. ASSUME Moves(w), Keeps(w), \A s \in Rows : Counts(s)
      PROVE  HeldOnce' /\ TriesClose'
  BY <1>0, <1>q, OnceKept, UntriedShrinks, TriesKept
<1>u. ASSUME row' = row, tries' = tries PROVE \A s \in Rows : Counts(s)
  BY <1>u DEF Counts
<1>1. CASE DrainStarts(w)
  <2>1. Moves(w)
    BY <1>0, <1>1, StagesOf DEF DrainStarts, Moves, TypeOK
  <2>2. Keeps(w)
    BY <1>0, <1>1, StageKinds DEF DrainStarts, Keeps, TypeOK
  <2> QED
    BY <1>1, <1>q, <1>u, <2>1, <2>2 DEF DrainStarts, history
<1>2. CASE StartPublish(w)
  <2>1. Moves(w)
    BY <1>0, <1>2, StagesOf DEF StartPublish, Moves, TypeOK
  <2> QED
    BY <1>2, <2>1, OnceKept, StartTry
<1>3. CASE StopBatch(w)
  <2>1. Moves(w)
    BY <1>0, <1>3, StagesOf DEF StopBatch, Moves, TypeOK
  <2>2. Keeps(w)
    BY <1>0, <1>3, StageKinds DEF StopBatch, Keeps, TypeOK
  <2> QED
    BY <1>3, <1>q, <1>u, <2>1, <2>2 DEF StopBatch, history
<1>4. CASE ReleaseOne(w)
  <2>1. /\ Tail(batch[w]) \in Seq(Events) /\ batch[w] # << >>
        /\ Len(batch[w]) # 1 => Tail(batch[w]) # << >>
    BY <1>0, <1>4, CurrentRow, StagesOf DEF ReleaseOne
  <2>2. Moves(w)
    BY <1>0, <1>4, <2>1, StagesOf DEF ReleaseOne, Moves, TypeOK
  <2> QED
    BY <1>4, <2>2, OnceKept, ReleaseTry
<1>5. CASE PublishEnds(w)
  <2>1. Moves(w)
    BY <1>0, <1>5, StagesOf, CurrentRow DEF PublishEnds, Moves, TypeOK
  <2>2. Keeps(w)
    BY <1>0, <1>5, StageKinds DEF PublishEnds, Keeps, TypeOK
  <2> QED
    BY <1>5, <1>q, <1>u, <2>1, <2>2 DEF PublishEnds, history
<1>6. CASE MarkSucceeds(w)
  <2>1. pc[w] \in Holding /\ Moves(w)
    BY <1>0, <1>6, StagesOf, NextEventMoves DEF MarkSucceeds
  <2>2. Keeps(w)
    BY <1>0, <1>6, StageKinds DEF MarkSucceeds, NextEvent, Keeps, TypeOK
  <2>3. \A s \in Rows : Counts(s)
    BY <1>0, <1>6, <2>1, CurrentRow, MarkCounts DEF MarkSucceeds
  <2> QED
    BY <1>q, <2>1, <2>2, <2>3
<1>7. CASE MarkThrows(w)
  <2>1. pc[w] \in Holding
    BY <1>7, StagesOf DEF MarkThrows
  <2>2. Moves(w)
    BY <1>0, <1>7, <2>1, StagesOf, CurrentRow DEF MarkThrows, Moves, TypeOK
  <2>3. Keeps(w)
    BY <1>0, <1>7, StageKinds DEF MarkThrows, Keeps, TypeOK
  <2>4. \A s \in Rows : Counts(s)
    BY <1>0, <1>7, <1>u, <2>1, CurrentRow, MarkCounts DEF MarkThrows
  <2> QED
    BY <1>q, <2>2, <2>3, <2>4
<1>8. CASE AttemptFails(w)
  <2>1. pc[w] \in Holding /\ Moves(w)
    BY <1>0, <1>8, StagesOf, NextEventMoves DEF AttemptFails
  <2>2. Keeps(w)
    BY <1>0, <1>8, StageKinds DEF AttemptFails, NextEvent, Keeps, TypeOK
  <2>3. \A s \in Rows : row'[s].attempts = row[s].attempts
    BY <1>0, <1>8 DEF AttemptFails, ScheduleRetry, TypeOK, RowType
  <2>4. \A s \in Rows : Counts(s)
    BY <1>8, <2>3 DEF AttemptFails, history, Counts
  <2> QED
    BY <1>q, <2>1, <2>2, <2>4
<1>9. CASE GiveUpStarts(w)
  <2>1. Moves(w)
    BY <1>0, <1>9, StagesOf, CurrentRow DEF GiveUpStarts, SnapshotOthers, Moves, TypeOK
  <2>2. Keeps(w)
    BY <1>0, <1>9, StageKinds DEF GiveUpStarts, Keeps, TypeOK
  <2> QED
    BY <1>9, <1>q, <1>u, <2>1, <2>2 DEF GiveUpStarts, history
<1>10. CASE GiveUpEnds(w)
  <2>1. pc[w] \in Holding /\ Moves(w)
    BY <1>0, <1>10, StagesOf, NextEventMoves DEF GiveUpEnds
  <2>2. Keeps(w)
    BY <1>0, <1>10, StageKinds DEF GiveUpEnds, NextEvent, Keeps, TypeOK
  <2>3. \A s \in Rows : Counts(s)
    BY <1>0, <1>10, <2>1, CurrentRow, GiveUpCounts DEF GiveUpEnds
  <2> QED
    BY <1>q, <2>1, <2>2, <2>3
<1>11. CASE LoopEnds(w)
  <2>1. Moves(w)
    BY <1>0, <1>11, StagesOf, IdlesMoves DEF LoopEnds, Moves, TypeOK
  <2>2. Keeps(w)
    BY <1>0, <1>11, StageKinds DEF LoopEnds, Idles, Keeps, TypeOK
  <2> QED
    BY <1>11, <1>q, <1>u, <2>1, <2>2 DEF LoopEnds, history
<1>12. CASE CloseLostStarts(w)
  <2>1. Moves(w)
    BY <1>0, <1>12, StagesOf DEF CloseLostStarts, SnapshotOthers, Moves, TypeOK
  <2>2. Keeps(w)
    BY <1>0, <1>12, StageKinds DEF CloseLostStarts, Keeps, TypeOK
  <2> QED
    BY <1>12, <1>q, <1>u, <2>1, <2>2 DEF CloseLostStarts, history
<1>13. CASE CloseLostEnds(w)
  <2>1. pc[w] \in Holding /\ GiveUp(w, Current(w)) /\ Current(w) \in Rows
    BY <1>0, <1>13, CurrentRow, StagesOf DEF CloseLostEnds
  <2>2. Moves(w)
    BY <1>0, <1>13, <2>1, CurrentRow, StagesOf DEF CloseLostEnds, Moves, TypeOK
  <2>3. Keeps(w)
    BY <1>0, <1>13, StageKinds DEF CloseLostEnds, Keeps, TypeOK
  <2>4. \A s \in Rows : Counts(s)
    BY <1>0, <2>1, GiveUpCounts
  <2> QED
    BY <1>q, <2>2, <2>3, <2>4
<1>14. CASE DrainEnds(w)
  <2>1. Moves(w) /\ Keeps(w)
    BY <1>0, <1>14, IdlesMoves, StageKinds DEF DrainEnds, Idles, Keeps, TypeOK
  <2> QED
    BY <1>14, <1>q, <1>u, <2>1 DEF DrainEnds, history
<1>15. CASE Crash(w)
  <2>1. Moves(w) /\ Keeps(w)
    BY <1>0, <1>15, IdlesMoves, StageKinds DEF Crash, Idles, Keeps, TypeOK
  <2> QED
    BY <1>15, <1>q, <1>u, <2>1 DEF Crash, history
<1>16. CASE ClaimBatch(w)
  BY <1>16, ClaimTry
<1>17. CASE FindLost(w)
  BY <1>17, FindTry
<1> QED
  BY <1>1, <1>2, <1>3, <1>4, <1>5, <1>6, <1>7, <1>8, <1>9, <1>10, <1>11, <1>12, <1>13,
     <1>14, <1>15, <1>16, <1>17 DEF DrainStep

(* The app and the clock leave the workers where they are.                 *)
LEMMA SameWorkers ==
  ASSUME TryInv, UNCHANGED <<pc, batch>>
  PROVE  HeldOnce' /\ \A s \in Rows : Untried(s)' = Untried(s)
  BY DEF TryInv, HeldOnce, Untried

LEMMA ScheduleTry ==
  ASSUME TryInv, Schedule
  PROVE  HeldOnce' /\ TriesClose'
<1>1. PICK n \in Rows :
        /\ ~row[n].exists
        /\ row' = [row EXCEPT ![n] = NewRow(0)]
        /\ tries' = [tries EXCEPT ![n] = 0]
  BY DEF Schedule, Inserts
<1>2. UNCHANGED <<pc, batch>>
  BY DEF Schedule, worker
<1>3. TypeOK /\ NewRow(0).attempts = 0
  BY NewRowType DEF TryInv, Inv, TableInv
<1>4. ASSUME NEW s \in Rows PROVE Counts(s)
  BY <1>1, <1>3 DEF Counts, TypeOK
<1> QED
  BY <1>2, <1>4, SameWorkers, TriesKept

LEMMA EnsureTry ==
  ASSUME TryInv, EnsureScheduled
  PROVE  HeldOnce' /\ TriesClose'
<1> DEFINE table == [r \in Rows |->
              IF r \in Replaced THEN [row[r] EXCEPT !.processed = TRUE] ELSE row[r]]
<1>0. TypeOK /\ NewRow(0).attempts = 0
  BY NewRowType DEF TryInv, Inv, TableInv
<1>1. /\ DOMAIN table = Rows
      /\ \A s \in Rows : table[s].exists = row[s].exists /\ table[s].attempts = row[s].attempts
  BY <1>0 DEF TypeOK, RowType
<1>2. UNCHANGED <<pc, batch>>
  BY DEF EnsureScheduled, worker
<1>3. \/ Inserts(table, 0)
      \/ (row' = table /\ tries' = tries)
  BY DEF EnsureScheduled
<1> HIDE DEF table
<1>4. ASSUME NEW s \in Rows PROVE Counts(s)
  <2>1. CASE row' = table /\ tries' = tries
    BY <1>1, <2>1 DEF Counts
  <2>2. CASE Inserts(table, 0)
    <3>1. PICK n \in Rows :
            /\ ~table[n].exists
            /\ row' = [table EXCEPT ![n] = NewRow(0)]
            /\ tries' = [tries EXCEPT ![n] = 0]
      BY <2>2 DEF Inserts
    <3>2. CASE s = n
      <4>1. row'[s] = NewRow(0) /\ tries'[s] = 0
        BY <1>0, <1>1, <3>1, <3>2 DEF TypeOK
      <4> QED
        BY <1>0, <1>1, <3>1, <3>2, <4>1 DEF Counts
    <3>3. CASE s # n
      BY <1>0, <1>1, <3>1, <3>3 DEF Counts, TypeOK
    <3> QED
      BY <3>2, <3>3
  <2> QED
    BY <1>3, <2>1, <2>2
<1> QED
  BY <1>2, <1>4, SameWorkers, TriesKept

LEMMA RemoveTry ==
  ASSUME TryInv, NEW r \in Rows, RemoveProcessed(r)
  PROVE  HeldOnce' /\ TriesClose'
<1>0. TypeOK /\ NoRow.attempts = 0
  BY DEF TryInv, Inv, TableInv, NoRow
<1>1. /\ row' = [row EXCEPT ![r] = NoRow]
      /\ tries' = [tries EXCEPT ![r] = 0]
      /\ UNCHANGED <<pc, batch>>
      /\ \A w \in Workers : \A i \in DOMAIN batch[w] : batch[w][i].row # r
  BY DEF RemoveProcessed, worker
<1>2. HeldOnce' /\ \A s \in Rows : Untried(s)' = Untried(s)
  BY <1>1, SameWorkers
<1>3. ASSUME NEW s \in Rows
      PROVE  tries'[s] + Cardinality(Untried(s)') <= row'[s].attempts
  <2>1. CASE s = r
    <3>1. Untried(s)' = {}
      BY <1>1, <1>2, <2>1 DEF Untried
    <3>2. Cardinality(Untried(s)') = 0 /\ tries'[s] = 0 /\ row'[s].attempts = 0
      BY <1>0, <1>1, <2>1, <3>1, FS_EmptySet DEF TypeOK
    <3> QED
      BY <3>2
  <2>2. CASE s # r
    <3>1. tries'[s] = tries[s] /\ row'[s] = row[s]
      BY <1>0, <1>1, <2>2 DEF TypeOK
    <3> QED
      BY <1>2, <3>1 DEF TryInv, TriesClose
  <2> QED
    BY <2>1, <2>2
<1> QED
  BY <1>2, <1>3 DEF TriesClose

LEMMA TickTry ==
  ASSUME TryInv, Tick
  PROVE  HeldOnce' /\ TriesClose'
<1>0. TypeOK
  BY DEF TryInv, Inv, TableInv
<1>1. UNCHANGED <<pc, batch, tries>>
  BY DEF Tick, history
<1>2. ASSUME NEW s \in Rows PROVE Counts(s)
  <2>1. row'[s].attempts = row[s].attempts
    BY <1>0 DEF Tick, TypeOK, RowType
  <2> QED
    BY <1>1, <2>1 DEF Counts
<1> QED
  BY <1>1, <1>2, SameWorkers, TriesKept

LEMMA InitTry == Init => TryInv
<1> SUFFICES ASSUME Init PROVE TryInv
  OBVIOUS
<1>1. Inv
  BY InitInv
<1>2. HeldOnce
  BY DEF Init, HeldOnce
<1>3. ASSUME NEW s \in Rows PROVE tries[s] + Cardinality(Untried(s)) <= row[s].attempts
  <2>1. Untried(s) = {}
    BY StageKinds DEF Init, Untried
  <2>2. Cardinality(Untried(s)) = 0 /\ tries[s] = 0
    BY <2>1, FS_EmptySet DEF Init
  <2>3. row[s].attempts \in 0 .. MaxAttempts
    BY <1>1 DEF Inv, TableInv, TypeOK, RowType
  <2> QED
    BY <2>2, <2>3
<1> QED
  BY <1>1, <1>2, <1>3 DEF TryInv, TriesClose

LEMMA TryIsInductive == TryInv /\ [Next]_vars => TryInv'
<1> SUFFICES ASSUME TryInv, [Next]_vars PROVE TryInv'
  OBVIOUS
<1>0. Inv'
  BY InvIsInductive DEF TryInv
<1>1. ASSUME NEW w \in Workers, DrainStep(w) \/ Crash(w) PROVE HeldOnce' /\ TriesClose'
  BY <1>1, WorkerTry
<1>2. CASE Schedule
  BY <1>0, <1>2, ScheduleTry DEF TryInv
<1>3. CASE EnsureScheduled
  BY <1>0, <1>3, EnsureTry DEF TryInv
<1>4. ASSUME NEW r \in Rows, RemoveProcessed(r) PROVE HeldOnce' /\ TriesClose'
  BY <1>4, RemoveTry
<1>5. CASE Tick
  BY <1>0, <1>5, TickTry DEF TryInv
<1>6. CASE UNCHANGED vars
  BY <1>0, <1>6 DEF vars, worker, history, TryInv, HeldOnce, TriesClose, Untried
<1> QED
  BY <1>0, <1>1, <1>2, <1>3, <1>4, <1>5, <1>6 DEF Next, TryInv

(* A row is published at most MaxAttempts times, whoever crashes, comes    *)
(* late, or hands a row back that another worker has claimed since.        *)
THEOREM TriedAtMost == Spec => []TriesBounded
<1>1. TryInv => TriesBounded
  <2> SUFFICES ASSUME TryInv, NEW s \in Rows PROVE tries[s] <= MaxAttempts
    BY DEF TriesBounded
  <2>1. /\ tries[s] + Cardinality(Untried(s)) <= row[s].attempts
        /\ row[s].attempts \in 0 .. MaxAttempts /\ tries[s] \in Nat
        /\ Cardinality(Untried(s)) \in Nat
    BY UntriedFinite DEF TryInv, TriesClose, Inv, TableInv, TypeOK, RowType
  <2> QED
    BY <2>1, Numbers
<1> QED
  BY <1>1, InitTry, TryIsInductive, PTL DEF Spec

-----------------------------------------------------------------------------
(* One run of a job waits.  The app writes no rows of its own, starts with *)
(* one, and when it gives up a run it writes the next.                     *)
OneJob ==
    /\ Repeats /\ ~Schedules /\ InitialRows = 1
    /\ GivesUp => RepeatAfterGiveUp

Alone(r) == \A s \in Rows : s \in Waiting <=> s = r

OneWaits == \E r \in Rows : Alone(r)

(* The snapshot of a giveUp holds another waiting row only where the row   *)
(* it closes is closed already, so that it writes nothing.                 *)
SnapshotInv ==
    \A w \in Workers :
        /\ pc[w] \in {"closing", "finding", "lost", "closingLost"} => GivesUp
        /\ pc[w] \in {"closing", "closingLost"} /\ others[w]
              => row[Current(w)].processed

ChainInv == Inv /\ OneWaits /\ SnapshotInv

LEMMA StillAlone ==
  ASSUME OneWaits,
         \A s \in Rows : row'[s].exists = row[s].exists /\ row'[s].processed = row[s].processed
  PROVE  OneWaits'
<1>1. Waiting' = Waiting
  BY DEF Waiting
<1> QED
  BY <1>1 DEF OneWaits, Alone

(* The run that waited is closed and the next one takes its place.         *)
LEMMA Relayed ==
  ASSUME TableInv, NEW r \in Rows, Alone(r), NEW delay \in Int, Inserts(Closed(r), delay)
  PROVE  OneWaits'
<1>1. row \in [Rows -> RowType] /\ ClosedOf(Closed(r), r) /\ row[r].exists
  BY ClosedTable DEF TableInv, TypeOK, Alone, Waiting
<1>2. PICK n \in Rows :
        /\ ~Closed(r)[n].exists
        /\ row' = [Closed(r) EXCEPT ![n] = NewRow(delay)]
  BY DEF Inserts
<1>3. n # r
  BY <1>1, <1>2 DEF ClosedOf
<1>4. /\ row'[n] = NewRow(delay)
      /\ \A s \in Rows : s # n => row'[s] = Closed(r)[s]
  BY <1>1, <1>2 DEF ClosedOf
<1>5. NewRow(delay).exists /\ ~NewRow(delay).processed
  BY NewRowType
<1>6. n \in Waiting'
  BY <1>4, <1>5 DEF Waiting
<1>7. \A s \in Rows : s # n => s \notin Waiting'
  BY <1>1, <1>3, <1>4 DEF Alone, Waiting, ClosedOf
<1> QED
  BY <1>6, <1>7 DEF OneWaits, Alone

LEMMA MarkRelays ==
  ASSUME OneJob, TableInv, OneWaits, NEW r \in Rows, MarkProcessed(r)
  PROVE  OneWaits'
<1>1. PICK s \in Rows : Alone(s)
  BY DEF OneWaits
<1>2. CASE r \in Waiting /\ Inserts(Closed(r), Interval)
  BY <1>1, <1>2, Numbers, Relayed DEF Alone
<1>3. CASE UNCHANGED row
  BY <1>3, StillAlone
<1> QED
  BY <1>2, <1>3 DEF MarkProcessed, OneJob

LEMMA GiveUpRelays ==
  ASSUME OneJob, TableInv, OneWaits, NEW w \in Workers, NEW r \in Rows, GiveUp(w, r),
         GivesUp, others[w] => row[r].processed
  PROVE  OneWaits'
<1>1. PICK s \in Rows : Alone(s)
  BY DEF OneWaits
<1>2. CASE r \in Waiting
  <2>1. ~others[w] /\ r = s
    BY <1>1, <1>2 DEF Alone, Waiting
  <2>2. Inserts(Closed(r), Interval)
    BY <1>2, <2>1 DEF GiveUp, OneJob
  <2> QED
    BY <1>1, <2>1, <2>2, Numbers, Relayed
<1>3. CASE r \notin Waiting
  BY <1>3, StillAlone DEF GiveUp
<1> QED
  BY <1>2, <1>3

-----------------------------------------------------------------------------
(* A snapshot stays true of its row, which no statement opens again.       *)
LEMMA SnapshotKept ==
  ASSUME TableInv, SnapshotInv, \A s \in Rows : Kept(s), NEW w \in Workers,
         \A v \in Workers : v # w => /\ pc'[v] = pc[v] /\ batch'[v] = batch[v]
                                     /\ others'[v] = others[v],
         pc'[w] \in {"closing", "finding", "lost", "closingLost"} => GivesUp,
         pc'[w] \in {"closing", "closingLost"} /\ others'[w]
            => row'[Head(batch'[w]).row].processed
  PROVE  SnapshotInv'
<1> SUFFICES ASSUME NEW v \in Workers
             PROVE  /\ pc'[v] \in {"closing", "finding", "lost", "closingLost"} => GivesUp
                    /\ pc'[v] \in {"closing", "closingLost"} /\ others'[v]
                          => row'[Head(batch'[v]).row].processed
  BY DEF SnapshotInv, Current
<1>1. CASE v = w
  BY <1>1
<1>2. CASE v # w
  <2>1. pc[v] \in {"closing", "finding", "lost", "closingLost"} => GivesUp
    BY DEF SnapshotInv
  <2>2. ASSUME pc[v] \in {"closing", "closingLost"}, others[v]
        PROVE  row'[Head(batch[v]).row].processed
    <3>1. row[Current(v)].processed
      BY <2>2 DEF SnapshotInv
    <3>2. Current(v) \in Rows
      BY <2>2, CurrentRow, StagesOf
    <3> QED
      BY <3>1, <3>2 DEF Kept, Current
  <2> QED
    BY <1>2, <2>1, <2>2
<1> QED
  BY <1>1, <1>2

(* The same, where no worker takes a step.                                 *)
LEMMA SnapshotSame ==
  ASSUME TableInv, SnapshotInv, UNCHANGED <<pc, batch, others>>,
         \A v \in Workers : pc[v] \in Holding =>
            (row[Current(v)].processed => row'[Current(v)].processed)
  PROVE  SnapshotInv'
<1> SUFFICES ASSUME NEW v \in Workers
             PROVE  /\ pc[v] \in {"closing", "finding", "lost", "closingLost"} => GivesUp
                    /\ pc[v] \in {"closing", "closingLost"} /\ others[v]
                          => row'[Current(v)].processed
  BY DEF SnapshotInv, Current
<1> QED
  BY StagesOf DEF SnapshotInv

(* A snapshot that holds another waiting row was taken when the row of the *)
(* worker no longer waited.                                                *)
LEMMA SnapshotTaken ==
  ASSUME TableInv, OneWaits, NEW w \in Workers, SnapshotOthers(w), others'[w],
         NEW r \in Rows, r = Current(w), row[r].exists
  PROVE  row[r].processed
<1>1. Waiting \ {r} # {}
  BY DEF SnapshotOthers, TableInv, TypeOK
<1>2. r \notin Waiting
  BY <1>1 DEF OneWaits, Alone, Waiting
<1> QED
  BY <1>2 DEF Waiting

-----------------------------------------------------------------------------
(* No other worker does anything.                                          *)
OthersStay(w) ==
    \A v \in Workers : v # w => /\ pc'[v] = pc[v] /\ batch'[v] = batch[v]
                                /\ others'[v] = others[v]

LEMMA UnreadKept ==
  ASSUME TableInv, OneWaits,
         \A s \in Rows : row'[s].exists = row[s].exists /\ row'[s].processed = row[s].processed
  PROVE  OneWaits' /\ \A s \in Rows : Kept(s)
  BY StillAlone DEF TableInv, ProcessedExists, Kept

LEMMA WorkerChain ==
  ASSUME OneJob, ChainInv, NEW w \in Workers, DrainStep(w) \/ Crash(w)
  PROVE  OneWaits' /\ SnapshotInv'
<1>0. TableInv /\ TypeOK /\ OneWaits /\ SnapshotInv
  BY DEF ChainInv, Inv, TableInv
<1>a. pc[w] \in {"closing", "finding", "lost", "closingLost"} => GivesUp
  BY <1>0 DEF SnapshotInv
(* A step that changes no row's state and takes no snapshot.               *)
<1>b. ASSUME OthersStay(w), OneWaits', \A s \in Rows : Kept(s),
             pc'[w] \in {"finding", "lost"} => GivesUp,
             pc'[w] \notin {"closing", "closingLost"}
      PROVE  OneWaits' /\ SnapshotInv'
  BY <1>0, <1>b, SnapshotKept DEF OthersStay
<1>c. ASSUME row' = row PROVE OneWaits' /\ \A s \in Rows : Kept(s)
  BY <1>0, <1>c, UnreadKept
<1>1. CASE \/ DrainStarts(w) \/ StartPublish(w) \/ StopBatch(w) \/ PublishEnds(w)
           \/ DrainEnds(w) \/ Crash(w) \/ FindLost(w)
  <2>1. OthersStay(w) /\ row' = row
    BY <1>0, <1>1 DEF DrainStarts, StartPublish, StopBatch, PublishEnds, DrainEnds, Crash,
                      FindLost, Idles, TypeOK, OthersStay
  <2>2. /\ pc'[w] \notin {"finding", "closing", "closingLost"}
        /\ pc'[w] = "lost" => pc[w] = "finding"
    BY <1>0, <1>1 DEF DrainStarts, StartPublish, StopBatch, PublishEnds, DrainEnds, Crash,
                      FindLost, Idles, TypeOK
  <2> QED
    BY <1>a, <1>b, <1>c, <2>1, <2>2
<1>2. CASE LoopEnds(w)
  <2>1. OthersStay(w) /\ row' = row /\ pc'[w] \in {"idle", "finding"}
    BY <1>0, <1>2 DEF LoopEnds, Idles, TypeOK, OthersStay
  <2>2. pc'[w] = "finding" => GivesUp
    BY <1>0, <1>2 DEF LoopEnds, Idles, TypeOK, FindsLost
  <2> QED
    BY <1>b, <1>c, <2>1, <2>2
<1>3. CASE ClaimBatch(w)
  <2>1. OthersStay(w) /\ pc'[w] = "loop"
    BY <1>0, <1>3 DEF ClaimBatch, TypeOK, OthersStay
  <2>2. \A s \in Rows : row'[s].exists = row[s].exists /\ row'[s].processed = row[s].processed
    <3> SUFFICES ASSUME NEW s \in Rows
                 PROVE  row'[s].exists = row[s].exists /\ row'[s].processed = row[s].processed
      OBVIOUS
    <3>1. row[s] \in RowType
      BY <1>0 DEF TypeOK
    <3>2. row'[s] \in {row[s], [row[s] EXCEPT !.attempts = @ + 1, !.availableIn = Lease,
                                             !.claimedAgo = 0]}
      BY <1>3 DEF ClaimBatch
    <3> QED
      BY <3>1, <3>2 DEF RowType
  <2> QED
    BY <1>0, <1>b, <2>1, <2>2, UnreadKept
<1>4. CASE ReleaseOne(w)
  <2>1. OthersStay(w) /\ pc'[w] \in {"loop", "releasing"}
    BY <1>0, <1>4 DEF ReleaseOne, TypeOK, OthersStay
  <2>2. \A s \in Rows : row'[s].exists = row[s].exists /\ row'[s].processed = row[s].processed
    BY <1>0, <1>4 DEF ReleaseOne, Release, TypeOK, RowType
  <2> QED
    BY <1>0, <1>b, <2>1, <2>2, UnreadKept
<1>5. CASE MarkSucceeds(w) \/ MarkThrows(w)
  <2>1. OthersStay(w) /\ pc'[w] \in {"loop", "failing"}
    BY <1>0, <1>5 DEF MarkSucceeds, MarkThrows, NextEvent, TypeOK, OthersStay
  <2>2. Current(w) \in Rows /\ row[Current(w)].exists
    BY <1>0, <1>5, CurrentRow, StagesOf DEF MarkSucceeds, MarkThrows
  <2>3. MarkProcessed(Current(w)) \/ row' = row
    BY <1>5 DEF MarkSucceeds, MarkThrows
  <2>4. CASE MarkProcessed(Current(w))
    BY <1>0, <1>b, <2>1, <2>2, <2>4, MarkTable, MarkRelays
  <2> QED
    BY <1>b, <1>c, <2>1, <2>3, <2>4
<1>6. CASE AttemptFails(w)
  <2>1. OthersStay(w) /\ pc'[w] = "loop"
    BY <1>0, <1>6 DEF AttemptFails, NextEvent, TypeOK, OthersStay
  <2>2. \A s \in Rows : row'[s].exists = row[s].exists /\ row'[s].processed = row[s].processed
    BY <1>0, <1>6 DEF AttemptFails, ScheduleRetry, TypeOK, RowType
  <2> QED
    BY <1>0, <1>b, <2>1, <2>2, UnreadKept
<1>7. CASE GiveUpStarts(w) \/ CloseLostStarts(w)
  <2>1. OthersStay(w) /\ row' = row /\ SnapshotOthers(w) /\ batch' = batch
    BY <1>0, <1>7 DEF GiveUpStarts, CloseLostStarts, SnapshotOthers, TypeOK, OthersStay
  <2>2. GivesUp
    BY <1>7, <1>a DEF GiveUpStarts, CloseLostStarts
  <2>3. Current(w) \in Rows /\ row[Current(w)].exists
    <3>1. CASE GiveUpStarts(w)
      BY <1>0, <3>1, CurrentRow, StagesOf DEF GiveUpStarts
    <3>2. CASE CloseLostStarts(w)
      <4>1. batch[w] \in Seq(Events) /\ batch[w] # << >>
        BY <1>0, <3>2 DEF CloseLostStarts, TypeOK
      <4>2. Head(batch[w]) \in Events /\ 1 \in DOMAIN batch[w] /\ Head(batch[w]) = batch[w][1]
        BY <4>1, TailOf
      <4> QED
        BY <1>0, <4>2 DEF TableInv, Held, Current, Events
    <3> QED
      BY <1>7, <3>1, <3>2
  <2>4. others'[w] => row[Current(w)].processed
    BY <1>0, <2>1, <2>3, SnapshotTaken
  <2>5. others'[w] => row'[Head(batch'[w]).row].processed
    BY <2>1, <2>4 DEF Current
  <2> QED
    BY <1>0, <1>c, <2>1, <2>2, <2>5, SnapshotKept DEF OthersStay
<1>8. CASE GiveUpEnds(w) \/ CloseLostEnds(w)
  <2>1. OthersStay(w) /\ pc'[w] \in {"loop", "lost"} /\ pc[w] \in {"closing", "closingLost"}
    BY <1>0, <1>8 DEF GiveUpEnds, CloseLostEnds, NextEvent, TypeOK, OthersStay
  <2>2. Current(w) \in Rows /\ GivesUp
    BY <1>0, <1>a, <2>1, CurrentRow, StagesOf
  <2>3. others[w] => row[Current(w)].processed
    BY <1>0, <2>1 DEF SnapshotInv
  <2>4. GiveUp(w, Current(w))
    BY <1>8 DEF GiveUpEnds, CloseLostEnds
  <2>5. \A s \in Rows : Kept(s)
    BY <1>0, <2>2, <2>4, GiveUpTable
  <2>6. OneWaits'
    BY <1>0, <2>2, <2>3, <2>4, GiveUpRelays
  <2> QED
    BY <1>b, <2>1, <2>2, <2>5, <2>6
<1> QED
  BY <1>1, <1>2, <1>3, <1>4, <1>5, <1>6, <1>7, <1>8 DEF DrainStep

(* A start closes the run that is out of attempts and writes the next one, *)
(* or finds one that waits and writes none.                                *)
LEMMA EnsureChain ==
  ASSUME ChainInv, EnsureScheduled
  PROVE  OneWaits' /\ SnapshotInv'
<1> DEFINE table == [r \in Rows |->
              IF r \in Replaced THEN [row[r] EXCEPT !.processed = TRUE] ELSE row[r]]
<1>0. TableInv /\ TypeOK /\ OneWaits /\ SnapshotInv
  BY DEF ChainInv, Inv, TableInv
<1>1. PICK r \in Rows : Alone(r)
  BY <1>0 DEF OneWaits
<1>2. UNCHANGED <<pc, batch, others>>
  BY DEF EnsureScheduled, worker
<1>3. Replaced \subseteq {r} /\ row[r].exists
  BY <1>1 DEF Replaced, Alone, Waiting
<1>4. CASE ~(Waiting \subseteq Replaced) /\ row' = table
  <2>1. Replaced = {}
    BY <1>1, <1>3, <1>4 DEF Alone, Waiting
  <2>2. row' = row
    BY <1>0, <1>4, <2>1 DEF TypeOK
  <2> QED
    BY <1>0, <1>2, <2>2, StillAlone, SnapshotSame
<1>5. CASE Waiting \subseteq Replaced /\ Inserts(table, 0)
  <2>1. table = Closed(r)
    <3>1. Replaced = {r}
      BY <1>1, <1>3, <1>5 DEF Alone
    <3> QED
      BY <1>0, <3>1 DEF Closed, TypeOK
  <2>2. Inserts(Closed(r), 0)
    BY <1>5, <2>1
  <2>3. OneWaits'
    BY <1>0, <1>1, <2>2, Relayed
  <2>4. PICK n \in Rows :
          /\ ~Closed(r)[n].exists
          /\ row' = [Closed(r) EXCEPT ![n] = NewRow(0)]
    BY <2>2 DEF Inserts
  <2>5. ASSUME NEW v \in Workers, pc[v] \in Holding, row[Current(v)].processed
        PROVE  row'[Current(v)].processed
    <3>1. Current(v) \in Rows /\ row[Current(v)].exists
      BY <1>0, <2>5, CurrentRow
    <3>2. ClosedOf(Closed(r), r) /\ row \in [Rows -> RowType]
      BY <1>0, ClosedTable DEF TypeOK
    <3>3. Current(v) # n
      BY <2>4, <3>1, <3>2 DEF ClosedOf
    <3>4. row'[Current(v)] = Closed(r)[Current(v)]
      BY <2>4, <3>1, <3>2, <3>3 DEF ClosedOf
    <3> QED
      BY <2>5, <3>1, <3>2, <3>4 DEF ClosedOf
  <2> QED
    BY <1>0, <1>2, <2>3, <2>5, SnapshotSame
<1> QED
  BY <1>4, <1>5 DEF EnsureScheduled

LEMMA RemoveChain ==
  ASSUME ChainInv, NEW r \in Rows, RemoveProcessed(r)
  PROVE  OneWaits' /\ SnapshotInv'
<1>0. TableInv /\ TypeOK /\ OneWaits /\ SnapshotInv
  BY DEF ChainInv, Inv, TableInv
<1>1. /\ row' = [row EXCEPT ![r] = NoRow] /\ row[r].processed
      /\ UNCHANGED <<pc, batch, others>>
      /\ \A w \in Workers : \A i \in DOMAIN batch[w] : batch[w][i].row # r
  BY DEF RemoveProcessed, worker
<1>2. \A s \in Rows : s # r => row'[s] = row[s]
  BY <1>0, <1>1 DEF TypeOK
<1>3. r \notin Waiting /\ r \notin Waiting'
  BY <1>0, <1>1 DEF Waiting, NoRow, TypeOK
<1>4. OneWaits'
  BY <1>0, <1>2, <1>3 DEF OneWaits, Alone, Waiting
<1>5. ASSUME NEW v \in Workers, pc[v] \in Holding
      PROVE  row'[Current(v)] = row[Current(v)]
  <2>1. /\ batch[v] # << >> /\ batch[v] \in Seq(Events) /\ Current(v) \in Rows
    BY <1>0, <1>5, CurrentRow
  <2>2. 1 \in DOMAIN batch[v] /\ Head(batch[v]) = batch[v][1]
    BY <2>1, TailOf
  <2>3. Current(v) # r
    BY <1>1, <2>2 DEF Current
  <2> QED
    BY <1>2, <2>1, <2>3
<1> QED
  BY <1>0, <1>1, <1>4, <1>5, SnapshotSame

LEMMA TickChain ==
  ASSUME ChainInv, Tick
  PROVE  OneWaits' /\ SnapshotInv'
<1>0. TableInv /\ TypeOK /\ OneWaits /\ SnapshotInv
  BY DEF ChainInv, Inv, TableInv
<1>1. \A s \in Rows : row'[s].exists = row[s].exists /\ row'[s].processed = row[s].processed
  BY <1>0 DEF Tick, TypeOK, RowType
<1>2. UNCHANGED <<pc, batch, others>>
  BY DEF Tick
<1>3. \A v \in Workers : pc[v] \in Holding => Current(v) \in Rows
  BY <1>0, CurrentRow
<1> QED
  BY <1>0, <1>1, <1>2, <1>3, StillAlone, SnapshotSame

LEMMA InitChain == OneJob /\ Init => ChainInv
<1> SUFFICES ASSUME OneJob, Init PROVE ChainInv
  OBVIOUS
<1>1. Inv
  BY InitInv
<1>2. 1 \in Rows /\ Rows \subseteq Int
  BY OutboxAssumption DEF OutboxAssumption, Rows
<1>3. Alone(1)
  BY <1>2 DEF Init, OneJob, Rows, Alone, Waiting, NewRow, NoRow
<1>4. SnapshotInv
  BY DEF Init, SnapshotInv
<1> QED
  BY <1>1, <1>2, <1>3, <1>4 DEF ChainInv, OneWaits

LEMMA ChainIsInductive == OneJob /\ ChainInv /\ [Next]_vars => ChainInv'
<1> SUFFICES ASSUME OneJob, ChainInv, [Next]_vars PROVE ChainInv'
  OBVIOUS
<1>0. Inv'
  BY InvIsInductive DEF ChainInv
<1>1. ASSUME NEW w \in Workers, DrainStep(w) \/ Crash(w) PROVE OneWaits' /\ SnapshotInv'
  BY <1>1, WorkerChain
<1>2. ~Schedule
  BY DEF Schedule, OneJob
<1>3. ASSUME EnsureScheduled PROVE OneWaits' /\ SnapshotInv'
  BY <1>3, EnsureChain
<1>4. ASSUME NEW r \in Rows, RemoveProcessed(r) PROVE OneWaits' /\ SnapshotInv'
  BY <1>4, RemoveChain
<1>5. ASSUME Tick PROVE OneWaits' /\ SnapshotInv'
  BY <1>5, TickChain
<1>6. ASSUME UNCHANGED vars PROVE OneWaits' /\ SnapshotInv'
  BY <1>6 DEF vars, worker, ChainInv, OneWaits, Alone, Waiting, SnapshotInv, Current
<1> QED
  BY <1>0, <1>1, <1>2, <1>3, <1>4, <1>5, <1>6 DEF Next, ChainInv

(* A job that writes its next run when it gives one up never has two runs  *)
(* that wait and never none, whichever of its workers finish, fail, come   *)
(* late, die or start again, and however their statements interleave.      *)
THEOREM OneRun == OneJob /\ Spec => []OneRunWaits
<1>1. ChainInv => OneRunWaits
  <2> SUFFICES ASSUME NEW r \in Rows, Alone(r) PROVE OneRunWaits
    BY DEF ChainInv, OneWaits
  <2>1. Waiting = {r}
    BY DEF Alone, Waiting
  <2> QED
    BY <2>1, FS_Singleton DEF OneRunWaits
<1>2. ASSUME OneJob PROVE Spec => []OneRunWaits
  BY <1>1, <1>2, InitChain, ChainIsInductive, PTL DEF Spec
<1> QED
  BY <1>2

-----------------------------------------------------------------------------
(* One delivery.  No worker is slower with an event than Slowest, and a    *)
(* claim that comes late is followed at once by its first publish.         *)
PromptSteps == {"loop"} \cup AtEvent \subseteq Prompt

Trying == {"loop", "releasing"} \cup AtEvent

(* An attempt at a row is in the hands of one worker, ...                  *)
OneClaim ==
    \A v, w \in Workers : pc[v] \in Trying /\ pc[w] \in Trying =>
        \A i \in DOMAIN batch[v], j \in DOMAIN batch[w] :
            batch[v][i] = batch[w][j] => v = w

(* ... and the row's own count is that of the last claim, or above it.     *)
ClaimsCounted ==
    \A w \in Workers : pc[w] \in Trying =>
        \A i \in DOMAIN batch[w] : batch[w][i].attempt <= row[batch[w][i].row].attempts

Paced == \A w \in Workers : slowest[w] >= Slowest /\ (pc[w] \notin AtEvent => busy[w] = 0)

(* Nobody claimed the row after this event, and nobody will for a while.   *)
Guarded(e, left) ==
    /\ row[e.row].attempts = e.attempt
    /\ e.row \in Waiting => row[e.row].availableIn >= left

(* While less than a lease has passed since the drain began, its rows are  *)
(* guarded for the rest of it.  Where more has passed, because the claim   *)
(* was slow, the first event is guarded for a lease less its own time.     *)
LeaseOf(w) ==
    pc[w] \in {"loop"} \cup AtEvent =>
        /\ elapsed[w] < Lease =>
              \A i \in DOMAIN batch[w] : Guarded(batch[w][i], Lease - elapsed[w])
        /\ pc[w] = "loop" /\ first[w] =>
              \/ elapsed[w] + Slowest < Lease
              \/ \A i \in DOMAIN batch[w] : Guarded(batch[w][i], Lease)
        /\ pc[w] \in AtEvent =>
              /\ busy[w] <= Slowest
              /\ \/ elapsed[w] - busy[w] + Slowest < Lease
                 \/ Guarded(Head(batch[w]), Lease - busy[w])

LeaseInv == \A w \in Workers : LeaseOf(w)

DeliveryInv ==
    TryInv /\ OneClaim /\ ClaimsCounted /\ Paced /\ LeaseInv

LEMMA Times ==
  /\ Lease \in Int /\ Slowest \in Int /\ Horizon \in Int
  /\ 0 <= Slowest /\ Slowest < Lease /\ Horizon >= 0
  BY OutboxAssumption DEF OutboxAssumption

LEMMA TryingOf ==
  /\ Trying = {"loop", "releasing", "publishing", "published", "failing", "closing"}
  /\ AtEvent = {"publishing", "published", "failing", "closing"}
  BY DEF Trying, AtEvent

(* What a batch holds.                                                     *)
LEMMA HeldEvent ==
  ASSUME TableInv, NEW w \in Workers, NEW i \in DOMAIN batch[w]
  PROVE  /\ batch[w][i] \in Events /\ batch[w][i].row \in Rows
         /\ row[batch[w][i].row] \in RowType
         /\ row[batch[w][i].row].exists
         /\ row[batch[w][i].row].attempts \in Int /\ row[batch[w][i].row].availableIn \in Int
         /\ batch[w][i].attempt \in Int
<1>1. batch[w][i] \in Events /\ row[batch[w][i].row].exists
  BY DEF TableInv, TypeOK, Held
<1>2. batch[w][i].row \in Rows /\ batch[w][i].attempt \in Int
  BY <1>1, Numbers DEF Events
<1>3. row[batch[w][i].row] \in RowType
  BY <1>2 DEF TableInv, TypeOK
<1> QED
  BY <1>1, <1>2, <1>3, Numbers DEF RowType

(* Only this worker takes a step.                                          *)
OnlyStep(w) ==
    \A v \in Workers : v # w =>
        /\ pc'[v] = pc[v] /\ batch'[v] = batch[v] /\ first'[v] = first[v]
        /\ elapsed'[v] = elapsed[v] /\ busy'[v] = busy[v] /\ slowest'[v] = slowest[v]

(* ... and goes on trying the events it has, or fewer, or none.            *)
Narrows(w) ==
    /\ OnlyStep(w)
    /\ pc'[w] \in Trying =>
          /\ pc[w] \in Trying
          /\ \/ batch'[w] = batch[w]
             \/ batch[w] # << >> /\ batch'[w] = Tail(batch[w])

LEMMA BatchShrinks ==
  ASSUME TableInv, NEW w \in Workers, Narrows(w), NEW v \in Workers, pc'[v] \in Trying,
         NEW i \in DOMAIN batch'[v]
  PROVE  pc[v] \in Trying /\ \E j \in DOMAIN batch[v] : batch'[v][i] = batch[v][j]
<1>1. CASE batch'[v] = batch[v]
  BY <1>1 DEF Narrows, OnlyStep
<1>2. CASE v = w /\ batch[v] # << >> /\ batch'[v] = Tail(batch[v])
  BY <1>2, TailOf DEF TableInv, TypeOK, Narrows
<1> QED
  BY <1>1, <1>2 DEF Narrows, OnlyStep

-----------------------------------------------------------------------------
(* Claims.                                                                 *)

LEMMA ClaimsKept ==
  ASSUME DeliveryInv, NEW w \in Workers, Narrows(w),
         \A s \in Rows : row[s].exists => row'[s].attempts = row[s].attempts
  PROVE  OneClaim' /\ ClaimsCounted'
<1>0. TableInv /\ OneClaim /\ ClaimsCounted
  BY DEF DeliveryInv, TryInv, Inv
<1>2. OneClaim'
  <2> SUFFICES ASSUME NEW u \in Workers, NEW v \in Workers, pc'[u] \in Trying, pc'[v] \in Trying,
                      NEW i \in DOMAIN batch'[u], NEW j \in DOMAIN batch'[v],
                      batch'[u][i] = batch'[v][j]
               PROVE  u = v
    BY DEF OneClaim, Trying
  <2>1. pc[u] \in Trying /\ \E k \in DOMAIN batch[u] : batch'[u][i] = batch[u][k]
    BY <1>0, BatchShrinks
  <2>2. pc[v] \in Trying /\ \E k \in DOMAIN batch[v] : batch'[v][j] = batch[v][k]
    BY <1>0, BatchShrinks
  <2> QED
    BY <1>0, <2>1, <2>2 DEF OneClaim
<1>3. ClaimsCounted'
  <2> SUFFICES ASSUME NEW v \in Workers, pc'[v] \in Trying, NEW i \in DOMAIN batch'[v]
               PROVE  batch'[v][i].attempt <= row'[batch'[v][i].row].attempts
    BY DEF ClaimsCounted, Trying
  <2>1. pc[v] \in Trying /\ \E k \in DOMAIN batch[v] : batch'[v][i] = batch[v][k]
    BY <1>0, BatchShrinks
  <2>2. PICK k \in DOMAIN batch[v] :
          batch'[v][i] = batch[v][k] /\ batch[v][k].attempt <= row[batch[v][k].row].attempts
    BY <1>0, <2>1 DEF ClaimsCounted
  <2>3. batch[v][k].row \in Rows /\ row[batch[v][k].row].exists
    BY <1>0, HeldEvent
  <2> QED
    BY <2>2, <2>3
<1> QED
  BY <1>2, <1>3

(* The same, where no worker takes a step.                                 *)
LEMMA ClaimsSame ==
  ASSUME DeliveryInv, UNCHANGED <<pc, batch>>,
         \A v \in Workers : \A i \in DOMAIN batch[v] :
            row'[batch[v][i].row].attempts = row[batch[v][i].row].attempts
  PROVE  OneClaim' /\ ClaimsCounted'
  BY DEF DeliveryInv, OneClaim, ClaimsCounted, Trying

(* A row is handed back by its last claimer, or the statement does nothing.*)
LEMMA ReleaseClaims ==
  ASSUME DeliveryInv, NEW w \in Workers, ReleaseOne(w), Narrows(w)
  PROVE  OneClaim' /\ ClaimsCounted'
<1> DEFINE r == Current(w)
<1>0. TableInv /\ OneClaim /\ ClaimsCounted /\ TypeOK /\ HeldOnce
  BY DEF DeliveryInv, TryInv, Inv, TableInv
<1>1. /\ batch[w] \in Seq(Events) /\ batch[w] # << >> /\ r \in Rows
      /\ batch'[w] = Tail(batch[w]) /\ pc[w] \in Trying
    BY <1>0, CurrentRow, StagesOf DEF ReleaseOne, TypeOK, Trying
<1>2. 1 \in DOMAIN batch[w] /\ Head(batch[w]) = batch[w][1]
  BY <1>1, TailOf
<1>3. \A s \in Rows : s # r => row'[s].attempts = row[s].attempts
  BY <1>0 DEF ReleaseOne, Release, TypeOK, RowType
<1>4. \/ row' = row
      \/ row[r].attempts = batch[w][1].attempt /\ row'[r].attempts = row[r].attempts - 1
  BY <1>0, <1>1, <1>2 DEF ReleaseOne, Release, TypeOK, RowType
<1>5. CASE row' = row
  BY <1>0, <1>1, <1>5, ClaimsKept
<1>6. CASE row[r].attempts = batch[w][1].attempt /\ row'[r].attempts = row[r].attempts - 1
  <2>1. OneClaim'
    <3> SUFFICES ASSUME NEW u \in Workers, NEW v \in Workers, pc'[u] \in Trying,
                        pc'[v] \in Trying,
                        NEW i \in DOMAIN batch'[u], NEW j \in DOMAIN batch'[v],
                        batch'[u][i] = batch'[v][j]
                 PROVE  u = v
      BY DEF OneClaim, Trying
    <3>1. pc[u] \in Trying /\ \E k \in DOMAIN batch[u] : batch'[u][i] = batch[u][k]
      BY <1>0, BatchShrinks
    <3>2. pc[v] \in Trying /\ \E k \in DOMAIN batch[v] : batch'[v][j] = batch[v][k]
      BY <1>0, BatchShrinks
    <3> QED
      BY <1>0, <3>1, <3>2 DEF OneClaim
  <2>2. ClaimsCounted'
    <3> SUFFICES ASSUME NEW v \in Workers, pc'[v] \in Trying, NEW i \in DOMAIN batch'[v]
                 PROVE  batch'[v][i].attempt <= row'[batch'[v][i].row].attempts
      BY DEF ClaimsCounted, Trying
    <3>1. PICK k \in DOMAIN batch[v] :
             batch'[v][i] = batch[v][k] /\ (v = w => k # 1)
      <4>1. CASE v = w
        <5>1. i \in DOMAIN Tail(batch[w]) /\ Tail(batch[w]) \in Seq(Events)
          BY <1>1, <4>1, TailOf
        <5>2. i + 1 \in DOMAIN batch[w] /\ batch'[w][i] = batch[w][i + 1]
          BY <1>1, <5>1, TailOf
        <5>3. i + 1 # 1
          BY <5>1
        <5> QED
          BY <4>1, <5>2, <5>3
      <4>2. CASE v # w
        BY <4>2, <1>0, BatchShrinks
      <4> QED
        BY <4>1, <4>2
    <3>2. pc[v] \in Trying
      BY <1>0, BatchShrinks
    <3>3. batch[v][k].attempt <= row[batch[v][k].row].attempts
      BY <1>0, <3>2 DEF ClaimsCounted
    <3>4. /\ batch[v][k] \in Events /\ batch[v][k].row \in Rows /\ batch[v][k].attempt \in Int
          /\ row[batch[v][k].row].attempts \in Int
      BY <1>0, HeldEvent
    <3>5. CASE batch[v][k].row # r
      BY <1>3, <3>1, <3>3, <3>4, <3>5
    <3>6. CASE batch[v][k].row = r
      <4>1. batch[w][1] \in Events /\ batch[w][1].row = r
        BY <1>1, <1>2, TailOf DEF Current
      <4>2. v # w
        BY <1>0, <1>2, <3>1, <3>6, <4>1 DEF HeldOnce
      <4>3. batch[v][k].attempt # batch[w][1].attempt
        <5>1. batch[v][k] # batch[w][1]
          BY <1>0, <1>1, <1>2, <3>2, <4>2 DEF OneClaim
        <5> QED
          BY <3>4, <3>6, <4>1, <5>1 DEF Events
      <4> QED
        BY <1>6, <3>1, <3>3, <3>4, <3>6, <4>3
    <3> QED
      BY <3>5, <3>6
  <2> QED
    BY <2>1, <2>2
<1> QED
  BY <1>4, <1>5, <1>6

(* What a claim does to the table and gives the worker.                    *)
ClaimedBy(w, claimed) ==
    /\ claimed \subseteq Rows
    /\ \A s \in Rows :
         /\ row'[s].exists = row[s].exists /\ row'[s].processed = row[s].processed
         /\ s \notin claimed => row'[s] = row[s]
         /\ s \in claimed =>
              /\ row'[s].attempts = row[s].attempts + 1 /\ row'[s].availableIn = Lease
              /\ s \in Waiting /\ row[s].availableIn <= 0
    /\ \A i \in DOMAIN batch'[w] :
         /\ batch'[w][i].row \in claimed
         /\ batch'[w][i].attempt = row[batch'[w][i].row].attempts + 1
    /\ \A v \in Workers : v # w => batch'[v] = batch[v] /\ pc'[v] = pc[v]
    /\ pc'[w] = "loop"

LEMMA ClaimEffect ==
  ASSUME TypeOK, NEW w \in Workers, ClaimBatch(w)
  PROVE  ClaimedBy(w, FirstOf(Claimable, BatchSize))
<1> DEFINE claimed == FirstOf(Claimable, BatchSize)
<1>1. claimed \in SUBSET Rows /\ \A s \in claimed : s \in Waiting /\ row[s].availableIn <= 0
  BY DEF FirstOf, Claimable, Waiting
<1>2. /\ row' = [r \in Rows |->
                    IF r \in claimed
                    THEN [row[r] EXCEPT !.attempts = @ + 1, !.availableIn = Lease,
                                        !.claimedAgo = 0]
                    ELSE row[r]]
      /\ pc' = [pc EXCEPT ![w] = "loop"]
  BY DEF ClaimBatch
<1>3. PICK order \in Orders(claimed) :
        batch' = [batch EXCEPT ![w] = [i \in DOMAIN order |-> EventOf(order[i])]]
  BY DEF ClaimBatch
<1>4. \A i \in DOMAIN order : order[i] \in claimed
  BY <1>1, <1>3, OrdersSeq
<1> HIDE DEF claimed
<1>5. batch'[w] = [i \in DOMAIN order |-> EventOf(order[i])]
  BY <1>3 DEF TypeOK
<1>6. ASSUME NEW i \in DOMAIN batch'[w]
      PROVE  /\ batch'[w][i].row \in claimed
             /\ batch'[w][i].attempt = row[batch'[w][i].row].attempts + 1
  BY <1>4, <1>5 DEF EventOf
<1>7. ASSUME NEW s \in Rows
      PROVE  /\ row'[s].exists = row[s].exists /\ row'[s].processed = row[s].processed
             /\ s \notin claimed => row'[s] = row[s]
             /\ s \in claimed =>
                  row'[s].attempts = row[s].attempts + 1 /\ row'[s].availableIn = Lease
  <2>1. row[s] \in RowType
    BY DEF TypeOK
  <2> QED
    BY <1>2, <2>1 DEF RowType
<1>8. \A v \in Workers : v # w => batch'[v] = batch[v] /\ pc'[v] = pc[v]
  BY <1>2, <1>3 DEF TypeOK
<1>9. pc'[w] = "loop"
  BY <1>2 DEF TypeOK
<1>10. ClaimedBy(w, claimed)
  BY <1>1, <1>6, <1>7, <1>8, <1>9 DEF ClaimedBy
<1> QED
  BY <1>10 DEF claimed

LEMMA ClaimClaims ==
  ASSUME DeliveryInv, NEW w \in Workers, ClaimBatch(w)
  PROVE  OneClaim' /\ ClaimsCounted'
<1>0. TableInv /\ OneClaim /\ ClaimsCounted /\ TypeOK
  BY DEF DeliveryInv, TryInv, Inv, TableInv
<1>1. PICK claimed : ClaimedBy(w, claimed)
  BY <1>0, ClaimEffect
(* The claim counts above every attempt in the hands of another worker.    *)
<1>2. ASSUME NEW v \in Workers, v # w, pc'[v] \in Trying, NEW i \in DOMAIN batch'[v]
      PROVE  /\ batch'[v][i].attempt <= row'[batch'[v][i].row].attempts
             /\ batch'[v][i].row \in claimed =>
                  batch'[v][i].attempt < row'[batch'[v][i].row].attempts
  <2>1. pc[v] \in Trying /\ i \in DOMAIN batch[v] /\ batch'[v] = batch[v]
    BY <1>1, <1>2 DEF ClaimedBy
  <2>2. batch[v][i].attempt <= row[batch[v][i].row].attempts
    BY <1>0, <2>1 DEF ClaimsCounted
  <2>3. /\ batch[v][i].row \in Rows /\ batch[v][i].attempt \in Int
        /\ row[batch[v][i].row].attempts \in Int
    BY <1>0, <2>1, HeldEvent
  <2> QED
    BY <1>1, <2>1, <2>2, <2>3 DEF ClaimedBy
<1>3. ASSUME NEW i \in DOMAIN batch'[w]
      PROVE  /\ batch'[w][i].attempt = row'[batch'[w][i].row].attempts
             /\ batch'[w][i].row \in claimed /\ row'[batch'[w][i].row].attempts \in Int
  <2>1. batch'[w][i].row \in Rows /\ batch'[w][i].row \in claimed
    BY <1>1 DEF ClaimedBy
  <2>2. row[batch'[w][i].row].attempts \in Int
    BY <1>0, <2>1 DEF TypeOK, RowType
  <2> QED
    BY <1>1, <2>1, <2>2 DEF ClaimedBy
<1>4. ClaimsCounted'
  <2> SUFFICES ASSUME NEW v \in Workers, pc'[v] \in Trying, NEW i \in DOMAIN batch'[v]
               PROVE  batch'[v][i].attempt <= row'[batch'[v][i].row].attempts
    BY DEF ClaimsCounted, Trying
  <2> QED
    BY <1>2, <1>3
<1>5. OneClaim'
  <2> SUFFICES ASSUME NEW u \in Workers, NEW v \in Workers, pc'[u] \in Trying, pc'[v] \in Trying,
                      NEW i \in DOMAIN batch'[u], NEW j \in DOMAIN batch'[v],
                      batch'[u][i] = batch'[v][j], u # v
               PROVE  FALSE
    BY DEF OneClaim, Trying
  <2>1. CASE u = w
    <3>1. batch'[v][j].attempt < row'[batch'[v][j].row].attempts
      BY <1>2, <1>3, <2>1
    <3> QED
      BY <1>3, <2>1, <3>1
  <2>2. CASE v = w
    <3>1. batch'[u][i].attempt < row'[batch'[u][i].row].attempts
      BY <1>2, <1>3, <2>2
    <3> QED
      BY <1>3, <2>2, <3>1
  <2>3. CASE u # w /\ v # w
    BY <1>0, <1>1, <2>3 DEF ClaimedBy, OneClaim
  <2> QED
    BY <2>1, <2>2, <2>3
<1> QED
  BY <1>4, <1>5

-----------------------------------------------------------------------------
(* Guards.                                                                 *)

(* A statement that leaves the row's count and, while it waits, its time.  *)
Spared(s) ==
    /\ row'[s].attempts = row[s].attempts
    /\ s \in Waiting' => s \in Waiting /\ row'[s].availableIn = row[s].availableIn

StillGuarded(e, left) ==
    /\ row'[e.row].attempts = e.attempt
    /\ e.row \in Waiting' => row'[e.row].availableIn >= left

LEMMA GuardSpared ==
  ASSUME NEW e \in Events, NEW left \in Int, Guarded(e, left), Spared(e.row)
  PROVE  StillGuarded(e, left)
  BY DEF Guarded, StillGuarded, Spared

LEMMA GuardLess ==
  ASSUME TypeOK, NEW e \in Events, NEW left \in Int, NEW less \in Int, less <= left,
         Guarded(e, left)
  PROVE  Guarded(e, less)
<1>1. row[e.row].availableIn \in Int
  BY DEF TypeOK, Events, RowType
<1> QED
  BY <1>1 DEF Guarded

LEMMA LeaseAfter ==
  ASSUME NEW w \in Workers,
         pc'[w] \in {"loop"} \cup AtEvent =>
           /\ elapsed'[w] < Lease =>
                 \A i \in DOMAIN batch'[w] : StillGuarded(batch'[w][i], Lease - elapsed'[w])
           /\ pc'[w] = "loop" /\ first'[w] =>
                 \/ elapsed'[w] + Slowest < Lease
                 \/ \A i \in DOMAIN batch'[w] : StillGuarded(batch'[w][i], Lease)
           /\ pc'[w] \in AtEvent =>
                 /\ busy'[w] <= Slowest
                 /\ \/ elapsed'[w] - busy'[w] + Slowest < Lease
                    \/ StillGuarded(Head(batch'[w]), Lease - busy'[w])
  PROVE  LeaseOf(w)'
  BY DEF LeaseOf, Guarded, StillGuarded, AtEvent

(* The rows a worker may still deliver stay guarded.                       *)
StaysGuarded(u) ==
    pc[u] \in {"loop"} \cup AtEvent =>
        \A i \in DOMAIN batch[u], left \in Int :
            left > 0 /\ Guarded(batch[u][i], left) => StillGuarded(batch[u][i], left)

(* A worker that stays at its event while its rows stay guarded.           *)
LEMMA LeaseStays ==
  ASSUME DeliveryInv, NEW u \in Workers,
         pc'[u] = pc[u] \/ (pc[u] \in AtEvent /\ pc'[u] \in AtEvent),
         batch'[u] = batch[u] /\ first'[u] = first[u],
         elapsed'[u] = elapsed[u] /\ busy'[u] = busy[u], StaysGuarded(u)
  PROVE  LeaseOf(u)'
<1>0. TableInv /\ TypeOK /\ LeaseOf(u)
  BY DEF DeliveryInv, TryInv, Inv, TableInv, LeaseInv
<1>1. elapsed[u] \in Int /\ busy[u] \in Int
  BY <1>0, Times DEF TypeOK
<1>2. ASSUME pc[u] \in {"loop"} \cup AtEvent
      PROVE  /\ elapsed[u] < Lease =>
                   \A i \in DOMAIN batch[u] : StillGuarded(batch[u][i], Lease - elapsed[u])
             /\ pc[u] = "loop" /\ first[u] =>
                   \/ elapsed[u] + Slowest < Lease
                   \/ \A i \in DOMAIN batch[u] : StillGuarded(batch[u][i], Lease)
             /\ pc[u] \in AtEvent =>
                   /\ busy[u] <= Slowest
                   /\ \/ elapsed[u] - busy[u] + Slowest < Lease
                      \/ StillGuarded(Head(batch[u]), Lease - busy[u])
  <2>1. elapsed[u] < Lease => Lease - elapsed[u] \in Int /\ Lease - elapsed[u] > 0
    BY <1>1, Times
  <2>2. Lease \in Int /\ Lease > 0
    BY Times
  <2>3. busy[u] <= Slowest => Lease - busy[u] \in Int /\ Lease - busy[u] > 0
    BY <1>1, Times
  <2>4. pc[u] \in AtEvent => 1 \in DOMAIN batch[u] /\ Head(batch[u]) = batch[u][1]
    BY <1>0, CurrentRow, TailOf, StagesOf, TryingOf
  <2>5. /\ elapsed[u] < Lease =>
             \A i \in DOMAIN batch[u] : Guarded(batch[u][i], Lease - elapsed[u])
        /\ pc[u] = "loop" /\ first[u] =>
             \/ elapsed[u] + Slowest < Lease
             \/ \A i \in DOMAIN batch[u] : Guarded(batch[u][i], Lease)
        /\ pc[u] \in AtEvent =>
             /\ busy[u] <= Slowest
             /\ \/ elapsed[u] - busy[u] + Slowest < Lease
                \/ Guarded(Head(batch[u]), Lease - busy[u])
    BY <1>0, <1>2 DEF LeaseOf
  <2>6. \A i \in DOMAIN batch[u], left \in Int :
           left > 0 /\ Guarded(batch[u][i], left) => StillGuarded(batch[u][i], left)
    BY <1>2 DEF StaysGuarded
  <2>7. elapsed[u] < Lease =>
           \A i \in DOMAIN batch[u] : StillGuarded(batch[u][i], Lease - elapsed[u])
    BY <2>1, <2>5, <2>6
  <2>8. pc[u] = "loop" /\ first[u] =>
           \/ elapsed[u] + Slowest < Lease
           \/ \A i \in DOMAIN batch[u] : StillGuarded(batch[u][i], Lease)
    BY <2>2, <2>5, <2>6
  <2>9. pc[u] \in AtEvent =>
           /\ busy[u] <= Slowest
           /\ \/ elapsed[u] - busy[u] + Slowest < Lease
              \/ StillGuarded(Head(batch[u]), Lease - busy[u])
    BY <2>3, <2>4, <2>5, <2>6
  <2> QED
    BY <2>7, <2>8, <2>9
<1>3. /\ pc'[u] \in {"loop"} \cup AtEvent => pc[u] \in {"loop"} \cup AtEvent
      /\ pc'[u] = "loop" <=> pc[u] = "loop"
      /\ pc'[u] \in AtEvent <=> pc[u] \in AtEvent
  BY TryingOf
<1> QED
  BY <1>2, <1>3, LeaseAfter

-----------------------------------------------------------------------------
(* Which rows the statements spare.                                        *)
LEMMA ClosedSpares ==
  ASSUME TableInv, NEW r \in Rows, row[r].exists,
         row' = Closed(r) \/ \E delay \in Int : Inserts(Closed(r), delay),
         NEW s \in Rows, row[s].exists
  PROVE  Spared(s)
<1>1. row \in [Rows -> RowType] /\ ClosedOf(Closed(r), r)
  BY ClosedTable DEF TableInv, TypeOK
<1>2. row'[s] = Closed(r)[s]
  <2>1. CASE row' = Closed(r)
    BY <2>1
  <2>2. CASE \E delay \in Int : Inserts(Closed(r), delay)
    <3>1. PICK delay \in Int, n \in Rows :
            ~Closed(r)[n].exists /\ row' = [Closed(r) EXCEPT ![n] = NewRow(delay)]
      BY <2>2 DEF Inserts
    <3>2. s # n
      BY <1>1, <3>1 DEF ClosedOf
    <3> QED
      BY <1>1, <3>1, <3>2 DEF ClosedOf
  <2> QED
    BY <2>1, <2>2
<1> QED
  BY <1>1, <1>2 DEF ClosedOf, Spared, Waiting

LEMMA MarkSpares ==
  ASSUME TableInv, NEW r \in Rows, row[r].exists, MarkProcessed(r), NEW s \in Rows, row[s].exists
  PROVE  Spared(s)
<1>1. CASE row' = row
  BY <1>1 DEF Spared, Waiting
<1>2. CASE row' = Closed(r) \/ Inserts(Closed(r), Interval)
  BY <1>2, ClosedSpares, Numbers
<1> QED
  BY <1>1, <1>2 DEF MarkProcessed

LEMMA GiveUpSpares ==
  ASSUME TableInv, NEW w \in Workers, NEW r \in Rows, row[r].exists, GiveUp(w, r),
         NEW s \in Rows, row[s].exists
  PROVE  Spared(s)
<1>1. CASE row' = row
  BY <1>1 DEF Spared, Waiting
<1>2. CASE row' = Closed(r) \/ Inserts(Closed(r), Interval)
  BY <1>2, ClosedSpares, Numbers
<1> QED
  BY <1>1, <1>2 DEF GiveUp

LEMMA RetrySpares ==
  ASSUME TableInv, NEW r \in Rows, NEW delay \in Int, ScheduleRetry(r, delay),
         NEW s \in Rows, s # r
  PROVE  Spared(s)
<1>1. row'[s] = row[s]
  BY DEF ScheduleRetry, TableInv, TypeOK
<1> QED
  BY <1>1 DEF Spared, Waiting

LEMMA ReleaseSpares ==
  ASSUME TableInv, NEW r \in Rows, NEW attempt \in Int, Release(r, attempt),
         NEW s \in Rows, s # r \/ row[r].attempts # attempt
  PROVE  Spared(s)
<1>1. row'[s] = row[s]
  BY DEF Release, TableInv, TypeOK
<1> QED
  BY <1>1 DEF Spared, Waiting

LEMMA LeaseOthers ==
  ASSUME DeliveryInv, NEW w \in Workers, OnlyStep(w), LeaseOf(w)',
         \A u \in Workers : u # w => StaysGuarded(u)
  PROVE  LeaseInv'
<1>1. ASSUME NEW u \in Workers, u # w PROVE LeaseOf(u)'
  <2>1. /\ pc'[u] = pc[u] /\ batch'[u] = batch[u] /\ first'[u] = first[u]
        /\ elapsed'[u] = elapsed[u] /\ busy'[u] = busy[u]
    BY <1>1 DEF OnlyStep
  <2>2. StaysGuarded(u)
    BY <1>1
  <2> QED
    BY <2>1, <2>2, LeaseStays
<1> QED
  BY <1>1 DEF LeaseInv

LEMMA SparedGuards ==
  ASSUME TableInv, \A s \in Rows : row[s].exists => Spared(s), NEW u \in Workers
  PROVE  StaysGuarded(u)
<1>1. ASSUME NEW i \in DOMAIN batch[u], NEW left \in Int, Guarded(batch[u][i], left)
      PROVE  StillGuarded(batch[u][i], left)
  <2>1. batch[u][i] \in Events /\ batch[u][i].row \in Rows /\ row[batch[u][i].row].exists
    BY HeldEvent
  <2> QED
    BY <1>1, <2>1, GuardSpared
<1> QED
  BY <1>1 DEF StaysGuarded

LEMMA LeaseSpared ==
  ASSUME DeliveryInv, NEW w \in Workers, OnlyStep(w), LeaseOf(w)',
         \A s \in Rows : row[s].exists => Spared(s)
  PROVE  LeaseInv'
  BY SparedGuards, LeaseOthers DEF DeliveryInv, TryInv, Inv

(* The worker itself: it leaves, it stays at its event, it goes on.        *)
LEMMA LeaseLeft ==
  ASSUME NEW w \in Workers, pc'[w] \notin {"loop"} \cup AtEvent
  PROVE  LeaseOf(w)'
  BY LeaseAfter

LEMMA LeaseGoesOn ==
  ASSUME DeliveryInv, NEW w \in Workers, pc[w] \in AtEvent, NextEvent(w),
         \A s \in Rows : row[s].exists /\ s # Current(w) => Spared(s)
  PROVE  LeaseOf(w)'
<1>0. TableInv /\ TypeOK /\ HeldOnce /\ LeaseOf(w)
  BY DEF DeliveryInv, TryInv, Inv, TableInv, LeaseInv
<1>1. /\ pc'[w] = "loop" /\ ~first'[w] /\ batch'[w] = Tail(batch[w])
      /\ elapsed'[w] = elapsed[w]
  BY <1>0 DEF NextEvent, TypeOK
<1>2. batch[w] # << >> /\ batch[w] \in Seq(Events) /\ Tail(batch[w]) \in Seq(Events)
  BY <1>0, CurrentRow, StagesOf, TryingOf
<1>3. 1 \in DOMAIN batch[w] /\ Head(batch[w]) = batch[w][1]
  BY <1>2, TailOf
<1>4. elapsed[w] \in Int
  BY <1>0, Times DEF TypeOK
<1>5. ASSUME elapsed[w] < Lease, NEW i \in DOMAIN batch'[w]
      PROVE  StillGuarded(batch'[w][i], Lease - elapsed[w])
  <2>1. i \in DOMAIN Tail(batch[w])
    BY <1>1, <1>5
  <2>2. i + 1 \in DOMAIN batch[w] /\ Tail(batch[w])[i] = batch[w][i + 1]
    BY <1>2, <2>1, TailOf
  <2>3. i + 1 # 1
    BY <1>2, <2>1
  <2>4. Guarded(batch[w][i + 1], Lease - elapsed[w])
    BY <1>0, <1>5, <2>2 DEF LeaseOf
  <2>5. /\ batch[w][i + 1] \in Events /\ batch[w][i + 1].row \in Rows
        /\ row[batch[w][i + 1].row].exists
    BY <1>0, <2>2, HeldEvent
  <2>6. batch[w][i + 1].row # Current(w)
    BY <1>0, <1>3, <2>2, <2>3 DEF HeldOnce, Current
  <2>7. Lease - elapsed[w] \in Int
    BY <1>4, Times
  <2> QED
    BY <1>1, <2>2, <2>4, <2>5, <2>6, <2>7, GuardSpared
<1>6. pc'[w] \notin AtEvent
  BY <1>1, TryingOf
<1> QED
  BY <1>1, <1>5, <1>6, LeaseAfter

-----------------------------------------------------------------------------
(* The steps of a worker.                                                  *)
LEMMA PacedKept ==
  ASSUME DeliveryInv, NEW w \in Workers, OnlyStep(w), slowest'[w] >= Slowest,
         pc'[w] \notin AtEvent => busy'[w] = 0
  PROVE  Paced'
<1> SUFFICES ASSUME NEW v \in Workers
             PROVE  slowest'[v] >= Slowest /\ (pc'[v] \notin AtEvent => busy'[v] = 0)
  BY DEF Paced, AtEvent
<1> QED
  BY DEF DeliveryInv, Paced, OnlyStep

(* A worker at an event is the last one that claimed its row.              *)
LEMMA CurrentGuarded ==
  ASSUME DeliveryInv, NEW w \in Workers, pc[w] \in AtEvent
  PROVE  /\ row[Current(w)].attempts = Head(batch[w]).attempt
         /\ 1 \in DOMAIN batch[w] /\ Head(batch[w]) = batch[w][1]
         /\ batch[w][1].row = Current(w)
<1>0. TableInv /\ TypeOK /\ LeaseOf(w)
  BY DEF DeliveryInv, TryInv, Inv, TableInv, LeaseInv
<1>1. 1 \in DOMAIN batch[w] /\ Head(batch[w]) = batch[w][1]
  BY <1>0, CurrentRow, TailOf, StagesOf, TryingOf
<1>2. elapsed[w] \in Int /\ busy[w] \in Int
  BY <1>0, Times DEF TypeOK
<1>3. busy[w] <= Slowest
  BY <1>0 DEF LeaseOf
<1>4. CASE elapsed[w] - busy[w] + Slowest < Lease
  <2>1. elapsed[w] < Lease
    BY <1>2, <1>3, <1>4, Times
  <2>2. Guarded(batch[w][1], Lease - elapsed[w])
    BY <1>0, <1>1, <2>1 DEF LeaseOf
  <2> QED
    BY <1>1, <2>2 DEF Guarded, Current
<1>5. CASE Guarded(Head(batch[w]), Lease - busy[w])
  BY <1>1, <1>5 DEF Guarded, Current
<1> QED
  BY <1>0, <1>4, <1>5 DEF LeaseOf

(* A row that one worker may still deliver is not the one that another     *)
(* worker claimed last.                                                    *)
LEMMA GuardedElsewhere ==
  ASSUME DeliveryInv, NEW w \in Workers, NEW u \in Workers, u # w,
         pc[w] \in Trying, pc[u] \in Trying, NEW i \in DOMAIN batch[u], NEW j \in DOMAIN batch[w],
         NEW left \in Int, Guarded(batch[u][i], left),
         row[batch[w][j].row].attempts = batch[w][j].attempt
  PROVE  batch[u][i].row # batch[w][j].row
<1>1. batch[u][i] \in Events /\ batch[w][j] \in Events
  BY HeldEvent DEF DeliveryInv, TryInv, Inv
<1>2. batch[u][i] # batch[w][j]
  BY DEF DeliveryInv, OneClaim
<1>3. batch[u][i].attempt = row[batch[u][i].row].attempts
  BY DEF Guarded
<1> QED
  BY <1>1, <1>2, <1>3 DEF Events

Delivers == OneClaim' /\ ClaimsCounted' /\ Paced' /\ LeaseInv'

LEMMA SameSpared ==
  ASSUME row' = row, NEW s \in Rows
  PROVE  Spared(s) /\ row'[s].attempts = row[s].attempts
  BY DEF Spared, Waiting

LEMMA SparedDelivers ==
  ASSUME DeliveryInv, NEW w \in Workers, Narrows(w), LeaseOf(w)',
         \A s \in Rows : row[s].exists => Spared(s),
         slowest'[w] >= Slowest, pc'[w] \notin AtEvent => busy'[w] = 0
  PROVE  Delivers
  BY ClaimsKept, PacedKept, LeaseSpared DEF Delivers, Narrows, Spared

LEMMA LeaveDelivers ==
  ASSUME DeliveryInv, NEW w \in Workers,
         \/ DrainStarts(w) \/ StopBatch(w) \/ LoopEnds(w) \/ FindLost(w)
         \/ CloseLostStarts(w) \/ DrainEnds(w) \/ Crash(w)
  PROVE  Delivers
<1>0. TypeOK /\ Paced
  BY DEF DeliveryInv, TryInv, Inv, TableInv
<1>1. OnlyStep(w) /\ row' = row
  BY <1>0 DEF DrainStarts, StopBatch, LoopEnds, FindLost, CloseLostStarts, DrainEnds, Crash,
              Idles, SnapshotOthers, TypeOK, OnlyStep
<1>2. /\ pc'[w] \notin {"loop"} \cup AtEvent
      /\ pc'[w] \in Trying => pc[w] \in Trying /\ batch'[w] = batch[w]
  BY <1>0, TryingOf DEF DrainStarts, StopBatch, LoopEnds, FindLost, CloseLostStarts, DrainEnds,
                        Crash, Idles, TypeOK
<1>3. slowest'[w] >= Slowest /\ busy'[w] = 0
  <2>1. slowest[w] >= Slowest /\ (pc[w] \notin AtEvent => busy[w] = 0) /\ Slowest >= Slowest
    BY <1>0, Times DEF Paced
  <2>2. CASE Idles(w)
    BY <1>0, <2>1, <2>2 DEF Idles, TypeOK
  <2>3. CASE slowest' = slowest /\ busy' = busy /\ pc[w] \notin AtEvent
    BY <2>1, <2>3
  <2> QED
    BY <2>2, <2>3, TryingOf DEF DrainStarts, StopBatch, LoopEnds, FindLost, CloseLostStarts,
                                DrainEnds, Crash
<1>4. Narrows(w)
  BY <1>1, <1>2 DEF Narrows
<1> QED
  BY <1>1, <1>2, <1>3, <1>4, LeaseLeft, SameSpared, SparedDelivers

LEMMA StartDelivers ==
  ASSUME DeliveryInv, NEW w \in Workers, StartPublish(w)
  PROVE  Delivers
<1>0. TypeOK /\ Paced /\ TableInv /\ LeaseOf(w)
  BY DEF DeliveryInv, TryInv, Inv, TableInv, LeaseInv
<1>1. /\ pc[w] = "loop" /\ pc'[w] = "publishing" /\ row' = row
      /\ UNCHANGED <<batch, first, elapsed, busy, slowest>>
      /\ batch[w] # << >> /\ batch[w] \in Seq(Events) /\ ~TooLate(w)
  BY <1>0 DEF StartPublish, TypeOK
<1>2. 1 \in DOMAIN batch[w] /\ Head(batch[w]) = batch[w][1]
  BY <1>1, TailOf
<1>3. slowest[w] >= Slowest /\ busy[w] = 0
  BY <1>0, <1>1, TryingOf DEF Paced
<1>4. elapsed[w] \in Int /\ slowest[w] \in Int
  BY <1>0, Times DEF TypeOK
<1>5. Narrows(w)
  BY <1>0, <1>1, TryingOf DEF Narrows, OnlyStep, StartPublish, TypeOK
<1>6. \/ elapsed[w] + Slowest < Lease
      \/ \A i \in DOMAIN batch[w] : Guarded(batch[w][i], Lease)
  <2>1. CASE first[w]
    BY <1>0, <1>1, <2>1 DEF LeaseOf
  <2>2. CASE ~first[w]
    BY <1>1, <1>3, <1>4, <2>2, Times DEF TooLate
  <2> QED
    BY <2>1, <2>2
<1>7. \A i \in DOMAIN batch[w], left \in Int :
         Guarded(batch[w][i], left) => StillGuarded(batch[w][i], left)
  BY <1>1 DEF Guarded, StillGuarded, Waiting
<1>8. elapsed[w] < Lease =>
         \A i \in DOMAIN batch[w] : StillGuarded(batch[w][i], Lease - elapsed[w])
  <2>1. Lease - elapsed[w] \in Int
    BY <1>4, Times
  <2>2. elapsed[w] < Lease =>
           \A i \in DOMAIN batch[w] : Guarded(batch[w][i], Lease - elapsed[w])
    BY <1>0, <1>1 DEF LeaseOf
  <2> QED
    BY <1>7, <2>1, <2>2
<1>9. /\ busy[w] <= Slowest
      /\ \/ elapsed[w] - busy[w] + Slowest < Lease
         \/ StillGuarded(Head(batch[w]), Lease - busy[w])
  <2>1. busy[w] <= Slowest /\ elapsed[w] - busy[w] = elapsed[w] /\ Lease - busy[w] = Lease
    BY <1>3, <1>4, Times
  <2>2. CASE \A i \in DOMAIN batch[w] : Guarded(batch[w][i], Lease)
    BY <1>2, <1>7, <2>1, <2>2, Times
  <2> QED
    BY <1>6, <2>1, <2>2
<1>10. LeaseOf(w)'
  BY <1>1, <1>8, <1>9, LeaseAfter
<1> QED
  BY <1>1, <1>3, <1>5, <1>10, TryingOf, SameSpared, SparedDelivers

LEMMA StayDelivers ==
  ASSUME DeliveryInv, NEW w \in Workers, PublishEnds(w) \/ GiveUpStarts(w) \/ MarkThrows(w)
  PROVE  Delivers
<1>0. TypeOK /\ Paced /\ TableInv /\ LeaseOf(w)
  BY DEF DeliveryInv, TryInv, Inv, TableInv, LeaseInv
<1>1. /\ pc[w] \in AtEvent /\ pc'[w] \in AtEvent /\ OnlyStep(w)
      /\ UNCHANGED <<batch, first, elapsed, busy, slowest>>
  BY <1>0, TryingOf DEF PublishEnds, GiveUpStarts, MarkThrows, OnlyStep, TypeOK
<1>2. ASSUME NEW s \in Rows, row[s].exists PROVE Spared(s)
  <2>1. CASE row' = row
    BY <2>1, SameSpared
  <2>2. CASE MarkProcessed(Current(w))
    <3>1. Current(w) \in Rows /\ row[Current(w)].exists
      BY <1>0, <1>1, CurrentRow, StagesOf, TryingOf
    <3> QED
      BY <1>0, <1>2, <2>2, <3>1, MarkSpares
  <2> QED
    BY <2>1, <2>2 DEF PublishEnds, GiveUpStarts, MarkThrows
<1>3. Narrows(w)
  BY <1>1, TryingOf DEF Narrows
<1>4. StaysGuarded(w)
  BY <1>0, <1>2, SparedGuards
<1>5. LeaseOf(w)'
  BY <1>1, <1>4, LeaseStays
<1>6. slowest'[w] >= Slowest
  BY <1>0, <1>1 DEF Paced
<1> QED
  BY <1>1, <1>2, <1>3, <1>5, <1>6, SparedDelivers

LEMMA NextEventPaced ==
  ASSUME DeliveryInv, NEW w \in Workers, NextEvent(w)
  PROVE  pc'[w] = "loop" /\ slowest'[w] >= Slowest /\ busy'[w] = 0 /\ OnlyStep(w)
<1>0. TypeOK /\ Paced
  BY DEF DeliveryInv, TryInv, Inv, TableInv
<1>1. slowest[w] \in Int /\ busy[w] \in Int /\ slowest[w] >= Slowest
  BY <1>0, Times DEF TypeOK, Paced
<1>2. slowest'[w] = Larger(slowest[w], busy[w])
  BY <1>0 DEF NextEvent, TypeOK
<1>3. slowest'[w] >= Slowest
  BY <1>1, <1>2, Times DEF Larger
<1> QED
  BY <1>0, <1>3 DEF NextEvent, TypeOK, OnlyStep

LEMMA GoOnDelivers ==
  ASSUME DeliveryInv, NEW w \in Workers, MarkSucceeds(w) \/ GiveUpEnds(w)
  PROVE  Delivers
<1>0. TypeOK /\ TableInv
  BY DEF DeliveryInv, TryInv, Inv, TableInv
<1>1. pc[w] \in AtEvent /\ NextEvent(w) /\ pc[w] \in Trying
  BY TryingOf DEF MarkSucceeds, GiveUpEnds
<1>2. Current(w) \in Rows /\ row[Current(w)].exists /\ batch[w] # << >>
  BY <1>0, <1>1, CurrentRow, StagesOf, TryingOf
<1>3. \A s \in Rows : row[s].exists => Spared(s)
  BY <1>0, <1>2, MarkSpares, GiveUpSpares DEF MarkSucceeds, GiveUpEnds
<1>4. LeaseOf(w)'
  BY <1>1, <1>3, LeaseGoesOn
<1>5. Narrows(w)
  BY <1>0, <1>1, <1>2, NextEventPaced DEF Narrows, NextEvent, TypeOK
<1> QED
  BY <1>1, <1>3, <1>4, <1>5, NextEventPaced, SparedDelivers

(* The report of a failure is of the last claim: it frees nobody else's.   *)
LEMMA FailDelivers ==
  ASSUME DeliveryInv, NEW w \in Workers, AttemptFails(w)
  PROVE  Delivers
<1>0. TypeOK /\ TableInv
  BY DEF DeliveryInv, TryInv, Inv, TableInv
<1>1. pc[w] \in AtEvent /\ NextEvent(w) /\ pc[w] \in Trying
  BY TryingOf DEF AttemptFails
<1>2. Current(w) \in Rows /\ row[Current(w)].exists /\ batch[w] # << >>
  BY <1>0, <1>1, CurrentRow, StagesOf, TryingOf
<1>3. PICK delay \in Int : ScheduleRetry(Current(w), delay)
  <2>1. Head(batch[w]).attempt \in 1 .. MaxAttempts
    BY <1>0, <1>2, CurrentRow, TailOf, <1>1, StagesOf, TryingOf DEF Events
  <2>2. RetryDelay(Head(batch[w]).attempt) \in Int
    BY <2>1, DelayType
  <2> QED
    BY <2>2 DEF AttemptFails
<1>4. \A s \in Rows : s # Current(w) => Spared(s)
  BY <1>0, <1>2, <1>3, RetrySpares
<1>5. LeaseOf(w)'
  BY <1>1, <1>4, LeaseGoesOn
<1>6. OnlyStep(w)
  BY <1>1, NextEventPaced
<1>7. Narrows(w)
  BY <1>0, <1>1, <1>2, <1>6 DEF Narrows, NextEvent, TypeOK
<1>8. \A s \in Rows : row'[s].attempts = row[s].attempts
  BY <1>0, <1>3 DEF ScheduleRetry, TypeOK, RowType
<1>9. OneClaim' /\ ClaimsCounted'
  BY <1>7, <1>8, ClaimsKept
<1>10. Paced'
  BY <1>1, <1>6, NextEventPaced, PacedKept
<1>11. ASSUME NEW u \in Workers, u # w PROVE StaysGuarded(u)
  <2>1. ASSUME pc[u] \in {"loop"} \cup AtEvent, NEW i \in DOMAIN batch[u], NEW left \in Int,
               Guarded(batch[u][i], left)
        PROVE  StillGuarded(batch[u][i], left)
    <3>1. batch[u][i] \in Events /\ batch[u][i].row \in Rows
      BY <1>0, HeldEvent
    <3>2. pc[u] \in Trying
      BY <2>1, TryingOf
    <3>3. batch[u][i].row # Current(w)
      BY <1>1, <1>11, <2>1, <3>2, CurrentGuarded, GuardedElsewhere
    <3> QED
      BY <1>4, <2>1, <3>1, <3>3, GuardSpared
  <2> QED
    BY <2>1 DEF StaysGuarded
<1> QED
  BY <1>5, <1>6, <1>9, <1>10, <1>11, LeaseOthers DEF Delivers

LEMMA ReleaseDelivers ==
  ASSUME DeliveryInv, NEW w \in Workers, ReleaseOne(w)
  PROVE  Delivers
<1>0. TypeOK /\ TableInv /\ Paced
  BY DEF DeliveryInv, TryInv, Inv, TableInv
<1>1. /\ pc[w] = "releasing" /\ pc[w] \in Trying /\ pc'[w] \in {"loop", "releasing"}
      /\ batch'[w] = Tail(batch[w]) /\ OnlyStep(w)
      /\ UNCHANGED <<first, elapsed, busy, slowest>>
  BY <1>0, TryingOf DEF ReleaseOne, TypeOK, OnlyStep
<1>2. /\ batch[w] # << >> /\ batch[w] \in Seq(Events) /\ Current(w) \in Rows
      /\ Tail(batch[w]) \in Seq(Events)
  BY <1>0, <1>1, CurrentRow, StagesOf
<1>3. 1 \in DOMAIN batch[w] /\ Head(batch[w]) = batch[w][1] /\ batch[w][1] \in Events
  BY <1>2, TailOf
<1>4. Narrows(w)
  BY <1>1, <1>2 DEF Narrows
<1>5. OneClaim' /\ ClaimsCounted'
  BY <1>4, ReleaseClaims
<1>6. Paced'
  BY <1>0, <1>1, TryingOf, PacedKept DEF Paced
<1>7. LeaseOf(w)'
  <2>1. CASE pc'[w] = "releasing"
    BY <2>1, TryingOf, LeaseLeft
  <2>2. CASE pc'[w] = "loop"
    <3>1. Len(batch[w]) = 1
      BY <1>0, <2>2 DEF ReleaseOne, TypeOK
    <3>2. DOMAIN batch'[w] = {}
      <4>1. Len(Tail(batch[w])) = 0
        BY <1>2, <3>1
      <4>2. Tail(batch[w]) = << >>
        BY <1>2, <4>1, EmptySeq
      <4> QED
        BY <1>1, <4>2
    <3> QED
      BY <2>2, <3>2, TryingOf, LeaseAfter
  <2> QED
    BY <1>1, <2>1, <2>2
<1>8. ASSUME NEW u \in Workers, u # w PROVE StaysGuarded(u)
  <2>1. ASSUME pc[u] \in {"loop"} \cup AtEvent, NEW i \in DOMAIN batch[u], NEW left \in Int,
               Guarded(batch[u][i], left)
        PROVE  StillGuarded(batch[u][i], left)
    <3>1. batch[u][i] \in Events /\ batch[u][i].row \in Rows
      BY <1>0, HeldEvent
    <3>2. pc[u] \in Trying
      BY <2>1, TryingOf
    <3>3. \/ batch[u][i].row # batch[w][1].row
          \/ row[batch[w][1].row].attempts # batch[w][1].attempt
      BY <1>1, <1>3, <1>8, <2>1, <3>2, GuardedElsewhere
    <3>4. Release(Current(w), batch[w][1].attempt) /\ batch[w][1].attempt \in Int
      BY <1>3, Numbers DEF ReleaseOne, Events
    <3>5. Spared(batch[u][i].row)
      BY <1>0, <1>2, <1>3, <3>1, <3>3, <3>4, ReleaseSpares DEF Current
    <3> QED
      BY <2>1, <3>1, <3>5, GuardSpared
  <2> QED
    BY <2>1 DEF StaysGuarded
<1> QED
  BY <1>1, <1>5, <1>6, <1>7, <1>8, LeaseOthers DEF Delivers

LEMMA ClaimDelivers ==
  ASSUME DeliveryInv, NEW w \in Workers, ClaimBatch(w)
  PROVE  Delivers
<1>0. TypeOK /\ TableInv /\ Paced
  BY DEF DeliveryInv, TryInv, Inv, TableInv
<1>1. PICK claimed : ClaimedBy(w, claimed)
  BY <1>0, ClaimEffect
<1>2. /\ pc[w] = "claiming" /\ pc'[w] = "loop" /\ OnlyStep(w)
      /\ UNCHANGED <<first, elapsed, busy, slowest>>
  BY <1>0 DEF ClaimBatch, TypeOK, OnlyStep
<1>3. OneClaim' /\ ClaimsCounted'
  BY ClaimClaims
<1>4. Paced'
  BY <1>0, <1>2, TryingOf, PacedKept DEF Paced
<1>5. ASSUME NEW i \in DOMAIN batch'[w], NEW left \in Int, left <= Lease
      PROVE  StillGuarded(batch'[w][i], left)
  <2>1. batch'[w][i].row \in claimed /\ batch'[w][i].row \in Rows
    BY <1>1 DEF ClaimedBy
  <2> QED
    BY <1>1, <1>5, <2>1, Times DEF ClaimedBy, StillGuarded
<1>6. LeaseOf(w)'
  <2>1. /\ Lease - elapsed'[w] \in Int /\ Lease - elapsed'[w] <= Lease
        /\ Lease \in Int /\ Lease <= Lease
    <3>1. elapsed'[w] \in Int /\ elapsed'[w] >= 0
      BY <1>0, <1>2, Times DEF TypeOK
    <3> QED
      BY <3>1, Times
  <2>2. \A i \in DOMAIN batch'[w] :
           /\ StillGuarded(batch'[w][i], Lease - elapsed'[w])
           /\ StillGuarded(batch'[w][i], Lease)
    BY <1>5, <2>1
  <2> QED
    BY <1>2, <2>2, TryingOf, LeaseAfter
<1>7. ASSUME NEW u \in Workers PROVE StaysGuarded(u)
  <2>1. ASSUME NEW i \in DOMAIN batch[u], NEW left \in Int, left > 0, Guarded(batch[u][i], left)
        PROVE  StillGuarded(batch[u][i], left)
    <3>1. /\ batch[u][i] \in Events /\ batch[u][i].row \in Rows
          /\ row[batch[u][i].row].availableIn \in Int
      BY <1>0, HeldEvent
    <3>2. batch[u][i].row \notin claimed
      BY <1>1, <2>1, <3>1 DEF Guarded, ClaimedBy
    <3>3. Spared(batch[u][i].row)
      BY <1>1, <3>1, <3>2 DEF ClaimedBy, Spared, Waiting
    <3> QED
      BY <2>1, <3>1, <3>3, GuardSpared
  <2> QED
    BY <2>1 DEF StaysGuarded
<1> QED
  BY <1>2, <1>3, <1>4, <1>6, <1>7, LeaseOthers DEF Delivers

LEMMA CloseLostDelivers ==
  ASSUME DeliveryInv, NEW w \in Workers, CloseLostEnds(w)
  PROVE  Delivers
<1>0. TypeOK /\ TableInv /\ Paced
  BY DEF DeliveryInv, TryInv, Inv, TableInv
<1>1. /\ pc[w] = "closingLost" /\ pc'[w] = "lost" /\ OnlyStep(w)
      /\ UNCHANGED <<first, elapsed, busy, slowest>> /\ GiveUp(w, Current(w))
  BY <1>0 DEF CloseLostEnds, TypeOK, OnlyStep
<1>2. Current(w) \in Rows /\ row[Current(w)].exists
  BY <1>0, <1>1, CurrentRow, StagesOf
<1>3. \A s \in Rows : row[s].exists => Spared(s)
  BY <1>0, <1>1, <1>2, GiveUpSpares
<1>4. Narrows(w) /\ pc'[w] \notin {"loop"} \cup AtEvent
  BY <1>1, TryingOf DEF Narrows
<1>5. slowest'[w] >= Slowest /\ busy'[w] = 0
  BY <1>0, <1>1, TryingOf DEF Paced
<1> QED
  BY <1>3, <1>4, <1>5, LeaseLeft, SparedDelivers

LEMMA WorkerDelivers ==
  ASSUME DeliveryInv, NEW w \in Workers, DrainStep(w) \/ Crash(w)
  PROVE  Delivers
  BY LeaveDelivers, StartDelivers, StayDelivers, GoOnDelivers, FailDelivers, ReleaseDelivers,
     ClaimDelivers, CloseLostDelivers DEF DrainStep

-----------------------------------------------------------------------------
(* The app and the clock.                                                  *)
LEMMA AppDelivers ==
  ASSUME DeliveryInv, UNCHANGED worker,
         \A s \in Rows : row[s].exists
            /\ (\E w \in Workers : \E i \in DOMAIN batch[w] : batch[w][i].row = s) => Spared(s)
  PROVE  Delivers
<1>0. TypeOK /\ TableInv /\ Paced
  BY DEF DeliveryInv, TryInv, Inv, TableInv
<1>1. UNCHANGED <<pc, batch, first, elapsed, busy, slowest>>
  BY DEF worker
<1>2. ASSUME NEW w \in Workers, NEW i \in DOMAIN batch[w]
      PROVE  batch[w][i] \in Events /\ Spared(batch[w][i].row)
  BY <1>0, HeldEvent
<1>3. ASSUME NEW w \in Workers PROVE LeaseOf(w)'
  <2>1. StaysGuarded(w)
    BY <1>2, GuardSpared DEF StaysGuarded
  <2> QED
    BY <1>1, <2>1, LeaseStays
<1>4. OneClaim' /\ ClaimsCounted'
  BY <1>1, <1>2, ClaimsSame DEF Spared
<1>5. Paced'
  BY <1>0, <1>1 DEF Paced
<1> QED
  BY <1>3, <1>4, <1>5 DEF Delivers, LeaseInv

LEMMA ScheduleDelivers ==
  ASSUME DeliveryInv, Schedule
  PROVE  Delivers
<1>0. TypeOK
  BY DEF DeliveryInv, TryInv, Inv, TableInv
<1>1. PICK n \in Rows : ~row[n].exists /\ row' = [row EXCEPT ![n] = NewRow(0)]
  BY DEF Schedule, Inserts
<1>2. ASSUME NEW s \in Rows, row[s].exists PROVE Spared(s)
  <2>1. row'[s] = row[s]
    BY <1>0, <1>1, <1>2 DEF TypeOK
  <2> QED
    BY <2>1 DEF Spared, Waiting
<1> QED
  BY <1>2, AppDelivers DEF Schedule

LEMMA EnsureDelivers ==
  ASSUME DeliveryInv, EnsureScheduled
  PROVE  Delivers
<1> DEFINE table == [r \in Rows |->
              IF r \in Replaced THEN [row[r] EXCEPT !.processed = TRUE] ELSE row[r]]
<1>0. TypeOK
  BY DEF DeliveryInv, TryInv, Inv, TableInv
<1>1. ASSUME NEW s \in Rows
      PROVE  /\ table[s].exists = row[s].exists /\ table[s].attempts = row[s].attempts
             /\ table[s].availableIn = row[s].availableIn
             /\ ~table[s].processed => ~row[s].processed
  BY <1>0 DEF TypeOK, RowType
<1>2. \/ row' = table
      \/ \E n \in Rows : ~table[n].exists /\ row' = [table EXCEPT ![n] = NewRow(0)]
  BY DEF EnsureScheduled, Inserts
<1>3. table \in [Rows -> RowType]
  BY <1>0 DEF TypeOK, RowType
<1> HIDE DEF table
<1>4. ASSUME NEW s \in Rows, row[s].exists PROVE Spared(s)
  <2>1. row'[s] = table[s]
    BY <1>1, <1>2, <1>3, <1>4
  <2> QED
    BY <1>1, <1>4, <2>1 DEF Spared, Waiting
<1> QED
  BY <1>4, AppDelivers DEF EnsureScheduled

LEMMA RemoveDelivers ==
  ASSUME DeliveryInv, NEW r \in Rows, RemoveProcessed(r)
  PROVE  Delivers
<1>0. TypeOK
  BY DEF DeliveryInv, TryInv, Inv, TableInv
<1>1. /\ row' = [row EXCEPT ![r] = NoRow] /\ UNCHANGED worker
      /\ \A w \in Workers : \A i \in DOMAIN batch[w] : batch[w][i].row # r
  BY DEF RemoveProcessed
<1>2. ASSUME NEW s \in Rows, s # r PROVE Spared(s)
  <2>1. row'[s] = row[s]
    BY <1>0, <1>1, <1>2 DEF TypeOK
  <2> QED
    BY <2>1 DEF Spared, Waiting
<1> QED
  BY <1>1, <1>2, AppDelivers

(* One tick takes one from what is left of a guard and adds one to what    *)
(* the worker has taken; a prompt worker is never at its bound.            *)
LEMMA TickGuards ==
  ASSUME TypeOK, Tick, NEW e \in Events, NEW left \in Int, left > 0, Guarded(e, left)
  PROVE  StillGuarded(e, left - 1)
<1>1. e.row \in Rows /\ row[e.row] \in RowType
  BY DEF TypeOK, Events
<1>2. CASE e.row \notin Waiting
  <2>1. row'[e.row] = row[e.row]
    BY <1>1, <1>2 DEF Tick
  <2> QED
    BY <1>2, <2>1 DEF Guarded, StillGuarded, Waiting
<1>3. CASE e.row \in Waiting
  <2> DEFINE available == Larger(row[e.row].availableIn - 1, -Horizon)
             claimed == IF row[e.row].claimedAgo = Never THEN row[e.row].claimedAgo
                        ELSE Smaller(row[e.row].claimedAgo + 1, Horizon)
  <2>1. row'[e.row] = [row[e.row] EXCEPT !.availableIn = available, !.claimedAgo = claimed]
    BY <1>1, <1>3 DEF Tick
  <2>2. row[e.row].availableIn \in Int /\ row[e.row].availableIn >= left
    BY <1>1, <1>3 DEF RowType, Guarded
  <2>3. available >= left - 1
    BY <2>2, Times DEF Larger
  <2> HIDE DEF available, claimed
  <2>4. row'[e.row].attempts = row[e.row].attempts /\ row'[e.row].availableIn = available
    BY <1>1, <2>1 DEF RowType
  <2> QED
    BY <2>3, <2>4 DEF Guarded, StillGuarded
<1> QED
  BY <1>2, <1>3

LEMMA TickDelivers ==
  ASSUME PromptSteps, DeliveryInv, Tick
  PROVE  Delivers
<1>0. TypeOK /\ TableInv /\ Paced
  BY DEF DeliveryInv, TryInv, Inv, TableInv
<1>1. UNCHANGED <<pc, batch, first, slowest>>
  BY DEF Tick
<1>2. \A s \in Rows : row'[s].attempts = row[s].attempts
  BY <1>0 DEF Tick, TypeOK, RowType
<1>3. OneClaim' /\ ClaimsCounted'
  <2>1. \A v \in Workers : \A i \in DOMAIN batch[v] :
          row'[batch[v][i].row].attempts = row[batch[v][i].row].attempts
    BY <1>0, <1>2, HeldEvent
  <2> QED
    BY <1>1, <2>1, ClaimsSame
<1>4. Paced'
  BY <1>0, <1>1 DEF Paced, Tick
<1>5. ASSUME NEW w \in Workers PROVE LeaseOf(w)'
  <2>1. SUFFICES ASSUME pc[w] \in {"loop"} \cup AtEvent
                 PROVE  LeaseOf(w)'
    BY <1>1, LeaseLeft
  <2>2. LeaseOf(w)
    BY DEF DeliveryInv, LeaseInv
  <2>3. /\ elapsed[w] \in Int /\ busy[w] \in Int /\ elapsed[w] >= 0 /\ elapsed[w] <= Lease
        /\ busy[w] >= 0
    BY <1>0, Times DEF TypeOK
  <2>4. elapsed'[w] = Smaller(elapsed[w] + 1, Lease)
    BY <2>1 DEF Tick
  <2>5. elapsed'[w] < Lease => elapsed'[w] = elapsed[w] + 1 /\ elapsed[w] < Lease
    BY <2>3, <2>4, Times DEF Smaller
  <2>6. elapsed'[w] < Lease =>
           \A i \in DOMAIN batch[w] : StillGuarded(batch[w][i], Lease - elapsed'[w])
    <3> SUFFICES ASSUME elapsed'[w] < Lease, NEW i \in DOMAIN batch[w]
                 PROVE  StillGuarded(batch[w][i], Lease - elapsed'[w])
      OBVIOUS
    <3>1. Guarded(batch[w][i], Lease - elapsed[w]) /\ batch[w][i] \in Events
      BY <1>0, <2>1, <2>2, <2>5, HeldEvent DEF LeaseOf
    <3>2. /\ Lease - elapsed[w] \in Int /\ Lease - elapsed[w] > 0
          /\ Lease - elapsed'[w] = Lease - elapsed[w] - 1
      BY <2>3, <2>5, Times
    <3>3. StillGuarded(batch[w][i], Lease - elapsed[w] - 1)
      BY <1>0, <3>1, <3>2, TickGuards
    <3> QED
      BY <3>2, <3>3
  <2>7. pc[w] = "loop" /\ first[w] => elapsed'[w] + Slowest < Lease
    <3>1. pc[w] = "loop" /\ first[w] => elapsed[w] + 1 + Slowest < Lease
      BY DEF Tick, MayWait, PromptSteps
    <3> QED
      BY <2>3, <2>4, <3>1, Times DEF Smaller
  <2>8. ASSUME pc[w] \in AtEvent
        PROVE  /\ busy'[w] <= Slowest
               /\ \/ elapsed'[w] - busy'[w] + Slowest < Lease
                  \/ StillGuarded(Head(batch[w]), Lease - busy'[w])
    <3>1. busy[w] < Slowest
      BY <2>8 DEF Tick, MayWait, PromptSteps
    <3>2. busy'[w] = busy[w] + 1 /\ busy'[w] <= Slowest
      <4>1. busy'[w] = Smaller(busy[w] + 1, Lease)
        BY <2>8 DEF Tick
      <4> QED
        BY <2>3, <3>1, <4>1, Times DEF Smaller
    <3>3. CASE elapsed[w] - busy[w] + Slowest < Lease
      BY <2>3, <2>4, <3>2, <3>3, Times DEF Smaller
    <3>4. CASE Guarded(Head(batch[w]), Lease - busy[w])
      <4>1. Head(batch[w]) \in Events
        BY <1>0, <2>8, CurrentGuarded, HeldEvent
      <4>2. /\ Lease - busy[w] \in Int /\ Lease - busy[w] > 0
            /\ Lease - busy'[w] = Lease - busy[w] - 1
        BY <2>3, <3>1, <3>2, Times
      <4>3. StillGuarded(Head(batch[w]), Lease - busy[w] - 1)
        BY <1>0, <3>4, <4>1, <4>2, TickGuards
      <4> QED
        BY <3>2, <4>2, <4>3
    <3> QED
      BY <2>2, <2>8, <3>3, <3>4 DEF LeaseOf
  <2> QED
    BY <1>1, <2>6, <2>7, <2>8, LeaseAfter
<1> QED
  BY <1>3, <1>4, <1>5 DEF Delivers, LeaseInv

LEMMA InitDelivery == Init => DeliveryInv
<1> SUFFICES ASSUME Init PROVE DeliveryInv
  OBVIOUS
<1>1. TryInv
  BY InitTry
<1>2. \A w \in Workers : pc[w] = "idle" /\ slowest[w] = Slowest /\ busy[w] = 0
  BY DEF Init
<1>3. OneClaim /\ ClaimsCounted /\ LeaseInv
  BY <1>2, TryingOf DEF OneClaim, ClaimsCounted, LeaseInv, LeaseOf
<1>4. Paced
  BY <1>2, Times DEF Paced
<1> QED
  BY <1>1, <1>3, <1>4 DEF DeliveryInv

LEMMA DeliveryIsInductive == PromptSteps /\ DeliveryInv /\ [Next]_vars => DeliveryInv'
<1> SUFFICES ASSUME PromptSteps, DeliveryInv, [Next]_vars PROVE DeliveryInv'
  OBVIOUS
<1>0. TryInv'
  BY TryIsInductive DEF DeliveryInv
<1>1. ASSUME Next PROVE Delivers
  BY <1>1, WorkerDelivers, ScheduleDelivers, EnsureDelivers, RemoveDelivers, TickDelivers
     DEF Next
<1>2. CASE UNCHANGED vars
  BY <1>2, <1>0 DEF vars, worker, DeliveryInv, OneClaim, ClaimsCounted, Paced, LeaseInv, LeaseOf,
                    Guarded, Waiting, Trying, AtEvent
<1> QED
  BY <1>0, <1>1, <1>2 DEF Delivers, DeliveryInv

(* "A publish no slower than slowestPublishMs is never delivered twice     *)
(* because of the lease": where every stage of an event is that prompt, no *)
(* two workers are ever at the same row, whatever dies, is handed back, is *)
(* closed or is claimed again.                                             *)
THEOREM NeverTwice == PromptSteps /\ Spec => []OneDelivery
<1>1. DeliveryInv => OneDelivery
  <2> SUFFICES ASSUME DeliveryInv, NEW v \in Workers, NEW w \in Workers,
                      pc[v] \in {"publishing", "published"}, pc[w] \in {"publishing", "published"},
                      Current(v) = Current(w)
               PROVE  v = w
    BY DEF OneDelivery
  <2>1. pc[v] \in AtEvent /\ pc[w] \in AtEvent /\ pc[v] \in Trying /\ pc[w] \in Trying
    BY TryingOf
  <2>2. /\ batch[v][1].attempt = batch[w][1].attempt /\ batch[v][1].row = batch[w][1].row
        /\ 1 \in DOMAIN batch[v] /\ 1 \in DOMAIN batch[w]
    BY <2>1, CurrentGuarded
  <2>3. batch[v][1] \in Events /\ batch[w][1] \in Events
    BY <2>2, HeldEvent DEF DeliveryInv, TryInv, Inv
  <2>4. batch[v][1] = batch[w][1]
    BY <2>2, <2>3 DEF Events
  <2> QED
    BY <2>1, <2>2, <2>4 DEF DeliveryInv, OneClaim
<1>2. ASSUME PromptSteps PROVE Spec => []OneDelivery
  BY <1>1, <1>2, InitDelivery, DeliveryIsInductive, PTL DEF Spec
<1> QED
  BY <1>2

-----------------------------------------------------------------------------
(***************************************************************************)
(* The cache.  The commands that will reach the server, oldest first:      *)
(* those that wait for a clearing follow it.                               *)
(***************************************************************************)
Queue == wire \o waiting

(* Where the queue holds a command of one kind; and whether the cache is   *)
(* cleared, and trusted, between two places of it.                         *)
Holds(op) == {i \in 1 .. Len(Queue) : Queue[i].op = op}
Cleared(i, j) == \E k \in Holds("reset") : i < k /\ k < j
Trusted(i) == trusted \/ Cleared(0, i)

(* Only an untrusted cache is cleared, once, after what it was sent.       *)
ClearsOnce ==
    /\ \A i \in 1 .. Len(wire) : wire[i] = Reset => i = Len(wire) /\ ~trusted
    /\ \A i \in 1 .. Len(waiting) : waiting[i] # Reset
    /\ waiting # << >> => Recovering

(* A command is of a call that waits for it, and is there once.            *)
CallsWait ==
    /\ \A i \in Holds("get") : wrap[Queue[i].by].stage = "gets"
    /\ \A i \in Holds("set") : wrap[Queue[i].by].stage = "sets"
    /\ \A i \in Holds("del") : writer[Queue[i].by].stage = "deletes"
    /\ \A i, j \in 1 .. Len(Queue) : Queue[i] = Queue[j] => i = j

(* Versions come from the row.                                             *)
RowsFirst ==
    /\ floor <= db
    /\ \A d \in Writers : writer[d].version <= db
    /\ \A w \in Wraps : wrap[w].from <= floor

(* The load of the present generation is the one others join, and has what *)
(* every delete that began is about.                                       *)
Loading == {"loads", "loaded", "sets"}
LoadsCurrent ==
    /\ \A w \in Wraps : wrap[w].current /\ wrap[w].stage \in Loading => pending = w
    /\ pending # NoCall => wrap[pending].current /\ wrap[pending].stage \in Loading
    /\ \A w \in Wraps : wrap[w].current /\ wrap[w].stage \in {"loaded", "sets"} =>
          /\ wrap[w].value >= floor
          /\ \A d \in Writers : writer[d].stage = "deletes" => wrap[w].value >= writer[d].version

(* A load is as new as the calls that it is for.                           *)
LoadsFresh ==
    \A w \in Wraps :
       /\ wrap[w].stage \in {"loaded", "sets"} => wrap[w].value >= wrap[w].from
       /\ wrap[w].stage = "joins" =>
             /\ wrap[w].leader \in Wraps /\ wrap[wrap[w].leader].stage \in Loading
             /\ wrap[wrap[w].leader].stage # "loads" => wrap[wrap[w].leader].value >= wrap[w].from

(* A set behind a delete is as new as the delete.                          *)
SetsBehindDeletes ==
    \A i \in Holds("del"), j \in Holds("set") :
       i < j => wrap[Queue[j].by].value >= writer[Queue[i].by].version

(* A set that a trusted cache will take is as new as every delete that is  *)
(* over, and so is what the cache holds.                                   *)
TrustedFresh ==
    ~slipped =>
       /\ \A i \in Holds("set") : Trusted(i) => wrap[Queue[i].by].value >= floor
       /\ trusted => held = Missing \/ held >= floor

(* What a get can find, held or from a set before it.                      *)
GetsFresh ==
    ~slipped => \A i \in Holds("get") :
       /\ ~Cleared(0, i) => held = Missing \/ held >= wrap[Queue[i].by].from
       /\ \A j \in Holds("set") :
             j < i /\ ~Cleared(j, i) => wrap[Queue[j].by].value >= wrap[Queue[i].by].from

CacheInv ==
    /\ CacheTyped /\ ClearsOnce /\ CallsWait /\ RowsFirst /\ LoadsCurrent /\ LoadsFresh
    /\ SetsBehindDeletes /\ TrustedFresh /\ GetsFresh /\ NoStale

-----------------------------------------------------------------------------
LEMMA CommandKinds ==
    ASSUME NEW c \in Commands
    PROVE  /\ c.op \in {"get", "set", "del", "reset"}
           /\ c.op \in {"get", "set"} => c.by \in Wraps /\ c = [op |-> c.op, by |-> c.by]
           /\ c.op = "del" => c.by \in Writers /\ c = [op |-> "del", by |-> c.by]
           /\ c.op = "reset" <=> c = Reset
BY DEF Commands, Reset

QueueTyped == Len(Queue) \in Nat /\ \A i \in 1 .. Len(Queue) : Queue[i] \in Commands

LEMMA ConcatIs ==
    ASSUME NEW S, NEW s \in Seq(S), NEW t \in Seq(S)
    PROVE  /\ Len(s \o t) = Len(s) + Len(t) /\ Len(s) \in Nat /\ Len(t) \in Nat
           /\ \A i \in 1 .. Len(s \o t) : (s \o t)[i] = IF i <= Len(s) THEN s[i] ELSE t[i - Len(s)]
OBVIOUS

LEMMA QueueIs ==
    ASSUME CacheTyped
    PROVE  /\ QueueTyped
           /\ Len(Queue) = Len(wire) + Len(waiting)
           /\ Len(wire) \in Nat /\ Len(waiting) \in Nat
           /\ \A i \in 1 .. Len(wire) : Queue[i] = wire[i] /\ wire[i] \in Commands
           /\ \A i \in 1 .. Len(waiting) : waiting[i] \in Commands /\ Queue[Len(wire) + i] = waiting[i]
           /\ \A i \in 1 .. Len(Queue) : i > Len(wire) => Queue[i] = waiting[i - Len(wire)]
<1>1. wire \in Seq(Commands) /\ waiting \in Seq(Commands)
  BY DEF CacheTyped
<1>2. /\ Len(Queue) = Len(wire) + Len(waiting)
      /\ Len(wire) \in Nat /\ Len(waiting) \in Nat
      /\ \A i \in 1 .. Len(Queue) : Queue[i] = IF i <= Len(wire) THEN wire[i] ELSE waiting[i - Len(wire)]
  BY <1>1 DEF Queue
<1>3. /\ \A i \in 1 .. Len(wire) : wire[i] \in Commands
      /\ \A i \in 1 .. Len(waiting) : waiting[i] \in Commands
  BY <1>1
<1>4. \A i \in 1 .. Len(wire) : Queue[i] = wire[i]
  BY <1>2
<1>5. \A i \in 1 .. Len(Queue) : i > Len(wire) => Queue[i] = waiting[i - Len(wire)] /\ i - Len(wire) \in 1 .. Len(waiting)
  BY <1>2
<1>6. \A i \in 1 .. Len(waiting) : Queue[Len(wire) + i] = waiting[i]
  <2> TAKE i \in 1 .. Len(waiting)
  <2>1. Len(wire) + i \in 1 .. Len(Queue) /\ Len(wire) + i > Len(wire) /\ (Len(wire) + i) - Len(wire) = i
    BY <1>2
  <2> QED
    BY <2>1, <1>5
<1>7. \A i \in 1 .. Len(Queue) : Queue[i] \in Commands
  <2> TAKE i \in 1 .. Len(Queue)
  <2>1. CASE i <= Len(wire)
    BY <2>1, <1>2, <1>3, <1>4
  <2>2. CASE i > Len(wire)
    BY <2>2, <1>2, <1>3, <1>5
  <2> QED
    BY <1>2, <2>1, <2>2
<1> QED
  BY <1>2, <1>3, <1>4, <1>5, <1>6, <1>7 DEF QueueTyped

LEMMA QueueIsNext ==
    ASSUME CacheTyped' PROVE QueueTyped'
<1>1. wire' \in Seq(Commands) /\ waiting' \in Seq(Commands)
  BY DEF CacheTyped
<1>2. wire' \o waiting' \in Seq(Commands)
  BY <1>1
<1>3. Queue' = wire' \o waiting'
  BY DEF Queue
<1> QED
  BY <1>2, <1>3 DEF QueueTyped

-----------------------------------------------------------------------------
(* How an action changes the queue.                                        *)
Adds(c) ==
    /\ Len(Queue') \in {Len(Queue) + 1, Len(Queue) + 2}
    /\ Queue'[Len(Queue')] = c
    /\ \A i \in 1 .. Len(Queue) : Queue'[i] = Queue[i]
    /\ Len(Queue') = Len(Queue) + 1 => trusted \/ Holds("reset") # {}
    /\ Len(Queue') = Len(Queue) + 2 =>
          Queue'[Len(Queue) + 1] = Reset /\ ~trusted /\ Holds("reset") = {}

Drops ==
    /\ Len(Queue) > 0 /\ Len(Queue') = Len(Queue) - 1
    /\ \A i \in 1 .. Len(Queue') : Queue'[i] = Queue[i + 1]

LEMMA Recovers ==
    ASSUME CacheTyped, ClearsOnce
    PROVE  /\ Recovering => Len(wire) > 0 /\ wire[Len(wire)] = Reset /\ ~trusted
           /\ Recovering <=> Holds("reset") # {}
           /\ trusted => waiting = << >>
<1>1. Recovering => Len(wire) \in 1 .. Len(wire) /\ wire[Len(wire)] = Reset /\ ~trusted
  BY QueueIs DEF Recovering, ClearsOnce
<1>2. Recovering => Holds("reset") # {}
  <2> SUFFICES ASSUME Recovering PROVE Holds("reset") # {}
    OBVIOUS
  <2>1. Len(wire) \in 1 .. Len(Queue) /\ Queue[Len(wire)] = Reset
    BY <1>1, QueueIs
  <2> QED
    BY <2>1 DEF Holds, Reset
<1>3. ASSUME NEW i \in Holds("reset") PROVE Recovering
  <2>1. i \in 1 .. Len(Queue) /\ Queue[i] = Reset
    BY QueueIs, CommandKinds DEF Holds, QueueTyped
  <2>2. CASE i <= Len(wire)
    <3>1. i \in 1 .. Len(wire) /\ wire[i] = Reset
      BY <2>1, <2>2, QueueIs
    <3> QED
      BY <3>1 DEF Recovering
  <2>3. CASE i > Len(wire)
    <3>1. Len(waiting) > 0
      BY <2>1, <2>3, QueueIs
    <3>2. waiting # << >>
      BY <3>1
    <3> QED
      BY <3>2 DEF ClearsOnce
  <2> QED
    BY <2>1, <2>2, <2>3, QueueIs
<1>4. trusted => waiting = << >>
  BY <1>1 DEF ClearsOnce
<1> QED
  BY <1>1, <1>2, <1>3, <1>4, QueueIs

LEMMA Sending ==
    ASSUME CacheTyped, ClearsOnce, trusted' = trusted,
           NEW c \in Commands, c # Reset, Sends(c) \/ WaitsToSend(c)
    PROVE  /\ wire' \in Seq(Commands) /\ waiting' \in Seq(Commands)
           /\ ClearsOnce' /\ Adds(c)
<1>1. wire \in Seq(Commands) /\ waiting \in Seq(Commands) /\ Reset \in Commands
  BY DEF CacheTyped, Commands
<1>2. CASE Sends(c)
  <2>1. trusted /\ wire' = Append(wire, c) /\ waiting' = waiting /\ waiting = << >> /\ ~Recovering
    BY <1>2, Recovers DEF Sends
  <2>2. wire' \in Seq(Commands) /\ waiting' \in Seq(Commands)
    BY <1>1, <2>1
  <2>3. Queue = wire /\ Queue' = Append(wire, c)
    BY <1>1, <2>1, <2>2 DEF Queue
  <2>4. Len(Queue') = Len(Queue) + 1 /\ Queue'[Len(Queue')] = c /\ Len(Queue) \in Nat
        /\ \A i \in 1 .. Len(Queue) : Queue'[i] = Queue[i]
    BY <1>1, <2>3
  <2>5. Adds(c)
    BY <2>1, <2>4 DEF Adds
  <2>6. \A i \in 1 .. Len(wire') : wire'[i] # Reset
    BY <1>1, <2>1 DEF Recovering
  <2>7. ClearsOnce'
    BY <2>1, <2>6 DEF ClearsOnce
  <2> QED
    BY <2>2, <2>5, <2>7
<1>3. CASE WaitsToSend(c) /\ Recovering
  <2>1. ~trusted /\ wire' = wire /\ waiting' = Append(waiting, c)
    BY <1>3 DEF WaitsToSend
  <2>2. wire' \in Seq(Commands) /\ waiting' \in Seq(Commands)
    BY <1>1, <2>1
  <2>3. Queue' = Append(Queue, c) /\ Queue \in Seq(Commands)
    <3>1. wire \o Append(waiting, c) = Append(wire \o waiting, c) /\ wire \o waiting \in Seq(Commands)
      BY <1>1
    <3> QED
      BY <3>1, <2>1 DEF Queue
  <2>4. Len(Queue') = Len(Queue) + 1 /\ Queue'[Len(Queue')] = c /\ Len(Queue) \in Nat
        /\ \A i \in 1 .. Len(Queue) : Queue'[i] = Queue[i]
    BY <2>3
  <2>5. Adds(c)
    BY <1>3, <2>4, Recovers DEF Adds
  <2>6. \A i \in 1 .. Len(waiting') : waiting'[i] # Reset
    BY <1>1, <2>1 DEF ClearsOnce
  <2>7. Recovering'
    BY <1>3, <2>1 DEF Recovering
  <2>8. ClearsOnce'
    BY <2>1, <2>6, <2>7 DEF ClearsOnce
  <2> QED
    BY <2>2, <2>5, <2>8
<1>4. CASE WaitsToSend(c) /\ ~Recovering
  <2>1. ~trusted /\ wire' = Append(wire, Reset) /\ waiting = << >> /\ waiting' = <<c>>
    <3>1. waiting = << >> /\ Append(<< >>, c) = <<c>>
      BY <1>4 DEF ClearsOnce
    <3>2. ~trusted /\ wire' = Append(wire, Reset) /\ waiting' = Append(waiting, c)
      BY <1>4 DEF WaitsToSend
    <3> QED
      BY <3>1, <3>2
  <2>2. wire' \in Seq(Commands) /\ waiting' \in Seq(Commands)
    BY <1>1, <2>1
  <2>3. Queue = wire /\ Queue' = Append(Append(wire, Reset), c)
    BY <1>1, <2>1 DEF Queue
  <2>4. Len(Queue') = Len(Queue) + 2 /\ Queue'[Len(Queue')] = c /\ Len(Queue) \in Nat
        /\ Queue'[Len(Queue) + 1] = Reset
        /\ \A i \in 1 .. Len(Queue) : Queue'[i] = Queue[i]
    BY <1>1, <2>3
  <2>5. Adds(c)
    BY <1>4, <2>1, <2>4, Recovers DEF Adds
  <2>6. Len(wire') \in 1 .. Len(wire') /\ wire'[Len(wire')] = Reset
        /\ \A i \in 1 .. Len(wire') : wire'[i] = Reset => i = Len(wire')
    BY <1>1, <1>4, <2>1 DEF Recovering
  <2>7. Recovering'
    BY <2>6 DEF Recovering
  <2>8. ClearsOnce'
    BY <2>1, <2>6, <2>7 DEF ClearsOnce
  <2> QED
    BY <2>2, <2>5, <2>8
<1> QED
  BY <1>2, <1>3, <1>4

(* The oldest command leaves; what waited for a clearing follows it.       *)
Leaves ==
    /\ wire # << >>
    /\ wire' = IF Head(wire) = Reset THEN Tail(wire) \o waiting ELSE Tail(wire)
    /\ waiting' = IF Head(wire) = Reset THEN << >> ELSE waiting
    /\ trusted' => trusted \/ Head(wire) = Reset

LEMMA Leaving ==
    ASSUME CacheTyped, ClearsOnce, Leaves
    PROVE  /\ wire' \in Seq(Commands) /\ waiting' \in Seq(Commands)
           /\ ClearsOnce' /\ Drops /\ Head(wire) = Queue[1]
           /\ Head(wire) = Reset => Len(wire) = 1 /\ Tail(wire) = << >>
<1>1. wire \in Seq(Commands) /\ waiting \in Seq(Commands)
  BY DEF CacheTyped
<1>2. /\ Head(wire) = wire[1] /\ Len(wire) > 0 /\ Len(wire) \in Nat /\ Head(wire) \in Commands
      /\ Tail(wire) \in Seq(Commands) /\ Len(Tail(wire)) = Len(wire) - 1
      /\ \A i \in 1 .. Len(Tail(wire)) : Tail(wire)[i] = wire[i + 1]
  <2>1. wire # << >>
    BY DEF Leaves
  <2> QED
    BY <1>1, <2>1
<1>3. Head(wire) = Queue[1]
  BY <1>2, QueueIs
<1>4. CASE Head(wire) = Reset
  <2>1. Len(wire) = 1
    <3>1. 1 \in 1 .. Len(wire) /\ wire[1] = Reset
      BY <1>2, <1>4
    <3> QED
      BY <3>1 DEF ClearsOnce
  <2>2. Tail(wire) = << >>
    <3>1. Tail(wire) \in Seq(Commands) /\ Len(Tail(wire)) = 0
      BY <1>2, <2>1
    <3> QED
      BY <3>1, EmptySeq
  <2>3. wire' = waiting /\ waiting' = << >>
    <3>1. << >> \o waiting = waiting
      BY <1>1
    <3>2. wire' = Tail(wire) \o waiting /\ waiting' = << >>
      BY <1>4 DEF Leaves
    <3> QED
      BY <2>2, <3>1, <3>2
  <2>4. Queue' = waiting
    <3>1. waiting \o << >> = waiting
      BY <1>1
    <3>2. Queue' = waiting \o << >>
      BY <2>3 DEF Queue
    <3> QED
      BY <3>1, <3>2
  <2>5. Drops
    BY <2>1, <2>4, QueueIs DEF Drops
  <2>6. ClearsOnce'
    BY <2>3 DEF ClearsOnce
  <2> QED
    <3>1. wire' \in Seq(Commands) /\ waiting' \in Seq(Commands)
      BY <1>1, <2>3, EmptySeq
    <3> QED
      BY <1>3, <2>1, <2>2, <2>5, <2>6, <3>1
<1>5. CASE Head(wire) # Reset
  <2>1. wire' = Tail(wire) /\ waiting' = waiting
    BY <1>5 DEF Leaves
  <2>2. /\ Len(Queue') = Len(wire) - 1 + Len(waiting)
        /\ \A i \in 1 .. Len(Queue') : Queue'[i] = IF i <= Len(wire) - 1 THEN wire[i + 1] ELSE waiting[i - (Len(wire) - 1)]
    <3>1. Queue' = Tail(wire) \o waiting
      BY <2>1 DEF Queue
    <3>2. /\ Len(Tail(wire) \o waiting) = Len(wire) - 1 + Len(waiting)
          /\ \A i \in 1 .. Len(Tail(wire) \o waiting) :
                (Tail(wire) \o waiting)[i] = IF i <= Len(Tail(wire)) THEN Tail(wire)[i]
                                             ELSE waiting[i - Len(Tail(wire))]
      BY <1>1, <1>2, ConcatIs
    <3>3. \A i \in 1 .. Len(Tail(wire) \o waiting) : i <= Len(wire) - 1 => Tail(wire)[i] = wire[i + 1]
      BY <1>2
    <3> QED
      BY <1>2, <3>1, <3>2, <3>3
  <2>0. /\ Len(wire) \in Nat /\ Len(wire') = Len(wire) - 1
        /\ \A i \in 1 .. Len(wire') : wire'[i] = wire[i + 1]
    BY <1>2, <2>1
  <2>3. Len(Queue) = Len(wire) + Len(waiting) /\ Len(waiting) \in Nat
        /\ \A i \in 1 .. Len(Queue) : Queue[i] = IF i <= Len(wire) THEN wire[i] ELSE waiting[i - Len(wire)]
    BY <1>1 DEF Queue
  <2>4. Drops
    <3>1. Len(Queue) > 0 /\ Len(Queue') = Len(Queue) - 1
      BY <1>2, <2>2, <2>3
    <3>2. ASSUME NEW i \in 1 .. Len(Queue') PROVE Queue'[i] = Queue[i + 1]
      <4>1. i + 1 \in 1 .. Len(Queue) /\ i - (Len(wire) - 1) = (i + 1) - Len(wire)
        BY <1>2, <2>3, <3>1
      <4> QED
        BY <1>2, <2>2, <2>3, <4>1
    <3> QED
      BY <3>1, <3>2 DEF Drops
  <2>5. ASSUME NEW i \in 1 .. Len(wire'), wire'[i] = Reset PROVE i = Len(wire') /\ ~trusted'
    <3>1. i + 1 \in 1 .. Len(wire) /\ wire[i + 1] = Reset
      BY <2>0, <2>5
    <3>2. i + 1 = Len(wire) /\ ~trusted
      BY <3>1 DEF ClearsOnce
    <3> QED
      <4>1. Len(wire) \in Nat /\ Len(wire') = Len(wire) - 1
        BY <2>0
      <4>2. i \in 1 .. Len(wire')
        BY <2>5
      <4>3. i = Len(wire')
        BY <3>2, <4>1, <4>2
      <4>4. ~trusted'
        BY <1>5, <3>2 DEF Leaves
      <4> QED
        BY <4>3, <4>4
  <2>6. waiting' # << >> => Recovering'
    <3> SUFFICES ASSUME waiting # << >> PROVE Recovering'
      BY <2>1
    <3>1. Recovering /\ wire[Len(wire)] = Reset
      BY Recovers DEF ClearsOnce
    <3>2. Len(wire) # 1
      BY <1>2, <1>5, <3>1
    <3>3. Len(wire) > 0 /\ Len(wire) \in Nat
      BY <1>2
    <3>4. Len(wire') \in Nat /\ Len(wire') > 0 /\ Len(wire') + 1 = Len(wire)
      <4>1. Len(wire') = Len(wire) - 1
        BY <2>0
      <4> QED
        BY <3>2, <3>3, <4>1
    <3>5. Len(wire') \in 1 .. Len(wire')
      BY <3>4
    <3>6. wire'[Len(wire')] = Reset
      BY <2>0, <3>1, <3>4, <3>5
    <3> QED
      BY <3>5, <3>6 DEF Recovering
  <2>7. ClearsOnce'
    BY <2>1, <2>5, <2>6 DEF ClearsOnce
  <2> QED
    BY <1>1, <1>2, <1>3, <1>5, <2>1, <2>4, <2>7
<1> QED
  BY <1>4, <1>5

-----------------------------------------------------------------------------
(* What the calls in the queue keep.                                       *)
SameCall(w) ==
    /\ wrap'[w].stage = wrap[w].stage /\ wrap'[w].value = wrap[w].value
    /\ wrap'[w].from = wrap[w].from

Undisturbed ==
    /\ \A w \in Wraps : wrap[w].stage \in {"gets", "sets"} => SameCall(w)
    /\ \A d \in Writers : writer[d].stage = "deletes" => writer'[d] = writer[d]

LEMMA CallsNumbers ==
    ASSUME CacheTyped
    PROVE  /\ db \in Int /\ held \in Int /\ floor \in Int /\ floor >= 1
           /\ \A w \in Wraps : wrap[w].value \in Int /\ wrap[w].from \in Int /\ wrap[w].value >= Missing
           /\ \A d \in Writers : writer[d].version \in Int
<1>1. MaxVersion \in Int \/ MaxVersion \notin Int
  OBVIOUS
<1>2. /\ \A w \in Wraps : wrap[w].value \in Missing .. MaxVersion /\ wrap[w].from \in 1 .. MaxVersion
      /\ \A d \in Writers : writer[d].version \in Missing .. MaxVersion
      /\ db \in 1 .. MaxVersion /\ held \in Missing .. MaxVersion /\ floor \in 1 .. MaxVersion
  BY DEF CacheTyped
<1> QED
  BY <1>2 DEF Missing

LEMMA CallersAre ==
    ASSUME QueueTyped
    PROVE  /\ \A i \in Holds("get") \cup Holds("set") : Queue[i].by \in Wraps
           /\ \A i \in Holds("del") : Queue[i].by \in Writers
           /\ \A op : \A i \in Holds(op) : i \in 1 .. Len(Queue) /\ i \in Int
           /\ \A i \in 1 .. Len(Queue) : i \in Holds(Queue[i].op)
BY CommandKinds DEF QueueTyped, Holds

LEMMA KeepsOrder ==
    ASSUME QueueTyped, CallsWait, SetsBehindDeletes, Undisturbed,
           Queue' = Queue, trusted' = trusted
    PROVE  /\ CallsWait' /\ SetsBehindDeletes'
           /\ TrustedFresh /\ slipped' = slipped /\ floor' = floor /\ held' \in {held, Missing}
              => TrustedFresh'
           /\ GetsFresh /\ (slipped => slipped') /\ held' \in {held, Missing} => GetsFresh'
<1>1. \A op : Holds(op)' = Holds(op)
  BY DEF Holds
<1>2. \A i, j : (Cleared(i, j)' <=> Cleared(i, j)) /\ (Trusted(i)' <=> Trusted(i))
  BY <1>1 DEF Cleared, Trusted
<1>3. /\ \A i \in Holds("get") \cup Holds("set") : Queue[i].by \in Wraps /\ SameCall(Queue[i].by)
      /\ \A i \in Holds("del") : writer'[Queue[i].by] = writer[Queue[i].by]
  BY CallersAre DEF CallsWait, Undisturbed
<1>4. CallsWait'
  BY <1>1, <1>3 DEF CallsWait, SameCall
<1>5. SetsBehindDeletes'
  BY <1>1, <1>3 DEF SetsBehindDeletes, SameCall
<1>6. ASSUME TrustedFresh, slipped' = slipped, floor' = floor, held' \in {held, Missing}
      PROVE  TrustedFresh'
  BY <1>1, <1>2, <1>3, <1>6 DEF TrustedFresh, SameCall
<1>7. ASSUME GetsFresh, slipped => slipped', held' \in {held, Missing}
      PROVE  GetsFresh'
  <2> SUFFICES ASSUME ~slipped'
               PROVE  \A i \in Holds("get") :
                         /\ ~Cleared(0, i) => held' = Missing \/ held' >= wrap'[Queue[i].by].from
                         /\ \A j \in Holds("set") :
                               j < i /\ ~Cleared(j, i) => wrap'[Queue[j].by].value >= wrap'[Queue[i].by].from
    BY <1>1, <1>2 DEF GetsFresh
  <2>1. \A i \in Holds("get") :
           /\ ~Cleared(0, i) => held = Missing \/ held >= wrap[Queue[i].by].from
           /\ \A j \in Holds("set") :
                 j < i /\ ~Cleared(j, i) => wrap[Queue[j].by].value >= wrap[Queue[i].by].from
    BY <1>7 DEF GetsFresh
  <2> QED
    BY <1>3, <1>7, <2>1 DEF SameCall
<1> QED
  BY <1>4, <1>5, <1>6, <1>7

(* A command joins the queue: what it is from is new enough.               *)
Joins(c) ==
    /\ c.op = "get" => /\ wrap[c.by].stage \notin {"gets", "sets"} /\ wrap'[c.by].stage = "gets"
                       /\ wrap'[c.by].from <= floor
    /\ c.op = "set" => /\ wrap[c.by].stage \notin {"gets", "sets"} /\ wrap'[c.by].stage = "sets"
                       /\ wrap'[c.by].value >= floor
                       /\ \A d \in Writers : writer[d].stage = "deletes" => wrap'[c.by].value >= writer[d].version
    /\ c.op = "del" => writer[c.by].stage # "deletes" /\ writer'[c.by].stage = "deletes"

LEMMA AddsOrder ==
    ASSUME CacheTyped, CacheTyped', QueueTyped, QueueTyped',
           CallsWait, SetsBehindDeletes, TrustedFresh, GetsFresh, Undisturbed,
           NEW c \in Commands, c # Reset, Adds(c), Joins(c),
           trusted' = trusted, floor' = floor, held' = held, slipped' = slipped
    PROVE  CallsWait' /\ SetsBehindDeletes' /\ TrustedFresh' /\ GetsFresh'
<1> DEFINE n == Len(Queue)  m == Len(Queue')
<1>1. /\ n \in Nat /\ m \in Nat /\ m > n /\ Queue'[m] = c
      /\ \A i \in 1 .. n : Queue'[i] = Queue[i]
      /\ \A i \in 1 .. m : i > n => i = m \/ (i = n + 1 /\ i < m /\ Queue'[i] = Reset)
  BY DEF Adds, QueueTyped
<1>2. /\ \A i \in Holds("get") \cup Holds("set") : Queue[i].by \in Wraps /\ SameCall(Queue[i].by)
      /\ \A i \in Holds("del") : writer'[Queue[i].by] = writer[Queue[i].by]
  BY CallersAre DEF CallsWait, Undisturbed
<1>3. \A op \in {"get", "set", "del"} : \A i \in Holds(op)' :
         \/ i \in Holds(op) /\ i \in 1 .. n /\ Queue'[i] = Queue[i]
         \/ i = m /\ c.op = op /\ Queue'[i] = c
  <2> TAKE op \in {"get", "set", "del"}
  <2> TAKE i \in Holds(op)'
  <2>1. i \in 1 .. m /\ Queue'[i].op = op
    BY DEF Holds
  <2>2. Queue'[i] # Reset
    BY <2>1 DEF Reset
  <2>3. CASE i <= n
    BY <1>1, <2>1, <2>3 DEF Holds
  <2>4. CASE i > n
    BY <1>1, <2>1, <2>2, <2>4
  <2> QED
    BY <1>1, <2>1, <2>3, <2>4
<1>4. \A i \in Holds("reset") : i \in Holds("reset")'
  BY <1>1 DEF Holds
<1>5. \A i, j \in Int : Cleared(i, j) => Cleared(i, j)'
  BY <1>4 DEF Cleared
<1>6. \A i \in 1 .. n : Trusted(i)' => Trusted(i)
  <2> SUFFICES ASSUME NEW i \in 1 .. n, ~trusted, NEW k \in Holds("reset")', 0 < k, k < i
               PROVE  Cleared(0, i)
    BY DEF Trusted, Cleared
  <2>1. k \in Holds("reset")
    BY <1>1 DEF Holds
  <2> QED
    BY <2>1 DEF Cleared
<1>7. CallsWait'
  <2>1. ASSUME NEW i \in Holds("get")' PROVE wrap'[Queue'[i].by].stage = "gets"
    <3>1. CASE i \in Holds("get") /\ Queue'[i] = Queue[i]
      BY <1>2, <3>1 DEF CallsWait, SameCall
    <3>2. CASE i = m /\ c.op = "get" /\ Queue'[i] = c
      BY <3>2 DEF Joins
    <3> QED
      BY <1>3, <2>1, <3>1, <3>2
  <2>2. ASSUME NEW i \in Holds("set")' PROVE wrap'[Queue'[i].by].stage = "sets"
    <3>1. CASE i \in Holds("set") /\ Queue'[i] = Queue[i]
      BY <1>2, <3>1 DEF CallsWait, SameCall
    <3>2. CASE i = m /\ c.op = "set" /\ Queue'[i] = c
      BY <3>2 DEF Joins
    <3> QED
      BY <1>3, <2>2, <3>1, <3>2
  <2>3. ASSUME NEW i \in Holds("del")' PROVE writer'[Queue'[i].by].stage = "deletes"
    <3>1. CASE i \in Holds("del") /\ Queue'[i] = Queue[i]
      BY <1>2, <3>1 DEF CallsWait
    <3>2. CASE i = m /\ c.op = "del" /\ Queue'[i] = c
      BY <3>2 DEF Joins
    <3> QED
      BY <1>3, <2>3, <3>1, <3>2
  <2>4. \A i \in 1 .. n : Queue[i] # c /\ Queue[i].op = Queue[i].op
    <3> SUFFICES ASSUME NEW i \in 1 .. n, Queue[i] = c PROVE FALSE
      OBVIOUS
    <3>1. c.op \in {"get", "set", "del"} /\ i \in Holds(c.op)
      BY CommandKinds DEF Holds
    <3> QED
      BY <3>1 DEF CallsWait, Joins
  <2>5. Len(Queue') = n + 2 => \A i \in 1 .. n : Queue[i] # Reset
    BY DEF Adds, Holds, Reset
  <2>6. ASSUME NEW i \in 1 .. m, NEW j \in 1 .. m, Queue'[i] = Queue'[j] PROVE i = j
    <3>1. /\ i <= n => Queue'[i] = Queue[i] /\ i \in 1 .. n
          /\ j <= n => Queue'[j] = Queue[j] /\ j \in 1 .. n
          /\ i > n => i = m \/ (i = n + 1 /\ m = n + 2 /\ Queue'[i] = Reset)
          /\ j > n => j = m \/ (j = n + 1 /\ m = n + 2 /\ Queue'[j] = Reset)
      BY <1>1 DEF Adds
    <3>2. CASE i <= n /\ j <= n
      BY <2>6, <3>1, <3>2 DEF CallsWait
    <3>3. CASE i > n \/ j > n
      BY <1>1, <2>4, <2>5, <2>6, <3>1, <3>3
    <3> QED
      BY <1>1, <3>2, <3>3
  <2> QED
    BY <2>1, <2>2, <2>3, <2>6 DEF CallsWait
<1>8. SetsBehindDeletes'
  <2> SUFFICES ASSUME NEW i \in Holds("del")', NEW j \in Holds("set")', i < j
               PROVE  wrap'[Queue'[j].by].value >= writer'[Queue'[i].by].version
    BY DEF SetsBehindDeletes
  <2>1. i \in Holds("del") /\ i \in 1 .. n /\ Queue'[i] = Queue[i]
    <3>1. j \in 1 .. m
      BY DEF Holds
    <3> QED
      BY <1>1, <1>3, <3>1
  <2>2. /\ writer'[Queue[i].by] = writer[Queue[i].by] /\ Queue[i].by \in Writers
        /\ writer[Queue[i].by].stage = "deletes"
    BY <1>2, <2>1, CallersAre DEF CallsWait
  <2>3. CASE j \in Holds("set") /\ Queue'[j] = Queue[j]
    BY <1>2, <2>1, <2>2, <2>3 DEF SetsBehindDeletes, SameCall
  <2>4. CASE c.op = "set" /\ Queue'[j] = c
    BY <2>1, <2>2, <2>4 DEF Joins
  <2> QED
    BY <1>3, <2>3, <2>4
<1>9. TrustedFresh'
  <2> SUFFICES ASSUME ~slipped, NEW i \in Holds("set")', Trusted(i)'
               PROVE  wrap'[Queue'[i].by].value >= floor
    BY DEF TrustedFresh
  <2>1. CASE i \in Holds("set") /\ i \in 1 .. n /\ Queue'[i] = Queue[i]
    BY <1>2, <1>6, <2>1 DEF TrustedFresh, SameCall
  <2>2. CASE c.op = "set" /\ Queue'[i] = c
    BY <2>2 DEF Joins
  <2> QED
    BY <1>3, <2>1, <2>2
<1>10. GetsFresh'
  <2> SUFFICES ASSUME ~slipped, NEW i \in Holds("get")'
               PROVE  /\ ~Cleared(0, i)' => held = Missing \/ held >= wrap'[Queue'[i].by].from
                      /\ \A j \in Holds("set")' :
                            j < i /\ ~Cleared(j, i)' => wrap'[Queue'[j].by].value >= wrap'[Queue'[i].by].from
    BY DEF GetsFresh
  <2>0. \A j \in Holds("set")' : j \in 1 .. m /\ j \in Int
    BY <1>1 DEF Holds
  <2>1. CASE i \in Holds("get") /\ i \in 1 .. n /\ Queue'[i] = Queue[i]
    <3>1. wrap'[Queue'[i].by].from = wrap[Queue[i].by].from
      BY <1>2, <2>1 DEF SameCall
    <3>2. \A j \in Holds("set")' : j < i => j \in Holds("set") /\ Queue'[j] = Queue[j]
      BY <1>1, <1>3, <2>1
    <3>3. \A j \in Holds("set")' :
             j < i /\ ~Cleared(j, i)' => wrap[Queue[j].by].value >= wrap[Queue[i].by].from
      BY <1>5, <2>0, <2>1, <3>2 DEF GetsFresh
    <3>4. ~Cleared(0, i)' => held = Missing \/ held >= wrap[Queue[i].by].from
      BY <1>5, <2>1 DEF GetsFresh
    <3> QED
      BY <1>2, <3>1, <3>2, <3>3, <3>4 DEF SameCall
  <2>2. CASE i = m /\ c.op = "get" /\ Queue'[i] = c
    <3>1. wrap'[c.by].from <= floor /\ c.by \in Wraps
      BY <2>2, CommandKinds DEF Joins
    <3>2. CASE m = n + 1
      <4>1. trusted \/ Holds("reset") # {}
        BY <3>2 DEF Adds
      <4>2. \A k \in Holds("reset") : k \in 1 .. n /\ k \in Int
        BY <1>1 DEF Holds
      <4>3. ~Cleared(0, i)' => trusted
        BY <1>1, <1>4, <2>2, <4>1, <4>2 DEF Cleared
      <4>4. ASSUME NEW j \in Holds("set")', j < i, ~Cleared(j, i)'
            PROVE  wrap'[Queue'[j].by].value >= floor
        <5>1. j \in Holds("set") /\ j \in 1 .. n /\ Queue'[j] = Queue[j]
          BY <1>1, <1>3, <2>2, <4>4
        <5>2. \A k \in Holds("reset") : k # j
          BY <5>1 DEF Holds
        <5>3. \A k \in Holds("reset") : ~(j < k)
          BY <1>1, <1>4, <2>2, <4>2, <4>4 DEF Cleared
        <5>4. Trusted(j)
          <6> SUFFICES ASSUME NEW k \in Holds("reset") PROVE Cleared(0, j)
            BY <4>1 DEF Trusted
          <6>1. k \in Int /\ 0 < k /\ k < j
            BY <4>2, <5>1, <5>2, <5>3
          <6> QED
            BY <6>1 DEF Cleared
        <5> QED
          BY <1>2, <5>1, <5>4 DEF TrustedFresh, SameCall
      <4>5. held \in Int /\ floor \in Int /\ wrap'[c.by].from \in Int
        BY <3>1, CallsNumbers DEF CacheTyped
      <4>6. \A j \in Holds("set")' : wrap'[Queue'[j].by].value \in Int
        <5>1. \A j \in Holds("set")' : Queue'[j].by \in Wraps
          BY CommandKinds DEF QueueTyped, Holds
        <5>2. \A w \in Wraps : wrap'[w].value \in Missing .. MaxVersion
          BY DEF CacheTyped
        <5> QED
          BY <5>1, <5>2 DEF Missing
      <4>7. ~Cleared(0, i)' => held = Missing \/ held >= floor
        BY <4>3 DEF TrustedFresh
      <4> QED
        BY <2>2, <3>1, <4>4, <4>5, <4>6, <4>7
    <3>3. CASE m = n + 2
      <4>1. n + 1 \in Holds("reset")'
        BY <1>1, <3>3 DEF Adds, Holds, Reset
      <4>2. Cleared(0, i)'
        BY <1>1, <2>2, <3>3, <4>1 DEF Cleared
      <4>3. \A j \in Holds("set")' : j < i => Cleared(j, i)'
        <5> SUFFICES ASSUME NEW j \in Holds("set")', j < i PROVE Cleared(j, i)'
          OBVIOUS
        <5>1. j \in 1 .. n
          BY <1>1, <1>3, <2>2
        <5> QED
          BY <1>1, <2>2, <3>3, <4>1, <5>1 DEF Cleared
      <4> QED
        BY <4>2, <4>3
    <3> QED
      BY <1>1, <3>2, <3>3 DEF Adds
  <2> QED
    BY <1>3, <2>1, <2>2
<1> QED
  BY <1>7, <1>8, <1>9, <1>10

(* The oldest command leaves, with its effect or without.                  *)
AloneDisturbed(h) ==
    /\ \A w \in Wraps : wrap[w].stage \in {"gets", "sets"} => SameCall(w) \/ (h.op \in {"get", "set"} /\ h.by = w)
    /\ \A d \in Writers : writer[d].stage = "deletes" => writer'[d] = writer[d] \/ (h.op = "del" /\ h.by = d)

Answered(h) ==
    /\ AloneDisturbed(h)
    /\ slipped' = slipped /\ (trusted' => trusted \/ h = Reset)
    /\ floor' = floor \/ (h.op = "del" /\ floor' \in {floor, writer[h.by].version})
    /\ held' \in {held, Missing} \/ (h.op = "set" /\ held' = wrap[h.by].value)
    /\ h = Reset => held' = Missing

LEMMA DropsOrder ==
    ASSUME QueueTyped, QueueTyped', CallsWait, SetsBehindDeletes, TrustedFresh, GetsFresh,
           Drops, Answered(Queue[1])
    PROVE  /\ CallsWait' /\ SetsBehindDeletes' /\ GetsFresh'
           /\ (~slipped /\ trusted' => held' = Missing \/ held' >= floor') => TrustedFresh'
<1> DEFINE n == Len(Queue)  m == Len(Queue')  h == Queue[1]
<1>1. /\ n \in Nat /\ m \in Nat /\ n > 0 /\ m = n - 1 /\ 1 \in 1 .. n /\ h \in Commands
      /\ \A i \in 1 .. m : Queue'[i] = Queue[i + 1] /\ i + 1 \in 1 .. n /\ i \in Int
  BY DEF Drops, QueueTyped
<1>2. \A op : \A i \in Holds(op)' : /\ i \in Int /\ i > 0 /\ i + 1 \in Holds(op) /\ Queue'[i] = Queue[i + 1]
                                    /\ Queue[i + 1] # h
  <2> SUFFICES ASSUME NEW op, NEW i \in Holds(op)'
               PROVE  /\ i \in Int /\ i > 0 /\ i + 1 \in Holds(op) /\ Queue'[i] = Queue[i + 1]
                      /\ Queue[i + 1] # h
    OBVIOUS
  <2>1. i \in 1 .. m /\ Queue'[i].op = op
    BY DEF Holds
  <2>2. i + 1 \in Holds(op) /\ Queue'[i] = Queue[i + 1] /\ i \in Int /\ i > 0
    BY <1>1, <2>1 DEF Holds
  <2>3. Queue[i + 1] # h
    BY <1>1, <2>1, <2>2 DEF CallsWait
  <2> QED
    BY <2>2, <2>3
<1>3. \A i \in Holds("get")' \cup Holds("set")' : Queue'[i].by \in Wraps /\ SameCall(Queue'[i].by)
  <2> SUFFICES ASSUME NEW op \in {"get", "set"}, NEW i \in Holds(op)'
               PROVE  Queue'[i].by \in Wraps /\ SameCall(Queue'[i].by)
    OBVIOUS
  <2> DEFINE c == Queue[i + 1]
  <2>1. i + 1 \in Holds(op) /\ Queue'[i] = c /\ c # h /\ c \in Commands /\ c.op = op
    BY <1>2 DEF QueueTyped, Holds
  <2>2. c.by \in Wraps /\ wrap[c.by].stage \in {"gets", "sets"}
        /\ (op = "get" => wrap[c.by].stage = "gets") /\ (op = "set" => wrap[c.by].stage = "sets")
    BY <2>1, CallersAre DEF CallsWait
  <2>3. ~(h.op \in {"get", "set"} /\ h.by = c.by)
    <3> SUFFICES ASSUME h.op \in {"get", "set"}, h.by = c.by PROVE FALSE
      OBVIOUS
    <3>1. 1 \in Holds(h.op)
      BY <1>1 DEF Holds
    <3>2. /\ h.op = "get" => wrap[c.by].stage = "gets"
          /\ h.op = "set" => wrap[c.by].stage = "sets"
      BY <3>1 DEF CallsWait
    <3>3. h.op = op
      BY <2>2, <3>2
    <3>4. h = [op |-> h.op, by |-> h.by] /\ c = [op |-> c.op, by |-> c.by]
      BY <1>1, <2>1, CommandKinds
    <3> QED
      BY <2>1, <3>3, <3>4
  <2>4. SameCall(c.by)
    BY <2>2, <2>3 DEF Answered, AloneDisturbed
  <2> QED
    BY <2>1, <2>2, <2>4
<1>4. \A i \in Holds("del")' : writer'[Queue'[i].by] = writer[Queue'[i].by] /\ Queue'[i].by \in Writers
  <2> SUFFICES ASSUME NEW i \in Holds("del")'
               PROVE  writer'[Queue'[i].by] = writer[Queue'[i].by] /\ Queue'[i].by \in Writers
    OBVIOUS
  <2> DEFINE c == Queue[i + 1]
  <2>1. i + 1 \in Holds("del") /\ Queue'[i] = c /\ c # h /\ c \in Commands /\ c.op = "del"
    BY <1>2 DEF QueueTyped, Holds
  <2>2. c.by \in Writers /\ writer[c.by].stage = "deletes"
    BY <2>1, CallersAre DEF CallsWait
  <2>3. ~(h.op = "del" /\ h.by = c.by)
    BY <1>1, <2>1, CommandKinds
  <2> QED
    BY <2>1, <2>2, <2>3 DEF Answered, AloneDisturbed
<1>5. CallsWait'
  <2>1. \A i \in Holds("get")' : wrap'[Queue'[i].by].stage = "gets"
    BY <1>2, <1>3 DEF CallsWait, SameCall
  <2>2. \A i \in Holds("set")' : wrap'[Queue'[i].by].stage = "sets"
    BY <1>2, <1>3 DEF CallsWait, SameCall
  <2>3. \A i \in Holds("del")' : writer'[Queue'[i].by].stage = "deletes"
    BY <1>2, <1>4 DEF CallsWait
  <2>4. ASSUME NEW i \in 1 .. m, NEW j \in 1 .. m, Queue'[i] = Queue'[j] PROVE i = j
    <3>1. i + 1 \in 1 .. n /\ j + 1 \in 1 .. n /\ Queue[i + 1] = Queue[j + 1]
      BY <1>1, <2>4
    <3>2. i + 1 = j + 1
      BY <3>1 DEF CallsWait
    <3> QED
      BY <1>1, <3>2
  <2> QED
    BY <2>1, <2>2, <2>3, <2>4 DEF CallsWait
<1>6. SetsBehindDeletes'
  <2> SUFFICES ASSUME NEW i \in Holds("del")', NEW j \in Holds("set")', i < j
               PROVE  wrap'[Queue'[j].by].value >= writer'[Queue'[i].by].version
    BY DEF SetsBehindDeletes
  <2>1. i + 1 \in Holds("del") /\ j + 1 \in Holds("set") /\ i + 1 < j + 1
        /\ Queue'[i] = Queue[i + 1] /\ Queue'[j] = Queue[j + 1]
    BY <1>2
  <2>2. wrap[Queue[j + 1].by].value >= writer[Queue[i + 1].by].version
    BY <2>1 DEF SetsBehindDeletes
  <2> QED
    BY <1>3, <1>4, <2>1, <2>2 DEF SameCall
<1>7. \A i, j \in Int : i >= 0 /\ Cleared(i + 1, j + 1) => Cleared(i, j)'
  <2> SUFFICES ASSUME NEW i \in Int, NEW j \in Int, i >= 0,
                      NEW k \in Holds("reset"), i + 1 < k, k < j + 1
               PROVE  Cleared(i, j)'
    BY DEF Cleared
  <2>1. k \in 1 .. n /\ Queue[k].op = "reset"
    BY DEF Holds
  <2>2. k - 1 \in 1 .. m /\ (k - 1) + 1 = k
    BY <1>1, <2>1
  <2>3. Queue'[k - 1] = Queue[k]
    BY <1>1, <2>2
  <2>4. k - 1 \in Holds("reset")'
    BY <2>1, <2>2, <2>3 DEF Holds
  <2>5. i < k - 1 /\ k - 1 < j
    BY <2>1
  <2> QED
    BY <2>4, <2>5 DEF Cleared
<1>8. \A k \in Holds("reset")' : k + 1 \in Holds("reset")
  BY <1>2
<1>9. ASSUME ~slipped /\ trusted' => held' = Missing \/ held' >= floor'
      PROVE  TrustedFresh'
  <2> SUFFICES ASSUME ~slipped, NEW i \in Holds("set")', Trusted(i)'
               PROVE  wrap'[Queue'[i].by].value >= floor'
    BY <1>9 DEF TrustedFresh, Answered
  <2>1. i \in Int /\ i > 0 /\ i + 1 \in Holds("set") /\ Queue'[i] = Queue[i + 1]
    BY <1>2
  <2>2. Trusted(i + 1)
    <3>1. CASE trusted' /\ h = Reset
      <4>1. 1 \in Holds("reset")
        BY <1>1, <3>1 DEF Holds, Reset
      <4> QED
        BY <2>1, <4>1 DEF Trusted, Cleared
    <3>2. CASE Cleared(0, i)'
      <4>1. PICK k \in Holds("reset")' : 0 < k /\ k < i
        BY <3>2 DEF Cleared
      <4>2. k + 1 \in Holds("reset") /\ k \in Int
        BY <1>2
      <4>3. 0 < k + 1 /\ k + 1 < i + 1
        BY <2>1, <4>1, <4>2
      <4> QED
        BY <4>2, <4>3 DEF Trusted, Cleared
    <3>3. trusted' => trusted \/ h = Reset
      BY DEF Answered
    <3> QED
      BY <3>1, <3>2, <3>3 DEF Trusted
  <2>3. wrap[Queue[i + 1].by].value >= floor
    BY <2>1, <2>2 DEF TrustedFresh
  <2>4. h.op = "del" => wrap[Queue[i + 1].by].value >= writer[h.by].version
    <3> SUFFICES ASSUME h.op = "del" PROVE wrap[Queue[i + 1].by].value >= writer[h.by].version
      OBVIOUS
    <3>1. 1 \in Holds("del") /\ 1 < i + 1
      BY <1>1, <2>1 DEF Holds
    <3> QED
      BY <2>1, <3>1 DEF SetsBehindDeletes
  <2>5. wrap'[Queue'[i].by].value = wrap[Queue[i + 1].by].value
    BY <1>3, <2>1 DEF SameCall
  <2> QED
    BY <2>3, <2>4, <2>5 DEF Answered
<1>10. GetsFresh'
  <2> SUFFICES ASSUME ~slipped, NEW i \in Holds("get")'
               PROVE  /\ ~Cleared(0, i)' => held' = Missing \/ held' >= wrap'[Queue'[i].by].from
                      /\ \A j \in Holds("set")' :
                            j < i /\ ~Cleared(j, i)' => wrap'[Queue'[j].by].value >= wrap'[Queue'[i].by].from
    BY DEF GetsFresh, Answered
  <2>1. i \in Int /\ i > 0 /\ i + 1 \in Holds("get") /\ Queue'[i] = Queue[i + 1]
        /\ wrap'[Queue'[i].by].from = wrap[Queue[i + 1].by].from
    BY <1>2, <1>3 DEF SameCall
  <2>2. ASSUME ~Cleared(0, i)', held' # Missing
        PROVE  held' >= wrap[Queue[i + 1].by].from
    <3>1. ~Cleared(1, i + 1) /\ h # Reset
      <4>1. Cleared(0 + 1, i + 1) => Cleared(0, i)'
        BY <1>7, <2>1
      <4>2. 0 + 1 = 1
        OBVIOUS
      <4> QED
        BY <2>2, <4>1, <4>2 DEF Answered
    <3>2. h.op # "reset"
      BY <1>1, <3>1, CommandKinds
    <3>3. \A k \in Holds("reset") : k \in Int /\ k > 0 /\ k # 1
      BY <1>1, <3>2 DEF Holds
    <3>4. ~Cleared(0, i + 1)
      BY <3>1, <3>3 DEF Cleared
    <3>5. CASE held' = held
      BY <2>1, <2>2, <3>4, <3>5 DEF GetsFresh
    <3>6. CASE h.op = "set" /\ held' = wrap[h.by].value
      <4>1. 1 \in Holds("set") /\ 1 < i + 1
        BY <1>1, <2>1, <3>6 DEF Holds
      <4> QED
        BY <2>1, <3>1, <3>6, <4>1 DEF GetsFresh
    <3> QED
      BY <2>2, <3>5, <3>6 DEF Answered
  <2>3. ASSUME NEW j \in Holds("set")', j < i, ~Cleared(j, i)'
        PROVE  wrap'[Queue'[j].by].value >= wrap[Queue[i + 1].by].from
    <3>1. j \in Int /\ j > 0 /\ j + 1 \in Holds("set") /\ j + 1 < i + 1
          /\ wrap'[Queue'[j].by].value = wrap[Queue[j + 1].by].value
      BY <1>2, <1>3, <2>1, <2>3 DEF SameCall
    <3>2. ~Cleared(j + 1, i + 1)
      BY <1>7, <2>1, <2>3, <3>1
    <3> QED
      BY <2>1, <3>1, <3>2 DEF GetsFresh
  <2> QED
    BY <2>1, <2>2, <2>3
<1> QED
  BY <1>5, <1>6, <1>9, <1>10

LEMMA EmptyOrder ==
    ASSUME Len(Queue') = 0, ~trusted'
    PROVE  CallsWait' /\ SetsBehindDeletes' /\ TrustedFresh' /\ GetsFresh'
<1>1. \A op : Holds(op)' = {}
  BY DEF Holds
<1> QED
  BY <1>1 DEF CallsWait, SetsBehindDeletes, TrustedFresh, GetsFresh, Trusted

-----------------------------------------------------------------------------
(* The calls of wrap.                                                      *)
CallStages == {"idle", "gets", "missed", "joins", "loads", "loaded", "sets", "done", "failed"}

CallStates == [stage : CallStages, value : Missing .. MaxVersion, current : BOOLEAN,
               leader : Wraps \cup {NoCall}, from : 1 .. MaxVersion]

RowStates == [stage : {"idle", "wrote", "deletes", "done"}, version : Missing .. MaxVersion]

LEMMA TypedIs ==
    CacheTyped <=>
       /\ db \in 1 .. MaxVersion /\ held \in Missing .. MaxVersion /\ floor \in 1 .. MaxVersion
       /\ wire \in Seq(Commands) /\ waiting \in Seq(Commands)
       /\ trusted \in BOOLEAN /\ due \in BOOLEAN /\ slipped \in BOOLEAN /\ restarts \in 0 .. MaxRestarts
       /\ wrap \in [Wraps -> CallStates] /\ writer \in [Writers -> RowStates]
       /\ pending \in Wraps \cup {NoCall}
BY DEF CacheTyped, CallStates, CallStages, RowStates

LEMMA CallIs ==
    ASSUME CacheTyped, NEW w \in Wraps
    PROVE  /\ wrap[w] \in CallStates /\ wrap[w].stage \in CallStages
           /\ wrap[w].value \in Missing .. MaxVersion /\ wrap[w].from \in 1 .. MaxVersion
           /\ wrap[w].current \in BOOLEAN /\ wrap[w].leader \in Wraps \cup {NoCall}
BY TypedIs DEF CallStates

LoadsInv == RowsFirst /\ LoadsCurrent /\ LoadsFresh /\ NoStale

OrderInv == CallsWait /\ SetsBehindDeletes /\ TrustedFresh /\ GetsFresh

LEMMA Together ==
    /\ CacheInv <=> CacheTyped /\ ClearsOnce /\ OrderInv /\ LoadsInv
    /\ CacheInv' <=> CacheTyped' /\ ClearsOnce' /\ OrderInv' /\ LoadsInv'
BY DEF CacheInv, OrderInv, LoadsInv

LEMMA NotCalledIs ==
    ASSUME CacheAssumption
    PROVE  /\ NotCalled \in CallStates /\ NotCalled.value = Missing /\ NotCalled.leader = NoCall
           /\ NotCalled.stage = "idle" /\ NotCalled.from = 1
BY DEF NotCalled, CallStates, CallStages, CacheAssumption, Missing

LEMMA ByOne ==
    ASSUME NEW c, NEW op
    PROVE  By(<<c>>, op) = IF c.op = op THEN {c.by} ELSE {}
<1>1. Len(<<c>>) = 1 /\ <<c>>[1] = c /\ 1 .. 1 = {1}
  OBVIOUS
<1> QED
  BY <1>1 DEF By

(* Commands that are answered with nothing.                                *)
LEMMA GoesOn ==
    ASSUME CacheAssumption, CacheTyped, LoadsInv, NEW c, GoOn(c),
           db' = db, slipped' = slipped,
           \A w \in By(c, "get") : w \in Wraps /\ wrap[w].stage = "gets",
           \A w \in By(c, "set") : w \in Wraps /\ wrap[w].stage = "sets",
           \A d \in By(c, "del") : d \in Writers /\ writer[d].stage = "deletes"
    PROVE  /\ wrap' \in [Wraps -> CallStates] /\ writer' \in [Writers -> RowStates]
           /\ floor' \in 1 .. MaxVersion /\ pending' \in Wraps \cup {NoCall}
           /\ LoadsInv'
           /\ \A w \in Wraps : wrap[w].stage \in {"gets", "sets"} =>
                 SameCall(w) \/ w \in By(c, "get") \cup By(c, "set")
           /\ \A d \in Writers : writer[d].stage = "deletes" =>
                 writer'[d] = writer[d] \/ d \in By(c, "del")
           /\ floor' \in {floor} \cup {writer[d].version : d \in By(c, "del")}
<1> DEFINE G == By(c, "get")  S == By(c, "set")  D == By(c, "del")
<1>1. /\ wrap \in [Wraps -> CallStates] /\ writer \in [Writers -> RowStates]
      /\ MaxVersion \in Nat /\ db \in 1 .. MaxVersion /\ floor \in 1 .. MaxVersion
      /\ pending \in Wraps \cup {NoCall} /\ NoCall \notin Wraps
  BY TypedIs DEF CacheAssumption
<1>2. /\ G \subseteq Wraps /\ \A w \in G : wrap[w].stage = "gets"
      /\ S \subseteq Wraps /\ \A w \in S : wrap[w].stage = "sets"
      /\ D \subseteq Writers /\ \A d \in D : writer[d].stage = "deletes"
  OBVIOUS
<1> HIDE DEF G, S, D
<1>3. ASSUME NEW v \in Wraps
      PROVE  \/ wrap'[v] = wrap[v] /\ v \notin G /\ v \notin S
                /\ (wrap[v].stage = "joins" => wrap[v].leader \notin S)
             \/ v \in G /\ wrap'[v] = [wrap[v] EXCEPT !.stage = "missed"]
             \/ \E e \in S : /\ v = e \/ (wrap[v].stage = "joins" /\ wrap[v].leader = e)
                             /\ wrap'[v] = [wrap[v] EXCEPT !.stage = "done", !.leader = NoCall,
                                                           !.value = wrap[e].value]
  <2>1. wrap'[v] = IF v \in G THEN [wrap[v] EXCEPT !.stage = "missed"]
                   ELSE IF Ends(c, v) # {}
                   THEN [wrap[v] EXCEPT !.stage = "done", !.leader = NoCall,
                                        !.value = wrap[CHOOSE w \in Ends(c, v) : TRUE].value]
                   ELSE wrap[v]
    BY DEF GoOn, G
  <2>2. Ends(c, v) = {w \in S : w = v \/ (wrap[v].stage = "joins" /\ wrap[v].leader = w)}
    BY DEF Ends, Joined, S
  <2>3. CASE v \in G
    BY <2>1, <2>3
  <2>4. CASE v \notin G /\ Ends(c, v) # {}
    <3>1. PICK e \in Ends(c, v) : e = CHOOSE w \in Ends(c, v) : TRUE
      BY <2>4
    <3>2. wrap'[v] = [wrap[v] EXCEPT !.stage = "done", !.leader = NoCall, !.value = wrap[e].value]
      BY <2>1, <2>4, <3>1
    <3>3. e \in S /\ (v = e \/ (wrap[v].stage = "joins" /\ wrap[v].leader = e))
      BY <2>2, <3>1
    <3> QED
      BY <3>2, <3>3
  <2>5. CASE v \notin G /\ Ends(c, v) = {}
    BY <2>1, <2>2, <2>5
  <2> QED
    BY <2>3, <2>4, <2>5
<1>4. ASSUME NEW v \in Wraps
      PROVE  /\ wrap'[v] \in CallStates
             /\ wrap'[v].from = wrap[v].from /\ wrap'[v].current = wrap[v].current
             /\ \/ wrap'[v] = wrap[v] /\ v \notin G /\ v \notin S
                   /\ (wrap[v].stage = "joins" => wrap[v].leader \notin S)
                \/ v \in G /\ wrap'[v].stage = "missed" /\ wrap'[v].value = wrap[v].value
                \/ \E e \in S : /\ v = e \/ (wrap[v].stage = "joins" /\ wrap[v].leader = e)
                                /\ wrap'[v].stage = "done" /\ wrap'[v].value = wrap[e].value
  <2>1. wrap[v] \in CallStates /\ "missed" \in CallStages /\ "done" \in CallStages
        /\ \A e \in S : wrap[e].value \in Missing .. MaxVersion
    BY <1>1, <1>2 DEF CallStates, CallStages
  <2>2. CASE wrap'[v] = wrap[v] /\ v \notin G /\ v \notin S /\ (wrap[v].stage = "joins" => wrap[v].leader \notin S)
    BY <2>1, <2>2
  <2>3. CASE v \in G /\ wrap'[v] = [wrap[v] EXCEPT !.stage = "missed"]
    BY <2>1, <2>3 DEF CallStates
  <2>4. ASSUME NEW e \in S, v = e \/ (wrap[v].stage = "joins" /\ wrap[v].leader = e),
               wrap'[v] = [wrap[v] EXCEPT !.stage = "done", !.leader = NoCall, !.value = wrap[e].value]
        PROVE  /\ wrap'[v] \in CallStates
               /\ wrap'[v].from = wrap[v].from /\ wrap'[v].current = wrap[v].current
               /\ wrap'[v].stage = "done" /\ wrap'[v].value = wrap[e].value
    BY <2>1, <2>4 DEF CallStates
  <2>5. CASE \E e \in S : /\ v = e \/ (wrap[v].stage = "joins" /\ wrap[v].leader = e)
                          /\ wrap'[v] = [wrap[v] EXCEPT !.stage = "done", !.leader = NoCall,
                                                        !.value = wrap[e].value]
    <3>1. PICK e \in S : /\ v = e \/ (wrap[v].stage = "joins" /\ wrap[v].leader = e)
                         /\ wrap'[v] = [wrap[v] EXCEPT !.stage = "done", !.leader = NoCall,
                                                       !.value = wrap[e].value]
      BY <2>5
    <3>2. /\ wrap'[v] \in CallStates
          /\ wrap'[v].from = wrap[v].from /\ wrap'[v].current = wrap[v].current
          /\ wrap'[v].stage = "done" /\ wrap'[v].value = wrap[e].value
      BY <2>4, <3>1
    <3> QED
      BY <3>1, <3>2
  <2> QED
    BY <1>3, <2>2, <2>3, <2>5
<1>5. wrap' \in [Wraps -> CallStates]
  <2>1. wrap' = [v \in Wraps |-> wrap'[v]]
    BY DEF GoOn
  <2> QED
    BY <1>4, <2>1
<1>6. /\ \A d \in Writers : writer'[d].version = writer[d].version /\ writer'[d] \in RowStates
      /\ \A d \in D : writer'[d].stage = "done"
      /\ \A d \in Writers \ D : writer'[d] = writer[d]
      /\ writer' \in [Writers -> RowStates]
      /\ floor' \in {floor} \cup {writer[d].version : d \in D}
      /\ floor' >= floor /\ \A d \in D : floor' >= writer[d].version
  <2>1. /\ writer' = [d \in Writers |-> IF d \in D THEN [writer[d] EXCEPT !.stage = "done"] ELSE writer[d]]
        /\ floor' \in {floor} \cup {writer[d].version : d \in D}
        /\ floor' >= floor /\ \A d \in D : floor' >= writer[d].version
    BY DEF GoOn, DeletesOver, D
  <2>2. ASSUME NEW d \in Writers
        PROVE  /\ writer'[d].version = writer[d].version /\ writer'[d] \in RowStates
               /\ d \in D => writer'[d].stage = "done"
               /\ d \notin D => writer'[d] = writer[d]
    <3>1. writer[d] \in RowStates
          /\ writer'[d] = IF d \in D THEN [writer[d] EXCEPT !.stage = "done"] ELSE writer[d]
      BY <1>1, <2>1
    <3> QED
      BY <3>1 DEF RowStates
  <2>3. writer' \in [Writers -> RowStates]
    BY <2>1, <2>2
  <2> QED
    BY <1>2, <2>1, <2>2, <2>3
<1>7. /\ floor' \in Int /\ floor \in Int /\ db \in Int
      /\ \A d \in Writers : writer[d].version \in Int
      /\ \A w \in Wraps : wrap[w].value \in Int /\ wrap[w].from \in Int
  BY CallsNumbers, <1>6, <1>2
<1>8. floor' <= db /\ floor' \in 1 .. MaxVersion
  <2>1. \A d \in D : writer[d].version <= db
    BY <1>2 DEF LoadsInv, RowsFirst
  <2>2. floor <= db
    BY DEF LoadsInv, RowsFirst
  <2>3. floor' <= db
    BY <1>6, <2>1, <2>2
  <2> QED
    BY <1>1, <1>6, <1>7, <2>3
<1>9. /\ pending' = IF pending \in S THEN NoCall ELSE pending
      /\ pending' \in Wraps \cup {NoCall}
  BY <1>1 DEF GoOn, NoLonger, S
<1>10. RowsFirst'
  <2>1. \A w \in Wraps : wrap'[w].from <= floor'
    <3>1. \A w \in Wraps : wrap[w].from <= floor
      BY DEF LoadsInv, RowsFirst
    <3> QED
      BY <1>4, <1>6, <1>7, <3>1
  <2>2. \A d \in Writers : writer'[d].version <= db
    BY <1>6 DEF LoadsInv, RowsFirst
  <2> QED
    BY <1>8, <2>1, <2>2 DEF RowsFirst
<1>11. ASSUME NEW w \in Wraps, wrap'[w].stage \in Loading \cup {"joins"}
       PROVE  wrap'[w] = wrap[w] /\ w \notin S /\ (wrap[w].stage = "joins" => wrap[w].leader \notin S)
  BY <1>4, <1>11 DEF Loading
<1>12. ASSUME NEW w \in Wraps, wrap[w].stage \in Loading, w \notin S
       PROVE  wrap'[w] = wrap[w]
  BY <1>2, <1>4, <1>12 DEF Loading
<1>13. LoadsCurrent'
  <2>1. ASSUME NEW w \in Wraps, wrap'[w].current, wrap'[w].stage \in Loading
        PROVE  pending' = w
    BY <1>9, <1>11, <2>1 DEF LoadsInv, LoadsCurrent
  <2>2. ASSUME pending' # NoCall
        PROVE  wrap'[pending'].current /\ wrap'[pending'].stage \in Loading
    <3>1. pending' = pending /\ pending \notin S /\ pending \in Wraps
      BY <1>1, <1>9, <2>2
    <3>2. wrap[pending].current /\ wrap[pending].stage \in Loading
      BY <2>2, <3>1 DEF LoadsInv, LoadsCurrent
    <3> QED
      BY <1>12, <3>1, <3>2
  <2>3. ASSUME NEW w \in Wraps, wrap'[w].current, wrap'[w].stage \in {"loaded", "sets"}
        PROVE  /\ wrap'[w].value >= floor'
               /\ \A d \in Writers : writer'[d].stage = "deletes" => wrap'[w].value >= writer'[d].version
    <3>1. wrap'[w] = wrap[w]
      BY <1>11, <2>3 DEF Loading
    <3>2. wrap[w].value >= floor
          /\ \A d \in Writers : writer[d].stage = "deletes" => wrap[w].value >= writer[d].version
      BY <2>3, <3>1 DEF LoadsInv, LoadsCurrent
    <3>3. wrap[w].value >= floor'
      BY <1>2, <1>6, <3>2
    <3> QED
      BY <1>6, <3>1, <3>2, <3>3
  <2> QED
    BY <2>1, <2>2, <2>3 DEF LoadsCurrent
<1>14. LoadsFresh'
  <2> SUFFICES ASSUME NEW w \in Wraps
               PROVE  /\ wrap'[w].stage \in {"loaded", "sets"} => wrap'[w].value >= wrap'[w].from
                      /\ wrap'[w].stage = "joins" =>
                            /\ wrap'[w].leader \in Wraps /\ wrap'[wrap'[w].leader].stage \in Loading
                            /\ wrap'[wrap'[w].leader].stage # "loads" =>
                                  wrap'[wrap'[w].leader].value >= wrap'[w].from
    BY DEF LoadsFresh
  <2>1. ASSUME wrap'[w].stage \in {"loaded", "sets"} PROVE wrap'[w].value >= wrap'[w].from
    BY <1>11, <2>1 DEF LoadsInv, LoadsFresh, Loading
  <2>2. ASSUME wrap'[w].stage = "joins"
        PROVE  /\ wrap'[w].leader \in Wraps /\ wrap'[wrap'[w].leader].stage \in Loading
               /\ wrap'[wrap'[w].leader].stage # "loads" => wrap'[wrap'[w].leader].value >= wrap'[w].from
    <3>1. wrap'[w] = wrap[w] /\ wrap[w].leader \notin S
      BY <1>11, <2>2
    <3>2. /\ wrap[w].leader \in Wraps /\ wrap[wrap[w].leader].stage \in Loading
          /\ wrap[wrap[w].leader].stage # "loads" => wrap[wrap[w].leader].value >= wrap[w].from
      BY <2>2, <3>1 DEF LoadsInv, LoadsFresh
    <3>3. wrap'[wrap[w].leader] = wrap[wrap[w].leader]
      BY <1>12, <3>1, <3>2
    <3> QED
      BY <3>1, <3>2, <3>3
  <2> QED
    BY <2>1, <2>2
<1>15. NoStale'
  <2> SUFFICES ASSUME ~slipped, NEW w \in Wraps, wrap'[w].stage = "done"
               PROVE  wrap'[w].value >= wrap'[w].from
    BY DEF NoStale
  <2>1. CASE wrap'[w] = wrap[w]
    BY <2>1 DEF LoadsInv, NoStale
  <2>2. ASSUME NEW e \in S, w = e \/ (wrap[w].stage = "joins" /\ wrap[w].leader = e),
               wrap'[w].value = wrap[e].value
        PROVE  wrap'[w].value >= wrap'[w].from
    <3>1. wrap[e].stage = "sets" /\ e \in Wraps
      BY <1>2
    <3>2. wrap[e].value >= wrap[w].from
      BY <2>2, <3>1 DEF LoadsInv, LoadsFresh
    <3> QED
      BY <1>4, <2>2, <3>2
  <2> QED
    BY <1>4, <2>1, <2>2
<1>16. \A w \in Wraps : wrap[w].stage \in {"gets", "sets"} => SameCall(w) \/ w \in G \cup S
  BY <1>4 DEF SameCall
<1>17. \A d \in Writers : writer[d].stage = "deletes" => writer'[d] = writer[d] \/ d \in D
  BY <1>6
<1> QED
  BY <1>5, <1>6, <1>8, <1>9, <1>10, <1>13, <1>14, <1>15, <1>16, <1>17 DEF LoadsInv, G, S, D

-----------------------------------------------------------------------------
(* The initial state.                                                      *)
LEMMA CacheStarts ==
    ASSUME CacheAssumption, CacheInit
    PROVE  CacheInv
<1>1. wire = << >> /\ waiting = << >> /\ Len(<< >>) = 0
  BY DEF CacheInit
<1>2. Len(Queue) = 0
  BY <1>1 DEF Queue
<1>3. \A op : Holds(op) = {}
  BY <1>2 DEF Holds
<1>4. \A w \in Wraps : wrap[w] = NotCalled
  BY DEF CacheInit
<1>5. CacheTyped
  <2>1. NotCalled \in CallStates
    BY NotCalledIs
  <2>2. [stage |-> "idle", version |-> Missing] \in RowStates
    BY DEF RowStates, CacheAssumption, Missing
  <2>3. wire \in Seq(Commands) /\ waiting \in Seq(Commands)
    BY <1>1
  <2>4. wrap \in [Wraps -> CallStates] /\ writer \in [Writers -> RowStates]
    BY <2>1, <2>2 DEF CacheInit
  <2> QED
    <3>1. /\ db \in 1 .. MaxVersion /\ held \in Missing .. MaxVersion /\ floor \in 1 .. MaxVersion
          /\ restarts \in 0 .. MaxRestarts
      BY DEF CacheInit, CacheAssumption, Missing
    <3>2. /\ trusted \in BOOLEAN /\ due \in BOOLEAN /\ slipped \in BOOLEAN
          /\ pending \in Wraps \cup {NoCall}
      BY DEF CacheInit
    <3> QED
      BY <2>3, <2>4, <3>1, <3>2, TypedIs
<1>6. ClearsOnce
  BY <1>1 DEF ClearsOnce
<1>7. CallsWait /\ SetsBehindDeletes /\ TrustedFresh /\ GetsFresh
  BY <1>2, <1>3 DEF CallsWait, SetsBehindDeletes, TrustedFresh, GetsFresh, Trusted, CacheInit
<1>8. RowsFirst /\ LoadsCurrent /\ LoadsFresh /\ NoStale
  BY <1>4 DEF RowsFirst, LoadsCurrent, LoadsFresh, NoStale, Loading, NotCalled, Missing, CacheInit
<1> QED
  BY <1>5, <1>6, <1>7, <1>8 DEF CacheInv

(* A call of wrap that changes alone.                                      *)
Changes(w, x) ==
    /\ x \in CallStates
    /\ wrap' = [wrap EXCEPT ![w] = x]

LEMMA ChangesOne ==
    ASSUME CacheTyped, NEW w \in Wraps, NEW x, Changes(w, x)
    PROVE  /\ wrap' \in [Wraps -> CallStates] /\ wrap'[w] = x
           /\ \A v \in Wraps \ {w} : wrap'[v] = wrap[v]
BY TypedIs DEF Changes

(* What the actions of a call leave alone.                                 *)
RestStays == UNCHANGED <<db, held, trusted, due, writer, floor, slipped, restarts>>

LEMMA StaysTyped ==
    ASSUME CacheTyped, RestStays, wire' \in Seq(Commands), waiting' \in Seq(Commands),
           wrap' \in [Wraps -> CallStates], pending' \in Wraps \cup {NoCall}
    PROVE  CacheTyped'
<1>1. /\ db' \in 1 .. MaxVersion /\ held' \in Missing .. MaxVersion /\ floor' \in 1 .. MaxVersion
      /\ trusted' \in BOOLEAN /\ due' \in BOOLEAN /\ slipped' \in BOOLEAN /\ restarts' \in 0 .. MaxRestarts
      /\ writer' \in [Writers -> RowStates]
  BY TypedIs DEF RestStays
<1> QED
  BY <1>1 DEF CacheTyped, CallStates, CallStages, RowStates

LEMMA QueueStays ==
    ASSUME UNCHANGED <<wire, waiting, trusted>>, ClearsOnce
    PROVE  Queue' = Queue /\ ClearsOnce'
BY DEF Queue, ClearsOnce, Recovering

(* An action of a call that sends nothing, or a command.                   *)
LEMMA OrderOfCall ==
    ASSUME CacheInv, RestStays, CacheTyped', Undisturbed,
           NEW c \in Commands,
           \/ UNCHANGED <<wire, waiting>>
           \/ c # Reset /\ Joins(c) /\ (Sends(c) \/ WaitsToSend(c))
    PROVE  ClearsOnce' /\ OrderInv'
<1>1. CacheTyped /\ ClearsOnce /\ CallsWait /\ SetsBehindDeletes /\ TrustedFresh /\ GetsFresh
  BY DEF CacheInv
<1>2. trusted' = trusted /\ floor' = floor /\ held' = held /\ slipped' = slipped
  BY DEF RestStays
<1>3. QueueTyped /\ QueueTyped'
  BY <1>1, QueueIs, QueueIsNext
<1>4. CASE UNCHANGED <<wire, waiting>>
  BY <1>1, <1>2, <1>3, <1>4, QueueStays, KeepsOrder DEF OrderInv
<1>5. CASE c # Reset /\ Joins(c) /\ (Sends(c) \/ WaitsToSend(c))
  BY <1>1, <1>2, <1>3, <1>5, Sending, AddsOrder DEF OrderInv
<1> QED
  BY <1>4, <1>5

LEMMA Starts ==
    ASSUME CacheAssumption, CacheInv, NEW w \in Wraps, Start(w)
    PROVE  CacheInv'
<1> DEFINE c == [op |-> "get", by |-> w]
<1>0. CacheTyped /\ LoadsInv /\ RestStays
  BY Together DEF Start, RestStays
<1>1. PICK s \in {"gets", "missed"} :
         /\ wrap' = [wrap EXCEPT ![w] = [NotCalled EXCEPT !.stage = s, !.from = floor]]
         /\ \/ s = "gets" /\ (Sends(c) \/ WaitsToSend(c))
            \/ s = "missed" /\ UNCHANGED <<wire, waiting>>
  BY DEF Start, Skips
<1> DEFINE x == [NotCalled EXCEPT !.stage = s, !.from = floor]
<1>2. /\ x \in CallStates /\ x.stage = s /\ x.from = floor /\ x.value = Missing /\ x.leader = NoCall
  <2>1. floor \in 1 .. MaxVersion /\ s \in CallStages /\ MaxVersion \in Nat
    BY <1>0, TypedIs DEF CallStages, CacheAssumption
  <2> QED
    <3>1. NotCalled \in CallStates /\ NotCalled.value = Missing /\ NotCalled.leader = NoCall
      BY NotCalledIs
    <3> QED
      BY <2>1, <3>1 DEF CallStates
<1> HIDE DEF x
<1>3. wrap' \in [Wraps -> CallStates] /\ wrap'[w] = x /\ \A v \in Wraps \ {w} : wrap'[v] = wrap[v]
  BY <1>0, <1>1, <1>2, ChangesOne DEF Changes, x
<1>4. wrap[w].stage \in {"idle", "done", "failed"} /\ pending' = pending
  BY <1>0, CallIs DEF Start, Active, CallStages
<1>5. c \in Commands /\ c # Reset /\ c.op = "get" /\ c.by = w
  BY DEF Commands, Reset
<1>6. CacheTyped'
  <2>1. wire' \in Seq(Commands) /\ waiting' \in Seq(Commands)
    BY <1>0, <1>1, <1>5, Sending, Together DEF CacheTyped, RestStays
  <2> QED
    BY <1>0, <1>3, <1>4, <2>1, StaysTyped, TypedIs
<1>7. Undisturbed
  BY <1>0, <1>3, <1>4 DEF Undisturbed, SameCall, RestStays
<1>8. floor <= floor /\ floor \in Int /\ db \in Int /\ db >= Missing
  BY <1>0, CallsNumbers, TypedIs DEF Missing
<1>9. s = "gets" => Joins(c)
  BY <1>2, <1>3, <1>4, <1>5, <1>8 DEF Joins
<1>10. ClearsOnce' /\ OrderInv'
  BY <1>0, <1>1, <1>5, <1>6, <1>7, <1>9, OrderOfCall
<1>11. RowsFirst'
  BY <1>0, <1>2, <1>3, <1>8 DEF LoadsInv, RowsFirst, RestStays
<1>12. LoadsCurrent'
  BY <1>0, <1>2, <1>3, <1>4, TypedIs DEF LoadsInv, LoadsCurrent, RestStays, Loading
<1>13. LoadsFresh'
  BY <1>0, <1>2, <1>3, <1>4 DEF LoadsInv, LoadsFresh, Loading
<1>14. NoStale'
  BY <1>0, <1>2, <1>3 DEF LoadsInv, NoStale, RestStays
<1> QED
  BY <1>6, <1>10, <1>11, <1>12, <1>13, <1>14, Together DEF LoadsInv

LEMMA Misses ==
    ASSUME CacheAssumption, CacheInv, NEW w \in Wraps, Miss(w)
    PROVE  CacheInv'
<1> DEFINE c == [op |-> "get", by |-> w]
<1>0. /\ CacheTyped /\ LoadsInv /\ RestStays /\ UNCHANGED <<wire, waiting>>
      /\ wrap[w].stage = "missed" /\ NoCall \notin Wraps
  BY Together DEF Miss, RestStays, CacheAssumption
<1>1. PICK x \in CallStates :
         /\ Changes(w, x) /\ x.from = wrap[w].from /\ x.value = wrap[w].value /\ x.current = wrap[w].current
         /\ \/ pending \in Wraps /\ pending' = pending /\ x.stage = "joins" /\ x.leader = pending
            \/ /\ pending = NoCall /\ x.stage = "loads"
               /\ pending' = IF wrap[w].current THEN w ELSE NoCall
  <2>1. wrap \in [Wraps -> CallStates] /\ pending \in Wraps \cup {NoCall} /\ wrap[w] \in CallStates
        /\ "joins" \in CallStages /\ "loads" \in CallStages
    BY <1>0, TypedIs DEF CallStages
  <2>2. CASE pending # NoCall
    <3> DEFINE x == [wrap[w] EXCEPT !.stage = "joins", !.leader = pending]
    <3>1. wrap' = [wrap EXCEPT ![w] = x] /\ pending' = pending
      BY <2>1, <2>2 DEF Miss
    <3>2. /\ x \in CallStates /\ x.from = wrap[w].from /\ x.value = wrap[w].value
          /\ x.current = wrap[w].current /\ x.stage = "joins" /\ x.leader = pending
      BY <2>1 DEF CallStates
    <3> HIDE DEF x
    <3> QED
      BY <2>1, <2>2, <3>1, <3>2 DEF Changes
  <2>3. CASE pending = NoCall
    <3> DEFINE x == [wrap[w] EXCEPT !.stage = "loads"]
    <3>1. wrap' = [wrap EXCEPT ![w] = x] /\ pending' = IF wrap[w].current THEN w ELSE NoCall
      BY <2>1, <2>3 DEF Miss
    <3>2. /\ x \in CallStates /\ x.from = wrap[w].from /\ x.value = wrap[w].value
          /\ x.current = wrap[w].current /\ x.stage = "loads"
      BY <2>1 DEF CallStates
    <3> HIDE DEF x
    <3> QED
      BY <2>1, <2>3, <3>1, <3>2 DEF Changes
  <2> QED
    BY <2>2, <2>3
<1>2. wrap' \in [Wraps -> CallStates] /\ wrap'[w] = x /\ \A v \in Wraps \ {w} : wrap'[v] = wrap[v]
  BY <1>0, <1>1, ChangesOne
<1>3. c \in Commands
  BY DEF Commands
<1>4. CacheTyped'
  <2>1. pending' \in Wraps \cup {NoCall} /\ wire' \in Seq(Commands) /\ waiting' \in Seq(Commands)
    BY <1>0, <1>1, TypedIs
  <2> QED
    BY <1>0, <1>2, <2>1, StaysTyped
<1>5. Undisturbed
  BY <1>0, <1>2 DEF Undisturbed, SameCall, RestStays
<1>6. ClearsOnce' /\ OrderInv'
  BY <1>0, <1>3, <1>4, <1>5, OrderOfCall
<1>7. RowsFirst'
  BY <1>0, <1>1, <1>2 DEF LoadsInv, RowsFirst, RestStays
<1>8. LoadsCurrent'
  BY <1>0, <1>1, <1>2 DEF LoadsInv, LoadsCurrent, RestStays, Loading
<1>9. LoadsFresh'
  <2>1. ASSUME pending \in Wraps
        PROVE  /\ wrap[pending].stage \in Loading /\ pending # w
               /\ wrap[pending].stage # "loads" => wrap[pending].value >= wrap[w].from
    <3>1. wrap[pending].current /\ wrap[pending].stage \in Loading /\ pending # w
      BY <1>0, <2>1 DEF LoadsInv, LoadsCurrent, Loading
    <3>2. wrap[pending].stage # "loads" => wrap[pending].value >= floor
      BY <1>0, <2>1, <3>1 DEF LoadsInv, LoadsCurrent, Loading
    <3>3. wrap[w].from <= floor
      BY <1>0 DEF LoadsInv, RowsFirst
    <3>4. wrap[w].from \in Int /\ floor \in Int /\ wrap[pending].value \in Int
      BY <1>0, <2>1, CallsNumbers
    <3> QED
      BY <3>1, <3>2, <3>3, <3>4
  <2> SUFFICES ASSUME NEW v \in Wraps
               PROVE  /\ wrap'[v].stage \in {"loaded", "sets"} => wrap'[v].value >= wrap'[v].from
                      /\ wrap'[v].stage = "joins" =>
                            /\ wrap'[v].leader \in Wraps /\ wrap'[wrap'[v].leader].stage \in Loading
                            /\ wrap'[wrap'[v].leader].stage # "loads" =>
                                  wrap'[wrap'[v].leader].value >= wrap'[v].from
    BY DEF LoadsFresh
  <2>2. CASE v = w
    BY <1>1, <1>2, <2>1, <2>2
  <2>3. CASE v # w
    <3>1. wrap'[v] = wrap[v]
      BY <1>2, <2>3
    <3>2. wrap[v].stage = "joins" => wrap[v].leader \in Wraps \ {w} /\ wrap[wrap[v].leader].stage \in Loading
      BY <1>0 DEF LoadsInv, LoadsFresh, Loading
    <3>3. wrap[v].stage = "joins" => wrap'[wrap[v].leader] = wrap[wrap[v].leader]
      BY <1>2, <3>2
    <3> QED
      BY <1>0, <3>1, <3>2, <3>3 DEF LoadsInv, LoadsFresh
  <2> QED
    BY <2>2, <2>3
<1>10. NoStale'
  BY <1>0, <1>1, <1>2 DEF LoadsInv, NoStale, RestStays
<1> QED
  BY <1>4, <1>6, <1>7, <1>8, <1>9, <1>10, Together DEF LoadsInv

LEMMA Reads ==
    ASSUME CacheAssumption, CacheInv, NEW w \in Wraps, LoadReads(w)
    PROVE  CacheInv'
<1> DEFINE c == [op |-> "get", by |-> w]  x == [wrap[w] EXCEPT !.stage = "loaded", !.value = db]
<1>0. /\ CacheTyped /\ LoadsInv /\ RestStays /\ UNCHANGED <<wire, waiting, pending>>
      /\ wrap[w].stage = "loads"
  BY Together DEF LoadReads, RestStays
<1>1. /\ Changes(w, x) /\ x.stage = "loaded" /\ x.value = db /\ x.from = wrap[w].from
      /\ x.current = wrap[w].current
  <2>1. wrap[w] \in CallStates /\ db \in Missing .. MaxVersion /\ "loaded" \in CallStages
    BY <1>0, TypedIs DEF CallStages, Missing
  <2>2. wrap' = [wrap EXCEPT ![w] = x]
    BY DEF LoadReads
  <2> QED
    BY <2>1, <2>2 DEF CallStates, Changes
<1> HIDE DEF x
<1>2. wrap' \in [Wraps -> CallStates] /\ wrap'[w] = x /\ \A v \in Wraps \ {w} : wrap'[v] = wrap[v]
  BY <1>0, <1>1, ChangesOne
<1>3. c \in Commands
  BY DEF Commands
<1>4. CacheTyped'
  BY <1>0, <1>2, StaysTyped, TypedIs
<1>5. Undisturbed
  BY <1>0, <1>2 DEF Undisturbed, SameCall, RestStays
<1>6. ClearsOnce' /\ OrderInv'
  BY <1>0, <1>3, <1>4, <1>5, OrderOfCall
<1>7. /\ db \in Int /\ floor \in Int /\ db >= floor /\ \A d \in Writers : db >= writer[d].version
      /\ \A v \in Wraps : db >= wrap[v].from
  <2>1. /\ db \in Int /\ floor \in Int /\ \A d \in Writers : writer[d].version \in Int
        /\ \A v \in Wraps : wrap[v].from \in Int
    BY <1>0, CallsNumbers
  <2>2. /\ floor <= db /\ \A d \in Writers : writer[d].version <= db
        /\ \A v \in Wraps : wrap[v].from <= floor
    BY <1>0 DEF LoadsInv, RowsFirst
  <2> QED
    BY <2>1, <2>2
<1>8. RowsFirst'
  BY <1>0, <1>1, <1>2, <1>7 DEF LoadsInv, RowsFirst, RestStays
<1>9. LoadsCurrent'
  <2>1. UNCHANGED <<pending, floor, writer>>
    BY <1>0 DEF RestStays
  <2>2. \A v \in Wraps : wrap'[v].current = wrap[v].current /\ (wrap'[v].stage \in Loading <=> wrap[v].stage \in Loading)
    BY <1>0, <1>1, <1>2 DEF Loading
  <2>3. ASSUME NEW v \in Wraps, wrap'[v].current, wrap'[v].stage \in {"loaded", "sets"}
        PROVE  /\ wrap'[v].value >= floor
               /\ \A d \in Writers : writer[d].stage = "deletes" => wrap'[v].value >= writer[d].version
    BY <1>0, <1>1, <1>2, <1>7, <2>3 DEF LoadsInv, LoadsCurrent
  <2>4. pending # NoCall => pending \in Wraps
    BY <1>0, TypedIs
  <2> QED
    BY <1>0, <2>1, <2>2, <2>3, <2>4 DEF LoadsInv, LoadsCurrent
<1>10. LoadsFresh'
  <2> SUFFICES ASSUME NEW v \in Wraps
               PROVE  /\ wrap'[v].stage \in {"loaded", "sets"} => wrap'[v].value >= wrap'[v].from
                      /\ wrap'[v].stage = "joins" =>
                            /\ wrap'[v].leader \in Wraps /\ wrap'[wrap'[v].leader].stage \in Loading
                            /\ wrap'[wrap'[v].leader].stage # "loads" =>
                                  wrap'[wrap'[v].leader].value >= wrap'[v].from
    BY DEF LoadsFresh
  <2>1. wrap'[v].stage \in {"loaded", "sets"} => wrap'[v].value >= wrap'[v].from
    BY <1>0, <1>1, <1>2, <1>7 DEF LoadsInv, LoadsFresh
  <2>2. ASSUME wrap'[v].stage = "joins"
        PROVE  /\ wrap'[v].leader \in Wraps /\ wrap'[wrap'[v].leader].stage \in Loading
               /\ wrap'[wrap'[v].leader].stage # "loads" => wrap'[wrap'[v].leader].value >= wrap'[v].from
    <3>1. v # w /\ wrap'[v] = wrap[v]
      BY <1>1, <1>2, <2>2
    <3>2. /\ wrap[v].leader \in Wraps /\ wrap[wrap[v].leader].stage \in Loading
          /\ wrap[wrap[v].leader].stage # "loads" => wrap[wrap[v].leader].value >= wrap[v].from
      BY <1>0, <2>2, <3>1 DEF LoadsInv, LoadsFresh
    <3>3. CASE wrap[v].leader = w
      BY <1>1, <1>2, <1>7, <3>1, <3>3 DEF Loading
    <3>4. CASE wrap[v].leader # w
      BY <1>2, <3>1, <3>2, <3>4
    <3> QED
      BY <3>3, <3>4
  <2> QED
    BY <2>1, <2>2
<1>11. NoStale'
  BY <1>0, <1>1, <1>2 DEF LoadsInv, NoStale, RestStays
<1> QED
  BY <1>4, <1>6, <1>8, <1>9, <1>10, <1>11, Together DEF LoadsInv

(* A load that ends without a set.                                         *)
LEMMA Settles ==
    ASSUME CacheAssumption, CacheInv, NEW w \in Wraps, wrap[w].stage \in {"loads", "loaded"},
           NEW s \in {"done", "failed"}, s = "done" => wrap[w].stage = "loaded",
           wrap' = Settled(w, s), pending' = NoLonger({w}), RestStays, UNCHANGED <<wire, waiting>>
    PROVE  CacheInv'
<1> DEFINE c == [op |-> "get", by |-> w]  J == {v \in Wraps : wrap[v].stage = "joins" /\ wrap[v].leader = w}
<1>0. CacheTyped /\ LoadsInv /\ NoCall \notin Wraps /\ wrap \in [Wraps -> CallStates]
  BY Together, TypedIs DEF CacheAssumption
<1>1. ASSUME NEW v \in Wraps
      PROVE  /\ v = w \/ v \in J => /\ wrap'[v] \in CallStates /\ wrap'[v].stage = s
                                    /\ wrap'[v].value = wrap[w].value /\ wrap'[v].from = wrap[v].from
                                    /\ wrap'[v].current = wrap[v].current
             /\ v # w /\ v \notin J => wrap'[v] = wrap[v]
  <2>1. wrap'[v] = IF v = w \/ v \in J
                   THEN [wrap[v] EXCEPT !.stage = s, !.value = wrap[w].value, !.leader = NoCall]
                   ELSE wrap[v]
    BY DEF Settled, Joined
  <2>2. wrap[v] \in CallStates /\ s \in CallStages /\ wrap[w].value \in Missing .. MaxVersion
    BY <1>0 DEF CallStates, CallStages
  <2>3. CASE v = w \/ v \in J
    <3>1. wrap'[v] = [wrap[v] EXCEPT !.stage = s, !.value = wrap[w].value, !.leader = NoCall]
      BY <2>1, <2>3
    <3> QED
      BY <2>2, <2>3, <3>1 DEF CallStates
  <2> QED
    BY <2>1, <2>3
<1>2. wrap' \in [Wraps -> CallStates]
  <2>1. wrap' = [v \in Wraps |-> wrap'[v]]
    BY DEF Settled
  <2>2. \A v \in Wraps : wrap'[v] \in CallStates
    BY <1>0, <1>1
  <2> QED
    BY <2>1, <2>2
<1>3. c \in Commands
  BY DEF Commands
<1>4. /\ pending' = IF pending = w THEN NoCall ELSE pending
      /\ pending' \in Wraps \cup {NoCall}
  BY <1>0, TypedIs DEF NoLonger
<1>5. CacheTyped'
  <2>1. wire' \in Seq(Commands) /\ waiting' \in Seq(Commands)
    BY <1>0, TypedIs
  <2> QED
    BY <1>0, <1>2, <1>4, <2>1, StaysTyped
<1>6. \A v \in Wraps : wrap'[v].stage \in {"gets", "sets", "joins"} \cup Loading =>
                          wrap'[v] = wrap[v] /\ v # w /\ v \notin J
  BY <1>1 DEF Loading
<1>7. \A v \in Wraps : wrap[v].stage \in {"gets", "sets"} \cup Loading /\ v # w => wrap'[v] = wrap[v]
  BY <1>1 DEF Loading
<1>8. Undisturbed
  BY <1>7 DEF Undisturbed, SameCall, RestStays
<1>9. ClearsOnce' /\ OrderInv'
  BY <1>0, <1>3, <1>5, <1>8, OrderOfCall
<1>10. RowsFirst'
  <2>1. \A v \in Wraps : wrap'[v].from = wrap[v].from
    BY <1>1
  <2> QED
    BY <1>0, <2>1 DEF LoadsInv, RowsFirst, RestStays
<1>11. LoadsCurrent'
  <2>1. UNCHANGED <<floor, writer>>
    BY DEF RestStays
  <2>2. ASSUME pending' # NoCall PROVE wrap'[pending'].current /\ wrap'[pending'].stage \in Loading
    <3>1. pending' = pending /\ pending \in Wraps \ {w}
      BY <1>4, <2>2
    <3>2. wrap[pending].current /\ wrap[pending].stage \in Loading
      BY <1>0, <2>2, <3>1 DEF LoadsInv, LoadsCurrent
    <3> QED
      BY <1>7, <3>1, <3>2
  <2>3. \A v \in Wraps : wrap'[v].stage \in Loading => wrap'[v] = wrap[v] /\ v # w
    BY <1>6
  <2>4. \A v \in Wraps : wrap'[v].current /\ wrap'[v].stage \in Loading => pending' = v
    BY <1>0, <1>4, <2>3 DEF LoadsInv, LoadsCurrent
  <2>5. ASSUME NEW v \in Wraps, wrap'[v].current, wrap'[v].stage \in {"loaded", "sets"}
        PROVE  /\ wrap'[v].value >= floor
               /\ \A d \in Writers : writer[d].stage = "deletes" => wrap'[v].value >= writer[d].version
    BY <1>0, <2>3, <2>5 DEF LoadsInv, LoadsCurrent, Loading
  <2> QED
    BY <2>1, <2>2, <2>4, <2>5 DEF LoadsCurrent
<1>12. LoadsFresh'
  <2> SUFFICES ASSUME NEW v \in Wraps
               PROVE  /\ wrap'[v].stage \in {"loaded", "sets"} => wrap'[v].value >= wrap'[v].from
                      /\ wrap'[v].stage = "joins" =>
                            /\ wrap'[v].leader \in Wraps /\ wrap'[wrap'[v].leader].stage \in Loading
                            /\ wrap'[wrap'[v].leader].stage # "loads" =>
                                  wrap'[wrap'[v].leader].value >= wrap'[v].from
    BY DEF LoadsFresh
  <2>1. wrap'[v].stage \in {"loaded", "sets"} => wrap'[v].value >= wrap'[v].from
    BY <1>0, <1>6 DEF LoadsInv, LoadsFresh, Loading
  <2>2. ASSUME wrap'[v].stage = "joins"
        PROVE  /\ wrap'[v].leader \in Wraps /\ wrap'[wrap'[v].leader].stage \in Loading
               /\ wrap'[wrap'[v].leader].stage # "loads" => wrap'[wrap'[v].leader].value >= wrap'[v].from
    <3>1. wrap'[v] = wrap[v] /\ wrap[v].leader # w
      BY <1>6, <2>2
    <3>2. /\ wrap[v].leader \in Wraps /\ wrap[wrap[v].leader].stage \in Loading
          /\ wrap[wrap[v].leader].stage # "loads" => wrap[wrap[v].leader].value >= wrap[v].from
      BY <1>0, <2>2, <3>1 DEF LoadsInv, LoadsFresh
    <3>3. wrap'[wrap[v].leader] = wrap[wrap[v].leader]
      BY <1>7, <3>1, <3>2
    <3> QED
      BY <3>1, <3>2, <3>3
  <2> QED
    BY <2>1, <2>2
<1>13. NoStale'
  <2> SUFFICES ASSUME ~slipped, NEW v \in Wraps, wrap'[v].stage = "done"
               PROVE  wrap'[v].value >= wrap'[v].from
    BY DEF NoStale, RestStays
  <2>1. CASE v # w /\ v \notin J
    BY <1>0, <1>1, <2>1 DEF LoadsInv, NoStale
  <2>2. CASE v = w \/ v \in J
    <3>1. wrap[w].stage = "loaded"
      BY <1>1, <2>2
    <3>2. wrap[w].value >= wrap[v].from
      BY <1>0, <2>2, <3>1 DEF LoadsInv, LoadsFresh
    <3> QED
      BY <1>1, <2>2, <3>2
  <2> QED
    BY <2>1, <2>2
<1> QED
  BY <1>5, <1>9, <1>10, <1>11, <1>12, <1>13, Together DEF LoadsInv

LEMMA Returns ==
    ASSUME CacheAssumption, CacheInv, NEW w \in Wraps, LoadReturns(w)
    PROVE  CacheInv'
<1> DEFINE c == [op |-> "set", by |-> w]  x == [wrap[w] EXCEPT !.stage = "sets"]
<1>0. CacheTyped /\ LoadsInv /\ RestStays /\ wrap[w].stage = "loaded"
  BY Together DEF LoadReturns, RestStays
<1>1. CASE /\ wrap[w].current /\ (Sends(c) \/ WaitsToSend(c))
           /\ wrap' = [wrap EXCEPT ![w].stage = "sets"] /\ UNCHANGED pending
  <2>1. /\ Changes(w, x) /\ x.stage = "sets" /\ x.value = wrap[w].value /\ x.from = wrap[w].from
        /\ x.current = wrap[w].current
    <3>1. wrap[w] \in CallStates /\ "sets" \in CallStages
      BY <1>0, TypedIs DEF CallStages
    <3>2. wrap' = [wrap EXCEPT ![w] = x]
      BY <1>1
    <3> QED
      BY <3>1, <3>2 DEF CallStates, Changes
  <2> HIDE DEF x
  <2>2. wrap' \in [Wraps -> CallStates] /\ wrap'[w] = x /\ \A v \in Wraps \ {w} : wrap'[v] = wrap[v]
    BY <1>0, <2>1, ChangesOne
  <2>3. c \in Commands /\ c # Reset /\ c.op = "set" /\ c.by = w
    BY DEF Commands, Reset
  <2>4. CacheTyped'
    <3>1. wire' \in Seq(Commands) /\ waiting' \in Seq(Commands)
      BY <1>0, <1>1, <2>3, Sending, Together DEF RestStays
    <3> QED
      BY <1>0, <1>1, <2>2, <3>1, StaysTyped, TypedIs
  <2>5. Undisturbed
    BY <1>0, <2>2 DEF Undisturbed, SameCall, RestStays
  <2>6. Joins(c)
    <3>1. wrap[w].value >= floor
          /\ \A d \in Writers : writer[d].stage = "deletes" => wrap[w].value >= writer[d].version
      BY <1>0, <1>1 DEF LoadsInv, LoadsCurrent
    <3> QED
      BY <1>0, <2>1, <2>2, <2>3, <3>1 DEF Joins
  <2>7. ClearsOnce' /\ OrderInv'
    BY <1>0, <1>1, <2>3, <2>4, <2>5, <2>6, OrderOfCall
  <2>8. \A v \in Wraps : /\ wrap'[v].current = wrap[v].current /\ wrap'[v].value = wrap[v].value
                         /\ wrap'[v].from = wrap[v].from
                         /\ (wrap'[v].stage \in Loading <=> wrap[v].stage \in Loading)
                         /\ (wrap'[v].stage \in {"loaded", "sets"} <=> wrap[v].stage \in {"loaded", "sets"})
                         /\ (wrap'[v].stage = "loads" <=> wrap[v].stage = "loads")
                         /\ wrap'[v].stage \in {"joins", "done"} => wrap'[v] = wrap[v]
    BY <1>0, <2>1, <2>2 DEF Loading
  <2>9. RowsFirst'
    BY <1>0, <2>8 DEF LoadsInv, RowsFirst, RestStays
  <2>10. LoadsCurrent'
    <3>1. UNCHANGED <<pending, floor, writer>> /\ (pending # NoCall => pending \in Wraps)
      BY <1>0, <1>1, TypedIs DEF RestStays
    <3> QED
      BY <1>0, <2>8, <3>1 DEF LoadsInv, LoadsCurrent
  <2>11. LoadsFresh'
    BY <1>0, <2>8 DEF LoadsInv, LoadsFresh
  <2>12. NoStale'
    BY <1>0, <2>8 DEF LoadsInv, NoStale, RestStays
  <2> QED
    BY <2>4, <2>7, <2>9, <2>10, <2>11, <2>12, Together DEF LoadsInv
<1>2. CASE wrap' = Settled(w, "done") /\ pending' = NoLonger({w}) /\ UNCHANGED <<wire, waiting>>
  BY <1>0, <1>2, Settles
<1> QED
  BY <1>1, <1>2 DEF LoadReturns, MayStore

LEMMA Fails ==
    ASSUME CacheAssumption, CacheInv, NEW w \in Wraps, LoadFails(w)
    PROVE  CacheInv'
<1>1. /\ RestStays /\ UNCHANGED <<wire, waiting>> /\ wrap[w].stage \in {"loads", "loaded"}
      /\ wrap' = Settled(w, "failed") /\ pending' = NoLonger({w})
  BY DEF LoadFails, RestStays
<1> QED
  BY <1>1, Settles

(* The calls stay as they are.                                             *)
LEMMA LoadsStay ==
    ASSUME LoadsInv, CacheTyped, UNCHANGED <<wrap, pending, floor, slipped>>, db' \in Int, db' >= db,
           \A d \in Writers : writer'[d].version <= db',
           \A d \in Writers : writer'[d].stage = "deletes" => writer'[d] = writer[d]
    PROVE  LoadsInv'
<1>1. /\ db \in Int /\ floor \in Int /\ \A w \in Wraps : wrap[w].value \in Int
  BY CallsNumbers
<1>2. RowsFirst'
  <2>1. floor <= db /\ \A w \in Wraps : wrap[w].from <= floor
    BY DEF LoadsInv, RowsFirst
  <2>2. floor <= db'
    BY <1>1, <2>1
  <2> QED
    BY <2>1, <2>2 DEF RowsFirst
<1>3. LoadsCurrent'
  BY DEF LoadsInv, LoadsCurrent
<1>4. LoadsFresh' /\ NoStale'
  BY DEF LoadsInv, LoadsFresh, NoStale
<1> QED
  BY <1>2, <1>3, <1>4 DEF LoadsInv

LEMMA Writes ==
    ASSUME CacheAssumption, CacheInv, NEW d \in Writers, WriteRow(d)
    PROVE  CacheInv'
<1> DEFINE x == [stage |-> "wrote", version |-> db + 1]
<1>0. /\ CacheTyped /\ ClearsOnce /\ OrderInv /\ LoadsInv
      /\ UNCHANGED <<held, wire, trusted, due, waiting, wrap, pending, floor, slipped, restarts>>
      /\ db' = db + 1 /\ db < MaxVersion /\ writer' = [writer EXCEPT ![d] = x]
      /\ writer[d].stage \in {"idle", "done"}
  BY Together DEF WriteRow
<1>1. db' \in 1 .. MaxVersion /\ db \in Int /\ MaxVersion \in Nat /\ db \in 1 .. MaxVersion
  BY <1>0, TypedIs DEF CacheAssumption
<1>2. x \in RowStates /\ x.stage = "wrote" /\ x.version = db + 1
  <2>1. db + 1 \in Missing .. MaxVersion
    BY <1>0, <1>1 DEF Missing
  <2> QED
    BY <2>1 DEF RowStates
<1> HIDE DEF x
<1>3. writer' \in [Writers -> RowStates] /\ writer'[d] = x /\ \A e \in Writers \ {d} : writer'[e] = writer[e]
  BY <1>0, <1>2, TypedIs
<1>4. CacheTyped'
  BY <1>0, <1>1, <1>3, TypedIs DEF CacheTyped, CallStates, CallStages, RowStates
<1>5. Undisturbed
  BY <1>0, <1>3 DEF Undisturbed, SameCall
<1>6. QueueTyped /\ Queue' = Queue /\ ClearsOnce'
  BY <1>0, QueueIs, QueueStays
<1>7. OrderInv'
  BY <1>0, <1>5, <1>6, KeepsOrder DEF OrderInv
<1>8. \A e \in Writers : writer'[e].version <= db'
  <2>1. \A e \in Writers : writer[e].version <= db /\ writer[e].version \in Int
    BY <1>0, CallsNumbers DEF LoadsInv, RowsFirst
  <2> QED
    BY <1>0, <1>1, <1>2, <1>3, <2>1
<1>9. \A e \in Writers : writer'[e].stage = "deletes" => writer'[e] = writer[e]
  BY <1>2, <1>3
<1>10. LoadsInv'
  <2>1. db' \in Int /\ db' >= db
    BY <1>0, <1>1
  <2> QED
    BY <1>0, <1>8, <1>9, <2>1, LoadsStay
<1> QED
  BY <1>4, <1>6, <1>7, <1>10, Together

(* A delete: no call of before it is current.                              *)
LEMMA Deletes ==
    ASSUME CacheAssumption, CacheInv, NEW d \in Writers, Delete(d)
    PROVE  CacheInv'
<1> DEFINE c == [op |-> "del", by |-> d]
<1>0. /\ CacheTyped /\ ClearsOnce /\ OrderInv /\ LoadsInv /\ NoCall \notin Wraps
      /\ UNCHANGED <<db, held, trusted, due, restarts>>
      /\ writer[d].stage = "wrote" /\ pending' = NoCall
      /\ wrap' = [w \in Wraps |-> [wrap[w] EXCEPT !.current = @ /\ w \notin Active]]
  BY Together DEF Delete, CacheAssumption
<1>1. PICK s \in {"deletes", "done"} :
         /\ writer' = [writer EXCEPT ![d].stage = s]
         /\ \/ s = "deletes" /\ (Sends(c) \/ WaitsToSend(c)) /\ UNCHANGED <<floor, slipped>>
            \/ /\ s = "done" /\ Skips /\ floor' = Raised(d) /\ slipped' = (slipped \/ SetsWait)
  BY DEF Delete
<1>2. ASSUME NEW w \in Wraps
      PROVE  /\ wrap'[w] \in CallStates /\ SameCall(w) /\ wrap'[w].leader = wrap[w].leader
             /\ wrap'[w].current => w \notin Active
  <2>1. wrap[w] \in CallStates /\ wrap'[w] = [wrap[w] EXCEPT !.current = wrap[w].current /\ w \notin Active]
    BY <1>0, TypedIs
  <2> HIDE DEF Active
  <2>2. (wrap[w].current /\ w \notin Active) \in BOOLEAN
    OBVIOUS
  <2>3. PICK b \in BOOLEAN : b = (wrap[w].current /\ w \notin Active)
    BY <2>2
  <2>4. wrap'[w] = [wrap[w] EXCEPT !.current = b]
    BY <2>1, <2>3
  <2>5. wrap'[w] \in CallStates /\ SameCall(w) /\ wrap'[w].leader = wrap[w].leader /\ wrap'[w].current = b
    BY <2>1, <2>4 DEF CallStates, SameCall
  <2> QED
    BY <2>3, <2>5
<1>3. wrap' \in [Wraps -> CallStates]
  BY <1>0, <1>2
<1>4. /\ writer' \in [Writers -> RowStates]
      /\ writer'[d].stage = s /\ writer'[d].version = writer[d].version
      /\ \A e \in Writers \ {d} : writer'[e] = writer[e]
  <2>1. writer \in [Writers -> RowStates] /\ s \in {"idle", "wrote", "deletes", "done"}
    BY <1>0, TypedIs
  <2> QED
    BY <1>1, <2>1 DEF RowStates
<1>5. /\ db \in Int /\ floor \in Int /\ floor \in 1 .. MaxVersion /\ MaxVersion \in Nat
      /\ \A e \in Writers : writer[e].version \in Int /\ writer[e].version <= db
      /\ writer[d].version \in Missing .. MaxVersion
      /\ floor <= db /\ \A w \in Wraps : wrap[w].from <= floor /\ wrap[w].from \in Int
  <2>1. writer[d] \in RowStates
    BY <1>0, TypedIs
  <2> QED
    BY <1>0, <2>1, CallsNumbers, TypedIs DEF LoadsInv, RowsFirst, CacheAssumption, RowStates
<1>6. floor' \in 1 .. MaxVersion /\ floor' \in Int /\ floor' >= floor /\ floor' <= db
  BY <1>1, <1>5 DEF Raised, Missing
<1>7. c \in Commands /\ c # Reset /\ c.op = "del" /\ c.by = d
  BY DEF Commands, Reset
<1>8. wire' \in Seq(Commands) /\ waiting' \in Seq(Commands) /\ slipped' \in BOOLEAN
  <2>1. CASE s = "deletes" /\ (Sends(c) \/ WaitsToSend(c)) /\ UNCHANGED <<floor, slipped>>
    BY <1>0, <1>7, <2>1, Sending, TypedIs
  <2>2. CASE Skips /\ slipped' = (slipped \/ SetsWait)
    BY <1>0, <2>2, TypedIs DEF Skips
  <2> QED
    BY <1>1, <2>1, <2>2
<1>9. CacheTyped'
  <2>1. pending' \in Wraps \cup {NoCall}
    BY <1>0
  <2>2. /\ db' \in 1 .. MaxVersion /\ held' \in Missing .. MaxVersion
        /\ trusted' \in BOOLEAN /\ due' \in BOOLEAN /\ restarts' \in 0 .. MaxRestarts
    BY <1>0, TypedIs
  <2> QED
    BY <1>3, <1>4, <1>6, <1>8, <2>1, <2>2 DEF CacheTyped, CallStates, CallStages, RowStates
<1>10. Undisturbed
  BY <1>0, <1>2, <1>4 DEF Undisturbed
<1>11. QueueTyped /\ QueueTyped'
  BY <1>0, <1>9, QueueIs, QueueIsNext
<1>12. ClearsOnce' /\ OrderInv'
  <2>1. CASE s = "deletes" /\ (Sends(c) \/ WaitsToSend(c)) /\ UNCHANGED <<floor, slipped>>
    <3>1. Joins(c)
      BY <1>0, <1>4, <1>7, <2>1 DEF Joins
    <3>2. ClearsOnce' /\ Adds(c)
      BY <1>0, <1>7, <2>1, Sending
    <3> QED
      BY <1>0, <1>7, <1>9, <1>10, <1>11, <2>1, <3>1, <3>2, AddsOrder DEF OrderInv
  <2>2. CASE Skips /\ floor' = Raised(d) /\ slipped' = (slipped \/ SetsWait)
    <3>1. UNCHANGED <<wire, waiting, trusted>> /\ ~trusted
      BY <1>0, <2>2 DEF Skips
    <3>2. Queue' = Queue /\ ClearsOnce'
      BY <1>0, <3>1, QueueStays
    <3>3. CallsWait' /\ SetsBehindDeletes' /\ GetsFresh'
      BY <1>0, <1>10, <1>11, <2>2, <3>1, <3>2, KeepsOrder DEF OrderInv
    <3>4. ASSUME ~SetsWait, NEW i \in Holds("set")', Trusted(i)' PROVE FALSE
      <4>1. i \in 1 .. Len(Queue) /\ Queue[i].op = "set"
        BY <3>2, <3>4 DEF Holds
      <4>2. PICK k \in 1 .. Len(Queue) : Queue[k].op = "reset" /\ k < i
        BY <3>1, <3>2, <3>4 DEF Trusted, Cleared, Holds
      <4>3. Queue[k] = Reset
        BY <1>11, <4>2, CommandKinds DEF QueueTyped
      <4>4. Len(wire) \in Nat /\ Len(waiting) \in Nat /\ Len(Queue) = Len(wire) + Len(waiting)
        BY <1>0, QueueIs
      <4>5. k <= Len(wire)
        <5> SUFFICES ASSUME k > Len(wire) PROVE FALSE
          BY <4>2, <4>4
        <5>1. Queue[k] = waiting[k - Len(wire)] /\ k - Len(wire) \in 1 .. Len(waiting)
          BY <1>0, <4>2, <4>4, QueueIs
        <5> QED
          BY <1>0, <4>3, <5>1 DEF ClearsOnce
      <4>6. k = Len(wire)
        <5>1. k \in 1 .. Len(wire) /\ wire[k] = Reset
          BY <1>0, <4>2, <4>3, <4>4, <4>5, QueueIs
        <5> QED
          BY <1>0, <5>1 DEF ClearsOnce
      <4>7. Queue[i] = waiting[i - Len(wire)] /\ i - Len(wire) \in 1 .. Len(waiting)
        BY <1>0, <4>1, <4>2, <4>4, <4>6, QueueIs
      <4> QED
        BY <3>4, <4>1, <4>7 DEF SetsWait
    <3>5. TrustedFresh'
      BY <2>2, <3>1, <3>4 DEF TrustedFresh
    <3> QED
      BY <3>2, <3>3, <3>5 DEF OrderInv
  <2> QED
    BY <1>1, <2>1, <2>2
<1>13. RowsFirst'
  <2>1. \A e \in Writers : writer'[e].version = writer[e].version
    BY <1>4
  <2>2. \A w \in Wraps : wrap'[w].from <= floor'
    BY <1>2, <1>5, <1>6 DEF SameCall
  <2> QED
    BY <1>0, <1>2, <1>5, <1>6, <2>1, <2>2 DEF RowsFirst, SameCall
<1>14. LoadsCurrent'
  <2>1. \A w \in Wraps : ~(wrap'[w].current /\ wrap'[w].stage \in Loading)
    BY <1>2 DEF SameCall, Active, Loading
  <2> QED
    BY <1>0, <2>1 DEF LoadsCurrent, Loading
<1>15. LoadsFresh'
  BY <1>0, <1>2 DEF LoadsInv, LoadsFresh, SameCall
<1>16. NoStale'
  <2>1. slipped => slipped'
    BY <1>1
  <2> QED
    BY <1>0, <1>2, <2>1 DEF LoadsInv, NoStale, SameCall
<1> QED
  BY <1>9, <1>12, <1>13, <1>14, <1>15, <1>16, Together DEF LoadsInv

LEMMA RetriesDue ==
    ASSUME CacheInv, RetryDue
    PROVE  CacheInv'
<1>0. CacheTyped /\ ClearsOnce /\ OrderInv /\ LoadsInv
  BY Together
<1>1. UNCHANGED <<db, held, wire, trusted, waiting, wrap, pending, writer, floor, slipped, restarts>>
      /\ due' = TRUE
  BY DEF RetryDue
<1>2. CacheTyped'
  BY <1>0, <1>1 DEF CacheTyped
<1>3. QueueTyped /\ Queue' = Queue /\ ClearsOnce'
  BY <1>0, <1>1, QueueIs, QueueStays
<1>4. Undisturbed
  BY <1>1 DEF Undisturbed, SameCall
<1>5. OrderInv'
  BY <1>0, <1>1, <1>3, <1>4, KeepsOrder DEF OrderInv
<1>6. LoadsInv'
  BY <1>0, <1>1 DEF LoadsInv, RowsFirst, LoadsCurrent, LoadsFresh, NoStale
<1> QED
  BY <1>2, <1>3, <1>5, <1>6, Together

LEMMA Expires ==
    ASSUME CacheAssumption, CacheInv, Expire
    PROVE  CacheInv'
<1>0. CacheTyped /\ ClearsOnce /\ OrderInv /\ LoadsInv
  BY Together
<1>1. UNCHANGED <<db, wire, trusted, due, waiting, wrap, pending, writer, floor, slipped, restarts>>
      /\ held' = Missing
  BY DEF Expire
<1>2. CacheTyped'
  BY <1>0, <1>1 DEF CacheTyped, CacheAssumption, Missing
<1>3. QueueTyped /\ Queue' = Queue /\ ClearsOnce'
  BY <1>0, <1>1, QueueIs, QueueStays
<1>4. Undisturbed
  BY <1>1 DEF Undisturbed, SameCall
<1>5. OrderInv'
  BY <1>0, <1>1, <1>3, <1>4, KeepsOrder DEF OrderInv
<1>6. LoadsInv'
  BY <1>0, <1>1 DEF LoadsInv, RowsFirst, LoadsCurrent, LoadsFresh, NoStale
<1> QED
  BY <1>2, <1>3, <1>5, <1>6, Together

LEMMA EffectIs ==
    ASSUME CacheTyped, CacheAssumption, NEW c \in Commands
    PROVE  /\ c.op = "get" => Effect(c) = held
           /\ c.op = "set" => Effect(c) = wrap[c.by].value
           /\ c.op \in {"del", "reset"} => Effect(c) = Missing
           /\ Effect(c) \in Missing .. MaxVersion
<1>1. /\ c.op = "get" => Effect(c) = held
      /\ c.op = "set" => Effect(c) = wrap[c.by].value
      /\ c.op \in {"del", "reset"} => Effect(c) = Missing
  BY DEF Effect
<1>2. held \in Missing .. MaxVersion /\ Missing \in Missing .. MaxVersion
  BY TypedIs DEF CacheAssumption, Missing
<1>3. c.op = "set" => wrap[c.by].value \in Missing .. MaxVersion
  BY CommandKinds, CallIs
<1> QED
  BY <1>1, <1>2, <1>3, CommandKinds

LEMMA Restarts ==
    ASSUME CacheAssumption, CacheInv, Restart
    PROVE  CacheInv'
<1>0. CacheTyped /\ ClearsOnce /\ OrderInv /\ LoadsInv
  BY Together
<1>1. /\ wire' = << >> /\ waiting' = << >> /\ trusted' = FALSE /\ due' = TRUE
      /\ wrap' = [w \in Wraps |-> NotCalled] /\ pending' = NoCall
      /\ writer' = [d \in Writers |-> [stage |-> "idle", version |-> Missing]]
      /\ slipped' = FALSE /\ UNCHANGED <<db, floor>>
      /\ restarts < MaxRestarts /\ restarts' = restarts + 1
      /\ held' \in {held} \cup {Effect(wire[i]) : i \in 1 .. Len(wire)}
  BY DEF Restart
<1>2. Len(Queue') = 0
  BY <1>1 DEF Queue
<1>3. OrderInv'
  BY <1>1, <1>2, EmptyOrder DEF OrderInv
<1>4. ClearsOnce'
  BY <1>1 DEF ClearsOnce
<1>5. CacheTyped'
  <2>1. held' \in Missing .. MaxVersion
    <3>1. \A i \in 1 .. Len(wire) : Effect(wire[i]) \in Missing .. MaxVersion
      BY <1>0, QueueIs, EffectIs
    <3> QED
      BY <1>0, <1>1, <3>1, TypedIs
  <2>2. wrap' \in [Wraps -> CallStates]
    BY <1>1, NotCalledIs
  <2>3. [stage |-> "idle", version |-> Missing] \in RowStates
    BY DEF RowStates, CacheAssumption, Missing
  <2>4. writer' \in [Writers -> RowStates]
    BY <1>1, <2>3
  <2>5. restarts' \in 0 .. MaxRestarts /\ db' \in 1 .. MaxVersion /\ floor' \in 1 .. MaxVersion
    BY <1>0, <1>1, TypedIs DEF CacheAssumption
  <2>6. wire' \in Seq(Commands) /\ waiting' \in Seq(Commands) /\ pending' \in Wraps \cup {NoCall}
        /\ trusted' \in BOOLEAN /\ due' \in BOOLEAN /\ slipped' \in BOOLEAN
    BY <1>1, EmptySeq
  <2> QED
    BY <2>1, <2>2, <2>4, <2>5, <2>6 DEF CacheTyped, CallStates, CallStages, RowStates
<1>6. \A w \in Wraps : wrap'[w].stage = "idle" /\ wrap'[w].value = 0 /\ wrap'[w].from = 1
  BY <1>1, NotCalledIs DEF Missing
<1>7. db \in Int /\ floor \in Int /\ floor >= 1 /\ floor <= db
  BY <1>0, CallsNumbers DEF LoadsInv, RowsFirst
<1>8. RowsFirst'
  BY <1>1, <1>6, <1>7 DEF RowsFirst, Missing
<1>9. LoadsCurrent' /\ LoadsFresh' /\ NoStale'
  BY <1>1, <1>6 DEF LoadsCurrent, LoadsFresh, NoStale, Loading
<1> QED
  BY <1>3, <1>4, <1>5, <1>8, <1>9, Together DEF LoadsInv

-----------------------------------------------------------------------------
(* The server answers the oldest command.                                  *)
LEMMA HeadIs ==
    ASSUME CacheTyped, ClearsOnce, OrderInv, wire # << >>
    PROVE  /\ Head(wire) = Queue[1] /\ Queue[1] \in Commands /\ 1 \in Holds(Queue[1].op)
           /\ ~Cleared(0, 1)
           /\ \A w \in By(<<Queue[1]>>, "get") : w \in Wraps /\ wrap[w].stage = "gets"
           /\ \A w \in By(<<Queue[1]>>, "set") : w \in Wraps /\ wrap[w].stage = "sets"
           /\ \A d \in By(<<Queue[1]>>, "del") : d \in Writers /\ writer[d].stage = "deletes"
<1>1. wire \in Seq(Commands) /\ Len(wire) \in Nat /\ Len(wire) > 0 /\ Head(wire) = wire[1]
  BY DEF CacheTyped
<1>2. 1 \in 1 .. Len(Queue) /\ Queue[1] = wire[1] /\ Queue[1] \in Commands
  BY <1>1, QueueIs
<1>3. 1 \in Holds(Queue[1].op)
  BY <1>2 DEF Holds
<1>4. ~Cleared(0, 1)
  BY QueueIs DEF Cleared, Holds, QueueTyped
<1>5. /\ Queue[1].op = "get" => Queue[1].by \in Wraps /\ wrap[Queue[1].by].stage = "gets"
      /\ Queue[1].op = "set" => Queue[1].by \in Wraps /\ wrap[Queue[1].by].stage = "sets"
      /\ Queue[1].op = "del" => Queue[1].by \in Writers /\ writer[Queue[1].by].stage = "deletes"
  BY <1>2, <1>3, CommandKinds DEF OrderInv, CallsWait
<1>6. /\ \A w \in By(<<Queue[1]>>, "get") : Queue[1].op = "get" /\ w = Queue[1].by
      /\ \A w \in By(<<Queue[1]>>, "set") : Queue[1].op = "set" /\ w = Queue[1].by
      /\ \A d \in By(<<Queue[1]>>, "del") : Queue[1].op = "del" /\ d = Queue[1].by
  <2>1. /\ By(<<Queue[1]>>, "get") = IF Queue[1].op = "get" THEN {Queue[1].by} ELSE {}
        /\ By(<<Queue[1]>>, "set") = IF Queue[1].op = "set" THEN {Queue[1].by} ELSE {}
        /\ By(<<Queue[1]>>, "del") = IF Queue[1].op = "del" THEN {Queue[1].by} ELSE {}
    BY ByOne
  <2> QED
    BY <2>1
<1>7. /\ \A w \in By(<<Queue[1]>>, "get") : w \in Wraps /\ wrap[w].stage = "gets"
      /\ \A w \in By(<<Queue[1]>>, "set") : w \in Wraps /\ wrap[w].stage = "sets"
      /\ \A d \in By(<<Queue[1]>>, "del") : d \in Writers /\ writer[d].stage = "deletes"
  BY <1>5, <1>6
<1> QED
  BY <1>1, <1>2, <1>3, <1>4, <1>7

LEMMA Serves ==
    ASSUME CacheAssumption, CacheInv, Serve
    PROVE  CacheInv'
<1> DEFINE h == Queue[1]
<1>0. /\ CacheTyped /\ ClearsOnce /\ OrderInv /\ LoadsInv
      /\ UNCHANGED <<db, due, slipped, restarts>> /\ wire # << >> /\ held' = Effect(Head(wire))
  BY Together DEF Serve
<1>1. /\ Head(wire) = h /\ h \in Commands /\ 1 \in Holds(h.op) /\ ~Cleared(0, 1)
      /\ (h.op = "reset" <=> h = Reset) /\ h.op \in {"get", "set", "del", "reset"}
  BY <1>0, HeadIs, CommandKinds
<1>2. Leaves
  BY <1>0 DEF Leaves, Serve
<1>3. wire' \in Seq(Commands) /\ waiting' \in Seq(Commands) /\ ClearsOnce' /\ Drops
  BY <1>0, <1>2, Leaving
<1>4. held' \in Missing .. MaxVersion
  BY <1>0, <1>1, EffectIs
<1>5. trusted' \in BOOLEAN /\ (trusted' => trusted \/ h = Reset)
  BY <1>0, <1>1, TypedIs DEF Serve
<1> HIDE DEF h
(* The calls, and what they and the rows leave to the queue.               *)
<1>6. /\ wrap' \in [Wraps -> CallStates] /\ writer' \in [Writers -> RowStates]
      /\ floor' \in 1 .. MaxVersion /\ pending' \in Wraps \cup {NoCall}
      /\ LoadsInv' /\ AloneDisturbed(h)
      /\ floor' \in {floor} \cup {writer[d].version : d \in By(<<h>>, "del")}
  <2>1. CASE h = Reset
    <3>1. UNCHANGED <<wrap, pending, writer, floor>>
      BY <1>1, <2>1 DEF Serve
    <3>2. LoadsInv'
      <4>1. db' \in Int /\ db' >= db /\ \A d \in Writers : writer'[d].version <= db'
        BY <1>0, <3>1, CallsNumbers DEF LoadsInv, RowsFirst
      <4> QED
        BY <1>0, <3>1, <4>1, LoadsStay
    <3> QED
      BY <1>0, <3>1, <3>2, TypedIs DEF AloneDisturbed, SameCall
  <2>2. CASE h.op = "get" /\ held # Missing
    <3> DEFINE w == h.by  x == [wrap[w] EXCEPT !.stage = "done", !.value = held]
    <3>1. w \in Wraps /\ wrap[w].stage = "gets"
      BY <1>0, <1>1, <2>2, CommandKinds DEF OrderInv, CallsWait, h
    <3>2. wrap' = [wrap EXCEPT ![w].stage = "done", ![w].value = held] /\ UNCHANGED <<pending, writer, floor>>
      BY <1>1, <2>2 DEF Serve
    <3>3. wrap[w] \in CallStates /\ held \in Missing .. MaxVersion /\ "done" \in CallStages
      BY <1>0, <3>1, TypedIs DEF CallStages
    <3>4. wrap' = [wrap EXCEPT ![w] = x]
      BY <1>0, <3>1, <3>2, TypedIs
    <3>5. x \in CallStates /\ x.stage = "done" /\ x.value = held /\ x.from = wrap[w].from
          /\ x.current = wrap[w].current
      BY <3>3 DEF CallStates
    <3> HIDE DEF x
    <3>6. wrap' \in [Wraps -> CallStates] /\ wrap'[w] = x /\ \A v \in Wraps \ {w} : wrap'[v] = wrap[v]
      BY <1>0, <3>1, <3>4, <3>5, ChangesOne DEF Changes
    <3>7. ~slipped => held >= wrap[w].from
      BY <1>0, <1>1, <2>2 DEF OrderInv, GetsFresh, h
    <3>8. RowsFirst'
      BY <1>0, <3>2, <3>5, <3>6 DEF LoadsInv, RowsFirst
    <3>9. LoadsCurrent'
      BY <1>0, <3>1, <3>2, <3>5, <3>6, TypedIs DEF LoadsInv, LoadsCurrent, Loading
    <3>10. LoadsFresh'
      BY <1>0, <3>1, <3>5, <3>6 DEF LoadsInv, LoadsFresh, Loading
    <3>11. NoStale'
      BY <1>0, <3>5, <3>6, <3>7 DEF LoadsInv, NoStale
    <3>12. AloneDisturbed(h)
      BY <2>2, <3>2, <3>6 DEF AloneDisturbed, SameCall
    <3> QED
      BY <1>0, <3>2, <3>6, <3>8, <3>9, <3>10, <3>11, <3>12, TypedIs DEF LoadsInv
  <2>3. CASE h # Reset /\ ~(h.op = "get" /\ held # Missing)
    <3>1. GoOn(<<h>>)
      BY <1>1, <2>3 DEF Serve
    <3>2. /\ \A w \in By(<<h>>, "get") : w \in Wraps /\ wrap[w].stage = "gets"
          /\ \A w \in By(<<h>>, "set") : w \in Wraps /\ wrap[w].stage = "sets"
          /\ \A d \in By(<<h>>, "del") : d \in Writers /\ writer[d].stage = "deletes"
      BY <1>0, HeadIs DEF h
    <3>3. /\ wrap' \in [Wraps -> CallStates] /\ writer' \in [Writers -> RowStates]
          /\ floor' \in 1 .. MaxVersion /\ pending' \in Wraps \cup {NoCall}
          /\ LoadsInv'
          /\ \A w \in Wraps : wrap[w].stage \in {"gets", "sets"} =>
                SameCall(w) \/ w \in By(<<h>>, "get") \cup By(<<h>>, "set")
          /\ \A d \in Writers : writer[d].stage = "deletes" =>
                writer'[d] = writer[d] \/ d \in By(<<h>>, "del")
          /\ floor' \in {floor} \cup {writer[d].version : d \in By(<<h>>, "del")}
      BY <1>0, <3>1, <3>2, GoesOn
    <3>4. AloneDisturbed(h)
      BY <3>3, ByOne DEF AloneDisturbed
    <3> QED
      BY <3>3, <3>4
  <2> QED
    BY <2>1, <2>2, <2>3
<1>7. CacheTyped'
  <2>1. db' \in 1 .. MaxVersion /\ due' \in BOOLEAN /\ slipped' \in BOOLEAN /\ restarts' \in 0 .. MaxRestarts
    BY <1>0, TypedIs
  <2> QED
    BY <1>3, <1>4, <1>5, <1>6, <2>1 DEF CacheTyped, CallStates, CallStages, RowStates
<1>8. /\ h.op = "get" => held' = held
      /\ h.op = "set" => held' = wrap[h.by].value
      /\ h.op \in {"del", "reset"} => held' = Missing
  BY <1>0, <1>1, EffectIs
<1>9. floor' = floor \/ (h.op = "del" /\ floor' \in {floor, writer[h.by].version})
  BY <1>6, ByOne
<1>10. Answered(h)
  BY <1>0, <1>1, <1>5, <1>6, <1>8, <1>9 DEF Answered
<1>11. ~slipped /\ trusted' => held' = Missing \/ held' >= floor'
  <2> SUFFICES ASSUME ~slipped, trusted', h.op \in {"get", "set"} PROVE held' = Missing \/ held' >= floor'
    BY <1>1, <1>8
  <2>1. trusted /\ floor' = floor
    BY <1>1, <1>5, <1>9
  <2>2. CASE h.op = "get"
    BY <1>0, <1>8, <2>1, <2>2 DEF OrderInv, TrustedFresh
  <2>3. CASE h.op = "set"
    BY <1>0, <1>1, <1>8, <2>1, <2>3 DEF OrderInv, TrustedFresh, Trusted, h
  <2> QED
    BY <2>2, <2>3
<1>12. OrderInv'
  <2>1. QueueTyped /\ QueueTyped'
    BY <1>0, <1>7, QueueIs, QueueIsNext
  <2>2. Answered(Queue[1])
    BY <1>10 DEF h
  <2> QED
    BY <1>0, <1>3, <1>11, <2>1, <2>2, DropsOrder DEF OrderInv
<1> QED
  BY <1>3, <1>6, <1>7, <1>12, Together

LEMMA Throws ==
    ASSUME CacheAssumption, CacheInv, Throw
    PROVE  CacheInv'
<1> DEFINE h == Queue[1]
<1>0. /\ CacheTyped /\ ClearsOnce /\ OrderInv /\ LoadsInv
      /\ UNCHANGED <<db, slipped, restarts>> /\ wire # << >> /\ held' \in {held, Effect(Head(wire))}
      /\ trusted' = FALSE /\ due' = FALSE /\ wire' = Tail(wire)
  BY Together DEF Throw, Distrusts
<1>1. /\ Head(wire) = h /\ h \in Commands
      /\ (h.op = "reset" <=> h = Reset) /\ h.op \in {"get", "set", "del", "reset"}
  BY <1>0, HeadIs, CommandKinds
<1>2. held' \in Missing .. MaxVersion
  BY <1>0, <1>1, EffectIs, TypedIs
<1>3. ASSUME wire' \in Seq(Commands), waiting' \in Seq(Commands),
             wrap' \in [Wraps -> CallStates], writer' \in [Writers -> RowStates],
             floor' \in 1 .. MaxVersion, pending' \in Wraps \cup {NoCall}
      PROVE  CacheTyped'
  <2>1. /\ db' \in 1 .. MaxVersion /\ due' \in BOOLEAN /\ slipped' \in BOOLEAN /\ trusted' \in BOOLEAN
        /\ restarts' \in 0 .. MaxRestarts
    BY <1>0, TypedIs
  <2> QED
    BY <1>2, <1>3, <2>1 DEF CacheTyped, CallStates, CallStages, RowStates
<1> HIDE DEF h
<1>4. CASE h = Reset
  <2>1. GoOn(waiting) /\ waiting' = << >>
    BY <1>1, <1>4 DEF Throw
  <2>2. wire' = << >>
    <3>1. Len(wire) = 1 /\ wire \in Seq(Commands)
      <4>1. wire \in Seq(Commands) /\ Len(wire) > 0 /\ Len(wire) \in Nat /\ wire[1] = Reset
        BY <1>0, <1>1, <1>4 DEF CacheTyped
      <4>2. 1 \in 1 .. Len(wire)
        BY <4>1
      <4> QED
        BY <1>0, <4>1, <4>2 DEF ClearsOnce
    <3>2. Tail(wire) \in Seq(Commands) /\ Len(Tail(wire)) = 0
      BY <1>0, <3>1
    <3> QED
      BY <1>0, <3>2, EmptySeq
  <2>3. Len(Queue') = 0
    BY <2>1, <2>2 DEF Queue
  <2>4. ASSUME NEW op, NEW v \in By(waiting, op)
        PROVE  \E i \in Holds(op) : Queue[i].by = v
    <3>1. PICK j \in 1 .. Len(waiting) : waiting[j].op = op /\ waiting[j].by = v
      BY <2>4 DEF By
    <3>2. Len(wire) + j \in 1 .. Len(Queue) /\ Queue[Len(wire) + j] = waiting[j]
      BY <1>0, QueueIs
    <3> QED
      BY <3>1, <3>2 DEF Holds
  <2>5. /\ \A w \in By(waiting, "get") : w \in Wraps /\ wrap[w].stage = "gets"
        /\ \A w \in By(waiting, "set") : w \in Wraps /\ wrap[w].stage = "sets"
        /\ \A d \in By(waiting, "del") : d \in Writers /\ writer[d].stage = "deletes"
    <3>1. QueueTyped
      BY <1>0, QueueIs
    <3> QED
      BY <1>0, <2>4, <3>1, CallersAre DEF OrderInv, CallsWait
  <2>6. /\ wrap' \in [Wraps -> CallStates] /\ writer' \in [Writers -> RowStates]
        /\ floor' \in 1 .. MaxVersion /\ pending' \in Wraps \cup {NoCall}
        /\ LoadsInv'
    BY <1>0, <2>1, <2>5, GoesOn
  <2>7. wire' \in Seq(Commands) /\ waiting' \in Seq(Commands)
    BY <2>1, <2>2, EmptySeq
  <2>8. ClearsOnce'
    BY <2>1, <2>2 DEF ClearsOnce
  <2>9. OrderInv'
    BY <1>0, <2>3, EmptyOrder DEF OrderInv
  <2> QED
    BY <1>3, <2>6, <2>7, <2>8, <2>9, Together
<1>5. CASE h # Reset
  <2>1. GoOn(<<h>>) /\ waiting' = waiting
    BY <1>1, <1>5 DEF Throw
  <2>2. Leaves
    BY <1>0, <1>1, <1>5, <2>1 DEF Leaves
  <2>3. wire' \in Seq(Commands) /\ waiting' \in Seq(Commands) /\ ClearsOnce' /\ Drops
    BY <1>0, <2>2, Leaving
  <2>4. /\ \A w \in By(<<h>>, "get") : w \in Wraps /\ wrap[w].stage = "gets"
        /\ \A w \in By(<<h>>, "set") : w \in Wraps /\ wrap[w].stage = "sets"
        /\ \A d \in By(<<h>>, "del") : d \in Writers /\ writer[d].stage = "deletes"
    BY <1>0, HeadIs DEF h
  <2>5. /\ wrap' \in [Wraps -> CallStates] /\ writer' \in [Writers -> RowStates]
        /\ floor' \in 1 .. MaxVersion /\ pending' \in Wraps \cup {NoCall}
        /\ LoadsInv'
        /\ \A w \in Wraps : wrap[w].stage \in {"gets", "sets"} =>
              SameCall(w) \/ w \in By(<<h>>, "get") \cup By(<<h>>, "set")
        /\ \A d \in Writers : writer[d].stage = "deletes" =>
              writer'[d] = writer[d] \/ d \in By(<<h>>, "del")
        /\ floor' \in {floor} \cup {writer[d].version : d \in By(<<h>>, "del")}
    BY <1>0, <2>1, <2>4, GoesOn
  <2>6. AloneDisturbed(h)
    BY <2>5, ByOne DEF AloneDisturbed
  <2>7. CacheTyped'
    BY <1>3, <2>3, <2>5
  <2>8. /\ held' \in {held, Missing} \/ (h.op = "set" /\ held' = wrap[h.by].value)
        /\ floor' = floor \/ (h.op = "del" /\ floor' \in {floor, writer[h.by].version})
    BY <1>0, <1>1, <2>5, EffectIs, ByOne
  <2>9. Answered(Queue[1])
    BY <1>0, <1>5, <2>6, <2>8 DEF Answered, h
  <2>10. QueueTyped /\ QueueTyped'
    BY <1>0, <2>7, QueueIs, QueueIsNext
  <2>11. OrderInv'
    BY <1>0, <2>3, <2>9, <2>10, DropsOrder DEF OrderInv
  <2> QED
    BY <2>3, <2>5, <2>7, <2>11, Together
<1> QED
  BY <1>4, <1>5

LEMMA CacheSteps ==
    ASSUME CacheAssumption, CacheInv, [CacheNext]_cacheVars
    PROVE  CacheInv'
<1>1. CASE UNCHANGED cacheVars
  <2>0. /\ UNCHANGED <<db, held, wire, trusted, due, waiting, wrap, pending, writer, floor, slipped, restarts>>
        /\ CacheTyped /\ ClearsOnce /\ OrderInv /\ LoadsInv
    BY <1>1, Together DEF cacheVars
  <2>1. CacheTyped'
    BY <2>0 DEF CacheTyped
  <2>2. QueueTyped /\ Queue' = Queue /\ ClearsOnce'
    BY <2>0, QueueIs, QueueStays
  <2>3. Undisturbed
    BY <2>0 DEF Undisturbed, SameCall
  <2>4. OrderInv'
    BY <2>0, <2>2, <2>3, KeepsOrder DEF OrderInv
  <2>5. LoadsInv'
    BY <2>0 DEF LoadsInv, RowsFirst, LoadsCurrent, LoadsFresh, NoStale
  <2> QED
    BY <2>1, <2>2, <2>4, <2>5, Together
<1>2. ASSUME NEW w \in Wraps, Start(w) \/ Miss(w) \/ LoadReads(w) \/ LoadReturns(w) \/ LoadFails(w)
      PROVE  CacheInv'
  BY <1>2, Starts, Misses, Reads, Returns, Fails
<1>3. ASSUME NEW d \in Writers, WriteRow(d) \/ Delete(d)
      PROVE  CacheInv'
  BY <1>3, Writes, Deletes
<1>4. CASE Serve \/ Throw \/ RetryDue \/ Expire \/ Restart
  BY <1>4, Serves, Throws, RetriesDue, Expires, Restarts
<1> QED
  BY <1>1, <1>2, <1>3, <1>4 DEF CacheNext

LEMMA CacheAlways ==
    ASSUME CacheAssumption PROVE CacheSpec => []CacheInv
<1>1. CacheInit => CacheInv
  BY CacheStarts
<1>2. CacheInv /\ [CacheNext]_cacheVars => CacheInv'
  BY CacheSteps
<1> QED
  BY <1>1, <1>2, PTL DEF CacheSpec

LEMMA AtMostOne ==
    ASSUME NEW S, NEW x, S \subseteq {x}
    PROVE  Cardinality(S) <= 1
<1>1. IsFiniteSet({x}) /\ Cardinality({x}) = 1
  BY FS_Singleton
<1>2. Cardinality(S) <= Cardinality({x})
  BY <1>1, FS_Subset
<1> QED
  BY <1>1, <1>2

LEMMA CacheImplies ==
    ASSUME CacheAssumption, CacheInv
    PROVE  CacheTypeOK /\ NoStale /\ RestsFresh /\ OneLoads
<1>0. CacheTyped /\ ClearsOnce /\ OrderInv /\ LoadsInv /\ NoCall \notin Wraps
  BY Together DEF CacheAssumption
<1>1. Cardinality({i \in 1 .. Len(wire) : wire[i] = Reset}) <= 1
  <2>1. {i \in 1 .. Len(wire) : wire[i] = Reset} \subseteq {Len(wire)}
    BY <1>0 DEF ClearsOnce
  <2> QED
    BY <2>1, AtMostOne
<1>2. CacheTypeOK
  BY <1>0, <1>1 DEF CacheTypeOK, ClearsOnce, LoadsInv, LoadsCurrent, Loading
<1>3. RestsFresh
  BY <1>0 DEF RestsFresh, OrderInv, TrustedFresh
<1>4. OneLoads
  <2>1. {w \in Wraps : wrap[w].current /\ wrap[w].stage \in {"loads", "loaded", "sets"}} \subseteq {pending}
    BY <1>0 DEF LoadsInv, LoadsCurrent, Loading
  <2> QED
    BY <2>1, AtMostOne DEF OneLoads
<1> QED
  BY <1>0, <1>2, <1>3, <1>4 DEF LoadsInv

(* The types of the cache: one clearing at a time, under way while a       *)
(* command waits for it, and only a load of the present generation that    *)
(* others can join.                                                        *)
THEOREM CacheTypesKept ==
    ASSUME CacheAssumption PROVE CacheSpec => []CacheTypeOK
<1>1. CacheInv => CacheTypeOK
  BY CacheImplies
<1> QED
  BY <1>1, CacheAlways, PTL

(* The cache-aside pattern: unless a delete was skipped while a set waited *)
(* for the clearing, a wrap returns nothing older than the last delete     *)
(* that was over when it began, and a trusted cache that is idle holds     *)
(* nothing older; and of the calls of one generation one loads.            *)
THEOREM CacheIsSafe ==
    ASSUME CacheAssumption PROVE CacheSpec => [](NoStale /\ RestsFresh /\ OneLoads)
<1>1. CacheInv => NoStale /\ RestsFresh /\ OneLoads
  BY CacheImplies
<1> QED
  BY <1>1, CacheAlways, PTL
=============================================================================
