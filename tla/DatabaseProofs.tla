--------------------------- MODULE DatabaseProofs ---------------------------
(***************************************************************************)
(* Proofs about the gate of a SQLite connection (SqliteDb), for any number *)
(* of callers, about migration runs (Migrations), for any runners, files   *)
(* and deployments, about the lock of a directory (FileLock), for any      *)
(* instances and any calls on each, and about the limiter of requests      *)
(* (RateLimit), for any requests, keys, window and limit.                  *)
(***************************************************************************)
EXTENDS SqliteDb, Migrations, FileLock, RateLimit, FiniteSetTheorems, FunctionTheorems,
        SequenceTheorems, WellFoundedInduction, TLAPS

Busy == {"inside", "inner", "throws"}
Ending == {"committed", "undone", "refused"}
Closing == {"checks", "waits", "closes", "fails"}
Unwritten == {"new", "checks", "waits", "joins", "closes", "fails"}

(* The transaction that is open is that of the gate's holder, and its      *)
(* callback runs or is about to be undone.                                 *)
GateInv ==
    /\ open # NoOne => holder = open
    /\ \A c \in Callers :
          /\ op[c].pc \in Busy <=> open = c
          /\ op[c].pc \in Busy \cup Ending => holder = c

(* Where a write is, is what its call has come to.                         *)
WriteInv ==
    /\ \A write \in pending : write[1] = open
    /\ \A c \in Callers :
          /\ op[c].pc \in Unwritten => ~op[c].wrote
          /\ <<c, "own">> \in pending <=> op[c].wrote /\ op[c].pc \in Busy
          /\ <<c, "own">> \in durable <=> op[c].wrote /\ op[c].pc \in {"ok", "committed"}

(* One call closes, and before the driver is closed twice it knows.        *)
CloseInv ==
    /\ driver = 0 \/ (driver = 1 /\ open = NoOne)
    /\ driver = 1 => closed \/ \E c \in Callers : op[c].pc = "closes"
    /\ \A c \in Callers :
          /\ op[c].does = "close" /\ op[c].pc \in Closing => closing = c /\ ~closed
          /\ op[c].pc \in {"closes", "fails"} => op[c].does = "close"

SqliteInv == SqliteTypeOK /\ GateInv /\ WriteInv /\ CloseInv

Ops == [does : {"nothing", "prepare", "run", "transaction", "close"},
        pc : {"new", "checks", "waits", "joins", "closes", "fails", "inside", "inner",
              "throws", "committed", "undone", "refused", "ok", "error"},
        waitsFor : Callers \cup {NoOne}, wrote : BOOLEAN, loose : {"no", "prepared", "ran"}]

LEMMA SqliteStarts == SqliteInit => SqliteInv
  <1> SUFFICES ASSUME SqliteInit PROVE SqliteInv OBVIOUS
  <1>1. NewCall \in Ops BY DEF NewCall, Ops
  <1>2. SqliteTypeOK
    <2>1. op \in [Callers -> Ops] BY <1>1 DEF SqliteInit
    <2>2. pending \cup durable \subseteq Callers \X {"own", "loose"} BY DEF SqliteInit
    <2> QED BY <2>1, <2>2 DEF SqliteInit, SqliteTypeOK, Ops
  <1>3. \A c \in Callers :
            op[c].pc = "new" /\ op[c].wrote = FALSE /\ op[c].does = "nothing" /\ c # NoOne
    BY SqliteDbAssumption DEF SqliteInit, NewCall
  <1>4. GateInv BY <1>3 DEF SqliteInit, GateInv, Busy, Ending
  <1>5. WriteInv BY <1>3 DEF SqliteInit, WriteInv
  <1>6. CloseInv BY <1>3 DEF SqliteInit, CloseInv, Closing
  <1> QED BY <1>2, <1>4, <1>5, <1>6 DEF SqliteInv

(* What a step of one call does to the calls.                              *)
LEMMA OneCall ==
  ASSUME SqliteTypeOK, NEW c \in Callers, NEW r \in Ops, op' = [op EXCEPT ![c] = r]
  PROVE  /\ op' \in [Callers -> Ops]
         /\ op'[c] = r
         /\ \A d \in Callers : d # c => op'[d] = op[d]
  BY DEF SqliteTypeOK, Ops

(* A call that leaves the gate, the data and the close alone may go on as  *)
(* far as it holds, has written and closes what it did before.             *)
LEMMA CallMoves ==
  ASSUME SqliteInv, NEW c \in Callers, NEW r \in Ops, op' = [op EXCEPT ![c] = r],
         UNCHANGED <<gate, closes>>,
         r.pc \in Busy <=> op[c].pc \in Busy,
         r.pc \in Ending => op[c].pc \in Ending,
         r.pc \in Unwritten => op[c].pc \in Unwritten,
         r.wrote = op[c].wrote,
         r.wrote => (r.pc \in {"ok", "committed"} <=> op[c].pc \in {"ok", "committed"}),
         r.does = "close" /\ r.pc \in Closing => op[c].does = "close" /\ op[c].pc \in Closing,
         r.pc = "fails" => r.does = "close",
         r.pc # "closes" /\ op[c].pc # "closes"
  PROVE  SqliteInv'
  <1> USE DEF SqliteInv
  <1>1. UNCHANGED <<holder, open, pending, durable, driver, closing, closed>> BY DEF gate, closes
  <1>2. /\ op' \in [Callers -> Ops]
        /\ op'[c] = r
        /\ \A d \in Callers : d # c => op'[d] = op[d]
    BY OneCall
  <1>3. SqliteTypeOK' BY <1>1, <1>2 DEF SqliteTypeOK, Ops
  <1>4. GateInv' BY <1>1, <1>2 DEF GateInv, Ending
  <1>5. WriteInv' BY <1>1, <1>2 DEF WriteInv, Unwritten
  <1>6. CloseInv'
    <2>1. driver' = 1 => closed' \/ \E d \in Callers : op'[d].pc = "closes"
      BY <1>1, <1>2 DEF CloseInv
    <2>2. \A d \in Callers :
              /\ op'[d].does = "close" /\ op'[d].pc \in Closing => closing' = d /\ ~closed'
              /\ op'[d].pc \in {"closes", "fails"} => op'[d].does = "close"
      BY <1>1, <1>2 DEF CloseInv
    <2> QED BY <1>1, <2>1, <2>2 DEF CloseInv
  <1> QED BY <1>3, <1>4, <1>5, <1>6

LEMMA CallGoesOn ==
  ASSUME SqliteInv, NEW c \in Callers,
         \/ Waits(c) \/ Wakes(c) \/ Asks(c, "prepare") \/ Asks(c, "transaction") \/ Prepare(c)
         \/ WaitsForItself(c) \/ CallbackThrows(c) \/ PrepareLoose(c)
  PROVE  SqliteInv'
  <1>0. op \in [Callers -> Ops] BY DEF SqliteInv, SqliteTypeOK, Ops
  <1>1. \E r \in Ops :
            /\ op' = [op EXCEPT ![c] = r] /\ UNCHANGED <<gate, closes>>
            /\ r.wrote = op[c].wrote
            /\ \/ op[c].pc = "new" /\ r.pc = "checks" /\ r.does \in {"prepare", "transaction"}
               \/ op[c].pc \in {"checks", "waits"} /\ r.pc \in {"checks", "waits"}
                  /\ (r.does = op[c].does \/ r.does = "run")
               \/ op[c].pc = "checks" /\ r.pc = "error" /\ op[c].does = "prepare"
               \/ op[c].pc \in Busy /\ r.pc \in Busy /\ r.does = op[c].does
               \/ r.pc = op[c].pc /\ r.does = op[c].does /\ op[c].does = "transaction"
    <2>1. CASE Waits(c)
      <3>1. [op[c] EXCEPT !.pc = "waits", !.waitsFor = holder] \in Ops
        BY <1>0 DEF Ops, SqliteInv, SqliteTypeOK
      <3> QED BY <1>0, <2>1, <3>1 DEF Waits, Ops
    <2>2. CASE Wakes(c)
      <3>1. [op[c] EXCEPT !.pc = "checks", !.waitsFor = NoOne] \in Ops BY <1>0 DEF Ops
      <3> QED BY <1>0, <2>2, <3>1 DEF Wakes, Ops
    <2>3. ASSUME NEW does \in {"prepare", "transaction"}, Asks(c, does)
          PROVE  \E r \in Ops : /\ op' = [op EXCEPT ![c] = r] /\ UNCHANGED <<gate, closes>>
                                /\ r.wrote = op[c].wrote /\ op[c].pc = "new" /\ r.pc = "checks"
                                /\ r.does = does
      <3>1. [op[c] EXCEPT !.does = does, !.pc = "checks"] \in Ops BY <1>0 DEF Ops
      <3>2. op[c].pc = "new" BY <2>3 DEF Asks, NewCall
      <3>3. /\ [op[c] EXCEPT !.does = does, !.pc = "checks"].wrote = op[c].wrote
            /\ [op[c] EXCEPT !.does = does, !.pc = "checks"].pc = "checks"
            /\ [op[c] EXCEPT !.does = does, !.pc = "checks"].does = does
        BY <1>0 DEF Ops
      <3>4. /\ op' = [op EXCEPT ![c] = [op[c] EXCEPT !.does = does, !.pc = "checks"]]
            /\ UNCHANGED <<gate, closes>>
        BY <2>3 DEF Asks
      <3> QED BY <3>1, <3>2, <3>3, <3>4
    <2>4. CASE Prepare(c)
      <3>1. [op[c] EXCEPT !.does = "run"] \in Ops /\ [op[c] EXCEPT !.pc = "error"] \in Ops
        BY <1>0 DEF Ops
      <3>2. op[c].pc = "checks" /\ op[c].does = "prepare" BY <2>4 DEF Prepare, Passes
      <3>3. CASE op' = [op EXCEPT ![c] = [op[c] EXCEPT !.does = "run"]]
        BY <1>0, <2>4, <3>1, <3>2, <3>3 DEF Prepare, Ops
      <3>4. CASE op' = [op EXCEPT ![c] = [op[c] EXCEPT !.pc = "error"]]
        BY <1>0, <2>4, <3>1, <3>2, <3>4 DEF Prepare, Ops
      <3> QED BY <2>4, <3>3, <3>4 DEF Prepare, Reaches
    <2>5. CASE WaitsForItself(c) \/ CallbackThrows(c)
      <3>1. PICK pc \in {"inner", "throws"} : op' = [op EXCEPT ![c] = [op[c] EXCEPT !.pc = pc]]
        BY <2>5 DEF WaitsForItself, CallbackThrows, Reaches
      <3>2. [op[c] EXCEPT !.pc = pc] \in Ops BY <1>0 DEF Ops
      <3>3. op[c].pc \in Busy /\ UNCHANGED <<gate, closes>>
        BY <2>5 DEF WaitsForItself, CallbackThrows, Busy
      <3> QED BY <1>0, <3>1, <3>2, <3>3 DEF Ops, Busy
    <2>6. CASE PrepareLoose(c)
      <3>1. [op[c] EXCEPT !.loose = "prepared"] \in Ops BY <1>0 DEF Ops
      <3> QED BY <1>0, <2>6, <3>1 DEF PrepareLoose, Ops
    <2> QED BY <2>1, <2>2, <2>3, <2>4, <2>5, <2>6
  <1>2. PICK r \in Ops :
            /\ op' = [op EXCEPT ![c] = r] /\ UNCHANGED <<gate, closes>>
            /\ r.wrote = op[c].wrote
            /\ \/ op[c].pc = "new" /\ r.pc = "checks" /\ r.does \in {"prepare", "transaction"}
               \/ op[c].pc \in {"checks", "waits"} /\ r.pc \in {"checks", "waits"}
                  /\ (r.does = op[c].does \/ r.does = "run")
               \/ op[c].pc = "checks" /\ r.pc = "error" /\ op[c].does = "prepare"
               \/ op[c].pc \in Busy /\ r.pc \in Busy /\ r.does = op[c].does
               \/ r.pc = op[c].pc /\ r.does = op[c].does /\ op[c].does = "transaction"
    BY <1>1
  <1>3. op[c].pc \in Unwritten => ~op[c].wrote BY DEF SqliteInv, WriteInv
  <1>4. op[c].pc \in {"closes", "fails"} => op[c].does = "close" BY DEF SqliteInv, CloseInv
  <1> QED BY <1>2, <1>3, <1>4, CallMoves DEF Busy, Ending, Unwritten, Closing

LEMMA CallRuns ==
  ASSUME SqliteInv, NEW c \in Callers, Run(c)
  PROVE  SqliteInv'
  <1> USE DEF SqliteInv
  <1>0. op \in [Callers -> Ops] BY DEF SqliteTypeOK, Ops
  <1>1. op[c].pc = "checks" /\ op[c].does = "run" /\ holder = NoOne BY DEF Run, Passes, Free
  <1>2. open = NoOne BY <1>1, SqliteDbAssumption DEF GateInv
  <1>3. CASE /\ driver = 0 /\ Executes(<<c, "own">>)
             /\ op' = [op EXCEPT ![c] = [op[c] EXCEPT !.pc = "ok", !.wrote = TRUE]]
             /\ UNCHANGED <<holder, open, closes>>
    <2>1. [op[c] EXCEPT !.pc = "ok", !.wrote = TRUE] \in Ops BY <1>0 DEF Ops
    <2>2. /\ op' \in [Callers -> Ops]
          /\ op'[c] = [op[c] EXCEPT !.pc = "ok", !.wrote = TRUE]
          /\ \A d \in Callers : d # c => op'[d] = op[d]
      BY <1>3, <2>1, OneCall
    <2>3. op'[c].pc = "ok" /\ op'[c].wrote = TRUE /\ op'[c].does = "run"
      BY <1>0, <1>1, <2>2 DEF Ops
    <2>4. durable' = durable \cup {<<c, "own">>} /\ pending' = pending
      BY <1>2, <1>3 DEF Executes
    <2>5. SqliteTypeOK'
      <3>1. pending' \cup durable' \subseteq Callers \X {"own", "loose"}
        BY <2>4 DEF SqliteTypeOK
      <3> QED BY <1>3, <2>2, <3>1 DEF SqliteTypeOK, Ops, closes
    <2>6. GateInv' BY <1>1, <1>2, <1>3, <2>2, <2>3 DEF GateInv, Busy, Ending
    <2>7. WriteInv' BY <1>1, <1>2, <1>3, <2>2, <2>3, <2>4 DEF WriteInv, Busy, Unwritten
    <2>8. CloseInv' BY <1>1, <1>3, <2>2, <2>3 DEF CloseInv, Closing, closes
    <2> QED BY <2>5, <2>6, <2>7, <2>8
  <1>4. CASE op' = [op EXCEPT ![c] = [op[c] EXCEPT !.pc = "error"]] /\ UNCHANGED <<gate, closes>>
    <2>1. [op[c] EXCEPT !.pc = "error"] \in Ops BY <1>0 DEF Ops
    <2>2. op[c].wrote = FALSE BY <1>0, <1>1 DEF WriteInv, Unwritten, Ops
    <2>3. /\ [op[c] EXCEPT !.pc = "error"].pc = "error"
          /\ [op[c] EXCEPT !.pc = "error"].wrote = op[c].wrote
      BY <1>0 DEF Ops
    <2> QED
      BY <1>1, <1>4, <2>1, <2>2, <2>3, CallMoves DEF Busy, Ending, Unwritten, Closing
  <1> QED BY <1>3, <1>4 DEF Run, Reaches, gate

(* A close that is over ends the calls that share it.                      *)
LEMMA CloseIsOver ==
  ASSUME SqliteInv, NEW c \in Callers, NEW how \in {"ok", "error"}, CloseEnds(c, how),
         op[c].does = "close", op[c].pc \in {"waits", "closes", "fails"},
         closing = c, closing' = NoOne, UNCHANGED <<gate, driver>>,
         closed' \in BOOLEAN, op[c].pc = "closes" => closed',
         closed => closed'
  PROVE  SqliteInv'
  <1> USE DEF SqliteInv
  <1>0. op \in [Callers -> Ops] BY DEF SqliteTypeOK, Ops
  <1>1. op' \in [Callers -> Ops]
    <2>1. \A d \in Callers : [op[d] EXCEPT !.pc = how] \in Ops BY <1>0 DEF Ops
    <2> QED BY <1>0, <2>1 DEF CloseEnds
  <1>2. \A d \in Callers :
            /\ op'[d].wrote = op[d].wrote /\ op'[d].does = op[d].does
            /\ IF d = c \/ op[d].pc = "joins" THEN op'[d].pc = how ELSE op'[d].pc = op[d].pc
    BY <1>0 DEF CloseEnds, Ops
  <1>3. UNCHANGED <<holder, open, pending, durable, driver>> BY DEF gate
  <1>4. \A d \in Callers : d = c \/ op[d].pc = "joins" =>
            op[d].wrote = FALSE /\ op[d].pc \notin Busy \cup Ending
    BY <1>0 DEF WriteInv, Unwritten, Busy, Ending, Ops
  <1>5. \A d \in Callers : op[d].does = "close" /\ op[d].pc \in Closing => d = c
    BY DEF CloseInv
  <1>6. SqliteTypeOK' BY <1>1, <1>3 DEF SqliteTypeOK, Ops
  <1>7. GateInv' BY <1>2, <1>3, <1>4 DEF GateInv, Busy, Ending
  <1>8. WriteInv' BY <1>2, <1>3, <1>4 DEF WriteInv, Unwritten
  <1>9. CloseInv'
    <2>1. \A d \in Callers : op'[d].pc \in {"closes", "fails"} => op'[d].does = "close"
      BY <1>2 DEF CloseInv
    <2>2. \A d \in Callers : op'[d].does = "close" => op'[d].pc \notin Closing
      BY <1>2, <1>5 DEF Closing
    <2>3. driver = 1 => closed'
      BY <1>5 DEF CloseInv, Closing
    <2> QED BY <1>3, <2>1, <2>2, <2>3 DEF CloseInv
  <1> QED BY <1>6, <1>7, <1>8, <1>9

(* A transaction that ends leaves nothing pending, and what it leaves      *)
(* durable is its own.                                                     *)
LEMMA TransactionEnds ==
  ASSUME SqliteInv, NEW c \in Callers, NEW r \in Ops, op' = [op EXCEPT ![c] = r],
         op[c].pc \in Busy, open = c, holder = c, c # NoOne,
         r.pc \in {"committed", "undone"}, r.does = op[c].does, r.wrote = op[c].wrote,
         durable' = IF r.pc = "committed" THEN durable \cup pending ELSE durable,
         pending' = {}, open' = NoOne, UNCHANGED <<holder, closes>>
  PROVE  SqliteInv'
  <1> USE DEF SqliteInv
  <1>1. /\ op' \in [Callers -> Ops]
        /\ op'[c] = r
        /\ \A d \in Callers : d # c => op'[d] = op[d]
    BY OneCall
  <1>2. UNCHANGED <<holder, driver, closing, closed>> BY DEF closes
  <1>3. SqliteTypeOK'
    <2>1. durable' \subseteq Callers \X {"own", "loose"} BY DEF SqliteTypeOK
    <2> QED BY <1>1, <1>2, <2>1 DEF SqliteTypeOK, Ops
  <1>4. \A d \in Callers : d # c => op[d].pc \notin Busy /\ op[d].pc \notin Ending
    BY DEF GateInv
  <1>5. GateInv' BY <1>1, <1>2, <1>4, SqliteDbAssumption DEF GateInv, Busy, Ending
  <1>6. WriteInv'
    <2>1. \A d \in Callers : d # c => <<d, "own">> \notin pending BY <1>4 DEF WriteInv
    <2>2. \A d \in Callers : d # c => (<<d, "own">> \in durable' <=> <<d, "own">> \in durable)
      BY <2>1
    <2>3. /\ <<c, "own">> \in pending <=> op[c].wrote
          /\ <<c, "own">> \notin durable
      BY DEF WriteInv, Busy
    <2>4. <<c, "own">> \in durable' <=> op[c].wrote /\ r.pc = "committed" BY <2>3
    <2>5. \A d \in Callers : op'[d].pc \notin Busy BY <1>1, <1>4 DEF Busy
    <2>6. \A d \in Callers : op'[d].pc \in Unwritten => ~op'[d].wrote
      BY <1>1 DEF WriteInv, Unwritten
    <2>7. \A d \in Callers :
              <<d, "own">> \in durable' <=> op'[d].wrote /\ op'[d].pc \in {"ok", "committed"}
      BY <1>1, <2>2, <2>4 DEF WriteInv
    <2> QED BY <2>5, <2>6, <2>7 DEF WriteInv
  <1>7. CloseInv'
    <2>1. driver = 0 BY DEF CloseInv
    <2>2. \A d \in Callers :
              /\ op'[d].does = "close" /\ op'[d].pc \in Closing => closing' = d /\ ~closed'
              /\ op'[d].pc \in {"closes", "fails"} => op'[d].does = "close"
      BY <1>1, <1>2 DEF CloseInv, Closing
    <2> QED BY <1>2, <2>1, <2>2 DEF CloseInv
  <1> QED BY <1>3, <1>5, <1>6, <1>7

LEMMA CallTimesOut ==
  ASSUME SqliteInv, NEW c \in Callers, TimesOut(c)
  PROVE  SqliteInv'
  <1> USE DEF SqliteInv
  <1>0. op \in [Callers -> Ops] BY DEF SqliteTypeOK, Ops
  <1>1. op[c].pc = "waits" BY DEF TimesOut
  <1>2. CASE op[c].does = "close"
    <2>1. CloseEnds(c, "error") /\ closing' = NoOne /\ UNCHANGED <<gate, driver, closed>>
      BY <1>2 DEF TimesOut
    <2>2. closing = c /\ ~closed BY <1>1, <1>2 DEF CloseInv, Closing
    <2>3. closed' \in BOOLEAN /\ (closed => closed') BY <2>1 DEF SqliteTypeOK
    <2>4. UNCHANGED <<gate, driver>> BY <2>1
    <2> QED BY <1>1, <1>2, <2>1, <2>2, <2>3, <2>4, CloseIsOver
  <1>3. CASE op[c].does # "close"
    <2>1. op' = [op EXCEPT ![c] = [op[c] EXCEPT !.pc = "error"]] /\ UNCHANGED <<gate, closes>>
      BY <1>3 DEF TimesOut, Reaches, gate, closes
    <2>2. [op[c] EXCEPT !.pc = "error"] \in Ops BY <1>0 DEF Ops
    <2>3. /\ [op[c] EXCEPT !.pc = "error"].pc = "error"
          /\ [op[c] EXCEPT !.pc = "error"].wrote = op[c].wrote
      BY <1>0 DEF Ops
    <2>4. op[c].wrote = FALSE BY <1>0, <1>1 DEF WriteInv, Unwritten, Ops
    <2> QED BY <1>1, <2>1, <2>2, <2>3, <2>4, CallMoves DEF Busy, Ending, Unwritten, Closing
  <1> QED BY <1>2, <1>3

LEMMA CallCloses ==
  ASSUME SqliteInv, NEW c \in Callers, Close(c)
  PROVE  SqliteInv'
  <1> USE DEF SqliteInv
  <1>0. op \in [Callers -> Ops] BY DEF SqliteTypeOK, Ops
  <1>1. op[c].pc = "new" BY DEF Close, NewCall
  <1>2. op[c].wrote = FALSE BY <1>0, <1>1 DEF WriteInv, Unwritten, Ops
  <1>3. UNCHANGED <<gate, driver, closed>> BY DEF Close
  <1>4. PICK pc \in {"ok", "joins", "checks"} :
            /\ op' = [op EXCEPT ![c] = [op[c] EXCEPT !.does = "close", !.pc = pc]]
            /\ pc # "checks" => closing' = closing
            /\ pc = "checks" => ~closed /\ closing = NoOne /\ closing' = c
    <2>1. CASE closed BY <2>1 DEF Close
    <2>2. CASE ~closed /\ closing # NoOne BY <2>2 DEF Close
    <2>3. CASE ~closed /\ closing = NoOne BY <2>3 DEF Close
    <2> QED BY <2>1, <2>2, <2>3
  <1> DEFINE r == [op[c] EXCEPT !.does = "close", !.pc = pc]
  <1>5. r \in Ops /\ r.pc = pc /\ r.does = "close" /\ r.wrote = FALSE
    BY <1>0, <1>2 DEF Ops
  <1>6. op' = [op EXCEPT ![c] = r] BY <1>4
  <1> HIDE DEF r
  <1>7. CASE pc # "checks"
    <2>1. UNCHANGED <<gate, closes>> BY <1>3, <1>4, <1>7 DEF closes
    <2> QED BY <1>1, <1>2, <1>5, <1>6, <1>7, <2>1, CallMoves DEF Busy, Ending, Unwritten, Closing
  <1>8. CASE pc = "checks"
    <2>1. /\ op' \in [Callers -> Ops]
          /\ op'[c] = r
          /\ \A d \in Callers : d # c => op'[d] = op[d]
      BY <1>5, <1>6, OneCall
    <2>2. UNCHANGED <<holder, open, pending, durable, driver, closed>> BY <1>3 DEF gate
    <2>3. SqliteTypeOK' BY <1>4, <1>8, <2>1, <2>2 DEF SqliteTypeOK, Ops
    <2>4. GateInv' BY <1>1, <1>5, <1>8, <2>1, <2>2 DEF GateInv, Busy, Ending
    <2>5. WriteInv' BY <1>1, <1>2, <1>5, <1>8, <2>1, <2>2 DEF WriteInv, Busy, Unwritten
    <2>6. \A d \in Callers : op[d].does = "close" => op[d].pc \notin Closing
      BY <1>4, <1>8, SqliteDbAssumption DEF CloseInv
    <2>7. driver' = 1 => closed' \/ \E d \in Callers : op'[d].pc = "closes"
      BY <1>1, <2>1, <2>2 DEF CloseInv
    <2>8. CloseInv'
      BY <1>4, <1>5, <1>8, <2>1, <2>2, <2>6, <2>7 DEF CloseInv, Closing
    <2> QED BY <2>3, <2>4, <2>5, <2>8
  <1> QED BY <1>7, <1>8

LEMMA DriverCloses ==
  ASSUME SqliteInv, NEW c \in Callers, CloseDriver(c)
  PROVE  SqliteInv'
  <1> USE DEF SqliteInv
  <1>0. op \in [Callers -> Ops] BY DEF SqliteTypeOK, Ops
  <1>1. op[c].pc = "checks" /\ op[c].does = "close" /\ holder = NoOne
    BY DEF CloseDriver, Passes, Free
  <1>2. op[c].wrote = FALSE BY <1>0, <1>1 DEF WriteInv, Unwritten, Ops
  <1>3. closing = c /\ ~closed /\ open = NoOne
    BY <1>1, SqliteDbAssumption DEF CloseInv, Closing, GateInv
  <1>4. PICK pc \in {"closes", "fails"} :
            /\ op' = [op EXCEPT ![c] = [op[c] EXCEPT !.pc = pc]]
            /\ driver' = IF pc = "closes" THEN driver + 1 ELSE driver
    BY DEF CloseDriver, Reaches
  <1> DEFINE r == [op[c] EXCEPT !.pc = pc]
  <1>5. r \in Ops /\ r.pc = pc /\ r.does = "close" /\ r.wrote = FALSE
    BY <1>0, <1>1, <1>2 DEF Ops
  <1>6. op' = [op EXCEPT ![c] = r] BY <1>4
  <1> HIDE DEF r
  <1>7. /\ op' \in [Callers -> Ops]
        /\ op'[c] = r
        /\ \A d \in Callers : d # c => op'[d] = op[d]
    BY <1>5, <1>6, OneCall
  <1>8. UNCHANGED <<holder, open, pending, durable, closing, closed>> BY DEF CloseDriver, gate
  <1>9. driver = 0
    <2>1. \A d \in Callers : op[d].pc # "closes" BY <1>1, <1>3 DEF CloseInv, Closing
    <2> QED BY <1>3, <2>1 DEF CloseInv
  <1>10. SqliteTypeOK' BY <1>4, <1>7, <1>8, <1>9 DEF SqliteTypeOK, Ops
  <1>11. GateInv' BY <1>1, <1>5, <1>7, <1>8 DEF GateInv, Busy, Ending
  <1>12. WriteInv' BY <1>1, <1>2, <1>5, <1>7, <1>8 DEF WriteInv, Busy, Unwritten
  <1>13. CloseInv'
    <2>1. driver' = 0 \/ (driver' = 1 /\ open' = NoOne) BY <1>3, <1>4, <1>8, <1>9
    <2>2. driver' = 1 => op'[c].pc = "closes" BY <1>4, <1>5, <1>7, <1>9
    <2>3. \A d \in Callers :
              /\ op'[d].does = "close" /\ op'[d].pc \in Closing => closing' = d /\ ~closed'
              /\ op'[d].pc \in {"closes", "fails"} => op'[d].does = "close"
      BY <1>3, <1>5, <1>7, <1>8 DEF CloseInv
    <2> QED BY <2>1, <2>2, <2>3 DEF CloseInv
  <1> QED BY <1>10, <1>11, <1>12, <1>13

LEMMA CloseIsSettled ==
  ASSUME SqliteInv, NEW c \in Callers, CloseSettles(c)
  PROVE  SqliteInv'
  <1>1. op[c].pc \in {"closes", "fails"} /\ op[c].does = "close"
    BY DEF CloseSettles, SqliteInv, CloseInv
  <1>2. closing = c /\ ~closed BY <1>1 DEF SqliteInv, CloseInv, Closing
  <1>3. \E how \in {"ok", "error"} : CloseEnds(c, how) BY DEF CloseSettles
  <1>4. closing' = NoOne /\ UNCHANGED <<gate, driver>> BY DEF CloseSettles
  <1>5. closed' = (op[c].pc = "closes") BY DEF CloseSettles
  <1>6. closed' \in BOOLEAN /\ (op[c].pc = "closes" => closed') BY <1>5
  <1> QED BY <1>1, <1>2, <1>3, <1>4, <1>6, CloseIsOver DEF Closing

LEMMA CallBegins ==
  ASSUME SqliteInv, NEW c \in Callers, BeginTransaction(c)
  PROVE  SqliteInv'
  <1> USE DEF SqliteInv
  <1>0. op \in [Callers -> Ops] BY DEF SqliteTypeOK, Ops
  <1>1. op[c].pc = "checks" /\ op[c].does = "transaction" /\ holder = NoOne
    BY DEF BeginTransaction, Passes, Free
  <1>2. op[c].wrote = FALSE BY <1>0, <1>1 DEF WriteInv, Unwritten, Ops
  <1>3. open = NoOne /\ pending = {}
    BY <1>1, SqliteDbAssumption DEF GateInv, WriteInv, SqliteTypeOK
  <1>4. PICK pc \in {"inside", "refused"} :
            /\ op' = [op EXCEPT ![c] = [op[c] EXCEPT !.pc = pc]]
            /\ pc = "inside" => driver = 0 /\ open' = c
            /\ pc = "refused" => open' = open
    BY DEF BeginTransaction, Reaches
  <1> DEFINE r == [op[c] EXCEPT !.pc = pc]
  <1>5. r \in Ops /\ r.pc = pc /\ r.does = "transaction" /\ r.wrote = FALSE
    BY <1>0, <1>1, <1>2 DEF Ops
  <1>6. op' = [op EXCEPT ![c] = r] BY <1>4
  <1> HIDE DEF r
  <1>7. /\ op' \in [Callers -> Ops]
        /\ op'[c] = r
        /\ \A d \in Callers : d # c => op'[d] = op[d]
    BY <1>5, <1>6, OneCall
  <1>8. holder' = c /\ UNCHANGED <<pending, durable, driver, closing, closed>>
    BY DEF BeginTransaction, closes
  <1>9. \A d \in Callers : op[d].pc \notin Busy \cup Ending
    BY <1>1, SqliteDbAssumption DEF GateInv
  <1>10. SqliteTypeOK' BY <1>3, <1>4, <1>7, <1>8 DEF SqliteTypeOK, Ops
  <1>11. GateInv'
    <2>1. open' # NoOne => holder' = open' BY <1>3, <1>4, <1>8
    <2>2. op'[c].pc \in Busy <=> open' = c
      BY <1>3, <1>4, <1>5, <1>7, SqliteDbAssumption DEF Busy
    <2>3. \A d \in Callers : d # c => open' # d BY <1>3, <1>4, SqliteDbAssumption
    <2> QED BY <1>7, <1>8, <1>9, <2>1, <2>2, <2>3 DEF GateInv
  <1>12. WriteInv'
    <2>1. \A d \in Callers : op'[d].wrote = op[d].wrote BY <1>2, <1>5, <1>7
    <2>2. \A d \in Callers : op'[d].wrote =>
              /\ op'[d].pc = op[d].pc
              /\ op'[d].pc \notin Busy
      BY <1>2, <1>7, <1>9, <2>1
    <2>3. op'[c].pc \notin Unwritten BY <1>5, <1>7 DEF Unwritten
    <2>4. \A d \in Callers :
              <<d, "own">> \in durable <=> op[d].wrote /\ op[d].pc \in {"ok", "committed"}
      BY DEF WriteInv
    <2>5. \A d \in Callers :
              <<d, "own">> \in durable' <=> op'[d].wrote /\ op'[d].pc \in {"ok", "committed"}
      BY <1>8, <2>1, <2>2, <2>4
    <2>6. \A d \in Callers : op'[d].pc \in Unwritten => ~op'[d].wrote
      BY <1>7, <2>3 DEF WriteInv
    <2> QED BY <1>3, <1>8, <2>2, <2>5, <2>6 DEF WriteInv
  <1>13. CloseInv'
    <2>1. driver' = 0 \/ (driver' = 1 /\ open' = NoOne) BY <1>3, <1>4, <1>8 DEF CloseInv
    <2>2. driver' = 1 => closed' \/ \E d \in Callers : op'[d].pc = "closes"
      BY <1>1, <1>7, <1>8 DEF CloseInv
    <2>3. \A d \in Callers :
              /\ op'[d].does = "close" /\ op'[d].pc \in Closing => closing' = d /\ ~closed'
              /\ op'[d].pc \in {"closes", "fails"} => op'[d].does = "close"
      BY <1>5, <1>7, <1>8 DEF CloseInv
    <2> QED BY <2>1, <2>2, <2>3 DEF CloseInv
  <1> QED BY <1>10, <1>11, <1>12, <1>13

LEMMA CallbackWrites ==
  ASSUME SqliteInv, NEW c \in Callers, ScopedWrite(c)
  PROVE  SqliteInv'
  <1> USE DEF SqliteInv
  <1>0. op \in [Callers -> Ops] BY DEF SqliteTypeOK, Ops
  <1>1. op[c].pc = "inside" /\ ~op[c].wrote BY DEF ScopedWrite
  <1>2. open = c BY <1>1 DEF GateInv, Busy
  <1>3. pending' = pending \cup {<<c, "own">>} /\ durable' = durable
    BY <1>2, SqliteDbAssumption DEF ScopedWrite, Executes
  <1> DEFINE r == [op[c] EXCEPT !.wrote = TRUE]
  <1>4. r \in Ops /\ r.pc = "inside" /\ r.does = op[c].does /\ r.wrote = TRUE
    BY <1>0, <1>1 DEF Ops
  <1>5. op' = [op EXCEPT ![c] = r] BY DEF ScopedWrite
  <1> HIDE DEF r
  <1>6. /\ op' \in [Callers -> Ops]
        /\ op'[c] = r
        /\ \A d \in Callers : d # c => op'[d] = op[d]
    BY <1>4, <1>5, OneCall
  <1>7. UNCHANGED <<holder, open, driver, closing, closed>> BY DEF ScopedWrite, closes
  <1>8. \A d \in Callers : op'[d].pc = op[d].pc /\ op'[d].does = op[d].does
    BY <1>1, <1>4, <1>6
  <1>9. SqliteTypeOK'
    <2>1. pending' \cup durable' \subseteq Callers \X {"own", "loose"}
      BY <1>3 DEF SqliteTypeOK
    <2> QED BY <1>6, <1>7, <2>1 DEF SqliteTypeOK, Ops
  <1>10. GateInv' BY <1>7, <1>8 DEF GateInv
  <1>11. WriteInv'
    <2>1. \A write \in pending' : write[1] = open' BY <1>2, <1>3, <1>7 DEF WriteInv
    <2>2. \A d \in Callers : d # c => (<<d, "own">> \in pending' <=> <<d, "own">> \in pending)
      BY <1>3
    <2> QED BY <1>1, <1>3, <1>4, <1>6, <2>1, <2>2 DEF WriteInv, Busy, Unwritten
  <1>12. CloseInv' BY <1>7, <1>8 DEF CloseInv
  <1> QED BY <1>9, <1>10, <1>11, <1>12

LEMMA LooseWriteRuns ==
  ASSUME SqliteInv, NEW c \in Callers, RunLoose(c)
  PROVE  SqliteInv'
  <1> USE DEF SqliteInv
  <1>0. op \in [Callers -> Ops] BY DEF SqliteTypeOK, Ops
  <1> DEFINE r == [op[c] EXCEPT !.loose = "ran"]
  <1>1. r \in Ops /\ r.pc = op[c].pc /\ r.does = op[c].does /\ r.wrote = op[c].wrote
    BY <1>0 DEF Ops
  <1>2. op' = [op EXCEPT ![c] = r] BY DEF RunLoose
  <1> HIDE DEF r
  <1>3. /\ op' \in [Callers -> Ops]
        /\ \A d \in Callers : /\ op'[d].pc = op[d].pc /\ op'[d].does = op[d].does
                              /\ op'[d].wrote = op[d].wrote
    BY <1>1, <1>2, OneCall
  <1>4. UNCHANGED <<holder, open, driver, closing, closed>> BY DEF RunLoose, closes
  <1>5. /\ pending' \subseteq pending \cup {<<c, "loose">>} /\ pending \subseteq pending'
        /\ durable' \subseteq durable \cup {<<c, "loose">>} /\ durable \subseteq durable'
        /\ <<c, "loose">> \in pending' \ pending => open # NoOne /\ Usable(c)
    BY DEF RunLoose, Executes
  <1>6. SqliteTypeOK'
    <2>1. pending' \cup durable' \subseteq Callers \X {"own", "loose"}
      BY <1>5 DEF SqliteTypeOK
    <2> QED BY <1>3, <1>4, <2>1 DEF SqliteTypeOK, Ops
  <1>7. GateInv' BY <1>3, <1>4 DEF GateInv
  <1>8. WriteInv'
    <2>1. \A d \in Callers : /\ <<d, "own">> \in pending' <=> <<d, "own">> \in pending
                             /\ <<d, "own">> \in durable' <=> <<d, "own">> \in durable
      BY <1>5
    <2>2. Usable(c) => holder = c BY DEF Usable, GateInv, Busy, Ending
    <2>3. \A write \in pending' : write[1] = open'
      <3> SUFFICES ASSUME NEW write \in pending' PROVE write[1] = open BY <1>4
      <3>1. CASE write \in pending BY <3>1 DEF WriteInv
      <3>2. CASE write \notin pending
        <4>1. write = <<c, "loose">> BY <1>5, <3>2
        <4>2. open = c BY <1>5, <2>2, <3>2, <4>1 DEF GateInv
        <4> QED BY <4>1, <4>2
      <3> QED BY <3>1, <3>2
    <2> QED BY <1>3, <2>1, <2>3 DEF WriteInv
  <1>9. CloseInv' BY <1>3, <1>4 DEF CloseInv
  <1> QED BY <1>6, <1>7, <1>8, <1>9

LEMMA TransactionCommits ==
  ASSUME SqliteInv, NEW c \in Callers, Commit(c)
  PROVE  SqliteInv'
  <1> USE DEF SqliteInv
  <1>0. op \in [Callers -> Ops] BY DEF SqliteTypeOK, Ops
  <1>1. op[c].pc = "inside" BY DEF Commit
  <1>2. open = c /\ holder = c /\ c # NoOne
    BY <1>1, SqliteDbAssumption DEF GateInv, Busy
  <1>3. CASE op' = [op EXCEPT ![c] = [op[c] EXCEPT !.pc = "throws"]] /\ UNCHANGED <<gate, closes>>
    <2>1. [op[c] EXCEPT !.pc = "throws"] \in Ops BY <1>0 DEF Ops
    <2>2. /\ [op[c] EXCEPT !.pc = "throws"].pc = "throws"
          /\ [op[c] EXCEPT !.pc = "throws"].wrote = op[c].wrote
      BY <1>0 DEF Ops
    <2> QED BY <1>1, <1>3, <2>1, <2>2, CallMoves DEF Busy, Ending, Unwritten, Closing
  <1>4. CASE /\ durable' = durable \cup pending /\ pending' = {} /\ open' = NoOne
             /\ op' = [op EXCEPT ![c] = [op[c] EXCEPT !.pc = "committed"]]
             /\ UNCHANGED <<holder, closes>>
    <2>1. [op[c] EXCEPT !.pc = "committed"] \in Ops BY <1>0 DEF Ops
    <2>2. /\ [op[c] EXCEPT !.pc = "committed"].pc = "committed"
          /\ [op[c] EXCEPT !.pc = "committed"].does = op[c].does
          /\ [op[c] EXCEPT !.pc = "committed"].wrote = op[c].wrote
      BY <1>0 DEF Ops
    <2>3. op[c].pc \in Busy BY <1>1 DEF Busy
    <2> DEFINE r == [op[c] EXCEPT !.pc = "committed"]
    <2>4. r \in Ops /\ r.pc = "committed" /\ r.does = op[c].does /\ r.wrote = op[c].wrote
      BY <2>1, <2>2
    <2>5. op' = [op EXCEPT ![c] = r] BY <1>4
    <2> HIDE DEF r
    <2> QED BY <1>2, <1>4, <2>3, <2>4, <2>5, TransactionEnds
  <1> QED BY <1>3, <1>4 DEF Commit, Reaches, gate

LEMMA TransactionRollsBack ==
  ASSUME SqliteInv, NEW c \in Callers, RollBack(c)
  PROVE  SqliteInv'
  <1> USE DEF SqliteInv
  <1>0. op \in [Callers -> Ops] BY DEF SqliteTypeOK, Ops
  <1>1. op[c].pc = "throws" BY DEF RollBack
  <1>2. open = c /\ holder = c /\ c # NoOne
    BY <1>1, SqliteDbAssumption DEF GateInv, Busy
  <1>3. /\ durable' = durable /\ pending' = {} /\ open' = NoOne
        /\ op' = [op EXCEPT ![c] = [op[c] EXCEPT !.pc = "undone"]]
        /\ UNCHANGED <<holder, closes>>
    BY DEF RollBack, Reaches
  <1> DEFINE r == [op[c] EXCEPT !.pc = "undone"]
  <1>4. r \in Ops /\ r.pc = "undone" /\ r.does = op[c].does /\ r.wrote = op[c].wrote
    BY <1>0 DEF Ops
  <1>5. op' = [op EXCEPT ![c] = r] BY <1>3
  <1>6. op[c].pc \in Busy BY <1>1 DEF Busy
  <1> HIDE DEF r
  <1> QED BY <1>2, <1>3, <1>4, <1>5, <1>6, TransactionEnds

LEMMA GateIsGivenBack ==
  ASSUME SqliteInv, NEW c \in Callers, GiveBack(c)
  PROVE  SqliteInv'
  <1> USE DEF SqliteInv
  <1>0. op \in [Callers -> Ops] BY DEF SqliteTypeOK, Ops
  <1>1. op[c].pc \in {"committed", "undone", "refused"} BY DEF GiveBack
  <1>2. holder = c /\ open # c BY <1>1 DEF GateInv, Busy, Ending
  <1>3. open = NoOne BY <1>2 DEF GateInv
  <1>4. PICK pc \in {"ok", "error"} :
            /\ op' = [op EXCEPT ![c] = [op[c] EXCEPT !.pc = pc]]
            /\ pc = "ok" <=> op[c].pc = "committed"
    BY DEF GiveBack, Reaches
  <1> DEFINE r == [op[c] EXCEPT !.pc = pc]
  <1>5. r \in Ops /\ r.pc = pc /\ r.does = op[c].does /\ r.wrote = op[c].wrote
    BY <1>0 DEF Ops
  <1>6. op' = [op EXCEPT ![c] = r] BY <1>4
  <1> HIDE DEF r
  <1>7. /\ op' \in [Callers -> Ops]
        /\ op'[c] = r
        /\ \A d \in Callers : d # c => op'[d] = op[d]
    BY <1>5, <1>6, OneCall
  <1>8. holder' = NoOne /\ UNCHANGED <<open, pending, durable, driver, closing, closed>>
    BY DEF GiveBack, closes
  <1>9. SqliteTypeOK' BY <1>7, <1>8 DEF SqliteTypeOK, Ops
  <1>10. GateInv'
    <2>1. \A d \in Callers : d # c => op'[d].pc \notin Busy \cup Ending
      BY <1>2, <1>7 DEF GateInv
    <2>2. op'[c].pc \notin Busy \cup Ending BY <1>5, <1>7 DEF Busy, Ending
    <2> QED BY <1>3, <1>8, <2>1, <2>2, SqliteDbAssumption DEF GateInv
  <1>11. WriteInv'
    <2>1. op'[c].pc \notin Busy \cup Unwritten /\ op[c].pc \notin Busy \cup Unwritten
      BY <1>1, <1>5, <1>7 DEF Busy, Unwritten
    <2>2. op'[c].pc \in {"ok", "committed"} <=> op[c].pc \in {"ok", "committed"}
      BY <1>1, <1>4, <1>5, <1>7
    <2> QED BY <1>5, <1>7, <1>8, <2>1, <2>2 DEF WriteInv
  <1>12. CloseInv'
    <2>1. driver' = 1 => closed' \/ \E d \in Callers : op'[d].pc = "closes"
      BY <1>1, <1>7, <1>8 DEF CloseInv
    <2>2. \A d \in Callers :
              /\ op'[d].does = "close" /\ op'[d].pc \in Closing => closing' = d /\ ~closed'
              /\ op'[d].pc \in {"closes", "fails"} => op'[d].does = "close"
      BY <1>5, <1>7, <1>8 DEF CloseInv, Closing
    <2> QED BY <1>8, <2>1, <2>2 DEF CloseInv
  <1> QED BY <1>9, <1>10, <1>11, <1>12

LEMMA SqliteSteps == SqliteInv /\ [SqliteNext]_sqliteVars => SqliteInv'
  <1> SUFFICES ASSUME SqliteInv, [SqliteNext]_sqliteVars PROVE SqliteInv' OBVIOUS
  <1>1. CASE UNCHANGED sqliteVars
    BY <1>1
    DEF sqliteVars, SqliteInv, SqliteTypeOK, GateInv, WriteInv, CloseInv
  <1>2. CASE SqliteNext
    BY <1>2, CallGoesOn, CallTimesOut, CallCloses, CallRuns, DriverCloses, CloseIsSettled,
       CallBegins, CallbackWrites, LooseWriteRuns, TransactionCommits, TransactionRollsBack,
       GateIsGivenBack
    DEF SqliteNext
  <1> QED BY <1>1, <1>2

LEMMA SqliteInvIsSafe == SqliteInv => SqliteSafe
  <1> SUFFICES ASSUME SqliteInv PROVE SqliteSafe OBVIOUS
  <1> USE DEF SqliteInv
  <1>1. NoneMixed BY DEF GateInv, WriteInv, NoneMixed
  <1>2. ToldIsHeld
    BY DEF WriteInv, ToldIsHeld, Busy
  <1>3. ClosedOnce BY DEF CloseInv, ClosedOnce
  <1> QED BY <1>1, <1>2, <1>3 DEF SqliteSafe

(* For any number of callers: no write lands in the transaction of         *)
(* another, what a caller is told is what the database holds, and the      *)
(* driver is closed once and never under a transaction (sqlite.ts:365-369, *)
(* 532-553).                                                               *)
THEOREM SqliteIsSafe == SqliteSpec => []SqliteSafe
  <1>1. SqliteSpec => []SqliteInv BY SqliteStarts, SqliteSteps, PTL DEF SqliteSpec
  <1> QED BY <1>1, SqliteInvIsSafe, PTL

-----------------------------------------------------------------------------
(* Migrations.                                                             *)

Working == {"plan", "apply", "record"}

(* One run at a time works.                                                *)
OneWorks ==
    \A r, s \in Runners : run[r].pc \in Working /\ run[s].pc \in Working => r = s

(* No file has the body of another.                                        *)
OwnBodies == \A m, n \in Names : m # n /\ folder[m] # None => folder[m] # folder[n]

(* What is planned is not recorded, under no name, and planned once.       *)
PlanInv ==
    \A r \in Runners :
        /\ run[r].pc \notin {"apply", "record"} => \A n \in Names : run[r].plan[n] = None
        /\ \A m, n \in Names : run[r].plan[m] # None =>
              /\ recorded[m] = None
              /\ recorded[n] # run[r].plan[m]
              /\ m # n => run[r].plan[m] # run[r].plan[n]

About(b) ==
    \E r \in Runners, n \in Names :
        run[r].pc = "record" /\ Turn(r, n) /\ run[r].plan[n] = b

Held(b) == (\E n \in Names : recorded[n] = b) \/ About(b)

(* A body took effect each time it was cut off, and once more when it is   *)
(* recorded or about to be.                                                *)
CountInv ==
    \A b \in Bodies :
        /\ Held(b) => ran[b] = cutOff[b] + 1
        /\ ~Held(b) => ran[b] = cutOff[b]

MigrationsInv == MigrationsTypeOK /\ OneWorks /\ OwnBodies /\ PlanInv /\ CountInv

RunRecords == [pc : {"idle", "lock", "plan", "apply", "record"}, left : 0 .. Attempts,
               plan : [Names -> Bodies \cup {None}]]

LEMMA NotRunningTyped ==
  NotRunning \in RunRecords /\ NotRunning.pc = "idle" /\ \A n \in Names : NotRunning.plan[n] = None
  BY MigrationsAssumption DEF NotRunning, RunRecords

LEMMA MigrationsStart == MigrationsInit => MigrationsInv
  <1> SUFFICES ASSUME MigrationsInit PROVE MigrationsInv OBVIOUS
  <1> USE DEF MigrationsInit
  <1>1. \A r \in Runners : run[r].pc = "idle" /\ \A n \in Names : run[r].plan[n] = None
    BY NotRunningTyped
  <1>2. MigrationsTypeOK
    <2>1. run \in [Runners -> RunRecords] BY NotRunningTyped
    <2> QED BY <2>1, MigrationsAssumption DEF MigrationsTypeOK, RunRecords
  <1>3. OneWorks BY <1>1 DEF OneWorks, Working
  <1>4. OwnBodies BY DEF OwnBodies
  <1>5. PlanInv BY <1>1 DEF PlanInv
  <1>6. CountInv
    <2>1. \A b \in Bodies : b # None BY MigrationsAssumption DEF None
    <2>2. \A b \in Bodies : ~Held(b) BY <1>1, <2>1 DEF Held, About
    <2> QED BY <2>2 DEF CountInv
  <1> QED BY <1>2, <1>3, <1>4, <1>5, <1>6 DEF MigrationsInv

(* What a step of one run does to the runs.                                *)
LEMMA OneRun ==
  ASSUME MigrationsTypeOK, NEW r \in Runners, NEW x \in RunRecords,
         run' = [run EXCEPT ![r] = x]
  PROVE  /\ run' \in [Runners -> RunRecords]
         /\ run'[r] = x
         /\ \A s \in Runners : s # r => run'[s] = run[s]
  BY DEF MigrationsTypeOK, RunRecords

LEMMA OneTurn ==
  ASSUME NEW r \in Runners, NEW m \in Names, NEW n \in Names, Turn(r, m), Turn(r, n)
  PROVE  m = n
  BY MigrationsAssumption DEF Turn

(* Nobody else works, so nobody else is about to record.                   *)
LEMMA AboutAlone ==
  ASSUME OneWorks, NEW r \in Runners, run[r].pc \in Working, NEW b
  PROVE  About(b) <=> /\ run[r].pc = "record"
                      /\ \E n \in Names : Turn(r, n) /\ run[r].plan[n] = b
  BY DEF OneWorks, Working, About

(* A step of a run that records nothing and is not about to leaves what is *)
(* held as it was.                                                         *)
LEMMA HeldStays ==
  ASSUME MigrationsTypeOK, NEW r \in Runners, NEW x \in RunRecords, run' = [run EXCEPT ![r] = x],
         run[r].pc # "record", x.pc # "record", recorded' = recorded, NEW b
  PROVE  Held(b)' <=> Held(b)
  <1>1. run'[r] = x /\ \A s \in Runners : s # r => run'[s] = run[s] BY OneRun
  <1>2. \A s \in Runners : run'[s].pc = "record" \/ run[s].pc = "record" => run'[s] = run[s]
    BY <1>1
  <1>3. \A s \in Runners, n \in Names : run'[s] = run[s] => (Turn(s, n)' <=> Turn(s, n))
    BY DEF Turn
  <1>4. About(b)' <=> About(b) BY <1>2, <1>3 DEF About
  <1> QED BY <1>4 DEF Held

(* A run that has no plan.                                                 *)
LEMMA RunMoves ==
  ASSUME MigrationsInv, NEW r \in Runners, NEW x \in RunRecords, run' = [run EXCEPT ![r] = x],
         UNCHANGED <<folder, recorded, ran, cutOff>>, {runs', trouble', deploys'} \subseteq Nat,
         x.pc \notin {"apply", "record"}, \A n \in Names : x.plan[n] = None,
         x.pc \in Working => run[r].pc \in Working \/ ~Locked,
         run[r].pc # "record"
  PROVE  MigrationsInv'
  <1> USE DEF MigrationsInv
  <1>1. /\ run' \in [Runners -> RunRecords] /\ run'[r] = x
        /\ \A s \in Runners : s # r => run'[s] = run[s]
    BY OneRun
  <1>2. MigrationsTypeOK' BY <1>1 DEF MigrationsTypeOK, RunRecords
  <1>3. OneWorks' BY <1>1 DEF OneWorks, Working, Locked
  <1>4. OwnBodies' BY DEF OwnBodies
  <1>5. PlanInv' BY <1>1 DEF PlanInv
  <1>6. CountInv'
    <2>1. \A b \in Bodies : Held(b)' <=> Held(b) BY HeldStays
    <2> QED BY <2>1 DEF CountInv
  <1> QED BY <1>2, <1>3, <1>4, <1>5, <1>6

LEMMA FolderDeployed ==
  ASSUME MigrationsInv, Deploy
  PROVE  MigrationsInv'
  <1> USE DEF MigrationsInv, Deploy
  <1>1. folder' \in [Names -> Bodies \cup {None}] /\ OwnBodies'
    <2>1. CASE \E n \in Names, b \in Bodies \cup {None} :
                  /\ b # None => \A m \in Names : folder[m] # b
                  /\ folder' = [folder EXCEPT ![n] = b]
      <3>1. PICK n \in Names, b \in Bodies \cup {None} :
                  /\ b # None => \A m \in Names : folder[m] # b
                  /\ folder' = [folder EXCEPT ![n] = b]
        BY <2>1
      <3>2. /\ folder' \in [Names -> Bodies \cup {None}]
            /\ \A m \in Names : folder'[m] = IF m = n THEN b ELSE folder[m]
        BY <3>1 DEF MigrationsTypeOK
      <3> QED BY <3>1, <3>2 DEF OwnBodies
    <2>2. CASE \E m, n \in Names :
                  /\ folder[m] # None /\ folder[n] = None
                  /\ folder' = [folder EXCEPT ![n] = folder[m], ![m] = None]
      <3>1. PICK m \in Names, n \in Names :
                  /\ folder[m] # None /\ folder[n] = None
                  /\ folder' = [folder EXCEPT ![n] = folder[m], ![m] = None]
        BY <2>2
      <3>2. /\ folder' \in [Names -> Bodies \cup {None}]
            /\ \A k \in Names :
                  folder'[k] = IF k = m THEN None ELSE IF k = n THEN folder[m] ELSE folder[k]
        BY <3>1 DEF MigrationsTypeOK
      <3> QED BY <3>1, <3>2 DEF OwnBodies
    <2> QED BY <2>1, <2>2
  <1>2. deploys' \in Nat BY DEF MigrationsTypeOK
  <1>3. MigrationsTypeOK' BY <1>1, <1>2 DEF MigrationsTypeOK
  <1>4. OneWorks' BY DEF OneWorks
  <1>5. PlanInv' BY DEF PlanInv
  <1>6. CountInv'
    <2>1. \A b \in Bodies : Held(b)' <=> Held(b) BY DEF Held, About, Turn
    <2> QED BY <2>1 DEF CountInv
  <1> QED BY <1>1, <1>3, <1>4, <1>5, <1>6

LEMMA RunStarts ==
  ASSUME MigrationsInv, NEW r \in Runners, StartRun(r)
  PROVE  MigrationsInv'
  <1> DEFINE x == [NotRunning EXCEPT !.pc = "lock", !.left = Attempts]
  <1>1. x \in RunRecords /\ x.pc = "lock" /\ \A n \in Names : x.plan[n] = None
    <2>1. Attempts \in 0 .. Attempts BY MigrationsAssumption
    <2> QED BY <2>1, NotRunningTyped DEF RunRecords
  <1>2. run' = [run EXCEPT ![r] = x] BY DEF StartRun
  <1>3. run[r].pc = "idle" BY NotRunningTyped DEF StartRun
  <1>4. {runs', trouble', deploys'} \subseteq Nat
    BY DEF StartRun, MigrationsInv, MigrationsTypeOK
  <1>5. UNCHANGED <<folder, recorded, ran, cutOff>> BY DEF StartRun
  <1> HIDE DEF x
  <1> QED BY <1>1, <1>2, <1>3, <1>4, <1>5, RunMoves DEF Working

LEMMA LockIsAsked ==
  ASSUME MigrationsInv, NEW r \in Runners, TakeLock(r)
  PROVE  MigrationsInv'
  <1>0. run \in [Runners -> RunRecords] BY DEF MigrationsInv, MigrationsTypeOK, RunRecords
  <1>1. run[r].pc = "lock" BY DEF TakeLock
  <1>2. \A n \in Names : run[r].plan[n] = None BY <1>1 DEF MigrationsInv, PlanInv
  <1>3. PICK x \in RunRecords :
            /\ run' = [run EXCEPT ![r] = x]
            /\ x.pc \in {"idle", "lock", "plan"} /\ (x.pc = "plan" => ~Locked)
            /\ \A n \in Names : x.plan[n] = None
    <2>1. CASE ~Locked
      <3>1. [run[r] EXCEPT !.pc = "plan"] \in RunRecords BY <1>0 DEF RunRecords
      <3> QED BY <1>0, <1>2, <2>1, <3>1 DEF TakeLock, RunRecords
    <2>2. CASE Locked /\ run[r].left = 0
      BY <2>2, NotRunningTyped DEF TakeLock
    <2>3. CASE Locked /\ run[r].left # 0
      <3>1. run[r].left - 1 \in 0 .. Attempts
        BY <1>0, <2>3, MigrationsAssumption DEF RunRecords
      <3>2. [run[r] EXCEPT !.left = run[r].left - 1] \in RunRecords BY <1>0, <3>1 DEF RunRecords
      <3>3. /\ [run[r] EXCEPT !.left = run[r].left - 1].pc = "lock"
            /\ [run[r] EXCEPT !.left = run[r].left - 1].plan = run[r].plan
        BY <1>0, <1>1 DEF RunRecords
      <3>4. run' = [run EXCEPT ![r] = [run[r] EXCEPT !.left = run[r].left - 1]] BY <2>3 DEF TakeLock
      <3> QED BY <1>2, <3>2, <3>3, <3>4
    <2> QED BY <2>1, <2>2, <2>3
  <1>4. {runs', trouble', deploys'} \subseteq Nat
    BY DEF TakeLock, MigrationsInv, MigrationsTypeOK
  <1>5. UNCHANGED <<folder, recorded, ran, cutOff>> BY DEF TakeLock
  <1> QED BY <1>1, <1>3, <1>4, <1>5, RunMoves DEF Working

(* A plan that is not refused names no body that is recorded.              *)
LEMMA RunPlans ==
  ASSUME MigrationsInv, NEW r \in Runners, Plan(r)
  PROVE  MigrationsInv'
  <1> USE DEF MigrationsInv
  <1>0. run \in [Runners -> RunRecords] BY DEF MigrationsTypeOK, RunRecords
  <1>1. run[r].pc = "plan" /\ UNCHANGED <<folder, recorded, ran, cutOff, runs, trouble, deploys>>
    BY DEF Plan
  <1>2. {runs', trouble', deploys'} \subseteq Nat BY <1>1 DEF MigrationsTypeOK
  <1>3. CASE Refused
    <2>1. run' = [run EXCEPT ![r] = NotRunning] BY <1>3 DEF Plan
    <2> QED BY <1>1, <1>2, <2>1, NotRunningTyped, RunMoves DEF Working
  <1>4. CASE ~Refused
    <2> DEFINE x == [run[r] EXCEPT !.pc = "apply", !.plan = Pending]
    <2>1. run' = [run EXCEPT ![r] = x] BY <1>4 DEF Plan
    <2>2. Pending \in [Names -> Bodies \cup {None}] BY DEF Pending, MigrationsTypeOK
    <2>3. x \in RunRecords /\ x.pc = "apply" /\ x.plan = Pending
      BY <1>0, <2>2 DEF RunRecords
    <2> HIDE DEF x
    <2>4. /\ run' \in [Runners -> RunRecords] /\ run'[r] = x
          /\ \A s \in Runners : s # r => run'[s] = run[s]
      BY <2>1, <2>3, OneRun
    <2>5. MigrationsTypeOK' BY <1>1, <2>4 DEF MigrationsTypeOK, RunRecords
    <2>6. OneWorks' BY <1>1, <2>4 DEF OneWorks, Working
    <2>7. OwnBodies' BY <1>1 DEF OwnBodies
    <2>8. \A m, n \in Names : Pending[m] # None =>
              /\ recorded[m] = None
              /\ recorded[n] # Pending[m]
              /\ m # n => Pending[m] # Pending[n]
      <3> SUFFICES ASSUME NEW m \in Names, NEW n \in Names, Pending[m] # None
                   PROVE  /\ recorded[m] = None
                          /\ recorded[n] # Pending[m]
                          /\ m # n => Pending[m] # Pending[n]
        OBVIOUS
      <3>1. recorded[m] = None /\ Pending[m] = folder[m] /\ folder[m] # None BY DEF Pending
      <3>2. m # n => Pending[m] # Pending[n] BY <3>1 DEF Pending, OwnBodies
      <3>3. ~Edited(n) /\ ~Renamed(n, m) BY <1>4 DEF Refused
      <3>4. recorded[n] # folder[m] BY <3>1, <3>3 DEF Edited, Renamed, OwnBodies
      <3> QED BY <3>1, <3>2, <3>4
    <2>9. PlanInv' BY <1>1, <2>3, <2>4, <2>8 DEF PlanInv
    <2>10. CountInv'
      <3>1. \A b \in Bodies : Held(b)' <=> Held(b) BY <1>1, <2>1, <2>3, HeldStays
      <3> QED BY <1>1, <3>1 DEF CountInv
    <2> QED BY <2>5, <2>6, <2>7, <2>9, <2>10
  <1> QED BY <1>3, <1>4

LEMMA RunFinishes ==
  ASSUME MigrationsInv, NEW r \in Runners, Finish(r)
  PROVE  MigrationsInv'
  <1>1. {runs', trouble', deploys'} \subseteq Nat
    BY DEF Finish, MigrationsInv, MigrationsTypeOK
  <1> QED BY <1>1, NotRunningTyped, RunMoves DEF Finish, Working

(* What a step does to the plan of a run that moves on.                    *)
LEMMA PlanMoves ==
  ASSUME MigrationsInv, NEW r \in Runners, NEW n \in Names, NEW pc \in {"apply", "record"},
         run[r].pc \in {"apply", "record"}, Moves(r, n, pc)
  PROVE  /\ run' \in [Runners -> RunRecords]
         /\ run'[r].pc = pc
         /\ \A m \in Names : run'[r].plan[m] = IF m = n THEN None ELSE run[r].plan[m]
         /\ \A s \in Runners : s # r => run'[s] = run[s]
  <1>0. run \in [Runners -> RunRecords] BY DEF MigrationsInv, MigrationsTypeOK, RunRecords
  <1> DEFINE x == [run[r] EXCEPT !.pc = pc, !.plan = [run[r].plan EXCEPT ![n] = None]]
  <1>1. run' = [run EXCEPT ![r] = x] BY <1>0 DEF Moves, RunRecords
  <1>2. x \in RunRecords /\ x.pc = pc /\ x.plan = [run[r].plan EXCEPT ![n] = None]
    BY <1>0 DEF RunRecords
  <1>3. \A m \in Names : x.plan[m] = IF m = n THEN None ELSE run[r].plan[m]
    BY <1>0, <1>2 DEF RunRecords
  <1> HIDE DEF x
  <1>4. MigrationsTypeOK BY DEF MigrationsInv
  <1> QED BY <1>1, <1>2, <1>3, <1>4, OneRun

(* The run that works records the body of its turn: the history and the    *)
(* plans stay apart.                                                       *)
LEMMA TurnIsRecorded ==
  ASSUME MigrationsInv, NEW r \in Runners, NEW n \in Names,
         run[r].pc \in {"apply", "record"}, Turn(r, n),
         Records(n, run[r].plan[n]), Moves(r, n, "apply"),
         UNCHANGED <<folder, cutOff, runs, trouble, deploys>>,
         ran' \in [Bodies -> Nat]
  PROVE  /\ MigrationsTypeOK' /\ OneWorks' /\ OwnBodies' /\ PlanInv'
         /\ run[r].plan[n] \in Bodies
         /\ \A b \in Bodies : Held(b)' <=> b = run[r].plan[n] \/ \E m \in Names : recorded[m] = b
  <1> USE DEF MigrationsInv
  <1>0. run \in [Runners -> RunRecords] BY DEF MigrationsTypeOK, RunRecords
  <1> DEFINE b == run[r].plan[n]
  <1>1. b # None /\ b \in Bodies BY <1>0 DEF Turn, RunRecords
  <1>2. /\ run' \in [Runners -> RunRecords]
        /\ run'[r].pc = "apply"
        /\ \A m \in Names : run'[r].plan[m] = IF m = n THEN None ELSE run[r].plan[m]
        /\ \A s \in Runners : s # r => run'[s] = run[s]
    BY PlanMoves
  <1>3. /\ recorded[n] = None
        /\ recorded' \in [Names -> Bodies \cup {None}]
        /\ \A m \in Names : recorded'[m] = IF m = n THEN b ELSE recorded[m]
    BY <1>1 DEF Records, MigrationsTypeOK
  <1> HIDE DEF b
  <1>4. MigrationsTypeOK' BY <1>2, <1>3 DEF MigrationsTypeOK, RunRecords
  <1>5. OneWorks' BY <1>2 DEF OneWorks, Working
  <1>6. OwnBodies' BY DEF OwnBodies
  <1>7. \A s \in Runners : s # r => run'[s].pc \notin {"apply", "record"}
    BY <1>2 DEF OneWorks, Working
  <1>8. PlanInv'
    <2>1. ASSUME NEW m \in Names, NEW k \in Names, run'[r].plan[m] # None
          PROVE  /\ recorded'[m] = None
                 /\ recorded'[k] # run'[r].plan[m]
                 /\ m # k => run'[r].plan[m] # run'[r].plan[k]
      <3>1. m # n /\ run'[r].plan[m] = run[r].plan[m] BY <1>2, <2>1
      <3>2. /\ recorded[m] = None /\ recorded[k] # run[r].plan[m]
            /\ run[r].plan[m] # run[r].plan[n]
            /\ m # k => run[r].plan[m] # run[r].plan[k]
        BY <2>1, <3>1 DEF PlanInv
      <3> QED BY <1>2, <1>3, <2>1, <3>1, <3>2 DEF b
    <2>2. ASSUME NEW s \in Runners, s # r PROVE \A m \in Names : run'[s].plan[m] = None
      BY <1>2, <1>7, <2>2 DEF PlanInv
    <2> QED BY <1>2, <1>7, <2>1, <2>2 DEF PlanInv
  <1>9. \A a \in Bodies : Held(a)' <=> a = b \/ \E m \in Names : recorded[m] = a
    <2>1. \A a : ~About(a)' BY <1>2, <1>7 DEF About
    <2>2. \A a \in Bodies : a # None BY MigrationsAssumption DEF None
    <2> QED BY <1>3, <2>1, <2>2 DEF Held
  <1> QED BY <1>1, <1>4, <1>5, <1>6, <1>8, <1>9 DEF b

LEMMA AppliedInTransaction ==
  ASSUME MigrationsInv, NEW r \in Runners, NEW n \in Names, ApplyInTransaction(r, n)
  PROVE  MigrationsInv'
  <1> USE DEF MigrationsInv
  <1> DEFINE b == run[r].plan[n]
  <1>1. /\ run[r].pc = "apply" /\ Turn(r, n) /\ Records(n, b) /\ Moves(r, n, "apply")
        /\ ran' = [ran EXCEPT ![b] = @ + 1]
        /\ UNCHANGED <<folder, cutOff, runs, trouble, deploys>>
    BY DEF ApplyInTransaction, Applies
  <1>2. ran' \in [Bodies -> Nat]
    <2>1. run[r].plan[n] \in Bodies \cup {None} BY DEF MigrationsTypeOK
    <2>2. b \in Bodies BY <1>1, <2>1 DEF Turn
    <2> HIDE DEF b
    <2> QED BY <1>1, <2>2 DEF MigrationsTypeOK
  <1>3. /\ MigrationsTypeOK' /\ OneWorks' /\ OwnBodies' /\ PlanInv' /\ b \in Bodies
        /\ \A a \in Bodies : Held(a)' <=> a = b \/ \E m \in Names : recorded[m] = a
    BY <1>1, <1>2, TurnIsRecorded
  <1>4. b # None /\ \A m \in Names : recorded[m] # b BY <1>1 DEF PlanInv, Turn
  <1>5. \A a : ~About(a) BY <1>1, AboutAlone DEF Working
  <1> HIDE DEF b
  <1>6. \A a \in Bodies : ran'[a] = IF a = b THEN ran[a] + 1 ELSE ran[a]
    BY <1>1, <1>3 DEF MigrationsTypeOK
  <1>7. CountInv'
    <2> SUFFICES ASSUME NEW a \in Bodies
                 PROVE  /\ Held(a)' => ran'[a] = cutOff'[a] + 1
                        /\ ~Held(a)' => ran'[a] = cutOff'[a]
      BY DEF CountInv
    <2>1. CASE a = b
      <3>1. ~Held(a) BY <1>4, <1>5, <2>1 DEF Held
      <3> QED BY <1>1, <1>3, <1>6, <2>1, <3>1 DEF CountInv
    <2>2. CASE a # b
      <3>1. Held(a)' <=> Held(a) BY <1>3, <1>5, <2>2 DEF Held
      <3> QED BY <1>1, <1>6, <2>2, <3>1 DEF CountInv
    <2> QED BY <2>1, <2>2
  <1> QED BY <1>3, <1>7

LEMMA BareRecorded ==
  ASSUME MigrationsInv, NEW r \in Runners, NEW n \in Names, RecordBare(r, n)
  PROVE  MigrationsInv'
  <1> USE DEF MigrationsInv
  <1> DEFINE b == run[r].plan[n]
  <1>1. /\ run[r].pc = "record" /\ Turn(r, n) /\ Records(n, b) /\ Moves(r, n, "apply")
        /\ UNCHANGED <<folder, ran, cutOff, runs, trouble, deploys>>
    BY DEF RecordBare
  <1>2. ran' \in [Bodies -> Nat] BY <1>1 DEF MigrationsTypeOK
  <1>3. /\ MigrationsTypeOK' /\ OneWorks' /\ OwnBodies' /\ PlanInv' /\ b \in Bodies
        /\ \A a \in Bodies : Held(a)' <=> a = b \/ \E m \in Names : recorded[m] = a
    BY <1>1, <1>2, TurnIsRecorded
  <1>4. \A a : About(a) <=> a = b
    <2>1. \A m \in Names : Turn(r, m) => m = n BY <1>1, OneTurn
    <2>2. run[r].pc \in Working BY <1>1 DEF Working
    <2> QED BY <1>1, <2>1, <2>2, AboutAlone
  <1>5. \A a \in Bodies : Held(a)' <=> Held(a) BY <1>3, <1>4 DEF Held
  <1>6. CountInv' BY <1>1, <1>5 DEF CountInv
  <1> QED BY <1>3, <1>6

LEMMA BareApplied ==
  ASSUME MigrationsInv, NEW r \in Runners, NEW n \in Names, ApplyBare(r, n)
  PROVE  MigrationsInv'
  <1> USE DEF MigrationsInv
  <1>0. run \in [Runners -> RunRecords] BY DEF MigrationsTypeOK, RunRecords
  <1> DEFINE b == run[r].plan[n]
             x == [run[r] EXCEPT !.pc = "record"]
  <1>1. /\ run[r].pc = "apply" /\ Turn(r, n) /\ run' = [run EXCEPT ![r] = x]
        /\ ran' = [ran EXCEPT ![b] = @ + 1]
        /\ UNCHANGED <<folder, recorded, cutOff, runs, trouble, deploys>>
    BY DEF ApplyBare, Applies
  <1>2. x \in RunRecords /\ x.pc = "record" /\ x.plan = run[r].plan BY <1>0 DEF RunRecords
  <1>3. b # None /\ b \in Bodies BY <1>0, <1>1 DEF Turn, RunRecords
  <1>4. \A m \in Names : recorded[m] # b BY <1>1, <1>3 DEF PlanInv
  <1>5. \A a : ~About(a) BY <1>1, AboutAlone DEF Working
  <1> HIDE DEF x
  <1>6. /\ run' \in [Runners -> RunRecords] /\ run'[r] = x
        /\ \A s \in Runners : s # r => run'[s] = run[s]
    BY <1>1, <1>2, OneRun
  <1>7. ran' \in [Bodies -> Nat] /\ \A a \in Bodies : ran'[a] = IF a = b THEN ran[a] + 1 ELSE ran[a]
    BY <1>1, <1>3 DEF MigrationsTypeOK
  <1>8. MigrationsTypeOK' BY <1>1, <1>6, <1>7 DEF MigrationsTypeOK, RunRecords
  <1>9. OneWorks' BY <1>1, <1>2, <1>6 DEF OneWorks, Working
  <1>10. OwnBodies' BY <1>1 DEF OwnBodies
  <1>11. PlanInv'
    <2>1. \A s \in Runners : run'[s].plan = run[s].plan BY <1>2, <1>6
    <2>2. \A s \in Runners :
              run'[s].pc \notin {"apply", "record"} => run[s].pc \notin {"apply", "record"}
      BY <1>2, <1>6
    <2> QED BY <1>1, <2>1, <2>2 DEF PlanInv
  <1>12. \A a : About(a)' <=> a = b
    <2>1. \A m \in Names : Turn(r, m)' <=> Turn(r, m) BY <1>2, <1>6 DEF Turn
    <2>2. \A m \in Names : Turn(r, m) => m = n BY <1>1, OneTurn
    <2>3. \A s \in Runners : run'[s].pc = "record" <=> s = r
      BY <1>1, <1>2, <1>6 DEF OneWorks, Working
    <2> QED BY <1>1, <1>2, <1>6, <2>1, <2>2, <2>3 DEF About
  <1>13. CountInv'
    <2> SUFFICES ASSUME NEW a \in Bodies
                 PROVE  /\ Held(a)' => ran'[a] = cutOff'[a] + 1
                        /\ ~Held(a)' => ran'[a] = cutOff'[a]
      BY DEF CountInv
    <2>1. CASE a = b
      <3>1. ~Held(a) BY <1>4, <1>5, <2>1 DEF Held
      <3>2. Held(a)' BY <1>12, <2>1 DEF Held
      <3> QED BY <1>1, <1>7, <2>1, <3>1, <3>2 DEF CountInv
    <2>2. CASE a # b
      <3>1. Held(a)' <=> Held(a) BY <1>1, <1>5, <1>12, <2>2 DEF Held
      <3> QED BY <1>1, <1>7, <2>2, <3>1 DEF CountInv
    <2> QED BY <2>1, <2>2
  <1> QED BY <1>8, <1>9, <1>10, <1>11, <1>13

LEMMA RunFails ==
  ASSUME MigrationsInv, NEW r \in Runners, Fails(r)
  PROVE  MigrationsInv'
  <1> USE DEF MigrationsInv
  <1>1. run' = [run EXCEPT ![r] = NotRunning]
        /\ UNCHANGED <<folder, recorded, ran, runs, deploys>> /\ trouble' = trouble + 1
    BY DEF Fails
  <1>2. /\ cutOff' \in [Bodies -> Nat]
        /\ \A b \in Bodies : cutOff'[b] =
              IF run[r].pc = "record" /\ \E n \in Names : Turn(r, n) /\ run[r].plan[n] = b
              THEN cutOff[b] + 1 ELSE cutOff[b]
    BY DEF Fails, MigrationsTypeOK
  <1>3. {runs', trouble', deploys'} \subseteq Nat BY <1>1 DEF MigrationsTypeOK
  <1>4. CASE run[r].pc # "record"
    <2>1. cutOff' = cutOff BY <1>2, <1>4 DEF MigrationsTypeOK
    <2> QED BY <1>1, <1>3, <1>4, <2>1, NotRunningTyped, RunMoves DEF Working
  <1>5. CASE run[r].pc = "record"
    <2>1. /\ run' \in [Runners -> RunRecords] /\ run'[r] = NotRunning
          /\ \A s \in Runners : s # r => run'[s] = run[s]
      BY <1>1, NotRunningTyped, OneRun
    <2>2. MigrationsTypeOK' BY <1>1, <1>2, <1>3, <2>1 DEF MigrationsTypeOK, RunRecords
    <2>3. OneWorks' BY <2>1, NotRunningTyped DEF OneWorks, Working
    <2>4. OwnBodies' BY <1>1 DEF OwnBodies
    <2>5. PlanInv' BY <1>1, <2>1, NotRunningTyped DEF PlanInv
    <2>6. CountInv'
      <3>1. \A b \in Bodies : cutOff'[b] = IF About(b) THEN cutOff[b] + 1 ELSE cutOff[b]
        BY <1>2, <1>5, AboutAlone DEF Working
      <3>2. \A b : ~About(b)' BY <1>5, <2>1, NotRunningTyped DEF About, OneWorks, Working
      <3>3. \A b \in Bodies : About(b) => \A n \in Names : recorded[n] # b
        <4> SUFFICES ASSUME NEW b \in Bodies, About(b) PROVE \A n \in Names : recorded[n] # b
          OBVIOUS
        <4>1. PICK s \in Runners, m \in Names :
                  run[s].pc = "record" /\ Turn(s, m) /\ run[s].plan[m] = b
          BY DEF About
        <4> QED BY <4>1 DEF Turn, PlanInv
      <3> SUFFICES ASSUME NEW b \in Bodies
                   PROVE  /\ Held(b)' => ran'[b] = cutOff'[b] + 1
                          /\ ~Held(b)' => ran'[b] = cutOff'[b]
        BY DEF CountInv
      <3>4. CASE About(b)
        <4>1. ran[b] = cutOff[b] + 1 BY <3>4 DEF CountInv, Held
        <4>2. ~Held(b)' BY <1>1, <3>2, <3>3, <3>4 DEF Held
        <4> QED BY <1>1, <3>1, <3>4, <4>1, <4>2
      <3>5. CASE ~About(b)
        <4>1. Held(b)' <=> Held(b) BY <1>1, <3>2, <3>5 DEF Held
        <4> QED BY <1>1, <3>1, <3>5, <4>1 DEF CountInv
      <3> QED BY <3>4, <3>5
    <2> QED BY <2>2, <2>3, <2>4, <2>5, <2>6
  <1> QED BY <1>4, <1>5

LEMMA MigrationsStep == MigrationsInv /\ [MigrationsNext]_migrationsVars => MigrationsInv'
  <1> SUFFICES ASSUME MigrationsInv, [MigrationsNext]_migrationsVars PROVE MigrationsInv' OBVIOUS
  <1>1. CASE UNCHANGED migrationsVars
    BY <1>1 DEF migrationsVars, MigrationsInv, MigrationsTypeOK, OneWorks, OwnBodies, PlanInv,
                CountInv, Held, About, Turn
  <1>2. CASE MigrationsNext
    BY <1>2, FolderDeployed, RunStarts, LockIsAsked, RunPlans, RunFinishes, RunFails,
       AppliedInTransaction, BareApplied, BareRecorded
    DEF MigrationsNext
  <1> QED BY <1>1, <1>2

LEMMA MigrationsInvIsSafe == MigrationsInv => MigrationsSafe
  <1> SUFFICES ASSUME MigrationsInv PROVE MigrationsSafe OBVIOUS
  <1> USE DEF MigrationsInv
  <1>1. MigratesOnce
    <2>1. \A b \in Bodies : ran[b] \in Nat /\ cutOff[b] \in Nat BY DEF MigrationsTypeOK
    <2>2. \A b \in Bodies : ran[b] = cutOff[b] + 1 \/ ran[b] = cutOff[b] BY DEF CountInv
    <2> QED BY <2>1, <2>2 DEF MigratesOnce
  <1>2. HistoryIsTrue
    <2>1. \A b \in Bodies : ran[b] \in Nat /\ cutOff[b] \in Nat BY DEF MigrationsTypeOK
    <2>2. \A n \in Names : recorded[n] # None => ran[recorded[n]] > cutOff[recorded[n]]
      <3> SUFFICES ASSUME NEW n \in Names, recorded[n] # None
                   PROVE  ran[recorded[n]] > cutOff[recorded[n]]
        OBVIOUS
      <3>1. recorded[n] \in Bodies BY DEF MigrationsTypeOK
      <3>2. ran[recorded[n]] = cutOff[recorded[n]] + 1 BY <3>1 DEF CountInv, Held
      <3> QED BY <2>1, <3>1, <3>2
    <2>3. \A b \in Bodies : ran[b] > cutOff[b] => Held(b) BY <2>1 DEF CountInv
    <2> QED BY <2>2, <2>3 DEF HistoryIsTrue, Held, About
  <1> QED BY <1>1, <1>2 DEF MigrationsSafe

(* For any runners, any files and any schedule of deployments, failures    *)
(* and restarts: a migration takes effect once, but for the times a bare   *)
(* one was cut off from its record, and the history says which did         *)
(* (migrate.ts:456-461, postgres-migrate.ts:386-391).                      *)
THEOREM MigrationsAreSafe == MigrationsSpec => []MigrationsSafe
  <1>1. MigrationsSpec => []MigrationsInv
    BY MigrationsStart, MigrationsStep, PTL DEF MigrationsSpec
  <1> QED BY <1>1, MigrationsInvIsSafe, PTL

-----------------------------------------------------------------------------

InQueue == {"queued", "gone", "taking", "body", "frees", "leaves"}

(* The queue of an instance holds its calls, each once; only the first has *)
(* its turn.                                                               *)
QueueInv ==
    /\ \A c \in Calls : call[c].pc # "idle" => call[c].on \in Locks
    /\ \A l \in Locks : \A i \in 1 .. Len(queue[l]) :
          /\ call[queue[l][i]].on = l
          /\ call[queue[l][i]].pc \in InQueue
          /\ i > 1 => call[queue[l][i]].pc \in {"queued", "gone"}
          /\ \A j \in 1 .. Len(queue[l]) : queue[l][i] = queue[l][j] => i = j
    /\ \A c \in Calls : call[c].pc \in InQueue =>
          \E i \in 1 .. Len(queue[call[c].on]) : queue[call[c].on][i] = c

(* The lock is that of the instance that thinks it holds it, until one     *)
(* call gives it back; and a body has it, unless acquire or release met it.*)
HeldInv ==
    /\ \A l \in handle : owner = l
    /\ \A c \in Calls :
          /\ call[c].pc \in {"taking", "shares"} => call[c].on \in taking
          /\ call[c].pc \in {"frees", "releases"} =>
                /\ owner = call[c].on /\ handle = {}
                /\ \A d \in Calls : call[d].pc \in {"frees", "releases"} => d = c
          /\ call[c].pc = "body" => crossed \/ call[c].on \in handle

LockInv == LockTypeOK /\ QueueInv /\ HeldInv

CallRecords == [pc : {"idle", "queued", "gone", "taking", "body", "frees", "leaves", "shares",
                      "has", "releases"},
                on : Locks \cup {NoLock}, took : BOOLEAN]

LEMMA CallsTyped ==
  LockTypeOK => call \in [Calls -> CallRecords] /\ queue \in [Locks -> Seq(Calls)]
  BY DEF LockTypeOK, CallRecords

LEMMA LockStarts == LockInit => LockInv
  <1> SUFFICES ASSUME LockInit PROVE LockInv OBVIOUS
  <1> USE DEF LockInit
  <1>1. \A c \in Calls : call[c].pc = "idle" BY DEF AtRest
  <1>2. LockTypeOK
    <2>1. AtRest \in CallRecords BY DEF AtRest, CallRecords
    <2>2. call \in [Calls -> CallRecords] BY <2>1
    <2>3. queue \in [Locks -> Seq(Calls)] OBVIOUS
    <2> QED BY <2>2, <2>3 DEF LockTypeOK, CallRecords
  <1>3. QueueInv
    <2>1. \A l \in Locks : Len(queue[l]) = 0 OBVIOUS
    <2> QED BY <1>1, <2>1 DEF QueueInv, InQueue
  <1>4. HeldInv BY <1>1 DEF HeldInv
  <1> QED BY <1>2, <1>3, <1>4 DEF LockInv

(* What a step of one call does to the calls.                              *)
LEMMA OneLockCall ==
  ASSUME LockTypeOK, NEW c \in Calls, NEW r \in CallRecords, call' = [call EXCEPT ![c] = r]
  PROVE  /\ call' \in [Calls -> CallRecords]
         /\ call'[c] = r
         /\ \A d \in Calls : d # c => call'[d] = call[d]
  BY CallsTyped

(* A call that has come so far is the first of its queue.                  *)
LEMMA TurnIsFirst ==
  ASSUME LockTypeOK, QueueInv, NEW c \in Calls, call[c].pc \in InQueue,
         call[c].pc \notin {"queued", "gone"} \/ HasTurn(c)
  PROVE  /\ call[c].on \in Locks /\ queue[call[c].on] \in Seq(Calls)
         /\ Len(queue[call[c].on]) \in Nat \ {0} /\ queue[call[c].on][1] = c
  <1> DEFINE l == call[c].on
  <1>1. l \in Locks BY DEF QueueInv, InQueue
  <1>2. queue[l] \in Seq(Calls) BY <1>1, CallsTyped
  <1>3. PICK i \in 1 .. Len(queue[l]) : queue[l][i] = c BY DEF QueueInv
  <1> HIDE DEF l
  <1>4. Len(queue[l]) \in Nat \ {0} BY <1>2, <1>3
  <1>5. CASE HasTurn(c)
    <2>1. Head(queue[l]) = c BY <1>5 DEF HasTurn, l
    <2>2. queue[l][1] = c BY <1>2, <1>4, <2>1
    <2> QED BY <1>1, <1>2, <1>4, <2>2 DEF l
  <1>6. CASE call[c].pc \notin {"queued", "gone"}
    <2>1. ~(i > 1) BY <1>1, <1>3, <1>6 DEF QueueInv
    <2>2. i = 1 BY <1>2, <1>3, <2>1
    <2> QED BY <1>3, <2>2, <1>1, <1>2, <1>4 DEF l
  <1> QED BY <1>1, <1>2, <1>4, <1>5, <1>6 DEF l

LEMMA OneTurnEach ==
  ASSUME LockTypeOK, QueueInv, NEW c \in Calls, NEW d \in Calls,
         call[c].pc \in {"taking", "body", "frees", "leaves"},
         call[d].pc \in {"taking", "body", "frees", "leaves"},
         call[c].on = call[d].on
  PROVE  c = d
  BY TurnIsFirst DEF InQueue

(* A step that leaves the queues alone and takes no call out of turn.      *)
LEMMA QueueStays ==
  ASSUME LockTypeOK, QueueInv, call' \in [Calls -> CallRecords], queue' = queue,
         \A c \in Calls :
            \/ call'[c] = call[c]
            \/ /\ call[c].pc \notin InQueue /\ call'[c].pc \notin InQueue
               /\ call'[c].pc = "idle" \/ call'[c].on \in Locks
            \/ /\ call[c].pc \in InQueue /\ call'[c].pc \in InQueue
               /\ call'[c].on = call[c].on
               /\ \/ call'[c].pc \in {"queued", "gone"}
                  \/ call[c].pc \notin {"queued", "gone"}
                  \/ HasTurn(c)
  PROVE  QueueInv'
  <1>1. \A c \in Calls : call'[c].pc # "idle" => call'[c].on \in Locks
    BY DEF QueueInv, InQueue
  <1>2. \A c \in Calls :
            /\ call'[c].pc \in InQueue <=> call[c].pc \in InQueue
            /\ call'[c].pc \in InQueue => call'[c].on = call[c].on
    OBVIOUS
  <1>3. ASSUME NEW l \in Locks, NEW i \in 1 .. Len(queue[l])
        PROVE  /\ call'[queue[l][i]].on = l
               /\ call'[queue[l][i]].pc \in InQueue
               /\ i > 1 => call'[queue[l][i]].pc \in {"queued", "gone"}
               /\ \A j \in 1 .. Len(queue[l]) : queue[l][i] = queue[l][j] => i = j
    <2> DEFINE c == queue[l][i]
    <2>1. c \in Calls
      <3>1. queue[l] \in Seq(Calls) BY CallsTyped
      <3> QED BY <3>1
    <2>2. /\ call[c].on = l /\ call[c].pc \in InQueue
          /\ i > 1 => call[c].pc \in {"queued", "gone"}
          /\ \A j \in 1 .. Len(queue[l]) : c = queue[l][j] => i = j
      BY <1>3 DEF QueueInv
    <2> HIDE DEF c
    <2>3. \/ call'[c].pc \in {"queued", "gone"} \/ call'[c] = call[c]
          \/ call[c].pc \notin {"queued", "gone"} \/ i = 1
      <3>1. CASE HasTurn(c)
        <4>1. Len(queue[l]) \in Nat \ {0} /\ queue[l][1] = c BY <2>1, <2>2, <3>1, TurnIsFirst
        <4> QED BY <2>2, <4>1
      <3>2. CASE ~HasTurn(c) BY <2>1, <2>2, <3>2
      <3> QED BY <3>1, <3>2
    <2>4. i \in Nat OBVIOUS
    <2>5. i > 1 => call'[c].pc \in {"queued", "gone"} BY <2>2, <2>3, <2>4
    <2> QED BY <1>2, <2>1, <2>2, <2>5 DEF c
  <1>4. \A c \in Calls : call'[c].pc \in InQueue =>
            \E i \in 1 .. Len(queue[call'[c].on]) : queue[call'[c].on][i] = c
    BY <1>2 DEF QueueInv
  <1> QED BY <1>1, <1>3, <1>4 DEF QueueInv

(* The first of a queue leaves it.                                         *)
LEMMA QueueIsLeft ==
  ASSUME LockTypeOK, QueueInv, NEW c \in Calls, call[c].pc \in InQueue,
         call[c].pc = "leaves" \/ HasTurn(c),
         Leaves(c), call' = [call EXCEPT ![c] = AtRest]
  PROVE  /\ QueueInv' /\ call' \in [Calls -> CallRecords] /\ queue' \in [Locks -> Seq(Calls)]
         /\ call'[c] = AtRest /\ \A d \in Calls : d # c => call'[d] = call[d]
  <1> DEFINE l == call[c].on
  <1>1. l \in Locks /\ queue[l] \in Seq(Calls) /\ Len(queue[l]) \in Nat \ {0} /\ queue[l][1] = c
    BY TurnIsFirst
  <1>2. AtRest \in CallRecords BY DEF AtRest, CallRecords
  <1>3. /\ call' \in [Calls -> CallRecords] /\ call'[c] = AtRest
        /\ \A d \in Calls : d # c => call'[d] = call[d]
    BY <1>2, OneLockCall
  <1>4. Tail(queue[l]) \in Seq(Calls) BY <1>1
  <1>5. /\ queue' \in [Locks -> Seq(Calls)]
        /\ queue'[l] = Tail(queue[l])
        /\ \A k \in Locks : k # l => queue'[k] = queue[k]
    BY <1>1, <1>4, CallsTyped DEF Leaves
  <1> HIDE DEF l
  <1>6. /\ Len(queue'[l]) = Len(queue[l]) - 1
        /\ \A i \in 1 .. Len(queue'[l]) :
              i + 1 \in 1 .. Len(queue[l]) /\ queue'[l][i] = queue[l][i + 1]
    BY <1>1, <1>5
  <1>7. AtRest.pc = "idle" BY DEF AtRest
  <1>8. \A d \in Calls : call'[d].pc # "idle" => call'[d].on \in Locks
    BY <1>3, <1>7 DEF QueueInv
  <1>9. ASSUME NEW k \in Locks, NEW i \in 1 .. Len(queue'[k])
        PROVE  /\ call'[queue'[k][i]].on = k
               /\ call'[queue'[k][i]].pc \in InQueue
               /\ i > 1 => call'[queue'[k][i]].pc \in {"queued", "gone"}
               /\ \A j \in 1 .. Len(queue'[k]) : queue'[k][i] = queue'[k][j] => i = j
    <2>1. CASE k # l
      <3>1. queue'[k] = queue[k] /\ queue[k] \in Seq(Calls) BY <1>5, <2>1, CallsTyped
      <3>2. queue[k][i] \in Calls BY <1>9, <3>1
      <3>3. call[queue[k][i]].on = k BY <1>9, <3>1 DEF QueueInv
      <3>4. queue[k][i] # c BY <2>1, <3>3 DEF l
      <3>5. call'[queue[k][i]] = call[queue[k][i]] BY <1>3, <3>2, <3>4
      <3> QED BY <1>9, <3>1, <3>5 DEF QueueInv
    <2>2. CASE k = l
      <3>1. i + 1 \in 1 .. Len(queue[l]) /\ queue'[l][i] = queue[l][i + 1] /\ i + 1 > 1
        BY <1>6, <1>9, <2>2
      <3>2. queue[l][i + 1] \in Calls BY <1>1, <3>1
      <3>3. queue[l][i + 1] # c
        <4>1. 1 \in 1 .. Len(queue[l]) BY <1>1
        <4>2. queue[l][i + 1] = queue[l][1] => i + 1 = 1 BY <1>1, <3>1, <4>1 DEF QueueInv
        <4> QED BY <1>1, <3>1, <4>2
      <3>4. call'[queue[l][i + 1]] = call[queue[l][i + 1]] BY <1>3, <3>2, <3>3
      <3>5. \A j \in 1 .. Len(queue'[l]) : queue'[l][i] = queue'[l][j] => i = j
        <4> SUFFICES ASSUME NEW j \in 1 .. Len(queue'[l]), queue'[l][i] = queue'[l][j] PROVE i = j
          OBVIOUS
        <4>1. j + 1 \in 1 .. Len(queue[l]) /\ queue'[l][j] = queue[l][j + 1] BY <1>6
        <4>2. queue[l][i + 1] = queue[l][j + 1] BY <3>1, <4>1
        <4>3. i + 1 = j + 1 BY <1>1, <3>1, <4>1, <4>2 DEF QueueInv
        <4>4. i \in Nat /\ j \in Nat OBVIOUS
        <4> QED BY <4>3, <4>4
      <3> QED BY <1>1, <2>2, <3>1, <3>4, <3>5 DEF QueueInv
    <2> QED BY <2>1, <2>2
  <1>10. ASSUME NEW d \in Calls, call'[d].pc \in InQueue
         PROVE  \E i \in 1 .. Len(queue'[call'[d].on]) : queue'[call'[d].on][i] = d
    <2>1. d # c /\ call'[d] = call[d] BY <1>3, <1>7, <1>10 DEF InQueue
    <2>2. call[d].on \in Locks BY <1>8, <1>10, <2>1 DEF InQueue
    <2>3. PICK i \in 1 .. Len(queue[call[d].on]) : queue[call[d].on][i] = d
      BY <1>10, <2>1 DEF QueueInv
    <2>4. CASE call[d].on # l BY <1>5, <2>1, <2>2, <2>3, <2>4
    <2>5. CASE call[d].on = l
      <3>1. i # 1 BY <1>1, <2>1, <2>3, <2>5
      <3>2. i - 1 \in 1 .. Len(queue'[l]) /\ queue'[l][i - 1] = queue[l][i]
        <4>1. i - 1 \in 1 .. Len(queue'[l]) BY <1>1, <1>6, <2>3, <2>5, <3>1
        <4>2. queue'[l][i - 1] = queue[l][(i - 1) + 1] BY <1>6, <4>1
        <4>3. (i - 1) + 1 = i BY <2>3
        <4> QED BY <4>1, <4>2, <4>3
      <3> QED BY <2>1, <2>3, <2>5, <3>2
    <2> QED BY <2>4, <2>5
  <1> QED BY <1>3, <1>5, <1>8, <1>9, <1>10 DEF QueueInv

LEMMA BodyIsQueued ==
  ASSUME LockInv, NEW c \in Calls, NEW l \in Locks, RunExclusive(c, l)
  PROVE  LockInv'
  <1> USE DEF LockInv
  <1> DEFINE r == [pc |-> "queued", on |-> l, took |-> FALSE]
  <1>1. /\ call[c] = AtRest /\ call' = [call EXCEPT ![c] = r] /\ calls' = calls + 1
        /\ queue' = [queue EXCEPT ![l] = Append(@, c)]
        /\ UNCHANGED <<owner, handle, taking, crossed>>
    BY DEF RunExclusive, Starts
  <1>2. r \in CallRecords /\ r.pc = "queued" /\ r.on = l BY DEF CallRecords
  <1> HIDE DEF r
  <1>3. /\ call' \in [Calls -> CallRecords] /\ call'[c] = r
        /\ \A d \in Calls : d # c => call'[d] = call[d]
    BY <1>1, <1>2, OneLockCall
  <1>4. call[c].pc = "idle" BY <1>1 DEF AtRest
  <1>5. queue \in [Locks -> Seq(Calls)] BY CallsTyped
  <1>6. queue[l] \in Seq(Calls) /\ Len(queue[l]) \in Nat BY <1>5
  <1>7. /\ queue' \in [Locks -> Seq(Calls)]
        /\ queue'[l] = Append(queue[l], c)
        /\ \A k \in Locks : k # l => queue'[k] = queue[k]
    BY <1>1, <1>5, <1>6
  <1>8. /\ Len(queue'[l]) = Len(queue[l]) + 1
        /\ \A i \in 1 .. Len(queue[l]) : queue'[l][i] = queue[l][i]
        /\ queue'[l][Len(queue[l]) + 1] = c
    BY <1>6, <1>7
  <1>9. \A k \in Locks : \A i \in 1 .. Len(queue[k]) :
            queue[k][i] \in Calls /\ queue[k][i] # c /\ call'[queue[k][i]] = call[queue[k][i]]
    <2> SUFFICES ASSUME NEW k \in Locks, NEW i \in 1 .. Len(queue[k])
                 PROVE  queue[k][i] \in Calls /\ queue[k][i] # c
                        /\ call'[queue[k][i]] = call[queue[k][i]]
      OBVIOUS
    <2>1. queue[k] \in Seq(Calls) BY <1>5
    <2>2. queue[k][i] \in Calls BY <2>1
    <2>3. call[queue[k][i]].pc \in InQueue BY DEF QueueInv
    <2>4. queue[k][i] # c BY <1>4, <2>3 DEF InQueue
    <2> QED BY <1>3, <2>2, <2>4
  <1>10. ASSUME NEW k \in Locks, NEW i \in 1 .. Len(queue'[k])
         PROVE  /\ call'[queue'[k][i]].on = k
                /\ call'[queue'[k][i]].pc \in InQueue
                /\ i > 1 => call'[queue'[k][i]].pc \in {"queued", "gone"}
                /\ \A j \in 1 .. Len(queue'[k]) : queue'[k][i] = queue'[k][j] => i = j
    <2>1. CASE k # l
      <3>1. queue'[k] = queue[k] BY <1>7, <2>1
      <3>2. call'[queue[k][i]] = call[queue[k][i]] BY <1>9, <1>10, <3>1
      <3> QED BY <1>10, <3>1, <3>2 DEF QueueInv
    <2>2. CASE k = l /\ i # Len(queue[l]) + 1
      <3>1. i \in 1 .. Len(queue[l]) BY <1>6, <1>8, <1>10, <2>2
      <3>2. queue'[l][i] = queue[l][i] /\ queue[l][i] # c /\ call'[queue[l][i]] = call[queue[l][i]]
        BY <1>8, <1>9, <3>1
      <3>3. \A j \in 1 .. Len(queue'[l]) : queue'[l][i] = queue'[l][j] => i = j
        <4> SUFFICES ASSUME NEW j \in 1 .. Len(queue'[l]), queue'[l][i] = queue'[l][j] PROVE i = j
          OBVIOUS
        <4>1. j # Len(queue[l]) + 1 BY <1>8, <3>2
        <4>2. j \in 1 .. Len(queue[l]) BY <1>6, <1>8, <4>1
        <4>3. queue[l][i] = queue[l][j] BY <1>8, <3>2, <4>2
        <4> QED BY <3>1, <4>2, <4>3 DEF QueueInv
      <3> QED BY <2>2, <3>1, <3>2, <3>3 DEF QueueInv
    <2>3. CASE k = l /\ i = Len(queue[l]) + 1
      <3>1. queue'[k][i] = c BY <1>8, <2>3
      <3>2. \A j \in 1 .. Len(queue'[l]) : queue'[l][j] = c => j = i
        <4> SUFFICES ASSUME NEW j \in 1 .. Len(queue'[l]), j # i PROVE queue'[l][j] # c OBVIOUS
        <4>1. j \in 1 .. Len(queue[l]) BY <1>6, <1>8, <2>3
        <4> QED BY <1>8, <1>9, <4>1
      <3> QED BY <1>2, <1>3, <2>3, <3>1, <3>2 DEF InQueue
    <2> QED BY <2>1, <2>2, <2>3
  <1>11. ASSUME NEW d \in Calls, call'[d].pc \in InQueue
         PROVE  \E i \in 1 .. Len(queue'[call'[d].on]) : queue'[call'[d].on][i] = d
    <2>1. CASE d = c
      <3>1. Len(queue[l]) + 1 \in 1 .. Len(queue'[l]) BY <1>6, <1>8
      <3> QED BY <1>2, <1>3, <1>8, <2>1, <3>1
    <2>2. CASE d # c
      <3>1. call'[d] = call[d] BY <1>3, <2>2
      <3>2. call[d].on \in Locks BY <1>11, <3>1 DEF QueueInv, InQueue
      <3>3. PICK i \in 1 .. Len(queue[call[d].on]) : queue[call[d].on][i] = d
        BY <1>11, <3>1 DEF QueueInv
      <3>4. CASE call[d].on # l BY <1>7, <3>1, <3>2, <3>3, <3>4
      <3>5. CASE call[d].on = l
        <4>1. i \in 1 .. Len(queue'[l]) BY <1>6, <1>8, <3>3, <3>5
        <4> QED BY <1>8, <3>1, <3>3, <3>5, <4>1
      <3> QED BY <3>4, <3>5
    <2> QED BY <2>1, <2>2
  <1>12. \A d \in Calls : call'[d].pc # "idle" => call'[d].on \in Locks
    BY <1>2, <1>3 DEF QueueInv
  <1>13. QueueInv' BY <1>10, <1>11, <1>12 DEF QueueInv
  <1>14. HeldInv'
    <2>1. \A d \in Calls :
              call'[d].pc \in {"taking", "shares", "frees", "releases", "body"} =>
                  call'[d] = call[d]
      BY <1>2, <1>3
    <2> QED BY <1>1, <2>1 DEF HeldInv
  <1>15. LockTypeOK'
    BY <1>1, <1>3, <1>7 DEF LockTypeOK, CallRecords
  <1> QED BY <1>13, <1>14, <1>15

LEMMA CallStopsWaiting ==
  ASSUME LockInv, NEW c \in Calls, StopWaiting(c)
  PROVE  LockInv'
  <1> USE DEF LockInv
  <1>0. call \in [Calls -> CallRecords] BY CallsTyped
  <1> DEFINE r == [call[c] EXCEPT !.pc = "gone"]
  <1>1. call[c].pc = "queued" /\ call' = [call EXCEPT ![c] = r] BY DEF StopWaiting, Comes
  <1>2. r \in CallRecords /\ r.pc = "gone" /\ r.on = call[c].on BY <1>0 DEF CallRecords
  <1> HIDE DEF r
  <1>3. UNCHANGED <<owner, handle, taking, queue, calls, crossed>> BY DEF StopWaiting
  <1>4. /\ call' \in [Calls -> CallRecords] /\ call'[c] = r
        /\ \A d \in Calls : d # c => call'[d] = call[d]
    BY <1>1, <1>2, OneLockCall
  <1>5. QueueInv'
    <2>1. \A d \in Calls : d # c => call'[d] = call[d] BY <1>4
    <2>2. /\ call[c].pc \in InQueue /\ call'[c].pc \in InQueue /\ call'[c].on = call[c].on
          /\ call'[c].pc \in {"queued", "gone"}
      BY <1>1, <1>2, <1>4 DEF InQueue
    <2> QED BY <1>3, <1>4, <2>1, <2>2, QueueStays
  <1>6. HeldInv'
    <2>1. \A d \in Calls :
              call'[d].pc \in {"taking", "shares", "frees", "releases", "body"} =>
                  call'[d] = call[d]
      BY <1>2, <1>4
    <2> QED BY <1>3, <2>1 DEF HeldInv
  <1>7. LockTypeOK' BY <1>3, <1>4 DEF LockTypeOK, CallRecords
  <1> QED BY <1>5, <1>6, <1>7

LEMMA CallLeaves ==
  ASSUME LockInv, NEW c \in Calls, PassOn(c) \/ Leave(c)
  PROVE  LockInv'
  <1> USE DEF LockInv
  <1>1. /\ call[c].pc \in InQueue /\ (call[c].pc = "leaves" \/ HasTurn(c))
        /\ Leaves(c) /\ call' = [call EXCEPT ![c] = AtRest]
        /\ UNCHANGED <<owner, handle, taking, calls, crossed>>
    BY DEF PassOn, Leave, InQueue
  <1>2. /\ QueueInv' /\ call' \in [Calls -> CallRecords] /\ queue' \in [Locks -> Seq(Calls)]
        /\ call'[c] = AtRest /\ \A d \in Calls : d # c => call'[d] = call[d]
    BY <1>1, QueueIsLeft
  <1>3. HeldInv'
    <2>1. \A d \in Calls :
              call'[d].pc \in {"taking", "shares", "frees", "releases", "body"} =>
                  call'[d] = call[d]
      BY <1>2 DEF AtRest
    <2> QED BY <1>1, <2>1 DEF HeldInv
  <1>4. LockTypeOK' BY <1>1, <1>2 DEF LockTypeOK, CallRecords
  <1> QED BY <1>2, <1>3, <1>4

LEMMA CallEnters ==
  ASSUME LockInv, NEW c \in Calls, Enter(c)
  PROVE  LockInv'
  <1> USE DEF LockInv
  <1>0. call \in [Calls -> CallRecords] BY CallsTyped
  <1> DEFINE l == call[c].on
  <1>1. call[c].pc = "queued" /\ HasTurn(c) /\ UNCHANGED <<owner, handle, queue, calls, crossed>>
    BY DEF Enter
  <1>2. l \in Locks BY <1>1 DEF QueueInv
  <1>3. PICK r \in CallRecords :
            /\ call' = [call EXCEPT ![c] = r] /\ r.on = l
            /\ \/ r.pc = "body" /\ l \in handle /\ taking' = taking
               \/ r.pc = "taking" /\ taking' = taking \cup {l}
    <2>1. CASE l \in handle
      <3>1. [call[c] EXCEPT !.pc = "body"] \in CallRecords BY <1>0 DEF CallRecords
      <3>2. [call[c] EXCEPT !.pc = "body"].pc = "body" /\ [call[c] EXCEPT !.pc = "body"].on = l
        BY <1>0 DEF CallRecords
      <3> QED BY <2>1, <3>1, <3>2 DEF Enter, Comes
    <2>2. CASE l \notin handle
      <3>1. [call[c] EXCEPT !.pc = "taking", !.took = TRUE] \in CallRecords
        BY <1>0 DEF CallRecords
      <3>2. /\ [call[c] EXCEPT !.pc = "taking", !.took = TRUE].pc = "taking"
            /\ [call[c] EXCEPT !.pc = "taking", !.took = TRUE].on = l
        BY <1>0 DEF CallRecords
      <3> QED BY <2>2, <3>1, <3>2 DEF Enter
    <2> QED BY <2>1, <2>2
  <1>4. /\ call' \in [Calls -> CallRecords] /\ call'[c] = r
        /\ \A d \in Calls : d # c => call'[d] = call[d]
    BY <1>3, OneLockCall
  <1>5. QueueInv'
    <2>1. /\ call[c].pc \in InQueue /\ call'[c].pc \in InQueue /\ call'[c].on = call[c].on
      BY <1>1, <1>3, <1>4 DEF InQueue
    <2> QED BY <1>1, <1>4, <2>1, QueueStays
  <1>6. taking \subseteq taking' /\ taking' \subseteq Locks
    BY <1>2, <1>3 DEF LockTypeOK
  <1>7. HeldInv'
    <2>1. \A d \in Calls : call'[d].pc \in {"frees", "releases"} => call'[d] = call[d]
      BY <1>3, <1>4
    <2>2. \A d \in Calls : call'[d].pc \in {"taking", "shares"} => call'[d].on \in taking'
      BY <1>3, <1>4, <1>6 DEF HeldInv
    <2>3. \A d \in Calls : call'[d].pc = "body" => crossed' \/ call'[d].on \in handle'
      BY <1>1, <1>3, <1>4 DEF HeldInv
    <2> QED BY <1>1, <2>1, <2>2, <2>3 DEF HeldInv
  <1>8. LockTypeOK' BY <1>1, <1>4, <1>6 DEF LockTypeOK, CallRecords
  <1> QED BY <1>5, <1>7, <1>8

LEMMA LockIsAcquired ==
  ASSUME LockInv, NEW c \in Calls, NEW l \in Locks, Acquire(c, l)
  PROVE  LockInv'
  <1> USE DEF LockInv
  <1>1. call[c] = AtRest /\ calls' = calls + 1 /\ UNCHANGED <<owner, handle, queue>>
    BY DEF Acquire, Starts
  <1>2. PICK pc \in {"has", "shares"} :
            /\ call' = [call EXCEPT ![c] = [pc |-> pc, on |-> l, took |-> FALSE]]
            /\ pc = "shares" => taking' = taking \cup {l}
            /\ pc = "has" => taking' = taking
    <2>1. CASE l \in handle BY <2>1 DEF Acquire, Starts
    <2>2. CASE l \notin handle BY <2>2 DEF Acquire, Starts
    <2> QED BY <2>1, <2>2
  <1>3. crossed' \in BOOLEAN /\ (crossed => crossed') BY DEF Acquire, LockTypeOK
  <1> DEFINE r == [pc |-> pc, on |-> l, took |-> FALSE]
  <1>4. r \in CallRecords /\ r.pc = pc /\ r.on = l BY DEF CallRecords
  <1>5. call' = [call EXCEPT ![c] = r] BY <1>2
  <1> HIDE DEF r
  <1>6. /\ call' \in [Calls -> CallRecords] /\ call'[c] = r
        /\ \A d \in Calls : d # c => call'[d] = call[d]
    BY <1>4, <1>5, OneLockCall
  <1>7. call[c].pc = "idle" BY <1>1 DEF AtRest
  <1>8. QueueInv'
    <2>1. call[c].pc \notin InQueue /\ call'[c].pc \notin InQueue /\ call'[c].on \in Locks
      BY <1>4, <1>6, <1>7 DEF InQueue
    <2> QED BY <1>1, <1>6, <2>1, QueueStays
  <1>9. taking \subseteq taking' /\ taking' \subseteq Locks BY <1>2 DEF LockTypeOK
  <1>10. HeldInv'
    <2>1. \A d \in Calls : call'[d].pc \in {"frees", "releases", "body"} => call'[d] = call[d]
      BY <1>4, <1>6
    <2>2. \A d \in Calls : call'[d].pc \in {"taking", "shares"} => call'[d].on \in taking'
      BY <1>2, <1>4, <1>6, <1>9 DEF HeldInv
    <2> QED BY <1>1, <1>3, <2>1, <2>2 DEF HeldInv
  <1>11. LockTypeOK' BY <1>1, <1>3, <1>6, <1>9 DEF LockTypeOK, CallRecords
  <1> QED BY <1>8, <1>10, <1>11

(* An attempt that gets the lock finds nobody holding it.                  *)
LEMMA LockIsTaken ==
  ASSUME LockInv, NEW l \in Locks, Taken(l)
  PROVE  LockInv'
  <1> USE DEF LockInv
  <1>0. call \in [Calls -> CallRecords] BY CallsTyped
  <1>1. UNCHANGED <<queue, calls>> /\ taking' = taking \ {l} BY DEF Taken
  <1>2. /\ owner' = IF owner = NoLock THEN l ELSE owner
        /\ handle' = IF owner = NoLock THEN handle \cup {l} ELSE handle
    BY DEF Taken
  <1>3. /\ call' \in [Calls -> CallRecords]
        /\ \A c \in Calls :
              \/ call'[c] = call[c] /\ c \notin Sharing(l)
              \/ /\ call[c].pc = "taking" /\ call[c].on = l /\ call'[c].on = l
                 /\ call'[c].pc = IF owner = NoLock THEN "body" ELSE "leaves"
              \/ /\ call[c].pc = "shares" /\ call[c].on = l
                 /\ call'[c].pc = IF owner = NoLock THEN "has" ELSE "idle"
                 /\ owner = NoLock => call'[c].on = l
    <2>1. \A c \in Calls :
              call'[c] = IF c \notin Sharing(l) THEN call[c]
                         ELSE IF call[c].pc = "taking"
                         THEN [call[c] EXCEPT !.pc = IF owner = NoLock THEN "body" ELSE "leaves"]
                         ELSE IF owner = NoLock THEN [call[c] EXCEPT !.pc = "has"] ELSE AtRest
      BY DEF Taken
    <2>2. DOMAIN call' = Calls /\ call' = [c \in DOMAIN call' |-> call'[c]] BY DEF Taken
    <2>3. AtRest \in CallRecords /\ AtRest.pc = "idle" BY DEF AtRest, CallRecords
    <2>4. \A c \in Calls : call'[c] \in CallRecords
      <3> SUFFICES ASSUME NEW c \in Calls PROVE call'[c] \in CallRecords OBVIOUS
      <3>1. \A pc \in {"body", "leaves", "has"} : [call[c] EXCEPT !.pc = pc] \in CallRecords
        BY <1>0 DEF CallRecords
      <3> QED BY <1>0, <2>1, <2>3, <3>1
    <2>5. \A c \in Calls, pc \in {"body", "leaves", "has"} :
              [call[c] EXCEPT !.pc = pc].pc = pc /\ [call[c] EXCEPT !.pc = pc].on = call[c].on
      BY <1>0 DEF CallRecords
    <2>6. \A c \in Sharing(l) : call[c].pc \in {"taking", "shares"} /\ call[c].on = l
      BY DEF Sharing
    <2>7. call' \in [Calls -> CallRecords] BY <2>2, <2>4
    <2>8. \A c \in Sharing(l) :
              /\ call'[c].pc = IF call[c].pc = "taking"
                               THEN IF owner = NoLock THEN "body" ELSE "leaves"
                               ELSE IF owner = NoLock THEN "has" ELSE "idle"
              /\ call[c].pc = "taking" \/ owner = NoLock => call'[c].on = l
      <3> SUFFICES ASSUME NEW c \in Sharing(l), c \in Calls
                   PROVE  /\ call'[c].pc = IF call[c].pc = "taking"
                                            THEN IF owner = NoLock THEN "body" ELSE "leaves"
                                            ELSE IF owner = NoLock THEN "has" ELSE "idle"
                          /\ call[c].pc = "taking" \/ owner = NoLock => call'[c].on = l
        BY DEF Sharing
      <3>1. call'[c] = IF call[c].pc = "taking"
                       THEN [call[c] EXCEPT !.pc = IF owner = NoLock THEN "body" ELSE "leaves"]
                       ELSE IF owner = NoLock THEN [call[c] EXCEPT !.pc = "has"] ELSE AtRest
        BY <2>1
      <3>2. call[c].on = l BY <2>6
      <3>3. CASE call[c].pc = "taking" /\ owner = NoLock BY <2>5, <3>1, <3>2, <3>3
      <3>4. CASE call[c].pc = "taking" /\ owner # NoLock BY <2>5, <3>1, <3>2, <3>4
      <3>5. CASE call[c].pc # "taking" /\ owner = NoLock BY <2>5, <3>1, <3>2, <3>5
      <3>6. CASE call[c].pc # "taking" /\ owner # NoLock BY <2>3, <3>1, <3>6
      <3> QED BY <3>3, <3>4, <3>5, <3>6
    <2> QED BY <2>1, <2>6, <2>7, <2>8
  <1>4. crossed' \in BOOLEAN /\ (crossed => crossed') BY DEF Taken, LockTypeOK
  <1>5. QueueInv'
    <2>1. \A c \in Calls :
            \/ call'[c] = call[c]
            \/ /\ call[c].pc \notin InQueue /\ call'[c].pc \notin InQueue
               /\ call'[c].pc = "idle" \/ call'[c].on \in Locks
            \/ /\ call[c].pc \in InQueue /\ call'[c].pc \in InQueue
               /\ call'[c].on = call[c].on /\ call[c].pc \notin {"queued", "gone"}
      BY <1>3 DEF InQueue
    <2> QED BY <1>1, <1>3, <2>1, QueueStays
  <1>6. \A c \in Calls : call[c].pc \in {"frees", "releases"} => owner # NoLock
    BY FileLockAssumption DEF HeldInv, QueueInv
  <1>7. owner = NoLock => handle = {}
    BY FileLockAssumption DEF HeldInv, LockTypeOK
  <1>8. \A c \in Calls :
            /\ call'[c].pc \in {"frees", "releases", "taking", "shares"} =>
                  call'[c] = call[c] /\ c \notin Sharing(l)
            /\ call'[c].pc = "body" => call'[c] = call[c] \/ (owner = NoLock /\ call'[c].on = l)
    BY <1>3
  <1>9. HeldInv'
    <2>1. \A k \in handle' : owner' = k BY <1>2, <1>7 DEF HeldInv
    <2>2. \A c \in Calls : call'[c].pc \in {"taking", "shares"} => call'[c].on \in taking'
      BY <1>1, <1>8 DEF HeldInv, Sharing
    <2>3. \A c \in Calls : call'[c].pc \in {"frees", "releases"} =>
              /\ owner' = call'[c].on /\ handle' = {}
              /\ \A d \in Calls : call'[d].pc \in {"frees", "releases"} => d = c
      BY <1>2, <1>6, <1>8 DEF HeldInv
    <2>4. \A c \in Calls : call'[c].pc = "body" => crossed' \/ call'[c].on \in handle'
      BY <1>2, <1>4, <1>8 DEF HeldInv
    <2> QED BY <2>1, <2>2, <2>3, <2>4 DEF HeldInv
  <1>10. LockTypeOK' BY <1>1, <1>2, <1>3, <1>4 DEF LockTypeOK, CallRecords
  <1> QED BY <1>5, <1>9, <1>10

LEMMA BodyEnds ==
  ASSUME LockInv, NEW c \in Calls, EndBody(c)
  PROVE  LockInv'
  <1> USE DEF LockInv
  <1>0. call \in [Calls -> CallRecords] BY CallsTyped
  <1> DEFINE l == call[c].on
  <1>1. call[c].pc = "body" /\ UNCHANGED <<owner, taking, queue, calls, crossed>> BY DEF EndBody
  <1>2. l \in Locks BY <1>1 DEF QueueInv
  <1>3. PICK pc \in {"frees", "leaves"} :
            /\ call' = [call EXCEPT ![c] = [call[c] EXCEPT !.pc = pc]]
            /\ pc = "frees" => l \in handle /\ handle' = handle \ {l}
            /\ pc = "leaves" => handle' = handle
    BY DEF EndBody, Comes
  <1> DEFINE r == [call[c] EXCEPT !.pc = pc]
  <1>4. r \in CallRecords /\ r.pc = pc /\ r.on = l BY <1>0 DEF CallRecords
  <1>5. call' = [call EXCEPT ![c] = r] BY <1>3
  <1> HIDE DEF r
  <1>6. /\ call' \in [Calls -> CallRecords] /\ call'[c] = r
        /\ \A d \in Calls : d # c => call'[d] = call[d]
    BY <1>4, <1>5, OneLockCall
  <1>7. QueueInv'
    <2>1. /\ call[c].pc \in InQueue /\ call'[c].pc \in InQueue /\ call'[c].on = call[c].on
          /\ call[c].pc \notin {"queued", "gone"}
      BY <1>1, <1>4, <1>6 DEF InQueue
    <2> QED BY <1>1, <1>6, <2>1, QueueStays
  <1>8. handle' \subseteq handle BY <1>3
  <1>9. HeldInv'
    <2>1. \A k \in handle' : owner' = k BY <1>1, <1>8 DEF HeldInv
    <2>2. \A d \in Calls : call'[d].pc \in {"taking", "shares"} => call'[d].on \in taking'
      BY <1>1, <1>4, <1>6 DEF HeldInv
    <2>3. \A d \in Calls : call'[d].pc = "body" => crossed' \/ call'[d].on \in handle'
      <3> SUFFICES ASSUME NEW d \in Calls, call'[d].pc = "body"
                   PROVE  crossed' \/ call'[d].on \in handle'
        OBVIOUS
      <3>1. d # c /\ call'[d] = call[d] BY <1>3, <1>4, <1>6
      <3>2. call[d].on # l BY <1>1, <3>1, OneTurnEach
      <3> QED BY <1>1, <1>3, <3>1, <3>2 DEF HeldInv
    <2>4. CASE pc = "leaves"
      <3>1. \A d \in Calls : call'[d].pc \in {"frees", "releases"} => d # c /\ call'[d] = call[d]
        BY <1>4, <1>6, <2>4
      <3> QED BY <1>1, <1>3, <2>1, <2>2, <2>3, <2>4, <3>1 DEF HeldInv
    <2>5. CASE pc = "frees"
      <3>1. l \in handle /\ owner = l /\ handle' = {} BY <1>3, <2>5 DEF HeldInv
      <3>2. \A d \in Calls : call[d].pc \notin {"frees", "releases"} BY <3>1 DEF HeldInv
      <3>3. \A d \in Calls : call'[d].pc \in {"frees", "releases"} => d = c BY <1>6, <3>2
      <3>4. \A d \in Calls : call'[d].pc \in {"frees", "releases"} =>
                owner' = call'[d].on /\ handle' = {}
        BY <1>1, <1>4, <1>6, <3>1, <3>3
      <3> QED BY <2>1, <2>2, <2>3, <3>3, <3>4 DEF HeldInv
    <2> QED BY <1>3, <2>4, <2>5
  <1>10. LockTypeOK' BY <1>1, <1>6, <1>8 DEF LockTypeOK, CallRecords
  <1> QED BY <1>7, <1>9, <1>10

LEMMA LockIsReleased ==
  ASSUME LockInv, NEW c \in Calls, ReleaseLock(c)
  PROVE  LockInv'
  <1> USE DEF LockInv
  <1>0. call \in [Calls -> CallRecords] BY CallsTyped
  <1> DEFINE l == call[c].on
  <1>1. call[c].pc = "has" /\ UNCHANGED <<owner, taking, queue, calls>> BY DEF ReleaseLock
  <1>2. l \in Locks BY <1>1 DEF QueueInv
  <1>3. PICK r \in CallRecords :
            /\ call' = [call EXCEPT ![c] = r]
            /\ \/ r.pc = "releases" /\ r.on = l /\ l \in handle /\ handle' = handle \ {l}
               \/ r.pc = "idle" /\ handle' = handle
    <2>1. CASE l \in handle
      <3>1. [call[c] EXCEPT !.pc = "releases"] \in CallRecords BY <1>0 DEF CallRecords
      <3>2. /\ [call[c] EXCEPT !.pc = "releases"].pc = "releases"
            /\ [call[c] EXCEPT !.pc = "releases"].on = l
        BY <1>0 DEF CallRecords
      <3> QED BY <2>1, <3>1, <3>2 DEF ReleaseLock, Comes
    <2>2. CASE l \notin handle
      <3>1. AtRest \in CallRecords /\ AtRest.pc = "idle" BY DEF AtRest, CallRecords
      <3> QED BY <2>2, <3>1 DEF ReleaseLock
    <2> QED BY <2>1, <2>2
  <1>4. /\ crossed' \in BOOLEAN /\ (crossed => crossed')
        /\ InBody(l) # {} => crossed'
    BY DEF ReleaseLock, LockTypeOK
  <1>5. /\ call' \in [Calls -> CallRecords] /\ call'[c] = r
        /\ \A d \in Calls : d # c => call'[d] = call[d]
    BY <1>3, OneLockCall
  <1>6. QueueInv'
    <2>1. /\ call[c].pc \notin InQueue /\ call'[c].pc \notin InQueue
          /\ call'[c].pc = "idle" \/ call'[c].on \in Locks
      BY <1>1, <1>2, <1>3, <1>5 DEF InQueue
    <2> QED BY <1>1, <1>5, <2>1, QueueStays
  <1>7. handle' \subseteq handle BY <1>3
  <1>8. HeldInv'
    <2>1. \A k \in handle' : owner' = k BY <1>1, <1>7 DEF HeldInv
    <2>2. \A d \in Calls : call'[d].pc \in {"taking", "shares"} => call'[d].on \in taking'
      BY <1>1, <1>3, <1>5 DEF HeldInv
    <2>3. \A d \in Calls : call'[d].pc = "body" => crossed' \/ call'[d].on \in handle'
      <3> SUFFICES ASSUME NEW d \in Calls, call'[d].pc = "body"
                   PROVE  crossed' \/ call'[d].on \in handle'
        OBVIOUS
      <3>1. d # c /\ call'[d] = call[d] BY <1>3, <1>5
      <3>2. call[d].on = l => crossed' BY <1>4, <3>1 DEF InBody
      <3> QED BY <1>3, <1>4, <3>1, <3>2 DEF HeldInv
    <2>4. CASE r.pc = "idle"
      <3>1. \A d \in Calls : call'[d].pc \in {"frees", "releases"} => d # c /\ call'[d] = call[d]
        BY <1>5, <2>4
      <3>2. handle' = handle BY <1>3, <2>4
      <3> QED BY <1>1, <2>1, <2>2, <2>3, <3>1, <3>2 DEF HeldInv
    <2>5. CASE r.pc = "releases"
      <3>1. l \in handle /\ owner = l /\ handle' = {} /\ r.on = l BY <1>3, <2>5 DEF HeldInv
      <3>2. \A d \in Calls : call[d].pc \notin {"frees", "releases"} BY <3>1 DEF HeldInv
      <3>3. \A d \in Calls : call'[d].pc \in {"frees", "releases"} => d = c BY <1>5, <3>2
      <3>4. \A d \in Calls : call'[d].pc \in {"frees", "releases"} =>
                owner' = call'[d].on /\ handle' = {}
        BY <1>1, <1>5, <3>1, <3>3
      <3> QED BY <2>1, <2>2, <2>3, <3>3, <3>4 DEF HeldInv
    <2> QED BY <1>3, <2>4, <2>5
  <1>9. LockTypeOK' BY <1>1, <1>4, <1>5, <1>7 DEF LockTypeOK, CallRecords
  <1> QED BY <1>6, <1>8, <1>9

LEMMA LockIsFreed ==
  ASSUME LockInv, NEW c \in Calls, Freed(c)
  PROVE  LockInv'
  <1> USE DEF LockInv
  <1>0. call \in [Calls -> CallRecords] BY CallsTyped
  <1>1. /\ call[c].pc \in {"frees", "releases"} /\ owner' = NoLock
        /\ UNCHANGED <<handle, taking, queue, calls, crossed>>
    BY DEF Freed
  <1>2. PICK r \in CallRecords :
            /\ call' = [call EXCEPT ![c] = r]
            /\ \/ call[c].pc = "frees" /\ r.pc = "leaves" /\ r.on = call[c].on
               \/ call[c].pc = "releases" /\ r.pc = "idle"
    <2>1. CASE call[c].pc = "frees"
      <3>1. [call[c] EXCEPT !.pc = "leaves"] \in CallRecords BY <1>0 DEF CallRecords
      <3>2. /\ [call[c] EXCEPT !.pc = "leaves"].pc = "leaves"
            /\ [call[c] EXCEPT !.pc = "leaves"].on = call[c].on
        BY <1>0 DEF CallRecords
      <3> QED BY <2>1, <3>1, <3>2 DEF Freed, Comes
    <2>2. CASE call[c].pc # "frees"
      <3>1. AtRest \in CallRecords /\ AtRest.pc = "idle" BY DEF AtRest, CallRecords
      <3> QED BY <1>1, <2>2, <3>1 DEF Freed
    <2> QED BY <2>1, <2>2
  <1>3. /\ call' \in [Calls -> CallRecords] /\ call'[c] = r
        /\ \A d \in Calls : d # c => call'[d] = call[d]
    BY <1>2, OneLockCall
  <1>4. QueueInv'
    <2>1. \/ /\ call[c].pc \notin InQueue /\ call'[c].pc \notin InQueue
             /\ call'[c].pc = "idle"
          \/ /\ call[c].pc \in InQueue /\ call'[c].pc \in InQueue
             /\ call'[c].on = call[c].on /\ call[c].pc \notin {"queued", "gone"}
      BY <1>2, <1>3 DEF InQueue
    <2> QED BY <1>1, <1>3, <2>1, QueueStays
  <1>5. handle = {} /\ \A d \in Calls : call[d].pc \in {"frees", "releases"} => d = c
    BY <1>1 DEF HeldInv
  <1>6. HeldInv'
    <2>1. \A d \in Calls : call'[d].pc \in {"taking", "shares", "body"} => call'[d] = call[d]
      BY <1>2, <1>3
    <2>2. \A d \in Calls : call'[d].pc \notin {"frees", "releases"} BY <1>2, <1>3, <1>5
    <2> QED BY <1>1, <1>5, <2>1, <2>2 DEF HeldInv
  <1>7. LockTypeOK' BY <1>1, <1>3 DEF LockTypeOK, CallRecords
  <1> QED BY <1>4, <1>6, <1>7

LEMMA LockSteps == LockInv /\ [LockNext]_lockVars => LockInv'
  <1> SUFFICES ASSUME LockInv, [LockNext]_lockVars PROVE LockInv' OBVIOUS
  <1>1. CASE UNCHANGED lockVars
    BY <1>1 DEF lockVars, LockInv, LockTypeOK, QueueInv, HeldInv
  <1>2. CASE LockNext
    BY <1>2, BodyIsQueued, CallStopsWaiting, CallLeaves, CallEnters, LockIsAcquired, LockIsTaken,
       BodyEnds, LockIsReleased, LockIsFreed
    DEF LockNext
  <1> QED BY <1>1, <1>2

LEMMA LockInvIsSafe == LockInv => FileLockSafe
  <1> SUFFICES ASSUME LockInv PROVE FileLockSafe OBVIOUS
  <1> USE DEF LockInv
  <1>1. BodiesAlone
    <2> SUFFICES ASSUME NEW c \in Calls, call[c].pc = "body"
                 PROVE  /\ \A d \in Calls : d # c =>
                              call[d].pc # "body" \/ (crossed /\ call[d].on # call[c].on)
                        /\ crossed \/ owner = call[c].on
      BY DEF BodiesAlone
    <2>1. \A d \in Calls : d # c /\ call[d].pc = "body" => call[d].on # call[c].on
      BY OneTurnEach
    <2>2. \A d \in Calls : call[d].pc = "body" => crossed \/ owner = call[d].on
      BY DEF HeldInv
    <2> QED BY <2>1, <2>2
  <1>2. QueueMoves
    <2> SUFFICES ASSUME NEW l \in Locks, queue[l] # <<>>
                 PROVE  /\ call[Head(queue[l])].pc \in InQueue
                        /\ call[Head(queue[l])].on = l
                        /\ call[Head(queue[l])].pc = "taking" => l \in taking
      BY DEF QueueMoves, InQueue
    <2>1. queue[l] \in Seq(Calls) BY CallsTyped
    <2>2. 1 \in 1 .. Len(queue[l]) /\ Head(queue[l]) = queue[l][1] /\ queue[l][1] \in Calls
      BY <2>1
    <2>3. call[queue[l][1]].on = l /\ call[queue[l][1]].pc \in InQueue BY <2>2 DEF QueueInv
    <2> QED BY <2>2, <2>3 DEF HeldInv
  <1> QED BY <1>1, <1>2 DEF FileLockSafe

(* For any instances and any calls on each: bodies run one at a time, each *)
(* with the lock of the system while acquire and release keep off it, and  *)
(* the first of a queue is always on its way (file-lock.ts:165-174).       *)
THEOREM FileLockIsSafe == LockSpec => []FileLockSafe
  <1>1. LockSpec => []LockInv BY LockStarts, LockSteps, PTL DEF LockSpec
  <1> QED BY <1>1, LockInvIsSafe, PTL
----------------------------------------------------------------------------
(***************************************************************************)
(* The limiter.                                                            *)
(***************************************************************************)

(* The events of a bucket after a moment, and the requests that took one.  *)
After(events, T) == {i \in 1 .. Len(events) : events[i] > T}
Takers(k, T) ==
    {r \in Requests : requests[r].pc = "accepted" /\ k \in requests[r].key /\ requests[r].at > T}

Asked == {r \in Requests : requests[r].pc # "new"}

Recorded(events) ==
    /\ events \in Seq(Nat) /\ InOrder(events) /\ Len(events) <= Limit
    /\ \A i \in 1 .. Len(events) : events[i] <= now

RateTypes ==
    /\ now \in Nat /\ now <= MaxTime
    /\ lastSweep \in 0 .. now /\ checks \in 0 .. SweepEvery - 1
    /\ Kept \subseteq Keys /\ IsFiniteSet(Kept) /\ Cardinality(Kept) <= MaxBuckets
    /\ \A k \in Kept : /\ buckets[k] \in [events : Seq(Nat), seenAt : 0 .. now]
                        /\ Recorded(buckets[k].events)
    /\ requests \in [Requests -> [pc : {"new", "accepted", "limited", "refused", "refunded"},
                                  key : SUBSET Keys, at : Nat]]
    /\ \A r \in Asked : requests[r].at <= now /\ \E k \in Keys : requests[r].key = {k}
    /\ IsFiniteSet(Asked)

(* As many requests as events, after every moment of the window.           *)
EventsIn(bs, k) == IF k \in DOMAIN bs THEN bs[k].events ELSE << >>

TalliedIn(bs, k) ==
    \A T \in Int : T >= now - Window =>
        Cardinality(Takers(k, T)) = Cardinality(After(EventsIn(bs, k), T))

(* A full limiter waits for its first bucket to fall idle.                 *)
Emptied(k) == \E r \in Requests : requests[r].pc = "refunded" /\ k \in requests[r].key

WaitInv ==
    /\ fullUntil = Never \/ fullUntil \in 0 .. now + Window
    /\ now < fullUntil =>
          \A k \in Kept :
              \/ Emptied(k)
              \/ buckets[k].events # << >> /\ Newest(buckets[k].events) + Window >= fullUntil

RateInv ==
    /\ RateTypes
    /\ \A k \in Keys : TalliedIn(buckets, k)
    /\ WaitInv

(* What is left of the buckets when some that hold no live event are gone. *)
Pruned(bs) ==
    /\ DOMAIN bs \subseteq Kept
    /\ \A k \in DOMAIN bs : bs[k] = buckets[k]
    /\ \A k \in Kept \ DOMAIN bs : QuietSince(buckets[k], now - Window)

LEMMA RateNumbers ==
    ASSUME RateLimitAssumption
    PROVE  /\ Window \in Nat \ {0} /\ Limit \in Nat \ {0} /\ Idle \in Nat
           /\ MaxBuckets \in Nat \ {0} /\ SweepEvery \in Nat \ {0} /\ MaxTime \in Nat
BY DEF RateLimitAssumption

(* A set of numbers has a least one.                                       *)
LEMMA LeastOf ==
    ASSUME NEW T \in SUBSET Nat, T # {}
    PROVE  \E x \in T : \A y \in T : x <= y
<1>1. \A x, y \in Nat : y < x => <<y, x>> \in OpToRel(<, Nat)
  BY DEF OpToRel
<1>2. PICK x \in T : \A y \in T : ~ (<<y, x>> \in OpToRel(<, Nat))
  <2>1. IsWellFoundedOn(OpToRel(<, Nat), Nat)
    BY NatLessThanWellFounded
  <2>2. QED  BY <2>1, WFMin
<1>3. \A y \in T : ~(y < x)
  BY <1>1, <1>2
<1>4. QED  BY <1>3

(* A bounded one has a greatest.                                           *)
LEMMA GreatestOf ==
    ASSUME NEW n \in Nat, NEW T \in SUBSET (1 .. n), T # {}
    PROVE  \E x \in T : \A y \in T : y <= x
<1> DEFINE U == {n - x : x \in T}
<1>1. U \in SUBSET Nat /\ U # {}
  OBVIOUS
<1>2. \E x \in U : \A y \in U : x <= y
  <2> HIDE DEF U
  <2>1. QED  BY <1>1, LeastOf
<1>3. PICK u \in U : \A y \in U : u <= y
  BY <1>2
<1>4. PICK x \in T : u = n - x
  BY <1>3
<1>5. ASSUME NEW y \in T  PROVE y <= x
  <2>1. n - y \in U /\ y \in Nat /\ x \in Nat
    OBVIOUS
  <2>2. n - x <= n - y
    BY <1>3, <1>4, <2>1
  <2> HIDE DEF U
  <2>3. QED  BY <2>1, <2>2
<1>6. QED  BY <1>5

LEMMA AfterIs ==
    ASSUME NEW e \in Seq(Nat), NEW T \in Int
    PROVE  /\ After(e, T) \subseteq 1 .. Len(e) /\ IsFiniteSet(After(e, T))
           /\ Cardinality(After(e, T)) \in Nat
<1>1. After(e, T) \in SUBSET (1 .. Len(e)) /\ Len(e) \in Nat
  BY DEF After
<1>2. IsFiniteSet(1 .. Len(e))
  BY <1>1, FS_Interval
<1>3. IsFiniteSet(After(e, T))
  BY <1>1, <1>2, FS_Subset
<1>4. QED  BY <1>1, <1>3, FS_CardinalityType

(* A bijection, which the cases below name.                                *)
LEMMA SameSize ==
    ASSUME NEW S, NEW T, IsFiniteSet(S), NEW f \in [S -> T],
           \A x, y \in S : f[x] = f[y] => x = y,
           \A y \in T : \E x \in S : f[x] = y
    PROVE  IsFiniteSet(T) /\ Cardinality(T) = Cardinality(S)
<1>1. f \in Bijection(S, T)
  BY Fun_IsBij
<1>2. ExistsBijection(S, T)
  BY <1>1 DEF ExistsBijection
<1>3. QED  BY <1>2, FS_Bijection

LEMMA FirstLiveIs ==
    ASSUME NEW e \in Seq(Nat), InOrder(e), now \in Nat, Window \in Nat
    PROVE  /\ FirstLive(e) \in 1 .. Len(e) + 1
           /\ \A j \in 1 .. FirstLive(e) - 1 : e[j] <= now - Window
           /\ \A j \in FirstLive(e) .. Len(e) : e[j] > now - Window
<1>1. \E i \in 1 .. Len(e) + 1 :
         /\ \A j \in 1 .. i - 1 : e[j] <= now - Window
         /\ \A j \in i .. Len(e) : e[j] > now - Window
  <2>1. CASE After(e, now - Window) = {}
    <3>1. \A j \in 1 .. Len(e) : e[j] <= now - Window
      BY <2>1 DEF After
    <3>2. Len(e) + 1 \in 1 .. Len(e) + 1
      OBVIOUS
    <3>3. QED  BY <3>1, <3>2
  <2>2. CASE After(e, now - Window) # {}
    <3>1. After(e, now - Window) \in SUBSET Nat
      BY DEF After
    <3>2. PICK i \in After(e, now - Window) : \A j \in After(e, now - Window) : i <= j
      BY <2>2, <3>1, LeastOf
    <3>3. i \in 1 .. Len(e) /\ e[i] > now - Window
      BY DEF After
    <3>4. \A j \in 1 .. i - 1 : e[j] <= now - Window
      <4>1. ASSUME NEW j \in 1 .. i - 1  PROVE e[j] <= now - Window
        <5>1. j \in 1 .. Len(e) /\ j \notin After(e, now - Window) /\ e[j] \in Nat
          BY <3>2, <3>3
        <5>2. QED  BY <5>1 DEF After
      <4>2. QED  BY <4>1
    <3>5. \A j \in i .. Len(e) : e[j] > now - Window
      <4>1. ASSUME NEW j \in i .. Len(e)  PROVE e[j] > now - Window
        <5>1. j \in 1 .. Len(e) /\ i <= j /\ e[j] \in Nat /\ e[i] \in Nat
          BY <3>3
        <5>2. e[i] <= e[j]
          BY <3>3, <5>1 DEF InOrder
        <5>3. QED  BY <3>3, <5>1, <5>2
      <4>2. QED  BY <4>1
    <3>6. QED  BY <3>3, <3>4, <3>5
  <2>3. QED  BY <2>1, <2>2
<1>2. QED  BY <1>1 DEF FirstLive

LEMMA LiveIs ==
    ASSUME NEW e, Recorded(e), now \in Nat, Window \in Nat, Limit \in Nat
    PROVE  /\ Recorded(Live(e))
           /\ \A T \in Int : T >= now - Window =>
                 Cardinality(After(Live(e), T)) = Cardinality(After(e, T))
           /\ Cardinality(After(e, now - Window)) = Len(Live(e))
           /\ e # << >> /\ Newest(e) > now - Window =>
                 Live(e) # << >> /\ Newest(Live(e)) = Newest(e)
<1> DEFINE f == FirstLive(e)
           n == Len(e)
           l == Live(e)
<1>0. e \in Seq(Nat) /\ InOrder(e) /\ n \in Nat /\ n <= Limit
  BY DEF Recorded
<1>1. /\ f \in 1 .. n + 1
      /\ \A j \in 1 .. f - 1 : e[j] <= now - Window
      /\ \A j \in f .. n : e[j] > now - Window
  BY <1>0, FirstLiveIs
<1>2. l = SubSeq(e, f, n)
  BY DEF Live
<1> HIDE DEF f, l
<1>3. /\ l \in Seq(Nat) /\ Len(l) = n - f + 1
      /\ \A i \in 1 .. n - f + 1 : l[i] = e[f + i - 1]
  <2>1. f \in Int /\ n \in Int /\ \A i \in f .. n : e[i] \in Nat
    BY <1>0, <1>1
  <2>2. /\ SubSeq(e, f, n) \in Seq(Nat)
        /\ Len(SubSeq(e, f, n)) = IF f <= n THEN n - f + 1 ELSE 0
        /\ \A i \in 1 .. n - f + 1 : SubSeq(e, f, n)[i] = e[f + i - 1]
    BY <1>0, <2>1, SubSeqProperties
  <2>3. n - f + 1 = IF f <= n THEN n - f + 1 ELSE 0
    BY <1>0, <1>1
  <2>4. QED  BY <1>2, <2>2, <2>3
<1>4. Recorded(l)
  <2>1. InOrder(l)
    <3>1. ASSUME NEW i \in DOMAIN l, NEW j \in DOMAIN l, i <= j  PROVE l[i] <= l[j]
      <4>0. DOMAIN l = 1 .. n - f + 1 /\ n - f + 1 \in Nat
        BY <1>0, <1>1, <1>3
      <4>a. i \in 1 .. n - f + 1 /\ j \in 1 .. n - f + 1
        BY <4>0
      <4>b. i \in Int /\ j \in Int /\ f \in Int /\ n \in Int
        BY <1>0, <1>1, <4>a
      <4>1. /\ i \in 1 .. n - f + 1 /\ j \in 1 .. n - f + 1
            /\ f + i - 1 \in 1 .. n /\ f + j - 1 \in 1 .. n /\ f + i - 1 <= f + j - 1
        BY <1>1, <3>1, <4>a, <4>b
      <4>2. e[f + i - 1] <= e[f + j - 1]
        BY <1>0, <4>1 DEF InOrder
      <4>3. QED  BY <1>3, <4>1, <4>2
    <3>2. QED  BY <3>1 DEF InOrder
  <2>2. \A i \in 1 .. Len(l) : l[i] <= now
    <3>1. ASSUME NEW i \in 1 .. Len(l)  PROVE l[i] <= now
      <4>1. i \in 1 .. n - f + 1 /\ f + i - 1 \in 1 .. n
        BY <1>1, <1>3
      <4>2. QED  BY <1>3, <4>1 DEF Recorded
    <3>2. QED  BY <3>1
  <2>3. Len(l) <= Limit
    BY <1>0, <1>1, <1>3 DEF Recorded
  <2>4. QED  BY <1>3, <2>1, <2>2, <2>3 DEF Recorded
<1>5. ASSUME NEW T \in Int, T >= now - Window
      PROVE  Cardinality(After(l, T)) = Cardinality(After(e, T))
  <2> DEFINE g == [i \in After(l, T) |-> f + i - 1]
  <2>1. g \in [After(l, T) -> After(e, T)]
    <3>1. ASSUME NEW i \in After(l, T)  PROVE f + i - 1 \in After(e, T)
      <4>1. i \in 1 .. n - f + 1 /\ l[i] > T
        BY <1>3 DEF After
      <4>2. f + i - 1 \in 1 .. n /\ e[f + i - 1] > T
        BY <1>1, <1>3, <4>1
      <4>3. QED  BY <4>2 DEF After
    <3>2. QED  BY <3>1
  <2>2. \A x, y \in After(l, T) : g[x] = g[y] => x = y
    BY <1>1, <1>3 DEF After
  <2>3. ASSUME NEW y \in After(e, T)  PROVE \E x \in After(l, T) : g[x] = y
    <3>1. y \in 1 .. n /\ e[y] > T /\ e[y] \in Nat
      BY <1>0 DEF After
    <3>2. y >= f
      BY <1>1, <1>5, <3>1
    <3>3. y - f + 1 \in 1 .. n - f + 1 /\ l[y - f + 1] = e[y]
      <4>1. y - f + 1 \in 1 .. n - f + 1
        BY <1>1, <3>1, <3>2
      <4>2. f + (y - f + 1) - 1 = y
        BY <1>1, <3>1
      <4>3. QED  BY <1>3, <4>1, <4>2
    <3>4. y - f + 1 \in After(l, T)
      BY <1>3, <3>1, <3>3 DEF After
    <3>5. g[y - f + 1] = y
      BY <1>1, <3>1, <3>4
    <3>6. QED  BY <3>4, <3>5
  <2>4. IsFiniteSet(After(l, T))
    BY <1>3, AfterIs
  <2> HIDE DEF g
  <2>5. QED  BY <2>1, <2>2, <2>3, <2>4, SameSize
<1>6. Cardinality(After(e, now - Window)) = Len(l)
  <2>1. After(l, now - Window) = 1 .. Len(l)
    <3>1. ASSUME NEW i \in 1 .. Len(l)  PROVE l[i] > now - Window
      <4>1. i \in 1 .. n - f + 1 /\ f + i - 1 \in f .. n
        BY <1>1, <1>3
      <4>2. QED  BY <1>1, <1>3, <4>1
    <3>2. QED  BY <3>1 DEF After
  <2>2. Cardinality(1 .. Len(l)) = Len(l)
    BY <1>3, FS_Interval
  <2>3. Cardinality(After(l, now - Window)) = Cardinality(After(e, now - Window))
    BY <1>5
  <2>4. QED  BY <2>1, <2>2, <2>3
<1>7. ASSUME e # << >>, Newest(e) > now - Window
      PROVE  l # << >> /\ Newest(l) = Newest(e)
  <2>1. n \in 1 .. n /\ n > 0 /\ e[n] > now - Window
    BY <1>0, <1>7 DEF Newest
  <2>2. f <= n
    BY <1>1, <2>1, <1>0
  <2>3. Len(l) >= 1 /\ l[Len(l)] = e[n]
    BY <1>0, <1>1, <1>3, <2>2
  <2>4. QED  BY <1>3, <2>3 DEF Newest
<1>8. QED  BY <1>4, <1>5, <1>6, <1>7 DEF l

LEMMA NoneAfter ==
    /\ now \in Nat /\ Limit \in Nat => Recorded(<< >>)
    /\ \A T \in Int : After(<< >>, T) = {}
<1>1. << >> \in Seq(Nat) /\ Len(<< >>) = 0 /\ DOMAIN << >> = {}
  OBVIOUS
<1>2. InOrder(<< >>)
  BY <1>1 DEF InOrder
<1>3. now \in Nat /\ Limit \in Nat => Recorded(<< >>)
  BY <1>1, <1>2 DEF Recorded
<1>4. QED  BY <1>1, <1>3 DEF After

LEMMA QuietIs ==
    ASSUME NEW b, Recorded(b.events), NEW T0 \in Int, QuietSince(b, T0),
           NEW T \in Int, T >= T0
    PROVE  After(b.events, T) = {}
<1> DEFINE e == b.events
<1>1. e \in Seq(Nat) /\ InOrder(e) /\ Len(e) \in Nat
  BY DEF Recorded
<1>2. CASE e = << >>
  BY <1>2, NoneAfter
<1>3. CASE e # << >> /\ Newest(e) <= T0
  <2>1. Len(e) \in 1 .. Len(e) /\ e[Len(e)] \in Nat
    BY <1>1, <1>3
  <2>2. ASSUME NEW i \in 1 .. Len(e)  PROVE ~(e[i] > T)
    <3>1. e[i] <= e[Len(e)] /\ e[i] \in Nat
      BY <1>1, <2>1 DEF InOrder
    <3>2. e[Len(e)] <= T0
      BY <1>3 DEF Newest
    <3>3. QED  BY <2>1, <3>1, <3>2
  <2>3. QED  BY <2>2 DEF After
<1>4. QED  BY <1>2, <1>3 DEF QuietSince

(* A recorded request is one event more, after every moment before now.    *)
LEMMA RecordedIs ==
    ASSUME NEW e, Recorded(e), Len(e) < Limit, now \in Nat, Limit \in Nat
    PROVE  /\ Recorded(Append(e, now))
           /\ Append(e, now) # << >> /\ Newest(Append(e, now)) = now
           /\ \A T \in Int : Cardinality(After(Append(e, now), T)) =
                 IF now > T THEN Cardinality(After(e, T)) + 1 ELSE Cardinality(After(e, T))
<1> DEFINE a == Append(e, now)
           n == Len(e)
<1>0. e \in Seq(Nat) /\ InOrder(e) /\ n \in Nat /\ \A i \in 1 .. n : e[i] <= now
  BY DEF Recorded
<1>1. /\ a \in Seq(Nat) /\ Len(a) = n + 1 /\ a[n + 1] = now
      /\ \A i \in 1 .. n : a[i] = e[i]
  BY <1>0
<1> HIDE DEF a
<1>2. InOrder(a)
  <2>1. ASSUME NEW i \in DOMAIN a, NEW j \in DOMAIN a, i <= j  PROVE a[i] <= a[j]
    <3>1. i \in 1 .. n + 1 /\ j \in 1 .. n + 1
      BY <1>1
    <3>2. CASE j = n + 1
      <4>1. CASE i = n + 1
        BY <1>1, <3>2, <4>1
      <4>2. CASE i # n + 1
        <5>1. i \in 1 .. n
          BY <1>0, <3>1, <4>2
        <5>2. QED  BY <1>0, <1>1, <3>2, <5>1
      <4>3. QED  BY <4>1, <4>2
    <3>3. CASE j # n + 1
      <4>1. i \in 1 .. n /\ j \in 1 .. n
        BY <1>0, <2>1, <3>1, <3>3
      <4>2. e[i] <= e[j]
        BY <1>0, <2>1, <4>1 DEF InOrder
      <4>3. QED  BY <1>1, <4>1, <4>2
    <3>4. QED  BY <3>2, <3>3
  <2>2. QED  BY <2>1 DEF InOrder
<1>3. Recorded(a)
  <2>1. ASSUME NEW i \in 1 .. Len(a)  PROVE a[i] <= now
    <3>1. i = n + 1 \/ i \in 1 .. n
      BY <1>0, <1>1
    <3>2. QED  BY <1>0, <1>1, <3>1
  <2>2. Len(a) <= Limit
    BY <1>0, <1>1
  <2>3. QED  BY <1>1, <1>2, <2>1, <2>2 DEF Recorded
<1>4. a # << >> /\ Newest(a) = now
  BY <1>0, <1>1 DEF Newest
<1>5. ASSUME NEW T \in Int
      PROVE  Cardinality(After(a, T)) =
                IF now > T THEN Cardinality(After(e, T)) + 1 ELSE Cardinality(After(e, T))
  <2>1. IsFiniteSet(After(e, T)) /\ n + 1 \notin After(e, T)
    BY <1>0, AfterIs DEF After
  <2>2. CASE now > T
    <3>1. After(a, T) = After(e, T) \cup {n + 1}
      BY <1>0, <1>1, <2>2 DEF After
    <3>2. QED  BY <2>1, <2>2, <3>1, FS_AddElement
  <2>3. CASE ~(now > T)
    <3>1. After(a, T) = After(e, T)
      BY <1>0, <1>1, <2>3 DEF After
    <3>2. QED  BY <2>3, <3>1
  <2>4. QED  BY <2>2, <2>3
<1>6. QED  BY <1>3, <1>4, <1>5 DEF a

(* A refund takes one event of its moment, if there is one.                *)
LEMMA RefundedIs ==
    ASSUME NEW e, Recorded(e), NEW at \in Nat, now \in Nat, Limit \in Nat
    PROVE  /\ Recorded(Refunded(e, at))
           /\ (\A i \in 1 .. Len(e) : e[i] # at) => Refunded(e, at) = e
           /\ (\E i \in 1 .. Len(e) : e[i] = at) =>
                 \A T \in Int : Cardinality(After(Refunded(e, at), T)) =
                    IF at > T THEN Cardinality(After(e, T)) - 1 ELSE Cardinality(After(e, T))
<1> DEFINE n == Len(e)
           places == {i \in DOMAIN e : e[i] = at}
           l == CHOOSE i \in places : \A j \in places : j <= i
           d == [i \in 1 .. n - 1 |-> IF i < l THEN e[i] ELSE e[i + 1]]
<1>0. /\ e \in Seq(Nat) /\ InOrder(e) /\ n \in Nat /\ DOMAIN e = 1 .. n
      /\ \A i \in 1 .. n : e[i] <= now /\ e[i] \in Nat
      /\ n <= Limit
  BY DEF Recorded
<1>1. Refunded(e, at) = IF places = {} THEN e ELSE d
  BY DEF Refunded
<1>2. CASE places = {}
  <2>1. \A i \in 1 .. n : e[i] # at
    BY <1>0, <1>2
  <2>2. QED  BY <1>1, <1>2, <2>1
<1>3. CASE places # {}
  <2>1. l \in places
    <3>1. places \in SUBSET (1 .. n)
      BY <1>0
    <3>2. \E i \in places : \A j \in places : j <= i
      BY <1>0, <1>3, <3>1, GreatestOf
    <3> HIDE DEF places
    <3>3. QED  BY <3>2
  <2>2. l \in 1 .. n /\ e[l] = at
    BY <1>0, <2>1
  <2>3. Refunded(e, at) = d
    BY <1>1, <1>3
  <2> HIDE DEF l, places
  <2>4. /\ Len(d) = n - 1 /\ DOMAIN d = 1 .. n - 1
        /\ \A i \in 1 .. n - 1 : d[i] = IF i < l THEN e[i] ELSE e[i + 1]
        /\ d \in Seq(Nat)
    <3>1. n - 1 \in Nat
      BY <1>0, <2>2
    <3>2. \A i \in 1 .. n - 1 : i \in 1 .. n /\ i + 1 \in 1 .. n
      BY <1>0
    <3>3. d \in [1 .. n - 1 -> Nat]
      BY <1>0, <3>2
    <3>4. QED  BY <3>1, <3>3
  <2> HIDE DEF d
  <2>5. InOrder(d)
    <3>1. ASSUME NEW i \in DOMAIN d, NEW j \in DOMAIN d, i <= j  PROVE d[i] <= d[j]
      <4> DEFINE x == IF i < l THEN i ELSE i + 1
                 y == IF j < l THEN j ELSE j + 1
      <4>0. /\ i \in 1 .. n - 1 /\ j \in 1 .. n - 1 /\ i \in Int /\ j \in Int /\ l \in Int
            /\ n \in Nat /\ i <= j
        BY <1>0, <2>2, <2>4, <3>1
      <4>1. x \in 1 .. n /\ y \in 1 .. n /\ x <= y
        BY <4>0
      <4>2. d[i] = e[x] /\ d[j] = e[y]
        BY <2>4
      <4> HIDE DEF x, y
      <4>3. QED  BY <1>0, <4>1, <4>2 DEF InOrder
    <3>2. QED  BY <3>1 DEF InOrder
  <2>6. Recorded(d)
    <3>1. ASSUME NEW i \in 1 .. Len(d)  PROVE d[i] <= now
      <4>1. i \in 1 .. n - 1 /\ i \in 1 .. n /\ i + 1 \in 1 .. n
        BY <1>0, <2>4
      <4>2. QED  BY <1>0, <2>4, <4>1
    <3>2. Len(d) <= Limit
      BY <1>0, <2>4
    <3>3. QED  BY <2>4, <2>5, <3>1, <3>2 DEF Recorded
  <2>7. ASSUME NEW T \in Int
        PROVE  Cardinality(After(d, T)) = Cardinality(After(e, T) \ {l})
    <3> DEFINE g == [i \in After(d, T) |-> IF i < l THEN i ELSE i + 1]
    <3>1. ASSUME NEW i \in After(d, T)
          PROVE  (IF i < l THEN i ELSE i + 1) \in After(e, T) \ {l}
      <4>1. i \in 1 .. n - 1 /\ d[i] > T
        BY <2>4 DEF After
      <4>2. CASE i < l
        <5>1. i \in 1 .. n /\ e[i] > T /\ i # l
          BY <1>0, <2>2, <2>4, <4>1, <4>2
        <5>2. QED  BY <4>2, <5>1 DEF After
      <4>3. CASE ~(i < l)
        <5>1. i + 1 \in 1 .. n /\ e[i + 1] > T /\ i + 1 # l
          BY <1>0, <2>2, <2>4, <4>1, <4>3
        <5>2. QED  BY <4>3, <5>1 DEF After
      <4>4. QED  BY <4>2, <4>3
    <3>2. g \in [After(d, T) -> After(e, T) \ {l}]
      BY <3>1
    <3>3. ASSUME NEW x \in After(d, T), NEW y \in After(d, T), g[x] = g[y]  PROVE x = y
      <4>1. x \in Nat /\ y \in Nat
        BY DEF After
      <4>2. QED  BY <2>2, <3>3, <4>1
    <3>4. ASSUME NEW y \in After(e, T) \ {l}  PROVE \E x \in After(d, T) : g[x] = y
      <4>1. y \in 1 .. n /\ e[y] > T /\ y # l
        BY DEF After
      <4>2. CASE y < l
        <5>0. y \in 1 .. n - 1
          BY <1>0, <2>2, <4>1, <4>2
        <5>1. d[y] = e[y]
          BY <2>4, <4>2, <5>0
        <5>2. y \in After(d, T)
          BY <2>4, <4>1, <5>0, <5>1 DEF After
        <5>3. QED  BY <4>2, <5>2
      <4>3. CASE ~(y < l)
        <5>0. y - 1 \in 1 .. n - 1 /\ ~(y - 1 < l) /\ (y - 1) + 1 = y
          BY <1>0, <2>2, <4>1, <4>3
        <5>1. d[y - 1] = e[y]
          BY <2>4, <5>0
        <5>2. y - 1 \in After(d, T)
          BY <2>4, <4>1, <5>0, <5>1 DEF After
        <5>3. g[y - 1] = y
          BY <5>0, <5>2
        <5>4. QED  BY <5>2, <5>3
      <4>4. QED  BY <4>2, <4>3
    <3>5. IsFiniteSet(After(d, T))
      BY <2>4, AfterIs
    <3> HIDE DEF g
    <3>6. QED  BY <3>2, <3>3, <3>4, <3>5, SameSize
  <2>8. ASSUME NEW T \in Int
        PROVE  Cardinality(After(d, T)) =
                  IF at > T THEN Cardinality(After(e, T)) - 1 ELSE Cardinality(After(e, T))
    <3>1. l \in After(e, T) <=> at > T
      BY <2>2 DEF After
    <3>2. IsFiniteSet(After(e, T))
      BY <1>0, AfterIs
    <3>3. Cardinality(After(e, T) \ {l}) =
             IF l \in After(e, T) THEN Cardinality(After(e, T)) - 1 ELSE Cardinality(After(e, T))
      BY <3>2, FS_RemoveElement
    <3>4. QED  BY <2>7, <3>1, <3>3
  <2>9. ~ \A i \in 1 .. Len(e) : e[i] # at
    BY <2>2
  <2>10. QED  BY <2>3, <2>6, <2>8, <2>9
<1>4. QED  BY <1>2, <1>3

----------------------------------------------------------------------------
(* The requests that took a slot.                                          *)

LEMMA TakersAre ==
    ASSUME RateTypes, NEW k \in Keys, NEW T \in Int
    PROVE  IsFiniteSet(Takers(k, T)) /\ Cardinality(Takers(k, T)) \in Nat
<1>1. Takers(k, T) \in SUBSET Asked
  BY DEF Takers, Asked
<1>2. IsFiniteSet(Takers(k, T))
  BY <1>1, FS_Subset DEF RateTypes
<1>3. QED  BY <1>2, FS_CardinalityType

(* The answer to a request that was new.                                   *)
LEMMA AnsweredIs ==
    ASSUME RateTypes, NEW r \in Requests, NEW k \in Keys, requests[r].pc = "new",
           NEW pc \in {"accepted", "limited", "refused"}, Answered(r, pc, k, now)
    PROVE  /\ requests' \in [Requests -> [pc : {"new", "accepted", "limited", "refused", "refunded"},
                                          key : SUBSET Keys, at : Nat]]
           /\ requests'[r] = [pc |-> pc, key |-> {k}, at |-> now]
           /\ \A q \in Requests \ {r} : requests'[q] = requests[q]
           /\ Asked' = Asked \cup {r} /\ IsFiniteSet(Asked')
<1>1. /\ requests \in [Requests -> [pc : {"new", "accepted", "limited", "refused", "refunded"},
                                    key : SUBSET Keys, at : Nat]]
      /\ now \in Nat /\ IsFiniteSet(Asked)
  BY DEF RateTypes
<1>2. [pc |-> pc, key |-> {k}, at |-> now] \in
         [pc : {"new", "accepted", "limited", "refused", "refunded"}, key : SUBSET Keys, at : Nat]
  BY <1>1
<1>3. /\ requests' \in [Requests -> [pc : {"new", "accepted", "limited", "refused", "refunded"},
                                     key : SUBSET Keys, at : Nat]]
      /\ requests'[r] = [pc |-> pc, key |-> {k}, at |-> now]
      /\ \A q \in Requests \ {r} : requests'[q] = requests[q]
  BY <1>1, <1>2 DEF Answered
<1>4. Asked' = Asked \cup {r}
  BY <1>3 DEF Asked
<1>5. QED  BY <1>1, <1>3, <1>4, FS_AddElement

LEMMA AcceptedTakes ==
    ASSUME RateTypes, NEW r \in Requests, NEW k \in Keys, requests[r].pc = "new",
           Answered(r, "accepted", k, now), NEW j \in Keys, NEW T \in Int
    PROVE  Cardinality(Takers(j, T)') =
              IF j = k /\ now > T THEN Cardinality(Takers(j, T)) + 1
                                  ELSE Cardinality(Takers(j, T))
<1>1. /\ requests'[r] = [pc |-> "accepted", key |-> {k}, at |-> now]
      /\ \A q \in Requests \ {r} : requests'[q] = requests[q]
  BY AnsweredIs
<1>2. r \notin Takers(j, T) /\ IsFiniteSet(Takers(j, T))
  BY TakersAre DEF Takers
<1>3. CASE j = k /\ now > T
  <2>1. Takers(j, T)' = Takers(j, T) \cup {r}
    BY <1>1, <1>3 DEF Takers
  <2>2. QED  BY <1>2, <1>3, <2>1, FS_AddElement
<1>4. CASE ~(j = k /\ now > T)
  <2>1. Takers(j, T)' = Takers(j, T)
    BY <1>1, <1>2, <1>4 DEF Takers
  <2>2. QED  BY <1>4, <2>1
<1>5. QED  BY <1>3, <1>4

LEMMA TurnedAwayTakesNone ==
    ASSUME RateTypes, NEW r \in Requests, NEW k \in Keys, requests[r].pc = "new",
           NEW pc \in {"limited", "refused"}, Answered(r, pc, k, now),
           NEW j \in Keys, NEW T \in Int
    PROVE  Takers(j, T)' = Takers(j, T)
<1>1. /\ requests'[r] = [pc |-> pc, key |-> {k}, at |-> now]
      /\ \A q \in Requests \ {r} : requests'[q] = requests[q]
  <2>1. pc \in {"accepted", "limited", "refused"}
    OBVIOUS
  <2>2. QED  BY <2>1, AnsweredIs
<1>2. QED  BY <1>1 DEF Takers

(* A bucket emptied by a refund stays so marked.                           *)
LEMMA EmptiedStays ==
    ASSUME RateTypes, NEW r \in Requests, NEW k \in Keys, requests[r].pc = "new",
           NEW pc \in {"accepted", "limited", "refused"}, Answered(r, pc, k, now),
           NEW j \in Keys, Emptied(j)
    PROVE  Emptied(j)'
<1>1. \A q \in Requests \ {r} : requests'[q] = requests[q]
  BY AnsweredIs
<1>2. QED  BY <1>1 DEF Emptied

----------------------------------------------------------------------------
(* What a sweep and a clean-up leave.                                      *)

LEMMA WithoutIs ==
    ASSUME RateTypes, NEW bs, Pruned(bs), NEW D \in SUBSET (DOMAIN bs),
           \A k \in D : QuietSince(bs[k], now - Window)
    PROVE  Pruned(Without(bs, D)) /\ DOMAIN Without(bs, D) = DOMAIN bs \ D
<1>1. /\ DOMAIN Without(bs, D) = DOMAIN bs \ D
      /\ \A k \in DOMAIN bs \ D : Without(bs, D)[k] = bs[k]
  BY DEF Without
<1> DEFINE ws == Without(bs, D)
<1>2. /\ DOMAIN bs \subseteq Kept
      /\ \A k \in DOMAIN bs : bs[k] = buckets[k]
      /\ \A k \in Kept \ DOMAIN bs : QuietSince(buckets[k], now - Window)
  BY DEF Pruned
<1> HIDE DEF ws
<1>3. /\ DOMAIN ws \subseteq Kept
      /\ \A k \in DOMAIN ws : ws[k] = buckets[k]
      /\ \A k \in Kept \ DOMAIN ws : QuietSince(buckets[k], now - Window)
  BY <1>1, <1>2 DEF ws
<1>4. QED  BY <1>1, <1>3 DEF Pruned, ws

LEMMA AllArePruned ==
    Pruned(buckets)
BY DEF Pruned, Kept

LEMMA IdleIsQuiet ==
    ASSUME RateTypes, RateLimitAssumption, NEW k \in Kept, IdleBucket(buckets[k])
    PROVE  QuietSince(buckets[k], now - Window)
<1> DEFINE e == buckets[k].events
<1>1. now \in Nat /\ Window \in Nat /\ Idle \in Nat /\ e \in Seq(Nat) /\ Len(e) \in Nat
  BY RateNumbers DEF RateTypes, Recorded
<1>2. e = << >> \/ Newest(e) <= now - Window - Idle
  BY DEF IdleBucket, QuietSince
<1>3. CASE e = << >>
  BY <1>3 DEF QuietSince
<1>4. CASE e # << >> /\ Newest(e) <= now - Window - Idle
  <2>1. Newest(e) \in Nat
    <3>1. Len(e) \in 1 .. Len(e)
      BY <1>1, <1>4
    <3>2. QED  BY <1>1, <3>1 DEF Newest
  <2>2. Newest(e) <= now - Window
    BY <1>1, <1>4, <2>1
  <2>3. QED  BY <2>2 DEF QuietSince
<1>5. QED  BY <1>2, <1>3, <1>4

LEMMA SweptIsPruned ==
    ASSUME RateTypes, RateLimitAssumption
    PROVE  /\ Pruned(Without(buckets, {k \in Kept : IdleBucket(buckets[k])}))
           /\ Pruned(Swept)
<1> DEFINE D == {k \in Kept : IdleBucket(buckets[k])}
<1>1. D \in SUBSET (DOMAIN buckets) /\ \A k \in D : QuietSince(buckets[k], now - Window)
  BY IdleIsQuiet DEF Kept
<1> HIDE DEF D
<1>2. Pruned(Without(buckets, D))
  BY <1>1, AllArePruned, WithoutIs
<1>3. QED  BY <1>2, AllArePruned DEF Swept, D

LEMMA ClearedIsPruned ==
    ASSUME RateTypes, NEW bs, Pruned(bs)
    PROVE  /\ Pruned(Cleared(bs))
           /\ now >= fullUntil => \A k \in DOMAIN Cleared(bs) :
                                     ~QuietSince(Cleared(bs)[k], now - Window)
<1> DEFINE D == Droppable(bs)
<1>1. D \in SUBSET (DOMAIN bs) /\ \A k \in D : QuietSince(bs[k], now - Window)
  BY DEF Droppable
<1>2. Pruned(Without(bs, D)) /\ DOMAIN Without(bs, D) = DOMAIN bs \ D
  <2> HIDE DEF D
  <2>1. QED  BY <1>1, WithoutIs
<1>3. CASE now >= fullUntil
  <2>1. Cleared(bs) = Without(bs, D)
    BY <1>3 DEF Cleared
  <2>2. \A k \in DOMAIN bs \ D : Without(bs, D)[k] = bs[k] /\ ~QuietSince(bs[k], now - Window)
    BY DEF Without, Droppable
  <2>3. QED  BY <1>2, <2>1, <2>2
<1>4. CASE ~(now >= fullUntil)
  BY <1>4 DEF Cleared
<1>5. QED  BY <1>3, <1>4

(* What is left is typed and tallied as the buckets were.                  *)
LEMMA PrunedKeeps ==
    ASSUME RateInv, RateLimitAssumption, NEW bs, Pruned(bs)
    PROVE  /\ DOMAIN bs \subseteq Keys /\ DOMAIN bs \subseteq Kept
           /\ IsFiniteSet(DOMAIN bs) /\ Cardinality(DOMAIN bs) <= MaxBuckets
           /\ Cardinality(DOMAIN bs) \in Nat
           /\ \A k \in DOMAIN bs : /\ bs[k] \in [events : Seq(Nat), seenAt : 0 .. now]
                                   /\ Recorded(bs[k].events)
                                   /\ bs[k] = buckets[k]
           /\ \A k \in Keys : TalliedIn(bs, k)
<1>1. /\ DOMAIN bs \subseteq Kept
      /\ \A k \in DOMAIN bs : bs[k] = buckets[k]
      /\ \A k \in Kept \ DOMAIN bs : QuietSince(buckets[k], now - Window)
  BY DEF Pruned
<1>2. /\ now \in Nat /\ Window \in Nat /\ MaxBuckets \in Nat
      /\ Kept \subseteq Keys /\ IsFiniteSet(Kept) /\ Cardinality(Kept) <= MaxBuckets
      /\ \A k \in Kept : /\ buckets[k] \in [events : Seq(Nat), seenAt : 0 .. now]
                         /\ Recorded(buckets[k].events)
  BY RateNumbers DEF RateInv, RateTypes
<1>3. /\ IsFiniteSet(DOMAIN bs) /\ Cardinality(DOMAIN bs) <= Cardinality(Kept)
      /\ Cardinality(DOMAIN bs) \in Nat /\ Cardinality(Kept) \in Nat
  BY <1>1, <1>2, FS_Subset, FS_CardinalityType
<1>4. ASSUME NEW k \in Keys, NEW T \in Int, T >= now - Window
      PROVE  Cardinality(Takers(k, T)) = Cardinality(After(EventsIn(bs, k), T))
  <2>1. Cardinality(Takers(k, T)) = Cardinality(After(EventsIn(buckets, k), T))
    BY <1>4 DEF RateInv, TalliedIn
  <2>2. CASE k \in DOMAIN bs
    BY <1>1, <2>1, <2>2 DEF EventsIn, Kept
  <2>3. CASE k \notin DOMAIN bs /\ k \in Kept
    <3>1. QuietSince(buckets[k], now - Window) /\ Recorded(buckets[k].events)
      BY <1>1, <1>2, <2>3
    <3>2. After(buckets[k].events, T) = {}
      <4>1. now - Window \in Int
        BY <1>2
      <4>2. QED  BY <1>4, <3>1, <4>1, QuietIs
    <3>3. After(EventsIn(bs, k), T) = {}
      BY <2>3, NoneAfter DEF EventsIn
    <3>4. QED  BY <2>1, <2>3, <3>2, <3>3 DEF EventsIn, Kept
  <2>4. CASE k \notin DOMAIN bs /\ k \notin Kept
    BY <2>1, <2>4 DEF EventsIn, Kept
  <2>5. QED  BY <2>2, <2>3, <2>4
<1>5. \A k \in Keys : TalliedIn(bs, k)
  BY <1>4 DEF TalliedIn
<1>6. QED  BY <1>1, <1>2, <1>3, <1>5

----------------------------------------------------------------------------
(* The steps.                                                              *)

(* A request whose key has a bucket, or gets one.                          *)
LEMMA RecordKeeps ==
    ASSUME RateInv, RateLimitAssumption, NEW bs, Pruned(bs),
           NEW r \in Requests, NEW k \in Keys, requests[r].pc = "new",
           k \in DOMAIN bs \/ HasRoom(bs), Record(r, k, bs),
           now' = now, fullUntil' = fullUntil \/ fullUntil' = Never,
           lastSweep' \in 0 .. now, checks' \in 0 .. SweepEvery - 1
    PROVE  RateInv'
<1> DEFINE old == IF k \in DOMAIN bs THEN bs[k].events ELSE << >>
           live == IF k \in DOMAIN bs THEN Live(bs[k].events) ELSE << >>
           ok == Len(live) < Limit
           new == IF ok THEN Append(live, now) ELSE live
           pc == IF ok THEN "accepted" ELSE "limited"
<1>0. /\ now \in Nat /\ now <= MaxTime /\ Window \in Nat /\ Limit \in Nat \ {0}
      /\ MaxBuckets \in Nat /\ RateTypes /\ WaitInv
  BY RateNumbers DEF RateInv, RateTypes
<1>1. /\ DOMAIN bs \subseteq Keys /\ DOMAIN bs \subseteq Kept
      /\ IsFiniteSet(DOMAIN bs) /\ Cardinality(DOMAIN bs) <= MaxBuckets
      /\ Cardinality(DOMAIN bs) \in Nat
      /\ \A j \in DOMAIN bs : /\ bs[j] \in [events : Seq(Nat), seenAt : 0 .. now]
                              /\ Recorded(bs[j].events)
                              /\ bs[j] = buckets[j]
      /\ \A j \in Keys : TalliedIn(bs, j)
  BY PrunedKeeps
<1>2. /\ buckets' = [j \in DOMAIN bs \union {k} |->
                        IF j = k THEN [events |-> new, seenAt |-> now] ELSE bs[j]]
      /\ Answered(r, pc, k, now) /\ pc \in {"accepted", "limited"}
  BY DEF Record
<1>3. /\ Recorded(live)
      /\ \A T \in Int : T >= now - Window =>
            Cardinality(After(live, T)) = Cardinality(After(old, T))
      /\ old # << >> /\ Newest(old) > now - Window =>
            live # << >> /\ Newest(live) = Newest(old)
  <2>1. CASE k \in DOMAIN bs
    <3>1. Recorded(bs[k].events)
      BY <1>1, <2>1
    <3>2. QED  BY <1>0, <2>1, <3>1, LiveIs
  <2>2. CASE k \notin DOMAIN bs
    BY <1>0, <2>2, NoneAfter
  <2>3. QED  BY <2>1, <2>2
<1> HIDE DEF live
<1>4. /\ Recorded(new) /\ new \in Seq(Nat)
      /\ ok => new # << >> /\ Newest(new) = now
      /\ ~ok => new = live
      /\ \A T \in Int : Cardinality(After(new, T)) =
            IF ok /\ now > T THEN Cardinality(After(live, T)) + 1
                             ELSE Cardinality(After(live, T))
  <2>1. CASE ok
    BY <1>0, <1>3, <2>1, RecordedIs DEF Recorded
  <2>2. CASE ~ok
    BY <1>3, <2>2 DEF Recorded
  <2>3. QED  BY <2>1, <2>2
<1> HIDE DEF old, new
<1>5. /\ Kept' = DOMAIN bs \cup {k}
      /\ buckets'[k] = [events |-> new, seenAt |-> now]
      /\ \A j \in DOMAIN bs \ {k} : buckets'[j] = bs[j]
  BY <1>2 DEF Kept
<1>6. /\ requests' \in [Requests -> [pc : {"new", "accepted", "limited", "refused", "refunded"},
                                     key : SUBSET Keys, at : Nat]]
      /\ requests'[r] = [pc |-> pc, key |-> {k}, at |-> now]
      /\ \A q \in Requests \ {r} : requests'[q] = requests[q]
      /\ Asked' = Asked \cup {r} /\ IsFiniteSet(Asked')
  BY <1>0, <1>2, AnsweredIs
<1>7. RateTypes'
  <2>1. Kept' \subseteq Keys /\ IsFiniteSet(Kept') /\ Cardinality(Kept') <= MaxBuckets
    <3>1. IsFiniteSet(Kept')
      BY <1>1, <1>5, FS_AddElement
    <3>2. Cardinality(Kept') =
             IF k \in DOMAIN bs THEN Cardinality(DOMAIN bs) ELSE Cardinality(DOMAIN bs) + 1
      BY <1>1, <1>5, FS_AddElement
    <3>3. Cardinality(Kept') <= MaxBuckets
      BY <1>0, <1>1, <3>2 DEF HasRoom
    <3>4. QED  BY <1>1, <1>5, <3>1, <3>3
  <2>2. ASSUME NEW j \in Kept'
        PROVE  /\ buckets'[j] \in [events : Seq(Nat), seenAt : 0 .. now]
               /\ Recorded(buckets'[j].events)
    <3>1. CASE j = k
      BY <1>0, <1>4, <1>5, <3>1
    <3>2. CASE j # k
      BY <1>1, <1>5, <3>2
    <3>3. QED  BY <3>1, <3>2
  <2>3. \A j \in Kept' : Recorded(buckets[j].events)'
    BY <2>2 DEF Recorded
  <2>4. ASSUME NEW q \in Asked'
        PROVE  requests'[q].at <= now /\ \E j \in Keys : requests'[q].key = {j}
    <3>1. CASE q = r
      BY <1>0, <1>6, <3>1
    <3>2. CASE q # r
      <4>1. q \in Asked /\ requests'[q] = requests[q]
        BY <1>6, <3>2 DEF Asked
      <4>2. QED  BY <1>0, <4>1 DEF RateTypes
    <3>3. QED  BY <3>1, <3>2
  <2>5. QED  BY <1>0, <1>6, <2>1, <2>2, <2>3, <2>4 DEF RateTypes
<1>8. ASSUME NEW j \in Keys  PROVE TalliedIn(buckets, j)'
  <2>1. ASSUME NEW T \in Int, T >= now - Window
        PROVE  Cardinality(Takers(j, T)') = Cardinality(After(EventsIn(buckets, j), T)')
    <3>1. Cardinality(Takers(j, T)') =
             IF ok /\ j = k /\ now > T THEN Cardinality(Takers(j, T)) + 1
                                       ELSE Cardinality(Takers(j, T))
      <4>1. CASE ok
        BY <1>0, <1>2, <4>1, AcceptedTakes
      <4>2. CASE ~ok
        BY <1>0, <1>2, <4>2, TurnedAwayTakesNone
      <4>3. QED  BY <4>1, <4>2
    <3>2. Cardinality(Takers(j, T)) = Cardinality(After(EventsIn(bs, j), T))
      BY <1>1, <2>1 DEF TalliedIn
    <3>3. CASE j = k
      <4>1. EventsIn(bs, j) = old
        BY <3>3 DEF EventsIn, old
      <4>2. After(EventsIn(buckets, j), T)' = After(new, T)
        BY <1>5, <3>3 DEF EventsIn, After, Kept
      <4>3. Cardinality(After(live, T)) = Cardinality(After(old, T))
        BY <1>3, <2>1
      <4>4. QED  BY <1>4, <3>1, <3>2, <3>3, <4>1, <4>2, <4>3
    <3>4. CASE j # k
      <4>1. EventsIn(buckets, j)' = EventsIn(bs, j)
        BY <1>5, <3>4 DEF EventsIn, Kept
      <4>2. After(EventsIn(buckets, j), T)' = After(EventsIn(bs, j), T)
        BY <4>1 DEF After
      <4>3. QED  BY <3>1, <3>2, <3>4, <4>2
    <3>5. QED  BY <3>3, <3>4
  <2>2. QED  BY <2>1 DEF TalliedIn
<1>9. WaitInv'
  <2>1. (fullUntil = Never \/ fullUntil \in 0 .. now + Window)'
    BY <1>0 DEF WaitInv
  <2>2. ASSUME now < fullUntil', NEW j \in Kept'
        PROVE  \/ Emptied(j)'
               \/ buckets'[j].events # << >> /\ Newest(buckets'[j].events) + Window >= fullUntil'
    <3>1. /\ fullUntil' = fullUntil /\ now < fullUntil /\ fullUntil \in 0 .. now + Window
          /\ j \in Keys
      BY <1>0, <1>1, <1>5, <2>2 DEF WaitInv, Never
    <3>2. ASSUME Emptied(j)  PROVE Emptied(j)'
      BY <1>0, <1>2, <3>1, <3>2, EmptiedStays
    <3>3. CASE j # k
      <4>1. j \in Kept /\ buckets'[j] = buckets[j]
        BY <1>1, <1>5, <3>3
      <4>2. QED  BY <1>0, <3>1, <3>2, <4>1 DEF WaitInv
    <3>4. CASE j = k /\ ok
      <4>1. buckets'[j].events = new
        BY <1>5, <3>4
      <4>2. QED  BY <1>0, <1>4, <3>1, <3>4, <4>1
    <3>5. CASE j = k /\ ~ok
      <4>1. k \in DOMAIN bs
        <5>1. k \notin DOMAIN bs => live = << >>
          BY DEF live
        <5>2. QED  BY <1>0, <3>5, <5>1
      <4>2. k \in Kept /\ old = buckets[k].events
        BY <1>1, <4>1 DEF old
      <4>3. Emptied(k) \/ (old # << >> /\ Newest(old) + Window >= fullUntil)
        <5>1. \/ Emptied(k)
              \/ buckets[k].events # << >> /\ Newest(buckets[k].events) + Window >= fullUntil
          BY <1>0, <3>1, <4>2 DEF WaitInv
        <5>2. QED  BY <4>2, <5>1
      <4>4. CASE Emptied(k)
        BY <3>2, <3>5, <4>4
      <4>5. CASE old # << >> /\ Newest(old) + Window >= fullUntil
        <5>1. Newest(old) \in Nat
          <6>1. old \in Seq(Nat)
            BY <1>1, <4>1 DEF old
          <6>2. Len(old) \in 1 .. Len(old)
            BY <4>5, <6>1
          <6>3. QED  BY <6>1, <6>2 DEF Newest
        <5>2. Newest(old) > now - Window
          BY <1>0, <3>1, <4>5, <5>1
        <5>3. live # << >> /\ Newest(live) = Newest(old)
          BY <1>3, <4>5, <5>2
        <5>4. buckets'[j].events = live
          BY <1>4, <1>5, <3>5
        <5>5. QED  BY <3>1, <4>5, <5>3, <5>4
      <4>6. QED  BY <4>3, <4>4, <4>5
    <3>6. QED  BY <3>3, <3>4, <3>5
  <2>3. QED  BY <2>1, <2>2 DEF WaitInv, Newest
<1>10. QED  BY <1>7, <1>8, <1>9 DEF RateInv

(* A full limiter waits for the first bucket it keeps to fall idle.        *)
LEMMA FreeAtIs ==
    ASSUME RateInv, RateLimitAssumption, NEW bs, Pruned(bs), DOMAIN bs # {},
           \A k \in DOMAIN bs : ~QuietSince(bs[k], now - Window)
    PROVE  /\ FreeAt(bs) \in 0 .. now + Window
           /\ \A k \in DOMAIN bs : /\ bs[k].events # << >>
                                   /\ Newest(bs[k].events) + Window >= FreeAt(bs)
<1> DEFINE ends == {Newest(bs[k].events) + Window : k \in DOMAIN bs}
<1>0. now \in Nat /\ Window \in Nat
  BY RateNumbers DEF RateInv, RateTypes
<1>1. ASSUME NEW k \in DOMAIN bs
      PROVE  bs[k].events # << >> /\ Newest(bs[k].events) \in 0 .. now
  <2>1. Recorded(bs[k].events) /\ bs[k].events # << >>
    BY <1>1, PrunedKeeps DEF QuietSince
  <2> DEFINE e == bs[k].events
  <2>2. e \in Seq(Nat) /\ Len(e) \in 1 .. Len(e) /\ e[Len(e)] <= now
    BY <2>1 DEF Recorded
  <2>3. e[Len(e)] \in Nat
    BY <2>2
  <2>4. QED  BY <1>0, <2>1, <2>2, <2>3 DEF Newest
<1>2. ends \in SUBSET Nat /\ ends # {} /\ \A t \in ends : t \in 0 .. now + Window
  BY <1>0, <1>1
<1>3. FreeAt(bs) = CHOOSE t \in ends : \A u \in ends : t <= u
  BY DEF FreeAt
<1>4. FreeAt(bs) \in ends /\ \A u \in ends : FreeAt(bs) <= u
  <2> HIDE DEF ends
  <2>1. \E t \in ends : \A u \in ends : t <= u
    BY <1>2, LeastOf
  <2>2. QED  BY <1>3, <2>1
<1>5. ASSUME NEW k \in DOMAIN bs  PROVE Newest(bs[k].events) + Window >= FreeAt(bs)
  <2>1. Newest(bs[k].events) + Window \in ends
    OBVIOUS
  <2> HIDE DEF ends
  <2>2. QED  BY <1>0, <1>2, <1>4, <2>1
<1>6. QED  BY <1>1, <1>2, <1>4, <1>5

(* A new key that a full limiter refuses.                                  *)
LEMMA RefuseKeeps ==
    ASSUME RateInv, RateLimitAssumption, NEW bs, Pruned(bs),
           NEW r \in Requests, NEW k \in Keys, requests[r].pc = "new",
           ~HasRoom(Cleared(bs)), buckets' = Cleared(bs),
           fullUntil' = IF now >= fullUntil THEN FreeAt(Cleared(bs)) ELSE fullUntil,
           Answered(r, "refused", k, now), now' = now,
           lastSweep' \in 0 .. now, checks' \in 0 .. SweepEvery - 1
    PROVE  RateInv'
<1> DEFINE cs == Cleared(bs)
<1>0. /\ now \in Nat /\ now <= MaxTime /\ Window \in Nat /\ MaxBuckets \in Nat \ {0}
      /\ RateTypes /\ WaitInv
  BY RateNumbers DEF RateInv, RateTypes
<1>1. /\ Pruned(cs)
      /\ now >= fullUntil => \A j \in DOMAIN cs : ~QuietSince(cs[j], now - Window)
  BY <1>0, ClearedIsPruned
<1>2. buckets' = cs /\ Kept' = DOMAIN cs /\ ~HasRoom(cs)
  BY DEF Kept
<1>3. fullUntil' = IF now >= fullUntil THEN FreeAt(cs) ELSE fullUntil
  OBVIOUS
<1> HIDE DEF cs
<1>4. /\ DOMAIN cs \subseteq Keys /\ DOMAIN cs \subseteq Kept
      /\ IsFiniteSet(DOMAIN cs) /\ Cardinality(DOMAIN cs) <= MaxBuckets
      /\ Cardinality(DOMAIN cs) \in Nat
      /\ \A j \in DOMAIN cs : /\ cs[j] \in [events : Seq(Nat), seenAt : 0 .. now]
                              /\ Recorded(cs[j].events)
                              /\ cs[j] = buckets[j]
      /\ \A j \in Keys : TalliedIn(cs, j)
  BY <1>1, PrunedKeeps
<1>5. DOMAIN cs # {}
  <2>1. Cardinality(DOMAIN cs) # 0
    BY <1>0, <1>2, <1>4 DEF HasRoom
  <2>2. QED  BY <2>1, FS_EmptySet
<1>6. /\ requests' \in [Requests -> [pc : {"new", "accepted", "limited", "refused", "refunded"},
                                     key : SUBSET Keys, at : Nat]]
      /\ requests'[r] = [pc |-> "refused", key |-> {k}, at |-> now]
      /\ \A q \in Requests \ {r} : requests'[q] = requests[q]
      /\ Asked' = Asked \cup {r} /\ IsFiniteSet(Asked')
  BY <1>0, AnsweredIs
<1>7. RateTypes'
  <2>1. \A j \in Kept' : Recorded(buckets[j].events)'
    BY <1>2, <1>4 DEF Recorded
  <2>2. ASSUME NEW q \in Asked'
        PROVE  requests'[q].at <= now /\ \E j \in Keys : requests'[q].key = {j}
    <3>1. CASE q = r
      BY <1>0, <1>6, <3>1
    <3>2. CASE q # r
      <4>1. q \in Asked /\ requests'[q] = requests[q]
        BY <1>6, <3>2 DEF Asked
      <4>2. QED  BY <1>0, <4>1 DEF RateTypes
    <3>3. QED  BY <3>1, <3>2
  <2>3. QED  BY <1>0, <1>2, <1>4, <1>6, <2>1, <2>2 DEF RateTypes
<1>8. ASSUME NEW j \in Keys  PROVE TalliedIn(buckets, j)'
  <2>1. ASSUME NEW T \in Int
        PROVE  /\ Takers(j, T)' = Takers(j, T)
               /\ After(EventsIn(buckets, j), T)' = After(EventsIn(cs, j), T)
    <3>1. Takers(j, T)' = Takers(j, T)
      BY <1>0, TurnedAwayTakesNone
    <3>2. EventsIn(buckets, j)' = EventsIn(cs, j)
      BY <1>2 DEF EventsIn
    <3>3. QED  BY <3>1, <3>2 DEF After
  <2>2. QED  BY <1>4, <2>1 DEF TalliedIn
<1>9. WaitInv'
  <2>1. CASE now >= fullUntil
    <3>1. /\ FreeAt(cs) \in 0 .. now + Window
          /\ \A j \in DOMAIN cs : /\ cs[j].events # << >>
                                  /\ Newest(cs[j].events) + Window >= FreeAt(cs)
      BY <1>1, <1>5, <2>1, FreeAtIs
    <3>2. fullUntil' = FreeAt(cs)
      BY <1>3, <2>1
    <3>3. QED  BY <1>2, <3>1, <3>2 DEF WaitInv, Newest
  <2>2. CASE ~(now >= fullUntil)
    <3>1. fullUntil' = fullUntil
      BY <1>3, <2>2
    <3>2. ASSUME now < fullUntil, NEW j \in Kept'
          PROVE  \/ Emptied(j)'
                 \/ buckets'[j].events # << >> /\ Newest(buckets'[j].events) + Window >= fullUntil
      <4>1. j \in Kept /\ j \in Keys /\ buckets'[j] = buckets[j]
        BY <1>2, <1>4
      <4>2. ASSUME Emptied(j)  PROVE Emptied(j)'
        BY <1>0, <4>1, <4>2, EmptiedStays
      <4>3. QED  BY <1>0, <3>2, <4>1, <4>2 DEF WaitInv
    <3>3. QED  BY <1>0, <3>1, <3>2 DEF WaitInv, Newest
  <2>3. QED  BY <2>1, <2>2
<1>10. QED  BY <1>7, <1>8, <1>9 DEF RateInv

LEMMA CheckKeeps ==
    ASSUME RateInv, RateLimitAssumption, NEW r \in Requests, NEW k \in Keys, Check(r, k)
    PROVE  RateInv'
<1>0. RateTypes /\ now \in Nat /\ lastSweep \in 0 .. now /\ checks \in 0 .. SweepEvery - 1
      /\ SweepEvery \in Nat \ {0}
  BY RateNumbers DEF RateInv, RateTypes
<1>1. /\ requests[r].pc = "new" /\ now' = now
      /\ lastSweep' \in 0 .. now /\ checks' \in 0 .. SweepEvery - 1
  BY <1>0 DEF Check, SweepDue
<1>2. Pruned(Swept) /\ Pruned(Cleared(Swept))
  BY <1>0, SweptIsPruned, ClearedIsPruned
<1>3. CASE /\ k \in DOMAIN Swept \/ HasRoom(Swept)
           /\ Record(r, k, Swept)
           /\ UNCHANGED fullUntil
  BY <1>1, <1>2, <1>3, RecordKeeps
<1>4. CASE HasRoom(Cleared(Swept)) /\ fullUntil' = Never /\ Record(r, k, Cleared(Swept))
  BY <1>1, <1>2, <1>4, RecordKeeps
<1>5. CASE /\ ~HasRoom(Cleared(Swept))
           /\ buckets' = Cleared(Swept)
           /\ fullUntil' = IF now >= fullUntil THEN FreeAt(Cleared(Swept)) ELSE fullUntil
           /\ Answered(r, "refused", k, now)
  BY <1>1, <1>2, <1>5, RefuseKeeps
<1>6. QED  BY <1>3, <1>4, <1>5 DEF Check

LEMMA RefundKeeps ==
    ASSUME RateInv, RateLimitAssumption, NEW r \in Requests, Refund(r)
    PROVE  RateInv'
<1>0. /\ now \in Nat /\ Window \in Nat /\ Limit \in Nat /\ RateTypes /\ WaitInv
      /\ requests \in [Requests -> [pc : {"new", "accepted", "limited", "refused", "refunded"},
                                    key : SUBSET Keys, at : Nat]]
  BY RateNumbers DEF RateInv, RateTypes
<1>1. /\ requests[r].pc = "accepted"
      /\ requests' = [requests EXCEPT ![r].pc = "refunded"]
      /\ buckets' = [k \in Kept |->
                        IF k \in requests[r].key
                        THEN [buckets[k] EXCEPT !.events = Refunded(@, requests[r].at)]
                        ELSE buckets[k]]
      /\ UNCHANGED <<now, fullUntil, lastSweep, checks>>
  BY DEF Refund
<1> DEFINE at == requests[r].at
<1>2. PICK c \in Keys : requests[r].key = {c}
  BY <1>0, <1>1 DEF RateTypes, Asked
<1>3. /\ requests' \in [Requests -> [pc : {"new", "accepted", "limited", "refused", "refunded"},
                                     key : SUBSET Keys, at : Nat]]
      /\ requests'[r].pc = "refunded" /\ requests'[r].key = {c} /\ requests'[r].at = at
      /\ \A q \in Requests \ {r} : requests'[q] = requests[q]
      /\ Asked' = Asked /\ at \in Nat
  BY <1>0, <1>1, <1>2 DEF Asked
<1> HIDE DEF at
<1>4. /\ Kept' = Kept
      /\ \A k \in Kept \ {c} : buckets'[k] = buckets[k]
      /\ c \in Kept => buckets'[c] = [buckets[c] EXCEPT !.events = Refunded(@, at)]
  BY <1>1, <1>2 DEF Kept, at
<1>5. /\ \A k \in Kept : /\ buckets[k] \in [events : Seq(Nat), seenAt : 0 .. now]
                         /\ Recorded(buckets[k].events)
      /\ Kept \subseteq Keys
  BY <1>0 DEF RateTypes
<1>6. c \in Kept => /\ buckets'[c].events = Refunded(buckets[c].events, at)
                    /\ Recorded(Refunded(buckets[c].events, at))
                    /\ buckets'[c] \in [events : Seq(Nat), seenAt : 0 .. now]
  <2>1. ASSUME c \in Kept
        PROVE  /\ buckets'[c].events = Refunded(buckets[c].events, at)
               /\ Recorded(Refunded(buckets[c].events, at))
               /\ buckets'[c] \in [events : Seq(Nat), seenAt : 0 .. now]
    <3>1. buckets[c] \in [events : Seq(Nat), seenAt : 0 .. now] /\ Recorded(buckets[c].events)
      BY <1>5, <2>1
    <3>2. Recorded(Refunded(buckets[c].events, at))
      BY <1>0, <1>3, <3>1, RefundedIs
    <3>3. Refunded(buckets[c].events, at) \in Seq(Nat)
      BY <3>2 DEF Recorded
    <3>4. QED  BY <1>4, <2>1, <3>1, <3>2, <3>3
  <2>2. QED  BY <2>1
<1>7. RateTypes'
  <2>1. ASSUME NEW k \in Kept'  PROVE Recorded(buckets[k].events)'
    <3>1. Recorded(buckets'[k].events)
      BY <1>4, <1>5, <1>6
    <3>2. QED  BY <1>1, <3>1 DEF Recorded
  <2>2. \A k \in Kept' : buckets'[k] \in [events : Seq(Nat), seenAt : 0 .. now]
    BY <1>4, <1>5, <1>6
  <2>3. ASSUME NEW q \in Asked'
        PROVE  requests'[q].at <= now /\ \E j \in Keys : requests'[q].key = {j}
    <3>1. q \in Asked /\ requests'[q].at = requests[q].at /\ requests'[q].key = requests[q].key
      BY <1>2, <1>3 DEF Asked, at
    <3>2. QED  BY <1>0, <3>1 DEF RateTypes
  <2>4. IsFiniteSet(Asked') /\ now <= MaxTime
    BY <1>0, <1>3 DEF RateTypes
  <2>5. /\ lastSweep' \in 0 .. now /\ checks' \in 0 .. SweepEvery - 1
        /\ Kept' \subseteq Keys /\ IsFiniteSet(Kept') /\ Cardinality(Kept') <= MaxBuckets
    BY <1>0, <1>1, <1>4 DEF RateTypes
  <2>6. now' = now /\ now \in Nat
    BY <1>0, <1>1
  <2>7. QED  BY <1>3, <2>1, <2>2, <2>3, <2>4, <2>5, <2>6 DEF RateTypes
<1>8. ASSUME NEW j \in Keys  PROVE TalliedIn(buckets, j)'
  <2>0. \A T \in Int : T >= now - Window =>
           Cardinality(Takers(j, T)) = Cardinality(After(EventsIn(buckets, j), T))
    BY DEF RateInv, TalliedIn
  <2>1. CASE j # c
    <3>1. ASSUME NEW T \in Int  PROVE Takers(j, T)' = Takers(j, T)
      BY <1>2, <1>3, <2>1 DEF Takers
    <3>2. EventsIn(buckets, j)' = EventsIn(buckets, j)
      BY <1>4, <2>1 DEF EventsIn, Kept
    <3>3. ASSUME NEW T \in Int
          PROVE  After(EventsIn(buckets, j), T)' = After(EventsIn(buckets, j), T)
      BY <3>2 DEF After
    <3>4. QED  BY <1>1, <2>0, <3>1, <3>3 DEF TalliedIn
  <2>2. CASE j = c
    <3>1. ASSUME NEW T \in Int
          PROVE  /\ Takers(j, T)' = Takers(j, T) \ {r}
                 /\ r \in Takers(j, T) <=> at > T
                 /\ IsFiniteSet(Takers(j, T)) /\ Cardinality(Takers(j, T)) \in Nat
                 /\ Cardinality(Takers(j, T)') =
                       IF at > T THEN Cardinality(Takers(j, T)) - 1
                                 ELSE Cardinality(Takers(j, T))
      <4>1. Takers(j, T)' = Takers(j, T) \ {r}
        BY <1>2, <1>3 DEF Takers
      <4>2. r \in Takers(j, T) <=> at > T
        BY <1>1, <1>2, <2>2 DEF Takers, at
      <4>3. IsFiniteSet(Takers(j, T)) /\ Cardinality(Takers(j, T)) \in Nat
        BY <1>0, TakersAre
      <4>4. QED  BY <4>1, <4>2, <4>3, FS_RemoveElement
    <3> DEFINE e == EventsIn(buckets, j)
               held == \E i \in 1 .. Len(e) : e[i] = at
    <3>2. Recorded(e) /\ e \in Seq(Nat)
      BY <1>0, <1>5, NoneAfter DEF EventsIn, Kept, Recorded
    <3>3. EventsIn(buckets, j)' = IF held THEN Refunded(e, at) ELSE e
      <4>1. CASE c \in Kept
        <5>1. e = buckets[c].events /\ EventsIn(buckets, j)' = Refunded(e, at)
          BY <1>4, <1>6, <2>2, <4>1 DEF EventsIn, Kept
        <5> HIDE DEF e
        <5>2. CASE held
          BY <5>1, <5>2
        <5>3. CASE ~held
          <6>1. Refunded(e, at) = e
            <7>1. \A i \in 1 .. Len(e) : e[i] # at
              BY <5>3
            <7>2. QED  BY <1>0, <1>3, <3>2, <7>1, RefundedIs
          <6>2. QED  BY <5>1, <5>3, <6>1
        <5>4. QED  BY <5>2, <5>3
      <4>2. CASE c \notin Kept
        <5>1. e = << >> /\ EventsIn(buckets, j)' = << >>
          BY <1>4, <2>2, <4>2 DEF EventsIn, Kept
        <5>2. Len(e) = 0
          BY <5>1
        <5>3. ~held
          BY <5>2
        <5>4. QED  BY <5>1, <5>3
      <4>3. QED  BY <4>1, <4>2
    <3> HIDE DEF e
    <3>4. at > now - Window => held
      <4>1. SUFFICES ASSUME at > now - Window, ~held  PROVE FALSE
        OBVIOUS
      <4>2. at \in Nat /\ at - 1 \in Int /\ at - 1 >= now - Window /\ at >= now - Window
        BY <1>0, <1>3, <4>1
      <4>3. After(e, at - 1) = After(e, at)
        <5>1. ASSUME NEW i \in 1 .. Len(e)  PROVE e[i] > at - 1 <=> e[i] > at
          <6>1. e[i] \in Nat /\ e[i] # at
            BY <3>2, <4>1, <5>1
          <6>2. QED  BY <4>2, <6>1
        <5>2. QED  BY <5>1 DEF After
      <4>4. /\ Cardinality(Takers(j, at - 1)) = Cardinality(After(e, at - 1))
            /\ Cardinality(Takers(j, at)) = Cardinality(After(e, at))
        BY <2>0, <4>2 DEF e
      <4>5. /\ r \in Takers(j, at - 1) /\ r \notin Takers(j, at)
            /\ IsFiniteSet(Takers(j, at - 1))
        BY <3>1, <4>2
      <4>6. Takers(j, at) \in SUBSET Takers(j, at - 1)
        <5>1. \A q \in Asked : requests[q].at \in Nat
          BY <1>0 DEF Asked
        <5>2. QED  BY <1>0, <4>2 DEF Takers
      <4>7. Takers(j, at) = Takers(j, at - 1)
        BY <4>3, <4>4, <4>5, <4>6, FS_Subset
      <4>8. QED  BY <4>5, <4>7
    <3>5. ASSUME NEW T \in Int, T >= now - Window
          PROVE  Cardinality(Takers(j, T)') = Cardinality(After(EventsIn(buckets, j)', T))
      <4>1. Cardinality(Takers(j, T)) = Cardinality(After(e, T))
        BY <2>0, <3>5 DEF e
      <4>2. CASE held
        <5>1. Cardinality(After(Refunded(e, at), T)) =
                 IF at > T THEN Cardinality(After(e, T)) - 1 ELSE Cardinality(After(e, T))
          BY <1>0, <1>3, <3>2, <4>2, RefundedIs
        <5>2. QED  BY <3>1, <3>3, <4>1, <4>2, <5>1
      <4>3. CASE ~held
        <5>1. ~(at > T)
          BY <1>0, <1>3, <3>4, <3>5, <4>3
        <5>2. QED  BY <3>1, <3>3, <4>1, <4>3, <5>1
      <4>4. QED  BY <4>2, <4>3
    <3>6. ASSUME NEW T \in Int
          PROVE  After(EventsIn(buckets, j), T)' = After(EventsIn(buckets, j)', T)
      BY DEF After
    <3>7. QED  BY <1>1, <3>5, <3>6 DEF TalliedIn
  <2>3. QED  BY <2>1, <2>2
<1>9. WaitInv'
  <2>1. ASSUME now < fullUntil, NEW j \in Kept
        PROVE  \/ Emptied(j)'
               \/ buckets'[j].events # << >> /\ Newest(buckets'[j].events) + Window >= fullUntil
    <3>1. CASE j = c
      <4>1. Emptied(j)'
        BY <1>3, <3>1 DEF Emptied
      <4>2. QED  BY <4>1
    <3>2. CASE j # c
      <4>1. buckets'[j] = buckets[j]
        BY <1>4, <3>2
      <4>2. ASSUME Emptied(j)  PROVE Emptied(j)'
        <5>1. PICK q \in Requests : requests[q].pc = "refunded" /\ j \in requests[q].key
          BY <4>2 DEF Emptied
        <5>2. requests'[q] = requests[q]
          BY <1>1, <1>3, <5>1
        <5>3. QED  BY <5>1, <5>2 DEF Emptied
      <4>3. QED  BY <1>0, <2>1, <4>1, <4>2 DEF WaitInv
    <3>3. QED  BY <3>1, <3>2
  <2>2. QED  BY <1>0, <1>1, <1>4, <2>1 DEF WaitInv, Newest
<1>10. QED  BY <1>7, <1>8, <1>9 DEF RateInv

LEMMA SweepKeeps ==
    ASSUME RateInv, RateLimitAssumption, Sweep
    PROVE  RateInv'
<1> DEFINE bs == Without(buckets, {k \in Kept : IdleBucket(buckets[k])})
<1>0. RateTypes /\ WaitInv /\ now \in Nat /\ SweepEvery \in Nat \ {0}
  BY RateNumbers DEF RateInv, RateTypes
<1>1. /\ buckets' = bs /\ Kept' = DOMAIN bs /\ lastSweep' = now /\ checks' = 0
      /\ UNCHANGED <<now, fullUntil, requests>>
  BY DEF Sweep, Kept
<1>2. Pruned(bs)
  BY <1>0, SweptIsPruned
<1> HIDE DEF bs
<1>3. /\ DOMAIN bs \subseteq Keys /\ DOMAIN bs \subseteq Kept
      /\ IsFiniteSet(DOMAIN bs) /\ Cardinality(DOMAIN bs) <= MaxBuckets
      /\ \A j \in DOMAIN bs : /\ bs[j] \in [events : Seq(Nat), seenAt : 0 .. now]
                              /\ Recorded(bs[j].events)
                              /\ bs[j] = buckets[j]
      /\ \A j \in Keys : TalliedIn(bs, j)
  BY <1>2, PrunedKeeps
<1>4. RateTypes'
  <2>1. \A j \in Kept' : Recorded(buckets[j].events)'
    BY <1>1, <1>3 DEF Recorded
  <2>2. Asked' = Asked
    BY <1>1 DEF Asked
  <2>3. QED  BY <1>0, <1>1, <1>3, <2>1, <2>2 DEF RateTypes
<1>5. ASSUME NEW j \in Keys  PROVE TalliedIn(buckets, j)'
  <2>1. ASSUME NEW T \in Int
        PROVE  /\ Takers(j, T)' = Takers(j, T)
               /\ After(EventsIn(buckets, j), T)' = After(EventsIn(bs, j), T)
    BY <1>1 DEF Takers, EventsIn, After
  <2>2. QED  BY <1>1, <1>3, <2>1 DEF TalliedIn
<1>6. WaitInv'
  <2>1. \A j \in Kept' : j \in Kept /\ buckets'[j] = buckets[j]
    BY <1>1, <1>3
  <2>2. \A j \in Kept' : Emptied(j)' = Emptied(j)
    BY <1>1 DEF Emptied
  <2>3. QED  BY <1>0, <1>1, <2>1, <2>2 DEF WaitInv, Newest
<1>7. QED  BY <1>4, <1>5, <1>6 DEF RateInv

LEMMA AdvanceKeeps ==
    ASSUME RateInv, RateLimitAssumption, Advance
    PROVE  RateInv'
<1>0. RateTypes /\ WaitInv /\ now \in Nat /\ Window \in Nat /\ MaxTime \in Nat
  BY RateNumbers DEF RateInv, RateTypes
<1>1. /\ now < MaxTime /\ now' = now + 1 /\ Kept' = Kept
      /\ UNCHANGED <<buckets, fullUntil, lastSweep, checks, requests>>
  BY DEF Advance, Kept
<1>2. RateTypes'
  <2>1. ASSUME NEW j \in Kept
        PROVE  /\ buckets[j] \in [events : Seq(Nat), seenAt : 0 .. now + 1]
               /\ Recorded(buckets[j].events)'
    <3>1. buckets[j] \in [events : Seq(Nat), seenAt : 0 .. now] /\ Recorded(buckets[j].events)
      BY <1>0 DEF RateTypes
    <3>2. \A i \in 1 .. Len(buckets[j].events) : buckets[j].events[i] <= now + 1
      <4>1. ASSUME NEW i \in 1 .. Len(buckets[j].events)  PROVE buckets[j].events[i] <= now + 1
        <5>1. buckets[j].events[i] <= now /\ buckets[j].events[i] \in Nat
          BY <3>1 DEF Recorded
        <5>2. QED  BY <1>0, <5>1
      <4>2. QED  BY <4>1
    <3>3. Recorded(buckets[j].events)'
      BY <1>1, <3>1, <3>2 DEF Recorded, InOrder
    <3>4. QED  BY <1>0, <3>1, <3>3
  <2>2. Asked' = Asked
    BY <1>1 DEF Asked
  <2>3. \A q \in Asked : requests[q].at <= now /\ requests[q].at \in Nat
    BY <1>0 DEF RateTypes, Asked
  <2>4. /\ now' \in Nat /\ now' <= MaxTime
        /\ lastSweep' \in 0 .. now' /\ checks' \in 0 .. SweepEvery - 1
    BY <1>0, <1>1 DEF RateTypes
  <2>5. \A q \in Asked' : requests'[q].at <= now' /\ \E k \in Keys : requests'[q].key = {k}
    BY <1>0, <1>1, <2>2, <2>3 DEF RateTypes
  <2>6. \A j \in Kept' : /\ buckets'[j] \in [events : Seq(Nat), seenAt : 0 .. now']
                         /\ Recorded(buckets[j].events)'
    BY <1>1, <2>1
  <2>7. QED  BY <1>0, <1>1, <2>2, <2>4, <2>5, <2>6 DEF RateTypes
<1>3. ASSUME NEW j \in Keys  PROVE TalliedIn(buckets, j)'
  <2>1. ASSUME NEW T \in Int
        PROVE  /\ Takers(j, T)' = Takers(j, T)
               /\ After(EventsIn(buckets, j), T)' = After(EventsIn(buckets, j), T)
    BY <1>1 DEF Takers, EventsIn, After
  <2>2. TalliedIn(buckets, j)
    BY DEF RateInv
  <2>3. ASSUME NEW T \in Int, T >= now' - Window
        PROVE  Cardinality(Takers(j, T)) = Cardinality(After(EventsIn(buckets, j), T))
    <3>1. T >= now - Window
      BY <1>0, <1>1, <2>3
    <3>2. QED  BY <2>2, <3>1 DEF TalliedIn
  <2>4. QED  BY <2>1, <2>3 DEF TalliedIn
<1>4. WaitInv'
  <2>1. \A j \in Kept : Emptied(j)' = Emptied(j)
    BY <1>1 DEF Emptied
  <2>2. (fullUntil = Never \/ fullUntil \in 0 .. now + Window)'
    BY <1>0, <1>1 DEF WaitInv
  <2>3. now' < fullUntil' => now < fullUntil
    BY <1>0, <1>1 DEF WaitInv, Never
  <2>4. QED  BY <1>0, <1>1, <2>1, <2>2, <2>3 DEF WaitInv, Newest
<1>5. QED  BY <1>2, <1>3, <1>4 DEF RateInv

LEMMA RateInvInit == RateLimitAssumption /\ Init => RateInv
<1> SUFFICES ASSUME RateLimitAssumption, Init  PROVE RateInv
  OBVIOUS
<1>1. /\ now = 0 /\ buckets = [k \in {} |-> {}] /\ fullUntil = Never
      /\ lastSweep = 0 /\ checks = 0 /\ Kept = {}
      /\ requests = [r \in Requests |-> [pc |-> "new", key |-> {}, at |-> 0]]
  BY DEF Init, Kept
<1>2. MaxBuckets \in Nat /\ SweepEvery \in Nat \ {0} /\ MaxTime \in Nat /\ Window \in Nat
  BY RateNumbers
<1>3. Asked = {} /\ IsFiniteSet({}) /\ Cardinality({}) = 0
  BY <1>1, FS_EmptySet DEF Asked
<1>4. RateTypes
  BY <1>1, <1>2, <1>3 DEF RateTypes
<1>5. ASSUME NEW k \in Keys, NEW T \in Int
      PROVE  Takers(k, T) = {} /\ After(EventsIn(buckets, k), T) = {}
  BY <1>1, NoneAfter DEF Takers, EventsIn, Kept
<1>6. \A k \in Keys : TalliedIn(buckets, k)
  BY <1>5 DEF TalliedIn
<1>7. WaitInv
  BY <1>1, <1>2 DEF WaitInv, Never
<1>8. QED  BY <1>4, <1>6, <1>7 DEF RateInv

LEMMA RateInvStep == RateLimitAssumption /\ RateInv /\ [Next]_vars => RateInv'
<1> SUFFICES ASSUME RateLimitAssumption, RateInv, [Next]_vars  PROVE RateInv'
  OBVIOUS
<1>1. CASE \E r \in Requests : Refund(r) \/ \E k \in Keys : Check(r, k)
  BY <1>1, RefundKeeps, CheckKeeps
<1>2. CASE Sweep
  BY <1>2, SweepKeeps
<1>3. CASE Advance
  BY <1>3, AdvanceKeeps
<1>4. CASE UNCHANGED vars
  BY <1>4 DEF vars, RateInv, RateTypes, WaitInv, TalliedIn, EventsIn, Takers, After, Asked,
              Recorded, Emptied, InOrder, Newest, Kept
<1>5. QED  BY <1>1, <1>2, <1>3, <1>4 DEF Next

LEMMA RateInvHolds ==
    ASSUME RateLimitAssumption
    PROVE  Spec => []RateInv
<1>1. Init => RateInv
  BY RateInvInit
<1>2. RateInv /\ [Next]_vars => RateInv'
  BY RateInvStep
<1>3. QED  BY <1>1, <1>2, PTL DEF Spec

(* The types of the variables; the map never grows past its cap            *)
(* (memory.ts:182-191).                                                    *)
THEOREM RateLimitTypes ==
    ASSUME RateLimitAssumption
    PROVE  Spec => []TypeOK
<1>1. ASSUME RateInv  PROVE TypeOK
  <2>1. /\ RateTypes /\ WaitInv /\ now \in Nat /\ Window \in Nat /\ MaxTime \in Nat
        /\ now <= MaxTime
    BY <1>1, RateNumbers DEF RateInv, RateTypes
  <2>2. now \in 0 .. MaxTime /\ (fullUntil = Never \/ fullUntil \in 0 .. (MaxTime + Window))
    BY <2>1 DEF WaitInv
  <2>3. QED  BY <2>1, <2>2 DEF TypeOK, RateTypes, Recorded
<1>2. QED  BY <1>1, RateInvHolds, PTL

(* A bucket counts exactly the requests it accepted inside the window and  *)
(* did not refund: no sweep, clean-up or refund of another request resets  *)
(* or frees a slot (memory.ts:184-190, 329-334, 362-365).                  *)
THEOREM RateCountsExactly ==
    ASSUME RateLimitAssumption
    PROVE  Spec => []CountsExactly
<1>1. ASSUME RateInv  PROVE CountsExactly
  <2>0. now \in Nat /\ Window \in Nat /\ Limit \in Nat /\ RateTypes /\ now - Window \in Int
    BY <1>1, RateNumbers DEF RateInv, RateTypes
  <2>1. ASSUME NEW k \in Keys
        PROVE  Cardinality(Holders(k)) = IF k \in Kept THEN Len(Live(buckets[k].events)) ELSE 0
    <3>1. Holders(k) = Takers(k, now - Window)
      BY DEF Holders, Takers
    <3>2. Cardinality(Takers(k, now - Window)) =
             Cardinality(After(EventsIn(buckets, k), now - Window))
      BY <1>1, <2>0 DEF RateInv, TalliedIn
    <3>3. CASE k \in Kept
      <4>1. Recorded(buckets[k].events)
        BY <2>0, <3>3 DEF RateTypes
      <4>2. Cardinality(After(buckets[k].events, now - Window)) = Len(Live(buckets[k].events))
        BY <2>0, <4>1, LiveIs
      <4>3. QED  BY <3>1, <3>2, <3>3, <4>2 DEF EventsIn, Kept
    <3>4. CASE k \notin Kept
      <4>1. After(EventsIn(buckets, k), now - Window) = {}
        BY <2>0, <3>4, NoneAfter DEF EventsIn, Kept
      <4>2. QED  BY <3>1, <3>2, <3>4, <4>1, FS_EmptySet
    <3>5. QED  BY <3>3, <3>4
  <2>2. QED  BY <2>1 DEF CountsExactly
<1>2. QED  BY <1>1, RateInvHolds, PTL

(* A full limiter refuses a key only while no bucket fell idle by itself   *)
(* (memory.ts:382-387).                                                    *)
THEOREM RateRefusesWhenFull ==
    ASSUME RateLimitAssumption
    PROVE  Spec => []RefusesWhenFull
<1>1. ASSUME RateInv  PROVE RefusesWhenFull
  <2>0. now \in Nat /\ Window \in Nat /\ RateTypes /\ WaitInv
    BY <1>1, RateNumbers DEF RateInv, RateTypes
  <2>1. ASSUME now < fullUntil, NEW k \in Droppable(buckets)  PROVE Emptied(k)
    <3>1. k \in Kept /\ QuietSince(buckets[k], now - Window) /\ Recorded(buckets[k].events)
      BY <2>0 DEF Droppable, Kept, RateTypes
    <3> DEFINE e == buckets[k].events
    <3>2. CASE e # << >> /\ Newest(e) + Window >= fullUntil
      <4>1. Newest(e) <= now - Window
        BY <3>1, <3>2 DEF QuietSince
      <4>2. Newest(e) \in Nat /\ fullUntil \in Nat
        <5>1. e \in Seq(Nat) /\ Len(e) \in 1 .. Len(e)
          BY <3>1, <3>2 DEF Recorded
        <5>2. fullUntil \in Nat
          BY <2>0, <2>1 DEF WaitInv, Never
        <5>3. QED  BY <5>1, <5>2 DEF Newest
      <4>3. QED  BY <2>0, <2>1, <3>2, <4>1, <4>2
    <3>3. QED  BY <2>0, <2>1, <3>1, <3>2 DEF WaitInv
  <2>2. QED  BY <2>1 DEF RefusesWhenFull, Emptied
<1>2. QED  BY <1>1, RateInvHolds, PTL
=============================================================================
