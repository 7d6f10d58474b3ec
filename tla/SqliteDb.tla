------------------------------ MODULE SqliteDb ------------------------------
(***************************************************************************)
(* One SQLite connection and the gate that lets one transaction at a time  *)
(* through: statements of the root handle, transactions with the handle    *)
(* their callback is given, and the close.                                 *)
(*                                                                         *)
(* The driver is synchronous: a statement takes effect in the step that    *)
(* sends it.  Each caller makes one call.                                  *)
(***************************************************************************)
EXTENDS Integers

CONSTANTS Callers,    \* each makes one call
          NoOne

ASSUME SqliteDbAssumption == NoOne \notin Callers

VARIABLES
    holder,     \* whose transaction holds the gate
    open,       \* whose transaction the engine has open
    pending,    \* writes of the open transaction
    durable,    \* writes that are committed
    driver,     \* how often the driver was closed
    closing,    \* the call whose close is in flight
    closed,     \* the handle knows that it is closed
    op          \* the call of each caller

sqliteVars == <<holder, open, pending, durable, driver, closing, closed, op>>
gate == <<holder, open, pending, durable>>
closes == <<driver, closing, closed>>

NewCall == [does |-> "nothing", pc |-> "new", waitsFor |-> NoOne, wrote |-> FALSE,
            loose |-> "no"]

SqliteInit ==
    /\ holder = NoOne /\ open = NoOne /\ pending = {} /\ durable = {}
    /\ driver = 0 /\ closing = NoOne /\ closed = FALSE
    /\ op = [c \in Callers |-> NewCall]

Reaches(c, pc) == op' = [op EXCEPT ![c].pc = pc]

\* A statement is prepared first, and both halves pass the gate.
Asks(c, does) ==
    /\ op[c] = NewCall
    /\ op' = [op EXCEPT ![c].does = does, ![c].pc = "checks"]
    /\ UNCHANGED <<gate, closes>>

Close(c) ==
    /\ op[c] = NewCall
    /\ IF closed THEN op' = [op EXCEPT ![c].does = "close", ![c].pc = "ok"]
                      /\ UNCHANGED closing
       ELSE IF closing # NoOne
       THEN op' = [op EXCEPT ![c].does = "close", ![c].pc = "joins"]
            /\ UNCHANGED closing
       ELSE op' = [op EXCEPT ![c].does = "close", ![c].pc = "checks"]
            /\ closing' = c
    /\ UNCHANGED <<gate, driver, closed>>

\* A woken waiter looks again: another may have taken the connection.
Free == holder = NoOne

Waits(c) ==
    /\ op[c].pc = "checks" /\ ~Free
    /\ op' = [op EXCEPT ![c].pc = "waits", ![c].waitsFor = holder]
    /\ UNCHANGED <<gate, closes>>

Wakes(c) ==
    /\ op[c].pc = "waits" /\ holder # op[c].waitsFor
    /\ op' = [op EXCEPT ![c].pc = "checks", ![c].waitsFor = NoOne]
    /\ UNCHANGED <<gate, closes>>

\* A close that ends, one way or the other, ends every call that shares it.
CloseEnds(c, how) ==
    op' = [d \in Callers |->
                IF d = c \/ op[d].pc = "joins" THEN [op[d] EXCEPT !.pc = how]
                                                 ELSE op[d]]

TimesOut(c) ==
    /\ op[c].pc = "waits"
    /\ IF op[c].does = "close" THEN CloseEnds(c, "error") /\ closing' = NoOne
                                 ELSE Reaches(c, "error") /\ UNCHANGED closing
    /\ UNCHANGED <<gate, driver, closed>>

Passes(c, does) == op[c].pc = "checks" /\ Free /\ op[c].does = does

Executes(write) ==
    IF open = NoOne THEN durable' = durable \cup {write} /\ UNCHANGED pending
                    ELSE pending' = pending \cup {write} /\ UNCHANGED durable

Prepare(c) ==
    /\ Passes(c, "prepare")
    /\ \/ /\ driver = 0
          /\ op' = [op EXCEPT ![c].does = "run"]
       \/ Reaches(c, "error")
    /\ UNCHANGED <<gate, closes>>

Run(c) ==
    /\ Passes(c, "run")
    /\ \/ /\ driver = 0
          /\ Executes(<<c, "own">>)
          /\ op' = [op EXCEPT ![c].pc = "ok", ![c].wrote = TRUE]
       \/ Reaches(c, "error") /\ UNCHANGED <<pending, durable>>
    /\ UNCHANGED <<holder, open, closes>>

CloseDriver(c) ==
    /\ Passes(c, "close")
    /\ \/ driver' = driver + 1 /\ Reaches(c, "closes")
       \/ Reaches(c, "fails") /\ UNCHANGED driver
    /\ UNCHANGED <<gate, closing, closed>>

CloseSettles(c) ==
    /\ op[c].pc \in {"closes", "fails"}
    /\ closed' = (op[c].pc = "closes")
    /\ closing' = NoOne
    /\ CloseEnds(c, IF op[c].pc = "closes" THEN "ok" ELSE "error")
    /\ UNCHANGED <<gate, driver>>

\* The gate is claimed before BEGIN is sent, in the same step.
BeginTransaction(c) ==
    /\ Passes(c, "transaction")
    /\ holder' = c
    /\ \/ /\ driver = 0 /\ open = NoOne
          /\ open' = c /\ Reaches(c, "inside")
       \/ Reaches(c, "refused") /\ UNCHANGED open
    /\ UNCHANGED <<pending, durable, closes>>

ScopedWrite(c) ==
    /\ op[c].pc = "inside" /\ ~op[c].wrote /\ driver = 0
    /\ Executes(<<c, "own">>)
    /\ op' = [op EXCEPT ![c].wrote = TRUE]
    /\ UNCHANGED <<holder, open, closes>>

\* The callback uses the root handle: it waits for its own transaction, and the
\* callback fails with the wait.
WaitsForItself(c) ==
    /\ op[c].pc = "inside"
    /\ Reaches(c, "inner")
    /\ UNCHANGED <<gate, closes>>

CallbackThrows(c) ==
    /\ op[c].pc \in {"inside", "inner"}
    /\ Reaches(c, "throws")
    /\ UNCHANGED <<gate, closes>>

Usable_Kept(c) == op[c].pc \notin {"new", "checks", "waits", "refused"}

\* The handle of the callback works until the transaction has ended.
Usable(c) == op[c].pc \in {"inside", "inner", "throws", "undone", "committed"}

\* A write the callback does not wait for, or makes with a handle it kept.
PrepareLoose(c) ==
    /\ op[c].does = "transaction" /\ op[c].loose = "no" /\ Usable(c)
    /\ op' = [op EXCEPT ![c].loose = "prepared"]
    /\ UNCHANGED <<gate, closes>>

RunLoose(c) ==
    /\ op[c].loose = "prepared"
    /\ op' = [op EXCEPT ![c].loose = "ran"]
    /\ IF Usable(c) /\ driver = 0 THEN Executes(<<c, "loose">>)
                                  ELSE UNCHANGED <<pending, durable>>
    /\ UNCHANGED <<holder, open, closes>>

\* The callback returned; a COMMIT that fails leaves the transaction open.
Commit(c) ==
    /\ op[c].pc = "inside"
    /\ \/ /\ durable' = durable \cup pending /\ pending' = {} /\ open' = NoOne
          /\ Reaches(c, "committed")
       \/ Reaches(c, "throws") /\ UNCHANGED <<pending, durable, open>>
    /\ UNCHANGED <<holder, closes>>

RollBack(c) ==
    /\ op[c].pc = "throws"
    /\ pending' = {} /\ open' = NoOne
    /\ Reaches(c, "undone")
    /\ UNCHANGED <<holder, durable, closes>>

GiveBack(c) ==
    /\ op[c].pc \in {"committed", "undone", "refused"}
    /\ holder' = NoOne
    /\ Reaches(c, IF op[c].pc = "committed" THEN "ok" ELSE "error")
    /\ UNCHANGED <<open, pending, durable, closes>>

SqliteNext == \E c \in Callers :
    \/ Asks(c, "prepare") \/ Asks(c, "transaction") \/ Close(c)
    \/ Waits(c) \/ Wakes(c) \/ TimesOut(c)
    \/ Prepare(c) \/ Run(c) \/ CloseDriver(c) \/ CloseSettles(c)
    \/ BeginTransaction(c) \/ ScopedWrite(c) \/ WaitsForItself(c) \/ CallbackThrows(c)
    \/ PrepareLoose(c) \/ RunLoose(c) \/ Commit(c) \/ RollBack(c) \/ GiveBack(c)

SqliteSpec == SqliteInit /\ [][SqliteNext]_sqliteVars

-----------------------------------------------------------------------------

SqliteTypeOK ==
    /\ {holder, open, closing} \subseteq Callers \cup {NoOne}
    /\ pending \cup durable \subseteq Callers \X {"own", "loose"}
    /\ driver \in Nat /\ closed \in BOOLEAN
    /\ op \in [Callers -> [
          does : {"nothing", "prepare", "run", "transaction", "close"},
          pc : {"new", "checks", "waits", "joins", "closes", "fails", "inside", "inner",
                "throws", "committed", "undone", "refused", "ok", "error"},
          waitsFor : Callers \cup {NoOne}, wrote : BOOLEAN, loose : {"no", "prepared", "ran"}]]

(* No write lands in the transaction of another caller, not even one that  *)
(* nobody waits for or that a kept handle makes: only the holder of the    *)
(* gate has a transaction open (sqlite.ts:365-369, 155-162).               *)
NoneMixed ==
    /\ open # NoOne => holder = open
    /\ \A write \in pending : write[1] = open

(* What a caller is told is what the database holds: an awaited write told *)
(* ok, and those of a committed transaction, are there for good; a call  *)
(* that fails, or a transaction rolled back, left none.                    *)
ToldIsHeld ==
    \A c \in Callers :
        /\ op[c].pc = "ok" /\ op[c].wrote => <<c, "own">> \in durable
        /\ op[c].pc = "error" => <<c, "own">> \notin pending \cup durable

(* The connection is never closed under an open transaction, nor twice,    *)
(* however calls of close meet (sqlite.ts:532-553).                        *)
ClosedOnce == driver <= 1 /\ (driver = 1 => open = NoOne)

(* No write lands in the transaction of another, what callers are told is  *)
(* what is held, and the connection is closed once, between transactions.  *)
SqliteSafe == SqliteTypeOK /\ NoneMixed /\ ToldIsHeld /\ ClosedOnce
=============================================================================
