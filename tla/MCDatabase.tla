------------------------------ MODULE MCDatabase ------------------------------
(***************************************************************************)
(* The server's database and its locks, in one run: a behaviour drains the *)
(* rows of a repeating job (the variables of ServerOutbox), or batches of  *)
(* two rows that do not repeat (the variables that begin with `batch'), or *)
(* uses one SQLite connection, or migrates a database, or takes the lock   *)
(* of a directory.                                                         *)
(***************************************************************************)
EXTENDS MCServerOutbox, SqliteDb, Migrations, FileLock

VARIABLES part, batchRow, batchPc, batchEvents, batchFirst, batchElapsed, batchBusy,
          batchSlowest, batchOthers, batchTries, batchReports

(* Two workers and two rows in a batch, whose steps are prompt, while the  *)
(* app writes rows of its own.  Nobody is told of an attempt that failed:  *)
(* that is for the repeating job.                                          *)
Batch == INSTANCE ServerOutbox WITH
    MaxRows <- 2, InitialRows <- 1, BatchSize <- 2, Lease <- 2, Slowest <- 1,
    Repeats <- FALSE, RepeatAfterGiveUp <- FALSE, ReplaceAfter <- 0,
    Tracks <- FALSE, Schedules <- TRUE, Crashes <- FALSE, Prompt <- AllPrompt, Horizon <- 4,
    row <- batchRow, pc <- batchPc, batch <- batchEvents, first <- batchFirst,
    elapsed <- batchElapsed, busy <- batchBusy, slowest <- batchSlowest,
    others <- batchOthers, tries <- batchTries, reports <- batchReports

ASSUME Batch!OutboxAssumption

(* A row is with the publisher of one worker at a time, while every step   *)
(* is prompt, and what a drain keeps stays well formed.                    *)
BatchSafe == part = "batch" => Batch!TypeOK /\ Batch!OneDelivery

batches == <<batchRow, batchPc, batchEvents, batchFirst, batchElapsed, batchBusy,
             batchSlowest, batchOthers, batchTries, batchReports>>

DatabaseInit ==
    /\ part \in {"chain", "batch", "sqlite", "migrations", "file lock"}
    /\ Init /\ Batch!Init /\ SqliteInit /\ MigrationsInit /\ LockInit
    /\ part # "migrations" => folder = [n \in Names |-> None]

DatabaseNext ==
    \/ /\ part = "chain" /\ Next
       /\ UNCHANGED <<part, batches, sqliteVars, migrationsVars, lockVars>>
    \/ /\ part = "batch" /\ Batch!Next
       /\ UNCHANGED <<part, vars, sqliteVars, migrationsVars, lockVars>>
    \/ /\ part = "sqlite" /\ SqliteNext
       /\ UNCHANGED <<part, vars, batches, migrationsVars, lockVars>>
    \/ /\ part = "migrations" /\ MigrationsNext
       /\ UNCHANGED <<part, vars, batches, sqliteVars, lockVars>>
    \/ /\ part = "file lock" /\ LockNext
       /\ UNCHANGED <<part, vars, batches, sqliteVars, migrationsVars>>

DatabaseSpec ==
    /\ DatabaseInit
    /\ [][DatabaseNext]_<<part, vars, batches, sqliteVars, migrationsVars, lockVars>>

(* A state of the part that was picked.  The workers of the outbox, of     *)
(* which there are two, are told apart by what they do, so that the set of *)
(* what they do says what each does.                                       *)
DatabaseView ==
    IF part = "chain" THEN <<part, ChainView, {}, {}>>
    ELSE IF part = "batch"
    THEN <<part, batchRow,
           {<<batchPc[w], batchEvents[w], batchFirst[w], batchElapsed[w], batchBusy[w],
              batchSlowest[w], batchOthers[w]>> : w \in Workers},
           <<batchTries, batchReports>>>>
    ELSE <<part, sqliteVars, migrationsVars, lockVars>>
=============================================================================
