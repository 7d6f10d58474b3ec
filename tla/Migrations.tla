----------------------------- MODULE Migrations -----------------------------
(***************************************************************************)
(* Runners of one folder of migrations against one Postgres history table. *)
(* A run takes the advisory lock of the table, checks its whole plan       *)
(* against the history, and only then applies what is pending, in order.   *)
(*                                                                         *)
(* Files are deployed while runs go on: one may be new, edited, renamed or *)
(* gone.  A body stands for its checksum, and no file is deployed with the *)
(* body of another that is there.                                          *)
(***************************************************************************)
EXTENDS Integers

CONSTANTS Runners,
          Names, Bodies,     \* names sort as numbers do
          Bare,              \* the bodies of .no_transaction files
          Attempts,          \* how often a run tries to take the lock
          MaxRuns, MaxTrouble, MaxDeploys    \* bounds

ASSUME MigrationsAssumption ==
    /\ Names \subseteq Nat /\ Bodies \subseteq Nat \ {0} /\ Bare \subseteq Bodies
    /\ {Attempts, MaxRuns, MaxTrouble, MaxDeploys} \subseteq Nat

None == 0

VARIABLES
    folder,     \* the body of each file, or None
    recorded,   \* the history: the body each recorded name was applied with, or None
    run,
    ran,        \* how often the effect of a body was committed
    cutOff,     \* history: how often a bare body ran and was not recorded
    runs, trouble, deploys

migrationsVars == <<folder, recorded, run, ran, cutOff, runs, trouble, deploys>>

NotRunning == [pc |-> "idle", left |-> 0, plan |-> [n \in Names |-> None]]

MigrationsInit ==
    /\ folder \in {f \in [Names -> Bodies \cup {None}] :
                      \A m, n \in Names : m # n /\ f[m] # None => f[m] # f[n]}
    /\ recorded = [n \in Names |-> None]
    /\ run = [r \in Runners |-> NotRunning]
    /\ ran = [b \in Bodies |-> 0] /\ cutOff = [b \in Bodies |-> 0]
    /\ runs = 0 /\ trouble = 0 /\ deploys = 0

\* A name gets a new body or loses its file, or a file is renamed.
Deploy ==
    /\ deploys < MaxDeploys /\ deploys' = deploys + 1
    /\ \/ \E n \in Names, b \in Bodies \cup {None} :
             /\ b # None => \A m \in Names : folder[m] # b
             /\ folder' = [folder EXCEPT ![n] = b]
       \/ \E m, n \in Names :
             /\ folder[m] # None /\ folder[n] = None
             /\ folder' = [folder EXCEPT ![n] = folder[m], ![m] = None]
    /\ UNCHANGED <<recorded, run, ran, cutOff, runs, trouble>>

StartRun(r) ==
    /\ run[r] = NotRunning /\ runs < MaxRuns
    /\ runs' = runs + 1
    /\ run' = [run EXCEPT ![r] = [NotRunning EXCEPT !.pc = "lock", !.left = Attempts]]
    /\ UNCHANGED <<folder, recorded, ran, cutOff, trouble, deploys>>

Locked == \E r \in Runners : run[r].pc \in {"plan", "apply", "record"}

TakeLock(r) ==
    /\ run[r].pc = "lock"
    /\ run' = [run EXCEPT ![r] =
                  IF ~Locked THEN [@ EXCEPT !.pc = "plan"]
                  ELSE IF @.left = 0 THEN NotRunning ELSE [@ EXCEPT !.left = run[r].left - 1]]
    /\ UNCHANGED <<folder, recorded, ran, cutOff, runs, trouble, deploys>>

Pending == [n \in Names |-> IF recorded[n] = None THEN folder[n] ELSE None]

Edited(n) == folder[n] # None /\ recorded[n] \notin {None, folder[n]}

Renamed(m, n) ==
    /\ recorded[m] # None /\ folder[m] = None
    /\ recorded[n] = None /\ folder[n] = recorded[m]

Refused_Edited == \E n \in Names : Edited(n)

Refused == \E m, n \in Names : Edited(n) \/ Renamed(m, n)

Plan(r) ==
    /\ run[r].pc = "plan"
    /\ run' = [run EXCEPT ![r] =
                  IF Refused THEN NotRunning ELSE [@ EXCEPT !.pc = "apply", !.plan = Pending]]
    /\ UNCHANGED <<folder, recorded, ran, cutOff, runs, trouble, deploys>>

\* The first of the plan that is left.
Turn(r, n) ==
    /\ run[r].plan[n] # None
    /\ \A m \in Names : m < n => run[r].plan[m] = None

Applies(b) == ran' = [ran EXCEPT ![b] = @ + 1]

\* name is UNIQUE in the history.
Records(n, b) == recorded[n] = None /\ recorded' = [recorded EXCEPT ![n] = b]

Moves(r, n, pc) == run' = [run EXCEPT ![r].pc = pc, ![r].plan[n] = None]

ApplyInTransaction(r, n) ==
    LET b == run[r].plan[n]
    IN  /\ run[r].pc = "apply" /\ Turn(r, n) /\ b \notin Bare
        /\ Applies(b) /\ Records(n, b)
        /\ Moves(r, n, "apply")
        /\ UNCHANGED <<folder, cutOff, runs, trouble, deploys>>

ApplyBare(r, n) ==
    LET b == run[r].plan[n]
    IN  /\ run[r].pc = "apply" /\ Turn(r, n) /\ b \in Bare
        /\ Applies(b)
        /\ run' = [run EXCEPT ![r].pc = "record"]
        /\ UNCHANGED <<folder, recorded, cutOff, runs, trouble, deploys>>

RecordBare(r, n) ==
    /\ run[r].pc = "record" /\ Turn(r, n)
    /\ Records(n, run[r].plan[n])
    /\ Moves(r, n, "apply")
    /\ UNCHANGED <<folder, ran, cutOff, runs, trouble, deploys>>

Finish(r) ==
    /\ run[r].pc = "apply" /\ run[r].plan = NotRunning.plan
    /\ run' = [run EXCEPT ![r] = NotRunning]
    /\ UNCHANGED <<folder, recorded, ran, cutOff, runs, trouble, deploys>>

\* A statement fails, or the process dies: either way the session gives the lock
\* back.  What was done may be unknown to the runner; it does not go on.
Fails(r) ==
    /\ run[r] # NotRunning /\ trouble < MaxTrouble
    /\ trouble' = trouble + 1
    /\ run' = [run EXCEPT ![r] = NotRunning]
    /\ cutOff' = [b \in Bodies |->
                     IF run[r].pc = "record" /\ \E n \in Names : Turn(r, n) /\ run[r].plan[n] = b
                     THEN cutOff[b] + 1 ELSE cutOff[b]]
    /\ UNCHANGED <<folder, recorded, ran, runs, deploys>>

MigrationsNext ==
    \/ Deploy
    \/ \E r \in Runners :
          \/ StartRun(r) \/ TakeLock(r) \/ Plan(r) \/ Finish(r) \/ Fails(r)
          \/ \E n \in Names : ApplyInTransaction(r, n) \/ ApplyBare(r, n) \/ RecordBare(r, n)

MigrationsSpec == MigrationsInit /\ [][MigrationsNext]_migrationsVars

-----------------------------------------------------------------------------

MigrationsTypeOK ==
    /\ folder \in [Names -> Bodies \cup {None}]
    /\ recorded \in [Names -> Bodies \cup {None}]
    /\ run \in [Runners -> [pc : {"idle", "lock", "plan", "apply", "record"},
                           left : 0 .. Attempts, plan : [Names -> Bodies \cup {None}]]]
    /\ ran \in [Bodies -> Nat] /\ cutOff \in [Bodies -> Nat]
    /\ {runs, trouble, deploys} \subseteq Nat

(* However runs meet, die and are started again, and however files are     *)
(* renamed in between, a body takes effect once, and a bare one once more  *)
(* for each time it was cut off from its record (migrate.ts:456-461,       *)
(* postgres-migrate.ts:386-391).                                           *)
MigratesOnce == \A b \in Bodies : ran[b] <= 1 + cutOff[b]

(* The history says what the database holds: a recorded body took effect,  *)
(* and what took effect is recorded, but for a body that was cut off or is *)
(* about to be recorded.                                                   *)
HistoryIsTrue ==
    /\ \A n \in Names : recorded[n] # None => ran[recorded[n]] > cutOff[recorded[n]]
    /\ \A b \in Bodies :
          ran[b] > cutOff[b] =>
              \/ \E n \in Names : recorded[n] = b
              \/ \E r \in Runners, n \in Names :
                    run[r].pc = "record" /\ Turn(r, n) /\ run[r].plan[n] = b

(* A migration takes effect once, and the history says which did.          *)
MigrationsSafe == MigrationsTypeOK /\ MigratesOnce /\ HistoryIsTrue
=============================================================================
