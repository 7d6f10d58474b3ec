----------------------------- MODULE SendIssue -----------------------------
(***************************************************************************)
(* Mailing an issue to a list (sendIssue) over the file send log.  A run   *)
(* holds the lock of the log, which the system frees when its process      *)
(* dies.  A recipient is recorded after the relay took the mail, as a line *)
(* appended to a journal; the next rewrite of the file folds the journal   *)
(* in and removes it.                                                      *)
(*                                                                         *)
(* A mark is the person it stands for: marks under the current and the     *)
(* previous secrets count alike.  The rows of a list are mailed in any     *)
(* order.                                                                  *)
(***************************************************************************)
EXTENDS Integers, FiniteSets

CONSTANTS Runs,      \* processes, each with a log object of its own
          Issues, People,
          MaxRuns, MaxTrouble    \* bounds: runs; failures of the relay, the disk, a process

VARIABLES
    entry,      \* the file: what it holds of each issue
    journal,    \* the complete lines of the journal
    torn,       \* the journal ends in part of a line
    broken,     \* the journal holds a line nobody can read
    run,        \* where the run of each process is
    started,    \* issues that the log object of a process has seen started
    mailed,     \* history: the mails of an issue the relay took for a person
    unrecorded, \* history: mails of an issue the relay took for a person that no line records
    meant,      \* history: who an issue is meant for, once somebody said so
    overTear,   \* history: a log object that counts an issue as started outlived a tear
    runs, trouble

vars == <<entry, journal, torn, broken, run, started, mailed, unrecorded, meant, overTear,
          runs, trouble>>

Idle == [pc |-> "idle"]

\* An issue nobody sent, one sent before recipients were kept, one before audiences were.
Unsent == [state |-> "unsent", audience |-> {}, got |-> {}]
Legacy == [state |-> "legacy", audience |-> {}, got |-> {}]
Unaimed == [state |-> "unaimed", audience |-> {}, got |-> {}]

Init ==
    /\ entry \in [Issues -> {Unsent, Legacy, Unaimed}]
    /\ journal = {} /\ torn = FALSE /\ broken = FALSE
    /\ run = [p \in Runs |-> Idle]
    /\ started = [p \in Runs |-> {}]
    /\ mailed = [i \in Issues |-> [who \in People |-> 0]]
    /\ unrecorded = [i \in Issues |-> [who \in People |-> 0]]
    /\ meant = [i \in Issues |-> {}]
    /\ overTear = FALSE /\ runs = 0 /\ trouble = 0

Trouble == trouble < MaxTrouble /\ trouble' = trouble + 1

\* What load() reads: the file with the journal folded in.
Loaded(i) == [entry[i] EXCEPT !.got = @ \cup {who \in People : <<i, who>> \in journal}]

LockFree == \A p \in Runs : run[p] = Idle

Begin(p, i, list) ==
    /\ LockFree /\ runs < MaxRuns
    /\ runs' = runs + 1
    /\ run' = [run EXCEPT ![p] = [pc |-> "open", issue |-> i, list |-> list]]
    /\ UNCHANGED <<entry, journal, torn, broken, started, mailed, unrecorded, meant, overTear, trouble>>

\* find() answers that nothing is to be done, or throws: the journal cannot be read.
NothingToSend(r) ==
    broken \/ r.list = {} \/ entry[r.issue].state \in {"legacy", "closed"}

\* The audience that start() leaves in the entry: once there is one it stays.
Aims(e, list) == IF e.state = "open" THEN e.audience ELSE list

Sending(i, list, todo) ==
    [pc |-> "send", issue |-> i, list |-> list, todo |-> todo, failed |-> FALSE]

Open(p) ==
    LET r == run[p]
        i == r.issue
        e == Loaded(i)
        aim == Aims(e, r.list)
        next == Sending(i, r.list, (r.list \cap aim) \ e.got)
    IN  /\ r.pc = "open"
        /\ UNCHANGED <<torn, broken, mailed, unrecorded, runs>>
        /\ \/ /\ NothingToSend(r)
              /\ run' = [run EXCEPT ![p] = Idle]
              /\ UNCHANGED <<entry, journal, started, meant, overTear, trouble>>
           \/ /\ ~NothingToSend(r) /\ e.state = "open"
              /\ run' = [run EXCEPT ![p] = next]
              /\ UNCHANGED <<entry, journal, started, meant, overTear, trouble>>
           \/ /\ ~NothingToSend(r) /\ e.state # "open"
              /\ entry' = [j \in Issues |->
                            IF j = i THEN [e EXCEPT !.state = "open", !.audience = aim]
                                     ELSE Loaded(j)]
              /\ run' = [run EXCEPT ![p] = [pc |-> "fold", after |-> next]]
              /\ started' = [started EXCEPT ![p] = IF e.state = "unsent" THEN @ \cup {i} ELSE @]
              /\ meant' = [meant EXCEPT ![i] = r.list]
              /\ UNCHANGED <<journal, overTear, trouble>>
           \/ /\ ~NothingToSend(r) /\ e.state # "open"      \* the file cannot be written
              /\ Trouble
              /\ run' = [run EXCEPT ![p] = Idle]
              /\ started' = [started EXCEPT ![p] = IF e.state = "unsent" THEN @ \cup {i} ELSE @]
              /\ overTear' = (overTear \/ (torn /\ e.state = "unsent"))
              /\ UNCHANGED <<entry, journal, meant>>

Knows(p) == started[p] # {}

\* The file was renamed into place: the journal is no longer needed, and is removed.
Fold(p) ==
    /\ run[p].pc = "fold"
    /\ \/ /\ journal' = {} /\ torn' = FALSE /\ broken' = FALSE
          /\ run' = [run EXCEPT ![p] = run[p].after]
          /\ UNCHANGED <<overTear, trouble>>
       \/ /\ Trouble                                     \* it cannot be removed
          /\ run' = [run EXCEPT ![p] = Idle]
          /\ overTear' = (overTear \/ (torn /\ Knows(p)))
          /\ UNCHANGED <<journal, torn, broken>>
    /\ UNCHANGED <<entry, started, mailed, unrecorded, meant, runs>>

Took(i, who) == mailed' = [mailed EXCEPT ![i][who] = @ + 1]

\* No line will say that the relay took this mail.
Loses(i, who) == unrecorded' = [unrecorded EXCEPT ![i][who] = @ + 1]

Accepted(p, who) ==
    LET r == run[p]
    IN  /\ r.pc = "send" /\ who \in r.todo
        /\ Took(r.issue, who)
        /\ run' = [run EXCEPT ![p] = [pc |-> "record", who |-> who,
                                      after |-> [r EXCEPT !.todo = @ \ {who}]]]
        /\ UNCHANGED <<entry, journal, torn, broken, started, unrecorded, meant, overTear, runs, trouble>>

\* A mail that failed, and one the relay took though its answer was lost.
Failed(p, who) ==
    LET r == run[p]
    IN  /\ r.pc = "send" /\ who \in r.todo
        /\ Trouble
        /\ run' = [run EXCEPT ![p].todo = @ \ {who}, ![p].failed = TRUE]
        /\ \/ UNCHANGED <<mailed, unrecorded>>
           \/ /\ Took(r.issue, who)
              /\ Loses(r.issue, who)
        /\ UNCHANGED <<entry, journal, torn, broken, started, meant, overTear, runs>>

\* The first append of an issue by a log object rewrites the journal without a torn tail.
TailLeft(p, i) == torn /\ i \in started[p]

Record(p) ==
    LET r == run[p]
        i == r.after.issue
    IN  /\ r.pc = "record" /\ (i \in started[p] \/ ~broken)
        /\ started' = [started EXCEPT ![p] = @ \cup {i}]
        /\ torn' = FALSE
        /\ broken' = (broken \/ TailLeft(p, i))
        /\ journal' = IF TailLeft(p, i) THEN journal ELSE journal \cup {<<i, r.who>>}
        /\ run' = [run EXCEPT ![p] = r.after]
        /\ IF TailLeft(p, i) THEN Loses(i, r.who) ELSE UNCHANGED unrecorded
        /\ UNCHANGED <<entry, mailed, meant, overTear, runs, trouble>>

\* The log cannot be read, or the line not be written, or only a part of it: the run
\* stops, its process goes on.
RecordFails(p) ==
    LET r == run[p]
        i == r.after.issue
    IN  /\ r.pc = "record" /\ Trouble
        /\ run' = [run EXCEPT ![p] = Idle]
        /\ Loses(i, r.who)
        /\ \/ /\ started' = [started EXCEPT ![p] = @ \cup {i}]
              /\ torn' \in {TailLeft(p, i), TRUE}
              /\ overTear' = (overTear \/ torn')
           \/ UNCHANGED <<started, torn, overTear>>
        /\ UNCHANGED <<entry, journal, broken, mailed, meant, runs>>

Finish(p) ==
    LET r == run[p]
    IN  /\ r.pc = "send" /\ r.todo = {}
        /\ UNCHANGED <<journal, torn, broken, started, mailed, unrecorded, meant, overTear, runs>>
        /\ \/ /\ broken
              /\ run' = [run EXCEPT ![p] = Idle]
              /\ UNCHANGED <<entry, trouble>>
           \/ /\ ~broken
              /\ entry' = [j \in Issues |->
                            IF j = r.issue /\ ~r.failed
                            THEN [Loaded(j) EXCEPT !.state = "closed"] ELSE Loaded(j)]
              /\ run' = [run EXCEPT ![p] = [pc |-> "fold", after |-> Idle]]
              /\ UNCHANGED trouble
           \/ /\ ~broken /\ Trouble                         \* the file cannot be written
              /\ run' = [run EXCEPT ![p] = Idle]
              /\ UNCHANGED entry

\* A process dies and is started again; in the middle of a line it may leave a part of it.
Crash(p) ==
    /\ (run[p] # Idle \/ Knows(p)) /\ Trouble
    /\ run' = [run EXCEPT ![p] = Idle]
    /\ started' = [started EXCEPT ![p] = {}]
    /\ \/ run[p].pc # "record" /\ UNCHANGED <<torn, unrecorded, overTear>>
       \/ /\ run[p].pc = "record"
          /\ Loses(run[p].after.issue, run[p].who)
          /\ torn' \in {torn, TRUE}
          /\ overTear' = (overTear \/ (torn' /\ \E q \in Runs \ {p} : Knows(q)))
    /\ UNCHANGED <<entry, journal, broken, mailed, meant, runs>>

Next ==
    \E p \in Runs :
        \/ \E i \in Issues, list \in SUBSET People : Begin(p, i, list)
        \/ Open(p) \/ Fold(p) \/ Record(p) \/ RecordFails(p) \/ Finish(p) \/ Crash(p)
        \/ \E who \in People : Accepted(p, who) \/ Failed(p, who)

Spec == Init /\ [][Next]_vars

-----------------------------------------------------------------------------

TypeOK ==
    /\ \A i \in Issues :
          /\ entry[i].state \in {"unsent", "legacy", "unaimed", "open", "closed"}
          /\ entry[i].audience \subseteq People /\ entry[i].got \subseteq People
    /\ journal \subseteq Issues \X People
    /\ {torn, broken, overTear} \subseteq BOOLEAN
    /\ started \in [Runs -> SUBSET Issues]
    /\ Cardinality({p \in Runs : run[p] # Idle}) <= 1

(* A person gets an issue again only for a mail of theirs whose record was *)
(* lost: a crash, a write that failed or a lost answer of the relay costs  *)
(* one mail each (send.ts:60-66).                                          *)
OneExtraPerLoss ==
    \A i \in Issues : \A who \in People : mailed[i][who] <= unrecorded[i][who] + 1

(* An issue reaches only those who were on the list when it was first      *)
(* sent, whatever lists the later runs bring (send.ts:58-60).              *)
OnlyAudience ==
    \A i \in Issues : {who \in People : mailed[i][who] > 0} \subseteq meant[i]

(* Whoever is recorded was mailed, so none is passed over by a rerun.      *)
RecordedWasMailed ==
    \A i \in Issues : \A who \in Loaded(i).got : mailed[i][who] > 0

(* The journal stays readable over crashes and failures, but for a log     *)
(* object that outlives a torn line and counts an issue as started, which  *)
(* it will not load before it appends (file-send-log.ts:57-60).            *)
JournalReadable == broken => overTear

(* An issue is closed only when everyone it is meant for who is still on   *)
(* the list of the closing run was mailed.                                 *)
ClosesWhenDoneStep ==
    \A p \in Runs : \A i \in Issues :
        entry[i].state # "closed" /\ entry'[i].state = "closed" /\ run[p] # Idle
            => \A who \in meant[i] \cap run[p].list : mailed[i][who] > 0
ClosesWhenDone == [][ClosesWhenDoneStep]_vars
=============================================================================
