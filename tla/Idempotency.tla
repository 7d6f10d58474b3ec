----------------------------- MODULE Idempotency -----------------------------
(***************************************************************************)
(* One key of one user in src/server/idempotency: requests that pass the   *)
(* middleware (idempotency.ts) over the statements of postgres.ts.  Each   *)
(* statement is a step; a request may be held up between any two of them.  *)
(*                                                                         *)
(* Rows of other keys are never touched, so one key is enough.  A request  *)
(* is its own claim token: it makes at most one claim.  Time is relative,  *)
(* and ages are told apart up to one more than the limit they are compared *)
(* with.                                                                   *)
(***************************************************************************)
EXTENDS Integers, FiniteSets

CONSTANTS
    Requests,
    Input,      \* what each request asks for: command name and fingerprint
    Nobody,
    Lease, Retention,
    HeldUp,     \* how long a request may be held up between reading a claim
                \* that is over and taking it over: the UPDATE does not look at
                \* the input, so a row that was freed, claimed for another input
                \* and over again meanwhile would be taken too
    MaxPolls,   \* waitMs / pollMs
    MaxTries    \* how often begin looks at the row

ASSUME IdempotencyAssumption ==
    /\ IsFiniteSet(Requests) /\ Nobody \notin Requests
    /\ DOMAIN Input = Requests
    /\ Lease \in Nat /\ Retention \in Nat /\ Retention >= Lease
    /\ HeldUp \in Nat /\ HeldUp <= Lease /\ MaxPolls \in Nat
    /\ MaxTries \in Nat \ {0}

VARIABLES
    row,        \* the row of idempotency_keys
    pc,         \* where each request stands
    tries,      \* attempt, in begin
    polls,      \* waited, in polls
    age,        \* how long it has stood there
    answer,     \* the request whose result it returned
    effects,    \* history: requests whose command took effect
    claims,     \* history: claims since the key was last forgotten, but for
                \* those that were given back
    taken       \* history: those of them that replaced a claim that was over

history == <<effects, claims, taken>>
request == <<pc, tries, polls, age>>
vars == <<row, request, answer, history>>

Inputs == {Input[r] : r \in Requests}

NoRow == [status |-> "none"]

Started(r) ==
    [status |-> "started", input |-> Input[r], token |-> r, result |-> Nobody,
     createdAgo |-> 0, updatedAgo |-> 0]

Init ==
    /\ row = NoRow
    /\ pc = [r \in Requests |-> "new"]
    /\ tries = [r \in Requests |-> 0]
    /\ polls = [r \in Requests |-> 0]
    /\ age = [r \in Requests |-> 0]
    /\ answer = [r \in Requests |-> Nobody]
    /\ effects = {} /\ claims = {} /\ taken = {}

Exists == row.status # "none"
LeaseIsOver == row.status = "started" /\ row.updatedAgo > Lease
Owns(r) == row.status = "started" /\ row.token = r

(* A step of a request: the time at a stage and the locals of begin.       *)
Goes(r, stage, attempt, waited) ==
    /\ pc' = [pc EXCEPT ![r] = stage]
    /\ tries' = [tries EXCEPT ![r] = attempt]
    /\ polls' = [polls EXCEPT ![r] = waited]
    /\ age' = [age EXCEPT ![r] = 0]

Ends(r) == Goes(r, "done", 0, 0)

-----------------------------------------------------------------------------
(* begin().                                                                *)

(* DELETE ... WHERE created_at < now() - retention.                        *)
Retained == Exists => row.createdAgo <= Retention
Forgets == ~Retained /\ row' = NoRow /\ claims' = {} /\ taken' = {}

Begin(r) ==
    /\ pc[r] \in {"new", "waiting"}
    /\ Forgets \/ (Retained /\ UNCHANGED <<row, claims, taken>>)
    /\ Goes(r, "inserting", 0, polls[r])
    /\ UNCHANGED <<answer, effects>>

(* The request runs the command, or dies before it learns of its claim.    *)
Claimed(r) == Goes(r, "running", 0, 0) \/ Ends(r)

(* in_progress: the middleware sleeps and asks again, or gives up.         *)
InProgress(r) ==
    \/ polls[r] >= MaxPolls /\ Ends(r)
    \/ polls[r] < MaxPolls /\ Goes(r, "waiting", 0, polls[r] + 1)

(* INSERT ... ON CONFLICT DO NOTHING.                                      *)
Insert(r) ==
    /\ pc[r] = "inserting"
    /\ \/ /\ ~Exists
          /\ row' = Started(r)
          /\ claims' = claims \cup {r}
          /\ Claimed(r)
       \/ /\ Exists
          /\ Goes(r, "reading", tries[r], polls[r])
          /\ UNCHANGED <<row, claims>>
    /\ UNCHANGED <<answer, effects, taken>>

(* The row is gone again: look once more, MaxTries times at most.          *)
ReadNothing(r) ==
    /\ pc[r] = "reading" /\ ~Exists
    /\ \/ tries[r] + 1 < MaxTries /\ Goes(r, "inserting", tries[r] + 1, polls[r])
       \/ tries[r] + 1 >= MaxTries /\ InProgress(r)
    /\ UNCHANGED <<row, answer, history>>

(* reused: the key belongs to another input.                               *)
ReadReused(r) ==
    /\ pc[r] = "reading" /\ Exists /\ row.input # Input[r]
    /\ Ends(r)
    /\ UNCHANGED <<row, answer, history>>

Replay_Unchecked(r) ==
    /\ pc[r] = "reading" /\ row.status = "done"
    /\ answer' = [answer EXCEPT ![r] = row.result]
    /\ Ends(r)
    /\ UNCHANGED <<row, history>>

Replay(r) ==
    /\ pc[r] = "reading" /\ row.status = "done" /\ row.input = Input[r]
    /\ answer' = [answer EXCEPT ![r] = row.result]
    /\ Ends(r)
    /\ UNCHANGED <<row, history>>

ReadStarted(r) ==
    /\ pc[r] = "reading" /\ row.status = "started" /\ row.input = Input[r]
    /\ \/ ~LeaseIsOver /\ InProgress(r)
       \/ LeaseIsOver /\ Goes(r, "taking", tries[r], polls[r])
    /\ UNCHANGED <<row, answer, history>>

Takeable_Unchecked == row.status = "started"

(* What the UPDATE of a takeover asks for: not whose input the row has.    *)
Takeable == LeaseIsOver

TakeOver(r) ==
    /\ pc[r] = "taking"
    /\ \/ /\ Takeable
          /\ row' = [row EXCEPT !.token = r, !.createdAgo = 0, !.updatedAgo = 0]
          /\ claims' = claims \cup {r} /\ taken' = taken \cup {r}
          /\ Claimed(r)
       \/ ~Takeable /\ InProgress(r) /\ UNCHANGED <<row, claims, taken>>
    /\ UNCHANGED <<answer, effects>>

-----------------------------------------------------------------------------
(* The run.                                                                *)

RunSucceeds(r) ==
    /\ pc[r] = "running"
    /\ Goes(r, "completing", 0, 0)
    /\ effects' = effects \cup {r}
    /\ UNCHANGED <<row, answer, claims, taken>>

(* A failed command changed nothing.                                       *)
RunThrows(r) ==
    /\ pc[r] = "running"
    /\ Goes(r, "releasing", 0, 0)
    /\ UNCHANGED <<row, answer, history>>

Stores_AnyToken(r) ==
    row' = IF row.status = "started"
           THEN [row EXCEPT !.status = "done", !.result = r, !.updatedAgo = 0] ELSE row

(* complete() stores the result under the run's own token.                 *)
Stores(r) ==
    row' = IF Owns(r)
           THEN [row EXCEPT !.status = "done", !.result = r, !.updatedAgo = 0] ELSE row

StoreFails_Frees(r) == row' = IF Owns(r) THEN NoRow ELSE row

(* It fails, or the result cannot be copied: the claim is left to expire.  *)
StoreFails(r) == UNCHANGED row

Complete(r) ==
    /\ pc[r] = "completing"
    /\ Stores(r) \/ StoreFails(r)
    /\ answer' = [answer EXCEPT ![r] = r]
    /\ Ends(r)
    /\ UNCHANGED history

Release(r) ==
    /\ pc[r] = "releasing"
    /\ IF Owns(r) THEN row' = NoRow /\ claims' = claims \ {r} ELSE UNCHANGED <<row, claims>>
    /\ Ends(r)
    /\ UNCHANGED <<answer, effects, taken>>

-----------------------------------------------------------------------------
(* The process dies, or a statement throws: the caller gets no result.     *)
Dies(r) ==
    /\ pc[r] \notin {"new", "done"}
    /\ Ends(r)
    /\ UNCHANGED <<row, answer, history>>

Sweep ==
    /\ Forgets
    /\ UNCHANGED <<request, answer, effects>>

Until(limit, n) == IF n > limit THEN n ELSE n + 1

Tick ==
    /\ \A r \in Requests : pc[r] = "taking" => age[r] < HeldUp
    /\ row' = IF ~Exists THEN row
              ELSE [row EXCEPT !.createdAgo = Until(Retention, @),
                               !.updatedAgo = Until(Lease, @)]
    /\ age' = [r \in Requests |->
          IF pc[r] \in {"taking", "running"} THEN Until(Lease, age[r]) ELSE age[r]]
    /\ UNCHANGED <<pc, tries, polls, answer, history>>

Step(r) ==
    \/ Begin(r) \/ Insert(r)
    \/ ReadNothing(r) \/ ReadReused(r) \/ Replay(r) \/ ReadStarted(r)
    \/ TakeOver(r)
    \/ RunSucceeds(r) \/ RunThrows(r) \/ Complete(r) \/ Release(r)
    \/ Dies(r)

Next == (\E r \in Requests : Step(r)) \/ Sweep \/ Tick

Spec == Init /\ [][Next]_vars

-----------------------------------------------------------------------------
Stages == {"new", "waiting", "inserting", "reading", "taking", "running",
           "completing", "releasing", "done"}

Rows ==
    [status : {"started", "done"}, input : Inputs, token : Requests,
     result : Requests \cup {Nobody}, createdAgo : 0 .. Retention + 1,
     updatedAgo : 0 .. Lease + 1]

(* The row and the requests are well formed.                               *)
TypeOK ==
    /\ row \in Rows \cup {NoRow}
    /\ pc \in [Requests -> Stages]
    /\ tries \in [Requests -> 0 .. MaxTries]
    /\ polls \in [Requests -> 0 .. MaxPolls]
    /\ age \in [Requests -> 0 .. Lease + 1]
    /\ answer \in [Requests -> Requests \cup {Nobody}]
    /\ effects \subseteq Requests /\ claims \subseteq Requests /\ taken \subseteq Requests

(* "It never runs the command beside the first": of two runs at the same   *)
(* time one has outlived its lease, whoever releases, takes over, sweeps or *)
(* is held up meanwhile.                                                   *)
NeverBeside ==
    \A r, s \in Requests :
        pc[r] = "running" /\ pc[s] = "running" /\ r # s => age[r] > Lease \/ age[s] > Lease

(* "At most one extra run per expired lease": the runs that took effect    *)
(* since the key was last forgotten are no more than one and the claims    *)
(* that were taken over, however runs fail, die or lose the store.         *)
OneExtraPerLease == Cardinality(effects \cap claims) <= 1 + Cardinality(taken)

(* A caller gets the result of a run that took effect, and of its own      *)
(* input: a reused key never answers with another command's result.        *)
AnswerFits ==
    \A r \in Requests : answer[r] # Nobody =>
        answer[r] \in effects /\ Input[answer[r]] = Input[r]

Contract ==
    INSTANCE IdempotencyContract WITH
        owner <- IF row.status = "started" THEN row.token ELSE Nobody,
        lapsed <- LeaseIsOver,
        stored <- IF row.status = "done" THEN row.result ELSE Nobody,
        running <- {r \in Requests : pc[r] \in {"running", "completing", "releasing"}}

(* The statements together keep the rules of the store, each of which is   *)
(* one step there: own, replace a lapsed owner, store once, replay, free.  *)
ImplementsContract == Contract!Spec
=============================================================================
