------------------------- MODULE IdempotencyContract -------------------------
(***************************************************************************)
(* What src/server/idempotency promises for one key of one user, whatever  *)
(* store is behind it: the rules of memory.ts, each one indivisible.       *)
(*                                                                         *)
(* A request owns the key, runs the command and stores its result; others  *)
(* are given that result.  Only an owner whose lease is over is replaced,  *)
(* and only by a request with the same input.                              *)
(***************************************************************************)
CONSTANTS Requests, Input, Nobody

VARIABLES
    owner,      \* the request whose claim is current, or Nobody
    lapsed,     \* the owner's lease is over
    stored,     \* the request whose result is stored, or Nobody
    running,    \* the requests that run the command
    answer      \* the request whose result each request was given

vars == <<owner, lapsed, stored, running, answer>>

Init ==
    /\ owner = Nobody /\ lapsed = FALSE /\ stored = Nobody
    /\ running = {}
    /\ answer = [r \in Requests |-> Nobody]

(* The request owns the key; it does not run if it never learns of that.   *)
Owns(r) ==
    /\ r \notin running /\ answer[r] = Nobody
    /\ owner' = r /\ lapsed' = FALSE
    /\ running' \in {running, running \cup {r}}
    /\ UNCHANGED <<stored, answer>>

Claim(r) == owner = Nobody /\ stored = Nobody /\ Owns(r)

TakeOver(r) == owner # Nobody /\ lapsed /\ Input[owner] = Input[r] /\ Owns(r)

Replay(r) ==
    /\ stored # Nobody /\ Input[stored] = Input[r]
    /\ r \notin running /\ answer[r] = Nobody
    /\ answer' = [answer EXCEPT ![r] = stored]
    /\ UNCHANGED <<owner, lapsed, stored, running>>

(* A run returns its own result; it stores it only while it owns the key.  *)
Complete(r) ==
    /\ r \in running
    /\ running' = running \ {r}
    /\ answer' = [answer EXCEPT ![r] = r]
    /\ \/ owner = r /\ owner' = Nobody /\ stored' = r /\ lapsed' = FALSE
       \/ UNCHANGED <<owner, stored, lapsed>>

(* A run that throws frees the key only while it owns it.                  *)
Fail(r) ==
    /\ r \in running
    /\ running' = running \ {r}
    /\ \/ owner = r /\ owner' = Nobody /\ lapsed' = FALSE
       \/ UNCHANGED <<owner, lapsed>>
    /\ UNCHANGED <<stored, answer>>

Lapse ==
    /\ owner # Nobody /\ lapsed' = TRUE
    /\ UNCHANGED <<owner, stored, running, answer>>

(* The retention is over.                                                  *)
Forget ==
    /\ owner' = Nobody /\ lapsed' = FALSE /\ stored' = Nobody
    /\ UNCHANGED <<running, answer>>

Next ==
    \/ \E r \in Requests :
          Claim(r) \/ TakeOver(r) \/ Replay(r) \/ Complete(r) \/ Fail(r)
    \/ Lapse \/ Forget

Spec == Init /\ [][Next]_vars
=============================================================================
