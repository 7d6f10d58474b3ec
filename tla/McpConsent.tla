----------------------------- MODULE McpConsent -----------------------------
(***************************************************************************)
(* Consents of the MCP authorization server: the owner approves one with   *)
(* the owner password, whose attempts are counted before the hasher runs,  *)
(* or with a one-time approval code (src/server/mcp-oauth/                 *)
(* authorization-server.ts and the stores beside it).                      *)
(***************************************************************************)
EXTENDS Integers, FiniteSets

CONSTANTS
    Posts,          \* requests that post an approval
    Consents, Addresses,
    MaxFailures, Window,            \* the limit of an address
    MaxTotalFailures, TotalWindow,  \* that of all of them
    MaxPosts,       \* bound: approvals posted
    MaxTime         \* bound

Total == "total"

McpConsentAssumption ==
    /\ {MaxFailures, MaxTotalFailures, Window, TotalWindow} \subseteq Nat \ {0}
    /\ {MaxPosts, MaxTime} \subseteq Nat
    /\ Total \notin Addresses

VARIABLES
    clock,
    pending,        \* the consents in the store
    approval,       \* whether the store holds the approval code
    attempts,       \* counted attempts of a key, by the time they were made
    post,           \* the requests under way
    codes,          \* authorization codes made for a consent
    spent,          \* history: approvals the approval code gave
    wrong,          \* history: wrong passwords the hasher saw
    newest,         \* history: the newest attempt counted for a key
    late,           \* history: an attempt was counted after a newer one
    failed,         \* history: a request died or the store gave up
    posts

consentVars == <<clock, pending, approval, attempts, post, codes, spent, wrong, newest,
                 late, failed, posts>>

Keys == Addresses \cup {Total}
Times == 0 .. MaxTime
FailureLimit(k) == IF k = Total THEN MaxTotalFailures ELSE MaxFailures
FailureWindow(k) == IF k = Total THEN TotalWindow ELSE Window

NoPost == [stage |-> "idle"]

ConsentInit ==
    /\ clock = 0 /\ pending = Consents /\ approval = TRUE
    /\ attempts = [k \in Keys |-> [t \in Times |-> 0]] /\ wrong = attempts
    /\ post = [r \in Posts |-> NoPost]
    /\ codes = [p \in Consents |-> 0] /\ spent = 0
    /\ newest = [k \in Keys |-> 0] /\ late = FALSE /\ failed = FALSE /\ posts = 0

Goes(r, stage) == post' = [post EXCEPT ![r].stage = stage]
Ends(r) == post' = [post EXCEPT ![r] = NoPost]

(* The attempts of a count at the times of S, as pairs of a time and a     *)
(* number among those of that time.                                        *)
In(count, S) == Cardinality({x \in S \X (1 .. MaxPosts) : x[2] <= count[x[1]]})

-----------------------------------------------------------------------------
(* POST /authorize: taking the consent first keeps it single-use while the *)
(* password is checked.                                                    *)
Taken(p) == pending' = pending \ {p}

Post(r, p, address, typed) ==
    /\ post[r] = NoPost /\ posts < MaxPosts /\ posts' = posts + 1
    /\ p \in pending /\ Taken(p)
    /\ post' = [post EXCEPT ![r] =
          [stage |-> IF typed = "code" THEN "code" ELSE "reads",
           consent |-> p, address |-> address, typed |-> typed, at |-> 0, pays |-> FALSE]]
    /\ UNCHANGED <<clock, approval, attempts, codes, spent, wrong, newest, late, failed>>

Deny(p) ==
    /\ p \in pending /\ pending' = pending \ {p}
    /\ UNCHANGED <<clock, approval, attempts, post, codes, spent, wrong, newest,
                   late, failed, posts>>

(* The approval code approves once, and counts as a password when it is    *)
(* spent or has expired.                                                   *)
CodeTaken == approval' = FALSE

TakeCode(r) ==
    /\ post[r].stage = "code" /\ CodeTaken
    /\ \/ approval /\ post' = [post EXCEPT ![r].stage = "approves", ![r].pays = TRUE]
       \/ Goes(r, "reads")
    /\ UNCHANGED <<clock, pending, attempts, codes, spent, wrong, newest, late, failed, posts>>

ReadClock(r) ==
    /\ post[r].stage = "reads"
    /\ post' = [post EXCEPT ![r].stage = "address", ![r].at = clock]
    /\ UNCHANGED <<clock, pending, approval, attempts, codes, spent, wrong, newest,
                   late, failed, posts>>

Recent(k, at) == {t \in Times : t + FailureWindow(k) > at}

(* takeAttempt: forgets the attempts before the window, and counts one     *)
(* unless the limit is reached.                                            *)
Locked(k, at) == In(attempts[k], Recent(k, at)) >= FailureLimit(k)

Counts(k, at) ==
    /\ attempts' = [attempts EXCEPT ![k] = [t \in Times |->
          (IF t \in Recent(k, at) THEN attempts[k][t] ELSE 0) + (IF t = at THEN 1 ELSE 0)]]
    /\ newest' = [newest EXCEPT ![k] = IF at > @ THEN at ELSE @]
    /\ late' = (late \/ at < newest[k])

TakeAddress(r) ==
    /\ post[r].stage = "address"
    /\ IF Locked(post[r].address, post[r].at)
       THEN Goes(r, "refuses") /\ UNCHANGED <<attempts, newest, late>>
       ELSE Goes(r, "total") /\ Counts(post[r].address, post[r].at)
    /\ UNCHANGED <<clock, pending, approval, codes, spent, wrong, failed, posts>>

WhenLocked == "uncounts"

TakeTotal(r) ==
    /\ post[r].stage = "total"
    /\ IF Locked(Total, post[r].at)
       THEN Goes(r, WhenLocked) /\ UNCHANGED <<attempts, newest, late>>
       ELSE Goes(r, "hashes") /\ Counts(Total, post[r].at)
    /\ UNCHANGED <<clock, pending, approval, codes, spent, wrong, failed, posts>>

(* The store gives up under contention: the password is refused unheard.   *)
GiveUp(r) ==
    /\ \/ post[r].stage = "address" /\ Goes(r, "refuses")
       \/ post[r].stage = "total" /\ Goes(r, "uncounts")
       \/ post[r].stage = "uncounts" /\ Goes(r, "refuses")
       \/ post[r].stage = "forgives" /\ Goes(r, "forgives all")
       \/ post[r].stage = "forgives all" /\ Goes(r, "approves")
    /\ failed' = TRUE
    /\ UNCHANGED <<clock, pending, approval, attempts, codes, spent, wrong, newest, late, posts>>

(* releaseAttempt: removes one attempt made at that time, if it is there.  *)
Releases(k, at) ==
    attempts' = [attempts EXCEPT ![k][at] = IF @ = 0 THEN 0 ELSE @ - 1]

Uncount(r) ==
    /\ post[r].stage = "uncounts" /\ Releases(post[r].address, post[r].at) /\ Goes(r, "refuses")
    /\ UNCHANGED <<clock, pending, approval, codes, spent, wrong, newest, late, failed, posts>>

VerifyPassword(r) ==
    /\ post[r].stage = "hashes"
    /\ IF post[r].typed = "right"
       THEN Goes(r, "forgives") /\ UNCHANGED wrong
       ELSE /\ Goes(r, "refuses")
            /\ wrong' = [wrong EXCEPT ![post[r].address][post[r].at] = @ + 1,
                                      ![Total][post[r].at] = @ + 1]
    /\ UNCHANGED <<clock, pending, approval, attempts, codes, spent, newest, late, failed, posts>>

Forgive(r) ==
    /\ \/ /\ post[r].stage = "forgives"
          /\ Releases(post[r].address, post[r].at) /\ Goes(r, "forgives all")
       \/ /\ post[r].stage = "forgives all"
          /\ Releases(Total, post[r].at) /\ Goes(r, "approves")
    /\ UNCHANGED <<clock, pending, approval, codes, spent, wrong, newest, late, failed, posts>>

(* A refused password puts the consent back, so the owner can retry.       *)
Refuse(r) ==
    /\ post[r].stage = "refuses"
    /\ pending' = pending \cup {post[r].consent} /\ Ends(r)
    /\ UNCHANGED <<clock, approval, attempts, codes, spent, wrong, newest, late, failed, posts>>

Approve(r) ==
    /\ post[r].stage = "approves"
    /\ codes' = [codes EXCEPT ![post[r].consent] = @ + 1]
    /\ spent' = IF post[r].pays THEN spent + 1 ELSE spent
    /\ Ends(r)
    /\ UNCHANGED <<clock, pending, approval, attempts, wrong, newest, late, failed, posts>>

-----------------------------------------------------------------------------
Fail(r) ==
    /\ post[r] # NoPost /\ Ends(r) /\ failed' = TRUE
    /\ UNCHANGED <<clock, pending, approval, attempts, codes, spent, wrong, newest, late, posts>>

Expire ==
    /\ \/ \E p \in pending : pending' = pending \ {p} /\ UNCHANGED approval
       \/ approval /\ approval' = FALSE /\ UNCHANGED pending
    /\ UNCHANGED <<clock, attempts, post, codes, spent, wrong, newest, late, failed, posts>>

Tick ==
    /\ clock < MaxTime /\ clock' = clock + 1
    /\ UNCHANGED <<pending, approval, attempts, post, codes, spent, wrong, newest,
                   late, failed, posts>>

ConsentNext ==
    \/ \E r \in Posts :
        \/ \E p \in Consents, a \in Addresses, typed \in {"right", "wrong", "code"} :
              Post(r, p, a, typed)
        \/ TakeCode(r) \/ ReadClock(r) \/ TakeAddress(r) \/ TakeTotal(r) \/ GiveUp(r) \/ Uncount(r)
        \/ VerifyPassword(r) \/ Forgive(r) \/ Refuse(r) \/ Approve(r) \/ Fail(r)
    \/ (\E p \in Consents : Deny(p)) \/ Expire \/ Tick

ConsentSpec == ConsentInit /\ [][ConsentNext]_consentVars

-----------------------------------------------------------------------------
ConsentTypeOK ==
    /\ clock \in Times /\ posts \in 0 .. MaxPosts /\ pending \subseteq Consents
    /\ {approval, late, failed} \subseteq BOOLEAN
    /\ {attempts, wrong} \subseteq [Keys -> [Times -> 0 .. MaxPosts]]
    /\ newest \in [Keys -> Times]
    /\ codes \in [Consents -> 0 .. MaxPosts] /\ spent \in Nat
    /\ \A r \in Posts : post[r] # NoPost =>
        post[r] \in [stage : {"code", "reads", "address", "total", "uncounts", "hashes", "forgives",
                              "forgives all", "refuses", "approves"},
                     consent : Consents, address : Addresses, typed : {"right", "wrong", "code"},
                     at : Times, pays : BOOLEAN]

(* A consent is approved once, however many requests post it at the same   *)
(* time and though a refused one puts it back.                             *)
ApprovedOnce ==
    \A p \in Consents :
        codes[p] + Cardinality({r \in Posts : post[r].stage = "approves"
                                            /\ post[r].consent = p}) <= 1

(* "It approves once without the owner password": one approval code gives  *)
(* at most one approval, of whichever consent.                             *)
CodeApprovesOnce == spent <= 1

Span(k, t) == {u \in Times : t <= u /\ u < t + FailureWindow(k)}

(* The hasher sees no more wrong passwords in a window than the limits     *)
(* allow, of one address and of all, while it takes the attempts in the    *)
(* order they were made.                                                   *)
GuessesBounded ==
    ~late => \A k \in Keys, t \in Times : In(wrong[k], Span(k, t)) <= FailureLimit(k)

(* When no request is under way and none failed, only wrong passwords that *)
(* the hasher saw are counted: the owner's own success locks nobody out,   *)
(* nor does an attempt refused because others exceeded the common limit.   *)
OnlyWrongCount ==
    ~failed /\ (\A r \in Posts : post[r] = NoPost) =>
        \A k \in Keys, t \in Times : attempts[k][t] <= wrong[k][t]
=============================================================================
