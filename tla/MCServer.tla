------------------------------ MODULE MCServer ------------------------------
(***************************************************************************)
(* The parts of the server and its platform that share no state, in one    *)
(* run: a behaviour picks a part and is a behaviour of that part's         *)
(* specification.  Idempotency, McpGrant, Accounts, KvStore, Quota,        *)
(* Subscribers and Saver have variables of their own, which stay as they   *)
(* begin in the other parts; x1, x2, ... are the variables of whichever    *)
(* other part was picked.                                                  *)
(***************************************************************************)
EXTENDS Idempotency, McpGrant, Accounts, KvStore, Quota, Subscribers, Saver, TLC

CONSTANTS a1, a2, a3, k1, k2,       \* actors, and what they act on: interchangeable
          b1, u1, m1, m2,           \* told apart from them
          Off                       \* what unused variables hold

VARIABLES part, x1, x2, x3, x4, x5, x6, x7, x8, x9, x10, x11, x12

idempotency == <<row, pc, tries, polls, age, answer, effects, claims, taken>>
ownVars == <<idempotency, grantVars, accountVars, storeVars, quotaVars, listVars,
             saverVars>>

(* The variables that a part leaves unused: those from the n-th on.        *)
from1 == <<x1, x2, x3, x4, x5, x6, x7, x8, x9, x10, x11, x12>>
from7 == <<x7, x8, x9, x10, x11, x12>>

Unused7 ==
    x7 = Off /\ x8 = Off /\ x9 = Off /\ x10 = Off /\ x11 = Off /\ x12 = Off
Unused1 ==
    x1 = Off /\ x2 = Off /\ x3 = Off /\ x4 = Off /\ x5 = Off /\ x6 = Off /\ Unused7

(* Three requests alike, and one for another input.                        *)
ThreeAlikeOneNot == (a1 :> "text") @@ (a2 :> "text") @@ (a3 :> "text") @@ (b1 :> "other")

-----------------------------------------------------------------------------
(* The lockout with two subjects and room for the counter of one.          *)
Lockout == INSTANCE Lockout WITH
    Subjects <- {k1, k2}, Checks <- {a1, a2}, FreeFailures <- 1, FirstLock <- 1,
    MaxLock <- 3, QuietReset <- 2, MaxEntries <- 1, Slowest <- 2, MaxRuns <- 3,
    MaxTime <- 3, now <- x1, held <- x2, row <- x3, fullUntil <- x4,
    lastSweepAt <- x5, check <- x6, unswept <- x7, runs <- x8, refunds <- x9,
    expiries <- x10, outlived <- x11

ASSUME Lockout!LockoutAssumption

-----------------------------------------------------------------------------
(* The cache with two calls of wrap, two writers and a restart.            *)
Cache == INSTANCE Cache WITH
    Wraps <- {a1, a2}, Writers <- {k1, k2}, MaxVersion <- 3, MaxRestarts <- 1,
    db <- x1, held <- x2, wire <- x3, trusted <- x4, due <- x5, waiting <- x6,
    wrap <- x7, pending <- x8, writer <- x9, floor <- x10, slipped <- x11,
    restarts <- x12

ASSUME Cache!CacheAssumption

-----------------------------------------------------------------------------
(* Two consents, and two approvals posted from two addresses by password   *)
(* or by an approval code, of which one wrong password locks out all.      *)
Consent == INSTANCE McpConsent WITH
    Posts <- {a1, a2}, Consents <- {k1, k2}, Addresses <- {m1, m2},
    MaxFailures <- 1, Window <- 1, MaxTotalFailures <- 1, TotalWindow <- 2, MaxPosts <- 2,
    MaxTime <- 1, clock <- x1, pending <- x2, approval <- x3, attempts <- x4,
    post <- x5, codes <- x6, spent <- x7, wrong <- x8, newest <- x9, late <- x10,
    failed <- x11, posts <- x12

ASSUME Consent!McpConsentAssumption

-----------------------------------------------------------------------------
(* The rate limit with three requests, two keys and room for the bucket of *)
(* one.                                                                    *)
RateLimit == INSTANCE RateLimit WITH
    Requests <- {a1, a2, a3}, Keys <- {k1, k2}, Window <- 2, Limit <- 2,
    Idle <- 1, MaxBuckets <- 1, SweepEvery <- 2, MaxTime <- 6, now <- x1,
    buckets <- x2, fullUntil <- x3, lastSweep <- x4, checks <- x5, requests <- x6

ASSUME RateLimit!RateLimitAssumption

-----------------------------------------------------------------------------
(* Two issues mailed to two people by two processes, one of which may die. *)
Mailing == INSTANCE SendIssue WITH
    Runs <- {a1, a2}, Issues <- {m1, m2}, People <- {k1, k2}, MaxRuns <- 3,
    MaxTrouble <- 1, entry <- x1, journal <- x2, torn <- x3, broken <- x4, run <- x5,
    started <- x6, mailed <- x7, unrecorded <- x8, meant <- x9, overTear <- x10,
    runs <- x11, trouble <- x12

(* Simultaneous checks get no more guesses than the free ones and one for  *)
(* each lock that ran out, and dropping counters is not seen by a later    *)
(* check.  A bucket counts the requests it accepted in the window and did  *)
(* not refund; a full limiter refuses only while no bucket fell idle by    *)
(* itself.  A consent is approved once, and an approval code approves      *)
(* once; the hasher sees no more wrong passwords in a window than the      *)
(* limits allow, and only those count.  After the delete of a changed row  *)
(* no wrap that starts returns an older version, nor does one rest in the  *)
(* cache; one call of a generation loads.  A person gets an issue once but *)
(* for what a crash or a lost answer costs, only those it is meant for get *)
(* it, no record is made up and the journal stays readable.                *)
PartsSafe ==
    /\ part = "lockout" => Lockout!GuessesBounded /\ Lockout!SweepsUnseen
    /\ part = "limits" => RateLimit!CountsExactly /\ RateLimit!RefusesWhenFull
    /\ part = "consent" =>
          /\ Consent!ApprovedOnce
          /\ Consent!CodeApprovesOnce
          /\ Consent!GuessesBounded
          /\ Consent!OnlyWrongCount
    /\ part = "cache" => Cache!NoStale /\ Cache!RestsFresh /\ Cache!OneLoads
    /\ part = "issue" =>
          /\ Mailing!OneExtraPerLoss
          /\ Mailing!OnlyAudience
          /\ Mailing!RecordedWasMailed
          /\ Mailing!JournalReadable

-----------------------------------------------------------------------------
(* The types of every part.                                                *)
ServerTypeOK ==
    /\ part = "idempotency" => TypeOK
    /\ part = "lockout" => Lockout!TypeOK
    /\ part = "quota" => QuotaTypeOK
    /\ part = "cache" => Cache!CacheTypeOK
    /\ part = "grant" => GrantTypeOK
    /\ part = "consent" => Consent!ConsentTypeOK
    /\ part = "accounts" => AccountsTypeOK
    /\ part = "saver" => SaverTypeOK
    /\ part = "limits" => RateLimit!TypeOK
    /\ part = "store" => StoreTypeOK
    /\ part = "issue" => Mailing!TypeOK
    /\ part = "list" => ListTypeOK

(* A write of the saver never leaves an older document; the store replaces *)
(* only a connection that is broken or closed; an issue is closed when     *)
(* nobody it is meant for is left.                                         *)
ServerSteps ==
    [][/\ part = "saver" => NeverBackStep
       /\ part = "store" => HealthyKeptStep
       /\ part = "issue" => Mailing!ClosesWhenDoneStep]_<<storeVars, saverVars, from1>>

-----------------------------------------------------------------------------

ServerInit ==
    /\ Init /\ GrantInit /\ AccountsInit /\ StoreInit /\ QuotaInit /\ ListInit
    /\ SaverInit
    /\ \/ /\ part \in {"idempotency", "grant", "accounts", "store", "quota", "list", "saver"}
          /\ Unused1
       \/ part = "lockout" /\ Lockout!Init /\ x12 = Off
       \/ part = "cache" /\ Cache!CacheInit
       \/ part = "consent" /\ Consent!ConsentInit
       \/ part = "limits" /\ RateLimit!Init /\ Unused7
       \/ part = "issue" /\ Mailing!Init
    /\ part # "list" => ~listed
    /\ part # "accounts" => pw = NoKey

ServerNext ==
    \/ /\ part = "idempotency" /\ Next
       /\ UNCHANGED <<grantVars, accountVars, storeVars, quotaVars, listVars, saverVars, from1>>
    \/ /\ part = "grant" /\ GrantNext
       /\ UNCHANGED <<idempotency, accountVars, storeVars, quotaVars, listVars, saverVars, from1>>
    \/ /\ part = "accounts" /\ AccountsNext
       /\ UNCHANGED <<idempotency, grantVars, storeVars, quotaVars, listVars, saverVars, from1>>
    \/ /\ part = "store" /\ StoreNext
       /\ UNCHANGED <<idempotency, grantVars, accountVars, quotaVars, listVars, saverVars, from1>>
    \/ /\ part = "quota" /\ QuotaNext
       /\ UNCHANGED <<idempotency, grantVars, accountVars, storeVars, listVars, saverVars, from1>>
    \/ /\ part = "list" /\ ListNext
       /\ UNCHANGED <<idempotency, grantVars, accountVars, storeVars, quotaVars, saverVars, from1>>
    \/ /\ part = "saver" /\ SaverNext
       /\ UNCHANGED <<idempotency, grantVars, accountVars, storeVars, quotaVars, listVars, from1>>
    \/ part = "lockout" /\ Lockout!Next /\ UNCHANGED <<ownVars, x12>>
    \/ part = "cache" /\ Cache!CacheNext /\ UNCHANGED ownVars
    \/ part = "consent" /\ Consent!ConsentNext /\ UNCHANGED ownVars
    \/ part = "limits" /\ RateLimit!Next /\ UNCHANGED <<ownVars, from7>>
    \/ part = "issue" /\ Mailing!Next /\ UNCHANGED ownVars

ServerStep == ServerNext /\ UNCHANGED part
ServerSpec == ServerInit /\ [][ServerStep]_<<part, ownVars, from1>>

PartSymmetry == Permutations({a1, a2, a3}) \cup Permutations({k1, k2})
=============================================================================
