------------------------------ MODULE McpGrant ------------------------------
(***************************************************************************)
(* One grant of the MCP authorization server: its code is redeemed, its    *)
(* tokens are rotated and revoked (src/server/mcp-oauth/                   *)
(* authorization-server.ts) by requests that share a key-value store with  *)
(* checked commits and no locks (src/server/mcp-oauth/kv-store.ts).  The   *)
(* code was saved at time 0.                                               *)
(***************************************************************************)
EXTENDS Integers, FiniteSets

CONSTANTS
    TokenRequests,
    CodeTtl, AccessTtl, RefreshTtl, GrantTtl,
    Slowest,        \* how long a request lasts at most
    MaxTokens,      \* bound: pairs of tokens issued
    GrantMaxTime    \* bound

RevokeTtl == IF AccessTtl > RefreshTtl THEN AccessTtl ELSE RefreshTtl

ASSUME McpGrantAssumption ==
    /\ {CodeTtl, AccessTtl, RefreshTtl, GrantTtl, MaxTokens} \subseteq Nat \ {0}
    /\ {Slowest, GrantMaxTime} \subseteq Nat
    /\ 2 * Slowest < RevokeTtl

VARIABLES
    now,
    code,       \* the authorization code in the store
    refresh,    \* refresh tokens in the store
    access,     \* when the access tokens in the store end; 0: not stored
    recorded,   \* whether the grant has its record
    revoked,    \* until when the grant refuses new tokens
    tokenRequest,   \* the requests under way
    issued,     \* how many pairs of tokens have been made
    known,      \* the pairs a client was told of
    over        \* history: a revocation has answered

grantVars == <<now, code, refresh, access, recorded, revoked, tokenRequest, issued, known, over>>

Pairs == 1 .. MaxTokens
NoToken == [state |-> "none", until |-> 0]
NoRequest == [stage |-> "idle", began |-> 0, pair |-> 0, at |-> 0, doomed |-> {}]

GrantInit ==
    /\ now = 0
    /\ code = [state |-> "fresh", until |-> CodeTtl]
    /\ refresh = [n \in Pairs |-> NoToken] /\ access = [n \in Pairs |-> 0]
    /\ recorded = FALSE /\ revoked = 0
    /\ tokenRequest = [r \in TokenRequests |-> NoRequest]
    /\ issued = 0 /\ known = {} /\ over = FALSE

Lesser(a, b) == IF a < b THEN a ELSE b
Greater(a, b) == IF a > b THEN a ELSE b

Refuses == revoked > now

RequestGoes(r, stage) == tokenRequest' = [tokenRequest EXCEPT ![r].stage = stage]
RequestEnds(r) == tokenRequest' = [tokenRequest EXCEPT ![r] = NoRequest]

Begins(r, stage) ==
    tokenRequest' = [tokenRequest EXCEPT ![r] = [NoRequest EXCEPT !.stage = stage, !.began = now, !.at = now]]

-----------------------------------------------------------------------------
(* consume: marks a credential used, in one checked commit.                *)
SpentToken(token) == IF token.state = "fresh" THEN [token EXCEPT !.state = "used"] ELSE token

(* What follows once the record as it was is known: a used one revokes the *)
(* grant; an expired one, or one of another client, is refused.            *)
Presented(r, token, first) ==
    CASE token.state = "none"  -> UNCHANGED tokenRequest
      [] token.state = "used"  -> Begins(r, "marks")
      [] token.state = "fresh" -> \/ token.until > now /\ Begins(r, first)
                                  \/ UNCHANGED tokenRequest

RedeemCode(r) ==
    /\ tokenRequest[r].stage = "idle"
    /\ code' = SpentToken(code) /\ Presented(r, code, "grants")
    /\ UNCHANGED <<now, refresh, access, recorded, revoked, issued, known, over>>

Rotate(r) ==
    /\ tokenRequest[r].stage = "idle"
    /\ \E n \in known :
        refresh' = [refresh EXCEPT ![n] = SpentToken(@)] /\ Presented(r, refresh[n], "saves")
    /\ UNCHANGED <<now, code, access, recorded, revoked, issued, known, over>>

(* issueTokens: the grant's record for a redeemed code, the refresh token  *)
(* and the access token, each refused once the grant is revoked.           *)
SaveGrant(r) ==
    /\ tokenRequest[r].stage = "grants"
    /\ IF Refuses THEN RequestEnds(r) /\ UNCHANGED recorded
       ELSE /\ recorded' = TRUE
            /\ tokenRequest' = [tokenRequest EXCEPT ![r].stage = "saves"]
    /\ UNCHANGED <<now, code, refresh, access, revoked, issued, known, over>>

(* A token ends with its grant at the latest.                              *)
End(ttl, at) == Lesser(at + ttl, GrantTtl)

SaveRefresh(r) ==
    /\ tokenRequest[r].stage = "saves" /\ issued < MaxTokens
    /\ IF Refuses THEN RequestEnds(r) /\ UNCHANGED <<refresh, issued>>
       ELSE /\ issued' = issued + 1
            /\ refresh' = [refresh EXCEPT ![issued + 1] =
                              [state |-> "fresh", until |-> End(RefreshTtl, tokenRequest[r].at)]]
            /\ tokenRequest' = [tokenRequest EXCEPT ![r].stage = "access", ![r].pair = issued + 1]
    /\ UNCHANGED <<now, code, access, recorded, revoked, known, over>>

SaveAccess_Unchecked(r) ==
    /\ tokenRequest[r].stage = "access"
    /\ access' = [access EXCEPT ![tokenRequest[r].pair] = End(AccessTtl, tokenRequest[r].at)]
    /\ RequestGoes(r, "answers")
    /\ UNCHANGED <<now, code, refresh, recorded, revoked, issued, known, over>>

SaveAccess(r) ==
    /\ tokenRequest[r].stage = "access"
    /\ IF Refuses THEN RequestEnds(r) /\ UNCHANGED access
       ELSE /\ access' = [access EXCEPT ![tokenRequest[r].pair] = End(AccessTtl, tokenRequest[r].at)]
            /\ RequestGoes(r, "answers")
    /\ UNCHANGED <<now, code, refresh, recorded, revoked, issued, known, over>>

Answer(r) ==
    /\ tokenRequest[r].stage = "answers"
    /\ known' \in {known, known \cup {tokenRequest[r].pair}}
    /\ RequestEnds(r)
    /\ UNCHANGED <<now, code, refresh, access, recorded, revoked, issued, over>>

-----------------------------------------------------------------------------
(* POST /revoke: a refresh token stands for its grant, an access token for *)
(* itself.                                                                 *)
Revoke(r) ==
    /\ tokenRequest[r].stage = "idle"
    /\ \E n \in known :
        \/ /\ refresh[n].state # "none" /\ Begins(r, "marks")
           /\ UNCHANGED access
        \/ access' = [access EXCEPT ![n] = 0] /\ UNCHANGED tokenRequest
    /\ UNCHANGED <<now, code, refresh, recorded, revoked, issued, known, over>>

(* revokeGrant: the mark, then the list of the grant's tokens, then their  *)
(* deletion batch by batch, the record of the grant last.                  *)
Mark(r) ==
    /\ tokenRequest[r].stage = "marks"
    /\ revoked' = Greater(revoked, tokenRequest[r].at + RevokeTtl) /\ RequestGoes(r, "lists")
    /\ UNCHANGED <<now, code, refresh, access, recorded, issued, known, over>>

StoredPairs == {n \in Pairs : refresh[n].state # "none"} \cup {n \in Pairs : access[n] # 0}

List(r) ==
    /\ tokenRequest[r].stage = "lists"
    /\ tokenRequest' = [tokenRequest EXCEPT ![r].stage = "deletes", ![r].doomed = StoredPairs]
    /\ UNCHANGED <<now, code, refresh, access, recorded, revoked, issued, known, over>>

ForgetsGrant(r) == recorded' = (recorded /\ tokenRequest[r].doomed # {})

Delete(r) ==
    /\ tokenRequest[r].stage = "deletes"
    /\ \/ \E n \in tokenRequest[r].doomed :
            /\ \/ refresh' = [refresh EXCEPT ![n] = NoToken] /\ UNCHANGED <<access, tokenRequest>>
               \/ /\ refresh[n].state = "none" /\ access' = [access EXCEPT ![n] = 0]
                  /\ tokenRequest' = [tokenRequest EXCEPT ![r].doomed = @ \ {n}]
                  /\ UNCHANGED refresh
            /\ UNCHANGED over
       \/ /\ tokenRequest[r].doomed = {} /\ over' = TRUE /\ RequestEnds(r)
          /\ UNCHANGED <<refresh, access>>
    /\ ForgetsGrant(r)
    /\ UNCHANGED <<now, code, revoked, issued, known>>

-----------------------------------------------------------------------------
(* The process dies, or the store gives up under contention.               *)
RequestFails(r) ==
    /\ tokenRequest[r].stage # "idle" /\ RequestEnds(r)
    /\ UNCHANGED <<now, code, refresh, access, recorded, revoked, issued, known, over>>

(* The store may drop what has expired.                                    *)
DropExpired ==
    /\ \/ /\ code.state # "none" /\ code.until <= now
          /\ code' = NoToken /\ UNCHANGED <<refresh, access, recorded>>
       \/ \E n \in Pairs :
            /\ refresh[n].state # "none" /\ refresh[n].until <= now
            /\ refresh' = [refresh EXCEPT ![n] = NoToken] /\ UNCHANGED <<code, access, recorded>>
       \/ \E n \in Pairs :
            /\ access[n] # 0 /\ access[n] <= now
            /\ access' = [access EXCEPT ![n] = 0] /\ UNCHANGED <<code, refresh, recorded>>
       \/ recorded /\ GrantTtl <= now /\ recorded' = FALSE /\ UNCHANGED <<code, refresh, access>>
    /\ UNCHANGED <<now, revoked, tokenRequest, issued, known, over>>

GrantTick ==
    /\ now < GrantMaxTime /\ now' = now + 1
    /\ \A r \in TokenRequests : tokenRequest[r].stage # "idle" => now < tokenRequest[r].began + Slowest
    /\ UNCHANGED <<code, refresh, access, recorded, revoked, tokenRequest, issued, known, over>>

GrantNext ==
    \/ \E r \in TokenRequests :
        \/ RedeemCode(r) \/ Rotate(r) \/ Revoke(r)
        \/ SaveGrant(r) \/ SaveRefresh(r) \/ SaveAccess(r) \/ Answer(r)
        \/ Mark(r) \/ List(r) \/ Delete(r)
        \/ RequestFails(r)
    \/ DropExpired \/ GrantTick

GrantSpec == GrantInit /\ [][GrantNext]_grantVars

-----------------------------------------------------------------------------
(* The resource server accepts an access token that is stored and has not  *)
(* expired; the token endpoint rotates such a refresh token once.          *)
TokenWorks(n) == access[n] > now

Rotatable(n) == refresh[n].state = "fresh" /\ refresh[n].until > now

(* Tokens are numbered as they are saved, and an access token follows its  *)
(* refresh token.                                                          *)
GrantTypeOK ==
    /\ now \in 0 .. GrantMaxTime /\ issued \in 0 .. MaxTokens
    /\ code \in [state : {"none", "fresh", "used"}, until : 0 .. CodeTtl]
    /\ refresh \in [Pairs -> [state : {"none", "fresh", "used"}, until : 0 .. GrantTtl]]
    /\ access \in [Pairs -> 0 .. GrantTtl]
    /\ recorded \in BOOLEAN /\ over \in BOOLEAN /\ known \subseteq 1 .. issued
    /\ revoked \in 0 .. GrantMaxTime + RevokeTtl
    /\ tokenRequest \in [TokenRequests -> [stage : {"idle", "grants", "saves", "access", "answers",
                                          "marks", "lists", "deletes"},
                                 began : 0 .. GrantMaxTime, at : 0 .. GrantMaxTime,
                                 pair : 0 .. MaxTokens, doomed : SUBSET Pairs]]
    /\ \A n \in Pairs : n > issued => n \notin StoredPairs

(* Once a revocation has answered, whether it came from a reused code, a   *)
(* reused refresh token or the revoke endpoint, no token of the grant      *)
(* works or can be rotated again, though other requests were about to save *)
(* theirs.                                                                 *)
RevokedForGood == over => \A n \in Pairs : ~TokenWorks(n) /\ ~Rotatable(n)

(* Rotation: however many requests present the code or a refresh token at  *)
(* once, the grant has one refresh token that can be rotated at most.      *)
OneRotates == Cardinality({n \in Pairs : Rotatable(n)}) <= 1

(* listGrants shows the owner every grant of which something works, so he  *)
(* can revoke it, also while it is being revoked.                          *)
Listed == (\E n \in Pairs : TokenWorks(n) \/ Rotatable(n)) => recorded

(* "A rotation never moves it": nothing of a grant works after its end.    *)
EndsWithGrant == now >= GrantTtl => \A n \in Pairs : ~TokenWorks(n) /\ ~Rotatable(n)

(* Rotation and revocation under any interleaving of requests that read,   *)
(* then commit.                                                            *)
GrantSafe == RevokedForGood /\ OneRotates /\ Listed /\ EndsWithGrant
=============================================================================
