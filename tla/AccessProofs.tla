---------------------------- MODULE AccessProofs -----------------------------
(***************************************************************************)
(* Proofs about who may use or gets what: the tokens of a grant (McpGrant),*)
(* for any number of requests and any lifetimes its assumption admits, the *)
(* the consents of its owner (McpConsent), for any requests, addresses and *)
(* limits, the account of an address (Accounts), for any calls, users and  *)
(* sessions, and an issue mailed to a list (SendIssue), for any processes  *)
(* and lists.                                                              *)
(***************************************************************************)
EXTENDS McpGrant, McpConsent, Accounts, SendIssue, FiniteSetTheorems, TLAPS

(* The grant of the MCP authorization server.                              *)

GrantStages == {"idle", "grants", "saves", "access", "answers", "marks", "lists", "deletes"}
TokenStates == {"none", "fresh", "used"}
Token(ttl) == [state : TokenStates, until : 0 .. ttl]
TokenRequest == [stage : GrantStages, began : 0 .. GrantMaxTime, at : 0 .. GrantMaxTime,
                 pair : 0 .. MaxTokens, doomed : SUBSET Pairs]

(* A request lasts no longer than Slowest, and knows the pair it saves.    *)
InTime(x, t) == x.stage # "idle" => x.at = x.began /\ x.began <= t /\ t <= x.began + Slowest
HasPair(x, top) == x.stage \in {"access", "answers"} => x.pair \in 1 .. top

(* The grant is one right to a refresh token: an unused code, a request    *)
(* that spent one, or an unused refresh token.                             *)
Spends(x) == x.stage \in {"grants", "saves"}
OneRight ==
    /\ code.state = "fresh" =>
          issued = 0 /\ ~over /\ \A r \in TokenRequests : tokenRequest[r].stage = "idle"
    /\ \A r, q \in TokenRequests : Spends(tokenRequest[r]) /\ Spends(tokenRequest[q]) => r = q
    /\ \A r \in TokenRequests : Spends(tokenRequest[r]) => \A n \in Pairs : refresh[n].state # "fresh"
    /\ \A n, m \in Pairs : refresh[n].state = "fresh" /\ refresh[m].state = "fresh" => n = m

(* A request that cannot save before the mark of a revocation is over.     *)
Barred(x, until) == x.began + Slowest < until

(* A revocation under way has everything that is stored on its list, since *)
(* its mark outlives it.                                                   *)
RevokeInv ==
    \A r \in TokenRequests :
        /\ tokenRequest[r].stage \in {"lists", "deletes"} => revoked >= tokenRequest[r].began + RevokeTtl
        /\ tokenRequest[r].stage = "deletes" => StoredPairs \subseteq tokenRequest[r].doomed

(* Once one is over, no request that may save is in time.                  *)
OverInv ==
    over => \A r \in TokenRequests :
                tokenRequest[r].stage \in {"grants", "saves", "access"} => Barred(tokenRequest[r], revoked)

(* A token is saved only beside the record of its grant, or past its end.  *)
RecordInv ==
    \A r \in TokenRequests :
        tokenRequest[r].stage \in {"saves", "access"} =>
            recorded \/ Barred(tokenRequest[r], revoked) \/ GrantTtl <= now

GrantInv ==
    /\ GrantTypeOK
    /\ \A r \in TokenRequests : InTime(tokenRequest[r], now) /\ HasPair(tokenRequest[r], issued)
    /\ OneRight /\ RevokeInv /\ OverInv /\ RecordInv
    /\ RevokedForGood /\ Listed

LEMMA GrantNumbers ==
    /\ CodeTtl \in Nat \ {0} /\ AccessTtl \in Nat \ {0} /\ RefreshTtl \in Nat \ {0}
    /\ GrantTtl \in Nat \ {0} /\ MaxTokens \in Nat \ {0}
    /\ Slowest \in Nat /\ GrantMaxTime \in Nat /\ RevokeTtl \in Nat /\ 2 * Slowest < RevokeTtl
  BY McpGrantAssumption DEF RevokeTtl

LEMMA GrantStarts == GrantInit => GrantInv
<1> SUFFICES ASSUME GrantInit PROVE GrantInv
  OBVIOUS
<1> USE GrantNumbers
<1>1. /\ \A r \in TokenRequests : tokenRequest[r] = NoRequest
      /\ \A n \in Pairs : refresh[n] = NoToken /\ access[n] = 0
      /\ NoRequest \in TokenRequest /\ NoToken \in Token(GrantTtl)
      /\ NoRequest.stage = "idle" /\ NoToken.state = "none"
  BY DEF GrantInit, NoRequest, NoToken, TokenRequest, Token, GrantStages, TokenStates
<1>2. StoredPairs = {}
  BY <1>1 DEF StoredPairs
<1>3. refresh \in [Pairs -> Token(GrantTtl)] /\ access \in [Pairs -> 0 .. GrantTtl]
      /\ tokenRequest \in [TokenRequests -> TokenRequest] /\ code \in Token(CodeTtl)
  BY <1>1 DEF GrantInit, Token, TokenStates
<1>4. GrantTypeOK
  <2>1. /\ now \in 0 .. GrantMaxTime /\ issued \in 0 .. MaxTokens /\ known \subseteq 1 .. issued
        /\ revoked \in 0 .. GrantMaxTime + RevokeTtl
        /\ recorded \in BOOLEAN /\ over \in BOOLEAN
    <3>1. now = 0 /\ issued = 0 /\ revoked = 0
      BY DEF GrantInit
    <3>2. known = {} /\ recorded = FALSE /\ over = FALSE
      BY DEF GrantInit
    <3>3. now \in 0 .. GrantMaxTime /\ issued \in 0 .. MaxTokens
      BY <3>1
    <3>4. revoked \in 0 .. GrantMaxTime + RevokeTtl
      BY <3>1
    <3>5. known \subseteq 1 .. issued
      BY <3>2
    <3>6. recorded \in BOOLEAN /\ over \in BOOLEAN
      BY <3>2
    <3> QED
      BY <3>3, <3>4, <3>5, <3>6
  <2> QED
    BY <1>2, <1>3, <2>1 DEF GrantTypeOK, Token, TokenStates, TokenRequest, GrantStages
<1>5. OneRight /\ RevokeInv /\ OverInv /\ RecordInv
  BY <1>1, <1>2 DEF GrantInit, OneRight, RevokeInv, OverInv, RecordInv, Spends
<1>6. RevokedForGood /\ Listed
  BY <1>1 DEF GrantInit, RevokedForGood, Listed, TokenWorks, Rotatable
<1> QED
  BY <1>1, <1>4, <1>5, <1>6 DEF GrantInv, InTime, HasPair

(* The parts of the state as sets of records.                              *)
LEMMA GrantTypes ==
    ASSUME GrantTypeOK
    PROVE  /\ now \in 0 .. GrantMaxTime /\ issued \in 0 .. MaxTokens
           /\ code \in Token(CodeTtl) /\ refresh \in [Pairs -> Token(GrantTtl)]
           /\ access \in [Pairs -> 0 .. GrantTtl]
           /\ recorded \in BOOLEAN /\ over \in BOOLEAN /\ known \subseteq 1 .. issued
           /\ revoked \in 0 .. GrantMaxTime + RevokeTtl
           /\ tokenRequest \in [TokenRequests -> TokenRequest]
  BY DEF GrantTypeOK, Token, TokenStates, TokenRequest, GrantStages

(* What may be used of the grant grew nowhere: a step that begins, ends or *)
(* moves one request and lets tokens go keeps the invariant.               *)
LEMMA SmallSteps ==
    ASSUME GrantInv, NEW r \in TokenRequests, NEW x \in TokenRequest,
           tokenRequest' = [tokenRequest EXCEPT ![r] = x],
           x.stage \notin {"grants", "saves", "access", "lists", "deletes"} \/ x = tokenRequest[r],
           InTime(x, now), HasPair(x, issued),
           x.stage # "idle" => code'.state # "fresh",
           code' \in Token(CodeTtl), code'.state = "fresh" => code.state = "fresh",
           refresh' \in [Pairs -> Token(GrantTtl)], access' \in [Pairs -> 0 .. GrantTtl],
           \A n \in Pairs :
               /\ refresh'[n].state = "fresh" => refresh[n] = refresh'[n]
               /\ refresh'[n].state # "none" => refresh[n].state # "none"
               /\ access'[n] \in {0, access[n]},
           known' \subseteq 1 .. issued,
           UNCHANGED <<now, recorded, revoked, issued, over>>
    PROVE  GrantInv'
<1> USE GrantNumbers
<1>1. /\ now \in 0 .. GrantMaxTime /\ issued \in 0 .. MaxTokens
      /\ refresh \in [Pairs -> Token(GrantTtl)] /\ access \in [Pairs -> 0 .. GrantTtl]
      /\ recorded \in BOOLEAN /\ over \in BOOLEAN
      /\ revoked \in 0 .. GrantMaxTime + RevokeTtl
      /\ tokenRequest \in [TokenRequests -> TokenRequest]
  BY GrantTypes DEF GrantInv
<1>2. tokenRequest' \in [TokenRequests -> TokenRequest] /\ tokenRequest'[r] = x
      /\ \A q \in TokenRequests \ {r} : tokenRequest'[q] = tokenRequest[q]
  BY <1>1
<1>3. StoredPairs' \subseteq StoredPairs
  BY <1>1 DEF StoredPairs
<1>4. GrantTypeOK'
  BY <1>1, <1>2, <1>3 DEF GrantInv, GrantTypeOK, Token, TokenStates, TokenRequest, GrantStages
<1>5. \A n \in Pairs : (TokenWorks(n)' => TokenWorks(n)) /\ (Rotatable(n)' => Rotatable(n))
  BY <1>1 DEF TokenWorks, Rotatable
<1>6. RevokedForGood' /\ Listed'
  BY <1>5 DEF GrantInv, RevokedForGood, Listed
<1>7. OneRight'
  BY <1>1, <1>2 DEF GrantInv, OneRight, Spends
<1>8. RevokeInv' /\ OverInv' /\ RecordInv'
  BY <1>1, <1>2, <1>3 DEF GrantInv, RevokeInv, OverInv, RecordInv
<1>9. \A q \in TokenRequests : InTime(tokenRequest[q], now)' /\ HasPair(tokenRequest[q], issued)'
  BY <1>1, <1>2 DEF GrantInv
<1> QED
  BY <1>4, <1>6, <1>7, <1>8, <1>9 DEF GrantInv

LEMMA RequestIs ==
    ASSUME GrantInv, NEW r \in TokenRequests
    PROVE  /\ NoRequest \in TokenRequest /\ NoRequest.stage = "idle"
           /\ \A s \in GrantStages :
                 LET x == [tokenRequest[r] EXCEPT !.stage = s]
                 IN  /\ x \in TokenRequest /\ x.stage = s /\ x.began = tokenRequest[r].began
                     /\ x.at = tokenRequest[r].at /\ x.pair = tokenRequest[r].pair
                     /\ x.doomed = tokenRequest[r].doomed
           /\ \A s \in GrantStages :
                 LET x == [NoRequest EXCEPT !.stage = s, !.began = now, !.at = now]
                 IN  /\ x \in TokenRequest /\ x.stage = s /\ x.began = now /\ x.at = now
<1>1. tokenRequest[r] \in TokenRequest /\ now \in 0 .. GrantMaxTime
  BY GrantTypes DEF GrantInv
<1>2. 0 \in 0 .. GrantMaxTime /\ 0 \in 0 .. MaxTokens
  BY GrantNumbers
<1> QED
  BY <1>1, <1>2 DEF NoRequest, TokenRequest, GrantStages

(* A request ends, and nothing else changes but what a client was told.    *)
LEMMA EndingKeeps ==
    ASSUME GrantInv, NEW r \in TokenRequests, RequestEnds(r), known' \subseteq 1 .. issued,
           UNCHANGED <<now, code, refresh, access, recorded, revoked, issued, over>>
    PROVE  GrantInv'
<1>1. /\ NoRequest \in TokenRequest /\ NoRequest.stage = "idle"
      /\ tokenRequest' = [tokenRequest EXCEPT ![r] = NoRequest]
      /\ code \in Token(CodeTtl) /\ refresh \in [Pairs -> Token(GrantTtl)]
      /\ access \in [Pairs -> 0 .. GrantTtl]
  BY RequestIs, GrantTypes DEF GrantInv, RequestEnds
<1> QED
  BY <1>1, SmallSteps DEF InTime, HasPair

LEMMA SpentIs ==
    ASSUME NEW ttl \in Nat, NEW token \in Token(ttl)
    PROVE  /\ SpentToken(token) \in Token(ttl) /\ SpentToken(token).state # "fresh"
           /\ SpentToken(token).state # "none" => token.state # "none"
  BY DEF SpentToken, Token, TokenStates

(* A code or a refresh token is presented, and what follows of that begins *)
(* no right to a token.                                                    *)
LEMMA RefusalKeeps ==
    ASSUME GrantInv, NEW r \in TokenRequests, tokenRequest[r].stage = "idle",
           UNCHANGED tokenRequest \/ (Begins(r, "marks") /\ code'.state # "fresh"),
           code' \in Token(CodeTtl), code'.state = "fresh" => code.state = "fresh",
           refresh' \in [Pairs -> Token(GrantTtl)], access' \in [Pairs -> 0 .. GrantTtl],
           \A n \in Pairs :
               /\ refresh'[n].state = "fresh" => refresh[n] = refresh'[n]
               /\ refresh'[n].state # "none" => refresh[n].state # "none"
               /\ access'[n] \in {0, access[n]},
           UNCHANGED <<now, recorded, revoked, issued, known, over>>
    PROVE  GrantInv'
<1>1. tokenRequest \in [TokenRequests -> TokenRequest] /\ known \subseteq 1 .. issued
      /\ now \in Nat /\ Slowest \in Nat
  BY GrantTypes, GrantNumbers DEF GrantInv
<1>2. CASE UNCHANGED tokenRequest
  <2>1. tokenRequest' = [tokenRequest EXCEPT ![r] = tokenRequest[r]]
    BY <1>1, <1>2
  <2>2. InTime(tokenRequest[r], now) /\ HasPair(tokenRequest[r], issued)
    BY DEF GrantInv
  <2> QED
    BY <1>1, <2>1, <2>2, SmallSteps
<1>3. CASE Begins(r, "marks") /\ code'.state # "fresh"
  <2> DEFINE x == [NoRequest EXCEPT !.stage = "marks", !.began = now, !.at = now]
  <2>1. x \in TokenRequest /\ x.stage = "marks" /\ x.began = now /\ x.at = now
    BY RequestIs DEF GrantStages
  <2>2. tokenRequest' = [tokenRequest EXCEPT ![r] = x]
    BY <1>3 DEF Begins
  <2> HIDE DEF x
  <2>3. InTime(x, now) /\ HasPair(x, issued)
    BY <1>1, <2>1 DEF InTime, HasPair
  <2> QED
    BY <1>1, <1>3, <2>1, <2>2, <2>3, SmallSteps
<1> QED
  BY <1>2, <1>3

LEMMA NewRequestIs ==
    ASSUME GrantInv, NEW r \in TokenRequests, NEW s \in GrantStages
    PROVE  /\ [NoRequest EXCEPT !.stage = s, !.began = now, !.at = now] \in TokenRequest
           /\ [NoRequest EXCEPT !.stage = s, !.began = now, !.at = now].stage = s
           /\ [NoRequest EXCEPT !.stage = s, !.began = now, !.at = now].began = now
           /\ [NoRequest EXCEPT !.stage = s, !.began = now, !.at = now].at = now
  BY RequestIs

(* A code or refresh token that still counts is spent by a request that    *)
(* may save in its place.                                                  *)
LEMMA SpendingKeeps ==
    ASSUME GrantInv, NEW r \in TokenRequests, NEW s \in {"grants", "saves"},
           tokenRequest[r].stage = "idle", Begins(r, s),
           s = "saves" => ~over /\ recorded,
           s = "grants" => ~over,
           code' \in Token(CodeTtl), refresh' \in [Pairs -> Token(GrantTtl)],
           code'.state # "fresh",
           \A n \in Pairs : /\ refresh'[n].state # "fresh"
                            /\ refresh'[n].state # "none" => refresh[n].state # "none",
           \A q \in TokenRequests : ~Spends(tokenRequest[q]),
           UNCHANGED <<now, access, recorded, revoked, issued, known, over>>
    PROVE  GrantInv'
<1> DEFINE x == [NoRequest EXCEPT !.stage = s, !.began = now, !.at = now]
<1>0. s \in GrantStages
  BY DEF GrantStages
<1>1. x \in TokenRequest /\ x.stage = s /\ x.began = now /\ x.at = now
  BY <1>0, NewRequestIs
<1> USE GrantNumbers
<1>2. tokenRequest' = [tokenRequest EXCEPT ![r] = x]
  BY DEF Begins
<1> HIDE DEF x
<1>3. /\ now \in 0 .. GrantMaxTime /\ issued \in 0 .. MaxTokens
      /\ refresh \in [Pairs -> Token(GrantTtl)] /\ access \in [Pairs -> 0 .. GrantTtl]
      /\ recorded \in BOOLEAN /\ over \in BOOLEAN /\ known \subseteq 1 .. issued
      /\ revoked \in 0 .. GrantMaxTime + RevokeTtl
      /\ tokenRequest \in [TokenRequests -> TokenRequest]
  BY GrantTypes DEF GrantInv
<1>4. tokenRequest' \in [TokenRequests -> TokenRequest] /\ tokenRequest'[r] = x
      /\ \A q \in TokenRequests \ {r} : tokenRequest'[q] = tokenRequest[q]
  BY <1>1, <1>2, <1>3
<1>5. StoredPairs' \subseteq StoredPairs
  BY <1>3 DEF StoredPairs
<1>6. GrantTypeOK'
  BY <1>3, <1>4, <1>5 DEF GrantInv, GrantTypeOK, Token, TokenStates, TokenRequest, GrantStages
<1>7. RevokedForGood' /\ Listed'
  BY DEF GrantInv, RevokedForGood, Listed, TokenWorks, Rotatable
<1>8. OneRight'
  BY <1>1, <1>3, <1>4 DEF OneRight, Spends
<1>9. RevokeInv' /\ OverInv' /\ RecordInv'
  BY <1>1, <1>3, <1>4, <1>5 DEF GrantInv, RevokeInv, OverInv, RecordInv
<1>10. \A q \in TokenRequests : InTime(tokenRequest[q], now)' /\ HasPair(tokenRequest[q], issued)'
  BY <1>1, <1>3, <1>4 DEF GrantInv, InTime, HasPair
<1> QED
  BY <1>6, <1>7, <1>8, <1>9, <1>10 DEF GrantInv

LEMMA RedeemKeeps ==
    ASSUME GrantInv, NEW r \in TokenRequests, RedeemCode(r)
    PROVE  GrantInv'
<1> USE GrantNumbers
<1>1. /\ code \in Token(CodeTtl) /\ refresh \in [Pairs -> Token(GrantTtl)]
      /\ access \in [Pairs -> 0 .. GrantTtl] /\ issued \in Nat
  BY GrantTypes DEF GrantInv
<1>2. /\ tokenRequest[r].stage = "idle" /\ code' = SpentToken(code) /\ Presented(r, code, "grants")
      /\ UNCHANGED <<now, refresh, access, recorded, revoked, issued, known, over>>
  BY DEF RedeemCode
<1>3. code' \in Token(CodeTtl) /\ code'.state # "fresh"
  BY <1>1, <1>2, SpentIs
<1>4. CASE code.state = "fresh" /\ Begins(r, "grants")
  <2>1. ~over /\ \A q \in TokenRequests : ~Spends(tokenRequest[q])
    BY <1>4 DEF GrantInv, OneRight, Spends
  <2>2. \A n \in Pairs : refresh[n].state # "fresh"
    BY <1>4, <1>1 DEF GrantInv, OneRight, GrantTypeOK, StoredPairs, Pairs
  <2> QED
    BY <1>1, <1>2, <1>3, <1>4, <2>1, <2>2, SpendingKeeps
<1>5. CASE UNCHANGED tokenRequest \/ Begins(r, "marks")
  BY <1>1, <1>2, <1>3, <1>5, RefusalKeeps
<1> QED
  BY <1>1, <1>2, <1>4, <1>5 DEF Presented, Token, TokenStates

LEMMA RotateKeeps ==
    ASSUME GrantInv, NEW r \in TokenRequests, Rotate(r)
    PROVE  GrantInv'
<1> USE GrantNumbers
<1>1. /\ code \in Token(CodeTtl) /\ refresh \in [Pairs -> Token(GrantTtl)]
      /\ access \in [Pairs -> 0 .. GrantTtl] /\ issued \in 0 .. MaxTokens /\ known \subseteq 1 .. issued
  BY GrantTypes DEF GrantInv
<1>2. PICK n \in known :
        refresh' = [refresh EXCEPT ![n] = SpentToken(@)] /\ Presented(r, refresh[n], "saves")
  BY DEF Rotate
<1>3. /\ tokenRequest[r].stage = "idle"
      /\ UNCHANGED <<now, code, access, recorded, revoked, issued, known, over>>
  BY DEF Rotate
<1>4. n \in Pairs /\ issued > 0
  BY <1>1 DEF Pairs
<1>5. code.state # "fresh"
  BY <1>1, <1>4 DEF GrantInv, OneRight
<1>6. /\ refresh' \in [Pairs -> Token(GrantTtl)] /\ refresh'[n] = SpentToken(refresh[n])
      /\ \A m \in Pairs \ {n} : refresh'[m] = refresh[m]
      /\ refresh'[n].state # "fresh" /\ (refresh'[n].state # "none" => refresh[n].state # "none")
  BY <1>1, <1>2, <1>4, SpentIs
<1>7. CASE refresh[n].state = "fresh" /\ refresh[n].until > now /\ Begins(r, "saves")
  <2>1. ~over /\ recorded
    BY <1>4, <1>7 DEF GrantInv, RevokedForGood, Listed, Rotatable
  <2>2. \A q \in TokenRequests : ~Spends(tokenRequest[q])
    BY <1>4, <1>7 DEF GrantInv, OneRight
  <2>3. \A m \in Pairs : refresh'[m].state # "fresh"
    BY <1>4, <1>6, <1>7 DEF GrantInv, OneRight
  <2> QED
    BY <1>1, <1>3, <1>5, <1>6, <1>7, <2>1, <2>2, <2>3, SpendingKeeps
<1>8. CASE UNCHANGED tokenRequest \/ Begins(r, "marks")
  BY <1>1, <1>3, <1>5, <1>6, <1>8, RefusalKeeps
<1>9. refresh[n].state \in TokenStates
  BY <1>1, <1>4 DEF Token
<1> QED
  BY <1>2, <1>7, <1>8, <1>9 DEF Presented, TokenStates

LEMMA RevokeKeeps ==
    ASSUME GrantInv, NEW r \in TokenRequests, Revoke(r)
    PROVE  GrantInv'
<1>1. /\ code \in Token(CodeTtl) /\ refresh \in [Pairs -> Token(GrantTtl)]
      /\ access \in [Pairs -> 0 .. GrantTtl] /\ issued \in 0 .. MaxTokens /\ known \subseteq 1 .. issued
  BY GrantTypes DEF GrantInv
<1>2. PICK n \in known :
        \/ refresh[n].state # "none" /\ Begins(r, "marks") /\ UNCHANGED access
        \/ access' = [access EXCEPT ![n] = 0] /\ UNCHANGED tokenRequest
  BY DEF Revoke
<1>3. /\ tokenRequest[r].stage = "idle"
      /\ UNCHANGED <<now, code, refresh, recorded, revoked, issued, known, over>>
  BY DEF Revoke
<1>4. code.state # "fresh"
  BY <1>1, <1>2, GrantNumbers DEF GrantInv, OneRight
<1>5. 0 \in 0 .. GrantTtl
  BY GrantNumbers
<1>6. access' \in [Pairs -> 0 .. GrantTtl] /\ \A m \in Pairs : access'[m] \in {0, access[m]}
  BY <1>1, <1>2, <1>5
<1> QED
  BY <1>1, <1>2, <1>3, <1>4, <1>6, RefusalKeeps

(* A request moves on while the store and the clock stay: what it may do   *)
(* next is for the caller to show.                                         *)
LEMMA SavesKeep ==
    ASSUME GrantInv, NEW r \in TokenRequests, NEW x \in TokenRequest,
           tokenRequest' = [tokenRequest EXCEPT ![r] = x], ~Refuses,
           tokenRequest[r].stage \in {"grants", "saves", "access"},
           x.stage \in {"saves", "access", "answers"},
           x.began = tokenRequest[r].began, x.at = tokenRequest[r].at,
           HasPair(x, issued'), issued' \in issued .. MaxTokens,
           x.stage = "saves" => tokenRequest[r].stage = "grants" /\ recorded',
           x.stage = "access" => tokenRequest[r].stage = "saves",
           recorded' \in BOOLEAN, recorded => recorded',
           refresh' \in [Pairs -> Token(GrantTtl)], access' \in [Pairs -> 0 .. GrantTtl],
           \A n \in Pairs : n > issued' => refresh'[n].state = "none" /\ access'[n] = 0,
           \A n, m \in Pairs : refresh'[n].state = "fresh" /\ refresh'[m].state = "fresh" => n = m,
           x.stage = "saves" => refresh' = refresh,
           (\E n \in Pairs : refresh'[n].state = "fresh") =>
               refresh' = refresh \/ (Spends(tokenRequest[r]) /\ ~Spends(x)),
           Listed',
           UNCHANGED <<now, code, revoked, known, over>>
    PROVE  GrantInv'
<1> USE GrantNumbers
<1>1. /\ now \in 0 .. GrantMaxTime /\ issued \in 0 .. MaxTokens /\ code \in Token(CodeTtl)
      /\ refresh \in [Pairs -> Token(GrantTtl)] /\ access \in [Pairs -> 0 .. GrantTtl]
      /\ recorded \in BOOLEAN /\ over \in BOOLEAN /\ known \subseteq 1 .. issued
      /\ revoked \in 0 .. GrantMaxTime + RevokeTtl
      /\ tokenRequest \in [TokenRequests -> TokenRequest]
  BY GrantTypes DEF GrantInv
<1>2. tokenRequest' \in [TokenRequests -> TokenRequest] /\ tokenRequest'[r] = x
      /\ \A q \in TokenRequests \ {r} : tokenRequest'[q] = tokenRequest[q]
  BY <1>1
<1>3. InTime(tokenRequest[r], now) /\ revoked <= now
  BY <1>1 DEF GrantInv, Refuses
<1>4. ~Barred(tokenRequest[r], revoked) /\ ~over
  BY <1>1, <1>3 DEF GrantInv, OverInv, InTime, Barred, TokenRequest
<1>5. \A q \in TokenRequests : tokenRequest[q].stage \notin {"lists", "deletes"}
  <2> SUFFICES ASSUME NEW q \in TokenRequests, tokenRequest[q].stage \in {"lists", "deletes"}
               PROVE  FALSE
    OBVIOUS
  <2>1. tokenRequest[q].began + RevokeTtl <= now /\ now <= tokenRequest[q].began + Slowest
    BY <1>1, <1>3 DEF GrantInv, RevokeInv, InTime, TokenRequest
  <2> QED
    BY <1>1, <2>1 DEF TokenRequest
<1>6. GrantTypeOK'
  <2>1. known' \subseteq 1 .. issued' /\ issued' \in 0 .. MaxTokens
    BY <1>1
  <2> QED
    BY <1>1, <1>2, <2>1 DEF GrantTypeOK, Token, TokenStates, TokenRequest, GrantStages, StoredPairs
<1>7. OneRight'
  <2>1. code.state # "fresh"
    BY DEF GrantInv, OneRight
  <2>2. \A q, p \in TokenRequests : Spends(tokenRequest'[q]) /\ Spends(tokenRequest'[p]) => q = p
    BY <1>2 DEF GrantInv, OneRight, Spends
  <2>3. ASSUME NEW q \in TokenRequests, Spends(tokenRequest'[q]), NEW n \in Pairs
        PROVE  refresh'[n].state # "fresh"
    <3>1. CASE q = r
      BY <1>2, <2>3, <3>1 DEF GrantInv, OneRight, Spends
    <3>2. CASE q # r
      BY <1>2, <2>3, <3>2 DEF GrantInv, OneRight
    <3> QED
      BY <3>1, <3>2
  <2> QED
    BY <2>1, <2>2, <2>3 DEF OneRight
<1>8. RevokeInv' /\ OverInv' /\ RevokedForGood'
  BY <1>2, <1>4, <1>5 DEF RevokeInv, OverInv, RevokedForGood
<1>9. RecordInv'
  <2> SUFFICES ASSUME NEW q \in TokenRequests, tokenRequest'[q].stage \in {"saves", "access"}
               PROVE  recorded' \/ Barred(tokenRequest'[q], revoked') \/ GrantTtl <= now'
    BY DEF RecordInv
  <2>1. CASE q = r
    BY <1>2, <1>4, <2>1 DEF GrantInv, RecordInv
  <2>2. CASE q # r
    BY <1>2, <2>2 DEF GrantInv, RecordInv
  <2> QED
    BY <2>1, <2>2
<1>10. \A q \in TokenRequests : InTime(tokenRequest[q], now)' /\ HasPair(tokenRequest[q], issued)'
  <2>1. \A q \in TokenRequests \ {r} : HasPair(tokenRequest[q], issued')
    BY <1>1 DEF GrantInv, HasPair, TokenRequest
  <2> QED
    BY <1>1, <1>2, <1>3, <2>1 DEF GrantInv, InTime
<1> QED
  BY <1>6, <1>7, <1>8, <1>9, <1>10 DEF GrantInv

LEMMA SaveGrantKeeps ==
    ASSUME GrantInv, NEW r \in TokenRequests, SaveGrant(r)
    PROVE  GrantInv'
<1>1. CASE Refuses
  <2>1. known \subseteq 1 .. issued
    BY GrantTypes DEF GrantInv
  <2> QED
    BY <1>1, <2>1, EndingKeeps DEF SaveGrant
<1>2. CASE ~Refuses
  <2> DEFINE x == [tokenRequest[r] EXCEPT !.stage = "saves"]
  <2>1. /\ x \in TokenRequest /\ x.stage = "saves" /\ x.began = tokenRequest[r].began
        /\ x.at = tokenRequest[r].at
    BY RequestIs DEF GrantStages
  <2>2. /\ tokenRequest' = [tokenRequest EXCEPT ![r] = x] /\ recorded'
        /\ tokenRequest[r].stage = "grants" /\ recorded' \in BOOLEAN
        /\ UNCHANGED <<now, code, refresh, access, revoked, issued, known, over>>
    BY <1>2, GrantTypes DEF SaveGrant, GrantInv
  <2> HIDE DEF x
  <2>3. /\ issued \in 0 .. MaxTokens /\ MaxTokens \in Nat
        /\ refresh \in [Pairs -> Token(GrantTtl)] /\ access \in [Pairs -> 0 .. GrantTtl]
    BY GrantTypes, GrantNumbers DEF GrantInv
  <2>4. \A n \in Pairs : n > issued => refresh[n].state = "none" /\ access[n] = 0
    BY DEF GrantInv, GrantTypeOK, StoredPairs
  <2>5. \A n, m \in Pairs : refresh[n].state = "fresh" /\ refresh[m].state = "fresh" => n = m
    BY DEF GrantInv, OneRight
  <2>6. HasPair(x, issued') /\ issued' \in issued .. MaxTokens /\ Listed'
    BY <2>1, <2>2, <2>3 DEF HasPair, Listed
  <2> QED
    BY <1>2, <2>1, <2>2, <2>3, <2>4, <2>5, <2>6, SavesKeep
<1> QED
  BY <1>1, <1>2

LEMMA EndIs ==
    ASSUME NEW ttl \in Nat, NEW at \in Nat
    PROVE  End(ttl, at) \in 0 .. GrantTtl
  BY GrantNumbers DEF End, Lesser

(* A request that may save finds the record of its grant, or its end.      *)
LEMMA SaverFindsRecord ==
    ASSUME GrantInv, NEW r \in TokenRequests, ~Refuses,
           tokenRequest[r].stage \in {"saves", "access"}
    PROVE  recorded \/ GrantTtl <= now
<1>1. now \in Nat /\ revoked \in Nat /\ tokenRequest[r] \in TokenRequest /\ Slowest \in Nat
  BY GrantTypes, GrantNumbers DEF GrantInv
<1>2. InTime(tokenRequest[r], now) /\ RecordInv
  BY DEF GrantInv
<1> QED
  BY <1>1, <1>2 DEF RecordInv, InTime, Barred, Refuses, TokenRequest

LEMMA SaveRefreshKeeps ==
    ASSUME GrantInv, NEW r \in TokenRequests, SaveRefresh(r)
    PROVE  GrantInv'
<1> USE GrantNumbers
<1>1. CASE Refuses
  <2>1. known \subseteq 1 .. issued
    BY GrantTypes DEF GrantInv
  <2> QED
    BY <1>1, <2>1, EndingKeeps DEF SaveRefresh
<1>2. CASE ~Refuses
  <2> DEFINE n == issued + 1
             x == [tokenRequest[r] EXCEPT !.stage = "access", !.pair = n]
             new == [state |-> "fresh", until |-> End(RefreshTtl, tokenRequest[r].at)]
  <2>1. /\ tokenRequest \in [TokenRequests -> TokenRequest] /\ tokenRequest[r] \in TokenRequest
        /\ issued \in 0 .. MaxTokens /\ issued < MaxTokens /\ now \in Nat
        /\ refresh \in [Pairs -> Token(GrantTtl)] /\ access \in [Pairs -> 0 .. GrantTtl]
        /\ recorded \in BOOLEAN
    BY GrantTypes DEF GrantInv, SaveRefresh
  <2>2. n \in Pairs /\ n \in 0 .. MaxTokens /\ n \in 1 .. n /\ n \in issued .. MaxTokens
    BY <2>1 DEF Pairs
  <2>3. /\ x \in TokenRequest /\ x.stage = "access" /\ x.began = tokenRequest[r].began
        /\ x.at = tokenRequest[r].at /\ x.pair = n
    BY <2>1, <2>2 DEF TokenRequest, GrantStages
  <2>4. new \in Token(GrantTtl) /\ new.state = "fresh" /\ new.until <= GrantTtl
    <3>1. tokenRequest[r].at \in Nat
      BY <2>1 DEF TokenRequest
    <3>2. End(RefreshTtl, tokenRequest[r].at) \in 0 .. GrantTtl
      BY <3>1, EndIs
    <3> QED
      BY <3>2 DEF Token, TokenStates
  <2>5. /\ tokenRequest' = [tokenRequest EXCEPT ![r] = x] /\ tokenRequest[r].stage = "saves"
        /\ issued' = n /\ refresh' = [refresh EXCEPT ![n] = new]
        /\ UNCHANGED <<now, code, access, recorded, revoked, known, over>>
    BY <1>2 DEF SaveRefresh
  <2> HIDE DEF x, new
  <2>6. /\ refresh' \in [Pairs -> Token(GrantTtl)] /\ refresh'[n] = new
        /\ \A m \in Pairs \ {n} : refresh'[m] = refresh[m]
    BY <2>1, <2>2, <2>4, <2>5
  <2>7. \A m \in Pairs : refresh[m].state # "fresh"
    BY <2>5 DEF GrantInv, OneRight, Spends
  <2>8. \A m \in Pairs : m > n => refresh'[m].state = "none" /\ access'[m] = 0
    BY <2>1, <2>2, <2>5, <2>6 DEF GrantInv, GrantTypeOK, StoredPairs, Pairs
  <2>9. Spends(tokenRequest[r]) /\ ~Spends(x) /\ HasPair(x, issued')
    BY <2>2, <2>3, <2>5 DEF Spends, HasPair
  <2>10. Listed'
    <3>1. recorded \/ GrantTtl <= now
      BY <1>2, <2>5, SaverFindsRecord
    <3>2. CASE recorded
      BY <2>5, <3>2 DEF Listed
    <3>3. CASE GrantTtl <= now
      BY <2>1, <2>5, <2>6, <3>3 DEF Listed, TokenWorks, Rotatable, Token
    <3> QED
      BY <3>1, <3>2, <3>3
  <2> HIDE DEF n
  <2>11. /\ tokenRequest[r].stage \in {"grants", "saves", "access"}
         /\ x.stage \in {"saves", "access", "answers"} /\ x.stage # "saves"
         /\ tokenRequest[r].stage = "saves"
    BY <2>3, <2>5
  <2>12. \A k, m \in Pairs : refresh'[k].state = "fresh" /\ refresh'[m].state = "fresh" => k = m
    BY <2>6, <2>7
  <2>13. issued' \in issued .. MaxTokens /\ \A m \in Pairs :
            m > issued' => refresh'[m].state = "none" /\ access'[m] = 0
    BY <2>2, <2>5, <2>8
  <2>14. access' \in [Pairs -> 0 .. GrantTtl] /\ recorded' \in BOOLEAN /\ (recorded => recorded')
    BY <2>1, <2>5
  <2> QED
    BY <1>2, <2>3, <2>5, <2>6, <2>9, <2>10, <2>11, <2>12, <2>13, <2>14, SavesKeep
<1> QED
  BY <1>1, <1>2

LEMMA SaveAccessKeeps ==
    ASSUME GrantInv, NEW r \in TokenRequests, SaveAccess(r)
    PROVE  GrantInv'
<1> USE GrantNumbers
<1>1. CASE Refuses
  <2>1. known \subseteq 1 .. issued
    BY GrantTypes DEF GrantInv
  <2> QED
    BY <1>1, <2>1, EndingKeeps DEF SaveAccess
<1>2. CASE ~Refuses
  <2> DEFINE x == [tokenRequest[r] EXCEPT !.stage = "answers"]
             n == tokenRequest[r].pair
             until == End(AccessTtl, tokenRequest[r].at)
  <2>1. /\ x \in TokenRequest /\ x.stage = "answers" /\ x.began = tokenRequest[r].began
        /\ x.at = tokenRequest[r].at /\ x.pair = n
    BY RequestIs DEF GrantStages
  <2>2. /\ tokenRequest[r] \in TokenRequest
        /\ issued \in 0 .. MaxTokens /\ now \in Nat
        /\ refresh \in [Pairs -> Token(GrantTtl)] /\ access \in [Pairs -> 0 .. GrantTtl]
        /\ recorded \in BOOLEAN
    BY GrantTypes DEF GrantInv
  <2>3. /\ tokenRequest' = [tokenRequest EXCEPT ![r] = x] /\ tokenRequest[r].stage = "access"
        /\ access' = [access EXCEPT ![n] = until]
        /\ UNCHANGED <<now, code, refresh, recorded, revoked, issued, known, over>>
    BY <1>2 DEF SaveAccess, RequestGoes
  <2>4. n \in 1 .. issued
    BY <2>3 DEF GrantInv, HasPair
  <2>5. until \in 0 .. GrantTtl
    <3>1. tokenRequest[r].at \in Nat
      BY <2>2 DEF TokenRequest
    <3> QED
      BY <3>1, EndIs
  <2> HIDE DEF x, until, n
  <2>6. n \in Pairs /\ ~(n > issued)
    BY <2>2, <2>4 DEF Pairs
  <2>7. /\ access' \in [Pairs -> 0 .. GrantTtl]
        /\ \A m \in Pairs \ {n} : access'[m] = access[m]
    BY <2>2, <2>3, <2>5, <2>6
  <2>8. \A m \in Pairs : m > issued' => refresh'[m].state = "none" /\ access'[m] = 0
    BY <2>3, <2>6, <2>7 DEF GrantInv, GrantTypeOK, StoredPairs
  <2>9. \A p, m \in Pairs : refresh[p].state = "fresh" /\ refresh[m].state = "fresh" => p = m
    BY DEF GrantInv, OneRight
  <2>10. HasPair(x, issued') /\ issued' \in issued .. MaxTokens
    BY <2>1, <2>2, <2>3, <2>4 DEF HasPair
  <2>11. Listed'
    <3>1. recorded \/ GrantTtl <= now
      BY <1>2, <2>3, SaverFindsRecord
    <3>2. CASE recorded
      BY <2>3, <3>2 DEF Listed
    <3>3. CASE GrantTtl <= now
      BY <2>2, <2>3, <2>7, <3>3 DEF Listed, TokenWorks, Rotatable, Token
    <3> QED
      BY <3>1, <3>2, <3>3
  <2> QED
    BY <1>2, <2>1, <2>2, <2>3, <2>7, <2>8, <2>9, <2>10, <2>11, SavesKeep
<1> QED
  BY <1>1, <1>2

LEMMA AnswerKeeps ==
    ASSUME GrantInv, NEW r \in TokenRequests, Answer(r)
    PROVE  GrantInv'
<1>1. known \subseteq 1 .. issued /\ tokenRequest[r].pair \in 1 .. issued
  BY GrantTypes DEF GrantInv, Answer, HasPair
<1>2. known' \subseteq 1 .. issued
  BY <1>1 DEF Answer
<1> QED
  BY <1>2, EndingKeeps DEF Answer

LEMMA FailKeeps ==
    ASSUME GrantInv, NEW r \in TokenRequests, RequestFails(r)
    PROVE  GrantInv'
<1>1. known \subseteq 1 .. issued
  BY GrantTypes DEF GrantInv
<1> QED
  BY <1>1, EndingKeeps DEF RequestFails

(* A revocation moves on, and takes tokens away.                           *)
LEMMA RevocationKeeps ==
    ASSUME GrantInv, NEW r \in TokenRequests, NEW x \in TokenRequest,
           tokenRequest' = [tokenRequest EXCEPT ![r] = x],
           tokenRequest[r].stage \in {"marks", "lists", "deletes"},
           x.stage \in {"idle", "lists", "deletes"},
           x.stage # "idle" => x.began = tokenRequest[r].began /\ x.at = tokenRequest[r].at
                               /\ revoked' >= x.began + RevokeTtl,
           x.stage = "deletes" => StoredPairs' \subseteq x.doomed,
           revoked' \in revoked .. GrantMaxTime + RevokeTtl,
           refresh' \in [Pairs -> Token(GrantTtl)], access' \in [Pairs -> 0 .. GrantTtl],
           \A n \in Pairs :
               /\ refresh'[n].state = "fresh" => refresh[n] = refresh'[n]
               /\ refresh'[n].state # "none" => refresh[n].state # "none"
               /\ access'[n] \in {0, access[n]},
           (recorded' = recorded /\ over' = over)
               \/ (recorded' = FALSE /\ over' = TRUE /\ StoredPairs' = {} /\ x.stage = "idle"
                   /\ tokenRequest[r].stage = "deletes"),
           UNCHANGED <<now, code, issued, known>>
    PROVE  GrantInv'
<1> USE GrantNumbers
<1>1. /\ now \in 0 .. GrantMaxTime /\ issued \in 0 .. MaxTokens /\ code \in Token(CodeTtl)
      /\ refresh \in [Pairs -> Token(GrantTtl)] /\ access \in [Pairs -> 0 .. GrantTtl]
      /\ recorded \in BOOLEAN /\ over \in BOOLEAN /\ known \subseteq 1 .. issued
      /\ revoked \in 0 .. GrantMaxTime + RevokeTtl
      /\ tokenRequest \in [TokenRequests -> TokenRequest]
  BY GrantTypes DEF GrantInv
<1>2. tokenRequest' \in [TokenRequests -> TokenRequest] /\ tokenRequest'[r] = x
      /\ \A q \in TokenRequests \ {r} : tokenRequest'[q] = tokenRequest[q]
  BY <1>1
<1>3. StoredPairs' \subseteq StoredPairs
  BY <1>1 DEF StoredPairs
<1>4. recorded' \in BOOLEAN /\ over' \in BOOLEAN
  BY <1>1
<1>5. revoked' \in 0 .. GrantMaxTime + RevokeTtl /\ revoked' >= revoked
  BY <1>1
<1>6. GrantTypeOK'
  BY <1>1, <1>2, <1>3, <1>4, <1>5
     DEF GrantInv, GrantTypeOK, Token, TokenStates, TokenRequest, GrantStages
<1>7. \A n \in Pairs : (TokenWorks(n)' => TokenWorks(n)) /\ (Rotatable(n)' => Rotatable(n))
  BY <1>1 DEF TokenWorks, Rotatable
<1>8. ASSUME StoredPairs' = {}, NEW n \in Pairs
      PROVE  ~TokenWorks(n)' /\ ~Rotatable(n)'
  BY <1>1, <1>8 DEF StoredPairs, TokenWorks, Rotatable
<1>9. RevokedForGood' /\ Listed'
  <2>1. CASE recorded' = recorded /\ over' = over
    BY <1>7, <2>1 DEF GrantInv, RevokedForGood, Listed
  <2>2. CASE StoredPairs' = {}
    BY <1>8, <2>2 DEF RevokedForGood, Listed
  <2> QED
    BY <2>1, <2>2
<1>10. OneRight'
  <2>1. code.state # "fresh"
    BY DEF GrantInv, OneRight
  <2> QED
    BY <1>1, <1>2, <2>1 DEF GrantInv, OneRight, Spends
<1>11. RevokeInv'
  <2> SUFFICES ASSUME NEW q \in TokenRequests
               PROVE  /\ tokenRequest'[q].stage \in {"lists", "deletes"} =>
                            revoked' >= tokenRequest'[q].began + RevokeTtl
                      /\ tokenRequest'[q].stage = "deletes" => StoredPairs' \subseteq tokenRequest'[q].doomed
    BY DEF RevokeInv
  <2>1. CASE q = r
    BY <1>2, <2>1
  <2>2. CASE q # r
    <3>1. tokenRequest'[q] = tokenRequest[q] /\ tokenRequest[q].began \in Nat
      BY <1>1, <1>2, <2>2 DEF TokenRequest
    <3> QED
      BY <1>1, <1>3, <1>5, <3>1 DEF GrantInv, RevokeInv
  <2> QED
    BY <2>1, <2>2
<1>12. ASSUME NEW q \in TokenRequests, tokenRequest'[q].stage \in {"grants", "saves", "access"}
       PROVE  /\ tokenRequest'[q] = tokenRequest[q] /\ tokenRequest[q].began \in Nat
              /\ Barred(tokenRequest[q], revoked) => Barred(tokenRequest'[q], revoked')
  <2>1. tokenRequest'[q] = tokenRequest[q]
    BY <1>2, <1>12
  <2>2. tokenRequest[q].began \in Nat
    BY <1>1 DEF TokenRequest
  <2> QED
    BY <1>1, <1>5, <2>1, <2>2 DEF Barred
<1>13. ASSUME over' # over, NEW q \in TokenRequests,
              tokenRequest'[q].stage \in {"grants", "saves", "access"}
       PROVE  Barred(tokenRequest[q], revoked)
  <2>1. tokenRequest[r].stage = "deletes"
    BY <1>13
  <2>2. revoked >= tokenRequest[r].began + RevokeTtl /\ now <= tokenRequest[r].began + Slowest
    BY <2>1 DEF GrantInv, RevokeInv, InTime
  <2>3. tokenRequest[q].began <= now
    BY <1>12, <1>13 DEF GrantInv, InTime
  <2>4. tokenRequest[r].began \in Nat /\ tokenRequest[q].began \in Nat
    BY <1>1 DEF TokenRequest
  <2> QED
    BY <1>1, <2>2, <2>3, <2>4 DEF Barred
<1>14. OverInv' /\ RecordInv'
  <2>1. OverInv'
    <3>1. CASE over' = over
      BY <1>12, <3>1 DEF GrantInv, OverInv
    <3>2. CASE over' # over
      BY <1>12, <1>13, <3>2 DEF OverInv
    <3> QED
      BY <3>1, <3>2
  <2>2. RecordInv'
    <3> SUFFICES ASSUME NEW q \in TokenRequests, tokenRequest'[q].stage \in {"saves", "access"}
                 PROVE  recorded' \/ Barred(tokenRequest'[q], revoked') \/ GrantTtl <= now'
      BY DEF RecordInv
    <3>1. recorded \/ Barred(tokenRequest[q], revoked) \/ GrantTtl <= now
      BY <1>12 DEF GrantInv, RecordInv
    <3>2. CASE recorded' = recorded
      BY <1>12, <3>1, <3>2
    <3>3. CASE recorded' # recorded /\ over' # over
      BY <1>12, <1>13, <3>3
    <3>4. CASE recorded' # recorded /\ over' = over
      <4>1. over
        BY <3>4, <1>1
      <4> QED
        BY <1>12, <4>1 DEF GrantInv, OverInv
    <3> QED
      BY <3>2, <3>3, <3>4
  <2> QED
    BY <2>1, <2>2
<1>15. \A q \in TokenRequests : InTime(tokenRequest[q], now)' /\ HasPair(tokenRequest[q], issued)'
  <2>1. InTime(x, now) /\ HasPair(x, issued)
    <3>1. InTime(tokenRequest[r], now)
      BY DEF GrantInv
    <3> QED
      BY <3>1 DEF InTime, HasPair
  <2> QED
    BY <1>2, <2>1 DEF GrantInv
<1> QED
  BY <1>6, <1>9, <1>10, <1>11, <1>14, <1>15 DEF GrantInv

LEMMA MarkKeeps ==
    ASSUME GrantInv, NEW r \in TokenRequests, Mark(r)
    PROVE  GrantInv'
<1> USE GrantNumbers
<1> DEFINE x == [tokenRequest[r] EXCEPT !.stage = "lists"]
<1>1. /\ x \in TokenRequest /\ x.stage = "lists" /\ x.began = tokenRequest[r].began
      /\ x.at = tokenRequest[r].at
  BY RequestIs DEF GrantStages
<1>2. /\ tokenRequest' = [tokenRequest EXCEPT ![r] = x] /\ tokenRequest[r].stage = "marks"
      /\ revoked' = Greater(revoked, tokenRequest[r].at + RevokeTtl)
      /\ UNCHANGED <<now, code, refresh, access, recorded, issued, known, over>>
  BY DEF Mark, RequestGoes
<1> HIDE DEF x
<1>3. /\ refresh \in [Pairs -> Token(GrantTtl)] /\ access \in [Pairs -> 0 .. GrantTtl]
      /\ revoked \in 0 .. GrantMaxTime + RevokeTtl /\ tokenRequest[r] \in TokenRequest
  BY GrantTypes DEF GrantInv
<1>4. tokenRequest[r].at \in 0 .. GrantMaxTime /\ tokenRequest[r].at = tokenRequest[r].began
  BY <1>2, <1>3 DEF GrantInv, InTime, TokenRequest
<1>5. revoked' \in revoked .. GrantMaxTime + RevokeTtl /\ revoked' >= x.began + RevokeTtl
  BY <1>1, <1>2, <1>3, <1>4 DEF Greater
<1> QED
  BY <1>1, <1>2, <1>3, <1>5, RevocationKeeps

LEMMA ListKeeps ==
    ASSUME GrantInv, NEW r \in TokenRequests, List(r)
    PROVE  GrantInv'
<1> USE GrantNumbers
<1> DEFINE x == [tokenRequest[r] EXCEPT !.stage = "deletes", !.doomed = StoredPairs]
<1>1. /\ refresh \in [Pairs -> Token(GrantTtl)] /\ access \in [Pairs -> 0 .. GrantTtl]
      /\ revoked \in 0 .. GrantMaxTime + RevokeTtl /\ tokenRequest[r] \in TokenRequest
  BY GrantTypes DEF GrantInv
<1>2. /\ x \in TokenRequest /\ x.stage = "deletes" /\ x.began = tokenRequest[r].began
      /\ x.at = tokenRequest[r].at /\ x.doomed = StoredPairs
  BY <1>1 DEF TokenRequest, GrantStages, StoredPairs
<1>3. /\ tokenRequest' = [tokenRequest EXCEPT ![r] = x] /\ tokenRequest[r].stage = "lists"
      /\ UNCHANGED <<now, code, refresh, access, recorded, revoked, issued, known, over>>
  BY DEF List
<1> HIDE DEF x
<1>4. revoked' \in revoked .. GrantMaxTime + RevokeTtl /\ revoked' >= x.began + RevokeTtl
  BY <1>1, <1>2, <1>3 DEF GrantInv, RevokeInv
<1>5. StoredPairs' \subseteq x.doomed
  BY <1>2, <1>3 DEF StoredPairs
<1> QED
  BY <1>1, <1>2, <1>3, <1>4, <1>5, RevocationKeeps

LEMMA DeleteKeeps ==
    ASSUME GrantInv, NEW r \in TokenRequests, Delete(r)
    PROVE  GrantInv'
<1> USE GrantNumbers
<1> DEFINE req == tokenRequest[r]
<1>1. /\ refresh \in [Pairs -> Token(GrantTtl)] /\ access \in [Pairs -> 0 .. GrantTtl]
      /\ revoked \in 0 .. GrantMaxTime + RevokeTtl /\ req \in TokenRequest
      /\ tokenRequest \in [TokenRequests -> TokenRequest]
      /\ recorded \in BOOLEAN /\ req.stage = "deletes" /\ req.doomed \subseteq Pairs
      /\ UNCHANGED <<now, code, revoked, issued, known>>
      /\ recorded' = (recorded /\ req.doomed # {})
  BY GrantTypes DEF GrantInv, Delete, TokenRequest, ForgetsGrant
<1>2. revoked' \in revoked .. GrantMaxTime + RevokeTtl /\ revoked' >= req.began + RevokeTtl
      /\ StoredPairs \subseteq req.doomed
  BY <1>1 DEF GrantInv, RevokeInv
<1>3. NoToken \in Token(GrantTtl) /\ NoToken.state = "none" /\ 0 \in 0 .. GrantTtl
  BY DEF NoToken, Token, TokenStates
<1>4. ASSUME NEW n \in req.doomed, refresh' = [refresh EXCEPT ![n] = NoToken],
             UNCHANGED <<access, tokenRequest, over>>
      PROVE  GrantInv'
  <2>1. /\ refresh' \in [Pairs -> Token(GrantTtl)] /\ n \in Pairs /\ refresh'[n] = NoToken
        /\ \A m \in Pairs \ {n} : refresh'[m] = refresh[m]
    BY <1>1, <1>3, <1>4
  <2>2. StoredPairs' \subseteq req.doomed
    BY <1>2, <1>3, <1>4, <2>1 DEF StoredPairs
  <2>3. tokenRequest' = [tokenRequest EXCEPT ![r] = req] /\ recorded' = recorded
    BY <1>1, <1>4
  <2>4. \A m \in Pairs : /\ refresh'[m].state = "fresh" => refresh[m] = refresh'[m]
                         /\ refresh'[m].state # "none" => refresh[m].state # "none"
                         /\ access'[m] \in {0, access[m]}
    BY <1>3, <1>4, <2>1
  <2>5. access' \in [Pairs -> 0 .. GrantTtl] /\ over' = over
    BY <1>1, <1>4
  <2> HIDE DEF req
  <2> QED
    BY <1>1, <1>2, <2>1, <2>2, <2>3, <2>4, <2>5, RevocationKeeps DEF req
<1>5. ASSUME NEW n \in req.doomed, refresh[n].state = "none", access' = [access EXCEPT ![n] = 0],
             tokenRequest' = [tokenRequest EXCEPT ![r].doomed = @ \ {n}],
             UNCHANGED <<refresh, over>>
      PROVE  GrantInv'
  <2> DEFINE x == [req EXCEPT !.doomed = @ \ {n}]
  <2>1. /\ x \in TokenRequest /\ x.stage = "deletes" /\ x.began = req.began /\ x.at = req.at
        /\ x.doomed = req.doomed \ {n}
    BY <1>1 DEF TokenRequest
  <2>2. tokenRequest' = [tokenRequest EXCEPT ![r] = x] /\ recorded' = recorded
    BY <1>1, <1>5
  <2> HIDE DEF x
  <2>3. /\ access' \in [Pairs -> 0 .. GrantTtl] /\ n \in Pairs /\ access'[n] = 0
        /\ \A m \in Pairs \ {n} : access'[m] = access[m]
    BY <1>1, <1>3, <1>5
  <2>4. StoredPairs' \subseteq x.doomed
    BY <1>2, <1>5, <2>1, <2>3 DEF StoredPairs
  <2>5. \A m \in Pairs : access'[m] \in {0, access[m]}
    BY <2>3
  <2>6. refresh' = refresh /\ over' = over /\ refresh' \in [Pairs -> Token(GrantTtl)]
    BY <1>1, <1>5
  <2>7. x.stage \in {"idle", "lists", "deletes"} /\ revoked' >= x.began + RevokeTtl
        /\ tokenRequest[r].stage \in {"marks", "lists", "deletes"}
    BY <1>1, <1>2, <2>1
  <2>8. x.began = tokenRequest[r].began /\ x.at = tokenRequest[r].at
    BY <2>1
  <2> HIDE DEF req
  <2> QED
    BY <1>1, <1>2, <2>1, <2>2, <2>3, <2>4, <2>5, <2>6, <2>7, <2>8, RevocationKeeps
<1>6. ASSUME req.doomed = {}, over' = TRUE, RequestEnds(r), UNCHANGED <<refresh, access>>
      PROVE  GrantInv'
  <2>1. NoRequest \in TokenRequest /\ NoRequest.stage = "idle"
    BY RequestIs
  <2>2. tokenRequest' = [tokenRequest EXCEPT ![r] = NoRequest] /\ recorded' = FALSE
    BY <1>1, <1>6 DEF RequestEnds
  <2>3. StoredPairs' = {}
    BY <1>2, <1>6 DEF StoredPairs
  <2> HIDE DEF req
  <2> QED
    BY <1>1, <1>2, <1>6, <2>1, <2>2, <2>3, RevocationKeeps DEF req
<1> QED
  BY <1>4, <1>5, <1>6 DEF Delete

(* Expired tokens go, and the clock.                                       *)
LEMMA DropKeeps ==
    ASSUME GrantInv, DropExpired
    PROVE  GrantInv'
<1> USE GrantNumbers
<1>1. /\ now \in 0 .. GrantMaxTime /\ issued \in 0 .. MaxTokens /\ code \in Token(CodeTtl)
      /\ refresh \in [Pairs -> Token(GrantTtl)] /\ access \in [Pairs -> 0 .. GrantTtl]
      /\ recorded \in BOOLEAN /\ over \in BOOLEAN /\ known \subseteq 1 .. issued
      /\ revoked \in 0 .. GrantMaxTime + RevokeTtl
      /\ tokenRequest \in [TokenRequests -> TokenRequest]
      /\ UNCHANGED <<now, revoked, tokenRequest, issued, known, over>>
  BY GrantTypes DEF GrantInv, DropExpired
<1>2. /\ NoToken \in Token(GrantTtl) /\ NoToken \in Token(CodeTtl) /\ NoToken.state = "none"
      /\ 0 \in 0 .. GrantTtl
  BY DEF NoToken, Token, TokenStates
<1>3. /\ code' \in Token(CodeTtl) /\ (code'.state = "fresh" => code.state = "fresh")
      /\ refresh' \in [Pairs -> Token(GrantTtl)] /\ access' \in [Pairs -> 0 .. GrantTtl]
      /\ recorded' \in BOOLEAN /\ (recorded' # recorded => GrantTtl <= now)
  BY <1>1, <1>2 DEF DropExpired
<1>4. \A n \in Pairs : refresh'[n] \in {NoToken, refresh[n]} /\ access'[n] \in {0, access[n]}
  BY <1>1, <1>2 DEF DropExpired
<1>5. StoredPairs' \subseteq StoredPairs
  BY <1>1, <1>2, <1>4 DEF StoredPairs
<1>6. GrantTypeOK'
  BY <1>1, <1>3, <1>5 DEF GrantInv, GrantTypeOK, Token, TokenStates, TokenRequest, GrantStages
<1>7. \A n \in Pairs : (TokenWorks(n)' => TokenWorks(n)) /\ (Rotatable(n)' => Rotatable(n))
  BY <1>1, <1>2, <1>4 DEF TokenWorks, Rotatable
<1>8. RevokedForGood'
  BY <1>1, <1>7 DEF GrantInv, RevokedForGood
<1>9. Listed'
  <2>1. CASE recorded' = recorded
    BY <1>7, <2>1 DEF GrantInv, Listed
  <2>2. CASE GrantTtl <= now
    BY <1>1, <1>3, <2>2 DEF Listed, TokenWorks, Rotatable, Token
  <2> QED
    BY <1>3, <2>1, <2>2
<1>10. OneRight'
  BY <1>1, <1>2, <1>3, <1>4 DEF GrantInv, OneRight, Spends
<1>11. RevokeInv' /\ OverInv' /\ RecordInv'
  BY <1>1, <1>3, <1>5 DEF GrantInv, RevokeInv, OverInv, RecordInv
<1>12. \A q \in TokenRequests : InTime(tokenRequest[q], now)' /\ HasPair(tokenRequest[q], issued)'
  BY <1>1 DEF GrantInv
<1> QED
  BY <1>6, <1>8, <1>9, <1>10, <1>11, <1>12 DEF GrantInv

LEMMA TickKeeps ==
    ASSUME GrantInv, GrantTick
    PROVE  GrantInv'
<1> USE GrantNumbers
<1>1. /\ now \in 0 .. GrantMaxTime /\ now < GrantMaxTime /\ now' = now + 1
      /\ refresh \in [Pairs -> Token(GrantTtl)] /\ access \in [Pairs -> 0 .. GrantTtl]
      /\ tokenRequest \in [TokenRequests -> TokenRequest]
      /\ \A r \in TokenRequests :
            tokenRequest[r].stage # "idle" => now < tokenRequest[r].began + Slowest
      /\ UNCHANGED <<code, refresh, access, recorded, revoked, tokenRequest, issued, known, over>>
  BY GrantTypes DEF GrantInv, GrantTick
<1>2. GrantTypeOK'
  <2>1. now' \in 0 .. GrantMaxTime
    BY <1>1
  <2> QED
    BY <1>1, <2>1 DEF GrantInv, GrantTypeOK, StoredPairs
<1>3. \A n \in Pairs : (TokenWorks(n)' => TokenWorks(n)) /\ (Rotatable(n)' => Rotatable(n))
  BY <1>1 DEF TokenWorks, Rotatable, Token
<1>4. RevokedForGood' /\ Listed'
  BY <1>1, <1>3 DEF GrantInv, RevokedForGood, Listed
<1>5. OneRight' /\ RevokeInv' /\ OverInv'
  BY <1>1 DEF GrantInv, OneRight, RevokeInv, OverInv, StoredPairs
<1>6. RecordInv'
  BY <1>1 DEF GrantInv, RecordInv
<1>7. ASSUME NEW q \in TokenRequests
      PROVE  InTime(tokenRequest[q], now)' /\ HasPair(tokenRequest[q], issued)'
  <2>1. tokenRequest[q].began \in Nat
    BY <1>1 DEF TokenRequest
  <2> QED
    BY <1>1, <2>1 DEF GrantInv, InTime
<1> QED
  BY <1>2, <1>4, <1>5, <1>6, <1>7 DEF GrantInv

LEMMA GrantStepKeeps == GrantInv /\ [GrantNext]_grantVars => GrantInv'
<1> SUFFICES ASSUME GrantInv, [GrantNext]_grantVars PROVE GrantInv'
  OBVIOUS
<1>1. CASE \E r \in TokenRequests : RedeemCode(r) \/ Rotate(r) \/ Revoke(r)
  BY <1>1, RedeemKeeps, RotateKeeps, RevokeKeeps
<1>2. CASE \E r \in TokenRequests : SaveGrant(r) \/ SaveRefresh(r) \/ SaveAccess(r) \/ Answer(r)
  BY <1>2, SaveGrantKeeps, SaveRefreshKeeps, SaveAccessKeeps, AnswerKeeps
<1>3. CASE \E r \in TokenRequests : Mark(r) \/ List(r) \/ Delete(r) \/ RequestFails(r)
  BY <1>3, MarkKeeps, ListKeeps, DeleteKeeps, FailKeeps
<1>4. CASE DropExpired \/ GrantTick
  BY <1>4, DropKeeps, TickKeeps
<1>5. CASE UNCHANGED grantVars
  BY <1>5 DEF grantVars, GrantInv, GrantTypeOK, OneRight, RevokeInv, OverInv, RecordInv,
              RevokedForGood, Listed, InTime, HasPair, StoredPairs, TokenWorks, Rotatable
<1> QED
  BY <1>1, <1>2, <1>3, <1>4, <1>5 DEF GrantNext

LEMMA GrantInvIsSafe == GrantInv => GrantSafe
<1> SUFFICES ASSUME GrantInv PROVE GrantSafe
  OBVIOUS
<1>1. OneRotates
  <2> DEFINE R == {n \in Pairs : Rotatable(n)}
  <2>1. \A n, m \in R : n = m
    BY DEF GrantInv, OneRight, Rotatable
  <2>2. CASE R = {}
    BY <2>2, FS_EmptySet DEF OneRotates
  <2>3. CASE R # {}
    <3>1. PICK n : R = {n}
      BY <2>1, <2>3
    <3> QED
      BY <3>1, FS_Singleton DEF OneRotates
  <2> QED
    BY <2>2, <2>3
<1>2. EndsWithGrant
  <2>1. /\ now \in Nat /\ GrantTtl \in Nat
        /\ refresh \in [Pairs -> Token(GrantTtl)] /\ access \in [Pairs -> 0 .. GrantTtl]
    BY GrantTypes, GrantNumbers DEF GrantInv
  <2> QED
    BY <2>1 DEF EndsWithGrant, TokenWorks, Rotatable, Token
<1> QED
  BY <1>1, <1>2 DEF GrantInv, GrantSafe

(* However requests that read first and commit later interleave, die or    *)
(* are late within Slowest: once a revocation has answered nothing of the  *)
(* grant works, one refresh token at most can be rotated, the owner is     *)
(* shown what works, and it ends with its grant.                           *)
THEOREM GrantIsSafe == GrantSpec => []GrantSafe
  BY GrantStarts, GrantStepKeeps, GrantInvIsSafe, PTL DEF GrantSpec

(* The types of the grant; no pair that was not issued is stored.          *)
THEOREM GrantTypesKept == GrantSpec => []GrantTypeOK
<1>1. GrantInv => GrantTypeOK
  BY DEF GrantInv
<1> QED
  BY <1>1, GrantStarts, GrantStepKeeps, PTL DEF GrantSpec

-----------------------------------------------------------------------------
(* The account of one address.                                            *)

FlowStages == {"idle", "creates", "checked", "rechecks", "session", "revokes", "changes",
               "cancels", "finds", "judges", "proves", "sets", "adds", "starts",
               "verifies", "logsIn", "provesCode"}
FlowRecord == [stage : FlowStages, user : Nat, key : Nat, word : Words \cup {"none", "code"},
               old : Words \cup {"none"}, proven : BOOLEAN, revokes : BOOLEAN, own : Nat]
PasswordKey == [id : Nat \ {0}, user : Nat \ {0}, word : Words, outdated : BOOLEAN,
                proven : BOOLEAN]
Session == [id : Nat, user : Nat \ {0}, key : Nat, word : Words \cup {"code"}]

(* Words that Bob types.                                                   *)
Bobs == {"bob", "bob2"}

AccountTypes ==
    /\ users \in Nat /\ keys \in Nat /\ owner \in 0 .. users /\ codeKey \in 0 .. users
    /\ pw = NoKey \/ pw \in PasswordKey
    /\ pw.id <= keys /\ pw.user <= users
    /\ sessions \subseteq Session
    /\ \A s \in sessions : s.user <= users /\ s.key <= keys
    /\ flow \in [Flows -> FlowRecord]
    /\ \A r \in Flows : flow[r].user <= users /\ flow[r].key <= keys
    /\ dead \subseteq (1 .. users) \X Words
    /\ overlap \in BOOLEAN

(* What a call carries where it stands: the key it read, whose that was,   *)
(* and the word it checked or will set.                                    *)
Holds(x) == x.stage \in {"checked", "rechecks", "changes", "session"}
FlowShape(x) ==
    /\ x.stage \in {"checked", "rechecks", "changes", "judges", "proves", "sets"} =>
          x.key # 0 /\ x.user # 0
    /\ x.stage = "verifies" => x.key # 0
    /\ x.stage \in {"cancels", "finds", "judges", "proves", "sets", "adds", "starts"} =>
          x.word = "ann2"
    /\ x.stage \in {"logsIn", "provesCode"} => x.word = "code" /\ x.key = 0 /\ ~x.revokes
    /\ x.stage = "creates" => x.word \in {"ann", "bob"} /\ ~x.revokes
    /\ x.stage \in {"checked", "rechecks"} => x.word \in Words /\ ~x.revokes
    /\ x.stage = "changes" => x.old = x.word /\ x.word \in {"ann", "bob"}
    /\ x.stage \in {"session", "revokes"} => x.user # 0
    /\ x.stage = "session" => IF x.key = 0 THEN x.word = "code" /\ ~x.revokes ELSE x.word \in Words

(* A call that holds the key of now has its user, a word of the same       *)
(* person, and the word of now unless one was replaced meanwhile.          *)
HoldsKey(x, p) ==
    x.key # 0 /\ x.key = p.id =>
        /\ Holds(x) => (x.word \in Bobs <=> p.word \in Bobs)
        /\ Holds(x) \/ x.stage \in {"judges", "proves", "sets"} => x.user = p.user
        /\ x.stage = "verifies" => p.word \notin Bobs
IsCurrent(x, p) == x.key # 0 /\ x.key = p.id /\ Holds(x) => x.word = p.word
ForOwner(x, o) ==
    /\ x.stage \in {"proves", "sets", "adds"} => x.user = o /\ o # NoUser
    /\ x.stage = "provesCode" => x.user \in {NoUser, o}

FlowInv ==
    /\ \A r \in Flows : FlowShape(flow[r])
    /\ \A r \in Flows : HoldsKey(flow[r], pw)
    /\ \A r \in Flows : ForOwner(flow[r], owner)
    /\ ~overlap => \A r \in Flows : IsCurrent(flow[r], pw)

(* Bob never has the password of the user who owns the address, and a      *)
(* session was opened by the person whose key it is of.                    *)
WordsFit(s, p) == IF s.key = 0 THEN s.word = "code" ELSE (s.word \in Bobs <=> p.word \in Bobs)
PersonInv ==
    /\ pw.user = owner /\ owner # NoUser => pw.word \notin Bobs
    /\ \A s \in sessions : WordsFit(s, pw)

(* The words that were replaced, once their sessions are signed out and    *)
(* from the replacement on.                                                *)
Retires(x, u, w) ==
    /\ x.stage = "revokes" \/ (x.stage = "session" /\ x.revokes)
    /\ x.user = u /\ x.old = w /\ w # x.word /\ w # "none"
IsGone(u, w) == <<u, w>> \in dead \/ \E r \in Flows : Retires(flow[r], u, w)
OwnFits(x, s) ==
    x.stage = "revokes" /\ s.id = x.own /\ s.user = x.user => s.word # x.old \/ x.old = x.word
GoneFits(u, w) ==
    /\ u \in 1 .. users /\ w \in {"ann", "bob", "bob2"}
    /\ w = "bob2" => u = owner
DeadInv ==
    /\ \A u, w : IsGone(u, w) => GoneFits(u, w)
    /\ ~overlap => ~IsGone(pw.user, pw.word)
    /\ ~overlap => \A s \in sessions : <<s.user, s.word>> \notin dead
    /\ ~overlap => \A r \in Flows, s \in sessions : OwnFits(flow[r], s)

AccountsInv == AccountTypes /\ OneOwner /\ FlowInv /\ PersonInv /\ DeadInv

-----------------------------------------------------------------------------
(* What the types say of a key, of the words and of a call.                *)
LEMMA AccountNumbers ==
    MaxFlows \in Nat /\ MaxUsers \in Nat /\ MaxSessions \in Nat /\ MaxMails \in Nat
  BY AccountsAssumption

LEMMA WordsAre ==
    /\ Words = {"ann", "bob", "ann2", "bob2"}
    /\ Next2["ann"] = "ann2" /\ Next2["bob"] = "bob2"
    /\ Next2["ann2"] = "ann2" /\ Next2["bob2"] = "bob2"
  BY DEF Words, Next2

LEMMA KeyIs ==
    ASSUME AccountTypes
    PROVE  /\ pw.id \in Nat /\ pw.user \in Nat /\ pw.word \in Words \cup {"none"}
           /\ pw.id = 0 <=> pw = NoKey
           /\ pw.user = 0 <=> pw = NoKey
           /\ pw.id # 0 => pw \in PasswordKey /\ pw.word \in Words
           /\ NoKey.id = 0 /\ NoKey.user = 0 /\ NoKey.word = "none"
<1>1. CASE pw = NoKey
  BY <1>1 DEF NoKey, NoUser, PasswordKey
<1>2. CASE pw \in PasswordKey
  BY <1>2 DEF NoKey, NoUser, PasswordKey
<1> QED
  BY <1>1, <1>2 DEF AccountTypes

LEMMA ProvenIs ==
    ASSUME AccountTypes
    PROVE  /\ pw.proven \in BOOLEAN
           /\ NoKey.proven = FALSE
           /\ pw.proven => pw # NoKey
<1>1. NoKey.proven = FALSE
  BY DEF NoKey
<1>2. CASE pw = NoKey
  BY <1>1, <1>2
<1>3. CASE pw \in PasswordKey /\ pw # NoKey
  BY <1>1, <1>3 DEF PasswordKey
<1> QED
  BY <1>2, <1>3 DEF AccountTypes

LEMMA NoFlowIs ==
    /\ NoFlow \in FlowRecord /\ NoFlow.stage = "idle" /\ NoFlow.user = 0 /\ NoFlow.key = 0
    /\ NoFlow.word = "none" /\ NoFlow.old = "none" /\ NoFlow.own = 0
    /\ ~NoFlow.revokes
<1>1. NoFlow.revokes = FALSE /\ NoFlow.proven = FALSE
  BY DEF NoFlow
<1>2. NoFlow \in FlowRecord
  BY DEF NoFlow, FlowRecord, FlowStages, NoUser
<1> QED
  BY <1>1, <1>2 DEF NoFlow, NoUser

(* A call fits what the server holds.                                      *)
FlowFits(x) ==
    /\ x \in FlowRecord /\ x.user <= users /\ x.key <= keys
    /\ FlowShape(x) /\ HoldsKey(x, pw) /\ ForOwner(x, owner)
    /\ ~overlap => IsCurrent(x, pw)

LEMMA FlowsFit ==
    ASSUME AccountsInv, NEW r \in Flows
    PROVE  FlowFits(flow[r])
  BY DEF AccountsInv, AccountTypes, FlowInv, FlowFits

LEMMA NoFlowFits == AccountTypes => FlowFits(NoFlow)
  BY NoFlowIs, KeyIs DEF AccountTypes, FlowFits, FlowShape, HoldsKey, Holds, IsCurrent, ForOwner, NoUser

(* A step that only moves a call on, and retires no word.                  *)
Moves(r, x) ==
    /\ flow' = [flow EXCEPT ![r] = x]
    /\ UNCHANGED <<users, owner, pw, codeKey, sessions, keys, dead, overlap>>
Retired(x, y) ==
    /\ y.stage # "revokes"
    /\ \A u, w : Retires(y, u, w) => Retires(x, u, w)

LEMMA MoveKeeps ==
    ASSUME AccountsInv, NEW r \in Flows, NEW x, FlowFits(x), Retired(flow[r], x), Moves(r, x)
    PROVE  AccountsInv'
<1>1. /\ flow' \in [Flows -> FlowRecord] /\ flow'[r] = x
      /\ \A q \in Flows \ {r} : flow'[q] = flow[q]
      /\ \A q \in Flows : flow'[q].user <= users /\ flow'[q].key <= keys
  BY DEF AccountsInv, AccountTypes, FlowFits, Moves
<1>2. AccountTypes'
  BY <1>1 DEF AccountsInv, AccountTypes, Moves
<1>3. OneOwner'
  BY DEF AccountsInv, OneOwner, Moves
<1>4. FlowInv'
  <2>1. \A q \in Flows : /\ FlowShape(flow'[q]) /\ HoldsKey(flow'[q], pw) /\ ForOwner(flow'[q], owner)
                         /\ ~overlap => IsCurrent(flow'[q], pw)
    BY <1>1 DEF AccountsInv, FlowInv, FlowFits
  <2> QED
    BY <2>1 DEF FlowInv, Moves
<1>5. PersonInv'
  BY DEF AccountsInv, PersonInv, Moves
<1>6. \A u, w : IsGone(u, w)' => IsGone(u, w)
  BY <1>1 DEF IsGone, Retired, Moves
<1>7. \A q \in Flows, s \in sessions : ~overlap => OwnFits(flow'[q], s)
  BY <1>1 DEF AccountsInv, DeadInv, OwnFits, Retired
<1>8. DeadInv'
  BY <1>6, <1>7 DEF AccountsInv, DeadInv, GoneFits, Moves
<1> QED
  BY <1>2, <1>3, <1>4, <1>5, <1>8 DEF AccountsInv

LEMMA EndKeeps ==
    ASSUME AccountsInv, NEW r \in Flows, FlowEnds(r),
           UNCHANGED <<users, owner, pw, codeKey, sessions, keys, dead, overlap>>
    PROVE  AccountsInv'
<1>1. FlowFits(NoFlow)
  BY NoFlowFits DEF AccountsInv
<1>2. Retired(flow[r], NoFlow)
  BY NoFlowIs DEF Retired, Retires
<1> QED
  BY <1>1, <1>2, MoveKeeps DEF Moves, FlowEnds

-----------------------------------------------------------------------------
(* The steps that only move a call on.                                     *)
LEMMA SignUpKeeps ==
    ASSUME AccountsInv, NEW r \in Flows, NEW word \in Words, SignUp(r, word)
    PROVE  AccountsInv'
<1> DEFINE x == [NoFlow EXCEPT !.stage = "creates", !.word = word]
<1>1. /\ x \in FlowRecord /\ x.stage = "creates" /\ x.user = 0 /\ x.key = 0
      /\ x.word \in {"ann", "bob"} /\ ~x.revokes
  BY NoFlowIs DEF SignUp, FlowRecord, FlowStages
<1>2. flow' = [flow EXCEPT ![r] = x]
  BY DEF SignUp, FlowBegins
<1> HIDE DEF x
<1>3. FlowFits(x)
  BY <1>1 DEF AccountsInv, AccountTypes, FlowFits, FlowShape, HoldsKey, Holds, IsCurrent, ForOwner
<1>4. Retired(flow[r], x)
  BY <1>1 DEF Retired, Retires
<1> QED
  BY <1>2, <1>3, <1>4, MoveKeeps DEF Moves, SignUp

LEMMA SignInKeeps ==
    ASSUME AccountsInv, NEW r \in Flows, NEW word \in Words, SignIn(r, word)
    PROVE  AccountsInv'
<1> DEFINE x == [NoFlow EXCEPT !.stage = IF pw.outdated THEN "checked" ELSE "rechecks",
                               !.user = pw.user, !.key = pw.id, !.word = word]
<1>1. /\ x \in FlowRecord /\ x.stage \in {"checked", "rechecks"}
      /\ x.user = pw.user /\ x.key = pw.id /\ x.word = word /\ ~x.revokes
  BY NoFlowIs, KeyIs DEF AccountsInv, FlowRecord, FlowStages
<1>2. flow' = [flow EXCEPT ![r] = x] /\ pw.word = word /\ pw # NoKey
  BY DEF SignIn, FlowBegins
<1> HIDE DEF x
<1>3. FlowFits(x)
  BY <1>1, <1>2, KeyIs
     DEF AccountsInv, AccountTypes, FlowFits, FlowShape, HoldsKey, Holds, IsCurrent, ForOwner
<1>4. Retired(flow[r], x)
  BY <1>1 DEF Retired, Retires
<1> QED
  BY <1>2, <1>3, <1>4, MoveKeeps DEF Moves, SignIn

LEMMA RecheckKeeps ==
    ASSUME AccountsInv, NEW r \in Flows, Recheck(r)
    PROVE  AccountsInv'
<1> DEFINE x == [flow[r] EXCEPT !.stage = "session"]
<1>1. FlowFits(flow[r]) /\ flow[r].stage = "rechecks"
  BY FlowsFit DEF Recheck
<1>2. CASE pw.id # flow[r].key
  BY <1>2, EndKeeps DEF Recheck
<1>3. CASE pw.id = flow[r].key
  <2>1. /\ x \in FlowRecord /\ x.stage = "session" /\ x.user = flow[r].user
        /\ x.key = flow[r].key /\ x.word = flow[r].word /\ x.revokes = flow[r].revokes
    BY <1>1 DEF FlowFits, FlowRecord, FlowStages
  <2>2. flow' = [flow EXCEPT ![r] = x]
    BY <1>3 DEF Recheck, FlowGoes
  <2> HIDE DEF x
  <2>3. FlowFits(x)
    BY <1>1, <2>1 DEF FlowFits, FlowShape, HoldsKey, Holds, IsCurrent, ForOwner
  <2>4. Retired(flow[r], x)
    BY <1>1, <2>1 DEF Retired, Retires, FlowFits, FlowShape
  <2> QED
    BY <1>3, <2>2, <2>3, <2>4, MoveKeeps DEF Moves, Recheck
<1> QED
  BY <1>2, <1>3

LEMMA ChangeKeeps ==
    ASSUME AccountsInv, NEW r \in Flows, NEW s \in sessions, Change(r, s)
    PROVE  AccountsInv'
<1> DEFINE x == [NoFlow EXCEPT !.stage = "changes", !.user = s.user, !.key = pw.id,
                               !.word = pw.word, !.old = pw.word]
<1>1. pw # NoKey /\ pw.user = s.user /\ pw.word \in {"ann", "bob"}
  BY KeyIs, WordsAre DEF AccountsInv, Change
<1>2. /\ x \in FlowRecord /\ x.stage = "changes" /\ x.user = pw.user /\ x.key = pw.id
      /\ x.word = pw.word /\ x.old = pw.word
  BY <1>1, NoFlowIs, KeyIs DEF AccountsInv, FlowRecord, FlowStages
<1>3. flow' = [flow EXCEPT ![r] = x]
  BY DEF Change, FlowBegins
<1> HIDE DEF x
<1>4. FlowFits(x)
  BY <1>1, <1>2, KeyIs
     DEF AccountsInv, AccountTypes, FlowFits, FlowShape, HoldsKey, Holds, IsCurrent, ForOwner
<1>5. Retired(flow[r], x)
  BY <1>2 DEF Retired, Retires
<1> QED
  BY <1>3, <1>4, <1>5, MoveKeeps DEF Moves, Change

LEMMA ResetMatchKeeps ==
    ASSUME AccountsInv, NEW r \in Flows, ResetMatch(r)
    PROVE  AccountsInv'
<1> DEFINE x == [NoFlow EXCEPT !.stage = "cancels", !.word = "ann2", !.revokes = TRUE]
<1>1. /\ x \in FlowRecord /\ x.stage = "cancels" /\ x.user = 0 /\ x.key = 0 /\ x.word = "ann2"
  BY NoFlowIs, WordsAre DEF FlowRecord, FlowStages
<1>2. flow' = [flow EXCEPT ![r] = x]
  BY DEF ResetMatch, FlowBegins
<1> HIDE DEF x
<1>3. FlowFits(x)
  BY <1>1 DEF AccountsInv, AccountTypes, FlowFits, FlowShape, HoldsKey, Holds, IsCurrent, ForOwner
<1>4. Retired(flow[r], x)
  BY <1>1 DEF Retired, Retires
<1> QED
  BY <1>2, <1>3, <1>4, MoveKeeps DEF Moves, ResetMatch

LEMMA ResetCancelKeeps ==
    ASSUME AccountsInv, NEW r \in Flows, ResetCancel(r)
    PROVE  AccountsInv'
<1> DEFINE x == [flow[r] EXCEPT !.stage = "finds"]
<1>1. FlowFits(flow[r]) /\ flow[r].stage = "cancels"
  BY FlowsFit DEF ResetCancel
<1>2. /\ x \in FlowRecord /\ x.stage = "finds" /\ x.user = flow[r].user
      /\ x.key = flow[r].key /\ x.word = flow[r].word
  BY <1>1 DEF FlowFits, FlowRecord, FlowStages
<1>3. flow' = [flow EXCEPT ![r] = x]
  BY DEF ResetCancel, FlowGoes
<1> HIDE DEF x
<1>4. FlowFits(x)
  BY <1>1, <1>2 DEF FlowFits, FlowShape, HoldsKey, Holds, IsCurrent, ForOwner
<1>5. Retired(flow[r], x)
  BY <1>2 DEF Retired, Retires
<1> QED
  BY <1>3, <1>4, <1>5, MoveKeeps DEF Moves, ResetCancel

LEMMA ResetFindKeeps ==
    ASSUME AccountsInv, NEW r \in Flows, ResetFind(r)
    PROVE  AccountsInv'
<1> DEFINE x == [flow[r] EXCEPT !.stage = "judges", !.key = pw.id, !.user = pw.user,
                                !.proven = pw.proven]
<1>1. FlowFits(flow[r]) /\ flow[r].stage = "finds"
  BY FlowsFit DEF ResetFind
<1>2. CASE pw = NoKey
  BY <1>2, EndKeeps DEF ResetFind
<1>3. CASE pw # NoKey
  <2>0. pw.proven \in BOOLEAN /\ pw.id \in Nat /\ pw.user \in Nat
    BY KeyIs, ProvenIs DEF AccountsInv
  <2>1. x \in FlowRecord
    BY <1>1, <2>0 DEF FlowFits, FlowRecord, FlowStages
  <2>2. x.stage = "judges" /\ x.user = pw.user /\ x.key = pw.id /\ x.word = flow[r].word
    BY <1>1 DEF FlowFits, FlowRecord
  <2>3. flow' = [flow EXCEPT ![r] = x]
    BY <1>3 DEF ResetFind
  <2> HIDE DEF x
  <2>4. FlowFits(x)
    BY <1>1, <1>3, <2>1, <2>2, KeyIs
       DEF AccountsInv, AccountTypes, FlowFits, FlowShape, HoldsKey, Holds, IsCurrent, ForOwner
  <2>5. Retired(flow[r], x)
    BY <2>2 DEF Retired, Retires
  <2> QED
    BY <1>3, <2>3, <2>4, <2>5, MoveKeeps DEF Moves, ResetFind
<1> QED
  BY <1>2, <1>3

LEMMA ResetJudgeKeeps ==
    ASSUME AccountsInv, NEW r \in Flows, ResetJudge(r)
    PROVE  AccountsInv'
<1> DEFINE x == [flow[r] EXCEPT !.stage = Judged(r),
                                !.user = IF Judged(r) = "adds" THEN owner ELSE @]
<1>1. FlowFits(flow[r]) /\ flow[r].stage = "judges"
  BY FlowsFit DEF ResetJudge
<1>2. /\ Judged(r) \in {"sets", "proves", "starts", "adds"}
      /\ Judged(r) \in {"sets", "proves"} => owner = flow[r].user
      /\ Judged(r) = "adds" => owner # NoUser
  <2>1. CASE owner = flow[r].user
    BY <2>1 DEF Judged
  <2>2. CASE owner # flow[r].user /\ owner = NoUser
    BY <2>2 DEF Judged
  <2>3. CASE owner # flow[r].user /\ owner # NoUser
    BY <2>3 DEF Judged
  <2> QED
    BY <2>1, <2>2, <2>3
<1>3. owner \in Nat /\ owner <= users
  BY DEF AccountsInv, AccountTypes
<1>4. x \in FlowRecord /\ x.stage = Judged(r) /\ x.key = flow[r].key /\ x.word = flow[r].word
      /\ x.user = IF Judged(r) = "adds" THEN owner ELSE flow[r].user
  BY <1>1, <1>2, <1>3 DEF FlowFits, FlowRecord, FlowStages
<1>5. flow' = [flow EXCEPT ![r] = x]
  BY DEF ResetJudge
<1> HIDE DEF x
<1>6. FlowFits(x)
  <2>1. x.user <= users /\ x.key <= keys
    BY <1>1, <1>3, <1>4 DEF FlowFits
  <2>2. FlowShape(x)
    BY <1>1, <1>2, <1>3, <1>4 DEF FlowFits, FlowShape, NoUser
  <2>3. HoldsKey(x, pw) /\ IsCurrent(x, pw)
    BY <1>1, <1>2, <1>4 DEF FlowFits, HoldsKey, Holds, IsCurrent
  <2>4. ForOwner(x, owner)
    BY <1>1, <1>2, <1>4 DEF FlowFits, FlowShape, ForOwner, NoUser
  <2> QED
    BY <1>4, <2>1, <2>2, <2>3, <2>4 DEF FlowFits
<1>7. Retired(flow[r], x)
  BY <1>2, <1>4 DEF Retired, Retires
<1> QED
  BY <1>5, <1>6, <1>7, MoveKeeps DEF Moves, ResetJudge

LEMMA VerifyKeeps ==
    ASSUME AccountsInv, NEW r \in Flows, Verify(r)
    PROVE  AccountsInv'
<1> DEFINE x == [NoFlow EXCEPT !.stage = "verifies", !.key = pw.id]
<1>1. x \in FlowRecord /\ x.stage = "verifies" /\ x.user = 0 /\ x.key = pw.id /\ x.word = "none"
  BY NoFlowIs, KeyIs DEF AccountsInv, FlowRecord, FlowStages
<1>2. flow' = [flow EXCEPT ![r] = x] /\ pw # NoKey /\ pw.word \in {"ann", "ann2"}
  BY DEF Verify, FlowBegins
<1> HIDE DEF x
<1>3. FlowFits(x)
  BY <1>1, <1>2, KeyIs
     DEF AccountsInv, AccountTypes, FlowFits, FlowShape, HoldsKey, Holds, IsCurrent, ForOwner, Bobs
<1>4. Retired(flow[r], x)
  BY <1>1 DEF Retired, Retires
<1> QED
  BY <1>2, <1>3, <1>4, MoveKeeps DEF Moves, Verify

LEMMA LoginKeeps ==
    ASSUME AccountsInv, NEW r \in Flows, Login(r)
    PROVE  AccountsInv'
<1> DEFINE x == [NoFlow EXCEPT !.stage = "logsIn", !.word = "code"]
<1>1. /\ x \in FlowRecord /\ x.stage = "logsIn" /\ x.user = 0 /\ x.key = 0 /\ x.word = "code"
      /\ ~x.revokes
  BY NoFlowIs DEF FlowRecord, FlowStages
<1>2. flow' = [flow EXCEPT ![r] = x]
  BY DEF Login, FlowBegins
<1> HIDE DEF x
<1>3. FlowFits(x)
  BY <1>1 DEF AccountsInv, AccountTypes, FlowFits, FlowShape, HoldsKey, Holds, IsCurrent, ForOwner
<1>4. Retired(flow[r], x)
  BY <1>1 DEF Retired, Retires
<1> QED
  BY <1>2, <1>3, <1>4, MoveKeeps DEF Moves, Login

LEMMA LoginOwnerKeeps ==
    ASSUME AccountsInv, NEW r \in Flows, LoginOwner(r)
    PROVE  AccountsInv'
<1> DEFINE x == [flow[r] EXCEPT !.stage = "provesCode", !.user = owner]
<1>1. FlowFits(flow[r]) /\ flow[r].stage = "logsIn" /\ owner \in Nat /\ owner <= users
  BY FlowsFit DEF LoginOwner, AccountsInv, AccountTypes
<1>2. /\ x \in FlowRecord /\ x.stage = "provesCode" /\ x.user = owner
      /\ x.key = flow[r].key /\ x.word = flow[r].word /\ x.revokes = flow[r].revokes
  BY <1>1 DEF FlowFits, FlowRecord, FlowStages
<1>3. flow' = [flow EXCEPT ![r] = x]
  BY DEF LoginOwner
<1> HIDE DEF x
<1>4. FlowFits(x)
  BY <1>1, <1>2 DEF FlowFits, FlowShape, HoldsKey, Holds, IsCurrent, ForOwner
<1>5. Retired(flow[r], x)
  BY <1>2 DEF Retired, Retires
<1> QED
  BY <1>3, <1>4, <1>5, MoveKeeps DEF Moves, LoginOwner

-----------------------------------------------------------------------------
(* What a step of one call that changes the key, the owner or the users    *)
(* leaves to the other calls.                                              *)
KeyKept ==
    /\ pw'.id = pw.id /\ pw'.user = pw.user
    /\ pw'.word \in Bobs <=> pw.word \in Bobs
KeyIsNew == pw'.id \in {0, keys + 1}
HoldsNow(x) == Holds(x) /\ x.key # 0 /\ x.key = pw.id
NoneHolds(r) == \A q \in Flows \ {r} : ~HoldsNow(flow[q])
StepFits(r) ==
    /\ users' \in Nat /\ users <= users' /\ keys' \in Nat /\ keys <= keys'
    /\ owner = NoUser \/ owner' = owner
    /\ KeyKept \/ KeyIsNew
    /\ ~overlap' => ~overlap /\ (KeyIsNew \/ pw'.word = pw.word \/ NoneHolds(r))
    /\ flow' \in [Flows -> FlowRecord]
    /\ \A q \in Flows \ {r} : flow'[q] = flow[q]

LEMMA OthersFit ==
    ASSUME AccountsInv, NEW r \in Flows, StepFits(r), NEW q \in Flows \ {r}
    PROVE  FlowFits(flow[q])'
<1> DEFINE x == flow[q]
<1>0. x = flow[q] /\ flow'[q] = x
  BY DEF StepFits
<1> HIDE DEF x
<1>1. FlowFits(x)
  BY <1>0, FlowsFit
<1>2. users \in Nat /\ keys \in Nat /\ x.key \in Nat /\ x.user \in Nat
  BY <1>1 DEF AccountsInv, AccountTypes, FlowFits, FlowRecord
<1>3. flow'[q] \in FlowRecord /\ flow'[q].user <= users' /\ flow'[q].key <= keys'
  BY <1>0, <1>1, <1>2 DEF FlowFits, StepFits
<1>4. FlowShape(flow'[q])
  BY <1>0, <1>1 DEF FlowFits
<1>5. HoldsKey(flow'[q], pw')
  <2>1. CASE KeyKept
    BY <1>0, <1>1, <2>1 DEF FlowFits, HoldsKey, KeyKept
  <2>2. CASE KeyIsNew
    BY <1>0, <1>1, <1>2, <2>2 DEF FlowFits, HoldsKey, KeyIsNew
  <2> QED
    BY <2>1, <2>2 DEF StepFits
<1>6. ForOwner(flow'[q], owner')
  BY <1>0, <1>1 DEF FlowFits, ForOwner, StepFits
<1>7. ~overlap' => IsCurrent(flow'[q], pw')
  <2> SUFFICES ASSUME ~overlap' PROVE IsCurrent(x, pw')
    BY <1>0
  <2>1. IsCurrent(x, pw)
    BY <1>1 DEF FlowFits, StepFits
  <2>2. CASE KeyIsNew
    BY <1>1, <1>2, <2>2 DEF FlowFits, IsCurrent, KeyIsNew
  <2>3. CASE KeyKept /\ pw'.word = pw.word
    BY <2>1, <2>3 DEF IsCurrent, KeyKept
  <2>4. CASE KeyKept /\ NoneHolds(r)
    BY <1>0, <2>4 DEF IsCurrent, KeyKept, NoneHolds, HoldsNow
  <2> QED
    BY <2>2, <2>3, <2>4 DEF StepFits
<1> QED
  BY <1>3, <1>4, <1>5, <1>6, <1>7 DEF FlowFits

(* A step is right when it is so for its own call and for what all share.  *)
SharedTypes ==
    /\ users \in Nat /\ keys \in Nat /\ owner \in 0 .. users /\ codeKey \in 0 .. users
    /\ pw = NoKey \/ pw \in PasswordKey
    /\ pw.id <= keys /\ pw.user <= users
    /\ sessions \subseteq Session
    /\ \A s \in sessions : s.user <= users /\ s.key <= keys
    /\ dead \subseteq (1 .. users) \X Words
    /\ overlap \in BOOLEAN

LEMMA StepKeeps ==
    ASSUME AccountsInv, NEW r \in Flows, StepFits(r), FlowFits(flow[r])',
           SharedTypes', OneOwner', PersonInv', DeadInv'
    PROVE  AccountsInv'
<1>1. \A q \in Flows : FlowFits(flow[q])'
  BY OthersFit
<1>2. AccountTypes'
  BY <1>1 DEF AccountTypes, SharedTypes, StepFits, FlowFits
<1>3. FlowInv'
  BY <1>1 DEF FlowInv, FlowFits
<1> QED
  BY <1>2, <1>3 DEF AccountsInv

(* What is gone after it was gone before, or the call retires it.          *)
LEMMA GoneAfter ==
    ASSUME AccountsInv, NEW r \in Flows, dead' = dead,
           \A q \in Flows \ {r} : flow'[q] = flow[q]
    PROVE  \A u, w : IsGone(u, w)' => IsGone(u, w) \/ Retires(flow'[r], u, w)
  BY DEF IsGone

(* A step that retires no word and opens no session.                       *)
LEMMA DeadKeeps ==
    ASSUME AccountsInv, NEW r \in Flows, dead' = dead, StepFits(r),
           \A u, w : Retires(flow'[r], u, w) => Retires(flow[r], u, w),
           flow'[r].stage # "revokes", sessions' \subseteq sessions,
           ~overlap' => ~IsGone(pw'.user, pw'.word)
    PROVE  DeadInv'
<1>1. \A u, w : IsGone(u, w)' => IsGone(u, w)
  BY GoneAfter DEF IsGone, StepFits
<1>2. \A u, w : IsGone(u, w)' => GoneFits(u, w)'
  <2> SUFFICES ASSUME NEW u, NEW w, IsGone(u, w)' PROVE GoneFits(u, w)'
    OBVIOUS
  <2>1. GoneFits(u, w)
    BY <1>1 DEF AccountsInv, DeadInv
  <2>2. users \in Nat /\ users' \in Nat /\ users <= users'
    BY DEF AccountsInv, AccountTypes, StepFits
  <2> QED
    BY <2>1, <2>2 DEF GoneFits, StepFits, NoUser
<1>3. ~overlap' => ~IsGone(pw.user, pw.word)'
  BY <1>1
<1>4. ~overlap' => \A s \in sessions' : <<s.user, s.word>> \notin dead'
  BY DEF AccountsInv, DeadInv, StepFits
<1>5. ~overlap' => \A q \in Flows, s \in sessions' : OwnFits(flow'[q], s)
  BY DEF AccountsInv, DeadInv, StepFits, OwnFits
<1> QED
  BY <1>2, <1>3, <1>4, <1>5 DEF DeadInv

-----------------------------------------------------------------------------
(* The steps on the key.                                                   *)
LEMMA SharedFacts ==
    ASSUME AccountsInv
    PROVE  /\ SharedTypes /\ OneOwner /\ PersonInv /\ DeadInv
           /\ flow \in [Flows -> FlowRecord]
           /\ owner \in Nat /\ codeKey \in Nat /\ owner <= users /\ codeKey <= users
<1>1. users \in Nat /\ owner \in 0 .. users /\ codeKey \in 0 .. users
  BY DEF AccountsInv, AccountTypes
<1> QED
  BY <1>1 DEF AccountsInv, AccountTypes, SharedTypes

LEMMA CreateUserKeeps ==
    ASSUME AccountsInv, NEW r \in Flows, CreateUser(r)
    PROVE  AccountsInv'
<1>1. FlowFits(flow[r]) /\ flow[r].stage = "creates"
  BY FlowsFit DEF CreateUser
<1>2. CASE pw # NoKey
  BY <1>2, EndKeeps DEF CreateUser
<1>3. CASE pw = NoKey
  <2>1. /\ users \in Nat /\ keys \in Nat /\ users' = users + 1 /\ keys' = keys + 1
        /\ UNCHANGED <<owner, codeKey, sessions, dead, overlap>>
    BY <1>3, SharedFacts DEF CreateUser, SharedTypes
  <2>2. flow[r].word \in Words /\ flow[r].word \in {"ann", "bob"} /\ ~flow[r].revokes
    BY <1>1, WordsAre DEF FlowFits, FlowShape
  <2>3. /\ pw' \in PasswordKey /\ pw'.id = keys + 1 /\ pw'.user = users + 1
        /\ pw'.word = flow[r].word
        /\ pw'.proven = FALSE
    <3>1. pw' = [id |-> keys + 1, user |-> users + 1, word |-> flow[r].word,
                 outdated |-> FALSE, proven |-> FALSE]
      BY <1>3 DEF CreateUser
    <3>2. keys + 1 \in Nat \ {0} /\ users + 1 \in Nat \ {0}
      BY <2>1
    <3> QED
      BY <2>2, <3>1, <3>2 DEF PasswordKey
  <2>4. /\ flow' \in [Flows -> FlowRecord]
        /\ \A q \in Flows \ {r} : flow'[q] = flow[q]
    BY <1>3, <2>1, SharedFacts DEF CreateUser, FlowRecord, FlowStages
  <2>5. /\ flow'[r].stage = "session" /\ flow'[r].user = users + 1 /\ flow'[r].key = keys + 1
        /\ flow'[r].word = flow[r].word /\ flow'[r].revokes = flow[r].revokes
    BY <1>3, SharedFacts DEF CreateUser, FlowRecord
  <2>6. StepFits(r)
    BY <2>1, <2>3, <2>4 DEF StepFits, KeyIsNew
  <2>7. FlowFits(flow[r])'
    <3>1. FlowShape(flow'[r])
      BY <2>1, <2>2, <2>5 DEF FlowShape
    <3>2. HoldsKey(flow'[r], pw') /\ IsCurrent(flow'[r], pw') /\ ForOwner(flow'[r], owner')
      BY <2>3, <2>5 DEF HoldsKey, Holds, IsCurrent, ForOwner
    <3> QED
      BY <2>1, <2>4, <2>5, <3>1, <3>2 DEF FlowFits
  <2>8. owner \in Nat /\ owner <= users /\ codeKey <= users /\ codeKey \in Nat
    BY SharedFacts
  <2>9. SharedTypes'
    <3>1. \A s \in sessions : s.user <= users + 1 /\ s.key <= keys + 1
      BY <2>1, SharedFacts DEF SharedTypes, Session
    <3>2. dead \subseteq (1 .. users + 1) \X Words
      BY <2>1, SharedFacts DEF SharedTypes
    <3> QED
      BY <2>1, <2>3, <2>8, <3>1, <3>2, SharedFacts DEF SharedTypes
  <2>10. NoKey.proven = FALSE /\ pw.id = 0
    BY <1>3, ProvenIs, KeyIs DEF AccountsInv
  <2>11. \A s \in sessions : s.key = 0
    BY <2>10, SharedFacts DEF OneOwner
  <2>12. OneOwner'
    BY <1>3, <2>1, <2>3, <2>10, <2>11, SharedFacts DEF OneOwner
  <2>13. PersonInv'
    BY <2>1, <2>3, <2>8, <2>11, SharedFacts DEF PersonInv, WordsFit
  <2>14. DeadInv'
    <3>1. \A u, w : ~Retires(flow'[r], u, w)
      BY <2>2, <2>5 DEF Retires
    <3>2. \A w : ~IsGone(pw'.user, w)
      BY <2>1, <2>3, SharedFacts DEF DeadInv, GoneFits
    <3> QED
      BY <2>1, <2>5, <2>6, <3>1, <3>2, DeadKeeps
  <2> QED
    BY <2>6, <2>7, <2>9, <2>12, <2>13, <2>14, StepKeeps
<1> QED
  BY <1>2, <1>3

LEMMA RehashKeeps ==
    ASSUME AccountsInv, NEW r \in Flows, Rehash(r)
    PROVE  AccountsInv'
<1> DEFINE x == [flow[r] EXCEPT !.stage = "rechecks"]
<1>1. FlowFits(flow[r]) /\ flow[r].stage = "checked" /\ flow[r].key # 0
  BY FlowsFit DEF Rehash, FlowFits, FlowShape
<1>2. /\ x \in FlowRecord /\ x.stage = "rechecks" /\ x.user = flow[r].user
      /\ x.key = flow[r].key /\ x.word = flow[r].word /\ x.revokes = flow[r].revokes
  BY <1>1 DEF FlowFits, FlowRecord, FlowStages
<1>3. flow' = [flow EXCEPT ![r] = x]
  BY DEF Rehash, FlowGoes
<1> HIDE DEF x
<1>4. FlowFits(x)
  BY <1>1, <1>2 DEF FlowFits, FlowShape, HoldsKey, Holds, IsCurrent, ForOwner
<1>5. \A u, w : ~Retires(x, u, w)
  BY <1>2 DEF Retires
<1>6. CASE pw.id # flow[r].key
  <2>1. pw' = pw
    BY <1>6 DEF Rehash
  <2> QED
    BY <1>2, <1>3, <1>4, <1>5, <2>1, MoveKeeps DEF Moves, Retired, Rehash
<1>7. CASE pw.id = flow[r].key
  <2>1. pw \in PasswordKey /\ flow[r].word \in Words /\ (flow[r].word \in Bobs <=> pw.word \in Bobs)
    BY <1>1, <1>7, KeyIs DEF AccountsInv, FlowFits, FlowShape, HoldsKey, Holds
  <2>2. /\ pw' = [pw EXCEPT !.word = flow[r].word, !.outdated = FALSE]
        /\ UNCHANGED <<users, owner, codeKey, sessions, keys, dead, overlap>>
    BY <1>7 DEF Rehash
  <2>3. /\ pw' \in PasswordKey /\ pw'.id = pw.id /\ pw'.user = pw.user
        /\ pw'.word = flow[r].word
        /\ pw'.proven = pw.proven
    BY <2>1, <2>2 DEF PasswordKey
  <2>4. ~overlap => pw'.word = pw.word
    BY <1>1, <1>7, <2>3 DEF FlowFits, IsCurrent, Holds
  <2>5. flow' \in [Flows -> FlowRecord] /\ flow'[r] = x /\ \A q \in Flows \ {r} : flow'[q] = flow[q]
    BY <1>2, <1>3, SharedFacts
  <2>6. StepFits(r)
    BY <2>1, <2>2, <2>3, <2>4, <2>5, SharedFacts DEF StepFits, KeyKept, SharedTypes
  <2>7. FlowFits(flow[r])'
    <3>1. HoldsKey(x, pw') /\ IsCurrent(x, pw')
      BY <1>1, <1>2, <1>4, <2>1, <2>3 DEF FlowFits, HoldsKey, Holds, IsCurrent
    <3> QED
      BY <1>4, <2>2, <2>5, <3>1 DEF FlowFits
  <2>8. SharedTypes'
    BY <2>2, <2>3, SharedFacts DEF SharedTypes
  <2>9. OneOwner'
    BY <2>2, <2>3, SharedFacts DEF OneOwner
  <2>10. PersonInv'
    BY <2>1, <2>2, <2>3, SharedFacts DEF PersonInv, WordsFit
  <2>11. DeadInv'
    <3>1. ~overlap' => ~IsGone(pw'.user, pw'.word)
      BY <2>2, <2>3, <2>4, SharedFacts DEF DeadInv
    <3> QED
      BY <1>2, <1>5, <2>2, <2>5, <2>6, <3>1, DeadKeeps
  <2> QED
    BY <2>6, <2>7, <2>8, <2>9, <2>10, <2>11, StepKeeps
<1> QED
  BY <1>6, <1>7

(* A change, or a reset by the owner, sets the next word of the same       *)
(* person.                                                                 *)
LEMMA SetSecretKeeps ==
    ASSUME AccountsInv, NEW r \in Flows, NEW word \in {"ann2", "bob2"},
           flow[r].stage \in {"changes", "sets"}, flow[r].key # 0,
           pw.id = flow[r].key => (word \in Bobs <=> pw.word \in Bobs),
           SetSecret(r, word), UNCHANGED <<users, owner, codeKey, sessions, keys, dead>>
    PROVE  AccountsInv'
<1>1. FlowFits(flow[r]) /\ flow[r].user # 0
  BY FlowsFit DEF FlowFits, FlowShape
<1>2. CASE pw.id # flow[r].key
  BY <1>2, EndKeeps DEF SetSecret
<1>3. CASE pw.id = flow[r].key
  <2>1. /\ pw \in PasswordKey /\ word \in Words /\ pw.word \in Words
        /\ flow[r].user = pw.user
    BY <1>1, <1>3, KeyIs, WordsAre DEF AccountsInv, FlowFits, HoldsKey, Holds
  <2>2. /\ pw' = [pw EXCEPT !.word = word, !.outdated = FALSE]
        /\ overlap' = (overlap \/ Overlaps(r))
        /\ flow' = [flow EXCEPT ![r].stage = "session", ![r].word = word,
                                ![r].old = pw.word, ![r].revokes = TRUE]
    BY <1>3 DEF SetSecret
  <2>3. /\ pw' \in PasswordKey /\ pw'.id = pw.id /\ pw'.user = pw.user
        /\ pw'.word = word
        /\ pw'.proven = pw.proven
    BY <2>1, <2>2 DEF PasswordKey
  <2>4. flow' \in [Flows -> FlowRecord] /\ \A q \in Flows \ {r} : flow'[q] = flow[q]
    <3> DEFINE x == [flow[r] EXCEPT !.stage = "session", !.word = word, !.old = pw.word,
                                    !.revokes = TRUE]
    <3>1. "session" \in FlowStages /\ pw.word \in Words \cup {"none"} /\ TRUE \in BOOLEAN
      BY <2>1 DEF FlowStages
    <3>2. x \in FlowRecord
      BY <1>1, <2>1, <3>1 DEF FlowFits, FlowRecord
    <3>3. flow' = [flow EXCEPT ![r] = x]
      BY <2>2
    <3> HIDE DEF x
    <3> QED
      BY <3>2, <3>3, SharedFacts
  <2>5. /\ flow'[r].stage = "session" /\ flow'[r].user = flow[r].user
        /\ flow'[r].key = flow[r].key /\ flow'[r].word = word /\ flow'[r].old = pw.word
    BY <2>2, SharedFacts DEF FlowRecord
  <2>6. ~overlap' => NoneHolds(r)
    <3> SUFFICES ASSUME ~overlap', NEW q \in Flows \ {r}, HoldsNow(flow[q]) PROVE FALSE
      BY DEF NoneHolds
    <3>1. ~overlap /\ ~Overlaps(r)
      BY <2>2
    <3>2. flow[q].word = pw.word
      BY <3>1, FlowsFit DEF FlowFits, IsCurrent, HoldsNow
    <3> QED
      BY <3>1, <3>2 DEF Overlaps, HoldsNow, Holds
  <2>7. overlap' \in BOOLEAN /\ (overlap => overlap')
    BY <2>2, SharedFacts DEF SharedTypes
  <2>8. StepFits(r)
    BY <1>3, <2>3, <2>4, <2>6, <2>7, SharedFacts DEF StepFits, KeyKept, SharedTypes
  <2>9. FlowFits(flow[r])'
    <3>1. FlowShape(flow'[r])
      BY <1>1, <2>1, <2>5 DEF FlowShape
    <3>2. HoldsKey(flow'[r], pw') /\ IsCurrent(flow'[r], pw') /\ ForOwner(flow'[r], owner')
      BY <2>1, <2>3, <2>5 DEF HoldsKey, Holds, IsCurrent, ForOwner
    <3> QED
      BY <1>1, <2>4, <2>5, <3>1, <3>2 DEF FlowFits
  <2>10. SharedTypes'
    BY <2>3, <2>7, SharedFacts DEF SharedTypes
  <2>11. OneOwner'
    BY <2>3, SharedFacts DEF OneOwner
  <2>12. PersonInv'
    BY <1>3, <2>3, SharedFacts DEF PersonInv, WordsFit
  <2>13. DeadInv'
    <3>1. \A u, w : IsGone(u, w)' =>
              IsGone(u, w) \/ (u = pw.user /\ w = pw.word /\ w # word)
      BY <2>1, <2>4, <2>5, GoneAfter DEF Retires
    <3>2. \A u, w : IsGone(u, w)' => GoneFits(u, w)
      <4>1. pw.user \in 1 .. users
        BY <2>1, SharedFacts DEF SharedTypes, PasswordKey
      <4>2. pw.word # word => pw.word \in {"ann", "bob"}
        BY <1>3, <2>1, WordsAre DEF Bobs
      <4> QED
        BY <3>1, <4>1, <4>2, SharedFacts DEF DeadInv, GoneFits
    <3>3. ~IsGone(pw.user, pw.word)'
      BY <2>3, <2>12, <3>2, SharedFacts DEF GoneFits, PersonInv, Bobs, NoUser, SharedTypes
    <3>4. \A q \in Flows, s \in sessions : ~overlap' => OwnFits(flow'[q], s)
      BY <2>4, <2>5, <2>7, SharedFacts DEF DeadInv, OwnFits
    <3>5. ~overlap' => \A s \in sessions : <<s.user, s.word>> \notin dead
      BY <2>7, SharedFacts DEF DeadInv
    <3> QED
      <4>1. users' = users /\ owner' = owner /\ sessions' = sessions /\ dead' = dead
        OBVIOUS
      <4> QED
        BY <3>2, <3>3, <3>4, <3>5, <4>1 DEF DeadInv, GoneFits
  <2> QED
    BY <2>8, <2>9, <2>10, <2>11, <2>12, <2>13, StepKeeps
<1> QED
  BY <1>2, <1>3

LEMMA ChangeSetsKeeps ==
    ASSUME AccountsInv, NEW r \in Flows, ChangeSets(r)
    PROVE  AccountsInv'
<1>1. /\ FlowFits(flow[r]) /\ flow[r].stage = "changes" /\ flow[r].key # 0
      /\ flow[r].old = flow[r].word /\ flow[r].word \in {"ann", "bob"}
  BY FlowsFit DEF ChangeSets, FlowFits, FlowShape
<1> DEFINE word == Next2[flow[r].old]
<1>2. word \in {"ann2", "bob2"} /\ (word \in Bobs <=> flow[r].word \in Bobs)
  BY <1>1, WordsAre DEF Bobs
<1>3. SetSecret(r, word) /\ UNCHANGED <<users, owner, codeKey, sessions, keys, dead>>
  BY DEF ChangeSets
<1> HIDE DEF word
<1>4. pw.id = flow[r].key => (word \in Bobs <=> pw.word \in Bobs)
  BY <1>1, <1>2 DEF FlowFits, HoldsKey, Holds
<1> QED
  BY <1>1, <1>2, <1>3, <1>4, SetSecretKeeps

LEMMA ResetSetKeeps ==
    ASSUME AccountsInv, NEW r \in Flows, ResetSet(r)
    PROVE  AccountsInv'
<1>1. /\ FlowFits(flow[r]) /\ flow[r].stage = "sets" /\ flow[r].key # 0
      /\ flow[r].user = owner /\ owner # NoUser
  BY FlowsFit DEF ResetSet, FlowFits, FlowShape, ForOwner
<1>2. pw.id = flow[r].key => ("ann2" \in Bobs <=> pw.word \in Bobs)
  BY <1>1 DEF FlowFits, HoldsKey, AccountsInv, PersonInv, Bobs
<1> QED
  BY <1>1, <1>2, SetSecretKeeps DEF ResetSet

(* A proof makes the user of the key the owner, and finds no word of Bob.  *)
LEMMA ProveKeeps ==
    ASSUME AccountsInv, NEW r \in Flows, flow[r].key # 0, pw.id = flow[r].key, MayClaim(pw.user),
           pw' = [pw EXCEPT !.proven = TRUE], owner' = pw.user, pw.word \notin Bobs,
           UNCHANGED <<users, codeKey, sessions, keys, dead, overlap>>,
           flow' \in [Flows -> FlowRecord], \A q \in Flows \ {r} : flow'[q] = flow[q],
           FlowFits(flow[r])', flow'[r].stage \notin {"session", "revokes"}
    PROVE  AccountsInv'
<1>1. pw \in PasswordKey /\ pw.user # 0
  BY FlowsFit, KeyIs DEF AccountsInv, FlowFits
<1>2. /\ pw' \in PasswordKey /\ pw'.id = pw.id /\ pw'.user = pw.user
      /\ pw'.word = pw.word
      /\ pw'.proven = TRUE
  BY <1>1 DEF PasswordKey
<1>3. owner \in {NoUser, pw.user}
  BY DEF MayClaim
<1>4. StepFits(r)
  BY <1>2, <1>3, SharedFacts DEF StepFits, KeyKept, SharedTypes
<1>5. pw.user \in Nat /\ pw.user <= users /\ users \in Nat
  BY KeyIs, SharedFacts DEF AccountsInv, SharedTypes
<1>6. SharedTypes'
  BY <1>2, <1>5, SharedFacts DEF SharedTypes
<1>7. OneOwner'
  <2>1. codeKey \in {NoUser, owner'}
    BY <1>3, SharedFacts DEF OneOwner
  <2> QED
    BY <1>1, <1>2, <2>1, SharedFacts DEF OneOwner, NoUser
<1>8. PersonInv'
  BY <1>2, SharedFacts DEF PersonInv, WordsFit
<1>9. DeadInv'
  <2>1. \A u, w : ~Retires(flow'[r], u, w)
    BY DEF Retires
  <2>2. ~overlap' => ~IsGone(pw'.user, pw'.word)
    BY <1>2, SharedFacts DEF DeadInv
  <2> QED
    BY <1>4, <2>1, <2>2, DeadKeeps
<1> QED
  BY <1>4, <1>6, <1>7, <1>8, <1>9, StepKeeps

LEMMA ResetProveKeeps ==
    ASSUME AccountsInv, NEW r \in Flows, ResetProve(r)
    PROVE  AccountsInv'
<1> DEFINE x == [flow[r] EXCEPT !.stage = "sets"]
<1>1. /\ FlowFits(flow[r]) /\ flow[r].stage = "proves" /\ flow[r].key # 0
      /\ flow[r].user = owner /\ owner # NoUser
  BY FlowsFit DEF ResetProve, FlowFits, FlowShape, ForOwner
<1>2. CASE ~(pw.id = flow[r].key /\ MayClaim(pw.user))
  BY <1>2, EndKeeps DEF ResetProve, Proves
<1>3. CASE pw.id = flow[r].key /\ MayClaim(pw.user)
  <2>1. /\ x \in FlowRecord /\ x.stage = "sets" /\ x.user = flow[r].user
        /\ x.key = flow[r].key /\ x.word = flow[r].word
    BY <1>1 DEF FlowFits, FlowRecord, FlowStages
  <2>2. /\ flow' = [flow EXCEPT ![r] = x]
        /\ pw' = [pw EXCEPT !.proven = TRUE] /\ owner' = pw.user
        /\ UNCHANGED <<users, codeKey, sessions, keys, dead, overlap>>
    BY <1>3 DEF ResetProve, Proves, FlowGoes
  <2> HIDE DEF x
  <2>3. flow' \in [Flows -> FlowRecord] /\ flow'[r] = x /\ \A q \in Flows \ {r} : flow'[q] = flow[q]
    BY <2>1, <2>2, SharedFacts
  <2>4. flow[r].user = pw.user
    BY <1>1, <1>3 DEF FlowFits, HoldsKey
  <2>5. pw'.id = pw.id /\ pw'.user = pw.user
    BY <1>1, <1>3, <2>2, KeyIs DEF AccountsInv, PasswordKey
  <2>7. FlowFits(flow[r])'
    <3>1. FlowShape(flow'[r]) /\ IsCurrent(flow'[r], pw') /\ ForOwner(flow'[r], owner')
      BY <1>1, <2>1, <2>2, <2>3, <2>4 DEF FlowFits, FlowShape, IsCurrent, Holds, ForOwner, NoUser
    <3>2. HoldsKey(flow'[r], pw')
      BY <2>1, <2>3, <2>4, <2>5 DEF HoldsKey, Holds
    <3> QED
      BY <1>1, <2>1, <2>2, <2>3, <3>1, <3>2 DEF FlowFits
  <2>8. pw.word \notin Bobs
    BY <1>1, <2>4, SharedFacts DEF PersonInv
  <2> QED
    BY <1>1, <1>3, <2>1, <2>2, <2>3, <2>7, <2>8, ProveKeeps
<1> QED
  BY <1>2, <1>3

LEMMA VerifyProveKeeps ==
    ASSUME AccountsInv, NEW r \in Flows, VerifyProve(r)
    PROVE  AccountsInv'
<1>1. FlowFits(flow[r]) /\ flow[r].stage = "verifies" /\ flow[r].key # 0
  BY FlowsFit DEF VerifyProve, FlowFits, FlowShape
<1>2. CASE ~(pw.id = flow[r].key /\ MayClaim(pw.user))
  BY <1>2, EndKeeps DEF VerifyProve, Proves
<1>3. CASE pw.id = flow[r].key /\ MayClaim(pw.user)
  <2>1. /\ flow' = [flow EXCEPT ![r] = NoFlow]
        /\ pw' = [pw EXCEPT !.proven = TRUE] /\ owner' = pw.user
        /\ UNCHANGED <<users, codeKey, sessions, keys, dead, overlap>>
    BY <1>3 DEF VerifyProve, Proves, FlowEnds
  <2>2. /\ flow' \in [Flows -> FlowRecord] /\ flow'[r] = NoFlow
        /\ \A q \in Flows \ {r} : flow'[q] = flow[q]
    BY <2>1, SharedFacts, NoFlowIs
  <2>3. FlowFits(flow[r])'
    <3>1. users \in Nat /\ keys \in Nat
      BY SharedFacts DEF SharedTypes
    <3>2. /\ FlowShape(NoFlow) /\ HoldsKey(NoFlow, pw') /\ IsCurrent(NoFlow, pw')
          /\ ForOwner(NoFlow, owner')
      BY NoFlowIs DEF FlowShape, HoldsKey, IsCurrent, Holds, ForOwner
    <3> QED
      BY <2>1, <2>2, <3>1, <3>2, NoFlowIs DEF FlowFits
  <2>4. pw.word \notin Bobs
    BY <1>1, <1>3 DEF FlowFits, HoldsKey
  <2> QED
    BY <1>1, <1>3, <2>1, <2>2, <2>3, <2>4, NoFlowIs, ProveKeeps
<1> QED
  BY <1>2, <1>3

(* A reset of somebody who has no key for the address makes one, and takes *)
(* an unproven key of another, with its sessions, away.                    *)
LEMMA InsertKeeps ==
    ASSUME AccountsInv, NEW r \in Flows, NEW u \in 1 .. users',
           flow[r].word = "ann2", MayClaim(u), pw = NoKey \/ Evicts(u), Inserts(r, u),
           users' \in Nat, users <= users', UNCHANGED <<codeKey, dead>>
    PROVE  AccountsInv'
<1>0. /\ owner' = u /\ keys' = keys + 1 /\ sessions' = sessions \ Evicted(u)
      /\ overlap' = (overlap \/ Overlaps(r))
      /\ flow' = [flow EXCEPT ![r].stage = "session", ![r].user = u, ![r].key = keys + 1,
                              ![r].old = pw.word]
      /\ dead' = dead /\ codeKey' = codeKey
  BY DEF Inserts
<1>1. /\ FlowFits(flow[r]) /\ flow[r] \in FlowRecord /\ pw.word \in Words \cup {"none"}
      /\ keys \in Nat /\ users \in Nat /\ u \in Nat /\ u # 0 /\ u <= users'
  BY FlowsFit, KeyIs, SharedFacts DEF FlowFits, AccountsInv, SharedTypes
<1>2. /\ pw' \in PasswordKey /\ pw'.id = keys + 1 /\ pw'.user = u
      /\ pw'.word = "ann2"
      /\ pw'.proven = TRUE
  <2>1. keys + 1 \in Nat \ {0} /\ u \in Nat \ {0} /\ "ann2" \in Words
    BY <1>1, WordsAre
  <2>2. pw' = [id |-> keys + 1, user |-> u, word |-> "ann2", outdated |-> FALSE, proven |-> TRUE]
    BY DEF Inserts
  <2> QED
    BY <2>1, <2>2 DEF PasswordKey
<1>3. /\ flow' \in [Flows -> FlowRecord] /\ \A q \in Flows \ {r} : flow'[q] = flow[q]
      /\ flow'[r].stage = "session" /\ flow'[r].user = u /\ flow'[r].key = keys + 1
      /\ flow'[r].word = "ann2" /\ flow'[r].old = pw.word
  <2> DEFINE x == [flow[r] EXCEPT !.stage = "session", !.user = u, !.key = keys + 1,
                                  !.old = pw.word]
  <2>0. "session" \in FlowStages /\ keys + 1 \in Nat
    BY <1>1 DEF FlowStages
  <2>1. /\ x \in FlowRecord /\ x.stage = "session" /\ x.user = u /\ x.key = keys + 1
        /\ x.word = "ann2" /\ x.old = pw.word
    <3>1. x \in FlowRecord
      BY <1>1, <2>0 DEF FlowRecord
    <3>2. x.stage = "session" /\ x.user = u /\ x.key = keys + 1 /\ x.old = pw.word
      BY <1>1 DEF FlowRecord
    <3>3. x.word = flow[r].word
      BY <1>1 DEF FlowRecord
    <3> QED
      BY <3>1, <3>2, <3>3
  <2>2. flow' = [flow EXCEPT ![r] = x]
    BY <1>0
  <2> HIDE DEF x
  <2> QED
    BY <2>1, <2>2, SharedFacts
<1>4. overlap' \in BOOLEAN /\ (overlap => overlap')
  BY <1>0, SharedFacts DEF SharedTypes
<1>5. owner \in {NoUser, u}
  BY DEF MayClaim
<1>6. StepFits(r)
  BY <1>0, <1>1, <1>2, <1>3, <1>4, <1>5 DEF StepFits, KeyIsNew
<1>7. FlowFits(flow[r])'
  <2>1. FlowShape(flow'[r])
    BY <1>0, <1>1, <1>3, WordsAre DEF FlowShape
  <2>2. HoldsKey(flow'[r], pw') /\ IsCurrent(flow'[r], pw') /\ ForOwner(flow'[r], owner')
    BY <1>0, <1>2, <1>3 DEF HoldsKey, Holds, IsCurrent, ForOwner
  <2> QED
    BY <1>0, <1>1, <1>3, <2>1, <2>2 DEF FlowFits
<1>8. \A s \in sessions' : s \in sessions /\ s.key = 0
  <2> SUFFICES ASSUME NEW s \in sessions', s.key # 0 PROVE FALSE
    BY <1>0
  <2>1. s \in sessions /\ pw.id = s.key
    BY <1>0, SharedFacts DEF OneOwner
  <2>2. pw # NoKey
    BY <2>1, KeyIs DEF AccountsInv
  <2> QED
    BY <1>0, <2>1, <2>2 DEF Evicted, OfKey
<1>9. SharedTypes'
  <2>1. codeKey \in 0 .. users' /\ dead \subseteq (1 .. users') \X Words
    BY <1>0, <1>1, SharedFacts DEF SharedTypes
  <2>2. sessions' \subseteq Session /\ \A s \in sessions' : s.user <= users' /\ s.key <= keys'
    BY <1>0, <1>1, <1>8, SharedFacts DEF SharedTypes, Session
  <2> QED
    BY <1>0, <1>1, <1>2, <1>4, <2>1, <2>2 DEF SharedTypes
<1>10. OneOwner'
  <2>1. codeKey \in {NoUser, u}
    BY <1>5, SharedFacts DEF OneOwner
  <2> QED
    BY <1>0, <1>1, <1>2, <1>8, <2>1, SharedFacts DEF OneOwner, NoUser
<1>11. PersonInv'
  BY <1>0, <1>2, <1>8, SharedFacts DEF PersonInv, WordsFit, Bobs
<1>12. DeadInv'
  <2>1. \A v, w : IsGone(v, w)' =>
            IsGone(v, w) \/ (v = u /\ w = pw.word /\ w # "ann2" /\ w # "none")
    BY <1>0, <1>3, GoneAfter DEF Retires
  <2>2. \A v, w : IsGone(v, w)' => GoneFits(v, w)'
    <3> SUFFICES ASSUME NEW v, NEW w, IsGone(v, w)' PROVE GoneFits(v, w)'
      OBVIOUS
    <3>1. CASE IsGone(v, w)
      BY <1>0, <1>1, <1>5, <3>1, SharedFacts DEF DeadInv, GoneFits, NoUser
    <3>2. CASE v = u /\ w = pw.word /\ w # "ann2" /\ w # "none"
      BY <1>0, <1>1, <3>2, WordsAre DEF GoneFits
    <3> QED
      BY <2>1, <3>1, <3>2
  <2>3. ~IsGone(pw.user, pw.word)'
    BY <1>0, <1>2, <2>2 DEF GoneFits
  <2>4. ~overlap' => \A s \in sessions' : <<s.user, s.word>> \notin dead
    BY <1>0, <1>4, <1>8, SharedFacts DEF DeadInv
  <2>5. ~overlap' => \A q \in Flows, s \in sessions' : OwnFits(flow'[q], s)
    BY <1>0, <1>3, <1>4, <1>8, SharedFacts DEF DeadInv, OwnFits
  <2> QED
    BY <2>2, <2>3, <2>4, <2>5, <1>0 DEF DeadInv
<1> QED
  BY <1>6, <1>7, <1>9, <1>10, <1>11, <1>12, StepKeeps

LEMMA ResetAddKeeps ==
    ASSUME AccountsInv, NEW r \in Flows, ResetAdd(r)
    PROVE  AccountsInv'
<1> DEFINE u == flow[r].user
<1>1. /\ FlowFits(flow[r]) /\ flow[r].word = "ann2" /\ u \in 1 .. users /\ users \in Nat
      /\ users' = users
  BY FlowsFit, SharedFacts DEF ResetAdd, FlowFits, FlowShape, ForOwner, SharedTypes, NoUser
<1>2. Inserts(r, u) /\ UNCHANGED <<users, codeKey, dead>>
  BY DEF ResetAdd
<1> HIDE DEF u
<1>3. CASE MayClaim(u) /\ (pw = NoKey \/ Evicts(u))
  BY <1>1, <1>2, <1>3, InsertKeeps
<1>4. CASE ~(MayClaim(u) /\ (pw = NoKey \/ Evicts(u)))
  BY <1>2, <1>4, EndKeeps DEF Inserts
<1> QED
  BY <1>3, <1>4

LEMMA ResetStartKeeps ==
    ASSUME AccountsInv, NEW r \in Flows, ResetStart(r)
    PROVE  AccountsInv'
<1> DEFINE u == users + 1
<1>1. /\ FlowFits(flow[r]) /\ flow[r].word = "ann2" /\ users \in Nat /\ flow[r] \in FlowRecord
  BY FlowsFit, SharedFacts DEF ResetStart, FlowFits, FlowShape, SharedTypes
<1>2. /\ Inserts(r, u) /\ UNCHANGED <<codeKey, dead>>
      /\ users' = IF flow'[r].stage = "session" THEN u ELSE users
  BY DEF ResetStart
<1>3. u \in Nat /\ u # 0 /\ users <= u
  BY <1>1
<1> HIDE DEF u
<1>4. CASE MayClaim(u) /\ (pw = NoKey \/ Evicts(u))
  <2>1. flow'[r].stage = "session"
    BY <1>1, <1>2, <1>4, SharedFacts DEF Inserts, FlowRecord
  <2>2. users' = u /\ u \in 1 .. users'
    BY <1>2, <1>3, <2>1
  <2> QED
    BY <1>1, <1>2, <1>3, <1>4, <2>2, InsertKeeps
<1>5. CASE ~(MayClaim(u) /\ (pw = NoKey \/ Evicts(u)))
  <2>1. flow'[r].stage = "idle"
    BY <1>2, <1>5, SharedFacts, NoFlowIs DEF Inserts, FlowEnds
  <2> QED
    BY <1>2, <1>5, <2>1, EndKeeps DEF Inserts
<1> QED
  BY <1>4, <1>5

(* A sign-in by code makes its user the owner, and takes an unproven key   *)
(* of another away.                                                        *)
LEMMA LoginKeyKeeps ==
    ASSUME AccountsInv, NEW r \in Flows, LoginKey(r)
    PROVE  AccountsInv'
<1> DEFINE u == IF flow[r].user = NoUser THEN users + 1 ELSE flow[r].user
           x == [flow[r] EXCEPT !.stage = "session", !.user = u]
<1>1. /\ FlowFits(flow[r]) /\ flow[r] \in FlowRecord /\ flow[r].stage = "provesCode"
      /\ flow[r].user \in {NoUser, owner} /\ flow[r].key = 0 /\ flow[r].word = "code"
      /\ ~flow[r].revokes
      /\ users \in Nat /\ keys \in Nat /\ owner \in Nat /\ owner <= users
  BY FlowsFit, SharedFacts DEF LoginKey, FlowFits, FlowShape, ForOwner, SharedTypes
<1>2. CASE ~(MayClaim(u) /\ codeKey \in {NoUser, u})
  BY <1>2, EndKeeps DEF LoginKey
<1>3. CASE MayClaim(u) /\ codeKey \in {NoUser, u}
  <2>0. u \in Nat /\ u # 0
    BY <1>1 DEF NoUser
  <2>1. /\ owner' = u /\ codeKey' = u /\ users' = IF u > users THEN u ELSE users
        /\ sessions' = sessions \ Evicted(u)
        /\ pw' = IF Evicts(u) THEN NoKey ELSE pw
        /\ flow' = [flow EXCEPT ![r] = x]
        /\ UNCHANGED <<keys, dead, overlap>>
    BY <1>3 DEF LoginKey
  <2>2. /\ x \in FlowRecord /\ x.stage = "session" /\ x.user = u /\ x.key = 0
        /\ x.word = "code" /\ x.revokes = flow[r].revokes
    <3>1. "session" \in FlowStages
      BY DEF FlowStages
    <3> QED
      BY <1>1, <2>0, <3>1 DEF FlowRecord
  <2>3. /\ owner \in {NoUser, u} /\ (owner = NoUser => u > users)
        /\ users' \in Nat /\ users <= users' /\ u <= users'
    BY <1>1, <1>3, <2>0, <2>1 DEF MayClaim, NoUser
  <2> HIDE DEF u, x
  <2>4. /\ flow' \in [Flows -> FlowRecord] /\ flow'[r] = x
        /\ \A q \in Flows \ {r} : flow'[q] = flow[q]
    BY <2>1, <2>2, SharedFacts
  <2>5. NoKey.id = 0 /\ NoKey.user = 0 /\ NoKey.proven = FALSE /\ NoKey.word = "none"
    BY KeyIs, ProvenIs DEF AccountsInv
  <2>6. pw' = NoKey \/ pw' = pw
    BY <2>1
  <2>7. StepFits(r)
    BY <1>1, <2>1, <2>3, <2>4, <2>5, <2>6 DEF StepFits, KeyKept, KeyIsNew
  <2>8. FlowFits(flow[r])'
    <3>1. FlowShape(flow'[r])
      BY <1>1, <2>0, <2>2, <2>4 DEF FlowShape
    <3>2. HoldsKey(flow'[r], pw') /\ IsCurrent(flow'[r], pw') /\ ForOwner(flow'[r], owner')
      BY <2>2, <2>4 DEF HoldsKey, Holds, IsCurrent, ForOwner
    <3> QED
      BY <1>1, <2>1, <2>2, <2>3, <2>4, <3>1, <3>2 DEF FlowFits
  <2>9. SharedTypes'
    <3>1. dead \subseteq (1 .. users') \X Words
      BY <1>1, <2>3, SharedFacts DEF SharedTypes
    <3>2. sessions' \subseteq Session /\ \A s \in sessions' : s.user <= users' /\ s.key <= keys
      BY <1>1, <2>1, <2>3, SharedFacts DEF SharedTypes, Session
    <3>3. pw' = NoKey \/ pw' \in PasswordKey
      BY <2>6, SharedFacts DEF SharedTypes
    <3>4. pw'.id <= keys /\ pw'.user <= users'
      BY <1>1, <2>3, <2>5, <2>6, KeyIs, SharedFacts DEF SharedTypes, AccountsInv
    <3> QED
      BY <1>1, <2>0, <2>1, <2>3, <3>1, <3>2, <3>3, <3>4, SharedFacts DEF SharedTypes
  <2>10. OneOwner'
    <3>1. pw'.proven => pw'.user = u
      <4> SUFFICES ASSUME pw'.proven PROVE pw'.user = u
        OBVIOUS
      <4>1. pw' = pw
        BY <2>5, <2>6
      <4> QED
        BY <2>3, <4>1, SharedFacts DEF OneOwner
    <3>2. \A s \in sessions' : IF s.key = 0 THEN codeKey' = s.user
                               ELSE pw'.id = s.key /\ pw'.user = s.user
      <4> SUFFICES ASSUME NEW s \in sessions'
                   PROVE  IF s.key = 0 THEN codeKey' = s.user
                          ELSE pw'.id = s.key /\ pw'.user = s.user
        OBVIOUS
      <4>1. s \in sessions /\ s \notin Evicted(u)
        BY <2>1
      <4>2. CASE s.key = 0
        BY <1>3, <2>1, <4>1, <4>2, SharedFacts DEF OneOwner, SharedTypes, Session, NoUser
      <4>3. CASE s.key # 0
        BY <2>1, <4>1, <4>3, SharedFacts DEF OneOwner, Evicted, OfKey
      <4> QED
        BY <4>2, <4>3
    <3> QED
      BY <2>0, <2>1, <3>1, <3>2 DEF OneOwner, NoUser
  <2>11. PersonInv'
    <3>1. pw'.user = u => pw'.word \notin Bobs
      <4>1. CASE owner = u
        BY <2>0, <2>5, <2>6, <4>1, SharedFacts DEF PersonInv, NoUser
      <4>2. CASE owner = NoUser
        BY <1>1, <2>0, <2>3, <2>5, <2>6, <4>2, KeyIs, SharedFacts DEF SharedTypes, AccountsInv
      <4> QED
        BY <2>3, <4>1, <4>2
    <3>2. \A s \in sessions' : WordsFit(s, pw')
      <4> SUFFICES ASSUME NEW s \in sessions' PROVE WordsFit(s, pw')
        OBVIOUS
      <4>1. s \in sessions /\ s \notin Evicted(u)
        BY <2>1
      <4>2. CASE s.key = 0
        BY <4>1, <4>2, SharedFacts DEF PersonInv, WordsFit
      <4>3. CASE s.key # 0
        <5>1. pw' = pw
          BY <2>1, <4>1, <4>3, SharedFacts DEF OneOwner, Evicted, OfKey
        <5> QED
          BY <4>1, <5>1, SharedFacts DEF PersonInv
      <4> QED
        BY <4>2, <4>3
    <3> QED
      BY <2>1, <3>1, <3>2 DEF PersonInv
  <2>12. DeadInv'
    <3>1. \A v, w : ~Retires(flow'[r], v, w)
      BY <1>1, <2>2, <2>4 DEF Retires
    <3>2. ~overlap' => ~IsGone(pw'.user, pw'.word)
      BY <2>1, <2>5, <2>6, SharedFacts DEF DeadInv, GoneFits
    <3> QED
      BY <2>1, <2>2, <2>4, <2>7, <3>1, <3>2, DeadKeeps
  <2> QED
    BY <2>7, <2>8, <2>9, <2>10, <2>11, <2>12, StepKeeps
<1> QED
  BY <1>2, <1>3

-----------------------------------------------------------------------------
(* Sessions.                                                               *)
LEMMA CreateSessionKeeps ==
    ASSUME AccountsInv, NEW r \in Flows, CreateSession(r)
    PROVE  AccountsInv'
<1> DEFINE free == {i \in 1 .. MaxSessions : \A s \in sessions : s.id # i}
           new == [id |-> CHOOSE i \in free : TRUE, user |-> flow[r].user, key |-> flow[r].key,
                   word |-> flow[r].word]
<1>1. /\ FlowFits(flow[r]) /\ flow[r] \in FlowRecord /\ flow[r].stage = "session"
      /\ flow[r].user # 0
      /\ users \in Nat /\ keys \in Nat
  BY FlowsFit, SharedFacts DEF CreateSession, FlowFits, FlowShape, SharedTypes
<1>2. UNCHANGED <<users, owner, pw, codeKey, keys, dead, overlap>>
  BY DEF CreateSession
<1>3. CASE ~HasKey(r)
  BY <1>2, <1>3, EndKeeps DEF CreateSession
<1>4. CASE HasKey(r)
  <2>1. /\ sessions' = sessions \cup {new} /\ free # {}
        /\ IF flow[r].revokes
           THEN flow' = [flow EXCEPT ![r].stage = "revokes", ![r].own = new.id]
           ELSE FlowEnds(r)
    BY <1>4 DEF CreateSession
  <2>2. /\ new.id \in Nat /\ \A s \in sessions : s.id # new.id
        /\ new.user = flow[r].user /\ new.key = flow[r].key /\ new.word = flow[r].word
    <3>1. (CHOOSE i \in free : TRUE) \in free
      BY <2>1
    <3> QED
      BY <3>1, AccountNumbers
  <2>3. flow[r].word \in Words \cup {"code"}
    BY <1>1 DEF FlowFits, FlowShape
  <2>4. new \in Session
    BY <1>1, <2>2, <2>3 DEF Session, FlowRecord
  <2> HIDE DEF new, free
  <2>5. IF new.key = 0 THEN codeKey = new.user /\ new.word = "code"
        ELSE /\ pw.id = new.key /\ pw.user = new.user /\ (new.word \in Bobs <=> pw.word \in Bobs)
             /\ ~overlap => new.word = pw.word
    BY <1>1, <1>4, <2>2 DEF HasKey, FlowFits, FlowShape, HoldsKey, Holds, IsCurrent
  <2>6. /\ flow' \in [Flows -> FlowRecord] /\ \A q \in Flows \ {r} : flow'[q] = flow[q]
        /\ \/ flow'[r] = NoFlow
           \/ /\ flow[r].revokes
              /\ flow'[r].stage = "revokes" /\ flow'[r].own = new.id
              /\ flow'[r].user = flow[r].user /\ flow'[r].key = flow[r].key
              /\ flow'[r].word = flow[r].word /\ flow'[r].old = flow[r].old
    <3>1. CASE flow[r].revokes
      <4> DEFINE x == [flow[r] EXCEPT !.stage = "revokes", !.own = new.id]
      <4>1. "revokes" \in FlowStages
        BY DEF FlowStages
      <4>2. /\ x \in FlowRecord /\ x.stage = "revokes" /\ x.own = new.id
            /\ x.user = flow[r].user /\ x.key = flow[r].key
            /\ x.word = flow[r].word /\ x.old = flow[r].old
        BY <1>1, <2>2, <4>1 DEF FlowRecord
      <4>3. flow' = [flow EXCEPT ![r] = x]
        BY <2>1, <3>1
      <4> HIDE DEF x
      <4> QED
        BY <3>1, <4>2, <4>3, SharedFacts
    <3>2. CASE ~flow[r].revokes
      BY <2>1, <3>2, SharedFacts, NoFlowIs DEF FlowEnds
    <3> QED
      BY <3>1, <3>2
  <2>7. StepFits(r)
    BY <1>1, <1>2, <2>6 DEF StepFits, KeyKept
  <2>8. FlowFits(flow[r])'
    <3>1. /\ FlowShape(flow'[r]) /\ HoldsKey(flow'[r], pw) /\ IsCurrent(flow'[r], pw)
          /\ ForOwner(flow'[r], owner) /\ flow'[r].user <= users /\ flow'[r].key <= keys
      BY <1>1, <2>6, NoFlowIs DEF FlowShape, HoldsKey, IsCurrent, Holds, ForOwner, FlowFits
    <3> QED
      BY <1>2, <2>6, <3>1 DEF FlowFits
  <2>9. SharedTypes'
    <3>1. new.user <= users /\ new.key <= keys
      BY <1>1, <2>2 DEF FlowFits
    <3> QED
      BY <1>2, <2>1, <2>4, <3>1, SharedFacts DEF SharedTypes
  <2>10. OneOwner'
    BY <1>2, <2>1, <2>5, SharedFacts DEF OneOwner
  <2>11. PersonInv'
    BY <1>2, <2>1, <2>5, SharedFacts DEF PersonInv, WordsFit
  <2>12. DeadInv'
    <3>1. \A u, w : IsGone(u, w)' => IsGone(u, w)
      <4>1. \A u, w : Retires(flow'[r], u, w) => Retires(flow[r], u, w)
        BY <1>1, <2>6, NoFlowIs DEF Retires
      <4> QED
        BY <1>2, <2>6, <4>1, GoneAfter DEF IsGone
    <3>2. ~overlap => /\ ~IsGone(new.user, new.word)
                      /\ <<new.user, new.word>> \notin dead
      <4>1. CASE new.key = 0
        BY <2>5, <4>1, SharedFacts DEF DeadInv, GoneFits, IsGone
      <4>2. CASE new.key # 0
        BY <2>5, <4>2, SharedFacts DEF DeadInv, IsGone
      <4> QED
        BY <4>1, <4>2
    <3>3. ~overlap => \A q \in Flows, s \in sessions' : OwnFits(flow'[q], s)
      <4> SUFFICES ASSUME ~overlap, NEW q \in Flows, NEW s \in sessions',
                          flow'[q].stage = "revokes", s.id = flow'[q].own, s.user = flow'[q].user,
                          s.word = flow'[q].old
                   PROVE  flow'[q].old = flow'[q].word
        BY DEF OwnFits
      <4>1. CASE q = r
        BY <2>1, <2>2, <2>6, <4>1, NoFlowIs
      <4>2. CASE q # r /\ s \in sessions
        BY <2>6, <4>2, SharedFacts DEF DeadInv, OwnFits
      <4>3. CASE q # r /\ s = new
        <5>1. new.word # "none"
          BY <2>2, <2>3, WordsAre
        <5>2. flow[q].old # flow[q].word => Retires(flow[q], new.user, new.word)
          BY <2>6, <4>3, <5>1 DEF Retires
        <5> QED
          BY <2>6, <3>2, <4>3, <5>2 DEF IsGone
      <4> QED
        BY <2>1, <4>1, <4>2, <4>3
    <3>4. \A u, w : IsGone(u, w)' => GoneFits(u, w)'
      BY <1>2, <3>1, SharedFacts DEF DeadInv, GoneFits
    <3>5. ~overlap => ~IsGone(pw.user, pw.word)'
      BY <1>2, <3>1, SharedFacts DEF DeadInv
    <3>6. ~overlap => \A s \in sessions' : <<s.user, s.word>> \notin dead
      BY <2>1, <3>2, SharedFacts DEF DeadInv
    <3> QED
      BY <1>2, <3>3, <3>4, <3>5, <3>6 DEF DeadInv
  <2> QED
    BY <2>7, <2>8, <2>9, <2>10, <2>11, <2>12, StepKeeps
<1> QED
  BY <1>3, <1>4

LEMMA ReplaceSessionsKeeps ==
    ASSUME AccountsInv, NEW r \in Flows, ReplaceSessions(r)
    PROVE  AccountsInv'
<1>1. /\ FlowFits(flow[r]) /\ flow[r] \in FlowRecord /\ flow[r].stage = "revokes"
      /\ flow[r].user # 0 /\ users \in Nat /\ keys \in Nat
  BY FlowsFit, SharedFacts DEF ReplaceSessions, FlowFits, FlowShape, SharedTypes
<1>2. /\ UNCHANGED <<users, owner, pw, codeKey, keys, overlap>>
      /\ sessions' = sessions \ SignsOut(r)
      /\ dead' = dead \cup {flow[r].user} \X ({flow[r].old} \ {flow[r].word, "none"})
  BY DEF ReplaceSessions
<1>3. /\ flow' \in [Flows -> FlowRecord] /\ flow'[r] = NoFlow
      /\ \A q \in Flows \ {r} : flow'[q] = flow[q]
  BY SharedFacts, NoFlowIs DEF ReplaceSessions, FlowEnds
<1>4. StepFits(r)
  BY <1>1, <1>2, <1>3 DEF StepFits, KeyKept
<1>5. flow[r].user \in 1 .. users /\ flow[r].old \in Words \cup {"none"}
  BY <1>1 DEF FlowFits, FlowRecord
<1>6. SharedTypes'
  <2>1. dead' \subseteq (1 .. users) \X Words
    BY <1>2, <1>5, SharedFacts DEF SharedTypes
  <2> QED
    BY <1>2, <2>1, SharedFacts DEF SharedTypes
<1>7. FlowFits(flow[r])'
  <2>1. FlowFits(NoFlow)
    BY NoFlowFits DEF AccountsInv
  <2> QED
    BY <1>2, <1>3, <2>1 DEF FlowFits
<1>8. OneOwner' /\ PersonInv'
  BY <1>2, SharedFacts DEF OneOwner, PersonInv
<1>9. \A u, w : <<u, w>> \in dead' => <<u, w>> \in dead \/ Retires(flow[r], u, w)
  BY <1>1, <1>2 DEF Retires
<1>10. \A u, w : IsGone(u, w)' => IsGone(u, w)
  <2>1. \A u, w : ~Retires(NoFlow, u, w)
    BY NoFlowIs DEF Retires
  <2> QED
    BY <1>3, <1>9, <2>1 DEF IsGone
<1>11. ~overlap => \A s \in sessions' : <<s.user, s.word>> \notin dead'
  <2> SUFFICES ASSUME ~overlap, NEW s \in sessions', <<s.user, s.word>> \in dead' PROVE FALSE
    OBVIOUS
  <2>1. s \in sessions /\ <<s.user, s.word>> \notin dead
    BY <1>2, SharedFacts DEF DeadInv
  <2>2. s.user = flow[r].user /\ s.word = flow[r].old /\ flow[r].old # flow[r].word
    BY <1>2, <2>1
  <2>3. s.id = flow[r].own
    BY <1>2, <2>2 DEF SignsOut
  <2> QED
    BY <1>1, <2>1, <2>2, <2>3, SharedFacts DEF DeadInv, OwnFits
<1>12. DeadInv'
  <2>1. \A u, w : IsGone(u, w)' => GoneFits(u, w)'
    BY <1>2, <1>10, SharedFacts DEF DeadInv, GoneFits
  <2>2. ~overlap => ~IsGone(pw.user, pw.word)'
    BY <1>2, <1>10, SharedFacts DEF DeadInv
  <2>3. ~overlap => \A q \in Flows, s \in sessions' : OwnFits(flow'[q], s)
    BY <1>2, <1>3, NoFlowIs, SharedFacts DEF DeadInv, OwnFits
  <2> QED
    BY <1>2, <1>11, <2>1, <2>2, <2>3 DEF DeadInv
<1> QED
  BY <1>4, <1>6, <1>7, <1>8, <1>12, StepKeeps

(* The steps of no call.                                                   *)
LEMMA EndSessionKeeps ==
    ASSUME AccountsInv, EndSession
    PROVE  AccountsInv'
<1>1. /\ sessions' \subseteq sessions
      /\ UNCHANGED <<users, owner, pw, codeKey, flow, keys, dead, overlap>>
  BY DEF EndSession
<1>2. AccountTypes' /\ OneOwner' /\ PersonInv' /\ FlowInv'
  BY <1>1 DEF AccountsInv, AccountTypes, OneOwner, PersonInv, FlowInv
<1>3. DeadInv'
  BY <1>1 DEF AccountsInv, DeadInv, IsGone, GoneFits
<1> QED
  BY <1>2, <1>3 DEF AccountsInv

LEMMA UnseenKeeps ==
    ASSUME AccountsInv, UNCHANGED <<users, owner, pw, codeKey, sessions, flow, keys, dead, overlap>>
    PROVE  AccountsInv'
<1>1. AccountTypes' /\ OneOwner' /\ PersonInv' /\ FlowInv'
  BY DEF AccountsInv, AccountTypes, OneOwner, PersonInv, FlowInv
<1>2. DeadInv'
  BY DEF AccountsInv, DeadInv, IsGone, GoneFits
<1> QED
  BY <1>1, <1>2 DEF AccountsInv

-----------------------------------------------------------------------------
LEMMA AccountsStart == AccountsInit => AccountsInv
<1> SUFFICES ASSUME AccountsInit PROVE AccountsInv
  OBVIOUS
<1>1. /\ codeKey = 0 /\ sessions = {} /\ dead = {} /\ overlap = FALSE
      /\ flow \in [Flows -> FlowRecord] /\ \A r \in Flows : flow[r] = NoFlow
  BY NoFlowIs DEF AccountsInit, NoUser
<1>2. /\ users \in {0, 1} /\ keys = users /\ owner \in {0, users}
      /\ pw.id = users /\ pw.user = users /\ pw.word \in {"none", "ann"}
      /\ pw = NoKey \/ pw \in PasswordKey
      /\ pw.proven <=> owner = 1
  <2>1. CASE pw = NoKey /\ owner = NoUser /\ users = 0 /\ keys = 0
    BY <2>1 DEF NoKey, NoUser
  <2>2. CASE /\ users = 1 /\ keys = 1 /\ owner \in {NoUser, 1}
             /\ pw = [id |-> 1, user |-> 1, word |-> "ann", outdated |-> TRUE,
                      proven |-> owner = 1]
    <3>1. (owner = 1) \in BOOLEAN /\ "ann" \in Words /\ 1 \in Nat \ {0}
      BY WordsAre
    <3>2. pw \in PasswordKey
      BY <2>2, <3>1 DEF PasswordKey
    <3>3. pw.proven = (owner = 1) /\ pw.id = 1 /\ pw.user = 1 /\ pw.word = "ann"
      BY <2>2
    <3> QED
      BY <2>2, <3>2, <3>3 DEF NoUser
  <2> QED
    BY <2>1, <2>2 DEF AccountsInit
<1>3. AccountTypes
  <2>1. overlap \in BOOLEAN
    BY <1>1
  <2>2. \A r \in Flows : flow[r].user <= users /\ flow[r].key <= keys
    BY <1>1, <1>2, NoFlowIs
  <2>3. users \in Nat /\ keys \in Nat /\ owner \in 0 .. users /\ codeKey \in 0 .. users
    BY <1>1, <1>2
  <2> QED
    BY <1>1, <1>2, <2>1, <2>2, <2>3 DEF AccountTypes
<1>4. OneOwner
  BY <1>1, <1>2 DEF OneOwner, NoUser
<1>5. FlowInv
  <2>1. FlowFits(NoFlow)
    BY <1>3, NoFlowFits
  <2> QED
    BY <1>1, <2>1 DEF FlowInv, FlowFits
<1>6. PersonInv
  BY <1>1, <1>2 DEF PersonInv, Bobs
<1>7. \A u, w : ~IsGone(u, w)
  BY <1>1, NoFlowIs DEF IsGone, Retires
<1>8. DeadInv
  BY <1>1, <1>7 DEF DeadInv
<1> QED
  BY <1>3, <1>4, <1>5, <1>6, <1>8 DEF AccountsInv

LEMMA AccountsStepKeeps == AccountsInv /\ [AccountsNext]_accountVars => AccountsInv'
<1> SUFFICES ASSUME AccountsInv, [AccountsNext]_accountVars PROVE AccountsInv'
  OBVIOUS
<1>1. CASE UNCHANGED accountVars
  BY <1>1, UnseenKeeps DEF accountVars
<1>2. CASE Ask
  BY <1>2, UnseenKeeps DEF Ask
<1>3. CASE EndSession
  BY <1>3, EndSessionKeeps
<1>4. ASSUME NEW r \in Flows, NEW word \in Words, SignUp(r, word) \/ SignIn(r, word)
      PROVE  AccountsInv'
  BY <1>4, SignUpKeeps, SignInKeeps
<1>5. ASSUME NEW r \in Flows, NEW s \in sessions, Change(r, s)
      PROVE  AccountsInv'
  BY <1>5, ChangeKeeps
<1>6. ASSUME NEW r \in Flows,
             \/ CreateUser(r) \/ Rehash(r) \/ Recheck(r) \/ CreateSession(r)
             \/ ReplaceSessions(r) \/ ChangeSets(r)
      PROVE  AccountsInv'
  BY <1>6, CreateUserKeeps, RehashKeeps, RecheckKeeps, CreateSessionKeeps,
     ReplaceSessionsKeeps, ChangeSetsKeeps
<1>7. ASSUME NEW r \in Flows,
             \/ ResetMatch(r) \/ ResetCancel(r) \/ ResetFind(r) \/ ResetJudge(r)
             \/ ResetProve(r) \/ ResetSet(r) \/ ResetAdd(r) \/ ResetStart(r)
      PROVE  AccountsInv'
  BY <1>7, ResetMatchKeeps, ResetCancelKeeps, ResetFindKeeps, ResetJudgeKeeps,
     ResetProveKeeps, ResetSetKeeps, ResetAddKeeps, ResetStartKeeps
<1>8. ASSUME NEW r \in Flows,
             Verify(r) \/ VerifyProve(r) \/ Login(r) \/ LoginOwner(r) \/ LoginKey(r)
      PROVE  AccountsInv'
  BY <1>8, VerifyKeeps, VerifyProveKeeps, LoginKeeps, LoginOwnerKeeps, LoginKeyKeeps
<1>9. ASSUME NEW r \in Flows, FlowFails(r) PROVE AccountsInv'
  BY <1>9, EndKeeps DEF FlowFails
<1> QED
  BY <1>1, <1>2, <1>3, <1>4, <1>5, <1>6, <1>7, <1>8, <1>9 DEF AccountsNext

LEMMA AccountsInvSafe == AccountsInv => AccountsSafe
<1> SUFFICES ASSUME AccountsInv PROVE AccountsSafe
  OBVIOUS
<1>1. NoHijack
  BY KeyIs DEF AccountsInv, OneOwner, PersonInv, WordsFit, NoHijack, Bobs
<1>2. OldWordDies
  BY DEF AccountsInv, DeadInv, IsGone, OldWordDies
<1> QED
  BY <1>1, <1>2 DEF AccountsInv, AccountsSafe

(* The account of an address belongs to who reads the mail of it, however  *)
(* many calls sign up, sign in, change, reset and verify at once: one      *)
(* proven owner, no session or word of somebody who only registered the    *)
(* address first, and a word that was replaced opens nothing any more      *)
(* (auth/password.ts, auth/email-code.ts).                                 *)
THEOREM AccountsAreSafe == AccountsSpec => []AccountsSafe
<1>1. AccountsSpec => []AccountsInv
  BY AccountsStart, AccountsStepKeeps, PTL DEF AccountsSpec
<1> QED
  BY <1>1, AccountsInvSafe, PTL

(* What is within the bounds: users, calls and the numbers of sessions.    *)
AccountBounds ==
    /\ users <= MaxUsers /\ begunFlows \in 0 .. MaxFlows
    /\ \A s \in sessions : s.id \in 1 .. MaxSessions

LEMMA BoundsStart == AccountsInit => AccountBounds
<1> SUFFICES ASSUME AccountsInit PROVE AccountBounds
  OBVIOUS
<1>1. MaxUsers \in Nat \ {0} /\ MaxFlows \in Nat
  BY AccountsAssumption
<1>2. users \in {0, 1} /\ begunFlows = 0 /\ sessions = {}
  BY DEF AccountsInit
<1> QED
  BY <1>1, <1>2 DEF AccountBounds

LEMMA BoundsStep == AccountsInv /\ AccountBounds /\ [AccountsNext]_accountVars => AccountBounds'
<1> SUFFICES ASSUME AccountsInv, AccountBounds, [AccountsNext]_accountVars PROVE AccountBounds'
  OBVIOUS
<1>1. users \in Nat /\ MaxUsers \in Nat /\ MaxFlows \in Nat /\ begunFlows \in Nat
  BY AccountsAssumption DEF AccountsInv, AccountTypes, AccountBounds
<1>2. \A r \in Flows : flow[r].user <= users /\ flow[r].user \in Nat
  BY DEF AccountsInv, AccountTypes, FlowRecord
<1>3. \/ users' = users
      \/ users' = users + 1 /\ users < MaxUsers
      \/ \E r \in Flows : users' = flow[r].user
  <2>1. ASSUME NEW r \in Flows, LoginKey(r)
        PROVE  \/ users' = users
               \/ users' = users + 1 /\ users < MaxUsers
               \/ users' = flow[r].user
    BY <2>1 DEF LoginKey
  <2>2. ASSUME NEW r \in Flows, CreateUser(r) \/ ResetStart(r)
        PROVE  users' = users \/ (users' = users + 1 /\ users < MaxUsers)
    BY <2>2 DEF CreateUser, ResetStart
  <2>3. CASE \A r \in Flows : ~LoginKey(r) /\ ~CreateUser(r) /\ ~ResetStart(r)
    BY <2>3 DEF AccountsNext, accountVars, SignUp, SignIn, Change, Rehash, Recheck, CreateSession,
       ReplaceSessions, ChangeSets, ResetMatch, ResetCancel, ResetFind, ResetJudge, ResetProve,
       ResetSet, ResetAdd, Verify, VerifyProve, Login, LoginOwner, FlowFails, Ask, EndSession
  <2> QED
    BY <2>1, <2>2, <2>3
<1>4. users' <= MaxUsers
  BY <1>1, <1>2, <1>3 DEF AccountBounds
<1>5. begunFlows' = begunFlows \/ (begunFlows < MaxFlows /\ begunFlows' = begunFlows + 1)
  <2>1. ASSUME NEW r \in Flows,
               \/ \E word \in Words : SignUp(r, word) \/ SignIn(r, word)
               \/ \E s \in sessions : Change(r, s)
               \/ ResetMatch(r) \/ Verify(r) \/ Login(r)
        PROVE  begunFlows < MaxFlows /\ begunFlows' = begunFlows + 1
    BY <2>1 DEF SignUp, SignIn, Change, ResetMatch, Verify, Login, FlowBegins
  <2>2. ASSUME NEW r \in Flows,
               \/ CreateUser(r) \/ Rehash(r) \/ Recheck(r) \/ CreateSession(r)
               \/ ReplaceSessions(r) \/ ChangeSets(r) \/ LoginOwner(r) \/ LoginKey(r) \/ FlowFails(r)
        PROVE  begunFlows' = begunFlows
    BY <2>2 DEF CreateUser, Rehash, Recheck, CreateSession, ReplaceSessions, ChangeSets, LoginOwner,
       LoginKey, FlowFails
  <2>3. ASSUME NEW r \in Flows,
               \/ ResetCancel(r) \/ ResetFind(r) \/ ResetJudge(r) \/ ResetProve(r)
               \/ ResetSet(r) \/ ResetAdd(r) \/ ResetStart(r) \/ VerifyProve(r)
        PROVE  begunFlows' = begunFlows
    BY <2>3 DEF ResetCancel, ResetFind, ResetJudge, ResetProve, ResetSet, ResetAdd, ResetStart,
       VerifyProve
  <2>4. CASE Ask \/ EndSession \/ UNCHANGED accountVars
    BY <2>4 DEF Ask, EndSession, accountVars
  <2> QED
    BY <2>1, <2>2, <2>3, <2>4 DEF AccountsNext
<1>6. ASSUME NEW s \in sessions' PROVE s \in sessions \/ s.id \in 1 .. MaxSessions
  <2>1. ASSUME NEW r \in Flows, CreateSession(r)
        PROVE  s \in sessions \/ s.id \in 1 .. MaxSessions
    BY <2>1 DEF CreateSession
  <2>2. ASSUME NEW r \in Flows, ResetAdd(r) \/ ResetStart(r) \/ LoginKey(r)
        PROVE  s \in sessions
    BY <2>2 DEF ResetAdd, ResetStart, LoginKey, Inserts
  <2>3. CASE \A r \in Flows : ~CreateSession(r) /\ ~ResetAdd(r) /\ ~ResetStart(r) /\ ~LoginKey(r)
    BY <2>3 DEF AccountsNext, accountVars, SignUp, SignIn, Change, Rehash, Recheck, CreateUser,
       ReplaceSessions, ChangeSets, ResetMatch, ResetCancel, ResetFind, ResetJudge, ResetProve,
       ResetSet, Verify, VerifyProve, Login, LoginOwner, FlowFails, Ask, EndSession
  <2> QED
    BY <2>1, <2>2, <2>3
<1> QED
  BY <1>1, <1>4, <1>5, <1>6 DEF AccountBounds

(* The types of the accounts, within their bounds.                         *)
THEOREM AccountTypesKept == AccountsSpec => []AccountsTypeOK
<1>1. AccountsInv /\ AccountBounds => AccountsTypeOK
  <2> SUFFICES ASSUME AccountsInv, AccountBounds PROVE AccountsTypeOK
    OBVIOUS
  <2>1. /\ users \in Nat /\ keys \in Nat /\ MaxUsers \in Nat
        /\ users <= MaxUsers /\ begunFlows \in 0 .. MaxFlows
    BY AccountsAssumption DEF AccountsInv, AccountTypes, AccountBounds
  <2>2. pw = NoKey \/ pw \in [id : 1 .. keys, user : 1 .. users, word : Words,
                             outdated : BOOLEAN, proven : BOOLEAN]
    <3>1. pw = NoKey \/ pw \in PasswordKey
      BY DEF AccountsInv, AccountTypes
    <3>2. pw.id <= keys /\ pw.user <= users
      BY DEF AccountsInv, AccountTypes
    <3> QED
      BY <2>1, <3>1, <3>2 DEF PasswordKey
  <2>3. ASSUME NEW s \in sessions
        PROVE  s \in [id : 1 .. MaxSessions, user : 1 .. users, key : 0 .. keys,
                     word : Words \cup {"code"}]
    <3>1. s \in Session /\ s.user <= users /\ s.key <= keys /\ s.id \in 1 .. MaxSessions
      BY DEF AccountsInv, AccountTypes, AccountBounds
    <3> QED
      BY <2>1, <3>1 DEF Session
  <2>4. /\ owner \in 0 .. users /\ codeKey \in 0 .. users
        /\ dead \subseteq (1 .. users) \X Words /\ overlap \in BOOLEAN
    BY DEF AccountsInv, AccountTypes
  <2> QED
    BY <2>1, <2>2, <2>3, <2>4 DEF AccountsTypeOK
<1> QED
  BY <1>1, AccountsStart, AccountsStepKeeps, BoundsStart, BoundsStep, PTL DEF AccountsSpec

-----------------------------------------------------------------------------
(* The mailing of an issue.                                                *)
EntryStates == {"unsent", "legacy", "unaimed", "open", "closed"}
LogEntry == [state : EntryStates, audience : SUBSET People, got : SUBSET People]
Mailings == [pc : {"send"}, issue : Issues, list : SUBSET People, todo : SUBSET People,
             failed : BOOLEAN]
Openings == [pc : {"open"}, issue : Issues, list : SUBSET People]
Foldings == [pc : {"fold"}, after : {Idle} \cup Mailings]
Recordings == [pc : {"record"}, who : People, after : Mailings]

LogTypes ==
    /\ entry \in [Issues -> LogEntry]
    /\ journal \subseteq Issues \X People
    /\ torn \in BOOLEAN /\ broken \in BOOLEAN /\ overTear \in BOOLEAN
    /\ started \in [Runs -> SUBSET Issues]
    /\ meant \in [Issues -> SUBSET People]
    /\ mailed \in [Issues -> [People -> Nat]]
    /\ unrecorded \in [Issues -> [People -> Nat]]
    /\ run \in [Runs -> {Idle} \cup Openings \cup Foldings \cup Mailings \cup Recordings]

(* The lock of the log: one run at a time.                                 *)
OneRun == \A p, q \in Runs : run[p] # Idle /\ run[q] # Idle => p = q

(* Whom the log holds as reached: in the file, or in a line of the         *)
(* journal.                                                                *)
Held(i, who) == who \in entry[i].got \/ <<i, who>> \in journal

(* A run that mails has everyone before it that it owes the issue to, and  *)
(* nobody else.                                                            *)
Mails(s) ==
    /\ entry[s.issue].state = "open"
    /\ \A who \in s.todo : who \in meant[s.issue] /\ ~Held(s.issue, who)
    /\ ~s.failed => \A who \in meant[s.issue] \cap s.list :
                        who \in s.todo \/ mailed[s.issue][who] > 0

RunFits(p) ==
    /\ run[p].pc = "send" => Mails(run[p])
    /\ run[p].pc = "record" =>
          /\ Mails(run[p].after)
          /\ run[p].who \notin run[p].after.todo
          /\ run[p].who \in meant[run[p].after.issue]
          /\ ~Held(run[p].after.issue, run[p].who)
          /\ mailed[run[p].after.issue][run[p].who] > 0
    /\ run[p].pc = "fold" =>
          /\ run[p].after # Idle => Mails(run[p].after)
          /\ \A i \in Issues : \A who \in People : <<i, who>> \in journal => who \in entry[i].got

InFlight(i, who) ==
    \E p \in Runs : run[p].pc = "record" /\ run[p].after.issue = i /\ run[p].who = who

(* One mail of a person is on record or under way, the others are lost.    *)
Counted(i, who) ==
    /\ entry[i].state \in {"unsent", "legacy", "unaimed"} => mailed[i][who] = 0
    /\ mailed[i][who] > 0 => who \in meant[i]
    /\ Held(i, who) => mailed[i][who] > 0
    /\ ~Held(i, who) /\ ~InFlight(i, who) => mailed[i][who] <= unrecorded[i][who]
    /\ mailed[i][who] <= unrecorded[i][who] + 1

(* A torn line is met by no log object that counts an issue as started.    *)
Tears ==
    /\ broken => overTear
    /\ torn => \A p \in Runs : started[p] # {} => overTear \/ run[p].pc = "fold"

MailingInv ==
    /\ LogTypes /\ OneRun
    /\ \A p \in Runs : RunFits(p)
    /\ \A i \in Issues : entry[i].state = "open" => entry[i].audience = meant[i]
    /\ \A i \in Issues : \A who \in People : Counted(i, who)
    /\ Tears

LEMMA RunKinds ==
    ASSUME LogTypes, NEW p \in Runs
    PROVE  /\ run[p].pc \in {"idle", "open", "fold", "send", "record"}
           /\ run[p] = Idle <=> run[p].pc = "idle"
           /\ run[p].pc = "open" => run[p] \in Openings
           /\ run[p].pc = "fold" => run[p] \in Foldings
           /\ run[p].pc = "send" => run[p] \in Mailings
           /\ run[p].pc = "record" => run[p] \in Recordings
<1>1. run[p] \in {Idle} \cup Openings \cup Foldings \cup Mailings \cup Recordings
  BY DEF LogTypes
<1>2. CASE run[p] = Idle  BY <1>2 DEF Idle
<1>3. CASE run[p] \in Openings  BY <1>3 DEF Openings, Idle
<1>4. CASE run[p] \in Foldings  BY <1>4 DEF Foldings, Idle
<1>5. CASE run[p] \in Mailings  BY <1>5 DEF Mailings, Idle
<1>6. CASE run[p] \in Recordings  BY <1>6 DEF Recordings, Idle
<1>7. QED  BY <1>1, <1>2, <1>3, <1>4, <1>5, <1>6

(* While one run is under way every other process is idle.                 *)
LEMMA RunsAlone ==
    ASSUME LogTypes, OneRun, NEW p \in Runs, run[p].pc # "idle"
    PROVE  \A q \in Runs \ {p} : run[q] = Idle
BY RunKinds DEF OneRun

(* What a step of the run under way leaves of the runs.                    *)
LEMMA Follows ==
    ASSUME LogTypes, OneRun, NEW p \in Runs, run[p].pc # "idle",
           NEW x, run' = [run EXCEPT ![p] = x], x \in {Idle} \cup Openings \cup Foldings \cup Mailings \cup Recordings
    PROVE  /\ run' \in [Runs -> {Idle} \cup Openings \cup Foldings \cup Mailings \cup Recordings]
           /\ run'[p] = x /\ \A q \in Runs \ {p} : run'[q] = Idle /\ run[q] = Idle
           /\ OneRun'
           /\ RunFits(p)' => \A q \in Runs : RunFits(q)'
<1>1. run' \in [Runs -> {Idle} \cup Openings \cup Foldings \cup Mailings \cup Recordings]
  BY DEF LogTypes
<1>2. \A q \in Runs \ {p} : run[q] = Idle
  BY RunsAlone
<1>3. run'[p] = x /\ \A q \in Runs \ {p} : run'[q] = Idle
  BY <1>2 DEF LogTypes
<1>4. OneRun'
  BY <1>3 DEF OneRun
<1>5. ASSUME RunFits(p)', NEW q \in Runs PROVE RunFits(q)'
  <2>1. CASE q = p  BY <1>5, <2>1
  <2>2. CASE q # p
    <3>1. run'[q].pc = "idle"  BY <1>3, <2>2 DEF Idle
    <3>2. QED  BY <3>1 DEF RunFits
  <2>3. QED  BY <2>1, <2>2
<1>6. QED  BY <1>1, <1>2, <1>3, <1>4, <1>5

LEMMA MailingInit == ASSUME Init PROVE MailingInv
<1> USE DEF Init
<1>a. Unsent \in LogEntry /\ Legacy \in LogEntry /\ Unaimed \in LogEntry
  BY DEF LogEntry, EntryStates, Unsent, Legacy, Unaimed
<1>b. entry \in [Issues -> LogEntry]
  BY <1>a
<1>c. mailed \in [Issues -> [People -> Nat]] /\ unrecorded \in [Issues -> [People -> Nat]]
  OBVIOUS
<1>1. LogTypes
  BY <1>b, <1>c DEF LogTypes
<1>2. \A p \in Runs : run[p] = Idle /\ run[p].pc = "idle"
  BY DEF Init, Idle
<1>3. OneRun /\ \A p \in Runs : RunFits(p)
  BY <1>2 DEF OneRun, RunFits
<1>4. \A i \in Issues : entry[i].state # "open" /\ entry[i].got = {}
  BY DEF Init, Unsent, Legacy, Unaimed
<1>5. \A i \in Issues : \A who \in People : Counted(i, who)
  BY <1>4 DEF Init, Counted, Held
<1>6. Tears
  BY DEF Init, Tears
<1>7. QED  BY <1>1, <1>3, <1>4, <1>5, <1>6 DEF MailingInv

LEMMA MailingBegin ==
    ASSUME MailingInv, NEW p \in Runs, NEW i \in Issues, NEW list \in SUBSET People,
           Begin(p, i, list)
    PROVE  MailingInv'
<1> USE DEF MailingInv
<1> DEFINE x == [pc |-> "open", issue |-> i, list |-> list]
<1>1. run' = [run EXCEPT ![p] = x] /\ x \in Openings
  BY DEF Begin, Openings
<1>2. \A q \in Runs : run[q] = Idle
  BY DEF Begin, LockFree
<1>3. LogTypes'
  BY <1>1 DEF Begin, LogTypes
<1>4. run'[p] = x /\ \A q \in Runs \ {p} : run'[q] = Idle
  BY <1>1, <1>2 DEF LogTypes
<1>5. OneRun'
  BY <1>4 DEF OneRun
<1>6. \A q \in Runs : run'[q].pc \in {"open", "idle"} /\ run[q].pc = "idle"
  BY <1>2, <1>4 DEF Idle
<1>7. \A q \in Runs : RunFits(q)'
  BY <1>6 DEF RunFits
<1>8. \A j \in Issues : \A who \in People : Counted(j, who)'
  <2>1. \A j, who : ~InFlight(j, who) /\ ~InFlight(j, who)'
    BY <1>6 DEF InFlight
  <2>2. QED  BY <2>1 DEF Begin, Counted, Held
<1>9. Tears'
  BY <1>6 DEF Tears, Begin
<1>10. QED  BY <1>3, <1>5, <1>7, <1>8, <1>9 DEF Begin

LEMMA LoadedIs ==
    ASSUME LogTypes, NEW i \in Issues
    PROVE  /\ Loaded(i) \in LogEntry
           /\ Loaded(i).state = entry[i].state /\ Loaded(i).audience = entry[i].audience
           /\ \A who \in People : who \in Loaded(i).got <=> Held(i, who)
<1>1. entry[i] \in LogEntry
  BY DEF LogTypes
<1>2. Loaded(i).got = entry[i].got \cup {who \in People : <<i, who>> \in journal}
  BY <1>1 DEF Loaded, LogEntry
<1>3. Loaded(i) \in LogEntry
  BY <1>1 DEF Loaded, LogEntry
<1>4. Loaded(i).state = entry[i].state /\ Loaded(i).audience = entry[i].audience
  BY <1>1 DEF Loaded, LogEntry
<1>5. QED  BY <1>2, <1>3, <1>4 DEF Held

LEMMA MailingOpen ==
    ASSUME MailingInv, NEW p \in Runs, Open(p)
    PROVE  MailingInv'
<1> USE DEF MailingInv
<1> DEFINE i == run[p].issue
           e == Loaded(i)
           aim == Aims(e, run[p].list)
           next == Sending(i, run[p].list, (run[p].list \cap aim) \ e.got)
           all == {Idle} \cup Openings \cup Foldings \cup Mailings \cup Recordings
<1>1. run[p].pc = "open" /\ run[p] \in Openings /\ i \in Issues /\ run[p].list \in SUBSET People
  BY RunKinds DEF Open, Openings
<1>2. /\ e \in LogEntry /\ e.state = entry[i].state /\ e.audience = entry[i].audience
      /\ \A who \in People : who \in e.got <=> Held(i, who)
  BY <1>1, LoadedIs
<1>3. aim \in SUBSET People
  BY <1>1, <1>2 DEF Aims, LogEntry
<1>4. /\ next \in Mailings /\ next.pc = "send" /\ next.issue = i /\ next.list = run[p].list
      /\ next.todo = (run[p].list \cap aim) \ e.got /\ ~next.failed
  BY <1>1, <1>3 DEF Sending, Mailings
<1>5. \A j, who : ~InFlight(j, who)
  BY <1>1, RunsAlone DEF InFlight, Idle
<1> HIDE DEF i, e, aim, next
<1>6. ASSUME UNCHANGED <<entry, journal, torn, broken, mailed, unrecorded, meant>>,
             NEW x, run' = [run EXCEPT ![p] = x],
             x = Idle \/ (x = next /\ e.state = "open"),
             started' \in [Runs -> SUBSET Issues], overTear' \in BOOLEAN,
             overTear => overTear',
             torn => \A q \in Runs : started'[q] # {} => started[q] # {} \/ overTear'
      PROVE  MailingInv'
  <2>1. x \in all
    BY <1>4, <1>6
  <2>2. /\ run' \in [Runs -> all] /\ run'[p] = x /\ OneRun'
        /\ \A q \in Runs \ {p} : run'[q] = Idle /\ run[q] = Idle
        /\ RunFits(p)' => \A q \in Runs : RunFits(q)'
    BY <1>1, <1>6, <2>1, Follows
  <2>3. x.pc \in {"idle", "send"}
    BY <1>4, <1>6 DEF Idle
  <2>4. LogTypes'
    BY <1>6, <2>2 DEF LogTypes
  <2>5. ASSUME x = Idle PROVE \A q \in Runs : RunFits(q)'
    <3>1. RunFits(p)'  BY <2>2, <2>5 DEF RunFits, Idle
    <3>2. QED  BY <3>1, <2>2
  <2>6. ASSUME x = next, e.state = "open" PROVE \A q \in Runs : RunFits(q)'
    <3>1. aim = meant[i]
      BY <1>1, <1>2, <2>6 DEF aim, Aims
    <3>2. \A who \in next.todo : who \in meant[i] /\ ~Held(i, who)
      BY <1>1, <1>2, <1>4, <3>1
    <3>3. \A who \in meant[i] \cap next.list : who \in next.todo \/ mailed[i][who] > 0
      BY <1>1, <1>2, <1>4, <3>1 DEF Counted
    <3>4. Mails(next)
      BY <1>1, <1>2, <1>4, <2>6, <3>2, <3>3 DEF Mails
    <3>5. RunFits(p)'
      BY <1>4, <1>6, <2>2, <2>6, <3>4 DEF RunFits, Mails, Held
    <3>6. QED  BY <2>2, <3>5
  <2>7. \A q \in Runs : RunFits(q)'
    BY <1>6, <2>5, <2>6
  <2>8. \A j \in Issues : \A who \in People : Counted(j, who)'
    <3>1. \A q \in Runs : run'[q].pc # "record"
      BY <2>2, <2>3 DEF Idle
    <3>2. \A j, who : ~InFlight(j, who)'
      BY <3>1 DEF InFlight
    <3>3. QED  BY <1>5, <1>6, <3>2 DEF Counted, Held
  <2>9. Tears'
    <3>1. \A q \in Runs : run[q].pc # "fold"
      BY <1>1, <2>2 DEF Idle
    <3>2. QED  BY <1>6, <3>1 DEF Tears
  <2>10. QED  BY <1>6, <2>2, <2>4, <2>7, <2>8, <2>9
<1>7. ASSUME e.state # "open", ~NothingToSend(run[p]),
             entry' = [j \in Issues |->
                         IF j = i THEN [e EXCEPT !.state = "open", !.audience = aim]
                                  ELSE Loaded(j)],
             run' = [run EXCEPT ![p] = [pc |-> "fold", after |-> next]],
             started' = [started EXCEPT ![p] = IF e.state = "unsent" THEN @ \cup {i} ELSE @],
             meant' = [meant EXCEPT ![i] = run[p].list],
             UNCHANGED <<journal, torn, broken, mailed, unrecorded, overTear>>
      PROVE  MailingInv'
  <2> DEFINE x == [pc |-> "fold", after |-> next]
  <2>1. /\ x \in Foldings /\ x.pc = "fold" /\ x.after = next /\ next # Idle
        /\ run' = [run EXCEPT ![p] = x]
    BY <1>4, <1>7 DEF Foldings, Idle
  <2> HIDE DEF x
  <2>2. /\ run' \in [Runs -> all] /\ run'[p] = x /\ OneRun'
        /\ \A q \in Runs \ {p} : run'[q] = Idle /\ run[q] = Idle
        /\ RunFits(p)' => \A q \in Runs : RunFits(q)'
        /\ \A j, who : ~InFlight(j, who)'
    <3>1. /\ run' \in [Runs -> all] /\ run'[p] = x /\ OneRun'
          /\ \A q \in Runs \ {p} : run'[q] = Idle /\ run[q] = Idle
          /\ RunFits(p)' => \A q \in Runs : RunFits(q)'
      BY <1>1, <2>1, Follows
    <3>2. \A q \in Runs : run'[q].pc # "record"
      BY <2>1, <3>1 DEF Idle
    <3>3. \A j, who : ~InFlight(j, who)'
      BY <3>2 DEF InFlight
    <3>4. QED  BY <3>1, <3>3
  <2>3. aim = run[p].list
    BY <1>7 DEF aim, Aims
  <2>4. \A j \in Issues : Loaded(j) \in LogEntry
    BY LoadedIs
  <2>5. /\ entry' \in [Issues -> LogEntry]
        /\ entry'[i].state = "open" /\ entry'[i].audience = aim /\ entry'[i].got = e.got
        /\ \A j \in Issues \ {i} : entry'[j] = Loaded(j)
    <3>1. [e EXCEPT !.state = "open", !.audience = aim] \in LogEntry
      BY <1>2, <1>3 DEF LogEntry, EntryStates
    <3>2. QED  BY <1>1, <1>2, <1>7, <2>4, <3>1 DEF LogEntry
  <2>6. \A j \in Issues : \A who \in People : who \in entry'[j].got <=> Held(j, who)
    BY <1>2, <2>5, LoadedIs
  <2>7. \A j \in Issues : \A who \in People : Held(j, who)' <=> Held(j, who)
    BY <1>7, <2>6 DEF Held
  <2>8. meant' \in [Issues -> SUBSET People] /\ started' \in [Runs -> SUBSET Issues]
    BY <1>1, <1>7 DEF LogTypes
  <2>9. LogTypes'
    BY <1>7, <2>2, <2>5, <2>8 DEF LogTypes
  <2>10. e.state \in {"unsent", "legacy", "unaimed"}
    <3>1. e.state # "closed"
      BY <1>2, <1>7 DEF NothingToSend, i
    <3>2. QED  BY <1>2, <1>7, <3>1 DEF LogEntry, EntryStates
  <2>11. \A who \in People : mailed[i][who] = 0 /\ ~Held(i, who)
    BY <1>1, <1>2, <2>10 DEF Counted
  <2>12. RunFits(p)'
    <3>1. meant'[i] = run[p].list
      BY <1>1, <1>7 DEF LogTypes
    <3>2. \A who \in next.todo : who \in meant'[i] /\ ~Held(i, who)
      BY <1>1, <1>4, <2>11, <3>1
    <3>3. \A who \in meant'[i] \cap next.list : who \in next.todo
      BY <1>1, <1>2, <1>4, <2>3, <2>11, <3>1
    <3>4. next.todo \subseteq People
      BY <1>4 DEF Mailings
    <3>5. run'[p].pc = "fold" /\ run'[p].after = next
      BY <2>1, <2>2
    <3>6. \A j \in Issues : \A who \in People : <<j, who>> \in journal' => who \in entry'[j].got
      BY <1>7, <2>6 DEF Held
    <3>7. Mails(run[p].after)'
      BY <1>1, <1>4, <2>5, <2>7, <3>2, <3>3, <3>4, <3>5 DEF Mails
    <3>8. QED  BY <3>5, <3>6, <3>7 DEF RunFits
  <2>13. \A j \in Issues : \A who \in People : Counted(j, who)'
    <3>1. \A j \in Issues \ {i} : entry'[j].state = entry[j].state /\ meant'[j] = meant[j]
      BY <1>7, <2>5, LoadedIs DEF LogTypes
    <3>2. SUFFICES ASSUME NEW j \in Issues, NEW who \in People PROVE Counted(j, who)'
      OBVIOUS
    <3>3. CASE j = i
      BY <1>5, <1>7, <2>2, <2>5, <2>7, <2>11, <3>3 DEF Counted
    <3>4. CASE j # i
      BY <1>5, <1>7, <2>2, <2>7, <3>1, <3>4 DEF Counted
    <3>5. QED  BY <3>3, <3>4
  <2>14. \A j \in Issues : entry'[j].state = "open" => entry'[j].audience = meant'[j]
    <3>1. entry'[i].audience = meant'[i]
      BY <1>1, <1>7, <2>3, <2>5 DEF LogTypes
    <3>2. \A j \in Issues \ {i} : entry'[j].state = entry[j].state /\ meant'[j] = meant[j]
                                 /\ entry'[j].audience = entry[j].audience
      BY <1>7, <2>5, LoadedIs DEF LogTypes
    <3>3. QED  BY <3>1, <3>2
  <2>15. Tears'
    <3>1. \A q \in Runs : run[q].pc # "fold"
      BY <1>1, <2>2 DEF Idle
    <3>2. run'[p].pc = "fold" /\ \A q \in Runs \ {p} : started'[q] = started[q]
      BY <1>7, <2>1, <2>2 DEF LogTypes
    <3>3. QED  BY <1>7, <3>1, <3>2 DEF Tears
  <2>16. QED  BY <2>2, <2>9, <2>12, <2>13, <2>14, <2>15
<1>8. UNCHANGED <<torn, broken, mailed, unrecorded>>
  BY DEF Open
<1>9. CASE NothingToSend(run[p]) /\ run' = [run EXCEPT ![p] = Idle]
           /\ UNCHANGED <<entry, journal, started, meant, overTear, trouble>>
  BY <1>6, <1>8, <1>9 DEF LogTypes
<1>10. CASE e.state = "open" /\ run' = [run EXCEPT ![p] = next]
            /\ UNCHANGED <<entry, journal, started, meant, overTear, trouble>>
  BY <1>6, <1>8, <1>10 DEF LogTypes
<1>11. CASE /\ e.state # "open" /\ run' = [run EXCEPT ![p] = Idle]
            /\ started' = [started EXCEPT ![p] = IF e.state = "unsent" THEN @ \cup {i} ELSE @]
            /\ overTear' = (overTear \/ (torn /\ e.state = "unsent"))
            /\ UNCHANGED <<entry, journal, meant>>
  <2>1. started' \in [Runs -> SUBSET Issues]
    BY <1>1, <1>11 DEF LogTypes
  <2>2. overTear' \in BOOLEAN /\ (overTear => overTear')
    BY <1>11 DEF LogTypes
  <2>3. torn => \A q \in Runs : started'[q] # {} => started[q] # {} \/ overTear'
    BY <1>11 DEF LogTypes
  <2>4. QED  BY <1>6, <1>8, <1>11, <2>1, <2>2, <2>3
<1>12. QED
  BY <1>7, <1>8, <1>9, <1>10, <1>11 DEF Open, i, e, aim, next

(* A step that leaves the log and the mails as they are, or only loses a   *)
(* mail.                                                                   *)
LEMMA Rests ==
    ASSUME MailingInv, NEW p \in Runs, run[p].pc # "idle", run' = [run EXCEPT ![p] = Idle],
           UNCHANGED <<entry, journal, mailed, meant>>,
           unrecorded' \in [Issues -> [People -> Nat]],
           \A i \in Issues : \A who \in People :
              /\ unrecorded[i][who] <= unrecorded'[i][who]
              /\ InFlight(i, who) => unrecorded[i][who] + 1 <= unrecorded'[i][who],
           started' \in [Runs -> SUBSET Issues], torn' \in BOOLEAN, broken' \in BOOLEAN,
           overTear' \in BOOLEAN, Tears'
    PROVE  MailingInv'
<1> USE DEF MailingInv
<1>1. /\ run' \in [Runs -> {Idle} \cup Openings \cup Foldings \cup Mailings \cup Recordings]
      /\ run'[p] = Idle /\ OneRun'
      /\ RunFits(p)' => \A q \in Runs : RunFits(q)'
      /\ \A q \in Runs \ {p} : run'[q] = Idle
  BY Follows
<1>2. \A j, who : ~InFlight(j, who)'
  BY <1>1 DEF Idle, InFlight
<1>3. RunFits(p)'
  BY <1>1 DEF RunFits, Idle
<1>4. LogTypes'
  BY <1>1 DEF LogTypes
<1>5. \A j \in Issues : \A who \in People : Counted(j, who)'
  <2>1. SUFFICES ASSUME NEW j \in Issues, NEW who \in People PROVE Counted(j, who)'
    OBVIOUS
  <2>2. mailed[j][who] \in Nat /\ unrecorded[j][who] \in Nat /\ unrecorded'[j][who] \in Nat
    BY DEF LogTypes
  <2>3. Counted(j, who) /\ Held(j, who)' = Held(j, who)
    BY DEF Held
  <2>4. QED  BY <1>2, <2>2, <2>3 DEF Counted
<1>6. QED  BY <1>1, <1>3, <1>4, <1>5

LEMMA MailingFold ==
    ASSUME MailingInv, NEW p \in Runs, Fold(p)
    PROVE  MailingInv'
<1> USE DEF MailingInv
<1>1. run[p].pc = "fold" /\ run[p] \in Foldings /\ run[p].after \in {Idle} \cup Mailings
  BY RunKinds DEF Fold, Foldings
<1>2. CASE /\ journal' = {} /\ torn' = FALSE /\ broken' = FALSE
           /\ run' = [run EXCEPT ![p] = run[p].after]
           /\ UNCHANGED <<overTear, trouble>>
  <2> DEFINE x == run[p].after
  <2>1. x.pc \in {"idle", "send"} /\ (x # Idle <=> x.pc = "send")
    BY <1>1 DEF Idle, Mailings
  <2>2. run' = [run EXCEPT ![p] = x] /\ x \in {Idle} \cup Mailings
    BY <1>1, <1>2
  <2> HIDE DEF x
  <2>3. /\ run' \in [Runs -> {Idle} \cup Openings \cup Foldings \cup Mailings \cup Recordings]
        /\ run'[p] = x /\ OneRun'
        /\ RunFits(p)' => \A q \in Runs : RunFits(q)'
        /\ \A q \in Runs \ {p} : run'[q] = Idle /\ run[q] = Idle
    BY <1>1, <2>2, Follows
  <2>4. \A j \in Issues : \A who \in People : Held(j, who)' <=> Held(j, who)
    BY <1>1, <1>2 DEF Fold, RunFits, Held
  <2>5. LogTypes'
    BY <1>2, <2>3 DEF Fold, LogTypes
  <2>6. RunFits(p)'
    <3>1. CASE x = Idle  BY <2>3, <3>1 DEF RunFits, Idle
    <3>2. CASE x # Idle
      <4>1. Mails(x) /\ x \in Mailings
        BY <1>1, <2>2, <3>2 DEF RunFits, x
      <4>2. x.issue \in Issues /\ x.todo \subseteq People
        BY <4>1 DEF Mailings
      <4>3. QED  BY <2>1, <2>3, <2>4, <4>1, <4>2, <3>2 DEF RunFits, Mails, Fold
    <3>3. QED  BY <3>1, <3>2
  <2>7. \A j \in Issues : \A who \in People : Counted(j, who)'
    <3>1. \A q \in Runs : run[q].pc # "record" /\ run'[q].pc # "record"
      BY <1>1, <2>1, <2>3 DEF Idle
    <3>2. \A j, who : ~InFlight(j, who) /\ ~InFlight(j, who)'
      BY <3>1 DEF InFlight
    <3>3. QED  BY <2>4, <3>2 DEF Counted, Fold
  <2>8. Tears'
    BY <1>2 DEF Tears
  <2>9. QED  BY <2>3, <2>5, <2>6, <2>7, <2>8 DEF Fold
<1>3. CASE /\ Trouble /\ run' = [run EXCEPT ![p] = Idle]
           /\ overTear' = (overTear \/ (torn /\ Knows(p)))
           /\ UNCHANGED <<journal, torn, broken>>
  <2>1. \A j, who : ~InFlight(j, who)
    BY <1>1, RunsAlone DEF InFlight, Idle
  <2>2. \A q \in Runs \ {p} : run'[q] = run[q] /\ run[q].pc # "fold"
    BY <1>1, <1>3, RunsAlone DEF Idle, LogTypes
  <2>3. Tears'
    BY <1>3, <2>2 DEF Tears, Fold, Knows
  <2>4. \A j \in Issues : \A who \in People :
           unrecorded[j][who] <= unrecorded'[j][who] /\ ~InFlight(j, who)
    BY <2>1 DEF Fold, LogTypes
  <2>5. /\ unrecorded' \in [Issues -> [People -> Nat]] /\ started' \in [Runs -> SUBSET Issues]
        /\ torn' \in BOOLEAN /\ broken' \in BOOLEAN /\ overTear' \in BOOLEAN
    BY <1>3 DEF Fold, LogTypes
  <2>6. QED  BY <1>1, <1>3, <2>3, <2>4, <2>5, Rests DEF Fold
<1>4. QED  BY <1>2, <1>3 DEF Fold

(* What one mail more, and one mail lost, do to the counts.                *)
LEMMA OneMore ==
    ASSUME NEW f \in [Issues -> [People -> Nat]], NEW i \in Issues, NEW who \in People
    PROVE  LET g == [f EXCEPT ![i][who] = @ + 1]
           IN  /\ g \in [Issues -> [People -> Nat]]
               /\ g[i][who] = f[i][who] + 1
               /\ \A j \in Issues : \A w \in People : j # i \/ w # who => g[j][w] = f[j][w]
<1> DEFINE g == [f EXCEPT ![i][who] = @ + 1]
<1>1. g[i] = [f[i] EXCEPT ![who] = @ + 1] /\ \A j \in Issues \ {i} : g[j] = f[j]
  OBVIOUS
<1>2. g[i][who] = f[i][who] + 1 /\ \A w \in People \ {who} : g[i][w] = f[i][w]
  BY <1>1
<1>3. g \in [Issues -> [People -> Nat]]
  OBVIOUS
<1>4. QED  BY <1>1, <1>2, <1>3

LEMMA MailingAccepted ==
    ASSUME MailingInv, NEW p \in Runs, NEW who \in People, Accepted(p, who)
    PROVE  MailingInv'
<1> USE DEF MailingInv
<1> DEFINE i == run[p].issue
           s == [run[p] EXCEPT !.todo = @ \ {who}]
           x == [pc |-> "record", who |-> who, after |-> s]
<1>1. /\ run[p].pc = "send" /\ run[p] \in Mailings /\ who \in run[p].todo /\ i \in Issues
      /\ Mails(run[p])
  BY RunKinds DEF Accepted, Mailings, RunFits
<1>2. /\ s \in Mailings /\ s.issue = i /\ s.list = run[p].list /\ s.failed = run[p].failed
      /\ s.todo = run[p].todo \ {who}
  BY <1>1 DEF Mailings
<1>3. /\ x \in Recordings /\ x.pc = "record" /\ x.who = who /\ x.after = s
      /\ run' = [run EXCEPT ![p] = x]
  BY <1>2 DEF Accepted, Recordings
<1> HIDE DEF s, x
<1>4. /\ run' \in [Runs -> {Idle} \cup Openings \cup Foldings \cup Mailings \cup Recordings]
      /\ run'[p] = x /\ OneRun'
      /\ RunFits(p)' => \A q \in Runs : RunFits(q)'
      /\ \A q \in Runs \ {p} : run'[q] = Idle /\ run[q] = Idle
  BY <1>1, <1>3, Follows
<1>5. /\ mailed' \in [Issues -> [People -> Nat]] /\ mailed'[i][who] = mailed[i][who] + 1
      /\ \A j \in Issues : \A w \in People : j # i \/ w # who => mailed'[j][w] = mailed[j][w]
  BY <1>1, OneMore DEF Accepted, Took, LogTypes
<1>6. \A j \in Issues : \A w \in People :
          mailed[j][w] \in Nat /\ unrecorded[j][w] \in Nat /\ mailed[j][w] <= mailed'[j][w]
  <2>1. \A j \in Issues : \A w \in People : mailed[j][w] \in Nat /\ unrecorded[j][w] \in Nat
    BY DEF LogTypes
  <2>2. \A j \in Issues : \A w \in People :
            mailed'[j][w] = mailed[j][w] \/ mailed'[j][w] = mailed[j][w] + 1
    BY <1>5
  <2>3. QED  BY <2>1, <2>2
<1> HIDE DEF i
<1>7. LogTypes'
  BY <1>4, <1>5 DEF Accepted, LogTypes
<1>8. who \in meant[i] /\ ~Held(i, who) /\ entry[i].state = "open"
  BY <1>1 DEF Mails, i
<1>9. RunFits(p)'
  <2>1. s.todo \subseteq People /\ meant[i] \subseteq People
    BY <1>1, <1>2 DEF Mailings, LogTypes
  <2>2. \A w \in s.todo : w \in meant[i] /\ ~Held(i, w)
    BY <1>1, <1>2 DEF Mails, i
  <2>3. ~s.failed => \A w \in meant[i] \cap s.list : w \in s.todo \/ mailed'[i][w] > 0
    <3>1. ~s.failed => \A w \in meant[i] \cap s.list : w \in run[p].todo \/ mailed[i][w] > 0
      BY <1>1, <1>2 DEF Mails, i
    <3>2. mailed'[i][who] > 0
      BY <1>1, <1>5, <1>6
    <3>3. ASSUME ~s.failed, NEW w \in meant[i] \cap s.list PROVE w \in s.todo \/ mailed'[i][w] > 0
      <4>1. w \in People /\ i \in Issues
        BY <1>1, <2>1
      <4>2. CASE w = who  BY <3>2, <4>2
      <4>3. CASE w # who /\ w \in run[p].todo  BY <1>2, <4>3
      <4>4. CASE mailed[i][w] > 0  BY <1>5, <1>6, <4>1, <4>4
      <4>5. QED  BY <3>1, <3>3, <4>2, <4>3, <4>4
    <3>4. QED  BY <3>3
  <2>4. run'[p].pc = "record" /\ run'[p].after = s /\ run'[p].who = who
    BY <1>3, <1>4
  <2>5. UNCHANGED <<entry, journal, meant>>
    BY DEF Accepted
  <2>6. mailed'[i][who] > 0 /\ who \notin s.todo
    BY <1>1, <1>2, <1>5, <1>6
  <2>7. QED  BY <1>2, <1>8, <2>2, <2>3, <2>4, <2>5, <2>6 DEF RunFits, Mails, Held
<1>10. \A j \in Issues : \A w \in People : Counted(j, w)'
  <2>1. SUFFICES ASSUME NEW j \in Issues, NEW w \in People PROVE Counted(j, w)'
    OBVIOUS
  <2>2. UNCHANGED <<entry, journal, meant, unrecorded>> /\ Counted(j, w)
    BY DEF Accepted
  <2>3. ~InFlight(j, w)
    BY <1>1, <1>4 DEF InFlight, Idle
  <2>4. CASE j = i /\ w = who
    <3>1. InFlight(j, w)'
      BY <1>2, <1>3, <1>4, <2>4 DEF InFlight
    <3>2. mailed[j][w] <= unrecorded[j][w]
      BY <1>8, <2>2, <2>3, <2>4 DEF Counted
    <3>3. QED  BY <1>5, <1>6, <1>8, <2>2, <2>4, <3>1, <3>2 DEF Counted, Held
  <2>5. CASE j # i \/ w # who
    BY <1>5, <2>2, <2>3, <2>5 DEF Counted, Held
  <2>6. QED  BY <2>4, <2>5
<1>11. Tears'
  BY <1>1, <1>3, <1>4 DEF Tears, Accepted, Idle
<1>12. QED  BY <1>4, <1>7, <1>9, <1>10, <1>11 DEF Accepted

LEMMA MailingFailed ==
    ASSUME MailingInv, NEW p \in Runs, NEW who \in People, Failed(p, who)
    PROVE  MailingInv'
<1> USE DEF MailingInv
<1> DEFINE i == run[p].issue
           x == [run[p] EXCEPT !.todo = @ \ {who}, !.failed = TRUE]
<1>1. /\ run[p].pc = "send" /\ run[p] \in Mailings /\ who \in run[p].todo /\ i \in Issues
      /\ Mails(run[p])
  BY RunKinds DEF Failed, Mailings, RunFits
<1>2. /\ x \in Mailings /\ x.pc = "send" /\ x.issue = i /\ x.failed
      /\ x.todo = run[p].todo \ {who}
  BY <1>1 DEF Mailings
<1>3. run' = [run EXCEPT ![p] = x]
  BY <1>1 DEF Failed, Mailings, LogTypes
<1> HIDE DEF x
<1>4. /\ run' \in [Runs -> {Idle} \cup Openings \cup Foldings \cup Mailings \cup Recordings]
      /\ run'[p] = x /\ OneRun'
      /\ RunFits(p)' => \A q \in Runs : RunFits(q)'
      /\ \A q \in Runs \ {p} : run'[q] = Idle /\ run[q] = Idle
  BY <1>1, <1>2, <1>3, Follows
<1>5. /\ mailed' \in [Issues -> [People -> Nat]] /\ unrecorded' \in [Issues -> [People -> Nat]]
      /\ \A j \in Issues : \A w \in People : 
            j # i \/ w # who => mailed'[j][w] = mailed[j][w] /\ unrecorded'[j][w] = unrecorded[j][w]
      /\ \/ mailed'[i][who] = mailed[i][who] /\ unrecorded'[i][who] = unrecorded[i][who]
         \/ mailed'[i][who] = mailed[i][who] + 1 /\ unrecorded'[i][who] = unrecorded[i][who] + 1
  <2>1. CASE UNCHANGED <<mailed, unrecorded>>
    BY <2>1 DEF LogTypes
  <2>2. CASE Took(i, who) /\ Loses(i, who)
    BY <1>1, <2>2, OneMore DEF Took, Loses, LogTypes
  <2>3. QED  BY <2>1, <2>2 DEF Failed
<1>6. \A j \in Issues : \A w \in People : mailed[j][w] \in Nat /\ unrecorded[j][w] \in Nat
  BY DEF LogTypes
<1> HIDE DEF i
<1>7. LogTypes'
  BY <1>4, <1>5 DEF Failed, LogTypes
<1>8. who \in meant[i] /\ ~Held(i, who) /\ entry[i].state = "open"
  BY <1>1 DEF Mails, i
<1>9. RunFits(p)'
  <2>1. \A w \in x.todo : w \in meant[i] /\ ~Held(i, w)
    BY <1>1, <1>2 DEF Mails, i
  <2>2. UNCHANGED <<entry, journal, meant>>
    BY DEF Failed
  <2>3. QED  BY <1>2, <1>4, <1>8, <2>1, <2>2 DEF RunFits, Mails, Held
<1>10. \A j \in Issues : \A w \in People : Counted(j, w)'
  <2>1. SUFFICES ASSUME NEW j \in Issues, NEW w \in People PROVE Counted(j, w)'
    OBVIOUS
  <2>2. UNCHANGED <<entry, journal, meant>> /\ Counted(j, w)
    BY DEF Failed
  <2>3. ~InFlight(j, w) /\ ~InFlight(j, w)'
    <3>1. \A q \in Runs : run[q].pc # "record" /\ run'[q].pc # "record"
      BY <1>1, <1>2, <1>4 DEF Idle
    <3>2. QED  BY <3>1 DEF InFlight
  <2>4. CASE j = i /\ w = who
    BY <1>5, <1>6, <1>8, <2>2, <2>3, <2>4 DEF Counted, Held
  <2>5. CASE j # i \/ w # who
    BY <1>5, <2>2, <2>3, <2>5 DEF Counted, Held
  <2>6. QED  BY <2>4, <2>5
<1>11. Tears'
  BY <1>1, <1>2, <1>4 DEF Tears, Failed, Idle
<1>12. QED  BY <1>4, <1>7, <1>9, <1>10, <1>11 DEF Failed

LEMMA RecordKeeps ==
    ASSUME MailingInv, NEW p \in Runs, Record(p), run[p].pc = "record",
           NEW x \in Mailings, NEW i \in Issues, NEW who \in People,
           run[p].after = x, x.issue = i, run[p].who = who
    PROVE  MailingInv'
<1> USE DEF MailingInv
<1>1. /\ Mails(x) /\ who \notin x.todo /\ who \in meant[i] /\ ~Held(i, who)
      /\ mailed[i][who] > 0
  BY DEF RunFits
<1>2. run' = [run EXCEPT ![p] = x] /\ x.pc = "send" /\ x.todo \subseteq People
  BY DEF Record, Mailings
<1>3. /\ started' = [started EXCEPT ![p] = @ \cup {i}]
      /\ torn' = FALSE /\ broken' = (broken \/ TailLeft(p, i))
      /\ UNCHANGED <<entry, mailed, meant, overTear>>
  BY DEF Record
<1>4. /\ TailLeft(p, i) => journal' = journal /\ Loses(i, who)
      /\ ~TailLeft(p, i) => journal' = journal \cup {<<i, who>>} /\ unrecorded' = unrecorded
  BY DEF Record
<1>5. /\ run' \in [Runs -> {Idle} \cup Openings \cup Foldings \cup Mailings \cup Recordings]
      /\ run'[p] = x /\ OneRun'
      /\ RunFits(p)' => \A q \in Runs : RunFits(q)'
      /\ \A q \in Runs \ {p} : run'[q] = Idle /\ run[q] = Idle
  BY <1>2, Follows
<1>6. /\ \A j, w : ~InFlight(j, w)'
      /\ \A j, w : InFlight(j, w) <=> j = i /\ w = who
  <2>1. \A q \in Runs \ {p} : run[q].pc # "record" /\ run'[q].pc # "record"
    BY <1>5 DEF Idle
  <2>2. QED  BY <1>2, <1>5, <2>1 DEF InFlight
<1>7. /\ unrecorded' \in [Issues -> [People -> Nat]]
      /\ TailLeft(p, i) => unrecorded'[i][who] = unrecorded[i][who] + 1
      /\ ~TailLeft(p, i) => unrecorded'[i][who] = unrecorded[i][who]
      /\ \A j \in Issues : \A w \in People : j # i \/ w # who => unrecorded'[j][w] = unrecorded[j][w]
  <2>1. ASSUME TailLeft(p, i)
        PROVE  /\ unrecorded' \in [Issues -> [People -> Nat]]
               /\ unrecorded'[i][who] = unrecorded[i][who] + 1
               /\ \A j \in Issues : \A w \in People :
                     j # i \/ w # who => unrecorded'[j][w] = unrecorded[j][w]
    <3>1. unrecorded' = [unrecorded EXCEPT ![i][who] = @ + 1]
      BY <1>4, <2>1 DEF Loses
    <3>2. QED  BY <3>1, OneMore DEF LogTypes
  <2>2. CASE ~TailLeft(p, i)
    BY <1>4, <2>2 DEF LogTypes
  <2>3. QED  BY <2>1, <2>2
<1>8. LogTypes'
  <2>1. journal' \subseteq Issues \X People
    BY <1>4 DEF LogTypes
  <2>2. started' \in [Runs -> SUBSET Issues]
    BY <1>3 DEF LogTypes
  <2>3. broken' \in BOOLEAN
    BY <1>3 DEF LogTypes, TailLeft
  <2>4. QED  BY <1>3, <1>5, <1>7, <2>1, <2>2, <2>3 DEF LogTypes
<1>9. /\ \A j \in Issues : \A w \in People : j # i \/ w # who => (Held(j, w)' <=> Held(j, w))
      /\ Held(i, who)' <=> ~TailLeft(p, i)
  <2>1. CASE TailLeft(p, i)
    BY <1>1, <1>3, <1>4, <2>1 DEF Held
  <2>2. CASE ~TailLeft(p, i)
    BY <1>1, <1>3, <1>4, <2>2 DEF Held
  <2>3. QED  BY <2>1, <2>2
<1>10. RunFits(p)'
  <2>1. \A w \in x.todo : w \in meant[i] /\ ~Held(i, w)'
    BY <1>1, <1>2, <1>9 DEF Mails
  <2>2. QED  BY <1>1, <1>2, <1>3, <1>5, <2>1 DEF RunFits, Mails
<1>11. \A j \in Issues : \A w \in People : Counted(j, w)'
  <2>1. SUFFICES ASSUME NEW j \in Issues, NEW w \in People PROVE Counted(j, w)'
    OBVIOUS
  <2>2. Counted(j, w) /\ mailed[j][w] \in Nat /\ unrecorded[j][w] \in Nat
    BY DEF LogTypes
  <2>3. /\ entry' = entry /\ mailed' = mailed /\ meant' = meant
        /\ ~InFlight(j, w)'
    BY <1>3, <1>6
  <2>4. CASE j = i /\ w = who
    <3>1. CASE TailLeft(p, i)
      BY <1>1, <1>7, <1>9, <2>2, <2>3, <2>4, <3>1 DEF Counted
    <3>2. CASE ~TailLeft(p, i)
      BY <1>1, <1>7, <1>9, <2>2, <2>3, <2>4, <3>2 DEF Counted
    <3>3. QED  BY <3>1, <3>2
  <2>5. CASE j # i \/ w # who
    BY <1>6, <1>7, <1>9, <2>2, <2>3, <2>5 DEF Counted
  <2>6. QED  BY <2>4, <2>5
<1>12. Tears'
  <2>1. TailLeft(p, i) => overTear
    BY DEF TailLeft, Tears
  <2>2. QED  BY <1>3, <2>1 DEF Tears
<1>13. QED  BY <1>3, <1>5, <1>8, <1>10, <1>11, <1>12

LEMMA MailingRecord ==
    ASSUME MailingInv, NEW p \in Runs, Record(p)
    PROVE  MailingInv'
<1>1. run[p].pc = "record" /\ run[p] \in Recordings
  BY RunKinds DEF Record, MailingInv
<1>2. run[p].after \in Mailings /\ run[p].after.issue \in Issues /\ run[p].who \in People
  BY <1>1 DEF Recordings, Mailings
<1>3. QED  BY <1>1, <1>2, RecordKeeps

(* A process that stops with a mail under way loses its record.            *)
LEMMA LosesCounts ==
    ASSUME LogTypes, OneRun, NEW p \in Runs, run[p].pc = "record",
           Loses(run[p].after.issue, run[p].who)
    PROVE  /\ unrecorded' \in [Issues -> [People -> Nat]]
           /\ \A i \in Issues : \A who \in People :
                 /\ unrecorded[i][who] <= unrecorded'[i][who]
                 /\ InFlight(i, who) => unrecorded[i][who] + 1 <= unrecorded'[i][who]
<1> DEFINE i == run[p].after.issue
           who == run[p].who
<1>1. i \in Issues /\ who \in People
  BY RunKinds DEF Recordings, Mailings
<1>2. unrecorded' = [unrecorded EXCEPT ![i][who] = @ + 1]
  BY DEF Loses
<1>3. \A q \in Runs \ {p} : run[q].pc # "record"
  BY RunsAlone DEF Idle
<1>4. \A j, w : InFlight(j, w) => j = i /\ w = who
  BY <1>3 DEF InFlight
<1> HIDE DEF i, who
<1>5. /\ unrecorded' \in [Issues -> [People -> Nat]]
      /\ unrecorded'[i][who] = unrecorded[i][who] + 1
      /\ \A j \in Issues : \A w \in People : j # i \/ w # who => unrecorded'[j][w] = unrecorded[j][w]
  BY <1>1, <1>2, OneMore DEF LogTypes
<1>6. \A j \in Issues : \A w \in People : unrecorded[j][w] \in Nat
  BY DEF LogTypes
<1>7. ASSUME NEW j \in Issues, NEW w \in People
      PROVE  /\ unrecorded[j][w] <= unrecorded'[j][w]
             /\ InFlight(j, w) => unrecorded[j][w] + 1 <= unrecorded'[j][w]
  <2>1. CASE j = i /\ w = who  BY <1>5, <1>6, <2>1
  <2>2. CASE j # i \/ w # who  BY <1>4, <1>5, <1>6, <2>2
  <2>3. QED  BY <2>1, <2>2
<1>8. QED  BY <1>5, <1>7

LEMMA MailingRecordFails ==
    ASSUME MailingInv, NEW p \in Runs, RecordFails(p)
    PROVE  MailingInv'
<1> USE DEF MailingInv
<1> DEFINE i == run[p].after.issue
<1>1. run[p].pc = "record" /\ i \in Issues
  BY RunKinds DEF RecordFails, Recordings, Mailings
<1>2. Loses(i, run[p].who) /\ run' = [run EXCEPT ![p] = Idle] /\ UNCHANGED <<entry, journal, broken, mailed, meant>>
  BY DEF RecordFails
<1>3. /\ started' \in [Runs -> SUBSET Issues] /\ torn' \in BOOLEAN /\ overTear' \in BOOLEAN
      /\ overTear => overTear'
      /\ torn' => overTear' \/ (torn /\ started' = started)
  <2>1. CASE /\ started' = [started EXCEPT ![p] = @ \cup {i}] /\ torn' \in {TailLeft(p, i), TRUE}
             /\ overTear' = (overTear \/ torn')
    BY <1>1, <2>1 DEF LogTypes, TailLeft
  <2>2. CASE UNCHANGED <<started, torn, overTear>>
    BY <2>2 DEF LogTypes
  <2>3. QED  BY <2>1, <2>2 DEF RecordFails
<1>4. \A q \in Runs : run[q].pc # "fold"
  BY <1>1, RunsAlone DEF Idle
<1>5. Tears'
  BY <1>2, <1>3, <1>4 DEF Tears
<1>6. broken' \in BOOLEAN
  BY <1>2 DEF LogTypes
<1>7. QED  BY <1>1, <1>2, <1>3, <1>5, <1>6, LosesCounts, Rests

LEMMA MailingCrash ==
    ASSUME MailingInv, NEW p \in Runs, Crash(p)
    PROVE  MailingInv'
<1> USE DEF MailingInv
<1>1. /\ run' = [run EXCEPT ![p] = Idle] /\ started' = [started EXCEPT ![p] = {}]
      /\ UNCHANGED <<entry, journal, broken, mailed, meant>>
  BY DEF Crash
<1>2. /\ started' \in [Runs -> SUBSET Issues] /\ started'[p] = {}
      /\ \A q \in Runs \ {p} : started'[q] = started[q] /\ run'[q] = run[q]
  BY <1>1 DEF LogTypes
<1>3. CASE run[p].pc = "record"
  <2>1. /\ Loses(run[p].after.issue, run[p].who) /\ torn' \in {torn, TRUE}
        /\ overTear' = (overTear \/ (torn' /\ \E q \in Runs \ {p} : Knows(q)))
    BY <1>3 DEF Crash
  <2>2. torn' \in BOOLEAN /\ overTear' \in BOOLEAN /\ broken' \in BOOLEAN
    BY <1>1, <2>1 DEF LogTypes
  <2>3. Tears'
    BY <1>1, <1>2, <2>1 DEF Tears, Knows
  <2>4. QED  BY <1>1, <1>2, <1>3, <2>1, <2>2, <2>3, LosesCounts, Rests
<1>4. CASE run[p].pc # "record"
  <2>1. UNCHANGED <<torn, unrecorded, overTear>>
    BY <1>4 DEF Crash
  <2>2. CASE run[p].pc # "idle"
    <3>1. \A q \in Runs \ {p} : run[q] = Idle
      BY <2>2, RunsAlone
    <3>2. \A i, who : ~InFlight(i, who)
      BY <1>4, <3>1 DEF InFlight, Idle
    <3>3. \A q \in Runs \ {p} : run[q].pc # "fold"
      BY <3>1 DEF Idle
    <3>4. Tears'
      BY <1>1, <1>2, <2>1, <3>3 DEF Tears
    <3>5. /\ unrecorded' \in [Issues -> [People -> Nat]]
          /\ \A i \in Issues : \A who \in People :
                unrecorded[i][who] <= unrecorded'[i][who] /\ ~InFlight(i, who)
      BY <2>1, <3>2 DEF LogTypes
    <3>6. torn' \in BOOLEAN /\ overTear' \in BOOLEAN /\ broken' \in BOOLEAN
      BY <1>1, <2>1 DEF LogTypes
    <3>7. QED  BY <1>1, <1>2, <2>2, <3>4, <3>5, <3>6, Rests
  <2>3. CASE run[p].pc = "idle"
    <3>1. run' = run
      BY <1>1, <2>3, RunKinds DEF LogTypes
    <3>2. LogTypes'
      BY <1>1, <1>2, <2>1, <3>1 DEF LogTypes
    <3>3. OneRun' /\ \A q \in Runs : RunFits(q)'
      <4>1. UNCHANGED <<entry, journal, mailed, meant, run>>
        BY <1>1, <3>1
      <4>2. OneRun'
        BY <4>1 DEF OneRun
      <4>3. \A q \in Runs : RunFits(q)' <=> RunFits(q)
        BY <4>1 DEF RunFits, Mails, Held
      <4>4. QED  BY <4>2, <4>3
    <3>4. \A i \in Issues : \A who \in People : Counted(i, who)'
      <4>1. \A i, who : InFlight(i, who)' <=> InFlight(i, who)
        BY <3>1 DEF InFlight
      <4>2. UNCHANGED <<entry, journal, mailed, unrecorded, meant>>
        BY <1>1, <2>1
      <4>3. QED  BY <4>1, <4>2 DEF Counted, Held
    <3>5. Tears'
      BY <1>1, <1>2, <2>1, <3>1 DEF Tears
    <3>6. QED  BY <1>1, <3>2, <3>3, <3>4, <3>5
  <2>4. QED  BY <2>2, <2>3
<1>5. QED  BY <1>3, <1>4

LEMMA MailingFinish ==
    ASSUME MailingInv, NEW p \in Runs, Finish(p)
    PROVE  MailingInv'
<1> USE DEF MailingInv
<1>1. /\ run[p].pc = "send" /\ run[p] \in Mailings /\ run[p].issue \in Issues
      /\ entry[run[p].issue].state = "open"
  BY RunKinds DEF Finish, Mailings, RunFits, Mails
<1>2. /\ \A j, w : ~InFlight(j, w)
      /\ \A q \in Runs : run[q].pc # "fold"
  BY <1>1, RunsAlone DEF InFlight, Idle
<1>3. UNCHANGED <<journal, torn, broken, started, mailed, unrecorded, meant, overTear>>
  BY DEF Finish
<1>4. CASE run' = [run EXCEPT ![p] = Idle] /\ UNCHANGED entry
  <2>1. Tears'
    BY <1>2, <1>3 DEF Tears
  <2>2. /\ unrecorded' \in [Issues -> [People -> Nat]] /\ started' \in [Runs -> SUBSET Issues]
        /\ torn' \in BOOLEAN /\ overTear' \in BOOLEAN /\ broken' \in BOOLEAN
        /\ \A i \in Issues : \A who \in People :
              unrecorded[i][who] <= unrecorded'[i][who] /\ ~InFlight(i, who)
    BY <1>2, <1>3 DEF LogTypes
  <2>3. QED  BY <1>1, <1>3, <1>4, <2>1, <2>2, Rests
<1>5. CASE /\ run' = [run EXCEPT ![p] = [pc |-> "fold", after |-> Idle]]
           /\ entry' = [j \in Issues |->
                          IF j = run[p].issue /\ ~run[p].failed
                          THEN [Loaded(j) EXCEPT !.state = "closed"] ELSE Loaded(j)]
  <2> DEFINE x == [pc |-> "fold", after |-> Idle]
  <2>1. x \in Foldings /\ x.pc = "fold" /\ x.after = Idle /\ run' = [run EXCEPT ![p] = x]
    BY <1>5 DEF Foldings
  <2> HIDE DEF x
  <2>2. /\ run' \in [Runs -> {Idle} \cup Openings \cup Foldings \cup Mailings \cup Recordings]
        /\ run'[p] = x /\ OneRun'
        /\ RunFits(p)' => \A q \in Runs : RunFits(q)'
        /\ \A q \in Runs \ {p} : run'[q] = Idle /\ run[q] = Idle
    BY <1>1, <2>1, Follows
  <2>3. \A j, w : ~InFlight(j, w)'
    <3>1. \A q \in Runs : run'[q].pc # "record"
      BY <2>1, <2>2 DEF Idle
    <3>2. QED  BY <3>1 DEF InFlight
  <2>4. \A j \in Issues :
           /\ entry'[j] \in LogEntry
           /\ entry'[j].state # "closed" => entry'[j].state = entry[j].state
           /\ entry'[j].audience = entry[j].audience
           /\ \A w \in People : w \in entry'[j].got <=> Held(j, w)
    <3>1. SUFFICES ASSUME NEW j \in Issues
          PROVE  /\ entry'[j] \in LogEntry
                 /\ entry'[j].state # "closed" => entry'[j].state = entry[j].state
                 /\ entry'[j].audience = entry[j].audience
                 /\ \A w \in People : w \in entry'[j].got <=> Held(j, w)
      OBVIOUS
    <3>2. /\ Loaded(j) \in LogEntry
          /\ Loaded(j).state = entry[j].state /\ Loaded(j).audience = entry[j].audience
          /\ \A w \in People : w \in Loaded(j).got <=> Held(j, w)
      BY LoadedIs
    <3>3. entry'[j] = [Loaded(j) EXCEPT !.state = "closed"] \/ entry'[j] = Loaded(j)
      BY <1>5
    <3>4. QED  BY <3>2, <3>3 DEF LogEntry, EntryStates
  <2>5. entry' \in [Issues -> LogEntry]
    BY <1>5, <2>4
  <2>6. LogTypes'
    BY <1>3, <2>2, <2>5 DEF LogTypes
  <2>7. \A j \in Issues : \A w \in People : Held(j, w)' <=> Held(j, w)
    BY <1>3, <2>4 DEF Held
  <2>8. RunFits(p)'
    <3>1. run'[p].pc = "fold" /\ run'[p].after = Idle
      BY <2>1, <2>2
    <3>2. QED  BY <1>3, <2>4, <3>1 DEF RunFits, Held
  <2>9. \A j \in Issues : \A w \in People : Counted(j, w)'
    BY <1>2, <1>3, <2>3, <2>4, <2>7 DEF Counted
  <2>10. \A j \in Issues : entry'[j].state = "open" => entry'[j].audience = meant'[j]
    BY <1>3, <2>4
  <2>11. Tears'
    <3>1. \A q \in Runs : run'[q].pc = run[q].pc \/ run'[q].pc = "fold"
      BY <2>1, <2>2
    <3>2. QED  BY <1>2, <1>3 DEF Tears
  <2>12. QED  BY <2>2, <2>6, <2>8, <2>9, <2>10, <2>11
<1>6. QED  BY <1>4, <1>5 DEF Finish

LEMMA MailingStep == ASSUME MailingInv, Next PROVE MailingInv'
<1>1. PICK p \in Runs :
        \/ \E i \in Issues, list \in SUBSET People : Begin(p, i, list)
        \/ Open(p) \/ Fold(p) \/ Record(p) \/ RecordFails(p) \/ Finish(p) \/ Crash(p)
        \/ \E who \in People : Accepted(p, who) \/ Failed(p, who)
  BY DEF Next
<1>2. QED
  BY <1>1, MailingBegin, MailingOpen, MailingFold, MailingRecord, MailingRecordFails, MailingFinish, MailingCrash,
     MailingAccepted, MailingFailed

LEMMA MailingInvHolds == Spec => []MailingInv
<1>1. MailingInv /\ UNCHANGED vars => MailingInv'
  BY DEF MailingInv, vars, LogTypes, OneRun, RunFits, Mails, Held, Counted, InFlight, Tears
<1>2. MailingInv /\ [Next]_vars => MailingInv'
  BY <1>1, MailingStep
<1>3. QED  BY MailingInit, <1>2, PTL DEF Spec

(* The types of the mailing, and that one run mails at a time.             *)
THEOREM IssueTypes == Spec => []TypeOK
<1>1. ASSUME MailingInv PROVE TypeOK
  <2> USE <1>1 DEF MailingInv
  <2>1. \A i \in Issues : entry[i] \in LogEntry
    BY DEF LogTypes
  <2>2. \A i \in Issues :
          /\ entry[i].state \in EntryStates
          /\ entry[i].audience \subseteq People /\ entry[i].got \subseteq People
    BY <2>1 DEF LogEntry
  <2>3. {torn, broken, overTear} \subseteq BOOLEAN /\ started \in [Runs -> SUBSET Issues]
        /\ journal \subseteq Issues \X People
    BY DEF LogTypes
  <2> DEFINE S == {p \in Runs : run[p] # Idle}
  <2>4. CASE S = {}
    <3>1. Cardinality(S) = 0  BY <2>4, FS_EmptySet
    <3>2. QED  BY <2>2, <2>3, <3>1 DEF TypeOK, EntryStates
  <2>5. CASE S # {}
    <3>1. PICK p \in S : TRUE  BY <2>5
    <3>2. S = {p}  BY <3>1 DEF OneRun
    <3>3. Cardinality(S) = 1  BY <3>2, FS_Singleton
    <3>4. QED  BY <2>2, <2>3, <3>3 DEF TypeOK, EntryStates
  <2>6. QED  BY <2>4, <2>5
<1>2. QED  BY <1>1, MailingInvHolds, PTL

(* However runs follow each other, fail half-way, die and start again with *)
(* other lists: an issue reaches only those it was first sent to, nobody   *)
(* twice but for a mail whose record was lost, whoever is recorded was     *)
(* mailed, and the journal stays readable but for a log object that        *)
(* outlives a torn line (server/subscribers/send.ts, file-send-log.ts).    *)
THEOREM IssuesAreSafe ==
    Spec => [](OneExtraPerLoss /\ OnlyAudience /\ RecordedWasMailed /\ JournalReadable)
<1>1. ASSUME MailingInv PROVE OneExtraPerLoss /\ OnlyAudience /\ RecordedWasMailed /\ JournalReadable
  <2> USE <1>1 DEF MailingInv
  <2>1. OneExtraPerLoss  BY DEF OneExtraPerLoss, Counted
  <2>2. OnlyAudience  BY DEF OnlyAudience, Counted
  <2>3. RecordedWasMailed
    <3>1. \A i \in Issues : Loaded(i).got \subseteq People
      BY LoadedIs DEF LogEntry
    <3>2. QED  BY <3>1, LoadedIs DEF RecordedWasMailed, Counted
  <2>4. JournalReadable  BY DEF JournalReadable, Tears
  <2>5. QED  BY <2>1, <2>2, <2>3, <2>4
<1>2. QED  BY <1>1, MailingInvHolds, PTL

(* A run closes an issue only when it leaves nobody of its list unmailed.  *)
THEOREM ClosedWhenMailed == Spec => ClosesWhenDone
<1>1. ASSUME MailingInv, [Next]_vars PROVE ClosesWhenDoneStep \/ UNCHANGED vars
  <2> USE <1>1 DEF MailingInv
  <2>1. SUFFICES ASSUME NEW p \in Runs, NEW i \in Issues, entry[i].state # "closed",
                        entry'[i].state = "closed", run[p] # Idle, Next,
                        NEW who \in meant[i] \cap run[p].list
                 PROVE  mailed[i][who] > 0
    BY DEF ClosesWhenDoneStep
  <2>2. PICK q \in Runs : Open(q) \/ Finish(q)
    BY <2>1 DEF Next, vars, Begin, Fold, Record, RecordFails, Crash, Accepted, Failed
  <2>3. CASE Open(q)
    <3>1. Loaded(i).state # "closed"
      BY <2>1, LoadedIs
    <3>2. Loaded(i) \in LogEntry
      BY LoadedIs
    <3>3. CASE entry' = entry
      BY <2>1, <3>3
    <3>4. ASSUME NEW a, entry' = [j \in Issues |->
                          IF j = run[q].issue
                          THEN [Loaded(run[q].issue) EXCEPT !.state = "open", !.audience = a]
                          ELSE Loaded(j)]
          PROVE  FALSE
      <4>1. CASE i = run[q].issue
        <5>1. entry'[i] = [Loaded(i) EXCEPT !.state = "open", !.audience = a]
          BY <3>4, <4>1
        <5>2. entry'[i].state = "open"
          BY <3>2, <5>1 DEF LogEntry
        <5>3. QED  BY <2>1, <5>2
      <4>2. CASE i # run[q].issue
        <5>1. entry'[i] = Loaded(i)
          BY <3>4, <4>2
        <5>2. QED  BY <2>1, <3>1, <5>1
      <4>3. QED  BY <4>1, <4>2
    <3>5. QED  BY <2>3, <3>3, <3>4 DEF Open
  <2>4. CASE Finish(q)
    <3>1. run[q].pc = "send" /\ run[q].todo = {} /\ run[q].pc # "idle"
      BY <2>4 DEF Finish
    <3>2. p = q
      BY <2>1, <3>1, RunsAlone
    <3>3. Loaded(i).state # "closed"
      BY <2>1, LoadedIs
    <3>4. i = run[q].issue /\ ~run[q].failed
      BY <2>1, <2>4, <3>3 DEF Finish
    <3>5. Mails(run[q])
      BY <3>1 DEF RunFits
    <3>6. QED  BY <2>1, <3>1, <3>2, <3>4, <3>5 DEF Mails
  <2>5. QED  BY <2>2, <2>3, <2>4
<1>2. QED  BY <1>1, MailingInvHolds, PTL DEF Spec, ClosesWhenDone

----------------------------------------------------------------------------
(***************************************************************************)
(* The consents of the MCP authorization server.                           *)
(***************************************************************************)

Asking == {"code", "reads", "address"}
Undecided == Asking \cup {"total", "uncounts", "hashes", "forgives", "forgives all"}
PostStages == Undecided \cup {"refuses", "approves"}
PostRecords ==
    [stage : PostStages, consent : Consents, address : Addresses,
     typed : {"right", "wrong", "code"}, at : Times, pays : BOOLEAN]
PostStates == PostRecords \cup {NoPost}

ConsentTypes ==
    /\ clock \in Times /\ posts \in 0 .. MaxPosts /\ pending \subseteq Consents
    /\ approval \in BOOLEAN /\ late \in BOOLEAN /\ failed \in BOOLEAN
    /\ attempts \in [Keys -> [Times -> Nat]] /\ wrong \in [Keys -> [Times -> Nat]]
    /\ newest \in [Keys -> Times]
    /\ codes \in [Consents -> Nat] /\ spent \in Nat
    /\ post \in [Posts -> PostStates]

(* A consent is pending, or with one request, or approved.                 *)
Handles(x, p) == x # NoPost /\ x.consent = p

ConsentInv ==
    /\ \A r, q \in Posts : \A p \in Consents :
          Handles(post[r], p) /\ Handles(post[q], p) => r = q
    /\ \A r \in Posts : \A p \in Consents :
          Handles(post[r], p) => p \notin pending /\ codes[p] = 0
    /\ \A p \in Consents : codes[p] <= 1 /\ (p \in pending => codes[p] = 0)

(* The approval code is in the store, or pays for one request, or is       *)
(* spent, or expired.                                                      *)
Pays(x) == x # NoPost /\ x.pays

CodeInv ==
    /\ \A r, q \in Posts : Pays(post[r]) /\ Pays(post[q]) => r = q
    /\ \A r \in Posts : Pays(post[r]) =>
          post[r].stage = "approves" /\ ~approval /\ spent = 0
    /\ spent <= 1 /\ (approval => spent = 0)

(* What has been posted bounds every count: the requests that are not      *)
(* counted yet are left of it.                                             *)
Uncounted(k) == {r \in Posts : post[r].stage \in Asking \cup (IF k = Total THEN {"total"} ELSE {})}
Undone == {r \in Posts : post[r].stage \in Undecided}
Under == {r \in Posts : post[r].stage \in PostStages}

BoundInv ==
    /\ IsFiniteSet(Under)
    /\ \A k \in Keys, t \in Times : attempts[k][t] + Cardinality(Uncounted(k)) <= posts
    /\ \A k \in Keys, t \in Times : wrong[k][t] + Cardinality(Undone) <= posts
    /\ \A p \in Consents : codes[p] + Cardinality(Under) <= posts

(* Whether a request holds an attempt of k made at u, which may still turn *)
(* out wrong or be given back; and the attempts that are held or were      *)
(* wrong.                                                                  *)
HoldStages(k) ==
    IF k = Total THEN {"hashes", "forgives", "forgives all"}
    ELSE {"total", "uncounts", "hashes", "forgives"}
HoldsMark(x, k, u) ==
    x # NoPost /\ x.stage \in HoldStages(k) /\ x.at = u /\ (k = Total \/ x.address = k)
Holders(k, u) == {r \in Posts : HoldsMark(post[r], k, u)}
Owed(k) == [u \in Times |-> wrong[k][u] + Cardinality(Holders(k, u))]

(* While attempts come in order, what is held or was wrong is on the count *)
(* until its window is over, and so within the limit in every window.      *)
OrderInv == ~late => \A k \in Keys :
    /\ \A u \in Times : newest[k] < u + FailureWindow(k) => Owed(k)[u] <= attempts[k][u]
    /\ \A u \in Times : Owed(k)[u] # 0 => u <= newest[k]
    /\ \A t \in Times : In(Owed(k), Span(k, t)) <= FailureLimit(k)

(* While no request fails, only what is held or was wrong is on the count. *)
ExactInv == ~failed => \A k \in Keys, u \in Times : attempts[k][u] <= Owed(k)[u]

ConsentShape == ConsentTypes /\ BoundInv
CountInv == OrderInv /\ ExactInv
ConsentIInv == ConsentShape /\ ConsentInv /\ CodeInv /\ CountInv

LEMMA ConsentNumbers ==
    ASSUME McpConsentAssumption
    PROVE  /\ MaxFailures \in Nat \ {0} /\ MaxTotalFailures \in Nat \ {0}
           /\ Window \in Nat \ {0} /\ TotalWindow \in Nat \ {0}
           /\ MaxPosts \in Nat /\ MaxTime \in Nat /\ Total \notin Addresses
           /\ \A k : FailureWindow(k) \in Nat \ {0} /\ FailureLimit(k) \in Nat \ {0}
BY DEF McpConsentAssumption, FailureWindow, FailureLimit

(* The number of attempts at some times.                                   *)
Marks(count, S) == {x \in S \X (1 .. MaxPosts) : x[2] <= count[x[1]]}

LEMMA InIsNumber ==
    ASSUME McpConsentAssumption, NEW S \in SUBSET Times, NEW f \in [Times -> Nat]
    PROVE  IsFiniteSet(Marks(f, S)) /\ In(f, S) = Cardinality(Marks(f, S)) /\ In(f, S) \in Nat
<1>1. IsFiniteSet(Times) /\ IsFiniteSet(1 .. MaxPosts)
  BY ConsentNumbers, FS_Interval DEF Times
<1>2. IsFiniteSet(S)
  BY <1>1, FS_Subset
<1>3. IsFiniteSet(S \X (1 .. MaxPosts))
  BY <1>1, <1>2, FS_Product
<1>4. Marks(f, S) \in SUBSET (S \X (1 .. MaxPosts))
  BY DEF Marks
<1>5. IsFiniteSet(Marks(f, S))
  BY <1>3, <1>4, FS_Subset
<1>6. In(f, S) = Cardinality(Marks(f, S))
  BY DEF In, Marks
<1>7. QED  BY <1>5, <1>6, FS_CardinalityType

LEMMA InIsMonotone ==
    ASSUME McpConsentAssumption, NEW S \in SUBSET Times, NEW T \in SUBSET Times,
           NEW f \in [Times -> Nat], NEW g \in [Times -> Nat],
           \A u \in S : f[u] = 0 \/ (u \in T /\ f[u] <= g[u])
    PROVE  In(f, S) <= In(g, T)
<1>1. Marks(f, S) \subseteq Marks(g, T)
  <2>1. SUFFICES ASSUME NEW x \in S \X (1 .. MaxPosts), x[2] <= f[x[1]]
                 PROVE  x \in T \X (1 .. MaxPosts) /\ x[2] <= g[x[1]]
    BY DEF Marks
  <2>2. PICK u \in S, n \in 1 .. MaxPosts : x = <<u, n>>
    OBVIOUS
  <2>3. n <= f[u] /\ u \in Times /\ f[u] \in Nat /\ g[u] \in Nat /\ MaxPosts \in Nat
    BY <2>1, <2>2, ConsentNumbers
  <2>4. u \in T /\ n <= g[u]
    BY <2>2, <2>3
  <2>5. QED  BY <2>2, <2>4
<1>2. QED  BY <1>1, InIsNumber, FS_Subset

(* One attempt more at a time of S is one more in S.                       *)
LEMMA InOneMore ==
    ASSUME McpConsentAssumption, NEW S \in SUBSET Times, NEW t \in S,
           NEW f \in [Times -> Nat], NEW g \in [Times -> Nat],
           \A u \in S : g[u] = f[u] + (IF u = t THEN 1 ELSE 0)
    PROVE  In(g, S) <= In(f, S) + 1
<1> DEFINE y == <<t, g[t]>>
<1>1. Marks(g, S) \subseteq Marks(f, S) \cup {y}
  <2>1. SUFFICES ASSUME NEW x \in S \X (1 .. MaxPosts), x[2] <= g[x[1]], x # y
                 PROVE  x[2] <= f[x[1]]
    BY DEF Marks
  <2>2. PICK u \in S, n \in 1 .. MaxPosts : x = <<u, n>>
    OBVIOUS
  <2>3. n <= g[u] /\ u \in Times /\ f[u] \in Nat /\ g[u] \in Nat /\ MaxPosts \in Nat
    BY <2>1, <2>2, ConsentNumbers
  <2>4. u = t => n # g[u]
    BY <2>1, <2>2
  <2>5. n <= f[u]
    BY <2>2, <2>3, <2>4
  <2>6. QED  BY <2>2, <2>5
<1>2. /\ IsFiniteSet(Marks(f, S)) /\ In(f, S) = Cardinality(Marks(f, S)) /\ In(f, S) \in Nat
      /\ IsFiniteSet(Marks(g, S)) /\ In(g, S) = Cardinality(Marks(g, S)) /\ In(g, S) \in Nat
  BY InIsNumber
<1> HIDE DEF y
<1>3. /\ IsFiniteSet(Marks(f, S) \cup {y})
      /\ Cardinality(Marks(f, S) \cup {y}) <= Cardinality(Marks(f, S)) + 1
      /\ Cardinality(Marks(f, S) \cup {y}) \in Nat
  <2>1. /\ IsFiniteSet(Marks(f, S) \cup {y})
        /\ Cardinality(Marks(f, S) \cup {y}) =
              IF y \in Marks(f, S) THEN Cardinality(Marks(f, S)) ELSE Cardinality(Marks(f, S)) + 1
    BY <1>2, FS_AddElement
  <2>2. Cardinality(Marks(f, S)) \in Nat
    BY <1>2
  <2>3. QED  BY <2>1, <2>2
<1>4. Cardinality(Marks(g, S)) <= Cardinality(Marks(f, S) \cup {y})
  BY <1>1, <1>3, FS_Subset
<1>5. QED  BY <1>2, <1>3, <1>4

(* Two sets that differ in one element at most.                            *)
LEMMA OneMoves ==
    ASSUME NEW A, NEW B, NEW r, IsFiniteSet(A), A \ {r} = B \ {r}
    PROVE  /\ IsFiniteSet(B) /\ Cardinality(A) \in Nat /\ Cardinality(B) \in Nat
           /\ Cardinality(B) + (IF r \in A THEN 1 ELSE 0)
                 = Cardinality(A) + (IF r \in B THEN 1 ELSE 0)
           /\ r \in A => Cardinality(A) >= 1
<1>1. Cardinality(A) \in Nat /\ (Cardinality(A) = 0 <=> A = {})
  BY FS_CardinalityType, FS_EmptySet
<1>2. CASE r \in A /\ r \in B
  <2>1. A = B
    BY <1>2
  <2>2. QED  BY <1>1, <1>2, <2>1
<1>3. CASE r \in A /\ r \notin B
  <2>1. B = A \ {r}
    BY <1>3
  <2>2. IsFiniteSet(B) /\ Cardinality(B) = Cardinality(A) - 1
    BY <1>3, <2>1, FS_RemoveElement
  <2>3. Cardinality(B) \in Nat /\ Cardinality(A) >= 1
    BY <1>1, <1>3, <2>2, FS_CardinalityType
  <2>4. QED  BY <1>1, <1>3, <2>2, <2>3
<1>4. CASE r \notin A /\ r \in B
  <2>1. B = A \cup {r}
    BY <1>4
  <2>2. IsFiniteSet(B) /\ Cardinality(B) = Cardinality(A) + 1
    BY <1>4, <2>1, FS_AddElement
  <2>3. QED  BY <1>1, <1>4, <2>2
<1>5. CASE r \notin A /\ r \notin B
  <2>1. A = B
    BY <1>5
  <2>2. QED  BY <1>1, <1>5, <2>1
<1>6. QED  BY <1>2, <1>3, <1>4, <1>5

LEMMA KeysOf ==
    Total \in Keys /\ Addresses \subseteq Keys /\ \A k \in Keys : k # Total => k \in Addresses
BY DEF Keys

----------------------------------------------------------------------------
(* A request moves on.                                                     *)

LEMMA StagesOf ==
    /\ NoPost.stage = "idle" /\ "idle" \notin PostStages
    /\ \A x \in PostRecords : x.stage \in PostStages /\ x # NoPost /\ x.address \in Addresses
                              /\ x.consent \in Consents /\ x.at \in Times /\ x.pays \in BOOLEAN
    /\ \A x \in PostStates : x # NoPost <=> x.stage \in PostStages
    /\ \A x \in PostStates : x # NoPost => x \in PostRecords
<1>1. NoPost.stage = "idle" /\ "idle" \notin PostStages
  BY DEF NoPost, PostStages, Undecided, Asking
<1>2. \A x \in PostRecords : x.stage \in PostStages /\ x # NoPost /\ x.address \in Addresses
                             /\ x.consent \in Consents /\ x.at \in Times /\ x.pays \in BOOLEAN
  BY <1>1 DEF PostRecords
<1>3. QED  BY <1>1, <1>2 DEF PostStates

LEMMA PostMoves ==
    ASSUME McpConsentAssumption, ConsentShape, NEW r \in Posts, NEW x \in PostStates,
           post' = [post EXCEPT ![r] = x]
    PROVE  /\ post' \in [Posts -> PostStates]
           /\ post[r] \in PostStates /\ post'[r] = x
           /\ \A q \in Posts : q # r => post'[q] = post[q]
           /\ IsFiniteSet(Under')
           /\ \A k \in Keys, u \in Times :
                 /\ Cardinality(Holders(k, u)) \in Nat /\ Cardinality(Holders(k, u)') \in Nat
                 /\ Cardinality(Holders(k, u)') + (IF HoldsMark(post[r], k, u) THEN 1 ELSE 0)
                       = Cardinality(Holders(k, u)) + (IF HoldsMark(x, k, u) THEN 1 ELSE 0)
                 /\ HoldsMark(post[r], k, u) => Cardinality(Holders(k, u)) >= 1
           /\ \A k \in Keys :
                 /\ Cardinality(Uncounted(k)) \in Nat /\ Cardinality(Uncounted(k)') \in Nat
                 /\ Cardinality(Uncounted(k)') + (IF r \in Uncounted(k) THEN 1 ELSE 0)
                       = Cardinality(Uncounted(k)) + (IF r \in Uncounted(k)' THEN 1 ELSE 0)
           /\ Cardinality(Undone) \in Nat /\ Cardinality(Undone') \in Nat
           /\ Cardinality(Undone') + (IF r \in Undone THEN 1 ELSE 0)
                 = Cardinality(Undone) + (IF r \in Undone' THEN 1 ELSE 0)
           /\ Cardinality(Under) \in Nat /\ Cardinality(Under') \in Nat
           /\ Cardinality(Under') + (IF r \in Under THEN 1 ELSE 0)
                 = Cardinality(Under) + (IF r \in Under' THEN 1 ELSE 0)
<1>1. post \in [Posts -> PostStates] /\ IsFiniteSet(Under)
  BY DEF ConsentShape, ConsentTypes, BoundInv
<1>2. /\ post' \in [Posts -> PostStates] /\ post[r] \in PostStates /\ post'[r] = x
      /\ \A q \in Posts : q # r => post'[q] = post[q]
  BY <1>1
<1>3. Under \ {r} = Under' \ {r} /\ Undone \ {r} = Undone' \ {r}
  BY <1>2 DEF Under, Undone
<1>4. \A k \in Keys : Uncounted(k) \ {r} = Uncounted(k)' \ {r}
  BY <1>2 DEF Uncounted
<1>5. \A k \in Keys, u \in Times : Holders(k, u) \ {r} = Holders(k, u)' \ {r}
  BY <1>2 DEF Holders
<1>6. /\ IsFiniteSet(Undone)
      /\ \A k \in Keys : IsFiniteSet(Uncounted(k))
      /\ \A k \in Keys, u \in Times : IsFiniteSet(Holders(k, u))
  <2>1. Undone \in SUBSET Under
    BY DEF Undone, Under, PostStages
  <2>2. ASSUME NEW k \in Keys  PROVE Uncounted(k) \in SUBSET Under
    BY DEF Uncounted, Under, PostStages, Undecided
  <2>3. ASSUME NEW k \in Keys, NEW u \in Times  PROVE Holders(k, u) \in SUBSET Under
    BY DEF Holders, HoldsMark, HoldStages, Under, PostStages, Undecided
  <2>4. QED  BY <1>1, <2>1, <2>2, <2>3, FS_Subset
<1>7. ASSUME NEW k \in Keys, NEW u \in Times
      PROVE  /\ Cardinality(Holders(k, u)) \in Nat /\ Cardinality(Holders(k, u)') \in Nat
             /\ Cardinality(Holders(k, u)') + (IF HoldsMark(post[r], k, u) THEN 1 ELSE 0)
                   = Cardinality(Holders(k, u)) + (IF HoldsMark(x, k, u) THEN 1 ELSE 0)
             /\ HoldsMark(post[r], k, u) => Cardinality(Holders(k, u)) >= 1
  <2>1. /\ r \in Holders(k, u) <=> HoldsMark(post[r], k, u)
        /\ r \in Holders(k, u)' <=> HoldsMark(x, k, u)
    BY <1>2 DEF Holders
  <2>2. /\ Cardinality(Holders(k, u)) \in Nat /\ Cardinality(Holders(k, u)') \in Nat
        /\ Cardinality(Holders(k, u)') + (IF r \in Holders(k, u) THEN 1 ELSE 0)
              = Cardinality(Holders(k, u)) + (IF r \in Holders(k, u)' THEN 1 ELSE 0)
        /\ r \in Holders(k, u) => Cardinality(Holders(k, u)) >= 1
    BY <1>5, <1>6, OneMoves
  <2>3. QED  BY <2>1, <2>2
<1>8. ASSUME NEW k \in Keys
      PROVE  /\ Cardinality(Uncounted(k)) \in Nat /\ Cardinality(Uncounted(k)') \in Nat
             /\ Cardinality(Uncounted(k)') + (IF r \in Uncounted(k) THEN 1 ELSE 0)
                   = Cardinality(Uncounted(k)) + (IF r \in Uncounted(k)' THEN 1 ELSE 0)
  BY <1>4, <1>6, OneMoves
<1>9. /\ Cardinality(Undone) \in Nat /\ Cardinality(Undone') \in Nat
      /\ Cardinality(Undone') + (IF r \in Undone THEN 1 ELSE 0)
            = Cardinality(Undone) + (IF r \in Undone' THEN 1 ELSE 0)
  BY <1>3, <1>6, OneMoves
<1>10. /\ IsFiniteSet(Under') /\ Cardinality(Under) \in Nat /\ Cardinality(Under') \in Nat
       /\ Cardinality(Under') + (IF r \in Under THEN 1 ELSE 0)
             = Cardinality(Under) + (IF r \in Under' THEN 1 ELSE 0)
  BY <1>1, <1>3, OneMoves
<1>11. QED  BY <1>2, <1>7, <1>8, <1>9, <1>10

(* The bounds of the counts, from what a step adds and who leaves.         *)
LEMMA BoundKeeps ==
    ASSUME McpConsentAssumption, ConsentShape, NEW r \in Posts, NEW x \in PostStates,
           post' = [post EXCEPT ![r] = x],
           attempts' \in [Keys -> [Times -> Nat]], wrong' \in [Keys -> [Times -> Nat]],
           codes' \in [Consents -> Nat], posts' \in Nat, posts <= posts',
           \A k \in Keys, t \in Times :
              attempts'[k][t] + (IF r \in Uncounted(k)' THEN 1 ELSE 0) + posts
                 <= attempts[k][t] + (IF r \in Uncounted(k) THEN 1 ELSE 0) + posts',
           \A k \in Keys, t \in Times :
              wrong'[k][t] + (IF r \in Undone' THEN 1 ELSE 0) + posts
                 <= wrong[k][t] + (IF r \in Undone THEN 1 ELSE 0) + posts',
           \A p \in Consents :
              codes'[p] + (IF r \in Under' THEN 1 ELSE 0) + posts
                 <= codes[p] + (IF r \in Under THEN 1 ELSE 0) + posts'
    PROVE  BoundInv'
<1>0. /\ attempts \in [Keys -> [Times -> Nat]] /\ wrong \in [Keys -> [Times -> Nat]]
      /\ codes \in [Consents -> Nat] /\ posts \in Nat
      /\ \A k \in Keys, t \in Times : attempts[k][t] + Cardinality(Uncounted(k)) <= posts
      /\ \A k \in Keys, t \in Times : wrong[k][t] + Cardinality(Undone) <= posts
      /\ \A p \in Consents : codes[p] + Cardinality(Under) <= posts
  BY DEF ConsentShape, ConsentTypes, BoundInv
<1>1. ASSUME NEW k \in Keys, NEW t \in Times
      PROVE  attempts'[k][t] + Cardinality(Uncounted(k)') <= posts'
  <2>1. /\ Cardinality(Uncounted(k)) \in Nat /\ Cardinality(Uncounted(k)') \in Nat
        /\ Cardinality(Uncounted(k)') + (IF r \in Uncounted(k) THEN 1 ELSE 0)
              = Cardinality(Uncounted(k)) + (IF r \in Uncounted(k)' THEN 1 ELSE 0)
    BY PostMoves
  <2>2. attempts'[k][t] \in Nat /\ attempts[k][t] \in Nat
        /\ attempts[k][t] + Cardinality(Uncounted(k)) <= posts
        /\ attempts'[k][t] + (IF r \in Uncounted(k)' THEN 1 ELSE 0) + posts
              <= attempts[k][t] + (IF r \in Uncounted(k) THEN 1 ELSE 0) + posts'
    BY <1>0
  <2>3. QED  BY <1>0, <2>1, <2>2
<1>2. /\ Cardinality(Undone) \in Nat /\ Cardinality(Undone') \in Nat
      /\ Cardinality(Undone') + (IF r \in Undone THEN 1 ELSE 0)
            = Cardinality(Undone) + (IF r \in Undone' THEN 1 ELSE 0)
      /\ Cardinality(Under) \in Nat /\ Cardinality(Under') \in Nat
      /\ Cardinality(Under') + (IF r \in Under THEN 1 ELSE 0)
            = Cardinality(Under) + (IF r \in Under' THEN 1 ELSE 0)
      /\ IsFiniteSet(Under')
  BY PostMoves
<1>3. ASSUME NEW k \in Keys, NEW t \in Times
      PROVE  wrong'[k][t] + Cardinality(Undone') <= posts'
  <2>1. wrong'[k][t] \in Nat /\ wrong[k][t] \in Nat
        /\ wrong[k][t] + Cardinality(Undone) <= posts
        /\ wrong'[k][t] + (IF r \in Undone' THEN 1 ELSE 0) + posts
              <= wrong[k][t] + (IF r \in Undone THEN 1 ELSE 0) + posts'
    BY <1>0
  <2>2. QED  BY <1>0, <1>2, <2>1
<1>4. ASSUME NEW p \in Consents  PROVE codes'[p] + Cardinality(Under') <= posts'
  <2>1. codes'[p] \in Nat /\ codes[p] \in Nat /\ codes[p] + Cardinality(Under) <= posts
        /\ codes'[p] + (IF r \in Under' THEN 1 ELSE 0) + posts
              <= codes[p] + (IF r \in Under THEN 1 ELSE 0) + posts'
    BY <1>0
  <2>2. QED  BY <1>0, <1>2, <2>1
<1>5. QED  BY <1>1, <1>2, <1>3, <1>4 DEF BoundInv

(* What is owed, and what a step makes of it.                              *)
LEMMA OwedIs ==
    ASSUME McpConsentAssumption, ConsentShape, NEW k \in Keys
    PROVE  /\ Owed(k) \in [Times -> Nat]
           /\ \A u \in Times : Owed(k)[u] = wrong[k][u] + Cardinality(Holders(k, u))
<1>1. wrong[k] \in [Times -> Nat] /\ IsFiniteSet(Under)
  BY DEF ConsentShape, ConsentTypes, BoundInv
<1>2. ASSUME NEW u \in Times  PROVE Cardinality(Holders(k, u)) \in Nat
  <2>1. Holders(k, u) \in SUBSET Under
    BY DEF Holders, HoldsMark, HoldStages, Under, PostStages, Undecided
  <2>2. QED  BY <1>1, <2>1, FS_Subset, FS_CardinalityType
<1>3. QED  BY <1>1, <1>2 DEF Owed

LEMMA OwedMoves ==
    ASSUME McpConsentAssumption, ConsentShape, NEW r \in Posts, NEW x \in PostStates,
           post' = [post EXCEPT ![r] = x], wrong' \in [Keys -> [Times -> Nat]],
           NEW k \in Keys
    PROVE  /\ Owed(k)' \in [Times -> Nat] /\ Owed(k) \in [Times -> Nat]
           /\ \A u \in Times :
                 /\ Owed(k)'[u] + wrong[k][u] + (IF HoldsMark(post[r], k, u) THEN 1 ELSE 0)
                       = Owed(k)[u] + wrong'[k][u] + (IF HoldsMark(x, k, u) THEN 1 ELSE 0)
                 /\ HoldsMark(post[r], k, u) => Owed(k)[u] >= 1
<1>1. /\ wrong'[k] \in [Times -> Nat] /\ wrong[k] \in [Times -> Nat]
      /\ Owed(k) \in [Times -> Nat]
      /\ \A u \in Times : Owed(k)[u] = wrong[k][u] + Cardinality(Holders(k, u))
  BY OwedIs DEF ConsentShape, ConsentTypes
<1>2. \A u \in Times :
         /\ Cardinality(Holders(k, u)) \in Nat /\ Cardinality(Holders(k, u)') \in Nat
         /\ Cardinality(Holders(k, u)') + (IF HoldsMark(post[r], k, u) THEN 1 ELSE 0)
               = Cardinality(Holders(k, u)) + (IF HoldsMark(x, k, u) THEN 1 ELSE 0)
         /\ HoldsMark(post[r], k, u) => Cardinality(Holders(k, u)) >= 1
  BY PostMoves
<1>3. Owed(k)' = [u \in Times |-> wrong'[k][u] + Cardinality(Holders(k, u)')]
  BY DEF Owed
<1>4. /\ Owed(k)' \in [Times -> Nat]
      /\ \A u \in Times : Owed(k)'[u] = wrong'[k][u] + Cardinality(Holders(k, u)')
  BY <1>1, <1>2, <1>3
<1>5. ASSUME NEW u \in Times
      PROVE  /\ Owed(k)'[u] + wrong[k][u] + (IF HoldsMark(post[r], k, u) THEN 1 ELSE 0)
                   = Owed(k)[u] + wrong'[k][u] + (IF HoldsMark(x, k, u) THEN 1 ELSE 0)
             /\ HoldsMark(post[r], k, u) => Owed(k)[u] >= 1
  <2>1. /\ Owed(k)[u] = wrong[k][u] + Cardinality(Holders(k, u))
        /\ Owed(k)'[u] = wrong'[k][u] + Cardinality(Holders(k, u)')
        /\ wrong[k][u] \in Nat /\ wrong'[k][u] \in Nat
    BY <1>1, <1>4
  <2>2. /\ Cardinality(Holders(k, u)) \in Nat /\ Cardinality(Holders(k, u)') \in Nat
        /\ Cardinality(Holders(k, u)') + (IF HoldsMark(post[r], k, u) THEN 1 ELSE 0)
              = Cardinality(Holders(k, u)) + (IF HoldsMark(x, k, u) THEN 1 ELSE 0)
        /\ HoldsMark(post[r], k, u) => Cardinality(Holders(k, u)) >= 1
    BY <1>2
  <2>3. QED  BY <2>1, <2>2
<1>6. QED  BY <1>1, <1>4, <1>5

(* The same at one key and one moment.                                     *)
LEMMA OwedAt ==
    ASSUME McpConsentAssumption, ConsentShape, NEW r \in Posts, NEW x \in PostStates,
           post' = [post EXCEPT ![r] = x], wrong' \in [Keys -> [Times -> Nat]],
           NEW k \in Keys, NEW u \in Times
    PROVE  /\ Owed(k)'[u] \in Nat /\ Owed(k)[u] \in Nat
           /\ Owed(k)'[u] + wrong[k][u] + (IF HoldsMark(post[r], k, u) THEN 1 ELSE 0)
                 = Owed(k)[u] + wrong'[k][u] + (IF HoldsMark(x, k, u) THEN 1 ELSE 0)
           /\ HoldsMark(post[r], k, u) => Owed(k)[u] >= 1
<1>1. /\ Owed(k)' \in [Times -> Nat] /\ Owed(k) \in [Times -> Nat]
      /\ \A v \in Times :
            /\ Owed(k)'[v] + wrong[k][v] + (IF HoldsMark(post[r], k, v) THEN 1 ELSE 0)
                  = Owed(k)[v] + wrong'[k][v] + (IF HoldsMark(x, k, v) THEN 1 ELSE 0)
            /\ HoldsMark(post[r], k, v) => Owed(k)[v] >= 1
  BY OwedMoves
<1>2. QED  BY <1>1

(* Nothing is owed more than before.                                       *)
LEMMA CountKeeps ==
    ASSUME McpConsentAssumption, ConsentShape, CountInv, UNCHANGED <<newest, late>>,
           failed \in BOOLEAN, failed' \in BOOLEAN, failed => failed',
           \A k \in Keys : Owed(k)' \in [Times -> Nat],
           \A k \in Keys, u \in Times :
              /\ Owed(k)'[u] <= Owed(k)[u]
              /\ Owed(k)[u] <= attempts[k][u] => Owed(k)'[u] <= attempts'[k][u]
              /\ ~failed' /\ attempts[k][u] <= Owed(k)[u] => attempts'[k][u] <= Owed(k)'[u]
    PROVE  CountInv'
<1>1. ExactInv'
  BY DEF CountInv, ExactInv
<1>2. ASSUME ~late, NEW k \in Keys
      PROVE  /\ \A u \in Times : newest[k] < u + FailureWindow(k) => Owed(k)'[u] <= attempts'[k][u]
             /\ \A u \in Times : Owed(k)'[u] # 0 => u <= newest[k]
             /\ \A t \in Times : In(Owed(k)', Span(k, t)) <= FailureLimit(k)
  <2>1. /\ \A u \in Times : newest[k] < u + FailureWindow(k) => Owed(k)[u] <= attempts[k][u]
        /\ \A u \in Times : Owed(k)[u] # 0 => u <= newest[k]
        /\ \A t \in Times : In(Owed(k), Span(k, t)) <= FailureLimit(k)
    BY <1>2 DEF CountInv, OrderInv
  <2>2. Owed(k) \in [Times -> Nat] /\ Owed(k)' \in [Times -> Nat]
    BY OwedIs
  <2>3. ASSUME NEW t \in Times  PROVE In(Owed(k)', Span(k, t)) <= FailureLimit(k)
    <3>1. Span(k, t) \in SUBSET Times
      BY DEF Span
    <3> DEFINE f == Owed(k)'  g == Owed(k)  S == Span(k, t)
    <3>2. /\ f \in [Times -> Nat] /\ g \in [Times -> Nat] /\ S \in SUBSET Times
          /\ \A u \in S : f[u] = 0 \/ (u \in S /\ f[u] <= g[u])
      BY <2>2, <3>1
    <3> HIDE DEF f, g, S
    <3>3. In(f, S) <= In(g, S) /\ In(f, S) \in Nat /\ In(g, S) \in Nat
      BY <3>2, InIsMonotone, InIsNumber
    <3>4. In(g, S) <= FailureLimit(k)
      BY <2>1 DEF g, S
    <3>5. In(f, S) <= FailureLimit(k)
      BY <3>3, <3>4, ConsentNumbers
    <3>6. QED  BY <3>5 DEF f, S
  <2>4. QED  BY <2>1, <2>2, <2>3
<1>3. OrderInv'
  BY <1>2 DEF OrderInv
<1>4. QED  BY <1>1, <1>3 DEF CountInv

(* An attempt is counted under a key that has room.                        *)
LEMMA CountsKeep ==
    ASSUME McpConsentAssumption, ConsentShape, CountInv, NEW k \in Keys, NEW at \in Times,
           ~Locked(k, at), Counts(k, at), wrong' = wrong, failed' = failed,
           attempts' \in [Keys -> [Times -> Nat]],
           \A q \in Keys : Owed(q)' \in [Times -> Nat],
           \A q \in Keys, u \in Times :
              Owed(q)'[u] = Owed(q)[u] + (IF q = k /\ u = at THEN 1 ELSE 0)
    PROVE  CountInv'
<1>0. /\ attempts \in [Keys -> [Times -> Nat]] /\ newest \in [Keys -> Times]
      /\ attempts' = [attempts EXCEPT ![k] = [t \in Times |->
            (IF t \in Recent(k, at) THEN attempts[k][t] ELSE 0) + (IF t = at THEN 1 ELSE 0)]]
      /\ newest' = [newest EXCEPT ![k] = IF at > @ THEN at ELSE @]
      /\ late' = (late \/ at < newest[k]) /\ late \in BOOLEAN
      /\ Times \subseteq Nat /\ \A q : FailureWindow(q) \in Nat \ {0} /\ FailureLimit(q) \in Nat
  <2>1. /\ attempts \in [Keys -> [Times -> Nat]] /\ newest \in [Keys -> Times] /\ late \in BOOLEAN
    BY DEF ConsentShape, ConsentTypes
  <2>2. Times \subseteq Nat
    BY ConsentNumbers DEF Times
  <2>3. \A q : FailureWindow(q) \in Nat \ {0} /\ FailureLimit(q) \in Nat
    BY ConsentNumbers
  <2>4. /\ attempts' = [attempts EXCEPT ![k] = [t \in Times |->
              (IF t \in Recent(k, at) THEN attempts[k][t] ELSE 0) + (IF t = at THEN 1 ELSE 0)]]
        /\ newest' = [newest EXCEPT ![k] = IF at > @ THEN at ELSE @]
        /\ late' = (late \/ at < newest[k])
    BY DEF Counts
  <2>5. QED  BY <2>1, <2>2, <2>3, <2>4
<1>1. /\ \A q \in Keys : Owed(q) \in [Times -> Nat]
      /\ \A u \in Times : attempts'[k][u] =
            (IF u \in Recent(k, at) THEN attempts[k][u] ELSE 0) + (IF u = at THEN 1 ELSE 0)
      /\ \A q \in Keys : q # k => attempts'[q] = attempts[q] /\ newest'[q] = newest[q]
      /\ newest'[k] = IF at > newest[k] THEN at ELSE newest[k]
  <2>1. \A q \in Keys : Owed(q) \in [Times -> Nat]
    BY OwedIs
  <2>2. attempts'[k] = [t \in Times |->
            (IF t \in Recent(k, at) THEN attempts[k][t] ELSE 0) + (IF t = at THEN 1 ELSE 0)]
    BY <1>0
  <2>3. QED  BY <1>0, <2>1, <2>2
<1>2. ExactInv'
  <2>1. ASSUME ~failed, NEW q \in Keys, NEW u \in Times  PROVE attempts'[q][u] <= Owed(q)'[u]
    <3>1. attempts[q][u] <= Owed(q)[u] /\ attempts[q][u] \in Nat /\ Owed(q)[u] \in Nat
      BY <1>0, <1>1, <2>1 DEF CountInv, ExactInv
    <3>2. CASE q = k
      BY <1>1, <3>1, <3>2
    <3>3. CASE q # k
      BY <1>1, <3>1, <3>3
    <3>4. QED  BY <3>2, <3>3
  <2>2. QED  BY <2>1 DEF ExactInv
<1>3. ASSUME ~late', NEW q \in Keys
      PROVE  /\ \A u \in Times : newest'[q] < u + FailureWindow(q) => Owed(q)'[u] <= attempts'[q][u]
             /\ \A u \in Times : Owed(q)'[u] # 0 => u <= newest'[q]
             /\ \A t \in Times : In(Owed(q)', Span(q, t)) <= FailureLimit(q)
  <2>1. /\ \A u \in Times : newest[q] < u + FailureWindow(q) => Owed(q)[u] <= attempts[q][u]
        /\ \A u \in Times : Owed(q)[u] # 0 => u <= newest[q]
        /\ \A t \in Times : In(Owed(q), Span(q, t)) <= FailureLimit(q)
        /\ newest[k] <= at /\ newest[k] \in Nat /\ at \in Nat
    <3>1. ~late /\ ~(at < newest[k])
      BY <1>0, <1>3
    <3>2. newest[k] \in Nat /\ at \in Nat
      BY <1>0
    <3>3. QED  BY <3>1, <3>2 DEF CountInv, OrderInv
  <2>2. CASE q # k
    <3>1. Owed(q)' = Owed(q)
      BY <1>1, <2>2
    <3>2. QED  BY <1>1, <2>1, <2>2, <3>1
  <2>3. CASE q = k
    <3>1. newest'[k] = at
      BY <1>1, <2>1
    <3>2. ASSUME NEW u \in Times, at < u + FailureWindow(k)
          PROVE  Owed(k)'[u] <= attempts'[k][u] /\ u \in Recent(k, at)
      <4>1. u \in Recent(k, at) /\ newest[k] < u + FailureWindow(k) /\ u \in Nat
        BY <1>0, <2>1, <3>2 DEF Recent
      <4>2. Owed(k)[u] <= attempts[k][u] /\ Owed(k)[u] \in Nat /\ attempts[k][u] \in Nat
        BY <1>0, <1>1, <2>1, <2>3, <4>1
      <4>3. QED  BY <1>1, <4>1, <4>2
    <3>3. ASSUME NEW u \in Times, Owed(k)'[u] # 0  PROVE u <= at
      <4>1. u = at \/ Owed(k)[u] # 0
        BY <1>1, <3>3
      <4>2. u \in Nat
        BY <1>0
      <4>3. QED  BY <2>1, <2>3, <4>1, <4>2
    <3>4. ASSUME NEW t \in Times  PROVE In(Owed(k)', Span(k, t)) <= FailureLimit(k)
      <4> DEFINE f == Owed(k)'  g == Owed(k)  h == attempts'[k]  o == attempts[k]
                 S == Span(k, t)  T == Recent(k, at)
      <4>1. /\ f \in [Times -> Nat] /\ g \in [Times -> Nat] /\ h \in [Times -> Nat]
            /\ o \in [Times -> Nat] /\ S \in SUBSET Times /\ T \in SUBSET Times
            /\ at \in Nat /\ t \in Nat
        BY <1>0, <1>1 DEF Span, Recent
      <4>2. CASE at \notin S
        <5>1. \A u \in S : f[u] = 0 \/ (u \in S /\ f[u] <= g[u])
          <6>1. SUFFICES ASSUME NEW u \in S  PROVE f[u] <= g[u]
            BY <6>1
          <6>2. u \in Times /\ u # at
            BY <4>1, <4>2
          <6>3. f[u] = g[u] /\ g[u] \in Nat
            BY <4>1, <6>2
          <6>4. QED  BY <6>3
        <5>2. In(g, S) <= FailureLimit(k)
          BY <2>1, <2>3
        <5> HIDE DEF f, g, S
        <5>3. In(f, S) <= In(g, S) /\ In(f, S) \in Nat /\ In(g, S) \in Nat
          BY <4>1, <5>1, InIsMonotone, InIsNumber
        <5>4. In(f, S) <= FailureLimit(k)
          BY <1>0, <5>2, <5>3
        <5>5. QED  BY <5>4 DEF f, S
      <4>3. CASE at \in S
        <5>1. at < t + FailureWindow(k) /\ at \in T
          BY <1>0, <4>1, <4>3 DEF Span, Recent
        <5>2. ASSUME NEW u \in S  PROVE f[u] = 0 \/ (u \in T /\ f[u] <= h[u])
          <6>1. u \in Times /\ t <= u /\ u \in Nat
            BY <1>0, <5>2 DEF Span
          <6>2. at < u + FailureWindow(k)
            BY <1>0, <4>1, <5>1, <6>1
          <6>3. QED  BY <3>2, <6>1, <6>2
        <5>3. \A u \in T : h[u] = o[u] + (IF u = at THEN 1 ELSE 0)
          BY <1>1, <4>1
        <5>4. ~(In(o, T) >= FailureLimit(k))
          BY DEF Locked
        <5> HIDE DEF f, g, h, o, S, T
        <5>5. In(f, S) <= In(h, T) /\ In(f, S) \in Nat /\ In(h, T) \in Nat /\ In(o, T) \in Nat
          BY <4>1, <5>2, InIsMonotone, InIsNumber
        <5>6. In(h, T) <= In(o, T) + 1
          BY <4>1, <5>1, <5>3, InOneMore
        <5>7. In(f, S) <= FailureLimit(k)
          BY <1>0, <5>4, <5>5, <5>6
        <5>8. QED  BY <5>7 DEF f, S
      <4>4. QED  BY <4>2, <4>3
    <3>5. QED  BY <2>3, <3>1, <3>2, <3>3, <3>4
  <2>4. QED  BY <2>2, <2>3
<1>4. OrderInv'
  BY <1>3 DEF OrderInv
<1>5. QED  BY <1>2, <1>4 DEF CountInv

(* A step that counts nothing, and after which nobody holds more.          *)
LEMMA PlainKeeps ==
    ASSUME McpConsentAssumption, ConsentShape, CountInv, NEW r \in Posts, NEW x \in PostStates,
           post' = [post EXCEPT ![r] = x], UNCHANGED <<attempts, wrong, newest, late>>,
           failed' \in BOOLEAN, failed => failed',
           \A k \in Keys, u \in Times : HoldsMark(x, k, u) => HoldsMark(post[r], k, u),
           ~failed' => \A k \in Keys, u \in Times : HoldsMark(post[r], k, u) => HoldsMark(x, k, u)
    PROVE  CountInv'
<1>0. /\ wrong' \in [Keys -> [Times -> Nat]] /\ wrong \in [Keys -> [Times -> Nat]]
      /\ failed \in BOOLEAN
      /\ attempts \in [Keys -> [Times -> Nat]]
  BY DEF ConsentShape, ConsentTypes
<1>1. ASSUME NEW k \in Keys
      PROVE  Owed(k)' \in [Times -> Nat]
  BY <1>0, OwedMoves
<1>2. ASSUME NEW k \in Keys, NEW u \in Times
      PROVE  /\ Owed(k)'[u] <= Owed(k)[u]
             /\ Owed(k)[u] <= attempts[k][u] => Owed(k)'[u] <= attempts'[k][u]
             /\ ~failed' /\ attempts[k][u] <= Owed(k)[u] => attempts'[k][u] <= Owed(k)'[u]
  <2>1. /\ Owed(k)'[u] \in Nat /\ Owed(k)[u] \in Nat
        /\ Owed(k)'[u] + wrong[k][u] + (IF HoldsMark(post[r], k, u) THEN 1 ELSE 0)
              = Owed(k)[u] + wrong'[k][u] + (IF HoldsMark(x, k, u) THEN 1 ELSE 0)
    <3>1. /\ Owed(k)' \in [Times -> Nat] /\ Owed(k) \in [Times -> Nat]
          /\ \A v \in Times :
                Owed(k)'[v] + wrong[k][v] + (IF HoldsMark(post[r], k, v) THEN 1 ELSE 0)
                   = Owed(k)[v] + wrong'[k][v] + (IF HoldsMark(x, k, v) THEN 1 ELSE 0)
      BY <1>0, OwedMoves
    <3>2. QED  BY <3>1
  <2>2. wrong[k][u] \in Nat /\ wrong'[k][u] = wrong[k][u] /\ attempts[k][u] \in Nat
        /\ attempts'[k][u] = attempts[k][u]
    BY <1>0
  <2>3. QED  BY <2>1, <2>2
<1>3. QED  BY <1>0, <1>1, <1>2, CountKeeps

(* An attempt is given back.                                               *)
LEMMA ReleaseKeeps ==
    ASSUME McpConsentAssumption, ConsentShape, CountInv, NEW r \in Posts, NEW x \in PostStates,
           post' = [post EXCEPT ![r] = x], NEW k \in Keys, NEW at \in Times, Releases(k, at),
           UNCHANGED <<wrong, newest, late, failed>>,
           HoldsMark(post[r], k, at),
           \A q \in Keys, u \in Times :
              HoldsMark(x, q, u) <=> HoldsMark(post[r], q, u) /\ ~(q = k /\ u = at)
    PROVE  CountInv'
<1>0. /\ wrong' \in [Keys -> [Times -> Nat]] /\ wrong \in [Keys -> [Times -> Nat]]
      /\ failed \in BOOLEAN
      /\ attempts \in [Keys -> [Times -> Nat]]
      /\ attempts' = [attempts EXCEPT ![k][at] = IF @ = 0 THEN 0 ELSE @ - 1]
  BY DEF ConsentShape, ConsentTypes, Releases
<1>1. ASSUME NEW q \in Keys
      PROVE  Owed(q)' \in [Times -> Nat]
  <2>1. wrong' \in [Keys -> [Times -> Nat]]
    BY <1>0
  <2>2. QED  BY <2>1, OwedMoves
<1>2. ASSUME NEW q \in Keys, NEW u \in Times
      PROVE  /\ Owed(q)'[u] <= Owed(q)[u]
             /\ Owed(q)[u] <= attempts[q][u] => Owed(q)'[u] <= attempts'[q][u]
             /\ ~failed' /\ attempts[q][u] <= Owed(q)[u] => attempts'[q][u] <= Owed(q)'[u]
  <2>1. /\ Owed(q)'[u] \in Nat /\ Owed(q)[u] \in Nat
        /\ Owed(q)'[u] + wrong[q][u] + (IF HoldsMark(post[r], q, u) THEN 1 ELSE 0)
              = Owed(q)[u] + wrong'[q][u] + (IF HoldsMark(x, q, u) THEN 1 ELSE 0)
        /\ HoldsMark(post[r], q, u) => Owed(q)[u] >= 1
    <3>1. wrong' \in [Keys -> [Times -> Nat]]
      BY <1>0
    <3>2. QED  BY <3>1, OwedAt
  <2>2. wrong[q][u] \in Nat /\ wrong'[q][u] = wrong[q][u] /\ attempts[q][u] \in Nat
    BY <1>0
  <2>3. /\ HoldsMark(post[r], k, at)
        /\ HoldsMark(x, q, u) <=> HoldsMark(post[r], q, u) /\ ~(q = k /\ u = at)
    OBVIOUS
  <2>4. CASE q = k /\ u = at
    <3>1. attempts'[q][u] = IF attempts[q][u] = 0 THEN 0 ELSE attempts[q][u] - 1
      BY <1>0, <2>4
    <3>2. HoldsMark(post[r], q, u) /\ ~HoldsMark(x, q, u)
      BY <2>3, <2>4
    <3>3. Owed(q)'[u] + 1 = Owed(q)[u]
      BY <2>1, <2>2, <3>2
    <3>4. QED  BY <2>1, <2>2, <3>1, <3>3
  <2>5. CASE ~(q = k /\ u = at)
    <3>1. attempts'[q][u] = attempts[q][u]
      BY <1>0, <2>5
    <3>2. Owed(q)'[u] = Owed(q)[u]
      BY <2>1, <2>2, <2>3, <2>5
    <3>3. QED  BY <2>1, <2>2, <3>1, <3>2
  <2>6. QED  BY <2>4, <2>5
<1>3. QED  BY <1>0, <1>1, <1>2, CountKeeps

----------------------------------------------------------------------------
(* What the kinds of steps keep.                                           *)

LEMMA HoldsIs ==
    ASSUME McpConsentAssumption, NEW x \in PostRecords, NEW k \in Keys, NEW u \in Times
    PROVE  HoldsMark(x, k, u) <=>
              /\ u = x.at
              /\ \/ k = Total /\ x.stage \in {"hashes", "forgives", "forgives all"}
                 \/ k = x.address /\ x.stage \in {"total", "uncounts", "hashes", "forgives"}
<1>1. x # NoPost /\ x.address \in Addresses
  BY StagesOf
<1>2. x.address # Total
  BY <1>1, ConsentNumbers
<1>3. QED  BY <1>1, <1>2 DEF HoldsMark, HoldStages

LEMMA HoldsNot ==
    ASSUME NEW k, NEW u
    PROVE  ~HoldsMark(NoPost, k, u)
BY DEF HoldsMark

(* A request whose stage alone changes.                                    *)
LEMMA GoesTo ==
    ASSUME ConsentShape, NEW r \in Posts, post[r].stage \in PostStages,
           NEW stage \in PostStages, Goes(r, stage)
    PROVE  /\ post[r] \in PostRecords /\ post[r] # NoPost
           /\ \E x \in PostRecords :
                 /\ post' = [post EXCEPT ![r] = x]
                 /\ x = [post[r] EXCEPT !.stage = stage]
                 /\ x.stage = stage /\ x.consent = post[r].consent /\ x.at = post[r].at
                 /\ x.address = post[r].address /\ x.pays = post[r].pays
<1>1. post[r] \in PostRecords /\ post[r] # NoPost /\ post \in [Posts -> PostStates]
  BY StagesOf DEF ConsentShape, ConsentTypes
<1> DEFINE x == [post[r] EXCEPT !.stage = stage]
<1>2. /\ x \in PostRecords
      /\ x.stage = stage /\ x.consent = post[r].consent /\ x.at = post[r].at
      /\ x.address = post[r].address /\ x.pays = post[r].pays
  BY <1>1 DEF PostRecords
<1>3. post' = [post EXCEPT ![r] = x]
  BY <1>1 DEF Goes
<1>4. QED  BY <1>1, <1>2, <1>3

(* The bounds, when nothing is counted.                                    *)
LEMMA QuietBound ==
    ASSUME McpConsentAssumption, ConsentShape, NEW r \in Posts, NEW x \in PostStates,
           post' = [post EXCEPT ![r] = x],
           attempts' \in [Keys -> [Times -> Nat]],
           \A k \in Keys, t \in Times : attempts'[k][t] <= attempts[k][t],
           UNCHANGED <<wrong, codes, posts>>,
           x.stage \in Asking => post[r].stage \in Asking,
           x.stage = "total" => post[r].stage \in Asking \cup {"total"},
           x.stage \in Undecided => post[r].stage \in Undecided,
           x.stage \in PostStages => post[r].stage \in PostStages
    PROVE  BoundInv'
<1>1. /\ attempts \in [Keys -> [Times -> Nat]] /\ wrong \in [Keys -> [Times -> Nat]]
      /\ codes \in [Consents -> Nat] /\ posts \in Nat /\ post'[r] = x
  BY DEF ConsentShape, ConsentTypes
<1>2. \A k \in Keys : r \in Uncounted(k)' => r \in Uncounted(k)
  BY <1>1 DEF Uncounted
<1>3. (r \in Undone' => r \in Undone) /\ (r \in Under' => r \in Under)
  BY <1>1 DEF Undone, Under
<1>4. ASSUME NEW k \in Keys, NEW t \in Times
      PROVE  /\ attempts'[k][t] + (IF r \in Uncounted(k)' THEN 1 ELSE 0) + posts
                   <= attempts[k][t] + (IF r \in Uncounted(k) THEN 1 ELSE 0) + posts'
             /\ wrong'[k][t] + (IF r \in Undone' THEN 1 ELSE 0) + posts
                   <= wrong[k][t] + (IF r \in Undone THEN 1 ELSE 0) + posts'
  <2>1. attempts'[k][t] \in Nat /\ attempts[k][t] \in Nat /\ attempts'[k][t] <= attempts[k][t]
        /\ wrong[k][t] \in Nat /\ wrong'[k][t] = wrong[k][t] /\ posts' = posts
    BY <1>1
  <2>2. QED  BY <1>1, <1>2, <1>3, <2>1
<1>5. ASSUME NEW p \in Consents
      PROVE  codes'[p] + (IF r \in Under' THEN 1 ELSE 0) + posts
                <= codes[p] + (IF r \in Under THEN 1 ELSE 0) + posts'
  <2>1. codes[p] \in Nat /\ codes'[p] = codes[p] /\ posts' = posts
    BY <1>1
  <2>2. QED  BY <1>1, <1>3, <2>1
<1>6. posts' \in Nat /\ posts <= posts' /\ wrong' \in [Keys -> [Times -> Nat]]
      /\ codes' \in [Consents -> Nat]
  BY <1>1
<1>7. QED  BY <1>4, <1>5, <1>6, BoundKeeps

(* Who has the consents, when a request moves on and decides nothing.      *)
LEMMA QuietKeeps ==
    ASSUME McpConsentAssumption, ConsentShape, ConsentInv, CodeInv,
           NEW r \in Posts, NEW x \in PostRecords, post[r] # NoPost,
           post' = [post EXCEPT ![r] = x], x.consent = post[r].consent,
           x.pays => post[r].pays /\ x.stage = "approves",
           approval' \in BOOLEAN, approval' => approval,
           UNCHANGED <<pending, codes, spent>>
    PROVE  ConsentInv' /\ CodeInv' /\ post' \in [Posts -> PostStates]
<1>1. /\ post' \in [Posts -> PostStates] /\ x # NoPost /\ post'[r] = x
      /\ \A q \in Posts : q # r => post'[q] = post[q]
  BY StagesOf DEF ConsentShape, ConsentTypes, PostStates
<1>2. /\ \A q \in Posts, p \in Consents : Handles(post'[q], p) => Handles(post[q], p)
      /\ \A q \in Posts : Pays(post'[q]) => Pays(post[q]) /\ post'[q].stage = "approves"
  BY <1>1 DEF Handles, Pays, CodeInv
<1>3. ConsentInv'
  BY <1>2 DEF ConsentInv
<1>4. CodeInv'
  BY <1>2 DEF CodeInv
<1>5. QED  BY <1>1, <1>3, <1>4

(* The same when the request is over and its consent goes nowhere.         *)
LEMMA OverKeeps ==
    ASSUME McpConsentAssumption, ConsentShape, ConsentInv, CodeInv,
           NEW r \in Posts, Ends(r)
    PROVE  /\ post' = [post EXCEPT ![r] = NoPost] /\ post' \in [Posts -> PostStates]
           /\ post'[r] = NoPost /\ \A q \in Posts : q # r => post'[q] = post[q]
           /\ NoPost \in PostStates /\ NoPost.stage = "idle"
           /\ \A q \in Posts, p \in Consents : Handles(post'[q], p) => q # r /\ Handles(post[q], p)
           /\ \A q \in Posts : Pays(post'[q]) => q # r /\ Pays(post[q]) /\ post'[q] = post[q]
<1>1. /\ post' = [post EXCEPT ![r] = NoPost] /\ post \in [Posts -> PostStates]
      /\ NoPost \in PostStates /\ NoPost.stage = "idle"
  BY StagesOf DEF ConsentShape, ConsentTypes, PostStates, Ends
<1>2. /\ post' \in [Posts -> PostStates]
      /\ post'[r] = NoPost /\ \A q \in Posts : q # r => post'[q] = post[q]
  BY <1>1
<1>3. QED  BY <1>1, <1>2 DEF Handles, Pays

(* A step of the clock or of the stores leaves the counts alone.           *)
LEMMA StillKeeps ==
    ASSUME ConsentShape, CountInv,
           UNCHANGED <<attempts, post, codes, wrong, newest, late, failed, posts>>
    PROVE  BoundInv' /\ CountInv'
<1>1. BoundInv'
  BY DEF ConsentShape, BoundInv, Under, Undone, Uncounted
<1>2. \A k : Owed(k)' = Owed(k)
  BY DEF Owed, Holders
<1>3. CountInv'
  BY <1>2 DEF CountInv, OrderInv, ExactInv
<1>4. QED  BY <1>1, <1>3

LEMMA ConsentMoves ==
    ASSUME McpConsentAssumption, ConsentIInv, NEW r \in Posts, NEW x \in PostRecords,
           post[r] # NoPost, post' = [post EXCEPT ![r] = x], x.consent = post[r].consent,
           x.pays => post[r].pays /\ x.stage = "approves",
           approval' \in BOOLEAN, approval' => approval, late' \in BOOLEAN, failed' \in BOOLEAN,
           attempts' \in [Keys -> [Times -> Nat]], wrong' \in [Keys -> [Times -> Nat]],
           newest' \in [Keys -> Times],
           UNCHANGED <<clock, pending, codes, spent, posts>>, BoundInv', CountInv'
    PROVE  ConsentIInv'
<1>1. ConsentInv' /\ CodeInv' /\ post' \in [Posts -> PostStates]
  BY QuietKeeps DEF ConsentIInv
<1>2. ConsentTypes'
  BY <1>1 DEF ConsentIInv, ConsentShape, ConsentTypes
<1>3. QED  BY <1>1, <1>2 DEF ConsentIInv, ConsentShape

LEMMA PlainStep ==
    ASSUME McpConsentAssumption, ConsentIInv, NEW r \in Posts, NEW x \in PostRecords,
           post[r] # NoPost, post' = [post EXCEPT ![r] = x], x.consent = post[r].consent,
           x.pays => post[r].pays /\ x.stage = "approves",
           approval' \in BOOLEAN, approval' => approval, failed' \in BOOLEAN, failed => failed',
           UNCHANGED <<clock, pending, attempts, codes, spent, wrong, newest, late, posts>>,
           x.stage \in Asking => post[r].stage \in Asking,
           x.stage = "total" => post[r].stage \in Asking \cup {"total"},
           x.stage \in Undecided => post[r].stage \in Undecided,
           x.stage \in PostStages => post[r].stage \in PostStages,
           \A k \in Keys, u \in Times : HoldsMark(x, k, u) => HoldsMark(post[r], k, u),
           ~failed' => \A k \in Keys, u \in Times : HoldsMark(post[r], k, u) => HoldsMark(x, k, u)
    PROVE  ConsentIInv'
<1>1. /\ ConsentShape /\ CountInv /\ x \in PostStates
      /\ attempts \in [Keys -> [Times -> Nat]] /\ wrong \in [Keys -> [Times -> Nat]]
      /\ newest \in [Keys -> Times] /\ late \in BOOLEAN
  BY DEF ConsentIInv, ConsentShape, ConsentTypes, PostStates
<1>2. \A k \in Keys, t \in Times : attempts'[k][t] <= attempts[k][t]
  BY <1>1
<1>3. BoundInv'
  BY <1>1, <1>2, QuietBound
<1>4. CountInv'
  BY <1>1, PlainKeeps
<1>5. QED  BY <1>1, <1>3, <1>4, ConsentMoves

LEMMA StagesAre ==
    /\ Asking = {"code", "reads", "address"}
    /\ Undecided = {"code", "reads", "address", "total", "uncounts", "hashes", "forgives",
                    "forgives all"}
    /\ PostStages = {"code", "reads", "address", "total", "uncounts", "hashes", "forgives",
                     "forgives all", "refuses", "approves"}
BY DEF Asking, Undecided, PostStages

LEMMA PostIs ==
    ASSUME ConsentShape, NEW r \in Posts, post[r].stage \in PostStages
    PROVE  /\ post[r] \in PostRecords /\ post[r] # NoPost /\ post[r].at \in Times
           /\ post[r].address \in Addresses /\ post[r].address \in Keys
           /\ post[r].consent \in Consents /\ post[r].pays \in BOOLEAN
BY StagesOf, KeysOf DEF ConsentShape, ConsentTypes

(* A request that goes on and holds what it held, or drops it as the store *)
(* gives up.                                                               *)
LEMMA GoesKeeps ==
    ASSUME McpConsentAssumption, ConsentIInv, NEW r \in Posts, NEW s \in PostStages,
           NEW t \in PostStages,
           post[r].stage = s, Goes(r, t), failed' \in BOOLEAN, failed => failed',
           approval' \in BOOLEAN, approval' => approval,
           UNCHANGED <<clock, pending, attempts, codes, spent, wrong, newest, late, posts>>,
           \/ s = "code" /\ t = "reads"
           \/ s = "address" /\ t = "refuses"
           \/ s = "total" /\ t = "uncounts"
           \/ s = "hashes" /\ t = "forgives"
           \/ failed' /\ s = "uncounts" /\ t = "refuses"
           \/ failed' /\ s = "forgives" /\ t = "forgives all"
           \/ failed' /\ s = "forgives all" /\ t = "approves"
    PROVE  ConsentIInv'
<1>1. ConsentShape /\ CodeInv
  BY DEF ConsentIInv
<1>2. PICK x \in PostRecords :
         /\ post' = [post EXCEPT ![r] = x]
         /\ x.stage = t /\ x.consent = post[r].consent /\ x.at = post[r].at
         /\ x.address = post[r].address /\ x.pays = post[r].pays
  <2>1. post[r].stage \in PostStages /\ ConsentShape
    BY <1>1
  <2>2. \E x \in PostRecords :
           /\ post' = [post EXCEPT ![r] = x]
           /\ x = [post[r] EXCEPT !.stage = t]
           /\ x.stage = t /\ x.consent = post[r].consent /\ x.at = post[r].at
           /\ x.address = post[r].address /\ x.pays = post[r].pays
    BY <2>1, GoesTo
  <2>3. QED  BY <2>2
<1>3. post[r] \in PostRecords /\ post[r] # NoPost /\ post[r].address \in Addresses
  BY <1>1, PostIs
<1>4. ~x.pays
  BY <1>1, <1>2, <1>3 DEF CodeInv, Pays
<1>5. post[r].address # Total
  BY <1>3, ConsentNumbers
<1>6. \A k \in Keys, u \in Times :
         /\ HoldsMark(x, k, u) => HoldsMark(post[r], k, u)
         /\ ~failed' => (HoldsMark(post[r], k, u) => HoldsMark(x, k, u))
  <2>1. x \in PostRecords
    BY <1>2
  <2>2. ASSUME NEW k \in Keys, NEW u \in Times
        PROVE  /\ HoldsMark(x, k, u) => HoldsMark(post[r], k, u)
               /\ ~failed' => (HoldsMark(post[r], k, u) => HoldsMark(x, k, u))
    <3>1. HoldsMark(x, k, u) <=>
             /\ u = x.at
             /\ \/ k = Total /\ x.stage \in {"hashes", "forgives", "forgives all"}
                \/ k = x.address /\ x.stage \in {"total", "uncounts", "hashes", "forgives"}
      BY <2>1, HoldsIs
    <3>2. HoldsMark(post[r], k, u) <=>
             /\ u = post[r].at
             /\ \/ k = Total /\ post[r].stage \in {"hashes", "forgives", "forgives all"}
                \/ k = post[r].address /\ post[r].stage \in {"total", "uncounts", "hashes", "forgives"}
      BY <1>3, HoldsIs
    <3>3. QED  BY <3>1, <3>2, <1>1, <1>2, <1>5
  <2>3. QED  BY <2>2
<1>7. /\ x.stage \in Asking => post[r].stage \in Asking
      /\ x.stage = "total" => post[r].stage \in Asking \cup {"total"}
      /\ x.stage \in Undecided => post[r].stage \in Undecided
      /\ x.stage \in PostStages => post[r].stage \in PostStages
  BY <1>2, StagesAre
<1>8. QED  BY <1>2, <1>3, <1>4, <1>6, <1>7, PlainStep

(* An attempt given back leaves the other counts as they are.              *)
LEMMA ReleasesLowers ==
    ASSUME ConsentTypes, NEW k \in Keys, NEW at \in Times, Releases(k, at)
    PROVE  /\ attempts' \in [Keys -> [Times -> Nat]]
           /\ \A q \in Keys, u \in Times : attempts'[q][u] <= attempts[q][u]
<1>1. attempts \in [Keys -> [Times -> Nat]] /\ attempts[k][at] \in Nat
  BY DEF ConsentTypes
<1>2. \E n \in Nat : n = (IF attempts[k][at] = 0 THEN 0 ELSE attempts[k][at] - 1)
                   /\ n <= attempts[k][at]
  <2>1. \A m \in Nat : \E n \in Nat : n = (IF m = 0 THEN 0 ELSE m - 1) /\ n <= m
    OBVIOUS
  <2>2. QED  BY <1>1, <2>1
<1>3. PICK n \in Nat : n = (IF attempts[k][at] = 0 THEN 0 ELSE attempts[k][at] - 1)
                     /\ n <= attempts[k][at]
  BY <1>2
<1>4. attempts' = [attempts EXCEPT ![k] = [attempts[k] EXCEPT ![at] = n]]
  BY <1>1, <1>3 DEF Releases
<1>5. attempts' \in [Keys -> [Times -> Nat]]
  BY <1>1, <1>4
<1>6. ASSUME NEW q \in Keys, NEW u \in Times  PROVE attempts'[q][u] <= attempts[q][u]
  <2>1. CASE q = k /\ u = at
    BY <1>1, <1>3, <1>4, <2>1
  <2>2. CASE ~(q = k /\ u = at)
    <3>1. attempts'[q][u] = attempts[q][u] /\ attempts[q][u] \in Nat
      BY <1>1, <1>4, <2>2
    <3>2. QED  BY <3>1
  <2>3. QED  BY <2>1, <2>2
<1>7. QED  BY <1>5, <1>6

(* A request that gives back an attempt.                                   *)
LEMMA ReleasesKeeps ==
    ASSUME McpConsentAssumption, ConsentIInv, NEW r \in Posts, NEW s \in PostStages,
           NEW t \in PostStages,
           post[r].stage = s, Goes(r, t), NEW k \in Keys, Releases(k, post[r].at),
           UNCHANGED <<clock, pending, approval, codes, spent, wrong, newest, late, failed, posts>>,
           \/ s = "uncounts" /\ t = "refuses" /\ k = post[r].address
           \/ s = "forgives" /\ t = "forgives all" /\ k = post[r].address
           \/ s = "forgives all" /\ t = "approves" /\ k = Total
    PROVE  ConsentIInv'
<1>1. /\ ConsentShape /\ CodeInv /\ CountInv
      /\ attempts \in [Keys -> [Times -> Nat]] /\ wrong \in [Keys -> [Times -> Nat]]
      /\ newest \in [Keys -> Times] /\ late \in BOOLEAN /\ failed \in BOOLEAN
      /\ approval \in BOOLEAN
  BY DEF ConsentIInv, ConsentShape, ConsentTypes
<1>2. PICK x \in PostRecords :
         /\ post' = [post EXCEPT ![r] = x]
         /\ x.stage = t /\ x.consent = post[r].consent /\ x.at = post[r].at
         /\ x.address = post[r].address /\ x.pays = post[r].pays
  <2>1. post[r].stage \in PostStages /\ ConsentShape
    BY <1>1
  <2>2. \E x \in PostRecords :
           /\ post' = [post EXCEPT ![r] = x]
           /\ x = [post[r] EXCEPT !.stage = t]
           /\ x.stage = t /\ x.consent = post[r].consent /\ x.at = post[r].at
           /\ x.address = post[r].address /\ x.pays = post[r].pays
    BY <2>1, GoesTo
  <2>3. QED  BY <2>2
<1>3. /\ post[r] \in PostRecords /\ post[r] # NoPost /\ post[r].address \in Addresses
      /\ post[r].at \in Times /\ x \in PostStates
  BY <1>1, PostIs DEF PostStates
<1>4. ~x.pays
  BY <1>1, <1>2, <1>3 DEF CodeInv, Pays
<1>5. post[r].address # Total
  BY <1>3, ConsentNumbers
<1>6. \A q \in Keys, u \in Times :
         /\ HoldsMark(x, q, u) => HoldsMark(post[r], q, u)
         /\ HoldsMark(post[r], q, u) => HoldsMark(x, q, u) \/ (q = k /\ u = post[r].at)
         /\ ~(HoldsMark(x, q, u) /\ q = k /\ u = post[r].at)
         /\ q = k /\ u = post[r].at => HoldsMark(post[r], q, u)
  BY <1>2, <1>3, <1>5, HoldsIs
<1>7. /\ HoldsMark(post[r], k, post[r].at)
      /\ \A q \in Keys, u \in Times :
            HoldsMark(x, q, u) <=> HoldsMark(post[r], q, u) /\ ~(q = k /\ u = post[r].at)
  BY <1>3, <1>6
<1>8. CountInv'
  BY <1>1, <1>2, <1>3, <1>7, ReleaseKeeps
<1>9. /\ attempts' \in [Keys -> [Times -> Nat]]
      /\ \A q \in Keys, u \in Times : attempts'[q][u] <= attempts[q][u]
  BY <1>1, <1>3, ReleasesLowers DEF ConsentShape
<1>10. BoundInv'
  <2>1. /\ x.stage \in Asking => post[r].stage \in Asking
        /\ x.stage = "total" => post[r].stage \in Asking \cup {"total"}
        /\ x.stage \in Undecided => post[r].stage \in Undecided
        /\ x.stage \in PostStages => post[r].stage \in PostStages
    BY <1>2, StagesAre
  <2>2. QED  BY <1>1, <1>2, <1>3, <1>9, <2>1, QuietBound
<1>11. QED  BY <1>1, <1>2, <1>3, <1>4, <1>8, <1>9, <1>10, ConsentMoves

(* What counting an attempt does to the counts.                            *)
CountedOnce(k, at) ==
    /\ attempts' \in [Keys -> [Times -> Nat]]
    /\ \A q \in Keys, u \in Times :
          attempts'[q][u] <= attempts[q][u] + (IF q = k THEN 1 ELSE 0)

LEMMA CountsOnce ==
    ASSUME ConsentTypes, NEW k \in Keys, NEW at \in Times, Counts(k, at)
    PROVE  CountedOnce(k, at)
<1> DEFINE f == [t \in Times |->
                   (IF t \in Recent(k, at) THEN attempts[k][t] ELSE 0) + (IF t = at THEN 1 ELSE 0)]
<1>1. attempts \in [Keys -> [Times -> Nat]] /\ attempts' = [attempts EXCEPT ![k] = f]
  BY DEF ConsentTypes, Counts
<1>2. f \in [Times -> Nat] /\ \A u \in Times : f[u] <= attempts[k][u] + 1
  <2>1. attempts[k] \in [Times -> Nat]
    BY <1>1
  <2>2. QED  BY <2>1
<1> HIDE DEF f
<1>3. attempts' \in [Keys -> [Times -> Nat]]
  BY <1>1, <1>2
<1>4. ASSUME NEW q \in Keys, NEW u \in Times
      PROVE  attempts'[q][u] <= attempts[q][u] + (IF q = k THEN 1 ELSE 0)
  <2>1. CASE q = k
    BY <1>1, <1>2, <2>1
  <2>2. CASE q # k
    <3>1. attempts'[q][u] = attempts[q][u] /\ attempts[q][u] \in Nat
      BY <1>1, <2>2
    <3>2. QED  BY <2>2, <3>1
  <2>3. QED  BY <2>1, <2>2
<1>5. QED  BY <1>3, <1>4 DEF CountedOnce

LEMMA CountedBound ==
    ASSUME McpConsentAssumption, ConsentShape, NEW r \in Posts, NEW x \in PostStates,
           post' = [post EXCEPT ![r] = x], NEW k \in Keys, NEW at, CountedOnce(k, at),
           UNCHANGED <<wrong, codes, posts>>,
           r \in Uncounted(k), r \notin Uncounted(k)',
           \A q \in Keys : r \in Uncounted(q)' => r \in Uncounted(q),
           r \in Undone, r \in Under
    PROVE  BoundInv'
<1>1. /\ attempts \in [Keys -> [Times -> Nat]] /\ wrong \in [Keys -> [Times -> Nat]]
      /\ codes \in [Consents -> Nat] /\ posts \in Nat
      /\ attempts' \in [Keys -> [Times -> Nat]]
  BY DEF ConsentShape, ConsentTypes, CountedOnce
<1>2. ASSUME NEW q \in Keys, NEW t \in Times
      PROVE  /\ attempts'[q][t] + (IF r \in Uncounted(q)' THEN 1 ELSE 0) + posts
                   <= attempts[q][t] + (IF r \in Uncounted(q) THEN 1 ELSE 0) + posts'
             /\ wrong'[q][t] + (IF r \in Undone' THEN 1 ELSE 0) + posts
                   <= wrong[q][t] + (IF r \in Undone THEN 1 ELSE 0) + posts'
  <2>1. /\ attempts'[q][t] \in Nat /\ attempts[q][t] \in Nat
        /\ attempts'[q][t] <= attempts[q][t] + (IF q = k THEN 1 ELSE 0)
        /\ wrong'[q][t] = wrong[q][t] /\ wrong[q][t] \in Nat /\ posts' = posts
    BY <1>1 DEF CountedOnce
  <2>2. CASE q = k
    BY <1>1, <2>1, <2>2
  <2>3. CASE q # k
    BY <1>1, <2>1, <2>3
  <2>4. QED  BY <2>2, <2>3
<1>3. ASSUME NEW c \in Consents
      PROVE  codes'[c] + (IF r \in Under' THEN 1 ELSE 0) + posts
                <= codes[c] + (IF r \in Under THEN 1 ELSE 0) + posts'
  <2>1. codes'[c] = codes[c] /\ codes[c] \in Nat /\ posts' = posts
    BY <1>1
  <2>2. QED  BY <1>1, <2>1
<1>4. posts' \in Nat /\ posts <= posts' /\ wrong' \in [Keys -> [Times -> Nat]]
      /\ codes' \in [Consents -> Nat]
  BY <1>1
<1>5. QED  BY <1>1, <1>2, <1>3, <1>4, BoundKeeps

(* One request holds one attempt more, in the stage x after the stage y.   *)
OneMoreHeld(x, y, k, at) ==
    /\ HoldsMark(x, k, at) /\ ~HoldsMark(y, k, at)
    /\ \A q \in Keys, u \in Times :
          ~(q = k /\ u = at) => (HoldsMark(x, q, u) <=> HoldsMark(y, q, u))

LEMMA CountedCount ==
    ASSUME McpConsentAssumption, ConsentShape, CountInv, NEW r \in Posts, NEW x \in PostStates,
           post' = [post EXCEPT ![r] = x], NEW k \in Keys, NEW at \in Times,
           ~Locked(k, at), Counts(k, at), UNCHANGED <<wrong, failed>>,
           attempts' \in [Keys -> [Times -> Nat]],
           OneMoreHeld(x, post[r], k, at)
    PROVE  CountInv'
<1>0. wrong' \in [Keys -> [Times -> Nat]] /\ wrong \in [Keys -> [Times -> Nat]]
  BY DEF ConsentShape, ConsentTypes
<1>1. \A q \in Keys : Owed(q)' \in [Times -> Nat]
  BY <1>0, OwedMoves
<1>2. ASSUME NEW q \in Keys, NEW u \in Times
      PROVE  Owed(q)'[u] = Owed(q)[u] + (IF q = k /\ u = at THEN 1 ELSE 0)
  <2>1. /\ Owed(q)'[u] \in Nat /\ Owed(q)[u] \in Nat
        /\ Owed(q)'[u] + wrong[q][u] + (IF HoldsMark(post[r], q, u) THEN 1 ELSE 0)
              = Owed(q)[u] + wrong'[q][u] + (IF HoldsMark(x, q, u) THEN 1 ELSE 0)
    <3>1. /\ Owed(q)' \in [Times -> Nat] /\ Owed(q) \in [Times -> Nat]
          /\ \A v \in Times :
                Owed(q)'[v] + wrong[q][v] + (IF HoldsMark(post[r], q, v) THEN 1 ELSE 0)
                   = Owed(q)[v] + wrong'[q][v] + (IF HoldsMark(x, q, v) THEN 1 ELSE 0)
      BY <1>0, OwedMoves
    <3>2. QED  BY <3>1
  <2>2. wrong[q][u] \in Nat /\ wrong'[q][u] = wrong[q][u]
    BY <1>0
  <2>3. CASE q = k /\ u = at
    <3>1. HoldsMark(x, q, u) /\ ~HoldsMark(post[r], q, u)
      BY <2>3 DEF OneMoreHeld
    <3>2. QED  BY <2>1, <2>2, <2>3, <3>1
  <2>4. CASE ~(q = k /\ u = at)
    <3>1. HoldsMark(x, q, u) <=> HoldsMark(post[r], q, u)
      BY <2>4 DEF OneMoreHeld
    <3>2. QED  BY <2>1, <2>2, <2>4, <3>1
  <2>5. QED  BY <2>3, <2>4
<1>3. QED  BY <1>1, <1>2, CountsKeep

(* What a wrong password does to the history of the wrong ones.            *)
WrongOnce(a, at) ==
    /\ wrong' \in [Keys -> [Times -> Nat]]
    /\ \A q \in Keys, u \in Times :
          wrong'[q][u] = wrong[q][u] + (IF q \in {a, Total} /\ u = at THEN 1 ELSE 0)

WrongHeld(x, y, a, at) ==
    \A q \in Keys, u \in Times :
        ~HoldsMark(x, q, u) /\ (HoldsMark(y, q, u) <=> q \in {a, Total} /\ u = at)

LEMMA WrongsOnce ==
    ASSUME ConsentTypes, NEW a \in Keys, a # Total, NEW at \in Times,
           wrong' = [wrong EXCEPT ![a][at] = @ + 1, ![Total][at] = @ + 1]
    PROVE  WrongOnce(a, at)
<1>1. wrong \in [Keys -> [Times -> Nat]] /\ Total \in Keys
  BY KeysOf DEF ConsentTypes
<1> DEFINE f == [wrong[a] EXCEPT ![at] = @ + 1]  g == [wrong[Total] EXCEPT ![at] = @ + 1]
<1>2. /\ f \in [Times -> Nat] /\ g \in [Times -> Nat]
      /\ \A u \in Times : f[u] = wrong[a][u] + (IF u = at THEN 1 ELSE 0)
      /\ \A u \in Times : g[u] = wrong[Total][u] + (IF u = at THEN 1 ELSE 0)
  <2>1. wrong[a] \in [Times -> Nat] /\ wrong[Total] \in [Times -> Nat]
    BY <1>1
  <2>2. QED  BY <2>1
<1>3. wrong' = [wrong EXCEPT ![a] = f, ![Total] = g]
  BY <1>1
<1> HIDE DEF f, g
<1>4. wrong' \in [Keys -> [Times -> Nat]]
  BY <1>1, <1>2, <1>3
<1>5. ASSUME NEW q \in Keys, NEW u \in Times
      PROVE  wrong'[q][u] = wrong[q][u] + (IF q \in {a, Total} /\ u = at THEN 1 ELSE 0)
  <2>1. CASE q = a
    BY <1>1, <1>2, <1>3, <2>1
  <2>2. CASE q = Total
    BY <1>1, <1>2, <1>3, <2>2
  <2>3. CASE q \notin {a, Total}
    <3>1. wrong'[q][u] = wrong[q][u] /\ wrong[q][u] \in Nat
      BY <1>1, <1>3, <2>3
    <3>2. QED  BY <2>3, <3>1
  <2>4. QED  BY <2>1, <2>2, <2>3
<1>6. QED  BY <1>4, <1>5 DEF WrongOnce

LEMMA WrongBound ==
    ASSUME McpConsentAssumption, ConsentShape, NEW r \in Posts, NEW x \in PostStates,
           post' = [post EXCEPT ![r] = x], NEW a, NEW at, WrongOnce(a, at),
           UNCHANGED <<attempts, codes, posts>>,
           r \in Undone, r \notin Undone', r \in Under,
           \A q \in Keys : r \notin Uncounted(q)'
    PROVE  BoundInv'
<1>1. /\ attempts \in [Keys -> [Times -> Nat]] /\ wrong \in [Keys -> [Times -> Nat]]
      /\ codes \in [Consents -> Nat] /\ posts \in Nat
      /\ wrong' \in [Keys -> [Times -> Nat]]
  BY DEF ConsentShape, ConsentTypes, WrongOnce
<1>2. ASSUME NEW q \in Keys, NEW t \in Times
      PROVE  /\ attempts'[q][t] + (IF r \in Uncounted(q)' THEN 1 ELSE 0) + posts
                   <= attempts[q][t] + (IF r \in Uncounted(q) THEN 1 ELSE 0) + posts'
             /\ wrong'[q][t] + (IF r \in Undone' THEN 1 ELSE 0) + posts
                   <= wrong[q][t] + (IF r \in Undone THEN 1 ELSE 0) + posts'
  <2>1. /\ attempts'[q][t] = attempts[q][t] /\ attempts[q][t] \in Nat /\ posts' = posts
        /\ wrong[q][t] \in Nat /\ wrong'[q][t] \in Nat
        /\ wrong'[q][t] = wrong[q][t] + (IF q \in {a, Total} /\ t = at THEN 1 ELSE 0)
    BY <1>1 DEF WrongOnce
  <2>2. wrong'[q][t] <= wrong[q][t] + 1
    BY <2>1
  <2>3. QED  BY <1>1, <2>1, <2>2
<1>3. ASSUME NEW c \in Consents
      PROVE  codes'[c] + (IF r \in Under' THEN 1 ELSE 0) + posts
                <= codes[c] + (IF r \in Under THEN 1 ELSE 0) + posts'
  <2>1. codes'[c] = codes[c] /\ codes[c] \in Nat /\ posts' = posts
    BY <1>1
  <2>2. QED  BY <1>1, <2>1
<1>4. posts' \in Nat /\ posts <= posts' /\ attempts' \in [Keys -> [Times -> Nat]]
      /\ codes' \in [Consents -> Nat]
  BY <1>1
<1>5. QED  BY <1>1, <1>2, <1>3, <1>4, BoundKeeps

LEMMA WrongCount ==
    ASSUME McpConsentAssumption, ConsentShape, CountInv, NEW r \in Posts, NEW x \in PostStates,
           post' = [post EXCEPT ![r] = x], NEW a \in Addresses, NEW at \in Times,
           WrongOnce(a, at), WrongHeld(x, post[r], a, at),
           UNCHANGED <<attempts, newest, late, failed>>
    PROVE  CountInv'
<1>0. /\ wrong' \in [Keys -> [Times -> Nat]] /\ wrong \in [Keys -> [Times -> Nat]]
      /\ attempts \in [Keys -> [Times -> Nat]] /\ failed \in BOOLEAN
  BY DEF ConsentShape, ConsentTypes, WrongOnce
<1>1. \A q \in Keys : Owed(q)' \in [Times -> Nat]
  BY <1>0, OwedMoves
<1>2. ASSUME NEW q \in Keys, NEW u \in Times
      PROVE  /\ Owed(q)'[u] <= Owed(q)[u]
             /\ Owed(q)[u] <= attempts[q][u] => Owed(q)'[u] <= attempts'[q][u]
             /\ ~failed' /\ attempts[q][u] <= Owed(q)[u] => attempts'[q][u] <= Owed(q)'[u]
  <2>1. /\ Owed(q)'[u] \in Nat /\ Owed(q)[u] \in Nat
        /\ Owed(q)'[u] + wrong[q][u] + (IF HoldsMark(post[r], q, u) THEN 1 ELSE 0)
              = Owed(q)[u] + wrong'[q][u] + (IF HoldsMark(x, q, u) THEN 1 ELSE 0)
    <3>1. /\ Owed(q)' \in [Times -> Nat] /\ Owed(q) \in [Times -> Nat]
          /\ \A v \in Times :
                Owed(q)'[v] + wrong[q][v] + (IF HoldsMark(post[r], q, v) THEN 1 ELSE 0)
                   = Owed(q)[v] + wrong'[q][v] + (IF HoldsMark(x, q, v) THEN 1 ELSE 0)
      BY <1>0, OwedMoves
    <3>2. QED  BY <3>1
  <2>2. /\ wrong[q][u] \in Nat /\ wrong'[q][u] \in Nat /\ attempts'[q][u] = attempts[q][u]
        /\ attempts[q][u] \in Nat
    BY <1>0
  <2>3. Owed(q)'[u] = Owed(q)[u]
    <3>1. wrong'[q][u] = wrong[q][u] + (IF q \in {a, Total} /\ u = at THEN 1 ELSE 0)
      BY DEF WrongOnce
    <3>2. ~HoldsMark(x, q, u) /\ (HoldsMark(post[r], q, u) <=> q \in {a, Total} /\ u = at)
      BY DEF WrongHeld
    <3>3. CASE q \in {a, Total} /\ u = at
      BY <2>1, <2>2, <3>1, <3>2, <3>3
    <3>4. CASE ~(q \in {a, Total} /\ u = at)
      BY <2>1, <2>2, <3>1, <3>2, <3>4
    <3>5. QED  BY <3>3, <3>4
  <2>4. QED  BY <2>1, <2>2, <2>3
<1>3. QED  BY <1>0, <1>1, <1>2, CountKeeps

----------------------------------------------------------------------------
(* The steps.                                                              *)

LEMMA NewPostIs ==
    ASSUME McpConsentAssumption, NEW stage \in PostStages, NEW p \in Consents,
           NEW address \in Addresses, NEW typed \in {"right", "wrong", "code"}
    PROVE  [stage |-> stage, consent |-> p, address |-> address, typed |-> typed,
            at |-> 0, pays |-> FALSE] \in PostRecords
<1>1. 0 \in Times
  BY ConsentNumbers DEF Times
<1>2. QED  BY <1>1 DEF PostRecords

LEMMA PostKeeps ==
    ASSUME McpConsentAssumption, ConsentIInv, NEW r \in Posts, NEW p \in Consents,
           NEW address \in Addresses, NEW typed \in {"right", "wrong", "code"},
           Post(r, p, address, typed)
    PROVE  ConsentIInv'
<1> DEFINE x == [stage |-> IF typed = "code" THEN "code" ELSE "reads", consent |-> p,
                 address |-> address, typed |-> typed, at |-> 0, pays |-> FALSE]
<1>1. /\ post[r] = NoPost /\ posts < MaxPosts /\ posts' = posts + 1
      /\ p \in pending /\ pending' = pending \ {p} /\ post' = [post EXCEPT ![r] = x]
      /\ UNCHANGED <<clock, approval, attempts, codes, spent, wrong, newest, late, failed>>
  BY DEF Post, Taken
<1>2. /\ x \in PostRecords /\ x.stage \in Asking /\ x.stage \in {"code", "reads"}
      /\ x.consent = p /\ ~x.pays
  <2>1. x.stage \in {"code", "reads"} /\ x.consent = p /\ ~x.pays
    OBVIOUS
  <2>2. x.stage \in Asking /\ x.stage \in PostStages
    BY <2>1, StagesAre
  <2>3. x \in PostRecords
    BY <2>2, NewPostIs
  <2>4. QED  BY <2>1, <2>2, <2>3
<1> HIDE DEF x
<1>3. /\ ConsentShape /\ CountInv /\ ConsentInv /\ CodeInv /\ x \in PostStates
      /\ posts \in Nat /\ MaxPosts \in Nat /\ failed \in BOOLEAN
      /\ attempts \in [Keys -> [Times -> Nat]] /\ wrong \in [Keys -> [Times -> Nat]]
      /\ codes \in [Consents -> Nat] /\ pending \subseteq Consents
  BY <1>2, ConsentNumbers DEF ConsentIInv, ConsentShape, ConsentTypes, PostStates
<1>4. /\ post' \in [Posts -> PostStates] /\ post'[r] = x
      /\ \A q \in Posts : q # r => post'[q] = post[q]
  BY <1>1, <1>3 DEF ConsentShape, ConsentTypes
<1>5. post[r].stage = "idle" /\ "idle" \notin PostStages
  BY <1>1, StagesOf
<1>6. BoundInv'
  <2>1. r \notin Under /\ r \notin Undone /\ \A k \in Keys : r \notin Uncounted(k)
    BY <1>5, StagesAre DEF Under, Undone, Uncounted
  <2>2. posts' \in Nat /\ posts <= posts' /\ posts' = posts + 1
    BY <1>1, <1>3
  <2>3. ASSUME NEW k \in Keys, NEW t \in Times
        PROVE  /\ attempts'[k][t] + (IF r \in Uncounted(k)' THEN 1 ELSE 0) + posts
                     <= attempts[k][t] + (IF r \in Uncounted(k) THEN 1 ELSE 0) + posts'
               /\ wrong'[k][t] + (IF r \in Undone' THEN 1 ELSE 0) + posts
                     <= wrong[k][t] + (IF r \in Undone THEN 1 ELSE 0) + posts'
    <3>1. attempts'[k][t] = attempts[k][t] /\ attempts[k][t] \in Nat
          /\ wrong'[k][t] = wrong[k][t] /\ wrong[k][t] \in Nat
      BY <1>1, <1>3
    <3>2. QED  BY <1>3, <2>1, <2>2, <3>1
  <2>4. ASSUME NEW c \in Consents
        PROVE  codes'[c] + (IF r \in Under' THEN 1 ELSE 0) + posts
                  <= codes[c] + (IF r \in Under THEN 1 ELSE 0) + posts'
    <3>1. codes'[c] = codes[c] /\ codes[c] \in Nat
      BY <1>1, <1>3
    <3>2. QED  BY <1>3, <2>1, <2>2, <3>1
  <2>5. /\ attempts' \in [Keys -> [Times -> Nat]] /\ wrong' \in [Keys -> [Times -> Nat]]
        /\ codes' \in [Consents -> Nat]
    BY <1>1, <1>3
  <2>6. QED  BY <1>1, <1>3, <2>2, <2>3, <2>4, <2>5, BoundKeeps
<1>7. CountInv'
  <2>1. \A k \in Keys, u \in Times : ~HoldsMark(x, k, u) /\ ~HoldsMark(post[r], k, u)
    BY <1>1, <1>2, HoldsIs, HoldsNot
  <2>2. QED  BY <1>1, <1>3, <2>1, PlainKeeps
<1>8. ConsentInv'
  <2>1. \A q \in Posts, c \in Consents :
           Handles(post'[q], c) => (q = r /\ c = p) \/ (q # r /\ Handles(post[q], c))
    BY <1>2, <1>4 DEF Handles
  <2>2. \A q \in Posts : ~Handles(post[q], p)
    BY <1>1, <1>3 DEF ConsentInv
  <2>3. QED  BY <1>1, <1>3, <2>1, <2>2 DEF ConsentInv
<1>9. CodeInv'
  <2>1. \A q \in Posts : Pays(post'[q]) => Pays(post[q]) /\ post'[q] = post[q]
    BY <1>2, <1>4 DEF Pays
  <2>2. QED  BY <1>1, <1>3, <2>1 DEF CodeInv
<1>10. ConsentTypes'
  <2>1. posts' \in 0 .. MaxPosts
    BY <1>1, <1>3
  <2>2. QED  BY <1>1, <1>4, <2>1 DEF ConsentIInv, ConsentShape, ConsentTypes
<1>11. QED  BY <1>6, <1>7, <1>8, <1>9, <1>10 DEF ConsentIInv, ConsentShape

LEMMA TakeCodeKeeps ==
    ASSUME McpConsentAssumption, ConsentIInv, NEW r \in Posts, TakeCode(r)
    PROVE  ConsentIInv'
<1>1. /\ post[r].stage = "code" /\ "code" \in PostStages /\ "reads" \in PostStages
      /\ approval' = FALSE /\ failed \in BOOLEAN /\ approval \in BOOLEAN
      /\ UNCHANGED <<clock, pending, attempts, codes, spent, wrong, newest, late, failed, posts>>
  BY StagesAre DEF TakeCode, CodeTaken, ConsentIInv, ConsentShape, ConsentTypes
<1>2. CASE Goes(r, "reads")
  BY <1>1, <1>2, GoesKeeps
<1>3. CASE approval /\ post' = [post EXCEPT ![r].stage = "approves", ![r].pays = TRUE]
  <2> DEFINE x == [post[r] EXCEPT !.stage = "approves", !.pays = TRUE]
  <2>1. /\ post[r] \in PostRecords /\ post[r] # NoPost /\ post \in [Posts -> PostStates]
        /\ ConsentShape /\ ConsentInv /\ CodeInv /\ CountInv
    BY <1>1, PostIs DEF ConsentIInv, ConsentShape, ConsentTypes
  <2>2. post' = [post EXCEPT ![r] = x]
    BY <1>3, <2>1
  <2>3. /\ x \in PostRecords /\ x.stage = "approves" /\ x.consent = post[r].consent
        /\ x \in PostStates
    BY <2>1, StagesAre DEF PostRecords, PostStates
  <2> HIDE DEF x
  <2>4. BoundInv'
    <3>1. /\ x.stage \notin Asking /\ x.stage # "total" /\ x.stage \notin Undecided
          /\ post[r].stage \in PostStages
      BY <1>1, <2>3, StagesAre
    <3>2. /\ attempts' \in [Keys -> [Times -> Nat]]
          /\ \A k \in Keys, t \in Times : attempts'[k][t] <= attempts[k][t]
      BY <1>1 DEF ConsentIInv, ConsentShape, ConsentTypes
    <3>3. QED  BY <1>1, <2>1, <2>2, <2>3, <3>1, <3>2, QuietBound
  <2>5. CountInv'
    <3>1. \A k \in Keys, u \in Times : ~HoldsMark(x, k, u) /\ ~HoldsMark(post[r], k, u)
      BY <1>1, <2>1, <2>3, HoldsIs
    <3>2. QED  BY <1>1, <2>1, <2>2, <2>3, <3>1, PlainKeeps
  <2>6. /\ post' \in [Posts -> PostStates] /\ post'[r] = x /\ x # NoPost
        /\ \A q \in Posts : q # r => post'[q] = post[q]
    BY <2>1, <2>2, <2>3, StagesOf
  <2>7. ConsentInv'
    <3>1. \A q \in Posts, p \in Consents : Handles(post'[q], p) => Handles(post[q], p)
      BY <2>1, <2>3, <2>6 DEF Handles
    <3>2. QED  BY <1>1, <2>1, <3>1 DEF ConsentInv
  <2>8. CodeInv'
    <3>1. \A q \in Posts : ~Pays(post[q])
      BY <1>3, <2>1 DEF CodeInv
    <3>2. \A q \in Posts : Pays(post'[q]) => q = r
      BY <2>6, <3>1 DEF Pays
    <3>3. spent = 0
      BY <1>3, <2>1 DEF CodeInv
    <3>4. QED  BY <1>1, <2>3, <2>6, <3>2, <3>3 DEF CodeInv
  <2>9. ConsentTypes'
    BY <1>1, <2>6 DEF ConsentIInv, ConsentShape, ConsentTypes
  <2>10. QED  BY <2>4, <2>5, <2>7, <2>8, <2>9 DEF ConsentIInv, ConsentShape
<1>4. QED  BY <1>2, <1>3 DEF TakeCode

LEMMA ReadClockKeeps ==
    ASSUME McpConsentAssumption, ConsentIInv, NEW r \in Posts, ReadClock(r)
    PROVE  ConsentIInv'
<1> DEFINE x == [post[r] EXCEPT !.stage = "address", !.at = clock]
<1>1. /\ post[r].stage = "reads" /\ post[r].stage \in PostStages
      /\ post' = [post EXCEPT ![r].stage = "address", ![r].at = clock]
      /\ UNCHANGED <<clock, pending, approval, attempts, codes, spent, wrong, newest,
                     late, failed, posts>>
  BY StagesAre DEF ReadClock
<1>2. /\ post[r] \in PostRecords /\ post[r] # NoPost /\ post \in [Posts -> PostStates]
      /\ clock \in Times /\ CodeInv /\ approval \in BOOLEAN /\ failed \in BOOLEAN
  BY <1>1, PostIs DEF ConsentIInv, ConsentShape, ConsentTypes
<1>3. post' = [post EXCEPT ![r] = x]
  BY <1>1, <1>2
<1>4. /\ x \in PostRecords /\ x.stage = "address"
      /\ x.consent = post[r].consent /\ x.pays = post[r].pays
  BY <1>2, StagesAre DEF PostRecords
<1> HIDE DEF x
<1>5. ~x.pays
  BY <1>1, <1>2, <1>4 DEF CodeInv, Pays
<1>6. \A k \in Keys, u \in Times : ~HoldsMark(x, k, u) /\ ~HoldsMark(post[r], k, u)
  BY <1>1, <1>2, <1>4, HoldsIs
<1>7. post[r].stage \in Asking /\ post[r].stage \in Undecided /\ x.stage # "total"
  BY <1>1, <1>4, StagesAre
<1>8. QED  BY <1>1, <1>2, <1>3, <1>4, <1>5, <1>6, <1>7, PlainStep

(* An attempt is counted: the request leaves the uncounted.                *)
LEMMA CountsStep ==
    ASSUME McpConsentAssumption, ConsentIInv, NEW r \in Posts, NEW s \in PostStages,
           NEW k \in Keys, post[r].stage = s, NEW t \in PostStages, Goes(r, t),
           ~Locked(k, post[r].at), Counts(k, post[r].at),
           UNCHANGED <<clock, pending, approval, codes, spent, wrong, failed, posts>>,
           \/ s = "address" /\ t = "total" /\ k = post[r].address
           \/ s = "total" /\ t = "hashes" /\ k = Total
    PROVE  ConsentIInv'
<1>1. /\ ConsentShape /\ CodeInv /\ CountInv
      /\ attempts \in [Keys -> [Times -> Nat]] /\ wrong \in [Keys -> [Times -> Nat]]
      /\ newest \in [Keys -> Times] /\ late \in BOOLEAN /\ failed \in BOOLEAN
      /\ approval \in BOOLEAN /\ codes \in [Consents -> Nat] /\ posts \in Nat
  BY DEF ConsentIInv, ConsentShape, ConsentTypes
<1>2. PICK x \in PostRecords :
         /\ post' = [post EXCEPT ![r] = x]
         /\ x.stage = t /\ x.consent = post[r].consent /\ x.at = post[r].at
         /\ x.address = post[r].address /\ x.pays = post[r].pays
  <2>1. post[r].stage \in PostStages /\ ConsentShape
    BY <1>1
  <2>2. \E x \in PostRecords :
           /\ post' = [post EXCEPT ![r] = x]
           /\ x = [post[r] EXCEPT !.stage = t]
           /\ x.stage = t /\ x.consent = post[r].consent /\ x.at = post[r].at
           /\ x.address = post[r].address /\ x.pays = post[r].pays
    BY <2>1, GoesTo
  <2>3. QED  BY <2>2
<1>3. /\ post[r] \in PostRecords /\ post[r] # NoPost /\ post[r].address \in Addresses
      /\ post[r].at \in Times /\ x \in PostStates
  BY <1>1, PostIs DEF PostStates
<1>4. ~x.pays
  BY <1>1, <1>2, <1>3 DEF CodeInv, Pays
<1>5. post[r].address # Total
  BY <1>3, ConsentNumbers
<1>6. /\ HoldsMark(x, k, post[r].at) /\ ~HoldsMark(post[r], k, post[r].at)
      /\ \A q \in Keys, u \in Times :
            ~(q = k /\ u = post[r].at) => (HoldsMark(x, q, u) <=> HoldsMark(post[r], q, u))
  BY <1>2, <1>3, <1>5, HoldsIs
<1>7. /\ r \in Uncounted(k) /\ r \notin Uncounted(k)'
      /\ \A q \in Keys : r \in Uncounted(q)' => r \in Uncounted(q)
      /\ r \in Undone /\ r \in Under
  <2>1. post'[r] = x
    BY <1>1, <1>2 DEF ConsentShape, ConsentTypes
  <2>2. \A q \in Keys :
           /\ r \in Uncounted(q) <=> s \in Asking \/ (q = Total /\ s = "total")
           /\ r \in Uncounted(q)' <=> t \in Asking \/ (q = Total /\ t = "total")
    BY <1>2, <2>1 DEF Uncounted
  <2>3. r \in Undone /\ r \in Under
    BY StagesAre DEF Undone, Under
  <2>4. \/ s = "address" /\ t = "total" /\ k # Total
        \/ s = "total" /\ t = "hashes" /\ k = Total
    BY <1>5
  <2>5. QED  BY <2>2, <2>3, <2>4, StagesAre
<1>8. CountedOnce(k, post[r].at)
  BY <1>1, <1>3, CountsOnce DEF ConsentShape
<1>9. BoundInv'
  BY <1>1, <1>2, <1>3, <1>7, <1>8, CountedBound
<1>10. CountInv'
  <2>1. attempts' \in [Keys -> [Times -> Nat]]
    BY <1>8 DEF CountedOnce
  <2>2. UNCHANGED <<wrong, failed>>
    OBVIOUS
  <2>3. PICK at \in Times : at = post[r].at
    BY <1>3
  <2>4. ~Locked(k, at) /\ Counts(k, at) /\ OneMoreHeld(x, post[r], k, at)
    BY <1>6, <2>3 DEF OneMoreHeld
  <2>5. /\ ConsentShape /\ CountInv /\ x \in PostStates
        /\ post' = [post EXCEPT ![r] = x]
    BY <1>1, <1>2, <1>3
  <2>6. QED  BY <2>1, <2>2, <2>4, <2>5, CountedCount
<1>11. late' \in BOOLEAN /\ newest' \in [Keys -> Times]
  BY <1>1, <1>3 DEF Counts
<1>12. QED  BY <1>1, <1>2, <1>3, <1>4, <1>8, <1>9, <1>10, <1>11, ConsentMoves DEF CountedOnce

LEMMA TakeAddressKeeps ==
    ASSUME McpConsentAssumption, ConsentIInv, NEW r \in Posts, TakeAddress(r)
    PROVE  ConsentIInv'
<1>1. /\ post[r].stage = "address" /\ "address" \in PostStages /\ "refuses" \in PostStages
      /\ "total" \in PostStages /\ approval \in BOOLEAN /\ failed \in BOOLEAN
      /\ UNCHANGED <<clock, pending, approval, codes, spent, wrong, failed, posts>>
  BY StagesAre DEF TakeAddress, ConsentIInv, ConsentShape, ConsentTypes
<1>2. CASE Locked(post[r].address, post[r].at)
  <2>1. Goes(r, "refuses") /\ UNCHANGED <<attempts, newest, late>>
    BY <1>2 DEF TakeAddress
  <2>2. QED  BY <1>1, <2>1, GoesKeeps
<1>3. CASE ~Locked(post[r].address, post[r].at)
  <2>1. Goes(r, "total") /\ Counts(post[r].address, post[r].at)
    BY <1>3 DEF TakeAddress
  <2>2. post[r].address \in Keys
    BY <1>1, PostIs DEF ConsentIInv
  <2>3. QED  BY <1>1, <1>3, <2>1, <2>2, CountsStep
<1>4. QED  BY <1>2, <1>3

LEMMA TakeTotalKeeps ==
    ASSUME McpConsentAssumption, ConsentIInv, NEW r \in Posts, TakeTotal(r)
    PROVE  ConsentIInv'
<1>1. /\ post[r].stage = "total" /\ "total" \in PostStages /\ "uncounts" \in PostStages
      /\ "hashes" \in PostStages /\ approval \in BOOLEAN /\ failed \in BOOLEAN
      /\ UNCHANGED <<clock, pending, approval, codes, spent, wrong, failed, posts>>
  BY StagesAre DEF TakeTotal, ConsentIInv, ConsentShape, ConsentTypes
<1>2. CASE Locked(Total, post[r].at)
  <2>1. Goes(r, "uncounts") /\ UNCHANGED <<attempts, newest, late>>
    BY <1>2 DEF TakeTotal, WhenLocked
  <2>2. QED  BY <1>1, <2>1, GoesKeeps
<1>3. CASE ~Locked(Total, post[r].at)
  <2>1. Goes(r, "hashes") /\ Counts(Total, post[r].at)
    BY <1>3 DEF TakeTotal
  <2>2. QED  BY <1>1, <1>3, <2>1, KeysOf, CountsStep
<1>4. QED  BY <1>2, <1>3

LEMMA GiveUpKeeps ==
    ASSUME McpConsentAssumption, ConsentIInv, NEW r \in Posts, GiveUp(r)
    PROVE  ConsentIInv'
<1>1. /\ failed' = TRUE /\ approval \in BOOLEAN
      /\ UNCHANGED <<clock, pending, approval, attempts, codes, spent, wrong, newest, late, posts>>
  BY DEF GiveUp, ConsentIInv, ConsentShape, ConsentTypes
<1>2. CASE post[r].stage = "address" /\ Goes(r, "refuses")
  BY <1>1, <1>2, GoesKeeps, StagesAre
<1>3. CASE post[r].stage = "total" /\ Goes(r, "uncounts")
  BY <1>1, <1>3, GoesKeeps, StagesAre
<1>4. CASE post[r].stage = "uncounts" /\ Goes(r, "refuses")
  BY <1>1, <1>4, GoesKeeps, StagesAre
<1>5. CASE post[r].stage = "forgives" /\ Goes(r, "forgives all")
  BY <1>1, <1>5, GoesKeeps, StagesAre
<1>6. CASE post[r].stage = "forgives all" /\ Goes(r, "approves")
  BY <1>1, <1>6, GoesKeeps, StagesAre
<1>7. QED  BY <1>2, <1>3, <1>4, <1>5, <1>6 DEF GiveUp

LEMMA UncountKeeps ==
    ASSUME McpConsentAssumption, ConsentIInv, NEW r \in Posts, Uncount(r)
    PROVE  ConsentIInv'
<1>1. /\ post[r].stage = "uncounts" /\ "uncounts" \in PostStages /\ "refuses" \in PostStages
      /\ Releases(post[r].address, post[r].at) /\ Goes(r, "refuses")
      /\ UNCHANGED <<clock, pending, approval, codes, spent, wrong, newest, late, failed, posts>>
  BY StagesAre DEF Uncount
<1>2. post[r].address \in Keys
  BY <1>1, PostIs DEF ConsentIInv
<1>3. QED  BY <1>1, <1>2, ReleasesKeeps

LEMMA ForgiveKeeps ==
    ASSUME McpConsentAssumption, ConsentIInv, NEW r \in Posts, Forgive(r)
    PROVE  ConsentIInv'
<1>1. /\ {"forgives", "forgives all", "approves"} \subseteq PostStages
      /\ UNCHANGED <<clock, pending, approval, codes, spent, wrong, newest, late, failed, posts>>
  BY StagesAre DEF Forgive
<1>2. CASE /\ post[r].stage = "forgives"
           /\ Releases(post[r].address, post[r].at) /\ Goes(r, "forgives all")
  <2>1. post[r].address \in Keys
    BY <1>1, <1>2, PostIs DEF ConsentIInv
  <2>2. QED  BY <1>1, <1>2, <2>1, ReleasesKeeps
<1>3. CASE /\ post[r].stage = "forgives all"
           /\ Releases(Total, post[r].at) /\ Goes(r, "approves")
  BY <1>1, <1>3, KeysOf, ReleasesKeeps
<1>4. QED  BY <1>2, <1>3 DEF Forgive

(* A wrong password: the attempts it holds are the wrong ones from now on. *)
LEMMA WrongKeeps ==
    ASSUME McpConsentAssumption, ConsentIInv, NEW r \in Posts, post[r].stage = "hashes",
           Goes(r, "refuses"),
           wrong' = [wrong EXCEPT ![post[r].address][post[r].at] = @ + 1,
                                  ![Total][post[r].at] = @ + 1],
           UNCHANGED <<clock, pending, approval, attempts, codes, spent, newest,
                       late, failed, posts>>
    PROVE  ConsentIInv'
<1>1. /\ ConsentShape /\ CodeInv /\ CountInv
      /\ attempts \in [Keys -> [Times -> Nat]] /\ wrong \in [Keys -> [Times -> Nat]]
      /\ newest \in [Keys -> Times] /\ late \in BOOLEAN /\ failed \in BOOLEAN
      /\ approval \in BOOLEAN /\ codes \in [Consents -> Nat] /\ posts \in Nat
  BY DEF ConsentIInv, ConsentShape, ConsentTypes
<1>2. PICK x \in PostRecords :
         /\ post' = [post EXCEPT ![r] = x]
         /\ x.stage = "refuses" /\ x.consent = post[r].consent /\ x.at = post[r].at
         /\ x.address = post[r].address /\ x.pays = post[r].pays
  <2>1. post[r].stage \in PostStages /\ ConsentShape /\ "refuses" \in PostStages
    BY <1>1, StagesAre
  <2>2. \E x \in PostRecords :
           /\ post' = [post EXCEPT ![r] = x]
           /\ x = [post[r] EXCEPT !.stage = "refuses"]
           /\ x.stage = "refuses" /\ x.consent = post[r].consent /\ x.at = post[r].at
           /\ x.address = post[r].address /\ x.pays = post[r].pays
    BY <2>1, GoesTo
  <2>3. QED  BY <2>2
<1>3. /\ post[r] \in PostRecords /\ post[r] # NoPost /\ post[r].address \in Addresses
      /\ post[r].at \in Times /\ x \in PostStates /\ post[r].address \in Keys /\ Total \in Keys
  BY <1>1, PostIs, StagesAre, KeysOf DEF PostStates
<1>4. ~x.pays
  BY <1>1, <1>2, <1>3 DEF CodeInv, Pays
<1>5. post[r].address # Total
  BY <1>3, ConsentNumbers
<1> DEFINE Hit(q, u) == q \in {post[r].address, Total} /\ u = post[r].at
<1>6. \A q \in Keys, u \in Times : ~HoldsMark(x, q, u) /\ (HoldsMark(post[r], q, u) <=> Hit(q, u))
  <2>1. post[r] \in PostRecords /\ x \in PostRecords
    BY <1>2, <1>3
  <2>2. ASSUME NEW q \in Keys, NEW u \in Times
        PROVE  ~HoldsMark(x, q, u)
    BY <1>2, <2>1, HoldsIs
  <2>3. ASSUME NEW q \in Keys, NEW u \in Times
        PROVE  HoldsMark(post[r], q, u) <=> Hit(q, u)
    <3>1. HoldsMark(post[r], q, u) <=>
             /\ u = post[r].at
             /\ \/ q = Total /\ post[r].stage \in {"hashes", "forgives", "forgives all"}
                \/ q = post[r].address /\ post[r].stage \in {"total", "uncounts", "hashes", "forgives"}
      BY <2>1, HoldsIs
    <3>2. QED  BY <3>1, <1>1
  <2>4. QED  BY <2>2, <2>3
<1>7. WrongOnce(post[r].address, post[r].at)
  BY <1>1, <1>3, <1>5, WrongsOnce DEF ConsentShape
<1>8. BoundInv'
  <2>1. /\ r \in Undone /\ r \notin Undone' /\ r \in Under /\ \A q \in Keys : r \notin Uncounted(q)'
    <3>1. post'[r] = x
      BY <1>1, <1>2 DEF ConsentShape, ConsentTypes
    <3>2. /\ r \in Undone <=> post[r].stage \in Undecided
          /\ r \in Undone' <=> x.stage \in Undecided
          /\ r \in Under <=> post[r].stage \in PostStages
      BY <3>1 DEF Undone, Under
    <3>3. \A q \in Keys : r \in Uncounted(q)' => x.stage \in Asking \/ x.stage = "total"
      BY <3>1 DEF Uncounted
    <3>4. QED  BY <1>2, <3>2, <3>3, StagesAre
  <2>2. QED  BY <1>1, <1>2, <1>3, <1>7, <2>1, WrongBound
<1>9. CountInv'
  <2>1. WrongHeld(x, post[r], post[r].address, post[r].at)
    BY <1>6 DEF WrongHeld
  <2>2. /\ ConsentShape /\ CountInv /\ x \in PostStates
        /\ post' = [post EXCEPT ![r] = x]
    BY <1>1, <1>2, <1>3
  <2>3. PICK at \in Times : at = post[r].at
    BY <1>3
  <2>4. PICK a \in Addresses : a = post[r].address
    BY <1>3
  <2>5. UNCHANGED <<attempts, newest, late, failed>>
    OBVIOUS
  <2>6. WrongHeld(x, post[r], a, at) /\ WrongOnce(a, at)
    BY <1>7, <2>1, <2>3, <2>4
  <2>7. QED  BY <2>2, <2>5, <2>6, WrongCount
<1>10. QED  BY <1>1, <1>2, <1>3, <1>4, <1>7, <1>8, <1>9, ConsentMoves DEF WrongOnce

LEMMA VerifyPasswordKeeps ==
    ASSUME McpConsentAssumption, ConsentIInv, NEW r \in Posts, VerifyPassword(r)
    PROVE  ConsentIInv'
<1>1. /\ post[r].stage = "hashes" /\ "hashes" \in PostStages /\ "forgives" \in PostStages
      /\ approval \in BOOLEAN /\ failed \in BOOLEAN
      /\ UNCHANGED <<clock, pending, approval, attempts, codes, spent, newest, late, failed, posts>>
  BY StagesAre DEF VerifyPassword, ConsentIInv, ConsentShape, ConsentTypes
<1>2. CASE post[r].typed = "right"
  <2>1. Goes(r, "forgives") /\ UNCHANGED wrong
    BY <1>2 DEF VerifyPassword
  <2>2. QED  BY <1>1, <2>1, GoesKeeps
<1>3. CASE post[r].typed # "right"
  BY <1>1, <1>3, WrongKeeps DEF VerifyPassword
<1>4. QED  BY <1>2, <1>3

LEMMA RefuseKeeps ==
    ASSUME McpConsentAssumption, ConsentIInv, NEW r \in Posts, Refuse(r)
    PROVE  ConsentIInv'
<1>1. /\ post[r].stage = "refuses" /\ "refuses" \in PostStages
      /\ pending' = pending \cup {post[r].consent} /\ Ends(r)
      /\ UNCHANGED <<clock, approval, attempts, codes, spent, wrong, newest, late, failed, posts>>
  BY StagesAre DEF Refuse
<1>2. /\ ConsentShape /\ ConsentInv /\ CodeInv /\ CountInv /\ failed \in BOOLEAN
      /\ pending \subseteq Consents /\ approval \in BOOLEAN
      /\ attempts \in [Keys -> [Times -> Nat]]
  BY DEF ConsentIInv, ConsentShape, ConsentTypes
<1>3. /\ post[r] \in PostRecords /\ post[r] # NoPost /\ post[r].consent \in Consents
  BY <1>1, <1>2, PostIs
<1>4. /\ post' = [post EXCEPT ![r] = NoPost] /\ post' \in [Posts -> PostStates]
      /\ NoPost \in PostStates /\ NoPost.stage = "idle"
      /\ \A q \in Posts, p \in Consents : Handles(post'[q], p) => q # r /\ Handles(post[q], p)
      /\ \A q \in Posts : Pays(post'[q]) => q # r /\ Pays(post[q]) /\ post'[q] = post[q]
  BY <1>1, <1>2, OverKeeps
<1>5. BoundInv'
  <2>1. NoPost.stage \notin Asking /\ NoPost.stage # "total" /\ NoPost.stage \notin Undecided
        /\ NoPost.stage \notin PostStages
    BY <1>4, StagesAre
  <2>2. /\ attempts' \in [Keys -> [Times -> Nat]]
        /\ \A k \in Keys, t \in Times : attempts'[k][t] <= attempts[k][t]
    BY <1>1, <1>2
  <2>3. QED  BY <1>1, <1>2, <1>4, <2>1, <2>2, QuietBound
<1>6. CountInv'
  <2>1. \A k \in Keys, u \in Times : ~HoldsMark(NoPost, k, u) /\ ~HoldsMark(post[r], k, u)
    BY <1>1, <1>3, HoldsIs, HoldsNot
  <2>2. QED  BY <1>1, <1>2, <1>4, <2>1, PlainKeeps
<1>7. ConsentInv'
  <2>1. Handles(post[r], post[r].consent)
    BY <1>3 DEF Handles
  <2>2. \A q \in Posts : ~Handles(post'[q], post[r].consent)
    BY <1>2, <1>3, <1>4, <2>1 DEF ConsentInv
  <2>3. codes[post[r].consent] = 0
    BY <1>2, <1>3, <2>1 DEF ConsentInv
  <2>4. QED  BY <1>1, <1>2, <1>4, <2>2, <2>3 DEF ConsentInv
<1>8. CodeInv'
  BY <1>1, <1>2, <1>4 DEF CodeInv
<1>9. ConsentTypes'
  BY <1>1, <1>3, <1>4 DEF ConsentIInv, ConsentShape, ConsentTypes
<1>10. QED  BY <1>5, <1>6, <1>7, <1>8, <1>9 DEF ConsentIInv, ConsentShape

LEMMA ApproveKeeps ==
    ASSUME McpConsentAssumption, ConsentIInv, NEW r \in Posts, Approve(r)
    PROVE  ConsentIInv'
<1>1. /\ post[r].stage = "approves" /\ "approves" \in PostStages
      /\ codes' = [codes EXCEPT ![post[r].consent] = @ + 1]
      /\ spent' = (IF post[r].pays THEN spent + 1 ELSE spent) /\ Ends(r)
      /\ UNCHANGED <<clock, pending, approval, attempts, wrong, newest, late, failed, posts>>
  BY StagesAre DEF Approve
<1>2. /\ ConsentShape /\ ConsentInv /\ CodeInv /\ CountInv /\ failed \in BOOLEAN
      /\ approval \in BOOLEAN /\ spent \in Nat /\ codes \in [Consents -> Nat]
      /\ attempts \in [Keys -> [Times -> Nat]] /\ wrong \in [Keys -> [Times -> Nat]]
      /\ posts \in Nat
  BY DEF ConsentIInv, ConsentShape, ConsentTypes
<1>3. /\ post[r] \in PostRecords /\ post[r] # NoPost /\ post[r].consent \in Consents
      /\ post[r].pays \in BOOLEAN
  BY <1>1, <1>2, PostIs
<1>4. /\ post' = [post EXCEPT ![r] = NoPost] /\ post' \in [Posts -> PostStates]
      /\ post'[r] = NoPost /\ NoPost \in PostStates /\ NoPost.stage = "idle"
      /\ \A q \in Posts, p \in Consents : Handles(post'[q], p) => q # r /\ Handles(post[q], p)
      /\ \A q \in Posts : Pays(post'[q]) => q # r /\ Pays(post[q]) /\ post'[q] = post[q]
  BY <1>1, <1>2, OverKeeps
<1>5. Handles(post[r], post[r].consent) /\ codes[post[r].consent] = 0
      /\ post[r].consent \notin pending
  <2>1. Handles(post[r], post[r].consent)
    BY <1>3 DEF Handles
  <2>2. QED  BY <1>2, <1>3, <2>1 DEF ConsentInv
<1>6. /\ codes' \in [Consents -> Nat] /\ codes'[post[r].consent] = 1
      /\ \A p \in Consents : p # post[r].consent => codes'[p] = codes[p]
  BY <1>1, <1>2, <1>3, <1>5
<1>7. BoundInv'
  <2>1. /\ r \notin Under' /\ r \notin Undone' /\ \A k \in Keys : r \notin Uncounted(k)'
        /\ r \in Under
    <3>1. /\ r \in Undone' <=> "idle" \in Undecided
          /\ r \in Under' <=> "idle" \in PostStages
          /\ r \in Under <=> "approves" \in PostStages
      BY <1>1, <1>4 DEF Undone, Under
    <3>2. \A k \in Keys : r \in Uncounted(k)' => "idle" \in Asking \cup {"total"}
      BY <1>4 DEF Uncounted
    <3>3. QED  BY <3>1, <3>2, StagesAre
  <2>2. ASSUME NEW k \in Keys, NEW t \in Times
        PROVE  /\ attempts'[k][t] + (IF r \in Uncounted(k)' THEN 1 ELSE 0) + posts
                     <= attempts[k][t] + (IF r \in Uncounted(k) THEN 1 ELSE 0) + posts'
               /\ wrong'[k][t] + (IF r \in Undone' THEN 1 ELSE 0) + posts
                     <= wrong[k][t] + (IF r \in Undone THEN 1 ELSE 0) + posts'
    <3>1. /\ attempts'[k][t] = attempts[k][t] /\ attempts[k][t] \in Nat /\ posts' = posts
          /\ wrong'[k][t] = wrong[k][t] /\ wrong[k][t] \in Nat
      BY <1>1, <1>2
    <3>2. QED  BY <1>2, <2>1, <3>1
  <2>3. ASSUME NEW p \in Consents
        PROVE  codes'[p] + (IF r \in Under' THEN 1 ELSE 0) + posts
                  <= codes[p] + (IF r \in Under THEN 1 ELSE 0) + posts'
    <3>1. codes[p] \in Nat /\ codes'[p] \in Nat /\ codes'[p] <= codes[p] + 1 /\ posts' = posts
      <4>1. codes[p] \in Nat /\ codes'[p] \in Nat /\ posts' = posts
        BY <1>1, <1>2, <1>6
      <4>2. CASE p = post[r].consent
        BY <1>5, <1>6, <4>1, <4>2
      <4>3. CASE p # post[r].consent
        BY <1>6, <4>1, <4>3
      <4>4. QED  BY <4>1, <4>2, <4>3
    <3>2. QED  BY <1>2, <2>1, <3>1
  <2>4. posts' \in Nat /\ posts <= posts' /\ attempts' \in [Keys -> [Times -> Nat]]
        /\ wrong' \in [Keys -> [Times -> Nat]]
    BY <1>1, <1>2
  <2>5. QED  BY <1>2, <1>4, <1>6, <2>2, <2>3, <2>4, BoundKeeps
<1>8. CountInv'
  <2>1. \A k \in Keys, u \in Times : ~HoldsMark(NoPost, k, u) /\ ~HoldsMark(post[r], k, u)
    BY <1>1, <1>3, HoldsIs, HoldsNot
  <2>2. QED  BY <1>1, <1>2, <1>4, <2>1, PlainKeeps
<1>9. ConsentInv'
  <2>1. \A q \in Posts : ~Handles(post'[q], post[r].consent)
    BY <1>2, <1>3, <1>4, <1>5 DEF ConsentInv
  <2>2. QED  BY <1>1, <1>2, <1>3, <1>4, <1>5, <1>6, <2>1 DEF ConsentInv
<1>10. CodeInv' /\ spent' \in Nat
  <2>1. CASE post[r].pays
    <3>1. Pays(post[r])
      BY <1>3, <2>1 DEF Pays
    <3>2. spent = 0 /\ ~approval /\ \A q \in Posts : ~Pays(post'[q])
      BY <1>2, <1>4, <3>1 DEF CodeInv
    <3>3. spent' = 1
      BY <1>1, <2>1, <3>2
    <3>4. QED  BY <1>1, <3>2, <3>3 DEF CodeInv
  <2>2. CASE ~post[r].pays
    <3>1. spent' = spent
      BY <1>1, <2>2
    <3>2. QED  BY <1>1, <1>2, <1>4, <3>1 DEF CodeInv
  <2>3. QED  BY <1>3, <2>1, <2>2
<1>11. ConsentTypes'
  BY <1>1, <1>4, <1>6, <1>10 DEF ConsentIInv, ConsentShape, ConsentTypes
<1>12. QED  BY <1>7, <1>8, <1>9, <1>10, <1>11 DEF ConsentIInv, ConsentShape

LEMMA DiedKeeps ==
    ASSUME McpConsentAssumption, ConsentIInv, NEW r \in Posts, Fail(r)
    PROVE  ConsentIInv'
<1>1. /\ Ends(r) /\ failed' = TRUE
      /\ UNCHANGED <<clock, pending, approval, attempts, codes, spent, wrong, newest, late, posts>>
  BY DEF Fail
<1>2. /\ ConsentShape /\ ConsentInv /\ CodeInv /\ CountInv /\ approval \in BOOLEAN
      /\ attempts \in [Keys -> [Times -> Nat]]
  BY DEF ConsentIInv, ConsentShape, ConsentTypes
<1>3. /\ post' = [post EXCEPT ![r] = NoPost] /\ post' \in [Posts -> PostStates]
      /\ NoPost \in PostStates /\ NoPost.stage = "idle"
      /\ \A q \in Posts, p \in Consents : Handles(post'[q], p) => q # r /\ Handles(post[q], p)
      /\ \A q \in Posts : Pays(post'[q]) => q # r /\ Pays(post[q]) /\ post'[q] = post[q]
  BY <1>1, <1>2, OverKeeps
<1>4. BoundInv'
  <2>1. NoPost.stage \notin Asking /\ NoPost.stage # "total" /\ NoPost.stage \notin Undecided
        /\ NoPost.stage \notin PostStages
    BY <1>3, StagesAre
  <2>2. /\ attempts' \in [Keys -> [Times -> Nat]]
        /\ \A k \in Keys, t \in Times : attempts'[k][t] <= attempts[k][t]
    BY <1>1, <1>2
  <2>3. QED  BY <1>1, <1>2, <1>3, <2>1, <2>2, QuietBound
<1>5. CountInv'
  <2>1. \A k \in Keys, u \in Times : ~HoldsMark(NoPost, k, u)
    BY HoldsNot
  <2>2. QED  BY <1>1, <1>2, <1>3, <2>1, PlainKeeps
<1>6. ConsentInv' /\ CodeInv'
  BY <1>1, <1>2, <1>3 DEF ConsentInv, CodeInv
<1>7. ConsentTypes'
  BY <1>1, <1>3 DEF ConsentIInv, ConsentShape, ConsentTypes
<1>8. QED  BY <1>4, <1>5, <1>6, <1>7 DEF ConsentIInv, ConsentShape

(* A consent or the approval code is gone, or time passes.                 *)
LEMMA GoneKeeps ==
    ASSUME McpConsentAssumption, ConsentIInv, clock' \in Times, pending' \subseteq pending,
           approval' \in BOOLEAN, approval' => approval,
           UNCHANGED <<attempts, post, codes, spent, wrong, newest, late, failed, posts>>
    PROVE  ConsentIInv'
<1>1. ConsentShape /\ ConsentInv /\ CodeInv /\ CountInv
  BY DEF ConsentIInv
<1>2. BoundInv' /\ CountInv'
  BY <1>1, StillKeeps
<1>3. ConsentInv' /\ CodeInv'
  BY <1>1 DEF ConsentInv, CodeInv
<1>4. ConsentTypes'
  BY <1>1 DEF ConsentShape, ConsentTypes
<1>5. QED  BY <1>2, <1>3, <1>4 DEF ConsentIInv, ConsentShape

LEMMA ConsentStep ==
    ASSUME McpConsentAssumption, ConsentIInv, [ConsentNext]_consentVars
    PROVE  ConsentIInv'
<1>1. clock \in Times /\ approval \in BOOLEAN
  BY DEF ConsentIInv, ConsentShape, ConsentTypes
<1>2. ASSUME NEW r \in Posts, NEW p \in Consents, NEW a \in Addresses,
             NEW typed \in {"right", "wrong", "code"}, Post(r, p, a, typed)
      PROVE  ConsentIInv'
  BY <1>2, PostKeeps
<1>3. ASSUME NEW r \in Posts,
             \/ TakeCode(r) \/ ReadClock(r) \/ TakeAddress(r) \/ TakeTotal(r) \/ GiveUp(r)
             \/ Uncount(r) \/ VerifyPassword(r) \/ Forgive(r) \/ Refuse(r) \/ Approve(r) \/ Fail(r)
      PROVE  ConsentIInv'
  BY <1>3, TakeCodeKeeps, ReadClockKeeps, TakeAddressKeeps, TakeTotalKeeps, GiveUpKeeps,
     UncountKeeps, VerifyPasswordKeeps, ForgiveKeeps, RefuseKeeps, ApproveKeeps, DiedKeeps
<1>4. CASE (\E p \in Consents : Deny(p)) \/ Expire
  <2>1. CASE \E p \in Consents : Deny(p)
    <3>1. /\ pending' \subseteq pending
          /\ UNCHANGED <<clock, approval, attempts, post, codes, spent, wrong, newest,
                         late, failed, posts>>
      BY <2>1 DEF Deny
    <3>2. QED  BY <1>1, <3>1, GoneKeeps
  <2>2. CASE Expire
    <3>1. /\ pending' \subseteq pending /\ approval' \in BOOLEAN /\ (approval' => approval)
          /\ UNCHANGED <<clock, attempts, post, codes, spent, wrong, newest, late, failed, posts>>
      <4>1. UNCHANGED <<clock, attempts, post, codes, spent, wrong, newest, late, failed, posts>>
        BY <2>2 DEF Expire
      <4>2. CASE \E p \in pending : pending' = pending \ {p} /\ UNCHANGED approval
        BY <1>1, <4>1, <4>2
      <4>3. CASE approval /\ approval' = FALSE /\ UNCHANGED pending
        BY <1>1, <4>1, <4>3
      <4>4. QED  BY <2>2, <4>2, <4>3 DEF Expire
    <3>2. QED  BY <1>1, <3>1, GoneKeeps
  <2>3. QED  BY <1>4, <2>1, <2>2
<1>5. CASE Tick
  <2>1. clock' \in Times
    BY <1>1, <1>5, ConsentNumbers DEF Tick, Times
  <2>2. QED  BY <1>1, <1>5, <2>1, GoneKeeps DEF Tick
<1>6. CASE UNCHANGED consentVars
  BY <1>1, <1>6, GoneKeeps DEF consentVars
<1>7. QED  BY <1>2, <1>3, <1>4, <1>5, <1>6 DEF ConsentNext

LEMMA ConsentStart ==
    ASSUME McpConsentAssumption, ConsentInit
    PROVE  ConsentIInv
<1>1. /\ clock = 0 /\ pending = Consents /\ approval = TRUE
      /\ attempts = [k \in Keys |-> [t \in Times |-> 0]] /\ wrong = attempts
      /\ post = [r \in Posts |-> NoPost]
      /\ codes = [p \in Consents |-> 0] /\ spent = 0
      /\ newest = [k \in Keys |-> 0] /\ late = FALSE /\ failed = FALSE /\ posts = 0
  BY DEF ConsentInit
<1>2. 0 \in Times /\ 0 \in 0 .. MaxPosts
  BY ConsentNumbers DEF Times
<1>3. ConsentTypes
  <2>1. post \in [Posts -> PostStates]
    BY <1>1 DEF PostStates
  <2>2. attempts \in [Keys -> [Times -> Nat]] /\ newest \in [Keys -> Times]
        /\ codes \in [Consents -> Nat]
    BY <1>1, <1>2
  <2>3. QED  BY <1>1, <1>2, <2>1, <2>2 DEF ConsentTypes
<1>4. /\ Under = {} /\ Undone = {} /\ \A k \in Keys : Uncounted(k) = {}
      /\ \A k \in Keys, u \in Times : Holders(k, u) = {}
  <2>1. "idle" \notin Asking \cup {"total"} /\ "idle" \notin Undecided /\ "idle" \notin PostStages
    BY StagesAre
  <2>2. \A r \in Posts : post[r] = NoPost /\ post[r].stage = "idle"
    BY <1>1, StagesOf
  <2>3. QED  BY <2>1, <2>2, HoldsNot DEF Under, Undone, Uncounted, Holders
<1>5. IsFiniteSet({}) /\ Cardinality({}) = 0
  BY FS_EmptySet
<1>6. BoundInv
  <2>1. \A k \in Keys, t \in Times : attempts[k][t] = 0 /\ wrong[k][t] = 0
    BY <1>1
  <2>2. \A p \in Consents : codes[p] = 0
    BY <1>1
  <2>3. QED  BY <1>1, <1>4, <1>5, <2>1, <2>2 DEF BoundInv
<1>7. ConsentInv /\ CodeInv
  BY <1>1 DEF ConsentInv, CodeInv, Handles, Pays
<1>8. ConsentShape
  BY <1>3, <1>6 DEF ConsentShape
<1>9. \A k \in Keys : /\ Owed(k) \in [Times -> Nat] /\ \A u \in Times : Owed(k)[u] = 0
                      /\ \A t \in Times : In(Owed(k), Span(k, t)) = 0
  <2>1. ASSUME NEW k \in Keys
        PROVE  Owed(k) \in [Times -> Nat] /\ \A u \in Times : Owed(k)[u] = 0
    <3>1. \A u \in Times : wrong[k][u] = 0 /\ Cardinality(Holders(k, u)) = 0
      BY <1>1, <1>4, <1>5
    <3>2. /\ Owed(k) \in [Times -> Nat]
          /\ \A u \in Times : Owed(k)[u] = wrong[k][u] + Cardinality(Holders(k, u))
      BY <1>8, OwedIs
    <3>3. QED  BY <3>1, <3>2
  <2>2. ASSUME NEW k \in Keys, NEW t \in Times  PROVE In(Owed(k), Span(k, t)) = 0
    <3>1. Span(k, t) \in SUBSET Times
      BY DEF Span
    <3>2. Marks(Owed(k), Span(k, t)) = {}
      <4>1. SUFFICES ASSUME NEW x \in Span(k, t) \X (1 .. MaxPosts)
                     PROVE  ~(x[2] <= Owed(k)[x[1]])
        BY DEF Marks
      <4>2. PICK u \in Span(k, t), n \in 1 .. MaxPosts : x = <<u, n>>
        OBVIOUS
      <4>3. Owed(k)[u] = 0 /\ ~(n <= 0)
        BY <2>1, <3>1
      <4>4. QED  BY <4>2, <4>3
    <3>3. QED  BY <1>5, <2>1, <3>1, <3>2, InIsNumber
  <2>3. QED  BY <2>1, <2>2
<1>10. CountInv
  <2>1. \A k \in Keys, u \in Times : attempts[k][u] = 0
    BY <1>1
  <2>2. ExactInv
    BY <1>9, <2>1 DEF ExactInv
  <2>3. OrderInv
    <3>1. \A k : 0 <= FailureLimit(k)
      BY ConsentNumbers
    <3>2. QED  BY <1>9, <2>1, <3>1 DEF OrderInv
  <2>4. QED  BY <2>2, <2>3 DEF CountInv
<1>11. QED  BY <1>7, <1>8, <1>10 DEF ConsentIInv

LEMMA ConsentInvariant ==
    ASSUME McpConsentAssumption
    PROVE  ConsentSpec => []ConsentIInv
<1>1. ConsentInit => ConsentIInv
  BY ConsentStart
<1>2. ConsentIInv /\ [ConsentNext]_consentVars => ConsentIInv'
  BY ConsentStep
<1>3. QED  BY <1>1, <1>2, PTL DEF ConsentSpec

(* The invariant gives the properties the run checks.                      *)
LEMMA ConsentSafe ==
    ASSUME McpConsentAssumption, ConsentIInv
    PROVE  ApprovedOnce /\ CodeApprovesOnce /\ GuessesBounded /\ OnlyWrongCount /\ ConsentTypeOK
<1>1. /\ ConsentShape /\ ConsentTypes /\ BoundInv /\ ConsentInv /\ CodeInv /\ CountInv
      /\ posts \in 0 .. MaxPosts /\ MaxPosts \in Nat
  BY ConsentNumbers DEF ConsentIInv, ConsentShape, ConsentTypes
<1>2. ApprovedOnce
  <2>1. SUFFICES ASSUME NEW p \in Consents
                 PROVE  codes[p] + Cardinality({r \in Posts : post[r].stage = "approves"
                                                            /\ post[r].consent = p}) <= 1
    BY DEF ApprovedOnce
  <2> DEFINE A == {r \in Posts : post[r].stage = "approves" /\ post[r].consent = p}
  <2>2. \A r \in A : r \in Posts /\ Handles(post[r], p)
    <3>1. \A r \in Posts : post[r].stage = "approves" => post[r] # NoPost
      BY StagesOf, StagesAre
    <3>2. QED  BY <3>1 DEF Handles
  <2>3. codes[p] \in Nat /\ codes[p] <= 1
    BY <1>1 DEF ConsentTypes, ConsentInv
  <2>4. CASE A = {}
    <3>1. Cardinality(A) = 0
      BY <2>4, FS_EmptySet
    <3>2. QED  BY <2>3, <3>1
  <2>5. CASE A # {}
    <3>1. PICK r : r \in A
      BY <2>5
    <3>2. A = {r} /\ codes[p] = 0
      BY <1>1, <2>2, <3>1 DEF ConsentInv
    <3>3. Cardinality(A) = 1
      BY <3>2, FS_Singleton
    <3>4. QED  BY <3>2, <3>3
  <2>6. QED  BY <2>4, <2>5
<1>3. CodeApprovesOnce
  BY <1>1 DEF CodeInv, CodeApprovesOnce
<1>4. \A k \in Keys : /\ Owed(k) \in [Times -> Nat] /\ wrong[k] \in [Times -> Nat]
                      /\ \A u \in Times : /\ Owed(k)[u] = wrong[k][u] + Cardinality(Holders(k, u))
                                          /\ Cardinality(Holders(k, u)) \in Nat
  <2>1. ASSUME NEW k \in Keys, NEW u \in Times  PROVE Cardinality(Holders(k, u)) \in Nat
    <3>1. Holders(k, u) \in SUBSET Under
      BY DEF Holders, HoldsMark, HoldStages, Under, PostStages, Undecided
    <3>2. QED  BY <1>1, <3>1, FS_Subset, FS_CardinalityType DEF BoundInv
  <2>2. QED  BY <1>1, <2>1, OwedIs DEF ConsentTypes
<1>5. GuessesBounded
  <2>1. SUFFICES ASSUME ~late, NEW k \in Keys, NEW t \in Times
                 PROVE  In(wrong[k], Span(k, t)) <= FailureLimit(k)
    BY DEF GuessesBounded
  <2>2. In(Owed(k), Span(k, t)) <= FailureLimit(k)
    BY <1>1, <2>1 DEF CountInv, OrderInv
  <2> DEFINE f == wrong[k]  g == Owed(k)  S == Span(k, t)
  <2>3. f \in [Times -> Nat] /\ g \in [Times -> Nat] /\ S \in SUBSET Times
    BY <1>4 DEF Span
  <2>4. \A u \in S : f[u] <= g[u]
    <3>1. ASSUME NEW u \in Times  PROVE f[u] <= g[u]
      <4>1. /\ wrong[k][u] \in Nat /\ Cardinality(Holders(k, u)) \in Nat
            /\ Owed(k)[u] = wrong[k][u] + Cardinality(Holders(k, u))
        BY <1>4
      <4>2. QED  BY <4>1
    <3>2. QED  BY <2>3, <3>1
  <2> HIDE DEF f, g, S
  <2>5. In(f, S) <= In(g, S) /\ In(f, S) \in Nat /\ In(g, S) \in Nat
    BY <2>3, <2>4, InIsMonotone, InIsNumber
  <2>6. In(g, S) <= FailureLimit(k)
    BY <2>2 DEF g, S
  <2>7. In(f, S) <= FailureLimit(k)
    BY <2>5, <2>6, ConsentNumbers
  <2>8. QED  BY <2>7 DEF f, S
<1>6. OnlyWrongCount
  <2>1. SUFFICES ASSUME ~failed, \A r \in Posts : post[r] = NoPost,
                        NEW k \in Keys, NEW t \in Times
                 PROVE  attempts[k][t] <= wrong[k][t]
    BY DEF OnlyWrongCount
  <2>2. attempts[k][t] <= Owed(k)[t]
    BY <1>1, <2>1 DEF CountInv, ExactInv
  <2>3. Holders(k, t) = {}
    BY <2>1, HoldsNot DEF Holders
  <2>4. Owed(k)[t] = wrong[k][t]
    <3>1. Cardinality(Holders(k, t)) = 0 /\ wrong[k][t] \in Nat
      BY <1>4, <2>3, FS_EmptySet
    <3>2. Owed(k)[t] = wrong[k][t] + Cardinality(Holders(k, t))
      BY <1>4
    <3>3. QED  BY <3>1, <3>2
  <2>5. QED  BY <2>2, <2>4
<1>7. ConsentTypeOK
  <2>1. ASSUME NEW k \in Keys, NEW t \in Times
        PROVE  attempts[k][t] \in 0 .. MaxPosts /\ wrong[k][t] \in 0 .. MaxPosts
    <3>1. /\ IsFiniteSet(Under) /\ Uncounted(k) \in SUBSET Under /\ Undone \in SUBSET Under
      BY <1>1 DEF BoundInv, Uncounted, Undone, Under, PostStages, Undecided
    <3>2. Cardinality(Uncounted(k)) \in Nat /\ Cardinality(Undone) \in Nat
      BY <3>1, FS_Subset, FS_CardinalityType
    <3>3. /\ attempts[k][t] \in Nat /\ wrong[k][t] \in Nat
          /\ attempts[k][t] + Cardinality(Uncounted(k)) <= posts
          /\ wrong[k][t] + Cardinality(Undone) <= posts
      BY <1>1 DEF ConsentTypes, BoundInv
    <3>4. QED  BY <1>1, <3>2, <3>3
  <2>2. /\ attempts \in [Keys -> [Times -> 0 .. MaxPosts]]
        /\ wrong \in [Keys -> [Times -> 0 .. MaxPosts]]
    <3>1. attempts \in [Keys -> [Times -> Nat]] /\ wrong \in [Keys -> [Times -> Nat]]
      BY <1>1 DEF ConsentTypes
    <3>2. \A k \in Keys : /\ attempts[k] \in [Times -> 0 .. MaxPosts]
                          /\ wrong[k] \in [Times -> 0 .. MaxPosts]
      BY <2>1, <3>1
    <3>3. QED  BY <3>1, <3>2
  <2>3. codes \in [Consents -> 0 .. MaxPosts]
    <3>1. codes \in [Consents -> Nat]
      BY <1>1 DEF ConsentTypes
    <3>2. ASSUME NEW p \in Consents  PROVE codes[p] \in 0 .. MaxPosts
      <4>1. codes[p] \in Nat /\ codes[p] + Cardinality(Under) <= posts /\ Cardinality(Under) \in Nat
        BY <1>1, <3>1, FS_CardinalityType DEF BoundInv
      <4>2. QED  BY <1>1, <4>1
    <3>3. QED  BY <3>1, <3>2
  <2>4. \A r \in Posts : post[r] # NoPost =>
          post[r] \in [stage : {"code", "reads", "address", "total", "uncounts", "hashes",
                                "forgives", "forgives all", "refuses", "approves"},
                       consent : Consents, address : Addresses, typed : {"right", "wrong", "code"},
                       at : Times, pays : BOOLEAN]
    BY <1>1, StagesAre DEF ConsentTypes, PostStates, PostRecords
  <2>5. /\ clock \in Times /\ posts \in 0 .. MaxPosts /\ pending \subseteq Consents
        /\ {approval, late, failed} \subseteq BOOLEAN
        /\ newest \in [Keys -> Times] /\ spent \in Nat
    BY <1>1 DEF ConsentTypes
  <2>6. {attempts, wrong} \subseteq [Keys -> [Times -> 0 .. MaxPosts]]
    BY <2>2
  <2>7. QED  BY <2>3, <2>4, <2>5, <2>6 DEF ConsentTypeOK
<1>8. QED  BY <1>2, <1>3, <1>5, <1>6, <1>7

(* A consent of the MCP server is approved once: it is pending, or with    *)
(* one request, or a code was made for it, however requests race.          *)
THEOREM ConsentsApprovedOnce ==
    ASSUME McpConsentAssumption
    PROVE  ConsentSpec => []ApprovedOnce
<1>1. ConsentIInv => ApprovedOnce
  BY ConsentSafe
<1>2. QED  BY <1>1, ConsentInvariant, PTL

(* One approval code gives one approval, of whichever consent.             *)
THEOREM CodesApproveOnce ==
    ASSUME McpConsentAssumption
    PROVE  ConsentSpec => []CodeApprovesOnce
<1>1. ConsentIInv => CodeApprovesOnce
  BY ConsentSafe
<1>2. QED  BY <1>1, ConsentInvariant, PTL

(* While attempts are counted in the order they were made, the hasher of   *)
(* the MCP server sees no more wrong passwords in any window than the      *)
(* limit, of an address and of all of them.                                *)
THEOREM OwnerGuessesBounded ==
    ASSUME McpConsentAssumption
    PROVE  ConsentSpec => []GuessesBounded
<1>1. ConsentIInv => GuessesBounded
  BY ConsentSafe
<1>2. QED  BY <1>1, ConsentInvariant, PTL

(* When all is quiet and nothing failed, only wrong passwords are counted. *)
THEOREM OwnerNeverLockedOut ==
    ASSUME McpConsentAssumption
    PROVE  ConsentSpec => []OnlyWrongCount
<1>1. ConsentIInv => OnlyWrongCount
  BY ConsentSafe
<1>2. QED  BY <1>1, ConsentInvariant, PTL

(* The types of the consents, and the bounds of their counts.              *)
THEOREM ConsentTypesKept ==
    ASSUME McpConsentAssumption
    PROVE  ConsentSpec => []ConsentTypeOK
<1>1. ConsentIInv => ConsentTypeOK
  BY ConsentSafe
<1>2. QED  BY <1>1, ConsentInvariant, PTL
=============================================================================
