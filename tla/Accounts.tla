------------------------------ MODULE Accounts ------------------------------
(***************************************************************************)
(* The account of one address: password sign-up, sign-in, change, reset    *)
(* and verification (src/server/auth/password.ts) and sign-in by a mailed  *)
(* code (src/server/auth/email-code.ts), by requests that share a store    *)
(* whose methods are transactions (src/server/auth/postgres.ts).  Ann      *)
(* reads the mail of the address, Bob does not.                            *)
(***************************************************************************)
EXTENDS Integers, FiniteSets

CONSTANTS
    Flows,
    MaxFlows, MaxUsers, MaxSessions, MaxMails   \* bounds

ASSUME AccountsAssumption ==
    {MaxFlows, MaxUsers, MaxSessions, MaxMails} \subseteq Nat \ {0}

VARIABLES
    users,      \* how many users there are
    owner,      \* the user who owns the address
    pw,         \* the password key whose subject is the address
    codeKey,    \* the user of the email-code key of the address
    sessions,   \* active sessions
    mails,      \* live codes sent to the address
    flow,       \* the calls under way
    begunFlows, \* how many have begun
    keys,       \* how many password keys have been made
    dead,       \* history: a user's words replaced by a change or reset that answered
    overlap     \* history: a word was replaced after a call under way had checked it

accountVars == <<users, owner, pw, codeKey, sessions, mails, flow, begunFlows, keys, dead, overlap>>

NoUser == 0
NoKey == [id |-> 0, user |-> NoUser, word |-> "none", outdated |-> FALSE, proven |-> FALSE]

(* What each person types: Ann's words, Bob's, and those they change to.   *)
Next2 == [ann |-> "ann2", bob |-> "bob2", ann2 |-> "ann2", bob2 |-> "bob2"]
Words == DOMAIN Next2

NoFlow == [stage |-> "idle", user |-> NoUser, key |-> 0, word |-> "none", old |-> "none",
           proven |-> FALSE, revokes |-> FALSE, own |-> 0]

AccountsInit ==
    /\ \/ pw = NoKey /\ owner = NoUser /\ users = 0 /\ keys = 0
       \/ /\ users = 1 /\ keys = 1 /\ owner \in {NoUser, 1}
          /\ pw = [id |-> 1, user |-> 1, word |-> "ann", outdated |-> TRUE, proven |-> owner = 1]
    /\ codeKey = NoUser /\ sessions = {} /\ mails = {}
    /\ flow = [r \in Flows |-> NoFlow] /\ begunFlows = 0
    /\ dead = {} /\ overlap = FALSE

FlowGoes(r, stage) == flow' = [flow EXCEPT ![r].stage = stage]
FlowEnds(r) == flow' = [flow EXCEPT ![r] = NoFlow]

FlowBegins(r, fields) ==
    /\ flow[r] = NoFlow /\ begunFlows < MaxFlows /\ begunFlows' = begunFlows + 1
    /\ flow' = [flow EXCEPT ![r] = fields]

(* Sessions belong to a key and go with it.                                *)
OfKey(id) == {s \in sessions : s.key = id}

(* claimAddress: the user becomes the owner unless somebody else is, and   *)
(* an unproven key of another user that carries the address is deleted.    *)
Evicts(u) == pw # NoKey /\ pw.user # u /\ ~pw.proven

MayClaim(u) == owner \in {NoUser, u}

Evicted_None(u) == {}                     \* a mutant of Evicted
Evicted(u) == IF Evicts(u) THEN OfKey(pw.id) ELSE {}

(* The secret is replaced while others have checked the one before.        *)
Overlaps(r) ==
    \E q \in Flows \ {r} :
        flow[q].stage \in {"checked", "rechecks", "changes", "session"} /\ flow[q].key = pw.id
        /\ flow[q].word = pw.word

-----------------------------------------------------------------------------
(* signUp                                                                  *)
SignUp(r, word) ==
    /\ word \in {"ann", "bob"} /\ owner = NoUser
    /\ FlowBegins(r, [NoFlow EXCEPT !.stage = "creates", !.word = word])
    /\ UNCHANGED <<users, owner, pw, codeKey, sessions, mails, keys, dead, overlap>>

CreateUser(r) ==
    /\ flow[r].stage = "creates" /\ users < MaxUsers
    /\ IF pw # NoKey
       THEN FlowEnds(r) /\ UNCHANGED <<users, pw, keys>>
       ELSE /\ users' = users + 1 /\ keys' = keys + 1
            /\ pw' = [id |-> keys + 1, user |-> users + 1, word |-> flow[r].word,
                      outdated |-> FALSE, proven |-> FALSE]
            /\ flow' = [flow EXCEPT ![r].stage = "session", ![r].user = users + 1,
                                          ![r].key = keys + 1]
    /\ UNCHANGED <<owner, codeKey, sessions, mails, begunFlows, dead, overlap>>

(* checkCredentials: verify the word, rehash an outdated hash, and read    *)
(* the key again.                                                          *)
SignIn(r, word) ==
    /\ pw # NoKey /\ pw.word = word
    /\ FlowBegins(r, [NoFlow EXCEPT !.stage = IF pw.outdated THEN "checked" ELSE "rechecks",
                                    !.user = pw.user, !.key = pw.id, !.word = word])
    /\ UNCHANGED <<users, owner, pw, codeKey, sessions, mails, keys, dead, overlap>>

Rehash(r) ==
    /\ flow[r].stage = "checked"
    /\ pw' = IF pw.id = flow[r].key
             THEN [pw EXCEPT !.word = flow[r].word, !.outdated = FALSE]
             ELSE pw
    /\ FlowGoes(r, "rechecks")
    /\ UNCHANGED <<users, owner, codeKey, sessions, mails, begunFlows, keys, dead, overlap>>

Recheck(r) ==
    /\ flow[r].stage = "rechecks"
    /\ IF pw.id = flow[r].key THEN FlowGoes(r, "session") ELSE FlowEnds(r)
    /\ UNCHANGED <<users, owner, pw, codeKey, sessions, mails, begunFlows, keys, dead, overlap>>

(* SessionManager.create: refused when the key has gone.                   *)
HasKey(r) ==
    \/ flow[r].key # 0 /\ pw.id = flow[r].key
    \/ flow[r].key = 0 /\ codeKey = flow[r].user

CreateSession(r) ==
    LET free == {i \in 1 .. MaxSessions : \A s \in sessions : s.id # i}
        new == [id |-> CHOOSE i \in free : TRUE, user |-> flow[r].user, key |-> flow[r].key,
                word |-> flow[r].word]
    IN  /\ flow[r].stage = "session" /\ free # {}
        /\ IF ~HasKey(r) THEN FlowEnds(r) /\ UNCHANGED sessions
           ELSE /\ sessions' = sessions \cup {new}
                /\ IF flow[r].revokes
                   THEN flow' = [flow EXCEPT ![r].stage = "revokes", ![r].own = new.id]
                   ELSE FlowEnds(r)
        /\ UNCHANGED <<users, owner, pw, codeKey, mails, begunFlows, keys, dead, overlap>>

(* replaceSessions: the user's other sessions are signed out last.         *)
SignsOut(r) == {s \in sessions : s.user = flow[r].user /\ s.id # flow[r].own}

ReplaceSessions(r) ==
    /\ flow[r].stage = "revokes"
    /\ sessions' = sessions \ SignsOut(r)
    /\ dead' = dead \cup {flow[r].user} \X ({flow[r].old} \ {flow[r].word, "none"})
    /\ FlowEnds(r)
    /\ UNCHANGED <<users, owner, pw, codeKey, mails, begunFlows, keys, overlap>>

(* A session ends by itself, or is signed out by its user.                 *)
EndSession ==
    /\ \E s \in sessions : sessions' = sessions \ {s}
    /\ UNCHANGED <<users, owner, pw, codeKey, mails, flow, begunFlows, keys, dead, overlap>>

-----------------------------------------------------------------------------
(* changePassword, by somebody who is signed in and knows the word.        *)
Change(r, s) ==
    /\ pw # NoKey /\ pw.user = s.user /\ Next2[pw.word] # pw.word
    /\ FlowBegins(r, [NoFlow EXCEPT !.stage = "changes", !.user = s.user, !.key = pw.id,
                              !.word = pw.word, !.old = pw.word])
    /\ UNCHANGED <<users, owner, pw, codeKey, sessions, mails, keys, dead, overlap>>

SetSecret(r, word) ==
    IF pw.id = flow[r].key
    THEN /\ pw' = [pw EXCEPT !.word = word, !.outdated = FALSE]
         /\ overlap' = (overlap \/ Overlaps(r))
         /\ flow' = [flow EXCEPT ![r].stage = "session", ![r].word = word,
                                       ![r].old = pw.word, ![r].revokes = TRUE]
    ELSE FlowEnds(r) /\ UNCHANGED <<pw, overlap>>

ChangeSets(r) ==
    /\ flow[r].stage = "changes" /\ SetSecret(r, Next2[flow[r].old])
    /\ UNCHANGED <<users, owner, codeKey, sessions, mails, begunFlows, keys, dead>>

-----------------------------------------------------------------------------
(* Mail: anybody asks for codes, each reset code is a challenge of its     *)
(* own, and a sign-in code replaces the one before.                        *)
Ask ==
    /\ \/ \E n \in 1 .. MaxMails : mails' = mails \cup {<<"reset", n>>}
       \/ mails' = mails \cup {<<"login", 1>>}
       \/ /\ pw # NoKey /\ ~pw.proven
          /\ mails' = {m \in mails : m[1] # "verify"} \cup {<<"verify", pw.user>>}
    /\ mails' # mails
    /\ UNCHANGED <<users, owner, pw, codeKey, sessions, flow, begunFlows, keys, dead, overlap>>

(* attemptChallenge: a code that matches is consumed.                      *)
Matched(m) == m \in mails /\ mails' = mails \ {m}

ResetMatch(r) ==
    /\ \E n \in 1 .. MaxMails : Matched(<<"reset", n>>)
    /\ FlowBegins(r, [NoFlow EXCEPT !.stage = "cancels", !.word = "ann2", !.revokes = TRUE])
    /\ UNCHANGED <<users, owner, pw, codeKey, sessions, keys, dead, overlap>>

ResetCancel(r) ==
    /\ flow[r].stage = "cancels"
    /\ mails' = {m \in mails : m[1] # "reset"} /\ FlowGoes(r, "finds")
    /\ UNCHANGED <<users, owner, pw, codeKey, sessions, begunFlows, keys, dead, overlap>>

ResetFind(r) ==
    /\ flow[r].stage = "finds"
    /\ IF pw = NoKey THEN FlowEnds(r)
       ELSE flow' = [flow EXCEPT ![r].stage = "judges", ![r].key = pw.id, ![r].user = pw.user,
                                       ![r].proven = pw.proven]
    /\ UNCHANGED <<users, owner, pw, codeKey, sessions, mails, begunFlows, keys, dead, overlap>>

(* The three branches of completeReset.                                    *)
Judged(r) ==
    CASE owner = flow[r].user -> IF flow[r].proven THEN "sets" ELSE "proves"
      [] owner = NoUser          -> "starts"
      [] OTHER                   -> "adds"

ResetJudge(r) ==
    /\ flow[r].stage = "judges"
    /\ flow' = [flow EXCEPT ![r].stage = Judged(r),
                                  ![r].user = IF Judged(r) = "adds" THEN owner ELSE @]
    /\ UNCHANGED <<users, owner, pw, codeKey, sessions, mails, begunFlows, keys, dead, overlap>>

(* proveKey of the password key.                                           *)
Proves(r, then) ==
    IF pw.id = flow[r].key /\ MayClaim(pw.user)
    THEN pw' = [pw EXCEPT !.proven = TRUE] /\ owner' = pw.user /\ then
    ELSE FlowEnds(r) /\ UNCHANGED <<pw, owner>>

ResetProve(r) ==
    /\ flow[r].stage = "proves" /\ Proves(r, FlowGoes(r, "sets"))
    /\ UNCHANGED <<users, codeKey, sessions, mails, begunFlows, keys, dead, overlap>>

ResetSet(r) ==
    /\ flow[r].stage = "sets" /\ SetSecret(r, "ann2")
    /\ UNCHANGED <<users, owner, codeKey, sessions, mails, begunFlows, keys, dead>>

(* A proven insert for user u; refused when another owns the address or    *)
(* keeps a password key for it.                                            *)
Inserts(r, u) ==
    IF MayClaim(u) /\ (pw = NoKey \/ Evicts(u))
    THEN /\ owner' = u /\ keys' = keys + 1
         /\ sessions' = sessions \ Evicted(u)
         /\ pw' = [id |-> keys + 1, user |-> u, word |-> "ann2", outdated |-> FALSE, proven |-> TRUE]
         /\ overlap' = (overlap \/ Overlaps(r))
         /\ flow' = [flow EXCEPT ![r].stage = "session", ![r].user = u, ![r].key = keys + 1,
                                       ![r].old = pw.word]
    ELSE FlowEnds(r) /\ UNCHANGED <<owner, keys, sessions, pw, overlap>>

ResetAdd(r) ==
    /\ flow[r].stage = "adds" /\ Inserts(r, flow[r].user)
    /\ UNCHANGED <<users, codeKey, mails, begunFlows, dead>>

ResetStart(r) ==
    /\ flow[r].stage = "starts" /\ users < MaxUsers /\ Inserts(r, users + 1)
    /\ users' = IF flow'[r].stage = "session" THEN users + 1 ELSE users
    /\ UNCHANGED <<codeKey, mails, begunFlows, dead>>

-----------------------------------------------------------------------------
(* completeVerification, by Ann signed in to an account of hers.           *)
Verify(r) ==
    /\ pw # NoKey /\ pw.word \in {"ann", "ann2"} /\ Matched(<<"verify", pw.user>>)
    /\ FlowBegins(r, [NoFlow EXCEPT !.stage = "verifies", !.key = pw.id])
    /\ UNCHANGED <<users, owner, pw, codeKey, sessions, keys, dead, overlap>>

VerifyProve(r) ==
    /\ flow[r].stage = "verifies" /\ Proves(r, FlowEnds(r))
    /\ UNCHANGED <<users, codeKey, sessions, mails, begunFlows, keys, dead, overlap>>

(* verifyCode: the code signs in the owner of the address, or a new one.   *)
Login(r) ==
    /\ Matched(<<"login", 1>>)
    /\ FlowBegins(r, [NoFlow EXCEPT !.stage = "logsIn", !.word = "code"])
    /\ UNCHANGED <<users, owner, pw, codeKey, sessions, keys, dead, overlap>>

LoginOwner(r) ==
    /\ flow[r].stage = "logsIn"
    /\ flow' = [flow EXCEPT ![r].stage = "provesCode", ![r].user = owner]
    /\ UNCHANGED <<users, owner, pw, codeKey, sessions, mails, begunFlows, keys, dead, overlap>>

LoginKey(r) ==
    LET u == IF flow[r].user = NoUser THEN users + 1 ELSE flow[r].user
    IN  /\ flow[r].stage = "provesCode" /\ (flow[r].user = NoUser => users < MaxUsers)
        /\ IF MayClaim(u) /\ codeKey \in {NoUser, u}
           THEN /\ owner' = u /\ codeKey' = u
                /\ users' = IF u > users THEN u ELSE users
                /\ sessions' = sessions \ Evicted(u)
                /\ pw' = IF Evicts(u) THEN NoKey ELSE pw
                /\ flow' = [flow EXCEPT ![r].stage = "session", ![r].user = u]
           ELSE FlowEnds(r) /\ UNCHANGED <<users, owner, pw, codeKey, sessions>>
        /\ UNCHANGED <<mails, begunFlows, keys, dead, overlap>>

-----------------------------------------------------------------------------
FlowFails(r) ==
    /\ flow[r] # NoFlow /\ FlowEnds(r)
    /\ UNCHANGED <<users, owner, pw, codeKey, sessions, mails, begunFlows, keys, dead, overlap>>

AccountsNext ==
    \/ \E r \in Flows :
        \/ \E word \in Words : SignUp(r, word) \/ SignIn(r, word)
        \/ \E s \in sessions : Change(r, s)
        \/ CreateUser(r) \/ Rehash(r) \/ Recheck(r) \/ CreateSession(r)
        \/ ReplaceSessions(r) \/ ChangeSets(r)
        \/ ResetMatch(r) \/ ResetCancel(r) \/ ResetFind(r) \/ ResetJudge(r) \/ ResetProve(r)
        \/ ResetSet(r) \/ ResetAdd(r) \/ ResetStart(r)
        \/ Verify(r) \/ VerifyProve(r) \/ Login(r) \/ LoginOwner(r) \/ LoginKey(r)
        \/ FlowFails(r)
    \/ Ask \/ EndSession

AccountsSpec == AccountsInit /\ [][AccountsNext]_accountVars

-----------------------------------------------------------------------------
AccountsTypeOK ==
    /\ users \in 0 .. MaxUsers /\ owner \in 0 .. users /\ codeKey \in 0 .. users
    /\ pw = NoKey \/ pw \in [id : 1 .. keys, user : 1 .. users, word : Words,
                             outdated : BOOLEAN, proven : BOOLEAN]
    /\ sessions \subseteq [id : 1 .. MaxSessions, user : 1 .. users, key : 0 .. keys,
                           word : Words \cup {"code"}]
    /\ dead \subseteq (1 .. users) \X Words /\ overlap \in BOOLEAN /\ begunFlows \in 0 .. MaxFlows

(* The one-owner rule: the address is owned exactly while a proven key     *)
(* carries it, all proven keys that carry it belong to the owner, and a    *)
(* session always has a key of its user.                                   *)
OneOwner ==
    /\ owner # NoUser <=> codeKey # NoUser \/ pw.proven
    /\ codeKey \in {NoUser, owner}
    /\ pw.proven => pw.user = owner
    /\ \A s \in sessions : IF s.key = 0 THEN codeKey = s.user ELSE pw.id = s.key /\ pw.user = s.user

(* "A pre-registered claim loses": whoever signed up with an address that  *)
(* he cannot read mail of holds no session and no password of the account  *)
(* that owns the address, however his sign-ins and changes run against     *)
(* the resets and codes of the person who can.                             *)
NoHijack ==
    owner # NoUser =>
        /\ pw.user = owner => pw.word \notin {"bob", "bob2"}
        /\ \A s \in sessions : s.user = owner => s.word \notin {"bob", "bob2"}

(* Once a change or a reset has answered, the word before it opens         *)
(* nothing and no session that it opened is left, unless a call that had   *)
(* checked that word was still under way when it was replaced.             *)
OldWordDies ==
    ~overlap =>
        <<pw.user, pw.word>> \notin dead /\ \A s \in sessions : <<s.user, s.word>> \notin dead

(* The account belongs to who reads the mail of its address.               *)
AccountsSafe == OneOwner /\ NoHijack /\ OldWordDies
=============================================================================
