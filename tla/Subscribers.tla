---------------------------- MODULE Subscribers ----------------------------
(***************************************************************************)
(* One address of a mailing list in the file store: confirm links, the     *)
(* unsubscribe, and the mark it leaves so that no earlier link brings the  *)
(* address back.                                                           *)
(*                                                                         *)
(* A call checks its link, then waits for the lock of the file.  An        *)
(* unsubscribe writes two files, the mark first; an unsubscribe of another *)
(* address only drops old marks.                                           *)
(***************************************************************************)
EXTENDS Integers

CONSTANTS ListCalls, \* calls of confirmSubscription and unsubscribe
          Ttl,       \* how long a confirm link works
          MaxTime, MaxCalls    \* bounds

ASSUME SubscribersAssumption == Ttl \in Nat \ {0} /\ MaxTime \in Nat /\ MaxCalls \in Nat

NoTime == 0 - 1

VARIABLES
    listTime,   \* the clock
    links,      \* when confirm links of the address were issued
    listed,     \* the address is in the list
    mark,       \* when it unsubscribed, as its mark says, or NoTime
    listCall,   \* the calls: where they are
    begun,      \* how many were made
    leftAt,     \* history: the newest unsubscribe that removed the address, or NoTime
    back,       \* history: a link issued before the address left brought it back
    excused     \* history: an unsubscribe overtook a newer one, or a link ran out waiting

listVars == <<listTime, links, listed, mark, listCall, begun, leftAt, back, excused>>

NoListCall == [pc |-> "idle"]

ListInit ==
    /\ listTime = 0 /\ links = {} /\ listed \in BOOLEAN /\ mark = NoTime
    /\ listCall = [c \in ListCalls |-> NoListCall] /\ begun = 0
    /\ leftAt = NoTime /\ back = FALSE /\ excused = FALSE

ListTimeGoes ==
    /\ listTime < MaxTime /\ listTime' = listTime + 1
    /\ UNCHANGED <<links, listed, mark, listCall, begun, leftAt, back, excused>>

RequestSubscription ==
    /\ links' = links \cup {listTime}
    /\ UNCHANGED <<listTime, listed, mark, listCall, begun, leftAt, back, excused>>

Alive(link) == listTime < link + Ttl

ListCallStarts(c, what) ==
    /\ listCall[c] = NoListCall /\ begun < MaxCalls
    /\ begun' = begun + 1
    /\ listCall' = [listCall EXCEPT ![c] = what]
    /\ UNCHANGED <<listTime, links, listed, mark, leftAt, back, excused>>

Confirm(c, link) ==
    /\ Alive(link)
    /\ ListCallStarts(c, [pc |-> "add", issuedAt |-> link])

\* The token finds the row without a lock.
Unsubscribe(c) == listed /\ ListCallStarts(c, [pc |-> "remove", at |-> listTime])

UnsubscribeAnother(c) == ListCallStarts(c, [pc |-> "prune", at |-> listTime])

\* Between the two writes of an unsubscribe its call holds the lock.
LockFree == \A c \in ListCalls : listCall[c].pc # "row"

ListCallEnds(c) == listCall' = [listCall EXCEPT ![c] = NoListCall]

Replays_Later(link) == mark # NoTime /\ mark > link    \* a mutant of Replays
Replays(link) == mark # NoTime /\ mark >= link

AddRow(c) ==
    LET link == listCall[c].issuedAt
    IN  /\ listCall[c].pc = "add" /\ LockFree
        /\ listed' = (listed \/ ~Replays(link))
        /\ back' = (back \/ (~listed /\ listed' /\ link <= leftAt))
        /\ excused' = (excused \/ ~Alive(link))
        /\ ListCallEnds(c)
        /\ UNCHANGED <<listTime, links, mark, begun, leftAt>>

\* A mark this old stands for links that no longer work.
Pruned(at) == mark # NoTime /\ mark < at - Ttl

Left(at) == leftAt' = IF at > leftAt THEN at ELSE leftAt

WriteMark(c) ==
    LET at == listCall[c].at
    IN  /\ listCall[c].pc = "remove" /\ LockFree
        /\ mark' = at
        /\ excused' = (excused \/ at < mark)
        /\ \/ /\ listed
              /\ listCall' = [listCall EXCEPT ![c].pc = "row"]
              /\ UNCHANGED leftAt
           \/ /\ ~listed /\ ListCallEnds(c) /\ Left(at)
        /\ UNCHANGED <<listTime, links, listed, begun, back>>

RemoveRow(c) ==
    /\ listCall[c].pc = "row"
    /\ listed' = FALSE
    /\ Left(listCall[c].at)
    /\ ListCallEnds(c)
    /\ UNCHANGED <<listTime, links, mark, begun, back, excused>>

DropMark(c) ==
    /\ listCall[c].pc = "prune" /\ LockFree
    /\ mark' = IF Pruned(listCall[c].at) THEN NoTime ELSE mark
    /\ ListCallEnds(c)
    /\ UNCHANGED <<listTime, links, listed, begun, leftAt, back, excused>>

\* The lock was not free for too long, a write failed, or the process died.
ListCallFails(c) ==
    /\ listCall[c] # NoListCall
    /\ ListCallEnds(c)
    /\ UNCHANGED <<listTime, links, listed, mark, begun, leftAt, back, excused>>

ListNext ==
    \/ ListTimeGoes \/ RequestSubscription
    \/ \E c \in ListCalls :
          \/ Unsubscribe(c) \/ UnsubscribeAnother(c)
          \/ \E link \in links : Confirm(c, link)
          \/ AddRow(c) \/ WriteMark(c) \/ RemoveRow(c) \/ DropMark(c) \/ ListCallFails(c)

ListSpec == ListInit /\ [][ListNext]_listVars

-----------------------------------------------------------------------------

ListTypeOK ==
    /\ links \subseteq 0..listTime
    /\ {listed, back, excused} \subseteq BOOLEAN
    /\ mark \in 0..listTime \cup {NoTime} /\ leftAt \in 0..listTime \cup {NoTime}
    /\ \A c \in ListCalls : listCall[c].pc \in {"idle", "add", "remove", "row", "prune"}

(* A confirm link issued before the address last unsubscribed never brings *)
(* it back, whatever crashed in between and however old marks are dropped  *)
(* (flows.ts:213-215, file-store.ts:91-93).                                *)
NoReplay == back => excused
=============================================================================
