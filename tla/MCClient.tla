------------------------------ MODULE MCClient ------------------------------
(***************************************************************************)
(* The parts of the client that share no state, and the registry that      *)
(* answers them, in one run: a behaviour picks a part and is a behaviour   *)
(* of that part's specification.  SyncRunner, Calls, ChangesFeed,          *)
(* Registry, CalDavSync, ClientTransport and Collections have variables of *)
(* their own, which stay as they begin in the other parts; x1, x2, ... are *)
(* the variables of whichever other part was picked.                       *)
(***************************************************************************)
EXTENDS SyncRunner, Calls, ChangesFeed, Registry, CalDavSync, ClientTransport, Collections,
        TLC

CONSTANTS a1, a2, b1, k1, k2, u1, u2,   \* actors, and what they act on
          r1, r2,                       \* calls of run(), and reminders
          Off                           \* what unused variables hold

VARIABLES part, x1, x2, x3, x4, x5, x6, x7, x8, x9, x10, x11, x12, x13, x14, x15, x16,
          x17, x18

syncRunner == <<stage, active, again, inProgress, retryHeld, retryTimers, poll,
                failures, nextRetryAt, visible, online, owed>>
ownVars == <<syncRunner, callsVars, feedVars, registryVars, davVars, transportVars,
             collectionsVars>>

(* The variables that a part leaves unused: those from the n-th on.        *)
from1 == <<x1, x2, x3, x4, x5, x6, x7, x8, x9, x10, x11, x12, x13, x14, x15, x16,
          x17, x18>>
from8 == <<x8, x9, x10, x11, x12, x13, x14, x15, x16, x17, x18>>
from11 == <<x11, x12, x13, x14, x15, x16, x17, x18>>

Unused17 == x17 = Off /\ x18 = Off
Unused16 == x16 = Off /\ Unused17
Unused11 == x11 = Off /\ x12 = Off /\ x13 = Off /\ x14 = Off /\ x15 = Off /\ Unused16
Unused8 == x8 = Off /\ x9 = Off /\ x10 = Off /\ Unused11
Unused1 ==
    x1 = Off /\ x2 = Off /\ x3 = Off /\ x4 = Off /\ x5 = Off /\ x6 = Off /\ x7 = Off /\ Unused8

(* Two requests that carry the same id.                                    *)
RequestId == (a1 :> 1) @@ (a2 :> 1)

(* Two reminders, one moment apart.                                        *)
ReminderAt == (r1 :> 1) @@ (r2 :> 2)

-----------------------------------------------------------------------------
(* The client outbox with one entity and one tab, which may close, or      *)
(* another device, which may change the entity.                            *)
Outbox == INSTANCE ClientOutbox WITH
    Entities <- {u1}, Tabs <- {k1}, Nobody <- Off, MaxChanges <- 2, MaxEvents <- 1,
    UndoSteps <- 1, queue <- x1, nextSeq <- x2, nextKey <- x3, lock <- x4, pc <- x5,
    todo <- x6, sending <- x7, call <- x8, watched <- x9, changes <- x10,
    cards <- x11, events <- x12, server <- x13, inFlight <- x14, applied <- x15,
    sent <- x16, wanted <- x17, landed <- x18

-----------------------------------------------------------------------------
(* The client transport with two changes to fetch and no call, and an app  *)
(* that waits while a reconnect is due, but may stop until it asks.        *)
Hints == INSTANCE ClientTransport WITH
    TransportCalls <- {}, Impatient <- FALSE, MaxCommits <- 2, MaxTasks <- 2,
    status <- x1, stopped <- x2, attempt <- x3, timer <- x4, sock <- x5, chain <- x6,
    pending <- x7, cursor <- x8, have <- x9, seq <- x10

ASSUME Hints!TransportAssumption

-----------------------------------------------------------------------------
(* The changes feed with one row, one tab and a server whose database is   *)
(* restored.                                                               *)
Restored == INSTANCE ChangesFeed WITH
    Rows <- {a1}, Tabs <- {k1}, Limit <- 1, MaxSeq <- 3, Restores <- TRUE,
    cur <- x1, oldest <- x2, row <- x3, backup <- x4, copy <- x5, pull <- x6,
    doubt <- x7

-----------------------------------------------------------------------------
(* The reminder runner with two reminders, a crash and a clock that steps  *)
(* back once.                                                              *)
Reminders == INSTANCE Reminders WITH
    Reminders <- {r1, r2}, At <- ReminderAt, Interval <- 1, TickTimeout <- 1,
    CatchUp <- 2, MaxTime <- 3, MaxCrashes <- 1, MaxBack <- 1, now <- x1,
    isStarted <- x2, wait <- x3, left <- x4, joined <- x5, tick <- x6, memory <- x7,
    disk <- x8, stray <- x9, told <- x10, twice <- x11, since <- x12, lapsed <- x13,
    mishap <- x14, crashes <- x15, back <- x16

ASSUME Reminders!RemindersAssumption

-----------------------------------------------------------------------------
(* What the parts promise that are instances here.  No edit of the outbox  *)
(* is lost, and what submit answers is so.  Two hints bring two changes,   *)
(* and the copy of the changes feed holds every change up to its cursor    *)
(* though the server is restored.  No reminder of a task is sent again     *)
(* once recorded, a closed window hides none, and none grows too old while *)
(* all goes well.                                                          *)
CopiesSafe ==
    /\ part = "outbox" => Outbox!NoLostEdit /\ Outbox!AnswersAreTrue
    /\ part = "hints" => Hints!TransportSafe
    /\ part = "restored" => Restored!CopyIsComplete
    /\ part = "reminders" =>
          /\ Reminders!SentOnce
          /\ Reminders!ClosedIsDone
          /\ Reminders!NoneSkipped

-----------------------------------------------------------------------------
(* The types of every part.                                                *)
ClientTypeOK ==
    /\ part = "sync" => TypeOK
    /\ part = "calls" => CallsTypeOK
    /\ part = "changes" => FeedTypeOK
    /\ part = "registry" => RegistryTypeOK
    /\ part = "caldav" => DavTypeOK
    /\ part = "outbox" => Outbox!TypeOK
    /\ part = "transport" => TransportTypeOK
    /\ part = "hints" => Hints!TransportTypeOK
    /\ part = "restored" => Restored!FeedTypeOK
    /\ part = "reminders" => Reminders!TypeOK
    /\ part = "collections" => CollectionsTypeOK

(* A flush starts only for what no earlier one has answered; a request is  *)
(* answered once; a copy's cursor goes back only when the copy is dropped  *)
(* or read in full; completed tasks, once loaded, stay loaded; a stopped   *)
(* reminder runner starts no call.                                         *)
ClientSteps ==
    [][/\ part = "sync" => NoSpuriousFlushStep
       /\ part = "registry" => AnsweredOnceStep
       /\ part = "changes" => CursorAdvancesStep
       /\ part = "restored" => Restored!CursorAdvancesStep
       /\ part = "caldav" => StaysLoadedStep
       /\ part = "reminders" => Reminders!StopIsFinalStep]_<<ownVars, from1>>

-----------------------------------------------------------------------------

ClientInit ==
    /\ Init /\ CallsInit /\ FeedInit /\ RegistryInit /\ DavInit /\ TransportInit
    /\ CollectionsInit
    /\ \/ part \in {"sync", "calls", "changes", "registry", "caldav", "transport", "collections"}
          /\ Unused1
       \/ part = "outbox" /\ Outbox!Init
       \/ part = "hints" /\ Hints!TransportInit /\ Unused11
       \/ part = "restored" /\ Restored!FeedInit /\ Unused8
       \/ part = "reminders" /\ Reminders!Init /\ Unused17
    /\ part # "sync" => visible /\ online
    /\ part # "caldav" => onServer = NoObjects

(* Bounds of the run: the socket opens for the first time whenever it may, *)
(* and again while a call waits for its next try; and a process of the     *)
(* reminder runner dies, or its clock steps back, but not both.            *)
OpensBetweenTries ==
    socket = "down" /\ socket' = "open" /\ first = "over" =>
        \E c \in Calls : call[c].stage = "sleep"
OneMishap == x15' + x16' <= 1

ClientNext ==
    \/ part = "sync" /\ Next
       /\ UNCHANGED <<callsVars, feedVars, registryVars, davVars, transportVars,
                      collectionsVars, from1>>
    \/ part = "calls" /\ CallsNext /\ OpensBetweenTries
       /\ UNCHANGED <<syncRunner, feedVars, registryVars, davVars, transportVars,
                      collectionsVars, from1>>
    \/ part = "changes" /\ FeedNext
       /\ UNCHANGED <<syncRunner, callsVars, registryVars, davVars, transportVars,
                      collectionsVars, from1>>
    \/ part = "registry" /\ RegistryNext
       /\ UNCHANGED <<syncRunner, callsVars, feedVars, davVars, transportVars,
                      collectionsVars, from1>>
    \/ part = "caldav" /\ DavNext
       /\ UNCHANGED <<syncRunner, callsVars, feedVars, registryVars, transportVars,
                      collectionsVars, from1>>
    \/ part = "transport" /\ TransportNext
       /\ UNCHANGED <<syncRunner, callsVars, feedVars, registryVars, davVars,
                      collectionsVars, from1>>
    \/ part = "collections" /\ CollectionsNext
       /\ UNCHANGED <<syncRunner, callsVars, feedVars, registryVars, davVars,
                      transportVars, from1>>
    \/ part = "outbox" /\ Outbox!Next /\ UNCHANGED ownVars
    \/ part = "hints" /\ Hints!TransportNext /\ UNCHANGED <<ownVars, from11>>
    \/ part = "restored" /\ Restored!FeedNext /\ UNCHANGED <<ownVars, from8>>
    \/ part = "reminders" /\ Reminders!Next /\ OneMishap /\ UNCHANGED <<ownVars, x17, x18>>

ClientStep == ClientNext /\ UNCHANGED part
ClientSpec == ClientInit /\ [][ClientStep]_<<part, ownVars, from1>>
=============================================================================
