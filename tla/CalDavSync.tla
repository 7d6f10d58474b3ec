---------------------------- MODULE CalDavSync ----------------------------
(***************************************************************************)
(* The copy of one CalDAV calendar on a device (createCalDavSync): a       *)
(* refresh compares the server's change marker with the one the copy came  *)
(* from and fetches what is new, and loadCompleted fetches the completed   *)
(* tasks too.  The server changes between any two requests.                *)
(*                                                                         *)
(* An object is its version; its etag tells versions apart, except for the *)
(* objects the server sends without one.                                   *)
(***************************************************************************)
EXTENDS Integers, FiniteSets

CONSTANTS Objects,
          Completed,     \* the objects that are completed tasks
          Untagged,      \* the objects the server sends without an etag
          Loads,         \* calls of loadCompleted
          MaxChanges, MaxRefreshes    \* bounds

ASSUME CalDavSyncAssumption ==
    /\ Completed \subseteq Objects /\ Untagged \subseteq Objects
    /\ MaxChanges \in Nat /\ MaxRefreshes \in Nat

Absent == 0
NoMarker == 0 - 1

VARIABLES
    onServer,     \* object -> the version the server holds
    marker,     \* the server's change marker: the number of changes
    onDevice,       \* object -> the version the store holds
    stored,     \* the stored calendar: what was listed, the marker its objects came from
    runs,       \* the refresh and the loads: where they are, and what they have read
    refreshes,
    overlap     \* history: two of them ran at once

davVars == <<onServer, marker, onDevice, stored, runs, refreshes, overlap>>

Works == {"refresh"} \union Loads

NoObjects == [o \in Objects |-> Absent]
NoCalendar == [listed |-> NoMarker, synced |-> NoMarker, completed |-> FALSE]
IdleRun == [pc |-> "idle", cal |-> NoCalendar, all |-> FALSE, had |-> NoObjects, seen |-> NoObjects,
            got |-> NoObjects]

DavInit ==
    /\ onServer \in [Objects -> {Absent, 1}] /\ marker = 0
    /\ onDevice = NoObjects /\ stored = NoCalendar
    /\ runs = [r \in Works |-> IdleRun] /\ refreshes = 0 /\ overlap = FALSE

Busy == {r \in Works : runs[r].pc \notin {"idle", "done"}}

Goes(r, run) == runs' = [runs EXCEPT ![r] = run]
Overlaps(r) == overlap' = (overlap \/ Busy \ {r} # {})

\* A call that failed or finished; a load is called once.
Finished(r) == [IdleRun EXCEPT !.pc = IF r = "refresh" THEN "idle" ELSE "done"]

----------------------------------------------------------------------------
(* The server.                                                             *)

Change ==
    /\ marker < MaxChanges /\ marker' = marker + 1
    /\ \E o \in Objects : \E v \in {Absent, marker + 2} :
          onServer[o] # v /\ onServer' = [onServer EXCEPT ![o] = v]
    /\ UNCHANGED <<onDevice, stored, runs, refreshes, overlap>>

\* What the server lists: completed tasks only when asked for.
Listed(completed) ==
    [o \in Objects |-> IF o \in Completed /\ ~completed THEN Absent ELSE onServer[o]]

----------------------------------------------------------------------------
(* A refresh: the calendar and its marker, then its objects.               *)

ListCalendars ==
    /\ runs["refresh"].pc = "idle" /\ refreshes < MaxRefreshes
    /\ refreshes' = refreshes + 1
    /\ Goes("refresh", [IdleRun EXCEPT !.pc = "calendars", !.cal.listed = marker])
    /\ Overlaps("refresh")
    /\ UNCHANGED <<onServer, marker, onDevice, stored>>

\* What the store said of the calendar before.
ReadCalendars ==
    LET run == runs["refresh"] IN
    /\ run.pc = "calendars"
    /\ Goes("refresh", [run EXCEPT !.pc = "replace",
                           !.cal = [stored EXCEPT !.listed = run.cal.listed]])
    /\ UNCHANGED <<onServer, marker, onDevice, stored, refreshes, overlap>>

\* A calendar whose marker is the one its copy came from is left alone.
Unchanged(cal) == cal.listed = cal.synced

ReplaceCalendars ==
    LET run == runs["refresh"] IN
    /\ run.pc = "replace"
    /\ stored' = run.cal
    /\ Goes("refresh", IF Unchanged(run.cal) THEN IdleRun
                     ELSE [run EXCEPT !.pc = "versions", !.all = run.cal.completed])
    /\ UNCHANGED <<onServer, marker, onDevice, refreshes, overlap>>

\* loadCompleted of a calendar the store has.
LoadCompleted(l) ==
    /\ runs[l].pc = "idle" /\ stored # NoCalendar
    /\ Goes(l, [IdleRun EXCEPT !.pc = "versions", !.cal = stored, !.all = TRUE])
    /\ Overlaps(l)
    /\ UNCHANGED <<onServer, marker, onDevice, stored, refreshes>>

----------------------------------------------------------------------------
(* The objects of a calendar, for either.                                  *)

ReadVersions(r) ==
    /\ runs[r].pc = "versions"
    /\ Goes(r, [runs[r] EXCEPT !.pc = "list", !.had = onDevice])
    /\ UNCHANGED <<onServer, marker, onDevice, stored, refreshes, overlap>>

\* The list brings the bodies, or only the versions.
List(r) ==
    LET listed == Listed(runs[r].all) IN
    /\ runs[r].pc = "list"
    /\ \/ Goes(r, [runs[r] EXCEPT !.pc = "apply", !.seen = listed, !.got = listed])
       \/ Goes(r, [runs[r] EXCEPT !.pc = "fetch", !.seen = listed])
    /\ UNCHANGED <<onServer, marker, onDevice, stored, refreshes, overlap>>

\* An object whose version the store had is not written again, unless its etag says nothing.
IsCurrent(run, o) == o \notin Untagged /\ run.had[o] = run.seen[o]

Wanted(run) == {o \in Objects : run.seen[o] # Absent /\ ~IsCurrent(run, o)}

Dropped(run) == {o \in Objects : run.had[o] # Absent /\ run.seen[o] = Absent}

\* Then the bodies are fetched, as they are by now; the server may leave some out.
Fetch(r) ==
    /\ runs[r].pc = "fetch"
    /\ \E left \in SUBSET Wanted(runs[r]) :
          Goes(r, [runs[r] EXCEPT !.pc = "apply",
                       !.got = [o \in Objects |-> IF o \in left THEN Absent ELSE onServer[o]]])
    /\ UNCHANGED <<onServer, marker, onDevice, stored, refreshes, overlap>>

\* The marker the copy counts as in step with: the one listed before the objects were, and none
\* while a wanted object did not come.
SyncedTo_Now(cal, complete) == IF complete THEN marker ELSE cal.synced    \* a mutant of SyncedTo
SyncedTo(cal, complete) == IF complete THEN cal.listed ELSE cal.synced

\* Whether the copy counts as holding the completed tasks.
HoldsCompleted(run, complete) == IF complete THEN run.all ELSE run.cal.completed

\* The changes of one run are applied at once.
Apply(r) ==
    LET run == runs[r]
        came == {o \in Wanted(run) : run.got[o] # Absent}
        complete == came = Wanted(run)
    IN  /\ run.pc = "apply"
        /\ onDevice' = [o \in Objects |-> IF o \in came THEN run.got[o]
                                      ELSE IF o \in Dropped(run) THEN Absent
                                      ELSE onDevice[o]]
        /\ stored' = [run.cal EXCEPT !.synced = SyncedTo(run.cal, complete),
                                     !.completed = HoldsCompleted(run, complete)]
        /\ Goes(r, Finished(r))
        /\ UNCHANGED <<onServer, marker, refreshes, overlap>>

\* A request fails: nothing is applied, and the next refresh asks again.
RunFails(r) ==
    /\ runs[r].pc \in {"list", "fetch"}
    /\ Goes(r, Finished(r))
    /\ UNCHANGED <<onServer, marker, onDevice, stored, refreshes, overlap>>

DavNext ==
    \/ Change \/ ListCalendars \/ ReadCalendars \/ ReplaceCalendars
    \/ \E l \in Loads : LoadCompleted(l)
    \/ \E r \in Works : ReadVersions(r) \/ List(r) \/ Fetch(r) \/ Apply(r) \/ RunFails(r)

DavSpec == DavInit /\ [][DavNext]_davVars

----------------------------------------------------------------------------
(* Properties.                                                             *)

\* The types of the variables.
DavTypeOK ==
    /\ onServer \in [Objects -> Nat] /\ onDevice \in [Objects -> Nat] /\ marker \in 0..MaxChanges
    /\ stored.listed \in NoMarker..marker /\ stored.synced \in NoMarker..stored.listed
    /\ \A r \in Works : runs[r].pc \in {"idle", "calendars", "replace", "versions", "list",
                                       "fetch", "apply", "done"}

\* A copy that counts as in step is in step: when the next refresh would find its marker
\* unchanged and skip it, it holds exactly what the server holds of the objects it asks for -
\* whatever changed between the requests of the runs before and whatever did not come - and at
\* most true versions of the others; runs that overlap excepted (sync.ts:7-9, 195-199).
InStep ==
    ~overlap /\ stored.synced = marker =>
        \A o \in Objects :
            \/ onDevice[o] = onServer[o]
            \/ onDevice[o] = Absent /\ o \in Completed /\ ~stored.completed

\* Once loaded, completed tasks stay part of what refreshes bring, runs that overlap excepted
\* (sync.ts:30-31).
StaysLoadedStep == ~overlap' /\ stored.completed => stored'.completed
StaysLoaded == [][StaysLoadedStep]_davVars
=============================================================================
