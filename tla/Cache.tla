-------------------------------- MODULE Cache --------------------------------
(***************************************************************************)
(* One key of the cache: CacheService.wrap with its coalesced loads and    *)
(* its generations (src/platform/cache/cache.ts), over a storage that      *)
(* fails open and distrusts the cache until it was cleared                 *)
(* (src/platform/cache/fail-open.ts), over a server that answers in order. *)
(* Writers change the row in the database and then delete the key.         *)
(***************************************************************************)
EXTENDS Integers, Sequences, FiniteSets

CONSTANTS
    Wraps, Writers,
    MaxVersion,     \* bound: versions of the row
    MaxRestarts     \* bound

NoCall == "none"

CacheAssumption ==
    /\ MaxVersion \in Nat \ {0, 1} /\ MaxRestarts \in Nat
    /\ Wraps \cap Writers = {} /\ NoCall \notin Wraps

VARIABLES
    db,         \* the version of the row in the database
    held,       \* what the cache server holds for the key
    wire,       \* commands the server has not answered, oldest first
    trusted,    \* failOpen: whether the cache may be used
    due,        \* failOpen: whether an untrusted cache may be cleared again
    waiting,    \* failOpen: commands that wait for the attempt to clear it
    wrap,       \* the calls of wrap
    pending,    \* the call that others join
    writer,     \* the calls that write the row
    floor,      \* history: the newest version whose delete was over
    slipped,    \* history: a delete was skipped while a set waited
    restarts

cacheVars == <<db, held, wire, trusted, due, waiting, wrap, pending, writer, floor, slipped, restarts>>

Missing == 0        \* no value; versions start at 1

NotCalled == [stage |-> "idle", value |-> Missing, current |-> TRUE, leader |-> NoCall, from |-> 1]

(* The server may hold a row from before this process started.             *)
CacheInit ==
    /\ db = 2 /\ held \in {Missing, 1} /\ floor = 2
    /\ wire = << >> /\ waiting = << >>
    /\ trusted = FALSE /\ due = TRUE
    /\ wrap = [w \in Wraps |-> NotCalled] /\ pending = NoCall
    /\ writer = [d \in Writers |-> [stage |-> "idle", version |-> Missing]]
    /\ slipped = FALSE /\ restarts = 0

Reset == [op |-> "reset", by |-> NoCall]

Recovering == \E i \in 1 .. Len(wire) : wire[i] = Reset

SetsWait == \E i \in 1 .. Len(waiting) : waiting[i].op = "set"

Active == {w \in Wraps : wrap[w].stage \notin {"idle", "done", "failed"}}

-----------------------------------------------------------------------------
(* failOpen: a call goes to a trusted server; an untrusted one is cleared  *)
(* first when that is due, and skipped otherwise.                          *)
Sends(command) == trusted /\ wire' = Append(wire, command) /\ UNCHANGED waiting

WaitsToSend(command) ==
    /\ ~trusted /\ due
    /\ waiting' = Append(waiting, command)
    /\ wire' = IF Recovering THEN wire ELSE Append(wire, Reset)

Skips == ~trusted /\ ~due /\ UNCHANGED <<wire, waiting>>

(* The call of wrap w settles: it and the calls that joined it return.     *)
Joined(w) == {v \in Wraps : wrap[v].stage = "joins" /\ wrap[v].leader = w}

Settled(w, stage) ==
    [v \in Wraps |->
        IF v = w \/ v \in Joined(w)
        THEN [wrap[v] EXCEPT !.stage = stage, !.value = wrap[w].value, !.leader = NoCall]
        ELSE wrap[v]]

NoLonger(S) == IF pending \in S THEN NoCall ELSE pending

-----------------------------------------------------------------------------
(* wrap                                                                    *)
Start(w) ==
    LET command == [op |-> "get", by |-> w]
        begun(stage) == [wrap EXCEPT ![w] = [NotCalled EXCEPT !.stage = stage, !.from = floor]]
    IN  /\ w \notin Active
        /\ \/ (Sends(command) \/ WaitsToSend(command)) /\ wrap' = begun("gets")
           \/ Skips /\ wrap' = begun("missed")
        /\ UNCHANGED <<db, held, trusted, due, pending, writer, floor, slipped, restarts>>

(* A miss joins the load in flight, or starts its own, alone when its      *)
(* generation is over.                                                     *)
Miss(w) ==
    /\ wrap[w].stage = "missed"
    /\ IF pending # NoCall
       THEN wrap' = [wrap EXCEPT ![w].stage = "joins", ![w].leader = pending] /\ UNCHANGED pending
       ELSE /\ wrap' = [wrap EXCEPT ![w].stage = "loads"]
            /\ pending' = IF wrap[w].current THEN w ELSE NoCall
    /\ UNCHANGED <<db, held, wire, trusted, due, waiting, writer, floor, slipped, restarts>>

LoadReads(w) ==
    /\ wrap[w].stage = "loads"
    /\ wrap' = [wrap EXCEPT ![w].stage = "loaded", ![w].value = db]
    /\ UNCHANGED <<db, held, wire, trusted, due, waiting, pending, writer, floor, slipped, restarts>>

(* Only a call whose generation is current writes what it loaded.          *)
MayStore(w) == wrap[w].current

LoadReturns(w) ==
    LET command == [op |-> "set", by |-> w]
    IN  /\ wrap[w].stage = "loaded"
        /\ \/ /\ MayStore(w) /\ (Sends(command) \/ WaitsToSend(command))
              /\ wrap' = [wrap EXCEPT ![w].stage = "sets"] /\ UNCHANGED pending
           \/ /\ ~MayStore(w) \/ (~trusted /\ ~due)
              /\ wrap' = Settled(w, "done") /\ pending' = NoLonger({w})
              /\ UNCHANGED <<wire, waiting>>
        /\ UNCHANGED <<db, held, trusted, due, writer, floor, slipped, restarts>>

LoadFails(w) ==
    /\ wrap[w].stage \in {"loads", "loaded"}
    /\ wrap' = Settled(w, "failed") /\ pending' = NoLonger({w})
    /\ UNCHANGED <<db, held, wire, trusted, due, waiting, writer, floor, slipped, restarts>>

-----------------------------------------------------------------------------
(* A writer: the row first, then the key.                                  *)
WriteRow(d) ==
    /\ writer[d].stage \in {"idle", "done"} /\ db < MaxVersion
    /\ db' = db + 1
    /\ writer' = [writer EXCEPT ![d] = [stage |-> "wrote", version |-> db + 1]]
    /\ UNCHANGED <<held, wire, trusted, due, waiting, wrap, pending, floor, slipped, restarts>>

Raised(d) == IF writer[d].version > floor THEN writer[d].version ELSE floor

Delete(d) ==
    LET command == [op |-> "del", by |-> d]
    IN  /\ writer[d].stage = "wrote"
        /\ wrap' = [w \in Wraps |-> [wrap[w] EXCEPT !.current = @ /\ w \notin Active]]
        /\ pending' = NoCall
        /\ \/ /\ Sends(command) \/ WaitsToSend(command)
              /\ writer' = [writer EXCEPT ![d].stage = "deletes"]
              /\ UNCHANGED <<floor, slipped>>
           \/ /\ Skips
              /\ writer' = [writer EXCEPT ![d].stage = "done"] /\ floor' = Raised(d)
              /\ slipped' = (slipped \/ SetsWait)
        /\ UNCHANGED <<db, held, trusted, due, restarts>>

-----------------------------------------------------------------------------
(* The server answers the oldest command.                                  *)
Effect(command) ==
    CASE command.op = "get" -> held
      [] command.op = "set" -> wrap[command.by].value
      [] command.op \in {"del", "reset"} -> Missing

DeletesOver(D) ==
    /\ writer' = [d \in Writers |-> IF d \in D THEN [writer[d] EXCEPT !.stage = "done"] ELSE writer[d]]
    /\ floor' \in {v \in {floor} \cup {writer[d].version : d \in D} :
                     v >= floor /\ \A d \in D : v >= writer[d].version}

(* The calls that gave the commands of one kind; and, of those that end    *)
(* with their set, the one whose value the call v returns.                 *)
By(commands, op) == {commands[i].by : i \in {j \in 1 .. Len(commands) : commands[j].op = op}}

Ends(commands, v) == {w \in By(commands, "set") : w = v \/ v \in Joined(w)}

(* Commands that are answered with nothing, or not sent at all.            *)
GoOn(commands) ==
    /\ wrap' = [v \in Wraps |->
          IF v \in By(commands, "get") THEN [wrap[v] EXCEPT !.stage = "missed"]
          ELSE IF Ends(commands, v) # {}
          THEN [wrap[v] EXCEPT !.stage = "done", !.leader = NoCall,
                               !.value = wrap[CHOOSE w \in Ends(commands, v) : TRUE].value]
          ELSE wrap[v]]
    /\ pending' = NoLonger(By(commands, "set"))
    /\ DeletesOver(By(commands, "del"))

Serve ==
    /\ wire # << >>
    /\ held' = Effect(Head(wire))
    /\ IF Head(wire) = Reset
       THEN /\ trusted' = TRUE /\ wire' = Tail(wire) \o waiting /\ waiting' = << >>
            /\ UNCHANGED <<wrap, pending, writer, floor>>
       ELSE /\ wire' = Tail(wire) /\ UNCHANGED <<trusted, waiting>>
            /\ IF Head(wire).op = "get" /\ held # Missing
               THEN /\ wrap' = [wrap EXCEPT ![Head(wire).by].stage = "done",
                                            ![Head(wire).by].value = held]
                    /\ UNCHANGED <<pending, writer, floor>>
               ELSE GoOn(<<Head(wire)>>)
    /\ UNCHANGED <<db, due, slipped, restarts>>

Distrusts_NotForDel == trusted' = IF Head(wire).op = "del" THEN trusted ELSE FALSE

Distrusts == trusted' = FALSE

(* The oldest command throws, having had its effect or not: the cache is   *)
(* untrusted, and what waited for a reset that failed is skipped.          *)
Throw ==
    /\ wire # << >> /\ held' \in {held, Effect(Head(wire))}
    /\ Distrusts /\ due' = FALSE
    /\ wire' = Tail(wire)
    /\ IF Head(wire) = Reset
       THEN waiting' = << >> /\ GoOn(waiting)
       ELSE UNCHANGED waiting /\ GoOn(<<Head(wire)>>)
    /\ UNCHANGED <<db, slipped, restarts>>

RetryDue ==
    /\ ~trusted /\ ~due /\ due' = TRUE
    /\ UNCHANGED <<db, held, wire, trusted, waiting, wrap, pending, writer, floor, slipped, restarts>>

Expire ==
    /\ held # Missing /\ held' = Missing
    /\ UNCHANGED <<db, wire, trusted, due, waiting, wrap, pending, writer, floor, slipped, restarts>>

Restart ==
    /\ restarts < MaxRestarts /\ restarts' = restarts + 1
    /\ held' \in {held} \cup {Effect(wire[i]) : i \in 1 .. Len(wire)}
    /\ wire' = << >> /\ waiting' = << >> /\ trusted' = FALSE /\ due' = TRUE
    /\ wrap' = [w \in Wraps |-> NotCalled] /\ pending' = NoCall
    /\ writer' = [d \in Writers |-> [stage |-> "idle", version |-> Missing]]
    /\ slipped' = FALSE
    /\ UNCHANGED <<db, floor>>

CacheNext ==
    \/ \E w \in Wraps : Start(w) \/ Miss(w) \/ LoadReads(w) \/ LoadReturns(w) \/ LoadFails(w)
    \/ \E d \in Writers : WriteRow(d) \/ Delete(d)
    \/ Serve \/ Throw \/ RetryDue \/ Expire \/ Restart

CacheSpec == CacheInit /\ [][CacheNext]_cacheVars

(* Calls of the database and of the cache server settle.                   *)
CacheFairness ==
    /\ \A w \in Wraps : WF_cacheVars(Miss(w)) /\ WF_cacheVars(LoadReads(w)) /\ WF_cacheVars(LoadReturns(w))
    /\ WF_cacheVars(Serve \/ Throw)

FairCacheSpec == CacheSpec /\ CacheFairness

-----------------------------------------------------------------------------
Commands == [op : {"get", "set"}, by : Wraps] \cup [op : {"del"}, by : Writers] \cup {Reset}

CacheTyped ==
    /\ db \in 1 .. MaxVersion /\ held \in Missing .. MaxVersion /\ floor \in 1 .. MaxVersion
    /\ wire \in Seq(Commands) /\ waiting \in Seq(Commands)
    /\ trusted \in BOOLEAN /\ due \in BOOLEAN /\ slipped \in BOOLEAN /\ restarts \in 0 .. MaxRestarts
    /\ wrap \in [Wraps -> [stage : {"idle", "gets", "missed", "joins", "loads", "loaded", "sets",
                                    "done", "failed"},
                           value : Missing .. MaxVersion, current : BOOLEAN,
                           leader : Wraps \cup {NoCall}, from : 1 .. MaxVersion]]
    /\ writer \in [Writers -> [stage : {"idle", "wrote", "deletes", "done"},
                               version : Missing .. MaxVersion]]
    /\ pending \in Wraps \cup {NoCall}

(* One clearing at a time, which is under way while a command waits for    *)
(* it, and others join only a load of the present generation.              *)
CacheTypeOK ==
    /\ CacheTyped
    /\ Cardinality({i \in 1 .. Len(wire) : wire[i] = Reset}) <= 1
    /\ waiting # << >> => Recovering
    /\ pending # NoCall => wrap[pending].current /\ wrap[pending].stage \in {"loads", "loaded", "sets"}

(* The cache-aside pattern: a wrap that starts after the delete of a       *)
(* changed row is over never returns an older version, whatever loads were *)
(* in flight and whatever the cache server forgot, kept or failed to do,   *)
(* unless a delete was skipped while a set waited for the clearing.        *)
NoStale ==
    ~slipped => \A w \in Wraps : wrap[w].stage = "done" => wrap[w].value >= wrap[w].from

(* The same without the exception.  "The first failed operation marks the  *)
(* whole cache untrusted", so that no stale row is served.                 *)
NoStaleEver == \A w \in Wraps : wrap[w].stage = "done" => wrap[w].value >= wrap[w].from

(* What rests in a trusted cache is as new as the last delete.             *)
RestsFresh ==
    ~slipped /\ trusted /\ wire = << >> => held = Missing \/ held >= floor

(* "Call fn() once": of the calls of one generation, one loads.            *)
OneLoads ==
    Cardinality({w \in Wraps : wrap[w].current /\ wrap[w].stage \in {"loads", "loaded", "sets"}}) <= 1

(* A cache server that is down, slow or untrusted keeps no caller waiting. *)
EveryWrapEnds == \A w \in Wraps : w \in Active ~> w \notin Active
=============================================================================
