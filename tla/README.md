# Specifications of ts-libs

TLA+ models of the parts of ts-libs that are hard to test: code in which several
tabs, workers, requests or callbacks act on shared state, in which calls are lost,
repeated or late, and in which a process may die between two steps. TLC checks the
models on small instances; TLAPS proves the main invariants for every instance.

- [The system](#the-system)
- [Modules](#modules)
- [Runs](#runs)
- [Proofs](#proofs)
- [Where code and documentation differ](#where-code-and-documentation-differ)
- [Not modelled](#not-modelled)
- [Plan](#plan)

## The system

ts-libs is a set of libraries. Their stateful parts are these; the rest
(parsers, translations of other services' interfaces, pure helpers) is listed in
`PROJECT.json` under `components` with the reason it is not modelled.

### realtime: a client that works offline

| Component | State | Operations | What must hold |
| --- | --- | --- | --- |
| client outbox (`realtime/outbox.ts`) | a stored queue with one waiting write per entity, conflicts, the keys and undo snapshots of each write; marks of running `submit` calls | `submit`, `flush`, `withdraw`, `keepMine`, `useTheirs` | no edit is lost, one write per entity, one command per idempotency key, what `submit` answers is so, the queue drains |
| collections (`realtime/collections.ts`) | several outboxes, what each tab last read of them, references of children to parents | `flush`, `submit`, `syncFlush`, the removal of references | a child is not sent before the parent it refers to; a reference to what will never exist goes; what can be sent is not forgotten |
| sync runner (`realtime/sync-runner.ts`, `page-lifecycle.ts`) | active, again, in progress, retry and poll timers, what the screen is told | `start`, `stop`, `kick`, timers, page events | one flush at a time, no kick lost, no timer left after `stop`, failed flushes are retried |
| client transport (`realtime/client-transport.ts`) | status, timers, the current socket, the chain of pulls, pending calls, the durable cursor | `connect`, `stop`, `resume`, calls, frames, timers, the gate of a reconnect | no call outlives its socket; the cursor moves only behind what was pulled; the status is true; a dead socket is found |
| calls and operations (`realtime/calls.ts`, `operations.ts`) | calls in flight over two ways, the browser's session, keys | `sendCommand`, `sendQuery`, the gate of the server | a command takes effect once and for the user of its page |
| connection registry (`realtime/registry.ts`, `notify.ts`) | connections per user, their liveness, requests in flight | attach, detach, beat, dispatch, answer | a silent connection is reaped; work for the gone is told to stop; a request is answered once |
| changes feed (`realtime/changes.ts`) | the group's sequence and the deletions it remembers; the device's copy and cursor | pull, page, reset, drop | the copy holds every change up to its cursor |

The screen calls the outboxes of its collections; the sync runner calls `flush` on a
timer, on a kick and when the page comes back; a flush sends commands through the
transport or over HTTP; the server's registry dispatches them to operations, whose
idempotency middleware answers a repeated key; the changes feed brings back what other
devices wrote. Two tabs of one browser share the stored queues and a Web Lock, and
nothing else.

### server: jobs and protection

| Component | State | Operations | What must hold |
| --- | --- | --- | --- |
| server outbox (`server/outbox`) | rows with an attempt count, a claim and a next time; workers in the middle of a batch | claim, publish, mark, retry, give up, release, find lost, schedule, purge | a prompt publish is delivered by one worker at a time; attempts are bounded; giving up is told once; one run of a repeating job waits; every row ends |
| idempotency (`server/idempotency`) | claims with a token and a lease, stored answers | claim, complete, release, replay | one request at a time runs under a key; a stored answer is never replaced |
| lockout (`server/lockout`) | failures and locks of a subject, a full store | begin, fail, refund, sweep | guesses are bounded whatever races; dropping a counter is never noticed |
| quota (`server/quota.ts`) | counters by window, a pool | reserve, release, record | the gate is exact while the store works and fails closed when it does not |
| mcp-oauth (`server/mcp-oauth`) | codes, token pairs, grants, consents, counted attempts | redeem, rotate, revoke, approve, deny | a revoked grant stays revoked; one rotation of a token; a consent is approved once; guesses are bounded |
| sign-in and accounts (`server/auth`) | users, keys, sessions and mailed codes of an address | sign up, sign in, change, reset, verify | an address has one owner; who cannot read its mail cannot keep it; a replaced word dies |
| key-value store (`server/kv`) | a shared connection, its replacement, calls | send, reconnect, close | no socket leaks; a command is sent twice at most |
| subscribers (`server/subscribers`) | the file of addresses and marks; the log of who got an issue, with its journal | confirm, unsubscribe, send an issue | a person gets an issue once but for what a crash costs; an older link does not undo an unsubscribe |

Workers of the server outbox are processes on several machines that share one
Postgres table; the publisher is a callback that may take any time or throw; the
application writes rows in its own transactions (`scheduleOutboxEvent`).

### platform and caldav

| Component | State | Operations | What must hold |
| --- | --- | --- | --- |
| cache (`platform/cache`) | one key, the wire to the server, whether it is trusted, coalesced loads | wrap, delete, clear, restart | a row older than a finished delete is not served; callers share one load |
| rate limit (`platform/rate-limit`) | buckets of moments, how full the limiter is | check, refund, sweep | it counts what it accepted and did not give back |
| files and runners (`platform/server`) | a document with its marks and writes; reminders with the window of the last tick | mark, flush, dispose; tick, stop, crash | what a flush promised is on disk; a reminder is sent once and none is skipped |
| database (`server/db`) | the gate and transaction of a SQLite connection; the history of migrations and the files deployed | statements, transactions, close; a run of migrations, a deployment | one transaction at a time, and what a caller was told is there or is not; a body is applied once and in order |
| file lock (`platform/server/file-lock.ts`) | the owner of a directory, the queue of each instance | acquire, release, run exclusively | one body runs at a time, over all processes |
| caldav sync (`caldav/sync.ts`) | the copy of a calendar with the marker it came from | refresh, load completed | the copy is the server's calendar at its marker |

`email`, `billing`, `net`, `time` and `validation` are translations and pure functions;
`integrations` are single requests with a retry.

### What is hard

`PROJECT.json` lists each hazard at its line. In short: *interleaving* (two tabs, two
workers, a callback in the middle of a run), *unknown outcomes* (a command whose answer
is lost may still arrive), *crashes* (a tab closes during a send, a worker dies between
publish and mark), *lateness* (a worker comes back after its lease), *stale reads* (a
conflict card, the snapshot of a statement), and *starvation* (what is skipped, handed
back or put off must still be done).

## Modules

Each module names the code it models in its header; `PROJECT.json` maps each definition
to its lines. `MC` modules give values for TLC, `Proofs` modules hold theorems.

Every module is written in steps of the code: an action is what one piece of code does
between two points at which another actor can get in between (two statements of a
database, two awaits, two holders of a lock, two calls of a subscriber).

### ClientOutbox (`src/realtime/outbox.ts`)

| In the module | In the code |
| --- | --- |
| `queue`, `nextSeq`, `nextKey` | the `OutboxStore`: entries, their `seq`, the keys `newKey()` gives |
| `lock` | `withLock`: the Web Lock that all tabs share (one tab alone may use the promise lock) |
| `pc`, `todo`, `sending` | where `flush` stands, the list it reloaded, the send it awaits |
| `call`, `watched` | running `submit` calls and the map `interactive` of a tab |
| `cards` | conflicts that some screen has drawn, and may settle later |
| `server`, `applied`, `inFlight` | the application's server (external): versions, keys it has answered, commands on the wire |
| `sent`, `wanted`, `landed` | history: what was sent, what the person wants, what took effect |

`submit` is `SubmitFirst`, `SubmitIgnored`, `SubmitUpdate`, `SubmitDelete` or
`SubmitDrop` by what waits for the entity; `flush` is `Reload`, then `SkipEntry`,
`StopOffline` or `StartSend` for each entry, and one of the actions that end a send
(`SendSucceeds`, `SendUnreachable`, the `Refused...` actions, `ServerFetched`,
`FetchUnreachable`). `Withdraw`, `KeepMine` and `UseTheirs` are what a person does with
a waiting write. `LateArrival`, `OtherDevice` and `TabCloses` are the environment. The first line of
`refuse()`, which returns when the entry was replaced during its send, has no action: under
the lock no step can replace it (`EntryHeldWhileSending`, proved as `HeldWhileSending`).

Abstractions: a change is its number, which is also its payload and its `submit` call;
the call returns in the same step as the last step of its flush; one tab runs one flush
of its own at a time; a command has at most one copy in flight; the server answers a key
that took effect with its result and does not remember refusals; another device creates
only what never existed; `keepMine`'s own flush is the tab's flush. Not modelled:
`cache`, `ready`, `flushQueues`, `onAbandoned`, and the field `ownCreates` of a delete.

### SyncRunner (`src/realtime/sync-runner.ts`, `page-lifecycle.ts`)

`stage` says where each call of `run()` stands; `active`, `again`, `inProgress` and the
timers are the variables of the closure. JavaScript runs to completion, so a step is
what happens between two awaits. It is cut once more wherever `update()` calls the
subscribers, because they are code of the app and may call `start`, `stop` or `kick`
from inside; `ListenerCalls` says which of them do. `retryHeld` and `retryTimers` are
two variables because the handle of an armed timer can be overwritten. Delays are left
out: an armed timer may fire at any moment. `failures` saturates at `MaxFailures`.
Not modelled: `subscribe` and `unsubscribe`, `flushOutbox`, and an `isOnline` of the app
that changes without an event.

### ServerOutbox (`src/server/outbox`)

| In the module | In the code |
| --- | --- |
| `row` | `outbox_events`, without payload and error text |
| `pc`, `batch`, `first`, `elapsed`, `busy`, `slowest` | the locals of `drainOnce` |
| `others` | what the snapshot of `giveUp`'s statement showed of the job's other rows |
| `tries`, `reports` | history: publishes, and calls of `onAttemptFailed` for a row given up |

Each statement of `postgres-repository.ts` is one action, except `giveUp`: at READ
COMMITTED it reads a snapshot (`GiveUpStarts`, `CloseLostStarts`) and writes later
(`GiveUpEnds`, `CloseLostEnds`). Claims take rows in the order of the query, and
`RETURNING` gives them back in any order. `MarkThrows` is a `markProcessed` that fails
before or after the database did it. `Crash` is a worker that dies, or a statement that
throws out of the drain.

Time is relative (how long until a row is available, how long ago it was claimed, how
long a drain and an event have taken), and `Tick` moves it. Values beyond `Horizon`, or
`Lease` for a worker's clocks, are not told apart: no comparison in the code tells them
apart either. Without `Prompt` a worker may be slower than any limit. With it, workers
keep what the documentation asks of them: an event takes no longer than
`slowestPublishMs`. A purged row's id is used again, once no worker holds the row; days
pass before that in the code. With `Repeats` all rows are runs of one job, at a fixed
interval; cron times are left out, and so are error names and the reports of failures
that are not the last.

### IdempotencyContract and Idempotency (`src/server/idempotency`)

`IdempotencyContract` is the abstract specification: the rules of `memory.ts`, in which
each call of the store is indivisible. Its state is who owns the key, whether the lease
is over, whose result is stored, who runs the command and what each request was
answered.

`Idempotency` is the detailed one: the statements of `postgres.ts` one by one, and the
middleware of `idempotency.ts` around them. `begin` is `Begin` (the DELETE of a
forgotten key), `Insert`, the SELECT with its four outcomes (`ReadNothing`,
`ReadReused`, `Replay`, `ReadStarted`) and `TakeOver`; then `RunSucceeds` or
`RunThrows`; then `Complete` or `Release`. A request may be held up between any two of
them, and die at any of them (`Dies`; the process, the connection or a statement).
`Contract` maps the row to the contract's owner, lease and result, and
`ImplementsContract` says that every step is one of the contract's or none.

One key of one user is enough: no statement touches another row, except `sweep`, which
treats each on its own. A request is its own claim token, because it claims at most
once. A failed command changed nothing (it is one transaction of the app). Two
assumptions on the constants are not checked by the code: `Retention >= Lease` (the
defaults are 7 days and 30 seconds), and `HeldUp <= Lease` (see below).

### The other modules of the server

Times are moments of a clock with a bound (`MaxTime`), and a process may die wherever the
code awaits something.

| Module | State and steps | Left out, or assumed |
| --- | --- | --- |
| `Lockout` (`server/lockout/mod.ts`, `memory-store.ts`) | `row` and `held` are the counters of a store with `MaxEntries` places; `BeginCheck`, `FailCheck`, `RefundCheck` are the updates, each one step, with the sweep that comes before it. `unswept` is the store that never drops a counter, which is what Postgres does; `outlived` names the subjects with a check that came to its end after its counter was dropped | a check takes `Slowest` at most; `createMissing: false` |
| `Quota` (`server/quota.ts`) | `used` by counter and window; each call of the store may throw before or after its effect. `failed` and `stepped` say that something threw or died, or that the clock went back | a count is one unit |
| `Cache` (`platform/cache/cache.ts`, `fail-open.ts`) | `wire` is the queue of commands the server has not answered; `trusted`, `due` and `waiting` are the recovery; `pending` is the load others join; `floor` is the newest version whose delete is over | one key, one process; the commands of a closed connection are not executed after later ones |
| `McpGrant` (`server/mcp-oauth/authorization-server.ts`, `kv-store.ts`) | one grant: its code, tokens and record; a request reads, then commits with a check of what it read | a request takes less than half the time for which a revocation is remembered |
| `McpConsent` (the same) | consents, approved by a password whose attempts are counted first, or by an approval code | the key of all attempts is no address |
| `Accounts` (`server/auth/password.ts`, `email-code.ts`, `postgres.ts`) | one address; Ann reads its mail, Bob does not. A call reads, hashes or verifies (a long await), then runs one transaction of the store | counted guesses, second factors, providers |
| `Saver` (`platform/server/throttled-saver.ts`) | a document is the number of its newest mark; `writes` holds writes that have not settled, `disk` what the file holds | the rename is atomic |
| `Reminders` (`platform/server/reminder-runner.ts`) | `tick` is where the running tick stands; a state write given up on by the deadline may still land (`stray`) | timers are punctual; the clock steps back by less than `CatchUp` in all |
| `RateLimit` (`platform/rate-limit/memory.ts`, `hono.ts`) | `buckets` of moments, `fullUntil`, the sweep; a request is checked, handled and maybe refunded | the clock does not step back |
| `KvStore` (`server/kv/redis-kv-store.ts`) | `conns` with their socket, link and recorded error; `opening` is the one reconnect that calls share | what a command does at the server |
| `SendIssue` (`server/subscribers/send.ts`, `file-send-log.ts`) | the file, its journal (which a crash may tear), and where the run of each process is | a mark is the person it stands for; rows are mailed in any order |
| `Subscribers` (`server/subscribers/flows.ts`, `file-store.ts`) | one address: its links, its place in the list, its mark; a call checks its link, then waits for the lock | |
| `SqliteDb` (`server/db/sqlite.ts`) | the gate that lets one transaction through, the transaction the engine has open, the writes that are durable; closing waits for the gate | the driver is synchronous; ROLLBACK always ends a transaction, a COMMIT that fails leaves it open; each caller makes one call |
| `Migrations` (`server/db/migrate.ts`, `postgres-migrate.ts`) | `folder` and `recorded`; a run takes the advisory lock, checks its plan, applies what is pending. Files are added, edited, renamed and removed meanwhile | one lock key for all runners; a body without a transaction takes effect whole or not at all (`cutOff` counts those cut off before their record); null checksums; SQLite's queue of runs on one handle |
| `FileLock` (`platform/server/file-lock.ts`, `platform/universal/concurrency.ts`) | `owner` is what the system says, `handle` what an instance thinks, `queue` the mutex | |

### The other modules of the client

| Module | State and steps | Left out, or assumed |
| --- | --- | --- |
| `ClientTransport` (`realtime/client-transport.ts`) | the status, armed timers, the current socket with both its ends, the chain of pulls; a step is what runs between two awaits or events | one group; a timer that is armed may fire at any moment |
| `Registry` (`realtime/registry.ts`) | connections, the beat, requests between dispatch and answer; `Tick` moves the clock | `notify.ts`, which forwards to `sendToUsers` |
| `Calls` (`realtime/calls.ts`, `operations.ts`) | a call's try over either way, every request on the wire (late, lost, or answered by a proxy), the session of the browser, the key at the server | the lease of a key does not end while its command runs (`Idempotency` models that) |
| `ChangesFeed` (`realtime/changes.ts`) | the server's sequence and rows, the shared copy and its cursor, the pull of each tab; `backup` is what a restored server goes back to | one kind of row |
| `CalDavSync` (`caldav/sync.ts`) | an object is its version; a refresh or load is a sequence of requests, between which the server changes | one calendar |
| `Collections` (`realtime/collections.ts`) | parents and children in the queues that tabs share, one lock, the news of parents that are gone | one edit per entry (what happens to an entry is `ClientOutbox`); the app flushes after every change, choice or withdrawal; merged edits are one level deep; landed parents are not changed |

Where a property names something the code cannot promise, a *history* variable excuses
exactly the behaviours in which that happened, and those are listed
[below](#met-while-modelling).

### Modules for checking

- `MCClientOutbox`, `MCSyncRunner` and `MCServerOutbox` give values for TLC and state
  what only a run needs (symmetry, a `VIEW`, the properties of the violation runs).
- `MCDatabase`, `MCServer`, `MCClient` and `MCProgress` put parts that share no state
  into one run. A behaviour picks one `part` and is a behaviour of that part's
  specification; the other parts stay as they begin. A part is either a module that is
  extended, with variables and constants of its own, or an instance whose variables are
  `x1`, `x2`, ... and whose bounds are in its `INSTANCE ... WITH`. A property
  `...Safe` is the conjunction of the safety properties of a part (or of a few that
  belong together; `PartsSafe` and `CopiesSafe` are those of the instances), each of which is stated and explained in the part's module;
  `...TypeOK` collects the type invariants, `...Steps` the action properties. Nothing is
  composed that the code would let interact: the parts that do interact through the
  network meet in the model of what each requires of the other (`Calls` holds the key that
  `Idempotency` keeps, `ClientOutbox` a server that answers a key once).
- `...Proofs` hold the theorems: those of one module each, and in `SyncProofs`
  (`SyncRunner`, `ClientTransport`), `ServerOutboxProofs` (`ServerOutbox`, `Cache`), `DatabaseProofs`
  (`SqliteDb`, `Migrations`, `FileLock`, `RateLimit`), `CopiesProofs` (`ChangesFeed`, `CalDavSync`,
  `Collections`, `Reminders`),
  `CallsProofs` (`Calls`, `Registry`, `Lockout`), `ServicesProofs` (`Idempotency`, `KvStore`, `Quota`,
  `Subscribers`, `Saver`) and `AccessProofs` (`McpGrant`, `McpConsent`, `Accounts`, `SendIssue`) those of
  modules that belong together. The `MC` module of a run extends or instantiates the modules
  that are proved about, so that it checks the very definitions.
- A definition whose name ends in `_Something` (`Takeable_Unchecked`) is a plausible
  mistake in the code, one for each property: with the mistake in place, TLC finds the
  property violated.

## Runs

| Run | Question | What it shows |
| --- | --- | --- |
| `outbox_two_tabs` | may two tabs disturb each other's sends, and does an edit vanish? | two tabs under one Web Lock, two changes, one event (another device or a closing tab), one step of undo |
| `outbox_progress` | does every `submit` answer, and does the queue drain? | two entities, so that one may block the other; no other device and no closing tab |
| `database` | the table of jobs, one SQLite connection, migrations, the lock of a directory | the bounds are below |
| `server` | the server's parts that share no state, with the refinement of the idempotency contract | below |
| `client` | the client's parts that share no state, the registry that answers them and the reminders of tasks | below |
| `progress` | does what must end or go on do so, in eight parts? | one worker (lease 2, no `slowestPublishMs`), one tab, one connection: no other cleans up after it |
| `outbox_lost_in_two_tabs`, `outbox_key_reuse`, `sync_kick_in_listener`, `server_chain_dies`, `transport_stop_at_gate`, `cache_delete_skipped` | violations: see [below](#where-code-and-documentation-differ) | each checks one sentence of the documentation |

Bounds of the parts, and why they are enough:

| Part | Bounds | Why |
| --- | --- | --- |
| `database`: chain | two workers, lease 1, two attempts, `MaxRows` 3, no limit on how slow a worker is | a run that a late worker still holds, its follower, and the second follower that must not be; rows are purged and their ids used again |
| batch | two workers, two rows in a batch, lease 2, `Slowest` 1, prompt steps, no `onAttemptFailed` (the chain has it) | the second event of a batch starts just before or at the limit of the lease |
| sqlite | three callers | one that holds the gate, one that waits, one that closes |
| migrations | two runners, three names, two bodies (one bare), three runs, one failure, two deployments | an edit, a rename and a removal need two names; the third is a file that sorts before both |
| file lock | two instances, three calls, five in all | a holder and two in the queue, and one of another process |
| `server`: idempotency | four requests, three alike; lease 1, retention 2; two looks at the row | a run, two that compete to take it over, one for another input; a key forgotten during a run |
| lockout | two subjects with room for the counter of one; two checks, each as long as the quiet period at most; three checks until a count begins again | making room is the hard part; the second check of the limit forces a sweep, the third meets what it left; a check as slow as the quiet period can meet a full store at its end |
| rate limit | two keys with room for one; three requests | likewise |
| quota | two calls, one user, two sessions in a pool, limits 1, three windows | the last unit is fought for; a window later, and one after that |
| cache | two loads, two writers, three versions, one restart | a load before, between and after two deletes |
| grants, consents | two requests; two consents, two addresses, two approvals posted, one failure of an address within a tick and one in all within two | a race is of two; a code is used twice; the second attempt meets the common limit from another address, or when its own is free again |
| accounts | two calls at a time, three in all, three users | claim, take-over, and a call that overlaps |
| saver | two flushes, three marks (a full batch), one failure | a mark during a write during a flush |
| store | three calls, four connections, two breaks | one that reconnects, one that waits for it, one that is late |
| issue, list | two processes, two issues, two people, one trouble; three runs; two calls at a time, three in all | a run that appends to what a crash tore, and one that reads it; an unsubscribe between check and lock |
| `client`: outbox | one entity, one tab, two changes, one event | one change that is being sent and one that meets it |
| sync | two calls of `run()`, three timers | do two overlap, is a timer leaked |
| transport, hints | one call, one change and a task at a time; no call, two changes and two tasks | a call cut off by a reconnect; a hint that comes during a pull |
| registry | two connections of one user who may have one; two requests of one id | one pushes the other out; an id used again |
| calls | one command, two users, two tries; the socket comes back only while the call waits for its next try (`OpensBetweenTries`) | the answer of the first arrives during the second, which goes another way |
| changes, restored | two rows and tabs, two changes; one row and tab, three changes, with a server that is restored | a page that ends in the middle; a sequence used twice |
| caldav | two objects (one has no etag, one is a completed task), two changes, one refresh besides the loads | a change between two requests of one refresh |
| reminders | two reminders, one crash or one step back (`OneMishap`) | a crash between a send and its record |
| collections | two tabs, a parent, a child, two writes, one trouble | the news of a parent in one tab, a write of a child in the other |

Values beyond a bound are reached by no comparison in the code that the bound leaves
out, or the bound only ends the behaviour (`MaxEvents`, `MaxTime`, `MaxRuns`, `MaxTrouble`);
the theorems hold without them.

Actors and keys that nothing tells apart are symmetric in `server`, which has no liveness
property. `database` has a `VIEW` instead: of the `chain` it leaves out
the clocks of a worker and the columns of a processed row, which no step of that part
reads (their types are proved), and it tells workers apart by what they do.
`CHECK_DEADLOCK` is off where a person may stop making changes, a bound ends the
behaviour, or a part has done all its work.

### Fairness

- *ClientOutbox.* Strong fairness of a flush's steps: a Web Lock serves its waiters in
  turn, but between two turns the lock is held by others. Weak fairness of what the
  holder of a lock does next: the `send` port must settle or time out. `QueueDrains`
  assumes that the connection stays up from some point on; nothing is assumed about
  what the person does.
- *SyncRunner.* Weak fairness of the run's steps (synchronous code goes on), of a
  flush that settles, and of timers that fire. None of the app or the page.
- *ServerOutbox.* Weak fairness of the clock, of each worker's drain (the app calls it
  on an interval) and of `RemoveProcessed`, without which `MaxRows`, a bound of the
  model, would stop the chain. `EveryRowEnds` and `ChainRuns` assume that workers stop
  dying at some point; a row whose every attempt dies is still ended by `findLost`.
- *ClientTransport.* Weak fairness of its timers, of the close event of a socket that is
  closed, and of a task of the chain that settles. None of the network: a socket may
  stay connecting or dead for ever, and the timers must find out.
- *Registry.* Weak fairness of the clock, of the beat and of the timers of requests; none of
  the dispatcher, whose work may never end.
- *Calls.* Weak fairness of the wait for the first open (it has a timer), of the page's own
  steps and of the time-out of a try; none of the network or the server.
- *Cache.* Weak fairness of the steps of `wrap`, of a `load` that settles, and of a cache
  server that answers or fails a command in the end.
- *Saver.* Weak fairness of the clock, timers and writes: each `write` settles.
- *KvStore.* Weak fairness of a command that is answered, fails or times out, and of a
  connection attempt that ends either way.

## Proofs

The theorems hold for every value of the constants that the named assumptions allow:
any number of entities, tabs, changes, workers, rows, requests and attempts, and any
lease. Each follows the same argument: an inductive invariant holds initially, every
action keeps it, and it implies the property. TLC checked each invariant on the bounds of
the component's run before it was proved.

| Theorem | States | The invariant, and why it is needed |
| --- | --- | --- |
| `ClientOutboxProofs!Typing` | `[]TypeOK` | what is being sent is an entry under a key given out |
| `ClientOutboxProofs!OneEntry` | `[]OneEntryPerEntity` | sequence numbers are unique and below the next one: a save replaces one entry, and only of its entity |
| `ClientOutboxProofs!HeldWhileSending` | `[]EntryHeldWhileSending` | whoever sends or asks holds the lock; every step on the queue asks for it |
| `ClientOutboxProofs!NothingVanishes` | `[]NoSilentLoss` | `LossInv`: what was sent is in the queue, awaited, or took effect (`SentIsQueued`, `SendAwaited`, `AppliedLanded`), and a conflict is of a command that was sent (`ConflictsWereSent`). The property assumes `OneCommandPerKey`, as the server does: under a key used for two texts it keeps the first |
| `SyncProofs!RunnerTyping` | `[]TypeOK` | |
| `SyncProofs!RunnerIsSafe` | `[]RunnerSafe` | a call of `run()` between its begin and its end is the only one, exactly while `inProgress`; what is owed is remembered in `again` or about to be flushed |
| `SyncProofs!FlushesAreOwed` | `NoSpuriousFlush`, the part "sync" of `ClientSteps` | `ComesOwed`: while the runner is active, a flush that is to come is owed |
| `SyncProofs!PollsRest` | `[]PollAtRest` | the same invariant |
| `SyncProofs!ShownArmed` | no subscriber kicks implies `[]ShownRetryIsArmed` | no retry timer is armed while a call of `run()` is at work |
| `SyncProofs!StopIsClean` | no subscriber kicks implies `[]StopLeavesNothing` | one timer at most is armed, and then `retry` holds it |
| `SyncProofs!CursorIsBacked` | `[](TransportTypeOK /\ CursorBacked)` | `TasksInv`: a task that has pulled holds no more than the server had, and one that is about to move the cursor does so behind what was fetched |
| `SyncProofs!TransportIsSafe` | when the app is not `Impatient`, `[]TransportSafe` | `ShapeInv` (what status, timers, socket and chain say of one another; one reconnect at most waits in the chain, and one awaits its gate only while the status is reconnecting) and `MissInv` (what was not fetched yet is still to come: at the end of the handshake, by a task, or with the last hint) |
| `SyncProofs!PatientStopIsFinal` | when the app is not `Impatient`, `[]StopIsFinal` | `ShapeInv`. The run `transport_stop_at_gate` shows that the hypothesis is needed |
| `ServerOutboxProofs!OutboxTyping` | `[]TypeOK` | a worker holds only rows of the table, so a new row never takes the id of a held one |
| `ServerOutboxProofs!ReportedOnce` | `[]ToldOnce` | a row that was reported is processed, and no statement opens it again |
| `ServerOutboxProofs!TriedAtMost` | `[]TriesBounded` | each publish has a claim behind it: publishes, and claims not yet used or handed back, are counted in `attempts` |
| `ServerOutboxProofs!OneRun` | for one repeating job, `[]OneRunWaits` | `SnapshotInv`: a snapshot of `giveUp` shows another waiting row only where its own row is closed already, so the statement that writes the next run is never wrong about it |
| `ServerOutboxProofs!NeverTwice` | when the steps of an event are prompt, `[]OneDelivery` | an attempt is in one worker's hands (`OneClaim`), and the rows a worker holds are guarded for the rest of the lease (`LeaseInv`); what a slow claim lost of the lease is made up by the margin before the first event (`Paced`). `PromptSteps` is what the documentation asks: every stage of an event within `slowestPublishMs` |
| `ServerOutboxProofs!CacheIsSafe` | `NoStale`, `RestsFresh` and `OneLoads`, of the part "cache" of `[]PartsSafe` | over the queue of commands, those that wait for a clearing behind those on the wire: `LoadsCurrent` (the load others join, and what it will set, is as new as every delete that began), `LoadsFresh` (a load is as new as the calls it is for), `SetsBehindDeletes` (a set behind a delete is as new as the delete), `TrustedFresh` (so are the sets a trusted cache will take, and what it holds, as every delete that is over) and `GetsFresh` (a get finds nothing older than its call may return). Unless `slipped`, as in the property |
| `ServerOutboxProofs!CacheTypesKept` | `CacheTypeOK` of `Cache`, of the part "cache" of `[]ServerTypeOK` | `ClearsOnce`: only an untrusted cache is cleared, once, after what it was sent |
| `ServicesProofs!Typing` | `[]TypeOK` | |
| `ServicesProofs!RunsAlone` | `[]NeverBeside` | `YoungOwns`: a run within its lease owns the key and is as old as the claim, so neither the takeover nor the retention can touch it |
| `ServicesProofs!FewRuns` | `[]OneExtraPerLease` | `ClaimsCount`: claims that were not given back are at most one for the row and one for each takeover. Cardinalities of finite sets, since requests are any number |
| `ServicesProofs!AnswersFit` | `[]AnswerFits` | `RowFits` and `TakerFits`: a request about to take a claim over has its input, or the claim is younger than its look at the row and not over |
| `ServicesProofs!Implements` | `Spec => ImplementsContract` | the same invariant; each action is mapped to one of the contract or to a stutter |
| `CopiesProofs!ChangesTypeCorrect` | `[]FeedTypeOK` | |
| `CopiesProofs!ChangesComplete` | `[]CopyIsComplete` | the pages of a pull are complete between the cursor it began at and the one it reached; a deletion that is forgotten is older than any cursor that is not reset |
| `CopiesProofs!ChangesAdvance` | the cursor moves on, or the copy is dropped or read in full | the same invariant |
| `CopiesProofs!CopyIsInStep` | `[]InStep` | while runs do not overlap: what the one run under way has read is still so, but for what changed since the marker it listed (`Backed`) |
| `CopiesProofs!CompletedStayLoaded` | `StaysLoaded` | the same invariant: a run carries the calendar it began with |
| `CopiesProofs!CollectionsAreSafe` | `[]CollectionsSafe` | `RefsInv` (what a child refers to is queued, on the server or given up, so that a look at the queues is enough), `QueueInv` (a parent is in one of these places, and what is given up was never sent), `SendInv` (whoever sends has the lock), and `Attended` (for each entry that can be sent some tab was kicked, asked its runner, or is in a flush whose last reading of the queues will make it ask) |
| `CopiesProofs!RemindersSentOnce` | `SentOnce`, of the part "reminders" of `[]CopiesSafe` | `SentInv`: what was delivered is recorded in memory, or lies behind every window to come: a record is forgotten only `CatchUp` in the past, and the clock steps back by less in all (`Behind`); the same of what is stored, whichever write landed last |
| `CopiesProofs!WindowsClosedAreDone` | `ClosedIsDone`, of the same part | `DoneInv`: the end of the last closed window, in memory, on disk and in writes that may still land, leaves nothing open, and a tick knows which of its window it has not handled |
| `CopiesProofs!NoReminderSkipped` | `NoneSkipped`, of the same part | `TimeInv`: the time since the last window closed and the time left to the timers add up to a tick and a wait at most, which `CatchUp` covers |
| `CopiesProofs!RunnerStopIsFinal` | `StopIsFinal`, the part "reminders" of `ClientSteps` | `TickInv`: a tick that was cut is loading or writing |
| `CallsProofs!CallsAreSafe` | `[]CallsSafe` | `TriesInv` (a try that has not come has sent nothing) and `KeyInv` (the key of a command says whether it took effect, and one request at most runs under it) |
| `CallsProofs!RegistryIsSafe` | `[]RegistrySafe` | `BeatInv` (the silence of a connection and the time to the next beat fit the deadline), `FlightInv` (what is in flight runs on a connection that is there, under an id of its own), `WorkInv` |
| `CallsProofs!SaidOnce` | `AnsweredOnce` | the same invariant |
| `CallsProofs!GuessesAreBounded` | `GuessesBounded`, of the part "lockout" of `[]PartsSafe` | `Budget`: a check that ran is in the count or was refunded, and while no lock is set the free budget is not used up |
| `CallsProofs!SweepsAreUnseen` | `SweepsUnseen`, of the same part | `Agrees`: a counter in the store is that of the store that never drops one, and where there is none that counter is `Neutral` (no lock, and quiet or never raised) |
| `CallsProofs!LockoutTypes` | `TypeOK` of `Lockout`, with the size of the store | `CounterTypes`; cardinalities, as a full store gives up at least one counter for a new one; the time a full store waits for is the least of a set of numbers (`Least`) |
| `CallsProofs!QuickChecksAreCounted` | when `Slowest < QuietReset`, `outlived` stays empty | `Alive`: a check under way has a counter, touched when it began or later |
| `ServicesProofs!KvStoreIsSafe` | `[]KvStoreSafe` | `ShapeInv` (one connection at most is being opened, and who waits waits for it), `SocketInv`, `BlameInv` (an error is recorded only on a connection that does not work), and what a call has spent where it stands (`Spent`) |
| `ServicesProofs!HealthyIsKept` | `HealthyKept` | `BlameInv` |
| `ServicesProofs!QuotaIsSafe` | `[]QuotaSafe` | `Booked`: a counter is at least, and while nothing failed exactly, the number of calls that hold a unit of it. Cardinalities again; a refund is keyed as its reservation was |
| `ServicesProofs!NoLinkReplays` | `[]NoReplay` | `MarkStands`: the newest unsubscribe's mark is there until no link from before it works |
| `ServicesProofs!SaverIsSafe` | `[]SaverSafe` | `OneWrite` (one write at a time, and it covers whatever was saved before it), `OwnerFits` (the flush that writes is covered by its write), `WaitInv` (the second write a flush waits for began after the flush, and so covers its marks); `NothingForgotten` is inductive with these |
| `ServicesProofs!NeverOlder` | `NeverBack` | `OneWrite` |
| `AccessProofs!GrantIsSafe` | `[]GrantSafe` | `OneRight` (the grant is one right to a refresh token: an unused code, a request that spent one, or an unused token), `RevokeInv` (a mark outlives every request that began before it), `OverInv` (whoever comes too late stores nothing), `RecordInv` (every pair that can still work is listed while the grant is) |
| `AccessProofs!ConsentsApprovedOnce` | `ApprovedOnce`, of the part "consent" of `[]PartsSafe` | `ConsentInv`: a consent is pending, or with one request, or approved |
| `AccessProofs!CodesApproveOnce` | `CodeApprovesOnce`, of the same part | `CodeInv`: the approval code is in the store, or pays for one request, or is spent |
| `AccessProofs!OwnerGuessesBounded` | `GuessesBounded`, of the same part | `OrderInv`: what the hasher found wrong, or may still find wrong, stays on the count until its window is over; so what a window owes is within what is counted when its last attempt is, and a count takes one more only below the limit |
| `AccessProofs!OwnerNeverLockedOut` | `OnlyWrongCount`, of the same part | `ExactInv`: no more is counted than was wrong or is held by a request |
| `AccessProofs!ConsentTypesKept` | `ConsentTypeOK` of `McpConsent` | `BoundInv`: a count and the requests that are not counted yet are at most the approvals posted |
| `AccessProofs!AccountsAreSafe` | `[]AccountsSafe` | `HoldsKey` and `PersonInv` (a key, its sessions and the calls that hold it stay with the person who chose its word), `ForOwner` (a reset that goes to the owner stays his, as the owner never changes), `DeadInv` (a word is gone from its replacement on, before its sessions are) |
| `AccessProofs!IssuesAreSafe` | the part "issue" of `[]PartsSafe` | `RunFits` (a run has everyone before it that it owes the issue to, and nobody the log holds), `Counted` (one mail of a person is on record or under way, the others are lost), `OneRun` and `Tears` (no torn line meets a log object that counts an issue as started) |
| `AccessProofs!ClosedWhenMailed` | the part "issue" of `ServerSteps` | `RunFits` |
| `DatabaseProofs!SqliteIsSafe` | `[]SqliteSafe` | `GateInv` (the open transaction is that of the holder of the gate, whoever waits waits for it), `WriteInv` (pending writes are of the open transaction) and `CloseInv` (the driver is closed once, by the close in flight) |
| `DatabaseProofs!MigrationsAreSafe` | `[]MigrationsSafe` | `OneWorks` (the lock lets one run past its plan), `PlanInv` (what a plan has left is not recorded, whatever was deployed since) and `CountInv` (a body was committed as often as it is recorded, or was cut off) |
| `DatabaseProofs!RateCountsExactly` | `CountsExactly`, of the part "rate limit" of `[]PartsSafe` | `TalliedIn`: after *every* moment T of the window, as many accepted requests are of a later moment as events are. The one moment of the property is not enough: a refund takes an event of its own moment, and that there is one follows from the tallies of two neighbouring moments |
| `DatabaseProofs!RateRefusesWhenFull` | `RefusesWhenFull`, of the same part | `WaitInv`: each bucket's newest event holds it until `fullUntil` at least, unless a refund touched it |
| `DatabaseProofs!RateLimitTypes` | `TypeOK` of `RateLimit` | `RateTypes`; the search for the first live event ends, as events are in order (`FirstLiveIs`) |
| `DatabaseProofs!FileLockIsSafe` | `[]FileLockSafe` | `QueueInv` (a call in a body is first in its queue) and `HeldInv` (an instance in a body or past its take has the lock) |
| `...TypesKept` of `CopiesProofs` (`Dav`, `Collections`), `ServicesProofs` (`Quota`, `Store`, `List`, `Saver`), `AccessProofs` (`Grant`, `Account`) and `CallsProofs` (`Calls`, `Registry`); `RemindersTypeOK`, `IssueTypes` | the type invariants of these modules, the other parts of `[]ServerTypeOK` and `[]ClientTypeOK` | the invariants above; for `DavTypesKept` also `DavOrder`, which holds however runs overlap: a refresh that has listed the calendars has the newest marker that is known, as only one refresh runs at a time. For `AccountTypesKept`, `AccountBounds` |

Assumptions: `TabsAssumption` and `BoundsAssumption`, `RunnerAssumption`,
`OutboxAssumption`, `IdempotencyAssumption`,
`ChangesAssumption`, `CalDavSyncAssumption`, `CollectionsAssumption`, `CallsAssumption`, `RegistryAssumption`,
`LockoutAssumption`, `CacheAssumption`,
`KvStoreAssumption`, `QuotaAssumption`, `SubscribersAssumption`, `McpGrantAssumption`,
`McpConsentAssumption`,
`AccountsAssumption`, `SaverAssumption`, `TransportAssumption`, `SqliteDbAssumption`,
`MigrationsAssumption`, `FileLockAssumption`, `RateLimitAssumption`,
`RemindersAssumption` (the look-back covers the longest tick and a wait, and more than the clock
steps back in all). TLC evaluates them in every run.
`McpGrantAssumption` has a revocation remembered for longer than two requests last: the code
remembers it for as long as a refresh token lives (`authorization-server.ts:380-381`), weeks
against a request's seconds. Some say that a name is kept apart: no request is `Nobody`, no tab `NoHolder` and no call of `wrap` `NoCall`, values of the model; no address is the
key `Total` of all attempts, as an address is stored by its digest; and the pool of the
sessions is no principal, since the key of a principal is `<kind>:<id>` (`quota.ts:766-776`).

Only model-checked:

- liveness (`SubmitReturns`, `QueueDrains`, and the parts of `OutboxGoesOn`, `TriesAgain` and
  `NobodyWaits`), which needs fairness and so ENABLED, out of the prover's reach;
- `NoLostEdit` and `AnswersAreTrue`, which are false of the code with two tabs (see below),
  and so are stated of one tab;
- the instances themselves. The theorems are of the modules, for every value of their
  constants; `PartsSafe`, `ServerTypeOK`, `BatchSafe`, `ClientTypeOK`, `OutboxSafe` and
  `CopiesSafe` say the same of instances with the bounds of a run, part by part, and are
  not stated again. Each of their parts follows from a theorem of the table, but for the
  two properties of the point before and what is said of `Impatient`;
- what a recursive definition computes for every input, which takes induction over data.

## Where code and documentation differ

Six runs end in a counterexample on purpose; each checks a sentence of the
documentation.

1. `outbox_lost_in_two_tabs`: "a change that joined a write still queued from earlier
   ... is never dropped with it" (`outbox.ts:91-93`). Whether a refused write is `alone`
   is read from marks of this tab and from `before`, which `keepMine` clears: the
   refusal drops what another tab merged in.
2. `outbox_key_reuse`: "a write whose send was started is never taken back"
   (`outbox.ts:101-102`). When the server refuses the update of a create that never
   arrived, the entry becomes the create again with `attempted` reset; `withdraw` then
   restores the text before under a key that already went out.
3. `sync_kick_in_listener`: "`stop()` leaves nothing behind" (`sync-runner.ts:26-27`).
   A subscriber that kicks when it is told of a scheduled retry makes the loop flush
   again without `cancelRetry`; a second failure overwrites the handle of the first
   timer. The passing run and the theorem `StopIsClean` say that without such a
   subscriber nothing is left behind.
4. `server_chain_dies`: "One bad night then costs one run" (`processor.ts:236-237`).
   Two rows of one job that are given up at the same moment each see the other waiting
   in their snapshot, and neither writes a next run.
5. `transport_stop_at_gate`: "A transport that was never started or has stopped stays so"
   (`client-transport.ts:567`). A `stop()` while a reconnect awaits its gate is undone by
   the gate's answer, and a gate that refuses stops a transport on which `connect()` was
   called meanwhile. The passing run has an app that is not `Impatient`: it connects and
   resumes only when no reconnect is in the chain, and may stop at any time but while one
   awaits its gate. A stop that meets a queued reconnect is the case that the look at
   `#stopped` is for (`client-transport.ts:1107`), and `TransportSafe` fails without it.
6. `cache_delete_skipped`: the first failed operation marks the cache untrusted so that
   no stale row is served (`fail-open.ts:24-27`). A delete is skipped while the cache is
   being cleared, and a set that waits for that clearing writes the older row after it
   (`fail-open.ts:62`). `NoStale` excuses the behaviours in which that happened
   (`slipped`).

### Met while modelling

Without a run of their own; where a history variable excuses them from a property, it is
named.

- *Idempotency.* The takeover of a key checks the lease again, but not the input
  (`postgres.ts:165-173`). A request held up between its SELECT and its UPDATE for longer
  than a lease may take over a claim that was freed, made again for another input and
  left by a run that died; a later request of the other input is answered with a result
  that is not its own. With `HeldUp = Lease + 1`, which the assumption excludes, TLC finds
  `AnswerFits` violated.
- *ServerOutbox.* A batch's tail is handed back untried when the lease is nearly over, and
  `RETURNING` has no order: new rows of the same batch may go first each time. No property
  is claimed of several rows due at once.
- *Lockout.* (`outlived`) A check that takes `quietResetMs` or longer may find its counter
  dropped at its end: its failure or refund is then that of a fresh counter, and with a full
  store it is rejected. The documentation says so (`memory-store.ts:34-35`);
  `QuickChecksAreCounted` proves that it takes a check as slow as that.
- *Lockout.* `memory-store.ts:188` says that a later write to a kept counter only moves
  the time it can be dropped further out. Where `maxLockMs` exceeds `quietResetMs`, a
  refund clears a lock and brings that time nearer: a full store then refuses new subjects
  until the lock would have ended, though the counter can go. No property is claimed of
  when a full store has room again.
- *Registry.* An answer is matched by its id only (`registry.ts:659`): the late outcome of
  a request that timed out answers a newer request that uses the id again.
- *Calls.* `unauthorized` or a refusal, told of a repeated command, says nothing about an
  earlier try that was not answered: it may have taken effect.
- *ChangesFeed* (`doubt`). A restored database that moves past the device's cursor before
  the device pulls is not noticed; and a copy in the midst of its pages, which skipped a row
  because it had changed again, lacks the version a restore brings back. So every restore
  excuses the copy until it is read in full; `drop` takes no lock, so a pull in flight refills an
  emptied copy under a cursor (`changes.ts:253`).
- *Quota* (`stepped`). When the clock steps back, a refund may land in an earlier window.
- *McpConsent* (`late`). An attempt that is counted with an older time after a newer one had
  dropped the window is not counted with it (`authorization-server.ts:537-541`).
- *Accounts* (`overlap`). A sign-in that has verified the old password can rehash it over a
  change or reset made meanwhile (`password.ts:702`), or make its session after the others
  were signed out.
- *Reminders*. "Sent once" (`reminder-runner.ts:287`) fails when the clock steps back by
  `catchUpMs` or more, which the assumption excludes.
- *RateLimit*. A bucket emptied by a refund makes no room while `fullUntil` holds
  (`memory.ts:184-187`, `382-387`); a refund after a `reset` in the same millisecond can
  drop another request's moment.
- *KvStore* (`frozen`). A command that times out on a connection whose write error was
  recorded before is sent again (against 505-506).
- *CalDavSync* (`overlap`). `loadCompleted` and `refresh` are not serialised
  (`sync.ts:239-243`): an older list may be applied under a newer marker, and
  `completedLoaded` may be written back.
- *SendIssue* (`overTear`). A log object that counts an issue as started and outlives a tear
  appends to the torn line, after which every load throws (`file-send-log.ts:57-61` says
  that the next mark never joins torn text). It counts one after an append that failed, but
  also after a `start` whose write failed (193), or whose journal could not be removed (154),
  while a run that died before had left the tear. The second way came out of the proof: the
  run's bound of two failures is too small to show it.
- *Subscribers* (`excused`). In the file store an unsubscribe that waited longer for the lock
  replaces a newer mark by an older one (`file-store.ts:284-287`; Postgres takes the
  greater); a confirm that outlives its link while it waits can pass after the mark was
  pruned.
- *SqliteDb*. A scoped `execute` that is not awaited, and runs between the COMMIT and
  `scoped.ended = true` (`sqlite.ts:512-528`), commits on its own: `ToldIsHeld` speaks of
  awaited writes. The outer loop of the gate restarts its bound, so a wait under contention
  can exceed it.
- *FileLock* (`crossed`). `acquire()` that joins during a `runExclusive` loses its lock when
  that body ends, and a `release()` during a body, or a second one after another took the
  lock, lets a body run unlocked (against `file-lock.ts:96-97` and `172-173`). An `acquire`
  during the instance's own release is refused as another instance.
- *Services* (`server/db/services.ts`, not modelled): two updates at once may set the cache
  in the other order than the table and leave a stale row until it expires.

## Not modelled

- The codec of the realtime frames, CalDAV parsing, `email`, `net`, `time`, `validation`:
  functions of their input, for unit tests.
- `billing`, `integrations`, `storage`: single requests to a provider, whose state is the
  provider's.
- HTTP handling, configuration, tasks, infrastructure: no state between requests.
- Inside the parts that are modelled: what the tables above leave out, and the wording of
  errors, logging and metrics.
- The parts together: no module composes the client's outbox with the transport, the
  registry and the idempotency store. Each is checked against what the next one promises.

## Plan

Done: the modules, runs and theorems above. What is left, in this order:

1. *Pure algorithms*: cron fields, cursors and retry delays, against reference
   definitions over bounded inputs.
2. *Composition*: `ClientOutbox` over `Calls` and `Idempotency`, so that what an edit
   becomes at the server is followed through all three.

The violation runs keep their place as long as the disagreement they show is in the code.
